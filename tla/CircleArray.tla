---------------------------- MODULE CircleArray -----------------------------
(* CircleArray: a bounded queue in an array, with two cursors that only    *)
(* grow and are taken modulo the length of the array.  Before the write    *)
(* cursor reaches the end of unsigned int, Check turns both down.          *)
(*                                                                         *)
(* The width of unsigned int and the threshold are parameters, in the      *)
(* order of the code's 2^32 and 0xFFFFFF00.  Elements are numbered and the *)
(* numbers used again once they cannot be in the array any more.           *)
EXTENDS Integers, Sequences, SequencesExt

CONSTANTS
  ArrayLen,    \* max_array_len_
  UIntSize,    \* 2^32
  Threshold    \* 0xFFFFFF00

ASSUME RingAssumption ==
  /\ {ArrayLen, UIntSize, Threshold} \subseteq Nat \ {0}
  /\ ArrayLen < Threshold /\ Threshold < UIntSize /\ 2 * ArrayLen < UIntSize

VARIABLES
  ring,       \* write_cursor_, read_cursor_ and array_
  puts,       \* PutN: values still to put
  held,       \* history: the elements put and not yet got
  overtaken,  \* history: a turn-down has put w left of r
  agreed      \* history: PutN and GetN returned what they moved

ringVars == <<ring, puts, held, overtaken, agreed>>

Elements == 0 .. 2 * ArrayLen
AsUInt(n) == n % UIntSize
AsInt(n) == IF 2 * n < UIntSize THEN n ELSE n - UIntSize

------------------------------------------------------------------------------
(* Members, as functions of the object *)

Size(q) == AsInt(AsUInt(q.w - q.r))
SpaceRemain(q) == AsInt(AsUInt(ArrayLen - AsUInt(q.w - q.r)))

MutantCheck(q) ==    \* the read cursor is left where it is
  IF q.w >= Threshold THEN [q EXCEPT !.w = @ % ArrayLen] ELSE q

(* Check: equal cursors stay equal, others are reduced on their own.       *)
Check(q) ==
  IF q.w >= Threshold
  THEN [q EXCEPT !.w = @ % ArrayLen,
                 !.r = IF q.w = q.r THEN q.w % ArrayLen ELSE @ % ArrayLen]
  ELSE q

Put(q, v) ==
  LET c == Check(q)
  IN  IF SpaceRemain(q) > 0
      THEN [c EXCEPT !.array[c.w % ArrayLen] = v, !.w = AsUInt(@ + 1)]
      ELSE q

Lower(m, n) == IF m < n THEN m ELSE n

------------------------------------------------------------------------------

RingInit ==
  /\ ring = [w |-> 0, r |-> 0, array |-> [i \in 0 .. ArrayLen - 1 |-> 0]]
  /\ puts = 0
  /\ held = <<>>
  /\ overtaken = FALSE
  /\ agreed = TRUE

(* PutN, and Put for n = 1: what there is room for is put, value by value, *)
(* and its number returned.                                                *)
PutN(n) ==
  /\ puts = 0 /\ ~overtaken
  /\ puts' = Lower(n, SpaceRemain(ring))
  /\ agreed' = (puts' = Lower(n, ArrayLen - Len(held)))
  /\ UNCHANGED <<ring, held, overtaken>>

(* The number of the next element.                                         *)
NextElement == IF held = <<>> THEN 0 ELSE (Last(held) + 1) % (2 * ArrayLen + 1)

(* What a turn-down does to cursors that differ.                           *)
Overtakes(q) == q.w >= Threshold /\ q.w % ArrayLen < q.r % ArrayLen

PutValue ==
  /\ puts > 0
  /\ ring' = Put(ring, NextElement)
  /\ held' = Append(held, NextElement)
  /\ puts' = puts - 1
  /\ overtaken' = (overtaken \/ Overtakes(ring))
  /\ UNCHANGED agreed

GetValues(n) ==
  LET taken == Lower(n, Size(ring))            \* the returned value
  IN  /\ puts = 0 /\ ~overtaken
      /\ taken > 0
      /\ ring' = [ring EXCEPT !.r = AsUInt(@ + taken)]
      /\ held' = SubSeq(held, taken + 1, Len(held))
      /\ agreed' = (taken = Lower(n, Len(held)))
      /\ UNCHANGED <<puts, overtaken>>

RingNext == PutValue \/ \E n \in 1 .. ArrayLen : PutN(n) \/ GetValues(n)

RingSpec == RingInit /\ [][RingNext]_ringVars

------------------------------------------------------------------------------
(* Properties *)

(* The write cursor never comes to the end of unsigned int, and unless a   *)
(* turn-down has put it left of the read cursor, which it does when the    *)
(* write position in the array is left of the read position, the array     *)
(* holds the elements put and not yet got, in order, Size and SpaceRemain  *)
(* are right, and PutN and GetN return what they moved.                    *)
RingIsFifo ==
  /\ ring.w <= Threshold
  /\ ~overtaken =>
       /\ Size(ring) = Len(held) /\ SpaceRemain(ring) = ArrayLen - Len(held)
       /\ \A i \in 1 .. Len(held) : ring.array[(ring.r + i - 1) % ArrayLen] = held[i]
       /\ agreed
=============================================================================
