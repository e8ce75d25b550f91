------------------------------- MODULE MemPool -------------------------------
(***************************************************************************)
(* CAutoMemPool: up to CHUNK pools of PoolSize objects each, created when  *)
(* the ones before are exhausted and deleted from the end by Shrink.  Each *)
(* (a MaloneMemPool) is an array of elements, each of them on one of two   *)
(* doubly linked lists (PoolList) that are threaded through the elements.  *)
(*                                                                         *)
(* An object is known by its chunk and its index in it, which is what      *)
(* GetContainerElement computes from its address.                          *)
(***************************************************************************)
EXTENDS Integers, Sequences, FiniteSets

CONSTANTS CHUNK,    \* how many pools there may be
          PoolSize,     \* how many objects a pool has
          Null      \* NULL

ASSUME SizesAreValid ==
  /\ CHUNK \in Nat \ {0}
  /\ PoolSize \in Nat \ {0}
  /\ Null \notin 1..PoolSize /\ Null \notin {"free", "used"}

VARIABLES array,     \* m_Array: a pool, or NoPool
          lastUsed,  \* m_LastUsed
          result     \* what the last Allocate returned (history)

poolVars == <<array, lastUsed, result>>

Chunks == 0..(CHUNK - 1)
PoolElements == 1..PoolSize
Lists == {"free", "used"}
Objects == Chunks \X PoolElements

NoPool == [exists |-> FALSE]
Exists(i) == array[i] # NoPool

------------------------------------------------------------------------------
(* PoolList: operations on pool s and its list l *)

(* Mutant: the element's own link back is not set.                         *)
MutantPushback(s, l, e) ==
  IF s.first[l] = Null
  THEN [s EXCEPT !.first[l] = e, !.last[l] = e, !.next[e] = Null, !.prev[e] = Null,
                 !.boss[e] = l, !.count[l] = @ + 1]
  ELSE [s EXCEPT !.next = [@ EXCEPT ![s.last[l]] = e, ![e] = Null],
                 !.last[l] = e, !.boss[e] = l, !.count[l] = @ + 1]

Pushback(s, l, e) ==
  IF s.first[l] = Null
  THEN [s EXCEPT !.first[l] = e, !.last[l] = e, !.next[e] = Null, !.prev[e] = Null,
                 !.boss[e] = l, !.count[l] = @ + 1]
  ELSE [s EXCEPT !.next = [@ EXCEPT ![s.last[l]] = e, ![e] = Null],
                 !.prev[e] = s.last[l], !.last[l] = e,
                 !.boss[e] = l, !.count[l] = @ + 1]

Unlinked(s, e) == [s EXCEPT !.next[e] = Null, !.prev[e] = Null, !.boss[e] = Null]

PopOnly(s, l) ==
  Unlinked([s EXCEPT !.first[l] = Null, !.last[l] = Null, !.count[l] = 0], s.first[l])

Popfront(s, l) ==
  LET second == s.next[s.first[l]]
  IN  IF s.first[l] = s.last[l] THEN PopOnly(s, l)
      ELSE Unlinked([s EXCEPT !.first[l] = second, !.prev[second] = Null,
                              !.count[l] = @ - 1], s.first[l])

Popback(s, l) ==
  LET before == s.prev[s.last[l]]
  IN  IF s.first[l] = s.last[l] THEN PopOnly(s, l)
      ELSE Unlinked([s EXCEPT !.last[l] = before, !.next[before] = Null,
                              !.count[l] = @ - 1], s.last[l])

(* QuickRemoveElement, of an element whose boss is the list.               *)
MutantQuickRemove(s, l, e) ==    \* a mutant: the count stays
  IF s.first[l] = e THEN Popfront(s, l)
  ELSE IF s.last[l] = e THEN Popback(s, l)
  ELSE Unlinked([s EXCEPT !.next[s.prev[e]] = s.next[e], !.prev[s.next[e]] = s.prev[e]], e)

QuickRemove(s, l, e) ==
  IF s.first[l] = e THEN Popfront(s, l)
  ELSE IF s.last[l] = e THEN Popback(s, l)
  ELSE Unlinked([s EXCEPT !.next[s.prev[e]] = s.next[e], !.prev[s.next[e]] = s.prev[e],
                          !.count[l] = @ - 1], e)

------------------------------------------------------------------------------
(* MaloneMemPool *)

(* The constructor pushes all elements on the free list, in order.         *)
NewPool ==
  [exists |-> TRUE,
   next |-> [e \in PoolElements |-> IF e = PoolSize THEN Null ELSE e + 1],
   prev |-> [e \in PoolElements |-> IF e = 1 THEN Null ELSE e - 1],
   boss |-> [e \in PoolElements |-> "free"],
   first |-> [l \in Lists |-> IF l = "free" THEN 1 ELSE Null],
   last |-> [l \in Lists |-> IF l = "free" THEN PoolSize ELSE Null],
   count |-> [l \in Lists |-> IF l = "free" THEN PoolSize ELSE 0]]

PoolAllocate(s) == Pushback(Popfront(s, "free"), "used", s.first["free"])
PoolRelease(s, e) == Pushback(QuickRemove(s, "used", e), "free", e)

------------------------------------------------------------------------------
(* CAutoMemPool *)

PoolInit ==
  /\ array = [i \in Chunks |-> NoPool]
  /\ lastUsed = 0
  /\ result = Null

Larger(a, b) == IF a > b THEN a ELSE b

(* The first chunk, in order, that exists and has a free object, or does   *)
(* not exist.                                                              *)
HasRoom(i) == Exists(i) => array[i].count["free"] > 0
Allocate ==
  \E i \in Chunks :
    /\ HasRoom(i)
    /\ \A j \in Chunks : j < i => ~HasRoom(j)
    /\ LET s == IF Exists(i) THEN array[i] ELSE NewPool
       IN  /\ array' = [array EXCEPT ![i] = PoolAllocate(s)]
           /\ result' = <<i, s.first["free"]>>
    /\ lastUsed' = Larger(lastUsed, i)

AllocateFails ==
  /\ \A i \in Chunks : ~HasRoom(i)
  /\ result' = Null
  /\ UNCHANGED <<array, lastUsed>>

(* Release looks for the object's pool up to m_LastUsed, and stops at a    *)
(* chunk that is not there.  It ignores an object that is not in use.      *)
Searched(i) == i <= lastUsed /\ \A j \in 0..i : Exists(j)
Release(i, e) ==
  /\ Searched(i)
  /\ array[i].boss[e] = "used"
  /\ array' = [array EXCEPT ![i] = PoolRelease(@, e)]
  /\ UNCHANGED <<lastUsed, result>>

(* Shrink goes down from m_LastUsed and deletes the pools that have all    *)
(* their objects, up to the first that has not.                            *)
MutantIdle(i) == Exists(i) => array[i].count["free"] > 0   \* a mutant: some are free

Idle(i) == Exists(i) => array[i].count["free"] = PoolSize

(* Mutant: idle pools in the middle are deleted too.                       *)
MutantKeptPools == {i \in Chunks : i <= lastUsed /\ ~Idle(i)}

KeptPools == {i \in Chunks : i <= lastUsed /\ \E j \in i..lastUsed : ~Idle(j)}

Shrink ==
  /\ array' = [i \in Chunks |->
                 IF i <= lastUsed /\ i \notin KeptPools THEN NoPool ELSE array[i]]
  /\ lastUsed' = Larger(Cardinality(KeptPools) - 1, 0)
  /\ UNCHANGED result

PoolNext ==
  \/ Allocate \/ AllocateFails
  \/ \E i \in Chunks, e \in PoolElements : Release(i, e)
  \/ Shrink

PoolSpec == PoolInit /\ [][PoolNext]_poolVars

------------------------------------------------------------------------------
(* Properties *)

(* The type invariant.                                                     *)
Pool == [exists : {TRUE},
         next : [PoolElements -> PoolElements \cup {Null}],
         prev : [PoolElements -> PoolElements \cup {Null}],
         boss : [PoolElements -> Lists],
         first : [Lists -> PoolElements \cup {Null}],
         last : [Lists -> PoolElements \cup {Null}],
         count : [Lists -> 0..PoolSize]]
PoolTypeOK ==
  /\ array \in [Chunks -> Pool \cup {NoPool}]
  /\ lastUsed \in Chunks
  /\ result \in Objects \cup {Null}

(* List l of pool s links the elements w[1], w[2], ... in both directions, *)
(* from m_First to m_Last: m_Count elements, all that have it as m_Boss.   *)
IsList(s, l, w) ==
  LET n == s.count[l]
  IN  /\ w \in [1..n -> PoolElements]
      /\ \A j, k \in 1..n : w[j] = w[k] => j = k
      /\ \A e \in PoolElements : s.boss[e] = l <=> \E k \in 1..n : w[k] = e
      /\ IF n = 0 THEN s.first[l] = Null /\ s.last[l] = Null
         ELSE /\ s.first[l] = w[1] /\ s.prev[w[1]] = Null
              /\ s.last[l] = w[n] /\ s.next[w[n]] = Null
      /\ \A k \in 1..(n - 1) : s.next[w[k]] = w[k + 1] /\ s.prev[w[k + 1]] = w[k]

(* Both lists of every pool can be walked in both directions and have the  *)
(* elements that say so, each once.                                        *)
ListIsSound(s, l) == \E w \in [1..s.count[l] -> PoolElements] : IsList(s, l, w)
ListsAreSound == \A i \in Chunks : Exists(i) => \A l \in Lists : ListIsSound(array[i], l)

InUse == {o \in Objects : Exists(o[1]) /\ array[o[1]].boss[o[2]] = "used"}

(* An object that is in use can be released: Release searches as far as    *)
(* its pool.                                                               *)
ReleaseFindsIt == \A o \in InUse : Searched(o[1])

ObjStore == INSTANCE ObjectStore WITH inUse <- InUse, NoResult <- Null

(* The pool gives an object to one owner at a time, takes none away when   *)
(* it shrinks, and refuses only when all are in use.                       *)
ImplementsStore == ObjStore!Spec
=============================================================================
