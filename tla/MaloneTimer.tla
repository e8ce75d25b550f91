---------------------------- MODULE MaloneTimer -----------------------------
(* CMaloneTimer: a wheel of slots, each a list of timers with the number   *)
(* of turns they have left.  Nothing in the repository calls ProcTick; the *)
(* model calls it once for each unit of time.                              *)
EXTENDS Integers, Sequences, FiniteSets, SequencesExt

CONSTANTS
  SlotNum,      \* m_SlotNum, 60 in the code
  MaxTimeout,   \* bound: the longest timeout asked for
  MaxTimers     \* bound: timers over the whole history

ASSUME TimerAssumption ==
  SlotNum \in Nat \ {0} /\ MaxTimeout \in Nat /\ MaxTimers \in Nat

Timers == 1 .. MaxTimers

VARIABLES
  current,    \* m_Current
  slots,      \* m_SlotArray: per slot, its list of timers
  ticking,    \* ProcTick is in its loop
  loop,       \* Loop of each timer
  timeout,    \* history: the timeout of each timer, 0 before Insert
  age,        \* history: ticks since Insert
  fired       \* history: the age at which the timer fired, 0 before

timerVars == <<current, slots, ticking, loop, timeout, age, fired>>

Slots == 0 .. SlotNum - 1
Inserted == {t \in Timers : timeout[t] > 0}

TimerInit ==
  /\ current = 0
  /\ slots = [s \in Slots |-> <<>>]
  /\ ticking = FALSE
  /\ loop = [t \in Timers |-> 0]
  /\ timeout = [t \in Timers |-> 0]
  /\ age = [t \in Timers |-> 0]
  /\ fired = [t \in Timers |-> 0]

MutantInsert(t, time) ==   \* forgets where the wheel stands
  /\ ~ticking
  /\ t \notin Inserted
  /\ \A u \in Timers : u < t => u \in Inserted
  /\ loop' = [loop EXCEPT ![t] = time \div SlotNum]
  /\ slots' = [slots EXCEPT ![time % SlotNum] = Append(@, t)]
  /\ timeout' = [timeout EXCEPT ![t] = time]
  /\ UNCHANGED <<current, ticking, age, fired>>

Insert(t, time) ==
  /\ ~ticking
  /\ t \notin Inserted
  /\ \A u \in Timers : u < t => u \in Inserted
  /\ loop' = [loop EXCEPT ![t] = time \div SlotNum]
  /\ slots' = [slots EXCEPT ![(current + time) % SlotNum] = Append(@, t)]
  /\ timeout' = [timeout EXCEPT ![t] = time]
  /\ UNCHANGED <<current, ticking, age, fired>>

(* ProcTick moves to the next slot and goes through its list.              *)
Pending(t) == t \in Inserted /\ fired[t] = 0

ProcTick ==
  /\ ~ticking
  /\ \E t \in Timers : Pending(t)
  /\ current' = (current + 1) % SlotNum
  /\ ticking' = (slots[current'] # <<>>)
  /\ age' = [t \in Timers |-> IF Pending(t) THEN age[t] + 1 ELSE age[t]]
  /\ UNCHANGED <<slots, loop, timeout, fired>>

(* One round of the loop.  Its iterator moves only past an element that is *)
(* erased, so it is at the first element of what is left; an element with  *)
(* turns left is counted down and met again.                               *)
VisitElement ==
  LET it == Head(slots[current])
  IN  /\ ticking
      /\ loop' = [loop EXCEPT ![it] = @ - 1]
      /\ IF loop'[it] < 0
         THEN /\ slots' = [slots EXCEPT ![current] = Tail(@)]
              /\ fired' = [fired EXCEPT ![it] = age[it]]
         ELSE UNCHANGED <<slots, fired>>
      /\ ticking' = (slots'[current] # <<>>)
      /\ UNCHANGED <<current, timeout, age>>

TimerNext ==
  \/ \E t \in Timers, time \in 1 .. MaxTimeout : Insert(t, time)
  \/ ProcTick \/ VisitElement

TimerSpec == TimerInit /\ [][TimerNext]_timerVars

------------------------------------------------------------------------------
(* Properties *)

(* No timer is lost, late, or in two slots.  One whose timeout is within a *)
(* turn of the wheel fires at its time; a longer one fires whole turns too *)
(* early, the first time its slot comes by, whatever its loop count.       *)
Remainder(n) == IF n % SlotNum = 0 THEN SlotNum ELSE n % SlotNum
TimesInWheel(t) ==
  Cardinality({p \in Slots \X Timers :
                 p[2] \in DOMAIN slots[p[1]] /\ slots[p[1]][p[2]] = t})

FiresInItsSlot ==
  \A t \in Timers :
    /\ fired[t] # 0 => fired[t] = Remainder(timeout[t])
    /\ (Pending(t) /\ ~ticking) => age[t] < Remainder(timeout[t])
    /\ TimesInWheel(t) = IF Pending(t) THEN 1 ELSE 0
=============================================================================
