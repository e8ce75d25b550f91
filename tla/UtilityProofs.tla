---------------------------- MODULE UtilityProofs ----------------------------
(* The timer wheel, the buffered file and the ring, for any sizes.         *)
EXTENDS MaloneTimer, BufferedFile, CircleArray, NumberLemmas, FiniteSetTheorems, SequenceTheorems

------------------------------------------------------------------------------
(* The timer wheel *)

LEMMA TimerParameters ==
  SlotNum \in Nat \ {0} /\ MaxTimeout \in Nat /\ MaxTimers \in Nat
BY TimerAssumption

(* Where a wheel of n slots that stands at c comes by after a steps.       *)
LEMMA Turns ==
  ASSUME NEW n \in Nat \ {0}, NEW c \in 0 .. n - 1, NEW a \in Nat
  PROVE  /\ a % n \in 0 .. n - 1
         /\ (c + a) % n = IF c + (a % n) < n THEN c + (a % n) ELSE (c + (a % n)) - n
<1>1. PICK r : r = a % n
  OBVIOUS
<1>2. PICK q : q = a \div n
  OBVIOUS
<1>3. PICK s : s = (c + a) % n
  OBVIOUS
<1>4. PICK p : p = (c + a) \div n
  OBVIOUS
<1>5. c + a \in Nat
  OBVIOUS
<1>6. r \in 0 .. n - 1 /\ q \in Int /\ a = n * q + r
  BY <1>1, <1>2, Quotient
<1>7. s \in 0 .. n - 1 /\ p \in Int /\ c + a = n * p + s
  BY <1>3, <1>4, <1>5, Quotient
<1>8. n * (p - q) = (c + r) - s
  <2>1. n * (p - q) = n * p - n * q
    BY <1>6, <1>7
  <2>2. n * p \in Int /\ n * q \in Int
    BY <1>6, <1>7
  <2> QED
    BY <1>6, <1>7, <2>1, <2>2
<1>9. PICK d \in Int : d = p - q
  BY <1>6, <1>7
<1>10. n * d = (c + r) - s
  BY <1>8, <1>9
<1>11. d = 0 \/ d = 1
  <2>1. -n < n * d /\ n * d < 2 * n
    BY <1>6, <1>7, <1>10
  <2> QED
    BY <2>1, SmallMultiple
<1>12. n * 0 = 0 /\ n * 1 = n
  OBVIOUS
<1>13. s = c + r \/ s = (c + r) - n
  BY <1>6, <1>7, <1>10, <1>11, <1>12
<1>14. s = IF c + r < n THEN c + r ELSE (c + r) - n
  BY <1>6, <1>7, <1>13
<1> QED
  BY <1>1, <1>3, <1>6, <1>14

(* The slot it comes to is that many steps ahead, whole turns taken off.    *)
LEMMA Distance ==
  ASSUME NEW n \in Nat \ {0}, NEW c \in 0 .. n - 1, NEW a \in Nat
  PROVE  (IF (c + a) % n > c THEN ((c + a) % n) - c ELSE (((c + a) % n) - c) + n)
           = (IF a % n = 0 THEN n ELSE a % n)
<1>1. PICK r : r = a % n
  OBVIOUS
<1>2. PICK s : s = (c + a) % n
  OBVIOUS
<1>3. r \in 0 .. n - 1 /\ s = IF c + r < n THEN c + r ELSE (c + r) - n
  BY <1>1, <1>2, Turns
<1>4. (IF s > c THEN s - c ELSE s - c + n) = (IF r = 0 THEN n ELSE r)
  BY <1>3
<1> QED
  BY <1>1, <1>2, <1>4

(* The steps until the wheel comes to a slot, none while it is there.      *)
Steps(s) ==
  IF ticking /\ s = current THEN 0
  ELSE IF s > current THEN s - current ELSE s - current + SlotNum

IsAt(t, s, i) == s \in Slots /\ i \in DOMAIN slots[s] /\ slots[s][i] = t

TimerTypes ==
  /\ current \in Slots /\ slots \in [Slots -> Seq(Timers)] /\ ticking \in BOOLEAN
  /\ loop \in [Timers -> Int] /\ timeout \in [Timers -> Nat] /\ age \in [Timers -> Nat]
  /\ fired \in [Timers -> Nat]

(* Numbers are given in order, and a list keeps to it.                     *)
NumbersInv ==
  /\ \A t, u \in Timers : t \in Inserted /\ u < t => u \in Inserted
  /\ \A s \in Slots : \A i \in DOMAIN slots[s] : i <= slots[s][i]

(* A timer is in one place of one slot until it fires.                     *)
PlaceInv ==
  /\ \A t \in Timers : Pending(t) => \E s, i \in Nat : IsAt(t, s, i)
  /\ \A t \in Timers, s, r, i, j \in Nat :
       IsAt(t, s, i) /\ IsAt(t, r, j) => Pending(t) /\ s = r /\ i = j

(* Its slot comes by when what is left of its timeout, whole turns taken   *)
(* off, has passed.                                                        *)
DueInv ==
  /\ ticking => slots[current] # <<>>
  /\ \A t \in Timers, s, i \in Nat : IsAt(t, s, i) => age[t] + Steps(s) = Remainder(timeout[t])
  /\ \A t \in Timers : fired[t] # 0 => fired[t] = Remainder(timeout[t])
  /\ \A t \in Timers : t \notin Inserted => age[t] = 0 /\ fired[t] = 0

TimerInv == TimerTypes /\ NumbersInv /\ PlaceInv /\ DueInv

LEMMA InitTimerInv == TimerInit => TimerInv
<1> SUFFICES ASSUME TimerInit PROVE TimerInv
  OBVIOUS
<1>1. /\ current = 0 /\ slots = [s \in Slots |-> <<>>] /\ ticking = FALSE
      /\ loop = [t \in Timers |-> 0] /\ timeout = [t \in Timers |-> 0]
      /\ age = [t \in Timers |-> 0] /\ fired = [t \in Timers |-> 0]
  BY DEF TimerInit
<1>2. 0 \in Slots
  BY TimerParameters DEF Slots
<1>3. TimerTypes
  BY <1>1, <1>2 DEF TimerTypes
<1>4. Inserted = {} /\ \A t, s, i : ~IsAt(t, s, i)
  BY <1>1 DEF Inserted, IsAt
<1>5. NumbersInv
  BY <1>1, <1>4 DEF NumbersInv
<1>6. PlaceInv
  BY <1>4 DEF PlaceInv, Pending
<1>7. DueInv
  BY <1>1, <1>4 DEF DueInv
<1> QED
  BY <1>3, <1>5, <1>6, <1>7 DEF TimerInv

LEMMA RemainderIs ==
  ASSUME NEW n \in Nat
  PROVE  Remainder(n) \in 1 .. SlotNum
BY TimerParameters DEF Remainder

LEMMA TimerFacts ==
  ASSUME TimerTypes
  PROVE  /\ current \in Nat /\ SlotNum \in Nat \ {0} /\ current < SlotNum
         /\ Slots = 0 .. SlotNum - 1 /\ Slots \subseteq Nat /\ Timers \subseteq Nat
         /\ \A s \in Slots : slots[s] \in Seq(Timers) /\ Len(slots[s]) \in Nat
         /\ \A s \in Slots : \A i \in DOMAIN slots[s] :
              i \in Nat /\ i \in 1 .. Len(slots[s]) /\ slots[s][i] \in Timers
         /\ \A s \in Slots : s \in Nat /\ s < SlotNum /\ Steps(s) \in 0 .. SlotNum
         /\ \A t, s, i : IsAt(t, s, i) => s \in Nat /\ i \in Nat /\ t \in Timers
<1>1. /\ current \in Nat /\ SlotNum \in Nat \ {0} /\ current < SlotNum
      /\ Slots = 0 .. SlotNum - 1 /\ Slots \subseteq Nat /\ Timers \subseteq Nat
  BY TimerParameters DEF TimerTypes, Slots, Timers
<1>2. \A s \in Slots : slots[s] \in Seq(Timers) /\ Len(slots[s]) \in Nat
  BY DEF TimerTypes
<1>3. \A s \in Slots : \A i \in DOMAIN slots[s] :
        i \in Nat /\ i \in 1 .. Len(slots[s]) /\ slots[s][i] \in Timers
  BY <1>2
<1>4. \A s \in Slots : s \in Nat /\ s < SlotNum /\ Steps(s) \in 0 .. SlotNum
  BY <1>1 DEF Steps
<1>5. \A t, s, i : IsAt(t, s, i) => s \in Nat /\ i \in Nat /\ t \in Timers
  BY <1>1, <1>3 DEF IsAt
<1> QED
  BY <1>1, <1>2, <1>3, <1>4, <1>5

(* Insert puts the timer behind those of the slot that the wheel comes to  *)
(* when the rest of the timeout has passed.                                *)
LEMMA InsertStep ==
  ASSUME TimerInv, NEW t \in Timers, NEW time \in 1 .. MaxTimeout, Insert(t, time)
  PROVE  TimerInv'
<1>0. TimerTypes /\ NumbersInv /\ PlaceInv /\ DueInv
  BY DEF TimerInv
<1> DEFINE s0 == (current + time) % SlotNum
           n == Len(slots[s0]) + 1
<1>1. /\ ~ticking /\ t \notin Inserted /\ \A u \in Timers : u < t => u \in Inserted
      /\ loop' = [loop EXCEPT ![t] = time \div SlotNum]
      /\ slots' = [slots EXCEPT ![s0] = Append(@, t)]
      /\ timeout' = [timeout EXCEPT ![t] = time]
      /\ UNCHANGED <<current, ticking, age, fired>>
  BY DEF Insert
<1>2. s0 \in Slots /\ time \in Nat /\ time > 0 /\ time \div SlotNum \in Int
  BY <1>0, TimerFacts, TimerParameters
<1>3. Steps(s0) = Remainder(time)
  <2>1. SlotNum \in Nat \ {0} /\ current \in 0 .. SlotNum - 1 /\ time \in Nat
    BY <1>0, <1>2, TimerFacts
  <2>2. (IF s0 > current THEN s0 - current ELSE s0 - current + SlotNum)
          = (IF time % SlotNum = 0 THEN SlotNum ELSE time % SlotNum)
    BY <2>1, Distance
  <2> HIDE DEF s0
  <2> QED
    BY <1>1, <2>2 DEF Steps, Remainder
<1> HIDE DEF s0
<1>4. /\ \A s \in Slots : s # s0 => slots'[s] = slots[s]
      /\ slots'[s0] = Append(slots[s0], t)
      /\ \A u \in Timers : u # t => timeout'[u] = timeout[u]
      /\ timeout'[t] = time
  BY <1>0, <1>1, <1>2 DEF TimerTypes
<1>5. TimerTypes'
  <2>1. slots' \in [Slots -> Seq(Timers)]
    <3>1. Append(slots[s0], t) \in Seq(Timers)
      BY <1>0, <1>2 DEF TimerTypes
    <3> QED
      BY <1>0, <1>1, <1>2, <3>1 DEF TimerTypes
  <2>2. loop' \in [Timers -> Int] /\ timeout' \in [Timers -> Nat]
    <3> DEFINE d == time \div SlotNum
    <3>1. d \in Int /\ loop' = [loop EXCEPT ![t] = d]
      BY <1>1, <1>2
    <3> HIDE DEF d
    <3> QED
      BY <1>0, <1>1, <1>2, <3>1 DEF TimerTypes
  <2> QED
    BY <1>0, <1>1, <2>1, <2>2 DEF TimerTypes
<1>6. Inserted' = Inserted \cup {t}
  BY <1>0, <1>2, <1>4 DEF Inserted, TimerTypes
<1>7. /\ n \in Nat /\ n \in DOMAIN slots'[s0] /\ slots'[s0][n] = t /\ n \notin DOMAIN slots[s0]
      /\ \A i \in DOMAIN slots[s0] : i \in DOMAIN slots'[s0] /\ slots'[s0][i] = slots[s0][i]
      /\ \A i \in DOMAIN slots'[s0] : i = n \/ i \in DOMAIN slots[s0]
  <2>1. slots[s0] \in Seq(Timers)
    BY <1>0, <1>2 DEF TimerTypes
  <2> QED
    BY <1>4, <2>1
<1>8. \A u \in Timers, s, i \in Nat :
        IsAt(u, s, i)' <=> IsAt(u, s, i) \/ (u = t /\ s = s0 /\ i = n)
  <2> SUFFICES ASSUME NEW u \in Timers, NEW s \in Nat, NEW i \in Nat
               PROVE  IsAt(u, s, i)' <=> IsAt(u, s, i) \/ (u = t /\ s = s0 /\ i = n)
    OBVIOUS
  <2> HIDE DEF n
  <2>1. CASE s = s0
    BY <1>2, <1>7, <2>1 DEF IsAt
  <2>2. CASE s # s0
    BY <1>4, <2>2 DEF IsAt
  <2> QED
    BY <2>1, <2>2
<1>9. \A u \in Timers : /\ Pending(u)' <=> Pending(u) \/ u = t
                        /\ Pending(u) => u # t
  BY <1>0, <1>1, <1>6 DEF Pending, DueInv
<1>10. NumbersInv'
  <2>1. \A u, v \in Timers : u \in Inserted' /\ v < u => v \in Inserted'
    BY <1>0, <1>1, <1>6 DEF NumbersInv
  <2>2. n <= t
    <3> DEFINE k == Len(slots[s0])
    <3>1. k \in Nat /\ t \in Nat /\ t >= 1
      BY <1>0, <1>2, TimerFacts DEF Timers
    <3>2. CASE k = 0
      BY <3>1, <3>2
    <3>3. CASE k # 0
      <4>1. k \in DOMAIN slots[s0] /\ slots[s0][k] \in Timers
        <5>1. slots[s0] \in Seq(Timers)
          BY <1>0, <1>2 DEF TimerTypes
        <5> QED
          BY <3>1, <3>3, <5>1
      <4> DEFINE u == slots[s0][k]
      <4>2. k <= u
        BY <1>0, <1>2, <4>1 DEF NumbersInv
      <4>3. IsAt(u, s0, k) /\ s0 \in Nat
        BY <1>0, <1>2, <4>1, TimerFacts DEF IsAt
      <4>4. Pending(u)
        BY <1>0, <3>1, <4>1, <4>3 DEF PlaceInv
      <4>5. u \in Inserted /\ u # t
        BY <1>1, <4>4 DEF Pending
      <4>6. ~(t < u)
        BY <1>0, <1>1, <4>1, <4>5 DEF NumbersInv
      <4>7. u \in Nat
        BY <1>0, <4>1, TimerFacts
      <4> HIDE DEF u, k
      <4> QED
        BY <3>1, <4>2, <4>5, <4>6, <4>7 DEF k
    <3> QED
      BY <3>2, <3>3
  <2> HIDE DEF n
  <2>3. \A s \in Slots : \A i \in DOMAIN slots'[s] : i <= slots'[s][i]
    BY <1>0, <1>4, <1>7, <2>2 DEF NumbersInv
  <2> QED
    BY <2>1, <2>3 DEF NumbersInv
<1>11. PlaceInv'
  <2>1. ~\E s, i \in Nat : IsAt(t, s, i)
    BY <1>0, <1>9 DEF PlaceInv
  <2>2. s0 \in Nat /\ n \in Nat
    BY <1>0, <1>2, <1>7, TimerFacts
  <2> HIDE DEF n
  <2>3. \A u \in Timers : Pending(u)' => \E s, i \in Nat : IsAt(u, s, i)'
    BY <1>0, <1>8, <1>9, <2>2 DEF PlaceInv
  <2>4. \A u \in Timers, s, r, i, j \in Nat :
          IsAt(u, s, i)' /\ IsAt(u, r, j)' => Pending(u)' /\ s = r /\ i = j
    BY <1>0, <1>8, <1>9, <2>1 DEF PlaceInv
  <2> QED
    BY <2>3, <2>4 DEF PlaceInv
<1>12. DueInv'
  <2>1. \A s \in Nat : Steps(s)' = Steps(s)
    BY <1>1 DEF Steps
  <2>2. \A u \in Timers, s, i \in Nat : IsAt(u, s, i) => u # t
    BY <1>0, <1>9 DEF PlaceInv
  <2>3. age[t] = 0 /\ fired[t] = 0
    BY <1>0, <1>1 DEF DueInv
  <2>4. Remainder(time) \in 1 .. SlotNum
    BY <1>2, RemainderIs
  <2>5. \A u \in Timers : u # t => Remainder(timeout[u])' = Remainder(timeout[u])
    BY <1>4 DEF Remainder
  <2>6. Remainder(timeout[t])' = Remainder(time)
    BY <1>4 DEF Remainder
  <2> HIDE DEF n
  <2>7. \A u \in Timers, s, i \in Nat :
          IsAt(u, s, i)' => (age[u] + Steps(s) = Remainder(timeout[u]))'
    <3> SUFFICES ASSUME NEW u \in Timers, NEW s \in Nat, NEW i \in Nat, IsAt(u, s, i)'
                 PROVE  (age[u] + Steps(s) = Remainder(timeout[u]))'
      OBVIOUS
    <3>1. CASE IsAt(u, s, i)
      <4>1. age[u] + Steps(s) = Remainder(timeout[u]) /\ u # t
        BY <1>0, <2>2, <3>1 DEF DueInv
      <4> QED
        BY <1>1, <2>1, <2>5, <4>1
    <3>2. CASE u = t /\ s = s0
      <4>1. 0 + Remainder(time) = Remainder(time)
        BY <2>4, TimerParameters
      <4> QED
        BY <1>1, <1>3, <2>1, <2>3, <2>6, <3>2, <4>1
    <3> QED
      BY <1>8, <3>1, <3>2
  <2> QED
    BY <1>0, <1>1, <1>6, <2>3, <2>5, <2>7 DEF DueInv
<1> QED
  BY <1>5, <1>10, <1>11, <1>12 DEF TimerInv

(* A tick brings every slot one step nearer and makes every waiting timer  *)
(* one older.                                                              *)
LEMMA TickStep ==
  ASSUME TimerInv, ProcTick
  PROVE  TimerInv'
<1>0. TimerTypes /\ NumbersInv /\ PlaceInv /\ DueInv
  BY DEF TimerInv
<1>1. /\ ~ticking /\ current' = (current + 1) % SlotNum
      /\ ticking' = (slots[current'] # <<>>)
      /\ age' = [t \in Timers |-> IF Pending(t) THEN age[t] + 1 ELSE age[t]]
      /\ UNCHANGED <<slots, loop, timeout, fired>>
  BY DEF ProcTick
<1>2. /\ current \in Nat /\ SlotNum \in Nat \ {0} /\ current < SlotNum
      /\ Slots = 0 .. SlotNum - 1
  BY <1>0, TimerFacts
<1>3. current' = IF current + 1 = SlotNum THEN 0 ELSE current + 1
  BY <1>1, <1>2
<1>4. TimerTypes'
  <2>1. current' \in Slots
    BY <1>2, <1>3
  <2>2. age' \in [Timers -> Nat]
    BY <1>0, <1>1 DEF TimerTypes
  <2> QED
    BY <1>0, <1>1, <2>1, <2>2 DEF TimerTypes
<1>5. Inserted' = Inserted
  BY <1>1 DEF Inserted
<1>6. \A t : Pending(t)' <=> Pending(t)
  BY <1>1, <1>5 DEF Pending
<1>7. \A t, s, i : IsAt(t, s, i)' <=> IsAt(t, s, i)
  BY <1>1 DEF IsAt
<1>8. NumbersInv'
  BY <1>0, <1>1, <1>5 DEF NumbersInv
<1>9. PlaceInv'
  BY <1>0, <1>6, <1>7 DEF PlaceInv
<1>10. \A s \in Slots : slots[s] # <<>> => Steps(s)' + 1 = Steps(s)
  <2> SUFFICES ASSUME NEW s \in Slots, slots[s] # <<>>
               PROVE  Steps(s)' + 1 = Steps(s)
    OBVIOUS
  <2>1. s \in Nat /\ s < SlotNum
    BY <1>2
  <2>2. CASE s = current'
    <3>1. Steps(s)' = 0
      BY <1>1, <2>2 DEF Steps
    <3>2. Steps(s) = 1
      BY <1>1, <1>2, <1>3, <2>1, <2>2 DEF Steps
    <3> QED
      BY <3>1, <3>2
  <2>3. CASE s # current'
    BY <1>1, <1>2, <1>3, <2>1, <2>3 DEF Steps
  <2> QED
    BY <2>2, <2>3
<1>11. DueInv'
  <2>1. \A t \in Timers, s, i \in Nat :
          IsAt(t, s, i) => (age[t] + Steps(s) = Remainder(timeout[t]))'
    <3> SUFFICES ASSUME NEW t \in Timers, NEW s \in Nat, NEW i \in Nat, IsAt(t, s, i)
                 PROVE  age'[t] + Steps(s)' = Remainder(timeout[t])'
      OBVIOUS
    <3>1. s \in Slots /\ slots[s] # <<>> /\ Pending(t)
      <4>1. s \in Slots /\ i \in DOMAIN slots[s]
        BY DEF IsAt
      <4>2. slots[s] # <<>>
        BY <1>0, <4>1 DEF TimerTypes
      <4> QED
        BY <1>0, <4>1, <4>2 DEF PlaceInv
    <3>2. age[t] + Steps(s) = Remainder(timeout[t])
      BY <1>0 DEF DueInv
    <3>3. Remainder(timeout[t])' = Remainder(timeout[t])
      BY <1>1 DEF Remainder
    <3>4. age'[t] = age[t] + 1 /\ age[t] \in Nat
      BY <1>0, <1>1, <3>1 DEF TimerTypes
    <3>5. Steps(s)' + 1 = Steps(s) /\ Steps(s)' \in Int /\ Steps(s) \in Int
      <4>1. Steps(s) \in 0 .. SlotNum
        BY <1>0, <3>1, TimerFacts
      <4>2. Steps(s)' \in Int
        <5>1. PICK c \in Nat : c = current'
          BY <1>2, <1>3
        <5>2. s \in Nat
          BY <1>2, <3>1
        <5>3. Steps(s)' = IF ticking' /\ s = c THEN 0
                          ELSE IF s > c THEN s - c ELSE s - c + SlotNum
          BY <5>1 DEF Steps
        <5> QED
          BY <1>2, <5>1, <5>2, <5>3
      <4> QED
        BY <1>2, <1>10, <3>1, <4>1, <4>2
    <3> QED
      BY <3>2, <3>3, <3>4, <3>5
  <2>2. \A t \in Timers : fired'[t] # 0 => fired'[t] = Remainder(timeout[t])'
    BY <1>0, <1>1 DEF DueInv, Remainder
  <2>3. \A t \in Timers : t \notin Inserted' => age'[t] = 0 /\ fired'[t] = 0
    BY <1>0, <1>1, <1>5 DEF DueInv, Pending
  <2> QED
    BY <1>1, <1>7, <2>1, <2>2, <2>3 DEF DueInv
<1> QED
  BY <1>4, <1>8, <1>9, <1>11 DEF TimerInv

(* A round of the loop counts the first timer of the slot down, and fires  *)
(* it when it has no turns left.                                           *)
LEMMA VisitStep ==
  ASSUME TimerInv, VisitElement
  PROVE  TimerInv'
<1>0. TimerTypes /\ NumbersInv /\ PlaceInv /\ DueInv
  BY DEF TimerInv
<1> DEFINE q == slots[current]
<1>1. /\ ticking /\ UNCHANGED <<current, timeout, age>>
      /\ ticking' = (slots'[current] # <<>>)
  BY DEF VisitElement
<1>2. current \in Slots /\ q \in Seq(Timers) /\ q # <<>>
  BY <1>0, <1>1 DEF TimerTypes, DueInv
<1>3. PICK it \in Timers : it = Head(q)
  BY <1>2
<1>4. Inserted' = Inserted
  BY <1>1 DEF Inserted
<1>5. loop' \in [Timers -> Int]
  <2>1. loop' = [loop EXCEPT ![it] = @ - 1]
    BY <1>3 DEF VisitElement
  <2> QED
    BY <1>0, <2>1 DEF TimerTypes
<1>6. CASE ~(loop'[it] < 0)
  <2>1. UNCHANGED <<slots, fired>>
    BY <1>3, <1>6 DEF VisitElement
  <2>2. ticking' = TRUE
    BY <1>1, <1>2, <2>1
  <2>3. TimerTypes'
    BY <1>0, <1>1, <1>5, <2>1, <2>2 DEF TimerTypes
  <2>4. \A t, s, i : IsAt(t, s, i)' <=> IsAt(t, s, i)
    BY <2>1 DEF IsAt
  <2>5. \A t : Pending(t)' <=> Pending(t)
    BY <1>4, <2>1 DEF Pending
  <2>6. NumbersInv' /\ PlaceInv'
    BY <1>0, <1>4, <2>1, <2>4, <2>5 DEF NumbersInv, PlaceInv
  <2>7. \A s : Steps(s)' = Steps(s)
    BY <1>1, <2>2 DEF Steps
  <2>8. DueInv'
    BY <1>0, <1>1, <1>2, <1>4, <2>1, <2>4, <2>7 DEF DueInv, Remainder
  <2> QED
    BY <2>3, <2>6, <2>8 DEF TimerInv
<1>7. CASE loop'[it] < 0
  <2>1. /\ slots' = [slots EXCEPT ![current] = Tail(q)]
        /\ fired' = [fired EXCEPT ![it] = age[it]]
    BY <1>3, <1>7 DEF VisitElement
  <2>2. /\ \A i \in DOMAIN Tail(q) : i \in Nat /\ i + 1 \in DOMAIN q /\ Tail(q)[i] = q[i + 1]
        /\ \A i \in DOMAIN q : i # 1 => i \in Nat /\ i - 1 \in DOMAIN Tail(q) /\ i - 1 \in Nat
        /\ 1 \in DOMAIN q /\ q[1] = it /\ Tail(q) \in Seq(Timers)
    BY <1>2, <1>3
  <2> HIDE DEF q
  <2>3. /\ slots'[current] = Tail(q) /\ slots[current] = q
        /\ \A s \in Slots : s # current => slots'[s] = slots[s]
        /\ \A t \in Timers : t # it => fired'[t] = fired[t]
        /\ fired'[it] = age[it]
    <3>1. slots[current] = q
      BY DEF q
    <3> QED
      BY <1>0, <1>2, <2>1, <3>1 DEF TimerTypes
  <2>4. TimerTypes'
    <3>1. slots' \in [Slots -> Seq(Timers)]
      BY <1>0, <2>1, <2>2 DEF TimerTypes
    <3>2. fired' \in [Timers -> Nat]
      BY <1>0, <2>1 DEF TimerTypes
    <3>3. ticking' \in BOOLEAN
      BY <1>1
    <3> QED
      BY <1>0, <1>1, <1>5, <3>1, <3>2, <3>3 DEF TimerTypes
  <2>5. IsAt(it, current, 1) /\ current \in Nat
    BY <1>0, <1>2, <2>2, <2>3, TimerFacts DEF IsAt
  <2>6. /\ Pending(it)
        /\ \A s, i \in Nat : IsAt(it, s, i) => s = current /\ i = 1
    BY <1>0, <2>5 DEF PlaceInv
  <2>7. age[it] = Remainder(timeout[it]) /\ Remainder(timeout[it]) # 0
    <3>1. age[it] + Steps(current) = Remainder(timeout[it]) /\ Steps(current) = 0
      BY <1>0, <1>1, <2>5 DEF DueInv, Steps
    <3>2. age[it] \in Nat /\ timeout[it] \in Nat
      BY <1>0 DEF TimerTypes
    <3>3. Remainder(timeout[it]) \in 1 .. SlotNum
      BY <3>2, RemainderIs
    <3>4. Remainder(timeout[it]) # 0
      BY <3>3
    <3> QED
      BY <3>1, <3>2, <3>4
  <2>8. \A t \in Timers : /\ Pending(t)' <=> Pending(t) /\ t # it
    BY <1>4, <2>3, <2>7 DEF Pending
  <2>9. \A t \in Timers, s, i \in Nat :
          IsAt(t, s, i)' <=> IF s = current THEN IsAt(t, s, i + 1) /\ i # 0 ELSE IsAt(t, s, i)
    <3> SUFFICES ASSUME NEW t \in Timers, NEW s \in Nat, NEW i \in Nat
                 PROVE  IsAt(t, s, i)' <=> IF s = current THEN IsAt(t, s, i + 1) /\ i # 0
                                                          ELSE IsAt(t, s, i)
      OBVIOUS
    <3>1. CASE s = current
      <4>1. IsAt(t, s, i)' <=> i \in DOMAIN Tail(q) /\ Tail(q)[i] = t
        BY <1>1, <1>2, <2>3, <3>1 DEF IsAt
      <4>2. IsAt(t, s, i + 1) <=> i + 1 \in DOMAIN q /\ q[i + 1] = t
        BY <1>2, <2>3, <3>1 DEF IsAt
      <4>3. i \in DOMAIN Tail(q) => i + 1 \in DOMAIN q /\ Tail(q)[i] = q[i + 1] /\ i # 0
        BY <1>2, <2>2 DEF q
      <4>4. i + 1 \in DOMAIN q /\ i # 0 => i \in DOMAIN Tail(q)
        <5>1. i + 1 # 1 <=> i # 0
          OBVIOUS
        <5>2. (i + 1) - 1 = i
          OBVIOUS
        <5> QED
          BY <2>2, <5>1, <5>2
      <4> QED
        BY <3>1, <4>1, <4>2, <4>3, <4>4
    <3>2. CASE s # current
      BY <2>3, <3>2 DEF IsAt
    <3> QED
      BY <3>1, <3>2
  <2>10. NumbersInv'
    <3>1. \A s \in Slots : \A i \in DOMAIN slots'[s] : i <= slots'[s][i]
      <4> SUFFICES ASSUME NEW s \in Slots, NEW i \in DOMAIN slots'[s] PROVE i <= slots'[s][i]
        OBVIOUS
      <4>1. CASE s # current
        BY <1>0, <2>3, <4>1 DEF NumbersInv
      <4>2. CASE s = current
        <5>1. i \in Nat /\ i + 1 \in DOMAIN q /\ slots'[s][i] = q[i + 1]
          BY <2>2, <2>3, <4>2
        <5>2. i + 1 <= q[i + 1] /\ q[i + 1] \in Nat
          BY <1>0, <1>2, <2>3, <5>1, TimerFacts DEF NumbersInv
        <5> QED
          BY <5>1, <5>2
      <4> QED
        BY <4>1, <4>2
    <3> QED
      BY <1>0, <1>4, <3>1 DEF NumbersInv
  <2>11. PlaceInv'
    <3>1. ASSUME NEW t \in Timers, Pending(t)' PROVE \E s, i \in Nat : IsAt(t, s, i)'
      <4>1. Pending(t) /\ t # it
        BY <2>8, <3>1
      <4>2. PICK s \in Nat, i \in Nat : IsAt(t, s, i)
        BY <1>0, <4>1 DEF PlaceInv
      <4>3. CASE s # current
        BY <2>9, <4>2, <4>3
      <4>4. CASE s = current
        <5>1. i # 1 /\ i \in DOMAIN q
          BY <2>2, <2>3, <4>1, <4>2, <4>4 DEF IsAt
        <5>2. i - 1 \in Nat /\ i - 1 # 0 /\ (i - 1) + 1 = i
          BY <2>2, <5>1
        <5>3. IsAt(t, s, (i - 1) + 1) /\ i - 1 # 0
          BY <4>2, <5>2
        <5> DEFINE j == i - 1
        <5> HIDE DEF j
        <5>4. j \in Nat /\ IsAt(t, s, j + 1) /\ j # 0
          BY <5>2, <5>3 DEF j
        <5>5. IsAt(t, s, j)'
          BY <2>9, <4>4, <5>4
        <5> QED
          BY <5>4, <5>5
      <4> QED
        BY <4>3, <4>4
    <3>2. ASSUME NEW t \in Timers, NEW s \in Nat, NEW r \in Nat, NEW i \in Nat, NEW j \in Nat,
                 IsAt(t, s, i)', IsAt(t, r, j)'
          PROVE  Pending(t)' /\ s = r /\ i = j
      <4> DEFINE x == IF s = current THEN i + 1 ELSE i
                 y == IF r = current THEN j + 1 ELSE j
      <4>1. IsAt(t, s, x) /\ IsAt(t, r, y) /\ x \in Nat /\ y \in Nat
        BY <2>9, <3>2
      <4>2. (s = current => x # 1)
        BY <2>9, <3>2
      <4>3. Pending(t) /\ s = r /\ x = y
        <5> HIDE DEF x, y
        <5> QED
          BY <1>0, <4>1 DEF PlaceInv
      <4>4. t # it
        <5> HIDE DEF x
        <5> QED
          BY <2>6, <4>1, <4>2
      <4> QED
        BY <2>8, <4>3, <4>4
    <3> QED
      BY <3>1, <3>2 DEF PlaceInv
  <2>12. DueInv'
    <3>1. ticking' => slots'[current'] # <<>>
      BY <1>1
    <3>2. ASSUME NEW t \in Timers, NEW s \in Nat, NEW i \in Nat, IsAt(t, s, i)'
          PROVE  (age[t] + Steps(s) = Remainder(timeout[t]))'
      <4> DEFINE x == IF s = current THEN i + 1 ELSE i
      <4>1. IsAt(t, s, x) /\ x \in Nat
        BY <2>9, <3>2
      <4>2. age[t] + Steps(s) = Remainder(timeout[t])
        <5> HIDE DEF x
        <5> QED
          BY <1>0, <4>1 DEF DueInv
      <4>3. Steps(s)' = Steps(s)
        <5>1. CASE s = current
          <6>1. slots'[current] # <<>>
            <7>1. i \in DOMAIN Tail(q)
              BY <1>1, <2>3, <3>2, <5>1 DEF IsAt
            <7> QED
              BY <2>2, <2>3, <7>1
          <6> QED
            BY <1>1, <5>1, <6>1 DEF Steps
        <5>2. CASE s # current
          BY <1>1, <5>2 DEF Steps
        <5> QED
          BY <5>1, <5>2
      <4> QED
        BY <1>1, <4>2, <4>3 DEF Remainder
    <3>3. \A t \in Timers : fired'[t] # 0 => fired'[t] = Remainder(timeout[t])'
      BY <1>0, <1>1, <2>3, <2>7 DEF DueInv, Remainder
    <3>4. \A t \in Timers : t \notin Inserted' => age'[t] = 0 /\ fired'[t] = 0
      BY <1>0, <1>1, <1>4, <2>3, <2>6 DEF DueInv, Pending
    <3> QED
      BY <3>1, <3>2, <3>3, <3>4 DEF DueInv
  <2> QED
    BY <2>4, <2>10, <2>11, <2>12 DEF TimerInv
<1> QED
  BY <1>6, <1>7

(* A timer that waits is in one place, and one that does not is in none.   *)
LEMMA PlacesOfTimer ==
  ASSUME TimerInv, NEW t \in Timers
  PROVE  TimesInWheel(t) = IF Pending(t) THEN 1 ELSE 0
<1>0. TimerTypes /\ NumbersInv /\ PlaceInv
  BY DEF TimerInv
<1> DEFINE P == {p \in Slots \X Timers :
                   p[2] \in DOMAIN slots[p[1]] /\ slots[p[1]][p[2]] = t}
<1>1. \A p \in P : p[1] \in Nat /\ p[2] \in Nat /\ IsAt(t, p[1], p[2]) /\ p = <<p[1], p[2]>>
  BY <1>0, TimerFacts DEF IsAt
<1>2. ASSUME NEW s \in Nat, NEW i \in Nat, IsAt(t, s, i)
      PROVE  <<s, i>> \in P
  <2>1. s \in Slots /\ i \in DOMAIN slots[s] /\ slots[s][i] = t
    BY <1>2 DEF IsAt
  <2>2. i >= 1 /\ i <= t /\ t <= MaxTimers /\ t \in Nat
    BY <1>0, <2>1, TimerFacts, TimerParameters DEF NumbersInv, Timers
  <2>3. i \in Timers
    BY <2>2, TimerParameters DEF Timers
  <2> QED
    BY <2>1, <2>3
<1>3. CASE Pending(t)
  <2>1. PICK s \in Nat, i \in Nat : IsAt(t, s, i)
    BY <1>0, <1>3 DEF PlaceInv
  <2>2. <<s, i>> \in P
    BY <1>2, <2>1
  <2>3. \A p \in P : p = <<s, i>>
    <3> SUFFICES ASSUME NEW p \in P PROVE p = <<s, i>>
      OBVIOUS
    <3>1. p[1] \in Nat /\ p[2] \in Nat /\ IsAt(t, p[1], p[2]) /\ p = <<p[1], p[2]>>
      BY <1>1
    <3> HIDE DEF P
    <3>2. s = p[1] /\ i = p[2]
      BY <1>0, <2>1, <3>1 DEF PlaceInv
    <3> QED
      BY <3>1, <3>2
  <2> HIDE DEF P
  <2>4. P = {<<s, i>>}
    BY <2>2, <2>3
  <2>5. Cardinality(P) = 1
    BY <2>4, FS_Singleton
  <2> QED
    BY <1>3, <2>5 DEF TimesInWheel, P
<1>4. CASE ~Pending(t)
  <2>1. \A s, i \in Nat : ~IsAt(t, s, i)
    BY <1>0, <1>4 DEF PlaceInv
  <2>2. P = {}
    BY <1>1, <2>1
  <2> HIDE DEF P
  <2>3. Cardinality(P) = 0
    BY <2>2, FS_EmptySet
  <2> QED
    BY <1>4, <2>3 DEF TimesInWheel, P
<1> QED
  BY <1>3, <1>4

LEMMA InvFires == TimerInv => FiresInItsSlot
<1> SUFFICES ASSUME TimerInv, NEW t \in Timers
             PROVE  /\ fired[t] # 0 => fired[t] = Remainder(timeout[t])
                    /\ (Pending(t) /\ ~ticking) => age[t] < Remainder(timeout[t])
                    /\ TimesInWheel(t) = IF Pending(t) THEN 1 ELSE 0
  BY DEF FiresInItsSlot
<1>0. TimerTypes /\ PlaceInv /\ DueInv
  BY DEF TimerInv
<1>1. fired[t] # 0 => fired[t] = Remainder(timeout[t])
  BY <1>0 DEF DueInv
<1>2. ASSUME Pending(t), ~ticking PROVE age[t] < Remainder(timeout[t])
  <2>1. PICK s \in Nat, i \in Nat : IsAt(t, s, i)
    BY <1>0, <1>2 DEF PlaceInv
  <2>2. age[t] + Steps(s) = Remainder(timeout[t]) /\ age[t] \in Nat
    BY <1>0, <2>1 DEF DueInv, TimerTypes
  <2>3. Steps(s) \in Nat /\ Steps(s) > 0
    <3>1. s < SlotNum /\ SlotNum \in Nat /\ current \in Nat /\ current < SlotNum
      BY <1>0, <2>1, TimerFacts DEF IsAt
    <3> QED
      BY <1>2, <3>1 DEF Steps
  <2> HIDE DEF Steps
  <2> QED
    BY <2>2, <2>3
<1> QED
  BY <1>1, <1>2, PlacesOfTimer

(* A timer is in one slot, once, until it fires; and it fires, no earlier  *)
(* and no later, when its slot comes by: for any wheel and any timeouts.   *)
THEOREM TimersFireInTheirSlot == TimerSpec => []FiresInItsSlot
<1>1. TimerInit => TimerInv
  BY InitTimerInv
<1>2. TimerInv /\ [TimerNext]_timerVars => TimerInv'
  <2> SUFFICES ASSUME TimerInv, [TimerNext]_timerVars PROVE TimerInv'
    OBVIOUS
  <2>1. CASE \E t \in Timers, time \in 1 .. MaxTimeout : Insert(t, time)
    BY <2>1, InsertStep
  <2>2. CASE ProcTick
    BY <2>2, TickStep
  <2>3. CASE VisitElement
    BY <2>3, VisitStep
  <2>4. CASE UNCHANGED timerVars
    BY <2>4 DEF timerVars, TimerInv, TimerTypes, NumbersInv, PlaceInv, DueInv, Inserted, Pending,
      IsAt, Steps, Remainder
  <2> QED
    BY <2>1, <2>2, <2>3, <2>4 DEF TimerNext
<1>3. TimerInv => FiresInItsSlot
  BY InvFires
<1> QED
  BY <1>1, <1>2, <1>3, PTL DEF TimerSpec

------------------------------------------------------------------------------
(* The buffered file *)

FileCalls == {"none", "Write", "Flush", "Close", "SetFilename"}

FileTypes ==
  /\ fd \in FileNames \cup {NotOpen} /\ file_name \in FileNames /\ next_name \in FileNames
  /\ buffer \in Seq(Nat) /\ disk \in [FileNames -> Seq(Nat)] /\ copied \in [FileNames -> Seq(Nat)]
  /\ call \in FileCalls /\ flushing \in BOOLEAN
  /\ total \in Nat /\ need_process \in Nat /\ taken \in Nat /\ failures \in Nat
  /\ Len(buffer) <= BufferSize

(* A call works on the open file, and a flush is part of a call.           *)
CallInv ==
  /\ fd # NotOpen => fd = file_name
  /\ call # "none" => fd # NotOpen
  /\ flushing => call # "none" /\ total <= Len(buffer)
  /\ ~flushing => total = 0

(* What the flush in progress has still to write belongs to the open file. *)
Unwritten(n) == IF n = fd THEN SubSeq(buffer, total + 1, Len(buffer)) ELSE <<>>

WholeInv ==
  failures = 0 =>
    /\ \A n \in FileNames : disk[n] \o Unwritten(n) = copied[n]
    /\ (fd = NotOpen \/ (call \in {"Close", "SetFilename"} /\ ~flushing)) => buffer = <<>>

(* The buffer holds the bytes behind Base, and Base were taken before.     *)
Base == taken - Len(buffer)
On(n, b) == \E i \in DOMAIN disk[n] : disk[n][i] = b

(* A byte is greater than all before it, or repeats one of them.           *)
InOrder(s) ==
  \A j \in DOMAIN s :
    (\A i \in DOMAIN s : i < j => s[i] < s[j]) \/ (\E i \in DOMAIN s : i < j /\ s[i] = s[j])

ByteInv ==
  /\ Base \in Nat
  /\ \A i \in DOMAIN buffer : buffer[i] = Base + i
  /\ \A n \in FileNames : \A i \in DOMAIN disk[n] : disk[n][i] \in 1 .. taken
  /\ \A b \in 1 .. Base : \E n \in FileNames : On(n, b)
  /\ \A b \in 1 .. total : On(fd, Base + b)
  /\ \A n \in FileNames : \A b, c \in Nat : Base < c /\ c < b /\ On(n, b) => On(n, c)
  /\ \A n \in FileNames : InOrder(disk[n])

FileInv == FileTypes /\ CallInv /\ WholeInv /\ ByteInv

LEMMA FileParameters ==
  /\ FirstName \in FileNames /\ NotOpen \notin FileNames /\ BufferSize \in Nat \ {0}
  /\ MaxBytes \in Nat /\ MaxFailures \in Nat
BY FileAssumption

LEMMA Joining ==
  /\ \A s, t, u \in Seq(Nat) : (s \o t) \o u = s \o (t \o u)
  /\ \A s, t \in Seq(Nat) :
       /\ s \o t \in Seq(Nat) /\ Len(s \o t) = Len(s) + Len(t)
       /\ \A i \in 1 .. Len(s) + Len(t) :
            (s \o t)[i] = IF i <= Len(s) THEN s[i] ELSE t[i - Len(s)]
BY ConcatAssociative, ConcatProperties

LEMMA NothingUnwritten ==
  ASSUME FileTypes, buffer = <<>>, NEW n
  PROVE  Unwritten(n) = <<>>
<1>1. total + 1 \in Int /\ Len(buffer) \in Int /\ Len(buffer) < total + 1
  BY DEF FileTypes
<1>2. SubSeq(buffer, total + 1, Len(buffer)) = <<>>
  BY <1>1, SubSeqEmpty
<1> QED
  BY <1>2 DEF Unwritten

LEMMA InitFileInv == FileInit => FileInv
<1> SUFFICES ASSUME FileInit PROVE FileInv
  OBVIOUS
<1>1. /\ fd = NotOpen /\ file_name = FirstName /\ buffer = <<>> /\ call = "none"
      /\ disk = [n \in FileNames |-> <<>>] /\ copied = [n \in FileNames |-> <<>>]
      /\ flushing = FALSE /\ total = 0 /\ need_process = 0 /\ next_name = FirstName
      /\ taken = 0 /\ failures = 0
  BY DEF FileInit
<1>2. FileTypes
  <2>1. <<>> \in Seq(Nat) /\ Len(<<>>) = 0
    OBVIOUS
  <2>2. Len(buffer) <= BufferSize
    BY <1>1, <2>1, FileParameters
  <2>3. fd \in FileNames \cup {NotOpen} /\ file_name \in FileNames /\ next_name \in FileNames
    BY <1>1, FileParameters
  <2> QED
    BY <1>1, <2>1, <2>2, <2>3 DEF FileTypes, FileCalls
<1>3. CallInv
  BY <1>1 DEF CallInv
<1>4. \A n \in FileNames : disk[n] = <<>> /\ copied[n] = <<>>
  BY <1>1
<1>5. WholeInv
  <2>1. \A n \in FileNames : Unwritten(n) = <<>>
    BY <1>1, <1>2, NothingUnwritten
  <2>2. <<>> \o <<>> = <<>>
    OBVIOUS
  <2>3. \A n \in FileNames : disk[n] \o Unwritten(n) = copied[n]
    BY <1>4, <2>1, <2>2
  <2> QED
    BY <1>1, <2>3 DEF WholeInv
<1>6. ByteInv
  <2>1. Base = 0
    <3>1. Len(buffer) = 0 /\ taken = 0
      BY <1>1
    <3> QED
      BY <3>1 DEF Base
  <2>2. DOMAIN buffer = {} /\ \A n \in FileNames : DOMAIN disk[n] = {}
    BY <1>1, <1>4
  <2>3. \A n \in FileNames : \A b : ~On(n, b)
    BY <2>2 DEF On
  <2>4. \A n \in FileNames : InOrder(disk[n])
    BY <2>2 DEF InOrder
  <2>5. \A b \in 1 .. total : On(fd, Base + b)
    BY <1>1
  <2>6. \A b \in 1 .. Base : \E n \in FileNames : On(n, b)
    BY <2>1
  <2> QED
    BY <2>1, <2>2, <2>3, <2>4, <2>5, <2>6 DEF ByteInv
<1> QED
  BY <1>2, <1>3, <1>5, <1>6 DEF FileInv

(* A step that neither copies nor writes keeps the bytes where they are.   *)
LEMMA BytesStay ==
  ASSUME FileTypes, ByteInv, UNCHANGED <<buffer, disk, taken>>,
         total' = 0 \/ UNCHANGED <<fd, total>>
  PROVE  ByteInv'
<1>1. Base' = Base
  BY DEF Base
<1>2. \A n, b : On(n, b)' <=> On(n, b)
  BY DEF On
<1>3. \A n \in FileNames : InOrder(disk'[n])
  BY DEF ByteInv
<1>4. \A b \in 1 .. total' : On(fd, Base + b)'
  <2>1. CASE total' = 0
    BY <2>1
  <2>2. CASE UNCHANGED <<fd, total>>
    <3> SUFFICES ASSUME NEW b \in 1 .. total PROVE On(fd, Base + b)'
      BY <2>2
    <3>1. On(fd, Base + b)
      BY DEF ByteInv
    <3> QED
      BY <1>1, <2>2, <3>1 DEF On
  <2> QED
    BY <2>1, <2>2
<1>5. /\ Base' \in Nat
      /\ \A i \in DOMAIN buffer' : buffer'[i] = Base' + i
  BY <1>1 DEF ByteInv
<1>6. \A n \in FileNames : \A i \in DOMAIN disk'[n] : disk'[n][i] \in 1 .. taken'
  BY DEF ByteInv
<1>7. /\ \A b \in 1 .. Base' : \E n \in FileNames : On(n, b)'
      /\ \A n \in FileNames : \A b, c \in Nat : Base' < c /\ c < b /\ On(n, b)' => On(n, c)'
  BY <1>1, <1>2 DEF ByteInv
<1> QED
  BY <1>3, <1>4, <1>5, <1>6, <1>7 DEF ByteInv

LEMMA OpenStep ==
  ASSUME FileInv, Open
  PROVE  FileInv'
<1>0. FileTypes /\ CallInv /\ WholeInv /\ ByteInv
  BY DEF FileInv
<1>1. /\ call = "none" /\ fd = NotOpen /\ fd' = file_name
      /\ UNCHANGED <<file_name, buffer, disk, call, flushing, total, need_process, next_name,
                     taken, copied, failures>>
  BY DEF Open
<1>2. FileTypes'
  BY <1>0, <1>1 DEF FileTypes
<1>3. ~flushing /\ total = 0
  BY <1>0, <1>1 DEF CallInv
<1>4. CallInv'
  BY <1>0, <1>1, <1>3 DEF CallInv
<1>5. WholeInv'
  <2> SUFFICES ASSUME failures' = 0
               PROVE  /\ \A n \in FileNames : disk'[n] \o Unwritten(n)' = copied'[n]
                      /\ (fd' = NotOpen \/ (call' \in {"Close", "SetFilename"} /\ ~flushing'))
                           => buffer' = <<>>
    BY DEF WholeInv
  <2>1. buffer = <<>> /\ \A n \in FileNames : disk[n] \o Unwritten(n) = copied[n]
    BY <1>0, <1>1 DEF WholeInv
  <2>2. \A n : Unwritten(n) = <<>>
    BY <1>0, <2>1, NothingUnwritten
  <2>3. \A n : Unwritten(n)' = <<>>
    <3>1. SubSeq(buffer, total + 1, Len(buffer)) = <<>>
      BY <1>1, <2>2 DEF Unwritten, FileTypes
    <3> QED
      BY <1>1, <2>1, <3>1 DEF Unwritten
  <2> QED
    BY <1>1, <2>1, <2>2, <2>3
<1>6. ByteInv'
  BY <1>0, <1>1, <1>3, BytesStay
<1> QED
  BY <1>2, <1>4, <1>5, <1>6 DEF FileInv

(* The steps that leave the buffer, the files and the cursor alone and do  *)
(* not close: a call begins, or it returns.                                *)
LEMMA CallStep ==
  ASSUME FileInv, UNCHANGED <<fd, file_name, buffer, disk, taken, copied, failures>>,
         fd # NotOpen, call' \in FileCalls, flushing' \in BOOLEAN, total' = 0, total = 0,
         need_process' \in Nat, next_name' \in FileNames,
         flushing' => call' # "none",
         call' \in {"Close", "SetFilename"} => flushing'
  PROVE  FileInv'
<1>0. FileTypes /\ CallInv /\ WholeInv /\ ByteInv
  BY DEF FileInv
<1>1. FileTypes'
  BY <1>0 DEF FileTypes
<1>2. CallInv'
  BY <1>0 DEF CallInv, FileTypes
<1>3. \A n : Unwritten(n)' = Unwritten(n)
  BY DEF Unwritten
<1>4. WholeInv'
  BY <1>0, <1>3 DEF WholeInv
<1>5. ByteInv'
  BY <1>0, BytesStay
<1> QED
  BY <1>1, <1>2, <1>4, <1>5 DEF FileInv

LEMMA WriteStep ==
  ASSUME FileInv, NEW len \in 1 .. MaxBytes, Write(len)
  PROVE  FileInv'
<1>1. /\ call = "none" /\ fd # NotOpen /\ call' = "Write" /\ need_process' = len
      /\ UNCHANGED <<fd, file_name, buffer, disk, flushing, total, next_name, taken, copied,
                     failures>>
  BY DEF Write
<1>2. flushing = FALSE /\ total = 0 /\ next_name \in FileNames
  BY <1>1 DEF FileInv, FileTypes, CallInv
<1>3. len \in Nat
  BY FileParameters
<1> QED
  BY <1>1, <1>2, <1>3, CallStep DEF FileCalls

LEMMA CallFlushStep ==
  ASSUME FileInv, NEW c \in {"Flush", "Close", "SetFilename"}, CallFlush(c),
         next_name' \in FileNames
  PROVE  FileInv'
<1>1. /\ call = "none" /\ fd # NotOpen /\ call' = c /\ flushing' = TRUE /\ total' = 0
      /\ UNCHANGED <<fd, file_name, buffer, disk, need_process, taken, copied, failures>>
  BY DEF CallFlush
<1>2. total = 0 /\ need_process \in Nat
  BY <1>1 DEF FileInv, FileTypes, CallInv
<1>3. call' \in FileCalls /\ call' # "none"
  BY <1>1 DEF FileCalls
<1> QED
  BY <1>1, <1>2, <1>3, CallStep

LEMMA ReturnStep ==
  ASSUME FileInv, WriteReturns \/ FlushReturns
  PROVE  FileInv'
<1>1. /\ call # "none" /\ ~flushing /\ call' = "none"
      /\ UNCHANGED <<fd, file_name, buffer, disk, flushing, total, need_process, next_name,
                     taken, copied, failures>>
  BY DEF WriteReturns, FlushReturns
<1>2. /\ total = 0 /\ fd # NotOpen /\ need_process \in Nat /\ next_name \in FileNames
      /\ flushing = FALSE
  BY <1>1 DEF FileInv, FileTypes, CallInv
<1> QED
  BY <1>1, <1>2, CallStep DEF FileCalls

LEMMA RenameClosedStep ==
  ASSUME FileInv, NEW n \in FileNames, SetFilenameOfClosed(n)
  PROVE  FileInv'
<1>0. FileTypes /\ CallInv /\ WholeInv /\ ByteInv
  BY DEF FileInv
<1>1. /\ fd = NotOpen /\ file_name' = n
      /\ UNCHANGED <<fd, buffer, disk, call, flushing, total, need_process, next_name, taken,
                     copied, failures>>
  BY DEF SetFilenameOfClosed
<1>2. FileTypes'
  BY <1>0, <1>1 DEF FileTypes
<1>3. CallInv'
  BY <1>0, <1>1 DEF CallInv
<1>4. \A m : Unwritten(m)' = Unwritten(m)
  BY <1>1 DEF Unwritten
<1>5. WholeInv'
  BY <1>0, <1>1, <1>4 DEF WholeInv
<1>6. ByteInv'
  BY <1>0, <1>1, BytesStay
<1> QED
  BY <1>2, <1>3, <1>5, <1>6 DEF FileInv

(* A failed write() leaves the whole buffer to the next flush.             *)
LEMMA WriteErrorStep ==
  ASSUME FileInv, WriteError
  PROVE  FileInv'
<1>0. FileTypes /\ CallInv /\ WholeInv /\ ByteInv
  BY DEF FileInv
<1>1. /\ flushing /\ flushing' = FALSE /\ total' = 0 /\ failures' = failures + 1
      /\ need_process' = 0 /\ call' = (IF call = "Write" THEN "none" ELSE call)
      /\ UNCHANGED <<fd, file_name, buffer, disk, next_name, taken, copied>>
  BY DEF WriteError
<1>2. failures' \in Nat /\ failures' # 0 /\ call' \in FileCalls
  BY <1>0, <1>1 DEF FileTypes, FileCalls
<1>3. FileTypes'
  BY <1>0, <1>1, <1>2 DEF FileTypes
<1>4. CallInv'
  BY <1>0, <1>1 DEF CallInv
<1>5. WholeInv'
  BY <1>2 DEF WholeInv
<1>6. ByteInv'
  BY <1>0, <1>1, BytesStay
<1> QED
  BY <1>3, <1>4, <1>5, <1>6 DEF FileInv

LEMMA ClosesStep ==
  ASSUME FileInv, Closes
  PROVE  FileInv'
<1>0. FileTypes /\ CallInv /\ WholeInv /\ ByteInv
  BY DEF FileInv
<1>1. /\ call \in {"Close", "SetFilename"} /\ ~flushing /\ fd' = NotOpen /\ call' = "none"
      /\ file_name' = (IF call = "SetFilename" THEN next_name ELSE file_name)
      /\ UNCHANGED <<buffer, disk, flushing, total, need_process, next_name, taken, copied,
                     failures>>
  BY DEF Closes
<1>2. FileTypes'
  <2>1. file_name' \in FileNames /\ call' \in FileCalls /\ fd' \in FileNames \cup {NotOpen}
    BY <1>0, <1>1 DEF FileTypes, FileCalls
  <2> QED
    BY <1>0, <1>1, <2>1 DEF FileTypes
<1>3. total = 0
  BY <1>0, <1>1 DEF CallInv
<1>4. CallInv'
  BY <1>1, <1>3 DEF CallInv
<1>5. WholeInv'
  <2> SUFFICES ASSUME failures = 0
               PROVE  /\ \A n \in FileNames : disk[n] \o Unwritten(n)' = copied[n]
                      /\ buffer' = <<>>
    BY <1>1 DEF WholeInv
  <2>1. buffer = <<>> /\ \A n \in FileNames : disk[n] \o Unwritten(n) = copied[n]
    BY <1>0, <1>1 DEF WholeInv
  <2>2. \A n \in FileNames : Unwritten(n) = <<>>
    BY <1>0, <2>1, NothingUnwritten
  <2>3. \A n \in FileNames : Unwritten(n)' = <<>>
    BY <1>1, FileParameters DEF Unwritten
  <2> QED
    BY <1>1, <2>1, <2>2, <2>3
<1>6. ByteInv'
  BY <1>0, <1>1, <1>3, BytesStay
<1> QED
  BY <1>2, <1>4, <1>5, <1>6 DEF FileInv

(* Bytes that follow those of the buffer join what is still unwritten.     *)
LEMMA CopyStep ==
  ASSUME FileInv, CopyToBuffer
  PROVE  FileInv'
<1>0. FileTypes /\ CallInv /\ WholeInv /\ ByteInv
  BY DEF FileInv
<1> DEFINE L == Len(buffer)
           remain == BufferSize - L
           room == IF remain >= need_process THEN need_process ELSE remain
<1>1. L \in Nat /\ L <= BufferSize /\ need_process \in Nat /\ BufferSize \in Nat
  BY <1>0, FileParameters DEF FileTypes
<1>2. room \in Nat /\ L + room <= BufferSize /\ need_process - room \in Nat
  BY <1>1
<1>3. PICK m \in Nat : m = room
  BY <1>2
<1> DEFINE bytes == [i \in 1 .. m |-> taken + i]
<1>4. /\ call = "Write" /\ ~flushing /\ buffer' = buffer \o bytes
      /\ taken' = taken + m
      /\ copied' = [copied EXCEPT ![fd] = @ \o bytes]
      /\ need_process' = need_process - m
      /\ flushing' = (Len(buffer') = BufferSize) /\ total' = 0
      /\ UNCHANGED <<fd, file_name, disk, call, next_name, failures>>
  BY <1>3 DEF CopyToBuffer
<1>5. L + m <= BufferSize /\ need_process - m \in Nat
  BY <1>2, <1>3
<1>6. bytes \in Seq(Nat) /\ Len(bytes) = m /\ \A i \in 1 .. m : bytes[i] = taken + i
  BY <1>0 DEF FileTypes
<1> HIDE DEF room, remain, bytes
<1>7. fd \in FileNames /\ fd # NotOpen /\ total = 0
  BY <1>0, <1>4 DEF CallInv, FileTypes
<1>8. /\ buffer' \in Seq(Nat) /\ Len(buffer') = L + m
      /\ \A i \in 1 .. L + m : buffer'[i] = IF i <= L THEN buffer[i] ELSE bytes[i - L]
  <2>1. buffer \in Seq(Nat)
    BY <1>0 DEF FileTypes
  <2> HIDE DEF L
  <2> QED
    BY <1>4, <1>6, <2>1, ConcatProperties DEF L
<1> HIDE DEF L
<1>9. /\ copied'[fd] = copied[fd] \o bytes
      /\ \A n \in FileNames : n # fd => copied'[n] = copied[n]
      /\ copied' \in [FileNames -> Seq(Nat)]
  <2>1. copied[fd] \o bytes \in Seq(Nat)
    BY <1>0, <1>6, <1>7, ConcatProperties DEF FileTypes
  <2> QED
    BY <1>0, <1>4, <1>7, <2>1 DEF FileTypes
<1>10. FileTypes'
  <2>1. Len(buffer') <= BufferSize /\ taken' \in Nat
    BY <1>0, <1>4, <1>5, <1>8 DEF FileTypes
  <2>2. flushing' \in BOOLEAN /\ need_process' \in Nat
    BY <1>4, <1>5
  <2> QED
    BY <1>0, <1>4, <1>8, <1>9, <2>1, <2>2 DEF FileTypes
<1>11. CallInv'
  BY <1>0, <1>1, <1>4, <1>7, <1>8 DEF CallInv, FileTypes
<1>12. WholeInv'
  <2> SUFFICES ASSUME failures = 0, NEW n \in FileNames
               PROVE  disk[n] \o Unwritten(n)' = copied'[n]
    BY <1>4, <1>7 DEF WholeInv
  <2>1. disk[n] \o Unwritten(n) = copied[n]
    BY <1>0 DEF WholeInv
  <2>2. CASE n # fd
    BY <1>4, <1>9, <2>1, <2>2 DEF Unwritten
  <2>3. CASE n = fd
    <3>1. Unwritten(fd) = buffer
      <4>1. total + 1 = 1
        BY <1>7
      <4>2. SubSeq(buffer, 1, Len(buffer)) = buffer
        BY <1>0, SubSeqFull DEF FileTypes
      <4> QED
        BY <4>1, <4>2 DEF Unwritten
    <3>2. Unwritten(fd)' = buffer'
      <4>1. total' + 1 = 1 /\ fd' = fd
        BY <1>4
      <4>2. SubSeq(buffer', 1, Len(buffer')) = buffer'
        BY <1>8, SubSeqFull
      <4> QED
        BY <4>1, <4>2 DEF Unwritten
    <3>3. disk[fd] \in Seq(Nat) /\ buffer \in Seq(Nat)
      BY <1>0, <1>7 DEF FileTypes
    <3>4. (disk[fd] \o buffer) \o bytes = disk[fd] \o (buffer \o bytes)
      BY <1>6, <3>3, Joining
    <3> QED
      BY <1>4, <1>9, <2>1, <2>3, <3>1, <3>2, <3>4 DEF Unwritten
  <2> QED
    BY <2>2, <2>3
<1>13. ByteInv'
  <2>1. Base \in Nat /\ taken \in Nat /\ Base = taken - L
    BY <1>0 DEF ByteInv, FileTypes, Base, L
  <2>2. Base' = Base
    <3>1. Base' = taken' - Len(buffer')
      BY DEF Base
    <3>2. Base' = (taken + m) - (L + m)
      BY <1>4, <1>8, <3>1
    <3> QED
      BY <1>1, <2>1, <3>2
  <2>3. ASSUME NEW i \in DOMAIN buffer' PROVE buffer'[i] = Base + i
    <3>1. i \in 1 .. L + m /\ i \in Nat
      BY <1>1, <1>8, <2>3
    <3>2. CASE i <= L
      <4>1. i \in DOMAIN buffer
        BY <1>0, <3>1, <3>2 DEF FileTypes, L
      <4> QED
        BY <1>0, <1>8, <3>1, <3>2, <4>1 DEF ByteInv
    <3>3. CASE i > L
      <4>1. i - L \in 1 .. m
        BY <1>1, <3>1, <3>3
      <4>2. buffer'[i] = taken + (i - L)
        BY <1>1, <1>6, <1>8, <3>1, <3>3, <4>1
      <4> QED
        BY <1>1, <2>1, <3>1, <4>2
    <3> QED
      BY <1>1, <3>1, <3>2, <3>3
  <2>4. \A n, b : On(n, b)' <=> On(n, b)
    BY <1>4 DEF On
  <2>5. ASSUME NEW n \in FileNames, NEW i \in DOMAIN disk[n] PROVE disk[n][i] \in 1 .. taken'
    <3>1. disk[n][i] \in 1 .. taken
      BY <1>0 DEF ByteInv
    <3> QED
      BY <1>4, <2>1, <3>1
  <2>6. \A n \in FileNames : InOrder(disk'[n])
    BY <1>0, <1>4 DEF ByteInv
  <2>7. \A b \in 1 .. total' : On(fd, Base + b)'
    BY <1>4
  <2>8. /\ \A b \in 1 .. Base' : \E n \in FileNames : On(n, b)'
        /\ \A n \in FileNames : \A b, c \in Nat : Base' < c /\ c < b /\ On(n, b)' => On(n, c)'
    BY <1>0, <2>2, <2>4 DEF ByteInv
  <2> QED
    BY <1>4, <2>1, <2>2, <2>3, <2>5, <2>6, <2>7, <2>8 DEF ByteInv
<1> QED
  BY <1>10, <1>11, <1>12, <1>13 DEF FileInv

(* A run of bytes that follows a prefix of the buffer keeps a file in      *)
(* order when the file holds of the buffer, at first, a prefix too.        *)
RunFollows(d, e, k, first, bottom) ==
  /\ Len(e) = Len(d) + k /\ bottom <= first
  /\ \A i \in 1 .. Len(d) : e[i] = d[i]
  /\ \A i \in 1 .. k : e[Len(d) + i] = first + i
  /\ \A b, c \in Nat : bottom < c /\ c < b /\ (\E i \in DOMAIN d : d[i] = b)
                         => \E i \in DOMAIN d : d[i] = c
  /\ InOrder(d)

LEMMA AppendedRun ==
  ASSUME NEW d \in Seq(Nat), NEW e \in Seq(Nat), NEW k \in Nat, NEW first \in Nat,
         NEW bottom \in Nat, RunFollows(d, e, k, first, bottom)
  PROVE  InOrder(e)
<1>0. /\ Len(e) = Len(d) + k /\ bottom <= first
      /\ \A i \in 1 .. Len(d) : e[i] = d[i]
      /\ \A i \in 1 .. k : e[Len(d) + i] = first + i
      /\ \A b, c \in Nat : bottom < c /\ c < b /\ (\E i \in DOMAIN d : d[i] = b)
                             => \E i \in DOMAIN d : d[i] = c
      /\ InOrder(d)
  BY DEF RunFollows
<1> DEFINE D == Len(d)
<1>1. /\ D \in Nat /\ DOMAIN d = 1 .. D /\ DOMAIN e = 1 .. D + k
      /\ \A i \in 1 .. D : e[i] = d[i] /\ d[i] \in Nat
      /\ \A i \in 1 .. k : e[D + i] = first + i
  BY <1>0
<1> HIDE DEF D
<1> SUFFICES ASSUME NEW j \in 1 .. D + k
             PROVE  \/ \A i \in 1 .. D + k : i < j => e[i] < e[j]
                    \/ \E i \in 1 .. D + k : i < j /\ e[i] = e[j]
  BY <1>1 DEF InOrder
<1>2. CASE j <= D
  <2>1. j \in 1 .. D
    BY <1>1, <1>2
  <2>2. \A i \in 1 .. D + k : i < j => i \in 1 .. D
    BY <1>1, <1>2
  <2>3. \A i \in 1 .. D : i \in 1 .. D + k
    BY <1>1
  <2>4. \/ \A i \in 1 .. D : i < j => d[i] < d[j]
        \/ \E i \in 1 .. D : i < j /\ d[i] = d[j]
    BY <1>0, <1>1, <2>1 DEF InOrder
  <2> QED
    BY <1>1, <2>1, <2>2, <2>3, <2>4
<1>3. CASE j > D
  <2>1. PICK g \in 1 .. k : j = D + g
    <3>1. j - D \in 1 .. k /\ j = D + (j - D)
      BY <1>1, <1>3
    <3> QED
      BY <3>1
  <2>2. e[j] = first + g
    BY <1>1, <2>1
  <2>3. CASE \E i \in 1 .. D : d[i] = first + g
    <3>1. PICK i \in 1 .. D : d[i] = first + g
      BY <2>3
    <3>2. i \in 1 .. D + k /\ i < j /\ e[i] = e[j]
      BY <1>1, <1>3, <2>2, <3>1
    <3> QED
      BY <3>2
  <2>4. CASE ~\E i \in 1 .. D : d[i] = first + g
    <3>1. ASSUME NEW i \in 1 .. D + k, i < j PROVE e[i] < e[j]
      <4>1. CASE i <= D
        <5>1. i \in 1 .. D /\ e[i] = d[i] /\ d[i] \in Nat
          BY <1>1, <4>1
        <5>2. d[i] # first + g
          BY <2>4, <5>1
        <5>3. ~(first + g < d[i])
          <6>1. first + g \in Nat /\ bottom < first + g
            BY <1>0
          <6> QED
            BY <1>0, <1>1, <2>4, <5>1, <6>1
        <5>4. PICK x \in Nat : x = d[i]
          BY <5>1
        <5>5. PICK y \in Nat : y = first + g
          OBVIOUS
        <5>6. x # y /\ ~(y < x)
          BY <5>2, <5>3, <5>4, <5>5
        <5>7. x < y
          BY <5>6
        <5> QED
          BY <2>2, <5>1, <5>4, <5>5, <5>7
      <4>2. CASE i > D
        <5>1. PICK h \in 1 .. k : i = D + h
          <6>1. i - D \in 1 .. k /\ i = D + (i - D)
            BY <1>1, <4>2
          <6> QED
            BY <6>1
        <5>2. e[i] = first + h
          BY <1>1, <5>1
        <5> QED
          BY <1>1, <2>1, <2>2, <3>1, <5>1, <5>2
      <4> QED
        BY <1>1, <4>1, <4>2
    <3> QED
      BY <3>1
  <2> QED
    BY <2>3, <2>4
<1> QED
  BY <1>1, <1>2, <1>3

(* write() takes some of the bytes that are left, and the buffer is empty  *)
(* again when none is left.                                                *)
LEMMA WriteSomeStep ==
  ASSUME FileInv, WriteSome
  PROVE  FileInv'
<1>0. FileTypes /\ CallInv /\ WholeInv /\ ByteInv
  BY DEF FileInv
<1>1. PICK k \in Takes :
        /\ disk' = [disk EXCEPT ![fd] = @ \o SubSeq(buffer, total + 1, total + k)]
        /\ IF total + k >= Len(buffer)
           THEN buffer' = <<>> /\ total' = 0 /\ flushing' = FALSE
           ELSE total' = total + k /\ UNCHANGED <<buffer, flushing>>
  BY DEF WriteSome
<1>2. /\ flushing
      /\ UNCHANGED <<fd, file_name, call, need_process, next_name, taken, copied, failures>>
  BY DEF WriteSome
<1>3. PICK L \in Nat : L = Len(buffer)
  BY <1>0 DEF FileTypes
<1>4. PICK base \in Nat : base = Base
  BY <1>0 DEF ByteInv
<1>5. /\ total \in Nat /\ total <= L /\ call # "none" /\ fd \in FileNames /\ fd # NotOpen
      /\ taken \in Nat /\ taken = base + L
  <2>1. taken \in Nat /\ Base = taken - L
    BY <1>0, <1>3 DEF FileTypes, Base
  <2>2. total \in Nat /\ total <= L /\ call # "none" /\ fd # NotOpen
    BY <1>0, <1>2, <1>3 DEF FileTypes, CallInv
  <2> QED
    BY <1>0, <1>4, <2>1, <2>2 DEF FileTypes
<1>6. k \in Nat /\ total + k <= L
  BY <1>3, <1>5 DEF Takes, BytesLeft
<1> DEFINE piece == SubSeq(buffer, total + 1, total + k)
<1>7. buffer \in Seq(Nat) /\ \A i \in 1 .. L : buffer[i] = base + i
  <2>1. buffer \in Seq(Nat) /\ DOMAIN buffer = 1 .. L
    BY <1>0, <1>3 DEF FileTypes
  <2> QED
    BY <1>0, <1>4, <2>1 DEF ByteInv
<1>8. piece \in Seq(Nat) /\ Len(piece) = k /\ \A i \in 1 .. k : piece[i] = base + total + i
  <2>1. total + 1 \in Int /\ total + k \in Int
    BY <1>5, <1>6
  <2>2. \A i \in total + 1 .. total + k : buffer[i] \in Nat /\ i \in 1 .. L
    BY <1>5, <1>6, <1>7
  <2>3. /\ piece \in Seq(Nat)
        /\ Len(piece) = IF total + 1 <= total + k THEN (total + k) - (total + 1) + 1 ELSE 0
        /\ \A i \in 1 .. (total + k) - (total + 1) + 1 : piece[i] = buffer[(total + 1) + i - 1]
    BY <2>1, <2>2, SubSeqProperties
  <2> HIDE DEF piece
  <2>4. (total + k) - (total + 1) + 1 = k /\ (total + 1 <= total + k <=> k # 0)
    BY <1>5, <1>6
  <2>5. Len(piece) = k
    BY <1>6, <2>3, <2>4
  <2>6. ASSUME NEW i \in 1 .. k PROVE piece[i] = base + total + i
    <3>1. (total + 1) + i - 1 = total + i /\ total + i \in 1 .. L
      BY <1>5, <1>6
    <3>2. piece[i] = buffer[total + i]
      BY <2>3, <2>4, <3>1
    <3>3. buffer[total + i] = base + (total + i)
      BY <1>7, <3>1
    <3> QED
      BY <1>5, <3>2, <3>3
  <2> QED
    BY <2>3, <2>5, <2>6
<1> HIDE DEF piece
<1>9. disk[fd] \in Seq(Nat)
  BY <1>0, <1>5 DEF FileTypes
<1>10. /\ disk'[fd] = disk[fd] \o piece
       /\ \A n \in FileNames : n # fd => disk'[n] = disk[n]
       /\ disk' \in [FileNames -> Seq(Nat)]
  <2>1. disk[fd] \o piece \in Seq(Nat)
    BY <1>8, <1>9, ConcatProperties
  <2>2. disk' = [disk EXCEPT ![fd] = @ \o piece]
    BY <1>1 DEF piece
  <2> QED
    BY <1>0, <1>5, <2>1, <2>2 DEF FileTypes
<1>11. PICK D \in Nat : D = Len(disk[fd])
  BY <1>9
<1>12. /\ Len(disk'[fd]) = D + k /\ disk'[fd] \in Seq(Nat)
       /\ DOMAIN disk[fd] = 1 .. D /\ DOMAIN disk'[fd] = 1 .. D + k
       /\ \A i \in 1 .. D : disk'[fd][i] = disk[fd][i]
       /\ \A i \in 1 .. k : disk'[fd][D + i] = base + total + i
  <2>1. /\ disk'[fd] \in Seq(Nat) /\ Len(disk'[fd]) = D + k
        /\ \A i \in 1 .. D + k :
             disk'[fd][i] = IF i <= D THEN disk[fd][i] ELSE piece[i - D]
    <3>1. PICK d \in Seq(Nat) : d = disk[fd]
      BY <1>9
    <3>2. /\ d \o piece \in Seq(Nat) /\ Len(d \o piece) = D + k
          /\ \A i \in 1 .. D + k : (d \o piece)[i] = IF i <= D THEN d[i] ELSE piece[i - D]
      BY <1>8, <1>11, <3>1, Joining
    <3> QED
      BY <1>10, <3>1, <3>2
  <2>2. DOMAIN disk[fd] = 1 .. D /\ DOMAIN disk'[fd] = 1 .. D + k
    BY <1>9, <1>11, <2>1
  <2>3. ASSUME NEW i \in 1 .. D PROVE disk'[fd][i] = disk[fd][i]
    <3>1. i \in 1 .. D + k /\ i <= D
      BY <1>6
    <3> QED
      BY <2>1, <3>1
  <2>4. ASSUME NEW i \in 1 .. k PROVE disk'[fd][D + i] = base + total + i
    <3>1. D + i \in 1 .. D + k /\ ~(D + i <= D) /\ (D + i) - D = i
      BY <1>6
    <3>2. disk'[fd][D + i] = piece[i]
      BY <2>1, <3>1
    <3> QED
      BY <1>8, <3>2
  <2> QED
    BY <2>1, <2>2, <2>3, <2>4
<1>13. ASSUME NEW n \in FileNames, NEW b
       PROVE  On(n, b)' <=> On(n, b) \/ (n = fd /\ \E i \in 1 .. k : b = base + total + i)
  <2>1. CASE n # fd
    BY <1>10, <2>1 DEF On
  <2>2. CASE n = fd
    <3>1. ASSUME On(fd, b)' PROVE On(fd, b) \/ \E i \in 1 .. k : b = base + total + i
      <4>1. PICK i \in 1 .. D + k : disk'[fd][i] = b
        BY <1>2, <1>12, <3>1 DEF On
      <4>2. CASE i <= D
        <5>1. i \in 1 .. D
          BY <4>2
        <5> QED
          BY <1>12, <4>1, <5>1 DEF On
      <4>3. CASE i > D
        <5>1. i - D \in 1 .. k /\ D + (i - D) = i
          BY <1>6, <4>3
        <5> QED
          BY <1>12, <4>1, <5>1
      <4> QED
        BY <4>2, <4>3
    <3>2. ASSUME On(fd, b) PROVE On(fd, b)'
      <4>1. PICK i \in 1 .. D : disk[fd][i] = b
        BY <1>12, <3>2 DEF On
      <4>2. i \in 1 .. D + k
        BY <1>6
      <4> QED
        BY <1>2, <1>12, <4>1, <4>2 DEF On
    <3>3. ASSUME NEW i \in 1 .. k, b = base + total + i PROVE On(fd, b)'
      <4>1. D + i \in 1 .. D + k
        BY <1>6
      <4> QED
        BY <1>2, <1>12, <3>3, <4>1 DEF On
    <3> QED
      BY <1>2, <2>2, <3>1, <3>2, <3>3 DEF On
  <2> QED
    BY <2>1, <2>2
<1>14. InOrder(disk'[fd])
  <2>1. \A b, c \in Nat : base < c /\ c < b /\ (\E i \in DOMAIN disk[fd] : disk[fd][i] = b)
                            => \E i \in DOMAIN disk[fd] : disk[fd][i] = c
    BY <1>0, <1>4, <1>5 DEF ByteInv, On
  <2>2. InOrder(disk[fd])
    BY <1>0, <1>5 DEF ByteInv
  <2>3. base + total \in Nat /\ base <= base + total
    BY <1>5
  <2>4. PICK first \in Nat : first = base + total
    BY <2>3
  <2>5. PICK d \in Seq(Nat), e \in Seq(Nat) : d = disk[fd] /\ e = disk'[fd]
    BY <1>9, <1>12
  <2>6. /\ Len(e) = Len(d) + k /\ base <= first /\ InOrder(d)
        /\ \A i \in 1 .. Len(d) : e[i] = d[i]
        /\ \A i \in 1 .. k : e[Len(d) + i] = first + i
    BY <1>11, <1>12, <2>2, <2>3, <2>4, <2>5
  <2>7. \A b, c \in Nat : base < c /\ c < b /\ (\E i \in DOMAIN d : d[i] = b)
                            => \E i \in DOMAIN d : d[i] = c
    BY <2>1, <2>5
  <2>8. InOrder(e)
    <3>1. RunFollows(d, e, k, first, base)
      BY <2>6, <2>7 DEF RunFollows
    <3> QED
      BY <1>6, <3>1, AppendedRun
  <2> QED
    BY <2>5, <2>8
<1>15. \A n \in FileNames : InOrder(disk'[n])
  BY <1>0, <1>10, <1>14 DEF ByteInv
<1>16. \A n \in FileNames : \A i \in DOMAIN disk'[n] : disk'[n][i] \in 1 .. taken
  <2> SUFFICES ASSUME NEW n \in FileNames, NEW i \in DOMAIN disk'[n]
               PROVE  disk'[n][i] \in 1 .. taken
    OBVIOUS
  <2>1. PICK b : b = disk'[n][i]
    OBVIOUS
  <2>2. On(n, b)'
    BY <2>1 DEF On
  <2>3. CASE On(n, b)
    BY <1>0, <2>1, <2>3 DEF On, ByteInv
  <2>4. CASE \E h \in 1 .. k : b = base + total + h
    BY <1>5, <1>6, <2>1, <2>4
  <2> QED
    BY <1>13, <2>2, <2>3, <2>4
<1>17. \A b \in 1 .. base : \E n \in FileNames : On(n, b)'
  BY <1>0, <1>4, <1>13 DEF ByteInv
<1>18. \A b \in 1 .. total + k : On(fd, base + b)'
  <2> SUFFICES ASSUME NEW b \in 1 .. total + k PROVE On(fd, base + b)'
    OBVIOUS
  <2>1. PICK v : v = base + b
    OBVIOUS
  <2>3. PICK f \in FileNames : f = fd
    BY <1>5
  <2>2. On(f, v)'
    <3>1. CASE b <= total
      <4>1. b \in 1 .. total
        BY <1>5, <3>1
      <4>2. On(fd, v)
        BY <1>0, <1>4, <2>1, <4>1 DEF ByteInv
      <4> QED
        BY <1>13, <2>3, <4>2
    <3>2. CASE b > total
      <4>1. b - total \in 1 .. k /\ v = base + total + (b - total)
        BY <1>5, <1>6, <2>1, <3>2
      <4> QED
        BY <1>13, <2>3, <4>1
    <3> QED
      BY <1>5, <1>6, <3>1, <3>2
  <2> QED
    BY <1>2, <2>1, <2>2, <2>3 DEF On
<1>19. CASE total + k >= L
  <2>1. buffer' = <<>> /\ total' = 0 /\ flushing' = FALSE /\ total + k = L
    BY <1>1, <1>3, <1>5, <1>6, <1>19
  <2>2. FileTypes'
    <3>1. <<>> \in Seq(Nat) /\ Len(<<>>) = 0
      OBVIOUS
    <3>2. Len(buffer') <= BufferSize
      BY <2>1, <3>1, FileParameters
    <3> QED
      BY <1>0, <1>2, <1>10, <2>1, <3>1, <3>2 DEF FileTypes
  <2>3. CallInv'
    BY <1>0, <1>2, <2>1 DEF CallInv
  <2>4. \A n : Unwritten(n)' = <<>>
    <3>1. FileTypes' /\ buffer' = <<>>
      BY <2>1, <2>2
    <3>2. SubSeq(<<>>, 1, 0) = <<>> /\ Len(<<>>) = 0 /\ 0 + 1 = 1
      OBVIOUS
    <3> QED
      BY <2>1, <3>2 DEF Unwritten
  <2>5. WholeInv'
    <3> SUFFICES ASSUME failures = 0, NEW n \in FileNames
                 PROVE  disk'[n] \o <<>> = copied[n]
      BY <1>2, <2>1, <2>4 DEF WholeInv
    <3>1. disk[n] \o Unwritten(n) = copied[n]
      BY <1>0 DEF WholeInv
    <3>2. disk'[n] \in Seq(Nat)
      BY <1>10
    <3>3. disk'[n] \o <<>> = disk'[n]
      BY <3>2, ConcatEmptySeq
    <3>4. CASE n # fd
      BY <1>10, <3>1, <3>4 DEF Unwritten
    <3>5. CASE n = fd
      BY <1>3, <1>10, <2>1, <3>1, <3>3, <3>5 DEF Unwritten, piece
    <3> QED
      BY <3>4, <3>5
  <2>6. ByteInv'
    <3>1. Base' = taken
      <4>1. Len(buffer') = 0
        BY <2>1
      <4> QED
        BY <1>2, <1>5, <4>1 DEF Base
    <3>2. ASSUME NEW b \in 1 .. taken PROVE \E n \in FileNames : On(n, b)'
      <4>1. CASE b <= base
        <5>1. b \in 1 .. base
          BY <4>1
        <5> QED
          BY <1>17, <5>1
      <4>2. CASE b > base
        <5>1. b - base \in 1 .. total + k /\ base + (b - base) = b
          BY <1>5, <1>6, <2>1, <4>2
        <5>2. On(fd, base + (b - base))'
          BY <1>18, <5>1
        <5>3. PICK f \in FileNames : f = fd
          BY <1>5
        <5>4. On(f, b)'
          BY <1>2, <5>1, <5>2, <5>3 DEF On
        <5> QED
          BY <5>4
      <4> QED
        BY <1>5, <4>1, <4>2
    <3>3. ASSUME NEW n \in FileNames, NEW b \in Nat, NEW c \in Nat, taken < c, c < b, On(n, b)'
          PROVE  FALSE
      <4>1. PICK i \in DOMAIN disk'[n] : disk'[n][i] = b
        BY <3>3 DEF On
      <4>2. b \in 1 .. taken
        BY <1>16, <4>1
      <4> QED
        BY <1>5, <3>3, <4>2
    <3>4. DOMAIN buffer' = {}
      BY <2>1
    <3>5. \A b \in 1 .. total' : On(fd, Base + b)'
      BY <2>1
    <3> QED
      BY <1>2, <1>5, <1>15, <1>16, <3>1, <3>2, <3>3, <3>4, <3>5 DEF ByteInv
  <2> QED
    BY <2>2, <2>3, <2>5, <2>6 DEF FileInv
<1>20. CASE total + k < L
  <2>1. total' = total + k /\ UNCHANGED <<buffer, flushing>>
    BY <1>1, <1>3, <1>5, <1>6, <1>20
  <2>2. FileTypes'
    BY <1>0, <1>2, <1>5, <1>6, <1>10, <2>1 DEF FileTypes
  <2>3. CallInv'
    BY <1>0, <1>2, <1>3, <1>5, <1>6, <2>1 DEF CallInv
  <2>4. WholeInv'
    <3> SUFFICES ASSUME failures = 0, NEW n \in FileNames
                 PROVE  disk'[n] \o Unwritten(n)' = copied[n]
      BY <1>2, <1>5, <2>1 DEF WholeInv
    <3>1. disk[n] \o Unwritten(n) = copied[n]
      BY <1>0 DEF WholeInv
    <3>2. CASE n # fd
      BY <1>2, <1>10, <3>1, <3>2 DEF Unwritten
    <3>3. CASE n = fd
      <4> DEFINE rest == SubSeq(buffer, (total + k) + 1, L)
      <4>1. piece \o rest = SubSeq(buffer, total + 1, L)
        <5>1. total + 1 \in 1 .. L + 1 /\ total + k \in (total + 1) - 1 .. L /\ L \in total + k .. L
          BY <1>5, <1>6
        <5> QED
          BY <1>3, <1>7, <5>1, ConcatAdjacentSubSeq DEF piece
      <4>2. Unwritten(fd) = piece \o rest /\ Unwritten(fd)' = rest
        BY <1>2, <1>3, <2>1, <4>1 DEF Unwritten
      <4>3. rest \in Seq(Nat)
        BY <1>3, <1>5, <1>6, <1>7
      <4> HIDE DEF rest
      <4>4. (disk[fd] \o piece) \o rest = disk[fd] \o (piece \o rest)
        BY <1>8, <1>9, <4>3, Joining
      <4>5. Unwritten(n)' = rest /\ Unwritten(n) = piece \o rest
        BY <1>2, <3>3, <4>2 DEF Unwritten
      <4> QED
        BY <1>10, <3>1, <3>3, <4>4, <4>5
    <3> QED
      BY <3>2, <3>3
  <2>5. ByteInv'
    <3>1. Base' = base
      BY <1>2, <1>4, <2>1 DEF Base
    <3>2. \A i \in DOMAIN buffer' : buffer'[i] = base + i
      BY <1>0, <1>4, <2>1 DEF ByteInv
    <3>3. \A b \in 1 .. total' : On(fd, Base + b)'
      <4> SUFFICES ASSUME NEW b \in 1 .. total + k PROVE On(fd, Base + b)'
        BY <2>1
      <4>1. On(fd, base + b)'
        BY <1>18
      <4> QED
        BY <3>1, <4>1 DEF On
    <3>4. ASSUME NEW n \in FileNames, NEW b \in Nat, NEW c \in Nat, base < c, c < b, On(n, b)'
          PROVE  On(n, c)'
      <4>1. CASE On(n, b)
        BY <1>0, <1>4, <1>13, <3>4, <4>1 DEF ByteInv
      <4>2. CASE n = fd /\ \E i \in 1 .. k : b = base + total + i
        <5>1. b <= base + (total + k)
          BY <1>5, <1>6, <4>2
        <5>2. c - base \in 1 .. total + k /\ base + (c - base) = c
          BY <1>5, <1>6, <3>4, <5>1
        <5>3. On(fd, base + (c - base))'
          BY <1>18, <5>2
        <5> QED
          BY <1>2, <4>2, <5>2, <5>3 DEF On
      <4> QED
        BY <1>13, <3>4, <4>1, <4>2
    <3> QED
      BY <1>2, <1>15, <1>16, <1>17, <3>1, <3>2, <3>3, <3>4 DEF ByteInv
  <2> QED
    BY <2>2, <2>3, <2>4, <2>5 DEF FileInv
<1> QED
  BY <1>5, <1>6, <1>19, <1>20

(* No byte is lost and, without failures, each file holds what was written *)
(* to it: for buffers of any size and writes of any lengths.               *)
THEOREM FileInvHolds == FileSpec => []FileInv
<1>1. FileInit => FileInv
  BY InitFileInv
<1>2. FileInv /\ [FileNext]_fileVars => FileInv'
  <2> SUFFICES ASSUME FileInv, [FileNext]_fileVars PROVE FileInv'
    OBVIOUS
  <2>1. CASE Open
    BY <2>1, OpenStep
  <2>2. CASE \E len \in 1 .. MaxBytes : Write(len)
    BY <2>2, WriteStep
  <2>3. CASE Flush \/ Close
    <3>1. next_name' \in FileNames
      BY <2>3 DEF Flush, Close, FileInv, FileTypes
    <3> QED
      BY <2>3, <3>1, CallFlushStep DEF Flush, Close
  <2>4. ASSUME NEW n \in FileNames, SetFilename(n) PROVE FileInv'
    BY <2>4, CallFlushStep DEF SetFilename
  <2>5. ASSUME NEW n \in FileNames, SetFilenameOfClosed(n) PROVE FileInv'
    BY <2>5, RenameClosedStep
  <2>6. CASE CopyToBuffer
    BY <2>6, CopyStep
  <2>7. CASE WriteReturns \/ FlushReturns
    BY <2>7, ReturnStep
  <2>8. CASE WriteSome
    BY <2>8, WriteSomeStep
  <2>9. CASE WriteError
    BY <2>9, WriteErrorStep
  <2>10. CASE Closes
    BY <2>10, ClosesStep
  <2>11. CASE UNCHANGED fileVars
    <3>1. UNCHANGED <<fd, file_name, buffer, disk, call, flushing, total, need_process, next_name,
                      taken, copied, failures>>
      BY <2>11 DEF fileVars
    <3>2. FileTypes' /\ CallInv'
      BY <3>1 DEF FileInv, FileTypes, CallInv
    <3>3. WholeInv'
      BY <3>1 DEF FileInv, WholeInv, Unwritten
    <3>4. ByteInv'
      BY <3>1, BytesStay DEF FileInv
    <3> QED
      BY <3>2, <3>3, <3>4 DEF FileInv
  <2> QED
    BY <2>1, <2>2, <2>3, <2>4, <2>5, <2>6, <2>7, <2>8, <2>9, <2>10, <2>11 DEF FileNext, InCall
<1> QED
  BY <1>1, <1>2, PTL DEF FileSpec

(* As long as no write() has failed, the files hold what Write was given,  *)
(* and GetFileLen is its length (the comments on SetFilename, GetFileLen). *)
THEOREM FilesAreWhole == FileSpec => []FileHasWhatWasWritten
<1>1. FileInv => FileHasWhatWasWritten
  <2> SUFFICES ASSUME FileInv, failures = 0
               PROVE  /\ \A n \in FileNames : disk[n] \o Unwritten(n) = copied[n]
                      /\ call = "none" => GetFileLen = Len(copied[file_name])
    BY DEF FileHasWhatWasWritten, Unwritten
  <2>0. FileTypes /\ CallInv /\ WholeInv
    BY DEF FileInv
  <2>1. \A n \in FileNames : disk[n] \o Unwritten(n) = copied[n]
    BY <2>0 DEF WholeInv
  <2>2. ASSUME call = "none" PROVE Len(disk[file_name]) + Len(buffer) = Len(copied[file_name])
    <3>1. total = 0 /\ file_name \in FileNames /\ disk[file_name] \in Seq(Nat) /\ buffer \in Seq(Nat)
      BY <2>0, <2>2 DEF CallInv, FileTypes
    <3>2. Unwritten(file_name) = buffer
      <4>1. CASE fd = NotOpen
        <5>1. buffer = <<>>
          BY <2>0, <4>1 DEF WholeInv
        <5> QED
          BY <2>0, <5>1, NothingUnwritten
      <4>2. CASE fd # NotOpen
        <5>1. fd = file_name /\ total + 1 = 1
          BY <2>0, <3>1, <4>2 DEF CallInv
        <5>2. SubSeq(buffer, 1, Len(buffer)) = buffer
          BY <3>1, SubSeqFull
        <5> QED
          BY <5>1, <5>2 DEF Unwritten
      <4> QED
        BY <4>1, <4>2
    <3>3. Len(disk[file_name] \o buffer) = Len(disk[file_name]) + Len(buffer)
      BY <3>1, ConcatProperties
    <3>4. disk[file_name] \o buffer = copied[file_name]
      BY <2>1, <3>1, <3>2
    <3> QED
      BY <3>3, <3>4
  <2> QED
    BY <2>1, <2>2 DEF GetFileLen, GetDiskFileLen
<1> QED
  BY <1>1, FileInvHolds, PTL

(* Whatever fails, a byte that Write took is in the buffer or in a file,   *)
(* and each file holds its bytes in order, repetitions left aside.         *)
THEOREM BytesAreKept == FileSpec => []NoByteLost
<1>1. FileInv => NoByteLost
  <2> SUFFICES ASSUME FileInv PROVE NoByteLost
    OBVIOUS
  <2>0. FileTypes /\ ByteInv
    BY DEF FileInv
  <2>1. Len(buffer) <= BufferSize
    BY <2>0 DEF FileTypes
  <2>2. ASSUME NEW b \in 1 .. taken
        PROVE  Contains(buffer, b) \/ \E n \in FileNames : Contains(disk[n], b)
    <3>1. Base \in Nat /\ taken \in Nat /\ Len(buffer) \in Nat /\ Base = taken - Len(buffer)
      BY <2>0 DEF FileTypes, ByteInv, Base
    <3>2. CASE b <= Base
      <4>1. b \in 1 .. Base
        BY <3>1, <3>2
      <4>2. PICK n \in FileNames : On(n, b)
        BY <2>0, <4>1 DEF ByteInv
      <4>3. DOMAIN disk[n] = 1 .. Len(disk[n])
        BY <2>0 DEF FileTypes
      <4> QED
        BY <4>2, <4>3 DEF On, Contains
    <3>3. CASE b > Base
      <4>1. PICK i \in 1 .. Len(buffer) : Base + i = b
        <5>1. b - Base \in 1 .. Len(buffer) /\ Base + (b - Base) = b
          BY <3>1, <3>3
        <5> QED
          BY <5>1
      <4>2. DOMAIN buffer = 1 .. Len(buffer)
        BY <2>0 DEF FileTypes
      <4>3. buffer[i] = b
        BY <2>0, <4>1, <4>2 DEF ByteInv
      <4> QED
        BY <4>1, <4>3 DEF Contains
    <3> QED
      BY <3>1, <3>2, <3>3
  <2>3. ASSUME NEW n \in FileNames, NEW i \in DOMAIN disk[n], NEW j \in DOMAIN disk[n], i < j,
               FirstAt(disk[n], j)
        PROVE  disk[n][i] < disk[n][j]
    <3>1. DOMAIN disk[n] = 1 .. Len(disk[n]) /\ Len(disk[n]) \in Nat
      BY <2>0 DEF FileTypes
    <3>2. \A h \in DOMAIN disk[n] : h < j => h \in 1 .. j - 1
      BY <3>1
    <3>3. ~\E h \in DOMAIN disk[n] : h < j /\ disk[n][h] = disk[n][j]
      BY <2>3, <3>2 DEF FirstAt
    <3>4. InOrder(disk[n])
      BY <2>0 DEF ByteInv
    <3> QED
      BY <2>3, <3>3, <3>4 DEF InOrder
  <2> QED
    BY <2>1, <2>2, <2>3 DEF NoByteLost
<1> QED
  BY <1>1, FileInvHolds, PTL

------------------------------------------------------------------------------
(* The ring *)

LEMMA RingParameters ==
  /\ ArrayLen \in Nat \ {0} /\ UIntSize \in Nat \ {0} /\ Threshold \in Nat \ {0}
  /\ ArrayLen < Threshold /\ Threshold < UIntSize /\ 2 * ArrayLen < UIntSize
BY RingAssumption

(* The position a cursor means stays the same when the cursor is turned    *)
(* down ...                                                                *)
LEMMA TurnedPosition ==
  ASSUME NEW n \in Nat \ {0}, NEW a \in Nat, NEW k \in Nat
  PROVE  ((a % n) + k) % n = (a + k) % n
<1>1. PICK r : r = a % n
  OBVIOUS
<1>2. PICK q : q = a \div n
  OBVIOUS
<1>3. r \in 0 .. n - 1 /\ q \in Int /\ a = n * q + r
  BY <1>1, <1>2, Quotient
<1>4. PICK b \in Nat : b = r + k
  BY <1>3
<1>5. PICK s : s = b % n
  OBVIOUS
<1>6. PICK p : p = b \div n
  OBVIOUS
<1>7. s \in 0 .. n - 1 /\ p \in Int /\ b = n * p + s
  BY <1>5, <1>6, Quotient
<1>8. a + k = n * (q + p) + s
  <2>1. n * (q + p) = n * q + n * p
    BY <1>3, <1>7
  <2>2. n * q \in Int /\ n * p \in Int
    BY <1>3, <1>7
  <2> QED
    BY <1>3, <1>4, <1>7, <2>1, <2>2
<1>9. (a + k) % n = s
  <2>1. a + k \in Nat /\ q + p \in Int
    BY <1>3, <1>7
  <2> QED
    BY <1>7, <1>8, <2>1, Remainders
<1> QED
  BY <1>1, <1>4, <1>5, <1>9

(* ... and so does the distance of two cursors, less than a turn apart,    *)
(* that do not change sides.                                               *)
LEMMA TurnedDistance ==
  ASSUME NEW n \in Nat \ {0}, NEW w \in Nat, NEW r \in Nat, r <= w, w - r < n, r % n <= w % n
  PROVE  (w % n) - (r % n) = w - r
<1>1. PICK a : a = w % n
  OBVIOUS
<1>2. PICK b : b = r % n
  OBVIOUS
<1>3. PICK p : p = w \div n
  OBVIOUS
<1>4. PICK q : q = r \div n
  OBVIOUS
<1>5. a \in 0 .. n - 1 /\ p \in Int /\ w = n * p + a
  BY <1>1, <1>3, Quotient
<1>6. b \in 0 .. n - 1 /\ q \in Int /\ r = n * q + b
  BY <1>2, <1>4, Quotient
<1>7. PICK d \in Int : d = p - q
  BY <1>5, <1>6
<1>8. n * d = (w - r) - (a - b)
  <2>1. n * (p - q) = n * p - n * q
    BY <1>5, <1>6
  <2>2. n * p \in Int /\ n * q \in Int
    BY <1>5, <1>6
  <2> QED
    BY <1>5, <1>6, <1>7, <2>1, <2>2
<1>9. b <= a
  BY <1>1, <1>2
<1>10. -n < n * d /\ n * d < n
  BY <1>5, <1>6, <1>8, <1>9
<1>11. d = 0 \/ d = 1
  BY <1>10, SmallMultiple
<1>12. n * 0 = 0 /\ n * 1 = n
  OBVIOUS
<1>13. n * d = 0
  BY <1>10, <1>11, <1>12
<1>14. a - b = w - r
  BY <1>5, <1>6, <1>8, <1>13
<1> QED
  BY <1>1, <1>2, <1>14

(* Positions less than a turn apart differ.                                *)
LEMMA ApartInRing ==
  ASSUME NEW n \in Nat \ {0}, NEW a \in Nat, NEW s \in 1 .. n - 1
  PROVE  (a + s) % n # a % n
<1> SUFFICES ASSUME (a + s) % n = a % n PROVE FALSE
  OBVIOUS
<1>1. a + s \in Nat /\ a <= a + s /\ (a + s) - a < n
  OBVIOUS
<1>2. PICK r \in Nat : r = a % n
  BY Quotient
<1>3. r <= r
  BY <1>2
<1>4. PICK w \in Nat : w = a + s
  BY <1>1
<1>5. (w % n) - (a % n) = w - a
  BY <1>1, <1>2, <1>3, <1>4, TurnedDistance
<1>6. r - r = w - a
  BY <1>2, <1>4, <1>5
<1> QED
  BY <1>2, <1>4, <1>6

RingTypes ==
  /\ ring \in [w : 0 .. Threshold, r : 0 .. Threshold, array : [0 .. ArrayLen - 1 -> Elements]]
  /\ puts \in Nat /\ held \in Seq(Elements) /\ overtaken \in BOOLEAN /\ agreed \in BOOLEAN

(* The cursors are as far apart as there are elements, and the elements    *)
(* lie from the read cursor on; PutN puts no more than there is room for.  *)
CursorInv ==
  /\ ring.r <= ring.w /\ ring.w - ring.r = Len(held) /\ Len(held) + puts <= ArrayLen
  /\ \A i \in 1 .. Len(held) : ring.array[(ring.r + i - 1) % ArrayLen] = held[i]
  /\ agreed

RingInv == RingTypes /\ (~overtaken => CursorInv)

LEMMA RingFields ==
  ASSUME RingTypes
  PROVE  /\ ring.w \in Nat /\ ring.w <= Threshold /\ ring.r \in Nat /\ ring.r <= Threshold
         /\ ring.array \in [0 .. ArrayLen - 1 -> Elements] /\ Len(held) \in Nat
BY RingParameters DEF RingTypes

LEMMA HeldFits ==
  ASSUME RingTypes, CursorInv
  PROVE  Len(held) <= ArrayLen /\ ring.w - ring.r = Len(held) /\ ring.r <= ring.w
<1>1. puts \in Nat /\ ArrayLen \in Nat
  BY RingParameters DEF RingTypes
<1>2. PICK L \in Nat : L = Len(held)
  BY RingFields
<1>3. L + puts <= ArrayLen
  BY <1>2 DEF CursorInv
<1>4. L <= ArrayLen
  BY <1>1, <1>3
<1> QED
  BY <1>2, <1>4 DEF CursorInv

(* Size and SpaceRemain, computed as unsigned and returned as int.         *)
LEMMA SizesAre ==
  ASSUME RingTypes, CursorInv
  PROVE  Size(ring) = Len(held) /\ SpaceRemain(ring) = ArrayLen - Len(held)
<1>1. PICK s \in Nat : s = Len(held)
  BY RingFields
<1>2. s <= ArrayLen /\ ring.w - ring.r = s
  BY <1>1, HeldFits
<1>3. /\ s \in 0 .. UIntSize - 1 /\ ArrayLen - s \in 0 .. UIntSize - 1
      /\ 2 * s < UIntSize /\ 2 * (ArrayLen - s) < UIntSize
  BY <1>2, RingParameters
<1>4. AsUInt(s) = s /\ AsUInt(ArrayLen - s) = ArrayLen - s
  BY <1>3, RingParameters, SmallRemainder DEF AsUInt
<1>5. AsInt(s) = s /\ AsInt(ArrayLen - s) = ArrayLen - s
  BY <1>3 DEF AsInt
<1> QED
  BY <1>1, <1>2, <1>4, <1>5 DEF Size, SpaceRemain

LEMMA InitRingInv == RingInit => RingInv
<1> SUFFICES ASSUME RingInit PROVE RingInv
  OBVIOUS
<1>1. /\ ring = [w |-> 0, r |-> 0, array |-> [i \in 0 .. ArrayLen - 1 |-> 0]]
      /\ puts = 0 /\ held = <<>> /\ overtaken = FALSE /\ agreed = TRUE
  BY DEF RingInit
<1>2. 0 \in Elements /\ 0 \in 0 .. Threshold
  BY RingParameters DEF Elements
<1>3. RingTypes
  <2>1. ring \in [w : 0 .. Threshold, r : 0 .. Threshold, array : [0 .. ArrayLen - 1 -> Elements]]
    BY <1>1, <1>2
  <2>2. held \in Seq(Elements)
    BY <1>1
  <2>3. puts \in Nat /\ overtaken \in BOOLEAN /\ agreed \in BOOLEAN
    BY <1>1
  <2> QED
    BY <2>1, <2>2, <2>3 DEF RingTypes
<1>4. CursorInv
  <2>1. ring.r = 0 /\ ring.w = 0 /\ Len(held) = 0
    BY <1>1
  <2> QED
    BY <1>1, <2>1, RingParameters DEF CursorInv
<1> QED
  BY <1>3, <1>4 DEF RingInv

LEMMA PutNStep ==
  ASSUME RingInv, NEW n \in 1 .. ArrayLen, PutN(n)
  PROVE  RingInv'
<1>1. /\ ~overtaken /\ puts' = Lower(n, SpaceRemain(ring))
      /\ agreed' = (puts' = Lower(n, ArrayLen - Len(held)))
      /\ UNCHANGED <<ring, held, overtaken>>
  BY DEF PutN
<1>2. RingTypes /\ CursorInv
  BY <1>1 DEF RingInv
<1>3. SpaceRemain(ring) = ArrayLen - Len(held)
  BY <1>2, SizesAre
<1>4. puts' = Lower(n, ArrayLen - Len(held)) /\ agreed' = TRUE
  BY <1>1, <1>3
<1>5. Len(held) \in Nat /\ Len(held) <= ArrayLen
  BY <1>2, RingFields, HeldFits
<1>6. puts' \in Nat /\ Len(held) + puts' <= ArrayLen
  BY <1>4, <1>5, RingParameters DEF Lower
<1>7. RingTypes'
  BY <1>1, <1>2, <1>4, <1>6 DEF RingTypes
<1>8. CursorInv'
  BY <1>1, <1>2, <1>4, <1>6 DEF CursorInv
<1> QED
  BY <1>7, <1>8 DEF RingInv

LEMMA GetStep ==
  ASSUME RingInv, NEW n \in 1 .. ArrayLen, GetValues(n)
  PROVE  RingInv'
<1> DEFINE m == Lower(n, Size(ring))
<1>1. /\ puts = 0 /\ ~overtaken /\ m > 0
      /\ ring' = [ring EXCEPT !.r = AsUInt(@ + m)]
      /\ held' = SubSeq(held, m + 1, Len(held))
      /\ agreed' = (m = Lower(n, Len(held)))
      /\ UNCHANGED <<puts, overtaken>>
  BY DEF GetValues
<1>2. RingTypes /\ CursorInv
  BY <1>1 DEF RingInv
<1>3. PICK L \in Nat : L = Len(held)
  BY <1>2, RingFields
<1>4. m = Lower(n, L) /\ m \in Nat /\ m <= L /\ m > 0 /\ agreed' = TRUE
  <2>1. Size(ring) = L
    BY <1>2, <1>3, SizesAre
  <2>2. m = Lower(n, L)
    BY <2>1
  <2>3. n \in Nat
    BY RingParameters
  <2>4. agreed' = TRUE
    BY <1>1, <1>3, <2>2
  <2>5. m > 0
    BY <1>1
  <2> HIDE DEF m
  <2> QED
    BY <2>2, <2>3, <2>4, <2>5 DEF Lower
<1>5. PICK k \in Nat : k = m
  BY <1>4
<1> HIDE DEF m
<1>6. /\ ring.w \in Nat /\ ring.r \in Nat /\ ring.w <= Threshold /\ ring.w - ring.r = L
      /\ ring.array \in [0 .. ArrayLen - 1 -> Elements] /\ L <= ArrayLen
  BY <1>2, <1>3, RingFields, HeldFits
<1>7. AsUInt(ring.r + m) = ring.r + k
  <2>1. ring.r + k \in 0 .. UIntSize - 1
    BY <1>4, <1>5, <1>6, RingParameters
  <2> QED
    BY <1>5, <2>1, RingParameters, SmallRemainder DEF AsUInt
<1>8. ring'.w = ring.w /\ ring'.array = ring.array /\ ring'.r = ring.r + k
  BY <1>1, <1>2, <1>7 DEF RingTypes
<1>9. /\ held' \in Seq(Elements) /\ Len(held') = L - k
      /\ \A i \in 1 .. L - k : held'[i] = held[k + i]
  <2>1. held \in Seq(Elements) /\ k + 1 \in Int /\ L \in Int
    BY <1>2, <1>5 DEF RingTypes
  <2>2. \A i \in k + 1 .. L : held[i] \in Elements
    BY <1>3, <2>1
  <2>3. /\ SubSeq(held, k + 1, L) \in Seq(Elements)
        /\ Len(SubSeq(held, k + 1, L)) = IF k + 1 <= L THEN L - (k + 1) + 1 ELSE 0
        /\ \A i \in 1 .. L - (k + 1) + 1 : SubSeq(held, k + 1, L)[i] = held[(k + 1) + i - 1]
    BY <2>1, <2>2, SubSeqProperties
  <2>4. PICK h : h = SubSeq(held, k + 1, L)
    OBVIOUS
  <2>5. L - (k + 1) + 1 = L - k /\ (k + 1 <= L <=> k # L)
    BY <1>4, <1>5
  <2>6. h \in Seq(Elements) /\ Len(h) = L - k
    BY <1>4, <1>5, <2>3, <2>4, <2>5
  <2>7. ASSUME NEW i \in 1 .. L - k PROVE h[i] = held[k + i]
    <3>1. (k + 1) + i - 1 = k + i
      BY <1>4, <1>5
    <3> QED
      BY <2>3, <2>4, <2>5, <3>1
  <2> QED
    BY <1>1, <1>3, <1>5, <2>4, <2>6, <2>7
<1>10. RingTypes'
  <2>1. ring.r + k \in 0 .. Threshold
    BY <1>4, <1>5, <1>6, RingParameters
  <2>2. ring' = [ring EXCEPT !.r = ring.r + k]
    BY <1>1, <1>7
  <2>3. ring' \in [w : 0 .. Threshold, r : 0 .. Threshold, array : [0 .. ArrayLen - 1 -> Elements]]
    BY <1>2, <2>1, <2>2 DEF RingTypes
  <2> QED
    BY <1>1, <1>2, <1>4, <1>9, <2>3 DEF RingTypes
<1>11. CursorInv'
  <2>1. ring'.r <= ring'.w /\ ring'.w - ring'.r = Len(held')
    BY <1>4, <1>5, <1>6, <1>8, <1>9
  <2>2. Len(held') + puts' <= ArrayLen
    BY <1>1, <1>4, <1>5, <1>6, <1>9, RingParameters
  <2>3. ASSUME NEW i \in 1 .. Len(held')
        PROVE  ring'.array[(ring'.r + i - 1) % ArrayLen] = held'[i]
    <3>1. i \in 1 .. L - k
      BY <1>9, <2>3
    <3>2. (ring.r + k) + i - 1 = ring.r + (k + i) - 1 /\ k + i \in 1 .. L
      BY <1>4, <1>5, <1>6, <3>1
    <3>3. ring.array[(ring.r + (k + i) - 1) % ArrayLen] = held[k + i]
      BY <1>2, <1>3, <3>2 DEF CursorInv
    <3> QED
      BY <1>8, <1>9, <3>1, <3>2, <3>3
  <2> QED
    BY <1>4, <2>1, <2>2, <2>3 DEF CursorInv
<1> QED
  BY <1>10, <1>11 DEF RingInv

(* Check leaves positions alone, and unless it puts the write cursor left  *)
(* of the read cursor, their distance.                                     *)
LEMMA CheckIs ==
  ASSUME RingTypes
  PROVE  \E w, r \in Nat :
           /\ Check(ring) = [w |-> w, r |-> r, array |-> ring.array]
           /\ w < Threshold /\ r <= Threshold
           /\ \A k \in Nat : (r + k) % ArrayLen = (ring.r + k) % ArrayLen
           /\ ~Overtakes(ring) /\ ring.r <= ring.w /\ ring.w - ring.r < ArrayLen =>
                r <= w /\ w - r = ring.w - ring.r
<1>1. /\ ring.w \in Nat /\ ring.w <= Threshold /\ ring.r \in Nat /\ ring.r <= Threshold
      /\ ring = [w |-> ring.w, r |-> ring.r, array |-> ring.array]
  BY RingFields DEF RingTypes
<1>2. CASE ring.w < Threshold
  <2>1. Check(ring) = ring
    BY <1>1, <1>2, RingParameters DEF Check
  <2>2. PICK w \in Nat, r \in Nat : w = ring.w /\ r = ring.r
    BY <1>1
  <2>3. ring = [w |-> w, r |-> r, array |-> ring.array]
    BY <1>1, <2>2
  <2> QED
    BY <1>1, <1>2, <2>1, <2>2, <2>3
<1>3. CASE ring.w >= Threshold
  <2>1. PICK w : w = ring.w % ArrayLen
    OBVIOUS
  <2>2. PICK r : r = ring.r % ArrayLen
    OBVIOUS
  <2>3. w \in 0 .. ArrayLen - 1 /\ r \in 0 .. ArrayLen - 1
    BY <1>1, <2>1, <2>2, Quotient, RingParameters
  <2>4. Check(ring) = [w |-> w, r |-> r, array |-> ring.array]
    <3>1. Check(ring) = [ring EXCEPT !.w = w, !.r = r]
      BY <1>1, <1>3, <2>1, <2>2 DEF Check
    <3> QED
      BY <1>1, <3>1
  <2>5. \A k \in Nat : (r + k) % ArrayLen = (ring.r + k) % ArrayLen
    BY <1>1, <2>2, TurnedPosition, RingParameters
  <2>6. ASSUME ~Overtakes(ring), ring.r <= ring.w, ring.w - ring.r < ArrayLen
        PROVE  r <= w /\ w - r = ring.w - ring.r
    <3>1. ~(w < r)
      BY <1>3, <2>1, <2>2, <2>6 DEF Overtakes
    <3>2. r <= w
      BY <2>3, <3>1, RingParameters
    <3>3. w - r = ring.w - ring.r
      BY <1>1, <2>1, <2>2, <2>6, <3>2, TurnedDistance, RingParameters
    <3> QED
      BY <3>2, <3>3
  <2>7. w \in Nat /\ r \in Nat /\ w < Threshold /\ r <= Threshold
    BY <2>3, RingParameters
  <2> QED
    BY <2>4, <2>5, <2>6, <2>7
<1> QED
  BY <1>1, <1>2, <1>3, RingParameters

LEMMA NextIsElement == RingTypes => NextElement \in Elements
<1> SUFFICES ASSUME RingTypes PROVE NextElement \in Elements
  OBVIOUS
<1>1. CASE held = <<>>
  BY <1>1, RingParameters DEF NextElement, Elements
<1>2. CASE held # <<>>
  <2>1. Last(held) \in Elements
    <3>1. Len(held) \in 1 .. Len(held)
      BY <1>2 DEF RingTypes
    <3> QED
      BY <3>1 DEF Last, RingTypes
  <2>2. PICK x \in Nat : x = Last(held) + 1
    BY <2>1, RingParameters DEF Elements
  <2>3. PICK y \in Nat \ {0} : y = 2 * ArrayLen + 1
    BY RingParameters
  <2>4. x % y \in 0 .. y - 1
    BY Quotient
  <2> QED
    BY <1>2, <2>2, <2>3, <2>4, RingParameters DEF NextElement, Elements
<1> QED
  BY <1>1, <1>2

LEMMA PutStep ==
  ASSUME RingInv, PutValue
  PROVE  RingInv'
<1>0. RingTypes
  BY DEF RingInv
<1>1. PICK v \in Elements : v = NextElement
  BY <1>0, NextIsElement
<1>2. /\ puts > 0 /\ ring' = Put(ring, v) /\ held' = Append(held, v)
      /\ puts' = puts - 1 /\ overtaken' = (overtaken \/ Overtakes(ring)) /\ UNCHANGED agreed
  BY <1>1 DEF PutValue
<1>3. PICK w \in Nat, r \in Nat :
        /\ Check(ring) = [w |-> w, r |-> r, array |-> ring.array]
        /\ w < Threshold /\ r <= Threshold
        /\ \A k \in Nat : (r + k) % ArrayLen = (ring.r + k) % ArrayLen
        /\ ~Overtakes(ring) /\ ring.r <= ring.w /\ ring.w - ring.r < ArrayLen =>
             r <= w /\ w - r = ring.w - ring.r
  BY <1>0, CheckIs
<1>4. AsUInt(w + 1) = w + 1
  <2>1. w + 1 \in 0 .. UIntSize - 1
    BY <1>3, RingParameters
  <2> QED
    BY <2>1, SmallRemainder, RingParameters DEF AsUInt
<1>5. PICK x : x = w % ArrayLen
  OBVIOUS
<1>6. x \in 0 .. ArrayLen - 1
  BY <1>5, Quotient, RingParameters
<1>7. PICK a : a = [ring.array EXCEPT ![x] = v]
  OBVIOUS
<1>8. /\ a \in [0 .. ArrayLen - 1 -> Elements] /\ a[x] = v
      /\ \A y \in 0 .. ArrayLen - 1 : y # x => a[y] = ring.array[y]
  BY <1>0, <1>6, <1>7, RingFields
<1>9. SpaceRemain(ring) > 0 => ring' = [w |-> w + 1, r |-> r, array |-> a]
  <2>1. PICK c : c = [w |-> w, r |-> r, array |-> ring.array]
    OBVIOUS
  <2>2. c.w = w /\ c.array = ring.array /\ c.r = r
    BY <2>1
  <2>3. SpaceRemain(ring) > 0 => ring' = [c EXCEPT !.array[x] = v, !.w = w + 1]
    BY <1>2, <1>3, <1>4, <1>5, <2>1, <2>2 DEF Put
  <2>4. [c EXCEPT !.array[x] = v, !.w = w + 1] = [w |-> w + 1, r |-> r, array |-> a]
    <3>1. c \in [w : Nat, r : Nat, array : [0 .. ArrayLen - 1 -> Elements]]
      BY <1>0, <2>1, RingFields
    <3>2. w + 1 \in Nat
      OBVIOUS
    <3> DEFINE t == [c EXCEPT !.array[x] = v, !.w = w + 1]
    <3>3. t \in [w : Nat, r : Nat, array : [0 .. ArrayLen - 1 -> Elements]]
      BY <1>6, <3>1, <3>2
    <3>4. t.w = w + 1 /\ t.r = c.r /\ t.array = [c.array EXCEPT ![x] = v]
      BY <1>6, <3>1
    <3> HIDE DEF t
    <3>5. t = [w |-> w + 1, r |-> r, array |-> a]
      BY <1>7, <2>2, <3>3, <3>4
    <3> QED
      BY <3>5 DEF t
  <2> QED
    BY <2>3, <2>4
<1>10. SpaceRemain(ring) > 0 \/ ring' = ring
  BY <1>2 DEF Put
<1>11. RingTypes'
  <2>1. w + 1 \in 0 .. Threshold /\ r \in 0 .. Threshold
    BY <1>3, RingParameters
  <2>2. ring' \in [w : 0 .. Threshold, r : 0 .. Threshold, array : [0 .. ArrayLen - 1 -> Elements]]
    BY <1>0, <1>8, <1>9, <1>10, <2>1 DEF RingTypes
  <2>3. held' \in Seq(Elements)
    BY <1>0, <1>2 DEF RingTypes
  <2>4. puts' \in Nat
    BY <1>0, <1>2 DEF RingTypes
  <2>5. overtaken' \in BOOLEAN /\ agreed' \in BOOLEAN
    BY <1>0, <1>2 DEF RingTypes
  <2> QED
    BY <2>2, <2>3, <2>4, <2>5 DEF RingTypes
<1>12. ASSUME ~overtaken' PROVE CursorInv'
  <2>1. ~overtaken /\ ~Overtakes(ring)
    BY <1>2, <1>12
  <2>2. CursorInv
    BY <2>1 DEF RingInv
  <2>3. PICK L \in Nat : L = Len(held)
    BY <1>0, RingFields
  <2>4. ring.r <= ring.w /\ ring.w - ring.r = L /\ L + puts <= ArrayLen /\ puts \in Nat /\ puts > 0
    BY <1>0, <1>2, <2>2, <2>3 DEF CursorInv, RingTypes
  <2>5. L < ArrayLen /\ ArrayLen \in Nat
    BY <2>4, RingParameters
  <2>6. SpaceRemain(ring) > 0
    <3>1. SpaceRemain(ring) = ArrayLen - L
      BY <1>0, <2>2, <2>3, SizesAre
    <3> QED
      BY <2>5, <3>1
  <2>7. ring'.w = w + 1 /\ ring'.r = r /\ ring'.array = a
    BY <1>9, <2>6
  <2>8. r <= w /\ w - r = L
    BY <1>3, <2>1, <2>4, <2>5
  <2>9. /\ Len(held') = L + 1 /\ held'[L + 1] = v
        /\ \A i \in 1 .. L : held'[i] = held[i]
    <3>1. held \in Seq(Elements)
      BY <1>0 DEF RingTypes
    <3> QED
      BY <1>2, <2>3, <3>1
  <2>10. ASSUME NEW i \in 1 .. L + 1
         PROVE  a[(r + i - 1) % ArrayLen] = held'[i]
    <3>1. PICK y \in Nat : y = i - 1
      OBVIOUS
    <3>2. r + i - 1 = r + y /\ ring.r + i - 1 = ring.r + y /\ r + y \in Nat
      BY <1>0, <3>1, RingFields
    <3>3. CASE i = L + 1
      <4>1. r + y = w
        BY <2>8, <3>1, <3>3
      <4> QED
        BY <1>5, <1>8, <2>9, <3>2, <3>3, <4>1
    <3>4. CASE i # L + 1
      <4>1. i \in 1 .. L
        BY <3>4
      <4>2. ring.array[(ring.r + y) % ArrayLen] = held[i]
        BY <2>2, <2>3, <3>2, <4>1 DEF CursorInv
      <4>3. (r + y) % ArrayLen = (ring.r + y) % ArrayLen
        BY <1>3
      <4>4. PICK b \in Nat : b = r + y
        BY <3>2
      <4>5. PICK s \in 1 .. ArrayLen - 1 : w = b + s
        <5>1. w - (r + y) \in 1 .. ArrayLen - 1 /\ w = (r + y) + (w - (r + y))
          BY <2>5, <2>8, <3>1, <4>1
        <5> QED
          BY <4>4, <5>1
      <4>6. b % ArrayLen # x
        BY <1>5, <4>5, ApartInRing, RingParameters
      <4>7. b % ArrayLen \in 0 .. ArrayLen - 1
        BY Quotient, RingParameters
      <4> QED
        BY <1>8, <2>9, <3>2, <4>1, <4>2, <4>3, <4>4, <4>6, <4>7
    <3> QED
      BY <3>3, <3>4
  <2>11. ring'.r <= ring'.w /\ ring'.w - ring'.r = Len(held') /\ Len(held') + puts' <= ArrayLen
    <3>1. puts' = puts - 1
      BY <1>2
    <3> QED
      BY <2>4, <2>5, <2>7, <2>8, <2>9, <3>1
  <2>12. agreed'
    BY <1>2, <2>2 DEF CursorInv
  <2>13. \A i \in 1 .. Len(held') : ring'.array[(ring'.r + i - 1) % ArrayLen] = held'[i]
    BY <2>7, <2>9, <2>10
  <2> QED
    BY <2>11, <2>12, <2>13 DEF CursorInv
<1> QED
  BY <1>11, <1>12 DEF RingInv

(* The ring is a FIFO and counts right, for arrays and integers of any     *)
(* size, over any number of turn-downs, up to one that puts the write      *)
(* cursor left of the read cursor; and no cursor comes to the end of its   *)
(* type.                                                                   *)
THEOREM RingStaysFifo == RingSpec => []RingIsFifo
<1>1. RingInit => RingInv
  BY InitRingInv
<1>2. RingInv /\ [RingNext]_ringVars => RingInv'
  <2> SUFFICES ASSUME RingInv, [RingNext]_ringVars PROVE RingInv'
    OBVIOUS
  <2>1. CASE PutValue
    BY <2>1, PutStep
  <2>2. ASSUME NEW n \in 1 .. ArrayLen, PutN(n) PROVE RingInv'
    BY <2>2, PutNStep
  <2>3. ASSUME NEW n \in 1 .. ArrayLen, GetValues(n) PROVE RingInv'
    BY <2>3, GetStep
  <2>4. CASE UNCHANGED ringVars
    BY <2>4 DEF ringVars, RingInv, RingTypes, CursorInv
  <2> QED
    BY <2>1, <2>2, <2>3, <2>4 DEF RingNext
<1>3. RingInv => RingIsFifo
  BY SizesAre, RingFields DEF RingInv, RingIsFifo, CursorInv
<1> QED
  BY <1>1, <1>2, <1>3, PTL DEF RingSpec
=============================================================================
