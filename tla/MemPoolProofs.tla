---------------------------- MODULE MemPoolProofs ----------------------------
(***************************************************************************)
(* What holds of the object pools for every number and size of them: the   *)
(* lists threaded through a pool's elements stay intact however they are   *)
(* taken and given back, Release finds every object that is in use, and    *)
(* the pools are an object store.                                          *)
(*                                                                         *)
(* The argument about the lists names the elements of a list by their      *)
(* order w: what an operation does to a list is a change of w, and what it *)
(* does to the links of the elements is computed from w.                   *)
(***************************************************************************)
EXTENDS MemPool, FiniteSetTheorems, TLAPS

(* A pool within an operation: an element may be on no list.               *)
LoosePool ==
  [exists : {TRUE},
   next : [PoolElements -> PoolElements \cup {Null}], prev : [PoolElements -> PoolElements \cup {Null}],
   boss : [PoolElements -> Lists \cup {Null}],
   first : [Lists -> PoolElements \cup {Null}], last : [Lists -> PoolElements \cup {Null}],
   count : [Lists -> Nat]]

(* Pools exist from the first to m_LastUsed, with none missing.            *)
NoHoles == \A i \in Chunks : Exists(i) => Searched(i)

------------------------------------------------------------------------------
(* The order of a list that has lost its m-th element, or gained one.      *)
Without(w, n, m) == [k \in 1..(n - 1) |-> IF k < m THEN w[k] ELSE w[k + 1]]
With(w, n, e) == [k \in 1..(n + 1) |-> IF k = n + 1 THEN e ELSE w[k]]

(* What QuickRemove does to the fields of a pool, whichever of its cases   *)
(* it takes: the neighbours of the element are linked to each other.       *)
Removed(s, l, w, m, t) ==
  LET n == s.count[l]
      e == w[m]
  IN  /\ t.boss = [s.boss EXCEPT ![e] = Null]
      /\ t.count = [s.count EXCEPT ![l] = n - 1]
      /\ t.first = [s.first EXCEPT ![l] = IF m # 1 THEN @ ELSE IF n = 1 THEN Null ELSE w[2]]
      /\ t.last = [s.last EXCEPT ![l] = IF m # n THEN @ ELSE IF n = 1 THEN Null ELSE w[n - 1]]
      /\ t.next = [x \in PoolElements |-> IF x = e THEN Null
                                      ELSE IF m > 1 /\ x = w[m - 1]
                                           THEN (IF m = n THEN Null ELSE w[m + 1])
                                      ELSE s.next[x]]
      /\ t.prev = [x \in PoolElements |-> IF x = e THEN Null
                                      ELSE IF m < n /\ x = w[m + 1]
                                           THEN (IF m = 1 THEN Null ELSE w[m - 1])
                                      ELSE s.prev[x]]

(* The fields of a pool.                                                   *)
LEMMA PoolFields ==
  ASSUME NEW s \in LoosePool
  PROVE  /\ s.next \in [PoolElements -> PoolElements \cup {Null}] /\ s.prev \in [PoolElements -> PoolElements \cup {Null}]
         /\ s.boss \in [PoolElements -> Lists \cup {Null}]
         /\ s.first \in [Lists -> PoolElements \cup {Null}] /\ s.last \in [Lists -> PoolElements \cup {Null}]
         /\ s.count \in [Lists -> Nat]
BY DEF LoosePool

(* A list whose only element has gone is empty.                            *)
LEMMA EmptiedIs ==
  ASSUME NEW s \in LoosePool, NEW l \in Lists
  PROVE  LET t == [s EXCEPT !.first[l] = Null, !.last[l] = Null, !.count[l] = 0]
         IN  /\ t \in LoosePool
             /\ t.next = s.next /\ t.prev = s.prev
             /\ t.boss = s.boss
             /\ t.first = [s.first EXCEPT ![l] = Null] /\ t.last = [s.last EXCEPT ![l] = Null]
             /\ t.count = [s.count EXCEPT ![l] = 0]
BY DEF LoosePool, Unlinked

(* What there is to know of a list that is not empty.                      *)
LEMMA ListFacts ==
  ASSUME NEW s \in LoosePool, NEW l \in Lists, NEW w, IsList(s, l, w)
  PROVE  LET n == s.count[l]
         IN  /\ n \in Nat /\ w \in [1..n -> PoolElements]
             /\ \A j, k \in 1..n : w[j] = w[k] => j = k
             /\ \A e \in PoolElements : s.boss[e] = l <=> \E k \in 1..n : w[k] = e
             /\ n > 0 => /\ s.first[l] = w[1] /\ s.prev[w[1]] = Null
                         /\ s.last[l] = w[n] /\ s.next[w[n]] = Null
             /\ \A k \in 1..(n - 1) : s.next[w[k]] = w[k + 1] /\ s.prev[w[k + 1]] = w[k]
<1>1. s.count[l] \in Nat
  BY PoolFields
<1> QED
  BY <1>1 DEF IsList

(* QuickRemove of the m-th element of a list: the four cases of the code,  *)
(* the only element, the first, the last, one in between.                  *)
LEMMA QuickRemoveIs ==
  ASSUME NEW s \in LoosePool, NEW l \in Lists, NEW w, IsList(s, l, w), NEW m \in 1..s.count[l]
  PROVE  QuickRemove(s, l, w[m]) \in LoosePool /\ Removed(s, l, w, m, QuickRemove(s, l, w[m]))
<1> DEFINE n == s.count[l]
           e == w[m]
           t == QuickRemove(s, l, e)
<1> SUFFICES t \in LoosePool /\ Removed(s, l, w, m, t)
  OBVIOUS
<1>1. /\ n \in Nat /\ m \in 1..n /\ w \in [1..n -> PoolElements] /\ e \in PoolElements
      /\ \A j, k \in 1..n : w[j] = w[k] => j = k
      /\ s.first[l] = w[1] /\ s.prev[w[1]] = Null
      /\ s.last[l] = w[n] /\ s.next[w[n]] = Null
      /\ \A k \in 1..(n - 1) : s.next[w[k]] = w[k + 1] /\ s.prev[w[k + 1]] = w[k]
  BY ListFacts
<1>e. e \in PoolElements
  BY <1>1
<1>2. /\ s.next \in [PoolElements -> PoolElements \cup {Null}] /\ s.prev \in [PoolElements -> PoolElements \cup {Null}]
      /\ s.first \in [Lists -> PoolElements \cup {Null}] /\ s.last \in [Lists -> PoolElements \cup {Null}]
      /\ s.count \in [Lists -> Nat]
  BY PoolFields
<1>fields. ASSUME t \in LoosePool, t.boss = [s.boss EXCEPT ![e] = Null],
                  t.count = [s.count EXCEPT ![l] = n - 1],
                  t.first = [s.first EXCEPT ![l] = IF m # 1 THEN @ ELSE IF n = 1 THEN Null ELSE w[2]],
                  t.last = [s.last EXCEPT ![l] = IF m # n THEN @ ELSE IF n = 1 THEN Null ELSE w[n - 1]],
                  \A x \in PoolElements : t.next[x] = IF x = e THEN Null
                                                  ELSE IF m > 1 /\ x = w[m - 1]
                                                       THEN (IF m = n THEN Null ELSE w[m + 1])
                                                  ELSE s.next[x],
                  \A x \in PoolElements : t.prev[x] = IF x = e THEN Null
                                                  ELSE IF m < n /\ x = w[m + 1]
                                                       THEN (IF m = 1 THEN Null ELSE w[m - 1])
                                                  ELSE s.prev[x]
           PROVE  t \in LoosePool /\ Removed(s, l, w, m, t)
  <2> HIDE DEF t
  <2>1. t.next \in [PoolElements -> PoolElements \cup {Null}] /\ t.prev \in [PoolElements -> PoolElements \cup {Null}]
    BY <1>fields, PoolFields
  <2> QED
    BY <2>1, <1>fields DEF Removed
<1>3. CASE n = 1
  <2> DEFINE u == [s EXCEPT !.first[l] = Null, !.last[l] = Null, !.count[l] = 0]
  <2>1. m = 1 /\ s.first[l] = e /\ s.last[l] = e
    BY <1>1, <1>3
  <2>2. t = Unlinked(u, e)
    BY <2>1, <1>1, <1>3 DEF QuickRemove, Popfront, PopOnly
  <2>3. n - 1 \in Nat /\ (n = 1 => n - 1 = 0)
    BY <1>1
  <2>4. u \in LoosePool /\ u.next = s.next /\ u.prev = s.prev /\ u.boss = s.boss
        /\ u.first = [s.first EXCEPT ![l] = Null] /\ u.last = [s.last EXCEPT ![l] = Null] /\ u.count = [s.count EXCEPT ![l] = 0]
    BY <2>1, <2>3, <1>1, EmptiedIs
  <2> HIDE DEF t, u
  <2>5. /\ t \in LoosePool
        /\ t.next = [u.next EXCEPT ![e] = Null] /\ t.prev = [u.prev EXCEPT ![e] = Null]
        /\ t.boss = [u.boss EXCEPT ![e] = Null]
        /\ t.first = u.first /\ t.last = u.last /\ t.count = u.count
    <3>1. u \in LoosePool /\ e \in PoolElements
      BY <2>4, <1>e
    <3> HIDE DEF e
    <3> QED
      BY <2>2, <3>1 DEF Unlinked, LoosePool
  <2>6. /\ t.boss = [s.boss EXCEPT ![e] = Null] /\ t.count = [s.count EXCEPT ![l] = n - 1]
        /\ t.first = [s.first EXCEPT ![l] = IF m # 1 THEN @ ELSE IF n = 1 THEN Null ELSE w[2]]
        /\ t.last = [s.last EXCEPT ![l] = IF m # n THEN @ ELSE IF n = 1 THEN Null ELSE w[n - 1]]
    <3>1. t.boss = [s.boss EXCEPT ![e] = Null] /\ t.count = [s.count EXCEPT ![l] = n - 1]
      BY <2>3, <2>4, <2>5, <1>1, <1>2, <1>3
    <3>2. t.first = [s.first EXCEPT ![l] = IF m # 1 THEN @ ELSE IF n = 1 THEN Null ELSE w[2]]
      BY <2>4, <2>5, <1>1, <1>2, <1>3
    <3>3. t.last = [s.last EXCEPT ![l] = IF m # n THEN @ ELSE IF n = 1 THEN Null ELSE w[n - 1]]
      BY <2>4, <2>5, <1>1, <1>2, <1>3
    <3> QED
      BY <3>1, <3>2, <3>3
  <2>7. \A x \in PoolElements : t.next[x] = IF x = e THEN Null
                                        ELSE IF m > 1 /\ x = w[m - 1]
                                             THEN (IF m = n THEN Null ELSE w[m + 1])
                                        ELSE s.next[x]
    BY <2>1, <2>4, <2>5, <1>1, <1>2, <1>3
  <2>8. \A x \in PoolElements : t.prev[x] = IF x = e THEN Null
                                        ELSE IF m < n /\ x = w[m + 1]
                                             THEN (IF m = 1 THEN Null ELSE w[m - 1])
                                        ELSE s.prev[x]
    BY <2>1, <2>4, <2>5, <1>1, <1>2, <1>3
  <2> QED
    BY <2>5, <2>6, <2>7, <2>8, <1>fields
<1>4. CASE n > 1 /\ m = 1
  <2> DEFINE u == [s EXCEPT !.first[l] = w[2], !.prev[w[2]] = Null, !.count[l] = @ - 1]
  <2>1. s.first[l] = e /\ s.last[l] # e /\ s.next[e] = w[2] /\ w[2] \in PoolElements /\ w[2] # e
    BY <1>1, <1>4
  <2>2. t = Unlinked(u, e)
    BY <2>1, <1>1, <1>4 DEF QuickRemove, Popfront
  <2>3. n - 1 \in Nat /\ (n = 1 => n - 1 = 0)
    BY <1>1
  <2>4. u \in LoosePool /\ u.next = s.next /\ u.prev = [s.prev EXCEPT ![w[2]] = Null] /\ u.boss = s.boss
        /\ u.first = [s.first EXCEPT ![l] = w[2]] /\ u.last = s.last /\ u.count = [s.count EXCEPT ![l] = n - 1]
    <3>1. ASSUME NEW x \in PoolElements, NEW c \in Nat, x = w[2], c = n - 1
          PROVE  u \in LoosePool /\ u.next = s.next /\ u.prev = [s.prev EXCEPT ![w[2]] = Null] /\ u.boss = s.boss
        /\ u.first = [s.first EXCEPT ![l] = w[2]] /\ u.last = s.last /\ u.count = [s.count EXCEPT ![l] = n - 1]
      <4>1. u = [s EXCEPT !.first[l] = x, !.prev[x] = Null, !.count[l] = c]
        BY <3>1
      <4> HIDE DEF u
      <4>2. u \in LoosePool /\ u.next = s.next /\ u.prev = [s.prev EXCEPT ![x] = Null] /\ u.boss = s.boss
        /\ u.first = [s.first EXCEPT ![l] = x] /\ u.last = s.last /\ u.count = [s.count EXCEPT ![l] = c]
        BY <4>1 DEF LoosePool
      <4> QED
        BY <4>2, <3>1
    <3> QED
      BY <3>1, <2>1, <2>3
  <2> HIDE DEF t, u
  <2>5. /\ t \in LoosePool
        /\ t.next = [u.next EXCEPT ![e] = Null] /\ t.prev = [u.prev EXCEPT ![e] = Null]
        /\ t.boss = [u.boss EXCEPT ![e] = Null]
        /\ t.first = u.first /\ t.last = u.last /\ t.count = u.count
    <3>1. u \in LoosePool /\ e \in PoolElements
      BY <2>4, <1>e
    <3> HIDE DEF e
    <3> QED
      BY <2>2, <3>1 DEF Unlinked, LoosePool
  <2>6. /\ t.boss = [s.boss EXCEPT ![e] = Null] /\ t.count = [s.count EXCEPT ![l] = n - 1]
        /\ t.first = [s.first EXCEPT ![l] = IF m # 1 THEN @ ELSE IF n = 1 THEN Null ELSE w[2]]
        /\ t.last = [s.last EXCEPT ![l] = IF m # n THEN @ ELSE IF n = 1 THEN Null ELSE w[n - 1]]
    <3>1. t.boss = [s.boss EXCEPT ![e] = Null] /\ t.count = [s.count EXCEPT ![l] = n - 1]
      BY <2>3, <2>4, <2>5, <1>1, <1>2, <1>4
    <3>2. t.first = [s.first EXCEPT ![l] = IF m # 1 THEN @ ELSE IF n = 1 THEN Null ELSE w[2]]
      <4>1. m = 1 /\ n # 1
        BY <1>1, <1>4
      <4> QED
        BY <2>4, <2>5, <4>1
    <3>3. t.last = [s.last EXCEPT ![l] = IF m # n THEN @ ELSE IF n = 1 THEN Null ELSE w[n - 1]]
      BY <2>4, <2>5, <1>1, <1>2, <1>4
    <3> QED
      BY <3>1, <3>2, <3>3
  <2>7. \A x \in PoolElements : t.next[x] = IF x = e THEN Null
                                        ELSE IF m > 1 /\ x = w[m - 1]
                                             THEN (IF m = n THEN Null ELSE w[m + 1])
                                        ELSE s.next[x]
    BY <2>1, <2>4, <2>5, <1>1, <1>2, <1>4
  <2>8. \A x \in PoolElements : t.prev[x] = IF x = e THEN Null
                                        ELSE IF m < n /\ x = w[m + 1]
                                             THEN (IF m = 1 THEN Null ELSE w[m - 1])
                                        ELSE s.prev[x]
    BY <2>1, <2>4, <2>5, <1>1, <1>2, <1>4
  <2> QED
    BY <2>5, <2>6, <2>7, <2>8, <1>fields
<1>5. CASE n > 1 /\ m = n
  <2> DEFINE u == [s EXCEPT !.last[l] = w[n - 1], !.next[w[n - 1]] = Null, !.count[l] = @ - 1]
  <2>1. /\ s.first[l] # e /\ s.last[l] = e
        /\ s.prev[e] = w[n - 1] /\ w[n - 1] \in PoolElements /\ w[n - 1] # e
    BY <1>1, <1>5
  <2>2. t = Unlinked(u, e)
    BY <2>1, <1>1, <1>5 DEF QuickRemove, Popback
  <2>3. n - 1 \in Nat /\ (n = 1 => n - 1 = 0)
    BY <1>1
  <2>4. u \in LoosePool /\ u.next = [s.next EXCEPT ![w[n - 1]] = Null] /\ u.prev = s.prev /\ u.boss = s.boss
        /\ u.first = s.first /\ u.last = [s.last EXCEPT ![l] = w[n - 1]] /\ u.count = [s.count EXCEPT ![l] = n - 1]
    <3>1. ASSUME NEW x \in PoolElements, NEW c \in Nat, x = w[n - 1], c = n - 1
          PROVE  u \in LoosePool /\ u.next = [s.next EXCEPT ![w[n - 1]] = Null] /\ u.prev = s.prev /\ u.boss = s.boss
        /\ u.first = s.first /\ u.last = [s.last EXCEPT ![l] = w[n - 1]] /\ u.count = [s.count EXCEPT ![l] = n - 1]
      <4>1. u = [s EXCEPT !.last[l] = x, !.next[x] = Null, !.count[l] = c]
        BY <3>1
      <4> HIDE DEF u
      <4>2. u \in LoosePool /\ u.next = [s.next EXCEPT ![x] = Null] /\ u.prev = s.prev /\ u.boss = s.boss
        /\ u.first = s.first /\ u.last = [s.last EXCEPT ![l] = x] /\ u.count = [s.count EXCEPT ![l] = c]
        BY <4>1 DEF LoosePool
      <4> QED
        BY <4>2, <3>1
    <3> QED
      BY <3>1, <2>1, <2>3
  <2> HIDE DEF t, u
  <2>5. /\ t \in LoosePool
        /\ t.next = [u.next EXCEPT ![e] = Null] /\ t.prev = [u.prev EXCEPT ![e] = Null]
        /\ t.boss = [u.boss EXCEPT ![e] = Null]
        /\ t.first = u.first /\ t.last = u.last /\ t.count = u.count
    <3>1. u \in LoosePool /\ e \in PoolElements
      BY <2>4, <1>e
    <3> HIDE DEF e
    <3> QED
      BY <2>2, <3>1 DEF Unlinked, LoosePool
  <2>6. /\ t.boss = [s.boss EXCEPT ![e] = Null] /\ t.count = [s.count EXCEPT ![l] = n - 1]
        /\ t.first = [s.first EXCEPT ![l] = IF m # 1 THEN @ ELSE IF n = 1 THEN Null ELSE w[2]]
        /\ t.last = [s.last EXCEPT ![l] = IF m # n THEN @ ELSE IF n = 1 THEN Null ELSE w[n - 1]]
    <3>1. t.boss = [s.boss EXCEPT ![e] = Null] /\ t.count = [s.count EXCEPT ![l] = n - 1]
      BY <2>3, <2>4, <2>5, <1>1, <1>2, <1>5
    <3>2. t.first = [s.first EXCEPT ![l] = IF m # 1 THEN @ ELSE IF n = 1 THEN Null ELSE w[2]]
      BY <2>4, <2>5, <1>1, <1>2, <1>5
    <3>3. t.last = [s.last EXCEPT ![l] = IF m # n THEN @ ELSE IF n = 1 THEN Null ELSE w[n - 1]]
      BY <2>4, <2>5, <1>1, <1>2, <1>5
    <3> QED
      BY <3>1, <3>2, <3>3
  <2>7. \A x \in PoolElements : t.next[x] = IF x = e THEN Null
                                        ELSE IF m > 1 /\ x = w[m - 1]
                                             THEN (IF m = n THEN Null ELSE w[m + 1])
                                        ELSE s.next[x]
    BY <2>1, <2>4, <2>5, <1>1, <1>2, <1>5
  <2>8. \A x \in PoolElements : t.prev[x] = IF x = e THEN Null
                                        ELSE IF m < n /\ x = w[m + 1]
                                             THEN (IF m = 1 THEN Null ELSE w[m - 1])
                                        ELSE s.prev[x]
    BY <2>1, <2>4, <2>5, <1>1, <1>2, <1>5
  <2> QED
    BY <2>5, <2>6, <2>7, <2>8, <1>fields
<1>6. CASE 1 < m /\ m < n
  <2> DEFINE u == [s EXCEPT !.next[w[m - 1]] = w[m + 1], !.prev[w[m + 1]] = w[m - 1], !.count[l] = @ - 1]
  <2>1. /\ s.first[l] # e /\ s.last[l] # e
        /\ s.prev[e] = w[m - 1] /\ w[m - 1] \in PoolElements /\ w[m - 1] # e
        /\ s.next[e] = w[m + 1] /\ w[m + 1] \in PoolElements /\ w[m + 1] # e
    BY <1>1, <1>6
  <2>2. t = Unlinked(u, e)
    BY <2>1, <1>1, <1>6 DEF QuickRemove
  <2>3. n - 1 \in Nat /\ (n = 1 => n - 1 = 0)
    BY <1>1
  <2>4. u \in LoosePool /\ u.next = [s.next EXCEPT ![w[m - 1]] = w[m + 1]] /\ u.prev = [s.prev EXCEPT ![w[m + 1]] = w[m - 1]] /\ u.boss = s.boss
        /\ u.first = s.first /\ u.last = s.last /\ u.count = [s.count EXCEPT ![l] = n - 1]
    <3>1. ASSUME NEW x \in PoolElements, NEW y \in PoolElements, NEW c \in Nat, x = w[m - 1], y = w[m + 1], c = n - 1
          PROVE  u \in LoosePool /\ u.next = [s.next EXCEPT ![w[m - 1]] = w[m + 1]] /\ u.prev = [s.prev EXCEPT ![w[m + 1]] = w[m - 1]] /\ u.boss = s.boss
        /\ u.first = s.first /\ u.last = s.last /\ u.count = [s.count EXCEPT ![l] = n - 1]
      <4>1. u = [s EXCEPT !.next[x] = y, !.prev[y] = x, !.count[l] = c]
        BY <3>1
      <4> HIDE DEF u
      <4>2. u \in LoosePool /\ u.next = [s.next EXCEPT ![x] = y] /\ u.prev = [s.prev EXCEPT ![y] = x] /\ u.boss = s.boss
        /\ u.first = s.first /\ u.last = s.last /\ u.count = [s.count EXCEPT ![l] = c]
        BY <4>1 DEF LoosePool
      <4> QED
        BY <4>2, <3>1
    <3> QED
      BY <3>1, <2>1, <2>3
  <2> HIDE DEF t, u
  <2>5. /\ t \in LoosePool
        /\ t.next = [u.next EXCEPT ![e] = Null] /\ t.prev = [u.prev EXCEPT ![e] = Null]
        /\ t.boss = [u.boss EXCEPT ![e] = Null]
        /\ t.first = u.first /\ t.last = u.last /\ t.count = u.count
    <3>1. u \in LoosePool /\ e \in PoolElements
      BY <2>4, <1>e
    <3> HIDE DEF e
    <3> QED
      BY <2>2, <3>1 DEF Unlinked, LoosePool
  <2>6. /\ t.boss = [s.boss EXCEPT ![e] = Null] /\ t.count = [s.count EXCEPT ![l] = n - 1]
        /\ t.first = [s.first EXCEPT ![l] = IF m # 1 THEN @ ELSE IF n = 1 THEN Null ELSE w[2]]
        /\ t.last = [s.last EXCEPT ![l] = IF m # n THEN @ ELSE IF n = 1 THEN Null ELSE w[n - 1]]
    <3>1. t.boss = [s.boss EXCEPT ![e] = Null] /\ t.count = [s.count EXCEPT ![l] = n - 1]
      BY <2>3, <2>4, <2>5, <1>1, <1>2, <1>6
    <3>2. t.first = [s.first EXCEPT ![l] = IF m # 1 THEN @ ELSE IF n = 1 THEN Null ELSE w[2]]
      BY <2>4, <2>5, <1>1, <1>2, <1>6
    <3>3. t.last = [s.last EXCEPT ![l] = IF m # n THEN @ ELSE IF n = 1 THEN Null ELSE w[n - 1]]
      BY <2>4, <2>5, <1>1, <1>2, <1>6
    <3> QED
      BY <3>1, <3>2, <3>3
  <2>7. \A x \in PoolElements : t.next[x] = IF x = e THEN Null
                                        ELSE IF m > 1 /\ x = w[m - 1]
                                             THEN (IF m = n THEN Null ELSE w[m + 1])
                                        ELSE s.next[x]
    BY <2>1, <2>4, <2>5, <1>1, <1>2, <1>6
  <2>8. \A x \in PoolElements : t.prev[x] = IF x = e THEN Null
                                        ELSE IF m < n /\ x = w[m + 1]
                                             THEN (IF m = 1 THEN Null ELSE w[m - 1])
                                        ELSE s.prev[x]
    BY <2>1, <2>4, <2>5, <1>1, <1>2, <1>6
  <2> QED
    BY <2>5, <2>6, <2>7, <2>8, <1>fields
<1> QED
  BY <1>1, <1>3, <1>4, <1>5, <1>6

(* The order that is left is that of the list, and the other list is as it *)
(* was.                                                                    *)
LEMMA RemovedIsSound ==
  ASSUME NEW s \in LoosePool, NEW t \in LoosePool, NEW l \in Lists, NEW w, IsList(s, l, w),
         NEW m \in 1..s.count[l], Removed(s, l, w, m, t)
  PROVE  /\ IsList(t, l, Without(w, s.count[l], m))
         /\ \A o \in Lists : \A v : o # l /\ IsList(s, o, v) => IsList(t, o, v)
<1> DEFINE n == s.count[l]
           e == w[m]
           v == Without(w, n, m)
<1>1. /\ n \in Nat /\ m \in 1..n /\ w \in [1..n -> PoolElements] /\ e \in PoolElements
      /\ \A j, k \in 1..n : w[j] = w[k] => j = k
      /\ s.first[l] = w[1] /\ s.prev[w[1]] = Null
      /\ s.last[l] = w[n] /\ s.next[w[n]] = Null
      /\ \A k \in 1..(n - 1) : s.next[w[k]] = w[k + 1] /\ s.prev[w[k + 1]] = w[k]
  BY ListFacts
<1>b. \A x \in PoolElements : s.boss[x] = l <=> \E k \in 1..n : w[k] = x
  BY ListFacts
<1>2. /\ s.boss \in [PoolElements -> Lists \cup {Null}] /\ s.count \in [Lists -> Nat]
      /\ s.first \in [Lists -> PoolElements \cup {Null}] /\ s.last \in [Lists -> PoolElements \cup {Null}]
  BY PoolFields
<1>3. /\ t.boss = [s.boss EXCEPT ![e] = Null]
      /\ t.count = [s.count EXCEPT ![l] = n - 1]
      /\ t.first = [s.first EXCEPT ![l] = IF m # 1 THEN @ ELSE IF n = 1 THEN Null ELSE w[2]]
      /\ t.last = [s.last EXCEPT ![l] = IF m # n THEN @ ELSE IF n = 1 THEN Null ELSE w[n - 1]]
      /\ \A x \in PoolElements : t.next[x] = IF x = e THEN Null
                                         ELSE IF m > 1 /\ x = w[m - 1]
                                              THEN (IF m = n THEN Null ELSE w[m + 1])
                                         ELSE s.next[x]
      /\ \A x \in PoolElements : t.prev[x] = IF x = e THEN Null
                                         ELSE IF m < n /\ x = w[m + 1]
                                              THEN (IF m = 1 THEN Null ELSE w[m - 1])
                                         ELSE s.prev[x]
  BY DEF Removed
<1>4. Null \notin Lists
  BY SizesAreValid DEF Lists
<1>5. IsList(t, l, v)
  <2>1. t.count[l] = n - 1 /\ n - 1 \in Nat
    BY <1>1, <1>2, <1>3
  <2>2. /\ v \in [1..(n - 1) -> PoolElements]
        /\ \A k \in 1..(n - 1) : v[k] = IF k < m THEN w[k] ELSE w[k + 1]
    BY <1>1 DEF Without
  <2>3. \A j, k \in 1..(n - 1) : v[j] = v[k] => j = k
    BY <1>1, <2>2
  <2>4. ASSUME NEW k \in 1..(n - 1) PROVE v[k] # e
    <3>1. CASE k < m
      BY <1>1, <2>2, <3>1
    <3>2. CASE ~(k < m)
      <4>1. v[k] = w[k + 1] /\ k + 1 \in 1..n /\ k + 1 # m
        BY <1>1, <2>2, <3>2
      <4> QED
        BY <1>1, <4>1
    <3> QED
      BY <3>1, <3>2
  <2>5. ASSUME NEW x \in PoolElements PROVE t.boss[x] = l <=> \E k \in 1..(n - 1) : v[k] = x
    <3>1. CASE x = e
      BY <1>2, <1>3, <1>4, <2>4, <3>1
    <3>2. CASE x # e
      <4>1. t.boss[x] = s.boss[x]
        BY <1>2, <1>3, <3>2
      <4>2. ASSUME NEW k \in 1..n, w[k] = x PROVE \E j \in 1..(n - 1) : v[j] = x
        <5>1. CASE k < m
          <6>1. k \in 1..(n - 1) /\ v[k] = x
            BY <1>1, <2>2, <4>2, <5>1
          <6> QED
            BY <6>1
        <5>2. CASE k > m
          <6>1. k - 1 \in 1..(n - 1) /\ v[k - 1] = x
            BY <1>1, <2>2, <4>2, <5>2
          <6> QED
            BY <6>1
        <5> QED
          BY <1>1, <3>2, <4>2, <5>1, <5>2
      <4>3. ASSUME NEW j \in 1..(n - 1), v[j] = x PROVE \E k \in 1..n : w[k] = x
        <5>1. j \in 1..n /\ j + 1 \in 1..n
          BY <1>1
        <5>2. w[j] = x \/ w[j + 1] = x
          BY <2>2, <4>3
        <5> QED
          BY <5>1, <5>2
      <4> QED
        BY <1>b, <4>1, <4>2, <4>3
    <3> QED
      BY <3>1, <3>2
  <2>6. IF n - 1 = 0 THEN t.first[l] = Null /\ t.last[l] = Null
        ELSE /\ t.first[l] = v[1] /\ t.prev[v[1]] = Null
             /\ t.last[l] = v[n - 1] /\ t.next[v[n - 1]] = Null
    <3>1. CASE n = 1
      BY <1>1, <1>2, <1>3, <3>1
    <3>2. CASE n > 1
      <4>1. v[1] = (IF m = 1 THEN w[2] ELSE w[1]) /\ v[n - 1] = (IF m = n THEN w[n - 1] ELSE w[n])
        <5>1. 1 \in 1..(n - 1) /\ n - 1 \in 1..(n - 1) /\ n - 1 + 1 = n /\ 1 + 1 = 2
          BY <1>1, <3>2
        <5>2. (1 < m <=> m # 1) /\ (n - 1 < m <=> m = n)
          BY <1>1
        <5>3. v[1] = (IF 1 < m THEN w[1] ELSE w[2]) /\ v[n - 1] = (IF n - 1 < m THEN w[n - 1] ELSE w[n])
          BY <2>2, <5>1
        <5> QED
          BY <5>2, <5>3
      <4>2. t.first[l] = v[1] /\ t.last[l] = v[n - 1]
        BY <1>1, <1>2, <1>3, <3>2, <4>1
      <4>3. t.prev[v[1]] = Null
        BY <1>1, <1>3, <3>2, <4>1
      <4>4. t.next[v[n - 1]] = Null
        BY <1>1, <1>3, <3>2, <4>1
      <4> QED
        BY <1>1, <3>2, <4>2, <4>3, <4>4
    <3> QED
      BY <1>1, <3>1, <3>2
  <2>7. ASSUME NEW k \in 1..(n - 2) PROVE t.next[v[k]] = v[k + 1] /\ t.prev[v[k + 1]] = v[k]
    <3>0. k \in 1..(n - 1) /\ k + 1 \in 1..(n - 1) /\ k \in 1..n /\ k + 1 \in 1..n /\ k + 2 \in 1..n
      BY <1>1
    <3>1. CASE k + 1 < m
      <4>1. v[k] = w[k] /\ v[k + 1] = w[k + 1]
        BY <1>1, <2>2, <3>0, <3>1
      <4>2. w[k] # e /\ w[k + 1] # e /\ (m > 1 => w[k] # w[m - 1]) /\ (m < n => w[k + 1] # w[m + 1])
        BY <1>1, <3>0, <3>1
      <4>3. w[k] \in PoolElements /\ w[k + 1] \in PoolElements /\ s.next[w[k]] = w[k + 1] /\ s.prev[w[k + 1]] = w[k]
        BY <1>1, <3>0
      <4>4. t.next[w[k]] = s.next[w[k]]
        BY <1>3, <4>2, <4>3
      <4>5. t.prev[w[k + 1]] = s.prev[w[k + 1]]
        BY <1>3, <4>2, <4>3
      <4> QED
        BY <4>1, <4>3, <4>4, <4>5
    <3>2. CASE k + 1 = m
      <4>1. v[k] = w[m - 1] /\ v[k + 1] = w[m + 1] /\ m > 1 /\ m < n
        BY <1>1, <2>2, <3>0, <3>2
      <4>2. w[m - 1] # e /\ w[m + 1] # e
        BY <1>1, <3>0, <3>2
      <4>3. w[m - 1] \in PoolElements /\ w[m + 1] \in PoolElements /\ m # 1 /\ m # n
        <5>1. m - 1 \in 1..n /\ m + 1 \in 1..n /\ m # 1 /\ m # n
          BY <1>1, <4>1
        <5> QED
          BY <1>1, <5>1
      <4>4. t.next[w[m - 1]] = w[m + 1] /\ t.prev[w[m + 1]] = w[m - 1]
        BY <1>3, <4>1, <4>2, <4>3
      <4> QED
        BY <4>1, <4>4
    <3>3. CASE k + 1 > m
      <4>1. v[k] = w[k + 1] /\ v[k + 1] = w[k + 2]
        BY <1>1, <2>2, <3>0, <3>3
      <4>2. w[k + 1] # e /\ w[k + 2] # e /\ (m > 1 => w[k + 1] # w[m - 1]) /\ (m < n => w[k + 2] # w[m + 1])
        BY <1>1, <3>0, <3>3
      <4>3. /\ w[k + 1] \in PoolElements /\ w[k + 2] \in PoolElements
            /\ s.next[w[k + 1]] = w[k + 2] /\ s.prev[w[k + 2]] = w[k + 1]
        BY <1>1, <3>0
      <4>4. t.next[w[k + 1]] = s.next[w[k + 1]]
        BY <1>3, <4>2, <4>3
      <4>5. t.prev[w[k + 2]] = s.prev[w[k + 2]]
        BY <1>3, <4>2, <4>3
      <4> QED
        BY <4>1, <4>3, <4>4, <4>5
    <3> QED
      BY <1>1, <3>1, <3>2, <3>3
  <2>8. n - 1 - 1 = n - 2
    BY <1>1
  <2> HIDE DEF v
  <2> QED
    BY <2>1, <2>2, <2>8, <2>3, <2>5, <2>6, <2>7 DEF IsList
<1>6. ASSUME NEW o \in Lists, NEW u, o # l, IsList(s, o, u) PROVE IsList(t, o, u)
  <2> DEFINE c == s.count[o]
  <2>1. t.count[o] = c /\ t.first[o] = s.first[o] /\ t.last[o] = s.last[o]
    BY <1>2, <1>3, <1>6
  <2>2. \A x \in PoolElements : t.boss[x] = o <=> s.boss[x] = o
    BY <1>1, <1>b, <1>2, <1>3, <1>4, <1>6
  <2>3. \A x \in PoolElements : s.boss[x] = o => t.next[x] = s.next[x] /\ t.prev[x] = s.prev[x]
    BY <1>1, <1>b, <1>3, <1>6
  <2>4. /\ c \in Nat /\ u \in [1..c -> PoolElements]
        /\ \A x \in PoolElements : s.boss[x] = o <=> \E k \in 1..c : u[k] = x
    BY <1>6, ListFacts
  <2>5. \A k \in 1..c : t.next[u[k]] = s.next[u[k]] /\ t.prev[u[k]] = s.prev[u[k]]
    BY <2>3, <2>4
  <2> QED
    BY <1>6, <2>1, <2>2, <2>4, <2>5 DEF IsList
<1> QED
  BY <1>5, <1>6

(* What Pushback does to the fields of a pool: the element comes behind    *)
(* the last one.                                                           *)
Pushed(s, l, w, e, t) ==
  LET n == s.count[l]
  IN  /\ t.boss = [s.boss EXCEPT ![e] = l]
      /\ t.count = [s.count EXCEPT ![l] = n + 1]
      /\ t.first = [s.first EXCEPT ![l] = IF n = 0 THEN e ELSE @]
      /\ t.last = [s.last EXCEPT ![l] = e]
      /\ \A x \in PoolElements : t.next[x] = IF x = e THEN Null
                                         ELSE IF n > 0 /\ x = w[n] THEN e ELSE s.next[x]
      /\ \A x \in PoolElements : t.prev[x] = IF x = e THEN (IF n = 0 THEN Null ELSE w[n]) ELSE s.prev[x]

(* Pushback of an element that is on no list: into an empty list, or       *)
(* behind the last element.                                                *)
LEMMA PushbackIs ==
  ASSUME NEW s \in LoosePool, NEW l \in Lists, NEW w, IsList(s, l, w), NEW e \in PoolElements, s.boss[e] = Null
  PROVE  Pushback(s, l, e) \in LoosePool /\ Pushed(s, l, w, e, Pushback(s, l, e))
<1> DEFINE n == s.count[l]
           t == Pushback(s, l, e)
<1> SUFFICES t \in LoosePool /\ Pushed(s, l, w, e, t)
  OBVIOUS
<1>1. /\ n \in Nat /\ w \in [1..n -> PoolElements]
      /\ n > 0 => s.first[l] = w[1] /\ s.last[l] = w[n]
  BY ListFacts
<1>2. /\ s.next \in [PoolElements -> PoolElements \cup {Null}] /\ s.prev \in [PoolElements -> PoolElements \cup {Null}]
      /\ s.boss \in [PoolElements -> Lists \cup {Null}]
      /\ s.first \in [Lists -> PoolElements \cup {Null}] /\ s.last \in [Lists -> PoolElements \cup {Null}]
      /\ s.count \in [Lists -> Nat]
  BY PoolFields
<1>3. Null \notin PoolElements
  BY SizesAreValid DEF PoolElements
<1>4. CASE n = 0
  <2>1. s.first[l] = Null
    BY <1>4 DEF IsList
  <2>2. t = [s EXCEPT !.first[l] = e, !.last[l] = e, !.next[e] = Null, !.prev[e] = Null,
                      !.boss[e] = l, !.count[l] = @ + 1]
    BY <2>1 DEF Pushback
  <2>3. ASSUME NEW c \in Nat, c = n + 1
        PROVE  /\ t \in LoosePool
               /\ t.next = [s.next EXCEPT ![e] = Null] /\ t.prev = [s.prev EXCEPT ![e] = Null]
               /\ t.boss = [s.boss EXCEPT ![e] = l] /\ t.first = [s.first EXCEPT ![l] = e]
               /\ t.last = [s.last EXCEPT ![l] = e] /\ t.count = [s.count EXCEPT ![l] = c]
    <3>1. t = [s EXCEPT !.first[l] = e, !.last[l] = e, !.next[e] = Null, !.prev[e] = Null,
                        !.boss[e] = l, !.count[l] = c]
      BY <2>2, <2>3
    <3> HIDE DEF t
    <3> QED
      BY <3>1 DEF LoosePool
  <2>4. n + 1 \in Nat
    BY <1>1
  <2> HIDE DEF t
  <2> QED
    <3>1. /\ t \in LoosePool
          /\ t.next = [s.next EXCEPT ![e] = Null] /\ t.prev = [s.prev EXCEPT ![e] = Null]
          /\ t.boss = [s.boss EXCEPT ![e] = l] /\ t.first = [s.first EXCEPT ![l] = e]
          /\ t.last = [s.last EXCEPT ![l] = e] /\ t.count = [s.count EXCEPT ![l] = n + 1]
      BY <2>3, <2>4
    <3>2. [s.first EXCEPT ![l] = e] = [s.first EXCEPT ![l] = IF n = 0 THEN e ELSE @]
      BY <1>4
    <3> QED
      BY <3>1, <3>2, <1>1, <1>2, <1>4 DEF Pushed
<1>5. CASE n > 0
  <2>1. s.first[l] # Null /\ s.last[l] = w[n] /\ w[n] \in PoolElements
    BY <1>1, <1>3, <1>5
  <2>2. t = [s EXCEPT !.next = [@ EXCEPT ![w[n]] = e, ![e] = Null],
                      !.prev[e] = w[n], !.last[l] = e, !.boss[e] = l, !.count[l] = @ + 1]
    BY <2>1 DEF Pushback
  <2>3. ASSUME NEW c \in Nat, c = n + 1, NEW x \in PoolElements, x = w[n]
        PROVE  /\ t \in LoosePool
               /\ t.next = [s.next EXCEPT ![x] = e, ![e] = Null] /\ t.prev = [s.prev EXCEPT ![e] = x]
               /\ t.boss = [s.boss EXCEPT ![e] = l] /\ t.first = s.first
               /\ t.last = [s.last EXCEPT ![l] = e] /\ t.count = [s.count EXCEPT ![l] = c]
    <3>1. t = [s EXCEPT !.next = [@ EXCEPT ![x] = e, ![e] = Null],
                        !.prev[e] = x, !.last[l] = e, !.boss[e] = l, !.count[l] = c]
      BY <2>2, <2>3
    <3> HIDE DEF t
    <3> QED
      BY <3>1 DEF LoosePool
  <2>4. n + 1 \in Nat
    BY <1>1
  <2> HIDE DEF t
  <2>5. /\ t \in LoosePool
        /\ t.next = [s.next EXCEPT ![w[n]] = e, ![e] = Null] /\ t.prev = [s.prev EXCEPT ![e] = w[n]]
        /\ t.boss = [s.boss EXCEPT ![e] = l] /\ t.first = s.first
        /\ t.last = [s.last EXCEPT ![l] = e] /\ t.count = [s.count EXCEPT ![l] = n + 1]
    BY <2>1, <2>3, <2>4
  <2>6. s.first = [s.first EXCEPT ![l] = IF n = 0 THEN e ELSE @]
    BY <1>2, <1>5
  <2> QED
    BY <2>1, <2>5, <2>6, <1>1, <1>2, <1>5 DEF Pushed
<1> QED
  BY <1>1, <1>4, <1>5

(* The list has the element at its end, the other one is what it was.      *)
LEMMA PushedIsSound ==
  ASSUME NEW s \in LoosePool, NEW t \in LoosePool, NEW l \in Lists, NEW w, IsList(s, l, w),
         NEW e \in PoolElements, s.boss[e] = Null, Pushed(s, l, w, e, t)
  PROVE  /\ IsList(t, l, With(w, s.count[l], e))
         /\ \A o \in Lists : \A v : o # l /\ IsList(s, o, v) => IsList(t, o, v)
<1> DEFINE n == s.count[l]
           v == With(w, n, e)
<1>1. /\ n \in Nat /\ w \in [1..n -> PoolElements]
      /\ \A j, k \in 1..n : w[j] = w[k] => j = k
      /\ n > 0 => /\ s.first[l] = w[1] /\ s.prev[w[1]] = Null
                  /\ s.last[l] = w[n] /\ s.next[w[n]] = Null
      /\ \A k \in 1..(n - 1) : s.next[w[k]] = w[k + 1] /\ s.prev[w[k + 1]] = w[k]
  BY ListFacts
<1>b. \A x \in PoolElements : s.boss[x] = l <=> \E k \in 1..n : w[k] = x
  BY ListFacts
<1>2. /\ s.boss \in [PoolElements -> Lists \cup {Null}] /\ s.count \in [Lists -> Nat]
      /\ s.first \in [Lists -> PoolElements \cup {Null}] /\ s.last \in [Lists -> PoolElements \cup {Null}]
  BY PoolFields
<1>3. /\ t.boss = [s.boss EXCEPT ![e] = l]
      /\ t.count = [s.count EXCEPT ![l] = n + 1]
      /\ t.first = [s.first EXCEPT ![l] = IF n = 0 THEN e ELSE @]
      /\ t.last = [s.last EXCEPT ![l] = e]
      /\ \A x \in PoolElements : t.next[x] = IF x = e THEN Null
                                         ELSE IF n > 0 /\ x = w[n] THEN e ELSE s.next[x]
      /\ \A x \in PoolElements : t.prev[x] = IF x = e THEN (IF n = 0 THEN Null ELSE w[n]) ELSE s.prev[x]
  BY DEF Pushed
<1>4. Null \notin Lists
  BY SizesAreValid DEF Lists
<1>e. \A k \in 1..n : w[k] # e
  BY <1>b, <1>4
<1>5. IsList(t, l, v)
  <2>1. t.count[l] = n + 1 /\ n + 1 \in Nat /\ n + 1 # 0 /\ n + 1 - 1 = n
    BY <1>1, <1>2, <1>3
  <2>2. /\ v \in [1..(n + 1) -> PoolElements] /\ v[n + 1] = e
        /\ \A k \in 1..n : k \in 1..(n + 1) /\ v[k] = w[k]
    BY <1>1 DEF With
  <2>3. \A k \in 1..(n + 1) : k = n + 1 \/ k \in 1..n
    BY <1>1
  <2>4. ASSUME NEW j \in 1..(n + 1), NEW k \in 1..(n + 1), v[j] = v[k] PROVE j = k
    <3>1. CASE j \in 1..n /\ k \in 1..n
      BY <1>1, <2>2, <2>4, <3>1
    <3>2. CASE j = n + 1 \/ k = n + 1
      BY <1>e, <2>2, <2>3, <2>4, <3>2
    <3> QED
      BY <2>3, <3>1, <3>2
  <2>5. ASSUME NEW x \in PoolElements PROVE t.boss[x] = l <=> \E k \in 1..(n + 1) : v[k] = x
    <3>0. n + 1 \in 1..(n + 1)
      BY <1>1
    <3>1. CASE x = e
      BY <1>2, <1>3, <2>2, <3>0, <3>1
    <3>2. CASE x # e
      <4>1. t.boss[x] = s.boss[x]
        BY <1>2, <1>3, <3>2
      <4> QED
        BY <1>b, <2>2, <2>3, <3>2, <4>1
    <3> QED
      BY <3>1, <3>2
  <2>6. t.first[l] = v[1] /\ t.prev[v[1]] = Null
    <3>1. CASE n = 0
      BY <1>2, <1>3, <2>2, <3>1
    <3>2. CASE n > 0
      <4>1. v[1] = w[1] /\ w[1] # e /\ w[1] \in PoolElements
        BY <1>1, <1>e, <2>2, <3>2
      <4> QED
        BY <1>1, <1>2, <1>3, <3>2, <4>1
    <3> QED
      BY <1>1, <3>1, <3>2
  <2>7. t.last[l] = v[n + 1] /\ t.next[v[n + 1]] = Null
    BY <1>2, <1>3, <2>2
  <2>8. ASSUME NEW k \in 1..n PROVE t.next[v[k]] = v[k + 1] /\ t.prev[v[k + 1]] = v[k]
    <3>1. w[k] \in PoolElements /\ w[k] # e /\ v[k] = w[k]
      BY <1>1, <1>e, <2>2
    <3>2. CASE k = n
      BY <1>1, <1>3, <2>2, <3>1, <3>2
    <3>3. CASE k # n
      <4>1. k + 1 \in 1..n /\ k \in 1..(n - 1) /\ n > 0 /\ n \in 1..n
        BY <1>1, <3>3
      <4>2. w[k + 1] \in PoolElements /\ w[k + 1] # e /\ v[k + 1] = w[k + 1] /\ w[k] # w[n]
        BY <1>1, <1>e, <2>2, <3>3, <4>1
      <4>3. s.next[w[k]] = w[k + 1] /\ s.prev[w[k + 1]] = w[k]
        BY <1>1, <4>1
      <4> QED
        BY <1>3, <3>1, <4>2, <4>3
    <3> QED
      BY <3>2, <3>3
  <2> DEFINE c == n + 1
  <2>9. c \in Nat /\ c # 0 /\ c - 1 = n /\ t.count[l] = c
    BY <1>1, <2>1
  <2>10. v \in [1..c -> PoolElements] /\ t.last[l] = v[c] /\ t.next[v[c]] = Null
    BY <2>2, <2>7
  <2>11. \A j, k \in 1..c : v[j] = v[k] => j = k
    BY <2>4
  <2>12. \A x \in PoolElements : t.boss[x] = l <=> \E k \in 1..c : v[k] = x
    BY <2>5
  <2> HIDE DEF v, c
  <2> QED
    BY <2>6, <2>8, <2>9, <2>10, <2>11, <2>12 DEF IsList
<1>6. ASSUME NEW o \in Lists, NEW u, o # l, IsList(s, o, u) PROVE IsList(t, o, u)
  <2> DEFINE c == s.count[o]
  <2>1. t.count[o] = c /\ t.first[o] = s.first[o] /\ t.last[o] = s.last[o]
    BY <1>2, <1>3, <1>6
  <2>2. \A x \in PoolElements : t.boss[x] = o <=> s.boss[x] = o
    BY <1>2, <1>3, <1>4, <1>6
  <2>3. ASSUME NEW x \in PoolElements, s.boss[x] = o PROVE t.next[x] = s.next[x] /\ t.prev[x] = s.prev[x]
    <3>1. x # e
      BY <1>4, <2>3
    <3>2. n > 0 => x # w[n]
      <4>1. n > 0 => n \in 1..n
        BY <1>1
      <4> QED
        BY <1>b, <1>6, <2>3, <4>1
    <3> QED
      BY <1>3, <3>1, <3>2
  <2>4. /\ c \in Nat /\ u \in [1..c -> PoolElements]
        /\ \A x \in PoolElements : s.boss[x] = o <=> \E k \in 1..c : u[k] = x
    BY <1>6, ListFacts
  <2>5. \A k \in 1..c : t.next[u[k]] = s.next[u[k]] /\ t.prev[u[k]] = s.prev[u[k]]
    BY <2>3, <2>4
  <2> QED
    BY <1>6, <2>1, <2>2, <2>4, <2>5 DEF IsList
<1> QED
  BY <1>5, <1>6

(* A list has at most Size elements, and one that has Size has them all.   *)
LEMMA ListIsBounded ==
  ASSUME NEW n \in Nat, NEW w \in [1..n -> PoolElements], \A j, k \in 1..n : w[j] = w[k] => j = k
  PROVE  /\ n <= PoolSize
         /\ n = PoolSize => \A e \in PoolElements : \E k \in 1..n : w[k] = e
<1>1. w \in Injection(1..n, PoolElements)
  BY DEF Injection, IsInjective
<1>2. IsFiniteSet(PoolElements) /\ Cardinality(PoolElements) = PoolSize /\ Cardinality(1..n) = n
  BY SizesAreValid, FS_Interval DEF PoolElements
<1>3. n <= PoolSize /\ (n = PoolSize => w \in Surjection(1..n, PoolElements))
  BY <1>1, <1>2, FS_Injection
<1> QED
  BY <1>3 DEF Surjection

------------------------------------------------------------------------------
(* A pool between two operations: each element is on one of its two lists. *)
SoundPool == {s \in Pool : \A l \in Lists : ListIsSound(s, l)}

(* When every element is on a list, no count exceeds Size.                 *)
LEMMA SoundPoolIs ==
  ASSUME NEW s \in LoosePool, \A e \in PoolElements : s.boss[e] # Null,
         \A l \in Lists : \E w : IsList(s, l, w)
  PROVE  s \in SoundPool
<1>1. ASSUME NEW l \in Lists PROVE ListIsSound(s, l) /\ s.count[l] \in 0..PoolSize
  <2>1. PICK w : IsList(s, l, w)
    OBVIOUS
  <2>2. w \in [1..s.count[l] -> PoolElements] /\ s.count[l] \in Nat /\ s.count[l] <= PoolSize
    <3>1. /\ w \in [1..s.count[l] -> PoolElements] /\ s.count[l] \in Nat
          /\ \A j, k \in 1..s.count[l] : w[j] = w[k] => j = k
      BY <2>1, ListFacts
    <3> QED
      BY <3>1, ListIsBounded
  <2> QED
    BY <2>1, <2>2, SizesAreValid DEF ListIsSound
<1>2. s.boss \in [PoolElements -> Lists] /\ s.count \in [Lists -> 0..PoolSize]
  BY <1>1, PoolFields
<1>3. s \in Pool
  BY <1>2 DEF Pool, LoosePool
<1> QED
  BY <1>1, <1>3 DEF SoundPool

(* What there is to know of a pool between two operations.                 *)
LEMMA PoolIsLoose ==
  ASSUME NEW s \in SoundPool
  PROVE  /\ s \in LoosePool /\ s \in Pool
         /\ s.boss \in [PoolElements -> Lists] /\ s.count \in [Lists -> 0..PoolSize]
         /\ \A l \in Lists : \E w : IsList(s, l, w)
<1>1. 0..PoolSize \subseteq Nat
  OBVIOUS
<1>2. s \in Pool /\ s \in LoosePool
  BY <1>1 DEF SoundPool, Pool, LoosePool
<1>3. s.boss \in [PoolElements -> Lists] /\ s.count \in [Lists -> 0..PoolSize]
  BY <1>2 DEF Pool
<1>4. \A l \in Lists : \E w : IsList(s, l, w)
  BY DEF SoundPool, ListIsSound
<1> QED
  BY <1>2, <1>3, <1>4

(* An element changes from one list to the other, and nothing else: what   *)
(* Allocate and Release of MaloneMemPool do to the lists.                  *)
LEMMA MoveIs ==
  ASSUME NEW s \in SoundPool, NEW from \in Lists, NEW to \in Lists, from # to,
         NEW e \in PoolElements, s.boss[e] = from
  PROVE  LET t == Pushback(QuickRemove(s, from, e), to, e)
         IN  t \in SoundPool /\ t.boss = [s.boss EXCEPT ![e] = to]
<1> DEFINE q == QuickRemove(s, from, e)
           t == Pushback(q, to, e)
<1>1. s \in LoosePool /\ s.boss \in [PoolElements -> Lists]
  BY PoolIsLoose
<1>2. PICK w, v : IsList(s, from, w) /\ IsList(s, to, v)
  BY PoolIsLoose
<1>3. PICK m \in 1..s.count[from] : w[m] = e
  BY <1>1, <1>2, ListFacts
<1>4. q \in LoosePool /\ Removed(s, from, w, m, q)
  BY <1>1, <1>2, <1>3, QuickRemoveIs
<1> HIDE DEF q
<1>5. \E x : IsList(q, from, x)
  BY <1>1, <1>2, <1>3, <1>4, RemovedIsSound
<1>6. IsList(q, to, v)
  BY <1>1, <1>2, <1>3, <1>4, RemovedIsSound
<1>7. q.boss = [s.boss EXCEPT ![e] = Null]
  BY <1>3, <1>4 DEF Removed
<1>8. q.boss[e] = Null
  BY <1>1, <1>7
<1>9. t \in LoosePool /\ Pushed(q, to, v, e, t)
  BY <1>4, <1>6, <1>8, PushbackIs
<1> HIDE DEF t
<1>10. (\E x : IsList(t, to, x)) /\ (\E x : IsList(t, from, x))
  BY <1>4, <1>5, <1>6, <1>8, <1>9, PushedIsSound
<1>11. t.boss = [q.boss EXCEPT ![e] = to]
  BY <1>9 DEF Pushed
<1>12. t.boss = [s.boss EXCEPT ![e] = to]
  BY <1>1, <1>7, <1>11
<1>13. \A l \in Lists : \E x : IsList(t, l, x)
  BY <1>10 DEF Lists
<1>14. \A x \in PoolElements : t.boss[x] # Null
  BY <1>1, <1>12, SizesAreValid DEF Lists
<1>15. t \in SoundPool
  BY <1>9, <1>13, <1>14, SoundPoolIs
<1> QED
  BY <1>12, <1>15 DEF t, q

(* MaloneMemPool::Allocate, of a pool that has a free object: Popfront of  *)
(* the free list is the removal of its first element.                      *)
LEMMA PoolAllocateIs ==
  ASSUME NEW s \in SoundPool, s.count["free"] > 0
  PROVE  /\ s.first["free"] \in PoolElements /\ s.boss[s.first["free"]] = "free"
         /\ PoolAllocate(s) \in SoundPool
         /\ PoolAllocate(s).boss = [s.boss EXCEPT ![s.first["free"]] = "used"]
<1> DEFINE e == s.first["free"]
<1>1. "free" \in Lists /\ "used" \in Lists /\ "free" # "used"
  BY DEF Lists
<1>2. PICK w : IsList(s, "free", w)
  BY <1>1, PoolIsLoose
<1>3. e = w[1] /\ e \in PoolElements /\ s.boss[e] = "free"
  <2>1. s.count["free"] \in Nat /\ 1 \in 1..s.count["free"]
    BY <1>1, PoolIsLoose
  <2>2. e = w[1] /\ w \in [1..s.count["free"] -> PoolElements]
    BY <1>1, <1>2, <2>1, PoolIsLoose, ListFacts
  <2> QED
    BY <1>1, <1>2, <2>1, <2>2, PoolIsLoose, ListFacts
<1>4. PoolAllocate(s) = Pushback(QuickRemove(s, "free", e), "used", e)
  BY DEF PoolAllocate, QuickRemove
<1> QED
  BY <1>1, <1>3, <1>4, MoveIs

(* MaloneMemPool::Release, of an object that is in use.                    *)
LEMMA PoolReleaseIs ==
  ASSUME NEW s \in SoundPool, NEW e \in PoolElements, s.boss[e] = "used"
  PROVE  /\ PoolRelease(s, e) \in SoundPool
         /\ PoolRelease(s, e).boss = [s.boss EXCEPT ![e] = "free"]
BY MoveIs DEF PoolRelease, Lists

(* MaloneMemPool::Init threads all elements on the free list.              *)
LEMMA NewPoolIs ==
  NewPool \in SoundPool /\ NewPool.count["free"] = PoolSize /\ \A e \in PoolElements : NewPool.boss[e] = "free"
<1>1. NewPool \in LoosePool
  BY SizesAreValid DEF NewPool, LoosePool, PoolElements, Lists
<1>2. IsList(NewPool, "free", [k \in 1..PoolSize |-> k])
  BY SizesAreValid DEF NewPool, IsList, PoolElements, Lists
<1>3. IsList(NewPool, "used", [k \in 1..0 |-> k])
  BY SizesAreValid DEF NewPool, IsList, PoolElements, Lists
<1>4. /\ NewPool.count["free"] = PoolSize /\ \A e \in PoolElements : NewPool.boss[e] = "free"
  BY DEF NewPool, Lists
<1>5. \A l \in Lists : \E w : IsList(NewPool, l, w)
  BY <1>2, <1>3 DEF Lists
<1>6. \A e \in PoolElements : NewPool.boss[e] # Null
  BY <1>4, SizesAreValid
<1> QED
  BY <1>1, <1>4, <1>5, <1>6, SoundPoolIs

------------------------------------------------------------------------------
(* CAutoMemPool: each chunk has a sound pool or none.                      *)
ArrayInv == array \in [Chunks -> SoundPool \cup {NoPool}]
PoolsInv == ArrayInv /\ lastUsed \in Chunks /\ result \in Objects \cup {Null} /\ NoHoles

(* A chunk without a pool is not mistaken for one.                         *)
LEMMA NoPoolIs == NoPool \notin Pool /\ NoPool \notin SoundPool
BY DEF NoPool, Pool, SoundPool

(* The invariants that the runs check follow.                              *)
LEMMA PoolsInvImplies ==
  ASSUME PoolsInv
  PROVE  PoolTypeOK /\ ListsAreSound /\ ReleaseFindsIt
<1>1. PoolTypeOK
  BY DEF PoolsInv, ArrayInv, PoolTypeOK, SoundPool
<1>2. ListsAreSound
  BY DEF PoolsInv, ArrayInv, ListsAreSound, Exists, SoundPool
<1>3. ReleaseFindsIt
  BY DEF PoolsInv, NoHoles, ReleaseFindsIt, InUse, Objects
<1> QED
  BY <1>1, <1>2, <1>3

(* The pool that Allocate takes from.                                      *)
Chosen(i) == IF Exists(i) THEN array[i] ELSE NewPool
LEMMA ChosenIs ==
  ASSUME PoolsInv, NEW i \in Chunks, HasRoom(i)
  PROVE  Chosen(i) \in SoundPool /\ Chosen(i).count["free"] > 0
<1>1. CASE Exists(i)
  BY <1>1 DEF PoolsInv, ArrayInv, Exists, HasRoom, Chosen
<1>2. CASE ~Exists(i)
  BY <1>2, NewPoolIs, SizesAreValid DEF Chosen
<1> QED
  BY <1>1, <1>2

(* What a step of Allocate does.                                           *)
LEMMA AllocateIs ==
  ASSUME PoolsInv, NEW i \in Chunks, HasRoom(i), \A j \in Chunks : j < i => ~HasRoom(j),
         array' = [array EXCEPT ![i] = PoolAllocate(Chosen(i))],
         result' = <<i, Chosen(i).first["free"]>>, lastUsed' = Larger(lastUsed, i)
  PROVE  /\ PoolsInv'
         /\ result' \in Objects \ InUse /\ InUse' = InUse \cup {result'}
<1> DEFINE s == Chosen(i)
           e == s.first["free"]
<1>1. s \in SoundPool /\ s.count["free"] > 0
  BY ChosenIs
<1>2. /\ e \in PoolElements /\ s.boss[e] = "free" /\ PoolAllocate(s) \in SoundPool
      /\ PoolAllocate(s).boss = [s.boss EXCEPT ![e] = "used"]
  BY <1>1, PoolAllocateIs
<1>3. s.boss \in [PoolElements -> Lists]
  BY <1>1, PoolIsLoose
<1>4. Exists(i) => s = array[i]
  BY DEF Chosen
<1>5. ~Exists(i) => \A x \in PoolElements : s.boss[x] = "free"
  BY NewPoolIs DEF Chosen
<1> HIDE DEF s
<1>6. array' = [array EXCEPT ![i] = PoolAllocate(s)] /\ array \in [Chunks -> SoundPool \cup {NoPool}]
  BY DEF s, PoolsInv, ArrayInv
<1>7. ArrayInv'
  BY <1>2, <1>6 DEF ArrayInv
<1>8. Exists(i)' /\ \A j \in Chunks : Exists(j)' <=> j = i \/ Exists(j)
  BY <1>2, <1>6, NoPoolIs DEF Exists
<1>9. lastUsed' \in Chunks /\ lastUsed' >= lastUsed /\ lastUsed' >= i
  BY SizesAreValid DEF Larger, Chunks, PoolsInv
<1>10. NoHoles'
  <2>1. \A j \in 0..i : j \in Chunks /\ Exists(j)'
    <3>1. \A j \in 0..i : j \in Chunks /\ (j = i \/ j < i)
      BY SizesAreValid DEF Chunks
    <3>2. \A j \in Chunks : j < i => Exists(j)
      BY DEF HasRoom
    <3> QED
      BY <1>8, <3>1, <3>2
  <2>2. ASSUME NEW j \in Chunks, Exists(j)' PROVE Searched(j)'
    <3>1. CASE j = i
      BY <1>9, <2>1, <3>1 DEF Searched
    <3>2. CASE j # i
      <4>1. Searched(j)
        BY <1>8, <2>2, <3>2 DEF PoolsInv, NoHoles
      <4>2. \A k \in 0..j : k \in Chunks
        BY SizesAreValid DEF Chunks
      <4>3. \A k \in 0..j : Exists(k)'
        BY <1>8, <4>1, <4>2 DEF Searched
      <4>4. j <= lastUsed'
        BY <1>9, <4>1 DEF Searched, Chunks, PoolsInv
      <4> QED
        BY <4>3, <4>4 DEF Searched
    <3> QED
      BY <3>1, <3>2
  <2> QED
    BY <2>2 DEF NoHoles
<1>11. result' = <<i, e>> /\ result' \in Objects
  BY <1>2 DEF Objects, s
<1>12. result' \notin InUse
  BY <1>2, <1>4, <1>11 DEF InUse
<1>13. InUse' = InUse \cup {result'}
  <2>1. array'[i].boss = [s.boss EXCEPT ![e] = "used"] /\ \A j \in Chunks : j # i => array'[j] = array[j]
    BY <1>2, <1>6
  <2>2. ASSUME NEW j \in Chunks, NEW x \in PoolElements
        PROVE  <<j, x>> \in InUse' <=> <<j, x>> \in InUse \/ <<j, x>> = <<i, e>>
    <3>1. CASE j # i
      BY <1>8, <2>1, <3>1 DEF InUse, Objects
    <3>2. CASE j = i /\ x = e
      BY <1>2, <1>3, <1>8, <2>1, <3>2 DEF InUse, Objects
    <3>3. CASE j = i /\ x # e
      <4>1. array'[i].boss[x] = s.boss[x]
        BY <1>3, <2>1, <3>3
      <4>2. CASE Exists(i)
        BY <1>4, <1>8, <3>3, <4>1, <4>2 DEF InUse, Objects
      <4>3. CASE ~Exists(i)
        BY <1>5, <1>8, <3>3, <4>1, <4>3 DEF InUse, Objects
      <4> QED
        BY <4>2, <4>3
    <3> QED
      BY <3>1, <3>2, <3>3
  <2>3. InUse \subseteq Chunks \X PoolElements /\ InUse' \subseteq Chunks \X PoolElements
    BY DEF InUse, Objects
  <2> QED
    BY <1>11, <2>2, <2>3 DEF Objects
<1> QED
  BY <1>7, <1>9, <1>10, <1>11, <1>12, <1>13 DEF PoolsInv

(* What a step of Release does.                                            *)
LEMMA ReleaseIs ==
  ASSUME PoolsInv, NEW i \in Chunks, NEW e \in PoolElements, Release(i, e)
  PROVE  PoolsInv' /\ <<i, e>> \in InUse /\ InUse' = InUse \ {<<i, e>>}
<1> DEFINE s == array[i]
<1>1. Exists(i) /\ s.boss[e] = "used" /\ array' = [array EXCEPT ![i] = PoolRelease(s, e)]
      /\ UNCHANGED <<lastUsed, result>> /\ array \in [Chunks -> SoundPool \cup {NoPool}]
  BY DEF Release, Searched, PoolsInv, ArrayInv, Chunks
<1>2. s \in SoundPool
  BY <1>1 DEF Exists
<1>3. PoolRelease(s, e) \in SoundPool /\ PoolRelease(s, e).boss = [s.boss EXCEPT ![e] = "free"]
  BY <1>1, <1>2, PoolReleaseIs
<1>4. s.boss \in [PoolElements -> Lists]
  BY <1>2, PoolIsLoose
<1>5. ArrayInv'
  BY <1>1, <1>3 DEF ArrayInv
<1>6. \A j \in Chunks : Exists(j)' <=> Exists(j)
  BY <1>1, <1>3, NoPoolIs DEF Exists
<1>7. NoHoles'
  <2>1. ASSUME NEW j \in Chunks, Exists(j)' PROVE Searched(j)'
    <3>1. Searched(j) /\ \A k \in 0..j : k \in Chunks
      BY <1>6, <2>1, SizesAreValid DEF PoolsInv, NoHoles, Chunks
    <3> QED
      BY <1>1, <1>6, <3>1 DEF Searched
  <2> QED
    BY <2>1 DEF NoHoles
<1>8. <<i, e>> \in InUse
  BY <1>1 DEF InUse, Objects
<1>9. InUse' = InUse \ {<<i, e>>}
  <2>1. array'[i].boss = [s.boss EXCEPT ![e] = "free"] /\ \A j \in Chunks : j # i => array'[j] = array[j]
    BY <1>1, <1>3
  <2>2. ASSUME NEW j \in Chunks, NEW x \in PoolElements
        PROVE  <<j, x>> \in InUse' <=> <<j, x>> \in InUse /\ <<j, x>> # <<i, e>>
    <3>1. CASE j # i
      BY <1>6, <2>1, <3>1 DEF InUse, Objects
    <3>2. CASE j = i /\ x = e
      BY <1>4, <2>1, <3>2 DEF InUse, Objects
    <3>3. CASE j = i /\ x # e
      BY <1>4, <1>6, <2>1, <3>3 DEF InUse, Objects
    <3> QED
      BY <3>1, <3>2, <3>3
  <2>3. InUse \subseteq Chunks \X PoolElements /\ InUse' \subseteq Chunks \X PoolElements
    BY DEF InUse, Objects
  <2> QED
    BY <2>2, <2>3
<1> QED
  BY <1>1, <1>5, <1>7, <1>8, <1>9 DEF PoolsInv

(* Allocate fails only when every object of every pool is in use.          *)
LEMMA AllocateFailsIs ==
  ASSUME PoolsInv, AllocateFails
  PROVE  PoolsInv' /\ InUse = Objects /\ result' = Null /\ InUse' = InUse
<1>1. /\ UNCHANGED <<array, lastUsed>> /\ result' = Null
      /\ \A i \in Chunks : Exists(i) /\ ~(array[i].count["free"] > 0)
  BY DEF AllocateFails, HasRoom
<1>2. ASSUME NEW i \in Chunks, NEW e \in PoolElements PROVE array[i].boss[e] = "used"
  <2>1. array[i] \in SoundPool
    BY <1>1 DEF PoolsInv, ArrayInv, Exists
  <2>2. PICK w : IsList(array[i], "free", w)
    BY <2>1, PoolIsLoose DEF Lists
  <2>3. array[i].count["free"] = 0 /\ array[i].boss[e] \in Lists
    BY <1>1, <2>1, PoolIsLoose DEF Lists
  <2>4. array[i].boss[e] # "free"
    BY <2>2, <2>3 DEF IsList
  <2> QED
    BY <2>3, <2>4 DEF Lists
<1>3. InUse = Objects
  BY <1>1, <1>2 DEF InUse, Objects
<1>4. PoolsInv'
  BY <1>1 DEF PoolsInv, ArrayInv, NoHoles, Searched, Exists
<1>5. InUse' = InUse
  BY <1>1 DEF InUse, Exists
<1> QED
  BY <1>1, <1>3, <1>4, <1>5

(* The chunks that Shrink keeps are the ones up to the last that is not    *)
(* idle, and no object of the others is in use.                            *)
LEMMA KeptIs ==
  ASSUME PoolsInv
  PROVE  /\ KeptPools \subseteq Chunks
         /\ \A i \in KeptPools : i <= lastUsed /\ Exists(i) /\ \A j \in 0..i : j \in KeptPools
         /\ \A i \in Chunks \ KeptPools : Exists(i) => \A e \in PoolElements : array[i].boss[e] # "used"
<1>1. lastUsed \in Chunks /\ lastUsed \in Nat /\ CHUNK \in Nat
  BY SizesAreValid DEF PoolsInv, Chunks
<1>2. ASSUME NEW i \in KeptPools PROVE i <= lastUsed /\ Exists(i) /\ \A j \in 0..i : j \in KeptPools
  <2>1. PICK k \in i..lastUsed : ~Idle(k)
    BY <1>2 DEF KeptPools
  <2>2. i \in Nat /\ i <= lastUsed /\ k \in Chunks /\ i \in 0..k
    BY <1>1, <1>2, <2>1 DEF KeptPools, Chunks
  <2>3. Exists(k)
    BY <2>1 DEF Idle
  <2>4. Exists(i)
    BY <2>2, <2>3 DEF PoolsInv, NoHoles, Searched
  <2>5. ASSUME NEW j \in 0..i PROVE j \in KeptPools
    <3>1. j \in Chunks /\ j <= lastUsed /\ k \in j..lastUsed
      BY <1>1, <2>1, <2>2 DEF Chunks
    <3> QED
      BY <2>1, <3>1 DEF KeptPools
  <2> QED
    BY <2>2, <2>4, <2>5
<1>3. ASSUME NEW i \in Chunks \ KeptPools, Exists(i), NEW e \in PoolElements PROVE array[i].boss[e] # "used"
  <2>1. i <= lastUsed /\ i \in i..lastUsed
    BY <1>1, <1>3 DEF PoolsInv, NoHoles, Searched, Chunks
  <2>2. array[i].count["free"] = PoolSize
    BY <1>3, <2>1 DEF KeptPools, Idle
  <2>3. array[i] \in SoundPool
    BY <1>3 DEF PoolsInv, ArrayInv, Exists
  <2>4. PICK w : IsList(array[i], "free", w)
    BY <2>3, PoolIsLoose DEF Lists
  <2>5. /\ w \in [1..PoolSize -> PoolElements] /\ \A j, k \in 1..PoolSize : w[j] = w[k] => j = k
        /\ array[i].boss[e] = "free" <=> \E k \in 1..PoolSize : w[k] = e
    BY <2>2, <2>4 DEF IsList
  <2>6. \E k \in 1..PoolSize : w[k] = e
    BY <2>5, ListIsBounded, SizesAreValid
  <2> QED
    BY <2>5, <2>6
<1> QED
  BY <1>2, <1>3 DEF KeptPools

(* What Shrink does: m_LastUsed stays large enough for what is left.       *)
LEMMA ShrinkIs ==
  ASSUME PoolsInv, Shrink
  PROVE  PoolsInv' /\ InUse' = InUse /\ UNCHANGED result
<1>1. /\ array' = [i \in Chunks |-> IF i <= lastUsed /\ i \notin KeptPools THEN NoPool ELSE array[i]]
      /\ lastUsed' = Larger(Cardinality(KeptPools) - 1, 0) /\ UNCHANGED result
  BY DEF Shrink
<1>2. /\ KeptPools \subseteq Chunks
      /\ \A i \in KeptPools : i <= lastUsed /\ Exists(i) /\ \A j \in 0..i : j \in KeptPools
      /\ \A i \in Chunks \ KeptPools : Exists(i) => \A e \in PoolElements : array[i].boss[e] # "used"
  BY KeptIs
<1>3. ArrayInv'
  BY <1>1 DEF PoolsInv, ArrayInv
<1>4. \A i \in Chunks : (Exists(i)' <=> i \in KeptPools) /\ (i \in KeptPools => array'[i] = array[i])
  <2>1. ASSUME NEW i \in Chunks, i \in KeptPools PROVE array'[i] = array[i] /\ Exists(i)'
    BY <1>1, <1>2, <2>1 DEF Exists
  <2>2. ASSUME NEW i \in Chunks, i \notin KeptPools PROVE ~Exists(i)'
    <3>1. Exists(i) => i <= lastUsed
      BY DEF PoolsInv, NoHoles, Searched
    <3> QED
      BY <1>1, <2>2, <3>1 DEF Exists
  <2> QED
    BY <2>1, <2>2
<1>5. IsFiniteSet(Chunks) /\ Cardinality(Chunks) = CHUNK /\ CHUNK \in Nat /\ CHUNK >= 1
  BY SizesAreValid, FS_Interval DEF Chunks
<1>6. IsFiniteSet(KeptPools) /\ Cardinality(KeptPools) <= CHUNK /\ Cardinality(KeptPools) \in Nat
  BY <1>2, <1>5, FS_Subset, FS_CardinalityType
<1>7. lastUsed' \in Chunks
  BY <1>1, <1>5, <1>6 DEF Larger, Chunks
<1>8. ASSUME NEW i \in KeptPools PROVE i <= lastUsed'
  <2>1. i \in Nat /\ 0..i \subseteq KeptPools
    BY <1>2, <1>5 DEF Chunks
  <2>2. IsFiniteSet(0..i) /\ Cardinality(0..i) = i + 1
    BY <2>1, FS_Interval
  <2>3. i + 1 <= Cardinality(KeptPools)
    BY <1>6, <2>1, <2>2, FS_Subset
  <2> QED
    BY <1>1, <1>6, <2>1, <2>3 DEF Larger
<1>9. NoHoles'
  <2>1. ASSUME NEW i \in Chunks, Exists(i)' PROVE Searched(i)'
    <3>1. i \in KeptPools /\ i <= lastUsed' /\ \A j \in 0..i : j \in KeptPools /\ j \in Chunks
      BY <1>2, <1>4, <1>8, <2>1
    <3> QED
      BY <1>4, <3>1 DEF Searched
  <2> QED
    BY <2>1 DEF NoHoles
<1>10. InUse' = InUse
  <2>1. ASSUME NEW i \in Chunks, NEW e \in PoolElements PROVE <<i, e>> \in InUse' <=> <<i, e>> \in InUse
    <3>1. CASE i \in KeptPools
      BY <1>2, <1>4, <3>1 DEF InUse, Objects
    <3>2. CASE i \notin KeptPools
      BY <1>2, <1>4, <3>2 DEF InUse, Objects
    <3> QED
      BY <3>1, <3>2
  <2>2. InUse \subseteq Chunks \X PoolElements /\ InUse' \subseteq Chunks \X PoolElements
    BY DEF InUse, Objects
  <2> QED
    BY <2>1, <2>2
<1> QED
  BY <1>1, <1>3, <1>7, <1>9, <1>10 DEF PoolsInv

------------------------------------------------------------------------------
(* CAutoMemPool starts with no pool, which is an empty store.              *)
LEMMA InitPools ==
  ASSUME PoolInit
  PROVE  PoolsInv /\ InUse = {} /\ result = Null
<1>1. \A i \in Chunks : ~Exists(i)
  BY DEF PoolInit, Exists
<1>2. 0 \in Chunks
  BY SizesAreValid DEF Chunks
<1>3. PoolsInv
  BY <1>1, <1>2 DEF PoolInit, PoolsInv, ArrayInv, NoHoles
<1>4. InUse = {}
  BY <1>1 DEF InUse, Objects
<1> QED
  BY <1>3, <1>4 DEF PoolInit

(* A step keeps the pools sound, and is a step of the store, or none.      *)
LEMMA PoolsStep ==
  ASSUME PoolsInv, [PoolNext]_poolVars
  PROVE  PoolsInv' /\ [ObjStore!Take \/ ObjStore!Refuse \/ ObjStore!GiveBack]_<<InUse, result>>
<1>1. CASE Allocate
  <2>1. PICK i \in Chunks :
          /\ HasRoom(i) /\ \A j \in Chunks : j < i => ~HasRoom(j)
          /\ array' = [array EXCEPT ![i] = PoolAllocate(Chosen(i))]
          /\ result' = <<i, Chosen(i).first["free"]>> /\ lastUsed' = Larger(lastUsed, i)
    BY <1>1 DEF Allocate, Chosen
  <2>2. PoolsInv' /\ result' \in Objects \ InUse /\ InUse' = InUse \cup {result'}
    BY <2>1, AllocateIs
  <2>3. ObjStore!Take
    BY <2>2 DEF ObjStore!Take
  <2> QED
    BY <2>2, <2>3
<1>2. CASE AllocateFails
  BY <1>2, AllocateFailsIs DEF ObjStore!Refuse
<1>3. ASSUME NEW i \in Chunks, NEW e \in PoolElements, Release(i, e)
      PROVE  PoolsInv' /\ ObjStore!GiveBack
  <2>1. PoolsInv' /\ <<i, e>> \in InUse /\ InUse' = InUse \ {<<i, e>>} /\ UNCHANGED result
    BY <1>3, ReleaseIs DEF Release
  <2> QED
    BY <2>1 DEF ObjStore!GiveBack
<1>4. CASE Shrink
  BY <1>4, ShrinkIs
<1>5. CASE UNCHANGED poolVars
  BY <1>5 DEF poolVars, PoolsInv, ArrayInv, NoHoles, Searched, Exists, InUse
<1> QED
  BY <1>1, <1>2, <1>3, <1>4, <1>5 DEF PoolNext

(* Whatever is taken, given back and shrunk, each chunk has a sound pool   *)
(* or none, and Shrink leaves no hole between the pools.                   *)
THEOREM PoolsInvHolds == PoolSpec => []PoolsInv
BY InitPools, PoolsStep, PTL DEF PoolSpec

(* Every field of every pool keeps its type: no count leaves 0..Size, and  *)
(* every element has a boss between two operations.                        *)
THEOREM TypeIsInvariant == PoolSpec => []PoolTypeOK
BY PoolsInvHolds, PoolsInvImplies, PTL

(* However objects are taken and given back, both lists of each pool can   *)
(* be walked in both directions and have the elements that say so: what    *)
(* Pushback, Popfront and QuickRemoveElement of PoolList promise.          *)
THEOREM ListsStaySound == PoolSpec => []ListsAreSound
BY PoolsInvHolds, PoolsInvImplies, PTL

(* CAutoMemPool::Release finds every object that is in use, whatever       *)
(* pools Shrink has deleted.                                               *)
THEOREM EveryObjectIsFound == PoolSpec => []ReleaseFindsIt
BY PoolsInvHolds, PoolsInvImplies, PTL

(* CAutoMemPool is an object store, of CHUNK * PoolSize objects.           *)
THEOREM PoolImplementsStore == PoolSpec => ImplementsStore
<1>1. PoolInit => ObjStore!StoreInit
  BY InitPools DEF ObjStore!StoreInit
<1>2. PoolsInv /\ [PoolNext]_poolVars => [ObjStore!Take \/ ObjStore!Refuse \/ ObjStore!GiveBack]_<<InUse, result>>
  BY PoolsStep
<1> QED
  BY <1>1, <1>2, PoolsInvHolds, PTL DEF PoolSpec, ImplementsStore, ObjStore!Spec
=============================================================================
