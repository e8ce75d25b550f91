--------------------------- MODULE RPCWriterProofs ---------------------------
(***************************************************************************)
(* What holds of the sending half for every number of threads, peers,      *)
(* packets and addresses.                                                  *)
(*                                                                         *)
(* TypeOK is not inductive: a writer at "pop" reads the queue of the       *)
(* object it holds, so it has to hold one; it got it from the entry under  *)
(* the cursor, so the cursor has to be valid; and the cursor stays valid   *)
(* because the entry a thread is about to erase is not under it, which the *)
(* two mutexes see to.  Inv is the conjunction that is inductive.          *)
(***************************************************************************)
EXTENDS RPCWriter, WellFoundedInduction, TLAPS

(* Where a thread owns the kernel's mutex, and the writer's mutex.         *)
KernelSection == {"scan", "insert", "shut", "advance", "delete", "erase"}
WriterSection == {"check", "lockmap", "scan", "wait", "push"}

(* A mutex is owned by the thread that is in its section; before Start no  *)
(* writer runs.                                                            *)
MutexInv ==
  /\ \A t \in Threads : (pc[t] \in KernelSection) <=> (lockK = t)
  /\ \A t \in Threads : (pc[t] \in WriterSection) <=> (lockW = t)
  /\ pc[Epoll] = "start" => \A w \in Writers : pc[w] = "off"

(* What a thread works on exists: it holds a connection, it has a peer, or *)
(* its peer is in the map and not under the cursor.                        *)
PointerInv ==
  /\ \A t \in Threads :
       /\ pc[t] \in {"send", "pop", "write", "writing", "unmark", "push",
                    "close", "invalidate", "remove"} =>
            held[t] \in Addrs
       /\ pc[t] \in {"add", "insert", "writepacket", "process", "shut", "advance",
                    "delete", "erase"} =>
            peer[t] \in Peers
       /\ pc[t] \in {"shut", "advance", "delete", "erase"} => conns[peer[t]] # Null
       /\ pc[t] \in {"shut", "advance", "delete", "erase"} => t \in Readers \cup Disconnectors
       /\ pc[t] \in {"delete", "erase"} => itNext # peer[t]
  /\ \A a \in Addrs : obj[a].live => obj[a].peer \in Peers

Inv == TypeOK /\ MutexInv /\ PointerInv /\ CursorIsValid

------------------------------------------------------------------------------
(* Facts about the map's iterators *)

(* A non-empty set of peers has a least element.                           *)
LEMMA LeastPeer ==
  ASSUME NEW S, S \subseteq Peers, S # {}, NumPeers \in Nat
  PROVE  \E p \in S : \A q \in S : p <= q
<1>1. S \subseteq Nat
  BY DEF Peers
<1>2. PICK p \in S : \A q \in S : ~(<<q, p>> \in OpToRel(<, Nat))
  BY <1>1, NatLessThanWellFounded, WFMin, Zenon
<1>3. ASSUME NEW q \in S PROVE p <= q
  <2>1. p \in Nat /\ q \in Nat
    BY <1>1
  <2>2. ~(q < p)
    BY <1>2, <2>1 DEF OpToRel
  <2> QED
    BY <2>1, <2>2
<1> QED
  BY <1>3

(* The iterator after k is an entry above k, or end().                     *)
LEMMA AfterIsBeyond ==
  ASSUME NEW k \in Int
  PROVE  After(k) = End \/ (After(k) \in Mapped /\ After(k) > k)
BY DEF After, Mapped, Peers

(* When the map is not empty, the scan has an entry to look at.            *)
LEMMA CursorIsMapped ==
  ASSUME TypeOK, CursorIsValid, Mapped # {}
  PROVE  Cursor \in Mapped
<1>1. CASE itNext # End
  BY <1>1 DEF Cursor, TypeOK, CursorIsValid, Mapped, Peers, End
<1>2. CASE itNext = End
  <2> DEFINE later == {p \in Mapped : p > 0}
  <2>1. later = Mapped
    BY DEF Mapped, Peers
  <2>2. \E p \in later : \A q \in later : p <= q
    BY <2>1, LeastPeer, ParametersAreValid DEF Mapped
  <2>3. After(0) \in later
    BY <2>2 DEF After
  <2> QED
    BY <1>2, <2>1, <2>3 DEF Cursor
<1> QED
  BY <1>1, <1>2
(* A connection object keeps its shape when one of its fields is set.      *)
LEMMA FieldUpdate ==
  ASSUME NEW o \in [Addrs -> Object], NEW a, NEW b \in BOOLEAN
  PROVE  /\ [o EXCEPT ![a].live = b] \in [Addrs -> Object]
         /\ [o EXCEPT ![a].valid = b] \in [Addrs -> Object]
         /\ [o EXCEPT ![a].sending = b] \in [Addrs -> Object]
BY DEF Object

(* ... and when its queue is.                                              *)
LEMMA QueueUpdate ==
  ASSUME NEW o \in [Addrs -> Object], NEW a \in Addrs, NEW s \in Seq(Nat)
  PROVE  [o EXCEPT ![a].out = s] \in [Addrs -> Object]
BY DEF Object

(* The two ends of a queue that is not empty.                              *)
LEMMA HeadAndTail ==
  ASSUME NEW s \in Seq(Nat), s # <<>>
  PROVE  Head(s) \in Nat /\ Tail(s) \in Seq(Nat)
OBVIOUS

(* What one write() takes are units of the packet.                         *)
LEMMA UnitsAreTyped ==
  ASSUME NEW p \in Nat, NEW from \in 0..PackLen, NEW n \in 1..(PackLen - from),
         PackLen \in Nat
  PROVE  Units(p, from, n) \in Seq(Nat \X (1..PackLen))
BY DEF Units

(* A signal moves the sender and at most one sleeping writer.              *)
LEMMA SignalIsTyped ==
  ASSUME pc \in [Threads -> Labels], NEW t \in Threads, NEW l \in Labels,
         Goto(t, l) \/ Signal(t, l)
  PROVE  pc' \in [Threads -> Labels]
BY DEF Goto, Signal, Sleeping, Threads, Labels

(* A push leaves everything but the queue of a connection as it is.        *)
LEMMA PushKeepsObject ==
  ASSUME TypeOK, NEW t \in Apps, Push(t)
  PROVE  \A a \in Addrs : /\ obj'[a].live = obj[a].live
                          /\ obj'[a].peer = obj[a].peer
                          /\ obj'[a].sending = obj[a].sending
<1>1. CASE obj[held[t]].valid
  <2>1. obj' = [obj EXCEPT ![held[t]].out = Append(@, used + 1)]
    BY <1>1 DEF Push
  <2> QED
    BY <2>1 DEF TypeOK, Object
<1>2. CASE ~obj[held[t]].valid
  <2>1. UNCHANGED obj
    BY <1>2, SMTT(30) DEF Push
  <2> QED
    BY <2>1
<1> QED
  BY <1>1, <1>2

(* A new connection takes a free address and a free number.                *)
LEMMA InsertPicks ==
  ASSUME NEW t, Insert(t)
  PROVE  \E a \in Addrs, f \in FDs :
           /\ ~obj[a].live
           /\ socket[f] = Closed
           /\ obj' = [obj EXCEPT ![a] = [live |-> TRUE, peer |-> peer[t], valid |-> TRUE,
                                         sending |-> FALSE, out |-> <<>>, fd |-> f]]
           /\ conns' = [conns EXCEPT ![peer[t]] = a]
           /\ socket' = [g \in FDs |-> IF g = f THEN peer[t]
                                       ELSE IF socket[g] = peer[t] THEN Stray ELSE socket[g]]
BY DEF Insert

(* Every step keeps the types.                                             *)
LEMMA TypeStep ==
  ASSUME Inv, [Next]_vars
  PROVE  TypeOK'
<1> USE ParametersAreValid DEF Inv, TypeOK, Labels, Goto, At, Threads, locks, stopVars, threadVars,
           history, data, Peers, End
<1>0. CASE UNCHANGED vars
  BY <1>0 DEF vars, data
<1>1. ASSUME NEW w \in Writers, LockForScan(w) PROVE TypeOK'
  BY <1>1 DEF LockForScan
<1>2. ASSUME NEW w \in Writers, SeesStop(w) PROVE TypeOK'
  <2>1. /\ \E l \in {"exited", "lockmap"} : pc' = [pc EXCEPT ![w] = l]
        /\ lockW' \in {Null, lockW}
        /\ UNCHANGED <<lockK, data>>
    BY <1>2 DEF SeesStop
  <2>2. pc' \in [Threads -> Labels]
    BY <2>1
  <2> HIDE DEF Labels
  <2> QED
    BY <2>1, <2>2
<1>3. ASSUME NEW w \in Writers, LockMapForScan(w) PROVE TypeOK'
  BY <1>3 DEF LockMapForScan
<1>4. ASSUME NEW w \in Writers, ScanPicks(w) PROVE TypeOK'
  <2>1. Cursor \in Mapped
    BY <1>4, CursorIsMapped DEF ScanPicks
  <2>2. conns[Cursor] \in Addrs /\ Cursor \in Int
    BY <2>1 DEF Mapped
  <2>3. obj' \in [Addrs -> Object]
    <3>1. obj' = [obj EXCEPT ![conns[Cursor]].sending = TRUE]
      BY <1>4 DEF ScanPicks
    <3>2. obj \in [Addrs -> Object]
      OBVIOUS
    <3> QED
      BY <3>1, <3>2, FieldUpdate, Zenon
  <2>4. After(Cursor) \in Peers \cup {End}
    BY <2>2, AfterIsBeyond DEF Mapped
  <2> QED
    BY <1>4, <2>2, <2>3, <2>4 DEF ScanPicks
<1>5. ASSUME NEW w \in Writers, ScanFindsNothing(w) PROVE TypeOK'
  <2>1. itNext' \in Peers \cup {End}
    BY <1>5, CursorIsMapped DEF ScanFindsNothing, Mapped
  <2> QED
    BY <1>5, <2>1 DEF ScanFindsNothing
<1>6. ASSUME NEW w \in Writers, CondWait(w) PROVE TypeOK'
  BY <1>6 DEF CondWait
<1>7. ASSUME NEW w \in Writers, SendRefuses(w) PROVE TypeOK'
  BY <1>7 DEF SendRefuses
<1>8. ASSUME NEW w \in Writers, SendStarts(w) PROVE TypeOK'
  BY <1>8 DEF SendStarts
<1>9. ASSUME NEW w \in Writers, Pop(w) PROVE TypeOK'
  <2>1. held[w] \in Addrs /\ obj[held[w]].out # <<>>
    BY <1>9 DEF Pop, PointerInv
  <2>2. obj[held[w]].out \in Seq(Nat)
    BY <2>1 DEF Object
  <2>3. Head(obj[held[w]].out) \in Nat /\ Tail(obj[held[w]].out) \in Seq(Nat)
    BY <2>1, <2>2, HeadAndTail
  <2>4. obj' \in [Addrs -> Object]
    BY <1>9, <2>1, <2>3, QueueUpdate DEF Pop
  <2>5. pack' \in [Writers -> Nat]
    BY <1>9, <2>3 DEF Pop
  <2>6. 0 \in 0..PackLen
    OBVIOUS
  <2>7. count' \in [Writers -> 0..PackLen]
    BY <1>9, <2>6 DEF Pop
  <2> QED
    BY <1>9, <2>4, <2>5, <2>7 DEF Pop
<1>10. ASSUME NEW w \in Writers, WriteSome(w) PROVE TypeOK'
  <2>1. PICK n \in 1..(PackLen - count[w]) :
          /\ wire' = Written(w, n)
          /\ count' = [count EXCEPT ![w] = @ + n]
          /\ pc' = [pc EXCEPT ![w] = IF count[w] + n = PackLen THEN "unmark" ELSE "write"]
    BY <1>10 DEF WriteSome
  <2>2. Units(pack[w], count[w], n) \in Seq(Nat \X (1..PackLen))
    BY <2>1, UnitsAreTyped
  <2>3. ASSUME NEW q \in Peers
        PROVE  wire[q] \o Units(pack[w], count[w], n) \in Seq(Nat \X (1..PackLen))
    BY <2>2
  <2>4. wire' \in [Peers -> Seq(Nat \X (1..PackLen))]
    BY <2>1, <2>3 DEF Written
  <2>5. count' \in [Writers -> 0..PackLen]
    BY <2>1
  <2> QED
    BY <1>10, <2>1, <2>4, <2>5 DEF WriteSome
<1>11. ASSUME NEW w \in Writers, WriteFails(w) PROVE TypeOK'
  BY <1>11 DEF WriteFails
<1>12. ASSUME NEW w \in Writers, WriteSeesClosed(w) PROVE TypeOK'
  BY <1>12 DEF WriteSeesClosed
<1>13. ASSUME NEW w \in Writers, Unmark(w) PROVE TypeOK'
  <2>1. obj' = [obj EXCEPT ![held[w]].sending = FALSE]
    BY <1>13 DEF Unmark
  <2>2. obj \in [Addrs -> Object]
    OBVIOUS
  <2>3. obj' \in [Addrs -> Object]
    BY <2>1, <2>2, FieldUpdate, Zenon
  <2>4. pack' \in [Writers -> Nat] /\ count' \in [Writers -> 0..PackLen]
    BY <1>13 DEF Unmark
  <2> QED
    BY <1>13, <2>3, <2>4 DEF Unmark
<1>14. ASSUME NEW w \in Writers, ProcessReturns(w) PROVE TypeOK'
  BY <1>14 DEF ProcessReturns
<1>15. ASSUME NEW w \in Writers, SpuriousWakeup(w) PROVE TypeOK'
  BY <1>15 DEF SpuriousWakeup
<1>16. ASSUME NEW t \in Apps, NEW p \in Peers, WriteToConnected(t, p) PROVE TypeOK'
  BY <1>16 DEF WriteToConnected
<1>17. ASSUME NEW t \in Apps, NEW p \in Peers, WriteToUnconnected(t, p) PROVE TypeOK'
  BY <1>17 DEF WriteToUnconnected
<1>18. ASSUME NEW t \in Apps, LockForAdd(t) PROVE TypeOK'
  BY <1>18 DEF LockForAdd
<1>19. ASSUME NEW t \in Apps, Insert(t) PROVE TypeOK'
  <2>1. PICK a \in Addrs, f \in FDs :
          /\ ~obj[a].live
          /\ socket[f] = Closed
          /\ obj' = [obj EXCEPT ![a] = [live |-> TRUE, peer |-> peer[t], valid |-> TRUE,
                                        sending |-> FALSE, out |-> <<>>, fd |-> f]]
          /\ conns' = [conns EXCEPT ![peer[t]] = a]
          /\ socket' = [g \in FDs |-> IF g = f THEN peer[t]
                                      ELSE IF socket[g] = peer[t] THEN Stray ELSE socket[g]]
    <3> HIDE DEF Inv, TypeOK, Labels, Goto, At, Threads, locks, stopVars, threadVars, history,
                 data, Peers, End
    <3> QED
      BY <1>19, InsertPicks, Zenon
  <2>p. peer[t] \in Peers
    BY <1>19 DEF Insert, PointerInv
  <2>2. [live |-> TRUE, peer |-> peer[t], valid |-> TRUE, sending |-> FALSE, out |-> <<>>,
         fd |-> f] \in Object
    BY <2>p DEF Object
  <2>3. obj' \in [Addrs -> Object]
    BY <2>1, <2>2
  <2>4. conns' \in [Peers -> Addrs \cup {Null}]
    BY <2>1
  <2>5. /\ pc' = [pc EXCEPT ![t] = "writepacket"]
        /\ wire' = [wire EXCEPT ![peer[t]] = <<>>]
        /\ lockK' = Null
        /\ UNCHANGED <<lockW, stop, signals, itNext, held, peer, pack, count, used>>
    BY <1>19 DEF Insert
  <2>6. pc' \in [Threads -> Labels]
    BY <2>5
  <2>7. wire' \in [Peers -> Seq(Nat \X (1..PackLen))]
    <3>1. <<>> \in Seq(Nat \X (1..PackLen))
      OBVIOUS
    <3>2. wire \in [Peers -> Seq(Nat \X (1..PackLen))]
      OBVIOUS
    <3> HIDE DEF Inv
    <3> QED
      BY <2>5, <3>1, <3>2
  <2>8. TypeOK
    OBVIOUS
  <2>9. socket' \in [FDs -> Peers \cup {Closed, Stray}]
    BY <2>1, <2>p
  <2> HIDE DEF Labels, Inv
  <2> QED
    BY <2>3, <2>4, <2>5, <2>6, <2>7, <2>8, <2>9
<1>20. ASSUME NEW t \in Apps, InsertNothing(t) PROVE TypeOK'
  BY <1>20 DEF InsertNothing
<1>21. ASSUME NEW t \in Apps, WritePacketFinds(t) PROVE TypeOK'
  <2>1. PICK a \in Lookup(peer[t]) \ {Null} : held' = [held EXCEPT ![t] = a]
    BY <1>21 DEF WritePacketFinds
  <2>2. peer[t] \in Peers
    BY <1>21 DEF WritePacketFinds, PointerInv
  <2>3. a \in Addrs
    BY <2>1, <2>2 DEF Lookup
  <2> QED
    BY <1>21, <2>1, <2>3 DEF WritePacketFinds
<1>22. ASSUME NEW t \in Apps, WritePacketMisses(t) PROVE TypeOK'
  <2> QED
    BY <1>22, SMTT(30) DEF WritePacketMisses
<1>23. ASSUME NEW t \in Apps, Push(t) PROVE TypeOK'
  <2>1. held[t] \in Addrs /\ used' = used + 1 /\ used \in Nat
    BY <1>23 DEF Push, PointerInv
  <2>2. Append(obj[held[t]].out, used + 1) \in Seq(Nat)
    BY <2>1 DEF Object
  <2>3. obj' \in [Addrs -> Object]
    <3>1. CASE obj[held[t]].valid
      <4>1. obj' = [obj EXCEPT ![held[t]].out = Append(@, used + 1)]
        BY <1>23, <3>1 DEF Push
      <4> QED
        BY <4>1, <2>1, <2>2, QueueUpdate
    <3>2. CASE ~obj[held[t]].valid
      BY <1>23, <3>2 DEF Push
    <3> QED
      BY <3>1, <3>2
  <2>5. Goto(t, "idle") \/ Signal(t, "idle")
    BY <1>23 DEF Push
  <2>6. pc' \in [Threads -> Labels]
    BY <2>5, SignalIsTyped
  <2>7. /\ held' = [held EXCEPT ![t] = Null]
        /\ lockW' = Null
        /\ UNCHANGED <<lockK, stop, signals, itNext, conns, peer, pack, count, socket, wire>>
    BY <1>23 DEF Push
  <2>8. held' \in [Threads -> Addrs \cup {Null}] /\ used' \in Nat
    BY <2>1, <2>7
  <2>9. TypeOK
    OBVIOUS
  <2> HIDE DEF Labels, Inv
  <2> QED
    BY <2>3, <2>6, <2>7, <2>8, <2>9
<1>24. ASSUME NEW t \in Readers, NEW p \in Peers, TakeEvent(t, p) PROVE TypeOK'
  BY <1>24 DEF TakeEvent
<1>25. ASSUME NEW t \in Readers \cup Disconnectors, ReaderExits(t) PROVE TypeOK'
  BY <1>25 DEF ReaderExits
<1>26. ASSUME NEW t \in Readers \cup Disconnectors, GetConnection(t) PROVE TypeOK'
  <2>1. PICK a \in Lookup(peer[t]) : /\ held' = [held EXCEPT ![t] = a]
                                     /\ pc' = [pc EXCEPT ![t] = IF a = Null THEN "idle" ELSE "close"]
    BY <1>26 DEF GetConnection
  <2>2. a \in Addrs \cup {Null}
    BY <1>26, <2>1 DEF Lookup, GetConnection, PointerInv
  <2> QED
    BY <1>26, <2>1, <2>2 DEF GetConnection
<1>27. ASSUME NEW t \in Readers \cup Disconnectors, CloseSocket(t) PROVE TypeOK'
  BY <1>27 DEF CloseSocket
<1>28. ASSUME NEW t \in Readers \cup Disconnectors, RemoveFinds(t) PROVE TypeOK'
  BY <1>28 DEF RemoveFinds, PointerInv
<1>29. ASSUME NEW t \in Readers \cup Disconnectors, RemoveFindsNothing(t) PROVE TypeOK'
  BY <1>29 DEF RemoveFindsNothing
<1>30. ASSUME NEW t \in Readers \cup Disconnectors, ConnectionRemoved(t) PROVE TypeOK'
  <2>1. itNext' \in Peers \cup {End}
    BY <1>30, AfterIsBeyond DEF ConnectionRemoved, Mapped
  <2> QED
    BY <1>30, <2>1 DEF ConnectionRemoved
<1>31. ASSUME NEW t \in Readers \cup Disconnectors, Delete(t) PROVE TypeOK'
  <2>1. obj' = [obj EXCEPT ![conns[peer[t]]].live = FALSE]
    BY <1>31 DEF Delete
  <2>2. obj \in [Addrs -> Object]
    OBVIOUS
  <2>3. obj' \in [Addrs -> Object]
    BY <2>1, <2>2, FieldUpdate, Zenon
  <2> QED
    BY <1>31, <2>3 DEF Delete
<1>32. ASSUME NEW t \in Readers \cup Disconnectors, Erase(t) PROVE TypeOK'
  BY <1>32 DEF Erase
<1>33. ASSUME NEW t \in Disconnectors, NEW p \in Peers, Disconnect(t, p) PROVE TypeOK'
  BY <1>33 DEF Disconnect
<1>34. CASE Start
  BY <1>34 DEF Start
<1>35. CASE StopReaders
  BY <1>35 DEF StopReaders
<1>36. CASE JoinReaders
  BY <1>36 DEF JoinReaders
<1>37. CASE StopWriters
  BY <1>37 DEF StopWriters
<1>38. CASE SignalWriter
  <2>1. pc' \in [Threads -> Labels]
    BY <1>38, SignalIsTyped DEF SignalWriter
  <2> HIDE DEF Labels
  <2> QED
    BY <1>38, <2>1, SMTT(30) DEF SignalWriter
<1>39. CASE JoinWriters
  BY <1>39 DEF JoinWriters
<1>40. ASSUME NEW t \in Readers \cup Disconnectors, Invalidate(t) PROVE TypeOK'
  <2>1. obj' = [obj EXCEPT ![held[t]].valid = FALSE]
    BY <1>40 DEF Invalidate
  <2>2. obj \in [Addrs -> Object]
    OBVIOUS
  <2>3. obj' \in [Addrs -> Object]
    BY <2>1, <2>2, FieldUpdate, Zenon
  <2> QED
    BY <1>40, <2>3 DEF Invalidate
<1>41. ASSUME NEW w \in Writers, WriteTest(w) PROVE TypeOK'
  BY <1>41 DEF WriteTest
<1>42. ASSUME NEW t \in Disconnectors, Shut(t) PROVE TypeOK'
  <2>1. obj' = [obj EXCEPT ![conns[peer[t]]].valid = FALSE]
    BY <1>42 DEF Shut
  <2>2. obj \in [Addrs -> Object]
    OBVIOUS
  <2>3. obj' \in [Addrs -> Object]
    BY <2>1, <2>2, FieldUpdate, Zenon
  <2> QED
    BY <1>42, <2>3 DEF Shut
<1> QED
  BY <1>0, <1>1, <1>2, <1>3, <1>4, <1>5, <1>6, <1>7, <1>8, <1>9, <1>10, <1>11,
     <1>12, <1>13, <1>14, <1>15, <1>16, <1>17, <1>18, <1>19, <1>20, <1>21,
     <1>22, <1>23, <1>24, <1>25, <1>26, <1>27, <1>28, <1>29, <1>30, <1>31,
     <1>32, <1>33, <1>34, <1>35, <1>36, <1>37, <1>38, <1>39, <1>40, <1>41, <1>42
     DEF Next, Writer, App, Reader, Removal, Disconnector, EpollThread

(* Every step keeps MutexInv.                                              *)
LEMMA MutexStep ==
  ASSUME Inv, [Next]_vars
  PROVE  MutexInv'
<1>types. /\ pc \in [Threads -> Labels]
          /\ Null \notin Threads
          /\ MutexInv
  BY ParametersAreValid DEF Inv, TypeOK
<1> USE <1>types, ThreadsAreDistinct DEF MutexInv, Goto, At, Threads, KernelSection, WriterSection, locks
<1>0. CASE UNCHANGED vars
  BY <1>0 DEF vars
<1>1. ASSUME NEW w \in Writers, LockForScan(w) PROVE MutexInv'
  BY <1>1 DEF LockForScan
<1>2. ASSUME NEW w \in Writers, SeesStop(w) PROVE MutexInv'
  <2>1. /\ pc[w] = "check" /\ lockK' = lockK
        /\ \/ pc' = [pc EXCEPT ![w] = "exited"] /\ lockW' = Null
           \/ pc' = [pc EXCEPT ![w] = "lockmap"] /\ lockW' = lockW
    BY <1>2 DEF SeesStop
  <2>2. CASE pc' = [pc EXCEPT ![w] = "exited"] /\ lockW' = Null
    BY <2>1, <2>2
  <2>3. CASE pc' = [pc EXCEPT ![w] = "lockmap"] /\ lockW' = lockW
    BY <2>1, <2>3
  <2> QED
    BY <2>1, <2>2, <2>3
<1>3. ASSUME NEW w \in Writers, LockMapForScan(w) PROVE MutexInv'
  BY <1>3 DEF LockMapForScan
<1>4. ASSUME NEW w \in Writers, ScanPicks(w) PROVE MutexInv'
  BY <1>4 DEF ScanPicks
<1>5. ASSUME NEW w \in Writers, ScanFindsNothing(w) PROVE MutexInv'
  BY <1>5 DEF ScanFindsNothing
<1>6. ASSUME NEW w \in Writers, CondWait(w) PROVE MutexInv'
  BY <1>6 DEF CondWait
<1>7. ASSUME NEW w \in Writers, SendRefuses(w) PROVE MutexInv'
  BY <1>7 DEF SendRefuses
<1>8. ASSUME NEW w \in Writers, SendStarts(w) PROVE MutexInv'
  BY <1>8 DEF SendStarts
<1>9. ASSUME NEW w \in Writers, Pop(w) PROVE MutexInv'
  BY <1>9 DEF Pop
<1>10. ASSUME NEW w \in Writers, WriteSome(w) PROVE MutexInv'
  BY <1>10 DEF WriteSome
<1>11. ASSUME NEW w \in Writers, WriteFails(w) PROVE MutexInv'
  BY <1>11 DEF WriteFails
<1>12. ASSUME NEW w \in Writers, WriteSeesClosed(w) PROVE MutexInv'
  BY <1>12 DEF WriteSeesClosed
<1>13. ASSUME NEW w \in Writers, Unmark(w) PROVE MutexInv'
  BY <1>13 DEF Unmark
<1>14. ASSUME NEW w \in Writers, ProcessReturns(w) PROVE MutexInv'
  BY <1>14 DEF ProcessReturns
<1>15. ASSUME NEW w \in Writers, SpuriousWakeup(w) PROVE MutexInv'
  BY <1>15 DEF SpuriousWakeup
<1>16. ASSUME NEW t \in Apps, NEW p \in Peers, WriteToConnected(t, p) PROVE MutexInv'
  BY <1>16 DEF WriteToConnected
<1>17. ASSUME NEW t \in Apps, NEW p \in Peers, WriteToUnconnected(t, p) PROVE MutexInv'
  BY <1>17 DEF WriteToUnconnected
<1>18. ASSUME NEW t \in Apps, LockForAdd(t) PROVE MutexInv'
  BY <1>18 DEF LockForAdd
<1>19. ASSUME NEW t \in Apps, Insert(t) PROVE MutexInv'
  <2>1. /\ pc[t] = "insert"
        /\ pc' = [pc EXCEPT ![t] = "writepacket"]
        /\ lockK' = Null /\ lockW' = lockW
    BY <1>19 DEF Insert
  <2> QED
    BY <2>1
<1>20. ASSUME NEW t \in Apps, InsertNothing(t) PROVE MutexInv'
  BY <1>20 DEF InsertNothing
<1>21. ASSUME NEW t \in Apps, WritePacketFinds(t) PROVE MutexInv'
  BY <1>21 DEF WritePacketFinds
<1>22. ASSUME NEW t \in Apps, WritePacketMisses(t) PROVE MutexInv'
  BY <1>22 DEF WritePacketMisses
<1>23. ASSUME NEW t \in Apps, Push(t) PROVE MutexInv'
  <2>1. /\ pc[t] = "push" /\ lockW' = Null /\ lockK' = lockK
        /\ \/ pc' = [pc EXCEPT ![t] = "idle"]
           \/ \E w \in Writers : pc[w] = "asleep" /\ pc' = [pc EXCEPT ![t] = "idle", ![w] = "woken"]
    BY <1>23 DEF Push, Signal, Sleeping
  <2>2. CASE pc' = [pc EXCEPT ![t] = "idle"]
    BY <2>1, <2>2
  <2>3. ASSUME NEW w \in Writers, pc[w] = "asleep",
               pc' = [pc EXCEPT ![t] = "idle", ![w] = "woken"]
        PROVE  MutexInv'
    BY <2>1, <2>3
  <2> QED
    BY <2>1, <2>2, <2>3
<1>24. ASSUME NEW t \in Readers, NEW p \in Peers, TakeEvent(t, p) PROVE MutexInv'
  BY <1>24 DEF TakeEvent
<1>25. ASSUME NEW t \in Readers \cup Disconnectors, ReaderExits(t) PROVE MutexInv'
  BY <1>25 DEF ReaderExits
<1>26. ASSUME NEW t \in Readers \cup Disconnectors, GetConnection(t) PROVE MutexInv'
  <2>1. PICK l \in {"idle", "close"} : pc' = [pc EXCEPT ![t] = l]
    BY <1>26 DEF GetConnection
  <2>2. pc[t] = "process" /\ lockW' = lockW /\ lockK' = lockK
    BY <1>26 DEF GetConnection
  <2>3. t \in Threads /\ t # Epoll /\ t \notin Writers
    OBVIOUS
  <2>4. \A u \in Threads : pc'[u] = IF u = t THEN l ELSE pc[u]
    BY <2>1
  <2> QED
    BY <2>2, <2>3, <2>4
<1>27. ASSUME NEW t \in Readers \cup Disconnectors, CloseSocket(t) PROVE MutexInv'
  BY <1>27 DEF CloseSocket
<1>28. ASSUME NEW t \in Readers \cup Disconnectors, RemoveFinds(t) PROVE MutexInv'
  BY <1>28 DEF RemoveFinds
<1>29. ASSUME NEW t \in Readers \cup Disconnectors, RemoveFindsNothing(t) PROVE MutexInv'
  BY <1>29 DEF RemoveFindsNothing
<1>30. ASSUME NEW t \in Readers \cup Disconnectors, ConnectionRemoved(t) PROVE MutexInv'
  BY <1>30 DEF ConnectionRemoved
<1>31. ASSUME NEW t \in Readers \cup Disconnectors, Delete(t) PROVE MutexInv'
  BY <1>31 DEF Delete
<1>32. ASSUME NEW t \in Readers \cup Disconnectors, Erase(t) PROVE MutexInv'
  <2>1. /\ pc[t] = "erase" /\ lockK' = Null /\ lockW' = lockW
        /\ pc' = [pc EXCEPT ![t] = "idle"]
    BY <1>32 DEF Erase
  <2>2. t \in Threads /\ t # Epoll /\ t \notin Writers
    OBVIOUS
  <2>3. \A u \in Threads : pc'[u] = IF u = t THEN "idle" ELSE pc[u]
    BY <2>1
  <2> QED
    BY <2>1, <2>2, <2>3
<1>33. ASSUME NEW t \in Disconnectors, NEW p \in Peers, Disconnect(t, p) PROVE MutexInv'
  BY <1>33 DEF Disconnect
<1>34. CASE Start
  BY <1>34 DEF Start
<1>35. CASE StopReaders
  BY <1>35 DEF StopReaders
<1>36. CASE JoinReaders
  BY <1>36 DEF JoinReaders
<1>37. CASE StopWriters
  BY <1>37 DEF StopWriters
<1>38. CASE SignalWriter
  <2>1. /\ pc[Epoll] = "signal" /\ lockW' = lockW /\ lockK' = lockK
        /\ \E l \in {"signal", "joinwriters"} :
             \/ pc' = [pc EXCEPT ![Epoll] = l]
             \/ \E w \in Writers : pc[w] = "asleep" /\ pc' = [pc EXCEPT ![Epoll] = l, ![w] = "woken"]
    BY <1>38 DEF SignalWriter, Signal, Sleeping
  <2>2. ASSUME NEW l \in {"signal", "joinwriters"}, pc' = [pc EXCEPT ![Epoll] = l]
        PROVE  MutexInv'
    BY <2>1, <2>2
  <2>3. ASSUME NEW l \in {"signal", "joinwriters"}, NEW w \in Writers, pc[w] = "asleep",
               pc' = [pc EXCEPT ![Epoll] = l, ![w] = "woken"]
        PROVE  MutexInv'
    BY <2>1, <2>3
  <2> QED
    BY <2>1, <2>2, <2>3
<1>39. CASE JoinWriters
  <2>1. /\ pc[Epoll] = "joinwriters" /\ lockW' = lockW /\ lockK' = lockK
        /\ pc' = [pc EXCEPT ![Epoll] = "off"]
    BY <1>39, SMTT(30) DEF JoinWriters
  <2> QED
    BY <2>1
<1>40. ASSUME NEW t \in Readers \cup Disconnectors, Invalidate(t) PROVE MutexInv'
  BY <1>40 DEF Invalidate
<1>41. ASSUME NEW w \in Writers, WriteTest(w) PROVE MutexInv'
  BY <1>41 DEF WriteTest
<1>42. ASSUME NEW t \in Disconnectors, Shut(t) PROVE MutexInv'
  BY <1>42 DEF Shut
<1> QED
  BY <1>0, <1>1, <1>2, <1>3, <1>4, <1>5, <1>6, <1>7, <1>8, <1>9, <1>10, <1>11,
     <1>12, <1>13, <1>14, <1>15, <1>16, <1>17, <1>18, <1>19, <1>20, <1>21,
     <1>22, <1>23, <1>24, <1>25, <1>26, <1>27, <1>28, <1>29, <1>30, <1>31,
     <1>32, <1>33, <1>34, <1>35, <1>36, <1>37, <1>38, <1>39, <1>40, <1>41, <1>42
     DEF Next, Writer, App, Reader, Removal, Disconnector, EpollThread

(* Every step keeps PointerInv.                                            *)
LEMMA PointerStep ==
  ASSUME Inv, [Next]_vars
  PROVE  PointerInv'
<1>types. /\ pc \in [Threads -> Labels]
          /\ held \in [Threads -> Addrs \cup {Null}]
          /\ peer \in [Threads -> Peers \cup {0}]
          /\ conns \in [Peers -> Addrs \cup {Null}]
          /\ obj \in [Addrs -> Object]
          /\ itNext \in Peers \cup {End}
          /\ Null \notin Threads /\ Null \notin Addrs
  BY ParametersAreValid DEF Inv, TypeOK
<1>mutex. \A t, u \in Threads : pc[t] \in KernelSection /\ pc[u] \in KernelSection => t = u
  BY <1>types DEF Inv, MutexInv
<1>pointers. PointerInv
  BY DEF Inv
<1> USE <1>types, <1>mutex, <1>pointers, ThreadsAreDistinct
    DEF PointerInv, Goto, At, Threads, KernelSection, locks, threadVars, data
<1>0. CASE UNCHANGED vars
  BY <1>0 DEF vars
<1>1. ASSUME NEW w \in Writers, LockForScan(w) PROVE PointerInv'
  BY <1>1 DEF LockForScan
<1>2. ASSUME NEW w \in Writers, SeesStop(w) PROVE PointerInv'
  BY <1>2 DEF SeesStop
<1>3. ASSUME NEW w \in Writers, LockMapForScan(w) PROVE PointerInv'
  BY <1>3 DEF LockMapForScan
<1>4. ASSUME NEW w \in Writers, ScanPicks(w) PROVE PointerInv'
  <2>1. Cursor \in Mapped
    BY <1>4, CursorIsMapped DEF ScanPicks, Inv
  <2>2. conns[Cursor] \in Addrs
    BY <2>1 DEF Mapped
  <2>3. /\ pc[w] = "scan" /\ pc' = [pc EXCEPT ![w] = "send"]
        /\ held' = [held EXCEPT ![w] = conns[Cursor]]
        /\ UNCHANGED <<conns, peer>>
    BY <1>4 DEF ScanPicks
  <2>4. \A a \in Addrs : obj'[a].live = obj[a].live /\ obj'[a].peer = obj[a].peer
    BY <1>4 DEF ScanPicks, Object
  <2>5. \A t \in Threads : pc[t] \notin {"advance", "delete", "erase"}
    BY <2>3
  <2> QED
    BY <2>2, <2>3, <2>4, <2>5
<1>5. ASSUME NEW w \in Writers, ScanFindsNothing(w) PROVE PointerInv'
  BY <1>5 DEF ScanFindsNothing
<1>6. ASSUME NEW w \in Writers, CondWait(w) PROVE PointerInv'
  BY <1>6 DEF CondWait
<1>7. ASSUME NEW w \in Writers, SendRefuses(w) PROVE PointerInv'
  BY <1>7 DEF SendRefuses
<1>8. ASSUME NEW w \in Writers, SendStarts(w) PROVE PointerInv'
  BY <1>8 DEF SendStarts
<1>9. ASSUME NEW w \in Writers, Pop(w) PROVE PointerInv'
  <2>1. /\ pc[w] = "pop" /\ pc' = [pc EXCEPT ![w] = "write"]
        /\ UNCHANGED <<conns, peer, held, itNext>>
    BY <1>9 DEF Pop
  <2>2. \A a \in Addrs : obj'[a].live = obj[a].live /\ obj'[a].peer = obj[a].peer
    BY <1>9 DEF Pop, Object
  <2> QED
    BY <2>1, <2>2
<1>10. ASSUME NEW w \in Writers, WriteSome(w) PROVE PointerInv'
  BY <1>10 DEF WriteSome
<1>11. ASSUME NEW w \in Writers, WriteFails(w) PROVE PointerInv'
  BY <1>11 DEF WriteFails
<1>12. ASSUME NEW w \in Writers, WriteSeesClosed(w) PROVE PointerInv'
  BY <1>12 DEF WriteSeesClosed
<1>13. ASSUME NEW w \in Writers, Unmark(w) PROVE PointerInv'
  BY <1>13 DEF Unmark, Object
<1>14. ASSUME NEW w \in Writers, ProcessReturns(w) PROVE PointerInv'
  BY <1>14 DEF ProcessReturns
<1>15. ASSUME NEW w \in Writers, SpuriousWakeup(w) PROVE PointerInv'
  BY <1>15 DEF SpuriousWakeup
<1>16. ASSUME NEW t \in Apps, NEW p \in Peers, WriteToConnected(t, p) PROVE PointerInv'
  BY <1>16 DEF WriteToConnected
<1>17. ASSUME NEW t \in Apps, NEW p \in Peers, WriteToUnconnected(t, p) PROVE PointerInv'
  BY <1>17 DEF WriteToUnconnected
<1>18. ASSUME NEW t \in Apps, LockForAdd(t) PROVE PointerInv'
  BY <1>18 DEF LockForAdd
<1>19. ASSUME NEW t \in Apps, Insert(t) PROVE PointerInv'
  BY <1>19 DEF Insert, Object
<1>20. ASSUME NEW t \in Apps, InsertNothing(t) PROVE PointerInv'
  BY <1>20 DEF InsertNothing
<1>21. ASSUME NEW t \in Apps, WritePacketFinds(t) PROVE PointerInv'
  <2>1. peer[t] \in Peers
    BY <1>21 DEF WritePacketFinds
  <2>2. PICK a \in Lookup(peer[t]) \ {Null} : held' = [held EXCEPT ![t] = a]
    BY <1>21 DEF WritePacketFinds
  <2>3. a \in Addrs
    BY <2>1, <2>2 DEF Lookup
  <2>4. /\ pc[t] = "writepacket" /\ pc' = [pc EXCEPT ![t] = "push"]
        /\ peer' = [peer EXCEPT ![t] = 0]
        /\ UNCHANGED <<conns, itNext, obj>>
    BY <1>21 DEF WritePacketFinds
  <2> QED
    BY <2>2, <2>3, <2>4
<1>22. ASSUME NEW t \in Apps, WritePacketMisses(t) PROVE PointerInv'
  BY <1>22 DEF WritePacketMisses
<1>23. ASSUME NEW t \in Apps, Push(t) PROVE PointerInv'
  <2>1. /\ pc[t] = "push" /\ held' = [held EXCEPT ![t] = Null]
        /\ UNCHANGED <<conns, itNext, peer>>
        /\ \/ pc' = [pc EXCEPT ![t] = "idle"]
           \/ \E w \in Writers : pc[w] = "asleep" /\ pc' = [pc EXCEPT ![t] = "idle", ![w] = "woken"]
    BY <1>23 DEF Push, Signal, Sleeping
  <2>2. \A a \in Addrs : obj'[a].live = obj[a].live /\ obj'[a].peer = obj[a].peer
    BY <1>23, PushKeepsObject DEF Inv
  <2> QED
    BY <2>1, <2>2
<1>24. ASSUME NEW t \in Readers, NEW p \in Peers, TakeEvent(t, p) PROVE PointerInv'
  BY <1>24 DEF TakeEvent
<1>25. ASSUME NEW t \in Readers \cup Disconnectors, ReaderExits(t) PROVE PointerInv'
  BY <1>25 DEF ReaderExits
<1>26. ASSUME NEW t \in Readers \cup Disconnectors, GetConnection(t) PROVE PointerInv'
  <2>1. peer[t] \in Peers
    BY <1>26 DEF GetConnection
  <2>2. PICK a \in Lookup(peer[t]) : /\ held' = [held EXCEPT ![t] = a]
                                     /\ pc' = [pc EXCEPT ![t] = IF a = Null THEN "idle" ELSE "close"]
    BY <1>26 DEF GetConnection
  <2>3. a \in Addrs \cup {Null}
    BY <2>1, <2>2 DEF Lookup
  <2>4. /\ pc[t] = "process"
        /\ peer' = [peer EXCEPT ![t] = 0]
        /\ UNCHANGED <<conns, itNext, obj>>
    BY <1>26 DEF GetConnection
  <2> QED
    BY <2>2, <2>3, <2>4
<1>27. ASSUME NEW t \in Readers \cup Disconnectors, CloseSocket(t) PROVE PointerInv'
  BY <1>27 DEF CloseSocket
<1>28. ASSUME NEW t \in Readers \cup Disconnectors, RemoveFinds(t) PROVE PointerInv'
  BY <1>28 DEF RemoveFinds
<1>29. ASSUME NEW t \in Readers \cup Disconnectors, RemoveFindsNothing(t) PROVE PointerInv'
  BY <1>29 DEF RemoveFindsNothing
<1>30. ASSUME NEW t \in Readers \cup Disconnectors, ConnectionRemoved(t) PROVE PointerInv'
  <2>1. /\ pc[t] = "advance" /\ pc' = [pc EXCEPT ![t] = "delete"]
        /\ itNext' = IF itNext = peer[t] THEN After(itNext) ELSE itNext
        /\ UNCHANGED <<conns, obj, held, peer>>
    BY <1>30 DEF ConnectionRemoved
  <2>2. peer[t] \in Peers
    BY <2>1
  <2>3. itNext' # peer[t]
    <3>1. peer[t] \in Int /\ peer[t] < End
      BY <2>2, ParametersAreValid DEF Peers, End
    <3>2. After(peer[t]) = End \/ After(peer[t]) > peer[t]
      BY <3>1, AfterIsBeyond
    <3> QED
      BY <2>1, <3>1, <3>2
  <2>4. \A u \in Threads : pc[u] \in {"delete", "erase"} => u = t
    BY <2>1
  <2> QED
    BY <2>1, <2>3, <2>4
<1>31. ASSUME NEW t \in Readers \cup Disconnectors, Delete(t) PROVE PointerInv'
  BY <1>31 DEF Delete, Object
<1>32. ASSUME NEW t \in Readers \cup Disconnectors, Erase(t) PROVE PointerInv'
  <2>1. /\ pc[t] = "erase" /\ pc' = [pc EXCEPT ![t] = "idle"]
        /\ conns' = [conns EXCEPT ![peer[t]] = Null]
        /\ peer' = [peer EXCEPT ![t] = 0]
        /\ UNCHANGED <<itNext, obj, held>>
    BY <1>32 DEF Erase
  <2>2. \A u \in Threads : pc[u] \in {"advance", "delete", "erase"} => u = t
    BY <2>1
  <2> QED
    BY <2>1, <2>2
<1>33. ASSUME NEW t \in Disconnectors, NEW p \in Peers, Disconnect(t, p) PROVE PointerInv'
  BY <1>33 DEF Disconnect
<1>34. CASE Start
  <2>1. /\ \A t \in Threads : pc'[t] # pc[t] => pc'[t] \in {"next", "loop"}
        /\ UNCHANGED <<itNext, conns, obj, held, peer>>
    BY <1>34 DEF Start
  <2> QED
    BY <2>1
<1>35. CASE StopReaders
  <2>1. /\ pc' = [pc EXCEPT ![Epoll] = "joinreaders"]
        /\ UNCHANGED <<itNext, conns, obj, held, peer>>
    BY <1>35 DEF StopReaders
  <2> QED
    BY <2>1
<1>36. CASE JoinReaders
  BY <1>36 DEF JoinReaders
<1>37. CASE StopWriters
  BY <1>37 DEF StopWriters
<1>38. CASE SignalWriter
  BY <1>38 DEF SignalWriter, Signal, Sleeping
<1>39. CASE JoinWriters
  BY <1>39 DEF JoinWriters
<1>40. ASSUME NEW t \in Readers \cup Disconnectors, Invalidate(t) PROVE PointerInv'
  BY <1>40 DEF Invalidate, Object
<1>41. ASSUME NEW w \in Writers, WriteTest(w) PROVE PointerInv'
  BY <1>41 DEF WriteTest
<1>42. ASSUME NEW t \in Disconnectors, Shut(t) PROVE PointerInv'
  BY <1>42 DEF Shut, Object
<1> QED
  BY <1>0, <1>1, <1>2, <1>3, <1>4, <1>5, <1>6, <1>7, <1>8, <1>9, <1>10, <1>11,
     <1>12, <1>13, <1>14, <1>15, <1>16, <1>17, <1>18, <1>19, <1>20, <1>21,
     <1>22, <1>23, <1>24, <1>25, <1>26, <1>27, <1>28, <1>29, <1>30, <1>31,
     <1>32, <1>33, <1>34, <1>35, <1>36, <1>37, <1>38, <1>39, <1>40, <1>41, <1>42
     DEF Next, Writer, App, Reader, Removal, Disconnector, EpollThread

(* Every step keeps the cursor valid.                                      *)
LEMMA CursorStep ==
  ASSUME Inv, [Next]_vars
  PROVE  CursorIsValid'
<1>types. /\ pc \in [Threads -> Labels]
          /\ peer \in [Threads -> Peers \cup {0}]
          /\ conns \in [Peers -> Addrs \cup {Null}]
          /\ itNext \in Peers \cup {End}
          /\ Null \notin Threads /\ Null \notin Addrs
  BY ParametersAreValid DEF Inv, TypeOK
<1>mutex. \A t, u \in Threads : pc[t] \in KernelSection /\ pc[u] \in KernelSection => t = u
  BY <1>types DEF Inv, MutexInv
<1>cursor. CursorIsValid
  BY DEF Inv
<1> USE <1>types, <1>mutex, <1>cursor DEF CursorIsValid, Goto, At, Threads, KernelSection, data
<1>0. CASE UNCHANGED vars
  BY <1>0 DEF vars
<1>1. ASSUME NEW w \in Writers, LockForScan(w) PROVE CursorIsValid'
  BY <1>1 DEF LockForScan
<1>2. ASSUME NEW w \in Writers, SeesStop(w) PROVE CursorIsValid'
  BY <1>2 DEF SeesStop
<1>3. ASSUME NEW w \in Writers, LockMapForScan(w) PROVE CursorIsValid'
  BY <1>3 DEF LockMapForScan
<1>4. ASSUME NEW w \in Writers, ScanPicks(w) PROVE CursorIsValid'
  <2>1. Cursor \in Mapped
    BY <1>4, CursorIsMapped DEF Inv, ScanPicks
  <2>2. After(Cursor) = End \/ After(Cursor) \in Mapped
    BY <2>1, AfterIsBeyond DEF Mapped, Peers
  <2> QED
    BY <1>4, <2>2 DEF ScanPicks, Mapped, End
<1>5. ASSUME NEW w \in Writers, ScanFindsNothing(w) PROVE CursorIsValid'
  <2>1. Mapped # {} => Cursor \in Mapped
    BY CursorIsMapped DEF Inv
  <2> QED
    BY <1>5, <2>1 DEF ScanFindsNothing, Mapped, End
<1>6. ASSUME NEW w \in Writers, CondWait(w) PROVE CursorIsValid'
  BY <1>6 DEF CondWait
<1>7. ASSUME NEW w \in Writers, SendRefuses(w) PROVE CursorIsValid'
  BY <1>7 DEF SendRefuses
<1>8. ASSUME NEW w \in Writers, SendStarts(w) PROVE CursorIsValid'
  BY <1>8 DEF SendStarts
<1>9. ASSUME NEW w \in Writers, Pop(w) PROVE CursorIsValid'
  BY <1>9 DEF Pop
<1>10. ASSUME NEW w \in Writers, WriteSome(w) PROVE CursorIsValid'
  BY <1>10 DEF WriteSome
<1>11. ASSUME NEW w \in Writers, WriteFails(w) PROVE CursorIsValid'
  BY <1>11 DEF WriteFails
<1>12. ASSUME NEW w \in Writers, WriteSeesClosed(w) PROVE CursorIsValid'
  BY <1>12 DEF WriteSeesClosed
<1>13. ASSUME NEW w \in Writers, Unmark(w) PROVE CursorIsValid'
  BY <1>13 DEF Unmark
<1>14. ASSUME NEW w \in Writers, ProcessReturns(w) PROVE CursorIsValid'
  BY <1>14 DEF ProcessReturns
<1>15. ASSUME NEW w \in Writers, SpuriousWakeup(w) PROVE CursorIsValid'
  BY <1>15 DEF SpuriousWakeup
<1>16. ASSUME NEW t \in Apps, NEW p \in Peers, WriteToConnected(t, p) PROVE CursorIsValid'
  BY <1>16 DEF WriteToConnected
<1>17. ASSUME NEW t \in Apps, NEW p \in Peers, WriteToUnconnected(t, p) PROVE CursorIsValid'
  BY <1>17 DEF WriteToUnconnected
<1>18. ASSUME NEW t \in Apps, LockForAdd(t) PROVE CursorIsValid'
  BY <1>18 DEF LockForAdd
<1>19. ASSUME NEW t \in Apps, Insert(t) PROVE CursorIsValid'
  BY <1>19 DEF Insert
<1>20. ASSUME NEW t \in Apps, InsertNothing(t) PROVE CursorIsValid'
  BY <1>20 DEF InsertNothing
<1>21. ASSUME NEW t \in Apps, WritePacketFinds(t) PROVE CursorIsValid'
  BY <1>21 DEF WritePacketFinds
<1>22. ASSUME NEW t \in Apps, WritePacketMisses(t) PROVE CursorIsValid'
  BY <1>22 DEF WritePacketMisses
<1>23. ASSUME NEW t \in Apps, Push(t) PROVE CursorIsValid'
  BY <1>23 DEF Push, Signal, Sleeping
<1>24. ASSUME NEW t \in Readers, NEW p \in Peers, TakeEvent(t, p) PROVE CursorIsValid'
  BY <1>24 DEF TakeEvent
<1>25. ASSUME NEW t \in Readers \cup Disconnectors, ReaderExits(t) PROVE CursorIsValid'
  BY <1>25 DEF ReaderExits
<1>26. ASSUME NEW t \in Readers \cup Disconnectors, GetConnection(t) PROVE CursorIsValid'
  BY <1>26 DEF GetConnection
<1>27. ASSUME NEW t \in Readers \cup Disconnectors, CloseSocket(t) PROVE CursorIsValid'
  BY <1>27 DEF CloseSocket
<1>28. ASSUME NEW t \in Readers \cup Disconnectors, RemoveFinds(t) PROVE CursorIsValid'
  BY <1>28 DEF RemoveFinds
<1>29. ASSUME NEW t \in Readers \cup Disconnectors, RemoveFindsNothing(t) PROVE CursorIsValid'
  BY <1>29 DEF RemoveFindsNothing
<1>30. ASSUME NEW t \in Readers \cup Disconnectors, ConnectionRemoved(t) PROVE CursorIsValid'
  <2>1. After(itNext) = End \/ After(itNext) \in Mapped
    BY AfterIsBeyond DEF Peers, End
  <2> QED
    BY <1>30, <2>1 DEF ConnectionRemoved, Mapped, End
<1>31. ASSUME NEW t \in Readers \cup Disconnectors, Delete(t) PROVE CursorIsValid'
  BY <1>31 DEF Delete
<1>32. ASSUME NEW t \in Readers \cup Disconnectors, Erase(t) PROVE CursorIsValid'
  BY <1>32 DEF Erase, Inv, PointerInv
<1>33. ASSUME NEW t \in Disconnectors, NEW p \in Peers, Disconnect(t, p) PROVE CursorIsValid'
  BY <1>33 DEF Disconnect
<1>34. CASE Start
  BY <1>34 DEF Start
<1>35. CASE StopReaders
  BY <1>35 DEF StopReaders
<1>36. CASE JoinReaders
  BY <1>36 DEF JoinReaders
<1>37. CASE StopWriters
  BY <1>37 DEF StopWriters
<1>38. CASE SignalWriter
  BY <1>38 DEF SignalWriter, Signal, Sleeping
<1>39. CASE JoinWriters
  BY <1>39 DEF JoinWriters
<1>40. ASSUME NEW t \in Readers \cup Disconnectors, Invalidate(t) PROVE CursorIsValid'
  BY <1>40 DEF Invalidate
<1>41. ASSUME NEW w \in Writers, WriteTest(w) PROVE CursorIsValid'
  BY <1>41 DEF WriteTest
<1>42. ASSUME NEW t \in Disconnectors, Shut(t) PROVE CursorIsValid'
  BY <1>42 DEF Shut
<1> QED
  BY <1>0, <1>1, <1>2, <1>3, <1>4, <1>5, <1>6, <1>7, <1>8, <1>9, <1>10, <1>11,
     <1>12, <1>13, <1>14, <1>15, <1>16, <1>17, <1>18, <1>19, <1>20, <1>21,
     <1>22, <1>23, <1>24, <1>25, <1>26, <1>27, <1>28, <1>29, <1>30, <1>31,
     <1>32, <1>33, <1>34, <1>35, <1>36, <1>37, <1>38, <1>39, <1>40, <1>41, <1>42
     DEF Next, Writer, App, Reader, Removal, Disconnector, EpollThread
------------------------------------------------------------------------------
(* The invariant, and what follows from it *)

(* The initial state satisfies the invariant.                              *)
LEMMA InvInit == Init => Inv
<1> SUFFICES ASSUME Init PROVE Inv
  OBVIOUS
<1> USE ParametersAreValid, ThreadsAreDistinct DEF Init, Threads, Peers, End
<1>1. TypeOK
  <2>1. NoObject \in Object
    BY DEF NoObject, Object
  <2>2. obj \in [Addrs -> Object]
    BY <2>1
  <2>3. pc \in [Threads -> Labels]
    BY DEF Labels
  <2>4. wire \in [Peers -> Seq(Nat \X (1..PackLen))] /\ socket \in [FDs -> Peers \cup {Closed, Stray}]
    OBVIOUS
  <2>5. pack \in [Writers -> Nat] /\ count \in [Writers -> 0..PackLen] /\ signals \in Nat
    OBVIOUS
  <2>6. /\ lockW \in Threads \cup {Null} /\ lockK \in Threads \cup {Null}
        /\ stop \in BOOLEAN /\ itNext \in Peers \cup {End} /\ used \in Nat
        /\ conns \in [Peers -> Addrs \cup {Null}]
        /\ held \in [Threads -> Addrs \cup {Null}]
        /\ peer \in [Threads -> Peers \cup {0}]
    OBVIOUS
  <2> HIDE DEF Init
  <2> QED
    BY <2>2, <2>3, <2>4, <2>5, <2>6 DEF TypeOK
<1>2. MutexInv
  BY DEF MutexInv, KernelSection, WriterSection
<1>3. PointerInv
  BY DEF PointerInv, NoObject
<1>4. CursorIsValid
  BY DEF CursorIsValid
<1> QED
  BY <1>1, <1>2, <1>3, <1>4 DEF Inv

(* The invariant holds in every reachable state.                           *)
THEOREM InvHolds == Spec => []Inv
<1>1. Inv /\ [Next]_vars => Inv'
  BY TypeStep, MutexStep, PointerStep, CursorStep DEF Inv
<1> QED
  BY InvInit, <1>1, PTL DEF Spec

(* Every variable keeps its type, whatever the threads do: a writer never  *)
(* takes a packet through a null pointer (CRPCConnection::Send).           *)
THEOREM TypeCorrect == Spec => []TypeOK
BY InvHolds, PTL DEF Inv

(* m_ItNext never dangles: additions, removals by readers and by callers   *)
(* of Disconnect leave it at an entry of the map or at end(), so the       *)
(* scan's dereference is safe (GetConnectionAndWrite, ConnectionRemoved).  *)
THEOREM CursorAlwaysValid == Spec => []CursorIsValid
BY InvHolds, PTL DEF Inv

------------------------------------------------------------------------------
(* The map of connections *)

(* An entry of the map leads to a live object of its peer, except while    *)
(* the thread that has deleted the object is about to erase the entry.     *)
MapInv ==
  \A p \in Peers : conns[p] # Null =>
    /\ obj[conns[p]].peer = p
    /\ obj[conns[p]].live \/ \E t \in Threads : pc[t] = "erase" /\ peer[t] = p

(* A step that neither adds, deletes nor erases keeps the map sound.       *)
LEMMA MapFrame ==
  ASSUME TypeOK, MapInv, UNCHANGED conns,
         \A a \in Addrs : obj'[a].live = obj[a].live /\ obj'[a].peer = obj[a].peer,
         \A t \in Threads : pc[t] = "erase" => pc'[t] = "erase" /\ peer'[t] = peer[t]
  PROVE  MapInv'
<1> SUFFICES ASSUME NEW p \in Peers, conns[p] # Null
             PROVE  /\ obj'[conns[p]].peer = p
                    /\ obj'[conns[p]].live \/ \E t \in Threads : pc'[t] = "erase" /\ peer'[t] = p
  BY DEF MapInv
<1>1. conns[p] \in Addrs
  BY DEF TypeOK
<1> QED
  BY <1>1 DEF MapInv

(* Every step keeps the map sound.                                         *)
LEMMA MapStep ==
  ASSUME Inv, MapInv, [Next]_vars
  PROVE  MapInv'
<1>types. /\ pc \in [Threads -> Labels]
          /\ held \in [Threads -> Addrs \cup {Null}]
          /\ peer \in [Threads -> Peers \cup {0}]
          /\ conns \in [Peers -> Addrs \cup {Null}]
          /\ obj \in [Addrs -> Object]
          /\ itNext \in Peers \cup {End}
          /\ Null \notin Threads /\ Null \notin Addrs
  BY ParametersAreValid DEF Inv, TypeOK
<1>mutex. \A t, u \in Threads : pc[t] \in KernelSection /\ pc[u] \in KernelSection => t = u
  BY <1>types DEF Inv, MutexInv
<1>pointers. TypeOK /\ PointerInv
  BY DEF Inv
<1> USE <1>types, <1>mutex, <1>pointers DEF Goto, At, Threads, KernelSection, locks, threadVars, data
<1>0. CASE UNCHANGED vars
  BY <1>0 DEF vars, MapInv
<1>1. ASSUME NEW w \in Writers, LockForScan(w) PROVE MapInv'
  BY <1>1, MapFrame DEF LockForScan
<1>2. ASSUME NEW w \in Writers, SeesStop(w) PROVE MapInv'
  BY <1>2, MapFrame DEF SeesStop
<1>3. ASSUME NEW w \in Writers, LockMapForScan(w) PROVE MapInv'
  BY <1>3, MapFrame DEF LockMapForScan
<1>4. ASSUME NEW w \in Writers, ScanPicks(w) PROVE MapInv'
  BY <1>4, MapFrame DEF ScanPicks, Object
<1>5. ASSUME NEW w \in Writers, ScanFindsNothing(w) PROVE MapInv'
  BY <1>5, MapFrame DEF ScanFindsNothing
<1>6. ASSUME NEW w \in Writers, CondWait(w) PROVE MapInv'
  BY <1>6, MapFrame DEF CondWait
<1>7. ASSUME NEW w \in Writers, SendRefuses(w) PROVE MapInv'
  BY <1>7, MapFrame DEF SendRefuses
<1>8. ASSUME NEW w \in Writers, SendStarts(w) PROVE MapInv'
  BY <1>8, MapFrame DEF SendStarts
<1>9. ASSUME NEW w \in Writers, Pop(w) PROVE MapInv'
  BY <1>9, MapFrame DEF Pop, Object
<1>10. ASSUME NEW w \in Writers, WriteSome(w) PROVE MapInv'
  BY <1>10, MapFrame DEF WriteSome
<1>11. ASSUME NEW w \in Writers, WriteFails(w) PROVE MapInv'
  BY <1>11, MapFrame DEF WriteFails
<1>12. ASSUME NEW w \in Writers, WriteSeesClosed(w) PROVE MapInv'
  BY <1>12, MapFrame DEF WriteSeesClosed
<1>13. ASSUME NEW w \in Writers, Unmark(w) PROVE MapInv'
  BY <1>13, MapFrame DEF Unmark, Object
<1>14. ASSUME NEW w \in Writers, ProcessReturns(w) PROVE MapInv'
  BY <1>14, MapFrame DEF ProcessReturns
<1>15. ASSUME NEW w \in Writers, SpuriousWakeup(w) PROVE MapInv'
  BY <1>15, MapFrame DEF SpuriousWakeup
<1>16. ASSUME NEW t \in Apps, NEW p \in Peers, WriteToConnected(t, p) PROVE MapInv'
  BY <1>16, MapFrame DEF WriteToConnected
<1>17. ASSUME NEW t \in Apps, NEW p \in Peers, WriteToUnconnected(t, p) PROVE MapInv'
  BY <1>17, MapFrame DEF WriteToUnconnected
<1>18. ASSUME NEW t \in Apps, LockForAdd(t) PROVE MapInv'
  BY <1>18, MapFrame DEF LockForAdd
<1>19. ASSUME NEW t \in Apps, Insert(t) PROVE MapInv'
  <2> USE DEF PointerInv, Object
  <2>1. PICK a \in Addrs, f \in FDs :
          /\ ~obj[a].live
          /\ obj' = [obj EXCEPT ![a] = [live |-> TRUE, peer |-> peer[t], valid |-> TRUE,
                                        sending |-> FALSE, out |-> <<>>, fd |-> f]]
          /\ conns' = [conns EXCEPT ![peer[t]] = a]
    BY <1>19, InsertPicks, Zenon
  <2>2. pc[t] = "insert" /\ peer[t] \in Peers
    BY <1>19 DEF Insert
  <2>3. \A u \in Threads : pc[u] # "erase"
    BY <2>2
  <2>4. ASSUME NEW p \in Peers, conns'[p] # Null
        PROVE  obj'[conns'[p]].peer = p /\ obj'[conns'[p]].live
    <3>1. CASE p = peer[t]
      BY <2>1, <2>2, <3>1
    <3>2. CASE p # peer[t]
      <4>1. conns'[p] = conns[p] /\ conns[p] \in Addrs
        BY <2>1, <2>4, <3>2
      <4>2. obj[conns[p]].peer = p /\ obj[conns[p]].live
        BY <2>3, <2>4, <4>1 DEF MapInv
      <4> QED
        BY <2>1, <4>1, <4>2
    <3> QED
      BY <3>1, <3>2
  <2> QED
    BY <2>4 DEF MapInv
<1>20. ASSUME NEW t \in Apps, InsertNothing(t) PROVE MapInv'
  BY <1>20, MapFrame DEF InsertNothing
<1>21. ASSUME NEW t \in Apps, WritePacketFinds(t) PROVE MapInv'
  BY <1>21, MapFrame DEF WritePacketFinds
<1>22. ASSUME NEW t \in Apps, WritePacketMisses(t) PROVE MapInv'
  BY <1>22, MapFrame DEF WritePacketMisses
<1>23. ASSUME NEW t \in Apps, Push(t) PROVE MapInv'
  <2>1. UNCHANGED conns
    BY <1>23 DEF Push
  <2>2. \A a \in Addrs : obj'[a].live = obj[a].live /\ obj'[a].peer = obj[a].peer
    BY <1>23, PushKeepsObject
  <2>3. \A u \in Threads : pc[u] = "erase" => pc'[u] = "erase" /\ peer'[u] = peer[u]
    BY <1>23 DEF Push, Signal, Sleeping
  <2> QED
    BY <2>1, <2>2, <2>3, MapFrame
<1>24. ASSUME NEW t \in Readers, NEW p \in Peers, TakeEvent(t, p) PROVE MapInv'
  BY <1>24, MapFrame DEF TakeEvent
<1>25. ASSUME NEW t \in Readers \cup Disconnectors, ReaderExits(t) PROVE MapInv'
  BY <1>25, MapFrame DEF ReaderExits
<1>26. ASSUME NEW t \in Readers \cup Disconnectors, GetConnection(t) PROVE MapInv'
  BY <1>26, MapFrame DEF GetConnection
<1>27. ASSUME NEW t \in Readers \cup Disconnectors, CloseSocket(t) PROVE MapInv'
  BY <1>27, MapFrame DEF CloseSocket
<1>28. ASSUME NEW t \in Readers \cup Disconnectors, RemoveFinds(t) PROVE MapInv'
  BY <1>28, MapFrame DEF RemoveFinds
<1>29. ASSUME NEW t \in Readers \cup Disconnectors, RemoveFindsNothing(t) PROVE MapInv'
  BY <1>29, MapFrame DEF RemoveFindsNothing
<1>30. ASSUME NEW t \in Readers \cup Disconnectors, ConnectionRemoved(t) PROVE MapInv'
  BY <1>30, MapFrame DEF ConnectionRemoved
<1>31. ASSUME NEW t \in Readers \cup Disconnectors, Delete(t) PROVE MapInv'
  <2> USE DEF PointerInv, Object
  <2>1. /\ pc[t] = "delete" /\ pc' = [pc EXCEPT ![t] = "erase"]
        /\ obj' = [obj EXCEPT ![conns[peer[t]]].live = FALSE]
        /\ UNCHANGED <<conns, peer>>
    BY <1>31 DEF Delete
  <2>2. \A a \in Addrs : obj'[a].peer = obj[a].peer
    BY <2>1
  <2>3. \A a \in Addrs : obj[a].live => obj'[a].live \/ a = conns[peer[t]]
    BY <2>1
  <2>4. \A u \in Threads : pc[u] # "erase"
    BY <2>1
  <2>5. ASSUME NEW p \in Peers, conns[p] # Null
        PROVE  /\ obj'[conns[p]].peer = p
               /\ obj'[conns[p]].live \/ p = peer[t]
    <3>1. conns[p] \in Addrs /\ obj[conns[p]].peer = p /\ obj[conns[p]].live
      BY <2>4, <2>5 DEF MapInv
    <3>2. peer[t] \in Peers /\ conns[peer[t]] # Null
      BY <2>1
    <3>3. obj[conns[peer[t]]].peer = peer[t]
      BY <3>2 DEF MapInv
    <3>4. obj'[conns[p]].peer = p
      BY <2>2, <3>1
    <3>5. conns[p] = conns[peer[t]] => p = peer[t]
      BY <3>1, <3>3
    <3>6. obj'[conns[p]].live \/ conns[p] = conns[peer[t]]
      BY <2>3, <3>1
    <3> QED
      BY <3>4, <3>5, <3>6
  <2>6. pc'[t] = "erase" /\ peer'[t] = peer[t]
    BY <2>1
  <2> QED
    BY <2>1, <2>5, <2>6 DEF MapInv
<1>32. ASSUME NEW t \in Readers \cup Disconnectors, Erase(t) PROVE MapInv'
  <2>1. /\ pc[t] = "erase"
        /\ conns' = [conns EXCEPT ![peer[t]] = Null]
        /\ UNCHANGED obj
    BY <1>32 DEF Erase
  <2>2. \A u \in Threads : pc[u] = "erase" => u = t
    BY <2>1
  <2>3. ASSUME NEW p \in Peers, conns'[p] # Null
        PROVE  obj'[conns'[p]].peer = p /\ obj'[conns'[p]].live
    <3>1. p # peer[t] /\ conns'[p] = conns[p]
      BY <2>1, <2>3
    <3>2. obj[conns[p]].peer = p /\ obj[conns[p]].live
      BY <2>2, <2>3, <3>1 DEF MapInv
    <3> QED
      BY <2>1, <3>1, <3>2
  <2> QED
    BY <2>3 DEF MapInv
<1>33. ASSUME NEW t \in Disconnectors, NEW p \in Peers, Disconnect(t, p) PROVE MapInv'
  BY <1>33, MapFrame DEF Disconnect
<1>34. CASE Start
  BY <1>34, MapFrame, ThreadsAreDistinct DEF Start, PointerInv
<1>35. CASE StopReaders
  BY <1>35, MapFrame DEF StopReaders
<1>36. CASE JoinReaders
  BY <1>36, MapFrame DEF JoinReaders
<1>37. CASE StopWriters
  BY <1>37, MapFrame DEF StopWriters
<1>38. CASE SignalWriter
  BY <1>38, MapFrame DEF SignalWriter, Signal, Sleeping
<1>39. CASE JoinWriters
  BY <1>39, MapFrame DEF JoinWriters
<1>40. ASSUME NEW t \in Readers \cup Disconnectors, Invalidate(t) PROVE MapInv'
  BY <1>40, MapFrame DEF Invalidate, Object
<1>41. ASSUME NEW w \in Writers, WriteTest(w) PROVE MapInv'
  BY <1>41, MapFrame DEF WriteTest
<1>42. ASSUME NEW t \in Disconnectors, Shut(t) PROVE MapInv'
  BY <1>42, MapFrame DEF Shut, Object
<1> QED
  BY <1>0, <1>1, <1>2, <1>3, <1>4, <1>5, <1>6, <1>7, <1>8, <1>9, <1>10, <1>11,
     <1>12, <1>13, <1>14, <1>15, <1>16, <1>17, <1>18, <1>19, <1>20, <1>21,
     <1>22, <1>23, <1>24, <1>25, <1>26, <1>27, <1>28, <1>29, <1>30, <1>31,
     <1>32, <1>33, <1>34, <1>35, <1>36, <1>37, <1>38, <1>39, <1>40, <1>41, <1>42
     DEF Next, Writer, App, Reader, Removal, Disconnector, EpollThread

(* Whoever searches the map under the kernel's mutex finds live connection *)
(* objects, each filed under its own peer: RemoveConnection deletes before *)
(* it erases, but does both inside one critical section.                   *)
THEOREM MapAlwaysSound == Spec => []MapIsSound
<1>1. Init => MapInv
  BY DEF Init, MapInv
<1>2. Inv /\ MapInv /\ [Next]_vars => MapInv'
  BY MapStep
<1>3. Inv /\ MapInv => MapIsSound
  <2> SUFFICES ASSUME Inv, MapInv, NEW p \in Peers, conns[p] # Null,
                      lockK \in Writers \cup Apps \cup {Null}
               PROVE  obj[conns[p]].live /\ obj[conns[p]].peer = p
    BY DEF MapIsSound
  <2>1. ASSUME NEW t \in Threads, pc[t] = "erase" PROVE FALSE
    <3>1. lockK = t /\ t \in Readers \cup Disconnectors
      BY <2>1 DEF Inv, MutexInv, PointerInv, KernelSection
    <3> QED
      BY <3>1, ThreadsAreDistinct, ParametersAreValid DEF Threads
  <2> QED
    BY <2>1 DEF MapInv
<1> QED
  BY InvHolds, <1>1, <1>2, <1>3, PTL DEF Spec
------------------------------------------------------------------------------
(***************************************************************************)
(* Connections come and go: readers remove those whose peer has left, and  *)
(* others are disconnected.  A thread may then hold a pointer to a deleted *)
(* object, and a new connection may be allocated where that pointer leads. *)
(* This is the one thing that breaks what the mark promises: in every      *)
(* behaviour without it a connection has one sender.  For the bytes on a   *)
(* wire to be in order, the number of a closed descriptor must not be      *)
(* given to a new socket either while a writer is about to write to it.    *)
(***************************************************************************)

(* The mark on a connection says that a writer sends from it, and it alone.*)
MarksInv == OneSender /\ MarkMeansSender

(* A step that moves no writer into or out of sending, and leaves the      *)
(* marks as they are, keeps MarksInv.                                      *)
LEMMA MarksFrame ==
  ASSUME MarksInv,
         \A a \in Addrs : obj'[a].sending = obj[a].sending,
         \A w \in Writers : Holds(w)' = Holds(w) /\ (Holds(w) => held'[w] = held[w])
  PROVE  MarksInv'
<1>1. OneSender'
  BY DEF MarksInv, OneSender
<1>2. MarkMeansSender'
  BY DEF MarksInv, MarkMeansSender
<1> QED
  BY <1>1, <1>2 DEF MarksInv

(* Unless a new connection takes the place of one that a writer still      *)
(* holds, every step keeps MarksInv.                                       *)
LEMMA MarksStep ==
  ASSUME Inv, MarksInv, NoSenderReplaced, [Next]_vars
  PROVE  MarksInv'
<1>types. /\ pc \in [Threads -> Labels]
          /\ held \in [Threads -> Addrs \cup {Null}]
          /\ peer \in [Threads -> Peers \cup {0}]
          /\ conns \in [Peers -> Addrs \cup {Null}]
          /\ obj \in [Addrs -> Object]
          /\ itNext \in Peers \cup {End}
          /\ Null \notin Threads /\ Null \notin Addrs
  BY ParametersAreValid DEF Inv, TypeOK
<1>holds. \A w \in Writers : Holds(w) => held[w] \in Addrs
  BY DEF Inv, PointerInv, Holds, Threads
<1>marks. OneSender /\ MarkMeansSender
  BY DEF MarksInv
<1> USE <1>types, ThreadsAreDistinct DEF Goto, At, Threads, locks, threadVars, data
<1>0. CASE UNCHANGED vars
  BY <1>0, MarksFrame DEF vars, Holds
<1>1. ASSUME NEW w \in Writers, LockForScan(w) PROVE MarksInv'
  BY <1>1, MarksFrame DEF Holds, LockForScan
<1>2. ASSUME NEW w \in Writers, SeesStop(w) PROVE MarksInv'
  BY <1>2, MarksFrame DEF Holds, SeesStop
<1>3. ASSUME NEW w \in Writers, LockMapForScan(w) PROVE MarksInv'
  BY <1>3, MarksFrame DEF Holds, LockMapForScan
<1>4. ASSUME NEW w \in Writers, ScanPicks(w) PROVE MarksInv'
  <2>1. ~Holds(w)
    BY <1>4 DEF ScanPicks, Holds
  <2>2. Cursor \in Mapped
    BY <1>4, CursorIsMapped DEF ScanPicks, Inv
  <2> DEFINE a == conns[Cursor]
  <2>3. a \in Addrs
    BY <2>2 DEF Mapped
  <2>4. ~obj[a].sending
    BY <1>4 DEF ScanPicks, Ready
  <2>5. \A v \in Writers : Holds(v) => held[v] # a
    BY <1>marks, <2>3, <2>4 DEF MarkMeansSender
  <2>6. /\ pc[w] = "scan" /\ pc' = [pc EXCEPT ![w] = "send"]
        /\ held' = [held EXCEPT ![w] = a]
        /\ obj' = [obj EXCEPT ![a].sending = TRUE]
    BY <1>4 DEF ScanPicks
  <2> HIDE DEF a
  <2>7. \A b \in Addrs : obj'[b].sending <=> (b = a \/ obj[b].sending)
    BY <2>3, <2>6
  <2>8. \A v \in Writers : /\ Holds(v)' <=> (v = w \/ Holds(v))
                           /\ held'[v] = IF v = w THEN a ELSE held[v]
    BY <2>6 DEF Holds
  <2>9. OneSender'
    BY <2>5, <2>8, <1>marks DEF OneSender
  <2>10. MarkMeansSender'
    <3> SUFFICES ASSUME NEW b \in Addrs
                 PROVE  obj'[b].sending <=> \E v \in Writers : Holds(v)' /\ held'[v] = b
      BY DEF MarkMeansSender
    <3>1. CASE b = a
      BY <2>7, <2>8, <3>1
    <3>2. CASE b # a
      <4>1. obj[b].sending <=> \E v \in Writers : Holds(v) /\ held[v] = b
        BY <1>marks DEF MarkMeansSender
      <4>2. obj'[b].sending <=> obj[b].sending
        BY <2>7, <3>2
      <4>3. \A v \in Writers : Holds(v)' /\ held'[v] = b <=> Holds(v) /\ held[v] = b
        BY <2>1, <2>8, <3>2
      <4> QED
        BY <4>1, <4>2, <4>3
    <3> QED
      BY <3>1, <3>2
  <2> QED
    BY <2>9, <2>10 DEF MarksInv
<1>5. ASSUME NEW w \in Writers, ScanFindsNothing(w) PROVE MarksInv'
  BY <1>5, MarksFrame DEF Holds, ScanFindsNothing
<1>6. ASSUME NEW w \in Writers, CondWait(w) PROVE MarksInv'
  BY <1>6, MarksFrame DEF Holds, CondWait
<1>7. ASSUME NEW w \in Writers, SendRefuses(w) PROVE MarksInv'
  BY <1>7, MarksFrame DEF Holds, SendRefuses
<1>8. ASSUME NEW w \in Writers, SendStarts(w) PROVE MarksInv'
  BY <1>8, MarksFrame DEF Holds, SendStarts
<1>9. ASSUME NEW w \in Writers, Pop(w) PROVE MarksInv'
  <2>1. /\ pc[w] = "pop" /\ pc' = [pc EXCEPT ![w] = "write"]
        /\ obj' = [obj EXCEPT ![held[w]].out = Tail(@)]
        /\ UNCHANGED held
    BY <1>9 DEF Pop
  <2>2. \A a \in Addrs : obj'[a].sending = obj[a].sending
    BY <2>1
  <2>3. \A v \in Writers : Holds(v)' = Holds(v)
    BY <2>1 DEF Holds
  <2> QED
    BY <2>1, <2>2, <2>3, MarksFrame
<1>10. ASSUME NEW w \in Writers, WriteSome(w) PROVE MarksInv'
  <2>1. UNCHANGED <<obj, held>>
    BY <1>10 DEF WriteSome
  <2>2. \A v \in Writers : Holds(v)' = Holds(v)
    BY <1>10 DEF WriteSome, Holds
  <2> QED
    BY <2>1, <2>2, MarksFrame
<1>11. ASSUME NEW w \in Writers, WriteFails(w) PROVE MarksInv'
  BY <1>11, MarksFrame DEF Holds, WriteFails
<1>12. ASSUME NEW w \in Writers, WriteSeesClosed(w) PROVE MarksInv'
  BY <1>12, MarksFrame DEF Holds, WriteSeesClosed
<1>13. ASSUME NEW w \in Writers, Unmark(w) PROVE MarksInv'
  <2>1. /\ pc[w] = "unmark" /\ pc' = [pc EXCEPT ![w] = "sent"]
        /\ held' = [held EXCEPT ![w] = Null]
        /\ obj' = [obj EXCEPT ![held[w]].sending = FALSE]
    BY <1>13 DEF Unmark
  <2>2. Holds(w) /\ held[w] \in Addrs
    BY <1>holds, <2>1 DEF Holds
  <2>3. \A b \in Addrs : obj'[b].sending <=> (b # held[w] /\ obj[b].sending)
    BY <2>1, <2>2
  <2>4. \A v \in Writers : v # w => held'[v] = held[v]
    BY <2>1
  <2>5. \A v \in Writers : Holds(v)' <=> (v # w /\ Holds(v))
    BY <2>1 DEF Holds
  <2>6. \A v \in Writers : v # w /\ Holds(v) => held[v] # held[w]
    BY <1>marks, <2>2 DEF OneSender
  <2>7. OneSender'
    BY <1>marks, <2>4, <2>5 DEF OneSender
  <2>8. MarkMeansSender'
    <3> SUFFICES ASSUME NEW b \in Addrs
                 PROVE  obj'[b].sending <=> \E v \in Writers : Holds(v)' /\ held'[v] = b
      BY DEF MarkMeansSender
    <3>1. CASE b = held[w]
      BY <2>2, <2>3, <2>4, <2>5, <2>6, <3>1
    <3>2. CASE b # held[w]
      <4>1. obj[b].sending <=> \E v \in Writers : Holds(v) /\ held[v] = b
        BY <1>marks DEF MarkMeansSender
      <4> QED
        BY <2>3, <2>4, <2>5, <3>2, <4>1
    <3> QED
      BY <3>1, <3>2
  <2> QED
    BY <2>7, <2>8 DEF MarksInv
<1>14. ASSUME NEW w \in Writers, ProcessReturns(w) PROVE MarksInv'
  BY <1>14, MarksFrame DEF Holds, ProcessReturns
<1>15. ASSUME NEW w \in Writers, SpuriousWakeup(w) PROVE MarksInv'
  BY <1>15, MarksFrame DEF Holds, SpuriousWakeup
<1>16. ASSUME NEW t \in Apps, NEW p \in Peers, WriteToConnected(t, p) PROVE MarksInv'
  BY <1>16, MarksFrame DEF Holds, WriteToConnected
<1>17. ASSUME NEW t \in Apps, NEW p \in Peers, WriteToUnconnected(t, p) PROVE MarksInv'
  <2>1. UNCHANGED <<obj, held>>
    BY <1>17 DEF WriteToUnconnected
  <2>2. \A v \in Writers : Holds(v)' = Holds(v)
    BY <1>17 DEF WriteToUnconnected, Holds
  <2> QED
    BY <2>1, <2>2, MarksFrame
<1>18. ASSUME NEW t \in Apps, LockForAdd(t) PROVE MarksInv'
  BY <1>18, MarksFrame DEF Holds, LockForAdd
<1>19. ASSUME NEW t \in Apps, Insert(t) PROVE MarksInv'
  <2>1. PICK a \in Addrs, f \in FDs :
          /\ ~obj[a].live
          /\ obj' = [obj EXCEPT ![a] = [live |-> TRUE, peer |-> peer[t], valid |-> TRUE,
                                        sending |-> FALSE, out |-> <<>>, fd |-> f]]
    BY <1>19, InsertPicks, Zenon
  <2>2. /\ obj'[a].live
        /\ \A b \in Addrs : obj'[b].sending <=> (b # a /\ obj[b].sending)
    BY <2>1
  <2>3. \A v \in Writers : Holds(v) => held[v] # a
    BY <2>1, <2>2 DEF NoSenderReplaced, Replaced
  <2>4. ~obj[a].sending
    BY <1>marks, <2>3 DEF MarkMeansSender
  <2>5. \A v \in Writers : Holds(v)' = Holds(v) /\ held'[v] = held[v]
    BY <1>19 DEF Insert, Holds
  <2>6. \A b \in Addrs : obj'[b].sending = obj[b].sending
    <3>1. \A b \in Addrs : obj'[b].sending \in BOOLEAN /\ obj[b].sending \in BOOLEAN
      BY <2>1 DEF Object
    <3> QED
      BY <2>2, <2>4, <3>1
  <2> QED
    BY <2>5, <2>6, MarksFrame
<1>20. ASSUME NEW t \in Apps, InsertNothing(t) PROVE MarksInv'
  <2>1. UNCHANGED <<obj, held>>
    BY <1>20 DEF InsertNothing
  <2>2. \A v \in Writers : Holds(v)' = Holds(v)
    BY <1>20 DEF InsertNothing, Holds
  <2> QED
    BY <2>1, <2>2, MarksFrame
<1>21. ASSUME NEW t \in Apps, WritePacketFinds(t) PROVE MarksInv'
  BY <1>21, MarksFrame DEF Holds, WritePacketFinds
<1>22. ASSUME NEW t \in Apps, WritePacketMisses(t) PROVE MarksInv'
  BY <1>22, MarksFrame DEF Holds, WritePacketMisses
<1>23. ASSUME NEW t \in Apps, Push(t) PROVE MarksInv'
  <2>1. \A a \in Addrs : obj'[a].sending = obj[a].sending
    BY <1>23, PushKeepsObject DEF Inv
  <2>2. \A v \in Writers : Holds(v)' = Holds(v) /\ held'[v] = held[v]
    BY <1>23 DEF Push, Signal, Sleeping, Holds
  <2> QED
    BY <2>1, <2>2, MarksFrame
<1>24. ASSUME NEW t \in Readers, NEW p \in Peers, TakeEvent(t, p) PROVE MarksInv'
  BY <1>24, MarksFrame DEF Holds, TakeEvent
<1>25. ASSUME NEW t \in Readers, ReaderExits(t) PROVE MarksInv'
  BY <1>25, MarksFrame DEF Holds, ReaderExits
<1>26. ASSUME NEW t \in Readers, GetConnection(t) PROVE MarksInv'
  BY <1>26, MarksFrame DEF Holds, GetConnection
<1>27. ASSUME NEW t \in Readers, CloseSocket(t) PROVE MarksInv'
  BY <1>27, MarksFrame DEF Holds, CloseSocket
<1>28. ASSUME NEW t \in Readers, RemoveFinds(t) PROVE MarksInv'
  BY <1>28, MarksFrame DEF Holds, RemoveFinds
<1>29. ASSUME NEW t \in Readers, RemoveFindsNothing(t) PROVE MarksInv'
  BY <1>29, MarksFrame DEF Holds, RemoveFindsNothing
<1>30. ASSUME NEW t \in Readers \cup Disconnectors, ConnectionRemoved(t) PROVE MarksInv'
  BY <1>30, MarksFrame DEF Holds, ConnectionRemoved
<1>31. ASSUME NEW t \in Readers \cup Disconnectors, Delete(t) PROVE MarksInv'
  BY <1>31, MarksFrame DEF Holds, Delete
<1>32. ASSUME NEW t \in Readers \cup Disconnectors, Erase(t) PROVE MarksInv'
  BY <1>32, MarksFrame DEF Holds, Erase
<1>33. ASSUME NEW t \in Disconnectors, NEW p \in Peers, Disconnect(t, p) PROVE MarksInv'
  BY <1>33, MarksFrame DEF Holds, Disconnect
<1>34. CASE Start
  BY <1>34, MarksFrame DEF Holds, Start, Inv, MutexInv
<1>35. CASE StopReaders
  BY <1>35, MarksFrame DEF Holds, StopReaders
<1>36. CASE JoinReaders
  BY <1>36, MarksFrame DEF Holds, JoinReaders
<1>37. CASE StopWriters
  BY <1>37, MarksFrame DEF Holds, StopWriters
<1>38. CASE SignalWriter
  BY <1>38, MarksFrame DEF Holds, SignalWriter, Signal, Sleeping
<1>39. CASE JoinWriters
  BY <1>39, MarksFrame DEF Holds, JoinWriters
<1>40. ASSUME NEW t \in Readers, Invalidate(t) PROVE MarksInv'
  BY <1>40, MarksFrame DEF Holds, Invalidate
<1>41. ASSUME NEW w \in Writers, WriteTest(w) PROVE MarksInv'
  BY <1>41, MarksFrame DEF Holds, WriteTest
<1>42. ASSUME NEW t \in Disconnectors, Shut(t) PROVE MarksInv'
  BY <1>42, MarksFrame DEF Holds, Shut
<1> QED
  BY <1>0, <1>1, <1>2, <1>3, <1>4, <1>5, <1>6, <1>7, <1>8, <1>9, <1>10, <1>11,
     <1>12, <1>13, <1>14, <1>15, <1>16, <1>17, <1>18, <1>19, <1>20, <1>21,
     <1>22, <1>23, <1>24, <1>25, <1>26, <1>27, <1>28, <1>29, <1>30, <1>31,
     <1>32, <1>33, <1>34, <1>35, <1>36, <1>37, <1>38, <1>39, <1>40, <1>41, <1>42
     DEF Next, Writer, App, Reader, Removal, Disconnector, EpollThread

(* MarksInv at all times, until a writer's connection is replaced.         *)
LEMMA MarksInvHolds ==
  Spec /\ [][NoSenderReplaced]_vars => []MarksInv
<1>1. Init => MarksInv
  BY ParametersAreValid, ThreadsAreDistinct
     DEF Init, MarksInv, OneSender, MarkMeansSender, Holds, Threads, NoObject
<1>2. Inv /\ MarksInv /\ [Next]_vars /\ [NoSenderReplaced]_vars => MarksInv'
  <2> SUFFICES ASSUME Inv, MarksInv, [Next]_vars, [NoSenderReplaced]_vars
               PROVE  MarksInv'
    OBVIOUS
  <2>1. CASE UNCHANGED vars
    BY <2>1 DEF vars, data, threadVars, MarksInv, OneSender, MarkMeansSender, Holds
  <2>2. CASE NoSenderReplaced
    BY <2>2, MarksStep
  <2> QED
    BY <2>1, <2>2
<1> QED
  BY InvHolds, <1>1, <1>2, PTL DEF Spec

(* A connection is sent from by at most one writer, whatever is removed    *)
(* and connected meanwhile, unless a new connection is allocated where a   *)
(* writer still points to -- the one thing that breaks it.                 *)
THEOREM OneSenderUnlessReused ==
  Spec /\ [][NoSenderReplaced]_vars => []OneSender
BY MarksInvHolds, PTL DEF MarksInv

(* ... and so is the mark of every connection true.                        *)
THEOREM MarksAreTrueUnlessReused ==
  Spec /\ [][NoSenderReplaced]_vars => []MarkMeansSender
BY MarksInvHolds, PTL DEF MarksInv

------------------------------------------------------------------------------
(* While no connection is removed (Readers and Disconnectors are empty) no *)
(* pointer is ever stale, and no wake-up is lost.  With removals one can   *)
(* be: a cursor that is moved on may come to stand on a connection for     *)
(* which no writer has been woken.                                         *)

(* A writer that holds a connection holds a live one, alone, and the mark  *)
(* on a connection says that one does.                                     *)
SenderInv ==
  /\ \A w \in Writers : Holds(w) => obj[held[w]].live
  /\ MarksInv

(* So nothing can be allocated in its place.                               *)
LEMMA NoSenderIsStale == SenderInv => NoSenderReplaced
BY DEF SenderInv, NoSenderReplaced, Replaced

(* A step that deletes nothing and lets no writer pick a connection.       *)
LEMMA SenderFrame ==
  ASSUME Inv, SenderInv, MarksInv',
         \A a \in Addrs : obj[a].live => obj'[a].live,
         \A w \in Writers : Holds(w)' => Holds(w) /\ held'[w] = held[w]
  PROVE  SenderInv'
<1>1. \A w \in Writers : Holds(w) => held[w] \in Addrs
  BY DEF Inv, PointerInv, Holds, Threads
<1>2. \A w \in Writers : Holds(w)' => obj'[held'[w]].live
  BY <1>1 DEF SenderInv
<1> QED
  BY <1>2 DEF SenderInv

(* Without removals, every step keeps SenderInv.                           *)
LEMMA SenderStep ==
  ASSUME Inv, MapInv, SenderInv, Readers = {}, Disconnectors = {}, [Next]_vars
  PROVE  SenderInv'
<1>types. /\ pc \in [Threads -> Labels]
          /\ held \in [Threads -> Addrs \cup {Null}]
          /\ peer \in [Threads -> Peers \cup {0}]
          /\ conns \in [Peers -> Addrs \cup {Null}]
          /\ obj \in [Addrs -> Object]
          /\ itNext \in Peers \cup {End}
          /\ Null \notin Threads /\ Null \notin Addrs
  BY ParametersAreValid DEF Inv, TypeOK
<1>noerase. \A t \in Threads : pc[t] \notin {"advance", "delete", "erase"}
  BY <1>types DEF Inv, PointerInv
<1>holds. \A w \in Writers : Holds(w) => obj[held[w]].live /\ held[w] \in Addrs
  BY DEF Inv, SenderInv, PointerInv, Holds, Threads
<1>marks. MarksInv'
  BY NoSenderIsStale, MarksStep DEF SenderInv
<1> USE <1>types, <1>noerase, <1>marks, ThreadsAreDistinct DEF Goto, At, Threads, locks, threadVars, data
<1>0. CASE UNCHANGED vars
  BY <1>0, SenderFrame DEF vars, Holds
<1>1. ASSUME NEW w \in Writers, LockForScan(w) PROVE SenderInv'
  BY <1>1, SenderFrame DEF Holds, LockForScan
<1>2. ASSUME NEW w \in Writers, SeesStop(w) PROVE SenderInv'
  BY <1>2, SenderFrame DEF Holds, SeesStop
<1>3. ASSUME NEW w \in Writers, LockMapForScan(w) PROVE SenderInv'
  BY <1>3, SenderFrame DEF Holds, LockMapForScan
<1>4. ASSUME NEW w \in Writers, ScanPicks(w) PROVE SenderInv'
  <2>1. Cursor \in Peers /\ conns[Cursor] # Null
    BY <1>4, CursorIsMapped DEF ScanPicks, Inv, Mapped
  <2> DEFINE a == conns[Cursor]
  <2>2. a \in Addrs
    BY <2>1
  <2>3. obj[a].live
    BY <2>1, <1>noerase DEF MapInv
  <2>4. /\ pc' = [pc EXCEPT ![w] = "send"]
        /\ held' = [held EXCEPT ![w] = a]
        /\ obj' = [obj EXCEPT ![a].sending = TRUE]
    BY <1>4 DEF ScanPicks
  <2> HIDE DEF a
  <2>5. \A b \in Addrs : obj'[b].live <=> obj[b].live
    BY <2>2, <2>4
  <2>6. \A v \in Writers : /\ held'[v] = IF v = w THEN a ELSE held[v]
                           /\ v # w => (Holds(v)' <=> Holds(v))
    BY <2>4 DEF Holds
  <2>7. \A v \in Writers : Holds(v)' => obj'[held'[v]].live
    BY <2>2, <2>3, <2>5, <2>6, <1>holds
  <2> QED
    BY <2>7, <1>marks DEF SenderInv
<1>5. ASSUME NEW w \in Writers, ScanFindsNothing(w) PROVE SenderInv'
  BY <1>5, SenderFrame DEF Holds, ScanFindsNothing
<1>6. ASSUME NEW w \in Writers, CondWait(w) PROVE SenderInv'
  BY <1>6, SenderFrame DEF Holds, CondWait
<1>7. ASSUME NEW w \in Writers, SendRefuses(w) PROVE SenderInv'
  BY <1>7, SenderFrame DEF Holds, SendRefuses
<1>8. ASSUME NEW w \in Writers, SendStarts(w) PROVE SenderInv'
  BY <1>8, SenderFrame DEF Holds, SendStarts
<1>9. ASSUME NEW w \in Writers, Pop(w) PROVE SenderInv'
  <2>1. /\ pc[w] = "pop" /\ pc' = [pc EXCEPT ![w] = "write"]
        /\ obj' = [obj EXCEPT ![held[w]].out = Tail(@)]
        /\ UNCHANGED held
    BY <1>9 DEF Pop
  <2>2. \A a \in Addrs : obj'[a].live = obj[a].live
    BY <2>1
  <2>3. \A v \in Writers : Holds(v)' = Holds(v)
    BY <2>1 DEF Holds
  <2> QED
    BY <2>1, <2>2, <2>3, SenderFrame
<1>10. ASSUME NEW w \in Writers, WriteSome(w) PROVE SenderInv'
  <2>1. UNCHANGED <<obj, held>>
    BY <1>10 DEF WriteSome
  <2>2. \A v \in Writers : Holds(v)' = Holds(v)
    BY <1>10 DEF WriteSome, Holds
  <2> QED
    BY <2>1, <2>2, SenderFrame
<1>11. ASSUME NEW w \in Writers, WriteFails(w) PROVE SenderInv'
  BY <1>11, SenderFrame DEF Holds, WriteFails
<1>12. ASSUME NEW w \in Writers, WriteSeesClosed(w) PROVE SenderInv'
  BY <1>12, SenderFrame DEF Holds, WriteSeesClosed
<1>13. ASSUME NEW w \in Writers, Unmark(w) PROVE SenderInv'
  <2>1. \A a \in Addrs : obj'[a].live = obj[a].live
    BY <1>13 DEF Unmark
  <2>2. \A v \in Writers : Holds(v)' => Holds(v) /\ held'[v] = held[v]
    BY <1>13 DEF Unmark, Holds
  <2> QED
    BY <2>1, <2>2, SenderFrame
<1>14. ASSUME NEW w \in Writers, ProcessReturns(w) PROVE SenderInv'
  BY <1>14, SenderFrame DEF Holds, ProcessReturns
<1>15. ASSUME NEW w \in Writers, SpuriousWakeup(w) PROVE SenderInv'
  BY <1>15, SenderFrame DEF Holds, SpuriousWakeup
<1>16. ASSUME NEW t \in Apps, NEW p \in Peers, WriteToConnected(t, p) PROVE SenderInv'
  BY <1>16, SenderFrame DEF Holds, WriteToConnected
<1>17. ASSUME NEW t \in Apps, NEW p \in Peers, WriteToUnconnected(t, p) PROVE SenderInv'
  <2>1. UNCHANGED <<obj, held>>
    BY <1>17 DEF WriteToUnconnected
  <2>2. \A v \in Writers : Holds(v)' = Holds(v)
    BY <1>17 DEF WriteToUnconnected, Holds
  <2> QED
    BY <2>1, <2>2, SenderFrame
<1>18. ASSUME NEW t \in Apps, LockForAdd(t) PROVE SenderInv'
  BY <1>18, SenderFrame DEF Holds, LockForAdd
<1>19. ASSUME NEW t \in Apps, Insert(t) PROVE SenderInv'
  <2>1. \A a \in Addrs : obj[a].live => obj'[a].live
    BY <1>19 DEF Insert
  <2>2. \A v \in Writers : Holds(v)' => Holds(v) /\ held'[v] = held[v]
    BY <1>19 DEF Insert, Holds
  <2> QED
    BY <2>1, <2>2, SenderFrame
<1>20. ASSUME NEW t \in Apps, InsertNothing(t) PROVE SenderInv'
  <2>1. UNCHANGED <<obj, held>>
    BY <1>20 DEF InsertNothing
  <2>2. \A v \in Writers : Holds(v)' = Holds(v)
    BY <1>20 DEF InsertNothing, Holds
  <2> QED
    BY <2>1, <2>2, SenderFrame
<1>21. ASSUME NEW t \in Apps, WritePacketFinds(t) PROVE SenderInv'
  BY <1>21, SenderFrame DEF Holds, WritePacketFinds
<1>22. ASSUME NEW t \in Apps, WritePacketMisses(t) PROVE SenderInv'
  BY <1>22, SenderFrame DEF Holds, WritePacketMisses
<1>23. ASSUME NEW t \in Apps, Push(t) PROVE SenderInv'
  <2>1. \A a \in Addrs : obj'[a].live = obj[a].live
    BY <1>23, PushKeepsObject DEF Inv
  <2>2. \A v \in Writers : Holds(v)' = Holds(v) /\ held'[v] = held[v]
    BY <1>23 DEF Push, Signal, Sleeping, Holds
  <2> QED
    BY <2>1, <2>2, SenderFrame
<1>24. CASE Start
  BY <1>24, SenderFrame DEF Holds, Start, Inv, MutexInv
<1>25. CASE StopReaders
  BY <1>25, SenderFrame DEF Holds, StopReaders
<1>26. CASE JoinReaders
  BY <1>26, SenderFrame DEF Holds, JoinReaders
<1>27. CASE StopWriters
  BY <1>27, SenderFrame DEF Holds, StopWriters
<1>28. CASE SignalWriter
  BY <1>28, SenderFrame DEF Holds, SignalWriter, Signal, Sleeping
<1>29. CASE JoinWriters
  BY <1>29, SenderFrame DEF Holds, JoinWriters
<1>30. ASSUME NEW w \in Writers, WriteTest(w) PROVE SenderInv'
  BY <1>30, SenderFrame DEF Holds, WriteTest
<1> QED
  BY <1>0, <1>1, <1>2, <1>3, <1>4, <1>5, <1>6, <1>7, <1>8, <1>9, <1>10, <1>11,
     <1>12, <1>13, <1>14, <1>15, <1>16, <1>17, <1>18, <1>19, <1>20, <1>21,
     <1>22, <1>23, <1>24, <1>25, <1>26, <1>27, <1>28, <1>29, <1>30
     DEF Next, Writer, App, EpollThread

(* SenderInv, and what it rests on, at all times.                          *)
LEMMA SenderInvHolds ==
  ASSUME Readers = {}, Disconnectors = {}
  PROVE  Spec => [](Inv /\ MapInv /\ SenderInv)
<1>1. Init => SenderInv
  BY ParametersAreValid, ThreadsAreDistinct
     DEF Init, SenderInv, MarksInv, OneSender, MarkMeansSender, Holds, Threads, NoObject
<1>2. Init => MapInv
  BY DEF Init, MapInv
<1>3. Inv /\ MapInv /\ SenderInv /\ [Next]_vars => MapInv' /\ SenderInv'
  BY MapStep, SenderStep
<1> QED
  BY InvHolds, <1>1, <1>2, <1>3, PTL DEF Spec

(* As long as no connection is removed, the m_IsSending mark, tested and   *)
(* set under both mutexes and cleared under one, gives a connection to one *)
(* writer at a time: the bytes of two packets never interleave.            *)
THEOREM OneSenderAtATime ==
  ASSUME Readers = {}, Disconnectors = {}
  PROVE  Spec => []OneSender
BY SenderInvHolds, PTL DEF SenderInv, MarksInv

(* ... and the mark comes off whenever a writer is done, whatever became   *)
(* of the packet, so no connection is left marked for ever.                *)
THEOREM MarkAlwaysMeansSender ==
  ASSUME Readers = {}, Disconnectors = {}
  PROVE  Spec => []MarkMeansSender
BY SenderInvHolds, PTL DEF SenderInv, MarksInv

(* When every writer waits or is about to, the connection the next scan    *)
(* will look at has nothing to send.                                       *)
WakeInv ==
  (\A w \in Writers : pc[w] \in {"wait", "asleep"}) =>
    (Mapped = {} \/ ~Ready(conns[Cursor]))

(* A step that puts no writer to sleep, fills no queue, unmarks nothing,   *)
(* and leaves the map and the cursor alone keeps WakeInv.                  *)
LEMMA WakeFrame ==
  ASSUME Inv, WakeInv, UNCHANGED <<itNext, conns>>,
         \A a \in Addrs : Ready(a)' => Ready(a),
         \A w \in Writers : pc'[w] \in {"wait", "asleep"} => pc[w] \in {"wait", "asleep"}
  PROVE  WakeInv'
<1>1. Mapped' = Mapped /\ Cursor' = Cursor
  BY DEF Mapped, Cursor, After
<1>2. Mapped # {} => conns[Cursor] \in Addrs
  BY CursorIsMapped DEF Inv, TypeOK, Mapped
<1>3. Ready(conns[Cursor])' => Mapped = {} \/ Ready(conns[Cursor])
  BY <1>1, <1>2 DEF Ready
<1> QED
  BY <1>1, <1>3 DEF WakeInv

(* A writer that is up is a witness against WakeInv's premise.             *)
LEMMA WakeWitness ==
  ASSUME NEW w \in Writers, pc'[w] \notin {"wait", "asleep"}
  PROVE  WakeInv'
BY DEF WakeInv

(* Adding an entry moves the cursor only when it stands at end(), and then *)
(* at most to the new entry.                                               *)
LEMMA NewCursor ==
  ASSUME Inv, NEW p \in Peers, conns[p] = Null, UNCHANGED itNext,
         Mapped' = Mapped \cup {p}
  PROVE  Cursor' = p \/ (Cursor' = Cursor /\ Cursor \in Mapped)
<1> USE ParametersAreValid
<1>1. CASE itNext # End
  <2>1. Cursor' = itNext /\ Cursor = itNext
    BY <1>1 DEF Cursor
  <2>2. itNext \in Mapped
    BY <1>1 DEF Inv, TypeOK, CursorIsValid, Mapped, End
  <2> QED
    BY <2>1, <2>2
<1>2. CASE itNext = End
  <2> DEFINE Least(S) == \E q \in S : \A r \in S : q <= r
             new == Mapped \cup {p}
  <2>1. Mapped \subseteq Peers /\ \A q \in new : q \in Int /\ q > 0
    BY DEF Mapped, Peers
  <2>2. {q \in Mapped : q > 0} = Mapped /\ {q \in Mapped' : q > 0} = new
    BY <2>1
  <2>3. PICK q \in new : \A r \in new : q <= r
    BY <2>1, LeastPeer
  <2>4. Cursor' = q
    <3>1. \A s \in new : (\A r \in new : s <= r) => s = q
      BY <2>1, <2>3
    <3>2. Cursor' = CHOOSE s \in new : \A r \in new : s <= r
      BY <1>2, <2>2, <2>3 DEF Cursor, After
    <3> QED
      BY <2>3, <3>1, <3>2
  <2>5. CASE q = p
    BY <2>4, <2>5
  <2>6. CASE q # p
    <3>1. q \in Mapped /\ \A r \in Mapped : q <= r
      BY <2>3, <2>6
    <3>2. \A s \in Mapped : (\A r \in Mapped : s <= r) => s = q
      BY <2>1, <3>1
    <3>3. Cursor = CHOOSE s \in Mapped : \A r \in Mapped : s <= r
      BY <1>2, <2>2, <3>1 DEF Cursor, After
    <3>4. Cursor = q
      BY <3>1, <3>2, <3>3
    <3> QED
      BY <2>4, <3>1, <3>4
  <2> QED
    BY <2>5, <2>6
<1> QED
  BY <1>1, <1>2

(* Without removals, every step keeps WakeInv.                             *)
LEMMA WakeStep ==
  ASSUME Inv, MapInv, SenderInv, WakeInv, Readers = {}, Disconnectors = {}, [Next]_vars
  PROVE  WakeInv'
<1>types. /\ pc \in [Threads -> Labels]
          /\ held \in [Threads -> Addrs \cup {Null}]
          /\ peer \in [Threads -> Peers \cup {0}]
          /\ conns \in [Peers -> Addrs \cup {Null}]
          /\ obj \in [Addrs -> Object]
          /\ itNext \in Peers \cup {End}
          /\ Null \notin Threads /\ Null \notin Addrs
  BY ParametersAreValid DEF Inv, TypeOK
<1>noerase. \A t \in Threads : pc[t] \notin {"advance", "delete", "erase"}
  BY <1>types DEF Inv, PointerInv
<1>mutexes. /\ \A t \in Threads : pc[t] \in WriterSection <=> lockW = t
            /\ \A t, u \in Threads : pc[t] \in KernelSection /\ pc[u] \in KernelSection => t = u
  BY <1>types DEF Inv, MutexInv
<1> USE <1>types, <1>noerase, ThreadsAreDistinct DEF Goto, At, Threads, locks, stopVars, threadVars, history, data
<1>0. CASE UNCHANGED vars
  <2>1. UNCHANGED <<itNext, conns, obj, pc>>
    BY <1>0 DEF vars
  <2>2. \A a \in Addrs : Ready(a)' => Ready(a)
    BY <2>1 DEF Ready
  <2> QED
    BY <2>1, <2>2, WakeFrame
<1>1. ASSUME NEW w \in Writers, LockForScan(w) PROVE WakeInv'
  <2>1. pc'[w] \notin {"wait", "asleep"}
    BY <1>1 DEF LockForScan
  <2> QED
    BY <2>1, WakeWitness
<1>2. ASSUME NEW w \in Writers, SeesStop(w) PROVE WakeInv'
  <2>1. pc'[w] \notin {"wait", "asleep"}
    BY <1>2 DEF SeesStop
  <2> QED
    BY <2>1, WakeWitness
<1>3. ASSUME NEW w \in Writers, LockMapForScan(w) PROVE WakeInv'
  <2>1. pc'[w] \notin {"wait", "asleep"}
    BY <1>3 DEF LockMapForScan
  <2> QED
    BY <2>1, WakeWitness
<1>4. ASSUME NEW w \in Writers, ScanPicks(w) PROVE WakeInv'
  <2>1. pc'[w] \notin {"wait", "asleep"}
    BY <1>4 DEF ScanPicks
  <2> QED
    BY <2>1, WakeWitness
<1>5. ASSUME NEW w \in Writers, ScanFindsNothing(w) PROVE WakeInv'
  <2>1. UNCHANGED <<conns, obj>>
    BY <1>5 DEF ScanFindsNothing
  <2>2. Mapped' = Mapped
    BY <2>1 DEF Mapped
  <2>3. CASE Mapped = {}
    BY <2>2, <2>3 DEF WakeInv
  <2>4. CASE Mapped # {}
    <3>1. itNext' = Cursor /\ ~Ready(conns[Cursor])
      BY <1>5, <2>4 DEF ScanFindsNothing
    <3>2. Cursor \in Peers
      BY <2>4, CursorIsMapped DEF Mapped, Inv
    <3>3. Cursor # End
      BY <3>2, ParametersAreValid DEF Peers, End
    <3>4. Cursor' = Cursor
      BY <3>1, <3>3 DEF Cursor
    <3> QED
      BY <2>1, <3>1, <3>4 DEF WakeInv, Ready
  <2> QED
    BY <2>3, <2>4
<1>6. ASSUME NEW w \in Writers, CondWait(w) PROVE WakeInv'
  <2>1. UNCHANGED <<itNext, conns, obj>>
    BY <1>6 DEF CondWait
  <2>2. \A v \in Writers : pc'[v] \in {"wait", "asleep"} => pc[v] \in {"wait", "asleep"}
    BY <1>6 DEF CondWait
  <2>3. \A a \in Addrs : Ready(a)' => Ready(a)
    BY <2>1 DEF Ready
  <2> QED
    BY <2>1, <2>2, <2>3, WakeFrame
<1>7. ASSUME NEW w \in Writers, SendRefuses(w) PROVE WakeInv'
  <2>1. pc'[w] \notin {"wait", "asleep"}
    BY <1>7 DEF SendRefuses
  <2> QED
    BY <2>1, WakeWitness
<1>8. ASSUME NEW w \in Writers, SendStarts(w) PROVE WakeInv'
  <2>1. pc'[w] \notin {"wait", "asleep"}
    BY <1>8 DEF SendStarts
  <2> QED
    BY <2>1, WakeWitness
<1>9. ASSUME NEW w \in Writers, Pop(w) PROVE WakeInv'
  <2>1. pc'[w] \notin {"wait", "asleep"}
    BY <1>9 DEF Pop
  <2> QED
    BY <2>1, WakeWitness
<1>10. ASSUME NEW w \in Writers, WriteSome(w) PROVE WakeInv'
  <2>1. pc'[w] \notin {"wait", "asleep"}
    BY <1>10 DEF WriteSome
  <2> QED
    BY <2>1, WakeWitness
<1>11. ASSUME NEW w \in Writers, WriteFails(w) PROVE WakeInv'
  <2>1. pc'[w] \notin {"wait", "asleep"}
    BY <1>11 DEF WriteFails
  <2> QED
    BY <2>1, WakeWitness
<1>12. ASSUME NEW w \in Writers, WriteSeesClosed(w) PROVE WakeInv'
  <2>1. pc'[w] \notin {"wait", "asleep"}
    BY <1>12 DEF WriteSeesClosed
  <2> QED
    BY <2>1, WakeWitness
<1>13. ASSUME NEW w \in Writers, Unmark(w) PROVE WakeInv'
  <2>1. pc'[w] \notin {"wait", "asleep"}
    BY <1>13 DEF Unmark
  <2> QED
    BY <2>1, WakeWitness
<1>14. ASSUME NEW w \in Writers, ProcessReturns(w) PROVE WakeInv'
  <2>1. pc'[w] \notin {"wait", "asleep"}
    BY <1>14 DEF ProcessReturns
  <2> QED
    BY <2>1, WakeWitness
<1>15. ASSUME NEW w \in Writers, SpuriousWakeup(w) PROVE WakeInv'
  <2>1. pc'[w] \notin {"wait", "asleep"}
    BY <1>15 DEF SpuriousWakeup
  <2> QED
    BY <2>1, WakeWitness
<1>16. ASSUME NEW t \in Apps, NEW p \in Peers, WriteToConnected(t, p) PROVE WakeInv'
  <2>1. UNCHANGED <<itNext, conns, obj>>
    BY <1>16 DEF WriteToConnected
  <2>2. \A v \in Writers : pc'[v] \in {"wait", "asleep"} => pc[v] \in {"wait", "asleep"}
    BY <1>16 DEF WriteToConnected
  <2>3. \A a \in Addrs : Ready(a)' => Ready(a)
    BY <2>1 DEF Ready
  <2> QED
    BY <2>1, <2>2, <2>3, WakeFrame
<1>17. ASSUME NEW t \in Apps, NEW p \in Peers, WriteToUnconnected(t, p) PROVE WakeInv'
  <2>1. UNCHANGED <<itNext, conns, obj>>
    BY <1>17 DEF WriteToUnconnected
  <2>2. \A v \in Writers : pc'[v] \in {"wait", "asleep"} => pc[v] \in {"wait", "asleep"}
    BY <1>17 DEF WriteToUnconnected
  <2>3. \A a \in Addrs : Ready(a)' => Ready(a)
    BY <2>1 DEF Ready
  <2> QED
    BY <2>1, <2>2, <2>3, WakeFrame
<1>18. ASSUME NEW t \in Apps, LockForAdd(t) PROVE WakeInv'
  <2>1. UNCHANGED <<itNext, conns, obj>>
    BY <1>18 DEF LockForAdd
  <2>2. \A v \in Writers : pc'[v] \in {"wait", "asleep"} => pc[v] \in {"wait", "asleep"}
    BY <1>18 DEF LockForAdd
  <2>3. \A a \in Addrs : Ready(a)' => Ready(a)
    BY <2>1 DEF Ready
  <2> QED
    BY <2>1, <2>2, <2>3, WakeFrame
<1>19. ASSUME NEW t \in Apps, Insert(t) PROVE WakeInv'
  <2>1. PICK a \in Addrs, f \in FDs :
          /\ ~obj[a].live
          /\ obj' = [obj EXCEPT ![a] = [live |-> TRUE, peer |-> peer[t], valid |-> TRUE,
                                        sending |-> FALSE, out |-> <<>>, fd |-> f]]
          /\ conns' = [conns EXCEPT ![peer[t]] = a]
    BY <1>19, InsertPicks, Zenon
  <2>2. /\ pc[t] = "insert" /\ pc' = [pc EXCEPT ![t] = "writepacket"]
        /\ peer[t] \in Peers /\ conns[peer[t]] = Null /\ UNCHANGED itNext
    BY <1>19 DEF Insert, Inv, PointerInv
  <2>3. ~Ready(a)'
    BY <2>1 DEF Ready
  <2>4. Mapped' = Mapped \cup {peer[t]} /\ conns'[peer[t]] = a
    BY <2>1, <2>2 DEF Mapped
  <2>5. \A p \in Mapped : /\ conns'[p] = conns[p] /\ conns[p] \in Addrs
                          /\ Ready(conns[p])' => Ready(conns[p])
    <3>1. \A u \in Threads : pc[u] # "erase"
      BY <2>2
    <3>2. \A p \in Mapped : conns[p] \in Addrs /\ obj[conns[p]].live
      BY <3>1 DEF MapInv, Mapped
    <3>3. \A p \in Mapped : conns'[p] = conns[p]
      BY <2>1, <2>2 DEF Mapped
    <3>4. \A p \in Mapped : obj'[conns'[p]] = obj[conns[p]]
      BY <2>1, <3>2, <3>3
    <3> QED
      BY <3>2, <3>3, <3>4 DEF Ready
  <2>6. Cursor' = peer[t] \/ (Cursor' = Cursor /\ Cursor \in Mapped)
    BY <2>2, <2>4, NewCursor
  <2>7. \A w \in Writers : pc'[w] = pc[w]
    BY <2>2
  <2>8. CASE Cursor' = peer[t]
    BY <2>3, <2>4, <2>8 DEF WakeInv
  <2>9. CASE Cursor' = Cursor /\ Cursor \in Mapped
    BY <2>5, <2>7, <2>9 DEF WakeInv, Ready
  <2> QED
    BY <2>6, <2>8, <2>9
<1>20. ASSUME NEW t \in Apps, InsertNothing(t) PROVE WakeInv'
  <2>1. UNCHANGED <<itNext, conns, obj>>
    BY <1>20 DEF InsertNothing
  <2>2. \A v \in Writers : pc'[v] \in {"wait", "asleep"} => pc[v] \in {"wait", "asleep"}
    BY <1>20 DEF InsertNothing
  <2>3. \A a \in Addrs : Ready(a)' => Ready(a)
    BY <2>1 DEF Ready
  <2> QED
    BY <2>1, <2>2, <2>3, WakeFrame
<1>21. ASSUME NEW t \in Apps, WritePacketFinds(t) PROVE WakeInv'
  <2>1. UNCHANGED <<itNext, conns, obj>>
    BY <1>21 DEF WritePacketFinds
  <2>2. \A v \in Writers : pc'[v] \in {"wait", "asleep"} => pc[v] \in {"wait", "asleep"}
    BY <1>21 DEF WritePacketFinds
  <2>3. \A a \in Addrs : Ready(a)' => Ready(a)
    BY <2>1 DEF Ready
  <2> QED
    BY <2>1, <2>2, <2>3, WakeFrame
<1>22. ASSUME NEW t \in Apps, WritePacketMisses(t) PROVE WakeInv'
  <2>1. UNCHANGED <<itNext, conns, obj>>
    BY <1>22 DEF WritePacketMisses
  <2>2. \A v \in Writers : pc'[v] \in {"wait", "asleep"} => pc[v] \in {"wait", "asleep"}
    BY <1>22 DEF WritePacketMisses
  <2>3. \A a \in Addrs : Ready(a)' => Ready(a)
    BY <2>1 DEF Ready
  <2> QED
    BY <2>1, <2>2, <2>3, WakeFrame
<1>23. ASSUME NEW t \in Apps, Push(t) PROVE WakeInv'
  <2>1. held[t] \in Addrs /\ lockW = t
    BY <1>mutexes, <1>23 DEF Push, Inv, PointerInv, WriterSection
  <2>2. CASE obj[held[t]].sending
    <3>1. PICK w \in Writers : Holds(w)
      BY <2>1, <2>2 DEF SenderInv, MarksInv, MarkMeansSender
    <3>2. pc'[w] = pc[w]
      BY <1>23, <2>2 DEF Push
    <3> QED
      BY <3>1, <3>2, WakeWitness DEF Holds
  <2>3. CASE ~obj[held[t]].sending /\ Sleeping # {}
    <3>1. PICK w \in Sleeping : pc' = [pc EXCEPT ![t] = "idle", ![w] = "woken"]
      BY <1>23, <2>3 DEF Push, Signal
    <3>2. w \in Writers /\ pc'[w] = "woken"
      BY <3>1 DEF Sleeping
    <3> QED
      BY <3>2, WakeWitness
  <2>4. CASE ~obj[held[t]].sending /\ Sleeping = {}
    <3>1. PICK w \in Writers : TRUE
      BY ParametersAreValid
    <3>2. pc' = [pc EXCEPT ![t] = "idle"]
      BY <1>23, <2>4 DEF Push, Signal
    <3>3. pc'[w] = pc[w] /\ pc[w] # "asleep"
      BY <2>4, <3>2 DEF Sleeping
    <3>4. pc[w] # "wait"
      BY <2>1, <1>mutexes DEF WriterSection
    <3> QED
      BY <3>3, <3>4, WakeWitness
  <2> QED
    BY <2>2, <2>3, <2>4
<1>24. CASE Start
  <2>1. PICK w \in Writers : TRUE
    BY ParametersAreValid
  <2>2. pc'[w] = "next"
    BY <1>24 DEF Start
  <2> QED
    BY <2>2, WakeWitness
<1>25. CASE StopReaders
  <2>1. UNCHANGED <<itNext, conns, obj>>
    BY <1>25 DEF StopReaders
  <2>2. \A v \in Writers : pc'[v] \in {"wait", "asleep"} => pc[v] \in {"wait", "asleep"}
    BY <1>25 DEF StopReaders
  <2>3. \A a \in Addrs : Ready(a)' => Ready(a)
    BY <2>1 DEF Ready
  <2> QED
    BY <2>1, <2>2, <2>3, WakeFrame
<1>26. CASE JoinReaders
  <2>1. UNCHANGED <<itNext, conns, obj>>
    BY <1>26 DEF JoinReaders
  <2>2. \A v \in Writers : pc'[v] \in {"wait", "asleep"} => pc[v] \in {"wait", "asleep"}
    BY <1>26 DEF JoinReaders
  <2>3. \A a \in Addrs : Ready(a)' => Ready(a)
    BY <2>1 DEF Ready
  <2> QED
    BY <2>1, <2>2, <2>3, WakeFrame
<1>27. CASE StopWriters
  <2>1. UNCHANGED <<itNext, conns, obj>>
    BY <1>27 DEF StopWriters
  <2>2. \A v \in Writers : pc'[v] \in {"wait", "asleep"} => pc[v] \in {"wait", "asleep"}
    BY <1>27 DEF StopWriters
  <2>3. \A a \in Addrs : Ready(a)' => Ready(a)
    BY <2>1 DEF Ready
  <2> QED
    BY <2>1, <2>2, <2>3, WakeFrame
<1>28. CASE SignalWriter
  <2>1. UNCHANGED <<itNext, conns, obj>>
    BY <1>28 DEF SignalWriter
  <2>2. \A v \in Writers : pc'[v] \in {"wait", "asleep"} => pc[v] \in {"wait", "asleep"}
    BY <1>28 DEF SignalWriter, Signal, Sleeping
  <2>3. \A a \in Addrs : Ready(a)' => Ready(a)
    BY <2>1 DEF Ready
  <2> QED
    BY <2>1, <2>2, <2>3, WakeFrame
<1>29. CASE JoinWriters
  <2>1. UNCHANGED <<itNext, conns, obj>>
    BY <1>29 DEF JoinWriters
  <2>2. \A v \in Writers : pc'[v] \in {"wait", "asleep"} => pc[v] \in {"wait", "asleep"}
    BY <1>29 DEF JoinWriters
  <2>3. \A a \in Addrs : Ready(a)' => Ready(a)
    BY <2>1 DEF Ready
  <2> QED
    BY <2>1, <2>2, <2>3, WakeFrame
<1>30. ASSUME NEW w \in Writers, WriteTest(w) PROVE WakeInv'
  <2>1. pc'[w] \notin {"wait", "asleep"}
    BY <1>30 DEF WriteTest
  <2> QED
    BY <2>1, WakeWitness
<1> QED
  BY <1>0, <1>1, <1>2, <1>3, <1>4, <1>5, <1>6, <1>7, <1>8, <1>9, <1>10, <1>11,
     <1>12, <1>13, <1>14, <1>15, <1>16, <1>17, <1>18, <1>19, <1>20, <1>21,
     <1>22, <1>23, <1>24, <1>25, <1>26, <1>27, <1>28, <1>29, <1>30
     DEF Next, Writer, App, EpollThread

(* No wake-up is lost while no connection is removed: Push signals under   *)
(* the writer's mutex, a writer tests and goes to sleep under it, and a    *)
(* push that sends no signal found the mark of a writer that will scan     *)
(* again (WritePacket, GetConnectionAndWrite).                             *)
THEOREM NoWakeupLost ==
  ASSUME Readers = {}, Disconnectors = {}
  PROVE  Spec => []NoLostWakeup
<1>1. Init => WakeInv
  BY DEF Init, WakeInv, Mapped
<1>2. Inv /\ MapInv /\ SenderInv /\ WakeInv /\ [Next]_vars => WakeInv'
  BY WakeStep
<1>3. WakeInv => NoLostWakeup
  BY DEF WakeInv, NoLostWakeup, At
<1> QED
  BY SenderInvHolds, <1>1, <1>2, <1>3, PTL DEF Spec

------------------------------------------------------------------------------
(***************************************************************************)
(* What arrives on the wires, for every number of threads, peers and       *)
(* packets.                                                                *)
(*                                                                         *)
(* The bytes of a connection are in order, even when write() fails and the *)
(* rest of a packet is dropped, and when connections come and go as long   *)
(* as none takes the place of one that is still worked on.  When nothing   *)
(* is removed and write() never fails, the sending half is a FIFO channel  *)
(* of whole packets to each peer (PacketChannel).                          *)
(*                                                                         *)
(* Both rest on one writer holding a connection at a time: a packet is on  *)
(* the wire, in the hand of the one writer that sends it, or in the queue  *)
(* behind it, and the three are in this order.                             *)
(***************************************************************************)

(* A live connection is open and in the map; an application thread that is *)
(* about to push on one has a live one.                                    *)
LifeInv ==
  /\ \A a \in Addrs : obj[a].live =>
       /\ obj[a].valid /\ conns[obj[a].peer] = a
       /\ obj[a].fd \in FDs /\ socket[obj[a].fd] = obj[a].peer
  /\ \A t \in Apps : pc[t] = "push" => obj[held[t]].live

(* A writer has a packet in hand only from Pop to SetSending(0), and has   *)
(* not written all of it while it is in the loop of Send.                  *)
InLoop(w) == pc[w] \in {"write", "writing"}
PackInv ==
  \A w \in Writers :
    /\ pack[w] # 0 => pc[w] \in {"write", "writing", "unmark"}
    /\ InLoop(w) => count[w] < PackLen

(* Of the n packets handed over, those on the wire u come before those in  *)
(* the queue q ...                                                         *)
Ordered(u, q, n) ==
  /\ \A i \in DOMAIN q : q[i] \in 1..n
  /\ \A i, j \in DOMAIN q : i < j => q[i] < q[j]
  /\ \A k \in DOMAIN u : u[k][1] \in 1..n
  /\ \A k \in DOMAIN u : \A i \in DOMAIN q : u[k][1] < q[i]
  /\ \A i, j \in DOMAIN u : i < j => Before(u[i], u[j])

(* ... and a packet k, of which c units are written, comes between them.   *)
Between(u, q, n, k, c) ==
  /\ k \in 1..n
  /\ \A i \in DOMAIN q : k < q[i]
  /\ \A j \in DOMAIN u : u[j][1] < k \/ (u[j][1] = k /\ u[j][2] <= c)

(* The wire u carries the packets s, whole, and then c units of packet k.  *)
Framed(u, s, k, c) ==
  /\ s \in Seq(Nat)
  /\ Len(u) = Len(s) * PackLen + c
  /\ \A i \in 1..Len(s) : \A j \in 1..PackLen : u[(i - 1) * PackLen + j] = <<s[i], j>>
  /\ \A j \in 1..c : u[Len(s) * PackLen + j] = <<k, j>>

Sends(w, a) == InLoop(w) /\ held[w] = a

(* When write() never fails, the wire of a connection carries whole        *)
(* packets, but for the one that is being written.                         *)
FrameInv ==
  \A a \in Addrs : obj[a].live =>
    LET u == wire[obj[a].peer]
    IN  /\ (\A w \in Writers : ~Sends(w, a)) => Framed(u, PacketsOf(u), 0, 0)
        /\ \A w \in Writers : Sends(w, a) => Framed(u, PacketsOf(u), pack[w], count[w])

(* ... and then the writer lets go of a packet only when it is written.    *)
DoneInv ==
  \A w \in Writers : pc[w] = "unmark" /\ pack[w] # 0 => count[w] = PackLen

------------------------------------------------------------------------------
(* The order on a wire *)

(* A new connection has nothing on its wire and in its queue.              *)
LEMMA EmptyIsOrdered ==
  ASSUME NEW n \in Nat
  PROVE  Ordered(<<>>, <<>>, n)
BY DEF Ordered

(* The unit that is written next comes after all that are on the wire.     *)
LEMMA BeforeNext ==
  ASSUME NEW x \in Nat \X (1..PackLen), NEW k \in Nat, NEW c \in Nat, NEW d \in Nat, c < d,
         x[1] < k \/ (x[1] = k /\ x[2] <= c), PackLen \in Nat
  PROVE  Before(x, <<k, d>>)
BY DEF Before

(* Pop: the head of the queue comes between the wire and what is left.     *)
LEMMA PopKeepsOrder ==
  ASSUME NEW u \in Seq(Nat \X (1..PackLen)), NEW q \in Seq(Nat), NEW n \in Nat,
         Ordered(u, q, n), q # <<>>
  PROVE  Ordered(u, Tail(q), n) /\ Between(u, Tail(q), n, Head(q), 0)
<1> DEFINE r == Tail(q)
<1>1. /\ r \in Seq(Nat) /\ DOMAIN r = 1..(Len(q) - 1) /\ DOMAIN q = 1..Len(q)
      /\ Len(q) \in Nat \ {0} /\ \A i \in DOMAIN r : r[i] = q[i + 1]
      /\ Head(q) = q[1] /\ 1 \in DOMAIN q
  OBVIOUS
<1> HIDE DEF r
<1>d. DOMAIN r = 1..(Len(q) - 1) /\ DOMAIN q = 1..Len(q) /\ Len(q) \in Nat \ {0}
  BY <1>1
<1>2. \A i \in DOMAIN r : i + 1 \in DOMAIN q /\ i + 1 > 1
  <2> DEFINE m == Len(q)
  <2>1. DOMAIN r = 1..(m - 1) /\ DOMAIN q = 1..m /\ m \in Nat \ {0}
    BY <1>d
  <2> HIDE DEF m
  <2> QED
    BY <2>1
<1>3. \A i, j \in DOMAIN r : i < j => i + 1 < j + 1
  BY <1>d
<1>4. Ordered(u, r, n)
  BY <1>1, <1>2, <1>3 DEF Ordered
<1>5. Between(u, r, n, q[1], 0)
  BY <1>1, <1>2 DEF Ordered, Between
<1> QED
  BY <1>1, <1>4, <1>5 DEF r

(* Push: the new packet comes after all others.                            *)
LEMMA PushKeepsOrder ==
  ASSUME NEW u \in Seq(Nat \X (1..PackLen)), NEW q \in Seq(Nat), NEW n \in Nat,
         Ordered(u, q, n)
  PROVE  /\ Ordered(u, Append(q, n + 1), n + 1)
         /\ \A k \in Nat, c \in Nat : Between(u, q, n, k, c) =>
              Between(u, Append(q, n + 1), n + 1, k, c)
<1> DEFINE r == Append(q, n + 1)
           m == Len(q)
<1>1. /\ m \in Nat /\ DOMAIN q = 1..m /\ DOMAIN r = 1..(m + 1)
      /\ \A i \in 1..m : r[i] = q[i] /\ q[i] \in Nat
      /\ r[m + 1] = n + 1
  OBVIOUS
<1> HIDE DEF r, m
<1>2. \A i \in DOMAIN r : (i \in DOMAIN q /\ i < m + 1) \/ i = m + 1
  BY <1>1
<1>3. \A i \in DOMAIN r : r[i] \in 1..(n + 1) /\ (i = m + 1 \/ (i \in DOMAIN q /\ r[i] \in 1..n))
  BY <1>1, <1>2 DEF Ordered
<1>4. Ordered(u, r, n + 1)
  <2>1. \A i, j \in DOMAIN r : i < j => r[i] < r[j]
    <3> SUFFICES ASSUME NEW i \in DOMAIN r, NEW j \in DOMAIN r, i < j PROVE r[i] < r[j]
      OBVIOUS
    <3>1. i \in DOMAIN q /\ r[i] \in 1..n /\ r[i] = q[i]
      BY <1>1, <1>2, <1>3
    <3>2. CASE j = m + 1
      BY <1>1, <3>1, <3>2
    <3>3. CASE j \in DOMAIN q
      BY <1>1, <3>1, <3>3 DEF Ordered
    <3> QED
      BY <1>2, <3>2, <3>3
  <2>2. \A k \in DOMAIN u : u[k][1] \in 1..n
    BY DEF Ordered
  <2>3. \A k \in DOMAIN u : \A i \in DOMAIN r : u[k][1] < r[i]
    <3> SUFFICES ASSUME NEW k \in DOMAIN u, NEW i \in DOMAIN r PROVE u[k][1] < r[i]
      OBVIOUS
    <3>1. CASE i = m + 1
      BY <1>1, <2>2, <3>1
    <3>2. CASE i \in DOMAIN q
      BY <1>1, <3>2 DEF Ordered
    <3> QED
      BY <1>2, <3>1, <3>2
  <2>4. \A i, j \in DOMAIN u : i < j => Before(u[i], u[j])
    BY DEF Ordered
  <2>5. \A k \in DOMAIN u : u[k][1] \in 1..(n + 1)
    BY <2>2
  <2> QED
    BY <1>3, <2>1, <2>3, <2>4, <2>5 DEF Ordered
<1>5. ASSUME NEW k \in Nat, NEW c \in Nat, Between(u, q, n, k, c)
      PROVE  Between(u, r, n + 1, k, c)
  <2>1. k \in 1..n /\ \A i \in DOMAIN q : k < q[i]
    BY <1>5 DEF Between
  <2>2. ASSUME NEW i \in DOMAIN r PROVE k < r[i]
    <3>1. CASE i = m + 1
      BY <1>1, <2>1, <3>1
    <3>2. CASE i \in DOMAIN q
      BY <1>1, <2>1, <3>2
    <3> QED
      BY <1>2, <3>1, <3>2
  <2> QED
    BY <1>5, <2>1, <2>2 DEF Between
<1> QED
  BY <1>4, <1>5 DEF r

(* Another packet is handed over, for another peer or for none.            *)
LEMMA MoreKeepsOrder ==
  ASSUME NEW u, NEW q, NEW n \in Nat
  PROVE  /\ Ordered(u, q, n) => Ordered(u, q, n + 1)
         /\ \A k, c : Between(u, q, n, k, c) => Between(u, q, n + 1, k, c)
<1>1. \A x : x \in 1..n => x \in 1..(n + 1)
  OBVIOUS
<1> QED
  BY <1>1 DEF Ordered, Between

(* The sequence v is u and, behind it, x.                                  *)
Joined(v, u, x) ==
  /\ Len(v) = Len(u) + Len(x)
  /\ DOMAIN u = 1..Len(u) /\ Len(u) \in Nat /\ DOMAIN v = 1..(Len(u) + Len(x))
  /\ \A i \in 1..Len(u) : v[i] = u[i]
  /\ \A i \in 1..Len(x) : v[Len(u) + i] = x[i]

LEMMA ConcatIs ==
  ASSUME NEW T, NEW u \in Seq(T), NEW x \in Seq(T)
  PROVE  u \o x \in Seq(T) /\ Joined(u \o x, u, x)
BY DEF Joined

(* The wire v is u and, behind it, m units of packet k that follow the     *)
(* first c.                                                                *)
Longer(v, u, k, c, m) ==
  /\ v \in Seq(Nat \X (1..PackLen)) /\ Len(v) = Len(u) + m
  /\ DOMAIN u = 1..Len(u) /\ Len(u) \in Nat /\ DOMAIN v = 1..(Len(u) + m)
  /\ \A i \in 1..Len(u) : v[i] = u[i]
  /\ \A i \in 1..m : v[Len(u) + i] = <<k, c + i>>

(* WriteSome appends the units of one write().                             *)
LEMMA WriteIsLonger ==
  ASSUME NEW u \in Seq(Nat \X (1..PackLen)), NEW k \in Nat, NEW c \in Nat, NEW m \in Nat,
         c + m <= PackLen, PackLen \in Nat
  PROVE  Longer(u \o Units(k, c, m), u, k, c, m)
<1> DEFINE x == Units(k, c, m)
<1>1. x \in Seq(Nat \X (1..PackLen)) /\ Len(x) = m /\ \A i \in 1..m : x[i] = <<k, c + i>>
  BY DEF Units
<1> HIDE DEF x
<1>2. u \o x \in Seq(Nat \X (1..PackLen)) /\ Joined(u \o x, u, x)
  BY <1>1, ConcatIs
<1>3. Longer(u \o x, u, k, c, m)
  BY <1>1, <1>2, Zenon DEF Longer, Joined
<1> QED
  BY <1>3 DEF x

(* The units that are behind those that were on the wire.                  *)
LEMMA NewUnits ==
  ASSUME NEW v, NEW u, NEW k \in Nat, NEW c \in Nat, NEW m \in Nat, Longer(v, u, k, c, m)
  PROVE  \A i \in DOMAIN v : i \notin 1..Len(u) =>
           /\ c + (i - Len(u)) \in Nat /\ c < c + (i - Len(u)) /\ c + (i - Len(u)) <= c + m
           /\ v[i] = <<k, c + (i - Len(u))>> /\ v[i][1] = k /\ v[i][2] = c + (i - Len(u))
<1> DEFINE d == Len(u)
<1> SUFFICES ASSUME NEW i \in DOMAIN v, i \notin 1..d
             PROVE  /\ c + (i - d) \in Nat /\ c < c + (i - d) /\ c + (i - d) <= c + m
                    /\ v[i] = <<k, c + (i - d)>> /\ v[i][1] = k /\ v[i][2] = c + (i - d)
  OBVIOUS
<1>1. d \in Nat /\ DOMAIN v = 1..(d + m) /\ \A j \in 1..m : v[d + j] = <<k, c + j>>
  BY DEF Longer
<1>2. i \in 1..(d + m) /\ i \notin 1..d
  BY <1>1
<1> HIDE DEF d
<1>3. i - d \in 1..m /\ d + (i - d) = i
  BY <1>1, <1>2
<1>4. v[i] = <<k, c + (i - d)>>
  BY <1>1, <1>3
<1> QED
  BY <1>3, <1>4

(* WriteSome: the units of the packet in hand go behind all others.        *)
LEMMA WriteKeepsOrder ==
  ASSUME NEW u \in Seq(Nat \X (1..PackLen)), NEW q \in Seq(Nat), NEW n \in Nat,
         NEW k \in Nat, NEW c \in Nat, NEW m \in Nat, PackLen \in Nat,
         Ordered(u, q, n), Between(u, q, n, k, c), NEW v, Longer(v, u, k, c, m)
  PROVE  Ordered(v, q, n) /\ Between(v, q, n, k, c + m)
<1> DEFINE d == Len(u)
<1>1. /\ DOMAIN u = 1..d /\ d \in Nat /\ DOMAIN v = 1..(d + m)
      /\ \A i \in 1..d : v[i] = u[i]
  BY DEF Longer
<1>2. \A i \in 1..d : u[i] \in Nat \X (1..PackLen)
  OBVIOUS
<1>3. \A i \in DOMAIN v : i \notin 1..d =>
        /\ c + (i - d) \in Nat /\ c < c + (i - d) /\ c + (i - d) <= c + m
        /\ v[i] = <<k, c + (i - d)>> /\ v[i][1] = k /\ v[i][2] = c + (i - d)
  BY NewUnits
<1> HIDE DEF d
<1>4. \A i, j \in DOMAIN v : i < j => Before(v[i], v[j])
  <2> SUFFICES ASSUME NEW i \in DOMAIN v, NEW j \in DOMAIN v, i < j PROVE Before(v[i], v[j])
    OBVIOUS
  <2>1. CASE j \in 1..d
    <3>1. i \in 1..d
      BY <1>1, <2>1
    <3> QED
      BY <1>1, <2>1, <3>1 DEF Ordered
  <2>2. CASE i \in 1..d /\ j \notin 1..d
    <3>1. u[i][1] < k \/ (u[i][1] = k /\ u[i][2] <= c)
      BY <1>1, <2>2 DEF Between
    <3>2. c + (j - d) \in Nat /\ c < c + (j - d) /\ v[j] = <<k, c + (j - d)>>
      BY <1>3, <2>2, Zenon
    <3>3. Before(u[i], <<k, c + (j - d)>>)
      BY <1>2, <2>2, <3>1, <3>2, BeforeNext, Zenon
    <3> QED
      BY <1>1, <2>2, <3>2, <3>3, Zenon
  <2>3. CASE i \notin 1..d /\ j \notin 1..d
    <3>1. v[i][1] = k /\ v[i][2] = c + (i - d) /\ v[j][1] = k /\ v[j][2] = c + (j - d)
      BY <1>3, <2>3, Zenon
    <3>2. c + (i - d) < c + (j - d)
      BY <1>1
    <3> QED
      BY <3>1, <3>2 DEF Before
  <2> QED
    BY <1>1, <2>1, <2>2, <2>3
<1>5. \A j \in DOMAIN v : v[j][1] < k \/ (v[j][1] = k /\ v[j][2] <= c + m)
  <2> SUFFICES ASSUME NEW j \in DOMAIN v PROVE v[j][1] < k \/ (v[j][1] = k /\ v[j][2] <= c + m)
    OBVIOUS
  <2>1. CASE j \in 1..d
    BY <1>1, <1>2, <2>1 DEF Between
  <2>2. CASE j \notin 1..d
    <3>1. v[j][1] = k /\ v[j][2] = c + (j - d) /\ c + (j - d) <= c + m
      BY <1>3, <2>2, Zenon
    <3> QED
      BY <3>1, Zenon
  <2> QED
    BY <2>1, <2>2
<1>6. \A j \in DOMAIN v : v[j][1] \in 1..n /\ \A i \in DOMAIN q : v[j][1] < q[i]
  <2> SUFFICES ASSUME NEW j \in DOMAIN v PROVE v[j][1] \in 1..n /\ \A i \in DOMAIN q : v[j][1] < q[i]
    OBVIOUS
  <2>1. CASE j \in 1..d
    BY <1>1, <2>1 DEF Ordered
  <2>2. CASE j \notin 1..d
    <3>1. v[j][1] = k
      BY <1>3, <2>2, Zenon
    <3> QED
      BY <3>1, Zenon DEF Between
  <2> QED
    BY <2>1, <2>2
<1> QED
  BY <1>4, <1>5, <1>6 DEF Ordered, Between

------------------------------------------------------------------------------
(* The steps that matter to the wires *)

(* A step that leaves alone what is queued, in hand, on the wires and      *)
(* open, and after which a writer holds what it held or what is live.      *)
Quiet ==
  /\ UNCHANGED <<conns, wire, used, pack, count, socket>>
  /\ \A a \in Addrs : /\ obj'[a].live = obj[a].live /\ obj'[a].valid = obj[a].valid
                      /\ obj'[a].peer = obj[a].peer /\ obj'[a].out = obj[a].out
                      /\ obj'[a].fd = obj[a].fd
  /\ \A w \in Writers :
       /\ pc[w] \in {"write", "writing", "unmark"} => held'[w] = held[w]
       /\ InLoop(w)' <=> InLoop(w)
       /\ pc[w] = "unmark" => pc'[w] = "unmark"
       /\ pc'[w] = "unmark" => pc[w] \in {"send", "unmark"}
       /\ Holds(w)' => (Holds(w) /\ held'[w] = held[w])
                        \/ (held'[w] \in Addrs /\ obj[held'[w]].live)
  /\ \A t \in Apps : pc'[t] = "push" => pc[t] = "push" /\ held'[t] = held[t]
  /\ \A t \in Readers \cup Disconnectors :
       pc'[t] \in {"invalidate", "remove", "shut", "advance", "delete", "erase"} =>
         pc'[t] = pc[t] /\ held'[t] = held[t] /\ peer'[t] = peer[t]

(* The steps that are not quiet.                                           *)
Transfer(w) == Pop(w) \/ WriteSome(w) \/ WriteFails(w) \/ WriteSeesClosed(w) \/ Unmark(w)
HandOver(t) == Insert(t) \/ WritePacketFinds(t) \/ WritePacketMisses(t) \/ Push(t)
Reads(t) == \/ GetConnection(t) \/ CloseSocket(t) \/ Invalidate(t)
            \/ RemoveFinds(t) \/ RemoveFindsNothing(t)
Removes ==
  \/ \E t \in Readers : Reads(t)
  \/ \E t \in Readers \cup Disconnectors : Removal(t)
  \/ \E t \in Disconnectors : Shut(t) \/ \E p \in Peers : Disconnect(t, p)

LEMMA StepCases ==
  ASSUME Inv, MapInv, [Next]_vars
  PROVE  Quiet \/ (\E w \in Writers : Transfer(w)) \/ (\E t \in Apps : HandOver(t)) \/ Removes
<1>types. /\ pc \in [Threads -> Labels]
          /\ held \in [Threads -> Addrs \cup {Null}]
          /\ conns \in [Peers -> Addrs \cup {Null}]
          /\ obj \in [Addrs -> Object]
          /\ Null \notin Addrs
  BY ParametersAreValid DEF Inv, TypeOK
<1> USE <1>types, ThreadsAreDistinct
    DEF Goto, At, Threads, locks, threadVars, data, history, stopVars, Quiet, InLoop, Holds
<1>0. CASE UNCHANGED vars
  BY <1>0 DEF vars
<1>1. ASSUME NEW w \in Writers, LockForScan(w) PROVE Quiet
  BY <1>1 DEF LockForScan
<1>2. ASSUME NEW w \in Writers, SeesStop(w) PROVE Quiet
  BY <1>2 DEF SeesStop
<1>3. ASSUME NEW w \in Writers, LockMapForScan(w) PROVE Quiet
  BY <1>3 DEF LockMapForScan
<1>4. ASSUME NEW w \in Writers, ScanPicks(w) PROVE Quiet
  <2> DEFINE a == conns[Cursor]
  <2>1. /\ pc[w] = "scan" /\ pc' = [pc EXCEPT ![w] = "send"]
        /\ held' = [held EXCEPT ![w] = a]
        /\ obj' = [obj EXCEPT ![a].sending = TRUE]
        /\ UNCHANGED <<conns, wire, used, pack, count, peer, socket>>
    BY <1>4 DEF ScanPicks
  <2>2. a \in Addrs /\ obj[a].live
    <3>1. Cursor \in Peers /\ conns[Cursor] # Null
      BY <1>4, CursorIsMapped DEF ScanPicks, Inv, Mapped
    <3>2. \A t \in Threads : pc[t] # "erase"
      BY <2>1 DEF Inv, MutexInv, KernelSection
    <3> QED
      BY <3>1, <3>2 DEF MapInv
  <2> HIDE DEF a
  <2> QED
    BY <2>1, <2>2
<1>5. ASSUME NEW w \in Writers, ScanFindsNothing(w) PROVE Quiet
  BY <1>5 DEF ScanFindsNothing
<1>6. ASSUME NEW w \in Writers, CondWait(w) PROVE Quiet
  BY <1>6 DEF CondWait
<1>7. ASSUME NEW w \in Writers, SendRefuses(w) PROVE Quiet
  BY <1>7 DEF SendRefuses
<1>8. ASSUME NEW w \in Writers, SendStarts(w) PROVE Quiet
  BY <1>8 DEF SendStarts
<1>9. ASSUME NEW w \in Writers, ProcessReturns(w) PROVE Quiet
  BY <1>9 DEF ProcessReturns
<1>25. ASSUME NEW w \in Writers, WriteTest(w) PROVE Quiet
  BY <1>25 DEF WriteTest
<1>10. ASSUME NEW w \in Writers, SpuriousWakeup(w) PROVE Quiet
  BY <1>10 DEF SpuriousWakeup
<1>11. ASSUME NEW t \in Apps, NEW p \in Peers, WriteToConnected(t, p) PROVE Quiet
  BY <1>11 DEF WriteToConnected
<1>12. ASSUME NEW t \in Apps, NEW p \in Peers, WriteToUnconnected(t, p) PROVE Quiet
  BY <1>12 DEF WriteToUnconnected
<1>13. ASSUME NEW t \in Apps, LockForAdd(t) PROVE Quiet
  BY <1>13 DEF LockForAdd
<1>14. ASSUME NEW t \in Apps, InsertNothing(t) PROVE Quiet
  BY <1>14 DEF InsertNothing
<1>15. CASE Start
  BY <1>15 DEF Start, Inv, MutexInv
<1>16. CASE StopReaders
  BY <1>16 DEF StopReaders
<1>17. CASE JoinReaders
  BY <1>17 DEF JoinReaders
<1>18. CASE StopWriters
  BY <1>18 DEF StopWriters
<1>19. CASE SignalWriter
  BY <1>19 DEF SignalWriter, Signal, Sleeping
<1>20. CASE JoinWriters
  BY <1>20 DEF JoinWriters
<1>21. ASSUME NEW t \in Readers, NEW p \in Peers, TakeEvent(t, p) PROVE Quiet
  BY <1>21 DEF TakeEvent
<1>22. ASSUME NEW t \in Readers, ReaderExits(t) PROVE Quiet
  BY <1>22 DEF ReaderExits
<1> HIDE DEF Quiet
<1>23. ASSUME NEW t \in Readers, Reader(t) PROVE Quiet \/ Removes
  BY <1>21, <1>22, <1>23 DEF Reader, Reads, Removes
<1>24. ASSUME NEW t \in Disconnectors, Disconnector(t) PROVE Removes
  BY <1>24 DEF Disconnector, Removes
<1> QED
  BY <1>0, <1>1, <1>2, <1>3, <1>4, <1>5, <1>6, <1>7, <1>8, <1>9, <1>10, <1>11,
     <1>12, <1>13, <1>14, <1>15, <1>16, <1>17, <1>18, <1>19, <1>20, <1>23, <1>24, <1>25
     DEF Next, Writer, App, EpollThread, Transfer, HandOver

(* Nothing is removed when nobody removes.                                 *)
LEMMA NothingRemoved ==
  ASSUME Inv, MapInv, Readers = {}, Disconnectors = {}, [Next]_vars
  PROVE  Quiet \/ (\E w \in Writers : Transfer(w)) \/ (\E t \in Apps : HandOver(t))
BY StepCases DEF Removes

(* What a writer that sends leaves alone.                                  *)
LEMMA TransferKeeps ==
  ASSUME Inv, NEW w \in Writers, Transfer(w)
  PROVE  /\ UNCHANGED <<conns, used, socket>>
         /\ \A a \in Addrs : /\ obj'[a].live = obj[a].live /\ obj'[a].valid = obj[a].valid
                             /\ obj'[a].peer = obj[a].peer /\ obj'[a].fd = obj[a].fd
         /\ Holds(w) /\ (Holds(w)' => held'[w] = held[w])
         /\ \A t \in Threads : t # w => pc'[t] = pc[t] /\ held'[t] = held[t] /\ peer'[t] = peer[t]
         /\ \A v \in Writers : v # w => pack'[v] = pack[v] /\ count'[v] = count[v]
<1>types. /\ pc \in [Threads -> Labels] /\ held \in [Threads -> Addrs \cup {Null}]
          /\ obj \in [Addrs -> Object] /\ w \in Threads
          /\ pack \in [Writers -> Nat] /\ count \in [Writers -> 0..PackLen]
  BY DEF Inv, TypeOK, Threads
<1> USE <1>types DEF Goto, At, locks, threadVars, data, history, stopVars, Holds
<1>1. CASE Pop(w)
  BY <1>1 DEF Pop
<1>2. CASE WriteSome(w)
  <2>1. PICK n \in 1..(PackLen - count[w]) :
          /\ count' = [count EXCEPT ![w] = @ + n]
          /\ pc' = [pc EXCEPT ![w] = IF count[w] + n = PackLen THEN "unmark" ELSE "write"]
          /\ UNCHANGED <<conns, used, obj, held, peer, pack, socket>>
    BY <1>2 DEF WriteSome
  <2>2. pc[w] = "writing"
    BY <1>2 DEF WriteSome
  <2> QED
    BY <2>1, <2>2
<1>3. CASE WriteFails(w)
  BY <1>3 DEF WriteFails
<1>4. CASE WriteSeesClosed(w)
  BY <1>4 DEF WriteSeesClosed
<1>5. CASE Unmark(w)
  BY <1>5 DEF Unmark
<1> QED
  BY <1>1, <1>2, <1>3, <1>4, <1>5 DEF Transfer

(* What an application thread that hands a packet over leaves alone.       *)
LEMMA HandOverKeeps ==
  ASSUME Inv, NEW t \in Apps, HandOver(t)
  PROVE  /\ UNCHANGED <<pack, count>>
         /\ \A w \in Writers :
              /\ held'[w] = held[w]
              /\ InLoop(w)' <=> InLoop(w)
              /\ Holds(w)' <=> Holds(w)
              /\ pc'[w] = "unmark" <=> pc[w] = "unmark"
         /\ \A x \in Apps : x # t => pc'[x] = pc[x] /\ held'[x] = held[x]
         /\ \A x \in Readers \cup Disconnectors :
              pc'[x] = pc[x] /\ held'[x] = held[x] /\ peer'[x] = peer[x]
<1>types. /\ pc \in [Threads -> Labels] /\ held \in [Threads -> Addrs \cup {Null}]
          /\ peer \in [Threads -> Peers \cup {0}]
          /\ t \in Threads /\ Writers \subseteq Threads /\ Apps \subseteq Threads
          /\ Readers \cup Disconnectors \subseteq Threads
          /\ t \notin Writers /\ Writers \cap Apps = {}
          /\ (Readers \cup Disconnectors) \cap (Writers \cup Apps) = {}
  BY ThreadsAreDistinct DEF Inv, TypeOK, Threads
<1> USE <1>types DEF Goto, At, locks, threadVars, data, history, stopVars, Holds, InLoop
<1>1. CASE Insert(t)
  BY <1>1 DEF Insert
<1>2. CASE WritePacketFinds(t)
  BY <1>2 DEF WritePacketFinds
<1>3. CASE WritePacketMisses(t)
  BY <1>3 DEF WritePacketMisses
<1>4. CASE Push(t)
  BY <1>4 DEF Push, Signal, Sleeping
<1> QED
  BY <1>1, <1>2, <1>3, <1>4 DEF HandOver

(* What the removal of a connection leaves alone.                          *)
LEMMA RemovesKeep ==
  ASSUME Inv, Removes
  PROVE  /\ UNCHANGED <<pack, count, used, wire>>
         /\ \A w \in Writers : pc'[w] = pc[w] /\ held'[w] = held[w]
         /\ \A a \in Addrs : /\ obj'[a].peer = obj[a].peer /\ obj'[a].out = obj[a].out
                             /\ obj'[a].fd = obj[a].fd
                             /\ obj'[a].live => obj[a].live
         /\ \A f \in FDs : socket'[f] \in {socket[f], Closed}
<1>types. /\ pc \in [Threads -> Labels] /\ held \in [Threads -> Addrs \cup {Null}]
          /\ obj \in [Addrs -> Object] /\ Writers \subseteq Threads
          /\ socket \in [FDs -> Peers \cup {Closed, Stray}]
          /\ Writers \cap (Readers \cup Disconnectors) = {}
  BY ThreadsAreDistinct DEF Inv, TypeOK, Threads
<1> DEFINE Kept == /\ UNCHANGED <<pack, count, used, wire>>
                   /\ \A w \in Writers : pc'[w] = pc[w] /\ held'[w] = held[w]
                   /\ \A a \in Addrs : /\ obj'[a].peer = obj[a].peer /\ obj'[a].out = obj[a].out
                                       /\ obj'[a].fd = obj[a].fd
                                       /\ obj'[a].live => obj[a].live
                   /\ \A f \in FDs : socket'[f] \in {socket[f], Closed}
<1> USE <1>types DEF Goto, At, locks, threadVars, data, history, stopVars
<1>1. ASSUME NEW t \in Readers, GetConnection(t) PROVE Kept
  BY <1>1 DEF GetConnection
<1>2. ASSUME NEW t \in Readers, CloseSocket(t) PROVE Kept
  BY <1>2 DEF CloseSocket
<1>9. ASSUME NEW t \in Readers, Invalidate(t) PROVE Kept
  BY <1>9 DEF Invalidate
<1>3. ASSUME NEW t \in Readers, RemoveFinds(t) PROVE Kept
  BY <1>3 DEF RemoveFinds
<1>4. ASSUME NEW t \in Readers, RemoveFindsNothing(t) PROVE Kept
  BY <1>4 DEF RemoveFindsNothing
<1>5. ASSUME NEW t \in Readers \cup Disconnectors, ConnectionRemoved(t) PROVE Kept
  BY <1>5 DEF ConnectionRemoved
<1>6. ASSUME NEW t \in Readers \cup Disconnectors, Delete(t) PROVE Kept
  BY <1>6 DEF Delete
<1>7. ASSUME NEW t \in Readers \cup Disconnectors, Erase(t) PROVE Kept
  BY <1>7 DEF Erase
<1>8. ASSUME NEW t \in Disconnectors, NEW p \in Peers, Disconnect(t, p) PROVE Kept
  BY <1>8 DEF Disconnect
<1>10. ASSUME NEW t \in Disconnectors, Shut(t) PROVE Kept
  BY <1>10 DEF Shut
<1> HIDE DEF Kept
<1>11. Kept
  BY <1>1, <1>2, <1>3, <1>4, <1>5, <1>6, <1>7, <1>8, <1>9, <1>10 DEF Removes, Reads, Removal
<1> QED
  BY <1>11 DEF Kept

(* The wires while connections come and go.                                *)

(* A live connection is the one the map has for its peer, and its number   *)
(* leads to that peer or nowhere.  What is deleted is closed first, from   *)
(* Close to the end of RemoveConnection.  So a writer that still sends     *)
(* from a deleted connection writes to no wire.                            *)
IsClosed(a) == obj[a].fd \in FDs /\ socket[obj[a].fd] = Closed
CloseInv ==
  /\ \A a \in Addrs : obj[a].live =>
       /\ conns[obj[a].peer] = a
       /\ obj[a].fd \in FDs /\ socket[obj[a].fd] \in {Closed, obj[a].peer}
  /\ \A w \in Writers : Holds(w) /\ ~obj[held[w]].live => IsClosed(held[w])
  /\ \A t \in Readers : pc[t] \in {"invalidate", "remove"} /\ obj[held[t]].live =>
       IsClosed(held[t])
  /\ \A t \in Readers \cup Disconnectors :
       /\ pc[t] \in {"shut", "advance", "delete"} => IsClosed(conns[peer[t]])
       /\ pc[t] = "erase" => ~obj[conns[peer[t]]].live

(* A step that opens, adds, removes and deletes nothing, and brings nobody *)
(* nearer to that, keeps CloseInv.                                         *)
LEMMA CloseFrame ==
  ASSUME Inv, CloseInv, UNCHANGED conns,
         \A a \in Addrs : /\ obj'[a].live = obj[a].live /\ obj'[a].peer = obj[a].peer
                          /\ obj'[a].fd = obj[a].fd,
         \A f \in FDs : socket'[f] \in {socket[f], Closed},
         \A w \in Writers : Holds(w)' => \/ Holds(w) /\ held'[w] = held[w]
                                         \/ held'[w] \in Addrs /\ obj[held'[w]].live,
         \A t \in Readers : pc'[t] \in {"invalidate", "remove"} =>
           pc[t] \in {"invalidate", "remove"} /\ held'[t] = held[t],
         \A t \in Readers \cup Disconnectors :
           /\ pc'[t] \in {"shut", "advance", "delete"} =>
                pc[t] \in {"shut", "advance", "delete"} /\ peer'[t] = peer[t]
           /\ pc'[t] = "erase" => pc[t] = "erase" /\ peer'[t] = peer[t]
  PROVE  CloseInv'
<1>1. /\ \A w \in Writers : Holds(w) => held[w] \in Addrs
      /\ \A t \in Readers : pc[t] \in {"invalidate", "remove"} => held[t] \in Addrs
      /\ \A t \in Readers \cup Disconnectors :
           pc[t] \in {"shut", "advance", "delete", "erase"} => conns[peer[t]] \in Addrs
  BY DEF Inv, TypeOK, PointerInv, Threads, Holds
<1>2. \A a \in Addrs : obj'[a].live =>
        /\ conns'[obj'[a].peer] = a
        /\ obj'[a].fd \in FDs /\ socket'[obj'[a].fd] \in {Closed, obj'[a].peer}
  BY DEF CloseInv
<1>3. \A a \in Addrs : IsClosed(a) => obj'[a].fd \in FDs /\ socket'[obj'[a].fd] = Closed
  BY DEF IsClosed
<1>4. \A w \in Writers : (Holds(w) /\ ~obj[held[w]].live)' => IsClosed(held[w])'
  BY <1>1, <1>3 DEF CloseInv, IsClosed
<1>5. \A t \in Readers : (pc[t] \in {"invalidate", "remove"} /\ obj[held[t]].live)' =>
        IsClosed(held[t])'
  BY <1>1, <1>3 DEF CloseInv, IsClosed
<1>6. \A t \in Readers \cup Disconnectors :
        /\ pc'[t] \in {"shut", "advance", "delete"} => IsClosed(conns[peer[t]])'
        /\ pc'[t] = "erase" => ~obj'[conns'[peer'[t]]].live
  BY <1>1, <1>3 DEF CloseInv, IsClosed
<1> QED
  BY <1>2, <1>4, <1>5, <1>6 DEF CloseInv

(* As long as nothing is used again too early, every step keeps CloseInv.  *)
LEMMA CloseStep ==
  ASSUME Inv, MapInv, CloseInv, NothingReused, [Next]_vars
  PROVE  CloseInv'
<1>types. /\ pc \in [Threads -> Labels]
          /\ held \in [Threads -> Addrs \cup {Null}]
          /\ peer \in [Threads -> Peers \cup {0}]
          /\ conns \in [Peers -> Addrs \cup {Null}]
          /\ obj \in [Addrs -> Object]
          /\ socket \in [FDs -> Peers \cup {Closed, Stray}]
          /\ Null \notin Addrs /\ Null \notin Threads
          /\ Readers \cup Disconnectors \subseteq Threads /\ Apps \subseteq Threads
          /\ Writers \subseteq Threads
          /\ Readers \cap Disconnectors = {}
          /\ (Readers \cup Disconnectors) \cap (Writers \cup Apps) = {}
  BY ParametersAreValid, ThreadsAreDistinct DEF Inv, TypeOK, Threads
<1>peers. \A p \in Peers : p # Closed /\ p # Stray
  BY ParametersAreValid DEF Peers, Closed, Stray
<1>mutex. \A t, u \in Threads : pc[t] \in KernelSection /\ pc[u] \in KernelSection => t = u
  BY <1>types DEF Inv, MutexInv
<1>free. lockK = Null => \A t \in Threads : pc[t] \notin KernelSection
  BY <1>types DEF Inv, MutexInv
<1>sound. \A p \in Peers : conns[p] # Null => conns[p] \in Addrs /\ obj[conns[p]].peer = p
  BY <1>types DEF MapInv
<1>live. \A a \in Addrs : obj[a].live =>
           /\ obj[a].peer \in Peers /\ conns[obj[a].peer] = a
           /\ obj[a].fd \in FDs /\ socket[obj[a].fd] \in {Closed, obj[a].peer}
  BY DEF Inv, PointerInv, CloseInv
<1>holds. \A w \in Writers : Holds(w) =>
            /\ held[w] \in Addrs
            /\ ~obj[held[w]].live => IsClosed(held[w])
  BY <1>types DEF CloseInv, Inv, PointerInv, Holds
<1>close. \A t \in Readers : pc[t] \in {"invalidate", "remove"} =>
            /\ held[t] \in Addrs
            /\ obj[held[t]].live => IsClosed(held[t])
  BY <1>types DEF CloseInv, Inv, PointerInv
<1>busy. \A t \in Readers \cup Disconnectors :
            /\ pc[t] \in {"shut", "advance", "delete", "erase"} =>
                 peer[t] \in Peers /\ conns[peer[t]] \in Addrs
            /\ pc[t] \in {"shut", "advance", "delete"} => IsClosed(conns[peer[t]])
            /\ pc[t] = "erase" => ~obj[conns[peer[t]]].live
  BY <1>types DEF CloseInv, Inv, PointerInv
<1>1. CASE Quiet
  BY <1>1, <1>types, CloseFrame DEF Quiet
<1>2. ASSUME NEW w \in Writers, Transfer(w) PROVE CloseInv'
  <2>1. \A t \in Readers \cup Disconnectors : t # w /\ t \in Threads
    BY <1>types
  <2>2. \A v \in Writers : Holds(v)' => Holds(v) /\ held'[v] = held[v]
    BY <1>2, <1>types, TransferKeeps DEF Holds
  <2> QED
    BY <1>2, <2>1, <2>2, TransferKeeps, CloseFrame
<1>3. ASSUME NEW t \in Apps, HandOver(t) PROVE CloseInv'
  <2>1. /\ \A x \in Readers \cup Disconnectors :
             pc'[x] = pc[x] /\ held'[x] = held[x] /\ peer'[x] = peer[x]
        /\ \A w \in Writers : held'[w] = held[w] /\ (Holds(w)' <=> Holds(w))
    BY <1>3, HandOverKeeps
  <2>2. CASE WritePacketFinds(t) \/ WritePacketMisses(t)
    <3>1. UNCHANGED <<obj, conns, socket>>
      BY <2>2 DEF WritePacketFinds, WritePacketMisses, history
    <3> QED
      BY <2>1, <3>1, CloseFrame
  <2>3. CASE Push(t)
    <3>1. \A a \in Addrs : /\ obj'[a].live = obj[a].live /\ obj'[a].peer = obj[a].peer
                           /\ obj'[a].fd = obj[a].fd
      <4>1. CASE obj[held[t]].valid
        <5>1. obj' = [obj EXCEPT ![held[t]].out = Append(@, used + 1)]
          BY <2>3, <4>1 DEF Push
        <5> QED
          BY <5>1, <1>types
      <4>2. CASE ~obj[held[t]].valid
        <5>1. UNCHANGED obj
          BY <2>3, <4>2, SMTT(30) DEF Push
        <5> QED
          BY <5>1
      <4> QED
        BY <4>1, <4>2
    <3>2. UNCHANGED <<conns, socket>>
      BY <2>3 DEF Push
    <3> QED
      BY <2>1, <3>1, <3>2, CloseFrame
  <2>4. CASE Insert(t)
    <3> DEFINE p == peer[t]
    <3>1. PICK a \in Addrs, f \in FDs :
            /\ ~obj[a].live
            /\ socket[f] = Closed
            /\ obj' = [obj EXCEPT ![a] = [live |-> TRUE, peer |-> p, valid |-> TRUE,
                                          sending |-> FALSE, out |-> <<>>, fd |-> f]]
            /\ conns' = [conns EXCEPT ![p] = a]
            /\ socket' = [g \in FDs |-> IF g = f THEN p
                                        ELSE IF socket[g] = p THEN Stray ELSE socket[g]]
      BY <2>4, InsertPicks, Zenon
    <3>2. conns[p] = Null /\ p \in Peers /\ pc[t] = "insert"
      BY <2>4, <1>types DEF Insert, At, Inv, PointerInv
    <3> HIDE DEF p
    <3>3. /\ obj'[a].live /\ obj'[a].fd = f /\ obj'[a].peer = p /\ conns'[p] = a
          /\ \A b \in Addrs : b # a => obj'[b] = obj[b]
          /\ \A r \in Peers : r # p => conns'[r] = conns[r]
          /\ socket'[f] = p /\ p # Closed
      BY <3>1, <3>2, <1>types, <1>peers
    (* The number is not one in use, nor the address one still worked on.  *)
    <3>4. \A b \in Addrs : InUse(b) => obj[b].fd # f
      BY <3>1, <3>3 DEF NothingReused, NoNumberReused, Reopened
    <3>5. /\ \A x \in Readers : pc[x] \in {"invalidate", "remove"} => held[x] # a
          /\ \A w \in Writers : Holds(w) => held[w] # a
      BY <3>1, <3>3 DEF NothingReused, NoRemovalReplaced, NoSenderReplaced, Replaced
    <3>6. \A x \in Readers \cup Disconnectors :
            pc'[x] \notin {"shut", "advance", "delete", "erase"}
      <4> SUFFICES ASSUME NEW x \in Readers \cup Disconnectors,
                          pc[x] \in {"shut", "advance", "delete", "erase"}
                   PROVE  FALSE
        BY <2>1
      <4>1. x \in Threads /\ t \in Threads /\ x # t
        BY <1>types
      <4> QED
        BY <3>2, <4>1, <1>mutex DEF KernelSection
    <3>7. \A b \in Addrs : InUse(b) /\ IsClosed(b) /\ b # a =>
            obj'[b].fd \in FDs /\ socket'[obj'[b].fd] = Closed
      BY <3>1, <3>3, <3>4 DEF IsClosed
    <3>8. ASSUME NEW b \in Addrs, obj'[b].live
          PROVE  /\ conns'[obj'[b].peer] = b
                 /\ obj'[b].fd \in FDs /\ socket'[obj'[b].fd] \in {Closed, obj'[b].peer}
      <4>1. CASE b = a
        BY <3>3, <4>1
      <4>2. CASE b # a
        <5>1. obj'[b] = obj[b] /\ obj[b].live
          BY <3>3, <3>8, <4>2
        <5>2. obj[b].peer \in Peers /\ obj[b].peer # p /\ obj[b].fd \in FDs
          BY <3>2, <5>1, <1>live, <1>types
        <5>3. obj[b].fd # f
          BY <3>4, <5>1 DEF InUse
        <5> QED
          BY <3>1, <3>3, <5>1, <5>2, <5>3, <1>live
      <4> QED
        BY <4>1, <4>2
    <3>9. ASSUME NEW w \in Writers, Holds(w)', ~obj'[held'[w]].live PROVE IsClosed(held[w])'
      <4>1. /\ Holds(w) /\ held'[w] = held[w] /\ held[w] \in Addrs /\ held[w] # a
            /\ ~obj[held[w]].live
        BY <2>1, <3>3, <3>5, <3>9, <1>holds
      <4>2. InUse(held[w]) /\ IsClosed(held[w])
        BY <4>1, <1>holds DEF InUse
      <4> QED
        BY <3>7, <4>1, <4>2 DEF IsClosed
    <3>10. ASSUME NEW x \in Readers, pc'[x] \in {"invalidate", "remove"}, obj'[held'[x]].live
           PROVE  IsClosed(held[x])'
      <4>1. /\ pc[x] \in {"invalidate", "remove"} /\ held'[x] = held[x]
            /\ held[x] \in Addrs /\ held[x] # a /\ obj[held[x]].live
        BY <2>1, <3>3, <3>5, <3>10, <1>close
      <4>2. InUse(held[x]) /\ IsClosed(held[x])
        BY <4>1, <1>close DEF InUse
      <4> QED
        BY <3>7, <4>1, <4>2 DEF IsClosed
    <3> QED
      BY <3>6, <3>8, <3>9, <3>10 DEF CloseInv
  <2> QED
    BY <1>3, <2>2, <2>3, <2>4 DEF HandOver
<1>keep. ASSUME Removes
         PROVE  /\ \A w \in Writers : held'[w] = held[w] /\ (Holds(w)' <=> Holds(w))
                /\ \A a \in Addrs : obj'[a].peer = obj[a].peer /\ obj'[a].fd = obj[a].fd
                /\ \A f \in FDs : socket'[f] \in {socket[f], Closed}
                /\ \A a \in Addrs : IsClosed(a) =>
                     obj'[a].fd \in FDs /\ socket'[obj'[a].fd] = Closed
  BY <1>keep, RemovesKeep DEF Holds, IsClosed
<1>4. ASSUME NEW t \in Readers, GetConnection(t) \/ RemoveFindsNothing(t) PROVE CloseInv'
  <2>1. UNCHANGED <<obj, conns, socket>>
    BY <1>4 DEF GetConnection, RemoveFindsNothing, history
  <2>2. /\ pc'[t] \in {"idle", "close"}
        /\ \A x \in Threads : x # t =>
             pc'[x] = pc[x] /\ held'[x] = held[x] /\ peer'[x] = peer[x]
    <3>1. CASE GetConnection(t)
      <4>1. PICK a \in Lookup(peer[t]) : /\ held' = [held EXCEPT ![t] = a]
                                         /\ pc' = [pc EXCEPT ![t] = IF a = Null THEN "idle" ELSE "close"]
        BY <3>1 DEF GetConnection, Goto
      <4>2. peer' = [peer EXCEPT ![t] = 0]
        BY <3>1 DEF GetConnection
      <4> QED
        BY <4>1, <4>2, <1>types
    <3>2. CASE RemoveFindsNothing(t)
      BY <3>2, <1>types DEF RemoveFindsNothing, Goto
    <3> QED
      BY <1>4, <3>1, <3>2
  <2>3. Removes
    BY <1>4 DEF Removes, Reads
  <2> QED
    BY <2>1, <2>2, <2>3, <1>types, <1>keep, CloseFrame
<1>5. ASSUME NEW t \in Readers, CloseSocket(t) PROVE CloseInv'
  <2> DEFINE a == held[t]
  <2>1. /\ pc[t] = "close" /\ pc' = [pc EXCEPT ![t] = "invalidate"]
        /\ socket' = [socket EXCEPT ![obj[a].fd] = Closed]
        /\ UNCHANGED <<conns, held, peer, obj>>
    BY <1>5 DEF CloseSocket, At, Goto, threadVars
  <2>2. a \in Addrs
    BY <2>1, <1>types DEF Inv, PointerInv
  <2>3. Removes
    BY <1>5 DEF Removes, Reads
  <2>4. obj[a].live => IsClosed(held[t])'
    BY <2>1, <2>2, <1>live, <1>types DEF IsClosed
  <2> HIDE DEF a
  <2>5. \A b \in Addrs : obj'[b].live =>
          /\ conns'[obj'[b].peer] = b
          /\ obj'[b].fd \in FDs /\ socket'[obj'[b].fd] \in {Closed, obj'[b].peer}
    BY <2>1, <2>3, <1>live, <1>keep
  <2>6. \A w \in Writers : (Holds(w) /\ ~obj[held[w]].live)' => IsClosed(held[w])'
    BY <2>1, <2>3, <1>holds, <1>keep DEF IsClosed
  <2>7. \A x \in Readers : (pc[x] \in {"invalidate", "remove"} /\ obj[held[x]].live)' =>
          IsClosed(held[x])'
    <3> SUFFICES ASSUME NEW x \in Readers, pc'[x] \in {"invalidate", "remove"},
                        obj'[held'[x]].live
                 PROVE  IsClosed(held[x])'
      OBVIOUS
    <3>1. CASE x = t
      BY <2>1, <2>4, <3>1 DEF a
    <3>2. CASE x # t
      <4>1. pc[x] \in {"invalidate", "remove"} /\ held'[x] = held[x] /\ obj[held[x]].live
        BY <2>1, <3>2, <1>types
      <4> QED
        BY <2>3, <4>1, <1>close, <1>keep DEF IsClosed
    <3> QED
      BY <3>1, <3>2
  <2>8. \A x \in Readers \cup Disconnectors :
          pc'[x] \in {"shut", "advance", "delete", "erase"} => pc'[x] = pc[x]
    BY <2>1, <1>types
  <2>9. \A x \in Readers \cup Disconnectors :
          /\ pc'[x] \in {"shut", "advance", "delete"} => IsClosed(conns[peer[x]])'
          /\ pc'[x] = "erase" => ~obj'[conns'[peer'[x]]].live
    BY <2>1, <2>3, <2>8, <1>busy, <1>keep DEF IsClosed
  <2> QED
    BY <2>5, <2>6, <2>7, <2>9 DEF CloseInv
<1>6. ASSUME NEW t \in Readers, Invalidate(t) PROVE CloseInv'
  <2>1. /\ pc[t] = "invalidate" /\ pc' = [pc EXCEPT ![t] = "remove"]
        /\ obj' = [obj EXCEPT ![held[t]].valid = FALSE]
        /\ UNCHANGED <<conns, held, peer>>
    BY <1>6 DEF Invalidate, At, Goto, threadVars
  <2>2. \A a \in Addrs : obj'[a].live = obj[a].live
    BY <2>1, <1>types
  <2>3. Removes
    BY <1>6 DEF Removes, Reads
  <2>4. /\ \A x \in Readers : pc'[x] \in {"invalidate", "remove"} =>
             pc[x] \in {"invalidate", "remove"} /\ held'[x] = held[x]
        /\ \A x \in Readers \cup Disconnectors :
             pc'[x] \in {"shut", "advance", "delete", "erase"} => pc'[x] = pc[x]
    BY <2>1, <1>types
  <2> QED
    BY <2>1, <2>2, <2>3, <2>4, <1>keep, CloseFrame
<1>7. ASSUME NEW t \in Readers, RemoveFinds(t) PROVE CloseInv'
  <2> DEFINE p == obj[held[t]].peer
  <2>1. /\ pc[t] = "remove" /\ pc' = [pc EXCEPT ![t] = "advance"] /\ lockK = Null
        /\ obj[held[t]].live
        /\ peer' = [peer EXCEPT ![t] = p] /\ held' = [held EXCEPT ![t] = Null]
        /\ UNCHANGED <<conns, obj, socket>>
    BY <1>7 DEF RemoveFinds, At, Goto, history
  <2>2. held[t] \in Addrs /\ IsClosed(held[t]) /\ conns[p] = held[t]
    BY <2>1, <1>close, <1>live
  <2> HIDE DEF p
  <2>3. Removes
    BY <1>7 DEF Removes, Reads
  <2>4. \A w \in Writers : (Holds(w) /\ ~obj[held[w]].live)' => IsClosed(held[w])'
    BY <2>1, <2>3, <1>holds, <1>keep DEF IsClosed
  <2>5. \A x \in Readers : pc'[x] \in {"invalidate", "remove"} =>
          pc[x] \in {"invalidate", "remove"} /\ held'[x] = held[x]
    BY <2>1, <1>types
  <2>6. \A x \in Readers : (pc[x] \in {"invalidate", "remove"} /\ obj[held[x]].live)' =>
          IsClosed(held[x])'
    BY <2>1, <2>5, <1>close DEF IsClosed
  <2>7. \A x \in Readers \cup Disconnectors :
          pc'[x] \in {"shut", "advance", "delete", "erase"} => x = t
    BY <2>1, <1>free, <1>types DEF KernelSection
  <2>8. pc'[t] = "advance" /\ peer'[t] = p
    BY <2>1, <1>types
  <2>9. \A x \in Readers \cup Disconnectors :
          /\ pc'[x] \in {"shut", "advance", "delete"} => IsClosed(conns[peer[x]])'
          /\ pc'[x] = "erase" => ~obj'[conns'[peer'[x]]].live
    BY <2>1, <2>2, <2>7, <2>8 DEF IsClosed
  <2>10. \A b \in Addrs : obj'[b].live =>
           /\ conns'[obj'[b].peer] = b
           /\ obj'[b].fd \in FDs /\ socket'[obj'[b].fd] \in {Closed, obj'[b].peer}
    BY <2>1, <1>live
  <2> QED
    BY <2>4, <2>6, <2>9, <2>10 DEF CloseInv
<1>8. ASSUME NEW t \in Readers \cup Disconnectors, ConnectionRemoved(t) PROVE CloseInv'
  <2>1. /\ pc[t] = "advance" /\ pc' = [pc EXCEPT ![t] = "delete"]
        /\ UNCHANGED <<conns, obj, held, peer, socket>>
    BY <1>8 DEF ConnectionRemoved, At, Goto, threadVars, history
  <2>2. Removes
    BY <1>8 DEF Removes, Removal
  <2>3. /\ \A x \in Readers : pc'[x] \in {"invalidate", "remove"} =>
             pc[x] \in {"invalidate", "remove"}
        /\ \A x \in Readers \cup Disconnectors :
             /\ pc'[x] \in {"shut", "advance", "delete"} =>
                  pc[x] \in {"shut", "advance", "delete"}
             /\ pc'[x] = "erase" => pc[x] = "erase"
    BY <2>1, <1>types
  <2> QED
    BY <2>1, <2>2, <2>3, <1>keep, CloseFrame
<1>9. ASSUME NEW t \in Readers \cup Disconnectors, Delete(t) PROVE CloseInv'
  <2> DEFINE a == conns[peer[t]]
  <2>1. /\ pc[t] = "delete" /\ pc' = [pc EXCEPT ![t] = "erase"]
        /\ obj' = [obj EXCEPT ![a].live = FALSE]
        /\ UNCHANGED <<conns, held, peer, socket>>
    BY <1>9 DEF Delete, At, Goto, threadVars, history
  <2>2. a \in Addrs /\ IsClosed(a)
    BY <2>1, <1>busy
  <2>3. /\ ~obj'[a].live
        /\ \A b \in Addrs : /\ obj'[b].fd = obj[b].fd /\ obj'[b].peer = obj[b].peer
                            /\ obj'[b].live <=> (b # a /\ obj[b].live)
    <3> HIDE DEF a
    <3> QED
      BY <2>1, <2>2, <1>types
  <2>4. \A b \in Addrs : obj'[b].live =>
          /\ conns'[obj'[b].peer] = b
          /\ obj'[b].fd \in FDs /\ socket'[obj'[b].fd] \in {Closed, obj'[b].peer}
    <3> HIDE DEF a
    <3> QED
      BY <2>1, <2>2, <2>3, <1>live
  <2>5. \A w \in Writers : (Holds(w) /\ ~obj[held[w]].live)' => IsClosed(held[w])'
    <3> SUFFICES ASSUME NEW w \in Writers, Holds(w)', ~obj'[held'[w]].live
                 PROVE  IsClosed(held[w])'
      OBVIOUS
    <3>1. Holds(w) /\ held'[w] = held[w] /\ held[w] \in Addrs
      <4>1. Removes
        BY <1>9 DEF Removes, Removal
      <4> QED
        BY <4>1, <1>keep, <1>holds
    <3>2. IsClosed(held[w])
      <4> HIDE DEF a
      <4> QED
        BY <2>2, <2>3, <3>1, <1>holds
    <3> QED
      BY <2>1, <2>3, <3>1, <3>2 DEF IsClosed
  <2>6. \A x \in Readers : pc'[x] \in {"invalidate", "remove"} =>
          pc[x] \in {"invalidate", "remove"} /\ held'[x] = held[x]
    BY <2>1, <1>types
  <2>7. \A x \in Readers : (pc[x] \in {"invalidate", "remove"} /\ obj[held[x]].live)' =>
          IsClosed(held[x])'
    <3> HIDE DEF a
    <3> QED
      BY <2>1, <2>3, <2>6, <1>close DEF IsClosed
  <2>8. \A x \in Readers \cup Disconnectors :
          pc'[x] \in {"shut", "advance", "delete", "erase"} => x = t
    <3>1. \A x \in Readers \cup Disconnectors :
            pc'[x] \in {"shut", "advance", "delete", "erase"} =>
              pc[x] \in {"shut", "advance", "delete", "erase"}
      BY <2>1, <1>types
    <3> QED
      BY <2>1, <3>1, <1>mutex, <1>types DEF KernelSection
  <2>9. pc'[t] = "erase"
    BY <2>1, <1>types
  <2>10. \A x \in Readers \cup Disconnectors :
          /\ pc'[x] \in {"shut", "advance", "delete"} => IsClosed(conns[peer[x]])'
          /\ pc'[x] = "erase" => ~obj'[conns'[peer'[x]]].live
    BY <2>1, <2>3, <2>8, <2>9
  <2> QED
    BY <2>4, <2>5, <2>7, <2>10 DEF CloseInv
<1>10. ASSUME NEW t \in Readers \cup Disconnectors, Erase(t) PROVE CloseInv'
  <2> DEFINE p == peer[t]
  <2>1. /\ pc[t] = "erase" /\ pc' = [pc EXCEPT ![t] = "idle"]
        /\ conns' = [conns EXCEPT ![p] = Null]
        /\ peer' = [peer EXCEPT ![t] = 0]
        /\ UNCHANGED <<obj, held, socket>>
    BY <1>10 DEF Erase, At, Goto, history
  <2>2. p \in Peers /\ ~obj[conns[p]].live
    BY <2>1, <1>busy
  <2> HIDE DEF p
  <2>3. \A r \in Peers : r # p => conns'[r] = conns[r]
    BY <2>1, <1>types
  <2>4. \A b \in Addrs : obj'[b].live =>
          /\ conns'[obj'[b].peer] = b
          /\ obj'[b].fd \in FDs /\ socket'[obj'[b].fd] \in {Closed, obj'[b].peer}
    BY <2>1, <2>2, <2>3, <1>live
  <2>5. Removes
    BY <1>10 DEF Removes, Removal
  <2>6. \A w \in Writers : (Holds(w) /\ ~obj[held[w]].live)' => IsClosed(held[w])'
    BY <2>1, <2>5, <1>holds, <1>keep DEF IsClosed
  <2>7. \A x \in Readers : pc'[x] \in {"invalidate", "remove"} =>
          pc[x] \in {"invalidate", "remove"}
    BY <2>1, <1>types
  <2>8. \A x \in Readers : (pc[x] \in {"invalidate", "remove"} /\ obj[held[x]].live)' =>
          IsClosed(held[x])'
    BY <2>1, <2>7, <1>close DEF IsClosed
  <2>9. \A x \in Readers \cup Disconnectors :
          pc'[x] \notin {"shut", "advance", "delete", "erase"}
    <3>1. \A x \in Readers \cup Disconnectors :
            pc'[x] \in {"shut", "advance", "delete", "erase"} =>
              x # t /\ pc[x] \in {"shut", "advance", "delete", "erase"}
      BY <2>1, <1>types
    <3> QED
      BY <2>1, <3>1, <1>mutex, <1>types DEF KernelSection
  <2> QED
    BY <2>4, <2>6, <2>8, <2>9 DEF CloseInv
<1>11. ASSUME NEW t \in Disconnectors, NEW p \in Peers, Disconnect(t, p) PROVE CloseInv'
  <2> DEFINE a == conns[p]
  <2>1. /\ pc[t] = "idle" /\ pc' = [pc EXCEPT ![t] = "shut"] /\ lockK = Null
        /\ socket' = [socket EXCEPT ![obj[a].fd] = Closed]
        /\ peer' = [peer EXCEPT ![t] = p]
        /\ UNCHANGED <<conns, held, obj>>
    BY <1>11 DEF Disconnect, At, Goto
  <2>2. a \in Addrs /\ obj[a].live
    <3>1. conns[p] # Null
      BY <1>11 DEF Disconnect
    <3>2. \A u \in Threads : pc[u] # "erase"
      BY <2>1, <1>free DEF KernelSection
    <3> QED
      BY <3>1, <3>2, <1>sound DEF MapInv
  <2>3. obj'[a].fd \in FDs /\ socket'[obj'[a].fd] = Closed
    BY <2>1, <2>2, <1>live, <1>types
  <2>4. Removes
    BY <1>11 DEF Removes
  <2>5. \A b \in Addrs : obj'[b].live =>
          /\ conns'[obj'[b].peer] = b
          /\ obj'[b].fd \in FDs /\ socket'[obj'[b].fd] \in {Closed, obj'[b].peer}
    BY <2>1, <2>4, <1>live, <1>keep
  <2>6. \A w \in Writers : (Holds(w) /\ ~obj[held[w]].live)' => IsClosed(held[w])'
    BY <2>1, <2>4, <1>holds, <1>keep DEF IsClosed
  <2>7. \A x \in Readers : pc'[x] \in {"invalidate", "remove"} =>
          pc[x] \in {"invalidate", "remove"}
    BY <2>1, <1>types
  <2>8. \A x \in Readers : (pc[x] \in {"invalidate", "remove"} /\ obj[held[x]].live)' =>
          IsClosed(held[x])'
    BY <2>1, <2>4, <2>7, <1>close, <1>keep DEF IsClosed
  <2>9. \A x \in Readers \cup Disconnectors :
          pc'[x] \in {"shut", "advance", "delete", "erase"} => x = t
    BY <2>1, <1>free, <1>types DEF KernelSection
  <2>10. pc'[t] = "shut" /\ conns'[peer'[t]] = a
    BY <2>1, <1>types
  <2>11. \A x \in Readers \cup Disconnectors :
          /\ pc'[x] \in {"shut", "advance", "delete"} => IsClosed(conns[peer[x]])'
          /\ pc'[x] = "erase" => ~obj'[conns'[peer'[x]]].live
    BY <2>3, <2>9, <2>10 DEF IsClosed
  <2> QED
    BY <2>5, <2>6, <2>8, <2>11 DEF CloseInv
<1>12. ASSUME NEW t \in Disconnectors, Shut(t) PROVE CloseInv'
  <2> DEFINE a == conns[peer[t]]
  <2>1. /\ pc[t] = "shut" /\ pc' = [pc EXCEPT ![t] = "advance"]
        /\ obj' = [obj EXCEPT ![a].valid = FALSE]
        /\ UNCHANGED <<conns, held, peer>>
    BY <1>12 DEF Shut, At, Goto, threadVars
  <2> HIDE DEF a
  <2>2. \A b \in Addrs : obj'[b].live = obj[b].live
    BY <2>1, <1>types
  <2>3. Removes
    BY <1>12 DEF Removes
  <2>4. /\ \A x \in Readers : pc'[x] \in {"invalidate", "remove"} => pc[x] = pc'[x]
        /\ \A x \in Readers \cup Disconnectors :
             /\ pc'[x] \in {"shut", "advance", "delete"} =>
                  pc[x] \in {"shut", "advance", "delete"}
             /\ pc'[x] = "erase" => pc[x] = "erase"
    BY <2>1, <1>types
  <2> QED
    BY <2>1, <2>2, <2>3, <2>4, <1>keep, CloseFrame
<1>13. CASE Removes
  <2>1. ASSUME NEW t \in Readers, Reads(t) PROVE CloseInv'
    BY <2>1, <1>4, <1>5, <1>6, <1>7 DEF Reads
  <2>2. ASSUME NEW t \in Readers \cup Disconnectors, Removal(t) PROVE CloseInv'
    BY <2>2, <1>8, <1>9, <1>10 DEF Removal
  <2> QED
    BY <1>11, <1>12, <1>13, <2>1, <2>2 DEF Removes
<1> QED
  BY <1>1, <1>2, <1>3, <1>13, StepCases

(* On the wire of each peer the bytes are in order; on that of a live      *)
(* connection they come before what is in hand, and that before what is    *)
(* queued.                                                                 *)
WireInv ==
  /\ \A p \in Peers : Ordered(wire[p], <<>>, used)
  /\ \A a \in Addrs : obj[a].live => Ordered(wire[obj[a].peer], obj[a].out, used)
  /\ \A w \in Writers : InLoop(w) /\ obj[held[w]].live =>
       Between(wire[obj[held[w]].peer], obj[held[w]].out, used, pack[w], count[w])

(* The bytes on a wire are in order whatever is queued.                    *)
LEMMA WireAlone ==
  ASSUME NEW u, NEW q, NEW n, Ordered(u, q, n)
  PROVE  Ordered(u, <<>>, n)
BY DEF Ordered

(* What write() takes gets on the wire of the connection's own peer: were  *)
(* the connection deleted, its number would lead nowhere.                  *)
LEMMA WriteGoesHome ==
  ASSUME Inv, CloseInv, NEW w \in Writers, WriteSome(w)
  PROVE  /\ pc[w] = "writing" /\ held[w] \in Addrs /\ obj[held[w]].live
         /\ \E n \in 1..(PackLen - count[w]) :
              /\ wire' = [wire EXCEPT ![obj[held[w]].peer] = @ \o Units(pack[w], count[w], n)]
              /\ count' = [count EXCEPT ![w] = @ + n]
              /\ pc' = [pc EXCEPT ![w] = IF count[w] + n = PackLen THEN "unmark" ELSE "write"]
         /\ UNCHANGED <<conns, obj, held, peer, pack, used, socket>>
<1>types. /\ wire \in [Peers -> Seq(Nat \X (1..PackLen))] /\ Writers \subseteq Threads
  BY DEF Inv, TypeOK, Threads
<1>1. pc[w] = "writing" /\ socket[obj[held[w]].fd] # Closed
  BY DEF WriteSome, At, Target
<1>2. Holds(w) /\ held[w] \in Addrs
  BY <1>1, <1>types DEF Holds, Inv, PointerInv
<1>3. obj[held[w]].live
  BY <1>1, <1>2 DEF CloseInv, IsClosed
<1>4. socket[obj[held[w]].fd] = obj[held[w]].peer /\ obj[held[w]].peer \in Peers
  BY <1>1, <1>2, <1>3 DEF CloseInv, Inv, PointerInv
<1>5. PICK n \in 1..(PackLen - count[w]) :
        /\ wire' = Written(w, n)
        /\ count' = [count EXCEPT ![w] = @ + n]
        /\ pc' = [pc EXCEPT ![w] = IF count[w] + n = PackLen THEN "unmark" ELSE "write"]
  BY DEF WriteSome, Goto
<1> DEFINE p == obj[held[w]].peer
           x == Units(pack[w], count[w], n)
<1>6. wire' = [r \in Peers |-> IF r = p THEN wire[r] \o x ELSE wire[r]]
  BY <1>4, <1>5 DEF Written, Target
<1>7. wire' = [wire EXCEPT ![p] = @ \o x]
  <2>1. p \in Peers
    BY <1>4
  <2> HIDE DEF p, x
  <2> QED
    BY <2>1, <1>6, <1>types
<1>8. UNCHANGED <<conns, obj, held, peer, pack, used, socket>>
  BY DEF WriteSome
<1> QED
  BY <1>1, <1>2, <1>3, <1>5, <1>7, <1>8

(* As long as nothing is used again too early, every step keeps the order. *)
LEMMA WireStep ==
  ASSUME Inv, MapInv, MarksInv, CloseInv, WireInv, NothingReused, [Next]_vars
  PROVE  WireInv'
<1>types. /\ pc \in [Threads -> Labels] /\ held \in [Threads -> Addrs \cup {Null}]
          /\ conns \in [Peers -> Addrs \cup {Null}] /\ obj \in [Addrs -> Object]
          /\ pack \in [Writers -> Nat] /\ count \in [Writers -> 0..PackLen]
          /\ used \in Nat /\ wire \in [Peers -> Seq(Nat \X (1..PackLen))]
          /\ PackLen \in Nat \ {0} /\ Null \notin Addrs
          /\ Writers \subseteq Threads /\ Apps \subseteq Threads /\ Writers \cap Apps = {}
  BY ParametersAreValid, ThreadsAreDistinct DEF Inv, TypeOK, Threads
<1>live. \A a \in Addrs : obj[a].live => obj[a].peer \in Peers /\ conns[obj[a].peer] = a
  BY DEF Inv, PointerInv, CloseInv
<1>typed. /\ \A a \in Addrs : obj[a].out \in Seq(Nat)
          /\ \A p \in Peers : wire[p] \in Seq(Nat \X (1..PackLen))
  BY <1>types DEF Object
<1>order. /\ \A p \in Peers : Ordered(wire[p], <<>>, used)
          /\ \A a \in Addrs : obj[a].live => Ordered(wire[obj[a].peer], obj[a].out, used)
          /\ \A w \in Writers : InLoop(w) /\ obj[held[w]].live =>
               Between(wire[obj[held[w]].peer], obj[held[w]].out, used, pack[w], count[w])
  BY DEF WireInv
<1>holds. \A w \in Writers : Holds(w) => held[w] \in Addrs
  BY <1>types DEF Inv, PointerInv, Holds
<1>writes. \A w \in Writers : InLoop(w) => Holds(w) /\ held[w] \in Addrs
  BY <1>holds DEF Holds, InLoop
<1>1. CASE Quiet
  <2>1. \A w \in Writers : InLoop(w)' => InLoop(w) /\ held'[w] = held[w]
    BY <1>1 DEF Quiet, InLoop
  <2> QED
    BY <1>1, <2>1, <1>writes, <1>order DEF Quiet, WireInv
<1>2. ASSUME NEW w \in Writers, Transfer(w) PROVE WireInv'
  <2>1. /\ UNCHANGED <<conns, used>>
        /\ \A a \in Addrs : obj'[a].live = obj[a].live /\ obj'[a].peer = obj[a].peer
        /\ \A v \in Writers : v # w => /\ (InLoop(v)' <=> InLoop(v)) /\ held'[v] = held[v]
                                       /\ pack'[v] = pack[v] /\ count'[v] = count[v]
    BY <1>2, <1>types, TransferKeeps DEF InLoop
  <2> DEFINE a == held[w]
             p == obj[a].peer
             u == wire[p]
             q == obj[a].out
  <2>2. Holds(w)
    BY <1>2, TransferKeeps
  <2>3. /\ a \in Addrs
        /\ \A v \in Writers : InLoop(v) /\ v # w => held[v] # a /\ held[v] \in Addrs
    BY <2>2, <1>holds, <1>writes DEF MarksInv, OneSender
  (* All that a writer does to the connection it holds, if that is live.   *)
  <2>frame. ASSUME /\ \A b \in Addrs : b # a => obj'[b].out = obj[b].out
                   /\ obj[a].live =>
                        /\ \A r \in Peers : r # p => wire'[r] = wire[r]
                        /\ Ordered(wire'[p], obj'[a].out, used)
                        /\ InLoop(w)' => /\ held'[w] = a
                                               /\ Between(wire'[p], obj'[a].out, used, pack'[w], count'[w])
                   /\ ~obj[a].live => wire' = wire /\ (InLoop(w)' => held'[w] = a)
            PROVE  WireInv'
    <3>1. \A b \in Addrs : obj[a].live /\ obj[b].live /\ b # a => obj[b].peer # p
      BY <2>3, <1>live
    <3>2. obj[a].live => p \in Peers
      BY <2>3, <1>live
    <3>3. ASSUME NEW r \in Peers PROVE Ordered(wire'[r], <<>>, used')
      <4>1. CASE obj[a].live /\ r = p
        BY <2>frame, <2>1, <4>1, WireAlone
      <4>2. CASE ~(obj[a].live /\ r = p)
        BY <2>frame, <2>1, <4>2, <1>order
      <4> QED
        BY <4>1, <4>2
    <3>4. ASSUME NEW b \in Addrs, obj'[b].live PROVE Ordered(wire'[obj'[b].peer], obj'[b].out, used')
      <4>1. CASE b = a
        BY <2>frame, <2>1, <2>3, <3>4, <4>1
      <4>2. CASE b # a
        <5>1. obj[b].live /\ obj'[b].peer = obj[b].peer /\ obj[b].peer \in Peers
              /\ obj'[b].out = obj[b].out
          BY <2>frame, <2>1, <3>4, <4>2, <1>live
        <5>2. wire'[obj[b].peer] = wire[obj[b].peer]
          BY <2>frame, <3>1, <4>2, <5>1
        <5> QED
          BY <2>1, <5>1, <5>2, <1>order
      <4> QED
        BY <4>1, <4>2
    <3>5. ASSUME NEW v \in Writers, InLoop(v)', obj'[held'[v]].live
          PROVE  Between(wire'[obj'[held'[v]].peer], obj'[held'[v]].out, used', pack'[v], count'[v])
      <4>1. CASE v = w
        <5>1. held'[w] = a /\ obj[a].live
          BY <2>frame, <2>1, <2>3, <3>5, <4>1
        <5> QED
          BY <2>frame, <2>1, <2>3, <3>5, <4>1, <5>1
      <4>2. CASE v # w
        <5> DEFINE b == held[v]
        <5>1. InLoop(v) /\ held'[v] = b /\ b # a /\ b \in Addrs
          BY <2>1, <2>3, <3>5, <4>2
        <5>2. obj[b].live /\ obj'[b].peer = obj[b].peer /\ obj[b].peer \in Peers
              /\ obj'[b].out = obj[b].out
          BY <2>frame, <2>1, <3>5, <5>1, <1>live
        <5>3. wire'[obj[b].peer] = wire[obj[b].peer]
          BY <2>frame, <3>1, <5>1, <5>2
        <5>4. Between(wire[obj[b].peer], obj[b].out, used, pack[v], count[v])
          BY <5>1, <5>2, <1>order
        <5> QED
          BY <2>1, <4>2, <5>1, <5>2, <5>3, <5>4
      <4> QED
        BY <4>1, <4>2
    <3> QED
      BY <3>3, <3>4, <3>5 DEF WireInv
  <2>4. ASSUME obj[a].live
        PROVE  /\ u \in Seq(Nat \X (1..PackLen)) /\ q \in Seq(Nat) /\ Ordered(u, q, used)
               /\ pack[w] \in Nat /\ count[w] \in Nat /\ p \in Peers
    BY <2>3, <2>4, <1>types, <1>typed, <1>order, <1>live
  <2>5. CASE Pop(w)
    <3>1. /\ q # <<>> /\ obj' = [obj EXCEPT ![a].out = Tail(@)] /\ UNCHANGED <<wire, held>>
          /\ pack' = [pack EXCEPT ![w] = Head(q)] /\ count' = [count EXCEPT ![w] = 0]
      BY <2>5 DEF Pop, history
    <3>2. obj'[a].out = Tail(q) /\ \A b \in Addrs : b # a => obj'[b].out = obj[b].out
      BY <2>3, <3>1, <1>types
    <3>3. pack'[w] = Head(q) /\ count'[w] = 0
      BY <3>1, <1>types
    <3>4. ASSUME obj[a].live
          PROVE  Ordered(u, Tail(q), used) /\ Between(u, Tail(q), used, Head(q), 0)
      <4>1. u \in Seq(Nat \X (1..PackLen)) /\ q \in Seq(Nat) /\ Ordered(u, q, used)
        BY <2>4, <3>4
      <4> HIDE DEF a, p, u, q
      <4> QED
        BY <4>1, <3>1, <1>types, PopKeepsOrder
    <3> QED
      BY <2>frame, <3>1, <3>2, <3>3, <3>4
  <2>6. CASE WriteSome(w)
    <3>1. PICK n \in 1..(PackLen - count[w]) :
            /\ wire' = [wire EXCEPT ![p] = @ \o Units(pack[w], count[w], n)]
            /\ count' = [count EXCEPT ![w] = @ + n]
            /\ UNCHANGED <<obj, held, pack>>
      BY <2>6, WriteGoesHome
    <3>2. InLoop(w)
      BY <2>6, WriteGoesHome DEF InLoop
    <3>3. obj[a].live
      BY <2>6, WriteGoesHome
    <3>4. /\ u \in Seq(Nat \X (1..PackLen)) /\ q \in Seq(Nat) /\ Ordered(u, q, used)
          /\ pack[w] \in Nat /\ count[w] \in Nat /\ p \in Peers
      BY <2>4, <3>3
    <3> DEFINE x == u \o Units(pack[w], count[w], n)
    <3>5. /\ wire'[p] = x /\ \A r \in Peers : r # p => wire'[r] = wire[r]
          /\ count'[w] = count[w] + n /\ n \in Nat /\ count[w] + n <= PackLen
      <4>1. count'[w] = count[w] + n
        BY <3>1, <1>types
      <4>2. n \in Nat /\ count[w] + n <= PackLen
        <5>1. count[w] \in 0..PackLen /\ PackLen \in Nat
          BY <1>types
        <5> QED
          BY <5>1
      <4>3. wire'[p] = x /\ \A r \in Peers : r # p => wire'[r] = wire[r]
        <5> HIDE DEF p
        <5> QED
          BY <3>1, <3>4, <1>types
      <4> QED
        BY <4>1, <4>2, <4>3
    <3>6. Between(u, q, used, pack[w], count[w])
      BY <3>2, <3>3, <1>order
    <3> HIDE DEF a, p, u, q
    <3>7. Longer(x, u, pack[w], count[w], n)
      BY <3>4, <3>5, <1>types, WriteIsLonger
    <3> HIDE DEF x
    <3>8. Ordered(x, q, used) /\ Between(x, q, used, pack[w], count[w] + n)
      BY <3>4, <3>5, <3>6, <3>7, <1>types, WriteKeepsOrder
    <3> QED
      BY <2>frame, <3>1, <3>3, <3>5, <3>8 DEF a, q
  <2>7. CASE WriteFails(w) \/ WriteSeesClosed(w) \/ Unmark(w)
    <3>1. UNCHANGED wire /\ ~InLoop(w)'
      BY <2>7, <1>types
         DEF WriteFails, WriteSeesClosed, Unmark, data, history, Goto, InLoop
    <3>2. \A b \in Addrs : obj'[b].out = obj[b].out
      <4>1. CASE WriteFails(w) \/ WriteSeesClosed(w)
        BY <4>1 DEF WriteFails, WriteSeesClosed, data
      <4>2. CASE Unmark(w)
        <5>1. obj' = [obj EXCEPT ![a].sending = FALSE]
          BY <4>2 DEF Unmark
        <5> QED
          BY <2>3, <5>1, <1>types
      <4> QED
        BY <2>7, <4>1, <4>2
    <3> QED
      BY <2>frame, <2>3, <2>4, <3>1, <3>2
  <2> QED
    BY <1>2, <2>5, <2>6, <2>7 DEF Transfer
<1>3. ASSUME NEW t \in Apps, HandOver(t) PROVE WireInv'
  <2>1. UNCHANGED <<pack, count>>
        /\ \A w \in Writers : held'[w] = held[w] /\ (InLoop(w)' <=> InLoop(w))
    BY <1>3, HandOverKeeps
  <2>2. CASE WritePacketFinds(t)
    <3>1. UNCHANGED <<obj, conns, wire, used>>
      BY <2>2 DEF WritePacketFinds, history
    <3> QED
      BY <2>1, <3>1, <1>order DEF WireInv
  <2>more. /\ \A p \in Peers : Ordered(wire[p], <<>>, used + 1)
           /\ \A b \in Addrs : obj[b].live => Ordered(wire[obj[b].peer], obj[b].out, used + 1)
           /\ \A w \in Writers : InLoop(w) /\ obj[held[w]].live =>
                Between(wire[obj[held[w]].peer], obj[held[w]].out, used + 1, pack[w], count[w])
    <3>1. \A p \in Peers : Ordered(wire[p], <<>>, used + 1)
      BY <1>order, <1>types, MoreKeepsOrder
    <3>2. \A b \in Addrs : obj[b].live => Ordered(wire[obj[b].peer], obj[b].out, used + 1)
      BY <1>order, <1>types, MoreKeepsOrder
    <3>3. \A w \in Writers : InLoop(w) /\ obj[held[w]].live =>
            Between(wire[obj[held[w]].peer], obj[held[w]].out, used + 1, pack[w], count[w])
      BY <1>order, <1>types, MoreKeepsOrder
    <3> QED
      BY <3>1, <3>2, <3>3
  <2>3. ASSUME UNCHANGED <<obj, wire>>, used' = used + 1 PROVE WireInv'
    BY <2>1, <2>3, <2>more DEF WireInv
  <2>4. CASE WritePacketMisses(t)
    BY <2>3, <2>4 DEF WritePacketMisses
  <2>5. CASE Insert(t)
    <3> DEFINE p == peer[t]
    <3>1. PICK a \in Addrs, f \in FDs :
            /\ ~obj[a].live
            /\ obj' = [obj EXCEPT ![a] = [live |-> TRUE, peer |-> p, valid |-> TRUE,
                                          sending |-> FALSE, out |-> <<>>, fd |-> f]]
            /\ conns' = [conns EXCEPT ![p] = a]
      BY <2>5, InsertPicks, Zenon
    <3>2. /\ conns[p] = Null /\ p \in Peers /\ used' = used
          /\ wire' = [wire EXCEPT ![p] = <<>>]
      BY <2>5, <1>types DEF Insert, At, Inv, PointerInv
    <3>3. /\ obj'[a].live /\ obj'[a].peer = p /\ obj'[a].out = <<>> /\ wire'[p] = <<>>
          /\ \A b \in Addrs : b # a => obj'[b] = obj[b]
          /\ \A r \in Peers : r # p => wire'[r] = wire[r]
      BY <3>1, <3>2, <1>types
    <3>4. \A b \in Addrs : obj[b].live => b # a /\ obj[b].peer # p /\ obj[b].peer \in Peers
      BY <3>1, <3>2, <1>live, <1>types
    <3>5. \A w \in Writers : InLoop(w) => held[w] # a
      BY <3>1, <3>3, <1>writes DEF NothingReused, NoSenderReplaced, Replaced
    <3>6. ASSUME NEW r \in Peers PROVE Ordered(wire'[r], <<>>, used')
      <4>1. CASE r = p
        BY <3>2, <3>3, <4>1, <1>types, EmptyIsOrdered
      <4>2. CASE r # p
        BY <3>2, <3>3, <4>2, <1>order
      <4> QED
        BY <4>1, <4>2
    <3>7. ASSUME NEW b \in Addrs, obj'[b].live PROVE Ordered(wire'[obj'[b].peer], obj'[b].out, used')
      <4>1. CASE b = a
        BY <3>2, <3>3, <4>1, <1>types, EmptyIsOrdered
      <4>2. CASE b # a
        <5>1. obj'[b] = obj[b] /\ obj[b].live
          BY <3>3, <3>7, <4>2
        <5>2. wire'[obj[b].peer] = wire[obj[b].peer]
          BY <3>3, <3>4, <5>1
        <5> QED
          BY <3>2, <5>1, <5>2, <1>order
      <4> QED
        BY <4>1, <4>2
    <3>8. ASSUME NEW w \in Writers, InLoop(w)', obj'[held'[w]].live
          PROVE  Between(wire'[obj'[held'[w]].peer], obj'[held'[w]].out, used', pack'[w], count'[w])
      <4>1. InLoop(w) /\ held'[w] = held[w] /\ held[w] \in Addrs /\ held[w] # a
        BY <2>1, <3>5, <3>8, <1>writes
      <4>2. obj'[held[w]] = obj[held[w]] /\ obj[held[w]].live
        BY <3>3, <3>8, <4>1
      <4>3. wire'[obj[held[w]].peer] = wire[obj[held[w]].peer]
        BY <3>3, <3>4, <4>1, <4>2
      <4> QED
        BY <2>1, <3>2, <4>1, <4>2, <4>3, <1>order
    <3> QED
      BY <3>6, <3>7, <3>8 DEF WireInv
  <2>6. CASE Push(t)
    <3> DEFINE a == held[t]
               q == obj[a].out
    <3>1. a \in Addrs
      BY <2>6, <1>types DEF Push, At, Inv, PointerInv
    <3>2. UNCHANGED wire /\ used' = used + 1
      BY <2>6 DEF Push
    <3>3. CASE ~obj[a].valid
      <4>1. UNCHANGED obj
        BY <2>6, <3>3, SMTT(30) DEF Push
      <4> QED
        BY <2>3, <3>2, <4>1
    <3>4. CASE obj[a].valid
      <4>1. obj' = [obj EXCEPT ![a].out = Append(@, used + 1)]
        BY <2>6, <3>4 DEF Push
      <4>2. /\ obj'[a].out = Append(q, used + 1)
            /\ \A b \in Addrs : obj'[b].peer = obj[b].peer /\ obj'[b].live = obj[b].live
            /\ \A b \in Addrs : b # a => obj'[b].out = obj[b].out
        BY <3>1, <4>1, <1>types
      <4>3. ASSUME NEW b \in Addrs, obj[b].live
            PROVE  /\ Ordered(wire[obj[b].peer], obj'[b].out, used + 1)
                   /\ \A k \in Nat, c \in Nat :
                        Between(wire[obj[b].peer], obj[b].out, used, k, c) =>
                        Between(wire[obj[b].peer], obj'[b].out, used + 1, k, c)
        <5> DEFINE u == wire[obj[b].peer]
        <5>1. u \in Seq(Nat \X (1..PackLen)) /\ obj[b].out \in Seq(Nat) /\ Ordered(u, obj[b].out, used)
          BY <4>3, <1>live, <1>typed, <1>order
        <5> HIDE DEF u
        <5>2. CASE b = a
          <6> DEFINE r == Append(obj[b].out, used + 1)
          <6>1. obj'[b].out = r
            BY <4>2, <5>2
          <6>2. Ordered(u, r, used + 1)
                /\ \A k \in Nat, c \in Nat : Between(u, obj[b].out, used, k, c) => Between(u, r, used + 1, k, c)
            BY <5>1, <1>types, PushKeepsOrder
          <6> HIDE DEF r
          <6> QED
            BY <6>1, <6>2 DEF u
        <5>3. CASE b # a
          BY <4>2, <5>1, <5>3, <1>types, MoreKeepsOrder DEF u
        <5> QED
          BY <5>2, <5>3
      <4> HIDE DEF a, q
      <4>4. \A p \in Peers : Ordered(wire'[p], <<>>, used')
        BY <2>more, <3>2
      <4>5. ASSUME NEW b \in Addrs, obj'[b].live PROVE Ordered(wire'[obj'[b].peer], obj'[b].out, used')
        BY <3>2, <4>2, <4>3, <4>5
      <4>6. ASSUME NEW w \in Writers, InLoop(w)', obj'[held'[w]].live
            PROVE  Between(wire'[obj'[held'[w]].peer], obj'[held'[w]].out, used', pack'[w], count'[w])
        <5>1. InLoop(w) /\ held'[w] = held[w] /\ held[w] \in Addrs /\ obj[held[w]].live
              /\ pack[w] \in Nat /\ count[w] \in Nat
          BY <2>1, <4>2, <4>6, <1>writes, <1>types
        <5>2. Between(wire[obj[held[w]].peer], obj'[held[w]].out, used + 1, pack[w], count[w])
          BY <4>3, <5>1, <1>order
        <5> QED
          BY <2>1, <3>2, <4>2, <5>1, <5>2
      <4> QED
        BY <4>4, <4>5, <4>6 DEF WireInv
    <3> QED
      BY <3>3, <3>4
  <2> QED
    BY <1>3, <2>2, <2>4, <2>5, <2>6 DEF HandOver
<1>4. CASE Removes
  <2>1. /\ UNCHANGED <<pack, count, used, wire>>
        /\ \A w \in Writers : pc'[w] = pc[w] /\ held'[w] = held[w]
        /\ \A a \in Addrs : /\ obj'[a].peer = obj[a].peer /\ obj'[a].out = obj[a].out
                            /\ obj'[a].live => obj[a].live
    BY <1>4, RemovesKeep
  <2>4. \A w \in Writers : InLoop(w)' <=> InLoop(w)
    BY <2>1 DEF InLoop
  <2>2. \A a \in Addrs : obj'[a].live => Ordered(wire'[obj'[a].peer], obj'[a].out, used')
    BY <2>1, <1>order
  <2>3. \A w \in Writers : InLoop(w)' /\ obj'[held'[w]].live =>
          Between(wire'[obj'[held'[w]].peer], obj'[held'[w]].out, used', pack'[w], count'[w])
    BY <2>1, <2>4, <1>order, <1>writes
  <2> QED
    BY <2>1, <2>2, <2>3, <1>order DEF WireInv
<1> QED
  BY <1>1, <1>2, <1>3, <1>4, StepCases

(* The constructors have accepted, sent and removed nothing.               *)
LEMMA InitOrder == Init => MapInv /\ MarksInv /\ CloseInv /\ WireInv
<1> SUFFICES ASSUME Init PROVE MapInv /\ MarksInv /\ CloseInv /\ WireInv
  OBVIOUS
<1>1. MapInv
  BY DEF Init, MapInv
<1>2. MarksInv
  BY ParametersAreValid, ThreadsAreDistinct
     DEF Init, MarksInv, OneSender, MarkMeansSender, Holds, Threads, NoObject
<1>3. \A t \in Threads : pc[t] \in {"off", "start", "idle"}
  BY DEF Init
<1>4. \A a \in Addrs : ~obj[a].live
  BY DEF Init, NoObject
<1>5. CloseInv
  BY <1>3, <1>4 DEF CloseInv, Threads, Holds
<1>6. \A p \in Peers : Ordered(wire[p], <<>>, used)
  BY EmptyIsOrdered DEF Init
<1>7. WireInv
  BY <1>3, <1>4, <1>6 DEF WireInv, Threads, InLoop
<1> QED
  BY <1>1, <1>2, <1>5, <1>7

(* What the bytes on the wires and in the queues keep is the order.        *)
LEMMA OrderIsKept == WireInv => WireInOrder
BY DEF WireInv, WireInOrder, Ordered

(* Addresses and numbers are given again to new connections all the time;  *)
(* as long as no address is one that a writer sends from or a reader is    *)
(* about to remove, and no number is one that a connection in the map, or  *)
(* one that a writer sends from, was closed with, the bytes on the wire of *)
(* each peer are in order: whichever connections are removed and added     *)
(* meanwhile, wherever Close comes between the test of m_IsValid and       *)
(* write(), and wherever write() fails.                                    *)
THEOREM WiresStayInOrderUnlessReused == CarefulSpec => []WireInOrder
<1>1. CarefulSpec => Spec /\ [][NothingReused]_vars
  <2>1. [Next /\ NothingReused]_vars => [Next]_vars /\ [NothingReused]_vars
    OBVIOUS
  <2> QED
    BY <2>1, PTL DEF CarefulSpec, Spec
<1>2. Inv /\ MapInv /\ MarksInv /\ CloseInv /\ WireInv
      /\ [Next]_vars /\ [NothingReused]_vars
      => MapInv' /\ MarksInv' /\ CloseInv' /\ WireInv'
  <2> SUFFICES ASSUME Inv, MapInv, MarksInv, CloseInv, WireInv, [Next]_vars,
                      [NothingReused]_vars
               PROVE  MapInv' /\ MarksInv' /\ CloseInv' /\ WireInv'
    OBVIOUS
  <2>1. CASE UNCHANGED vars
    <3>1. UNCHANGED <<pc, conns, obj, held, peer, pack, count, used, wire, socket>>
      BY <2>1 DEF vars, data, threadVars, history
    <3> QED
      BY <3>1 DEF MapInv, MarksInv, OneSender, MarkMeansSender, Holds, CloseInv, WireInv,
                  IsClosed, InLoop
  <2>2. CASE NothingReused
    BY <2>2, MapStep, MarksStep, CloseStep, WireStep DEF NothingReused
  <2> QED
    BY <2>1, <2>2
<1> QED
  BY InvHolds, InitOrder, OrderIsKept, <1>1, <1>2, PTL DEF Spec

------------------------------------------------------------------------------
(* The wires while no connection is removed.                               *)

(* Nothing is closed or deleted, and what is added is open.                *)
LEMMA LifeStep ==
  ASSUME Inv, MapInv, LifeInv, Readers = {}, Disconnectors = {}, [Next]_vars
  PROVE  LifeInv'
<1>types. /\ pc \in [Threads -> Labels]
          /\ held \in [Threads -> Addrs \cup {Null}]
          /\ conns \in [Peers -> Addrs \cup {Null}]
          /\ obj \in [Addrs -> Object]
          /\ Null \notin Addrs
          /\ Apps \subseteq Threads /\ Writers \cap Apps = {}
  BY ParametersAreValid, ThreadsAreDistinct DEF Inv, TypeOK, Threads
<1>closed. \A p \in Peers : p # Closed
  BY ParametersAreValid DEF Peers, Closed
<1>noerase. \A t \in Threads : pc[t] # "erase"
  BY <1>types DEF Inv, PointerInv
<1>pointers. \A t \in Apps : pc[t] = "push" => held[t] \in Addrs
  BY <1>types DEF Inv, PointerInv
<1>peers. \A t \in Apps : pc[t] \in {"insert", "writepacket"} => peer[t] \in Peers
  BY <1>types DEF Inv, PointerInv
<1>live. /\ \A a \in Addrs : obj[a].live =>
              /\ obj[a].peer \in Peers /\ obj[a].valid /\ conns[obj[a].peer] = a
              /\ obj[a].fd \in FDs /\ socket[obj[a].fd] = obj[a].peer
         /\ \A t \in Apps : pc[t] = "push" => obj[held[t]].live
  BY DEF Inv, PointerInv, LifeInv
<1>1. CASE Quiet
  BY <1>1, <1>live, <1>pointers DEF Quiet, LifeInv
<1>2. ASSUME NEW w \in Writers, Transfer(w) PROVE LifeInv'
  <2>1. /\ UNCHANGED <<conns, socket>>
        /\ \A a \in Addrs : /\ obj'[a].live = obj[a].live /\ obj'[a].valid = obj[a].valid
                            /\ obj'[a].peer = obj[a].peer /\ obj'[a].fd = obj[a].fd
        /\ \A t \in Threads : t # w => pc'[t] = pc[t] /\ held'[t] = held[t]
    BY <1>2, TransferKeeps
  <2>2. \A t \in Apps : pc'[t] = pc[t] /\ held'[t] = held[t]
    BY <1>types, <2>1
  <2> QED
    BY <1>live, <1>pointers, <2>1, <2>2 DEF LifeInv
<1>3. ASSUME NEW t \in Apps, Insert(t) PROVE LifeInv'
  <2>1. PICK a \in Addrs, f \in FDs :
          /\ ~obj[a].live
          /\ socket[f] = Closed
          /\ obj' = [obj EXCEPT ![a] = [live |-> TRUE, peer |-> peer[t], valid |-> TRUE,
                                        sending |-> FALSE, out |-> <<>>, fd |-> f]]
          /\ conns' = [conns EXCEPT ![peer[t]] = a]
          /\ socket' = [g \in FDs |-> IF g = f THEN peer[t]
                                      ELSE IF socket[g] = peer[t] THEN Stray ELSE socket[g]]
    BY <1>3, InsertPicks, Zenon
  <2>2. conns[peer[t]] = Null /\ peer[t] \in Peers /\ UNCHANGED held
    BY <1>3, <1>peers DEF Insert, At, threadVars
  <2>3. \A x \in Apps : pc'[x] = "push" => pc[x] = "push"
    BY <1>3, <1>types DEF Insert, Goto
  <2>4. \A b \in Addrs : obj'[b].live => (b = a \/ obj[b].live)
    BY <2>1, <1>types
  <2>5. /\ obj'[a].valid /\ obj'[a].peer = peer[t] /\ conns'[peer[t]] = a /\ obj'[a].live
        /\ obj'[a].fd = f /\ socket'[f] = peer[t]
    BY <2>1, <2>2, <1>types
  <2>6. ASSUME NEW b \in Addrs, b # a, obj[b].live
        PROVE  /\ obj'[b].live /\ obj'[b].valid /\ conns'[obj'[b].peer] = b
               /\ obj'[b].fd \in FDs /\ socket'[obj'[b].fd] = obj'[b].peer
    <3>1. /\ obj'[b] = obj[b] /\ conns[obj[b].peer] = b /\ obj[b].valid /\ obj[b].peer \in Peers
          /\ obj[b].fd \in FDs /\ socket[obj[b].fd] = obj[b].peer
      BY <2>1, <2>6, <1>live, <1>types
    <3>2. obj[b].peer # peer[t]
      BY <2>2, <3>1, <1>types
    <3>3. obj[b].fd # f
      BY <2>1, <3>1, <1>closed
    <3>4. socket'[obj[b].fd] = socket[obj[b].fd]
      BY <2>1, <3>1, <3>2, <3>3
    <3>5. conns'[obj[b].peer] = conns[obj[b].peer]
      BY <2>1, <2>2, <3>1, <3>2, <1>types
    <3> QED
      BY <2>6, <3>1, <3>4, <3>5
  <2>7. \A b \in Addrs : obj'[b].live =>
          /\ obj'[b].valid /\ conns'[obj'[b].peer] = b
          /\ obj'[b].fd \in FDs /\ socket'[obj'[b].fd] = obj'[b].peer
    BY <2>4, <2>5, <2>6
  <2>8. \A x \in Apps : pc'[x] = "push" => obj'[held'[x]].live
    BY <2>1, <2>2, <2>3, <2>6, <1>live, <1>pointers
  <2> QED
    BY <2>7, <2>8 DEF LifeInv
<1>4. ASSUME NEW t \in Apps, WritePacketFinds(t) PROVE LifeInv'
  <2>1. PICK a \in Lookup(peer[t]) \ {Null} : held' = [held EXCEPT ![t] = a]
    BY <1>4 DEF WritePacketFinds
  <2>2. peer[t] \in Peers /\ UNCHANGED <<obj, conns, socket>> /\ pc' = [pc EXCEPT ![t] = "push"]
    BY <1>4, <1>peers DEF WritePacketFinds, At, Goto, history
  <2>3. a = conns[peer[t]] /\ a # Null
    BY <2>1 DEF Lookup
  <2>4. obj[a].live
    BY <2>2, <2>3, <1>noerase DEF MapInv
  <2>5. \A x \in Apps : pc'[x] = "push" => obj[held'[x]].live
    BY <2>1, <2>2, <2>4, <1>live, <1>types
  <2> QED
    BY <2>2, <2>5, <1>live DEF LifeInv
<1>5. ASSUME NEW t \in Apps, WritePacketMisses(t) PROVE LifeInv'
  <2>1. UNCHANGED <<obj, conns, held, socket>> /\ \A x \in Apps : pc'[x] = "push" => pc[x] = "push"
    BY <1>5, <1>types DEF WritePacketMisses, Goto
  <2> QED
    BY <2>1, <1>live DEF LifeInv
<1>6. ASSUME NEW t \in Apps, Push(t) PROVE LifeInv'
  <2>1. /\ UNCHANGED <<conns, socket>>
        /\ \A a \in Addrs : obj'[a].live = obj[a].live /\ obj'[a].peer = obj[a].peer
    BY <1>6, PushKeepsObject DEF Push, Inv
  <2>2. \A a \in Addrs : obj'[a].valid = obj[a].valid /\ obj'[a].fd = obj[a].fd
    <3>1. CASE obj[held[t]].valid
      <4>1. obj' = [obj EXCEPT ![held[t]].out = Append(@, used + 1)]
        BY <1>6, <3>1 DEF Push
      <4> QED
        BY <4>1, <1>types
    <3>2. CASE ~obj[held[t]].valid
      BY <1>6, <3>2 DEF Push
    <3> QED
      BY <3>1, <3>2
  <2>3. \A x \in Apps : pc'[x] = "push" => x # t
    BY <1>6, <1>types DEF Push, Signal, Goto, Sleeping
  <2>4. \A x \in Apps : pc'[x] = "push" => pc[x] = "push" /\ held'[x] = held[x]
    BY <1>6, <2>3, HandOverKeeps DEF HandOver
  <2> QED
    BY <2>1, <2>2, <2>4, <1>live, <1>pointers DEF LifeInv
<1> QED
  BY <1>1, <1>2, <1>3, <1>4, <1>5, <1>6, NothingRemoved DEF HandOver

(* A writer lets go of a packet with its connection.                       *)
LEMMA PackStep ==
  ASSUME Inv, MapInv, PackInv, Readers = {}, Disconnectors = {}, [Next]_vars
  PROVE  PackInv'
<1>types. /\ pc \in [Threads -> Labels] /\ Writers \subseteq Threads
          /\ pack \in [Writers -> Nat] /\ count \in [Writers -> 0..PackLen]
          /\ PackLen \in Nat \ {0}
  BY ParametersAreValid DEF Inv, TypeOK, Threads
<1>1. CASE Quiet
  BY <1>1 DEF Quiet, PackInv, InLoop
<1>2. ASSUME NEW w \in Writers, Transfer(w) PROVE PackInv'
  <2>1. \A v \in Writers : v # w => pack'[v] = pack[v] /\ count'[v] = count[v] /\ pc'[v] = pc[v]
    BY <1>2, <1>types, TransferKeeps
  <2>2. /\ pack'[w] # 0 => pc'[w] \in {"write", "writing", "unmark"}
        /\ InLoop(w)' => count'[w] < PackLen
    <3>1. CASE Pop(w)
      BY <3>1, <1>types DEF Pop, Goto, InLoop
    <3>2. CASE WriteSome(w)
      <4>1. PICK n \in 1..(PackLen - count[w]) :
              /\ count' = [count EXCEPT ![w] = @ + n]
              /\ pc' = [pc EXCEPT ![w] = IF count[w] + n = PackLen THEN "unmark" ELSE "write"]
        BY <3>2 DEF WriteSome, Goto
      <4> QED
        BY <4>1, <1>types DEF InLoop
    <3>3. CASE WriteFails(w) \/ WriteSeesClosed(w)
      BY <3>3, <1>types DEF WriteFails, WriteSeesClosed, Goto, InLoop
    <3>4. CASE Unmark(w)
      BY <3>4, <1>types DEF Unmark, Goto, InLoop
    <3> QED
      BY <1>2, <3>1, <3>2, <3>3, <3>4 DEF Transfer
  <2> QED
    BY <2>1, <2>2 DEF PackInv, InLoop
<1>3. ASSUME NEW t \in Apps, HandOver(t) PROVE PackInv'
  BY <1>3, HandOverKeeps DEF PackInv, InLoop
<1> QED
  BY <1>1, <1>2, <1>3, NothingRemoved

(* What a writer in the loop of Send holds: a live connection, alone, and  *)
(* no other live connection is to the same peer.                           *)
LEMMA SenderIsAlone ==
  ASSUME Inv, SenderInv, LifeInv, NEW w \in Writers, Holds(w)
  PROVE  /\ held[w] \in Addrs /\ obj[held[w]].live /\ obj[held[w]].valid
         /\ obj[held[w]].peer \in Peers /\ conns[obj[held[w]].peer] = held[w]
         /\ Target(w) = obj[held[w]].peer /\ Target(w) # Closed
         /\ \A v \in Writers : Holds(v) /\ v # w => held[v] # held[w]
         /\ \A b \in Addrs : obj[b].live /\ b # held[w] => obj[b].peer # obj[held[w]].peer
<1>1. w \in Threads
  BY DEF Threads
<1>2. held[w] \in Addrs /\ obj[held[w]].live
  BY <1>1 DEF Inv, PointerInv, SenderInv, Holds
<1>3. obj[held[w]].peer \in Peers
  BY <1>2 DEF Inv, PointerInv
<1>4. obj[held[w]].peer # Closed
  BY <1>3, ParametersAreValid DEF Peers, Closed
<1> QED
  BY <1>2, <1>3, <1>4 DEF SenderInv, MarksInv, OneSender, LifeInv, Target

(* An entry of the map leads to a live connection of its peer.             *)
LEMMA MappedIsLive ==
  ASSUME Inv, MapInv, Readers = {}, Disconnectors = {}, NEW p \in Peers, conns[p] # Null
  PROVE  conns[p] \in Addrs /\ obj[conns[p]].live /\ obj[conns[p]].peer = p
<1>1. \A t \in Threads : pc[t] # "erase"
  BY DEF Inv, PointerInv
<1> QED
  BY <1>1 DEF Inv, TypeOK, MapInv

(* The constructors leave nothing to send.                                 *)
LEMMA InitWires == Init => LifeInv /\ PackInv /\ DoneInv
<1> SUFFICES ASSUME Init PROVE LifeInv /\ PackInv /\ DoneInv
  OBVIOUS
<1>1. \A a \in Addrs : ~obj[a].live
  BY DEF Init, NoObject
<1>2. \A t \in Threads : pc[t] \notin {"push", "write", "writing", "unmark"}
  BY DEF Init
<1>3. \A w \in Writers : pack[w] = 0 /\ w \in Threads
  BY DEF Init, Threads
<1>4. \A t \in Apps : t \in Threads
  BY DEF Threads
<1> QED
  BY <1>1, <1>2, <1>3, <1>4 DEF LifeInv, PackInv, DoneInv, InLoop

(* The invariants of the wires, and what they rest on, at all times.       *)
WiresInv == Inv /\ MapInv /\ SenderInv /\ CloseInv /\ WireInv /\ LifeInv /\ PackInv

(* While nothing is closed or deleted, nothing can be used again.          *)
LEMMA NothingIsReused ==
  ASSUME Inv, SenderInv, LifeInv, Readers = {}
  PROVE  NothingReused
<1>1. \A p \in Peers : p # Closed
  BY ParametersAreValid DEF Peers, Closed
<1>2. \A a \in Addrs : InUse(a) => obj[a].live
  BY DEF InUse, SenderInv
<1>3. NoNumberReused
  <2> SUFFICES ASSUME NEW a \in Addrs, InUse(a) PROVE ~Reopened(obj[a].fd)
    BY DEF NoNumberReused
  <2> QED
    BY <1>1, <1>2 DEF LifeInv, Reopened, Inv, PointerInv
<1> QED
  BY <1>3, NoSenderIsStale DEF NothingReused, NoRemovalReplaced

LEMMA WiresInvHolds ==
  ASSUME Readers = {}, Disconnectors = {}
  PROVE  Spec => []WiresInv
<1>1. Inv /\ MapInv /\ SenderInv /\ CloseInv /\ WireInv /\ LifeInv /\ PackInv /\ [Next]_vars
      => CloseInv' /\ WireInv' /\ LifeInv' /\ PackInv'
  BY NothingIsReused, CloseStep, WireStep, LifeStep, PackStep DEF SenderInv
<1> QED
  BY SenderInvHolds, InitOrder, InitWires, <1>1, PTL DEF Spec, WiresInv

(* As long as no connection is removed, the bytes on the wire of a peer    *)
(* are in the order in which the packets were accepted and none is sent    *)
(* twice -- whichever writers send them, and even when write() fails and   *)
(* CRPCConnection::Send drops the rest of a packet.                        *)
THEOREM WiresStayInOrder ==
  ASSUME Readers = {}, Disconnectors = {}
  PROVE  Spec => []WireInOrder
BY WiresInvHolds, OrderIsKept, PTL DEF WiresInv

------------------------------------------------------------------------------
(* The packets on a wire *)

(* The j-th unit of the i-th packet is on the part of the wire that the    *)
(* first n packets take.                                                   *)
LEMMA UnitIsInside ==
  ASSUME NEW n \in Nat, NEW P \in Nat \ {0}, NEW i \in 1..n, NEW j \in 1..P
  PROVE  (i - 1) * P + j \in 1..(n * P)
<1>1. i - 1 \in Nat /\ i \in Nat /\ i <= n
  OBVIOUS
<1>2. (i - 1) * P \in Nat /\ i * P = (i - 1) * P + P
  BY <1>1
<1>3. i * P <= n * P /\ n * P \in Nat
  BY <1>1
<1> QED
  BY <1>2, <1>3

LEMMA WholePackets ==
  ASSUME NEW n \in Nat, NEW P \in Nat \ {0}, NEW c \in Nat, c < P
  PROVE  (n * P + c) \div P = n
OBVIOUS

(* A packet of which no unit is written changes nothing.                   *)
LEMMA NothingWritten ==
  ASSUME NEW u, NEW s, NEW k, Framed(u, s, 0, 0)
  PROVE  Framed(u, s, k, 0)
BY DEF Framed

LEMMA EmptyIsFramed ==
  ASSUME PackLen \in Nat \ {0}
  PROVE  PacketsOf(<<>>) = <<>> /\ Framed(<<>>, <<>>, 0, 0)
<1>1. 0 \div PackLen = 0
  OBVIOUS
<1> QED
  BY <1>1 DEF PacketsOf, Framed

(* What the wire carries can be read off it.                               *)
LEMMA FramedIsRead ==
  ASSUME NEW u, NEW s, NEW k, NEW c \in Nat, c < PackLen, PackLen \in Nat \ {0}, Framed(u, s, k, c)
  PROVE  PacketsOf(u) = s
<1>1. s \in Seq(Nat) /\ Len(s) \in Nat /\ Len(u) = Len(s) * PackLen + c
  BY DEF Framed
<1>2. Len(u) \div PackLen = Len(s)
  <2> DEFINE n == Len(s)
             d == Len(u)
  <2>1. n \in Nat /\ d = n * PackLen + c
    BY <1>1
  <2> HIDE DEF n, d
  <2>2. d \div PackLen = n
    BY <2>1, WholePackets
  <2> QED
    BY <2>2 DEF n, d
<1>3. ASSUME NEW i \in 1..Len(s) PROVE PacketAt(u, i) = s[i]
  <2>1. \A j \in 1..PackLen : u[(i - 1) * PackLen + j] = <<s[i], j>>
    BY <1>3 DEF Framed
  <2>2. u[(i - 1) * PackLen + 1] = <<s[i], 1>>
    BY <2>1
  <2>3. u[(i - 1) * PackLen + 1][1] = s[i]
    BY <2>2
  <2> QED
    BY <2>1, <2>3, Zenon DEF PacketAt
<1>4. s = [i \in 1..Len(s) |-> s[i]]
  BY <1>1
<1>5. PacketsOf(u) = [i \in 1..Len(s) |-> s[i]]
  BY <1>2, <1>3 DEF PacketsOf
<1> QED
  BY <1>4, <1>5

(* One write() of the packet in hand.                                      *)
LEMMA MoreIsFramed ==
  ASSUME NEW u, NEW s, NEW k \in Nat, NEW c \in Nat, NEW m \in Nat, PackLen \in Nat \ {0},
         Framed(u, s, k, c), NEW v, Longer(v, u, k, c, m)
  PROVE  Framed(v, s, k, c + m)
<1> DEFINE d == Len(u)
           n == Len(s)
<1>s. s \in Seq(Nat) /\ n \in Nat /\ d = n * PackLen + c
  BY DEF Framed
<1>v. /\ d \in Nat /\ Len(v) = d + m
      /\ \A i \in 1..d : v[i] = u[i]
      /\ \A i \in 1..m : v[d + i] = <<k, c + i>>
  BY DEF Longer
<1>n. n * PackLen \in Nat
  BY <1>s
<1>1. /\ s \in Seq(Nat) /\ n \in Nat /\ d \in Nat /\ Len(v) = d + m
      /\ d = n * PackLen + c /\ n * PackLen \in Nat
      /\ \A i \in 1..d : v[i] = u[i]
      /\ \A i \in 1..m : v[d + i] = <<k, c + i>>
  BY <1>s, <1>v, <1>n, Zenon
<1>2. /\ \A i \in 1..n : \A j \in 1..PackLen : u[(i - 1) * PackLen + j] = <<s[i], j>>
      /\ \A j \in 1..c : u[n * PackLen + j] = <<k, j>>
  BY DEF Framed
<1> HIDE DEF d, n
<1>3. ASSUME NEW i \in 1..n, NEW j \in 1..PackLen PROVE v[(i - 1) * PackLen + j] = <<s[i], j>>
  <2>1. (i - 1) * PackLen + j \in 1..(n * PackLen)
    BY <1>1, UnitIsInside
  <2> DEFINE e == (i - 1) * PackLen + j
             nP == n * PackLen
  <2> HIDE DEF e, nP
  <2>2. e \in 1..d
    <3>1. e \in 1..nP /\ nP \in Nat /\ d = nP + c
      BY <1>1, <2>1 DEF e, nP
    <3> QED
      BY <3>1
  <2>3. v[e] = u[e]
    BY <1>1, <2>2
  <2> QED
    BY <1>2, <2>3 DEF e
<1>4. ASSUME NEW j \in 1..(c + m) PROVE v[n * PackLen + j] = <<k, j>>
  <2> DEFINE e == n * PackLen
  <2>1. e \in Nat /\ d = e + c /\ d \in Nat /\ \A i \in 1..c : u[e + i] = <<k, i>>
    BY <1>1, <1>2
  <2> SUFFICES v[e + j] = <<k, j>>
    OBVIOUS
  <2> HIDE DEF e
  <2>2. CASE j <= c
    <3>1. e + j \in 1..d /\ j \in 1..c
      BY <2>1, <2>2
    <3> QED
      BY <1>1, <2>1, <3>1
  <2>3. CASE j > c
    <3>1. j - c \in 1..m /\ d + (j - c) = e + j /\ c + (j - c) = j
      <4>1. e \in Nat /\ d = e + c
        BY <2>1
      <4> QED
        BY <4>1, <2>3
    <3>2. v[d + (j - c)] = <<k, c + (j - c)>>
      BY <1>1, <3>1
    <3> QED
      BY <3>1, <3>2
  <2> QED
    BY <2>2, <2>3
<1>5. Len(v) = n * PackLen + (c + m)
  BY <1>1
<1> QED
  BY <1>1, <1>3, <1>4, <1>5 DEF Framed, n

(* The last unit of a packet makes it one of the packets on the wire.      *)
LEMMA LastIsFramed ==
  ASSUME NEW u, NEW s, NEW k \in Nat, PackLen \in Nat \ {0}, Framed(u, s, k, PackLen)
  PROVE  Framed(u, Append(s, k), 0, 0)
<1> DEFINE n == Len(s)
           r == Append(s, k)
<1>s. s \in Seq(Nat)
  BY DEF Framed
<1>n. n \in Nat
  BY <1>s
<1>1. /\ s \in Seq(Nat) /\ n \in Nat /\ Len(u) = n * PackLen + PackLen
      /\ \A i \in 1..n : \A j \in 1..PackLen : u[(i - 1) * PackLen + j] = <<s[i], j>>
      /\ \A j \in 1..PackLen : u[n * PackLen + j] = <<k, j>>
  BY <1>s, <1>n, Zenon DEF Framed
<1>2. /\ r \in Seq(Nat) /\ Len(r) = n + 1 /\ r[n + 1] = k
      /\ \A i \in 1..n : r[i] = s[i]
  BY <1>1
<1> HIDE DEF n, r
<1>3. ASSUME NEW i \in 1..(n + 1), NEW j \in 1..PackLen
      PROVE  u[(i - 1) * PackLen + j] = <<r[i], j>>
  <2>1. CASE i \in 1..n
    BY <1>1, <1>2, <2>1
  <2>2. CASE i = n + 1
    <3>1. i - 1 = n
      BY <1>1, <2>2
    <3> QED
      BY <1>1, <1>2, <2>2, <3>1
  <2> QED
    BY <1>1, <2>1, <2>2
<1>4. Len(u) = (n + 1) * PackLen + 0
  BY <1>1
<1>5. Framed(u, r, 0, 0)
  <2>1. Len(u) = Len(r) * PackLen + 0
    BY <1>2, <1>4
  <2>2. \A i \in 1..Len(r) : \A j \in 1..PackLen : u[(i - 1) * PackLen + j] = <<r[i], j>>
    BY <1>2, <1>3
  <2>3. \A j \in 1..0 : u[Len(r) * PackLen + j] = <<0, j>>
    OBVIOUS
  <2> QED
    BY <1>2, <2>1, <2>2, <2>3, Zenon DEF Framed
<1> QED
  BY <1>5 DEF r

(* A write() either leaves the packet in hand unfinished, or puts it on    *)
(* the wire whole.                                                         *)
LEMMA WrittenIsFramed ==
  ASSUME NEW u \in Seq(Nat \X (1..PackLen)), NEW k \in Nat, NEW c \in Nat, NEW m \in Nat,
         PackLen \in Nat \ {0}, c < PackLen, c + m <= PackLen, Framed(u, PacketsOf(u), k, c)
  PROVE  LET v == u \o Units(k, c, m)
         IN  /\ c + m < PackLen => PacketsOf(v) = PacketsOf(u) /\ Framed(v, PacketsOf(v), k, c + m)
             /\ c + m = PackLen => /\ PacketsOf(v) = Append(PacketsOf(u), k)
                                   /\ Framed(v, PacketsOf(v), 0, 0)
<1> DEFINE v == u \o Units(k, c, m)
           s == PacketsOf(u)
<1>1. Longer(v, u, k, c, m)
  BY WriteIsLonger
<1> SUFFICES /\ c + m < PackLen => PacketsOf(v) = s /\ Framed(v, PacketsOf(v), k, c + m)
             /\ c + m = PackLen => PacketsOf(v) = Append(s, k) /\ Framed(v, PacketsOf(v), 0, 0)
  OBVIOUS
<1>2. Framed(u, s, k, c)
  OBVIOUS
<1> HIDE DEF v, s
<1>n. c + m \in Nat /\ 0 \in Nat /\ 0 < PackLen
  OBVIOUS
<1>3. Framed(v, s, k, c + m)
  BY <1>1, <1>2, MoreIsFramed
<1>4. CASE c + m < PackLen
  BY <1>n, <1>3, <1>4, FramedIsRead
<1>5. CASE c + m = PackLen
  <2>1. Framed(v, Append(s, k), 0, 0)
    BY <1>3, <1>5, LastIsFramed
  <2>2. PacketsOf(v) = Append(s, k)
    BY <1>n, <2>1, FramedIsRead, Zenon
  <2> QED
    BY <1>5, <2>1, <2>2
<1> QED
  BY <1>4, <1>5

(* Nor does a write() fail then, or find its connection closed.            *)
LEMMA NothingFails ==
  ASSUME Inv, SenderInv, LifeInv, ~MayFail, NEW w \in Writers, Transfer(w)
  PROVE  Pop(w) \/ WriteSome(w) \/ Unmark(w)
<1>1. ~WriteFails(w)
  <2> SUFFICES ASSUME WriteFails(w) PROVE FALSE
    OBVIOUS
  <2>1. Holds(w) /\ Target(w) = Closed
    BY DEF WriteFails, At, Holds
  <2> QED
    BY <2>1, SenderIsAlone
<1>2. ~WriteSeesClosed(w)
  <2> SUFFICES ASSUME WriteSeesClosed(w) PROVE FALSE
    OBVIOUS
  <2>1. Holds(w) /\ ~obj[held[w]].valid
    BY DEF WriteSeesClosed, At, Holds
  <2> QED
    BY <2>1, SenderIsAlone
<1> QED
  BY <1>1, <1>2 DEF Transfer

(* When write() never fails, every step keeps the packets on the wires     *)
(* whole.                                                                  *)
LEMMA FrameStep ==
  ASSUME WiresInv, FrameInv, ~MayFail, Readers = {}, Disconnectors = {}, [Next]_vars
  PROVE  FrameInv'
<1>types. /\ pc \in [Threads -> Labels] /\ held \in [Threads -> Addrs \cup {Null}]
          /\ conns \in [Peers -> Addrs \cup {Null}] /\ obj \in [Addrs -> Object]
          /\ pack \in [Writers -> Nat] /\ count \in [Writers -> 0..PackLen]
          /\ used \in Nat /\ wire \in [Peers -> Seq(Nat \X (1..PackLen))]
          /\ PackLen \in Nat \ {0} /\ Null \notin Addrs
          /\ Writers \subseteq Threads /\ Apps \subseteq Threads /\ Writers \cap Apps = {}
  BY ParametersAreValid, ThreadsAreDistinct DEF WiresInv, Inv, TypeOK, Threads
<1>live. \A a \in Addrs : obj[a].live => obj[a].peer \in Peers /\ obj[a].valid
                                         /\ conns[obj[a].peer] = a
  BY DEF WiresInv, Inv, PointerInv, LifeInv
<1>holds. \A w \in Writers : Holds(w) =>
            /\ held[w] \in Addrs /\ obj[held[w]].live /\ obj[held[w]].valid
            /\ \A v \in Writers : Holds(v) /\ v # w => held[v] # held[w]
            /\ \A b \in Addrs : obj[b].live /\ b # held[w] => obj[b].peer # obj[held[w]].peer
  BY SenderIsAlone DEF WiresInv
<1>1. CASE Quiet
  <2>1. \A w \in Writers, a \in Addrs : Sends(w, a)' <=> Sends(w, a)
    BY <1>1 DEF Quiet, Sends, InLoop
  <2> QED
    BY <1>1, <2>1, <1>types DEF Quiet, FrameInv
<1>2. ASSUME NEW w \in Writers, Transfer(w) PROVE FrameInv'
  <2>1. /\ \A a \in Addrs : obj'[a].live = obj[a].live /\ obj'[a].peer = obj[a].peer
        /\ \A v \in Writers : v # w => /\ pc'[v] = pc[v] /\ held'[v] = held[v]
                                       /\ pack'[v] = pack[v] /\ count'[v] = count[v]
    BY <1>2, <1>types, TransferKeeps DEF WiresInv
  <2> DEFINE a == held[w]
             p == obj[a].peer
             u == wire[p]
             u2 == wire'[p]
             s2 == PacketsOf(u2)
  <2>2. Holds(w)
    BY <1>2, TransferKeeps DEF WiresInv
  <2>3. /\ a \in Addrs /\ obj[a].live /\ obj[a].valid /\ p \in Peers
        /\ \A v \in Writers : v # w => ~Sends(v, a)
        /\ \A b \in Addrs : obj[b].live /\ b # a => obj[b].peer # p /\ obj[b].peer \in Peers
    BY <2>2, <1>holds, <1>live DEF Sends, Holds, InLoop
  <2>type. u \in Seq(Nat \X (1..PackLen)) /\ pack[w] \in Nat /\ count[w] \in Nat
    BY <2>3, <1>types
  <2>4. /\ ~Sends(w, a) => Framed(u, PacketsOf(u), 0, 0)
        /\ Sends(w, a) => Framed(u, PacketsOf(u), pack[w], count[w])
    BY <2>3, Zenon DEF FrameInv
  <2>frame. ASSUME /\ \A r \in Peers : r # p => wire'[r] = wire[r]
                   /\ ~InLoop(w)' => Framed(u2, s2, 0, 0)
                   /\ InLoop(w)' => held'[w] = a /\ Framed(u2, s2, pack'[w], count'[w])
            PROVE  FrameInv'
    <3> SUFFICES ASSUME NEW b \in Addrs, obj[b].live
                 PROVE  LET x == wire'[obj[b].peer]
                        IN  /\ (\A v \in Writers : ~Sends(v, b)') => Framed(x, PacketsOf(x), 0, 0)
                            /\ \A v \in Writers : Sends(v, b)' =>
                                 Framed(x, PacketsOf(x), pack'[v], count'[v])
      BY <2>1 DEF FrameInv
    <3>1. CASE b = a
      <4>1. \A v \in Writers : v # w => ~Sends(v, b)'
        BY <2>1, <2>3, <3>1 DEF Sends, InLoop
      <4>2. Sends(w, b)' <=> InLoop(w)'
        BY <2>frame, <3>1 DEF Sends
      <4>3. CASE InLoop(w)'
        <5>1. Framed(u2, s2, pack'[w], count'[w]) /\ Sends(w, b)'
          BY <2>frame, <4>2, <4>3
        <5> QED
          BY <3>1, <4>1, <5>1, Zenon
      <4>4. CASE ~InLoop(w)'
        <5>1. Framed(u2, s2, 0, 0) /\ ~Sends(w, b)'
          BY <2>frame, <4>2, <4>4
        <5> QED
          BY <3>1, <4>1, <5>1, Zenon
      <4> QED
        BY <4>3, <4>4
    <3>2. CASE b # a
      <4>1. wire'[obj[b].peer] = wire[obj[b].peer]
        BY <2>frame, <2>3, <3>2
      <4>2. \A v \in Writers : v # w => (Sends(v, b)' <=> Sends(v, b))
        BY <2>1 DEF Sends, InLoop
      <4>3. ~Sends(w, b) /\ ~Sends(w, b)'
        BY <2>frame, <3>2 DEF Sends
      <4> QED
        BY <2>1, <4>1, <4>2, <4>3 DEF FrameInv
    <3> QED
      BY <3>1, <3>2
  <2>5. CASE Pop(w)
    <3>1. /\ pc[w] = "pop" /\ UNCHANGED <<wire, held>> /\ pack' = [pack EXCEPT ![w] = Head(obj[a].out)]
          /\ count' = [count EXCEPT ![w] = 0] /\ pc' = [pc EXCEPT ![w] = "write"]
      BY <2>5 DEF Pop, history, At, Goto
    <3>2. InLoop(w)' /\ count'[w] = 0 /\ Framed(u, PacketsOf(u), 0, 0)
      BY <2>4, <3>1, <1>types DEF Sends, InLoop
    <3>3. Framed(u, PacketsOf(u), pack'[w], 0)
      BY <3>2, NothingWritten
    <3> QED
      BY <2>frame, <3>1, <3>2, <3>3
  <2>6. CASE WriteSome(w)
    <3>1. PICK n \in 1..(PackLen - count[w]) :
            /\ wire' = [wire EXCEPT ![p] = @ \o Units(pack[w], count[w], n)]
            /\ count' = [count EXCEPT ![w] = @ + n]
            /\ pc' = [pc EXCEPT ![w] = IF count[w] + n = PackLen THEN "unmark" ELSE "write"]
            /\ UNCHANGED <<held, pack>>
      BY <2>6, WriteGoesHome DEF WiresInv
    <3>2. Sends(w, a) /\ count[w] < PackLen
      BY <2>6 DEF WriteSome, At, Sends, InLoop, WiresInv, PackInv
    <3> DEFINE x == u \o Units(pack[w], count[w], n)
    <3>3. u2 = x /\ \A r \in Peers : r # p => wire'[r] = wire[r]
      <4> HIDE DEF p
      <4> QED
        BY <2>3, <3>1, <1>types
    <3>4. /\ count'[w] = count[w] + n
          /\ pc'[w] = IF count[w] + n = PackLen THEN "unmark" ELSE "write"
      BY <3>1, <1>types
    <3>5. n \in Nat /\ count[w] + n <= PackLen
      <4>1. count[w] \in 0..PackLen /\ PackLen \in Nat
        BY <1>types
      <4> QED
        BY <4>1
    <3>6. Framed(u, PacketsOf(u), pack[w], count[w])
      BY <2>4, <3>2
    <3> HIDE DEF p, u
    <3>7. /\ count[w] + n < PackLen => Framed(x, PacketsOf(x), pack[w], count[w] + n)
          /\ count[w] + n = PackLen => Framed(x, PacketsOf(x), 0, 0)
      BY <2>type, <3>2, <3>5, <3>6, <1>types, WrittenIsFramed
    <3> HIDE DEF x
    <3>8. ~InLoop(w)' => Framed(u2, s2, 0, 0)
      BY <3>3, <3>4, <3>5, <3>7 DEF InLoop
    <3>9. InLoop(w)' => held'[w] = a /\ Framed(u2, s2, pack'[w], count'[w])
      <4>1. InLoop(w)' => count[w] + n < PackLen
        <5>1. count[w] \in 0..PackLen /\ PackLen \in Nat
          BY <1>types
        <5> QED
          BY <3>4, <3>5, <5>1 DEF InLoop
      <4>2. held'[w] = a /\ pack'[w] = pack[w] /\ count'[w] = count[w] + n
        BY <3>1, <3>4
      <4> QED
        BY <3>3, <3>7, <4>1, <4>2
    <3> QED
      BY <2>frame, <3>3, <3>8, <3>9
  <2>7. CASE Unmark(w)
    <3>1. pc[w] = "unmark" /\ ~InLoop(w)' /\ UNCHANGED wire
      BY <2>7, <1>types DEF Unmark, At, Goto, history, InLoop
    <3> QED
      BY <2>4, <2>frame, <3>1 DEF Sends, InLoop
  <2> QED
    BY <1>2, <2>5, <2>6, <2>7, NothingFails DEF WiresInv
<1>3. ASSUME NEW t \in Apps, HandOver(t) PROVE FrameInv'
  <2>1. /\ UNCHANGED <<pack, count>>
        /\ \A w \in Writers, a \in Addrs : Sends(w, a)' <=> Sends(w, a)
    BY <1>3, HandOverKeeps DEF Sends, WiresInv
  <2>2. CASE WritePacketFinds(t) \/ WritePacketMisses(t)
    <3>1. UNCHANGED <<obj, wire>>
      BY <2>2 DEF WritePacketFinds, WritePacketMisses, history
    <3> QED
      BY <2>1, <3>1 DEF FrameInv
  <2>3. CASE Push(t)
    <3>1. \A a \in Addrs : obj'[a].live = obj[a].live /\ obj'[a].peer = obj[a].peer
      BY <2>3, PushKeepsObject DEF WiresInv, Inv
    <3>2. UNCHANGED wire
      BY <2>3 DEF Push
    <3> QED
      BY <2>1, <3>1, <3>2 DEF FrameInv
  <2>4. CASE Insert(t)
    <3> DEFINE p == peer[t]
    <3>1. PICK a \in Addrs, f \in FDs :
            /\ ~obj[a].live
            /\ obj' = [obj EXCEPT ![a] = [live |-> TRUE, peer |-> peer[t], valid |-> TRUE,
                                          sending |-> FALSE, out |-> <<>>, fd |-> f]]
            /\ conns' = [conns EXCEPT ![peer[t]] = a]
      BY <2>4, InsertPicks, Zenon
    <3>2. conns[p] = Null /\ p \in Peers /\ wire' = [wire EXCEPT ![p] = <<>>]
      BY <2>4, <1>types DEF Insert, At, WiresInv, Inv, PointerInv
    <3>3. /\ obj'[a].peer = p /\ wire'[p] = <<>>
          /\ \A b \in Addrs : b # a => obj'[b] = obj[b]
          /\ \A r \in Peers : r # p => wire'[r] = wire[r]
      BY <3>1, <3>2, <1>types
    <3> SUFFICES ASSUME NEW b \in Addrs, obj'[b].live
                 PROVE  LET x == wire'[obj'[b].peer]
                        IN  /\ (\A v \in Writers : ~Sends(v, b)) => Framed(x, PacketsOf(x), 0, 0)
                            /\ \A v \in Writers : Sends(v, b) => Framed(x, PacketsOf(x), pack[v], count[v])
      BY <2>1 DEF FrameInv
    <3>4. CASE b = a
      <4>1. \A v \in Writers : ~Sends(v, a)
        BY <3>1, <1>holds DEF Sends, Holds, InLoop
      <4> QED
        BY <3>3, <3>4, <4>1, <1>types, EmptyIsFramed
    <3>5. CASE b # a
      <4>1. obj'[b] = obj[b] /\ obj[b].live /\ obj[b].peer # p /\ obj[b].peer \in Peers
        BY <3>2, <3>3, <3>5, <1>live, <1>types
      <4> QED
        BY <3>3, <4>1 DEF FrameInv
    <3> QED
      BY <3>4, <3>5
  <2> QED
    BY <1>3, <2>2, <2>3, <2>4 DEF HandOver
<1> QED
  BY <1>1, <1>2, <1>3, NothingRemoved DEF WiresInv

(* A packet is let go of when all of it is written.                        *)
LEMMA DoneStep ==
  ASSUME WiresInv, DoneInv, ~MayFail, Readers = {}, Disconnectors = {}, [Next]_vars
  PROVE  DoneInv'
<1>types. /\ pc \in [Threads -> Labels] /\ Writers \subseteq Threads
          /\ pack \in [Writers -> Nat] /\ count \in [Writers -> 0..PackLen]
  BY DEF WiresInv, Inv, TypeOK, Threads
<1>1. CASE Quiet
  BY <1>1 DEF Quiet, WiresInv, PackInv, DoneInv, InLoop
<1>2. ASSUME NEW w \in Writers, Transfer(w) PROVE DoneInv'
  <2>1. \A v \in Writers : v # w => pack'[v] = pack[v] /\ count'[v] = count[v] /\ pc'[v] = pc[v]
    BY <1>2, <1>types, TransferKeeps DEF WiresInv
  <2>2. pc'[w] = "unmark" => count'[w] = PackLen
    <3>1. CASE Pop(w) \/ Unmark(w)
      BY <3>1, <1>types DEF Pop, Unmark, Goto
    <3>2. CASE WriteSome(w)
      BY <3>2, <1>types DEF WriteSome, Goto
    <3> QED
      BY <1>2, <3>1, <3>2, NothingFails DEF WiresInv
  <2> QED
    BY <2>1, <2>2 DEF DoneInv
<1>3. ASSUME NEW t \in Apps, HandOver(t) PROVE DoneInv'
  BY <1>3, HandOverKeeps DEF WiresInv, DoneInv
<1> QED
  BY <1>1, <1>2, <1>3, NothingRemoved DEF WiresInv

(* No connection, hence none that has a wire.                              *)
LEMMA InitFrame == Init => FrameInv
BY DEF Init, NoObject, FrameInv

ChannelInv == WiresInv /\ FrameInv /\ DoneInv

LEMMA ChannelInvHolds ==
  ASSUME ~MayFail, Readers = {}, Disconnectors = {}
  PROVE  Spec => []ChannelInv
<1>1. WiresInv /\ FrameInv /\ DoneInv /\ [Next]_vars => FrameInv' /\ DoneInv'
  BY FrameStep, DoneStep
<1> QED
  BY WiresInvHolds, InitWires, InitFrame, <1>1, PTL DEF Spec, ChannelInv

------------------------------------------------------------------------------
(* The refinement *)

(* The queue of the channel is what is in the connection's queue, behind   *)
(* the packet that a writer is in the loop of Send with.                   *)
QueueFacts ==
  \A p \in Peers :
    /\ conns[p] = Null => QueueOf(p) = <<>>
    /\ conns[p] # Null /\ (\A w \in Writers : ~Sends(w, conns[p])) =>
         QueueOf(p) = obj[conns[p]].out
    /\ \A w \in Writers : conns[p] # Null /\ Sends(w, conns[p]) =>
         QueueOf(p) = <<pack[w]>> \o obj[conns[p]].out

LEMMA QueueIs == ChannelInv => QueueFacts
<1> SUFFICES ASSUME ChannelInv, NEW p \in Peers, conns[p] # Null
             PROVE  /\ (\A w \in Writers : ~Sends(w, conns[p])) => QueueOf(p) = obj[conns[p]].out
                    /\ \A w \in Writers : Sends(w, conns[p]) =>
                         QueueOf(p) = <<pack[w]>> \o obj[conns[p]].out
  BY Zenon DEF QueueFacts, QueueOf
<1>1. InHand(p) = {w \in Writers : Sends(w, conns[p])}
  <2>1. ASSUME NEW w \in Writers, pack[w] # 0, count[w] < PackLen PROVE InLoop(w)
    <3>1. PackLen \in Nat /\ count[w] # PackLen
      BY <2>1, ParametersAreValid
    <3> QED
      BY <2>1, <3>1 DEF ChannelInv, WiresInv, PackInv, DoneInv, InLoop
  <2>2. ASSUME NEW w \in Writers, InLoop(w) PROVE pack[w] # 0 /\ count[w] < PackLen
    <3>1. pack[w] \in 1..used /\ used \in Nat
      BY <2>2 DEF ChannelInv, WiresInv, SenderInv, Holds, InLoop, WireInv, Between, Inv, TypeOK
    <3>2. pack[w] # 0
      BY <3>1
    <3> QED
      BY <2>2, <3>2 DEF ChannelInv, WiresInv, PackInv
  <2> QED
    BY <2>1, <2>2 DEF InHand, Sends
<1>2. CASE \A w \in Writers : ~Sends(w, conns[p])
  <2>1. InHand(p) = {}
    BY <1>1, <1>2
  <2> QED
    BY <1>2, <2>1 DEF QueueOf
<1>3. ASSUME NEW w \in Writers, Sends(w, conns[p])
      PROVE  QueueOf(p) = <<pack[w]>> \o obj[conns[p]].out
  <2>1. \A v \in Writers : Sends(v, conns[p]) => v = w
    BY <1>3 DEF Sends, ChannelInv, WiresInv, SenderInv, MarksInv, OneSender, Holds, InLoop
  <2>2. InHand(p) # {} /\ \A v \in InHand(p) : v = w
    BY <1>1, <1>3, <2>1
  <2>3. (CHOOSE v \in InHand(p) : TRUE) = w
    BY <2>2
  <2> QED
    BY <2>2, <2>3, Zenon DEF QueueOf
<1> QED
  BY <1>2, <1>3

LEMMA QueueIsNext == ChannelInv' => QueueFacts'
BY QueueIs, PTL

(* Two functions that differ in one place.                                 *)
LEMMA Differ ==
  ASSUME NEW S, NEW f, NEW g, NEW p \in S, NEW x,
         f = [r \in S |-> f[r]], g = [r \in S |-> g[r]],
         \A r \in S : r # p => g[r] = f[r], g[p] = x
  PROVE  g = [f EXCEPT ![p] = x]
OBVIOUS

Queues == [p \in Peers |-> QueueOf(p)]
Wires == [p \in Peers |-> PacketsOf(wire[p])]

(* A step of a writer in the loop of Send leaves the other queues and      *)
(* wires alone.                                                            *)
LEMMA OthersKeep ==
  ASSUME ChannelInv, ChannelInv', Readers = {}, Disconnectors = {},
         NEW w \in Writers, Transfer(w), NEW p \in Peers, p = obj[held[w]].peer
  PROVE  \A r \in Peers : r # p => Queues'[r] = Queues[r] /\ Wires'[r] = Wires[r]
<1> SUFFICES ASSUME NEW r \in Peers, r # p
             PROVE  QueueOf(r)' = QueueOf(r) /\ wire'[r] = wire[r]
  BY DEF Queues, Wires
<1>types. /\ pc \in [Threads -> Labels] /\ held \in [Threads -> Addrs \cup {Null}]
          /\ obj \in [Addrs -> Object] /\ w \in Threads /\ Writers \subseteq Threads
          /\ wire \in [Peers -> Seq(Nat \X (1..PackLen))]
  BY DEF ChannelInv, WiresInv, Inv, TypeOK, Threads
<1>1. /\ UNCHANGED conns
      /\ \A v \in Writers : v # w => /\ pc'[v] = pc[v] /\ held'[v] = held[v]
                                     /\ pack'[v] = pack[v]
  BY <1>types, TransferKeeps DEF ChannelInv, WiresInv
<1>2. Holds(w) /\ (Holds(w)' => held'[w] = held[w])
  BY TransferKeeps DEF ChannelInv, WiresInv
<1>3. InLoop(w)' => held'[w] = held[w]
  BY <1>2 DEF InLoop, Holds
<1>4. wire'[r] = wire[r]
  <2>1. CASE WriteSome(w)
    <3>1. PICK x : wire' = [wire EXCEPT ![p] = x]
      BY <2>1, WriteGoesHome DEF ChannelInv, WiresInv
    <3> QED
      BY <3>1, <1>types
  <2> QED
    BY <2>1 DEF Transfer, Pop, WriteFails, WriteSeesClosed, Unmark, data, history
<1>5. QueueOf(r)' = QueueOf(r)
  <2>1. CASE conns[r] = Null
    BY <1>1, <2>1, QueueIs, QueueIsNext DEF QueueFacts
  <2>2. CASE conns[r] # Null
    <3> DEFINE b == conns[r]
    <3>1. b \in Addrs /\ b # held[w]
      BY <2>2, MappedIsLive DEF ChannelInv, WiresInv
    <3>2. obj'[b].out = obj[b].out
      BY <3>1, <1>types
         DEF Transfer, Pop, WriteSome, WriteFails, WriteSeesClosed, Unmark, data
    <3>3. \A v \in Writers : /\ Sends(v, conns[r])' <=> Sends(v, conns[r])
                             /\ Sends(v, conns[r]) => pack'[v] = pack[v]
      BY <1>1, <1>2, <1>3, <3>1 DEF Sends, InLoop
    <3>4. CASE \A v \in Writers : ~Sends(v, conns[r])
      <4>1. QueueOf(r) = obj[b].out
        BY <2>2, <3>4, QueueIs DEF QueueFacts
      <4>2. QueueOf(r)' = obj'[b].out
        BY <1>1, <2>2, <3>3, <3>4, QueueIsNext DEF QueueFacts
      <4> QED
        BY <3>2, <4>1, <4>2
    <3>5. ASSUME NEW v \in Writers, Sends(v, conns[r]) PROVE QueueOf(r)' = QueueOf(r)
      <4>1. QueueOf(r) = <<pack[v]>> \o obj[b].out
        BY <2>2, <3>5, QueueIs DEF QueueFacts
      <4>2. QueueOf(r)' = <<pack'[v]>> \o obj'[b].out
        BY <1>1, <2>2, <3>3, <3>5, QueueIsNext DEF QueueFacts
      <4> QED
        BY <3>2, <3>3, <3>5, <4>1, <4>2
    <3> QED
      BY <3>4, <3>5
  <2> QED
    BY <2>1, <2>2
<1> QED
  BY <1>4, <1>5

(* To take a packet, to write a part of it, and to let go of it do not     *)
(* show; to write the last unit of it is to deliver it.                    *)
LEMMA TransferDelivers ==
  ASSUME ChannelInv, ChannelInv', ~MayFail, Readers = {}, Disconnectors = {},
         NEW w \in Writers, Transfer(w)
  PROVE  \/ UNCHANGED <<conns, used, Queues, Wires>>
         \/ \E p \in Peers : /\ UNCHANGED <<conns, used>>
                             /\ Queues[p] # <<>>
                             /\ Wires' = [Wires EXCEPT ![p] = Append(@, Head(Queues[p]))]
                             /\ Queues' = [Queues EXCEPT ![p] = Tail(@)]
<1>types. /\ pc \in [Threads -> Labels] /\ held \in [Threads -> Addrs \cup {Null}]
          /\ obj \in [Addrs -> Object] /\ w \in Threads /\ Writers \subseteq Threads
          /\ wire \in [Peers -> Seq(Nat \X (1..PackLen))]
          /\ pack \in [Writers -> Nat] /\ count \in [Writers -> 0..PackLen]
          /\ PackLen \in Nat \ {0} /\ Null \notin Addrs
  BY ParametersAreValid DEF ChannelInv, WiresInv, Inv, TypeOK, Threads
<1>1. /\ UNCHANGED <<conns, used>>
      /\ \A v \in Writers : v # w => pc'[v] = pc[v] /\ held'[v] = held[v]
  BY <1>types, TransferKeeps DEF ChannelInv, WiresInv
<1>2. Holds(w)
  BY TransferKeeps DEF ChannelInv, WiresInv
<1>3. PICK a \in Addrs, p \in Peers :
        /\ a = held[w] /\ p = obj[a].peer /\ obj[a].live /\ obj[a].valid /\ conns[p] = a
        /\ \A v \in Writers : Holds(v) /\ v # w => held[v] # a
  BY <1>2, SenderIsAlone DEF ChannelInv, WiresInv
<1> DEFINE out == obj[a].out
           u == wire[p]
<1>4. out \in Seq(Nat) /\ u \in Seq(Nat \X (1..PackLen)) /\ pack[w] \in Nat /\ count[w] \in Nat
  BY <1>3, <1>types DEF Object
<1>5. \A r \in Peers : r # p => Queues'[r] = Queues[r] /\ Wires'[r] = Wires[r]
  BY <1>3, OthersKeep
<1>6. /\ Queues = [r \in Peers |-> Queues[r]] /\ Queues' = [r \in Peers |-> Queues'[r]]
      /\ Wires = [r \in Peers |-> Wires[r]] /\ Wires' = [r \in Peers |-> Wires'[r]]
  BY DEF Queues, Wires
<1>7. /\ Queues[p] = QueueOf(p) /\ Queues'[p] = QueueOf(p)'
      /\ Wires[p] = PacketsOf(u) /\ Wires'[p] = PacketsOf(wire'[p])
  BY <1>3 DEF Queues, Wires
<1>8. conns[p] # Null /\ conns'[p] = a
  BY <1>1, <1>3, <1>types
<1>9. /\ ~InLoop(w) => QueueOf(p) = out
      /\ InLoop(w) => QueueOf(p) = <<pack[w]>> \o out
  <2>1. \A v \in Writers : v # w => ~Sends(v, conns[p])
    BY <1>3 DEF Sends, Holds, InLoop
  <2>2. Sends(w, conns[p]) <=> InLoop(w)
    BY <1>3 DEF Sends
  <2> QED
    BY <1>3, <1>8, <2>1, <2>2, QueueIs DEF QueueFacts
<1>10. /\ ~InLoop(w)' => QueueOf(p)' = obj'[a].out
       /\ InLoop(w)' /\ held'[w] = a => QueueOf(p)' = <<pack'[w]>> \o obj'[a].out
  <2>1. \A v \in Writers : v # w => ~Sends(v, conns[p])'
    BY <1>1, <1>3 DEF Sends, Holds, InLoop
  <2>2. Sends(w, conns[p])' <=> InLoop(w)' /\ held'[w] = a
    BY <1>1, <1>3 DEF Sends
  <2> QED
    <3>1. /\ (\A v \in Writers : ~Sends(v, conns[p])') => QueueOf(p)' = obj'[conns'[p]].out
          /\ Sends(w, conns[p])' => QueueOf(p)' = <<pack'[w]>> \o obj'[conns'[p]].out
      <4>1. QueueFacts' /\ conns'[p] # Null
        BY <1>1, <1>8, QueueIsNext
      <4> QED
        BY <4>1, Zenon DEF QueueFacts
    <3>2. ~InLoop(w)' => \A v \in Writers : ~Sends(v, conns[p])'
      BY <2>1, <2>2
    <3> QED
      BY <1>8, <2>2, <3>1, <3>2
<1>same. ASSUME QueueOf(p)' = QueueOf(p), PacketsOf(wire'[p]) = PacketsOf(u)
         PROVE  UNCHANGED <<conns, used, Queues, Wires>>
  <2>1. \A r \in Peers : Queues'[r] = Queues[r] /\ Wires'[r] = Wires[r]
    BY <1>same, <1>5, <1>7
  <2> QED
    BY <1>1, <1>6, <2>1
<1>11. CASE Pop(w)
  <2>1. /\ out # <<>> /\ obj' = [obj EXCEPT ![a].out = Tail(@)] /\ UNCHANGED <<wire, held>>
        /\ pack' = [pack EXCEPT ![w] = Head(out)] /\ pc' = [pc EXCEPT ![w] = "write"]
        /\ pc[w] = "pop"
    BY <1>3, <1>11 DEF Pop, history, At, Goto
  <2>2. obj'[a].out = Tail(out)
    BY <1>3, <2>1, <1>types DEF Object
  <2>3. pack'[w] = Head(out) /\ InLoop(w)' /\ ~InLoop(w)
    BY <2>1, <1>types DEF InLoop
  <2>4. out = <<Head(out)>> \o Tail(out)
    <3> HIDE DEF out
    <3> QED
      BY <2>1, <1>4
  <2>5. QueueOf(p)' = out /\ QueueOf(p) = out
    <3>1. QueueOf(p)' = <<pack'[w]>> \o obj'[a].out
      BY <1>3, <1>10, <2>1, <2>3
    <3> QED
      BY <1>9, <2>1, <2>2, <2>3, <2>4, <3>1
  <2> QED
    BY <1>same, <2>1, <2>5
<1>12. CASE WriteSome(w)
  <2>1. PICK n \in 1..(PackLen - count[w]) :
          /\ wire' = [wire EXCEPT ![p] = @ \o Units(pack[w], count[w], n)]
          /\ pc' = [pc EXCEPT ![w] = IF count[w] + n = PackLen THEN "unmark" ELSE "write"]
          /\ UNCHANGED <<held, pack, obj>>
    BY <1>3, <1>12, WriteGoesHome DEF ChannelInv, WiresInv
  <2>2. InLoop(w) /\ Sends(w, a) /\ count[w] < PackLen
    BY <1>3, <1>12 DEF WriteSome, At, Sends, InLoop, ChannelInv, WiresInv, PackInv
  <2>3. Framed(u, PacketsOf(u), pack[w], count[w])
    BY <1>3, <2>2, Zenon DEF ChannelInv, FrameInv
  <2>4. wire'[p] = u \o Units(pack[w], count[w], n)
    BY <1>3, <2>1, <1>types
  <2>5. n \in Nat /\ count[w] + n <= PackLen
    <3>1. count[w] \in 0..PackLen /\ PackLen \in Nat
      BY <1>types
    <3> QED
      BY <3>1
  <2>6. pc'[w] = IF count[w] + n = PackLen THEN "unmark" ELSE "write"
    BY <2>1, <1>types
  <2> DEFINE x == u \o Units(pack[w], count[w], n)
  <2> HIDE DEF u
  <2>7. /\ count[w] + n < PackLen => PacketsOf(x) = PacketsOf(u)
        /\ count[w] + n = PackLen => PacketsOf(x) = Append(PacketsOf(u), pack[w])
    <3> DEFINE k == pack[w]
               c == count[w]
    <3>1. /\ u \in Seq(Nat \X (1..PackLen)) /\ k \in Nat /\ c \in Nat /\ n \in Nat
          /\ PackLen \in Nat \ {0} /\ c < PackLen /\ c + n <= PackLen
          /\ Framed(u, PacketsOf(u), k, c)
      BY <1>4, <2>2, <2>3, <2>5, <1>types
    <3> HIDE DEF k, c
    <3>2. /\ c + n < PackLen => PacketsOf(u \o Units(k, c, n)) = PacketsOf(u)
          /\ c + n = PackLen => PacketsOf(u \o Units(k, c, n)) = Append(PacketsOf(u), k)
      BY <3>1, WrittenIsFramed
    <3> QED
      BY <3>2 DEF x, k, c
  <2>8. QueueOf(p) = <<pack[w]>> \o out
    BY <1>9, <2>2
  <2> HIDE DEF out
  <2>9. CASE count[w] + n < PackLen
    <3>1. InLoop(w)'
      BY <1>4, <2>5, <2>6, <2>9 DEF InLoop
    <3>2. QueueOf(p)' = QueueOf(p)
      <4>1. QueueOf(p)' = <<pack'[w]>> \o obj'[a].out
        BY <1>3, <1>10, <2>1, <3>1
      <4> QED
        BY <2>1, <2>8, <4>1 DEF out
    <3> QED
      BY <1>same, <2>4, <2>7, <2>9, <3>2
  <2>10. CASE count[w] + n = PackLen
    <3>1. ~InLoop(w)'
      BY <2>6, <2>10 DEF InLoop
    <3>2. QueueOf(p)' = out
      BY <1>10, <2>1, <3>1 DEF out
    <3>3. QueueOf(p) # <<>> /\ Head(QueueOf(p)) = pack[w] /\ Tail(QueueOf(p)) = out
      <4>1. /\ <<pack[w]>> \o out # <<>> /\ Head(<<pack[w]>> \o out) = pack[w]
            /\ Tail(<<pack[w]>> \o out) = out
        BY <1>4
      <4> QED
        BY <2>8, <4>1
    <3>4. PacketsOf(wire'[p]) = Append(PacketsOf(u), pack[w])
      BY <2>4, <2>7, <2>10
    <3>5. Queues' = [Queues EXCEPT ![p] = Tail(Queues[p])]
      <4> DEFINE y == Tail(Queues[p])
      <4>1. Queues'[p] = y
        BY <1>7, <3>2, <3>3
      <4>2. \A r \in Peers : r # p => Queues'[r] = Queues[r]
        BY <1>5
      <4> HIDE DEF y
      <4>3. Queues' = [Queues EXCEPT ![p] = y]
        BY <1>6, <4>1, <4>2, Differ
      <4> QED
        BY <4>3 DEF y
    <3>6. Wires' = [Wires EXCEPT ![p] = Append(Wires[p], Head(Queues[p]))]
      <4> DEFINE y == Append(Wires[p], Head(Queues[p]))
      <4>1. Wires'[p] = y
        BY <1>7, <3>3, <3>4
      <4>2. \A r \in Peers : r # p => Wires'[r] = Wires[r]
        BY <1>5
      <4> HIDE DEF y
      <4>3. Wires' = [Wires EXCEPT ![p] = y]
        BY <1>6, <4>1, <4>2, Differ
      <4> QED
        BY <4>3 DEF y
    <3>7. Queues[p] # <<>>
      BY <1>7, <3>3
    <3> QED
      BY <1>1, <1>3, <3>5, <3>6, <3>7
  <2> QED
    <3>1. count[w] + n \in Nat /\ count[w] + n <= PackLen /\ PackLen \in Nat
      BY <2>5, <1>4, <1>types
    <3> QED
      BY <3>1, <2>9, <2>10
<1>13. CASE Unmark(w)
  <2>1. /\ ~InLoop(w) /\ ~InLoop(w)' /\ UNCHANGED wire
        /\ obj' = [obj EXCEPT ![a].sending = FALSE]
    BY <1>3, <1>13, <1>types DEF Unmark, At, Goto, history, InLoop
  <2>2. obj'[a].out = out
    BY <1>3, <2>1, <1>types DEF Object
  <2>3. QueueOf(p)' = QueueOf(p)
    BY <1>9, <1>10, <2>1, <2>2
  <2> QED
    BY <1>same, <2>1, <2>3
<1> QED
  BY <1>11, <1>12, <1>13, NothingFails DEF ChannelInv, WiresInv

(* A packet that is handed over joins the queue of its peer's connection,  *)
(* or is dropped; a new connection has an empty queue and an empty wire.   *)
LEMMA HandOverAccepts ==
  ASSUME ChannelInv, ChannelInv', Readers = {}, Disconnectors = {},
         NEW t \in Apps, HandOver(t)
  PROVE  \/ UNCHANGED <<conns, used, Queues, Wires>>
         \/ /\ \E p \in Peers : conns[p] = Null
            /\ used' = used + 1
            /\ UNCHANGED <<conns, Queues, Wires>>
         \/ \E p \in Peers : /\ conns[p] = Null
                             /\ \E a \in Addrs : conns' = [conns EXCEPT ![p] = a]
                             /\ Queues' = [Queues EXCEPT ![p] = <<>>]
                             /\ Wires' = [Wires EXCEPT ![p] = <<>>]
                             /\ UNCHANGED used
         \/ \E p \in Peers : /\ conns[p] # Null
                             /\ used' = used + 1
                             /\ Queues' = [Queues EXCEPT ![p] = Append(@, used + 1)]
                             /\ UNCHANGED <<conns, Wires>>
<1>types. /\ conns \in [Peers -> Addrs \cup {Null}] /\ obj \in [Addrs -> Object]
          /\ wire \in [Peers -> Seq(Nat \X (1..PackLen))] /\ pack \in [Writers -> Nat]
          /\ PackLen \in Nat \ {0} /\ Null \notin Addrs /\ Apps \subseteq Threads
          /\ used \in Nat
  BY ParametersAreValid DEF ChannelInv, WiresInv, Inv, TypeOK, Threads
<1>1. /\ UNCHANGED pack
      /\ \A w \in Writers, a \in Addrs : Sends(w, a)' <=> Sends(w, a)
  BY HandOverKeeps DEF ChannelInv, WiresInv, Sends
<1>2. /\ Queues = [r \in Peers |-> Queues[r]] /\ Queues' = [r \in Peers |-> Queues'[r]]
      /\ Wires = [r \in Peers |-> Wires[r]] /\ Wires' = [r \in Peers |-> Wires'[r]]
      /\ \A r \in Peers : Queues[r] = QueueOf(r) /\ Queues'[r] = QueueOf(r)'
      /\ \A r \in Peers : Wires[r] = PacketsOf(wire[r]) /\ Wires'[r] = PacketsOf(wire'[r])
  BY DEF Queues, Wires
<1>3. \A r \in Peers : conns[r] # Null =>
        conns[r] \in Addrs /\ obj[conns[r]].live /\ obj[conns[r]].peer = r
  BY MappedIsLive DEF ChannelInv, WiresInv
<1>same. ASSUME NEW r \in Peers, conns'[r] = conns[r],
                conns[r] # Null => obj'[conns[r]].out = obj[conns[r]].out
         PROVE  Queues'[r] = Queues[r]
  <2>1. CASE conns[r] = Null
    BY <1>2, <1>same, <2>1, QueueIs, QueueIsNext DEF QueueFacts
  <2>2. CASE conns[r] # Null
    <3> DEFINE b == conns[r]
    <3>0. b \in Addrs /\ obj'[b].out = obj[b].out
      BY <1>3, <1>same, <2>2
    <3>1. CASE \A v \in Writers : ~Sends(v, b)
      <4>1. QueueOf(r) = obj[b].out
        BY <2>2, <3>1, QueueIs DEF QueueFacts
      <4>2. \A v \in Writers : ~Sends(v, conns[r])'
        BY <1>1, <1>same, <3>0, <3>1 DEF Sends
      <4>3. QueueOf(r)' = obj'[b].out
        BY <1>same, <2>2, <4>2, QueueIsNext DEF QueueFacts
      <4> QED
        BY <1>2, <3>0, <4>1, <4>3
    <3>2. ASSUME NEW v \in Writers, Sends(v, b) PROVE Queues'[r] = Queues[r]
      <4>1. QueueOf(r) = <<pack[v]>> \o obj[b].out
        BY <2>2, <3>2, QueueIs DEF QueueFacts
      <4>2. Sends(v, conns[r])'
        BY <1>1, <1>same, <3>0, <3>2 DEF Sends
      <4>3. QueueOf(r)' = <<pack'[v]>> \o obj'[b].out
        BY <1>same, <2>2, <4>2, QueueIsNext DEF QueueFacts
      <4> QED
        BY <1>1, <1>2, <3>0, <4>1, <4>3
    <3> QED
      BY <3>1, <3>2
  <2> QED
    BY <2>1, <2>2
<1>4. CASE WritePacketFinds(t)
  <2>1. UNCHANGED <<conns, obj, used, wire>>
    BY <1>4 DEF WritePacketFinds, history
  <2>2. \A r \in Peers : Queues'[r] = Queues[r] /\ Wires'[r] = Wires[r]
    BY <1>2, <1>same, <2>1
  <2> QED
    BY <1>2, <2>1, <2>2
<1>5. CASE WritePacketMisses(t)
  <2>1. used' = used + 1 /\ UNCHANGED <<conns, obj, wire>>
    BY <1>5 DEF WritePacketMisses
  <2>2. \A r \in Peers : Queues'[r] = Queues[r] /\ Wires'[r] = Wires[r]
    BY <1>2, <1>same, <2>1
  <2>3. UNCHANGED <<Queues, Wires>>
    BY <1>2, <2>2
  <2>4. \E p \in Peers : conns[p] = Null
    <3>1. pc[t] = "writepacket" /\ Null \in Lookup(peer[t])
      BY <1>5 DEF WritePacketMisses, At
    <3>2. /\ \A x \in Threads : pc[x] # "erase"
          /\ \A x \in Threads : pc[x] \in {"insert", "writepacket"} => peer[x] \in Peers
      BY DEF ChannelInv, WiresInv, Inv, PointerInv
    <3>3. CASE Relinking
      BY <3>2, <3>3 DEF Relinking
    <3>4. CASE ~Relinking
      BY <3>1, <3>2, <3>4, <1>types DEF Lookup
    <3> QED
      BY <3>3, <3>4
  <2> QED
    BY <2>1, <2>3, <2>4
<1>6. CASE Push(t)
  <2> DEFINE a == held[t]
  <2>1. PICK p \in Peers :
          a \in Addrs /\ obj[a].valid /\ p = obj[a].peer /\ conns[p] = a
    <3>1. pc[t] = "push" /\ t \in Threads
      BY <1>6, <1>types DEF Push, At
    <3>2. a \in Addrs /\ obj[a].live
      BY <3>1 DEF ChannelInv, WiresInv, Inv, PointerInv, LifeInv
    <3> QED
      BY <3>2 DEF ChannelInv, WiresInv, Inv, PointerInv, LifeInv
  <2>2. /\ used' = used + 1 /\ UNCHANGED <<conns, wire>>
        /\ obj' = [obj EXCEPT ![a].out = Append(@, used + 1)]
    BY <1>6, <2>1 DEF Push
  <2> HIDE DEF a
  <2>3. /\ obj'[a].out = Append(obj[a].out, used + 1) /\ obj[a].out \in Seq(Nat)
        /\ \A b \in Addrs : b # a => obj'[b].out = obj[b].out
    BY <2>1, <2>2, <1>types DEF Object
  <2>4. \A r \in Peers : r # p => Queues'[r] = Queues[r]
    BY <1>3, <1>same, <2>1, <2>2, <2>3
  <2>5. Wires' = Wires
    BY <1>2, <2>2
  <2>6. Queues'[p] = Append(Queues[p], used + 1)
    <3>0. conns[p] # Null /\ conns'[p] = conns[p] /\ conns[p] \in Addrs
      BY <2>1, <2>2, <1>types
    <3>1. CASE \A v \in Writers : ~Sends(v, conns[p])
      <4>1. QueueOf(p) = obj[conns[p]].out
        BY <3>0, <3>1, QueueIs DEF QueueFacts
      <4>2. \A v \in Writers : ~Sends(v, conns[p])'
        BY <1>1, <3>0, <3>1 DEF Sends
      <4>3. QueueOf(p)' = obj'[conns[p]].out
        BY <3>0, <4>2, QueueIsNext DEF QueueFacts
      <4> QED
        BY <1>2, <2>1, <2>3, <4>1, <4>3
    <3>2. ASSUME NEW v \in Writers, Sends(v, conns[p])
          PROVE  Queues'[p] = Append(Queues[p], used + 1)
      <4>1. QueueOf(p) = <<pack[v]>> \o obj[conns[p]].out
        BY <3>0, <3>2, QueueIs DEF QueueFacts
      <4>2. Sends(v, conns[p])'
        BY <1>1, <3>0, <3>2 DEF Sends
      <4>3. QueueOf(p)' = <<pack'[v]>> \o obj'[conns[p]].out
        BY <3>0, <4>2, QueueIsNext DEF QueueFacts
      <4>4. pack'[v] = pack[v] /\ pack[v] \in Nat
        BY <1>1, <1>types
      <4>5. \A q \in Seq(Nat), k \in Nat, n \in Nat :
              <<k>> \o Append(q, n) = Append(<<k>> \o q, n)
        OBVIOUS
      <4>6. <<pack[v]>> \o Append(obj[a].out, used + 1) = Append(<<pack[v]>> \o obj[a].out, used + 1)
        <5> DEFINE q == obj[a].out
                   n == used + 1
        <5>1. q \in Seq(Nat) /\ n \in Nat
          BY <2>3, <1>types
        <5> HIDE DEF q, n
        <5>2. <<pack[v]>> \o Append(q, n) = Append(<<pack[v]>> \o q, n)
          BY <4>4, <4>5, <5>1
        <5> QED
          BY <5>2 DEF q, n
      <4> QED
        BY <1>2, <2>1, <2>3, <4>1, <4>3, <4>4, <4>6
    <3> QED
      BY <3>1, <3>2
  <2>7. Queues' = [Queues EXCEPT ![p] = Append(Queues[p], used + 1)]
    <3> DEFINE y == Append(Queues[p], used + 1)
    <3>1. Queues'[p] = y
      BY <2>6
    <3> HIDE DEF y
    <3>2. Queues' = [Queues EXCEPT ![p] = y]
      BY <1>2, <2>4, <3>1, Differ
    <3> QED
      BY <3>2 DEF y
  <2>8. conns[p] # Null
    BY <2>1, <1>types
  <2> QED
    BY <2>2, <2>5, <2>7, <2>8
<1>7. CASE Insert(t)
  <2>1. PICK a \in Addrs, f \in FDs, p \in Peers :
          /\ p = peer[t] /\ ~obj[a].live /\ conns[p] = Null
          /\ obj' = [obj EXCEPT ![a] = [live |-> TRUE, peer |-> p, valid |-> TRUE,
                                        sending |-> FALSE, out |-> <<>>, fd |-> f]]
          /\ conns' = [conns EXCEPT ![p] = a]
    <3>1. pc[t] = "insert" /\ t \in Threads
      BY <1>7, <1>types DEF Insert, At
    <3>2. peer[t] \in Peers
      BY <3>1 DEF ChannelInv, WiresInv, Inv, PointerInv
    <3>3. PICK a \in Addrs, f \in FDs :
            /\ ~obj[a].live
            /\ obj' = [obj EXCEPT ![a] = [live |-> TRUE, peer |-> peer[t], valid |-> TRUE,
                                          sending |-> FALSE, out |-> <<>>, fd |-> f]]
            /\ conns' = [conns EXCEPT ![peer[t]] = a]
      BY <1>7, InsertPicks, Zenon
    <3>4. conns[peer[t]] = Null
      BY <1>7 DEF Insert
    <3> QED
      BY <3>2, <3>3, <3>4, Zenon
  <2>2. wire' = [wire EXCEPT ![p] = <<>>] /\ UNCHANGED used
    BY <1>7, <2>1 DEF Insert
  <2>3. /\ conns'[p] = a /\ wire'[p] = <<>> /\ obj'[a].out = <<>>
        /\ \A r \in Peers : r # p => conns'[r] = conns[r] /\ wire'[r] = wire[r]
        /\ \A b \in Addrs : b # a => obj'[b] = obj[b]
    BY <2>1, <2>2, <1>types
  <2>4. \A r \in Peers : r # p => Queues'[r] = Queues[r] /\ Wires'[r] = Wires[r]
    BY <1>2, <1>3, <1>same, <2>1, <2>3
  <2>5. Queues'[p] = <<>>
    <3>1. \A v \in Writers : ~Sends(v, a)
      BY <2>1 DEF ChannelInv, WiresInv, SenderInv, Sends, Holds, InLoop
    <3>2. \A v \in Writers : ~Sends(v, conns[p])'
      BY <1>1, <2>1, <2>3, <3>1 DEF Sends
    <3>3. conns'[p] # Null
      BY <2>1, <2>3, <1>types
    <3>4. QueueOf(p)' = obj'[conns'[p]].out
      BY <3>2, <3>3, QueueIsNext DEF QueueFacts
    <3> QED
      BY <1>2, <2>3, <3>4
  <2>6. Wires'[p] = <<>>
    BY <1>2, <2>3, <1>types, EmptyIsFramed
  <2>7. Queues' = [Queues EXCEPT ![p] = <<>>]
    BY <1>2, <2>4, <2>5, Differ
  <2>8. Wires' = [Wires EXCEPT ![p] = <<>>]
    BY <1>2, <2>4, <2>6, Differ
  <2> QED
    BY <2>1, <2>2, <2>7, <2>8
<1> QED
  BY <1>4, <1>5, <1>6, <1>7 DEF HandOver

(* Before anything has happened there is no connection.                    *)
LEMMA InitChannel == Init => Channel!ChannelInit
<1> SUFFICES ASSUME Init PROVE Channel!ChannelInit
  OBVIOUS
<1>1. \A p \in Peers : conns[p] = Null /\ wire[p] = <<>>
  BY DEF Init
<1>2. Mapped = {}
  BY <1>1 DEF Mapped
<1>3. \A p \in Peers : QueueOf(p) = <<>>
  BY <1>1 DEF QueueOf
<1>4. \A p \in Peers : PacketsOf(wire[p]) = <<>>
  BY <1>1, EmptyIsFramed, ParametersAreValid
<1>5. used = 0
  BY DEF Init
<1> QED
  BY <1>2, <1>3, <1>4, <1>5 DEF Channel!ChannelInit

(* Every step is a step of the channel, or does not show in it.            *)
LEMMA ChannelStep ==
  ASSUME ChannelInv, ChannelInv', ~MayFail, Readers = {}, Disconnectors = {}, [Next]_vars
  PROVE  [Channel!ChannelNext]_(Channel!cvars)
<1>types. conns \in [Peers -> Addrs \cup {Null}] /\ Null \notin Addrs
  BY ParametersAreValid DEF ChannelInv, WiresInv, Inv, TypeOK
<1>same. ASSUME UNCHANGED <<conns, used, Queues, Wires>>
         PROVE  UNCHANGED Channel!cvars
  BY <1>same DEF Channel!cvars, Mapped, Queues, Wires
<1>1. CASE Quiet
  <2>1. UNCHANGED <<conns, used, wire, pack>>
    BY <1>1 DEF Quiet
  <2>2. \A r \in Peers : QueueOf(r)' = QueueOf(r)
    <3> SUFFICES ASSUME NEW r \in Peers PROVE QueueOf(r)' = QueueOf(r)
      OBVIOUS
    <3>1. CASE conns[r] = Null
      BY <2>1, <3>1, QueueIs, QueueIsNext DEF QueueFacts
    <3>2. CASE conns[r] # Null
      <4>1. conns[r] \in Addrs
        BY <3>2, <1>types
      <4>2. obj'[conns[r]].out = obj[conns[r]].out
        BY <1>1, <4>1 DEF Quiet
      <4>3. \A v \in Writers : Sends(v, conns[r])' <=> Sends(v, conns[r])
        BY <1>1, <2>1 DEF Quiet, Sends, InLoop
      <4>4. CASE \A v \in Writers : ~Sends(v, conns[r])
        <5>1. QueueOf(r) = obj[conns[r]].out
          BY <3>2, <4>4, QueueIs DEF QueueFacts
        <5>2. QueueOf(r)' = obj'[conns[r]].out
          BY <2>1, <3>2, <4>3, <4>4, QueueIsNext DEF QueueFacts
        <5> QED
          BY <4>2, <5>1, <5>2
      <4>5. ASSUME NEW v \in Writers, Sends(v, conns[r]) PROVE QueueOf(r)' = QueueOf(r)
        <5>1. QueueOf(r) = <<pack[v]>> \o obj[conns[r]].out
          BY <3>2, <4>5, QueueIs DEF QueueFacts
        <5>2. QueueOf(r)' = <<pack'[v]>> \o obj'[conns[r]].out
          BY <2>1, <3>2, <4>3, <4>5, QueueIsNext DEF QueueFacts
        <5> QED
          BY <2>1, <4>2, <5>1, <5>2
      <4> QED
        BY <4>4, <4>5
    <3> QED
      BY <3>1, <3>2
  <2>3. UNCHANGED <<Queues, Wires>>
    BY <2>1, <2>2 DEF Queues, Wires
  <2> QED
    BY <1>same, <2>1, <2>3
<1>2. ASSUME NEW w \in Writers, Transfer(w) PROVE [Channel!ChannelNext]_(Channel!cvars)
  <2>1. CASE UNCHANGED <<conns, used, Queues, Wires>>
    BY <1>same, <2>1
  <2>2. ASSUME NEW p \in Peers, UNCHANGED <<conns, used>>, Queues[p] # <<>>,
               Wires' = [Wires EXCEPT ![p] = Append(@, Head(Queues[p]))],
               Queues' = [Queues EXCEPT ![p] = Tail(@)]
        PROVE  Channel!ChannelNext
    <3>1. Channel!Deliver(p)
      BY <2>2 DEF Channel!Deliver, Queues, Wires, Mapped
    <3> QED
      BY <3>1 DEF Channel!ChannelNext
  <2> QED
    BY <1>2, <2>1, <2>2, TransferDelivers
<1>3. ASSUME NEW t \in Apps, HandOver(t) PROVE [Channel!ChannelNext]_(Channel!cvars)
  <2>1. CASE UNCHANGED <<conns, used, Queues, Wires>>
    BY <1>same, <2>1
  <2>2. CASE /\ \E p \in Peers : conns[p] = Null
             /\ used' = used + 1
             /\ UNCHANGED <<conns, Queues, Wires>>
    <3>1. Mapped # Peers /\ UNCHANGED Mapped
      BY <2>2 DEF Mapped
    <3>2. Channel!Refuse
      BY <2>2, <3>1 DEF Channel!Refuse, Queues, Wires
    <3> QED
      BY <3>2 DEF Channel!ChannelNext
  <2>3. ASSUME NEW p \in Peers, NEW a \in Addrs, conns[p] = Null,
               conns' = [conns EXCEPT ![p] = a],
               Queues' = [Queues EXCEPT ![p] = <<>>], Wires' = [Wires EXCEPT ![p] = <<>>],
               UNCHANGED used
        PROVE  Channel!ChannelNext
    <3>1. p \notin Mapped /\ Mapped' = Mapped \cup {p}
      BY <2>3, <1>types DEF Mapped
    <3>2. Channel!Connect(p)
      BY <2>3, <3>1 DEF Channel!Connect, Queues, Wires
    <3> QED
      BY <3>2 DEF Channel!ChannelNext
  <2>4. ASSUME NEW p \in Peers, conns[p] # Null, used' = used + 1,
               Queues' = [Queues EXCEPT ![p] = Append(@, used + 1)],
               UNCHANGED <<conns, Wires>>
        PROVE  Channel!ChannelNext
    <3>1. p \in Mapped /\ UNCHANGED Mapped
      BY <2>4 DEF Mapped
    <3>2. Channel!Accept(p)
      BY <2>4, <3>1 DEF Channel!Accept, Queues, Wires
    <3> QED
      BY <3>2 DEF Channel!ChannelNext
  <2> QED
    BY <1>3, <2>1, <2>2, <2>3, <2>4, HandOverAccepts
<1> QED
  BY <1>1, <1>2, <1>3, NothingRemoved DEF ChannelInv, WiresInv

(* As long as no connection is removed and write() finds room, the sending *)
(* half of a node is a FIFO of packets to each peer: what WriteTo accepts  *)
(* for a connected peer gets on that peer's wire whole, once and in order, *)
(* whichever writers send it.                                              *)
THEOREM SenderImplementsChannel ==
  ASSUME ~MayFail, Readers = {}, Disconnectors = {}
  PROVE  Spec => ImplementsChannel
<1>1. ChannelInv /\ ChannelInv' /\ [Next]_vars => [Channel!ChannelNext]_(Channel!cvars)
  BY ChannelStep
<1> QED
  BY InitChannel, ChannelInvHolds, <1>1, PTL DEF Spec, ImplementsChannel, Channel!Spec
=============================================================================
