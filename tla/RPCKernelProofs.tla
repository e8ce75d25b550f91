--------------------------- MODULE RPCKernelProofs ---------------------------
(***************************************************************************)
(* What holds of the receiving half of a node for every number of readers, *)
(* of peers and of arrivals.                                               *)
(*                                                                         *)
(* That no wake-up is lost rests on the pending signal alone, and that a   *)
(* reader works on a connection of the map on nobody else working on it.   *)
(* That a server loses no event needs the life of a connection: it waits   *)
(* in the backlog, is accepted, registered, then put in the map, and a     *)
(* reader that takes it down holds it from the first step to the last.     *)
(***************************************************************************)
EXTENDS RPCKernel, TLAPS

(* Before Start the readers are not running; a reader that waits for an    *)
(* event holds none; the threads that add a connection hold a peer.        *)
HandInv ==
  /\ At(Epoll, "start") => \A r \in Readers : At(r, "off")
  /\ \A r \in Readers : pc[r] \in {"off", "pop", "asleep"} => inHand[r] = NoData
  /\ \A t \in {Epoll, Main} :
       IF pc[t] \in {"register", "addconnection"} THEN inHand[t] \in Peers ELSE inHand[t] = NoData
  /\ role = "server" => pc[Main] \notin {"register", "addconnection"}

(* The readers are stopped only in a node that stops; the epoll thread     *)
(* waits again only when it has dispatched every event.                    *)
LoopInv ==
  /\ At(Epoll, "stopreaders") \/ readerStop => nodeStop
  /\ pc[Epoll] \in {"start", "check", "wait"} => events = {}

(* Unless two readers have met on a connection, one works on it alone.     *)
OwnInv ==
  \A r, q \in Readers : Working(r) /\ inHand[r] \notin clash =>
    inHand[r] \in conns /\ (Working(q) /\ inHand[q] = inHand[r] => q = r)

(* x is in the sequence s, and s has nothing twice.                        *)
In(x, s) == \E i \in DOMAIN s : s[i] = x
Distinct(s) == \A i, j \in DOMAIN s : i # j => s[i] # s[j]

(* Nothing of p is left or has been made: it is not in the map, and no     *)
(* reader works on it.                                                     *)
Untouched(p) == p \notin conns /\ \A r \in Readers : ~OnConnection(r, p)

(* A reader that takes an event of p finds data, or the end of it.         *)
ToBeRead(p) == (unread[p] > 0 /\ status[p] # "reset") \/ status[p] = "fin"

(* The way of a connection to the server's map ...                         *)
ArrivalInv ==
  role = "server" =>
    /\ \A p \in Peers : status[p] = "away" =>
         Untouched(p) /\ ~In(p, backlog) /\ inHand[Epoll] # p
    /\ \A p \in Peers : In(p, backlog) => Untouched(p) /\ inHand[Epoll] # p
    /\ Distinct(backlog)
    /\ \A p \in Peers : inHand[Epoll] = p =>
         /\ Untouched(p) /\ p \in fds
         /\ At(Epoll, "addconnection") => p \in registered /\ (ToBeRead(p) => p \in edge)

(* ... and out of it.                                                      *)
DepartureInv ==
  role = "server" =>
    \A p \in conns :
      /\ p \in registered \/ \E r \in Readers : pc[r] \in {"close", "remove"} /\ inHand[r] = p
      /\ p \in fds \/ \E r \in Readers : At(r, "remove") /\ inHand[r] = p

Inv ==
  /\ TypeOK /\ HandInv /\ LoopInv /\ OwnInv /\ ArrivalInv /\ DepartureInv
  /\ NoLostWakeup /\ NoEventLost

------------------------------------------------------------------------------
(* The elements of a sequence that has grown or shrunk by one.             *)
LEMMA InAppend ==
  ASSUME NEW R, NEW s \in Seq(R), NEW e \in R, NEW x
  PROVE  /\ Append(s, e) \in Seq(R)
         /\ In(x, Append(s, e)) <=> In(x, s) \/ x = e
<1>1. /\ DOMAIN s = 1..Len(s) /\ Len(s) \in Nat
      /\ DOMAIN Append(s, e) = 1..(Len(s) + 1)
      /\ \A i \in DOMAIN s : Append(s, e)[i] = s[i]
      /\ Append(s, e)[Len(s) + 1] = e
      /\ Append(s, e) \in Seq(R)
  OBVIOUS
<1>2. ASSUME In(x, Append(s, e)) PROVE In(x, s) \/ x = e
  BY <1>1, <1>2 DEF In
<1>3. ASSUME In(x, s) \/ x = e PROVE In(x, Append(s, e))
  <2>1. Len(s) + 1 \in DOMAIN Append(s, e) /\ \A i \in DOMAIN s : i \in DOMAIN Append(s, e)
    BY <1>1
  <2> QED
    BY <2>1, <1>1, <1>3 DEF In
<1> QED
  BY <1>1, <1>2, <1>3

(* The head of a sequence leaves it, the others stay.                      *)
LEMMA InTail ==
  ASSUME NEW R, NEW s \in Seq(R), s # <<>>, NEW x
  PROVE  /\ Head(s) \in R /\ Tail(s) \in Seq(R)
         /\ In(x, s) <=> In(x, Tail(s)) \/ x = Head(s)
<1>1. /\ DOMAIN s = 1..Len(s) /\ Len(s) \in Nat \ {0}
      /\ DOMAIN Tail(s) = 1..(Len(s) - 1)
      /\ \A i \in 1..(Len(s) - 1) : Tail(s)[i] = s[i + 1]
      /\ Head(s) = s[1] /\ Head(s) \in R /\ Tail(s) \in Seq(R)
  OBVIOUS
<1>2. ASSUME In(x, s) PROVE In(x, Tail(s)) \/ x = Head(s)
  <2>1. PICK i \in DOMAIN s : s[i] = x
    BY <1>2 DEF In
  <2>2. CASE i = 1
    BY <1>1, <2>1, <2>2
  <2>3. CASE i # 1
    <3>1. i - 1 \in DOMAIN Tail(s) /\ Tail(s)[i - 1] = x
      BY <1>1, <2>1, <2>3
    <3> QED
      BY <3>1 DEF In
  <2> QED
    BY <2>2, <2>3
<1>3. ASSUME In(x, Tail(s)) \/ x = Head(s) PROVE In(x, s)
  <2>1. CASE x = Head(s)
    BY <1>1, <2>1 DEF In
  <2>2. CASE In(x, Tail(s))
    <3>1. PICK i \in DOMAIN Tail(s) : Tail(s)[i] = x
      BY <2>2 DEF In
    <3>2. i + 1 \in DOMAIN s /\ s[i + 1] = x
      BY <1>1, <3>1
    <3> QED
      BY <3>2 DEF In
  <2> QED
    BY <2>1, <2>2, <1>3
<1> QED
  BY <1>1, <1>2, <1>3

(* A sequence without repetition stays so when a new element is added.     *)
LEMMA DistinctAppend ==
  ASSUME NEW R, NEW s \in Seq(R), NEW e \in R, Distinct(s), ~In(e, s)
  PROVE  Distinct(Append(s, e))
<1>1. /\ DOMAIN s = 1..Len(s) /\ Len(s) \in Nat
      /\ DOMAIN Append(s, e) = 1..(Len(s) + 1)
      /\ \A i \in DOMAIN s : Append(s, e)[i] = s[i]
      /\ Append(s, e)[Len(s) + 1] = e
  OBVIOUS
<1> QED
  BY <1>1 DEF Distinct, In

(* The head of a sequence without repetition is not among the rest.        *)
LEMMA DistinctTail ==
  ASSUME NEW R, NEW s \in Seq(R), s # <<>>, Distinct(s)
  PROVE  Distinct(Tail(s)) /\ ~In(Head(s), Tail(s))
<1>1. /\ DOMAIN s = 1..Len(s) /\ Len(s) \in Nat \ {0}
      /\ DOMAIN Tail(s) = 1..(Len(s) - 1)
      /\ \A i \in 1..(Len(s) - 1) : Tail(s)[i] = s[i + 1]
      /\ Head(s) = s[1]
  OBVIOUS
<1>2. \A i \in DOMAIN Tail(s) : i + 1 \in DOMAIN s /\ i + 1 # 1
  BY <1>1
<1>3. \A i, j \in DOMAIN Tail(s) : i # j => i + 1 # j + 1
  BY <1>1
<1>4. Distinct(Tail(s))
  BY <1>1, <1>2, <1>3 DEF Distinct
<1>5. ~In(Head(s), Tail(s))
  BY <1>1, <1>2 DEF Distinct, In
<1> QED
  BY <1>4, <1>5

------------------------------------------------------------------------------
(* Every variable keeps its type: what a thread adds to the epoll set or   *)
(* to the map is a peer, and no more is read than is there.                *)
LEMMA TypeStep ==
  ASSUME TypeOK, HandInv, [Next]_vars
  PROVE  TypeOK'
<1> USE NamesAreDistinct DEF TypeOK, Threads, Goto, At, Labels, network, epollVars, stops
<1>1. ASSUME NEW p \in Peers, PeerConnects(p) PROVE TypeOK'
  <2>1. backlog' \in Seq(Peers)
    BY <1>1, InAppend DEF PeerConnects
  <2> QED
    BY <1>1, <2>1 DEF PeerConnects
<1>2. ASSUME NEW p \in Peers, PeerSends(p) PROVE TypeOK'
  <2>1. left' \in [Peers -> Nat] /\ unread' \in [Peers -> Nat]
    BY <1>2 DEF PeerSends
  <2> QED
    BY <1>2, <2>1 DEF PeerSends, Trigger
<1>3. ASSUME NEW p \in Peers, PeerLeaves(p) PROVE TypeOK'
  BY <1>3 DEF PeerLeaves, Trigger
<1>4. CASE Start \/ CheckStop \/ EpollWait \/ NoMoreEvents \/ PipeEvent \/ AcceptFails
  BY <1>4 DEF Start, CheckStop, EpollWait, NoMoreEvents, PipeEvent, AcceptFails
<1>5. CASE Accept
  <2>1. Head(backlog) \in Peers /\ backlog' \in Seq(Peers)
    BY <1>5, InTail DEF Accept
  <2> QED
    BY <1>5, <2>1 DEF Accept
<1>6. ASSUME NEW t \in {Epoll, Main}, AddToEpoll(t) \/ RegisterFails(t) \/ AddConnection(t) PROVE TypeOK'
  <2>1. t \in Threads /\ inHand[t] \in Peers
    BY <1>6 DEF HandInv, AddToEpoll, RegisterFails, AddConnection
  <2>2. CASE AddToEpoll(t)
    BY <2>1, <2>2 DEF AddToEpoll
  <2>3. CASE AddConnection(t)
    BY <2>1, <2>3 DEF AddConnection
  <2>4. CASE RegisterFails(t)
    BY <2>1, <2>4 DEF RegisterFails
  <2> QED
    BY <2>2, <2>3, <2>4, <1>6
<1>7. ASSUME NEW p \in Peers, NewReadEvent(p) PROVE TypeOK'
  <2>1. queue' \in Seq(Peers \cup {NoData})
    BY <1>7, InAppend DEF NewReadEvent
  <2> QED
    BY <1>7, <2>1 DEF NewReadEvent
<1>8. ASSUME NEW p \in Peers, IgnoreEvent(p) PROVE TypeOK'
  BY <1>8 DEF IgnoreEvent
<1>9. ASSUME NEW from, NEW to \in Labels, Signal(from, to) PROVE TypeOK'
  <2>1. "pop" \in Labels
    BY DEF Labels
  <2>2. pc' \in [Threads -> Labels]
    <3> HIDE DEF Labels
    <3>1. CASE Sleeping = {}
      BY <1>9, <3>1 DEF Signal
    <3>2. CASE Sleeping # {}
      BY <1>9, <2>1, <3>2 DEF Signal
    <3> QED
      BY <3>1, <3>2
  <2> QED
    BY <1>9, <2>2 DEF Signal
<1>10. CASE Wakeup
  <2>1. queue' \in Seq(Peers \cup {NoData})
    BY <1>10, InAppend DEF Wakeup
  <2> QED
    BY <1>10, <2>1 DEF Wakeup
<1>11. CASE StopReaders \/ JoinReaders \/ WritersStopped
  BY <1>11 DEF StopReaders, JoinReaders, WritersStopped
<1>12. ASSUME NEW r \in Readers, PopTakes(r) PROVE TypeOK'
  <2>1. Head(queue) \in Peers \cup {NoData} /\ queue' \in Seq(Peers \cup {NoData})
    BY <1>12, InTail DEF PopTakes
  <2> QED
    BY <1>12, <2>1 DEF PopTakes
<1>13. ASSUME NEW r \in Readers, PopWaits(r) \/ SpuriousWakeup(r) \/ IsStop(r) PROVE TypeOK'
  <2>1. CASE PopWaits(r) \/ SpuriousWakeup(r)
    BY <2>1 DEF PopWaits, SpuriousWakeup
  <2>2. CASE IsStop(r)
    BY <2>2 DEF IsStop
  <2> QED
    BY <1>13, <2>1, <2>2
<1>14. ASSUME NEW r \in Readers, GetConnection(r) PROVE TypeOK'
  BY <1>14 DEF GetConnection, Done
<1>15. ASSUME NEW r \in Readers, ReadChunk(r) PROVE TypeOK'
  BY <1>15 DEF ReadChunk
<1>16. ASSUME NEW r \in Readers, WouldBlock(r) \/ ReadEnds(r) PROVE TypeOK'
  BY <1>16 DEF WouldBlock, ReadEnds, Done
<1>17. ASSUME NEW r \in Readers, RemoveFD(r) \/ Close(r) \/ RemoveConnection(r) PROVE TypeOK'
  BY <1>17 DEF RemoveFD, Close, RemoveConnection, Done
<1>18. ASSUME NEW p \in Peers, ConnectTo(p) PROVE TypeOK'
  BY <1>18 DEF ConnectTo
<1>19. CASE Stop \/ WriteToPipe
  BY <1>19 DEF Stop, WriteToPipe
<1>20. CASE UNCHANGED vars
  BY <1>20 DEF vars
<1> QED
  BY <1>1, <1>2, <1>3, <1>4, <1>5, <1>6, <1>7, <1>8, <1>9, <1>10, <1>11, <1>12, <1>13, <1>14,
     <1>15, <1>16, <1>17, <1>18, <1>19, <1>20 DEF Next, EpollThread, EpollGoesOn, MainThread, Reader, ReaderGoesOn

(* A thread lets go of what it holds before it waits or goes on.           *)
LEMMA HandStep ==
  ASSUME TypeOK, HandInv, [Next]_vars
  PROVE  HandInv'
<1> USE NamesAreDistinct DEF TypeOK, Threads, Goto, At, network, epollVars, stops, HandInv
<1>1. ASSUME NEW p \in Peers, PeerConnects(p) PROVE HandInv'
  BY <1>1 DEF PeerConnects
<1>2. ASSUME NEW p \in Peers, PeerSends(p) PROVE HandInv'
  BY <1>2 DEF PeerSends, Trigger
<1>3. ASSUME NEW p \in Peers, PeerLeaves(p) PROVE HandInv'
  BY <1>3 DEF PeerLeaves, Trigger
<1>4. CASE Start
  BY <1>4 DEF Start
<1>5. CASE CheckStop \/ EpollWait \/ NoMoreEvents \/ PipeEvent \/ AcceptFails
  BY <1>5 DEF CheckStop, EpollWait, NoMoreEvents, PipeEvent, AcceptFails
<1>6. CASE Accept
  BY <1>6 DEF Accept
<1>7. ASSUME NEW t \in {Epoll, Main}, AddToEpoll(t) \/ RegisterFails(t) PROVE HandInv'
  <2>1. CASE AddToEpoll(t)
    BY <2>1 DEF AddToEpoll
  <2>2. CASE RegisterFails(t)
    BY <2>2 DEF RegisterFails
  <2> QED
    BY <1>7, <2>1, <2>2
<1>8. ASSUME NEW t \in {Epoll, Main}, AddConnection(t) PROVE HandInv'
  BY <1>8 DEF AddConnection
<1>9. ASSUME NEW p \in Peers, NewReadEvent(p) PROVE HandInv'
  BY <1>9 DEF NewReadEvent
<1>10. ASSUME NEW p \in Peers, IgnoreEvent(p) PROVE HandInv'
  BY <1>10 DEF IgnoreEvent
<1>11. ASSUME NEW from \in {"signal", "wakeupsignal"}, NEW to \in {"dispatch", "wakeup"}, Signal(from, to)
      PROVE  HandInv'
  BY <1>11 DEF Signal, Sleeping
<1>12. CASE StopReaders \/ Wakeup \/ JoinReaders \/ WritersStopped
  BY <1>12 DEF StopReaders, Wakeup, JoinReaders, WritersStopped
<1>13. ASSUME NEW r \in Readers, PopWaits(r) \/ SpuriousWakeup(r) \/ IsStop(r) PROVE HandInv'
  <2>1. CASE PopWaits(r) \/ SpuriousWakeup(r)
    BY <2>1 DEF PopWaits, SpuriousWakeup
  <2>2. CASE IsStop(r)
    BY <2>2 DEF IsStop
  <2> QED
    BY <1>13, <2>1, <2>2
<1>14. ASSUME NEW r \in Readers, PopTakes(r) PROVE HandInv'
  BY <1>14 DEF PopTakes
<1>15. ASSUME NEW r \in Readers, GetConnection(r) PROVE HandInv'
  BY <1>15 DEF GetConnection, Done
<1>16. ASSUME NEW r \in Readers, ReadChunk(r) \/ WouldBlock(r) \/ ReadEnds(r) PROVE HandInv'
  <2>1. CASE ReadChunk(r)
    BY <2>1 DEF ReadChunk
  <2>2. CASE WouldBlock(r)
    BY <2>2 DEF WouldBlock, Done
  <2>3. CASE ReadEnds(r)
    BY <2>3 DEF ReadEnds
  <2> QED
    BY <1>16, <2>1, <2>2, <2>3
<1>17. ASSUME NEW r \in Readers, RemoveFD(r) \/ Close(r) \/ RemoveConnection(r) PROVE HandInv'
  <2>1. CASE RemoveFD(r)
    BY <2>1 DEF RemoveFD
  <2>2. CASE Close(r)
    BY <2>2 DEF Close
  <2>3. CASE RemoveConnection(r)
    BY <2>3 DEF RemoveConnection, Done
  <2> QED
    BY <1>17, <2>1, <2>2, <2>3
<1>18. ASSUME NEW p \in Peers, ConnectTo(p) PROVE HandInv'
  BY <1>18 DEF ConnectTo
<1>19. CASE Stop \/ WriteToPipe
  BY <1>19 DEF Stop, WriteToPipe
<1>20. CASE UNCHANGED vars
  BY <1>20 DEF vars
<1> QED
  BY <1>1, <1>2, <1>3, <1>4, <1>5, <1>6, <1>7, <1>8, <1>9, <1>10, <1>11, <1>12,
     <1>13, <1>14, <1>15, <1>16, <1>17, <1>18, <1>19, <1>20 DEF Next,
     EpollThread, EpollGoesOn, MainThread, Reader, ReaderGoesOn

(* The epoll thread stops the readers only when the node stops, and goes   *)
(* back to wait when no event is left.                                     *)
LEMMA LoopStep ==
  ASSUME TypeOK, HandInv, LoopInv, [Next]_vars
  PROVE  LoopInv'
<1> USE NamesAreDistinct DEF TypeOK, Threads, Goto, At, network, epollVars, stops, LoopInv, HandInv
<1>1. ASSUME NEW p \in Peers, PeerConnects(p) PROVE LoopInv'
  BY <1>1 DEF PeerConnects
<1>2. ASSUME NEW p \in Peers, PeerSends(p) PROVE LoopInv'
  BY <1>2 DEF PeerSends, Trigger
<1>3. ASSUME NEW p \in Peers, PeerLeaves(p) PROVE LoopInv'
  BY <1>3 DEF PeerLeaves, Trigger
<1>4. CASE Start
  BY <1>4 DEF Start
<1>5. CASE CheckStop \/ EpollWait \/ NoMoreEvents \/ PipeEvent \/ AcceptFails
  BY <1>5 DEF CheckStop, EpollWait, NoMoreEvents, PipeEvent, AcceptFails
<1>6. CASE Accept
  BY <1>6 DEF Accept
<1>7. ASSUME NEW t \in {Epoll, Main}, AddToEpoll(t) \/ RegisterFails(t) PROVE LoopInv'
  BY <1>7 DEF AddToEpoll, RegisterFails
<1>8. ASSUME NEW t \in {Epoll, Main}, AddConnection(t) PROVE LoopInv'
  BY <1>8 DEF AddConnection
<1>9. ASSUME NEW p \in Peers, NewReadEvent(p) PROVE LoopInv'
  BY <1>9 DEF NewReadEvent
<1>10. ASSUME NEW p \in Peers, IgnoreEvent(p) PROVE LoopInv'
  BY <1>10 DEF IgnoreEvent
<1>11. ASSUME NEW from \in {"signal", "wakeupsignal"}, NEW to \in {"dispatch", "wakeup"}, Signal(from, to)
      PROVE  LoopInv'
  BY <1>11 DEF Signal, Sleeping
<1>12. CASE StopReaders \/ Wakeup \/ JoinReaders \/ WritersStopped
  BY <1>12 DEF StopReaders, Wakeup, JoinReaders, WritersStopped
<1>13. ASSUME NEW r \in Readers, PopWaits(r) \/ SpuriousWakeup(r) \/ IsStop(r) PROVE LoopInv'
  BY <1>13 DEF PopWaits, SpuriousWakeup, IsStop
<1>14. ASSUME NEW r \in Readers, PopTakes(r) PROVE LoopInv'
  BY <1>14 DEF PopTakes
<1>15. ASSUME NEW r \in Readers, GetConnection(r) PROVE LoopInv'
  BY <1>15 DEF GetConnection, Done
<1>16. ASSUME NEW r \in Readers, ReadChunk(r) \/ WouldBlock(r) \/ ReadEnds(r) PROVE LoopInv'
  BY <1>16 DEF ReadChunk, WouldBlock, ReadEnds, Done
<1>17. ASSUME NEW r \in Readers, RemoveFD(r) \/ Close(r) \/ RemoveConnection(r) PROVE LoopInv'
  BY <1>17 DEF RemoveFD, Close, RemoveConnection, Done
<1>18. ASSUME NEW p \in Peers, ConnectTo(p) PROVE LoopInv'
  BY <1>18 DEF ConnectTo
<1>19. CASE Stop \/ WriteToPipe
  BY <1>19 DEF Stop, WriteToPipe
<1>20. CASE UNCHANGED vars
  BY <1>20 DEF vars
<1> QED
  BY <1>1, <1>2, <1>3, <1>4, <1>5, <1>6, <1>7, <1>8, <1>9, <1>10, <1>11, <1>12,
     <1>13, <1>14, <1>15, <1>16, <1>17, <1>18, <1>19, <1>20 DEF Next,
     EpollThread, EpollGoesOn, MainThread, Reader, ReaderGoesOn

(* A reader that finds another on its connection puts its peer in clash;   *)
(* of the others, the one that removes a connection is alone on it.        *)
LEMMA OwnStep ==
  ASSUME TypeOK, HandInv, OwnInv, [Next]_vars
  PROVE  OwnInv'
<1> USE NamesAreDistinct DEF TypeOK, Threads, Goto, At, network, epollVars, stops, OwnInv, HandInv, Working, OnConnection
<1>1. ASSUME NEW p \in Peers, PeerConnects(p) PROVE OwnInv'
  BY <1>1 DEF PeerConnects
<1>2. ASSUME NEW p \in Peers, PeerSends(p) PROVE OwnInv'
  BY <1>2 DEF PeerSends, Trigger
<1>3. ASSUME NEW p \in Peers, PeerLeaves(p) PROVE OwnInv'
  BY <1>3 DEF PeerLeaves, Trigger
<1>4. CASE Start
  BY <1>4 DEF Start
<1>5. CASE CheckStop \/ EpollWait \/ NoMoreEvents \/ PipeEvent \/ AcceptFails
  BY <1>5 DEF CheckStop, EpollWait, NoMoreEvents, PipeEvent, AcceptFails
<1>6. CASE Accept
  BY <1>6 DEF Accept
<1>7. ASSUME NEW t \in {Epoll, Main}, AddToEpoll(t) \/ RegisterFails(t) PROVE OwnInv'
  BY <1>7 DEF AddToEpoll, RegisterFails
<1>8. ASSUME NEW t \in {Epoll, Main}, AddConnection(t) PROVE OwnInv'
  BY <1>8 DEF AddConnection
<1>9. ASSUME NEW p \in Peers, NewReadEvent(p) PROVE OwnInv'
  BY <1>9 DEF NewReadEvent
<1>10. ASSUME NEW p \in Peers, IgnoreEvent(p) PROVE OwnInv'
  BY <1>10 DEF IgnoreEvent
<1>11. ASSUME NEW from \in {"signal", "wakeupsignal"}, NEW to \in {"dispatch", "wakeup"}, Signal(from, to)
      PROVE  OwnInv'
  BY <1>11 DEF Signal, Sleeping
<1>12. CASE StopReaders \/ Wakeup \/ JoinReaders \/ WritersStopped
  BY <1>12 DEF StopReaders, Wakeup, JoinReaders, WritersStopped
<1>13. ASSUME NEW r \in Readers, PopWaits(r) \/ SpuriousWakeup(r) \/ IsStop(r) PROVE OwnInv'
  <2>1. UNCHANGED <<conns, clash>> /\ \A q \in Readers : Working(q)' => pc'[q] = pc[q] /\ inHand'[q] = inHand[q]
    BY <1>13 DEF PopWaits, SpuriousWakeup, IsStop
  <2> QED
    BY <2>1
<1>14. ASSUME NEW r \in Readers, PopTakes(r) PROVE OwnInv'
  BY <1>14 DEF PopTakes
<1>15. ASSUME NEW r \in Readers, GetConnection(r) PROVE OwnInv'
  <2>1. CASE inHand[r] \in conns
    <3>1. /\ UNCHANGED <<conns, inHand>> /\ clash \subseteq clash'
          /\ \A q \in Readers : q # r => pc'[q] = pc[q]
      BY <1>15, <2>1 DEF GetConnection
    <3>2. \A q \in Readers : Working(q) /\ inHand[q] = inHand[r] => inHand[r] \in clash'
      BY <1>15, <2>1 DEF GetConnection
    <3> QED
      BY <2>1, <3>1, <3>2
  <2>2. CASE inHand[r] \notin conns
    <3>1. UNCHANGED <<conns, clash>> /\ \A q \in Readers : Working(q)' => pc'[q] = pc[q] /\ inHand'[q] = inHand[q]
      BY <1>15, <2>2 DEF GetConnection, Done
    <3> QED
      BY <3>1
  <2> QED
    BY <2>1, <2>2
<1>16. ASSUME NEW r \in Readers, ReadChunk(r) \/ WouldBlock(r) \/ ReadEnds(r) PROVE OwnInv'
  <2>1. CASE ReadChunk(r)
    BY <2>1 DEF ReadChunk
  <2>2. CASE WouldBlock(r)
    BY <2>2 DEF WouldBlock, Done
  <2>3. CASE ReadEnds(r)
    BY <2>3 DEF ReadEnds
  <2> QED
    BY <1>16, <2>1, <2>2, <2>3
<1>17. ASSUME NEW r \in Readers, RemoveFD(r) \/ Close(r) \/ RemoveConnection(r) PROVE OwnInv'
  <2>1. CASE RemoveFD(r)
    BY <2>1 DEF RemoveFD
  <2>2. CASE Close(r)
    BY <2>2 DEF Close
  <2>3. CASE RemoveConnection(r)
    BY <2>3 DEF RemoveConnection, Done
  <2> QED
    BY <1>17, <2>1, <2>2, <2>3
<1>18. ASSUME NEW p \in Peers, ConnectTo(p) PROVE OwnInv'
  BY <1>18 DEF ConnectTo
<1>19. CASE Stop \/ WriteToPipe
  BY <1>19 DEF Stop, WriteToPipe
<1>20. CASE UNCHANGED vars
  BY <1>20 DEF vars
<1> QED
  BY <1>1, <1>2, <1>3, <1>4, <1>5, <1>6, <1>7, <1>8, <1>9, <1>10, <1>11, <1>12,
     <1>13, <1>14, <1>15, <1>16, <1>17, <1>18, <1>19, <1>20 DEF Next,
     EpollThread, EpollGoesOn, MainThread, Reader, ReaderGoesOn

(* An event is queued with its signal still to be sent, and the signal wakes *)
(* a reader; a reader falls asleep only when the queue is empty.           *)
LEMMA WakeupStep ==
  ASSUME TypeOK, HandInv, NoLostWakeup, [Next]_vars
  PROVE  NoLostWakeup'
<1> USE NamesAreDistinct DEF TypeOK, Threads, Goto, At, network, epollVars, stops, NoLostWakeup
<1>1. ASSUME NEW p \in Peers, PeerConnects(p) PROVE NoLostWakeup'
  BY <1>1 DEF PeerConnects
<1>2. ASSUME NEW p \in Peers, PeerSends(p) PROVE NoLostWakeup'
  BY <1>2 DEF PeerSends, Trigger
<1>3. ASSUME NEW p \in Peers, PeerLeaves(p) PROVE NoLostWakeup'
  BY <1>3 DEF PeerLeaves, Trigger
<1>4. CASE Start
  BY <1>4 DEF Start
<1>5. CASE CheckStop \/ EpollWait \/ NoMoreEvents \/ PipeEvent \/ AcceptFails
  BY <1>5 DEF CheckStop, EpollWait, NoMoreEvents, PipeEvent, AcceptFails
<1>6. CASE Accept
  BY <1>6 DEF Accept
<1>7. ASSUME NEW t \in {Epoll, Main}, AddToEpoll(t) \/ RegisterFails(t) PROVE NoLostWakeup'
  BY <1>7 DEF AddToEpoll, RegisterFails
<1>8. ASSUME NEW t \in {Epoll, Main}, AddConnection(t) PROVE NoLostWakeup'
  BY <1>8 DEF AddConnection
<1>9. ASSUME NEW p \in Peers, NewReadEvent(p) PROVE NoLostWakeup'
  BY <1>9 DEF NewReadEvent
<1>10. ASSUME NEW p \in Peers, IgnoreEvent(p) PROVE NoLostWakeup'
  BY <1>10 DEF IgnoreEvent
<1>11. ASSUME NEW from \in {"signal", "wakeupsignal"}, NEW to \in {"dispatch", "wakeup"}, Signal(from, to)
      PROVE  NoLostWakeup'
  <2>1. CASE Sleeping = {}
    BY <1>11, <2>1, ThereAreReaders DEF Signal, Sleeping
  <2>2. CASE Sleeping # {}
    BY <1>11, <2>2 DEF Signal, Sleeping
  <2> QED
    BY <2>1, <2>2
<1>12. CASE StopReaders \/ Wakeup \/ JoinReaders \/ WritersStopped
  BY <1>12 DEF StopReaders, Wakeup, JoinReaders, WritersStopped
<1>13. ASSUME NEW r \in Readers, PopWaits(r) \/ SpuriousWakeup(r) \/ IsStop(r) PROVE NoLostWakeup'
  BY <1>13 DEF PopWaits, SpuriousWakeup, IsStop
<1>14. ASSUME NEW r \in Readers, PopTakes(r) PROVE NoLostWakeup'
  BY <1>14 DEF PopTakes
<1>15. ASSUME NEW r \in Readers, GetConnection(r) PROVE NoLostWakeup'
  BY <1>15 DEF GetConnection, Done
<1>16. ASSUME NEW r \in Readers, ReadChunk(r) \/ WouldBlock(r) \/ ReadEnds(r) PROVE NoLostWakeup'
  BY <1>16 DEF ReadChunk, WouldBlock, ReadEnds, Done
<1>17. ASSUME NEW r \in Readers, RemoveFD(r) \/ Close(r) \/ RemoveConnection(r) PROVE NoLostWakeup'
  BY <1>17 DEF RemoveFD, Close, RemoveConnection, Done
<1>18. ASSUME NEW p \in Peers, ConnectTo(p) PROVE NoLostWakeup'
  BY <1>18 DEF ConnectTo
<1>19. CASE Stop \/ WriteToPipe
  BY <1>19 DEF Stop, WriteToPipe
<1>20. CASE UNCHANGED vars
  BY <1>20 DEF vars
<1> QED
  BY <1>1, <1>2, <1>3, <1>4, <1>5, <1>6, <1>7, <1>8, <1>9, <1>10, <1>11, <1>12,
     <1>13, <1>14, <1>15, <1>16, <1>17, <1>18, <1>19, <1>20 DEF Next,
     EpollThread, EpollGoesOn, MainThread, Reader, ReaderGoesOn

(* A peer enters the backlog once; it is out of it when it is accepted, and *)
(* only the epoll thread puts it in the map.                               *)
LEMMA ArrivalStep ==
  ASSUME TypeOK, HandInv, ArrivalInv, [Next]_vars
  PROVE  ArrivalInv'
<1> USE NamesAreDistinct DEF TypeOK, Threads, Goto, At, network, epollVars, stops, HandInv, ArrivalInv
<1>1. ASSUME NEW p \in Peers, PeerConnects(p) PROVE ArrivalInv'
  <2>1. \A x : In(x, backlog') <=> In(x, backlog) \/ x = p
    BY <1>1, InAppend DEF PeerConnects
  <2>2. role = "server" => ~In(p, backlog) /\ Untouched(p) /\ inHand[Epoll] # p
    BY <1>1 DEF PeerConnects
  <2>3. role = "server" => Distinct(backlog')
    BY <1>1, <2>2, DistinctAppend DEF PeerConnects
  <2>4. \A q : status'[q] = "away" => status[q] = "away" /\ q # p
    BY <1>1 DEF PeerConnects
  <2>5. \A q \in Peers : q # p => (ToBeRead(q)' <=> ToBeRead(q))
    BY <1>1 DEF PeerConnects, ToBeRead
  <2>6. UNCHANGED <<role, pc, inHand, fds, registered>> /\ edge \subseteq edge'
    BY <1>1 DEF PeerConnects
  <2>7. \A q : Untouched(q)' <=> Untouched(q)
    BY <1>1 DEF PeerConnects, Untouched, OnConnection, Working
  <2>8. CASE role = "server"
    <3>1. \A q \in Peers : status'[q] = "away" => (Untouched(q) /\ ~In(q, backlog) /\ inHand[Epoll] # q)'
      BY <2>1, <2>4, <2>6, <2>7, <2>8
    <3>2. \A q \in Peers : In(q, backlog') => (Untouched(q) /\ inHand[Epoll] # q)'
      BY <2>1, <2>2, <2>6, <2>7, <2>8
    <3>3. \A q \in Peers : inHand'[Epoll] = q =>
            (/\ Untouched(q) /\ q \in fds
             /\ At(Epoll, "addconnection") => q \in registered /\ (ToBeRead(q) => q \in edge))'
      BY <2>2, <2>5, <2>6, <2>7, <2>8
    <3> QED
      BY <2>3, <2>8, <3>1, <3>2, <3>3
  <2> QED
    BY <2>6, <2>8
<1>2. ASSUME NEW p \in Peers, PeerSends(p) PROVE ArrivalInv'
  BY <1>2 DEF PeerSends, Trigger, Untouched, OnConnection, Working, ToBeRead
<1>3. ASSUME NEW p \in Peers, PeerLeaves(p) PROVE ArrivalInv'
  BY <1>3 DEF PeerLeaves, Trigger, Untouched, OnConnection, Working, ToBeRead
<1>4. CASE Start
  BY <1>4 DEF Start, Untouched, OnConnection, Working, ToBeRead
<1>5. CASE CheckStop \/ EpollWait \/ NoMoreEvents \/ PipeEvent \/ AcceptFails
  BY <1>5 DEF CheckStop, EpollWait, NoMoreEvents, PipeEvent, AcceptFails, Untouched, OnConnection, Working, ToBeRead
<1>6. CASE Accept
  <2> DEFINE h == Head(backlog)
  <2>1. h \in Peers /\ In(h, backlog) /\ \A x : In(x, backlog) <=> In(x, backlog') \/ x = h
    BY <1>6, InTail DEF Accept
  <2>2. role = "server" => Distinct(backlog') /\ ~In(h, backlog')
    BY <1>6, DistinctTail DEF Accept
  <2>3. role = "server" => Untouched(h) /\ status[h] # "away"
    BY <2>1
  <2>4. /\ UNCHANGED <<role, status, registered, edge>>
        /\ pc'[Epoll] = "register" /\ inHand'[Epoll] = h /\ h \in fds' /\ fds \subseteq fds'
    BY <1>6, <2>1 DEF Accept
  <2>5. \A q : Untouched(q)' <=> Untouched(q)
    BY <1>6, <2>1 DEF Accept, Untouched, OnConnection, Working
  <2>6. CASE role = "server"
    <3>1. \A q \in Peers : status'[q] = "away" => (Untouched(q) /\ ~In(q, backlog) /\ inHand[Epoll] # q)'
      BY <2>1, <2>3, <2>4, <2>5, <2>6
    <3>2. \A q \in Peers : In(q, backlog') => (Untouched(q) /\ inHand[Epoll] # q)'
      BY <2>1, <2>2, <2>4, <2>5, <2>6
    <3>3. \A q \in Peers : inHand'[Epoll] = q =>
            (/\ Untouched(q) /\ q \in fds
             /\ At(Epoll, "addconnection") => q \in registered /\ (ToBeRead(q) => q \in edge))'
      BY <2>3, <2>4, <2>5, <2>6
    <3> QED
      BY <2>2, <2>6, <3>1, <3>2, <3>3
  <2> QED
    BY <2>4, <2>6
<1>7. ASSUME NEW t \in {Epoll, Main}, AddToEpoll(t) \/ RegisterFails(t) PROVE ArrivalInv'
  BY <1>7 DEF AddToEpoll, RegisterFails, Untouched, OnConnection, Working, ToBeRead
<1>8. ASSUME NEW t \in {Epoll, Main}, AddConnection(t) PROVE ArrivalInv'
  BY <1>8 DEF AddConnection, Untouched, OnConnection, Working, ToBeRead
<1>9. ASSUME NEW p \in Peers, NewReadEvent(p) PROVE ArrivalInv'
  BY <1>9 DEF NewReadEvent, Untouched, OnConnection, Working, ToBeRead
<1>10. ASSUME NEW p \in Peers, IgnoreEvent(p) PROVE ArrivalInv'
  BY <1>10 DEF IgnoreEvent, Untouched, OnConnection, Working, ToBeRead
<1>11. ASSUME NEW from \in {"signal", "wakeupsignal"}, NEW to \in {"dispatch", "wakeup"}, Signal(from, to)
      PROVE  ArrivalInv'
  BY <1>11 DEF Signal, Sleeping, Untouched, OnConnection, Working, ToBeRead
<1>12. CASE StopReaders \/ Wakeup \/ JoinReaders \/ WritersStopped
  BY <1>12 DEF StopReaders, Wakeup, JoinReaders, WritersStopped, Untouched, OnConnection, Working, ToBeRead
<1>13. ASSUME NEW r \in Readers, PopWaits(r) \/ SpuriousWakeup(r) \/ IsStop(r) PROVE ArrivalInv'
  <2>1. r # Epoll /\ UNCHANGED <<role, status, backlog>> /\ pc'[Epoll] = pc[Epoll] /\ inHand'[Epoll] = inHand[Epoll]
    BY <1>13 DEF PopWaits, SpuriousWakeup, IsStop
  <2>2. \A p \in Peers : Untouched(p) => Untouched(p)'
    <3>1. ASSUME NEW p \in Peers, NEW q \in Readers, OnConnection(q, p)' PROVE OnConnection(q, p)
      <4>1. CASE q = r
        BY <1>13, <3>1, <4>1 DEF PopWaits, SpuriousWakeup, IsStop, OnConnection, Working
      <4>2. CASE q # r
        BY <1>13, <3>1, <4>2 DEF PopWaits, SpuriousWakeup, IsStop, OnConnection, Working
      <4> QED
        BY <4>1, <4>2
    <3>2. conns' \subseteq conns
      BY <1>13 DEF PopWaits, SpuriousWakeup, IsStop
    <3> QED
      BY <3>1, <3>2 DEF Untouched
  <2>3. \A p \in Peers : ToBeRead(p)' => ToBeRead(p)
    BY <1>13 DEF PopWaits, SpuriousWakeup, IsStop, ToBeRead
  <2>4. \A p \in Peers : Untouched(p) =>
          (p \in fds => p \in fds') /\ (p \in registered => p \in registered') /\ (p \in edge => p \in edge')
    BY <1>13 DEF PopWaits, SpuriousWakeup, IsStop, Untouched, OnConnection, Working
  <2>5. \A x : In(x, backlog') <=> In(x, backlog)
    BY <2>1
  <2>6. role = "server" => Distinct(backlog')
    BY <2>1
  <2>7. CASE role = "server"
    <3>1. \A q \in Peers : status'[q] = "away" => (Untouched(q) /\ ~In(q, backlog) /\ inHand[Epoll] # q)'
      BY <2>1, <2>2, <2>5, <2>7
    <3>2. \A q \in Peers : In(q, backlog') => (Untouched(q) /\ inHand[Epoll] # q)'
      BY <2>1, <2>2, <2>5, <2>7
    <3>3. ASSUME NEW q \in Peers, inHand'[Epoll] = q
          PROVE  /\ Untouched(q)' /\ q \in fds'
                 /\ pc'[Epoll] = "addconnection" => q \in registered' /\ (ToBeRead(q)' => q \in edge')
      <4>1. /\ Untouched(q) /\ q \in fds
            /\ pc[Epoll] = "addconnection" => q \in registered /\ (ToBeRead(q) => q \in edge)
        BY <2>1, <2>7, <3>3
      <4>2. Untouched(q)' /\ q \in fds'
        BY <4>1, <2>2, <2>4
      <4>3. ASSUME pc'[Epoll] = "addconnection" PROVE q \in registered' /\ (ToBeRead(q)' => q \in edge')
        <5>1. pc[Epoll] = "addconnection"
          BY <2>1, <4>3
        <5> QED
          BY <5>1, <4>1, <2>3, <2>4
      <4> QED
        BY <4>2, <4>3
    <3> QED
      BY <2>6, <2>7, <3>1, <3>2, <3>3
  <2> QED
    BY <2>1, <2>7
<1>14. ASSUME NEW r \in Readers, PopTakes(r) PROVE ArrivalInv'
  BY <1>14 DEF PopTakes, Untouched, OnConnection, Working, ToBeRead
<1>15. ASSUME NEW r \in Readers, GetConnection(r) PROVE ArrivalInv'
  BY <1>15 DEF GetConnection, Done, Untouched, OnConnection, Working, ToBeRead
<1>16. ASSUME NEW r \in Readers, ReadChunk(r) \/ WouldBlock(r) \/ ReadEnds(r) PROVE ArrivalInv'
  <2>1. r # Epoll /\ UNCHANGED <<role, status, backlog>> /\ pc'[Epoll] = pc[Epoll] /\ inHand'[Epoll] = inHand[Epoll]
    BY <1>16 DEF ReadChunk, WouldBlock, ReadEnds, Done
  <2>2. \A p \in Peers : Untouched(p) => Untouched(p)'
    <3>1. ASSUME NEW p \in Peers, NEW q \in Readers, OnConnection(q, p)' PROVE OnConnection(q, p)
      <4>1. CASE q = r
        BY <1>16, <3>1, <4>1 DEF ReadChunk, WouldBlock, ReadEnds, Done, OnConnection, Working
      <4>2. CASE q # r
        BY <1>16, <3>1, <4>2 DEF ReadChunk, WouldBlock, ReadEnds, Done, OnConnection, Working
      <4> QED
        BY <4>1, <4>2
    <3>2. conns' \subseteq conns
      BY <1>16 DEF ReadChunk, WouldBlock, ReadEnds, Done
    <3> QED
      BY <3>1, <3>2 DEF Untouched
  <2>3. \A p \in Peers : ToBeRead(p)' => ToBeRead(p)
    BY <1>16 DEF ReadChunk, WouldBlock, ReadEnds, Done, ToBeRead
  <2>4. \A p \in Peers : Untouched(p) =>
          (p \in fds => p \in fds') /\ (p \in registered => p \in registered') /\ (p \in edge => p \in edge')
    BY <1>16 DEF ReadChunk, WouldBlock, ReadEnds, Done, Untouched, OnConnection, Working
  <2>5. \A x : In(x, backlog') <=> In(x, backlog)
    BY <2>1
  <2>6. role = "server" => Distinct(backlog')
    BY <2>1
  <2>7. CASE role = "server"
    <3>1. \A q \in Peers : status'[q] = "away" => (Untouched(q) /\ ~In(q, backlog) /\ inHand[Epoll] # q)'
      BY <2>1, <2>2, <2>5, <2>7
    <3>2. \A q \in Peers : In(q, backlog') => (Untouched(q) /\ inHand[Epoll] # q)'
      BY <2>1, <2>2, <2>5, <2>7
    <3>3. ASSUME NEW q \in Peers, inHand'[Epoll] = q
          PROVE  /\ Untouched(q)' /\ q \in fds'
                 /\ pc'[Epoll] = "addconnection" => q \in registered' /\ (ToBeRead(q)' => q \in edge')
      <4>1. /\ Untouched(q) /\ q \in fds
            /\ pc[Epoll] = "addconnection" => q \in registered /\ (ToBeRead(q) => q \in edge)
        BY <2>1, <2>7, <3>3
      <4>2. Untouched(q)' /\ q \in fds'
        BY <4>1, <2>2, <2>4
      <4>3. ASSUME pc'[Epoll] = "addconnection" PROVE q \in registered' /\ (ToBeRead(q)' => q \in edge')
        <5>1. pc[Epoll] = "addconnection"
          BY <2>1, <4>3
        <5> QED
          BY <5>1, <4>1, <2>3, <2>4
      <4> QED
        BY <4>2, <4>3
    <3> QED
      BY <2>6, <2>7, <3>1, <3>2, <3>3
  <2> QED
    BY <2>1, <2>7
<1>17. ASSUME NEW r \in Readers, RemoveFD(r) \/ Close(r) \/ RemoveConnection(r) PROVE ArrivalInv'
  <2>1. r # Epoll /\ UNCHANGED <<role, status, backlog>> /\ pc'[Epoll] = pc[Epoll] /\ inHand'[Epoll] = inHand[Epoll]
    BY <1>17 DEF RemoveFD, Close, RemoveConnection, Done
  <2>2. \A p \in Peers : Untouched(p) => Untouched(p)'
    <3>1. ASSUME NEW p \in Peers, NEW q \in Readers, OnConnection(q, p)' PROVE OnConnection(q, p)
      <4>1. CASE q = r
        BY <1>17, <3>1, <4>1 DEF RemoveFD, Close, RemoveConnection, Done, OnConnection, Working
      <4>2. CASE q # r
        BY <1>17, <3>1, <4>2 DEF RemoveFD, Close, RemoveConnection, Done, OnConnection, Working
      <4> QED
        BY <4>1, <4>2
    <3>2. conns' \subseteq conns
      BY <1>17 DEF RemoveFD, Close, RemoveConnection, Done
    <3> QED
      BY <3>1, <3>2 DEF Untouched
  <2>3. \A p \in Peers : ToBeRead(p)' => ToBeRead(p)
    BY <1>17 DEF RemoveFD, Close, RemoveConnection, Done, ToBeRead
  <2>4. \A p \in Peers : Untouched(p) =>
          (p \in fds => p \in fds') /\ (p \in registered => p \in registered') /\ (p \in edge => p \in edge')
    BY <1>17 DEF RemoveFD, Close, RemoveConnection, Done, Untouched, OnConnection, Working
  <2>5. \A x : In(x, backlog') <=> In(x, backlog)
    BY <2>1
  <2>6. role = "server" => Distinct(backlog')
    BY <2>1
  <2>7. CASE role = "server"
    <3>1. \A q \in Peers : status'[q] = "away" => (Untouched(q) /\ ~In(q, backlog) /\ inHand[Epoll] # q)'
      BY <2>1, <2>2, <2>5, <2>7
    <3>2. \A q \in Peers : In(q, backlog') => (Untouched(q) /\ inHand[Epoll] # q)'
      BY <2>1, <2>2, <2>5, <2>7
    <3>3. ASSUME NEW q \in Peers, inHand'[Epoll] = q
          PROVE  /\ Untouched(q)' /\ q \in fds'
                 /\ pc'[Epoll] = "addconnection" => q \in registered' /\ (ToBeRead(q)' => q \in edge')
      <4>1. /\ Untouched(q) /\ q \in fds
            /\ pc[Epoll] = "addconnection" => q \in registered /\ (ToBeRead(q) => q \in edge)
        BY <2>1, <2>7, <3>3
      <4>2. Untouched(q)' /\ q \in fds'
        BY <4>1, <2>2, <2>4
      <4>3. ASSUME pc'[Epoll] = "addconnection" PROVE q \in registered' /\ (ToBeRead(q)' => q \in edge')
        <5>1. pc[Epoll] = "addconnection"
          BY <2>1, <4>3
        <5> QED
          BY <5>1, <4>1, <2>3, <2>4
      <4> QED
        BY <4>2, <4>3
    <3> QED
      BY <2>6, <2>7, <3>1, <3>2, <3>3
  <2> QED
    BY <2>1, <2>7
<1>18. ASSUME NEW p \in Peers, ConnectTo(p) PROVE ArrivalInv'
  BY <1>18 DEF ConnectTo, Untouched, OnConnection, Working, ToBeRead
<1>19. CASE Stop \/ WriteToPipe
  BY <1>19 DEF Stop, WriteToPipe, Untouched, OnConnection, Working, ToBeRead
<1>20. CASE UNCHANGED vars
  BY <1>20 DEF vars, Untouched, OnConnection, Working, ToBeRead
<1> QED
  BY <1>1, <1>2, <1>3, <1>4, <1>5, <1>6, <1>7, <1>8, <1>9, <1>10, <1>11, <1>12,
     <1>13, <1>14, <1>15, <1>16, <1>17, <1>18, <1>19, <1>20 DEF Next,
     EpollThread, EpollGoesOn, MainThread, Reader, ReaderGoesOn

(* A reader that takes a connection down removes it from the epoll set,    *)
(* closes it and removes it from the map, in this order, holding it.       *)
LEMMA DepartureStep ==
  ASSUME TypeOK, HandInv, ArrivalInv, DepartureInv, [Next]_vars
  PROVE  DepartureInv'
<1>keep. ASSUME role' = role, conns' \subseteq conns, registered \subseteq registered', fds \subseteq fds',
                \A r \in Readers : pc[r] \in {"close", "remove"} => pc'[r] = pc[r] /\ inHand'[r] = inHand[r]
         PROVE  DepartureInv'
  BY <1>keep DEF DepartureInv, At
<1> USE NamesAreDistinct DEF TypeOK, Threads, Goto, At, network, epollVars, stops
<1>1. ASSUME NEW p \in Peers, PeerConnects(p) PROVE DepartureInv'
  BY <1>1, <1>keep DEF PeerConnects
<1>2. ASSUME NEW p \in Peers, PeerSends(p) PROVE DepartureInv'
  BY <1>2, <1>keep DEF PeerSends
<1>3. ASSUME NEW p \in Peers, PeerLeaves(p) PROVE DepartureInv'
  BY <1>3, <1>keep DEF PeerLeaves
<1>4. CASE Start
  BY <1>4, <1>keep DEF Start, HandInv
<1>5. CASE CheckStop \/ EpollWait \/ NoMoreEvents \/ PipeEvent \/ AcceptFails
  BY <1>5, <1>keep DEF CheckStop, EpollWait, NoMoreEvents, PipeEvent, AcceptFails
<1>6. CASE Accept
  BY <1>6, <1>keep DEF Accept
<1>7. ASSUME NEW t \in {Epoll, Main}, AddToEpoll(t) \/ RegisterFails(t) PROVE DepartureInv'
  <2>1. CASE AddToEpoll(t)
    BY <2>1, <1>keep DEF AddToEpoll, HandInv
  <2>2. CASE RegisterFails(t) /\ t = Epoll
    BY <2>2, <1>keep DEF RegisterFails, HandInv
  <2>3. CASE RegisterFails(t) /\ t = Main
    BY <2>3 DEF RegisterFails, HandInv, DepartureInv
  <2> QED
    BY <1>7, <2>1, <2>2, <2>3
<1>8. ASSUME NEW t \in {Epoll, Main}, AddConnection(t) PROVE DepartureInv'
  <2>1. UNCHANGED <<role, registered, fds>> /\ \A r \in Readers : pc'[r] = pc[r] /\ inHand'[r] = inHand[r]
    BY <1>8 DEF AddConnection
  <2>2. ASSUME role = "server" PROVE conns' \subseteq conns \/ \E p \in registered \cap fds : conns' = conns \cup {p}
    BY <1>8, <2>2 DEF AddConnection, HandInv, ArrivalInv
  <2>3. CASE conns' \subseteq conns
    BY <1>keep, <2>1, <2>3
  <2>4. ASSUME role = "server", NEW p \in registered \cap fds, conns' = conns \cup {p} PROVE DepartureInv'
    <3>1. ASSUME NEW q \in conns'
          PROVE  /\ q \in registered \/ \E r \in Readers : pc'[r] \in {"close", "remove"} /\ inHand'[r] = q
                 /\ q \in fds \/ \E r \in Readers : pc'[r] = "remove" /\ inHand'[r] = q
      <4>1. CASE q = p
        BY <2>1, <2>4, <4>1
      <4>2. CASE q # p
        <5>1. q \in conns
          BY <2>4, <3>1, <4>2
        <5>2. /\ q \in registered \/ \E r \in Readers : pc[r] \in {"close", "remove"} /\ inHand[r] = q
              /\ q \in fds \/ \E r \in Readers : pc[r] = "remove" /\ inHand[r] = q
          BY <2>4, <5>1 DEF DepartureInv
        <5> QED
          BY <2>1, <5>2
      <4> QED
        BY <4>1, <4>2
    <3> QED
      BY <2>1, <3>1 DEF DepartureInv
  <2>5. role # "server" => DepartureInv'
    BY <2>1 DEF DepartureInv
  <2> QED
    BY <2>2, <2>3, <2>4, <2>5
<1>9. ASSUME NEW p \in Peers, NewReadEvent(p) PROVE DepartureInv'
  BY <1>9, <1>keep DEF NewReadEvent
<1>10. ASSUME NEW p \in Peers, IgnoreEvent(p) PROVE DepartureInv'
  BY <1>10, <1>keep DEF IgnoreEvent
<1>11. ASSUME NEW from \in {"signal", "wakeupsignal"}, NEW to \in {"dispatch", "wakeup"}, Signal(from, to)
      PROVE  DepartureInv'
  BY <1>11, <1>keep DEF Signal, Sleeping
<1>12. CASE StopReaders \/ Wakeup \/ JoinReaders \/ WritersStopped
  BY <1>12, <1>keep DEF StopReaders, Wakeup, JoinReaders, WritersStopped
<1>13. ASSUME NEW r \in Readers, PopWaits(r) \/ SpuriousWakeup(r) \/ IsStop(r) PROVE DepartureInv'
  BY <1>13, <1>keep DEF PopWaits, SpuriousWakeup, IsStop
<1>14. ASSUME NEW r \in Readers, PopTakes(r) PROVE DepartureInv'
  BY <1>14, <1>keep DEF PopTakes
<1>15. ASSUME NEW r \in Readers, GetConnection(r) PROVE DepartureInv'
  BY <1>15, <1>keep DEF GetConnection, Done
<1>16. ASSUME NEW r \in Readers, ReadChunk(r) \/ WouldBlock(r) \/ ReadEnds(r) PROVE DepartureInv'
  BY <1>16, <1>keep DEF ReadChunk, WouldBlock, ReadEnds, Done
<1>17. ASSUME NEW r \in Readers, RemoveFD(r) \/ Close(r) \/ RemoveConnection(r) PROVE DepartureInv'
  <2>1. CASE RemoveFD(r)
    BY <1>17, <2>1 DEF RemoveFD, DepartureInv
  <2>2. CASE Close(r)
    BY <1>17, <2>2 DEF Close, DepartureInv
  <2>3. CASE RemoveConnection(r)
    BY <1>17, <2>3 DEF RemoveConnection, Done, DepartureInv
  <2> QED
    BY <1>17, <2>1, <2>2, <2>3
<1>18. ASSUME NEW p \in Peers, ConnectTo(p) PROVE DepartureInv'
  BY <1>18, <1>keep DEF ConnectTo
<1>19. CASE Stop \/ WriteToPipe
  BY <1>19, <1>keep DEF Stop, WriteToPipe
<1>20. CASE UNCHANGED vars
  BY <1>20, <1>keep DEF vars
<1> QED
  BY <1>1, <1>2, <1>3, <1>4, <1>5, <1>6, <1>7, <1>8, <1>9, <1>10, <1>11, <1>12,
     <1>13, <1>14, <1>15, <1>16, <1>17, <1>18, <1>19, <1>20 DEF Next,
     EpollThread, EpollGoesOn, MainThread, Reader, ReaderGoesOn

(* A node stays a server or a client.                                      *)
LEMMA RoleStays ==
  ASSUME [Next]_vars
  PROVE  role' = role
BY DEF Next, vars, network, EpollThread, EpollGoesOn, MainThread, Reader, ReaderGoesOn, PeerConnects, PeerSends, PeerLeaves, Start,
       CheckStop, EpollWait, NoMoreEvents, PipeEvent, AcceptFails, Accept, AddToEpoll, AddConnection, NewReadEvent,
       RegisterFails, IgnoreEvent, Signal, StopReaders, Wakeup, JoinReaders, WritersStopped, PopWaits, SpuriousWakeup, PopTakes, IsStop,
       GetConnection, ReadChunk, WouldBlock, ReadEnds, RemoveFD, Close, RemoveConnection, ConnectTo,
       Stop, WriteToPipe

(* The event of a connection that has something to be read is passed on:   *)
(* from the epoll set to the events, the queue and a reader's hand, which  *)
(* lets go only of a connection that has been read to the end.             *)
LEMMA EventStep ==
  ASSUME TypeOK, HandInv, LoopInv, ArrivalInv, DepartureInv, NoEventLost, [Next]_vars
  PROVE  NoEventLost'
<1> SUFFICES ASSUME role = "server", NEW p \in Peers, p \in conns', ToBeRead(p)', nodeStop' = FALSE
             PROVE  InEventPath(p)'
  <2>1. role' = role /\ conns' \subseteq Peers /\ nodeStop' \in BOOLEAN
    BY TypeStep, RoleStays DEF TypeOK
  <2> QED
    BY <2>1 DEF NoEventLost, EventsArePending, ToBeRead
<1> DEFINE Path == p \in edge \cup events \/ In(p, queue) \/ \E r \in Readers : inHand[r] = p
<1>path. (InEventPath(p) <=> Path) /\ (InEventPath(p)' <=> Path')
  BY DEF InEventPath, In
<1> SUFFICES Path'
  BY <1>path
<1>old. p \in conns /\ ToBeRead(p) /\ nodeStop = FALSE => Path
  BY <1>path DEF NoEventLost, EventsArePending, ToBeRead
<1>keep. ASSUME conns' \subseteq conns, ToBeRead(p)' => ToBeRead(p), nodeStop' = FALSE => nodeStop = FALSE,
                p \in edge \cup events => p \in edge' \cup events', queue' = queue,
                \A r \in Readers : inHand[r] = p => inHand'[r] = p
         PROVE  Path'
  BY <1>old, <1>keep
<1> HIDE DEF Path
<1> USE NamesAreDistinct DEF TypeOK, Threads, Goto, At, network, epollVars, stops
<1>1. ASSUME NEW q \in Peers, PeerConnects(q) PROVE Path'
  <2>1. CASE q = p
    BY <1>1, <2>1 DEF Path, PeerConnects, ArrivalInv, Untouched
  <2>2. CASE q # p
    BY <1>1, <2>2, <1>old DEF Path, PeerConnects, ToBeRead
  <2> QED
    BY <2>1, <2>2
<1>2. ASSUME NEW q \in Peers, PeerSends(q) PROVE Path'
  <2>1. CASE q # p
    BY <1>2, <2>1, <1>old DEF Path, PeerSends, Trigger, ToBeRead
  <2>2. CASE q = p /\ p \in registered
    BY <1>2, <2>2 DEF Path, PeerSends, Trigger
  <2>3. CASE q = p /\ p \notin registered
    BY <1>2, <2>3 DEF Path, PeerSends, Trigger, DepartureInv
  <2> QED
    BY <2>1, <2>2, <2>3
<1>3. ASSUME NEW q \in Peers, PeerLeaves(q) PROVE Path'
  <2>1. CASE q # p
    BY <1>3, <2>1, <1>old DEF Path, PeerLeaves, Trigger, ToBeRead
  <2>2. CASE q = p /\ p \in registered
    BY <1>3, <2>2 DEF Path, PeerLeaves, Trigger
  <2>3. CASE q = p /\ p \notin registered
    BY <1>3, <2>3 DEF Path, PeerLeaves, Trigger, DepartureInv
  <2> QED
    BY <2>1, <2>2, <2>3
<1>4. CASE Start \/ CheckStop \/ NoMoreEvents \/ PipeEvent \/ AcceptFails
  BY <1>4, <1>keep DEF Start, CheckStop, NoMoreEvents, PipeEvent, AcceptFails, ToBeRead
<1>5. CASE EpollWait
  BY <1>5, <1>keep DEF EpollWait, LoopInv, ToBeRead
<1>6. CASE Accept
  BY <1>6, <1>keep DEF Accept, ToBeRead
<1>7. ASSUME NEW t \in {Epoll, Main}, AddToEpoll(t) \/ RegisterFails(t) PROVE Path'
  BY <1>7, <1>keep DEF AddToEpoll, RegisterFails, ToBeRead
<1>8. ASSUME NEW t \in {Epoll, Main}, AddConnection(t) PROVE Path'
  <2>1. t = Epoll /\ UNCHANGED <<unread, status, edge, events, queue>> /\ \A r \in Readers : inHand'[r] = inHand[r]
    BY <1>8 DEF Path, AddConnection, HandInv
  <2>2. CASE p \in conns
    BY <1>8, <1>old, <2>1, <2>2 DEF Path, AddConnection, ToBeRead
  <2>3. CASE p \notin conns
    <3>1. inHand[Epoll] = p /\ At(Epoll, "addconnection")
      BY <1>8, <2>1, <2>3 DEF Path, AddConnection
    <3>2. p \in edge
      BY <2>1, <3>1 DEF Path, ArrivalInv, ToBeRead
    <3> QED
      BY <2>1, <3>2 DEF Path
  <2> QED
    BY <2>2, <2>3
<1>9. ASSUME NEW q \in Peers, NewReadEvent(q) PROVE Path'
  <2>1. \A x : In(x, queue') <=> In(x, queue) \/ x = q
    <3>1. queue \in Seq(Peers \cup {NoData}) /\ q \in Peers \cup {NoData} /\ queue' = Append(queue, q)
      BY <1>9 DEF Path, NewReadEvent
    <3> HIDE DEF TypeOK
    <3> QED
      BY <3>1, InAppend
  <2> QED
    BY <1>9, <2>1, <1>old DEF Path, NewReadEvent, ToBeRead
<1>10. ASSUME NEW q \in Peers, IgnoreEvent(q) PROVE Path'
  <2>1. CASE q # p \/ p \notin events
    BY <1>10, <2>1, <1>old DEF Path, IgnoreEvent, ToBeRead
  <2>2. CASE q = p /\ p \notin fds
    BY <1>10, <2>2 DEF Path, IgnoreEvent, DepartureInv
  <2>3. CASE q = p /\ p \in fds
    BY <1>10, <2>3 DEF Path, IgnoreEvent, HasAddress, ToBeRead
  <2> QED
    BY <2>1, <2>2, <2>3
<1>11. ASSUME NEW from \in {"signal", "wakeupsignal"}, NEW to \in {"dispatch", "wakeup"}, Signal(from, to) PROVE Path'
  BY <1>11, <1>keep DEF Signal, ToBeRead
<1>12. CASE StopReaders \/ JoinReaders \/ WritersStopped
  BY <1>12, <1>keep DEF StopReaders, JoinReaders, WritersStopped, ToBeRead
<1>13. CASE Wakeup
  <2>1. \A x : In(x, queue') <=> In(x, queue) \/ x = NoData
    <3>1. queue \in Seq(Peers \cup {NoData}) /\ NoData \in Peers \cup {NoData} /\ queue' = Append(queue, NoData)
      BY <1>13 DEF Path, Wakeup
    <3> HIDE DEF TypeOK
    <3> QED
      BY <3>1, InAppend
  <2> QED
    BY <1>13, <2>1, <1>old DEF Path, Wakeup, ToBeRead
<1>14. ASSUME NEW r \in Readers, PopWaits(r) \/ SpuriousWakeup(r) PROVE Path'
  BY <1>14, <1>keep DEF PopWaits, SpuriousWakeup, ToBeRead
<1>15. ASSUME NEW r \in Readers, IsStop(r) PROVE Path'
  <2>1. ~readerStop
    BY <1>15 DEF IsStop, LoopInv
  <2> QED
    BY <1>15, <1>keep, <2>1 DEF IsStop, ToBeRead
<1>16. ASSUME NEW r \in Readers, PopTakes(r) PROVE Path'
  <2>1. \A x : In(x, queue) <=> In(x, queue') \/ x = Head(queue)
    BY <1>16, InTail DEF PopTakes
  <2>2. inHand[r] = NoData /\ p # NoData /\ inHand'[r] = Head(queue)
    BY <1>16 DEF Path, PopTakes, HandInv
  <2> QED
    BY <1>16, <2>1, <2>2, <1>old DEF Path, PopTakes, ToBeRead
<1>17. ASSUME NEW r \in Readers, GetConnection(r) PROVE Path'
  BY <1>17, <1>keep DEF GetConnection, Done, ToBeRead
<1>18. ASSUME NEW r \in Readers, ReadChunk(r) \/ ReadEnds(r) PROVE Path'
  BY <1>18, <1>keep DEF ReadChunk, ReadEnds, ToBeRead
<1>19. ASSUME NEW r \in Readers, WouldBlock(r) PROVE Path'
  <2>1. CASE inHand[r] # p
    BY <1>19, <1>keep, <2>1 DEF WouldBlock, Done, ToBeRead
  <2>2. CASE inHand[r] = p
    BY <1>19, <2>2 DEF WouldBlock, Done, ToBeRead, Path
  <2> QED
    BY <2>1, <2>2
<1>20. ASSUME NEW r \in Readers, RemoveFD(r) PROVE Path'
  <2>1. CASE inHand[r] # p
    BY <1>20, <1>keep, <2>1 DEF RemoveFD, ToBeRead
  <2>2. CASE inHand[r] = p
    BY <1>20, <2>2 DEF RemoveFD, Path
  <2> QED
    BY <2>1, <2>2
<1>21. ASSUME NEW r \in Readers, Close(r) \/ RemoveConnection(r) PROVE Path'
  <2>1. CASE inHand[r] # p
    BY <1>21, <1>keep, <2>1 DEF Close, RemoveConnection, Done, ToBeRead
  <2>2. CASE inHand[r] = p
    BY <1>21, <2>2 DEF Close, RemoveConnection, Done, ToBeRead, Path
  <2> QED
    BY <2>1, <2>2
<1>22. ASSUME NEW q \in Peers, ConnectTo(q) PROVE Path'
  BY <1>22, <1>keep DEF ConnectTo, ToBeRead
<1>23. CASE Stop \/ WriteToPipe
  BY <1>23, <1>keep DEF Stop, WriteToPipe, ToBeRead
<1>24. CASE UNCHANGED vars
  BY <1>24, <1>keep DEF vars, ToBeRead
<1> QED
  BY <1>1, <1>2, <1>3, <1>4, <1>5, <1>6, <1>7, <1>8, <1>9, <1>10, <1>11, <1>12,
     <1>13, <1>14, <1>15, <1>16, <1>17, <1>18, <1>19, <1>20, <1>21, <1>22,
     <1>23, <1>24 DEF Next, EpollThread, EpollGoesOn, MainThread, Reader, ReaderGoesOn

------------------------------------------------------------------------------
(* The constructors establish it.                                          *)
LEMMA InitInv == Init => Inv
<1> SUFFICES ASSUME Init PROVE Inv
  OBVIOUS
<1> USE NamesAreDistinct DEF Init, Threads, At
<1>1. TypeOK
  <2>1. pc \in [Threads -> Labels]
    BY DEF Labels
  <2>2. backlog \in Seq(Peers) /\ queue \in Seq(Peers \cup {NoData})
    OBVIOUS
  <2>3. /\ status \in [Peers -> {"away", "open", "fin", "reset"}]
        /\ left \in [Peers -> Nat] /\ unread \in [Peers -> Nat]
        /\ inHand \in [Threads -> Peers \cup {NoData}]
    OBVIOUS
  <2> QED
    BY <2>1, <2>2, <2>3 DEF TypeOK
<1>2. HandInv /\ LoopInv
  BY DEF HandInv, LoopInv
<1>3. \A t \in Threads : ~Working(t)
  BY DEF Working
<1>4. OwnInv
  BY <1>3 DEF OwnInv
<1>5. Distinct(backlog) /\ \A x : ~In(x, backlog)
  BY DEF Distinct, In
<1>6. ArrivalInv
  BY <1>3, <1>5 DEF ArrivalInv, Untouched, OnConnection
<1>7. DepartureInv /\ NoLostWakeup /\ NoEventLost
  BY DEF DepartureInv, NoLostWakeup, NoEventLost, EventsArePending
<1> QED
  BY <1>1, <1>2, <1>4, <1>6, <1>7 DEF Inv

(* The inductive invariant holds in every reachable state.                 *)
THEOREM InvHolds == Spec => []Inv
<1>1. Inv /\ [Next]_vars => Inv'
  BY TypeStep, HandStep, LoopStep, OwnStep, WakeupStep, ArrivalStep, DepartureStep, EventStep DEF Inv
<1> QED
  BY InitInv, <1>1, PTL DEF Spec

(* Every variable of the node keeps its type.                              *)
THEOREM TypeIsInvariant == Spec => []TypeOK
<1>1. Inv => TypeOK
  BY DEF Inv
<1> QED
  BY InvHolds, <1>1, PTL

(* CRPCReader::Push and Pop never leave an event on the queue with every   *)
(* reader asleep and no signal on its way, however many readers there are. *)
THEOREM NoWakeupIsLost == Spec => []NoLostWakeup
<1>1. Inv => NoLostWakeup
  BY DEF Inv
<1> QED
  BY InvHolds, <1>1, PTL

(* The connection a reader reads or takes down is in m_Connections, unless *)
(* two readers have met on that very connection: what happens on the       *)
(* others, met on or not, takes nothing from it.                           *)
THEOREM ReadersWorkOnLiveConnections == Spec => []WorksOnLiveConnection
<1>1. Inv => WorksOnLiveConnection
  BY DEF Inv, OwnInv, WorksOnLiveConnection
<1> QED
  BY InvHolds, <1>1, PTL

(* With an edge-triggered epoll set, CRPCServer::EpollLoop and the readers *)
(* lose no event of a connection that has data or has come to its end.     *)
THEOREM ServerLosesNoEvent == Spec => []NoEventLost
<1>1. Inv => NoEventLost
  BY DEF Inv
<1> QED
  BY InvHolds, <1>1, PTL
=============================================================================
