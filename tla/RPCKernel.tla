------------------------------ MODULE RPCKernel ------------------------------
(***************************************************************************)
(* The receiving half of a node: the epoll thread (CRPCServer::EpollLoop   *)
(* or CRPCClient::EpollLoop), which accepts connections and queues read    *)
(* events, the reader threads of CRPCReader, which take the events from    *)
(* the queue, read the connection and remove it at the end of its stream,  *)
(* and the main thread, which connects (client) and stops the node.  The   *)
(* application's Disconnect and the writers are in RPCWriter.              *)
(*                                                                         *)
(* The kernel's epoll is edge triggered: a descriptor is reported once for *)
(* each arrival of data (or for several that nobody has waited in          *)
(* between).  Each peer connects at most once; its descriptor and its      *)
(* connection object are named by the peer.                                *)
(***************************************************************************)
EXTENDS Integers, Sequences, FiniteSets

CONSTANTS Readers,       \* READER_THREAD threads
          Epoll, Main,   \* the epoll thread and the application's main thread
          Peers,
          Listener, Pipe,\* the listening socket and the read end of m_Pipe
          NoData,        \* the string "" that Wakeup pushes
          MaxChunks      \* bound: arrivals of data from each peer

Threads == Readers \cup {Epoll, Main}

ASSUME NamesAreDistinct ==
  /\ Epoll \notin Readers /\ Main \notin Readers /\ Epoll # Main
  /\ Listener \notin Peers /\ Pipe \notin Peers /\ Listener # Pipe
  /\ NoData \notin Peers
  /\ MaxChunks \in Nat
ASSUME ThereAreReaders == IsFiniteSet(Readers) /\ Readers # {}

VARIABLES
  role,       \* "server" (CRPCServer) or "client" (CRPCClient); never changes
  pc,
  status,     \* of a peer: "away", "open", "fin" (it has closed), "reset"
  left,       \* chunks of data a peer may still send
  unread,     \* chunks in the socket's receive buffer
  backlog,    \* connections that wait to be accepted
  fds,        \* peers whose descriptor is open on this side
  registered, \* peers whose descriptor is in the epoll set
  edge,       \* descriptors with an event to be reported
  events,     \* reported events the epoll loop has not dispatched yet
  queue,      \* m_ReadQueue
  conns,      \* m_Connections: peers with a connection object
  inHand,     \* the peer (or NoData) a thread works on
  nodeStop,   \* CRPCKernel::m_Stop
  readerStop, \* CRPCReader::m_Stop
  wakeups,    \* iterations of Wakeup
  clash       \* peers on whose connection two readers have met (history)

network == <<role, status, left, unread>>
epollVars == <<backlog, fds, registered, edge>>
stops == <<nodeStop, readerStop, wakeups>>
vars == <<pc, network, epollVars, events, queue, conns, inHand, stops, clash>>

At(t, label) == pc[t] = label
Goto(t, label) == pc' = [pc EXCEPT ![t] = label]
Sleeping == {r \in Readers : At(r, "asleep")}

Init ==
  /\ role \in {"server", "client"}
  /\ pc = [t \in Threads |-> IF t \in Readers THEN "off"
                             ELSE IF t = Epoll THEN "start" ELSE "idle"]
  /\ status = [p \in Peers |-> "away"]
  /\ left = [p \in Peers |-> MaxChunks]
  /\ unread = [p \in Peers |-> 0]
  /\ backlog = <<>> /\ fds = {} /\ registered = {} /\ edge = {}
  /\ events = {}
  /\ queue = <<>>
  /\ conns = {}
  /\ inHand = [t \in Threads |-> NoData]
  /\ nodeStop = FALSE /\ readerStop = FALSE
  /\ wakeups = 0
  /\ clash = {}

------------------------------------------------------------------------------
(* The peers *)

Trigger(p) == edge' = IF p \in registered THEN edge \cup {p} ELSE edge

PeerConnects(p) ==
  /\ role = "server"
  /\ ~At(Epoll, "start")
  /\ status[p] = "away"
  /\ status' = [status EXCEPT ![p] = "open"]
  /\ backlog' = Append(backlog, p)
  /\ edge' = edge \cup {Listener}
  /\ UNCHANGED <<role, pc, left, unread, fds, registered, events, queue, conns, inHand, stops, clash>>

PeerSends(p) ==
  /\ status[p] = "open"
  /\ left[p] > 0
  /\ left' = [left EXCEPT ![p] = @ - 1]
  /\ unread' = [unread EXCEPT ![p] = @ + 1]
  /\ Trigger(p)
  /\ UNCHANGED <<role, pc, status, backlog, fds, registered, events, queue, conns, inHand, stops, clash>>

PeerLeaves(p) ==
  /\ status[p] = "open"
  /\ \E s \in {"fin", "reset"} : status' = [status EXCEPT ![p] = s]
  /\ Trigger(p)
  /\ UNCHANGED <<role, pc, left, unread, backlog, fds, registered, events, queue, conns, inHand, stops, clash>>

------------------------------------------------------------------------------
(* The epoll thread *)

(* CRPCKernel::Start, then EpollLoop up to its first iteration.            *)
Start ==
  /\ At(Epoll, "start")
  /\ pc' = [t \in Threads |-> IF t \in Readers THEN "pop"
                              ELSE IF t = Epoll THEN "check" ELSE pc[t]]
  /\ UNCHANGED <<network, epollVars, events, queue, conns, inHand, stops, clash>>

CheckStop ==
  /\ At(Epoll, "check")
  /\ Goto(Epoll, IF nodeStop THEN "stopreaders" ELSE "wait")
  /\ UNCHANGED <<network, epollVars, events, queue, conns, inHand, stops, clash>>

(* There is room for every registered descriptor, so all are reported.     *)
EpollWait ==
  /\ At(Epoll, "wait")
  /\ edge # {}
  /\ events' = edge
  /\ edge' = {}
  /\ Goto(Epoll, "dispatch")
  /\ UNCHANGED <<network, backlog, fds, registered, queue, conns, inHand, stops, clash>>

NoMoreEvents ==
  /\ At(Epoll, "dispatch")
  /\ events = {}
  /\ Goto(Epoll, "check")
  /\ UNCHANGED <<network, epollVars, events, queue, conns, inHand, stops, clash>>

PipeEvent ==
  /\ At(Epoll, "dispatch")
  /\ Pipe \in events
  /\ events' = events \ {Pipe}
  /\ UNCHANGED <<pc, network, epollVars, queue, conns, inHand, stops, clash>>

(* One connection is accepted for one event of the listener.               *)
Accept ==
  /\ At(Epoll, "dispatch")
  /\ Listener \in events
  /\ backlog # <<>>
  /\ events' = events \ {Listener}
  /\ backlog' = Tail(backlog)
  /\ fds' = fds \cup {Head(backlog)}
  /\ inHand' = [inHand EXCEPT ![Epoll] = Head(backlog)]
  /\ Goto(Epoll, "register")
  /\ UNCHANGED <<network, registered, edge, queue, conns, stops, clash>>

(* accept() fails, for want of a descriptor: the event is gone, and the    *)
(* connection waits for the next one.                                      *)
AcceptFails ==
  /\ At(Epoll, "dispatch")
  /\ Listener \in events
  /\ events' = events \ {Listener}
  /\ UNCHANGED <<pc, network, epollVars, queue, conns, inHand, stops, clash>>

(* A descriptor that is readable when it is added is reported.             *)
AddToEpoll(t) ==
  /\ At(t, "register")
  /\ LET p == inHand[t]
     IN  /\ registered' = registered \cup {p}
         /\ edge' = IF unread[p] > 0 \/ status[p] # "open" THEN edge \cup {p} ELSE edge
  /\ Goto(t, "addconnection")
  /\ UNCHANGED <<network, backlog, fds, events, queue, conns, inHand, stops, clash>>

(* epoll_ctl() fails: the server forgets the descriptor, which stays open, *)
(* and the client closes it.                                               *)
RegisterFails(t) ==
  /\ At(t, "register")
  /\ fds' = IF t = Epoll THEN fds ELSE fds \ {inHand[t]}
  /\ inHand' = [inHand EXCEPT ![t] = NoData]
  /\ Goto(t, IF t = Epoll THEN "dispatch" ELSE "idle")
  /\ UNCHANGED <<network, backlog, registered, edge, events, queue, conns, stops, clash>>

(* A socket that has been reset has no peer address any more (""), and     *)
(* AddConnection refuses it.  The kernel's m_Mutex is taken for the map.   *)
AddConnection(t) ==
  /\ At(t, "addconnection")
  /\ conns' = IF status[inHand[t]] = "reset" THEN conns ELSE conns \cup {inHand[t]}
  /\ inHand' = [inHand EXCEPT ![t] = NoData]
  /\ Goto(t, IF t = Epoll THEN "dispatch" ELSE "idle")
  /\ UNCHANGED <<network, epollVars, events, queue, stops, clash>>

(* NewReadEvent pushes the peer's address; Push refuses "", the address of *)
(* a socket that has been reset or closed.                                 *)
HasAddress(p) == p \in fds /\ status[p] # "reset"

MutantNewReadEvent(p) ==    \* a mutant: the queue's condition is not signalled
  /\ At(Epoll, "dispatch")
  /\ p \in events
  /\ HasAddress(p)
  /\ events' = events \ {p}
  /\ queue' = Append(queue, p)
  /\ UNCHANGED <<pc, network, epollVars, conns, inHand, stops, clash>>

NewReadEvent(p) ==
  /\ At(Epoll, "dispatch")
  /\ p \in events
  /\ HasAddress(p)
  /\ events' = events \ {p}
  /\ queue' = Append(queue, p)
  /\ Goto(Epoll, "signal")
  /\ UNCHANGED <<network, epollVars, conns, inHand, stops, clash>>

IgnoreEvent(p) ==
  /\ At(Epoll, "dispatch")
  /\ p \in events
  /\ ~HasAddress(p)
  /\ events' = events \ {p}
  /\ UNCHANGED <<pc, network, epollVars, queue, conns, inHand, stops, clash>>

(* Push and Wakeup signal after they have released the queue's mutex.      *)
Signal(from, to) ==
  /\ At(Epoll, from)
  /\ IF Sleeping = {} THEN Goto(Epoll, to)
     ELSE \E r \in Sleeping : pc' = [pc EXCEPT ![Epoll] = to, ![r] = "pop"]
  /\ UNCHANGED <<network, epollVars, events, queue, conns, inHand, stops, clash>>

(* CRPCReader::Stop(1)                                                     *)
StopReaders ==
  /\ At(Epoll, "stopreaders")
  /\ readerStop' = TRUE
  /\ Goto(Epoll, "wakeup")
  /\ UNCHANGED <<network, epollVars, events, queue, conns, inHand, nodeStop, wakeups, clash>>

MutantWakeup ==             \* a mutant: one reader is woken, not all
  /\ At(Epoll, "wakeup")
  /\ wakeups < Cardinality(Readers)
  /\ wakeups' = Cardinality(Readers)
  /\ queue' = Append(queue, NoData)
  /\ Goto(Epoll, "wakeupsignal")
  /\ UNCHANGED <<network, epollVars, events, conns, inHand, nodeStop, readerStop, clash>>

Wakeup ==
  /\ At(Epoll, "wakeup")
  /\ wakeups < Cardinality(Readers)
  /\ wakeups' = wakeups + 1
  /\ queue' = Append(queue, NoData)
  /\ Goto(Epoll, "wakeupsignal")
  /\ UNCHANGED <<network, epollVars, events, conns, inHand, nodeStop, readerStop, clash>>

JoinReaders ==
  /\ At(Epoll, "wakeup")
  /\ wakeups = Cardinality(Readers)
  /\ \A r \in Readers : At(r, "exited")
  /\ readerStop' = FALSE
  /\ Goto(Epoll, "stopwriters")
  /\ UNCHANGED <<network, epollVars, events, queue, conns, inHand, nodeStop, wakeups, clash>>

(* CRPCWriter::Stop(1) joins the writers, and may not return (RPCWriter).  *)
WritersStopped ==
  /\ At(Epoll, "stopwriters")
  /\ Goto(Epoll, "off")
  /\ UNCHANGED <<network, epollVars, events, queue, conns, inHand, stops, clash>>

(* What the epoll thread does without waiting for the kernel's mutex or    *)
(* for the writers.                                                        *)
EpollGoesOn ==
  \/ Start \/ CheckStop \/ EpollWait \/ NoMoreEvents \/ PipeEvent
  \/ Accept \/ AcceptFails \/ AddToEpoll(Epoll) \/ RegisterFails(Epoll)
  \/ \E p \in Peers : NewReadEvent(p) \/ IgnoreEvent(p)
  \/ Signal("signal", "dispatch") \/ Signal("wakeupsignal", "wakeup")
  \/ StopReaders \/ Wakeup \/ JoinReaders

EpollThread == EpollGoesOn \/ AddConnection(Epoll) \/ WritersStopped

------------------------------------------------------------------------------
(* Reader threads *)

(* Pop: wait while the queue is empty.                                     *)
PopWaits(r) ==
  /\ At(r, "pop")
  /\ queue = <<>>
  /\ Goto(r, "asleep")
  /\ UNCHANGED <<network, epollVars, events, queue, conns, inHand, stops, clash>>

SpuriousWakeup(r) ==
  /\ At(r, "asleep")
  /\ Goto(r, "pop")
  /\ UNCHANGED <<network, epollVars, events, queue, conns, inHand, stops, clash>>

PopTakes(r) ==
  /\ At(r, "pop")
  /\ queue # <<>>
  /\ inHand' = [inHand EXCEPT ![r] = Head(queue)]
  /\ queue' = Tail(queue)
  /\ Goto(r, "isstop")
  /\ UNCHANGED <<network, epollVars, events, conns, stops, clash>>

IsStop(r) ==
  /\ At(r, "isstop")
  /\ Goto(r, IF readerStop THEN "exited" ELSE "lookup")
  /\ inHand' = [inHand EXCEPT ![r] = IF readerStop THEN NoData ELSE @]
  /\ UNCHANGED <<network, epollVars, events, queue, conns, stops, clash>>

Working(r) == pc[r] \in {"read", "removefd", "close", "remove"}
OnConnection(r, p) == Working(r) /\ inHand[r] = p

Done(r) == Goto(r, "pop") /\ inHand' = [inHand EXCEPT ![r] = NoData]

(* Process: an event whose peer is not in the map is forgotten.            *)
GetConnection(r) ==
  /\ At(r, "lookup")
  /\ IF inHand[r] \in conns
     THEN /\ Goto(r, "read")
          /\ clash' = IF \E q \in Readers : OnConnection(q, inHand[r])
                      THEN clash \cup {inHand[r]} ELSE clash
          /\ UNCHANGED inHand
     ELSE /\ Done(r)
          /\ UNCHANGED clash
  /\ UNCHANGED <<network, epollVars, events, queue, conns, stops>>

MutantReadChunk(r) ==       \* a mutant: the result of read() is not looked at
  /\ At(r, "read")
  /\ inHand[r] \in fds
  /\ status[inHand[r]] # "reset"
  /\ unread' = [unread EXCEPT ![inHand[r]] = @ - 1]
  /\ UNCHANGED <<role, pc, status, left, epollVars, events, queue, conns, inHand, stops, clash>>

(* Read goes on until read() reports EAGAIN, the end, or an error; an      *)
(* invalid connection is an error at once.                                 *)
ReadChunk(r) ==
  /\ At(r, "read")
  /\ inHand[r] \in fds
  /\ status[inHand[r]] # "reset"
  /\ unread[inHand[r]] > 0
  /\ unread' = [unread EXCEPT ![inHand[r]] = @ - 1]
  /\ UNCHANGED <<role, pc, status, left, epollVars, events, queue, conns, inHand, stops, clash>>

MutantWouldBlock(r) ==      \* a mutant: Read may return before it has seen EAGAIN
  /\ At(r, "read")
  /\ inHand[r] \in fds
  /\ status[inHand[r]] = "open"
  /\ Done(r)
  /\ UNCHANGED <<network, epollVars, events, queue, conns, stops, clash>>

WouldBlock(r) ==
  /\ At(r, "read")
  /\ inHand[r] \in fds
  /\ status[inHand[r]] = "open"
  /\ unread[inHand[r]] = 0
  /\ Done(r)
  /\ UNCHANGED <<network, epollVars, events, queue, conns, stops, clash>>

ReadEnds(r) ==
  /\ At(r, "read")
  /\ \/ inHand[r] \notin fds
     \/ status[inHand[r]] = "reset"
     \/ status[inHand[r]] = "fin" /\ unread[inHand[r]] = 0
  /\ Goto(r, "removefd")
  /\ UNCHANGED <<network, epollVars, events, queue, conns, inHand, stops, clash>>

MutantRemoveFD(r) ==        \* a mutant: the connection leaves the map first
  /\ At(r, "removefd")
  /\ registered' = registered \ {inHand[r]}
  /\ edge' = edge \ {inHand[r]}
  /\ conns' = conns \ {inHand[r]}
  /\ Goto(r, "close")
  /\ UNCHANGED <<network, backlog, fds, events, queue, inHand, stops, clash>>

RemoveFD(r) ==
  /\ At(r, "removefd")
  /\ registered' = registered \ {inHand[r]}
  /\ edge' = edge \ {inHand[r]}
  /\ Goto(r, "close")
  /\ UNCHANGED <<network, backlog, fds, events, queue, conns, inHand, stops, clash>>

Close(r) ==
  /\ At(r, "close")
  /\ fds' = fds \ {inHand[r]}
  /\ Goto(r, "remove")
  /\ UNCHANGED <<network, backlog, registered, edge, events, queue, conns, inHand, stops, clash>>

RemoveConnection(r) ==
  /\ At(r, "remove")
  /\ conns' = conns \ {inHand[r]}
  /\ Done(r)
  /\ UNCHANGED <<network, epollVars, events, queue, stops, clash>>

(* What a reader does without waiting for the kernel's mutex.              *)
ReaderGoesOn(r) ==
  \/ PopWaits(r) \/ PopTakes(r) \/ IsStop(r) \/ GetConnection(r)
  \/ ReadChunk(r) \/ WouldBlock(r) \/ ReadEnds(r)
  \/ RemoveFD(r) \/ Close(r)

Reader(r) == ReaderGoesOn(r) \/ RemoveConnection(r)

------------------------------------------------------------------------------
(* The main thread *)

(* CRPCClient::ConnectTo adds the socket to epoll, then to the map.        *)
ConnectTo(p) ==
  /\ role = "client"
  /\ At(Main, "idle")
  /\ status[p] = "away"
  /\ status' = [status EXCEPT ![p] = "open"]
  /\ fds' = fds \cup {p}
  /\ inHand' = [inHand EXCEPT ![Main] = p]
  /\ Goto(Main, "register")
  /\ UNCHANGED <<role, left, unread, backlog, registered, edge, events, queue, conns, stops, clash>>

(* CRPCKernel::Stop(1) sets the flag, then writes to the pipe.             *)
Stop ==
  /\ At(Main, "idle")
  /\ nodeStop' = TRUE
  /\ Goto(Main, "pipe")
  /\ UNCHANGED <<network, epollVars, events, queue, conns, inHand, readerStop, wakeups, clash>>

WriteToPipe ==
  /\ At(Main, "pipe")
  /\ edge' = edge \cup {Pipe}
  /\ Goto(Main, "joining")
  /\ UNCHANGED <<network, backlog, fds, registered, events, queue, conns, inHand, stops, clash>>

MainThread ==
  \/ \E p \in Peers : ConnectTo(p)
  \/ AddToEpoll(Main) \/ RegisterFails(Main) \/ AddConnection(Main)
  \/ Stop \/ WriteToPipe

Next ==
  \/ \E p \in Peers : PeerConnects(p) \/ PeerSends(p) \/ PeerLeaves(p)
  \/ EpollThread
  \/ \E r \in Readers : Reader(r) \/ SpuriousWakeup(r)
  \/ MainThread

(* Every thread that can run does; nothing makes peers or the application  *)
(* act, a waiter wake up without a signal, the kernel's mutex, which the   *)
(* writers take too, be released, or the writers end.                      *)
Fairness ==
  /\ WF_vars(EpollGoesOn)
  /\ \A r \in Readers : WF_vars(ReaderGoesOn(r))
  /\ WF_vars(WriteToPipe)

Spec == Init /\ [][Next]_vars
FairSpec == Spec /\ Fairness

------------------------------------------------------------------------------
(* Properties *)

Labels == {"off", "start", "idle", "pop", "asleep", "isstop", "lookup", "read",
           "removefd", "close", "remove", "exited", "check", "wait", "dispatch",
           "register", "addconnection", "signal", "stopreaders", "wakeup",
           "wakeupsignal", "stopwriters", "pipe", "joining"}

(* The type invariant.                                                     *)
TypeOK ==
  /\ role \in {"server", "client"}
  /\ pc \in [Threads -> Labels]
  /\ status \in [Peers -> {"away", "open", "fin", "reset"}]
  /\ left \in [Peers -> Nat] /\ unread \in [Peers -> Nat]
  /\ backlog \in Seq(Peers)
  /\ fds \subseteq Peers /\ registered \subseteq Peers
  /\ edge \subseteq Peers \cup {Listener, Pipe}
  /\ events \subseteq Peers \cup {Listener, Pipe}
  /\ queue \in Seq(Peers \cup {NoData})
  /\ conns \subseteq Peers
  /\ inHand \in [Threads -> Peers \cup {NoData}]
  /\ nodeStop \in BOOLEAN /\ readerStop \in BOOLEAN
  /\ clash \subseteq Peers
  /\ wakeups \in Nat

(* In a server an edge-triggered event is never lost: when a connection    *)
(* has data to be read, or has come to its end, its event is still to be   *)
(* reported, is reported, is queued, or is in the hands of a reader.  (A   *)
(* reset socket has no address to queue; its connection stays.)            *)
InEventPath(p) ==
  \/ p \in edge \cup events
  \/ \E i \in DOMAIN queue : queue[i] = p
  \/ \E r \in Readers : inHand[r] = p
EventsArePending ==
  \A p \in conns :
    (unread[p] > 0 /\ status[p] # "reset") \/ status[p] = "fin" => InEventPath(p) \/ nodeStop
NoEventLost == role = "server" => EventsArePending

(* A comment in CRPCClient::EpollLoop says that a reader thread will       *)
(* process the event of a connection that is put on the queue.             *)
ClientLosesNoEvent == role = "client" => EventsArePending

(* No wake-up is lost: readers do not all sleep while the queue has work,  *)
(* unless the signal for it is still to be sent.                           *)
NoLostWakeup ==
  queue # <<>> /\ (\A r \in Readers : At(r, "asleep")) =>
    pc[Epoll] \in {"signal", "wakeupsignal"}

(* A reader works on a connection of the map, as long as no two readers    *)
(* have met on that connection, whatever happens on the others.            *)
WorksOnLiveConnection ==
  \A r \in Readers : Working(r) => inHand[r] \in conns \cup clash

(* No thread waits for the kernel's mutex for ever: the hypothesis of the  *)
(* two properties below.  The writers may break it (RPCWriter: the locks   *)
(* of a scan and of RemoveConnection are taken in opposite orders).        *)
MutexIsGranted ==
  \A t \in Threads : []<>(pc[t] \notin {"addconnection", "remove"})

(* What has arrived at a server is read in the end, unless the connection  *)
(* goes or the node is stopped.                                            *)
EveryChunkIsRead ==
  MutexIsGranted =>
    \A p \in Peers :
      (role = "server" /\ p \in conns /\ unread[p] > 0) ~> (unread[p] = 0 \/ status[p] = "reset" \/ nodeStop)

(* After Stop the epoll thread leaves its loop and joins every reader:     *)
(* none of them is asleep for good, and only the writers are still to be   *)
(* stopped.                                                                *)
ReadersAreJoined ==
  MutexIsGranted => (nodeStop ~> pc[Epoll] \in {"stopwriters", "off"})
=============================================================================
