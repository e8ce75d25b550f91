------------------------------ MODULE RPCWriter ------------------------------
(***************************************************************************)
(* The sending half of a client node: the writer threads of CRPCWriter,    *)
(* the application threads that hand packets over (CRPCClient::WriteTo),   *)
(* the reader threads that remove a connection whose peer has gone         *)
(* (the tail of CRPCReader::Process), callers of CRPCKernel::Disconnect,   *)
(* and the epoll thread, which stops the others.                           *)
(*                                                                         *)
(* The threads share the map of connections, guarded by the kernel's mutex *)
(* (lockK), and the writer's cursor, flags and queues, guarded by the      *)
(* writer's mutex (lockW) -- except where the code reads them without it.  *)
(* A connection object lives at an address; deleting it frees the address, *)
(* and a later connection may be allocated there.  A thread that still     *)
(* holds the address then works on the newer object; until then it reads   *)
(* what free() leaves in place, which is everything behind the first two   *)
(* words of the object (the string m_IPAddress).                           *)
(*                                                                         *)
(* The same goes for descriptors: closing one frees its number, a later    *)
(* connection may be given it, and a thread that still has the number in   *)
(* its object then writes to, or closes, the newer connection.  A socket   *)
(* is in the model from AddConnection on, although ConnectTo opens it a    *)
(* little earlier; what else the process opens takes no number here.       *)
(***************************************************************************)
EXTENDS Integers, Sequences, FiniteSets

CONSTANTS Writers,        \* WRITER_THREAD threads
          Apps,           \* threads that call CNode::SendTo
          Readers,        \* reader threads; {} when no peer ever leaves
          Disconnectors,  \* threads that call Disconnect
          Epoll,          \* the thread of CRPCClient::EpollLoop
          NumPeers,       \* peers are 1..NumPeers, in the order of the map's keys
          Addrs, Null,    \* addresses of connection objects, and the null pointer
          FDs,            \* numbers of descriptors
          MaxPackets,     \* bound: packets handed over
          PackLen,        \* units (bytes) of a packet
          MayFail         \* can write() to an open socket fail (EAGAIN, ECONNRESET)?

Threads == Writers \cup Apps \cup Readers \cup Disconnectors \cup {Epoll}

ASSUME ThreadsAreDistinct ==
  /\ Writers \cap (Apps \cup Readers \cup Disconnectors) = {}
  /\ Apps \cap (Readers \cup Disconnectors) = {}
  /\ Readers \cap Disconnectors = {}
  /\ Epoll \notin Writers \cup Apps \cup Readers \cup Disconnectors

ASSUME ParametersAreValid ==
  /\ Writers # {}
  /\ NumPeers \in Nat /\ MaxPackets \in Nat /\ PackLen \in Nat \ {0}
  /\ Null \notin Addrs \cup FDs
  /\ Null \notin Threads
  /\ MayFail \in BOOLEAN

Peers == 1..NumPeers
End == NumPeers + 1             \* m_Connections.end()
Packets == 1..MaxPackets

(* What a descriptor leads to when it is not a peer's latest connection.   *)
Closed == 0
Stray == -1                     \* a connection to a peer that has a newer one

VARIABLES
  pc,        \* where each thread is
  lockW,     \* owner of CRPCWriter::m_Mutex, or Null
  lockK,     \* owner of CRPCKernel::m_Mutex, or Null
  stop,      \* CRPCWriter::m_Stop
  signals,   \* signals CRPCWriter::Stop has sent
  itNext,    \* m_ItNext: the key it points to, or End
  conns,     \* m_Connections: address of a peer's connection, or Null
  obj,       \* the connection object at each address
  held,      \* the connection a thread has a pointer to, or Null
  peer,      \* the peer an application thread or a Disconnect is about
  pack,      \* the packet a writer has popped (0: none)
  count,     \* units of that packet it has written
  used,      \* packets handed over so far
  socket,    \* what each descriptor leads to: Closed, a peer, or Stray
  wire       \* per peer, the units written to its latest connection

threadVars == <<held, peer, pack, count>>
locks == <<lockW, lockK>>
stopVars == <<stop, signals>>
history == <<used, socket, wire>>
data == <<stopVars, itNext, conns, obj, threadVars, history>>
vars == <<pc, locks, data>>

------------------------------------------------------------------------------
(* The map of connections *)

Mapped == {p \in Peers : conns[p] # Null}

(* The iterator after k; After(0) is begin().                              *)
After(k) ==
  LET later == {p \in Mapped : p > k}
  IN  IF \E p \in later : \A q \in later : p <= q
      THEN CHOOSE p \in later : \A q \in later : p <= q
      ELSE End

(* GetConnection searches the map without the kernel's mutex.  While the   *)
(* owner of the mutex relinks the tree, the search may miss an entry;      *)
(* AddConnection leaves the tree alone when the peer is in it.             *)
Relinking ==
  \E t \in Threads : pc[t] = "erase" \/ (pc[t] = "insert" /\ conns[peer[t]] = Null)
Lookup(p) == {conns[p]} \cup (IF Relinking THEN {Null} ELSE {})

(* From ScanPicks to Unmark a writer sends from the connection it holds.   *)
Holds(w) == pc[w] \in {"send", "pop", "write", "writing", "unmark"}

Goto(t, label) == pc' = [pc EXCEPT ![t] = label]
At(t, label) == pc[t] = label

(* The threads that wait in pthread_cond_wait for m_Cond.                  *)
Sleeping == {w \in Writers : pc[w] = "asleep"}

------------------------------------------------------------------------------
(* Init: the constructors have run, no thread has been started.            *)

NoObject == [live |-> FALSE, peer |-> 0, valid |-> FALSE, sending |-> FALSE,
             out |-> <<>>, fd |-> Null]

Init ==
  /\ pc = [t \in Threads |-> IF t \in Writers THEN "off"
                             ELSE IF t = Epoll THEN "start" ELSE "idle"]
  /\ lockW = Null /\ lockK = Null
  /\ stop = FALSE
  /\ signals = 0
  /\ itNext = End
  /\ conns = [p \in Peers |-> Null]
  /\ obj = [a \in Addrs |-> NoObject]
  /\ held = [t \in Threads |-> Null]
  /\ peer = [t \in Threads |-> 0]
  /\ pack = [w \in Writers |-> 0]
  /\ count = [w \in Writers |-> 0]
  /\ used = 0
  /\ socket = [f \in FDs |-> Closed]
  /\ wire = [p \in Peers |-> <<>>]

------------------------------------------------------------------------------
(* Writer threads: Process and GetConnectionAndWrite *)

LockForScan(w) ==
  /\ At(w, "next") \/ At(w, "woken")     \* a woken waiter re-acquires the mutex
  /\ lockW = Null
  /\ lockW' = w
  /\ Goto(w, "check")
  /\ UNCHANGED <<lockK, data>>

SeesStop(w) ==
  /\ At(w, "check")
  /\ IF stop
     THEN /\ lockW' = Null
          /\ Goto(w, "exited")
     ELSE /\ Goto(w, "lockmap")
          /\ UNCHANGED lockW
  /\ UNCHANGED <<lockK, data>>

LockMapForScan(w) ==
  /\ At(w, "lockmap")
  /\ lockK = Null
  /\ lockK' = w
  /\ Goto(w, "scan")
  /\ UNCHANGED <<lockW, data>>

(* Mutant: the scan does not ask IsSending.                                *)
MutantReady(a) == obj[a].out # <<>>

Ready(a) == ~obj[a].sending /\ obj[a].out # <<>>

(* The scan starts at the cursor, or at begin() when that is end().  It    *)
(* looks at one connection: the mark itold is the cursor itself, so a      *)
(* connection that is not ready ends the scan at its first comparison.     *)
Cursor == IF itNext = End THEN After(0) ELSE itNext

ScanPicks(w) ==
  /\ At(w, "scan")
  /\ Mapped # {}
  /\ Ready(conns[Cursor])
  /\ held' = [held EXCEPT ![w] = conns[Cursor]]
  /\ obj' = [obj EXCEPT ![conns[Cursor]].sending = TRUE]
  /\ itNext' = After(Cursor)
  /\ lockK' = Null
  /\ lockW' = Null
  /\ Goto(w, "send")
  /\ UNCHANGED <<stopVars, conns, peer, pack, count, history>>

(* Mutant: the map stays locked when the scan has met the marked entry.    *)
MutantScanFindsNothing(w) ==
  /\ At(w, "scan")
  /\ Mapped # {} => ~Ready(conns[Cursor])
  /\ itNext' = IF Mapped = {} THEN itNext ELSE Cursor
  /\ lockK' = IF Mapped = {} THEN Null ELSE lockK
  /\ Goto(w, "wait")
  /\ UNCHANGED <<lockW, stopVars, conns, obj, threadVars, history>>

ScanFindsNothing(w) ==
  /\ At(w, "scan")
  /\ Mapped # {} => ~Ready(conns[Cursor])
  /\ itNext' = IF Mapped = {} THEN itNext ELSE Cursor
  /\ lockK' = Null
  /\ Goto(w, "wait")
  /\ UNCHANGED <<lockW, stopVars, conns, obj, threadVars, history>>

CondWait(w) ==
  /\ At(w, "wait")
  /\ lockW' = Null
  /\ Goto(w, "asleep")
  /\ UNCHANGED <<lockK, data>>

(* POSIX lets pthread_cond_wait return without a signal.                   *)
SpuriousWakeup(w) ==
  /\ At(w, "asleep")
  /\ Goto(w, "woken")
  /\ UNCHANGED <<locks, data>>

(* Send: nothing to send, or a connection that is closed.                  *)
SendRefuses(w) ==
  /\ At(w, "send")
  /\ obj[held[w]].out = <<>> \/ ~obj[held[w]].valid
  /\ Goto(w, "unmark")
  /\ UNCHANGED <<locks, data>>

SendStarts(w) ==
  /\ At(w, "send")
  /\ obj[held[w]].out # <<>> /\ obj[held[w]].valid
  /\ Goto(w, "pop")
  /\ UNCHANGED <<locks, data>>

(* Mutant: the newest packet is taken.                                     *)
MutantPop(w) ==
  /\ At(w, "pop")
  /\ obj[held[w]].out # <<>>
  /\ pack' = [pack EXCEPT ![w] = obj[held[w]].out[Len(obj[held[w]].out)]]
  /\ count' = [count EXCEPT ![w] = 0]
  /\ obj' = [obj EXCEPT ![held[w]].out = SubSeq(@, 1, Len(@) - 1)]
  /\ Goto(w, "write")
  /\ UNCHANGED <<locks, stopVars, itNext, conns, held, peer, history>>

(* m_OutPackets.Pop waits while the queue is empty.                        *)
Pop(w) ==
  /\ At(w, "pop")
  /\ obj[held[w]].out # <<>>
  /\ pack' = [pack EXCEPT ![w] = Head(obj[held[w]].out)]
  /\ count' = [count EXCEPT ![w] = 0]
  /\ obj' = [obj EXCEPT ![held[w]].out = Tail(@)]
  /\ Goto(w, "write")
  /\ UNCHANGED <<locks, stopVars, itNext, conns, held, peer, history>>

(* Mutant: every write() starts at the packet's first unit.                *)
MutantUnits(p, from, n) == [i \in 1..n |-> <<p, i>>]

Units(p, from, n) == [i \in 1..n |-> <<p, from + i>>]

(* The loop of Send asks first whether the connection is still valid, ... *)
WriteTest(w) ==
  /\ At(w, "write")
  /\ obj[held[w]].valid
  /\ Goto(w, "writing")
  /\ UNCHANGED <<locks, data>>

(* ... and when it was closed, Send returns 0 and leaks the packet.        *)
WriteSeesClosed(w) ==
  /\ At(w, "write")
  /\ ~obj[held[w]].valid
  /\ Goto(w, "unmark")
  /\ UNCHANGED <<locks, data>>

(* Where m_SocketFD leads when write() is called: the connection may have  *)
(* been closed since the test, and the number given to another one.        *)
Target(w) == socket[obj[held[w]].fd]
Written(w, n) ==
  [p \in Peers |-> IF p = Target(w) THEN wire[p] \o Units(pack[w], count[w], n)
                                    ELSE wire[p]]

(* Mutant: write() is given the whole length instead of the remaining one. *)
MutantWriteSome(w) ==
  /\ At(w, "writing")
  /\ Target(w) # Closed
  /\ \E n \in 1..PackLen :
       /\ wire' = Written(w, n)
       /\ count' = [count EXCEPT ![w] = @ + n]
       /\ Goto(w, IF count[w] + n >= PackLen THEN "unmark" ELSE "write")
  /\ UNCHANGED <<locks, stopVars, itNext, conns, obj, held, peer, pack, used, socket>>

(* write() takes some of the remaining units; the loop goes on until all   *)
(* are written.                                                            *)
WriteSome(w) ==
  /\ At(w, "writing")
  /\ Target(w) # Closed
  /\ \E n \in 1..(PackLen - count[w]) :
       /\ wire' = Written(w, n)
       /\ count' = [count EXCEPT ![w] = @ + n]
       /\ Goto(w, IF count[w] + n = PackLen THEN "unmark" ELSE "write")
  /\ UNCHANGED <<locks, stopVars, itNext, conns, obj, held, peer, pack, used, socket>>

(* write() fails, always when the descriptor is closed (EBADF): the rest   *)
(* of the packet is dropped and Send returns 1.                            *)
WriteFails(w) ==
  /\ At(w, "writing")
  /\ MayFail \/ Target(w) = Closed
  /\ Goto(w, "unmark")
  /\ UNCHANGED <<locks, data>>

(* Mutant: the mark is not taken off.                                      *)
MutantUnmark(w) ==
  /\ At(w, "unmark")
  /\ lockW = Null
  /\ held' = [held EXCEPT ![w] = Null]
  /\ pack' = [pack EXCEPT ![w] = 0]
  /\ count' = [count EXCEPT ![w] = 0]
  /\ Goto(w, "sent")
  /\ UNCHANGED <<locks, stopVars, itNext, conns, obj, peer, history>>

(* SetSending(0), under the writer's mutex.                                *)
Unmark(w) ==
  /\ At(w, "unmark")
  /\ lockW = Null
  /\ obj' = [obj EXCEPT ![held[w]].sending = FALSE]
  /\ held' = [held EXCEPT ![w] = Null]
  /\ pack' = [pack EXCEPT ![w] = 0]
  /\ count' = [count EXCEPT ![w] = 0]
  /\ Goto(w, "sent")
  /\ UNCHANGED <<locks, stopVars, itNext, conns, peer, history>>

(* Process returns -1 when m_Stop is set by now (read without the mutex).  *)
ProcessReturns(w) ==
  /\ At(w, "sent")
  /\ Goto(w, IF stop THEN "exited" ELSE "next")
  /\ UNCHANGED <<locks, data>>

Writer(w) ==
  \/ LockForScan(w) \/ SeesStop(w) \/ LockMapForScan(w)
  \/ ScanPicks(w) \/ ScanFindsNothing(w) \/ CondWait(w)
  \/ SendRefuses(w) \/ SendStarts(w) \/ Pop(w)
  \/ WriteTest(w) \/ WriteSeesClosed(w) \/ WriteSome(w) \/ WriteFails(w)
  \/ Unmark(w) \/ ProcessReturns(w)

------------------------------------------------------------------------------
(* Application threads: WriteTo, which is ConnectTo and then WritePacket.  *)

(* ConnectTo returns 2 when the peer is in the map.                        *)
WriteToConnected(t, p) ==
  /\ At(t, "idle")
  /\ used < MaxPackets
  /\ conns[p] # Null
  /\ peer' = [peer EXCEPT ![t] = p]
  /\ Goto(t, "writepacket")
  /\ UNCHANGED <<locks, stopVars, itNext, conns, obj, held, pack, count, history>>

(* Otherwise it connects, and then adds the connection; when the socket    *)
(* cannot be connected nothing happens.                                    *)
WriteToUnconnected(t, p) ==
  /\ At(t, "idle")
  /\ used < MaxPackets
  /\ Null \in Lookup(p)
  /\ peer' = [peer EXCEPT ![t] = p]
  /\ Goto(t, "add")
  /\ UNCHANGED <<locks, stopVars, itNext, conns, obj, held, pack, count, history>>

LockForAdd(t) ==
  /\ At(t, "add")
  /\ lockK = Null
  /\ lockK' = t
  /\ Goto(t, "insert")
  /\ UNCHANGED <<lockW, data>>

(* AddConnection: a new object, at any address and with any number that   *)
(* is free, ...                                                            *)
Insert(t) ==
  /\ At(t, "insert")
  /\ conns[peer[t]] = Null
  /\ \E a \in Addrs, f \in FDs :
       /\ ~obj[a].live
       /\ socket[f] = Closed
       /\ obj' = [obj EXCEPT ![a] = [live |-> TRUE, peer |-> peer[t], valid |-> TRUE,
                                     sending |-> FALSE, out |-> <<>>, fd |-> f]]
       /\ conns' = [conns EXCEPT ![peer[t]] = a]
       /\ socket' = [g \in FDs |-> IF g = f THEN peer[t]
                                   ELSE IF socket[g] = peer[t] THEN Stray ELSE socket[g]]
  /\ wire' = [wire EXCEPT ![peer[t]] = <<>>]
  /\ lockK' = Null
  /\ Goto(t, "writepacket")
  /\ UNCHANGED <<lockW, stopVars, itNext, threadVars, used>>

(* ... or none: the peer is in the map by now, or the socket has lost its  *)
(* peer already (its address is "").  ConnectTo returns 1 all the same.    *)
InsertNothing(t) ==
  /\ At(t, "insert")
  /\ lockK' = Null
  /\ Goto(t, "writepacket")
  /\ UNCHANGED <<lockW, data>>

(* WritePacket takes the writer's mutex and looks the connection up.  A    *)
(* peer that is not in the map has its packet dropped.                     *)
WritePacketFinds(t) ==
  /\ At(t, "writepacket")
  /\ lockW = Null
  /\ \E a \in Lookup(peer[t]) \ {Null} : held' = [held EXCEPT ![t] = a]
  /\ peer' = [peer EXCEPT ![t] = 0]
  /\ lockW' = t
  /\ Goto(t, "push")
  /\ UNCHANGED <<lockK, stopVars, itNext, conns, obj, pack, count, history>>

WritePacketMisses(t) ==
  /\ At(t, "writepacket")
  /\ lockW = Null
  /\ Null \in Lookup(peer[t])
  /\ used' = used + 1
  /\ peer' = [peer EXCEPT ![t] = 0]
  /\ Goto(t, "idle")
  /\ UNCHANGED <<locks, stopVars, itNext, conns, obj, held, pack, count, socket, wire>>

(* pthread_cond_signal wakes one waiter, if there is one.                  *)
Signal(sender, label) ==
  IF Sleeping = {}
  THEN Goto(sender, label)
  ELSE \E w \in Sleeping : pc' = [pc EXCEPT ![sender] = label, ![w] = "woken"]

(* Mutant: the test of IsSending is inverted.                              *)
MutantPush(t) ==
  /\ At(t, "push")
  /\ used' = used + 1
  /\ obj' = IF obj[held[t]].valid
            THEN [obj EXCEPT ![held[t]].out = Append(@, used + 1)]
            ELSE obj
  /\ IF obj[held[t]].sending THEN Signal(t, "idle") ELSE Goto(t, "idle")
  /\ held' = [held EXCEPT ![t] = Null]
  /\ lockW' = Null
  /\ UNCHANGED <<lockK, stopVars, itNext, conns, peer, pack, count, socket, wire>>

(* Write refuses a closed connection; the mutex is released after the      *)
(* signal, which is not sent while the connection is being sent from.      *)
Push(t) ==
  /\ At(t, "push")
  /\ used' = used + 1
  /\ obj' = IF obj[held[t]].valid
            THEN [obj EXCEPT ![held[t]].out = Append(@, used + 1)]
            ELSE obj
  /\ IF obj[held[t]].sending THEN Goto(t, "idle") ELSE Signal(t, "idle")
  /\ held' = [held EXCEPT ![t] = Null]
  /\ lockW' = Null
  /\ UNCHANGED <<lockK, stopVars, itNext, conns, peer, pack, count, socket, wire>>

App(t) ==
  \/ \E p \in Peers : WriteToConnected(t, p) \/ WriteToUnconnected(t, p)
  \/ LockForAdd(t) \/ Insert(t) \/ InsertNothing(t)
  \/ WritePacketFinds(t) \/ WritePacketMisses(t) \/ Push(t)

------------------------------------------------------------------------------
(* Reader threads, as far as the writer meets them: Process of an event    *)
(* whose Read returns 0 or -1.                                             *)

(* GetNextIPAddr and the check of IsStop.                                  *)
TakeEvent(t, p) ==
  /\ At(t, "idle")
  /\ pc[Epoll] \in {"start", "loop"}
  /\ peer' = [peer EXCEPT ![t] = p]
  /\ Goto(t, "process")
  /\ UNCHANGED <<locks, stopVars, itNext, conns, obj, held, pack, count, history>>

ReaderExits(t) ==
  /\ At(t, "idle")
  /\ pc[Epoll] \notin {"start", "loop"}
  /\ Goto(t, "exited")
  /\ UNCHANGED <<locks, data>>

GetConnection(t) ==
  /\ At(t, "process")
  /\ \E a \in Lookup(peer[t]) :
       /\ held' = [held EXCEPT ![t] = a]
       /\ Goto(t, IF a = Null THEN "idle" ELSE "close")
  /\ peer' = [peer EXCEPT ![t] = 0]
  /\ UNCHANGED <<locks, stopVars, itNext, conns, obj, pack, count, history>>

(* Close: close(m_SocketFD), whatever the number leads to by now, ...      *)
CloseSocket(t) ==
  /\ At(t, "close")
  /\ socket' = [socket EXCEPT ![obj[held[t]].fd] = Closed]
  /\ Goto(t, "invalidate")
  /\ UNCHANGED <<locks, stopVars, itNext, conns, obj, threadVars, used, wire>>

(* ... and then m_IsValid = 0.                                             *)
Invalidate(t) ==
  /\ At(t, "invalidate")
  /\ obj' = [obj EXCEPT ![held[t]].valid = FALSE]
  /\ Goto(t, "remove")
  /\ UNCHANGED <<locks, stopVars, itNext, conns, threadVars, history>>

(* RemoveConnection looks up, under the kernel's mutex, the address string *)
(* of the connection it was given; that of a freed object is garbage.      *)
RemoveFinds(t) ==
  /\ At(t, "remove")
  /\ lockK = Null
  /\ obj[held[t]].live
  /\ conns[obj[held[t]].peer] # Null
  /\ lockK' = t
  /\ peer' = [peer EXCEPT ![t] = obj[held[t]].peer]
  /\ held' = [held EXCEPT ![t] = Null]
  /\ Goto(t, "advance")
  /\ UNCHANGED <<lockW, stopVars, itNext, conns, obj, pack, count, history>>

RemoveFindsNothing(t) ==
  /\ At(t, "remove")
  /\ lockK = Null
  /\ ~obj[held[t]].live \/ conns[obj[held[t]].peer] = Null
  /\ held' = [held EXCEPT ![t] = Null]
  /\ Goto(t, "idle")
  /\ UNCHANGED <<locks, stopVars, itNext, conns, obj, peer, pack, count, history>>

(* Mutant: the cursor stays where it is.                                   *)
MutantConnectionRemoved(t) ==
  /\ At(t, "advance")
  /\ lockW = Null
  /\ Goto(t, "delete")
  /\ UNCHANGED <<locks, data>>

(* Mutant: the kernel's mutex is released before the object is deleted.    *)
MutantEarlyUnlock(t) ==
  /\ At(t, "advance")
  /\ lockW = Null
  /\ itNext' = IF itNext = peer[t] THEN After(itNext) ELSE itNext
  /\ lockK' = Null
  /\ Goto(t, "delete")
  /\ UNCHANGED <<lockW, stopVars, conns, obj, threadVars, history>>

(* ConnectionRemoved: under both mutexes, the cursor leaves the entry.     *)
ConnectionRemoved(t) ==
  /\ At(t, "advance")
  /\ lockW = Null
  /\ itNext' = IF itNext = peer[t] THEN After(itNext) ELSE itNext
  /\ Goto(t, "delete")
  /\ UNCHANGED <<locks, stopVars, conns, obj, threadVars, history>>

Delete(t) ==
  /\ At(t, "delete")
  /\ obj' = [obj EXCEPT ![conns[peer[t]]].live = FALSE]
  /\ Goto(t, "erase")
  /\ UNCHANGED <<locks, stopVars, itNext, conns, threadVars, history>>

Erase(t) ==
  /\ At(t, "erase")
  /\ conns' = [conns EXCEPT ![peer[t]] = Null]
  /\ lockK' = Null
  /\ peer' = [peer EXCEPT ![t] = 0]
  /\ Goto(t, "idle")
  /\ UNCHANGED <<lockW, stopVars, itNext, obj, held, pack, count, history>>

Removal(t) == ConnectionRemoved(t) \/ Delete(t) \/ Erase(t)

Reader(t) ==
  \/ \E p \in Peers : TakeEvent(t, p)
  \/ ReaderExits(t) \/ GetConnection(t) \/ CloseSocket(t) \/ Invalidate(t)
  \/ RemoveFinds(t) \/ RemoveFindsNothing(t)
  \/ Removal(t)

(* Disconnect closes the connection under the kernel's mutex, ...          *)
Disconnect(t, p) ==
  /\ At(t, "idle")
  /\ lockK = Null
  /\ conns[p] # Null
  /\ lockK' = t
  /\ socket' = [socket EXCEPT ![obj[conns[p]].fd] = Closed]
  /\ peer' = [peer EXCEPT ![t] = p]
  /\ Goto(t, "shut")
  /\ UNCHANGED <<lockW, stopVars, itNext, conns, obj, held, pack, count, used, wire>>

(* ... and removes it in the same way.                                     *)
Shut(t) ==
  /\ At(t, "shut")
  /\ obj' = [obj EXCEPT ![conns[peer[t]]].valid = FALSE]
  /\ Goto(t, "advance")
  /\ UNCHANGED <<locks, stopVars, itNext, conns, threadVars, history>>

Disconnector(t) == (\E p \in Peers : Disconnect(t, p)) \/ Shut(t) \/ Removal(t)

------------------------------------------------------------------------------
(* The epoll thread: CRPCKernel::Start, and the stop branch of EpollLoop,  *)
(* which calls CRPCReader::Stop(1) and CRPCWriter::Stop(1).                *)

Start ==
  /\ At(Epoll, "start")
  /\ pc' = [t \in Threads |-> IF t \in Writers THEN "next"
                              ELSE IF t = Epoll THEN "loop" ELSE pc[t]]
  /\ UNCHANGED <<locks, data>>

StopReaders ==
  /\ At(Epoll, "loop")
  /\ Goto(Epoll, "joinreaders")
  /\ UNCHANGED <<locks, data>>

JoinReaders ==
  /\ At(Epoll, "joinreaders")
  /\ \A t \in Readers : At(t, "exited")
  /\ Goto(Epoll, "setstop")
  /\ UNCHANGED <<locks, data>>

(* m_Stop is set and the signals are sent without the writer's mutex.      *)
StopWriters ==
  /\ At(Epoll, "setstop")
  /\ stop' = TRUE
  /\ Goto(Epoll, "signal")
  /\ UNCHANGED <<locks, signals, itNext, conns, obj, threadVars, history>>

SignalWriter ==
  /\ At(Epoll, "signal")
  /\ signals < Cardinality(Writers)
  /\ signals' = signals + 1
  /\ Signal(Epoll, IF signals + 1 = Cardinality(Writers) THEN "joinwriters" ELSE "signal")
  /\ UNCHANGED <<locks, stop, itNext, conns, obj, threadVars, history>>

JoinWriters ==
  /\ At(Epoll, "joinwriters")
  /\ \A w \in Writers : At(w, "exited")
  /\ stop' = FALSE
  /\ Goto(Epoll, "off")
  /\ UNCHANGED <<locks, signals, itNext, conns, obj, threadVars, history>>

EpollThread ==
  Start \/ StopReaders \/ JoinReaders \/ StopWriters \/ SignalWriter \/ JoinWriters

------------------------------------------------------------------------------

Next ==
  \/ \E w \in Writers : Writer(w) \/ SpuriousWakeup(w)
  \/ \E t \in Apps : App(t)
  \/ \E t \in Readers : Reader(t)
  \/ \E t \in Disconnectors : Disconnector(t)
  \/ EpollThread

Spec == Init /\ [][Next]_vars

(* Threads that can run do run, and a thread that waits for a mutex gets   *)
(* it if it is released again and again.  Nothing makes an application     *)
(* call WriteTo, a peer leave, a caller disconnect, a stop be requested,   *)
(* or a waiter wake up without a signal.                                   *)
Fairness ==
  /\ \A w \in Writers :
       /\ WF_vars(Writer(w))
       /\ SF_vars(LockForScan(w)) /\ SF_vars(LockMapForScan(w)) /\ SF_vars(Unmark(w))
  /\ \A t \in Apps :
       /\ SF_vars(LockForAdd(t) \/ WritePacketFinds(t) \/ WritePacketMisses(t))
       /\ WF_vars(Insert(t) \/ InsertNothing(t) \/ Push(t))
  /\ \A t \in Readers :
       /\ WF_vars(ReaderExits(t)) /\ WF_vars(GetConnection(t))
       /\ WF_vars(CloseSocket(t)) /\ WF_vars(Invalidate(t))
       /\ SF_vars(RemoveFinds(t) \/ RemoveFindsNothing(t)) /\ SF_vars(Removal(t))
  /\ \A t \in Disconnectors : WF_vars(Shut(t)) /\ SF_vars(Removal(t))
  /\ WF_vars(Start \/ JoinReaders \/ StopWriters \/ SignalWriter \/ JoinWriters)

FairSpec == Spec /\ Fairness

------------------------------------------------------------------------------
(* Addresses and numbers that are free are used again.  The threads share  *)
(* no count of who still works on a connection, so what was deleted or     *)
(* closed may be somebody else's by the time it is used.  These are the    *)
(* steps in which it is not.                                               *)

(* A new connection is allocated where a deleted one was: while a writer   *)
(* sends from that one, or a reader has closed and is about to remove it.  *)
Replaced(a) == ~obj[a].live /\ obj'[a].live
NoSenderReplaced == \A w \in Writers : Holds(w) => ~Replaced(held[w])
NoRemovalReplaced ==
  \A t \in Readers : pc[t] \in {"invalidate", "remove"} => ~Replaced(held[t])

(* A new connection gets the number that a connection still uses: one in   *)
(* the map, which is closed before it leaves it, or one that a writer      *)
(* sends from.                                                             *)
Reopened(f) == socket[f] = Closed /\ socket'[f] # Closed
InUse(a) == obj[a].live \/ \E w \in Writers : Holds(w) /\ held[w] = a
NoNumberReused == \A a \in Addrs : InUse(a) => ~Reopened(obj[a].fd)

NothingReused == NoSenderReplaced /\ NoRemovalReplaced /\ NoNumberReused
CarefulSpec == Init /\ [][Next /\ NothingReused]_vars
------------------------------------------------------------------------------
(* Properties *)

Object == [live : BOOLEAN, peer : Peers \cup {0}, valid : BOOLEAN, sending : BOOLEAN,
           out : Seq(Nat), fd : FDs \cup {Null}]

Labels ==
  {"off", "start", "idle", "next", "woken", "check", "lockmap", "scan", "wait",
   "asleep", "send", "pop", "write", "writing", "unmark", "sent", "exited", "writepacket",
   "add", "insert", "push", "process", "close", "invalidate", "remove", "shut",
   "advance", "delete", "erase", "loop", "joinreaders", "setstop", "signal", "joinwriters"}

(* The type invariant.                                                     *)
TypeOK ==
  /\ pc \in [Threads -> Labels]
  /\ lockW \in Threads \cup {Null}
  /\ lockK \in Threads \cup {Null}
  /\ stop \in BOOLEAN
  /\ signals \in Nat
  /\ itNext \in Peers \cup {End}
  /\ conns \in [Peers -> Addrs \cup {Null}]
  /\ obj \in [Addrs -> Object]
  /\ held \in [Threads -> Addrs \cup {Null}]
  /\ peer \in [Threads -> Peers \cup {0}]
  /\ pack \in [Writers -> Nat]
  /\ count \in [Writers -> 0..PackLen]
  /\ used \in Nat
  /\ socket \in [FDs -> Peers \cup {Closed, Stray}]
  /\ wire \in [Peers -> Seq(Nat \X (1..PackLen))]

(* The saved cursor is never dangling: m_ItNext is end() or points to an   *)
(* entry of the map, whatever is added and removed between two scans.  The *)
(* writers' scan dereferences it.                                          *)
CursorIsValid == itNext = End \/ conns[itNext] # Null

(* Whoever searches the map under the kernel's mutex finds live connection *)
(* objects, each of the peer it is filed under.                            *)
MapIsSound ==
  \A p \in Peers :
    conns[p] # Null /\ lockK \in Writers \cup Apps \cup {Null} =>
      obj[conns[p]].live /\ obj[conns[p]].peer = p

(* A connection is sent from by at most one writer at a time: while one is *)
(* between picking it and SetSending(0) no other holds it.                 *)
OneSender ==
  \A v, w \in Writers : Holds(v) /\ Holds(w) /\ held[v] = held[w] => v = w

(* A connection is marked as being sent from exactly while a writer holds  *)
(* it, so no connection stays marked, and silent, for ever.                *)
MarkMeansSender ==
  \A a \in Addrs : obj[a].sending <=> \E w \in Writers : Holds(w) /\ held[w] = a

(* No wake-up is lost: when all writers sleep, the connection their next   *)
(* scan will look at has nothing to send.                                  *)
NoLostWakeup ==
  (\A w \in Writers : At(w, "asleep")) =>
    (Mapped = {} \/ ~Ready(conns[Cursor]))

(* The bytes on a peer's connection are in order: a packet accepted later  *)
(* never has a byte before one accepted earlier, and no byte is repeated.  *)
Before(u, v) == u[1] < v[1] \/ (u[1] = v[1] /\ u[2] < v[2])
WireInOrder ==
  \A p \in Peers : \A i, j \in DOMAIN wire[p] : i < j => Before(wire[p][i], wire[p][j])

(* What a comment in GetConnectionAndWrite says of the scan: a writer that *)
(* goes to sleep has met every connection and found none it could send.    *)
SleepsOnlyWhenNothingIsReady ==
  \A w \in Writers : At(w, "wait") => \A p \in Mapped : ~Ready(conns[p])

(* With one peer, a packet in a connection's queue is taken by a writer in *)
(* the end, unless the node is stopped.                                    *)
Queued(p) == IF conns[p] = Null THEN {} ELSE {obj[conns[p]].out[i] : i \in DOMAIN obj[conns[p]].out}
EveryPacketIsTaken ==
  \A p \in Peers : \A k \in Packets :
    (k \in Queued(p)) ~> (k \notin Queued(p) \/ pc[Epoll] \notin {"start", "loop"})

(* CRPCWriter::Stop waits for the writer threads, and they do return.      *)
StopReturns == At(Epoll, "joinwriters") ~> At(Epoll, "off")

(* CRPCReader::Stop waits for the reader threads, and they do return.      *)
ReaderStopReturns == At(Epoll, "joinreaders") ~> At(Epoll, "setstop")

------------------------------------------------------------------------------
(* The sending half implements the FIFO channel to each peer, as long as   *)
(* no connection is removed and the socket buffers never fill up.          *)

(* The packet whose units are the i-th PackLen of u; 0 if there is none.   *)
PacketAt(u, i) ==
  LET k == u[(i - 1) * PackLen + 1][1]
  IN  IF \A j \in 1..PackLen : u[(i - 1) * PackLen + j] = <<k, j>> THEN k ELSE 0
PacketsOf(u) == [i \in 1..(Len(u) \div PackLen) |-> PacketAt(u, i)]

InHand(p) == {w \in Writers : pack[w] # 0 /\ held[w] = conns[p] /\ count[w] < PackLen}
QueueOf(p) ==
  IF conns[p] = Null THEN <<>>
  ELSE IF InHand(p) = {} THEN obj[conns[p]].out
  ELSE <<pack[CHOOSE w \in InHand(p) : TRUE]>> \o obj[conns[p]].out

Channel == INSTANCE PacketChannel WITH
  connected <- Mapped,
  queued <- [p \in Peers |-> QueueOf(p)],
  sent <- [p \in Peers |-> PacketsOf(wire[p])]

(* Every packet handed over for a connected peer gets on its wire whole,   *)
(* once, and in the order in which packets were handed over for that peer. *)
ImplementsChannel == Channel!Spec
=============================================================================
