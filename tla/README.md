# A verification of MaloneProject

MaloneProject is a small C++ code base around a peer-to-peer messaging node: a *node*
runs a server and a client in one process, accepts connections from other nodes and
sends them packets, with several threads sharing one map of connections. Beside it lie
utilities: object pools, a log, a buffered file, a timer wheel, a ring, string
functions. This directory holds TLA+ modules of that code, TLC configurations that
check them on small instances, and proofs, checked by TLAPS, of what holds for every
size.

1. [Inventory](#1-inventory)
2. [Modules](#2-modules)
3. [Runs: what is checked, bounds, fairness](#3-runs)
4. [Proofs](#4-proofs)
5. [What the checks found](#5-what-the-checks-found)
6. [What is not modelled, and what is open](#6-not-modelled-and-what-is-open)

## 1. Inventory

### The node

| Component | State it keeps | Operations | Threads that enter it |
|---|---|---|---|
| `CNode` (`server/Node.cpp`) | a server, a client | `Start`, `Stop`, `SendTo`, `WaitJoin` | main |
| `CRPCServer`, `CRPCClient` | listener; port | `EpollLoop`; `ConnectTo`, `WriteTo` | one epoll thread each; application threads |
| `CRPCKernel` (base of both) | `m_Connections` (peer address to connection), `m_Mutex`, `m_Stop`, `m_Pipe` | `AddConnection`, `RemoveConnection`, `Disconnect`, `GetConnection`, `Start`, `Stop` | all |
| `CEpoll` (base of the kernel) | epoll descriptor, event array, number of connections | `AddToEpoll`, `RemoveFromEpoll`, `EpollWait`, `GetNextEvent` | epoll, readers, application |
| `CRPCReader` | queue of peer addresses with mutex and condition, `m_Stop` | `NewReadEvent`, `Process`, `Start`, `Stop` | 3 reader threads; epoll thread |
| `CRPCWriter` | `m_Mutex`, `m_Cond`, `m_ItNext` (where the next scan starts), `m_Stop` | `WritePacket`, `GetConnectionAndWrite`, `Process`, `ConnectionRemoved`, `Start`, `Stop` | writer threads; application; readers |
| `CRPCConnection` | socket, valid flag, sending mark, queue of packets to send, read buffer | `Read`, `Write`, `Send`, `Close`, `SetSending` | readers, writers, application |
| `CConnectionReadBuffer` | `m_Buff`, `m_Len`, `m_Cursor` | `Read`, `GetPacket`, `Adjust`, `Reset` | readers |
| `CDataPacker`, `CDataUnPacker` | a buffer with cursor and offsets | `SetBuffer`, `Write*`, `Finish`; `SetBuffer`, `Read*` | application; readers |

How they interact. An application thread calls `SendTo`, which is `WriteTo`: it
connects when the peer is not in the map (socket to epoll, then connection to the
map), packs the message and calls `WritePacket`, which looks the connection up, queues
the packet there and signals `m_Cond`. A writer thread that runs out of work sleeps on
`m_Cond`; else it scans the map from `m_ItNext` for a connection that has packets and
is not being sent from, marks it, and sends one packet with no lock held. The epoll
thread accepts connections and turns each event into an entry of the readers' queue; a
reader looks the address up, reads the connection up to EAGAIN, cuts the bytes into
packets, and at the end of the stream takes the descriptor out of epoll, closes it,
and removes and deletes the connection. `Stop` sets a flag and writes to a pipe; the
epoll thread then stops the readers and the writers and joins them.

What is hard here: two mutexes (the kernel's and the writer's) taken in both orders;
reads of the map without a mutex; pointers used after the lock that protected them is
released; an iterator kept between scans; three ways to wait (two conditions and
epoll) each with its own chance to lose a wake-up; edge-triggered events that are
reported once; partial reads and writes; and stopping while all this goes on.

What makes each part correct:

* *writer*: a connection has one sender at a time; a mark is always taken off; no
  wake-up is lost; packets for a peer leave whole, once, in order; the saved iterator
  never dangles; the map never shows a deleted connection under the lock.
* *read buffer*: no access outside the buffer; packets come out once and in order;
  nothing of an intact stream is dropped or withheld.
* *epoll, queue, readers*: no event and no wake-up is lost; what has arrived is read;
  a reader works on a connection that exists; `Stop` joins the readers.

### The utilities

| Component | State | Operations | What makes it correct |
|---|---|---|---|
| `MaloneMemPool`, `CAutoMemPool` (`MaloneMemPool.h`) | elements threaded on a free and a used list; up to 10 chunks; `m_LastUsed` | `Allocate`, `Release`, `Shrink` | sound lists; one owner per object; shrinking takes nothing away |
| `CMaloneLog` (`MaloneLog/`) | a queue, a writing thread, a descriptor per level; the log directory | `LogMessage`, `LogMessageStream`, `WriteToDisk`, `RemoveTimeoutLogFile`, `Destroy` | the last messages are in the files, in order, over rotation, restart and shutdown |
| `BufferedFile` (`malone_file.cpp`) | buffer, cursor, descriptor, name | `Open`, `Write`, `Flush`, `Close`, `SetFilename`, `GetFileLen` | the bytes written are those handed over, once, in the right file |
| `CMaloneTimer` (`MaloneTimer/`) | 60 slots of timers with loop counts | `Insert`, `ProcTick` | a timer fires once, at its time |
| `CircleArray` (`circle_array.h`) | two growing cursors over an array | `PutN`, `GetN`, `Size`, `SpaceRemain` | a bounded FIFO, also when the cursors are turned down |
| packet fields (`RPCPacket.cpp`) | a buffer, cursor, end | `Write*`, `Finish`; `SetBuffer`, `Read*`, `HaveData` | what is read is what was written |
| `StringUtility` | none | trims, splits, join, numbers and bytes as strings | the results |
| `SockaddrToString`, `Itoa` (`Common.cpp`) | a static buffer | | the string names the peer; it is the key of the kernel's map |
| `BangFrame`, `IGame.h` | phases of a game | | a sketch that does not compile |

What is hard here: the log's descriptors are opened by callers and closed by the
writing thread with no lock between them; the process may die at any point of a
rotation; `write()` may take a part and then fail; cursors come to the end of their
type after months; a static buffer has many users.

The hazards that follow from this, each at its line, are in `PROJECT.json` under
`hazards`, with the properties that cover them.

## 2. Modules

| Module | Models | Lines it follows |
|---|---|---|
| `PacketChannel` | the promise of the sending half: one FIFO of whole packets per connected peer | what callers of `SendTo` rely on |
| `RPCWriter` | writers, application threads, readers that remove connections, `Disconnect`, `Stop` | `RPCCommon.cpp` 354-393, 515-534, 554-730, 782-924; `RPCClient.cpp` |
| `ReadBuffer` | `CConnectionReadBuffer` over `CDataUnPacker::SetBuffer`, fed by a peer | `RPCCommon.cpp` 82-230, `RPCPacket.cpp` |
| `RPCKernel` | epoll threads, the event queue, readers, connecting and stopping | `RPCServer.cpp`, `RPCClient.cpp`, `Epoll.cpp`, `RPCCommon.cpp` |
| `ObjectStore` | the promise of a pool: one owner per object, refusal only when full | what callers of `Allocate` rely on |
| `MemPool` | `CAutoMemPool` on `MaloneMemPool` on `PoolList`, down to the links | `MaloneMemPool.h` |
| `MaloneLog` | the log: callers, writing thread, files, rotation, restart | `MaloneLog.cpp` 89-111, 135-437, 623-637 |
| `BufferedFile` | the buffer over `write()` | `malone_file.cpp` 92-209 |
| `CircleArray` | the ring at a small integer width | `circle_array.h` |
| `MaloneTimer` | the wheel | `MaloneTimer.cpp` |
| `PacketFields` | what lies inside a packet | `RPCPacket.cpp` 47-280 |
| `StringUtility` | the functions on strings as operators | `StringUtility.cpp` |
| `PeerAddress` | `Itoa` with its static buffer, several threads in it | `Common.cpp` 28-105 |
| `MCUtilities` | chooses one of these seven, with constants for TLC | |
| `MCBuffers` | chooses `ReadBuffer` or `MemPool`, with constants for TLC | |
| `MCWriter`, `MCReadBuffer`, `MCKernel` | constants for TLC | |
| `RPCWriterProofs`, `ReadBufferProofs`, `RPCKernelProofs`, `MemPoolProofs`, `MaloneLogProofs` | theorems about the module of that name | |
| `UtilityProofs` | theorems about `MaloneTimer`, `BufferedFile` and `CircleArray` | |
| `FormatProofs` | theorems about `PeerAddress`, `PacketFields` and `StringUtility` | |
| `NumberLemmas` | lemmas on natural numbers, induction and recursion, for the proofs of the log and the utilities | |

Each module is state (VARIABLES named after the members), one action per step that
another thread can observe, and properties. A critical section that touches only what
its mutex protects is one action; it is split where the code reads or writes something
outside the mutex, takes a second mutex, or calls the kernel. `pc` says where a thread
is.

**RPCWriter.** `lockW` and `lockK` are the owners of `CRPCWriter::m_Mutex` and
`CRPCKernel::m_Mutex`. The map is `conns`, from peers (numbered in the order of the
map's keys) to *addresses*; `obj` gives the object at an address. `Delete` frees an
address and `Insert` may allocate any free one, so a thread that kept a pointer over a
deletion works, as in C++, on whatever is there now. Between `Delete` and `Erase`, and
while an insertion relinks the tree, `Lookup` (which takes no lock) may miss an entry.
Descriptors are numbers that are used again in the same way: `socket` says what each
leads to (nothing, a peer's latest connection, or an older one), `Insert` gives a new
connection any free number, and a thread that kept an older one then writes to, or
closes, the new connection. A socket is in the model from `AddConnection` on, and what
else the process opens takes no number. A packet is `PackLen` units. The loop of
`Send` is two steps: `WriteTest` looks at `m_IsValid`, then `WriteSome` is one
`write()` that takes any number of the remaining units, to wherever the number leads
by then (`Target`), or `WriteFails`: always on a closed descriptor, and with `MayFail`
at any time (EAGAIN, or a peer that has gone; that SIGPIPE does not end the process is
assumed). `Close` is two steps too, `close()` (`CloseSocket`, `Disconnect`) and the
flag (`Invalidate`, `Shut`). `wire` is history: what was written to a peer's latest
connection. The module ends with the mapping to `PacketChannel`: a peer's queue is its
connection's `m_OutPackets` with the packet a writer is sending in front.

**ReadBuffer.** A byte is its position in the stream. Read appends and `Adjust` keeps
what is behind the cursor, so the buffer is known from `m_Len` and `m_Cursor` and the
number of bytes taken; what `SetBuffer` sees at the cursor follows from the packets of
which it is a part. `SetBuffer` knows a packet by a start flag and by two bytes at the
place its length says, and takes the length, which is signed, from the stream. So a
packet is described by where it shows a start flag, behind which length, and where an
end flag; its payload may show some too (`spells`, `ends`). `LengthsAt` and
`EndFlagAt` read that off the stream, and `SetBuffer` accepts what has both flags, be
it the beginning of one packet and the end of the next. `careful` chooses, once,
between a peer that sends every packet whole and one whose packets may be cut short
(`Send` on a full socket buffer) or without data (a message that does not fit). Two
ends are final: `stuck`, when `GetPacket` has found more than a `CRPCPacket` holds and
Read does not end (`ExtractOversize`), and `crashed`, when the end flag is looked for
in front of the buffer and nothing is mapped there (`AccessOutside`).

**RPCKernel.** `edge` is the set of descriptors epoll would report, `events` what
`epoll_wait` has returned and the loop has not dispatched, `queue` the readers' queue
of addresses. `role` chooses server or client once; the two differ in who connects. A
socket that was reset has no peer address, and the code gives up on its events and on
its connection. `accept()` and `epoll_ctl()` may fail (`AcceptFails`,
`RegisterFails`). The writers are not in this module, but the two places where they
keep it waiting are: the kernel's mutex, which `AddConnection` and `RemoveConnection`
take, and `m_Writer->Stop(1)`, which the epoll thread calls behind the readers' Stop
(`stopwriters`, `WritersStopped`).

**MemPool.** A pool is a record of the links (`next`, `prev`, `boss`) and of both
lists' `first`, `last` and `count`; the list operations are functions from pools to
pools. `Shrink`'s loop is stated by what it leaves: `KeptPools`.

**MaloneLog.** A message is its number in the queue, a file the sequence of its
messages, and `dir` maps a level and a time to a file, as renaming puts the time into
the name; time 0 is the live name. `logfd` is `m_Logfd`. A caller of
`LogMessageStream` that finds it closed goes through three steps (open, store, push);
the writing thread's steps are its reads and writes of `m_Logfd` and of the directory.
`now` is the local time, which may be put back once. `fds` counts open descriptors,
with those that `opendir` leaks and those that are overwritten. A renaming may fail
(`NotMoved`): its result is printed, and the file stays under its live name;
`unrenamed` counts them. A message is written whole or not at all (its length and a
NUL in it are left out), and `unlink()` succeeds. `Restart` ends the process anywhere,
keeps the directory, and starts another. The queue's mutex and condition are in
`RPCKernel`, which models the same template, so here `Push` and `Pop` are steps.

**BufferedFile.** A byte is its number, so that a byte written twice or out of order
shows. `call` is the call in progress and `flushing` says whether it is in `Flush`'s
loop, each `write()` of which is a step that takes any number of bytes or fails. The
destructor, which flushes once and drops the buffer when that fails, is left out.

**CircleArray, MaloneTimer.** The cursors, the list operations and the loops of the
code, a round at a time, on a state that the properties compare with a history: the
elements put and not got; the timeout asked for and the ticks since.

**PacketFields.** A cell of the buffer says to which byte of which field it belongs,
which is enough to tell whether a read returns what a write has put there. `htonl` and
`ntohl` undo each other and are left out.

**StringUtility.** Loops over pointers are stated by where they stop. The array of
`FieldLen` characters into which the splits copy is in `StrSplitFits` and
`StrSplitBySpacesFits`: what they copy, with the 0 behind it, has room. The texts are
all texts up to a length; their properties state words, separators and digits on their
own, not by the code's way of finding them.

**PeerAddress.** The accesses of `Itoa` to its static buffer are steps: each digit is
written in one; the exchange of two digits, of three accesses, is one (`Swap`), and so
is the copy of the finished string (`Copy`). What happens in between belongs to the
interference that the property excepts.

Abstractions that hold everywhere: printing is left out; memory allocation and thread
creation succeed; a `std::map` and a `std::list` do what they promise to a thread that
is alone with them.

## 3. Runs

Passing runs:

| Run | Question | Instance |
|---|---|---|
| `writer_fifo` | Do the writers implement one FIFO per peer, with one sender, no stale mark and no lost wake-up, while connections stay? | 2 writers, 1 application thread, 2 peers, 3 packets of 2 units, `Stop` at any time |
| `writer_removal` | Do the saved iterator and the map survive connections that come and go? | 2 writers, 1 application thread, 1 reader, 1 `Disconnect` caller, 2 peers, 2 addresses, 2 descriptors, 2 packets |
| `writer_live` | Is every packet taken, and the wire in order, when `write()` may fail? | 2 writers, 1 peer, 2 packets, fairness |
| `buffers` | Does the reassembly work for every split? Are the pools' lists sound and objects owned once, over every history? | header 2, trailer 1, packets up to 5, buffer 10, 3 packets; 3 pools of 3 objects |
| `kernel` | Are events and wake-ups never lost, and are the readers joined? | server and client, 2 readers, 1 peer, 2 arrivals, fairness |
| `utilities` | Does each utility keep its promise over every history of calls, failures and restarts? | see below |

Why the bounds are enough. Two writers are what is needed for two to meet on one
connection, one to sleep while the other sends, and one to be woken by the other's
packet. Two peers give the scan something to skip and the iterator somewhere to go;
two addresses for two peers make a deleted object's address be used again at once.
Three packets let one be sent, one be queued and one arrive. In the read buffer the
proportions of the code are kept (a packet fills at most half of the buffer; header,
payload and trailer can each be split over reads), and three packets are more than the
buffer holds. The messages are those that fit, empty ones, and one that is too long,
and two whose payload shows an end flag and start flags behind lengths that are
negative, longer than a packet and longer than the buffer. The peer's choice and the
split of its stream make up most of the run's million states; that of the pools is a
behaviour of its own. In the kernel one peer is enough for an event to be reported
while it is queued, being processed, or its connection being removed; two readers are
needed to meet on it. Three objects per pool have a front, a middle and an end; three
pools have one in the middle.

The instances of `utilities`: the log has one caller beside the writing thread, one
level, a file that is renamed with its second message, one renamed file kept, 4
messages, 3 seconds, 2 descriptors and one restart. That is the least in which a file
is renamed twice, an older one is removed, a second rotation may fall into the second
of the first, a caller opens what the writing thread is about to rename, the process
dies in the middle of any of this, and descriptors run out. The log's invariants were
also checked on larger instances (two callers and 5 messages; two levels; two files
kept, 7 messages and 4 seconds). The buffered file has a buffer of 2 bytes, 4 bytes to
write, 2 names, 2 flushes and 2 failures: the buffer is filled twice and a failure can
follow a failure. The ring has 5 elements and turns down at 23 of 32, so that the
threshold is no multiple of the length, as in the code for most lengths (0xFFFFFF00).
The wheel has 3 slots and timeouts over two turns, with up to 3 timers, which may
share a slot. Packets have room for 7 bytes of data: an integer and a short and a
byte, or any other mix, to the last byte. Texts are all of up to 6 characters over the
blank, the comma and two letters, more than the 5 of the array that fields are copied
to; bytes are those at the borders of the number of digits. Two threads format ports
of one, two and four digits, 3 times in all. The seven components share no state; a
behaviour chooses one.

Fairness. Weak fairness for a thread that can go on (the scheduler runs every thread).
In the writers' runs, strong fairness for taking a mutex (it is free again and again,
and a waiter gets it at some time; POSIX does not promise this, Linux' futex in
practice does). The kernel's mutex may also be one that its owner never releases, as
`writer_locks` shows of the writers; so in `RPCKernel` nothing is assumed of it, and
`EveryChunkIsRead` and `ReadersAreJoined` have the hypothesis `MutexIsGranted`
instead. The second says no more than that the epoll thread gets as far as
`m_Writer->Stop(1)`; whether that returns is `StopReturns`, which `writer_stop`
refutes. In the log, for the writing thread and for the thread that joins it; in the
buffered file, for a call in progress, and a `write()` that does not fail takes at
least one byte. There is none for what the environment may refuse: an application's
calls, a peer's sends or its leaving, a failing call, a caller's `Disconnect`, a
wake-up without a signal, `Stop`. The runs without fairness check safety only.
Deadlock is not checked in the runs, as each of these systems may come to rest: all
packets are sent, or the node is stopped. The deadlock that matters, two threads in
front of each other's mutex, is looked for with `ReaderStopReturns`.

The runs that end in a violation each take one sentence of the sources and show a
behaviour that contradicts it; see section 5. Four configurations are kept beside the
runs: `MCReadBufferMixed.cfg`, `MCReadBufferRefused.cfg` (both of `MCReadBuffer`) and
`StringTrim.cfg` (of `StringUtility`) each end in a violation that section 5 explains,
and `MCWriterCareful.cfg` (of `MCWriter`) passes: it is the instance of the theorems
of section 4 that have `CarefulSpec` as hypothesis. Symmetry (in `writer_removal` and
in that configuration) is over writers, addresses and descriptors, none of which the
modules tell apart, and in runs without liveness only. Every property of a passing run
has a mutant of the module, named `Mutant...` beside the definition it changes, on
which TLC finds the property violated.

## 4. Proofs

TLAPS proves the following for all values of the constants, under the assumptions the
modules name (threads are distinct; sizes are natural numbers and the longest packet
fits the buffer).

**`RPCWriterProofs`**, any number of writers, application threads, readers, callers of
`Disconnect`, peers and addresses:

* `TypeCorrect`, `CursorAlwaysValid`, `MapAlwaysSound`.

The argument: `MutexInv` says that the owner of a mutex is exactly the thread that is
in a section of it (`KernelSection`, `WriterSection`), and `PointerInv` which pointers
a thread may hold where. With these, `CursorIsValid` is inductive: only `Erase` takes
an entry away, its thread owns the kernel's mutex since before `ConnectionRemoved`
moved the cursor off the entry, and only a scan, which needs the same mutex, could
have moved it back. `MapIsSound` needs `MapInv` in addition: a mapped object is its
own peer's, and it is live except between `Delete` and `Erase` of the thread that owns
the mutex.

Its second part, while connections come and go:

* `OneSenderUnlessReused`, `MarksAreTrueUnlessReused` for every behaviour in which no
  new connection is allocated where a deleted one was that a writer still sends from
  (`NoSenderReplaced`);
* `WiresStayInOrderUnlessReused` for those (`CarefulSpec`) in which, besides, none is
  allocated where one was that a reader has closed and is about to remove
  (`NoRemovalReplaced`), and none gets the descriptor number of a connection that is
  still in the map or that a writer still sends from (`NoNumberReused`).

The allocator and the kernel may do all three, so the hypotheses say what the code
leaves to luck. Without the first a connection gets two senders (run `writer_reuse`).
Without the second a reader removes a connection that was made after the one it
closed, deletes it open, and its writer goes on beside the writers of the next one.
Without the third `Close` releases the number before it clears `m_IsValid`, or comes
between the test of `m_IsValid` and `write()`, and the rest of a packet goes to the
peer that has got the number. `MarksInv` is inductive under the first. `CloseInv` says
that what is deleted was closed before, and is the connection the map has for its
peer; so what a writer finds open is live. `WireInv` then says that on the wire of
each peer the bytes are in order, and that on that of a live connection they come
before what is in the hand of its one writer, and that before what is queued.

Its third part, on systems in which connections stay (`Readers` and `Disconnectors`
empty), where nothing can be replaced and no hypothesis is left:

* `OneSenderAtATime`, `MarkAlwaysMeansSender`, `WiresStayInOrder`, the last also when
  `write()` fails and `Send` drops the rest of a packet;
* `NoWakeupLost`;
* `SenderImplementsChannel`: when `write()` does not fail (`~MayFail`), every step of
  `RPCWriter` is a step of `PacketChannel` or a stutter.

`SenderInv` says that what a writer holds is live, which with `MarksInv` is what the
second part needs. `WakeInv` says that when every writer waits or is about to, the
connection at the cursor is not ready; with removals that is false, as
`ConnectionRemoved` may move the cursor onto a ready connection without waking
anybody. `FrameInv` says that a wire carries whole packets and then the first `count`
units of the one being written, from which the mapping reads the packets sent. Without
`~MayFail` the refinement is false, as a dropped rest leaves a packet cut; with
removals it is, as a packet is dropped with its connection. Two places of the model
were put right on the way. The search for a connection that takes no lock may meet the
insertion of another peer and miss, so `PacketChannel`'s `Refuse` may happen whenever
some peer is not connected; and the tree is relinked only by an insertion that adds an
entry (`Relinking`).

**`ReadBufferProofs`**, any lengths, any set of messages, any split:

* `CursorStaysInside`, `EndFlagIsLookedForInside`, `AlwaysInOrder`, `NothingIsLost`,
  `RoomToRead`, `NothingWithheld`.

The first, the third in part (no byte twice, none before an earlier one) and the last
three hold whatever payload looks like. The second, and that what comes out has the
place and the length of a packet that was sent, are about payload without start flags
(`Plain`); with them the end flag is looked for where a payload's "length" says, and
even in front of the buffer. That what comes out is whole is not a theorem: section 5.

`StreamInv` says that packets lie one behind the other in the stream and fill it;
`OrderInv` that what has come out lies before the cursor; `CarefulInv` that with a
careful peer the cursor is always at the start of the next packet, and that between
reads this packet is incomplete. As no incomplete packet is longer than the buffer,
there is always room, and `SetBuffer` never rejects what it sees.

**`RPCKernelProofs`**, any number of readers (at least one: the code starts three),
peers and arrivals, server and client:

* `TypeIsInvariant`, `NoWakeupIsLost`, `ReadersWorkOnLiveConnections`, and
  `ServerLosesNoEvent`.

`HandInv` and `LoopInv` say what a thread may hold where, `OwnInv` that each reader
works on a connection of its own that is in the map, but for the connections on which
two readers have met (`clash`, a set of peers): what happens there does not touch the
others. `Disconnect`, which nothing in the repository calls, is in `RPCWriter` only.
That a server loses no event needs the whole life of a connection. `ArrivalInv`: as
long as a peer is in the backlog or in the epoll thread's hand nobody has touched it,
and what has arrived before `epoll_ctl` is reported by it. `DepartureInv`: a
connection of the map is registered and open, but for the one a reader is taking down.
The client puts a socket in epoll before it is in the map, so `NoEventLost` is stated
of servers only, and the run `kernel_client` shows the event it may lose.

**`MemPoolProofs`**, any number of pools of any size (`Null` is not the name of an
element or of a list):

* `TypeIsInvariant`, `ListsStaySound`, `EveryObjectIsFound`, and
  `PoolImplementsStore`: the pools implement `ObjectStore`.

`ListIsSound` says that some order w of distinct elements is what one meets along
`next` from `first` and along `prev` from `last`. The lemmas compute from w what
`QuickRemove` and `Pushback` leave, in each of their cases (front, middle, end, only
element), and give the order of the new list (`Without`, `With`). `NoHoles` is why
`Release` finds what it looks for: pools exist from the first to `m_LastUsed`, and
`Shrink` takes them from the end.

**`MaloneLogProofs`**, any finite number of callers, any number of levels, messages,
restarts and seconds (at least one level and one second, and both exist):

* `TypeIsInvariant`, `DescriptorStaysLive`, `FilesAreShort`, `RenamedFilesAreFew`,
  `DestroyWritesAll`, `RecentMessagesStay`.

`LabelInv` says where each thread may be; `FdInv` that stored descriptors and those
that callers are about to store are among the open ones, of which there are at most
`FdLimit`. `ApartInv`: a file has one name, and what a caller has opened and not
stored yet belongs to its message's level, so a store never makes one level write to
another's file. `RenameInv`: the file is closed when it is renamed, unless a caller
stored a descriptor in between (`straddled`, which the properties except). `LengthInv`
and `SweepInv` allow one message, and one file, too many where the writing thread has
not looked yet, one for each process that has died there, and one message more for
each renaming that has failed (`unrenamed`): as long as `rename()` fails the file
grows. `AccountInv`: each message is handled, queued or in the writing thread's hand;
`StopInv`: what lies behind `Destroy`'s message was queued after it. From the two,
`ShutdownWritesAll`.

`RecentMessagesStay` is about the concatenation of a level's files, which no step
changes in one piece. Its invariant speaks of single files instead. `OrderInv`:
messages are written in the order in which they were queued, so that the queue lies
behind the writing thread's message and that behind all that is written. `HeldInv`, of
every level that the property does not except: each file rises; an older file lies
before a newer one; what was written and is in no file lies before all that is in one;
every renamed file is full (`DueInv`: only a file that is too long is renamed); and
nothing is missing as long as there are fewer than `m_CacheFileNum` of them. From this
the property follows by induction on the files: joined in their order they rise and
hold the same set of messages as an end of what was written, and two rising sequences
with the same elements are equal (`RisingSuffix`).

**`UtilityProofs`**, a wheel of any size with any timeouts, a buffer of any size, a
ring of any length on integers of any width:

* `TimersFireInTheirSlot`. `PlaceInv` says that a timer waits in one place of one
  slot, `DueInv` that its age and the steps to its slot are what is left of its
  timeout, whole turns taken off. A tick makes one greater and the other less;
  `Insert` makes them agree by arithmetic on remainders (`Turns`, `Distance`).
* `FilesAreWhole`, `BytesAreKept`. `CallInv` says where the cursor of `Flush` is
  between calls, `WholeInv` that file and unwritten rest make up what was written.
  After a failure the buffer is written again from its start, so the second theorem
  has to say what may repeat. `ByteInv`: the buffer is a run of consecutive bytes, all
  before it are in files, and what a file holds of the run is a prefix of it; hence an
  appended piece repeats bytes of the file or exceeds them all, and repeats come
  first.
* `RingStaysFifo`. `CursorInv` says that the cursors are as far apart as there are
  elements, which lie from the read cursor on, and that `PutN` has not more to put
  than there is room for. A turn-down keeps the positions (`TurnedPosition`) and,
  unless it puts the write cursor left of the read cursor, the distance
  (`TurnedDistance`). The theorem excepts that case, which happens. `Size` returns an
  int: the assumption that twice the length is less than the width holds as
  `max_array_len_` comes from an int.

**`FormatProofs`**, any ports and any number of threads (a port has less than the
buffer's 32 digits: `BufferAssumption`), buffers of any length and any fields, texts
of any length and any bytes:

* `AddressesAreRight`. `PointerInv` says where a thread in `Itoa` has its two
  pointers, whatever others do; `ContentInv` what the buffer holds as long as nobody
  else has written to it; `NulInv` that no character ever lies behind the longest
  port, which bounds what `Copy` reads though the buffer is spoilt.
* `FieldsAreReadBack`, of bytes and binaries, behind integers and shorts too, and of
  `HaveData`. `PacketInv` is about some places `at` of the fields: each begins where
  the one before it ends (`IsPlace`), and its bytes are there (`FieldsLie`), until the
  last byte is read. A reader's cursor is at the next field's place, from which
  integers and shorts are read four and two times as far on.
* `SplitsAreAlwaysRight`, `NumbersAlwaysReadBack`: of texts whose fields fit the array
  they are copied to (`StrSplitFits`, `StrSplitBySpacesFits`), and, of `Trim`, of
  those that are not blanks alone. The others are shown to be what the code goes wrong
  on: a field or word as long as the array, two or more blanks. The state is only the
  argument, so what is proved is what the functions compute. `TrimsTo` gives the
  result of `Trim`, case by case. `Lists` says that what `StrSplitBySpaces` has found
  from a place on are the words that begin there or later, each once and in order,
  which with their number gives `SplitGivesWords`; `Parted` that what `StrSplit` has
  found from a place on joins to the rest of the string and has no separator in it.
  `FlattenLies` gives the place of each string in a concatenation, from which digits
  are read back; `SplitFindsWords`, that a split at a character no word has undoes
  writing it behind each word.

The functions of these modules are recursive, and the induction theorems of the
library cannot be instantiated with an operator. `NumberLemmas` states induction of
sets: a set that has 0 and the successor of each of its numbers has all
(`SetInduction`), from the existence of least elements. `RankedRecursion` then shows
that a function defined by recursion exists when each value looks only at arguments of
lower rank (`LooksDown`): up (`Value`), down by division (`Digits`, `DigitsUp`), or
from the end of a string to its start (`StrSplit`). What a fold gives (`FlattenSeq`)
is found in the same way.

Only model-checked:

* liveness (`EveryChunkIsRead`, `EveryMessageIsHandled`, `CallsReturn`, the stops and
  waits of the node): fairness needs ENABLED, which is beyond the prover;
* what the six runs of section 5 show, which are single behaviours.

## 5. What the checks found

* `writer_scan`: the scan compares with its starting mark before it has moved, so it
  looks at one connection only (`RPCCommon.cpp` 648 against the comment in 647).
* `writer_stop`: `CRPCWriter::Stop` sets its flag and signals without the mutex, so a
  writer about to wait misses it (715-717 against 719).
* `writer_locks`: `RemoveConnection` and the scan take the two mutexes in opposite
  orders (919 with 690; 606 with 613), so readers and `Stop` may wait for ever.
* `writer_reuse`: a connection is deleted while a writer sends from it (920 with 679),
  and then two writers send from its successor.
* `kernel_client`: the client adds a socket to epoll before the map (`RPCClient.cpp`
  98 and 101), and so may lose its first event.
* `packet_fields_read`: `ReadInt` and `ReadShort` scale the offset (`RPCPacket.cpp`
  229, 241), and return 1 with what lies four or two times as far on, be it the value,
  another or what is behind the buffer (`RPCPacket.h` 93: "storage the result").
  Nothing in the repository calls them.

Three more, each with a configuration beside the runs:

* `MCReadBufferMixed.cfg`, `OnlyWholePackets`: the end of a packet is recognized by
  two bytes at the place its length says (`RPCPacket.cpp` 210-212). When a packet was
  cut short and the next one's end flag falls on that place, the beginning of one and
  the end of the other are delivered as "an integrated packet" (`RPCCommon.cpp` 193).
* `MCReadBufferRefused.cfg`, `BadDataIsRefused`: data that "is not right to compose a
  packet" (`RPCPacket.h` 91) is refused, unless it is payload that shows a start flag
  and the stream has lost its place. A negative length then leads in front of the
  buffer (207-210); and for one that is longer than a `CRPCPacket` `GetPacket` returns
  a packet of length 0, and `Read` tries it again for ever (`RPCCommon.cpp` 140).
* `StringTrim.cfg`, `TrimRemovesSpaces`: `Trim`, said to "remove spaces at head and
  tail of a string" (`StringUtility.h` 19), leaves two or more blanks as they are, and
  writes a 0 in front of them.

Things modelled as they are, with no sentence in the repository to hold against them:
the rest of a packet is dropped when the socket buffer is full; a reset connection is
never removed; a packet for a peer that has just been removed is dropped; a
connection's descriptor number, like its address, may be another's by the time it is
used, so that a rest of a packet gets to another peer (`NoNumberReused` in
`RPCWriter`); two readers may meet on one connection and remove it twice, which
`RPCKernel` follows only up to the meeting (`clash`); a listener's event accepts one
connection, and one whose `accept()` fails waits for the next event. A message that is
empty or too long goes out as a packet without data, which the receiver rejects.

The utilities hold what one would ask of them only under conditions, and the
properties say which. Each of these is the code's behaviour, met in `utilities` and
excepted, or stated, by the property in brackets:

* log: a second rotation within a second replaces the file that the first has saved;
  when the local time is put back, as at the end of summer time, a sweep removes new
  files in place of old ones; a caller that opens a file before a rotation and stores
  it after makes the writing thread write to the renamed file
  (`RecentMessagesAreKept`, and `DescriptorIsLive`, which is proved); a `rename()`
  that fails is printed and leaves the file to grow by a message each time
  (`FilesStayShort`); the directory stream of each sweep stays open, and when
  descriptors have run out messages are dropped and old files stay
  (`RenamedFilesBounded`); messages queued behind `Destroy`'s own are never written
  (`ShutdownWritesAll`);
* buffered file: after a failed flush, bytes are written again, and after
  `SetFilename` they may go to the new file; `Write` then returns 0 though it has
  taken a part (`FileHasWhatWasWritten`, `NoByteLost`);
* ring: a turn-down that finds the write position left of the read position breaks the
  ring (`RingIsFifo`): `Size` is then negative, so that nothing can be got, and
  `SpaceRemain` more than the length, so that `Put` writes over what has not been
  read;
* timer: a timeout of more than a turn fires whole turns too early, as its loop count
  is used up within one tick (`FiresInItsSlot`);
* strings: the splits copy each field to an array of 512 characters (`filed`), which
  one of 512 or more overruns (`SplitsAreRight`); `StrSplit` goes on one character
  behind the start of a separator, however long that is (modelled; checked for
  separators of one);
* addresses: two threads in `Itoa` at once spoil each other's port (`AddressIsRight`):
  the string may have the digits of one port, of both, in either order, or none, and
  never more than the longest port. As the key of the map it then names no connection
  or another peer's.

## 6. Not modelled, and what is open

Not modelled: `epollserver.*`, a superseded draft; `client/client.cpp`, the mains and
the test drivers; `BangFrame` and `IGame.h`, sketches without behaviour; formatting of
times, `Itoa` of negative numbers, conversions to wide characters, the wording of a
log line; `FileUtility`, whose functions are single calls of the library, and its
`CopyFile`. `PoolList`'s operations that no pool calls, `m_InPackets`, which nothing
fills, and the size of `CEpoll`'s event array, which is overrun only when more
descriptors are ready at once than the 256 that `server.cpp` 44 creates the node for,
are left out of their modules. `sharedLogger`'s first call is assumed to be over
before a second thread logs. In the log, `unlink()` (171) is taken to succeed, and a
message is written whole: that `WriteToDisk` writes up to the first NUL (232,
361-362), and that `snprintf` may say more than it has written (355-357, 414-422), is
left out. So is the destructor of `BufferedFile` (103-107), which drops what a failed
flush has left in the buffer.

Open:

1. what a client loses: a proof that it is no event but the first of a connection;
2. a model of the log's queue down to its mutex, in place of the one in `RPCKernel`.

The modules are written for this: constants carry named assumptions, an action is one
step, recursion is by recursive functions, invariants are conjunctions of named parts.
