------------------------------ MODULE MaloneLog ------------------------------
(* CMaloneLog: threads format messages and put them on a queue; one thread *)
(* writes them to a file per level.  A file that has grown too long is     *)
(* renamed to a name with the time, and the oldest of the renamed files    *)
(* are removed.  LogMessageStream opens the file itself when it finds it   *)
(* closed, with no lock, while the writing thread closes and renames it.   *)
(*                                                                         *)
(* A message is a number, in the order of the queue; the length of a file  *)
(* is the number of its messages.  A message of which write() takes only a *)
(* part counts as missed.  The queue is the template that RPCKernel models *)
(* down to its condition variable; here Push and Pop are one step each.    *)
(* Two things are taken to go well: unlink() removes the file it is given, *)
(* and a message is written as it was given, as one without a NUL byte is  *)
(* that fits the buffer it is formatted in.                                *)
EXTENDS Naturals, FiniteSets, Sequences, SequencesExt

CONSTANTS
  Callers,       \* threads that log
  Disk,          \* m_WriteThread
  Main,          \* the thread that ends the process
  NumLevels,     \* MALONE_LOG_LEVEL_MAX
  CacheSize,     \* CACHE_SIZE, in messages
  CacheFileNum,  \* m_CacheFileNum: how many renamed files are kept
  FdLimit,       \* descriptors the process may have open
  MaxMessages, MaxTime, MaxRestarts   \* bounds

ASSUME LogAssumption ==
  /\ IsFiniteSet(Callers)
  /\ NumLevels \in Nat \ {0} /\ {CacheSize, CacheFileNum, FdLimit} \subseteq Nat
  /\ MaxTime \in Nat \ {0} /\ {MaxMessages, MaxRestarts} \subseteq Nat
  /\ Disk \notin Callers /\ Main \notin Callers /\ Disk # Main

Levels == 0 .. NumLevels - 1
Closed == 0      \* the descriptor -1; files are numbered from 1
Stop == 0        \* the message with the flag THREAD_STOP

VARIABLES
  pc,
  queue,      \* m_Queue
  logfd,      \* m_Logfd: per level, the file it has open
  dir,        \* the directory: per level and time, a file; time 0: the live name
  content,    \* the files, in the order they were created
  now,        \* the local time in seconds, of which the new names are made
  msg,        \* the message being logged or written, with its level
  got,        \* what open() has returned to a caller
  sweep,      \* the level RemoveTimeoutLogFile has come to
  fds,        \* open descriptors, leaked ones included
  pushed,     \* history: messages put on the queue
  written,    \* history: per level, what was written, in order
  missed,     \* history: messages that could not be written, or died with the process
  restarts,   \* history: processes before this one
  straddled,  \* history: per level, a caller stored a file that was being renamed
  clobbered,  \* history: per level, two renamings to one name
  unrenamed,  \* history: per level, how often rename() has failed
  exhausted,  \* history: no descriptor was left
  turnedBack, \* history: the clock was put back
  stopAt      \* history: messages pushed before Destroy queued its own

diskVars == <<dir, content, now>>
history == <<written, missed, restarts, straddled, clobbered, unrenamed, exhausted, turnedBack>>
logVars == <<pc, queue, logfd, diskVars, msg, got, sweep, fds, pushed, stopAt, history>>

------------------------------------------------------------------------------
(* Files and descriptors *)

Threads == Callers \cup {Disk, Main}
NoMessage == [id |-> 0, level |-> 0]

LogAt(t, label) == pc[t] = label
LogGoto(t, label) == pc' = [pc EXCEPT ![t] = label]

Running == ~LogAt(Main, "destroyed")

MutantCanOpen == fds <= FdLimit

(* open() with O_CREAT | O_APPEND of the level's live name: the file and   *)
(* the next directory and contents; Closed when no descriptor is left.     *)
CanOpen == fds < FdLimit
OpenLive(l) == IF dir[l][0] # Closed THEN dir[l][0] ELSE Len(content) + 1
Create(l) ==
  IF dir[l][0] # Closed THEN UNCHANGED <<dir, content>>
  ELSE /\ dir' = [dir EXCEPT ![l][0] = Len(content) + 1]
       /\ content' = Append(content, <<>>)

(* The renamed files of a level.                                           *)
Renamed(l) == {t \in 1 .. MaxTime : dir[l][t] # Closed}

MutantKept(l) == {t \in Renamed(l) : Cardinality({u \in Renamed(l) : u < t}) < CacheFileNum}

MutantKeptOneMore(l) ==
  {t \in Renamed(l) : Cardinality({u \in Renamed(l) : u > t}) < CacheFileNum + 1}

(* RemoveTimeoutLogFile sorts the names, newest first, and keeps the first *)
(* m_CacheFileNum; the names of a level differ in their time only.         *)
Kept(l) == {t \in Renamed(l) : Cardinality({u \in Renamed(l) : u > t}) < CacheFileNum}
Swept(l) == [t \in 0 .. MaxTime |-> IF t \in Renamed(l) \ Kept(l) THEN Closed ELSE dir[l][t]]

------------------------------------------------------------------------------
(* Init: sharedLogger has run Init, in the first process.                  *)

LogInit ==
  /\ pc = [t \in Threads |-> IF t = Disk THEN "pop" ELSE "idle"]
  /\ queue = <<>>
  /\ logfd = [l \in Levels |-> Closed]
  /\ dir = [l \in Levels |-> [t \in 0 .. MaxTime |-> Closed]]
  /\ content = <<>>
  /\ now = 1
  /\ msg = [t \in Callers \cup {Disk} |-> NoMessage]
  /\ got = [c \in Callers |-> Closed]
  /\ sweep = 0
  /\ fds = 0
  /\ pushed = 0
  /\ written = [l \in Levels |-> <<>>]
  /\ missed = {}
  /\ restarts = 0
  /\ straddled = [l \in Levels |-> FALSE]
  /\ clobbered = [l \in Levels |-> FALSE]
  /\ unrenamed = [l \in Levels |-> 0]
  /\ exhausted = FALSE
  /\ turnedBack = FALSE
  /\ stopAt = 0

------------------------------------------------------------------------------
(* The callers *)

Push(l) ==
  /\ pushed < MaxMessages
  /\ pushed' = pushed + 1
  /\ queue' = Append(queue, [id |-> pushed + 1, level |-> l])

LogMessage(c, l) ==
  /\ Running /\ LogAt(c, "idle")
  /\ Push(l)
  /\ UNCHANGED <<pc, logfd, diskVars, msg, got, sweep, fds, stopAt, history>>

(* LogMessageStream, when it finds the file open, is LogMessage; when not, *)
(* it opens the file, stores the descriptor, and gives up if that failed.  *)
StreamFindsClosed(c, l) ==
  /\ Running /\ LogAt(c, "idle")
  /\ pushed < MaxMessages
  /\ logfd[l] = Closed
  /\ msg' = [msg EXCEPT ![c].level = l]
  /\ LogGoto(c, "open")
  /\ UNCHANGED <<queue, logfd, diskVars, got, sweep, fds, pushed, stopAt, history>>

StreamOpens(c) ==
  /\ Running /\ LogAt(c, "open")
  /\ IF CanOpen
     THEN /\ got' = [got EXCEPT ![c] = OpenLive(msg[c].level)]
          /\ Create(msg[c].level)
          /\ fds' = fds + 1
          /\ UNCHANGED exhausted
     ELSE /\ got' = [got EXCEPT ![c] = Closed]
          /\ exhausted' = TRUE
          /\ UNCHANGED <<dir, content, fds>>
  /\ LogGoto(c, "store")
  /\ UNCHANGED <<queue, logfd, now, msg, sweep, pushed,
                 written, missed, stopAt, restarts, straddled, clobbered, unrenamed, turnedBack>>

(* The file has been renamed since it was opened, or is about to be.       *)
Moves(f, l) == f # dir[l][0] \/ (LogAt(Disk, "rename") /\ msg[Disk].level = l)

StreamStores(c) ==
  LET l == msg[c].level
  IN  /\ Running /\ LogAt(c, "store")
      /\ logfd' = [logfd EXCEPT ![l] = got[c]]
      /\ straddled' = [straddled EXCEPT ![l] = @ \/ (got[c] # Closed /\ Moves(got[c], l))]
      /\ LogGoto(c, IF got[c] = Closed THEN "idle" ELSE "push")
      /\ got' = [got EXCEPT ![c] = Closed]
      /\ UNCHANGED <<queue, diskVars, msg, sweep, fds, pushed,
                     written, missed, stopAt, restarts, clobbered, unrenamed, exhausted, turnedBack>>

StreamPushes(c) ==
  /\ Running /\ LogAt(c, "push")
  /\ Push(msg[c].level)
  /\ LogGoto(c, "idle")
  /\ UNCHANGED <<logfd, diskVars, msg, got, sweep, fds, stopAt, history>>

Caller(c) ==
  \/ StreamOpens(c) \/ StreamStores(c) \/ StreamPushes(c)

------------------------------------------------------------------------------
(* The writing thread: Process and WriteToDisk *)

Pop ==
  /\ LogAt(Disk, "pop")
  /\ queue # <<>>
  /\ queue' = Tail(queue)
  /\ IF Head(queue).id = Stop
     THEN LogGoto(Disk, "exit") /\ UNCHANGED msg
     ELSE /\ msg' = [msg EXCEPT ![Disk] = Head(queue)]
          /\ LogGoto(Disk, IF logfd[Head(queue).level] = Closed THEN "open" ELSE "write")
  /\ UNCHANGED <<logfd, diskVars, got, sweep, fds, pushed, stopAt, history>>

(* A descriptor that a caller has stored meanwhile is overwritten.         *)
DiskOpens ==
  LET l == msg[Disk].level
  IN  /\ LogAt(Disk, "open")
      /\ IF CanOpen
         THEN /\ logfd' = [logfd EXCEPT ![l] = OpenLive(l)]
              /\ Create(l)
              /\ fds' = fds + 1
              /\ LogGoto(Disk, "write")
              /\ UNCHANGED <<missed, exhausted>>
         ELSE /\ logfd' = [logfd EXCEPT ![l] = Closed]
              /\ missed' = missed \cup {msg[Disk].id}
              /\ exhausted' = TRUE
              /\ LogGoto(Disk, "measure")
              /\ UNCHANGED <<dir, content, fds>>
      /\ UNCHANGED <<queue, now, msg, got, sweep, pushed,
                     written, stopAt, restarts, straddled, clobbered, unrenamed, turnedBack>>

(* The loop over write(): the whole message, or an error somewhere in it.  *)
(* The descriptor is read again here; a caller whose open() failed may     *)
(* have closed it in between, and write() fails.                           *)
WriteAll ==
  LET l == msg[Disk].level
  IN  /\ LogAt(Disk, "write")
      /\ logfd[l] # Closed
      /\ content' = [content EXCEPT ![logfd[l]] = Append(@, msg[Disk].id)]
      /\ written' = [written EXCEPT ![l] = Append(@, msg[Disk].id)]
      /\ LogGoto(Disk, "measure")
      /\ UNCHANGED <<queue, logfd, dir, now, msg, got, sweep, fds, pushed,
                     missed, stopAt, restarts, straddled, clobbered, unrenamed, exhausted, turnedBack>>
WriteFails ==
  /\ LogAt(Disk, "write")
  /\ missed' = missed \cup {msg[Disk].id}
  /\ LogGoto(Disk, "measure")
  /\ UNCHANGED <<queue, logfd, diskVars, msg, got, sweep, fds, pushed,
                 written, stopAt, restarts, straddled, clobbered, unrenamed, exhausted, turnedBack>>

MutantTooLong(l) == dir[l][0] # Closed /\ Len(content[dir[l][0]]) > CacheSize + 1

(* The length that counts is that of the file with the live name.          *)
TooLong(l) == dir[l][0] # Closed /\ Len(content[dir[l][0]]) > CacheSize

MutantMeasure ==
  LET l == msg[Disk].level
  IN  /\ LogAt(Disk, "measure")
      /\ IF TooLong(l)
         THEN LogGoto(Disk, "rename")
         ELSE LogGoto(Disk, "pop")
      /\ UNCHANGED <<logfd, fds, queue, diskVars, msg, got, sweep, pushed, stopAt, history>>

Measure ==
  LET l == msg[Disk].level
  IN  /\ LogAt(Disk, "measure")
      /\ IF TooLong(l)
         THEN /\ logfd' = [logfd EXCEPT ![l] = Closed]
              /\ fds' = IF logfd[l] = Closed THEN fds ELSE fds - 1
              /\ LogGoto(Disk, "rename")
         ELSE LogGoto(Disk, "pop") /\ UNCHANGED <<logfd, fds>>
      /\ UNCHANGED <<queue, diskVars, msg, got, sweep, pushed, stopAt, history>>

(* rename() may fail; the result is only printed.                          *)
Moved(l) ==
  /\ dir' = [dir EXCEPT ![l][now] = dir[l][0], ![l][0] = Closed]
  /\ clobbered' = [clobbered EXCEPT ![l] = @ \/ dir[l][now] # Closed]
  /\ UNCHANGED unrenamed
NotMoved(l) ==
  /\ unrenamed' = [unrenamed EXCEPT ![l] = @ + 1]
  /\ UNCHANGED <<dir, clobbered>>

Rename ==
  LET l == msg[Disk].level
  IN  /\ LogAt(Disk, "rename")
      /\ Moved(l) \/ NotMoved(l)
      /\ sweep' = 0
      /\ LogGoto(Disk, "sweep")
      /\ UNCHANGED <<queue, logfd, content, now, msg, got, fds, pushed,
                     written, missed, stopAt, restarts, straddled, exhausted, turnedBack>>

MutantRemoveTimeoutLogFile ==   \* tries again until the directory opens
  /\ LogAt(Disk, "sweep")
  /\ CanOpen
  /\ fds' = fds + 1
  /\ dir' = [dir EXCEPT ![sweep] = Swept(sweep)]
  /\ sweep' = sweep + 1
  /\ LogGoto(Disk, IF sweep + 1 = NumLevels THEN "pop" ELSE "sweep")
  /\ UNCHANGED <<queue, logfd, content, now, msg, got, pushed,
                 written, missed, stopAt, restarts, straddled, clobbered, unrenamed, exhausted, turnedBack>>

(* RemoveTimeoutLogFile, one level at a time.  EnumFilename opens the      *)
(* directory and never closes it; when it cannot, the list is empty.       *)
RemoveTimeoutLogFile ==
  /\ LogAt(Disk, "sweep")
  /\ IF CanOpen
     THEN /\ fds' = fds + 1
          /\ dir' = [dir EXCEPT ![sweep] = Swept(sweep)]
          /\ UNCHANGED exhausted
     ELSE exhausted' = TRUE /\ UNCHANGED <<fds, dir>>
  /\ sweep' = sweep + 1
  /\ LogGoto(Disk, IF sweep + 1 = NumLevels THEN "pop" ELSE "sweep")
  /\ UNCHANGED <<queue, logfd, content, now, msg, got, pushed,
                 written, missed, stopAt, restarts, straddled, clobbered, unrenamed, turnedBack>>

WriteThread ==
  Pop \/ DiskOpens \/ WriteAll \/ WriteFails \/ Measure \/ Rename \/ RemoveTimeoutLogFile

------------------------------------------------------------------------------
(* Shutdown, restart, time *)

MutantDestroyStops ==
  /\ LogAt(Main, "idle")
  /\ queue' = <<[id |-> Stop, level |-> 0]>> \o queue
  /\ stopAt' = pushed
  /\ LogGoto(Main, "join")
  /\ UNCHANGED <<logfd, diskVars, msg, got, sweep, fds, pushed, history>>

(* Destroy queues the message that stops the thread, joins it, and closes  *)
(* the files.                                                              *)
DestroyStops ==
  /\ LogAt(Main, "idle")
  /\ queue' = Append(queue, [id |-> Stop, level |-> 0])
  /\ stopAt' = pushed
  /\ LogGoto(Main, "join")
  /\ UNCHANGED <<logfd, diskVars, msg, got, sweep, fds, pushed, history>>

DestroyCloses ==
  /\ LogAt(Main, "join")
  /\ LogAt(Disk, "exit")
  /\ logfd' = [l \in Levels |-> Closed]
  /\ fds' = fds - Cardinality({l \in Levels : logfd[l] # Closed})
  /\ LogGoto(Main, "destroyed")
  /\ UNCHANGED <<queue, diskVars, msg, got, sweep, pushed, stopAt, history>>

Destroy == DestroyStops \/ DestroyCloses

(* The process dies, or has ended, and a new one starts: the directory is  *)
(* what is left.  What was queued, or popped and not yet written, is gone. *)
Unwritten ==
  {queue[i].id : i \in DOMAIN queue} \cup
  (IF pc[Disk] \in {"open", "write"} THEN {msg[Disk].id} ELSE {})

Restart ==
  /\ restarts < MaxRestarts
  /\ pc' = [t \in Threads |-> IF t = Disk THEN "pop" ELSE "idle"]
  /\ queue' = <<>>
  /\ logfd' = [l \in Levels |-> Closed]
  /\ msg' = [t \in Callers \cup {Disk} |-> NoMessage]
  /\ got' = [c \in Callers |-> Closed]
  /\ sweep' = 0
  /\ fds' = 0
  /\ missed' = missed \cup (Unwritten \ {Stop})
  /\ restarts' = restarts + 1
  /\ UNCHANGED <<diskVars, pushed, stopAt, written, straddled, clobbered, unrenamed, exhausted, turnedBack>>

timeless == <<pc, queue, logfd, dir, content, msg, got, sweep, fds, pushed, stopAt, written,
              missed, restarts, straddled, clobbered, unrenamed, exhausted>>

Tick ==
  /\ now < MaxTime
  /\ now' = now + 1
  /\ UNCHANGED <<timeless, turnedBack>>

(* At the end of summer time, and when the clock is set.                   *)
TurnBack ==
  /\ ~turnedBack
  /\ now > 1
  /\ now' = now - 1
  /\ turnedBack' = TRUE
  /\ UNCHANGED timeless

LogNext ==
  \/ \E c \in Callers, l \in Levels : LogMessage(c, l) \/ StreamFindsClosed(c, l)
  \/ \E c \in Callers : Caller(c)
  \/ WriteThread
  \/ Destroy
  \/ Restart
  \/ Tick \/ TurnBack

(* The writing thread is never kept from running, nor is who joins it.     *)
LogSpec ==
  LogInit /\ [][LogNext]_logVars /\ WF_logVars(WriteThread) /\ WF_logVars(DestroyCloses)

------------------------------------------------------------------------------
(* Properties *)

LogTypes ==
  /\ pc \in [Threads -> {"idle", "pop", "open", "store", "push", "write", "measure",
                         "rename", "sweep", "exit", "join", "destroyed"}]
  /\ queue \in Seq([id : 0 .. MaxMessages, level : Levels])
  /\ content \in Seq(Seq(1 .. MaxMessages))
  /\ logfd \in [Levels -> 0 .. Len(content)]
  /\ dir \in [Levels -> [0 .. MaxTime -> 0 .. Len(content)]]
  /\ now \in 1 .. MaxTime
  /\ msg \in [Callers \cup {Disk} -> [id : 0 .. MaxMessages, level : Levels]]
  /\ got \in [Callers -> 0 .. Len(content)]
  /\ sweep \in 0 .. NumLevels
  /\ fds \in 0 .. FdLimit
  /\ pushed \in 0 .. MaxMessages /\ stopAt \in 0 .. pushed
  /\ written \in [Levels -> Seq(1 .. MaxMessages)]
  /\ missed \subseteq 1 .. MaxMessages /\ restarts \in 0 .. MaxRestarts
  /\ straddled \in [Levels -> BOOLEAN] /\ clobbered \in [Levels -> BOOLEAN]
  /\ unrenamed \in [Levels -> Nat]
  /\ exhausted \in BOOLEAN /\ turnedBack \in BOOLEAN

(* Type correctness; every descriptor that is stored names a file, and no  *)
(* more are open than the process may have (open() at 218, 222, 386, 390). *)
LogTypeOK == LogTypes /\ Cardinality({l \in Levels : logfd[l] # Closed}) <= fds

(* What the directory holds of a level, oldest file first.                 *)
InFile(l, t) == IF dir[l][t] = Closed THEN <<>> ELSE content[dir[l][t]]
OnDisk(l) ==
  LET renamed[t \in 0 .. MaxTime] == IF t = 0 THEN <<>> ELSE renamed[t - 1] \o InFile(l, t)
  IN  renamed[MaxTime] \o InFile(l, 0)

(* Rotation (249-268 with 135-176) never tears a hole into the log: over   *)
(* renamings, removals, failing writes and restarts, the files of a level  *)
(* hold, in the order of their names, the last messages written, and at    *)
(* least as many as m_CacheFileNum files have.  Excepted are a clock put   *)
(* back, which makes the sweep take new files for old ones, two renamings  *)
(* in one second, of which the second replaces what the first has saved,   *)
(* and a file that was opened under one name and stored under another.     *)
RecentMessagesAreKept ==
  \A l \in Levels : ~straddled[l] /\ ~clobbered[l] /\ ~turnedBack =>
    /\ IsSuffix(OnDisk(l), written[l])
    /\ \/ OnDisk(l) = written[l]
       \/ Len(OnDisk(l)) >= CacheFileNum * (CacheSize + 1)

(* What is written goes to the file with the live name, whose length alone *)
(* decides on rotation (249-254), although callers open and store          *)
(* descriptors while it is closed and renamed (384-398): unless one of     *)
(* them opened before a renaming and stored after it.                      *)
DescriptorIsLive ==
  \A l \in Levels : ~straddled[l] => logfd[l] \in {Closed, dir[l][0]}

(* A file is renamed with the first message that makes it too long, also   *)
(* when its messages come from several processes: a process that dies in   *)
(* front of its test leaves one message to the next (254).  A renaming     *)
(* that fails leaves the file to grow (264), but by one message only: the  *)
(* next one is followed by another attempt.                                *)
FilesStayShort ==
  \A l \in Levels : ~straddled[l] =>
    \A t \in 0 .. MaxTime : Len(InFile(l, t)) <= CacheSize + 1 + restarts + unrenamed[l]

(* While directories can be opened, at most m_CacheFileNum renamed files   *)
(* stay, one more while the sweep is due, and one more for every process   *)
(* that died in front of it (166-174).                                     *)
RenamedFilesBounded ==
  \A l \in Levels : ~exhausted =>
    Cardinality(Renamed(l)) <= CacheFileNum + restarts
                               + (IF LogAt(Disk, "sweep") THEN 1 ELSE 0)

Handled(i) == i \in missed \/ \E l \in Levels : i \in ToSet(written[l])

(* When Destroy has returned, every message that was on the queue before   *)
(* its own has been written or has failed to be (623-637).                 *)
ShutdownWritesAll ==
  LogAt(Main, "destroyed") => \A i \in 1 .. stopAt : Handled(i)

(* A message on the queue that is not behind Destroy's is handled, whether *)
(* files can be opened, written and removed or not (274-294).              *)
Waiting(i) ==
  ~LogAt(Disk, "exit") /\
  \E k \in DOMAIN queue : queue[k].id = i /\ \A j \in 1 .. k - 1 : queue[j].id # Stop
EveryMessageIsHandled ==
  \A i \in 1 .. MaxMessages : Waiting(i) ~> Handled(i)

=============================================================================
