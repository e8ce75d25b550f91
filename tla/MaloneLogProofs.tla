--------------------------- MODULE MaloneLogProofs ---------------------------
(* The log, for any number of threads that log, of levels and of messages: *)
(* types and descriptors, where the descriptors lead, the length and the   *)
(* number of the files, that Destroy leaves nothing behind, and that the   *)
(* files hold the last messages written, without a hole.                   *)
EXTENDS MaloneLog, FiniteSetTheorems, SequenceTheorems, NumberLemmas

(* The levels whose file is open, and the callers that have opened a file  *)
(* and not stored its descriptor yet.                                      *)
OpenLevels == {l \in Levels : logfd[l] # Closed}
OpenCallers == {c \in Callers : got[c] # Closed}

(* Each thread keeps to its part of the program; the writing thread has a  *)
(* message in hand until it has written it.                                *)
LabelInv ==
  /\ \A c \in Callers : pc[c] \in {"idle", "open", "store", "push"}
  /\ \A c \in Callers : got[c] # Closed => pc[c] = "store"
  /\ pc[Disk] \in {"pop", "open", "write", "measure", "rename", "sweep", "exit"}
  /\ pc[Disk] \in {"open", "write"} => msg[Disk].id # Stop
  /\ pc[Disk] = "sweep" => sweep < NumLevels
  /\ pc[Main] \in {"idle", "join", "destroyed"}

(* Every stored descriptor, and every one that a caller is about to store, *)
(* is one of those that are open.                                          *)
FdInv == Cardinality(OpenLevels) + Cardinality(OpenCallers) <= fds

(* A file has one name, and descriptors of a level lead to its own files.  *)
NamesApart ==
  \A l, m \in Levels, t, u \in 0 .. MaxTime :
    dir[l][t] # Closed /\ dir[l][t] = dir[m][u] => l = m /\ t = u
StoredApart ==
  \A l, m \in Levels, t \in 0 .. MaxTime :
    logfd[l] # Closed /\ logfd[l] = dir[m][t] => l = m
OpenedApart ==
  \A c \in Callers, m \in Levels, t \in 0 .. MaxTime :
    got[c] # Closed /\ got[c] = dir[m][t] => msg[c].level = m
ApartInv == NamesApart /\ StoredApart /\ OpenedApart

(* A file is closed when it is renamed.                                    *)
RenameInv ==
  LogAt(Disk, "rename") /\ ~straddled[msg[Disk].level] => logfd[msg[Disk].level] = Closed

(* Only the file that has just been written may be too long by one, beside *)
(* what processes before this one and failed renamings have left.          *)
Overlong(l) == IF pc[Disk] \in {"measure", "rename"} /\ msg[Disk].level = l THEN 1 ELSE 0
Excess(l) == restarts + unrenamed[l]
LengthInv ==
  \A l \in Levels : ~straddled[l] =>
    /\ Len(InFile(l, 0)) <= CacheSize + Excess(l) + Overlong(l)
    /\ \A t \in 1 .. MaxTime : Len(InFile(l, t)) <= CacheSize + 1 + Excess(l)

(* Only a level the sweep has not come to may have a file too many.        *)
Unswept(l) == IF LogAt(Disk, "sweep") /\ sweep <= l THEN 1 ELSE 0
SweepInv ==
  ~exhausted => \A l \in Levels :
    Cardinality(Renamed(l)) <= CacheFileNum + restarts + Unswept(l)

(* A message is handled, on the queue, or in the writing thread's hand.    *)
IsQueued(i) == \E k \in DOMAIN queue : queue[k].id = i
AccountInv ==
  \A i \in 1 .. pushed :
    Handled(i) \/ IsQueued(i) \/ (pc[Disk] \in {"open", "write"} /\ msg[Disk].id = i)

(* Destroy's message is on the queue until it stops the writing thread,    *)
(* and what is behind it was pushed after it.                              *)
NoStop == \A k \in DOMAIN queue : queue[k].id # Stop
OnlyLater == \A k \in DOMAIN queue : queue[k].id > stopAt
StopIsAt(k) ==
  /\ k \in DOMAIN queue /\ queue[k].id = Stop
  /\ \A j \in DOMAIN queue : j # k => queue[j].id # Stop
  /\ \A j \in DOMAIN queue : j > k => queue[j].id > stopAt
StopInv ==
  /\ LogAt(Main, "idle") => ~LogAt(Disk, "exit") /\ NoStop
  /\ LogAt(Disk, "exit") => OnlyLater
  /\ ~LogAt(Main, "idle") /\ ~LogAt(Disk, "exit") =>
       LogAt(Main, "join") /\ \E k \in Nat : StopIsAt(k)

LogInv ==
  /\ LogTypes /\ LabelInv /\ FdInv /\ ApartInv /\ DescriptorIsLive /\ RenameInv
  /\ LengthInv /\ SweepInv /\ AccountInv /\ StopInv

------------------------------------------------------------------------------
(* Types *)

Message == [id : 0 .. MaxMessages, level : Levels]
Labels == {"idle", "pop", "open", "store", "push", "write", "measure",
           "rename", "sweep", "exit", "join", "destroyed"}

(* The parameters, and what the definitions of small numbers stand for.    *)
LEMMA Parameters ==
  /\ NumLevels \in Nat \ {0} /\ MaxTime \in Nat \ {0}
  /\ CacheSize \in Nat /\ CacheFileNum \in Nat /\ FdLimit \in Nat
  /\ MaxMessages \in Nat /\ MaxRestarts \in Nat
  /\ Disk \notin Callers /\ Main \notin Callers /\ Disk # Main
  /\ Closed = 0 /\ Stop = 0 /\ 0 \in Levels /\ Levels \subseteq Nat
  /\ IsFiniteSet(Callers)
BY LogAssumption DEF Levels, Closed, Stop

(* Create gives the level's live name a file, the one that OpenLive names, *)
(* and does not touch the others.                                          *)
Created(l) ==
  /\ content' \in Seq(Seq(1 .. MaxMessages))
  /\ Len(content) \in Nat /\ Len(content') \in Nat /\ Len(content) <= Len(content')
  /\ dir' \in [Levels -> [0 .. MaxTime -> 0 .. Len(content')]]
  /\ dir'[l][0] = OpenLive(l) /\ OpenLive(l) \in 1 .. Len(content')
  /\ \A m \in Levels, t \in 0 .. MaxTime : (m # l \/ t # 0) => dir'[m][t] = dir[m][t]
  /\ \A i \in 1 .. Len(content) : content'[i] = content[i]
  /\ dir[l][0] # Closed => UNCHANGED <<dir, content>>
  /\ dir[l][0] = Closed => OpenLive(l) = Len(content) + 1 /\ content'[OpenLive(l)] = <<>>

LEMMA CreateIs ==
  ASSUME LogTypes, NEW l \in Levels, Create(l)
  PROVE  Created(l)
<1> DEFINE n == Len(content)
<1>1. content \in Seq(Seq(1 .. MaxMessages)) /\ dir \in [Levels -> [0 .. MaxTime -> 0 .. n]]
  BY DEF LogTypes
<1>2. n \in Nat /\ 0 \in 0 .. MaxTime
  BY <1>1, Parameters
<1>3. Append(content, <<>>) \in Seq(Seq(1 .. MaxMessages)) /\ Len(Append(content, <<>>)) = n + 1
      /\ Append(content, <<>>)[n + 1] = <<>>
      /\ \A i \in 1 .. n : Append(content, <<>>)[i] = content[i]
  BY <1>1
<1>4. CASE dir[l][0] # Closed
  <2>1. UNCHANGED <<dir, content>> /\ OpenLive(l) = dir[l][0]
    BY <1>4 DEF Create, OpenLive
  <2>2. dir[l][0] \in 1 .. n
    <3> HIDE DEF n
    <3>1. dir[l][0] \in 0 .. n
      BY <1>1, <1>2
    <3> QED
      BY <1>2, <1>4, <3>1 DEF Closed
  <2> QED
    BY <1>1, <1>2, <1>4, <2>1, <2>2 DEF Created
<1>5. CASE dir[l][0] = Closed
  <2>1. /\ dir' = [dir EXCEPT ![l][0] = n + 1] /\ content' = Append(content, <<>>)
        /\ OpenLive(l) = n + 1
    BY <1>5 DEF Create, OpenLive
  <2>2. n = Len(content)
    OBVIOUS
  <2> HIDE DEF n
  <2>3. n + 1 \in Nat /\ n <= n + 1 /\ n + 1 \in 1 .. n + 1 /\ 0 .. n \subseteq 0 .. n + 1
        /\ n + 1 \in 0 .. n + 1
    BY <1>2
  <2>4. /\ dir' \in [Levels -> [0 .. MaxTime -> 0 .. n + 1]] /\ dir'[l][0] = n + 1
        /\ \A m \in Levels, t \in 0 .. MaxTime : (m # l \/ t # 0) => dir'[m][t] = dir[m][t]
    <3> DEFINE S == 0 .. n
               T == 0 .. n + 1
               I == 0 .. MaxTime
               x == n + 1
    <3>1. dir \in [Levels -> [I -> S]] /\ S \subseteq T /\ 0 \in I /\ x \in T
      BY <1>1, <1>2, <2>3
    <3> HIDE DEF S, T, I, x
    <3>2. dir' = [dir EXCEPT ![l][0] = x]
      BY <2>1 DEF x
    <3>3. dir' \in [Levels -> [I -> T]] /\ dir'[l][0] = x
      BY <3>1, <3>2
    <3>4. \A m \in Levels, t \in I : (m # l \/ t # 0) => dir'[m][t] = dir[m][t]
      BY <3>1, <3>2
    <3> QED
      BY <3>3, <3>4 DEF T, I, x
  <2>5. Len(content') = n + 1
    BY <1>3, <2>1
  <2> QED
    BY <1>2, <1>3, <1>5, <2>1, <2>2, <2>3, <2>4, <2>5 DEF Created
<1> QED
  BY <1>4, <1>5

(* There are finitely many levels, and so finitely many open files.        *)
LEMMA OpenLevelsAreFinite ==
  /\ IsFiniteSet(Levels)
  /\ IsFiniteSet(OpenLevels) /\ Cardinality(OpenLevels) \in Nat
<1>1. IsFiniteSet(Levels)
  <2>1. 0 \in Int /\ NumLevels - 1 \in Int
    BY Parameters
  <2>2. IsFiniteSet(0 .. NumLevels - 1)
    BY <2>1, FS_Interval
  <2> QED
    BY <2>2 DEF Levels
<1>2. OpenLevels \in SUBSET Levels
  BY DEF OpenLevels
<1>3. IsFiniteSet(OpenLevels)
  BY <1>1, <1>2, FS_Subset
<1> QED
  BY <1>1, <1>3, FS_CardinalityType

(* There is room for the descriptor that open() returns.                   *)
LEMMA RoomForOne ==
  ASSUME LogTypes, CanOpen
  PROVE  fds + 1 \in 0 .. FdLimit /\ fds \in Nat
BY Parameters DEF LogTypes, CanOpen

(* Every step keeps the types.                                             *)
LEMMA TypeStep ==
  ASSUME LogTypes, LabelInv, Cardinality(OpenLevels) <= fds, [LogNext]_logVars
  PROVE  LogTypes'
<1> USE Parameters
<1>types. /\ pc \in [Threads -> Labels] /\ queue \in Seq(Message)
          /\ content \in Seq(Seq(1 .. MaxMessages)) /\ Len(content) \in Nat
          /\ logfd \in [Levels -> 0 .. Len(content)]
          /\ dir \in [Levels -> [0 .. MaxTime -> 0 .. Len(content)]]
          /\ now \in 1 .. MaxTime /\ msg \in [Callers \cup {Disk} -> Message]
          /\ got \in [Callers -> 0 .. Len(content)] /\ sweep \in 0 .. NumLevels
          /\ fds \in 0 .. FdLimit /\ pushed \in 0 .. MaxMessages /\ stopAt \in 0 .. pushed
          /\ written \in [Levels -> Seq(1 .. MaxMessages)]
          /\ missed \subseteq 1 .. MaxMessages /\ restarts \in 0 .. MaxRestarts
          /\ straddled \in [Levels -> BOOLEAN] /\ clobbered \in [Levels -> BOOLEAN]
          /\ unrenamed \in [Levels -> Nat]
          /\ exhausted \in BOOLEAN /\ turnedBack \in BOOLEAN
  <2>1. content \in Seq(Seq(1 .. MaxMessages))
    BY DEF LogTypes
  <2>2. Len(content) \in Nat
    BY <2>1
  <2> QED
    BY <2>2 DEF LogTypes, Labels, Message
<1>threads. Threads = Callers \cup {Disk, Main} /\ Callers \subseteq Threads
  BY DEF Threads
<1>goto. \A t \in Threads, label \in Labels : [pc EXCEPT ![t] = label] \in [Threads -> Labels]
  BY <1>types
<1>labels. {"idle", "pop", "open", "store", "push", "write", "measure", "rename", "sweep", "join",
            "exit", "destroyed"} \subseteq Labels
  BY DEF Labels
<1>push. ASSUME NEW l \in Levels, Push(l)
         PROVE  /\ queue' \in Seq(Message) /\ pushed' \in 0 .. MaxMessages
                /\ (stopAt' = stopAt => stopAt' \in 0 .. pushed')
  <2>1. /\ pushed < MaxMessages /\ pushed' = pushed + 1
        /\ queue' = Append(queue, [id |-> pushed + 1, level |-> l])
    BY <1>push DEF Push
  <2>2. [id |-> pushed + 1, level |-> l] \in Message
    BY <1>types, <2>1 DEF Message
  <2>3. queue' \in Seq(Message)
    BY <1>types, <2>1, <2>2
  <2>4. pushed' \in 0 .. MaxMessages /\ 0 .. pushed \subseteq 0 .. pushed'
    BY <1>types, <2>1
  <2> QED
    BY <1>types, <2>3, <2>4
<1>1. ASSUME NEW c \in Callers, NEW l \in Levels, LogMessage(c, l) PROVE LogTypes'
  <2>1. /\ Push(l) /\ UNCHANGED <<pc, logfd, dir, content, now, msg, got, sweep, fds, stopAt,
                                  written, missed, restarts, straddled, clobbered, unrenamed, exhausted, turnedBack>>
    BY <1>1 DEF LogMessage, diskVars, history
  <2> QED
    BY <1>push, <1>types, <2>1 DEF LogTypes, Labels, Message
<1>2. ASSUME NEW c \in Callers, NEW l \in Levels, StreamFindsClosed(c, l) PROVE LogTypes'
  <2>1. /\ msg' = [msg EXCEPT ![c].level = l] /\ pc' = [pc EXCEPT ![c] = "open"]
        /\ UNCHANGED <<queue, logfd, dir, content, now, got, sweep, fds, pushed, stopAt,
                       written, missed, restarts, straddled, clobbered, unrenamed, exhausted, turnedBack>>
    BY <1>2 DEF StreamFindsClosed, LogGoto, diskVars, history
  <2>2. msg' \in [Callers \cup {Disk} -> Message]
    <3> DEFINE L == Levels
               I == 0 .. MaxMessages
               T == Callers \cup {Disk}
    <3>1. msg \in [T -> [id : I, level : L]] /\ l \in L /\ c \in T
      BY <1>types DEF Message
    <3> HIDE DEF L, I, T
    <3>2. msg' \in [T -> [id : I, level : L]]
      BY <2>1, <3>1
    <3> QED
      BY <3>2 DEF Message, L, I, T
  <2>3. pc' \in [Threads -> Labels]
    BY <1>goto, <1>labels, <1>threads, <2>1
  <2> QED
    BY <1>types, <2>1, <2>2, <2>3 DEF LogTypes, Labels, Message
<1>3. ASSUME NEW c \in Callers, StreamOpens(c) PROVE LogTypes'
  <2>1. /\ pc' = [pc EXCEPT ![c] = "store"]
        /\ UNCHANGED <<queue, logfd, now, msg, sweep, pushed, written, missed, stopAt,
                       restarts, straddled, clobbered, unrenamed, turnedBack>>
    BY <1>3 DEF StreamOpens, LogGoto
  <2>2. pc' \in [Threads -> Labels]
    BY <1>types, <2>1 DEF Labels
  <2>3. CASE CanOpen
    <3> DEFINE l == msg[c].level
    <3>1. l \in Levels
      BY <1>types DEF Message
    <3>2. /\ Create(l) /\ got' = [got EXCEPT ![c] = OpenLive(l)] /\ fds' = fds + 1
          /\ UNCHANGED exhausted
      BY <1>3, <2>3 DEF StreamOpens
    <3>3. Created(l)
      BY <3>1, <3>2, CreateIs
    <3> DEFINE m == Len(content)
               n == Len(content')
    <3>4. /\ content' \in Seq(Seq(1 .. MaxMessages)) /\ OpenLive(l) \in 1 .. n
          /\ m \in Nat /\ n \in Nat /\ m <= n
          /\ dir' \in [Levels -> [0 .. MaxTime -> 0 .. n]]
      BY <3>3 DEF Created
    <3> HIDE DEF m, n
    <3>5. logfd' \in [Levels -> 0 .. n] /\ got' \in [Callers -> 0 .. n]
      <4>1. logfd' \in [Levels -> 0 .. m] /\ got \in [Callers -> 0 .. m]
        BY <1>types, <2>1 DEF m
      <4>2. 0 .. m \subseteq 0 .. n /\ OpenLive(l) \in 0 .. n
        BY <3>4
      <4> QED
        BY <3>2, <4>1, <4>2
    <3>6. fds' \in 0 .. FdLimit
      BY <2>3, <3>2, RoomForOne
    <3> QED
      BY <1>types, <2>1, <2>2, <3>2, <3>4, <3>5, <3>6 DEF LogTypes, Labels, Message, n
  <2>4. CASE ~CanOpen
    <3>1. /\ got' = [got EXCEPT ![c] = Closed] /\ exhausted' = TRUE
          /\ UNCHANGED <<dir, content, fds>>
      BY <1>3, <2>4 DEF StreamOpens
    <3>2. got' \in [Callers -> 0 .. Len(content)]
      BY <1>types, <3>1
    <3> QED
      BY <1>types, <2>1, <2>2, <3>1, <3>2 DEF LogTypes, Labels, Message
  <2> QED
    BY <2>3, <2>4
<1>4. ASSUME NEW c \in Callers, StreamStores(c) PROVE LogTypes'
  <2> DEFINE l == msg[c].level
  <2>1. /\ logfd' = [logfd EXCEPT ![l] = got[c]] /\ got' = [got EXCEPT ![c] = Closed]
        /\ straddled' = [straddled EXCEPT ![l] = @ \/ (got[c] # Closed /\ Moves(got[c], l))]
        /\ pc' = [pc EXCEPT ![c] = IF got[c] = Closed THEN "idle" ELSE "push"]
        /\ UNCHANGED <<queue, dir, content, now, msg, sweep, fds, pushed,
                       written, missed, stopAt, restarts, clobbered, unrenamed, exhausted, turnedBack>>
    BY <1>4 DEF StreamStores, LogGoto, diskVars
  <2>2. l \in Levels
    BY <1>types DEF Message
  <2>3. pc' \in [Threads -> Labels]
    <3>1. (IF got[c] = Closed THEN "idle" ELSE "push") \in Labels
      BY <1>labels
    <3> QED
      BY <1>goto, <1>threads, <2>1, <3>1
  <2>4. straddled' \in [Levels -> BOOLEAN]
    <3> DEFINE b == straddled[l] \/ (got[c] # Closed /\ Moves(got[c], l))
    <3>1. b \in BOOLEAN /\ straddled' = [straddled EXCEPT ![l] = b]
      BY <2>1
    <3> HIDE DEF b
    <3> QED
      BY <1>types, <3>1
  <2> HIDE DEF l
  <2>5. logfd' \in [Levels -> 0 .. Len(content)] /\ got' \in [Callers -> 0 .. Len(content)]
    BY <1>types, <2>1, <2>2
  <2> QED
    BY <1>types, <2>1, <2>3, <2>4, <2>5 DEF LogTypes, Labels, Message
<1>5. ASSUME NEW c \in Callers, StreamPushes(c) PROVE LogTypes'
  <2>1. /\ Push(msg[c].level) /\ pc' = [pc EXCEPT ![c] = "idle"]
        /\ UNCHANGED <<logfd, dir, content, now, msg, got, sweep, fds, stopAt,
                       written, missed, restarts, straddled, clobbered, unrenamed, exhausted, turnedBack>>
    BY <1>5 DEF StreamPushes, LogGoto, diskVars, history
  <2>2. pc' \in [Threads -> Labels] /\ msg[c].level \in Levels
    BY <1>types, <2>1 DEF Labels, Message
  <2>3. queue' \in Seq(Message) /\ pushed' \in 0 .. MaxMessages /\ stopAt' \in 0 .. pushed'
    BY <1>push, <2>1, <2>2
  <2> QED
    BY <1>types, <2>1, <2>2, <2>3 DEF LogTypes, Labels, Message
<1>6. CASE Pop
  <2>1. /\ queue # <<>> /\ queue' = Tail(queue)
        /\ UNCHANGED <<logfd, dir, content, now, got, sweep, fds, pushed, stopAt,
                       written, missed, restarts, straddled, clobbered, unrenamed, exhausted, turnedBack>>
    BY <1>6 DEF Pop, diskVars, history
  <2>2. queue' \in Seq(Message) /\ Head(queue) \in Message
    BY <1>types, <2>1
  <2> DEFINE h == Head(queue)
  <2> HIDE DEF h
  <2>4. CASE h.id = Stop
    <3>1. pc' = [pc EXCEPT ![Disk] = "exit"] /\ msg' = msg
      BY <1>6, <2>4 DEF Pop, LogGoto, h
    <3> QED
      BY <1>goto, <1>labels, <1>threads, <1>types, <2>1, <2>2, <3>1 DEF LogTypes, Labels, Message
  <2>5. CASE h.id # Stop
    <3>1. /\ pc' = [pc EXCEPT ![Disk] = IF logfd[h.level] = Closed THEN "open" ELSE "write"]
          /\ msg' = [msg EXCEPT ![Disk] = h]
      BY <1>6, <2>5 DEF Pop, LogGoto, h
    <3>2. (IF logfd[h.level] = Closed THEN "open" ELSE "write") \in Labels
      BY <1>labels
    <3>3. pc' \in [Threads -> Labels] 
      BY <1>goto, <1>threads, <3>1, <3>2
    <3>4. msg' \in [Callers \cup {Disk} -> Message]
      BY <1>types, <2>2, <3>1 DEF h
    <3> QED
      BY <1>types, <2>1, <2>2, <3>3, <3>4 DEF LogTypes, Labels, Message
  <2> QED
    BY <2>4, <2>5
<1>7. CASE DiskOpens
  <2> DEFINE l == msg[Disk].level
  <2>1. l \in Levels /\ msg[Disk].id \in 0 .. MaxMessages
    BY <1>types DEF Message
  <2>2. /\ pc[Disk] = "open"
        /\ UNCHANGED <<queue, now, msg, got, sweep, pushed, written, stopAt, restarts,
                       straddled, clobbered, unrenamed, turnedBack>>
    BY <1>7 DEF DiskOpens, LogAt
  <2>3. CASE CanOpen
    <3>2. /\ Create(l) /\ logfd' = [logfd EXCEPT ![l] = OpenLive(l)] /\ fds' = fds + 1
          /\ pc' = [pc EXCEPT ![Disk] = "write"] /\ UNCHANGED <<missed, exhausted>>
      BY <1>7, <2>3 DEF DiskOpens, LogGoto
    <3>3. Created(l)
      BY <2>1, <3>2, CreateIs
    <3> DEFINE m == Len(content)
               n == Len(content')
    <3>4. /\ content' \in Seq(Seq(1 .. MaxMessages)) /\ OpenLive(l) \in 1 .. n
          /\ m \in Nat /\ n \in Nat /\ m <= n
          /\ dir' \in [Levels -> [0 .. MaxTime -> 0 .. n]]
      BY <3>3 DEF Created
    <3> HIDE DEF m, n, l
    <3>5. logfd' \in [Levels -> 0 .. n] /\ got' \in [Callers -> 0 .. n]
      <4>1. logfd \in [Levels -> 0 .. m] /\ got' \in [Callers -> 0 .. m]
        BY <1>types, <2>2 DEF m
      <4>2. 0 .. m \subseteq 0 .. n /\ OpenLive(l) \in 0 .. n
        BY <3>4
      <4> QED
        BY <3>2, <4>1, <4>2
    <3>6. fds' \in 0 .. FdLimit
      BY <2>3, <3>2, RoomForOne
    <3>7. pc' \in [Threads -> Labels]
      BY <1>types, <3>2 DEF Labels
    <3> QED
      BY <1>types, <2>2, <3>2, <3>4, <3>5, <3>6, <3>7 DEF LogTypes, Labels, Message, n
  <2>4. CASE ~CanOpen
    <3>1. /\ logfd' = [logfd EXCEPT ![l] = Closed] /\ exhausted' = TRUE
          /\ missed' = missed \cup {msg[Disk].id} /\ pc' = [pc EXCEPT ![Disk] = "measure"]
          /\ UNCHANGED <<dir, content, fds>>
      BY <1>7, <2>4 DEF DiskOpens, LogGoto
    <3>2. pc' \in [Threads -> Labels]
      BY <1>goto, <1>labels, <1>threads, <3>1
    <3>3. msg[Disk].id \in 1 .. MaxMessages
      BY <2>1, <2>2 DEF LabelInv
    <3>4. missed' \subseteq 1 .. MaxMessages
      BY <1>types, <3>1, <3>3
    <3> HIDE DEF l
    <3>5. logfd' \in [Levels -> 0 .. Len(content)]
      <4>1. 0 \in 0 .. Len(content)
        BY <1>types
      <4> QED
        BY <1>types, <2>1, <3>1, <4>1
    <3> QED
      BY <1>types, <2>2, <3>1, <3>2, <3>4, <3>5 DEF LogTypes, Labels, Message
  <2> QED
    BY <2>3, <2>4
<1>8. CASE WriteAll
  <2> DEFINE l == msg[Disk].level
             i == msg[Disk].id
             f == logfd[l]
  <2>1. l \in Levels /\ i \in 1 .. MaxMessages
    <3>1. l \in Levels /\ i \in 0 .. MaxMessages
      BY <1>types DEF Message
    <3> QED
      BY <1>8, <3>1 DEF WriteAll, LogAt, LabelInv
  <2>2. /\ f # Closed /\ content' = [content EXCEPT ![f] = Append(@, i)]
        /\ written' = [written EXCEPT ![l] = Append(@, i)] /\ pc' = [pc EXCEPT ![Disk] = "measure"]
        /\ UNCHANGED <<queue, logfd, dir, now, msg, got, sweep, fds, pushed, missed, stopAt,
                       restarts, straddled, clobbered, unrenamed, exhausted, turnedBack>>
    BY <1>8 DEF WriteAll, LogGoto
  <2>3. f \in 1 .. Len(content)
    <3>1. f \in 0 .. Len(content)
      BY <1>types, <2>1
    <3> QED
      BY <1>types, <2>2, <3>1
  <2> HIDE DEF f, l, i
  <2>4. content' \in Seq(Seq(1 .. MaxMessages)) /\ Len(content') = Len(content)
    <3>1. content[f] \in Seq(1 .. MaxMessages)
      BY <1>types, <2>3
    <3>2. Append(content[f], i) \in Seq(1 .. MaxMessages)
      BY <2>1, <3>1
    <3> QED
      BY <1>types, <2>2, <2>3, <3>2
  <2>5. pc' \in [Threads -> Labels]
    BY <1>goto, <1>labels, <1>threads, <2>2
  <2>6. written' \in [Levels -> Seq(1 .. MaxMessages)]
    <3>1. Append(written[l], i) \in Seq(1 .. MaxMessages)
      BY <1>types, <2>1
    <3> QED
      BY <1>types, <2>1, <2>2, <3>1
  <2> QED
    BY <1>types, <2>2, <2>4, <2>5, <2>6 DEF LogTypes, Labels, Message
<1>9. CASE WriteFails
  <2>1. /\ missed' = missed \cup {msg[Disk].id} /\ pc' = [pc EXCEPT ![Disk] = "measure"]
        /\ UNCHANGED <<queue, logfd, dir, content, now, msg, got, sweep, fds, pushed,
                       written, stopAt, restarts, straddled, clobbered, unrenamed, exhausted, turnedBack>>
    BY <1>9 DEF WriteFails, LogGoto, diskVars
  <2>2. msg[Disk].id \in 1 .. MaxMessages
    <3>1. msg[Disk].id \in 0 .. MaxMessages
      BY <1>types DEF Message
    <3> QED
      BY <1>9, <3>1 DEF WriteFails, LogAt, LabelInv
  <2>3. pc' \in [Threads -> Labels] /\ missed' \subseteq 1 .. MaxMessages
    BY <1>types, <2>1, <2>2 DEF Labels
  <2> QED
    BY <1>types, <2>1, <2>3 DEF LogTypes, Labels, Message
<1>10. CASE Measure
  <2> DEFINE l == msg[Disk].level
  <2>1. /\ UNCHANGED <<queue, dir, content, now, msg, got, sweep, pushed, stopAt,
                       written, missed, restarts, straddled, clobbered, unrenamed, exhausted, turnedBack>>
        /\ l \in Levels
    BY <1>10, <1>types DEF Measure, diskVars, history, Message
  <2>2. pc' \in [Threads -> Labels]
    BY <1>10, <1>types DEF Measure, LogGoto, Labels
  <2>3. logfd' \in [Levels -> 0 .. Len(content)]
    <3>1. logfd' = logfd \/ logfd' = [logfd EXCEPT ![l] = Closed]
      BY <1>10 DEF Measure
    <3>2. 0 \in 0 .. Len(content)
      BY <1>types
    <3> HIDE DEF l
    <3> QED
      BY <1>types, <2>1, <3>1, <3>2
  <2>4. fds' \in 0 .. FdLimit
    <3>1. fds' = fds \/ (fds' = fds - 1 /\ logfd[l] # Closed)
      BY <1>10 DEF Measure
    <3>2. logfd[l] # Closed => fds # 0
      <4> SUFFICES ASSUME logfd[l] # Closed PROVE fds # 0
        OBVIOUS
      <4>1. l \in OpenLevels
        BY <2>1 DEF OpenLevels
      <4>3. IsFiniteSet(OpenLevels) /\ Cardinality(OpenLevels) \in Nat
        BY OpenLevelsAreFinite
      <4>4. Cardinality(OpenLevels) # 0
        BY <4>1, <4>3, FS_EmptySet
      <4> QED
        BY <4>3, <4>4
    <3> QED
      BY <1>types, <3>1, <3>2
  <2> QED
    BY <1>types, <2>1, <2>2, <2>3, <2>4 DEF LogTypes, Labels, Message
<1>11. CASE Rename /\ Moved(msg[Disk].level)
  <2> DEFINE l == msg[Disk].level
  <2>1. /\ dir' = [dir EXCEPT ![l][now] = dir[l][0], ![l][0] = Closed]
        /\ clobbered' = [clobbered EXCEPT ![l] = @ \/ dir[l][now] # Closed]
        /\ sweep' = 0 /\ pc' = [pc EXCEPT ![Disk] = "sweep"]
        /\ UNCHANGED <<queue, logfd, content, now, msg, got, fds, pushed,
                       written, missed, stopAt, restarts, straddled, unrenamed, exhausted, turnedBack>>
    BY <1>11 DEF Rename, Moved, LogGoto
  <2>2. l \in Levels
    BY <1>types DEF Message
  <2>3. pc' \in [Threads -> Labels]
    BY <1>types, <2>1 DEF Labels
  <2>4. clobbered' \in [Levels -> BOOLEAN]
    <3> DEFINE b == clobbered[l] \/ dir[l][now] # Closed
    <3>1. b \in BOOLEAN /\ clobbered' = [clobbered EXCEPT ![l] = b]
      BY <2>1
    <3> HIDE DEF b, l
    <3> QED
      BY <1>types, <3>1
  <2> HIDE DEF l
  <2>5. dir' \in [Levels -> [0 .. MaxTime -> 0 .. Len(content)]]
    <3> DEFINE F == 0 .. Len(content)
               I == 0 .. MaxTime
    <3>0. 0 \in I /\ now \in I /\ 0 \in F
      BY <1>types
    <3>1. dir \in [Levels -> [I -> F]] /\ 0 \in I /\ now \in I /\ 0 \in F
      BY <1>types, <3>0
    <3> HIDE DEF F, I
    <3>2. dir[l][0] \in F
      BY <2>2, <3>1
    <3>3. dir' \in [Levels -> [I -> F]]
      BY <2>1, <2>2, <3>1, <3>2
    <3> QED
      BY <3>3 DEF F, I
  <2>6. sweep' \in 0 .. NumLevels
    BY <2>1
  <2> QED
    BY <1>types, <2>1, <2>3, <2>4, <2>5, <2>6 DEF LogTypes, Labels, Message
<1>19. CASE Rename /\ NotMoved(msg[Disk].level)
  <2>1. /\ unrenamed' = [unrenamed EXCEPT ![msg[Disk].level] = @ + 1]
        /\ sweep' = 0 /\ pc' = [pc EXCEPT ![Disk] = "sweep"]
        /\ UNCHANGED <<queue, logfd, dir, content, now, msg, got, fds, pushed,
                       written, missed, stopAt, restarts, straddled, clobbered, exhausted, turnedBack>>
    BY <1>19 DEF Rename, NotMoved, LogGoto
  <2>2. pc' \in [Threads -> Labels]
    BY <1>types, <2>1 DEF Labels
  <2>3. sweep' \in 0 .. NumLevels
    BY <2>1, Parameters
  <2>4. unrenamed' \in [Levels -> Nat]
    <3>1. unrenamed \in [Levels -> Nat] /\ Disk \in Callers \cup {Disk}
      BY <1>types
    <3> DEFINE k == msg[Disk].level
    <3>2. unrenamed' = [unrenamed EXCEPT ![k] = unrenamed[k] + 1]
      BY <2>1
    <3>3. k \in Levels
      BY <1>types, <3>1 DEF LogTypes, Message
    <3> HIDE DEF k
    <3>4. unrenamed[k] + 1 \in Nat
      BY <3>1, <3>3
    <3> QED
      BY <3>1, <3>2, <3>4
  <2> QED
    BY <1>types, <2>1, <2>2, <2>3, <2>4 DEF LogTypes, Labels, Message
<1>12. CASE RemoveTimeoutLogFile
  <2>1. /\ sweep' = sweep + 1
        /\ pc' = [pc EXCEPT ![Disk] = IF sweep + 1 = NumLevels THEN "pop" ELSE "sweep"]
        /\ UNCHANGED <<queue, logfd, content, now, msg, got, pushed,
                       written, missed, stopAt, restarts, straddled, clobbered, unrenamed, turnedBack>>
    BY <1>12 DEF RemoveTimeoutLogFile, LogGoto
  <2>2. pc' \in [Threads -> Labels]
    BY <1>types, <2>1 DEF Labels
  <2>3. sweep' \in 0 .. NumLevels
    BY <1>12, <1>types, <2>1 DEF LabelInv, RemoveTimeoutLogFile, LogAt
  <2>4. fds' \in 0 .. FdLimit /\ exhausted' \in BOOLEAN
    BY <1>12, <1>types, RoomForOne DEF RemoveTimeoutLogFile
  <2>5. dir' \in [Levels -> [0 .. MaxTime -> 0 .. Len(content)]]
    <3>1. CASE CanOpen
      <4>1. dir' = [dir EXCEPT ![sweep] = Swept(sweep)] /\ sweep \in Levels
        BY <1>12, <1>types, <3>1 DEF RemoveTimeoutLogFile, LogAt, LabelInv, Levels
      <4>2. Swept(sweep) \in [0 .. MaxTime -> 0 .. Len(content)]
        BY <1>types, <4>1 DEF Swept
      <4> QED
        BY <1>types, <4>1, <4>2
    <3>2. CASE ~CanOpen
      BY <1>12, <1>types, <3>2 DEF RemoveTimeoutLogFile
    <3> QED
      BY <3>1, <3>2
  <2> QED
    BY <1>types, <2>1, <2>2, <2>3, <2>4, <2>5 DEF LogTypes, Labels, Message
<1>13. CASE DestroyStops
  <2>1. /\ queue' = Append(queue, [id |-> Stop, level |-> 0]) /\ stopAt' = pushed
        /\ pc' = [pc EXCEPT ![Main] = "join"]
        /\ UNCHANGED <<logfd, dir, content, now, msg, got, sweep, fds, pushed,
                       written, missed, restarts, straddled, clobbered, unrenamed, exhausted, turnedBack>>
    BY <1>13 DEF DestroyStops, LogGoto, diskVars, history
  <2>2. pc' \in [Threads -> Labels]
    BY <1>types, <2>1 DEF Labels
  <2>3. [id |-> Stop, level |-> 0] \in Message
    BY DEF Message
  <2>4. queue' \in Seq(Message)
    BY <1>types, <2>1, <2>3
  <2>5. pushed \in 0 .. pushed
    BY <1>types
  <2> QED
    BY <1>types, <2>1, <2>2, <2>4, <2>5 DEF LogTypes, Labels, Message
<1>14. CASE DestroyCloses
  <2>1. /\ logfd' = [l \in Levels |-> Closed] /\ fds' = fds - Cardinality(OpenLevels)
        /\ pc' = [pc EXCEPT ![Main] = "destroyed"]
        /\ UNCHANGED <<queue, dir, content, now, msg, got, sweep, pushed, stopAt,
                       written, missed, restarts, straddled, clobbered, unrenamed, exhausted, turnedBack>>
    BY <1>14 DEF DestroyCloses, LogGoto, diskVars, history, OpenLevels
  <2>2. pc' \in [Threads -> Labels]
    BY <1>types, <2>1 DEF Labels
  <2>3. logfd' \in [Levels -> 0 .. Len(content)]
    BY <1>types, <2>1
  <2>4. Cardinality(OpenLevels) \in Nat
    BY OpenLevelsAreFinite
  <2>5. fds' \in 0 .. FdLimit
    BY <1>types, <2>1, <2>4
  <2> QED
    BY <1>types, <2>1, <2>2, <2>3, <2>5 DEF LogTypes, Labels, Message
<1>15. CASE Restart
  <2>1. /\ restarts < MaxRestarts /\ restarts' = restarts + 1
        /\ pc' = [t \in Threads |-> IF t = Disk THEN "pop" ELSE "idle"]
        /\ queue' = <<>> /\ logfd' = [l \in Levels |-> Closed]
        /\ msg' = [t \in Callers \cup {Disk} |-> NoMessage]
        /\ got' = [c \in Callers |-> Closed] /\ sweep' = 0 /\ fds' = 0
        /\ missed' = missed \cup (Unwritten \ {Stop})
        /\ UNCHANGED <<dir, content, now, pushed, stopAt, written, straddled, clobbered, unrenamed,
                       exhausted, turnedBack>>
    BY <1>15 DEF Restart, diskVars
  <2>2. pc' \in [Threads -> Labels]
    BY <2>1 DEF Labels
  <2>3. NoMessage \in Message
    BY DEF NoMessage, Message
  <2>4. Unwritten \subseteq 0 .. MaxMessages
    <3>1. \A i \in DOMAIN queue : queue[i] \in Message
      BY <1>types
    <3> QED
      BY <1>types, <3>1 DEF Unwritten, Message
  <2>5. missed' \subseteq 1 .. MaxMessages
    BY <1>types, <2>1, <2>4
  <2>6. /\ queue' \in Seq(Message) /\ logfd' \in [Levels -> 0 .. Len(content)]
        /\ msg' \in [Callers \cup {Disk} -> Message] /\ got' \in [Callers -> 0 .. Len(content)]
    BY <1>types, <2>1, <2>3
  <2>7. restarts' \in 0 .. MaxRestarts /\ fds' \in 0 .. FdLimit /\ sweep' \in 0 .. NumLevels
    BY <1>types, <2>1
  <2> QED
    BY <1>types, <2>1, <2>2, <2>5, <2>6, <2>7 DEF LogTypes, Labels, Message
<1>16. CASE Tick
  <2>1. now' \in 1 .. MaxTime
    BY <1>16, <1>types DEF Tick
  <2>2. UNCHANGED <<timeless, turnedBack>>
    BY <1>16 DEF Tick
  <2> QED
    BY <1>types, <2>1, <2>2 DEF timeless, LogTypes, Labels, Message
<1>17. CASE TurnBack
  <2>1. now' \in 1 .. MaxTime /\ turnedBack' \in BOOLEAN
    BY <1>17, <1>types DEF TurnBack
  <2>2. UNCHANGED timeless
    BY <1>17 DEF TurnBack
  <2> QED
    BY <1>types, <2>1, <2>2 DEF timeless, LogTypes, Labels, Message
<1>18. CASE UNCHANGED logVars
  BY <1>18, <1>types DEF logVars, diskVars, history, LogTypes, Labels, Message
<1> QED
  BY <1>1, <1>2, <1>3, <1>4, <1>5, <1>6, <1>7, <1>8, <1>9, <1>10, <1>11, <1>12, <1>13,
     <1>14, <1>15, <1>16, <1>17, <1>18, <1>19 DEF LogNext, Caller, WriteThread, Destroy, Rename

------------------------------------------------------------------------------
(* What the steps leave alone *)

(* A step of a caller leaves the writing thread, the thread that ends the  *)
(* process and the other callers where they are.                           *)
CallerKeeps(c) ==
  /\ pc'[Disk] = pc[Disk] /\ pc'[Main] = pc[Main] /\ msg'[Disk] = msg[Disk]
  /\ \A d \in Callers \ {c} : pc'[d] = pc[d] /\ got'[d] = got[d] /\ msg'[d] = msg[d]
  /\ UNCHANGED <<now, sweep, stopAt, written, missed, restarts, clobbered, unrenamed, turnedBack>>

LEMMA CallersKeep ==
  ASSUME LogTypes, NEW c \in Callers,
         (\E l \in Levels : LogMessage(c, l) \/ StreamFindsClosed(c, l)) \/ Caller(c)
  PROVE  CallerKeeps(c)
<1> DEFINE T == Callers \cup {Disk}
<1>1. /\ pc \in [Threads -> Labels] /\ msg \in [T -> Message]
      /\ c \in T /\ Disk \in T /\ c # Disk /\ c # Main /\ Callers \subseteq T
      /\ c \in Threads /\ Disk \in Threads /\ Main \in Threads /\ Callers \subseteq Threads
  BY Parameters DEF LogTypes, Labels, Message, Threads
<1>2. got \in [Callers -> 0 .. Len(content)]
  BY DEF LogTypes
<1> HIDE DEF T
<1>3. ASSUME NEW l \in Levels, LogMessage(c, l) PROVE CallerKeeps(c)
  BY <1>3 DEF LogMessage, diskVars, history, CallerKeeps
<1>4. ASSUME NEW l \in Levels, StreamFindsClosed(c, l) PROVE CallerKeeps(c)
  <2>1. /\ msg' = [msg EXCEPT ![c].level = l] /\ pc' = [pc EXCEPT ![c] = "open"]
        /\ UNCHANGED <<now, sweep, stopAt, got, written, missed, restarts, clobbered, unrenamed, turnedBack>>
    BY <1>4 DEF StreamFindsClosed, LogGoto, diskVars, history
  <2> QED
    BY <1>1, <2>1 DEF CallerKeeps
<1>5. ASSUME StreamOpens(c) PROVE CallerKeeps(c)
  <2>1. /\ pc' = [pc EXCEPT ![c] = "store"] /\ \E g : got' = [got EXCEPT ![c] = g]
        /\ UNCHANGED <<now, msg, sweep, stopAt, written, missed, restarts, clobbered, unrenamed, turnedBack>>
    BY <1>5 DEF StreamOpens, LogGoto
  <2> QED
    BY <1>1, <1>2, <2>1 DEF CallerKeeps
<1>6. ASSUME StreamStores(c) PROVE CallerKeeps(c)
  <2>1. /\ \E label : pc' = [pc EXCEPT ![c] = label]
        /\ got' = [got EXCEPT ![c] = Closed]
        /\ UNCHANGED <<now, msg, sweep, stopAt, written, missed, restarts, clobbered, unrenamed, turnedBack>>
    BY <1>6 DEF StreamStores, LogGoto, diskVars
  <2> QED
    BY <1>1, <1>2, <2>1 DEF CallerKeeps
<1>7. ASSUME StreamPushes(c) PROVE CallerKeeps(c)
  <2>1. /\ pc' = [pc EXCEPT ![c] = "idle"]
        /\ UNCHANGED <<now, msg, got, sweep, stopAt, written, missed, restarts, clobbered, unrenamed, turnedBack>>
    BY <1>7 DEF StreamPushes, LogGoto, diskVars, history
  <2> QED
    BY <1>1, <2>1 DEF CallerKeeps
<1> QED
  BY <1>3, <1>4, <1>5, <1>6, <1>7 DEF Caller

(* A step of the writing thread leaves the others where they are.          *)
DiskKeeps ==
  /\ \A c \in Callers : pc'[c] = pc[c] /\ msg'[c] = msg[c]
  /\ pc'[Main] = pc[Main]
  /\ UNCHANGED <<now, got, pushed, stopAt, restarts, straddled, turnedBack>>

LEMMA DiskStepKeeps ==
  ASSUME LogTypes, WriteThread
  PROVE  DiskKeeps
<1> DEFINE T == Callers \cup {Disk}
<1>1. /\ pc \in [Threads -> Labels] /\ msg \in [T -> Message]
      /\ Disk \in T /\ Disk \notin Callers /\ Disk # Main /\ Callers \subseteq T
      /\ Disk \in Threads /\ Main \in Threads /\ Callers \subseteq Threads
  BY Parameters DEF LogTypes, Labels, Message, Threads
<1> HIDE DEF T
<1>2. \E label : pc' = [pc EXCEPT ![Disk] = label]
  BY DEF WriteThread, Pop, DiskOpens, WriteAll, WriteFails, Measure, Rename,
         RemoveTimeoutLogFile, LogGoto
<1>3. msg' = msg \/ msg' = [msg EXCEPT ![Disk] = Head(queue)]
  BY DEF WriteThread, Pop, DiskOpens, WriteAll, WriteFails, Measure, Rename, RemoveTimeoutLogFile
<1>4. UNCHANGED <<now, got, pushed, stopAt, restarts, straddled, turnedBack>>
  BY DEF WriteThread, Pop, DiskOpens, WriteAll, WriteFails, Measure, Rename,
         RemoveTimeoutLogFile, diskVars, history
<1> QED
  BY <1>1, <1>2, <1>3, <1>4 DEF DiskKeeps

(* Where each step takes the thread that makes it.                         *)
DiskGoes ==
  \/ /\ Pop
     /\ \/ Head(queue).id = Stop /\ pc'[Disk] = "exit" /\ msg'[Disk] = msg[Disk]
        \/ Head(queue).id # Stop /\ pc'[Disk] \in {"open", "write"} /\ msg'[Disk] = Head(queue)
     /\ pc[Disk] = "pop"
  \/ /\ DiskOpens /\ pc[Disk] = "open" /\ msg'[Disk] = msg[Disk]
     /\ pc'[Disk] = (IF CanOpen THEN "write" ELSE "measure")
  \/ /\ WriteAll \/ WriteFails
     /\ pc[Disk] = "write" /\ pc'[Disk] = "measure" /\ msg'[Disk] = msg[Disk]
  \/ /\ Measure /\ pc[Disk] = "measure" /\ msg'[Disk] = msg[Disk]
     /\ pc'[Disk] = (IF TooLong(msg[Disk].level) THEN "rename" ELSE "pop")
  \/ /\ Rename /\ pc[Disk] = "rename" /\ msg'[Disk] = msg[Disk]
     /\ pc'[Disk] = "sweep" /\ sweep' = 0
  \/ /\ RemoveTimeoutLogFile /\ pc[Disk] = "sweep" /\ msg'[Disk] = msg[Disk]
     /\ pc'[Disk] = (IF sweep + 1 = NumLevels THEN "pop" ELSE "sweep")
     /\ sweep' = sweep + 1

LEMMA DiskStepGoes ==
  ASSUME LogTypes, WriteThread
  PROVE  DiskGoes
<1>1. pc \in [Threads -> Labels] /\ Disk \in Threads
  BY DEF LogTypes, Labels, Threads
<1>2. DOMAIN msg = Callers \cup {Disk}
  BY DEF LogTypes
<1>3. CASE Pop
  <2>1. pc[Disk] = "pop"
    BY <1>3 DEF Pop, LogAt
  <2>2. CASE Head(queue).id = Stop
    <3>1. pc' = [pc EXCEPT ![Disk] = "exit"] /\ msg' = msg
      BY <1>3, <2>2 DEF Pop, LogGoto
    <3> QED
      BY <1>1, <1>3, <2>1, <2>2, <3>1 DEF DiskGoes
  <2>3. CASE Head(queue).id # Stop
    <3>1. /\ pc' = [pc EXCEPT ![Disk] = IF logfd[Head(queue).level] = Closed THEN "open" ELSE "write"]
          /\ msg' = [msg EXCEPT ![Disk] = Head(queue)]
      BY <1>3, <2>3 DEF Pop, LogGoto
    <3>2. pc'[Disk] \in {"open", "write"} /\ msg'[Disk] = Head(queue)
      BY <1>1, <1>2, <3>1
    <3> QED
      BY <1>3, <2>1, <2>3, <3>2 DEF DiskGoes
  <2> QED
    BY <2>2, <2>3
<1>4. CASE DiskOpens
  BY <1>1, <1>4 DEF DiskOpens, LogAt, LogGoto, DiskGoes
<1>5. CASE WriteAll \/ WriteFails
  BY <1>1, <1>5 DEF WriteAll, WriteFails, LogAt, LogGoto, DiskGoes
<1>6. CASE Measure
  BY <1>1, <1>6 DEF Measure, LogAt, LogGoto, DiskGoes
<1>7. CASE Rename
  BY <1>1, <1>7 DEF Rename, LogAt, LogGoto, DiskGoes
<1>8. CASE RemoveTimeoutLogFile
  BY <1>1, <1>8 DEF RemoveTimeoutLogFile, LogAt, LogGoto, DiskGoes
<1> QED
  BY <1>3, <1>4, <1>5, <1>6, <1>7, <1>8 DEF WriteThread

(* Destroy moves its own thread only.                                      *)
DestroyGoes ==
  /\ pc'[Disk] = pc[Disk] /\ \A c \in Callers : pc'[c] = pc[c]
  /\ \/ DestroyStops /\ pc[Main] = "idle" /\ pc'[Main] = "join"
     \/ DestroyCloses /\ pc[Main] = "join" /\ pc[Disk] = "exit" /\ pc'[Main] = "destroyed"
  /\ UNCHANGED <<dir, content, now, msg, got, sweep, pushed, written, missed, restarts,
                 straddled, clobbered, unrenamed, exhausted, turnedBack>>

LEMMA DestroyStepGoes ==
  ASSUME LogTypes, Destroy
  PROVE  DestroyGoes
<1>1. /\ pc \in [Threads -> Labels] /\ Disk \in Threads /\ Main \in Threads
      /\ Callers \subseteq Threads /\ Disk # Main /\ Main \notin Callers
  BY Parameters DEF LogTypes, Labels, Threads
<1> QED
  BY <1>1 DEF Destroy, DestroyStops, DestroyCloses, LogAt, LogGoto, diskVars, history, DestroyGoes

------------------------------------------------------------------------------
(* Labels *)

LEMMA LabelStep ==
  ASSUME LogTypes, LabelInv, [LogNext]_logVars
  PROVE  LabelInv'
<1>1. /\ pc \in [Threads -> Labels] /\ Callers \subseteq Threads
      /\ Disk \in Threads /\ Main \in Threads
  BY DEF LogTypes, Labels, Threads
<1>2. got \in [Callers -> 0 .. Len(content)] /\ sweep \in 0 .. NumLevels
  BY DEF LogTypes
<1>3. ASSUME NEW c \in Callers,
             (\E l \in Levels : LogMessage(c, l) \/ StreamFindsClosed(c, l)) \/ Caller(c)
      PROVE  LabelInv'
  <2>1. CallerKeeps(c)
    BY <1>3, CallersKeep
  <2>2. pc'[c] \in {"idle", "open", "store", "push"} /\ (got'[c] # Closed => pc'[c] = "store")
    <3>1. CASE \E l \in Levels : LogMessage(c, l)
      BY <3>1 DEF LogMessage, LabelInv
    <3>2. CASE \E l \in Levels : StreamFindsClosed(c, l)
      BY <1>1, <3>2 DEF StreamFindsClosed, LogAt, LogGoto, LabelInv
    <3>3. CASE StreamOpens(c)
      BY <1>1, <3>3 DEF StreamOpens, LogGoto
    <3>4. CASE StreamStores(c)
      <4>1. got'[c] = Closed /\ pc'[c] \in {"idle", "push"}
        BY <1>1, <1>2, <3>4 DEF StreamStores, LogGoto
      <4> QED
        BY <4>1
    <3>5. CASE StreamPushes(c)
      BY <1>1, <3>5 DEF StreamPushes, LogAt, LogGoto, LabelInv
    <3> QED
      BY <1>3, <3>1, <3>2, <3>3, <3>4, <3>5 DEF Caller
  <2> QED
    BY <2>1, <2>2 DEF CallerKeeps, LabelInv
<1>4. CASE WriteThread
  <2>1. DiskKeeps /\ DiskGoes
    BY <1>4, DiskStepKeeps, DiskStepGoes
  <2>2. /\ pc'[Disk] \in {"pop", "open", "write", "measure", "rename", "sweep", "exit"}
        /\ pc'[Disk] \in {"open", "write"} => msg'[Disk].id # Stop
    BY <2>1 DEF DiskGoes, LabelInv
  <2>3. pc'[Disk] = "sweep" => sweep' < NumLevels
    BY <1>2, <2>1, Parameters DEF DiskGoes, LabelInv
  <2> QED
    BY <2>1, <2>2, <2>3 DEF DiskKeeps, LabelInv
<1>5. CASE Destroy
  <2>1. DestroyGoes
    BY <1>5, DestroyStepGoes
  <2> QED
    BY <2>1 DEF DestroyGoes, LabelInv
<1>6. CASE Restart
  BY <1>6, Parameters DEF Restart, LabelInv, Threads
<1>7. CASE Tick \/ TurnBack \/ UNCHANGED logVars
  BY <1>7 DEF Tick, TurnBack, timeless, logVars, LabelInv
<1> QED
  BY <1>3, <1>4, <1>5, <1>6, <1>7 DEF LogNext

------------------------------------------------------------------------------
(* Descriptors *)

(* A set that gains at most one element, and one that loses one.           *)
LEMMA GainsOne ==
  ASSUME NEW T, IsFiniteSet(T), NEW x, NEW S \in SUBSET (T \cup {x})
  PROVE  IsFiniteSet(S) /\ Cardinality(S) \in Nat /\ Cardinality(S) <= Cardinality(T) + 1
<1>1. /\ IsFiniteSet(T \cup {x}) /\ Cardinality(T) \in Nat
      /\ Cardinality(T \cup {x}) \in Nat /\ Cardinality(T \cup {x}) <= Cardinality(T) + 1
  <2>1. IsFiniteSet(T \cup {x})
    BY FS_AddElement
  <2>2. \/ Cardinality(T \cup {x}) = Cardinality(T)
        \/ Cardinality(T \cup {x}) = Cardinality(T) + 1
    BY FS_AddElement
  <2>3. Cardinality(T) \in Nat /\ Cardinality(T \cup {x}) \in Nat
    BY <2>1, FS_CardinalityType
  <2> QED
    BY <2>1, <2>2, <2>3
<1>2. IsFiniteSet(S) /\ Cardinality(S) <= Cardinality(T \cup {x})
  BY <1>1, FS_Subset
<1>3. Cardinality(S) \in Nat
  BY <1>2, FS_CardinalityType
<1> QED
  BY <1>1, <1>2, <1>3

LEMMA LosesOne ==
  ASSUME NEW T, IsFiniteSet(T), NEW x \in T
  PROVE  /\ IsFiniteSet(T \ {x}) /\ Cardinality(T) \in Nat
         /\ Cardinality(T \ {x}) \in Nat /\ Cardinality(T \ {x}) = Cardinality(T) - 1
<1>1. IsFiniteSet(T \ {x}) /\ Cardinality(T \ {x}) = Cardinality(T) - 1
  BY FS_RemoveElement
<1>2. Cardinality(T) \in Nat /\ Cardinality(T \ {x}) \in Nat
  BY <1>1, FS_CardinalityType
<1> QED
  BY <1>1, <1>2

LEMMA Smaller ==
  ASSUME NEW T, IsFiniteSet(T), NEW S \in SUBSET T
  PROVE  IsFiniteSet(S) /\ Cardinality(S) \in Nat /\ Cardinality(S) <= Cardinality(T)
<1>1. IsFiniteSet(S) /\ Cardinality(S) <= Cardinality(T)
  BY FS_Subset
<1> QED
  BY <1>1, FS_CardinalityType

LEMMA OpenCallersAreFinite ==
  IsFiniteSet(OpenCallers) /\ Cardinality(OpenCallers) \in Nat
<1>1. IsFiniteSet(Callers) /\ OpenCallers \in SUBSET Callers
  BY Parameters DEF OpenCallers
<1> QED
  BY <1>1, Smaller

(* The descriptor that a caller has opened is counted until it is stored,  *)
(* and then it is the level's; what it replaces is counted no more.        *)
LEMMA FdStep ==
  ASSUME LogTypes, LabelInv, FdInv, [LogNext]_logVars
  PROVE  FdInv'
<1> DEFINE m == Cardinality(OpenLevels)
           n == Cardinality(OpenCallers)
<1>1. /\ IsFiniteSet(OpenLevels) /\ IsFiniteSet(OpenCallers)
      /\ m \in Nat /\ n \in Nat /\ m + n <= fds /\ fds \in Nat
  <2>1. fds \in Nat
    BY Parameters DEF LogTypes
  <2> QED
    BY <2>1, OpenLevelsAreFinite, OpenCallersAreFinite DEF FdInv
<1>2. logfd \in [Levels -> Nat] /\ got \in [Callers -> Nat]
  <2>1. 0 .. Len(content) \subseteq Nat
    OBVIOUS
  <2> QED
    BY <2>1 DEF LogTypes
<1>3. ASSUME UNCHANGED <<logfd, got>>, fds' = fds \/ fds' = fds + 1 PROVE FdInv'
  <2>1. OpenLevels' = OpenLevels /\ OpenCallers' = OpenCallers
    BY <1>3 DEF OpenLevels, OpenCallers
  <2>2. m + n <= fds'
    BY <1>1, <1>3
  <2> QED
    BY <2>1, <2>2 DEF FdInv
<1>4. ASSUME NEW c \in Callers, StreamOpens(c) PROVE FdInv'
  <2>1. UNCHANGED logfd /\ got[c] = Closed
    BY <1>4 DEF StreamOpens, LogAt, LabelInv
  <2>2. CASE CanOpen
    <3>1. /\ got' = [got EXCEPT ![c] = OpenLive(msg[c].level)] /\ fds' = fds + 1
      BY <1>4, <2>2 DEF StreamOpens
    <3>2. OpenCallers' \subseteq OpenCallers \cup {c} /\ OpenLevels' = OpenLevels
      BY <1>2, <2>1, <3>1 DEF OpenCallers, OpenLevels
    <3>3. Cardinality(OpenCallers') \in Nat /\ Cardinality(OpenCallers') <= n + 1
      BY <1>1, <3>2, GainsOne
    <3> QED
      BY <1>1, <3>1, <3>2, <3>3 DEF FdInv
  <2>3. CASE ~CanOpen
    <3>1. got' = [got EXCEPT ![c] = Closed] /\ fds' = fds
      BY <1>4, <2>3 DEF StreamOpens
    <3>2. OpenCallers' = OpenCallers /\ OpenLevels' = OpenLevels
      BY <1>2, <2>1, <3>1 DEF OpenCallers, OpenLevels
    <3> QED
      BY <1>1, <3>1, <3>2 DEF FdInv
  <2> QED
    BY <2>2, <2>3
<1>5. ASSUME NEW c \in Callers, StreamStores(c) PROVE FdInv'
  <2> DEFINE l == msg[c].level
  <2>1. /\ logfd' = [logfd EXCEPT ![l] = got[c]] /\ got' = [got EXCEPT ![c] = Closed]
        /\ fds' = fds
    BY <1>5 DEF StreamStores
  <2>2. CASE got[c] = Closed
    <3>1. OpenLevels' \subseteq OpenLevels /\ OpenCallers' = OpenCallers
      BY <1>2, <2>1, <2>2 DEF OpenLevels, OpenCallers
    <3>2. Cardinality(OpenLevels') \in Nat /\ Cardinality(OpenLevels') <= m
      BY <1>1, <3>1, Smaller
    <3> QED
      BY <1>1, <2>1, <3>1, <3>2 DEF FdInv
  <2>3. CASE got[c] # Closed
    <3>1. OpenLevels' \subseteq OpenLevels \cup {l} /\ OpenCallers' = OpenCallers \ {c}
      BY <1>2, <2>1 DEF OpenLevels, OpenCallers
    <3>2. c \in OpenCallers
      BY <2>3 DEF OpenCallers
    <3>3. Cardinality(OpenLevels') \in Nat /\ Cardinality(OpenLevels') <= m + 1
      <4> HIDE DEF l
      <4> QED
        BY <1>1, <3>1, GainsOne
    <3>4. Cardinality(OpenCallers') \in Nat /\ Cardinality(OpenCallers') = n - 1
      BY <1>1, <3>1, <3>2, LosesOne
    <3> QED
      BY <1>1, <2>1, <3>3, <3>4 DEF FdInv
  <2> QED
    BY <2>2, <2>3
<1>6. CASE DiskOpens
  <2> DEFINE l == msg[Disk].level
  <2>1. UNCHANGED got
    BY <1>6 DEF DiskOpens
  <2>2. OpenCallers' = OpenCallers
    BY <2>1 DEF OpenCallers
  <2>3. CASE CanOpen
    <3>1. logfd' = [logfd EXCEPT ![l] = OpenLive(l)] /\ fds' = fds + 1
      BY <1>6, <2>3 DEF DiskOpens
    <3>2. OpenLevels' \subseteq OpenLevels \cup {l}
      BY <1>2, <3>1 DEF OpenLevels
    <3>3. Cardinality(OpenLevels') \in Nat /\ Cardinality(OpenLevels') <= m + 1
      <4> HIDE DEF l
      <4> QED
        BY <1>1, <3>2, GainsOne
    <3> QED
      BY <1>1, <2>2, <3>1, <3>3 DEF FdInv
  <2>4. CASE ~CanOpen
    <3>1. logfd' = [logfd EXCEPT ![l] = Closed] /\ fds' = fds
      BY <1>6, <2>4 DEF DiskOpens
    <3>2. OpenLevels' \subseteq OpenLevels
      BY <1>2, <3>1 DEF OpenLevels
    <3>3. Cardinality(OpenLevels') \in Nat /\ Cardinality(OpenLevels') <= m
      BY <1>1, <3>2, Smaller
    <3> QED
      BY <1>1, <2>2, <3>1, <3>3 DEF FdInv
  <2> QED
    BY <2>3, <2>4
<1>7. CASE Measure
  <2> DEFINE l == msg[Disk].level
  <2>1. CASE TooLong(l)
    <3>1. /\ logfd' = [logfd EXCEPT ![l] = Closed] /\ UNCHANGED got
          /\ fds' = IF logfd[l] = Closed THEN fds ELSE fds - 1
      BY <1>7, <2>1 DEF Measure
    <3>2. l \in Levels
      BY DEF LogTypes
    <3> HIDE DEF l
    <3>3. OpenCallers' = OpenCallers /\ OpenLevels' = OpenLevels \ {l}
      BY <1>2, <3>1, <3>2 DEF OpenLevels, OpenCallers
    <3>4. CASE logfd[l] = Closed
      <4>1. OpenLevels' = OpenLevels /\ fds' = fds
        BY <3>1, <3>3, <3>4 DEF OpenLevels
      <4> QED
        BY <1>1, <3>3, <4>1 DEF FdInv
    <3>5. CASE logfd[l] # Closed
      <4>1. l \in OpenLevels /\ fds' = fds - 1
        BY <3>1, <3>2, <3>5 DEF OpenLevels
      <4>2. Cardinality(OpenLevels') \in Nat /\ Cardinality(OpenLevels') = m - 1
        BY <1>1, <3>3, <4>1, LosesOne
      <4> QED
        BY <1>1, <3>3, <4>1, <4>2 DEF FdInv
    <3> QED
      BY <3>4, <3>5
  <2>2. CASE ~TooLong(l)
    BY <1>1, <1>3, <1>7, <2>2 DEF Measure
  <2> QED
    BY <2>1, <2>2
<1>8. CASE DestroyCloses
  <2>1. /\ logfd' = [l \in Levels |-> Closed] /\ UNCHANGED got
        /\ fds' = fds - m
    BY <1>8 DEF DestroyCloses, OpenLevels
  <2>2. OpenCallers' = OpenCallers /\ OpenLevels' = {}
    BY <2>1 DEF OpenLevels, OpenCallers
  <2> QED
    BY <1>1, <2>1, <2>2, FS_EmptySet DEF FdInv
<1>9. CASE Restart
  <2>1. /\ logfd' = [l \in Levels |-> Closed] /\ got' = [c \in Callers |-> Closed]
        /\ fds' = 0
    BY <1>9 DEF Restart
  <2>2. OpenCallers' = {} /\ OpenLevels' = {}
    BY <2>1 DEF OpenLevels, OpenCallers
  <2> QED
    BY <2>1, <2>2, FS_EmptySet DEF FdInv
<1>10. CASE RemoveTimeoutLogFile
  <2>1. UNCHANGED <<logfd, got>> /\ (fds' = fds \/ fds' = fds + 1)
    BY <1>10 DEF RemoveTimeoutLogFile
  <2> QED
    BY <1>1, <1>3, <2>1
<1>11. CASE \/ \E c \in Callers : \/ \E l \in Levels : LogMessage(c, l) \/ StreamFindsClosed(c, l)
                                  \/ StreamPushes(c)
            \/ Pop \/ WriteAll \/ WriteFails \/ Rename
            \/ DestroyStops \/ Tick \/ TurnBack \/ UNCHANGED logVars
  <2>1. UNCHANGED <<logfd, got, fds>>
    BY <1>11 DEF LogMessage, StreamFindsClosed, StreamPushes, Pop, WriteAll, WriteFails, Rename,
                 DestroyStops, Tick, TurnBack, timeless, logVars
  <2> QED
    BY <1>1, <1>3, <2>1
<1> QED
  BY <1>4, <1>5, <1>6, <1>7, <1>8, <1>9, <1>10, <1>11 DEF LogNext, Caller, WriteThread, Destroy

------------------------------------------------------------------------------
(* Names and files *)

(* A step that gives a level's live name a new file, at most.              *)
LEMMA CreateKeepsApart ==
  ASSUME LogTypes, ApartInv, NEW l \in Levels, Created(l)
  PROVE  /\ NamesApart'
         /\ logfd' = logfd => StoredApart'
         /\ UNCHANGED <<got, msg>> => OpenedApart'
         /\ \A k \in Levels, m \in Levels, t \in 0 .. MaxTime :
              logfd[k] # Closed /\ logfd[k] = dir'[m][t] => k = m
         /\ \A c \in Callers, m \in Levels, t \in 0 .. MaxTime :
              got[c] # Closed /\ got[c] = dir'[m][t] => msg[c].level = m
<1> DEFINE n == Len(content)
           I == 0 .. MaxTime
<1>1. /\ n \in Nat /\ dir \in [Levels -> [I -> 0 .. n]] /\ 0 \in I
      /\ logfd \in [Levels -> 0 .. n] /\ got \in [Callers -> 0 .. n]
  <2>1. n \in Nat
    BY DEF Created
  <2>2. 0 \in I
    BY Parameters
  <2> QED
    BY <2>1, <2>2 DEF LogTypes
<1>2. CASE dir[l][0] # Closed
  <2>1. UNCHANGED <<dir, content>>
    BY <1>2 DEF Created
  <2> QED
    BY <2>1 DEF ApartInv, NamesApart, StoredApart, OpenedApart
<1>3. CASE dir[l][0] = Closed
  <2>1. /\ dir'[l][0] = n + 1
        /\ \A m \in Levels, t \in I : (m # l \/ t # 0) => dir'[m][t] = dir[m][t]
    BY <1>3 DEF Created
  <2>2. \A m \in Levels, t \in I : dir[m][t] \in 0 .. n
    BY <1>1
  <2>3. \A m \in Levels, t \in I : dir'[m][t] # n + 1 => (m # l \/ t # 0)
    BY <2>1
  <2>4. \A f \in 0 .. n : f # n + 1
    BY <1>1
  <2>5. \A m \in Levels, t \in I : dir'[m][t] = n + 1 => m = l /\ t = 0
    <3> HIDE DEF n
    <3> QED
      BY <2>1, <2>2, <2>4
  <2>6. \A f \in 0 .. n, m \in Levels, t \in I : f = dir'[m][t] => f = dir[m][t]
    BY <2>1, <2>4
  <2> HIDE DEF n, I
  <2>7. NamesApart'
    <3> SUFFICES ASSUME NEW k \in Levels, NEW m \in Levels, NEW t \in I, NEW u \in I,
                        dir'[k][t] # Closed, dir'[k][t] = dir'[m][u]
                 PROVE  k = m /\ t = u
      BY DEF NamesApart, I
    <3>1. CASE dir'[k][t] = n + 1
      BY <2>5, <3>1
    <3>2. CASE dir'[k][t] # n + 1
      <4>1. dir'[k][t] = dir[k][t] /\ dir'[m][u] = dir[m][u]
        BY <2>1, <3>2
      <4>2. dir[k][t] # Closed /\ dir[k][t] = dir[m][u]
        BY <4>1
      <4> QED
        BY <4>2 DEF ApartInv, NamesApart, I
    <3> QED
      BY <3>1, <3>2
  <2>8. \A k \in Levels, m \in Levels, t \in I :
          logfd[k] # Closed /\ logfd[k] = dir'[m][t] => k = m
    BY <1>1, <2>6 DEF ApartInv, StoredApart, I
  <2>9. \A c \in Callers, m \in Levels, t \in I :
          got[c] # Closed /\ got[c] = dir'[m][t] => msg[c].level = m
    BY <1>1, <2>6 DEF ApartInv, OpenedApart, I
  <2>10. logfd' = logfd => StoredApart'
    BY <2>8 DEF StoredApart, I
  <2>11. UNCHANGED <<got, msg>> => OpenedApart'
    BY <2>9 DEF OpenedApart, I
  <2> QED
    BY <2>7, <2>8, <2>9, <2>10, <2>11 DEF I
<1> QED
  BY <1>2, <1>3

LEMMA ApartStep ==
  ASSUME LogTypes, LabelInv, ApartInv, [LogNext]_logVars
  PROVE  ApartInv'
<1> DEFINE I == 0 .. MaxTime
           F == 0 .. Len(content)
<1>1. /\ dir \in [Levels -> [I -> F]] /\ logfd \in [Levels -> F] /\ got \in [Callers -> F]
      /\ msg \in [Callers \cup {Disk} -> Message] /\ now \in I /\ 0 \in I /\ 0 \in F
  <2>1. now \in I /\ 0 \in I
    BY Parameters DEF LogTypes
  <2>2. content \in Seq(Seq(1 .. MaxMessages))
    BY DEF LogTypes
  <2>3. 0 \in F
    BY <2>2
  <2> QED
    BY <2>1, <2>3 DEF LogTypes, Message
<1>2. \A t \in Callers \cup {Disk} : msg[t].level \in Levels
  BY <1>1 DEF Message
<1> HIDE DEF F
<1>3. ASSUME NEW c \in Callers, NEW l \in Levels, StreamFindsClosed(c, l) PROVE ApartInv'
  <2>1. UNCHANGED <<dir, logfd, got>> /\ msg' = [msg EXCEPT ![c].level = l] /\ got[c] = Closed
    BY <1>3 DEF StreamFindsClosed, LogAt, LabelInv, diskVars
  <2>2. \A d \in Callers : d # c => msg'[d] = msg[d]
    BY <1>1, <2>1
  <2>3. OpenedApart'
    BY <2>1, <2>2 DEF ApartInv, OpenedApart
  <2> QED
    BY <2>1, <2>3 DEF ApartInv, NamesApart, StoredApart
<1>4. ASSUME NEW c \in Callers, StreamOpens(c) PROVE ApartInv'
  <2> DEFINE l == msg[c].level
  <2>1. l \in Levels /\ UNCHANGED <<logfd, msg>>
    BY <1>2, <1>4 DEF StreamOpens
  <2>2. CASE CanOpen
    <3>1. Create(l) /\ got' = [got EXCEPT ![c] = OpenLive(l)]
      BY <1>4, <2>2 DEF StreamOpens
    <3>2. Created(l)
      BY <2>1, <3>1, CreateIs
    <3> DEFINE f == OpenLive(l)
    <3>3. f = dir'[l][0]
      BY <3>2 DEF Created
    <3>4. f # Closed
      <4> DEFINE n == Len(content')
      <4>1. f \in 1 .. n
        BY <3>2 DEF Created
      <4> HIDE DEF n, f
      <4> QED
        BY <4>1 DEF Closed
    <3> HIDE DEF f
    <3>5. /\ NamesApart' /\ StoredApart'
          /\ \A d \in Callers, m \in Levels, t \in I :
               got[d] # Closed /\ got[d] = dir'[m][t] => msg[d].level = m
      BY <2>1, <3>2, CreateKeepsApart
    <3>6. OpenedApart'
      <4> SUFFICES ASSUME NEW d \in Callers, NEW m \in Levels, NEW t \in I,
                          got'[d] # Closed, got'[d] = dir'[m][t]
                   PROVE  msg'[d].level = m
        BY DEF OpenedApart
      <4>1. CASE d = c
        <5>1. dir'[l][0] # Closed /\ dir'[l][0] = dir'[m][t]
          BY <1>1, <3>1, <3>3, <3>4, <4>1 DEF f
        <5>2. l = m
          BY <1>1, <2>1, <3>5, <5>1 DEF NamesApart
        <5> QED
          BY <2>1, <4>1, <5>2
      <4>2. CASE d # c
        BY <1>1, <2>1, <3>1, <3>5, <4>2
      <4> QED
        BY <4>1, <4>2
    <3> QED
      BY <3>5, <3>6 DEF ApartInv
  <2>3. CASE ~CanOpen
    <3>1. UNCHANGED dir /\ got' = [got EXCEPT ![c] = Closed]
      BY <1>4, <2>3 DEF StreamOpens
    <3> QED
      BY <1>1, <2>1, <3>1 DEF ApartInv, NamesApart, StoredApart, OpenedApart
  <2> QED
    BY <2>2, <2>3
<1>5. ASSUME NEW c \in Callers, StreamStores(c) PROVE ApartInv'
  <2> DEFINE l == msg[c].level
  <2>1. /\ logfd' = [logfd EXCEPT ![l] = got[c]] /\ got' = [got EXCEPT ![c] = Closed]
        /\ UNCHANGED <<dir, msg>>
    BY <1>5 DEF StreamStores, diskVars
  <2>2. \A k \in Levels : logfd'[k] = IF k = l THEN got[c] ELSE logfd[k]
    <3> HIDE DEF l
    <3> QED
      BY <1>1, <2>1
  <2>3. StoredApart'
    BY <2>1, <2>2 DEF ApartInv, StoredApart, OpenedApart
  <2>4. OpenedApart'
    BY <1>1, <2>1 DEF ApartInv, OpenedApart
  <2> QED
    BY <2>1, <2>3, <2>4 DEF ApartInv, NamesApart
<1>6. CASE WriteThread /\ UNCHANGED <<dir, logfd>>
  <2>1. DiskKeeps
    BY <1>6, DiskStepKeeps
  <2> QED
    BY <1>6, <2>1 DEF ApartInv, NamesApart, StoredApart, OpenedApart, DiskKeeps
<1>7. CASE DiskOpens
  <2> DEFINE l == msg[Disk].level
  <2>1. l \in Levels /\ UNCHANGED <<got, msg>>
    BY <1>2, <1>7 DEF DiskOpens
  <2>2. CASE CanOpen
    <3>1. Create(l) /\ logfd' = [logfd EXCEPT ![l] = OpenLive(l)]
      BY <1>7, <2>2 DEF DiskOpens
    <3>2. Created(l)
      BY <2>1, <3>1, CreateIs
    <3>3. dir'[l][0] = OpenLive(l)
      BY <3>2 DEF Created
    <3>4. /\ NamesApart' /\ OpenedApart'
          /\ \A k \in Levels, m \in Levels, t \in I :
               logfd[k] # Closed /\ logfd[k] = dir'[m][t] => k = m
      BY <2>1, <3>2, CreateKeepsApart
    <3>5. \A k \in Levels : logfd'[k] = IF k = l THEN dir'[l][0] ELSE logfd[k]
      <4> HIDE DEF l
      <4> QED
        BY <1>1, <3>1, <3>3
    <3>6. \A m \in Levels, t \in I : dir'[l][0] # Closed /\ dir'[l][0] = dir'[m][t] => l = m
      <4> HIDE DEF l
      <4> QED
        BY <1>1, <2>1, <3>4 DEF NamesApart
    <3>7. StoredApart'
      BY <3>4, <3>5, <3>6 DEF StoredApart
    <3> QED
      BY <3>4, <3>7 DEF ApartInv
  <2>3. CASE ~CanOpen
    <3>1. UNCHANGED dir /\ logfd' = [logfd EXCEPT ![l] = Closed]
      BY <1>7, <2>3 DEF DiskOpens
    <3> QED
      BY <1>1, <2>1, <3>1 DEF ApartInv, NamesApart, StoredApart, OpenedApart
  <2> QED
    BY <2>2, <2>3
<1>8. CASE Measure
  <2> DEFINE l == msg[Disk].level
  <2>1. /\ UNCHANGED <<dir, got, msg>>
        /\ logfd' = logfd \/ logfd' = [logfd EXCEPT ![l] = Closed]
    BY <1>8 DEF Measure, diskVars
  <2> QED
    BY <1>1, <2>1 DEF ApartInv, NamesApart, StoredApart, OpenedApart
<1>9. CASE Rename /\ Moved(msg[Disk].level)
  <2> DEFINE l == msg[Disk].level
  <2>1. /\ dir' = [dir EXCEPT ![l][now] = dir[l][0], ![l][0] = Closed]
        /\ UNCHANGED <<logfd, got, msg, now>> /\ l \in Levels
    BY <1>2, <1>9 DEF Rename, Moved
  <2> HIDE DEF l, I
  <2>2. \A m \in Levels, t \in I :
          dir'[m][t] = IF m = l /\ t = 0 THEN Closed
                       ELSE IF m = l /\ t = now THEN dir[l][0] ELSE dir[m][t]
    BY <1>1, <2>1
  <2>3. now # 0
    BY DEF LogTypes
  <2>4. \A m \in Levels, t \in I : dir'[m][t] # Closed =>
          \E u \in I : dir'[m][t] = dir[m][u] /\ (m = l /\ t = now => u = 0)
                       /\ (~(m = l /\ t = now) => u = t /\ ~(m = l /\ u = 0))
    BY <1>1, <2>2, <2>3
  <2>5. NamesApart'
    <3> SUFFICES ASSUME NEW k \in Levels, NEW m \in Levels, NEW t \in I, NEW u \in I,
                        dir'[k][t] # Closed, dir'[k][t] = dir'[m][u]
                 PROVE  k = m /\ t = u
      BY DEF NamesApart, I
    <3>1. PICK x \in I : dir'[k][t] = dir[k][x] /\ (k = l /\ t = now => x = 0)
                         /\ (~(k = l /\ t = now) => x = t /\ ~(k = l /\ x = 0))
      BY <2>4
    <3>2. PICK y \in I : dir'[m][u] = dir[m][y] /\ (m = l /\ u = now => y = 0)
                         /\ (~(m = l /\ u = now) => y = u /\ ~(m = l /\ y = 0))
      BY <2>4
    <3>3. dir[k][x] # Closed /\ dir[k][x] = dir[m][y]
      BY <3>1, <3>2
    <3>4. k = m /\ x = y
      BY <3>3 DEF ApartInv, NamesApart, I
    <3> QED
      BY <3>1, <3>2, <3>4
  <2>6. \A f : f # Closed =>
          \A m \in Levels, t \in I : f = dir'[m][t] => \E u \in I : f = dir[m][u]
    BY <2>4
  <2>7. StoredApart'
    <3> SUFFICES ASSUME NEW k \in Levels, NEW m \in Levels, NEW t \in I,
                        logfd[k] # Closed, logfd[k] = dir'[m][t]
                 PROVE  k = m
      BY <2>1 DEF StoredApart, I
    <3>1. \E u \in I : logfd[k] = dir[m][u]
      BY <2>6
    <3> QED
      BY <3>1 DEF ApartInv, StoredApart, I
  <2>8. OpenedApart'
    <3> SUFFICES ASSUME NEW c \in Callers, NEW m \in Levels, NEW t \in I,
                        got[c] # Closed, got[c] = dir'[m][t]
                 PROVE  msg[c].level = m
      BY <2>1 DEF OpenedApart, I
    <3>1. \E u \in I : got[c] = dir[m][u]
      BY <2>6
    <3> QED
      BY <3>1 DEF ApartInv, OpenedApart, I
  <2> QED
    BY <2>5, <2>7, <2>8 DEF ApartInv
<1>10. CASE RemoveTimeoutLogFile
  <2>1. UNCHANGED <<logfd, got, msg>> /\ (dir' = dir \/ dir' = [dir EXCEPT ![sweep] = Swept(sweep)])
    BY <1>10 DEF RemoveTimeoutLogFile
  <2>2. \A m \in Levels, t \in I : dir'[m][t] # Closed => dir'[m][t] = dir[m][t]
    <3>1. CASE dir' = [dir EXCEPT ![sweep] = Swept(sweep)]
      <4>1. \A m \in Levels : dir'[m] = IF m = sweep THEN Swept(m) ELSE dir[m]
        BY <1>1, <3>1
      <4>2. \A m \in Levels, t \in I : Swept(m)[t] \in {Closed, dir[m][t]}
        BY DEF Swept
      <4> QED
        BY <4>1, <4>2
    <3> QED
      BY <2>1, <3>1
  <2>3. NamesApart'
    BY <2>2 DEF ApartInv, NamesApart
  <2>4. StoredApart'
    BY <2>1, <2>2 DEF ApartInv, StoredApart
  <2>5. OpenedApart'
    BY <2>1, <2>2 DEF ApartInv, OpenedApart
  <2> QED
    BY <2>3, <2>4, <2>5 DEF ApartInv
<1>11. CASE DestroyCloses
  BY <1>11 DEF DestroyCloses, diskVars, ApartInv, NamesApart, StoredApart, OpenedApart
<1>12. CASE Restart
  BY <1>12 DEF Restart, diskVars, ApartInv, NamesApart, StoredApart, OpenedApart
<1>13. CASE \/ \E c \in Callers : (\E l \in Levels : LogMessage(c, l)) \/ StreamPushes(c)
            \/ (Rename /\ NotMoved(msg[Disk].level))
            \/ DestroyStops \/ Tick \/ TurnBack \/ UNCHANGED logVars
  <2>1. UNCHANGED <<dir, logfd, got, msg>>
    BY <1>13 DEF LogMessage, StreamPushes, Rename, NotMoved, DestroyStops, Tick, TurnBack, timeless,
                 logVars, diskVars
  <2> QED
    BY <2>1 DEF ApartInv, NamesApart, StoredApart, OpenedApart
<1>14. Pop \/ WriteAll \/ WriteFails => WriteThread /\ UNCHANGED <<dir, logfd>>
  BY DEF Pop, WriteAll, WriteFails, WriteThread, diskVars
<1> QED
  BY <1>3, <1>4, <1>5, <1>6, <1>7, <1>8, <1>9, <1>10, <1>11, <1>12, <1>13, <1>14
     DEF LogNext, Caller, WriteThread, Destroy, Rename

------------------------------------------------------------------------------
(* Descriptors and the live name *)

(* A level's descriptor leads to its live file until a caller stores one   *)
(* across a renaming: the writing thread closes the file before it renames *)
(* it, and what is stored in between is a renamed file's.                  *)
LEMMA LiveStep ==
  ASSUME LogTypes, LabelInv, DescriptorIsLive, RenameInv, [LogNext]_logVars
  PROVE  DescriptorIsLive' /\ RenameInv'
<1> DEFINE I == 0 .. MaxTime
           F == 0 .. Len(content)
<1>1. /\ dir \in [Levels -> [I -> F]] /\ logfd \in [Levels -> F] /\ got \in [Callers -> F]
      /\ straddled \in [Levels -> BOOLEAN] /\ now \in I /\ 0 \in I /\ now # 0
  <2>1. now \in I /\ 0 \in I /\ now # 0
    BY Parameters DEF LogTypes
  <2> QED
    BY <2>1 DEF LogTypes
<1>2. \A t \in Callers \cup {Disk} : msg[t].level \in Levels
  BY DEF LogTypes
<1> HIDE DEF F, I
<1>3. ASSUME UNCHANGED <<logfd, straddled>>, \A l \in Levels : dir'[l][0] = dir[l][0]
      PROVE  DescriptorIsLive'
  BY <1>3 DEF DescriptorIsLive
<1>4. ASSUME NEW l \in Levels, Created(l), UNCHANGED <<logfd, straddled>>
      PROVE  DescriptorIsLive'
  <2>1. \A m \in Levels : dir[m][0] # Closed => dir'[m][0] = dir[m][0]
    <3>1. 0 \in 0 .. MaxTime
      BY Parameters
    <3>2. CASE dir[l][0] # Closed
      BY <1>4, <3>2 DEF Created
    <3>3. CASE dir[l][0] = Closed
      BY <1>4, <3>1, <3>3 DEF Created
    <3> QED
      BY <3>2, <3>3
  <2>2. SUFFICES ASSUME NEW m \in Levels, ~straddled[m]
                 PROVE  logfd[m] \in {Closed, dir'[m][0]}
    BY <1>4 DEF DescriptorIsLive
  <2>3. logfd[m] \in {Closed, dir[m][0]}
    BY <2>2 DEF DescriptorIsLive
  <2> QED
    BY <2>1, <2>3
<1>5. ASSUME NEW c \in Callers,
             (\E l \in Levels : LogMessage(c, l) \/ StreamFindsClosed(c, l)) \/ StreamPushes(c)
      PROVE  DescriptorIsLive' /\ RenameInv'
  <2>1. CallerKeeps(c)
    BY <1>5, CallersKeep DEF Caller
  <2>2. UNCHANGED <<logfd, straddled, dir>>
    BY <1>5 DEF LogMessage, StreamFindsClosed, StreamPushes, diskVars, history
  <2>3. RenameInv'
    BY <2>1, <2>2 DEF RenameInv, CallerKeeps, LogAt
  <2> QED
    BY <1>3, <2>2, <2>3
<1>6. ASSUME NEW c \in Callers, StreamOpens(c) PROVE DescriptorIsLive' /\ RenameInv'
  <2>1. CallerKeeps(c)
    BY <1>6, CallersKeep DEF Caller
  <2>2. UNCHANGED <<logfd, straddled>>
    BY <1>6 DEF StreamOpens
  <2>3. RenameInv'
    BY <2>1, <2>2 DEF RenameInv, CallerKeeps, LogAt
  <2>4. CASE CanOpen
    <3>1. Created(msg[c].level)
      BY <1>2, <1>6, <2>4, CreateIs DEF StreamOpens
    <3> QED
      BY <1>2, <1>4, <2>2, <2>3, <3>1
  <2>5. CASE ~CanOpen
    <3>1. UNCHANGED dir
      BY <1>6, <2>5 DEF StreamOpens
    <3> QED
      BY <1>3, <2>2, <2>3, <3>1
  <2> QED
    BY <2>4, <2>5
<1>7. ASSUME NEW c \in Callers, StreamStores(c) PROVE DescriptorIsLive' /\ RenameInv'
  <2> DEFINE l == msg[c].level
             b == straddled[l] \/ (got[c] # Closed /\ Moves(got[c], l))
  <2>1. /\ logfd' = [logfd EXCEPT ![l] = got[c]] /\ straddled' = [straddled EXCEPT ![l] = b]
        /\ UNCHANGED dir /\ l \in Levels
    BY <1>2, <1>7 DEF StreamStores, diskVars
  <2>2. CallerKeeps(c)
    BY <1>7, CallersKeep DEF Caller
  <2>3. ~b => got[c] = Closed \/ (got[c] = dir[l][0] /\ ~(LogAt(Disk, "rename") /\ msg[Disk].level = l))
    BY DEF Moves
  <2> HIDE DEF l, b
  <2>4. \A m \in Levels : /\ logfd'[m] = IF m = l THEN got[c] ELSE logfd[m]
                          /\ straddled'[m] = IF m = l THEN b ELSE straddled[m]
    BY <1>1, <2>1
  <2>5. DescriptorIsLive'
    BY <2>1, <2>3, <2>4 DEF DescriptorIsLive
  <2>6. RenameInv'
    <3>1. msg[Disk].level \in Levels
      BY <1>2
    <3> QED
      BY <2>2, <2>3, <2>4, <3>1 DEF RenameInv, CallerKeeps, LogAt
  <2> QED
    BY <2>5, <2>6
<1>8. CASE WriteThread
  <2>1. DiskKeeps /\ DiskGoes
    BY <1>8, DiskStepKeeps, DiskStepGoes
  <2>2. UNCHANGED straddled
    BY <2>1 DEF DiskKeeps
  <2>3. RenameInv'
    <3>1. CASE pc'[Disk] # "rename"
      BY <3>1 DEF RenameInv, LogAt
    <3>2. CASE pc'[Disk] = "rename"
      <4>1. Measure /\ TooLong(msg[Disk].level) /\ msg'[Disk] = msg[Disk]
        BY <2>1, <3>2 DEF DiskGoes
      <4>2. logfd' = [logfd EXCEPT ![msg[Disk].level] = Closed]
        BY <4>1 DEF Measure
      <4> QED
        BY <1>1, <1>2, <4>1, <4>2 DEF RenameInv
    <3> QED
      BY <3>1, <3>2
  <2>4. CASE Pop \/ WriteAll \/ WriteFails \/ (Rename /\ NotMoved(msg[Disk].level))
    <3>1. UNCHANGED <<logfd, dir>>
      BY <2>4 DEF Pop, WriteAll, WriteFails, Rename, NotMoved, diskVars
    <3> QED
      BY <1>3, <2>2, <2>3, <3>1
  <2>5. CASE DiskOpens
    <3> DEFINE l == msg[Disk].level
    <3>1. l \in Levels
      BY <1>2
    <3>2. CASE CanOpen
      <4>1. Create(l) /\ logfd' = [logfd EXCEPT ![l] = OpenLive(l)]
        BY <2>5, <3>2 DEF DiskOpens
      <4>2. Created(l)
        BY <3>1, <4>1, CreateIs
      <4> HIDE DEF l
      <4>3. logfd'[l] = dir'[l][0] /\ \A m \in Levels : m # l => logfd'[m] = logfd[m]
        BY <1>1, <3>1, <4>1, <4>2 DEF Created
      <4>4. \A m \in Levels : m # l => dir'[m][0] = dir[m][0]
        <5>1. 0 \in 0 .. MaxTime
          BY Parameters
        <5> QED
          BY <4>2, <5>1 DEF Created
      <4>5. DescriptorIsLive'
        BY <2>2, <4>3, <4>4 DEF DescriptorIsLive
      <4> QED
        BY <2>3, <4>5
    <3>3. CASE ~CanOpen
      <4>1. UNCHANGED dir /\ logfd' = [logfd EXCEPT ![l] = Closed]
        BY <2>5, <3>3 DEF DiskOpens
      <4>2. DescriptorIsLive'
        BY <1>1, <2>2, <4>1 DEF DescriptorIsLive
      <4> QED
        BY <2>3, <4>2
    <3> QED
      BY <3>2, <3>3
  <2>6. CASE Measure
    <3>1. /\ UNCHANGED dir
          /\ logfd' = logfd \/ logfd' = [logfd EXCEPT ![msg[Disk].level] = Closed]
      BY <2>6 DEF Measure, diskVars
    <3>2. DescriptorIsLive'
      BY <1>1, <2>2, <3>1 DEF DescriptorIsLive
    <3> QED
      BY <2>3, <3>2
  <2>7. CASE Rename /\ Moved(msg[Disk].level)
    <3> DEFINE l == msg[Disk].level
    <3>1. /\ dir' = [dir EXCEPT ![l][now] = dir[l][0], ![l][0] = Closed]
          /\ UNCHANGED logfd /\ l \in Levels /\ LogAt(Disk, "rename")
      BY <1>2, <2>7 DEF Rename, Moved
    <3>2. ~straddled[l] => logfd[l] = Closed
      BY <3>1 DEF RenameInv
    <3> HIDE DEF l
    <3>3. \A m \in Levels : m # l => dir'[m][0] = dir[m][0]
      BY <1>1, <3>1
    <3>4. DescriptorIsLive'
      BY <2>2, <3>1, <3>2, <3>3 DEF DescriptorIsLive
    <3> QED
      BY <2>3, <3>4
  <2>8. CASE RemoveTimeoutLogFile
    <3>1. UNCHANGED logfd /\ (dir' = dir \/ dir' = [dir EXCEPT ![sweep] = Swept(sweep)])
      BY <2>8 DEF RemoveTimeoutLogFile
    <3>2. \A m \in Levels : dir'[m][0] = dir[m][0]
      <4>1. \A m \in Levels : Swept(m)[0] = dir[m][0]
        <5>1. 0 \in 0 .. MaxTime /\ 0 \notin 1 .. MaxTime
          BY Parameters
        <5> QED
          BY <5>1 DEF Swept, Renamed
      <4>2. CASE dir' = [dir EXCEPT ![sweep] = Swept(sweep)]
        <5>1. \A m \in Levels : dir'[m] = IF m = sweep THEN Swept(m) ELSE dir[m]
          BY <1>1, <4>2
        <5> QED
          BY <4>1, <5>1
      <4> QED
        BY <3>1, <4>2
    <3> QED
      BY <1>3, <2>2, <2>3, <3>1, <3>2
  <2> QED
    BY <1>8, <2>4, <2>5, <2>6, <2>7, <2>8 DEF WriteThread, Rename
<1>9. CASE Destroy
  <2>1. DestroyGoes
    BY <1>9, DestroyStepGoes
  <2>2. logfd' = logfd \/ logfd' = [l \in Levels |-> Closed]
    BY <1>9 DEF Destroy, DestroyStops, DestroyCloses
  <2>3. DescriptorIsLive'
    BY <2>1, <2>2 DEF DescriptorIsLive, DestroyGoes
  <2>4. RenameInv'
    BY <1>2, <2>1, <2>2 DEF RenameInv, DestroyGoes, LogAt
  <2> QED
    BY <2>3, <2>4
<1>10. CASE Restart
  BY <1>10 DEF Restart, DescriptorIsLive, RenameInv, LogAt, Threads
<1>11. CASE Tick \/ TurnBack \/ UNCHANGED logVars
  <2>1. UNCHANGED <<logfd, straddled, dir, pc, msg>>
    BY <1>11 DEF Tick, TurnBack, timeless, logVars, diskVars, history
  <2> QED
    BY <2>1 DEF DescriptorIsLive, RenameInv, LogAt
<1> QED
  BY <1>5, <1>6, <1>7, <1>8, <1>9, <1>10, <1>11 DEF LogNext, Caller

------------------------------------------------------------------------------
(* The length of the files *)

LEMMA FilesAre ==
  ASSUME LogTypes
  PROVE  /\ \A i \in 1 .. Len(content) : content[i] \in Seq(1 .. MaxMessages)
         /\ \A l \in Levels, t \in 0 .. MaxTime : dir[l][t] \in 0 .. Len(content)
         /\ \A l \in Levels, t \in 0 .. MaxTime :
              dir[l][t] # Closed => dir[l][t] \in 1 .. Len(content)
         /\ \A l \in Levels, t \in 0 .. MaxTime :
              InFile(l, t) \in Seq(1 .. MaxMessages) /\ Len(InFile(l, t)) \in Nat
<1> DEFINE n == Len(content)
           S == Seq(1 .. MaxMessages)
<1>1. \A i \in 1 .. n : content[i] \in S
  BY DEF LogTypes
<1>2. n \in Nat
  <2>1. content \in Seq(Seq(1 .. MaxMessages))
    BY DEF LogTypes
  <2> QED
    BY <2>1
<1>3. \A l \in Levels, t \in 0 .. MaxTime : dir[l][t] \in 0 .. n
  BY DEF LogTypes
<1> HIDE DEF n
<1>4. \A l \in Levels, t \in 0 .. MaxTime : dir[l][t] # Closed => dir[l][t] \in 1 .. n
  <2>1. \A f \in 0 .. n : f # 0 => f \in 1 .. n
    BY <1>2
  <2> QED
    BY <1>3, <2>1 DEF Closed
<1>5. <<>> \in S /\ \A s \in S : Len(s) \in Nat
  OBVIOUS
<1> HIDE DEF S
<1>6. \A l \in Levels, t \in 0 .. MaxTime : InFile(l, t) \in S
  BY <1>1, <1>4, <1>5 DEF InFile
<1> QED
  BY <1>1, <1>3, <1>4, <1>5, <1>6 DEF n, S

(* A file that is created is empty, and the others stay as they are.       *)
LEMMA CreateKeepsFiles ==
  ASSUME LogTypes, NEW l \in Levels, Created(l)
  PROVE  \A m \in Levels, t \in 0 .. MaxTime : InFile(m, t)' \in {InFile(m, t), <<>>}
<1> SUFFICES ASSUME NEW m \in Levels, NEW t \in 0 .. MaxTime
             PROVE  InFile(m, t)' \in {InFile(m, t), <<>>}
  OBVIOUS
<1>1. /\ dir[m][t] # Closed => dir[m][t] \in 1 .. Len(content)
      /\ \A i \in 1 .. Len(content) : content'[i] = content[i]
  BY FilesAre DEF Created
<1>2. CASE (m # l \/ t # 0) \/ dir[l][0] # Closed
  <2>1. dir'[m][t] = dir[m][t]
    BY <1>2 DEF Created
  <2> QED
    BY <1>1, <2>1 DEF InFile
<1>3. CASE m = l /\ t = 0 /\ dir[l][0] = Closed
  <2>1. dir'[l][0] = OpenLive(l) /\ content'[OpenLive(l)] = <<>>
    BY <1>3 DEF Created
  <2> QED
    BY <1>3, <2>1 DEF InFile
<1> QED
  BY <1>2, <1>3

(* A file is looked at after every message, so it grows past the limit by  *)
(* one message only; a process that dies before it has looked leaves one   *)
(* more to the next.                                                       *)
LEMMA LengthStep ==
  ASSUME LogTypes, LabelInv, ApartInv, DescriptorIsLive, LengthInv, [LogNext]_logVars
  PROVE  LengthInv'
<1> DEFINE I == 0 .. MaxTime
<1>1. /\ 0 \in I /\ CacheSize \in Nat /\ restarts \in Nat
      /\ dir \in [Levels -> [I -> 0 .. Len(content)]]
      /\ straddled \in [Levels -> BOOLEAN] /\ unrenamed \in [Levels -> Nat]
      /\ \A m \in Levels : Excess(m) \in Nat
  <2>1. 0 \in I /\ CacheSize \in Nat /\ restarts \in Nat
    BY Parameters DEF LogTypes
  <2>2. unrenamed \in [Levels -> Nat] /\ \A m \in Levels : restarts + unrenamed[m] \in Nat
    BY <2>1 DEF LogTypes
  <2> QED
    BY <2>1, <2>2 DEF LogTypes, Excess
<1>2. \A t \in Callers \cup {Disk} : msg[t].level \in Levels
  BY DEF LogTypes
<1>3. \A m \in Levels, t \in I : Len(InFile(m, t)) \in Nat
  BY FilesAre
<1>4. \A m \in Levels : Overlong(m) \in {0, 1} /\ Overlong(m)' \in {0, 1}
  BY DEF Overlong
<1>5. Len(<<>>) = 0
  OBVIOUS
<1>6. ASSUME \A m \in Levels : Excess(m)' = Excess(m), \A m \in Levels : straddled[m] => straddled'[m],
             \A m \in Levels, t \in I : InFile(m, t)' \in {InFile(m, t), <<>>},
             \A m \in Levels : Overlong(m) <= Overlong(m)'
      PROVE  LengthInv'
  <2>1. SUFFICES ASSUME NEW m \in Levels, ~straddled'[m]
                 PROVE  /\ Len(InFile(m, 0)') <= CacheSize + Excess(m) + Overlong(m)'
                        /\ \A t \in 1 .. MaxTime : Len(InFile(m, t)') <= CacheSize + 1 + Excess(m)
    BY <1>6 DEF LengthInv
  <2>2. /\ Len(InFile(m, 0)) <= CacheSize + Excess(m) + Overlong(m)
        /\ \A t \in 1 .. MaxTime : Len(InFile(m, t)) <= CacheSize + 1 + Excess(m)
    BY <1>6, <2>1 DEF LengthInv
  <2>3. \A t \in I : Len(InFile(m, t)') \in {Len(InFile(m, t)), 0}
    BY <1>5, <1>6
  <2>4. 1 .. MaxTime \subseteq I
    OBVIOUS
  <2> HIDE DEF I
  <2>5. Overlong(m) \in {0, 1} /\ Overlong(m)' \in {0, 1} /\ Overlong(m) <= Overlong(m)'
    BY <1>4, <1>6
  <2>6. Len(InFile(m, 0)') <= CacheSize + Excess(m) + Overlong(m)'
    <3>1. Len(InFile(m, 0)') \in {Len(InFile(m, 0)), 0} /\ Len(InFile(m, 0)) \in Nat
      BY <1>1, <1>3, <2>3
    <3> QED
      BY <1>1, <2>2, <2>5, <3>1
  <2>7. ASSUME NEW t \in 1 .. MaxTime PROVE Len(InFile(m, t)') <= CacheSize + 1 + Excess(m)
    <3>1. /\ Len(InFile(m, t)') \in {Len(InFile(m, t)), 0} /\ Len(InFile(m, t)) \in Nat
          /\ Len(InFile(m, t)) <= CacheSize + 1 + Excess(m)
      BY <1>3, <2>2, <2>3, <2>4, <2>7
    <3> QED
      BY <1>1, <3>1
  <2> QED
    BY <2>6, <2>7
<1>7. ASSUME UNCHANGED <<pc, msg>> \/ (pc'[Disk] = pc[Disk] /\ msg'[Disk] = msg[Disk])
      PROVE  \A m \in Levels : Overlong(m) <= Overlong(m)'
  BY <1>4, <1>7 DEF Overlong
<1>8. ASSUME UNCHANGED <<dir, content>>
      PROVE  \A m \in Levels, t \in I : InFile(m, t)' \in {InFile(m, t), <<>>}
  BY <1>8 DEF InFile
<1> HIDE DEF I
<1>9. ASSUME NEW c \in Callers,
             (\E l \in Levels : LogMessage(c, l) \/ StreamFindsClosed(c, l)) \/ Caller(c)
      PROVE  LengthInv'
  <2>1. CallerKeeps(c)
    BY <1>9, CallersKeep
  <2>2. \A m \in Levels : Overlong(m) <= Overlong(m)' /\ Excess(m)' = Excess(m)
    BY <1>7, <2>1, <1>9 DEF CallerKeeps, Excess, LogMessage, StreamFindsClosed, Caller, StreamOpens,
                            StreamStores, StreamPushes, history
  <2>3. CASE StreamOpens(c)
    <3>1. UNCHANGED straddled
      BY <2>3 DEF StreamOpens
    <3>2. Create(msg[c].level) \/ UNCHANGED <<dir, content>>
      BY <2>3 DEF StreamOpens
    <3>3. \A m \in Levels, t \in I : InFile(m, t)' \in {InFile(m, t), <<>>}
      <4>1. CASE Create(msg[c].level)
        BY <1>2, <4>1, CreateIs, CreateKeepsFiles DEF I
      <4> QED
        BY <1>8, <3>2, <4>1
    <3> QED
      BY <1>6, <2>2, <3>1, <3>3
  <2>4. CASE StreamStores(c)
    <3>1. UNCHANGED <<dir, content>>
      BY <2>4 DEF StreamStores, diskVars
    <3>2. \A m \in Levels : straddled[m] => straddled'[m]
      <4> DEFINE l == msg[c].level
                 b == straddled[l] \/ (got[c] # Closed /\ Moves(got[c], l))
      <4>1. straddled' = [straddled EXCEPT ![l] = b] /\ (straddled[l] => b)
        BY <2>4 DEF StreamStores
      <4> HIDE DEF l, b
      <4> QED
        BY <1>1, <4>1
    <3> QED
      BY <1>6, <1>8, <2>2, <3>1, <3>2
  <2>5. CASE (\E l \in Levels : LogMessage(c, l) \/ StreamFindsClosed(c, l)) \/ StreamPushes(c)
    <3>1. UNCHANGED <<dir, content, straddled>>
      BY <2>5 DEF LogMessage, StreamFindsClosed, StreamPushes, diskVars, history
    <3> QED
      BY <1>6, <1>8, <2>2, <3>1
  <2> QED
    BY <1>9, <2>3, <2>4, <2>5 DEF Caller
<1>10. CASE WriteThread
  <2>1. DiskKeeps /\ DiskGoes
    BY <1>10, DiskStepKeeps, DiskStepGoes
  <2>2. UNCHANGED <<straddled, restarts>>
    BY <2>1 DEF DiskKeeps
  <2>3. pc[Disk] \notin {"measure", "rename"} => \A m \in Levels : Overlong(m) = 0
    BY DEF Overlong
  <2>4. CASE Pop \/ DiskOpens \/ WriteFails \/ RemoveTimeoutLogFile
    <3>e. \A m \in Levels : Excess(m)' = Excess(m)
      BY <2>2, <2>4 DEF Excess, Pop, DiskOpens, WriteFails, RemoveTimeoutLogFile, history
    <3>1. \A m \in Levels : Overlong(m) <= Overlong(m)'
      <4>1. pc[Disk] \notin {"measure", "rename"}
        BY <2>4 DEF Pop, DiskOpens, WriteFails, RemoveTimeoutLogFile, LogAt
      <4> QED
        BY <1>4, <2>3, <4>1
    <3>2. \A m \in Levels, t \in I : InFile(m, t)' \in {InFile(m, t), <<>>}
      <4>1. CASE UNCHANGED <<dir, content>>
        BY <1>8, <4>1
      <4>2. CASE Create(msg[Disk].level)
        BY <1>2, <4>2, CreateIs, CreateKeepsFiles DEF I
      <4>3. CASE dir' = [dir EXCEPT ![sweep] = Swept(sweep)] /\ UNCHANGED content
        <5>1. \A m \in Levels : dir'[m] = IF m = sweep THEN Swept(m) ELSE dir[m]
          BY <1>1, <4>3
        <5>2. \A m \in Levels, t \in I : Swept(m)[t] \in {Closed, dir[m][t]}
          BY DEF Swept, I
        <5>3. \A m \in Levels, t \in I : dir'[m][t] \in {Closed, dir[m][t]}
          BY <5>1, <5>2
        <5> QED
          BY <4>3, <5>3 DEF InFile
      <4>4. \/ UNCHANGED <<dir, content>> \/ Create(msg[Disk].level)
            \/ dir' = [dir EXCEPT ![sweep] = Swept(sweep)] /\ UNCHANGED content
        BY <2>4 DEF Pop, DiskOpens, WriteFails, RemoveTimeoutLogFile, diskVars
      <4> QED
        BY <4>1, <4>2, <4>3, <4>4
    <3> QED
      BY <1>6, <2>2, <3>e, <3>1, <3>2
  <2>5. CASE WriteAll
    <3>e. \A m \in Levels : Excess(m)' = Excess(m)
      BY <2>2, <2>5 DEF Excess, WriteAll
    <3>0. PICK l \in Levels : l = msg[Disk].level
      BY <1>2
    <3> DEFINE f == logfd[l]
               i == msg[Disk].id
    <3>1. /\ f # Closed /\ content' = [content EXCEPT ![f] = Append(@, i)] /\ UNCHANGED <<dir, msg>>
          /\ pc[Disk] = "write" /\ pc'[Disk] = "measure"
      <4>1. pc[Disk] = "write" /\ pc'[Disk] = "measure"
        BY <2>1, <2>5 DEF DiskGoes, WriteAll, LogAt, Pop, DiskOpens, Measure, Rename, RemoveTimeoutLogFile
      <4> QED
        BY <2>5, <3>0, <4>1 DEF WriteAll
    <3>2. Overlong(l) = 0 /\ Overlong(l)' = 1 /\ \A m \in Levels : Overlong(m) <= Overlong(m)'
      <4>1. Overlong(l) = 0
        BY <3>1 DEF Overlong
      <4>2. Overlong(l)' = 1
        BY <3>0, <3>1 DEF Overlong
      <4> QED
        BY <1>4, <2>3, <3>1, <4>1, <4>2
    <3> HIDE DEF f, i
    <3>3. f \in 1 .. Len(content) => /\ content'[f] = Append(content[f], i)
                                     /\ \A j \in 1 .. Len(content) : j # f => content'[j] = content[j]
      <4>1. content \in Seq(Seq(1 .. MaxMessages))
        BY DEF LogTypes
      <4> QED
        BY <3>1, <4>1
    <3>4. f \in 1 .. Len(content)
      <4>1. f \in 0 .. Len(content)
        BY <3>1 DEF LogTypes, f
      <4> QED
        BY <3>1, <4>1 DEF Closed
    <3>5. \A m \in Levels, t \in I : dir[m][t] # f => InFile(m, t)' = InFile(m, t)
      <4>1. \A m \in Levels, t \in I : dir[m][t] # Closed => dir[m][t] \in 1 .. Len(content)
        BY FilesAre DEF I
      <4> QED
        BY <3>1, <3>3, <3>4, <4>1 DEF InFile
    <3>6. SUFFICES ASSUME NEW m \in Levels, ~straddled[m]
                   PROVE  /\ Len(InFile(m, 0)') <= CacheSize + Excess(m) + Overlong(m)'
                          /\ \A t \in 1 .. MaxTime : Len(InFile(m, t)') <= CacheSize + 1 + Excess(m)
      BY <2>2, <3>e DEF LengthInv
    <3>7. /\ Len(InFile(m, 0)) <= CacheSize + Excess(m) + Overlong(m)
          /\ \A t \in 1 .. MaxTime : Len(InFile(m, t)) <= CacheSize + 1 + Excess(m)
      BY <3>6 DEF LengthInv
    <3>8. 1 .. MaxTime \subseteq I /\ \A t \in 1 .. MaxTime : t # 0
      BY DEF I
    <3>9. Len(InFile(m, 0)) \in Nat
      BY <1>1, <1>3
    <3>10. CASE m # l
      <4>1. \A t \in I : dir[m][t] # f
        BY <3>1, <3>10 DEF ApartInv, StoredApart, f, I
      <4>2. \A t \in I : InFile(m, t)' = InFile(m, t)
        BY <3>5, <4>1
      <4>3. Overlong(m) \in {0, 1} /\ Overlong(m)' \in {0, 1} /\ Overlong(m) <= Overlong(m)'
        BY <1>4, <3>2
      <4>4. Len(InFile(m, 0)') <= CacheSize + Excess(m) + Overlong(m)'
        <5>1. Len(InFile(m, 0)') = Len(InFile(m, 0))
          BY <1>1, <4>2
        <5> QED
          BY <1>1, <3>7, <3>9, <4>3, <5>1
      <4> QED
        BY <3>7, <3>8, <4>2, <4>4
    <3>11. CASE m = l
      <4>1. f = dir[l][0]
        BY <3>1, <3>6, <3>11 DEF DescriptorIsLive, f
      <4>2. \A t \in 1 .. MaxTime : dir[l][t] # f
        BY <1>1, <3>1, <3>8, <4>1 DEF ApartInv, NamesApart, I
      <4>3. InFile(l, 0)' = Append(InFile(l, 0), i)
        BY <3>1, <3>3, <3>4, <4>1 DEF InFile
      <4>4. Len(InFile(l, 0)') = Len(InFile(l, 0)) + 1
        <5>1. InFile(l, 0) \in Seq(1 .. MaxMessages)
          BY <1>1, <3>1, FilesAre DEF I
        <5> QED
          BY <4>3, <5>1
      <4>5. \A t \in 1 .. MaxTime : InFile(l, t)' = InFile(l, t)
        BY <3>1, <3>5, <3>8, <4>2
      <4>6. Len(InFile(l, 0)') <= CacheSize + Excess(l) + Overlong(l)'
        BY <1>1, <3>2, <3>7, <3>9, <3>11, <4>4
      <4> QED
        BY <3>7, <3>11, <4>5, <4>6
    <3> QED
      BY <3>10, <3>11
  <2>6. CASE Measure
    <3>e. \A m \in Levels : Excess(m)' = Excess(m)
      BY <2>2, <2>6 DEF Excess, Measure, history
    <3> DEFINE l == msg[Disk].level
    <3>1. /\ UNCHANGED <<dir, content, msg>> /\ l \in Levels /\ pc[Disk] = "measure"
      BY <1>2, <2>6 DEF Measure, LogAt, diskVars
    <3>2. CASE TooLong(l)
      <4>1. pc'[Disk] = "rename"
        BY <2>1, <2>6, <3>1, <3>2 DEF DiskGoes, Pop, DiskOpens, WriteAll, WriteFails, Rename,
                                     RemoveTimeoutLogFile, LogAt
      <4>2. \A m \in Levels : Overlong(m) <= Overlong(m)'
        BY <1>4, <3>1, <4>1 DEF Overlong
      <4> QED
        BY <1>6, <1>8, <2>2, <3>e, <3>1, <4>2
    <3>3. CASE ~TooLong(l)
      <4>1. pc'[Disk] = "pop"
        BY <2>1, <2>6, <3>1, <3>3 DEF DiskGoes, Pop, DiskOpens, WriteAll, WriteFails, Rename,
                                     RemoveTimeoutLogFile, LogAt
      <4>2. \A m \in Levels : Overlong(m)' = 0 /\ (m # l => Overlong(m) = 0)
        BY <4>1 DEF Overlong
      <4>3. Len(InFile(l, 0)) <= CacheSize
        <5>1. CASE dir[l][0] = Closed
          BY <1>1, <1>5, <5>1 DEF InFile
        <5>2. CASE dir[l][0] # Closed
          <6>1. InFile(l, 0) = content[dir[l][0]] /\ ~(Len(content[dir[l][0]]) > CacheSize)
            BY <3>3, <5>2 DEF InFile, TooLong
          <6>2. Len(InFile(l, 0)) \in Nat
            BY <1>1, <1>3, <3>1
          <6> HIDE DEF l
          <6> QED
            BY <1>1, <6>1, <6>2
        <5> QED
          BY <5>1, <5>2
      <4>4. SUFFICES ASSUME NEW m \in Levels, ~straddled[m]
                     PROVE  /\ Len(InFile(m, 0)) <= CacheSize + Excess(m)
                            /\ \A t \in 1 .. MaxTime : Len(InFile(m, t)) <= CacheSize + 1 + Excess(m)
        <5>1. \A m \in Levels, t \in 0 .. MaxTime : InFile(m, t)' = InFile(m, t)
          BY <3>1 DEF InFile
        <5>2. \A m \in Levels : CacheSize + Excess(m) + 0 = CacheSize + Excess(m)
          BY <1>1
        <5>3. 0 \in 0 .. MaxTime /\ 1 .. MaxTime \subseteq 0 .. MaxTime
          BY Parameters
        <5> QED
          BY <2>2, <3>e, <4>2, <5>1, <5>2, <5>3 DEF LengthInv
      <4>5. /\ Len(InFile(m, 0)) <= CacheSize + Excess(m) + Overlong(m)
            /\ \A t \in 1 .. MaxTime : Len(InFile(m, t)) <= CacheSize + 1 + Excess(m)
        BY <4>4 DEF LengthInv
      <4>6. Len(InFile(m, 0)) \in Nat
        BY <1>1, <1>3
      <4> HIDE DEF l
      <4>7. Len(InFile(m, 0)) <= CacheSize + Excess(m)
        <5>1. CASE m = l
          BY <1>1, <4>3, <4>6, <5>1
        <5>2. CASE m # l
          BY <1>1, <4>2, <4>5, <4>6, <5>2
        <5> QED
          BY <5>1, <5>2
      <4> QED
        BY <4>5, <4>7
    <3> QED
      BY <3>2, <3>3
  <2>7. CASE Rename /\ Moved(msg[Disk].level)
    <3>e. \A m \in Levels : Excess(m)' = Excess(m)
      BY <2>2, <2>7 DEF Excess, Rename, Moved
    <3>0. PICK l \in Levels : l = msg[Disk].level
      BY <1>2
    <3>1. /\ dir' = [dir EXCEPT ![l][now] = dir[l][0], ![l][0] = Closed]
          /\ UNCHANGED <<content, msg>> /\ now \in I /\ now # 0
          /\ pc[Disk] = "rename"
      <4>1. now \in I /\ now # 0
        BY Parameters DEF LogTypes, I
      <4> QED
        BY <2>7, <3>0, <4>1 DEF Rename, Moved, LogAt
    <3>2. \A m \in Levels : Overlong(m) = (IF m = l THEN 1 ELSE 0)
      BY <3>0, <3>1 DEF Overlong
    <3>3. \A m \in Levels, t \in I :
            dir'[m][t] = IF m = l /\ t = 0 THEN Closed
                         ELSE IF m = l /\ t = now THEN dir[l][0] ELSE dir[m][t]
      BY <1>1, <3>1
    <3>4. SUFFICES ASSUME NEW m \in Levels, ~straddled[m]
                   PROVE  /\ Len(InFile(m, 0)') <= CacheSize + Excess(m) + Overlong(m)'
                          /\ \A t \in 1 .. MaxTime : Len(InFile(m, t)') <= CacheSize + 1 + Excess(m)
      BY <2>2, <3>e DEF LengthInv
    <3>5. /\ Len(InFile(m, 0)) <= CacheSize + Excess(m) + Overlong(m)
          /\ \A t \in 1 .. MaxTime : Len(InFile(m, t)) <= CacheSize + 1 + Excess(m)
      BY <3>4 DEF LengthInv
    <3>6. /\ 1 .. MaxTime \subseteq I /\ \A t \in 1 .. MaxTime : t # 0
          /\ Len(InFile(m, 0)) \in Nat /\ Overlong(m)' \in {0, 1}
      BY <1>1, <1>3, <1>4 DEF I
    <3>7. CASE m # l
      <4>1. \A t \in I : InFile(m, t)' = InFile(m, t)
        <5>1. \A t \in I : dir'[m][t] = dir[m][t]
          BY <3>3, <3>7
        <5>2. content' = content
          BY <3>1
        <5> QED
          BY <5>1, <5>2 DEF InFile
      <4>2. Len(InFile(m, 0)') = Len(InFile(m, 0)) /\ Overlong(m) = 0
        BY <1>1, <3>2, <3>7, <4>1
      <4>3. Len(InFile(m, 0)') <= CacheSize + Excess(m) + Overlong(m)'
        BY <1>1, <3>5, <3>6, <4>2
      <4> QED
        BY <3>5, <3>6, <4>1, <4>3
    <3>8. CASE m = l
      <4>1. InFile(l, 0)' = <<>>
        BY <1>1, <3>1, <3>3 DEF InFile
      <4>2. Len(InFile(m, 0)') <= CacheSize + Excess(m) + Overlong(m)'
        BY <1>1, <1>5, <3>6, <3>8, <4>1
      <4>3. \A t \in 1 .. MaxTime :
              InFile(l, t)' = IF t = now THEN InFile(l, 0) ELSE InFile(l, t)
        <5>1. \A t \in 1 .. MaxTime : dir'[l][t] = IF t = now THEN dir[l][0] ELSE dir[l][t]
          BY <3>3, <3>6
        <5>2. content' = content
          BY <3>1
        <5> QED
          BY <5>1, <5>2 DEF InFile
      <4>4. Len(InFile(l, 0)) <= CacheSize + 1 + Excess(m)
        BY <1>1, <3>2, <3>5, <3>6, <3>8
      <4> QED
        BY <3>5, <3>8, <4>2, <4>3, <4>4
    <3> QED
      BY <3>7, <3>8
  <2>8. CASE Rename /\ NotMoved(msg[Disk].level)
    <3>0. PICK l \in Levels : l = msg[Disk].level
      BY <1>2
    <3>1. UNCHANGED <<dir, content, msg>> /\ unrenamed' = [unrenamed EXCEPT ![l] = @ + 1]
      BY <2>8, <3>0 DEF Rename, NotMoved
    <3>2. pc[Disk] = "rename" /\ pc'[Disk] = "sweep"
      BY <2>1, <2>8 DEF DiskGoes, Pop, DiskOpens, WriteAll, WriteFails, Measure, Rename,
                        RemoveTimeoutLogFile, LogAt
    <3>3. \A m \in Levels : Overlong(m) = (IF m = l THEN 1 ELSE 0) /\ Overlong(m)' = 0
      BY <3>0, <3>1, <3>2 DEF Overlong
    <3>4. \A m \in Levels : Excess(m)' = IF m = l THEN Excess(m) + 1 ELSE Excess(m)
      BY <1>1, <2>2, <3>1 DEF Excess
    <3>5. \A m \in Levels, t \in 0 .. MaxTime : InFile(m, t)' = InFile(m, t)
      BY <3>1 DEF InFile
    <3>6. 0 \in 0 .. MaxTime /\ 1 .. MaxTime \subseteq 0 .. MaxTime
      BY Parameters
    <3>7. SUFFICES ASSUME NEW m \in Levels, ~straddled[m]
                   PROVE  /\ Len(InFile(m, 0)) <= CacheSize + Excess(m)' + Overlong(m)'
                          /\ \A t \in 1 .. MaxTime : Len(InFile(m, t)) <= CacheSize + 1 + Excess(m)'
      BY <2>2, <3>5, <3>6 DEF LengthInv
    <3>8. /\ Len(InFile(m, 0)) <= CacheSize + Excess(m) + Overlong(m)
          /\ \A t \in 1 .. MaxTime : Len(InFile(m, t)) <= CacheSize + 1 + Excess(m)
      BY <3>7 DEF LengthInv
    <3>9. /\ Len(InFile(m, 0)) \in Nat /\ \A t \in 1 .. MaxTime : Len(InFile(m, t)) \in Nat
          /\ Excess(m) \in Nat /\ Excess(m)' \in {Excess(m), Excess(m) + 1}
          /\ Excess(m) + Overlong(m) = Excess(m)' + Overlong(m)'
      <4>1. \A t \in 0 .. MaxTime : Len(InFile(m, t)) \in Nat
        BY FilesAre
      <4>2. Excess(m) \in Nat
        BY <1>1
      <4>3. \/ Overlong(m) = 1 /\ Overlong(m)' = 0 /\ Excess(m)' = Excess(m) + 1
            \/ Overlong(m) = 0 /\ Overlong(m)' = 0 /\ Excess(m)' = Excess(m)
        BY <3>3, <3>4
      <4>4. Excess(m)' \in {Excess(m), Excess(m) + 1}
        BY <4>3
      <4>5. Len(InFile(m, 0)) \in Nat /\ \A t \in 1 .. MaxTime : Len(InFile(m, t)) \in Nat
        BY <3>6, <4>1
      <4>6. Excess(m) + Overlong(m) = Excess(m)' + Overlong(m)'
        BY <4>2, <4>3
      <4> QED
        BY <4>2, <4>4, <4>5, <4>6
    <3>10. Len(InFile(m, 0)) <= CacheSize + Excess(m)' + Overlong(m)'
      <4>1. Overlong(m) \in {0, 1} /\ Overlong(m)' = 0
        BY <3>3
      <4>2. Len(InFile(m, 0)) <= CacheSize + (Excess(m) + Overlong(m))
        BY <1>1, <3>8, <3>9, <4>1, Parameters
      <4>3. Len(InFile(m, 0)) <= CacheSize + (Excess(m)' + Overlong(m)')
        BY <3>9, <4>2
      <4> QED
        BY <1>1, <3>9, <4>1, <4>3, Parameters
    <3>11. ASSUME NEW t \in 1 .. MaxTime PROVE Len(InFile(m, t)) <= CacheSize + 1 + Excess(m)'
      <4>1. Len(InFile(m, t)) <= CacheSize + 1 + Excess(m) /\ Len(InFile(m, t)) \in Nat
        BY <3>8, <3>9
      <4> QED
        BY <1>1, <3>9, <4>1
    <3> QED
      BY <3>10, <3>11
  <2> QED
    BY <1>10, <2>4, <2>5, <2>6, <2>7, <2>8 DEF WriteThread, Rename
<1>11. CASE Destroy
  <2>1. DestroyGoes
    BY <1>11, DestroyStepGoes
  <2> QED
    BY <1>6, <1>7, <1>8, <2>1 DEF DestroyGoes, Excess
<1>12. CASE Restart
  <2>1. /\ UNCHANGED <<dir, content, straddled>> /\ restarts' = restarts + 1
        /\ pc'[Disk] = "pop" /\ \A m \in Levels : Excess(m)' = Excess(m) + 1
    <3>1. /\ UNCHANGED <<dir, content, straddled, unrenamed>> /\ restarts' = restarts + 1
          /\ pc'[Disk] = "pop"
      BY <1>12 DEF Restart, Threads, diskVars
    <3> QED
      BY <1>1, <3>1 DEF Excess
  <2>2. SUFFICES ASSUME NEW m \in Levels, ~straddled[m]
                 PROVE  /\ Len(InFile(m, 0)) <= CacheSize + Excess(m)' + Overlong(m)'
                        /\ \A t \in 1 .. MaxTime : Len(InFile(m, t)) <= CacheSize + 1 + Excess(m)'
    <3>1. \A m \in Levels, t \in 0 .. MaxTime : InFile(m, t)' = InFile(m, t)
      BY <2>1 DEF InFile
    <3>2. 0 \in 0 .. MaxTime /\ 1 .. MaxTime \subseteq 0 .. MaxTime
      BY Parameters
    <3> QED
      BY <2>1, <3>1, <3>2 DEF LengthInv
  <2>3. /\ Len(InFile(m, 0)) <= CacheSize + Excess(m) + Overlong(m)
        /\ \A t \in 1 .. MaxTime : Len(InFile(m, t)) <= CacheSize + 1 + Excess(m)
    BY <2>2 DEF LengthInv
  <2>4. /\ Overlong(m) \in {0, 1} /\ Overlong(m)' = 0 /\ Len(InFile(m, 0)) \in Nat
        /\ \A t \in 1 .. MaxTime : Len(InFile(m, t)) \in Nat
    <3>1. 1 .. MaxTime \subseteq I
      BY DEF I
    <3>2. Overlong(m)' = 0
      BY <2>1 DEF Overlong
    <3> QED
      BY <1>1, <1>3, <1>4, <3>1, <3>2
  <2>5. Len(InFile(m, 0)) <= CacheSize + Excess(m)' + Overlong(m)'
    BY <1>1, <2>1, <2>3, <2>4
  <2>6. ASSUME NEW t \in 1 .. MaxTime PROVE Len(InFile(m, t)) <= CacheSize + 1 + Excess(m)'
    <3>1. Len(InFile(m, t)) \in Nat /\ Len(InFile(m, t)) <= CacheSize + 1 + Excess(m)
      BY <2>3, <2>4, <2>6
    <3> QED
      BY <1>1, <2>1, <3>1
  <2> QED
    BY <2>5, <2>6
<1>13. CASE Tick \/ TurnBack \/ UNCHANGED logVars
  <2>1. /\ UNCHANGED <<dir, content, straddled, pc, msg>>
        /\ \A m \in Levels : Excess(m)' = Excess(m)
    BY <1>13 DEF Tick, TurnBack, timeless, logVars, diskVars, history, Excess
  <2> QED
    BY <1>6, <1>7, <1>8, <2>1
<1> QED
  BY <1>9, <1>10, <1>11, <1>12, <1>13 DEF LogNext

------------------------------------------------------------------------------
(* The number of renamed files *)

LEMMA RenamedIsFinite ==
  ASSUME NEW l \in Levels
  PROVE  IsFiniteSet(Renamed(l)) /\ Cardinality(Renamed(l)) \in Nat
<1>1. IsFiniteSet(1 .. MaxTime)
  <2>1. 1 \in Int /\ MaxTime \in Int
    BY Parameters
  <2> QED
    BY <2>1, FS_Interval
<1>2. Renamed(l) \in SUBSET (1 .. MaxTime)
  BY DEF Renamed
<1> QED
  BY <1>1, <1>2, Smaller

(* The sweep keeps the files before which fewer than m_CacheFileNum newer  *)
(* ones come: no two of them have the same number of newer ones.           *)
LEMMA KeptIsSmall ==
  ASSUME NEW l \in Levels
  PROVE  Cardinality(Kept(l)) \in Nat /\ Cardinality(Kept(l)) <= CacheFileNum
<1> DEFINE R == Renamed(l)
           Newer(t) == {u \in R : u > t}
           rank == [t \in Kept(l) |-> Cardinality(Newer(t))]
           Ranks == 0 .. CacheFileNum - 1
<1>1. IsFiniteSet(R) /\ R \subseteq Nat
  BY RenamedIsFinite DEF Renamed
<1>2. \A t \in R : IsFiniteSet(Newer(t)) /\ Cardinality(Newer(t)) \in Nat
  <2>1. \A t \in R : Newer(t) \in SUBSET R
    OBVIOUS
  <2> QED
    BY <1>1, <2>1, Smaller
<1>3. Kept(l) \subseteq R /\ \A t \in Kept(l) : Cardinality(Newer(t)) < CacheFileNum
  BY DEF Kept
<1>4. ASSUME NEW t \in R, NEW u \in R, t < u
      PROVE  Cardinality(Newer(u)) < Cardinality(Newer(t))
  <2>1. u \in Newer(t) /\ u \notin Newer(u)
    BY <1>1, <1>4
  <2>2. Newer(u) \in SUBSET (Newer(t) \ {u})
    BY <1>1, <1>4, <2>1
  <2> DEFINE N == Newer(t)
             M == Newer(u)
  <2>3. IsFiniteSet(N) /\ Cardinality(M) \in Nat
    BY <1>2
  <2> HIDE DEF N, M
  <2>4. IsFiniteSet(N \ {u}) /\ Cardinality(N) \in Nat /\ Cardinality(N \ {u}) = Cardinality(N) - 1
    BY <2>1, <2>3, LosesOne DEF N
  <2>5. Cardinality(M) <= Cardinality(N \ {u})
    BY <2>2, <2>4, Smaller DEF N, M
  <2>6. Cardinality(M) < Cardinality(N)
    BY <2>3, <2>4, <2>5
  <2> QED
    BY <2>6 DEF N, M
<1>5. IsFiniteSet(Kept(l)) /\ Cardinality(Kept(l)) \in Nat
  BY <1>1, <1>3, Smaller
<1>6. /\ IsFiniteSet(Ranks) /\ Cardinality(Ranks) = CacheFileNum
  <2>1. 0 \in Int /\ CacheFileNum - 1 \in Int /\ CacheFileNum \in Nat
    BY Parameters
  <2>2. /\ IsFiniteSet(0 .. CacheFileNum - 1)
        /\ Cardinality(0 .. CacheFileNum - 1) = IF 0 > CacheFileNum - 1 THEN 0
                                               ELSE CacheFileNum - 1 - 0 + 1
    BY <2>1, FS_Interval
  <2> QED
    BY <2>1, <2>2
<1>7. rank \in Injection(Kept(l), Ranks)
  <2>1. \A t \in Kept(l) : Cardinality(Newer(t)) \in Ranks
    <3> SUFFICES ASSUME NEW t \in Kept(l) PROVE Cardinality(Newer(t)) \in Ranks
      OBVIOUS
    <3> DEFINE k == Cardinality(Newer(t))
    <3>1. k \in Nat /\ k < CacheFileNum /\ CacheFileNum \in Nat
      BY <1>2, <1>3, Parameters
    <3> HIDE DEF k
    <3>2. k \in Ranks
      BY <3>1
    <3> QED
      BY <3>2 DEF k
  <2>2. ASSUME NEW t \in Kept(l), NEW u \in Kept(l), Cardinality(Newer(t)) = Cardinality(Newer(u))
        PROVE  t = u
    <3>1. t \in Nat /\ u \in Nat /\ t \in R /\ u \in R
      BY <1>1, <1>3
    <3>2. Cardinality(Newer(t)) \in Nat /\ Cardinality(Newer(u)) \in Nat
      BY <1>2, <3>1
    <3>3. ~(t < u) /\ ~(u < t)
      <4> DEFINE a == Cardinality(Newer(t))
                 b == Cardinality(Newer(u))
      <4>1. (t < u => b < a) /\ (u < t => a < b)
        BY <1>4, <3>1
      <4>2. a \in Nat /\ b \in Nat /\ a = b
        BY <2>2, <3>2
      <4> HIDE DEF a, b
      <4> QED
        BY <4>1, <4>2
    <3> QED
      BY <3>1, <3>3
  <2> HIDE DEF Newer, Ranks
  <2> QED
    BY <2>1, <2>2 DEF Injection, IsInjective
<1>8. Cardinality(Kept(l)) <= Cardinality(Ranks)
  <2> HIDE DEF Ranks, rank
  <2> QED
    BY <1>6, <1>7, FS_Injection
<1> QED
  BY <1>5, <1>6, <1>8

(* The sweep that follows every renaming goes through all levels, so that  *)
(* the level that has got a file loses its oldest one again.               *)
LEMMA SweepStep ==
  ASSUME LogTypes, LabelInv, SweepInv, [LogNext]_logVars
  PROVE  SweepInv'
<1> DEFINE I == 0 .. MaxTime
<1>1. /\ CacheFileNum \in Nat /\ restarts \in Nat /\ sweep \in Nat /\ now \in 1 .. MaxTime
      /\ 1 .. MaxTime \subseteq I /\ 0 \in I /\ NumLevels \in Nat /\ Levels \subseteq Nat
  BY Parameters DEF LogTypes
<1>2. dir \in [Levels -> [I -> 0 .. Len(content)]]
  BY DEF LogTypes
<1>3. \A l \in Levels : Cardinality(Renamed(l)) \in Nat /\ IsFiniteSet(Renamed(l))
  BY RenamedIsFinite
<1>4. \A l \in Levels : Unswept(l) \in {0, 1} /\ Unswept(l)' \in {0, 1}
  BY DEF Unswept
<1>5. \A t \in Callers \cup {Disk} : msg[t].level \in Levels
  BY DEF LogTypes
<1>6. ASSUME exhausted => exhausted', restarts <= restarts', restarts' \in Nat,
             \A l \in Levels : Renamed(l)' = Renamed(l),
             \A l \in Levels : restarts + Unswept(l) <= restarts' + Unswept(l)'
      PROVE  SweepInv'
  <2> SUFFICES ASSUME ~exhausted', NEW l \in Levels
               PROVE  Cardinality(Renamed(l)') <= CacheFileNum + restarts' + Unswept(l)'
    BY DEF SweepInv
  <2>1. Cardinality(Renamed(l)) <= CacheFileNum + restarts + Unswept(l)
    BY <1>6 DEF SweepInv
  <2>2. Cardinality(Renamed(l)') = Cardinality(Renamed(l))
    BY <1>6
  <2>3. /\ Unswept(l) \in {0, 1} /\ Unswept(l)' \in {0, 1} /\ Cardinality(Renamed(l)) \in Nat
        /\ restarts + Unswept(l) <= restarts' + Unswept(l)'
    BY <1>3, <1>4, <1>6
  <2> QED
    BY <1>1, <1>6, <2>1, <2>2, <2>3
<1>7. ASSUME UNCHANGED dir PROVE \A l \in Levels : Renamed(l)' = Renamed(l)
  BY <1>7 DEF Renamed
<1>8. ASSUME NEW k \in Levels, Created(k) PROVE \A l \in Levels : Renamed(l)' = Renamed(l)
  <2>1. \A l \in Levels, t \in I : t # 0 => dir'[l][t] = dir[l][t]
    BY <1>8 DEF Created
  <2>2. \A t \in 1 .. MaxTime : t \in I /\ t # 0
    BY <1>1
  <2> HIDE DEF I
  <2> QED
    BY <2>1, <2>2 DEF Renamed
<1>9. ASSUME UNCHANGED restarts, UNCHANGED sweep \/ pc[Disk] # "sweep",
             pc'[Disk] = pc[Disk] \/ pc[Disk] # "sweep"
      PROVE  \A l \in Levels : restarts + Unswept(l) <= restarts' + Unswept(l)'
  <2> SUFFICES ASSUME NEW l \in Levels
               PROVE  restarts + Unswept(l) <= restarts' + Unswept(l)'
    OBVIOUS
  <2>1. Unswept(l) = 0 \/ Unswept(l)' = Unswept(l)
    BY <1>9 DEF Unswept, LogAt
  <2> QED
    BY <1>1, <1>4, <1>9, <2>1
<1> HIDE DEF I
<1>10. ASSUME NEW c \in Callers,
              (\E l \in Levels : LogMessage(c, l) \/ StreamFindsClosed(c, l)) \/ Caller(c)
       PROVE  SweepInv'
  <2>1. CallerKeeps(c)
    BY <1>10, CallersKeep
  <2>2. /\ UNCHANGED restarts
        /\ \A l \in Levels : restarts + Unswept(l) <= restarts' + Unswept(l)'
    BY <1>9, <2>1 DEF CallerKeeps
  <2>3. exhausted => exhausted'
    BY <1>10 DEF LogMessage, StreamFindsClosed, Caller, StreamOpens, StreamStores, StreamPushes, history
  <2>4. Create(msg[c].level) \/ UNCHANGED dir
    BY <1>10 DEF LogMessage, StreamFindsClosed, Caller, StreamOpens, StreamStores, StreamPushes, diskVars
  <2>5. \A l \in Levels : Renamed(l)' = Renamed(l)
    BY <1>5, <1>7, <1>8, <2>4, CreateIs
  <2> QED
    BY <1>1, <1>6, <2>2, <2>3, <2>5
<1>11. CASE WriteThread
  <2>1. DiskKeeps /\ DiskGoes
    BY <1>11, DiskStepKeeps, DiskStepGoes
  <2>2. UNCHANGED restarts
    BY <2>1 DEF DiskKeeps
  <2>3. CASE Pop \/ DiskOpens \/ WriteAll \/ WriteFails \/ Measure
    <3>1. pc[Disk] # "sweep"
      BY <2>3 DEF Pop, DiskOpens, WriteAll, WriteFails, Measure, LogAt
    <3>2. exhausted => exhausted'
      BY <2>3 DEF Pop, DiskOpens, WriteAll, WriteFails, Measure, history
    <3>3. Create(msg[Disk].level) \/ UNCHANGED dir
      BY <2>3 DEF Pop, DiskOpens, WriteAll, WriteFails, Measure, diskVars
    <3>4. \A l \in Levels : Renamed(l)' = Renamed(l)
      BY <1>5, <1>7, <1>8, <3>3, CreateIs
    <3> QED
      BY <1>1, <1>6, <1>9, <2>2, <3>1, <3>2, <3>4
  <2>4. CASE Rename /\ Moved(msg[Disk].level)
    <3>0. PICK l \in Levels : l = msg[Disk].level
      BY <1>5
    <3>1. /\ dir' = [dir EXCEPT ![l][now] = dir[l][0], ![l][0] = Closed]
          /\ pc[Disk] = "rename" /\ pc'[Disk] = "sweep" /\ sweep' = 0 /\ exhausted' = exhausted
      <4>1. pc[Disk] = "rename" /\ pc'[Disk] = "sweep"
        BY <2>1, <2>4 DEF DiskGoes, Pop, DiskOpens, WriteAll, WriteFails, Measure, Rename,
                          RemoveTimeoutLogFile, LogAt
      <4> QED
        BY <2>4, <3>0, <4>1 DEF Rename, Moved
    <3>2. \A m \in Levels : m # l => dir'[m] = dir[m]
      BY <1>2, <3>1
    <3>3. \A t \in 1 .. MaxTime : t # now => dir'[l][t] = dir[l][t]
      BY <1>1, <1>2, <3>1
    <3>4. \A m \in Levels : Renamed(m)' \subseteq Renamed(m) \cup {now}
      BY <3>2, <3>3 DEF Renamed
    <3> SUFFICES ASSUME ~exhausted, NEW m \in Levels
                 PROVE  Cardinality(Renamed(m)') <= CacheFileNum + restarts + Unswept(m)'
      BY <2>2, <3>1 DEF SweepInv
    <3>5. Unswept(m) = 0 /\ Unswept(m)' = 1
      <4>1. 0 <= m
        BY <1>1
      <4> QED
        BY <3>1, <4>1 DEF Unswept, LogAt
    <3>6. Cardinality(Renamed(m)) <= CacheFileNum + restarts + Unswept(m)
      BY DEF SweepInv
    <3>7. Cardinality(Renamed(m)') \in Nat /\ Cardinality(Renamed(m)') <= Cardinality(Renamed(m)) + 1
      BY <1>3, <3>4, GainsOne
    <3> QED
      BY <1>1, <1>3, <3>5, <3>6, <3>7
  <2>6. CASE Rename /\ NotMoved(msg[Disk].level)
    <3>1. pc[Disk] # "sweep" /\ UNCHANGED <<dir, exhausted>>
      BY <2>6 DEF Rename, NotMoved, LogAt
    <3> QED
      BY <1>1, <1>6, <1>7, <1>9, <2>2, <3>1
  <2>5. CASE RemoveTimeoutLogFile
    <3>1. /\ pc[Disk] = "sweep" /\ sweep' = sweep + 1
          /\ pc'[Disk] = (IF sweep + 1 = NumLevels THEN "pop" ELSE "sweep")
      BY <2>1, <2>5 DEF DiskGoes, Pop, DiskOpens, WriteAll, WriteFails, Measure, Rename,
                        RemoveTimeoutLogFile, LogAt
    <3>2. SUFFICES ASSUME ~exhausted', NEW m \in Levels
                   PROVE  Cardinality(Renamed(m)') <= CacheFileNum + restarts + Unswept(m)'
      BY <2>2 DEF SweepInv
    <3>3. ~exhausted /\ dir' = [dir EXCEPT ![sweep] = Swept(sweep)]
      BY <2>5, <3>2 DEF RemoveTimeoutLogFile
    <3>4. Cardinality(Renamed(m)) <= CacheFileNum + restarts + Unswept(m)
      BY <3>3 DEF SweepInv
    <3>5. CASE m = sweep
      <4>1. dir'[m] = Swept(m)
        BY <1>2, <3>3, <3>5
      <4>2. \A t \in 1 .. MaxTime : Swept(m)[t] = IF t \in Renamed(m) \ Kept(m) THEN Closed ELSE dir[m][t]
        BY <1>1 DEF Swept, I
      <4>3. Renamed(m)' \subseteq Kept(m) /\ Kept(m) \subseteq Renamed(m)
        BY <4>1, <4>2 DEF Renamed, Kept
      <4>4. Cardinality(Renamed(m)') \in Nat /\ Cardinality(Renamed(m)') <= Cardinality(Kept(m))
        <5>1. IsFiniteSet(Kept(m))
          BY <1>3, <4>3, Smaller
        <5> QED
          BY <4>3, <5>1, Smaller
      <4>5. Cardinality(Kept(m)) \in Nat /\ Cardinality(Kept(m)) <= CacheFileNum
        BY KeptIsSmall
      <4> QED
        BY <1>1, <1>4, <4>4, <4>5
    <3>6. CASE m # sweep
      <4>1. Renamed(m)' = Renamed(m)
        <5>1. dir'[m] = dir[m]
          BY <1>2, <3>3, <3>6
        <5> QED
          BY <5>1 DEF Renamed
      <4>2. Unswept(m)' = Unswept(m)
        <5>1. m \in Nat /\ m < NumLevels /\ sweep < NumLevels
          BY <3>1, Parameters DEF Levels, LabelInv
        <5>2. CASE sweep + 1 = NumLevels
          <6>1. ~(sweep <= m) /\ pc'[Disk] = "pop"
            BY <1>1, <3>1, <3>6, <5>1, <5>2
          <6> QED
            BY <6>1 DEF Unswept, LogAt
        <5>3. CASE sweep + 1 # NumLevels
          <6>1. (sweep <= m) <=> (sweep' <= m)
            BY <1>1, <3>1, <3>6, <5>1
          <6> QED
            BY <3>1, <5>3, <6>1 DEF Unswept, LogAt
        <5> QED
          BY <5>2, <5>3
      <4> QED
        BY <3>4, <4>1, <4>2
    <3> QED
      BY <3>5, <3>6
  <2> QED
    BY <1>11, <2>3, <2>4, <2>5, <2>6 DEF WriteThread, Rename
<1>12. CASE Destroy
  <2>1. DestroyGoes
    BY <1>12, DestroyStepGoes
  <2> QED
    BY <1>1, <1>6, <1>7, <1>9, <2>1 DEF DestroyGoes
<1>13. CASE Restart
  <2>1. /\ UNCHANGED <<dir, exhausted>> /\ restarts' = restarts + 1
    BY <1>13 DEF Restart, diskVars
  <2>2. \A l \in Levels : restarts + Unswept(l) <= restarts' + Unswept(l)'
    BY <1>1, <1>4, <2>1
  <2>3. restarts <= restarts' /\ restarts' \in Nat
    BY <1>1, <2>1
  <2> QED
    BY <1>6, <1>7, <2>1, <2>2, <2>3
<1>14. CASE Tick \/ TurnBack \/ UNCHANGED logVars
  <2>1. UNCHANGED <<dir, exhausted, restarts, pc, sweep>>
    BY <1>14 DEF Tick, TurnBack, timeless, logVars, diskVars, history
  <2> QED
    BY <1>1, <1>6, <1>7, <1>9, <2>1
<1> QED
  BY <1>10, <1>11, <1>12, <1>13, <1>14 DEF LogNext

------------------------------------------------------------------------------
(* The messages *)

LEMMA QueueIs ==
  ASSUME LogTypes
  PROVE  /\ queue \in Seq(Message) /\ Len(queue) \in Nat
         /\ \A k \in DOMAIN queue : queue[k] \in Message /\ queue[k].id \in Nat
<1>1. queue \in Seq(Message)
  BY DEF LogTypes, Message
<1>2. \A k \in DOMAIN queue : queue[k] \in Message
  BY <1>1
<1>3. \A e \in Message : e.id \in Nat
  BY DEF Message
<1> QED
  BY <1>1, <1>2, <1>3

(* What a message is put behind.                                           *)
Behind(e) ==
  /\ DOMAIN queue' = 1 .. Len(queue) + 1
  /\ \A k \in DOMAIN queue : k \in DOMAIN queue' /\ queue'[k] = queue[k]
  /\ queue'[Len(queue) + 1] = e

LEMMA AppendIs ==
  ASSUME LogTypes, NEW e \in Message, queue' = Append(queue, e)
  PROVE  Behind(e)
BY QueueIs DEF Behind

(* What is left when the first message is taken.                           *)
Shifted ==
  /\ 1 \in DOMAIN queue /\ Head(queue) = queue[1]
  /\ \A k \in DOMAIN queue' : k \in Nat /\ k + 1 \in DOMAIN queue /\ queue'[k] = queue[k + 1]
  /\ \A k \in DOMAIN queue : k # 1 => k \in Nat /\ k - 1 \in DOMAIN queue' /\ queue'[k - 1] = queue[k]

LEMMA TailIs ==
  ASSUME LogTypes, queue # <<>>, queue' = Tail(queue)
  PROVE  Shifted
BY QueueIs DEF Shifted

(* A step that writes or gives up no message but adds to what is handled.  *)
LEMMA HandledStays ==
  ASSUME missed \subseteq missed', \A l \in Levels : ToSet(written[l]) \subseteq ToSet(written'[l]),
         NEW i, Handled(i)
  PROVE  Handled(i)'
BY DEF Handled

LEMMA PushIs ==
  ASSUME LogTypes, NEW l \in Levels, Push(l)
  PROVE  /\ Behind([id |-> pushed + 1, level |-> l]) /\ pushed' = pushed + 1 /\ pushed \in Nat
<1>1. /\ pushed < MaxMessages /\ pushed' = pushed + 1 /\ pushed \in Nat
      /\ queue' = Append(queue, [id |-> pushed + 1, level |-> l])
  BY DEF Push, LogTypes
<1>2. [id |-> pushed + 1, level |-> l] \in Message
  BY <1>1, Parameters DEF Message
<1> QED
  BY <1>1, <1>2, AppendIs

(* Every message that was ever pushed is written or given up, waits in the *)
(* queue, or is in the writing thread's hand.                              *)
LEMMA AccountStep ==
  ASSUME LogTypes, LabelInv, AccountInv, [LogNext]_logVars
  PROVE  AccountInv'
<1> DEFINE InHand(i) == pc[Disk] \in {"open", "write"} /\ msg[Disk].id = i
<1>1. \A t \in Callers \cup {Disk} : msg[t].level \in Levels /\ msg[t].id \in Nat
  BY DEF LogTypes
<1>2. pushed \in Nat /\ written \in [Levels -> Seq(1 .. MaxMessages)]
  BY DEF LogTypes
<1>3. ASSUME UNCHANGED pushed, missed \subseteq missed',
             \A l \in Levels : ToSet(written[l]) \subseteq ToSet(written'[l]),
             \A i \in 1 .. pushed : IsQueued(i) => IsQueued(i)' \/ InHand(i)' \/ Handled(i)',
             \A i \in 1 .. pushed : InHand(i) => InHand(i)' \/ Handled(i)'
      PROVE  AccountInv'
  <2> SUFFICES ASSUME NEW i \in 1 .. pushed
               PROVE  Handled(i)' \/ IsQueued(i)' \/ InHand(i)'
    BY <1>3 DEF AccountInv
  <2>1. Handled(i) \/ IsQueued(i) \/ InHand(i)
    BY DEF AccountInv
  <2> QED
    BY <1>3, <2>1, HandledStays
<1>4. ASSUME UNCHANGED queue PROVE \A i \in 1 .. pushed : IsQueued(i) => IsQueued(i)'
  BY <1>4 DEF IsQueued
<1>5. ASSUME NEW e, Behind(e) PROVE \A i : IsQueued(i) => IsQueued(i)'
  BY <1>5 DEF IsQueued, Behind
<1>6. ASSUME pc'[Disk] = pc[Disk], msg'[Disk] = msg[Disk]
      PROVE  \A i : InHand(i) => InHand(i)'
  BY <1>6
<1>7. ASSUME NEW c \in Callers,
             (\E l \in Levels : LogMessage(c, l) \/ StreamFindsClosed(c, l)) \/ Caller(c)
      PROVE  AccountInv'
  <2>1. CallerKeeps(c)
    BY <1>7, CallersKeep
  <2>2. UNCHANGED <<missed, written>> /\ \A i : InHand(i) => InHand(i)'
    BY <1>6, <2>1 DEF CallerKeeps
  <2>3. CASE UNCHANGED <<pushed, queue>>
    BY <1>3, <1>4, <2>2, <2>3
  <2>4. ASSUME NEW l \in Levels, Push(l) PROVE AccountInv'
    <3> DEFINE e == [id |-> pushed + 1, level |-> l]
    <3>1. Behind(e) /\ pushed' = pushed + 1
      BY <2>4, PushIs
    <3>0. PICK n \in Nat : n = pushed + 1
      BY <1>2
    <3>2. e.id = n
      BY <3>0
    <3> HIDE DEF e
    <3>3. \A i : IsQueued(i) => IsQueued(i)'
      BY <1>5, <3>1
    <3>4. IsQueued(n)'
      <4>1. Len(queue) + 1 \in DOMAIN queue' /\ queue'[Len(queue) + 1] = e
        <5>1. Len(queue) + 1 \in 1 .. Len(queue) + 1
          BY QueueIs
        <5> QED
          BY <3>1, <5>1 DEF Behind
      <4>2. \E k \in DOMAIN queue' : queue'[k].id = n
        BY <3>2, <4>1
      <4> QED
        BY <4>2 DEF IsQueued
    <3>5. SUFFICES ASSUME NEW i \in 1 .. pushed + 1
                   PROVE  Handled(i)' \/ IsQueued(i)' \/ InHand(i)'
      BY <3>1 DEF AccountInv
    <3>6. CASE i = n
      BY <3>4, <3>6
    <3>7. CASE i # n
      <4>1. i \in 1 .. pushed
        BY <1>2, <3>0, <3>7
      <4>2. Handled(i) \/ IsQueued(i) \/ InHand(i)
        BY <4>1 DEF AccountInv
      <4>3. Handled(i) => Handled(i)'
        BY <2>2 DEF Handled
      <4> QED
        BY <2>2, <3>3, <4>2, <4>3
    <3> QED
      BY <3>6, <3>7
  <2>5. UNCHANGED <<pushed, queue>> \/ \E l \in Levels : Push(l)
    BY <1>1, <1>7 DEF LogMessage, StreamFindsClosed, Caller, StreamOpens, StreamStores, StreamPushes
  <2> QED
    BY <2>3, <2>4, <2>5
<1>8. CASE WriteThread
  <2>1. DiskKeeps /\ DiskGoes
    BY <1>8, DiskStepKeeps, DiskStepGoes
  <2>2. UNCHANGED pushed
    BY <2>1 DEF DiskKeeps
  <2>3. CASE Pop
    <3>1. UNCHANGED <<missed, written>> /\ queue # <<>> /\ queue' = Tail(queue)
      BY <2>3 DEF Pop, history
    <3>2. Shifted
      BY <3>1, TailIs
    <3>3. /\ pc[Disk] = "pop"
          /\ Head(queue).id # Stop => pc'[Disk] \in {"open", "write"} /\ msg'[Disk] = Head(queue)
      BY <2>1, <2>3 DEF DiskGoes, Pop, DiskOpens, WriteAll, WriteFails, Measure, Rename,
                        RemoveTimeoutLogFile, LogAt
    <3>4. ASSUME NEW i \in 1 .. pushed, IsQueued(i) PROVE IsQueued(i)' \/ InHand(i)'
      <4>1. PICK k \in DOMAIN queue : queue[k].id = i
        BY <3>4 DEF IsQueued
      <4>2. CASE k = 1
        <5>1. Head(queue).id = i /\ i # Stop
          BY <3>2, <4>1, <4>2 DEF Shifted, Stop
        <5> QED
          BY <3>3, <5>1
      <4>3. CASE k # 1
        <5>1. k - 1 \in DOMAIN queue' /\ queue'[k - 1].id = i
          BY <3>2, <4>1, <4>3 DEF Shifted
        <5> QED
          BY <5>1 DEF IsQueued
      <4> QED
        BY <4>2, <4>3
    <3>5. \A i \in 1 .. pushed : ~InHand(i)
      BY <3>3
    <3> QED
      BY <1>3, <2>2, <3>1, <3>4, <3>5
  <2>4. CASE DiskOpens
    <3>1. UNCHANGED <<queue, written, msg>> /\ missed \subseteq missed'
      BY <2>4 DEF DiskOpens
    <3>2. ASSUME NEW i \in 1 .. pushed, InHand(i) PROVE InHand(i)' \/ Handled(i)'
      <4>1. CASE CanOpen
        <5>1. pc'[Disk] = "write"
          BY <2>1, <2>4, <4>1 DEF DiskGoes, Pop, DiskOpens, WriteAll, WriteFails, Measure, Rename,
                                  RemoveTimeoutLogFile, LogAt
        <5> QED
          BY <3>1, <3>2, <5>1
      <4>2. CASE ~CanOpen
        <5>1. missed' = missed \cup {msg[Disk].id}
          BY <2>4, <4>2 DEF DiskOpens
        <5> QED
          BY <3>2, <5>1 DEF Handled
      <4> QED
        BY <4>1, <4>2
    <3> QED
      BY <1>3, <1>4, <2>2, <3>1, <3>2
  <2>5. CASE WriteAll
    <3>0. PICK id \in Nat : id = msg[Disk].id
      BY <1>1
    <3> DEFINE l == msg[Disk].level
    <3>1. /\ UNCHANGED <<queue, missed>> /\ written' = [written EXCEPT ![l] = Append(@, id)]
          /\ l \in Levels
      BY <1>1, <2>5, <3>0 DEF WriteAll
    <3> HIDE DEF l
    <3>2. /\ \A m \in Levels : m # l => written'[m] = written[m]
          /\ written'[l] = Append(written[l], id) /\ written[l] \in Seq(1 .. MaxMessages)
      BY <1>2, <3>1
    <3>3. ToSet(written[l]) \subseteq ToSet(written'[l]) /\ id \in ToSet(written'[l])
      <4>1. /\ \A k \in DOMAIN written[l] : k \in DOMAIN written'[l] /\ written'[l][k] = written[l][k]
            /\ Len(written[l]) + 1 \in DOMAIN written'[l] /\ written'[l][Len(written[l]) + 1] = id
        BY <3>2
      <4> QED
        BY <4>1 DEF ToSet
    <3>4. \A m \in Levels : ToSet(written[m]) \subseteq ToSet(written'[m])
      BY <3>2, <3>3
    <3>5. \A i : InHand(i) => Handled(i)'
      <4>1. Handled(id)'
        <5>1. \E m \in Levels : id \in ToSet(written'[m])
          BY <3>1, <3>3
        <5> QED
          BY <5>1 DEF Handled
      <4> QED
        BY <3>0, <4>1
    <3> QED
      BY <1>3, <1>4, <2>2, <3>1, <3>4, <3>5
  <2>6. CASE WriteFails
    <3>1. UNCHANGED <<queue, written>> /\ missed' = missed \cup {msg[Disk].id}
      BY <2>6 DEF WriteFails
    <3>2. \A i : InHand(i) => Handled(i)'
      BY <3>1 DEF Handled
    <3> QED
      BY <1>3, <1>4, <2>2, <3>1, <3>2
  <2>7. CASE Measure \/ Rename \/ RemoveTimeoutLogFile
    <3>1. UNCHANGED <<queue, written, missed>> /\ \A i : ~InHand(i)
      BY <2>7 DEF Measure, Rename, RemoveTimeoutLogFile, LogAt, history
    <3> QED
      BY <1>3, <1>4, <2>2, <3>1
  <2> QED
    BY <1>8, <2>3, <2>4, <2>5, <2>6, <2>7 DEF WriteThread
<1>9. CASE Destroy
  <2>1. DestroyGoes
    BY <1>9, DestroyStepGoes
  <2>2. \A i : IsQueued(i) => IsQueued(i)'
    <3>1. CASE DestroyCloses
      BY <3>1 DEF DestroyCloses, IsQueued
    <3>2. CASE DestroyStops
      <4>1. queue' = Append(queue, [id |-> Stop, level |-> 0])
        BY <3>2 DEF DestroyStops
      <4>2. [id |-> Stop, level |-> 0] \in Message
        BY Parameters DEF Message
      <4>3. Behind([id |-> Stop, level |-> 0])
        BY <4>1, <4>2, AppendIs
      <4> QED
        BY <1>5, <4>3
    <3> QED
      BY <1>9, <3>1, <3>2 DEF Destroy
  <2>3. /\ UNCHANGED <<pushed, missed, written>>
        /\ \A i : InHand(i) => InHand(i)'
    BY <1>6, <2>1 DEF DestroyGoes
  <2> QED
    BY <1>3, <2>2, <2>3
<1>10. CASE Restart
  <2>1. UNCHANGED <<pushed, written>> /\ missed' = missed \cup (Unwritten \ {Stop})
    BY <1>10 DEF Restart
  <2>2. \A i \in 1 .. pushed : i # Stop
    BY DEF Stop
  <2>3. \A i \in 1 .. pushed : IsQueued(i) \/ InHand(i) => i \in Unwritten
    <3> SUFFICES ASSUME NEW i \in 1 .. pushed, IsQueued(i) \/ InHand(i) PROVE i \in Unwritten
      OBVIOUS
    <3>1. CASE IsQueued(i)
      BY <3>1 DEF IsQueued, Unwritten
    <3>2. CASE InHand(i)
      BY <3>2 DEF Unwritten
    <3> QED
      BY <3>1, <3>2
  <2>4. \A i \in 1 .. pushed : IsQueued(i) \/ InHand(i) => Handled(i)'
    BY <2>1, <2>2, <2>3 DEF Handled
  <2> QED
    BY <1>3, <2>1, <2>4
<1>11. CASE Tick \/ TurnBack \/ UNCHANGED logVars
  <2>1. UNCHANGED <<queue, pushed, missed, written, pc, msg>>
    BY <1>11 DEF Tick, TurnBack, timeless, logVars, diskVars, history
  <2> QED
    BY <1>3, <1>4, <2>1
<1> QED
  BY <1>7, <1>8, <1>9, <1>10, <1>11 DEF LogNext

------------------------------------------------------------------------------
(* Destroy *)

(* The message that stops the writing thread is the only one of its kind,  *)
(* and everything behind it was logged after Destroy had been called.      *)
LEMMA StopStep ==
  ASSUME LogTypes, LabelInv, StopInv, [LogNext]_logVars
  PROVE  StopInv'
<1>1. pushed \in Nat /\ stopAt \in Nat /\ stopAt <= pushed /\ Len(queue) \in Nat
  BY QueueIs DEF LogTypes
<1>2. \A t \in Callers \cup {Disk} : msg[t].level \in Levels
  BY DEF LogTypes
<1>3. \A k \in DOMAIN queue : k \in Nat /\ k <= Len(queue)
  BY QueueIs
<1>4. ASSUME UNCHANGED <<queue, stopAt>>, pc'[Main] = pc[Main],
             pc'[Disk] = "exit" <=> pc[Disk] = "exit"
      PROVE  StopInv'
  BY <1>4 DEF StopInv, LogAt, NoStop, OnlyLater, StopIsAt
<1>5. ASSUME NEW c \in Callers,
             (\E l \in Levels : LogMessage(c, l) \/ StreamFindsClosed(c, l)) \/ Caller(c)
      PROVE  StopInv'
  <2>1. CallerKeeps(c)
    BY <1>5, CallersKeep
  <2>2. UNCHANGED stopAt /\ pc'[Main] = pc[Main] /\ pc'[Disk] = pc[Disk]
    BY <2>1 DEF CallerKeeps
  <2>3. CASE UNCHANGED queue
    BY <1>4, <2>2, <2>3
  <2>4. ASSUME NEW l \in Levels, Push(l) PROVE StopInv'
    <3> DEFINE e == [id |-> pushed + 1, level |-> l]
               n == Len(queue) + 1
    <3>1. Behind(e)
      BY <2>4, PushIs
    <3>2. e.id # Stop /\ e.id > stopAt
      BY <1>1 DEF Stop
    <3>3. /\ \A k \in DOMAIN queue' : k \in DOMAIN queue \/ k = n
          /\ \A k \in DOMAIN queue : k \in DOMAIN queue' /\ queue'[k] = queue[k]
          /\ n \in DOMAIN queue' /\ queue'[n] = e
      <4>1. \A k \in 1 .. n : k \in 1 .. Len(queue) \/ k = n
        BY <1>1
      <4>2. n \in 1 .. n /\ DOMAIN queue = 1 .. Len(queue)
        BY <1>1, QueueIs
      <4> QED
        BY <3>1, <4>1, <4>2 DEF Behind
    <3> HIDE DEF e, n
    <3>4. NoStop => NoStop'
      BY <3>2, <3>3 DEF NoStop
    <3>5. OnlyLater => OnlyLater'
      BY <2>2, <3>2, <3>3 DEF OnlyLater
    <3>6. ASSUME NEW k \in Nat, StopIsAt(k) PROVE StopIsAt(k)'
      BY <2>2, <3>2, <3>3, <3>6 DEF StopIsAt
    <3> QED
      BY <2>2, <3>4, <3>5, <3>6 DEF StopInv, LogAt
  <2>5. UNCHANGED queue \/ \E l \in Levels : Push(l)
    BY <1>2, <1>5 DEF LogMessage, StreamFindsClosed, Caller, StreamOpens, StreamStores, StreamPushes
  <2> QED
    BY <2>3, <2>4, <2>5
<1>6. CASE WriteThread
  <2>1. DiskKeeps /\ DiskGoes
    BY <1>6, DiskStepKeeps, DiskStepGoes
  <2>2. UNCHANGED stopAt /\ pc'[Main] = pc[Main]
    BY <2>1 DEF DiskKeeps
  <2>3. CASE Pop
    <3>1. /\ pc[Disk] = "pop"
          /\ Head(queue).id = Stop => pc'[Disk] = "exit"
          /\ Head(queue).id # Stop => pc'[Disk] # "exit"
      BY <2>1, <2>3 DEF DiskGoes, Pop, DiskOpens, WriteAll, WriteFails, Measure, Rename,
                        RemoveTimeoutLogFile, LogAt
    <3>2. Shifted
      BY <2>3, TailIs DEF Pop
    <3>3. CASE LogAt(Main, "idle")
      <4>1. NoStop
        BY <3>3 DEF StopInv
      <4>2. Head(queue).id # Stop
        BY <3>2, <4>1 DEF Shifted, NoStop
      <4>3. NoStop'
        BY <3>2, <4>1 DEF Shifted, NoStop
      <4> QED
        BY <2>2, <3>1, <3>3, <4>2, <4>3 DEF StopInv, LogAt
    <3>4. CASE ~LogAt(Main, "idle")
      <4>1. LogAt(Main, "join") /\ \E k \in Nat : StopIsAt(k)
        BY <3>1, <3>4 DEF StopInv, LogAt
      <4>2. PICK k \in Nat : StopIsAt(k)
        BY <4>1
      <4>3. CASE k = 1
        <5>1. Head(queue).id = Stop
          BY <3>2, <4>2, <4>3 DEF Shifted, StopIsAt
        <5>2. \A j \in DOMAIN queue' : j \in Nat /\ j + 1 \in DOMAIN queue /\ j + 1 > 1
          <6>1. \A j \in DOMAIN queue' : j \in Nat /\ j + 1 \in DOMAIN queue /\ j \in 1 .. Len(queue')
            BY <2>3, <3>2, TypeStep, QueueIs DEF Shifted, Pop
          <6> QED
            BY <6>1
        <5>3. OnlyLater'
          BY <2>2, <3>2, <4>2, <4>3, <5>2 DEF OnlyLater, StopIsAt, Shifted
        <5> QED
          BY <2>2, <3>1, <3>4, <5>1, <5>3 DEF StopInv, LogAt
      <4>4. CASE k # 1
        <5>1. Head(queue).id # Stop
          BY <3>2, <4>2, <4>4 DEF Shifted, StopIsAt
        <5>2. PICK n \in Nat : n = k - 1
          BY <1>3, <3>2, <4>2, <4>4 DEF StopIsAt, Shifted
        <5>3. n \in DOMAIN queue' /\ queue'[n] = queue[k]
          BY <3>2, <4>2, <4>4, <5>2 DEF StopIsAt, Shifted
        <5>4. \A j \in DOMAIN queue' : /\ j \in Nat /\ j + 1 \in DOMAIN queue
                                       /\ queue'[j] = queue[j + 1]
                                       /\ (j # n => j + 1 # k) /\ (j > n => j + 1 > k)
          BY <3>2, <5>2 DEF Shifted
        <5>5. StopIsAt(n)'
          BY <2>2, <4>2, <5>3, <5>4 DEF StopIsAt
        <5> QED
          BY <2>2, <3>1, <4>1, <5>1, <5>5 DEF StopInv, LogAt
      <4> QED
        BY <4>3, <4>4
    <3> QED
      BY <3>3, <3>4
  <2>4. CASE ~Pop
    <3>1. UNCHANGED queue
      BY <1>6, <2>4 DEF WriteThread, DiskOpens, WriteAll, WriteFails, Measure, Rename,
                        RemoveTimeoutLogFile
    <3>2. pc[Disk] # "exit" /\ pc'[Disk] # "exit"
      BY <2>1, <2>4 DEF DiskGoes
    <3> QED
      BY <1>4, <2>2, <3>1, <3>2
  <2> QED
    BY <2>3, <2>4
<1>7. CASE DestroyStops
  <2>1. DestroyGoes
    BY <1>7, DestroyStepGoes DEF Destroy
  <2>2. pc[Main] = "idle" /\ pc'[Main] = "join" /\ pc'[Disk] = pc[Disk]
    BY <1>7, <2>1 DEF DestroyGoes, DestroyStops, LogAt
  <2>3. pc[Disk] # "exit" /\ NoStop
    BY <2>2 DEF StopInv, LogAt
  <2> DEFINE e == [id |-> Stop, level |-> 0]
  <2>4. e \in Message /\ queue' = Append(queue, e)
    BY <1>7, Parameters DEF DestroyStops, Message
  <2>5. Behind(e) /\ e.id = Stop
    BY <2>4, AppendIs
  <2> HIDE DEF e
  <2>6. PICK n \in Nat : n = Len(queue) + 1
    BY <1>1
  <2>7. StopIsAt(n)'
    <3>1. /\ \A k \in DOMAIN queue' : k = n \/ (k \in DOMAIN queue /\ ~(k > n))
          /\ n \in DOMAIN queue' /\ queue'[n] = e
          /\ \A k \in DOMAIN queue : queue'[k] = queue[k]
      <4>1. \A k \in 1 .. n : k = n \/ (k \in 1 .. Len(queue) /\ ~(k > n))
        BY <1>1, <2>6
      <4>2. n \in 1 .. n /\ DOMAIN queue = 1 .. Len(queue) /\ ~(n > n)
        BY <1>1, <2>6, QueueIs
      <4> QED
        BY <2>5, <2>6, <4>1, <4>2 DEF Behind
    <3>2. ~(n > n)
      OBVIOUS
    <3> QED
      BY <2>3, <2>5, <3>1, <3>2 DEF StopIsAt, NoStop
  <2> QED
    BY <2>2, <2>3, <2>7 DEF StopInv, LogAt
<1>8. CASE DestroyCloses
  <2>1. DestroyGoes
    BY <1>8, DestroyStepGoes DEF Destroy
  <2>2. pc'[Main] = "destroyed" /\ pc[Disk] = "exit" /\ pc'[Disk] = pc[Disk]
    BY <1>8, <2>1 DEF DestroyGoes, DestroyStops, DestroyCloses, LogAt
  <2>3. UNCHANGED <<queue, stopAt>>
    BY <1>8 DEF DestroyCloses
  <2>4. OnlyLater'
    BY <2>2, <2>3 DEF StopInv, LogAt, OnlyLater
  <2> QED
    BY <2>2, <2>4 DEF StopInv, LogAt
<1>9. CASE Restart
  <2>1. pc'[Disk] = "pop" /\ pc'[Main] = "idle" /\ queue' = <<>>
    BY <1>9, Parameters DEF Restart, Threads
  <2> QED
    BY <2>1 DEF StopInv, LogAt, NoStop
<1>10. CASE Tick \/ TurnBack \/ UNCHANGED logVars
  <2>1. UNCHANGED <<queue, stopAt, pc>>
    BY <1>10 DEF Tick, TurnBack, timeless, logVars
  <2> QED
    BY <1>4, <2>1
<1> QED
  BY <1>5, <1>6, <1>7, <1>8, <1>9, <1>10 DEF LogNext, Destroy

------------------------------------------------------------------------------
(* The invariant and what follows from it *)

LEMMA InitInv == LogInit => LogInv
<1> SUFFICES ASSUME LogInit PROVE LogInv
  OBVIOUS
<1> DEFINE I == 0 .. MaxTime
<1>0. /\ pc = [t \in Threads |-> IF t = Disk THEN "pop" ELSE "idle"]
      /\ queue = <<>> /\ logfd = [l \in Levels |-> Closed]
      /\ dir = [l \in Levels |-> [t \in I |-> Closed]] /\ content = <<>>
      /\ msg = [t \in Callers \cup {Disk} |-> NoMessage] /\ got = [c \in Callers |-> Closed]
      /\ fds = 0 /\ pushed = 0 /\ restarts = 0
  BY DEF LogInit
<1>1. Disk \in Threads /\ Main \in Threads /\ Callers \subseteq Threads
  BY DEF Threads
<1>2. LogTypes
  <2>1. NoMessage \in [id : 0 .. MaxMessages, level : Levels]
    BY Parameters DEF NoMessage
  <2>2. /\ 0 \in 0 .. 0 /\ 1 \in 1 .. MaxTime /\ 0 \in 0 .. NumLevels /\ 0 \in 0 .. FdLimit
        /\ 0 \in 0 .. MaxMessages /\ 0 \in 0 .. MaxRestarts
    BY Parameters
  <2>3. Len(content) = 0 /\ content \in Seq(Seq(1 .. MaxMessages))
    BY <1>0
  <2>4. /\ logfd \in [Levels -> 0 .. 0] /\ got \in [Callers -> 0 .. 0]
        /\ dir \in [Levels -> [I -> 0 .. 0]]
    BY <1>0, <2>2, Parameters
  <2>5. /\ queue \in Seq([id : 0 .. MaxMessages, level : Levels])
        /\ written \in [Levels -> Seq(1 .. MaxMessages)]
    BY DEF LogInit
  <2>6. /\ pc \in [Threads -> Labels]
        /\ msg \in [Callers \cup {Disk} -> [id : 0 .. MaxMessages, level : Levels]]
    BY <1>0, <2>1 DEF Labels
  <2>7. /\ straddled \in [Levels -> BOOLEAN] /\ clobbered \in [Levels -> BOOLEAN]
        /\ exhausted \in BOOLEAN /\ turnedBack \in BOOLEAN /\ missed \subseteq 1 .. MaxMessages
        /\ unrenamed \in [Levels -> Nat]
    BY DEF LogInit
  <2>8. /\ now \in 1 .. MaxTime /\ sweep \in 0 .. NumLevels /\ fds \in 0 .. FdLimit
        /\ pushed \in 0 .. MaxMessages /\ stopAt \in 0 .. pushed /\ restarts \in 0 .. MaxRestarts
    BY <2>2 DEF LogInit
  <2> HIDE DEF I
  <2>9. /\ logfd \in [Levels -> 0 .. Len(content)] /\ got \in [Callers -> 0 .. Len(content)]
        /\ dir \in [Levels -> [I -> 0 .. Len(content)]]
    BY <2>3, <2>4
  <2> QED
    BY <2>3, <2>5, <2>6, <2>7, <2>8, <2>9 DEF LogTypes, Labels, I
<1>3. LabelInv
  BY <1>0, <1>1, Parameters DEF LabelInv
<1>4. FdInv
  <2>1. OpenLevels = {} /\ OpenCallers = {}
    BY <1>0 DEF OpenLevels, OpenCallers
  <2> QED
    BY <1>0, <2>1, FS_EmptySet DEF FdInv
<1>5. ApartInv
  BY <1>0 DEF ApartInv, NamesApart, StoredApart, OpenedApart
<1>6. DescriptorIsLive /\ RenameInv
  BY <1>0, <1>1 DEF DescriptorIsLive, RenameInv, LogAt
<1>7. LengthInv
  <2>1. \A l \in Levels, t \in I : InFile(l, t) = <<>>
    BY <1>0 DEF InFile
  <2>2. \A l \in Levels, t \in I : Len(InFile(l, t)) = 0
    BY <2>1
  <2>3. \A l \in Levels : Overlong(l) = 0
    BY <1>0, <1>1 DEF Overlong
  <2>4. 0 \in I /\ 1 .. MaxTime \subseteq I /\ CacheSize \in Nat
    BY Parameters
  <2>5. \A l \in Levels : Excess(l) = 0
    BY DEF LogInit, Excess
  <2>6. 0 <= CacheSize + 0 + 0 /\ 0 <= CacheSize + 1 + 0
    BY <2>4
  <2> HIDE DEF I
  <2> QED
    BY <2>2, <2>3, <2>4, <2>5, <2>6 DEF LengthInv
<1>8. SweepInv
  <2>1. \A l \in Levels : Renamed(l) = {}
    <3>1. \A l \in Levels, t \in I : dir[l][t] = Closed
      BY <1>0
    <3>2. 1 .. MaxTime \subseteq I
      OBVIOUS
    <3> HIDE DEF I
    <3> QED
      BY <3>1, <3>2 DEF Renamed
  <2>2. \A l \in Levels : Cardinality(Renamed(l)) = 0
    BY <2>1, FS_EmptySet
  <2>3. \A l \in Levels : Unswept(l) = 0
    BY <1>0, <1>1 DEF Unswept, LogAt
  <2>4. 0 <= CacheFileNum + restarts + 0
    BY <1>0, Parameters
  <2> QED
    BY <2>2, <2>3, <2>4 DEF SweepInv
<1>9. AccountInv
  BY <1>0 DEF AccountInv
<1>10. StopInv
  BY <1>0, <1>1, Parameters DEF StopInv, LogAt, NoStop
<1> QED
  BY <1>2, <1>3, <1>4, <1>5, <1>6, <1>7, <1>8, <1>9, <1>10 DEF LogInv

LEMMA NextInv == LogInv /\ [LogNext]_logVars => LogInv'
<1> SUFFICES ASSUME LogInv, [LogNext]_logVars PROVE LogInv'
  OBVIOUS
<1>1. /\ LogTypes /\ LabelInv /\ FdInv /\ ApartInv /\ DescriptorIsLive /\ RenameInv
      /\ LengthInv /\ SweepInv /\ AccountInv /\ StopInv
  BY DEF LogInv
<1>2. Cardinality(OpenLevels) <= fds
  <2>1. fds \in Nat /\ Cardinality(OpenLevels) \in Nat /\ Cardinality(OpenCallers) \in Nat
    BY <1>1, OpenLevelsAreFinite, OpenCallersAreFinite, Parameters DEF LogTypes
  <2> QED
    BY <1>1, <2>1 DEF FdInv
<1>3. LogTypes'
  BY <1>1, <1>2, TypeStep
<1>4. LabelInv' /\ FdInv' /\ ApartInv'
  BY <1>1, LabelStep, FdStep, ApartStep
<1>5. DescriptorIsLive' /\ RenameInv'
  BY <1>1, LiveStep
<1>6. LengthInv' /\ SweepInv'
  BY <1>1, LengthStep, SweepStep
<1>7. AccountInv' /\ StopInv'
  BY <1>1, AccountStep, StopStep
<1> QED
  BY <1>3, <1>4, <1>5, <1>6, <1>7 DEF LogInv

(* The invariant of the log, for any threads, levels and bounds.           *)
THEOREM LogInvHolds == LogSpec => []LogInv
<1>1. LogInit => LogInv
  BY InitInv
<1>2. LogInv /\ [LogNext]_logVars => LogInv'
  BY NextInv
<1> QED
  BY <1>1, <1>2, PTL DEF LogSpec

(* Types: every stored descriptor names a file, and there are never more   *)
(* open files than descriptors in use (218, 222, 386, 390).                *)
THEOREM TypeIsInvariant == LogSpec => []LogTypeOK
<1>1. LogInv => LogTypeOK
  <2> SUFFICES ASSUME LogInv PROVE LogTypeOK
    OBVIOUS
  <2>1. LogTypes /\ FdInv
    BY DEF LogInv
  <2>2. fds \in Nat /\ Cardinality(OpenLevels) \in Nat /\ Cardinality(OpenCallers) \in Nat
    BY <2>1, OpenLevelsAreFinite, OpenCallersAreFinite, Parameters DEF LogTypes
  <2>3. Cardinality(OpenLevels) <= fds
    BY <2>1, <2>2 DEF FdInv
  <2> QED
    BY <2>1, <2>3 DEF LogTypeOK, OpenLevels
<1> QED
  BY <1>1, LogInvHolds, PTL

(* A level's descriptor leads to its live file, however many threads open  *)
(* and store one while the file is closed and renamed (249-257, 384-398).  *)
THEOREM DescriptorStaysLive == LogSpec => []DescriptorIsLive
<1>1. LogInv => DescriptorIsLive
  BY DEF LogInv
<1> QED
  BY <1>1, LogInvHolds, PTL

(* No file is longer than the limit by more than one message, one for      *)
(* every process that died before it had looked (254), and one for every   *)
(* renaming that failed (264).                                             *)
THEOREM FilesAreShort == LogSpec => []FilesStayShort
<1>1. LogInv => FilesStayShort
  <2> SUFFICES ASSUME LogInv, NEW l \in Levels, ~straddled[l], NEW t \in 0 .. MaxTime
               PROVE  Len(InFile(l, t)) <= CacheSize + 1 + restarts + unrenamed[l]
    BY DEF FilesStayShort
  <2>1. LogTypes /\ LengthInv
    BY DEF LogInv
  <2>2. CacheSize \in Nat /\ restarts \in Nat /\ unrenamed[l] \in Nat
    BY <2>1, Parameters DEF LogTypes
  <2>3. CASE t = 0
    <3>1. Len(InFile(l, 0)) <= CacheSize + restarts + unrenamed[l] + Overlong(l)
      BY <2>1, <2>2 DEF LengthInv, Excess
    <3>2. Overlong(l) \in {0, 1} /\ Len(InFile(l, 0)) \in Nat
      BY <2>1, <2>3, FilesAre DEF Overlong
    <3> QED
      BY <2>2, <2>3, <3>1, <3>2
  <2>4. CASE t # 0
    <3>1. t \in 1 .. MaxTime
      BY <2>4
    <3> QED
      BY <2>1, <2>2, <3>1 DEF LengthInv, Excess
  <2> QED
    BY <2>3, <2>4
<1> QED
  BY <1>1, LogInvHolds, PTL

(* No level keeps more renamed files than it should, except while the      *)
(* sweep is due or a process died in front of it (166-174).                *)
THEOREM RenamedFilesAreFew == LogSpec => []RenamedFilesBounded
<1>1. LogInv => RenamedFilesBounded
  <2> SUFFICES ASSUME LogInv, NEW l \in Levels, ~exhausted
               PROVE  Cardinality(Renamed(l)) <= CacheFileNum + restarts
                                                 + (IF LogAt(Disk, "sweep") THEN 1 ELSE 0)
    BY DEF RenamedFilesBounded
  <2>1. LogTypes /\ SweepInv
    BY DEF LogInv
  <2>2. Cardinality(Renamed(l)) <= CacheFileNum + restarts + Unswept(l)
    BY <2>1 DEF SweepInv
  <2>3. CacheFileNum \in Nat /\ restarts \in Nat /\ Cardinality(Renamed(l)) \in Nat
    BY <2>1, RenamedIsFinite, Parameters DEF LogTypes
  <2> DEFINE k == IF LogAt(Disk, "sweep") THEN 1 ELSE 0
  <2>4. k \in {0, 1} /\ Unswept(l) \in {0, 1} /\ Unswept(l) <= k
    BY DEF Unswept
  <2> HIDE DEF k
  <2>5. Cardinality(Renamed(l)) <= CacheFileNum + restarts + k
    BY <2>2, <2>3, <2>4
  <2> QED
    BY <2>5 DEF k
<1> QED
  BY <1>1, LogInvHolds, PTL

(* Destroy returns only after everything logged before it was called has   *)
(* been written, or has failed to be (623-637).                            *)
THEOREM DestroyWritesAll == LogSpec => []ShutdownWritesAll
<1>1. LogInv => ShutdownWritesAll
  <2> SUFFICES ASSUME LogInv, LogAt(Main, "destroyed"), NEW i \in 1 .. stopAt
               PROVE  Handled(i)
    BY DEF ShutdownWritesAll
  <2>1. LogTypes /\ AccountInv /\ StopInv
    BY DEF LogInv
  <2>2. LogAt(Disk, "exit") /\ OnlyLater
    BY <2>1 DEF StopInv, LogAt
  <2>3. i \in 1 .. pushed /\ i \in Nat /\ stopAt \in Nat /\ i <= stopAt
    BY <2>1 DEF LogTypes
  <2>4. ~IsQueued(i)
    <3>1. \A k \in DOMAIN queue : queue[k].id \in Nat /\ queue[k].id > stopAt
      BY <2>1, <2>2, QueueIs DEF OnlyLater
    <3>2. \A k \in DOMAIN queue : queue[k].id # i
      BY <2>3, <3>1
    <3> QED
      BY <3>2 DEF IsQueued
  <2> QED
    BY <2>1, <2>2, <2>3, <2>4 DEF AccountInv, LogAt
<1> QED
  BY <1>1, LogInvHolds, PTL

------------------------------------------------------------------------------
(* The messages that the files keep *)

(* Messages are written in the order in which they were queued.            *)
Rising(s) == \A i, j \in DOMAIN s : i < j => s[i] < s[j]
InHand == pc[Disk] \in {"open", "write"}
Ahead(i) == \A k \in DOMAIN queue : queue[k].id = Stop \/ i < queue[k].id
OrderInv ==
  /\ \A l \in Levels : Rising(written[l])
  /\ \A k \in DOMAIN queue : queue[k].id <= pushed
  /\ \A j, k \in DOMAIN queue : j < k => queue[k].id = Stop \/ queue[j].id < queue[k].id
  /\ InHand => msg[Disk].id <= pushed /\ Ahead(msg[Disk].id)
  /\ \A l \in Levels : \A i \in ToSet(written[l]) :
       i <= pushed /\ Ahead(i) /\ (InHand => i < msg[Disk].id)

(* A file that is about to be renamed is too long.                         *)
DueInv == LogAt(Disk, "rename") => TooLong(msg[Disk].level)

(* Of files f, one for each time, renamed at the times R up to n: what     *)
(* they hold of the messages w, oldest file first and the live one last,   *)
(* rises and has no hole up to the last of w, each that was renamed is     *)
(* full, and where there are too few nothing is missing.                   *)
Earlier(t, u) == t # 0 /\ (u = 0 \/ t < u)
OnFile(f, i) == \E t \in 0 .. MaxTime : i \in ToSet(f[t])
FilesRise(f) ==
  /\ \A t \in 0 .. MaxTime : Rising(f[t])
  /\ \A t, u \in 0 .. MaxTime :
       Earlier(t, u) => \A i \in ToSet(f[t]), j \in ToSet(f[u]) : i < j
FilesHold(f, w) ==
  /\ \A i : OnFile(f, i) => i \in ToSet(w)
  /\ \A i \in ToSet(w) : OnFile(f, i) \/ \A j \in ToSet(w) : OnFile(f, j) => i < j
FilesAreFull(f, R, n) ==
  /\ R \subseteq 1 .. MaxTime
  /\ \A t \in R : t <= n /\ Len(f[t]) > CacheSize
  /\ \A t \in 1 .. MaxTime : t \notin R => f[t] = <<>>
FilesSuffice(f, w, R) ==
  (\A i \in ToSet(w) : OnFile(f, i)) \/ Cardinality(R) >= CacheFileNum
FilesAreSound(f, w, R, n) ==
  FilesRise(f) /\ FilesHold(f, w) /\ FilesAreFull(f, R, n) /\ FilesSuffice(f, w, R)

Files(l) == [t \in 0 .. MaxTime |-> InFile(l, t)]
Excepted(l) == straddled[l] \/ clobbered[l] \/ turnedBack
HeldInv ==
  \A l \in Levels : ~Excepted(l) => FilesAreSound(Files(l), written[l], Renamed(l), now)

------------------------------------------------------------------------------
(* What the files hold *)

LEMMA AppendAdds ==
  ASSUME NEW s \in Seq(Nat), NEW i \in Nat
  PROVE  ToSet(Append(s, i)) = ToSet(s) \cup {i}
<1> DEFINE a == Append(s, i)
           n == Len(s)
<1>1. /\ n \in Nat /\ DOMAIN a = 1 .. n + 1 /\ DOMAIN s = 1 .. n
      /\ a[n + 1] = i /\ \A k \in 1 .. n : a[k] = s[k]
  OBVIOUS
<1> HIDE DEF a, n
<1>2. \A k \in 1 .. n : k \in 1 .. n + 1
  BY <1>1
<1>3. \A k \in 1 .. n + 1 : k = n + 1 \/ k \in 1 .. n
  BY <1>1
<1>4. n + 1 \in 1 .. n + 1
  BY <1>1
<1>5. ToSet(s) \cup {i} \subseteq ToSet(a)
  BY <1>1, <1>2, <1>4 DEF ToSet
<1>6. ToSet(a) \subseteq ToSet(s) \cup {i}
  BY <1>1, <1>3 DEF ToSet
<1> QED
  BY <1>5, <1>6 DEF a

LEMMA AppendRises ==
  ASSUME NEW s \in Seq(Nat), NEW i \in Nat, Rising(s), \A j \in ToSet(s) : j < i
  PROVE  /\ Append(s, i) \in Seq(Nat) /\ Rising(Append(s, i))
         /\ ToSet(Append(s, i)) = ToSet(s) \cup {i}
<1> DEFINE a == Append(s, i)
           n == Len(s)
<1>1. /\ n \in Nat /\ a \in Seq(Nat) /\ DOMAIN a = 1 .. n + 1 /\ DOMAIN s = 1 .. n
      /\ a[n + 1] = i /\ \A k \in 1 .. n : a[k] = s[k]
  OBVIOUS
<1> HIDE DEF a, n
<1>2. ASSUME NEW j \in DOMAIN a, NEW k \in DOMAIN a, j < k PROVE a[j] < a[k]
  <2>1. j \in 1 .. n
    BY <1>1, <1>2
  <2>2. CASE k = n + 1
    <3>1. s[j] \in ToSet(s) /\ a[k] = i /\ a[j] = s[j]
      BY <1>1, <2>1, <2>2 DEF ToSet
    <3> QED
      BY <3>1
  <2>3. CASE k # n + 1
    <3>1. k \in 1 .. n
      BY <1>1, <2>3
    <3> QED
      BY <1>1, <1>2, <2>1, <3>1 DEF Rising
  <2> QED
    BY <2>2, <2>3
<1>3. ToSet(a) = ToSet(s) \cup {i}
  BY AppendAdds DEF a
<1> QED
  BY <1>1, <1>2, <1>3 DEF a, Rising

(* A message that is written goes behind all others into the live file.    *)
LEMMA WrittenStaysSound ==
  ASSUME NEW f, NEW w \in Seq(Nat), NEW R, NEW n, FilesAreSound(f, w, R, n), f[0] \in Seq(Nat),
         NEW i \in Nat, \A j \in ToSet(w) : j < i,
         NEW g, g[0] = Append(f[0], i), \A t \in 1 .. MaxTime : g[t] = f[t]
  PROVE  FilesAreSound(g, Append(w, i), R, n)
<1> DEFINE v == Append(w, i)
           I == 0 .. MaxTime
<1>1. 0 \in I /\ \A t \in I : t = 0 \/ t \in 1 .. MaxTime
  BY Parameters
<1>2. FilesRise(f) /\ FilesHold(f, w) /\ FilesAreFull(f, R, n) /\ FilesSuffice(f, w, R)
  BY DEF FilesAreSound
<1>3. \A j \in ToSet(f[0]) : j \in ToSet(w) /\ j < i
  BY <1>1, <1>2 DEF FilesHold, OnFile
<1>4. Rising(g[0]) /\ ToSet(g[0]) = ToSet(f[0]) \cup {i}
  <2>1. Rising(f[0])
    BY <1>1, <1>2 DEF FilesRise
  <2> QED
    BY <1>3, <2>1, AppendRises
<1>5. ToSet(v) = ToSet(w) \cup {i}
  BY AppendAdds
<1> HIDE DEF v, I
<1>6. \A t \in I : ToSet(g[t]) = IF t = 0 THEN ToSet(f[0]) \cup {i} ELSE ToSet(f[t])
  BY <1>1, <1>4
<1>7. \A j : OnFile(g, j) <=> OnFile(f, j) \/ j = i
  BY <1>1, <1>6 DEF OnFile, I
<1>8. FilesRise(g)
  <2>1. \A t \in I : Rising(g[t])
    BY <1>1, <1>2, <1>4 DEF FilesRise, I
  <2>2. ASSUME NEW t \in I, NEW u \in I, Earlier(t, u), NEW j \in ToSet(g[t]), NEW k \in ToSet(g[u])
        PROVE  j < k
    <3>1. t # 0 /\ j \in ToSet(f[t]) /\ (k \in ToSet(f[u]) \/ (u = 0 /\ k = i))
      BY <1>6, <2>2 DEF Earlier
    <3>2. j \in ToSet(w)
      BY <1>2, <3>1 DEF FilesHold, OnFile, I
    <3> QED
      BY <1>2, <2>2, <3>1, <3>2 DEF FilesRise, I
  <2> QED
    BY <2>1, <2>2 DEF FilesRise, I
<1>9. FilesHold(g, v)
  <2>1. \A j : OnFile(g, j) => j \in ToSet(v)
    BY <1>2, <1>5, <1>7 DEF FilesHold
  <2>2. ASSUME NEW j \in ToSet(v), ~OnFile(g, j), NEW k \in ToSet(v), OnFile(g, k)
        PROVE  j < k
    BY <1>2, <1>5, <1>7, <2>2 DEF FilesHold
  <2> QED
    BY <2>1, <2>2 DEF FilesHold
<1>10. FilesAreFull(g, R, n)
  BY <1>2 DEF FilesAreFull
<1>11. FilesSuffice(g, v, R)
  BY <1>2, <1>5, <1>7 DEF FilesSuffice
<1> QED
  BY <1>8, <1>9, <1>10, <1>11 DEF FilesAreSound, v

(* A file that is renamed was the newest, and is so among the renamed.     *)
LEMMA RenamedStaysSound ==
  ASSUME NEW f, NEW w, NEW R, NEW n \in 1 .. MaxTime, FilesAreSound(f, w, R, n), n \notin R,
         IsFiniteSet(R), Len(f[0]) > CacheSize,
         NEW g, g[n] = f[0], g[0] = <<>>, \A t \in 1 .. MaxTime : t # n => g[t] = f[t]
  PROVE  FilesAreSound(g, w, R \cup {n}, n)
<1> DEFINE I == 0 .. MaxTime
<1>1. 0 \in I /\ n \in I /\ n # 0 /\ \A t \in I : t = 0 \/ t \in 1 .. MaxTime
  BY Parameters
<1>2. FilesRise(f) /\ FilesHold(f, w) /\ FilesAreFull(f, R, n) /\ FilesSuffice(f, w, R)
  BY DEF FilesAreSound
<1>3. f[n] = <<>>
  BY <1>2 DEF FilesAreFull
<1>4. ToSet(<<>>) = {} /\ Rising(<<>>)
  BY DEF ToSet, Rising
<1>5. \A t \in I : g[t] = IF t = 0 THEN <<>> ELSE IF t = n THEN f[0] ELSE f[t]
  BY <1>1
<1>6. \A t \in 1 .. MaxTime : t > n => f[t] = <<>>
  <2> SUFFICES ASSUME NEW t \in 1 .. MaxTime, t > n PROVE f[t] = <<>>
    OBVIOUS
  <2>1. t \notin R
    <3>1. ~(t <= n)
      OBVIOUS
    <3> QED
      BY <1>2, <3>1 DEF FilesAreFull
  <2> QED
    BY <1>2, <2>1 DEF FilesAreFull
<1> HIDE DEF I
<1>7. \A i : OnFile(g, i) <=> OnFile(f, i)
  BY <1>1, <1>3, <1>4, <1>5 DEF OnFile, I
<1>8. FilesRise(g)
  <2>1. \A t \in I : Rising(g[t])
    BY <1>1, <1>2, <1>4, <1>5 DEF FilesRise, I
  <2>2. ASSUME NEW t \in I, NEW u \in I, Earlier(t, u), NEW j \in ToSet(g[t]), NEW k \in ToSet(g[u])
        PROVE  j < k
    <3>1. u # 0 /\ t # 0 /\ t < u
      BY <1>4, <1>5, <2>2 DEF Earlier
    <3>2. t # n
      <4>1. u > n => f[u] = <<>>
        BY <1>1, <1>6, <3>1
      <4>2. t = n => g[u] = f[u] /\ u > n
        BY <1>5, <3>1 DEF I
      <4> QED
        BY <1>4, <2>2, <4>1, <4>2
    <3>3. j \in ToSet(f[t])
      BY <1>5, <2>2, <3>1, <3>2
    <3>4. CASE u = n
      <4>1. k \in ToSet(f[0]) /\ Earlier(t, 0)
        BY <1>5, <2>2, <3>1, <3>4 DEF Earlier
      <4> QED
        BY <1>1, <1>2, <3>3, <4>1 DEF FilesRise, I
    <3>5. CASE u # n
      <4>1. k \in ToSet(f[u])
        BY <1>5, <2>2, <3>1, <3>5
      <4> QED
        BY <1>2, <2>2, <3>3, <4>1 DEF FilesRise, I
    <3> QED
      BY <3>4, <3>5
  <2> QED
    BY <2>1, <2>2 DEF FilesRise, I
<1>9. FilesHold(g, w)
  BY <1>2, <1>7 DEF FilesHold
<1>10. FilesAreFull(g, R \cup {n}, n)
  <2>1. n <= n
    OBVIOUS
  <2> QED
    BY <1>2, <2>1 DEF FilesAreFull
<1>11. FilesSuffice(g, w, R \cup {n})
  <2>1. /\ IsFiniteSet(R \cup {n}) /\ Cardinality(R) \in Nat /\ Cardinality(R \cup {n}) \in Nat
        /\ Cardinality(R) <= Cardinality(R \cup {n})
    <3>1. IsFiniteSet(R \cup {n})
      BY FS_AddElement
    <3>2. R \in SUBSET (R \cup {n})
      OBVIOUS
    <3> QED
      BY <3>1, <3>2, Smaller, FS_CardinalityType
  <2>2. CacheFileNum \in Nat
    BY Parameters
  <2>3. Cardinality(R) >= CacheFileNum => Cardinality(R \cup {n}) >= CacheFileNum
    BY <2>1, <2>2
  <2> QED
    BY <1>2, <1>7, <2>3 DEF FilesSuffice
<1> QED
  BY <1>8, <1>9, <1>10, <1>11 DEF FilesAreSound

(* Files that are removed are the oldest, and enough are left.             *)
LEMMA SweptStaysSound ==
  ASSUME NEW f, NEW w, NEW R, NEW K, NEW n, FilesAreSound(f, w, R, n), K \subseteq R,
         \A t \in R \ K : \A u \in K : t < u,
         K = R \/ Cardinality(K) >= CacheFileNum,
         NEW g, \A t \in 0 .. MaxTime : g[t] = IF t \in R \ K THEN <<>> ELSE f[t]
  PROVE  FilesAreSound(g, w, K, n)
<1> DEFINE I == 0 .. MaxTime
<1>1. 0 \in I /\ \A t \in I : t = 0 \/ t \in 1 .. MaxTime
  BY Parameters
<1>2. FilesRise(f) /\ FilesHold(f, w) /\ FilesAreFull(f, R, n) /\ FilesSuffice(f, w, R)
  BY DEF FilesAreSound
<1>3. R \subseteq 1 .. MaxTime /\ 1 .. MaxTime \subseteq I /\ 0 \notin R
  BY <1>2 DEF FilesAreFull
<1>4. ToSet(<<>>) = {} /\ Rising(<<>>)
  BY DEF ToSet, Rising
<1>5. \A t \in I : g[t] = (IF t \in R \ K THEN <<>> ELSE f[t]) /\ ToSet(g[t]) \subseteq ToSet(f[t])
  BY <1>4
<1> HIDE DEF I
<1>6. FilesRise(g)
  <2>1. \A t \in I : Rising(g[t])
    BY <1>2, <1>4, <1>5 DEF FilesRise, I
  <2> QED
    BY <1>2, <1>5, <2>1 DEF FilesRise, I
<1>7. \A i : OnFile(g, i) => OnFile(f, i)
  BY <1>5 DEF OnFile, I
<1>8. FilesHold(g, w)
  <2>1. \A i : OnFile(g, i) => i \in ToSet(w)
    BY <1>2, <1>7 DEF FilesHold
  <2>2. ASSUME NEW i \in ToSet(w), ~OnFile(g, i), NEW j \in ToSet(w), OnFile(g, j)
        PROVE  i < j
    <3>1. CASE ~OnFile(f, i)
      BY <1>2, <1>7, <2>2, <3>1 DEF FilesHold
    <3>2. CASE OnFile(f, i)
      <4>1. PICK t \in I : i \in ToSet(f[t])
        BY <3>2 DEF OnFile, I
      <4>2. t \in R \ K
        BY <1>5, <2>2, <4>1 DEF OnFile, I
      <4>3. PICK u \in I : j \in ToSet(g[u])
        BY <2>2 DEF OnFile, I
      <4>4. j \in ToSet(f[u]) /\ u \notin R \ K
        BY <1>4, <1>5, <4>3
      <4>5. u = 0 \/ u \in K
        <5>1. u \in R \/ u = 0
          BY <1>1, <1>2, <1>4, <4>4 DEF FilesAreFull
        <5> QED
          BY <4>4, <5>1
      <4>6. Earlier(t, u)
        BY <1>3, <4>2, <4>5 DEF Earlier
      <4> QED
        BY <1>2, <4>1, <4>4, <4>6 DEF FilesRise, I
    <3> QED
      BY <3>1, <3>2
  <2> QED
    BY <2>1, <2>2 DEF FilesHold
<1>9. FilesAreFull(g, K, n)
  <2>1. \A t \in K : g[t] = f[t]
    BY <1>3, <1>5
  <2>2. \A t \in 1 .. MaxTime : t \notin K => g[t] = <<>>
    BY <1>2, <1>3, <1>5 DEF FilesAreFull
  <2> QED
    BY <1>2, <2>1, <2>2 DEF FilesAreFull
<1>10. FilesSuffice(g, w, K)
  <2>1. CASE K = R
    <3>1. \A t \in I : g[t] = f[t]
      BY <1>5, <2>1
    <3>2. \A i : OnFile(f, i) => OnFile(g, i)
      BY <3>1 DEF OnFile, I
    <3> QED
      BY <1>2, <2>1, <3>2 DEF FilesSuffice
  <2>2. CASE Cardinality(K) >= CacheFileNum
    BY <2>2 DEF FilesSuffice
  <2> QED
    BY <2>1, <2>2
<1> QED
  BY <1>6, <1>8, <1>9, <1>10 DEF FilesAreSound

(* The sweep keeps m_CacheFileNum files when it takes any: those that are  *)
(* newer than the newest it takes are kept, and they are that many.        *)
LEMMA EnoughAreKept ==
  ASSUME NEW l \in Levels
  PROVE  /\ Kept(l) \subseteq Renamed(l)
         /\ \A t \in Renamed(l) \ Kept(l), u \in Kept(l) : t < u
         /\ Kept(l) = Renamed(l) \/ Cardinality(Kept(l)) >= CacheFileNum
<1> DEFINE R == Renamed(l)
           K == Kept(l)
           Newer(t) == {u \in R : u > t}
<1>1. IsFiniteSet(R) /\ R \subseteq 1 .. MaxTime /\ R \subseteq Nat
  BY RenamedIsFinite DEF Renamed
<1>2. K = {t \in R : Cardinality(Newer(t)) < CacheFileNum} /\ K \subseteq R
  BY DEF Kept
<1>3. \A t \in R : IsFiniteSet(Newer(t)) /\ Cardinality(Newer(t)) \in Nat
  <2>1. \A t \in R : Newer(t) \in SUBSET R
    OBVIOUS
  <2> QED
    BY <1>1, <2>1, Smaller
<1>4. CacheFileNum \in Nat /\ MaxTime \in Nat
  BY Parameters
<1>5. ASSUME NEW t \in R \ K, NEW u \in K PROVE t < u
  <2>1. t \in Nat /\ u \in Nat /\ t \in R /\ u \in R
    BY <1>1, <1>2
  <2>2. ASSUME u <= t PROVE FALSE
    <3>1. Newer(t) \in SUBSET Newer(u)
      BY <1>1, <2>1, <2>2
    <3> DEFINE a == Cardinality(Newer(t))
               b == Cardinality(Newer(u))
    <3>2. a \in Nat /\ b \in Nat /\ a <= b
      BY <1>3, <2>1, <3>1, Smaller
    <3>3. ~(a < CacheFileNum) /\ b < CacheFileNum
      BY <1>2, <2>1
    <3> HIDE DEF a, b
    <3> QED
      BY <1>4, <3>2, <3>3
  <2> QED
    BY <2>1, <2>2
<1>6. ASSUME K # R PROVE Cardinality(K) >= CacheFileNum
  <2> DEFINE Gone == {MaxTime - t : t \in R \ K}
  <2>1. Gone \subseteq Nat /\ Gone # {}
    <3>1. \A t \in R : MaxTime - t \in Nat
      BY <1>1, <1>4
    <3>2. R \ K # {}
      BY <1>2, <1>6
    <3> HIDE DEF R, K
    <3> QED
      BY <3>1, <3>2
  <2>2. PICK m \in Gone : \A k \in Gone : m <= k
    <3> HIDE DEF Gone
    <3> QED
      BY <2>1, LeastNumber
  <2>3. PICK t \in R \ K : m = MaxTime - t
    OBVIOUS
  <2>4. \A u \in R \ K : u <= t
    <3> SUFFICES ASSUME NEW u \in R \ K PROVE u <= t
      OBVIOUS
    <3>1. MaxTime - t <= MaxTime - u
      BY <2>2, <2>3
    <3>2. u \in Nat /\ t \in Nat
      BY <1>1
    <3> HIDE DEF R, K
    <3> QED
      BY <1>4, <3>1, <3>2
  <2>5. Newer(t) \in SUBSET K
    <3> SUFFICES ASSUME NEW u \in R, u > t, u \notin K PROVE FALSE
      OBVIOUS
    <3>1. u <= t /\ u \in Nat /\ t \in Nat
      BY <1>1, <2>4
    <3> HIDE DEF R, K
    <3> QED
      BY <3>1
  <2>6. IsFiniteSet(K) /\ Cardinality(K) \in Nat
    BY <1>1, <1>2, Smaller
  <2>7. Cardinality(Newer(t)) \in Nat /\ Cardinality(Newer(t)) <= Cardinality(K)
    BY <1>3, <2>5, <2>6, Smaller
  <2>8. ~(Cardinality(Newer(t)) < CacheFileNum)
    BY <1>2
  <2> DEFINE a == Cardinality(Newer(t))
             b == Cardinality(K)
  <2>9. a \in Nat /\ b \in Nat /\ a <= b /\ ~(a < CacheFileNum)
    BY <2>6, <2>7, <2>8
  <2>10. b >= CacheFileNum
    <3> HIDE DEF a, b
    <3> QED
      BY <1>4, <2>9
  <2> QED
    BY <2>10
<1> QED
  BY <1>2, <1>5, <1>6

(* Messages are numbered when they are queued, taken in that order, and    *)
(* written before the next is taken.                                       *)
LEMMA OrderStep ==
  ASSUME LogTypes, LabelInv, OrderInv, [LogNext]_logVars
  PROVE  OrderInv'
<1>1. /\ pushed \in Nat /\ Stop = 0 /\ written \in [Levels -> Seq(Nat)]
      /\ \A t \in Callers \cup {Disk} : msg[t].level \in Levels /\ msg[t].id \in Nat
      /\ \A l \in Levels : \A i \in ToSet(written[l]) : i \in Nat
  <2>1. \A l \in Levels : written[l] \in Seq(Nat)
    <3>1. \A s \in Seq(1 .. MaxMessages) : s \in Seq(Nat)
      <4>1. 1 .. MaxMessages \subseteq Nat
        OBVIOUS
      <4> QED
        BY <4>1, SeqMonotonic
    <3>2. \A l \in Levels : written[l] \in Seq(1 .. MaxMessages)
      BY DEF LogTypes
    <3> QED
      BY <3>1, <3>2
  <2>2. \A l \in Levels : \A i \in ToSet(written[l]) : i \in Nat
    BY <2>1 DEF ToSet
  <2> QED
    BY <2>1, <2>2 DEF LogTypes, Stop
<1>2. /\ \A l \in Levels : Rising(written[l])
      /\ \A k \in DOMAIN queue : queue[k].id <= pushed
      /\ \A j, k \in DOMAIN queue : j < k => queue[k].id = Stop \/ queue[j].id < queue[k].id
      /\ InHand => msg[Disk].id <= pushed /\ Ahead(msg[Disk].id)
      /\ \A l \in Levels : \A i \in ToSet(written[l]) :
           i <= pushed /\ Ahead(i) /\ (InHand => i < msg[Disk].id)
  BY DEF OrderInv
<1>3. /\ \A k \in DOMAIN queue : k \in Nat /\ queue[k].id \in Nat
      /\ DOMAIN queue = 1 .. Len(queue) /\ Len(queue) \in Nat
  BY QueueIs
<1> DEFINE AheadNow(i) == \A k \in DOMAIN queue' : queue'[k].id = Stop \/ i < queue'[k].id
<1>4. ASSUME UNCHANGED <<pushed, queue, written>>, InHand' => InHand /\ msg'[Disk] = msg[Disk]
      PROVE  OrderInv'
  <2>1. \A i : Ahead(i)' <=> Ahead(i)
    BY <1>4 DEF Ahead
  <2> QED
    BY <1>2, <1>4, <2>1 DEF OrderInv, Ahead
<1>5. ASSUME NEW e, Behind(e), e.id \in {Stop, pushed'}, pushed' \in {pushed, pushed + 1},
             e.id # Stop => pushed' = pushed + 1,
             UNCHANGED written, InHand' <=> InHand, msg'[Disk] = msg[Disk]
      PROVE  OrderInv'
  <2> DEFINE n == Len(queue)
  <2>1. /\ DOMAIN queue' = 1 .. n + 1 /\ n + 1 \in DOMAIN queue'
        /\ queue'[n + 1] = e /\ \A k \in DOMAIN queue : queue'[k] = queue[k]
        /\ \A k \in DOMAIN queue' : k \in DOMAIN queue \/ k = n + 1
    BY <1>3, <1>5 DEF Behind
  <2>2. n \in Nat /\ DOMAIN queue = 1 .. n
    BY <1>3
  <2> HIDE DEF n
  <2>3. pushed <= pushed' /\ pushed' \in Nat /\ e.id <= pushed'
    BY <1>1, <1>5
  <2>4. ASSUME NEW i \in Nat, i <= pushed, Ahead(i) PROVE i <= pushed' /\ AheadNow(i)
    <3>1. i <= pushed' /\ (e.id = Stop \/ i < e.id)
      BY <1>1, <1>5, <2>3, <2>4
    <3>2. ASSUME NEW k \in DOMAIN queue' PROVE queue'[k].id = Stop \/ i < queue'[k].id
      BY <2>1, <2>4, <3>1 DEF Ahead
    <3> QED
      BY <3>1, <3>2 DEF Ahead
  <2>5. \A k \in DOMAIN queue' : queue'[k].id <= pushed'
    <3> SUFFICES ASSUME NEW k \in DOMAIN queue' PROVE queue'[k].id <= pushed'
      OBVIOUS
    <3>1. CASE k \in DOMAIN queue
      <4>1. queue'[k].id = queue[k].id /\ queue[k].id \in Nat /\ queue[k].id <= pushed
        BY <1>2, <1>3, <2>1, <3>1
      <4> QED
        BY <1>1, <2>3, <4>1
    <3>2. CASE k = n + 1
      BY <2>1, <2>3, <3>2
    <3> QED
      BY <2>1, <3>1, <3>2
  <2>6. ASSUME NEW j \in DOMAIN queue', NEW k \in DOMAIN queue', j < k
        PROVE  queue'[k].id = Stop \/ queue'[j].id < queue'[k].id
    <3>1. j \in DOMAIN queue
      BY <2>1, <2>2, <2>6
    <3>2. CASE k \in DOMAIN queue
      BY <1>2, <2>1, <2>6, <3>1, <3>2
    <3>3. CASE k = n + 1
      <4>1. queue[j].id \in Nat /\ queue[j].id <= pushed
        BY <1>2, <1>3, <3>1
      <4>2. e.id = Stop \/ queue[j].id < e.id
        BY <1>1, <1>5, <4>1
      <4> QED
        BY <2>1, <3>1, <3>3, <4>2
    <3> QED
      BY <2>1, <3>2, <3>3
  <2> HIDE DEF AheadNow
  <2>7. InHand' => msg'[Disk].id <= pushed' /\ AheadNow(msg'[Disk].id)
    BY <1>1, <1>2, <1>5, <2>4
  <2>8. \A l \in Levels : \A i \in ToSet(written[l]) :
          i <= pushed' /\ AheadNow(i) /\ (InHand' => i < msg'[Disk].id)
    BY <1>1, <1>2, <1>5, <2>4
  <2> QED
    BY <1>2, <1>5, <2>5, <2>6, <2>7, <2>8 DEF OrderInv, Ahead, AheadNow
<1>6. ASSUME NEW c \in Callers,
             (\E l \in Levels : LogMessage(c, l) \/ StreamFindsClosed(c, l)) \/ Caller(c)
      PROVE  OrderInv'
  <2>1. /\ UNCHANGED written /\ (InHand' <=> InHand) /\ msg'[Disk] = msg[Disk]
    BY <1>6, CallersKeep DEF CallerKeeps, InHand
  <2>2. CASE UNCHANGED <<pushed, queue>>
    BY <1>4, <2>1, <2>2
  <2>3. ASSUME NEW l \in Levels, Push(l) PROVE OrderInv'
    <3>1. PICK e \in {[id |-> pushed + 1, level |-> l]} : TRUE
      OBVIOUS
    <3>2. Behind(e) /\ pushed' = pushed + 1 /\ e.id = pushed + 1
      BY <2>3, <3>1, PushIs
    <3> QED
      BY <1>5, <2>1, <3>2
  <2>4. UNCHANGED <<pushed, queue>> \/ \E l \in Levels : Push(l)
    BY <1>1, <1>6 DEF LogMessage, StreamFindsClosed, Caller, StreamOpens, StreamStores, StreamPushes
  <2> QED
    BY <2>2, <2>3, <2>4
<1>7. CASE WriteThread
  <2>1. DiskKeeps /\ DiskGoes
    BY <1>7, DiskStepKeeps, DiskStepGoes
  <2>2. UNCHANGED pushed
    BY <2>1 DEF DiskKeeps
  <2>3. CASE Pop
    <3>1. UNCHANGED written /\ queue # <<>> /\ queue' = Tail(queue)
      BY <2>3 DEF Pop, history
    <3>2. Shifted
      BY <3>1, TailIs
    <3>3. InHand' => Head(queue).id # Stop /\ msg'[Disk] = queue[1]
      BY <2>1, <2>3, <3>2 DEF DiskGoes, Pop, DiskOpens, WriteAll, WriteFails, Measure, Rename,
                              RemoveTimeoutLogFile, LogAt, InHand, Shifted
    <3>4. \A i : Ahead(i) => Ahead(i)'
      BY <3>2 DEF Shifted, Ahead
    <3>5. \A k \in DOMAIN queue' : queue'[k].id <= pushed
      BY <1>2, <3>2 DEF Shifted
    <3>6. ASSUME NEW j \in DOMAIN queue', NEW k \in DOMAIN queue', j < k
          PROVE  queue'[k].id = Stop \/ queue'[j].id < queue'[k].id
      <4>1. /\ j \in Nat /\ k \in Nat /\ j + 1 \in DOMAIN queue /\ k + 1 \in DOMAIN queue
            /\ queue'[k] = queue[k + 1] /\ queue'[j] = queue[j + 1]
        BY <3>2 DEF Shifted
      <4>2. j + 1 < k + 1
        BY <3>6, <4>1
      <4> QED
        BY <1>2, <4>1, <4>2
    <3>7. ASSUME InHand' PROVE msg'[Disk].id <= pushed /\ AheadNow(msg'[Disk].id)
      <4>1. msg'[Disk] = queue[1] /\ 1 \in DOMAIN queue
        BY <3>2, <3>3, <3>7 DEF Shifted
      <4>2. ASSUME NEW k \in DOMAIN queue' PROVE queue'[k].id = Stop \/ queue[1].id < queue'[k].id
        <5>1. k \in Nat /\ k + 1 \in DOMAIN queue /\ queue'[k] = queue[k + 1] /\ k # 0
          BY <1>3, <3>1, <3>2, QueueIs DEF Shifted
        <5>2. 1 < k + 1
          BY <5>1
        <5> QED
          BY <1>2, <4>1, <5>1, <5>2
      <4> QED
        BY <1>2, <4>1, <4>2
    <3>8. ASSUME NEW l \in Levels, NEW i \in ToSet(written[l])
          PROVE  i <= pushed /\ Ahead(i)' /\ (InHand' => i < msg'[Disk].id)
      <4>1. i <= pushed /\ Ahead(i) /\ Ahead(i)'
        BY <1>2, <3>4
      <4>2. InHand' => i < msg'[Disk].id
        <5>1. 1 \in DOMAIN queue /\ Head(queue) = queue[1]
          BY <3>2 DEF Shifted
        <5> QED
          BY <3>3, <4>1, <5>1 DEF Ahead
      <4> QED
        BY <4>1, <4>2
    <3> QED
      BY <1>2, <2>2, <3>1, <3>5, <3>6, <3>7, <3>8 DEF OrderInv, Ahead
  <2>4. CASE DiskOpens \/ WriteFails \/ Measure \/ Rename \/ RemoveTimeoutLogFile
    <3>1. UNCHANGED <<queue, written>>
      BY <2>4 DEF DiskOpens, WriteFails, Measure, Rename, RemoveTimeoutLogFile, history
    <3>2. InHand' => InHand /\ msg'[Disk] = msg[Disk]
      BY <2>1, <2>4 DEF DiskGoes, Pop, DiskOpens, WriteAll, WriteFails, Measure, Rename,
                        RemoveTimeoutLogFile, LogAt, InHand
    <3> QED
      BY <1>4, <2>2, <3>1, <3>2
  <2>5. CASE WriteAll
    <3>0. PICK i \in Nat, l \in Levels : i = msg[Disk].id /\ l = msg[Disk].level
      BY <1>1
    <3>1. /\ UNCHANGED queue /\ written' = [written EXCEPT ![l] = Append(@, i)]
          /\ InHand /\ ~InHand'
      <4>1. InHand /\ ~InHand'
        BY <2>1, <2>5 DEF DiskGoes, Pop, DiskOpens, WriteAll, WriteFails, Measure, Rename,
                          RemoveTimeoutLogFile, LogAt, InHand
      <4> QED
        BY <2>5, <3>0, <4>1 DEF WriteAll
    <3>2. /\ \A m \in Levels : m # l => written'[m] = written[m]
          /\ written'[l] = Append(written[l], i) /\ written[l] \in Seq(Nat)
      BY <1>1, <3>1
    <3>3. \A j \in ToSet(written[l]) : j < i
      BY <1>2, <3>0, <3>1
    <3>4. Rising(written'[l]) /\ ToSet(written'[l]) = ToSet(written[l]) \cup {i}
      BY <1>2, <3>2, <3>3, AppendRises
    <3>5. i <= pushed /\ Ahead(i)
      BY <1>2, <3>0, <3>1
    <3>6. \A m \in Levels : Rising(written'[m])
      BY <1>2, <3>2, <3>4
    <3>7. \A m \in Levels : \A j \in ToSet(written'[m]) : j <= pushed /\ Ahead(j)
      BY <1>2, <3>2, <3>4, <3>5
    <3>8. \A j : Ahead(j)' <=> Ahead(j)
      BY <3>1 DEF Ahead
    <3> QED
      BY <1>2, <2>2, <3>1, <3>6, <3>7, <3>8 DEF OrderInv
  <2> QED
    BY <1>7, <2>3, <2>4, <2>5 DEF WriteThread
<1>8. CASE Destroy
  <2>1. UNCHANGED <<pushed, written, msg>> /\ (InHand' <=> InHand)
    BY <1>8, DestroyStepGoes DEF DestroyGoes, InHand
  <2>2. CASE DestroyCloses
    <3>1. UNCHANGED queue
      BY <2>2 DEF DestroyCloses
    <3> QED
      BY <1>4, <2>1, <3>1
  <2>3. CASE DestroyStops
    <3>1. PICK e \in {[id |-> Stop, level |-> 0]} : TRUE
      OBVIOUS
    <3>2. queue' = Append(queue, e) /\ e.id = Stop /\ e \in Message
      BY <2>3, <3>1, Parameters DEF DestroyStops, Message
    <3>3. Behind(e)
      BY <3>2, AppendIs
    <3> QED
      BY <1>5, <2>1, <3>2, <3>3
  <2> QED
    BY <1>8, <2>2, <2>3 DEF Destroy
<1>9. CASE Restart
  <2>1. UNCHANGED <<pushed, written>> /\ queue' = <<>> /\ ~InHand'
    BY <1>9 DEF Restart, Threads, InHand
  <2>2. \A i : Ahead(i)'
    BY <2>1 DEF Ahead
  <2> QED
    BY <1>2, <2>1, <2>2 DEF OrderInv
<1>10. CASE Tick \/ TurnBack \/ UNCHANGED logVars
  <2>1. UNCHANGED <<queue, pushed, written, pc, msg>>
    BY <1>10 DEF Tick, TurnBack, timeless, logVars, diskVars, history
  <2> QED
    BY <1>4, <2>1 DEF InHand
<1> QED
  BY <1>6, <1>7, <1>8, <1>9, <1>10 DEF LogNext

(* A file is renamed because it is too long, and until then none but the   *)
(* writing thread touches it.                                              *)
LEMMA DueStep ==
  ASSUME LogTypes, LabelInv, DueInv, [LogNext]_logVars
  PROVE  DueInv'
<1>1. /\ \A t \in Callers \cup {Disk} : msg[t].level \in Levels
      /\ \A l \in Levels : dir[l][0] # Closed => dir[l][0] \in 1 .. Len(content)
  <2>1. 0 \in 0 .. MaxTime
    BY Parameters
  <2> QED
    BY <2>1, FilesAre DEF LogTypes
<1>2. ASSUME UNCHANGED <<dir, content>>, pc'[Disk] = pc[Disk], msg'[Disk] = msg[Disk]
      PROVE  DueInv'
  BY <1>2 DEF DueInv, LogAt, TooLong
<1>3. ASSUME NEW c \in Callers,
             (\E l \in Levels : LogMessage(c, l) \/ StreamFindsClosed(c, l)) \/ Caller(c)
      PROVE  DueInv'
  <2>1. pc'[Disk] = pc[Disk] /\ msg'[Disk] = msg[Disk]
    BY <1>3, CallersKeep DEF CallerKeeps
  <2>2. Create(msg[c].level) \/ UNCHANGED <<dir, content>>
    BY <1>3 DEF LogMessage, StreamFindsClosed, Caller, StreamOpens, StreamStores, StreamPushes, diskVars
  <2>3. ASSUME NEW l \in Levels, Created(l) PROVE DueInv'
    <3>1. PICK m \in Levels : m = msg[Disk].level
      BY <1>1
    <3>2. ASSUME TooLong(m) PROVE TooLong(m)'
      <4>1. dir[m][0] # Closed /\ Len(content[dir[m][0]]) > CacheSize /\ dir[m][0] \in 1 .. Len(content)
        BY <1>1, <3>2 DEF TooLong
      <4>2. dir'[m][0] = dir[m][0]
        <5>1. 0 \in 0 .. MaxTime
          BY Parameters
        <5> QED
          BY <2>3, <4>1, <5>1 DEF Created
      <4>3. content'[dir[m][0]] = content[dir[m][0]]
        BY <2>3, <4>1 DEF Created
      <4> QED
        BY <4>1, <4>2, <4>3 DEF TooLong
    <3> QED
      BY <2>1, <3>1, <3>2 DEF DueInv, LogAt
  <2> QED
    BY <1>1, <1>2, <2>1, <2>2, <2>3, CreateIs
<1>4. CASE WriteThread
  <2>1. DiskGoes
    BY <1>4, DiskStepGoes
  <2>2. SUFFICES ASSUME pc'[Disk] = "rename" PROVE TooLong(msg[Disk].level)'
    BY DEF DueInv, LogAt
  <2>3. Measure /\ msg'[Disk] = msg[Disk] /\ TooLong(msg[Disk].level)
    BY <2>1, <2>2 DEF DiskGoes
  <2> QED
    BY <2>3 DEF Measure, diskVars, TooLong
<1>5. CASE Destroy
  BY <1>2, <1>5, DestroyStepGoes DEF DestroyGoes
<1>6. CASE Restart
  <2>1. pc'[Disk] = "pop"
    BY <1>6 DEF Restart, Threads
  <2> QED
    BY <2>1 DEF DueInv, LogAt
<1>7. CASE Tick \/ TurnBack \/ UNCHANGED logVars
  <2>1. UNCHANGED <<dir, content, pc, msg>>
    BY <1>7 DEF Tick, TurnBack, timeless, logVars, diskVars, history
  <2> QED
    BY <1>2, <2>1
<1> QED
  BY <1>3, <1>4, <1>5, <1>6, <1>7 DEF LogNext

(* Nothing that a level has on the disk changes.                           *)
SameFiles(l) ==
  (\A t \in 0 .. MaxTime : InFile(l, t)' = InFile(l, t)) /\ Renamed(l)' = Renamed(l)

LEMMA SameDir ==
  ASSUME NEW l \in Levels, dir'[l] = dir[l], UNCHANGED content
  PROVE  SameFiles(l)
BY DEF SameFiles, InFile, Renamed

LEMMA SameCreated ==
  ASSUME LogTypes, NEW k \in Levels, Created(k), NEW l \in Levels
  PROVE  SameFiles(l)
<1>0. 0 \in 0 .. MaxTime /\ 1 .. MaxTime \subseteq 0 .. MaxTime /\ \A t \in 1 .. MaxTime : t # 0
  BY Parameters
<1>1. ASSUME NEW t \in 0 .. MaxTime PROVE InFile(l, t)' = InFile(l, t)
  <2>1. /\ dir[l][t] # Closed => dir[l][t] \in 1 .. Len(content)
        /\ \A i \in 1 .. Len(content) : content'[i] = content[i]
    BY <1>1, FilesAre DEF Created
  <2>2. CASE (l # k \/ t # 0) \/ dir[k][0] # Closed
    <3>1. dir'[l][t] = dir[l][t]
      BY <2>2 DEF Created
    <3> QED
      BY <2>1, <3>1 DEF InFile
  <2>3. CASE l = k /\ t = 0 /\ dir[k][0] = Closed
    <3>1. dir'[k][0] = OpenLive(k) /\ content'[OpenLive(k)] = <<>>
      BY <2>3 DEF Created
    <3> QED
      BY <2>3, <3>1 DEF InFile
  <2> QED
    BY <2>2, <2>3
<1>2. Renamed(l)' = Renamed(l)
  <2>1. \A t \in 1 .. MaxTime : dir'[l][t] = dir[l][t]
    BY <1>0 DEF Created
  <2> QED
    BY <2>1 DEF Renamed
<1> QED
  BY <1>1, <1>2 DEF SameFiles

LEMMA SameStaysSound ==
  ASSUME NEW l \in Levels, SameFiles(l), written'[l] = written[l],
         now \in Nat, now' \in Nat, now <= now',
         FilesAreSound(Files(l), written[l], Renamed(l), now)
  PROVE  FilesAreSound(Files(l), written[l], Renamed(l), now)'
<1>1. Files(l)' = Files(l) /\ Renamed(l)' = Renamed(l) /\ (written[l])' = written[l]
  BY DEF SameFiles, Files
<1> DEFINE f == Files(l)
           w == written[l]
           R == Renamed(l)
<1>2. FilesRise(f) /\ FilesHold(f, w) /\ FilesAreFull(f, R, now) /\ FilesSuffice(f, w, R)
  BY DEF FilesAreSound
<1>3. FilesAreFull(f, R, now')
  <2>1. R \subseteq 1 .. MaxTime
    BY <1>2 DEF FilesAreFull
  <2>2. \A t \in R : t \in Nat
    BY <2>1
  <2>3. \A t \in R : t <= now'
    <3> SUFFICES ASSUME NEW t \in R PROVE t <= now'
      OBVIOUS
    <3>1. t \in Nat /\ t <= now
      BY <1>2, <2>2 DEF FilesAreFull
    <3> HIDE DEF R
    <3> QED
      BY <3>1
  <2> QED
    BY <1>2, <2>3 DEF FilesAreFull
<1>4. \E F, W, S : /\ F = f /\ W = w /\ S = R
  OBVIOUS
<1>5. PICK F, W, S : F = f /\ W = w /\ S = R
  BY <1>4
<1>6. FilesAreSound(F, W, S, now')
  BY <1>2, <1>3, <1>5 DEF FilesAreSound
<1>7. Files(l)' = F /\ Renamed(l)' = S /\ (written[l])' = W
  BY <1>1, <1>5
<1> QED
  BY <1>6, <1>7 DEF FilesAreSound, FilesRise, FilesHold, FilesAreFull, FilesSuffice, OnFile, Earlier, Rising

(* Over every step: a message is written behind the others, a renamed file *)
(* stays the newest, a sweep takes the oldest, and what a second renaming  *)
(* in one second, a clock put back or a late descriptor spoils is excepted.*)
LEMMA HeldStep ==
  ASSUME LogTypes, LabelInv, ApartInv, DescriptorIsLive, OrderInv, DueInv, HeldInv,
         [LogNext]_logVars
  PROVE  HeldInv'
<1> DEFINE I == 0 .. MaxTime
           Good(l) == FilesAreSound(Files(l), written[l], Renamed(l), now)
<1>1. /\ now \in Nat /\ now \in 1 .. MaxTime /\ now \in I /\ 0 \in I
      /\ 1 .. MaxTime \subseteq I /\ \A t \in 1 .. MaxTime : t # 0
      /\ dir \in [Levels -> [I -> 0 .. Len(content)]]
      /\ straddled \in [Levels -> BOOLEAN] /\ clobbered \in [Levels -> BOOLEAN]
  <2>1. 0 \in I /\ 1 .. MaxTime \subseteq I
    BY Parameters
  <2> QED
    BY <2>1 DEF LogTypes
<1>2. \A t \in Callers \cup {Disk} : msg[t].level \in Levels
  BY DEF LogTypes
<1>3. \A l \in Levels : Files(l) = [t \in I |-> InFile(l, t)]
  BY DEF Files
<1>4. ASSUME NEW l \in Levels, SameFiles(l), written'[l] = written[l],
             now' \in Nat, now <= now', ~Excepted(l)
      PROVE  Good(l)'
  BY <1>1, <1>4, SameStaysSound DEF HeldInv
<1>5. now <= now
  BY <1>1
<1> HIDE DEF I, Good
<1>6. ASSUME NEW c \in Callers,
             (\E l \in Levels : LogMessage(c, l) \/ StreamFindsClosed(c, l)) \/ Caller(c)
      PROVE  HeldInv'
  <2>1. UNCHANGED <<now, written, clobbered, turnedBack>>
    BY <1>6, CallersKeep DEF CallerKeeps
  <2>2. Create(msg[c].level) \/ UNCHANGED <<dir, content>>
    BY <1>6 DEF LogMessage, StreamFindsClosed, Caller, StreamOpens, StreamStores, StreamPushes, diskVars
  <2>3. \A l \in Levels : SameFiles(l)
    BY <1>2, <2>2, SameDir, SameCreated, CreateIs
  <2>4. \A l \in Levels : straddled[l] => straddled'[l]
    <3>1. CASE StreamStores(c)
      <4> DEFINE l == msg[c].level
                 b == straddled[l] \/ (got[c] # Closed /\ Moves(got[c], l))
      <4>1. straddled' = [straddled EXCEPT ![l] = b] /\ (straddled[l] => b)
        BY <3>1 DEF StreamStores
      <4> HIDE DEF l, b
      <4> QED
        BY <1>1, <4>1
    <3>2. CASE ~StreamStores(c)
      <4>1. UNCHANGED straddled
        BY <1>6, <3>2 DEF LogMessage, StreamFindsClosed, Caller, StreamOpens, StreamPushes, history
      <4> QED
        BY <4>1
    <3> QED
      BY <3>1, <3>2
  <2>5. \A l \in Levels : ~Excepted(l)' => ~Excepted(l)
    BY <2>1, <2>4 DEF Excepted
  <2> QED
    BY <1>1, <1>4, <1>5, <2>1, <2>3, <2>5 DEF HeldInv, Good
<1>7. CASE WriteThread
  <2>1. DiskKeeps /\ DiskGoes
    BY <1>7, DiskStepKeeps, DiskStepGoes
  <2>2. UNCHANGED <<now, straddled, turnedBack>>
    BY <2>1 DEF DiskKeeps
  <2>3. CASE Pop \/ DiskOpens \/ WriteFails \/ Measure
    <3>1. UNCHANGED <<written, clobbered>>
      BY <2>3 DEF Pop, DiskOpens, WriteFails, Measure, history
    <3>2. Create(msg[Disk].level) \/ UNCHANGED <<dir, content>>
      BY <2>3 DEF Pop, DiskOpens, WriteFails, Measure, diskVars
    <3>3. \A l \in Levels : SameFiles(l)
      BY <1>2, <3>2, SameDir, SameCreated, CreateIs
    <3> QED
      BY <1>1, <1>4, <1>5, <2>2, <3>1, <3>3 DEF HeldInv, Excepted, Good
  <2>4. CASE WriteAll
    <3>0. PICK k \in Levels, f \in {logfd[msg[Disk].level]}, i \in {msg[Disk].id} :
            k = msg[Disk].level
      BY <1>2
    <3>1. /\ f # Closed /\ f = logfd[k] /\ i = msg[Disk].id /\ InHand
          /\ content' = [content EXCEPT ![f] = Append(@, i)]
          /\ written' = [written EXCEPT ![k] = Append(@, i)]
          /\ UNCHANGED <<dir, clobbered>>
      BY <2>4, <3>0 DEF WriteAll, LogAt, InHand
    <3>2. i \in Nat
      BY <3>1 DEF LogTypes
    <3>3. f \in 1 .. Len(content)
      <4>1. f \in 0 .. Len(content)
        BY <3>1 DEF LogTypes
      <4> QED
        BY <3>1, <4>1 DEF Closed
    <3>4. /\ content'[f] = Append(content[f], i)
          /\ \A j \in 1 .. Len(content) : j # f => content'[j] = content[j]
      <4>1. content \in Seq(Seq(1 .. MaxMessages))
        BY DEF LogTypes
      <4> QED
        BY <3>1, <3>3, <4>1
    <3>5. \A m \in Levels, t \in I : dir[m][t] # f => InFile(m, t)' = InFile(m, t)
      <4>1. \A m \in Levels, t \in I : dir[m][t] # Closed => dir[m][t] \in 1 .. Len(content)
        BY FilesAre DEF I
      <4> QED
        BY <3>1, <3>4, <4>1 DEF InFile
    <3>6. \A m \in Levels : Renamed(m)' = Renamed(m)
      BY <3>1 DEF Renamed
    <3>7. /\ \A m \in Levels : m # k => written'[m] = written[m]
          /\ written'[k] = Append(written[k], i)
      BY <3>1 DEF LogTypes
    <3>8. SUFFICES ASSUME NEW m \in Levels, ~Excepted(m)' PROVE Good(m)'
      BY DEF HeldInv, Good
    <3>9. ~Excepted(m)
      BY <2>2, <3>1, <3>8 DEF Excepted
    <3>10. CASE m # k
      <4>1. \A t \in I : dir[m][t] # f
        BY <3>1, <3>10 DEF ApartInv, StoredApart, I
      <4>2. SameFiles(m)
        BY <3>5, <3>6, <4>1 DEF SameFiles, I
      <4> QED
        BY <1>1, <1>4, <1>5, <2>2, <3>7, <3>9, <3>10, <4>2
    <3>11. CASE m = k
      <4>1. f = dir[k][0]
        BY <3>1, <3>9, <3>11 DEF DescriptorIsLive, Excepted
      <4>2. \A t \in 1 .. MaxTime : dir[k][t] # f
        BY <1>1, <3>1, <4>1 DEF ApartInv, NamesApart, I
      <4>3. InFile(k, 0) = content[f] /\ InFile(k, 0)' = Append(InFile(k, 0), i)
        BY <3>1, <3>4, <4>1 DEF InFile
      <4>4. \A t \in 1 .. MaxTime : InFile(k, t)' = InFile(k, t)
        BY <1>1, <3>5, <4>2
      <4>5. PICK F, G, W, R : /\ F = Files(k) /\ G = Files(k)' /\ W = written[k] /\ R = Renamed(k)
        OBVIOUS
      <4>6. /\ F[0] = InFile(k, 0) /\ G[0] = InFile(k, 0)'
            /\ \A t \in 1 .. MaxTime : F[t] = InFile(k, t) /\ G[t] = InFile(k, t)'
        <5>1. Files(k)' = [t \in I |-> InFile(k, t)']
          BY <1>3 DEF Files, I
        <5> QED
          BY <1>1, <1>3, <4>5, <5>1
      <4>7. G[0] = Append(F[0], i) /\ \A t \in 1 .. MaxTime : G[t] = F[t]
        BY <4>3, <4>4, <4>6
      <4>8. FilesAreSound(F, W, R, now)
        BY <3>9, <3>11, <4>5 DEF HeldInv
      <4>9. W \in Seq(Nat) /\ F[0] \in Seq(Nat)
        <5>1. W \in Seq(1 .. MaxMessages) /\ F[0] \in Seq(1 .. MaxMessages)
          <6>1. InFile(k, 0) \in Seq(1 .. MaxMessages)
            BY <1>1, FilesAre DEF I
          <6> QED
            BY <4>5, <4>6, <6>1 DEF LogTypes
        <5>2. 1 .. MaxMessages \subseteq Nat
          OBVIOUS
        <5> QED
          BY <5>1, <5>2, SeqMonotonic
      <4>10. \A j \in ToSet(W) : j < i
        BY <3>1, <4>5 DEF OrderInv
      <4>11. FilesAreSound(G, Append(W, i), R, now)
        BY <3>2, <4>7, <4>8, <4>9, <4>10, WrittenStaysSound
      <4>12. (written[m])' = Append(W, i) /\ Files(m)' = G /\ Renamed(m)' = R /\ now' = now
        BY <2>2, <3>6, <3>7, <3>11, <4>5
      <4> QED
        BY <4>11, <4>12 DEF Good, FilesAreSound, FilesRise, FilesHold, FilesAreFull, FilesSuffice,
                            OnFile, Earlier, Rising
    <3> QED
      BY <3>10, <3>11
  <2>5. CASE Rename /\ Moved(msg[Disk].level)
    <3>0. PICK k \in Levels : k = msg[Disk].level
      BY <1>2
    <3>1. /\ dir' = [dir EXCEPT ![k][now] = dir[k][0], ![k][0] = Closed]
          /\ clobbered' = [clobbered EXCEPT ![k] = @ \/ dir[k][now] # Closed]
          /\ UNCHANGED <<content, written>> /\ TooLong(k)
      BY <2>5, <3>0 DEF Rename, Moved, DueInv
    <3>2. \A m \in Levels, t \in I :
            dir'[m][t] = IF m = k /\ t = 0 THEN Closed
                         ELSE IF m = k /\ t = now THEN dir[k][0] ELSE dir[m][t]
      BY <1>1, <3>1
    <3>3. /\ \A m \in Levels : m # k => dir'[m] = dir[m] /\ (clobbered'[m] <=> clobbered[m])
          /\ clobbered'[k] <=> clobbered[k] \/ dir[k][now] # Closed
      BY <1>1, <3>1
    <3>4. SUFFICES ASSUME NEW m \in Levels, ~Excepted(m)' PROVE Good(m)'
      BY DEF HeldInv, Good
    <3>5. ~Excepted(m) /\ (m = k => dir[k][now] = Closed)
      BY <2>2, <3>3, <3>4 DEF Excepted
    <3>6. CASE m # k
      <4>1. SameFiles(m)
        BY <3>1, <3>3, <3>6, SameDir
      <4> QED
        BY <1>1, <1>4, <1>5, <2>2, <3>1, <3>5, <3>6, <4>1
    <3>7. CASE m = k
      <4>1. InFile(k, 0)' = <<>>
        BY <1>1, <3>2 DEF InFile
      <4>2. \A t \in 1 .. MaxTime : InFile(k, t)' = IF t = now THEN InFile(k, 0) ELSE InFile(k, t)
        <5>1. \A t \in 1 .. MaxTime : dir'[k][t] = IF t = now THEN dir[k][0] ELSE dir[k][t]
          BY <1>1, <3>2
        <5>2. content' = content
          BY <3>1
        <5> QED
          BY <5>1, <5>2 DEF InFile
      <4>3. dir[k][0] # Closed /\ Len(InFile(k, 0)) > CacheSize
        BY <3>1 DEF TooLong, InFile
      <4>4. Renamed(k)' = Renamed(k) \cup {now} /\ now \notin Renamed(k)
        <5>1. \A t \in 1 .. MaxTime : dir'[k][t] = IF t = now THEN dir[k][0] ELSE dir[k][t]
          BY <1>1, <3>2
        <5> QED
          BY <1>1, <3>5, <3>7, <4>3, <5>1 DEF Renamed
      <4>5. PICK F, G, W, R : /\ F = Files(k) /\ G = Files(k)' /\ W = written[k] /\ R = Renamed(k)
        OBVIOUS
      <4>6. /\ F[0] = InFile(k, 0) /\ G[0] = InFile(k, 0)'
            /\ \A t \in 1 .. MaxTime : F[t] = InFile(k, t) /\ G[t] = InFile(k, t)'
        <5>1. Files(k)' = [t \in I |-> InFile(k, t)']
          BY <1>3 DEF Files, I
        <5> QED
          BY <1>1, <1>3, <4>5, <5>1
      <4>7. G[now] = F[0] /\ G[0] = <<>> /\ \A t \in 1 .. MaxTime : t # now => G[t] = F[t]
        BY <1>1, <4>1, <4>2, <4>6
      <4>8. FilesAreSound(F, W, R, now)
        BY <3>5, <3>7, <4>5 DEF HeldInv
      <4>9. FilesAreSound(G, W, R \cup {now}, now)
        <5>1. IsFiniteSet(R) /\ now \notin R /\ Len(F[0]) > CacheSize
          BY <4>3, <4>4, <4>5, <4>6, RenamedIsFinite
        <5> QED
          BY <1>1, <4>7, <4>8, <5>1, RenamedStaysSound
      <4>10. (written[m])' = W /\ Files(m)' = G /\ Renamed(m)' = R \cup {now} /\ now' = now
        BY <2>2, <3>1, <3>7, <4>4, <4>5
      <4> QED
        BY <4>9, <4>10 DEF Good, FilesAreSound, FilesRise, FilesHold, FilesAreFull, FilesSuffice,
                           OnFile, Earlier, Rising
    <3> QED
      BY <3>6, <3>7
  <2>7. CASE Rename /\ NotMoved(msg[Disk].level)
    <3>1. UNCHANGED <<dir, content, written, clobbered>>
      BY <2>7 DEF Rename, NotMoved
    <3>2. \A l \in Levels : SameFiles(l)
      BY <3>1, SameDir
    <3> QED
      BY <1>1, <1>4, <1>5, <2>2, <3>1, <3>2 DEF HeldInv, Excepted, Good
  <2>6. CASE RemoveTimeoutLogFile
    <3>1. UNCHANGED <<content, written, clobbered>>
      BY <2>6 DEF RemoveTimeoutLogFile
    <3>2. UNCHANGED dir \/ dir' = [dir EXCEPT ![sweep] = Swept(sweep)]
      BY <2>6 DEF RemoveTimeoutLogFile
    <3>3. SUFFICES ASSUME NEW m \in Levels, ~Excepted(m)' PROVE Good(m)'
      BY DEF HeldInv, Good
    <3>4. ~Excepted(m)
      BY <2>2, <3>1, <3>3 DEF Excepted
    <3>5. CASE dir'[m] = dir[m]
      <4>1. SameFiles(m)
        BY <3>1, <3>5, SameDir
      <4> QED
        BY <1>1, <1>4, <1>5, <2>2, <3>1, <3>4, <4>1
    <3>6. CASE dir'[m] = Swept(m)
      <4>1. \A t \in I : dir'[m][t] = IF t \in Renamed(m) \ Kept(m) THEN Closed ELSE dir[m][t]
        BY <3>6 DEF Swept, I
      <4>2. \A t \in I : InFile(m, t)' = IF t \in Renamed(m) \ Kept(m) THEN <<>> ELSE InFile(m, t)
        BY <3>1, <4>1 DEF InFile
      <4>3. Renamed(m)' = Kept(m)
        <5>1. \A t \in 1 .. MaxTime :
                dir'[m][t] = IF t \in Renamed(m) \ Kept(m) THEN Closed ELSE dir[m][t]
          BY <1>1, <4>1
        <5>2. Kept(m) \subseteq Renamed(m)
          BY EnoughAreKept
        <5> QED
          BY <5>1, <5>2 DEF Renamed
      <4>4. PICK F, G, W, R, K : /\ F = Files(m) /\ G = Files(m)' /\ W = written[m]
                                 /\ R = Renamed(m) /\ K = Kept(m)
        OBVIOUS
      <4>5. \A t \in I : G[t] = IF t \in R \ K THEN <<>> ELSE F[t]
        <5>1. \A t \in I : F[t] = InFile(m, t)
          BY <1>3, <4>4
        <5>2. \A t \in I : G[t] = InFile(m, t)'
          BY <4>4 DEF Files, I
        <5> QED
          BY <4>2, <4>4, <5>1, <5>2
      <4>6. FilesAreSound(F, W, R, now)
        BY <3>4, <4>4 DEF HeldInv
      <4>7. /\ K \subseteq R /\ \A t \in R \ K : \A u \in K : t < u
            /\ K = R \/ Cardinality(K) >= CacheFileNum
        BY <4>4, EnoughAreKept
      <4>8. FilesAreSound(G, W, K, now)
        BY <4>5, <4>6, <4>7, SweptStaysSound DEF I
      <4>9. (written[m])' = W /\ Files(m)' = G /\ Renamed(m)' = K /\ now' = now
        BY <2>2, <3>1, <4>3, <4>4
      <4> QED
        BY <4>8, <4>9 DEF Good, FilesAreSound, FilesRise, FilesHold, FilesAreFull, FilesSuffice,
                          OnFile, Earlier, Rising
    <3>7. dir'[m] = dir[m] \/ dir'[m] = Swept(m)
      <4>1. CASE m = sweep
        BY <1>1, <3>2, <4>1
      <4>2. CASE m # sweep
        BY <1>1, <3>2, <4>2
      <4> QED
        BY <4>1, <4>2
    <3> QED
      BY <3>5, <3>6, <3>7
  <2> QED
    BY <1>7, <2>3, <2>4, <2>5, <2>6, <2>7 DEF WriteThread, Rename
<1>8. CASE Destroy
  <2>1. UNCHANGED <<dir, content, now, written, straddled, clobbered, turnedBack>>
    BY <1>8, DestroyStepGoes DEF DestroyGoes
  <2>2. \A l \in Levels : SameFiles(l)
    BY <2>1, SameDir
  <2> QED
    BY <1>1, <1>4, <1>5, <2>1, <2>2 DEF HeldInv, Excepted, Good
<1>9. CASE Restart
  <2>1. UNCHANGED <<dir, content, now, written, straddled, clobbered, turnedBack>>
    BY <1>9 DEF Restart, diskVars
  <2>2. \A l \in Levels : SameFiles(l)
    BY <2>1, SameDir
  <2> QED
    BY <1>1, <1>4, <1>5, <2>1, <2>2 DEF HeldInv, Excepted, Good
<1>10. CASE Tick \/ UNCHANGED logVars
  <2>1. UNCHANGED <<dir, content, written, straddled, clobbered, turnedBack>>
    BY <1>10 DEF Tick, timeless, logVars, diskVars, history
  <2>2. now' \in Nat /\ now <= now'
    <3>1. now' = now + 1 \/ now' = now
      BY <1>10 DEF Tick, logVars, diskVars
    <3> QED
      BY <1>1, <3>1
  <2>3. \A l \in Levels : SameFiles(l)
    BY <2>1, SameDir
  <2> QED
    BY <1>4, <2>1, <2>2, <2>3 DEF HeldInv, Excepted, Good
<1>11. CASE TurnBack
  BY <1>11 DEF TurnBack, HeldInv, Excepted
<1> QED
  BY <1>6, <1>7, <1>8, <1>9, <1>10, <1>11 DEF LogNext

KeptInv == OrderInv /\ DueInv /\ HeldInv

LEMMA KeptInit == LogInit => KeptInv
<1> SUFFICES ASSUME LogInit PROVE KeptInv
  OBVIOUS
<1> DEFINE I == 0 .. MaxTime
<1>1. /\ queue = <<>> /\ written = [l \in Levels |-> <<>>] /\ pc[Disk] = "pop"
      /\ dir = [l \in Levels |-> [t \in I |-> Closed]]
  BY DEF LogInit, Threads
<1>2. ToSet(<<>>) = {} /\ Rising(<<>>)
  BY DEF ToSet, Rising
<1>3. OrderInv
  BY <1>1, <1>2 DEF OrderInv, InHand
<1>4. DueInv
  BY <1>1 DEF DueInv, LogAt
<1>5. ASSUME NEW l \in Levels PROVE FilesAreSound(Files(l), written[l], Renamed(l), now)
  <2>1. 1 .. MaxTime \subseteq I
    OBVIOUS
  <2>2. \A t \in I : InFile(l, t) = <<>>
    BY <1>1 DEF InFile
  <2>3. Renamed(l) = {}
    BY <1>1, <2>1 DEF Renamed
  <2>4. written[l] = <<>>
    BY <1>1
  <2>5. PICK F : F = Files(l)
    OBVIOUS
  <2>6. \A t \in I : F[t] = <<>>
    BY <2>2, <2>5 DEF Files
  <2> HIDE DEF I
  <2>7. FilesRise(F) /\ FilesHold(F, <<>>)
    BY <1>2, <2>6 DEF FilesRise, FilesHold, OnFile, I
  <2>8. FilesAreFull(F, {}, now)
    BY <2>1, <2>6 DEF FilesAreFull
  <2>9. FilesSuffice(F, <<>>, {})
    BY <1>2 DEF FilesSuffice
  <2> QED
    BY <2>3, <2>4, <2>5, <2>7, <2>8, <2>9 DEF FilesAreSound
<1> QED
  BY <1>3, <1>4, <1>5 DEF KeptInv, HeldInv

LEMMA KeptInvHolds == LogSpec => []KeptInv
<1>1. LogInit => KeptInv
  BY KeptInit
<1>2. LogInv /\ KeptInv /\ [LogNext]_logVars => KeptInv'
  <2> SUFFICES ASSUME LogInv, KeptInv, [LogNext]_logVars PROVE KeptInv'
    OBVIOUS
  <2>1. /\ LogTypes /\ LabelInv /\ ApartInv /\ DescriptorIsLive
        /\ OrderInv /\ DueInv /\ HeldInv
    BY DEF LogInv, KeptInv
  <2>2. OrderInv' /\ DueInv' /\ HeldInv'
    BY <2>1, OrderStep, DueStep, HeldStep
  <2> QED
    BY <2>2 DEF KeptInv
<1> QED
  BY <1>1, <1>2, LogInvHolds, PTL DEF LogSpec

------------------------------------------------------------------------------
(* Rising sequences *)

LEMMA MemberIs ==
  ASSUME NEW s
  PROVE  /\ \A i \in DOMAIN s : s[i] \in ToSet(s)
         /\ \A x \in ToSet(s) : \E i \in DOMAIN s : s[i] = x
BY DEF ToSet

LEMMA RisingReflects ==
  ASSUME NEW s \in Seq(Nat), Rising(s), NEW a \in DOMAIN s, NEW b \in DOMAIN s
  PROVE  /\ a \in Nat /\ b \in Nat /\ s[a] \in Nat /\ s[b] \in Nat
         /\ s[a] < s[b] <=> a < b
<1>1. a \in Nat /\ b \in Nat /\ s[a] \in Nat /\ s[b] \in Nat
  OBVIOUS
<1>2. (a < b => s[a] < s[b]) /\ (b < a => s[b] < s[a])
  BY DEF Rising
<1>3. a = b => s[a] = s[b]
  OBVIOUS
<1> QED
  BY <1>1, <1>2, <1>3

LEMMA ConcatRises ==
  ASSUME NEW s \in Seq(Nat), NEW t \in Seq(Nat), Rising(s), Rising(t),
         \A i \in ToSet(s), j \in ToSet(t) : i < j
  PROVE  /\ s \o t \in Seq(Nat) /\ Rising(s \o t) /\ ToSet(s \o t) = ToSet(s) \cup ToSet(t)
         /\ Len(s \o t) = Len(s) + Len(t)
<1> DEFINE c == s \o t
           m == Len(s)
           n == Len(t)
<1>1. /\ c \in Seq(Nat) /\ Len(c) = m + n /\ m \in Nat /\ n \in Nat
      /\ DOMAIN s = 1 .. m /\ DOMAIN t = 1 .. n /\ DOMAIN c = 1 .. m + n
      /\ \A i \in 1 .. m + n : c[i] = IF i <= m THEN s[i] ELSE t[i - m]
  BY ConcatProperties
<1> HIDE DEF c, m, n
<1>2. \A i \in 1 .. m + n : i <= m => i \in 1 .. m /\ c[i] = s[i] /\ c[i] \in ToSet(s)
  <2>1. \A i \in 1 .. m + n : i <= m => i \in 1 .. m
    BY <1>1
  <2> QED
    BY <1>1, <2>1, MemberIs
<1>3. \A i \in 1 .. m + n : ~(i <= m) => i - m \in 1 .. n /\ c[i] = t[i - m] /\ c[i] \in ToSet(t)
  <2>1. \A i \in 1 .. m + n : ~(i <= m) => i - m \in 1 .. n
    BY <1>1
  <2> QED
    BY <1>1, <2>1 DEF ToSet
<1>4. ToSet(s) \cup ToSet(t) \subseteq ToSet(c)
  <2>1. \A i \in 1 .. m : i \in 1 .. m + n /\ c[i] = s[i]
    BY <1>1
  <2>2. \A i \in 1 .. n : i + m \in 1 .. m + n /\ c[i + m] = t[i]
    <3> SUFFICES ASSUME NEW i \in 1 .. n PROVE i + m \in 1 .. m + n /\ c[i + m] = t[i]
      OBVIOUS
    <3>1. i + m \in 1 .. m + n /\ ~(i + m <= m) /\ (i + m) - m = i
      BY <1>1
    <3> QED
      BY <1>1, <3>1
  <2>3. \A x \in ToSet(s) : x \in ToSet(c)
    <3> SUFFICES ASSUME NEW x \in ToSet(s) PROVE x \in ToSet(c)
      OBVIOUS
    <3>1. PICK i \in 1 .. m : s[i] = x
      BY <1>1, MemberIs
    <3> QED
      BY <1>1, <2>1, <3>1, MemberIs
  <2>4. \A x \in ToSet(t) : x \in ToSet(c)
    <3> SUFFICES ASSUME NEW x \in ToSet(t) PROVE x \in ToSet(c)
      OBVIOUS
    <3>1. PICK i \in 1 .. n : t[i] = x
      BY <1>1, MemberIs
    <3>2. i + m \in DOMAIN c /\ c[i + m] = x
      BY <1>1, <2>2, <3>1
    <3> QED
      BY <3>2, MemberIs
  <2> QED
    BY <2>3, <2>4
<1>5. ToSet(c) \subseteq ToSet(s) \cup ToSet(t)
  BY <1>1, <1>2, <1>3 DEF ToSet
<1>6. ASSUME NEW i \in DOMAIN c, NEW j \in DOMAIN c, i < j PROVE c[i] < c[j]
  <2>1. i \in 1 .. m + n /\ j \in 1 .. m + n /\ i \in Nat /\ j \in Nat
    BY <1>1
  <2>2. CASE j <= m
    <3>1. i <= m
      BY <1>1, <1>6, <2>1, <2>2
    <3> QED
      BY <1>1, <1>2, <1>6, <2>1, <2>2, <3>1 DEF Rising
  <2>3. CASE ~(j <= m) /\ i <= m
    BY <1>2, <1>3, <2>1, <2>3
  <2>4. CASE ~(j <= m) /\ ~(i <= m)
    <3>1. i - m < j - m
      BY <1>1, <1>6, <2>1
    <3> QED
      BY <1>1, <1>3, <2>1, <2>4, <3>1 DEF Rising
  <2> QED
    BY <2>2, <2>3, <2>4
<1> QED
  BY <1>1, <1>4, <1>5, <1>6 DEF c, Rising, m, n

(* A rising sequence that has, of another, all that is not less than its   *)
(* own is the end of the other.                                            *)
LEMMA RisingSuffix ==
  ASSUME NEW s \in Seq(Nat), NEW w \in Seq(Nat), Rising(s), Rising(w),
         ToSet(s) \subseteq ToSet(w),
         \A i \in ToSet(w) : i \in ToSet(s) \/ \A j \in ToSet(s) : i < j
  PROVE  Len(s) <= Len(w) /\ \A d \in 0 .. Len(s) - 1 : s[Len(s) - d] = w[Len(w) - d]
<1> DEFINE m == Len(s)
           n == Len(w)
<1>1. m \in Nat /\ n \in Nat /\ DOMAIN s = 1 .. m /\ DOMAIN w = 1 .. n
  OBVIOUS
<1>2. \A a \in 1 .. m : s[a] \in Nat /\ \E b \in 1 .. n : w[b] = s[a]
  <2> SUFFICES ASSUME NEW a \in 1 .. m PROVE s[a] \in Nat /\ \E b \in 1 .. n : w[b] = s[a]
    OBVIOUS
  <2>1. s[a] \in ToSet(w) /\ s[a] \in Nat
    BY <1>1, MemberIs
  <2>2. \A x \in ToSet(w) : \E b \in 1 .. n : w[b] = x
    BY <1>1, MemberIs
  <2> QED
    BY <2>1, <2>2
<1>3. \A b \in 1 .. n : /\ w[b] \in Nat
                        /\ (\E a \in 1 .. m : s[a] = w[b]) \/ \A a \in 1 .. m : w[b] < s[a]
  <2> SUFFICES ASSUME NEW b \in 1 .. n
               PROVE  /\ w[b] \in Nat
                      /\ (\E a \in 1 .. m : s[a] = w[b]) \/ \A a \in 1 .. m : w[b] < s[a]
    OBVIOUS
  <2>1. w[b] \in ToSet(w) /\ w[b] \in Nat
    BY <1>1, MemberIs
  <2>2. w[b] \in ToSet(s) => \E a \in 1 .. m : s[a] = w[b]
    BY <1>1, MemberIs
  <2>3. \A a \in 1 .. m : s[a] \in ToSet(s)
    BY <1>1, MemberIs
  <2> QED
    BY <2>1, <2>2, <2>3
<1>4. \A a, b \in 1 .. m : s[a] < s[b] <=> a < b
  BY <1>1, RisingReflects
<1>5. \A a, b \in 1 .. n : w[a] < w[b] <=> a < b
  BY <1>1, RisingReflects
<1> HIDE DEF m, n
<1> DEFINE P(d) == d < m => d < n /\ s[m - d] = w[n - d]
           S == {d \in Nat : P(d)}
<1>6. 0 \in S
  <2> SUFFICES ASSUME 0 < m PROVE 0 < n /\ s[m] = w[n]
    BY <1>1
  <2>1. m \in 1 .. m
    BY <1>1
  <2>2. PICK a \in 1 .. n : w[a] = s[m]
    BY <1>2, <2>1
  <2>3. n \in 1 .. n /\ a \in Nat /\ 0 < n
    BY <1>1, <2>2
  <2>4. ASSUME a # n PROVE FALSE
    <3>1. a < n
      BY <1>1, <2>3, <2>4
    <3>2. w[a] < w[n] /\ w[a] \in Nat /\ w[n] \in Nat
      BY <1>3, <1>5, <2>3, <3>1
    <3>3. ~(w[n] < s[m])
      BY <2>2, <3>2
    <3>4. PICK b \in 1 .. m : s[b] = w[n]
      BY <1>3, <2>1, <2>3, <3>3
    <3>5. m < b
      BY <1>4, <2>1, <2>2, <3>2, <3>4
    <3> QED
      BY <1>1, <3>5
  <2> QED
    BY <2>2, <2>3, <2>4
<1>7. ASSUME NEW d \in Nat, d \in S PROVE d + 1 \in S
  <2> SUFFICES ASSUME d + 1 < m PROVE d + 1 < n /\ s[m - (d + 1)] = w[n - (d + 1)]
    OBVIOUS
  <2> DEFINE p == m - (d + 1)
             q == n - (d + 1)
  <2>1. d < m /\ p \in 1 .. m /\ p + 1 \in 1 .. m /\ m - d = p + 1 /\ n - d = q + 1
    BY <1>1
  <2>2. d < n /\ s[p + 1] = w[q + 1]
    BY <1>7, <2>1
  <2>3. q + 1 \in 1 .. n /\ q \in Nat /\ p \in Nat
    BY <1>1, <2>1, <2>2
  <2>4. PICK a \in 1 .. n : w[a] = s[p]
    BY <1>2, <2>1
  <2> HIDE DEF p, q
  <2>5. s[p] < s[p + 1]
    <3>1. p < p + 1
      BY <2>3
    <3> QED
      BY <1>4, <2>1, <3>1
  <2>6. a < q + 1
    BY <1>5, <2>2, <2>3, <2>4, <2>5
  <2>7. q \in 1 .. n /\ a \in Nat /\ a <= q
    BY <1>1, <2>3, <2>6
  <2>8. ASSUME a # q PROVE FALSE
    <3>1. a < q /\ q < q + 1
      BY <2>7, <2>8
    <3>2. w[a] < w[q] /\ w[q] < w[q + 1] /\ w[a] \in Nat /\ w[q] \in Nat
      BY <1>3, <1>5, <2>3, <2>7, <3>1
    <3>3. ~(w[q] < s[p])
      BY <2>4, <3>2
    <3>4. PICK b \in 1 .. m : s[b] = w[q]
      BY <1>3, <2>1, <2>7, <3>3
    <3>5. p < b /\ b < p + 1
      BY <1>4, <2>1, <2>2, <2>4, <3>2, <3>4
    <3> QED
      BY <2>3, <3>5
  <2>9. d + 1 < n
    BY <1>1, <2>7 DEF q
  <2> QED
    BY <2>4, <2>8, <2>9 DEF p, q
<1>8. \A d \in Nat : d \in S
  <2> HIDE DEF S
  <2> QED
    BY <1>6, <1>7, SetInduction
<1>9. \A d \in Nat : d < m => d < n /\ s[m - d] = w[n - d]
  BY <1>8
<1>10. m <= n
  <2>1. CASE m = 0
    BY <1>1, <2>1
  <2>2. CASE m # 0
    <3>1. m - 1 \in Nat /\ m - 1 < m
      BY <1>1, <2>2
    <3>2. m - 1 < n
      BY <1>9, <3>1
    <3> QED
      BY <1>1, <3>1, <3>2
  <2> QED
    BY <2>1, <2>2
<1>11. \A d \in 0 .. m - 1 : d \in Nat /\ d < m
  BY <1>1
<1> QED
  BY <1>9, <1>10, <1>11 DEF m, n

------------------------------------------------------------------------------
(* What the directory holds *)

(* The renamed files are joined one after the other, and the live one last.*)
AreJoined(r, f) ==
  /\ r \in [0 .. MaxTime -> Seq(Nat)]
  /\ r[0] = <<>> /\ \A t \in 1 .. MaxTime : r[t] = r[t - 1] \o f[t]

LEMMA OnDiskIs ==
  ASSUME NEW l \in Levels, \A t \in 0 .. MaxTime : InFile(l, t) \in Seq(Nat)
  PROVE  \E r : AreJoined(r, Files(l)) /\ OnDisk(l) = r[MaxTime] \o InFile(l, 0)
<1> DEFINE I == 0 .. MaxTime
           V == Seq(Nat)
           Next(n) == IF n + 1 \in I THEN InFile(l, n + 1) ELSE <<>>
           step == [n \in Nat |-> [v \in V |-> v \o Next(n)]]
           Is(g) == g = [t \in I |-> IF t = 0 THEN <<>> ELSE g[t - 1] \o InFile(l, t)]
<1>1. MaxTime \in Nat /\ 0 \in I /\ MaxTime \in I
  BY Parameters
<1>2. \A n \in Nat : Next(n) \in V
  OBVIOUS
<1>3. step \in Successors(V)
  <2>1. \A n \in Nat, v \in V : v \o Next(n) \in V
    BY <1>2, ConcatProperties
  <2> HIDE DEF V, Next
  <2> QED
    BY <2>1 DEF Successors
<1>4. \A n \in Nat, v \in V : step[n][v] = v \o Next(n)
  OBVIOUS
<1>5. PICK f : IsRecursive(f, V, <<>>, step)
  <2>1. <<>> \in V
    OBVIOUS
  <2> HIDE DEF V, step
  <2> QED
    BY <1>3, <2>1, PrimitiveRecursion
<1>6. f \in [Nat -> V] /\ f[0] = <<>> /\ \A n \in Nat : f[n + 1] = f[n] \o Next(n)
  <2>1. f \in [Nat -> V] /\ f[0] = <<>> /\ \A n \in Nat : f[n + 1] = step[n][f[n]]
    BY <1>5 DEF IsRecursive
  <2> HIDE DEF step, Next, V
  <2> QED
    BY <1>4, <2>1
<1>7. \A t \in I : t # 0 => t - 1 \in Nat /\ t - 1 \in I /\ (t - 1) + 1 = t
  BY <1>1
<1>8. \A t \in I : f[t] = IF t = 0 THEN <<>> ELSE f[t - 1] \o InFile(l, t)
  <2> SUFFICES ASSUME NEW t \in I, t # 0 PROVE f[t] = f[t - 1] \o InFile(l, t)
    BY <1>6
  <2>1. Next(t - 1) = InFile(l, t)
    BY <1>7
  <2> HIDE DEF Next, V, I
  <2> QED
    BY <1>6, <1>7, <2>1
<1> DEFINE r == [t \in I |-> f[t]]
<1>9. Is(r)
  <2>1. \A t \in I : t # 0 => r[t - 1] = f[t - 1]
    BY <1>7
  <2> QED
    BY <1>8, <2>1
<1>10. \A g : Is(g) => g \in [I -> V] /\ g[0] = <<>> /\ \A t \in 1 .. MaxTime : g[t] = g[t - 1] \o InFile(l, t)
  <2> SUFFICES ASSUME NEW g, Is(g)
               PROVE  g \in [I -> V] /\ g[0] = <<>> /\ \A t \in 1 .. MaxTime : g[t] = g[t - 1] \o InFile(l, t)
    OBVIOUS
  <2>1. \A t \in I : g[t] = IF t = 0 THEN <<>> ELSE g[t - 1] \o InFile(l, t)
    OBVIOUS
  <2>2. DOMAIN g = I /\ g = [t \in I |-> g[t]]
    OBVIOUS
  <2> DEFINE S == {t \in Nat : t \in I => g[t] \in V}
  <2> HIDE DEF Is, r, Next, V
  <2>3. 0 \in S
    <3>1. <<>> \in V
      BY DEF V
    <3> QED
      BY <1>1, <2>1, <3>1
  <2>4. ASSUME NEW t \in Nat, t \in S PROVE t + 1 \in S
    <3> SUFFICES ASSUME t + 1 \in I PROVE g[t + 1] \in V
      OBVIOUS
    <3>1. t \in I /\ t + 1 # 0 /\ (t + 1) - 1 = t
      BY <1>1
    <3>2. g[t + 1] = g[t] \o InFile(l, t + 1) /\ g[t] \in V /\ InFile(l, t + 1) \in V
      BY <2>1, <2>4, <3>1 DEF V
    <3> QED
      BY <3>2, ConcatProperties DEF V
  <2>5. \A t \in Nat : t \in S
    <3> HIDE DEF S
    <3> QED
      BY <2>3, <2>4, SetInduction
  <2>6. \A t \in I : g[t] \in V
    BY <1>1, <2>5
  <2>7. \A t \in 1 .. MaxTime : t \in I /\ t # 0
    BY <1>1
  <2> QED
    BY <1>1, <2>1, <2>2, <2>6, <2>7
<1> DEFINE c == CHOOSE g : Is(g)
<1>11. Is(c)
  <2> HIDE DEF Is, r
  <2> QED
    BY <1>9
<1>12. OnDisk(l) = c[MaxTime] \o InFile(l, 0)
  BY DEF OnDisk
<1> HIDE DEF c, Is
<1>13. AreJoined(c, Files(l))
  <2>1. \A t \in 1 .. MaxTime : Files(l)[t] = InFile(l, t)
    BY DEF Files
  <2> QED
    BY <1>10, <1>11, <2>1 DEF AreJoined
<1> QED
  BY <1>12, <1>13

(* The joined files rise, they hold what any of them holds, and each is    *)
(* full.                                                                   *)
LEMMA JoinedRise ==
  ASSUME NEW f, NEW R, NEW n, NEW r, AreJoined(r, f), FilesRise(f), FilesAreFull(f, R, n),
         IsFiniteSet(R), \A t \in 0 .. MaxTime : f[t] \in Seq(Nat)
  PROVE  \A t \in 0 .. MaxTime :
           /\ Rising(r[t]) /\ \A i : i \in ToSet(r[t]) <=> \E u \in 1 .. t : i \in ToSet(f[u])
           /\ Len(r[t]) \in Nat
           /\ (CacheSize + 1) * Cardinality({u \in R : u <= t}) <= Len(r[t])
<1> DEFINE I == 0 .. MaxTime
           Upto(t) == {u \in R : u <= t}
           Sound(t) == /\ Rising(r[t])
                       /\ \A i : i \in ToSet(r[t]) <=> \E u \in 1 .. t : i \in ToSet(f[u])
                       /\ Len(r[t]) \in Nat
                       /\ (CacheSize + 1) * Cardinality(Upto(t)) <= Len(r[t])
           S == {t \in Nat : t \in I => Sound(t)}
<1>1. MaxTime \in Nat /\ CacheSize \in Nat /\ 0 \in I
  BY Parameters
<1>2. /\ \A t \in I : r[t] \in Seq(Nat) /\ f[t] \in Seq(Nat)
      /\ r[0] = <<>> /\ \A t \in 1 .. MaxTime : r[t] = r[t - 1] \o f[t]
  BY DEF AreJoined
<1>3. \A t \in I : Cardinality(Upto(t)) \in Nat /\ IsFiniteSet(Upto(t))
  <2>1. \A t \in I : Upto(t) \in SUBSET R
    OBVIOUS
  <2> QED
    BY <2>1, Smaller
<1>4. 0 \in S
  <2>1. Upto(0) = {}
    <3>1. \A u \in R : u \in 1 .. MaxTime
      BY DEF FilesAreFull
    <3>2. \A u \in 1 .. MaxTime : ~(u <= 0)
      OBVIOUS
    <3> QED
      BY <3>1, <3>2
  <2>2. Cardinality(Upto(0)) = 0
    BY <2>1, FS_EmptySet
  <2>3. Len(r[0]) = 0 /\ ToSet(r[0]) = {} /\ Rising(r[0])
    BY <1>2 DEF ToSet, Rising
  <2>4. (CacheSize + 1) * 0 <= 0
    BY <1>1
  <2>5. \A u \in 1 .. 0 : FALSE
    OBVIOUS
  <2> HIDE DEF Upto
  <2> QED
    BY <2>2, <2>3, <2>4, <2>5
<1>5. ASSUME NEW t \in Nat, t \in S PROVE t + 1 \in S
  <2> SUFFICES ASSUME t + 1 \in I PROVE Sound(t + 1)
    OBVIOUS
  <2>1. /\ t \in I /\ t + 1 \in 1 .. MaxTime /\ (t + 1) - 1 = t
        /\ \A u \in 1 .. t : u \in I /\ u # 0 /\ u < t + 1
        /\ \A u \in 1 .. t + 1 : u = t + 1 \/ u \in 1 .. t
        /\ \A u \in 1 .. t : u \in 1 .. t + 1
        /\ t + 1 \in 1 .. t + 1
    BY <1>1
  <2>2. Sound(t)
    BY <1>5, <2>1
  <2> HIDE DEF Upto
  <2>3. r[t + 1] = r[t] \o f[t + 1] /\ r[t] \in Seq(Nat) /\ f[t + 1] \in Seq(Nat)
    BY <1>2, <2>1
  <2>4. Rising(r[t]) /\ Rising(f[t + 1])
    BY <2>1, <2>2 DEF FilesRise
  <2>5. \A i \in ToSet(r[t]), j \in ToSet(f[t + 1]) : i < j
    <3> SUFFICES ASSUME NEW i \in ToSet(r[t]), NEW j \in ToSet(f[t + 1]) PROVE i < j
      OBVIOUS
    <3>1. PICK u \in 1 .. t : i \in ToSet(f[u])
      BY <2>2
    <3>2. u \in I /\ Earlier(u, t + 1)
      BY <2>1 DEF Earlier
    <3> QED
      BY <3>1, <3>2 DEF FilesRise
  <2>6. /\ Rising(r[t + 1]) /\ ToSet(r[t + 1]) = ToSet(r[t]) \cup ToSet(f[t + 1])
        /\ Len(r[t + 1]) = Len(r[t]) + Len(f[t + 1])
    BY <2>3, <2>4, <2>5, ConcatRises
  <2>7. \A i : i \in ToSet(r[t + 1]) <=> \E u \in 1 .. t + 1 : i \in ToSet(f[u])
    <3>1. ASSUME NEW i \in ToSet(r[t + 1]) PROVE \E u \in 1 .. t + 1 : i \in ToSet(f[u])
      BY <2>1, <2>2, <2>6, <3>1
    <3>2. ASSUME NEW i, NEW u \in 1 .. t + 1, i \in ToSet(f[u]) PROVE i \in ToSet(r[t + 1])
      BY <2>1, <2>2, <2>6, <3>2
    <3> QED
      BY <3>1, <3>2
  <2> DEFINE a == Cardinality(Upto(t))
             b == Cardinality(Upto(t + 1))
             p == Len(r[t])
             q == Len(f[t + 1])
  <2>8. p \in Nat /\ q \in Nat /\ Len(r[t + 1]) = p + q /\ a \in Nat /\ b \in Nat
    BY <1>3, <2>1, <2>2, <2>3, <2>6
  <2>9. (CacheSize + 1) * a <= p
    BY <2>2
  <2>10. CASE t + 1 \in R
    <3>1. Upto(t + 1) \subseteq Upto(t) \cup {t + 1}
      <4>1. \A u \in R : u \in Nat
        BY DEF FilesAreFull
      <4>2. \A u \in R : u <= t + 1 => u <= t \/ u = t + 1
        BY <4>1
      <4> QED
        BY <4>2 DEF Upto
    <3>2. b <= a + 1
      BY <1>3, <2>1, <3>1, GainsOne
    <3>3. q > CacheSize
      BY <2>10 DEF FilesAreFull
    <3> HIDE DEF a, b, p, q
    <3>4. (CacheSize + 1) * b <= (CacheSize + 1) * (a + 1)
      BY <1>1, <2>8, <3>2
    <3>5. (CacheSize + 1) * (a + 1) = (CacheSize + 1) * a + (CacheSize + 1)
      BY <1>1, <2>8
    <3>6. (CacheSize + 1) * a \in Nat /\ (CacheSize + 1) * b \in Nat
      BY <1>1, <2>8
    <3>7. (CacheSize + 1) * b <= p + q
      BY <1>1, <2>8, <2>9, <3>3, <3>4, <3>5, <3>6
    <3>8. Len(r[t + 1]) \in Nat /\ (CacheSize + 1) * b <= Len(r[t + 1])
      BY <2>8, <3>7
    <3> QED
      BY <2>6, <2>7, <3>8, Zenon DEF b
  <2>11. CASE t + 1 \notin R
    <3>1. Upto(t + 1) = Upto(t)
      <4>1. \A u \in R : u \in Nat /\ u # t + 1
        BY <2>11 DEF FilesAreFull
      <4>2. \A u \in R : u <= t + 1 <=> u <= t
        BY <4>1
      <4> QED
        BY <4>2 DEF Upto
    <3>2. b = a
      BY <3>1
    <3> HIDE DEF a, b, p, q
    <3>3. (CacheSize + 1) * a \in Nat
      BY <1>1, <2>8
    <3>4. (CacheSize + 1) * b <= p + q
      BY <1>1, <2>8, <2>9, <3>2, <3>3
    <3>5. Len(r[t + 1]) \in Nat /\ (CacheSize + 1) * b <= Len(r[t + 1])
      BY <2>8, <3>4
    <3> QED
      BY <2>6, <2>7, <3>5, Zenon DEF b
  <2> QED
    BY <2>10, <2>11
<1>6. \A t \in Nat : t \in S
  <2> HIDE DEF S
  <2> QED
    BY <1>4, <1>5, SetInduction
<1>7. \A t \in I : t \in Nat
  BY <1>1
<1> QED
  BY <1>6, <1>7

(* A rising sequence of what the files hold is the end of what was         *)
(* written, all of it when nothing is missing.                             *)
LEMMA SuffixIs ==
  ASSUME NEW s \in Seq(Nat), NEW w \in Seq(Nat), Len(s) <= Len(w),
         \A d \in 0 .. Len(s) - 1 : s[Len(s) - d] = w[Len(w) - d]
  PROVE  IsSuffix(s, w)
<1> DEFINE m == Len(s)
           n == Len(w)
           a == Reverse(s)
           b == Reverse(w)
<1>1. m \in Nat /\ n \in Nat /\ m <= n
  OBVIOUS
<1>2. /\ a = [i \in 1 .. m |-> s[(m - i) + 1]] /\ b = [i \in 1 .. n |-> w[(n - i) + 1]]
  BY DEF Reverse
<1> HIDE DEF m, n
<1>3. \A i \in 1 .. m : (m - i) + 1 \in 1 .. m /\ i - 1 \in 0 .. m - 1 /\ (m - i) + 1 = m - (i - 1)
  BY <1>1
<1>4. \A i \in 1 .. n : (n - i) + 1 \in 1 .. n /\ (n - i) + 1 = n - (i - 1)
  BY <1>1
<1>5. a \in Seq(Nat) /\ Len(a) = m
  <2>1. \A i \in 1 .. m : s[(m - i) + 1] \in Nat
    BY <1>3 DEF m
  <2> HIDE DEF a
  <2> QED
    BY <1>1, <1>2, <2>1
<1>6. b \in Seq(Nat) /\ Len(b) = n
  <2>1. \A i \in 1 .. n : w[(n - i) + 1] \in Nat
    BY <1>4 DEF n
  <2> HIDE DEF b
  <2> QED
    BY <1>1, <1>2, <2>1
<1>7. \A i \in 1 .. m : a[i] = b[i]
  <2> SUFFICES ASSUME NEW i \in 1 .. m PROVE a[i] = b[i]
    OBVIOUS
  <2>1. i \in 1 .. n
    BY <1>1
  <2>2. a[i] = s[m - (i - 1)] /\ b[i] = w[n - (i - 1)]
    BY <1>2, <1>3, <1>4, <2>1
  <2>3. s[m - (i - 1)] = w[n - (i - 1)]
    BY <1>3 DEF m, n
  <2> QED
    BY <2>2, <2>3
<1> HIDE DEF a, b
<1>8. SubSeq(a, 1, m) = SubSeq(b, 1, m)
  <2>1. \A i \in 1 .. m : a[i] \in Nat /\ b[i] \in Nat
    BY <1>1, <1>5, <1>6
  <2>2. /\ SubSeq(a, 1, m) \in Seq(Nat) /\ SubSeq(b, 1, m) \in Seq(Nat)
        /\ Len(SubSeq(a, 1, m)) = m /\ Len(SubSeq(b, 1, m)) = m
        /\ \A i \in 1 .. m : SubSeq(a, 1, m)[i] = a[i] /\ SubSeq(b, 1, m)[i] = b[i]
    BY <1>1, <1>5, <1>6, <2>1
  <2> QED
    BY <1>7, <2>2, SeqEqual
<1>9. IsPrefix(a, b)
  BY <1>1, <1>5, <1>6, <1>8 DEF IsPrefix
<1> QED
  BY <1>9 DEF IsSuffix, a, b

LEMMA SameRising ==
  ASSUME NEW s \in Seq(Nat), NEW w \in Seq(Nat), Rising(s), Rising(w), ToSet(s) = ToSet(w)
  PROVE  s = w
<1>1. /\ Len(s) <= Len(w) /\ \A d \in 0 .. Len(s) - 1 : s[Len(s) - d] = w[Len(w) - d]
  BY RisingSuffix
<1>2. Len(w) <= Len(s)
  BY RisingSuffix
<1>3. Len(s) = Len(w) /\ Len(s) \in Nat
  BY <1>1, <1>2
<1>4. \A i \in 1 .. Len(s) : Len(s) - i \in 0 .. Len(s) - 1 /\ Len(s) - (Len(s) - i) = i
  BY <1>3
<1>5. \A i \in 1 .. Len(s) : s[i] = w[i]
  BY <1>1, <1>3, <1>4
<1> QED
  BY <1>3, <1>5, SeqEqual

LEMMA SoundFilesKeepMessages ==
  ASSUME LogTypes, OrderInv, NEW l \in Levels,
         FilesAreSound(Files(l), written[l], Renamed(l), now)
  PROVE  /\ IsSuffix(OnDisk(l), written[l])
         /\ OnDisk(l) = written[l] \/ Len(OnDisk(l)) >= CacheFileNum * (CacheSize + 1)
<1> DEFINE I == 0 .. MaxTime
<1>1. PICK f, w, R, d : f = Files(l) /\ w = written[l] /\ R = Renamed(l) /\ d = OnDisk(l)
  OBVIOUS
<1>2. FilesRise(f) /\ FilesHold(f, w) /\ FilesAreFull(f, R, now) /\ FilesSuffice(f, w, R)
  BY <1>1 DEF FilesAreSound
<1>3. \A t \in I : f[t] = InFile(l, t) /\ f[t] \in Seq(Nat)
  <2>1. \A t \in I : f[t] = InFile(l, t)
    BY <1>1 DEF Files
  <2>2. \A t \in I : InFile(l, t) \in Seq(1 .. MaxMessages)
    BY FilesAre
  <2>3. 1 .. MaxMessages \subseteq Nat
    OBVIOUS
  <2> QED
    BY <2>1, <2>2, <2>3, SeqMonotonic
<1>4. w \in Seq(Nat) /\ Rising(w)
  <2>1. w \in Seq(1 .. MaxMessages) /\ 1 .. MaxMessages \subseteq Nat
    BY <1>1 DEF LogTypes
  <2> QED
    BY <1>1, <2>1, SeqMonotonic DEF OrderInv
<1>5. MaxTime \in I /\ MaxTime \in Nat /\ 0 \in I /\ \A t \in I : t = 0 \/ t \in 1 .. MaxTime
  BY Parameters
<1>6. PICK r : AreJoined(r, f) /\ d = r[MaxTime] \o f[0]
  BY <1>1, <1>3, <1>5, OnDiskIs
<1> DEFINE p == r[MaxTime]
           All == {u \in R : u <= MaxTime}
<1>7. /\ Rising(p) /\ Len(p) \in Nat
      /\ \A i : i \in ToSet(p) <=> \E u \in 1 .. MaxTime : i \in ToSet(f[u])
      /\ (CacheSize + 1) * Cardinality(All) <= Len(p)
  <2>1. IsFiniteSet(R) /\ \A t \in 0 .. MaxTime : f[t] \in Seq(Nat)
    BY <1>1, <1>3, RenamedIsFinite
  <2>2. \A t \in 0 .. MaxTime :
          /\ Rising(r[t]) /\ \A i : i \in ToSet(r[t]) <=> \E u \in 1 .. t : i \in ToSet(f[u])
          /\ Len(r[t]) \in Nat
          /\ (CacheSize + 1) * Cardinality({u \in R : u <= t}) <= Len(r[t])
    BY <1>2, <1>6, <2>1, JoinedRise
  <2> QED
    BY <1>5, <2>2, Zenon
<1>8. p \in Seq(Nat) /\ f[0] \in Seq(Nat) /\ Rising(f[0])
  BY <1>2, <1>3, <1>5, <1>6 DEF AreJoined, FilesRise
<1>9. All = R
  <2>1. \A u \in R : u \in 1 .. MaxTime
    BY <1>2 DEF FilesAreFull
  <2>2. \A u \in 1 .. MaxTime : u <= MaxTime
    OBVIOUS
  <2> QED
    BY <2>1, <2>2
<1> HIDE DEF I, p, All
<1>10. \A i \in ToSet(p), j \in ToSet(f[0]) : i < j
  <2> SUFFICES ASSUME NEW i \in ToSet(p), NEW j \in ToSet(f[0]) PROVE i < j
    OBVIOUS
  <2>1. PICK u \in 1 .. MaxTime : i \in ToSet(f[u])
    BY <1>7
  <2>2. u \in 0 .. MaxTime /\ Earlier(u, 0) /\ 0 \in 0 .. MaxTime
    BY <1>5 DEF Earlier
  <2> QED
    BY <1>2, <2>1, <2>2 DEF FilesRise
<1>11. /\ d \in Seq(Nat) /\ Rising(d) /\ ToSet(d) = ToSet(p) \cup ToSet(f[0])
       /\ Len(d) = Len(p) + Len(f[0])
  BY <1>6, <1>7, <1>8, <1>10, ConcatRises DEF p
<1>12. \A i : i \in ToSet(d) <=> OnFile(f, i)
  <2>1. ASSUME NEW i, i \in ToSet(d) PROVE OnFile(f, i)
    <3>1. i \in ToSet(f[0]) \/ \E u \in 1 .. MaxTime : i \in ToSet(f[u])
      BY <1>7, <1>11, <2>1
    <3>2. 0 \in 0 .. MaxTime /\ \A u \in 1 .. MaxTime : u \in 0 .. MaxTime
      BY <1>5
    <3> QED
      BY <3>1, <3>2 DEF OnFile
  <2>2. ASSUME NEW i, OnFile(f, i) PROVE i \in ToSet(d)
    <3>1. PICK t \in I : i \in ToSet(f[t])
      BY <2>2 DEF OnFile, I
    <3> QED
      BY <1>5, <1>7, <1>11, <3>1
  <2> QED
    BY <2>1, <2>2
<1>13. ToSet(d) \subseteq ToSet(w)
  BY <1>2, <1>12 DEF FilesHold
<1>14. \A i \in ToSet(w) : i \in ToSet(d) \/ \A j \in ToSet(d) : i < j
  BY <1>2, <1>12, <1>13 DEF FilesHold
<1>15. IsSuffix(d, w)
  BY <1>4, <1>11, <1>13, <1>14, RisingSuffix, SuffixIs
<1>16. CASE \A i \in ToSet(w) : OnFile(f, i)
  <2>1. ToSet(d) = ToSet(w)
    BY <1>12, <1>13, <1>16
  <2>2. d = w
    BY <1>4, <1>11, <2>1, SameRising
  <2> QED
    BY <1>1, <1>15, <2>2
<1>17. CASE Cardinality(R) >= CacheFileNum
  <2> DEFINE k == Cardinality(R)
             a == Len(p)
             b == Len(f[0])
  <2>1. k \in Nat /\ a \in Nat /\ b \in Nat /\ CacheFileNum \in Nat /\ CacheSize + 1 \in Nat
    BY <1>1, <1>7, <1>8, RenamedIsFinite, Parameters
  <2>2. k >= CacheFileNum /\ (CacheSize + 1) * k <= a /\ Len(d) = a + b
    BY <1>7, <1>9, <1>11, <1>17
  <2> HIDE DEF k, a, b
  <2>3. PICK c \in {CacheSize + 1} : c \in Nat
    BY <2>1
  <2>4. CacheFileNum * c <= c * k
    BY <2>1, <2>2, <2>3
  <2>5. CacheFileNum * c \in Nat /\ c * k \in Nat /\ c * k <= a
    BY <2>1, <2>2, <2>3
  <2>6. Len(d) >= CacheFileNum * c
    BY <2>1, <2>2, <2>4, <2>5
  <2> QED
    BY <1>1, <1>15, <2>3, <2>6
<1> QED
  BY <1>2, <1>16, <1>17 DEF FilesSuffice

(* Over renamings, sweeps, failing writes and processes that die, the      *)
(* files of a level hold the last messages written without a hole, and as  *)
(* many as m_CacheFileNum full files do when not all (135-176, 249-268).   *)
THEOREM RecentMessagesStay == LogSpec => []RecentMessagesAreKept
<1>1. LogInv /\ KeptInv => RecentMessagesAreKept
  <2> SUFFICES ASSUME LogInv, KeptInv, NEW l \in Levels, ~Excepted(l)
               PROVE  /\ IsSuffix(OnDisk(l), written[l])
                      /\ \/ OnDisk(l) = written[l]
                         \/ Len(OnDisk(l)) >= CacheFileNum * (CacheSize + 1)
    BY DEF RecentMessagesAreKept, Excepted
  <2>1. LogTypes /\ OrderInv /\ FilesAreSound(Files(l), written[l], Renamed(l), now)
    BY DEF LogInv, KeptInv, HeldInv
  <2> QED
    BY <2>1, SoundFilesKeepMessages
<1> QED
  BY <1>1, LogInvHolds, KeptInvHolds, PTL

=============================================================================
