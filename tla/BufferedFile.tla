---------------------------- MODULE BufferedFile ----------------------------
(* BufferedFile: bytes collect in a buffer; a full buffer, Flush and Close *)
(* write it to the file of the current name.  write() may take a part, and *)
(* it may fail in the middle.  One thread uses the object.                 *)
(*                                                                         *)
(* A byte is its number in the order in which Write copied it, so a byte   *)
(* that is written twice is seen.  buffer is the first buffer_cursor_      *)
(* bytes of file_buffer_.  The destructor, which closes the file and drops *)
(* what a failed flush has left in the buffer, is left out.                *)
EXTENDS Naturals, Sequences, FiniteSets, SequencesExt

CONSTANTS
  FileNames,      \* names of files
  FirstName,      \* the constructor's argument
  BufferSize,     \* buffer_size_
  MaxBytes, MaxFlushes, MaxFailures   \* bounds

NotOpen == "not open"   \* fd_ = -1

ASSUME FileAssumption ==
  /\ FirstName \in FileNames /\ NotOpen \notin FileNames
  /\ BufferSize \in Nat \ {0} /\ MaxBytes \in Nat /\ MaxFlushes \in Nat
  /\ MaxFailures \in Nat

VARIABLES
  fd,           \* fd_: the name under which the open file was opened
  file_name,    \* file_name_
  buffer,       \* file_buffer_ up to buffer_cursor_
  disk,         \* the files
  call,         \* the call in progress, "none" between calls
  flushing,     \* Flush is in its loop
  total,        \* Flush's total: bytes of the buffer that are written
  need_process, \* Write: bytes still to copy
  next_name,    \* SetFilename's argument
  flushes,      \* number of calls of Flush
  taken,        \* history: how many bytes Write has copied
  copied,       \* history: per name, the bytes Write copied while it was open
  failures      \* history: how many write() calls have failed

fileVars == <<fd, file_name, buffer, disk, call, flushing, total,
              need_process, next_name, flushes, taken, copied, failures>>

FileInit ==
  /\ fd = NotOpen
  /\ file_name = FirstName
  /\ buffer = <<>>
  /\ disk = [n \in FileNames |-> <<>>]
  /\ call = "none"
  /\ flushing = FALSE
  /\ total = 0
  /\ need_process = 0
  /\ next_name = FirstName
  /\ flushes = 0
  /\ taken = 0
  /\ copied = [n \in FileNames |-> <<>>]
  /\ failures = 0

------------------------------------------------------------------------------
(* Calls *)

(* Open appends to what the file holds.  Opening again loses a descriptor  *)
(* but nothing else; as callers do, the model opens what is closed.        *)
Open ==
  /\ call = "none"
  /\ fd = NotOpen
  /\ fd' = file_name
  /\ UNCHANGED <<file_name, buffer, disk, call, flushing, total,
                 need_process, next_name, flushes, taken, copied, failures>>

Write(len) ==
  /\ call = "none"
  /\ fd # NotOpen
  /\ taken + len <= MaxBytes
  /\ call' = "Write"
  /\ need_process' = len
  /\ UNCHANGED <<fd, file_name, buffer, disk, flushing, total,
                 next_name, flushes, taken, copied, failures>>

(* Flush, Close and SetFilename begin with a flush, which is refused when  *)
(* no file is open.                                                        *)
CallFlush(c) ==
  /\ call = "none"
  /\ fd # NotOpen
  /\ flushes < MaxFlushes
  /\ flushes' = flushes + 1
  /\ call' = c
  /\ flushing' = TRUE
  /\ total' = 0
  /\ UNCHANGED <<fd, file_name, buffer, disk, need_process, taken, copied, failures>>

Flush == CallFlush("Flush") /\ UNCHANGED next_name
Close == CallFlush("Close") /\ UNCHANGED next_name
SetFilename(n) == CallFlush("SetFilename") /\ next_name' = n

SetFilenameOfClosed(n) ==
  /\ call = "none"
  /\ fd = NotOpen
  /\ n # file_name
  /\ file_name' = n
  /\ UNCHANGED <<fd, buffer, disk, call, flushing, total,
                 need_process, next_name, flushes, taken, copied, failures>>

------------------------------------------------------------------------------
(* Write's loop *)

(* As much as the buffer takes; nothing when a flush has failed on a full  *)
(* buffer.  A full buffer is flushed.                                      *)
CopyToBuffer ==
  LET remain == BufferSize - Len(buffer)
      bytes_copy == IF remain >= need_process THEN need_process ELSE remain
      bytes == [i \in 1 .. bytes_copy |-> taken + i]
  IN  /\ call = "Write" /\ ~flushing
      /\ need_process > 0
      /\ buffer' = buffer \o bytes
      /\ taken' = taken + bytes_copy
      /\ copied' = [copied EXCEPT ![fd] = @ \o bytes]
      /\ need_process' = need_process - bytes_copy
      /\ flushing' = (Len(buffer') = BufferSize)
      /\ total' = 0
      /\ UNCHANGED <<fd, file_name, disk, call, next_name, flushes, failures>>

WriteReturns ==
  /\ call = "Write" /\ ~flushing
  /\ need_process = 0
  /\ call' = "none"
  /\ UNCHANGED <<fd, file_name, buffer, disk, flushing, total,
                 need_process, next_name, flushes, taken, copied, failures>>

------------------------------------------------------------------------------
(* Flush's loop *)

(* write() takes n bytes, none only if none are left.                      *)
BytesLeft == Len(buffer) - total
Takes == IF BytesLeft = 0 THEN {0} ELSE 1 .. BytesLeft

MutantWriteSome ==   \* writes from the start of the buffer again
  /\ flushing
  /\ \E n \in Takes :
       /\ disk' = [disk EXCEPT ![fd] = @ \o SubSeq(buffer, 1, n)]
       /\ IF total + n >= Len(buffer)
          THEN buffer' = <<>> /\ total' = 0 /\ flushing' = FALSE
          ELSE total' = total + n /\ UNCHANGED <<buffer, flushing>>
  /\ UNCHANGED <<fd, file_name, call, need_process, next_name, flushes, taken, copied, failures>>

MutantNoReturn ==   \* compares with > for >=
  /\ flushing
  /\ \E n \in Takes :
       /\ disk' = [disk EXCEPT ![fd] = @ \o SubSeq(buffer, total + 1, total + n)]
       /\ IF total + n > Len(buffer)
          THEN buffer' = <<>> /\ total' = 0 /\ flushing' = FALSE
          ELSE total' = total + n /\ UNCHANGED <<buffer, flushing>>
  /\ UNCHANGED <<fd, file_name, call, need_process, next_name, flushes, taken, copied, failures>>

WriteSome ==
  /\ flushing
  /\ \E n \in Takes :
       /\ disk' = [disk EXCEPT ![fd] = @ \o SubSeq(buffer, total + 1, total + n)]
       /\ IF total + n >= Len(buffer)
          THEN buffer' = <<>> /\ total' = 0 /\ flushing' = FALSE
          ELSE total' = total + n /\ UNCHANGED <<buffer, flushing>>
  /\ UNCHANGED <<fd, file_name, call, need_process, next_name, flushes, taken, copied, failures>>

MutantWriteError ==  \* throws away what could not be written
  /\ flushing
  /\ BytesLeft > 0
  /\ flushing' = FALSE
  /\ total' = 0
  /\ failures < MaxFailures
  /\ failures' = failures + 1
  /\ need_process' = 0
  /\ call' = IF call = "Write" THEN "none" ELSE call
  /\ buffer' = <<>>
  /\ UNCHANGED <<fd, file_name, disk, next_name, flushes, taken, copied>>

(* Flush returns 0 with the cursor where it was; Write then returns 0, and *)
(* Close goes on.                                                          *)
WriteError ==
  /\ flushing
  /\ BytesLeft > 0
  /\ flushing' = FALSE
  /\ total' = 0
  /\ failures < MaxFailures
  /\ failures' = failures + 1
  /\ need_process' = 0
  /\ call' = IF call = "Write" THEN "none" ELSE call
  /\ UNCHANGED <<fd, file_name, buffer, disk, next_name, flushes, taken, copied>>

FlushReturns ==
  /\ call = "Flush" /\ ~flushing
  /\ call' = "none"
  /\ UNCHANGED <<fd, file_name, buffer, disk, flushing, total,
                 need_process, next_name, flushes, taken, copied, failures>>

(* Close closes whatever Flush has returned; SetFilename then renames.     *)
Closes ==
  /\ call \in {"Close", "SetFilename"} /\ ~flushing
  /\ fd' = NotOpen
  /\ file_name' = IF call = "SetFilename" THEN next_name ELSE file_name
  /\ call' = "none"
  /\ UNCHANGED <<buffer, disk, flushing, total, need_process,
                 next_name, flushes, taken, copied, failures>>

------------------------------------------------------------------------------

InCall == CopyToBuffer \/ WriteReturns \/ WriteSome \/ WriteError \/ FlushReturns \/ Closes

FileNext ==
  \/ Open
  \/ \E len \in 1 .. MaxBytes : Write(len)
  \/ Flush \/ Close
  \/ \E n \in FileNames : SetFilename(n) \/ SetFilenameOfClosed(n)
  \/ InCall

FileSpec == FileInit /\ [][FileNext]_fileVars /\ WF_fileVars(InCall)

------------------------------------------------------------------------------
(* Lengths *)

GetDiskFileLen == Len(disk[file_name])
GetFileLen == GetDiskFileLen + Len(buffer)

------------------------------------------------------------------------------
(* Properties *)

(* As long as no write() has failed, the file of each name holds, in order *)
(* and once, what Write was given while that name was set, but for what is *)
(* still in the buffer; so a file that is left by SetFilename is complete, *)
(* and GetFileLen, asked between calls, is the number of bytes written     *)
(* (the comments on SetFilename and GetFileLen).                           *)
FileHasWhatWasWritten ==
  failures = 0 =>
    /\ \A n \in FileNames :
         disk[n] \o (IF n = fd THEN SubSeq(buffer, total + 1, Len(buffer)) ELSE <<>>)
           = copied[n]
    /\ call = "none" => GetFileLen = Len(copied[file_name])

(* Also after failures, in whatever order files are closed, renamed and    *)
(* opened: a byte Write has taken is in the buffer, which never overflows, *)
(* or in a file, and in each file the bytes, repetitions left aside, are   *)
(* in order.                                                               *)
FirstAt(s, i) == \A j \in 1 .. i - 1 : s[j] # s[i]

NoByteLost ==
  /\ Len(buffer) <= BufferSize
  /\ \A b \in 1 .. taken :
       \/ Contains(buffer, b)
       \/ \E n \in FileNames : Contains(disk[n], b)
  /\ \A n \in FileNames : \A i, j \in DOMAIN disk[n] :
       (i < j /\ FirstAt(disk[n], i) /\ FirstAt(disk[n], j)) => disk[n][i] < disk[n][j]

(* Every call returns, also a Write that finds the buffer full because the *)
(* flush before has failed: its loop copies nothing, but flushes again.    *)
CallsReturn == (call # "none") ~> (call = "none")
=============================================================================
