(* The log: one thread logs, a file is renamed with its second message,    *)
(* one renamed file is kept, descriptors may run out, the process may die. *)
CONSTANTS
  Callers = {c1}
  Disk = disk
  Main = main
  NumLevels = 1
  CacheSize = 1
  CacheFileNum = 1
  FdLimit = 2
  MaxMessages = 4
  MaxTime = 3
  MaxRestarts = 1
(* The buffered file: two bytes of buffer, up to four written.             *)
CONSTANTS
  FileNames = {"f", "g"}
  FirstName = "f"
  BufferSize = 2
  MaxBytes = 4
  MaxFlushes = 2
  MaxFailures = 2
(* The ring: the threshold is no multiple of the length, as in the code.   *)
CONSTANTS
  ArrayLen = 5
  UIntSize = 32
  Threshold = 23
(* The timer: timeouts over two turns of the wheel.                        *)
CONSTANTS
  SlotNum = 3
  MaxTimeout = 7
  MaxTimers = 3
(* Packets: room for up to seven bytes of data.                            *)
CONSTANTS
  BufferLen = 15
  MaxBinary = 3
(* Strings of blanks, two letters and the comma; words of five characters  *)
(* and fields of four do not fit.                                          *)
CONSTANTS
  Characters = {32, 44, 97, 98}
  Separator = 44
  FieldLen = 5
  MaxText = 6
  Bytes = {0, 9, 10, 15, 16, 171, 255}
  MaxBytesShown = 2
(* Two threads, ports of one, two and four digits.                         *)
CONSTANTS
  Formatters = {f1, f2}
  Ports = {7, 80, 9120}
  BuffLen = 6
  MaxCalls = 3
SPECIFICATION UtilitiesSpec
CHECK_DEADLOCK FALSE
INVARIANTS LogTypeOK RecentMessagesAreKept FilesStayShort
  RenamedFilesBounded ShutdownWritesAll
  FileHasWhatWasWritten NoByteLost
  RingIsFifo FiresInItsSlot FieldsReadBack SplitsAreRight NumbersReadBack AddressIsRight
PROPERTIES EveryMessageIsHandled CallsReturn
