(* One field in a short buffer is enough.                                  *)
CONSTANTS
  BufferLen = 15
  MaxBinary = 1
SPECIFICATION PacketSpec
CHECK_DEADLOCK FALSE
INVARIANT EveryFieldReadsBack
