(* Plain messages, some of them cut short: is only delivered what was sent so? *)
CONSTANTS
  HEADER_LEN = 2
  TRAILER_LEN = 1
  MaxPacketLen = 5
  BUFF_LEN = 10
  Messages <- PlainMessages
  MaxSent = 3
SPECIFICATION BufferSpec
CHECK_DEADLOCK FALSE
INVARIANTS OnlyWholePackets
