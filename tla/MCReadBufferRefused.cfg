(* Payload with flags behind packets cut short: is bad data refused? *)
CONSTANTS
  HEADER_LEN = 2
  TRAILER_LEN = 1
  MaxPacketLen = 5
  BUFF_LEN = 10
  Messages <- FlaggedMessages
  MaxSent = 3
SPECIFICATION BufferSpec
CHECK_DEADLOCK FALSE
INVARIANTS BadDataIsRefused
