(* The read buffer: careful and careless peers, every split of the stream  *)
(* into reads, payload with flags in it.                                   *)
CONSTANTS
  HEADER_LEN = 2
  TRAILER_LEN = 1
  MaxPacketLen = 5
  BUFF_LEN = 10
  Messages <- AllMessages
  MaxSent = 3
(* Three pools of three objects: growth, release in every order, shrinking.*)
CONSTANTS
  CHUNK = 3
  PoolSize = 3
  Null = Null
SPECIFICATION BuffersSpec
CHECK_DEADLOCK FALSE
INVARIANTS
  BufferTypeOK InOrder AccessInside NothingLost NeverFull NoneWithheld
  PoolTypeOK ListsAreSound ReleaseFindsIt
PROPERTY ImplementsStore
