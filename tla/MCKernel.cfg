(* Server and client, two readers, one peer that connects, sends, closes or resets. *)
CONSTANTS
  r1 = r1
  r2 = r2
  p1 = p1
  p2 = p2
  Epoll = Epoll
  Main = Main
  Listener = Listener
  Pipe = Pipe
  NoData = NoData
  Readers = {r1, r2}
  Peers = {p1}
  MaxChunks = 2
SPECIFICATION FairSpec
CHECK_DEADLOCK FALSE
INVARIANTS TypeOK NoEventLost NoLostWakeup WorksOnLiveConnection
PROPERTIES EveryChunkIsRead ReadersAreJoined
