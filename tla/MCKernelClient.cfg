(* Comment at RPCClient.cpp 54: a reader thread will process a queued event. *)
CONSTANTS
  r1 = r1
  r2 = r2
  p1 = p1
  p2 = p2
  Epoll = Epoll
  Main = Main
  Listener = Listener
  Pipe = Pipe
  NoData = NoData
  Readers = {r1, r2}
  Peers = {p1}
  MaxChunks = 1
SPECIFICATION Spec
CHECK_DEADLOCK FALSE
INVARIANT ClientLosesNoEvent
