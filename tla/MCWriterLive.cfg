(* One peer, and write() may fail: every packet is taken, and the wire stays in order. *)
CONSTANTS
  w1 = w1
  w2 = w2
  app = app
  r1 = r1
  r2 = r2
  epoll = epoll
  a1 = a1
  a2 = a2
  f1 = f1
  f2 = f2
  Null = Null
  Writers = {w1, w2}
  Apps = {app}
  Readers = {}
  Disconnectors = {}
  Epoll = epoll
  NumPeers = 1
  Addrs = {a1}
  FDs = {f1}
  MaxPackets = 2
  PackLen = 2
  MayFail = TRUE
SPECIFICATION FairSpec
CHECK_DEADLOCK FALSE
INVARIANT WireInOrder
PROPERTIES EveryPacketIsTaken
