(* Connections come and go, and no address or number is used again too early. *)
CONSTANTS
  w1 = w1
  w2 = w2
  app = app
  r1 = r1
  r2 = r2
  epoll = epoll
  a1 = a1
  a2 = a2
  f1 = f1
  f2 = f2
  Null = Null
  Writers = {w1, w2}
  Apps = {app}
  Readers = {r1}
  Disconnectors = {r2}
  Epoll = epoll
  NumPeers = 2
  Addrs = {a1, a2}
  FDs = {f1, f2}
  MaxPackets = 2
  PackLen = 1
  MayFail = TRUE
SPECIFICATION CarefulSpec
SYMMETRY Symmetry
CHECK_DEADLOCK FALSE
INVARIANTS OneSender MarkMeansSender WireInOrder
