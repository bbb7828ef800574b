SPECIFICATION TransportSpec
CONSTANTS
  Clients = {c1, c2}
  Conns = {k1, k2, k3}
  Types = {"udp", "tcp"}
  NoConn = NoConn
  Expire = 2
SYMMETRY Symmetry
INVARIANTS
  SinglePlace
  LentUsable
  ReplyPaired
PROPERTIES
  CleanupExact
  OnlyExpiredEvicted
