SPECIFICATION FairTransportSpec
CONSTANTS
  Clients = {c1, c2}
  Conns = {k1, k2}
  Types = {"udp"}
  NoConn = NoConn
  Expire = 1
INVARIANT TransportInv
PROPERTIES
  ImplementsPool
  ClientsServed
  ExpiredEvicted
  StopDrains
