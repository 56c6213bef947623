CONSTANTS
  alice = alice  bob = bob
  a1 = a1  b1 = b1  b2 = b2
  qa = qa  qb = qb
  m1 = m1  m2 = m2  m3 = m3
  Users = {alice, bob}
  Conns = {a1, b1}
  Queues = {qa, qb}
  Mids = {m1, m3}
  Nobody = Nobody
  NoQueue = NoQueue
  NoMid = NoMid
  ShortIds = {}
  Faulty = {"write"}
  SendCap = 3
  ClientCap = 1
  NetCap = 1
  MaxIssued = 0
  MaxArrivals = 2
  Breakable = {}
  User <- MCUser
  Peer <- MCPeer
  Outbox <- MCOutbox
  Author <- BothWays
  Vocabulary <- MCVocabulary

SPECIFICATION FairChat
PROPERTIES ShownAtLast ReceiptsArrive LossNoticed
