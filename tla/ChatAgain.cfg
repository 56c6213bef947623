CONSTANTS
  alice = alice  bob = bob
  a1 = a1  b1 = b1  b2 = b2
  qa = qa  qb = qb
  m1 = m1  m2 = m2  m3 = m3
  Users = {alice, bob}
  Conns = {a1, b1, b2}
  Queues = {qa, qb}
  Mids = {m1}
  Nobody = Nobody
  NoQueue = NoQueue
  NoMid = NoMid
  ShortIds = {}
  Faulty = {"write"}
  SendCap = 2
  ClientCap = 1
  NetCap = 1
  MaxIssued = 0
  MaxArrivals = 1
  Breakable = {}
  User <- MCUser
  Peer <- MCPeer
  Outbox <- MCOutbox
  Author <- OneWay
  Vocabulary <- MCVocabulary

SPECIFICATION ChatSpec
INVARIANT NothingMissed
PROPERTY IsMailbox
SYMMETRY Symmetry
