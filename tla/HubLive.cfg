SPECIFICATION FairSpec
CONSTANTS
  Conns = {c1, c2}
  Queues = {q1}
  Mids = {m1}
  Nobody = Nobody
  NoQueue = NoQueue
  NoMid = NoMid
  ShortIds = {}
  SendCap = 1
  Vocabulary <- LiveVocabulary
  Faulty = {"write"}
  MaxIssued = 1
  MaxArrivals = 1
PROPERTIES HubNeverBlocks DroppedConnectionsEnd
