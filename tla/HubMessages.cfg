SPECIFICATION Spec
CONSTANTS
  Conns = {c1, c2}
  Queues = {q1}
  Mids = {m1, m2}
  Nobody = Nobody
  NoQueue = NoQueue
  NoMid = NoMid
  ShortIds = {}
  SendCap = 1
  Vocabulary <- MessagesVocabulary
  Faulty = {"create", "exists", "save", "touch", "delete"}
  MaxIssued = 1
  MaxArrivals = 2
SYMMETRY Symmetry
INVARIANTS TypeOK AckedIsDurable NothingStranded NeverClosesTwice GrantedIsSubscriber CacheIsBacked
PROPERTIES OnlySubscriberReceives
