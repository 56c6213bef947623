SPECIFICATION Spec
CONSTANTS
  Conns = {c1, c2, c3}
  Queues = {q1, q2}
  Mids = {m1}
  Nobody = Nobody
  NoQueue = NoQueue
  NoMid = NoMid
  ShortIds = {}
  SendCap = 1
  Vocabulary <- RolesVocabulary
  Faulty = {}
  MaxIssued = 1
  MaxArrivals = 0
INVARIANT NoDanglingRoles
