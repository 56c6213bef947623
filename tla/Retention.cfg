SPECIFICATION FairSpec
CONSTANTS
  Queues = {q1, q2}
  Mids = {m1, m2}
  NoQueue = NoQueue
  NoMid = NoMid
  Faulty = {"save", "sweep"}
  MaxArrivals = 2
INVARIANTS ReferentialIntegrity 
PROPERTIES  ExpiredQueuesGo
