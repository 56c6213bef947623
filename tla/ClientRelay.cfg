SPECIFICATION Spec
CONSTANTS
  Procs = {a}
  Relays <- TheRelays
  Hosts <- TheHosts
  HostOf <- OneHostEach
  Queues = {q1, q2, bad, mine1, mine2}
  Peers <- ThePeers
  Links <- TheLinks
  Standing <- TheStanding
  NoQueue = NoQueue
  NoLink = NoLink
  NoRelay = NoRelay
  r1 = r1
  r2 = r2
  h1 = h1
  h2 = h2
  q1 = q1
  q2 = q2
  p1 = p1
  p2 = p2
  bad = bad
INVARIANT PeersRelayIsUsed
