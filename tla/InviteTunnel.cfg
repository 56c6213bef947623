CONSTANTS
  alice = alice  bob = bob
  a1 = a1  a2 = a2  b1 = b1
  Users = {alice, bob}
  Procs = {a1, a2, b1}
  Owner <- MCOwner
  Keys = {k1, k2, k3}
  Hosts = {h1}
  Queues = {qa, qb}
  Ports <- MCPorts
  MaxPort = 65535
  NoKey = NoKey
  NoLink = NoLink
  MaxPrinted = 3

SPECIFICATION IntroSpec
INVARIANT PrintedLinksAreAccepted
