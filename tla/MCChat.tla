-------------------------------- MODULE MCChat --------------------------------
(* The instances of Chat that TLC checks: Alice and Bob.                     *)
EXTENDS Chat, TLC

CONSTANTS alice, bob, a1, b1, b2, qa, qb, m1, m2, m3

\* Alice runs the client once, Bob may come back with a second run.
MCUser == [c \in Conns |-> IF c = a1 THEN alice ELSE bob]
MCPeer == (alice :> bob) @@ (bob :> alice)
MCOutbox == (alice :> qa) @@ (bob :> qb)

\* All messages are Alice's; or one is Bob's.
OneWay  == [m \in Mids |-> alice]
BothWays == [m \in Mids |-> IF m = m3 THEN bob ELSE alice]

\* What the two clients send.
MCVocabulary ==
  {SubCommand(c) : c \in Conns}
    \cup {SendCommand(c, m) : c \in Conns, m \in Mids}
    \cup {AckCommand(c, m) : c \in Conns, m \in Mids}

Symmetry == Permutations(Mids \ {m3}) \cup Permutations(Conns \ {a1})

=============================================================================
