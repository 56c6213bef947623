--------------------------- MODULE MCIntroductions ---------------------------
(* The instance of Introductions that TLC checks: Alice may run the client   *)
(* twice at the same time, and again later, Bob once at a time.              *)
EXTENDS Introductions, TLC

CONSTANTS alice, bob, a1, a2, b1

MCOwner == (a1 :> alice) @@ (a2 :> alice) @@ (b1 :> bob)

\* No port, the last one, and one too many.
MCPorts == {0, 65535, 65536}

MCSymmetry == Permutations({a1, a2}) \cup Permutations(Keys)

=============================================================================
