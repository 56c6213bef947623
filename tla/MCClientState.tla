---------------------------- MODULE MCClientState ----------------------------
(* The instances of ClientState that TLC checks: two relays on different     *)
(* hosts, a peer with a good link and a broken one to the first relay, and   *)
(* a peer with a good link to the second.                                    *)
EXTENDS ClientState, TLC

CONSTANTS r1, r2, h1, h2, q1, q2, p1, p2, bad

TheRelays == {r1, r2}
TheHosts == {h1, h2}
ThePeers == {p1, p2}

OneHostEach == (r1 :> h1) @@ (r2 :> h2)

TheStanding == (r1 :> {q1}) @@ (r2 :> {q2})

TheLinks == {[relay |-> r1, qid |-> q1, peer |-> p1],
             [relay |-> r1, qid |-> bad, peer |-> p1],
             [relay |-> r2, qid |-> q2, peer |-> p2]}

=============================================================================
