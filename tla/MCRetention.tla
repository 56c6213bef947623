----------------------------- MODULE MCRetention -----------------------------
(* The instances of Retention that TLC checks. *)
EXTENDS Retention, TLC

\* For the safety properties only.
Symmetry == Permutations(Queues) \cup Permutations(Mids)

=============================================================================
