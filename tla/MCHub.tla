-------------------------------- MODULE MCHub --------------------------------
(* The instances of Hub that TLC checks. *)
EXTENDS Hub, TLC

Commands(type, qids, mids) == [type : {type}, qid : qids, mid : mids]

AskForQueue == Commands("NEW", {NoQueue}, {NoMid})
Subscribe   == Commands("SUB", Queues, {NoMid})
Submit      == Commands("SEND", Queues, Mids)
Receipt     == Commands("ACK", Queues, Mids)
InPlace     == Commands("PING", {NoQueue}, {NoMid})

\* Who is connected to which queue.
RolesVocabulary == AskForQueue \cup Subscribe

\* What happens to messages, ids the server mints, and every refusal.
MessagesVocabulary ==
  AskForQueue \cup Subscribe \cup Submit \cup Receipt
    \cup Commands("SEND", Queues, {NoMid}) \cup Commands("SEND", {NoQueue}, {NoMid})
    \cup Commands("SUB", {NoQueue}, {NoMid}) \cup Commands("NEW", Queues, {NoMid})
    \cup Commands("ACK", {NoQueue}, {NoMid}) \cup Commands("OTHER", {NoQueue}, {NoMid})
    \cup Commands("BAD", {NoQueue}, {NoMid}) \cup InPlace

LiveVocabulary == AskForQueue \cup Subscribe \cup Submit

\* Connections, queues and messages are interchangeable.
Symmetry == Permutations(Conns) \cup Permutations(Queues) \cup Permutations(Mids)

=============================================================================
