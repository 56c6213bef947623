----------------------------- MODULE StoreProofs -----------------------------
(* Lemmas about the SQL statements of Store, for every module that runs     *)
(* them.                                                                    *)
EXTENDS Store, TLAPS

----------------------------------------------------------------------------
(* Whatever a statement does, it leaves a database. *)

LEMMA QueueStatementTypes ==
  ASSUME NEW d \in Database, NEW q \in Queues
  PROVE  CreateQueue(d, q) \in Database /\ TouchQueue(d, q) \in Database
<1>1. CreateQueue(d, q) \in Database
  BY DEF CreateQueue, Database, Ages
<1>2. TouchQueue(d, q) \in Database
  BY DEF TouchQueue, Database, Ages
<1> QED BY <1>1, <1>2

LEMMA SaveType ==
  ASSUME NEW d \in Database, NEW q \in Queues, NEW m \in Mids
  PROVE  SaveMessage(d, m, q) \in Database
<1>1. [mid |-> m, qid |-> q, at |-> d.arrivals] \in Row
  BY DEF Row, Database
<1> QED BY <1>1 DEF SaveMessage, Database

\* An ACK may name any message, or none.
LEMMA DeleteType ==
  ASSUME NEW d \in Database, NEW m
  PROVE  DeleteMessage(d, m) \in Database
BY DEF Database, Row, Ages, DeleteMessage

LEMMA InitialDatabaseType ==
  ASSUME NEW old \in SUBSET Queues
  PROVE  DatabaseWith(old) \in Database
BY DEF Database, Row, Ages, DatabaseWith

----------------------------------------------------------------------------
(* What a statement does to the queues there are, and to the rows. *)

LEMMA CreateEffects ==
  ASSUME NEW d \in Database, NEW q \in Queues
  PROVE  /\ CreateQueue(d, q).messages = d.messages
         /\ \A p \in Queues : QueueExists(d, p) => QueueExists(CreateQueue(d, q), p)
         /\ \A p \in Queues : p # q => CreateQueue(d, q).queues[p] = d.queues[p]
BY DEF CreateQueue, QueueExists, Database

LEMMA TouchEffects ==
  ASSUME NEW d \in Database, NEW q \in Queues
  PROVE  /\ TouchQueue(d, q).messages = d.messages
         /\ \A p \in Queues : QueueExists(d, p) <=> QueueExists(TouchQueue(d, q), p)
         /\ \A p \in Queues : TouchQueue(d, q).queues[p] \in {d.queues[p], "fresh"}
         /\ TouchQueue(d, q).queues[q] \in {"absent", "fresh"}
BY DEF TouchQueue, QueueExists, Database

LEMMA SaveEffects ==
  ASSUME NEW d \in Database, NEW q \in Queues, NEW m \in Mids
  PROVE  /\ SaveMessage(d, m, q).queues = d.queues
         /\ d.messages \subseteq SaveMessage(d, m, q).messages
         /\ \A row \in SaveMessage(d, m, q).messages :
              row \in d.messages \/ row.qid = q
BY DEF SaveMessage, Database

LEMMA DeleteEffects ==
  ASSUME NEW d \in Database, NEW m
  PROVE  /\ DeleteMessage(d, m).queues = d.queues
         /\ DeleteMessage(d, m).messages \subseteq d.messages
BY DEF DeleteMessage, Database

=============================================================================
