-------------------------------- MODULE Store --------------------------------
(***************************************************************************)
(* The relay's SQLite database (server/store.go) as a value.  Each         *)
(* operator is one SQL statement: what it leaves in the two tables, or     *)
(* what it answers.  When a statement runs, and whether it fails, is the   *)
(* caller's business (module Hub).                                         *)
(*                                                                         *)
(* Column last_active matters only through the time to live, so it is      *)
(* abstracted to an age:                                                   *)
(*   "absent"  there is no row for the queue                               *)
(*   "never"   the row holds the column's default 0, the one value the     *)
(*             sweeper never deletes                                       *)
(*   "fresh"   touched within the time to live                             *)
(*   "stale"   touched, and the time to live has run out since             *)
(*                                                                         *)
(* Undelivered sorts by receipt time, then by rowid.  With a clock that    *)
(* does not step back that is the order in which rows were inserted, so    *)
(* a row carries its arrival number.  Column delivered is left out:        *)
(* MarkDelivered, the one statement that sets it, has no caller in the     *)
(* server, so every row has delivered = 0.                                 *)
(***************************************************************************)
EXTENDS Naturals, FiniteSets

CONSTANTS
  Queues,   \* queue ids
  Mids      \* message ids

Ages == {"absent", "never", "fresh", "stale"}

\* A row of table messages.
Row == [mid : Mids, qid : Queues, at : Nat]

\* Both tables, and how many rows were ever inserted in messages.
Database == [queues : [Queues -> Ages], messages : SUBSET Row, arrivals : Nat]

\* A database that holds some queues and no message.
DatabaseWith(old) ==
  [queues |-> [q \in Queues |-> IF q \in old THEN "fresh" ELSE "absent"],
   messages |-> {}, arrivals |-> 0]

----------------------------------------------------------------------------
(* Queries. *)

QueueExists(db, q) == db.queues[q] # "absent"

\* mid is the primary key of messages.
MidStored(db, m) == \E row \in db.messages : row.mid = m

RowsOf(db, q) == {row \in db.messages : row.qid = q}

\* Mutant: ORDER BY is left out.
UndeliveredUnsorted(db, q) ==
  LET R == RowsOf(db, q)
  IN  {s \in [1 .. Cardinality(R) -> R] :
         \A i, j \in DOMAIN s : i # j => s[i] # s[j]}

\* The answers the query may give: the queue's rows in ascending order.
Undelivered(db, q) ==
  LET R == RowsOf(db, q)
  IN  {s \in [1 .. Cardinality(R) -> R] :
         \A i, j \in DOMAIN s : i < j => s[i].at < s[j].at}

----------------------------------------------------------------------------
(* Updates. *)

\* INSERT OR IGNORE: a row that is already there is left alone.
CreateQueue(db, q) ==
  IF QueueExists(db, q) THEN db ELSE [db EXCEPT !.queues[q] = "never"]

\* UPDATE ... WHERE qid = ?: does nothing when there is no row.
TouchQueue(db, q) ==
  IF QueueExists(db, q) THEN [db EXCEPT !.queues[q] = "fresh"] ELSE db

\* The INSERT when its constraints hold.
SaveMessage(db, m, q) ==
  [queues   |-> db.queues,
   messages |-> db.messages \cup {[mid |-> m, qid |-> q, at |-> db.arrivals]},
   arrivals |-> db.arrivals + 1]

\* The primary key, and the reference to queues on a connection that
\* enforces it, reject any other INSERT.
CanSave(db, m, q, enforced) ==
  /\ ~ MidStored(db, m)
  /\ enforced => QueueExists(db, q)

DeleteMessage(db, m) ==
  [db EXCEPT !.messages = {row \in @ : row.mid # m}]

=============================================================================
