------------------------------ MODULE Retention ------------------------------
(***************************************************************************)
(* What the relay keeps and for how long: the sweeper goroutine            *)
(* (server/main.go, Store.Sweep) beside the hub goroutine, on one          *)
(* database.  Module Hub takes a handler's work on the database as one     *)
(* step, which is right as long as nobody else works on it.  Here the      *)
(* sweeper does, so every SQL statement of either goroutine is a step.     *)
(*                                                                         *)
(* Of the hub this module keeps the keys of its map, and the handler it is *)
(* in; who is connected, and what is sent, is module Hub's subject.        *)
(* Commands that are refused by the lookup change nothing and have no      *)
(* action, nor has the query of a SUB, which only reads.                   *)
(*                                                                         *)
(* database/sql opens a second connection when two statements overlap.     *)
(* Open has set foreign_keys on the first one only.                        *)
(***************************************************************************)
EXTENDS Store

CONSTANTS
  NoQueue, NoMid,   \* no queue, no message
  Faulty,           \* statements that may fail for reasons of their own
  MaxArrivals       \* bound: how many messages are stored

ASSUME RetentionAssumption ==
  /\ NoQueue \notin Queues /\ NoMid \notin Mids
  /\ Faulty \subseteq {"touch", "save", "sweep"}
  /\ MaxArrivals \in Nat

VARIABLES
  db,        \* the database
  pool,      \* foreign_keys on the connections of the process's pool
  cached,    \* the keys of Hub.queues
  job,       \* the handler the hub is in
  sweep,     \* the next statement of the sweeper, and its cutoff
  issued,    \* history: queues given out in a NEW_OK, now or in former days
  mixed      \* history: was there ever a second connection?

history == <<issued, mixed>>
vars    == <<db, pool, cached, job, sweep, history>>

\* The handler after its first statement, by the statement that is next.
Jobs ==
       [type : {"NEW", "SUB", "SEND"}, next : {"touch"}, qid : Queues, mid : {NoMid}]
  \cup [type : {"SEND"}, next : {"save"}, qid : Queues, mid : Mids]

Job(type, next, q, m) == [type |-> type, next |-> next, qid |-> q, mid |-> m]

NoJob == Job("NONE", "take", NoQueue, NoMid)

\* The cutoff now - queueTTL as the set of queues it is beyond.
Sweeping(at, old) == [at |-> at, old |-> old]

Asleep == Sweeping("asleep", {})

Fails(what) == what \in Faulty

----------------------------------------------------------------------------
(* The process, and time. *)

\* Mutant: the pragma is left to whoever connects.
NoPragma == BOOLEAN

\* The connection that Open leaves in the pool.
Opened == {TRUE}

Init ==
  /\ \E old \in SUBSET Queues : db = DatabaseWith(old) /\ issued = old
  /\ pool = Opened /\ cached = {}
  /\ job = NoJob /\ sweep = Asleep
  /\ mixed = FALSE

\* The process is killed and started again.
Restart ==
  /\ pool' = Opened /\ cached' = {}
  /\ job' = NoJob /\ sweep' = Asleep
  /\ UNCHANGED <<db, history>>

\* A queue's time to live runs out.  A sweep is over long before a queue
\* that it found expired can be touched and expire again.
Expire(q) ==
  /\ db.queues[q] = "fresh" /\ q \notin sweep.old
  /\ db' = [db EXCEPT !.queues[q] = "stale"]
  /\ UNCHANGED <<pool, cached, job, sweep, history>>

\* A statement of the hub overlaps one of the sweeper.
Overlap ==
  /\ sweep.at # "asleep" /\ pool = Opened
  /\ pool' = BOOLEAN /\ mixed' = TRUE
  /\ UNCHANGED <<db, cached, job, sweep, issued>>

----------------------------------------------------------------------------
(* The hub, statement by statement. *)

Idle == job = NoJob

\* Connections leave, and with the last role the entry goes.
Release(q) ==
  /\ Idle /\ q \in cached
  /\ cached' = cached \ {q}
  /\ UNCHANGED <<db, pool, job, sweep, history>>

\* NEW: the INSERT, which leaves last_active at its default.
Create(q) ==
  /\ Idle /\ ~ QueueExists(db, q) /\ q \notin issued \cup cached
  /\ db' = CreateQueue(db, q)
  /\ job' = Job("NEW", "touch", q, NoMid)
  /\ UNCHANGED <<pool, cached, sweep, history>>

\* The map answers before the database does.  Only queues that were given
\* out are asked for: nobody guesses an id.
Found(q) == q \in cached \/ QueueExists(db, q)

Lookup(q, found) ==
  /\ Idle /\ q \in issued /\ Found(q)
  /\ cached' = cached \cup {q}
  /\ job' = found
  /\ UNCHANGED <<db, pool, sweep, history>>

Subscribe(q) == Lookup(q, Job("SUB", "touch", q, NoMid))

Submit(q, m) ==
  /\ db.arrivals < MaxArrivals
  /\ Lookup(q, Job("SEND", "save", q, m))

\* SEND: the INSERT.
Save ==
  /\ job.next = "save"
  /\ \E enforced \in pool : CanSave(db, job.mid, job.qid, enforced)
  /\ db' = SaveMessage(db, job.mid, job.qid)
  /\ job' = Job("SEND", "touch", job.qid, NoMid)
  /\ UNCHANGED <<pool, cached, sweep, history>>

\* It fails, and with it the command.
FailToSave ==
  /\ job.next = "save"
  /\ Fails("save") \/ \E enforced \in pool : ~ CanSave(db, job.mid, job.qid, enforced)
  /\ job' = NoJob
  /\ UNCHANGED <<db, pool, cached, sweep, history>>

\* Mutant: a queue is not touched when it is created.
TouchedLater(q) == IF job.type = "NEW" THEN db ELSE TouchQueue(db, q)

Touched(q) == TouchQueue(db, q)

\* The last statement, whose error nobody looks at, and the answer.  A NEW
\* gets its entry in the map only now.
TouchAndAnswer ==
  LET q == job.qid
  IN  /\ job.next = "touch"
      /\ db' \in {Touched(q)} \cup (IF Fails("touch") THEN {db} ELSE {})
      /\ cached' = cached \cup {q}
      /\ issued' = IF job.type = "NEW" THEN issued \cup {q} ELSE issued
      /\ job' = NoJob
      /\ UNCHANGED <<pool, sweep, mixed>>

\* ACK is a single statement.
Acknowledge(m) ==
  /\ Idle
  /\ db' = DeleteMessage(db, m)
  /\ UNCHANGED <<pool, cached, job, sweep, history>>

----------------------------------------------------------------------------
(* The sweeper, statement by statement.  The third one, which deletes old  *)
(* rows with delivered = 1, never finds any.                               *)

\* Mutant: queues with unread messages are kept.
PastCutoffAndEmpty ==
  {q \in Queues : db.queues[q] = "stale" /\ RowsOf(db, q) = {}}

PastCutoff == {q \in Queues : db.queues[q] = "stale"}

StartSweep ==
  /\ sweep = Asleep
  /\ sweep' = Sweeping("messages", PastCutoff)
  /\ UNCHANGED <<db, pool, cached, job, issued, mixed>>

\* Mutant: the queues are selected once, and deleted by id.
Listed == sweep.old

\* WHERE last_active < cutoff AND last_active > 0, as of this statement.
Expired == {q \in sweep.old : db.queues[q] = "stale"}

SweepMessages ==
  LET rows == {row \in db.messages : row.qid \in Expired}
  IN  /\ sweep.at = "messages"
      /\ db' = [db EXCEPT !.messages = @ \ rows]
      /\ sweep' = Sweeping("queues", sweep.old)
      /\ UNCHANGED <<pool, cached, job, issued, mixed>>

\* A message of one of these queues makes an enforced DELETE fail as a whole.
Referenced == \E row \in db.messages : row.qid \in Expired

SweepQueues ==
  /\ sweep.at = "queues"
  /\ \E enforced \in pool : enforced => ~ Referenced
  /\ db' = [db EXCEPT !.queues = [q \in Queues |-> IF q \in Expired THEN "absent" ELSE @[q]]]
  /\ sweep' = Asleep
  /\ UNCHANGED <<pool, cached, job, history>>

\* The sweep is given up until the next hour.
AbandonSweep ==
  /\ \/ sweep # Asleep /\ Fails("sweep")
     \/ sweep.at = "queues" /\ TRUE \in pool /\ Referenced
  /\ sweep' = Asleep
  /\ UNCHANGED <<db, pool, cached, job, history>>

----------------------------------------------------------------------------
(* The specification. *)

Handle ==
  \/ \E q \in Queues : Create(q) \/ Subscribe(q) \/ \E m \in Mids : Submit(q, m)
  \/ \E m \in Mids : Acknowledge(m)
  \/ Save \/ FailToSave \/ TouchAndAnswer

Sweep == StartSweep \/ SweepMessages \/ SweepQueues \/ AbandonSweep

Next ==
  \/ Restart \/ Overlap \/ Handle \/ Sweep
  \/ \E q \in Queues : Expire(q) \/ Release(q)

Spec == Init /\ [][Next]_vars

\* The ticker fires again and again, and a statement fails for reasons of its
\* own only now and then.  Restarts may postpone a sweep, but not for ever.
Fairness ==
  /\ WF_vars(Sweep)
  /\ SF_vars(SweepMessages) /\ SF_vars(SweepQueues)

FairSpec == Spec /\ Fairness

----------------------------------------------------------------------------
(* Properties. *)

\* The types of the variables; a handler works on a queue it has looked up.
TypeOK ==
  /\ db \in Database
  /\ pool \in {Opened, BOOLEAN} /\ mixed \in BOOLEAN
  /\ cached \subseteq Queues
  /\ job \in Jobs \cup {NoJob}
  /\ sweep \in [at : {"asleep", "messages", "queues"}, old : SUBSET Queues]
  /\ issued \subseteq Queues

\* As long as all statements ran on the connection that Open prepared,
\* every message belongs to a queue that exists (the REFERENCES clause,
\* store.go:67), in whatever order the sweep's statements and the hub's ran.
ReferentialIntegrity ==
  ~ mixed => \A row \in db.messages : QueueExists(db, row.qid)

\* A sweep takes no queue that is in use at that moment, even one that was
\* touched after the sweep had begun, and none of its messages.
SweepSparesActive ==
  [][\A q \in Queues : db.queues[q] \in {"never", "fresh"} =>
       /\ db'.queues[q] # "absent"
       /\ sweep' # sweep => RowsOf(db, q) \subseteq db'.messages
     ]_vars

\* A queue that was given out is not one of those the sweeper never takes:
\* NEW_OK is sent after last_active has been set.
GivenQueuesCanExpire == \A q \in issued : db.queues[q] # "never"

\* A queue whose time has run out is swept, or used again.
ExpiredQueuesGo ==
  \A q \in Queues : db.queues[q] = "stale" ~> db.queues[q] # "stale"

=============================================================================
