--------------------------- MODULE RetentionProofs ---------------------------
(* What holds of the relay's database for any sets of queues and messages,  *)
(* whatever statements fail, and however the sweeper's and the hub's        *)
(* statements interleave.                                                   *)
EXTENDS Retention, StoreProofs

----------------------------------------------------------------------------
(* Types. *)

LEMMA JobTypes ==
  ASSUME NEW q \in Queues
  PROVE  /\ \A type \in {"NEW", "SUB", "SEND"} : Job(type, "touch", q, NoMid) \in Jobs
         /\ \A m \in Mids : Job("SEND", "save", q, m) \in Jobs
BY DEF Job, Jobs

\* A handler that is not done works on a queue, and one that still has to
\* store its message on that message.
LEMMA JobNames ==
  ASSUME job \in Jobs \cup {NoJob}
  PROVE  /\ job.next \in {"touch", "save"} => job.qid \in Queues
         /\ job.next = "save" => job.mid \in Mids
BY DEF Jobs, NoJob, Job

LEMMA TypeInit == Init => TypeOK
<1> SUFFICES ASSUME Init PROVE TypeOK
  OBVIOUS
<1>1. db \in Database /\ issued \subseteq Queues
  BY InitialDatabaseType DEF Init
<1> QED BY <1>1 DEF Init, TypeOK, Opened, Asleep, Sweeping

LEMMA TypeNext == TypeOK /\ [Next]_vars => TypeOK'
<1> SUFFICES ASSUME TypeOK, [Next]_vars PROVE TypeOK'
  OBVIOUS
<1> USE DEF TypeOK, history
<1>1. CASE Restart
  BY <1>1 DEF Restart, Asleep, Sweeping
<1>2. CASE Overlap
  BY <1>2 DEF Overlap
<1>3. CASE \E q \in Queues : Expire(q)
  BY <1>3 DEF Expire, Database, Ages
<1>4. CASE \E q \in Queues : Release(q)
  BY <1>4 DEF Release
<1>5. CASE \E q \in Queues : Create(q)
  BY <1>5, JobTypes, QueueStatementTypes DEF Create
<1>6. CASE \E q \in Queues : Subscribe(q)
  BY <1>6, JobTypes DEF Subscribe, Lookup
<1>7. CASE \E q \in Queues, m \in Mids : Submit(q, m)
  BY <1>7, JobTypes DEF Submit, Lookup
<1>8. CASE \E m \in Mids : Acknowledge(m)
  BY <1>8, DeleteType DEF Acknowledge
<1>9. CASE Save
  <2>1. job.qid \in Queues /\ job.mid \in Mids
    BY <1>9, JobNames DEF Save
  <2>2. db' \in Database /\ job' \in Jobs
    BY <1>9, <2>1, JobTypes, SaveType DEF Save
  <2> QED BY <1>9, <2>2 DEF Save
<1>10. CASE FailToSave
  BY <1>10 DEF FailToSave
<1>11. CASE TouchAndAnswer
  <2>1. job.qid \in Queues
    BY <1>11, JobNames DEF TouchAndAnswer
  <2>2. db' \in Database
    BY <1>11, <2>1, QueueStatementTypes DEF TouchAndAnswer, Touched
  <2>3. issued' \subseteq Queues /\ cached' \subseteq Queues
    BY <1>11, <2>1 DEF TouchAndAnswer
  <2> QED BY <1>11, <2>2, <2>3 DEF TouchAndAnswer
<1>12. CASE StartSweep
  BY <1>12 DEF StartSweep, Sweeping, PastCutoff
<1>13. CASE SweepMessages
  <2>1. db' \in Database
    BY <1>13 DEF SweepMessages, Database
  <2> QED BY <1>13, <2>1 DEF SweepMessages, Sweeping
<1>14. CASE SweepQueues
  <2>1. db' \in Database
    BY <1>14 DEF SweepQueues, Database, Ages
  <2> QED BY <1>14, <2>1 DEF SweepQueues, Asleep, Sweeping
<1>15. CASE AbandonSweep
  BY <1>15 DEF AbandonSweep, Asleep, Sweeping
<1>16. CASE UNCHANGED vars
  BY <1>16 DEF vars
<1> QED
  BY <1>1, <1>2, <1>3, <1>4, <1>5, <1>6, <1>7, <1>8, <1>9, <1>10, <1>11,
     <1>12, <1>13, <1>14, <1>15, <1>16 DEF Next, Handle, Sweep

\* The variables of Retention keep their types (all of store.go's statements
\* and the two goroutines that run them).
THEOREM RetentionTypeCorrect == Spec => []TypeOK
BY TypeInit, TypeNext, PTL DEF Spec

----------------------------------------------------------------------------
(* References.  ReferentialIntegrity alone is not inductive: it does not    *)
(* say which connections there are.  While none was added, every one        *)
(* enforces foreign keys, so that no INSERT makes an orphan, and the DELETE *)
(* of the expired queues happens only when no message refers to them.       *)

Integrity == ReferentialIntegrity /\ (~ mixed => pool = Opened)

LEMMA IntegrityInit == Init => Integrity
BY DEF Init, Integrity, ReferentialIntegrity, DatabaseWith

\* A step that loses no queue and adds no message keeps the references.
LEMMA IntegrityFrame ==
  ASSUME TypeOK, Integrity,
         \A q \in Queues : QueueExists(db, q) => QueueExists(db', q),
         db'.messages \subseteq db.messages, UNCHANGED <<pool, mixed>>
  PROVE  Integrity'
BY DEF TypeOK, Database, Row, Integrity, ReferentialIntegrity, QueueExists

LEMMA IntegrityNext == TypeOK /\ Integrity /\ [Next]_vars => Integrity'
<1> SUFFICES ASSUME TypeOK, Integrity, [Next]_vars PROVE Integrity'
  OBVIOUS
<1>0. db \in Database /\ job \in Jobs \cup {NoJob}
  BY DEF TypeOK
<1>1. ASSUME UNCHANGED <<db, pool, mixed>> PROVE Integrity'
  BY <1>1, IntegrityFrame
<1>2. CASE Restart
  BY <1>2 DEF Restart, Integrity, ReferentialIntegrity, history, QueueExists
<1>3. CASE Overlap
  BY <1>3 DEF Overlap, Integrity, ReferentialIntegrity
<1>4. CASE \E q \in Queues : Expire(q)
  <2>1. PICK q \in Queues : Expire(q)
    BY <1>4
  <2>2. /\ \A p \in Queues : QueueExists(db, p) => QueueExists(db', p)
        /\ db'.messages = db.messages
    BY <1>0, <2>1 DEF Expire, QueueExists, Database
  <2> QED BY <2>1, <2>2, IntegrityFrame DEF Expire, history
<1>5. CASE \E q \in Queues : Create(q)
  BY <1>0, <1>5, CreateEffects, IntegrityFrame DEF Create, history
<1>6. CASE \E m \in Mids : Acknowledge(m)
  <2>1. PICK m \in Mids : Acknowledge(m)
    BY <1>6
  <2>2. /\ db'.queues = db.queues /\ db'.messages \subseteq db.messages
        /\ UNCHANGED <<pool, mixed>>
    BY <1>0, <2>1, DeleteEffects DEF Acknowledge, history
  <2>3. \A q \in Queues : QueueExists(db, q) => QueueExists(db', q)
    BY <2>2 DEF QueueExists
  <2> QED BY <2>2, <2>3, IntegrityFrame
<1>7. CASE Save
  <2>1. /\ job.qid \in Queues /\ job.mid \in Mids
        /\ db' = SaveMessage(db, job.mid, job.qid)
        /\ UNCHANGED <<pool, mixed>>
    BY <1>0, <1>7, JobNames DEF Save, history
  <2>2. /\ db'.queues = db.queues
        /\ \A row \in db'.messages : row \in db.messages \/ row.qid = job.qid
    BY <1>0, <2>1, SaveEffects
  <2>3. ASSUME ~ mixed PROVE QueueExists(db, job.qid)
    <3>1. PICK enforced \in pool : CanSave(db, job.mid, job.qid, enforced)
      BY <1>7 DEF Save
    <3>2. pool = {TRUE}
      BY <2>3 DEF Integrity, Opened
    <3>3. enforced = TRUE
      BY <3>1, <3>2, Zenon
    <3>4. enforced
      BY <3>3, Zenon
    <3> QED BY <3>1, <3>4, Zenon DEF CanSave
  <2>4. ASSUME ~ mixed', NEW row \in db'.messages PROVE QueueExists(db', row.qid)
    <3>1. ~ mixed
      BY <2>1, <2>4
    <3>2. QueueExists(db, row.qid)
      BY <2>2, <2>3, <2>4, <3>1 DEF Integrity, ReferentialIntegrity
    <3> QED BY <2>2, <3>2 DEF QueueExists
  <2> QED BY <2>1, <2>4 DEF Integrity, ReferentialIntegrity
<1>8. CASE TouchAndAnswer
  <2>1. job.qid \in Queues
    BY <1>0, <1>8, JobNames DEF TouchAndAnswer
  <2>2. CASE db' = TouchQueue(db, job.qid)
    BY <1>0, <1>8, <2>1, <2>2, TouchEffects, IntegrityFrame DEF TouchAndAnswer
  <2>3. CASE db' = db
    BY <1>1, <1>8, <2>3 DEF TouchAndAnswer
  <2> QED BY <1>8, <2>2, <2>3 DEF TouchAndAnswer, Touched
<1>9. CASE SweepMessages
  <2>1. /\ db'.queues = db.queues /\ db'.messages \subseteq db.messages
        /\ UNCHANGED <<pool, mixed>>
    BY <1>0, <1>9 DEF SweepMessages, Database
  <2>2. \A q \in Queues : QueueExists(db, q) => QueueExists(db', q)
    BY <2>1 DEF QueueExists
  <2> QED BY <2>1, <2>2, IntegrityFrame
<1>10. CASE SweepQueues
  <2>1. /\ db'.messages = db.messages
        /\ db'.queues = [q \in Queues |-> IF q \in Expired THEN "absent" ELSE db.queues[q]]
        /\ UNCHANGED <<pool, mixed>>
    BY <1>0, <1>10 DEF SweepQueues, Database, history
  <2>2. ASSUME ~ mixed PROVE ~ Referenced
    <3>1. PICK enforced \in pool : enforced => ~ Referenced
      BY <1>10 DEF SweepQueues
    <3>2. pool = {TRUE}
      BY <2>2 DEF Integrity, Opened
    <3>3. enforced = TRUE
      BY <3>1, <3>2, Zenon
    <3>4. enforced
      BY <3>3, Zenon
    <3> QED BY <3>1, <3>4
  <2>3. \A row \in db.messages : row.qid \in Queues
    BY <1>0 DEF Database, Row
  <2>4. ASSUME ~ mixed, NEW row \in db.messages PROVE QueueExists(db', row.qid)
    <3>1. row.qid \notin Expired
      BY <2>2, <2>4 DEF Referenced
    <3>2. QueueExists(db, row.qid)
      BY <2>4 DEF Integrity, ReferentialIntegrity
    <3> QED BY <2>1, <2>3, <2>4, <3>1, <3>2 DEF QueueExists
  <2> QED BY <2>1, <2>4 DEF Integrity, ReferentialIntegrity
<1>11. CASE \/ \E q \in Queues : Release(q) \/ Subscribe(q)
            \/ \E q \in Queues, m \in Mids : Submit(q, m)
            \/ FailToSave \/ StartSweep \/ AbandonSweep
  BY <1>1, <1>11 DEF Release, Subscribe, Submit, Lookup, FailToSave, StartSweep,
                     AbandonSweep, history
<1>12. CASE UNCHANGED vars
  BY <1>1, <1>12 DEF vars, history
<1> QED
  BY <1>2, <1>3, <1>4, <1>5, <1>6, <1>7, <1>8, <1>9, <1>10, <1>11, <1>12
  DEF Next, Handle, Sweep

\* While every statement ran on the connection that Open prepared, no message
\* is an orphan, however the sweep and the hub interleave (store.go:67).
THEOREM NoOrphans == Spec => []ReferentialIntegrity
<1>1. Integrity => ReferentialIntegrity
  BY DEF Integrity
<1> QED BY <1>1, TypeInit, TypeNext, IntegrityInit, IntegrityNext, PTL DEF Spec

----------------------------------------------------------------------------
(* The sweeper and the queues in use. *)

\* A statement of the sweeper touches only what has expired.
LEMMA SparesActive ==
  ASSUME TypeOK, [Next]_vars, NEW q \in Queues, db.queues[q] \in {"never", "fresh"}
  PROVE  /\ db'.queues[q] # "absent"
         /\ sweep' # sweep => RowsOf(db, q) \subseteq db'.messages
<1>0. db \in Database /\ job \in Jobs \cup {NoJob} /\ QueueExists(db, q)
  BY DEF TypeOK, QueueExists
<1>1. ASSUME db' = db
      PROVE  /\ db'.queues[q] # "absent"
             /\ sweep' # sweep => RowsOf(db, q) \subseteq db'.messages
  BY <1>1 DEF RowsOf
<1>2. ASSUME QueueExists(db', q), sweep' = sweep
      PROVE  /\ db'.queues[q] # "absent"
             /\ sweep' # sweep => RowsOf(db, q) \subseteq db'.messages
  BY <1>2 DEF QueueExists
<1>3. CASE \E p \in Queues : Expire(p)
  BY <1>0, <1>2, <1>3 DEF Expire, QueueExists, Database
<1>4. CASE \E p \in Queues : Create(p)
  BY <1>0, <1>2, <1>4, CreateEffects DEF Create
<1>5. CASE \E m \in Mids : Acknowledge(m)
  BY <1>0, <1>2, <1>5, DeleteEffects DEF Acknowledge, QueueExists
<1>6. CASE Save
  <2>1. job.qid \in Queues /\ job.mid \in Mids
    BY <1>0, <1>6, JobNames DEF Save
  <2> QED BY <1>0, <1>2, <1>6, <2>1, SaveEffects DEF Save, QueueExists
<1>7. CASE TouchAndAnswer
  <2>1. job.qid \in Queues
    BY <1>0, <1>7, JobNames DEF TouchAndAnswer
  <2> QED BY <1>0, <1>1, <1>2, <1>7, <2>1, TouchEffects DEF TouchAndAnswer, Touched
<1>8. CASE SweepMessages
  <2>1. q \notin Expired
    BY DEF Expired
  <2>2. /\ db'.queues = db.queues
        /\ db'.messages = db.messages \ {row \in db.messages : row.qid \in Expired}
    BY <1>0, <1>8 DEF SweepMessages, Database
  <2> QED BY <2>1, <2>2 DEF RowsOf
<1>9. CASE SweepQueues
  <2>1. q \notin Expired
    BY DEF Expired
  <2>2. /\ db'.messages = db.messages
        /\ db'.queues[q] = db.queues[q]
    BY <1>0, <1>9, <2>1 DEF SweepQueues, Database
  <2> QED BY <2>2 DEF RowsOf
<1>10. CASE \/ \E p \in Queues : Release(p) \/ Subscribe(p)
            \/ \E p \in Queues, m \in Mids : Submit(p, m)
            \/ Restart \/ Overlap \/ FailToSave \/ StartSweep \/ AbandonSweep
            \/ UNCHANGED vars
  BY <1>1, <1>10 DEF Release, Subscribe, Submit, Lookup, Restart, Overlap,
                     FailToSave, StartSweep, AbandonSweep, vars
<1> QED
  BY <1>3, <1>4, <1>5, <1>6, <1>7, <1>8, <1>9, <1>10 DEF Next, Handle, Sweep

\* No sweep takes a queue that is in use at that moment, nor its messages,
\* although its statements run at different times (store.go:172-183).
THEOREM ActiveQueuesSpared == Spec => SweepSparesActive
<1>1. TypeOK /\ [Next]_vars =>
        [\A q \in Queues : db.queues[q] \in {"never", "fresh"} =>
           /\ db'.queues[q] # "absent"
           /\ sweep' # sweep => RowsOf(db, q) \subseteq db'.messages]_vars
  BY SparesActive
<1> QED BY <1>1, TypeInit, TypeNext, PTL DEF Spec, SweepSparesActive

----------------------------------------------------------------------------
(* The queues the sweeper never takes. *)

LEMMA CanExpireInit == Init => GivenQueuesCanExpire
BY DEF Init, GivenQueuesCanExpire, DatabaseWith

LEMMA CanExpireNext ==
  ASSUME TypeOK, GivenQueuesCanExpire, [Next]_vars, "touch" \notin Faulty
  PROVE  GivenQueuesCanExpire'
<1>0. db \in Database /\ job \in Jobs \cup {NoJob} /\ issued \subseteq Queues
  BY DEF TypeOK
<1>1. ASSUME UNCHANGED <<db, issued>> PROVE GivenQueuesCanExpire'
  BY <1>1 DEF GivenQueuesCanExpire
<1>2. ASSUME db'.queues = db.queues, issued' = issued PROVE GivenQueuesCanExpire'
  BY <1>2 DEF GivenQueuesCanExpire
<1>3. CASE \E q \in Queues : Expire(q)
  BY <1>0, <1>3 DEF Expire, GivenQueuesCanExpire, Database, history
<1>4. CASE \E q \in Queues : Create(q)
  <2>1. PICK q \in Queues : Create(q)
    BY <1>4
  <2>2. issued' = issued /\ q \notin issued
    BY <2>1 DEF Create, history
  <2> QED BY <1>0, <2>1, <2>2, CreateEffects DEF Create, GivenQueuesCanExpire
<1>5. CASE \E m \in Mids : Acknowledge(m)
  BY <1>0, <1>2, <1>5, DeleteEffects DEF Acknowledge, history
<1>6. CASE Save
  <2>1. job.qid \in Queues /\ job.mid \in Mids
    BY <1>0, <1>6, JobNames DEF Save
  <2> QED BY <1>0, <1>2, <1>6, <2>1, SaveEffects DEF Save, history
<1>7. CASE TouchAndAnswer
  <2>1. /\ job.qid \in Queues
        /\ db' = TouchQueue(db, job.qid)
        /\ issued' \subseteq issued \cup {job.qid}
    BY <1>0, <1>7, JobNames DEF TouchAndAnswer, Touched, Fails
  <2> QED BY <1>0, <2>1, TouchEffects DEF GivenQueuesCanExpire
<1>8. CASE SweepMessages
  BY <1>0, <1>2, <1>8 DEF SweepMessages, Database
<1>9. CASE SweepQueues
  BY <1>0, <1>9 DEF SweepQueues, Database, GivenQueuesCanExpire, history
<1>10. CASE \/ \E q \in Queues : Release(q) \/ Subscribe(q)
            \/ \E q \in Queues, m \in Mids : Submit(q, m)
            \/ Restart \/ Overlap \/ FailToSave \/ StartSweep \/ AbandonSweep
            \/ UNCHANGED vars
  BY <1>1, <1>10 DEF Release, Subscribe, Submit, Lookup, Restart, Overlap,
                     FailToSave, StartSweep, AbandonSweep, vars, history
<1> QED
  BY <1>3, <1>4, <1>5, <1>6, <1>7, <1>8, <1>9, <1>10 DEF Next, Handle, Sweep

\* As long as TouchQueue does not fail, a queue that was given out has left
\* the one value of last_active that no sweep deletes (hub.go:120-129).
THEOREM NoImmortalQueue ==
  ASSUME "touch" \notin Faulty
  PROVE  Spec => []GivenQueuesCanExpire
<1>1. TypeOK /\ GivenQueuesCanExpire /\ [Next]_vars => GivenQueuesCanExpire'
  BY CanExpireNext
<1> QED BY <1>1, TypeInit, TypeNext, CanExpireInit, PTL DEF Spec

=============================================================================
