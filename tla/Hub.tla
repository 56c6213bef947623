--------------------------------- MODULE Hub ---------------------------------
(***************************************************************************)
(* The relay server: the hub goroutine (server/hub.go), the read and write *)
(* pump of every connection (server/client.go), and the database they work *)
(* on (module Store).  Clients are not modelled here: a connected client   *)
(* may at any moment send any command of Vocabulary, disconnect, or stop   *)
(* reading.                                                                *)
(*                                                                         *)
(* The hub goroutine takes one request at a time from three unbuffered     *)
(* channels.  Its handler for a request changes the maps and the database  *)
(* at once, since nobody else touches them; what the handler sends is then *)
(* run statement by statement, because the write pumps drain the send      *)
(* channels at the same time, and a frame for a full channel is dropped.   *)
(*                                                                         *)
(* Not here: the sweeper and the passing of the time to live.              *)
(***************************************************************************)
EXTENDS Store, Sequences

CONSTANTS
  Conns,        \* connections, each used once: a reconnect is another one
  Nobody,       \* nil in the owner or sub field of a queueState
  NoQueue,      \* an empty or malformed queue id
  NoMid,        \* an empty message id
  ShortIds,     \* message ids of less than 8 bytes
  SendCap,      \* capacity of a connection's send channel
  Vocabulary,   \* the commands the clients may send
  Faulty,       \* what may fail: database statements, writes to a peer
  MaxIssued,    \* bound: how many queues are created
  MaxArrivals   \* bound: how many messages are stored

\* What a client may send; "OTHER" is any other type, "BAD" does not parse.
Command == [type : {"NEW", "SUB", "SEND", "ACK", "PING", "OTHER", "BAD"},
            qid : Queues \cup {NoQueue}, mid : Mids \cup {NoMid}]

NoCommand == [type |-> "NONE", qid |-> NoQueue, mid |-> NoMid]

Faults == {"create", "exists", "undelivered", "touch", "save", "delete", "write"}

ASSUME HubAssumption ==
  /\ Nobody \notin Conns
  /\ NoQueue \notin Queues
  /\ NoMid \notin Mids
  /\ ShortIds \subseteq Mids
  /\ SendCap \in Nat \ {0}
  /\ Vocabulary \subseteq Command
  /\ Faulty \subseteq Faults
  /\ IsFiniteSet(Mids)
  /\ MaxIssued \in Nat
  /\ MaxArrivals \in Nat /\ MaxArrivals <= Cardinality(Mids)

VARIABLES
  db,        \* the database: all that outlives the process
  process,   \* "up", or the panic that killed it
  clients,   \* Hub.clients: the registered connections
  cached,    \* the keys of Hub.queues
  owner,     \* Hub.queues[q].owner, Nobody when q is not a key
  sub,       \* Hub.queues[q].sub, Nobody when q is not a key
  hub,       \* what is left to run of the handler the hub is in
  reader,    \* where the connection's readPump is
  writer,    \* where the connection's writePump is
  cmd,       \* the command a "routing" reader offers to the hub
  send,      \* the connection's send channel
  closed,    \* the connections whose send channel is closed
  granted,   \* history: the queues a connection's SUB was granted for
  offered,   \* history: the messages the hub tried to deliver to it
  accepted,  \* history: the messages a SEND was acknowledged for
  retired,   \* history: the messages deleted because of an ACK
  issued     \* history: the queues given out in a NEW_OK

memory  == <<clients, cached, owner, sub>>
pumps   == <<reader, writer, cmd, send, closed>>
history == <<granted, offered, accepted, retired, issued>>
vars    == <<db, process, memory, hub, pumps, history>>

----------------------------------------------------------------------------
(* Frames, and the statements that are left of a handler. *)

NewOk(q)      == [type |-> "NEW_OK",  qid |-> q, mid |-> NoMid]
SubOk(q)      == [type |-> "SUB_OK",  qid |-> q, mid |-> NoMid]
Deliver(q, m) == [type |-> "DELIVER", qid |-> q, mid |-> m]
Ack(q, m)     == [type |-> "ACK",     qid |-> q, mid |-> m]
Error         == [type |-> "ERROR",   qid |-> NoQueue, mid |-> NoMid]
Pong          == [type |-> "PONG",    qid |-> NoQueue, mid |-> NoMid]

Frame ==
       [type : {"NEW_OK", "SUB_OK"}, qid : Queues, mid : {NoMid}]
  \cup [type : {"DELIVER", "ACK"}, qid : Queues, mid : Mids]
  \cup [type : {"ERROR", "PONG"}, qid : {NoQueue}, mid : {NoMid}]

Statement ==
       [do : {"send"}, to : Conns, frame : Frame]
  \cup [do : {"touch"}, qid : Queues]
  \cup [do : {"slice"}]

Send(c, f) == [do |-> "send", to |-> c, frame |-> f]
Touch(q)   == [do |-> "touch", qid |-> q]

\* id[:8] in a log line: harmless unless the id is shorter than that.
Abbreviate(id) ==
  IF id \in ShortIds \cup {NoQueue, NoMid} THEN <<[do |-> "slice"]>> ELSE <<>>

\* Mutants of SendEnvelope: it forgets the capacity; it waits for room.
AppendAlways(c, f) ==
  c \notin closed /\ send' = [send EXCEPT ![c] = Append(@, f)]

AppendWhenRoom(c, f) ==
  /\ c \notin closed /\ Len(send[c]) < SendCap
  /\ send' = [send EXCEPT ![c] = Append(@, f)]

\* SendEnvelope never waits: a frame for a full channel is dropped.
SendEnvelope(c, f) ==
  /\ c \notin closed
  /\ send' = IF Len(send[c]) < SendCap
             THEN [send EXCEPT ![c] = Append(@, f)]
             ELSE send

\* Mutant: a kick that only forgets the connection.
CloseNothing(C) == C \subseteq Conns /\ UNCHANGED <<closed, process>>

\* Closing a channel that is closed already panics as well.
CloseChannels(C) ==
  /\ closed' = closed \cup C
  /\ process' = IF C \cap closed = {} THEN process ELSE "close of closed channel"

Fails(what) == what \in Faulty

\* What a TouchQueue whose error nobody looks at leaves behind.
Touched(d, q) == {TouchQueue(d, q)} \cup (IF Fails("touch") THEN {d} ELSE {})

----------------------------------------------------------------------------
(* The process, and the pumps of a connection. *)

\* A server starts with an empty database, or with queues of former days.
Init ==
  /\ \E old \in SUBSET Queues : db = DatabaseWith(old)
  /\ process = "up"
  /\ clients = {} /\ cached = {} /\ hub = <<>> /\ closed = {}
  /\ owner = [q \in Queues |-> Nobody]
  /\ sub = [q \in Queues |-> Nobody]
  /\ reader = [c \in Conns |-> "absent"]
  /\ writer = [c \in Conns |-> "absent"]
  /\ cmd = [c \in Conns |-> NoCommand]
  /\ send = [c \in Conns |-> <<>>]
  /\ granted = [c \in Conns |-> {}]
  /\ offered = [c \in Conns |-> {}]
  /\ accepted = {} /\ retired = {} /\ issued = {}

\* The process ends, or starts again: the database is all that is left, and
\* every connection it had is gone.
Reset ==
  /\ clients' = {} /\ cached' = {} /\ hub' = <<>> /\ closed' = {}
  /\ owner' = [q \in Queues |-> Nobody]
  /\ sub' = [q \in Queues |-> Nobody]
  /\ reader' = [c \in Conns |-> IF reader[c] = "absent" THEN "absent" ELSE "done"]
  /\ writer' = [c \in Conns |-> IF writer[c] = "absent" THEN "absent" ELSE "done"]
  /\ cmd' = [c \in Conns |-> NoCommand]
  /\ send' = [c \in Conns |-> <<>>]
  /\ granted' = [c \in Conns |-> {}]
  /\ offered' = [c \in Conns |-> {}]
  /\ UNCHANGED <<db, accepted, retired, issued>>

\* A panic in any goroutine kills the process.
Panic(reason) == process' = reason /\ Reset

\* The operator starts it again, after a panic or having killed it.
Restart == process' = "up" /\ Reset

Up   == process = "up"
Idle == Up /\ hub = <<>>

\* serveWS registers the connection with the hub, then starts its pumps.
Connect(c) ==
  /\ Idle /\ reader[c] = "absent"
  /\ clients' = clients \cup {c}
  /\ reader' = [reader EXCEPT ![c] = "reading"]
  /\ writer' = [writer EXCEPT ![c] = "running"]
  /\ UNCHANGED <<db, process, cached, owner, sub, hub, cmd, send, closed, history>>

Pending(type) == {c \in Conns : cmd[c].type = type}

\* Ids a NEW may still draw: random ones are never drawn twice.
FreshQueues == {q \in Queues : ~ QueueExists(db, q) /\ q \notin issued}

\* Bounds: MaxIssued NEWs that may succeed, as long as there are ids, and
\* MaxArrivals SENDs that may be stored.
WithinBounds(k) ==
  /\ k.type = "NEW" =>
       /\ Cardinality(issued) + Cardinality(Pending("NEW")) < MaxIssued
       /\ Cardinality(Pending("NEW")) < Cardinality(FreshQueues)
  /\ k.type = "SEND" =>
       db.arrivals + Cardinality(Pending("SEND")) < MaxArrivals

\* A command arrives: the reader offers it to the hub and waits.  Frames
\* the reader has buffered are read even after the connection is closed.
ReadCommand(c, k) ==
  /\ Up /\ reader[c] = "reading"
  /\ k.type \notin {"PING", "BAD"} /\ WithinBounds(k)
  /\ cmd' = [cmd EXCEPT ![c] = k]
  /\ reader' = [reader EXCEPT ![c] = "routing"]
  /\ UNCHANGED <<db, process, memory, hub, writer, send, closed, history>>

\* PING and frames that do not parse are answered by the reader itself.
AnswerInPlace(c, k) ==
  /\ Up /\ reader[c] = "reading"
  /\ k.type \in {"PING", "BAD"}
  /\ SendEnvelope(c, IF k.type = "PING" THEN Pong ELSE Error)
  /\ UNCHANGED <<db, process, memory, hub, reader, writer, cmd, closed, history>>

\* ReadMessage fails: the peer left, or it was silent for pongWait, or this
\* end closed the connection.
StopReading(c) ==
  /\ Up /\ reader[c] = "reading"
  /\ reader' = [reader EXCEPT ![c] = "leaving"]
  /\ UNCHANGED <<db, process, memory, hub, writer, cmd, send, closed, history>>

\* The write pump takes a frame off the channel and writes it.
WriteFrame(c) ==
  /\ Up /\ writer[c] = "running" /\ send[c] # <<>>
  /\ send' = [send EXCEPT ![c] = Tail(@)]
  /\ UNCHANGED <<db, process, memory, hub, reader, writer, cmd, closed, history>>

StopWriting(c) ==
  /\ Up /\ writer[c] = "running"
  /\ writer' = [writer EXCEPT ![c] = "done"]
  /\ UNCHANGED <<db, process, memory, hub, reader, cmd, send, closed, history>>

\* The channel is closed and drained: say goodbye, close the connection.
SeeClosedChannel(c) == c \in closed /\ send[c] = <<>> /\ StopWriting(c)

\* A write, or the heartbeat, fails or takes longer than writeWait.
FailToWrite(c) == Fails("write") /\ StopWriting(c)

----------------------------------------------------------------------------
(* The hub goroutine: what is left of a handler, statement by statement.   *)

Current(do) == Up /\ hub # <<>> /\ Head(hub).do = do

SendFrame ==
  LET s == Head(hub)
  IN  /\ Current("send")
      /\ hub' = Tail(hub)
      /\ SendEnvelope(s.to, s.frame)
      /\ offered' = IF s.frame.type = "DELIVER"
                    THEN [offered EXCEPT ![s.to] = @ \cup {s.frame.mid}]
                    ELSE offered
      /\ UNCHANGED <<db, process, memory, reader, writer, cmd, closed,
                     granted, accepted, retired, issued>>

TouchSubscribed ==
  /\ Current("touch")
  /\ hub' = Tail(hub)
  /\ db' \in Touched(db, Head(hub).qid)
  /\ UNCHANGED <<process, memory, pumps, history>>

\* The two statements that panic: the hub, or a reader that answers in
\* place, sends to a connection whose channel is closed; an id is too short.
SendOnClosed ==
  /\ \/ Current("send") /\ Head(hub).to \in closed
     \/ /\ Up
        /\ \E c \in closed, k \in Vocabulary :
             reader[c] = "reading" /\ k.type \in {"PING", "BAD"}
  /\ Panic("send on closed channel")

SliceShortId ==
  /\ Current("slice")
  /\ Panic("slice bounds out of range")

----------------------------------------------------------------------------
(* The hub goroutine: register is Connect, then unregister.                *)

\* Mutant: unregister without the check.
AssumedRegistered(c) == c \in Conns

\* The check that keeps a late unregister from closing a second time.
Registered(c) == c \in clients

\* releaseQueue drops the roles of c, and every entry left without roles.
ReleaseQueue(c) ==
  /\ owner' = [q \in Queues |-> IF owner[q] = c THEN Nobody ELSE owner[q]]
  /\ sub' = [q \in Queues |-> IF sub[q] = c THEN Nobody ELSE sub[q]]
  /\ cached' = {q \in cached : owner'[q] # Nobody \/ sub'[q] # Nobody}

Leave(c) ==
  /\ Idle /\ reader[c] = "leaving"
  /\ reader' = [reader EXCEPT ![c] = "done"]
  /\ UNCHANGED <<db, hub, writer, cmd, send, history>>

Unregister(c) ==
  /\ Leave(c) /\ Registered(c)
  /\ clients' = clients \ {c}
  /\ CloseChannels({c})
  /\ ReleaseQueue(c)

\* The connection was kicked before: its late unregister does nothing.
UnregisterLate(c) ==
  /\ Leave(c) /\ ~ Registered(c)
  /\ UNCHANGED <<process, memory, closed>>

----------------------------------------------------------------------------
(* The hub goroutine: the handlers.                                        *)

\* The hub takes the command off the route channel; the reader goes on.
Receive(c, type) ==
  /\ Idle /\ reader[c] = "routing" /\ cmd[c].type = type
  /\ reader' = [reader EXCEPT ![c] = "reading"]
  /\ cmd' = [cmd EXCEPT ![c] = NoCommand]
  /\ UNCHANGED <<writer, send>>

Refuse(c) == hub' = <<Send(c, Error)>>

\* NEW with a queue id, no random id to be had, or a failing INSERT.
RefuseNew(c) ==
  /\ Receive(c, "NEW")
  /\ cmd[c].qid # NoQueue \/ Fails("create")
  /\ Refuse(c)
  /\ UNCHANGED <<db, process, memory, closed, history>>

\* Mutant: the error of CreateQueue is not looked at.
CreatedOrNot(q) == {CreateQueue(db, q), db}

\* What the INSERT leaves when the hub finds no error.
Created(q) == {CreateQueue(db, q)}

HandleNew(c) ==
  /\ Receive(c, "NEW") /\ cmd[c].qid = NoQueue
  /\ \E q \in FreshQueues :
       /\ \E d \in Created(q) : db' \in Touched(d, q)
       /\ cached' = cached \cup {q}
       /\ owner' = [owner EXCEPT ![q] = c]
       /\ sub' = [sub EXCEPT ![q] = Nobody]
       /\ hub' = <<Send(c, NewOk(q))>>
       /\ issued' = issued \cup {q}
  /\ UNCHANGED <<process, clients, closed, granted, offered, accepted, retired>>

\* Is the queue there?  The map answers first, the database only for a
\* queue that is not in it; a queue found there gets an entry in the map.
Known(q) == q \in cached \/ QueueExists(db, q)

Found(q) == q \in Queues /\ Known(q)

NotFound(q) == q \in Queues => q \notin cached /\ (Fails("exists") \/ ~ Known(q))

OwnQueue(c, q) == q \in Queues /\ owner[q] = c

RefuseSub(c) ==
  LET q == cmd[c].qid
  IN  /\ Receive(c, "SUB")
      /\ NotFound(q) \/ OwnQueue(c, q)
      /\ Refuse(c)
      /\ UNCHANGED <<db, process, memory, closed, history>>

\* Mutant: a new subscriber does not kick the former one.
DisplacesNobody(q, c) == {sub[q]} \cap (clients \ {c}) \cap {Nobody}

\* The former subscriber, if any: kick does nothing to a dead connection.
Displaced(q, c) == {sub[q]} \cap (clients \ {c})

\* Mutant: the replay misses the last message.
ReplaysButLast(q, c) ==
  {[i \in 1 .. (Len(rows) - 1) |-> Send(c, Deliver(q, rows[i].mid))] :
     rows \in {u \in Undelivered(db, q) : u # <<>>}} \cup {<<>>}

\* The frames of replayOffline; none when the query fails.
Replays(q, c) ==
  {[i \in DOMAIN rows |-> Send(c, Deliver(q, rows[i].mid))] :
     rows \in Undelivered(db, q)}
    \cup (IF Fails("undelivered") THEN {<<>>} ELSE {})

\* Mutant: the replay comes first, as the comment above the code has it.
ReplayFirst(q, c, replay) == replay \o <<Send(c, SubOk(q))>> \o <<Touch(q)>>

\* SUB_OK, then what is stored; the subscriber is in the map already.
SubProgram(q, c, replay) == <<Send(c, SubOk(q))>> \o replay \o <<Touch(q)>>

HandleSub(c) ==
  LET q == cmd[c].qid
  IN  /\ Receive(c, "SUB")
      /\ Found(q) /\ ~ OwnQueue(c, q)
      /\ clients' = clients \ Displaced(q, c)
      /\ CloseChannels(Displaced(q, c))
      /\ cached' = cached \cup {q}
      /\ sub' = [sub EXCEPT ![q] = c]
      /\ \E replay \in Replays(q, c) : hub' = SubProgram(q, c, replay)
      /\ granted' = [granted EXCEPT ![c] = @ \cup {q}]
      /\ UNCHANGED <<db, owner, offered, accepted, retired, issued>>

RefuseSend(c) ==
  /\ Receive(c, "SEND")
  /\ NotFound(cmd[c].qid)
  /\ Refuse(c)
  /\ UNCHANGED <<db, process, memory, closed, history>>

\* The message id: the client's, or a new one when it left the field out.
MidsFor(k) ==
  IF k.mid # NoMid THEN {k.mid}
  ELSE {m \in Mids : /\ ~ MidStored(db, m) /\ m \notin accepted
                     /\ \A c \in Pending("SEND") : cmd[c].mid # m}

\* The INSERT fails: for a reason of its own, or because of the primary key.
RefuseSave(c) ==
  LET q == cmd[c].qid
  IN  /\ Receive(c, "SEND") /\ Found(q)
      /\ \E m \in MidsFor(cmd[c]) : Fails("save") \/ ~ CanSave(db, m, q, TRUE)
      /\ cached' = cached \cup {q}
      /\ Refuse(c)
      /\ UNCHANGED <<db, process, clients, owner, sub, closed, history>>

\* Mutant: a message delivered on line is not stored.
SavedIfOffline(m, q) ==
  IF sub[q] = Nobody THEN SaveMessage(db, m, q)
  ELSE [db EXCEPT !.arrivals = @ + 1]

\* What is stored of a message before its SEND is acknowledged.
Saved(m, q) == SaveMessage(db, m, q)

\* Mutant: the roles are confused.
OwnerReceives(q) == IF owner[q] = Nobody THEN <<>> ELSE <<owner[q]>>

\* Who gets a message that has just been saved.
Recipients(q) == IF sub[q] = Nobody THEN <<>> ELSE <<sub[q]>>

HandleSend(c) ==
  LET q == cmd[c].qid
  IN  /\ Receive(c, "SEND") /\ Found(q)
      /\ \E m \in MidsFor(cmd[c]) :
           /\ CanSave(db, m, q, TRUE)
           /\ db' \in Touched(Saved(m, q), q)
           /\ hub' = [i \in DOMAIN Recipients(q) |->
                        Send(Recipients(q)[i], Deliver(q, m))]
                     \o Abbreviate(m) \o <<Send(c, Ack(q, m))>>
           /\ offered' = [x \in Conns |-> offered[x] \ {m}]
           /\ accepted' = accepted \cup {m}
           /\ retired' = retired \ {m}
      /\ cached' = cached \cup {q}
      /\ UNCHANGED <<process, clients, owner, sub, closed, granted, issued>>

\* An ACK deletes the message, whoever sends it; both ids go to the log.
HandleAck(c) ==
  LET k == cmd[c]
  IN  /\ Receive(c, "ACK")
      /\ \E done \in {TRUE} \cup (IF Fails("delete") THEN {FALSE} ELSE {}) :
           /\ db' = IF done THEN DeleteMessage(db, k.mid) ELSE db
           /\ retired' = IF done /\ MidStored(db, k.mid)
                         THEN retired \cup {k.mid} ELSE retired
      /\ hub' = Abbreviate(k.qid) \o Abbreviate(k.mid)
      /\ UNCHANGED <<process, memory, closed, granted, offered, accepted, issued>>

HandleOther(c) ==
  /\ Receive(c, "OTHER")
  /\ Refuse(c)
  /\ UNCHANGED <<db, process, memory, closed, history>>

----------------------------------------------------------------------------
(* The specification. *)

Handle(c) ==
  \/ RefuseNew(c) \/ HandleNew(c)
  \/ RefuseSub(c) \/ HandleSub(c)
  \/ RefuseSend(c) \/ RefuseSave(c) \/ HandleSend(c)
  \/ HandleAck(c) \/ HandleOther(c)

HubStep == SendFrame \/ TouchSubscribed \/ SendOnClosed \/ SliceShortId

Depart(c) == Unregister(c) \/ UnregisterLate(c)

PumpStep(c) ==
  \/ \E k \in Vocabulary : ReadCommand(c, k) \/ AnswerInPlace(c, k)
  \/ StopReading(c)
  \/ WriteFrame(c) \/ SeeClosedChannel(c) \/ FailToWrite(c)

Next ==
  \/ Restart
  \/ HubStep
  \/ \E c \in Conns : Connect(c) \/ PumpStep(c) \/ Handle(c) \/ Depart(c)

Spec == Init /\ [][Next]_vars

----------------------------------------------------------------------------
(* Fairness.  A goroutine that can run does, so the hub finishes a handler *)
(* and a write pump deals with what is in its channel: a write ends, well  *)
(* or badly, within writeWait.  The hub's select picks among ready         *)
(* channels at random and a channel serves its senders in order, so no     *)
(* reader that waits is passed over for ever.  Once the write pump has     *)
(* closed the connection, the frames the reader has buffered run out.      *)
(* Nothing is assumed of the peers, nor that the process is restarted.     *)

Fairness ==
  /\ WF_vars(HubStep)
  /\ \A c \in Conns :
       /\ SF_vars(Handle(c)) /\ SF_vars(Depart(c))
       /\ WF_vars(WriteFrame(c) \/ SeeClosedChannel(c))
       /\ SF_vars(writer[c] = "done" /\ StopReading(c))

FairSpec == Spec /\ Fairness

----------------------------------------------------------------------------
(* Properties. *)

\* The types of the variables; a queue without an entry has no roles.
TypeOK ==
  /\ db \in Database
  /\ process \in {"up", "send on closed channel", "close of closed channel",
                  "slice bounds out of range"}
  /\ clients \subseteq Conns /\ cached \subseteq Queues /\ closed \subseteq Conns
  /\ owner \in [Queues -> Conns \cup {Nobody}]
  /\ sub \in [Queues -> Conns \cup {Nobody}]
  /\ \A q \in Queues \ cached : owner[q] = Nobody /\ sub[q] = Nobody
  /\ hub \in Seq(Statement)
  /\ reader \in [Conns -> {"absent", "reading", "routing", "leaving", "done"}]
  /\ writer \in [Conns -> {"absent", "running", "done"}]
  /\ cmd \in [Conns -> Command \cup {NoCommand}]
  /\ send \in [Conns -> Seq(Frame)]
  /\ \A c \in Conns : Len(send[c]) <= SendCap
  /\ granted \in [Conns -> SUBSET Queues]
  /\ offered \in [Conns -> SUBSET Mids]
  /\ accepted \subseteq Mids /\ retired \subseteq Mids /\ issued \subseteq Queues

\* A send channel is closed once, although both a kick and the unregister
\* that the kick provokes would close it (hub.go:60, hub.go:287).
NeverClosesTwice == process # "close of closed channel"

\* A connection that is alive and was told SUB_OK for a queue still is the
\* queue's subscriber: whoever takes the queue over has kicked it.
GrantedIsSubscriber ==
  \A c \in clients : \A q \in granted[c] : sub[q] = c

\* The map is a cache of the database: it has no entry for a queue the
\* database does not have, and neither NEW_OK nor a restart loses a queue.
CacheIsBacked == \A q \in cached \cup issued : QueueExists(db, q)

\* A SEND is acknowledged only once its message is stored, and it stays
\* stored until somebody ACKs it, whatever is kicked, lost or restarted.
AckedIsDurable ==
  \A m \in accepted : MidStored(db, m) \/ m \in retired

\* Between two requests the live subscriber of a queue has been offered
\* every message stored for it: when it subscribed, or when it was sent.
NothingStranded ==
  Idle => \A row \in db.messages :
            sub[row.qid] \in clients => row.mid \in offered[sub[row.qid]]

\* A message is put only into the channel of the queue's subscriber.
OnlySubscriberReceives ==
  [][\A c \in Conns : \A q \in Queues : \A m \in Mids :
       send'[c] = Append(send[c], Deliver(q, m)) => sub[q] = c]_vars

\* A reader that offers a command gets it taken, whatever other peers do:
\* the hub never waits for a peer that does not read.
HubNeverBlocks ==
  \A c \in Conns : reader[c] = "routing" ~> ~ Up \/ reader[c] # "routing"

\* Closing the channel is enough to end a connection: once the hub has
\* dropped it, both of its pumps stop (the chain in hub.go:287-291).
DroppedConnectionsEnd ==
  \A c \in Conns :
    reader[c] # "absent" /\ c \notin clients
      ~> ~ Up \/ (reader[c] = "done" /\ writer[c] = "done")

----------------------------------------------------------------------------
(* What the repository says and the code does not do. *)

\* "no lock, no race, the channel ownership rules see to it" (hub.go:291).
NeverSendsOnClosed == process # "send on closed channel"

\* The roles of a connection that is gone are released (readme.md:212, 220).
NoDanglingRoles ==
  \A c \in Conns, q \in Queues :
    reader[c] = "done" => owner[q] # c /\ sub[q] # c

=============================================================================
