# A verification development for knock

knock is a chat for the terminal. A **relay** (`src/server`) keeps one-way queues in
SQLite and passes messages over WebSockets; a **client** (`src/client`) creates one queue
per relay (its outbox), hands out its id in an invite link, sends into its own queue and
subscribes to its peer's. This directory holds TLA+ modules translated from that code, the
TLC configurations that check them on small instances, and theorems checked by TLAPS.

## Inventory

| Component | State | Operations | Correct when |
|---|---|---|---|
| Relay hub, `server/hub.go` | `clients`; `queues` (owner, sub per queue) | register, unregister; NEW, SUB, SEND, ACK, other; kick, releaseQueue, replayOffline | a queue has one live subscriber; roles end with their connection; an acknowledged message is stored; a live subscriber is offered everything stored for it; the hub never waits for a peer |
| Relay connection, `server/client.go` | the send channel (16), the two pumps | serveWS, readPump, writePump, SendEnvelope, Close | the channel is closed once and never sent on afterwards; both pumps end after either end leaves |
| Relay database, `server/store.go` | tables `queues`, `messages` | Create, Exists, Touch, Save, Undelivered, Delete, Sweep | outlives the process; a sweep takes only what nobody used for the time to live |
| Relay process, `server/main.go` | the sweeper goroutine | start, sweep once an hour | state in memory is rebuilt from the database |
| Wire protocol, `protocol/envelope.go`, `payloads.go` | none | decode, validate, random ids | every frame the format allows is handled |
| Chat session, `client/session.go`, `pumps.go` | socket, send channel (16), `seen`, contact | start-up (NEW or reuse, SUB), downlink, uplink, keyboard loop, ACK | messages are shown in order, once per run, and acknowledged only then; a lost connection is noticed |
| State file, `client/state.go` | outbox per host, contacts | load, save, remember, find | two processes do not undo each other's changes |
| Invite links, `protocol/invite.go` | none | String, ParseInvite | what is printed can be read back |
| Identity, `identity/identity.go` | key file | load or create | one identity per user, also when two first runs meet |
| Cryptography, `crypto/crypto.go` | none | DH, HKDF, AEAD, fingerprint | both ends derive matching keys; not used by the chat yet |

The goroutines of the relay are the hub (one), two pumps per connection, and the sweeper.
Readers hand requests to the hub over three unbuffered channels (`register`, `unregister`,
`route`); the hub answers through each connection's buffered send channel; closing that
channel tells the write pump to stop, which closes the socket, which stops the read pump,
which unregisters. The database is shared by the hub and the sweeper. Clients meet the
relay only through the socket.

What is hard here:

- *interleavings*: a connection can be kicked while its own commands wait at the hub, and
  its unregister always arrives late; the write pumps drain channels while a handler sends;
- *failure*: SQL statements fail one by one, the process dies between any two statements,
  peers vanish or stop reading;
- *bounds*: full channels drop frames silently; ids may be shorter than the log lines assume;
- *time*: the sweeper's three statements run beside the hub, on caches that do not know;
- *composition*: a message is safe only if the relay deletes it no earlier than the other
  user has seen it, through two pumps, two channels, the network and restarts of both ends.

`PROJECT.json` lists all of these hazards at the lines where they bite.

## Modules

| Module | Models | Its relation to the code |
|---|---|---|
| `Store` | `server/store.go` | Both tables as one value; each operator is one SQL statement. `last_active` is an age: `absent` (no row), `never` (the default 0), `fresh`, `stale`. |
| `Hub` | `server/hub.go`, `client.go`, the process | A state machine for arbitrary clients; EXTENDS `Store`. |
| `Retention` | `server/main.go`, `Store.Sweep`, the database side of `hub.go` | A state machine with single SQL statements as steps; EXTENDS `Store`. |
| `ClientState` | `client/state.go`, start-up in `client/session.go` | A state machine: several processes, one file. |
| `Chat` | `client/session.go`, `client/pumps.go`, the network | A state machine that EXTENDS `Hub`: every step of a chat is a step of the hub, of a client, or of both. |
| `Mailbox` | what the system promises | The abstract specification that `Chat` implements. |
| `Introductions` | `identity/identity.go`, `protocol/invite.go`, `client/main.go`, `DeriveKey` | A state machine: identity files, links, keys. |
| `StoreProofs`, `HubProofs`, `RetentionProofs`, `ClientStateProofs`, `IntroductionsProofs` | - | Lemmas about `Store`; theorems about the state machines. |
| `ChatProofs`, `ChatOrderProofs`, `ChatDeliveryProofs` | - | Theorems about chats, each module on top of the one before it: types and refinements; sequences, and the way of a frame to a client; order and completeness in both directions. |
| `MCHub`, `MCRetention`, `MCClientState`, `MCChat`, `MCIntroductions` | - | Vocabularies, users, links and symmetry for TLC. |

### Hub

`clients`, and `cached`, `owner`, `sub` (the keys and the two fields of the map `queues`)
are the fields of `Hub`; `send` and `closed` are the send channels; `reader`, `writer` and
`cmd` say where the pumps are and which command a reader offers. A connection is used once:
a client that reconnects is another connection.

*Granularity.* Nobody but the hub goroutine touches its maps, and in this module nobody
else touches the database, so a handler changes them in one step (`HandleNew`, `HandleSub`,
`HandleSend`, `HandleAck`, and the refusals `RefuseNew`, `RefuseSub`, `RefuseSend`,
`RefuseSave`, `HandleOther`). What a handler *sends* is not atomic, because the write
pumps empty the channels meanwhile and a frame is dropped exactly when its channel is full
at that moment. So each handler leaves a short program in `hub`, a sequence of the
statements still to run (send a frame, touch the queue, cut an id for a log line), and
the hub takes its next request only when that program has been run. `kick`, `releaseQueue`
and `replayOffline` are part of the handler that calls them.

*The pumps.* `ReadCommand` covers what the reader routes, `AnswerInPlace` what it answers
itself (PING, frames that do not parse), `StopReading` every way in which `ReadMessage`
can fail, `WriteFrame`, `FailToWrite` and `SeeClosedChannel` the write pump. Frames already buffered in the socket
are read even after the other end, or a kick, has closed the connection, so a reader may
go on reading until it stops.

*Panics.* A send on a closed channel, a second close and `id[:8]` of a short id end the
process (`Panic`). `Restart` starts it again, or kills and starts it: only `db` survives.

*Failures.* `Faulty` names what may fail. A refused NEW, SUB or SEND is its own action;
`TouchQueue`, whose error nobody reads, may silently do nothing; a failing `DeleteMessage`
is only logged.

*History.* `granted`, `offered`, `accepted`, `retired` and `issued` are written and never
read by the code's actions, with one exception: fresh random ids are chosen outside
`issued` and `accepted`, because 128 random bits do not repeat.

*Not in Hub.* The sweeper (module `Retention`) and the passing of time, so that no row becomes `stale`; payloads; the
goroutine start order in `serveWS` (register returns before the pumps start, so no order
is lost); deadlines, except as failures that may happen.

### Retention

`Hub` may treat a handler's work on the database as one step because there nobody else uses
the database. The sweeper does, so `Retention` looks at the same handlers with a finer
grain and a narrower view: each SQL statement of the hub (`Create`, `Lookup`, `Save`,
`TouchAndAnswer`, `Acknowledge`) and of the sweeper (`StartSweep`, `SweepMessages`,
`SweepQueues`) is a step, and of the hub's memory only the keys of its map remain
(`cached`), an entry going when its last role may have gone (`Release`). `job` is the
handler the hub is in and the statement it is about to run; `sweep` the sweeper's next
statement with its cutoff, held as the set of queues that were past it when the clock was
read. `SweepQueues` evaluates its condition again, as the SQL does, so a queue touched in
between is spared. `Expire` lets a time to live run out at any moment; what cannot happen
is that a queue expires twice within one sweep, which takes seconds where the time to live
is a week.

`database/sql` opens a second connection when two statements overlap (`Overlap`), and
`Open` has switched `foreign_keys` on for the first one only. `pool` is the set of settings
a statement may meet; with both, every INSERT and DELETE may or may not be held to the
REFERENCES clause. A command that the lookup refuses, a failing `CreateQueue` and the query
of a SUB change nothing and are stuttering steps.

### ClientState

One identity, one file, several processes. `loadState` and the rename in `saveState` are
atomic; the NEW, the user and other processes come between them, so each process has its
`copy` of the file, and `base` remembers what it was made from. The steps follow `runChat`:
`Dial`, then `UseQueue` (`-queue`), `Reuse` or `AskForQueue` and `ReceiveQueue`,
`KeepQueue`, `PrintInvite`, `ChooseContact` or `PasteLink`, `Subscribe`, `EnterContact`;
`End` stands for every error return, `/quit` and a kill, at any point. Relays are sets of
queues that stay. A peer's queue id is found only on the relay of the peer's link; a link
may be broken. `-queue` is used with an id that was once printed for that relay. Every load
succeeds: a damaged file, which `loadState` takes for an empty one, is not modelled.

### Chat

A connection of `Hub` is here one run of the client program, from `Dial` to `End`; a user
who comes back starts another one. `up[c]` and `down[c]` are what is in flight in either
direction: `Arrive` takes a frame off `up` and is the hub's `ReadCommand`; `Emit` is its
`WriteFrame` and puts the frame on `down`. The streams keep the order and lose nothing
until the connection is in `broken`: by `Cut` (the network, a deadline, a heartbeat that
fails), because either end has closed it, or because the relay's process is gone. From then
on each end finds out when it likes, and still reads what had arrived.

| In the code | In `Chat` |
|---|---|
| `request` for SUB: write, then read until SUB_OK, ERROR or 5 s | `Ask`, `Answered` (also skips a frame it does not wait for), `Refused`, `GiveUp` |
| `readPump` | `listener`: `Read` prints and remembers in `screen` (which is `seen` too), `Acknowledge` waits for room in `out`, `Notice` is the closing notice |
| `writePump` | `speaker`: `Transmit`, `FailToTransmit` |
| `stdinLoop` | `Type`, `Quit` |
| `Session.send` | `out`, with `ClientCap` places |
| the process's end, which takes its channels with it | `End` |

A line that finds no room is dropped with a notice and is never `typed`: a stuttering step.
Heartbeats and log lines are left out, and ERROR frames are read and skipped. `GiveUp`
stands for the timeout, for a connection that broke and for ^C. The frames a client sends
are those of its outbox and of its peer's link: `Vocabulary` of `Hub` is instantiated with
them. `typed` and `arrived` are history.

`Mailbox` has three variables, what was posted, what is stored, and what each user has
been shown, and three actions: `Post`, `Show`, `Retire`. The refinement mapping takes the
hub's `accepted`, the rows of its database, and the screens of all of a user's runs. It
allows a message to be shown in more than one run and to be kept although it was shown,
because a receipt may be lost and the code then delivers again.

### Introductions

Both commands of the client begin with the same steps: `LoadKey`, or `MissKey` and
`CreateKey` (`LoadOrCreate` looks for the file and writes it in two steps, with a rename
that replaces whatever is there); then the link on the command line (`TakeLink`, if
`Accepts` it), `DialRelay` at the address of that link or at the given one after
`ParseAddr`, `PrintInvite`, and a link that is pasted. A link is the pair of its contents
and of what its checksum was computed from; `Copies` are the links that may come out when
one part is copied wrongly. Ports are numbers, because their bounds are checked in two
places. A key pair is one value; `DeriveKey` is a function of the unordered pair of keys and
of the direction, which is what X25519 followed by HKDF promises.

## Runs

The `hub_*` runs check `MCHub`, `retention` checks `MCRetention`, the `client_*` runs
`MCClientState`, the `chat*` runs `MCChat`, the last two `MCIntroductions`; connections,
queues, messages, relays, users and keys are model values.

| Run | Instance | Shows |
|---|---|---|
| `hub_messages` | 2 connections, 1 queue, 2 messages, every command and refusal, five failing statements, restarts | `TypeOK`, `AckedIsDurable`, `NothingStranded`, `NeverClosesTwice`, `GrantedIsSubscriber`, `CacheIsBacked`, `OnlySubscriberReceives` |
| `hub_live` | 2 connections, 1 queue, 1 message, failing writes, fairness | `HubNeverBlocks`, `DroppedConnectionsEnd` |
| `hub_panic` | 2 connections | a counterexample to `NeverSendsOnClosed` |
| `hub_dangling` | 3 connections, 2 queues | a counterexample to `NoDanglingRoles` |
| `retention` | 2 queues, 2 messages, failing INSERT and sweep statements, restarts, fairness | `ReferentialIntegrity`, `GivenQueuesCanExpire`, `SweepSparesActive`, `ExpiredQueuesGo` |
| `client_state` | 2 processes, 2 relays on 2 hosts, 3 links (one broken), 2 queues to create | `ContactsAnswered`, `InvitesLive`, `OutboxOvertaken` |
| `client_relay` | 1 process, same relays and links | a counterexample to `PeersRelayIsUsed` |
| `chat` | Alice and Bob, one run each, 2 messages one way and 1 the other, Bob's connection may break | `ChatTypeOK`, `StreamInOrder`, `StartupSkipsNothing`, `LinesKeepOrder` |
| `chat_again` | one run of Alice, two of Bob, 1 message, restarts | `NothingMissed`, `IsMailbox` |
| `chat_live` | one run each, 1 message each way, fairness | `ShownAtLast`, `ReceiptsArrive`, `LossNoticed` |
| `introductions` | two runs of Alice and one of Bob, each again and again; 3 keys, ports 0, 65535 and 65536 | `IntroTypeOK`, `AcceptedWasPrinted`, `ReadsBackUnlessTunnel`, `KeysAgree` |
| `invite_tunnel` | same | a counterexample to `PrintedLinksAreAccepted` |

*Why the bounds are enough.* In `hub_messages` two connections are a sender and a subscriber
that displace each other. A database with a queue of former days gives the revived entries,
and restarts give them again. Two messages make a repeated id, an order, and a replay longer
than the channel; one place in the channel (`SendCap = 1`; the code has 16) makes every send
a possible drop. `hub_dangling` has a third connection and a second queue, so that a
connection can hold a role elsewhere when it is kicked. `MaxIssued` bounds the NEWs that
succeed and `MaxArrivals` the messages ever stored; both are guards of `ReadCommand`, and no
other counter grows. `hub_panic` shows its panic with one place as well: the capacity plays
no part in it.

The sweeper treats every queue alike; two are needed because its DELETEs are all or
nothing, so that a message of one queue saves the other. Two messages give a queue that is
emptied by the first statement and refilled before the second. `MaxArrivals` bounds the
messages, and `issued` keeps an id from being drawn twice.

Two processes make every overtaken save; a process that ended starts again, so that what
was remembered is used. Two hosts let one key be taken for the other.

The chats are split by what the properties compare. Order needs two messages of one author
that pass two channels, with a third one coming the other way so that lines and receipts
share a channel: `chat`. Losses and repetitions need a second run of the reader, but only
one message: `chat_again`. There connections break because the relay restarts, a run ends or
a second run displaces the first. One place in the client's channel (`ClientCap = 1`; the code has
16) and one frame in flight (`NetCap = 1`) make every wait happen. In `chat` the relay's channel (`SendCap = 2`) is shorter than a
backlog with its SUB_OK, so that frames are dropped; in the other two it has room for all
frames that can meet in it, because `NothingMissed` and `ShownAtLast` are false of a relay
that drops: it offers a dropped message again, but only at the next SUB. `Breakable`
bounds the connections the network may break. No queue is created in these runs
(`MaxIssued = 0`): the database is of former days and has any of the two queues, so that a
SUB and a SEND are refused as well.

In `introductions` two runs of one user overtake each other at the identity file, with a
key for each and one for the other user. The ports are the sentinel, the last port, and one
beyond; `MaxPrinted` bounds the links. One host is enough there: `Copies` replaces a host
as it does a queue, of which there are two.

*What the properties mean.* `AckedIsDurable` is the relay's promise: once ACKed, a message
is stored until somebody ACKs it. `NothingStranded` says that replay and on-line delivery
leave no gap between them; a frame counts as offered even when the channel was full, for
the code leaves that message to the next SUB, and the run does not let the replay query
fail, since the code then answers SUB_OK and replays nothing. `GrantedIsSubscriber` is
mutual exclusion of subscribers under take-over, for connections that are still registered.

`IsMailbox` is the promise of the whole. What is hard about it is `Retire`: the receipt
that deletes a message has gone through `out`, `up` and the hub, perhaps after its run had
ended and another one, or another relay process, had begun; and still what it deletes was on
its user's screen. `StreamInOrder` and `NothingMissed` say what happens on a working
connection: the replay and the messages accepted meanwhile neither overtake each other nor
leave one out, although two pumps, a channel and the network lie between the database and
the screen. `StartupSkipsNothing` is why the start-up may skip frames:
the hub sends SUB_OK before it replays, and subscribes only then. `LinesKeepOrder` accounts
for every line that found room. `LossNoticed` excludes one case by name, `Stuck`: a listener
that waits to acknowledge in a channel whose writer has ended waits for ever, and the
closing notice does not appear until the user presses a key.

`KeysAgree` has one exception by name as well: two first runs that both found no identity
file. Then the one whose file is overwritten goes on with keys that are nowhere on disk,
and the links it prints lead its peers to the wrong key. `ReadsBackUnlessTunnel` says that
port 0 is the only thing `String` prints and `ParseInvite` refuses.

`OutboxOvertaken` says exactly how an outbox can be lost: nobody's own queue is replaced
except by `-queue` or by a process whose copy was overtaken by another save. That the
latter does happen is a hazard of the code, not excluded by it: then a printed invite
leads to a queue nobody sends into any more.

*Fairness* (`FairSpec`). Go runs every goroutine that can run: `WF` of the hub's next
statement and of the write pump, whose write ends within `writeWait`. `SF` of each
connection's requests: `select` chooses among ready channels at random, and the senders
waiting on one channel are served in order. `SF` of the reader's stop once the writer is
done: the write pump closes the socket, and the frames still buffered are finite. Nothing
is assumed of peers, who may send, stop reading or vanish as they like, nor of restarts:
the liveness properties are about a process that stays up.

In `Retention`: `WF` of the sweeper, since the ticker goes on; `SF` of its two statements,
since `SQLITE_BUSY` does not recur for ever and restarts leave room for a sweep now and
then. The hub owes nothing: `ExpiredQueuesGo` holds whether or not clients come back. A
message saved between the two statements makes the second fail, so with messages arriving
for ever in ever new expired queues a sweep could be put off for ever; `MaxArrivals`
excludes that, and a queue that receives is touched.

In `Chat` (`ChatFairness`): the same for the hub and the relay's pumps; `WF` of a network
that carries what it has accepted as long as it works, and of the client's goroutines that
can go on. A write to a broken connection fails in the end (`writeWait`, the heartbeat), and
so does a read (`pongWait`). `SF` of `Acknowledge`: it waits in a channel send while
`stdinLoop` may fill the place that came free, but Go hands a free place to the sender that
waits. Nobody has to type, to quit, to choose a contact or to come back, and a message is
promised to be shown only to somebody who chats over a connection that keeps working.

## Findings

1. **A kick can kill the relay** (`hub_panic`). A connection offers a command to the hub;
   the hub serves another one's SUB first and kicks the former, closing its channel; then
   it serves the waiting command and answers on that channel. Go panics on a send on a
   closed channel. `server/hub.go:291` says that no race is possible here.
2. **Roles dangle** (`hub_dangling`). `kick` removes the connection from `clients` without
   `releaseQueue`, and the unregister that follows is skipped because the connection is no
   longer there. Its roles in *other* queues stay until the process ends, against
   `readme.md:212` and `readme.md:220`. A SEND to such a queue sends on a closed channel.
3. **A contact is looked for on the wrong relay** (`client_relay`). Without a link on the
   command line the client dials first and asks afterwards; the chosen contact's host is
   shown but not dialed. `session.go:235` and `readme.md:316` promise otherwise.
4. **A tunnel's link cannot be accepted** (`invite_tunnel`). An address without a port
   becomes port 0, which `buildWSURL` takes for wss and `Invite.String` prints; `ParseInvite`
   refuses ports below 1. `readme.md:107` describes exactly this use, and `readme.md:168`
   asks for one meaning of the sentinel.

What else the models contain, without a run of its own: an ACK with ids shorter than 8 bytes
panics the relay in a log line (`SliceShortId` in `Hub`; the Go client sends none); a
message saved in an expired queue just before a sweep's first DELETE is swept, although the
touch that follows its save keeps the queue, and the map knows a swept queue while somebody
holds a role in it (`Retention`); an outbox is lost when two processes save over each other
(`ClientState`); a listener can get stuck (`Chat`) and an identity be overwritten
(`Introductions`), as said above.

## Proofs

`HubProofs` proves, for every set of connections, queues and messages, every capacity and
every vocabulary that satisfy `HubAssumption`, and whatever statements fail:

| Theorem | Property | Inductive invariant |
|---|---|---|
| `TypeCorrect` | `TypeOK` | `Typed`: `TypeOK`, and the stored rows are finitely many |
| `ClosesOnce` | `NeverClosesTwice` | `Exclusive` |
| `SubscriptionExclusive` | `GrantedIsSubscriber` | `Exclusive` |
| `CacheCorrect` | `CacheIsBacked` | itself, given `Typed` |
| `AckedMessagesSurvive` | `AckedIsDurable` | itself, given `Typed` |
| `NothingIsStranded` | `NothingStranded`, given that the replay query does not fail | `Pledged`, given `Typed` and `Exclusive` |
| `MessagesReachSubscribersOnly` | `OnlySubscriberReceives` | `Addressed`: every DELIVER among the statements still to run is for the subscriber of its queue |

`RetentionProofs` does the same for any number of queues and messages and any interleaving
of the sweeper with the hub:

| Theorem | Property | Inductive invariant |
|---|---|---|
| `RetentionTypeCorrect` | `TypeOK` | itself |
| `NoOrphans` | `ReferentialIntegrity` | `Integrity`: also, while no second connection was opened the pool is the one `Open` left |
| `ActiveQueuesSpared` | `SweepSparesActive` | `TypeOK` |
| `NoImmortalQueue` | `GivenQueuesCanExpire` | itself, given that `TouchQueue` does not fail |

`ClientStateProofs`, for any number of processes, relays, hosts, queues and links:

| Theorem | Property | Inductive invariant |
|---|---|---|
| `StateTypeCorrect` | `TypeOK` | itself |
| `OnlyGoodContacts` | `ContactsAnswered` | `Contacts`: the same for every copy, and a peer's queue id is on no other relay |
| `PrintedInvitesLive` | `InvitesLive`, for one relay per host | `Outboxes`: what file and copies remember for a host is a queue of the relay there |
| `OutboxLostOnlyWhenOvertaken` | `OutboxOvertaken` | `Copies`: a copy about to be saved differs from what it was made from only as its process had to change it |

`ChatProofs`, for any number of users, runs, messages and capacities, whatever breaks or
fails:

| Theorem | Establishes | Inductive invariant |
|---|---|---|
| `ChatTypeCorrect` | `ChatTypeOK` | `ChatInv` |
| `ChatImplementsHub` | `ChatSpec => Spec`: whatever is a theorem of `Hub` holds of chats | `ChatInv` |
| `ChatImplementsMailbox` | `IsMailbox` | `ChatInv` |
| `NothingIsLost` | an accepted message is stored or was shown (`KeptUntilShown` of `Mailbox`) | the refinement |

`ChatOrderProofs` and `ChatDeliveryProofs`, in the same generality:

| Theorem | Property | Inductive invariant |
|---|---|---|
| `NoMessageBeforeSubOk` | `StartupSkipsNothing` | `Starts`, `GrantsFirst` |
| `LinesArriveInOrder` | `LinesKeepOrder`, given that look-up and INSERT do not fail | `LineInv`, `LinesKept` |
| `MessagesArriveInOrder` | `StreamInOrder` | `ArrivalOrder`, `Streams` |
| `NothingTwice` | no message is accepted twice, or comes twice on one connection | `LineInv` |
| `NothingIsMissed` | `NothingMissed`, given that the replay query does not fail, while no frame is dropped | `GrantKnown`, `AllReach` |

`IntroductionsProofs`, for any number of users, runs, hosts, ports, queues and keys:

| Theorem | Property | Inductive invariant |
|---|---|---|
| `IntroTypeCorrect` | `IntroTypeOK` | `Shaped` |
| `NoSlipAccepted` | `AcceptedWasPrinted` | `Shaped` |
| `OnlyTunnelsRefused` | `ReadsBackUnlessTunnel` | `Shaped` |
| `BothEndsAgree` | `KeysAgree` | `Keyed` |

The argument. In `Hub`, `Typed` needs finiteness because a replay is a sequence over the rows of a
queue: only of a finite set of rows is there such a sequence and a length. `NeverClosesTwice` and `GrantedIsSubscriber` are not
inductive. A channel is closed in two places, the kick and the unregister, and both look
at `clients`; what makes that check sufficient is that a registered connection's channel
is always open (`clients \cap closed = {}`). `GrantedIsSubscriber` needs that whoever is
overwritten in `sub` was removed from `clients` in the same step. `Exclusive` is the
conjunction of these facts. `CacheIsBacked` and `AckedIsDurable` are preserved by every
action alone, given types: lemmas about the operators of `Store` say which rows an
INSERT, UPDATE or DELETE keeps. `ReferentialIntegrity` needs to know what the pool
is: the INSERT checks the reference because the only connection enforces it, and for the
same reason the DELETE of the queues fails when one is still referred to.

`NothingStranded` speaks about the moments in which the hub is between requests, and is
preserved by no handler. `Pledged` says it of every moment: a message stored for a live
subscriber was offered, or a DELIVER of it is among the statements the hub has yet to run.
When SUB is handled the replay has to be complete, which is a fact about cardinalities
(`AnswerIsComplete`): as many rows as there are, all different, are all of them. The rest is
that a subscriber cannot change without a SUB, for which `Exclusive` is needed.

`ChatInv` says where everything is. `Rows`: what is stored was accepted and stands in its
author's outbox. `Subscribers`: a queue's subscriber is a run of its reader. `Frames`: every
DELIVER that the hub, a send channel or the network holds for a run is an accepted
message for that run's user. `Orders`: what a run has on its way to the hub is its own, a
SEND of its author, or a receipt of a message that *is on the screen*. `Screens`: a run's
screen has only its user's messages, and whoever is about to acknowledge has something to
acknowledge. Then a receipt that deletes a row is a step `Retire`: its run's screen has the
message, and screens only grow. A hub step posts or retires at most one message, a client
step shows at most one; all others stutter (`[MailNext]_mailVars`), and `NothingIsLost`
follows from the refinement.

The way of a frame to a client, `OnTheWay`, is what stands in the network, then in the
relay's channel, then in the hub's program. `WaySteps` says all that can happen to it: most
steps move a frame from one of the three to the next, which changes nothing; the client
takes the first frame; an end, a closing notice, a restart or a full channel loses some;
and a handler adds what it sends behind all the rest, because the hub takes a request only
when it has run its last program. Everything else is stated about this sequence.

`NoMessageBeforeSubOk` rests on how runs begin. `Starts`: until its SUB is handled a run has
nothing but that SUB on its way, and no queue; so the handler of the SUB finds the way to
it empty, and SUB_OK comes first on it (`GrantsFirst`).

`StreamInOrder` is that the screen followed by the messages on the way is sorted by
acceptance (`Streams`). A loss leaves a sorted sequence sorted. What is added has to be
later than all that was there: a message that was just accepted is the last of all
(`NewIsLast`, which needs that no line is accepted twice, hence `LineInv`), and a replay,
which is sorted because the rows are (`ArrivalOrder`), is added to an empty stream. With
the same two facts nothing comes twice.

A line is accepted, or in one of three places on its way to that: the reader, the stream,
the client's channel. `Ordered` (part of `LineInv`) says that the four in a row do not
contradict the order of typing, `OnlyTyped` and `TypedOnce` that nothing else is in them,
`LinesKept` that on a working connection to a relay that has the queue nothing leaves them.
`LinesArriveInOrder` assumes that two statements of the database do not fail: a SEND that
the hub refuses with ERROR is not sent again by the client, so that the line is gone
(`readPump` only prints the
error). The runs of `Chat` do not let them fail either.

`NothingMissed` is `AllReach` for every registered connection that was granted its queue:
the replay brings what is stored (`SubPromises`), a message that is stored later is sent to
the subscriber, which by `Exclusive` this connection still is (`SendPromises`); and what is
on the way reaches the screen, for the start-up takes SUB_OK off it and no message
(`GrantsFirst`). `GrantKnown` ties what the client knows to what the relay granted. The
theorem is `ChatSpec /\ []NoDrops => []NothingMissed`: a frame is dropped when the channel
is full at the moment it is sent (`Drops`). Whether that happens depends on the speed of the
write pump, and no capacity excludes it, for acknowledgements fill the channel as well, so
`NoDrops` is a hypothesis about the behaviour. In `chat_again` it holds of every state.

`OutboxOvertaken` looks at the step that saves: the file it replaces is the one the copy was
made from, or another save came between; in the first case `Copies` says what may differ.

`Shaped` says what a run holds at each of its stages and that checksums belong to what was
printed: the checksum of a wrong copy is that of the original, so it fits only if the copy
is not wrong. `Keyed` says that the key of a user is one: before anybody has created the
file nothing has a key of his, and if only one run has created it, all runs and links have
the key in the file.

The assumptions are the named ones, `HubAssumption`, `RetentionAssumption`,
`ClientStateAssumption`, `ChatAssumption` and `IntroductionsAssumption`: special values are
outside their sets, the set of message ids is finite, capacities are positive, a peer's queue
stands on the relay its links name, chats are between two people, each with an outbox of his
own, and ports are numbers. What a theorem assumes beyond them is its ASSUME.

*Only model-checked*: all liveness (`HubNeverBlocks`, `DroppedConnectionsEnd`,
`ExpiredQueuesGo`, `ShownAtLast`, `ReceiptsArrive`, `LossNoticed`), which TLAPS does not
reach. Every invariant and every action property of a passing run is a theorem, under the
hypotheses the tables name.

## Not modelled

- JSON, URL syntax, log lines, the terminal, flags: no property is about them.
- Payloads. A SEND without one would be stored but not replayed; the Go client sends none.
- `Encrypt`, `Decrypt`, `Sign`, `Verify` and fingerprints: library calls that the chat does
  not make yet, so there is nothing of the program to compose them with.
- Files that were damaged from outside: a state file is then taken for an empty one, an
  identity file is refused, or loaded with zeros where a key is missing.
- Time as a quantity: a relay's clock that steps back between two messages, and the exact
  deadlines. Everything a deadline may cause may happen at any moment.
- Queues that expire under a client that remembers them (`ClientState` and `Chat` leave
  the sweeper to `Retention`), two relays on one host as a checked case, and a user who
  subscribes to his own queue.
- `MarkDelivered`, which has no caller; `scripts/e2e.py` and `crypto/genvectors`, which test
  the program.
