--------------------------------- MODULE Chat ---------------------------------
(***************************************************************************)
(* Chats through the relay: module Hub composed with the Go client.  Every *)
(* connection is one run of the client program, from the dialing to its    *)
(* end (client/session.go, client/pumps.go); a user who comes back starts  *)
(* another one.  Between a client and the relay there is a pair of byte    *)
(* streams that keep the order and may break at any moment.                *)
(*                                                                         *)
(* A run starts with what module ClientState leaves in the state file: its *)
(* user's outbox, which the relay may have or not, and the peer's link.    *)
(* Then it has three goroutines: the listener (readPump), the speaker      *)
(* (writePump) and the keyboard (stdinLoop).                               *)
(*                                                                         *)
(* The heartbeat, the deadlines and the network are one cause, Cut: the    *)
(* connection stops working, and either end finds out when it likes.       *)
(***************************************************************************)
EXTENDS Hub

CONSTANTS
  Users,      \* who chats
  User,       \* who runs the client behind a connection
  Peer,       \* whom a user chats with
  Outbox,     \* the queue a user sends to, and the peer subscribes to
  Author,     \* who types a message; ids are random, so nobody else does
  ClientCap,  \* capacity of Session.send
  NetCap,     \* bound: frames in flight in one direction
  Breakable   \* bound: the connections the network may break

Inbox(c) == Outbox[Peer[User[c]]]
Reader   == [m \in Mids |-> Peer[Author[m]]]

\* What the client sends.
SubCommand(c)     == [type |-> "SUB",  qid |-> Inbox(c), mid |-> NoMid]
SendCommand(c, m) == [type |-> "SEND", qid |-> Outbox[User[c]], mid |-> m]
AckCommand(c, m)  == [type |-> "ACK",  qid |-> Inbox(c), mid |-> m]

ASSUME ChatAssumption ==
  /\ User \in [Conns -> Users]
  /\ Peer \in [Users -> Users]
  /\ \A u \in Users : Peer[u] # u /\ Peer[Peer[u]] = u
  /\ Outbox \in [Users -> Queues]
  /\ \A u, v \in Users : Outbox[u] = Outbox[v] => u = v
  /\ Author \in [Mids -> Users]
  /\ ClientCap \in Nat \ {0} /\ NetCap \in Nat \ {0}
  /\ Breakable \subseteq Conns
  /\ \A c \in Conns : SubCommand(c) \in Vocabulary
  /\ \A c \in Conns, m \in Mids : {SendCommand(c, m), AckCommand(c, m)} \subseteq Vocabulary

VARIABLES
  phase,     \* how far the run of the client has come
  broken,    \* the connections that no longer work
  listener,  \* where the client's readPump is
  speaker,   \* where the client's writePump is
  out,       \* Session.send
  up, down,  \* what is in flight to the relay, and to the client
  screen,    \* the messages printed by the run, which are also Session.seen
  typed,     \* history: the messages typed in this run that fit into out
  arrived    \* history: the accepted messages in the order of acceptance

network  == <<broken, up, down>>
session  == <<phase, listener, speaker, out, screen, typed>>
chatVars == <<vars, network, session, arrived>>

Shown(c) == {screen[c][i] : i \in DOMAIN screen[c]}

----------------------------------------------------------------------------
(* The network, and the relay's end of it. *)

ChatInit ==
  /\ Init
  /\ phase = [c \in Conns |-> "absent"]
  /\ listener = [c \in Conns |-> "off"] /\ speaker = [c \in Conns |-> "off"]
  /\ broken = {}
  /\ out = [c \in Conns |-> <<>>]
  /\ up = [c \in Conns |-> <<>>] /\ down = [c \in Conns |-> <<>>]
  /\ screen = [c \in Conns |-> <<>>] /\ typed = [c \in Conns |-> <<>>]
  /\ arrived = <<>>

\* The network fails, or one end has waited for the other for too long.
Cut(c) ==
  /\ c \in Breakable \ broken /\ phase[c] \notin {"absent", "ended"}
  /\ broken' = broken \cup {c}
  /\ UNCHANGED <<vars, up, down, session, arrived>>

\* Mutant: the reader does not wait for a hub that is busy.
ArriveOrDrop(c) ==
  /\ up[c] # <<>>
  /\ IF hub = <<>> THEN ReadCommand(c, Head(up[c]))
                   ELSE Up /\ reader[c] = "reading" /\ UNCHANGED vars
  /\ up' = [up EXCEPT ![c] = Tail(@)]
  /\ UNCHANGED <<broken, down, session, arrived>>

\* A frame comes in at the relay.
Arrive(c) ==
  /\ up[c] # <<>> /\ ReadCommand(c, Head(up[c]))
  /\ up' = [up EXCEPT ![c] = Tail(@)]
  /\ UNCHANGED <<broken, down, session, arrived>>

\* What is still on its way when the relay gives up reading is lost.
StopListening(c) ==
  /\ c \in broken /\ StopReading(c)
  /\ up' = [up EXCEPT ![c] = <<>>]
  /\ UNCHANGED <<broken, down, session, arrived>>

Emit(c) ==
  /\ c \notin broken /\ Len(down[c]) < NetCap /\ WriteFrame(c)
  /\ down' = [down EXCEPT ![c] = Append(@, Head(send[c]))]
  /\ UNCHANGED <<broken, up, session, arrived>>

\* The relay's write pump ends and closes the connection.
Close(c) ==
  /\ \/ SeeClosedChannel(c)
     \/ c \in broken /\ FailToWrite(c)
  /\ broken' = broken \cup {c}
  /\ UNCHANGED <<up, down, session, arrived>>

Dialed == {c \in Conns : phase[c] # "absent"}

\* The relay's process is gone, and with it its end of every connection.
Disconnected ==
  /\ broken' = broken \cup Dialed
  /\ up' = [c \in Conns |-> <<>>]
  /\ UNCHANGED <<down, session, arrived>>

RelayRestarts == Restart /\ Disconnected

RelaySteps ==
  /\ HubStep
  /\ IF process' = "up" THEN UNCHANGED <<network, session, arrived>>
                        ELSE Disconnected

RelayHandles(c) ==
  /\ Handle(c)
  /\ arrived' = IF accepted' = accepted THEN arrived ELSE Append(arrived, cmd[c].mid)
  /\ UNCHANGED <<network, session>>

RelayDeparts(c) == Depart(c) /\ UNCHANGED <<network, session, arrived>>

----------------------------------------------------------------------------
(* The client: start-up. *)

Dial(c) ==
  /\ phase[c] = "absent" /\ Connect(c)
  /\ phase' = [phase EXCEPT ![c] = "choosing"]
  /\ UNCHANGED <<network, listener, speaker, out, screen, typed, arrived>>

\* The contact is chosen: SUB is written by the main goroutine itself.
Ask(c) ==
  /\ phase[c] = "choosing" /\ c \notin broken
  /\ phase' = [phase EXCEPT ![c] = "subscribing"]
  /\ up' = [up EXCEPT ![c] = Append(@, SubCommand(c))]
  /\ UNCHANGED <<vars, broken, down, listener, speaker, out, screen, typed, arrived>>

\* The program is over; what it had not written yet is lost with it.
End(c) ==
  /\ phase' = [phase EXCEPT ![c] = "ended"]
  /\ listener' = [listener EXCEPT ![c] = "off"]
  /\ speaker' = [speaker EXCEPT ![c] = "off"]
  /\ out' = [out EXCEPT ![c] = <<>>]
  /\ broken' = broken \cup {c}
  /\ down' = [down EXCEPT ![c] = <<>>]
  /\ UNCHANGED <<vars, up, screen, typed, arrived>>

\* While it waits for SUB_OK the main goroutine reads the connection.
Awaits(c) == phase[c] = "subscribing" /\ down[c] # <<>>

Refused(c) == Awaits(c) /\ Head(down[c]).type = "ERROR" /\ End(c)

\* SUB_OK starts the pumps; any other frame is skipped.
Answered(c) ==
  LET become(what, state) ==
        IF Head(down[c]).type = "SUB_OK" THEN [what EXCEPT ![c] = state] ELSE what
  IN  /\ Awaits(c) /\ Head(down[c]).type # "ERROR"
      /\ phase' = become(phase, "chatting")
      /\ listener' = become(listener, "reading")
      /\ speaker' = become(speaker, "running")
      /\ down' = [down EXCEPT ![c] = Tail(@)]
      /\ UNCHANGED <<vars, broken, up, out, screen, typed, arrived>>

\* No answer within 5 s, a broken connection, a contact that cannot be
\* saved, or the user who presses ^C.
GiveUp(c) == phase[c] \in {"choosing", "subscribing"} /\ End(c)

----------------------------------------------------------------------------
(* The client: its three goroutines. *)

\* Mutant: a channel that grows.
AlwaysRoom(c) == c \in Conns

Room(c) == Len(out[c]) < ClientCap

AllTyped == UNION {{typed[c][i] : i \in DOMAIN typed[c]} : c \in Conns}

\* stdinLoop: a line that finds no room is dropped with a notice.
Type(c, m) ==
  /\ phase[c] = "chatting" /\ Room(c)
  /\ Author[m] = User[c] /\ m \notin AllTyped
  /\ out' = [out EXCEPT ![c] = Append(@, SendCommand(c, m))]
  /\ typed' = [typed EXCEPT ![c] = Append(@, m)]
  /\ UNCHANGED <<vars, network, phase, listener, speaker, screen, arrived>>

\* /quit; or the program is killed.
Quit(c) == phase[c] = "chatting" /\ End(c)

\* writePump.
Transmit(c) ==
  /\ speaker[c] = "running" /\ out[c] # <<>>
  /\ c \notin broken /\ Len(up[c]) < NetCap
  /\ up' = [up EXCEPT ![c] = Append(@, Head(out[c]))]
  /\ out' = [out EXCEPT ![c] = Tail(@)]
  /\ UNCHANGED <<vars, broken, down, phase, listener, speaker, screen, typed, arrived>>

\* Mutant: no deadline, so a write to a broken connection never returns.
HangInWrite(c) ==
  speaker[c] = "running" /\ c \in broken /\ UNCHANGED chatVars

\* A write fails, and its frame is lost, or the heartbeat fails.
FailToTransmit(c) ==
  /\ speaker[c] = "running" /\ c \in broken
  /\ speaker' = [speaker EXCEPT ![c] = "done"]
  /\ \/ out[c] # <<>> /\ out' = [out EXCEPT ![c] = Tail(@)]
     \/ UNCHANGED out
  /\ UNCHANGED <<vars, network, phase, listener, screen, typed, arrived>>

\* readPump: a message is printed, and then its receipt is due; DELIVERs of
\* messages seen before, and all other frames, are skipped.
Read(c) ==
  LET f == Head(down[c])
  IN  /\ listener[c] = "reading" /\ down[c] # <<>>
      /\ IF f.type = "DELIVER" /\ f.mid \notin Shown(c)
         THEN /\ screen' = [screen EXCEPT ![c] = Append(@, f.mid)]
              /\ listener' = [listener EXCEPT ![c] = "acking"]
         ELSE UNCHANGED <<screen, listener>>
      /\ down' = [down EXCEPT ![c] = Tail(@)]
      /\ UNCHANGED <<vars, broken, up, phase, speaker, out, typed, arrived>>

Receipt(c) == AckCommand(c, screen[c][Len(screen[c])])

\* Mutant: a receipt is dropped when there is no room, as a line is.
AcknowledgeOrDrop(c) ==
  /\ listener[c] = "acking"
  /\ out' = IF Room(c) THEN [out EXCEPT ![c] = Append(@, Receipt(c))] ELSE out
  /\ listener' = [listener EXCEPT ![c] = "reading"]
  /\ UNCHANGED <<vars, network, phase, speaker, screen, typed, arrived>>

\* The receipt waits for room in the channel: it must not be dropped.
Acknowledge(c) ==
  /\ listener[c] = "acking" /\ Room(c)
  /\ out' = [out EXCEPT ![c] = Append(@, Receipt(c))]
  /\ listener' = [listener EXCEPT ![c] = "reading"]
  /\ UNCHANGED <<vars, network, phase, speaker, screen, typed, arrived>>

\* Reading fails: the closing notice is printed.
Notice(c) ==
  /\ listener[c] = "reading" /\ c \in broken
  /\ listener' = [listener EXCEPT ![c] = "done"]
  /\ down' = [down EXCEPT ![c] = <<>>]
  /\ UNCHANGED <<vars, broken, up, phase, speaker, out, screen, typed, arrived>>

----------------------------------------------------------------------------
(* The specification. *)

RelayEnd(c) ==
  Arrive(c) \/ StopListening(c) \/ Emit(c) \/ Close(c)
    \/ RelayHandles(c) \/ RelayDeparts(c)

StartUp(c) ==
  Dial(c) \/ Ask(c) \/ Answered(c) \/ Refused(c) \/ GiveUp(c)

Chatting(c) ==
  \/ \E m \in Mids : Type(c, m)
  \/ Quit(c)
  \/ Transmit(c) \/ FailToTransmit(c)
  \/ Read(c) \/ Acknowledge(c) \/ Notice(c)

ChatNext ==
  \/ RelayRestarts \/ RelaySteps
  \/ \E c \in Conns : Cut(c) \/ RelayEnd(c) \/ StartUp(c) \/ Chatting(c)

ChatSpec == ChatInit /\ [][ChatNext]_chatVars

----------------------------------------------------------------------------
(* Fairness: that of the hub and of the relay's pumps (module Hub), a      *)
(* network that carries what it accepts as long as it works, and the three *)
(* goroutines of a client that runs.  A write to a connection that broke,  *)
(* or the heartbeat, fails in the end, and so does a read.  A receipt that *)
(* waits for room gets it when a frame leaves the channel: Go serves the   *)
(* waiting sender before a line typed later.  Nobody has to type or quit.  *)

ChatFairness ==
  /\ WF_chatVars(RelaySteps)
  /\ \A c \in Conns :
       /\ SF_chatVars(RelayHandles(c)) /\ SF_chatVars(RelayDeparts(c))
       /\ WF_chatVars(Arrive(c) \/ StopListening(c))
       /\ WF_chatVars(Emit(c) \/ Close(c))
       /\ WF_chatVars(Answered(c) \/ Refused(c))
       /\ WF_chatVars(Transmit(c) \/ FailToTransmit(c))
       /\ WF_chatVars(Read(c) \/ Notice(c))
       /\ SF_chatVars(Acknowledge(c))

FairChat == ChatSpec /\ ChatFairness

----------------------------------------------------------------------------
(* Properties. *)

\* The types of the client's and the network's variables.
ChatTypeOK ==
  /\ TypeOK
  /\ phase \in [Conns -> {"absent", "choosing", "subscribing", "chatting", "ended"}]
  /\ broken \subseteq Conns
  /\ listener \in [Conns -> {"off", "reading", "acking", "done"}]
  /\ speaker \in [Conns -> {"off", "running", "done"}]
  /\ out \in [Conns -> Seq(Command)] /\ up \in [Conns -> Seq(Command)]
  /\ \A c \in Conns : Len(out[c]) <= ClientCap
  /\ down \in [Conns -> Seq(Frame)]
  /\ screen \in [Conns -> Seq(Mids)] /\ typed \in [Conns -> Seq(Mids)]
  /\ arrived \in Seq(Mids)

\* The promise of the whole system, with the rows of the relay's database
\* for what is kept, and the screens of a user's runs for what was seen.
StoredMids == {row.mid : row \in db.messages}

SeenBy(u) == UNION {Shown(c) : c \in {x \in Conns : User[x] = u}}

M == INSTANCE Mailbox WITH
       posted <- accepted, stored <- StoredMids, shown <- [u \in Users |-> SeenBy(u)]

\* An acknowledged message stays in the database until the one it is for
\* has had it on the screen, whatever breaks, is killed or starts again.
IsMailbox == M!MailSpec

\* The frames on their way to a client: oldest first, those the hub is yet
\* to send last.  A statement that sends him nothing holds a place as well.
NoFrame == [type |-> "NONE", qid |-> NoQueue, mid |-> NoMid]

ToBeSent(c) ==
  [i \in DOMAIN hub |->
     IF hub[i].do = "send" /\ hub[i].to = c THEN hub[i].frame ELSE NoFrame]

OnTheWay(c) == down[c] \o send[c] \o ToBeSent(c)

\* The messages that frames or commands carry, in their places.
Carried(s, type) ==
  [i \in DOMAIN s |-> IF s[i].type = type THEN s[i].mid ELSE NoMid]

Precedes(m, n) ==
  \E i, j \in DOMAIN arrived : i < j /\ arrived[i] = m /\ arrived[j] = n

\* What a run shows, and then what is on its way to it, is in the order in
\* which the relay accepted it, and nothing comes twice: a backlog and the
\* messages that arrive meanwhile do not overtake each other.
StreamInOrder ==
  \A c \in Conns :
    LET s == screen[c] \o Carried(OnTheWay(c), "DELIVER")
    IN  \A i, j \in DOMAIN s :
          i < j /\ NoMid \notin {s[i], s[j]} => Precedes(s[i], s[j])

\* A start-up that waits for SUB_OK skips what it does not expect; no message
\* is ever among that, or it would not be seen before the next run.
StartupSkipsNothing ==
  \A c \in Conns : phase[c] \in {"choosing", "subscribing"} =>
    LET s == OnTheWay(c)
    IN  \A j \in DOMAIN s : s[j].type = "DELIVER" =>
          \E i \in 1 .. (j - 1) : s[i].type = "SUB_OK"

\* While a run chats and its connection works, every message stored for its
\* user is on the screen or on its way, whether it was sent before the run
\* subscribed, meanwhile, or to a former run that lost it; two runs of one
\* user cannot both be served, since the later one breaks the connection of
\* the earlier.  The channels must have room for all that is stored.
NothingMissed ==
  \A c \in clients \ broken : phase[c] = "chatting" =>
    \A row \in RowsOf(db, Inbox(c)) :
      \/ row.mid \in Shown(c)
      \/ \E i \in DOMAIN OnTheWay(c) : OnTheWay(c)[i] = Deliver(row.qid, row.mid)

\* The accepted messages, and then the lines on their way to the relay.
Submitted(c) == arrived \o Carried(<<cmd[c]>> \o up[c] \o out[c], "SEND")

\* As long as a connection works, and the relay has the queue, every line
\* that found room was accepted or is on its way, once and in the order of
\* typing, and nothing else is on its way.
LinesKeepOrder ==
  \A c \in Conns \ broken : QueueExists(db, Outbox[User[c]]) =>
    LET s == Submitted(c)
        t == typed[c]
    IN  /\ \A i \in DOMAIN t : \E k \in DOMAIN s : s[k] = t[i]
        /\ \A k, l \in DOMAIN s, i, j \in DOMAIN t :
             s[k] = t[i] /\ s[l] = t[j] => (k < l <=> i < j)
        /\ \A k \in DOMAIN s : k > Len(arrived) =>
             s[k] = NoMid \/ \E i \in DOMAIN t : s[k] = t[i]

ReadersRuns(m) == {c \in Conns : User[c] = Reader[m]}

\* A message that is stored while the one it is for is chatting is shown,
\* unless the connection breaks.
ShownAtLast ==
  \A m \in Mids : \A c \in ReadersRuns(m) :
    phase[c] = "chatting" /\ MidStored(db, m) ~> m \in Shown(c) \/ c \in broken

\* A message that was shown is deleted, unless the connection breaks: the
\* receipt gets through however many lines are typed at the same time.
ReceiptsArrive ==
  \A m \in Mids : \A c \in ReadersRuns(m) :
    m \in Shown(c) /\ MidStored(db, m) ~> ~ MidStored(db, m) \/ c \in broken

\* A receipt that waits for room in a channel nobody drains any more.
Stuck(c) ==
  listener[c] = "acking" /\ speaker[c] = "done" /\ ~ Room(c)

\* Whoever chats over a connection that broke is told so, but for the one
\* case in which the listener waits for ever.
LossNoticed ==
  \A c \in Conns :
    phase[c] = "chatting" /\ c \in broken
      ~> phase[c] = "ended" \/ listener[c] = "done" \/ Stuck(c)

=============================================================================
