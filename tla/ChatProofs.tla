------------------------------ MODULE ChatProofs ------------------------------
(***************************************************************************)
(* What holds of chats through the relay for any number of users, runs and *)
(* messages, all capacities, and whatever statements fail: the clients are *)
(* clients of module Hub, so all its theorems hold of them, and the whole  *)
(* keeps the promise of module Mailbox.                                    *)
(***************************************************************************)
EXTENDS Chat, HubProofs

----------------------------------------------------------------------------
(* Messages and whom they are for. *)

\* The accepted messages a user may see.
For(u) == {m \in accepted : Reader[m] = u}

LegalFrame(c) == {f \in Frame : f.type = "DELIVER" => f.mid \in For(User[c])}

LegalStatement == {s \in Statement : s.do = "send" => s.frame \in LegalFrame(s.to)}

\* What a run of the client has reason to say.
Lines(c) == {m \in Mids : Author[m] = User[c]}

Own(c) ==
  {SubCommand(c)} \cup {SendCommand(c, m) : m \in Lines(c)}
    \cup {AckCommand(c, m) : m \in Shown(c)}

LEMMA ChatConstants ==
  /\ User \in [Conns -> Users] /\ Peer \in [Users -> Users]
  /\ Outbox \in [Users -> Queues] /\ Author \in [Mids -> Users]
  /\ Reader \in [Mids -> Users]
  /\ \A c \in Conns : Inbox(c) \in Queues
  /\ ClientCap \in Nat /\ 0 < ClientCap /\ NetCap \in Nat
BY ChatAssumption DEF Reader, Inbox

\* Nobody shares an outbox, so a queue tells whom its messages are for.
LEMMA QueueTellsReader ==
  ASSUME NEW c \in Conns, NEW m \in Mids, Outbox[Author[m]] = Inbox(c)
  PROVE  Reader[m] = User[c]
<1>1. /\ Author[m] \in Users /\ User[c] \in Users /\ Peer[User[c]] \in Users
  BY ChatAssumption
<1>2. Author[m] = Peer[User[c]]
  BY <1>1, ChatAssumption DEF Inbox
<1> QED BY <1>1, <1>2, ChatAssumption DEF Reader

\* The fields of what a run says.
LEMMA OwnCommands ==
  ASSUME NEW c \in Conns, Shown(c) \subseteq Mids, NEW k \in Own(c)
  PROVE  /\ k \in Vocabulary /\ k \in Command
         /\ k.type \in {"SUB", "SEND", "ACK"}
         /\ k.type = "SUB" => k.qid = Inbox(c)
         /\ k.type = "SEND" => k.mid \in Lines(c) /\ k.qid = Outbox[User[c]]
         /\ k.type = "ACK" => k.mid \in Shown(c)
<1>1. k \in Vocabulary => k \in Command
  BY HubAssumption
<1>2. CASE k = SubCommand(c)
  BY <1>1, <1>2, ChatAssumption DEF SubCommand
<1>3. ASSUME NEW m \in Lines(c), k = SendCommand(c, m)
      PROVE  /\ k \in Vocabulary /\ k \in Command
             /\ k.type \in {"SUB", "SEND", "ACK"}
             /\ k.type = "SUB" => k.qid = Inbox(c)
             /\ k.type = "SEND" => k.mid \in Lines(c) /\ k.qid = Outbox[User[c]]
             /\ k.type = "ACK" => k.mid \in Shown(c)
  <2>1. m \in Mids
    BY DEF Lines
  <2> QED BY <1>1, <1>3, <2>1, ChatAssumption DEF SendCommand
<1>4. ASSUME NEW m \in Shown(c), k = AckCommand(c, m)
      PROVE  /\ k \in Vocabulary /\ k \in Command
             /\ k.type \in {"SUB", "SEND", "ACK"}
             /\ k.type = "SUB" => k.qid = Inbox(c)
             /\ k.type = "SEND" => k.mid \in Lines(c) /\ k.qid = Outbox[User[c]]
             /\ k.type = "ACK" => k.mid \in Shown(c)
  <2>1. m \in Mids
    BY <1>4
  <2> QED BY <1>1, <1>4, <2>1, ChatAssumption DEF AckCommand
<1> QED BY <1>2, <1>3, <1>4 DEF Own

----------------------------------------------------------------------------
(* The invariant: every message is where its reader, and nobody else, can   *)
(* come by it, and a receipt is on its way only after the screen.           *)

Rows ==
  \A row \in db.messages : row.mid \in accepted /\ row.qid = Outbox[Author[row.mid]]

Subscribers == \A q \in Queues : sub[q] # Nobody => Inbox(sub[q]) = q

Frames ==
  /\ hub \in Seq(LegalStatement)
  /\ \A c \in Conns : send[c] \in Seq(LegalFrame(c)) /\ down[c] \in Seq(LegalFrame(c))

Orders ==
  \A c \in Conns :
    /\ up[c] \in Seq(Own(c)) /\ out[c] \in Seq(Own(c))
    /\ cmd[c] \in Own(c) \cup {NoCommand}

Screens ==
  \A c \in Conns :
    /\ screen[c] \in Seq(For(User[c]))
    /\ listener[c] = "acking" => screen[c] # <<>>

Kept == Rows /\ Subscribers /\ Frames /\ Orders /\ Screens

ChatInv == Typed /\ ChatTypeOK /\ Kept

LEMMA ShownTypes ==
  ASSUME ChatTypeOK, NEW c \in Conns
  PROVE  Shown(c) \subseteq Mids
<1>1. screen[c] \in Seq(Mids)
  BY DEF ChatTypeOK
<1>2. \A i \in DOMAIN screen[c] : screen[c][i] \in Mids
  BY <1>1, ElementOfSeq, LenProperties
<1> QED BY <1>2 DEF Shown

\* What is shown was accepted, and is for the one who sees it.
LEMMA ShownIsLegal ==
  ASSUME Screens, NEW c \in Conns, NEW m \in Shown(c)
  PROVE  m \in For(User[c])
<1>1. screen[c] \in Seq(For(User[c]))
  BY DEF Screens
<1>2. \A i \in DOMAIN screen[c] : screen[c][i] \in For(User[c])
  BY <1>1, ElementOfSeq, LenProperties
<1> QED BY <1>2 DEF Shown

----------------------------------------------------------------------------
(* The clients are clients of module Hub.                                   *)

LEMMA ChatStepIsHubStep ==
  ASSUME ChatInv, [ChatNext]_chatVars
  PROVE  [Next]_vars
<1>1. CASE RelayRestarts \/ RelaySteps
  BY <1>1 DEF RelayRestarts, RelaySteps, Next
<1>2. ASSUME NEW c \in Conns, Arrive(c)
      PROVE  [Next]_vars
  <2>1. up[c] \in Seq(Own(c)) /\ up[c] # <<>> /\ ReadCommand(c, Head(up[c]))
    BY <1>2 DEF ChatInv, Kept, Orders, Arrive
  <2>2. Head(up[c]) \in Own(c)
    BY <2>1, HeadTailProperties
  <2>3. Head(up[c]) \in Vocabulary
    BY <2>2, ShownTypes, OwnCommands DEF ChatInv
  <2> QED BY <2>1, <2>3 DEF Next, PumpStep
<1>3. ASSUME NEW c \in Conns,
             StopListening(c) \/ Emit(c) \/ Close(c) \/ RelayHandles(c) \/ RelayDeparts(c)
               \/ Dial(c)
      PROVE  [Next]_vars
  BY <1>3 DEF StopListening, Emit, Close, RelayHandles, RelayDeparts, Dial, Next, PumpStep
<1>4. ASSUME NEW c \in Conns,
             Cut(c) \/ Ask(c) \/ Answered(c) \/ Refused(c) \/ GiveUp(c) \/ Chatting(c)
      PROVE  UNCHANGED vars
  BY <1>4 DEF Cut, Ask, Answered, Refused, GiveUp, End, Chatting, Type, Quit, Transmit,
              FailToTransmit, Read, Acknowledge, Notice
<1>5. CASE UNCHANGED chatVars
  BY <1>5 DEF chatVars
<1> QED BY <1>1, <1>2, <1>3, <1>4, <1>5 DEF ChatNext, RelayEnd, StartUp

----------------------------------------------------------------------------
(* Types. *)

LEMMA TailKeepsCap ==
  ASSUME NEW S, NEW s \in Seq(S), s # <<>>, Len(s) <= ClientCap
  PROVE  Tail(s) \in Seq(S) /\ Len(Tail(s)) <= ClientCap
<1>1. Tail(s) \in Seq(S) /\ Len(Tail(s)) = Len(s) - 1
  BY HeadTailProperties
<1>2. Len(s) \in Nat /\ ClientCap \in Nat
  BY ChatConstants, LenProperties
<1> QED BY <1>1, <1>2

\* A command that finds room in the client's channel.
LEMMA RoomKeepsCap ==
  ASSUME NEW S, NEW s \in Seq(S), NEW k \in S, Len(s) < ClientCap
  PROVE  Append(s, k) \in Seq(S) /\ Len(Append(s, k)) <= ClientCap
<1>1. Append(s, k) \in Seq(S) /\ Len(Append(s, k)) = Len(s) + 1
  BY AppendProperties
<1>2. Len(s) \in Nat /\ ClientCap \in Nat
  BY ChatConstants, LenProperties
<1> QED BY <1>1, <1>2

LEMMA RelayTypes ==
  ASSUME ChatInv, TypeOK',
         RelayRestarts \/ RelaySteps \/ \E c \in Conns : RelayEnd(c)
  PROVE  ChatTypeOK'
<1> USE DEF ChatTypeOK, session
<1>1. ChatTypeOK
  BY DEF ChatInv
<1>2. CASE RelayRestarts \/ RelaySteps
  <2>1. (UNCHANGED <<network, session, arrived>>) \/ Disconnected
    BY <1>2 DEF RelayRestarts, RelaySteps
  <2>2. CASE UNCHANGED <<network, session, arrived>>
    BY <1>1, <2>2 DEF network
  <2>3. CASE Disconnected
    <3>1. up' = [c \in Conns |-> <<>>] /\ <<>> \in Seq(Command)
      BY <2>3, EmptySeq DEF Disconnected
    <3>2. broken' \subseteq Conns
      BY <1>1, <2>3 DEF Disconnected, Dialed
    <3> QED BY <1>1, <2>3, <3>1, <3>2 DEF Disconnected
  <2> QED BY <2>1, <2>2, <2>3
<1>3. ASSUME NEW c \in Conns, Arrive(c) \/ StopListening(c)
      PROVE  ChatTypeOK'
  <2>1. /\ \/ up' = [up EXCEPT ![c] = Tail(@)] /\ up[c] # <<>>
           \/ up' = [up EXCEPT ![c] = <<>>]
        /\ UNCHANGED <<broken, down, session, arrived>>
    BY <1>3 DEF Arrive, StopListening
  <2>2. <<>> \in Seq(Command) /\ (up[c] # <<>> => Tail(up[c]) \in Seq(Command))
    BY <1>1, EmptySeq, HeadTailProperties
  <2> QED BY <1>1, <2>1, <2>2
<1>4. ASSUME NEW c \in Conns, Emit(c)
      PROVE  ChatTypeOK'
  <2>1. send[c] \in Seq(Frame) /\ send[c] # <<>> /\ down[c] \in Seq(Frame)
    BY <1>1, <1>4 DEF Emit, WriteFrame, TypeOK
  <2>2. Append(down[c], Head(send[c])) \in Seq(Frame)
    BY <2>1, HeadTailProperties, AppendProperties
  <2> QED BY <1>1, <1>4, <2>2 DEF Emit
<1>5. ASSUME NEW c \in Conns, Close(c) \/ RelayDeparts(c)
      PROVE  ChatTypeOK'
  BY <1>1, <1>5 DEF Close, RelayDeparts, network
<1>6. ASSUME NEW c \in Conns, RelayHandles(c)
      PROVE  ChatTypeOK'
  <2>1. arrived' \in Seq(Mids)
    <3>1. CASE accepted' = accepted
      BY <1>1, <1>6, <3>1 DEF RelayHandles
    <3>2. CASE accepted' # accepted
      <4>1. HandleSend(c)
        BY <1>6, <3>2
        DEF RelayHandles, Handle, RefuseNew, HandleNew, RefuseSub, HandleSub, RefuseSend,
            RefuseSave, HandleAck, HandleOther, history
      <4>2. cmd[c].type = "SEND" /\ cmd[c] \in Own(c) \cup {NoCommand}
        BY <4>1 DEF HandleSend, Receive, ChatInv, Kept, Orders
      <4>3. cmd[c].mid \in Mids
        <5>1. cmd[c] \in Own(c)
          BY <4>2 DEF NoCommand
        <5> QED BY <4>2, <5>1, ShownTypes, OwnCommands DEF ChatInv, Lines
      <4> QED BY <1>1, <1>6, <3>2, <4>3, AppendProperties DEF RelayHandles
    <3> QED BY <3>1, <3>2
  <2> QED BY <1>1, <1>6, <2>1 DEF RelayHandles, network
<1> QED BY <1>2, <1>3, <1>4, <1>5, <1>6 DEF RelayEnd

LEMMA ClientTypes ==
  ASSUME ChatInv, TypeOK', NEW c \in Conns, Cut(c) \/ StartUp(c) \/ Chatting(c)
  PROVE  ChatTypeOK'
<1> USE DEF ChatTypeOK, network, session
<1>1. ChatTypeOK /\ ClientCap \in Nat /\ 0 < ClientCap
  BY ChatConstants DEF ChatInv
<1>2. /\ up[c] \in Seq(Command) /\ out[c] \in Seq(Command) /\ Len(out[c]) <= ClientCap
      /\ down[c] \in Seq(Frame) /\ screen[c] \in Seq(Mids) /\ typed[c] \in Seq(Mids)
  BY <1>1
<1>3. ASSUME End(c)
      PROVE  ChatTypeOK'
  <2>1. <<>> \in Seq(Command) /\ <<>> \in Seq(Frame) /\ Len(<<>>) <= ClientCap
    BY <1>1, EmptySeq
  <2> QED BY <1>1, <1>3, <2>1 DEF End
<1>4. CASE Cut(c) \/ Dial(c)
  BY <1>1, <1>4 DEF Cut, Dial
<1>5. CASE Ask(c)
  <2>1. SubCommand(c) \in Command
    BY ChatAssumption, HubAssumption
  <2>2. Append(up[c], SubCommand(c)) \in Seq(Command)
    BY <1>2, <2>1, AppendProperties
  <2> QED BY <1>1, <1>5, <2>2 DEF Ask
<1>6. CASE Answered(c)
  <2>1. Tail(down[c]) \in Seq(Frame)
    BY <1>2, <1>6, HeadTailProperties DEF Answered, Awaits
  <2> QED BY <1>1, <1>6, <2>1 DEF Answered
<1>7. CASE Refused(c) \/ GiveUp(c) \/ Quit(c)
  BY <1>3, <1>7 DEF Refused, GiveUp, Quit
<1>8. ASSUME NEW m \in Mids, Type(c, m)
      PROVE  ChatTypeOK'
  <2>1. SendCommand(c, m) \in Command
    BY ChatAssumption, HubAssumption
  <2>2. /\ Append(out[c], SendCommand(c, m)) \in Seq(Command)
        /\ Len(Append(out[c], SendCommand(c, m))) <= ClientCap
    BY <1>2, <1>8, <2>1, RoomKeepsCap DEF Type, Room
  <2>3. Append(typed[c], m) \in Seq(Mids)
    BY <1>2, AppendProperties
  <2> QED BY <1>1, <1>8, <2>2, <2>3 DEF Type
<1>9. CASE Transmit(c)
  <2>1. /\ Head(out[c]) \in Command /\ Tail(out[c]) \in Seq(Command)
        /\ Len(Tail(out[c])) <= ClientCap
    BY <1>2, <1>9, HeadTailProperties, TailKeepsCap DEF Transmit
  <2>2. Append(up[c], Head(out[c])) \in Seq(Command)
    BY <1>2, <2>1, AppendProperties
  <2> QED BY <1>1, <1>9, <2>1, <2>2 DEF Transmit
<1>10. CASE FailToTransmit(c)
  <2>1. out[c] # <<>> =>
          Tail(out[c]) \in Seq(Command) /\ Len(Tail(out[c])) <= ClientCap
    BY <1>2, TailKeepsCap
  <2> QED BY <1>1, <1>10, <2>1 DEF FailToTransmit
<1>11. CASE Read(c)
  <2>1. down[c] # <<>> /\ Head(down[c]) \in Frame /\ Tail(down[c]) \in Seq(Frame)
    BY <1>2, <1>11, HeadTailProperties DEF Read
  <2>2. Head(down[c]).type = "DELIVER" =>
          Append(screen[c], Head(down[c]).mid) \in Seq(Mids)
    BY <1>2, <2>1, DeliverNamesMessage, AppendProperties
  <2> QED BY <1>1, <1>11, <2>1, <2>2 DEF Read
<1>12. CASE Acknowledge(c)
  <2>1. screen[c] # <<>>
    BY <1>12 DEF Acknowledge, ChatInv, Kept, Screens
  <2>2. screen[c][Len(screen[c])] \in Mids
    BY <1>2, <2>1, LenProperties, EmptySeq, ElementOfSeq
  <2>3. Receipt(c) \in Command
    BY <2>2, ChatAssumption, HubAssumption DEF Receipt
  <2>4. /\ Append(out[c], Receipt(c)) \in Seq(Command)
        /\ Len(Append(out[c], Receipt(c))) <= ClientCap
    BY <1>2, <1>12, <2>3, RoomKeepsCap DEF Acknowledge, Room
  <2> QED BY <1>1, <1>12, <2>4 DEF Acknowledge
<1>13. CASE Notice(c)
  <2>1. <<>> \in Seq(Frame)
    BY EmptySeq
  <2> QED BY <1>1, <1>13, <2>1 DEF Notice
<1> QED BY <1>4, <1>5, <1>6, <1>7, <1>8, <1>9, <1>10, <1>11, <1>12, <1>13
        DEF StartUp, Chatting

LEMMA ChatTypesNext ==
  ASSUME ChatInv, [ChatNext]_chatVars
  PROVE  Typed' /\ ChatTypeOK'
<1>1. Typed'
  BY ChatStepIsHubStep, TypedNext DEF ChatInv
<1>2. CASE UNCHANGED chatVars
  BY <1>1, <1>2 DEF chatVars, network, session, ChatInv, ChatTypeOK, Typed
<1> QED BY <1>1, <1>2, RelayTypes, ClientTypes DEF ChatNext, Typed

----------------------------------------------------------------------------
(* What the relay does with a command of a client. *)

\* A command the hub takes is one the client had reason for.
LEMMA ReceivedIsOwn ==
  ASSUME ChatInv, NEW c \in Conns, NEW type, type # "NONE", Receive(c, type)
  PROVE  /\ cmd[c] \in Own(c) /\ type \in {"SUB", "SEND", "ACK"}
         /\ type = "SUB" => cmd[c].qid = Inbox(c)
         /\ type = "SEND" => cmd[c].mid \in Lines(c) /\ cmd[c].qid = Outbox[User[c]]
         /\ type = "ACK" => cmd[c].mid \in Shown(c)
<1>1. cmd[c] \in Own(c) \cup {NoCommand} /\ cmd[c].type = type
  BY DEF Receive, ChatInv, Kept, Orders
<1>2. cmd[c] \in Own(c)
  BY <1>1 DEF NoCommand
<1> QED BY <1>1, <1>2, ShownTypes, OwnCommands DEF ChatInv

\* What a client never sends is never handled.
LEMMA HandledCommands ==
  ASSUME ChatInv, NEW c \in Conns, Handle(c)
  PROVE  RefuseSub(c) \/ HandleSub(c) \/ RefuseSend(c) \/ RefuseSave(c) \/ HandleSend(c)
           \/ HandleAck(c)
<1>1. ~ Receive(c, "NEW") /\ ~ Receive(c, "OTHER")
  BY ReceivedIsOwn
<1> QED BY <1>1 DEF Handle, RefuseNew, HandleNew, HandleOther

LEMMA SendEffects ==
  ASSUME ChatInv, NEW c \in Conns, HandleSend(c)
  PROVE  \E m \in Lines(c) :
           LET q == Outbox[User[c]]
           IN  /\ q \in Queues /\ ~ MidStored(db, m) /\ m = cmd[c].mid
               /\ db'.messages
                    = db.messages \cup {[mid |-> m, qid |-> q, at |-> db.arrivals]}
               /\ db'.arrivals = db.arrivals + 1
               /\ accepted' = accepted \cup {m}
               /\ hub' = [i \in DOMAIN Recipients(q) |->
                            Send(Recipients(q)[i], Deliver(q, m))]
                         \o Abbreviate(m) \o <<Send(c, Ack(q, m))>>
<1> DEFINE q == Outbox[User[c]]
<1>1. Receive(c, "SEND")
  BY DEF HandleSend
<1>2. cmd[c].mid \in Lines(c) /\ cmd[c].qid = q
  BY <1>1, ReceivedIsOwn
<1>3. q \in Queues
  BY ChatConstants
<1>4. PICK m \in MidsFor(cmd[c]) :
        /\ CanSave(db, m, cmd[c].qid, TRUE)
        /\ db' \in Touched(Saved(m, cmd[c].qid), cmd[c].qid)
        /\ hub' = [i \in DOMAIN Recipients(cmd[c].qid) |->
                     Send(Recipients(cmd[c].qid)[i], Deliver(cmd[c].qid, m))]
                  \o Abbreviate(m) \o <<Send(c, Ack(cmd[c].qid, m))>>
        /\ accepted' = accepted \cup {m}
  BY DEF HandleSend
<1>5. m = cmd[c].mid /\ m \in Mids
  BY <1>2, <1>4, HubAssumption DEF MidsFor, Lines
<1>6. /\ db'.messages = db.messages \cup {[mid |-> m, qid |-> q, at |-> db.arrivals]}
      /\ db'.arrivals = db.arrivals + 1
  <2>1. db \in Database
    BY DEF ChatInv, Typed, TypeOK
  <2> HIDE DEF q
  <2>2. Saved(m, q) \in Database
    BY <1>3, <1>5, <2>1, SaveType DEF Saved
  <2>3. db'.messages = Saved(m, q).messages /\ db'.arrivals = Saved(m, q).arrivals
    BY <1>2, <1>3, <1>4, <2>2, StatementsKeep
  <2> QED BY <2>3 DEF Saved, SaveMessage
<1> HIDE DEF q
<1>7. /\ ~ MidStored(db, m)
      /\ hub' = [i \in DOMAIN Recipients(q) |-> Send(Recipients(q)[i], Deliver(q, m))]
                  \o Abbreviate(m) \o <<Send(c, Ack(q, m))>>
  BY <1>2, <1>4 DEF CanSave
<1> QED BY <1>2, <1>3, <1>4, <1>5, <1>6, <1>7 DEF q

LEMMA AckEffects ==
  ASSUME ChatInv, NEW c \in Conns, HandleAck(c)
  PROVE  /\ accepted' = accepted /\ db'.arrivals = db.arrivals
         /\ hub' \in Seq([do : {"slice"}])
         /\ \/ db'.messages = db.messages
            \/ \E m \in Shown(c) : db'.messages = {row \in db.messages : row.mid # m}
<1>1. Receive(c, "ACK") /\ accepted' = accepted
  BY DEF HandleAck
<1>2. cmd[c].mid \in Shown(c)
  BY <1>1, ReceivedIsOwn
<1>3. db' = db \/ db' = DeleteMessage(db, cmd[c].mid)
  BY DEF HandleAck
<1>4. db \in Database
  BY DEF ChatInv, Typed, TypeOK
<1>5. /\ DeleteMessage(db, cmd[c].mid).messages = {row \in db.messages : row.mid # cmd[c].mid}
      /\ DeleteMessage(db, cmd[c].mid).arrivals = db.arrivals
  BY <1>4 DEF DeleteMessage, Database
<1>6. ASSUME NEW id PROVE Abbreviate(id) \in Seq([do : {"slice"}])
  <2>1. [do |-> "slice"] \in [do : {"slice"}]
    OBVIOUS
  <2> DEFINE S == [do : {"slice"}]
  <2>2. [do |-> "slice"] \in S
    BY <2>1
  <2> HIDE DEF S
  <2>3. <<[do |-> "slice"]>> \in Seq(S) /\ <<>> \in Seq(S)
    BY <2>2, EmptySeq
  <2> QED BY <2>3 DEF Abbreviate, S
<1>7. hub' = Abbreviate(cmd[c].qid) \o Abbreviate(cmd[c].mid)
  BY DEF HandleAck
<1>8. hub' \in Seq([do : {"slice"}])
  BY <1>6, <1>7, ConcatProperties
<1> QED BY <1>1, <1>2, <1>3, <1>5, <1>8

\* No other step of the relay touches a message or accepts one.
LEMMA OtherStepsKeepMessages ==
  ASSUME ChatInv, [Next]_vars,
         \A c \in Conns : ~ HandleSend(c) /\ ~ HandleAck(c)
  PROVE  db'.messages = db.messages /\ db'.arrivals = db.arrivals /\ accepted' = accepted
<1>1. db \in Database
  BY DEF ChatInv, Typed, TypeOK
<1>2. CASE TouchSubscribed
  <2>1. Head(hub) \in Statement /\ Head(hub).do = "touch"
    BY <1>2, HeadTailProperties DEF TouchSubscribed, Current, ChatInv, Typed, TypeOK
  <2>2. Head(hub).qid \in Queues
    BY <2>1 DEF Statement
  <2> QED BY <1>1, <1>2, <2>2, StatementsKeep DEF TouchSubscribed, history
<1>3. CASE Restart \/ SendFrame \/ SendOnClosed \/ SliceShortId \/ UNCHANGED vars
  BY <1>3 DEF Restart, Reset, SendFrame, SendOnClosed, SliceShortId, Panic, vars, history
<1>4. ASSUME NEW c \in Conns, Connect(c) \/ PumpStep(c) \/ Depart(c)
      PROVE  db'.messages = db.messages /\ db'.arrivals = db.arrivals /\ accepted' = accepted
  BY <1>4
  DEF Connect, PumpStep, ReadCommand, AnswerInPlace, StopReading, WriteFrame,
      SeeClosedChannel, FailToWrite, StopWriting, Depart, Unregister, UnregisterLate,
      Leave, history
<1>5. ASSUME NEW c \in Conns, Handle(c)
      PROVE  db'.messages = db.messages /\ db'.arrivals = db.arrivals /\ accepted' = accepted
  BY <1>5, HandledCommands
  DEF RefuseSub, HandleSub, RefuseSend, RefuseSave, history
<1> QED BY <1>2, <1>3, <1>4, <1>5 DEF Next, HubStep

LEMMA AcceptedGrows ==
  ASSUME ChatInv, [Next]_vars
  PROVE  accepted \subseteq accepted'
<1>1. ASSUME NEW c \in Conns, HandleSend(c) PROVE accepted \subseteq accepted'
  BY <1>1, SendEffects
<1>2. ASSUME NEW c \in Conns, HandleAck(c) PROVE accepted \subseteq accepted'
  BY <1>2, AckEffects
<1> QED BY <1>1, <1>2, OtherStepsKeepMessages

LEMMA RowsNext ==
  ASSUME ChatInv, [Next]_vars
  PROVE  Rows'
<1>1. Rows /\ accepted \subseteq Mids
  BY DEF ChatInv, Kept, Typed, TypeOK
<1>2. ASSUME NEW c \in Conns, HandleSend(c)
      PROVE  Rows'
  <2>1. PICK m \in Lines(c) :
          /\ db'.messages = db.messages \cup
               {[mid |-> m, qid |-> Outbox[User[c]], at |-> db.arrivals]}
          /\ accepted' = accepted \cup {m}
    BY <1>2, SendEffects
  <2> QED BY <1>1, <2>1 DEF Rows, Lines
<1>3. ASSUME NEW c \in Conns, HandleAck(c)
      PROVE  Rows'
  <2>1. db'.messages \subseteq db.messages /\ accepted' = accepted
    BY <1>3, AckEffects
  <2> QED BY <1>1, <2>1 DEF Rows
<1>4. CASE db'.messages = db.messages /\ accepted' = accepted
  BY <1>1, <1>4 DEF Rows
<1> QED BY <1>2, <1>3, <1>4, OtherStepsKeepMessages

----------------------------------------------------------------------------
(* Roles and screens. *)

LEMMA SubscribersNext ==
  ASSUME ChatInv, [Next]_vars
  PROVE  Subscribers'
<1>1. Subscribers /\ sub \in [Queues -> Conns \cup {Nobody}]
  BY DEF ChatInv, Kept, Typed, TypeOK
<1>2. ASSUME NEW c \in Conns, HandleSub(c)
      PROVE  Subscribers'
  <2>1. cmd[c].qid = Inbox(c) /\ sub' = [sub EXCEPT ![cmd[c].qid] = c]
    BY <1>2, ReceivedIsOwn DEF HandleSub
  <2> QED BY <1>1, <2>1 DEF Subscribers
<1>3. CASE Restart \/ SendOnClosed \/ SliceShortId
  BY <1>3 DEF Restart, SendOnClosed, SliceShortId, Panic, Reset, Subscribers
<1>4. ASSUME NEW c \in Conns, Unregister(c)
      PROVE  Subscribers'
  BY <1>1, <1>4 DEF Unregister, ReleaseQueue, Subscribers
<1>5. ASSUME NEW c \in Conns, Handle(c), ~ HandleSub(c)
      PROVE  sub' = sub
  BY <1>5, HandledCommands
  DEF RefuseSub, RefuseSend, RefuseSave, HandleSend, HandleAck, memory
<1>6. ASSUME NEW c \in Conns, Connect(c) \/ PumpStep(c) \/ UnregisterLate(c)
      PROVE  sub' = sub
  BY <1>6
  DEF Connect, PumpStep, ReadCommand, AnswerInPlace, StopReading, WriteFrame,
      SeeClosedChannel, FailToWrite, StopWriting, UnregisterLate, memory
<1>7. CASE SendFrame \/ TouchSubscribed \/ UNCHANGED vars
  BY <1>1, <1>7 DEF SendFrame, TouchSubscribed, vars, memory, Subscribers
<1>8. CASE sub' = sub
  BY <1>1, <1>8 DEF Subscribers
<1> QED BY <1>2, <1>3, <1>4, <1>5, <1>6, <1>7, <1>8 DEF Next, HubStep, Depart

LEMMA LegalGrows ==
  ASSUME accepted \subseteq accepted'
  PROVE  /\ \A u : For(u) \subseteq For(u)'
         /\ \A c : LegalFrame(c) \subseteq LegalFrame(c)'
         /\ LegalStatement \subseteq LegalStatement'
<1>1. \A u : For(u) \subseteq For(u)'
  BY DEF For
<1>2. \A c : LegalFrame(c) \subseteq LegalFrame(c)'
  BY <1>1 DEF LegalFrame
<1> QED BY <1>1, <1>2 DEF LegalStatement

\* The frame a client reads.
LEMMA NextFrame ==
  ASSUME ChatInv, NEW c \in Conns, down[c] # <<>>
  PROVE  /\ Head(down[c]) \in LegalFrame(c)
         /\ Tail(down[c]) \in Seq(LegalFrame(c))
<1>1. down[c] \in Seq(LegalFrame(c))
  BY DEF ChatInv, Kept, Frames
<1> QED BY <1>1, HeadTailProperties

LEMMA ScreensNext ==
  ASSUME ChatInv, [ChatNext]_chatVars, accepted \subseteq accepted'
  PROVE  Screens'
<1>1. /\ Screens /\ screen \in [Conns -> Seq(Mids)]
      /\ listener \in [Conns -> {"off", "reading", "acking", "done"}]
  BY DEF ChatInv, Kept, ChatTypeOK
<1>2. ASSUME NEW c \in Conns, Read(c)
      PROVE  Screens'
  <2>1. UNCHANGED accepted
    BY <1>2 DEF Read, vars, history
  <2>2. Screens' <=> \A x \in Conns :
          /\ screen'[x] \in Seq(For(User[x]))
          /\ listener'[x] = "acking" => screen'[x] # <<>>
    BY <2>1 DEF Screens, For
  <2>3. CASE Head(down[c]).type = "DELIVER" /\ Head(down[c]).mid \notin Shown(c)
    <3>1. Head(down[c]).mid \in For(User[c])
      BY <1>2, <2>3, NextFrame DEF Read, LegalFrame
    <3>2. /\ screen[c] \in Seq(For(User[c]))
          /\ screen' = [screen EXCEPT ![c] = Append(screen[c], Head(down[c]).mid)]
          /\ listener' = [listener EXCEPT ![c] = "acking"]
      BY <1>1, <1>2, <2>3 DEF Read, Screens
    <3>3. /\ Append(screen[c], Head(down[c]).mid) \in Seq(For(User[c]))
          /\ Append(screen[c], Head(down[c]).mid) # <<>>
      BY <3>1, <3>2, AppendProperties
    <3> QED BY <1>1, <2>2, <3>2, <3>3 DEF Screens
  <2>4. CASE ~ (Head(down[c]).type = "DELIVER" /\ Head(down[c]).mid \notin Shown(c))
    BY <1>1, <1>2, <2>2, <2>4 DEF Read, Screens
  <2> QED BY <2>3, <2>4
<1>3. ASSUME screen' = screen,
             \A x \in Conns : listener'[x] = "acking" => listener[x] = "acking"
      PROVE  Screens'
  <2>1. \A x \in Conns : screen[x] \in Seq(For(User[x])')
    BY <1>1, LegalGrows, SeqMonotonic DEF Screens
  <2> QED BY <1>1, <1>3, <2>1 DEF Screens, For
<1>4. ASSUME NEW c \in Conns,
             Cut(c) \/ StartUp(c) \/ Chatting(c), ~ Read(c)
      PROVE  /\ screen' = screen
             /\ \A x \in Conns : listener'[x] = "acking" => listener[x] = "acking"
  BY <1>1, <1>4
  DEF Cut, StartUp, Dial, Ask, Answered, Refused, GiveUp, End, Chatting, Type, Quit, Transmit,
      FailToTransmit, Acknowledge, Notice, session
<1>5. ASSUME RelayRestarts \/ RelaySteps \/ (\E c \in Conns : RelayEnd(c))
               \/ UNCHANGED chatVars
      PROVE  screen' = screen /\ listener' = listener
  BY <1>5
  DEF RelayRestarts, RelaySteps, Disconnected, RelayEnd, Arrive, StopListening, Emit,
      Close, RelayHandles, RelayDeparts, session, chatVars
<1> QED BY <1>2, <1>3, <1>4, <1>5 DEF ChatNext, Chatting

LEMMA OnlyReadShows ==
  ASSUME [ChatNext]_chatVars, \A x \in Conns : ~ Read(x)
  PROVE  screen' = screen
BY DEF ChatNext, RelayRestarts, RelaySteps, Disconnected, RelayEnd, Arrive, StopListening,
       Emit, Close, RelayHandles, RelayDeparts, Cut, StartUp, Dial, Ask, Answered, Refused,
       GiveUp, End, Chatting, Type, Quit, Transmit, FailToTransmit, Acknowledge, Notice,
       session, chatVars

LEMMA ShownGrows ==
  ASSUME ChatInv, [ChatNext]_chatVars, NEW c \in Conns
  PROVE  Shown(c) \subseteq Shown(c)'
<1>1. screen \in [Conns -> Seq(Mids)]
  BY DEF ChatInv, ChatTypeOK
<1>2. ASSUME NEW x \in Conns, Read(x)
      PROVE  Shown(c) \subseteq Shown(c)'
  <2>1. CASE screen' = screen
    BY <2>1 DEF Shown
  <2>2. CASE screen' # screen
    <3> DEFINE m == Head(down[x]).mid
    <3>1. screen' = [screen EXCEPT ![x] = Append(screen[x], m)] /\ m \in Mids
      <4>1. /\ screen' = [screen EXCEPT ![x] = Append(screen[x], m)]
            /\ Head(down[x]).type = "DELIVER" /\ down[x] # <<>>
        BY <1>2, <2>2 DEF Read
      <4>2. Head(down[x]) \in Frame
        BY <4>1, NextFrame DEF LegalFrame
      <4> QED BY <4>1, <4>2, DeliverNamesMessage
    <3> HIDE DEF m
    <3>2. screen[x] \in Seq(Mids)
      BY <1>1
    <3>3. /\ Len(Append(screen[x], m)) = Len(screen[x]) + 1
          /\ \A i \in 1 .. Len(screen[x]) : Append(screen[x], m)[i] = screen[x][i]
          /\ DOMAIN Append(screen[x], m) = 1 .. (Len(screen[x]) + 1)
          /\ DOMAIN screen[x] = 1 .. Len(screen[x]) /\ Len(screen[x]) \in Nat
      BY <3>1, <3>2, AppendProperties, LenProperties
    <3> QED BY <1>1, <3>1, <3>3 DEF Shown
  <2> QED BY <2>1, <2>2
<1>3. CASE screen' = screen
  BY <1>3 DEF Shown
<1>4. CASE \A x \in Conns : ~ Read(x)
  BY <1>3, <1>4, OnlyReadShows
<1> QED BY <1>2, <1>4

----------------------------------------------------------------------------
(* Commands. *)

LEMMA TailDiffers ==
  ASSUME NEW S, NEW s \in Seq(S), s # <<>>
  PROVE  Tail(s) # s
<1> DEFINE t == Tail(s)
<1>1. Len(t) = Len(s) - 1 /\ Len(s) \in Nat
  BY HeadTailProperties, LenProperties
<1> HIDE DEF t
<1>2. t # s
  BY <1>1
<1> QED BY <1>2 DEF t

LEMMA AppendDiffers ==
  ASSUME NEW S, NEW s \in Seq(S), NEW k \in S
  PROVE  Append(s, k) # s
<1>1. Len(Append(s, k)) = Len(s) + 1 /\ Len(s) \in Nat
  BY AppendProperties, LenProperties
<1> QED BY <1>1

\* What a step puts into the stream to the relay.
LEMMA UpSteps ==
  ASSUME ChatInv, [ChatNext]_chatVars, NEW x \in Conns
  PROVE  \/ up'[x] = up[x]
         \/ up'[x] = <<>> /\ (Disconnected \/ StopListening(x))
         \/ Arrive(x) /\ up[x] # <<>> /\ up'[x] = Tail(up[x])
         \/ Ask(x) /\ up'[x] = Append(up[x], SubCommand(x))
         \/ Transmit(x) /\ out[x] # <<>> /\ up'[x] = Append(up[x], Head(out[x]))
<1>1. up \in [Conns -> Seq(Command)]
  BY DEF ChatInv, ChatTypeOK
<1>2. ASSUME NEW c \in Conns,
             up' = [up EXCEPT ![c] = Tail(@)] \/ up' = [up EXCEPT ![c] = <<>>]
               \/ \E k : up' = [up EXCEPT ![c] = Append(@, k)],
             c # x
      PROVE  up'[x] = up[x]
  BY <1>1, <1>2
<1>3. ASSUME NEW c \in Conns, Arrive(c)
      PROVE  up'[x] = up[x] \/ (Arrive(x) /\ up[x] # <<>> /\ up'[x] = Tail(up[x]))
  BY <1>1, <1>2, <1>3 DEF Arrive
<1>4. ASSUME NEW c \in Conns, StopListening(c)
      PROVE  up'[x] = up[x] \/ (up'[x] = <<>> /\ StopListening(x))
  BY <1>1, <1>2, <1>4 DEF StopListening
<1>5. ASSUME NEW c \in Conns, Ask(c)
      PROVE  up'[x] = up[x] \/ (Ask(x) /\ up'[x] = Append(up[x], SubCommand(x)))
  BY <1>1, <1>2, <1>5 DEF Ask
<1>6. ASSUME NEW c \in Conns, Transmit(c)
      PROVE  \/ up'[x] = up[x]
             \/ Transmit(x) /\ out[x] # <<>> /\ up'[x] = Append(up[x], Head(out[x]))
  BY <1>1, <1>2, <1>6 DEF Transmit
<1>7. CASE RelayRestarts \/ RelaySteps
  BY <1>7 DEF RelayRestarts, RelaySteps, Disconnected, network
<1>8. ASSUME NEW c \in Conns, Emit(c) \/ Close(c) \/ RelayHandles(c) \/ RelayDeparts(c) \/ Cut(c)
      PROVE  up' = up
  BY <1>8 DEF Emit, Close, RelayHandles, RelayDeparts, Cut, network
<1>9. ASSUME NEW c \in Conns, StartUp(c) \/ Chatting(c), ~ Ask(c), ~ Transmit(c)
      PROVE  up' = up
  BY <1>9
  DEF StartUp, Dial, Answered, Refused, GiveUp, End, Chatting, Type, Quit, FailToTransmit,
      Read, Acknowledge, Notice, network
<1>10. CASE UNCHANGED chatVars
  BY <1>10 DEF chatVars, network
<1> QED BY <1>3, <1>4, <1>5, <1>6, <1>7, <1>8, <1>9, <1>10 DEF ChatNext, RelayEnd

\* What a step puts into the send channel of a run.
LEMMA OutSteps ==
  ASSUME ChatInv, [ChatNext]_chatVars, NEW x \in Conns
  PROVE  \/ out'[x] = out[x] /\ ~ Transmit(x)
         \/ out'[x] = <<>> /\ End(x)
         \/ /\ Transmit(x) \/ FailToTransmit(x)
            /\ out[x] # <<>> /\ out'[x] = Tail(out[x])
         \/ \E m \in Lines(x) : Type(x, m) /\ out'[x] = Append(out[x], SendCommand(x, m))
         \/ Acknowledge(x) /\ out'[x] = Append(out[x], Receipt(x))
<1>1. out \in [Conns -> Seq(Command)] /\ up \in [Conns -> Seq(Command)]
  BY DEF ChatInv, ChatTypeOK
<1>2. ASSUME up' = up \/ out' = out
      PROVE  ~ Transmit(x)
  <2>1. ASSUME Transmit(x) PROVE FALSE
    <3>1. /\ out[x] # <<>> /\ out[x] \in Seq(Command) /\ up[x] \in Seq(Command)
          /\ up'[x] = Append(up[x], Head(out[x])) /\ out'[x] = Tail(out[x])
      BY <1>1, <2>1 DEF Transmit
    <3>2. Tail(out[x]) # out[x] /\ Head(out[x]) \in Command
      BY <3>1, TailDiffers, HeadTailProperties
    <3>3. Append(up[x], Head(out[x])) # up[x]
      BY <3>1, <3>2, AppendDiffers
    <3> QED BY <1>2, <3>1, <3>2, <3>3
  <2> QED BY <2>1
<1>3. ASSUME NEW c \in Conns, c # x,
             Transmit(c) \/ FailToTransmit(c) \/ Acknowledge(c) \/ End(c)
               \/ \E m \in Mids : Type(c, m)
      PROVE  out'[x] = out[x] /\ ~ Transmit(x)
  <2>1. out'[x] = out[x]
    BY <1>1, <1>3 DEF Transmit, FailToTransmit, Acknowledge, End, Type
  <2>2. ~ Transmit(x)
    <3>1. ASSUME Transmit(x) PROVE FALSE
      <4>1. out[x] # <<>> /\ out[x] \in Seq(Command) /\ out'[x] = Tail(out[x])
        BY <1>1, <3>1 DEF Transmit
      <4>2. Tail(out[x]) # out[x]
        BY <4>1, TailDiffers
      <4> QED BY <2>1, <4>1, <4>2
    <3> QED BY <3>1
  <2> QED BY <2>1, <2>2
<1>4. CASE Transmit(x)
  BY <1>1, <1>4 DEF Transmit
<1>5. CASE FailToTransmit(x)
  BY <1>1, <1>2, <1>5 DEF FailToTransmit, network
<1>6. ASSUME NEW m \in Mids, Type(x, m)
      PROVE  m \in Lines(x) /\ out'[x] = Append(out[x], SendCommand(x, m))
  BY <1>1, <1>6 DEF Type, Lines
<1>7. CASE Acknowledge(x)
  BY <1>1, <1>7 DEF Acknowledge
<1>8. CASE End(x)
  BY <1>1, <1>8 DEF End
<1>9. CASE RelayRestarts \/ RelaySteps \/ UNCHANGED chatVars
  BY <1>2, <1>9 DEF RelayRestarts, RelaySteps, Disconnected, session, chatVars
<1>10. ASSUME NEW c \in Conns, RelayEnd(c) \/ Cut(c)
       PROVE  out' = out
  BY <1>10
  DEF RelayEnd, Arrive, StopListening, Emit, Close, RelayHandles, RelayDeparts, Cut, session
<1>11. ASSUME NEW c \in Conns,
              Dial(c) \/ Ask(c) \/ Answered(c) \/ Read(c) \/ Notice(c)
       PROVE  out' = out
  BY <1>11 DEF Dial, Ask, Answered, Read, Notice, session
<1>12. ASSUME NEW c \in Conns, Cut(c) \/ RelayEnd(c) \/ StartUp(c) \/ Chatting(c)
       PROVE  \/ out' = out
              \/ Transmit(c) \/ FailToTransmit(c) \/ Acknowledge(c) \/ End(c)
              \/ \E m \in Mids : Type(c, m)
  BY <1>10, <1>11, <1>12 DEF StartUp, Refused, GiveUp, Chatting, Quit
<1> QED BY <1>2, <1>3, <1>4, <1>5, <1>6, <1>7, <1>8, <1>9, <1>12 DEF ChatNext

\* What a reader of the relay holds comes from that stream.
LEMMA CmdSteps ==
  ASSUME ChatInv, [ChatNext]_chatVars, NEW x \in Conns
  PROVE  \/ cmd'[x] = cmd[x] /\ ~ Arrive(x) /\ ~ RelayHandles(x)
         \/ cmd'[x] = NoCommand /\ (Disconnected \/ RelayHandles(x))
         \/ Arrive(x) /\ up[x] # <<>> /\ cmd'[x] = Head(up[x])
<1>1. /\ cmd \in [Conns -> Command \cup {NoCommand}]
      /\ reader \in [Conns -> {"absent", "reading", "routing", "leaving", "done"}]
  BY DEF ChatInv, Typed, TypeOK
<1>2. ASSUME NEW c \in Conns, Handle(c)
      PROVE  /\ reader[c] = "routing" /\ reader' = [reader EXCEPT ![c] = "reading"]
             /\ cmd' = [cmd EXCEPT ![c] = NoCommand]
  BY <1>2
  DEF Handle, RefuseNew, HandleNew, RefuseSub, HandleSub, RefuseSend,
      RefuseSave, HandleSend, HandleAck, HandleOther, Receive
<1>3. ASSUME reader'[x] = reader[x]
      PROVE  ~ Arrive(x) /\ ~ RelayHandles(x)
  BY <1>1, <1>2, <1>3 DEF Arrive, ReadCommand, RelayHandles
<1>4. ASSUME NEW c \in Conns, Arrive(c)
      PROVE  \/ cmd'[x] = cmd[x] /\ ~ Arrive(x) /\ ~ RelayHandles(x)
             \/ Arrive(x) /\ up[x] # <<>> /\ cmd'[x] = Head(up[x])
  <2>1. CASE c = x
    BY <1>1, <1>4, <2>1 DEF Arrive, ReadCommand
  <2>2. CASE c # x
    <3>1. cmd'[x] = cmd[x] /\ reader'[x] = reader[x]
      BY <1>1, <1>4, <2>2 DEF Arrive, ReadCommand
    <3> QED BY <1>3, <3>1
  <2> QED BY <2>1, <2>2
<1>5. ASSUME NEW c \in Conns, RelayHandles(c)
      PROVE  \/ cmd'[x] = cmd[x] /\ ~ Arrive(x) /\ ~ RelayHandles(x)
             \/ cmd'[x] = NoCommand /\ RelayHandles(x)
  <2>1. CASE c = x
    BY <1>1, <1>2, <1>5, <2>1 DEF RelayHandles
  <2>2. CASE c # x
    <3>1. cmd'[x] = cmd[x] /\ reader'[x] = reader[x]
      BY <1>1, <1>2, <1>5, <2>2 DEF RelayHandles
    <3> QED BY <1>3, <3>1
  <2> QED BY <2>1, <2>2
<1>6. CASE RelayRestarts \/ RelaySteps
  <2>1. CASE SendFrame \/ TouchSubscribed
    BY <1>3, <2>1 DEF SendFrame, TouchSubscribed, pumps
  <2>2. CASE RelayRestarts
    BY <2>2 DEF RelayRestarts, Restart, Reset
  <2>3. CASE RelaySteps /\ (SendOnClosed \/ SliceShortId)
    <3>1. process' # "up" /\ cmd'[x] = NoCommand
      BY <2>3 DEF SendOnClosed, SliceShortId, Panic, Reset
    <3> QED BY <2>3, <3>1 DEF RelaySteps
  <2> QED BY <1>6, <2>1, <2>2, <2>3 DEF RelaySteps, HubStep
<1>7. ASSUME NEW c \in Conns,
             Emit(c) \/ Close(c) \/ Cut(c) \/ Ask(c) \/ Answered(c) \/ Refused(c) \/ GiveUp(c)
               \/ Chatting(c)
      PROVE  cmd'[x] = cmd[x] /\ ~ Arrive(x) /\ ~ RelayHandles(x)
  <2>1. cmd' = cmd /\ reader' = reader
    BY <1>7
    DEF Emit, WriteFrame, Close, SeeClosedChannel, FailToWrite, StopWriting, Cut, Ask, Answered,
        Refused, GiveUp, End, Chatting, Type, Quit, Transmit, FailToTransmit, Read,
        Acknowledge, Notice, vars, pumps
  <2> QED BY <1>3, <2>1
<1>8. ASSUME NEW c \in Conns, StopListening(c) \/ RelayDeparts(c) \/ Dial(c)
      PROVE  cmd'[x] = cmd[x] /\ ~ Arrive(x) /\ ~ RelayHandles(x)
  <2>1. /\ cmd' = cmd
        /\ \/ reader[c] = "reading" /\ reader' = [reader EXCEPT ![c] = "leaving"]
           \/ reader[c] = "leaving" /\ reader' = [reader EXCEPT ![c] = "done"]
           \/ reader[c] = "absent" /\ reader' = [reader EXCEPT ![c] = "reading"]
    BY <1>8
    DEF StopListening, StopReading, RelayDeparts, Depart, Unregister, UnregisterLate, Leave, Dial,
        Connect
  <2>2. CASE c # x
    BY <1>1, <1>3, <2>1, <2>2
  <2>3. CASE c = x
    <3>1. ASSUME Arrive(x) PROVE FALSE
      BY <1>1, <2>1, <2>3, <3>1 DEF Arrive, ReadCommand
    <3>2. ASSUME RelayHandles(x) PROVE FALSE
      BY <1>1, <1>2, <2>1, <2>3, <3>2 DEF RelayHandles
    <3> QED BY <2>1, <2>3, <3>1, <3>2
  <2> QED BY <2>1, <2>2, <2>3
<1>9. CASE UNCHANGED chatVars
  BY <1>3, <1>9 DEF chatVars, vars, pumps
<1> QED BY <1>4, <1>5, <1>6, <1>7, <1>8, <1>9 DEF ChatNext, RelayEnd, StartUp

LEMMA OrdersNext ==
  ASSUME ChatInv, [ChatNext]_chatVars
  PROVE  Orders'
<1> SUFFICES ASSUME NEW x \in Conns
             PROVE  /\ up'[x] \in Seq(Own(x)') /\ out'[x] \in Seq(Own(x)')
                    /\ cmd'[x] \in Own(x)' \cup {NoCommand}
  BY DEF Orders, NoCommand
<1>1. /\ up[x] \in Seq(Own(x)) /\ out[x] \in Seq(Own(x))
      /\ cmd[x] \in Own(x) \cup {NoCommand}
  BY DEF ChatInv, Kept, Orders
<1>2. Own(x) \subseteq Own(x)'
  BY ShownGrows DEF Own, SubCommand, SendCommand, AckCommand, Inbox, Lines
<1> DEFINE S == Own(x)
<1>3. S \subseteq S' /\ up[x] \in Seq(S') /\ out[x] \in Seq(S')
  BY <1>1, <1>2, SeqMonotonic
<1>4. /\ SubCommand(x) \in S
      /\ \A m \in Lines(x) : SendCommand(x, m) \in S
      /\ Acknowledge(x) => Receipt(x) \in S
  <2>1. ASSUME Acknowledge(x) PROVE Receipt(x) \in S
    <3>1. screen[x] # <<>> /\ screen[x] \in Seq(Mids)
      BY <2>1 DEF Acknowledge, ChatInv, Kept, Screens, ChatTypeOK
    <3>2. Len(screen[x]) \in DOMAIN screen[x]
      BY <3>1, EmptySeq, LenProperties
    <3> QED BY <3>2 DEF Receipt, Shown, Own
  <2> QED BY <2>1 DEF Own
<1>5. /\ up[x] # <<>> => Head(up[x]) \in S /\ Tail(up[x]) \in Seq(S)
      /\ out[x] # <<>> => Head(out[x]) \in S /\ Tail(out[x]) \in Seq(S)
  BY <1>1, HeadTailProperties
<1> HIDE DEF S
<1>6. /\ <<>> \in Seq(S')
      /\ \A k \in S : Append(up[x], k) \in Seq(S') /\ Append(out[x], k) \in Seq(S')
      /\ \A s \in Seq(S) : s \in Seq(S')
  BY <1>3, EmptySeq, AppendProperties, SeqMonotonic
<1>7. up'[x] \in Seq(S')
  BY <1>3, <1>4, <1>5, <1>6, UpSteps
<1>8. out'[x] \in Seq(S')
  BY <1>3, <1>4, <1>5, <1>6, OutSteps
<1>9. cmd'[x] \in S' \cup {NoCommand}
  BY <1>1, <1>3, <1>5, CmdSteps DEF S
<1> QED BY <1>7, <1>8, <1>9 DEF S

----------------------------------------------------------------------------
(* Frames. *)

LEMMA QuietIsLegal == Quiet \subseteq LegalStatement /\ Quiet \subseteq LegalStatement'
<1>1. \A s \in Quiet : s.do = "send" => s.frame \in Frame
  BY DEF Quiet, Statement
<1> QED BY <1>1 DEF Quiet, LegalStatement, LegalFrame

\* The backlog of a queue is for the one who subscribes to it.
LEMMA LegalReplay ==
  ASSUME ChatInv, NEW c \in Conns
  PROVE  Replays(Inbox(c), c) \subseteq Seq(LegalStatement)
<1> DEFINE q == Inbox(c)
           R == RowsOf(db, q)
<1>1. /\ db \in Database /\ IsFiniteSet(db.messages) /\ Rows /\ q \in Queues
  BY ChatConstants DEF ChatInv, Typed, TypeOK, Kept
<1>2. R \subseteq db.messages /\ R \subseteq Row /\ Cardinality(R) \in Nat
  BY <1>1, FS_Subset, FS_CardinalityType DEF RowsOf, Database
<1>3. ASSUME NEW row \in R
      PROVE  Send(c, Deliver(q, row.mid)) \in LegalStatement
  <2>1. row.mid \in Mids /\ row.mid \in accepted /\ Outbox[Author[row.mid]] = q
    BY <1>1, <1>2, <1>3 DEF Rows, RowsOf, Row
  <2>2. row.mid \in For(User[c])
    BY <2>1, QueueTellsReader DEF For
  <2>3. Send(c, Deliver(q, row.mid)) \in Statement
    BY <1>1, <2>1, FrameTypes DEF Send, Statement
  <2>4. Deliver(q, row.mid) \in LegalFrame(c)
    BY <1>1, <2>1, <2>2, FrameTypes DEF LegalFrame, Deliver
  <2> QED BY <2>3, <2>4 DEF LegalStatement, Send
<1>4. ASSUME NEW rows \in Undelivered(db, q)
      PROVE  [i \in DOMAIN rows |-> Send(c, Deliver(q, rows[i].mid))]
               \in Seq(LegalStatement)
  <2>1. rows \in [1 .. Cardinality(R) -> R]
    BY DEF Undelivered
  <2>2. [i \in DOMAIN rows |-> Send(c, Deliver(q, rows[i].mid))]
          \in [1 .. Cardinality(R) -> LegalStatement]
    BY <1>3, <2>1
  <2> QED BY <1>2, <2>2, SeqDef
<1>5. <<>> \in Seq(LegalStatement)
  BY EmptySeq
<1> QED BY <1>4, <1>5 DEF Replays

\* A message goes to its reader, if to anybody.
LEMMA LegalDelivery ==
  ASSUME ChatInv, NEW c \in Conns, NEW m \in Lines(c), accepted' = accepted \cup {m}
  PROVE  LET q == Outbox[User[c]]
         IN  [i \in DOMAIN Recipients(q) |-> Send(Recipients(q)[i], Deliver(q, m))]
               \in Seq(LegalStatement')
<1> DEFINE q == Outbox[User[c]]
           D == [i \in DOMAIN Recipients(q) |-> Send(Recipients(q)[i], Deliver(q, m))]
<1>1. q \in Queues /\ m \in Mids /\ Outbox[Author[m]] = q
  BY ChatConstants DEF Lines
<1> HIDE DEF q
<1>2. CASE sub[q] = Nobody
  <2>1. D = <<>>
    BY <1>2 DEF Recipients
  <2> QED BY <2>1, EmptySeq DEF q
<1>3. CASE sub[q] # Nobody
  <2>1. PICK x \in Conns : x = sub[q] /\ Inbox(x) = q
    BY <1>1, <1>3 DEF ChatInv, Typed, TypeOK, Kept, Subscribers
  <2>2. m \in For(User[x])'
    BY <1>1, <2>1, QueueTellsReader DEF For
  <2>3. Send(x, Deliver(q, m)) \in Statement
    BY <1>1, <2>1, FrameTypes DEF Send, Statement
  <2>4. Deliver(q, m) \in LegalFrame(x)'
    BY <1>1, <2>2, FrameTypes DEF LegalFrame, Deliver
  <2>5. Send(x, Deliver(q, m)) \in LegalStatement'
    BY <2>3, <2>4 DEF LegalStatement, Send, LegalFrame, For
  <2>6. D = <<Send(x, Deliver(q, m))>>
    BY <1>3, <2>1 DEF Recipients
  <2> QED BY <2>5, <2>6 DEF q
<1> QED BY <1>2, <1>3

LEMMA HandlersAreLegal ==
  ASSUME ChatInv, NEW c \in Conns, Handle(c)
  PROVE  hub' \in Seq(LegalStatement')
<1>1. \A s \in Seq(Quiet) : s \in Seq(LegalStatement')
  BY QuietIsLegal, SeqMonotonic
<1>2. CASE RefuseSub(c) \/ RefuseSend(c) \/ RefuseSave(c)
  <2>1. hub' = <<Send(c, Error)>>
    BY <1>2 DEF RefuseSub, RefuseSend, RefuseSave, Refuse
  <2>2. <<Send(c, Error)>> \in Seq(Quiet)
    BY QuietStatements
  <2> QED BY <1>1, <2>1, <2>2
<1>3. CASE HandleSub(c)
  <2>1. cmd[c].qid = Inbox(c) /\ accepted' = accepted /\ Inbox(c) \in Queues
    BY <1>3, ReceivedIsOwn, ChatConstants DEF HandleSub
  <2>2. PICK replay \in Replays(Inbox(c), c) : hub' = SubProgram(Inbox(c), c, replay)
    BY <1>3, <2>1 DEF HandleSub
  <2>3. replay \in Seq(LegalStatement')
    BY <2>1, LegalGrows, LegalReplay, SeqMonotonic
  <2>4. <<Send(c, SubOk(Inbox(c)))>> \in Seq(Quiet) /\ <<Touch(Inbox(c))>> \in Seq(Quiet)
    BY <2>1, QuietStatements
  <2> QED BY <1>1, <2>2, <2>3, <2>4, ConcatProperties DEF SubProgram
<1>4. CASE HandleSend(c)
  <2> DEFINE q == Outbox[User[c]]
             D(m) == [i \in DOMAIN Recipients(q) |->
                        Send(Recipients(q)[i], Deliver(q, m))]
  <2>1. PICK m \in Lines(c) :
          /\ q \in Queues /\ accepted' = accepted \cup {m}
          /\ hub' = D(m) \o Abbreviate(m) \o <<Send(c, Ack(q, m))>>
    BY <1>4, SendEffects
  <2>2. D(m) \in Seq(LegalStatement')
    BY <2>1, LegalDelivery
  <2> HIDE DEF D, q
  <2>3. Abbreviate(m) \in Seq(LegalStatement')
    BY <1>1, QuietSlices
  <2>4. <<Send(c, Ack(q, m))>> \in Seq(LegalStatement')
    <3>1. m \in Mids
      BY DEF Lines
    <3>2. Send(c, Ack(q, m)) \in Quiet
      BY <2>1, <3>1, QuietStatements
    <3>3. <<Send(c, Ack(q, m))>> \in Seq(Quiet)
      BY <3>2
    <3> QED BY <1>1, <3>3
  <2>5. D(m) \o Abbreviate(m) \in Seq(LegalStatement')
    BY <2>2, <2>3, ConcatProperties
  <2> QED BY <2>1, <2>4, <2>5, ConcatProperties
<1>5. CASE HandleAck(c)
  <2>1. hub' \in Seq([do : {"slice"}])
    BY <1>5, AckEffects
  <2>2. [do : {"slice"}] \subseteq Quiet
    BY DEF Quiet, Statement
  <2> QED BY <1>1, <2>1, <2>2, SeqMonotonic
<1> QED BY <1>2, <1>3, <1>4, <1>5, HandledCommands

LEMMA HubSteps ==
  ASSUME ChatInv, [ChatNext]_chatVars
  PROVE  \/ hub' \in {hub, <<>>}
         \/ hub # <<>> /\ hub' = Tail(hub)
         \/ \E c \in Conns : RelayHandles(c)
<1>1. CASE RelayRestarts \/ RelaySteps
  BY <1>1
  DEF RelayRestarts, Restart, RelaySteps, HubStep, SendFrame, TouchSubscribed, Current,
      SendOnClosed, SliceShortId, Panic, Reset
<1>2. ASSUME NEW c \in Conns,
             Arrive(c) \/ StopListening(c) \/ Emit(c) \/ Close(c) \/ RelayDeparts(c) \/ Cut(c)
               \/ StartUp(c) \/ Chatting(c)
      PROVE  hub' = hub
  BY <1>2
  DEF Arrive, ReadCommand, StopListening, StopReading, Emit, WriteFrame, Close,
      SeeClosedChannel, FailToWrite, StopWriting, RelayDeparts, Depart, Unregister,
      UnregisterLate, Leave, Cut, StartUp, Dial, Connect, Ask, Answered, Refused, GiveUp,
      End, Chatting, Type, Quit, Transmit, FailToTransmit, Read, Acknowledge, Notice, vars
<1>3. CASE UNCHANGED chatVars
  BY <1>3 DEF chatVars, vars
<1> QED BY <1>1, <1>2, <1>3 DEF ChatNext, RelayEnd

LEMMA SendSteps ==
  ASSUME ChatInv, [ChatNext]_chatVars, NEW x \in Conns
  PROVE  \/ send'[x] \in {send[x], <<>>}
         \/ send[x] # <<>> /\ send'[x] = Tail(send[x])
         \/ /\ hub # <<>> /\ Head(hub).do = "send" /\ Head(hub).to = x
            /\ send'[x] = Append(send[x], Head(hub).frame)
<1>1. send \in [Conns -> Seq(Frame)]
  BY DEF ChatInv, Typed, TypeOK
<1>2. CASE SendFrame
  BY <1>1, <1>2 DEF SendFrame, SendEnvelope, Current
<1>3. CASE Restart \/ SendOnClosed \/ SliceShortId
  BY <1>3 DEF Restart, SendOnClosed, SliceShortId, Panic, Reset
<1>4. ASSUME NEW c \in Conns, Emit(c)
      PROVE  send'[x] = send[x] \/ (send[x] # <<>> /\ send'[x] = Tail(send[x]))
  BY <1>1, <1>4 DEF Emit, WriteFrame
<1>5. ASSUME NEW c \in Conns, RelayHandles(c) PROVE send' = send
  BY <1>5
  DEF RelayHandles, Handle, RefuseNew, HandleNew, RefuseSub, HandleSub, RefuseSend,
      RefuseSave, HandleSend, HandleAck, HandleOther, Receive
<1>6. ASSUME NEW c \in Conns,
             Arrive(c) \/ StopListening(c) \/ Close(c) \/ RelayDeparts(c) \/ Cut(c)
               \/ StartUp(c) \/ Chatting(c)
      PROVE  send' = send
  BY <1>6
  DEF Arrive, ReadCommand, StopListening, StopReading, Close, SeeClosedChannel, FailToWrite,
      StopWriting, RelayDeparts, Depart, Unregister, UnregisterLate, Leave, Cut, StartUp,
      Dial, Connect, Ask, Answered, Refused, GiveUp, End, Chatting, Type, Quit, Transmit,
      FailToTransmit, Read, Acknowledge, Notice, vars, pumps
<1>7. CASE TouchSubscribed \/ UNCHANGED chatVars
  BY <1>7 DEF TouchSubscribed, chatVars, vars, pumps
<1> QED BY <1>2, <1>3, <1>4, <1>5, <1>6, <1>7
        DEF ChatNext, RelayRestarts, RelaySteps, HubStep, RelayEnd

LEMMA DownSteps ==
  ASSUME ChatInv, [ChatNext]_chatVars, NEW x \in Conns
  PROVE  \/ down'[x] \in {down[x], <<>>}
         \/ down[x] # <<>> /\ down'[x] = Tail(down[x])
         \/ send[x] # <<>> /\ down'[x] = Append(down[x], Head(send[x]))
<1>1. down \in [Conns -> Seq(Frame)]
  BY DEF ChatInv, ChatTypeOK
<1>2. ASSUME NEW c \in Conns, Emit(c)
      PROVE  down'[x] = down[x] \/ (send[x] # <<>> /\ down'[x] = Append(down[x], Head(send[x])))
  BY <1>1, <1>2 DEF Emit, WriteFrame
<1>3. ASSUME NEW c \in Conns, Answered(c) \/ Read(c)
      PROVE  down'[x] = down[x] \/ (down[x] # <<>> /\ down'[x] = Tail(down[x]))
  BY <1>1, <1>3 DEF Answered, Awaits, Read
<1>4. ASSUME NEW c \in Conns, End(c) \/ Notice(c)
      PROVE  down'[x] \in {down[x], <<>>}
  BY <1>1, <1>4 DEF End, Notice
<1>5. CASE RelayRestarts \/ RelaySteps \/ UNCHANGED chatVars
  BY <1>5 DEF RelayRestarts, RelaySteps, Disconnected, network, chatVars
<1>6. ASSUME NEW c \in Conns,
             Arrive(c) \/ StopListening(c) \/ Close(c) \/ RelayHandles(c) \/ RelayDeparts(c)
               \/ Cut(c)
      PROVE  down' = down
  BY <1>6 DEF Arrive, StopListening, Close, RelayHandles, RelayDeparts, Cut, network
<1>7. ASSUME NEW c \in Conns, Dial(c) \/ Ask(c) \/ Transmit(c) \/ FailToTransmit(c)
               \/ Acknowledge(c) \/ \E m \in Mids : Type(c, m)
      PROVE  down' = down
  BY <1>7 DEF Dial, Ask, Transmit, FailToTransmit, Acknowledge, Type, network
<1> QED BY <1>2, <1>3, <1>4, <1>5, <1>6, <1>7
        DEF ChatNext, RelayEnd, StartUp, Refused, GiveUp, Chatting, Quit

LEMMA FramesNext ==
  ASSUME ChatInv, [ChatNext]_chatVars
  PROVE  Frames'
<1>1. accepted \subseteq accepted'
  BY ChatStepIsHubStep, AcceptedGrows
<1>2. Frames
  BY DEF ChatInv, Kept
<1>3. hub' \in Seq(LegalStatement')
  <2>1. \A s \in Seq(LegalStatement) : s \in Seq(LegalStatement')
    BY <1>1, LegalGrows, SeqMonotonic
  <2>2. hub # <<>> => Tail(hub) \in Seq(LegalStatement)
    BY <1>2, HeadTailProperties DEF Frames
  <2>3. <<>> \in Seq(LegalStatement)
    BY EmptySeq
  <2> QED BY <1>2, <2>1, <2>2, <2>3, HubSteps, HandlersAreLegal DEF Frames, RelayHandles
<1>4. ASSUME NEW x \in Conns
      PROVE  send'[x] \in Seq(LegalFrame(x)') /\ down'[x] \in Seq(LegalFrame(x)')
  <2> DEFINE S == LegalFrame(x)
             T == LegalFrame(x)'
  <2>1. S \subseteq T
    BY <1>1, LegalGrows
  <2>2. send[x] \in Seq(S) /\ down[x] \in Seq(S)
    BY <1>2 DEF Frames
  <2>3. hub # <<>> /\ Head(hub).do = "send" /\ Head(hub).to = x => Head(hub).frame \in S
    <3>1. hub # <<>> => Head(hub) \in LegalStatement
      BY <1>2, HeadTailProperties DEF Frames
    <3> QED BY <3>1 DEF LegalStatement
  <2> HIDE DEF S, T
  <2>4. /\ <<>> \in Seq(T)
        /\ \A s \in Seq(S) : s \in Seq(T) /\ \A f \in S : Append(s, f) \in Seq(T)
    BY <2>1, EmptySeq, SeqMonotonic, AppendProperties
  <2>5. /\ send[x] # <<>> => Head(send[x]) \in S /\ Tail(send[x]) \in Seq(S)
        /\ down[x] # <<>> => Tail(down[x]) \in Seq(S)
    BY <2>2, HeadTailProperties
  <2>6. send'[x] \in Seq(T)
    BY <2>2, <2>3, <2>4, <2>5, SendSteps
  <2>7. down'[x] \in Seq(T)
    BY <2>2, <2>4, <2>5, DownSteps
  <2> QED BY <2>6, <2>7 DEF T
<1> QED BY <1>3, <1>4 DEF Frames

----------------------------------------------------------------------------
(* The invariant holds always. *)

LEMMA ChatInvInit == ChatInit => ChatInv
<1> SUFFICES ASSUME ChatInit PROVE ChatInv
  OBVIOUS
<1>1. Typed
  BY TypedInit DEF ChatInit
<1>2. \A S : <<>> \in Seq(S)
  BY EmptySeq
<1>3. ChatTypeOK
  <2>1. Len(<<>>) <= ClientCap
    BY ChatConstants
  <2> QED BY <1>1, <1>2, <2>1 DEF ChatInit, ChatTypeOK, Typed
<1>4. Rows /\ Subscribers
  <2>1. db.messages = {} /\ \A q \in Queues : sub[q] = Nobody
    BY DEF ChatInit, Init, DatabaseWith
  <2> QED BY <2>1 DEF Rows, Subscribers
<1>5. Frames /\ Orders /\ Screens
  BY <1>2 DEF ChatInit, Init, Frames, Orders, Screens
<1> QED BY <1>1, <1>3, <1>4, <1>5 DEF ChatInv, Kept

LEMMA ChatInvNext == ChatInv /\ [ChatNext]_chatVars => ChatInv'
<1> SUFFICES ASSUME ChatInv, [ChatNext]_chatVars PROVE ChatInv'
  OBVIOUS
<1>1. [Next]_vars
  BY ChatStepIsHubStep
<1>2. Rows' /\ Subscribers' /\ accepted \subseteq accepted'
  BY <1>1, RowsNext, SubscribersNext, AcceptedGrows
<1>3. Frames' /\ Orders' /\ Screens'
  BY <1>2, FramesNext, OrdersNext, ScreensNext
<1> QED BY <1>2, <1>3, ChatTypesNext DEF ChatInv, Kept

LEMMA ChatInvAlways == ChatSpec => []ChatInv
BY ChatInvInit, ChatInvNext, PTL DEF ChatSpec

\* The types of relay, network and clients, with the capacities of their
\* channels: a blocked receipt and a dropped frame keep them.
THEOREM ChatTypeCorrect == ChatSpec => []ChatTypeOK
<1>1. ChatInv => ChatTypeOK
  BY DEF ChatInv
<1> QED BY <1>1, ChatInvAlways, PTL

\* The clients are clients of the hub: every chat is a behaviour of module
\* Hub, so whatever is a theorem there holds of chats.
THEOREM ChatImplementsHub == ChatSpec => Spec
<1>1. ChatInit => Init
  BY DEF ChatInit
<1>2. ChatInv /\ [ChatNext]_chatVars => [Next]_vars
  BY ChatStepIsHubStep
<1> QED BY <1>1, <1>2, ChatInvAlways, PTL DEF ChatSpec, Spec

----------------------------------------------------------------------------
(* Chats are a mailbox. *)

Seen == [u \in Users |-> SeenBy(u)]

\* A command is taken in a step of its own: nothing is shown at the same time.
LEMMA HandlingShowsNothing ==
  ASSUME ChatInv, [ChatNext]_chatVars, NEW c \in Conns, HandleSend(c) \/ HandleAck(c)
  PROVE  Seen' = Seen
<1>1. reader' # reader
  <2>1. reader \in [Conns -> {"absent", "reading", "routing", "leaving", "done"}]
    BY DEF ChatInv, Typed, TypeOK
  <2>2. reader[c] = "routing" /\ reader' = [reader EXCEPT ![c] = "reading"]
    BY DEF HandleSend, HandleAck, Receive
  <2> QED BY <2>1, <2>2
<1>2. \A x \in Conns : ~ Read(x)
  BY <1>1 DEF Read, vars, pumps
<1> QED BY <1>2, OnlyReadShows DEF Seen, SeenBy, Shown

LEMMA SendIsPost ==
  ASSUME ChatInv, [ChatNext]_chatVars, NEW c \in Conns, HandleSend(c)
  PROVE  M!MailNext
<1>1. PICK m \in Lines(c) :
        /\ ~ MidStored(db, m) /\ accepted' = accepted \cup {m}
        /\ db'.messages = db.messages \cup
             {[mid |-> m, qid |-> Outbox[User[c]], at |-> db.arrivals]}
  BY SendEffects
<1>2. m \in Mids /\ m \notin StoredMids
  BY <1>1 DEF Lines, StoredMids, MidStored
<1>3. StoredMids' = StoredMids \cup {m}
  <2> DEFINE new == [mid |-> m, qid |-> Outbox[User[c]], at |-> db.arrivals]
  <2>1. db'.messages = db.messages \cup {new} /\ new.mid = m
    BY <1>1
  <2> HIDE DEF new
  <2> QED BY <2>1 DEF StoredMids
<1>4. M!Post(m)
  BY <1>1, <1>2, <1>3, HandlingShowsNothing DEF M!Post, Seen
<1> QED BY <1>2, <1>4 DEF M!MailNext

LEMMA AckIsRetire ==
  ASSUME ChatInv, [ChatNext]_chatVars, NEW c \in Conns, HandleAck(c)
  PROVE  M!MailNext \/ UNCHANGED M!mailVars
<1>1. accepted' = accepted /\ Seen' = Seen
  BY AckEffects, HandlingShowsNothing
<1>2. CASE db'.messages = db.messages
  BY <1>1, <1>2 DEF StoredMids, M!mailVars, Seen
<1>3. ASSUME NEW m \in Shown(c), db'.messages = {row \in db.messages : row.mid # m}
      PROVE  M!MailNext \/ UNCHANGED M!mailVars
  <2>1. m \in Mids /\ Reader[m] = User[c] /\ User[c] \in Users
    BY ShownIsLegal, ChatConstants DEF ChatInv, Kept, For, Typed, TypeOK
  <2>2. m \in Seen[Reader[m]]
    BY <1>3, <2>1 DEF Seen, SeenBy
  <2>3. StoredMids' = StoredMids \ {m}
    BY <1>3 DEF StoredMids
  <2>4. CASE m \in StoredMids
    <3>1. M!Retire(m)
      BY <1>1, <2>2, <2>3, <2>4 DEF M!Retire, Seen
    <3> QED BY <2>1, <3>1 DEF M!MailNext
  <2>5. CASE m \notin StoredMids
    BY <1>1, <2>3, <2>5 DEF M!mailVars, Seen
  <2> QED BY <2>4, <2>5
<1> QED BY <1>2, <1>3, AckEffects

LEMMA ReadIsShow ==
  ASSUME ChatInv, NEW c \in Conns, Read(c)
  PROVE  M!MailNext \/ UNCHANGED M!mailVars
<1>1. accepted' = accepted /\ StoredMids' = StoredMids
  BY DEF Read, vars, history, StoredMids
<1>2. CASE screen' = screen
  BY <1>1, <1>2 DEF M!mailVars, SeenBy, Shown
<1>3. CASE screen' # screen
  <2> DEFINE m == Head(down[c]).mid
  <2>1. /\ screen' = [screen EXCEPT ![c] = Append(screen[c], m)]
        /\ Head(down[c]).type = "DELIVER" /\ down[c] # <<>>
    BY <1>3 DEF Read
  <2>2. m \in accepted /\ m \in Mids /\ Reader[m] = User[c]
    BY <2>1, NextFrame DEF LegalFrame, For, ChatInv, Typed, TypeOK
  <2> HIDE DEF m
  <2>3. screen \in [Conns -> Seq(Mids)]
    BY DEF ChatInv, ChatTypeOK
  <2>4. Shown(c)' = Shown(c) \cup {m}
    <3>1. /\ Len(Append(screen[c], m)) = Len(screen[c]) + 1
          /\ \A i \in 1 .. Len(screen[c]) : Append(screen[c], m)[i] = screen[c][i]
          /\ Append(screen[c], m)[Len(screen[c]) + 1] = m
          /\ DOMAIN Append(screen[c], m) = 1 .. (Len(screen[c]) + 1)
          /\ DOMAIN screen[c] = 1 .. Len(screen[c]) /\ Len(screen[c]) \in Nat
      BY <2>2, <2>3, AppendProperties, LenProperties
    <3>2. 1 .. (Len(screen[c]) + 1) = 1 .. Len(screen[c]) \cup {Len(screen[c]) + 1}
      BY <3>1
    <3>3. screen'[c] = Append(screen[c], m)
      BY <2>1, <2>3
    <3> QED BY <3>1, <3>2, <3>3 DEF Shown
  <2>5. \A x \in Conns \ {c} : Shown(x)' = Shown(x)
    BY <2>1, <2>3 DEF Shown
  <2>6. \A u \in Users :
          SeenBy(u)' = IF u = User[c] THEN SeenBy(u) \cup {m} ELSE SeenBy(u)
    BY <2>4, <2>5 DEF SeenBy
  <2>7. Seen' = [Seen EXCEPT ![Reader[m]] = @ \cup {m}]
    BY <2>2, <2>6 DEF Seen
  <2>8. M!Show(m)
    BY <1>1, <2>2, <2>7 DEF M!Show, Seen
  <2> QED BY <2>2, <2>8 DEF M!MailNext
<1> QED BY <1>2, <1>3

LEMMA ChatStepIsMailStep ==
  ASSUME ChatInv, [ChatNext]_chatVars
  PROVE  [M!MailNext]_(M!mailVars)
<1>1. CASE \E c \in Conns : HandleSend(c)
  BY <1>1, SendIsPost
<1>2. CASE \E c \in Conns : HandleAck(c)
  BY <1>2, AckIsRetire
<1>3. CASE \E c \in Conns : Read(c)
  BY <1>3, ReadIsShow
<1>4. CASE \A c \in Conns : ~ HandleSend(c) /\ ~ HandleAck(c) /\ ~ Read(c)
  <2>1. db'.messages = db.messages /\ accepted' = accepted
    BY <1>4, ChatStepIsHubStep, OtherStepsKeepMessages
  <2>2. screen' = screen
    BY <1>4, OnlyReadShows
  <2> QED BY <2>1, <2>2 DEF M!mailVars, StoredMids, SeenBy, Shown
<1> QED BY <1>1, <1>2, <1>3, <1>4

\* Chats through the relay implement the mailbox: what was acknowledged is
\* deleted only when it has been on the screen of the one it is for, and
\* nobody else ever sees it, whatever breaks, restarts or overflows.
THEOREM ChatImplementsMailbox == ChatSpec => IsMailbox
<1>1. ChatInit => M!MailInit
  <2> SUFFICES ASSUME ChatInit PROVE M!MailInit
    OBVIOUS
  <2>1. accepted = {} /\ StoredMids = {}
    BY DEF ChatInit, Init, DatabaseWith, StoredMids
  <2>2. \A c \in Conns : Shown(c) = {}
    BY DEF ChatInit, Shown
  <2>3. \A u \in Users : SeenBy(u) = {}
    BY <2>2 DEF SeenBy
  <2> QED BY <2>1, <2>3 DEF M!MailInit
<1>2. ChatInv /\ [ChatNext]_chatVars => [M!MailNext]_(M!mailVars)
  BY ChatStepIsMailStep
<1> QED BY <1>1, <1>2, ChatInvAlways, PTL DEF ChatSpec, IsMailbox, M!MailSpec

\* So an acknowledged message is in the database, or the one it is for has
\* had it on the screen.
THEOREM NothingIsLost == ChatSpec => []M!KeptUntilShown
<1>1. M!MailInit => M!KeptUntilShown
  BY DEF M!MailInit, M!KeptUntilShown
<1>2. ChatInv /\ M!KeptUntilShown /\ [M!MailNext]_(M!mailVars) => M!KeptUntilShown'
  <2> SUFFICES ASSUME ChatInv, M!KeptUntilShown, [M!MailNext]_(M!mailVars)
               PROVE  M!KeptUntilShown'
    OBVIOUS
  <2>1. \A m \in accepted : Reader[m] \in Users
    BY ChatConstants DEF ChatInv, Typed, TypeOK
  <2>2. Seen = [u \in Users |-> SeenBy(u)] /\ Seen' = [u \in Users |-> SeenBy(u)']
    BY DEF Seen
  <2>3. \A m \in accepted : m \in StoredMids \/ m \in Seen[Reader[m]]
    BY DEF M!KeptUntilShown, Seen
  <2>4. ASSUME NEW n \in Mids, M!Post(n)
        PROVE  M!KeptUntilShown'
    BY <2>3, <2>4 DEF M!Post, M!KeptUntilShown, Seen
  <2>5. ASSUME NEW n \in Mids, M!Show(n)
        PROVE  M!KeptUntilShown'
    <3>1. /\ accepted' = accepted /\ StoredMids' = StoredMids
          /\ Seen' = [Seen EXCEPT ![Reader[n]] = @ \cup {n}]
      BY <2>5 DEF M!Show, Seen
    <3>2. DOMAIN Seen = Users
      BY <2>2
    <3>3. \A u \in Users : Seen[u] \subseteq Seen'[u]
      BY <3>1, <3>2
    <3> QED BY <2>1, <2>3, <3>1, <3>3 DEF M!KeptUntilShown, Seen
  <2>6. ASSUME NEW n \in Mids, M!Retire(n)
        PROVE  M!KeptUntilShown'
    BY <2>3, <2>6 DEF M!Retire, M!KeptUntilShown, Seen
  <2>7. CASE UNCHANGED M!mailVars
    BY <2>7 DEF M!mailVars, M!KeptUntilShown
  <2> QED BY <2>4, <2>5, <2>6, <2>7 DEF M!MailNext
<1> QED BY <1>1, <1>2, ChatInvAlways, ChatImplementsMailbox, PTL
        DEF IsMailbox, M!MailSpec

=============================================================================
