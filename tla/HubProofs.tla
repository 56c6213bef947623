------------------------------ MODULE HubProofs ------------------------------
(***************************************************************************)
(* What holds of the relay for any number of connections, queues and       *)
(* messages, any vocabulary of the clients and any choice of faults.       *)
(***************************************************************************)
EXTENDS Hub, StoreProofs, FiniteSetTheorems, FunctionTheorems, SequenceTheorems, TLAPS

----------------------------------------------------------------------------
(* Frames. *)

LEMMA FrameTypes ==
  /\ Error \in Frame /\ Pong \in Frame
  /\ \A q \in Queues : NewOk(q) \in Frame /\ SubOk(q) \in Frame
  /\ \A q \in Queues, m \in Mids : Deliver(q, m) \in Frame /\ Ack(q, m) \in Frame
BY DEF Frame, Error, Pong, NewOk, SubOk, Deliver, Ack

\* A frame that delivers names the message.
LEMMA DeliverNamesMessage ==
  ASSUME NEW f \in Frame, f.type = "DELIVER"
  PROVE  f.mid \in Mids
BY DEF Frame

LEMMA CapacityType == SendCap \in Nat /\ 0 <= SendCap
BY HubAssumption

----------------------------------------------------------------------------
(* The database. *)

\* A touch, done or failed, leaves a database.
LEMMA TouchedType ==
  ASSUME NEW d \in Database, NEW q \in Queues
  PROVE  Touched(d, q) \subseteq Database
BY QueueStatementTypes DEF Touched, Database, Row, Ages, TouchQueue, QueueExists

\* The replay of finitely many stored rows is a sequence of statements.
LEMMA ReplayTypes ==
  ASSUME NEW q \in Queues, NEW c \in Conns, db \in Database,
         IsFiniteSet(db.messages)
  PROVE  Replays(q, c) \subseteq Seq(Statement)
<1> DEFINE R == RowsOf(db, q)
<1>1. R \subseteq db.messages /\ R \subseteq Row
  BY DEF RowsOf, Database
<1>2. IsFiniteSet(R)
  BY <1>1, FS_Subset
<1>3. Cardinality(R) \in Nat
  BY <1>2, FS_CardinalityType
<1>4. ASSUME NEW rows \in Undelivered(db, q)
      PROVE  [i \in DOMAIN rows |-> Send(c, Deliver(q, rows[i].mid))]
               \in Seq(Statement)
  <2>1. rows \in [1 .. Cardinality(R) -> Row]
    BY <1>1 DEF Undelivered
  <2>2. \A i \in 1 .. Cardinality(R) :
          Send(c, Deliver(q, rows[i].mid)) \in Statement
    <3>1. \A i \in 1 .. Cardinality(R) : rows[i].mid \in Mids
      BY <2>1 DEF Row
    <3> QED BY <3>1, FrameTypes DEF Send, Statement
  <2>3. [i \in DOMAIN rows |-> Send(c, Deliver(q, rows[i].mid))]
          \in [1 .. Cardinality(R) -> Statement]
    BY <2>1, <2>2
  <2> QED BY <2>3, <1>3, SeqDef
<1>5. <<>> \in Seq(Statement)
  OBVIOUS
<1> QED BY <1>4, <1>5 DEF Replays

----------------------------------------------------------------------------
(* Types. *)

Typed == TypeOK /\ IsFiniteSet(db.messages)

LEMMA TailStaysBounded ==
  ASSUME NEW s \in Seq(Frame), s # <<>>, Len(s) <= SendCap
  PROVE  Tail(s) \in Seq(Frame) /\ Len(Tail(s)) <= SendCap
<1>1. Tail(s) \in Seq(Frame) /\ Len(Tail(s)) = Len(s) - 1
  BY HeadTailProperties
<1>2. Len(s) \in Nat /\ SendCap \in Nat
  BY CapacityType, LenProperties
<1> QED BY <1>1, <1>2

\* Every statement of a handler is one of these.
LEMMA HandlerTypes ==
  ASSUME NEW c \in Conns, NEW q \in Queues, NEW m \in Mids
  PROVE  /\ <<Send(c, Error)>> \in Seq(Statement)
         /\ <<Send(c, NewOk(q))>> \in Seq(Statement)
         /\ <<Send(c, SubOk(q))>> \in Seq(Statement)
         /\ <<Send(c, Ack(q, m))>> \in Seq(Statement)
         /\ <<Send(c, Deliver(q, m))>> \in Seq(Statement)
         /\ <<Touch(q)>> \in Seq(Statement)
<1>1. /\ Send(c, Error) \in Statement
      /\ Send(c, NewOk(q)) \in Statement
      /\ Send(c, SubOk(q)) \in Statement
      /\ Send(c, Ack(q, m)) \in Statement
      /\ Send(c, Deliver(q, m)) \in Statement
      /\ Touch(q) \in Statement
  BY FrameTypes DEF Send, Touch, Statement
<1> QED BY <1>1

LEMMA AbbreviateType ==
  ASSUME NEW id
  PROVE  Abbreviate(id) \in Seq(Statement)
<1>1. [do |-> "slice"] \in Statement
  BY DEF Statement
<1> QED BY <1>1 DEF Abbreviate

\* The process ends or starts over.
LEMMA TypedReset ==
  ASSUME Typed, Reset,
         process' \in {"up", "send on closed channel", "slice bounds out of range"}
  PROVE  Typed'
<1>1. /\ clients' \subseteq Conns /\ cached' \subseteq Queues
      /\ closed' \subseteq Conns
  BY DEF Reset
<1>7. hub' \in Seq(Statement)
  BY EmptySeq DEF Reset
<1>2. /\ owner' \in [Queues -> Conns \cup {Nobody}]
      /\ sub' \in [Queues -> Conns \cup {Nobody}]
      /\ \A q \in Queues \ cached' : owner'[q] = Nobody /\ sub'[q] = Nobody
  BY DEF Reset
<1>3. /\ reader' \in [Conns -> {"absent", "reading", "routing", "leaving", "done"}]
      /\ writer' \in [Conns -> {"absent", "running", "done"}]
      /\ cmd' \in [Conns -> Command \cup {NoCommand}]
  BY DEF Reset, Typed, TypeOK
<1>4. /\ send' \in [Conns -> Seq(Frame)]
      /\ \A c \in Conns : Len(send'[c]) <= SendCap
  <2>1. send' = [c \in Conns |-> <<>>]
    BY DEF Reset
  <2>2. <<>> \in Seq(Frame) /\ Len(<<>>) = 0
    BY EmptySeq
  <2>3. 0 <= SendCap
    BY CapacityType
  <2> QED BY <2>1, <2>2, <2>3
<1>5. /\ granted' \in [Conns -> SUBSET Queues]
      /\ offered' \in [Conns -> SUBSET Mids]
  BY DEF Reset
<1>6. /\ db' \in Database /\ IsFiniteSet(db.messages)'
      /\ accepted' \subseteq Mids /\ retired' \subseteq Mids /\ issued' \subseteq Queues
  BY DEF Reset, Typed, TypeOK
<1> QED BY <1>1, <1>2, <1>3, <1>4, <1>5, <1>6, <1>7 DEF Typed, TypeOK

\* A frame is put into a channel that is open.
LEMMA TypedSend ==
  ASSUME TypeOK, NEW c \in Conns, NEW f \in Frame, SendEnvelope(c, f)
  PROVE  /\ send' \in [Conns -> Seq(Frame)]
         /\ \A x \in Conns : Len(send'[x]) <= SendCap
<1>1. /\ send[c] \in Seq(Frame) /\ send \in [Conns -> Seq(Frame)]
      /\ \A x \in Conns : Len(send[x]) <= SendCap
  BY DEF TypeOK
<1>2. CASE Len(send[c]) < SendCap
  <2>1. send' = [send EXCEPT ![c] = Append(send[c], f)]
    BY <1>2 DEF SendEnvelope
  <2>2. /\ Append(send[c], f) \in Seq(Frame)
        /\ Len(Append(send[c], f)) = Len(send[c]) + 1
    BY <1>1, AppendProperties
  <2>3. Len(send[c]) \in Nat /\ SendCap \in Nat
    BY <1>1, CapacityType, LenProperties
  <2>4. Len(Append(send[c], f)) <= SendCap
    BY <1>2, <2>2, <2>3
  <2> QED BY <1>1, <2>1, <2>2, <2>4
<1>3. CASE ~ (Len(send[c]) < SendCap)
  BY <1>1, <1>3 DEF SendEnvelope
<1> QED BY <1>2, <1>3

LEMMA TypedPumps ==
  ASSUME Typed, NEW c \in Conns, Connect(c) \/ PumpStep(c)
  PROVE  Typed'
<1> USE HubAssumption DEF Typed, TypeOK, memory, pumps, history
<1>1. CASE Connect(c)
  BY <1>1 DEF Connect
<1>2. ASSUME NEW k \in Vocabulary, ReadCommand(c, k)
      PROVE  Typed'
  BY <1>2 DEF ReadCommand
<1>3. ASSUME NEW k \in Vocabulary, AnswerInPlace(c, k)
      PROVE  Typed'
  <2>1. Pong \in Frame /\ Error \in Frame
    BY FrameTypes
  <2>2. /\ send' \in [Conns -> Seq(Frame)]
        /\ \A x \in Conns : Len(send'[x]) <= SendCap
    BY <1>3, <2>1, TypedSend DEF AnswerInPlace
  <2> QED BY <1>3, <2>2 DEF AnswerInPlace
<1>4. CASE StopReading(c)
  BY <1>4 DEF StopReading
<1>5. CASE WriteFrame(c)
  <2>1. Tail(send[c]) \in Seq(Frame) /\ Len(Tail(send[c])) <= SendCap
    BY <1>5, TailStaysBounded DEF WriteFrame
  <2> QED BY <1>5, <2>1 DEF WriteFrame
<1>6. CASE StopWriting(c)
  BY <1>6 DEF StopWriting
<1> QED BY <1>1, <1>2, <1>3, <1>4, <1>5, <1>6
        DEF PumpStep, SeeClosedChannel, FailToWrite

LEMMA TypedHub ==
  ASSUME Typed, HubStep
  PROVE  Typed'
<1> USE DEF Typed
<1>1. CASE SendFrame
  <2>1. /\ Head(hub) \in Statement /\ Tail(hub) \in Seq(Statement)
        /\ Head(hub).do = "send"
    BY <1>1, HeadTailProperties DEF TypeOK, SendFrame, Current
  <2>2. Head(hub).to \in Conns /\ Head(hub).frame \in Frame
    BY <2>1 DEF Statement
  <2>3. /\ send' \in [Conns -> Seq(Frame)]
        /\ \A x \in Conns : Len(send'[x]) <= SendCap
    BY <1>1, <2>2, TypedSend DEF SendFrame
  <2>4. offered' \in [Conns -> SUBSET Mids]
    <3>1. Head(hub).frame.type = "DELIVER" => Head(hub).frame.mid \in Mids
      BY <2>2, DeliverNamesMessage
    <3> QED BY <1>1, <2>2, <3>1 DEF SendFrame, TypeOK
  <2> QED BY <1>1, <2>1, <2>3, <2>4 DEF TypeOK, SendFrame, memory
<1>2. CASE TouchSubscribed
  <2>1. /\ Head(hub) \in Statement /\ Tail(hub) \in Seq(Statement)
        /\ Head(hub).do = "touch"
    BY <1>2, HeadTailProperties DEF TypeOK, TouchSubscribed, Current
  <2>2. Head(hub).qid \in Queues
    BY <2>1 DEF Statement
  <2>3. db' \in Database /\ db'.messages = db.messages
    BY <1>2, <2>2, TouchedType
    DEF TypeOK, TouchSubscribed, Touched, TouchQueue, Database
  <2> QED BY <1>2, <2>1, <2>3 DEF TypeOK, TouchSubscribed, memory, pumps, history
<1>3. CASE SendOnClosed
  BY <1>3, TypedReset DEF SendOnClosed, Panic
<1>4. CASE SliceShortId
  BY <1>4, TypedReset DEF SliceShortId, Panic
<1> QED BY <1>1, <1>2, <1>3, <1>4 DEF HubStep

\* What a handler does to its sender's pumps, and what it leaves alone.
LEMMA TypedReceive ==
  ASSUME TypeOK, NEW c \in Conns, NEW type, Receive(c, type)
  PROVE  /\ reader' \in [Conns -> {"absent", "reading", "routing", "leaving", "done"}]
         /\ writer' \in [Conns -> {"absent", "running", "done"}]
         /\ cmd' \in [Conns -> Command \cup {NoCommand}]
         /\ send' \in [Conns -> Seq(Frame)]
         /\ \A x \in Conns : Len(send'[x]) <= SendCap
         /\ cmd[c] \in Command \cup {NoCommand}
BY DEF TypeOK, Receive

\* A refusal: one more statement for the hub, and perhaps a revived entry.
LEMMA TypedRefusal ==
  ASSUME Typed, NEW c \in Conns, NEW type, Receive(c, type), Refuse(c),
         cached \subseteq cached', cached' \subseteq Queues,
         UNCHANGED <<db, process, clients, owner, sub, closed, history>>
  PROVE  Typed'
<1>1. hub' \in Seq(Statement)
  <2>1. Send(c, Error) \in Statement
    BY FrameTypes DEF Send, Statement
  <2> QED BY <2>1 DEF Refuse
<1> QED BY <1>1, TypedReceive DEF Typed, TypeOK, history

LEMMA TypedDepart ==
  ASSUME Typed, NEW c \in Conns, Depart(c)
  PROVE  Typed'
<1>1. CASE Unregister(c)
  <2>1. /\ owner' \in [Queues -> Conns \cup {Nobody}]
        /\ sub' \in [Queues -> Conns \cup {Nobody}]
        /\ cached' \subseteq Queues
        /\ \A q \in Queues \ cached' : owner'[q] = Nobody /\ sub'[q] = Nobody
    BY <1>1 DEF Unregister, ReleaseQueue, Typed, TypeOK
  <2>2. /\ clients' \subseteq Conns /\ closed' \subseteq Conns
        /\ process' \in {"up", "send on closed channel", "close of closed channel",
                        "slice bounds out of range"}
    BY <1>1 DEF Unregister, CloseChannels, Typed, TypeOK
  <2>3. reader' \in [Conns -> {"absent", "reading", "routing", "leaving", "done"}]
    BY <1>1 DEF Unregister, Leave, Typed, TypeOK
  <2> QED BY <1>1, <2>1, <2>2, <2>3 DEF Unregister, Leave, Typed, TypeOK, history
<1>2. CASE UnregisterLate(c)
  BY <1>2 DEF UnregisterLate, Leave, Typed, TypeOK, memory, history
<1> QED BY <1>1, <1>2 DEF Depart

LEMMA TypedNew ==
  ASSUME Typed, NEW c \in Conns, HandleNew(c)
  PROVE  Typed'
<1>1. PICK q \in FreshQueues :
        /\ \E d \in Created(q) : db' \in Touched(d, q)
        /\ cached' = cached \cup {q}
        /\ owner' = [owner EXCEPT ![q] = c]
        /\ sub' = [sub EXCEPT ![q] = Nobody]
        /\ hub' = <<Send(c, NewOk(q))>>
        /\ issued' = issued \cup {q}
  BY DEF HandleNew
<1>2. q \in Queues
  BY DEF FreshQueues
<1>3. db' \in Database /\ db'.messages = db.messages
  <2>1. db \in Database
    BY DEF Typed, TypeOK
  <2>2. db' \in Touched(CreateQueue(db, q), q)
    BY <1>1 DEF Created
  <2>3. CreateQueue(db, q) \in Database /\ CreateQueue(db, q).messages = db.messages
    BY <1>2, <2>1 DEF CreateQueue, Database, Ages
  <2> QED BY <1>2, <2>2, <2>3, TouchedType DEF Touched, TouchQueue, Database
<1>4. hub' \in Seq(Statement)
  <2>1. Send(c, NewOk(q)) \in Statement
    BY <1>2, FrameTypes DEF Send, Statement
  <2> QED BY <1>1, <2>1
<1>5. Receive(c, "NEW")
  BY DEF HandleNew
<1> QED BY <1>1, <1>2, <1>3, <1>4, <1>5, TypedReceive DEF HandleNew, Typed, TypeOK

LEMMA TypedSub ==
  ASSUME Typed, NEW c \in Conns, HandleSub(c)
  PROVE  Typed'
<1> DEFINE q == cmd[c].qid
<1>1. /\ Receive(c, "SUB") /\ q \in Queues
      /\ clients' = clients \ Displaced(q, c)
      /\ CloseChannels(Displaced(q, c))
      /\ cached' = cached \cup {q}
      /\ sub' = [sub EXCEPT ![q] = c]
      /\ granted' = [granted EXCEPT ![c] = @ \cup {q}]
      /\ UNCHANGED <<db, owner, offered, accepted, retired, issued>>
  BY DEF HandleSub, Found
<1>2. hub' \in Seq(Statement)
  <2>1. PICK replay \in Replays(q, c) :
          hub' = <<Send(c, SubOk(q))>> \o replay \o <<Touch(q)>>
    BY DEF HandleSub, SubProgram
  <2>2. replay \in Seq(Statement)
    BY <1>1, ReplayTypes DEF Typed, TypeOK
  <2>3. Send(c, SubOk(q)) \in Statement /\ Touch(q) \in Statement
    BY <1>1, FrameTypes DEF Send, Touch, Statement
  <2>4. <<Send(c, SubOk(q))>> \in Seq(Statement) /\ <<Touch(q)>> \in Seq(Statement)
    BY <2>3
  <2> HIDE DEF q
  <2> QED BY <2>1, <2>2, <2>4, ConcatProperties
<1>3. /\ clients' \subseteq Conns /\ closed' \subseteq Conns
      /\ process' \in {"up", "send on closed channel", "close of closed channel",
                      "slice bounds out of range"}
  BY <1>1 DEF CloseChannels, Displaced, Typed, TypeOK
<1> HIDE DEF q
<1> QED BY <1>1, <1>2, <1>3, TypedReceive DEF Typed, TypeOK

LEMMA TypedHandleSend ==
  ASSUME Typed, NEW c \in Conns, HandleSend(c)
  PROVE  Typed'
<1> DEFINE q == cmd[c].qid
<1>1. PICK m \in MidsFor(cmd[c]) :
        /\ db' \in Touched(Saved(m, q), q)
        /\ hub' = [i \in DOMAIN Recipients(q) |->
                     Send(Recipients(q)[i], Deliver(q, m))]
                  \o Abbreviate(m) \o <<Send(c, Ack(q, m))>>
        /\ offered' = [x \in Conns |-> offered[x] \ {m}]
        /\ accepted' = accepted \cup {m}
        /\ retired' = retired \ {m}
  BY DEF HandleSend
<1>2. /\ Receive(c, "SEND") /\ q \in Queues
      /\ cached' = cached \cup {q}
      /\ UNCHANGED <<process, clients, owner, sub, closed, granted, issued>>
  BY DEF HandleSend, Found
<1>3. m \in Mids
  <2>1. cmd[c] \in Command
    <3>1. cmd[c] \in Command \cup {NoCommand}
      BY DEF Typed, TypeOK
    <3>2. cmd[c].type = "SEND"
      BY <1>2 DEF Receive
    <3>3. cmd[c] # NoCommand
      BY <3>2 DEF NoCommand
    <3> QED BY <3>1, <3>3
  <2> QED BY <2>1 DEF MidsFor, Command
<1>4. db' \in Database /\ IsFiniteSet(db'.messages)
  <2>1. db \in Database /\ IsFiniteSet(db.messages)
    BY DEF Typed, TypeOK
  <2>2. Saved(m, q) \in Database
    BY <1>2, <1>3, <2>1, SaveType DEF Saved
  <2>3. Saved(m, q).messages
          = db.messages \cup {[mid |-> m, qid |-> q, at |-> db.arrivals]}
    BY DEF Saved, SaveMessage
  <2>4. IsFiniteSet(Saved(m, q).messages)
    BY <2>1, <2>3, FS_AddElement
  <2> HIDE DEF q
  <2>5. db' \in Database
    BY <1>1, <1>2, <2>2, TouchedType
  <2>6. db'.messages = Saved(m, q).messages
    BY <1>1, <1>2, <2>2 DEF Touched, TouchQueue, Database
  <2> QED BY <2>4, <2>5, <2>6
<1>5. hub' \in Seq(Statement)
  <2> HIDE DEF q
  <2> DEFINE D == [i \in DOMAIN Recipients(q) |->
                     Send(Recipients(q)[i], Deliver(q, m))]
  <2>1. D \in Seq(Statement)
    <3>1. CASE sub[q] = Nobody
      <4>1. D = <<>>
        BY <3>1 DEF Recipients
      <4> QED BY <4>1, EmptySeq
    <3>2. CASE sub[q] # Nobody
      <4>1. sub[q] \in Conns
        BY <1>2, <3>2 DEF Typed, TypeOK
      <4>2. Send(sub[q], Deliver(q, m)) \in Statement
        BY <1>2, <1>3, <4>1, FrameTypes DEF Send, Statement
      <4>3. D = <<Send(sub[q], Deliver(q, m))>>
        BY <3>2 DEF Recipients
      <4> QED BY <4>2, <4>3
    <3> QED BY <3>1, <3>2
  <2>2. Abbreviate(m) \in Seq(Statement)
    BY AbbreviateType
  <2>3. <<Send(c, Ack(q, m))>> \in Seq(Statement)
    BY <1>2, <1>3, HandlerTypes
  <2>4. hub' = D \o Abbreviate(m) \o <<Send(c, Ack(q, m))>>
    BY <1>1
  <2> HIDE DEF D
  <2> QED BY <2>1, <2>2, <2>3, <2>4, ConcatProperties
<1> HIDE DEF q
<1> QED BY <1>1, <1>2, <1>3, <1>4, <1>5, TypedReceive DEF Typed, TypeOK

LEMMA TypedAck ==
  ASSUME Typed, NEW c \in Conns, HandleAck(c)
  PROVE  Typed'
<1> DEFINE k == cmd[c]
<1>1. PICK done \in {TRUE, FALSE} :
        /\ db' = IF done THEN DeleteMessage(db, k.mid) ELSE db
        /\ retired' = IF done /\ MidStored(db, k.mid)
                      THEN retired \cup {k.mid} ELSE retired
  BY DEF HandleAck
<1>2. /\ Receive(c, "ACK")
      /\ hub' = Abbreviate(k.qid) \o Abbreviate(k.mid)
      /\ UNCHANGED <<process, memory, closed, granted, offered, accepted, issued>>
  BY DEF HandleAck
<1> HIDE DEF k
<1>3. db \in Database /\ IsFiniteSet(db.messages)
  BY DEF Typed, TypeOK
<1>4. db' \in Database /\ IsFiniteSet(db'.messages)
  <2>1. DeleteMessage(db, k.mid) \in Database
    BY <1>3, DeleteType
  <2>2. DeleteMessage(db, k.mid).messages \subseteq db.messages
    BY <1>3 DEF DeleteMessage, Database
  <2>3. IsFiniteSet(DeleteMessage(db, k.mid).messages)
    BY <1>3, <2>2, FS_Subset
  <2> QED BY <1>1, <1>3, <2>1, <2>3
<1>5. retired' \subseteq Mids
  <2>1. MidStored(db, k.mid) => k.mid \in Mids
    BY <1>3 DEF MidStored, Database, Row
  <2> QED BY <1>1, <2>1 DEF Typed, TypeOK
<1>6. hub' \in Seq(Statement)
  BY <1>2, AbbreviateType, ConcatProperties
<1> QED BY <1>2, <1>4, <1>5, <1>6, TypedReceive DEF Typed, TypeOK, memory

LEMMA TypedHandle ==
  ASSUME Typed, NEW c \in Conns, Handle(c)
  PROVE  Typed'
<1>1. CASE RefuseNew(c) \/ RefuseSub(c) \/ RefuseSend(c) \/ HandleOther(c)
  <2>1. cached' = cached /\ cached \subseteq Queues
    BY <1>1 DEF RefuseNew, RefuseSub, RefuseSend, HandleOther, memory, Typed, TypeOK
  <2>2. UNCHANGED <<db, process, clients, owner, sub, closed, history>>
    BY <1>1 DEF RefuseNew, RefuseSub, RefuseSend, HandleOther, memory
  <2>3. \E type : Receive(c, type) /\ Refuse(c)
    BY <1>1 DEF RefuseNew, RefuseSub, RefuseSend, HandleOther
  <2> QED BY <2>1, <2>2, <2>3, TypedRefusal
<1>2. CASE RefuseSave(c)
  <2>1. cmd[c].qid \in Queues /\ cached' = cached \cup {cmd[c].qid}
    BY <1>2 DEF RefuseSave, Found
  <2>2. cached \subseteq cached' /\ cached' \subseteq Queues
    BY <2>1 DEF Typed, TypeOK
  <2> QED BY <1>2, <2>2, TypedRefusal DEF RefuseSave
<1> QED BY <1>1, <1>2, TypedNew, TypedSub, TypedHandleSend, TypedAck DEF Handle

LEMMA TypedInit == Init => Typed
<1> SUFFICES ASSUME Init PROVE Typed
  OBVIOUS
<1>1. PICK old \in SUBSET Queues : db = DatabaseWith(old)
  BY DEF Init
<1>2. db \in Database /\ IsFiniteSet(db.messages)
  BY <1>1, InitialDatabaseType, FS_EmptySet DEF DatabaseWith
<1>3. /\ send \in [Conns -> Seq(Frame)]
      /\ \A c \in Conns : Len(send[c]) <= SendCap
  <2>1. send = [c \in Conns |-> <<>>]
    BY DEF Init
  <2>2. <<>> \in Seq(Frame) /\ Len(<<>>) = 0
    BY EmptySeq
  <2> QED BY <2>1, <2>2, CapacityType
<1>4. hub \in Seq(Statement)
  BY EmptySeq DEF Init
<1> QED BY <1>2, <1>3, <1>4 DEF Init, Typed, TypeOK

LEMMA TypedNext == Typed /\ [Next]_vars => Typed'
<1> SUFFICES ASSUME Typed, [Next]_vars PROVE Typed'
  OBVIOUS
<1>1. CASE Restart
  BY <1>1, TypedReset DEF Restart
<1>2. CASE UNCHANGED vars
  BY <1>2 DEF vars, memory, pumps, history, Typed, TypeOK
<1> QED BY <1>1, <1>2, TypedHub, TypedPumps, TypedHandle, TypedDepart DEF Next

\* Every variable keeps its type: no send channel ever holds more than its
\* capacity, and a queue that is not in the map has no owner or subscriber.
THEOREM TypeCorrect == Spec => []TypeOK
<1>1. Typed => TypeOK
  BY DEF Typed
<1> QED BY <1>1, TypedInit, TypedNext, PTL DEF Spec

----------------------------------------------------------------------------
(* The map is a cache of the database. *)

\* No statement takes a queue away, nor a message other than DeleteMessage.
LEMMA StatementsKeep ==
  ASSUME NEW d \in Database, NEW q \in Queues, NEW e \in Touched(d, q)
  PROVE  /\ \A x \in Queues : QueueExists(d, x) => QueueExists(e, x)
         /\ e.messages = d.messages /\ e.arrivals = d.arrivals
BY DEF Touched, TouchQueue, QueueExists, Database, Ages

LEMMA CacheInit == Init => CacheIsBacked
BY DEF Init, CacheIsBacked

LEMMA CacheNext ==
  ASSUME Typed, CacheIsBacked, [Next]_vars
  PROVE  CacheIsBacked'
<1>1. db \in Database /\ cached \subseteq Queues /\ issued \subseteq Queues
  BY DEF Typed, TypeOK
<1>2. ASSUME cached' \subseteq cached, UNCHANGED <<db, issued>>
      PROVE  CacheIsBacked'
  BY <1>2 DEF CacheIsBacked
<1>3. CASE TouchSubscribed
  <2>1. Head(hub) \in Statement /\ Head(hub).do = "touch"
    BY <1>3, HeadTailProperties DEF TouchSubscribed, Current, Typed, TypeOK
  <2>2. Head(hub).qid \in Queues
    BY <2>1 DEF Statement
  <2>3. \A x \in Queues : QueueExists(db, x) => QueueExists(db', x)
    BY <1>1, <1>3, <2>2, StatementsKeep DEF TouchSubscribed
  <2> QED BY <1>1, <1>3, <2>3 DEF TouchSubscribed, CacheIsBacked, memory, history
<1>4. ASSUME NEW c \in Conns, HandleNew(c)
      PROVE  CacheIsBacked'
  <2>1. PICK q \in FreshQueues :
          /\ \E d \in Created(q) : db' \in Touched(d, q)
          /\ cached' = cached \cup {q} /\ issued' = issued \cup {q}
    BY <1>4 DEF HandleNew
  <2>2. q \in Queues /\ db' \in Touched(CreateQueue(db, q), q)
    BY <2>1 DEF FreshQueues, Created
  <2>3. /\ CreateQueue(db, q) \in Database
        /\ \A x \in Queues : x = q \/ QueueExists(db, x) =>
             QueueExists(CreateQueue(db, q), x)
    BY <1>1, <2>2 DEF CreateQueue, QueueExists, Database, Ages
  <2>4. \A x \in Queues : x = q \/ QueueExists(db, x) => QueueExists(db', x)
    BY <2>2, <2>3, StatementsKeep
  <2> QED BY <1>1, <2>1, <2>2, <2>4 DEF CacheIsBacked
<1>5. ASSUME NEW c \in Conns, HandleSub(c) \/ RefuseSave(c)
      PROVE  CacheIsBacked'
  <2>1. /\ Found(cmd[c].qid) /\ cached' = cached \cup {cmd[c].qid}
        /\ UNCHANGED <<db, issued>>
    BY <1>5 DEF HandleSub, RefuseSave, history
  <2> QED BY <2>1 DEF Found, Known, CacheIsBacked
<1>6. ASSUME NEW c \in Conns, HandleSend(c)
      PROVE  CacheIsBacked'
  <2> DEFINE q == cmd[c].qid
  <2>1. /\ Found(q) /\ cached' = cached \cup {q} /\ UNCHANGED issued
        /\ \E m \in MidsFor(cmd[c]) : db' \in Touched(Saved(m, q), q)
    BY <1>6 DEF HandleSend
  <2>2. PICK m \in MidsFor(cmd[c]) : db' \in Touched(Saved(m, q), q)
    BY <2>1
  <2> HIDE DEF q
  <2>3. q \in Queues /\ Known(q)
    BY <2>1 DEF Found
  <2>4. \A x \in Queues : QueueExists(db, x) => QueueExists(db', x)
    BY <1>1, <2>2, <2>3
    DEF Saved, SaveMessage, Touched, TouchQueue, QueueExists, Database, Ages
  <2> QED BY <1>1, <2>1, <2>3, <2>4 DEF Known, CacheIsBacked
<1>7. ASSUME NEW c \in Conns, HandleAck(c)
      PROVE  CacheIsBacked'
  <2>1. db'.queues = db.queues
    BY <1>1, <1>7 DEF HandleAck, DeleteMessage, Database
  <2> QED BY <1>7, <2>1 DEF HandleAck, CacheIsBacked, QueueExists, memory
<1>8. CASE Restart \/ SendFrame \/ SendOnClosed \/ SliceShortId
  BY <1>2, <1>8
  DEF Restart, Reset, SendFrame, SendOnClosed, SliceShortId, Panic, memory
<1>9. ASSUME NEW c \in Conns,
             Connect(c) \/ PumpStep(c) \/ Depart(c) \/ RefuseNew(c) \/ RefuseSub(c)
               \/ RefuseSend(c) \/ HandleOther(c)
      PROVE  CacheIsBacked'
  BY <1>2, <1>9
  DEF Connect, PumpStep, ReadCommand, AnswerInPlace, StopReading, WriteFrame,
      SeeClosedChannel, FailToWrite, StopWriting, Depart, Unregister, UnregisterLate,
      Leave, ReleaseQueue, RefuseNew, RefuseSub, RefuseSend, HandleOther,
      memory, history
<1>10. CASE UNCHANGED vars
  BY <1>2, <1>10 DEF vars, memory, history
<1> QED BY <1>3, <1>4, <1>5, <1>6, <1>7, <1>8, <1>9, <1>10 DEF Next, HubStep, Handle

\* The map never has an entry for a queue the database does not have, and
\* a queue that was given out in a NEW_OK is still there after restarts.
THEOREM CacheCorrect == Spec => []CacheIsBacked
BY CacheInit, CacheNext, TypedInit, TypedNext, PTL DEF Spec

----------------------------------------------------------------------------
(* Channels are closed once, and a queue has one live subscriber. *)

\* A registered connection has an open channel, and what it was granted is
\* still its own; a connection nobody has opened yet has neither.
Exclusive ==
  /\ clients \cap closed = {}
  /\ \A c \in Conns : reader[c] = "absent" =>
       c \notin clients \cup closed /\ granted[c] = {}
  /\ NeverClosesTwice
  /\ GrantedIsSubscriber

LEMMA ExclusiveInit == Init => Exclusive
BY DEF Init, Exclusive, NeverClosesTwice, GrantedIsSubscriber

\* A step that leaves the registry alone, and opens no connection.
LEMMA ExclusiveFrame ==
  ASSUME Exclusive, UNCHANGED <<process, clients, closed, sub, granted>>,
         \A c \in Conns : reader'[c] = "absent" => reader[c] = "absent"
  PROVE  Exclusive'
BY DEF Exclusive, NeverClosesTwice, GrantedIsSubscriber

LEMMA ExclusiveNext ==
  ASSUME Typed, CacheIsBacked, Exclusive, [Next]_vars
  PROVE  Exclusive'
<1>1. /\ reader \in [Conns -> {"absent", "reading", "routing", "leaving", "done"}]
      /\ clients \subseteq Conns /\ granted \in [Conns -> SUBSET Queues]
      /\ sub \in [Queues -> Conns \cup {Nobody}]
      /\ \A q \in Queues \ cached : sub[q] = Nobody
  BY DEF Typed, TypeOK
<1>2. ASSUME Reset, process' # "close of closed channel"
      PROVE  Exclusive'
  BY <1>2 DEF Reset, Exclusive, NeverClosesTwice, GrantedIsSubscriber
<1>3. CASE Restart \/ SendOnClosed \/ SliceShortId
  BY <1>2, <1>3 DEF Restart, SendOnClosed, SliceShortId, Panic
<1>4. ASSUME NEW c \in Conns, Connect(c)
      PROVE  Exclusive'
  <2>1. c \notin closed /\ granted[c] = {}
    BY <1>4 DEF Connect, Exclusive
  <2> QED BY <1>1, <1>4, <2>1
          DEF Connect, Exclusive, NeverClosesTwice, GrantedIsSubscriber, history
<1>5. ASSUME NEW c \in Conns, Unregister(c)
      PROVE  Exclusive'
  <2>1. /\ c \in clients /\ clients' = clients \ {c} /\ closed' = closed \cup {c}
        /\ reader' = [reader EXCEPT ![c] = "done"] /\ granted' = granted
        /\ sub' = [q \in Queues |-> IF sub[q] = c THEN Nobody ELSE sub[q]]
    BY <1>5 DEF Unregister, Registered, CloseChannels, ReleaseQueue, Leave, history
  <2>2. process' = process
    BY <1>5, <2>1 DEF Unregister, CloseChannels, Exclusive
  <2>3. \A x \in clients' : \A q \in granted'[x] : sub'[q] = x
    BY <1>1, <2>1 DEF Exclusive, GrantedIsSubscriber
  <2> QED BY <1>1, <2>1, <2>2, <2>3 DEF Exclusive, NeverClosesTwice, GrantedIsSubscriber
<1>6. ASSUME NEW c \in Conns, HandleNew(c)
      PROVE  Exclusive'
  <2>1. PICK q \in FreshQueues : sub' = [sub EXCEPT ![q] = Nobody]
    BY <1>6 DEF HandleNew
  <2>2. q \in Queues /\ sub[q] = Nobody
    BY <1>1, <2>1 DEF FreshQueues, CacheIsBacked
  <2>3. sub' = sub
    BY <1>1, <2>1, <2>2
  <2>4. \A x \in Conns : reader'[x] = "absent" => reader[x] = "absent"
    BY <1>1, <1>6 DEF HandleNew, Receive
  <2> QED BY <1>6, <2>3, <2>4, ExclusiveFrame DEF HandleNew
<1>7. ASSUME NEW c \in Conns, HandleSub(c)
      PROVE  Exclusive'
  <2> DEFINE q == cmd[c].qid
  <2>1. /\ q \in Queues /\ reader[c] = "routing"
        /\ reader' = [reader EXCEPT ![c] = "reading"]
        /\ clients' = clients \ Displaced(q, c)
        /\ closed' = closed \cup Displaced(q, c)
        /\ sub' = [sub EXCEPT ![q] = c]
        /\ granted' = [granted EXCEPT ![c] = @ \cup {q}]
    BY <1>7 DEF HandleSub, Receive, Found, CloseChannels
  <2>2. process' = process
    BY <1>7 DEF HandleSub, CloseChannels, Displaced, Exclusive
  <2> HIDE DEF q
  <2>3. Displaced(q, c) \subseteq clients
    BY DEF Displaced
  <2>4. \A x \in clients' : \A p \in granted'[x] : sub'[p] = x
    BY <1>1, <2>1 DEF Displaced, Exclusive, GrantedIsSubscriber
  <2> QED BY <1>1, <2>1, <2>2, <2>3, <2>4
          DEF Exclusive, NeverClosesTwice, GrantedIsSubscriber
<1>8. ASSUME NEW c \in Conns,
             PumpStep(c) \/ UnregisterLate(c) \/ RefuseNew(c) \/ RefuseSub(c)
               \/ RefuseSend(c) \/ RefuseSave(c) \/ HandleSend(c) \/ HandleAck(c)
               \/ HandleOther(c)
      PROVE  Exclusive'
  <2>1. \A x \in Conns : reader'[x] = "absent" => reader[x] = "absent"
    BY <1>1, <1>8
    DEF PumpStep, ReadCommand, AnswerInPlace, StopReading, WriteFrame,
        SeeClosedChannel, FailToWrite, StopWriting, UnregisterLate, Leave, RefuseNew,
        RefuseSub, RefuseSend, RefuseSave, HandleSend, HandleAck, HandleOther, Receive
  <2>2. UNCHANGED <<process, clients, closed, sub, granted>>
    BY <1>8
    DEF PumpStep, ReadCommand, AnswerInPlace, StopReading, WriteFrame,
        SeeClosedChannel, FailToWrite, StopWriting, UnregisterLate, Leave, RefuseNew,
        RefuseSub, RefuseSend, RefuseSave, HandleSend, HandleAck, HandleOther,
        memory, history
  <2> QED BY <2>1, <2>2, ExclusiveFrame
<1>9. CASE SendFrame \/ TouchSubscribed \/ UNCHANGED vars
  BY <1>9, ExclusiveFrame
  DEF SendFrame, TouchSubscribed, vars, memory, pumps, history
<1> QED BY <1>3, <1>4, <1>5, <1>6, <1>7, <1>8, <1>9
        DEF Next, HubStep, Handle, Depart

LEMMA ExclusiveAlways == Spec => []Exclusive
BY CacheInit, CacheNext, TypedInit, TypedNext, ExclusiveInit, ExclusiveNext,
   PTL DEF Spec

\* No send channel is closed a second time: not by the unregister that
\* follows a kick, and not by a kick of a connection that has left.
THEOREM ClosesOnce == Spec => []NeverClosesTwice
<1>1. Exclusive => NeverClosesTwice
  BY DEF Exclusive
<1> QED BY <1>1, ExclusiveAlways, PTL

\* Of all the connections that were told SUB_OK for a queue, at most the
\* queue's present subscriber is still registered.
THEOREM SubscriptionExclusive == Spec => []GrantedIsSubscriber
<1>1. Exclusive => GrantedIsSubscriber
  BY DEF Exclusive
<1> QED BY <1>1, ExclusiveAlways, PTL

----------------------------------------------------------------------------
(* What was acknowledged is stored. *)

LEMMA DurableInit == Init => AckedIsDurable
BY DEF Init, AckedIsDurable

\* A step that accepts no message, and forgets none.
LEMMA DurableFrame ==
  ASSUME AckedIsDurable, UNCHANGED <<accepted, retired>>, db'.messages = db.messages
  PROVE  AckedIsDurable'
BY DEF AckedIsDurable, MidStored

LEMMA DurableNext ==
  ASSUME Typed, AckedIsDurable, [Next]_vars
  PROVE  AckedIsDurable'
<1>1. db \in Database
  BY DEF Typed, TypeOK
<1>2. CASE TouchSubscribed
  <2>1. Head(hub) \in Statement /\ Head(hub).do = "touch"
    BY <1>2, HeadTailProperties DEF TouchSubscribed, Current, Typed, TypeOK
  <2>2. Head(hub).qid \in Queues
    BY <2>1 DEF Statement
  <2>3. db'.messages = db.messages
    BY <1>1, <1>2, <2>2, StatementsKeep DEF TouchSubscribed
  <2> QED BY <1>2, <2>3, DurableFrame DEF TouchSubscribed, history
<1>3. ASSUME NEW c \in Conns, HandleNew(c)
      PROVE  AckedIsDurable'
  <2>1. PICK q \in FreshQueues : \E d \in Created(q) : db' \in Touched(d, q)
    BY <1>3 DEF HandleNew
  <2>2. q \in Queues /\ db' \in Touched(CreateQueue(db, q), q)
    BY <2>1 DEF FreshQueues, Created
  <2>3. /\ CreateQueue(db, q) \in Database
        /\ CreateQueue(db, q).messages = db.messages
    BY <1>1, <2>2 DEF CreateQueue, Database, Ages
  <2>4. db'.messages = db.messages
    BY <2>2, <2>3, StatementsKeep
  <2> QED BY <1>3, <2>4, DurableFrame DEF HandleNew
<1>4. ASSUME NEW c \in Conns, HandleSend(c)
      PROVE  AckedIsDurable'
  <2> DEFINE q == cmd[c].qid
  <2>1. PICK m \in MidsFor(cmd[c]) :
          /\ db' \in Touched(Saved(m, q), q)
          /\ accepted' = accepted \cup {m} /\ retired' = retired \ {m}
    BY <1>4 DEF HandleSend
  <2>2. q \in Queues
    BY <1>4 DEF HandleSend, Found
  <2> HIDE DEF q
  <2>3. db'.messages
          = db.messages \cup {[mid |-> m, qid |-> q, at |-> db.arrivals]}
    BY <1>1, <2>1, <2>2 DEF Saved, SaveMessage, Touched, TouchQueue, Database
  <2>4. [mid |-> m, qid |-> q, at |-> db.arrivals] \in db'.messages
    BY <2>3
  <2>5. \E row \in db'.messages : row.mid = m
    BY <2>4
  <2>6. \A x : MidStored(db, x) \/ x = m => MidStored(db, x)'
    BY <2>3, <2>5 DEF MidStored
  <2> QED BY <2>1, <2>6 DEF AckedIsDurable
<1>5. ASSUME NEW c \in Conns, HandleAck(c)
      PROVE  AckedIsDurable'
  <2> DEFINE m == cmd[c].mid
  <2>1. PICK done \in {TRUE, FALSE} :
          /\ db' = IF done THEN DeleteMessage(db, m) ELSE db
          /\ retired' = IF done /\ MidStored(db, m) THEN retired \cup {m} ELSE retired
    BY <1>5 DEF HandleAck
  <2>2. accepted' = accepted
    BY <1>5 DEF HandleAck
  <2> HIDE DEF m
  <2>3. CASE done
    <3>1. db'.messages = {row \in db.messages : row.mid # m}
      BY <1>1, <2>1, <2>3 DEF DeleteMessage, Database
    <3>2. \A x : MidStored(db, x) /\ x # m => MidStored(db, x)'
      BY <3>1 DEF MidStored
    <3> QED BY <2>1, <2>2, <2>3, <3>2 DEF AckedIsDurable
  <2>4. CASE ~ done
    BY <2>1, <2>2, <2>4, DurableFrame
  <2> QED BY <2>3, <2>4
<1>6. CASE Restart \/ SendFrame \/ SendOnClosed \/ SliceShortId \/ UNCHANGED vars
  BY <1>6, DurableFrame
  DEF Restart, Reset, SendFrame, SendOnClosed, SliceShortId, Panic, vars, history
<1>7. ASSUME NEW c \in Conns,
             Connect(c) \/ PumpStep(c) \/ Depart(c) \/ RefuseNew(c) \/ RefuseSub(c)
               \/ HandleSub(c) \/ RefuseSend(c) \/ RefuseSave(c) \/ HandleOther(c)
      PROVE  AckedIsDurable'
  BY <1>7, DurableFrame
  DEF Connect, PumpStep, ReadCommand, AnswerInPlace, StopReading, WriteFrame,
      SeeClosedChannel, FailToWrite, StopWriting, Depart, Unregister, UnregisterLate,
      Leave, RefuseNew, RefuseSub, HandleSub, RefuseSend, RefuseSave, HandleOther,
      history
<1> QED BY <1>2, <1>3, <1>4, <1>5, <1>6, <1>7 DEF Next, HubStep, Handle

\* A message whose SEND was acknowledged stays in the database until an ACK
\* deletes it: no kick, departure, failure or restart loses it.
THEOREM AckedMessagesSurvive == Spec => []AckedIsDurable
BY DurableInit, DurableNext, TypedInit, TypedNext, PTL DEF Spec

----------------------------------------------------------------------------
(* Nothing is stored for a live subscriber without being offered to it.    *)

\* A delivery the hub has still to make in the handler it is in.
Promised(c, q, m) == \E i \in DOMAIN hub : hub[i] = Send(c, Deliver(q, m))

\* Within a handler, what was not offered yet is promised; a subscriber is a
\* connection that was opened, so none can appear by opening one.
Pledged ==
  /\ \A q \in Queues : sub[q] # Nobody => reader[sub[q]] # "absent"
  /\ \A row \in db.messages : sub[row.qid] \in clients =>
       row.mid \in offered[sub[row.qid]] \/ Promised(sub[row.qid], row.qid, row.mid)

\* The answer of the query has every row: as many as there are, all different.
LEMMA AnswerIsComplete ==
  ASSUME db \in Database, IsFiniteSet(db.messages), NEW q \in Queues,
         NEW rows \in Undelivered(db, q), NEW row \in RowsOf(db, q)
  PROVE  \E i \in DOMAIN rows : rows[i] = row
<1> DEFINE R == RowsOf(db, q)
           I == 1 .. Cardinality(R)
<1>1. IsFiniteSet(R) /\ Cardinality(R) \in Nat /\ R \subseteq Row
  BY FS_Subset, FS_CardinalityType DEF RowsOf, Database
<1>2. rows \in [I -> R] /\ \A i, j \in I : i < j => rows[i].at < rows[j].at
  BY DEF Undelivered
<1>3. \A i, j \in I : rows[i] = rows[j] => i = j
  <2>1. ASSUME NEW i \in I, NEW j \in I, i < j PROVE rows[i] # rows[j]
    <3>1. rows[i].at < rows[j].at /\ rows[i].at \in Nat
      BY <1>1, <1>2, <2>1 DEF Row
    <3> QED BY <3>1
  <2>2. \A i, j \in I : i # j => i < j \/ j < i
    BY <1>1
  <2> QED BY <2>1, <2>2
<1>4. IsFiniteSet(I) /\ Cardinality(I) = Cardinality(R)
  BY <1>1, FS_Interval
<1> HIDE DEF I, R
<1>5. rows \in Injection(I, R)
  BY <1>2, <1>3, Fun_IsInj
<1>6. rows \in Surjection(I, R)
  BY <1>1, <1>4, <1>5, FS_Injection
<1>7. DOMAIN rows = I /\ \E i \in I : rows[i] = row
  BY <1>2, <1>6, Fun_SurjectionProperties DEF R
<1> QED BY <1>7

LEMMA PledgedInit == Init => Pledged
BY DEF Init, Pledged, DatabaseWith

\* A step that neither stores nor subscribes, and breaks no promise.
LEMMA PledgedFrame ==
  ASSUME Typed, Pledged, db'.messages \subseteq db.messages, clients' \subseteq clients,
         \A q \in Queues : sub'[q] \in {sub[q], Nobody}, offered' = offered,
         hub' = hub \/ hub = <<>>,
         \A c \in Conns : reader'[c] = "absent" => reader[c] = "absent"
  PROVE  Pledged'
<1>1. /\ Nobody \notin clients /\ \A row \in db.messages : row.qid \in Queues
      /\ sub \in [Queues -> Conns \cup {Nobody}]
  BY HubAssumption DEF Typed, TypeOK, Database, Row
<1>2. \A q \in Queues : sub'[q] # Nobody => reader'[sub'[q]] # "absent"
  BY <1>1 DEF Pledged
<1>3. ASSUME NEW row \in db'.messages, sub'[row.qid] \in clients'
      PROVE  \/ row.mid \in offered'[sub'[row.qid]]
             \/ Promised(sub[row.qid], row.qid, row.mid)'
  <2>1. sub'[row.qid] = sub[row.qid] /\ sub[row.qid] \in clients
    BY <1>1, <1>3
  <2>2. row.mid \in offered[sub[row.qid]] \/ Promised(sub[row.qid], row.qid, row.mid)
    BY <2>1 DEF Pledged
  <2> QED BY <2>1, <2>2 DEF Promised
<1> QED BY <1>2, <1>3 DEF Pledged

\* A message that is saved is promised to the subscriber of its queue.
LEMMA SendPromises ==
  ASSUME Typed, NEW c \in Conns, HandleSend(c)
  PROVE  \E m \in MidsFor(cmd[c]) :
           LET q == cmd[c].qid
           IN  /\ ~ MidStored(db, m)
               /\ db'.messages
                    = db.messages \cup {[mid |-> m, qid |-> q, at |-> db.arrivals]}
               /\ offered' = [x \in Conns |-> offered[x] \ {m}]
               /\ sub[q] \in clients =>
                    \E i \in DOMAIN hub' : hub'[i] = Send(sub[q], Deliver(q, m))
<1> DEFINE q == cmd[c].qid
<1>1. q \in Queues
  BY DEF HandleSend, Found
<1>2. PICK m \in MidsFor(cmd[c]) :
        /\ CanSave(db, m, q, TRUE) /\ db' \in Touched(Saved(m, q), q)
        /\ hub' = [i \in DOMAIN Recipients(q) |-> Send(Recipients(q)[i], Deliver(q, m))]
                  \o Abbreviate(m) \o <<Send(c, Ack(q, m))>>
        /\ offered' = [x \in Conns |-> offered[x] \ {m}]
  BY DEF HandleSend
<1> DEFINE new == [mid |-> m, qid |-> q, at |-> db.arrivals]
<1> HIDE DEF q
<1>3. db'.messages = db.messages \cup {new}
  <2>1. db \in Database
    BY DEF Typed, TypeOK
  <2>2. db' \in Touched(Saved(m, q), q) /\ q \in Queues
    BY <1>1, <1>2
  <2> QED BY <2>1, <2>2 DEF Saved, SaveMessage, Touched, TouchQueue, Database
<1>4. clients \subseteq Conns /\ Nobody \notin clients
  BY HubAssumption DEF Typed, TypeOK
<1>5. ASSUME sub[q] \in clients
      PROVE  \E i \in DOMAIN hub' : hub'[i] = Send(sub[q], Deliver(q, m))
  <2> DEFINE s == Send(sub[q], Deliver(q, m))
             S == {s, Send(c, Ack(q, m)), [do |-> "slice"]}
  <2>1. [i \in DOMAIN Recipients(q) |-> Send(Recipients(q)[i], Deliver(q, m))] = <<s>>
    BY <1>4, <1>5 DEF Recipients
  <2> HIDE DEF s
  <2>2. /\ <<s>> \in Seq(S) /\ <<Send(c, Ack(q, m))>> \in Seq(S)
        /\ <<[do |-> "slice"]>> \in Seq(S) /\ <<>> \in Seq(S)
    OBVIOUS
  <2> HIDE DEF S
  <2>3. Abbreviate(m) \in Seq(S)
    BY <2>2 DEF Abbreviate
  <2>4. /\ <<s>> \o Abbreviate(m) \in Seq(S)
        /\ Len(<<s>> \o Abbreviate(m)) \in Nat \ {0}
        /\ (<<s>> \o Abbreviate(m))[1] = s
    BY <2>2, <2>3, ConcatProperties, LenProperties
  <2>5. /\ hub' = (<<s>> \o Abbreviate(m)) \o <<Send(c, Ack(q, m))>>
        /\ hub' \in Seq(S) /\ Len(hub') \in Nat \ {0} /\ hub'[1] = s
    BY <1>2, <2>1, <2>2, <2>4, ConcatProperties, LenProperties
  <2>6. 1 \in DOMAIN hub'
    BY <2>5, LenProperties
  <2> QED BY <2>5, <2>6 DEF s
<1>6. ~ MidStored(db, m)
  BY <1>2 DEF CanSave
<1> QED BY <1>2, <1>3, <1>5, <1>6 DEF q, new

LEMMA PledgedSend ==
  ASSUME Typed, Pledged, NEW c \in Conns, HandleSend(c)
  PROVE  Pledged'
<1> DEFINE q == cmd[c].qid
<1>1. /\ q \in Queues /\ hub = <<>> /\ UNCHANGED <<clients, sub>>
      /\ \A x \in Conns : reader'[x] = "absent" => reader[x] = "absent"
  BY DEF HandleSend, Found, Receive, Idle, Typed, TypeOK
<1>2. PICK m \in MidsFor(cmd[c]) :
        /\ ~ MidStored(db, m)
        /\ db'.messages = db.messages \cup {[mid |-> m, qid |-> q, at |-> db.arrivals]}
        /\ offered' = [x \in Conns |-> offered[x] \ {m}]
        /\ sub[q] \in clients =>
             \E i \in DOMAIN hub' : hub'[i] = Send(sub[q], Deliver(q, m))
  BY SendPromises
<1> DEFINE new == [mid |-> m, qid |-> q, at |-> db.arrivals]
<1> HIDE DEF q
<1>3. clients \subseteq Conns /\ Nobody \notin clients
  BY HubAssumption DEF Typed, TypeOK
<1>4. ASSUME NEW row \in db.messages, sub[row.qid] \in clients
      PROVE  row.mid \in offered'[sub[row.qid]]
  <2>1. row.mid # m
    BY <1>2 DEF MidStored
  <2>2. row.mid \in offered[sub[row.qid]]
    BY <1>1, <1>4 DEF Pledged, Promised
  <2> QED BY <1>2, <1>3, <1>4, <2>1, <2>2
<1>5. \A x \in Queues : sub'[x] # Nobody => reader'[sub'[x]] # "absent"
  BY <1>1 DEF Pledged, Typed, TypeOK
<1>6. ASSUME NEW row \in db'.messages, sub[row.qid] \in clients
      PROVE  \/ row.mid \in offered'[sub[row.qid]]
             \/ \E i \in DOMAIN hub' : hub'[i] = Send(sub[row.qid], Deliver(row.qid, row.mid))
  <2>1. new.mid = m /\ new.qid = q
    OBVIOUS
  <2>2. row \in db.messages \/ row = new
    BY <1>2
  <2> HIDE DEF new
  <2> QED BY <1>2, <1>4, <1>6, <2>1, <2>2
<1> QED BY <1>1, <1>5, <1>6 DEF Pledged, Promised

\* The subscriber is promised every stored message.
LEMMA SubPromises ==
  ASSUME Typed, NEW c \in Conns, HandleSub(c), "undelivered" \notin Faulty,
         NEW row \in RowsOf(db, cmd[c].qid)
  PROVE  \E i \in DOMAIN hub' : hub'[i] = Send(c, Deliver(cmd[c].qid, row.mid))
<1> DEFINE q == cmd[c].qid
<1>1. q \in Queues /\ \E replay \in Replays(q, c) : hub' = SubProgram(q, c, replay)
  BY DEF HandleSub, Found
<1>2. row \in RowsOf(db, q)
  OBVIOUS
<1> HIDE DEF q
<1>3. db \in Database /\ IsFiniteSet(db.messages)
  BY DEF Typed, TypeOK
<1>4. PICK rows \in Undelivered(db, q) :
        hub' = SubProgram(q, c, [i \in DOMAIN rows |-> Send(c, Deliver(q, rows[i].mid))])
  BY <1>1 DEF Replays, Fails
<1> DEFINE replay == [i \in DOMAIN rows |-> Send(c, Deliver(q, rows[i].mid))]
<1>5. replay \in Seq(Statement)
  <2>1. replay \in Replays(q, c)
    BY DEF Replays
  <2> QED BY <1>1, <1>3, <2>1, ReplayTypes
<1>6. PICK i \in DOMAIN rows : rows[i] = row
  BY <1>1, <1>2, <1>3, AnswerIsComplete
<1>7. DOMAIN replay = DOMAIN rows /\ replay[i] = Send(c, Deliver(q, row.mid))
  BY <1>6
<1>8. hub' = <<Send(c, SubOk(q))>> \o replay \o <<Touch(q)>>
  BY <1>4 DEF SubProgram
<1> HIDE DEF replay
<1>9. <<Send(c, SubOk(q))>> \in Seq(Statement) /\ <<Touch(q)>> \in Seq(Statement)
  <2>1. Send(c, SubOk(q)) \in Statement /\ Touch(q) \in Statement
    BY <1>1, FrameTypes DEF Send, Touch, Statement
  <2> QED BY <2>1
<1>10. i \in 1 .. Len(replay) /\ Len(replay) \in Nat
  BY <1>5, <1>6, <1>7, LenProperties
<1> DEFINE t == <<Send(c, SubOk(q))>> \o replay
<1>11. t \in Seq(Statement) /\ Len(t) = 1 + Len(replay) /\ t[i + 1] = replay[i]
  BY <1>5, <1>9, <1>10, ConcatProperties
<1> HIDE DEF t
<1>12. hub' = t \o <<Touch(q)>>
  BY <1>8 DEF t
<1>13. /\ hub' \in Seq(Statement) /\ Len(hub') = Len(t) + 1
      /\ i + 1 \in 1 .. Len(hub') /\ hub'[i + 1] = t[i + 1]
  BY <1>9, <1>10, <1>11, <1>12, ConcatProperties
<1>14. i + 1 \in DOMAIN hub'
  BY <1>13, LenProperties
<1> QED BY <1>7, <1>11, <1>13, <1>14 DEF q

LEMMA PledgedSub ==
  ASSUME Typed, Pledged, NEW c \in Conns, HandleSub(c), "undelivered" \notin Faulty
  PROVE  Pledged'
<1> DEFINE q == cmd[c].qid
<1>1. /\ q \in Queues /\ hub = <<>> /\ reader[c] = "routing"
      /\ reader' = [reader EXCEPT ![c] = "reading"]
      /\ clients' \subseteq clients /\ sub' = [sub EXCEPT ![q] = c]
      /\ db' = db /\ offered' = offered
      /\ \E replay \in Replays(q, c) : hub' = SubProgram(q, c, replay)
  BY DEF HandleSub, Found, Receive, Idle
<1> HIDE DEF q
<1>2. /\ sub \in [Queues -> Conns \cup {Nobody}] /\ db \in Database
      /\ reader \in [Conns -> {"absent", "reading", "routing", "leaving", "done"}]
      /\ IsFiniteSet(db.messages) /\ clients \subseteq Conns
  BY DEF Typed, TypeOK
<1>3. \A row \in RowsOf(db, q) :
        \E i \in DOMAIN hub' : hub'[i] = Send(c, Deliver(q, row.mid))
  BY SubPromises DEF q
<1>4. \A x \in Queues : sub'[x] # Nobody => reader'[sub'[x]] # "absent"
  BY <1>1, <1>2 DEF Pledged
<1>5. ASSUME NEW row \in db'.messages, sub'[row.qid] \in clients'
      PROVE  \/ row.mid \in offered'[sub'[row.qid]]
             \/ \E i \in DOMAIN hub' : hub'[i] = Send(sub'[row.qid], Deliver(row.qid, row.mid))
  <2>1. CASE row.qid = q
    BY <1>1, <1>2, <1>3, <2>1 DEF RowsOf
  <2>2. CASE row.qid # q
    <3>1. row.qid \in Queues /\ sub'[row.qid] = sub[row.qid] /\ row \in db.messages
      BY <1>1, <1>2, <2>2 DEF Database, Row
    <3> QED BY <1>1, <1>5, <3>1 DEF Pledged, Promised
  <2> QED BY <2>1, <2>2
<1> QED BY <1>4, <1>5 DEF Pledged, Promised

LEMMA PledgedNext ==
  ASSUME Typed, Exclusive, Pledged, [Next]_vars, "undelivered" \notin Faulty
  PROVE  Pledged'
<1>1. /\ db \in Database /\ reader \in [Conns -> {"absent", "reading", "routing", "leaving", "done"}]
      /\ sub \in [Queues -> Conns \cup {Nobody}] /\ clients \subseteq Conns
      /\ hub \in Seq(Statement) /\ offered \in [Conns -> SUBSET Mids]
      /\ \A row \in db.messages : row.qid \in Queues
  BY DEF Typed, TypeOK, Database, Row
<1>2. CASE Restart \/ SendOnClosed \/ SliceShortId
  <2>1. clients' = {} /\ sub' = [q \in Queues |-> Nobody]
    BY <1>2 DEF Restart, SendOnClosed, SliceShortId, Panic, Reset
  <2> QED BY <2>1 DEF Pledged
<1>3. CASE SendFrame \/ TouchSubscribed
  <2>1. /\ hub # <<>> /\ hub' = Tail(hub) /\ UNCHANGED <<clients, sub, reader>>
        /\ db'.messages = db.messages
    <3>1. CASE SendFrame
      BY <3>1 DEF SendFrame, Current, memory
    <3>2. CASE TouchSubscribed
      <4>1. Head(hub) \in Statement /\ Head(hub).do = "touch"
        BY <1>1, <3>2, HeadTailProperties DEF TouchSubscribed, Current
      <4>2. Head(hub).qid \in Queues
        BY <4>1 DEF Statement
      <4> QED BY <1>1, <3>2, <4>2, StatementsKeep
              DEF TouchSubscribed, Current, memory, pumps
    <3> QED BY <1>3, <3>1, <3>2
  <2>2. ASSUME NEW c \in clients, NEW q \in Queues, NEW m \in Mids, Promised(c, q, m)
        PROVE  m \in offered'[c] \/ Promised(c, q, m)'
    <3>1. PICK i \in DOMAIN hub : hub[i] = Send(c, Deliver(q, m))
      BY <2>2 DEF Promised
    <3>2. /\ i \in 1 .. Len(hub) /\ Len(hub) \in Nat
          /\ Tail(hub) \in Seq(Statement) /\ Len(Tail(hub)) = Len(hub) - 1
          /\ \A j \in 1 .. Len(Tail(hub)) : Tail(hub)[j] = hub[j + 1]
      BY <1>1, <2>1, <3>1, LenProperties, HeadTailProperties
    <3>3. CASE i = 1
      <4>1. Head(hub) = Send(c, Deliver(q, m))
        BY <1>1, <2>1, <3>1, <3>3
      <4>2. /\ Head(hub).do = "send" /\ Head(hub).to = c
            /\ Head(hub).frame.type = "DELIVER" /\ Head(hub).frame.mid = m
        BY <4>1 DEF Send, Deliver
      <4>3. SendFrame
        BY <1>3, <4>2 DEF TouchSubscribed, Current
      <4> QED BY <1>1, <4>2, <4>3 DEF SendFrame
    <3>4. CASE i # 1
      <4>1. i - 1 \in 1 .. Len(Tail(hub)) /\ Tail(hub)[i - 1] = hub[i]
        BY <3>2, <3>4
      <4>2. i - 1 \in DOMAIN hub' /\ hub'[i - 1] = Send(c, Deliver(q, m))
        BY <2>1, <3>1, <3>2, <4>1, LenProperties
      <4> QED BY <4>2 DEF Promised
    <3> QED BY <3>3, <3>4
  <2>3. \A c \in Conns : offered[c] \subseteq offered'[c]
    BY <1>1, <1>3 DEF SendFrame, TouchSubscribed, history
  <2>4. \A row \in db.messages : row.mid \in Mids
    BY <1>1 DEF Database, Row
  <2>5. ASSUME NEW row \in db.messages, sub[row.qid] \in clients
        PROVE  \/ row.mid \in offered'[sub[row.qid]]
               \/ \E i \in DOMAIN hub' : hub'[i] = Send(sub[row.qid], Deliver(row.qid, row.mid))
    <3>1. CASE row.mid \in offered[sub[row.qid]]
      BY <1>1, <2>3, <2>5, <3>1
    <3>2. CASE Promised(sub[row.qid], row.qid, row.mid)
      <4>1. PICK c \in clients : c = sub[row.qid]
        BY <2>5
      <4> QED BY <1>1, <2>2, <2>4, <3>2, <4>1 DEF Promised
    <3> QED BY <2>5, <3>1, <3>2 DEF Pledged
  <2> QED BY <2>1, <2>5 DEF Pledged, Promised
<1>4. ASSUME NEW c \in Conns, Connect(c)
      PROVE  Pledged'
  <2>1. /\ hub = <<>> /\ reader[c] = "absent" /\ clients' = clients \cup {c}
        /\ reader' = [reader EXCEPT ![c] = "reading"]
        /\ UNCHANGED <<db, sub, offered>>
    BY <1>4 DEF Connect, Idle, history
  <2>2. \A q \in Queues : sub[q] # c
    BY <2>1, HubAssumption DEF Pledged
  <2>3. \A q \in Queues : sub'[q] # Nobody => reader'[sub'[q]] # "absent"
    BY <1>1, <2>1 DEF Pledged
  <2> QED BY <1>1, <2>1, <2>2, <2>3 DEF Pledged, Promised
<1>5. ASSUME NEW c \in Conns, HandleNew(c)
      PROVE  Pledged'
  <2>1. PICK q \in FreshQueues :
          (\E d \in Created(q) : db' \in Touched(d, q)) /\ sub' = [sub EXCEPT ![q] = Nobody]
    BY <1>5 DEF HandleNew
  <2>2. q \in Queues /\ db' \in Touched(CreateQueue(db, q), q)
    BY <2>1 DEF FreshQueues, Created
  <2>3. db'.messages = db.messages
    BY <1>1, <2>2, QueueStatementTypes, CreateEffects, StatementsKeep
  <2>4. /\ hub = <<>> /\ clients' = clients /\ offered' = offered
        /\ \A x \in Conns : reader'[x] = "absent" => reader[x] = "absent"
    BY <1>1, <1>5 DEF HandleNew, Receive, Idle
  <2> QED BY <1>1, <2>1, <2>3, <2>4, PledgedFrame
<1>6. ASSUME NEW c \in Conns, HandleAck(c)
      PROVE  Pledged'
  <2>1. db' = db \/ db' = DeleteMessage(db, cmd[c].mid)
    BY <1>6 DEF HandleAck
  <2>2. db'.messages \subseteq db.messages
    BY <1>1, <2>1, DeleteEffects
  <2>3. /\ hub = <<>> /\ clients' = clients /\ sub' = sub /\ offered' = offered
        /\ \A x \in Conns : reader'[x] = "absent" => reader[x] = "absent"
    BY <1>1, <1>6 DEF HandleAck, Receive, Idle, memory
  <2> QED BY <2>2, <2>3, PledgedFrame
<1>7. ASSUME NEW c \in Conns,
             RefuseNew(c) \/ RefuseSub(c) \/ RefuseSend(c) \/ RefuseSave(c) \/ HandleOther(c)
      PROVE  Pledged'
  <2>1. /\ hub = <<>> /\ UNCHANGED <<db, clients, sub, offered>>
        /\ \A x \in Conns : reader'[x] = "absent" => reader[x] = "absent"
    BY <1>1, <1>7
    DEF RefuseNew, RefuseSub, RefuseSend, RefuseSave, HandleOther, Receive, Idle, memory, history
  <2> QED BY <2>1, PledgedFrame
<1>8. ASSUME NEW c \in Conns, Depart(c)
      PROVE  Pledged'
  <2>1. /\ hub' = hub /\ db' = db /\ clients' \subseteq clients /\ offered' = offered
        /\ \A q \in Queues : sub'[q] \in {sub[q], Nobody}
        /\ \A x \in Conns : reader'[x] = "absent" => reader[x] = "absent"
    BY <1>1, <1>8
    DEF Depart, Unregister, UnregisterLate, Leave, ReleaseQueue, memory, history
  <2> QED BY <2>1, PledgedFrame
<1>9. ASSUME NEW c \in Conns, PumpStep(c)
      PROVE  Pledged'
  <2>1. /\ UNCHANGED <<hub, db, clients, sub, offered>>
        /\ \A x \in Conns : reader'[x] = "absent" => reader[x] = "absent"
    BY <1>1, <1>9
    DEF PumpStep, ReadCommand, AnswerInPlace, StopReading, WriteFrame, SeeClosedChannel,
        FailToWrite, StopWriting, memory, history
  <2> QED BY <2>1, PledgedFrame
<1>10. CASE UNCHANGED vars
  BY <1>10, PledgedFrame DEF vars, memory, pumps, history
<1> QED BY <1>2, <1>3, <1>4, <1>5, <1>6, <1>7, <1>8, <1>9, <1>10, PledgedSub, PledgedSend
        DEF Next, HubStep, Handle

\* Between two requests the live subscriber of a queue has been offered all
\* that is stored for it, as long as the query of the replay works: nothing
\* falls between the replay and the messages that arrive after it.
THEOREM NothingIsStranded ==
  ASSUME "undelivered" \notin Faulty
  PROVE  Spec => []NothingStranded
<1>1. Pledged => NothingStranded
  BY DEF Pledged, Promised, NothingStranded, Idle
<1>2. Typed /\ Exclusive /\ Pledged /\ [Next]_vars => Pledged'
  BY PledgedNext
<1> QED BY <1>1, <1>2, PledgedInit, TypedInit, TypedNext, ExclusiveAlways, PTL DEF Spec

----------------------------------------------------------------------------
(* A message goes to the subscriber only.                                   *)

\* Statements that deliver nothing.
Quiet == {s \in Statement : s.do = "send" => s.frame.type # "DELIVER"}

LEMMA QuietStatements ==
  ASSUME NEW c \in Conns
  PROVE  /\ Send(c, Error) \in Quiet
         /\ \A q \in Queues : Send(c, SubOk(q)) \in Quiet /\ Touch(q) \in Quiet
         /\ \A q \in Queues, m \in Mids : Send(c, Ack(q, m)) \in Quiet
<1>1. /\ Send(c, Error) \in Statement
      /\ \A q \in Queues : Send(c, SubOk(q)) \in Statement /\ Touch(q) \in Statement
      /\ \A q \in Queues, m \in Mids : Send(c, Ack(q, m)) \in Statement
  BY FrameTypes DEF Send, Touch, Statement
<1> QED BY <1>1 DEF Quiet, Send, Touch, Error, SubOk, Ack

LEMMA QuietSlices ==
  ASSUME NEW id
  PROVE  Abbreviate(id) \in Seq(Quiet)
<1>1. [do |-> "slice"] \in Quiet
  BY DEF Quiet, Statement
<1>2. <<[do |-> "slice"]>> \in Seq(Quiet) /\ <<>> \in Seq(Quiet)
  BY <1>1, EmptySeq
<1> QED BY <1>2 DEF Abbreviate

\* A delivery that is still to be sent is addressed to the subscriber of its
\* queue: the roles change only between two handlers.
AddressedStatement ==
  {s \in Statement :
     s.do = "send" /\ s.frame.type = "DELIVER" => sub[s.frame.qid] = s.to}

Addressed == hub \in Seq(AddressedStatement)

LEMMA QuietIsAddressed == Quiet \subseteq AddressedStatement /\ Quiet \subseteq AddressedStatement'
BY DEF Quiet, AddressedStatement

LEMMA QuietHandlers ==
  ASSUME Typed, NEW c \in Conns, Handle(c), ~ HandleSub(c), ~ HandleSend(c)
  PROVE  hub' \in Seq(Quiet)
<1>1. CASE HandleNew(c)
  <2>1. PICK q \in FreshQueues : hub' = <<Send(c, NewOk(q))>>
    BY <1>1 DEF HandleNew
  <2>2. Send(c, NewOk(q)) \in Quiet
    <3>1. q \in Queues
      BY DEF FreshQueues
    <3>2. Send(c, NewOk(q)) \in Statement
      BY <3>1, FrameTypes DEF Send, Statement
    <3> QED BY <3>2 DEF Quiet, Send, NewOk
  <2> QED BY <2>1, <2>2
<1>2. CASE HandleAck(c)
  <2>1. hub' = Abbreviate(cmd[c].qid) \o Abbreviate(cmd[c].mid)
    BY <1>2 DEF HandleAck
  <2> QED BY <2>1, QuietSlices, ConcatProperties
<1>3. CASE RefuseNew(c) \/ RefuseSub(c) \/ RefuseSend(c) \/ RefuseSave(c) \/ HandleOther(c)
  <2>1. hub' = <<Send(c, Error)>>
    BY <1>3 DEF RefuseNew, RefuseSub, RefuseSend, RefuseSave, HandleOther, Refuse
  <2> QED BY <2>1, QuietStatements
<1> QED BY <1>1, <1>2, <1>3 DEF Handle

LEMMA AddressedSub ==
  ASSUME Typed, NEW c \in Conns, HandleSub(c)
  PROVE  Addressed'
<1> DEFINE q == cmd[c].qid
           R == RowsOf(db, q)
           A == AddressedStatement'
<1>1. q \in Queues /\ sub' = [sub EXCEPT ![q] = c]
  BY DEF HandleSub, Found
<1>2. PICK replay \in Replays(q, c) : hub' = SubProgram(q, c, replay)
  BY DEF HandleSub
<1> HIDE DEF q
<1>3. /\ sub'[q] = c /\ db \in Database /\ IsFiniteSet(db.messages)
  BY <1>1 DEF Typed, TypeOK
<1>4. R \subseteq Row /\ Cardinality(R) \in Nat
  BY <1>3, FS_Subset, FS_CardinalityType DEF RowsOf, Database
<1>5. ASSUME NEW row \in R
      PROVE  Send(c, Deliver(q, row.mid)) \in A
  <2>1. Send(c, Deliver(q, row.mid)) \in Statement
    BY <1>1, <1>4, FrameTypes DEF Send, Statement, Row
  <2> QED BY <1>3, <2>1 DEF AddressedStatement, Send, Deliver
<1>6. replay \in Seq(A)
  <2>1. ASSUME NEW rows \in Undelivered(db, q)
        PROVE  [i \in DOMAIN rows |-> Send(c, Deliver(q, rows[i].mid))] \in Seq(A)
    <3>1. rows \in [1 .. Cardinality(R) -> R]
      BY DEF Undelivered
    <3>2. [i \in DOMAIN rows |-> Send(c, Deliver(q, rows[i].mid))]
            \in [1 .. Cardinality(R) -> A]
      BY <1>5, <3>1
    <3> QED BY <1>4, <3>2, SeqDef
  <2>2. <<>> \in Seq(A)
    BY EmptySeq
  <2> QED BY <2>1, <2>2 DEF Replays
<1>7. <<Send(c, SubOk(q))>> \in Seq(A) /\ <<Touch(q)>> \in Seq(A)
  <2>1. Send(c, SubOk(q)) \in A /\ Touch(q) \in A
    BY <1>1, QuietStatements, QuietIsAddressed
  <2> HIDE DEF A
  <2> QED BY <2>1
<1> HIDE DEF A
<1>8. hub' \in Seq(A)
  BY <1>2, <1>6, <1>7, ConcatProperties DEF SubProgram
<1> QED BY <1>8 DEF Addressed, A

LEMMA AddressedSend ==
  ASSUME Typed, NEW c \in Conns, HandleSend(c)
  PROVE  Addressed'
<1> DEFINE q == cmd[c].qid
           A == AddressedStatement'
           D(m) == [i \in DOMAIN Recipients(q) |-> Send(Recipients(q)[i], Deliver(q, m))]
<1>1. q \in Queues /\ sub' = sub /\ cmd[c].type = "SEND"
  BY DEF HandleSend, Found, Receive
<1>2. PICK m \in MidsFor(cmd[c]) :
        hub' = D(m) \o Abbreviate(m) \o <<Send(c, Ack(q, m))>>
  BY DEF HandleSend
<1>3. m \in Mids
  <2>1. cmd[c] \in Command \cup {NoCommand}
    BY DEF Typed, TypeOK
  <2>2. cmd[c] \in Command
    BY <1>1, <2>1 DEF NoCommand
  <2> QED BY <2>2 DEF MidsFor, Command
<1> HIDE DEF q
<1>4. D(m) \in Seq(A)
  <2>1. CASE sub[q] = Nobody
    <3>1. D(m) = <<>>
      BY <2>1 DEF Recipients
    <3> QED BY <3>1, EmptySeq
  <2>2. CASE sub[q] # Nobody
    <3>1. sub[q] \in Conns
      BY <1>1, <2>2 DEF Typed, TypeOK
    <3>2. Send(sub[q], Deliver(q, m)) \in Statement
      BY <1>1, <1>3, <3>1, FrameTypes DEF Send, Statement
    <3>3. Send(sub[q], Deliver(q, m)) \in A
      BY <1>1, <3>2 DEF AddressedStatement, Send, Deliver
    <3>4. D(m) = <<Send(sub[q], Deliver(q, m))>>
      BY <2>2 DEF Recipients
    <3> HIDE DEF A, D
    <3> QED BY <3>3, <3>4
  <2> QED BY <2>1, <2>2
<1>5. /\ Abbreviate(m) \in Seq(A) /\ <<Send(c, Ack(q, m))>> \in Seq(A)
  <2>1. Abbreviate(m) \in Seq(A)
    BY QuietSlices, QuietIsAddressed, SeqMonotonic
  <2>2. Send(c, Ack(q, m)) \in A
    BY <1>1, <1>3, QuietStatements, QuietIsAddressed
  <2> HIDE DEF A
  <2> QED BY <2>1, <2>2
<1> HIDE DEF A, D
<1>6. hub' \in Seq(A)
  BY <1>2, <1>4, <1>5, ConcatProperties
<1> QED BY <1>6 DEF Addressed, A

LEMMA AddressedInit == Init => Addressed
BY EmptySeq DEF Init, Addressed

\* How the program of the hub, and the roles with it, may change.
LEMMA ProgramSteps ==
  ASSUME [Next]_vars
  PROVE  \/ hub' = <<>>
         \/ hub' = hub /\ sub' = sub
         \/ hub # <<>> /\ hub' = Tail(hub) /\ sub' = sub
         \/ \E c \in Conns : Handle(c)
<1>1. CASE Restart \/ HubStep \/ UNCHANGED vars
  BY <1>1
  DEF Restart, HubStep, SendFrame, TouchSubscribed, SendOnClosed, SliceShortId, Current,
      Panic, Reset, vars, memory
<1>2. ASSUME NEW c \in Conns, Connect(c) \/ PumpStep(c)
      PROVE  hub' = hub /\ sub' = sub
  BY <1>2
  DEF Connect, PumpStep, ReadCommand, AnswerInPlace, StopReading, WriteFrame,
      SeeClosedChannel, FailToWrite, StopWriting, memory
<1>3. ASSUME NEW c \in Conns, Depart(c)
      PROVE  hub' = <<>>
  BY <1>3 DEF Depart, Unregister, UnregisterLate, Leave, Idle
<1> QED BY <1>1, <1>2, <1>3 DEF Next

LEMMA AddressedNext ==
  ASSUME Typed, Addressed, [Next]_vars
  PROVE  Addressed'
<1>1. ASSUME NEW c \in Conns, Handle(c)
      PROVE  Addressed'
  <2>1. ASSUME ~ HandleSub(c), ~ HandleSend(c) PROVE Addressed'
    BY <1>1, <2>1, QuietHandlers, QuietIsAddressed, SeqMonotonic DEF Addressed
  <2> QED BY <2>1, AddressedSub, AddressedSend
<1>2. ASSUME sub' = sub, hub' = hub \/ (hub # <<>> /\ hub' = Tail(hub))
      PROVE  Addressed'
  <2>1. AddressedStatement' = AddressedStatement
    BY <1>2 DEF AddressedStatement
  <2>2. hub # <<>> => Tail(hub) \in Seq(AddressedStatement)
    BY HeadTailProperties DEF Addressed
  <2> QED BY <1>2, <2>1, <2>2 DEF Addressed
<1>3. CASE hub' = <<>>
  BY <1>3, EmptySeq DEF Addressed
<1> QED BY <1>1, <1>2, <1>3, ProgramSteps

\* What a step does to a send channel.
LEMMA ChannelSteps ==
  ASSUME Typed, [Next]_vars, NEW c \in Conns
  PROVE  \/ send'[c] \in {send[c], <<>>}
         \/ send[c] # <<>> /\ send'[c] = Tail(send[c])
         \/ \E f \in {Pong, Error} : send'[c] = Append(send[c], f)
         \/ /\ hub # <<>> /\ Head(hub).do = "send" /\ Head(hub).to = c
            /\ send'[c] = Append(send[c], Head(hub).frame)
<1>1. send \in [Conns -> Seq(Frame)]
  BY DEF Typed, TypeOK
<1>2. CASE SendFrame
  BY <1>1, <1>2 DEF SendFrame, SendEnvelope, Current
<1>3. CASE Restart \/ SendOnClosed \/ SliceShortId
  BY <1>3 DEF Restart, SendOnClosed, SliceShortId, Panic, Reset
<1>4. ASSUME NEW x \in Conns, WriteFrame(x)
      PROVE  send'[c] = send[c] \/ (send[c] # <<>> /\ send'[c] = Tail(send[c]))
  BY <1>1, <1>4 DEF WriteFrame
<1>5. ASSUME NEW x \in Conns, NEW k, AnswerInPlace(x, k)
      PROVE  send'[c] = send[c] \/ \E f \in {Pong, Error} : send'[c] = Append(send[c], f)
  BY <1>1, <1>5 DEF AnswerInPlace, SendEnvelope
<1>6. ASSUME NEW x \in Conns, Handle(x) \/ Depart(x) \/ Connect(x)
      PROVE  send' = send
  BY <1>6
  DEF Handle, RefuseNew, HandleNew, RefuseSub, HandleSub, RefuseSend, RefuseSave,
      HandleSend, HandleAck, HandleOther, Receive, Depart, Unregister, UnregisterLate,
      Leave, Connect
<1>7. ASSUME NEW x \in Conns, NEW k, ReadCommand(x, k)
      PROVE  send' = send
  BY <1>7 DEF ReadCommand
<1>8. ASSUME NEW x \in Conns, StopReading(x) \/ StopWriting(x)
      PROVE  send' = send
  BY <1>8 DEF StopReading, StopWriting
<1>9. CASE TouchSubscribed \/ UNCHANGED vars
  BY <1>9 DEF TouchSubscribed, vars, pumps
<1> QED BY <1>2, <1>3, <1>4, <1>5, <1>6, <1>7, <1>8, <1>9
        DEF Next, HubStep, PumpStep, SeeClosedChannel, FailToWrite

\* The channel is longer by the frame only if the frame was put into it.
LEMMA LastFrame ==
  ASSUME NEW s \in Seq(Frame), NEW f \in Frame
  PROVE  /\ Append(s, f) \notin {s, <<>>}
         /\ s # <<>> => Append(s, f) # Tail(s)
         /\ \A g \in Frame : Append(s, g) = Append(s, f) => g = f
<1>1. /\ Len(s) \in Nat
      /\ \A g \in Frame : /\ Len(Append(s, g)) = Len(s) + 1
                          /\ Append(s, g)[Len(s) + 1] = g
  BY AppendProperties, LenProperties
<1>2. s # <<>> => Len(Tail(s)) = Len(s) - 1
  BY HeadTailProperties
<1>3. Len(<<>>) = 0
  BY EmptySeq
<1> QED BY <1>1, <1>2, <1>3

\* No connection but the subscriber of its queue is ever handed a message,
\* in a replay or on line, whoever takes a queue over meanwhile (hub.go:262).
THEOREM MessagesReachSubscribersOnly == Spec => OnlySubscriberReceives
<1>1. ASSUME Typed, Addressed, [Next]_vars, NEW c \in Conns, NEW q \in Queues,
             NEW m \in Mids, send'[c] = Append(send[c], Deliver(q, m))
      PROVE  sub[q] = c
  <2>1. send[c] \in Seq(Frame) /\ Deliver(q, m) \in Frame
    BY <1>1, FrameTypes DEF Typed, TypeOK
  <2>2. Pong # Deliver(q, m) /\ Error # Deliver(q, m)
    BY DEF Pong, Error, Deliver
  <2>3. /\ hub # <<>> /\ Head(hub).do = "send" /\ Head(hub).to = c
        /\ Append(send[c], Head(hub).frame) = Append(send[c], Deliver(q, m))
    <3> DEFINE f == Deliver(q, m)
               s == send[c]
    <3>1. \A g \in Frame : Append(s, g) = Append(s, f) => g = f
      BY <2>1, LastFrame
    <3>2. Append(s, f) \notin {s, <<>>} /\ (s # <<>> => Append(s, f) # Tail(s))
      BY <2>1, LastFrame
    <3>3. send'[c] = Append(s, f) /\ Pong # f /\ Error # f /\ Pong \in Frame /\ Error \in Frame
      BY <1>1, <2>2, FrameTypes
    <3> HIDE DEF f, s
    <3>4. \/ send'[c] \in {s, <<>>}
          \/ s # <<>> /\ send'[c] = Tail(s)
          \/ \E g \in {Pong, Error} : send'[c] = Append(s, g)
          \/ /\ hub # <<>> /\ Head(hub).do = "send" /\ Head(hub).to = c
             /\ send'[c] = Append(s, Head(hub).frame)
      BY <1>1, ChannelSteps DEF s
    <3>5. /\ hub # <<>> /\ Head(hub).do = "send" /\ Head(hub).to = c
          /\ Append(s, Head(hub).frame) = Append(s, f)
      BY <3>1, <3>2, <3>3, <3>4
    <3> QED BY <3>5 DEF f, s
  <2>4. Head(hub) \in AddressedStatement
    BY <1>1, <2>3, HeadTailProperties DEF Addressed
  <2>5. Head(hub).frame \in Frame
    BY <2>3, <2>4 DEF AddressedStatement, Statement
  <2>6. Head(hub).frame = Deliver(q, m)
    BY <2>1, <2>3, <2>5, LastFrame
  <2> QED BY <2>3, <2>4, <2>6 DEF AddressedStatement, Deliver
<1>2. Typed /\ Addressed /\ [Next]_vars =>
        [\A c \in Conns : \A q \in Queues : \A m \in Mids :
           send'[c] = Append(send[c], Deliver(q, m)) => sub[q] = c]_vars
  BY <1>1
<1>3. Typed /\ Addressed /\ [Next]_vars => Addressed'
  BY AddressedNext
<1> QED
  BY <1>2, <1>3, TypedInit, TypedNext, AddressedInit, PTL DEF Spec, OnlySubscriberReceives

=============================================================================
