-------------------------- MODULE ChatDeliveryProofs --------------------------
(***************************************************************************)
(* What chats deliver, for any number of runs and messages and all         *)
(* capacities, in three parts.                                             *)
(*                                                                         *)
(* The lines that are typed reach the relay once and in order: a line is   *)
(* in one of four places, which follow each other: accepted, held by the   *)
(* relay's reader, in the stream, or in the client's channel.              *)
(*                                                                         *)
(* The messages that are accepted reach the screen in that order: a        *)
(* backlog and what comes in meanwhile do not overtake each other.         *)
(*                                                                         *)
(* Nothing is missed while no frame is dropped for lack of room.           *)
(***************************************************************************)
EXTENDS ChatOrderProofs

----------------------------------------------------------------------------
(* Four places, in an order R.                                              *)

InLine(A, k, U, O, R) ==
  /\ Sorted(A, R) /\ Sorted(U, R) /\ Sorted(O, R)
  /\ \A x \in Range(A) : <<x, k>> \in R
  /\ \A x \in Range(A) \cup {k}, y \in Range(U) : <<x, y>> \in R
  /\ \A x \in Range(A) \cup {k} \cup Range(U), y \in Range(O) : <<x, y>> \in R

\* x fits everywhere.
Neutral(x, R) == \A y \in MaybeMids : <<x, y>> \in R /\ <<y, x>> \in R

LEMMA InLineIsSorted ==
  ASSUME NEW A \in Seq(MaybeMids), NEW k \in MaybeMids, NEW U \in Seq(MaybeMids),
         NEW O \in Seq(MaybeMids), NEW R
  PROVE  /\ <<k>> \o U \o O \in Seq(MaybeMids)
         /\ Range(<<k>> \o U \o O) = {k} \cup Range(U) \cup Range(O)
         /\ A \o (<<k>> \o U \o O) \in Seq(MaybeMids)
         /\ Range(A \o (<<k>> \o U \o O)) = Range(A) \cup {k} \cup Range(U) \cup Range(O)
         /\ Sorted(A \o (<<k>> \o U \o O), R) <=> InLine(A, k, U, O, R)
<1> DEFINE K == <<k>>
           B == K \o U
           W == B \o O
<1>1. K \in Seq(MaybeMids) /\ Range(K) = {k} /\ Sorted(K, R)
  BY SingleSeq
<1> HIDE DEF K
<1>2. /\ B \in Seq(MaybeMids) /\ Range(B) = {k} \cup Range(U)
      /\ Sorted(B, R) <=> Sorted(U, R) /\ \A y \in Range(U) : <<k, y>> \in R
  <2>1. K \o U \in Seq(MaybeMids)
    BY <1>1, ConcatProperties
  <2>2. Range(K \o U) = Range(K) \cup Range(U)
    BY <1>1, RangeConcatenation
  <2>3. Sorted(K \o U, R)
          <=> /\ Sorted(K, R) /\ Sorted(U, R)
              /\ \A z \in Range(K), y \in Range(U) : <<z, y>> \in R
    BY <1>1, SortedConcat
  <2> QED BY <1>1, <2>1, <2>2, <2>3
<1> HIDE DEF B
<1>3. /\ W \in Seq(MaybeMids) /\ Range(W) = Range(B) \cup Range(O)
      /\ Sorted(W, R) <=> /\ Sorted(B, R) /\ Sorted(O, R)
                          /\ \A z \in Range(B), y \in Range(O) : <<z, y>> \in R
  <2>1. B \o O \in Seq(MaybeMids)
    BY <1>2, ConcatProperties
  <2>2. Range(B \o O) = Range(B) \cup Range(O)
    BY <1>2, RangeConcatenation
  <2>3. Sorted(B \o O, R)
          <=> /\ Sorted(B, R) /\ Sorted(O, R)
              /\ \A z \in Range(B), y \in Range(O) : <<z, y>> \in R
    BY <1>2, SortedConcat
  <2> QED BY <2>1, <2>2, <2>3
<1> HIDE DEF W
<1>4. A \o W \in Seq(MaybeMids)
  BY <1>3, ConcatProperties
<1>5. Range(A \o W) = Range(A) \cup Range(W)
  BY <1>3, RangeConcatenation
<1>6. Sorted(A \o W, R)
        <=> /\ Sorted(A, R) /\ Sorted(W, R)
            /\ \A z \in Range(A), y \in Range(W) : <<z, y>> \in R
  BY <1>3, SortedConcat
<1>7. Sorted(A \o W, R) <=> InLine(A, k, U, O, R)
  BY <1>2, <1>3, <1>6 DEF InLine
<1> QED BY <1>2, <1>3, <1>4, <1>5, <1>7 DEF W, B, K

\* The relay's reader takes the next command of the stream.
LEMMA InLineTake ==
  ASSUME NEW A \in Seq(MaybeMids), NEW k, NEW U \in Seq(MaybeMids), U # <<>>,
         NEW O \in Seq(MaybeMids), NEW R, InLine(A, k, U, O, R)
  PROVE  InLine(A, Head(U), Tail(U), O, R)
<1>1. /\ Range(U) = {Head(U)} \cup Range(Tail(U))
      /\ Sorted(Tail(U), R) /\ \A y \in Range(Tail(U)) : <<Head(U), y>> \in R
  BY SortedTail DEF InLine
<1> QED BY <1>1 DEF InLine

\* The client writes the next command of its channel.
LEMMA InLineMove ==
  ASSUME NEW A \in Seq(MaybeMids), NEW k, NEW U \in Seq(MaybeMids),
         NEW O \in Seq(MaybeMids), O # <<>>, NEW R, InLine(A, k, U, O, R)
  PROVE  InLine(A, k, Append(U, Head(O)), Tail(O), R)
<1>1. /\ Head(O) \in MaybeMids /\ Range(O) = {Head(O)} \cup Range(Tail(O))
      /\ Sorted(Tail(O), R) /\ \A y \in Range(Tail(O)) : <<Head(O), y>> \in R
  BY SortedTail DEF InLine
<1>2. /\ Range(Append(U, Head(O))) = Range(U) \cup {Head(O)}
      /\ Sorted(Append(U, Head(O)), R)
           <=> Sorted(U, R) /\ \A y \in Range(U) : <<y, Head(O)>> \in R
  BY <1>1, SortedAppend
<1> QED BY <1>1, <1>2 DEF InLine

\* Something is lost on the way.
LEMMA InLineLoss ==
  ASSUME NEW A \in Seq(MaybeMids), NEW k \in MaybeMids, NEW U \in Seq(MaybeMids),
         NEW O \in Seq(MaybeMids), NEW R, InLine(A, k, U, O, R), Neutral(NoMid, R),
         NEW l \in {k, NoMid}, NEW V \in {U, <<>>}, NEW P,
         P \in {O, <<>>} \/ (O # <<>> /\ P = Tail(O))
  PROVE  InLine(A, l, V, P, R)
<1>1. Range(A) \subseteq MaybeMids /\ Range(U) \subseteq MaybeMids
      /\ Range(O) \subseteq MaybeMids /\ NoMid \in MaybeMids
  BY RangeOfSeq DEF MaybeMids
<1>2. Range(V) \subseteq Range(U) /\ Sorted(V, R)
  BY NothingSorted DEF InLine
<1>3. Range(P) \subseteq Range(O) /\ Sorted(P, R)
  <2>1. O # <<>> => /\ Range(O) = {Head(O)} \cup Range(Tail(O))
                    /\ Sorted(O, R) => Sorted(Tail(O), R)
    BY SortedTail
  <2> QED BY <2>1, NothingSorted DEF InLine
<1> QED BY <1>1, <1>2, <1>3 DEF InLine, Neutral

\* Commands that carry no line.
LEMMA InLineOther ==
  ASSUME NEW A \in Seq(MaybeMids), NEW k \in MaybeMids, NEW U \in Seq(MaybeMids),
         NEW O \in Seq(MaybeMids), NEW R, InLine(A, k, U, O, R),
         NEW z \in MaybeMids, Neutral(z, R)
  PROVE  /\ InLine(Append(A, z), k, U, O, R)
         /\ InLine(A, z, U, O, R)
         /\ InLine(A, k, Append(U, z), O, R)
         /\ InLine(A, k, U, Append(O, z), R)
<1>1. Range(A) \subseteq MaybeMids /\ Range(U) \subseteq MaybeMids
      /\ Range(O) \subseteq MaybeMids
  BY RangeOfSeq
<1>2. /\ Range(Append(A, z)) = Range(A) \cup {z}
      /\ Sorted(Append(A, z), R) <=> Sorted(A, R) /\ \A y \in Range(A) : <<y, z>> \in R
  BY SortedAppend
<1>3. /\ Range(Append(U, z)) = Range(U) \cup {z}
      /\ Sorted(Append(U, z), R) <=> Sorted(U, R) /\ \A y \in Range(U) : <<y, z>> \in R
  BY SortedAppend
<1>4. /\ Range(Append(O, z)) = Range(O) \cup {z}
      /\ Sorted(Append(O, z), R) <=> Sorted(O, R) /\ \A y \in Range(O) : <<y, z>> \in R
  BY SortedAppend
<1>5. InLine(Append(A, z), k, U, O, R)
  BY <1>1, <1>2 DEF InLine, Neutral
<1>6. InLine(A, z, U, O, R)
  BY <1>1 DEF InLine, Neutral
<1>7. InLine(A, k, Append(U, z), O, R)
  BY <1>1, <1>3 DEF InLine, Neutral
<1>8. InLine(A, k, U, Append(O, z), R)
  BY <1>1, <1>4 DEF InLine, Neutral
<1> QED BY <1>5, <1>6, <1>7, <1>8

\* The relay accepts the line its reader holds.
LEMMA InLineAccept ==
  ASSUME NEW A \in Seq(MaybeMids), NEW k \in MaybeMids, NEW U \in Seq(MaybeMids),
         NEW O \in Seq(MaybeMids), NEW R, InLine(A, k, U, O, R), Neutral(NoMid, R)
  PROVE  InLine(Append(A, k), NoMid, U, O, R)
<1>1. Range(A) \subseteq MaybeMids /\ Range(U) \subseteq MaybeMids
      /\ Range(O) \subseteq MaybeMids
  BY RangeOfSeq
<1>2. /\ Range(Append(A, k)) = Range(A) \cup {k}
      /\ Sorted(Append(A, k), R) <=> Sorted(A, R) /\ \A y \in Range(A) : <<y, k>> \in R
  BY SortedAppend
<1> QED BY <1>1, <1>2 DEF InLine, Neutral

----------------------------------------------------------------------------
(* The order in which the lines of a run were typed.                        *)

\* Pairs that do not contradict the order of t.
OrderOf(t) ==
  {p \in MaybeMids \X MaybeMids :
     \A i, j \in DOMAIN t : p[1] = t[i] /\ p[2] = t[j] => i < j}

LEMMA OrderPair ==
  ASSUME NEW t, NEW x \in MaybeMids, NEW y \in MaybeMids
  PROVE  <<x, y>> \in OrderOf(t)
           <=> \A i, j \in DOMAIN t : x = t[i] /\ y = t[j] => i < j
BY DEF OrderOf

LEMMA OrderNeutral ==
  ASSUME NEW t, NEW x \in MaybeMids, x \notin Range(t)
  PROVE  Neutral(x, OrderOf(t))
<1>1. \A i \in DOMAIN t : t[i] # x
  BY InRange
<1> QED BY <1>1, OrderPair DEF Neutral

\* A new line is the last one.
LEMMA OrderAppend ==
  ASSUME NEW t \in Seq(Mids), NEW m \in Mids, m \notin Range(t),
         NEW x \in MaybeMids \ {m}, NEW y \in MaybeMids,
         y = m \/ <<x, y>> \in OrderOf(t)
  PROVE  <<x, y>> \in OrderOf(Append(t, m))
<1> DEFINE u == Append(t, m)
<1>1. /\ Len(t) \in Nat /\ DOMAIN t = 1 .. Len(t) /\ DOMAIN u = 1 .. Len(t) + 1
      /\ u[Len(t) + 1] = m /\ \A i \in 1 .. Len(t) : u[i] = t[i]
  BY AppendProperties, LenProperties
<1> HIDE DEF u
<1>2. \A i \in DOMAIN t : t[i] # m
  BY InRange
<1>3. ASSUME NEW i \in DOMAIN u, NEW j \in DOMAIN u, x = u[i], y = u[j]
      PROVE  i < j
  <2>1. i \in 1 .. Len(t) /\ u[i] = t[i]
    BY <1>1, <1>3
  <2>2. CASE j = Len(t) + 1
    BY <1>1, <2>1, <2>2
  <2>3. CASE j # Len(t) + 1
    <3>1. j \in 1 .. Len(t) /\ u[j] = t[j]
      BY <1>1, <1>3, <2>3
    <3>2. <<x, y>> \in OrderOf(t)
      BY <1>1, <1>2, <1>3, <3>1
    <3> QED BY <1>1, <1>3, <2>1, <3>1, <3>2, OrderPair
  <2> QED BY <2>2, <2>3
<1> QED BY <1>3, OrderPair DEF u

LEMMA InLineType ==
  ASSUME NEW A \in Seq(MaybeMids), NEW k \in MaybeMids, NEW U \in Seq(MaybeMids),
         NEW O \in Seq(MaybeMids), NEW t \in Seq(Mids), NEW m \in Mids, m \notin Range(t),
         InLine(A, k, U, O, OrderOf(t)),
         m \notin Range(A) \cup {k} \cup Range(U) \cup Range(O)
  PROVE  InLine(A, k, U, Append(O, m), OrderOf(Append(t, m)))
<1> DEFINE R == OrderOf(t)
           T == OrderOf(Append(t, m))
<1>1. Range(A) \subseteq MaybeMids /\ Range(U) \subseteq MaybeMids
      /\ Range(O) \subseteq MaybeMids /\ m \in MaybeMids
  BY RangeOfSeq DEF MaybeMids
<1>2. /\ \A x \in MaybeMids \ {m}, y \in MaybeMids : <<x, y>> \in R => <<x, y>> \in T
      /\ \A x \in MaybeMids \ {m} : <<x, m>> \in T
  BY <1>1, OrderAppend
<1> HIDE DEF R, T
<1>3. InLine(A, k, U, O, R)
  BY DEF R
<1>4. Sorted(A, T) /\ Sorted(U, T) /\ Sorted(O, T)
  <2>1. ASSUME NEW s, Range(s) \subseteq MaybeMids \ {m}, Sorted(s, R) PROVE Sorted(s, T)
    BY <1>2, <2>1, SortedGrows
  <2> QED BY <1>1, <1>3, <2>1 DEF InLine
<1>5. InLine(A, k, U, O, T)
  BY <1>1, <1>2, <1>3, <1>4 DEF InLine
<1>6. /\ Range(Append(O, m)) = Range(O) \cup {m}
      /\ Sorted(Append(O, m), T) <=> Sorted(O, T) /\ \A y \in Range(O) : <<y, m>> \in T
  BY <1>1, SortedAppend
<1>7. \A x \in Range(A) \cup {k} \cup Range(U) \cup Range(O) : <<x, m>> \in T
  BY <1>1, <1>2
<1>8. InLine(A, k, U, Append(O, m), T)
  BY <1>5, <1>6, <1>7 DEF InLine
<1> QED BY <1>8 DEF T

----------------------------------------------------------------------------
(* What happens to the lines of a run.                                      *)

Line(c)     == Load(cmd[c], "SEND")
UpLines(c)  == Carried(up[c], "SEND")
OutLines(c) == Carried(out[c], "SEND")

Asks == Command \cup {NoCommand}

LEMMA CommandsLoad == Loads(Command) /\ Loads(Asks)
BY DEF Loads, Asks, Command, NoCommand, MaybeMids

LEMMA LineTypes ==
  ASSUME ChatTypeOK, NEW x \in Conns
  PROVE  /\ cmd[x] \in Asks /\ up[x] \in Seq(Command) /\ out[x] \in Seq(Command)
         /\ Line(x) \in MaybeMids
         /\ UpLines(x) \in Seq(MaybeMids) /\ OutLines(x) \in Seq(MaybeMids)
         /\ arrived \in Seq(MaybeMids)
         /\ Carried(<<cmd[x]>> \o up[x] \o out[x], "SEND")
              = <<Line(x)>> \o UpLines(x) \o OutLines(x)
<1>1. cmd[x] \in Asks /\ up[x] \in Seq(Command) /\ out[x] \in Seq(Command)
  BY DEF ChatTypeOK, TypeOK, Asks
<1>2. Line(x) \in MaybeMids
  <2>1. cmd[x].mid \in MaybeMids /\ NoMid \in MaybeMids
    BY <1>1, CommandsLoad DEF Loads, MaybeMids
  <2> QED BY <2>1 DEF Line, Load
<1>3. UpLines(x) \in Seq(MaybeMids) /\ OutLines(x) \in Seq(MaybeMids)
  BY <1>1, CommandsLoad, CarriedTypes DEF UpLines, OutLines
<1>4. arrived \in Seq(MaybeMids)
  <2>1. arrived \in Seq(Mids) /\ Mids \subseteq MaybeMids
    BY DEF ChatTypeOK, MaybeMids
  <2> QED BY <2>1, SeqMonotonic
<1>5. Carried(<<cmd[x]>> \o up[x] \o out[x], "SEND")
        = <<Line(x)>> \o UpLines(x) \o OutLines(x)
  <2> DEFINE k == <<cmd[x]>>
             u == up[x]
             o == out[x]
             b == k \o u
  <2>1. k \in Seq(Asks)
    BY <1>1, SingleSeq
  <2>2. u \in Seq(Asks) /\ o \in Seq(Asks)
    <3>1. Command \subseteq Asks
      BY DEF Asks
    <3> QED BY <1>1, <3>1, SeqMonotonic
  <2>3. Carried(k, "SEND") = <<Line(x)>>
    BY CarriedOne DEF Line, Load
  <2> HIDE DEF k, u, o
  <2>4. Carried(k \o u, "SEND") = Carried(k, "SEND") \o Carried(u, "SEND")
    BY <2>1, <2>2, CommandsLoad, CarriedConcat
  <2>5. b \in Seq(Asks)
    BY <2>1, <2>2, ConcatProperties
  <2> HIDE DEF b
  <2>6. Carried(b \o o, "SEND") = Carried(b, "SEND") \o Carried(o, "SEND")
    BY <2>2, <2>5, CommandsLoad, CarriedConcat
  <2> QED BY <2>3, <2>4, <2>6 DEF k, u, o, b, UpLines, OutLines
<1> QED BY <1>1, <1>2, <1>3, <1>4, <1>5

LEMMA LineFrame ==
  ASSUME NEW x, cmd'[x] = cmd[x], up'[x] = up[x], out'[x] = out[x]
  PROVE  Line(x)' = Line(x) /\ UpLines(x)' = UpLines(x) /\ OutLines(x)' = OutLines(x)
BY DEF Line, UpLines, OutLines

\* A channel takes a command at its end, or gives one away.
LEMMA LineAppend ==
  ASSUME NEW s \in Seq(Command), NEW k \in Command
  PROVE  /\ Carried(Append(s, k), "SEND") = Append(Carried(s, "SEND"), Load(k, "SEND"))
BY CommandsLoad, CarriedAppend

LEMMA LineTail ==
  ASSUME NEW s \in Seq(Command), s # <<>>
  PROVE  /\ Carried(s, "SEND") # <<>>
         /\ Head(Carried(s, "SEND")) = Load(Head(s), "SEND")
         /\ Tail(Carried(s, "SEND")) = Carried(Tail(s), "SEND")
BY CommandsLoad, CarriedTail

LEMMA LoadOf ==
  ASSUME NEW c, NEW m
  PROVE  /\ Load(SubCommand(c), "SEND") = NoMid
         /\ Load(SendCommand(c, m), "SEND") = m
         /\ Load(AckCommand(c, m), "SEND") = NoMid
         /\ Load(NoCommand, "SEND") = NoMid
BY DEF Load, SubCommand, SendCommand, AckCommand, NoCommand

\* A reader that offers nothing holds no command.
Offers == \A c \in Conns : reader[c] # "routing" => cmd[c] = NoCommand

LEMMA OffersInit == ChatInit => Offers
BY DEF ChatInit, Init, Offers

LEMMA OffersNext ==
  ASSUME ChatInv, Offers, [ChatNext]_chatVars
  PROVE  Offers'
<1>1. /\ reader \in [Conns -> {"absent", "reading", "routing", "leaving", "done"}]
      /\ cmd \in [Conns -> Command \cup {NoCommand}]
  BY DEF ChatInv, ChatTypeOK, TypeOK
<1>2. [Next]_vars
  BY ChatStepIsHubStep
<1>3. CASE UNCHANGED <<reader, cmd>>
  BY <1>3 DEF Offers
<1>4. CASE Reset
  BY <1>4 DEF Offers, Reset
<1>5. ASSUME NEW c \in Conns, Handle(c)
      PROVE  Offers'
  <2>1. cmd' = [cmd EXCEPT ![c] = NoCommand] /\ reader' = [reader EXCEPT ![c] = "reading"]
    BY <1>5
    DEF Handle, RefuseNew, HandleNew, RefuseSub, HandleSub, RefuseSend, RefuseSave,
        HandleSend, HandleAck, HandleOther, Receive
  <2> QED BY <1>1, <2>1 DEF Offers
<1>6. ASSUME NEW c \in Conns, NEW k, ReadCommand(c, k)
      PROVE  Offers'
  BY <1>1, <1>6 DEF Offers, ReadCommand
<1>7. ASSUME NEW c \in Conns, StopReading(c)
      PROVE  Offers'
  BY <1>1, <1>7 DEF Offers, StopReading
<1>8. ASSUME NEW c \in Conns, Connect(c)
      PROVE  Offers'
  BY <1>1, <1>8 DEF Offers, Connect
<1>9. ASSUME NEW c \in Conns, Depart(c)
       PROVE  Offers'
  BY <1>1, <1>9 DEF Offers, Depart, Unregister, UnregisterLate, Leave
<1>10. ASSUME NEW c \in Conns, PumpStep(c)
       PROVE  Offers'
  BY <1>3, <1>6, <1>7, <1>10
  DEF PumpStep, AnswerInPlace, WriteFrame, SeeClosedChannel, FailToWrite, StopWriting
<1>11. CASE HubStep \/ Restart
  BY <1>3, <1>4, <1>11
  DEF HubStep, SendFrame, TouchSubscribed, SendOnClosed, SliceShortId, Panic, Restart, pumps
<1>12. CASE UNCHANGED vars
  BY <1>3, <1>12 DEF vars, pumps
<1> QED BY <1>2, <1>5, <1>8, <1>9, <1>10, <1>11, <1>12 DEF Next

\* What the hub accepts is what the reader held, and the history keeps it.
LEMMA HandlerLines ==
  ASSUME ChatInv, NEW c \in Conns, RelayHandles(c)
  PROVE  /\ typed' = typed /\ up' = up /\ out' = out /\ broken' = broken
         /\ cmd' = [cmd EXCEPT ![c] = NoCommand]
         /\ \/ arrived' = arrived /\ accepted' = accepted /\ ~ HandleSend(c)
            \/ /\ HandleSend(c) /\ Line(c) \in Lines(c)
               /\ accepted' = accepted \cup {Line(c)}
               /\ \/ arrived' = Append(arrived, Line(c))
                  \/ arrived' = arrived /\ accepted' = accepted
<1>1. /\ typed' = typed /\ up' = up /\ out' = out /\ broken' = broken
      /\ cmd' = [cmd EXCEPT ![c] = NoCommand]
  BY HandledCommands
  DEF RelayHandles, RefuseSub, HandleSub, RefuseSend, RefuseSave, HandleSend, HandleAck,
      Receive, network, session
<1>2. CASE HandleSend(c)
  <2>1. PICK m \in Lines(c) : m = cmd[c].mid /\ accepted' = accepted \cup {m}
    BY <1>2, SendEffects
  <2>2. Line(c) = cmd[c].mid
    BY <1>2 DEF HandleSend, Receive, Line, Load
  <2> QED BY <1>1, <1>2, <2>1, <2>2 DEF RelayHandles
<1>3. CASE ~ HandleSend(c)
  <2>1. accepted' = accepted
    BY <1>3, HandledCommands
    DEF RelayHandles, RefuseSub, HandleSub, RefuseSend, RefuseSave, HandleAck, history
  <2> QED BY <1>1, <1>3, <2>1 DEF RelayHandles
<1> QED BY <1>2, <1>3

LEMMA OnlyHandlersAccept ==
  ASSUME ChatInv, [ChatNext]_chatVars, \A c \in Conns : ~ RelayHandles(c)
  PROVE  arrived' = arrived /\ accepted' = accepted
BY DEF ChatNext, RelayRestarts, RelaySteps, Disconnected, HubStep, SendFrame, TouchSubscribed,
       SendOnClosed, SliceShortId, Panic, Restart, Reset, RelayEnd, Arrive, ReadCommand,
       StopListening, StopReading, Emit, WriteFrame, Close, SeeClosedChannel, FailToWrite,
       StopWriting, RelayDeparts, Depart, Unregister, UnregisterLate, Leave, Cut, StartUp,
       Dial, Connect, Ask, Answered, Refused, GiveUp, End, Chatting, Type, Quit, Transmit,
       FailToTransmit, Read, Acknowledge, Notice, vars, history, chatVars

\* The ways in which commands move on, get lost or stand still.
LEMMA LineSteps ==
  ASSUME ChatInv, Starts, Offers, [ChatNext]_chatVars, \A y \in Conns : ~ RelayHandles(y),
         NEW x \in Conns
  PROVE  \/ /\ Line(x)' = Line(x) /\ UpLines(x)' = UpLines(x) /\ OutLines(x)' = OutLines(x)
            /\ typed'[x] = typed[x]
         \/ /\ Line(x) = NoMid /\ UpLines(x) # <<>>
            /\ Line(x)' = Head(UpLines(x)) /\ UpLines(x)' = Tail(UpLines(x))
            /\ OutLines(x)' = OutLines(x) /\ typed'[x] = typed[x]
         \/ /\ Line(x)' = Line(x) /\ UpLines(x)' = Append(UpLines(x), NoMid)
            /\ OutLines(x)' = OutLines(x) /\ typed'[x] = typed[x]
         \/ /\ Line(x)' = Line(x) /\ UpLines(x)' = UpLines(x)
            /\ OutLines(x)' = Append(OutLines(x), NoMid) /\ typed'[x] = typed[x]
         \/ /\ Line(x)' = Line(x) /\ OutLines(x) # <<>>
            /\ UpLines(x)' = Append(UpLines(x), Head(OutLines(x)))
            /\ OutLines(x)' = Tail(OutLines(x)) /\ typed'[x] = typed[x]
         \/ /\ Line(x)' \in {Line(x), NoMid} /\ UpLines(x)' \in {UpLines(x), <<>>}
            /\ OutLines(x)' \in {OutLines(x), <<>>}
                 \/ (OutLines(x) # <<>> /\ OutLines(x)' = Tail(OutLines(x)))
            /\ typed'[x] = typed[x] /\ (x \in broken' \/ typed[x] = <<>>)
         \/ \E m \in Lines(x) :
              /\ Line(x)' = Line(x) /\ UpLines(x)' = UpLines(x)
              /\ OutLines(x)' = Append(OutLines(x), m) /\ m \notin AllTyped
              /\ typed'[x] = Append(typed[x], m)
<1>1. /\ cmd \in [Conns -> Command \cup {NoCommand}]
      /\ up \in [Conns -> Seq(Command)] /\ out \in [Conns -> Seq(Command)]
      /\ typed \in [Conns -> Seq(Mids)]
      /\ up[x] \in Seq(Command) /\ out[x] \in Seq(Command)
  BY DEF ChatInv, ChatTypeOK, TypeOK
<1>2. ASSUME cmd'[x] = cmd[x], up'[x] = up[x], out'[x] = out[x], typed'[x] = typed[x]
      PROVE  /\ Line(x)' = Line(x) /\ UpLines(x)' = UpLines(x) /\ OutLines(x)' = OutLines(x)
             /\ typed'[x] = typed[x]
  BY <1>2, LineFrame
<1>3. CASE RelayRestarts \/ RelaySteps
  <2>1. /\ typed' = typed /\ out' = out
    BY <1>3 DEF RelayRestarts, RelaySteps, Disconnected, session
  <2>2. CASE ~ Disconnected
    <3>1. up' = up
      BY <1>3, <2>2 DEF RelayRestarts, RelaySteps, network
    <3>2. cmd' = cmd
      <4>1. SendFrame \/ TouchSubscribed
        BY <1>3, <2>2
        DEF RelayRestarts, RelaySteps, HubStep, SendOnClosed, SliceShortId, Panic
      <4> QED BY <4>1 DEF SendFrame, TouchSubscribed, pumps
    <3> QED BY <1>2, <2>1, <3>1, <3>2
  <2>3. CASE Disconnected
    <3>1. up'[x] = <<>> /\ (x \in broken' \/ phase[x] = "absent")
      BY <2>3 DEF Disconnected, Dialed
    <3>2. typed[x] = <<>> \/ x \in broken'
      BY <3>1 DEF Starts, Begins
    <3>3. cmd'[x] \in {cmd[x], NoCommand}
      BY <1>3
      DEF RelayRestarts, Restart, RelaySteps, HubStep, SendFrame, TouchSubscribed,
          SendOnClosed, SliceShortId, Panic, Reset, pumps
    <3>4. UpLines(x)' = <<>> /\ OutLines(x)' = OutLines(x)
      BY <2>1, <3>1, CarriedNothing DEF UpLines, OutLines
    <3>5. Line(x)' \in {Line(x), NoMid}
      BY <3>3, LoadOf DEF Line
    <3> QED BY <2>1, <3>2, <3>4, <3>5
  <2> QED BY <2>2, <2>3
<1>4. ASSUME NEW c \in Conns, c # x, Cut(c) \/ RelayEnd(c)
      PROVE  cmd'[x] = cmd[x] /\ up'[x] = up[x] /\ out'[x] = out[x] /\ typed'[x] = typed[x]
  BY <1>1, <1>4
  DEF Cut, RelayEnd, Arrive, ReadCommand, StopListening, StopReading, Emit, WriteFrame, Close,
      SeeClosedChannel, FailToWrite, StopWriting, RelayDeparts, Depart, Unregister,
      UnregisterLate, Leave, vars, pumps, network, session
<1>5. ASSUME NEW c \in Conns, c # x, StartUp(c)
      PROVE  cmd'[x] = cmd[x] /\ up'[x] = up[x] /\ out'[x] = out[x] /\ typed'[x] = typed[x]
  BY <1>1, <1>5
  DEF StartUp, Dial, Connect, Ask, Answered, Refused, GiveUp, End, vars, pumps, network
<1>6. ASSUME NEW c \in Conns, c # x, Chatting(c)
      PROVE  cmd'[x] = cmd[x] /\ up'[x] = up[x] /\ out'[x] = out[x] /\ typed'[x] = typed[x]
  BY <1>1, <1>6
  DEF Chatting, Type, Quit, End, Transmit, FailToTransmit, Read, Acknowledge, Notice,
      vars, pumps, network
<1>7. CASE \/ Cut(x) \/ Emit(x) \/ Close(x) \/ RelayDeparts(x) \/ Dial(x) \/ Answered(x)
           \/ Read(x) \/ Notice(x) \/ UNCHANGED chatVars
  <2>1. cmd'[x] = cmd[x] /\ up'[x] = up[x] /\ out'[x] = out[x] /\ typed'[x] = typed[x]
    BY <1>7
    DEF Cut, Emit, WriteFrame, Close, SeeClosedChannel, FailToWrite, StopWriting,
        RelayDeparts, Depart, Unregister, UnregisterLate, Leave, Dial, Connect, Answered, Read,
        Notice, vars, pumps, network, session, chatVars
  <2> QED BY <1>2, <2>1
<1>8. CASE Arrive(x)
  <2>1. /\ reader[x] = "reading" /\ up[x] # <<>>
        /\ cmd' = [cmd EXCEPT ![x] = Head(up[x])] /\ up' = [up EXCEPT ![x] = Tail(@)]
        /\ out' = out /\ typed' = typed
    BY <1>8 DEF Arrive, ReadCommand, session
  <2>2. cmd'[x] = Head(up[x]) /\ up'[x] = Tail(up[x])
    BY <1>1, <2>1
  <2>3. cmd[x] = NoCommand
    BY <2>1 DEF Offers
  <2>4. Line(x) = NoMid
    BY <2>3, LoadOf DEF Line
  <2>5. /\ UpLines(x) # <<>> /\ Head(UpLines(x)) = Load(Head(up[x]), "SEND")
        /\ Tail(UpLines(x)) = Carried(Tail(up[x]), "SEND")
    BY <1>1, <2>1, LineTail DEF UpLines
  <2>6. Line(x)' = Head(UpLines(x)) /\ UpLines(x)' = Tail(UpLines(x))
    BY <2>2, <2>5 DEF Line, UpLines
  <2>7. OutLines(x)' = OutLines(x)
    BY <2>1 DEF OutLines
  <2> QED BY <2>1, <2>4, <2>5, <2>6, <2>7
<1>9. CASE StopListening(x)
  <2>1. /\ x \in broken' /\ cmd' = cmd /\ up'[x] = <<>> /\ out' = out /\ typed' = typed
    BY <1>1, <1>9 DEF StopListening, StopReading, session
  <2>2. UpLines(x)' = <<>> /\ OutLines(x)' = OutLines(x) /\ Line(x)' = Line(x)
    BY <2>1, CarriedNothing DEF UpLines, OutLines, Line
  <2> QED BY <2>1, <2>2
<1>10. CASE Ask(x)
  <2>1. /\ cmd' = cmd /\ up'[x] = Append(up[x], SubCommand(x)) /\ out' = out /\ typed' = typed
    BY <1>1, <1>10 DEF Ask, vars, pumps
  <2>2. SubCommand(x) \in Command
    BY ChatAssumption, HubAssumption
  <2>3. UpLines(x)' = Append(UpLines(x), NoMid)
    BY <1>1, <2>1, <2>2, LineAppend, LoadOf DEF UpLines
  <2>4. Line(x)' = Line(x) /\ OutLines(x)' = OutLines(x)
    BY <2>1 DEF Line, OutLines
  <2> QED BY <2>1, <2>3, <2>4
<1>11. CASE End(x)
  <2>1. x \in broken' /\ cmd' = cmd /\ up' = up /\ out'[x] = <<>> /\ typed' = typed
    BY <1>1, <1>11 DEF End, vars, pumps
  <2>2. OutLines(x)' = <<>> /\ UpLines(x)' = UpLines(x) /\ Line(x)' = Line(x)
    BY <2>1, CarriedNothing DEF UpLines, OutLines, Line
  <2> QED BY <2>1, <2>2
<1>12. ASSUME NEW m \in Mids, Type(x, m)
       PROVE  /\ m \in Lines(x)
              /\ Line(x)' = Line(x) /\ UpLines(x)' = UpLines(x)
              /\ OutLines(x)' = Append(OutLines(x), m) /\ m \notin AllTyped
              /\ typed'[x] = Append(typed[x], m)
  <2>1. /\ cmd' = cmd /\ up' = up /\ out'[x] = Append(out[x], SendCommand(x, m))
        /\ typed'[x] = Append(typed[x], m) /\ m \in Lines(x) /\ m \notin AllTyped
    BY <1>1, <1>12 DEF Type, vars, pumps, network, Lines
  <2>2. SendCommand(x, m) \in Command
    BY ChatAssumption, HubAssumption
  <2>3. OutLines(x)' = Append(OutLines(x), m)
    BY <1>1, <2>1, <2>2, LineAppend, LoadOf DEF OutLines
  <2>4. Line(x)' = Line(x) /\ UpLines(x)' = UpLines(x)
    BY <2>1 DEF Line, UpLines
  <2> QED BY <2>1, <2>3, <2>4
<1>13. CASE Transmit(x)
  <2>1. /\ out[x] # <<>> /\ cmd' = cmd /\ up'[x] = Append(up[x], Head(out[x]))
        /\ out'[x] = Tail(out[x]) /\ typed' = typed
    BY <1>1, <1>13 DEF Transmit, vars, pumps
  <2>2. /\ OutLines(x) # <<>> /\ Head(OutLines(x)) = Load(Head(out[x]), "SEND")
        /\ OutLines(x)' = Tail(OutLines(x))
    BY <1>1, <2>1, LineTail DEF OutLines
  <2>3. Head(out[x]) \in Command
    BY <1>1, <2>1, HeadTailProperties
  <2>4. UpLines(x)' = Append(UpLines(x), Head(OutLines(x)))
    BY <1>1, <2>1, <2>2, <2>3, LineAppend DEF UpLines
  <2>5. Line(x)' = Line(x)
    BY <2>1 DEF Line
  <2> QED BY <2>1, <2>2, <2>4, <2>5
<1>14. CASE FailToTransmit(x)
  <2>1. /\ x \in broken' /\ cmd' = cmd /\ up' = up /\ typed' = typed
        /\ out'[x] = out[x] \/ (out[x] # <<>> /\ out'[x] = Tail(out[x]))
    BY <1>1, <1>14 DEF FailToTransmit, vars, pumps, network
  <2>2. \/ OutLines(x)' = OutLines(x)
        \/ OutLines(x) # <<>> /\ OutLines(x)' = Tail(OutLines(x))
    BY <1>1, <2>1, LineTail DEF OutLines
  <2>3. Line(x)' = Line(x) /\ UpLines(x)' = UpLines(x)
    BY <2>1 DEF Line, UpLines
  <2> QED BY <2>1, <2>2, <2>3
<1>15. CASE Acknowledge(x)
  <2> DEFINE m == screen[x][Len(screen[x])]
  <2>1. /\ cmd' = cmd /\ up' = up /\ out'[x] = Append(out[x], AckCommand(x, m))
        /\ typed' = typed
    BY <1>1, <1>15 DEF Acknowledge, Receipt, vars, pumps, network
  <2>2. AckCommand(x, m) \in Command
    <3>1. screen[x] # <<>> /\ screen[x] \in Seq(Mids)
      BY <1>15 DEF Acknowledge, ChatInv, Kept, Screens, ChatTypeOK
    <3>2. Len(screen[x]) \in 1 .. Len(screen[x])
      BY <3>1, EmptySeq
    <3>3. m \in Mids
      BY <3>1, <3>2, ElementOfSeq
    <3> QED BY <3>3, ChatAssumption, HubAssumption
  <2> HIDE DEF m
  <2>3. OutLines(x)' = Append(OutLines(x), NoMid)
    BY <1>1, <2>1, <2>2, LineAppend, LoadOf DEF OutLines
  <2>4. Line(x)' = Line(x) /\ UpLines(x)' = UpLines(x)
    BY <2>1 DEF Line, UpLines
  <2> QED BY <2>1, <2>3, <2>4
<1>16. CASE RelayEnd(x) \/ StartUp(x) \/ Chatting(x)
  BY <1>7, <1>8, <1>9, <1>10, <1>11, <1>12, <1>13, <1>14, <1>15, <1>16
  DEF RelayEnd, StartUp, Refused, GiveUp, Chatting, Quit
<1>17. ASSUME NEW c \in Conns, Cut(c) \/ RelayEnd(c) \/ StartUp(c) \/ Chatting(c), c # x
       PROVE  /\ Line(x)' = Line(x) /\ UpLines(x)' = UpLines(x) /\ OutLines(x)' = OutLines(x)
              /\ typed'[x] = typed[x]
  BY <1>2, <1>4, <1>5, <1>6, <1>17
<1> QED BY <1>3, <1>7, <1>16, <1>17 DEF ChatNext

----------------------------------------------------------------------------
(* The invariant.                                                           *)

\* The history has what was accepted.
Recorded == accepted = Range(arrived)

\* No line is typed twice.
TypedOnce ==
  /\ \A c \in Conns : \A i, j \in DOMAIN typed[c] : typed[c][i] = typed[c][j] => i = j
  /\ \A c, d \in Conns : c # d => Range(typed[c]) \cap Range(typed[d]) = {}

\* What was accepted, or is on its way, was typed.
OnlyTyped ==
  /\ \A m \in accepted : \E c \in Conns : m \in Range(typed[c])
  /\ \A c \in Conns :
       {Line(c)} \cup Range(UpLines(c)) \cup Range(OutLines(c)) \subseteq Range(typed[c]) \cup {NoMid}

Ordered ==
  \A c \in Conns : InLine(arrived, Line(c), UpLines(c), OutLines(c), OrderOf(typed[c]))

LineInv == Recorded /\ TypedOnce /\ OnlyTyped /\ Ordered

LEMMA AllTypedIs ==
  ASSUME NEW m
  PROVE  m \in AllTyped <=> \E c \in Conns : m \in Range(typed[c])
BY InRange DEF AllTyped

LEMMA NoMidIsNeutral ==
  ASSUME ChatTypeOK, NEW x \in Conns
  PROVE  /\ NoMid \in MaybeMids /\ NoMid \notin Range(typed[x])
         /\ Neutral(NoMid, OrderOf(typed[x]))
<1>1. typed[x] \in Seq(Mids)
  BY DEF ChatTypeOK
<1>2. Range(typed[x]) \subseteq Mids
  BY <1>1, RangeOfSeq
<1>3. NoMid \in MaybeMids /\ NoMid \notin Range(typed[x])
  BY <1>2, HubAssumption DEF MaybeMids
<1> QED BY <1>3, OrderNeutral

LEMMA TypedSteps ==
  ASSUME ChatInv, [ChatNext]_chatVars
  PROVE  \/ typed' = typed
         \/ \E c \in Conns : \E m \in Lines(c) :
              /\ Type(c, m) /\ m \notin AllTyped
              /\ typed' = [typed EXCEPT ![c] = Append(@, m)]
<1>1. ASSUME NEW c \in Conns, NEW m \in Mids, Type(c, m)
      PROVE  /\ m \in Lines(c) /\ m \notin AllTyped
             /\ typed' = [typed EXCEPT ![c] = Append(@, m)]
  BY <1>1 DEF Type, Lines
<1>2. CASE \A c \in Conns, m \in Mids : ~ Type(c, m)
  BY <1>2
  DEF ChatNext, RelayRestarts, RelaySteps, Disconnected, RelayEnd, Arrive, StopListening,
      Emit, Close, RelayHandles, RelayDeparts, Cut, StartUp, Dial, Ask, Answered, Refused,
      GiveUp, End, Chatting, Quit, Transmit, FailToTransmit, Read, Acknowledge, Notice,
      session, chatVars
<1> QED BY <1>1, <1>2

\* A line that was typed stays typed.
LEMMA TypedGrows ==
  ASSUME ChatInv, [ChatNext]_chatVars, NEW x \in Conns
  PROVE  Range(typed[x]) \subseteq Range(typed'[x])
<1>1. typed \in [Conns -> Seq(Mids)] /\ typed[x] \in Seq(Mids)
  BY DEF ChatInv, ChatTypeOK
<1>2. \A m \in Mids : Range(Append(typed[x], m)) = Range(typed[x]) \cup {m}
  BY <1>1, AppendRange
<1>3. ASSUME NEW c \in Conns, NEW m \in Lines(c), typed' = [typed EXCEPT ![c] = Append(@, m)]
      PROVE  typed'[x] = typed[x] \/ typed'[x] = Append(typed[x], m)
  BY <1>1, <1>3
<1> QED BY <1>2, <1>3, TypedSteps DEF Lines

LEMMA TypedOnceNext ==
  ASSUME ChatInv, TypedOnce, [ChatNext]_chatVars
  PROVE  TypedOnce'
<1>1. CASE typed' = typed
  BY <1>1 DEF TypedOnce
<1>2. ASSUME NEW c \in Conns, NEW m \in Lines(c), m \notin AllTyped,
             typed' = [typed EXCEPT ![c] = Append(@, m)]
      PROVE  TypedOnce'
  <2> DEFINE t == typed[c]
             u == Append(t, m)
  <2>1. /\ typed \in [Conns -> Seq(Mids)] /\ t \in Seq(Mids) /\ m \in Mids
        /\ typed'[c] = u /\ \A d \in Conns \ {c} : typed'[d] = typed[d]
    BY <1>2 DEF ChatInv, ChatTypeOK, Lines
  <2> HIDE DEF t
  <2>2. /\ Len(t) \in Nat /\ DOMAIN t = 1 .. Len(t) /\ DOMAIN u = 1 .. Len(t) + 1
        /\ u[Len(t) + 1] = m /\ \A i \in 1 .. Len(t) : u[i] = t[i]
    BY <2>1, AppendProperties, LenProperties
  <2>3. Range(u) = Range(t) \cup {m}
    BY <2>1, SortedAppend
  <2> HIDE DEF u
  <2>4. \A d \in Conns : m \notin Range(typed[d])
    BY <1>2, AllTypedIs
  <2>5. \A i \in DOMAIN t : t[i] # m
    BY <2>4, InRange DEF t
  <2>6. \A i, j \in DOMAIN t : t[i] = t[j] => i = j
    BY DEF TypedOnce, t
  <2>7. ASSUME NEW i \in DOMAIN u, NEW j \in DOMAIN u, u[i] = u[j]
        PROVE  i = j
    <3>1. i \in DOMAIN t \/ i = Len(t) + 1
      BY <2>2
    <3>2. j \in DOMAIN t \/ j = Len(t) + 1
      BY <2>2
    <3> QED BY <2>2, <2>5, <2>6, <2>7, <3>1, <3>2
  <2>8. \A d \in Conns : \A i, j \in DOMAIN typed'[d] : typed'[d][i] = typed'[d][j] => i = j
    BY <2>1, <2>7 DEF TypedOnce
  <2>9. \A d, e \in Conns : d # e => Range(typed'[d]) \cap Range(typed'[e]) = {}
    BY <2>1, <2>3, <2>4 DEF TypedOnce, t
  <2> QED BY <2>8, <2>9 DEF TypedOnce
<1> QED BY <1>1, <1>2, TypedSteps

LEMMA RecordedNext ==
  ASSUME ChatInv, Recorded, [ChatNext]_chatVars
  PROVE  Recorded'
<1>1. CASE arrived' = arrived /\ accepted' = accepted
  BY <1>1 DEF Recorded
<1>2. ASSUME NEW c \in Conns, accepted' = accepted \cup {Line(c)}, arrived' = Append(arrived, Line(c))
      PROVE  Recorded'
  <2>1. Range(Append(arrived, Line(c))) = Range(arrived) \cup {Line(c)}
    <3>1. arrived \in Seq(MaybeMids) /\ Line(c) \in MaybeMids
      BY LineTypes DEF ChatInv
    <3> QED BY <3>1, AppendRange
  <2> QED BY <1>2, <2>1 DEF Recorded
<1> QED BY <1>1, <1>2, HandlerLines, OnlyHandlersAccept

LEMMA OnlyTypedNext ==
  ASSUME ChatInv, Starts, Offers, OnlyTyped, [ChatNext]_chatVars
  PROVE  OnlyTyped'
<1>1. /\ ChatTypeOK
      /\ \A x \in Conns : Range(typed[x]) \subseteq Range(typed'[x])
  BY TypedGrows DEF ChatInv
<1>2. ASSUME NEW x \in Conns
      PROVE  {Line(x)'} \cup Range(UpLines(x)') \cup Range(OutLines(x)')
               \subseteq Range(typed'[x]) \cup {NoMid}
  <2> DEFINE k == Line(x)
             U == UpLines(x)
             O == OutLines(x)
             t == typed[x]
  <2>1. /\ k \in MaybeMids /\ U \in Seq(MaybeMids) /\ O \in Seq(MaybeMids)
        /\ t \in Seq(Mids) /\ NoMid \in MaybeMids
    BY <1>1, LineTypes, NoMidIsNeutral DEF ChatTypeOK
  <2>2. /\ {k} \cup Range(U) \cup Range(O) \subseteq Range(t) \cup {NoMid}
        /\ Range(t) \subseteq Range(t')
    BY <1>1 DEF OnlyTyped
  <2>3. ASSUME NEW c \in Conns, RelayHandles(c)
        PROVE  k' \in {k, NoMid} /\ U' = U /\ O' = O
    <3>1. up' = up /\ out' = out /\ cmd'[x] \in {cmd[x], NoCommand}
      BY <1>1, <2>3, HandlerLines DEF ChatTypeOK, TypeOK
    <3> QED BY <3>1, LoadOf DEF Line, UpLines, OutLines
  <2>4. CASE \A y \in Conns : ~ RelayHandles(y)
    <3> HIDE DEF k, U, O, t
    <3>1. /\ \A z \in MaybeMids : /\ Range(Append(U, z)) = Range(U) \cup {z}
                                  /\ Range(Append(O, z)) = Range(O) \cup {z}
          /\ U # <<>> => /\ Head(U) \in MaybeMids
                         /\ Range(U) = {Head(U)} \cup Range(Tail(U))
          /\ O # <<>> => /\ Head(O) \in MaybeMids
                         /\ Range(O) = {Head(O)} \cup Range(Tail(O))
      BY <2>1, AppendRange, HeadRange
    <3>2. Range(<<>>) = {}
      BY NothingSorted
    <3>3. \A m \in Lines(x) :
            m \in Mids /\ m \in MaybeMids /\ Range(Append(t, m)) = Range(t) \cup {m}
      <4>1. \A m \in Mids : Range(Append(t, m)) = Range(t) \cup {m}
        BY <2>1, AppendRange
      <4> QED BY <4>1 DEF Lines, MaybeMids
    <3>4. \/ k' = k /\ U' = U /\ O' = O
          \/ U # <<>> /\ k' = Head(U) /\ U' = Tail(U) /\ O' = O
          \/ k' = k /\ U' = Append(U, NoMid) /\ O' = O
          \/ k' = k /\ U' = U /\ O' = Append(O, NoMid)
          \/ k' = k /\ O # <<>> /\ U' = Append(U, Head(O)) /\ O' = Tail(O)
          \/ /\ k' \in {k, NoMid} /\ U' \in {U, <<>>}
             /\ O' \in {O, <<>>} \/ (O # <<>> /\ O' = Tail(O))
          \/ \E m \in Lines(x) : k' = k /\ U' = U /\ O' = Append(O, m) /\ t' = Append(t, m)
      BY <2>4, LineSteps DEF k, U, O, t
    <3>5. {k'} \cup Range(U') \cup Range(O') \subseteq Range(t') \cup {NoMid}
      <4>1. CASE \E m \in Lines(x) :
                   k' = k /\ U' = U /\ O' = Append(O, m) /\ t' = Append(t, m)
        BY <2>2, <3>1, <3>3, <4>1
      <4>2. CASE k' = k /\ O # <<>> /\ U' = Append(U, Head(O)) /\ O' = Tail(O)
        BY <2>2, <3>1, <4>2
      <4>3. CASE \/ k' = k /\ U' = U /\ O' = O
                 \/ U # <<>> /\ k' = Head(U) /\ U' = Tail(U) /\ O' = O
                 \/ k' = k /\ U' = Append(U, NoMid) /\ O' = O
                 \/ k' = k /\ U' = U /\ O' = Append(O, NoMid)
        BY <2>1, <2>2, <3>1, <4>3
      <4>4. CASE /\ k' \in {k, NoMid} /\ U' \in {U, <<>>}
                 /\ O' \in {O, <<>>} \/ (O # <<>> /\ O' = Tail(O))
        BY <2>2, <3>1, <3>2, <4>4
      <4> QED BY <3>4, <4>1, <4>2, <4>3, <4>4
    <3> QED BY <3>5 DEF k, U, O, t
  <2> QED BY <2>2, <2>3, <2>4
<1>3. ASSUME NEW m \in accepted' PROVE \E c \in Conns : m \in Range(typed'[c])
  <2>1. CASE m \in accepted
    BY <1>1, <2>1 DEF OnlyTyped
  <2>2. CASE \E c \in Conns : m = Line(c) /\ Line(c) \in Lines(c)
    <3>1. PICK c \in Conns : m = Line(c) /\ m \in Mids
      BY <2>2 DEF Lines
    <3>2. m \in Range(typed[c])
      BY <3>1, HubAssumption DEF OnlyTyped
    <3> QED BY <1>1, <3>2
  <2> QED BY <2>1, <2>2, HandlerLines, OnlyHandlersAccept
<1> QED BY <1>2, <1>3 DEF OnlyTyped

LEMMA OrderedNext ==
  ASSUME ChatInv, Starts, Offers, LineInv, [ChatNext]_chatVars
  PROVE  Ordered'
<1> SUFFICES ASSUME NEW x \in Conns
             PROVE  InLine(arrived', Line(x)', UpLines(x)', OutLines(x)', OrderOf(typed'[x]))
  BY DEF Ordered
<1> DEFINE A == arrived
           k == Line(x)
           U == UpLines(x)
           O == OutLines(x)
           t == typed[x]
           R == OrderOf(t)
<1>1. /\ k \in MaybeMids /\ U \in Seq(MaybeMids) /\ O \in Seq(MaybeMids)
      /\ A \in Seq(MaybeMids) /\ t \in Seq(Mids)
      /\ NoMid \in MaybeMids /\ NoMid \notin Range(t) /\ Neutral(NoMid, R)
  BY LineTypes, NoMidIsNeutral DEF ChatTypeOK, ChatInv
<1>2. InLine(A, k, U, O, R)
  BY DEF LineInv, Ordered
<1>3. ASSUME NEW c \in Conns, RelayHandles(c)
      PROVE  InLine(A', k', U', O', OrderOf(t'))
  <2>1. /\ up' = up /\ out' = out /\ typed' = typed /\ cmd' = [cmd EXCEPT ![c] = NoCommand]
        /\ \/ arrived' = arrived
           \/ Line(c) \in Lines(c) /\ arrived' = Append(arrived, Line(c))
    BY <1>3, HandlerLines
  <2>2. U' = U /\ O' = O /\ t' = t
    BY <2>1 DEF UpLines, OutLines
  <2>3. cmd \in [Conns -> Command \cup {NoCommand}]
    BY DEF ChatInv, ChatTypeOK, TypeOK
  <2>4. CASE c = x
    <3>1. k' = NoMid
      BY <2>1, <2>3, <2>4, LoadOf DEF Line
    <3>2. A' = A \/ A' = Append(A, k)
      BY <2>1, <2>4
    <3>3. InLine(A, NoMid, U, O, R)
      <4> HIDE DEF A, k, U, O, R, t
      <4> QED BY <1>1, <1>2, InLineOther
    <3>4. InLine(Append(A, k), NoMid, U, O, R)
      <4> HIDE DEF A, k, U, O, R, t
      <4> QED BY <1>1, <1>2, InLineAccept
    <3> QED BY <2>2, <3>1, <3>2, <3>3, <3>4
  <2>5. CASE c # x
    <3>1. k' = k
      BY <2>1, <2>3, <2>5 DEF Line
    <3>2. CASE A' = A
      BY <1>2, <2>2, <3>1, <3>2
    <3>3. CASE Line(c) \in Lines(c) /\ A' = Append(A, Line(c))
      <4> DEFINE m == Line(c)
      <4>1. m \in MaybeMids /\ m # NoMid
        BY <3>3, HubAssumption DEF Lines, MaybeMids
      <4>2. m \in Range(typed[c])
        BY <4>1 DEF LineInv, OnlyTyped
      <4>3. m \notin Range(t)
        BY <2>5, <4>2 DEF LineInv, TypedOnce
      <4>4. Neutral(m, R)
        BY <4>1, <4>3, OrderNeutral
      <4>5. InLine(Append(A, m), k, U, O, R)
        <5> HIDE DEF A, k, U, O, R, t, m
        <5> QED BY <1>1, <1>2, <4>1, <4>4, InLineOther
      <4> QED BY <2>2, <3>1, <3>3, <4>5
    <3> QED BY <2>1, <3>2, <3>3
  <2> QED BY <2>4, <2>5
<1>4. CASE \A y \in Conns : ~ RelayHandles(y)
  <2>1. A' = A
    BY <1>4, OnlyHandlersAccept
  <2>2. \/ k' = k /\ U' = U /\ O' = O /\ t' = t
        \/ U # <<>> /\ k' = Head(U) /\ U' = Tail(U) /\ O' = O /\ t' = t
        \/ k' = k /\ U' = Append(U, NoMid) /\ O' = O /\ t' = t
        \/ k' = k /\ U' = U /\ O' = Append(O, NoMid) /\ t' = t
        \/ k' = k /\ O # <<>> /\ U' = Append(U, Head(O)) /\ O' = Tail(O) /\ t' = t
        \/ /\ k' \in {k, NoMid} /\ U' \in {U, <<>>}
           /\ O' \in {O, <<>>} \/ (O # <<>> /\ O' = Tail(O))
           /\ t' = t
        \/ \E m \in Lines(x) :
             k' = k /\ U' = U /\ O' = Append(O, m) /\ m \notin AllTyped /\ t' = Append(t, m)
    BY <1>4, LineSteps
  <2>3. ASSUME NEW m \in Lines(x), m \notin AllTyped
        PROVE  m \in Mids /\ m \notin Range(t)
               /\ m \notin Range(A) \cup {k} \cup Range(U) \cup Range(O)
    <3>1. m \in Mids /\ m # NoMid /\ \A c \in Conns : m \notin Range(typed[c])
      BY <2>3, AllTypedIs, HubAssumption DEF Lines
    <3>2. m \notin Range(A)
      BY <3>1 DEF LineInv, Recorded, OnlyTyped
    <3>3. m \notin {k} \cup Range(U) \cup Range(O)
      BY <3>1 DEF LineInv, OnlyTyped
    <3> QED BY <3>1, <3>2, <3>3
  <2> SUFFICES InLine(A', k', U', O', OrderOf(t'))
    OBVIOUS
  <2> HIDE DEF A, k, U, O, t
  <2>4. CASE k' = k /\ U' = U /\ O' = O /\ t' = t
    BY <1>2, <2>1, <2>4
  <2>5. CASE U # <<>> /\ k' = Head(U) /\ U' = Tail(U) /\ O' = O /\ t' = t
    BY <1>1, <1>2, <2>1, <2>5, InLineTake
  <2>6. CASE k' = k /\ U' = Append(U, NoMid) /\ O' = O /\ t' = t
    BY <1>1, <1>2, <2>1, <2>6, InLineOther
  <2>7. CASE k' = k /\ U' = U /\ O' = Append(O, NoMid) /\ t' = t
    BY <1>1, <1>2, <2>1, <2>7, InLineOther
  <2>8. CASE k' = k /\ O # <<>> /\ U' = Append(U, Head(O)) /\ O' = Tail(O) /\ t' = t
    BY <1>1, <1>2, <2>1, <2>8, InLineMove
  <2>9. CASE /\ k' \in {k, NoMid} /\ U' \in {U, <<>>}
             /\ O' \in {O, <<>>} \/ (O # <<>> /\ O' = Tail(O))
             /\ t' = t
    BY <1>1, <1>2, <2>1, <2>9, InLineLoss
  <2>10. CASE \E m \in Lines(x) :
                k' = k /\ U' = U /\ O' = Append(O, m) /\ m \notin AllTyped /\ t' = Append(t, m)
    BY <1>1, <1>2, <2>1, <2>3, <2>10, InLineType
  <2> QED BY <2>2, <2>4, <2>5, <2>6, <2>7, <2>8, <2>9, <2>10
<1> QED BY <1>3, <1>4

LEMMA LineInvInit == ChatInit => LineInv
<1> SUFFICES ASSUME ChatInit PROVE LineInv
  OBVIOUS
<1>1. \A c \in Conns : /\ cmd[c] = NoCommand /\ up[c] = <<>> /\ out[c] = <<>>
                       /\ typed[c] = <<>>
  BY DEF ChatInit, Init
<1>2. \A c \in Conns : Line(c) = NoMid /\ UpLines(c) = <<>> /\ OutLines(c) = <<>>
  BY <1>1, LoadOf, CarriedNothing DEF Line, UpLines, OutLines
<1>3. accepted = {} /\ arrived = <<>> /\ Range(<<>>) = {}
  BY NothingSorted DEF ChatInit, Init
<1>4. DOMAIN <<>> = {}
  OBVIOUS
<1>5. Recorded /\ OnlyTyped
  BY <1>2, <1>3 DEF Recorded, OnlyTyped
<1>6. TypedOnce
  BY <1>1, <1>3, <1>4 DEF TypedOnce
<1>7. Ordered
  BY <1>2, <1>3, NothingSorted DEF Ordered, InLine
<1> QED BY <1>5, <1>6, <1>7 DEF LineInv

LEMMA LineInvAlways == ChatSpec => [](Offers /\ LineInv)
<1>1. ChatInit => Offers /\ LineInv
  BY OffersInit, LineInvInit
<1>2. ChatInv /\ Starts /\ (Offers /\ LineInv) /\ [ChatNext]_chatVars => (Offers /\ LineInv)'
  BY OffersNext, RecordedNext, TypedOnceNext, OnlyTypedNext, OrderedNext DEF LineInv
<1> QED BY <1>1, <1>2, ChatInvAlways, StartsAlways, PTL DEF ChatSpec

----------------------------------------------------------------------------
(* Nothing is lost while the connection works.                              *)

\* Where a line of a run may be.
Places(c) == Range(arrived) \cup {Line(c)} \cup Range(UpLines(c)) \cup Range(OutLines(c))

Served(c) == c \notin broken /\ QueueExists(db, Outbox[User[c]])

LinesKept == \A c \in Conns : Served(c) => Range(typed[c]) \subseteq Places(c)

LEMMA BrokenGrows ==
  ASSUME [ChatNext]_chatVars
  PROVE  broken \subseteq broken'
BY DEF ChatNext, RelayRestarts, RelaySteps, Disconnected, RelayEnd, Arrive, StopListening,
       Emit, Close, RelayHandles, RelayDeparts, Cut, StartUp, Dial, Ask, Answered, Refused,
       GiveUp, End, Chatting, Type, Quit, Transmit, FailToTransmit, Read, Acknowledge, Notice,
       network, chatVars

\* Clients create no queues.
LEMMA QueuesStay ==
  ASSUME ChatInv, [ChatNext]_chatVars, NEW q \in Queues, QueueExists(db', q)
  PROVE  QueueExists(db, q)
<1>1. db \in Database
  BY DEF ChatInv, Typed, TypeOK
<1>2. ASSUME NEW d \in Database, NEW p \in Queues, NEW e \in Touched(d, p), QueueExists(e, q)
      PROVE  QueueExists(d, q)
  BY <1>2, TouchEffects DEF Touched
<1>3. ASSUME NEW c \in Conns, Handle(c)
      PROVE  QueueExists(db, q)
  <2>1. CASE HandleSend(c)
    <3>1. PICK m \in MidsFor(cmd[c]) : db' \in Touched(Saved(m, cmd[c].qid), cmd[c].qid)
      BY <2>1 DEF HandleSend
    <3>2. cmd[c].qid \in Queues /\ m \in Mids
      <4>1. cmd[c].mid \in Lines(c) /\ cmd[c].qid = Outbox[User[c]]
        BY <2>1, ReceivedIsOwn DEF HandleSend
      <4> QED BY <3>1, <4>1, ChatConstants, HubAssumption DEF MidsFor, Lines
    <3>3. Saved(m, cmd[c].qid) \in Database /\ Saved(m, cmd[c].qid).queues = db.queues
      BY <1>1, <3>2, SaveType, SaveEffects DEF Saved
    <3>4. QueueExists(Saved(m, cmd[c].qid), q)
      BY <1>2, <3>1, <3>2, <3>3
    <3> QED BY <3>3, <3>4 DEF QueueExists
  <2>2. CASE HandleAck(c)
    <3>1. db' = db \/ db' = DeleteMessage(db, cmd[c].mid)
      BY <2>2 DEF HandleAck
    <3> QED BY <1>1, <3>1, DeleteEffects DEF QueueExists
  <2>3. CASE RefuseSub(c) \/ HandleSub(c) \/ RefuseSend(c) \/ RefuseSave(c)
    BY <2>3 DEF RefuseSub, HandleSub, RefuseSend, RefuseSave
  <2> QED BY <1>3, <2>1, <2>2, <2>3, HandledCommands
<1>4. CASE TouchSubscribed
  <2>1. hub # <<>> /\ Head(hub) \in Statement /\ Head(hub).do = "touch"
        /\ db' \in Touched(db, Head(hub).qid)
    BY <1>4, HeadTailProperties DEF TouchSubscribed, Current, ChatInv, Typed, TypeOK
  <2>2. Head(hub).qid \in Queues
    BY <2>1 DEF Statement
  <2> QED BY <1>1, <1>2, <2>1, <2>2
<1>5. CASE ~ TouchSubscribed /\ \A c \in Conns : ~ Handle(c)
  <2>1. [Next]_vars
    BY ChatStepIsHubStep
  <2>2. db' = db
    BY <1>5, <2>1
    DEF Next, Restart, HubStep, SendFrame, SendOnClosed, SliceShortId, Panic, Reset, Connect,
        PumpStep, ReadCommand, AnswerInPlace, StopReading, WriteFrame, SeeClosedChannel,
        FailToWrite, StopWriting, Depart, Unregister, UnregisterLate, Leave, vars
  <2> QED BY <2>2
<1> QED BY <1>3, <1>4, <1>5

\* A line that the relay takes from its reader is accepted, now or before.
LEMMA TakenIsAccepted ==
  ASSUME ChatInv, Recorded, "exists" \notin Faulty, "save" \notin Faulty,
         NEW x \in Conns, RelayHandles(x), QueueExists(db, Outbox[User[x]]), Line(x) # NoMid
  PROVE  Line(x) \in Range(arrived')
<1>1. cmd[x].type = "SEND" /\ Line(x) = cmd[x].mid
  BY DEF Line, Load
<1>2. Handle(x)
  BY DEF RelayHandles
<1>3. RefuseSend(x) \/ RefuseSave(x) \/ HandleSend(x)
  BY <1>1, <1>2, HandledCommands DEF RefuseSub, HandleSub, HandleAck, Receive
<1>4. cmd[x].mid \in Lines(x) /\ cmd[x].qid = Outbox[User[x]] /\ Outbox[User[x]] \in Queues
  BY <1>3, ReceivedIsOwn, ChatConstants DEF RefuseSend, RefuseSave, HandleSend
<1>5. ~ RefuseSend(x)
  BY <1>4 DEF RefuseSend, NotFound, Known, Fails
<1>6. CASE HandleSend(x)
  <2>1. /\ accepted' = accepted \cup {Line(x)}
        /\ arrived' = Append(arrived, Line(x)) \/ (arrived' = arrived /\ accepted' = accepted)
    BY <1>6, HandlerLines
  <2>2. Range(Append(arrived, Line(x))) = Range(arrived) \cup {Line(x)}
    <3>1. arrived \in Seq(MaybeMids) /\ Line(x) \in MaybeMids
      BY LineTypes DEF ChatInv
    <3> QED BY <3>1, AppendRange
  <2> QED BY <2>1, <2>2 DEF Recorded
<1>7. CASE RefuseSave(x)
  <2>1. PICK m \in MidsFor(cmd[x]) : ~ CanSave(db, m, Outbox[User[x]], TRUE)
    BY <1>4, <1>7 DEF RefuseSave, Fails
  <2>2. m = cmd[x].mid
    BY <1>4, <2>1, HubAssumption DEF MidsFor, Lines
  <2>3. MidStored(db, m)
    BY <2>1 DEF CanSave
  <2>4. m \in Range(arrived)
    BY <2>3 DEF MidStored, ChatInv, Kept, Rows, Recorded
  <2>5. arrived' = arrived
    BY <1>7 DEF RelayHandles, RefuseSave, history
  <2> QED BY <1>1, <2>2, <2>4, <2>5
<1> QED BY <1>3, <1>5, <1>6, <1>7

LEMMA LinesKeptNext ==
  ASSUME ChatInv, Starts, Offers, LineInv, LinesKept, [ChatNext]_chatVars,
         "exists" \notin Faulty, "save" \notin Faulty
  PROVE  LinesKept'
<1> SUFFICES ASSUME NEW x \in Conns, Served(x)'
             PROVE  Range(typed'[x]) \subseteq Places(x)'
  BY DEF LinesKept
<1> DEFINE A == arrived
           k == Line(x)
           U == UpLines(x)
           O == OutLines(x)
           t == typed[x]
<1>1. Served(x) /\ x \notin broken'
  BY BrokenGrows, QueuesStay, ChatConstants DEF Served
<1>2. Range(t) \subseteq Range(A) \cup {k} \cup Range(U) \cup Range(O)
  BY <1>1 DEF LinesKept, Places
<1>3. /\ k \in MaybeMids /\ U \in Seq(MaybeMids) /\ O \in Seq(MaybeMids)
      /\ A \in Seq(MaybeMids) /\ t \in Seq(Mids) /\ NoMid \notin Range(t)
      /\ NoMid \in MaybeMids
  BY LineTypes, NoMidIsNeutral DEF ChatTypeOK, ChatInv
<1> SUFFICES Range(t') \subseteq Range(A') \cup {k'} \cup Range(U') \cup Range(O')
  BY DEF Places
<1>4. ASSUME NEW c \in Conns, RelayHandles(c)
      PROVE  Range(t') \subseteq Range(A') \cup {k'} \cup Range(U') \cup Range(O')
  <2>1. /\ up' = up /\ out' = out /\ typed' = typed /\ cmd' = [cmd EXCEPT ![c] = NoCommand]
        /\ arrived' = arrived \/ arrived' = Append(arrived, Line(c))
    BY <1>4, HandlerLines
  <2>2. U' = U /\ O' = O /\ t' = t
    BY <2>1 DEF UpLines, OutLines
  <2>3. Range(A) \subseteq Range(A')
    <3>1. Line(c) \in MaybeMids
      BY LineTypes DEF ChatInv
    <3>2. Range(Append(arrived, Line(c))) = Range(arrived) \cup {Line(c)}
      BY <1>3, <3>1, AppendRange
    <3>3. arrived' = arrived \/ arrived' = Append(arrived, Line(c))
      BY <2>1
    <3> QED BY <3>2, <3>3
  <2>4. cmd \in [Conns -> Command \cup {NoCommand}]
    BY DEF ChatInv, ChatTypeOK, TypeOK
  <2>5. CASE c = x
    <3>1. k # NoMid => k \in Range(A')
      BY <1>1, <1>4, <2>5, TakenIsAccepted DEF Served, LineInv
    <3> QED BY <1>2, <1>3, <2>2, <2>3, <3>1
  <2>6. CASE c # x
    <3>1. k' = k
      BY <2>1, <2>4, <2>6 DEF Line
    <3> QED BY <1>2, <2>2, <2>3, <3>1
  <2> QED BY <2>5, <2>6
<1>5. CASE \A y \in Conns : ~ RelayHandles(y)
  <2>1. A' = A
    BY <1>5, OnlyHandlersAccept
  <2>2. \/ k' = k /\ U' = U /\ O' = O /\ t' = t
        \/ k = NoMid /\ U # <<>> /\ k' = Head(U) /\ U' = Tail(U) /\ O' = O /\ t' = t
        \/ k' = k /\ U' = Append(U, NoMid) /\ O' = O /\ t' = t
        \/ k' = k /\ U' = U /\ O' = Append(O, NoMid) /\ t' = t
        \/ k' = k /\ O # <<>> /\ U' = Append(U, Head(O)) /\ O' = Tail(O) /\ t' = t
        \/ t' = t /\ t = <<>>
        \/ \E m \in Lines(x) :
             k' = k /\ U' = U /\ O' = Append(O, m) /\ t' = Append(t, m)
    BY <1>1, <1>5, LineSteps
  <2> HIDE DEF A, k, U, O, t
  <2>3. /\ \A z \in MaybeMids : /\ Range(Append(U, z)) = Range(U) \cup {z}
                                /\ Range(Append(O, z)) = Range(O) \cup {z}
        /\ U # <<>> => /\ Head(U) \in MaybeMids
                       /\ Range(U) = {Head(U)} \cup Range(Tail(U))
        /\ O # <<>> => /\ Head(O) \in MaybeMids
                       /\ Range(O) = {Head(O)} \cup Range(Tail(O))
    BY <1>3, AppendRange, HeadRange
  <2>4. \A m \in Lines(x) :
          m \in MaybeMids /\ Range(Append(t, m)) = Range(t) \cup {m}
    <3>1. \A m \in Mids : Range(Append(t, m)) = Range(t) \cup {m}
      BY <1>3, AppendRange
    <3> QED BY <3>1 DEF Lines, MaybeMids
  <2>5. CASE \/ k' = k /\ U' = U /\ O' = O /\ t' = t
             \/ k' = k /\ U' = Append(U, NoMid) /\ O' = O /\ t' = t
             \/ k' = k /\ U' = U /\ O' = Append(O, NoMid) /\ t' = t
    BY <1>2, <1>3, <2>1, <2>3, <2>5
  <2>6. CASE k = NoMid /\ U # <<>> /\ k' = Head(U) /\ U' = Tail(U) /\ O' = O /\ t' = t
    BY <1>2, <1>3, <2>1, <2>3, <2>6
  <2>7. CASE k' = k /\ O # <<>> /\ U' = Append(U, Head(O)) /\ O' = Tail(O) /\ t' = t
    BY <1>2, <2>1, <2>3, <2>7
  <2>8. CASE t' = t /\ t = <<>>
    BY <2>8, NothingSorted
  <2>9. CASE \E m \in Lines(x) :
               k' = k /\ U' = U /\ O' = Append(O, m) /\ t' = Append(t, m)
    BY <1>2, <2>1, <2>3, <2>4, <2>9
  <2> QED BY <2>2, <2>5, <2>6, <2>7, <2>8, <2>9
<1> QED BY <1>4, <1>5

----------------------------------------------------------------------------
(* The theorems.                                                            *)

LEMMA SubmittedIs ==
  ASSUME ChatTypeOK, NEW x \in Conns, NEW R
  PROVE  /\ Submitted(x) \in Seq(MaybeMids)
         /\ Range(Submitted(x)) = Places(x)
         /\ Sorted(Submitted(x), R)
              <=> InLine(arrived, Line(x), UpLines(x), OutLines(x), R)
         /\ \A k \in DOMAIN Submitted(x) : k > Len(arrived) =>
              Submitted(x)[k] \in {Line(x)} \cup Range(UpLines(x)) \cup Range(OutLines(x))
<1> DEFINE A == arrived
           W == <<Line(x)>> \o UpLines(x) \o OutLines(x)
           s == Submitted(x)
<1>1. A \in Seq(MaybeMids) /\ s = A \o W
  BY LineTypes DEF Submitted
<1>2. /\ W \in Seq(MaybeMids) /\ s \in Seq(MaybeMids) /\ Range(s) = Places(x)
      /\ Range(W) = {Line(x)} \cup Range(UpLines(x)) \cup Range(OutLines(x))
      /\ Sorted(s, R) <=> InLine(arrived, Line(x), UpLines(x), OutLines(x), R)
  <2> DEFINE k == Line(x)
             U == UpLines(x)
             O == OutLines(x)
  <2>1. k \in MaybeMids /\ U \in Seq(MaybeMids) /\ O \in Seq(MaybeMids)
    BY LineTypes
  <2> HIDE DEF A, k, U, O
  <2>2. /\ <<k>> \o U \o O \in Seq(MaybeMids)
        /\ Range(<<k>> \o U \o O) = {k} \cup Range(U) \cup Range(O)
        /\ A \o (<<k>> \o U \o O) \in Seq(MaybeMids)
        /\ Range(A \o (<<k>> \o U \o O)) = Range(A) \cup {k} \cup Range(U) \cup Range(O)
        /\ Sorted(A \o (<<k>> \o U \o O), R) <=> InLine(A, k, U, O, R)
    BY <1>1, <2>1, InLineIsSorted
  <2> QED BY <1>1, <2>2 DEF A, k, U, O, Places
<1> HIDE DEF A, W, s
<1>3. ASSUME NEW k \in DOMAIN s, k > Len(A)
      PROVE  s[k] \in Range(W)
  <2>1. /\ Len(A) \in Nat /\ Len(W) \in Nat /\ DOMAIN W = 1 .. Len(W)
        /\ k \in 1 .. Len(A) + Len(W)
    BY <1>1, <1>2, <1>3, LenProperties, ConcatProperties
  <2>2. s[k] = W[k - Len(A)]
    BY <1>1, <1>2, <1>3, <2>1, ConcatProperties
  <2>3. k - Len(A) \in DOMAIN W
    BY <1>3, <2>1
  <2> QED BY <2>2, <2>3, InRange
<1> QED BY <1>2, <1>3 DEF s, A

\* A line that found room in Session.send goes through the channel, the
\* stream and the relay's reader in the order of typing, and is accepted once
\* at most, wherever the runs of all clients are and whatever breaks; as long
\* as the connection works and the relay has the queue, none is missing.
\* Two statements of the database must not fail, the look-up of a queue and
\* the INSERT: the client does not send again what they make the hub refuse.
THEOREM LinesArriveInOrder ==
  ASSUME "exists" \notin Faulty, "save" \notin Faulty
  PROVE  ChatSpec => []LinesKeepOrder
<1>1. ChatInit => LinesKept
  <2> SUFFICES ASSUME ChatInit, NEW c \in Conns PROVE Range(typed[c]) = {}
    BY DEF LinesKept
  <2> QED BY NothingSorted DEF ChatInit
<1>2. ChatInv /\ Starts /\ (Offers /\ LineInv) /\ LinesKept /\ [ChatNext]_chatVars => LinesKept'
  BY LinesKeptNext
<1>3. ASSUME ChatInv, LineInv, LinesKept PROVE LinesKeepOrder
  <2> SUFFICES ASSUME NEW c \in Conns \ broken, QueueExists(db, Outbox[User[c]])
               PROVE  /\ \A i \in DOMAIN typed[c] :
                           \E k \in DOMAIN Submitted(c) : Submitted(c)[k] = typed[c][i]
                      /\ \A k, l \in DOMAIN Submitted(c), i, j \in DOMAIN typed[c] :
                           Submitted(c)[k] = typed[c][i] /\ Submitted(c)[l] = typed[c][j]
                             => (k < l <=> i < j)
                      /\ \A k \in DOMAIN Submitted(c) : k > Len(arrived) =>
                           Submitted(c)[k] = NoMid
                             \/ \E i \in DOMAIN typed[c] : Submitted(c)[k] = typed[c][i]
    BY DEF LinesKeepOrder
  <2> DEFINE s == Submitted(c)
             t == typed[c]
             R == OrderOf(t)
  <2>1. /\ s \in Seq(MaybeMids) /\ t \in Seq(Mids) /\ Range(s) = Places(c)
        /\ Sorted(s, R)
        /\ \A k \in DOMAIN s : k > Len(arrived) =>
             s[k] \in {Line(c)} \cup Range(UpLines(c)) \cup Range(OutLines(c))
    <3>1. ChatTypeOK /\ InLine(arrived, Line(c), UpLines(c), OutLines(c), R)
      BY <1>3 DEF ChatInv, LineInv, Ordered
    <3>2. Sorted(s, R) <=> InLine(arrived, Line(c), UpLines(c), OutLines(c), R)
      BY <3>1, SubmittedIs
    <3> QED BY <3>1, <3>2, SubmittedIs DEF ChatTypeOK
  <2>2. Range(t) \subseteq Range(s)
    BY <1>3, <2>1 DEF LinesKept, Served
  <2>3. \A i, j \in DOMAIN t : t[i] = t[j] => i = j
    BY <1>3 DEF LineInv, TypedOnce
  <2>4. {Line(c)} \cup Range(UpLines(c)) \cup Range(OutLines(c)) \subseteq Range(t) \cup {NoMid}
    BY <1>3 DEF LineInv, OnlyTyped
  <2> HIDE DEF s, t
  <2>5. \A i \in DOMAIN t : \E k \in DOMAIN s : s[k] = t[i]
    BY <2>2, InRange
  <2>6. ASSUME NEW k \in DOMAIN s, NEW l \in DOMAIN s, NEW i \in DOMAIN t, NEW j \in DOMAIN t,
               s[k] = t[i], s[l] = t[j]
        PROVE  k < l <=> i < j
    <3>1. k \in Nat /\ l \in Nat /\ i \in Nat /\ j \in Nat
      BY <2>1, LenProperties
    <3>2. s[k] \in MaybeMids /\ s[l] \in MaybeMids
      BY <2>1, LenProperties, ElementOfSeq
    <3>3. k < l => i < j
      BY <2>1, <2>6, <3>2, OrderPair DEF Sorted
    <3>4. l < k => j < i
      BY <2>1, <2>6, <3>2, OrderPair DEF Sorted
    <3>5. k = l => i = j
      BY <2>3, <2>6
    <3> QED BY <3>1, <3>3, <3>4, <3>5
  <2>7. \A k \in DOMAIN s : k > Len(arrived) =>
          s[k] = NoMid \/ \E i \in DOMAIN t : s[k] = t[i]
    BY <2>1, <2>4, InRange
  <2> QED BY <2>5, <2>6, <2>7 DEF s, t
<1> QED BY <1>1, <1>2, <1>3, ChatInvAlways, StartsAlways, LineInvAlways, PTL DEF ChatSpec

----------------------------------------------------------------------------
(* The other way: what a run shows, and then what is on its way to it.      *)

\* Pairs that do not contradict the order of acceptance.
Later ==
  {p \in MaybeMids \X MaybeMids : NoMid \in {p[1], p[2]} \/ Precedes(p[1], p[2])}

Stream(c) == screen[c] \o Carried(OnTheWay(c), "DELIVER")

\* The messages that a program sends to c.
Due(p, c) == Carried(Sent(p, c), "DELIVER")

LEMMA LaterPair ==
  ASSUME NEW x \in MaybeMids, NEW y \in MaybeMids
  PROVE  <<x, y>> \in Later <=> x = NoMid \/ y = NoMid \/ Precedes(x, y)
<1> SUFFICES (<<x, y>> \in MaybeMids \X MaybeMids)
               /\ (NoMid \in {x, y} <=> x = NoMid \/ y = NoMid)
  BY DEF Later
<1> QED OBVIOUS

LEMMA SlotsLoad == Loads(Slots)
<1> SUFFICES ASSUME NEW f \in Slots PROVE f.mid \in MaybeMids
  BY DEF Loads
<1> QED BY DEF Slots, Frame, NoFrame, MaybeMids

LEMMA StreamTypes ==
  ASSUME ChatTypeOK, NEW x \in Conns
  PROVE  /\ screen[x] \in Seq(MaybeMids) /\ Carried(OnTheWay(x), "DELIVER") \in Seq(MaybeMids)
         /\ Stream(x) \in Seq(MaybeMids)
<1>1. screen[x] \in Seq(MaybeMids)
  <2>1. screen[x] \in Seq(Mids) /\ Mids \subseteq MaybeMids
    BY DEF ChatTypeOK, MaybeMids
  <2> QED BY <2>1, SeqMonotonic
<1>2. Carried(OnTheWay(x), "DELIVER") \in Seq(MaybeMids)
  BY SlotsLoad, WayTypes, CarriedTypes
<1> QED BY <1>1, <1>2, ConcatProperties DEF Stream

\* What leaves a stream out of its middle.
LEMMA StreamLoses ==
  ASSUME NEW s \in Seq(MaybeMids), NEW a \in Seq(Slots), NEW b \in Seq(Slots),
         NEW d \in Seq(Slots), NEW R,
         Sorted(s \o Carried(a \o b \o d, "DELIVER"), R)
  PROVE  Sorted(s \o Carried(a \o d, "DELIVER"), R)
<1> DEFINE ca == Carried(a, "DELIVER")
           cb == Carried(b, "DELIVER")
           cd == Carried(d, "DELIVER")
<1>1. ca \in Seq(MaybeMids) /\ cb \in Seq(MaybeMids) /\ cd \in Seq(MaybeMids)
  BY SlotsLoad, CarriedTypes
<1>2. Carried(a \o b \o d, "DELIVER") = ca \o cb \o cd
  <2> DEFINE u == a \o b
  <2>1. u \in Seq(Slots)
    BY ConcatProperties
  <2>2. Carried(u, "DELIVER") = ca \o cb
    BY SlotsLoad, CarriedConcat
  <2> HIDE DEF u
  <2>3. Carried(u \o d, "DELIVER") = Carried(u, "DELIVER") \o cd
    BY <2>1, SlotsLoad, CarriedConcat
  <2> QED BY <2>2, <2>3 DEF u
<1>3. Carried(a \o d, "DELIVER") = ca \o cd
  BY SlotsLoad, CarriedConcat
<1> HIDE DEF ca, cb, cd
<1>4. ca \o cb \in Seq(MaybeMids) /\ s \o ca \in Seq(MaybeMids)
  BY <1>1, ConcatProperties
<1>5. (s \o (ca \o cb)) \o cd = s \o ((ca \o cb) \o cd)
  <2> DEFINE u == ca \o cb
  <2> SUFFICES (s \o u) \o cd = s \o (u \o cd)
    OBVIOUS
  <2>1. u \in Seq(MaybeMids)
    BY <1>4
  <2> HIDE DEF u
  <2> QED BY <1>1, <2>1, ConcatAssociative
<1>6. (s \o ca) \o cb = s \o (ca \o cb)
  BY <1>1, ConcatAssociative
<1>7. Sorted((s \o ca) \o cd, R)
  <2>1. Sorted(((s \o ca) \o cb) \o cd, R)
    BY <1>2, <1>5, <1>6
  <2> QED BY <1>1, <1>4, <2>1, SortedWithout
<1>8. (s \o ca) \o cd = s \o (ca \o cd)
  BY <1>1, ConcatAssociative
<1> QED BY <1>3, <1>7, <1>8

LEMMA StreamLosesFirst ==
  ASSUME NEW s \in Seq(MaybeMids), NEW b \in Seq(Slots), NEW d \in Seq(Slots), NEW R,
         Sorted(s \o Carried(b \o d, "DELIVER"), R)
  PROVE  Sorted(s \o Carried(d, "DELIVER"), R)
<1> DEFINE a == <<>>
<1>1. a \in Seq(Slots) /\ a \o b = b /\ a \o d = d
  BY EmptySeq, ConcatEmptySeq
<1> HIDE DEF a
<1>2. Sorted(s \o Carried(a \o b \o d, "DELIVER"), R)
  BY <1>1
<1>3. Sorted(s \o Carried(a \o d, "DELIVER"), R)
  BY <1>1, <1>2, StreamLoses
<1> QED BY <1>1, <1>3

LEMMA StreamLosesLast ==
  ASSUME NEW s \in Seq(MaybeMids), NEW a \in Seq(Slots), NEW b \in Seq(Slots), NEW R,
         Sorted(s \o Carried(a \o b, "DELIVER"), R)
  PROVE  Sorted(s \o Carried(a, "DELIVER"), R)
<1> DEFINE d == <<>>
           u == a \o b
<1>1. d \in Seq(Slots) /\ u \in Seq(Slots)
  BY EmptySeq, ConcatProperties
<1>2. u \o d = u /\ a \o d = a
  BY <1>1, ConcatEmptySeq
<1> HIDE DEF d
<1>3. Sorted(s \o Carried(a \o b \o d, "DELIVER"), R)
  BY <1>2
<1>4. Sorted(s \o Carried(a \o d, "DELIVER"), R)
  BY <1>1, <1>3, StreamLoses
<1> QED BY <1>2, <1>4

\* The first message on the way is shown.
LEMMA StreamShows ==
  ASSUME NEW s \in Seq(MaybeMids), NEW w \in Seq(Slots), w # <<>>, Head(w).type = "DELIVER"
  PROVE  Append(s, Head(w).mid) \o Carried(Tail(w), "DELIVER") = s \o Carried(w, "DELIVER")
<1> DEFINE v == Carried(w, "DELIVER")
<1>1. v \in Seq(MaybeMids) /\ v # <<>> /\ Head(v) = Head(w).mid
      /\ Tail(v) = Carried(Tail(w), "DELIVER")
  BY SlotsLoad, CarriedTypes, CarriedTail DEF Load
<1> HIDE DEF v
<1>2. Append(s, Head(v)) \o Tail(v) = s \o v
  BY <1>1, Moved
<1> QED BY <1>1, <1>2 DEF v

\* The types of the way after a step.
LEMMA NextWayTypes ==
  ASSUME ChatTypeOK', NEW x \in Conns
  PROVE  /\ ToBeSent(x)' = Sent(hub', x)
         /\ ToBeSent(x)' \in Seq(Slots) /\ OnTheWay(x)' \in Seq(Slots)
<1> DEFINE d == down'[x]
           r == send'[x]
           t == Sent(hub', x)
<1>1. hub' \in Seq(Statement) /\ d \in Seq(Frame) /\ r \in Seq(Frame)
  BY DEF ChatTypeOK, TypeOK
<1>2. d \in Seq(Slots) /\ r \in Seq(Slots) /\ t \in Seq(Slots)
  <2>1. Frame \subseteq Slots
    BY DEF Slots
  <2> QED BY <1>1, <2>1, SeqMonotonic, SentTypes
<1>3. ToBeSent(x)' = t
  BY DEF ToBeSent, Sent
<1>4. OnTheWay(x)' = d \o r \o t
  BY <1>3 DEF OnTheWay
<1> HIDE DEF d, r, t
<1> QED BY <1>2, <1>3, <1>4, ConcatProperties DEF t

\* Whatever happens outside the hub's handlers, a stream only loses something.
LEMMA StreamKeepsOrder ==
  ASSUME ChatInv, ChatTypeOK', [ChatNext]_chatVars, \A y \in Conns : ~ RelayHandles(y),
         NEW x \in Conns, Sorted(Stream(x), Later)
  PROVE  Sorted(screen'[x] \o Carried(OnTheWay(x)', "DELIVER"), Later)
<1> DEFINE s == screen[x]
           t == screen'[x]
           w == OnTheWay(x)
           v == OnTheWay(x)'
           e == down[x]
           n == send[x]
           p == ToBeSent(x)
           r == ToBeSent(x)'
<1>1. /\ s \in Seq(MaybeMids) /\ w \in Seq(Slots) /\ e \in Seq(Slots) /\ n \in Seq(Slots)
      /\ p \in Seq(Slots) /\ n \o p \in Seq(Slots) /\ e \o n \in Seq(Slots)
  BY StreamTypes, WayTypes, ConcatProperties DEF ChatInv
<1>2. v \in Seq(Slots) /\ r \in Seq(Slots)
  BY NextWayTypes
<1>3. Sorted(s \o Carried(w, "DELIVER"), Later)
  BY DEF Stream
<1>4. CASE v = w /\ t = s
  BY <1>3, <1>4
<1>5. CASE (Read(x) \/ Answered(x)) /\ w # <<>> /\ Head(w) = Head(e) /\ v = Tail(w)
  <2>1. Sorted(s \o Carried(Tail(w), "DELIVER"), Later)
    <3>1. w = <<Head(w)>> \o Tail(w) /\ <<Head(w)>> \in Seq(Slots) /\ Tail(w) \in Seq(Slots)
      BY <1>1, <1>5, HeadThenTail
    <3> QED BY <1>1, <1>3, <3>1, StreamLosesFirst
  <2>2. t = s \/ (Head(w).type = "DELIVER" /\ t = Append(s, Head(w).mid))
    BY <1>5 DEF Read, Answered, ChatInv, ChatTypeOK
  <2>3. CASE t = s
    BY <1>5, <2>1, <2>3
  <2>4. CASE Head(w).type = "DELIVER" /\ t = Append(s, Head(w).mid)
    <3>1. t \o Carried(v, "DELIVER") = s \o Carried(w, "DELIVER")
      BY <1>1, <1>5, <2>4, StreamShows
    <3> QED BY <1>3, <3>1
  <2> QED BY <2>2, <2>3, <2>4
<1>6. CASE w = e \o v /\ t = s
  BY <1>1, <1>2, <1>3, <1>6, StreamLosesFirst
<1>7. CASE w = e \o (n \o p) /\ v = e /\ t = s
  BY <1>1, <1>3, <1>7, StreamLosesLast
<1>8. CASE /\ \E f \in Slots : w = e \o n \o <<f>> \o r /\ v = e \o n \o r
           /\ t = s
  <2>1. PICK f \in Slots : w = e \o n \o <<f>> \o r /\ v = e \o n \o r
    BY <1>8
  <2> DEFINE b == <<f>>
             a == e \o n
  <2>2. b \in Seq(Slots)
    OBVIOUS
  <2> HIDE DEF a, b
  <2>3. Sorted(s \o Carried(a \o b \o r, "DELIVER"), Later)
    BY <1>3, <2>1 DEF a, b
  <2>4. Sorted(s \o Carried(a \o r, "DELIVER"), Later)
    <3>1. a \in Seq(Slots)
      BY <1>1 DEF a
    <3> QED BY <1>1, <1>2, <2>2, <2>3, <3>1, StreamLoses
  <2> QED BY <1>8, <2>1, <2>4 DEF a
<1> HIDE DEF s, t, w, v, e, n, p, r
<1> QED BY <1>4, <1>5, <1>6, <1>7, <1>8, WaySteps DEF s, t, w, v, e, n, p, r

\* The order of acceptance does not change.
LEMMA PrecedesGrows ==
  ASSUME ChatInv, NEW z \in Mids, arrived' = arrived \/ arrived' = Append(arrived, z),
         NEW x, NEW y, Precedes(x, y)
  PROVE  Precedes(x, y)'
<1> DEFINE n == Len(arrived)
<1>1. arrived \in Seq(Mids) /\ n \in Nat /\ DOMAIN arrived = 1 .. n
  BY LenProperties DEF ChatInv, ChatTypeOK
<1>2. PICK i, j \in DOMAIN arrived : i < j /\ arrived[i] = x /\ arrived[j] = y
  BY DEF Precedes
<1>3. i \in DOMAIN arrived' /\ j \in DOMAIN arrived' /\ arrived'[i] = arrived[i] /\ arrived'[j] = arrived[j]
  <2>1. CASE arrived' = Append(arrived, z)
    BY <1>1, <1>2, <2>1, AppendProperties
  <2>2. CASE arrived' = arrived
    BY <1>2, <2>2
  <2> QED BY <2>1, <2>2
<1> QED BY <1>2, <1>3 DEF Precedes

LEMMA LaterGrows ==
  ASSUME ChatInv, [ChatNext]_chatVars, NEW x \in MaybeMids, NEW y \in MaybeMids,
         <<x, y>> \in Later
  PROVE  <<x, y>> \in Later'
<1>1. x = NoMid \/ y = NoMid \/ Precedes(x, y)
  BY LaterPair
<1>2. CASE arrived' = arrived
  BY <1>2 DEF Later, Precedes
<1>3. ASSUME NEW c \in Conns, HandleSend(c), Line(c) \in Lines(c),
             arrived' = Append(arrived, Line(c))
      PROVE  <<x, y>> \in Later'
  <2>1. Precedes(x, y) => Precedes(x, y)'
    BY <1>3, PrecedesGrows DEF Lines
  <2> QED BY <1>1, <2>1 DEF Later
<1> QED BY <1>2, <1>3, HandlerLines, OnlyHandlersAccept

\* A line is accepted once only, and then it is the last one.
LEMMA NewIsLast ==
  ASSUME ChatInv, LineInv, NEW c \in Conns, RelayHandles(c), HandleSend(c)
  PROVE  \E m \in Mids : /\ m = Line(c) /\ arrived' = Append(arrived, m)
                        /\ \A z \in accepted : Precedes(z, m)'
<1> DEFINE n == Len(arrived)
           t == typed[c]
<1> PICK m \in {Line(c)} : m = Line(c)
  OBVIOUS
<1>1. /\ arrived \in Seq(Mids) /\ n \in Nat /\ DOMAIN arrived = 1 .. n
      /\ m \in Lines(c) /\ m \in Mids /\ accepted' = accepted \cup {m}
      /\ arrived' = Append(arrived, m) \/ (arrived' = arrived /\ accepted' = accepted)
  BY LenProperties, HandlerLines DEF ChatInv, ChatTypeOK, Lines
<1>2. m \notin accepted
  <2>1. m \in Range(t) /\ t \in Seq(Mids)
    <3>1. m # NoMid
      BY <1>1, HubAssumption
    <3> QED BY <3>1 DEF LineInv, OnlyTyped, ChatInv, ChatTypeOK
  <2>2. PICK i \in DOMAIN t : t[i] = m
    BY <2>1, InRange
  <2>3. i \in Nat
    BY <2>1, LenProperties
  <2>4. <<m, m>> \notin OrderOf(t)
    <3>1. m \in MaybeMids
      BY <1>1 DEF MaybeMids
    <3> HIDE DEF t
    <3> QED BY <2>2, <2>3, <3>1, OrderPair
  <2>5. m \notin Range(arrived)
    BY <2>4 DEF LineInv, Ordered, InLine
  <2> QED BY <2>5 DEF LineInv, Recorded
<1>3. arrived' = Append(arrived, m)
  BY <1>1, <1>2
<1>4. /\ Len(arrived') = n + 1 /\ DOMAIN arrived' = 1 .. n + 1 /\ arrived'[n + 1] = m
      /\ \A i \in 1 .. n : arrived'[i] = arrived[i]
  <2>1. /\ Append(arrived, m) \in Seq(Mids) /\ Len(Append(arrived, m)) = n + 1
        /\ \A i \in 1 .. n + 1 : Append(arrived, m)[i] = IF i <= n THEN arrived[i] ELSE m
    BY <1>1, AppendProperties
  <2>2. n + 1 \in 1 .. n + 1 /\ ~ (n + 1 <= n) /\ \A i \in 1 .. n : i \in 1 .. n + 1 /\ i <= n
    BY <1>1
  <2> QED BY <1>1, <1>3, <2>1, <2>2, LenProperties
<1>5. ASSUME NEW z \in accepted PROVE Precedes(z, m)'
  <2>1. PICK i \in DOMAIN arrived : arrived[i] = z
    BY InRange DEF LineInv, Recorded
  <2>2. i \in DOMAIN arrived' /\ n + 1 \in DOMAIN arrived' /\ i < n + 1
        /\ arrived'[i] = z /\ arrived'[n + 1] = m
    BY <1>1, <1>4, <2>1
  <2> QED BY <2>2 DEF Precedes
<1> QED BY <1>1, <1>3, <1>5

\* A command that was handled was handled by the step of its connection.
LEMMA HandledIsRelayed ==
  ASSUME ChatInv, [ChatNext]_chatVars, NEW c \in Conns, HandleSend(c) \/ HandleAck(c)
  PROVE  RelayHandles(c)
<1>1. /\ reader \in [Conns -> {"absent", "reading", "routing", "leaving", "done"}]
      /\ reader[c] = "routing" /\ reader'[c] = "reading"
  BY DEF HandleSend, HandleAck, Receive, ChatInv, ChatTypeOK, TypeOK
<1>2. ASSUME NEW y \in Conns, RelayHandles(y) PROVE y = c
  <2>1. reader' = [reader EXCEPT ![y] = "reading"]
    BY <1>2, HandledCommands
    DEF RelayHandles, RefuseSub, HandleSub, RefuseSend, RefuseSave, HandleSend, HandleAck,
        Receive
  <2> QED BY <1>1, <2>1
<1>3. CASE \A y \in Conns : ~ RelayHandles(y)
  <2>1. CASE RelayRestarts \/ RelaySteps
    BY <1>1, <2>1
    DEF RelayRestarts, RelaySteps, HubStep, SendFrame, TouchSubscribed, SendOnClosed,
        SliceShortId, Panic, Restart, Reset, pumps
  <2>2. ASSUME NEW y \in Conns, Arrive(y) \/ StopListening(y) \/ Emit(y) \/ Close(y)
        PROVE  reader'[c] = reader[c] \/ reader'[c] # "reading"
    BY <1>1, <2>2
    DEF Arrive, ReadCommand, StopListening, StopReading, Emit, WriteFrame, Close,
        SeeClosedChannel, FailToWrite, StopWriting
  <2>3. ASSUME NEW y \in Conns, RelayDeparts(y) \/ Cut(y)
        PROVE  reader'[c] = reader[c] \/ reader'[c] # "reading"
    BY <1>1, <2>3
    DEF RelayDeparts, Depart, Unregister, UnregisterLate, Leave, Cut, vars, pumps
  <2>4. ASSUME NEW y \in Conns, StartUp(y)
        PROVE  reader'[c] = reader[c] \/ reader[c] = "absent"
    BY <1>1, <2>4
    DEF StartUp, Dial, Connect, Ask, Answered, Refused, GiveUp, End, vars, pumps
  <2>5. ASSUME NEW y \in Conns, Chatting(y) PROVE reader' = reader
    BY <2>5
    DEF Chatting, Type, Quit, End, Transmit, FailToTransmit, Read, Acknowledge, Notice,
        vars, pumps
  <2>6. CASE UNCHANGED chatVars
    BY <1>1, <2>6 DEF chatVars, vars, pumps
  <2> QED BY <1>1, <1>3, <2>1, <2>2, <2>3, <2>4, <2>5, <2>6 DEF ChatNext, RelayEnd
<1> QED BY <1>2, <1>3

\* The rows of the database are numbered in the order of acceptance.
ArrivalOrder ==
  \A r \in db.messages :
    /\ r.at < db.arrivals
    /\ \A s \in db.messages : r.at < s.at => Precedes(r.mid, s.mid)

LEMMA ArrivalOrderNext ==
  ASSUME ChatInv, LineInv, ArrivalOrder, [ChatNext]_chatVars
  PROVE  ArrivalOrder'
<1>1. \A r \in db.messages : r.mid \in accepted /\ r.mid \in Mids /\ r.at \in Nat
  BY DEF ChatInv, Kept, Rows, ChatTypeOK, TypeOK, Database, Row
<1>2. db.arrivals \in Nat
  BY DEF ChatInv, ChatTypeOK, TypeOK, Database
<1>3. \A r, s \in db.messages : Precedes(r.mid, s.mid) => Precedes(r.mid, s.mid)'
  <2> SUFFICES ASSUME NEW r \in db.messages, NEW s \in db.messages, Precedes(r.mid, s.mid)
               PROVE  Precedes(r.mid, s.mid)'
    OBVIOUS
  <2>1. PICK m \in Mids, n \in Mids : m = r.mid /\ n = s.mid
    BY <1>1
  <2>2. <<m, n>> \in Later /\ m # NoMid /\ n # NoMid /\ m \in MaybeMids /\ n \in MaybeMids
    BY <2>1, LaterPair, HubAssumption DEF MaybeMids
  <2>3. <<m, n>> \in Later'
    BY <2>2, LaterGrows
  <2>4. Precedes(m, n)'
    BY <2>2, <2>3 DEF Later
  <2> QED BY <2>1, <2>4
<1>4. ASSUME NEW c \in Conns, HandleSend(c)
      PROVE  ArrivalOrder'
  <2>1. PICK m \in Mids : /\ m = Line(c)
                          /\ \A z \in accepted : Precedes(z, m)'
    BY <1>4, HandledIsRelayed, NewIsLast
  <2>2. m = cmd[c].mid
    BY <1>4, <2>1 DEF HandleSend, Receive, Line, Load
  <2>3. PICK q : /\ db'.messages = db.messages \cup {[mid |-> m, qid |-> q, at |-> db.arrivals]}
                 /\ db'.arrivals = db.arrivals + 1
    BY <1>4, <2>2, SendEffects
  <2> QED BY <1>1, <1>2, <1>3, <2>1, <2>3 DEF ArrivalOrder
<1>5. CASE db'.messages \subseteq db.messages /\ db'.arrivals = db.arrivals
  BY <1>3, <1>5 DEF ArrivalOrder
<1>6. ASSUME NEW c \in Conns, HandleAck(c)
      PROVE  db'.messages \subseteq db.messages /\ db'.arrivals = db.arrivals
  BY <1>6, AckEffects
<1> QED BY <1>4, <1>5, <1>6, OtherStepsKeepMessages, ChatStepIsHubStep

----------------------------------------------------------------------------
(* What a handler adds to a stream.                                         *)

LEMMA DueTypes ==
  ASSUME NEW p \in Seq(Statement), NEW c
  PROVE  /\ Sent(p, c) \in Seq(Slots) /\ Due(p, c) \in Seq(MaybeMids)
         /\ Len(Due(p, c)) = Len(p) /\ DOMAIN Due(p, c) = DOMAIN p
         /\ \A i \in DOMAIN p :
              Due(p, c)[i] = IF p[i].do = "send" /\ p[i].to = c /\ p[i].frame.type = "DELIVER"
                             THEN p[i].frame.mid ELSE NoMid
<1> DEFINE s == Sent(p, c)
<1>1. s \in Seq(Slots) /\ Len(s) = Len(p) /\ DOMAIN s = 1 .. Len(p)
  BY SentTypes
<1>2. DOMAIN p = 1 .. Len(p)
  BY LenProperties
<1>3. \A i \in DOMAIN p :
        s[i] = IF p[i].do = "send" /\ p[i].to = c THEN p[i].frame ELSE NoFrame
  BY DEF Sent
<1> HIDE DEF s
<1>4. /\ Carried(s, "DELIVER") \in Seq(MaybeMids) /\ Len(Carried(s, "DELIVER")) = Len(s)
      /\ DOMAIN Carried(s, "DELIVER") = 1 .. Len(s)
  BY <1>1, SlotsLoad, CarriedTypes
<1>5. \A i \in DOMAIN s :
        Carried(s, "DELIVER")[i] = IF s[i].type = "DELIVER" THEN s[i].mid ELSE NoMid
  BY DEF Carried
<1>6. NoFrame.type # "DELIVER"
  BY DEF NoFrame
<1>7. ASSUME NEW i \in DOMAIN p
      PROVE  Carried(s, "DELIVER")[i]
               = IF p[i].do = "send" /\ p[i].to = c /\ p[i].frame.type = "DELIVER"
                 THEN p[i].frame.mid ELSE NoMid
  BY <1>1, <1>2, <1>3, <1>5, <1>6
<1> QED BY <1>1, <1>2, <1>4, <1>7 DEF Due, s

LEMMA DueConcat ==
  ASSUME NEW p \in Seq(Statement), NEW r \in Seq(Statement), NEW c
  PROVE  Due(p \o r, c) = Due(p, c) \o Due(r, c)
<1> DEFINE a == Sent(p, c)
           b == Sent(r, c)
<1>1. a \in Seq(Slots) /\ b \in Seq(Slots) /\ Sent(p \o r, c) = a \o b
  BY DueTypes, SentConcat
<1> HIDE DEF a, b
<1>2. Carried(a \o b, "DELIVER") = Carried(a, "DELIVER") \o Carried(b, "DELIVER")
  BY <1>1, SlotsLoad, CarriedConcat
<1> QED BY <1>1, <1>2 DEF Due, a, b

\* What has no message for c.
LEMMA DueNothing ==
  ASSUME NEW p \in Seq(Statement), NEW c,
         \A i \in DOMAIN p :
           ~ (p[i].do = "send" /\ p[i].to = c /\ p[i].frame.type = "DELIVER")
  PROVE  Range(Due(p, c)) \subseteq {NoMid}
BY DueTypes, InRange

LEMMA DueQuiet ==
  ASSUME NEW p \in Seq(Quiet), NEW c
  PROVE  p \in Seq(Statement) /\ Range(Due(p, c)) \subseteq {NoMid}
<1>1. p \in Seq(Statement)
  <2>1. Quiet \subseteq Statement
    BY DEF Quiet
  <2> QED BY <2>1, SeqMonotonic
<1>2. \A i \in DOMAIN p : p[i] \in Quiet
  BY ElementOfSeq, LenProperties
<1>3. \A i \in DOMAIN p :
        ~ (p[i].do = "send" /\ p[i].to = c /\ p[i].frame.type = "DELIVER")
  BY <1>2 DEF Quiet
<1> QED BY <1>1, <1>3, DueNothing

\* NoMid may stand anywhere.
LEMMA NeutralAround ==
  ASSUME NEW R, Neutral(NoMid, R), NEW a \in Seq(MaybeMids), NEW b \in Seq(MaybeMids),
         Range(a) \subseteq {NoMid}, Sorted(b, R)
  PROVE  /\ Sorted(a \o b, R) /\ Sorted(b \o a, R)
         /\ a \o b \in Seq(MaybeMids) /\ b \o a \in Seq(MaybeMids)
         /\ Range(a \o b) \subseteq Range(b) \cup {NoMid}
         /\ Range(b \o a) \subseteq Range(b) \cup {NoMid}
<1>1. NoMid \in MaybeMids /\ Range(b) \subseteq MaybeMids
  <2>1. \A i \in DOMAIN b : b[i] \in MaybeMids
    BY ElementOfSeq, LenProperties
  <2> QED BY <2>1, InRange DEF MaybeMids
<1>2. /\ \A x \in Range(a), y \in Range(b) : <<x, y>> \in R /\ <<y, x>> \in R
      /\ \A x, y \in Range(a) : <<x, y>> \in R
  BY <1>1 DEF Neutral
<1>3. Sorted(a, R)
  BY <1>2, InRange DEF Sorted
<1>4. /\ Sorted(a \o b, R) /\ Sorted(b \o a, R)
  BY <1>2, <1>3, SortedConcat
<1> QED BY <1>4, ConcatProperties, RangeConcatenation

LEMMA LaterNeutral == Neutral(NoMid, Later) /\ Neutral(NoMid, Later')
<1>1. Neutral(NoMid, Later)
  <2>1. NoMid \in MaybeMids
    BY DEF MaybeMids
  <2> QED BY <2>1, LaterPair DEF Neutral
<1>2. Neutral(NoMid, Later')
  BY <1>1 DEF Neutral, Later, MaybeMids
<1> QED BY <1>1, <1>2

\* A replay is in the order of acceptance, and nobody else gets any of it.
LEMMA ReplayInOrder ==
  ASSUME ChatInv, ArrivalOrder, NEW y \in Conns, HandleSub(y), NEW x \in Conns
  PROVE  /\ Sorted(Due(hub', x), Later)
         /\ x # y => Range(Due(hub', x)) \subseteq {NoMid}
<1> DEFINE q == Inbox(y)
           s == <<Send(y, SubOk(q))>>
           t == <<Touch(q)>>
<1>1. cmd[y].qid = q /\ q \in Queues
  BY ReceivedIsOwn, ChatConstants DEF HandleSub
<1>2. PICK replay \in Replays(q, y) : hub' = SubProgram(q, y, replay)
  BY <1>1 DEF HandleSub
<1>3. /\ s \in Seq(Quiet) /\ t \in Seq(Quiet)
      /\ s \in Seq(Statement) /\ t \in Seq(Statement)
      /\ Range(Due(s, x)) \subseteq {NoMid} /\ Range(Due(t, x)) \subseteq {NoMid}
  <2>1. Send(y, SubOk(q)) \in Quiet /\ Touch(q) \in Quiet
    BY <1>1, QuietStatements
  <2>2. s \in Seq(Quiet) /\ t \in Seq(Quiet)
    BY <2>1
  <2> QED BY <2>2, DueQuiet
<1>4. replay \in Seq(Statement)
  <2>1. LegalStatement \subseteq Statement
    BY DEF LegalStatement
  <2> QED BY <1>2, <2>1, LegalReplay, SeqMonotonic
<1>5. \/ replay = <<>>
      \/ \E rows \in Undelivered(db, q) :
           replay = [i \in DOMAIN rows |-> Send(y, Deliver(q, rows[i].mid))]
  BY <1>2 DEF Replays
<1>6. x # y => Range(Due(replay, x)) \subseteq {NoMid}
  <2>1. \A i \in DOMAIN replay : replay[i].to = y
    BY <1>5 DEF Send
  <2> QED BY <1>4, <2>1, DueNothing
<1>7. Sorted(Due(replay, x), Later)
  <2>1. CASE replay = <<>>
    <3>1. Due(replay, x) = <<>>
      BY <2>1, SentNothing, CarriedNothing DEF Due
    <3> QED BY <3>1, NothingSorted
  <2>2. ASSUME NEW rows \in Undelivered(db, q),
               replay = [i \in DOMAIN rows |-> Send(y, Deliver(q, rows[i].mid))]
        PROVE  Sorted(Due(replay, x), Later)
    <3> DEFINE d == Due(replay, x)
    <3>1. /\ DOMAIN rows = DOMAIN replay /\ DOMAIN rows \subseteq Nat
          /\ \A i \in DOMAIN rows : rows[i] \in db.messages
          /\ \A i, j \in DOMAIN rows : i < j => rows[i].at < rows[j].at
      BY <2>2 DEF Undelivered, RowsOf
    <3>2. DOMAIN d = DOMAIN rows
      BY <1>4, <3>1, DueTypes
    <3>3. \A i \in DOMAIN rows : d[i] \in {NoMid, rows[i].mid}
      <4>1. \A i \in DOMAIN rows : replay[i].frame.mid = rows[i].mid
        BY <2>2 DEF Send, Deliver
      <4> QED BY <1>4, <3>1, <4>1, DueTypes
    <3>4. \A i \in DOMAIN rows : rows[i].mid \in Mids
      BY <3>1 DEF ChatInv, ChatTypeOK, TypeOK, Database, Row
    <3> SUFFICES Sorted(d, Later)
      OBVIOUS
    <3> HIDE DEF d
    <3> SUFFICES ASSUME NEW i \in DOMAIN rows, NEW j \in DOMAIN rows, i < j
                 PROVE  <<d[i], d[j]>> \in Later
      BY <3>2 DEF Sorted
    <3>5. d[i] \in MaybeMids /\ d[j] \in MaybeMids
      BY <3>3, <3>4 DEF MaybeMids
    <3>6. Precedes(rows[i].mid, rows[j].mid)
      BY <3>1 DEF ArrivalOrder
    <3>7. d[i] = NoMid \/ d[j] = NoMid \/ Precedes(d[i], d[j])
      BY <3>3, <3>6
    <3> QED BY <3>5, <3>7, LaterPair
  <2> QED BY <1>5, <2>1, <2>2
<1> HIDE DEF s, t
<1>8. /\ s \o replay \in Seq(Statement)
      /\ Due(s \o replay, x) = Due(s, x) \o Due(replay, x)
  BY <1>3, <1>4, DueConcat, ConcatProperties
<1>9. /\ Sorted(Due(s \o replay, x), Later)
      /\ Range(Due(s \o replay, x)) \subseteq Range(Due(replay, x)) \cup {NoMid}
  BY <1>3, <1>4, <1>7, <1>8, DueTypes, NeutralAround, LaterNeutral
<1>10. hub' = (s \o replay) \o t
  BY <1>2 DEF SubProgram, s, t
<1> DEFINE u == s \o replay
<1>11. u \in Seq(Statement) /\ Due(u, x) \in Seq(MaybeMids) /\ Due(t, x) \in Seq(MaybeMids)
  BY <1>3, <1>8, DueTypes
<1> HIDE DEF u
<1>12. Due(u \o t, x) = Due(u, x) \o Due(t, x)
  BY <1>3, <1>11, DueConcat
<1>13. Sorted(Due(u, x), Later) /\ Range(Due(u, x)) \subseteq Range(Due(replay, x)) \cup {NoMid}
  BY <1>9 DEF u
<1>14. /\ Sorted(Due(u \o t, x), Later)
       /\ Range(Due(u \o t, x)) \subseteq Range(Due(u, x)) \cup {NoMid}
  BY <1>3, <1>11, <1>12, <1>13, NeutralAround, LaterNeutral
<1> QED BY <1>6, <1>10, <1>13, <1>14 DEF u

\* A message is sent to one connection, once.
LEMMA DeliveredOnce ==
  ASSUME ChatInv, NEW y \in Conns, HandleSend(y), NEW x \in Conns, NEW R, Neutral(NoMid, R)
  PROVE  /\ Sorted(Due(hub', x), R)
         /\ Range(Due(hub', x)) \subseteq {NoMid, cmd[y].mid}
<1> DEFINE q == Outbox[User[y]]
           D(m) == [i \in DOMAIN Recipients(q) |-> Send(Recipients(q)[i], Deliver(q, m))]
<1>1. PICK m \in Lines(y) :
        /\ q \in Queues /\ m = cmd[y].mid
        /\ hub' = D(m) \o Abbreviate(m) \o <<Send(y, Ack(q, m))>>
  BY SendEffects
<1> DEFINE d == D(m)
           a == Abbreviate(m)
           k == <<Send(y, Ack(q, m))>>
<1>2. m \in Mids
  BY <1>1 DEF Lines
<1>3. /\ a \in Seq(Quiet) /\ k \in Seq(Quiet)
      /\ a \in Seq(Statement) /\ k \in Seq(Statement)
      /\ Range(Due(a, x)) \subseteq {NoMid} /\ Range(Due(k, x)) \subseteq {NoMid}
  <2>1. Send(y, Ack(q, m)) \in Quiet
    BY <1>1, <1>2, QuietStatements
  <2>2. a \in Seq(Quiet) /\ k \in Seq(Quiet)
    BY <2>1, QuietSlices
  <2> QED BY <2>2, DueQuiet
<1>4. /\ d \in Seq(Statement)
      /\ \A i, j \in DOMAIN d : i = j
      /\ \A i \in DOMAIN d : d[i].frame.mid = m
  <2>1. CASE sub[q] = Nobody
    <3>1. d = <<>> /\ DOMAIN d = {}
      BY <2>1 DEF Recipients
    <3> QED BY <3>1, EmptySeq
  <2>2. CASE sub[q] # Nobody
    <3>1. sub[q] \in Conns
      BY <1>1, <2>2 DEF ChatInv, ChatTypeOK, TypeOK
    <3>2. d = <<Send(sub[q], Deliver(q, m))>>
      BY <2>2 DEF Recipients
    <3>3. Send(sub[q], Deliver(q, m)) \in Statement
      BY <1>1, <1>2, <3>1, FrameTypes DEF Send, Statement
    <3>4. Send(sub[q], Deliver(q, m)).frame.mid = m
      BY DEF Send, Deliver
    <3> QED BY <3>2, <3>3, <3>4
  <2> QED BY <2>1, <2>2
<1> HIDE DEF d, a, k
<1>5. Sorted(Due(d, x), R)
  <2>1. DOMAIN Due(d, x) = DOMAIN d /\ DOMAIN d \subseteq Nat
    BY <1>4, DueTypes, LenProperties
  <2>2. \A i \in Nat : ~ (i < i)
    OBVIOUS
  <2> QED BY <1>4, <2>1, <2>2 DEF Sorted
<1>6. Range(Due(d, x)) \subseteq {NoMid, m}
  BY <1>4, DueTypes, InRange
<1>7. /\ d \o a \in Seq(Statement) /\ Due(d \o a, x) = Due(d, x) \o Due(a, x)
      /\ Due(d, x) \in Seq(MaybeMids) /\ Due(a, x) \in Seq(MaybeMids)
      /\ Due(k, x) \in Seq(MaybeMids)
  BY <1>3, <1>4, DueConcat, DueTypes, ConcatProperties
<1> DEFINE u == d \o a
<1>8. /\ Sorted(Due(u, x), R) /\ Range(Due(u, x)) \subseteq {NoMid, m}
      /\ u \in Seq(Statement) /\ Due(u, x) \in Seq(MaybeMids)
  BY <1>3, <1>5, <1>6, <1>7, DueTypes, NeutralAround
<1> HIDE DEF u
<1>9. Due(u \o k, x) = Due(u, x) \o Due(k, x)
  BY <1>3, <1>8, DueConcat
<1>10. /\ Sorted(Due(u \o k, x), R) /\ Range(Due(u \o k, x)) \subseteq {NoMid, m}
  BY <1>3, <1>7, <1>8, <1>9, NeutralAround
<1> QED BY <1>1, <1>10 DEF u, d, a, k

\* What is shown, or on the way, was accepted.
LEMMA StreamIsAccepted ==
  ASSUME ChatInv, NEW x \in Conns
  PROVE  Range(Stream(x)) \subseteq accepted \cup {NoMid}
<1> DEFINE s == screen[x]
           w == OnTheWay(x)
           v == Carried(w, "DELIVER")
<1>1. /\ s \in Seq(MaybeMids) /\ v \in Seq(MaybeMids)
      /\ w \in Seq(Slots)
  BY StreamTypes, WayTypes DEF ChatInv
<1>2. Range(s) \subseteq accepted
  <2>1. s \in Seq(For(User[x])) /\ For(User[x]) \subseteq accepted
    BY DEF ChatInv, Kept, Screens, For
  <2>2. \A i \in DOMAIN s : s[i] \in accepted
    BY <2>1, ElementOfSeq, LenProperties
  <2> QED BY <2>2, InRange
<1>3. Range(v) \subseteq accepted \cup {NoMid}
  <2> DEFINE S == LegalFrame(x) \cup {NoFrame}
  <2>1. w \in Seq(S)
    <3>1. down[x] \in Seq(S) /\ send[x] \in Seq(S)
      <4>1. LegalFrame(x) \subseteq S
        OBVIOUS
      <4>2. down[x] \in Seq(LegalFrame(x)) /\ send[x] \in Seq(LegalFrame(x))
        BY DEF ChatInv, Kept, Frames
      <4> HIDE DEF S
      <4> QED BY <4>1, <4>2, SeqMonotonic
    <3>2. ToBeSent(x) \in Seq(S)
      <4>1. hub \in Seq(LegalStatement) /\ Len(hub) \in Nat /\ DOMAIN hub = 1 .. Len(hub)
        BY LenProperties DEF ChatInv, Kept, Frames
      <4>2. \A i \in 1 .. Len(hub) : hub[i] \in LegalStatement
        BY <4>1, ElementOfSeq
      <4>3. \A i \in 1 .. Len(hub) :
              (IF hub[i].do = "send" /\ hub[i].to = x THEN hub[i].frame ELSE NoFrame) \in S
        BY <4>2 DEF LegalStatement
      <4>4. ToBeSent(x) \in [1 .. Len(hub) -> S]
        BY <4>1, <4>3 DEF ToBeSent
      <4> QED BY <4>1, <4>4, SeqDef
    <3> HIDE DEF S
    <3> QED BY <3>1, <3>2, ConcatProperties DEF OnTheWay
  <2>2. \A i \in DOMAIN w : w[i] \in S
    BY <2>1, ElementOfSeq, LenProperties
  <2>3. \A i \in DOMAIN w : w[i].type = "DELIVER" => w[i].mid \in accepted
    BY <2>2 DEF LegalFrame, For, NoFrame
  <2> HIDE DEF w, S
  <2> QED BY <2>3, CarriedRange
<1> HIDE DEF s, v
<1>4. Range(s \o v) = Range(s) \cup Range(v)
  BY <1>1, RangeConcatenation
<1> QED BY <1>2, <1>3, <1>4 DEF Stream, s, v, w

\* What the hub begins to send comes after all that came before.
LEMMA StreamGrows ==
  ASSUME ChatInv, ChatTypeOK', Starts, LineInv, ArrivalOrder, [ChatNext]_chatVars,
         NEW y \in Conns, RelayHandles(y), NEW x \in Conns, Sorted(Stream(x), Later)
  PROVE  Sorted(Stream(x)', Later')
<1> DEFINE s == screen[x]
           w == OnTheWay(x)
           r == ToBeSent(x)'
           v == Carried(w, "DELIVER")
           n == Due(hub', x)
           old == Stream(x)
<1>1. /\ s \in Seq(MaybeMids) /\ v \in Seq(MaybeMids) /\ old \in Seq(MaybeMids)
      /\ w \in Seq(Slots) /\ r \in Seq(Slots) /\ n \in Seq(MaybeMids)
      /\ r = Sent(hub', x)
  <2>1. hub' \in Seq(Statement)
    BY DEF ChatTypeOK, TypeOK
  <2> QED BY <2>1, StreamTypes, WayTypes, NextWayTypes, DueTypes DEF ChatInv
<1>2. Stream(x)' = old \o n
  <2>1. OnTheWay(x)' = w \o r
    BY WayOfHandler
  <2>2. screen'[x] = s
    BY DEF RelayHandles, session
  <2>3. Carried(r, "DELIVER") = n
    BY <1>1 DEF Due
  <2>4. Stream(x)' = s \o Carried(w \o r, "DELIVER")
    BY <2>1, <2>2 DEF Stream, Carried
  <2> HIDE DEF w, r
  <2>5. Carried(w \o r, "DELIVER") = v \o n
    <3>1. w \in Seq(Slots) /\ r \in Seq(Slots)
      BY <1>1
    <3>2. Carried(w \o r, "DELIVER") = Carried(w, "DELIVER") \o Carried(r, "DELIVER")
      BY <3>1, SlotsLoad, CarriedConcat
    <3> QED BY <2>3, <3>2
  <2> HIDE DEF s, v, n
  <2>6. (s \o v) \o n = s \o (v \o n)
    BY <1>1, ConcatAssociative
  <2> QED BY <2>4, <2>5, <2>6 DEF Stream, s, v, w
<1>3. Sorted(old, Later')
  <2>1. Range(old) \subseteq MaybeMids
    <3>1. \A i \in DOMAIN old : old[i] \in MaybeMids
      BY <1>1, ElementOfSeq, LenProperties
    <3> QED BY <3>1, InRange
  <2>2. \A a, b \in Range(old) : <<a, b>> \in Later => <<a, b>> \in Later'
    BY <2>1, LaterGrows
  <2> HIDE DEF old
  <2>3. Sorted(old, Later)
    BY DEF old
  <2> QED BY <2>2, <2>3, SortedGrows
<1> HIDE DEF old, n
<1> SUFFICES Sorted(n, Later') /\ \A a \in Range(old), b \in Range(n) : <<a, b>> \in Later'
  BY <1>1, <1>2, <1>3, SortedConcat
<1>4. Range(old) \subseteq MaybeMids /\ Range(old) \subseteq accepted \cup {NoMid}
      /\ NoMid \in MaybeMids
  <2>1. \A i \in DOMAIN old : old[i] \in MaybeMids
    BY <1>1, ElementOfSeq, LenProperties
  <2>2. Range(old) \subseteq accepted \cup {NoMid}
    BY StreamIsAccepted DEF old
  <2> QED BY <2>1, <2>2, InRange DEF MaybeMids
<1>5. ASSUME Range(n) \subseteq {NoMid}
      PROVE  Sorted(n, Later') /\ \A a \in Range(old), b \in Range(n) : <<a, b>> \in Later'
  <2>1. \A a \in MaybeMids : <<a, NoMid>> \in Later'
    BY <1>4, LaterNeutral DEF Neutral
  <2>2. \A i \in DOMAIN n : n[i] = NoMid
    BY <1>5, InRange
  <2> QED BY <1>4, <1>5, <2>1, <2>2 DEF Sorted
<1>6. Handle(y)
  BY DEF RelayHandles
<1>7. CASE ~ HandleSub(y) /\ ~ HandleSend(y)
  <2>1. hub' \in Seq(Quiet)
    BY <1>6, <1>7, QuietHandlers DEF ChatInv
  <2>2. Range(n) \subseteq {NoMid}
    BY <2>1, DueQuiet DEF n
  <2> QED BY <1>5, <2>2
<1>8. CASE HandleSub(y)
  <2>1. Sorted(n, Later) /\ (x # y => Range(n) \subseteq {NoMid})
    BY <1>8, ReplayInOrder DEF n
  <2>2. CASE x # y
    BY <1>5, <2>1, <2>2
  <2>3. CASE x = y
    <3>1. old = <<>>
      <4>1. screen[x] = <<>> /\ OnTheWay(x) = <<>>
        BY <1>8, <2>3, NothingBeforeGrant DEF Fresh
      <4>2. <<>> \o <<>> = <<>>
        BY EmptySeq, ConcatEmptySeq
      <4> QED BY <4>1, <4>2, CarriedNothing DEF old, Stream
    <3>2. Range(old) = {}
      BY <3>1, NothingSorted
    <3>3. Later' = Later
      <4>1. arrived' = arrived
        BY <1>8, HandlerLines DEF HandleSub, HandleSend, Receive
      <4> QED BY <4>1 DEF Later, Precedes
    <3> QED BY <2>1, <3>2, <3>3
  <2> QED BY <2>2, <2>3
<1>9. CASE HandleSend(y)
  <2>1. PICK m \in Mids : /\ m = Line(y)
                          /\ \A z \in accepted : Precedes(z, m)'
    BY <1>9, NewIsLast
  <2>2. m = cmd[y].mid
    BY <1>9, <2>1 DEF HandleSend, Receive, Line, Load
  <2>3. Sorted(n, Later') /\ Range(n) \subseteq {NoMid, m}
    BY <1>9, <2>2, DeliveredOnce, LaterNeutral DEF n
  <2>4. ASSUME NEW a \in Range(old), NEW b \in Range(n)
        PROVE  <<a, b>> \in Later'
    <3>1. a \in MaybeMids /\ b \in MaybeMids
      BY <1>4, <2>3 DEF MaybeMids
    <3>2. a = NoMid \/ b = NoMid \/ Precedes(a, b)'
      BY <1>4, <2>1, <2>3
    <3> QED BY <3>1, <3>2 DEF Later
  <2> QED BY <2>3, <2>4
<1> QED BY <1>7, <1>8, <1>9

Streams == \A c \in Conns : Sorted(Stream(c), Later)

LEMMA StreamsNext ==
  ASSUME ChatInv, ChatTypeOK', Starts, LineInv, ArrivalOrder, Streams, [ChatNext]_chatVars
  PROVE  Streams'
<1> SUFFICES ASSUME NEW x \in Conns PROVE Sorted(Stream(x)', Later')
  BY DEF Streams
<1>1. Sorted(Stream(x), Later)
  BY DEF Streams
<1>2. ASSUME NEW y \in Conns, RelayHandles(y) PROVE Sorted(Stream(x)', Later')
  BY <1>1, <1>2, StreamGrows
<1>3. CASE \A y \in Conns : ~ RelayHandles(y)
  <2>1. Sorted(Stream(x)', Later)
    BY <1>1, <1>3, StreamKeepsOrder DEF Stream, Carried
  <2>2. Later' = Later
    BY <1>3, OnlyHandlersAccept DEF Later, Precedes
  <2> QED BY <2>1, <2>2
<1> QED BY <1>2, <1>3

LEMMA StreamsInit == ChatInit => ArrivalOrder /\ Streams
<1> SUFFICES ASSUME ChatInit PROVE ArrivalOrder /\ Streams
  OBVIOUS
<1>1. ArrivalOrder
  <2>1. db.messages = {}
    BY DEF ChatInit, Init, DatabaseWith
  <2> QED BY <2>1 DEF ArrivalOrder
<1>2. ASSUME NEW c \in Conns PROVE Sorted(Stream(c), Later)
  <2>1. screen[c] = <<>> /\ down[c] = <<>> /\ send[c] = <<>> /\ hub = <<>>
    BY DEF ChatInit, Init
  <2>2. ToBeSent(c) = <<>>
    BY <2>1, SentNothing DEF ToBeSent, Sent
  <2>3. <<>> \o <<>> = <<>>
    BY EmptySeq, ConcatEmptySeq
  <2>4. Stream(c) = <<>>
    BY <2>1, <2>2, <2>3, CarriedNothing DEF Stream, OnTheWay
  <2> QED BY <2>4, NothingSorted
<1> QED BY <1>1, <1>2 DEF Streams

\* The relay's database hands out a backlog in the order of its rows, the hub
\* sends a message when it has taken it, and nothing overtakes on the way to
\* the client (hub.go: handleSub, replayOffline, handleSend; session.go:
\* readPump); frames may be lost with a connection or for lack of room in a
\* channel, but what a run shows is in the order of acceptance, nothing twice.
THEOREM MessagesArriveInOrder == ChatSpec => []StreamInOrder
<1>1. ChatInv /\ ChatInv' /\ Starts /\ LineInv /\ ArrivalOrder /\ Streams /\ [ChatNext]_chatVars
        => ArrivalOrder' /\ Streams'
  BY ArrivalOrderNext, StreamsNext DEF ChatInv
<1>2. ASSUME ChatInv, Streams PROVE StreamInOrder
  <2> SUFFICES ASSUME NEW c \in Conns, NEW i \in DOMAIN Stream(c), NEW j \in DOMAIN Stream(c),
                      i < j, NoMid \notin {Stream(c)[i], Stream(c)[j]}
               PROVE  Precedes(Stream(c)[i], Stream(c)[j])
    BY DEF StreamInOrder, Stream
  <2>1. Sorted(Stream(c), Later) /\ Stream(c) \in Seq(MaybeMids)
    BY <1>2, StreamTypes DEF Streams, ChatInv
  <2>2. <<Stream(c)[i], Stream(c)[j]>> \in Later
    BY <2>1 DEF Sorted
  <2>3. Stream(c)[i] \in MaybeMids /\ Stream(c)[j] \in MaybeMids
    BY <2>1, ElementOfSeq, LenProperties
  <2> QED BY <2>2, <2>3, LaterPair
<1> QED BY <1>1, <1>2, StreamsInit, ChatInvAlways, StartsAlways, LineInvAlways, PTL DEF ChatSpec

\* Accepting a message twice, and a stream that brings it twice.
AcceptedOnce == \A i, j \in DOMAIN arrived : arrived[i] = arrived[j] => i = j

StreamedOnce ==
  \A c \in Conns : \A i, j \in DOMAIN Stream(c) :
    Stream(c)[i] = Stream(c)[j] /\ Stream(c)[i] # NoMid => i = j

LEMMA LinesAreAcceptedOnce ==
  ASSUME ChatInv, LineInv
  PROVE  AcceptedOnce
<1>1. arrived \in Seq(Mids) /\ \A i \in DOMAIN arrived : i \in Nat /\ arrived[i] \in Mids
  BY LenProperties, ElementOfSeq DEF ChatInv, ChatTypeOK
<1>2. ASSUME NEW i \in DOMAIN arrived, NEW j \in DOMAIN arrived, arrived[i] = arrived[j], i < j
      PROVE  FALSE
  <2> DEFINE m == arrived[i]
  <2>1. m \in accepted /\ m \in MaybeMids
    BY <1>1, InRange DEF LineInv, Recorded, MaybeMids
  <2>2. PICK c \in Conns : m \in Range(typed[c])
    BY <2>1 DEF LineInv, OnlyTyped
  <2> DEFINE t == typed[c]
  <2>3. t \in Seq(Mids)
    BY DEF ChatInv, ChatTypeOK
  <2>4. PICK k \in DOMAIN t : t[k] = m
    BY <2>2, InRange
  <2>5. k \in Nat
    BY <2>3, LenProperties
  <2>6. <<m, m>> \in OrderOf(t)
    BY <1>2 DEF LineInv, Ordered, InLine, Sorted
  <2> HIDE DEF t, m
  <2> QED BY <2>1, <2>4, <2>5, <2>6, OrderPair
<1>3. ASSUME NEW i \in DOMAIN arrived, NEW j \in DOMAIN arrived, arrived[i] = arrived[j]
      PROVE  i = j
  <2>1. ~ (i < j) /\ ~ (j < i)
    BY <1>2, <1>3
  <2>2. i \in Nat /\ j \in Nat
    BY <1>1
  <2> QED BY <2>1, <2>2
<1> QED BY <1>3 DEF AcceptedOnce

\* No message is accepted twice, whichever runs its author ends and starts,
\* and none comes twice on one connection: a row is either replayed when the
\* connection subscribes or delivered when it is stored (hub.go: handleSub,
\* handleSend), never both.
THEOREM NothingTwice == ChatSpec => [](AcceptedOnce /\ StreamedOnce)
<1>1. ASSUME ChatInv, AcceptedOnce, StreamInOrder PROVE StreamedOnce
  <2> SUFFICES ASSUME NEW c \in Conns, NEW i \in DOMAIN Stream(c), NEW j \in DOMAIN Stream(c),
                      Stream(c)[i] = Stream(c)[j], Stream(c)[i] # NoMid, i < j
               PROVE  FALSE
    <3>1. ASSUME NEW c \in Conns, NEW i \in DOMAIN Stream(c), NEW j \in DOMAIN Stream(c),
                 Stream(c)[i] = Stream(c)[j], Stream(c)[i] # NoMid, ~ (i < j), ~ (j < i)
          PROVE  i = j
      <4>1. Stream(c) \in Seq(MaybeMids)
        BY <1>1, StreamTypes DEF ChatInv
      <4>2. i \in Nat /\ j \in Nat
        BY <4>1, LenProperties
      <4> QED BY <3>1, <4>2
    <3> QED BY <3>1 DEF StreamedOnce
  <2>1. Precedes(Stream(c)[i], Stream(c)[i])
    BY <1>1 DEF StreamInOrder, Stream
  <2>2. PICK k, l \in DOMAIN arrived : k < l /\ arrived[k] = arrived[l]
    BY <2>1 DEF Precedes
  <2>3. k \in Nat /\ l \in Nat
    BY <1>1, LenProperties DEF ChatInv, ChatTypeOK
  <2> QED BY <1>1, <2>2, <2>3 DEF AcceptedOnce
<1> QED BY <1>1, LinesAreAcceptedOnce, MessagesArriveInOrder, ChatInvAlways, LineInvAlways, PTL

----------------------------------------------------------------------------
(* Nothing is missed while no frame is dropped for lack of room.            *)

NoDrops == \A c \in Conns : ~ Drops(c)

\* A run that was told so is a subscriber.
GrantKnown ==
  \A c \in clients :
    phase[c] = "chatting" \/ (\E f \in Range(OnTheWay(c)) : f.type = "SUB_OK")
      => Inbox(c) \in granted[c]

Reaches(c, m) == m \in Shown(c) \/ Deliver(Inbox(c), m) \in Range(OnTheWay(c))

\* A subscriber has, or is about to get, all that is stored.
AllReach ==
  \A c \in clients \ broken : Inbox(c) \in granted[c] =>
    \A row \in RowsOf(db, Inbox(c)) : Reaches(c, row.mid)

\* Who is registered, and what it was granted.
LEMMA MemberSteps ==
  ASSUME ChatInv, [ChatNext]_chatVars, NEW c \in Conns, c \in clients'
  PROVE  \/ Dial(c) /\ reader[c] = "absent" /\ granted'[c] = granted[c]
         \/ c \in clients /\ granted'[c] = granted[c]
         \/ c \in clients /\ RelayHandles(c) /\ HandleSub(c)
<1>1. granted \in [Conns -> SUBSET Queues]
  BY DEF ChatInv, ChatTypeOK, TypeOK
<1>2. CASE RelayRestarts \/ RelaySteps
  BY <1>2
  DEF RelayRestarts, RelaySteps, HubStep, SendFrame, TouchSubscribed, SendOnClosed,
      SliceShortId, Panic, Restart, Reset, memory, history
<1>3. ASSUME NEW y \in Conns, Arrive(y) \/ StopListening(y) \/ Emit(y) \/ Close(y)
      PROVE  clients' = clients /\ granted' = granted
  BY <1>3
  DEF Arrive, ReadCommand, StopListening, StopReading, Emit, WriteFrame, Close,
      SeeClosedChannel, FailToWrite, StopWriting, memory, history
<1>4. ASSUME NEW y \in Conns, RelayDeparts(y) \/ Cut(y)
      PROVE  clients' \subseteq clients /\ granted' = granted
  BY <1>4
  DEF RelayDeparts, Depart, Unregister, UnregisterLate, Leave, Cut, vars, memory, history
<1>5. ASSUME NEW y \in Conns, RelayHandles(y), ~ HandleSub(y)
      PROVE  clients' = clients /\ granted' = granted
  BY <1>5, HandledCommands
  DEF RelayHandles, RefuseSub, RefuseSend, RefuseSave, HandleSend, HandleAck, memory, history
<1>6. ASSUME NEW y \in Conns, RelayHandles(y), HandleSub(y)
      PROVE  clients' \subseteq clients /\ (y = c \/ granted'[c] = granted[c])
  BY <1>1, <1>6 DEF HandleSub
<1>7. ASSUME NEW y \in Conns, Dial(y)
      PROVE  clients' = clients \cup {y} /\ granted' = granted /\ reader[y] = "absent"
  BY <1>7 DEF Dial, Connect, history
<1>8. ASSUME NEW y \in Conns, Ask(y) \/ Answered(y) \/ Refused(y) \/ GiveUp(y) \/ Chatting(y)
      PROVE  clients' = clients /\ granted' = granted
  BY <1>8
  DEF Ask, Answered, Refused, GiveUp, End, Chatting, Type, Quit, Transmit,
      FailToTransmit, Read, Acknowledge, Notice, vars, memory, history
<1>9. CASE UNCHANGED chatVars
  BY <1>9 DEF chatVars, vars, memory, history
<1> QED BY <1>2, <1>3, <1>4, <1>5, <1>6, <1>7, <1>8, <1>9 DEF ChatNext, RelayEnd, StartUp

\* Only a handler adds to what is on the way.
LEMMA WayShrinks ==
  ASSUME ChatInv, [ChatNext]_chatVars, NEW x \in Conns, \A y \in Conns : ~ RelayHandles(y)
  PROVE  Range(OnTheWay(x)') \subseteq Range(OnTheWay(x))
<1> DEFINE w == OnTheWay(x)
           v == OnTheWay(x)'
           e == down[x]
           n == send[x]
           p == ToBeSent(x)
           r == ToBeSent(x)'
<1> SUFFICES Range(v) \subseteq Range(w)
  OBVIOUS
<1>1. /\ w \in Seq(Slots) /\ e \in Seq(Slots) /\ n \in Seq(Slots)
      /\ p \in Seq(Slots) /\ n \o p \in Seq(Slots) /\ e \o n \in Seq(Slots)
      /\ v \in Seq(Slots) /\ r \in Seq(Slots)
  <2>1. ChatTypeOK /\ ChatTypeOK'
    BY ChatInvNext DEF ChatInv
  <2> QED BY <2>1, WayTypes, NextWayTypes, ConcatProperties
<1>2. CASE v = w
  BY <1>2
<1>3. CASE w # <<>> /\ v = Tail(w)
  BY <1>1, <1>3, TailRange
<1>4. CASE w = e \o v
  <2> HIDE DEF w, v, e
  <2> QED BY <1>1, <1>4, RangeConcatenation
<1>5. CASE w = e \o (n \o p) /\ v = e
  <2> DEFINE a == n \o p
  <2> HIDE DEF w, v, e, a
  <2>1. w = e \o a /\ v = e /\ a \in Seq(Slots)
    BY <1>1, <1>5 DEF a
  <2>2. Range(e \o a) = Range(e) \cup Range(a)
    BY <1>1, <2>1, RangeConcatenation
  <2> QED BY <2>1, <2>2
<1>6. CASE \E f \in Slots : w = e \o n \o <<f>> \o r /\ v = e \o n \o r
  <2>1. PICK f \in Slots : w = e \o n \o <<f>> \o r /\ v = e \o n \o r
    BY <1>6
  <2> DEFINE a == e \o n
             b == <<f>>
  <2>2. a \in Seq(Slots) /\ b \in Seq(Slots)
    BY <1>1
  <2> HIDE DEF a, b, w, v, r
  <2>3. /\ a \o b \in Seq(Slots) /\ Range(a \o b) = Range(a) \cup Range(b)
        /\ Range(a \o r) = Range(a) \cup Range(r)
    BY <1>1, <2>2, RangeConcatenation, ConcatProperties
  <2> DEFINE u == a \o b
  <2>4. w = u \o r /\ v = a \o r
    BY <2>1 DEF a, b
  <2>5. u \in Seq(Slots) /\ Range(u) = Range(a) \cup Range(b)
    BY <2>3
  <2> HIDE DEF u
  <2>6. Range(u \o r) = Range(u) \cup Range(r)
    BY <1>1, <2>5, RangeConcatenation
  <2> QED BY <2>3, <2>4, <2>5, <2>6
<1> HIDE DEF w, v, e, n, p, r
<1> QED BY <1>2, <1>3, <1>4, <1>5, <1>6, WaySteps DEF w, v, e, n, p, r

\* What the hub begins to send to x is on the way to it.
LEMMA SentIsOnTheWay ==
  ASSUME ChatInv, ChatTypeOK', NEW x \in Conns, NEW y \in Conns, RelayHandles(y)
  PROVE  /\ Range(OnTheWay(x)') = Range(OnTheWay(x)) \cup Range(ToBeSent(x)')
         /\ \A i \in DOMAIN hub' : hub'[i].do = "send" /\ hub'[i].to = x =>
              hub'[i].frame \in Range(ToBeSent(x)')
         /\ \A f \in Range(ToBeSent(x)') : f = NoFrame \/
              \E i \in DOMAIN hub' : hub'[i].do = "send" /\ hub'[i].to = x /\ f = hub'[i].frame
<1> DEFINE t == ToBeSent(x)'
           w == OnTheWay(x)
<1>1. /\ w \in Seq(Slots) /\ t \in Seq(Slots)
      /\ OnTheWay(x)' = w \o t /\ t = Sent(hub', x)
  <2>1. OnTheWay(x)' = w \o t
    BY WayOfHandler
  <2> QED BY <2>1, WayTypes, NextWayTypes DEF ChatInv
<1>2. /\ DOMAIN t = DOMAIN hub'
      /\ \A i \in DOMAIN hub' :
           t[i] = IF hub'[i].do = "send" /\ hub'[i].to = x THEN hub'[i].frame ELSE NoFrame
  BY <1>1 DEF Sent
<1> SUFFICES /\ Range(w \o t) = Range(w) \cup Range(t)
             /\ \A i \in DOMAIN hub' : hub'[i].do = "send" /\ hub'[i].to = x =>
                  hub'[i].frame \in Range(t)
             /\ \A f \in Range(t) : f = NoFrame \/
                  \E i \in DOMAIN hub' : hub'[i].do = "send" /\ hub'[i].to = x /\ f = hub'[i].frame
  BY <1>1
<1> HIDE DEF t, w
<1>3. Range(w \o t) = Range(w) \cup Range(t)
  BY <1>1, RangeConcatenation
<1> QED BY <1>2, <1>3, InRange

\* SUB is the only command that is answered with SUB_OK.
LEMMA OnlySubIsGranted ==
  ASSUME ChatInv, NEW y \in Conns, Handle(y), ~ HandleSub(y)
  PROVE  \A i \in DOMAIN hub' : hub'[i].do = "send" => hub'[i].frame.type # "SUB_OK"
<1> DEFINE S == {s \in Statement : s.do = "send" => s.frame.type # "SUB_OK"}
<1>1. \A id : Abbreviate(id) \in Seq(S)
  <2>1. [do |-> "slice"] \in S
    BY DEF Statement
  <2> HIDE DEF S
  <2>2. <<[do |-> "slice"]>> \in Seq(S) /\ <<>> \in Seq(S)
    BY <2>1, EmptySeq
  <2> QED BY <2>2 DEF Abbreviate
<1>2. Send(y, Error) \in S
  BY FrameTypes DEF Send, Error, Statement
<1>3. \A q \in Queues, m \in Mids : Send(y, Ack(q, m)) \in S
  BY FrameTypes DEF Send, Ack, Statement
<1>4. \A x \in Conns, q \in Queues, m \in Mids : Send(x, Deliver(q, m)) \in S
  BY FrameTypes DEF Send, Deliver, Statement
<1>5. ASSUME hub' \in Seq(S)
      PROVE  \A i \in DOMAIN hub' : hub'[i].do = "send" => hub'[i].frame.type # "SUB_OK"
  <2> HIDE DEF S
  <2>1. \A i \in DOMAIN hub' : hub'[i] \in S
    BY <1>5, ElementOfSeq, LenProperties
  <2> QED BY <2>1 DEF S
<1> HIDE DEF S
<1>6. CASE RefuseSub(y) \/ RefuseSend(y) \/ RefuseSave(y)
  <2>1. hub' = <<Send(y, Error)>>
    BY <1>6 DEF RefuseSub, RefuseSend, RefuseSave, Refuse
  <2>2. hub' \in Seq(S)
    BY <1>2, <2>1
  <2> QED BY <1>5, <2>2
<1>7. CASE HandleAck(y)
  <2>1. hub' = Abbreviate(cmd[y].qid) \o Abbreviate(cmd[y].mid)
    BY <1>7 DEF HandleAck
  <2>2. hub' \in Seq(S)
    BY <1>1, <2>1, ConcatProperties
  <2> QED BY <1>5, <2>2
<1>8. CASE HandleSend(y)
  <2> DEFINE q == Outbox[User[y]]
             D(m) == [i \in DOMAIN Recipients(q) |->
                        Send(Recipients(q)[i], Deliver(q, m))]
  <2>1. PICK m \in Lines(y) :
          /\ q \in Queues /\ hub' = D(m) \o Abbreviate(m) \o <<Send(y, Ack(q, m))>>
    BY <1>8, SendEffects
  <2>2. m \in Mids
    BY <2>1 DEF Lines
  <2>3. D(m) \in Seq(S)
    <3>1. CASE sub[q] = Nobody
      <4>1. D(m) = <<>>
        BY <3>1 DEF Recipients
      <4> QED BY <4>1, EmptySeq
    <3>2. CASE sub[q] # Nobody
      <4>1. sub[q] \in Conns
        BY <2>1, <3>2 DEF ChatInv, ChatTypeOK, TypeOK
      <4>2. Send(sub[q], Deliver(q, m)) \in S
        BY <1>4, <2>1, <2>2, <4>1
      <4>3. D(m) = <<Send(sub[q], Deliver(q, m))>>
        BY <3>2 DEF Recipients
      <4> QED BY <4>2, <4>3
    <3> QED BY <3>1, <3>2
  <2>4. <<Send(y, Ack(q, m))>> \in Seq(S)
    BY <1>3, <2>1, <2>2
  <2> DEFINE d == D(m)
             k == <<Send(y, Ack(q, m))>>
  <2>5. d \in Seq(S) /\ k \in Seq(S) /\ Abbreviate(m) \in Seq(S)
    BY <1>1, <2>3, <2>4
  <2>6. hub' = d \o Abbreviate(m) \o k
    BY <2>1
  <2> HIDE DEF d, k
  <2>7. hub' \in Seq(S)
    BY <2>5, <2>6, ConcatProperties
  <2> QED BY <1>5, <2>7
<1> QED BY <1>6, <1>7, <1>8, HandledCommands

LEMMA HeadIsOnTheWay ==
  ASSUME ChatTypeOK, NEW x \in Conns, down[x] # <<>>
  PROVE  Head(down[x]) \in Range(OnTheWay(x))
<1> DEFINE d == down[x]
           r == send[x]
           t == ToBeSent(x)
           u == d \o r
<1>1. d \in Seq(Slots) /\ r \in Seq(Slots) /\ t \in Seq(Slots) /\ u \in Seq(Slots)
  BY WayTypes
<1>2. Range(u) = Range(d) \cup Range(r)
  <2> HIDE DEF d, r
  <2> QED BY <1>1, RangeConcatenation
<1>3. Range(u \o t) = Range(u) \cup Range(t)
  <2> HIDE DEF u, t
  <2> QED BY <1>1, RangeConcatenation
<1>4. Head(d) \in Range(d)
  <2> HIDE DEF d
  <2> QED BY <1>1, HeadRange DEF d
<1> QED BY <1>2, <1>3, <1>4 DEF OnTheWay

LEMMA GrantKnownNext ==
  ASSUME ChatInv, Exclusive, Starts, GrantKnown, [ChatNext]_chatVars
  PROVE  GrantKnown'
<1>1. ChatInv' /\ ChatTypeOK' /\ ChatTypeOK /\ clients' \subseteq Conns
  BY ChatInvNext DEF ChatInv, ChatTypeOK, TypeOK
<1> SUFFICES ASSUME NEW c \in clients',
                    phase'[c] = "chatting"
                      \/ (\E f \in Range(OnTheWay(c)') : f.type = "SUB_OK")
             PROVE  Inbox(c) \in granted'[c]
  BY DEF GrantKnown
<1>2. c \in Conns
  BY <1>1
<1>3. CASE Dial(c)
  <2>1. phase[c] = "absent" /\ phase'[c] = "choosing" /\ hub = <<>>
        /\ \A y \in Conns : ~ RelayHandles(y)
    <3>1. phase[c] = "absent" /\ phase' = [phase EXCEPT ![c] = "choosing"] /\ hub = <<>>
      BY <1>3 DEF Dial, Connect, Idle
    <3>2. phase \in [Conns ->
                      {"absent", "choosing", "subscribing", "chatting", "ended"}]
      BY <1>1 DEF ChatTypeOK
    <3>3. phase' # phase
      BY <1>2, <3>1, <3>2
    <3>4. \A y \in Conns : RelayHandles(y) => phase' = phase
      BY DEF RelayHandles, session
    <3> QED BY <1>2, <3>1, <3>2, <3>3, <3>4
  <2>2. OnTheWay(c) = <<>>
    <3>1. Fresh(c)
      BY <1>2, <2>1 DEF Starts, Begins
    <3>2. ToBeSent(c) = <<>>
      BY <1>1, <1>2, <2>1, WayTypes, SentNothing
    <3> QED BY <3>1, <3>2 DEF OnTheWay, Fresh
  <2>3. Range(OnTheWay(c)') \subseteq {}
    BY <1>2, <2>1, <2>2, WayShrinks, NothingSorted
  <2> QED BY <2>1, <2>3
<1>4. CASE c \in clients /\ RelayHandles(c) /\ HandleSub(c)
  <2>1. cmd[c].qid = Inbox(c)
    BY <1>2, <1>4, NothingBeforeGrant
  <2>2. granted' = [granted EXCEPT ![c] = @ \cup {cmd[c].qid}]
        /\ granted \in [Conns -> SUBSET Queues]
    BY <1>1, <1>4 DEF HandleSub, ChatTypeOK, TypeOK
  <2> QED BY <1>2, <2>1, <2>2
<1>5. ASSUME c \in clients, granted'[c] = granted[c], ~ (RelayHandles(c) /\ HandleSub(c))
      PROVE  Inbox(c) \in granted'[c]
  <2> SUFFICES phase[c] = "chatting" \/ (\E f \in Range(OnTheWay(c)) : f.type = "SUB_OK")
    BY <1>5 DEF GrantKnown
  <2>1. CASE phase'[c] = "chatting"
    BY <1>1, <1>2, <2>1, PhaseSteps, HeadIsOnTheWay
  <2>2. ASSUME NEW f \in Range(OnTheWay(c)'), f.type = "SUB_OK",
               NEW y \in Conns, RelayHandles(y)
        PROVE  f \in Range(OnTheWay(c))
    <3>1. Range(OnTheWay(c)') = Range(OnTheWay(c)) \cup Range(ToBeSent(c)')
          /\ \A g \in Range(ToBeSent(c)') : g = NoFrame \/
               \E i \in DOMAIN hub' : hub'[i].do = "send" /\ hub'[i].to = c /\ g = hub'[i].frame
      BY <1>1, <1>2, <2>2, SentIsOnTheWay
    <3>2. f # NoFrame
      BY <2>2 DEF NoFrame
    <3>3. Handle(y)
      BY <2>2 DEF RelayHandles
    <3>4. ASSUME NEW i \in DOMAIN hub', hub'[i].do = "send", hub'[i].to = c, f = hub'[i].frame
          PROVE  FALSE
      <4>1. y = c
        BY <2>2, <3>3, <3>4, HandlerSends
      <4>2. ~ HandleSub(y)
        BY <1>5, <2>2, <4>1
      <4> QED BY <2>2, <3>3, <3>4, <4>2, OnlySubIsGranted
    <3> QED BY <2>2, <3>1, <3>2, <3>4
  <2>3. ASSUME NEW f \in Range(OnTheWay(c)'), f.type = "SUB_OK",
               \A y \in Conns : ~ RelayHandles(y)
        PROVE  f \in Range(OnTheWay(c))
    BY <1>2, <2>3, WayShrinks
  <2> QED BY <2>1, <2>2, <2>3
<1> QED BY <1>2, <1>3, <1>4, <1>5, MemberSteps

\* A row that comes in belongs to the message that is handled.
LEMMA RowsSteps ==
  ASSUME ChatInv, [ChatNext]_chatVars, NEW q \in Queues, NEW row \in RowsOf(db', q)
  PROVE  \/ row \in RowsOf(db, q)
         \/ \E y \in Conns : RelayHandles(y) /\ HandleSend(y) /\ cmd[y].qid = q
<1>1. [Next]_vars /\ Typed
  BY ChatStepIsHubStep DEF ChatInv
<1>2. ASSUME NEW y \in Conns, HandleSend(y)
      PROVE  row \in RowsOf(db, q) \/ (RelayHandles(y) /\ cmd[y].qid = q)
  <2>1. RelayHandles(y)
    BY <1>2, HandledIsRelayed
  <2>2. PICK m : db'.messages
                   = db.messages \cup {[mid |-> m, qid |-> cmd[y].qid, at |-> db.arrivals]}
    BY <1>1, <1>2, SendPromises
  <2> QED BY <2>1, <2>2 DEF RowsOf
<1>3. ASSUME NEW y \in Conns, HandleAck(y)
      PROVE  row \in RowsOf(db, q)
  <2>1. db'.messages \subseteq db.messages
    BY <1>3, AckEffects
  <2> QED BY <2>1 DEF RowsOf
<1>4. CASE \A y \in Conns : ~ HandleSend(y) /\ ~ HandleAck(y)
  <2>1. db'.messages = db.messages
    BY <1>1, <1>4, OtherStepsKeepMessages
  <2> QED BY <2>1 DEF RowsOf
<1> QED BY <1>2, <1>3, <1>4

\* A message that is on the screen or on its way stays so while the
\* connection works, if nothing is dropped.
LEMMA ReachStays ==
  ASSUME ChatInv, GrantsFirst, NoDrops, [ChatNext]_chatVars,
         NEW c \in Conns, c \in clients' \ broken', NEW m \in Mids, Reaches(c, m)
  PROVE  Reaches(c, m)'
<1> DEFINE d == Deliver(Inbox(c), m)
           w == OnTheWay(c)
           v == OnTheWay(c)'
<1>1. ChatInv' /\ ChatTypeOK' /\ ChatTypeOK
  BY ChatInvNext DEF ChatInv
<1>2. d.type = "DELIVER" /\ d.mid = m /\ d # NoFrame
  BY DEF Deliver, NoFrame
<1>3. w \in Seq(Slots) /\ v \in Seq(Slots)
  BY <1>1, WayTypes, NextWayTypes
<1>4. m \in Shown(c) => m \in Shown(c)'
  BY ShownGrows
<1> SUFFICES ASSUME d \in Range(w) PROVE m \in Shown(c)' \/ d \in Range(v)
  BY <1>4 DEF Reaches
<1>5. CASE /\ Read(c) \/ Answered(c)
           /\ w # <<>> /\ Head(w) = Head(down[c]) /\ v = Tail(w)
  <2>1. Range(w) = {Head(w)} \cup Range(Tail(w))
    <3> HIDE DEF w
    <3> QED BY <1>3, <1>5, HeadRange
  <2>2. CASE d = Head(down[c]) /\ Read(c)
    <3>1. CASE m \in Shown(c)
      BY <1>4, <3>1
    <3>2. CASE m \notin Shown(c)
      <4>1. screen \in [Conns -> Seq(Mids)] /\ screen[c] \in Seq(Mids)
        BY <1>1 DEF ChatTypeOK
      <4>2. screen'[c] = Append(screen[c], m)
        BY <1>2, <2>2, <3>2, <4>1 DEF Read
      <4>3. Range(Append(screen[c], m)) = Range(screen[c]) \cup {m}
        BY <4>1, AppendRange
      <4>4. \E i \in DOMAIN screen'[c] : screen'[c][i] = m
        BY <4>2, <4>3, InRange
      <4> QED BY <4>4 DEF Shown
    <3> QED BY <3>1, <3>2
  <2>3. CASE d = Head(down[c]) /\ Answered(c)
    <3>1. phase[c] \in Early
      BY <2>3 DEF Answered, Awaits, Early
    <3>2. NothingDue(c) \/ GrantFirst(c)
      BY <3>1 DEF GrantsFirst
    <3>3. GrantFirst(c) => d.type = "SUB_OK"
      <4>1. Head(w) = w[1]
        OBVIOUS
      <4> QED BY <1>5, <2>3, <4>1 DEF GrantFirst
    <3> QED BY <1>2, <3>2, <3>3 DEF NothingDue
  <2> HIDE DEF d, w, v
  <2> QED BY <1>5, <2>1, <2>2, <2>3
<1>6. ~ End(c) /\ ~ Notice(c) /\ ~ Reset
  BY BrokenGrows DEF End, Notice, Reset
<1>7. ASSUME NEW f \in Slots, w = down[c] \o send[c] \o <<f>> \o ToBeSent(c)',
             v = down[c] \o send[c] \o ToBeSent(c)', f = NoFrame \/ Drops(c)
      PROVE  d \in Range(v)
  <2>1. f # d
    BY <1>2, <1>7 DEF NoDrops
  <2> DEFINE a == down[c] \o send[c]
             b == <<f>>
             r == ToBeSent(c)'
  <2>2. a \in Seq(Slots) /\ b \in Seq(Slots) /\ r \in Seq(Slots) /\ Range(b) = {f}
    BY <1>1, WayTypes, NextWayTypes, SingleSeq
  <2>3. w = (a \o b) \o r /\ v = a \o r
    BY <1>7
  <2> HIDE DEF a, b, r, w, v, d
  <2>4. /\ a \o b \in Seq(Slots) /\ Range(a \o b) = Range(a) \cup Range(b)
        /\ Range(a \o r) = Range(a) \cup Range(r)
    BY <2>2, RangeConcatenation, ConcatProperties
  <2> DEFINE u == a \o b
  <2>5. u \in Seq(Slots) /\ Range(u) = Range(a) \cup Range(b) /\ w = u \o r
    BY <2>3, <2>4
  <2> HIDE DEF u
  <2>6. Range(u \o r) = Range(u) \cup Range(r)
    BY <2>2, <2>5, RangeConcatenation
  <2> QED BY <2>1, <2>2, <2>3, <2>4, <2>5, <2>6
<1>8. ASSUME v = w \o ToBeSent(c)'
      PROVE  d \in Range(v)
  <2> DEFINE r == ToBeSent(c)'
  <2>1. r \in Seq(Slots) /\ v = w \o r
    BY <1>1, <1>8, NextWayTypes
  <2> HIDE DEF r, w, v, d
  <2>2. Range(w \o r) = Range(w) \cup Range(r)
    BY <1>3, <2>1, RangeConcatenation
  <2> QED BY <2>1, <2>2
<1> QED BY <1>5, <1>6, <1>7, <1>8, WaySteps

LEMMA AllReachNext ==
  ASSUME ChatInv, Exclusive, Starts, GrantsFirst, AllReach, NoDrops, [ChatNext]_chatVars,
         "undelivered" \notin Faulty
  PROVE  AllReach'
<1>1. ChatInv' /\ ChatTypeOK' /\ ChatTypeOK /\ Typed /\ clients' \subseteq Conns
  BY ChatInvNext DEF ChatInv, ChatTypeOK, TypeOK
<1> SUFFICES ASSUME NEW c \in clients' \ broken', Inbox(c) \in granted'[c],
                    NEW row \in RowsOf(db', Inbox(c))
             PROVE  Reaches(c, row.mid)'
  BY DEF AllReach
<1> DEFINE q == Inbox(c)
           d == Deliver(q, row.mid)
<1>2. c \in Conns /\ q \in Queues /\ row \in db'.messages /\ row.qid = q
  BY <1>1, ChatConstants DEF RowsOf
<1>3. CASE Dial(c) /\ reader[c] = "absent" /\ granted'[c] = granted[c]
  BY <1>2, <1>3 DEF Exclusive
<1>4. ASSUME NEW y \in Conns, RelayHandles(y),
             \E i \in DOMAIN hub' : hub'[i] = Send(c, d)
      PROVE  Reaches(c, row.mid)'
  <2>1. PICK i \in DOMAIN hub' : hub'[i] = Send(c, d)
    BY <1>4
  <2>2. hub'[i].do = "send" /\ hub'[i].to = c /\ hub'[i].frame = d
    BY <2>1 DEF Send
  <2>3. d \in Range(OnTheWay(c)')
    <3>1. d \in Range(ToBeSent(c)')
      BY <1>1, <1>2, <1>4, <2>2, SentIsOnTheWay
    <3> QED BY <1>1, <1>2, <1>4, <3>1, SentIsOnTheWay
  <2> QED BY <2>3 DEF Reaches
<1>5. CASE c \in clients /\ RelayHandles(c) /\ HandleSub(c)
  <2>1. cmd[c].qid = q /\ row \in RowsOf(db, q)
    BY <1>2, <1>5, NothingBeforeGrant DEF HandleSub
  <2>2. \E i \in DOMAIN hub' : hub'[i] = Send(c, d)
    BY <1>1, <1>2, <1>5, <2>1, SubPromises
  <2> QED BY <1>2, <1>4, <1>5, <2>2
<1>6. ASSUME c \in clients, granted'[c] = granted[c]
      PROVE  Reaches(c, row.mid)'
  <2>1. c \in clients \ broken /\ q \in granted[c]
    BY <1>6, BrokenGrows
  <2>2. CASE row \in RowsOf(db, q)
    <3>1. Reaches(c, row.mid)
      BY <2>1, <2>2 DEF AllReach
    <3>2. row.mid \in Mids
      <4>1. db'.messages \subseteq Row
        BY <1>1 DEF ChatTypeOK, TypeOK, Database
      <4> QED BY <1>2, <4>1 DEF Row
    <3> QED BY <1>2, <3>1, <3>2, ReachStays
  <2>3. ASSUME row \notin RowsOf(db, q), NEW y \in Conns, RelayHandles(y), HandleSend(y),
               cmd[y].qid = q
        PROVE  Reaches(c, row.mid)'
    <3>1. sub[q] = c /\ c \in clients
      BY <1>6, <2>1 DEF Exclusive, GrantedIsSubscriber
    <3>2. PICK m :
            /\ db'.messages = db.messages \cup {[mid |-> m, qid |-> q, at |-> db.arrivals]}
            /\ \E i \in DOMAIN hub' : hub'[i] = Send(c, Deliver(q, m))
      BY <1>1, <2>3, <3>1, SendPromises
    <3>3. row.mid = m
      BY <1>2, <2>3, <3>2 DEF RowsOf
    <3> QED BY <1>4, <2>3, <3>2, <3>3
  <2> QED BY <1>2, <2>2, <2>3, RowsSteps
<1> QED BY <1>2, <1>3, <1>5, <1>6, MemberSteps

\* Frames are dropped only when a channel is full, and the replay is left out
\* only when its query fails (replayOffline logs the error and returns).  If
\* neither happens, whoever chats over a connection that works has on the
\* screen, or is about to get, all that is stored for it: handleSub replays
\* what came before, handleSend delivers what comes later, and whoever takes
\* the queue over has broken the connection first.
THEOREM NothingIsMissed ==
  ASSUME "undelivered" \notin Faulty
  PROVE  ChatSpec /\ []NoDrops => []NothingMissed
<1>1. ChatInit => GrantKnown /\ AllReach
  BY DEF ChatInit, Init, GrantKnown, AllReach
<1>2. /\ ChatInv /\ Exclusive /\ Starts /\ GrantsFirst /\ GrantKnown /\ AllReach
      /\ NoDrops /\ [ChatNext]_chatVars
      => GrantKnown' /\ AllReach'
  BY GrantKnownNext, AllReachNext
<1>3. ASSUME ChatInv, GrantKnown, AllReach
      PROVE  NothingMissed
  <2> SUFFICES ASSUME NEW c \in clients \ broken, phase[c] = "chatting",
                      NEW row \in RowsOf(db, Inbox(c)), row.mid \notin Shown(c)
               PROVE  \E i \in DOMAIN OnTheWay(c) : OnTheWay(c)[i] = Deliver(row.qid, row.mid)
    BY DEF NothingMissed
  <2>1. Reaches(c, row.mid) /\ row.qid = Inbox(c)
    BY <1>3 DEF GrantKnown, AllReach, RowsOf
  <2> QED BY <2>1, InRange DEF Reaches
<1> QED BY <1>1, <1>2, <1>3, ChatInvAlways, ChatImplementsHub, ExclusiveAlways, StartsAlways,
           GrantsFirstAlways, PTL DEF ChatSpec

=============================================================================
