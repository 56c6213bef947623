----------------------------- MODULE ClientState -----------------------------
(***************************************************************************)
(* The client's state file (client/state.go) and the start-up that reads   *)
(* and writes it (runChat in client/session.go), for one identity and any  *)
(* number of processes that use it at the same time.                       *)
(*                                                                         *)
(* Every process loads the file, works on its copy, and renames a new file *)
(* over the old one: reading and replacing are atomic, what lies between   *)
(* is not.  The relays are reduced to the queues they hold, which stay for *)
(* ever here.  A crash, a lost connection, a failing save and /quit all    *)
(* end a process where it is.                                              *)
(***************************************************************************)
EXTENDS Naturals

CONSTANTS
  Procs,     \* running clients of one identity
  Relays,    \* relays, by host and port
  Hosts,
  HostOf,    \* the host of each relay
  Queues,
  Peers,     \* fingerprints
  Links,     \* the invite links peers hand out, good ones and broken ones
  Standing,  \* the queues each relay has in the beginning
  NoQueue, NoLink, NoRelay

ASSUME ClientStateAssumption ==
  /\ HostOf \in [Relays -> Hosts]
  /\ Links \subseteq [relay : Relays, qid : Queues, peer : Peers]
  /\ Standing \in [Relays -> SUBSET Queues]
  /\ \A l \in Links, r \in Relays : l.qid \in Standing[r] => l.relay = r
  /\ \A r, s \in Relays : r # s => Standing[r] \cap Standing[s] = {}
  /\ NoQueue \notin Queues /\ NoLink \notin Links /\ NoRelay \notin Relays

VARIABLES
  file,     \* the state file
  queues,   \* the queues of each relay
  at,       \* what each process does next
  relay,    \* the relay it has dialed
  peer,     \* the link it was given or has chosen
  mine,     \* its own queue, the outbox
  copy,     \* the state it has loaded, and changed
  base,     \* history: the state as it was loaded
  invited   \* history: the invite links printed

start == <<relay, peer>>
vars  == <<file, queues, at, start, mine, copy, base, invited>>

\* LastSeen and Alias only order and label the contacts.
State == [outbox : [Hosts -> Queues \cup {NoQueue}], contacts : [Peers -> Links \cup {NoLink}]]

\* What loadState makes of a missing file.
NewState == [outbox |-> [h \in Hosts |-> NoQueue], contacts |-> [f \in Peers |-> NoLink]]

Init ==
  /\ file = NewState /\ queues = Standing
  /\ at = [p \in Procs |-> "ended"]
  /\ relay = [p \in Procs |-> NoRelay]
  /\ peer = [p \in Procs |-> NoLink]
  /\ mine = [p \in Procs |-> NoQueue]
  /\ copy = [p \in Procs |-> NewState]
  /\ base = [p \in Procs |-> NewState]
  /\ invited = {}

Step(p, from, to) == at[p] = from /\ at' = [at EXCEPT ![p] = to]

\* The state a process has loaded, and what it is about to save.
Load(p, changed) ==
  /\ base' = [base EXCEPT ![p] = file]
  /\ copy' = [copy EXCEPT ![p] = changed]

WithOutbox(s, h, q) == [s EXCEPT !.outbox[h] = q]

WithContact(s, l) == [s EXCEPT !.contacts[l.peer] = l]

----------------------------------------------------------------------------
(* Start-up, in the order of runChat. *)

\* The relay comes from the peer's link, or from -server or the default.
DialAddress(link, server) == IF link = NoLink THEN server ELSE link.relay

Dial(p, link, server) ==
  /\ Step(p, "ended", "deciding")
  /\ relay' = [relay EXCEPT ![p] = DialAddress(link, server)]
  /\ peer' = [peer EXCEPT ![p] = link]
  /\ mine' = [mine EXCEPT ![p] = NoQueue]
  /\ UNCHANGED <<file, queues, copy, base, invited>>

\* Mutant: one entry whatever the server.
SingleSlot(p) == CHOOSE h \in Hosts : p \in Procs

\* The key of the outbox: the host without the port.
Key(p) == HostOf[relay[p]]

\* Mutant: the file is not asked.
NeverRemembered(p) == CHOOSE q \in {NoQueue} : p \in Procs

Remembered(p) == file.outbox[Key(p)]

\* -queue names a queue the user was once given on that relay; the file
\* remembers it from now on.
UseQueue(p, q) ==
  /\ Step(p, "deciding", IF Remembered(p) = q THEN "inviting" ELSE "keeping")
  /\ [relay |-> relay[p], qid |-> q] \in invited
  /\ mine' = [mine EXCEPT ![p] = q]
  /\ Load(p, WithOutbox(file, Key(p), q))
  /\ UNCHANGED <<file, queues, start, invited>>

Reuse(p) ==
  /\ Step(p, "deciding", "inviting")
  /\ Remembered(p) # NoQueue
  /\ mine' = [mine EXCEPT ![p] = Remembered(p)]
  /\ Load(p, file)
  /\ UNCHANGED <<file, queues, start, invited>>

\* Nothing is remembered: the loaded state waits for the answer to NEW.
AskForQueue(p) ==
  /\ Step(p, "deciding", "asking")
  /\ Remembered(p) = NoQueue
  /\ Load(p, file)
  /\ UNCHANGED <<file, queues, start, mine, invited>>

\* NEW_OK: the queue goes into the state that was loaded before the NEW.
ReceiveQueue(p, q) ==
  /\ Step(p, "asking", "keeping")
  /\ \A r \in Relays : q \notin queues[r]
  /\ \A l \in Links : l.qid # q
  /\ queues' = [queues EXCEPT ![relay[p]] = @ \cup {q}]
  /\ mine' = [mine EXCEPT ![p] = q]
  /\ copy' = [copy EXCEPT ![p] = WithOutbox(@, Key(p), q)]
  /\ UNCHANGED <<file, start, base, invited>>

\* saveState replaces the file by the copy.
KeepQueue(p) ==
  /\ Step(p, "keeping", "inviting")
  /\ file' = copy[p]
  /\ UNCHANGED <<queues, start, mine, copy, base, invited>>

\* The invite is printed; without a link the contacts are loaded next.
PrintInvite(p) ==
  /\ Step(p, "inviting", IF peer[p] = NoLink THEN "choosing" ELSE "subscribing")
  /\ invited' = invited \cup {[relay |-> relay[p], qid |-> mine[p]]}
  /\ Load(p, file)
  /\ UNCHANGED <<file, queues, start, mine>>

\* The user picks a contact or pastes a link; the connection stays.
Choose(p, link) ==
  /\ Step(p, "choosing", "subscribing")
  /\ peer' = [peer EXCEPT ![p] = link]
  /\ UNCHANGED <<file, queues, relay, mine, copy, base, invited>>

ChooseContact(p) ==
  \E f \in Peers : copy[p].contacts[f] # NoLink /\ Choose(p, copy[p].contacts[f])

PasteLink(p) == \E l \in Links : Choose(p, l)

\* Mutant: a contact is entered before the relay has answered.
AnyAnswer(p) == peer[p] \in Links

\* SUB_OK: the relay that was dialed has the peer's queue.
Granted(p) == peer[p].qid \in queues[relay[p]]

Subscribe(p) ==
  /\ Step(p, "subscribing", "entering")
  /\ Granted(p)
  /\ Load(p, WithContact(file, peer[p]))
  /\ UNCHANGED <<file, queues, start, mine, invited>>

\* upsertContact saves, and the chat begins.
EnterContact(p) ==
  /\ Step(p, "entering", "chatting")
  /\ file' = copy[p]
  /\ UNCHANGED <<queues, start, mine, copy, base, invited>>

\* The end: /quit, a refused SUB, any error, or the process is killed.
End(p) ==
  /\ at[p] # "ended"
  /\ at' = [at EXCEPT ![p] = "ended"]
  /\ UNCHANGED <<file, queues, start, mine, copy, base, invited>>

Next ==
  \E p \in Procs :
    \/ \E l \in Links \cup {NoLink}, r \in Relays : Dial(p, l, r)
    \/ \E q \in Queues : UseQueue(p, q) \/ ReceiveQueue(p, q)
    \/ Reuse(p) \/ AskForQueue(p) \/ KeepQueue(p) \/ PrintInvite(p)
    \/ ChooseContact(p) \/ PasteLink(p)
    \/ Subscribe(p) \/ EnterContact(p) \/ End(p)

Spec == Init /\ [][Next]_vars

----------------------------------------------------------------------------
(* Properties. *)

\* The types of the variables; a process that is past the dialing has a
\* relay, one that is past the choosing a link, one past the deciding a queue.
TypeOK ==
  /\ file \in State /\ queues \in [Relays -> SUBSET Queues]
  /\ at \in [Procs -> {"ended", "deciding", "asking", "keeping", "inviting",
                       "choosing", "subscribing", "entering", "chatting"}]
  /\ relay \in [Procs -> Relays \cup {NoRelay}]
  /\ peer \in [Procs -> Links \cup {NoLink}]
  /\ mine \in [Procs -> Queues \cup {NoQueue}]
  /\ copy \in [Procs -> State] /\ base \in [Procs -> State]
  /\ invited \subseteq [relay : Relays, qid : Queues]
  /\ \A p \in Procs :
       /\ at[p] # "ended" => relay[p] \in Relays
       /\ at[p] \in {"keeping", "inviting"} => mine[p] \in Queues
       /\ at[p] \in {"subscribing", "entering"} => peer[p] \in Links

\* Only peers who could be subscribed to are in the contacts: a broken link
\* never gets there, whatever other processes save (session.go:247).
ContactsAnswered ==
  \A f \in Peers : file.contacts[f] # NoLink =>
    LET l == file.contacts[f] IN l.qid \in queues[l.relay]

\* An invite that was printed names a queue on the relay it names.  With one
\* relay per host, no exchange of copies mixes up the outboxes.
InvitesLive == \A i \in invited : i.qid \in queues[i.relay]

\* The queue remembered for a host changes only by -queue, or because some
\* process saves a state that was overtaken since it was loaded.
OutboxOvertaken ==
  [][\A h \in Hosts :
       file.outbox[h] # NoQueue /\ file'.outbox[h] # file.outbox[h] =>
         \E p \in Procs :
           /\ at[p] \in {"keeping", "entering"} /\ file' = copy[p]
           /\ base[p] # file \/ \E i \in invited : i.qid = mine[p]]_vars

----------------------------------------------------------------------------
(* What the repository says and the code does not do. *)

\* The relay in the peer's link is the one both sides use (session.go:235).
PeersRelayIsUsed ==
  \A p \in Procs : at[p] = "subscribing" => relay[p] = peer[p].relay

=============================================================================
