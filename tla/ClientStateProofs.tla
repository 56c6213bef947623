-------------------------- MODULE ClientStateProofs --------------------------
(* What holds of the state file for any number of processes, relays, queues *)
(* and links.                                                               *)
EXTENDS ClientState, TLAPS

----------------------------------------------------------------------------
(* States of the file. *)

LEMMA ChangedStateTypes ==
  ASSUME NEW s \in State
  PROVE  /\ \A h \in Hosts, q \in Queues : WithOutbox(s, h, q) \in State
         /\ \A l \in Links : WithContact(s, l) \in State
<1>1. \A h \in Hosts, q \in Queues : WithOutbox(s, h, q) \in State
  BY DEF WithOutbox, State
<1>2. \A l \in Links : WithContact(s, l) \in State
  BY ClientStateAssumption DEF WithContact, State
<1> QED BY <1>1, <1>2

LEMMA KeyType ==
  ASSUME NEW p \in Procs, relay[p] \in Relays
  PROVE  Key(p) \in Hosts
BY ClientStateAssumption DEF Key

\* What a change leaves of the entries.
LEMMA ChangeEffects ==
  ASSUME NEW s \in State
  PROVE  /\ \A h \in Hosts, q \in Queues :
              /\ WithOutbox(s, h, q).contacts = s.contacts
              /\ \A g \in Hosts : WithOutbox(s, h, q).outbox[g] \in {s.outbox[g], q}
              /\ \A g \in Hosts : g # h => WithOutbox(s, h, q).outbox[g] = s.outbox[g]
         /\ \A l \in Links :
              /\ WithContact(s, l).outbox = s.outbox
              /\ \A f \in Peers : WithContact(s, l).contacts[f] \in {s.contacts[f], l}
<1>1. \A h \in Hosts, q \in Queues :
        /\ WithOutbox(s, h, q).contacts = s.contacts
        /\ \A g \in Hosts : WithOutbox(s, h, q).outbox[g] \in {s.outbox[g], q}
        /\ \A g \in Hosts : g # h => WithOutbox(s, h, q).outbox[g] = s.outbox[g]
  BY DEF WithOutbox, State
<1>2. \A l \in Links :
        /\ WithContact(s, l).outbox = s.outbox
        /\ \A f \in Peers : WithContact(s, l).contacts[f] \in {s.contacts[f], l}
  BY DEF WithContact, State
<1> QED BY <1>1, <1>2

----------------------------------------------------------------------------
(* Types. *)

LEMMA TypeInit == Init => TypeOK
BY ClientStateAssumption DEF Init, TypeOK, NewState, State

LEMMA TypeNext == TypeOK /\ [Next]_vars => TypeOK'
<1> SUFFICES ASSUME TypeOK, [Next]_vars PROVE TypeOK'
  OBVIOUS
<1>1. CASE UNCHANGED vars
  BY <1>1 DEF vars, start, TypeOK
<1>2. ASSUME NEW p \in Procs, NEW l \in Links \cup {NoLink}, NEW r \in Relays,
             Dial(p, l, r)
      PROVE  TypeOK'
  <2>1. DialAddress(l, r) \in Relays
    BY ClientStateAssumption DEF DialAddress
  <2> QED BY <1>2, <2>1 DEF Dial, Step, TypeOK
<1>3. ASSUME NEW p \in Procs, NEW q \in Queues, UseQueue(p, q) PROVE TypeOK'
  <2>1. relay[p] \in Relays /\ Key(p) \in Hosts
    BY <1>3, KeyType DEF UseQueue, Step, TypeOK
  <2>2. WithOutbox(file, Key(p), q) \in State
    BY <2>1, ChangedStateTypes DEF TypeOK
  <2> QED BY <1>3, <2>1, <2>2 DEF UseQueue, Step, Load, start, TypeOK
<1>4. ASSUME NEW p \in Procs, NEW q \in Queues, ReceiveQueue(p, q) PROVE TypeOK'
  <2>1. relay[p] \in Relays /\ Key(p) \in Hosts
    BY <1>4, KeyType DEF ReceiveQueue, Step, TypeOK
  <2>2. WithOutbox(copy[p], Key(p), q) \in State
    BY <2>1, ChangedStateTypes DEF TypeOK
  <2> QED BY <1>4, <2>1, <2>2 DEF ReceiveQueue, Step, start, TypeOK
<1>5. ASSUME NEW p \in Procs, Reuse(p) PROVE TypeOK'
  <2>1. relay[p] \in Relays /\ Key(p) \in Hosts
    BY <1>5, KeyType DEF Reuse, Step, TypeOK
  <2>2. Remembered(p) \in Queues
    BY <1>5, <2>1 DEF Reuse, Remembered, TypeOK, State
  <2> QED BY <1>5, <2>1, <2>2 DEF Reuse, Step, Load, start, TypeOK
<1>6. ASSUME NEW p \in Procs, AskForQueue(p) PROVE TypeOK'
  BY <1>6 DEF AskForQueue, Step, Load, start, TypeOK
<1>7. ASSUME NEW p \in Procs, KeepQueue(p) PROVE TypeOK'
  BY <1>7 DEF KeepQueue, Step, start, TypeOK
<1>8. ASSUME NEW p \in Procs, PrintInvite(p) PROVE TypeOK'
  <2>1. [relay |-> relay[p], qid |-> mine[p]] \in [relay : Relays, qid : Queues]
    BY <1>8 DEF PrintInvite, Step, TypeOK
  <2>2. peer[p] # NoLink => peer[p] \in Links
    BY DEF TypeOK
  <2> QED BY <1>8, <2>1, <2>2 DEF PrintInvite, Step, Load, start, TypeOK
<1>9. ASSUME NEW p \in Procs, NEW l \in Links, Choose(p, l) PROVE TypeOK'
  BY <1>9 DEF Choose, Step, TypeOK
<1>10. ASSUME NEW p \in Procs, Subscribe(p) PROVE TypeOK'
  <2>1. WithContact(file, peer[p]) \in State
    BY <1>10, ChangedStateTypes DEF Subscribe, Step, TypeOK
  <2> QED BY <1>10, <2>1 DEF Subscribe, Step, Load, start, TypeOK
<1>11. ASSUME NEW p \in Procs, EnterContact(p) PROVE TypeOK'
  BY <1>11 DEF EnterContact, Step, start, TypeOK
<1>12. ASSUME NEW p \in Procs, End(p) PROVE TypeOK'
  BY <1>12 DEF End, start, TypeOK
<1>13. ASSUME NEW p \in Procs, ChooseContact(p) PROVE TypeOK'
  <2>1. PICK f \in Peers : copy[p].contacts[f] # NoLink /\ Choose(p, copy[p].contacts[f])
    BY <1>13 DEF ChooseContact
  <2>2. copy[p].contacts[f] \in Links
    BY <2>1 DEF TypeOK, State
  <2> QED BY <1>9, <2>1, <2>2
<1> QED
  BY <1>1, <1>2, <1>3, <1>4, <1>5, <1>6, <1>7, <1>8, <1>9, <1>10, <1>11, <1>12,
     <1>13 DEF Next, PasteLink

\* The state file and what processes make of it keep their types (state.go:25).
THEOREM StateTypeCorrect == Spec => []TypeOK
BY TypeInit, TypeNext, PTL DEF Spec

----------------------------------------------------------------------------
(* Contacts.  A copy is saved long after it was made, so the invariant is    *)
(* about the copies as much as about the file; and a SUB that is granted     *)
(* tells that the link is good only because a peer's queue id is found       *)
(* nowhere but on the relay the link names.                                  *)

Answered(s, held) ==
  \A f \in Peers : s.contacts[f] # NoLink =>
    s.contacts[f].qid \in held[s.contacts[f].relay]

Contacts ==
  /\ Answered(file, queues)
  /\ \A p \in Procs : Answered(copy[p], queues)
  /\ \A l \in Links, r \in Relays : l.qid \in queues[r] => l.relay = r

LEMMA ContactsInit == Init => Contacts
BY ClientStateAssumption DEF Init, Contacts, Answered, NewState

\* Steps that add nothing but queues, and copies of good states.
LEMMA ContactsFrame ==
  ASSUME TypeOK, Contacts,
         Answered(file', queues),
         \A p \in Procs : Answered(copy'[p], queues),
         \/ queues' = queues
         \/ \E r \in Relays, q \in Queues :
              /\ queues' = [queues EXCEPT ![r] = @ \cup {q}]
              /\ \A l \in Links : l.qid # q,
         file' \in State, copy' \in [Procs -> State]
  PROVE  Contacts'
<1>1. \A r \in Relays : queues[r] \subseteq queues'[r]
  BY DEF TypeOK
<1>2. \A s \in State : Answered(s, queues) => Answered(s, queues')
  <2> SUFFICES ASSUME NEW s \in State, Answered(s, queues), NEW f \in Peers,
                      s.contacts[f] # NoLink
               PROVE  s.contacts[f].qid \in queues'[s.contacts[f].relay]
    BY DEF Answered
  <2>1. s.contacts[f] \in Links
    BY DEF State
  <2>2. s.contacts[f].relay \in Relays
    BY <2>1, ClientStateAssumption
  <2> QED BY <1>1, <2>2 DEF Answered
<1>3. \A l \in Links, r \in Relays : l.qid \in queues'[r] => l.relay = r
  BY DEF TypeOK, Contacts
<1> QED BY <1>2, <1>3 DEF Contacts

LEMMA ContactsNext == TypeOK /\ TypeOK' /\ Contacts /\ [Next]_vars => Contacts'
<1> SUFFICES ASSUME TypeOK, TypeOK', Contacts, [Next]_vars PROVE Contacts'
  OBVIOUS
<1>0. /\ file \in State /\ copy \in [Procs -> State]
      /\ file' \in State /\ copy' \in [Procs -> State]
      /\ Answered(file, queues) /\ \A p \in Procs : Answered(copy[p], queues)
  BY DEF TypeOK, Contacts
<1>1. ASSUME UNCHANGED <<file, queues, copy>> PROVE Contacts'
  BY <1>0, <1>1, ContactsFrame
<1>2. ASSUME NEW p \in Procs, NEW s \in State, Answered(s, queues), Load(p, s),
             UNCHANGED <<file, queues>>
      PROVE  Contacts'
  <2>1. \A o \in Procs : Answered(copy'[o], queues)
    BY <1>0, <1>2 DEF Load
  <2> QED BY <1>0, <1>2, <2>1, ContactsFrame
<1>3. ASSUME NEW p \in Procs, file' = copy[p], UNCHANGED <<queues, copy>>
      PROVE  Contacts'
  BY <1>0, <1>3, ContactsFrame
<1>4. ASSUME NEW p \in Procs, NEW q \in Queues, UseQueue(p, q) PROVE Contacts'
  <2>1. Key(p) \in Hosts
    BY <1>4, KeyType DEF UseQueue, Step, TypeOK
  <2>2. /\ WithOutbox(file, Key(p), q) \in State
        /\ Answered(WithOutbox(file, Key(p), q), queues)
    BY <1>0, <2>1, ChangedStateTypes, ChangeEffects DEF Answered
  <2> QED BY <1>2, <1>4, <2>2 DEF UseQueue
<1>5. ASSUME NEW p \in Procs, NEW q \in Queues, ReceiveQueue(p, q) PROVE Contacts'
  <2>1. relay[p] \in Relays /\ Key(p) \in Hosts
    BY <1>5, KeyType DEF ReceiveQueue, Step, TypeOK
  <2>2. Answered(WithOutbox(copy[p], Key(p), q), queues)
    BY <1>0, <2>1, ChangeEffects DEF Answered
  <2>3. \A o \in Procs : Answered(copy'[o], queues)
    BY <1>0, <1>5, <2>2 DEF ReceiveQueue
  <2> QED BY <1>0, <1>5, <2>1, <2>3, ContactsFrame DEF ReceiveQueue
<1>6. ASSUME NEW p \in Procs, Subscribe(p) PROVE Contacts'
  <2>1. relay[p] \in Relays /\ peer[p] \in Links
    BY <1>6 DEF Subscribe, Step, TypeOK
  <2>2. peer[p].qid \in queues[peer[p].relay]
    BY <1>6, <2>1 DEF Subscribe, Granted, Contacts
  <2>3. /\ WithContact(file, peer[p]) \in State
        /\ Answered(WithContact(file, peer[p]), queues)
    BY <1>0, <2>1, <2>2, ChangedStateTypes, ChangeEffects DEF Answered
  <2> QED BY <1>2, <1>6, <2>3 DEF Subscribe
<1>7. ASSUME NEW p \in Procs, Reuse(p) \/ AskForQueue(p) \/ PrintInvite(p)
      PROVE  Contacts'
  BY <1>0, <1>2, <1>7 DEF Reuse, AskForQueue, PrintInvite
<1>8. ASSUME NEW p \in Procs, KeepQueue(p) \/ EnterContact(p) PROVE Contacts'
  BY <1>3, <1>8 DEF KeepQueue, EnterContact
<1>9. CASE \/ \E p \in Procs, l \in Links \cup {NoLink}, r \in Relays : Dial(p, l, r)
           \/ \E p \in Procs : ChooseContact(p) \/ PasteLink(p) \/ End(p)
           \/ UNCHANGED vars
  BY <1>1, <1>9 DEF Dial, ChooseContact, PasteLink, Choose, End, vars
<1> QED
  BY <1>4, <1>5, <1>6, <1>7, <1>8, <1>9 DEF Next

\* No process and no order of saves brings a broken link into the contacts
\* (session.go:247).
THEOREM OnlyGoodContacts == Spec => []ContactsAnswered
<1>1. Contacts => ContactsAnswered
  BY DEF Contacts, Answered, ContactsAnswered
<1> QED BY <1>1, TypeInit, TypeNext, ContactsInit, ContactsNext, PTL DEF Spec

----------------------------------------------------------------------------
(* Outboxes.  What is remembered for a host is a queue of the one relay      *)
(* there, in the file and in every copy.                                     *)

OneRelayPerHost == \A r, s \in Relays : HostOf[r] = HostOf[s] => r = s

Homed(s, held) ==
  \A r \in Relays : s.outbox[HostOf[r]] # NoQueue => s.outbox[HostOf[r]] \in held[r]

Outboxes ==
  /\ Homed(file, queues)
  /\ \A p \in Procs : Homed(copy[p], queues)
  /\ \A p \in Procs : at[p] \in {"keeping", "inviting"} => mine[p] \in queues[relay[p]]
  /\ InvitesLive

LEMMA OutboxesInit == Init => Outboxes
BY ClientStateAssumption DEF Init, Outboxes, Homed, InvitesLive, NewState

\* What is homed stays so when the relays get more queues.
LEMMA HomedGrows ==
  ASSUME NEW s \in State, TypeOK, Homed(s, queues),
         \A r \in Relays : queues[r] \subseteq queues'[r]
  PROVE  Homed(s, queues')
BY DEF Homed

\* An entry for a queue of the relay at hand keeps a state homed.
LEMMA HomedEntry ==
  ASSUME NEW s \in State, NEW r \in Relays, NEW q \in Queues, NEW held,
         OneRelayPerHost, Homed(s, held), q \in held[r]
  PROVE  Homed(WithOutbox(s, HostOf[r], q), held)
<1> SUFFICES ASSUME NEW o \in Relays,
                    WithOutbox(s, HostOf[r], q).outbox[HostOf[o]] # NoQueue
             PROVE  WithOutbox(s, HostOf[r], q).outbox[HostOf[o]] \in held[o]
  BY DEF Homed
<1>1. HostOf[r] \in Hosts /\ HostOf[o] \in Hosts
  BY ClientStateAssumption
<1>2. CASE o = r
  BY <1>1, <1>2 DEF WithOutbox, State
<1>3. CASE o # r
  <2>1. HostOf[o] # HostOf[r]
    BY <1>3 DEF OneRelayPerHost
  <2>2. WithOutbox(s, HostOf[r], q).outbox[HostOf[o]] = s.outbox[HostOf[o]]
    BY <1>1, <2>1, ChangeEffects
  <2> QED BY <2>2 DEF Homed
<1> QED BY <1>2, <1>3

LEMMA HomedContact ==
  ASSUME NEW s \in State, NEW l \in Links, NEW held, Homed(s, held)
  PROVE  Homed(WithContact(s, l), held)
BY ChangeEffects DEF Homed

\* The invariant, action by action, for a process that ...
LEMMA OutboxesNext ==
  ASSUME OneRelayPerHost, TypeOK, Outboxes, [Next]_vars
  PROVE  Outboxes'
<1>0. /\ file \in State /\ copy \in [Procs -> State]
      /\ queues \in [Relays -> SUBSET Queues] /\ invited \subseteq [relay : Relays, qid : Queues]
      /\ at \in [Procs -> {"ended", "deciding", "asking", "keeping", "inviting",
                           "choosing", "subscribing", "entering", "chatting"}]
      /\ mine \in [Procs -> Queues \cup {NoQueue}]
      /\ Homed(file, queues) /\ \A p \in Procs : Homed(copy[p], queues)
  BY DEF TypeOK, Outboxes
\* ... does not ask for, use, or print a queue
<1>1. ASSUME NEW p \in Procs, NEW to \in {"deciding", "asking", "choosing",
               "subscribing", "entering", "chatting", "ended"},
             at' = [at EXCEPT ![p] = to],
             \A o \in Procs \ {p} : mine'[o] = mine[o] /\ relay'[o] = relay[o],
             UNCHANGED <<queues, invited>>,
             Homed(file', queues), \A o \in Procs : Homed(copy'[o], queues)
      PROVE  Outboxes'
  <2>1. \A o \in Procs : at'[o] \in {"keeping", "inviting"} =>
          o # p /\ at[o] \in {"keeping", "inviting"}
    BY <1>0, <1>1
  <2> QED BY <1>1, <2>1 DEF Outboxes, InvitesLive
<1>2. ASSUME NEW p \in Procs, NEW s, Homed(s, queues), Load(p, s)
      PROVE  \A o \in Procs : Homed(copy'[o], queues)
  BY <1>0, <1>2 DEF Load
\* ... comes to a queue, or keeps it
<1>3. ASSUME NEW p \in Procs, NEW to \in {"keeping", "inviting"},
             at' = [at EXCEPT ![p] = to], mine'[p] \in queues[relay[p]],
             \A o \in Procs \ {p} : mine'[o] = mine[o],
             UNCHANGED <<queues, relay, invited>>,
             Homed(file', queues), \A o \in Procs : Homed(copy'[o], queues)
      PROVE  Outboxes'
  <2>1. \A o \in Procs \ {p} : at'[o] = at[o]
    BY <1>0, <1>3
  <2> QED BY <1>3, <2>1 DEF Outboxes, InvitesLive
<1>4. CASE \E p \in Procs, l \in Links \cup {NoLink}, r \in Relays : Dial(p, l, r)
  <2>1. PICK p \in Procs, l \in Links \cup {NoLink}, r \in Relays : Dial(p, l, r)
    BY <1>4
  <2>2. \A o \in Procs \ {p} : mine'[o] = mine[o] /\ relay'[o] = relay[o]
    BY <2>1 DEF Dial, TypeOK
  <2> QED BY <1>0, <1>1, <2>1, <2>2 DEF Dial, Step
<1>5. ASSUME NEW p \in Procs, NEW q \in Queues, UseQueue(p, q) PROVE Outboxes'
  <2>1. relay[p] \in Relays /\ q \in queues[relay[p]]
    BY <1>5 DEF UseQueue, Step, TypeOK, Outboxes, InvitesLive
  <2>2. Homed(WithOutbox(file, Key(p), q), queues)
    BY <1>0, <2>1, HomedEntry DEF Key
  <2>3. \A o \in Procs : Homed(copy'[o], queues)
    BY <1>2, <1>5, <2>2 DEF UseQueue
  <2>4. mine'[p] = q /\ \A o \in Procs \ {p} : mine'[o] = mine[o]
    BY <1>0, <1>5 DEF UseQueue
  <2> QED BY <1>0, <1>3, <1>5, <2>1, <2>3, <2>4 DEF UseQueue, Step, start
<1>6. ASSUME NEW p \in Procs, Reuse(p) PROVE Outboxes'
  <2>1. relay[p] \in Relays /\ Remembered(p) \in queues[relay[p]]
    BY <1>0, <1>6 DEF Reuse, Step, TypeOK, Remembered, Key, Homed
  <2>2. \A o \in Procs : Homed(copy'[o], queues)
    BY <1>0, <1>2, <1>6 DEF Reuse
  <2>3. mine'[p] = Remembered(p) /\ \A o \in Procs \ {p} : mine'[o] = mine[o]
    BY <1>0, <1>6 DEF Reuse
  <2> QED BY <1>0, <1>3, <1>6, <2>1, <2>2, <2>3 DEF Reuse, Step, start
<1>7. ASSUME NEW p \in Procs, AskForQueue(p) PROVE Outboxes'
  <2>1. \A o \in Procs : Homed(copy'[o], queues)
    BY <1>0, <1>2, <1>7 DEF AskForQueue
  <2> QED BY <1>0, <1>1, <1>7, <2>1 DEF AskForQueue, Step, start
<1>8. ASSUME NEW p \in Procs, NEW q \in Queues, ReceiveQueue(p, q) PROVE Outboxes'
  <2>1. relay[p] \in Relays
    BY <1>8 DEF ReceiveQueue, Step, TypeOK
  <2>2. /\ \A r \in Relays : queues[r] \subseteq queues'[r]
        /\ q \in queues'[relay[p]]
    BY <1>0, <1>8, <2>1 DEF ReceiveQueue
  <2>3. Homed(file, queues') /\ \A o \in Procs : Homed(copy[o], queues')
    BY <1>0, <2>2, HomedGrows
  <2>4. Homed(WithOutbox(copy[p], Key(p), q), queues')
    BY <1>0, <2>1, <2>2, <2>3, HomedEntry DEF Key
  <2>5. \A o \in Procs : Homed(copy'[o], queues')
    BY <1>0, <1>8, <2>3, <2>4 DEF ReceiveQueue
  <2>6. \A o \in Procs : at'[o] \in {"keeping", "inviting"} => mine'[o] \in queues'[relay'[o]]
    <3> SUFFICES ASSUME NEW o \in Procs, at'[o] \in {"keeping", "inviting"}
                 PROVE  mine'[o] \in queues'[relay'[o]]
      OBVIOUS
    <3>1. CASE o = p
      BY <1>0, <1>8, <2>2, <3>1 DEF ReceiveQueue, start
    <3>2. CASE o # p
      <4>1. at[o] \in {"keeping", "inviting"} /\ mine'[o] = mine[o] /\ relay'[o] = relay[o]
        BY <1>0, <1>8, <3>2 DEF ReceiveQueue, Step, start
      <4>2. relay[o] \in Relays /\ mine[o] \in queues[relay[o]]
        BY <4>1 DEF TypeOK, Outboxes
      <4> QED BY <2>2, <4>1, <4>2
    <3> QED BY <3>1, <3>2
  <2>7. InvitesLive'
    BY <1>0, <1>8, <2>2 DEF ReceiveQueue, Outboxes, InvitesLive
  <2> QED BY <1>8, <2>3, <2>5, <2>6, <2>7 DEF ReceiveQueue, Outboxes
<1>9. ASSUME NEW p \in Procs, KeepQueue(p) PROVE Outboxes'
  <2>1. mine[p] \in queues[relay[p]]
    BY <1>9 DEF KeepQueue, Step, Outboxes
  <2> QED BY <1>0, <1>3, <1>9, <2>1 DEF KeepQueue, Step, start
<1>10. ASSUME NEW p \in Procs, PrintInvite(p) PROVE Outboxes'
  <2>1. mine[p] \in queues[relay[p]]
    BY <1>10 DEF PrintInvite, Step, Outboxes
  <2>2. \A o \in Procs : Homed(copy'[o], queues)
    BY <1>0, <1>2, <1>10 DEF PrintInvite
  <2>3. \A o \in Procs : at'[o] \in {"keeping", "inviting"} => at[o] \in {"keeping", "inviting"}
    BY <1>0, <1>10 DEF PrintInvite, Step
  <2>4. InvitesLive'
    BY <1>10, <2>1 DEF PrintInvite, Outboxes, InvitesLive
  <2> QED BY <1>0, <1>10, <2>2, <2>3, <2>4 DEF PrintInvite, Outboxes, start
<1>11. ASSUME NEW p \in Procs, NEW l, Choose(p, l) PROVE Outboxes'
  BY <1>0, <1>1, <1>11 DEF Choose, Step
<1>12. ASSUME NEW p \in Procs, Subscribe(p) PROVE Outboxes'
  <2>1. peer[p] \in Links
    BY <1>12 DEF Subscribe, Step, TypeOK
  <2>2. \A o \in Procs : Homed(copy'[o], queues)
    BY <1>0, <1>2, <1>12, <2>1, HomedContact DEF Subscribe
  <2> QED BY <1>0, <1>1, <1>12, <2>2 DEF Subscribe, Step, start
<1>13. ASSUME NEW p \in Procs, EnterContact(p) PROVE Outboxes'
  BY <1>0, <1>1, <1>13 DEF EnterContact, Step, start
<1>14. ASSUME NEW p \in Procs, End(p) PROVE Outboxes'
  BY <1>0, <1>1, <1>14 DEF End, start
<1>15. CASE UNCHANGED vars
  BY <1>15 DEF vars, start, Outboxes, InvitesLive
<1> QED
  BY <1>4, <1>5, <1>6, <1>7, <1>8, <1>9, <1>10, <1>11, <1>12, <1>13, <1>14, <1>15
  DEF Next, ChooseContact, PasteLink

\* With one relay per host, no exchange of copies between processes makes an
\* invite name a relay that lacks the queue (session.go:164, state.go:25).
THEOREM PrintedInvitesLive ==
  ASSUME OneRelayPerHost
  PROVE  Spec => []InvitesLive
<1>1. TypeOK /\ Outboxes /\ [Next]_vars => Outboxes'
  BY OutboxesNext
<1>2. Outboxes => InvitesLive
  BY DEF Outboxes
<1> QED BY <1>1, <1>2, TypeInit, TypeNext, OutboxesInit, PTL DEF Spec

----------------------------------------------------------------------------
(* Saves that are overtaken.  What a copy changes of the outboxes it was      *)
(* loaded with: nothing while a contact is entered, and otherwise the entry   *)
(* of the dialed host, which was empty unless the user named the queue.       *)

NamedByUser(p) == \E i \in invited : i.qid = mine[p]

FillsItsEntry(p) ==
  /\ base[p].outbox[Key(p)] = NoQueue
  /\ \A h \in Hosts : h # Key(p) => copy[p].outbox[h] = base[p].outbox[h]

Copies ==
  \A p \in Procs :
    /\ at[p] = "asking" => FillsItsEntry(p)
    /\ at[p] = "keeping" => FillsItsEntry(p) \/ NamedByUser(p)
    /\ at[p] = "entering" => copy[p].outbox = base[p].outbox

LEMMA CopiesInit == Init => Copies
BY DEF Init, Copies

\* A process that steps leaves what the others remember alone.
LEMMA OthersKeepCopies ==
  ASSUME Copies, NEW p \in Procs, NEW o \in Procs \ {p}, at'[o] = at[o],
         relay'[o] = relay[o], mine'[o] = mine[o], copy'[o] = copy[o],
         base'[o] = base[o], invited \subseteq invited'
  PROVE  /\ at'[o] = "asking" => FillsItsEntry(o)'
         /\ at'[o] = "keeping" => FillsItsEntry(o)' \/ NamedByUser(o)'
         /\ at'[o] = "entering" => copy'[o].outbox = base'[o].outbox
<1>1. Key(o)' = Key(o)
  BY DEF Key
<1>2. FillsItsEntry(o) => FillsItsEntry(o)'
  BY <1>1 DEF FillsItsEntry
<1>3. NamedByUser(o) => NamedByUser(o)'
  BY DEF NamedByUser
<1> QED BY <1>2, <1>3 DEF Copies

LEMMA CopiesNext == TypeOK /\ TypeOK' /\ Copies /\ [Next]_vars => Copies'
<1> SUFFICES ASSUME TypeOK, TypeOK', Copies, [Next]_vars PROVE Copies'
  OBVIOUS
<1>0. /\ at \in [Procs -> {"ended", "deciding", "asking", "keeping", "inviting",
                           "choosing", "subscribing", "entering", "chatting"}]
      /\ relay \in [Procs -> Relays \cup {NoRelay}]
      /\ mine \in [Procs -> Queues \cup {NoQueue}]
      /\ copy \in [Procs -> State] /\ base \in [Procs -> State] /\ file \in State
  BY DEF TypeOK
<1>1. CASE UNCHANGED vars
  BY <1>1 DEF vars, start, Copies, FillsItsEntry, NamedByUser, Key
\* A process that steps, and what has to be shown of it.
<1>2. ASSUME NEW p \in Procs,
             \A o \in Procs \ {p} :
               /\ at'[o] = at[o] /\ relay'[o] = relay[o] /\ mine'[o] = mine[o]
               /\ copy'[o] = copy[o] /\ base'[o] = base[o],
             invited \subseteq invited',
             at'[p] = "asking" => FillsItsEntry(p)',
             at'[p] = "keeping" => FillsItsEntry(p)' \/ NamedByUser(p)',
             at'[p] = "entering" => copy'[p].outbox = base'[p].outbox
      PROVE  Copies'
  <2>1. ASSUME NEW o \in Procs \ {p}
        PROVE  /\ at'[o] = "asking" => FillsItsEntry(o)'
               /\ at'[o] = "keeping" => FillsItsEntry(o)' \/ NamedByUser(o)'
               /\ at'[o] = "entering" => copy'[o].outbox = base'[o].outbox
    BY <1>2, OthersKeepCopies
  <2> QED BY <1>2, <2>1 DEF Copies
<1>3. ASSUME NEW p \in Procs, NEW l \in Links \cup {NoLink}, NEW r \in Relays,
             Dial(p, l, r)
      PROVE  Copies'
  BY <1>0, <1>2, <1>3 DEF Dial, Step
<1>4. ASSUME NEW p \in Procs, NEW q \in Queues, UseQueue(p, q) PROVE Copies'
  <2>1. NamedByUser(p)'
    BY <1>0, <1>4 DEF UseQueue, NamedByUser
  <2>2. at'[p] \in {"inviting", "keeping"}
    BY <1>0, <1>4 DEF UseQueue, Step
  <2> QED BY <1>0, <1>2, <1>4, <2>1, <2>2 DEF UseQueue, Step, Load, start
<1>5. ASSUME NEW p \in Procs, AskForQueue(p) PROVE Copies'
  <2>1. Key(p)' = Key(p) /\ base'[p] = file /\ copy'[p] = file
    BY <1>0, <1>5 DEF AskForQueue, Load, Key, start
  <2>2. FillsItsEntry(p)'
    BY <1>5, <2>1 DEF AskForQueue, Remembered, FillsItsEntry
  <2>3. at'[p] = "asking"
    BY <1>0, <1>5 DEF AskForQueue, Step
  <2> QED BY <1>0, <1>2, <1>5, <2>2, <2>3 DEF AskForQueue, Step, Load, start
<1>6. ASSUME NEW p \in Procs, NEW q \in Queues, ReceiveQueue(p, q) PROVE Copies'
  <2>1. FillsItsEntry(p) /\ at'[p] = "keeping"
    BY <1>0, <1>6 DEF ReceiveQueue, Step, Copies
  <2>2. Key(p) \in Hosts
    BY <1>6, KeyType DEF ReceiveQueue, Step, TypeOK
  <2>3. /\ Key(p)' = Key(p) /\ base'[p] = base[p]
        /\ copy'[p] = WithOutbox(copy[p], Key(p), q)
    BY <1>0, <1>6 DEF ReceiveQueue, Key, start
  <2>4. FillsItsEntry(p)'
    BY <1>0, <2>1, <2>2, <2>3, ChangeEffects DEF FillsItsEntry
  <2> QED BY <1>0, <1>2, <1>6, <2>1, <2>4 DEF ReceiveQueue, Step, start
<1>7. ASSUME NEW p \in Procs, Subscribe(p) PROVE Copies'
  <2>1. copy'[p] = WithContact(file, peer[p]) /\ base'[p] = file /\ peer[p] \in Links
    BY <1>0, <1>7 DEF Subscribe, Step, Load, TypeOK
  <2>2. copy'[p].outbox = base'[p].outbox /\ at'[p] = "entering"
    BY <1>0, <1>7, <2>1, ChangeEffects DEF Subscribe, Step
  <2> QED BY <1>0, <1>2, <1>7, <2>2 DEF Subscribe, Step, Load, start
<1>8. ASSUME NEW p \in Procs,
             \/ Reuse(p) \/ KeepQueue(p) \/ PrintInvite(p) \/ EnterContact(p) \/ End(p)
             \/ \E l : Choose(p, l)
      PROVE  Copies'
  <2>1. at'[p] \notin {"asking", "keeping", "entering"}
    BY <1>0, <1>8 DEF Reuse, KeepQueue, PrintInvite, EnterContact, End, Choose, Step
  <2> QED
    BY <1>0, <1>2, <1>8, <2>1
    DEF Reuse, KeepQueue, PrintInvite, EnterContact, End, Choose, Step, Load, start
<1> QED
  BY <1>1, <1>3, <1>4, <1>5, <1>6, <1>7, <1>8 DEF Next, ChooseContact, PasteLink

\* The queue remembered for a host is lost only to a state that was overtaken
\* by another process, or to the user's -queue (state.go:41, session.go:150).
THEOREM OutboxLostOnlyWhenOvertaken == Spec => OutboxOvertaken
<1>1. ASSUME TypeOK, Copies, [Next]_vars, NEW h \in Hosts,
             file.outbox[h] # NoQueue, file'.outbox[h] # file.outbox[h]
      PROVE  \E p \in Procs :
               /\ at[p] \in {"keeping", "entering"} /\ file' = copy[p]
               /\ base[p] # file \/ \E i \in invited : i.qid = mine[p]
  <2>1. PICK p \in Procs : KeepQueue(p) \/ EnterContact(p)
    BY <1>1
    DEF Next, vars, Dial, UseQueue, ReceiveQueue, Reuse, AskForQueue, PrintInvite,
        ChooseContact, PasteLink, Choose, Subscribe, End
  <2>2. at[p] \in {"keeping", "entering"} /\ file' = copy[p]
    BY <2>1 DEF KeepQueue, EnterContact, Step
  <2>3. CASE base[p] = file
    <3>1. copy[p].outbox[h] # base[p].outbox[h] /\ base[p].outbox[h] # NoQueue
      BY <1>1, <2>2, <2>3
    <3>2. NamedByUser(p)
      BY <1>1, <2>2, <3>1 DEF Copies, FillsItsEntry
    <3> QED BY <2>2, <3>2 DEF NamedByUser
  <2> QED BY <2>2, <2>3
<1>2. TypeOK /\ Copies /\ [Next]_vars =>
        [\A h \in Hosts :
           file.outbox[h] # NoQueue /\ file'.outbox[h] # file.outbox[h] =>
             \E p \in Procs :
               /\ at[p] \in {"keeping", "entering"} /\ file' = copy[p]
               /\ base[p] # file \/ \E i \in invited : i.qid = mine[p]]_vars
  BY <1>1
<1> QED
  BY <1>2, TypeInit, TypeNext, CopiesInit, CopiesNext, PTL DEF Spec, OutboxOvertaken

=============================================================================
