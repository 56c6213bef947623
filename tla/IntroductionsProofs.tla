-------------------------- MODULE IntroductionsProofs --------------------------
(***************************************************************************)
(* What holds of invite links and identity files for any number of users,  *)
(* runs, keys, hosts and queues, and whatever is given for a port.         *)
(***************************************************************************)
EXTENDS Introductions, TLAPS

Dialable == [host : Hosts, port : 0 .. MaxPort]

----------------------------------------------------------------------------
(* Addresses and links. *)

LEMMA ParseAddrType ==
  ASSUME NEW a \in Address
  PROVE  ParseAddr(a) \in Dialable
<1>1. CASE a.port \in 1 .. MaxPort
  BY <1>1 DEF ParseAddr, Address, Dialable
<1>2. CASE a.port \notin 1 .. MaxPort
  <2>1. ParseAddr(a) = [host |-> a.host, port |-> 0]
    BY <1>2 DEF ParseAddr, Address
  <2> QED BY <2>1, IntroductionsAssumption DEF Address, Dialable
<1> QED BY <1>1, <1>2

\* A link that is accepted is the one it was copied from: every part of it
\* goes into the checksum.
LEMMA ChecksumTells ==
  ASSUME NEW k \in Link, k.sum = InviteChecksum(k.is),
         NEW l \in Copies(k), Accepts(l)
  PROVE  l = k
<1>1. CASE l = k
  BY <1>1
<1>2. CASE l # k
  <2> DEFINE Slips == {[k.is EXCEPT !.host = h] : h \in Hosts}
                        \cup {[k.is EXCEPT !.port = n] : n \in Ports}
                        \cup {[k.is EXCEPT !.qid = q] : q \in Queues}
                        \cup {[k.is EXCEPT !.key = x] : x \in Keys}
  <2>1. l \in [is : Slips, sum : {k.sum}]
    BY <1>2 DEF Copies
  <2> HIDE DEF Slips
  <2>2. l.sum = k.sum /\ l = [is |-> l.is, sum |-> l.sum]
    BY <2>1
  <2>3. l.is = k.is
    BY <2>2 DEF Accepts, InviteChecksum
  <2>4. k = [is |-> k.is, sum |-> k.sum]
    BY DEF Link
  <2> QED BY <2>2, <2>3, <2>4
<1> QED BY <1>1, <1>2

----------------------------------------------------------------------------
(* Types.  What a run holds depends on how far it has come; and a link is   *)
(* printed with its checksum.                                               *)

Progress ==
  \A p \in Procs :
    /\ at[p] \in {"ended", "looking", "creating"} => key[p] = NoKey /\ peer[p] = NoLink
    /\ at[p] \in {"known", "connected", "inviting"} => key[p] \in Keys
    /\ at[p] \in {"connected", "inviting"} => dialed[p] \in Dialable

WellFormed == \A e \in printed : e.link.sum = InviteChecksum(e.link.is)

Shaped == IntroTypeOK /\ Progress /\ WellFormed /\ AcceptedWasPrinted

LEMMA ShapedInit == IntroInit => Shaped
BY DEF IntroInit, Shaped, IntroTypeOK, Progress, WellFormed, AcceptedWasPrinted

\* No type depends on another run's progress.
LEMMA TypeNext == Shaped /\ [IntroNext]_introVars => IntroTypeOK'
<1> SUFFICES ASSUME Shaped, [IntroNext]_introVars PROVE IntroTypeOK'
  OBVIOUS
<1> USE DEF IntroTypeOK
<1>1. IntroTypeOK /\ Owner \in [Procs -> Users]
  BY IntroductionsAssumption DEF Shaped
<1>2. ASSUME NEW p \in Procs, Start(p) \/ LoadKey(p) \/ MissKey(p)
      PROVE  IntroTypeOK'
  BY <1>1, <1>2 DEF Start, LoadKey, MissKey, Step
<1>3. ASSUME NEW p \in Procs, NEW k \in Keys, CreateKey(p, k)
      PROVE  IntroTypeOK'
  BY <1>1, <1>3 DEF CreateKey, SaveToFile, Step
<1>4. ASSUME NEW p \in Procs, End(p)
      PROVE  IntroTypeOK'
  BY <1>1, <1>4 DEF End
<1>5. ASSUME NEW p \in Procs, NEW e \in printed, NEW l \in Copies(e.link), TakeLink(p, l)
      PROVE  IntroTypeOK'
  <2>1. l = e.link /\ e.link \in Link
    BY <1>1, <1>5, ChecksumTells DEF TakeLink, Shaped, WellFormed
  <2> QED BY <1>1, <1>5, <2>1 DEF TakeLink
<1>6. ASSUME NEW p \in Procs, NEW a \in Address, DialRelay(p, a)
      PROVE  IntroTypeOK'
  <2>1. Target(p, a) \in Dialable
    <3>1. CASE peer[p] = NoLink
      BY <3>1, ParseAddrType DEF Target
    <3>2. CASE peer[p] # NoLink
      <4>1. peer[p] \in Link
        BY <1>1, <3>2
      <4> QED BY <3>2, <4>1 DEF Target, Link, Contents, Dialable
    <3> QED BY <3>1, <3>2
  <2> QED BY <1>1, <1>6, <2>1 DEF DialRelay, Step, Dialable
<1>7. ASSUME NEW p \in Procs, NEW q \in Queues, PrintInvite(p, q)
      PROVE  IntroTypeOK'
  <2> DEFINE i == [host |-> dialed[p].host, port |-> dialed[p].port,
                   qid |-> q, key |-> key[p]]
  <2>1. dialed[p] \in Dialable /\ key[p] \in Keys
    BY <1>7 DEF PrintInvite, Step, Shaped, Progress
  <2>2. i \in Contents
    BY <2>1 DEF Contents, Dialable
  <2>3. /\ printed' = printed \cup {[by |-> Owner[p], link |-> String(i)]}
        /\ at' = [at EXCEPT ![p] = "inviting"]
        /\ UNCHANGED <<disk, key, peer, dialed, created>>
    BY <1>7 DEF PrintInvite, Step
  <2> HIDE DEF i
  <2>4. String(i) \in Link
    BY <2>2 DEF String, InviteChecksum, Link
  <2> QED BY <1>1, <2>3, <2>4
<1>8. CASE UNCHANGED introVars
  BY <1>1, <1>8 DEF introVars
<1> QED BY <1>2, <1>3, <1>4, <1>5, <1>6, <1>7, <1>8 DEF IntroNext

LEMMA ProgressNext == Shaped /\ [IntroNext]_introVars => Progress'
<1> SUFFICES ASSUME Shaped, [IntroNext]_introVars PROVE Progress'
  OBVIOUS
<1>1. /\ at \in [Procs -> {"ended", "looking", "creating", "known", "connected", "inviting"}]
      /\ key \in [Procs -> Keys \cup {NoKey}]
      /\ peer \in [Procs -> Link \cup {NoLink}]
      /\ DOMAIN dialed = Procs
      /\ disk \in [Users -> Keys \cup {NoKey}]
      /\ Owner \in [Procs -> Users]
  BY IntroductionsAssumption DEF Shaped, IntroTypeOK
<1> USE DEF Progress, Step
<1>2. Progress
  BY DEF Shaped
<1>3. ASSUME NEW p \in Procs, Start(p) \/ LoadKey(p) \/ MissKey(p) \/ End(p)
      PROVE  Progress'
  BY <1>1, <1>2, <1>3 DEF Start, LoadKey, MissKey, End
<1>4. ASSUME NEW p \in Procs, NEW k \in Keys, CreateKey(p, k)
      PROVE  Progress'
  BY <1>1, <1>2, <1>4 DEF CreateKey
<1>5. ASSUME NEW p \in Procs, NEW l, TakeLink(p, l)
      PROVE  Progress'
  BY <1>1, <1>2, <1>5 DEF TakeLink
<1>6. ASSUME NEW p \in Procs, NEW a \in Address, DialRelay(p, a)
      PROVE  Progress'
  <2>1. Target(p, a) \in Dialable
    <3>1. CASE peer[p] = NoLink
      BY <3>1, ParseAddrType DEF Target
    <3>2. CASE peer[p] # NoLink
      <4>1. peer[p] \in Link
        BY <1>1, <3>2
      <4> QED BY <3>2, <4>1 DEF Target, Link, Contents, Dialable
    <3> QED BY <3>1, <3>2
  <2> QED BY <1>1, <1>2, <1>6, <2>1 DEF DialRelay
<1>7. ASSUME NEW p \in Procs, NEW q \in Queues, PrintInvite(p, q)
      PROVE  Progress'
  BY <1>1, <1>2, <1>7 DEF PrintInvite
<1>8. CASE UNCHANGED introVars
  BY <1>2, <1>8 DEF introVars
<1> QED BY <1>3, <1>4, <1>5, <1>6, <1>7, <1>8 DEF IntroNext

LEMMA LinksNext ==
  ASSUME Shaped, [IntroNext]_introVars
  PROVE  (WellFormed /\ AcceptedWasPrinted)'
<1>1. /\ WellFormed /\ AcceptedWasPrinted
      /\ peer \in [Procs -> Link \cup {NoLink}] /\ printed \subseteq [by : Users, link : Link]
  BY DEF Shaped, IntroTypeOK
<1>2. ASSUME NEW p \in Procs, printed' = printed,
             peer' = peer \/ peer' = [peer EXCEPT ![p] = NoLink]
      PROVE  (WellFormed /\ AcceptedWasPrinted)'
  BY <1>1, <1>2 DEF WellFormed, AcceptedWasPrinted
<1>3. ASSUME NEW p \in Procs,
             Start(p) \/ LoadKey(p) \/ MissKey(p) \/ End(p)
               \/ (\E k : CreateKey(p, k)) \/ (\E a : DialRelay(p, a))
      PROVE  (WellFormed /\ AcceptedWasPrinted)'
  BY <1>2, <1>3 DEF Start, LoadKey, MissKey, End, CreateKey, DialRelay
<1>4. ASSUME NEW p \in Procs, NEW e \in printed, NEW l \in Copies(e.link), TakeLink(p, l)
      PROVE  (WellFormed /\ AcceptedWasPrinted)'
  <2>1. l = e.link
    BY <1>1, <1>4, ChecksumTells DEF TakeLink, WellFormed
  <2> QED BY <1>1, <1>4, <2>1 DEF TakeLink, WellFormed, AcceptedWasPrinted
<1>5. ASSUME NEW p \in Procs, NEW q \in Queues, PrintInvite(p, q)
      PROVE  (WellFormed /\ AcceptedWasPrinted)'
  <2> DEFINE i == [host |-> dialed[p].host, port |-> dialed[p].port,
                   qid |-> q, key |-> key[p]]
             e == [by |-> Owner[p], link |-> String(i)]
  <2>1. printed' = printed \cup {e} /\ peer' = peer
    BY <1>5 DEF PrintInvite
  <2> HIDE DEF i
  <2>2. e.link.sum = InviteChecksum(e.link.is)
    BY DEF String
  <2> HIDE DEF e
  <2> QED BY <1>1, <2>1, <2>2 DEF WellFormed, AcceptedWasPrinted
<1>6. CASE UNCHANGED introVars
  BY <1>1, <1>6 DEF introVars, WellFormed, AcceptedWasPrinted
<1> QED BY <1>3, <1>4, <1>5, <1>6 DEF IntroNext

LEMMA ShapedNext == Shaped /\ [IntroNext]_introVars => Shaped'
BY TypeNext, ProgressNext, LinksNext DEF Shaped

\* Whatever is given for a port, what is dialed, printed and accepted has a
\* port number or 0 (session.go:277-290), and the key of a run that prints a
\* link is a key.
THEOREM IntroTypeCorrect == IntroSpec => []IntroTypeOK
<1>1. Shaped => IntroTypeOK
  BY DEF Shaped
<1> QED BY <1>1, ShapedInit, ShapedNext, PTL DEF IntroSpec

\* No slip in copying a link goes unnoticed: host, port, queue and key are
\* all in the checksum (invite.go:40-46).
THEOREM NoSlipAccepted == IntroSpec => []AcceptedWasPrinted
<1>1. Shaped => AcceptedWasPrinted
  BY DEF Shaped
<1> QED BY <1>1, ShapedInit, ShapedNext, PTL DEF IntroSpec

\* A printed link is refused if and only if it was made for a tunnel: the
\* bounds of parseAddr and ParseInvite agree but for the port 0.
THEOREM OnlyTunnelsRefused == IntroSpec => []ReadsBackUnlessTunnel
<1>1. Shaped => ReadsBackUnlessTunnel
  BY DEF Shaped, IntroTypeOK, WellFormed, ReadsBackUnlessTunnel, Accepts, ValidPort,
         Link, Contents
<1> QED BY <1>1, ShapedInit, ShapedNext, PTL DEF IntroSpec

----------------------------------------------------------------------------
(* Keys.  As long as one run has created a user's file, its key is the only *)
(* one: what runs go on with and what links carry.  That a second creation  *)
(* is one by another run needs the last two conjuncts.                      *)

Unborn(u) ==
  /\ \A p \in created : Owner[p] # u
  /\ \A p \in Procs : Owner[p] = u => key[p] = NoKey
  /\ \A e \in printed : e.by # u

OneKey(u) ==
  /\ \A p \in Procs : Owner[p] = u => key[p] \in {NoKey, disk[u]}
  /\ \A e \in printed : e.by = u => e.link.is.key = disk[u]

Keyed ==
  /\ \A u \in Users :
       /\ disk[u] = NoKey => Unborn(u)
       /\ disk[u] # NoKey => \E p \in created : Owner[p] = u
       /\ CreatedOnce(u) => OneKey(u)
  /\ \A p \in created : at[p] # "creating"

LEMMA KeyedInit == IntroInit => Keyed
BY DEF IntroInit, Keyed, Unborn, OneKey, CreatedOnce

LEMMA KeyedNext ==
  ASSUME Shaped, Keyed, [IntroNext]_introVars
  PROVE  Keyed'
<1>1. /\ Owner \in [Procs -> Users] /\ NoKey \notin Keys
      /\ disk \in [Users -> Keys \cup {NoKey}] /\ created \subseteq Procs
      /\ at \in [Procs -> {"ended", "looking", "creating", "known", "connected", "inviting"}]
      /\ key \in [Procs -> Keys \cup {NoKey}]
  BY IntroductionsAssumption DEF Shaped, IntroTypeOK
<1>2. ASSUME UNCHANGED <<disk, created, printed>>,
             \A p \in Procs : key'[p] \in {NoKey, key[p]} \/ key'[p] = disk[Owner[p]],
             \A p \in created : at'[p] # "creating"
      PROVE  Keyed'
  BY <1>1, <1>2 DEF Keyed, Unborn, OneKey, CreatedOnce
<1>3. ASSUME NEW p \in Procs, Start(p) \/ LoadKey(p) \/ End(p)
      PROVE  Keyed'
  BY <1>1, <1>2, <1>3 DEF Start, LoadKey, End, Step, Keyed
<1>4. ASSUME NEW p \in Procs, MissKey(p)
      PROVE  Keyed'
  BY <1>1, <1>2, <1>4 DEF MissKey, Step, Keyed, Unborn
<1>5. ASSUME NEW p \in Procs, NEW k \in Keys, CreateKey(p, k)
      PROVE  Keyed'
  <2> DEFINE u == Owner[p]
  <2>1. /\ at[p] = "creating" /\ at' = [at EXCEPT ![p] = "known"]
        /\ disk' = [disk EXCEPT ![u] = k] /\ key' = [key EXCEPT ![p] = k]
        /\ created' = created \cup {p} /\ printed' = printed
    BY <1>5 DEF CreateKey, SaveToFile, Step
  <2>2. u \in Users /\ p \notin created
    BY <1>1, <2>1 DEF Keyed
  <2> HIDE DEF u
  <2>3. \A v \in Users \ {u} :
          /\ disk'[v] = NoKey => Unborn(v)'
          /\ disk'[v] # NoKey => \E x \in created' : Owner[x] = v
          /\ CreatedOnce(v)' => OneKey(v)'
    BY <1>1, <2>1, <2>2 DEF Keyed, Unborn, OneKey, CreatedOnce, u
  <2>4. CreatedOnce(u)' => OneKey(u)'
    <3>1. CASE disk[u] = NoKey
      BY <1>1, <2>1, <2>2, <3>1 DEF Keyed, Unborn, OneKey
    <3>2. CASE disk[u] # NoKey
      <4>1. PICK x \in created : Owner[x] = u
        BY <2>2, <3>2 DEF Keyed
      <4>2. x # p /\ x \in created' /\ p \in created' /\ Owner[p] = u
        BY <2>1, <2>2, <4>1 DEF u
      <4> QED BY <4>1, <4>2 DEF CreatedOnce
    <3> QED BY <3>1, <3>2
  <2>5. disk'[u] # NoKey /\ \E x \in created' : Owner[x] = u
    BY <1>1, <2>1, <2>2 DEF u
  <2>6. \A x \in created' : at'[x] # "creating"
    BY <1>1, <2>1 DEF Keyed
  <2> QED BY <2>3, <2>4, <2>5, <2>6 DEF Keyed
<1>6. ASSUME NEW p \in Procs, NEW q \in Queues, PrintInvite(p, q)
      PROVE  Keyed'
  <2>1. /\ at[p] = "connected" /\ at' = [at EXCEPT ![p] = "inviting"]
        /\ UNCHANGED <<disk, key, created>>
    BY <1>6 DEF PrintInvite, Step
  <2> DEFINE i == [host |-> dialed[p].host, port |-> dialed[p].port,
                   qid |-> q, key |-> key[p]]
             e == [by |-> Owner[p], link |-> String(i)]
  <2>2. printed' = printed \cup {e} /\ e.by = Owner[p] /\ e.link.is.key = key[p]
    BY <1>6 DEF PrintInvite, String
  <2> HIDE DEF e
  <2>3. key[p] \in Keys
    BY <2>1 DEF Shaped, Progress
  <2>4. disk[Owner[p]] # NoKey
    BY <1>1, <2>3 DEF Keyed, Unborn
  <2>5. CreatedOnce(Owner[p]) => key[p] = disk[Owner[p]]
    BY <1>1, <2>3 DEF Keyed, OneKey
  <2> QED BY <1>1, <2>1, <2>2, <2>4, <2>5 DEF Keyed, Unborn, OneKey, CreatedOnce
<1>7. ASSUME NEW p \in Procs,
             (\E l : TakeLink(p, l)) \/ (\E a : DialRelay(p, a)) \/ UNCHANGED introVars
      PROVE  Keyed'
  BY <1>1, <1>2, <1>7 DEF TakeLink, DialRelay, Step, introVars, Keyed
<1>8. CASE UNCHANGED introVars
  BY <1>1, <1>2, <1>8 DEF introVars, Keyed
<1> QED BY <1>3, <1>4, <1>5, <1>6, <1>7, <1>8 DEF IntroNext

LEMMA AgreementFollows == Shaped /\ Keyed => KeysAgree
<1> SUFFICES ASSUME Shaped, Keyed, NEW p \in Procs, NEW q \in Procs,
                    Knows(p, Owner[q]), Knows(q, Owner[p]),
                    CreatedOnce(Owner[p]), CreatedOnce(Owner[q]), NEW a2b \in BOOLEAN
             PROVE  DeriveKey(key[p], peer[p].is.key, a2b)
                      = DeriveKey(key[q], peer[q].is.key, a2b)
  BY DEF KeysAgree
<1>1. Owner[p] \in Users /\ Owner[q] \in Users
  BY IntroductionsAssumption
<1>2. peer[p].is.key = disk[Owner[q]] /\ peer[q].is.key = disk[Owner[p]]
  BY <1>1 DEF Knows, Keyed, OneKey
<1>3. \A x \in Procs, u \in Users : Knows(x, u) => key[x] # NoKey
  <2> SUFFICES ASSUME NEW x \in Procs, NEW u \in Users, Knows(x, u)
               PROVE  key[x] # NoKey
    OBVIOUS
  <2>1. peer[x] \in Link
    BY DEF Knows, Shaped, IntroTypeOK
  <2>2. peer[x] # NoLink
    BY <2>1, NoLinkAssumption
  <2> QED BY <2>2, IntroductionsAssumption DEF Shaped, IntroTypeOK, Progress
<1>4. key[p] = disk[Owner[p]] /\ key[q] = disk[Owner[q]]
  BY <1>1, <1>3 DEF Keyed, OneKey
<1> QED BY <1>2, <1>4 DEF DeriveKey

\* Whoever has taken the other's link and gave a link of one's own derives
\* the keys the other one derives, in both directions and over any number of
\* runs, if of either user's identity file one run is the creator.
THEOREM BothEndsAgree == IntroSpec => []KeysAgree
BY AgreementFollows, ShapedInit, ShapedNext, KeyedInit, KeyedNext, PTL DEF IntroSpec

=============================================================================
