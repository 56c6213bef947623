---------------------------- MODULE Introductions ----------------------------
(***************************************************************************)
(* How two people get to know each other: the identity file of a user      *)
(* (identity/identity.go), the invite links that carry a relay's address,  *)
(* a queue and the public key (protocol/invite.go), and the keys both ends *)
(* derive from them (crypto/crypto.go).  "knock new" and "knock chat" go   *)
(* through the same steps here; what they do on the relay and in the state *)
(* file is for modules Chat and ClientState.                               *)
(*                                                                         *)
(* A key pair is one value.  A link is copied by hand, and whoever copies  *)
(* it may get one of its parts wrong.  The checksum stands for what it is  *)
(* computed from: no two inputs share one.                                 *)
(***************************************************************************)
EXTENDS Naturals, FiniteSets

CONSTANTS
  Users,
  Procs,      \* runs of the client; each may be started again
  Owner,      \* whose identity file a run uses
  Keys,       \* key pairs
  Hosts, Queues,
  Ports,      \* what may stand for the port of an address
  MaxPort,    \* the highest port number, 65535
  NoKey, NoLink,
  MaxPrinted  \* bound: how many links are printed

ASSUME IntroductionsAssumption ==
  /\ Owner \in [Procs -> Users]
  /\ Ports \subseteq Nat /\ MaxPort \in Nat
  /\ NoKey \notin Keys /\ MaxPrinted \in Nat

VARIABLES
  disk,      \* the key in a user's identity file
  at,        \* how far a run has come
  key,       \* the key it goes on with
  peer,      \* the link it has accepted
  dialed,    \* the address it is connected to
  created,   \* history: the runs that have created an identity file
  printed    \* history: who printed which link

introVars == <<disk, at, key, peer, dialed, created, printed>>

Address == [host : Hosts, port : Ports]

\* The parts of a link that its checksum protects, and a link.
Contents == [host : Hosts, port : 0 .. MaxPort, qid : Queues, key : Keys]
Link     == [is : Contents, sum : Contents]

ASSUME NoLinkAssumption == NoLink \notin Link

NoAddress == [host |-> NoLink, port |-> 0]

----------------------------------------------------------------------------
(* Addresses, links and keys. *)

\* Mutant: any number is a port.
AsGiven(a) == a

\* parseAddr: an address without a port, or with a wrong one, means a tunnel.
ParseAddr(a) ==
  IF a.port \in 1 .. MaxPort THEN a ELSE [a EXCEPT !.port = 0]

\* Mutant: the port is left out.
SumWithoutPort(i) == [i EXCEPT !.port = 0]

InviteChecksum(i) == i

\* Invite.String.
String(i) == [is |-> i, sum |-> InviteChecksum(i)]

\* Mutant: the bound is off by one.
BelowLast(n) == n \in 1 .. (MaxPort - 1)

ValidPort(n) == n \in 1 .. MaxPort

\* ParseInvite takes the link.
Accepts(l) == ValidPort(l.is.port) /\ l.sum = InviteChecksum(l.is)

\* What a link may have become when it has been copied.
Copies(l) ==
  {l} \cup [is : {[l.is EXCEPT !.host = h] : h \in Hosts}
                   \cup {[l.is EXCEPT !.port = n] : n \in Ports}
                   \cup {[l.is EXCEPT !.qid = q] : q \in Queues}
                   \cup {[l.is EXCEPT !.key = k] : k \in Keys},
            sum : {l.sum}]

\* The key agreement gives both ends the same secret; the key of a direction
\* is made of the secret and the direction.
DeriveKey(mine, other, a2b) == [secret |-> {mine, other}, a2b |-> a2b]

----------------------------------------------------------------------------
(* A run of the client. *)

IntroInit ==
  /\ disk = [u \in Users |-> NoKey]
  /\ at = [p \in Procs |-> "ended"]
  /\ key = [p \in Procs |-> NoKey]
  /\ peer = [p \in Procs |-> NoLink]
  /\ dialed = [p \in Procs |-> NoAddress]
  /\ created = {} /\ printed = {}

Step(p, from, to) == at[p] = from /\ at' = [at EXCEPT ![p] = to]

Start(p) ==
  /\ Step(p, "ended", "looking")
  /\ UNCHANGED <<disk, key, peer, dialed, created, printed>>

\* LoadOrCreate: the file is there.
LoadKey(p) ==
  /\ Step(p, "looking", "known")
  /\ disk[Owner[p]] # NoKey
  /\ key' = [key EXCEPT ![p] = disk[Owner[p]]]
  /\ UNCHANGED <<disk, peer, dialed, created, printed>>

\* LoadOrCreate: Stat says that there is no file.
MissKey(p) ==
  /\ Step(p, "looking", "creating")
  /\ disk[Owner[p]] = NoKey
  /\ UNCHANGED <<disk, key, peer, dialed, created, printed>>

\* Keys that were never drawn: no two draws are the same.
Drawn == {disk[u] : u \in Users} \cup {key[p] : p \in Procs} \cup {e.link.is.key : e \in printed}

\* Mutant: the rename fails and nobody looks.
NotSaved(u, k) == u \in Users /\ k \in Keys /\ disk' = disk

\* SaveToFile: a temporary file, renamed over whatever is there by now.
SaveToFile(u, k) == disk' = [disk EXCEPT ![u] = k]

CreateKey(p, k) ==
  /\ Step(p, "creating", "known")
  /\ k \notin Drawn
  /\ SaveToFile(Owner[p], k)
  /\ key' = [key EXCEPT ![p] = k]
  /\ created' = created \cup {p}
  /\ UNCHANGED <<peer, dialed, printed>>

\* A link is given on the command line, or pasted once the own one is
\* printed.  One that is refused ends the run, or is asked for again.
TakeLink(p, l) ==
  /\ at[p] \in {"known", "inviting"} /\ peer[p] = NoLink
  /\ Accepts(l)
  /\ peer' = [peer EXCEPT ![p] = l]
  /\ UNCHANGED <<disk, at, key, dialed, created, printed>>

\* The relay of the peer's link, or the one on the command line.
Target(p, a) ==
  IF peer[p] = NoLink THEN ParseAddr(a)
  ELSE [host |-> peer[p].is.host, port |-> peer[p].is.port]

DialRelay(p, a) ==
  /\ Step(p, "known", "connected")
  /\ dialed' = [dialed EXCEPT ![p] = Target(p, a)]
  /\ UNCHANGED <<disk, key, peer, created, printed>>

\* The own link, with a new queue or one the user has had before.
PrintInvite(p, q) ==
  /\ Step(p, "connected", "inviting")
  /\ Cardinality(printed) < MaxPrinted
  /\ \A e \in printed : e.link.is.qid = q => e.by = Owner[p]
  /\ printed' = printed \cup
       {[by |-> Owner[p],
         link |-> String([host |-> dialed[p].host, port |-> dialed[p].port,
                          qid |-> q, key |-> key[p]])]}
  /\ UNCHANGED <<disk, key, peer, dialed, created>>

\* The run is over, or is killed, or gives up because of an error.
End(p) ==
  /\ at[p] # "ended"
  /\ at' = [at EXCEPT ![p] = "ended"]
  /\ key' = [key EXCEPT ![p] = NoKey]
  /\ peer' = [peer EXCEPT ![p] = NoLink]
  /\ dialed' = [dialed EXCEPT ![p] = NoAddress]
  /\ UNCHANGED <<disk, created, printed>>

IntroNext ==
  \E p \in Procs :
    \/ Start(p) \/ LoadKey(p) \/ MissKey(p) \/ End(p)
    \/ \E k \in Keys : CreateKey(p, k)
    \/ \E e \in printed : \E l \in Copies(e.link) : TakeLink(p, l)
    \/ \E a \in Address : DialRelay(p, a)
    \/ \E q \in Queues : PrintInvite(p, q)

IntroSpec == IntroInit /\ [][IntroNext]_introVars

----------------------------------------------------------------------------
(* Properties. *)

\* The types of the variables; whatever stands for a port, what is dialed
\* and printed is one, or 0.
IntroTypeOK ==
  /\ disk \in [Users -> Keys \cup {NoKey}]
  /\ at \in [Procs -> {"ended", "looking", "creating", "known", "connected", "inviting"}]
  /\ key \in [Procs -> Keys \cup {NoKey}]
  /\ peer \in [Procs -> Link \cup {NoLink}]
  /\ dialed \in [Procs -> [host : Hosts, port : 0 .. MaxPort] \cup {NoAddress}]
  /\ created \subseteq Procs
  /\ printed \subseteq [by : Users, link : Link]

\* A link that is accepted is one that somebody was given, in every part of
\* it, although it was copied by hand (invite.go:40-46).
AcceptedWasPrinted ==
  \A p \in Procs : peer[p] # NoLink => \E e \in printed : e.link = peer[p]

\* A link that was printed can be read unless it was made for a tunnel: the
\* one port that is printed and refused is 0, and the other bounds agree.
ReadsBackUnlessTunnel ==
  \A e \in printed : Accepts(e.link) <=> e.link.is.port # 0

\* No two runs of the user have created the identity file one after the
\* other, each having found none.
CreatedOnce(u) == \A p, q \in created : Owner[p] = u /\ Owner[q] = u => p = q

Knows(p, u) == \E e \in printed : e.by = u /\ e.link = peer[p]

\* Two people who have taken each other's links, from whatever runs, derive
\* the same keys in whatever later runs, unless first runs overtook each
\* other (identity.go:31).
KeysAgree ==
  \A p, q \in Procs :
    LET u == Owner[p]  v == Owner[q]
    IN  Knows(p, v) /\ Knows(q, u) /\ CreatedOnce(u) /\ CreatedOnce(v) =>
          \A a2b \in BOOLEAN :
            DeriveKey(key[p], peer[p].is.key, a2b) = DeriveKey(key[q], peer[q].is.key, a2b)

----------------------------------------------------------------------------
(* What the repository says and the code does not do. *)

\* Whoever starts behind a tunnel prints a link that the other one pastes,
\* and that is all (readme.md:107-110).
PrintedLinksAreAccepted == \A e \in printed : Accepts(e.link)

=============================================================================
