------------------------------- MODULE Mailbox -------------------------------
(***************************************************************************)
(* What two people who chat are promised, without relay, connections or    *)
(* programs: a message that was accepted is kept until it has been shown   *)
(* to the one it is for.  It may be shown more than once, and it may be    *)
(* kept although it was shown.                                             *)
(***************************************************************************)
CONSTANTS
  Users,    \* who chats
  Mids,     \* message ids
  Reader    \* whom a message is for

VARIABLES
  posted,   \* the messages that were ever accepted
  stored,   \* the messages that are kept
  shown     \* shown[u]: the messages user u has seen

mailVars == <<posted, stored, shown>>

MailInit == posted = {} /\ stored = {} /\ shown = [u \in Users |-> {}]

\* A message is accepted: from now on it is kept.
Post(m) ==
  /\ m \notin stored
  /\ posted' = posted \cup {m} /\ stored' = stored \cup {m}
  /\ UNCHANGED shown

\* Only what was accepted is shown, and only to the one it is for.
Show(m) ==
  /\ m \in posted
  /\ shown' = [shown EXCEPT ![Reader[m]] = @ \cup {m}]
  /\ UNCHANGED <<posted, stored>>

\* What has been shown need not be kept.
Retire(m) ==
  /\ m \in stored /\ m \in shown[Reader[m]]
  /\ stored' = stored \ {m}
  /\ UNCHANGED <<posted, shown>>

MailNext == \E m \in Mids : Post(m) \/ Show(m) \/ Retire(m)

MailSpec == MailInit /\ [][MailNext]_mailVars

----------------------------------------------------------------------------
(* What follows from the promise. *)

\* An accepted message is kept, or the one it is for has seen it.
KeptUntilShown == \A m \in posted : m \in stored \/ m \in shown[Reader[m]]

=============================================================================
