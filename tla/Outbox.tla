------------------------------- MODULE Outbox -------------------------------
(***************************************************************************)
(* What the sending of TkRat promises its user: a message that was queued  *)
(* waits until a mail server has accepted it or it is handed back.  It     *)
(* gets one such verdict; another one only after an interruption, the end  *)
(* of the program or of the process that sends, and no more of them than   *)
(* there were interruptions.  The promise holds until the user takes a     *)
(* message away himself.  Whose turn it is, the process that sends and the *)
(* folder in which the messages wait do not show.                          *)
(***************************************************************************)
EXTENDS Naturals, FiniteSets

CONSTANT Msgs

VARIABLES
  waiting,        \* the messages that are queued
  accepted,       \* how often a mail server accepted a message
  refused,        \* the messages that were handed back
  interruptions,  \* how often the work was interrupted
  edited          \* the user has had his hands on what waits

vars == <<waiting, accepted, refused, interruptions, edited>>

Verdicts(m) == accepted[m] + (IF m \in refused THEN 1 ELSE 0)

\* the verdicts beyond the first that messages got
Excess == Cardinality(UNION {{m} \X (2 .. Verdicts(m)) : m \in Msgs})

Allowed(m) ==
  \/ m \in waiting /\ Verdicts(m) = 0
  \/ Verdicts(m) > 0 /\ Excess < interruptions

Init ==
  /\ waiting = {} /\ accepted = [m \in Msgs |-> 0] /\ refused = {}
  /\ interruptions = 0 /\ edited = FALSE

Queue(m) ==
  /\ m \notin waiting /\ Verdicts(m) = 0
  /\ waiting' = waiting \cup {m}
  /\ UNCHANGED <<accepted, refused, interruptions, edited>>

Accept(m) ==
  /\ Allowed(m)
  /\ accepted' = [accepted EXCEPT ![m] = @ + 1]
  /\ UNCHANGED <<waiting, refused, interruptions, edited>>

Refuse(m) ==
  /\ m \in waiting /\ Allowed(m)
  /\ waiting' = waiting \ {m}
  /\ refused' = refused \cup {m}
  /\ UNCHANGED <<accepted, interruptions, edited>>

\* the program has heard that a server accepted the message
Settle(m) ==
  /\ m \in waiting /\ accepted[m] > 0
  /\ waiting' = waiting \ {m}
  /\ UNCHANGED <<accepted, refused, interruptions, edited>>

Interrupt ==
  /\ interruptions' = interruptions + 1
  /\ UNCHANGED <<waiting, accepted, refused, edited>>

\* What waits is in the hands of the user, and the verdicts are his affair.
Edit ==
  /\ edited'
  /\ waiting' \in SUBSET Msgs
  /\ \E m \in Msgs : accepted' \in {accepted, [accepted EXCEPT ![m] = @ + 1]}
  /\ refused' \in SUBSET Msgs /\ refused \subseteq refused'
  /\ interruptions' \in {interruptions, interruptions + 1}

Next ==
  \/ \E m \in Msgs : Queue(m) \/ Accept(m) \/ Refuse(m) \/ Settle(m)
  \/ Interrupt \/ Edit

\* Once the user has edited what waits there is no way back.
Spec == Init /\ [][Next /\ (edited => edited')]_vars
=============================================================================
