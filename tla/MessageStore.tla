---------------------------- MODULE MessageStore ----------------------------
(***************************************************************************)
(* What the message database promises its users: a set of messages to      *)
(* which messages are added once, in which they are marked for deletion    *)
(* and unmarked, and from which they are dropped for good.  Nothing else   *)
(* happens to a message: neither the number of agents, nor the order of    *)
(* their operations, nor the upkeep of the files shows.                    *)
(***************************************************************************)
CONSTANT Msgs

VARIABLES
  accepted,   \* the messages whose insertion succeeded
  dropped,    \* the messages somebody dropped
  store,      \* the messages in the database
  marked      \* those of them whose status holds 'D'

vars == <<accepted, dropped, store, marked>>

Init == accepted = {} /\ dropped = {} /\ store = {} /\ marked = {}

Add(m) ==
  /\ m \notin accepted
  /\ accepted' = accepted \cup {m}
  /\ store' = store \cup {m}
  /\ UNCHANGED <<dropped, marked>>

Mark(m) ==
  /\ m \in store
  /\ marked' = marked \cup {m}
  /\ UNCHANGED <<accepted, dropped, store>>

Unmark(m) ==
  /\ marked' = marked \ {m}
  /\ UNCHANGED <<accepted, dropped, store>>

Drop(S) ==
  /\ S \subseteq accepted
  /\ dropped' = dropped \cup S
  /\ store' = store \ S
  /\ marked' = marked \ S
  /\ UNCHANGED accepted

Next ==
  \/ \E m \in Msgs : Add(m) \/ Mark(m) \/ Unmark(m)
  \/ \E S \in SUBSET Msgs : Drop(S)

Spec == Init /\ [][Next]_vars
=============================================================================
