----------------------------- MODULE MCRatDbase -----------------------------
(* RatDbaseLog for TLC: the symmetry of agents and messages, used by the    *)
(* runs that check invariants only.                                         *)
EXTENDS RatDbaseLog

Symmetry == Permutations(Agents) \cup Permutations(Msgs)
=============================================================================
