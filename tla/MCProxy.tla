------------------------------- MODULE MCProxy -------------------------------
(***************************************************************************)
(* Proxy with three channels, so that a channel of one bridged call is     *)
(* reused by the next while a session of the first still remembers it, and *)
(* six sessions: one in the table for each channel, and a forgotten one    *)
(* that each of them still points at.                                      *)
(***************************************************************************)
EXTENDS Proxy, TLC

Symmetry == Permutations(Legs) \cup Permutations(Sessions)
=============================================================================
