------------------------------ MODULE MCRouting ------------------------------
(***************************************************************************)
(* Routing with two calls on two channels: the caller of a does everything, *)
(* the caller of b only calls.                                              *)
(***************************************************************************)
EXTENDS Routing, TLC

CONSTANTS a, b

MCScripts == a :> {"INVITE", "CANCEL", "REINVITE", "BYE"} @@ b :> {"INVITE"}

MCMaxOffers == a :> 2 @@ b :> 1

Symmetry == Permutations(Channels)
=============================================================================
