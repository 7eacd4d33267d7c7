---------------------------- MODULE MCRegistrar ----------------------------
(***************************************************************************)
(* Registrar with two phones and ticks of 16 s: a binding of 90 s, rounded *)
(* down, a transaction that lingers for 32 s, and a network that keeps a   *)
(* message less long than that.                                            *)
(***************************************************************************)
EXTENDS Registrar
=============================================================================
