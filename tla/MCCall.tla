------------------------------- MODULE MCCall -------------------------------
(***************************************************************************)
(* Call with an application that behaves like the Lua sessions: it         *)
(* answers, rings or rejects from on_incall and on_reincall, and hangs up  *)
(* from the callbacks of an outgoing or an ended call (call_session.lua    *)
(* and b2b_ua.lua call _bye from on_timeout, and from a peer's on_bye and  *)
(* on_error).  It makes one call of the API from a callback.               *)
(***************************************************************************)
EXTENDS Call, TLC

MCAppMay == [cb \in {"Incall", "ReIncall", "RingBack", "InCallSetup", "OutCallSetup",
                      "EndCall", "Error", "Timeout", "done"} |->
                CASE cb \in {"Incall", "ReIncall"}       -> {"Answer", "RingBack", "Bye"}
                  [] cb \in {"RingBack", "OutCallSetup"} -> {"Bye"}
                  [] cb \in {"EndCall", "Error", "Timeout"} -> {"Bye"}
                  [] OTHER -> {}]

Symmetry == Permutations(Trans) \cup Permutations(Bodies)
=============================================================================
