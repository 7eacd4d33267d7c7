--------------------------- MODULE MCRegistration ---------------------------
(***************************************************************************)
(* Registration in ticks of 4 s: 60 s, 300 s, 32 s, the second of lateness *)
(* rounded up.  The device asks for 90 s; a registrar may grant 120 s, 88  *)
(* s, 32 s or 8 s.                                                         *)
(***************************************************************************)
EXTENDS Registration

MCRetry      == 15
MCNoResponse == 75
MCLife       == 8
MCSlack      == 1
MCGrants     == {2, 8, 22, 30}
=============================================================================
