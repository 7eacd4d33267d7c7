----------------------------- MODULE MCMainLoop -----------------------------
(***************************************************************************)
(* MainLoop with two slots and three connections: one sends a message in   *)
(* fragments of two types with a ping between them, one two raw messages,  *)
(* one a message that a ping begins and a frame of text ends, a binary     *)
(* message, a pong and a close frame; and with two sessions that use the   *)
(* same timer flag.                                                        *)
(***************************************************************************)
EXTENDS MainLoop

Frame(o, f) == [op |-> o, fin |-> f]

MCConns == {"a", "b", "c"}

MCKind == [a |-> "ws", b |-> "raw", c |-> "ws"]

MCFrames == [a |-> <<Frame("bin", FALSE), Frame("text", FALSE), Frame("ping", TRUE), Frame("cont", TRUE)>>,
             b |-> <<Frame("text", TRUE), Frame("text", TRUE)>>,
             c |-> <<Frame("ping", FALSE), Frame("text", TRUE), Frame("bin", TRUE),
                     Frame("pong", TRUE), Frame("close", TRUE)>>]
=============================================================================
