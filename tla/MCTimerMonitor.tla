--------------------------- MODULE MCTimerMonitor ---------------------------
(***************************************************************************)
(* TimerMonitor with four clock units to the second: the lengths cover a   *)
(* timer without and with whole seconds, and from the clock's four phases  *)
(* each of them with and without a carry.                                  *)
(***************************************************************************)
EXTENDS TimerMonitor

MCSecond   == 4
MCLengths  == {1, 3, 4, 6}
MCMaxClock == 16
=============================================================================
