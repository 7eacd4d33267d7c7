---------------------------- MODULE MCTransaction ----------------------------
(***************************************************************************)
(* Transaction with the default times of OSIP_Transaction.h in ticks of    *)
(* 500 ms: T1 = 500, T2 = 4000, T4 = 5000, and the second of lateness that *)
(* TimerMonitor allows.                                                    *)
(***************************************************************************)
EXTENDS Transaction

MCT1    == 1
MCT2    == 8
MCT4    == 10
MCSlack == 2
=============================================================================
