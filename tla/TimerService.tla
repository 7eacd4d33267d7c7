---------------------------- MODULE TimerService ----------------------------
(***************************************************************************)
(* What the timer facility promises to its clients (transactions,          *)
(* channels, devices, application timers), without its key arithmetic:     *)
(* a timer is a deadline, it never fires before the deadline, it overtakes *)
(* another timer by less than one second, and the client's timeval cancels *)
(* the timer that was armed with it last.  TimerMonitor implements this    *)
(* module.                                                                 *)
(***************************************************************************)
EXTENDS Naturals

CONSTANTS Second,   \* clock units in one second
          Ids,      \* names of pending timers
          Owners,   \* OPPTimerAware objects
          Flags,    \* the timer flags an owner uses
          Lengths,  \* timer lengths, in clock units
          MaxClock  \* bound on the clock

VARIABLES now,
          pending,  \* the timers; "named" are those that the client's timeval cancels
          fired     \* the timer whose OnTimeout the last step called

vars == <<now, pending, fired>>

Of(o, f) == {t \in pending : t.owner = o /\ t.flag = f}

Init == now = 0 /\ pending = {} /\ fired = {}

(* The timeval now names the new timer, and of the older ones of the same   *)
(* client at most some that are due at the same time.                       *)
Arm(o, f, len) ==
    \E id \in Ids, same \in SUBSET {t \in Of(o, f) : t.due = now + len} :
        /\ \A t \in pending : t.id # id
        /\ pending' = (pending \ Of(o, f))
                \cup {[t EXCEPT !.named = t \in same] : t \in Of(o, f)}
                \cup {[id |-> id, owner |-> o, flag |-> f, due |-> now + len, named |-> TRUE]}
        /\ fired' = {}
        /\ UNCHANGED now

Cancel(o, f) ==
    /\ pending' = {t \in pending : t \in Of(o, f) => ~t.named}
    /\ fired' = {}
    /\ UNCHANGED now

(* A timer fires strictly after its deadline, and no timer that was due a   *)
(* whole second before it is still waiting.                                 *)
Fire(t) ==
    /\ t.due < now
    /\ \A u \in pending : t.due < u.due + Second
    /\ pending' = pending \ {t}
    /\ fired' = {t.id}
    /\ UNCHANGED now

Advance == now < MaxClock /\ now' = now + 1 /\ fired' = {} /\ UNCHANGED pending

Next == \/ \E o \in Owners, f \in Flags, len \in Lengths : Arm(o, f, len)
        \/ \E o \in Owners, f \in Flags : Cancel(o, f)
        \/ \E t \in pending : Fire(t)
        \/ Advance

Spec == Init /\ [][Next]_vars
=============================================================================
