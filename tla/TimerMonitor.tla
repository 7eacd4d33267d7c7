---------------------------- MODULE TimerMonitor ----------------------------
(***************************************************************************)
(* common/OPPTimerMonitor.cpp: the multimap of pending timers, ordered by  *)
(* the struct timeval at which they expire, and the polling function that  *)
(* fires the first expired entry.                                          *)
(*                                                                         *)
(* AddTimer carries the microseconds into the seconds but does not take    *)
(* them off the microseconds, so a key may hold up to two seconds in its   *)
(* usec field; the map orders the keys as they are.  The module keeps the  *)
(* exact key arithmetic, with one second = Second clock units.             *)
(***************************************************************************)
EXTENDS Integers

CONSTANTS Second,   \* clock units in one second (1000000 in the code)
          Ids,      \* names of multimap entries: how many may be pending at once
          Owners,   \* OPPTimerAware objects
          Flags,    \* the timer flags an owner uses
          Lengths,  \* nMSec arguments, in clock units
          MaxClock  \* bound on the clock

ASSUME SecondAssumption == Second \in Nat \ {0}
ASSUME LengthsAssumption == Lengths \subseteq Nat
ASSUME MaxClockAssumption == MaxClock \in Nat

VARIABLES now,     \* gettimeofday(), in clock units
          timers,  \* m_TimerMap; "due" is the deadline the client asked for
          handle,  \* the timeval each client keeps for CancelTimer
          fired    \* the entry whose OnTimeout the last step called

vars == <<now, timers, handle, fired>>

NoTime == [sec |-> -1, usec |-> 0]

(* timeval_sort: lexicographic, on fields that need not be normalised (a    *)
(* variant that the properties must reject compares field by field).        *)
BeforeByFields(k1, k2) == k1.sec <= k2.sec /\ k1.usec < k2.usec

Before(k1, k2) == \/ k1.sec < k2.sec
                  \/ k1.sec = k2.sec /\ k1.usec < k2.usec

(* gettimeofday() returns normalised fields.                                *)
TimeOfDay(t) == [sec |-> t \div Second, usec |-> t % Second]

(* Variants of Key that the properties must reject: the carry is taken off  *)
(* usec and lost, it is given to sec twice.                                 *)
KeyLosesCarry(t, len) ==
    [sec  |-> (t \div Second) + (len \div Second),
     usec |-> ((t % Second) + (len % Second)) % Second]

KeyCarriesTwice(t, len) ==
    LET usec == (t % Second) + (len % Second)
    IN  [sec  |-> (t \div Second) + (len \div Second) + 2 * (usec \div Second),
         usec |-> usec]

(* The key AddTimer computes for a timer of length len started at t.        *)
Key(t, len) ==
    LET usec == (t % Second) + (len % Second)
    IN  [sec  |-> (t \div Second) + (len \div Second) + (usec \div Second),
         usec |-> usec]

Expired(t) == Before(t.key, TimeOfDay(now))

Init == /\ now = 0
        /\ timers = {}
        /\ handle = [o \in Owners |-> [f \in Flags |-> NoTime]]
        /\ fired = {}

AddTimer(o, f, len) ==
    /\ now + len + 2 * Second <= MaxClock
    /\ \E id \in Ids :
        /\ \A t \in timers : t.id # id
        /\ timers' = timers \cup
              {[id |-> id, key |-> Key(now, len), owner |-> o, flag |-> f,
                due |-> now + len]}
    /\ handle' = [handle EXCEPT ![o][f] = Key(now, len)]
    /\ fired' = {}
    /\ UNCHANGED now

(* CancelTimer erases every entry whose key equals the client's timeval and *)
(* that has its flag and its interface; it marks the timeval only when it   *)
(* erased something.                                                        *)
CancelTimer(o, f) ==
    LET found == {t \in timers : t.key = handle[o][f] /\ t.owner = o /\ t.flag = f}
    IN  /\ found # {}
        /\ timers' = timers \ found
        /\ handle' = [handle EXCEPT ![o][f] = [@ EXCEPT !.sec = -1]]
        /\ fired' = {}
        /\ UNCHANGED now

(* One call of CheckExpires that fires: the first entry of the map, if its  *)
(* key is strictly before the time of day.  The handle keeps its old value. *)
CheckExpires ==
    \E t \in timers :
        /\ \A u \in timers : ~Before(u.key, t.key)
        /\ Expired(t)
        /\ timers' = timers \ {t}
        /\ fired' = {t.id}
        /\ UNCHANGED <<now, handle>>

Advance == now < MaxClock /\ now' = now + 1 /\ fired' = {} /\ UNCHANGED <<timers, handle>>

Next == \/ \E o \in Owners, f \in Flags, len \in Lengths : AddTimer(o, f, len)
        \/ \E o \in Owners, f \in Flags : CancelTimer(o, f)
        \/ CheckExpires
        \/ Advance

Spec == Init /\ [][Next]_vars

(* The dispatch loop calls CheckExpires until it returns 0 and time passes. *)
FairSpec == Spec /\ WF_vars(CheckExpires) /\ WF_vars(Advance)
-----------------------------------------------------------------------------
KeyType == [sec : Nat \cup {-1}, usec : 0 .. 2 * Second - 1]

(* The types of the clock, of the pending entries and of the handles        *)
(* AddTimer and CancelTimer write.                                          *)
TypeOK ==
    /\ now \in 0 .. MaxClock
    /\ timers \subseteq [id : Ids, key : KeyType, owner : Owners, flag : Flags, due : Nat]
    /\ handle \in [Owners -> [Flags -> KeyType]]
    /\ fired \subseteq Ids

(* When CheckExpires finds nothing to fire, no pending timer is overdue by  *)
(* a second or more: the carry AddTimer leaves in usec delays a timer to    *)
(* the next whole second and not further.                                   *)
LatenessBounded ==
    (\A t \in timers : ~Expired(t)) => \A t \in timers : now < t.due + Second

(* CheckExpires fires timers strictly after their deadline and overtakes an *)
(* earlier deadline by less than one second; CancelTimer removes the timer  *)
(* that its timeval was set for, and no other that is due at another time.  *)
Service == INSTANCE TimerService WITH
    pending <- {[id |-> t.id, owner |-> t.owner, flag |-> t.flag, due |-> t.due,
                 named |-> t.key = handle[t.owner][t.flag]] : t \in timers}
ImplementsTimerService == Service!Spec

(* Every timer ends, fired by the polling loop or cancelled: none is left   *)
(* behind by an entry that blocks the head of the map.                      *)
EveryTimerEnds ==
    \A id \in Ids : (\E t \in timers : t.id = id) ~> (\A t \in timers : t.id # id)
=============================================================================
