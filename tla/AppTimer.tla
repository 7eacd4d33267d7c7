------------------------------ MODULE AppTimer ------------------------------
(***************************************************************************)
(* cm/AppTimer.cpp: the timers of the Lua sessions, kept by a timer        *)
(* monitor of their own under the name (Para, flag), and the map of names  *)
(* to the timeval that cancels them.                                       *)
(*                                                                         *)
(* The monitor compares a timeval, a flag and the interface, which is the  *)
(* same object for every session: it does not know the Para.               *)
(***************************************************************************)
EXTENDS Naturals

CONSTANTS Paras,    \* the session handles given to _startTimer
          Flags,
          Lengths,  \* nMSec
          MaxTime   \* bound on the clock

ASSUME AppTimerAssumption == Lengths \subseteq Nat /\ MaxTime \in Nat

VARIABLES time,       \* gettimeofday()
          m_TimerMap, \* the monitor's entries [due, flag, p]
          m_ParaMap,  \* the names that are in the map, with their timeval
          swept       \* the names whose entry a cancellation for another name erased

timerVars == <<time, m_TimerMap, m_ParaMap, swept>>

Names == Paras \X Flags

NameEntry(p, f) == {m \in m_ParaMap : m.p = p /\ m.flag = f}

TimerInit == time = 0 /\ m_TimerMap = {} /\ m_ParaMap = {} /\ swept = {}

(* OPPTimerMonitor::CancelTimer, as it finds the entries.                   *)
Erased(map, due, f) == {t \in map : t.due = due /\ t.flag = f}

(* StartTimer adds the timer before it looks whether the name is taken, and *)
(* takes it back if so.                                                     *)
StartTimer(p, f, len) ==
    /\ time + len <= MaxTime
    /\ LET t     == [due |-> time + len, flag |-> f, p |-> p]
           added == m_TimerMap \cup {t}
       IN  IF NameEntry(p, f) = {}
           THEN /\ m_TimerMap' = added
                /\ m_ParaMap' = m_ParaMap \cup {t}
                /\ swept' = swept \ {<<p, f>>}
           ELSE /\ m_TimerMap' = added \ Erased(added, t.due, f)
                /\ swept' = swept \cup {<<u.p, f>> : u \in Erased(m_TimerMap, t.due, f)}
                /\ UNCHANGED m_ParaMap
    /\ UNCHANGED time

StopTimerLeavesName(p, f) ==   \* mutant
    \E m \in NameEntry(p, f) :
        /\ m_TimerMap' = m_TimerMap \ Erased(m_TimerMap, m.due, f)
        /\ UNCHANGED <<time, m_ParaMap, swept>>

StopTimer(p, f) ==
    \E m \in NameEntry(p, f) :
        /\ m_TimerMap' = m_TimerMap \ Erased(m_TimerMap, m.due, f)
        /\ m_ParaMap' = m_ParaMap \ {m}
        /\ swept' = (swept \cup {<<u.p, f>> : u \in Erased(m_TimerMap, m.due, f)}) \ {<<p, f>>}
        /\ UNCHANGED time

(* CheckExpires fires the first entry; OnNotify forgets its name, and       *)
(* OnTimeout tells the session.                                             *)
Due == {t \in m_TimerMap : t.due < time}

OnNotify(t) ==
    /\ t \in Due
    /\ \A u \in m_TimerMap : t.due <= u.due
    /\ m_TimerMap' = m_TimerMap \ {t}
    /\ m_ParaMap' = m_ParaMap \ NameEntry(t.p, t.flag)
    /\ swept' = swept \ {<<t.p, t.flag>>}
    /\ UNCHANGED time

Tick == time < MaxTime + 1 /\ time' = time + 1 /\ UNCHANGED <<m_TimerMap, m_ParaMap, swept>>
-----------------------------------------------------------------------------
TimerType ==
    LET entry == [due : 0 .. MaxTime, flag : Flags, p : Paras]
    IN  /\ time \in 0 .. MaxTime + 1
        /\ m_TimerMap \subseteq entry
        /\ m_ParaMap \subseteq entry
        /\ swept \subseteq Names

(* A timer of a session is pending exactly while its name is in the map,    *)
(* with the timeval that cancels it; a name is left without its timer only  *)
(* by a cancellation for a timer of another session that is due at the same *)
(* time, or by a second start for it.                                       *)
NamesFitTimers ==
    /\ m_TimerMap \subseteq m_ParaMap
    /\ \A m \in m_ParaMap \ m_TimerMap : <<m.p, m.flag>> \in swept
=============================================================================
