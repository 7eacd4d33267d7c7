------------------------- MODULE Registration_proofs -------------------------
(***************************************************************************)
(* Proofs about Registration, for all times that satisfy TimesAssumption   *)
(* and all expiry times a registrar may grant.  The invariant relates each *)
(* timer to the REGISTER it waits for: the timer ends after the            *)
(* transaction does, so a timer that is due finds nothing in flight.       *)
(***************************************************************************)
EXTENDS Registration, TLAPS

Requests == [auth : BOOLEAN, left : Int]

(* The timeval is set exactly while the entry is in the monitor, no entry   *)
(* was overwritten, and none is overdue by more than Slack.                 *)
TimerSound(t) ==
    /\ t \in TimerType
    /\ ~t.lost
    /\ t.set <=> Pending(t)
    /\ Pending(t) => t.left >= -Slack

(* The timer that runs while r is in flight, and outlives it.               *)
Covered(r) ==
    /\ r.left >= -Slack /\ r.left <= Life
    /\ IF r.auth THEN Pending(refresh) /\ refresh.left = r.left + Retry - Life
                 ELSE Pending(fail) /\ fail.left = r.left + NoResponse - Life

FlightSound ==
    \/ flight = <<>>
    \/ \E r \in Requests : flight = <<r>> /\ Covered(r)

SeenType == seen \in [binding : Nat, short : BOOLEAN, trouble : BOOLEAN, since : 0 .. Retry]

(* Until the default refresh time is over since the credentials were sent,  *)
(* the refresh stays pending and does not come earlier.                     *)
PaceSound == seen.since = Retry \/ (Pending(refresh) /\ refresh.left + seen.since >= Retry)

(* A binding that should last outlasts the refresh, even a late one.        *)
BindingSound ==
    flight = <<>> /\ ~seen.short /\ ~seen.trouble
        => Pending(refresh) /\ seen.binding > refresh.left + Slack

IInv ==
    /\ TimerSound(refresh)
    /\ TimerSound(fail)
    /\ Pending(refresh) => ~Pending(fail)
    /\ Pending(refresh) \/ Pending(fail) \/ down
    /\ FlightSound
    /\ down \in BOOLEAN
    /\ SeenType
    /\ PaceSound
    /\ BindingSound
-----------------------------------------------------------------------------
(* Without, of the only REGISTER in flight, leaves none.                    *)
LEMMA LastOne ==
    ASSUME NEW r \in Requests, flight = <<r>>, NEW i \in DOMAIN flight
    PROVE  i = 1 /\ Without(i) = <<>> /\ flight[i] = r
<1>1. Len(flight) = 1 /\ i = 1 /\ flight[i] = r
  OBVIOUS
<1>2. 1 .. Len(flight) - 1 = {}
  BY <1>1
<1> QED
  BY <1>1, <1>2 DEF Without

(* A REGISTER appended to an empty flight is the only one.                  *)
LEMMA OnlyOne ==
    ASSUME NEW r \in Requests
    PROVE  Append(<<>>, r) = <<r>>
OBVIOUS

(* Arming a timer that is not pending and cancelling or firing any keeps it *)
(* sound.                                                                   *)
LEMMA TimerSteps ==
    ASSUME NEW t, TimerSound(t), NEW len \in Nat
    PROVE  /\ ~Pending(t) => /\ TimerSound(Armed(t, len))
                             /\ Pending(Armed(t, len))
                             /\ Armed(t, len).left = len
           /\ TimerSound(Cancelled(t)) /\ ~Pending(Cancelled(t))
           /\ TimerSound(Fired(t)) /\ ~Pending(Fired(t))
<1> Slack \in Nat
  BY TimesAssumption
<1>0. t \in [left : Int, set : BOOLEAN, lost : BOOLEAN]
  BY DEF TimerSound, TimerType
<1>1. ASSUME ~Pending(t)
      PROVE  TimerSound(Armed(t, len)) /\ Pending(Armed(t, len)) /\ Armed(t, len).left = len
  <2>1. (t.lost \/ Pending(t)) = FALSE
    BY <1>1 DEF TimerSound
  <2>2. Armed(t, len) = [left |-> len, set |-> TRUE, lost |-> FALSE]
    BY <2>1 DEF Armed
  <2> QED
    BY <2>2 DEF TimerSound, TimerType, Pending, Off
<1>2. TimerSound(Fired(t)) /\ ~Pending(Fired(t))
  <2>1. Off \in Int
    BY DEF Off
  <2>2. Fired(t) = [left |-> Off, set |-> FALSE, lost |-> t.lost]
    <3> DEFINE off == Off
    <3>1. Fired(t) = [t EXCEPT !.left = off, !.set = FALSE]
      BY DEF Fired
    <3> HIDE DEF off
    <3>2. Fired(t) = [left |-> off, set |-> FALSE, lost |-> t.lost]
      BY <1>0, <3>1
    <3> QED
      BY <3>2 DEF off
  <2>3. ~t.lost /\ t.lost \in BOOLEAN
    BY <1>0 DEF TimerSound
  <2> QED
    BY <2>1, <2>2, <2>3 DEF TimerSound, TimerType, Pending
<1>3. TimerSound(Cancelled(t)) /\ ~Pending(Cancelled(t))
  <2>1. CASE t.set
    BY <1>2, <2>1 DEF Cancelled, Fired
  <2>2. CASE ~t.set
    BY <2>2 DEF Cancelled, TimerSound
  <2> QED
    BY <2>1, <2>2
<1> QED
  BY <1>1, <1>2, <1>3

(* What the properties look back at keeps its type when a REGISTER fails.   *)
LEMMA HeardType ==
    SeenType => /\ Heard \in [binding : Nat, short : BOOLEAN, trouble : BOOLEAN, since : 0 .. Retry]
                /\ Heard.trouble /\ Heard.since = seen.since
BY DEF SeenType, Heard
-----------------------------------------------------------------------------
LEMMA InitInvariant == Init => IInv
<1> SUFFICES ASSUME Init PROVE IInv
  OBVIOUS
<1>0. Retry \in Nat /\ NoResponse \in Nat /\ Life \in Nat /\ Slack \in Nat
  BY TimesAssumption
<1>1. TimerSound(Unset) /\ ~Pending(Unset)
  <2>1. Off \in Int
    BY <1>0 DEF Off
  <2> QED
    BY <2>1 DEF TimerSound, TimerType, Unset, Pending
<1>2. TimerSound(Armed(Unset, NoResponse)) /\ Pending(Armed(Unset, NoResponse))
      /\ Armed(Unset, NoResponse).left = NoResponse
  BY <1>0, <1>1, TimerSteps
<1>3. SeenType /\ PaceSound /\ BindingSound
  BY <1>0 DEF Init, SeenType, PaceSound, BindingSound
<1>4. CASE flight = <<>> /\ fail = Unset /\ down = TRUE
  BY <1>1, <1>3, <1>4 DEF Init, IInv, FlightSound
<1>5. CASE flight = <<Request(FALSE)>> /\ fail = Armed(Unset, NoResponse) /\ down = FALSE
  <2>1. Request(FALSE) \in Requests /\ Covered(Request(FALSE))
    BY <1>0, <1>2, <1>5 DEF Request, Requests, Covered
  <2> QED
    BY <1>1, <1>2, <1>3, <1>5, <2>1 DEF Init, IInv, FlightSound
<1> QED
  BY <1>4, <1>5 DEF Init

(* A timer that is due has outlived the REGISTER it covers.                 *)
LEMMA DueFindsNothing ==
    ASSUME IInv, Due(refresh) \/ Due(fail)
    PROVE  flight = <<>>
<1>0. /\ Retry \in Nat /\ NoResponse \in Nat /\ Life \in Nat /\ Slack \in Nat
      /\ Life + Slack < Retry /\ Life + Slack < NoResponse
  BY TimesAssumption
<1>1. ASSUME NEW r \in Requests, flight = <<r>>, Covered(r) PROVE FALSE
  <2>1. r.left \in Int /\ r.auth \in BOOLEAN /\ refresh.left \in Int /\ fail.left \in Int
    BY DEF Requests, IInv, TimerSound, TimerType
  <2> QED
    BY <1>0, <1>1, <2>1 DEF Covered, Due, IInv
<1> QED
  BY <1>1 DEF IInv, FlightSound

(* Register keeps the invariant when neither timer is pending any more.     *)
LEMMA RegisterStep ==
    ASSUME IInv, flight = <<>>, seen.since = Retry, NEW after, TimerSound(after), ~Pending(after), Register(after),
           TimerSound(refresh)', ~Pending(refresh)'
    PROVE  IInv'
<1>0. Retry \in Nat /\ NoResponse \in Nat /\ Life \in Nat /\ Slack \in Nat
  BY TimesAssumption
<1>1. CASE flight' = Append(flight, Request(FALSE)) /\ fail' = Armed(after, NoResponse)
           /\ UNCHANGED <<down, seen>>
  <2>1. TimerSound(fail)' /\ Pending(fail)' /\ fail'.left = NoResponse
    BY <1>0, <1>1, TimerSteps DEF TimerSound, Pending
  <2>2. Request(FALSE) \in Requests /\ Covered(Request(FALSE))'
    BY <1>0, <2>1 DEF Request, Requests, Covered
  <2>3. flight' = <<Request(FALSE)>>
    BY <1>1, <2>2, OnlyOne
  <2>4. flight' # <<>>
    BY <2>3
  <2>5. PaceSound' /\ BindingSound'
    BY <1>1, <2>4 DEF PaceSound, BindingSound
  <2> QED
    BY <1>1, <2>1, <2>2, <2>3, <2>5 DEF IInv, FlightSound, SeenType
<1>2. CASE fail' = after /\ down' = TRUE /\ seen' = Heard /\ UNCHANGED flight
  <2>1. TimerSound(fail)' /\ ~Pending(fail)'
    BY <1>2 DEF TimerSound, Pending
  <2>2. SeenType' /\ seen'.trouble /\ seen'.since = seen.since
    BY <1>2, HeardType DEF IInv, SeenType
  <2>3. PaceSound' /\ BindingSound'
    BY <2>2 DEF PaceSound, BindingSound
  <2> QED
    BY <1>2, <2>1, <2>2, <2>3 DEF IInv, FlightSound
<1> QED
  BY <1>1, <1>2 DEF Register

(* After Schedule the refresh is pending and the wait for a response over;  *)
(* a refresh that was not pending ends after the given time.                *)
LEMMA ScheduleStep ==
    ASSUME IInv, NEW len \in Nat, Schedule(len)
    PROVE  /\ TimerSound(refresh)' /\ Pending(refresh)'
           /\ TimerSound(fail)' /\ ~Pending(fail)'
           /\ down' \in BOOLEAN
           /\ IF refresh.set THEN refresh' = refresh ELSE refresh'.left = len
           /\ seen'.since = seen.since => PaceSound'
<1>1. TimerSound(fail)' /\ ~Pending(fail)'
  BY TimerSteps DEF IInv, Schedule, TimerSound, Pending
<1>2. (refresh.set <=> Pending(refresh)) /\ TimerSound(refresh)
  BY DEF IInv, TimerSound
<1>3. /\ TimerSound(refresh)' /\ Pending(refresh)'
      /\ IF refresh.set THEN refresh' = refresh ELSE refresh'.left = len
  BY <1>2, TimerSteps DEF Schedule, TimerSound, Pending
<1>4. ASSUME seen'.since = seen.since PROVE PaceSound'
  <2>1. CASE refresh.set
    BY <1>3, <1>4, <2>1 DEF IInv, PaceSound
  <2>2. CASE ~refresh.set
    BY <1>2, <1>4, <2>2 DEF IInv, PaceSound
  <2> QED
    BY <2>1, <2>2
<1> QED
  BY <1>1, <1>3, <1>4 DEF IInv, Schedule
-----------------------------------------------------------------------------
LEMMA NextInvariant == IInv /\ [Next]_vars => IInv'
<1> SUFFICES ASSUME IInv, [Next]_vars PROVE IInv'
  OBVIOUS
<1>0. /\ Retry \in Nat /\ NoResponse \in Nat /\ Life \in Nat /\ Slack \in Nat
      /\ Grants \subseteq Nat
  BY TimesAssumption
<1>1. ASSUME NEW i \in DOMAIN flight
      PROVE  Without(i) = <<>> /\ \E r \in Requests : flight = <<r>> /\ flight[i] = r /\ Covered(r)
  <2>1. PICK r \in Requests : flight = <<r>> /\ Covered(r)
    BY <1>1 DEF IInv, FlightSound
  <2> QED
    BY <2>1, LastOne
<1>2. ASSUME NEW i \in DOMAIN flight, Challenge(i) PROVE IInv'
  <2>1. Schedule(DefaultRefresh) /\ DefaultRefresh \in Nat
    BY <1>0, <1>2 DEF Challenge, DefaultRefresh
  <2>2. /\ TimerSound(refresh)' /\ Pending(refresh)'
        /\ TimerSound(fail)' /\ ~Pending(fail)'
        /\ down' \in BOOLEAN
        /\ IF refresh.set THEN refresh' = refresh ELSE refresh'.left = DefaultRefresh
        /\ seen'.since = seen.since => PaceSound'
    BY <2>1, ScheduleStep
  <2>3. CASE ~refresh.set /\ flight' = Append(Without(i), Request(TRUE)) /\ seen' = [seen EXCEPT !.since = 0]
    <3>1. Request(TRUE) \in Requests /\ Covered(Request(TRUE))'
      BY <1>0, <2>2, <2>3 DEF Request, Requests, Covered, DefaultRefresh
    <3>2. flight' = <<Request(TRUE)>>
      BY <1>1, <2>3, <3>1, OnlyOne
    <3>3. SeenType' /\ seen'.since = 0
      BY <1>0, <2>3 DEF IInv, SeenType
    <3>4. PaceSound'
      BY <1>0, <2>2, <2>3, <3>3 DEF PaceSound, DefaultRefresh
    <3>5. flight' # <<>>
      BY <3>2
    <3> QED
      BY <2>2, <3>1, <3>2, <3>3, <3>4, <3>5 DEF IInv, FlightSound, BindingSound
  <2>4. CASE flight' = Without(i) /\ seen' = Heard
    <3>1. SeenType' /\ seen'.trouble /\ seen'.since = seen.since
      BY <2>4, HeardType DEF IInv, SeenType
    <3> QED
      BY <1>1, <2>2, <2>4, <3>1 DEF IInv, FlightSound, BindingSound
  <2> QED
    BY <1>2, <2>3, <2>4 DEF Challenge, Register_With_Authentication, Unheeded
<1>3. ASSUME NEW i \in DOMAIN flight, Refused(i) PROVE IInv'
  <2>1. /\ TimerSound(refresh)' /\ Pending(refresh)'
        /\ TimerSound(fail)' /\ ~Pending(fail)'
        /\ down' \in BOOLEAN
        /\ seen'.since = seen.since => PaceSound'
    BY <1>0, <1>3, ScheduleStep DEF Refused, DefaultRefresh
  <2>2. SeenType' /\ seen'.trouble /\ seen'.since = seen.since
    BY <1>3, HeardType DEF Refused, Unheeded, IInv, SeenType
  <2> QED
    BY <1>1, <1>3, <2>1, <2>2 DEF Refused, Unheeded, IInv, FlightSound, BindingSound
<1>4. ASSUME NEW i \in DOMAIN flight, NEW exp \in Grants, Granted(i, exp) PROVE IInv'
  <2>0. exp \in Nat /\ RefreshAfter(exp) \in Nat
    BY <1>0 DEF RefreshAfter
  <2>1. /\ TimerSound(refresh)' /\ Pending(refresh)'
        /\ TimerSound(fail)' /\ ~Pending(fail)'
        /\ down' \in BOOLEAN
        /\ IF refresh.set THEN refresh' = refresh ELSE refresh'.left = RefreshAfter(exp)
        /\ seen'.since = seen.since => PaceSound'
    BY <1>4, <2>0, ScheduleStep DEF Granted
  <2>2. /\ SeenType'
        /\ seen'.since = seen.since /\ seen'.binding = exp
        /\ ~seen'.short => exp > Slack + (IF refresh.set THEN Retry ELSE Slack)
    <3> DEFINE short == exp <= Slack + (IF refresh.set THEN Retry ELSE Slack)
    <3>1. short \in BOOLEAN
      OBVIOUS
    <3>2. seen' = [seen EXCEPT !.binding = exp, !.trouble = FALSE, !.short = short]
      BY <1>4 DEF Granted
    <3>3. ~short => exp > Slack + (IF refresh.set THEN Retry ELSE Slack)
      BY <1>0, <2>0
    <3> HIDE DEF short
    <3>4. SeenType' /\ seen'.since = seen.since /\ seen'.binding = exp /\ seen'.short = short
      BY <2>0, <3>1, <3>2 DEF IInv, SeenType
    <3> QED
      BY <3>3, <3>4
  <2>3. ASSUME ~seen'.short PROVE exp > refresh'.left + Slack
    <3>1. CASE refresh.set
      <4>1. PICK r \in Requests : Covered(r)
        BY <1>1
      <4>2. Pending(refresh) /\ ~Pending(fail)
        BY <3>1 DEF IInv, TimerSound
      <4>3. refresh.left = r.left + Retry - Life /\ r.left <= Life /\ r.left \in Int
        BY <4>1, <4>2 DEF Covered, Requests
      <4> QED
        BY <1>0, <2>0, <2>1, <2>2, <2>3, <3>1, <4>3
    <3>2. CASE ~refresh.set
      BY <1>0, <2>0, <2>1, <2>2, <2>3, <3>2 DEF RefreshAfter
    <3> QED
      BY <3>1, <3>2
  <2>4. BindingSound'
    BY <2>1, <2>2, <2>3 DEF BindingSound
  <2> QED
    BY <1>1, <1>4, <2>1, <2>2, <2>4 DEF Granted, IInv, FlightSound
<1>5. ASSUME NEW i \in DOMAIN flight, flight' = Without(i), seen' = Heard,
             UNCHANGED <<refresh, fail, down>>
      PROVE  IInv'
  <2>1. SeenType' /\ seen'.trouble /\ seen'.since = seen.since
    BY <1>5, HeardType DEF IInv, SeenType
  <2>2. PaceSound' /\ BindingSound'
    BY <1>5, <2>1 DEF IInv, PaceSound, BindingSound, Pending
  <2> QED
    BY <1>1, <1>5, <2>1, <2>2 DEF IInv, FlightSound, TimerSound, Pending
<1>6. ASSUME OnTimeoutNoResponse PROVE IInv'
  <2>1. Due(fail) /\ Register(Fired(fail)) /\ UNCHANGED refresh /\ flight = <<>>
    BY <1>6, DueFindsNothing DEF OnTimeoutNoResponse
  <2>2. TimerSound(Fired(fail)) /\ ~Pending(Fired(fail))
    BY TimerSteps DEF IInv
  <2>3. TimerSound(refresh)' /\ ~Pending(refresh)'
    BY <2>1 DEF IInv, Due, TimerSound, Pending
  <2>4. seen.since = Retry
    BY <2>1 DEF IInv, Due, PaceSound
  <2> QED
    BY <2>1, <2>2, <2>3, <2>4, RegisterStep
<1>7. ASSUME OnTimeoutRegister PROVE IInv'
  <2>1. Due(refresh) /\ Register(fail) /\ refresh' = Fired(refresh) /\ flight = <<>>
    BY <1>7, DueFindsNothing DEF OnTimeoutRegister
  <2>2. TimerSound(fail) /\ ~Pending(fail)
    BY <2>1 DEF IInv, Due
  <2>3. TimerSound(refresh)' /\ ~Pending(refresh)'
    BY <2>1, TimerSteps DEF IInv, TimerSound, Pending
  <2>4. seen.since = Retry
    <3>1. refresh.left <= 0 /\ refresh.left \in Int /\ seen.since \in 0 .. Retry
      BY <2>1 DEF IInv, Due, TimerSound, TimerType, SeenType
    <3> QED
      BY <1>0, <3>1 DEF IInv, PaceSound
  <2> QED
    BY <2>1, <2>2, <2>3, <2>4, RegisterStep
<1>8. ASSUME Tick PROVE IInv'
  <2>1. ASSUME NEW t, NEW u, TimerSound(t), ~Late(t.left),
               u = IF Pending(t) THEN [t EXCEPT !.left = @ - 1] ELSE t
        PROVE  /\ TimerSound(u) /\ Pending(u) = Pending(t)
               /\ Pending(t) => u.left = t.left - 1
    <3>1. t \in [left : Int, set : BOOLEAN, lost : BOOLEAN]
      BY <2>1 DEF TimerSound, TimerType
    <3>2. CASE Pending(t)
      BY <1>0, <2>1, <3>1, <3>2 DEF TimerSound, TimerType, Pending, Late, Off
    <3>3. CASE ~Pending(t)
      BY <2>1, <3>3
    <3> QED
      BY <3>2, <3>3
  <2>2. /\ TimerSound(refresh)' /\ Pending(refresh)' = Pending(refresh)
        /\ Pending(refresh) => refresh'.left = refresh.left - 1
    BY <1>8, <2>1 DEF IInv, Tick, TimerSound, Pending
  <2>3. /\ TimerSound(fail)' /\ Pending(fail)' = Pending(fail)
        /\ Pending(fail) => fail'.left = fail.left - 1
    BY <1>8, <2>1 DEF IInv, Tick, TimerSound, Pending
  <2>4. /\ SeenType'
        /\ seen'.binding = (IF seen.binding > 0 THEN seen.binding - 1 ELSE 0)
        /\ seen'.since = (IF seen.since < Retry THEN seen.since + 1 ELSE Retry)
        /\ seen'.short = seen.short /\ seen'.trouble = seen.trouble
    <3> DEFINE binding == IF seen.binding > 0 THEN seen.binding - 1 ELSE 0
               since == IF seen.since < Retry THEN seen.since + 1 ELSE Retry
    <3>0. seen.binding \in Nat /\ seen.since \in 0 .. Retry
      BY DEF IInv, SeenType
    <3>1. binding \in Nat /\ since \in 0 .. Retry
      BY <1>0, <3>0
    <3>2. seen' = [seen EXCEPT !.binding = binding, !.since = since]
      BY <1>8 DEF Tick
    <3> HIDE DEF binding, since
    <3>3. SeenType' /\ seen'.binding = binding /\ seen'.since = since
          /\ seen'.short = seen.short /\ seen'.trouble = seen.trouble
      BY <3>1, <3>2 DEF IInv, SeenType
    <3> QED
      BY <3>3 DEF binding, since
  <2>5. FlightSound'
    <3>1. CASE flight = <<>>
      BY <1>8, <3>1 DEF Tick, FlightSound
    <3>2. ASSUME NEW r \in Requests, flight = <<r>>, Covered(r) PROVE FlightSound'
      <4> DEFINE q == [r EXCEPT !.left = @ - 1]
      <4>1. flight' = <<q>>
        BY <1>8, <3>2 DEF Tick
      <4>2. ~Late(r.left)
        BY <1>8, <3>2 DEF Tick
      <4>3. q \in Requests /\ q.left = r.left - 1 /\ q.auth = r.auth /\ r.left \in Int
        BY DEF Requests
      <4>4. refresh.left \in Int /\ fail.left \in Int
        BY DEF IInv, TimerSound, TimerType
      <4>5. q.left >= -Slack
        BY <1>0, <3>2, <4>2, <4>3 DEF Late, Covered, Off
      <4>6. Covered(q)'
        BY <1>0, <2>2, <2>3, <3>2, <4>3, <4>4, <4>5 DEF Covered
      <4> QED
        BY <4>1, <4>3, <4>6 DEF FlightSound
    <3> QED
      BY <3>1, <3>2 DEF IInv, FlightSound
  <2>6. refresh.left \in Int /\ seen.binding \in Nat /\ seen.since \in 0 .. Retry
    BY DEF IInv, TimerSound, TimerType, SeenType
  <2>7. PaceSound'
    BY <1>0, <2>2, <2>4, <2>6 DEF IInv, PaceSound
  <2>8. BindingSound'
    <3>1. (flight' = <<>>) => (flight = <<>>)
      BY <1>8 DEF Tick, IInv, FlightSound
    <3>2. Pending(refresh) => refresh.left >= -Slack
      BY DEF IInv, TimerSound
    <3>3. flight = <<>> /\ ~seen.short /\ ~seen.trouble
              => Pending(refresh) /\ seen.binding > refresh.left + Slack
      BY DEF IInv, BindingSound
    <3> QED
      BY <1>0, <2>2, <2>4, <2>6, <3>1, <3>2, <3>3 DEF BindingSound
  <2> QED
    BY <1>8, <2>2, <2>3, <2>4, <2>5, <2>7, <2>8 DEF IInv, Tick
<1>9. CASE UNCHANGED vars
  BY <1>9 DEF vars, IInv, TimerSound, Pending, FlightSound, Covered, SeenType, PaceSound, BindingSound
<1> QED
  BY <1>2, <1>3, <1>4, <1>5, <1>6, <1>7, <1>8, <1>9
     DEF Next, Timeout, OnRegisterResult, Redirected, Unanswered, Unheeded

LEMMA Invariance == Spec => []IInv
BY InitInvariant, NextInvariant, PTL DEF Spec

(* The timers and transactions have their types, and there is never more    *)
(* than one REGISTER without an answer.                                     *)
THEOREM TypeCorrect == Spec => []TypeOK
<1>1. IInv => TypeOK
  <2> SUFFICES ASSUME IInv PROVE TypeOK
    OBVIOUS
  <2>1. flight \in Seq(Requests) /\ Len(flight) <= 1
    <3>1. CASE flight = <<>>
      BY <3>1
    <3>2. ASSUME NEW r \in Requests, flight = <<r>> PROVE flight \in Seq(Requests) /\ Len(flight) <= 1
      BY <3>2
    <3> QED
      BY <3>1, <3>2 DEF IInv, FlightSound
  <2> QED
    BY <2>1 DEF IInv, TimerSound, SeenType, TypeOK, Requests
<1> QED
  BY <1>1, Invariance, PTL

(* While every REGISTER could be sent exactly one of the refresh timer and  *)
(* the no-response timer runs, and neither is armed over a pending one,     *)
(* whatever OnRegisterResult is given and however late the timers fire.     *)
THEOREM OneTimer == Spec => []OneTimerRuns
<1>1. IInv => OneTimerRuns
  BY DEF IInv, TimerSound, OneTimerRuns
<1> QED
  BY <1>1, Invariance, PTL

(* A binding that the registrar granted for long enough, and that no        *)
(* failed REGISTER interrupts, is renewed in time: half of the expiry, and  *)
(* the lateness of the timer, are over before it runs out.                  *)
THEOREM Refreshed == Spec => []BindingRefreshed
<1>1. IInv => BindingRefreshed
  <2> SUFFICES ASSUME IInv, seen.binding = 0, ~seen.short, ~seen.trouble, flight = <<>>
               PROVE  FALSE
    BY DEF BindingRefreshed
  <2>1. Pending(refresh) /\ 0 > refresh.left + Slack
    BY DEF IInv, BindingSound
  <2>2. refresh.left >= -Slack /\ refresh.left \in Int /\ Slack \in Nat
    BY <2>1, TimesAssumption DEF IInv, TimerSound, TimerType
  <2> QED
    BY <2>1, <2>2
<1> QED
  BY <1>1, Invariance, PTL

(* Credentials are sent at most once in the default refresh time, however   *)
(* often the registrar challenges.                                          *)
THEOREM Paced == Spec => CredentialsPaced
<1>1. IInv /\ [Next]_vars => [seen'.since = 0 /\ seen.since # 0 => seen.since >= Retry]_vars
  <2> SUFFICES ASSUME IInv, Next, seen'.since = 0, seen.since # 0 PROVE seen.since >= Retry
    BY DEF vars
  <2>0. /\ Retry \in Nat /\ Retry # 0 /\ seen.since \in 0 .. Retry
        /\ Heard.since = seen.since
    BY TimesAssumption, HeardType DEF IInv, SeenType
  <2>1. ASSUME NEW i \in DOMAIN flight, Challenge(i) PROVE seen.since >= Retry
    <3>1. CASE ~refresh.set
      BY <2>0, <3>1 DEF IInv, TimerSound, PaceSound
    <3>2. CASE seen' = Heard
      BY <2>0, <3>2
    <3> QED
      BY <2>1, <3>1, <3>2 DEF Challenge, Unheeded
  <2>2. ASSUME NEW i \in DOMAIN flight, NEW exp \in Grants, Granted(i, exp) PROVE seen'.since = seen.since
    BY <2>2 DEF Granted, IInv, SeenType
  <2>3. ASSUME Tick PROVE seen'.since # 0
    BY <2>0, <2>3 DEF Tick, IInv, SeenType
  <2>4. ASSUME NEW after, Register(after) PROVE seen'.since = seen.since
    BY <2>0, <2>4 DEF Register
  <2> QED
    BY <2>0, <2>1, <2>2, <2>3, <2>4
       DEF Next, Timeout, OnRegisterResult, Redirected, Unanswered, Refused, Unheeded,
           OnTimeoutNoResponse, OnTimeoutRegister
<1> QED
  BY <1>1, Invariance, PTL DEF Spec, CredentialsPaced

=============================================================================
