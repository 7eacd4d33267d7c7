---------------------------- MODULE Registration ----------------------------
(***************************************************************************)
(* A device that registers at a registrar (OPPSipRegisterDev in            *)
(* ua/OPPSipChannel.cpp): the REGISTER transactions in flight, the timer   *)
(* that refreshes the registration and the one that tries again when no    *)
(* answer came.  Each action is one call of OnRegisterResult or OnTimeout, *)
(* or the silent end of a transaction (Transaction shows that it lives at  *)
(* most 64 * T1 and tells one final response).  A timer fires at most      *)
(* Slack ticks late (TimerMonitor).                                        *)
(***************************************************************************)
EXTENDS Integers, Sequences

CONSTANTS Retry,       \* nExp when no expiry was granted: 60 s
          NoResponse,  \* TIMEOUT_REGISTER_NO_RESPONSE: 300 s
          Life,        \* timer F of a REGISTER transaction: 32 s
          Slack,       \* how late the dispatch loop fires a timer
          Grants       \* expiry times a registrar may grant

ASSUME TimesAssumption ==
    /\ Retry \in Nat /\ NoResponse \in Nat /\ Life \in Nat /\ Slack \in Nat
    /\ Life + Slack < Retry /\ Life + Slack < NoResponse
    /\ Grants \subseteq Nat

VARIABLES refresh,  \* m_reg_on_timeout and its entry in OPPTimerMonitor
          fail,     \* m_reg_on_fail and its entry
          flight,   \* the REGISTER transactions without a final response
          down,     \* a REGISTER could not be built or sent
          seen      \* what the properties look back at

vars == <<refresh, fail, flight, down, seen>>
-----------------------------------------------------------------------------
Off == -(Slack + 2)

Unset == [left |-> Off, set |-> FALSE, lost |-> FALSE]

Pending(t) == t.left # Off

(* AddTimer overwrites the timeval; an entry still pending would be lost.   *)
Armed(t, len) == [left |-> len, set |-> TRUE, lost |-> t.lost \/ Pending(t)]

Cancelled(t) == IF t.set THEN [t EXCEPT !.left = Off, !.set = FALSE] ELSE t

(* The handlers of the timers clear the timeval.                            *)
Fired(t) == [t EXCEPT !.left = Off, !.set = FALSE]

Due(t) == Pending(t) /\ t.left <= 0

Request(auth) == [auth |-> auth, left |-> Life]

Without(i) == [j \in 1 .. Len(flight) - 1 |-> flight[IF j < i THEN j ELSE j + 1]]

(* When the device refreshes: half of the expiry, or the default.           *)
RefreshAtExpiry(exp) == exp   \* mutant

RefreshAfter(exp) == exp \div 2

DefaultRefresh == Retry

Heard == [seen EXCEPT !.trouble = TRUE]

(* OPPSipRegisterDev::Register.  When the REGISTER cannot be sent no timer  *)
(* is armed.                                                                *)
Register(after) ==
    \/ /\ flight' = Append(flight, Request(FALSE))
       /\ fail' = Armed(after, NoResponse)
       /\ UNCHANGED <<down, seen>>
    \/ /\ fail' = after /\ down' = TRUE /\ seen' = Heard
       /\ UNCHANGED flight

(* InitDev registers the new device.                                        *)
Init == /\ refresh = Unset
        /\ \/ flight = <<Request(FALSE)>> /\ fail = Armed(Unset, NoResponse) /\ down = FALSE
           \/ flight = <<>> /\ fail = Unset /\ down = TRUE
        /\ seen = [binding |-> 0,          \* what is left of the expiry last granted
                   short   |-> TRUE,       \* it was shorter than the device refreshes
                   trouble |-> FALSE,      \* since then a REGISTER failed
                   since   |-> Retry]      \* ticks since a REGISTER with credentials
-----------------------------------------------------------------------------
(* The end of OnRegisterResult: the wait for a response is over, and unless *)
(* the refresh is pending already it is armed.                              *)
ScheduleKeepsFail(after) ==   \* mutant
    /\ UNCHANGED <<fail, down>>
    /\ refresh' = IF refresh.set THEN refresh ELSE Armed(refresh, after)

Schedule(after) ==
    /\ fail' = Cancelled(fail)
    /\ refresh' = IF refresh.set THEN refresh ELSE Armed(refresh, after)
    /\ UNCHANGED down

Unheeded(i) == flight' = Without(i) /\ seen' = Heard

(* The answer to the challenge that i met may fail to be built or sent.     *)
Register_With_Authentication(i) ==
    \/ /\ flight' = Append(Without(i), Request(TRUE))
       /\ seen' = [seen EXCEPT !.since = 0]
    \/ Unheeded(i)

(* 401 or 407.  The device answers with credentials only when no refresh is *)
(* pending, that is once after each REGISTER of Register.                   *)
ChallengeAnsweredAlways(i) ==   \* mutant
    /\ Schedule(DefaultRefresh)
    /\ Register_With_Authentication(i)

Challenge(i) ==
    /\ Schedule(DefaultRefresh)
    /\ \/ ~refresh.set /\ Register_With_Authentication(i)
       \/ refresh.set /\ Unheeded(i)

(* 2xx: an expiry granted now counts only if no refresh is pending.         *)
Granted(i, exp) ==
    /\ Schedule(RefreshAfter(exp))
    /\ flight' = Without(i)
    /\ seen' = [seen EXCEPT !.binding = exp, !.trouble = FALSE,
                            !.short = exp <= Slack + (IF refresh.set THEN Retry ELSE Slack)]

(* Any other final response but a 3xx, which reaches no handler; also a 2xx *)
(* that names no expiry.                                                    *)
Refused(i) == Schedule(DefaultRefresh) /\ Unheeded(i)

Redirected(i) == Unheeded(i) /\ UNCHANGED <<refresh, fail, down>>

(* Timer F ends the transaction and tells the device nothing.               *)
Unanswered(i) ==
    /\ flight[i].left <= 0
    /\ Unheeded(i)
    /\ UNCHANGED <<refresh, fail, down>>

(* OPPSipRegisterDev::OnTimeout.                                            *)
OnTimeoutNoResponseGivesUp ==   \* mutant
    Due(fail) /\ fail' = Fired(fail) /\ UNCHANGED <<refresh, flight, down, seen>>

OnTimeoutNoResponse ==
    Due(fail) /\ Register(Fired(fail)) /\ UNCHANGED refresh

OnTimeoutRegister ==
    Due(refresh) /\ refresh' = Fired(refresh) /\ Register(fail)

(* Time passes while nothing is overdue by Slack.                           *)
Late(left) == left # Off /\ left <= -Slack

Tick ==
    /\ ~Late(refresh.left) /\ ~Late(fail.left)
    /\ \A i \in DOMAIN flight : ~Late(flight[i].left)
    /\ refresh' = IF Pending(refresh) THEN [refresh EXCEPT !.left = @ - 1] ELSE refresh
    /\ fail' = IF Pending(fail) THEN [fail EXCEPT !.left = @ - 1] ELSE fail
    /\ flight' = [i \in DOMAIN flight |-> [flight[i] EXCEPT !.left = @ - 1]]
    /\ seen' = [seen EXCEPT !.binding = IF @ > 0 THEN @ - 1 ELSE 0,
                            !.since = IF @ < Retry THEN @ + 1 ELSE Retry]
    /\ UNCHANGED down

Timeout == OnTimeoutNoResponse \/ OnTimeoutRegister
           \/ (\E i \in DOMAIN flight : Unanswered(i))

OnRegisterResult(i) ==
    Challenge(i) \/ Refused(i) \/ (\E exp \in Grants : Granted(i, exp))

Next == \/ \E i \in DOMAIN flight : OnRegisterResult(i) \/ Redirected(i)
        \/ Timeout
        \/ Tick

Spec == Init /\ [][Next]_vars

(* The dispatch loop polls the timers and time passes; the registrar owes   *)
(* nothing.                                                                 *)
FairSpec == Spec /\ WF_vars(Timeout) /\ WF_vars(Tick)
-----------------------------------------------------------------------------
TimerType == [left : Int, set : BOOLEAN, lost : BOOLEAN]

(* The types of the timers and the transactions; there is never more than   *)
(* one REGISTER without an answer.                                          *)
TypeOK ==
    /\ refresh \in TimerType /\ fail \in TimerType
    /\ flight \in Seq([auth : BOOLEAN, left : Int]) /\ Len(flight) <= 1
    /\ down \in BOOLEAN
    /\ seen \in [binding : Nat, short : BOOLEAN, trouble : BOOLEAN, since : 0 .. Retry]

(* Exactly one of the two timers runs while every REGISTER could be sent,   *)
(* and none is armed over a pending one: the device neither forgets its     *)
(* registration nor does it register on two schedules.                      *)
OneTimerRuns ==
    /\ ~refresh.lost /\ ~fail.lost
    /\ Pending(refresh) => ~Pending(fail)
    /\ Pending(refresh) \/ Pending(fail) \/ down

(* A wrong password is not tried again and again: between two REGISTERs     *)
(* with credentials lies the default refresh time.                          *)
CredentialsPaced == [][seen'.since = 0 /\ seen.since # 0 => seen.since >= Retry]_vars

(* What the registrar granted does not run out before the device asks       *)
(* again, unless a REGISTER failed or the grant was shorter than the time   *)
(* after which the device refreshes.                                        *)
BindingRefreshed ==
    seen.binding = 0 => seen.short \/ seen.trouble \/ flight # <<>>

(* The device registers again and again, whatever the registrar answers.    *)
KeepsRegistering == []<>(flight # <<>> \/ down)
=============================================================================
