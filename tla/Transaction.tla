---------------------------- MODULE Transaction ----------------------------
(***************************************************************************)
(* One SIP transaction of trans/OSIP_Transaction.cpp with the state table  *)
(* of its kind (trans/OSIP_TransactionSM.cpp): the client and server       *)
(* transactions of INVITE (ICT, IST) and of other requests (NICT, NIST).   *)
(*                                                                         *)
(* Each action is one call of Execute: the handler the table names for the *)
(* state and the event, then what Execute does when the handler left the   *)
(* state Terminated (out of the map, one reference dropped).  An event the *)
(* table has no handler for does nothing.  Time runs in ticks of T1; a     *)
(* timer fires between its deadline and Slack ticks later, which is what   *)
(* TimerMonitor promises.                                                  *)
(***************************************************************************)
EXTENDS Integers

CONSTANTS T1, T2, T4,   \* DEFAULT_T1, DEFAULT_T2, DEFAULT_T4, in ticks
          Slack         \* how late the dispatch loop fires a timer, in ticks

ASSUME TimesAssumption == /\ T1 \in Nat \ {0} /\ T2 \in Nat \ {0} /\ T4 \in Nat \ {0}
                          /\ T1 <= T2 /\ Slack \in Nat

VARIABLES kind,      \* ctx_type
          reliable,  \* the top Via names TCP, TLS or SCTP
          phase,     \* "New", "Live" (owned by the map), "Ended", "Freed"
          state,     \* the OPPState
          timers,    \* per timer: its *_length, its entry in OPPTimerMonitor, its *_start
          refs,      \* m_refCount
          held,      \* a channel slot points to the transaction
          last,      \* class of last_response
          history    \* what the properties look back at

vars == <<kind, reliable, phase, state, timers, refs, held, last, history>>
-----------------------------------------------------------------------------
(* The value of a timer that is not pending, which no pending one reaches.  *)
Off == -(Slack + 2)

Client == {"ICT", "NICT"}

TimersOf == [ICT  |-> {"A", "B", "D"}, NICT |-> {"E", "F", "K"},
             IST  |-> {"G", "H", "I"}, NIST |-> {"J"}]

(* The lengths the four *_context_init functions set.  Client transactions  *)
(* of this program always use UDP.                                          *)
InitialLength(t, rel) ==
    CASE t \in {"A", "E"}           -> T1
      [] t \in {"B", "F", "H"}      -> 64 * T1
      [] t \in {"D", "J"}           -> IF rel THEN 0 ELSE 64 * T1
      [] t \in {"K", "I"}           -> IF rel THEN 0 ELSE T4
      [] t = "G"                    -> IF rel THEN -1 ELSE T1

(* AddTimer overwrites the timeval of the timer; an entry that was still    *)
(* pending could no longer be cancelled ("lost").                           *)
Armed(m, t) ==
    [m EXCEPT ![t] = [len |-> m[t].len, left |-> m[t].len, start |-> TRUE,
                      lost |-> m[t].lost \/ m[t].left # Off]]

ArmedFor(m, t, len) == Armed([m EXCEPT ![t].len = len], t)

(* The handlers and FreeRes cancel a timer only when its timeval was set,   *)
(* and then mark the timeval.                                               *)
Cancelled(m, T) ==
    [t \in DOMAIN m |-> IF t \in T /\ m[t].start
                        THEN [m[t] EXCEPT !.left = Off, !.start = FALSE] ELSE m[t]]

FreeResForgetsB(m) == Cancelled(m, DOMAIN m \ {"B"})   \* mutant

FreeRes(m) == Cancelled(m, DOMAIN m)

Pending(t) == timers[t].left # Off

(* CheckExpires takes the entry out of the map before it calls OnTimeout;   *)
(* the timeval keeps its value.                                             *)
Fired(t) == [timers EXCEPT ![t].left = Off]

Due(t) == t \in DOMAIN timers /\ Pending(t) /\ timers[t].left <= 0
-----------------------------------------------------------------------------
NoHistory == [sent   |-> 0,      \* copies the timers A, E or G have sent
              final  |-> FALSE,  \* a final response was received or sent
              told   |-> 0,      \* final responses handed to the channel
              failed |-> FALSE,  \* InitRes, ict_create_ack or SendMsg failed
              gaveup |-> FALSE,  \* timer B, F or H ended the transaction
              acked  |-> FALSE,  \* an ACK was received
              linger |-> 0]      \* ticks since the wait for copies began

Init == /\ kind \in DOMAIN TimersOf
        /\ reliable \in BOOLEAN
        /\ kind \in Client => ~reliable
        /\ phase = "New" /\ state = "Ready"
        /\ timers = [t \in TimersOf[kind] |-> [len |-> InitialLength(t, reliable), left |-> Off,
                                               start |-> FALSE, lost |-> FALSE]]
        /\ refs = 0 /\ held = FALSE
        /\ last = "none"
        /\ history = NoHistory

In(k, s) == phase = "Live" /\ kind = k /\ state = s

(* The end of Execute when the handler leaves the state as it is, or moves  *)
(* to s.                                                                    *)
Stay(s, m) ==
    /\ phase' = "Live" /\ state' = s /\ timers' = m
    /\ UNCHANGED <<kind, reliable, refs, held>>

(* The end of Execute when the handler left the state Terminated: back to   *)
(* Ready, RemoveTrans, DeleteTrans.                                         *)
Terminate(m) ==
    /\ state' = "Ready"
    /\ \/ refs = 0 /\ phase' = "Freed" /\ timers' = FreeRes(m) /\ UNCHANGED refs
       \/ refs > 0 /\ phase' = "Ended" /\ timers' = m /\ refs' = refs - 1
    /\ UNCHANGED <<kind, reliable, held>>

Note(h) == history' = h

(* SendMsg or an allocation failed: every handler gives up the transaction. *)
Fail(m) == Terminate(m) /\ Note([history EXCEPT !.failed = TRUE])
-----------------------------------------------------------------------------
(* The first event: InitRes, which enters the transaction in the map, and   *)
(* the first message.                                                       *)
SendRequest ==
    /\ phase = "New" /\ kind \in Client
    /\ UNCHANGED last
    /\ \/ Fail(timers)
       \/ /\ Stay("Trying", IF kind = "ICT" THEN Armed(Armed(timers, "A"), "B")
                                            ELSE Armed(Armed(timers, "E"), "F"))
          /\ UNCHANGED history

RcvRequest ==
    /\ phase = "New" /\ kind \notin Client
    /\ UNCHANGED last
    /\ \/ Fail(timers)
       \/ /\ Stay(IF kind = "IST" THEN "Proceeding" ELSE "Trying", timers)
          /\ UNCHANGED history

(* OPPSipChannel::SetICT and SetIST: AddRef on the transaction in the slot, *)
(* DeleteTrans when another one or NULL takes its place.                    *)
Hold ==
    /\ \/ In("ICT", "Trying") \/ In("IST", "Proceeding")
    /\ ~held
    /\ held' = TRUE /\ refs' = refs + 1
    /\ UNCHANGED <<kind, reliable, phase, state, timers, last, history>>

DropAlwaysCounts ==   \* mutant
    /\ held /\ held' = FALSE /\ refs' = refs - 1
    /\ UNCHANGED <<kind, reliable, phase, state, timers, last, history>>

Drop ==
    /\ held /\ held' = FALSE
    /\ IF refs > 0
       THEN refs' = refs - 1 /\ UNCHANGED <<phase, timers>>
       ELSE phase' = "Freed" /\ timers' = FreeRes(timers) /\ UNCHANGED refs
    /\ UNCHANGED <<kind, reliable, state, last, history>>
-----------------------------------------------------------------------------
(* ICT.  Timer A doubles without a bound; timer B ends the wait.            *)
IctTimerA ==
    /\ In("ICT", "Trying") /\ Due("A")
    /\ UNCHANGED last
    /\ \/ Fail(Fired("A"))
       \/ /\ Stay("Trying", ArmedFor(Fired("A"), "A", 2 * timers["A"].len))
          /\ Note([history EXCEPT !.sent = @ + 1])

(* The code sets timer_b_length to -1 here; nothing reads it again.         *)
IctTimerB ==
    /\ In("ICT", "Trying") /\ Due("B")
    /\ Terminate([Fired("B") EXCEPT !["B"].len = -1])
    /\ Note([history EXCEPT !.gaveup = TRUE])
    /\ UNCHANGED last

IctRcv1xx ==
    /\ In("ICT", "Trying") \/ In("ICT", "Proceeding")
    /\ last' = "1xx"
    /\ Stay("Proceeding", IF state = "Trying" THEN Cancelled(timers, {"A"}) ELSE timers)
    /\ UNCHANGED history

IctRcv2xx ==
    /\ In("ICT", "Trying") \/ In("ICT", "Proceeding")
    /\ last' = "2xx"
    /\ Terminate(IF state = "Trying" THEN Cancelled(timers, {"A"}) ELSE timers)
    /\ Note([history EXCEPT !.final = TRUE, !.told = @ + 1])

(* The ACK is built and sent before the channel hears of the response.      *)
IctRcv3456xx ==
    /\ In("ICT", "Trying") \/ In("ICT", "Proceeding")
    /\ last' = "3456xx"
    /\ \/ /\ Terminate(Cancelled(timers, {"A"}))
          /\ Note([history EXCEPT !.final = TRUE, !.failed = TRUE])
       \/ /\ Stay("Completed", Armed(Cancelled(timers, {"A", "B"}), "D"))
          /\ Note([history EXCEPT !.final = TRUE, !.told = @ + 1])

IctRcv3456xxTellsAgain ==   \* mutant
    /\ In("ICT", "Completed")
    /\ UNCHANGED last
    /\ Stay("Completed", timers) /\ Note([history EXCEPT !.told = @ + 1])

IctRcv3456xxWhileCompleted ==
    /\ In("ICT", "Completed")
    /\ UNCHANGED last
    /\ \/ Fail(timers)
       \/ Stay("Completed", timers) /\ UNCHANGED history
-----------------------------------------------------------------------------
(* NICT.  Timer E doubles up to T2, and is T2 once a 1xx has come.          *)
NICTWaits == In("NICT", "Trying") \/ In("NICT", "Proceeding")

NictTimerEWithoutBackoff ==   \* mutant
    /\ NICTWaits /\ Due("E")
    /\ Stay(state, Armed(Fired("E"), "E")) /\ Note([history EXCEPT !.sent = @ + 1])
    /\ UNCHANGED last

NictTimerEStopsAtT2 ==   \* mutant
    /\ NICTWaits /\ Due("E")
    /\ Stay(state, IF 2 * timers["E"].len > T2 THEN Fired("E")
                   ELSE ArmedFor(Fired("E"), "E", 2 * timers["E"].len))
    /\ Note([history EXCEPT !.sent = @ + 1])
    /\ UNCHANGED last

NictTimerE ==
    /\ NICTWaits /\ Due("E")
    /\ UNCHANGED last
    /\ \/ Fail(Fired("E"))
       \/ LET twice == 2 * timers["E"].len
              len   == IF state = "Proceeding" \/ twice > T2 THEN T2 ELSE twice
          IN  /\ Stay(state, ArmedFor(Fired("E"), "E", len))
              /\ Note([history EXCEPT !.sent = @ + 1])

NictTimerF ==
    /\ NICTWaits /\ Due("F")
    /\ Terminate(IF state = "Trying" THEN Cancelled(Fired("F"), {"E"}) ELSE Fired("F"))
    /\ Note([history EXCEPT !.gaveup = TRUE])
    /\ UNCHANGED last

NictRcv1xx ==
    /\ NICTWaits
    /\ last' = "1xx"
    /\ Stay("Proceeding", timers)
    /\ UNCHANGED history

NictRcvFinal ==
    /\ NICTWaits
    /\ last' \in {"2xx", "3456xx"}
    /\ Stay("Completed", Armed(Cancelled(timers, {"E", "F"}), "K"))
    /\ Note([history EXCEPT !.final = TRUE, !.told = @ + 1])
-----------------------------------------------------------------------------
(* IST.  A copy of the INVITE is answered with the last response.           *)
IstRcvInviteAgain ==
    /\ In("IST", "Proceeding") \/ In("IST", "Completed")
    /\ last # "none"
    /\ UNCHANGED last
    /\ \/ Fail(timers)
       \/ Stay(state, timers) /\ UNCHANGED history

IstSend1xx ==
    /\ In("IST", "Proceeding")
    /\ last' = "1xx"
    /\ Fail(timers) \/ (Stay("Proceeding", timers) /\ UNCHANGED history)

(* A 2xx ends the transaction, sent or not.                                 *)
IstSend2xx ==
    /\ In("IST", "Proceeding")
    /\ last' = "2xx"
    /\ Terminate(timers)
    /\ \E ok \in BOOLEAN : Note([history EXCEPT !.final = TRUE, !.failed = ~ok])

IstSend3456xx ==
    /\ In("IST", "Proceeding")
    /\ last' = "3456xx"
    /\ \/ Fail(timers)
       \/ /\ Stay("Completed", Armed(IF timers["G"].len > 0 THEN Armed(timers, "G") ELSE timers, "H"))
          /\ Note([history EXCEPT !.final = TRUE])

(* Timer G is armed again before the response is sent.                      *)
IstTimerG ==
    /\ In("IST", "Completed") /\ Due("G")
    /\ UNCHANGED last
    /\ LET twice == 2 * timers["G"].len
           m     == ArmedFor(Fired("G"), "G", IF twice > T2 THEN T2 ELSE twice)
       IN  \/ Fail(m)
           \/ Stay("Completed", m) /\ Note([history EXCEPT !.sent = @ + 1])

IstTimerH ==
    /\ In("IST", "Completed") /\ Due("H")
    /\ Terminate(Fired("H"))
    /\ Note([history EXCEPT !.gaveup = TRUE])
    /\ UNCHANGED last

IstRcvAckKeepsG ==   \* mutant
    /\ In("IST", "Completed")
    /\ Stay("Confirmed", Armed(Cancelled(timers, {"H"}), "I"))
    /\ Note([history EXCEPT !.acked = TRUE, !.linger = 0])
    /\ UNCHANGED last

IstRcvAck ==
    /\ In("IST", "Completed")
    /\ LET m == Cancelled(timers, {"H", "G"})
       IN  IF timers["I"].len > 0 THEN Stay("Confirmed", Armed(m, "I")) ELSE Terminate(m)
    /\ Note([history EXCEPT !.acked = TRUE, !.linger = 0])
    /\ UNCHANGED last
-----------------------------------------------------------------------------
(* NIST.  The table has no handler for a copy of the request once a 1xx was *)
(* sent.                                                                    *)
NistRcvRequestAgain ==
    /\ In("NIST", "Trying") \/ In("NIST", "Completed")
    /\ last # "none"
    /\ UNCHANGED last
    /\ \/ Fail(timers)
       \/ Stay(state, timers) /\ UNCHANGED history

NistSend1xx ==
    /\ In("NIST", "Trying") \/ In("NIST", "Proceeding")
    /\ last' = "1xx"
    /\ Fail(timers) \/ (Stay("Proceeding", timers) /\ UNCHANGED history)

NistSendFinalEndsAtOnce ==   \* mutant
    /\ In("NIST", "Trying") \/ In("NIST", "Proceeding")
    /\ last' \in {"2xx", "3456xx"}
    /\ Terminate(timers) /\ Note([history EXCEPT !.final = TRUE])

NistSendFinalForgetsJ ==   \* mutant
    /\ In("NIST", "Trying") \/ In("NIST", "Proceeding")
    /\ last' \in {"2xx", "3456xx"}
    /\ Stay("Completed", timers) /\ Note([history EXCEPT !.final = TRUE])

NistSendFinal ==
    /\ In("NIST", "Trying") \/ In("NIST", "Proceeding")
    /\ last' \in {"2xx", "3456xx"}
    /\ \/ Fail(timers)
       \/ /\ IF timers["J"].len > 0 THEN Stay("Completed", Armed(timers, "J")) ELSE Terminate(timers)
          /\ Note([history EXCEPT !.final = TRUE])
-----------------------------------------------------------------------------
(* The timers that only end a wait for copies.                              *)
Absorber == [ICT |-> "D", NICT |-> "K", IST |-> "I", NIST |-> "J"]

AbsorbTimer ==
    /\ phase = "Live" /\ state = (IF kind = "IST" THEN "Confirmed" ELSE "Completed")
    /\ Due(Absorber[kind])
    /\ LET m == Fired(Absorber[kind])
       IN  Terminate(IF kind = "NIST" THEN [m EXCEPT !["J"].start = FALSE] ELSE m)
    /\ UNCHANGED <<last, history>>

(* The flags each state's Timeout handler acts on; a state without an entry *)
(* has no Timeout handler.                                                  *)
Handled ==
    CASE kind = "ICT"  /\ state = "Trying"     -> {"A", "B"}
      [] kind = "ICT"  /\ state = "Completed"  -> {"D"}
      [] kind = "NICT" /\ state \in {"Trying", "Proceeding"} -> {"E", "F"}
      [] kind = "NICT" /\ state = "Completed"  -> {"K"}
      [] kind = "IST"  /\ state = "Completed"  -> {"G", "H"}
      [] kind = "IST"  /\ state = "Confirmed"  -> {"I"}
      [] kind = "NIST" /\ state = "Completed"  -> {"J"}
      [] OTHER -> {}

(* A timer that fires where nothing handles it.                             *)
IgnoredTimer ==
    /\ phase \in {"Live", "Ended"}
    /\ \E t \in DOMAIN timers \ Handled : Due(t) /\ timers' = Fired(t)
    /\ UNCHANGED <<kind, reliable, phase, state, refs, held, last, history>>

(* Time passes while no timer is overdue by Slack.                          *)
Tick ==
    /\ phase \in {"Live", "Ended"}
    /\ \E t \in DOMAIN timers : Pending(t)
    /\ \A t \in DOMAIN timers : Pending(t) => timers[t].left > -Slack
    /\ timers' = [t \in DOMAIN timers |->
                    IF Pending(t) THEN [timers[t] EXCEPT !.left = @ - 1] ELSE timers[t]]
    /\ history' = IF state \in {"Completed", "Confirmed"}
                  THEN [history EXCEPT !.linger = @ + 1] ELSE history
    /\ UNCHANGED <<kind, reliable, phase, state, refs, held, last>>

Timeout == \/ IctTimerA \/ IctTimerB \/ NictTimerE \/ NictTimerF
           \/ IstTimerG \/ IstTimerH \/ AbsorbTimer \/ IgnoredTimer

Receive == \/ IctRcv1xx \/ IctRcv2xx \/ IctRcv3456xx \/ IctRcv3456xxWhileCompleted
           \/ NictRcv1xx \/ NictRcvFinal
           \/ IstRcvInviteAgain \/ IstRcvAck \/ NistRcvRequestAgain

Respond == IstSend1xx \/ IstSend2xx \/ IstSend3456xx \/ NistSend1xx \/ NistSendFinal

Next == SendRequest \/ RcvRequest \/ Hold \/ Drop \/ Timeout \/ Receive \/ Respond \/ Tick

Spec == Init /\ [][Next]_vars

(* The dispatch loop keeps polling the timers and time passes; the peer and *)
(* the channel owe nothing.                                                 *)
FairSpec == Spec /\ WF_vars(Tick) /\ WF_vars(Timeout)
-----------------------------------------------------------------------------
TimerType == [len : Int, left : Int, start : BOOLEAN, lost : BOOLEAN]

HistoryType == [sent : Nat, final : BOOLEAN, told : Nat, failed : BOOLEAN,
                gaveup : BOOLEAN, acked : BOOLEAN, linger : Nat]

(* The types of the transaction, of its timers and of the history.          *)
TypeOK ==
    /\ kind \in DOMAIN TimersOf /\ reliable \in BOOLEAN
    /\ phase \in {"New", "Live", "Ended", "Freed"}
    /\ state \in {"Ready", "Trying", "Proceeding", "Completed", "Confirmed"}
    /\ timers \in [TimersOf[kind] -> TimerType]
    /\ refs \in 0 .. 1 /\ held \in BOOLEAN
    /\ last \in {"none", "1xx", "2xx", "3456xx"}
    /\ history \in HistoryType

(* A freed transaction has no entry left in OPPTimerMonitor, whose pointer  *)
(* would be used when it fires: no handler arms a timer that is pending and *)
(* none forgets the timeval of a pending one, so FreeRes cancels them all.  *)
NoTimerOutlivesTransaction ==
    /\ phase = "Freed" => \A t \in DOMAIN timers : ~Pending(t)
    /\ \A t \in DOMAIN timers : ~timers[t].lost

(* The timer that ends each state which must not last for ever.             *)
Deadlines ==
    CASE kind = "ICT"  /\ state = "Trying"    -> {"B"}
      [] kind = "NICT" /\ state \in {"Trying", "Proceeding"} -> {"F"}
      [] kind = "IST"  /\ state = "Completed" -> {"H"}
      [] kind = "IST"  /\ state = "Confirmed" -> {"I"}
      [] kind # "IST"  /\ state = "Completed" -> {Absorber[kind]}
      [] OTHER -> {}

(* While the transaction is in the map, the timer that ends its state is    *)
(* pending, and no timer is pending that the state's handler would drop,    *)
(* but for timer B of an INVITE that was answered provisionally.            *)
TimersFitState ==
    phase = "Live" =>
        /\ \A t \in Deadlines : Pending(t)
        /\ \A t \in DOMAIN timers \ Handled :
              Pending(t) => t = "B" /\ state = "Proceeding"

(* With the default T1 and T2: how many copies the timers may send before   *)
(* timer B, F or H ends the wait, and how many they send at least when the  *)
(* dispatch loop is as late as it may be.                                   *)
MostCopies  == IF reliable THEN 0 ELSE IF kind = "ICT" THEN 6 ELSE 10
LeastCopies == IF reliable THEN 0 ELSE IF kind = "ICT" THEN 5 ELSE 7

(* The retransmission timers stop: no transaction floods its peer.          *)
RetransmissionBounded == history.sent <= MostCopies

(* A transaction gives up on its peer only after it has tried several times *)
(* although each timer may fire a second late.                              *)
GivesUpOnlyAfterRetrying == history.gaveup => history.sent >= LeastCopies

(* The channel hears of a final response exactly once however often the     *)
(* peer repeats it, and of none after the transaction has timed out.        *)
FinalToldOnce ==
    kind \in Client =>
        /\ history.told + (IF history.gaveup THEN 1 ELSE 0) <= 1
        /\ history.final /\ ~history.failed => history.told = 1

(* How long each kind has to wait for copies once it has a final response.  *)
(* An INVITE that got or gave a 2xx has nothing to wait for.                *)
LeastLinger ==
    CASE kind = "NICT"                      -> T4
      [] kind = "NIST"                      -> 64 * T1
      [] kind = "ICT" /\ last' = "3456xx"   -> 64 * T1
      [] kind = "IST" /\ last' = "3456xx"   -> IF history'.acked THEN T4 ELSE 64 * T1
      [] OTHER                              -> 0

(* Unless sending fails, a transaction over UDP that has its final response *)
(* stays in the map for the whole wait, so that a late copy of a request, a *)
(* response or an ACK still meets it and starts nothing new.                *)
LingersForCopies ==
    [][phase = "Live" /\ phase' # "Live" /\ ~reliable /\ history'.final /\ ~history'.failed
         => history.linger >= LeastLinger]_vars

(* A transaction whose state has a deadline leaves the map, or it is an     *)
(* INVITE that was answered provisionally.                                  *)
TimedStatesEnd ==
    (phase = "Live" /\ Deadlines # {})
        ~> (phase # "Live" \/ (kind = "ICT" /\ state = "Proceeding"))

(* OSIP_Core.h: OSIP_ICT_STATUS_TIMEOUT and OSIP_NICT_STATUS_TIMEOUT tell   *)
(* the channel that timer B or F expired without an answer.                 *)
TimeoutIsReported == history.gaveup /\ kind \in Client => history.told = 1
=============================================================================
