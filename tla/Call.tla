-------------------------------- MODULE Call --------------------------------
(***************************************************************************)
(* One channel of a SIP device (ua/OPPSipChannel.cpp, the state table of   *)
(* ua/OPPChannelSM.cpp), the transactions it shares with the transaction   *)
(* map (trans/OSIP_Transaction.cpp), the service callbacks between them    *)
(* (ua/OPPSipService.cpp) and the application above, which may call back   *)
(* into the channel from inside a callback.                                *)
(*                                                                         *)
(* Everything runs on one thread, but not atomically: a message enters     *)
(* OSIP_Transaction::Execute, which calls the service, which calls         *)
(* OPPSipChannel::Execute, which calls the application, which may enter    *)
(* both Executes again on the same objects.  The stack holds the calls     *)
(* that wait for the application to return, innermost first; what a call   *)
(* does after it is a step of its own.  A call that reaches no application *)
(* callback is one step.                                                   *)
(***************************************************************************)
EXTENDS Naturals, Sequences, FiniteSets

CONSTANTS Trans,       \* transaction objects
          None,        \* the NULL pointer, and an absent body
          Bodies,      \* session descriptions of the peer
          Transports,  \* what the top Via of a peer's request may name: "UDP", "TCP"
          AppMay       \* per callback, the API calls the application makes from it

ASSUME CallAssumption == /\ None \notin Trans /\ None \notin Bodies
                         /\ Transports \subseteq {"UDP", "TCP"}

(* The Lua sessions make no call on this channel from OnInCallSetup, and    *)
(* at most one from any other callback.                                     *)
ASSUME AppAssumption == AppMay["InCallSetup"] = {} /\ AppMay["done"] = {}

VARIABLES ch,     \* the OPPSipChannel
          tr,     \* the transactions
          stack,  \* calls waiting for the application, innermost first
          bad,    \* a pointer that was used although it was NULL or deleted
          leg     \* what the application knows of the call

vars == <<ch, tr, stack, bad, leg>>

MaxRetries == 7   \* the bound of m_2xxRetryTimes in OnTimeoutWhileAccept
-----------------------------------------------------------------------------
Unused == [life |-> "unused", kind |-> "ICT", state |-> "Ready", tcp |-> FALSE,
           owned |-> FALSE, refs |-> 0]

NewTrans(kind, state, tcp) ==
    [life |-> "live", kind |-> kind, state |-> state, tcp |-> tcp, owned |-> TRUE, refs |-> 0]

FreeChannel == [state |-> "Ready", free |-> TRUE, ict |-> None, ist |-> None,
                dialog |-> FALSE, retries |-> 0, retry |-> FALSE, callout |-> FALSE,
                reinvite |-> FALSE, peerBody |-> None, myBody |-> FALSE,
                rang |-> FALSE, waived |-> FALSE]

Init == /\ ch = FreeChannel
        /\ tr = [t \in Trans |-> Unused]
        /\ stack = <<>>
        /\ bad = "none"
        /\ leg = "none"

(* A step works on the channel, the transactions, the misuse seen and the   *)
(* application's view of the call together: w is that record.               *)
World == [ch |-> ch, tr |-> tr, bad |-> bad, leg |-> leg]

Becomes(w) == ch' = w.ch /\ tr' = w.tr /\ bad' = w.bad /\ leg' = w.leg

(* Dereferencing a transaction pointer.                                     *)
Used(w, t) ==
    IF t = None THEN [w EXCEPT !.bad = "null"]
    ELSE IF w.tr[t].life # "live" THEN [w EXCEPT !.bad = "deleted"]
    ELSE w

Misused(w, t) == Used(w, t).bad # w.bad
-----------------------------------------------------------------------------
(* The owners of a transaction are the transaction map and the channel      *)
(* slots; m_refCount is their number less one.                              *)
AddRef(w, t) == [Used(w, t) EXCEPT !.tr[t].refs = @ + 1]

DeleteTrans(w, t) ==
    IF Misused(w, t) THEN Used(w, t)
    ELSE IF w.tr[t].refs = 0 THEN [w EXCEPT !.tr[t] = [Unused EXCEPT !.life = "deleted"]]
    ELSE [w EXCEPT !.tr[t].refs = @ - 1]

(* The end of Execute when a handler left the transaction Terminated.       *)
EndTrans(w, t) ==
    DeleteTrans([w EXCEPT !.tr[t].state = "Ready", !.tr[t].owned = FALSE], t)

(* SetICT and SetIST: the old transaction loses a reference, the new one    *)
(* gains one.                                                               *)
Released(w, t) == IF t = None THEN w ELSE DeleteTrans(w, t)

Held(w, t) == IF t = None THEN w ELSE AddRef(w, t)

SetICTWithoutRelease(w, t) == [Held(w, t) EXCEPT !.ch.ict = t]   \* mutant

SetICT(w, t) == [Held(Released(w, w.ch.ict), t) EXCEPT !.ch.ict = t]

SetISTWithoutAddRef(w, t) == [Released(w, w.ch.ist) EXCEPT !.ch.ist = t]   \* mutant

SetIST(w, t) == [Held(Released(w, w.ch.ist), t) EXCEPT !.ch.ist = t]

(* Execute with a response of the given class, on a server transaction.  An *)
(* IST is over after a 2xx; a NIST is over after a final response over a    *)
(* reliable transport.                                                      *)
Respond(w, t, class) ==
    IF Misused(w, t) THEN Used(w, t)
    ELSE CASE w.tr[t].state = "Proceeding" /\ class = "2xx" -> EndTrans(w, t)
           [] w.tr[t].state = "Proceeding" /\ class = "3456xx" ->
                  [w EXCEPT !.tr[t].state = "Completed"]
           [] w.tr[t].state = "Trying" /\ class # "1xx" ->
                  IF w.tr[t].tcp THEN EndTrans(w, t) ELSE [w EXCEPT !.tr[t].state = "Completed"]
           [] OTHER -> w
-----------------------------------------------------------------------------
(* What the application knows: it was offered or started a call ("open"),   *)
(* ended it ("asked") or heard its end ("told").  The ways a call ends that *)
(* the code gives no callback at all are kept apart: its first INVITE could *)
(* not be sent ("unstarted") or a later one ("failed"), a re-INVITE found   *)
(* no body of ours ("noSdp"), a provisional answer ended it ("provisional").*)
Opens(w) == [w EXCEPT !.leg = "open"]
Asks(w)  == [w EXCEPT !.leg = IF @ = "open" THEN "asked" ELSE @]
Hears(w) == [w EXCEPT !.leg = IF @ = "open" THEN "told" ELSE @]

(* OPPSipChannel::FreeRes.  It cancels the call-out timer and leaves the    *)
(* timer of the 2xx retransmission alone.  A call that is still open here   *)
(* ends silently for the application.                                       *)
Freed(w, c) ==
    [SetIST(SetICT(w, None), None) EXCEPT
        !.ch  = [c EXCEPT !.retry = w.ch.retry],
        !.leg = IF @ = "open" THEN "silent" ELSE IF @ \in {"asked", "told"} THEN "none" ELSE @]

FreeResKeepsCallout(w) == Freed(w, [FreeChannel EXCEPT !.callout = w.ch.callout])   \* mutant

FreeRes(w) == Freed(w, FreeChannel)

(* The end of OPPSipChannel::Execute.                                       *)
Leave(w) == IF w.ch.state = "Terminate" THEN FreeRes(w) ELSE w

Go(w, s) == [w EXCEPT !.ch.state = s]
-----------------------------------------------------------------------------
(* The waiting calls: an application callback; a channel Execute with the   *)
(* rest of its handler (x is a body or None); a service callback that still *)
(* answers transaction x; the Execute of transaction x with what its        *)
(* handler does after its callback.                                         *)
App(cb)      == [call |-> "app", arg |-> cb, x |-> None]
Chan(rest, b) == [call |-> "channel", arg |-> rest, x |-> b]
Service(t)   == [call |-> "service", arg |-> "answer", x |-> t]
Sm(t, after) == [call |-> "transaction", arg |-> after, x |-> t]

Idle == stack = <<>>
Waits(call) == stack # <<>> /\ Head(stack).call = call

(* The channel calls the application from inside the calls `outer`.         *)
Calls(w, cb, outer) == Becomes(w) /\ stack' = <<App(cb), Chan("leave", None)>> \o outer

(* The channel's Execute ends without a callback.                           *)
Returns(w, outer) == Becomes(Leave(w)) /\ stack' = outer

Fresh(t) == /\ tr[t].life # "live"
            /\ t \notin {ch.ict, ch.ist}
            /\ \A i \in DOMAIN stack : stack[i].x # t

Owned(t, kind, states) == tr[t].owned /\ tr[t].kind = kind /\ tr[t].state \in states

With(t, kind, state, tcp) == [World EXCEPT !.tr[t] = NewTrans(kind, state, tcp)]
-----------------------------------------------------------------------------
(* The INVITE that OutCall, ReInvite and a challenge send, in a new ICT.    *)
Invite(w, t) ==
    Go(SetICT([w EXCEPT !.tr[t] = NewTrans("ICT", "Trying", FALSE)], t), "CallOut")

(* The INVITE could not be built or sent: the handler ends the call, and    *)
(* only the state tells.                                                    *)
InviteFails(w, how) == Go([w EXCEPT !.leg = how], "Terminate")

(* OnAcceptWhileRing: any response that is not a 2xx ends the call.         *)
OnAccept(w, class, sdp) ==
    IF Misused(w, w.ch.ist) THEN Used(w, w.ch.ist)
    ELSE LET a == Respond([w EXCEPT !.ch.dialog = TRUE, !.ch.myBody = @ \/ sdp], w.ch.ist, class)
         IN  IF class = "2xx"
             THEN Go([a EXCEPT !.ch.retry = TRUE, !.ch.waived = FALSE], "Accept")
             ELSE Go(a, "Terminate")

(* OnRingBackWhileRing: 180, and with it the dialog.                        *)
OnRingBackWhileRing(w) == [Respond(w, w.ch.ist, "1xx") EXCEPT !.ch.dialog = TRUE]

(* OnOnHookWhileAccept, -Setup, -CallOut and -RingBack: BYE or CANCEL goes  *)
(* out in a transaction nobody holds.                                       *)
OnOnHookKeepsTimer(w) == Go(w, "Terminate")   \* mutant

OnOnHook(w) ==
    Go([w EXCEPT !.ch.retry = IF w.ch.state = "Accept" THEN FALSE ELSE @], "Terminate")

(* A Setup event: the peer's ACK, or a 2xx to an INVITE of ours.  The two   *)
(* share the event, so either reaches whichever handler the state has.      *)
OnSetup(w, body, outer) ==
    LET s == w.ch.state
        a == Go([w EXCEPT !.ch.retry = FALSE, !.ch.waived = FALSE], "Setup")
        o == Go([w EXCEPT !.ch.callout = FALSE, !.ch.dialog = TRUE,
                          !.ch.peerBody = IF body = None THEN @ ELSE body], "Setup")
    IN  CASE s = "Accept" ->
               IF w.ch.reinvite THEN Returns(a, outer) ELSE Calls(a, "InCallSetup", outer)
          [] s \in {"CallOut", "RingBack"} ->
               IF w.ch.reinvite THEN Returns(o, outer) ELSE Calls(o, "OutCallSetup", outer)
          [] OTHER -> Returns(w, outer)

(* OnInCallWhileSetup: a re-INVITE without a body is not answered, one that *)
(* changes the peer's body rings again, any other is answered at once.      *)
OnInCallWhileSetup(w, body, outer) ==
    LET f == [w EXCEPT !.ch.reinvite = TRUE]
    IN  CASE body = None -> Returns(w, outer)
          [] body # None /\ w.ch.peerBody \notin {None, body} ->
               Calls(Go([f EXCEPT !.ch.peerBody = body], "Ring"), "ReIncall", outer)
          [] body # None /\ w.ch.peerBody \in {None, body} ->
               IF w.ch.myBody
               THEN Returns(OnAccept(f, "2xx", FALSE), outer)
               ELSE Returns(OnAccept([f EXCEPT !.leg = "noSdp"], "3456xx", FALSE), outer)

(* OnPeerHangupWhileSetup and OnPeerHangupWhileRing.                        *)
Hangup(w) == CASE w.ch.state = "Ring"  -> Go(Respond(w, w.ch.ist, "3456xx"), "Terminate")
               [] w.ch.state = "Setup" -> Go(w, "Terminate")

OnPeerHangupTellsNobody(w, outer) ==   \* mutant
    Returns(IF w.ch.state \in {"Ring", "Setup"} THEN Hangup(w) ELSE w, outer)

OnPeerHangupWithout487(w, outer) ==   \* mutant
    IF w.ch.state \in {"Ring", "Setup"} THEN Calls(Hears(Go(w, "Terminate")), "EndCall", outer)
    ELSE Returns(w, outer)

OnPeerHangup(w, outer) ==
    IF w.ch.state \in {"Ring", "Setup"} THEN Calls(Hears(Hangup(w)), "EndCall", outer)
    ELSE Returns(w, outer)
-----------------------------------------------------------------------------
(* Messages from the network: the service callbacks.                        *)

(* cb_ist_rcv_invite for a new call, process_invite, OnInCallWhileReady: a  *)
(* free channel takes the call, otherwise it is declined.                   *)
PeerInvite(t, body) ==
    /\ Idle /\ Fresh(t)
    /\ LET w == With(t, "IST", "Proceeding", FALSE)
           s == SetIST([w EXCEPT !.ch.free = FALSE], t)
       IN  IF ch.free
           THEN Calls(Opens(Go([s EXCEPT !.ch.peerBody = body], "Ring")), "Incall", <<Sm(t, "none")>>)
           ELSE Becomes(Respond(w, t, "3456xx")) /\ stack' = <<Sm(t, "none")>>

(* cb_ist_rcv_invite in a dialog.  OnInCallWhileAccept takes the re-INVITE  *)
(* for the missing ACK and tells the application so, before it answers.     *)
PeerReInvite(t, body) ==
    /\ Idle /\ Fresh(t) /\ ch.dialog
    /\ LET w == With(t, "IST", "Proceeding", FALSE)
           s == SetIST(w, t)
       IN  CASE ch.state = "Accept" ->
                  /\ Becomes([s EXCEPT !.ch.retry = FALSE, !.ch.waived = TRUE])
                  /\ stack' = <<App("InCallSetup"), Chan("answer", body), Sm(t, "none")>>
             [] ch.state = "Setup" -> OnInCallWhileSetup(s, body, <<Sm(t, "none")>>)
             [] OTHER -> Becomes(Respond(w, t, "3456xx")) /\ stack' = <<Sm(t, "none")>>

(* cb_ist_rcv_ack: an ACK in the dialog that meets no transaction.          *)
PeerAck(body) == Idle /\ ch.dialog /\ OnSetup(World, body, <<>>)

(* cb_nist_rcv_bye and cb_nist_rcv_cancel: the channel first, then the 200; *)
(* without the channel's INVITE or dialog only a response.                  *)
PeerBye(t, tcp) ==
    /\ Idle /\ Fresh(t)
    /\ LET w == With(t, "NIST", "Trying", tcp)
       IN  IF ch.dialog
           THEN OnPeerHangup(w, <<Service(t), Sm(t, "none")>>)
           ELSE Becomes(Respond(w, t, "3456xx")) /\ stack' = <<Sm(t, "none")>>

PeerCancel(t, tcp) ==
    /\ Idle /\ Fresh(t)
    /\ LET w == With(t, "NIST", "Trying", tcp)
       IN  \/ /\ ch.dialog \/ (ch.ist # None /\ tr[ch.ist].owned)
              /\ OnPeerHangup(w, <<Service(t), Sm(t, "none")>>)
           \/ Becomes(Respond(w, t, "3456xx")) /\ stack' = <<Sm(t, "none")>>

(* cb_ict_rcv1xx, which passes on any 1xx but 100 for the channel's ICT.    *)
PeerProvisional(t, body) ==
    /\ Idle /\ Owned(t, "ICT", {"Trying", "Proceeding"})
    /\ LET w == [World EXCEPT !.tr[t].state = "Proceeding"]
           r == Go([w EXCEPT !.ch.dialog = TRUE, !.ch.rang = TRUE,
                             !.ch.peerBody = IF body = None THEN @ ELSE body], "RingBack")
       IN  \/ Becomes(w) /\ stack' = <<Sm(t, "none")>>
           \/ /\ ch.ict = t
              /\ CASE ch.state \in {"CallOut", "RingBack"} -> Calls(r, "RingBack", <<Sm(t, "none")>>)
                   [] ch.state = "Ring" -> Returns(OnRingBackWhileRing(w), <<Sm(t, "none")>>)
                   [] OTHER -> FALSE

(* cb_ict_rcv2xx: the transaction ends after the callback.                  *)
PeerAnswer(t, body) ==
    /\ Idle /\ Owned(t, "ICT", {"Trying", "Proceeding"})
    /\ IF ch.ict = t
       THEN OnSetup(World, body, <<Sm(t, "Terminated")>>)
       ELSE Becomes(World) /\ stack' = <<Sm(t, "Terminated")>>

(* cb_ict_rcv3xx to 6xx, OnErrorWhileCallOut and -RingBack.                 *)
PeerError(t) ==
    /\ Idle /\ Owned(t, "ICT", {"Trying", "Proceeding"})
    /\ IF ch.ict = t /\ ch.state \in {"CallOut", "RingBack"}
       THEN Calls(Hears(Go(World, "Terminate")), "Error", <<Sm(t, "Completed")>>)
       ELSE Becomes(World) /\ stack' = <<Sm(t, "Completed")>>

(* A 401 or 407 on a registered device: the INVITE goes out again, with     *)
(* credentials, in transaction n.  The call-out timer is left as it is.     *)
PeerChallenge(t, n) ==
    /\ Idle /\ Owned(t, "ICT", {"Trying", "Proceeding"}) /\ Fresh(n)
    /\ ch.ict = t /\ ch.state \in {"CallOut", "RingBack"}
    /\ \/ Returns(Invite(World, n), <<Sm(t, "Completed")>>)
       \/ Returns(InviteFails(World, "failed"), <<Sm(t, "Completed")>>)
-----------------------------------------------------------------------------
(* Timers of the transactions: timer B of an unanswered INVITE, and those   *)
(* that end the wait for copies.                                            *)
TransTimer(t) ==
    /\ Idle
    /\ \/ Owned(t, "ICT", {"Trying"})
       \/ tr[t].owned /\ tr[t].state = "Completed"
    /\ Becomes(EndTrans(World, t))
    /\ UNCHANGED stack

(* OnTimeoutWhileCallOut; no other state handles TIMEOUT_CALLOUT.           *)
CalloutTimerUnhandled ==   \* mutant
    Idle /\ ch.callout /\ Returns([World EXCEPT !.ch.callout = FALSE], <<>>)

CalloutTimerWhileRinging ==   \* mutant
    /\ Idle /\ ch.callout
    /\ LET w == [World EXCEPT !.ch.callout = FALSE]
       IN  IF ch.state \in {"CallOut", "RingBack"}
           THEN Calls(Hears(Go(w, "Terminate")), "Timeout", <<>>)
           ELSE Returns(w, <<>>)

CalloutTimer ==
    /\ Idle /\ ch.callout
    /\ LET w == [World EXCEPT !.ch.callout = FALSE]
       IN  IF ch.state = "CallOut"
           THEN Calls(Hears(Go(w, "Terminate")), "Timeout", <<>>)
           ELSE Returns(w, <<>>)

(* OnTimeoutWhileAccept: seven retransmissions of the 2xx, then BYE.        *)
RetryTimerNeverGivesUp ==   \* mutant
    Idle /\ ch.retry /\ Returns([World EXCEPT !.ch.retries = (@ + 1) % MaxRetries], <<>>)

RetryTimer ==
    /\ Idle /\ ch.retry
    /\ LET w == [World EXCEPT !.ch.retry = FALSE]
       IN  CASE ch.state = "Accept" /\ ch.retries < MaxRetries ->
                  Returns([World EXCEPT !.ch.retries = @ + 1], <<>>)
             [] ch.state = "Accept" /\ ch.retries >= MaxRetries ->
                  Calls(Hears(OnOnHook([w EXCEPT !.ch.retries = @ + 1])), "EndCall", <<>>)
             [] OTHER -> Returns(w, <<>>)
-----------------------------------------------------------------------------
(* The application's calls, from the dispatch loop or from a callback; it   *)
(* makes at most one on this channel from a callback.                       *)
May(api) == Idle \/ (Waits("app") /\ api \in AppMay[Head(stack).arg])

Outer == IF Idle THEN <<>> ELSE <<App("done")>> \o Tail(stack)

(* _outCall on a free channel and _reOutCall, through DoInCall.             *)
OutCall(t, sdp) ==
    /\ May("OutCall") /\ Fresh(t) /\ ch.free /\ ch.state = "Ready"
    /\ LET w == [Opens(World) EXCEPT !.ch.free = FALSE, !.ch.myBody = sdp]
       IN  \/ Returns([Invite(w, t) EXCEPT !.ch.callout = TRUE], Outer)
           \/ Returns(InviteFails(w, "unstarted"), Outer)

ReInvite(t) ==
    /\ May("ReInvite") /\ Fresh(t) /\ ch.state = "Setup" /\ ch.dialog
    /\ \/ Returns([Invite(World, t) EXCEPT !.ch.callout = TRUE, !.ch.rang = FALSE,
                                           !.ch.reinvite = TRUE], Outer)
       \/ Returns(InviteFails(World, "failed"), Outer)

Answer(class, sdp) ==
    /\ May("Answer") /\ ch.state = "Ring"
    /\ LET w == OnAccept(World, class, sdp)
       IN  Returns(CASE class = "2xx"    -> w
                     [] class = "3456xx" -> Asks(w)
                     [] class = "1xx"    -> [w EXCEPT !.leg = "provisional"], Outer)

RingBack == May("RingBack") /\ ch.state = "Ring" /\ Returns(OnRingBackWhileRing(World), Outer)

(* _bye.  A ringing channel has no handler for it; a terminated one is      *)
(* freed at once.                                                           *)
Bye ==
    /\ May("Bye")
    /\ CASE ch.state \in {"Accept", "Setup", "CallOut", "RingBack"} ->
              Returns(OnOnHook(Asks(World)), Outer)
         [] ch.state = "Terminate" -> Returns(World, Outer)
         [] OTHER -> FALSE
-----------------------------------------------------------------------------
(* The innermost call returns to the one it was made from.                  *)
AppReturns == Waits("app") /\ stack' = Tail(stack) /\ UNCHANGED <<ch, tr, bad, leg>>

ChannelReturns ==
    /\ Waits("channel")
    /\ IF Head(stack).arg = "answer"
       THEN OnInCallWhileSetup(World, Head(stack).x, Tail(stack))
       ELSE Returns(World, Tail(stack))

ServiceReturns ==
    /\ Waits("service")
    /\ Becomes(Respond(World, Head(stack).x, "2xx"))
    /\ stack' = Tail(stack)

(* Execute reads the state of its transaction when the handler is back.     *)
TransactionReturns ==
    /\ Waits("transaction")
    /\ LET t == Head(stack).x
           after == Head(stack).arg
       IN  Becomes(CASE Misused(World, t)     -> Used(World, t)
                     [] ~Misused(World, t) /\ after = "Terminated" -> EndTrans(World, t)
                     [] ~Misused(World, t) /\ after = "Completed" ->
                            [World EXCEPT !.tr[t].state = "Completed"]
                     [] ~Misused(World, t) /\ after = "none" -> World)
    /\ stack' = Tail(stack)
-----------------------------------------------------------------------------
Network ==
    \/ \E t \in Trans, b \in Bodies \cup {None} :
          PeerInvite(t, b) \/ PeerReInvite(t, b) \/ PeerProvisional(t, b) \/ PeerAnswer(t, b)
    \/ \E t \in Trans, p \in Transports : PeerBye(t, p = "TCP") \/ PeerCancel(t, p = "TCP")
    \/ \E b \in Bodies \cup {None} : PeerAck(b)
    \/ \E t \in Trans : PeerError(t) \/ (\E n \in Trans : PeerChallenge(t, n))

Application ==
    \/ \E t \in Trans, sdp \in BOOLEAN : OutCall(t, sdp)
    \/ \E t \in Trans : ReInvite(t)
    \/ \E class \in {"1xx", "2xx", "3456xx"}, sdp \in BOOLEAN : Answer(class, sdp)
    \/ RingBack
    \/ Bye

Unwind == AppReturns \/ ChannelReturns \/ ServiceReturns \/ TransactionReturns

(* The misuse of a pointer is the end of the run.                           *)
Next == /\ bad = "none"
        /\ \/ Network
           \/ Application
           \/ Unwind
           \/ CalloutTimer \/ RetryTimer
           \/ \E t \in Trans : TransTimer(t)

Spec == Init /\ [][Next]_vars

(* Calls return, and the dispatch loop polls the timers whenever it is back *)
(* from a message; neither the peer nor the application owes anything.      *)
FairSpec == Spec /\ WF_vars(bad = "none" /\ Unwind)
                 /\ SF_vars(bad = "none" /\ CalloutTimer)
                 /\ SF_vars(bad = "none" /\ RetryTimer)
-----------------------------------------------------------------------------
ChannelType ==
    [state : {"Ready", "Ring", "Accept", "Setup", "CallOut", "RingBack", "Terminate"},
     free : BOOLEAN, ict : Trans \cup {None}, ist : Trans \cup {None}, dialog : BOOLEAN,
     retries : 0 .. MaxRetries + 1, retry : BOOLEAN, callout : BOOLEAN, reinvite : BOOLEAN,
     peerBody : Bodies \cup {None}, myBody : BOOLEAN, rang : BOOLEAN, waived : BOOLEAN]

TransType ==
    [life : {"unused", "live", "deleted"}, kind : {"ICT", "IST", "NIST"},
     state : {"Ready", "Trying", "Proceeding", "Completed"}, tcp : BOOLEAN,
     owned : BOOLEAN, refs : 0 .. 2]

(* The types of the channel, the transactions and the application's view.   *)
TypeOK ==
    /\ ch \in ChannelType
    /\ tr \in [Trans -> TransType]
    /\ bad \in {"none", "null", "deleted"}
    /\ leg \in {"none", "open", "asked", "told", "silent", "unstarted", "failed", "noSdp", "provisional"}

(* No handler uses a transaction pointer that is NULL, or whose transaction *)
(* a call made from inside the handler has deleted.                         *)
NoMisuse == bad = "none"

Slots(t) == Cardinality({s \in {"ict", "ist"} : ch[s] = t})

(* The reference count of a transaction is the number of its owners less    *)
(* one, and a transaction without an owner is deleted: neither leak nor     *)
(* double deletion, whatever calls are waiting.                             *)
Ownership ==
    \A t \in Trans :
        LET owners == Slots(t) + (IF tr[t].owned THEN 1 ELSE 0)
        IN  /\ (tr[t].life = "live") <=> (owners > 0)
            /\ tr[t].life = "live" => tr[t].refs + 1 = owners

(* A channel that GetFreeSipChannel may hand out keeps nothing of the call  *)
(* before: no transaction, dialog, body, flag, counter or timer.  When no   *)
(* call is being processed a channel without a call is free.                *)
FreeChannelIsClean ==
    /\ ch.free => ch = FreeChannel
    /\ Idle => ch.state # "Terminate" /\ (ch.state = "Ready" => ch.free)

(* The timers of the channel match its state.  A call waiting for its ACK   *)
(* has the retransmission timer, unless a re-INVITE waived it; one waiting  *)
(* for the answer has the call-out timer, unless it rang.                   *)
TimersFitCall ==
    /\ ch.retry => ch.state = "Accept"
    /\ ch.callout => ch.state \in {"CallOut", "RingBack", "Terminate"}
    /\ Idle /\ ch.state = "Accept" => ch.retry \/ ch.waived
    /\ Idle /\ ch.state = "CallOut" => ch.callout \/ ch.rang

(* The application hears of the end of every call it did not end itself,    *)
(* through OnEndCall, OnError or OnTimeout, before the channel is reused.   *)
EndOfCallReported == leg # "silent"

(* call_session.lua, out_call: the caller hears that the call could not be  *)
(* started, because _outCall returns no leg.                                *)
OutCallReportsFailure == leg # "unstarted"

(* OPPSipService.cpp: once a nested Execute has deleted its transaction,    *)
(* the callback returns, so that the transaction is not used later.         *)
DeletedIsNotUsed == bad # "deleted"

(* The call as the application sees it: Leg says which callbacks may come   *)
(* when, and what an API call does, from a callback or from the loop.       *)
PhaseOf(s) == CASE s = "Ready"     -> "idle"
                [] s = "Ring"      -> "offered"
                [] s = "Accept"    -> "answered"
                [] s = "CallOut"   -> "trying"
                [] s = "RingBack"  -> "ringing"
                [] s = "Setup"     -> "talking"
                [] s = "Terminate" -> "over"

Event == IF Waits("app") THEN Head(stack).arg ELSE "none"

AsLeg == INSTANCE Leg WITH phase <- PhaseOf(ch.state), event <- Event
ImplementsLeg == AsLeg!Spec

(* A ringing channel gives the INVITE of its call a final response before   *)
(* it leaves Ring, unless the application answers with a provisional code.  *)
RingingInviteIsAnswered ==
    [][ch.state = "Ring" /\ ch'.state # "Ring" /\ leg' # "provisional" /\ bad' = "none"
         => ~(tr'[ch.ist].owned /\ tr'[ch.ist].state = "Proceeding")]_vars

(* A call or a re-INVITE that is never answered does not stay in CallOut.   *)
CallOutEnds == (ch.state = "CallOut" /\ ch.callout) ~> (ch.state # "CallOut")

(* An answered call whose ACK never comes does not stay in Accept.          *)
AcceptEnds == (ch.state = "Accept" /\ ch.retry) ~> (ch.state # "Accept" \/ ch.waived)
=============================================================================
