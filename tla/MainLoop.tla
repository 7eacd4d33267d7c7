------------------------------ MODULE MainLoop ------------------------------
(***************************************************************************)
(* wsServer::run as it serves all there is: the WebSocket clients, the     *)
(* timers of the Lua sessions and, through API_DoDispatch, the SIP timers  *)
(* and one datagram.  The timers and SIP have their turn only when select  *)
(* times out.  Lua starts and stops its timers from the callbacks of both. *)
(***************************************************************************)
EXTENDS WsServer, AppTimer

vars == <<serverVars, timerVars>>

serverRest == <<ready, backlog, fresh, _sClients, clients, heard>>

(* while(CheckExpires()), each with the callback of the timer it fires.     *)
CheckExpires ==
    /\ pc = "timers"
    /\ IF Due = {} THEN pc' = "dispatch" /\ UNCHANGED timerVars
       ELSE pc' = "callback" /\ \E t \in Due : OnNotify(t)
    /\ UNCHANGED serverRest

CallbackReturns == pc = "callback" /\ pc' = "timers" /\ UNCHANGED <<serverRest, timerVars>>

API_DoDispatch == pc = "dispatch" /\ pc' = "select" /\ UNCHANGED <<serverRest, timerVars>>

LuaCalls ==
    /\ pc \in {"callback", "dispatch"}
    /\ \E p \in Paras, f \in Flags : StopTimer(p, f) \/ \E len \in Lengths : StartTimer(p, f, len)
    /\ UNCHANGED serverVars

Server == /\ acceptClients \/ SelectClients \/ SelectTimesOut \/ handleClients
          /\ UNCHANGED timerVars

(* The clock is read only by the timers and their callbacks.                *)
TimePasses == pc \in {"select", "callback", "dispatch"} /\ Tick /\ UNCHANGED serverVars

Init == ServerInit /\ TimerInit

Next == \/ Server
        \/ CheckExpires \/ CallbackReturns \/ API_DoDispatch \/ LuaCalls
        \/ Connect /\ UNCHANGED timerVars
        \/ TimePasses

(* One thread, and every callback returns.                                  *)
Fairness == WF_vars(Server \/ CheckExpires \/ CallbackReturns \/ API_DoDispatch)

Spec == Init /\ [][Next]_vars /\ Fairness
-----------------------------------------------------------------------------
(* The types of the two components.                                         *)
TypeOK == ServerType /\ TimerType

(* The table of clients is full and somebody else has connected.            *)
Blocked == pc = "select" /\ backlog # <<>> /\ \A i \in Slots : Open(i)

(* The loop comes round to the timers and SIP for ever, whatever a finite   *)
(* number of clients do, unless a client too many connects: from then on    *)
(* select returns for it, and nothing else is served again.                 *)
ServesOn == []<>(pc = "dispatch") \/ <>[]Blocked
=============================================================================
