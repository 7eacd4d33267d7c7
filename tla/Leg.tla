--------------------------------- MODULE Leg ---------------------------------
(***************************************************************************)
(* What a channel promises to the application above it, whatever happens   *)
(* to transactions, dialogs and timers below: which callbacks may come in  *)
(* which phase of a call, and what an API call does to it.  Call           *)
(* implements this module, and the sessions of Proxy are built on it.      *)
(***************************************************************************)

VARIABLES phase,  \* where the call of the channel stands
          event   \* the callback the application is in

vars == <<phase, event>>

Phases == {"idle", "offered", "answered", "trying", "ringing", "talking", "over"}

(* The callbacks a channel may make in phase p, and the phase it is in      *)
(* while the application handles them.  A re-INVITE offers the call again,  *)
(* and one that overtakes its ACK repeats the setup.  TIMEOUT_CALLOUT is    *)
(* heard of only before the peer rings.                                     *)
Callbacks(p) ==
    CASE p = "idle"     -> {<<"Incall", "offered">>}
      [] p = "offered"  -> {<<"EndCall", "over">>}
      [] p = "answered" -> {<<"InCallSetup", "talking">>, <<"InCallSetup", "answered">>,
                            <<"ReIncall", "offered">>, <<"EndCall", "over">>}
      [] p = "trying"   -> {<<"RingBack", "ringing">>, <<"OutCallSetup", "talking">>,
                            <<"Error", "over">>, <<"Timeout", "over">>}
      [] p = "ringing"  -> {<<"RingBack", "ringing">>, <<"OutCallSetup", "talking">>,
                            <<"Error", "over">>}
      [] p = "talking"  -> {<<"ReIncall", "offered">>, <<"EndCall", "over">>}
      [] p = "over"     -> {}

(* Changes the application does not hear of: the peer's answer to our       *)
(* re-INVITE or ours to its, a challenge answered, an INVITE that could not *)
(* be repeated, a re-INVITE we have no body for.                            *)
Unheard(p) ==
    CASE p = "answered" -> {"talking", "idle"}
      [] p = "trying"   -> {"talking", "idle"}
      [] p = "ringing"  -> {"talking", "trying", "idle"}
      [] p = "talking"  -> {"answered", "idle"}
      [] p = "over"     -> {"idle"}
      [] OTHER          -> {}

(* The effect of the application's calls: _outCall, which may fail without  *)
(* a word, _answer, _reOutCall, and _bye, which a ringing channel ignores.  *)
OutCalls(p) == IF p = "idle" THEN {"trying", "idle"} ELSE {p}

Answers(p) == IF p = "offered" THEN {"answered", "idle"} ELSE {p}

ReOutCalls(p) == IF p = "talking" THEN {"trying", "idle"} ELSE {p}

Byes(p) == IF p = "offered" THEN {p} ELSE {"idle"}

Init == phase = "idle" /\ event = "none"

Calls == /\ event = "none"
         /\ <<event', phase'>> \in Callbacks(phase)

AppCalls == /\ event' = IF event = "none" THEN "none" ELSE "done"
            /\ phase' \in OutCalls(phase) \cup Answers(phase)
                            \cup ReOutCalls(phase) \cup Byes(phase)

CallReturns == event # "none" /\ event' = "none" /\ UNCHANGED phase

Changes == event = "none" /\ phase' \in Unheard(phase) /\ UNCHANGED event

Next == Calls \/ AppCalls \/ CallReturns \/ Changes

Spec == Init /\ [][Next]_vars
=============================================================================
