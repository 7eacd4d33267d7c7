-------------------------------- MODULE Proxy --------------------------------
(***************************************************************************)
(* The Lua sessions above the channels: the events of cm/main.lua, the     *)
(* table of sessions of cm/call_session.lua, cm/b2b_ua.lua and             *)
(* cm/sip_proxy_session.lua, which bridges an incoming call to an outgoing *)
(* one.  What a channel may do is Leg's.                                   *)
(*                                                                         *)
(* No API call reaches a callback, so an event and its whole handler are   *)
(* one step.  A session keeps its leg, a channel pointer, after it ended;  *)
(* as long as a peer still points at it, it can be called again, when the  *)
(* channel carries another call.                                           *)
(***************************************************************************)
EXTENDS FiniteSets

CONSTANTS Legs,     \* the channels
          Sessions, \* session objects
          None      \* nil

ASSUME ProxyAssumption == None \notin Legs /\ None \notin Sessions

VARIABLES phase,   \* per channel, its phase as in Leg
          carries, \* per channel, the session its call was made or accepted for
          t_call_legs, \* the session that hears the events of a channel
          sess,    \* the session objects
          robbed,  \* the channels on whose present call another's session acted
          astray   \* the sessions whose API calls, in the last step, reached another call

vars == <<phase, carries, t_call_legs, sess, robbed, astray>>

Leg(p) == INSTANCE Leg WITH phase <- p, event <- "none"

Unused == [class |-> "none", leg |-> None, peer |-> None, ended |-> "no"]

(* A step works on everything at once.                                      *)
World == [phase |-> phase, carries |-> carries, table |-> t_call_legs, sess |-> sess,
          robbed |-> robbed, astray |-> {}]

(* Lua collects a session that neither the table nor a session in it can    *)
(* reach; the call it was made for, if it goes on, is nobody's.             *)
Reachable(w) ==
    LET known == {w.table[c] : c \in Legs} \ {None}
    IN  known \cup ({w.sess[s].peer : s \in known} \ {None})

Becomes(w) ==
    LET kept == Reachable(w)
    IN  /\ phase' = w.phase
        /\ carries' = [c \in Legs |-> IF w.carries[c] \in kept THEN w.carries[c] ELSE None]
        /\ t_call_legs' = w.table
        /\ sess' = [s \in Sessions |-> IF s \in kept THEN w.sess[s] ELSE Unused]
        /\ robbed' = w.robbed
        /\ astray' = w.astray

(* What a session knows of its call, or could: its end, or that another     *)
(* session ended the call or took away its place in the table.              *)
Closes(w, s, how) == [w EXCEPT !.sess[s].ended = IF @ = "no" THEN how ELSE @]

Ends(w, c, how) ==
    IF w.carries[c] = None THEN w ELSE Closes(w, w.carries[c], how)

Frees(w, c) ==
    [w EXCEPT !.phase[c] = "idle", !.carries[c] = None, !.robbed = @ \ {c}]

EndsBy(w, c, s) == Frees(Ends(w, c, IF w.carries[c] = s THEN "asked" ELSE "robbed"), c)
-----------------------------------------------------------------------------
(* API calls of session s, on the channel it remembers.                     *)
Reaches(w, s) ==
    LET c == w.sess[s].leg
    IN  IF w.phase[c] # "idle" /\ w.carries[c] # s
        THEN [w EXCEPT !.astray = @ \cup {s}, !.robbed = @ \cup {c}]
        ELSE w

ringback(w, s) == Reaches(w, s)
send_info(w, s) == Reaches(w, s)

answer(w, s, code) ==
    LET c == w.sess[s].leg
    IN  CASE w.phase[c] # "offered" -> w
          [] w.phase[c] = "offered" /\ code = "2xx" -> [Reaches(w, s) EXCEPT !.phase[c] = "answered"]
          [] w.phase[c] = "offered" /\ code # "2xx" -> EndsBy(Reaches(w, s), c, s)

_bye(w, s) ==
    LET c == w.sess[s].leg
        r == Reaches(w, s)
    IN  IF Leg(w.phase[c])!Byes(w.phase[c]) = {"idle"}
        THEN EndsBy(r, c, s)
        ELSE r

(* The entry of the leg goes, even when it is another session's by now.     *)
terminate(w, s) ==
    LET c == w.sess[s].leg
        r == IF w.table[c] \notin {s, None}
             THEN [Closes(w, w.table[c], "robbed") EXCEPT
                       !.robbed = @ \cup {d \in {c} : w.phase[d] # "idle"}]
             ELSE w
    IN  [r EXCEPT !.sess[s].peer = None, !.table[c] = None]

bye_of_session_only(w, s) == terminate(w, s)   \* mutant

bye(w, s) == terminate(_bye(w, s), s)
-----------------------------------------------------------------------------
(* What the peer q of a session does when the session tells it of an event. *)
on_peer_ringback(w, q) == IF w.sess[q].class = "proxy" THEN ringback(w, q) ELSE w

on_peer_setup(w, q) == IF w.sess[q].class = "proxy" THEN answer(w, q, "2xx") ELSE w

on_peer_bye(w, q) == bye(w, q)

on_peer_error_stays(w, q) ==   \* mutant
    IF w.sess[q].class = "proxy" THEN answer(w, q, "error") ELSE bye(w, q)

on_peer_error(w, q) ==
    IF w.sess[q].class = "proxy" THEN terminate(answer(w, q, "error"), q) ELSE bye(w, q)

(* Session s hears an event of its leg.  Neither class has a method for a   *)
(* peer's timeout or re-INVITE.                                             *)
on_ringback(w, s) ==
    LET q == w.sess[s].peer IN IF q = None THEN w ELSE on_peer_ringback(w, q)

on_setup(w, s) ==
    LET q == w.sess[s].peer IN IF q = None THEN w ELSE on_peer_setup(w, q)

on_dtmf(w, s) ==
    LET q == w.sess[s].peer
    IN  IF q # None /\ w.sess[s].class = "proxy" THEN send_info(w, q) ELSE w

on_bye_alone(w, s) == terminate(w, s)   \* mutant

on_bye(w, s) ==
    LET q == w.sess[s].peer IN terminate(IF q = None THEN w ELSE on_peer_bye(w, q), s)

on_error(w, s) ==
    LET q == w.sess[s].peer IN terminate(IF q = None THEN w ELSE on_peer_error(w, q), s)

on_timeout(w, s) == bye(w, s)

(* main.lua: an event goes to the session in the table, whichever call it   *)
(* belongs to; without a session it is only logged.                         *)
on_event(w, c, cb) ==
    LET s == w.table[c]
    IN  IF s = None THEN w
        ELSE CASE cb = "RingBack" -> on_ringback(w, s)
               [] cb \in {"InCallSetup", "OutCallSetup"} -> on_setup(w, s)
               [] cb = "EndCall"  -> on_bye(w, s)
               [] cb = "Error"    -> on_error(w, s)
               [] cb = "Timeout"  -> on_timeout(w, s)
               [] cb = "ReIncall" -> w
-----------------------------------------------------------------------------
NewSession(w, s, class, c) ==
    [w EXCEPT !.sess[s] = [Unused EXCEPT !.class = class, !.leg = c]]

push_self(w, s, c) == [w EXCEPT !.table[c] = s]

(* out_call: _outCall takes a free channel and returns it even when the     *)
(* INVITE could not be sent and the channel is free again.                  *)
out_call(w, q, d, phase1) ==
    LET n == push_self([NewSession(w, q, "b2b", d) EXCEPT !.phase[d] = phase1], q, d)
    IN  IF phase1 = "idle" THEN [n EXCEPT !.sess[q].ended = "silent"]
        ELSE [n EXCEPT !.carries[d] = q]

set_peers(w, s, q) == [w EXCEPT !.sess[s].peer = q, !.sess[q].peer = s]

(* on_incall: a leg that has a session already is refused with an _answer   *)
(* of three arguments, which lAnswer ignores.  Otherwise the new session    *)
(* calls the device of the callee, if there is one and it has a channel.    *)
InCall(c) ==
    /\ <<"Incall", "offered">> \in Leg(phase[c])!Callbacks(phase[c])
    /\ LET w == [World EXCEPT !.phase[c] = "offered"]
       IN  IF t_call_legs[c] # None THEN Becomes(w)
           ELSE \E s \in Sessions \ Reachable(World) :
                   LET i == push_self([NewSession(w, s, "proxy", c) EXCEPT !.carries[c] = s], s, c)
                   IN  \/ Becomes(i)
                       \/ \E q \in Sessions \ (Reachable(World) \cup {s}), d \in Legs :
                             /\ i.phase[d] = "idle"
                             /\ \E p \in Leg("idle")!OutCalls("idle") :
                                   Becomes(set_peers(out_call(i, q, d, p), s, q))

(* Every other callback of a channel.  After one that ends the call the     *)
(* channel is freed, unless the handler's _bye did it already.              *)
Event(c) ==
    \E e \in Leg(phase[c])!Callbacks(phase[c]) :
        /\ e[1] # "Incall"
        /\ LET w == [World EXCEPT !.phase[c] = e[2]]
               b == IF e[2] = "over"
                    THEN Ends(w, c, IF e[1] = "Timeout" THEN "timeout" ELSE "told") ELSE w
               h == on_event(b, c, e[1])
           IN  Becomes(IF h.phase[c] = "over" THEN Frees(h, c) ELSE h)

Dtmf(c) == /\ phase[c] = "talking" /\ t_call_legs[c] # None
           /\ Becomes(on_dtmf(World, t_call_legs[c]))

(* What a channel does without a callback.                                  *)
Silent(c) ==
    \E p \in Leg(phase[c])!Unheard(phase[c]) :
        LET w == [World EXCEPT !.phase[c] = p]
        IN  Becomes(IF p = "idle" THEN Frees(Ends(w, c, "silent"), c) ELSE w)

Init == /\ phase = [c \in Legs |-> "idle"]
        /\ carries = [c \in Legs |-> None]
        /\ t_call_legs = [c \in Legs |-> None]
        /\ sess = [s \in Sessions |-> Unused]
        /\ robbed = {}
        /\ astray = {}

Next == \E c \in Legs : InCall(c) \/ Event(c) \/ Dtmf(c) \/ Silent(c)

Spec == Init /\ [][Next]_vars
-----------------------------------------------------------------------------
(* The types of the channels, the table and the sessions.                   *)
TypeOK ==
    /\ phase \in [Legs -> {"idle", "offered", "answered", "trying", "ringing", "talking"}]
    /\ carries \in [Legs -> Sessions \cup {None}]
    /\ t_call_legs \in [Legs -> Sessions \cup {None}]
    /\ sess \in [Sessions -> [class : {"none", "proxy", "b2b"}, leg : Legs \cup {None},
                              peer : Sessions \cup {None},
                              ended : {"no", "asked", "told", "timeout", "silent", "robbed"}]]
    /\ robbed \subseteq Legs
    /\ astray \subseteq Sessions

(* A session acts on the call of another one, through the channel pointer   *)
(* it keeps, only if its own call ended by the call-out timeout, silently,  *)
(* or by such an act: every other end cuts the session off from its peer.   *)
ActsOnItsOwnCall ==
    [][\A s \in astray' : sess[s].ended \in {"timeout", "silent", "robbed"}]_vars

(* The two legs of a bridged call end together: a session whose peer's call *)
(* is over goes on only if that call timed out, ended silently or was ended *)
(* by a third session.                                                      *)
LegsEndTogether ==
    \A c \in Legs :
        LET s == carries[c]
        IN  s # None /\ sess[s].ended = "no" /\ sess[s].peer # None
              => LET q == sess[sess[s].peer]
                 IN  (q.ended = "no" /\ q.peer = s) \/ q.ended \in {"timeout", "silent", "robbed"}

(* A call whose session cannot hear of it any more is one that rings, and   *)
(* that _bye could not end.                                                 *)
OrphansRing ==
    \A c \in Legs : phase[c] # "idle" /\ t_call_legs[c] = None => phase[c] = "offered" \/ c \in robbed
=============================================================================
