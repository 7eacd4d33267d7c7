# A verification project for oppsip

oppsip is a SIP user agent in C++ that a Lua application drives through a
WebSocket server.  This directory holds TLA+ modules of its core, TLC
configurations that check them on small instances, and proofs that TLAPS
checks for every value of the constants.  Vendored code (osipparser2, Lua and
its libraries) is taken as given.

## The system

The makefiles build one thread without `OSIP_MT`.  `wsServer::run` (cm/) is
the loop: it polls the application's timers, calls `API_DoDispatch`, which
fires every expired SIP timer and then reads one UDP message, or serves
WebSocket clients.  One thread does not mean atomic steps: a message climbs
from the transaction to the service, the channel and the Lua application, and
the application may call down again before any of them has returned.

| Component | State | Operations | Talks to |
|---|---|---|---|
| Timer monitor (common/OPPTimerMonitor) | multimap from a `timeval` to flag, owner | AddTimer, CancelTimer, CheckExpires | calls `OnTimeout` of transactions, channels, devices |
| Transaction (trans/OSIP_Transaction, OSIP_TransactionSM) | state, timer lengths and start times, last response, reference count | Execute with a message or a timer | sends through OSIP_Core, calls the service back |
| Transaction map (trans/OSIP_TransManager) | transactions by kind | AddTrans, RemoveTrans, match, match for CANCEL | gives each message to a transaction |
| Dialog (trans/OSIP_Dialog) | tags, route set, CSeq, target | create as UAC/UAS, match, build a request | used by the channel |
| SIP service (ua/OPPSipService) | none of its own | a callback per kind of message | channels, devices, transactions |
| Channel (ua/OPPSipChannel, OPPChannelSM) | call state, slots for transactions, dialog, bodies, retry counter, two timers | OutCall, Accept, RingBack, OnHook, ReInvite, peer's messages, timeouts | transactions below, application above |
| Devices and their manager (ua/OPPSipChannel.h, OPPChannelManager) | pools of channels; endpoint binding; registration timers | GetFreeSipChannel, lookup by dialog, Register, relay choice | service, channels |
| Application hook (cm/wsLuaHook, ua/OPPApi) | none of its own | `_outCall`, `_reOutCall`, `_answer`, `_ringback`, `_bye`; on_* callbacks | channels, Lua |
| Lua sessions (cm/*.lua) | sessions by leg, pairs of bridged legs | out_call, answer, bye, on_* | hook |
| Application timers (cm/AppTimer) | a second timer monitor and a map of parameters | StartTimer, StopTimer | Lua |
| WebSocket server (cm/wsServer) | client table, a decoder for each | select loop, accept, receive, disconnect | hook |

What makes each correct:

- Timer monitor: no timer early, none later than a second, none lost, none
  after its cancellation, in spite of keys that are not normalised.
- Transaction: the timers always fit the state; a peer is tried often enough
  and not too often; a final response is told once; nothing refers to a freed
  transaction; every state with a deadline ends.
- Channel: every transaction is owned by exactly those its count says; a free
  channel carries nothing of the call before; the application hears of the end
  of its calls; no call without a live peer keeps its channel.
- Transaction map: a message meets the one transaction it belongs to.
- Dialog: CSeq numbers grow; messages of two dialogs are never mixed up.
- Registration: the refresh timer or the failure timer runs, never both; a
  granted binding is renewed in time; credentials are not sent in a loop; and
  registration goes on whatever the registrar answers.
- Endpoint registrar: a phone that was accepted stays reachable for the
  binding it was told; no late copy revives a binding; silence ends it.
- Lua sessions: the two legs of a bridged call end together, and a session
  never acts on a channel that carries another call.
- WebSocket server: messages reach Lua whole, in order, under the right
  client; Lua's table of clients is the server's; the loop comes round.

The hard behaviours, with the line where each bites, are the `hazards` of
PROJECT.json: timers racing messages, nested calls of Execute, three owners of
a transaction that let go in any order, messages that arrive twice, late or in
the wrong order, sends that fail halfway through a handler.

## Modules

| Module | Models |
|---|---|
| `TimerService` | what the timer monitor promises: a timer fires after its deadline, overtakes no other by a second, and is cancelled by the `timeval` that started it |
| `TimerMonitor` | common/OPPTimerMonitor.cpp, with the arithmetic of its keys |
| `Transaction` | trans/OSIP_Transaction.cpp and OSIP_TransactionSM.cpp, all four kinds |
| `Leg` | what a channel promises the application: which callback may come in which phase of a call, and what an API call does |
| `Call` | one channel of ua/, the transactions it shares with the map, the service callbacks, the application; implements `Leg` |
| `Proxy` | the Lua sessions of cm/ that bridge two calls, above channels that behave as `Leg` |
| `Routing` | which transaction, dialog and channel a request meets: trans/OSIP_TransManager, OSIP_Dialog, the callbacks of the service, the pool of channels |
| `Registration` | OPPSipRegisterDev of ua/: a device that registers at a registrar |
| `Registrar` | cb_nist_rcv_register of ua/: phones that register for a device |
| `AppTimer` | cm/AppTimer.cpp: the timers of the Lua sessions |
| `WsServer` | cm/wsServer.cpp and the decoders of cm/wsServer.h |
| `MainLoop` | `wsServer::run`: `WsServer` and `AppTimer` composed |
| `MC*` | the instances that TLC checks |
| `*_proofs` | theorems about `TimerMonitor`, `Transaction`, `Call`, `Proxy`, `Registration`, `Registrar`, `Routing`, `MainLoop` |

`TimerService` and `Leg` are abstract specifications; `TimerMonitor` and
`Call` are proved to implement them.  `Proxy` takes what a channel may do from
`Leg` itself, so that what is checked of `Call` carries the sessions above.

**TimerMonitor.**  `timers` is `m_TimerMap`, a set of entries ordered by
`Before` on their keys; `handle` is the `timeval` the caller keeps for
CancelTimer.  `Key` is the code's arithmetic: AddTimer adds the carry to
`tv_sec` and leaves it in `tv_usec`.  `CheckExpires` fires the first entry of
the map only.  `fired` is the entry whose OnTimeout the last step called, so
that a firing is told from a cancellation.  `TimerService` is instantiated with
the deadline the caller asked for and with the timers that the caller's
`timeval` names; that the monitor implements it says that no interleaving of
calls fires a timer early, twice or after its cancellation, and that
CancelTimer never misses the timer that was armed last, nor takes one that is
due at another time.

**Transaction.**  One transaction from its construction to `delete`.  Each
handler of the state tables is an action; `Stay` and `Terminate` are the two
ends of `OSIP_Transaction::Execute`.  `timers` keeps for each timer its length,
the time left in the monitor and whether its `timeval` is set (FreeRes cancels
only those); `lost` marks an entry whose `timeval` was overwritten.  `Fail` is
the branch every handler has for a send or an allocation that fails.
`Hold`/`Drop` are the channel's SetICT/SetIST.  `history` is read by the
properties alone.  That a timer fires between its deadline and `Slack` ticks
later is what `TimerMonitor` establishes (`LatenessBounded`), plus the poll.

**Call.**  `ch` is the channel, `tr` the transactions with their owners,
`stack` the calls that wait for the application to return.  The record `ch` holds the
fields that the transitions read, and two marks for properties alone: `rang`
(a provisional response came after the last INVITE of ours) and `waived`
(a re-INVITE took the retransmission timer away).  A call that reaches the
application is split: the part before the callback is one step, the
application's calls are steps of their own, and the rest of every handler on
the stack runs when it returns.  `bad` records a pointer that was used while
it was NULL or deleted.  `leg` is what the application knows of the call; the
values other than open, asked and told name the ways in which the code ends a
call with no callback, so that `EndOfCallReported` speaks of all others.

Assumed in `Call`: responses to an INVITE can be sent (a send that fails is
in `Transaction`; here an INVITE may fail, a response may not); a message meets
its transaction; the application makes one call of the API on this channel
from a callback and does not call `_bye` from on_incall_setup (none of the
repository's sessions does; with it `NoMisuse` fails, because
OnInCallWhileAccept then goes on with a channel whose IST is NULL).

**Registration.**  `refresh` and `fail` are the two `timeval`s of the device
together with their entries in the timer monitor (`left` is the time left,
`Off` when there is no entry).  `flight` holds the REGISTER transactions that
have no final response; each ends by a response or by timer F.
`OnRegisterResult` is one action per class of response, each ending in
`Schedule`, the common tail of the function; a 3xx reaches no handler.
`OnTimeout` is an action per timer, and each contains the whole of `Register`.
`down` records a REGISTER that could not be sent: the code then arms no timer
and the device never registers again, so the properties exempt it.  `seen` is
read by the properties alone.  A grant received while the refresh is pending
(after a challenge it always is) is ignored by the code; `BindingRefreshed`
therefore speaks only of bindings longer than the pending refresh.

**Leg.**  `phase` is where the call of a channel stands, `event` the callback
the application is in.  `Callbacks` lists what a channel may tell in a phase,
`Unheard` what happens in silence, the other operators the effect of an API
call.  `PhaseOf` of `Call` maps the state of the channel to it.  That `Call`
implements it covers every nesting of calls: a callback never comes in a
phase where the session is not prepared for it, and never twice for one end.

**Proxy.**  Every event of `main.lua` with its whole handler is one step,
since no API call reaches a callback.  `carries` is the session for which the
call of a channel was made or accepted, `t_call_legs` the session that hears
the channel; the two part in the cases below.  A session that nothing reaches
any more is collected.  `robbed` and `astray` are read by the properties
alone, as is `ended`, how the call of a session ended.  What the properties
exempt is what the code does, and no document of the repository says
otherwise:

- on_peer_timeout does nothing (b2b_ua.lua:123): when the outgoing leg times
  out the incoming one rings on, with a peer that remembers a free channel and
  may later hang up, answer or unregister the call that has it then.
- A leg that could not start stays in the table (call_session.lua:87).  The
  next incoming call on that channel is refused with an `_answer` of three
  arguments (main.lua:118), which lAnswer ignores: it rings for nobody.
- `_bye` on a ringing channel is ignored, but the session terminates all the
  same (call_session.lua:100): the call rings on without a session.

`LegsEndTogether`, `ActsOnItsOwnCall` and `OrphansRing` say that these are the
only ways.  Transfer and recall, which no session uses, are left out.

**Routing.**  `net` holds the requests under way, each of which may arrive any
number of times; `told` the responses, heard or lost; `ists` and `nists` the
server transactions of the map; `chans` the channels of one device.  `branch`
stands for the branch and CSeq of a request, `tag` for the tag in To.
`FindTransaction_andExcuteEvent` is `ReceiveForIST` and `ReceiveForNIST`, and
each contains the whole callback.  A caller acts on what it was told only.
Assumed: all calls are incoming, to one device; an INVITE carries a body and
the application answers with one; a NIST lives as long as copies of its
request may arrive, and an IST with an error until its timer H or I, when no
copy of the INVITE or its ACK is left.  Not modelled: the 407 and 420 answers
to an endpoint's INVITE, and CSeq, which the code does not compare.  What the
code does and the properties exempt:

- The IST of an accepted INVITE leaves the map with the 2xx.  While the call
  lives, `IsVeryLateInviteRetransform` finds a late copy of the INVITE; after
  its end the copy is offered as a new call (`OfferedAgainOnlyIfAccepted`), and
  after a re-INVITE took the place of m_IST it rings on a second channel
  (`NoCallTwice`).
- A CANCEL that crosses the answer matches the dialog and ends the call.  A BYE
  before the ACK is answered with 200 and ignored, and a late ACK sets the
  call up.

**Registrar.**  Phones send REGISTERs in several forms (`Forms`), with an
expiry or with 0; `net` loses, repeats and delays them up to `MaxDelay`.
`Receive` is the NIST and the whole of cb_nist_rcv_register.  `timers` are the
device's entries in the timer monitor, `status` what sip_dev.lua keeps,
`phone` what each phone was told.  `age` is read by a property alone.  The
code compares neither Call-ID nor CSeq, so a REGISTER that arrives after its
transaction ended binds again: the properties hold because a transaction
lingers for longer than a message is under way, which is the assumption
`MaxDelay < Linger`.  Over a reliable transport, which the code only takes
from the Via, the 200 deletes the transaction and the callback returns before
it binds; not modelled.  The 200 says 90 s in Expires while its Contact
repeats the expiry the phone asked for.

**AppTimer.**  A second timer monitor (taken as exact here, since
`TimerMonitor` covers its keys) and the map from (session, flag) to the
timeval that cancels.  CancelTimer knows time, flag and interface, and the
interface is the same for all sessions: a cancellation erases the entries of
other sessions that are due at the same time.  `swept` names those.

**WsServer, MainLoop.**  `pc` is where `run` is: in select, going round the
clients that select named (`ready`), decoding, firing application timers, or
in API_DoDispatch.  A frame is two units, so that it can be cut in the middle;
a handshake is one.  The decoder's `m_cache` keeps the fragments of a message.
A ping between two fragments ends the message, as in the code (wsServer.h:449
takes whatever final frame comes), and bytes that are too few for a header may
be misread and the client dropped (`MayMisread`).  `heard` is what Lua got:
text and raw messages, for `hClientBinary` is empty and a ping is answered
without Lua.  What a message is taken for is `content_type`: the last text or
binary fragment in the cache decides (wsServer.h:464), the final frame only if
the cache is empty, and a final ping sets the type beforehand (wsServer.h:384).
In all other cases the variable of `do_received_data` is not set
(wsServer.cpp:218), and the model lets the message be told, dropped or answered
as a ping.  So text can go lost: a final frame of text behind fragments of
pings or continuations, and the tail of a message that a ping cut.
`LuaCalls` are the timers that sessions start and stop from callbacks.  Assumed: clients
wait for the answer to their handshake; payloads are not empty; no frame is
longer than the decoder's buffer of 40959 bytes, on which clientRecv would
assert; Lua never disconnects a client, as main.lua does not.

## Runs

Bounds are the constants of each cfg.  All runs end in about two minutes or
less.

| Run | Question | Bounds |
|---|---|---|
| `timer_monitor` | Do keys that carry without reducing ever fire early, out of bounds, or not at all? | a second of 4 clock units, lengths below, above and at a second, clock up to 16: every phase of the clock with and without carry; two timers at once, which is what order and equal keys need |
| `transaction` | Do the four tables keep their timers, retransmissions and reports right? | none: the default T1, T2, T4 in ticks of 500 ms, timers up to two ticks late, every order of timers, messages, failures; 64*T1 is reached |
| `transaction_timeout` | Does a client transaction report that B or F expired? (no) | as above |
| `call` | Do re-entrant calls leak, delete twice, or soil the channel, and does the application see the call of `Leg`? | four transactions, so that a call with INVITE, re-INVITE, BYE and one left over from the last call coexist; two bodies, since only equal or different matters; transaction objects are used again once deleted, so calls follow each other without end |
| `call_live` | Does a call with a silent peer give its channel back? | two transactions, one body: the run asks about the channel's own timers, and nested calls and re-INVITEs fit |
| `call_tcp` | Is a transaction used after a nested Execute deleted it? (yes, for a reliable Via) | two transactions |
| `call_unstarted` | Does `_outCall` tell a failed start? (no) | two transactions |
| `registration` | Does the device stay registered, on one schedule, without hammering? | ticks of 4 s: 60 s, 300 s, timer F of 32 s, a tick of lateness; grants of 8, 32, 88 and 120 s, below, at and above twice the default |
| `proxy` | Do bridged legs end together, and does a session ever act on another's call? | three channels, so that a bridged pair leaves one for the call that follows; six sessions: one in the table for each channel and a forgotten one that each of them still points at, more are never reachable; calls follow each other without end |
| `main_loop` | Does text reach Lua, in order and under the right client, do timers keep their names, does the loop come round? | two slots and three connections, so that a slot changes hands and the table overflows; fragments of two types with a ping between them, a final frame of text behind a fragment without type, a binary message, raw messages, pong and close; two sessions that share a flag, a clock up to 2, so that two timers are due together and apart |
| `registrar` | Does what a phone was told hold, and for how long? | two phones, two REGISTERs each, accepted or refused, with and without expiry; ticks of 16 s: 90 s, timer J, a late message and a late timer |
| `routing` | Does every request meet its own call, and does no call ring twice? | two calls on two channels, one caller who does everything (INVITE, CANCEL, re-INVITE, BYE, ACK) and may be offered twice, one who only calls; five requests under way |

`RetransmissionBounded` and `GivesUpOnlyAfterRetrying` count copies for the
default times; the other properties of `transaction` hold for any times.  The
runs of `Call` switch deadlock checking off because the model has a finite
number of transaction objects and the code really keeps some for ever: an IST
without a final response and an ICT that got a provisional one only.  A timer
monitor with the clock at its bound and a freed transaction stop as well, and
so do the callers of `Routing` when their requests are used up.

**Fairness.**  `TimerMonitor`: time passes and CheckExpires is called, since
API_DoDispatch polls it in every turn of the loop.  `Transaction`: the same
for time and for the timers that are due.  `Call`: calls return, and each of the channel's timers, if
pending and the stack empty again and again, fires; strong fairness because
messages may come between any two polls.  Nothing is assumed of the peer, of
the application, or of the transactions' own timers.  `Registration`: time
passes and expired timers fire; nothing is assumed of the registrar.
`Registrar`: time passes and due timers fire; nothing of phones or network.
`MainLoop`: the one thread goes on (weak fairness of the server's steps, of
firing, of callbacks that return); nothing of clients, Lua or the clock.

The loop serves timers and SIP only when `select` times out
(cm/wsServer.cpp:131).  `ServesOn` says that it does so again and again while
clients send a finite amount of data, and names the one case in which it
never does again: the client table is full and another connection waits
(wsServer.cpp:139, acceptClients accepts nobody and select returns at once).
Under an endless load of client data, or in that case, the fairness that the
other modules assume of the dispatch fails.

**Findings.**  Three runs expect a violation, each of a sentence of the
repository: the timeout callbacks of OSIP_Core.h are never made; a transaction
is read after a nested Execute deleted it; a call that could not be started
is returned as started.

## Proofs

`TimerMonitor_proofs` (any second, lengths, owners, flags): `TypeCorrect`,
`Lateness` and `Refinement`.  The invariant pairs each key with its deadline: the key's
time is the deadline, or one second more when AddTimer carried; so equal keys
mean equal deadlines, and order by keys is order by deadlines up to a second.
The refinement maps each step to a step of `TimerService` or a stutter.

`Transaction_proofs` (any T1 <= T2, T4, Slack): `TypeCorrect`,
`NoTimerOutlives`, `TimersFit`, `ToldOnce`, `Lingers`, `CopiesBounded` and
`TriesBeforeGivingUp`.  None of these is inductive.
`IInv` has four parts: `Fixed` (kind and reliability), `RefsFit` (the count is one
exactly while a channel holds a transaction of the map), `Sound` (a pending timer's
`timeval` is set, none is lost, each timer that a later handler arms has a
usable length) and `Fits` (which timers are pending in which state of which
kind).  `Fits` is what shows that no handler arms a pending timer, hence
`Sound`, hence that FreeRes cancels everything.  `HInv` ties the history to
the state for `ToldOnce`.  There is a lemma for each group of handlers, and
one for each operation on timers.

Two further invariants count time.  `Lingers`, the action property
`LingersForCopies`, rests on `LInv`: while a transaction waits for copies, what
is left on the timer that ends the wait and the time since the final response
add up to the length RFC 3261 gives that wait.  `CopiesBounded` and
`TriesBeforeGivingUp` rest on `RInv`, which says after k copies how long the
interval is (timer A doubles each time, E and G up to T2) and when the next
copy is due, counted from the start of timer B, F or H: between two bounds that
the lateness of k firings keeps apart.  Both
have the hypothesis `DefaultTimes`, T2 = 8 T1 and Slack <= 2 T1: the 500 ms and
4 s of OSIP_Transaction.h, with timers up to a second late
(`LatenessBounded`).  The numbers of copies, 6 or 10 at most and 5 or 7 at
least, are those of these times; with others they are not true.

`Call_proofs` (any number of transactions and bodies, any application that
keeps `AppAssumption`): `TypeCorrect`, `OwnershipHolds`,
`FreeChannelsAreClean`, `TimersFit`, `NoSilentEnd`, and `NoMisuseWithoutTcp`,
whose hypothesis is what `call_tcp` shows to be needed.  A step of `Call`
composes operators on worlds (`SetICT`, `Respond`, `FreeRes`, ...), so each has a
lemma that says what it does to the channel and which transactions it
touches.  `IInv` has three parts.  `TransOK` counts: in every row the
references and the owner in the map agree with the slots of the channel.
`ChanOK` ties the state to timers, slots and leg; its conjuncts for
`Terminate`, in which a channel waits for its Execute to end, are what makes
`FreeRes` leave nothing behind.  `StackOK` says which calls can wait inside
which, and what each relies on when it goes on: the Execute of a client
transaction and the service's answer to a BYE, that their transaction is still
in the map; the Execute of an INVITE, that it is, or that the channel answered
it with a 2xx and holds it and that nobody may act before it returns; the
unfinished OnInCallWhileAccept, that the channel still has its IST.  The last
two are why `AppAssumption` is needed: the application may act in any
callback, but not in OnInCallSetup and not twice in one.

Its second half, on the same invariant: `CallImplementsLeg`, that every step of
`Call` is a step of `Leg` or leaves it unchanged, and `RingingAnswered`, the
final response of a ringing INVITE.  `Leg` sees only the
state of the channel and the innermost waiting call.  So the refinement mapping is
the pair of them, and the proof follows the state through the operators on
worlds (`Keeps`) and sorts each action's move into one of three tables:
`Heard` (announced by a callback), `Silent` and `Asked` (made by a call of the
application).  The invariant is needed where a call goes on after the
application returned: what is on the stack then, and in which state the
channel is.

`Registration_proofs` (any times with 64*T1 plus the lateness below the two
periods, any grants): `TypeCorrect`, `OneTimer`, `Refreshed` and `Paced`.
`IInv` says of a REGISTER in flight exactly how long after its timer F the
device's own timer ends (`Covered`), hence a timer that is due finds nothing
in flight; that the refresh covers what is left of the default time since
credentials were sent (`PaceSound`); and that a binding outlasts a late refresh
(`BindingSound`).

`Registrar_proofs` (any phones, forms, times with MaxDelay < Linger < Binding):
`OneTimerPerBinding`, `BindingsHold` and `NoGhosts`.  `IInv` has three parts beside
the types: `Timed` (the one timer of a binding, and how long ago its
REGISTER was sent), `NetSound` (a REGISTER under way that was received once
still meets its transaction, because the transaction outlives it) and
`PromisesKept` (a phone that was told 200 is bound until its own 90 s are
over, or somebody else registered).  `NetSound` is the heart: only the
REGISTER its phone waits for can still bind, so no copy breaks a promise.

`Routing_proofs` (any calls, channels, scripts and bounds): `TypeCorrect`,
`RingingCanBeAnswered`, `OnOneChannel`, `NotOfferedAgain`, `CrossTalk`.  The
invariant adds to the types that there is one IST per key and each in
Proceeding is held by the channel that rings (`MapSound`), which INVITEs may
still arrive for a call that was offered, and what a channel's tag and branch
say of its call.  A refused INVITE whose copies remain is still in the map,
so no copy is offered; an accepted one is held by its channel.

`MainLoop_proofs` (any number of slots, connections, frames, sessions, flags,
lengths): `TypeCorrect`, `LuaKnows`, `NamesFit`, `InOrder`, `NothingLost`.
`ServerType` with its counts of units received and decoded is inductive as it
stands, and `LuaKnowsClients` and `NamesFitTimers` on top of it, the latter
together with `OneTimeval`: a session has one entry per flag in `m_ParaMap`.
`InOrder` and `NothingLost` follow from one invariant, `FramesInv`.  It takes the
messages Lua has heard and the decoder's cache for one sequence and says that
every frame in it was sent by the client that has the slot, lies before the
decoder's position and after all frames to its left, and that each frame before
that position that is `Precious` is in it: a frame of text, unless it ends a
message that other fragments began or a binary fragment follows in its message.
A ping that ends a message early only moves the cut between the last message
and the cache.  What the decoder drops it drops with the whole cache, so
`FramesInv` also says what the cache can hold (`Pending`): fragments sent since
the last final frame.  `NoTextDropped` is the heart: if a message is not taken
for text, its cache has no text at all or a binary fragment behind the last
one, so nothing in it is precious.

`Proxy_proofs` (any number of channels and sessions): `Inductive`,
`TypeCorrect`, `EndTogether`, `Orphans` and `OwnCallOnly`.  A step of `Proxy` is
a composition of operators on worlds, so the invariant is a predicate on worlds
too, `Mid(w, X, A)`.  It holds between any two operators of a step; X are the
sessions that the step has cut off and whose memory Lua frees at its end, A
those that may act on another's call.  Its parts: peers point at each other
until one is terminated, and belong to different legs and classes
(`PeersOK`); a session whose call goes on is in the table and carries that call
(`EndsOK`, `CarriedOK`); a call that is set up has its session in the
table unless it was robbed (`OwnedOK`); while the callee rings, the caller's
call is not answered (`RingsOK`), without which an answer from the callee's side
could make an orphan.  There is one lemma for what each operator does to `Mid`
and one for the end of a step, where `Becomes` collects what nobody can reach.
`IInv` is `Mid` with nobody cut off, no call half over, and every session
reachable, which is why a new session is a fresh one.  `OwnCallOnly` is an
action property: each lemma about a step also shows that the sessions that act
on another's call are among those whose own call timed out, ended silently or
was robbed.

The assumptions are those on the constants, each an ASSUME that TLC evaluates
in the runs, and the hypotheses `DefaultTimes` and that of `NoMisuseWithoutTcp`.
With that every invariant and every safety action property that a passing run
checks is a theorem.  Model-checked only: the liveness properties (`EveryTimerEnds`,
`TimedStatesEnd`, `CallOutEnds`, `AcceptEnds`, `KeepsRegistering`, `ServesOn`,
`SilentPhonesGoOffline`), which are outside the prover's reach, as are ENABLED
and induction over recursive definitions.

## Not modelled

Components and their status are in PROJECT.json.  Of the 82 800 lines of C,
C++ and Lua in the repository some 19 000 are its own (ua, trans, cm and
common); the rest is vendored: Lua, lua-cjson, luasocket, LuaSQL and the oSIP
parser.  The modules cover a quarter of the repository's own lines, and most of
those that change state.  What is left of it, and why:

- common/port_*.c: locks, threads and queues, not built (no `OSIP_MT`).
  osip_port.c is logging and wrappers.
- trans/OSIP_Core.cpp, OSIP_Transport.cpp: sockets, DNS and the assembly of
  headers; pure I/O or construction.
- OSIP_Dialog beyond its creation and the match as UAS: building requests,
  route sets, CSeq.  No transition of the program reads what they produce.
- OPTIONS, INFO, NOTIFY, REFER, MESSAGE, the digest computations: they answer
  and change no state that outlives the callback.
- wsLuaHook's marshalling, the frame encoders, STUN, the SHA/MD5/base64 code.

## Plan

Done: the timer monitor, transactions, a channel and its abstraction, the
registration in both directions, the routing of requests, the sessions that
bridge, the application's timers and the WebSocket loop; proofs of all their
safety properties.

Left, in this order:

1. The match of responses to client transactions and several devices in
   `Routing`; outgoing calls there.
2. Two `Transaction`s joined by a network, against the promise that a request
   is handed over at most once.
