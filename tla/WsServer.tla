------------------------------ MODULE WsServer ------------------------------
(***************************************************************************)
(* cm/wsServer.cpp and the decoders of cm/wsServer.h: the table of clients *)
(* behind one select loop, what each client sends and how it is cut into   *)
(* messages.                                                               *)
(*                                                                         *)
(* A frame carries a payload and is two units, of which the first is too   *)
(* short to be decoded; a WebSocket client sends one unit more, its        *)
(* handshake, and waits for the answer.  The units come in any pieces:     *)
(* what a client has sent by now, and whether it has hung up, is chosen    *)
(* when select and recv ask.                                               *)
(*                                                                         *)
(* The callback to Lua never disconnects a client: main.lua only logs.     *)
(***************************************************************************)
EXTENDS Integers, FiniteSetsExt, SequencesExt

CONSTANTS Conns,           \* the connections that clients may open
          WS_MAX_CLIENTS,
          Kind,            \* per connection, "ws" or "raw"
          Frames,          \* per connection, the frames it sends
          INVALID_SOCKET

ASSUME WsAssumption ==
    /\ WS_MAX_CLIENTS \in Nat \ {0}
    /\ Kind \in [Conns -> {"ws", "raw"}]
    /\ \A c \in Conns : Frames[c] \in Seq([op : {"text", "bin", "cont", "ping", "pong", "close", "other"},
                                           fin : BOOLEAN])
    /\ \A c \in Conns : Kind[c] = "raw" => \A n \in DOMAIN Frames[c] : Frames[c][n] = [op |-> "text", fin |-> TRUE]
    /\ INVALID_SOCKET \notin Conns

Slots == 0 .. WS_MAX_CLIENTS - 1

VARIABLES pc,        \* where run() is
          ready,     \* the slots of _fdSet that handleClients has yet to visit
          backlog,   \* the connections that wait for accept
          fresh,     \* the connections not yet made
          _sClients, \* per slot, the socket and its decoder
          clients,   \* ws_client.clients, the slots Lua knows
          heard      \* per slot, the messages Lua got from its client, as sequences of frames

serverVars == <<pc, ready, backlog, fresh, _sClients, clients, heard>>

(* A decoder: what it is, whether the handshake is done, the units received *)
(* and decoded, and m_cache.                                                *)
NoDecoder == [kind |-> "none", shook |-> FALSE, got |-> 0, used |-> 0, m_cache |-> <<>>]

Free == [sock |-> INVALID_SOCKET, dec |-> NoDecoder]

Open(i) == _sClients[i].sock # INVALID_SOCKET

ServerInit ==
    /\ pc = "select"
    /\ ready = {}
    /\ backlog = <<>>
    /\ fresh = Conns
    /\ _sClients = [i \in Slots |-> Free]
    /\ clients = {}
    /\ heard = [i \in Slots |-> <<>>]

Handshake(c) == IF Kind[c] = "ws" THEN 1 ELSE 0

Units(c) == Handshake(c) + 2 * Len(Frames[c])

(* A client connects; it matters no earlier than at the next select.        *)
Connect ==
    /\ pc = "select"
    /\ \E c \in fresh : backlog' = Append(backlog, c) /\ fresh' = fresh \ {c}
    /\ UNCHANGED <<pc, ready, _sClients, clients, heard>>
-----------------------------------------------------------------------------
(* select: the listening socket comes first, and alone.                     *)
(* acceptClients: the lowest free slot; with none nobody is accepted.       *)
acceptClients ==
    /\ pc = "select" /\ backlog # <<>>
    /\ LET free == {i \in Slots : ~Open(i)}
       IN  IF free = {} THEN UNCHANGED <<backlog, _sClients>>
           ELSE /\ _sClients' = [_sClients EXCEPT ![Min(free)].sock = Head(backlog)]
                /\ backlog' = Tail(backlog)
    /\ UNCHANGED <<pc, ready, fresh, clients, heard>>

SelectClients ==
    /\ pc = "select" /\ backlog = <<>>
    /\ ready' \in (SUBSET {i \in Slots : Open(i)}) \ {{}}
    /\ pc' = "clients"
    /\ UNCHANGED <<backlog, fresh, _sClients, clients, heard>>

SelectTimesOut ==
    /\ pc = "select" /\ backlog = <<>>
    /\ pc' = "timers"
    /\ UNCHANGED <<ready, backlog, fresh, _sClients, clients, heard>>
-----------------------------------------------------------------------------
(* The slot that handleClients is at, and what follows it.                  *)
Current == Min(ready)

Done == /\ ready' = ready \ {Current}
        /\ pc' = IF ready' = {} THEN "select" ELSE "clients"

disconnectClientKeepsCache(i) ==   \* mutant
    /\ _sClients' = [_sClients EXCEPT ![i] = [Free EXCEPT !.dec.m_cache = _sClients[i].dec.m_cache]]
    /\ clients' = clients \ {i}
    /\ heard' = [heard EXCEPT ![i] = <<>>]

disconnectClientUntold(i) ==   \* mutant
    /\ _sClients' = [_sClients EXCEPT ![i] = Free]
    /\ heard' = [heard EXCEPT ![i] = <<>>]
    /\ UNCHANGED clients

disconnectClient(i) ==
    /\ _sClients' = [_sClients EXCEPT ![i] = Free]
    /\ clients' = clients \ {i}
    /\ heard' = [heard EXCEPT ![i] = <<>>]

NothingReceived(i) == UNCHANGED <<_sClients, clients, heard>>   \* mutant

(* recv returned 0: the client hung up.                                     *)
HungUp(i) == disconnectClient(i)

(* clientRecv: what is there goes to the decoder, which the first piece     *)
(* chooses.  A handshake must come in one piece.                            *)
clientRecv ==
    LET i == Current
        c == _sClients[i].sock
        d == _sClients[i].dec
    IN  /\ pc = "clients"
        /\ \/ HungUp(i) /\ Done
           \/ /\ Kind[c] = "ws" /\ ~d.shook
              /\ \/ /\ _sClients' = [_sClients EXCEPT ![i].dec =
                            [@ EXCEPT !.kind = "ws", !.shook = TRUE, !.got = 1, !.used = 1]]
                    /\ clients' = clients \cup {i}
                    /\ UNCHANGED heard
                 \/ disconnectClient(i)
              /\ Done
           \/ /\ Kind[c] = "raw" \/ d.shook
              /\ \E n \in d.got + 1 .. Units(c) :
                    _sClients' = [_sClients EXCEPT ![i].dec = [@ EXCEPT !.kind = Kind[c], !.got = n]]
              /\ pc' = "decode"
              /\ UNCHANGED <<ready, clients, heard>>
        /\ UNCHANGED <<backlog, fresh>>
-----------------------------------------------------------------------------
(* One turn of do_received_data: Decode one frame, act on it, and go on     *)
(* while bMore says that another may be complete.                           *)
FrameAt(c, used) == 1 + (used - Handshake(c)) \div 2

Left(d) == d.got - d.used

Complete(d) == Left(d) >= 2

(* A header of which too little is there is read all the same: one byte of  *)
(* the first WebSocket frame with a byte of the handshake, a raw one with   *)
(* what the buffer held.                                                    *)
MayMisread(c, d) == Kind[c] = "raw" \/ d.used = Handshake(c)

DecodeIncomplete ==
    LET i == Current
        c == _sClients[i].sock
        d == _sClients[i].dec
    IN  /\ pc = "decode" /\ ~Complete(d)
        /\ \/ UNCHANGED <<_sClients, clients, heard>>
           \/ MayMisread(c, d) /\ disconnectClient(i)
        /\ Done
        /\ UNCHANGED <<backlog, fresh>>

(* After the frame was taken out: bMore.                                    *)
Consumed(i, cache) ==
    /\ _sClients' = [_sClients EXCEPT ![i].dec.used = @ + 2, ![i].dec.m_cache = cache]
    /\ UNCHANGED clients
    /\ IF Left(_sClients[i].dec) - 2 >= 2 THEN UNCHANGED <<pc, ready>> ELSE Done

(* hClientMessage and hClientRawMessage call Lua.  hClientBinary is empty,  *)
(* and the answer to a ping is no news to Lua.                              *)
Deliver(i, m) ==
    /\ heard' = [heard EXCEPT ![i] = Append(@, m)]
    /\ Consumed(i, <<>>)

Op(piece) == Frames[piece[1]][piece[2]].op

content_typeOfFinalFrame(cache, f) == {f.op}   \* mutant

(* What the message that frame f ends may be taken for.  The last text or   *)
(* binary fragment in the cache decides; the final frame only if the cache  *)
(* is empty, save that a ping sets the type beforehand.  Otherwise the      *)
(* variable of do_received_data is not set and may hold any type; of those  *)
(* not named here none makes a difference to Lua.                           *)
content_type(cache, f) ==
    LET typed == {k \in DOMAIN cache : Op(cache[k]) \in {"text", "bin"}}
    IN  IF typed # {} THEN {Op(cache[k]) : k \in {k \in typed : \A j \in typed : j <= k}}
        ELSE IF f.op = "ping" \/ (cache = <<>> /\ f.op # "cont") THEN {f.op}
        ELSE {"text", "bin", "ping"}

(* A final frame ends what the cache holds, whatever its opcode: a ping     *)
(* between two fragments too.                                               *)
DecodeFrame ==
    LET i == Current
        c == _sClients[i].sock
        d == _sClients[i].dec
        n == FrameAt(c, d.used)
        f == Frames[c][n]
        m == Append(d.m_cache, <<c, n>>)
    IN  /\ pc = "decode" /\ Complete(d)
        /\ CASE f.op \in {"close", "other"} ->
                   disconnectClient(i) /\ Done
             [] f.op = "pong" -> Consumed(i, d.m_cache) /\ UNCHANGED heard
             [] f.op \notin {"close", "other", "pong"} /\ ~f.fin ->
                   Consumed(i, m) /\ UNCHANGED heard
             [] f.op \notin {"close", "other", "pong"} /\ f.fin ->
                   \E t \in content_type(d.m_cache, f) :
                      \/ t = "text" /\ Deliver(i, m)
                      \/ t \in {"bin", "ping"} /\ Consumed(i, <<>>) /\ UNCHANGED heard
        /\ UNCHANGED <<backlog, fresh>>

handleClients == clientRecv \/ DecodeIncomplete \/ DecodeFrame
-----------------------------------------------------------------------------
Pieces == Seq(Conns \X Int)

Decoders == [kind : {"none", "ws", "raw"}, shook : BOOLEAN, got : Nat, used : Nat, m_cache : Pieces]

ServerType ==
    /\ pc \in {"select", "clients", "decode", "timers", "callback", "dispatch"}
    /\ ready \subseteq Slots
    /\ (pc \in {"clients", "decode"}) = (ready # {})
    /\ backlog \in Seq(Conns) /\ fresh \subseteq Conns
    /\ clients \subseteq Slots
    /\ _sClients \in [Slots -> [sock : Conns \cup {INVALID_SOCKET}, dec : Decoders]]
    /\ heard \in [Slots -> Seq(Pieces)]
    /\ \A i \in Slots :
          IF Open(i) THEN LET d == _sClients[i].dec
                          IN  d.used <= d.got /\ d.got <= Units(_sClients[i].sock)
          ELSE _sClients[i] = Free
    /\ \A i \in ready : Open(i)

(* What became of the frames of the client of a slot: the messages that     *)
(* reached Lua, and behind them the frames that wait for the rest of theirs. *)
Told(i) == Append(heard[i], _sClients[i].dec.m_cache)

(* Each frame is one of connection c, from before its frame number n.       *)
SentBy(c, n, all) ==
    \A j \in DOMAIN all : \A k \in DOMAIN all[j] : all[j][k][1] = c /\ all[j][k][2] < n

(* The frames of these messages, one after the other, are in order.         *)
Ordered(all) ==
    \A j, l \in DOMAIN all : \A k \in DOMAIN all[j], n \in DOMAIN all[l] :
        j < l \/ (j = l /\ k < n) => all[j][k][2] < all[l][n][2]

(* Lua gets frames of a client in the order they were sent, none twice and  *)
(* none before it was decoded, in a message of that client only: whoever    *)
(* had the slot before, nothing of it is left.                              *)
FramesInOrder ==
    \A i \in Slots :
        /\ Ordered(Told(i))
        /\ SentBy(_sClients[i].sock, FrameAt(_sClients[i].sock, _sClients[i].dec.used), Told(i))

(* Frames of a connection that join a message, and those that end one.      *)
Fragment(c, n) == ~Frames[c][n].fin /\ Frames[c][n].op # "pong"

Ends(c, n) == Frames[c][n].fin /\ Frames[c][n].op # "pong"

SameMessage(c, x, y) == \A z \in x .. y - 1 : ~Ends(c, z)

(* A frame of text that the decoder must not lose: it does not end a        *)
(* message that fragments began, and no binary fragment follows in its own. *)
Precious(c, n) ==
    /\ Frames[c][n].op = "text"
    /\ Frames[c][n].fin => ~\E x \in 1 .. n - 1 : Fragment(c, x) /\ SameMessage(c, x, n)
    /\ ~\E y \in n + 1 .. Len(Frames[c]) :
          Fragment(c, y) /\ Frames[c][y].op = "bin" /\ SameMessage(c, n, y)

(* Text reaches Lua though its message is cut by a ping, closed by a frame  *)
(* of any type or split over many reads: a whole frame of text, and one     *)
(* that begins or continues a message of fragments, was told to Lua once    *)
(* the decoder consumed it, or waits in the cache for the end of its        *)
(* message.  The code does lose text in the two cases Precious leaves out:  *)
(* a final frame of text behind fragments of another type or none, and text *)
(* behind which a binary fragment joins the message.                        *)
NoFrameLost ==
    \A i \in Slots : Open(i) =>
        LET c == _sClients[i].sock
        IN  \A n \in 1 .. FrameAt(c, _sClients[i].dec.used) - 1 :
                Precious(c, n) => \E j \in DOMAIN Told(i) : <<c, n>> \in Range(Told(i)[j])

(* Lua's table holds exactly the WebSocket clients that are connected, so a *)
(* slot that changed hands is never taken for its former client.            *)
LuaKnowsClients == clients = {i \in Slots : Open(i) /\ _sClients[i].dec.shook}
=============================================================================
