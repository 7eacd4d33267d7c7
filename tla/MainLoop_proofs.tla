--------------------------- MODULE MainLoop_proofs ---------------------------
(***************************************************************************)
(* Proofs about MainLoop, for any clients, frames, sessions and timers:    *)
(* the types of the server and of the timers, that Lua's table of clients  *)
(* is the server's, that the names of the timers fit the timers, that Lua  *)
(* hears each client in order, and which text the decoder cannot lose.     *)
(***************************************************************************)
EXTENDS MainLoop, TLAPS, WellFoundedInduction

(* A name is in the map once.                                               *)
OneTimeval == \A m, n \in m_ParaMap : m.p = n.p /\ m.flag = n.flag => m = n

TimersInv == OneTimeval /\ NamesFitTimers

IInv == TypeOK /\ LuaKnowsClients /\ TimersInv
-----------------------------------------------------------------------------
(* The names of the timers.                                                 *)
LEMMA TimerStarted ==
    ASSUME TimersInv, NEW p, NEW f, NEW len, StartTimer(p, f, len)
    PROVE  TimersInv'
<1> DEFINE t == [due |-> time + len, flag |-> f, p |-> p]
<1>1. t.due = time + len /\ t.flag = f /\ t.p = p
  OBVIOUS
<1>2. CASE NameEntry(p, f) = {}
  <2>1. m_TimerMap' = m_TimerMap \cup {t} /\ m_ParaMap' = m_ParaMap \cup {t} /\ swept' = swept \ {<<p, f>>}
    BY <1>2 DEF StartTimer
  <2> HIDE DEF t
  <2>2. \A m \in m_ParaMap : ~(m.p = p /\ m.flag = f)
    BY <1>2 DEF NameEntry
  <2>3. OneTimeval'
    BY <1>1, <2>1, <2>2 DEF TimersInv, OneTimeval
  <2>4. NamesFitTimers'
    BY <1>1, <2>1, <2>2 DEF TimersInv, NamesFitTimers
  <2> QED
    BY <2>3, <2>4 DEF TimersInv
<1>3. CASE NameEntry(p, f) # {}
  <2>1. /\ m_TimerMap' = (m_TimerMap \cup {t}) \ Erased(m_TimerMap \cup {t}, t.due, f)
        /\ swept' = swept \cup {<<u.p, f>> : u \in Erased(m_TimerMap, t.due, f)}
        /\ UNCHANGED m_ParaMap
    BY <1>3 DEF StartTimer
  <2> HIDE DEF t
  <2>2. m_TimerMap' = m_TimerMap \ Erased(m_TimerMap, t.due, f)
    BY <1>1, <2>1 DEF Erased
  <2>3. \A u \in Erased(m_TimerMap, t.due, f) : <<u.p, u.flag>> \in swept'
    BY <2>1 DEF Erased
  <2>4. NamesFitTimers'
    BY <2>1, <2>2, <2>3 DEF TimersInv, NamesFitTimers
  <2> QED
    BY <2>1, <2>4 DEF TimersInv, OneTimeval
<1> QED
  BY <1>2, <1>3

LEMMA TimerStopped ==
    ASSUME TimersInv, NEW p, NEW f, StopTimer(p, f)
    PROVE  TimersInv'
<1>1. PICK m \in NameEntry(p, f) :
         /\ m_TimerMap' = m_TimerMap \ Erased(m_TimerMap, m.due, f)
         /\ m_ParaMap' = m_ParaMap \ {m}
         /\ swept' = (swept \cup {<<u.p, f>> : u \in Erased(m_TimerMap, m.due, f)}) \ {<<p, f>>}
  BY DEF StopTimer
<1>2. m \in m_ParaMap /\ m.p = p /\ m.flag = f
  BY <1>1 DEF NameEntry
<1>3. \A n \in m_ParaMap : n.p = p /\ n.flag = f => n = m
  BY <1>2 DEF TimersInv, OneTimeval
<1>4. m \notin m_TimerMap'
  BY <1>1, <1>2 DEF Erased
<1>5. \A u \in Erased(m_TimerMap, m.due, f) : u.flag = f /\ (<<u.p, u.flag>> \in swept' \/ u.p = p)
  BY <1>1 DEF Erased
<1>6. ASSUME NEW n \in m_ParaMap', n \notin m_TimerMap' PROVE <<n.p, n.flag>> \in swept'
  <2>1. n \in m_ParaMap /\ n # m /\ ~(n.p = p /\ n.flag = f)
    BY <1>1, <1>3, <1>6
  <2>2. CASE n \in m_TimerMap
    BY <1>1, <1>5, <1>6, <2>1, <2>2
  <2>3. CASE n \notin m_TimerMap
    BY <1>1, <2>1, <2>3 DEF TimersInv, NamesFitTimers
  <2> QED
    BY <2>2, <2>3
<1>7. m_TimerMap' \subseteq m_ParaMap'
  BY <1>1, <1>4 DEF TimersInv, NamesFitTimers
<1>8. OneTimeval'
  BY <1>1 DEF TimersInv, OneTimeval
<1> QED
  BY <1>6, <1>7, <1>8 DEF TimersInv, NamesFitTimers

LEMMA TimerFired ==
    ASSUME TimersInv, NEW t, OnNotify(t)
    PROVE  TimersInv'
<1>1. /\ t \in m_TimerMap /\ m_TimerMap' = m_TimerMap \ {t}
      /\ m_ParaMap' = m_ParaMap \ NameEntry(t.p, t.flag)
      /\ swept' = swept \ {<<t.p, t.flag>>}
  BY DEF OnNotify, Due
<1>2. t \in m_ParaMap
  BY <1>1 DEF TimersInv, NamesFitTimers
<1>3. NameEntry(t.p, t.flag) = {t}
  BY <1>2 DEF NameEntry, TimersInv, OneTimeval
<1>4. ASSUME NEW n \in m_ParaMap', n \notin m_TimerMap' PROVE <<n.p, n.flag>> \in swept'
  <2>1. n \in m_ParaMap /\ n \notin m_TimerMap /\ ~(n.p = t.p /\ n.flag = t.flag)
    BY <1>1, <1>3, <1>4 DEF NameEntry
  <2> QED
    BY <1>1, <2>1 DEF TimersInv, NamesFitTimers
<1>5. m_TimerMap' \subseteq m_ParaMap' /\ OneTimeval'
  BY <1>1, <1>3 DEF TimersInv, NamesFitTimers, OneTimeval
<1> QED
  BY <1>4, <1>5 DEF TimersInv, NamesFitTimers

LEMMA TimerTypeNext ==
    ASSUME TimerType
    PROVE  /\ \A p \in Paras, f \in Flags, len \in Lengths : StartTimer(p, f, len) => TimerType'
           /\ \A p \in Paras, f \in Flags : StopTimer(p, f) => TimerType'
           /\ \A t : OnNotify(t) => TimerType'
           /\ Tick => TimerType'
<1> USE AppTimerAssumption
<1>1. ASSUME NEW p \in Paras, NEW f \in Flags, NEW len \in Lengths, StartTimer(p, f, len)
      PROVE  TimerType'
  <2> DEFINE t == [due |-> time + len, flag |-> f, p |-> p]
  <2>1. t \in [due : 0 .. MaxTime, flag : Flags, p : Paras]
    BY <1>1 DEF StartTimer, TimerType
  <2>2. /\ m_TimerMap' \subseteq m_TimerMap \cup {t} /\ m_ParaMap' \subseteq m_ParaMap \cup {t}
        /\ UNCHANGED time
    BY <1>1 DEF StartTimer
  <2>3. swept' \subseteq swept \cup {<<u.p, f>> : u \in m_TimerMap}
    BY <1>1 DEF StartTimer, Erased
  <2>4. swept' \subseteq Names
    BY <2>3 DEF TimerType, Names
  <2> HIDE DEF t
  <2> QED
    BY <2>1, <2>2, <2>4 DEF TimerType
<1>2. ASSUME NEW p \in Paras, NEW f \in Flags, StopTimer(p, f) PROVE TimerType'
  <2>1. m_TimerMap' \subseteq m_TimerMap /\ m_ParaMap' \subseteq m_ParaMap /\ UNCHANGED time
    BY <1>2 DEF StopTimer
  <2>2. swept' \subseteq swept \cup {<<u.p, f>> : u \in m_TimerMap}
    BY <1>2 DEF StopTimer, Erased
  <2>3. swept' \subseteq Names
    BY <2>2 DEF TimerType, Names
  <2> QED
    BY <2>1, <2>3 DEF TimerType
<1>3. ASSUME NEW t, OnNotify(t) PROVE TimerType'
  BY <1>3 DEF OnNotify, TimerType
<1>4. ASSUME Tick PROVE TimerType'
  BY <1>4 DEF Tick, TimerType
<1> QED
  BY <1>1, <1>2, <1>3, <1>4
-----------------------------------------------------------------------------
(* The lowest of some slots is one of them.                                 *)
LEMMA LowestSlot ==
    ASSUME NEW S \in SUBSET Slots, S # {}
    PROVE  Min(S) \in S
<1>1. S \subseteq Nat
  BY WsAssumption DEF Slots
<1>2. PICK x \in S : \A y \in S : <<y, x>> \notin OpToRel(<, Nat)
  BY <1>1, NatLessThanWellFounded, WFMin
<1>3. \A y \in S : ~(y < x)
  BY <1>1, <1>2 DEF OpToRel
<1>4. \A y \in S : x =< y
  BY <1>1, <1>3
<1> QED
  BY <1>4 DEF Min

(* A slot is well: free and cleared, or with a client and its decoder.      *)
SlotOK(s) ==
    /\ s \in [sock : Conns \cup {INVALID_SOCKET}, dec : Decoders]
    /\ IF s.sock # INVALID_SOCKET THEN s.dec.used <= s.dec.got /\ s.dec.got <= Units(s.sock) ELSE s = Free

ClientsOK == _sClients = [i \in Slots |-> _sClients[i]] /\ \A i \in Slots : SlotOK(_sClients[i])

(* Where run() is, and what is left to visit.                               *)
PlaceOK ==
    /\ pc \in {"select", "clients", "decode", "timers", "callback", "dispatch"}
    /\ ready \subseteq Slots
    /\ (pc \in {"clients", "decode"}) = (ready # {})
    /\ \A i \in ready : Open(i)

LEMMA ServerTypeSplit ==
    ServerType <=> /\ ClientsOK /\ PlaceOK
                   /\ backlog \in Seq(Conns) /\ fresh \subseteq Conns
                   /\ clients \subseteq Slots /\ heard \in [Slots -> Seq(Pieces)]
  BY DEF ServerType, ClientsOK, PlaceOK, SlotOK, Open

(* The parts after a step.                                                  *)
LEMMA ServerTypeAfter ==
    ASSUME ClientsOK', PlaceOK', backlog' \in Seq(Conns), fresh' \subseteq Conns,
           clients' \subseteq Slots, heard' \in [Slots -> Seq(Pieces)]
    PROVE  ServerType'
  BY DEF ServerType, ClientsOK, PlaceOK, SlotOK, Open

LEMMA FreeOK == SlotOK(Free) /\ Free.sock = INVALID_SOCKET /\ Free.dec.shook = FALSE
<1>1. <<>> \in Pieces
  BY DEF Pieces
<1>2. NoDecoder \in Decoders /\ NoDecoder.shook = FALSE
  BY <1>1 DEF NoDecoder, Decoders
<1> QED
  BY <1>2 DEF SlotOK, Free

LEMMA UnitsType ==
    ASSUME NEW c \in Conns
    PROVE  Units(c) \in Nat /\ Handshake(c) \in {0, 1} /\ Handshake(c) <= Units(c)
<1>1. Frames[c] \in Seq([op : {"text", "bin", "cont", "ping", "pong", "close", "other"}, fin : BOOLEAN])
  BY WsAssumption
<1>2. Len(Frames[c]) \in Nat
  BY <1>1
<1>3. Handshake(c) \in {0, 1}
  BY DEF Handshake
<1>4. Units(c) = Handshake(c) + 2 * Len(Frames[c])
  BY DEF Units
<1> QED
  BY <1>2, <1>3, <1>4

(* One slot changes: the others stay, and Lua's table follows.              *)
LEMMA SlotChanges ==
    ASSUME ClientsOK, LuaKnowsClients, NEW i \in Slots, NEW s, SlotOK(s),
           _sClients' = [_sClients EXCEPT ![i] = s],
           clients' = IF s.sock # INVALID_SOCKET /\ s.dec.shook THEN clients \cup {i} ELSE clients \ {i}
    PROVE  /\ ClientsOK' /\ LuaKnowsClients' /\ clients' \subseteq Slots
           /\ \A k \in Slots : k # i => Open(k)' = Open(k)
           /\ Open(i)' = (s.sock # INVALID_SOCKET)
<1>1. _sClients' = [k \in Slots |-> IF k = i THEN s ELSE _sClients[k]]
  BY DEF ClientsOK
<1>2. _sClients'[i] = s /\ \A k \in Slots : k # i => _sClients'[k] = _sClients[k]
  BY <1>1
<1>3. ClientsOK'
  BY <1>1, <1>2 DEF ClientsOK
<1>4. LuaKnowsClients' /\ clients' \subseteq Slots
  BY <1>2 DEF LuaKnowsClients, Open
<1> QED
  BY <1>2, <1>3, <1>4 DEF Open

(* The slot that handleClients is at.                                       *)
LEMMA CurrentSlot ==
    ASSUME ServerType, pc \in {"clients", "decode"}
    PROVE  /\ Current \in ready /\ Current \in Slots /\ Open(Current) /\ ready \subseteq Slots
           /\ _sClients[Current].sock \in Conns /\ SlotOK(_sClients[Current])
           /\ _sClients[Current].dec \in Decoders
           /\ _sClients[Current].dec.used <= _sClients[Current].dec.got
           /\ _sClients[Current].dec.got <= Units(_sClients[Current].sock)
<1>1. ready # {} /\ ready \subseteq Slots
  BY DEF ServerType
<1>2. Current \in ready
  BY <1>1, LowestSlot DEF Current
<1>3. Open(Current) /\ Current \in Slots
  BY <1>1, <1>2 DEF ServerType
<1>4. SlotOK(_sClients[Current])
  BY <1>3, ServerTypeSplit DEF ClientsOK
<1> QED
  BY <1>1, <1>2, <1>3, <1>4 DEF SlotOK, Open

LEMMA DonePlace ==
    ASSUME ServerType, pc \in {"clients", "decode"}, Done,
           \A k \in Slots : k # Current => Open(k)' = Open(k)
    PROVE  PlaceOK'
  BY CurrentSlot DEF Done, PlaceOK, ServerType

LEMMA StayPlace ==
    ASSUME ServerType, UNCHANGED ready, \A k \in Slots : Open(k) => Open(k)',
           UNCHANGED pc \/ (pc' \in {"clients", "decode"} /\ ready # {})
    PROVE  PlaceOK'
  BY DEF PlaceOK, ServerType

LEMMA Disconnected ==
    ASSUME ServerType, LuaKnowsClients, NEW i \in Slots, disconnectClient(i)
    PROVE  /\ ClientsOK' /\ LuaKnowsClients' /\ clients' \subseteq Slots
           /\ \A k \in Slots : k # i => Open(k)' = Open(k)
           /\ heard' \in [Slots -> Seq(Pieces)]
<1>1. <<>> \in Seq(Pieces)
  OBVIOUS
<1>2. heard' \in [Slots -> Seq(Pieces)]
  BY <1>1 DEF disconnectClient, ServerType
<1>3. _sClients' = [_sClients EXCEPT ![i] = Free] /\ clients' = clients \ {i}
  BY DEF disconnectClient
<1> QED
  BY <1>2, <1>3, FreeOK, SlotChanges, ServerTypeSplit

(* The decoder of a slot changes.                                           *)
LEMMA DecoderChanges ==
    ASSUME ServerType, LuaKnowsClients, NEW i \in Slots, Open(i), NEW d \in Decoders,
           d.used <= d.got, d.got <= Units(_sClients[i].sock),
           _sClients' = [_sClients EXCEPT ![i].dec = d],
           clients' = IF d.shook THEN clients \cup {i} ELSE clients \ {i}
    PROVE  /\ ClientsOK' /\ LuaKnowsClients' /\ clients' \subseteq Slots
           /\ \A k \in Slots : Open(k)' = Open(k)
<1> DEFINE s == [_sClients[i] EXCEPT !.dec = d]
<1>1. _sClients[i] \in [sock : Conns \cup {INVALID_SOCKET}, dec : Decoders]
  BY DEF ServerType
<1>2. s \in [sock : Conns \cup {INVALID_SOCKET}, dec : Decoders] /\ s.sock = _sClients[i].sock /\ s.dec = d
  BY <1>1
<1>3. SlotOK(s) /\ s.sock # INVALID_SOCKET
  BY <1>2 DEF SlotOK, Open
<1>4. _sClients' = [_sClients EXCEPT ![i] = s]
  OBVIOUS
<1> HIDE DEF s
<1>5. clients' = IF s.sock # INVALID_SOCKET /\ s.dec.shook THEN clients \cup {i} ELSE clients \ {i}
  BY <1>2, <1>3
<1> QED
  BY <1>3, <1>4, <1>5, SlotChanges, ServerTypeSplit DEF Open

ServerInv == ServerType /\ LuaKnowsClients

LEMMA AcceptInv ==
    ASSUME ServerInv, acceptClients
    PROVE  ServerInv'
<1> DEFINE free == {i \in Slots : ~Open(i)}
<1>0. pc' = pc /\ pc = "select" /\ backlog # <<>> /\ UNCHANGED <<ready, fresh, clients, heard>>
  BY DEF acceptClients
<1>1. CASE free = {}
  <2>1. UNCHANGED <<backlog, _sClients>>
    BY <1>1 DEF acceptClients
  <2> QED
    BY <1>0, <2>1 DEF ServerInv, ServerType, LuaKnowsClients, Open
<1>2. CASE free # {}
  <2> DEFINE i == Min(free)
  <2>1. i \in Slots /\ ~Open(i)
    BY <1>2, LowestSlot
  <2>2. _sClients' = [_sClients EXCEPT ![i].sock = Head(backlog)] /\ backlog' = Tail(backlog)
    BY <1>2 DEF acceptClients
  <2> HIDE DEF i
  <2>3. Head(backlog) \in Conns /\ Tail(backlog) \in Seq(Conns)
    BY <1>0 DEF ServerInv, ServerType
  <2>4. _sClients[i] = Free /\ Free.dec = NoDecoder
    BY <2>1 DEF ServerInv, ServerType, Free
  <2> DEFINE s == [Free EXCEPT !.sock = Head(backlog)]
  <2>5. _sClients' = [_sClients EXCEPT ![i] = s]
    BY <2>2, <2>4
  <2>6. /\ Head(backlog) # INVALID_SOCKET /\ NoDecoder \in Decoders /\ NoDecoder.shook = FALSE
        /\ NoDecoder.used = 0 /\ NoDecoder.got = 0
    BY <2>3, WsAssumption, FreeOK DEF NoDecoder, SlotOK, Free
  <2>7. s.sock = Head(backlog) /\ s.dec = NoDecoder
        /\ s \in [sock : Conns \cup {INVALID_SOCKET}, dec : Decoders]
    BY <2>3, <2>6 DEF Free
  <2> HIDE DEF s
  <2>8. SlotOK(s) /\ s.sock # INVALID_SOCKET
    BY <2>3, <2>6, <2>7, UnitsType DEF SlotOK
  <2>9. i \notin clients
    BY <2>1 DEF ServerInv, LuaKnowsClients
  <2>10. clients' = IF s.sock # INVALID_SOCKET /\ s.dec.shook THEN clients \cup {i} ELSE clients \ {i}
    BY <1>0, <2>6, <2>7, <2>9
  <2>11. ClientsOK' /\ LuaKnowsClients' /\ (\A k \in Slots : Open(k) => Open(k)')
    BY <2>1, <2>5, <2>8, <2>10, SlotChanges, ServerTypeSplit DEF ServerInv
  <2>12. PlaceOK'
    BY <1>0, <2>11, StayPlace DEF ServerInv
  <2> QED
    BY <1>0, <2>2, <2>3, <2>11, <2>12, ServerTypeAfter DEF ServerInv, ServerType
<1> QED
  BY <1>1, <1>2

(* A step of handleClients that ends with a client gone.                    *)
LEMMA GoneInv ==
    ASSUME ServerInv, pc \in {"clients", "decode"}, disconnectClient(Current), Done, UNCHANGED <<backlog, fresh>>
    PROVE  ServerInv'
<1>1. /\ ClientsOK' /\ LuaKnowsClients' /\ clients' \subseteq Slots
      /\ \A k \in Slots : k # Current => Open(k)' = Open(k)
      /\ heard' \in [Slots -> Seq(Pieces)]
  BY CurrentSlot, Disconnected DEF ServerInv
<1>2. PlaceOK'
  BY <1>1, DonePlace DEF ServerInv
<1> QED
  BY <1>1, <1>2, ServerTypeAfter DEF ServerInv, ServerType

LEMMA RecvInv ==
    ASSUME ServerInv, clientRecv
    PROVE  ServerInv'
<1> DEFINE i == Current
           c == _sClients[i].sock
           d == _sClients[i].dec
<1>0. pc = "clients" /\ UNCHANGED <<backlog, fresh>>
  BY DEF clientRecv
<1>1. /\ i \in Slots /\ Open(i) /\ c \in Conns /\ d \in Decoders
      /\ d.used <= d.got /\ d.got <= Units(c)
  BY <1>0, CurrentSlot DEF ServerInv
<1>2. CASE disconnectClient(i) /\ Done
  BY <1>0, <1>2, GoneInv
<1>3. CASE /\ Kind[c] = "ws" /\ clients' = clients \cup {i} /\ UNCHANGED heard /\ Done
           /\ _sClients' = [_sClients EXCEPT ![i].dec = [@ EXCEPT !.kind = "ws", !.shook = TRUE, !.got = 1, !.used = 1]]
  <2> DEFINE e == [d EXCEPT !.kind = "ws", !.shook = TRUE, !.got = 1, !.used = 1]
  <2>1. e \in Decoders /\ e.shook = TRUE /\ e.got = 1 /\ e.used = 1
    BY <1>1 DEF Decoders
  <2>2. _sClients' = [_sClients EXCEPT ![i].dec = e]
    BY <1>3
  <2> HIDE DEF e
  <2>3. e.used <= e.got /\ e.got <= Units(c)
    BY <1>1, <1>3, <2>1, UnitsType DEF Handshake
  <2>4. clients' = IF e.shook THEN clients \cup {i} ELSE clients \ {i}
    BY <1>3, <2>1
  <2>5. ClientsOK' /\ LuaKnowsClients' /\ clients' \subseteq Slots /\ \A k \in Slots : Open(k)' = Open(k)
    BY <1>1, <2>1, <2>2, <2>3, <2>4, DecoderChanges DEF ServerInv
  <2>6. PlaceOK'
    BY <1>0, <1>3, <2>5, DonePlace DEF ServerInv
  <2> QED
    BY <1>0, <1>3, <2>5, <2>6, ServerTypeAfter DEF ServerInv, ServerType
<1>4. ASSUME NEW n \in d.got + 1 .. Units(c), UNCHANGED <<ready, clients, heard>>, pc' = "decode",
             _sClients' = [_sClients EXCEPT ![i].dec = [@ EXCEPT !.kind = Kind[c], !.got = n]]
      PROVE  ServerInv'
  <2> DEFINE e == [d EXCEPT !.kind = Kind[c], !.got = n]
  <2>0. d.got \in Nat /\ d.used \in Nat /\ Kind[c] \in {"ws", "raw"} /\ Units(c) \in Nat
    BY <1>1, UnitsType, WsAssumption DEF Decoders
  <2>1. n \in Nat /\ d.used <= n /\ n <= Units(c)
    BY <1>1, <1>4, <2>0
  <2>2. e \in Decoders /\ e.shook = d.shook /\ e.got = n /\ e.used = d.used
    BY <1>1, <2>0, <2>1 DEF Decoders
  <2>3. _sClients' = [_sClients EXCEPT ![i].dec = e]
    BY <1>4
  <2> HIDE DEF e
  <2>4. clients' = IF e.shook THEN clients \cup {i} ELSE clients \ {i}
    BY <1>1, <1>4, <2>2 DEF ServerInv, LuaKnowsClients
  <2>5. ClientsOK' /\ LuaKnowsClients' /\ clients' \subseteq Slots /\ \A k \in Slots : Open(k)' = Open(k)
    BY <1>1, <2>1, <2>2, <2>3, <2>4, DecoderChanges DEF ServerInv
  <2>6. PlaceOK'
    BY <1>0, <1>4, <2>5, CurrentSlot, StayPlace DEF ServerInv
  <2> QED
    BY <1>0, <1>4, <2>5, <2>6, ServerTypeAfter DEF ServerInv, ServerType
<1> QED
  BY <1>2, <1>3, <1>4 DEF clientRecv, HungUp

LEMMA IncompleteInv ==
    ASSUME ServerInv, DecodeIncomplete
    PROVE  ServerInv'
<1>0. pc = "decode" /\ UNCHANGED <<backlog, fresh>> /\ Done
  BY DEF DecodeIncomplete
<1>1. CASE UNCHANGED <<_sClients, clients, heard>>
  <2>1. \A k \in Slots : Open(k)' = Open(k)
    BY <1>1 DEF Open
  <2>2. PlaceOK'
    BY <1>0, <2>1, DonePlace DEF ServerInv
  <2>3. ClientsOK' /\ LuaKnowsClients'
    BY <1>1, ServerTypeSplit DEF ServerInv, ClientsOK, LuaKnowsClients, Open
  <2> QED
    BY <1>0, <1>1, <2>2, <2>3, ServerTypeAfter DEF ServerInv, ServerType
<1>2. CASE disconnectClient(Current)
  BY <1>0, <1>2, GoneInv
<1> QED
  BY <1>1, <1>2 DEF DecodeIncomplete

(* The decoder took a frame out.                                            *)
LEMMA ConsumedInv ==
    ASSUME ServerInv, pc = "decode", Complete(_sClients[Current].dec), NEW cache \in Pieces,
           Consumed(Current, cache), heard' \in [Slots -> Seq(Pieces)], UNCHANGED <<backlog, fresh>>
    PROVE  ServerInv'
<1> DEFINE i == Current
           d == _sClients[i].dec
           e == [d EXCEPT !.used = @ + 2, !.m_cache = cache]
<1>1. /\ i \in Slots /\ Open(i) /\ d \in Decoders
      /\ d.used <= d.got /\ d.got <= Units(_sClients[i].sock)
  BY CurrentSlot DEF ServerInv
<1>2. d.got \in Nat /\ d.used \in Nat /\ d.used + 2 <= d.got
  BY <1>1 DEF Decoders, Complete, Left
<1>3. e \in Decoders /\ e.used = d.used + 2 /\ e.got = d.got /\ e.shook = d.shook
  <2> HIDE DEF d
  <2>1. d.used + 2 \in Nat
    BY <1>2
  <2> QED
    BY <1>1, <2>1 DEF Decoders
<1>4. _sClients' = [_sClients EXCEPT ![i].dec = e]
  BY <1>1 DEF Consumed, ServerInv, ServerType
<1> HIDE DEF e
<1>5. clients' = IF e.shook THEN clients \cup {i} ELSE clients \ {i}
  BY <1>1, <1>3 DEF ServerInv, LuaKnowsClients, Consumed
<1>6. ClientsOK' /\ LuaKnowsClients' /\ clients' \subseteq Slots /\ \A k \in Slots : Open(k)' = Open(k)
  BY <1>1, <1>2, <1>3, <1>4, <1>5, DecoderChanges DEF ServerInv
<1>7. PlaceOK'
  BY <1>6, DonePlace, StayPlace DEF Consumed, ServerInv
<1> QED
  BY <1>6, <1>7, ServerTypeAfter DEF ServerInv, ServerType

LEMMA FrameInv ==
    ASSUME ServerInv, DecodeFrame
    PROVE  ServerInv'
<1> DEFINE i == Current
           c == _sClients[i].sock
           d == _sClients[i].dec
           n == FrameAt(c, d.used)
           m == Append(d.m_cache, <<c, n>>)
<1>0. pc = "decode" /\ UNCHANGED <<backlog, fresh>> /\ Complete(d)
  BY DEF DecodeFrame
<1>1. i \in Slots /\ c \in Conns /\ d \in Decoders /\ heard \in [Slots -> Seq(Pieces)]
  BY <1>0, CurrentSlot DEF ServerInv, ServerType
<1>2. n \in Int
  <2>1. d.used \in Int /\ Handshake(c) \in Int
    BY <1>1, UnitsType DEF Decoders
  <2>2. (d.used - Handshake(c)) \div 2 \in Int
    BY <2>1
  <2> QED
    BY <2>2 DEF FrameAt
<1>3. m \in Pieces /\ d.m_cache \in Pieces /\ <<>> \in Pieces
  <2>1. <<c, n>> \in Conns \X Int
    BY <1>1, <1>2
  <2>2. d.m_cache \in Pieces /\ <<>> \in Pieces
    BY <1>1 DEF Decoders, Pieces
  <2> HIDE DEF d, n, c
  <2> QED
    BY <2>1, <2>2 DEF Pieces
<1> HIDE DEF n, m
<1>4. CASE disconnectClient(i) /\ Done
  BY <1>0, <1>4, GoneInv
<1>5. ASSUME NEW cache \in Pieces, Consumed(i, cache), UNCHANGED heard PROVE ServerInv'
  BY <1>0, <1>1, <1>5, ConsumedInv
<1>6. CASE Deliver(i, m)
  <2>1. heard' = [heard EXCEPT ![i] = Append(@, m)] /\ Consumed(i, <<>>)
    BY <1>6 DEF Deliver
  <2>2. Append(heard[i], m) \in Seq(Pieces)
    BY <1>1, <1>3
  <2>3. heard' \in [Slots -> Seq(Pieces)]
    BY <1>1, <2>1, <2>2
  <2> QED
    BY <1>0, <1>3, <2>1, <2>3, ConsumedInv
<1>7. \/ disconnectClient(i) /\ Done
      \/ Consumed(i, d.m_cache) /\ UNCHANGED heard
      \/ Consumed(i, m) /\ UNCHANGED heard
      \/ Consumed(i, <<>>) /\ UNCHANGED heard
      \/ Deliver(i, m)
  <2> DEFINE f == Frames[c][n]
  <2>1. \/ f.op \in {"close", "other"} /\ disconnectClient(i) /\ Done
        \/ f.op = "pong" /\ Consumed(i, d.m_cache) /\ UNCHANGED heard
        \/ f.op \notin {"close", "other", "pong"} /\ ~f.fin /\ Consumed(i, m) /\ UNCHANGED heard
        \/ f.op \notin {"close", "other", "pong"} /\ f.fin /\ Deliver(i, m)
        \/ f.op \notin {"close", "other", "pong"} /\ f.fin /\ Consumed(i, <<>>) /\ UNCHANGED heard
    BY DEF DecodeFrame, n, m
  <2> QED
    BY <2>1
<1> QED
  BY <1>3, <1>4, <1>5, <1>6, <1>7

LEMMA ServerNext ==
    ASSUME ServerInv, [Next]_vars
    PROVE  ServerInv'
<1>1. CASE UNCHANGED serverRest /\ pc' \in {"select", "timers", "callback", "dispatch"}
           /\ pc \in {"select", "timers", "callback", "dispatch"}
  <2>1. PlaceOK' /\ ClientsOK' /\ LuaKnowsClients'
    BY <1>1, ServerTypeSplit DEF ServerInv, PlaceOK, ClientsOK, LuaKnowsClients, Open, serverRest
  <2> QED
    BY <1>1, <2>1, ServerTypeAfter DEF ServerInv, ServerType, serverRest
<1>2. CASE UNCHANGED serverVars
  BY <1>2 DEF serverVars, ServerInv, ServerType, LuaKnowsClients, Open
<1>3. CASE SelectClients
  <2>1. UNCHANGED <<backlog, fresh, _sClients, clients, heard>>
    BY <1>3 DEF SelectClients
  <2>2. ready' \subseteq {k \in Slots : Open(k)} /\ ready' # {} /\ pc' = "clients"
    BY <1>3 DEF SelectClients
  <2>3. \A k \in Slots : Open(k)' = Open(k)
    BY <2>1 DEF Open
  <2>4. ClientsOK' /\ LuaKnowsClients'
    BY <2>1, ServerTypeSplit DEF ServerInv, ClientsOK, LuaKnowsClients, Open
  <2>5. PlaceOK'
    BY <2>2, <2>3 DEF PlaceOK
  <2> QED
    BY <2>1, <2>4, <2>5, ServerTypeAfter DEF ServerInv, ServerType
<1>4. CASE SelectTimesOut
  BY <1>1, <1>4 DEF SelectTimesOut, serverRest
<1>5. CASE CheckExpires \/ CallbackReturns \/ API_DoDispatch
  BY <1>1, <1>5 DEF CheckExpires, CallbackReturns, API_DoDispatch
<1>6. CASE Connect
  <2>1. PICK c \in fresh : backlog' = Append(backlog, c) /\ fresh' = fresh \ {c}
    BY <1>6 DEF Connect
  <2>2. backlog' \in Seq(Conns) /\ fresh' \subseteq Conns
    BY <2>1 DEF ServerInv, ServerType
  <2>3. UNCHANGED <<pc, ready, _sClients, clients, heard>>
    BY <1>6 DEF Connect
  <2>4. \A k \in Slots : Open(k)' = Open(k)
    BY <2>3 DEF Open
  <2>5. ClientsOK' /\ LuaKnowsClients'
    BY <2>3, ServerTypeSplit DEF ServerInv, ClientsOK, LuaKnowsClients, Open
  <2>6. PlaceOK'
    BY <2>3, <2>4, StayPlace DEF ServerInv
  <2> QED
    BY <2>2, <2>3, <2>5, <2>6, ServerTypeAfter DEF ServerInv, ServerType
<1>7. CASE LuaCalls \/ TimePasses \/ UNCHANGED vars
  BY <1>2, <1>7 DEF LuaCalls, TimePasses, vars
<1> QED
  BY <1>3, <1>4, <1>5, <1>6, <1>7, AcceptInv, RecvInv, IncompleteInv, FrameInv
     DEF Next, Server, handleClients

LEMMA TimersNext ==
    ASSUME TimerType, TimersInv, [Next]_vars
    PROVE  TimerType' /\ TimersInv'
<1>1. CASE UNCHANGED timerVars
  BY <1>1 DEF timerVars, TimerType, TimersInv, OneTimeval, NamesFitTimers
<1>2. CASE CheckExpires
  BY <1>1, <1>2, TimerFired, TimerTypeNext DEF CheckExpires
<1>3. CASE LuaCalls
  BY <1>3, TimerStarted, TimerStopped, TimerTypeNext DEF LuaCalls
<1>4. CASE TimePasses
  <2>1. Tick
    BY <1>4 DEF TimePasses
  <2> QED
    BY <2>1, TimerTypeNext DEF Tick, TimersInv, OneTimeval, NamesFitTimers
<1> QED
  BY <1>1, <1>2, <1>3, <1>4 DEF Next, Server, CallbackReturns, API_DoDispatch, vars
-----------------------------------------------------------------------------
LEMMA InitInv == Init => IInv
<1> SUFFICES ASSUME Init PROVE IInv
  OBVIOUS
<1>1. TimerType /\ TimersInv
  BY AppTimerAssumption DEF Init, TimerInit, TimerType, TimersInv, OneTimeval, NamesFitTimers
<1>2. Free \in [sock : Conns \cup {INVALID_SOCKET}, dec : Decoders] /\ Free.sock = INVALID_SOCKET
  BY FreeOK DEF SlotOK
<1>3. ServerType
  BY <1>2 DEF Init, ServerInit, ServerType, Open
<1>4. LuaKnowsClients
  BY <1>2 DEF Init, ServerInit, LuaKnowsClients, Open
<1> QED
  BY <1>1, <1>3, <1>4 DEF IInv, TypeOK

LEMMA NextInv == IInv /\ [Next]_vars => IInv'
  BY ServerNext, TimersNext DEF IInv, TypeOK, ServerInv

(* The inductive invariant holds in every state, for any number of slots,   *)
(* connections and frames, sessions and timers.                             *)
THEOREM Inductive == Spec => []IInv
  BY InitInv, NextInv, PTL DEF Spec

(* The types of the server and of the timers: a free slot keeps nothing of  *)
(* its last client, a decoder consumes no more than it received, and a slot *)
(* that is visited is open.                                                 *)
THEOREM TypeCorrect == Spec => []TypeOK
<1>1. IInv => TypeOK
  BY DEF IInv
<1> QED
  BY <1>1, Inductive, PTL

(* Lua's table of clients is the server's: every connect and disconnect is  *)
(* told, whatever the client sends or leaves half sent.                     *)
THEOREM LuaKnows == Spec => []LuaKnowsClients
<1>1. IInv => LuaKnowsClients
  BY DEF IInv
<1> QED
  BY <1>1, Inductive, PTL

(* A session's timer is pending exactly while its name is in the map, save  *)
(* for one that a cancellation for another name erased.                     *)
THEOREM NamesFit == Spec => []NamesFitTimers
<1>1. IInv => NamesFitTimers
  BY DEF IInv, TimersInv
<1> QED
  BY <1>1, Inductive, PTL
-----------------------------------------------------------------------------
(* What became of the frames of a client: those before its n-th.            *)
AllKept(c, n, all) ==
    \A x \in 1 .. n - 1 :
        Precious(c, x) => \E j \in DOMAIN all : <<c, x>> \in Range(all[j])

Faithful(c, n, all) == SentBy(c, n, all) /\ Ordered(all) /\ AllKept(c, n, all)

(* The cache holds fragments of the message that frame n belongs to.        *)
Pending(c, n, cache) ==
    \A k \in DOMAIN cache :
        /\ cache[k][1] = c /\ cache[k][2] \in 1 .. n - 1
        /\ Fragment(c, cache[k][2]) /\ SameMessage(c, cache[k][2], n)

(* A slot and its messages: a client whose handshake is not done has sent   *)
(* nothing else, and of one that is gone nothing is left.                   *)
Fine(s, told) ==
    IF s.sock # INVALID_SOCKET
    THEN /\ Faithful(s.sock, FrameAt(s.sock, s.dec.used), Append(told, s.dec.m_cache))
         /\ Pending(s.sock, FrameAt(s.sock, s.dec.used), s.dec.m_cache)
         /\ Kind[s.sock] = "raw" \/ s.dec.shook => 1 <= FrameAt(s.sock, s.dec.used)
         /\ Kind[s.sock] = "ws" /\ ~s.dec.shook => s.dec.got = 0
    ELSE told = <<>>

FramesInv == \A i \in Slots : Fine(_sClients[i], heard[i])

(* What Append does to a sequence.                                          *)
LEMMA AppendFacts ==
    ASSUME NEW S, NEW s \in Seq(S), NEW e \in S
    PROVE  /\ Append(s, e) \in Seq(S) /\ DOMAIN Append(s, e) = 1 .. Len(s) + 1
           /\ DOMAIN s = 1 .. Len(s) /\ Len(s) \in Nat
           /\ \A j \in 1 .. Len(s) : Append(s, e)[j] = s[j]
           /\ Append(s, e)[Len(s) + 1] = e
  OBVIOUS

(* Frame n joins the message in the cache.                                  *)
LEMMA FrameJoins ==
    ASSUME NEW h \in Seq(Pieces), NEW q \in Pieces, NEW c \in Conns, NEW n \in Int,
           Faithful(c, n, Append(h, q))
    PROVE  Faithful(c, n + 1, Append(h, Append(q, <<c, n>>)))
<1> DEFINE p == <<c, n>>
           r == Append(q, p)
           a == Append(h, q)
           b == Append(h, r)
           L == Len(h)
<1>0. p \in Conns \X Int /\ p[1] = c /\ p[2] = n /\ q \in Seq(Conns \X Int)
  BY DEF Pieces
<1> HIDE DEF p
<1>1. /\ r \in Pieces /\ DOMAIN r = 1 .. Len(q) + 1 /\ DOMAIN q = 1 .. Len(q) /\ Len(q) \in Nat
      /\ \A k \in 1 .. Len(q) : r[k] = q[k]
      /\ r[Len(q) + 1] = p
  BY <1>0, AppendFacts DEF Pieces
<1> HIDE DEF r
<1>2. /\ DOMAIN a = 1 .. L + 1 /\ DOMAIN b = 1 .. L + 1 /\ L \in Nat
      /\ \A j \in 1 .. L : a[j] = h[j] /\ b[j] = h[j]
      /\ a[L + 1] = q /\ b[L + 1] = r
  BY <1>1, AppendFacts
<1> HIDE DEF a, b, L
<1>3. SentBy(c, n, a) /\ Ordered(a) /\ AllKept(c, n, a)
  BY DEF Faithful, a
<1>4. \A j \in 1 .. L : b[j] = a[j]
  BY <1>2
<1>5. \A j \in DOMAIN a : DOMAIN a[j] \subseteq DOMAIN b[j] /\ \A k \in DOMAIN a[j] : b[j][k] = a[j][k]
  BY <1>1, <1>2
<1>6. \A j \in DOMAIN b : \A k \in DOMAIN b[j] :
        \/ j \in DOMAIN a /\ k \in DOMAIN a[j] /\ b[j][k] = a[j][k]
        \/ j = L + 1 /\ k = Len(q) + 1 /\ b[j][k] = p
  <2> SUFFICES ASSUME NEW j \in DOMAIN b, NEW k \in DOMAIN b[j]
               PROVE  \/ j \in DOMAIN a /\ k \in DOMAIN a[j] /\ b[j][k] = a[j][k]
                      \/ j = L + 1 /\ k = Len(q) + 1 /\ b[j][k] = p
    OBVIOUS
  <2>1. CASE j \in 1 .. L
    BY <1>2, <2>1
  <2>2. CASE j = L + 1
    <3>1. k \in 1 .. Len(q) + 1 /\ b[j] = r /\ a[j] = q
      BY <1>1, <1>2, <2>2
    <3>2. CASE k = Len(q) + 1
      BY <1>1, <2>2, <3>1, <3>2
    <3>3. CASE k \in 1 .. Len(q)
      BY <1>1, <1>2, <2>2, <3>1, <3>3
    <3> QED
      BY <1>1, <3>1, <3>2, <3>3
  <2> QED
    BY <1>2, <2>1, <2>2
<1>7. \A j \in DOMAIN a : \A k \in DOMAIN a[j] : a[j][k][2] \in Int
  <2>1. \A j \in DOMAIN a : a[j] \in Seq(Conns \X Int)
    <3>1. a \in Seq(Pieces)
      BY AppendFacts DEF a
    <3> QED
      BY <3>1 DEF Pieces
  <2>2. \A j \in DOMAIN a : \A k \in DOMAIN a[j] : a[j][k] \in Conns \X Int
    BY <2>1
  <2> QED
    BY <2>2
<1>8. SentBy(c, n + 1, b)
  <2> SUFFICES ASSUME NEW j \in DOMAIN b, NEW k \in DOMAIN b[j]
               PROVE  b[j][k][1] = c /\ b[j][k][2] < n + 1
    BY DEF SentBy
  <2>1. CASE j \in DOMAIN a /\ k \in DOMAIN a[j] /\ b[j][k] = a[j][k]
    <3>1. a[j][k][1] = c /\ a[j][k][2] < n /\ a[j][k][2] \in Int
      BY <1>3, <1>7, <2>1 DEF SentBy
    <3> QED
      BY <2>1, <3>1
  <2>2. CASE b[j][k] = p
    BY <1>0, <2>2
  <2> QED
    BY <1>6, <2>1, <2>2
<1>9. Ordered(b)
  <2> SUFFICES ASSUME NEW j \in DOMAIN b, NEW l \in DOMAIN b, NEW k \in DOMAIN b[j], NEW m \in DOMAIN b[l],
                      j < l \/ (j = l /\ k < m)
               PROVE  b[j][k][2] < b[l][m][2]
    BY DEF Ordered
  <2>1. j \in 1 .. L + 1 /\ l \in 1 .. L + 1
    BY <1>2
  <2>2. ~(j = L + 1 /\ k = Len(q) + 1)
    <3>1. ASSUME j = L + 1, k = Len(q) + 1 PROVE FALSE
      <4>1. l = L + 1 /\ m \in 1 .. Len(q) + 1
        BY <1>1, <1>2, <2>1, <3>1
      <4> QED
        BY <1>1, <1>2, <3>1, <4>1
    <3> QED
      BY <3>1
  <2>3. j \in DOMAIN a /\ k \in DOMAIN a[j] /\ b[j][k] = a[j][k]
    BY <1>6, <2>2
  <2>4. CASE l \in DOMAIN a /\ m \in DOMAIN a[l] /\ b[l][m] = a[l][m]
    <3>1. a[j][k][2] < a[l][m][2]
      BY <1>3, <2>3, <2>4 DEF Ordered
    <3> QED
      BY <2>3, <2>4, <3>1
  <2>5. CASE b[l][m] = p
    <3>1. a[j][k][2] < n
      BY <1>3, <2>3 DEF SentBy
    <3> QED
      BY <1>0, <2>3, <2>5, <3>1
  <2> QED
    BY <1>6, <2>4, <2>5
<1>10. AllKept(c, n + 1, b)
  <2> SUFFICES ASSUME NEW x \in 1 .. (n + 1) - 1, Precious(c, x)
               PROVE  \E j \in DOMAIN b : <<c, x>> \in Range(b[j])
    BY DEF AllKept
  <2>1. CASE x = n
    <3>1. L + 1 \in DOMAIN b /\ b[L + 1] = r /\ r[Len(q) + 1] = <<c, x>> /\ Len(q) + 1 \in DOMAIN r
      BY <1>1, <1>2, <2>1 DEF p
    <3>2. <<c, x>> \in Range(r)
      BY <3>1 DEF Range
    <3> QED
      BY <3>1, <3>2
  <2>2. CASE x # n
    <3>1. x \in 1 .. n - 1
      BY <2>2
    <3>2. PICK j \in DOMAIN a : <<c, x>> \in Range(a[j])
      BY <1>3, <3>1 DEF AllKept
    <3>3. PICK k \in DOMAIN a[j] : a[j][k] = <<c, x>>
      BY <3>2 DEF Range
    <3>4. k \in DOMAIN b[j] /\ b[j][k] = <<c, x>> /\ j \in DOMAIN b
      BY <1>2, <1>5, <3>3
    <3>5. <<c, x>> \in Range(b[j])
      BY <3>4 DEF Range
    <3> QED
      BY <3>4, <3>5
  <2> QED
    BY <2>1, <2>2
<1> QED
  BY <1>8, <1>9, <1>10 DEF Faithful, b, r, p

(* A message is told and the cache cleared.                                 *)
LEMMA MessageTold ==
    ASSUME NEW h \in Seq(Pieces), NEW m \in Pieces, NEW c, NEW n \in Int,
           Faithful(c, n, Append(h, m))
    PROVE  Faithful(c, n, Append(Append(h, m), <<>>))
<1> DEFINE a == Append(h, m)
           b == Append(a, <<>>)
<1>1. a \in Seq(Pieces) /\ <<>> \in Pieces /\ DOMAIN <<>> = {}
  BY DEF Pieces
<1> HIDE DEF a
<1>2. /\ DOMAIN b = 1 .. Len(a) + 1 /\ DOMAIN a = 1 .. Len(a) /\ Len(a) \in Nat
      /\ \A j \in 1 .. Len(a) : b[j] = a[j]
      /\ b[Len(a) + 1] = <<>>
  BY <1>1, AppendFacts
<1> HIDE DEF b
<1>3. SentBy(c, n, a) /\ Ordered(a) /\ AllKept(c, n, a)
  BY DEF Faithful, a
<1>4. \A j \in DOMAIN b : \A k \in DOMAIN b[j] : j \in DOMAIN a /\ k \in DOMAIN a[j] /\ b[j] = a[j]
  BY <1>1, <1>2
<1>5. SentBy(c, n, b)
  BY <1>3, <1>4 DEF SentBy
<1>6. Ordered(b)
  BY <1>3, <1>4 DEF Ordered
<1>7. AllKept(c, n, b)
  BY <1>2, <1>3 DEF AllKept
<1> QED
  BY <1>5, <1>6, <1>7 DEF Faithful, a, b

(* A frame that carries no text may be dropped.                             *)
LEMMA FrameDropped ==
    ASSUME NEW h \in Seq(Pieces), NEW q \in Pieces, NEW c, NEW n \in Int,
           Faithful(c, n, Append(h, q)), Frames[c][n].op # "text"
    PROVE  Faithful(c, n + 1, Append(h, q))
<1> DEFINE a == Append(h, q)
<1>1. SentBy(c, n, a) /\ Ordered(a) /\ AllKept(c, n, a) /\ a \in Seq(Pieces)
  BY DEF Faithful
<1> HIDE DEF a
<1>2. \A j \in DOMAIN a : \A k \in DOMAIN a[j] : a[j][k][2] \in Int
  <2>1. \A j \in DOMAIN a : a[j] \in Seq(Conns \X Int)
    BY <1>1 DEF Pieces
  <2>2. \A j \in DOMAIN a : \A k \in DOMAIN a[j] : a[j][k] \in Conns \X Int
    BY <2>1
  <2> QED
    BY <2>2
<1>3. SentBy(c, n + 1, a)
  BY <1>1, <1>2 DEF SentBy
<1>4. AllKept(c, n + 1, a)
  <2> SUFFICES ASSUME NEW x \in 1 .. (n + 1) - 1, Precious(c, x)
               PROVE  \E j \in DOMAIN a : <<c, x>> \in Range(a[j])
    BY DEF AllKept
  <2>1. x # n
    BY DEF Precious
  <2>2. x \in 1 .. n - 1
    BY <2>1
  <2> QED
    BY <1>1, <2>2 DEF AllKept
<1> QED
  BY <1>1, <1>3, <1>4 DEF Faithful, a

(* The cache after a fragment, after a pong, and after a final frame.       *)
LEMMA PendingGrows ==
    ASSUME NEW q \in Pieces, NEW c \in Conns, NEW n \in Int, 1 <= n, Pending(c, n, q), ~Ends(c, n)
    PROVE  /\ Pending(c, n + 1, q)
           /\ Fragment(c, n) => Pending(c, n + 1, Append(q, <<c, n>>))
           /\ \A m : Pending(c, m, <<>>)
<1> DEFINE p == <<c, n>>
           r == Append(q, p)
<1>0. p \in Conns \X Int /\ p[1] = c /\ p[2] = n /\ q \in Seq(Conns \X Int)
  BY DEF Pieces
<1> HIDE DEF p
<1>1. /\ DOMAIN r = 1 .. Len(q) + 1 /\ DOMAIN q = 1 .. Len(q) /\ Len(q) \in Nat
      /\ \A k \in 1 .. Len(q) : r[k] = q[k]
      /\ r[Len(q) + 1] = p
  BY <1>0, AppendFacts
<1> HIDE DEF r
<1>2. ASSUME NEW x \in 1 .. n, x = n \/ SameMessage(c, x, n) PROVE SameMessage(c, x, n + 1)
  <2>1. ASSUME NEW z \in x .. (n + 1) - 1 PROVE ~Ends(c, z)
    <3>1. z = n \/ (x # n /\ z \in x .. n - 1)
      OBVIOUS
    <3> QED
      BY <1>2, <3>1 DEF SameMessage
  <2> QED
    BY <2>1 DEF SameMessage
<1>3. ASSUME NEW k \in DOMAIN q
      PROVE  /\ q[k][1] = c /\ q[k][2] \in 1 .. (n + 1) - 1
             /\ Fragment(c, q[k][2]) /\ SameMessage(c, q[k][2], n + 1)
  <2>1. q[k][1] = c /\ q[k][2] \in 1 .. n - 1 /\ Fragment(c, q[k][2]) /\ SameMessage(c, q[k][2], n)
    BY DEF Pending
  <2>2. q[k][2] \in 1 .. n /\ q[k][2] \in 1 .. (n + 1) - 1
    BY <2>1
  <2> QED
    BY <1>2, <2>1, <2>2
<1>4. Pending(c, n + 1, q)
  BY <1>3 DEF Pending
<1>5. ASSUME Fragment(c, n) PROVE Pending(c, n + 1, r)
  <2>1. SameMessage(c, n, n + 1) /\ n \in 1 .. (n + 1) - 1
    BY <1>2
  <2>2. ASSUME NEW k \in DOMAIN r
        PROVE  /\ r[k][1] = c /\ r[k][2] \in 1 .. (n + 1) - 1
               /\ Fragment(c, r[k][2]) /\ SameMessage(c, r[k][2], n + 1)
    <3>1. CASE k \in DOMAIN q
      BY <1>1, <1>3, <3>1
    <3>2. CASE k = Len(q) + 1
      BY <1>0, <1>1, <1>5, <2>1, <3>2
    <3> QED
      BY <1>1, <3>1, <3>2
  <2> QED
    BY <2>2 DEF Pending
<1>6. \A m : Pending(c, m, <<>>)
  BY DEF Pending
<1> QED
  BY <1>4, <1>5, <1>6 DEF r, p

(* A message that is not taken for text holds no frame that is precious.    *)
LEMMA NoTextDropped ==
    ASSUME NEW q \in Pieces, NEW c \in Conns, NEW n \in 1 .. Len(Frames[c]), Pending(c, n, q), Ends(c, n),
           \A k, l \in DOMAIN q : k < l => q[k][2] < q[l][2],
           NEW t \in content_type(q, Frames[c][n]), t # "text"
    PROVE  /\ ~Precious(c, n)
           /\ \A k \in DOMAIN q : ~Precious(c, q[k][2])
<1> DEFINE typed == {k \in DOMAIN q : Op(q[k]) \in {"text", "bin"}}
<1>0. n \in Nat /\ 1 <= n
  <2>1. Len(Frames[c]) \in Nat
    BY WsAssumption
  <2> QED
    BY <2>1
<1>1. DOMAIN q = 1 .. Len(q) /\ Len(q) \in Nat
  BY DEF Pieces
<1>2. ASSUME NEW k \in DOMAIN q
      PROVE  /\ q[k][1] = c /\ q[k][2] \in 1 .. n - 1
             /\ Fragment(c, q[k][2]) /\ SameMessage(c, q[k][2], n)
             /\ Op(q[k]) = Frames[c][q[k][2]].op
  BY <1>2 DEF Pending, Op
<1>3. ~Precious(c, n)
  <2>1. SUFFICES ASSUME Precious(c, n) PROVE FALSE
    OBVIOUS
  <2>2. Frames[c][n].op = "text" /\ ~\E x \in 1 .. n - 1 : Fragment(c, x) /\ SameMessage(c, x, n)
    BY <2>1 DEF Precious, Ends
  <2>3. DOMAIN q = {}
    BY <1>2, <2>2
  <2>4. q = <<>> /\ typed = {}
    BY <1>1, <2>3 DEF Pieces
  <2>5. t \in {Frames[c][n].op}
    BY <2>2, <2>4 DEF content_type
  <2> QED
    BY <2>2, <2>5
<1>4. ASSUME NEW k \in DOMAIN q, Precious(c, q[k][2]) PROVE FALSE
  <2>1. Frames[c][q[k][2]].op = "text"
    BY <1>4 DEF Precious
  <2>2. k \in typed
    BY <1>2, <2>1
  <2>3. PICK l \in typed : t = Op(q[l]) /\ \A j \in typed : j <= l
    BY <2>2 DEF content_type
  <2>4. l \in DOMAIN q /\ Op(q[l]) = "bin" /\ k <= l /\ k # l
    BY <1>2, <2>1, <2>2, <2>3
  <2> DEFINE x == q[k][2]
             y == q[l][2]
  <2>5. x < y
    BY <1>1, <2>4
  <2>6. /\ x \in 1 .. n - 1 /\ y \in 1 .. n - 1 /\ SameMessage(c, x, n)
        /\ Fragment(c, y) /\ Frames[c][y].op = "bin"
    BY <1>2, <2>4
  <2> HIDE DEF x, y
  <2>7. x .. y - 1 \subseteq x .. n - 1
    BY <1>0, <2>6
  <2>8. SameMessage(c, x, y)
    BY <2>6, <2>7 DEF SameMessage
  <2>9. y \in x + 1 .. Len(Frames[c])
    <3>1. Len(Frames[c]) \in Nat
      BY WsAssumption
    <3> QED
      BY <2>5, <2>6, <3>1
  <2>10. ~Precious(c, x)
    BY <2>6, <2>8, <2>9 DEF Precious
  <2> QED
    BY <1>4, <2>10 DEF x
<1> QED
  BY <1>3, <1>4

(* A message that is not told to Lua is gone, and with it nothing precious. *)
LEMMA MessageDropped ==
    ASSUME NEW h \in Seq(Pieces), NEW q \in Pieces, NEW c, NEW n \in Int,
           Faithful(c, n, Append(h, q)), ~Precious(c, n),
           \A k \in DOMAIN q : ~Precious(c, q[k][2])
    PROVE  Faithful(c, n + 1, Append(h, <<>>))
<1> DEFINE a == Append(h, q)
           b == Append(h, <<>>)
           L == Len(h)
<1>0. <<>> \in Pieces /\ DOMAIN <<>> = {}
  BY DEF Pieces
<1>1. /\ DOMAIN a = 1 .. L + 1 /\ DOMAIN b = 1 .. L + 1 /\ L \in Nat
      /\ \A j \in 1 .. L : a[j] = h[j] /\ b[j] = h[j]
      /\ a[L + 1] = q /\ b[L + 1] = <<>>
  BY <1>0, AppendFacts
<1>2. SentBy(c, n, a) /\ Ordered(a) /\ AllKept(c, n, a) /\ a \in Seq(Pieces)
  BY DEF Faithful
<1> HIDE DEF a, b, L
<1>3. \A j \in DOMAIN b : \A k \in DOMAIN b[j] : j \in DOMAIN a /\ k \in DOMAIN a[j] /\ b[j] = a[j]
  BY <1>0, <1>1
<1>4. \A j \in DOMAIN a : \A k \in DOMAIN a[j] : a[j][k][2] \in Int
  <2>1. \A j \in DOMAIN a : a[j] \in Seq(Conns \X Int)
    BY <1>2 DEF Pieces
  <2>2. \A j \in DOMAIN a : \A k \in DOMAIN a[j] : a[j][k] \in Conns \X Int
    BY <2>1
  <2> QED
    BY <2>2
<1>5. SentBy(c, n + 1, b)
  <2> SUFFICES ASSUME NEW j \in DOMAIN b, NEW k \in DOMAIN b[j]
               PROVE  b[j][k][1] = c /\ b[j][k][2] < n + 1
    BY DEF SentBy
  <2>1. j \in DOMAIN a /\ k \in DOMAIN a[j] /\ b[j] = a[j]
    BY <1>3
  <2>2. a[j][k][1] = c /\ a[j][k][2] < n /\ a[j][k][2] \in Int
    BY <1>2, <1>4, <2>1 DEF SentBy
  <2> QED
    BY <2>1, <2>2
<1>6. Ordered(b)
  BY <1>2, <1>3 DEF Ordered
<1>7. AllKept(c, n + 1, b)
  <2> SUFFICES ASSUME NEW x \in 1 .. (n + 1) - 1, Precious(c, x)
               PROVE  \E j \in DOMAIN b : <<c, x>> \in Range(b[j])
    BY DEF AllKept
  <2>1. x \in 1 .. n - 1
    <3>1. x # n
      OBVIOUS
    <3> QED
      BY <3>1
  <2>2. PICK j \in DOMAIN a : <<c, x>> \in Range(a[j])
    BY <1>2, <2>1 DEF AllKept
  <2>3. PICK k \in DOMAIN a[j] : a[j][k] = <<c, x>>
    BY <2>2 DEF Range
  <2>4. j # L + 1
    <3>1. ASSUME j = L + 1 PROVE FALSE
      <4>1. k \in DOMAIN q /\ q[k] = <<c, x>>
        BY <1>1, <2>3, <3>1
      <4> QED
        BY <4>1
    <3> QED
      BY <3>1
  <2>5. j \in DOMAIN b /\ b[j] = a[j]
    BY <1>1, <2>4
  <2> QED
    BY <2>2, <2>5
<1> QED
  BY <1>5, <1>6, <1>7 DEF Faithful, b

(* Nothing was consumed yet.                                                *)
LEMMA NothingTold ==
    ASSUME NEW c, NEW n \in Int, n <= 1
    PROVE  Faithful(c, n, Append(<<>>, <<>>))
<1> DEFINE a == Append(<<>>, <<>>)
<1>1. <<>> \in Seq(Pieces) /\ <<>> \in Pieces /\ Len(<<>>) = 0 /\ DOMAIN <<>> = {}
  BY DEF Pieces
<1>2. DOMAIN a = 1 .. 1 /\ a[1] = <<>>
  <2>1. DOMAIN a = 1 .. Len(<<>>) + 1 /\ a[Len(<<>>) + 1] = <<>>
    BY <1>1, AppendFacts
  <2> QED
    BY <1>1, <2>1
<1> HIDE DEF a
<1>3. \A j \in DOMAIN a : DOMAIN a[j] = {}
  BY <1>1, <1>2
<1>4. SentBy(c, n, a) /\ Ordered(a)
  BY <1>3 DEF SentBy, Ordered
<1>5. AllKept(c, n, a)
  BY DEF AllKept
<1> QED
  BY <1>4, <1>5 DEF Faithful, a

(* What holds of the frames before n holds of those before n + 1 if there   *)
(* is no n-th.                                                              *)
LEMMA NothingSent ==
    ASSUME NEW h \in Seq(Pieces), NEW q \in Pieces, NEW c, Faithful(c, 0, Append(h, q))
    PROVE  Faithful(c, 1, Append(h, q))
<1> DEFINE a == Append(h, q)
<1>1. SentBy(c, 0, a) /\ Ordered(a) /\ a \in Seq(Pieces)
  BY DEF Faithful
<1> HIDE DEF a
<1>2. \A j \in DOMAIN a : \A k \in DOMAIN a[j] : a[j][k][2] \in Int
  <2>1. \A j \in DOMAIN a : a[j] \in Seq(Conns \X Int)
    BY <1>1 DEF Pieces
  <2>2. \A j \in DOMAIN a : \A k \in DOMAIN a[j] : a[j][k] \in Conns \X Int
    BY <2>1
  <2> QED
    BY <2>2
<1>3. SentBy(c, 1, a)
  BY <1>1, <1>2 DEF SentBy
<1>4. AllKept(c, 1, a)
  BY DEF AllKept
<1> QED
  BY <1>1, <1>3, <1>4 DEF Faithful, a

(* The number of the frame that comes next.                                 *)
LEMMA FrameNumbers ==
    ASSUME NEW c \in Conns, NEW used \in Nat
    PROVE  /\ FrameAt(c, used) \in Int /\ FrameAt(c, used + 2) = FrameAt(c, used) + 1
           /\ FrameAt(c, 0) <= 1
           /\ Kind[c] = "ws" => FrameAt(c, 0) = 0 /\ FrameAt(c, 1) = 1
           /\ Kind[c] = "raw" => FrameAt(c, 0) = 1
           /\ used + 2 <= Units(c) => FrameAt(c, used) <= Len(Frames[c])
<1>1. Handshake(c) = IF Kind[c] = "ws" THEN 1 ELSE 0
  BY DEF Handshake
<1>2. \A x \in Int : x \div 2 \in Int /\ 2 * (x \div 2) <= x /\ x < 2 * (x \div 2) + 2
  OBVIOUS
<1>3. /\ \A h \in {0, 1}, u \in {0, 1} : u - h \in Int
      /\ Handshake(c) \in {0, 1}
  BY <1>1
<1>4. PICK y \in Int : /\ y = (0 - Handshake(c)) \div 2
                       /\ 2 * y <= 0 - Handshake(c) /\ 0 - Handshake(c) < 2 * y + 2
  BY <1>2, <1>3
<1>5. PICK z \in Int : /\ z = (1 - Handshake(c)) \div 2
                       /\ 2 * z <= 1 - Handshake(c) /\ 1 - Handshake(c) < 2 * z + 2
  BY <1>2, <1>3
<1>6. (used - Handshake(c)) \div 2 \in Int
      /\ ((used + 2) - Handshake(c)) \div 2 = (used - Handshake(c)) \div 2 + 1
  BY <1>3
<1>7. y <= 0 /\ (Handshake(c) = 1 => y = -1 /\ z = 0) /\ (Handshake(c) = 0 => y = 0)
  BY <1>3, <1>4, <1>5
<1>8. FrameAt(c, 0) = 1 + y /\ FrameAt(c, 1) = 1 + z
  BY <1>4, <1>5 DEF FrameAt
<1>9. FrameAt(c, used) \in Int /\ FrameAt(c, used + 2) = FrameAt(c, used) + 1
  <2>1. PICK w \in Int : w = (used - Handshake(c)) \div 2
    BY <1>6
  <2>2. FrameAt(c, used) = 1 + w /\ FrameAt(c, used + 2) = 1 + (w + 1)
    BY <1>6, <2>1 DEF FrameAt
  <2> QED
    BY <2>2
<1>10. ASSUME used + 2 <= Units(c) PROVE FrameAt(c, used) <= Len(Frames[c])
  <2>1. Len(Frames[c]) \in Nat /\ Units(c) = Handshake(c) + 2 * Len(Frames[c])
    BY WsAssumption DEF Units
  <2>2. PICK w \in Int : w = (used - Handshake(c)) \div 2 /\ 2 * w <= used - Handshake(c)
    BY <1>2, <1>3
  <2>3. 2 * w + 2 <= 2 * Len(Frames[c])
    BY <1>3, <1>10, <2>1, <2>2
  <2>4. FrameAt(c, used) = 1 + w
    BY <2>2 DEF FrameAt
  <2> QED
    BY <2>1, <2>2, <2>3, <2>4
<1> QED
  BY <1>1, <1>7, <1>8, <1>9, <1>10

(* One slot and its messages change.                                        *)
LEMMA OneSlotFine ==
    ASSUME ServerType, FramesInv, NEW i \in Slots, NEW s, NEW told, Fine(s, told),
           _sClients' = [_sClients EXCEPT ![i] = s], heard' = [heard EXCEPT ![i] = told]
    PROVE  FramesInv'
<1>1. _sClients'[i] = s /\ heard'[i] = told
  BY DEF ServerType
<1>2. \A k \in Slots : k # i => _sClients'[k] = _sClients[k] /\ heard'[k] = heard[k]
  BY DEF ServerType
<1>3. \A k \in Slots : Fine(_sClients'[k], heard'[k])
  BY <1>1, <1>2 DEF FramesInv
<1> QED
  BY <1>3 DEF FramesInv

(* Nothing is left of a client that is gone.                                *)
LEMMA GoneFine ==
    ASSUME ServerType, FramesInv, NEW i \in Slots, disconnectClient(i)
    PROVE  FramesInv'
<1>1. Fine(Free, <<>>)
  BY FreeOK DEF Fine
<1> QED
  BY <1>1, OneSlotFine DEF disconnectClient

(* A decoder changes, and its messages may.                                 *)
LEMMA DecoderFine ==
    ASSUME ServerType, FramesInv, NEW i \in Slots, Open(i), NEW d \in Decoders, NEW told,
           Faithful(_sClients[i].sock, FrameAt(_sClients[i].sock, d.used), Append(told, d.m_cache)),
           Pending(_sClients[i].sock, FrameAt(_sClients[i].sock, d.used), d.m_cache),
           Kind[_sClients[i].sock] = "raw" \/ d.shook => 1 <= FrameAt(_sClients[i].sock, d.used),
           Kind[_sClients[i].sock] = "ws" /\ ~d.shook => d.got = 0,
           _sClients' = [_sClients EXCEPT ![i].dec = d], heard' = [heard EXCEPT ![i] = told]
    PROVE  FramesInv'
<1> DEFINE s == [_sClients[i] EXCEPT !.dec = d]
<1>1. _sClients[i] \in [sock : Conns \cup {INVALID_SOCKET}, dec : Decoders]
  BY DEF ServerType
<1>2. s.sock = _sClients[i].sock /\ s.dec = d
  BY <1>1
<1>3. _sClients' = [_sClients EXCEPT ![i] = s]
  OBVIOUS
<1> HIDE DEF s
<1>4. Fine(s, told)
  BY <1>2 DEF Fine, Open
<1> QED
  BY <1>3, <1>4, OneSlotFine

(* A slot that is given away starts with nothing.                           *)
LEMMA AcceptFine ==
    ASSUME ServerInv, FramesInv, acceptClients
    PROVE  FramesInv'
<1> DEFINE free == {i \in Slots : ~Open(i)}
<1>1. CASE free = {}
  BY <1>1 DEF acceptClients, FramesInv
<1>2. CASE free # {}
  <2> DEFINE i == Min(free)
  <2>1. i \in Slots /\ ~Open(i)
    BY <1>2, LowestSlot
  <2>2. _sClients' = [_sClients EXCEPT ![i].sock = Head(backlog)] /\ UNCHANGED heard /\ backlog # <<>>
    BY <1>2 DEF acceptClients
  <2> HIDE DEF i
  <2> DEFINE c == Head(backlog)
             s == [Free EXCEPT !.sock = c]
  <2>3. c \in Conns /\ c # INVALID_SOCKET
    BY <2>2, WsAssumption DEF ServerInv, ServerType
  <2>4. _sClients[i] = Free
    BY <2>1 DEF ServerInv, ServerType
  <2>5. _sClients' = [_sClients EXCEPT ![i] = s]
    BY <2>2, <2>4
  <2>6. s.sock = c /\ s.dec.used = 0 /\ s.dec.got = 0 /\ s.dec.shook = FALSE /\ s.dec.m_cache = <<>>
    BY DEF Free, NoDecoder
  <2>7. heard[i] = <<>>
    BY <2>1, <2>4, FreeOK DEF FramesInv, Fine
  <2>8. FrameAt(c, 0) \in Int /\ FrameAt(c, 0) <= 1 /\ (Kind[c] = "raw" => FrameAt(c, 0) = 1)
    BY <2>3, FrameNumbers
  <2> HIDE DEF c, s
  <2>11. Pending(c, FrameAt(c, 0), <<>>)
    BY DEF Pending
  <2>12. Kind[c] = "raw" \/ s.dec.shook => 1 <= FrameAt(c, 0)
    BY <2>6, <2>8
  <2>9. Fine(s, <<>>)
    BY <2>3, <2>6, <2>8, <2>11, <2>12, NothingTold DEF Fine
  <2>10. heard' = [heard EXCEPT ![i] = <<>>]
    BY <2>2, <2>7 DEF ServerInv, ServerType
  <2> QED
    BY <2>1, <2>5, <2>9, <2>10, OneSlotFine DEF ServerInv
<1> QED
  BY <1>1, <1>2

(* What arrives is not decoded yet; the handshake is no frame.              *)
LEMMA RecvFine ==
    ASSUME ServerInv, FramesInv, clientRecv
    PROVE  FramesInv'
<1> DEFINE i == Current
           c == _sClients[i].sock
           d == _sClients[i].dec
<1>0. pc = "clients" /\ ServerType
  BY DEF clientRecv, ServerInv
<1>1. /\ i \in Slots /\ Open(i) /\ c \in Conns /\ d \in Decoders
      /\ d.used <= d.got
  BY <1>0, CurrentSlot
<1>2. heard[i] \in Seq(Pieces) /\ d.m_cache \in Pieces /\ d.used \in Nat /\ d.got \in Nat
  BY <1>0, <1>1 DEF ServerType, Decoders
<1>3. /\ Faithful(c, FrameAt(c, d.used), Append(heard[i], d.m_cache))
      /\ Pending(c, FrameAt(c, d.used), d.m_cache)
      /\ Kind[c] = "raw" \/ d.shook => 1 <= FrameAt(c, d.used)
      /\ Kind[c] = "ws" /\ ~d.shook => d.got = 0
  BY <1>1 DEF FramesInv, Fine, Open
<1>4. CASE disconnectClient(i)
  BY <1>0, <1>1, <1>4, GoneFine
<1>5. CASE /\ Kind[c] = "ws" /\ ~d.shook /\ UNCHANGED heard
           /\ _sClients' = [_sClients EXCEPT ![i].dec = [@ EXCEPT !.kind = "ws", !.shook = TRUE, !.got = 1, !.used = 1]]
  <2> DEFINE e == [d EXCEPT !.kind = "ws", !.shook = TRUE, !.got = 1, !.used = 1]
  <2>1. e \in Decoders /\ e.shook = TRUE /\ e.got = 1 /\ e.used = 1 /\ e.m_cache = d.m_cache
    BY <1>1 DEF Decoders
  <2>2. _sClients' = [_sClients EXCEPT ![i].dec = e]
    BY <1>5
  <2> HIDE DEF e
  <2>3. d.used = 0
    BY <1>1, <1>2, <1>3, <1>5
  <2>4. FrameAt(c, 0) = 0 /\ FrameAt(c, 1) = 1
    BY <1>1, <1>5, FrameNumbers
  <2>5. Faithful(c, 0, Append(heard[i], d.m_cache))
    BY <1>3, <2>3, <2>4
  <2>6. Faithful(c, 1, Append(heard[i], d.m_cache))
    BY <1>2, <2>5, NothingSent
  <2>7. Faithful(c, FrameAt(c, e.used), Append(heard[i], e.m_cache))
    BY <2>1, <2>4, <2>6
  <2>8. heard' = [heard EXCEPT ![i] = heard[i]]
    BY <1>0, <1>5 DEF ServerType
  <2>9. Pending(c, 1, d.m_cache)
    <3>1. Pending(c, 0, d.m_cache)
      BY <1>3, <2>3, <2>4
    <3>2. DOMAIN d.m_cache = {}
      BY <3>1 DEF Pending
    <3> QED
      BY <3>2 DEF Pending
  <2>10. Pending(c, FrameAt(c, e.used), e.m_cache) /\ 1 <= FrameAt(c, e.used)
    BY <2>1, <2>4, <2>9
  <2> QED
    BY <1>0, <1>1, <2>1, <2>2, <2>7, <2>8, <2>10, DecoderFine
<1>6. ASSUME NEW n \in d.got + 1 .. Units(c), UNCHANGED heard, Kind[c] = "raw" \/ d.shook,
             _sClients' = [_sClients EXCEPT ![i].dec = [@ EXCEPT !.kind = Kind[c], !.got = n]]
      PROVE  FramesInv'
  <2> DEFINE e == [d EXCEPT !.kind = Kind[c], !.got = n]
  <2>0. Kind[c] \in {"ws", "raw"} /\ Units(c) \in Nat /\ n \in Nat
    BY <1>1, <1>2, <1>6, UnitsType, WsAssumption
  <2>1. e \in Decoders /\ e.shook = d.shook /\ e.used = d.used /\ e.m_cache = d.m_cache
    BY <1>1, <2>0 DEF Decoders
  <2>2. _sClients' = [_sClients EXCEPT ![i].dec = e]
    BY <1>6
  <2> HIDE DEF e
  <2>3. Faithful(c, FrameAt(c, e.used), Append(heard[i], e.m_cache))
    BY <1>3, <2>1
  <2>4. heard' = [heard EXCEPT ![i] = heard[i]]
    BY <1>0, <1>6 DEF ServerType
  <2>5. ~(Kind[c] = "ws" /\ ~e.shook)
    BY <1>6, <2>1
  <2>6. Pending(c, FrameAt(c, e.used), e.m_cache) /\ 1 <= FrameAt(c, e.used)
    BY <1>3, <1>6, <2>1
  <2> QED
    BY <1>0, <1>1, <2>1, <2>2, <2>3, <2>4, <2>5, <2>6, DecoderFine
<1> QED
  BY <1>4, <1>5, <1>6 DEF clientRecv, HungUp

(* The decoder took frame n out, and what it was is told or kept.           *)
LEMMA ConsumedFine ==
    ASSUME ServerInv, FramesInv, pc = "decode", NEW cache \in Pieces, NEW told,
           Consumed(Current, cache), heard' = [heard EXCEPT ![Current] = told],
           Faithful(_sClients[Current].sock,
                    FrameAt(_sClients[Current].sock, _sClients[Current].dec.used) + 1, Append(told, cache)),
           Pending(_sClients[Current].sock,
                   FrameAt(_sClients[Current].sock, _sClients[Current].dec.used) + 1, cache),
           1 <= FrameAt(_sClients[Current].sock, _sClients[Current].dec.used)
    PROVE  FramesInv'
<1> DEFINE i == Current
           c == _sClients[i].sock
           d == _sClients[i].dec
           e == [d EXCEPT !.used = @ + 2, !.m_cache = cache]
<1>1. /\ i \in Slots /\ Open(i) /\ c \in Conns /\ d \in Decoders /\ ServerType
  BY CurrentSlot DEF ServerInv
<1>2. d.used \in Nat
  BY <1>1 DEF Decoders
<1>3. e \in Decoders /\ e.used = d.used + 2 /\ e.got = d.got /\ e.shook = d.shook /\ e.m_cache = cache
  <2> HIDE DEF d
  <2>1. d.used + 2 \in Nat
    BY <1>2
  <2> QED
    BY <1>1, <2>1 DEF Decoders
<1>4. _sClients' = [_sClients EXCEPT ![i].dec = e]
  BY <1>1 DEF Consumed, ServerType
<1>5. Kind[c] = "ws" /\ ~d.shook => d.got = 0
  BY <1>1 DEF FramesInv, Fine, Open
<1>6. FrameAt(c, d.used + 2) = FrameAt(c, d.used) + 1
  BY <1>1, <1>2, FrameNumbers
<1> HIDE DEF e
<1>7. Faithful(c, FrameAt(c, e.used), Append(told, e.m_cache)) /\ Pending(c, FrameAt(c, e.used), e.m_cache)
  BY <1>3, <1>6
<1>8. FrameAt(c, d.used) \in Int /\ 1 <= FrameAt(c, d.used)
  BY <1>1, <1>2, FrameNumbers
<1>9. 1 <= FrameAt(c, e.used)
  <2>1. FrameAt(c, e.used) = FrameAt(c, d.used) + 1
    BY <1>3, <1>6
  <2> HIDE DEF c, d
  <2> QED
    BY <1>8, <2>1
<1> QED
  BY <1>1, <1>3, <1>4, <1>5, <1>7, <1>9, DecoderFine

(* A frame joins its message, is told with it, is dropped with it or alone, *)
(* or ends the connection.                                                  *)
LEMMA FrameFine ==
    ASSUME ServerInv, FramesInv, DecodeFrame
    PROVE  FramesInv'
<1> DEFINE i == Current
           c == _sClients[i].sock
           d == _sClients[i].dec
           n == FrameAt(c, d.used)
           m == Append(d.m_cache, <<c, n>>)
           f == Frames[c][n]
<1>0. pc = "decode" /\ ServerType
  BY DEF DecodeFrame, ServerInv
<1>1. i \in Slots /\ Open(i) /\ c \in Conns /\ d \in Decoders
  BY <1>0, CurrentSlot
<1>2. heard[i] \in Seq(Pieces) /\ d.m_cache \in Pieces /\ <<>> \in Pieces /\ d.used \in Nat
  BY <1>0, <1>1 DEF ServerType, Decoders, Pieces
<1>3. n \in 1 .. Len(Frames[c])
  <2>1. /\ Kind[c] = "raw" \/ d.shook => 1 <= n
        /\ Kind[c] = "ws" /\ ~d.shook => d.got = 0
    BY <1>1 DEF FramesInv, Fine, Open
  <2>2. d.got \in Nat /\ d.used + 2 <= d.got /\ d.got <= Units(c)
    <3>1. Complete(d)
      BY DEF DecodeFrame
    <3>2. d.got \in Nat /\ d.got <= Units(c)
      BY <1>0, <1>1, CurrentSlot DEF Decoders
    <3> HIDE DEF c, d
    <3> QED
      BY <1>2, <3>1, <3>2 DEF Complete, Left
  <2>3. Units(c) \in Nat /\ Kind[c] \in {"ws", "raw"} /\ Len(Frames[c]) \in Nat
    BY <1>1, UnitsType, WsAssumption
  <2>4. d.used + 2 <= Units(c) /\ d.got # 0
    BY <1>2, <2>2, <2>3
  <2>5. n \in Int /\ n <= Len(Frames[c])
    BY <1>1, <1>2, <2>4, FrameNumbers
  <2> HIDE DEF n
  <2> QED
    BY <2>1, <2>3, <2>4, <2>5
<1>4. Faithful(c, n, Append(heard[i], d.m_cache)) /\ Pending(c, n, d.m_cache)
  BY <1>1 DEF FramesInv, Fine, Open
<1>5. m \in Pieces
  <2>1. <<c, n>> \in Conns \X Int
    BY <1>1, <1>3
  <2> HIDE DEF d, n, c
  <2> QED
    BY <1>2, <2>1 DEF Pieces
<1>6. Faithful(c, n + 1, Append(heard[i], m))
  <2> HIDE DEF c, d, n
  <2> QED
    BY <1>1, <1>2, <1>3, <1>4, FrameJoins
<1>7. heard = [heard EXCEPT ![i] = heard[i]]
  BY <1>0 DEF ServerType
<1>8. \/ disconnectClient(i)
      \/ f.op = "pong" /\ Consumed(i, d.m_cache) /\ UNCHANGED heard
      \/ Fragment(c, n) /\ Consumed(i, m) /\ UNCHANGED heard
      \/ Deliver(i, m)
      \/ /\ Ends(c, n) /\ Consumed(i, <<>>) /\ UNCHANGED heard
         /\ \E t \in content_type(d.m_cache, f) : t # "text"
  <2>1. \/ f.op \in {"close", "other"} /\ disconnectClient(i) /\ Done
        \/ f.op = "pong" /\ Consumed(i, d.m_cache) /\ UNCHANGED heard
        \/ f.op \notin {"close", "other", "pong"} /\ ~f.fin /\ Consumed(i, m) /\ UNCHANGED heard
        \/ /\ f.op \notin {"close", "other", "pong"} /\ f.fin
           /\ \E t \in content_type(d.m_cache, f) :
                 \/ t = "text" /\ Deliver(i, m)
                 \/ t \in {"bin", "ping"} /\ Consumed(i, <<>>) /\ UNCHANGED heard
    BY DEF DecodeFrame
  <2> QED
    BY <2>1 DEF Fragment, Ends
<1>9. f.op # "text" => Faithful(c, n + 1, Append(heard[i], d.m_cache))
  <2> HIDE DEF c, d, n
  <2> QED
    BY <1>2, <1>3, <1>4, FrameDropped
<1>15. n \in Int /\ 1 <= n /\ n + 1 \in Int
  BY <1>3, WsAssumption
<1>16. /\ f.op = "pong" => Pending(c, n + 1, d.m_cache)
       /\ Fragment(c, n) => Pending(c, n + 1, m)
       /\ Pending(c, n + 1, <<>>)
  <2>1. f.op = "pong" \/ Fragment(c, n) => ~Ends(c, n)
    BY DEF Fragment, Ends
  <2>2. Pending(c, n + 1, <<>>)
    BY DEF Pending
  <2> HIDE DEF c, d, n, f
  <2> QED
    BY <1>1, <1>2, <1>4, <1>15, <2>1, <2>2, PendingGrows
<1>17. ASSUME Ends(c, n), NEW t \in content_type(d.m_cache, f), t # "text"
       PROVE  Faithful(c, n + 1, Append(heard[i], <<>>))
  <2> DEFINE q == d.m_cache
             a == Append(heard[i], q)
  <2>1. /\ Len(heard[i]) + 1 \in DOMAIN a /\ a[Len(heard[i]) + 1] = q
        /\ Len(heard[i]) + 1 \in Int
    <3> HIDE DEF d
    <3> QED
      BY <1>2, AppendFacts
  <2>2. Ordered(a)
    BY <1>4 DEF Faithful
  <2> HIDE DEF a
  <2>3. \A k, l \in DOMAIN q : k < l => q[k][2] < q[l][2]
    BY <2>1, <2>2 DEF Ordered
  <2> HIDE DEF q
  <2>4. q \in Pieces /\ Pending(c, n, q) /\ t \in content_type(q, Frames[c][n]) /\ Faithful(c, n, Append(heard[i], q))
    BY <1>2, <1>4, <1>17 DEF q
  <2> HIDE DEF c, n, d, f
  <2>5. ~Precious(c, n) /\ \A k \in DOMAIN q : ~Precious(c, q[k][2])
    BY <1>1, <1>3, <1>17, <2>3, <2>4, NoTextDropped
  <2> QED
    BY <1>2, <1>15, <2>4, <2>5, MessageDropped
<1> HIDE DEF m, f
<1>10. CASE disconnectClient(i)
  BY <1>0, <1>1, <1>10, GoneFine
<1>11. CASE f.op = "pong" /\ Consumed(i, d.m_cache) /\ UNCHANGED heard
  BY <1>0, <1>2, <1>7, <1>9, <1>11, <1>15, <1>16, ConsumedFine
<1>12. CASE Fragment(c, n) /\ Consumed(i, m) /\ UNCHANGED heard
  BY <1>0, <1>5, <1>6, <1>7, <1>12, <1>15, <1>16, ConsumedFine
<1>13. CASE /\ Ends(c, n) /\ Consumed(i, <<>>) /\ UNCHANGED heard
            /\ \E t \in content_type(d.m_cache, f) : t # "text"
  <2>1. Faithful(c, n + 1, Append(heard[i], <<>>))
    BY <1>13, <1>17
  <2> QED
    BY <1>0, <1>2, <1>7, <1>13, <1>15, <1>16, <2>1, ConsumedFine
<1>14. CASE Deliver(i, m)
  <2>2. Faithful(c, n + 1, Append(Append(heard[i], m), <<>>))
    <3> HIDE DEF c, n
    <3> QED
      BY <1>2, <1>5, <1>6, <1>15, MessageTold
  <2>3. heard' = [heard EXCEPT ![i] = Append(heard[i], m)] /\ Consumed(i, <<>>)
    BY <1>14 DEF Deliver
  <2> QED
    BY <1>0, <1>2, <1>15, <1>16, <2>2, <2>3, ConsumedFine
<1> QED
  BY <1>8, <1>10, <1>11, <1>12, <1>13, <1>14

(* Nobody is connected at first.                                            *)
LEMMA InitFrames == Init => FramesInv
<1> SUFFICES ASSUME Init PROVE FramesInv
  OBVIOUS
<1>1. \A i \in Slots : _sClients[i] = Free /\ heard[i] = <<>>
  BY DEF Init, ServerInit
<1> QED
  BY <1>1, FreeOK DEF FramesInv, Fine

(* No step disturbs what was told.                                          *)
LEMMA NextFrames ==
    ASSUME IInv, FramesInv, [Next]_vars
    PROVE  FramesInv'
<1>0. ServerInv
  BY DEF IInv, TypeOK, ServerInv
<1>1. CASE UNCHANGED <<_sClients, heard>>
  BY <1>1 DEF FramesInv
<1>2. CASE DecodeIncomplete
  <2>1. CASE disconnectClient(Current)
    <3>1. Current \in Slots /\ ServerType
      BY <1>0, <1>2, CurrentSlot DEF ServerInv, DecodeIncomplete
    <3> QED
      BY <2>1, <3>1, GoneFine
  <2> QED
    BY <1>1, <1>2, <2>1 DEF DecodeIncomplete
<1>3. CASE SelectClients \/ SelectTimesOut \/ Connect
  BY <1>1, <1>3 DEF SelectClients, SelectTimesOut, Connect
<1>4. CASE CheckExpires \/ CallbackReturns \/ API_DoDispatch
  BY <1>1, <1>4 DEF CheckExpires, CallbackReturns, API_DoDispatch, serverRest
<1>5. CASE LuaCalls \/ TimePasses \/ UNCHANGED vars
  BY <1>1, <1>5 DEF LuaCalls, TimePasses, vars, serverVars
<1> QED
  BY <1>0, <1>2, <1>3, <1>4, <1>5, AcceptFine, RecvFine, FrameFine DEF Next, Server, handleClients

(* What was told of the frames of every client is faithful.                 *)
LEMMA FramesInvariance == Spec => []FramesInv
<1>1. Spec => []IInv
  BY Inductive
<1>2. IInv /\ FramesInv /\ [Next]_vars => FramesInv'
  BY NextFrames
<1> QED
  BY InitFrames, <1>1, <1>2, PTL DEF Spec

(* What Lua hears of a client is in the order it was sent, none twice and   *)
(* in messages of that client only, however it is cut into pieces and       *)
(* whoever had the slot before.                                             *)
THEOREM InOrder == Spec => []FramesInOrder
<1>1. TypeOK /\ FramesInv => FramesInOrder
  <2> SUFFICES ASSUME ServerType, FramesInv, NEW i \in Slots
               PROVE  /\ Ordered(Told(i))
                      /\ SentBy(_sClients[i].sock, FrameAt(_sClients[i].sock, _sClients[i].dec.used), Told(i))
    BY DEF FramesInOrder, TypeOK
  <2>1. CASE Open(i)
    BY <2>1 DEF FramesInv, Fine, Faithful, Told, Open
  <2>2. CASE ~Open(i)
    <3> DEFINE a == Append(<<>>, <<>>)
    <3>1. _sClients[i] = Free /\ heard[i] = <<>>
      BY <2>2 DEF ServerType, FramesInv, Fine, Open
    <3>2. Told(i) = a
      BY <3>1 DEF Told, Free, NoDecoder
    <3>3. \A j \in DOMAIN a : DOMAIN a[j] = {}
      <4>1. <<>> \in Seq(Pieces) /\ <<>> \in Pieces /\ Len(<<>>) = 0 /\ DOMAIN <<>> = {}
        BY DEF Pieces
      <4>2. DOMAIN a = 1 .. Len(<<>>) + 1 /\ a[Len(<<>>) + 1] = <<>>
        BY <4>1, AppendFacts
      <4> QED
        BY <4>1, <4>2
    <3> HIDE DEF a
    <3> QED
      BY <3>2, <3>3 DEF Ordered, SentBy
  <2> QED
    BY <2>1, <2>2
<1> QED
  BY <1>1, TypeCorrect, FramesInvariance, PTL

(* Every frame of text that the decoder consumed was told to Lua or waits   *)
(* in the cache, whatever pings and continuations come between, save for    *)
(* one that ends a message begun by other frames and one in whose message a *)
(* binary fragment follows: those are what the decoder can lose, and all.   *)
THEOREM NothingLost == Spec => []NoFrameLost
<1>1. FramesInv => NoFrameLost
  BY DEF FramesInv, NoFrameLost, Fine, Faithful, AllKept, Told, Open
<1> QED
  BY <1>1, FramesInvariance, PTL
=============================================================================
