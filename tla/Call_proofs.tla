----------------------------- MODULE Call_proofs -----------------------------
(***************************************************************************)
(* Proofs about Call, for any number of transactions and bodies and any    *)
(* application that keeps AppAssumption.  A step is a composition of       *)
(* operators on worlds, so each operator has a lemma that says what it     *)
(* does to the channel and which transactions it touches; the invariant    *)
(* is then a property of the transactions and the channel's two slots      *)
(* (TransOK), of the channel and the leg (ChanOK), and of the stack        *)
(* (StackOK), which says what the waiting calls rely on.  The second half  *)
(* proves on it that a channel keeps the promises of Leg.                  *)
(***************************************************************************)
EXTENDS Call, TLAPS, FiniteSetTheorems, SequenceTheorems

LegType == {"none", "open", "asked", "told", "silent", "unstarted", "failed", "noSdp", "provisional"}

Row == [life : {"unused", "live", "deleted"}, kind : {"ICT", "IST", "NIST"},
        state : {"Ready", "Trying", "Proceeding", "Completed"}, tcp : BOOLEAN,
        owned : BOOLEAN, refs : Nat]

(* A pointer is misused only after a request over TCP.                      *)
Misuses == IF "TCP" \in Transports THEN {"none", "null", "deleted"} ELSE {"none"}

Worlds == [ch : ChannelType, tr : [Trans -> Row], bad : Misuses, leg : LegType]

One(b) == IF b THEN 1 ELSE 0

(* A transaction with `slots` channel slots: its count is that of its       *)
(* owners less one, without owners it is not live.  Only a NIST has TCP.    *)
RowOK(r, slots) ==
    /\ r.life = "live" => r.refs + 1 = slots + One(r.owned)
    /\ r.life # "live" => slots = 0 /\ ~r.owned /\ r.refs = 0
    /\ ~r.owned => r.state = "Ready"
    /\ r.tcp => r.kind = "NIST"

TransOK(T, i, s) ==
    /\ \A t \in Trans : RowOK(T[t], One(i = t) + One(s = t))
    /\ i # None => T[i].kind = "ICT"
    /\ s # None => T[s].kind = "IST"

WorldOK(w) == w \in Worlds /\ TransOK(w.tr, w.ch.ict, w.ch.ist)

(* v has the transactions of w with the same owner and state as in w.       *)
SameRow(r, q) ==
    /\ r.owned = q.owned
    /\ r.owned => r.kind = q.kind /\ r.state = q.state /\ r.tcp = q.tcp

SameTrans(w, v) == \A t \in Trans : SameRow(w.tr[t], v.tr[t])
-----------------------------------------------------------------------------
LEMMA UsedLive ==
    ASSUME NEW w \in Worlds, NEW t \in Trans, w.tr[t].life = "live"
    PROVE  Used(w, t) = w /\ ~Misused(w, t)
BY CallAssumption DEF Used, Misused

(* v is w but for row t, which is r.                                        *)
OnlyRow(w, v, t, r) ==
    /\ v \in Worlds /\ v.ch = w.ch /\ v.bad = w.bad /\ v.leg = w.leg
    /\ v.tr[t] = r
    /\ \A u \in Trans : u # t => v.tr[u] = w.tr[u]

LEMMA RowSet ==
    ASSUME NEW w \in Worlds, NEW t \in Trans, NEW r \in Row
    PROVE  OnlyRow(w, [w EXCEPT !.tr[t] = r], t, r)
<1> DEFINE T == [w.tr EXCEPT ![t] = r]
           v == [w EXCEPT !.tr[t] = r]
<1>1. w.tr \in [Trans -> Row]
  BY DEF Worlds
<1>2. T \in [Trans -> Row] /\ T[t] = r /\ \A u \in Trans : u # t => T[u] = w.tr[u]
  BY <1>1
<1>3. v = [ch |-> w.ch, tr |-> T, bad |-> w.bad, leg |-> w.leg]
  BY DEF Worlds
<1> QED
  BY <1>2, <1>3 DEF Worlds, OnlyRow

LEMMA AddRefIs ==
    ASSUME NEW w \in Worlds, NEW t \in Trans, w.tr[t].life = "live"
    PROVE  OnlyRow(w, AddRef(w, t), t, [w.tr[t] EXCEPT !.refs = w.tr[t].refs + 1])
<1>1. AddRef(w, t) = [w EXCEPT !.tr[t] = [w.tr[t] EXCEPT !.refs = w.tr[t].refs + 1]]
  BY UsedLive DEF AddRef
<1>2. [w.tr[t] EXCEPT !.refs = w.tr[t].refs + 1] \in Row
  BY DEF Worlds, Row
<1> QED
  BY <1>1, <1>2, RowSet

DeletedRow == [Unused EXCEPT !.life = "deleted"]
LosesRef(r) == IF r.refs = 0 THEN DeletedRow ELSE [r EXCEPT !.refs = r.refs - 1]

LEMMA DeletedRowIs ==
    /\ DeletedRow \in Row /\ DeletedRow.life = "deleted" /\ DeletedRow.owned = FALSE
    /\ DeletedRow.state = "Ready" /\ DeletedRow.refs = 0
    /\ DeletedRow.tcp = FALSE
<1>1. /\ Unused \in Row /\ Unused.owned = FALSE /\ Unused.state = "Ready" /\ Unused.refs = 0
      /\ Unused.tcp = FALSE
  BY DEF Unused, Row
<1> QED
  BY <1>1 DEF DeletedRow, Row

LEMMA LosesRefIs ==
    ASSUME NEW r \in Row
    PROVE  LET q == LosesRef(r)
           IN  /\ q \in Row
               /\ r.refs = 0 => q = DeletedRow
               /\ r.refs # 0 => /\ q.life = r.life /\ q.kind = r.kind /\ q.state = r.state
                                /\ q.tcp = r.tcp /\ q.owned = r.owned /\ q.refs = r.refs - 1
<1>1. r.refs # 0 => r.refs - 1 \in Nat
  BY DEF Row
<1> QED
  BY <1>1, DeletedRowIs DEF LosesRef, Row

LEMMA DeleteTransIs ==
    ASSUME NEW w \in Worlds, NEW t \in Trans, w.tr[t].life = "live"
    PROVE  OnlyRow(w, DeleteTrans(w, t), t, LosesRef(w.tr[t]))
<1>1. w.tr[t] \in Row
  BY DEF Worlds
<1>2. LosesRef(w.tr[t]) \in Row
  BY <1>1, LosesRefIs
<1>3. DeleteTrans(w, t) = [w EXCEPT !.tr[t] = LosesRef(w.tr[t])]
  BY UsedLive DEF DeleteTrans, LosesRef, DeletedRow
<1> QED
  BY <1>2, <1>3, RowSet

EndedRow(r) == LosesRef([r EXCEPT !.state = "Ready", !.owned = FALSE])

LEMMA Losing ==
    ASSUME NEW r \in Row, NEW n \in Nat, RowOK(r, n), r.life = "live"
    PROVE  /\ n > 0 => RowOK(LosesRef(r), n - 1) /\ SameRow(r, LosesRef(r))
           /\ LosesRef(r).life = "live" => LosesRef(r).kind = r.kind
           /\ r.owned => RowOK(EndedRow(r), n)
           /\ EndedRow(r) \in Row
           /\ ~EndedRow(r).owned
           /\ EndedRow(r).life = "live" => EndedRow(r).kind = r.kind
<1> DEFINE q == [r EXCEPT !.state = "Ready", !.owned = FALSE]
<1>1. /\ q.owned = FALSE /\ q.state = "Ready" /\ q.refs = r.refs /\ q.life = r.life /\ q.kind = r.kind
      /\ q.tcp = r.tcp /\ q \in Row
  BY DEF Row
<1>2. EndedRow(r) = LosesRef(q)
  BY DEF EndedRow
<1> HIDE DEF q
<1>3. n > 0 => RowOK(LosesRef(r), n - 1) /\ SameRow(r, LosesRef(r))
  <2>1. CASE r.refs = 0
    BY <2>1, LosesRefIs, DeletedRowIs DEF RowOK, SameRow, One, Row
  <2>2. CASE r.refs # 0
    BY <2>2, LosesRefIs DEF RowOK, SameRow, One, Row
  <2> QED
    BY <2>1, <2>2
<1>4. r.owned => RowOK(LosesRef(q), n)
  <2>1. CASE r.refs = 0
    BY <1>1, <2>1, LosesRefIs, DeletedRowIs DEF RowOK, One, Row
  <2>2. CASE r.refs # 0
    BY <1>1, <2>2, LosesRefIs DEF RowOK, One, Row
  <2> QED
    BY <2>1, <2>2
<1>5. LosesRef(q) \in Row /\ ~LosesRef(q).owned /\ (LosesRef(q).life = "live" => LosesRef(q).kind = r.kind)
  BY <1>1, LosesRefIs, DeletedRowIs
<1>6. LosesRef(r).life = "live" => LosesRef(r).kind = r.kind
  BY LosesRefIs, DeletedRowIs
<1> QED
  BY <1>2, <1>3, <1>4, <1>5, <1>6
-----------------------------------------------------------------------------
(* What SetICT and SetIST do to the transactions: i is the slot's old       *)
(* content, t its new one, j the content of the other slot.                 *)
SlotMoved(w, v, i, t, j) ==
    /\ v \in Worlds /\ v.bad = w.bad /\ v.leg = w.leg
    /\ SameTrans(w, v)
    /\ \A u \in Trans : RowOK(v.tr[u], One(t = u) + One(j = u))
    /\ \A u \in Trans : v.tr[u].life = "live" => v.tr[u].kind = w.tr[u].kind

LEMMA SlotMoves ==
    ASSUME NEW w \in Worlds, NEW i \in Trans \cup {None}, NEW t \in Trans \cup {None},
           NEW j \in Trans \cup {None},
           \A u \in Trans : RowOK(w.tr[u], One(i = u) + One(j = u)),
           t # None => t # i /\ w.tr[t].life = "live"
    PROVE  LET v == Held(Released(w, i), t) IN SlotMoved(w, v, i, t, j) /\ v.ch = w.ch
<1> DEFINE x == Released(w, i)
           v == Held(x, t)
<1>0. \A u \in Trans : w.tr[u] \in Row
  BY DEF Worlds
<1>1. /\ x \in Worlds /\ x.ch = w.ch /\ x.bad = w.bad /\ x.leg = w.leg
      /\ \A u \in Trans : u # i => x.tr[u] = w.tr[u]
      /\ i # None => x.tr[i] = LosesRef(w.tr[i])
  <2>1. CASE i = None
    BY <2>1 DEF Released
  <2>2. CASE i # None
    <3>1. w.tr[i].life = "live"
      BY <1>0, <2>2 DEF RowOK, One, Row
    <3> QED
      BY <2>2, <3>1, DeleteTransIs DEF Released, OnlyRow
  <2> QED
    BY <2>1, <2>2
<1>2. \A u \in Trans : /\ SameRow(w.tr[u], x.tr[u]) /\ RowOK(x.tr[u], One(j = u))
                       /\ x.tr[u].life = "live" => x.tr[u].kind = w.tr[u].kind
  <2> SUFFICES ASSUME NEW u \in Trans
               PROVE  /\ SameRow(w.tr[u], x.tr[u]) /\ RowOK(x.tr[u], One(j = u))
                      /\ x.tr[u].life = "live" => x.tr[u].kind = w.tr[u].kind
    OBVIOUS
  <2>1. CASE u # i
    BY <1>0, <1>1, <2>1 DEF SameRow, RowOK, One, Row
  <2>2. CASE u = i
    <3> DEFINE n == One(i = u) + One(j = u)
    <3>1. n \in Nat /\ n > 0 /\ n - 1 = One(j = u)
      BY <2>2 DEF One
    <3>2. RowOK(w.tr[u], n)
      OBVIOUS
    <3>3. i # None
      BY <2>2, CallAssumption
    <3>4. w.tr[u].life = "live"
      BY <1>0, <3>1, <3>2 DEF RowOK, Row
    <3> HIDE DEF n
    <3>5. RowOK(LosesRef(w.tr[u]), n - 1) /\ SameRow(w.tr[u], LosesRef(w.tr[u]))
          /\ (LosesRef(w.tr[u]).life = "live" => LosesRef(w.tr[u]).kind = w.tr[u].kind)
      BY <1>0, <3>1, <3>2, <3>4, Losing
    <3> QED
      BY <1>1, <2>2, <3>1, <3>3, <3>5
  <2> QED
    BY <2>1, <2>2
<1>3. CASE t = None
  <2>1. v = x
    BY <1>3 DEF Held
  <2>2. \A u \in Trans : One(t = u) + One(j = u) = One(j = u)
    BY <1>3, CallAssumption DEF One
  <2> QED
    BY <1>1, <1>2, <2>1, <2>2 DEF SlotMoved, SameTrans
<1>4. CASE t # None
  <2>0. t \in Trans /\ t # i
    BY <1>4
  <2>1. x.tr[t].life = "live"
    BY <1>1, <1>4, <2>0
  <2>2. OnlyRow(x, v, t, [x.tr[t] EXCEPT !.refs = x.tr[t].refs + 1])
    BY <1>1, <1>4, <2>0, <2>1, AddRefIs DEF Held
  <2> DEFINE q == [x.tr[t] EXCEPT !.refs = x.tr[t].refs + 1]
  <2>3. x.tr[t] \in Row
    BY <1>1, <2>0 DEF Worlds
  <2>4. /\ q.refs = x.tr[t].refs + 1 /\ q.life = "live" /\ q.owned = x.tr[t].owned
        /\ q.state = x.tr[t].state /\ q.kind = x.tr[t].kind /\ q.tcp = x.tr[t].tcp
    BY <2>1, <2>3 DEF Row
  <2> HIDE DEF q
  <2>5. RowOK(q, One(t = t) + One(j = t)) /\ SameRow(w.tr[t], q)
    BY <1>2, <2>0, <2>1, <2>3, <2>4 DEF RowOK, SameRow, One, Row
  <2>6. \A u \in Trans : u # t => One(t = u) + One(j = u) = One(j = u)
    BY DEF One
  <2>7. \A u \in Trans : /\ RowOK(v.tr[u], One(t = u) + One(j = u)) /\ SameRow(w.tr[u], v.tr[u])
                         /\ v.tr[u].life = "live" => v.tr[u].kind = w.tr[u].kind
    <3> SUFFICES ASSUME NEW u \in Trans
                 PROVE  /\ RowOK(v.tr[u], One(t = u) + One(j = u)) /\ SameRow(w.tr[u], v.tr[u])
                        /\ v.tr[u].life = "live" => v.tr[u].kind = w.tr[u].kind
      OBVIOUS
    <3> HIDE DEF v, x
    <3>1. CASE u = t
      <4>1. v.tr[u] = q
        BY <2>2, <3>1 DEF OnlyRow, q
      <4> QED
        BY <1>2, <2>1, <2>4, <2>5, <3>1, <4>1
    <3>2. CASE u # t
      <4>1. v.tr[u] = x.tr[u]
        BY <2>2, <3>2 DEF OnlyRow
      <4> QED
        BY <1>2, <2>6, <3>2, <4>1
    <3> QED
      BY <3>1, <3>2
  <2> QED
    BY <1>1, <2>2, <2>7 DEF SlotMoved, SameTrans, OnlyRow
<1> QED
  BY <1>3, <1>4

LEMMA SetICTIs ==
    ASSUME NEW w, WorldOK(w), NEW t \in Trans \cup {None},
           t # None => t # w.ch.ict /\ w.tr[t].life = "live" /\ w.tr[t].kind = "ICT"
    PROVE  LET v == SetICT(w, t)
           IN  /\ WorldOK(v) /\ v.ch = [w.ch EXCEPT !.ict = t]
               /\ v.bad = w.bad /\ v.leg = w.leg /\ SameTrans(w, v)
<1> DEFINE x == Held(Released(w, w.ch.ict), t)
           v == SetICT(w, t)
<1>1. w \in Worlds /\ w.ch.ict \in Trans \cup {None} /\ w.ch.ist \in Trans \cup {None}
  BY DEF WorldOK, Worlds, ChannelType
<1>2. SlotMoved(w, x, w.ch.ict, t, w.ch.ist) /\ x.ch = w.ch
  BY <1>1, SlotMoves DEF WorldOK, TransOK
<1>3. v = [x EXCEPT !.ch.ict = t]
  BY DEF SetICT
<1> HIDE DEF x, v
<1>4. [w.ch EXCEPT !.ict = t] \in ChannelType /\ [w.ch EXCEPT !.ict = t].ict = t
      /\ [w.ch EXCEPT !.ict = t].ist = w.ch.ist
  BY <1>1 DEF Worlds, ChannelType
<1>5. v.ch = [w.ch EXCEPT !.ict = t] /\ v.tr = x.tr /\ v.bad = w.bad /\ v.leg = w.leg /\ v \in Worlds
  BY <1>2, <1>3, <1>4 DEF SlotMoved, Worlds
<1>6. TransOK(v.tr, v.ch.ict, v.ch.ist)
  <2>1. w.ch.ist # None => v.tr[w.ch.ist].kind = "IST"
    <3> SUFFICES ASSUME w.ch.ist # None PROVE v.tr[w.ch.ist].kind = "IST"
      OBVIOUS
    <3>1. v.tr[w.ch.ist].life = "live"
      BY <1>1, <1>2, <1>5 DEF SlotMoved, RowOK, One, Worlds, Row
    <3> QED
      BY <1>1, <1>2, <1>5, <3>1 DEF SlotMoved, WorldOK, TransOK
  <2>2. t # None => v.tr[t].kind = "ICT"
    <3> SUFFICES ASSUME t # None PROVE v.tr[t].kind = "ICT"
      OBVIOUS
    <3>1. v.tr[t].life = "live"
      BY <1>1, <1>2, <1>5 DEF SlotMoved, RowOK, One, Worlds, Row
    <3> QED
      BY <1>1, <1>2, <1>5, <3>1 DEF SlotMoved
  <2> QED
    BY <1>2, <1>4, <1>5, <2>1, <2>2 DEF SlotMoved, TransOK
<1> QED
  BY <1>2, <1>5, <1>6 DEF WorldOK, SlotMoved, SameTrans, v

LEMMA SetISTIs ==
    ASSUME NEW w, WorldOK(w), NEW t \in Trans \cup {None},
           t # None => t # w.ch.ist /\ w.tr[t].life = "live" /\ w.tr[t].kind = "IST"
    PROVE  LET v == SetIST(w, t)
           IN  /\ WorldOK(v) /\ v.ch = [w.ch EXCEPT !.ist = t]
               /\ v.bad = w.bad /\ v.leg = w.leg /\ SameTrans(w, v)
<1> DEFINE x == Held(Released(w, w.ch.ist), t)
           v == SetIST(w, t)
<1>1. w \in Worlds /\ w.ch.ict \in Trans \cup {None} /\ w.ch.ist \in Trans \cup {None}
  BY DEF WorldOK, Worlds, ChannelType
<1>0. \A a, b \in {0, 1} : a + b = b + a
  OBVIOUS
<1>a. \A i, j, u : One(i = u) + One(j = u) = One(j = u) + One(i = u)
  BY <1>0 DEF One
<1>2. SlotMoved(w, x, w.ch.ist, t, w.ch.ict) /\ x.ch = w.ch
  <2>1. ASSUME NEW u \in Trans
        PROVE  RowOK(w.tr[u], One(w.ch.ist = u) + One(w.ch.ict = u))
    <3>1. RowOK(w.tr[u], One(w.ch.ict = u) + One(w.ch.ist = u))
      BY DEF WorldOK, TransOK
    <3>2. One(w.ch.ict = u) + One(w.ch.ist = u) = One(w.ch.ist = u) + One(w.ch.ict = u)
      BY <1>a
    <3> QED
      BY <3>1, <3>2
  <2> QED
    BY <1>1, <2>1, SlotMoves
<1>3. v = [x EXCEPT !.ch.ist = t]
  BY DEF SetIST
<1> HIDE DEF x, v
<1>4. [w.ch EXCEPT !.ist = t] \in ChannelType /\ [w.ch EXCEPT !.ist = t].ist = t
      /\ [w.ch EXCEPT !.ist = t].ict = w.ch.ict
  BY <1>1 DEF Worlds, ChannelType
<1>5. v.ch = [w.ch EXCEPT !.ist = t] /\ v.tr = x.tr /\ v.bad = w.bad /\ v.leg = w.leg /\ v \in Worlds
  BY <1>2, <1>3, <1>4 DEF SlotMoved, Worlds
<1>6. TransOK(v.tr, v.ch.ict, v.ch.ist)
  <2>1. w.ch.ict # None => v.tr[w.ch.ict].kind = "ICT"
    <3> SUFFICES ASSUME w.ch.ict # None PROVE v.tr[w.ch.ict].kind = "ICT"
      OBVIOUS
    <3>1. v.tr[w.ch.ict].life = "live"
      BY <1>1, <1>2, <1>5 DEF SlotMoved, RowOK, One, Worlds, Row
    <3> QED
      BY <1>1, <1>2, <1>5, <3>1 DEF SlotMoved, WorldOK, TransOK
  <2>2. t # None => v.tr[t].kind = "IST"
    <3> SUFFICES ASSUME t # None PROVE v.tr[t].kind = "IST"
      OBVIOUS
    <3>1. v.tr[t].life = "live"
      BY <1>1, <1>2, <1>5 DEF SlotMoved, RowOK, One, Worlds, Row
    <3> QED
      BY <1>1, <1>2, <1>5, <3>1 DEF SlotMoved
  <2>3. \A u \in Trans : RowOK(v.tr[u], One(v.ch.ict = u) + One(v.ch.ist = u))
    <3> SUFFICES ASSUME NEW u \in Trans
                 PROVE  RowOK(v.tr[u], One(v.ch.ict = u) + One(v.ch.ist = u))
      OBVIOUS
    <3>1. RowOK(v.tr[u], One(t = u) + One(w.ch.ict = u))
      BY <1>2, <1>5 DEF SlotMoved
    <3>2. v.ch.ist = t /\ v.ch.ict = w.ch.ict
      BY <1>4, <1>5
    <3>3. One(t = u) + One(w.ch.ict = u) = One(w.ch.ict = u) + One(t = u)
      BY DEF One
    <3> QED
      BY <3>1, <3>2, <3>3
  <2> QED
    BY <1>4, <1>5, <2>1, <2>2, <2>3 DEF TransOK
<1> QED
  BY <1>2, <1>5, <1>6 DEF WorldOK, SlotMoved, SameTrans, v

FreedLeg(l) == IF l = "open" THEN "silent" ELSE IF l \in {"asked", "told"} THEN "none" ELSE l

LEMMA FreeChannelType ==
    /\ FreeChannel \in ChannelType
    /\ FreeChannel.state = "Ready" /\ FreeChannel.ict = None /\ FreeChannel.ist = None
    /\ FreeChannel.free = TRUE /\ FreeChannel.retry = FALSE
BY DEF FreeChannel, ChannelType, MaxRetries

LEMMA FreeResIs ==
    ASSUME NEW w, WorldOK(w), ~w.ch.retry
    PROVE  LET v == FreeRes(w)
           IN  /\ WorldOK(v) /\ v.ch = FreeChannel /\ v.bad = w.bad
               /\ v.leg = FreedLeg(w.leg) /\ SameTrans(w, v)
<1> DEFINE x == SetICT(w, None)
           y == SetIST(x, None)
           v == FreeRes(w)
<1>1. /\ WorldOK(x) /\ x.ch = [w.ch EXCEPT !.ict = None] /\ x.bad = w.bad /\ x.leg = w.leg
      /\ SameTrans(w, x)
  BY SetICTIs
<1>2. /\ WorldOK(y) /\ y.ch = [x.ch EXCEPT !.ist = None] /\ y.bad = w.bad /\ y.leg = w.leg
      /\ SameTrans(x, y)
  BY <1>1, SetISTIs
<1>3. v = [y EXCEPT !.ch = [FreeChannel EXCEPT !.retry = w.ch.retry], !.leg = FreedLeg(y.leg)]
  BY DEF FreeRes, Freed, FreedLeg
<1>4. w.ch \in ChannelType /\ x.ch \in ChannelType
  BY <1>1 DEF WorldOK, Worlds
<1>5. y.ch.ict = None /\ y.ch.ist = None
  BY <1>1, <1>2, <1>4 DEF ChannelType
<1> HIDE DEF x, y, v
<1>6. [FreeChannel EXCEPT !.retry = w.ch.retry] = FreeChannel
  <2>1. \A c \in ChannelType : c.retry = FALSE => [c EXCEPT !.retry = FALSE] = c
    BY DEF ChannelType
  <2>2. w.ch.retry = FALSE
    BY <1>4 DEF ChannelType
  <2> QED
    BY <2>1, <2>2, FreeChannelType
<1>7. FreedLeg(y.leg) \in LegType
  BY <1>2 DEF FreedLeg, LegType, WorldOK, Worlds
<1>8. /\ v.ch = FreeChannel /\ v.tr = y.tr /\ v.bad = w.bad /\ v.leg = FreedLeg(w.leg) /\ v \in Worlds
  BY <1>2, <1>3, <1>6, <1>7, FreeChannelType DEF WorldOK, Worlds
<1>9. TransOK(v.tr, v.ch.ict, v.ch.ist)
  BY <1>2, <1>5, <1>8, FreeChannelType DEF WorldOK
<1>10. SameTrans(w, v)
  BY <1>1, <1>2, <1>8 DEF SameTrans, SameRow
<1> QED
  BY <1>8, <1>9, <1>10 DEF WorldOK, v
-----------------------------------------------------------------------------
(* What a step inside transaction t does: it may end t.                     *)
OnlyTrans(w, v, t) ==
    /\ WorldOK(v) /\ v.ch = w.ch /\ v.bad = w.bad /\ v.leg = w.leg
    /\ \A u \in Trans : u # t => v.tr[u] = w.tr[u]
    /\ v.tr[t].owned => w.tr[t].owned /\ v.tr[t].kind = w.tr[t].kind /\ v.tr[t].tcp = w.tr[t].tcp

LEMMA RowReplaced ==
    ASSUME NEW w, WorldOK(w), NEW t \in Trans, NEW v, NEW r,
           OnlyRow(w, v, t, r), RowOK(r, One(w.ch.ict = t) + One(w.ch.ist = t)),
           w.tr[t].life = "live",
           r.life = "live" => r.kind = w.tr[t].kind,
           r.owned => w.tr[t].owned /\ r.kind = w.tr[t].kind /\ r.tcp = w.tr[t].tcp
    PROVE  OnlyTrans(w, v, t)
<1>1. w.ch.ict \in Trans \cup {None} /\ w.ch.ist \in Trans \cup {None} /\ r \in Row
  BY DEF WorldOK, Worlds, ChannelType, OnlyRow
<1>2. \A u \in Trans : RowOK(v.tr[u], One(w.ch.ict = u) + One(w.ch.ist = u))
  BY DEF OnlyRow, WorldOK, TransOK
<1>3. \A u \in Trans : u \in {w.ch.ict, w.ch.ist} => v.tr[u].life = "live"
  BY <1>1, <1>2 DEF OnlyRow, RowOK, One, Worlds, Row
<1>4. \A u \in Trans : v.tr[u].life = "live" => v.tr[u].kind = w.tr[u].kind
  BY DEF OnlyRow
<1>5. TransOK(v.tr, v.ch.ict, v.ch.ist)
  BY <1>1, <1>2, <1>3, <1>4 DEF OnlyRow, WorldOK, TransOK
<1> QED
  BY <1>5 DEF OnlyTrans, OnlyRow, WorldOK

LEMMA SetStateIs ==
    ASSUME NEW w, WorldOK(w), NEW t \in Trans, w.tr[t].owned,
           NEW s \in {"Ready", "Trying", "Proceeding", "Completed"}
    PROVE  LET v == [w EXCEPT !.tr[t].state = s]
           IN  OnlyTrans(w, v, t) /\ v.tr[t].owned /\ v.tr[t].state = s
<1> DEFINE r == [w.tr[t] EXCEPT !.state = s]
           v == [w EXCEPT !.tr[t].state = s]
<1>1. w \in Worlds /\ w.tr[t] \in Row /\ RowOK(w.tr[t], One(w.ch.ict = t) + One(w.ch.ist = t))
  BY DEF WorldOK, Worlds, TransOK
<1>2. /\ r \in Row /\ r.state = s /\ r.life = w.tr[t].life /\ r.kind = w.tr[t].kind
      /\ r.tcp = w.tr[t].tcp /\ r.owned = w.tr[t].owned /\ r.refs = w.tr[t].refs
  BY <1>1 DEF Row
<1>3. OnlyRow(w, v, t, r)
  <2>1. v = [w EXCEPT !.tr[t] = r]
    OBVIOUS
  <2> HIDE DEF v, r
  <2> QED
    BY <1>1, <1>2, <2>1, RowSet
<1>4. v.tr[t] = r
  BY <1>3 DEF OnlyRow
<1> HIDE DEF v, r
<1>5. RowOK(r, One(w.ch.ict = t) + One(w.ch.ist = t)) /\ w.tr[t].life = "live"
  BY <1>1, <1>2 DEF RowOK, Row
<1>6. OnlyTrans(w, v, t)
  BY <1>2, <1>3, <1>5, RowReplaced
<1> QED
  BY <1>2, <1>4, <1>6 DEF v

LEMMA EndTransIs ==
    ASSUME NEW w, WorldOK(w), NEW t \in Trans, w.tr[t].owned
    PROVE  OnlyTrans(w, EndTrans(w, t), t) /\ ~EndTrans(w, t).tr[t].owned
<1> DEFINE r == [w.tr[t] EXCEPT !.state = "Ready", !.owned = FALSE]
           x == [w EXCEPT !.tr[t].state = "Ready", !.tr[t].owned = FALSE]
           n == One(w.ch.ict = t) + One(w.ch.ist = t)
<1>1. w \in Worlds /\ w.tr[t] \in Row /\ RowOK(w.tr[t], n) /\ n \in Nat
  BY DEF WorldOK, Worlds, TransOK, One
<1>2. r \in Row /\ r.life = w.tr[t].life
  BY <1>1 DEF Row
<1>3. w.tr[t].life = "live"
  BY <1>1 DEF RowOK, Row
<1>4. OnlyRow(w, x, t, r)
  <2>1. x = [w EXCEPT !.tr[t] = r]
    <3>1. w.tr \in [Trans -> Row]
      BY <1>1 DEF Worlds
    <3> QED
      BY <1>1, <3>1 DEF Worlds
  <2> HIDE DEF x, r
  <2> QED
    BY <1>1, <1>2, <2>1, RowSet
<1>5. EndTrans(w, t) = DeleteTrans(x, t)
  BY DEF EndTrans
<1>a. EndedRow(w.tr[t]) = LosesRef(r)
  BY DEF EndedRow
<1> HIDE DEF x, r
<1>6. OnlyRow(x, DeleteTrans(x, t), t, EndedRow(w.tr[t]))
  <2>1. x \in Worlds /\ x.tr[t] = r /\ x.tr[t].life = "live"
    BY <1>2, <1>3, <1>4 DEF OnlyRow
  <2>2. OnlyRow(x, DeleteTrans(x, t), t, LosesRef(x.tr[t]))
    BY <2>1, DeleteTransIs
  <2> QED
    BY <1>a, <2>1, <2>2
<1>7. OnlyRow(w, EndTrans(w, t), t, EndedRow(w.tr[t]))
  BY <1>4, <1>5, <1>6 DEF OnlyRow
<1> HIDE DEF n
<1>8. /\ RowOK(EndedRow(w.tr[t]), n) /\ ~EndedRow(w.tr[t]).owned
      /\ EndedRow(w.tr[t]).life = "live" => EndedRow(w.tr[t]).kind = w.tr[t].kind
  BY <1>1, <1>3, Losing
<1>9. OnlyTrans(w, EndTrans(w, t), t)
  BY <1>3, <1>7, <1>8, RowReplaced DEF n
<1> QED
  BY <1>7, <1>8, <1>9 DEF OnlyRow

Classes == {"1xx", "2xx", "3456xx"}

(* A response ends no transaction but an IST by a 2xx and a TCP one.        *)
LEMMA RespondIs ==
    ASSUME NEW w, WorldOK(w), NEW t \in Trans, w.tr[t].life = "live", NEW class \in Classes
    PROVE  LET v == Respond(w, t, class)
           IN  /\ OnlyTrans(w, v, t)
               /\ class = "1xx" => v = w
               /\ class # "1xx" => ~(v.tr[t].owned /\ v.tr[t].state = "Proceeding")
               /\ w.tr[t].owned /\ ~v.tr[t].owned =>
                     \/ w.tr[t].state = "Proceeding" /\ class = "2xx"
                     \/ w.tr[t].state = "Trying" /\ w.tr[t].tcp
<1> DEFINE v == Respond(w, t, class)
<1>1. w \in Worlds /\ w.tr[t] \in Row /\ RowOK(w.tr[t], One(w.ch.ict = t) + One(w.ch.ist = t))
  BY DEF WorldOK, Worlds, TransOK
<1>2. ~Misused(w, t)
  BY <1>1, UsedLive
<1>3. w.tr[t].state \in {"Trying", "Proceeding"} => w.tr[t].owned
  BY <1>1 DEF RowOK
<1>4. CASE w.tr[t].state = "Proceeding" /\ class = "2xx"
  <2>1. v = EndTrans(w, t)
    BY <1>2, <1>4 DEF Respond
  <2> QED
    BY <1>3, <1>4, <2>1, EndTransIs
<1>5. CASE w.tr[t].state = "Proceeding" /\ class = "3456xx"
  <2> DEFINE x == [w EXCEPT !.tr[t].state = "Completed"]
  <2>1. v = x
    BY <1>2, <1>5 DEF Respond
  <2>2. OnlyTrans(w, x, t) /\ x.tr[t].owned /\ x.tr[t].state = "Completed"
    BY <1>3, <1>5, SetStateIs
  <2> HIDE DEF x, v
  <2>3. OnlyTrans(w, v, t) /\ v.tr[t].owned /\ v.tr[t].state = "Completed"
    BY <2>1, <2>2
  <2> QED
    BY <1>5, <2>3 DEF v
<1>6. CASE w.tr[t].state = "Trying" /\ class # "1xx"
  <2>1. CASE w.tr[t].tcp
    <3>1. v = EndTrans(w, t)
      BY <1>2, <1>6, <2>1 DEF Respond
    <3> QED
      BY <1>3, <1>6, <2>1, <3>1, EndTransIs
  <2>2. CASE ~w.tr[t].tcp
    <3> DEFINE x == [w EXCEPT !.tr[t].state = "Completed"]
    <3>1. v = x
      BY <1>2, <1>6, <2>2 DEF Respond
    <3>2. OnlyTrans(w, x, t) /\ x.tr[t].owned /\ x.tr[t].state = "Completed"
      BY <1>3, <1>6, SetStateIs
    <3> HIDE DEF x, v
    <3>3. OnlyTrans(w, v, t) /\ v.tr[t].owned /\ v.tr[t].state = "Completed"
      BY <3>1, <3>2
    <3> QED
      BY <1>6, <3>3 DEF v
  <2> QED
    BY <2>1, <2>2
<1>7. CASE ~(w.tr[t].state = "Proceeding" /\ class \in {"2xx", "3456xx"})
           /\ ~(w.tr[t].state = "Trying" /\ class # "1xx")
  <2>1. v = w
    BY <1>2, <1>7 DEF Respond
  <2> QED
    BY <1>7, <2>1 DEF OnlyTrans, Classes
<1> QED
  BY <1>4, <1>5, <1>6, <1>7

(* A transaction object that nobody uses becomes a new transaction.         *)
LEMMA NewTransIs ==
    ASSUME NEW w, WorldOK(w), NEW t \in Trans, w.tr[t].life # "live",
           NEW kind \in {"ICT", "IST", "NIST"}, NEW state \in {"Trying", "Proceeding"},
           NEW tcp \in BOOLEAN, tcp => kind = "NIST"
    PROVE  LET v == [w EXCEPT !.tr[t] = NewTrans(kind, state, tcp)]
           IN  /\ WorldOK(v) /\ v.ch = w.ch /\ v.bad = w.bad /\ v.leg = w.leg
               /\ \A u \in Trans : u # t => v.tr[u] = w.tr[u]
               /\ v.tr[t].owned /\ v.tr[t].kind = kind /\ v.tr[t].state = state
               /\ v.tr[t].tcp = tcp /\ v.tr[t].life = "live"
               /\ t \notin {w.ch.ict, w.ch.ist} /\ ~w.tr[t].owned
<1> DEFINE r == NewTrans(kind, state, tcp)
           v == [w EXCEPT !.tr[t] = r]
<1>1. w \in Worlds /\ w.tr[t] \in Row /\ RowOK(w.tr[t], One(w.ch.ict = t) + One(w.ch.ist = t))
  BY DEF WorldOK, Worlds, TransOK
<1>2. /\ r \in Row /\ r.owned = TRUE /\ r.kind = kind /\ r.state = state /\ r.tcp = tcp
      /\ r.refs = 0 /\ r.life = "live"
  BY DEF NewTrans, Row
<1>3. t \notin {w.ch.ict, w.ch.ist} /\ ~w.tr[t].owned
  BY <1>1 DEF RowOK, One
<1> HIDE DEF r
<1>4. OnlyRow(w, v, t, r)
  BY <1>1, <1>2, RowSet
<1> HIDE DEF v
<1>5. RowOK(r, One(w.ch.ict = t) + One(w.ch.ist = t))
  BY <1>2, <1>3 DEF RowOK, One
<1>6. w.ch.ict \in Trans \cup {None} /\ w.ch.ist \in Trans \cup {None}
  BY <1>1 DEF Worlds, ChannelType
<1>7. TransOK(v.tr, v.ch.ict, v.ch.ist)
  BY <1>3, <1>4, <1>5, <1>6 DEF OnlyRow, WorldOK, TransOK
<1> QED
  BY <1>2, <1>3, <1>4, <1>7 DEF WorldOK, OnlyRow, v, r
-----------------------------------------------------------------------------
(* The channel and the application's view of the call.                      *)
ChanOK(c, l) ==
    /\ c.free => c = FreeChannel
    /\ c.state = "Ready" => c.free
    /\ c.retry => c.state = "Accept"
    /\ c.callout => c.state \in {"CallOut", "RingBack", "Terminate"}
    /\ c.state = "Accept" => c.retry \/ c.waived
    /\ c.state = "CallOut" => c.callout \/ c.rang
    /\ c.state = "RingBack" => c.rang
    /\ c.state = "Ring" => c.ist # None
    /\ c.retries <= MaxRetries \/ c.state = "Terminate"
    /\ c.state = "Terminate" => l # "open"
    /\ l # "silent"

AppCallbacks == {"Incall", "ReIncall", "InCallSetup", "OutCallSetup", "RingBack",
                 "EndCall", "Error", "Timeout", "done"}

(* The Execute of transaction t waits with `after` still to do.  Without    *)
(* TCP t is still in the map, or the channel answered it with a 2xx and     *)
(* holds it; calm says that nothing may happen to the channel before the    *)
(* Execute goes on.                                                         *)
SmOK(T, c, t, after, calm) ==
    /\ after \in {"Terminated", "Completed"} => T[t].owned /\ T[t].kind = "ICT"
    /\ after = "none" /\ "TCP" \notin Transports =>
          T[t].owned \/ (calm /\ c.ist = t /\ c.state = "Accept")

ServiceOK(T, t) ==
    /\ T[t].owned /\ T[t].kind = "NIST" /\ T[t].state = "Trying"
    /\ "TCP" \notin Transports => ~T[t].tcp

OuterOK(T, c, o, calm) ==
    \/ o = <<>>
    \/ \E t \in Trans, after \in {"none", "Terminated", "Completed"} :
          o = <<Sm(t, after)>> /\ SmOK(T, c, t, after, calm)
    \/ \E t \in Trans : o = <<Service(t), Sm(t, "none")>> /\ ServiceOK(T, t)

Leaving == Chan("leave", None)
Push1(o) == <<Leaving>> \o o
Push2(cb, o) == <<App(cb), Leaving>> \o o

StackOK(T, c, s) ==
    \/ OuterOK(T, c, s, TRUE) /\ c.state # "Terminate"
    \/ \E o : s = Push1(o) /\ OuterOK(T, c, o, TRUE)
    \/ \E o, cb : cb \in AppCallbacks /\ s = Push2(cb, o) /\ OuterOK(T, c, o, cb = "done")
    \/ /\ \E b \in Bodies \cup {None} :
             s \in {<<Chan("answer", b), Sm(c.ist, "none")>>,
                    <<App("InCallSetup"), Chan("answer", b), Sm(c.ist, "none")>>}
       /\ c.ist # None /\ T[c.ist].owned /\ c.state = "Accept" /\ ~c.retry

IInv == WorldOK(World) /\ ChanOK(ch, leg) /\ StackOK(tr, ch, stack)

LEMMA Pushed ==
    ASSUME NEW S, NEW a \in S, NEW o \in Seq(S)
    PROVE  /\ <<a>> \o o \in Seq(S) /\ <<a>> \o o # <<>>
           /\ Head(<<a>> \o o) = a /\ Tail(<<a>> \o o) = o
<1> DEFINE p == <<a>> \o o
<1>1. <<a>> \in Seq(S) /\ Len(<<a>>) = 1
  OBVIOUS
<1>2. p \in Seq(S) /\ Len(p) = 1 + Len(o)
      /\ \A i \in 1 .. 1 + Len(o) : p[i] = IF i <= 1 THEN <<a>>[i] ELSE o[i - 1]
  BY <1>1, ConcatProperties
<1> HIDE DEF p
<1>3. Len(o) \in Nat
  OBVIOUS
<1>4. p # <<>> /\ Head(p) = a
  BY <1>2, <1>3
<1>5. Tail(p) \in Seq(S) /\ Len(Tail(p)) = Len(o) /\ \A i \in 1 .. Len(o) : Tail(p)[i] = p[i + 1]
  BY <1>2, <1>3, <1>4, HeadTailProperties
<1>6. \A i \in 1 .. Len(o) : Tail(p)[i] = o[i]
  BY <1>2, <1>3, <1>5
<1>7. Tail(p) = o
  BY <1>5, <1>6, SeqEqual
<1> QED
  BY <1>2, <1>4, <1>7 DEF p

LEMMA PushedTwice ==
    ASSUME NEW S, NEW a \in S, NEW b \in S, NEW o \in Seq(S)
    PROVE  <<a, b>> \o o = <<a>> \o (<<b>> \o o)
<1>1. <<a>> \in Seq(S) /\ <<b>> \in Seq(S) /\ Len(<<a>>) = 1 /\ Len(<<b>>) = 1
  OBVIOUS
<1>2. <<a, b>> = <<a>> \o <<b>>
  <2> DEFINE p == <<a>> \o <<b>>
             q == <<a, b>>
  <2>1. p \in Seq(S) /\ Len(p) = 2 /\ \A i \in 1 .. 2 : p[i] = IF i <= 1 THEN <<a>>[i] ELSE <<b>>[i - 1]
    BY <1>1, ConcatProperties
  <2>2. p[1] = a /\ p[2] = b
    BY <2>1
  <2>3. q[1] = a /\ q[2] = b /\ Len(q) = 2 /\ q \in Seq(S)
    OBVIOUS
  <2> HIDE DEF p, q
  <2>4. \A i \in 1 .. 2 : p[i] = q[i]
    BY <2>2, <2>3
  <2>5. p = q
    BY <2>1, <2>3, <2>4, SeqEqual
  <2> QED
    BY <2>5 DEF p, q
<1> QED
  BY <1>1, <1>2, ConcatAssociative

LEMMA Outers ==
    ASSUME NEW T, NEW c, NEW o, NEW calm, OuterOK(T, c, o, calm)
    PROVE  /\ Push1(o) # <<>> /\ Head(Push1(o)) = Leaving /\ Tail(Push1(o)) = o
           /\ \A cb : /\ Push2(cb, o) # <<>> /\ Head(Push2(cb, o)) = App(cb)
                      /\ Tail(Push2(cb, o)) = Push1(o)
                      /\ <<App("done")>> \o Tail(Push2(cb, o)) = Push2("done", o)
<1> SUFFICES ASSUME NEW cb
             PROVE  /\ Push1(o) # <<>> /\ Head(Push1(o)) = Leaving /\ Tail(Push1(o)) = o
                    /\ Push2(cb, o) # <<>> /\ Head(Push2(cb, o)) = App(cb)
                    /\ Tail(Push2(cb, o)) = Push1(o)
                    /\ <<App("done")>> \o Tail(Push2(cb, o)) = Push2("done", o)
  OBVIOUS
<1>1. PICK S : Leaving \in S /\ App(cb) \in S /\ App("done") \in S /\ o \in Seq(S)
  <2> DEFINE F == {Leaving, App(cb), App("done")}
  <2>1. CASE o = <<>>
    <3>1. o \in Seq(F)
      BY <2>1
    <3> QED
      BY <3>1
  <2>2. CASE \E t \in Trans, after \in {"none", "Terminated", "Completed"} : o = <<Sm(t, after)>>
    <3>1. PICK t \in Trans, after \in {"none", "Terminated", "Completed"} : o = <<Sm(t, after)>>
      BY <2>2
    <3>2. o \in Seq(F \cup {Sm(t, after)})
      BY <3>1
    <3> QED
      BY <3>2
  <2>3. CASE \E t \in Trans : o = <<Service(t), Sm(t, "none")>>
    <3>1. PICK t \in Trans : o = <<Service(t), Sm(t, "none")>>
      BY <2>3
    <3>2. o \in Seq(F \cup {Service(t), Sm(t, "none")})
      BY <3>1
    <3> QED
      BY <3>2
  <2> QED
    BY <2>1, <2>2, <2>3 DEF OuterOK
<1>2. Push1(o) \in Seq(S) /\ Push1(o) # <<>> /\ Head(Push1(o)) = Leaving /\ Tail(Push1(o)) = o
  BY <1>1, Pushed DEF Push1
<1>3. Push2(cb, o) = <<App(cb)>> \o Push1(o) /\ Push2("done", o) = <<App("done")>> \o Push1(o)
  <2>1. \A a \in S : <<a, Leaving>> \o o = <<a>> \o (<<Leaving>> \o o)
    BY <1>1, PushedTwice
  <2>2. <<App(cb), Leaving>> \o o = <<App(cb)>> \o (<<Leaving>> \o o)
    BY <1>1, <2>1
  <2>3. <<App("done"), Leaving>> \o o = <<App("done")>> \o (<<Leaving>> \o o)
    BY <1>1, <2>1
  <2> QED
    BY <2>2, <2>3 DEF Push1, Push2
<1>4. Push2(cb, o) # <<>> /\ Head(Push2(cb, o)) = App(cb) /\ Tail(Push2(cb, o)) = Push1(o)
  BY <1>1, <1>2, <1>3, Pushed
<1> QED
  BY <1>2, <1>3, <1>4
-----------------------------------------------------------------------------
LEMMA OuterKept ==
    ASSUME NEW T, NEW c, NEW T2, NEW c2, NEW o, NEW calm,
           OuterOK(T, c, o, FALSE), \A t \in Trans : T[t].owned => SameRow(T[t], T2[t])
    PROVE  OuterOK(T2, c2, o, calm)
BY DEF OuterOK, SmOK, ServiceOK, SameRow

LEMMA OuterCalm ==
    ASSUME NEW T, NEW c, NEW o, NEW calm,
           OuterOK(T, c, o, FALSE) \/ (OuterOK(T, c, o, TRUE) /\ c.state # "Accept")
    PROVE  OuterOK(T, c, o, FALSE) /\ OuterOK(T, c, o, calm)
BY DEF OuterOK, SmOK

LEMMA LeaveIs ==
    ASSUME NEW w, WorldOK(w), ChanOK(w.ch, w.leg)
    PROVE  LET v == Leave(w)
           IN  /\ WorldOK(v) /\ ChanOK(v.ch, v.leg) /\ v.bad = w.bad /\ SameTrans(w, v)
               /\ v.ch.state # "Terminate"
               /\ w.ch.state # "Terminate" => v = w
               /\ w.ch.state = "Terminate" => v.ch = FreeChannel /\ v.leg = FreedLeg(w.leg)
<1>1. CASE w.ch.state # "Terminate"
  BY <1>1 DEF Leave, SameTrans, SameRow
<1>2. CASE w.ch.state = "Terminate"
  <2> DEFINE v == FreeRes(w)
  <2>1. ~w.ch.retry
    BY <1>2 DEF ChanOK
  <2>2. /\ WorldOK(v) /\ v.ch = FreeChannel /\ v.bad = w.bad /\ v.leg = FreedLeg(w.leg)
        /\ SameTrans(w, v)
    BY <2>1, FreeResIs
  <2>3. FreedLeg(w.leg) # "silent"
    BY <1>2 DEF ChanOK, FreedLeg
  <2>4. ChanOK(FreeChannel, FreedLeg(w.leg))
    BY <2>3 DEF ChanOK, FreeChannel, MaxRetries
  <2>5. Leave(w) = v
    BY <1>2 DEF Leave
  <2> HIDE DEF v
  <2> QED
    BY <1>2, <2>2, <2>4, <2>5, FreeChannelType
<1> QED
  BY <1>1, <1>2

LEMMA LeaveOuter ==
    ASSUME NEW w, WorldOK(w), ChanOK(w.ch, w.leg), NEW o, NEW calm \in BOOLEAN,
           OuterOK(w.tr, w.ch, o, calm)
    PROVE  OuterOK(Leave(w).tr, Leave(w).ch, o, calm)
<1>1. CASE w.ch.state # "Terminate"
  BY <1>1, LeaveIs
<1>2. CASE w.ch.state = "Terminate"
  <2>1. OuterOK(w.tr, w.ch, o, FALSE)
    BY <1>2, OuterCalm
  <2>2. \A t \in Trans : SameRow(w.tr[t], Leave(w).tr[t])
    BY LeaveIs DEF SameTrans
  <2> QED
    BY <2>1, <2>2, OuterKept
<1> QED
  BY <1>1, <1>2

LEMMA BecomesIs ==
    ASSUME NEW w, WorldOK(w), ChanOK(w.ch, w.leg), Becomes(w), StackOK(w.tr, w.ch, stack')
    PROVE  IInv'
<1>1. World' = w
  BY DEF Becomes, World, WorldOK, Worlds
<1> QED
  BY <1>1 DEF Becomes, IInv

LEMMA ReturnsIs ==
    ASSUME NEW w, WorldOK(w), ChanOK(w.ch, w.leg), NEW o, OuterOK(w.tr, w.ch, o, TRUE)
    PROVE  /\ Returns(w, o) => IInv'
           /\ Returns(w, Push2("done", o)) => IInv'
<1> DEFINE v == Leave(w)
<1>1. WorldOK(v) /\ ChanOK(v.ch, v.leg) /\ v.ch.state # "Terminate"
  BY LeaveIs
<1>2. OuterOK(v.tr, v.ch, o, TRUE)
  BY LeaveOuter
<1>3. ASSUME Returns(w, o) PROVE IInv'
  <2>1. Becomes(v) /\ StackOK(v.tr, v.ch, stack')
    BY <1>1, <1>2, <1>3 DEF Returns, StackOK
  <2> QED
    BY <1>1, <2>1, BecomesIs
<1>4. ASSUME Returns(w, Push2("done", o)) PROVE IInv'
  <2>1. Becomes(v) /\ stack' = Push2("done", o)
    BY <1>4 DEF Returns
  <2>2. StackOK(v.tr, v.ch, stack')
    BY <1>2, <2>1 DEF StackOK, AppCallbacks
  <2> QED
    BY <1>1, <2>1, <2>2, BecomesIs
<1> QED
  BY <1>3, <1>4

LEMMA CallsIs ==
    ASSUME NEW w, WorldOK(w), ChanOK(w.ch, w.leg), NEW o, OuterOK(w.tr, w.ch, o, FALSE),
           NEW cb \in AppCallbacks, Calls(w, cb, o)
    PROVE  IInv'
<1>1. Becomes(w) /\ stack' = Push2(cb, o)
  BY DEF Calls, Push2, Leaving
<1>2. OuterOK(w.tr, w.ch, o, cb = "done")
  BY OuterCalm
<1>3. StackOK(w.tr, w.ch, stack')
  BY <1>1, <1>2 DEF StackOK
<1> QED
  BY <1>1, <1>3, BecomesIs
-----------------------------------------------------------------------------
(* w with channel c and leg l.                                              *)
Put(w, c, l) == [ch |-> c, tr |-> w.tr, bad |-> w.bad, leg |-> l]

LEMMA ChPut ==
    ASSUME NEW w \in Worlds, NEW c
    PROVE  [w EXCEPT !.ch = c] = Put(w, c, w.leg)
BY DEF Worlds, Put

LEMMA GoPut ==
    ASSUME NEW w, NEW c, NEW l, NEW s
    PROVE  Go(Put(w, c, l), s) = Put(w, [c EXCEPT !.state = s], l)
BY DEF Go, Put

LEMMA LegPut ==
    ASSUME NEW w, NEW c, NEW l, NEW m
    PROVE  [Put(w, c, l) EXCEPT !.leg = m] = Put(w, c, m)
BY DEF Put

LEMMA GoIs ==
    ASSUME NEW w \in Worlds, NEW s
    PROVE  Go(w, s) = Put(w, [w.ch EXCEPT !.state = s], w.leg)
BY ChPut DEF Go

LEMMA PutIs ==
    ASSUME NEW w, WorldOK(w), NEW c \in ChannelType, NEW l \in LegType,
           c.ict = w.ch.ict, c.ist = w.ch.ist
    PROVE  /\ WorldOK(Put(w, c, l)) /\ Put(w, c, l).ch = c /\ Put(w, c, l).tr = w.tr
           /\ Put(w, c, l).bad = w.bad /\ Put(w, c, l).leg = l
BY DEF Put, WorldOK, Worlds

LEMMA Slot ==
    ASSUME NEW w, WorldOK(w), w.ch.ist # None
    PROVE  w.ch.ist \in Trans /\ w.tr[w.ch.ist].life = "live" /\ w.tr[w.ch.ist].kind = "IST"
           /\ ~w.tr[w.ch.ist].tcp
<1>1. w \in Worlds /\ w.ch.ist \in Trans
  BY DEF WorldOK, Worlds, ChannelType
<1>2. RowOK(w.tr[w.ch.ist], One(w.ch.ict = w.ch.ist) + One(w.ch.ist = w.ch.ist)) /\ w.tr[w.ch.ist] \in Row
  BY <1>1 DEF WorldOK, Worlds, TransOK
<1> QED
  BY <1>1, <1>2 DEF RowOK, One, WorldOK, TransOK, Row

(* What an answer to the INVITE of the channel does to the transactions.    *)
Answered(w, v, class) ==
    /\ \A u \in Trans : u # w.ch.ist => v.tr[u] = w.tr[u]
    /\ class # "1xx" => ~(v.tr[w.ch.ist].owned /\ v.tr[w.ch.ist].state = "Proceeding")
    /\ w.tr[w.ch.ist].owned /\ ~v.tr[w.ch.ist].owned => class = "2xx"
    /\ v.tr[w.ch.ist].owned => w.tr[w.ch.ist].owned /\ v.tr[w.ch.ist].kind = "IST"

LEMMA AnsweredOuter ==
    ASSUME NEW w, WorldOK(w), w.ch.ist # None, NEW v, NEW class, Answered(w, v, class),
           NEW o, OuterOK(w.tr, w.ch, o, FALSE)
    PROVE  v.ch.ist = w.ch.ist /\ v.ch.state = "Accept" => OuterOK(v.tr, v.ch, o, TRUE)
BY Slot DEF OuterOK, SmOK, ServiceOK, Answered

LEMMA RefusedOuter ==
    ASSUME NEW w, WorldOK(w), w.ch.ist # None, NEW v, NEW class \in {"1xx", "3456xx"},
           Answered(w, v, class), NEW o, OuterOK(w.tr, w.ch, o, FALSE)
    PROVE  OuterOK(v.tr, v.ch, o, FALSE)
BY Slot DEF OuterOK, SmOK, ServiceOK, Answered

LEMMA RespondToIst ==
    ASSUME NEW w, WorldOK(w), w.ch.ist # None, NEW class \in Classes
    PROVE  LET v == Respond(w, w.ch.ist, class)
           IN  /\ WorldOK(v) /\ v.ch = w.ch /\ v.leg = w.leg /\ v.bad = w.bad
               /\ Answered(w, v, class)
<1> DEFINE t == w.ch.ist
           v == Respond(w, t, class)
<1>1. t \in Trans /\ w.tr[t].life = "live" /\ w.tr[t].kind = "IST" /\ ~w.tr[t].tcp
  BY Slot
<1>2. /\ OnlyTrans(w, v, t)
      /\ class # "1xx" => ~(v.tr[t].owned /\ v.tr[t].state = "Proceeding")
      /\ w.tr[t].owned /\ ~v.tr[t].owned =>
            \/ w.tr[t].state = "Proceeding" /\ class = "2xx"
            \/ w.tr[t].state = "Trying" /\ w.tr[t].tcp
  BY <1>1, RespondIs
<1> QED
  BY <1>1, <1>2 DEF OnlyTrans, Answered

(* v is w after OnAccept: a 2xx waits for the ACK, any other ends the call. *)
Accepted(w, v, class, sdp) ==
    /\ WorldOK(v) /\ v.leg = w.leg /\ v.bad = w.bad /\ Answered(w, v, class)
    /\ class = "2xx" =>
          v.ch = [w.ch EXCEPT !.dialog = TRUE, !.myBody = w.ch.myBody \/ sdp,
                              !.state = "Accept", !.retry = TRUE, !.waived = FALSE]
    /\ class # "2xx" =>
          v.ch = [w.ch EXCEPT !.dialog = TRUE, !.myBody = w.ch.myBody \/ sdp,
                              !.state = "Terminate"]

LEMMA OnAcceptIs ==
    ASSUME NEW w, WorldOK(w), w.ch.ist # None, NEW class \in Classes, NEW sdp \in BOOLEAN
    PROVE  Accepted(w, OnAccept(w, class, sdp), class, sdp)
<1> DEFINE t == w.ch.ist
           c == [w.ch EXCEPT !.dialog = TRUE, !.myBody = w.ch.myBody \/ sdp]
           x == [w EXCEPT !.ch.dialog = TRUE, !.ch.myBody = w.ch.myBody \/ sdp]
           a == Respond(x, t, class)
           v == OnAccept(w, class, sdp)
<1>1. w \in Worlds /\ w.ch \in ChannelType /\ w.leg \in LegType
  BY DEF WorldOK, Worlds
<1>2. c \in ChannelType /\ c.ict = w.ch.ict /\ c.ist = t
  BY <1>1 DEF ChannelType
<1>3. x = Put(w, c, w.leg)
  <2>1. x = [w EXCEPT !.ch = c]
    OBVIOUS
  <2> HIDE DEF x, c
  <2> QED
    BY <1>1, <2>1, ChPut
<1> HIDE DEF c, x
<1>4. WorldOK(x) /\ x.ch = c /\ x.tr = w.tr /\ x.bad = w.bad /\ x.leg = w.leg
  BY <1>1, <1>2, <1>3, PutIs
<1>5. ~Misused(w, t)
  BY <1>1, Slot, UsedLive
<1>6. /\ class = "2xx" => v = Go([a EXCEPT !.ch.retry = TRUE, !.ch.waived = FALSE], "Accept")
      /\ class # "2xx" => v = Go(a, "Terminate")
  BY <1>5 DEF OnAccept, x
<1> HIDE DEF v
<1>7. WorldOK(a) /\ a.ch = x.ch /\ a.leg = x.leg /\ a.bad = x.bad /\ Answered(x, a, class)
  <2>1. x.ch.ist = t
    BY <1>2, <1>4
  <2>2. x.ch.ist # None
    BY <2>1
  <2>3. LET y == Respond(x, x.ch.ist, class)
        IN  WorldOK(y) /\ y.ch = x.ch /\ y.leg = x.leg /\ y.bad = x.bad /\ Answered(x, y, class)
    BY <1>4, <2>2, RespondToIst
  <2> QED
    BY <2>1, <2>3
<1> HIDE DEF a
<1>8. a \in Worlds /\ a.ch \in ChannelType /\ a.leg \in LegType
  BY <1>7 DEF WorldOK, Worlds
<1>9. CASE class = "2xx"
  <2> DEFINE d == [a.ch EXCEPT !.state = "Accept", !.retry = TRUE, !.waived = FALSE]
  <2>1. d \in ChannelType /\ d.ict = a.ch.ict /\ d.ist = a.ch.ist
    BY <1>8 DEF ChannelType
  <2>2. v = Put(a, d, a.leg)
    <3> DEFINE e == [a.ch EXCEPT !.retry = TRUE, !.waived = FALSE]
               y == [a EXCEPT !.ch.retry = TRUE, !.ch.waived = FALSE]
    <3>1. y = [a EXCEPT !.ch = e]
      OBVIOUS
    <3>2. [e EXCEPT !.state = "Accept"] = d
      BY <1>8 DEF ChannelType
    <3>3. v = Go(y, "Accept")
      BY <1>6, <1>9
    <3> HIDE DEF d, e, y
    <3> QED
      BY <1>8, <3>1, <3>2, <3>3, ChPut, GoPut
  <2>3. d = [w.ch EXCEPT !.dialog = TRUE, !.myBody = w.ch.myBody \/ sdp,
                         !.state = "Accept", !.retry = TRUE, !.waived = FALSE]
    BY <1>1, <1>4, <1>7 DEF ChannelType, c
  <2> HIDE DEF d
  <2>4. WorldOK(v) /\ v.ch = d /\ v.tr = a.tr /\ v.leg = a.leg /\ v.bad = a.bad
    BY <1>7, <1>8, <2>1, <2>2, PutIs
  <2>5. Answered(w, v, class)
    BY <1>2, <1>4, <1>7, <2>4 DEF Answered
  <2> QED
    BY <1>4, <1>7, <1>9, <2>3, <2>4, <2>5 DEF v, Accepted
<1>10. CASE class # "2xx"
  <2> DEFINE d == [a.ch EXCEPT !.state = "Terminate"]
  <2>1. d \in ChannelType /\ d.ict = a.ch.ict /\ d.ist = a.ch.ist
    BY <1>8 DEF ChannelType
  <2>2. v = Put(a, d, a.leg)
    BY <1>6, <1>8, <1>10, GoIs
  <2>3. d = [w.ch EXCEPT !.dialog = TRUE, !.myBody = w.ch.myBody \/ sdp, !.state = "Terminate"]
    BY <1>1, <1>4, <1>7 DEF ChannelType, c
  <2> HIDE DEF d
  <2>4. WorldOK(v) /\ v.ch = d /\ v.tr = a.tr /\ v.leg = a.leg /\ v.bad = a.bad
    BY <1>7, <1>8, <2>1, <2>2, PutIs
  <2>5. Answered(w, v, class)
    BY <1>2, <1>4, <1>7, <2>4 DEF Answered
  <2> QED
    BY <1>4, <1>7, <1>10, <2>3, <2>4, <2>5 DEF v, Accepted
<1> QED
  BY <1>9, <1>10

LEMMA OnRingBackIs ==
    ASSUME NEW w, WorldOK(w), w.ch.ist # None
    PROVE  OnRingBackWhileRing(w) = Put(w, [w.ch EXCEPT !.dialog = TRUE], w.leg)
<1>1. w \in Worlds /\ w.ch.ist \in Trans /\ w.tr[w.ch.ist].life = "live"
  BY Slot DEF WorldOK
<1>2. Respond(w, w.ch.ist, "1xx") = w
  BY <1>1, RespondIs DEF Classes
<1>3. OnRingBackWhileRing(w) = [w EXCEPT !.ch = [w.ch EXCEPT !.dialog = TRUE]]
  BY <1>2 DEF OnRingBackWhileRing
<1> DEFINE c == [w.ch EXCEPT !.dialog = TRUE]
<1> HIDE DEF c
<1>4. [w EXCEPT !.ch = c] = Put(w, c, w.leg)
  BY <1>1, ChPut
<1> QED
  BY <1>3, <1>4 DEF c

(* The channel after an answer, 2xx or not.                                 *)
LEMMA AcceptedChan ==
    ASSUME NEW c \in ChannelType, NEW l, ChanOK(c, l), c.state \in {"Ring", "Setup", "Accept"},
           NEW d, NEW sdp,
           d = [c EXCEPT !.dialog = TRUE, !.myBody = c.myBody \/ sdp,
                         !.state = "Accept", !.retry = TRUE, !.waived = FALSE]
    PROVE  ChanOK(d, l) /\ d.ist = c.ist /\ d.state = "Accept"
<1>1. /\ d.state = "Accept" /\ d.retry = TRUE /\ d.ist = c.ist /\ d.callout = c.callout
      /\ d.free = c.free /\ d.retries = c.retries
  BY DEF ChannelType
<1>2. c.free = FALSE
  BY FreeChannelType DEF ChanOK, ChannelType
<1> QED
  BY <1>1, <1>2 DEF ChanOK

LEMMA RefusedChan ==
    ASSUME NEW c \in ChannelType, NEW l, ChanOK(c, l), c.state \in {"Ring", "Setup", "Accept"},
           ~c.retry, NEW l2, l2 \notin {"open", "silent"}, NEW d, NEW sdp,
           d = [c EXCEPT !.dialog = TRUE, !.myBody = c.myBody \/ sdp, !.state = "Terminate"]
    PROVE  ChanOK(d, l2) /\ d.ist = c.ist /\ d.state = "Terminate"
<1>1. /\ d.state = "Terminate" /\ d.retry = c.retry /\ d.ist = c.ist /\ d.callout = c.callout
      /\ d.free = c.free /\ d.retries = c.retries
  BY DEF ChannelType
<1>2. c.free = FALSE
  BY FreeChannelType DEF ChanOK, ChannelType
<1> QED
  BY <1>1, <1>2 DEF ChanOK

LEMMA OnInCallWhileSetupOK ==
    ASSUME NEW w, WorldOK(w), ChanOK(w.ch, w.leg), w.ch.state \in {"Setup", "Accept"},
           ~w.ch.retry, w.ch.ist # None, NEW o, OuterOK(w.tr, w.ch, o, FALSE),
           NEW body \in Bodies \cup {None}, OnInCallWhileSetup(w, body, o)
    PROVE  IInv'
<1> DEFINE f == [w EXCEPT !.ch.reinvite = TRUE]
           c == [w.ch EXCEPT !.reinvite = TRUE]
<1>1. w \in Worlds /\ w.ch \in ChannelType /\ w.leg \in LegType /\ OuterOK(w.tr, w.ch, o, TRUE)
  BY OuterCalm DEF WorldOK, Worlds
<1>2. f = Put(w, c, w.leg)
  <2>1. f = [w EXCEPT !.ch = c]
    OBVIOUS
  <2> HIDE DEF f, c
  <2> QED
    BY <1>1, <2>1, ChPut
<1>3. c \in ChannelType /\ c.ict = w.ch.ict /\ c.ist = w.ch.ist /\ c.state = w.ch.state /\ ~c.retry
  BY <1>1 DEF ChannelType
<1>4. ChanOK(c, w.leg)
  <2>1. c.free = FALSE /\ w.ch.free = FALSE
    BY <1>1, FreeChannelType DEF ChanOK, ChannelType
  <2> QED
    BY <1>1, <2>1 DEF ChanOK, ChannelType
<1>5. CASE body = None
  <2>1. Returns(w, o)
    BY <1>5 DEF OnInCallWhileSetup
  <2> QED
    BY <1>1, <2>1, ReturnsIs
<1>6. CASE body # None /\ w.ch.peerBody \notin {None, body}
  <2> DEFINE v == Go([f EXCEPT !.ch.peerBody = body], "Ring")
             d == [c EXCEPT !.peerBody = body]
             e == [d EXCEPT !.state = "Ring"]
  <2>1. [f EXCEPT !.ch.peerBody = body] = Put(w, d, w.leg)
    <3> DEFINE y == [f EXCEPT !.ch.peerBody = body]
    <3>0. y = [f EXCEPT !.ch = [f.ch EXCEPT !.peerBody = body]]
      OBVIOUS
    <3> HIDE DEF f, c, y
    <3>1. f \in Worlds /\ f.ch = c /\ f.tr = w.tr /\ f.leg = w.leg /\ f.bad = w.bad
      BY <1>1, <1>2, <1>3, PutIs DEF WorldOK
    <3>2. y = [f EXCEPT !.ch = d]
      BY <3>0, <3>1
    <3> HIDE DEF d
    <3>3. y = Put(f, d, f.leg)
      BY <3>1, <3>2, ChPut
    <3> QED
      BY <3>1, <3>3 DEF Put, y
  <2>2. v = Put(w, e, w.leg)
    <3> DEFINE y == [f EXCEPT !.ch.peerBody = body]
    <3>1. v = Go(y, "Ring") /\ y = Put(w, d, w.leg)
      BY <2>1
    <3> HIDE DEF v, y, d
    <3> QED
      BY <3>1, GoPut
  <2>3. e \in ChannelType /\ e.ict = w.ch.ict /\ e.ist = w.ch.ist /\ e.state = "Ring"
    BY <1>1 DEF ChannelType
  <2>4. ChanOK(e, w.leg)
    <3>1. e.retry = c.retry /\ e.callout = c.callout /\ e.retries = c.retries /\ e.free = c.free
      BY <1>1 DEF ChannelType
    <3>2. c.free = FALSE
      BY <1>1, FreeChannelType DEF ChanOK, ChannelType
    <3> HIDE DEF e, c
    <3> QED
      BY <1>3, <1>4, <2>3, <3>1, <3>2 DEF ChanOK
  <2>5. Calls(v, "ReIncall", o)
    BY <1>6 DEF OnInCallWhileSetup
  <2> HIDE DEF v, e, f
  <2>6. WorldOK(v) /\ v.ch = e /\ v.tr = w.tr /\ v.leg = w.leg
    BY <1>1, <2>2, <2>3, PutIs
  <2>7. OuterOK(v.tr, v.ch, o, FALSE)
    BY <2>6, OuterKept DEF SameRow
  <2> QED
    BY <2>4, <2>5, <2>6, <2>7, CallsIs DEF AppCallbacks
<1>7. CASE body # None /\ w.ch.peerBody \in {None, body} /\ w.ch.myBody
  <2> DEFINE v == OnAccept(f, "2xx", FALSE)
  <2>1. Returns(v, o)
    BY <1>7 DEF OnInCallWhileSetup
  <2> HIDE DEF f, c
  <2>2. WorldOK(f) /\ f.ch = c /\ f.tr = w.tr /\ f.leg = w.leg /\ f.ch.ist # None
    BY <1>1, <1>2, <1>3, PutIs
  <2>3. /\ WorldOK(v) /\ v.leg = f.leg /\ Answered(f, v, "2xx")
        /\ v.ch = [f.ch EXCEPT !.dialog = TRUE, !.myBody = f.ch.myBody \/ FALSE,
                               !.state = "Accept", !.retry = TRUE, !.waived = FALSE]
    BY <2>2, OnAcceptIs DEF Classes, Accepted
  <2> HIDE DEF v
  <2>4. ChanOK(v.ch, v.leg) /\ v.ch.ist = f.ch.ist /\ v.ch.state = "Accept"
    BY <1>3, <1>4, <2>2, <2>3, AcceptedChan
  <2>5. OuterOK(f.tr, f.ch, o, FALSE)
    BY <2>2, OuterKept DEF SameRow
  <2>6. OuterOK(v.tr, v.ch, o, TRUE)
    BY <2>2, <2>3, <2>4, <2>5, AnsweredOuter
  <2> QED
    BY <2>1, <2>3, <2>4, <2>6, ReturnsIs
<1>8. CASE body # None /\ w.ch.peerBody \in {None, body} /\ ~w.ch.myBody
  <2> DEFINE g == [f EXCEPT !.leg = "noSdp"]
             v == OnAccept(g, "3456xx", FALSE)
  <2>1. Returns(v, o)
    BY <1>8 DEF OnInCallWhileSetup
  <2> HIDE DEF f, c
  <2>2. g = Put(w, c, "noSdp")
    BY <1>2, LegPut
  <2> HIDE DEF g
  <2>3. WorldOK(g) /\ g.ch = c /\ g.tr = w.tr /\ g.leg = "noSdp" /\ g.ch.ist # None
    BY <1>1, <2>2, <1>3, PutIs DEF LegType
  <2>4. /\ WorldOK(v) /\ v.leg = g.leg /\ Answered(g, v, "3456xx")
        /\ v.ch = [g.ch EXCEPT !.dialog = TRUE, !.myBody = g.ch.myBody \/ FALSE, !.state = "Terminate"]
    BY <2>3, OnAcceptIs DEF Classes, Accepted
  <2> HIDE DEF v
  <2>5. ChanOK(v.ch, v.leg)
    <3>1. PICK d : d = [c EXCEPT !.dialog = TRUE, !.myBody = c.myBody \/ FALSE, !.state = "Terminate"]
      OBVIOUS
    <3>2. v.ch = d /\ v.leg = "noSdp"
      BY <2>3, <2>4, <3>1
    <3>3. PICK no \in BOOLEAN : no = FALSE
      OBVIOUS
    <3>4. d = [c EXCEPT !.dialog = TRUE, !.myBody = c.myBody \/ no, !.state = "Terminate"]
      BY <3>1, <3>3
    <3>5. PICK l2 : l2 = "noSdp" /\ l2 \notin {"open", "silent"}
      OBVIOUS
    <3>6. c \in ChannelType /\ ChanOK(c, w.leg) /\ c.state \in {"Ring", "Setup", "Accept"} /\ ~c.retry
      BY <1>1, <1>3, <1>4
    <3>7. ChanOK(d, l2)
      BY <3>4, <3>5, <3>6, RefusedChan
    <3> QED
      BY <3>2, <3>5, <3>7
  <2>6. OuterOK(g.tr, g.ch, o, FALSE)
    BY <2>3, OuterKept DEF SameRow
  <2>a. OuterOK(v.tr, v.ch, o, FALSE)
    BY <2>3, <2>4, <2>6, RefusedOuter
  <2>7. OuterOK(v.tr, v.ch, o, TRUE)
    BY <2>a, OuterCalm
  <2> QED
    BY <2>1, <2>4, <2>5, <2>7, ReturnsIs
<1> QED
  BY <1>5, <1>6, <1>7, <1>8

(* A step that changes only the channel and the leg.                        *)
LEMMA ChanStep ==
    ASSUME NEW w, WorldOK(w), NEW c \in ChannelType, NEW l \in LegType,
           c.ict = w.ch.ict, c.ist = w.ch.ist, ChanOK(c, l), NEW v, v = Put(w, c, l),
           NEW o, OuterOK(w.tr, w.ch, o, FALSE)
    PROVE  /\ Returns(v, o) => IInv'
           /\ Returns(v, Push2("done", o)) => IInv'
           /\ \A cb \in AppCallbacks : Calls(v, cb, o) => IInv'
<1>1. WorldOK(v) /\ v.ch = c /\ v.tr = w.tr /\ v.leg = l
  BY PutIs
<1>2. OuterOK(v.tr, v.ch, o, FALSE) /\ OuterOK(v.tr, v.ch, o, TRUE)
  BY <1>1, OuterKept DEF SameRow
<1> QED
  BY <1>1, <1>2, ReturnsIs, CallsIs

LEMMA OnSetupOK ==
    ASSUME NEW w, WorldOK(w), ChanOK(w.ch, w.leg), NEW o, OuterOK(w.tr, w.ch, o, FALSE),
           NEW body \in Bodies \cup {None}, OnSetup(w, body, o)
    PROVE  IInv'
<1>1. w \in Worlds /\ w.ch \in ChannelType /\ w.leg \in LegType /\ OuterOK(w.tr, w.ch, o, TRUE)
  BY OuterCalm DEF WorldOK, Worlds
<1>2. CASE w.ch.state = "Accept"
  <2> DEFINE y == [w EXCEPT !.ch.retry = FALSE, !.ch.waived = FALSE]
             d == [w.ch EXCEPT !.retry = FALSE, !.waived = FALSE]
             c == [d EXCEPT !.state = "Setup"]
             v == Go(y, "Setup")
  <2>1. y = [w EXCEPT !.ch = d]
    OBVIOUS
  <2>2. c \in ChannelType /\ c.ict = w.ch.ict /\ c.ist = w.ch.ist
    BY <1>1 DEF ChannelType
  <2>3. ChanOK(c, w.leg)
    <3>1. /\ c.state = "Setup" /\ c.retry = FALSE /\ c.callout = w.ch.callout
          /\ c.free = w.ch.free /\ c.retries = w.ch.retries
      BY <1>1 DEF ChannelType
    <3>2. w.ch.free = FALSE
      BY <1>1, <1>2, FreeChannelType DEF ChanOK, ChannelType
    <3> HIDE DEF c
    <3> QED
      BY <1>2, <3>1, <3>2 DEF ChanOK
  <2>4. Returns(v, o) \/ Calls(v, "InCallSetup", o)
    BY <1>2 DEF OnSetup
  <2> HIDE DEF y, d
  <2>5. y = Put(w, d, w.leg)
    BY <1>1, <2>1, ChPut
  <2>6. v = Put(w, c, w.leg)
    BY <2>5, GoPut
  <2> HIDE DEF c, v
  <2> QED
    BY <1>1, <2>2, <2>3, <2>4, <2>6, ChanStep DEF AppCallbacks
<1>3. CASE w.ch.state \in {"CallOut", "RingBack"}
  <2> DEFINE b == IF body = None THEN w.ch.peerBody ELSE body
             y == [w EXCEPT !.ch.callout = FALSE, !.ch.dialog = TRUE, !.ch.peerBody = b]
             d == [w.ch EXCEPT !.callout = FALSE, !.dialog = TRUE, !.peerBody = b]
             c == [d EXCEPT !.state = "Setup"]
             v == Go(y, "Setup")
  <2>1. y = [w EXCEPT !.ch = d]
    OBVIOUS
  <2>2. c \in ChannelType /\ c.ict = w.ch.ict /\ c.ist = w.ch.ist
    BY <1>1 DEF ChannelType
  <2>3. ChanOK(c, w.leg)
    <3>1. /\ c.state = "Setup" /\ c.retry = w.ch.retry /\ c.callout = FALSE
          /\ c.free = w.ch.free /\ c.retries = w.ch.retries
      BY <1>1 DEF ChannelType
    <3>2. w.ch.free = FALSE
      BY <1>1, <1>3, FreeChannelType DEF ChanOK, ChannelType
    <3> HIDE DEF c
    <3> QED
      BY <1>3, <3>1, <3>2 DEF ChanOK
  <2>4. Returns(v, o) \/ Calls(v, "OutCallSetup", o)
    BY <1>3 DEF OnSetup
  <2> HIDE DEF y, d
  <2>5. y = Put(w, d, w.leg)
    BY <1>1, <2>1, ChPut
  <2>6. v = Put(w, c, w.leg)
    BY <2>5, GoPut
  <2> HIDE DEF c, v
  <2> QED
    BY <1>1, <2>2, <2>3, <2>4, <2>6, ChanStep DEF AppCallbacks
<1>4. CASE w.ch.state \notin {"Accept", "CallOut", "RingBack"}
  <2>1. Returns(w, o)
    BY <1>4 DEF OnSetup
  <2> QED
    BY <1>1, <2>1, ReturnsIs
<1> QED
  BY <1>2, <1>3, <1>4

HeardLeg(l) == IF l = "open" THEN "told" ELSE l
AskedLeg(l) == IF l = "open" THEN "asked" ELSE l

LEMMA LegsPut ==
    ASSUME NEW w, NEW c, NEW l
    PROVE  /\ Hears(Put(w, c, l)) = Put(w, c, HeardLeg(l))
           /\ Asks(Put(w, c, l)) = Put(w, c, AskedLeg(l))
           /\ Opens(Put(w, c, l)) = Put(w, c, "open")
BY DEF Hears, Asks, Opens, Put, HeardLeg, AskedLeg

LEMMA LegTypes ==
    \A l \in LegType :
        /\ HeardLeg(l) \in LegType /\ AskedLeg(l) \in LegType
        /\ HeardLeg(l) # "open" /\ AskedLeg(l) # "open"
        /\ l # "silent" => HeardLeg(l) # "silent" /\ AskedLeg(l) # "silent"
BY DEF HeardLeg, AskedLeg, LegType

(* A channel in use that is about to be freed.                              *)
LEMMA TerminatedChan ==
    ASSUME NEW c \in ChannelType, NEW l, ChanOK(c, l), c.state # "Ready", NEW l2,
           l2 \notin {"open", "silent"}, NEW d, d.state = "Terminate", ~d.retry, d.free = c.free
    PROVE  ChanOK(d, l2)
<1>1. c.free = FALSE
  BY FreeChannelType DEF ChanOK, ChannelType
<1> QED
  BY <1>1 DEF ChanOK

LEMMA OnPeerHangupOK ==
    ASSUME NEW w, WorldOK(w), ChanOK(w.ch, w.leg), NEW o, OuterOK(w.tr, w.ch, o, FALSE),
           OnPeerHangup(w, o)
    PROVE  IInv'
<1>1. w \in Worlds /\ w.ch \in ChannelType /\ w.leg \in LegType /\ OuterOK(w.tr, w.ch, o, TRUE)
  BY OuterCalm DEF WorldOK, Worlds
<1>2. CASE w.ch.state \in {"Ring", "Setup"}
  <2> DEFINE x == IF w.ch.state = "Ring" THEN Respond(w, w.ch.ist, "3456xx") ELSE w
  <2>1. WorldOK(x) /\ x.ch = w.ch /\ x.leg = w.leg /\ OuterOK(x.tr, x.ch, o, FALSE)
    <3>1. CASE w.ch.state = "Ring"
      <4>1. w.ch.ist # None
        BY <3>1 DEF ChanOK
      <4>2. WorldOK(x) /\ x.ch = w.ch /\ x.leg = w.leg /\ Answered(w, x, "3456xx")
        BY <3>1, <4>1, RespondToIst DEF Classes
      <4> HIDE DEF x
      <4>3. OuterOK(x.tr, x.ch, o, FALSE)
        BY <4>1, <4>2, RefusedOuter
      <4> QED
        BY <4>2, <4>3
    <3>2. CASE w.ch.state # "Ring"
      BY <3>2
    <3> QED
      BY <3>1, <3>2
  <2>2. Hangup(w) = Go(x, "Terminate")
    BY <1>2 DEF Hangup
  <2>3. Calls(Hears(Go(x, "Terminate")), "EndCall", o)
    BY <1>2, <2>2 DEF OnPeerHangup
  <2> HIDE DEF x
  <2> DEFINE c == [x.ch EXCEPT !.state = "Terminate"]
             v == Hears(Go(x, "Terminate"))
  <2>4. c \in ChannelType /\ c.ict = x.ch.ict /\ c.ist = x.ch.ist
    BY <1>1, <2>1 DEF ChannelType
  <2>5. ChanOK(c, HeardLeg(x.leg))
    <3>1. c.state = "Terminate" /\ c.free = x.ch.free /\ ~c.retry
      BY <1>1, <1>2, <2>1 DEF ChannelType, ChanOK
    <3>2. HeardLeg(x.leg) \notin {"open", "silent"}
      BY <1>1, <2>1, LegTypes DEF ChanOK
    <3> HIDE DEF c
    <3> QED
      BY <1>1, <1>2, <2>1, <3>1, <3>2, TerminatedChan
  <2> HIDE DEF c
  <2>6. Go(x, "Terminate") = Put(x, c, x.leg)
    BY <2>1, GoIs DEF c, WorldOK
  <2>7. v = Put(x, c, HeardLeg(x.leg))
    BY <2>6, LegsPut
  <2>8. HeardLeg(x.leg) \in LegType
    BY <1>1, <2>1, LegTypes
  <2>9. Calls(v, "EndCall", o)
    BY <2>3
  <2> HIDE DEF v
  <2> QED
    BY <2>1, <2>4, <2>5, <2>7, <2>8, <2>9, ChanStep DEF AppCallbacks
<1>3. CASE w.ch.state \notin {"Ring", "Setup"}
  <2>1. Returns(w, o)
    BY <1>3 DEF OnPeerHangup
  <2> QED
    BY <1>1, <2>1, ReturnsIs
<1> QED
  BY <1>2, <1>3
-----------------------------------------------------------------------------
(* No call waits: the channel is not about to be freed.                     *)
LEMMA IdleIs ==
    ASSUME IInv, Idle
    PROVE  World.ch.state # "Terminate"
<1>1. StackOK(tr, ch, <<>>)
  BY DEF IInv, Idle
<1>2. \A o, calm : OuterOK(tr, ch, o, calm) => Push1(o) # <<>> /\ \A cb : Push2(cb, o) # <<>>
  BY Outers
<1> QED
  BY <1>1, <1>2 DEF StackOK, World

LEMMA WorldIs ==
    ASSUME IInv
    PROVE  /\ WorldOK(World) /\ World \in Worlds /\ World.ch = ch /\ World.tr = tr
           /\ World.bad = bad /\ World.leg = leg
           /\ ch \in ChannelType /\ tr \in [Trans -> Row] /\ leg \in LegType
           /\ ChanOK(World.ch, World.leg)
BY DEF IInv, World, WorldOK, Worlds

(* A request of the peer enters in a new transaction.                       *)
LEMMA WithIs ==
    ASSUME IInv, NEW t \in Trans, Fresh(t), NEW kind \in {"ICT", "IST", "NIST"},
           NEW state \in {"Trying", "Proceeding"}, NEW tcp \in BOOLEAN, tcp => kind = "NIST"
    PROVE  LET w == With(t, kind, state, tcp)
           IN  /\ WorldOK(w) /\ w.ch = ch /\ w.leg = leg /\ w.bad = bad
               /\ \A u \in Trans : u # t => w.tr[u] = tr[u]
               /\ w.tr[t].owned /\ w.tr[t].kind = kind /\ w.tr[t].state = state
               /\ w.tr[t].tcp = tcp /\ w.tr[t].life = "live"
               /\ t \notin {ch.ict, ch.ist} /\ ~tr[t].owned
<1>1. PICK W : W = World
  OBVIOUS
<1>2. With(t, kind, state, tcp) = [W EXCEPT !.tr[t] = NewTrans(kind, state, tcp)]
  BY <1>1 DEF With
<1>3. WorldOK(W) /\ W.ch = ch /\ W.tr = tr /\ W.bad = bad /\ W.leg = leg /\ W.tr[t].life # "live"
  BY <1>1, WorldIs DEF Fresh
<1> DEFINE w == [W EXCEPT !.tr[t] = NewTrans(kind, state, tcp)]
<1>4. /\ WorldOK(w) /\ w.ch = W.ch /\ w.bad = W.bad /\ w.leg = W.leg
      /\ \A u \in Trans : u # t => w.tr[u] = W.tr[u]
      /\ w.tr[t].owned /\ w.tr[t].kind = kind /\ w.tr[t].state = state
      /\ w.tr[t].tcp = tcp /\ w.tr[t].life = "live"
      /\ t \notin {W.ch.ict, W.ch.ist} /\ ~W.tr[t].owned
  BY <1>3, NewTransIs
<1> HIDE DEF w
<1>5. With(t, kind, state, tcp) = w
  BY <1>2 DEF w
<1> QED
  BY <1>3, <1>4, <1>5

LEMMA WithIST ==
    ASSUME IInv, NEW t \in Trans, Fresh(t)
    PROVE  LET w == With(t, "IST", "Proceeding", FALSE)
           IN  /\ WorldOK(w) /\ w.ch = ch /\ w.leg = leg /\ w.bad = bad
               /\ \A u \in Trans : u # t => w.tr[u] = tr[u]
               /\ w.tr[t].owned /\ w.tr[t].kind = "IST" /\ w.tr[t].life = "live"
               /\ t \notin {ch.ict, ch.ist} /\ ~tr[t].owned
<1>1. PICK kind \in {"ICT", "IST", "NIST"}, state \in {"Trying", "Proceeding"}, tcp \in BOOLEAN :
        kind = "IST" /\ state = "Proceeding" /\ tcp = FALSE
  OBVIOUS
<1> DEFINE w == With(t, kind, state, tcp)
<1>2. /\ WorldOK(w) /\ w.ch = ch /\ w.leg = leg /\ w.bad = bad
      /\ \A u \in Trans : u # t => w.tr[u] = tr[u]
      /\ w.tr[t].owned /\ w.tr[t].kind = kind /\ w.tr[t].life = "live"
      /\ t \notin {ch.ict, ch.ist} /\ ~tr[t].owned
  BY <1>1, WithIs
<1> HIDE DEF w
<1>3. With(t, "IST", "Proceeding", FALSE) = w
  BY <1>1 DEF w
<1> QED
  BY <1>1, <1>2, <1>3

(* The request in transaction t is refused at once, and its Execute waits.  *)
LEMMA RefuseOK ==
    ASSUME IInv, Idle, NEW t \in Trans, Fresh(t), NEW kind \in {"IST", "NIST"},
           NEW state \in {"Trying", "Proceeding"}, NEW tcp \in BOOLEAN, tcp => kind = "NIST",
           "TCP" \notin Transports => ~tcp,
           Becomes(Respond(With(t, kind, state, tcp), t, "3456xx")), stack' = <<Sm(t, "none")>>
    PROVE  IInv'
<1> DEFINE w == With(t, kind, state, tcp)
           v == Respond(w, t, "3456xx")
<1>1. /\ WorldOK(w) /\ w.ch = ch /\ w.leg = leg
      /\ w.tr[t].owned /\ w.tr[t].tcp = tcp /\ w.tr[t].life = "live"
  BY WithIs
<1> HIDE DEF w
<1>2. OnlyTrans(w, v, t) /\ (~v.tr[t].owned => w.tr[t].tcp)
  BY <1>1, RespondIs DEF Classes
<1> HIDE DEF v
<1>3. ch.state # "Terminate" /\ ChanOK(ch, leg)
  BY IdleIs, WorldIs
<1>4. WorldOK(v) /\ v.ch = ch /\ v.leg = leg
  BY <1>1, <1>2 DEF OnlyTrans
<1>5. OuterOK(v.tr, v.ch, stack', TRUE)
  BY <1>1, <1>2 DEF OuterOK, SmOK
<1>6. StackOK(v.tr, v.ch, stack')
  BY <1>3, <1>4, <1>5 DEF StackOK
<1>7. Becomes(v)
  BY DEF v, w
<1> QED
  BY <1>3, <1>4, <1>6, <1>7, BecomesIs

LEMMA PeerInviteOK ==
    ASSUME IInv, NEW t \in Trans, NEW body \in Bodies \cup {None}, PeerInvite(t, body)
    PROVE  IInv'
<1>1. Idle /\ Fresh(t)
  BY DEF PeerInvite
<1>2. CASE ch.free
  <2> DEFINE w == With(t, "IST", "Proceeding", FALSE)
             y == [w EXCEPT !.ch.free = FALSE]
             c == [w.ch EXCEPT !.free = FALSE]
             s == SetIST(y, t)
             z == [s EXCEPT !.ch.peerBody = body]
             v == Opens(Go(z, "Ring"))
  <2>1. Calls(v, "Incall", <<Sm(t, "none")>>)
    BY <1>2 DEF PeerInvite
  <2>2. /\ WorldOK(w) /\ w.ch = ch /\ w.leg = leg /\ w.tr[t].owned /\ w.tr[t].kind = "IST"
        /\ w.tr[t].life = "live" /\ t # ch.ist
    BY <1>1, WithIST
  <2>3. y = [w EXCEPT !.ch = c]
    OBVIOUS
  <2> HIDE DEF w, y
  <2>4. w \in Worlds /\ w.ch \in ChannelType /\ w.leg \in LegType
    BY <2>2 DEF WorldOK, Worlds
  <2>5. c \in ChannelType /\ c.ict = w.ch.ict /\ c.ist = w.ch.ist
    BY <2>4 DEF ChannelType
  <2> HIDE DEF c
  <2>6. y = Put(w, c, w.leg)
    BY <2>3, <2>4, ChPut
  <2>7. WorldOK(y) /\ y.ch = c /\ y.tr = w.tr /\ y.leg = w.leg
    BY <2>2, <2>4, <2>5, <2>6, PutIs
  <2>8. t # None => t # y.ch.ist /\ y.tr[t].life = "live" /\ y.tr[t].kind = "IST"
    BY <2>2, <2>5, <2>7
  <2>9. WorldOK(s) /\ s.ch = [c EXCEPT !.ist = t] /\ s.leg = leg /\ SameTrans(y, s)
    BY <2>2, <2>7, <2>8, SetISTIs
  <2>10. z = [s EXCEPT !.ch = [s.ch EXCEPT !.peerBody = body]]
    OBVIOUS
  <2> HIDE DEF s
  <2> DEFINE d == [s.ch EXCEPT !.peerBody = body]
             e == [d EXCEPT !.state = "Ring"]
  <2>11. e \in ChannelType /\ e.ict = s.ch.ict /\ e.ist = s.ch.ist
    BY <2>5, <2>9 DEF ChannelType, WorldOK, Worlds
  <2>12. ChanOK(e, "open")
    <3>1. ch = FreeChannel
      BY <1>2, WorldIs DEF ChanOK
    <3>2. /\ e.state = "Ring" /\ e.free = FALSE /\ e.retry = FALSE /\ e.callout = FALSE
          /\ e.retries = 0 /\ e.ist = t
      BY <2>2, <2>5, <2>9, <3>1 DEF ChannelType, c, FreeChannel
    <3> HIDE DEF e
    <3> QED
      BY <3>2, CallAssumption DEF ChanOK, MaxRetries
  <2> HIDE DEF z, d
  <2>13. z = Put(s, d, s.leg)
    BY <2>9, <2>10, ChPut DEF WorldOK, d
  <2>14. Go(z, "Ring") = Put(s, e, s.leg)
    BY <2>13, GoPut
  <2> HIDE DEF e
  <2>15. v = Put(s, e, "open")
    BY <2>14, LegsPut
  <2> HIDE DEF v
  <2>16. OuterOK(s.tr, s.ch, <<Sm(t, "none")>>, FALSE)
    <3>1. s.tr[t].owned
      BY <2>2, <2>7, <2>9 DEF SameTrans, SameRow
    <3> QED
      BY <3>1 DEF OuterOK, SmOK
  <2> QED
    BY <2>1, <2>9, <2>11, <2>12, <2>15, <2>16, ChanStep DEF AppCallbacks, LegType
<1>3. CASE ~ch.free
  <2>1. /\ Becomes(Respond(With(t, "IST", "Proceeding", FALSE), t, "3456xx"))
        /\ stack' = <<Sm(t, "none")>>
    BY <1>3 DEF PeerInvite
  <2> QED
    BY <1>1, <2>1, RefuseOK
<1> QED
  BY <1>2, <1>3

LEMMA PeerReInviteOK ==
    ASSUME IInv, NEW t \in Trans, NEW body \in Bodies \cup {None}, PeerReInvite(t, body)
    PROVE  IInv'
<1> DEFINE w == With(t, "IST", "Proceeding", FALSE)
           s == SetIST(w, t)
<1>1. Idle /\ Fresh(t)
  BY DEF PeerReInvite
<1>2. /\ WorldOK(w) /\ w.ch = ch /\ w.leg = leg /\ w.tr[t].owned /\ w.tr[t].kind = "IST"
      /\ w.tr[t].life = "live" /\ t # ch.ist
  BY <1>1, WithIST
<1>3. /\ ch.state = "Accept" =>
            /\ Becomes([s EXCEPT !.ch.retry = FALSE, !.ch.waived = TRUE])
            /\ stack' = <<App("InCallSetup"), Chan("answer", body), Sm(t, "none")>>
      /\ ch.state = "Setup" => OnInCallWhileSetup(s, body, <<Sm(t, "none")>>)
      /\ ch.state \notin {"Accept", "Setup"} =>
            Becomes(Respond(w, t, "3456xx")) /\ stack' = <<Sm(t, "none")>>
  BY DEF PeerReInvite
<1> HIDE DEF w
<1>4. /\ WorldOK(s) /\ s.ch = [ch EXCEPT !.ist = t] /\ s.leg = leg
      /\ s.tr[t].owned
  BY <1>2, SetISTIs DEF SameTrans, SameRow
<1> HIDE DEF s
<1>5. ChanOK(ch, leg) /\ ch \in ChannelType /\ leg \in LegType /\ t # None
  BY WorldIs, CallAssumption
<1>6. CASE ch.state = "Accept"
  <2> DEFINE v == [s EXCEPT !.ch.retry = FALSE, !.ch.waived = TRUE]
             c == [s.ch EXCEPT !.retry = FALSE, !.waived = TRUE]
  <2>1. v = [s EXCEPT !.ch = c]
    OBVIOUS
  <2>2. /\ c \in ChannelType /\ c.ict = s.ch.ict /\ c.ist = s.ch.ist /\ c.ist = t
        /\ c.state = "Accept" /\ ~c.retry /\ c.waived /\ c.callout = ch.callout
        /\ c.free = ch.free /\ c.retries = ch.retries
    BY <1>4, <1>5, <1>6 DEF ChannelType
  <2> HIDE DEF c, v
  <2>3. ChanOK(c, leg)
    <3>1. ch.free = FALSE
      BY <1>5, <1>6, FreeChannelType DEF ChanOK, ChannelType
    <3> QED
      BY <1>5, <1>6, <2>2, <3>1 DEF ChanOK
  <2>4. v = Put(s, c, s.leg)
    BY <1>4, <2>1, ChPut DEF WorldOK
  <2>5. WorldOK(v) /\ v.ch = c /\ v.tr = s.tr /\ v.leg = leg
    <3>1. s.leg \in LegType /\ s.leg = leg
      BY <1>4, <1>5
    <3>a. WorldOK(s) /\ c \in ChannelType /\ c.ict = s.ch.ict /\ c.ist = s.ch.ist
      BY <1>4, <2>2
    <3>2. /\ WorldOK(Put(s, c, s.leg)) /\ Put(s, c, s.leg).ch = c /\ Put(s, c, s.leg).tr = s.tr
          /\ Put(s, c, s.leg).leg = s.leg
      BY <3>a, <3>1, PutIs
    <3> QED
      BY <2>4, <3>1, <3>2
  <2>6. StackOK(v.tr, v.ch, stack')
    BY <1>3, <1>4, <1>5, <1>6, <2>2, <2>5 DEF StackOK
  <2>7. Becomes(v)
    BY <1>3, <1>6 DEF v
  <2> QED
    BY <2>3, <2>5, <2>6, <2>7, BecomesIs
<1>7. CASE ch.state = "Setup"
  <2>1. /\ s.ch.state = "Setup" /\ s.ch.ist = t /\ s.ch.retry = ch.retry
        /\ s.ch.callout = ch.callout /\ s.ch.free = ch.free /\ s.ch.retries = ch.retries
    BY <1>4, <1>5, <1>7 DEF ChannelType
  <2>2. ChanOK(s.ch, s.leg) /\ ~s.ch.retry
    <3>1. ch.free = FALSE
      BY <1>5, <1>7, FreeChannelType DEF ChanOK, ChannelType
    <3> QED
      BY <1>4, <1>5, <1>7, <2>1, <3>1 DEF ChanOK
  <2>3. OuterOK(s.tr, s.ch, <<Sm(t, "none")>>, FALSE)
    BY <1>4 DEF OuterOK, SmOK
  <2> QED
    BY <1>3, <1>4, <1>5, <1>7, <2>1, <2>2, <2>3, OnInCallWhileSetupOK
<1>8. CASE ch.state \notin {"Accept", "Setup"}
  <2>1. Becomes(Respond(w, t, "3456xx")) /\ stack' = <<Sm(t, "none")>>
    BY <1>3, <1>8
  <2> QED
    BY <1>1, <2>1, RefuseOK DEF w
<1> QED
  BY <1>6, <1>7, <1>8

LEMMA PeerAckOK ==
    ASSUME IInv, NEW body \in Bodies \cup {None}, PeerAck(body)
    PROVE  IInv'
<1>1. OnSetup(World, body, <<>>) /\ OuterOK(World.tr, World.ch, <<>>, FALSE)
  BY DEF PeerAck, OuterOK
<1> QED
  BY <1>1, WorldIs, OnSetupOK

(* A BYE or CANCEL whose transaction waits for the 200.                     *)
LEMMA WithNIST ==
    ASSUME IInv, NEW t \in Trans, Fresh(t), NEW tcp \in BOOLEAN, "TCP" \notin Transports => ~tcp
    PROVE  LET w == With(t, "NIST", "Trying", tcp)
           IN  /\ WorldOK(w) /\ ChanOK(w.ch, w.leg) /\ w.ch = ch
               /\ OuterOK(w.tr, w.ch, <<Service(t), Sm(t, "none")>>, FALSE)
<1>1. PICK kind \in {"ICT", "IST", "NIST"}, state \in {"Trying", "Proceeding"} :
        kind = "NIST" /\ state = "Trying"
  OBVIOUS
<1> DEFINE w == With(t, kind, state, tcp)
<1>2. /\ WorldOK(w) /\ w.ch = ch /\ w.leg = leg
      /\ w.tr[t].owned /\ w.tr[t].kind = kind /\ w.tr[t].state = state /\ w.tr[t].tcp = tcp
  BY <1>1, WithIs
<1> HIDE DEF w
<1>3. OuterOK(w.tr, w.ch, <<Service(t), Sm(t, "none")>>, FALSE)
  BY <1>1, <1>2 DEF OuterOK, ServiceOK
<1>4. With(t, "NIST", "Trying", tcp) = w
  BY <1>1 DEF w
<1> QED
  BY <1>2, <1>3, <1>4, WorldIs

LEMMA PeerByeOK ==
    ASSUME IInv, NEW t \in Trans, NEW p \in Transports, PeerBye(t, p = "TCP") \/ PeerCancel(t, p = "TCP")
    PROVE  IInv'
<1>1. PICK tcp \in BOOLEAN : tcp = (p = "TCP")
  OBVIOUS
<1>2. Idle /\ Fresh(t) /\ ("TCP" \notin Transports => ~tcp)
  BY <1>1 DEF PeerBye, PeerCancel
<1> DEFINE w == With(t, "NIST", "Trying", tcp)
<1>3. \/ OnPeerHangup(w, <<Service(t), Sm(t, "none")>>)
      \/ Becomes(Respond(w, t, "3456xx")) /\ stack' = <<Sm(t, "none")>>
  BY <1>1 DEF PeerBye, PeerCancel
<1>4. CASE OnPeerHangup(w, <<Service(t), Sm(t, "none")>>)
  <2>1. /\ WorldOK(w) /\ ChanOK(w.ch, w.leg)
        /\ OuterOK(w.tr, w.ch, <<Service(t), Sm(t, "none")>>, FALSE)
    BY <1>2, WithNIST
  <2> HIDE DEF w
  <2> QED
    BY <1>4, <2>1, OnPeerHangupOK
<1>5. CASE Becomes(Respond(w, t, "3456xx")) /\ stack' = <<Sm(t, "none")>>
  <2>1. PICK kind \in {"IST", "NIST"}, state \in {"Trying", "Proceeding"} :
          kind = "NIST" /\ state = "Trying"
    OBVIOUS
  <2>2. Becomes(Respond(With(t, kind, state, tcp), t, "3456xx")) /\ stack' = <<Sm(t, "none")>>
    BY <1>5, <2>1
  <2> QED
    BY <1>2, <2>1, <2>2, RefuseOK
<1> QED
  BY <1>3, <1>4, <1>5

LEMMA PeerProvisionalOK ==
    ASSUME IInv, NEW t \in Trans, NEW body \in Bodies \cup {None}, PeerProvisional(t, body)
    PROVE  IInv'
<1> DEFINE w == [World EXCEPT !.tr[t].state = "Proceeding"]
           b == IF body = None THEN w.ch.peerBody ELSE body
           y == [w EXCEPT !.ch.dialog = TRUE, !.ch.rang = TRUE, !.ch.peerBody = b]
           d == [w.ch EXCEPT !.dialog = TRUE, !.rang = TRUE, !.peerBody = b]
           c == [d EXCEPT !.state = "RingBack"]
           r == Go(y, "RingBack")
           o == <<Sm(t, "none")>>
<1>1. Idle /\ tr[t].owned /\ tr[t].kind = "ICT"
  BY DEF PeerProvisional, Owned
<1>2. \/ Becomes(w) /\ stack' = o
      \/ ch.state \in {"CallOut", "RingBack"} /\ Calls(r, "RingBack", o)
      \/ ch.state = "Ring" /\ Returns(OnRingBackWhileRing(w), o)
  BY DEF PeerProvisional
<1>3. y = [w EXCEPT !.ch = d]
  OBVIOUS
<1>4. WorldOK(w) /\ w.ch = ch /\ w.leg = leg /\ w.tr[t].owned
  <2>1. PICK W : W = World
    OBVIOUS
  <2>2. WorldOK(W) /\ W.tr[t].owned /\ W.ch = ch /\ W.leg = leg
    BY <1>1, <2>1, WorldIs
  <2> DEFINE x == [W EXCEPT !.tr[t].state = "Proceeding"]
  <2>3. OnlyTrans(W, x, t) /\ x.tr[t].owned
    BY <2>2, SetStateIs
  <2>4. w = x
    BY <2>1
  <2> HIDE DEF w, x
  <2> QED
    BY <2>2, <2>3, <2>4 DEF OnlyTrans
<1> HIDE DEF w
<1>5. OuterOK(w.tr, w.ch, o, FALSE)
  BY <1>4 DEF OuterOK, SmOK
<1>6. w \in Worlds /\ w.ch \in ChannelType /\ w.leg \in LegType /\ ChanOK(w.ch, w.leg)
  BY <1>4, WorldIs DEF WorldOK, Worlds
<1> HIDE DEF o
<1>7. CASE Becomes(w) /\ stack' = o
  <2>1. ch.state # "Terminate"
    BY <1>1, IdleIs, WorldIs
  <2>2. OuterOK(w.tr, w.ch, o, TRUE)
    BY <1>5, OuterCalm
  <2>3. StackOK(w.tr, w.ch, stack')
    BY <1>4, <1>7, <2>1, <2>2 DEF StackOK
  <2> QED
    BY <1>4, <1>6, <1>7, <2>3, BecomesIs
<1>8. CASE ch.state \in {"CallOut", "RingBack"} /\ Calls(r, "RingBack", o)
  <2>1. c \in ChannelType /\ c.ict = w.ch.ict /\ c.ist = w.ch.ist
    BY <1>6 DEF ChannelType
  <2>2. ChanOK(c, w.leg)
    <3>1. /\ c.state = "RingBack" /\ c.retry = w.ch.retry /\ c.rang = TRUE
          /\ c.free = w.ch.free /\ c.retries = w.ch.retries
      BY <1>6 DEF ChannelType
    <3>2. w.ch.free = FALSE
      BY <1>4, <1>6, <1>8, FreeChannelType DEF ChanOK, ChannelType
    <3> HIDE DEF c
    <3> QED
      BY <1>4, <1>6, <1>8, <3>1, <3>2 DEF ChanOK
  <2> HIDE DEF y, d
  <2>3. y = Put(w, d, w.leg)
    BY <1>3, <1>6, ChPut
  <2>4. r = Put(w, c, w.leg)
    BY <2>3, GoPut
  <2> HIDE DEF c, r
  <2> QED
    BY <1>4, <1>5, <1>6, <1>8, <2>1, <2>2, <2>4, ChanStep DEF AppCallbacks
<1>9. CASE ch.state = "Ring" /\ Returns(OnRingBackWhileRing(w), o)
  <2> DEFINE e == [w.ch EXCEPT !.dialog = TRUE]
             v == OnRingBackWhileRing(w)
  <2>1. w.ch.ist # None
    BY <1>4, <1>6, <1>9 DEF ChanOK
  <2>2. e \in ChannelType /\ e.ict = w.ch.ict /\ e.ist = w.ch.ist
    BY <1>6 DEF ChannelType
  <2>3. ChanOK(e, w.leg)
    <3>1. /\ e.state = "Ring" /\ e.retry = w.ch.retry /\ e.callout = w.ch.callout
          /\ e.free = w.ch.free /\ e.retries = w.ch.retries
      BY <1>4, <1>6, <1>9 DEF ChannelType
    <3>2. w.ch.free = FALSE
      BY <1>4, <1>6, <1>9, FreeChannelType DEF ChanOK, ChannelType
    <3> HIDE DEF e
    <3> QED
      BY <1>4, <1>6, <1>9, <2>1, <2>2, <3>1, <3>2 DEF ChanOK
  <2>4. v = Put(w, e, w.leg)
    BY <1>4, <2>1, OnRingBackIs
  <2> HIDE DEF e, v
  <2>5. Returns(v, o)
    BY <1>9 DEF v
  <2> QED
    BY <1>4, <1>5, <1>6, <2>2, <2>3, <2>4, <2>5, ChanStep
<1> QED
  BY <1>2, <1>7, <1>8, <1>9

(* The world stays as it is, the stack gets what the Execute of t has to do.*)
LEMMA NothingOK ==
    ASSUME IInv, Idle, NEW o, OuterOK(tr, ch, o, FALSE), Becomes(World), stack' = o
    PROVE  IInv'
<1>1. OuterOK(tr, ch, o, TRUE)
  BY OuterCalm
<1>2. StackOK(World.tr, World.ch, stack')
  BY <1>1, IdleIs, WorldIs DEF StackOK
<1> QED
  BY <1>2, WorldIs, BecomesIs

(* The call of the channel is over, and the application hears of it.        *)
LEMMA EndsOK ==
    ASSUME NEW w, WorldOK(w), ChanOK(w.ch, w.leg), w.ch.state # "Ready", ~w.ch.retry,
           NEW o, OuterOK(w.tr, w.ch, o, FALSE), NEW cb \in AppCallbacks,
           Calls(Hears(Go(w, "Terminate")), cb, o)
    PROVE  IInv'
<1> DEFINE c == [w.ch EXCEPT !.state = "Terminate"]
           v == Hears(Go(w, "Terminate"))
<1>1. w \in Worlds /\ w.ch \in ChannelType /\ w.leg \in LegType
  BY DEF WorldOK, Worlds
<1>2. c \in ChannelType /\ c.ict = w.ch.ict /\ c.ist = w.ch.ist
  BY <1>1 DEF ChannelType
<1>3. ChanOK(c, HeardLeg(w.leg)) /\ HeardLeg(w.leg) \in LegType
  <2>1. c.state = "Terminate" /\ c.free = w.ch.free /\ ~c.retry
    BY <1>1 DEF ChannelType
  <2>2. HeardLeg(w.leg) \notin {"open", "silent"} /\ HeardLeg(w.leg) \in LegType
    BY <1>1, LegTypes DEF ChanOK
  <2> HIDE DEF c
  <2> QED
    BY <1>1, <2>1, <2>2, TerminatedChan
<1> HIDE DEF c
<1>4. Go(w, "Terminate") = Put(w, c, w.leg)
  BY <1>1, GoIs DEF c
<1>5. v = Put(w, c, HeardLeg(w.leg))
  BY <1>4, LegsPut
<1>6. Calls(v, cb, o)
  OBVIOUS
<1> HIDE DEF v
<1> QED
  BY <1>2, <1>3, <1>5, <1>6, ChanStep

LEMMA PeerAnswerOK ==
    ASSUME IInv, NEW t \in Trans, NEW body \in Bodies \cup {None}, PeerAnswer(t, body)
    PROVE  IInv'
<1>1. Idle /\ tr[t].owned /\ tr[t].kind = "ICT"
  BY DEF PeerAnswer, Owned
<1>2. OuterOK(tr, ch, <<Sm(t, "Terminated")>>, FALSE)
  BY <1>1 DEF OuterOK, SmOK
<1>3. \/ OnSetup(World, body, <<Sm(t, "Terminated")>>)
      \/ Becomes(World) /\ stack' = <<Sm(t, "Terminated")>>
  BY DEF PeerAnswer
<1> QED
  BY <1>1, <1>2, <1>3, WorldIs, OnSetupOK, NothingOK

LEMMA PeerErrorOK ==
    ASSUME IInv, NEW t \in Trans, PeerError(t)
    PROVE  IInv'
<1>1. Idle /\ tr[t].owned /\ tr[t].kind = "ICT"
  BY DEF PeerError, Owned
<1>2. OuterOK(tr, ch, <<Sm(t, "Completed")>>, FALSE)
  BY <1>1 DEF OuterOK, SmOK
<1>3. CASE ch.ict = t /\ ch.state \in {"CallOut", "RingBack"}
  <2>1. Calls(Hears(Go(World, "Terminate")), "Error", <<Sm(t, "Completed")>>)
    BY <1>3 DEF PeerError
  <2>2. ch.state # "Ready" /\ ~ch.retry
    BY <1>3, WorldIs DEF ChanOK
  <2>3. OuterOK(World.tr, World.ch, <<Sm(t, "Completed")>>, FALSE)
    BY <1>2, WorldIs
  <2> QED
    BY <2>1, <2>2, <2>3, WorldIs, EndsOK DEF AppCallbacks
<1>4. CASE ~(ch.ict = t /\ ch.state \in {"CallOut", "RingBack"})
  <2>1. Becomes(World) /\ stack' = <<Sm(t, "Completed")>>
    BY <1>4 DEF PeerError
  <2> QED
    BY <1>1, <1>2, <2>1, NothingOK
<1> QED
  BY <1>3, <1>4

LEMMA CalloutTimerOK ==
    ASSUME IInv, CalloutTimer
    PROVE  IInv'
<1> DEFINE w == [World EXCEPT !.ch.callout = FALSE]
           c == [World.ch EXCEPT !.callout = FALSE]
<1>1. /\ Idle /\ ch.callout
      /\ ch.state = "CallOut" => Calls(Hears(Go(w, "Terminate")), "Timeout", <<>>)
      /\ ch.state # "CallOut" => Returns(w, <<>>)
  BY DEF CalloutTimer
<1>2. w = [World EXCEPT !.ch = c]
  OBVIOUS
<1>3. /\ c \in ChannelType /\ c.ict = ch.ict /\ c.ist = ch.ist /\ c.state = ch.state
      /\ c.retry = ch.retry /\ c.callout = FALSE /\ c.free = ch.free /\ c.rang = ch.rang
      /\ c.retries = ch.retries
  BY WorldIs DEF ChannelType
<1> HIDE DEF w, c
<1>4. w = Put(World, c, leg)
  BY <1>2, WorldIs, ChPut
<1>5. /\ ChanOK(ch, leg) /\ ch.state \in {"CallOut", "RingBack"} /\ ch.free = FALSE
      /\ ch.retry = FALSE
  <2>1. ChanOK(ch, leg) /\ ch \in ChannelType /\ ch.state # "Terminate"
    BY <1>1, WorldIs, IdleIs
  <2>2. ch.state \in {"CallOut", "RingBack"} /\ ~ch.retry
    BY <1>1, <2>1 DEF ChanOK
  <2> QED
    BY <2>1, <2>2, FreeChannelType DEF ChanOK, ChannelType
<1>6. ChanOK(c, leg) \/ ch.state = "CallOut"
  BY <1>3, <1>5 DEF ChanOK
<1>7. OuterOK(World.tr, World.ch, <<>>, FALSE)
  BY DEF OuterOK
<1>8. CASE ch.state = "CallOut"
  <2> DEFINE d == [c EXCEPT !.state = "Terminate"]
             v == Hears(Go(w, "Terminate"))
  <2>1. /\ d \in ChannelType /\ d.ict = ch.ict /\ d.ist = ch.ist
        /\ d.state = "Terminate" /\ d.retry = FALSE /\ d.free = FALSE
    BY <1>3, <1>5 DEF ChannelType
  <2>2. HeardLeg(leg) \in LegType /\ HeardLeg(leg) \notin {"open", "silent"}
    BY <1>5, WorldIs, LegTypes DEF ChanOK
  <2>3. ChanOK(d, HeardLeg(leg))
    BY <2>1, <2>2 DEF ChanOK
  <2> HIDE DEF d
  <2>4. Go(w, "Terminate") = Put(World, d, leg)
    BY <1>4, GoPut DEF d
  <2>5. v = Put(World, d, HeardLeg(leg))
    BY <2>4, LegsPut
  <2>6. Calls(v, "Timeout", <<>>)
    BY <1>1, <1>8
  <2> HIDE DEF v
  <2>7. WorldOK(World) /\ d.ict = World.ch.ict /\ d.ist = World.ch.ist
    BY <2>1, WorldIs
  <2> QED
    BY <1>7, <2>1, <2>2, <2>3, <2>5, <2>6, <2>7, ChanStep DEF AppCallbacks
<1>9. CASE ch.state # "CallOut"
  <2>1. Returns(w, <<>>)
    BY <1>1, <1>9
  <2>2. WorldOK(World) /\ c.ict = World.ch.ict /\ c.ist = World.ch.ist /\ leg \in LegType
    BY <1>3, WorldIs
  <2> QED
    BY <1>3, <1>4, <1>6, <1>7, <1>9, <2>1, <2>2, ChanStep
<1> QED
  BY <1>8, <1>9

LEMMA RetryTimerOK ==
    ASSUME IInv, RetryTimer
    PROVE  IInv'
<1>0. /\ ChanOK(ch, leg) /\ ch \in ChannelType /\ WorldOK(World) /\ World \in Worlds
      /\ leg \in LegType /\ World.ch = ch /\ World.leg = leg
  BY WorldIs
<1>1. ch.retry /\ ch.state = "Accept" /\ ch.free = FALSE /\ ch.retries \in 0 .. MaxRetries
  <2>1. ch.retry /\ ch.state = "Accept"
    BY <1>0 DEF RetryTimer, ChanOK
  <2> QED
    BY <1>0, <2>1, FreeChannelType DEF ChanOK, ChannelType
<1>2. OuterOK(World.tr, World.ch, <<>>, FALSE)
  BY DEF OuterOK
<1>3. CASE ch.retries < MaxRetries
  <2> DEFINE v == [World EXCEPT !.ch.retries = World.ch.retries + 1]
             c == [World.ch EXCEPT !.retries = World.ch.retries + 1]
  <2>1. Returns(v, <<>>)
    BY <1>1, <1>3 DEF RetryTimer, MaxRetries
  <2>2. v = [World EXCEPT !.ch = c]
    OBVIOUS
  <2>3. /\ c \in ChannelType /\ c.ict = ch.ict /\ c.ist = ch.ist /\ c.state = "Accept"
        /\ c.retry = ch.retry /\ c.callout = ch.callout /\ c.free = ch.free
        /\ c.retries = ch.retries + 1 /\ c.waived = ch.waived
    <3>1. World.ch.retries + 1 = ch.retries + 1 /\ ch.retries + 1 \in 0 .. MaxRetries + 1
      BY <1>0, <1>1 DEF MaxRetries
    <3> QED
      BY <1>0, <1>1, <3>1 DEF ChannelType
  <2> HIDE DEF v, c
  <2>4. v = Put(World, c, leg)
    BY <1>0, <2>2, ChPut
  <2>5. ChanOK(c, leg)
    BY <1>0, <1>1, <1>3, <2>3 DEF ChanOK, MaxRetries
  <2> QED
    BY <1>0, <1>2, <2>1, <2>3, <2>4, <2>5, ChanStep
<1>4. CASE ~(ch.retries < MaxRetries)
  <2> DEFINE n == World.ch.retries + 1
             x == [[World EXCEPT !.ch.retry = FALSE] EXCEPT !.ch.retries = n]
             d == [World.ch EXCEPT !.retry = FALSE, !.retries = n]
             e == [d EXCEPT !.retry = FALSE]
             c == [e EXCEPT !.state = "Terminate"]
             v == Hears(OnOnHook(x))
  <2>1. Calls(v, "EndCall", <<>>)
    <3> DEFINE z == [World EXCEPT !.ch.retry = FALSE]
    <3>1. ch.retries >= MaxRetries
      BY <1>1, <1>4 DEF MaxRetries
    <3>2. Calls(Hears(OnOnHook([z EXCEPT !.ch.retries = z.ch.retries + 1])), "EndCall", <<>>)
      BY <1>1, <1>4, <3>1 DEF RetryTimer
    <3>3. z.ch.retries = World.ch.retries
      BY <1>0 DEF Worlds, ChannelType
    <3>4. [z EXCEPT !.ch.retries = z.ch.retries + 1] = x
      BY <3>3
    <3> HIDE DEF z, x
    <3> QED
      BY <3>2, <3>4
  <2>2. x = [World EXCEPT !.ch = d]
    BY <1>0 DEF Worlds
  <2>3. /\ c \in ChannelType /\ c.ict = ch.ict /\ c.ist = ch.ist /\ c.state = "Terminate"
        /\ c.retry = FALSE /\ c.free = ch.free /\ d.state = "Accept" /\ d.ict = ch.ict
        /\ d.ist = ch.ist /\ d \in ChannelType
    <3>1. n \in 0 .. MaxRetries + 1
      BY <1>0, <1>1 DEF MaxRetries
    <3> HIDE DEF n
    <3> QED
      BY <1>0, <1>1, <3>1 DEF ChannelType
  <2> HIDE DEF x, d
  <2>4. x = Put(World, d, leg)
    BY <1>0, <2>2, ChPut
  <2>5. OnOnHook(x) = Go([x EXCEPT !.ch = [x.ch EXCEPT !.retry = FALSE]], "Terminate")
    <3>1. x.ch.state = "Accept"
      BY <2>3, <2>4 DEF Put
    <3> QED
      BY <3>1 DEF OnOnHook
  <2>6. [x EXCEPT !.ch = [x.ch EXCEPT !.retry = FALSE]] = Put(World, e, leg)
    <3>1. x.ch = d
      BY <2>4 DEF Put
    <3>2. [x EXCEPT !.ch = [x.ch EXCEPT !.retry = FALSE]] = [x EXCEPT !.ch = e]
      BY <3>1
    <3> HIDE DEF e
    <3> QED
      BY <2>4, <3>2 DEF Put
  <2>7. OnOnHook(x) = Put(World, c, leg)
    <3> HIDE DEF e
    <3>1. OnOnHook(x) = Go(Put(World, e, leg), "Terminate")
      BY <2>5, <2>6
    <3> QED
      BY <3>1, GoPut
  <2> HIDE DEF e, c
  <2>8. v = Put(World, c, HeardLeg(leg))
    BY <2>7, LegsPut
  <2>9. HeardLeg(leg) \in LegType /\ HeardLeg(leg) \notin {"open", "silent"}
    BY <1>0, LegTypes DEF ChanOK
  <2>10. ChanOK(c, HeardLeg(leg))
    BY <1>1, <2>3, <2>9 DEF ChanOK
  <2> HIDE DEF v
  <2> QED
    BY <1>0, <1>2, <2>1, <2>3, <2>8, <2>9, <2>10, ChanStep DEF AppCallbacks
<1> QED
  BY <1>3, <1>4

LEMMA TransTimerOK ==
    ASSUME IInv, NEW t \in Trans, TransTimer(t)
    PROVE  IInv'
<1> DEFINE v == EndTrans(World, t)
<1>1. Idle /\ tr[t].owned /\ Becomes(v) /\ stack' = <<>>
  BY DEF TransTimer, Owned, Idle
<1>2. WorldOK(World) /\ World.tr[t].owned
  BY <1>1, WorldIs
<1>3. OnlyTrans(World, v, t)
  BY <1>2, EndTransIs
<1> HIDE DEF v
<1>4. WorldOK(v) /\ ChanOK(v.ch, v.leg) /\ v.ch = ch
  BY <1>3, WorldIs DEF OnlyTrans
<1>5. StackOK(v.tr, v.ch, stack')
  BY <1>1, <1>4, IdleIs, WorldIs DEF StackOK, OuterOK
<1> QED
  BY <1>1, <1>4, <1>5, BecomesIs
-----------------------------------------------------------------------------
(* The INVITE in a new transaction.                                         *)
LEMMA InviteIs ==
    ASSUME NEW w, WorldOK(w), NEW t \in Trans, w.tr[t].life # "live"
    PROVE  LET v == Invite(w, t)
           IN  /\ WorldOK(v) /\ v.ch = [w.ch EXCEPT !.ict = t, !.state = "CallOut"]
               /\ v.leg = w.leg /\ v.bad = w.bad
               /\ \A u \in Trans : w.tr[u].owned => SameRow(w.tr[u], v.tr[u])
<1>1. PICK kind \in {"ICT", "IST", "NIST"}, state \in {"Trying", "Proceeding"}, tcp \in BOOLEAN :
        kind = "ICT" /\ state = "Trying" /\ tcp = FALSE
  OBVIOUS
<1> DEFINE x == [w EXCEPT !.tr[t] = NewTrans(kind, state, tcp)]
           y == SetICT(x, t)
           v == Go(y, "CallOut")
<1>2. /\ WorldOK(x) /\ x.ch = w.ch /\ x.bad = w.bad /\ x.leg = w.leg
      /\ \A u \in Trans : u # t => x.tr[u] = w.tr[u]
      /\ x.tr[t].kind = "ICT" /\ x.tr[t].life = "live"
      /\ t \notin {w.ch.ict, w.ch.ist} /\ ~w.tr[t].owned
  BY <1>1, NewTransIs
<1>3. Invite(w, t) = v
  BY <1>1 DEF Invite
<1> HIDE DEF x
<1>4. /\ WorldOK(y) /\ y.ch = [w.ch EXCEPT !.ict = t] /\ y.bad = w.bad /\ y.leg = w.leg
      /\ SameTrans(x, y)
  BY <1>2, SetICTIs
<1> HIDE DEF y
<1> DEFINE c == [y.ch EXCEPT !.state = "CallOut"]
<1>5. y \in Worlds /\ y.ch \in ChannelType /\ y.leg \in LegType
  BY <1>4 DEF WorldOK, Worlds
<1>6. c \in ChannelType /\ c.ict = y.ch.ict /\ c.ist = y.ch.ist
  BY <1>5 DEF ChannelType
<1>7. c = [w.ch EXCEPT !.ict = t, !.state = "CallOut"]
  BY <1>2, <1>4 DEF WorldOK, Worlds, ChannelType
<1>8. v = Put(y, c, y.leg)
  BY <1>5, GoIs
<1> HIDE DEF c, v
<1>9. WorldOK(v) /\ v.ch = c /\ v.tr = y.tr /\ v.bad = y.bad /\ v.leg = y.leg
  <2>1. WorldOK(y) /\ y.leg \in LegType /\ c \in ChannelType /\ c.ict = y.ch.ict /\ c.ist = y.ch.ist
    BY <1>4, <1>5, <1>6
  <2> QED
    BY <1>8, <2>1, PutIs
<1>10. \A u \in Trans : w.tr[u].owned => SameRow(w.tr[u], v.tr[u])
  BY <1>2, <1>4, <1>9 DEF SameTrans
<1> QED
  BY <1>3, <1>4, <1>7, <1>9, <1>10

LEMMA InviteFailsIs ==
    ASSUME NEW w \in Worlds, NEW how
    PROVE  InviteFails(w, how) = Put(w, [w.ch EXCEPT !.state = "Terminate"], how)
<1>1. [w EXCEPT !.leg = how] = Put(w, w.ch, how)
  BY DEF Worlds, Put
<1> QED
  BY <1>1, GoPut DEF InviteFails

(* The channel whose INVITE is out.                                         *)
LEMMA CallingChan ==
    ASSUME NEW c \in ChannelType, NEW l, NEW m, ChanOK(c, l), m # "silent", NEW d,
           ~d.retry, ~d.free, d.state = "CallOut", d.callout \/ d.rang, d.retries = c.retries,
           c.state # "Terminate"
    PROVE  ChanOK(d, m)
BY DEF ChanOK, ChannelType

LEMMA InUse ==
    ASSUME NEW c \in ChannelType, NEW l, ChanOK(c, l), c.state # "Ready"
    PROVE  c.free = FALSE
BY FreeChannelType DEF ChanOK, ChannelType

LEMMA PeerChallengeOK ==
    ASSUME IInv, NEW t \in Trans, NEW n \in Trans, PeerChallenge(t, n)
    PROVE  IInv'
<1> DEFINE o == <<Sm(t, "Completed")>>
<1>0. /\ ChanOK(ch, leg) /\ ch \in ChannelType /\ WorldOK(World) /\ World \in Worlds
      /\ leg \in LegType /\ World.ch = ch /\ World.leg = leg /\ World.tr = tr
  BY WorldIs
<1>1. /\ tr[t].owned /\ tr[t].kind = "ICT" /\ World.tr[n].life # "live"
      /\ ch.state \in {"CallOut", "RingBack"}
      /\ Returns(Invite(World, n), o) \/ Returns(InviteFails(World, "failed"), o)
  BY WorldIs DEF PeerChallenge, Owned, Fresh
<1>2. OuterOK(World.tr, World.ch, o, FALSE)
  BY <1>0, <1>1 DEF OuterOK, SmOK
<1> HIDE DEF o
<1>3. ch.free = FALSE /\ ~ch.retry
  BY <1>0, <1>1, InUse DEF ChanOK
<1>4. CASE Returns(Invite(World, n), o)
  <2> DEFINE v == Invite(World, n)
  <2>1. /\ WorldOK(v) /\ v.ch = [ch EXCEPT !.ict = n, !.state = "CallOut"] /\ v.leg = leg
        /\ \A u \in Trans : tr[u].owned => SameRow(tr[u], v.tr[u])
    BY <1>0, <1>1, InviteIs
  <2> HIDE DEF v
  <2>2. /\ v.ch.state = "CallOut" /\ v.ch.retry = ch.retry /\ v.ch.free = ch.free
        /\ v.ch.callout = ch.callout /\ v.ch.rang = ch.rang /\ v.ch.retries = ch.retries
    BY <1>0, <2>1 DEF ChannelType
  <2>3. ChanOK(v.ch, v.leg)
    BY <1>0, <1>1, <1>3, <2>1, <2>2 DEF ChanOK
  <2>4. OuterOK(v.tr, v.ch, o, TRUE)
    BY <1>0, <1>2, <2>1, OuterKept
  <2> QED
    BY <1>4, <2>1, <2>3, <2>4, ReturnsIs DEF v
<1>5. CASE Returns(InviteFails(World, "failed"), o)
  <2> DEFINE c == [ch EXCEPT !.state = "Terminate"]
             v == InviteFails(World, "failed")
  <2>1. v = Put(World, c, "failed")
    BY <1>0, InviteFailsIs
  <2>2. /\ c \in ChannelType /\ c.ict = ch.ict /\ c.ist = ch.ist /\ c.state = "Terminate"
        /\ c.retry = ch.retry /\ c.free = ch.free
    BY <1>0 DEF ChannelType
  <2>3. ChanOK(c, "failed")
    BY <1>3, <2>2 DEF ChanOK
  <2>4. Returns(v, o)
    BY <1>5
  <2> HIDE DEF c, v
  <2> QED
    BY <1>0, <1>2, <2>1, <2>2, <2>3, <2>4, ChanStep DEF LegType
<1> QED
  BY <1>1, <1>4, <1>5
-----------------------------------------------------------------------------
(* The application calls the channel from the dispatch loop or from inside  *)
(* a callback that is not the one of an unfinished re-INVITE.               *)
LEMMA AppStack ==
    ASSUME IInv, NEW api, May(api)
    PROVE  \E o : OuterOK(tr, ch, o, FALSE) /\ Outer \in {o, Push2("done", o)}
<1>1. CASE Idle
  BY <1>1 DEF Outer, OuterOK
<1>2. CASE ~Idle
  <2>1. /\ stack # <<>> /\ Head(stack).call = "app" /\ api \in AppMay[Head(stack).arg]
        /\ Outer = <<App("done")>> \o Tail(stack)
    BY <1>2 DEF May, Waits, Outer
  <2>2. Head(stack).arg \notin {"InCallSetup", "done"}
    BY <2>1, AppAssumption
  <2>3. ASSUME OuterOK(tr, ch, stack, TRUE) PROVE FALSE
    <3>1. CASE \E t, after : stack = <<Sm(t, after)>>
      BY <2>1, <3>1 DEF Sm
    <3>2. CASE \E t : stack = <<Service(t), Sm(t, "none")>>
      BY <2>1, <3>2 DEF Service
    <3> QED
      BY <2>1, <2>3, <3>1, <3>2 DEF OuterOK
  <2>4. ASSUME NEW o, stack = Push1(o), OuterOK(tr, ch, o, TRUE) PROVE FALSE
    <3>1. Head(stack) = Leaving
      BY <2>4, Outers
    <3> QED
      BY <2>1, <3>1 DEF Leaving, Chan
  <2>5. ASSUME NEW o, NEW cb \in AppCallbacks, stack = Push2(cb, o), OuterOK(tr, ch, o, cb = "done")
        PROVE  OuterOK(tr, ch, o, FALSE) /\ Outer = Push2("done", o)
    <3>1. Head(stack) = App(cb) /\ <<App("done")>> \o Tail(stack) = Push2("done", o)
      BY <2>5, Outers
    <3>2. cb # "done"
      BY <2>2, <3>1 DEF App
    <3> QED
      BY <2>1, <2>5, <3>1, <3>2
  <2>6. ASSUME NEW b \in Bodies \cup {None},
               stack \in {<<Chan("answer", b), Sm(ch.ist, "none")>>,
                          <<App("InCallSetup"), Chan("answer", b), Sm(ch.ist, "none")>>}
        PROVE  FALSE
    BY <2>1, <2>2, <2>6 DEF Chan, App
  <2> QED
    BY <2>3, <2>4, <2>5, <2>6 DEF IInv, StackOK
<1> QED
  BY <1>1, <1>2

LEMMA ApiOK ==
    ASSUME IInv, NEW api, May(api), NEW w, WorldOK(w), ChanOK(w.ch, w.leg),
           \A u \in Trans : tr[u].owned => SameRow(tr[u], w.tr[u]), Returns(w, Outer)
    PROVE  IInv'
<1>1. PICK o : OuterOK(tr, ch, o, FALSE) /\ Outer \in {o, Push2("done", o)}
  BY AppStack
<1>2. OuterOK(w.tr, w.ch, o, TRUE)
  BY <1>1, OuterKept
<1> QED
  BY <1>1, <1>2, ReturnsIs

(* An API call that only changes the channel and the leg.                   *)
LEMMA ApiPut ==
    ASSUME IInv, NEW api, May(api), NEW c \in ChannelType, NEW l \in LegType,
           c.ict = ch.ict, c.ist = ch.ist, ChanOK(c, l), NEW v, v = Put(World, c, l),
           Returns(v, Outer)
    PROVE  IInv'
<1>1. WorldOK(v) /\ v.ch = c /\ v.tr = tr /\ v.leg = l
  BY WorldIs, PutIs
<1>2. \A u \in Trans : tr[u].owned => SameRow(tr[u], v.tr[u])
  BY <1>1 DEF SameRow
<1> QED
  BY <1>1, <1>2, ApiOK

LEMMA OutCallOK ==
    ASSUME IInv, NEW t \in Trans, NEW sdp \in BOOLEAN, OutCall(t, sdp)
    PROVE  IInv'
<1> DEFINE y == [Opens(World) EXCEPT !.ch.free = FALSE, !.ch.myBody = sdp]
           c == [ch EXCEPT !.free = FALSE, !.myBody = sdp]
           a == Invite(y, t)
           v == [a EXCEPT !.ch.callout = TRUE]
<1>0. /\ ChanOK(ch, leg) /\ ch \in ChannelType /\ WorldOK(World) /\ World \in Worlds
      /\ leg \in LegType /\ World.ch = ch /\ World.leg = leg /\ World.tr = tr
  BY WorldIs
<1>1. /\ May("OutCall") /\ tr[t].life # "live" /\ ch = FreeChannel
      /\ Returns(v, Outer) \/ Returns(InviteFails(y, "unstarted"), Outer)
  BY <1>0 DEF OutCall, Fresh, ChanOK
<1>2. y = Put(World, c, "open")
  <2> DEFINE x == Opens(World)
  <2>1. x = Put(World, ch, "open")
    BY <1>0 DEF Opens, Worlds, Put
  <2>2. y = [x EXCEPT !.ch = [x.ch EXCEPT !.free = FALSE, !.myBody = sdp]]
    OBVIOUS
  <2> HIDE DEF x, y
  <2>3. x.ch = ch
    BY <2>1 DEF Put
  <2>4. y = [x EXCEPT !.ch = c]
    BY <2>2, <2>3
  <2> HIDE DEF c
  <2> QED
    BY <2>1, <2>4 DEF Put
<1>3. /\ c \in ChannelType /\ c.ict = ch.ict /\ c.ist = ch.ist /\ c.free = FALSE
      /\ c.retry = FALSE /\ c.retries = 0 /\ c.callout = FALSE
  <2>1. ch.retry = FALSE /\ ch.retries = 0 /\ ch.callout = FALSE
    BY <1>1 DEF FreeChannel
  <2> QED
    BY <1>0, <2>1 DEF ChannelType
<1> HIDE DEF y, c
<1>4. WorldOK(y) /\ y.ch = c /\ y.tr = tr /\ y.leg = "open"
  BY <1>0, <1>2, <1>3, PutIs DEF LegType
<1>5. CASE Returns(v, Outer)
  <2>1. /\ WorldOK(a) /\ a.ch = [c EXCEPT !.ict = t, !.state = "CallOut"] /\ a.leg = "open"
        /\ \A u \in Trans : tr[u].owned => SameRow(tr[u], a.tr[u])
    BY <1>1, <1>4, InviteIs
  <2> HIDE DEF a
  <2> DEFINE d == [a.ch EXCEPT !.callout = TRUE]
  <2>2. v = [a EXCEPT !.ch = d]
    OBVIOUS
  <2>3. /\ d \in ChannelType /\ d.ict = a.ch.ict /\ d.ist = a.ch.ist /\ d.state = "CallOut"
        /\ d.callout = TRUE /\ d.retry = FALSE /\ d.free = FALSE /\ d.retries = 0
    <3>1. a.ch \in ChannelType
      BY <2>1 DEF WorldOK, Worlds
    <3>2. /\ a.ch.state = "CallOut" /\ a.ch.retry = FALSE /\ a.ch.free = FALSE /\ a.ch.retries = 0
      BY <1>3, <2>1 DEF ChannelType
    <3> QED
      BY <3>1, <3>2 DEF ChannelType
  <2> HIDE DEF d, v
  <2>4. WorldOK(a) /\ a \in Worlds /\ a.leg = "open" /\ a.leg \in LegType
    BY <2>1 DEF WorldOK, LegType
  <2>5. v = Put(a, d, a.leg)
    BY <2>2, <2>4, ChPut
  <2>6. WorldOK(v) /\ v.ch = d /\ v.tr = a.tr /\ v.leg = "open"
    BY <2>3, <2>4, <2>5, PutIs
  <2>7. ChanOK(v.ch, v.leg)
    BY <2>3, <2>6 DEF ChanOK, MaxRetries
  <2>8. \A u \in Trans : tr[u].owned => SameRow(tr[u], v.tr[u])
    BY <2>1, <2>6
  <2> QED
    BY <1>1, <1>5, <2>6, <2>7, <2>8, ApiOK
<1>6. CASE Returns(InviteFails(y, "unstarted"), Outer)
  <2> DEFINE x == InviteFails(y, "unstarted")
             d == [c EXCEPT !.state = "Terminate"]
  <2>1. x = Put(y, d, "unstarted")
    BY <1>4, InviteFailsIs DEF WorldOK
  <2>2. /\ d \in ChannelType /\ d.ict = ch.ict /\ d.ist = ch.ist /\ d.state = "Terminate"
        /\ d.retry = FALSE /\ d.free = FALSE /\ d.retries = 0 /\ d.callout = FALSE
    BY <1>3 DEF ChannelType
  <2> HIDE DEF d, x
  <2>3. x = Put(World, d, "unstarted")
    BY <1>2, <2>1 DEF Put
  <2>4. ChanOK(d, "unstarted")
    BY <2>2 DEF ChanOK
  <2>5. Returns(x, Outer)
    BY <1>6 DEF x
  <2> QED
    BY <1>1, <2>2, <2>3, <2>4, <2>5, ApiPut DEF LegType
<1> QED
  BY <1>1, <1>5, <1>6

LEMMA ReInviteOK ==
    ASSUME IInv, NEW t \in Trans, ReInvite(t)
    PROVE  IInv'
<1> DEFINE a == Invite(World, t)
           v == [a EXCEPT !.ch.callout = TRUE, !.ch.rang = FALSE, !.ch.reinvite = TRUE]
<1>0. /\ ChanOK(ch, leg) /\ ch \in ChannelType /\ WorldOK(World) /\ World \in Worlds
      /\ leg \in LegType /\ World.ch = ch /\ World.leg = leg /\ World.tr = tr
  BY WorldIs
<1>1. /\ May("ReInvite") /\ tr[t].life # "live" /\ ch.state = "Setup"
      /\ Returns(v, Outer) \/ Returns(InviteFails(World, "failed"), Outer)
  BY DEF ReInvite, Fresh
<1>2. ch.free = FALSE /\ ch.retry = FALSE /\ ch.retries <= MaxRetries
  BY <1>0, <1>1, InUse DEF ChanOK, ChannelType
<1>3. CASE Returns(v, Outer)
  <2>1. /\ WorldOK(a) /\ a.ch = [ch EXCEPT !.ict = t, !.state = "CallOut"] /\ a.leg = leg
        /\ \A u \in Trans : tr[u].owned => SameRow(tr[u], a.tr[u])
    BY <1>0, <1>1, InviteIs
  <2> HIDE DEF a
  <2> DEFINE d == [a.ch EXCEPT !.callout = TRUE, !.rang = FALSE, !.reinvite = TRUE]
  <2>2. v = [a EXCEPT !.ch = d]
    OBVIOUS
  <2>3. /\ d \in ChannelType /\ d.ict = a.ch.ict /\ d.ist = a.ch.ist /\ d.state = "CallOut"
        /\ d.callout = TRUE /\ d.retry = FALSE /\ d.free = FALSE /\ d.retries = ch.retries
    <3>1. a.ch \in ChannelType
      BY <2>1 DEF WorldOK, Worlds
    <3>2. /\ a.ch.state = "CallOut" /\ a.ch.retry = FALSE /\ a.ch.free = FALSE
          /\ a.ch.retries = ch.retries
      BY <1>0, <1>2, <2>1 DEF ChannelType
    <3> QED
      BY <3>1, <3>2 DEF ChannelType
  <2> HIDE DEF d, v
  <2>4. WorldOK(a) /\ a \in Worlds /\ a.leg = leg /\ a.leg \in LegType
    BY <1>0, <2>1 DEF WorldOK
  <2>5. v = Put(a, d, a.leg)
    BY <2>2, <2>4, ChPut
  <2>6. WorldOK(v) /\ v.ch = d /\ v.tr = a.tr /\ v.leg = leg
    BY <2>3, <2>4, <2>5, PutIs
  <2>7. ChanOK(v.ch, v.leg)
    BY <1>0, <1>2, <2>3, <2>6 DEF ChanOK
  <2>8. \A u \in Trans : tr[u].owned => SameRow(tr[u], v.tr[u])
    BY <2>1, <2>6
  <2> QED
    BY <1>1, <1>3, <2>6, <2>7, <2>8, ApiOK
<1>4. CASE Returns(InviteFails(World, "failed"), Outer)
  <2> DEFINE x == InviteFails(World, "failed")
             d == [ch EXCEPT !.state = "Terminate"]
  <2>1. x = Put(World, d, "failed")
    BY <1>0, InviteFailsIs
  <2>2. /\ d \in ChannelType /\ d.ict = ch.ict /\ d.ist = ch.ist /\ d.state = "Terminate"
        /\ d.retry = FALSE /\ d.free = FALSE
    BY <1>0, <1>2 DEF ChannelType
  <2>3. Returns(x, Outer)
    BY <1>4
  <2> HIDE DEF d, x
  <2>4. ChanOK(d, "failed")
    BY <2>2 DEF ChanOK
  <2> QED
    BY <1>1, <2>1, <2>2, <2>3, <2>4, ApiPut DEF LegType
<1> QED
  BY <1>1, <1>3, <1>4

LEMMA RingBackOK ==
    ASSUME IInv, RingBack
    PROVE  IInv'
<1> DEFINE e == [World.ch EXCEPT !.dialog = TRUE]
           v == OnRingBackWhileRing(World)
<1>0. /\ ChanOK(ch, leg) /\ ch \in ChannelType /\ WorldOK(World) /\ World \in Worlds
      /\ leg \in LegType /\ World.ch = ch /\ World.leg = leg
  BY WorldIs
<1>1. May("RingBack") /\ ch.state = "Ring" /\ Returns(v, Outer)
  BY DEF RingBack
<1>2. World.ch.ist # None
  BY <1>0, <1>1 DEF ChanOK
<1>3. /\ e \in ChannelType /\ e.ict = ch.ict /\ e.ist = ch.ist /\ e.state = "Ring"
      /\ e.retry = ch.retry /\ e.callout = ch.callout /\ e.free = ch.free /\ e.retries = ch.retries
  BY <1>0, <1>1 DEF ChannelType
<1>4. v = Put(World, e, leg)
  BY <1>0, <1>2, OnRingBackIs
<1> HIDE DEF e, v
<1>5. ch.free = FALSE
  BY <1>0, <1>1, InUse
<1>6. ChanOK(e, leg)
  BY <1>0, <1>1, <1>3, <1>5 DEF ChanOK
<1> QED
  BY <1>0, <1>1, <1>3, <1>4, <1>6, ApiPut

LEMMA ByeOK ==
    ASSUME IInv, Bye
    PROVE  IInv'
<1>0. /\ ChanOK(ch, leg) /\ ch \in ChannelType /\ WorldOK(World) /\ World \in Worlds
      /\ leg \in LegType /\ World.ch = ch /\ World.leg = leg
  BY WorldIs
<1>1. /\ May("Bye")
      /\ \/ /\ ch.state \in {"Accept", "Setup", "CallOut", "RingBack"}
            /\ Returns(OnOnHook(Asks(World)), Outer)
         \/ Returns(World, Outer)
  BY DEF Bye
<1>2. CASE Returns(World, Outer)
  <2>1. \A u \in Trans : tr[u].owned => SameRow(tr[u], World.tr[u])
    BY WorldIs DEF SameRow
  <2> QED
    BY <1>0, <1>1, <1>2, <2>1, ApiOK
<1>3. CASE /\ ch.state \in {"Accept", "Setup", "CallOut", "RingBack"}
           /\ Returns(OnOnHook(Asks(World)), Outer)
  <2> DEFINE x == Asks(World)
             r == IF ch.state = "Accept" THEN FALSE ELSE ch.retry
             d == [ch EXCEPT !.retry = r]
             c == [d EXCEPT !.state = "Terminate"]
             v == OnOnHook(x)
  <2>1. x = Put(World, ch, AskedLeg(leg))
    BY <1>0 DEF Asks, AskedLeg, Worlds, Put
  <2>2. r = FALSE
    BY <1>0, <1>3 DEF ChanOK, ChannelType
  <2>3. /\ c \in ChannelType /\ c.ict = ch.ict /\ c.ist = ch.ist /\ c.state = "Terminate"
        /\ c.retry = FALSE /\ c.free = ch.free
    <3> HIDE DEF r
    <3> QED
      BY <1>0, <2>2 DEF ChannelType
  <2>4. v = Go([x EXCEPT !.ch = d], "Terminate")
    <3>1. x.ch = ch
      BY <2>1 DEF Put
    <3>2. v = Go([x EXCEPT !.ch = [x.ch EXCEPT !.retry = IF x.ch.state = "Accept" THEN FALSE
                                                         ELSE x.ch.retry]], "Terminate")
      BY DEF OnOnHook
    <3> HIDE DEF x
    <3> QED
      BY <3>1, <3>2
  <2>5. Returns(v, Outer)
    BY <1>3
  <2> HIDE DEF x, d, v
  <2>6. [x EXCEPT !.ch = d] = Put(World, d, AskedLeg(leg))
    BY <2>1 DEF Put
  <2>7. v = Put(World, c, AskedLeg(leg))
    BY <2>4, <2>6, GoPut
  <2> HIDE DEF c
  <2>8. AskedLeg(leg) \in LegType /\ AskedLeg(leg) \notin {"open", "silent"}
    BY <1>0, LegTypes DEF ChanOK
  <2>9. ChanOK(c, AskedLeg(leg))
    BY <1>0, <1>3, <2>3, <2>8, TerminatedChan
  <2> QED
    BY <1>1, <2>3, <2>5, <2>7, <2>8, <2>9, ApiPut
<1> QED
  BY <1>1, <1>2, <1>3

LEMMA AnswerOK ==
    ASSUME IInv, NEW class \in Classes, NEW sdp \in BOOLEAN, Answer(class, sdp)
    PROVE  IInv'
<1> DEFINE w == OnAccept(World, class, sdp)
<1>0. /\ ChanOK(ch, leg) /\ ch \in ChannelType /\ WorldOK(World) /\ leg \in LegType
      /\ World.ch = ch /\ World.leg = leg /\ World.tr = tr
  BY WorldIs
<1>1. /\ May("Answer") /\ ch.state = "Ring"
      /\ class = "2xx" => Returns(w, Outer)
      /\ class = "3456xx" => Returns(Asks(w), Outer)
      /\ class = "1xx" => Returns([w EXCEPT !.leg = "provisional"], Outer)
  BY DEF Answer
<1>2. World.ch.ist # None /\ ~ch.retry
  BY <1>0, <1>1 DEF ChanOK
<1>3. PICK o : OuterOK(World.tr, World.ch, o, FALSE) /\ Outer \in {o, Push2("done", o)}
  BY <1>0, <1>1, AppStack
<1> DEFINE accepted == [ch EXCEPT !.dialog = TRUE, !.myBody = ch.myBody \/ sdp,
                                  !.state = "Accept", !.retry = TRUE, !.waived = FALSE]
           refused == [ch EXCEPT !.dialog = TRUE, !.myBody = ch.myBody \/ sdp, !.state = "Terminate"]
<1>4. /\ WorldOK(w) /\ w.leg = leg /\ Answered(World, w, class)
      /\ class = "2xx" => w.ch = accepted
      /\ class # "2xx" => w.ch = refused
  <2>1. PICK W : W = World
    OBVIOUS
  <2> DEFINE v == OnAccept(W, class, sdp)
  <2>2. Accepted(W, v, class, sdp)
    BY <1>0, <1>2, <2>1, OnAcceptIs
  <2>3. w = v
    BY <2>1
  <2>4. W.ch = ch /\ W.leg = leg
    BY <1>0, <2>1
  <2> HIDE DEF w, v
  <2> QED
    BY <2>1, <2>2, <2>3, <2>4 DEF Accepted
<1> HIDE DEF w, accepted, refused
<1>a. ChanOK(accepted, leg) /\ accepted.ist = ch.ist /\ accepted.state = "Accept"
  <2>1. ch.state \in {"Ring", "Setup", "Accept"}
    BY <1>1
  <2> QED
    BY <1>0, <2>1, AcceptedChan DEF accepted
<1>5. CASE class = "2xx"
  <2>1. ChanOK(w.ch, w.leg) /\ w.ch.ist = World.ch.ist /\ w.ch.state = "Accept"
    BY <1>0, <1>4, <1>5, <1>a
  <2>2. OuterOK(w.tr, w.ch, o, TRUE)
    BY <1>0, <1>2, <1>3, <1>4, <2>1, AnsweredOuter
  <2>3. Returns(w, o) \/ Returns(w, Push2("done", o))
    BY <1>1, <1>3, <1>5
  <2>4. WorldOK(w)
    BY <1>4
  <2> QED
    BY <2>1, <2>2, <2>3, <2>4, ReturnsIs
<1>6. CASE class # "2xx"
  <2>1. PICK l \in LegType : /\ l \notin {"open", "silent"}
                             /\ Returns([w EXCEPT !.leg = l], Outer)
    <3>1. CASE class = "1xx"
      BY <1>1, <3>1 DEF LegType
    <3>2. CASE class = "3456xx"
      <4>1. Asks(w) = [w EXCEPT !.leg = AskedLeg(w.leg)]
        BY DEF Asks, AskedLeg
      <4>2. AskedLeg(w.leg) \in LegType /\ AskedLeg(w.leg) \notin {"open", "silent"}
        BY <1>0, <1>4, LegTypes DEF ChanOK
      <4> QED
        BY <1>1, <3>2, <4>1, <4>2
    <3> QED
      BY <1>6, <3>1, <3>2 DEF Classes
  <2> DEFINE v == [w EXCEPT !.leg = l]
  <2>2. v = Put(w, w.ch, l)
    BY <1>4 DEF WorldOK, Worlds, Put
  <2>3. ChanOK(w.ch, l)
    <3>1. ch.state \in {"Ring", "Setup", "Accept"} /\ w.ch = refused
      BY <1>1, <1>4, <1>6
    <3> QED
      BY <1>0, <1>2, <2>1, <3>1, RefusedChan DEF refused
  <2>4. OuterOK(w.tr, w.ch, o, FALSE)
    BY <1>0, <1>2, <1>3, <1>4, <1>6, RefusedOuter DEF Classes
  <2>5. Returns(v, Outer)
    BY <2>1
  <2>6. w.ch \in ChannelType
    BY <1>4 DEF WorldOK, Worlds
  <2> HIDE DEF v
  <2>7. Returns(v, o) \/ Returns(v, Push2("done", o))
    BY <1>3, <2>5
  <2>8. WorldOK(w)
    BY <1>4
  <2> QED
    BY <2>2, <2>3, <2>4, <2>6, <2>7, <2>8, ChanStep
<1> QED
  BY <1>5, <1>6
-----------------------------------------------------------------------------
(* The innermost waiting call, by its kind, and what waits outside it.      *)
AppTop ==
    \/ \E o : Tail(stack) = Push1(o) /\ OuterOK(tr, ch, o, TRUE)
    \/ \E b \in Bodies \cup {None} :
          /\ ch.ist # None /\ tr[ch.ist].owned /\ ch.state = "Accept" /\ ~ch.retry
          /\ Tail(stack) = <<Chan("answer", b), Sm(ch.ist, "none")>>

ChannelTop ==
    \/ \E o : OuterOK(tr, ch, o, TRUE) /\ Head(stack).arg = "leave" /\ Tail(stack) = o
    \/ \E b \in Bodies \cup {None} :
          /\ ch.ist # None /\ tr[ch.ist].owned /\ ch.state = "Accept" /\ ~ch.retry
          /\ Head(stack).arg = "answer" /\ Head(stack).x = b
          /\ Tail(stack) = <<Sm(ch.ist, "none")>>

ServiceTop ==
    \E t \in Trans : /\ ServiceOK(tr, t) /\ Head(stack).x = t
                     /\ Tail(stack) = <<Sm(t, "none")>> /\ ch.state # "Terminate"

TransactionTop ==
    \E t \in Trans, after \in {"none", "Terminated", "Completed"} :
        /\ SmOK(tr, ch, t, after, TRUE) /\ Head(stack).x = t /\ Head(stack).arg = after
        /\ Tail(stack) = <<>> /\ ch.state # "Terminate"

LEMMA CallKinds ==
    /\ \A cb : App(cb).call = "app"
    /\ \A r, b : Chan(r, b).call = "channel" /\ Chan(r, b).arg = r /\ Chan(r, b).x = b
    /\ Leaving.call = "channel" /\ Leaving.arg = "leave"
    /\ \A t : Service(t).call = "service" /\ Service(t).x = t
    /\ \A t, a : Sm(t, a).call = "transaction" /\ Sm(t, a).x = t /\ Sm(t, a).arg = a
BY DEF App, Chan, Leaving, Service, Sm

LEMMA Innermost ==
    ASSUME IInv, stack # <<>>
    PROVE  \/ Head(stack).call = "app" /\ AppTop
           \/ Head(stack).call = "channel" /\ ChannelTop
           \/ Head(stack).call = "service" /\ ServiceTop
           \/ Head(stack).call = "transaction" /\ TransactionTop
<1>1. ASSUME OuterOK(tr, ch, stack, TRUE), ch.state # "Terminate"
      PROVE  \/ Head(stack).call = "service" /\ ServiceTop
             \/ Head(stack).call = "transaction" /\ TransactionTop
  <2>1. CASE \E t \in Trans : stack = <<Service(t), Sm(t, "none")>> /\ ServiceOK(tr, t)
    <3>1. PICK t \in Trans : stack = <<Service(t), Sm(t, "none")>> /\ ServiceOK(tr, t)
      BY <2>1
    <3>2. Head(stack) = Service(t) /\ Tail(stack) = <<Sm(t, "none")>>
      BY <3>1
    <3> QED
      BY <1>1, <3>1, <3>2, CallKinds DEF ServiceTop
  <2>2. CASE \E t \in Trans, after \in {"none", "Terminated", "Completed"} :
               stack = <<Sm(t, after)>> /\ SmOK(tr, ch, t, after, TRUE)
    <3>1. PICK t \in Trans, after \in {"none", "Terminated", "Completed"} :
            stack = <<Sm(t, after)>> /\ SmOK(tr, ch, t, after, TRUE)
      BY <2>2
    <3>2. Head(stack) = Sm(t, after) /\ Tail(stack) = <<>>
      BY <3>1
    <3>3. /\ Head(stack).call = "transaction" /\ Head(stack).x = t /\ Head(stack).arg = after
      BY <3>2, CallKinds
    <3> QED
      BY <1>1, <3>1, <3>2, <3>3 DEF TransactionTop
  <2> QED
    BY <1>1, <2>1, <2>2 DEF OuterOK
<1>2. ASSUME NEW o, stack = Push1(o), OuterOK(tr, ch, o, TRUE)
      PROVE  Head(stack).call = "channel" /\ ChannelTop
  <2>1. Head(stack) = Leaving /\ Tail(stack) = o
    BY <1>2, Outers
  <2> QED
    BY <1>2, <2>1, CallKinds DEF ChannelTop
<1>3. ASSUME NEW o, NEW cb, stack = Push2(cb, o), OuterOK(tr, ch, o, cb = "done")
      PROVE  Head(stack).call = "app" /\ AppTop
  <2>1. OuterOK(tr, ch, o, TRUE)
    BY <1>3 DEF OuterOK, SmOK
  <2>2. Head(Push2(cb, o)) = App(cb) /\ Tail(Push2(cb, o)) = Push1(o)
    BY <2>1, Outers
  <2> QED
    BY <1>3, <2>1, <2>2, CallKinds DEF AppTop
<1>4. ASSUME NEW b \in Bodies \cup {None}, stack = <<Chan("answer", b), Sm(ch.ist, "none")>>,
             ch.ist # None, tr[ch.ist].owned, ch.state = "Accept", ~ch.retry
      PROVE  Head(stack).call = "channel" /\ ChannelTop
  <2>1. Head(stack) = Chan("answer", b) /\ Tail(stack) = <<Sm(ch.ist, "none")>>
    BY <1>4
  <2>2. /\ Head(stack).call = "channel" /\ Head(stack).arg = "answer" /\ Head(stack).x = b
    BY <2>1, CallKinds
  <2> QED
    BY <1>4, <2>1, <2>2 DEF ChannelTop
<1>5. ASSUME NEW b \in Bodies \cup {None},
             stack = <<App("InCallSetup"), Chan("answer", b), Sm(ch.ist, "none")>>,
             ch.ist # None, tr[ch.ist].owned, ch.state = "Accept", ~ch.retry
      PROVE  Head(stack).call = "app" /\ AppTop
  <2>1. Head(stack) = App("InCallSetup") /\ Tail(stack) = <<Chan("answer", b), Sm(ch.ist, "none")>>
    BY <1>5
  <2> QED
    BY <1>5, <2>1, CallKinds DEF AppTop
<1> QED
  BY <1>1, <1>2, <1>3, <1>4, <1>5 DEF IInv, StackOK

LEMMA AppReturnsOK ==
    ASSUME IInv, AppReturns
    PROVE  IInv'
<1>1. /\ stack # <<>> /\ Head(stack).call = "app" /\ stack' = Tail(stack) /\ Becomes(World)
  BY DEF AppReturns, Waits, Becomes, World
<1>2. StackOK(tr, ch, Tail(stack))
  <2>1. AppTop
    BY <1>1, Innermost
  <2> QED
    BY <2>1 DEF AppTop, StackOK
<1> QED
  BY <1>1, <1>2, WorldIs, BecomesIs

LEMMA ChannelReturnsOK ==
    ASSUME IInv, ChannelReturns
    PROVE  IInv'
<1>1. stack # <<>> /\ Head(stack).call = "channel"
  BY DEF ChannelReturns, Waits
<1>2. ChannelTop
  BY <1>1, Innermost
<1>3. ASSUME NEW o, OuterOK(tr, ch, o, TRUE), Head(stack).arg = "leave", Tail(stack) = o
      PROVE  IInv'
  <2>1. Returns(World, o)
    BY <1>3 DEF ChannelReturns
  <2> QED
    BY <1>3, <2>1, WorldIs, ReturnsIs
<1>4. ASSUME NEW b \in Bodies \cup {None}, ch.ist # None, tr[ch.ist].owned, ch.state = "Accept",
             ~ch.retry, Head(stack).arg = "answer", Head(stack).x = b,
             Tail(stack) = <<Sm(ch.ist, "none")>>
      PROVE  IInv'
  <2> DEFINE o == <<Sm(ch.ist, "none")>>
  <2>1. OnInCallWhileSetup(World, b, o)
    BY <1>4 DEF ChannelReturns
  <2>2. ch.ist \in Trans
    BY <1>4, WorldIs DEF ChannelType
  <2>3. OuterOK(World.tr, World.ch, o, FALSE)
    BY <1>4, <2>2, WorldIs DEF OuterOK, SmOK
  <2> HIDE DEF o
  <2> QED
    BY <1>4, <2>1, <2>3, WorldIs, OnInCallWhileSetupOK
<1> QED
  BY <1>2, <1>3, <1>4 DEF ChannelTop

LEMMA ServiceReturnsOK ==
    ASSUME IInv, ServiceReturns
    PROVE  IInv'
<1>1. stack # <<>> /\ Head(stack).call = "service"
  BY DEF ServiceReturns, Waits
<1>a. ServiceTop
  BY <1>1, Innermost
<1>2. PICK t \in Trans : /\ ServiceOK(tr, t) /\ Head(stack).x = t
                         /\ Tail(stack) = <<Sm(t, "none")>> /\ ch.state # "Terminate"
  BY <1>a DEF ServiceTop
<1> DEFINE v == Respond(World, t, "2xx")
<1>3. Becomes(v) /\ stack' = <<Sm(t, "none")>>
  BY <1>2 DEF ServiceReturns
<1>4. World.tr[t] \in Row /\ World.tr[t].life = "live" /\ WorldOK(World) /\ World.tr = tr
  BY <1>2, WorldIs DEF ServiceOK, WorldOK, TransOK, RowOK, Row
<1>5. PICK class \in Classes : class = "2xx"
  BY DEF Classes
<1>6. /\ OnlyTrans(World, v, t)
      /\ World.tr[t].owned /\ ~v.tr[t].owned =>
            \/ World.tr[t].state = "Proceeding" /\ class = "2xx"
            \/ World.tr[t].state = "Trying" /\ World.tr[t].tcp
  BY <1>4, <1>5, RespondIs
<1> HIDE DEF v
<1>7. WorldOK(v) /\ ChanOK(v.ch, v.leg) /\ v.ch = ch
  BY <1>6, WorldIs DEF OnlyTrans
<1>8. OuterOK(v.tr, v.ch, <<Sm(t, "none")>>, TRUE)
  BY <1>2, <1>4, <1>6 DEF OuterOK, SmOK, ServiceOK
<1>9. StackOK(v.tr, v.ch, stack')
  BY <1>2, <1>3, <1>7, <1>8 DEF StackOK
<1> QED
  BY <1>3, <1>7, <1>9, BecomesIs

LEMMA TransactionReturnsOK ==
    ASSUME IInv, TransactionReturns
    PROVE  IInv'
<1>1. stack # <<>> /\ Head(stack).call = "transaction"
  BY DEF TransactionReturns, Waits
<1>a. TransactionTop
  BY <1>1, Innermost
<1>2. PICK t \in Trans, after \in {"none", "Terminated", "Completed"} :
        /\ SmOK(tr, ch, t, after, TRUE) /\ Head(stack).x = t /\ Head(stack).arg = after
        /\ Tail(stack) = <<>> /\ ch.state # "Terminate"
  BY <1>a DEF TransactionTop
<1>3. /\ Misused(World, t) => Becomes(Used(World, t))
      /\ ~Misused(World, t) /\ after = "Terminated" => Becomes(EndTrans(World, t))
      /\ ~Misused(World, t) /\ after = "Completed" =>
            Becomes([World EXCEPT !.tr[t].state = "Completed"])
      /\ ~Misused(World, t) /\ after = "none" => Becomes(World)
      /\ stack' = <<>>
  BY <1>2 DEF TransactionReturns
<1>0. /\ WorldOK(World) /\ World \in Worlds /\ World.tr = tr /\ World.ch = ch
      /\ ChanOK(World.ch, World.leg) /\ t # None
  BY WorldIs, CallAssumption
<1>4. \A c : c.state # "Terminate" => \A T : StackOK(T, c, stack')
  BY <1>3 DEF StackOK, OuterOK
<1>5. World.tr[t].life = "live" \/ "TCP" \in Transports
  <2>1. RowOK(World.tr[t], One(World.ch.ict = t) + One(World.ch.ist = t)) /\ World.tr[t] \in Row
    BY <1>0 DEF WorldOK, Worlds, TransOK
  <2>2. World.tr[t].owned \/ World.ch.ist = t \/ "TCP" \in Transports
    BY <1>0, <1>2 DEF SmOK
  <2> QED
    BY <2>1, <2>2 DEF RowOK, One, Row
<1>6. CASE Misused(World, t)
  <2> DEFINE v == Used(World, t)
  <2>1. "TCP" \in Transports /\ v = [World EXCEPT !.bad = "deleted"]
    BY <1>0, <1>5, <1>6, UsedLive DEF Used
  <2>2. v \in Worlds /\ v.ch = World.ch /\ v.tr = World.tr /\ v.leg = World.leg
    BY <1>0, <2>1 DEF Worlds, Misuses
  <2> HIDE DEF v
  <2>3. WorldOK(v) /\ ChanOK(v.ch, v.leg) /\ StackOK(v.tr, v.ch, stack')
    BY <1>0, <1>2, <1>4, <2>2 DEF WorldOK
  <2> QED
    BY <1>3, <1>6, <2>3, BecomesIs DEF v
<1>7. CASE ~Misused(World, t) /\ after = "Terminated"
  <2> DEFINE v == EndTrans(World, t)
  <2>1. World.tr[t].owned
    BY <1>0, <1>2, <1>7 DEF SmOK
  <2>2. OnlyTrans(World, v, t)
    BY <1>0, <2>1, EndTransIs
  <2> HIDE DEF v
  <2>3. WorldOK(v) /\ ChanOK(v.ch, v.leg) /\ StackOK(v.tr, v.ch, stack')
    BY <1>0, <1>2, <1>4, <2>2 DEF OnlyTrans
  <2> QED
    BY <1>3, <1>7, <2>3, BecomesIs DEF v
<1>8. CASE ~Misused(World, t) /\ after = "Completed"
  <2>0. PICK W : W = World
    OBVIOUS
  <2> DEFINE v == [W EXCEPT !.tr[t].state = "Completed"]
  <2>1. WorldOK(W) /\ W.tr[t].owned
    BY <1>0, <1>2, <1>8, <2>0 DEF SmOK
  <2>2. OnlyTrans(W, v, t)
    BY <2>1, SetStateIs
  <2>3. Becomes(v)
    BY <1>3, <1>8, <2>0
  <2> HIDE DEF v
  <2>4. WorldOK(v) /\ ChanOK(v.ch, v.leg) /\ StackOK(v.tr, v.ch, stack')
    BY <1>0, <1>2, <1>4, <2>0, <2>2 DEF OnlyTrans
  <2> QED
    BY <2>3, <2>4, BecomesIs
<1>9. CASE ~Misused(World, t) /\ after = "none"
  <2>1. StackOK(World.tr, World.ch, stack')
    BY <1>0, <1>2, <1>4
  <2> QED
    BY <1>0, <1>3, <1>9, <2>1, BecomesIs
<1> QED
  BY <1>6, <1>7, <1>8, <1>9
-----------------------------------------------------------------------------
LEMMA InitOK == Init => IInv
<1> SUFFICES ASSUME Init PROVE IInv
  OBVIOUS
<1>1. ch = FreeChannel /\ tr = [t \in Trans |-> Unused] /\ stack = <<>> /\ bad = "none" /\ leg = "none"
  BY DEF Init
<1>2. Unused \in Row /\ RowOK(Unused, 0)
  BY DEF Unused, Row, RowOK, One
<1>3. World \in Worlds
  <2>1. ch \in ChannelType /\ tr \in [Trans -> Row] /\ bad \in Misuses /\ leg \in LegType
    BY <1>1, <1>2, FreeChannelType DEF Misuses, LegType
  <2> QED
    BY <2>1 DEF World, Worlds
<1>4. TransOK(tr, None, None)
  <2>1. \A t \in Trans : tr[t] = Unused /\ One(None = t) + One(None = t) = 0
    BY <1>1, CallAssumption DEF One
  <2> QED
    BY <1>2, <2>1 DEF TransOK
<1>5. WorldOK(World)
  BY <1>1, <1>3, <1>4, FreeChannelType DEF World, WorldOK
<1>6. ChanOK(ch, leg)
  BY <1>1 DEF ChanOK, FreeChannel, MaxRetries
<1>7. StackOK(tr, ch, stack)
  BY <1>1, FreeChannelType DEF StackOK, OuterOK
<1> QED
  BY <1>5, <1>6, <1>7 DEF IInv

LEMMA NetworkOK == IInv /\ Network => IInv'
<1> SUFFICES ASSUME IInv, Network PROVE IInv'
  OBVIOUS
<1>1. ASSUME NEW t \in Trans, NEW b \in Bodies \cup {None},
             PeerInvite(t, b) \/ PeerReInvite(t, b) \/ PeerProvisional(t, b) \/ PeerAnswer(t, b)
      PROVE  IInv'
  BY <1>1, PeerInviteOK, PeerReInviteOK, PeerProvisionalOK, PeerAnswerOK
<1>2. ASSUME NEW t \in Trans, NEW p \in Transports,
             PeerBye(t, p = "TCP") \/ PeerCancel(t, p = "TCP")
      PROVE  IInv'
  BY <1>2, PeerByeOK
<1>3. ASSUME NEW b \in Bodies \cup {None}, PeerAck(b) PROVE IInv'
  BY <1>3, PeerAckOK
<1>4. ASSUME NEW t \in Trans, PeerError(t) \/ \E n \in Trans : PeerChallenge(t, n)
      PROVE  IInv'
  BY <1>4, PeerErrorOK, PeerChallengeOK
<1> QED
  BY <1>1, <1>2, <1>3, <1>4 DEF Network

LEMMA Inductive == IInv /\ [Next]_vars => IInv'
<1> SUFFICES ASSUME IInv, [Next]_vars PROVE IInv'
  OBVIOUS
<1>1. CASE Network
  BY <1>1, NetworkOK
<1>2. CASE Application
  <2>1. ASSUME NEW t \in Trans, NEW sdp \in BOOLEAN, OutCall(t, sdp) PROVE IInv'
    BY <2>1, OutCallOK
  <2>2. ASSUME NEW t \in Trans, ReInvite(t) PROVE IInv'
    BY <2>2, ReInviteOK
  <2>3. ASSUME NEW class \in Classes, NEW sdp \in BOOLEAN, Answer(class, sdp) PROVE IInv'
    BY <2>3, AnswerOK
  <2>4. RingBack \/ Bye => IInv'
    BY RingBackOK, ByeOK
  <2> QED
    BY <1>2, <2>1, <2>2, <2>3, <2>4 DEF Application, Classes
<1>3. CASE Unwind
  BY <1>3, AppReturnsOK, ChannelReturnsOK, ServiceReturnsOK, TransactionReturnsOK DEF Unwind
<1>4. CASE CalloutTimer \/ RetryTimer \/ \E t \in Trans : TransTimer(t)
  BY <1>4, CalloutTimerOK, RetryTimerOK, TransTimerOK
<1>5. CASE UNCHANGED vars
  BY <1>5 DEF vars, IInv, World
<1> QED
  BY <1>1, <1>2, <1>3, <1>4, <1>5 DEF Next

(* The invariant of the model: the rows, the channel and the stack.         *)
THEOREM Invariant == Spec => []IInv
<1>1. Init => IInv
  BY InitOK
<1>2. IInv /\ [Next]_vars => IInv'
  BY Inductive
<1> QED
  BY <1>1, <1>2, PTL DEF Spec
-----------------------------------------------------------------------------
(* Every step keeps the types of the channel, the transactions, the misuse  *)
(* seen and the application's view; a count of references never passes 2    *)
(* and m_2xxRetryTimes never passes 8.                                      *)
THEOREM TypeCorrect == Spec => []TypeOK
<1>1. IInv => TypeOK
  <2> SUFFICES ASSUME IInv PROVE TypeOK
    OBVIOUS
  <2>1. ch \in ChannelType /\ tr \in [Trans -> Row] /\ leg \in LegType /\ WorldOK(World)
    BY WorldIs
  <2>2. bad \in {"none", "null", "deleted"}
    BY DEF IInv, WorldOK, Worlds, World, Misuses
  <2>3. \A t \in Trans : tr[t] \in TransType
    <3> SUFFICES ASSUME NEW t \in Trans PROVE tr[t] \in TransType
      OBVIOUS
    <3>1. tr[t] \in Row /\ RowOK(tr[t], One(ch.ict = t) + One(ch.ist = t))
      BY <2>1, WorldIs DEF WorldOK, TransOK
    <3>2. tr[t].refs \in 0 .. 2
      BY <3>1 DEF RowOK, One, Row
    <3> QED
      BY <3>1, <3>2 DEF Row, TransType
  <2> QED
    BY <2>1, <2>2, <2>3 DEF TypeOK, LegType
<1> QED
  BY <1>1, Invariant, PTL

LEMMA SlotsAre ==
    ASSUME ch \in ChannelType, NEW t \in Trans, ~(ch.ict = t /\ ch.ist = t)
    PROVE  Slots(t) = One(ch.ict = t) + One(ch.ist = t)
<1> DEFINE S == {s \in {"ict", "ist"} : ch[s] = t}
<1>0. Slots(t) = Cardinality(S)
  BY DEF Slots
<1>1. CASE ch.ict = t
  <2>1. S = {"ict"}
    BY <1>1
  <2>2. Cardinality({"ict"}) = 1
    BY FS_Singleton
  <2> QED
    BY <1>0, <1>1, <2>1, <2>2 DEF One
<1>2. CASE ch.ist = t
  <2>1. S = {"ist"}
    BY <1>2
  <2>2. Cardinality({"ist"}) = 1
    BY FS_Singleton
  <2> QED
    BY <1>0, <1>2, <2>1, <2>2 DEF One
<1>3. CASE ch.ict # t /\ ch.ist # t
  <2>1. S = {}
    BY <1>3
  <2> QED
    BY <1>0, <1>3, <2>1, FS_EmptySet DEF One
<1> QED
  BY <1>1, <1>2, <1>3

(* However the calls nest, the reference count of every transaction is the  *)
(* number of its owners less one, and without an owner it is deleted.       *)
THEOREM OwnershipHolds == Spec => []Ownership
<1>1. IInv => Ownership
  <2> SUFFICES ASSUME IInv, NEW t \in Trans
               PROVE  LET owners == Slots(t) + (IF tr[t].owned THEN 1 ELSE 0)
                      IN  /\ (tr[t].life = "live") <=> (owners > 0)
                          /\ tr[t].life = "live" => tr[t].refs + 1 = owners
    BY DEF Ownership
  <2>1. /\ tr[t] \in Row /\ RowOK(tr[t], One(ch.ict = t) + One(ch.ist = t))
        /\ ~(ch.ict = t /\ ch.ist = t) /\ ch \in ChannelType
    BY WorldIs, CallAssumption DEF WorldOK, TransOK
  <2>2. Slots(t) = One(ch.ict = t) + One(ch.ist = t)
    BY <2>1, SlotsAre
  <2> QED
    BY <2>1, <2>2 DEF RowOK, One, Row
<1> QED
  BY <1>1, Invariant, PTL

(* The channel that GetFreeSipChannel hands out is as it was created, and   *)
(* no channel is left neither free nor in a call.                           *)
THEOREM FreeChannelsAreClean == Spec => []FreeChannelIsClean
<1>1. IInv => FreeChannelIsClean
  <2> SUFFICES ASSUME IInv PROVE FreeChannelIsClean
    OBVIOUS
  <2>1. ChanOK(ch, leg) /\ (Idle => ch.state # "Terminate")
    BY WorldIs, IdleIs
  <2> QED
    BY <2>1 DEF ChanOK, FreeChannelIsClean
<1> QED
  BY <1>1, Invariant, PTL

(* The channel's timers are armed exactly in the states that wait for them, *)
(* so a call that waits for an ACK or an answer has the timer that ends it. *)
THEOREM TimersFit == Spec => []TimersFitCall
<1>1. IInv => TimersFitCall
  BY WorldIs DEF ChanOK, TimersFitCall
<1> QED
  BY <1>1, Invariant, PTL

(* The application hears of the end of every call it did not end itself.    *)
THEOREM NoSilentEnd == Spec => []EndOfCallReported
<1>1. IInv => EndOfCallReported
  BY WorldIs DEF ChanOK, EndOfCallReported
<1> QED
  BY <1>1, Invariant, PTL

(* Without TCP no handler uses a transaction that a call made from inside   *)
(* it has deleted, whatever the application does from its callbacks.        *)
THEOREM NoMisuseWithoutTcp ==
    ASSUME "TCP" \notin Transports
    PROVE  Spec => []NoMisuse
<1>1. IInv => NoMisuse
  BY DEF IInv, WorldOK, Worlds, World, Misuses, NoMisuse
<1> QED
  BY <1>1, Invariant, PTL
-----------------------------------------------------------------------------
(***************************************************************************)
(* Call implements Leg.  Leg sees the state of the channel and the         *)
(* callback the application is in, so the proof follows these two through  *)
(* every step: nothing done to transactions and slots touches the state, a *)
(* call that ends at once leaves Terminate for Ready, and one that reaches *)
(* the application shows the callback.  The invariant above says what can  *)
(* be on the stack when the application returns.  The last part follows    *)
(* the INVITE of a ringing channel the same way.                           *)
(***************************************************************************)
(* w has a channel with a state.                                            *)
HasState(w) == "ch" \in DOMAIN w /\ "state" \in DOMAIN w.ch

(* v has the channel state of w, whatever happened to anything else.        *)
Keeps(w, v) == HasState(v) /\ v.ch.state = w.ch.state

LEMMA UsedKeeps ==
    ASSUME NEW w, HasState(w), NEW t
    PROVE  Keeps(w, Used(w, t))
BY DEF HasState, Keeps, Used

LEMMA DeleteTransKeeps ==
    ASSUME NEW w, HasState(w), NEW t
    PROVE  Keeps(w, DeleteTrans(w, t))
BY UsedKeeps DEF HasState, Keeps, DeleteTrans

LEMMA AddRefKeeps ==
    ASSUME NEW w, HasState(w), NEW t
    PROVE  Keeps(w, AddRef(w, t))
BY UsedKeeps DEF HasState, Keeps, AddRef

LEMMA EndTransKeeps ==
    ASSUME NEW w, HasState(w), NEW t
    PROVE  Keeps(w, EndTrans(w, t))
<1> DEFINE v == [w EXCEPT !.tr[t].state = "Ready", !.tr[t].owned = FALSE]
<1>1. Keeps(w, v)
  BY DEF HasState, Keeps
<1> HIDE DEF v
<1>2. Keeps(v, DeleteTrans(v, t))
  BY <1>1, DeleteTransKeeps DEF Keeps
<1> QED
  BY <1>1, <1>2 DEF Keeps, EndTrans, v

LEMMA HeldKeeps ==
    ASSUME NEW w, HasState(w), NEW s, NEW t
    PROVE  Keeps(w, Held(Released(w, s), t))
<1>1. Keeps(w, Released(w, s))
  BY DeleteTransKeeps DEF Released, Keeps
<1>2. Keeps(Released(w, s), Held(Released(w, s), t))
  BY <1>1, AddRefKeeps DEF Held, Keeps
<1> QED
  BY <1>1, <1>2 DEF Keeps

LEMMA SlotKeeps ==
    ASSUME NEW w, HasState(w), NEW t
    PROVE  Keeps(w, SetICT(w, t)) /\ Keeps(w, SetIST(w, t))
<1>1. ASSUME NEW s PROVE Keeps(w, [Held(Released(w, s), t) EXCEPT !.ch.ict = t])
                         /\ Keeps(w, [Held(Released(w, s), t) EXCEPT !.ch.ist = t])
  <2> DEFINE v == Held(Released(w, s), t)
  <2>1. Keeps(w, v)
    BY HeldKeeps
  <2> HIDE DEF v
  <2>2. Keeps(w, [v EXCEPT !.ch.ict = t]) /\ Keeps(w, [v EXCEPT !.ch.ist = t])
    BY <2>1 DEF HasState, Keeps
  <2> QED
    BY <2>2 DEF v
<1> QED
  BY <1>1 DEF SetICT, SetIST

LEMMA RespondKeeps ==
    ASSUME NEW w, HasState(w), NEW t, NEW class
    PROVE  Keeps(w, Respond(w, t, class))
<1>1. Keeps(w, [w EXCEPT !.tr[t].state = "Completed"]) /\ Keeps(w, w)
  BY DEF HasState, Keeps
<1>2. Keeps(w, Used(w, t)) /\ Keeps(w, EndTrans(w, t))
  BY UsedKeeps, EndTransKeeps
<1> QED
  BY <1>1, <1>2 DEF Respond

LEMMA GoMoves ==
    ASSUME NEW w, HasState(w), NEW s
    PROVE  HasState(Go(w, s)) /\ Go(w, s).ch.state = s
BY DEF HasState, Go

LEMMA LegKeeps ==
    ASSUME NEW w, HasState(w), NEW l
    PROVE  Keeps(w, [w EXCEPT !.leg = l]) /\ Keeps(w, Opens(w)) /\ Keeps(w, Asks(w)) /\ Keeps(w, Hears(w))
BY DEF HasState, Keeps, Opens, Asks, Hears
-----------------------------------------------------------------------------
(* Execute leaves a channel that ended its call free.                       *)
Left(s) == IF s = "Terminate" THEN "Ready" ELSE s

LEMMA LeaveMoves ==
    ASSUME NEW w, HasState(w)
    PROVE  HasState(Leave(w)) /\ Leave(w).ch.state = Left(w.ch.state)
<1>1. CASE w.ch.state # "Terminate"
  BY <1>1 DEF Leave, Left
<1>2. CASE w.ch.state = "Terminate"
  <2>1. Keeps(w, SetICT(w, None))
    BY SlotKeeps
  <2>2. Keeps(w, SetIST(SetICT(w, None), None))
    BY <2>1, SlotKeeps DEF Keeps
  <2> DEFINE v == SetIST(SetICT(w, None), None)
             c == [FreeChannel EXCEPT !.retry = w.ch.retry]
             l == IF v.leg = "open" THEN "silent"
                  ELSE IF v.leg \in {"asked", "told"} THEN "none" ELSE v.leg
  <2>3. "state" \in DOMAIN c /\ c.state = "Ready"
    BY DEF FreeChannel
  <2>4. Leave(w) = [v EXCEPT !.ch = c, !.leg = l]
    BY <1>2 DEF Leave, FreeRes, Freed
  <2>5. HasState(v)
    BY <2>2 DEF Keeps
  <2> HIDE DEF v, c, l
  <2> QED
    BY <1>2, <2>3, <2>4, <2>5 DEF HasState, Left
<1> QED
  BY <1>1, <1>2

LEMMA ReturnsMoves ==
    ASSUME NEW w, HasState(w), NEW o, Returns(w, o)
    PROVE  ch'.state = Left(w.ch.state) /\ stack' = o
BY LeaveMoves DEF Returns, Becomes

(* The calls that wait outside the channel's Execute, whatever they wait    *)
(* for.                                                                     *)
Plain(o) ==
    \/ o = <<>>
    \/ \E t \in Trans, after \in {"none", "Terminated", "Completed"} : o = <<Sm(t, after)>>
    \/ \E t \in Trans : o = <<Service(t), Sm(t, "none")>>

LEMMA OuterPlain ==
    ASSUME NEW T, NEW c, NEW o, NEW calm, OuterOK(T, c, o, calm)
    PROVE  Plain(o)
BY DEF OuterOK, Plain

LEMMA PlainOuter ==
    ASSUME NEW o, Plain(o)
    PROVE  \E T, c : OuterOK(T, c, o, FALSE)
<1> DEFINE Rows(kind) == [u \in Trans |-> [Unused EXCEPT !.owned = TRUE, !.kind = kind, !.state = "Trying"]]
<1>1. CASE o = <<>>
  BY <1>1 DEF OuterOK
<1>2. CASE \E t \in Trans, after \in {"none", "Terminated", "Completed"} : o = <<Sm(t, after)>>
  <2>1. PICK t \in Trans, after \in {"none", "Terminated", "Completed"} : o = <<Sm(t, after)>>
    BY <1>2
  <2>2. Rows("ICT")[t].owned /\ Rows("ICT")[t].kind = "ICT"
    BY DEF Unused
  <2> HIDE DEF Rows
  <2>3. SmOK(Rows("ICT"), FreeChannel, t, after, FALSE)
    BY <2>2 DEF SmOK
  <2>4. OuterOK(Rows("ICT"), FreeChannel, o, FALSE)
    BY <2>1, <2>3 DEF OuterOK
  <2> QED
    BY <2>4
<1>3. CASE \E t \in Trans : o = <<Service(t), Sm(t, "none")>>
  <2>1. PICK t \in Trans : o = <<Service(t), Sm(t, "none")>>
    BY <1>3
  <2>2. LET r == Rows("NIST")[t]
        IN  r.owned /\ r.kind = "NIST" /\ r.state = "Trying" /\ ~r.tcp
    BY DEF Unused
  <2> HIDE DEF Rows
  <2>3. ServiceOK(Rows("NIST"), t)
    BY <2>2 DEF ServiceOK
  <2>4. OuterOK(Rows("NIST"), FreeChannel, o, FALSE)
    BY <2>1, <2>3 DEF OuterOK
  <2> QED
    BY <2>4
<1> QED
  BY <1>1, <1>2, <1>3 DEF Plain

LEMMA CallsMoves ==
    ASSUME NEW w, HasState(w), NEW cb, NEW o, Calls(w, cb, o), Plain(o)
    PROVE  ch'.state = w.ch.state /\ Event' = cb
<1>1. ch'.state = w.ch.state /\ stack' = Push2(cb, o)
  BY DEF Calls, Becomes, Push2, Leaving
<1>2. PICK T, c : OuterOK(T, c, o, FALSE)
  BY PlainOuter
<1>3. Push2(cb, o) # <<>> /\ Head(Push2(cb, o)) = App(cb)
  BY <1>2, Outers
<1> QED
  BY <1>1, <1>3 DEF Event, Waits, App
-----------------------------------------------------------------------------
(* The moves of the channel's state: those a callback announces, those the  *)
(* application does not hear of, and those its own calls make.              *)
Heard == {<<"Ready", "Incall", "Ring">>, <<"Ring", "EndCall", "Terminate">>,
          <<"Accept", "InCallSetup", "Setup">>, <<"Accept", "InCallSetup", "Accept">>,
          <<"Accept", "ReIncall", "Ring">>, <<"Accept", "EndCall", "Terminate">>,
          <<"CallOut", "RingBack", "RingBack">>, <<"CallOut", "OutCallSetup", "Setup">>,
          <<"CallOut", "Error", "Terminate">>, <<"CallOut", "Timeout", "Terminate">>,
          <<"RingBack", "RingBack", "RingBack">>, <<"RingBack", "OutCallSetup", "Setup">>,
          <<"RingBack", "Error", "Terminate">>, <<"Setup", "ReIncall", "Ring">>,
          <<"Setup", "EndCall", "Terminate">>}

Silent == {<<"Accept", "Setup">>, <<"Accept", "Ready">>, <<"CallOut", "Setup">>,
           <<"CallOut", "Ready">>, <<"RingBack", "Setup">>, <<"RingBack", "CallOut">>,
           <<"RingBack", "Ready">>, <<"Setup", "Accept">>, <<"Setup", "Ready">>,
           <<"Terminate", "Ready">>}

Asked == {<<"Ready", "CallOut">>, <<"Ring", "Accept">>, <<"Ring", "Ready">>,
          <<"Setup", "CallOut">>, <<"Setup", "Ready">>, <<"Accept", "Ready">>,
          <<"CallOut", "Ready">>, <<"RingBack", "Ready">>, <<"Terminate", "Ready">>}

ChannelStates == {"Ready", "Ring", "Accept", "Setup", "CallOut", "RingBack", "Terminate"}

LegStep == [AsLeg!Next]_(AsLeg!vars)

LEMMA PhaseIs ==
    /\ PhaseOf("Ready") = "idle" /\ PhaseOf("Ring") = "offered" /\ PhaseOf("Accept") = "answered"
    /\ PhaseOf("CallOut") = "trying" /\ PhaseOf("RingBack") = "ringing"
    /\ PhaseOf("Setup") = "talking" /\ PhaseOf("Terminate") = "over"
BY DEF PhaseOf

LEMMA HeardStep ==
    ASSUME Event = "none", <<ch.state, Event', ch'.state>> \in Heard
    PROVE  LegStep
<1>1. <<Event', PhaseOf(ch'.state)>> \in AsLeg!Callbacks(PhaseOf(ch.state))
  BY PhaseIs DEF Heard, AsLeg!Callbacks
<1>2. AsLeg!Calls
  BY <1>1 DEF AsLeg!Calls
<1> QED
  BY <1>2 DEF LegStep, AsLeg!Next

LEMMA SilentStep ==
    ASSUME Event = "none", Event' = "none",
           ch'.state = ch.state \/ <<ch.state, ch'.state>> \in Silent
    PROVE  LegStep
<1>1. CASE ch'.state = ch.state
  BY <1>1 DEF LegStep, AsLeg!vars
<1>2. CASE <<ch.state, ch'.state>> \in Silent
  <2>1. PhaseOf(ch'.state) \in AsLeg!Unheard(PhaseOf(ch.state))
    BY <1>2, PhaseIs DEF Silent, AsLeg!Unheard
  <2>2. AsLeg!Changes
    BY <2>1 DEF AsLeg!Changes
  <2> QED
    BY <2>2 DEF LegStep, AsLeg!Next
<1> QED
  BY <1>1, <1>2

LEMMA ReturnedStep ==
    ASSUME Event # "none", Event' = "none", ch' = ch
    PROVE  LegStep
BY DEF LegStep, AsLeg!Next, AsLeg!CallReturns

LEMMA AskedStep ==
    ASSUME Event' = (IF Event = "none" THEN "none" ELSE "done"), ch.state \in ChannelStates,
           ch'.state = ch.state \/ <<ch.state, ch'.state>> \in Asked
    PROVE  LegStep
<1>1. PhaseOf(ch'.state) \in AsLeg!OutCalls(PhaseOf(ch.state)) \cup AsLeg!Answers(PhaseOf(ch.state))
         \cup AsLeg!ReOutCalls(PhaseOf(ch.state)) \cup AsLeg!Byes(PhaseOf(ch.state))
  <2>1. CASE ch'.state = ch.state
    BY <2>1, PhaseIs DEF ChannelStates, AsLeg!OutCalls, AsLeg!ReOutCalls
  <2>2. CASE <<ch.state, ch'.state>> \in Asked
    BY <2>2, PhaseIs DEF Asked, AsLeg!OutCalls, AsLeg!Answers, AsLeg!ReOutCalls, AsLeg!Byes
  <2> QED
    BY <2>1, <2>2
<1>2. AsLeg!AppCalls
  BY <1>1 DEF AsLeg!AppCalls
<1> QED
  BY <1>2 DEF LegStep, AsLeg!Next
-----------------------------------------------------------------------------
(* The application is on top of the stack only while it handles a callback. *)
LEMMA NoEvent ==
    ASSUME Plain(stack')
    PROVE  Event' = "none"
<1>1. CASE stack' = <<>>
  BY <1>1 DEF Event, Waits
<1>2. CASE \E t \in Trans, after \in {"none", "Terminated", "Completed"} : stack' = <<Sm(t, after)>>
  <2>1. PICK t \in Trans, after \in {"none", "Terminated", "Completed"} : stack' = <<Sm(t, after)>>
    BY <1>2
  <2>2. Head(stack') = Sm(t, after)
    BY <2>1
  <2> QED
    BY <2>2, CallKinds DEF Event, Waits
<1>3. CASE \E t \in Trans : stack' = <<Service(t), Sm(t, "none")>>
  <2>1. PICK t \in Trans : stack' = <<Service(t), Sm(t, "none")>>
    BY <1>3
  <2>2. Head(stack') = Service(t)
    BY <2>1
  <2> QED
    BY <2>2, CallKinds DEF Event, Waits
<1> QED
  BY <1>1, <1>2, <1>3 DEF Plain

LEMMA IdleState ==
    ASSUME IInv, Idle
    PROVE  /\ Event = "none" /\ HasState(World) /\ World.ch = ch
           /\ ch.state \in ChannelStates
BY WorldIs DEF Idle, Event, Waits, HasState, ChannelType, ChannelStates, World

(* What a step does to the channel, in the two ways a call of Execute ends. *)
LEMMA ReturnsStep ==
    ASSUME Event = "none", NEW w, HasState(w), NEW o, Returns(w, o), Plain(o),
           \/ Left(w.ch.state) = ch.state
           \/ <<ch.state, Left(w.ch.state)>> \in Silent
    PROVE  LegStep
BY ReturnsMoves, NoEvent, SilentStep

LEMMA CallsStep ==
    ASSUME Event = "none", NEW w, HasState(w), NEW cb, NEW o, Calls(w, cb, o), Plain(o),
           <<ch.state, cb, w.ch.state>> \in Heard
    PROVE  LegStep
BY CallsMoves, HeardStep

LEMMA BecomesStep ==
    ASSUME Event = "none", NEW w, HasState(w), Becomes(w), w.ch.state = ch.state, Plain(stack')
    PROVE  LegStep
BY NoEvent, SilentStep DEF Becomes

LEMMA Plains ==
    /\ Plain(<<>>)
    /\ \A t \in Trans : /\ Plain(<<Sm(t, "none")>>) /\ Plain(<<Sm(t, "Terminated")>>)
                        /\ Plain(<<Sm(t, "Completed")>>) /\ Plain(<<Service(t), Sm(t, "none")>>)
BY DEF Plain

LEMMA RowKeeps ==
    ASSUME NEW w, HasState(w), NEW t, NEW r
    PROVE  Keeps(w, [w EXCEPT !.tr[t] = r])
BY DEF HasState, Keeps

LEMMA WithKeeps ==
    ASSUME IInv, Idle, NEW t, NEW kind, NEW state, NEW tcp
    PROVE  HasState(With(t, kind, state, tcp)) /\ With(t, kind, state, tcp).ch.state = ch.state
BY IdleState, RowKeeps DEF With, Keeps

LEMMA InviteMoves ==
    ASSUME NEW w, HasState(w), NEW t
    PROVE  HasState(Invite(w, t)) /\ Invite(w, t).ch.state = "CallOut"
<1> DEFINE v == [w EXCEPT !.tr[t] = NewTrans("ICT", "Trying", FALSE)]
<1>1. HasState(v)
  BY RowKeeps DEF Keeps
<1> HIDE DEF v
<1>2. HasState(SetICT(v, t))
  BY <1>1, SlotKeeps DEF Keeps
<1> QED
  BY <1>2, GoMoves DEF Invite, v

LEMMA InviteFailsMoves ==
    ASSUME NEW w, HasState(w), NEW how
    PROVE  HasState(InviteFails(w, how)) /\ InviteFails(w, how).ch.state = "Terminate"
BY LegKeeps, GoMoves DEF InviteFails, Keeps

LEMMA OnAcceptMoves ==
    ASSUME NEW w, HasState(w), NEW class, NEW sdp
    PROVE  /\ HasState(OnAccept(w, class, sdp))
           /\ OnAccept(w, class, sdp).ch.state \in
                 {w.ch.state, IF class = "2xx" THEN "Accept" ELSE "Terminate"}
<1> DEFINE x == [w EXCEPT !.ch.dialog = TRUE, !.ch.myBody = @ \/ sdp]
           a == Respond(x, w.ch.ist, class)
           b == [a EXCEPT !.ch.retry = TRUE, !.ch.waived = FALSE]
<1>1. HasState(x)
  BY DEF HasState
<1> HIDE DEF x
<1>2. HasState(a)
  BY <1>1, RespondKeeps DEF Keeps
<1> HIDE DEF a
<1>3. HasState(b)
  BY <1>2 DEF HasState
<1> HIDE DEF b
<1>4. /\ HasState(Go(b, "Accept")) /\ Go(b, "Accept").ch.state = "Accept"
      /\ HasState(Go(a, "Terminate")) /\ Go(a, "Terminate").ch.state = "Terminate"
  BY <1>2, <1>3, GoMoves
<1>5. HasState(Used(w, w.ch.ist)) /\ Used(w, w.ch.ist).ch.state = w.ch.state
  BY UsedKeeps DEF Keeps
<1>6. OnAccept(w, class, sdp) =
        IF Misused(w, w.ch.ist) THEN Used(w, w.ch.ist)
        ELSE IF class = "2xx" THEN Go(b, "Accept") ELSE Go(a, "Terminate")
  BY DEF OnAccept, a, b, x
<1> QED
  BY <1>4, <1>5, <1>6

LEMMA OnOnHookMoves ==
    ASSUME NEW w, HasState(w)
    PROVE  HasState(OnOnHook(w)) /\ OnOnHook(w).ch.state = "Terminate"
BY DEF HasState, OnOnHook, Go

LEMMA OnRingBackKeeps ==
    ASSUME NEW w, HasState(w)
    PROVE  Keeps(w, OnRingBackWhileRing(w))
<1> DEFINE v == Respond(w, w.ch.ist, "1xx")
<1>1. Keeps(w, v)
  BY RespondKeeps
<1> HIDE DEF v
<1>2. Keeps(w, [v EXCEPT !.ch.dialog = TRUE])
  BY <1>1 DEF HasState, Keeps
<1> QED
  BY <1>2 DEF OnRingBackWhileRing, v
-----------------------------------------------------------------------------
(* The handlers that several messages reach, on a channel still in its      *)
(* state before the step.                                                   *)
LEMMA OnSetupStep ==
    ASSUME Event = "none", ch.state \in ChannelStates, NEW w, HasState(w), w.ch.state = ch.state,
           NEW body, NEW o, Plain(o), OnSetup(w, body, o)
    PROVE  LegStep
<1> DEFINE x == [w EXCEPT !.ch.retry = FALSE, !.ch.waived = FALSE]
           y == [w EXCEPT !.ch.callout = FALSE, !.ch.dialog = TRUE,
                          !.ch.peerBody = IF body = None THEN @ ELSE body]
           a == Go(x, "Setup")
           b == Go(y, "Setup")
<1>1. HasState(x) /\ HasState(y)
  BY DEF HasState
<1>2. CASE ch.state = "Accept"
  <2>1. Returns(a, o) \/ Calls(a, "InCallSetup", o)
    BY <1>2 DEF OnSetup
  <2> HIDE DEF x, y
  <2>2. HasState(a) /\ a.ch.state = "Setup"
    BY <1>1, GoMoves
  <2> HIDE DEF a, b
  <2>3. Left("Setup") = "Setup"
    BY DEF Left
  <2>4. <<ch.state, Left(a.ch.state)>> \in Silent
    BY <1>2, <2>2, <2>3 DEF Silent
  <2>5. <<ch.state, "InCallSetup", a.ch.state>> \in Heard
    BY <1>2, <2>2 DEF Heard
  <2> QED
    BY <2>1, <2>2, <2>4, <2>5, ReturnsStep, CallsStep
<1>3. CASE ch.state \in {"CallOut", "RingBack"}
  <2>1. Returns(b, o) \/ Calls(b, "OutCallSetup", o)
    BY <1>3 DEF OnSetup
  <2> HIDE DEF x, y
  <2>2. HasState(b) /\ b.ch.state = "Setup"
    BY <1>1, GoMoves
  <2> HIDE DEF a, b
  <2>3. Left("Setup") = "Setup"
    BY DEF Left
  <2>4. <<ch.state, Left(b.ch.state)>> \in Silent
    BY <1>3, <2>2, <2>3 DEF Silent
  <2>5. <<ch.state, "OutCallSetup", b.ch.state>> \in Heard
    BY <1>3, <2>2 DEF Heard
  <2> QED
    BY <2>1, <2>2, <2>4, <2>5, ReturnsStep, CallsStep
<1>4. CASE ch.state \notin {"Accept", "CallOut", "RingBack"}
  <2>1. Returns(w, o)
    BY <1>4 DEF OnSetup
  <2>2. Left(w.ch.state) = ch.state \/ <<ch.state, Left(w.ch.state)>> \in Silent
    BY DEF Left, Silent, ChannelStates
  <2> QED
    BY <2>1, <2>2, ReturnsStep
<1> QED
  BY <1>2, <1>3, <1>4

LEMMA OnInCallStep ==
    ASSUME Event = "none", ch.state \in {"Setup", "Accept"}, NEW w, HasState(w),
           w.ch.state = ch.state, NEW body, NEW o, Plain(o), OnInCallWhileSetup(w, body, o)
    PROVE  LegStep
<1> DEFINE f == [w EXCEPT !.ch.reinvite = TRUE]
           g == [f EXCEPT !.ch.peerBody = body]
           h == [f EXCEPT !.leg = "noSdp"]
<1>0. HasState(f) /\ f.ch.state = ch.state
  BY DEF HasState
<1>1. /\ HasState(g) /\ g.ch.state = ch.state
      /\ HasState(h) /\ h.ch.state = ch.state
  <2> HIDE DEF f
  <2> QED
    BY <1>0 DEF HasState
<1>2. CASE body = None
  <2>1. Returns(w, o)
    BY <1>2 DEF OnInCallWhileSetup
  <2>2. Left(w.ch.state) = ch.state
    BY DEF Left
  <2> QED
    BY <2>1, <2>2, ReturnsStep
<1>3. CASE body # None /\ w.ch.peerBody \notin {None, body}
  <2>1. Calls(Go(g, "Ring"), "ReIncall", o)
    BY <1>3 DEF OnInCallWhileSetup
  <2> HIDE DEF f, g, h
  <2>2. HasState(Go(g, "Ring")) /\ Go(g, "Ring").ch.state = "Ring"
    BY <1>1, GoMoves
  <2>3. <<ch.state, "ReIncall", Go(g, "Ring").ch.state>> \in Heard
    BY <2>2 DEF Heard
  <2> QED
    BY <2>1, <2>2, <2>3, CallsStep
<1>4. CASE body # None /\ w.ch.peerBody \in {None, body}
  <2>1. Returns(OnAccept(f, "2xx", FALSE), o) \/ Returns(OnAccept(h, "3456xx", FALSE), o)
    BY <1>4 DEF OnInCallWhileSetup
  <2> HIDE DEF f, g, h
  <2>2. ASSUME NEW x, HasState(x), x.ch.state = ch.state, NEW class, Returns(OnAccept(x, class, FALSE), o)
        PROVE  LegStep
    <3> DEFINE v == OnAccept(x, class, FALSE)
    <3>1. HasState(v) /\ v.ch.state \in {ch.state, "Accept", "Terminate"}
      BY <2>2, OnAcceptMoves
    <3> HIDE DEF v
    <3>2. Left(v.ch.state) = ch.state \/ <<ch.state, Left(v.ch.state)>> \in Silent
      BY <3>1 DEF Left, Silent
    <3> QED
      BY <2>2, <3>1, <3>2, ReturnsStep DEF v
  <2> QED
    BY <1>0, <1>1, <2>1, <2>2
<1> QED
  BY <1>2, <1>3, <1>4

LEMMA EndsStep ==
    ASSUME Event = "none", NEW w, HasState(w), w.ch.state = "Terminate", NEW cb, NEW o, Plain(o),
           Calls(Hears(w), cb, o), <<ch.state, cb, "Terminate">> \in Heard
    PROVE  LegStep
<1>1. HasState(Hears(w)) /\ Hears(w).ch.state = "Terminate"
  BY LegKeeps DEF Keeps
<1> QED
  BY <1>1, CallsStep

LEMMA OnPeerHangupStep ==
    ASSUME Event = "none", ch.state \in ChannelStates, NEW w, HasState(w), w.ch.state = ch.state,
           NEW o, Plain(o), OnPeerHangup(w, o)
    PROVE  LegStep
<1>1. CASE ch.state \in {"Ring", "Setup"}
  <2>1. Calls(Hears(Hangup(w)), "EndCall", o)
    BY <1>1 DEF OnPeerHangup
  <2>2. HasState(Respond(w, w.ch.ist, "3456xx"))
    BY RespondKeeps DEF Keeps
  <2>3. HasState(Hangup(w)) /\ Hangup(w).ch.state = "Terminate"
    BY <1>1, <2>2, GoMoves DEF Hangup
  <2>4. <<ch.state, "EndCall", "Terminate">> \in Heard
    BY <1>1 DEF Heard
  <2> QED
    BY <2>1, <2>3, <2>4, EndsStep
<1>2. CASE ch.state \notin {"Ring", "Setup"}
  <2>1. Returns(w, o)
    BY <1>2 DEF OnPeerHangup
  <2>2. Left(w.ch.state) = ch.state \/ <<ch.state, Left(w.ch.state)>> \in Silent
    BY DEF Left, Silent, ChannelStates
  <2> QED
    BY <2>1, <2>2, ReturnsStep
<1> QED
  BY <1>1, <1>2
-----------------------------------------------------------------------------
(* Messages.                                                                *)
LEMMA PeerInviteStep ==
    ASSUME IInv, NEW t \in Trans, NEW body, PeerInvite(t, body)
    PROVE  LegStep
<1> DEFINE w == With(t, "IST", "Proceeding", FALSE)
           x == [w EXCEPT !.ch.free = FALSE]
           s == SetIST(x, t)
           y == [s EXCEPT !.ch.peerBody = body]
           v == Opens(Go(y, "Ring"))
<1>1. Idle
  BY DEF PeerInvite
<1>2. HasState(w) /\ w.ch.state = ch.state /\ Event = "none"
  BY <1>1, WithKeeps, IdleState
<1>3. CASE ch.free
  <2>1. Calls(v, "Incall", <<Sm(t, "none")>>)
    BY <1>3 DEF PeerInvite
  <2>2. ch.state = "Ready"
    <3>1. ch = FreeChannel
      BY <1>3, WorldIs DEF ChanOK
    <3> QED
      BY <3>1 DEF FreeChannel
  <2> HIDE DEF w
  <2>3. HasState(x)
    BY <1>2 DEF HasState
  <2> HIDE DEF x
  <2>4. HasState(s)
    BY <2>3, SlotKeeps DEF Keeps
  <2> HIDE DEF s
  <2>5. HasState(y)
    BY <2>4 DEF HasState
  <2> HIDE DEF y
  <2>6. HasState(v) /\ v.ch.state = "Ring"
    <3>1. HasState(Go(y, "Ring")) /\ Go(y, "Ring").ch.state = "Ring"
      BY <2>5, GoMoves
    <3> QED
      BY <3>1, LegKeeps DEF Keeps
  <2> HIDE DEF v
  <2>7. <<ch.state, "Incall", v.ch.state>> \in Heard
    BY <2>2, <2>6 DEF Heard
  <2> QED
    BY <1>2, <2>1, <2>6, <2>7, CallsStep, Plains
<1>4. CASE ~ch.free
  <2>1. Becomes(Respond(w, t, "3456xx")) /\ stack' = <<Sm(t, "none")>>
    BY <1>4 DEF PeerInvite
  <2> HIDE DEF w
  <2> QED
    BY <1>2, <2>1, RespondKeeps, BecomesStep, Plains DEF Keeps
<1> QED
  BY <1>3, <1>4

LEMMA PeerReInviteStep ==
    ASSUME IInv, NEW t \in Trans, NEW body, PeerReInvite(t, body)
    PROVE  LegStep
<1> DEFINE w == With(t, "IST", "Proceeding", FALSE)
           s == SetIST(w, t)
           v == [s EXCEPT !.ch.retry = FALSE, !.ch.waived = TRUE]
           o == <<Sm(t, "none")>>
           p == <<App("InCallSetup"), Chan("answer", body), Sm(t, "none")>>
<1>1. Idle
  BY DEF PeerReInvite
<1>2. HasState(w) /\ w.ch.state = ch.state /\ Event = "none"
  BY <1>1, WithKeeps, IdleState
<1>3. CASE ch.state = "Accept"
  <2>1. Becomes(v) /\ stack' = p
    BY <1>3 DEF PeerReInvite
  <2> HIDE DEF w
  <2>2. HasState(s) /\ s.ch.state = ch.state
    BY <1>2, SlotKeeps DEF Keeps
  <2> HIDE DEF s
  <2>3. v.ch.state = ch.state
    BY <2>2 DEF HasState
  <2> HIDE DEF v
  <2>4. ch'.state = "Accept"
    BY <1>3, <2>1, <2>3 DEF Becomes
  <2>5. stack' # <<>> /\ Head(stack') = App("InCallSetup")
    BY <2>1
  <2>6. Event' = "InCallSetup"
    BY <2>5 DEF Event, Waits, App
  <2>7. <<ch.state, Event', ch'.state>> \in Heard
    BY <1>3, <2>4, <2>6 DEF Heard
  <2> QED
    BY <1>2, <2>7, HeardStep
<1>4. CASE ch.state = "Setup"
  <2>1. OnInCallWhileSetup(s, body, o)
    BY <1>4 DEF PeerReInvite
  <2> HIDE DEF w
  <2>2. HasState(s) /\ s.ch.state = ch.state
    BY <1>2, SlotKeeps DEF Keeps
  <2>3. Plain(o)
    BY Plains
  <2> HIDE DEF s, o
  <2> QED
    BY <1>2, <1>4, <2>1, <2>2, <2>3, OnInCallStep
<1>5. CASE ch.state \notin {"Accept", "Setup"}
  <2>1. Becomes(Respond(w, t, "3456xx")) /\ stack' = o
    BY <1>5 DEF PeerReInvite
  <2> HIDE DEF w
  <2> QED
    BY <1>2, <2>1, RespondKeeps, BecomesStep, Plains DEF Keeps
<1> QED
  BY <1>3, <1>4, <1>5

LEMMA PeerAckStep ==
    ASSUME IInv, NEW body, PeerAck(body)
    PROVE  LegStep
BY IdleState, OnSetupStep, Plains DEF PeerAck

LEMMA PeerHangupStep ==
    ASSUME IInv, NEW t \in Trans, NEW tcp, PeerBye(t, tcp) \/ PeerCancel(t, tcp)
    PROVE  LegStep
<1> DEFINE w == With(t, "NIST", "Trying", tcp)
<1>1. Idle
  BY DEF PeerBye, PeerCancel
<1>2. HasState(w) /\ w.ch.state = ch.state /\ Event = "none" /\ ch.state \in ChannelStates
  BY <1>1, WithKeeps, IdleState
<1>3. \/ OnPeerHangup(w, <<Service(t), Sm(t, "none")>>)
      \/ Becomes(Respond(w, t, "3456xx")) /\ stack' = <<Sm(t, "none")>>
  BY DEF PeerBye, PeerCancel
<1> HIDE DEF w
<1>4. CASE OnPeerHangup(w, <<Service(t), Sm(t, "none")>>)
  BY <1>2, <1>4, OnPeerHangupStep, Plains
<1>5. CASE Becomes(Respond(w, t, "3456xx")) /\ stack' = <<Sm(t, "none")>>
  BY <1>2, <1>5, RespondKeeps, BecomesStep, Plains DEF Keeps
<1> QED
  BY <1>3, <1>4, <1>5

LEMMA PeerProvisionalStep ==
    ASSUME IInv, NEW t \in Trans, NEW body, PeerProvisional(t, body)
    PROVE  LegStep
<1> DEFINE w == [World EXCEPT !.tr[t].state = "Proceeding"]
           x == [w EXCEPT !.ch.dialog = TRUE, !.ch.rang = TRUE,
                          !.ch.peerBody = IF body = None THEN @ ELSE body]
           r == Go(x, "RingBack")
           o == <<Sm(t, "none")>>
<1>1. Idle
  BY DEF PeerProvisional
<1>2. HasState(World) /\ World.ch.state = ch.state /\ Event = "none"
  BY <1>1, IdleState
<1>3. HasState(w) /\ w.ch.state = ch.state
  BY <1>2 DEF HasState
<1>4. \/ Becomes(w) /\ stack' = o
      \/ ch.state \in {"CallOut", "RingBack"} /\ Calls(r, "RingBack", o)
      \/ ch.state = "Ring" /\ Returns(OnRingBackWhileRing(w), o)
  BY DEF PeerProvisional
<1> HIDE DEF w
<1>5. HasState(x)
  BY <1>3 DEF HasState
<1> HIDE DEF x
<1>6. HasState(r) /\ r.ch.state = "RingBack"
  BY <1>5, GoMoves
<1>7. Plain(o)
  BY Plains
<1> HIDE DEF r, o
<1>8. CASE Becomes(w) /\ stack' = o
  BY <1>2, <1>3, <1>7, <1>8, BecomesStep
<1>9. CASE ch.state \in {"CallOut", "RingBack"} /\ Calls(r, "RingBack", o)
  <2>1. <<ch.state, "RingBack", r.ch.state>> \in Heard
    BY <1>6, <1>9 DEF Heard
  <2> QED
    BY <1>2, <1>6, <1>7, <1>9, <2>1, CallsStep
<1>10. CASE ch.state = "Ring" /\ Returns(OnRingBackWhileRing(w), o)
  <2>1. HasState(OnRingBackWhileRing(w)) /\ OnRingBackWhileRing(w).ch.state = ch.state
    BY <1>3, OnRingBackKeeps DEF Keeps
  <2>2. Left(OnRingBackWhileRing(w).ch.state) = ch.state
    BY <1>10, <2>1 DEF Left
  <2> QED
    BY <1>2, <1>7, <1>10, <2>1, <2>2, ReturnsStep
<1> QED
  BY <1>4, <1>8, <1>9, <1>10

LEMMA PeerAnswerStep ==
    ASSUME IInv, NEW t \in Trans, NEW body, PeerAnswer(t, body)
    PROVE  LegStep
<1>1. Idle
  BY DEF PeerAnswer
<1>2. CASE OnSetup(World, body, <<Sm(t, "Terminated")>>)
  BY <1>1, <1>2, IdleState, OnSetupStep, Plains
<1>3. CASE Becomes(World) /\ stack' = <<Sm(t, "Terminated")>>
  BY <1>1, <1>3, IdleState, BecomesStep, Plains
<1> QED
  BY <1>2, <1>3 DEF PeerAnswer

LEMMA PeerErrorStep ==
    ASSUME IInv, NEW t \in Trans, PeerError(t)
    PROVE  LegStep
<1>1. Idle
  BY DEF PeerError
<1>2. CASE ch.state \in {"CallOut", "RingBack"}
           /\ Calls(Hears(Go(World, "Terminate")), "Error", <<Sm(t, "Completed")>>)
  <2>1. HasState(Go(World, "Terminate")) /\ Go(World, "Terminate").ch.state = "Terminate"
    BY <1>1, IdleState, GoMoves
  <2>2. <<ch.state, "Error", "Terminate">> \in Heard
    BY <1>2 DEF Heard
  <2> QED
    BY <1>1, <1>2, <2>1, <2>2, IdleState, EndsStep, Plains
<1>3. CASE Becomes(World) /\ stack' = <<Sm(t, "Completed")>>
  BY <1>1, <1>3, IdleState, BecomesStep, Plains
<1> QED
  BY <1>2, <1>3 DEF PeerError

LEMMA PeerChallengeStep ==
    ASSUME IInv, NEW t \in Trans, NEW n \in Trans, PeerChallenge(t, n)
    PROVE  LegStep
<1> DEFINE o == <<Sm(t, "Completed")>>
           v == Invite(World, n)
           u == InviteFails(World, "failed")
<1>1. /\ Idle /\ ch.state \in {"CallOut", "RingBack"}
      /\ Returns(v, o) \/ Returns(u, o)
  BY DEF PeerChallenge
<1>2. HasState(World) /\ Event = "none"
  BY <1>1, IdleState
<1>3. HasState(v) /\ v.ch.state = "CallOut" /\ HasState(u) /\ u.ch.state = "Terminate"
  BY <1>2, InviteMoves, InviteFailsMoves
<1>4. Plain(o)
  BY Plains
<1> HIDE DEF u, v, o
<1>5. Left("CallOut") = "CallOut" /\ Left("Terminate") = "Ready"
  BY DEF Left
<1>6. ASSUME NEW x \in {v, u}
      PROVE  Left(x.ch.state) = ch.state \/ <<ch.state, Left(x.ch.state)>> \in Silent
  BY <1>1, <1>3, <1>5 DEF Silent
<1> QED
  BY <1>1, <1>2, <1>3, <1>4, <1>6, ReturnsStep
-----------------------------------------------------------------------------
(* Timers.                                                                  *)
LEMMA TransTimerStep ==
    ASSUME IInv, NEW t \in Trans, TransTimer(t)
    PROVE  LegStep
<1>1. Idle /\ Becomes(EndTrans(World, t)) /\ stack' = stack
  BY DEF TransTimer
<1>2. Plain(stack')
  BY <1>1 DEF Idle, Plain
<1> QED
  BY <1>1, <1>2, IdleState, EndTransKeeps, BecomesStep DEF Keeps

LEMMA CalloutTimerStep ==
    ASSUME IInv, CalloutTimer
    PROVE  LegStep
<1> DEFINE w == [World EXCEPT !.ch.callout = FALSE]
<1>1. /\ Idle
      /\ \/ ch.state = "CallOut" /\ Calls(Hears(Go(w, "Terminate")), "Timeout", <<>>)
         \/ Returns(w, <<>>)
  BY DEF CalloutTimer
<1>2. HasState(w) /\ w.ch.state = ch.state /\ Event = "none" /\ ch.state \in ChannelStates
  BY <1>1, IdleState DEF HasState
<1> HIDE DEF w
<1>3. CASE ch.state = "CallOut" /\ Calls(Hears(Go(w, "Terminate")), "Timeout", <<>>)
  <2>1. HasState(Go(w, "Terminate")) /\ Go(w, "Terminate").ch.state = "Terminate"
    BY <1>2, GoMoves
  <2>2. <<ch.state, "Timeout", "Terminate">> \in Heard
    BY <1>3 DEF Heard
  <2> QED
    BY <1>2, <1>3, <2>1, <2>2, EndsStep, Plains
<1>4. CASE Returns(w, <<>>)
  <2>1. Left(w.ch.state) = ch.state \/ <<ch.state, Left(w.ch.state)>> \in Silent
    BY <1>2 DEF Left, Silent
  <2> QED
    BY <1>2, <1>4, <2>1, ReturnsStep, Plains
<1> QED
  BY <1>1, <1>3, <1>4

LEMMA RetryTimerStep ==
    ASSUME IInv, RetryTimer
    PROVE  LegStep
<1> DEFINE w == [World EXCEPT !.ch.retry = FALSE]
           x == [World EXCEPT !.ch.retries = @ + 1]
           y == [w EXCEPT !.ch.retries = @ + 1]
<1>1. /\ Idle
      /\ \/ ch.state = "Accept" /\ Returns(x, <<>>)
         \/ ch.state = "Accept" /\ Calls(Hears(OnOnHook(y)), "EndCall", <<>>)
         \/ Returns(w, <<>>)
  <2>1. ch.retry => ch.state = "Accept" /\ ch.retries \in Nat
    BY WorldIs DEF ChanOK, ChannelType, MaxRetries
  <2>2. Idle /\ ch.retry
    BY DEF RetryTimer
  <2>3. ch.retries < MaxRetries \/ ch.retries >= MaxRetries
    BY <2>1, <2>2 DEF MaxRetries
  <2> HIDE DEF w, x
  <2> QED
    BY <2>1, <2>2, <2>3 DEF RetryTimer, w, x
<1>2. /\ HasState(w) /\ w.ch.state = ch.state /\ HasState(x) /\ x.ch.state = ch.state
      /\ Event = "none" /\ ch.state \in ChannelStates
  BY <1>1, IdleState DEF HasState
<1> HIDE DEF w, x
<1>3. HasState(y)
  BY <1>2 DEF HasState
<1> HIDE DEF y
<1>4. ASSUME NEW v, HasState(v), v.ch.state = ch.state, Returns(v, <<>>)
      PROVE  LegStep
  <2>1. Left(v.ch.state) = ch.state \/ <<ch.state, Left(v.ch.state)>> \in Silent
    BY <1>2, <1>4 DEF Left, Silent, ChannelStates
  <2> QED
    BY <1>2, <1>4, <2>1, ReturnsStep, Plains
<1>5. CASE ch.state = "Accept" /\ Calls(Hears(OnOnHook(y)), "EndCall", <<>>)
  <2>1. HasState(OnOnHook(y)) /\ OnOnHook(y).ch.state = "Terminate"
    BY <1>3, OnOnHookMoves
  <2>2. <<ch.state, "EndCall", "Terminate">> \in Heard
    BY <1>5 DEF Heard
  <2> QED
    BY <1>2, <1>5, <2>1, <2>2, EndsStep, Plains
<1> QED
  BY <1>1, <1>2, <1>4, <1>5
-----------------------------------------------------------------------------
(* The application on top of the stack handles a callback.                  *)
LEMMA AppHandles ==
    ASSUME IInv, Waits("app")
    PROVE  Head(stack).arg \in AppCallbacks
<1>1. stack # <<>> /\ Head(stack).call = "app"
  BY DEF Waits
<1>2. ~(OuterOK(tr, ch, stack, TRUE) /\ ch.state # "Terminate")
  <2>1. ASSUME NEW t \in Trans, NEW a, stack = <<Sm(t, a)>> PROVE FALSE
    <3>1. Head(stack) = Sm(t, a)
      BY <2>1
    <3> QED
      BY <1>1, <3>1, CallKinds
  <2>2. ASSUME NEW t \in Trans, stack = <<Service(t), Sm(t, "none")>> PROVE FALSE
    <3>1. Head(stack) = Service(t)
      BY <2>2
    <3> QED
      BY <1>1, <3>1, CallKinds
  <2> QED
    BY <1>1, <2>1, <2>2 DEF OuterOK
<1>3. ASSUME NEW o, stack = Push1(o), OuterOK(tr, ch, o, TRUE) PROVE FALSE
  <2>1. Head(stack) = Leaving
    BY <1>3, Outers
  <2> QED
    BY <1>1, <2>1, CallKinds
<1>4. ASSUME NEW o, NEW cb \in AppCallbacks, stack = Push2(cb, o), OuterOK(tr, ch, o, cb = "done")
      PROVE  Head(stack).arg \in AppCallbacks
  <2>1. Head(stack) = App(cb)
    BY <1>4, Outers
  <2> QED
    BY <2>1 DEF App
<1>5. ASSUME NEW b, stack = <<Chan("answer", b), Sm(ch.ist, "none")>> PROVE FALSE
  <2>1. Head(stack) = Chan("answer", b)
    BY <1>5
  <2> QED
    BY <1>1, <2>1, CallKinds
<1>6. ASSUME NEW b, stack = <<App("InCallSetup"), Chan("answer", b), Sm(ch.ist, "none")>>
      PROVE  Head(stack).arg \in AppCallbacks
  <2>1. Head(stack) = App("InCallSetup")
    BY <1>6
  <2> QED
    BY <2>1 DEF App, AppCallbacks
<1> QED
  BY <1>2, <1>3, <1>4, <1>5, <1>6 DEF IInv, StackOK

LEMMA DonePushed ==
    ASSUME IInv, Waits("app")
    PROVE  LET s == <<App("done")>> \o Tail(stack)
           IN  s # <<>> /\ Head(s) = App("done")
<1>1. AppTop
  BY Innermost DEF Waits
<1>2. CASE \E o : Tail(stack) = Push1(o) /\ OuterOK(tr, ch, o, TRUE)
  <2>1. PICK o : Tail(stack) = Push1(o) /\ OuterOK(tr, ch, o, TRUE)
    BY <1>2
  <2>2. <<App("done")>> \o Push1(o) = Push2("done", o)
    BY <2>1, Outers
  <2>3. Push2("done", o) # <<>> /\ Head(Push2("done", o)) = App("done")
    BY <2>1, Outers
  <2> QED
    BY <2>1, <2>2, <2>3
<1>3. CASE \E b : Tail(stack) = <<Chan("answer", b), Sm(ch.ist, "none")>>
  <2>1. PICK b : Tail(stack) = <<Chan("answer", b), Sm(ch.ist, "none")>>
    BY <1>3
  <2>2. PICK a : a = App("done")
    OBVIOUS
  <2>3. ASSUME NEW x, NEW y, Tail(stack) = <<x, y>>
        PROVE  <<a>> \o Tail(stack) # <<>> /\ Head(<<a>> \o Tail(stack)) = a
    <3>1. a \in {a, x, y} /\ <<x, y>> \in Seq({a, x, y})
      OBVIOUS
    <3>2. <<a>> \o <<x, y>> # <<>> /\ Head(<<a>> \o <<x, y>>) = a
      BY <3>1, Pushed
    <3> QED
      BY <2>3, <3>2
  <2> QED
    BY <2>1, <2>2, <2>3
<1> QED
  BY <1>1, <1>2, <1>3 DEF AppTop

LEMMA ChState ==
    ASSUME IInv
    PROVE  HasState(World) /\ World.ch.state = ch.state /\ ch.state \in ChannelStates
BY WorldIs DEF HasState, ChannelType, ChannelStates, World

(* After one of its calls the application is in the dispatch loop, or has   *)
(* done what it may do in its callback.                                     *)
LEMMA ApiStep ==
    ASSUME IInv, NEW api, May(api), NEW w, HasState(w), Returns(w, Outer),
           \/ Left(w.ch.state) = ch.state
           \/ <<ch.state, Left(w.ch.state)>> \in Asked
    PROVE  LegStep
<1>1. ch'.state = Left(w.ch.state) /\ stack' = Outer
  BY ReturnsMoves
<1>2. CASE Idle
  <2>1. stack' = <<>>
    BY <1>1, <1>2 DEF Outer
  <2>2. Event = "none" /\ Event' = "none"
    BY <1>2, <2>1, IdleState DEF Event, Waits
  <2> QED
    BY <1>1, <2>2, ChState, AskedStep
<1>3. CASE ~Idle
  <2>1. Waits("app")
    BY <1>3 DEF May
  <2>2. Event = Head(stack).arg /\ Event # "none"
    BY <2>1, AppHandles DEF Event, AppCallbacks
  <2>3. Event' = "done"
    <3>1. Outer = <<App("done")>> \o Tail(stack)
      BY <1>3 DEF Outer
    <3>2. stack' # <<>> /\ Head(stack') = App("done")
      BY <1>1, <2>1, <3>1, DonePushed
    <3> QED
      BY <3>2 DEF Event, Waits, App
  <2> QED
    BY <1>1, <2>2, <2>3, ChState, AskedStep
<1> QED
  BY <1>2, <1>3
-----------------------------------------------------------------------------
(* The application's calls.                                                 *)
LEMMA OutCallStep ==
    ASSUME IInv, NEW t \in Trans, NEW sdp, OutCall(t, sdp)
    PROVE  LegStep
<1> DEFINE x == Opens(World)
           w == [x EXCEPT !.ch.free = FALSE, !.ch.myBody = sdp]
           i == Invite(w, t)
           v == [i EXCEPT !.ch.callout = TRUE]
           u == InviteFails(w, "unstarted")
<1>1. May("OutCall") /\ ch.state = "Ready" /\ (Returns(v, Outer) \/ Returns(u, Outer))
  BY DEF OutCall
<1>2. HasState(x)
  BY ChState, LegKeeps DEF Keeps
<1> HIDE DEF x
<1>3. HasState(w)
  BY <1>2 DEF HasState
<1> HIDE DEF w
<1>4. HasState(i) /\ i.ch.state = "CallOut" /\ HasState(u) /\ u.ch.state = "Terminate"
  BY <1>3, InviteMoves, InviteFailsMoves
<1> HIDE DEF i, u
<1>5. HasState(v) /\ v.ch.state = "CallOut"
  BY <1>4 DEF HasState
<1> HIDE DEF v
<1>6. Left(v.ch.state) = "CallOut" /\ Left(u.ch.state) = "Ready"
  BY <1>4, <1>5 DEF Left
<1>7. <<ch.state, Left(v.ch.state)>> \in Asked /\ Left(u.ch.state) = ch.state
  BY <1>1, <1>6 DEF Asked
<1> QED
  BY <1>1, <1>4, <1>5, <1>7, ApiStep

LEMMA ReInviteStep ==
    ASSUME IInv, NEW t \in Trans, ReInvite(t)
    PROVE  LegStep
<1> DEFINE i == Invite(World, t)
           v == [i EXCEPT !.ch.callout = TRUE, !.ch.rang = FALSE, !.ch.reinvite = TRUE]
           u == InviteFails(World, "failed")
<1>1. May("ReInvite") /\ ch.state = "Setup" /\ (Returns(v, Outer) \/ Returns(u, Outer))
  BY DEF ReInvite
<1>2. HasState(i) /\ i.ch.state = "CallOut" /\ HasState(u) /\ u.ch.state = "Terminate"
  BY ChState, InviteMoves, InviteFailsMoves
<1> HIDE DEF i, u
<1>3. HasState(v) /\ v.ch.state = "CallOut"
  BY <1>2 DEF HasState
<1> HIDE DEF v
<1>4. Left(v.ch.state) = "CallOut" /\ Left(u.ch.state) = "Ready"
  BY <1>2, <1>3 DEF Left
<1>5. <<ch.state, Left(v.ch.state)>> \in Asked /\ <<ch.state, Left(u.ch.state)>> \in Asked
  BY <1>1, <1>4 DEF Asked
<1> QED
  BY <1>1, <1>2, <1>3, <1>5, ApiStep

LEMMA AnswerStep ==
    ASSUME IInv, NEW class \in Classes, NEW sdp, Answer(class, sdp)
    PROVE  LegStep
<1> DEFINE w == OnAccept(World, class, sdp)
           p == [w EXCEPT !.leg = "provisional"]
<1>1. May("Answer") /\ ch.state = "Ring"
  BY DEF Answer
<1>2. Returns(w, Outer) \/ Returns(Asks(w), Outer) \/ Returns(p, Outer)
  BY DEF Answer, Classes
<1>3. HasState(w) /\ w.ch.state \in {"Ring", "Accept", "Terminate"}
  BY <1>1, ChState, OnAcceptMoves
<1> HIDE DEF w
<1>4. /\ HasState(Asks(w)) /\ Asks(w).ch.state = w.ch.state
      /\ HasState(p) /\ p.ch.state = w.ch.state
  BY <1>3, LegKeeps DEF Keeps
<1>5. Left(w.ch.state) = ch.state \/ <<ch.state, Left(w.ch.state)>> \in Asked
  BY <1>1, <1>3 DEF Left, Asked
<1> HIDE DEF p
<1> QED
  BY <1>1, <1>2, <1>3, <1>4, <1>5, ApiStep

LEMMA RingBackStep ==
    ASSUME IInv, RingBack
    PROVE  LegStep
<1> DEFINE v == OnRingBackWhileRing(World)
<1>1. May("RingBack") /\ ch.state = "Ring" /\ Returns(v, Outer)
  BY DEF RingBack
<1>2. HasState(v) /\ v.ch.state = ch.state
  BY ChState, OnRingBackKeeps DEF Keeps
<1> HIDE DEF v
<1>3. Left(v.ch.state) = ch.state
  BY <1>1, <1>2 DEF Left
<1> QED
  BY <1>1, <1>2, <1>3, ApiStep

LEMMA ByeStep ==
    ASSUME IInv, Bye
    PROVE  LegStep
<1> DEFINE v == OnOnHook(Asks(World))
<1>1. /\ May("Bye")
      /\ \/ ch.state \in {"Accept", "Setup", "CallOut", "RingBack"} /\ Returns(v, Outer)
         \/ ch.state = "Terminate" /\ Returns(World, Outer)
  BY DEF Bye
<1>2. HasState(Asks(World))
  BY ChState, LegKeeps DEF Keeps
<1>3. HasState(v) /\ v.ch.state = "Terminate"
  BY <1>2, OnOnHookMoves
<1> HIDE DEF v
<1>4. Left("Terminate") = "Ready"
  BY DEF Left
<1>5. ch.state \in {"Accept", "Setup", "CallOut", "RingBack", "Terminate"} =>
        <<ch.state, "Ready">> \in Asked
  BY DEF Asked
<1> QED
  BY <1>1, <1>3, <1>4, <1>5, ChState, ApiStep
-----------------------------------------------------------------------------
(* The waiting calls go on.                                                 *)
LEMMA AppReturnsStep ==
    ASSUME IInv, AppReturns
    PROVE  LegStep
<1>1. Waits("app") /\ stack' = Tail(stack) /\ ch' = ch
  BY DEF AppReturns
<1>2. Event # "none"
  BY <1>1, AppHandles DEF Event, AppCallbacks
<1>3. AppTop
  BY <1>1, Innermost DEF Waits
<1>4. CASE \E o : Tail(stack) = Push1(o) /\ OuterOK(tr, ch, o, TRUE)
  <2>1. stack' # <<>> /\ Head(stack') = Leaving
    BY <1>1, <1>4, Outers
  <2> QED
    BY <1>1, <1>2, <2>1, ReturnedStep, CallKinds DEF Event, Waits
<1>5. CASE \E b : Tail(stack) = <<Chan("answer", b), Sm(ch.ist, "none")>>
  <2>1. PICK b : stack' = <<Chan("answer", b), Sm(ch.ist, "none")>>
    BY <1>1, <1>5
  <2>2. Head(stack') = Chan("answer", b)
    BY <2>1
  <2> QED
    BY <1>1, <1>2, <2>2, ReturnedStep, CallKinds DEF Event, Waits
<1> QED
  BY <1>3, <1>4, <1>5 DEF AppTop

LEMMA ChannelReturnsStep ==
    ASSUME IInv, ChannelReturns
    PROVE  LegStep
<1>1. stack # <<>> /\ Head(stack).call = "channel" /\ Event = "none"
  BY DEF ChannelReturns, Waits, Event
<1>2. ChannelTop
  BY <1>1, Innermost
<1>3. ASSUME NEW o, OuterOK(tr, ch, o, TRUE), Head(stack).arg = "leave", Tail(stack) = o
      PROVE  LegStep
  <2>1. Returns(World, o) /\ Plain(o)
    BY <1>3, OuterPlain DEF ChannelReturns
  <2>2. Left(ch.state) = ch.state \/ <<ch.state, Left(ch.state)>> \in Silent
    BY DEF Left, Silent
  <2> QED
    BY <1>1, <2>1, <2>2, ChState, ReturnsStep
<1>4. ASSUME NEW b, ch.state = "Accept", ch.ist \in Trans, Head(stack).arg = "answer",
             Head(stack).x = b, Tail(stack) = <<Sm(ch.ist, "none")>>
      PROVE  LegStep
  <2>1. OnInCallWhileSetup(World, b, <<Sm(ch.ist, "none")>>)
    BY <1>4 DEF ChannelReturns
  <2> QED
    BY <1>1, <1>4, <2>1, ChState, OnInCallStep, Plains
<1>5. ch.ist \in Trans \cup {None}
  BY WorldIs DEF ChannelType
<1> QED
  BY <1>2, <1>3, <1>4, <1>5 DEF ChannelTop

LEMMA ServiceReturnsStep ==
    ASSUME IInv, ServiceReturns
    PROVE  LegStep
<1>1. stack # <<>> /\ Head(stack).call = "service" /\ Event = "none"
  BY DEF ServiceReturns, Waits, Event
<1>2. PICK t \in Trans : Head(stack).x = t /\ Tail(stack) = <<Sm(t, "none")>>
  BY <1>1, Innermost DEF ServiceTop
<1>3. Becomes(Respond(World, t, "2xx")) /\ stack' = <<Sm(t, "none")>>
  BY <1>2 DEF ServiceReturns
<1> QED
  BY <1>1, <1>3, ChState, RespondKeeps, BecomesStep, Plains DEF Keeps

LEMMA TransactionReturnsStep ==
    ASSUME IInv, TransactionReturns
    PROVE  LegStep
<1>1. stack # <<>> /\ Head(stack).call = "transaction" /\ Event = "none"
  BY DEF TransactionReturns, Waits, Event
<1>2. PICK t \in Trans, after \in {"none", "Terminated", "Completed"} :
        Head(stack).x = t /\ Head(stack).arg = after /\ Tail(stack) = <<>>
  BY <1>1, Innermost DEF TransactionTop
<1> DEFINE c == [World EXCEPT !.tr[t].state = "Completed"]
<1>3. /\ Becomes(Used(World, t)) \/ Becomes(EndTrans(World, t)) \/ Becomes(c) \/ Becomes(World)
      /\ stack' = <<>>
  BY <1>2 DEF TransactionReturns
<1>4. Keeps(World, c)
  BY ChState DEF HasState, Keeps
<1> HIDE DEF c
<1>5. \A v : Keeps(World, v) => HasState(v) /\ v.ch.state = ch.state
  BY ChState DEF Keeps
<1>6. Keeps(World, Used(World, t)) /\ Keeps(World, EndTrans(World, t)) /\ Keeps(World, World)
  BY ChState, UsedKeeps, EndTransKeeps DEF Keeps
<1> QED
  BY <1>1, <1>3, <1>4, <1>5, <1>6, BecomesStep, Plains
-----------------------------------------------------------------------------
LEMMA StepOK ==
    ASSUME IInv, [Next]_vars
    PROVE  LegStep
<1>1. CASE Network
  <2>1. ASSUME NEW t \in Trans, NEW b,
               PeerInvite(t, b) \/ PeerReInvite(t, b) \/ PeerProvisional(t, b) \/ PeerAnswer(t, b)
        PROVE  LegStep
    BY <2>1, PeerInviteStep, PeerReInviteStep, PeerProvisionalStep, PeerAnswerStep
  <2>2. ASSUME NEW t \in Trans, NEW p, PeerBye(t, p = "TCP") \/ PeerCancel(t, p = "TCP")
        PROVE  LegStep
    BY <2>2, PeerHangupStep
  <2>3. ASSUME NEW t \in Trans, PeerError(t) \/ \E n \in Trans : PeerChallenge(t, n)
        PROVE  LegStep
    BY <2>3, PeerErrorStep, PeerChallengeStep
  <2> QED
    BY <1>1, <2>1, <2>2, <2>3, PeerAckStep DEF Network
<1>2. CASE Application
  <2>1. ASSUME NEW t \in Trans, NEW sdp \in BOOLEAN, OutCall(t, sdp) PROVE LegStep
    BY <2>1, OutCallStep
  <2>2. ASSUME NEW class \in Classes, NEW sdp \in BOOLEAN, Answer(class, sdp) PROVE LegStep
    BY <2>2, AnswerStep
  <2> QED
    BY <1>2, <2>1, <2>2, ReInviteStep, RingBackStep, ByeStep DEF Application, Classes
<1>3. CASE Unwind
  BY <1>3, AppReturnsStep, ChannelReturnsStep, ServiceReturnsStep, TransactionReturnsStep DEF Unwind
<1>4. CASE CalloutTimer \/ RetryTimer \/ \E t \in Trans : TransTimer(t)
  BY <1>4, CalloutTimerStep, RetryTimerStep, TransTimerStep
<1>5. CASE UNCHANGED vars
  BY <1>5 DEF vars, LegStep, AsLeg!vars, Event, Waits
<1> QED
  BY <1>1, <1>2, <1>3, <1>4, <1>5 DEF Next

(* The channel gives the application the callbacks that Leg promises, each  *)
(* in the phase Leg allows it in, and obeys its calls as Leg says, however  *)
(* messages, timers, failures and calls from inside callbacks interleave.   *)
THEOREM CallImplementsLeg == Spec => ImplementsLeg
<1>1. Init => AsLeg!Init
  BY DEF Init, AsLeg!Init, FreeChannel, PhaseOf, Event, Waits
<1>2. IInv /\ [Next]_vars => [AsLeg!Next]_(AsLeg!vars)
  BY StepOK DEF LegStep
<1> QED
  BY <1>1, <1>2, Invariant, PTL DEF Spec, ImplementsLeg, AsLeg!Spec
-----------------------------------------------------------------------------
(* A ringing channel keeps ringing but for the two that answer its INVITE,  *)
(* a hangup of the peer and an answer of the application.                   *)
LEMMA StaysRing ==
    ASSUME ch.state = "Ring", NEW w, HasState(w), w.ch.state = "Ring",
           Becomes(w) \/ \E o : Returns(w, o)
    PROVE  ch'.state = "Ring"
BY ReturnsMoves DEF Becomes, Left

LEMMA NotFree ==
    ASSUME IInv, ch.state = "Ring"
    PROVE  ~ch.free
BY WorldIs DEF ChanOK, FreeChannel

LEMMA RingMessages ==
    ASSUME IInv, ch.state = "Ring", Idle, NEW t \in Trans, NEW b,
           \/ PeerInvite(t, b) \/ PeerReInvite(t, b) \/ PeerProvisional(t, b)
           \/ PeerAnswer(t, b) \/ PeerError(t) \/ PeerAck(b)
           \/ \E n \in Trans : PeerChallenge(t, n)
    PROVE  ch'.state = "Ring"
<1>1. HasState(World) /\ World.ch.state = "Ring"
  BY ChState
<1>2. ASSUME PeerInvite(t, b) \/ PeerReInvite(t, b) PROVE ch'.state = "Ring"
  <2> DEFINE w == With(t, "IST", "Proceeding", FALSE)
  <2>1. HasState(w) /\ w.ch.state = "Ring"
    BY WithKeeps
  <2>2. HasState(Respond(w, t, "3456xx")) /\ Respond(w, t, "3456xx").ch.state = "Ring"
    BY <2>1, RespondKeeps DEF Keeps
  <2>3. PeerInvite(t, b) => Becomes(Respond(w, t, "3456xx"))
    BY NotFree DEF PeerInvite
  <2>4. PeerReInvite(t, b) => Becomes(Respond(w, t, "3456xx"))
    BY DEF PeerReInvite
  <2> QED
    BY <1>2, <2>2, <2>3, <2>4, StaysRing
<1>3. ASSUME PeerProvisional(t, b) PROVE ch'.state = "Ring"
  <2> DEFINE w == [World EXCEPT !.tr[t].state = "Proceeding"]
  <2>1. HasState(w) /\ w.ch.state = "Ring"
    BY <1>1 DEF HasState
  <2>2. Becomes(w) \/ \E o : Returns(OnRingBackWhileRing(w), o)
    BY <1>3 DEF PeerProvisional
  <2> HIDE DEF w
  <2>3. HasState(OnRingBackWhileRing(w)) /\ OnRingBackWhileRing(w).ch.state = "Ring"
    BY <2>1, OnRingBackKeeps DEF Keeps
  <2> QED
    BY <2>1, <2>2, <2>3, StaysRing
<1>4. ASSUME PeerAnswer(t, b) \/ PeerAck(b) \/ PeerError(t) PROVE ch'.state = "Ring"
  <2>1. \A o : OnSetup(World, b, o) => Returns(World, o)
    BY <1>1 DEF OnSetup
  <2>2. Becomes(World) \/ \E o : Returns(World, o)
    BY <1>4, <2>1 DEF PeerAnswer, PeerAck, PeerError
  <2> QED
    BY <1>1, <2>2, StaysRing
<1>5. ASSUME NEW n \in Trans, PeerChallenge(t, n) PROVE ch'.state = "Ring"
  BY <1>5 DEF PeerChallenge
<1> QED
  BY <1>2, <1>3, <1>4, <1>5

LEMMA RingTimers ==
    ASSUME IInv, ch.state = "Ring", CalloutTimer \/ RetryTimer \/ \E t \in Trans : TransTimer(t)
    PROVE  ch'.state = "Ring"
<1>1. HasState(World) /\ World.ch.state = "Ring" /\ ~ch.callout /\ ~ch.retry
  BY ChState, WorldIs DEF ChanOK
<1>2. PICK t \in Trans : TransTimer(t)
  BY <1>1 DEF CalloutTimer, RetryTimer
<1>3. Becomes(EndTrans(World, t))
  BY <1>2 DEF TransTimer
<1> QED
  BY <1>1, <1>3, EndTransKeeps, StaysRing DEF Keeps

LEMMA RingUnwinds ==
    ASSUME IInv, ch.state = "Ring", Unwind
    PROVE  ch'.state = "Ring"
<1>1. HasState(World) /\ World.ch.state = "Ring"
  BY ChState
<1>2. CASE AppReturns
  BY <1>2 DEF AppReturns
<1>3. CASE ChannelReturns
  <2>1. Head(stack).arg = "leave"
    BY <1>3, Innermost DEF ChannelReturns, Waits, ChannelTop
  <2>2. Returns(World, Tail(stack))
    BY <1>3, <2>1 DEF ChannelReturns
  <2> QED
    BY <1>1, <2>2, StaysRing
<1>4. CASE ServiceReturns
  <2>1. Becomes(Respond(World, Head(stack).x, "2xx"))
    BY <1>4 DEF ServiceReturns
  <2> QED
    BY <1>1, <2>1, RespondKeeps, StaysRing DEF Keeps
<1>5. CASE TransactionReturns
  <2>1. PICK t \in Trans, after \in {"none", "Terminated", "Completed"} :
          Head(stack).x = t /\ Head(stack).arg = after
    BY <1>5, Innermost DEF TransactionReturns, Waits, TransactionTop
  <2> DEFINE c == [World EXCEPT !.tr[t].state = "Completed"]
  <2>2. Becomes(Used(World, t)) \/ Becomes(EndTrans(World, t)) \/ Becomes(c) \/ Becomes(World)
    BY <1>5, <2>1 DEF TransactionReturns
  <2>3. Keeps(World, c)
    BY <1>1 DEF HasState, Keeps
  <2> HIDE DEF c
  <2>4. Keeps(World, Used(World, t)) /\ Keeps(World, EndTrans(World, t))
    BY <1>1, UsedKeeps, EndTransKeeps
  <2> QED
    BY <1>1, <2>2, <2>3, <2>4, StaysRing DEF Keeps
<1> QED
  BY <1>2, <1>3, <1>4, <1>5 DEF Unwind

(* The INVITE of a ringing channel has its final response.                  *)
InviteAnswered(T) == ~(T[ch.ist].owned /\ T[ch.ist].state = "Proceeding")

LEMMA HangupAnswers ==
    ASSUME IInv, ch.state = "Ring", NEW t \in Trans, NEW tcp \in BOOLEAN,
           PeerBye(t, tcp) \/ PeerCancel(t, tcp)
    PROVE  ch'.state = "Ring" \/ InviteAnswered(tr')
<1> DEFINE w == With(t, "NIST", "Trying", tcp)
           v == Respond(w, ch.ist, "3456xx")
<1>1. Idle /\ Fresh(t)
  BY DEF PeerBye, PeerCancel
<1>2. WorldOK(w) /\ w.ch = ch /\ HasState(w) /\ w.ch.state = "Ring" /\ ch.ist # None
  BY <1>1, WithIs, WithKeeps, WorldIs DEF ChanOK
<1>3. \/ \E o : OnPeerHangup(w, o)
      \/ Becomes(Respond(w, t, "3456xx"))
  BY DEF PeerBye, PeerCancel
<1> HIDE DEF w
<1>4. CASE Becomes(Respond(w, t, "3456xx"))
  BY <1>2, <1>4, RespondKeeps, StaysRing DEF Keeps
<1>5. CASE \E o : OnPeerHangup(w, o)
  <2>1. Becomes(Hears(Go(v, "Terminate")))
    BY <1>2, <1>5 DEF OnPeerHangup, Hangup, Calls
  <2>2. PICK class \in Classes : class = "3456xx"
    BY DEF Classes
  <2>3. v \in Worlds /\ Answered(w, v, "3456xx")
    BY <1>2, <2>2, RespondToIst DEF WorldOK
  <2> HIDE DEF v
  <2>4. Hears(Go(v, "Terminate")).tr = v.tr
    BY <2>3 DEF Worlds, Hears, Go
  <2>5. tr' = v.tr
    BY <2>1, <2>4 DEF Becomes
  <2> QED
    BY <1>2, <2>3, <2>5 DEF Answered, InviteAnswered
<1> QED
  BY <1>3, <1>4, <1>5

(* Leave keeps what was said about the INVITE, and the leg of a call that a *)
(* provisional answer ended.                                                *)
LEMMA LeaveAnswered ==
    ASSUME NEW w, WorldOK(w), w.ch.state = "Terminate" => ~w.ch.retry, ch.ist \in Trans
    PROVE  /\ InviteAnswered(w.tr) => InviteAnswered(Leave(w).tr)
           /\ w.leg = "provisional" => Leave(w).leg = "provisional"
<1>1. CASE w.ch.state # "Terminate"
  BY <1>1 DEF Leave
<1>2. CASE w.ch.state = "Terminate"
  <2>1. /\ Leave(w) = FreeRes(w) /\ SameTrans(w, FreeRes(w))
        /\ FreeRes(w).leg = FreedLeg(w.leg)
    BY <1>2, FreeResIs DEF Leave
  <2>2. SameRow(w.tr[ch.ist], FreeRes(w).tr[ch.ist])
    BY <2>1 DEF SameTrans
  <2> QED
    BY <2>1, <2>2 DEF SameRow, InviteAnswered, FreedLeg
<1> QED
  BY <1>1, <1>2

LEMMA AnswerAnswers ==
    ASSUME IInv, ch.state = "Ring", NEW class \in Classes, NEW sdp \in BOOLEAN, Answer(class, sdp)
    PROVE  InviteAnswered(tr') \/ leg' = "provisional"
<1> DEFINE w == OnAccept(World, class, sdp)
           p == [w EXCEPT !.leg = "provisional"]
<1>1. /\ WorldOK(World) /\ World.ch = ch /\ ch \in ChannelType /\ ch.ist # None /\ ~ch.retry
  BY WorldIs DEF ChanOK
<1>2. Accepted(World, w, class, sdp)
  BY <1>1, OnAcceptIs
<1>3. /\ class = "2xx" => Returns(w, Outer)
      /\ class = "3456xx" => Returns(Asks(w), Outer)
      /\ class = "1xx" => Returns(p, Outer)
  BY DEF Answer
<1> HIDE DEF w
<1>4. /\ WorldOK(w) /\ w.ch.state \in {"Accept", "Terminate"}
      /\ w.ch.state = "Terminate" => ~w.ch.retry
      /\ class # "1xx" => InviteAnswered(w.tr)
  <2>1. WorldOK(w) /\ Answered(World, w, class)
    BY <1>2 DEF Accepted
  <2>2. CASE class = "2xx"
    <3>1. w.ch = [ch EXCEPT !.dialog = TRUE, !.myBody = ch.myBody \/ sdp,
                            !.state = "Accept", !.retry = TRUE, !.waived = FALSE]
      BY <1>1, <1>2, <2>2 DEF Accepted
    <3>2. w.ch.state = "Accept"
      BY <1>1, <3>1 DEF ChannelType
    <3> QED
      BY <1>1, <2>1, <3>2 DEF Answered, InviteAnswered
  <2>3. CASE class # "2xx"
    <3>1. w.ch = [ch EXCEPT !.dialog = TRUE, !.myBody = ch.myBody \/ sdp, !.state = "Terminate"]
      BY <1>1, <1>2, <2>3 DEF Accepted
    <3>2. w.ch.state = "Terminate" /\ ~w.ch.retry
      BY <1>1, <3>1 DEF ChannelType
    <3> QED
      BY <1>1, <2>1, <3>2 DEF Answered, InviteAnswered
  <2> QED
    BY <2>2, <2>3
<1>5. /\ WorldOK(Asks(w)) /\ Asks(w).ch = w.ch /\ Asks(w).tr = w.tr
      /\ WorldOK(p) /\ p.ch = w.ch /\ p.leg = "provisional"
  BY <1>4 DEF WorldOK, Worlds, Asks, LegType
<1> HIDE DEF p
<1>6. ch.ist \in Trans
  BY <1>1 DEF ChannelType
<1>7. ASSUME NEW x, WorldOK(x), x.ch = w.ch, Returns(x, Outer)
      PROVE  /\ InviteAnswered(x.tr) => InviteAnswered(tr')
             /\ x.leg = "provisional" => leg' = "provisional"
  <2>1. x.ch.state = "Terminate" => ~x.ch.retry
    BY <1>4, <1>7
  <2>2. tr' = Leave(x).tr /\ leg' = Leave(x).leg
    BY <1>7 DEF Returns, Becomes
  <2> QED
    BY <1>6, <1>7, <2>1, <2>2, LeaveAnswered
<1> QED
  BY <1>3, <1>4, <1>5, <1>7 DEF Classes

(* The INVITE of a ringing channel has its final response before the        *)
(* channel stops ringing, unless the application gave a provisional code.   *)
THEOREM RingingAnswered == Spec => RingingInviteIsAnswered
<1> DEFINE A == ch.state = "Ring" /\ ch'.state # "Ring" /\ leg' # "provisional" /\ bad' = "none"
                  => InviteAnswered(tr')
<1>1. IInv /\ [Next]_vars => [A]_vars
  <2> SUFFICES ASSUME IInv, Next, ch.state = "Ring", ch'.state # "Ring", leg' # "provisional"
               PROVE  InviteAnswered(tr')
    OBVIOUS
  <2>1. CASE Network
    <3>1. ASSUME NEW t \in Trans, NEW p \in Transports,
                 PeerBye(t, p = "TCP") \/ PeerCancel(t, p = "TCP")
          PROVE  InviteAnswered(tr')
      BY <3>1, HangupAnswers
    <3>2. ASSUME NEW t \in Trans, NEW b,
                 \/ PeerInvite(t, b) \/ PeerReInvite(t, b) \/ PeerProvisional(t, b)
                 \/ PeerAnswer(t, b) \/ PeerError(t) \/ PeerAck(b)
                 \/ \E n \in Trans : PeerChallenge(t, n)
          PROVE  FALSE
      <4>1. Idle
        BY <3>2 DEF PeerInvite, PeerReInvite, PeerProvisional, PeerAnswer, PeerError, PeerAck,
                    PeerChallenge
      <4> QED
        BY <3>2, <4>1, RingMessages
    <3>3. ch.ist \in Trans
      BY WorldIs DEF ChanOK, ChannelType
    <3> QED
      BY <2>1, <3>1, <3>2, <3>3 DEF Network
  <2>2. CASE Application
    <3>1. ASSUME NEW class \in Classes, NEW sdp \in BOOLEAN, Answer(class, sdp)
          PROVE  InviteAnswered(tr')
      BY <3>1, AnswerAnswers
    <3>2. ASSUME RingBack PROVE FALSE
      <4>1. Returns(OnRingBackWhileRing(World), Outer)
        BY <3>2 DEF RingBack
      <4> QED
        BY <4>1, ChState, OnRingBackKeeps, StaysRing DEF Keeps
    <3>3. ~Bye /\ \A t, sdp : ~OutCall(t, sdp) /\ ~ReInvite(t)
      BY DEF Bye, OutCall, ReInvite
    <3> QED
      BY <2>2, <3>1, <3>2, <3>3 DEF Application, Classes
  <2>3. CASE Unwind
    BY <2>3, RingUnwinds
  <2>4. CASE CalloutTimer \/ RetryTimer \/ \E t \in Trans : TransTimer(t)
    BY <2>4, RingTimers
  <2> QED
    BY <2>1, <2>2, <2>3, <2>4 DEF Next
<1> QED
  BY <1>1, Invariant, PTL DEF Spec, RingingInviteIsAnswered, InviteAnswered
=============================================================================
