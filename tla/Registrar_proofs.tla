--------------------------- MODULE Registrar_proofs ---------------------------
(***************************************************************************)
(* Proofs about Registrar, for any number of phones and REGISTERs and any  *)
(* times with MaxDelay < Linger < Binding.  The argument is that a copy of *)
(* a REGISTER whose response was heard, or that is not the phone's last,   *)
(* always meets its transaction: a transaction outlives the copies of its  *)
(* request.  So the only REGISTER that binds the device is the one its     *)
(* phone waits for, and its age is the time since the phone sent it.       *)
(***************************************************************************)
EXTENDS Registrar, TLAPS, FiniteSetTheorems

(* The one timer of a device on line, and how old the binding can be.       *)
Timed ==
    /\ (state = "OnLine") = (status = "online")
    /\ state = "OffLine" => timers = {}
    /\ state = "OnLine" => \E t \in Int : /\ timers = {t} /\ -Slack <= t /\ t <= Binding
                                         /\ age + t <= MaxDelay + Binding

SameKey(a, b) == a.from = b.from /\ a.cseq = b.cseq

(* The REGISTERs of the network and their transactions.                     *)
NetSound ==
    /\ \A m \in net : m.cseq <= phone[m.from].cseq
    /\ \A m \in net : m.cseq = phone[m.from].cseq => m.age = phone[m.from].since
    /\ \A m, n \in net : SameKey(m, n) => m = n
    /\ \A m \in net : m.cseq < phone[m.from].cseq \/ ~phone[m.from].waits => Lingering(m)
    /\ \A m \in net, t \in nists : SameKey(t, m) => t.left >= Linger - m.age
    /\ \A t \in nists : t.cseq <= phone[t.from].cseq
    /\ \A p \in Phones : phone[p].waits => ~phone[p].bound

(* A phone is bound, or a copy of its accepted REGISTER may still tell it.  *)
Promised(p) ==
    \/ phone[p].bound
    \/ \E m \in net : /\ m.from = p /\ m.cseq = phone[p].cseq
                      /\ Code[m.form] = 200 /\ m.stay /\ Lingering(m)

Kept(p) == state = "OnLine" /\ contact = p /\ \A t \in timers : t + phone[p].since >= Binding

PromisesKept ==
    \A p \in Phones : Promised(p) /\ ~phone[p].other /\ phone[p].since < Binding => Kept(p)

IInv == TypeOK /\ Timed /\ NetSound /\ PromisesKept
-----------------------------------------------------------------------------
LEMMA TypeNext ==
    ASSUME TypeOK, [Next]_vars
    PROVE  TypeOK'
<1> USE RegistrarAssumption
<1>0. ASSUME NEW ph \in [Phones -> [cseq : 0 .. Requests, waits : BOOLEAN, since : 0 .. Binding,
                                   bound : BOOLEAN, other : BOOLEAN]],
             NEW m \in net, phone' \in Hears(ph, m)
      PROVE  phone' \in [Phones -> [cseq : 0 .. Requests, waits : BOOLEAN, since : 0 .. Binding,
                                   bound : BOOLEAN, other : BOOLEAN]]
  <2>1. (Code[m.form] = 200 /\ m.stay) \in BOOLEAN /\ m.from \in Phones
    BY DEF TypeOK
  <2> DEFINE b == Code[m.form] = 200 /\ m.stay
  <2>2. \/ phone' = ph
        \/ phone' = [ph EXCEPT ![m.from].waits = FALSE, ![m.from].bound = b]
    BY <1>0 DEF Hears
  <2>3. b \in BOOLEAN
    BY <2>1
  <2> HIDE DEF b
  <2>4. CASE phone' = ph
    BY <2>4
  <2>5. CASE phone' = [ph EXCEPT ![m.from].waits = FALSE, ![m.from].bound = b]
    <3>1. PICK d : d = [ph[m.from] EXCEPT !.waits = FALSE, !.bound = b]
      OBVIOUS
    <3>2. d \in [cseq : 0 .. Requests, waits : BOOLEAN, since : 0 .. Binding, bound : BOOLEAN, other : BOOLEAN]
      BY <2>1, <2>3, <3>1
    <3>3. phone' = [ph EXCEPT ![m.from] = d]
      BY <2>5, <3>1
    <3> QED
      BY <3>2, <3>3
  <2> QED
    BY <2>2, <2>4, <2>5
<1>1. ASSUME NEW p \in Phones, Register(p) PROVE TypeOK'
  BY <1>1 DEF Register, TypeOK, MaxAge
<1>2. ASSUME NEW m \in net, Receive(m) PROVE TypeOK'
  <2>1. CASE Known(m)
    BY <1>0, <1>2, <2>1 DEF Receive, TypeOK
  <2>2. CASE ~Known(m)
    <3>1. nists' \subseteq [from : Phones, cseq : 1 .. Requests, left : 0 .. Linger] /\ UNCHANGED net
      BY <1>2, <2>2 DEF Receive, TypeOK
    <3>2. CASE Code[m.form] = 200
      <4>1. Registers(m) \in [Phones -> [cseq : 0 .. Requests, waits : BOOLEAN, since : 0 .. Binding,
                                        bound : BOOLEAN, other : BOOLEAN]]
        BY DEF Registers, TypeOK
      <4>2. Accept(m) /\ phone' \in Hears(Registers(m), m)
        BY <1>2, <2>2, <3>2 DEF Receive, RcvRegister
      <4>3. m.age \in 0 .. MaxAge /\ m.from \in Phones
        BY DEF TypeOK, MaxAge
      <4> QED
        BY <1>0, <3>1, <4>1, <4>2, <4>3 DEF Accept, SetState, Bind, Unbind, CancelTimer, Cancelled, TypeOK
    <3>3. CASE Code[m.form] # 200
      BY <1>0, <1>2, <2>2, <3>1, <3>3 DEF Receive, RcvRegister, TypeOK
    <3> QED
      BY <3>2, <3>3
  <2> QED
    BY <2>1, <2>2
<1>3. CASE Timeout
  BY <1>3 DEF Timeout, OnTimeout, SetState, TypeOK
<1>4. CASE Tick
  <2>1. net' \subseteq [from : Phones, cseq : 1 .. Requests, form : Forms, stay : BOOLEAN, age : 0 .. MaxDelay]
    BY <1>4 DEF Tick, TypeOK
  <2>2. nists' \subseteq [from : Phones, cseq : 1 .. Requests, left : 0 .. Linger]
    BY <1>4 DEF Tick, Lingers, TypeOK
  <2>3. phone' \in [Phones -> [cseq : 0 .. Requests, waits : BOOLEAN, since : 0 .. Binding,
                              bound : BOOLEAN, other : BOOLEAN]]
    BY <1>4 DEF Tick, TypeOK
  <2>4. timers' \subseteq Int /\ age' \in 0 .. MaxAge
    BY <1>4 DEF Tick, TypeOK, MaxAge
  <2> QED
    BY <1>4, <2>1, <2>2, <2>3, <2>4 DEF Tick, TypeOK
<1>5. CASE UNCHANGED vars
  BY <1>5 DEF vars, TypeOK
<1> QED
  BY <1>1, <1>2, <1>3, <1>4, <1>5 DEF Next
-----------------------------------------------------------------------------
(* A binding has one timer of its own.                                      *)
LEMMA OneTick ==
    ASSUME NEW a \in Int, NEW b \in Int, NEW t \in Int, b <= a + 1, a + t <= MaxDelay + Binding
    PROVE  b + (t - 1) <= MaxDelay + Binding
  BY RegistrarAssumption

LEMMA TimedNext ==
    ASSUME TypeOK, Timed, [Next]_vars
    PROVE  Timed'
<1> USE RegistrarAssumption
<1>1. ASSUME UNCHANGED <<state, status, timers, age>> PROVE Timed'
  BY <1>1 DEF Timed
<1>2. ASSUME NEW m \in net, Accept(m) PROVE Timed'
  <2>1. m.age \in 0 .. MaxDelay
    BY DEF TypeOK
  <2>2. (state' = "OnLine") = (status' = "online")
    BY <1>2 DEF Accept, SetState, Timed, TypeOK
  <2>3. CASE m.stay
    <3>1. state' = "OnLine" /\ timers' = {Binding} /\ age' = m.age
      BY <1>2, <2>3 DEF Accept, SetState, Bind, CancelTimer, Cancelled
    <3> QED
      BY <2>1, <2>2, <3>1 DEF Timed
  <2>4. CASE ~m.stay
    <3>1. state' = "OffLine" /\ timers' = {}
      BY <1>2, <2>4 DEF Accept, SetState, Unbind, CancelTimer, Cancelled
    <3> QED
      BY <2>2, <3>1 DEF Timed
  <2> QED
    BY <2>3, <2>4
<1>3. ASSUME NEW m \in net, Receive(m) PROVE Timed'
  BY <1>1, <1>2, <1>3 DEF Receive, RcvRegister
<1>4. CASE Timeout
  <2>1. PICK t \in timers : OnTimeout(t)
    BY <1>4 DEF Timeout
  <2>2. timers' = {} /\ state' = "OffLine" /\ (state' = "OnLine") = (status' = "online")
    BY <2>1 DEF OnTimeout, SetState, Timed, TypeOK
  <2> QED
    BY <2>2 DEF Timed
<1>5. CASE Tick
  <2>1. UNCHANGED <<state, status>> /\ timers' = {t - 1 : t \in timers} /\ \A t \in timers : t > -Slack
    BY <1>5 DEF Tick
  <2>2. CASE state = "OffLine"
    BY <2>1, <2>2 DEF Timed
  <2>3. CASE state = "OnLine"
    <3>1. PICK t \in Int : /\ timers = {t} /\ -Slack <= t /\ t <= Binding
                          /\ age + t <= MaxDelay + Binding
      BY <2>3 DEF Timed
    <3>2. age' <= age + 1 /\ age' \in Int /\ age \in Int
      BY <1>5 DEF Tick, TypeOK, MaxAge
    <3>3. timers' = {t - 1} /\ t - 1 \in Int /\ -Slack <= t - 1 /\ t - 1 <= Binding
      BY <2>1, <3>1
    <3>4. age' + (t - 1) <= MaxDelay + Binding
      BY <3>1, <3>2, OneTick
    <3> QED
      BY <2>1, <2>3, <3>3, <3>4 DEF Timed
  <2> QED
    BY <2>2, <2>3 DEF TypeOK
<1> QED
  BY <1>1, <1>3, <1>4, <1>5 DEF Next, Register, vars
-----------------------------------------------------------------------------
(* What the arrival of a REGISTER does to the phones.                       *)
Told(m, p) ==
    /\ p = m.from /\ m.cseq = phone[p].cseq /\ phone[p].waits
    /\ ~phone'[p].waits /\ phone'[p].bound = (Code[m.form] = 200 /\ m.stay)

LEMMA Heard ==
    ASSUME TypeOK, NEW m \in net, NEW ph, DOMAIN ph = Phones, phone' \in Hears(ph, m),
           \A p \in Phones : /\ ph[p] \in [cseq : 0 .. Requests, waits : BOOLEAN, since : 0 .. Binding,
                                           bound : BOOLEAN, other : BOOLEAN]
                             /\ ph[p].cseq = phone[p].cseq /\ ph[p].waits = phone[p].waits
                             /\ ph[p].since = phone[p].since /\ ph[p].bound = phone[p].bound,
           ph = [p \in Phones |-> ph[p]]
    PROVE  \A p \in Phones :
              /\ phone'[p].cseq = phone[p].cseq /\ phone'[p].since = phone[p].since
              /\ phone'[p].other = ph[p].other
              /\ (phone'[p].waits = phone[p].waits /\ phone'[p].bound = phone[p].bound) \/ Told(m, p)
<1>1. CASE phone' = ph
  BY <1>1
<1>2. CASE phone' # ph
  <2> DEFINE b == Code[m.form] = 200 /\ m.stay
  <2>1. ph[m.from].waits /\ ph[m.from].cseq = m.cseq
    BY <1>2 DEF Hears
  <2>2. phone' = [ph EXCEPT ![m.from].waits = FALSE, ![m.from].bound = b]
    BY <1>2 DEF Hears
  <2> HIDE DEF b
  <2> DEFINE d == [ph[m.from] EXCEPT !.waits = FALSE, !.bound = b]
  <2>3. phone' = [ph EXCEPT ![m.from] = d] /\ m.from \in Phones
    BY <2>2 DEF TypeOK
  <2>4. /\ d.cseq = ph[m.from].cseq /\ d.since = ph[m.from].since /\ d.other = ph[m.from].other
        /\ d.waits = FALSE /\ d.bound = b
    BY <2>3
  <2> HIDE DEF d
  <2>5. phone'[m.from] = d /\ \A p \in Phones : p # m.from => phone'[p] = ph[p]
    BY <2>3
  <2>6. Told(m, m.from)
    BY <2>1, <2>3, <2>4, <2>5 DEF Told, b
  <2> QED
    BY <2>3, <2>4, <2>5, <2>6
<1> QED
  BY <1>1, <1>2

LEMMA Receipt ==
    ASSUME TypeOK, NEW m \in net, Receive(m)
    PROVE  /\ UNCHANGED net /\ m.from \in Phones
           /\ \A p \in Phones :
                 /\ phone'[p].cseq = phone[p].cseq /\ phone'[p].since = phone[p].since
                 /\ (phone'[p].waits = phone[p].waits /\ phone'[p].bound = phone[p].bound) \/ Told(m, p)
           /\ Lingering(m) => UNCHANGED nists
           /\ ~Lingering(m) => nists' = nists \cup {[from |-> m.from, cseq |-> m.cseq, left |-> Linger]}
           /\ Lingering(m) \/ Code[m.form] # 200 =>
                 UNCHANGED <<state, contact, timers>> /\ \A p \in Phones : phone'[p].other = phone[p].other
           /\ ~Lingering(m) /\ Code[m.form] = 200 =>
                 Accept(m) /\ \A p \in Phones : phone'[p].other = (p # m.from)
<1>0. m.from \in Phones /\ UNCHANGED net
  BY DEF TypeOK, Receive
<1>1. \A p \in Phones : phone[p] \in [cseq : 0 .. Requests, waits : BOOLEAN, since : 0 .. Binding,
                                      bound : BOOLEAN, other : BOOLEAN]
  BY DEF TypeOK
<1>2. DOMAIN phone = Phones /\ phone = [p \in Phones |-> phone[p]]
  BY DEF TypeOK
<1>3. CASE Lingering(m) \/ Code[m.form] # 200
  <2>0. phone' \in Hears(phone, m)
    BY <1>3 DEF Receive, Known, RcvRegister
  <2>1. \A p \in Phones :
           /\ phone'[p].cseq = phone[p].cseq /\ phone'[p].since = phone[p].since
           /\ phone'[p].other = phone[p].other
           /\ (phone'[p].waits = phone[p].waits /\ phone'[p].bound = phone[p].bound) \/ Told(m, p)
    BY <1>1, <1>2, <2>0, Heard
  <2> QED
    BY <1>0, <1>3, <2>1 DEF Receive, Known, RcvRegister
<1>4. CASE ~Lingering(m) /\ Code[m.form] = 200
  <2>1. Accept(m) /\ phone' \in Hears(Registers(m), m)
    BY <1>4 DEF Receive, Known, RcvRegister
  <2>2. \A p \in Phones :
           /\ Registers(m)[p] \in [cseq : 0 .. Requests, waits : BOOLEAN, since : 0 .. Binding,
                                  bound : BOOLEAN, other : BOOLEAN]
           /\ Registers(m)[p].cseq = phone[p].cseq /\ Registers(m)[p].waits = phone[p].waits
           /\ Registers(m)[p].since = phone[p].since /\ Registers(m)[p].bound = phone[p].bound
           /\ Registers(m)[p].other = (p # m.from)
    BY <1>1 DEF Registers
  <2>3. DOMAIN Registers(m) = Phones /\ Registers(m) = [p \in Phones |-> Registers(m)[p]]
    BY DEF Registers
  <2>4. \A p \in Phones :
           /\ phone'[p].cseq = phone[p].cseq /\ phone'[p].since = phone[p].since
           /\ phone'[p].other = Registers(m)[p].other
           /\ (phone'[p].waits = phone[p].waits /\ phone'[p].bound = phone[p].bound) \/ Told(m, p)
    BY <2>1, <2>2, <2>3, Heard
  <2> QED
    BY <1>0, <1>4, <2>1, <2>2, <2>4 DEF Receive, Known
<1> QED
  BY <1>3, <1>4
-----------------------------------------------------------------------------
(* What was in the network and in the map before a tick.                    *)
LEMMA Older ==
    ASSUME TypeOK, Tick
    PROVE  /\ \A m \in net' : \E n \in net : /\ n.age < MaxDelay /\ m.age = n.age + 1
                                           /\ m.from = n.from /\ m.cseq = n.cseq
                                           /\ m.form = n.form /\ m.stay = n.stay
                                           /\ m = [n EXCEPT !.age = @ + 1]
           /\ \A u \in nists' : \E t \in nists : /\ u.left = t.left - 1
                                                /\ u.from = t.from /\ u.cseq = t.cseq
           /\ \A t \in nists : t.left > 0 =>
                 \E u \in nists' : u.from = t.from /\ u.cseq = t.cseq
           /\ \A p \in Phones :
                 /\ phone'[p].cseq = phone[p].cseq /\ phone'[p].waits = phone[p].waits
                 /\ phone'[p].bound = phone[p].bound /\ phone'[p].other = phone[p].other
                 /\ phone[p].since < Binding => phone'[p].since = phone[p].since + 1
                 /\ phone'[p].since < Binding => phone[p].since < Binding
<1> USE RegistrarAssumption
<1>1. ASSUME NEW m \in net'
      PROVE  \E n \in net : /\ n.age < MaxDelay /\ m.age = n.age + 1
                           /\ m.from = n.from /\ m.cseq = n.cseq
                           /\ m.form = n.form /\ m.stay = n.stay
                           /\ m = [n EXCEPT !.age = @ + 1]
  <2>1. PICK n \in net : n.age < MaxDelay /\ m = [n EXCEPT !.age = @ + 1]
    BY <1>1 DEF Tick
  <2>2. n \in [from : Phones, cseq : 1 .. Requests, form : Forms, stay : BOOLEAN, age : 0 .. MaxDelay]
    BY DEF TypeOK
  <2>3. /\ m.age = n.age + 1 /\ m.from = n.from /\ m.cseq = n.cseq
        /\ m.form = n.form /\ m.stay = n.stay
    BY <2>1, <2>2
  <2> QED
    BY <2>1, <2>3
<1>2. ASSUME NEW u \in nists'
      PROVE  \E t \in nists : u.left = t.left - 1 /\ u.from = t.from /\ u.cseq = t.cseq
  <2>1. PICK t \in nists : u = [t EXCEPT !.left = @ - 1]
    BY <1>2 DEF Tick
  <2>2. t \in [from : Phones, cseq : 1 .. Requests, left : 0 .. Linger]
    BY DEF TypeOK
  <2>3. u.left = t.left - 1 /\ u.from = t.from /\ u.cseq = t.cseq
    BY <2>1, <2>2
  <2> QED
    BY <2>3
<1>3. ASSUME NEW t \in nists, t.left > 0
      PROVE  \E u \in nists' : u.from = t.from /\ u.cseq = t.cseq
  <2>1. [t EXCEPT !.left = @ - 1] \in nists'
    BY <1>3 DEF Tick, Lingers
  <2>2. [t EXCEPT !.left = @ - 1].from = t.from /\ [t EXCEPT !.left = @ - 1].cseq = t.cseq
    BY DEF TypeOK
  <2> QED
    BY <2>1, <2>2
<1>4. ASSUME NEW p \in Phones
      PROVE  /\ phone'[p].cseq = phone[p].cseq /\ phone'[p].waits = phone[p].waits
             /\ phone'[p].bound = phone[p].bound /\ phone'[p].other = phone[p].other
             /\ phone[p].since < Binding => phone'[p].since = phone[p].since + 1
             /\ phone'[p].since < Binding => phone[p].since < Binding
  <2>1. phone'[p] = [phone[p] EXCEPT !.since = IF @ < Binding THEN @ + 1 ELSE @]
    BY DEF Tick
  <2>2. phone[p] \in [cseq : 0 .. Requests, waits : BOOLEAN, since : 0 .. Binding,
                     bound : BOOLEAN, other : BOOLEAN]
    BY DEF TypeOK
  <2> QED
    BY <2>1, <2>2
<1> QED
  BY <1>1, <1>2, <1>3, <1>4

LEMMA NetTick ==
    ASSUME TypeOK, NetSound, Tick
    PROVE  NetSound'
<1> USE RegistrarAssumption
<1>1. \A m \in net' : \E n \in net : /\ n.age < MaxDelay /\ m.age = n.age + 1
                                    /\ m.from = n.from /\ m.cseq = n.cseq
                                    /\ m = [n EXCEPT !.age = @ + 1]
  BY Older
<1>2. \A u \in nists' : \E t \in nists : u.left = t.left - 1 /\ u.from = t.from /\ u.cseq = t.cseq
  BY Older
<1>3. \A p \in Phones :
         /\ phone'[p].cseq = phone[p].cseq /\ phone'[p].waits = phone[p].waits
         /\ phone'[p].bound = phone[p].bound
         /\ phone[p].since < Binding => phone'[p].since = phone[p].since + 1
  BY Older
<1>4. /\ \A m \in net : m.from \in Phones /\ m.age \in 0 .. MaxDelay
      /\ \A t \in nists : t.from \in Phones /\ t.left \in Int
  BY DEF TypeOK
<1>5. ASSUME NEW m \in net'
      PROVE  /\ m.cseq <= phone'[m.from].cseq
             /\ m.cseq = phone'[m.from].cseq => m.age = phone'[m.from].since
             /\ m.cseq < phone'[m.from].cseq \/ ~phone'[m.from].waits => Lingering(m)'
  <2>1. PICK n \in net : /\ n.age < MaxDelay /\ m.age = n.age + 1
                        /\ m.from = n.from /\ m.cseq = n.cseq
    BY <1>1
  <2>2. n.from \in Phones /\ n.age \in 0 .. MaxDelay
    BY <1>4, <2>1
  <2>3. m.cseq <= phone'[m.from].cseq
    BY <1>3, <2>1, <2>2 DEF NetSound
  <2>4. ASSUME m.cseq = phone'[m.from].cseq PROVE m.age = phone'[m.from].since
    <3>1. n.age = phone[n.from].since
      BY <1>3, <2>1, <2>2, <2>4 DEF NetSound
    <3>2. phone[n.from].since < Binding
      BY <2>1, <2>2, <3>1
    <3> QED
      BY <1>3, <2>1, <2>2, <3>1, <3>2
  <2>5. ASSUME m.cseq < phone'[m.from].cseq \/ ~phone'[m.from].waits PROVE Lingering(m)'
    <3>1. Lingering(n)
      BY <1>3, <2>1, <2>2, <2>5 DEF NetSound
    <3>2. PICK t \in nists : t.from = n.from /\ t.cseq = n.cseq
      BY <3>1 DEF Lingering
    <3>3. t.left >= Linger - n.age
      BY <2>1, <3>2 DEF NetSound, SameKey
    <3>4. t.left > 0
      BY <1>4, <2>1, <2>2, <3>2, <3>3
    <3>5. \E u \in nists' : u.from = t.from /\ u.cseq = t.cseq
      BY <3>2, <3>4, Older
    <3> QED
      BY <2>1, <3>2, <3>5 DEF Lingering
  <2> QED
    BY <2>3, <2>4, <2>5
<1>6. \A m, n \in net' : SameKey(m, n) => m = n
  <2> SUFFICES ASSUME NEW m \in net', NEW n \in net', SameKey(m, n) PROVE m = n
    OBVIOUS
  <2>1. PICK a \in net : m.from = a.from /\ m.cseq = a.cseq /\ m = [a EXCEPT !.age = @ + 1]
    BY <1>1
  <2>2. PICK b \in net : n.from = b.from /\ n.cseq = b.cseq /\ n = [b EXCEPT !.age = @ + 1]
    BY <1>1
  <2>3. a = b
    BY <2>1, <2>2 DEF NetSound, SameKey
  <2> QED
    BY <2>1, <2>2, <2>3
<1>7. ASSUME NEW m \in net', NEW u \in nists', SameKey(u, m) PROVE u.left >= Linger - m.age
  <2>1. PICK n \in net : m.age = n.age + 1 /\ m.from = n.from /\ m.cseq = n.cseq
    BY <1>1
  <2>2. PICK t \in nists : u.left = t.left - 1 /\ u.from = t.from /\ u.cseq = t.cseq
    BY <1>2
  <2>3. t.left >= Linger - n.age
    BY <1>7, <2>1, <2>2 DEF NetSound, SameKey
  <2>4. n.age \in Int /\ t.left \in Int
    BY <1>4, <2>1, <2>2
  <2> QED
    BY <2>1, <2>2, <2>3, <2>4
<1>8. \A u \in nists' : u.cseq <= phone'[u.from].cseq
  BY <1>2, <1>3, <1>4 DEF NetSound
<1>9. \A p \in Phones : phone'[p].waits => ~phone'[p].bound
  BY <1>3 DEF NetSound
<1> QED
  BY <1>5, <1>6, <1>7, <1>8, <1>9 DEF NetSound

LEMMA NetNext ==
    ASSUME TypeOK, NetSound, [Next]_vars
    PROVE  NetSound'
<1> USE RegistrarAssumption
<1>1. ASSUME NEW p \in Phones, Register(p) PROVE NetSound'
  <2>1. PICK f \in Forms, stay \in BOOLEAN :
           net' = net \cup {[from |-> p, cseq |-> phone[p].cseq + 1, form |-> f, stay |-> stay, age |-> 0]}
    BY <1>1 DEF Register
  <2> DEFINE new == [from |-> p, cseq |-> phone[p].cseq + 1, form |-> f, stay |-> stay, age |-> 0]
  <2>2. /\ phone'[p].cseq = phone[p].cseq + 1 /\ phone'[p].waits = TRUE
        /\ phone'[p].since = 0 /\ phone'[p].bound = FALSE
        /\ \A q \in Phones : q # p => phone'[q] = phone[q]
    BY <1>1 DEF Register, TypeOK
  <2>3. /\ new.from = p /\ new.cseq = phone[p].cseq + 1 /\ new.age = 0 /\ net' = net \cup {new}
    BY <2>1
  <2> HIDE DEF new
  <2>4. UNCHANGED nists /\ \A m : Lingering(m)' <=> Lingering(m)
    BY <1>1 DEF Register, Lingering
  <2>5. phone[p].cseq \in Nat /\ \A m \in net : m.from \in Phones /\ m.cseq \in Nat
    BY DEF TypeOK
  <2>6. \A m \in net : m.from = p => m.cseq <= phone[p].cseq
    BY DEF NetSound
  <2>7. \A m \in net : m.from = p => Lingering(m)
    <3> SUFFICES ASSUME NEW m \in net, m.from = p, ~Lingering(m) PROVE FALSE
      OBVIOUS
    <3>1. m.cseq = phone[p].cseq /\ phone[p].waits /\ m.age = phone[p].since
      BY <2>5, <2>6 DEF NetSound
    <3>2. phone[p].since >= Linger
      BY <1>1, <3>1 DEF Register
    <3> QED
      BY <3>1, <3>2 DEF TypeOK
  <2>8. \A t \in nists : t.from = p => t.cseq <= phone[p].cseq /\ t.cseq \in Nat
    BY DEF NetSound, TypeOK
  <2>9. \A m \in net' : m.cseq <= phone'[m.from].cseq
    BY <2>2, <2>3, <2>5, <2>6 DEF NetSound
  <2>10. \A m \in net' : m.cseq = phone'[m.from].cseq => m.age = phone'[m.from].since
    BY <2>2, <2>3, <2>5, <2>6 DEF NetSound
  <2>11. \A m, n \in net' : SameKey(m, n) => m = n
    BY <2>3, <2>5, <2>6 DEF NetSound, SameKey
  <2>12. \A m \in net' : m.cseq < phone'[m.from].cseq \/ ~phone'[m.from].waits => Lingering(m)'
    BY <2>2, <2>3, <2>4, <2>5, <2>7 DEF NetSound
  <2>13. \A m \in net', t \in nists' : SameKey(t, m) => t.left >= Linger - m.age
    BY <2>3, <2>4, <2>5, <2>8 DEF NetSound, SameKey
  <2>14. \A t \in nists' : t.cseq <= phone'[t.from].cseq
    BY <2>2, <2>4, <2>5, <2>8 DEF NetSound, TypeOK
  <2>15. \A q \in Phones : phone'[q].waits => ~phone'[q].bound
    BY <2>2 DEF NetSound
  <2> QED
    BY <2>9, <2>10, <2>11, <2>12, <2>13, <2>14, <2>15 DEF NetSound
<1>2. ASSUME NEW m \in net, Receive(m) PROVE NetSound'
  <2> DEFINE t0 == [from |-> m.from, cseq |-> m.cseq, left |-> Linger]
  <2>0. t0.from = m.from /\ t0.cseq = m.cseq /\ t0.left = Linger
    OBVIOUS
  <2>1. UNCHANGED nists \/ nists' = nists \cup {t0}
    BY <1>2, Receipt
  <2> HIDE DEF t0
  <2>2. /\ UNCHANGED net /\ nists \subseteq nists'
        /\ \A n \in net : n.from \in Phones /\ n.age \in Nat
        /\ \A t \in nists : t.from \in Phones
    BY <1>2, <2>1, Receipt DEF TypeOK
  <2>3. \A p \in Phones : /\ phone'[p].cseq = phone[p].cseq /\ phone'[p].since = phone[p].since
                          /\ (phone'[p].waits = phone[p].waits /\ phone'[p].bound = phone[p].bound) \/ Told(m, p)
    BY <1>2, Receipt
  <2>4. Lingering(m)'
    BY <1>2, <2>0, Receipt DEF Lingering, t0
  <2>5. \A n : Lingering(n) => Lingering(n)'
    BY <2>2 DEF Lingering
  <2>6. \A n \in net' : n.cseq < phone'[n.from].cseq \/ ~phone'[n.from].waits => Lingering(n)'
    <3> SUFFICES ASSUME NEW n \in net, n.cseq < phone'[n.from].cseq \/ ~phone'[n.from].waits, n # m
                 PROVE  Lingering(n)'
      BY <2>2, <2>4
    <3>0. n.from \in Phones
      BY <2>2
    <3>1. CASE Told(m, n.from)
      <4>1. n.cseq # m.cseq
        BY <3>1 DEF Told, NetSound, SameKey
      <4>2. n.cseq < phone[n.from].cseq
        <5>1. n.cseq <= phone[n.from].cseq /\ m.cseq = phone[n.from].cseq
          BY <3>1 DEF Told, NetSound
        <5>2. n.cseq \in Nat /\ m.cseq \in Nat
          BY DEF TypeOK
        <5> QED
          BY <4>1, <5>1, <5>2
      <4> QED
        BY <2>5, <4>2 DEF NetSound
    <3>2. CASE ~Told(m, n.from)
      BY <2>3, <2>5, <3>0, <3>2 DEF NetSound
    <3> QED
      BY <3>1, <3>2
  <2>7. \A n \in net', t \in nists' : SameKey(t, n) => t.left >= Linger - n.age
    BY <2>0, <2>1, <2>2 DEF NetSound, SameKey
  <2>8. \A t \in nists' : t.cseq <= phone'[t.from].cseq
    BY <2>0, <2>1, <2>2, <2>3 DEF NetSound
  <2>9. \A p \in Phones : phone'[p].waits => ~phone'[p].bound
    BY <2>3 DEF NetSound, Told
  <2>10. \A n \in net' : /\ n.cseq <= phone'[n.from].cseq
                         /\ n.cseq = phone'[n.from].cseq => n.age = phone'[n.from].since
    BY <2>2, <2>3 DEF NetSound
  <2>11. \A k, n \in net' : SameKey(k, n) => k = n
    BY <2>2 DEF NetSound
  <2> QED
    BY <2>6, <2>7, <2>8, <2>9, <2>10, <2>11 DEF NetSound
<1>3. CASE Timeout
  BY <1>3 DEF Timeout, NetSound, Lingering
<1>5. CASE UNCHANGED vars
  BY <1>5 DEF vars, NetSound, Lingering
<1> QED
  BY <1>1, <1>2, <1>3, <1>5, NetTick DEF Next
-----------------------------------------------------------------------------
(* The promises.  A REGISTER that binds anew is the one its phone waits for.*)
LEMMA KeptReceived ==
    ASSUME TypeOK, NetSound, PromisesKept, NEW m \in net, Receive(m)
    PROVE  PromisesKept'
<1> USE RegistrarAssumption
<1> SUFFICES ASSUME NEW p \in Phones, Promised(p)', ~phone'[p].other, phone'[p].since < Binding
             PROVE  Kept(p)'
  BY DEF PromisesKept
<1>0. /\ UNCHANGED net /\ m.from \in Phones
      /\ phone'[p].cseq = phone[p].cseq /\ phone'[p].since = phone[p].since
      /\ (phone'[p].waits = phone[p].waits /\ phone'[p].bound = phone[p].bound) \/ Told(m, p)
  BY Receipt
<1>1. CASE Lingering(m) \/ Code[m.form] # 200
  <2>1. UNCHANGED <<state, contact, timers>> /\ ~phone[p].other
    BY <1>1, Receipt
  <2>2. Promised(p)
    <3>1. CASE phone'[p].bound
      <4>1. CASE phone[p].bound
        BY <4>1 DEF Promised
      <4>2. CASE ~phone[p].bound
        <5>1. Told(m, p) /\ Code[m.form] = 200 /\ m.stay
          BY <1>0, <3>1, <4>2 DEF Told
        <5> QED
          BY <1>1, <5>1 DEF Promised, Told
      <4> QED
        BY <4>1, <4>2
    <3>2. CASE ~phone'[p].bound
      <4>1. PICK n \in net : /\ n.from = p /\ n.cseq = phone[p].cseq
                            /\ Code[n.form] = 200 /\ n.stay /\ Lingering(n)'
        BY <1>0, <3>2 DEF Promised
      <4>2. Lingering(n)
        <5>1. CASE n = m
          BY <1>1, <4>1, <5>1
        <5>2. CASE n # m
          <6>1. ~(n.from = m.from /\ n.cseq = m.cseq)
            BY <5>2 DEF NetSound, SameKey
          <6>2. PICK t \in nists' : t.from = n.from /\ t.cseq = n.cseq
            BY <4>1 DEF Lingering
          <6>3. t \in nists
            BY <6>1, <6>2, Receipt
          <6> QED
            BY <6>2, <6>3 DEF Lingering
        <5> QED
          BY <5>1, <5>2
      <4> QED
        BY <4>1, <4>2 DEF Promised
    <3> QED
      BY <3>1, <3>2
  <2> QED
    BY <1>0, <2>1, <2>2 DEF PromisesKept, Kept
<1>2. CASE ~Lingering(m) /\ Code[m.form] = 200
  <2>1. Accept(m) /\ p = m.from
    BY <1>2, Receipt
  <2>2. m.cseq = phone[p].cseq /\ phone[p].waits /\ m.age = phone[p].since
    <3>1. m.cseq \in Nat /\ phone[p].cseq \in Nat
      BY DEF TypeOK
    <3>2. m.cseq <= phone[p].cseq /\ ~(m.cseq < phone[p].cseq) /\ phone[p].waits
      BY <1>2, <2>1 DEF NetSound
    <3> QED
      BY <2>1, <3>1, <3>2 DEF NetSound
  <2>3. m.stay
    <3>1. CASE phone'[p].bound
      BY <1>0, <2>2, <3>1 DEF Told, NetSound
    <3>2. CASE ~phone'[p].bound
      <4>1. PICK n \in net : n.from = p /\ n.cseq = phone[p].cseq /\ n.stay
        BY <1>0, <3>2 DEF Promised
      <4>2. n = m
        BY <2>1, <2>2, <4>1 DEF NetSound, SameKey
      <4> QED
        BY <4>1, <4>2
    <3> QED
      BY <3>1, <3>2
  <2>4. state' = "OnLine" /\ contact' = p /\ timers' = {Binding}
    BY <2>1, <2>3 DEF Accept, SetState, Bind, CancelTimer, Cancelled
  <2>5. phone'[p].since \in Nat
    BY <1>0 DEF TypeOK
  <2> QED
    BY <2>4, <2>5 DEF Kept
<1> QED
  BY <1>1, <1>2

LEMMA KeptTick ==
    ASSUME TypeOK, PromisesKept, Tick
    PROVE  PromisesKept'
<1> USE RegistrarAssumption
<1> SUFFICES ASSUME NEW p \in Phones, Promised(p)', ~phone'[p].other, phone'[p].since < Binding
             PROVE  Kept(p)'
  BY DEF PromisesKept
<1>1. /\ phone'[p].cseq = phone[p].cseq /\ phone'[p].bound = phone[p].bound
      /\ phone'[p].other = phone[p].other
      /\ phone[p].since < Binding /\ phone'[p].since = phone[p].since + 1
  BY Older
<1>2. Promised(p)
  <2>1. CASE phone'[p].bound
    BY <1>1, <2>1 DEF Promised
  <2>2. CASE ~phone'[p].bound
    <3>1. PICK m \in net' : /\ m.from = p /\ m.cseq = phone[p].cseq
                           /\ Code[m.form] = 200 /\ m.stay /\ Lingering(m)'
      BY <1>1, <2>2 DEF Promised
    <3>2. PICK n \in net : /\ m.from = n.from /\ m.cseq = n.cseq
                          /\ m.form = n.form /\ m.stay = n.stay
      BY Older
    <3>3. PICK u \in nists' : u.from = m.from /\ u.cseq = m.cseq
      BY <3>1 DEF Lingering
    <3>4. \E t \in nists : u.from = t.from /\ u.cseq = t.cseq
      BY <3>3, Older
    <3>5. Lingering(n)
      BY <3>2, <3>3, <3>4 DEF Lingering
    <3> QED
      BY <3>1, <3>2, <3>5 DEF Promised
  <2> QED
    BY <2>1, <2>2
<1>3. state = "OnLine" /\ contact = p /\ \A t \in timers : t + phone[p].since >= Binding
  BY <1>1, <1>2 DEF PromisesKept, Kept
<1>4. UNCHANGED <<state, contact>> /\ timers' = {t - 1 : t \in timers}
  BY DEF Tick
<1>5. \A t \in timers' : t + phone'[p].since >= Binding
  <2> SUFFICES ASSUME NEW t \in timers PROVE (t - 1) + phone'[p].since >= Binding
    BY <1>4
  <2>1. t \in Int /\ phone[p].since \in Int /\ t + phone[p].since >= Binding
    BY <1>3 DEF TypeOK
  <2> QED
    BY <1>1, <2>1
<1> QED
  BY <1>3, <1>4, <1>5 DEF Kept

LEMMA KeptNext ==
    ASSUME TypeOK, NetSound, PromisesKept, [Next]_vars
    PROVE  PromisesKept'
<1> USE RegistrarAssumption
<1>1. ASSUME NEW p \in Phones, Register(p) PROVE PromisesKept'
  <2> SUFFICES ASSUME NEW q \in Phones, Promised(q)', ~phone'[q].other, phone'[q].since < Binding
               PROVE  Kept(q)'
    BY DEF PromisesKept
  <2>0. PICK f \in Forms, stay \in BOOLEAN :
           net' = net \cup {[from |-> p, cseq |-> phone[p].cseq + 1, form |-> f, stay |-> stay, age |-> 0]}
    BY <1>1 DEF Register
  <2> DEFINE new == [from |-> p, cseq |-> phone[p].cseq + 1, form |-> f, stay |-> stay, age |-> 0]
  <2>1. net' = net \cup {new} /\ new.from = p /\ new.cseq = phone[p].cseq + 1
    BY <2>0
  <2> HIDE DEF new
  <2>2. /\ phone'[p].cseq = phone[p].cseq + 1 /\ phone'[p].bound = FALSE
        /\ \A k \in Phones : k # p => phone'[k] = phone[k]
    BY <1>1 DEF Register, TypeOK
  <2>3. UNCHANGED <<state, contact, timers, nists>>
    BY <1>1 DEF Register
  <2>4. CASE q = p
    <3>1. PICK m \in net' : m.from = p /\ m.cseq = phone[p].cseq + 1 /\ Lingering(m)'
      BY <2>2, <2>4 DEF Promised
    <3>2. PICK t \in nists : t.from = p /\ t.cseq = phone[p].cseq + 1
      BY <2>3, <3>1 DEF Lingering
    <3>3. t.cseq <= phone[p].cseq /\ phone[p].cseq \in Nat
      BY <3>2 DEF NetSound, TypeOK
    <3> QED
      BY <3>2, <3>3
  <2>5. CASE q # p
    <3>1. Promised(q)
      BY <2>1, <2>2, <2>3, <2>5 DEF Promised, Lingering
    <3> QED
      BY <2>2, <2>3, <2>5, <3>1 DEF PromisesKept, Kept
  <2> QED
    BY <2>4, <2>5
<1>2. ASSUME NEW m \in net, Receive(m) PROVE PromisesKept'
  BY <1>2, KeptReceived
<1>3. CASE Timeout
  <2> SUFFICES ASSUME NEW p \in Phones, Promised(p)', ~phone'[p].other, phone'[p].since < Binding
               PROVE  Kept(p)'
    BY DEF PromisesKept
  <2>1. PICK t \in timers : t <= 0
    BY <1>3 DEF Timeout
  <2>2. Promised(p) /\ ~phone[p].other /\ phone[p].since < Binding
    BY <1>3 DEF Timeout, Promised, Lingering
  <2>3. t + phone[p].since >= Binding
    BY <2>1, <2>2 DEF PromisesKept, Kept
  <2>4. t \in Int /\ phone[p].since \in Int
    BY <2>1 DEF TypeOK
  <2> QED
    BY <2>1, <2>2, <2>3, <2>4
<1>4. CASE UNCHANGED vars
  BY <1>4 DEF vars, PromisesKept, Promised, Kept, Lingering
<1> QED
  BY <1>1, <1>2, <1>3, <1>4, KeptTick DEF Next
-----------------------------------------------------------------------------
LEMMA InitInv == Init => IInv
<1> USE RegistrarAssumption
<1> SUFFICES ASSUME Init PROVE IInv
  OBVIOUS
<1>1. TypeOK
  BY DEF Init, TypeOK, MaxAge, Silent
<1>2. Timed /\ NetSound
  BY DEF Init, Timed, NetSound, Silent
<1>3. PromisesKept
  BY DEF Init, PromisesKept, Promised, Silent
<1> QED
  BY <1>1, <1>2, <1>3 DEF IInv

LEMMA NextInv == IInv /\ [Next]_vars => IInv'
  BY TypeNext, TimedNext, NetNext, KeptNext DEF IInv

(* The inductive invariant holds in every state, whatever the phones, the   *)
(* number of their REGISTERs and the times.                                 *)
THEOREM Inductive == Spec => []IInv
  BY InitInv, NextInv, PTL DEF Spec

(* Lua's status of the device is the state of the device, and exactly one   *)
(* timer will unbind it while it is on line: the timer of an earlier        *)
(* binding never takes a new one down.                                      *)
THEOREM OneTimerPerBinding == Spec => []OnlineWhileTimed
<1>1. ASSUME IInv PROVE OnlineWhileTimed
  <2>1. CASE state = "OnLine"
    <3>1. PICK t : timers = {t}
      BY <1>1, <2>1 DEF IInv, Timed
    <3>2. Cardinality(timers) = 1
      BY <3>1, FS_Singleton
    <3> QED
      BY <1>1, <2>1, <3>2 DEF IInv, Timed, OnlineWhileTimed
  <2>2. CASE state # "OnLine"
    <3>1. timers = {}
      BY <1>1, <2>2 DEF IInv, Timed, TypeOK
    <3>2. Cardinality(timers) = 0
      BY <3>1, FS_EmptySet
    <3> QED
      BY <1>1, <2>2, <3>2 DEF IInv, Timed, OnlineWhileTimed
  <2> QED
    BY <2>1, <2>2
<1> QED
  BY <1>1, Inductive, PTL

(* What a phone heard holds: copies of REGISTERs, of its own and of others, *)
(* do not take its binding away or shorten it.                              *)
THEOREM BindingsHold == Spec => []PhoneIsReachable
<1>1. ASSUME IInv PROVE PhoneIsReachable
  BY <1>1 DEF IInv, PromisesKept, Promised, Kept, PhoneIsReachable
<1> QED
  BY <1>1, Inductive, PTL

(* No binding outlives the last REGISTER by more than its time and the      *)
(* network's delay.                                                         *)
THEOREM NoGhosts == Spec => []NoGhostBinding
<1> USE RegistrarAssumption
<1>1. ASSUME IInv PROVE NoGhostBinding
  <2> SUFFICES ASSUME state = "OnLine" PROVE age < MaxAge
    BY DEF NoGhostBinding
  <2>1. PICK t \in Int : -Slack <= t /\ age + t <= MaxDelay + Binding
    BY <1>1 DEF IInv, Timed
  <2>2. age \in Int
    BY <1>1 DEF IInv, TypeOK, MaxAge
  <2> QED
    BY <2>1, <2>2 DEF MaxAge
<1> QED
  BY <1>1, Inductive, PTL
=============================================================================
