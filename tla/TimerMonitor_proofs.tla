------------------------ MODULE TimerMonitor_proofs ------------------------
(***************************************************************************)
(* For every length of the second, every set of clients and every set of   *)
(* timer lengths: the timer map fires no timer early, none a second late,  *)
(* and implements TimerService.  The argument is an invariant that ties    *)
(* the unnormalised key of an entry to the deadline the client asked for.  *)
(***************************************************************************)
EXTENDS TimerMonitor, TLAPS

(* The usec field of a key holds one second too much when AddTimer carried. *)
Carry(key) == IF key.usec >= Second THEN Second ELSE 0

KeysMatchDeadlines ==
    \A t \in timers : t.key.sec * Second + t.key.usec = t.due + Carry(t.key)

IdsUnique == \A t, u \in timers : t.id = u.id => t = u

KeysNotNegative == \A t \in timers : t.key.sec \in Nat

IInv == TypeOK /\ KeysMatchDeadlines /\ IdsUnique /\ KeysNotNegative
-----------------------------------------------------------------------------
(* Division by the length of a second: quotient and rest of any time.       *)
LEMMA DivMod ==
    ASSUME NEW n \in Nat
    PROVE  /\ n \div Second \in Nat
           /\ n % Second \in 0 .. Second - 1
           /\ n = (n \div Second) * Second + (n % Second)
BY SecondAssumption

(* A time in an earlier second is at least one second's length smaller.     *)
LEMMA SecondsGrow ==
    ASSUME NEW a \in Nat, NEW b \in Nat, a < b
    PROVE  a * Second + Second <= b * Second
<1>1. PICK d \in Nat : b = a + 1 + d
  BY b = a + 1 + (b - a - 1), b - a - 1 \in Nat
<1>2. b * Second = a * Second + Second + d * Second
  BY <1>1, SecondAssumption
<1>3. d * Second >= 0
  BY <1>1, SecondAssumption
<1> QED
  BY <1>2, <1>3, SecondAssumption

(* AddTimer's key: its type, and the deadline it stands for.                *)
LEMMA KeyOfDeadline ==
    ASSUME NEW t \in Nat, NEW len \in Nat
    PROVE  /\ Key(t, len) \in KeyType
           /\ Key(t, len).sec \in Nat
           /\ Key(t, len).sec * Second + Key(t, len).usec = t + len + Carry(Key(t, len))
<1> DEFINE usec == (t % Second) + (len % Second)
           whole == (t \div Second) + (len \div Second)
<1>1. /\ usec \in 0 .. 2 * Second - 2
      /\ whole \in Nat
      /\ t + len = whole * Second + usec
  <2>1. (t \div Second) * Second + (len \div Second) * Second = whole * Second
    BY DivMod, SecondAssumption
  <2> QED
    BY <2>1, DivMod, SecondAssumption
<1>2. usec \div Second = IF usec >= Second THEN 1 ELSE 0
  BY <1>1, SecondAssumption
<1>3. Key(t, len) = [sec |-> whole + (usec \div Second), usec |-> usec]
  BY DEF Key
<1> HIDE DEF usec, whole
<1>4. Key(t, len).sec = whole + (usec \div Second) /\ Key(t, len).usec = usec
  BY <1>3
<1>5. CASE usec >= Second
  <2>1. Key(t, len).sec = whole + 1 /\ Carry(Key(t, len)) = Second
    BY <1>2, <1>4, <1>5 DEF Carry
  <2>2. (whole + 1) * Second = whole * Second + Second
    BY <1>1, SecondAssumption
  <2> QED
    BY <1>1, <1>3, <1>4, <2>1, <2>2, SecondAssumption DEF KeyType
<1>6. CASE ~(usec >= Second)
  <2>1. Key(t, len).sec = whole /\ Carry(Key(t, len)) = 0
    BY <1>1, <1>2, <1>4, <1>6 DEF Carry
  <2> QED
    BY <1>1, <1>3, <1>4, <2>1, SecondAssumption DEF KeyType
<1> QED
  BY <1>5, <1>6

(* An entry that is before the time of day has passed its deadline.         *)
LEMMA ExpiredIsDue ==
    ASSUME IInv, NEW t \in timers, Expired(t)
    PROVE  t.due < now
<1> DEFINE s == now \div Second
           u == now % Second
<1>1. /\ s \in Nat /\ u \in 0 .. Second - 1 /\ now = s * Second + u
      /\ TimeOfDay(now) = [sec |-> s, usec |-> u]
  BY DivMod, MaxClockAssumption DEF IInv, TypeOK, TimeOfDay
<1>2. /\ t.key.sec \in Nat /\ t.key.usec \in 0 .. 2 * Second - 1 /\ t.due \in Nat
      /\ t.key.sec * Second + t.key.usec = t.due + Carry(t.key)
  BY DEF IInv, TypeOK, KeysNotNegative, KeyType, KeysMatchDeadlines
<1> HIDE DEF s, u
<1>3. CASE t.key.sec < s
  <2>1. t.key.sec * Second + Second <= s * Second
    BY <1>1, <1>2, <1>3, SecondsGrow
  <2>2. CASE t.key.usec >= Second
    <3>1. t.key.sec * Second + t.key.usec = t.due + Second
      BY <1>2, <2>2 DEF Carry
    <3> QED
      BY <1>1, <1>2, <2>1, <3>1, SecondAssumption
  <2>3. CASE ~(t.key.usec >= Second)
    <3>1. t.key.sec * Second + t.key.usec = t.due
      BY <1>2, <2>3, SecondAssumption DEF Carry
    <3> QED
      BY <1>1, <1>2, <2>1, <2>3, <3>1, SecondAssumption
  <2> QED
    BY <2>2, <2>3
<1>4. CASE t.key.sec = s /\ t.key.usec < u
  <2>1. t.key.sec * Second + t.key.usec = t.due
    BY <1>1, <1>2, <1>4, SecondAssumption DEF Carry
  <2> QED
    BY <1>1, <1>2, <1>4, <2>1, SecondAssumption
<1> QED
  BY <1>1, <1>3, <1>4 DEF Expired, Before

(* An entry that is not before the time of day is less than a second late.  *)
LEMMA NotExpiredIsNotLate ==
    ASSUME IInv, NEW t \in timers, ~Expired(t)
    PROVE  now < t.due + Second
<1> DEFINE s == now \div Second
           u == now % Second
<1>1. /\ s \in Nat /\ u \in 0 .. Second - 1 /\ now = s * Second + u
      /\ TimeOfDay(now) = [sec |-> s, usec |-> u]
  BY DivMod, MaxClockAssumption DEF IInv, TypeOK, TimeOfDay
<1>2. /\ t.key.sec \in Nat /\ t.key.usec \in 0 .. 2 * Second - 1 /\ t.due \in Nat
      /\ t.key.sec * Second + t.key.usec = t.due + Carry(t.key)
  BY DEF IInv, TypeOK, KeysNotNegative, KeyType, KeysMatchDeadlines
<1>3. Carry(t.key) \in 0 .. Second /\ t.due + Second >= t.key.sec * Second + t.key.usec
  BY <1>2, SecondAssumption DEF Carry
<1> HIDE DEF s, u
<1>4. t.key.sec > s \/ (t.key.sec = s /\ t.key.usec >= u)
  BY <1>1, <1>2 DEF Expired, Before
<1>5. CASE t.key.sec > s
  <2>1. s * Second + Second <= t.key.sec * Second
    BY <1>1, <1>2, <1>5, SecondsGrow
  <2>2. t.key.usec - Carry(t.key) >= 0
    BY <1>2, SecondAssumption DEF Carry
  <2>3. t.key.sec * Second \in Nat /\ s * Second \in Nat
    BY <1>1, <1>2, SecondAssumption
  <2> QED
    BY <1>1, <1>2, <1>3, <2>1, <2>2, <2>3, SecondAssumption
<1>6. CASE t.key.sec = s /\ t.key.usec >= u
  <2>1. CASE t.key.usec >= Second
    BY <1>1, <1>2, <1>6, <2>1, SecondAssumption DEF Carry
  <2>2. CASE ~(t.key.usec >= Second)
    BY <1>1, <1>2, <1>6, <2>2, SecondAssumption DEF Carry
  <2> QED
    BY <2>1, <2>2
<1> QED
  BY <1>4, <1>5, <1>6

(* An entry that is not behind another in the map is due less than a second *)
(* after it.                                                                *)
LEMMA MapOrderIsDeadlineOrder ==
    ASSUME IInv, NEW t \in timers, NEW v \in timers, ~Before(v.key, t.key)
    PROVE  t.due < v.due + Second
<1>1. /\ t.key.sec \in Nat /\ t.key.usec \in 0 .. 2 * Second - 1 /\ t.due \in Nat
      /\ t.key.sec * Second + t.key.usec = t.due + Carry(t.key)
      /\ v.key.sec \in Nat /\ v.key.usec \in 0 .. 2 * Second - 1 /\ v.due \in Nat
      /\ v.key.sec * Second + v.key.usec = v.due + Carry(v.key)
  BY DEF IInv, TypeOK, KeysNotNegative, KeyType, KeysMatchDeadlines
<1>2. /\ t.key.usec - Carry(t.key) \in 0 .. Second - 1
      /\ v.key.usec - Carry(v.key) \in 0 .. Second - 1
  BY <1>1, SecondAssumption DEF Carry
<1>3. CASE t.key.sec < v.key.sec
  <2>1. t.key.sec * Second + Second <= v.key.sec * Second
    BY <1>1, <1>3, SecondsGrow
  <2>2. t.key.sec * Second \in Nat /\ v.key.sec * Second \in Nat
    BY <1>1, SecondAssumption
  <2>3. Carry(t.key) \in Nat /\ Carry(v.key) \in Nat
    BY SecondAssumption DEF Carry
  <2> QED
    BY <1>1, <1>2, <2>1, <2>2, <2>3, SecondAssumption
<1>4. CASE t.key.sec = v.key.sec /\ t.key.usec <= v.key.usec
  <2>1. t.key.sec * Second = v.key.sec * Second /\ t.key.sec * Second \in Nat
    BY <1>1, <1>4, SecondAssumption
  <2>2. Carry(t.key) \in Nat /\ Carry(v.key) \in Nat
    BY SecondAssumption DEF Carry
  <2> QED
    BY <1>1, <1>2, <1>4, <2>1, <2>2, SecondAssumption
<1> QED
  BY <1>1, <1>3, <1>4 DEF Before
-----------------------------------------------------------------------------
(* The empty map satisfies the inductive invariant.                          *)
LEMMA InitIInv == Init => IInv
BY MaxClockAssumption, SecondAssumption
DEF Init, IInv, TypeOK, KeyType, KeysMatchDeadlines, IdsUnique, KeysNotNegative, NoTime

(* Arming, cancelling, firing and the passing of time preserve it.          *)
LEMMA NextIInv == IInv /\ [Next]_vars => IInv'
<1> SUFFICES ASSUME IInv, [Next]_vars
             PROVE  IInv'
  OBVIOUS
<1> USE DEF IInv
<1>0. now \in Nat
  BY MaxClockAssumption DEF TypeOK
<1>1. ASSUME NEW o \in Owners, NEW f \in Flags, NEW len \in Lengths, AddTimer(o, f, len)
      PROVE  IInv'
  <2> DEFINE key == Key(now, len)
             new(id) == [id |-> id, key |-> key, owner |-> o, flag |-> f, due |-> now + len]
  <2>1. PICK id \in Ids : /\ \A t \in timers : t.id # id
                          /\ timers' = timers \cup {new(id)}
    BY <1>1 DEF AddTimer
  <2>a. len \in Nat /\ now + len \in Nat
    BY <1>0, LengthsAssumption
  <2>2. /\ key \in KeyType /\ key.sec \in Nat
        /\ key.sec * Second + key.usec = now + len + Carry(key)
    BY <1>0, <2>a, KeyOfDeadline
  <2>3. now' = now /\ handle' = [handle EXCEPT ![o][f] = key] /\ fired' = {}
    BY <1>1 DEF AddTimer
  <2> HIDE DEF key
  <2>4. TypeOK'
    BY <2>a, <2>1, <2>2, <2>3 DEF TypeOK
  <2>5. KeysMatchDeadlines'
    BY <2>1, <2>2 DEF KeysMatchDeadlines, Carry
  <2>6. IdsUnique'
    BY <2>1 DEF IdsUnique
  <2>7. KeysNotNegative'
    BY <2>1, <2>2 DEF KeysNotNegative
  <2> QED
    BY <2>4, <2>5, <2>6, <2>7
<1>2. ASSUME NEW o \in Owners, NEW f \in Flags, CancelTimer(o, f)
      PROVE  IInv'
  <2>1. timers' \subseteq timers /\ now' = now /\ fired' = {}
        /\ handle' = [handle EXCEPT ![o][f] = [@ EXCEPT !.sec = -1]]
    BY <1>2 DEF CancelTimer
  <2>2. handle[o][f] \in KeyType
    BY DEF TypeOK
  <2>3. [handle[o][f] EXCEPT !.sec = -1] \in KeyType
    BY <2>2 DEF KeyType
  <2>4. TypeOK'
    BY <2>1, <2>3 DEF TypeOK
  <2> QED
    BY <2>1, <2>4 DEF KeysMatchDeadlines, Carry, IdsUnique, KeysNotNegative
<1>3. ASSUME CheckExpires
      PROVE  IInv'
  BY <1>3 DEF CheckExpires, TypeOK, KeysMatchDeadlines, Carry, IdsUnique, KeysNotNegative
<1>4. ASSUME Advance
      PROVE  IInv'
  <2>1. now' \in 0 .. MaxClock
    BY <1>0, <1>4, MaxClockAssumption DEF Advance
  <2> QED
    BY <1>4, <2>1 DEF Advance, TypeOK, KeysMatchDeadlines, Carry, IdsUnique, KeysNotNegative
<1>5. ASSUME UNCHANGED vars
      PROVE  IInv'
  BY <1>5 DEF vars, TypeOK, KeysMatchDeadlines, Carry, IdsUnique, KeysNotNegative
<1> QED
  BY <1>1, <1>2, <1>3, <1>4, <1>5 DEF Next

(* IInv is an invariant of the timer map.                                   *)
LEMMA Invariance == Spec => []IInv
BY InitIInv, NextIInv, PTL DEF Spec

(* The clock, the entries and the handles always have their types.          *)
THEOREM TypeCorrect == Spec => []TypeOK
<1>1. IInv => TypeOK
  BY DEF IInv
<1> QED
  BY <1>1, Invariance, PTL

(* When CheckExpires finds nothing to fire, no timer is a second overdue,   *)
(* whatever the lengths and however the carry of AddTimer falls.            *)
THEOREM Lateness == Spec => []LatenessBounded
<1>1. IInv => LatenessBounded
  BY NotExpiredIsNotLate DEF LatenessBounded
<1> QED
  BY <1>1, Invariance, PTL

(* The timer map implements the timer service: CheckExpires fires only      *)
(* timers that are due and overtakes no deadline by a second, CancelTimer   *)
(* removes the timer that its timeval was set for.                          *)
THEOREM Refinement == Spec => ImplementsTimerService
<1> DEFINE view(t) == [id |-> t.id, owner |-> t.owner, flag |-> t.flag, due |-> t.due,
                       named |-> t.key = handle[t.owner][t.flag]]
           pending == {view(t) : t \in timers}
<1>1. Init => Service!Init
  BY DEF Init, Service!Init
<1>2. IInv /\ [Next]_vars => [Service!Next]_(Service!vars)
  <2> SUFFICES ASSUME IInv, [Next]_vars
               PROVE  Service!Next \/ (now' = now /\ pending' = pending /\ fired' = fired)
    BY DEF Service!vars
  <2>1. ASSUME NEW o \in Owners, NEW f \in Flags, NEW len \in Lengths, AddTimer(o, f, len)
        PROVE  Service!Arm(o, f, len)
    <3> DEFINE key == Key(now, len)
               new(id) == [id |-> id, key |-> key, owner |-> o, flag |-> f, due |-> now + len]
               arm(id) == [id |-> id, owner |-> o, flag |-> f, due |-> now + len, named |-> TRUE]
               seen(t) == [id |-> t.id, owner |-> t.owner, flag |-> t.flag, due |-> t.due,
                           named |-> t.key = handle'[t.owner][t.flag]]
               old == {t \in timers : t.owner = o /\ t.flag = f}
               same == {view(t) : t \in {v \in old : v.key = key}}
    <3>1. PICK id \in Ids : /\ \A t \in timers : t.id # id
                            /\ timers' = timers \cup {new(id)}
      BY <2>1 DEF AddTimer
    <3>2. now' = now /\ fired' = {} /\ handle' = [handle EXCEPT ![o][f] = key]
      BY <2>1 DEF AddTimer
    <3>3. handle'[o][f] = key
          /\ \A p \in Owners, g \in Flags : ~(p = o /\ g = f) => handle'[p][g] = handle[p][g]
      BY <3>2 DEF IInv, TypeOK
    <3>4. \A t \in timers : t.owner \in Owners /\ t.flag \in Flags
      BY DEF IInv, TypeOK
    <3>5. \A t \in timers : t.key = key => t.due = now + len
      <4>1. now \in Nat /\ len \in Nat
        BY LengthsAssumption, MaxClockAssumption DEF IInv, TypeOK
      <4>2. key.sec * Second + key.usec = now + len + Carry(key)
        BY <4>1, KeyOfDeadline
      <4> HIDE DEF key
      <4>3. \A t \in timers : t.due \in Nat /\ t.key.sec * Second + t.key.usec = t.due + Carry(t.key)
        BY DEF IInv, TypeOK, KeysMatchDeadlines
      <4>4. Carry(key) \in Nat
        BY SecondAssumption DEF Carry
      <4> QED
        BY <4>1, <4>2, <4>3, <4>4
    <3> HIDE DEF key
    <3>6. \A p \in pending : p.id # id
      BY <3>1
    <3>7. Service!Of(o, f) = {view(t) : t \in old}
      BY DEF Service!Of
    <3>8. same \in SUBSET {p \in Service!Of(o, f) : p.due = now + len}
      BY <3>5, <3>7
    <3>9. \A t, v \in timers : view(t) = view(v) => t = v
      BY DEF IInv, IdsUnique
    <3>10. \A t \in timers \ old : seen(t) = view(t)
      BY <3>3, <3>4
    <3>11. \A t \in old : seen(t) = [view(t) EXCEPT !.named = view(t) \in same]
      <4>1. \A t \in old : (view(t) \in same) <=> t.key = key
        BY <3>9
      <4> HIDE DEF same
      <4> QED
        BY <3>3, <4>1
    <3>12. seen(new(id)) = arm(id)
      BY <3>2, <3>3
    <3>13. pending' = {seen(t) : t \in timers \ old} \cup {seen(t) : t \in old} \cup {seen(new(id))}
      <4>1. pending' = {seen(t) : t \in timers'}
        OBVIOUS
      <4> HIDE DEF seen, new
      <4>2. timers' = (timers \ old) \cup old \cup {new(id)}
        BY <3>1
      <4> QED
        BY <4>1, <4>2
    <3>14. {seen(t) : t \in timers \ old} = pending \ Service!Of(o, f)
      <4> DEFINE mine == {view(t) : t \in old}
      <4>1. pending \ mine = {view(t) : t \in timers \ old}
        <5>1. \A t \in timers : view(t) \in mine => t \in old
          BY <3>9
        <5> HIDE DEF view
        <5> QED
          BY <5>1
      <4> HIDE DEF view, seen, old
      <4>2. {seen(t) : t \in timers \ old} = {view(t) : t \in timers \ old}
        BY <3>10
      <4> QED
        BY <3>7, <4>1, <4>2
    <3>15. {seen(t) : t \in old} = {[p EXCEPT !.named = p \in same] : p \in Service!Of(o, f)}
      <4> HIDE DEF view, seen, old, same
      <4> QED
        BY <3>7, <3>11
    <3>16. pending' = (pending \ Service!Of(o, f))
                        \cup {[p EXCEPT !.named = p \in same] : p \in Service!Of(o, f)}
                        \cup {arm(id)}
      BY <3>12, <3>13, <3>14, <3>15
    <3> QED
      BY <3>2, <3>6, <3>8, <3>16 DEF Service!Arm
  <2>2. ASSUME NEW o \in Owners, NEW f \in Flags, CancelTimer(o, f)
        PROVE  Service!Cancel(o, f)
    <3> DEFINE found == {t \in timers : t.key = handle[o][f] /\ t.owner = o /\ t.flag = f}
    <3>1. /\ timers' = timers \ found /\ now' = now /\ fired' = {}
          /\ handle' = [handle EXCEPT ![o][f] = [@ EXCEPT !.sec = -1]]
      BY <2>2 DEF CancelTimer
    <3>2. handle[o][f] \in KeyType
      BY DEF IInv, TypeOK
    <3>3. handle'[o][f].sec = -1
          /\ \A p \in Owners, g \in Flags : ~(p = o /\ g = f) => handle'[p][g] = handle[p][g]
      BY <3>1, <3>2 DEF IInv, TypeOK, KeyType
    <3>4. \A t \in timers : t.owner \in Owners /\ t.flag \in Flags /\ t.key.sec # -1
      BY DEF IInv, TypeOK, KeysNotNegative
    <3>5. \A t \in timers \ found : view(t)' = view(t)
      <4>1. \A t \in timers \ found : (t.key = handle'[t.owner][t.flag]) <=> (t.key = handle[t.owner][t.flag])
        BY <3>3, <3>4
      <4> QED
        BY <4>1
    <3>6. \A t \in timers : (t \in found) <=> (view(t) \in Service!Of(o, f) /\ view(t).named)
      BY DEF Service!Of
    <3> HIDE DEF found
    <3>7. pending' = {view(t) : t \in timers \ found}
      BY <3>1, <3>5
    <3>8. {view(t) : t \in timers \ found} = {p \in pending : p \in Service!Of(o, f) => ~p.named}
      BY <3>6
    <3> QED
      BY <3>1, <3>7, <3>8 DEF Service!Cancel
  <2>3. ASSUME CheckExpires
        PROVE  \E p \in pending : Service!Fire(p)
    <3>1. PICK t \in timers : /\ \A v \in timers : ~Before(v.key, t.key)
                              /\ Expired(t)
                              /\ timers' = timers \ {t}
                              /\ fired' = {t.id} /\ now' = now /\ handle' = handle
      BY <2>3 DEF CheckExpires
    <3>2. view(t).due < now
      BY <3>1, ExpiredIsDue
    <3>3. \A p \in pending : view(t).due < p.due + Second
      BY <3>1, MapOrderIsDeadlineOrder
    <3>4. \A v \in timers : view(v) = view(t) => v = t
      BY DEF IInv, IdsUnique
    <3>5. pending' = pending \ {view(t)}
      BY <3>1, <3>4
    <3> QED
      BY <3>1, <3>2, <3>3, <3>5 DEF Service!Fire
  <2>4. ASSUME Advance
        PROVE  Service!Advance
    BY <2>4 DEF Advance, Service!Advance
  <2>5. ASSUME UNCHANGED vars
        PROVE  now' = now /\ pending' = pending /\ fired' = fired
    BY <2>5 DEF vars
  <2> QED
    BY <2>1, <2>2, <2>3, <2>4, <2>5 DEF Next, Service!Next
<1> QED
  BY <1>1, <1>2, Invariance, PTL DEF Spec, ImplementsTimerService, Service!Spec
=============================================================================
