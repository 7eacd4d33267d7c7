------------------------- MODULE Transaction_proofs -------------------------
(***************************************************************************)
(* Proofs about Transaction for every T1, T2, T4 and Slack: its types, the *)
(* timers of each state, the freed transaction without timers, the final   *)
(* response that is told once and the time a transaction waits for copies; *)
(* and, for the default times, how many copies it sends.                   *)
(***************************************************************************)
EXTENDS Transaction, TLAPS

Names == {"A", "B", "D", "E", "F", "K", "G", "H", "I", "J"}

PendingIn(m) == {t \in DOMAIN m : m[t].left # Off}

(* A record of timers whose fields tell the truth: the timeval of a pending *)
(* timer is set, no entry was lost, and every timer that some handler arms  *)
(* in a later state has a length it may be armed with.                      *)
Sound(m, S) ==
    /\ m \in [S -> TimerType]
    /\ \A t \in S : /\ ~m[t].lost
                    /\ m[t].len >= -1
                    /\ t \notin {"B", "G"} => m[t].len >= 0
                    /\ m[t].left # Off => m[t].start /\ m[t].left >= -Slack
                    /\ t = "G" /\ m[t].left # Off => m[t].len >= 0

(* Arming a timer that is not pending.                                      *)
LEMMA ArmedSound ==
    ASSUME NEW S, NEW m, Sound(m, S), NEW t \in S, m[t].left = Off, m[t].len >= 0
    PROVE  /\ Sound(Armed(m, t), S)
           /\ PendingIn(Armed(m, t)) = PendingIn(m) \cup {t}
           /\ \A u \in S : Armed(m, t)[u].len = m[u].len
           /\ \A u \in S \ {t} : Armed(m, t)[u] = m[u]
<1> DEFINE a == Armed(m, t)
<1>0. m \in [S -> TimerType] /\ Off \in Int /\ Off < 0 /\ Off < -Slack /\ Slack \in Nat
  BY TimesAssumption DEF Sound, Off
<1>1. a = [m EXCEPT ![t] = [len |-> m[t].len, left |-> m[t].len, start |-> TRUE,
                           lost |-> m[t].lost \/ m[t].left # Off]]
  BY DEF Armed
<1>2. m[t] \in TimerType /\ ~m[t].lost
  BY <1>0 DEF Sound
<1>3. a[t] = [len |-> m[t].len, left |-> m[t].len, start |-> TRUE, lost |-> FALSE]
  BY <1>0, <1>1, <1>2 DEF TimerType
<1>4. \A u \in S \ {t} : a[u] = m[u]
  BY <1>0, <1>1
<1>5. a \in [S -> TimerType]
  <2>1. DOMAIN a = S /\ a = [u \in S |-> a[u]]
    BY <1>0, <1>1
  <2>2. a[t] \in TimerType
    BY <1>2, <1>3 DEF TimerType
  <2>3. \A u \in S : a[u] \in TimerType
    BY <1>0, <1>4, <2>2
  <2> QED
    BY <2>1, <2>3
<1>6. Sound(a, S)
  BY <1>0, <1>2, <1>3, <1>4, <1>5 DEF Sound, TimerType
<1>7. PendingIn(a) = PendingIn(m) \cup {t}
  BY <1>0, <1>2, <1>3, <1>4, <1>5 DEF PendingIn, TimerType
<1> QED
  BY <1>3, <1>4, <1>6, <1>7

(* Cancelling timers.                                                       *)
LEMMA CancelledSound ==
    ASSUME NEW S, NEW m, Sound(m, S), NEW T
    PROVE  /\ Sound(Cancelled(m, T), S)
           /\ PendingIn(Cancelled(m, T)) = PendingIn(m) \ T
           /\ \A u \in S : Cancelled(m, T)[u].len = m[u].len
<1> DEFINE c == Cancelled(m, T)
<1>0. m \in [S -> TimerType] /\ DOMAIN m = S /\ Off \in Int /\ Off < -Slack /\ Slack \in Nat
  BY TimesAssumption DEF Sound, Off
<1>1. c = [t \in S |-> IF t \in T /\ m[t].start
                       THEN [m[t] EXCEPT !.left = Off, !.start = FALSE] ELSE m[t]]
  BY <1>0 DEF Cancelled
<1>2. \A t \in S : c[t] = IF t \in T /\ m[t].start
                          THEN [m[t] EXCEPT !.left = Off, !.start = FALSE] ELSE m[t]
  BY <1>1
<1>3. \A t \in S : /\ c[t] \in TimerType
                   /\ c[t].len = m[t].len /\ c[t].lost = m[t].lost
                   /\ t \in T /\ m[t].start => c[t].left = Off
                   /\ ~(t \in T /\ m[t].start) => c[t] = m[t]
  <2> SUFFICES ASSUME NEW t \in S
               PROVE  /\ c[t] \in TimerType
                      /\ c[t].len = m[t].len /\ c[t].lost = m[t].lost
                      /\ t \in T /\ m[t].start => c[t].left = Off
                      /\ ~(t \in T /\ m[t].start) => c[t] = m[t]
    OBVIOUS
  <2>1. m[t] \in TimerType
    BY <1>0
  <2>2. CASE t \in T /\ m[t].start
    <3>1. c[t] = [m[t] EXCEPT !.left = Off, !.start = FALSE]
      BY <1>2, <2>2
    <3> QED
      BY <3>1, <2>1, <2>2, <1>0 DEF TimerType
  <2>3. CASE ~(t \in T /\ m[t].start)
    BY <1>2, <2>1, <2>3
  <2> QED
    BY <2>2, <2>3
<1>4. c \in [S -> TimerType]
  BY <1>1, <1>3
<1>5. Sound(c, S)
  BY <1>0, <1>3, <1>4 DEF Sound
<1>6. PendingIn(c) = PendingIn(m) \ T
  BY <1>0, <1>3, <1>4 DEF PendingIn, Sound
<1> QED
  BY <1>3, <1>5, <1>6

(* An entry taken out of the map to be fired.                               *)
LEMMA FiredSound ==
    ASSUME NEW S, Sound(timers, S), NEW t \in S
    PROVE  /\ Sound(Fired(t), S)
           /\ PendingIn(Fired(t)) = PendingIn(timers) \ {t}
           /\ \A u \in S : Fired(t)[u].len = timers[u].len
           /\ Fired(t)[t].left = Off
<1> DEFINE f == Fired(t)
<1>0. timers \in [S -> TimerType] /\ Off \in Int /\ Off < -Slack /\ Slack \in Nat
  BY TimesAssumption DEF Sound, Off
<1>1. f = [timers EXCEPT ![t] = [timers[t] EXCEPT !.left = Off]]
  BY DEF Fired
<1>2. timers[t] \in TimerType
  BY <1>0
<1>3. f[t] = [timers[t] EXCEPT !.left = Off] /\ \A u \in S \ {t} : f[u] = timers[u]
  BY <1>0, <1>1
<1>4. /\ f[t] \in TimerType /\ f[t].left = Off
      /\ f[t].len = timers[t].len /\ f[t].lost = timers[t].lost
  BY <1>0, <1>2, <1>3 DEF TimerType
<1>5. f \in [S -> TimerType]
  <2>1. DOMAIN f = S /\ f = [u \in S |-> f[u]]
    BY <1>0, <1>1
  <2>2. \A u \in S : f[u] \in TimerType
    BY <1>0, <1>3, <1>4
  <2> QED
    BY <2>1, <2>2
<1>6. Sound(f, S)
  BY <1>0, <1>3, <1>4, <1>5 DEF Sound
<1>7. PendingIn(f) = PendingIn(timers) \ {t}
  BY <1>0, <1>3, <1>4, <1>5 DEF PendingIn
<1> QED
  BY <1>3, <1>4, <1>6, <1>7

(* A new length for a timer that is not pending.                            *)
LEMMA LengthSound ==
    ASSUME NEW S, NEW m, Sound(m, S), NEW t \in S, m[t].left = Off, NEW n \in Int,
           n >= 0 \/ (n = -1 /\ t = "B")
    PROVE  /\ Sound([m EXCEPT ![t].len = n], S)
           /\ PendingIn([m EXCEPT ![t].len = n]) = PendingIn(m)
           /\ [m EXCEPT ![t].len = n][t].left = Off
           /\ [m EXCEPT ![t].len = n][t].len = n
<1> DEFINE l == [m EXCEPT ![t].len = n]
<1>0. m \in [S -> TimerType] /\ Off \in Int
  BY TimesAssumption DEF Sound, Off
<1>1. l = [m EXCEPT ![t] = [m[t] EXCEPT !.len = n]]
  OBVIOUS
<1>2. m[t] \in TimerType
  BY <1>0
<1>3. l[t] = [m[t] EXCEPT !.len = n] /\ \A u \in S \ {t} : l[u] = m[u]
  BY <1>0, <1>1
<1>4. /\ l[t] \in TimerType /\ l[t].len = n
      /\ l[t].left = m[t].left /\ l[t].lost = m[t].lost /\ l[t].start = m[t].start
  BY <1>2, <1>3 DEF TimerType
<1>5. l \in [S -> TimerType]
  <2>1. DOMAIN l = S /\ l = [u \in S |-> l[u]]
    BY <1>0, <1>1
  <2>2. \A u \in S : l[u] \in TimerType
    BY <1>0, <1>3, <1>4
  <2> QED
    BY <2>1, <2>2
<1>6. Sound(l, S)
  BY <1>0, <1>3, <1>4, <1>5 DEF Sound
<1>7. PendingIn(l) = PendingIn(m)
  BY <1>0, <1>3, <1>4, <1>5 DEF PendingIn
<1> QED
  BY <1>4, <1>6, <1>7

(* Arming a timer that is not pending for another length.                   *)
LEMMA ArmedForSound ==
    ASSUME NEW S, NEW m, Sound(m, S), NEW t \in S, m[t].left = Off, NEW n \in Nat
    PROVE  /\ Sound(ArmedFor(m, t, n), S)
           /\ PendingIn(ArmedFor(m, t, n)) = PendingIn(m) \cup {t}
<1> DEFINE l == [m EXCEPT ![t].len = n]
<1>1. Sound(l, S) /\ PendingIn(l) = PendingIn(m) /\ l[t].left = Off /\ l[t].len = n
  BY LengthSound
<1>2. Sound(Armed(l, t), S) /\ PendingIn(Armed(l, t)) = PendingIn(l) \cup {t}
  <2> HIDE DEF l
  <2> QED BY <1>1, ArmedSound
<1> QED
  BY <1>1, <1>2 DEF ArmedFor
-----------------------------------------------------------------------------
(* The states of each kind, with the timers pending in them.                *)
Fits(k, s, P) ==
    \/ k = "ICT"  /\ s = "Trying"     /\ "B" \in P /\ P \subseteq {"A", "B"}
    \/ k = "ICT"  /\ s = "Proceeding" /\ P \subseteq {"B"}
    \/ k = "ICT"  /\ s = "Completed"  /\ P = {"D"}
    \/ k = "NICT" /\ s \in {"Trying", "Proceeding"} /\ "F" \in P /\ P \subseteq {"E", "F"}
    \/ k = "NICT" /\ s = "Completed"  /\ P = {"K"}
    \/ k = "IST"  /\ s = "Proceeding" /\ P = {}
    \/ k = "IST"  /\ s = "Completed"  /\ "H" \in P /\ P \subseteq {"G", "H"}
    \/ k = "IST"  /\ s = "Confirmed"  /\ P = {"I"}
    \/ k = "NIST" /\ s \in {"Trying", "Proceeding"} /\ P = {}
    \/ k = "NIST" /\ s = "Completed"  /\ P = {"J"}

(* The reference count: one while a channel holds a live transaction.       *)
RefsFit ==
    /\ refs \in 0 .. 1 /\ held \in BOOLEAN
    /\ ~held => refs = 0
    /\ phase = "New" => ~held
    /\ phase = "Live" /\ held => refs = 1
    /\ phase = "Ended" => held /\ refs = 0
    /\ phase = "Freed" => ~held

Fixed == /\ kind \in DOMAIN TimersOf /\ reliable \in BOOLEAN
         /\ kind \in Client => ~reliable
         /\ phase \in {"New", "Live", "Ended", "Freed"}
         /\ last \in {"none", "1xx", "2xx", "3456xx"}

(* The inductive invariant of the timers and of the life of a transaction.  *)
IInv ==
    /\ Fixed
    /\ RefsFit
    /\ Sound(timers, TimersOf[kind])
    /\ phase = "New" => /\ PendingIn(timers) = {}
                        /\ kind = "ICT" => timers["B"].len >= 0
    /\ phase = "Live" => Fits(kind, state, PendingIn(timers))
    /\ phase # "Live" => state = "Ready"
    /\ phase = "Freed" => PendingIn(timers) = {}

(* A handler that ends the transaction, in or before the map.               *)
LEMMA TerminateStep ==
    ASSUME Fixed, RefsFit, phase \in {"New", "Live"},
           last' \in {"none", "1xx", "2xx", "3456xx"},
           NEW m, Sound(m, TimersOf[kind]), Terminate(m)
    PROVE  IInv'
<1>1. CASE refs = 0
  <2>1. /\ phase' = "Freed" /\ timers' = FreeRes(m) /\ state' = "Ready"
        /\ UNCHANGED <<kind, reliable, refs, held>>
    BY <1>1 DEF Terminate
  <2>2. Sound(FreeRes(m), TimersOf[kind]) /\ PendingIn(FreeRes(m)) = PendingIn(m) \ DOMAIN m
    BY CancelledSound DEF FreeRes
  <2>3. PendingIn(FreeRes(m)) = {}
    BY <2>2 DEF PendingIn
  <2>4. Fixed'
    BY <2>1 DEF Fixed
  <2>5. RefsFit'
    BY <1>1, <2>1 DEF RefsFit
  <2> QED
    BY <2>1, <2>2, <2>3, <2>4, <2>5 DEF IInv
<1>2. CASE refs # 0
  <2>1. /\ phase' = "Ended" /\ timers' = m /\ refs' = refs - 1 /\ state' = "Ready"
        /\ UNCHANGED <<kind, reliable, held>>
    BY <1>2 DEF Terminate
  <2>2. Fixed'
    BY <2>1 DEF Fixed
  <2>3. RefsFit'
    BY <1>2, <2>1 DEF RefsFit
  <2> QED
    BY <2>1, <2>2, <2>3 DEF IInv
<1> QED
  BY <1>1, <1>2

(* A handler that stays in the map.                                         *)
LEMMA StayStep ==
    ASSUME Fixed, RefsFit, phase \in {"New", "Live"},
           last' \in {"none", "1xx", "2xx", "3456xx"},
           NEW s, NEW m, Sound(m, TimersOf[kind]), Fits(kind, s, PendingIn(m)), Stay(s, m)
    PROVE  IInv'
<1>1. /\ phase' = "Live" /\ state' = s /\ timers' = m
      /\ UNCHANGED <<kind, reliable, refs, held>>
  BY DEF Stay
<1>2. Fixed' /\ RefsFit'
  BY <1>1 DEF Fixed, RefsFit
<1> QED
  BY <1>1, <1>2 DEF IInv

(* The lengths a new transaction starts with.                               *)
LEMMA InitIInv == Init => IInv
<1> SUFFICES ASSUME Init PROVE IInv
  OBVIOUS
<1>0. /\ T1 \in Nat \ {0} /\ T4 \in Nat /\ Off \in Int /\ Off < 0
      /\ kind \in {"ICT", "NICT", "IST", "NIST"} /\ reliable \in BOOLEAN
      /\ kind \in Client => ~reliable
  BY TimesAssumption DEF Init, TimersOf, Off
<1>1. timers = [t \in TimersOf[kind] |-> [len |-> InitialLength(t, reliable), left |-> Off,
                                          start |-> FALSE, lost |-> FALSE]]
  BY DEF Init
<1>2. TimersOf[kind] \subseteq Names
  BY <1>0 DEF TimersOf, Names
<1>3. \A t \in Names : /\ InitialLength(t, reliable) \in Int
                       /\ InitialLength(t, reliable) >= -1
                       /\ t # "G" => InitialLength(t, reliable) >= 0
  BY <1>0 DEF Names, InitialLength
<1>4. \A t \in TimersOf[kind] : /\ timers[t] \in TimerType
                                /\ timers[t].left = Off /\ timers[t].lost = FALSE
                                /\ timers[t].len = InitialLength(t, reliable)
  BY <1>0, <1>1, <1>2, <1>3 DEF TimerType
<1>5. timers \in [TimersOf[kind] -> TimerType]
  BY <1>1, <1>4
<1>6. Sound(timers, TimersOf[kind])
  BY <1>2, <1>3, <1>4, <1>5 DEF Sound
<1>7. PendingIn(timers) = {}
  BY <1>4, <1>5 DEF PendingIn
<1>8. kind = "ICT" => timers["B"].len >= 0
  BY <1>3, <1>4 DEF TimersOf, Names
<1>9. Fixed /\ RefsFit /\ phase = "New" /\ state = "Ready"
  <2>1. phase = "New" /\ state = "Ready" /\ refs = 0 /\ held = FALSE /\ last = "none"
    BY DEF Init
  <2>2. RefsFit
    <3>1. refs \in 0 .. 1
      BY <2>1
    <3>2. held \in BOOLEAN /\ ~held
      BY <2>1, Zenon
    <3> QED
      BY <2>1, <3>1, <3>2 DEF RefsFit
  <2>3. Fixed
    BY <1>0, <2>1 DEF Fixed, Init
  <2> QED
    BY <2>1, <2>2, <2>3
<1> QED
  BY <1>6, <1>7, <1>8, <1>9 DEF IInv

(* The fields of a timer of a sound record.                                 *)
LEMMA SoundFields ==
    ASSUME NEW S, NEW m, Sound(m, S), NEW t \in S
    PROVE  /\ m[t].len \in Int /\ m[t].left \in Int /\ DOMAIN m = S
           /\ t \notin {"B", "G"} => m[t].len \in Nat
           /\ t \in PendingIn(m) <=> m[t].left # Off
           /\ t = "G" /\ m[t].left # Off => m[t].len \in Nat
  BY DEF Sound, TimerType, PendingIn

(* The first event.                                                         *)
LEMMA FirstStep == ASSUME IInv, SendRequest \/ RcvRequest PROVE IInv'
<1> DEFINE S == TimersOf[kind]
<1>0. /\ Fixed /\ RefsFit /\ Sound(timers, S) /\ phase = "New" /\ PendingIn(timers) = {}
      /\ last' = last /\ last' \in {"none", "1xx", "2xx", "3456xx"}
      /\ kind = "ICT" => timers["B"].len >= 0
  BY DEF IInv, SendRequest, RcvRequest, Fixed
<1>1. ASSUME Fail(timers) PROVE IInv'
  BY <1>0, <1>1, TerminateStep DEF Fail
<1>2. ASSUME kind = "ICT", Stay("Trying", Armed(Armed(timers, "A"), "B")) PROVE IInv'
  <2>1. S = {"A", "B", "D"}
    BY <1>2 DEF TimersOf
  <2>2. timers["A"].left = Off /\ timers["B"].left = Off /\ timers["A"].len >= 0
    BY <1>0, <2>1, SoundFields
  <2>3. /\ Sound(Armed(timers, "A"), S)
        /\ PendingIn(Armed(timers, "A")) = {"A"}
        /\ Armed(timers, "A")["B"] = timers["B"]
    BY <1>0, <2>1, <2>2, ArmedSound
  <2>4. /\ Sound(Armed(Armed(timers, "A"), "B"), S)
        /\ PendingIn(Armed(Armed(timers, "A"), "B")) = {"A", "B"}
    BY <1>0, <1>2, <2>1, <2>2, <2>3, ArmedSound
  <2>5. Fits(kind, "Trying", PendingIn(Armed(Armed(timers, "A"), "B")))
    BY <1>2, <2>4 DEF Fits
  <2> QED
    BY <1>0, <1>2, <2>4, <2>5, StayStep
<1>3. ASSUME kind = "NICT", Stay("Trying", Armed(Armed(timers, "E"), "F")) PROVE IInv'
  <2>1. S = {"E", "F", "K"}
    BY <1>3 DEF TimersOf
  <2>2. /\ timers["E"].left = Off /\ timers["F"].left = Off
        /\ timers["E"].len >= 0 /\ timers["F"].len >= 0
    BY <1>0, <2>1, SoundFields
  <2>3. /\ Sound(Armed(timers, "E"), S)
        /\ PendingIn(Armed(timers, "E")) = {"E"}
        /\ Armed(timers, "E")["F"] = timers["F"]
    BY <1>0, <2>1, <2>2, ArmedSound
  <2>4. /\ Sound(Armed(Armed(timers, "E"), "F"), S)
        /\ PendingIn(Armed(Armed(timers, "E"), "F")) = {"E", "F"}
    BY <2>1, <2>2, <2>3, ArmedSound
  <2>5. Fits(kind, "Trying", PendingIn(Armed(Armed(timers, "E"), "F")))
    BY <1>3, <2>4 DEF Fits
  <2> QED
    BY <1>0, <1>3, <2>4, <2>5, StayStep
<1>4. ASSUME kind \in {"IST", "NIST"},
             Stay(IF kind = "IST" THEN "Proceeding" ELSE "Trying", timers) PROVE IInv'
  <2>1. Fits(kind, IF kind = "IST" THEN "Proceeding" ELSE "Trying", PendingIn(timers))
    BY <1>0, <1>4 DEF Fits
  <2> QED
    BY <1>0, <1>4, <2>1, StayStep
<1>5. kind \in {"ICT", "NICT", "IST", "NIST"}
  BY <1>0 DEF Fixed, TimersOf
<1>6. CASE SendRequest
  BY <1>1, <1>2, <1>3, <1>5, <1>6 DEF SendRequest, Client
<1>7. CASE RcvRequest
  BY <1>1, <1>4, <1>5, <1>7 DEF RcvRequest, Client
<1> QED
  BY <1>6, <1>7

(* What the handlers of a live transaction start from.                      *)
Alive == /\ Fixed /\ RefsFit /\ Sound(timers, TimersOf[kind]) /\ phase = "Live"
         /\ phase \in {"New", "Live"}
         /\ Fits(kind, state, PendingIn(timers))
         /\ last \in {"none", "1xx", "2xx", "3456xx"}

(* IInv of a live transaction, without its case distinctions.               *)
LEMMA AliveInLive == IInv /\ phase = "Live" => Alive
  BY DEF IInv, Alive, Fixed

(* SetICT and SetIST count and discount the channel's reference.            *)
LEMMA HoldStep == ASSUME IInv, Hold PROVE IInv'
<1>1. /\ phase = "Live" /\ ~held /\ held' = TRUE /\ refs' = refs + 1
      /\ UNCHANGED <<kind, reliable, phase, state, timers, last>>
  BY DEF Hold, In
<1>2. RefsFit'
  BY <1>1 DEF IInv, RefsFit
<1> QED
  BY <1>1, <1>2 DEF IInv, Fixed

(* The channel drops its reference: the last owner frees the transaction.   *)
LEMMA DropStep == ASSUME IInv, Drop PROVE IInv'
<1>1. held /\ UNCHANGED <<kind, reliable, state, last>>
  BY DEF Drop
<1>a. held' \in BOOLEAN /\ ~held'
  <2>1. held' = FALSE
    BY DEF Drop
  <2> QED
    BY <2>1, Zenon
<1>2. CASE refs > 0
  <2>1. refs' = refs - 1 /\ UNCHANGED <<phase, timers>>
    BY <1>2 DEF Drop
  <2>2. RefsFit'
    <3>1. refs = 1 /\ refs' = 0 /\ phase \notin {"Ended"}
      BY <1>1, <1>2, <2>1 DEF IInv, RefsFit
    <3> QED
      BY <1>1, <1>a, <2>1, <3>1 DEF RefsFit
  <2> QED
    BY <1>1, <2>1, <2>2 DEF IInv, Fixed
<1>3. CASE ~(refs > 0)
  <2>1. phase' = "Freed" /\ timers' = FreeRes(timers) /\ UNCHANGED refs
    BY <1>3 DEF Drop
  <2>2. /\ Sound(FreeRes(timers), TimersOf[kind])
        /\ PendingIn(FreeRes(timers)) = PendingIn(timers) \ DOMAIN timers
    BY CancelledSound DEF FreeRes, IInv
  <2>3. PendingIn(FreeRes(timers)) = {}
    BY <2>2 DEF PendingIn
  <2>4. phase # "Live" /\ state = "Ready"
    BY <1>1, <1>3 DEF IInv, RefsFit
  <2>5. RefsFit'
    <3>1. refs' = 0
      BY <1>3, <2>1 DEF IInv, RefsFit
    <3> QED
      BY <1>1, <1>a, <2>1, <3>1 DEF RefsFit
  <2> QED
    BY <1>1, <2>1, <2>2, <2>3, <2>4, <2>5 DEF IInv, Fixed
<1> QED
  BY <1>2, <1>3

(* A timer of the state fires and is armed again.                           *)
LEMMA RearmStep ==
    ASSUME Alive, NEW t \in TimersOf[kind], t \in PendingIn(timers), NEW n \in Nat,
           Stay(state, ArmedFor(Fired(t), t, n)), UNCHANGED last
    PROVE  IInv'
<1>1. /\ Sound(Fired(t), TimersOf[kind]) /\ Fired(t)[t].left = Off
      /\ PendingIn(Fired(t)) = PendingIn(timers) \ {t}
  BY FiredSound DEF Alive
<1>2. /\ Sound(ArmedFor(Fired(t), t, n), TimersOf[kind])
      /\ PendingIn(ArmedFor(Fired(t), t, n)) = PendingIn(timers)
  <2> DEFINE f == Fired(t)
  <2>1. Sound(f, TimersOf[kind]) /\ f[t].left = Off
    BY <1>1
  <2> HIDE DEF f
  <2>2. /\ Sound(ArmedFor(f, t, n), TimersOf[kind])
        /\ PendingIn(ArmedFor(f, t, n)) = PendingIn(f) \cup {t}
    BY <2>1, ArmedForSound
  <2> QED
    BY <1>1, <2>2 DEF f
<1>3. Fixed /\ RefsFit /\ phase \in {"New", "Live"} /\ last' \in {"none", "1xx", "2xx", "3456xx"}
      /\ Fits(kind, state, PendingIn(timers))
  BY DEF Alive
<1>4. Fits(kind, state, PendingIn(ArmedFor(Fired(t), t, n)))
  BY <1>2, <1>3
<1> QED
  BY <1>2, <1>3, <1>4, StayStep

(* A transaction ends from a sound record.                                  *)
LEMMA EndStep ==
    ASSUME Alive, NEW m, Sound(m, TimersOf[kind]), Terminate(m),
           last' \in {"none", "1xx", "2xx", "3456xx"}
    PROVE  IInv'
  BY TerminateStep DEF Alive

(* The record of a live transaction, with timers cancelled or one fired.    *)
LEMMA FiredAlive ==
    ASSUME Alive, NEW t, Due(t)
    PROVE  /\ t \in TimersOf[kind] /\ t \in PendingIn(timers)
           /\ Sound(Fired(t), TimersOf[kind]) /\ Fired(t)[t].left = Off
<1>1. Sound(timers, TimersOf[kind]) /\ DOMAIN timers = TimersOf[kind]
  BY DEF Alive, Sound
<1>2. t \in TimersOf[kind] /\ t \in PendingIn(timers)
  BY <1>1 DEF Due, Pending, PendingIn
<1> QED
  BY <1>1, <1>2, FiredSound

(* Timers A, E and G: a copy is sent and the timer is armed again.          *)
LEMMA RetransmitStep == ASSUME IInv, IctTimerA \/ NictTimerE \/ IstTimerG PROVE IInv'
<1>0. /\ Alive /\ last' = last /\ last' \in {"none", "1xx", "2xx", "3456xx"}
      /\ T2 \in Nat
  BY AliveInLive, TimesAssumption DEF IctTimerA, NictTimerE, IstTimerG, In, NICTWaits, Alive
<1>1. CASE IctTimerA
  <2>1. /\ "A" \in TimersOf[kind] /\ "A" \in PendingIn(timers) /\ Sound(Fired("A"), TimersOf[kind])
        /\ timers["A"].len \in Nat
    BY <1>0, <1>1, FiredAlive, SoundFields DEF IctTimerA, Alive
  <2>2. ASSUME Fail(Fired("A")) PROVE IInv'
    BY <1>0, <2>1, <2>2, EndStep DEF Fail
  <2>3. ASSUME Stay("Trying", ArmedFor(Fired("A"), "A", 2 * timers["A"].len)) PROVE IInv'
    <3>1. state = "Trying" /\ 2 * timers["A"].len \in Nat
      BY <1>1, <2>1 DEF IctTimerA, In
    <3> QED
      BY <1>0, <2>1, <2>3, <3>1, RearmStep
  <2> QED
    BY <1>1, <2>2, <2>3 DEF IctTimerA
<1>2. CASE NictTimerE
  <2>1. /\ "E" \in TimersOf[kind] /\ "E" \in PendingIn(timers) /\ Sound(Fired("E"), TimersOf[kind])
        /\ timers["E"].len \in Nat
    BY <1>0, <1>2, FiredAlive, SoundFields DEF NictTimerE, Alive
  <2>2. ASSUME Fail(Fired("E")) PROVE IInv'
    BY <1>0, <2>1, <2>2, EndStep DEF Fail
  <2>3. ASSUME NEW n \in Nat, Stay(state, ArmedFor(Fired("E"), "E", n)) PROVE IInv'
    BY <1>0, <2>1, <2>3, RearmStep
  <2>4. (IF state = "Proceeding" \/ 2 * timers["E"].len > T2 THEN T2 ELSE 2 * timers["E"].len) \in Nat
    BY <1>0, <2>1
  <2> QED
    BY <1>2, <2>2, <2>3, <2>4 DEF NictTimerE
<1>3. CASE IstTimerG
  <2>1. /\ "G" \in TimersOf[kind] /\ "G" \in PendingIn(timers) /\ timers["G"].len \in Nat
    BY <1>0, <1>3, FiredAlive, SoundFields DEF IstTimerG, Alive
  <2> DEFINE n == IF 2 * timers["G"].len > T2 THEN T2 ELSE 2 * timers["G"].len
             m == ArmedFor(Fired("G"), "G", n)
  <2>2. n \in Nat
    BY <1>0, <2>1
  <2>3. state = "Completed"
    BY <1>3 DEF IstTimerG, In
  <2>4. ASSUME Fail(m) PROVE IInv'
    <3>1. Sound(Fired("G"), TimersOf[kind]) /\ Fired("G")["G"].left = Off
      BY <1>0, <1>3, FiredAlive DEF IstTimerG
    <3>2. Sound(m, TimersOf[kind])
      <4> DEFINE f == Fired("G")
      <4>1. Sound(f, TimersOf[kind]) /\ f["G"].left = Off
        BY <3>1
      <4> HIDE DEF f, n
      <4>2. Sound(ArmedFor(f, "G", n), TimersOf[kind])
        BY <2>1, <2>2, <4>1, ArmedForSound
      <4> QED
        BY <4>2 DEF f
    <3> QED
      BY <1>0, <2>4, <3>2, EndStep DEF Fail
  <2>5. ASSUME Stay("Completed", m) PROVE IInv'
    BY <1>0, <2>1, <2>2, <2>3, <2>5, RearmStep
  <2> QED
    BY <1>3, <2>4, <2>5 DEF IstTimerG
<1> QED
  BY <1>1, <1>2, <1>3

(* Timers B, F, H, and those that end the wait for copies.                  *)
LEMMA ExpiryStep == ASSUME IInv, IctTimerB \/ NictTimerF \/ IstTimerH \/ AbsorbTimer PROVE IInv'
<1>0. Alive /\ last' = last /\ last' \in {"none", "1xx", "2xx", "3456xx"}
  BY AliveInLive DEF IctTimerB, NictTimerF, IstTimerH, AbsorbTimer, In, NICTWaits, Alive
<1>1. CASE IctTimerB
  <2>1. "B" \in TimersOf[kind] /\ Sound(Fired("B"), TimersOf[kind]) /\ Fired("B")["B"].left = Off
    BY <1>0, <1>1, FiredAlive DEF IctTimerB
  <2>2. Sound([Fired("B") EXCEPT !["B"].len = -1], TimersOf[kind])
    <3> DEFINE f == Fired("B")
    <3>1. Sound(f, TimersOf[kind]) /\ f["B"].left = Off
      BY <2>1
    <3> HIDE DEF f
    <3>2. ASSUME NEW n \in Int, n = -1 PROVE Sound([f EXCEPT !["B"].len = n], TimersOf[kind])
      BY <2>1, <3>1, <3>2, LengthSound
    <3>3. -1 \in Int
      OBVIOUS
    <3>4. Sound([f EXCEPT !["B"].len = -1], TimersOf[kind])
      BY <3>2, <3>3
    <3> QED
      BY <3>4 DEF f
  <2> QED
    BY <1>0, <1>1, <2>2, EndStep DEF IctTimerB
<1>2. CASE NictTimerF
  <2>1. Sound(Fired("F"), TimersOf[kind])
    BY <1>0, <1>2, FiredAlive DEF NictTimerF
  <2>2. Sound(Cancelled(Fired("F"), {"E"}), TimersOf[kind])
    BY <2>1, CancelledSound
  <2>3. Sound(IF state = "Trying" THEN Cancelled(Fired("F"), {"E"}) ELSE Fired("F"), TimersOf[kind])
    BY <2>1, <2>2
  <2> QED
    BY <1>0, <1>2, <2>3, EndStep DEF NictTimerF
<1>3. CASE IstTimerH
  <2>1. Sound(Fired("H"), TimersOf[kind])
    BY <1>0, <1>3, FiredAlive DEF IstTimerH
  <2> QED
    BY <1>0, <1>3, <2>1, EndStep DEF IstTimerH
<1>4. CASE AbsorbTimer
  <2> DEFINE m == Fired(Absorber[kind])
             n == IF kind = "NIST" THEN [m EXCEPT !["J"].start = FALSE] ELSE m
  <2>1. /\ Absorber[kind] \in TimersOf[kind]
        /\ Sound(m, TimersOf[kind]) /\ m[Absorber[kind]].left = Off
    BY <1>0, <1>4, FiredAlive DEF AbsorbTimer
  <2>2. CASE kind = "NIST"
    <3>1. Absorber[kind] = "J" /\ TimersOf[kind] = {"J"}
      BY <2>2 DEF Absorber, TimersOf
    <3>2. m \in [{"J"} -> TimerType] /\ m["J"] \in TimerType /\ m["J"].left = Off
      BY <2>1, <3>1 DEF Sound
    <3>3. [m EXCEPT !["J"].start = FALSE] = [m EXCEPT !["J"] = [m["J"] EXCEPT !.start = FALSE]]
      OBVIOUS
    <3> HIDE DEF m
    <3>4. /\ n \in [{"J"} -> TimerType] /\ n["J"].left = Off
          /\ n["J"].len = m["J"].len /\ n["J"].lost = m["J"].lost
      BY <2>2, <3>2, <3>3 DEF TimerType
    <3>5. Sound(n, TimersOf[kind])
      BY <2>1, <3>1, <3>4 DEF Sound
    <3> QED
      BY <1>0, <1>4, <3>5, EndStep DEF AbsorbTimer, m
  <2>3. CASE kind # "NIST"
    BY <1>0, <1>4, <2>1, <2>3, EndStep DEF AbsorbTimer
  <2> QED
    BY <2>2, <2>3
<1> QED
  BY <1>1, <1>2, <1>3, <1>4

(* Responses of the peer to an INVITE.                                      *)
LEMMA IctReceiveStep ==
    ASSUME IInv,
           IctRcv1xx \/ IctRcv2xx \/ IctRcv3456xx \/ IctRcv3456xxWhileCompleted
    PROVE  IInv'
<1> DEFINE P == PendingIn(timers)
           S == TimersOf[kind]
<1>0. /\ Alive /\ kind = "ICT" /\ S = {"A", "B", "D"} /\ Sound(timers, S)
      /\ last' \in {"none", "1xx", "2xx", "3456xx"}
  <2>1. phase = "Live" /\ kind = "ICT"
    BY DEF IctRcv1xx, IctRcv2xx, IctRcv3456xx, IctRcv3456xxWhileCompleted, In
  <2>2. last' \in {last, "1xx", "2xx", "3456xx"}
    BY DEF IctRcv1xx, IctRcv2xx, IctRcv3456xx, IctRcv3456xxWhileCompleted
  <2> QED
    BY <2>1, <2>2, AliveInLive DEF Alive, TimersOf
<1>1. /\ Fixed /\ RefsFit /\ phase \in {"New", "Live"} /\ Fits("ICT", state, P)
  BY <1>0 DEF Alive
<1>2. Sound(Cancelled(timers, {"A"}), S) /\ PendingIn(Cancelled(timers, {"A"})) = P \ {"A"}
  BY <1>0, CancelledSound
<1>3. CASE IctRcv1xx
  <2> DEFINE m == IF state = "Trying" THEN Cancelled(timers, {"A"}) ELSE timers
  <2>1. Stay("Proceeding", m) /\ state \in {"Trying", "Proceeding"}
    BY <1>3 DEF IctRcv1xx, In
  <2>2. Sound(m, S) /\ PendingIn(m) = IF state = "Trying" THEN P \ {"A"} ELSE P
    BY <1>0, <1>2
  <2>3. Fits(kind, "Proceeding", PendingIn(m))
    BY <1>0, <1>1, <2>1, <2>2 DEF Fits
  <2> QED
    BY <1>0, <1>1, <2>1, <2>2, <2>3, StayStep
<1>4. CASE IctRcv2xx
  <2>1. Sound(IF state = "Trying" THEN Cancelled(timers, {"A"}) ELSE timers, S)
    BY <1>0, <1>2
  <2> QED
    BY <1>0, <1>4, <2>1, EndStep DEF IctRcv2xx
<1>5. CASE IctRcv3456xx
  <2>1. state \in {"Trying", "Proceeding"}
    BY <1>5 DEF IctRcv3456xx, In
  <2>2. ASSUME Terminate(Cancelled(timers, {"A"})) PROVE IInv'
    BY <1>0, <1>2, <2>2, EndStep
  <2> DEFINE c == Cancelled(timers, {"A", "B"})
  <2>3. ASSUME Stay("Completed", Armed(c, "D")) PROVE IInv'
    <3>1. Sound(c, S) /\ PendingIn(c) = P \ {"A", "B"}
      BY <1>0, CancelledSound
    <3>2. PendingIn(c) = {}
      BY <1>1, <2>1, <3>1 DEF Fits
    <3> HIDE DEF c
    <3>3. c["D"].left = Off /\ c["D"].len >= 0 /\ "D" \in S
      BY <1>0, <3>1, <3>2, SoundFields
    <3>4. Sound(Armed(c, "D"), S) /\ PendingIn(Armed(c, "D")) = {"D"}
      BY <3>1, <3>2, <3>3, ArmedSound
    <3>5. Fits(kind, "Completed", PendingIn(Armed(c, "D")))
      BY <1>0, <3>4 DEF Fits
    <3> QED
      BY <1>0, <1>1, <2>3, <3>4, <3>5, StayStep
  <2> QED
    BY <1>5, <2>2, <2>3 DEF IctRcv3456xx
<1>6. CASE IctRcv3456xxWhileCompleted
  <2>1. ASSUME Fail(timers) PROVE IInv'
    BY <1>0, <2>1, EndStep DEF Fail
  <2>2. ASSUME Stay("Completed", timers) PROVE IInv'
    <3>1. state = "Completed"
      BY <1>6 DEF IctRcv3456xxWhileCompleted, In
    <3> QED
      BY <1>0, <1>1, <2>2, <3>1, StayStep
  <2> QED
    BY <1>6, <2>1, <2>2 DEF IctRcv3456xxWhileCompleted
<1> QED
  BY <1>3, <1>4, <1>5, <1>6

(* Responses of the peer to another request.                                *)
LEMMA NictReceiveStep == ASSUME IInv, NictRcv1xx \/ NictRcvFinal PROVE IInv'
<1> DEFINE P == PendingIn(timers)
           S == TimersOf[kind]
           c == Cancelled(timers, {"E", "F"})
<1>0. /\ Alive /\ kind = "NICT" /\ state \in {"Trying", "Proceeding"}
      /\ S = {"E", "F", "K"} /\ Sound(timers, S)
      /\ last' \in {"none", "1xx", "2xx", "3456xx"}
  <2>1. phase = "Live" /\ kind = "NICT" /\ state \in {"Trying", "Proceeding"}
    BY DEF NictRcv1xx, NictRcvFinal, NICTWaits, In
  <2>2. last' \in {"1xx", "2xx", "3456xx"}
    BY DEF NictRcv1xx, NictRcvFinal
  <2> QED
    BY <2>1, <2>2, AliveInLive DEF Alive, TimersOf
<1>1. /\ Fixed /\ RefsFit /\ phase \in {"New", "Live"} /\ Fits("NICT", state, P)
  BY <1>0 DEF Alive
<1>2. ASSUME Stay("Proceeding", timers) PROVE IInv'
  <2>1. Fits(kind, "Proceeding", P)
    BY <1>0, <1>1 DEF Fits
  <2> QED
    BY <1>0, <1>1, <1>2, <2>1, StayStep
<1>3. ASSUME Stay("Completed", Armed(c, "K")) PROVE IInv'
  <2>1. Sound(c, S) /\ PendingIn(c) = P \ {"E", "F"}
    BY <1>0, CancelledSound
  <2>2. PendingIn(c) = {}
    BY <1>0, <1>1, <2>1 DEF Fits
  <2> HIDE DEF c
  <2>3. c["K"].left = Off /\ c["K"].len >= 0 /\ "K" \in S
    BY <1>0, <2>1, <2>2, SoundFields
  <2>4. Sound(Armed(c, "K"), S) /\ PendingIn(Armed(c, "K")) = {"K"}
    BY <2>1, <2>2, <2>3, ArmedSound
  <2>5. Fits(kind, "Completed", PendingIn(Armed(c, "K")))
    BY <1>0, <2>4 DEF Fits
  <2> QED
    BY <1>0, <1>1, <1>3, <2>4, <2>5, StayStep
<1> QED
  BY <1>2, <1>3 DEF NictRcv1xx, NictRcvFinal

(* A copy of the request is answered again.                                 *)
LEMMA AgainStep == ASSUME IInv, IstRcvInviteAgain \/ NistRcvRequestAgain PROVE IInv'
<1>0. /\ Alive /\ last' = last /\ last' \in {"none", "1xx", "2xx", "3456xx"}
  BY AliveInLive DEF IstRcvInviteAgain, NistRcvRequestAgain, In, Alive
<1>1. Fixed /\ RefsFit /\ Sound(timers, TimersOf[kind]) /\ phase \in {"New", "Live"}
      /\ Fits(kind, state, PendingIn(timers))
  BY <1>0 DEF Alive
<1>2. ASSUME Fail(timers) PROVE IInv'
  BY <1>0, <1>1, <1>2, EndStep DEF Fail
<1>3. ASSUME Stay(state, timers) PROVE IInv'
  BY <1>0, <1>1, <1>3, StayStep
<1> QED
  BY <1>2, <1>3 DEF IstRcvInviteAgain, NistRcvRequestAgain

(* The channel's responses to an INVITE.                                    *)
LEMMA IstSendStep == ASSUME IInv, IstSend1xx \/ IstSend2xx \/ IstSend3456xx PROVE IInv'
<1> DEFINE S == TimersOf[kind]
<1>0. /\ Alive /\ kind = "IST" /\ state = "Proceeding"
      /\ S = {"G", "H", "I"} /\ Sound(timers, S)
      /\ last' \in {"none", "1xx", "2xx", "3456xx"}
  <2>1. phase = "Live" /\ kind = "IST" /\ state = "Proceeding"
    BY DEF IstSend1xx, IstSend2xx, IstSend3456xx, In
  <2>2. last' \in {"1xx", "2xx", "3456xx"}
    BY DEF IstSend1xx, IstSend2xx, IstSend3456xx
  <2> QED
    BY <2>1, <2>2, AliveInLive DEF Alive, TimersOf
<1>1. /\ Fixed /\ RefsFit /\ phase \in {"New", "Live"} /\ Fits("IST", "Proceeding", PendingIn(timers))
  BY <1>0 DEF Alive
<1>2. PendingIn(timers) = {}
  BY <1>1 DEF Fits
<1>3. ASSUME Terminate(timers) PROVE IInv'
  BY <1>0, <1>3, EndStep
<1>4. ASSUME Stay("Proceeding", timers) PROVE IInv'
  BY <1>0, <1>1, <1>4, StayStep
<1> DEFINE g == IF timers["G"].len > 0 THEN Armed(timers, "G") ELSE timers
<1>5. ASSUME Stay("Completed", Armed(g, "H")) PROVE IInv'
  <2>1. timers["G"].left = Off /\ timers["H"].left = Off /\ timers["H"].len >= 0
    BY <1>0, <1>2, SoundFields
  <2>2. ASSUME timers["G"].len > 0
        PROVE  /\ Sound(Armed(timers, "G"), S) /\ PendingIn(Armed(timers, "G")) = {"G"}
               /\ Armed(timers, "G")["H"] = timers["H"]
    <3>1. timers["G"].len >= 0 /\ "G" \in S /\ "H" \in S \ {"G"}
      BY <1>0, <2>2, SoundFields
    <3>2. /\ Sound(Armed(timers, "G"), S)
          /\ PendingIn(Armed(timers, "G")) = PendingIn(timers) \cup {"G"}
          /\ \A u \in S \ {"G"} : Armed(timers, "G")[u] = timers[u]
      BY <1>0, <2>1, <3>1, ArmedSound
    <3> QED
      BY <1>2, <3>1, <3>2
  <2>3. Sound(g, S) /\ PendingIn(g) \subseteq {"G"} /\ g["H"] = timers["H"]
    BY <1>0, <1>2, <2>2
  <2> HIDE DEF g
  <2>4. Sound(Armed(g, "H"), S) /\ PendingIn(Armed(g, "H")) = PendingIn(g) \cup {"H"}
    BY <1>0, <2>1, <2>3, ArmedSound
  <2>5. Fits(kind, "Completed", PendingIn(Armed(g, "H")))
    BY <1>0, <2>3, <2>4 DEF Fits
  <2> QED
    BY <1>0, <1>1, <1>5, <2>4, <2>5, StayStep
<1> QED
  BY <1>3, <1>4, <1>5 DEF IstSend1xx, IstSend2xx, IstSend3456xx, Fail

(* The ACK of a final response.                                             *)
LEMMA IstAckStep == ASSUME IInv, IstRcvAck PROVE IInv'
<1> DEFINE S == TimersOf[kind]
           m == Cancelled(timers, {"H", "G"})
<1>0. /\ Alive /\ kind = "IST" /\ state = "Completed" /\ last' = last
      /\ S = {"G", "H", "I"} /\ Sound(timers, S)
      /\ last' \in {"none", "1xx", "2xx", "3456xx"}
  BY AliveInLive DEF IstRcvAck, In, Alive, TimersOf
<1>1. /\ Fixed /\ RefsFit /\ phase \in {"New", "Live"} /\ Fits("IST", "Completed", PendingIn(timers))
  BY <1>0 DEF Alive
<1>2. Sound(m, S) /\ PendingIn(m) = PendingIn(timers) \ {"H", "G"}
  BY <1>0, CancelledSound
<1>3. PendingIn(m) = {}
  BY <1>1, <1>2 DEF Fits
<1>4. \/ timers["I"].len > 0 /\ Stay("Confirmed", Armed(m, "I"))
      \/ Terminate(m)
  BY DEF IstRcvAck
<1> HIDE DEF m
<1>5. ASSUME Terminate(m) PROVE IInv'
  BY <1>0, <1>2, <1>5, EndStep
<1>6. ASSUME Stay("Confirmed", Armed(m, "I")) PROVE IInv'
  <2>1. m["I"].left = Off /\ m["I"].len >= 0 /\ "I" \in S
    BY <1>0, <1>2, <1>3, SoundFields
  <2>2. Sound(Armed(m, "I"), S) /\ PendingIn(Armed(m, "I")) = {"I"}
    BY <1>2, <1>3, <2>1, ArmedSound
  <2>3. Fits(kind, "Confirmed", PendingIn(Armed(m, "I")))
    BY <1>0, <2>2 DEF Fits
  <2> QED
    BY <1>0, <1>1, <1>6, <2>2, <2>3, StayStep
<1> QED
  BY <1>4, <1>5, <1>6

(* The service's responses to another request.                              *)
LEMMA NistSendStep == ASSUME IInv, NistSend1xx \/ NistSendFinal PROVE IInv'
<1> DEFINE S == TimersOf[kind]
<1>0. /\ Alive /\ kind = "NIST" /\ state \in {"Trying", "Proceeding"}
      /\ S = {"J"} /\ Sound(timers, S)
      /\ last' \in {"none", "1xx", "2xx", "3456xx"}
  <2>1. phase = "Live" /\ kind = "NIST" /\ state \in {"Trying", "Proceeding"}
    BY DEF NistSend1xx, NistSendFinal, In
  <2>2. last' \in {"1xx", "2xx", "3456xx"}
    BY DEF NistSend1xx, NistSendFinal
  <2> QED
    BY <2>1, <2>2, AliveInLive DEF Alive, TimersOf
<1>1. /\ Fixed /\ RefsFit /\ phase \in {"New", "Live"} /\ Fits("NIST", state, PendingIn(timers))
  BY <1>0 DEF Alive
<1>2. PendingIn(timers) = {}
  BY <1>0, <1>1 DEF Fits
<1>3. ASSUME Terminate(timers) PROVE IInv'
  BY <1>0, <1>3, EndStep
<1>4. ASSUME Stay("Proceeding", timers) PROVE IInv'
  <2>1. Fits(kind, "Proceeding", PendingIn(timers))
    BY <1>0, <1>2 DEF Fits
  <2> QED
    BY <1>0, <1>1, <1>4, <2>1, StayStep
<1>5. ASSUME Stay("Completed", Armed(timers, "J")) PROVE IInv'
  <2>1. timers["J"].left = Off /\ timers["J"].len >= 0
    BY <1>0, <1>2, SoundFields
  <2>2. Sound(Armed(timers, "J"), S) /\ PendingIn(Armed(timers, "J")) = {"J"}
    BY <1>0, <1>2, <2>1, ArmedSound
  <2>3. Fits(kind, "Completed", PendingIn(Armed(timers, "J")))
    BY <1>0, <2>2 DEF Fits
  <2> QED
    BY <1>0, <1>1, <1>5, <2>2, <2>3, StayStep
<1> QED
  BY <1>3, <1>4, <1>5 DEF NistSend1xx, NistSendFinal, Fail

(* A timer that nothing handles fires: timer B of an INVITE that rings, or  *)
(* one of a transaction that has ended.                                     *)
LEMMA IgnoredStep == ASSUME IInv, IgnoredTimer PROVE IInv'
<1> DEFINE S == TimersOf[kind]
<1>1. PICK t \in DOMAIN timers \ Handled : Due(t) /\ timers' = Fired(t)
  BY DEF IgnoredTimer
<1>2. /\ phase \in {"Live", "Ended"}
      /\ UNCHANGED <<kind, reliable, phase, state, refs, held, last>>
  BY DEF IgnoredTimer
<1>3. Sound(timers, S) /\ DOMAIN timers = S
  BY DEF IInv, Sound
<1>4. Sound(Fired(t), S) /\ PendingIn(Fired(t)) = PendingIn(timers) \ {t}
  BY <1>1, <1>3, FiredSound
<1>5. phase = "Live" => Fits(kind, state, PendingIn(timers) \ {t})
  <2> SUFFICES ASSUME phase = "Live" PROVE Fits(kind, state, PendingIn(timers) \ {t})
    OBVIOUS
  <2>1. Fits(kind, state, PendingIn(timers))
    BY DEF IInv
  <2>2. t \in PendingIn(timers)
    BY <1>1 DEF Due, Pending, PendingIn
  <2>3. t \notin Handled
    BY <1>1
  <2> QED
    BY <2>1, <2>2, <2>3 DEF Fits, Handled
<1>6. Fixed' /\ RefsFit'
  BY <1>2 DEF IInv, Fixed, RefsFit
<1> QED
  BY <1>1, <1>2, <1>4, <1>5, <1>6 DEF IInv

(* Time passes.                                                             *)
LEMMA TickStep == ASSUME IInv, Tick PROVE IInv'
<1> DEFINE S == TimersOf[kind]
<1>1. /\ phase \in {"Live", "Ended"}
      /\ \A t \in DOMAIN timers : Pending(t) => timers[t].left > -Slack
      /\ timers' = [t \in DOMAIN timers |->
                      IF Pending(t) THEN [timers[t] EXCEPT !.left = @ - 1] ELSE timers[t]]
      /\ UNCHANGED <<kind, reliable, phase, state, refs, held, last>>
  BY DEF Tick
<1>2. /\ Sound(timers, S) /\ timers \in [S -> TimerType] /\ DOMAIN timers = S
      /\ Off \in Int /\ Slack \in Nat /\ Off = -(Slack + 2)
  BY TimesAssumption DEF IInv, Sound, Off
<1>3. ASSUME NEW t \in S
      PROVE  /\ timers'[t] \in TimerType
             /\ timers'[t].len = timers[t].len /\ timers'[t].start = timers[t].start
             /\ timers'[t].lost = timers[t].lost
             /\ timers'[t].left # Off <=> timers[t].left # Off
             /\ timers'[t].left # Off => timers'[t].left >= -Slack
  <2>0. timers[t] \in TimerType
    BY <1>2
  <2>1. CASE Pending(t)
    <3>1. timers'[t] = [timers[t] EXCEPT !.left = timers[t].left - 1]
      BY <1>1, <1>2, <2>1
    <3>2. timers[t].left # Off /\ timers[t].left > -Slack
      BY <1>1, <1>2, <2>1 DEF Pending
    <3>3. timers[t].left - 1 # Off /\ timers[t].left - 1 >= -Slack /\ timers[t].left \in Int
      BY <1>2, <2>0, <3>2 DEF TimerType
    <3> QED
      BY <2>0, <3>1, <3>2, <3>3 DEF TimerType
  <2>2. CASE ~Pending(t)
    <3>1. timers'[t] = timers[t]
      BY <1>1, <1>2, <2>2
    <3> QED
      BY <2>0, <2>2, <3>1 DEF Pending
  <2> QED
    BY <2>1, <2>2
<1>4. timers' \in [S -> TimerType]
  BY <1>1, <1>2, <1>3
<1>5. Sound(timers', S)
  BY <1>2, <1>3, <1>4 DEF Sound
<1>6. PendingIn(timers') = PendingIn(timers)
  BY <1>2, <1>3, <1>4 DEF PendingIn
<1>7. Fixed' /\ RefsFit'
  BY <1>1 DEF IInv, Fixed, RefsFit
<1> QED
  BY <1>1, <1>5, <1>6, <1>7 DEF IInv

(* Every step preserves the inductive invariant.                            *)
LEMMA NextIInv == IInv /\ [Next]_vars => IInv'
<1> SUFFICES ASSUME IInv, [Next]_vars PROVE IInv'
  OBVIOUS
<1>1. CASE Next
  BY <1>1, FirstStep, HoldStep, DropStep, RetransmitStep, ExpiryStep, IgnoredStep,
     IctReceiveStep, NictReceiveStep, AgainStep, IstAckStep, IstSendStep, NistSendStep, TickStep
  DEF Next, Timeout, Receive, Respond
<1>2. CASE UNCHANGED vars
  BY <1>2 DEF IInv, Fixed, RefsFit, vars
<1> QED
  BY <1>1, <1>2

(* IInv is an invariant of the transaction.                                 *)
LEMMA Invariance == Spec => []IInv
  BY InitIInv, NextIInv, PTL DEF Spec

(* A freed transaction has no entry left in OPPTimerMonitor and no handler  *)
(* loses track of a pending entry, for all times and any lateness.          *)
THEOREM NoTimerOutlives == Spec => []NoTimerOutlivesTransaction
<1>1. IInv => NoTimerOutlivesTransaction
  BY DEF IInv, NoTimerOutlivesTransaction, Sound, PendingIn, Pending
<1> QED
  BY <1>1, Invariance, PTL

(* While a transaction is in the map the timer that ends its state is       *)
(* pending, and the state's handler acts on every timer that is pending.    *)
THEOREM TimersFit == Spec => []TimersFitState
<1>1. IInv => TimersFitState
  <2> SUFFICES ASSUME IInv, phase = "Live"
               PROVE  /\ \A t \in Deadlines : t \in PendingIn(timers)
                      /\ \A t \in PendingIn(timers) \ Handled : t = "B" /\ state = "Proceeding"
    BY DEF TimersFitState, Pending, PendingIn
  <2>1. Fits(kind, state, PendingIn(timers))
    BY DEF IInv
  <2> QED
    BY <2>1 DEF Fits, Deadlines, Handled, Absorber
<1> QED
  BY <1>1, Invariance, PTL
-----------------------------------------------------------------------------
(* What a client transaction has told, by its state: nothing while it waits *)
(* for a final response, once when it is Completed, and when it has left    *)
(* the map once if a final response came and was acknowledged.              *)
Waiting(ph, s) == ph = "New" \/ (ph = "Live" /\ s \in {"Trying", "Proceeding"})

HInv ==
    /\ history \in HistoryType
    /\ kind \in Client =>
         /\ Waiting(phase, state) => history.told = 0 /\ ~history.gaveup /\ ~history.final
         /\ phase = "Live" /\ state = "Completed" =>
               history.told = 1 /\ ~history.gaveup
         /\ history.gaveup => history.told = 0 /\ ~history.final
         /\ history.told \in {0, 1}
         /\ history.final /\ ~history.failed => history.told = 1

(* Steps that end the transaction, and steps that stay in the map.          *)
LEMMA Outcome ==
    ASSUME NEW m
    PROVE  /\ Terminate(m) => phase' \in {"Ended", "Freed"} /\ state' = "Ready" /\ kind' = kind
           /\ \A s : Stay(s, m) => phase' = "Live" /\ state' = s /\ kind' = kind
           /\ Fail(m) => Terminate(m) /\ history' = [history EXCEPT !.failed = TRUE]
  BY DEF Terminate, Stay, Fail, Note

(* The history is typed after each kind of step.                            *)
LEMMA HistoryTyped ==
    ASSUME history \in HistoryType
    PROVE  /\ [history EXCEPT !.failed = TRUE] \in HistoryType
           /\ [history EXCEPT !.sent = @ + 1] \in HistoryType
           /\ [history EXCEPT !.linger = @ + 1] \in HistoryType
           /\ [history EXCEPT !.gaveup = TRUE] \in HistoryType
           /\ [history EXCEPT !.final = TRUE] \in HistoryType
           /\ [history EXCEPT !.final = TRUE, !.told = @ + 1] \in HistoryType
           /\ [history EXCEPT !.final = TRUE, !.failed = TRUE] \in HistoryType
           /\ [history EXCEPT !.acked = TRUE, !.linger = 0] \in HistoryType
           /\ \A ok \in BOOLEAN :
                 [history EXCEPT !.final = TRUE, !.failed = ~ok] \in HistoryType
<1>0. /\ history.sent + 1 \in Nat /\ history.linger + 1 \in Nat /\ history.told + 1 \in Nat
      /\ 0 \in Nat /\ TRUE \in BOOLEAN
  BY DEF HistoryType
<1>1. [history EXCEPT !.failed = TRUE] \in HistoryType
  BY <1>0 DEF HistoryType
<1>2. [history EXCEPT !.sent = @ + 1] \in HistoryType
  BY <1>0 DEF HistoryType
<1>3. [history EXCEPT !.linger = @ + 1] \in HistoryType
  BY <1>0 DEF HistoryType
<1>4. [history EXCEPT !.gaveup = TRUE] \in HistoryType
  BY <1>0 DEF HistoryType
<1>5. [history EXCEPT !.final = TRUE] \in HistoryType
  BY <1>0 DEF HistoryType
<1>6. [history EXCEPT !.final = TRUE, !.told = @ + 1] \in HistoryType
  BY <1>0 DEF HistoryType
<1>7. [history EXCEPT !.final = TRUE, !.failed = TRUE] \in HistoryType
  BY <1>0 DEF HistoryType
<1>8. [history EXCEPT !.acked = TRUE, !.linger = 0] \in HistoryType
  BY <1>0 DEF HistoryType
<1>9. ASSUME NEW ok \in BOOLEAN
      PROVE  [history EXCEPT !.final = TRUE, !.failed = ~ok] \in HistoryType
  BY <1>0 DEF HistoryType
<1> QED
  BY <1>1, <1>2, <1>3, <1>4, <1>5, <1>6, <1>7, <1>8, <1>9

(* A step that changes neither what was told nor how the transaction ended. *)
Quiet == /\ history' \in HistoryType
         /\ history'.told = history.told
         /\ history'.gaveup <=> history.gaveup
         /\ history'.final <=> history.final
         /\ history.failed => history'.failed

(* The changes of the history that are quiet.                               *)
LEMMA QuietChanges ==
    ASSUME history \in HistoryType,
           \/ UNCHANGED history
           \/ history' = [history EXCEPT !.failed = TRUE]
           \/ history' = [history EXCEPT !.sent = @ + 1]
           \/ history' = [history EXCEPT !.linger = @ + 1]
    PROVE  Quiet
<1>1. history' \in HistoryType
  BY HistoryTyped
<1>2. CASE UNCHANGED history
  BY <1>1, <1>2 DEF Quiet
<1>3. CASE history' = [history EXCEPT !.failed = TRUE]
  BY <1>1, <1>3 DEF Quiet, HistoryType
<1>4. CASE history' = [history EXCEPT !.sent = @ + 1]
  BY <1>1, <1>4 DEF Quiet, HistoryType
<1>5. CASE history' = [history EXCEPT !.linger = @ + 1]
  BY <1>1, <1>5 DEF Quiet, HistoryType
<1> QED
  BY <1>2, <1>3, <1>4, <1>5

(* A quiet step keeps the history in agreement with the state.              *)
LEMMA QuietStep ==
    ASSUME HInv, Quiet, kind' = kind,
           Waiting(phase', state') => Waiting(phase, state),
           phase' = "Live" /\ state' = "Completed" => phase = "Live" /\ state = "Completed"
    PROVE  HInv'
  BY DEF HInv, Quiet, Waiting

(* Timer B or F gives up.                                                   *)
LEMMA GiveUpStep == ASSUME IInv, HInv, IctTimerB \/ NictTimerF PROVE HInv'
<1>1. /\ phase = "Live" /\ kind \in Client /\ state \in {"Trying", "Proceeding"}
      /\ phase' \in {"Ended", "Freed"} /\ state' = "Ready" /\ kind' = kind
      /\ history' = [history EXCEPT !.gaveup = TRUE]
  BY DEF IctTimerB, NictTimerF, NICTWaits, In, Client, Terminate, Note
<1>2. history \in HistoryType /\ history.told = 0 /\ ~history.final
  BY <1>1 DEF HInv, Waiting
<1>3. history' \in HistoryType
  BY <1>1, <1>2, HistoryTyped
<1>4. history'.told = 0 /\ ~history'.final
  BY <1>1, <1>2 DEF HistoryType
<1> QED
  BY <1>1, <1>3, <1>4 DEF HInv, Waiting

(* A final response is handed to the channel.                               *)
LEMMA TellStep ==
    ASSUME IInv, HInv, Waiting(phase, state), kind \in Client, kind' = kind,
           ~Waiting(phase', state'),
           history' = [history EXCEPT !.final = TRUE, !.told = @ + 1]
    PROVE  HInv'
<1>1. history \in HistoryType /\ history.told = 0 /\ ~history.gaveup
  BY DEF HInv
<1>2. history' \in HistoryType
  BY <1>1, HistoryTyped
<1>3. history'.told = 1
  BY <1>1 DEF HistoryType
<1>4. ~history'.gaveup
  BY <1>1 DEF HistoryType
<1> QED
  BY <1>2, <1>3, <1>4 DEF HInv

(* The ACK of a final response could not be sent.                           *)
LEMMA UntoldStep ==
    ASSUME IInv, HInv, Waiting(phase, state), kind \in Client, kind' = kind,
           phase' \in {"Ended", "Freed"},
           history' = [history EXCEPT !.final = TRUE, !.failed = TRUE]
    PROVE  HInv'
<1>1. history \in HistoryType /\ history.told = 0 /\ ~history.gaveup
  BY DEF HInv
<1>2. history' \in HistoryType
  BY <1>1, HistoryTyped
<1>3. history'.told = 0 /\ history'.failed
  BY <1>1 DEF HistoryType
<1>4. ~history'.gaveup
  BY <1>1 DEF HistoryType
<1> QED
  BY <1>2, <1>3, <1>4 DEF HInv, Waiting

(* Server transactions tell nothing.                                        *)
LEMMA ServerStep ==
    ASSUME HInv, kind \notin Client, kind' = kind, history' \in HistoryType PROVE HInv'
  BY DEF HInv

(* The first event and the steps that leave the history alone.              *)
LEMMA FirstHistory == ASSUME IInv, HInv, SendRequest \/ RcvRequest \/ Hold \/ Drop PROVE HInv'
<1>1. history \in HistoryType
  BY DEF HInv
<1>2. CASE SendRequest \/ RcvRequest
  <2>1. phase = "New" /\ kind' = kind
    BY <1>2, Outcome DEF SendRequest, RcvRequest
  <2>2. UNCHANGED history \/ history' = [history EXCEPT !.failed = TRUE]
    BY <1>2, Outcome DEF SendRequest, RcvRequest
  <2>3. phase' = "Live" => state' # "Completed"
    BY <1>2, Outcome DEF SendRequest, RcvRequest
  <2> QED
    BY <1>1, <2>1, <2>2, <2>3, QuietChanges, QuietStep DEF Waiting
<1>3. CASE Hold \/ Drop
  <2>1. UNCHANGED <<kind, state, history>> /\ phase' \in {phase, "Freed"}
    BY <1>3 DEF Hold, Drop
  <2> QED
    BY <1>1, <2>1, QuietChanges, QuietStep DEF Waiting
<1> QED
  BY <1>2, <1>3

(* Time, ignored timers and timers that end a wait.                         *)
LEMMA TimeHistory == ASSUME IInv, HInv, Tick \/ IgnoredTimer \/ AbsorbTimer PROVE HInv'
<1>1. history \in HistoryType
  BY DEF HInv
<1>2. CASE Tick \/ IgnoredTimer
  <2>1. UNCHANGED <<kind, phase, state>>
    BY <1>2 DEF Tick, IgnoredTimer
  <2>2. UNCHANGED history \/ history' = [history EXCEPT !.linger = @ + 1]
    BY <1>2 DEF Tick, IgnoredTimer
  <2> QED
    BY <1>1, <2>1, <2>2, QuietChanges, QuietStep
<1>3. CASE AbsorbTimer
  <2>1. kind' = kind /\ phase' \in {"Ended", "Freed"} /\ UNCHANGED history
    BY <1>3 DEF AbsorbTimer, Terminate
  <2> QED
    BY <1>1, <2>1, QuietChanges, QuietStep DEF Waiting
<1> QED
  BY <1>2, <1>3

(* The steps of client transactions.                                        *)
LEMMA ClientHistory ==
    ASSUME IInv, HInv,
           \/ IctTimerA \/ NictTimerE \/ IctRcv1xx \/ IctRcv2xx \/ IctRcv3456xx
           \/ IctRcv3456xxWhileCompleted \/ NictRcv1xx \/ NictRcvFinal
    PROVE  HInv'
<1>1. history \in HistoryType
  BY DEF HInv
<1>2. CASE IctTimerA \/ NictTimerE
  <2>1. phase = "Live" /\ state \in {"Trying", "Proceeding"} /\ kind' = kind
    BY <1>2, Outcome DEF IctTimerA, NictTimerE, NICTWaits, In
  <2>2. phase' = "Live" => state' # "Completed"
    BY <1>2, Outcome DEF IctTimerA, NictTimerE, NICTWaits, In
  <2>3. \/ history' = [history EXCEPT !.failed = TRUE]
        \/ history' = [history EXCEPT !.sent = @ + 1]
    BY <1>2, Outcome DEF IctTimerA, NictTimerE, Note
  <2> QED
    BY <1>1, <2>1, <2>2, <2>3, QuietChanges, QuietStep DEF Waiting
<1>3. CASE IctRcv1xx \/ NictRcv1xx
  <2>1. /\ phase = "Live" /\ state \in {"Trying", "Proceeding"} /\ kind' = kind
        /\ phase' = "Live" /\ state' = "Proceeding" /\ UNCHANGED history
    BY <1>3, Outcome DEF IctRcv1xx, NictRcv1xx, NICTWaits, In
  <2> QED
    BY <1>1, <2>1, QuietChanges, QuietStep DEF Waiting
<1>4. CASE IctRcv2xx \/ NictRcvFinal
  <2>1. /\ phase = "Live" /\ state \in {"Trying", "Proceeding"} /\ kind \in Client
        /\ history' = [history EXCEPT !.final = TRUE, !.told = @ + 1]
    BY <1>4 DEF IctRcv2xx, NictRcvFinal, NICTWaits, In, Client, Note
  <2>2. kind' = kind /\ ~Waiting(phase', state')
    BY <1>4 DEF IctRcv2xx, NictRcvFinal, Terminate, Stay, Waiting
  <2> QED
    BY <2>1, <2>2, TellStep DEF Waiting
<1>5. CASE IctRcv3456xx
  <2>1. phase = "Live" /\ state \in {"Trying", "Proceeding"} /\ kind \in Client
    BY <1>5 DEF IctRcv3456xx, In, Client
  <2>2. CASE /\ Terminate(Cancelled(timers, {"A"}))
             /\ Note([history EXCEPT !.final = TRUE, !.failed = TRUE])
    BY <2>1, <2>2, Outcome, UntoldStep DEF Note, Waiting
  <2>3. CASE /\ Stay("Completed", Armed(Cancelled(timers, {"A", "B"}), "D"))
             /\ Note([history EXCEPT !.final = TRUE, !.told = @ + 1])
    BY <2>1, <2>3, Outcome, TellStep DEF Note, Waiting
  <2> QED
    BY <1>5, <2>2, <2>3 DEF IctRcv3456xx
<1>6. CASE IctRcv3456xxWhileCompleted
  <2>1. /\ phase = "Live" /\ state = "Completed" /\ kind' = kind
        /\ phase' \in {"Ended", "Freed"} \/ (phase' = "Live" /\ state' = "Completed")
    BY <1>6, Outcome DEF IctRcv3456xxWhileCompleted, In
  <2>2. UNCHANGED history \/ history' = [history EXCEPT !.failed = TRUE]
    BY <1>6, Outcome DEF IctRcv3456xxWhileCompleted
  <2> QED
    BY <1>1, <2>1, <2>2, QuietChanges, QuietStep DEF Waiting
<1> QED
  BY <1>2, <1>3, <1>4, <1>5, <1>6

(* The steps of server transactions.                                        *)
LEMMA ServerHistory ==
    ASSUME IInv, HInv,
           \/ IstRcvInviteAgain \/ IstSend1xx \/ IstSend2xx \/ IstSend3456xx \/ IstTimerG
           \/ IstTimerH \/ IstRcvAck \/ NistRcvRequestAgain \/ NistSend1xx \/ NistSendFinal
    PROVE  HInv'
<1>1. kind \notin Client /\ kind' = kind
  <2>1. kind \in {"IST", "NIST"}
    BY DEF IstRcvInviteAgain, IstSend1xx, IstSend2xx, IstSend3456xx, IstTimerG, IstTimerH,
           IstRcvAck, NistRcvRequestAgain, NistSend1xx, NistSendFinal, In
  <2>2. kind' = kind
    BY Outcome
    DEF IstRcvInviteAgain, IstSend1xx, IstSend2xx, IstSend3456xx, IstTimerG, IstTimerH,
        IstRcvAck, NistRcvRequestAgain, NistSend1xx, NistSendFinal
  <2> QED
    BY <2>1, <2>2 DEF Client
<1>2. \/ UNCHANGED history
      \/ history' = [history EXCEPT !.failed = TRUE]
      \/ history' = [history EXCEPT !.sent = @ + 1]
      \/ history' = [history EXCEPT !.final = TRUE]
      \/ history' = [history EXCEPT !.gaveup = TRUE]
      \/ history' = [history EXCEPT !.acked = TRUE, !.linger = 0]
      \/ \E ok \in BOOLEAN : history' = [history EXCEPT !.final = TRUE, !.failed = ~ok]
  BY Outcome
  DEF IstRcvInviteAgain, IstSend1xx, IstSend2xx, IstSend3456xx, IstTimerG, IstTimerH,
      IstRcvAck, NistRcvRequestAgain, NistSend1xx, NistSendFinal, Note
<1>3. history' \in HistoryType
  BY <1>2, HistoryTyped DEF HInv
<1> QED
  BY <1>1, <1>3, ServerStep

(* The history agrees with the state after every step.                      *)
LEMMA NextHInv == IInv /\ HInv /\ [Next]_vars => HInv'
<1> SUFFICES ASSUME IInv, HInv, [Next]_vars PROVE HInv'
  OBVIOUS
<1>1. CASE Next
  BY <1>1, FirstHistory, TimeHistory, ClientHistory, ServerHistory, GiveUpStep
  DEF Next, Timeout, Receive, Respond
<1>2. CASE UNCHANGED vars
  BY <1>2 DEF HInv, Waiting, vars
<1> QED
  BY <1>1, <1>2

(* ... and in a new transaction.                                            *)
LEMMA InitHInv == Init => HInv
  BY DEF Init, HInv, HistoryType, NoHistory, Waiting

(* Both invariants hold of the transaction.                                 *)
LEMMA HistoryInvariance == Spec => [](IInv /\ HInv)
<1>1. Init => IInv /\ HInv
  BY InitIInv, InitHInv
<1>2. IInv /\ HInv /\ [Next]_vars => IInv' /\ HInv'
  BY NextIInv, NextHInv
<1> QED
  BY <1>1, <1>2, PTL DEF Spec

(* The types of every transaction, whatever its times.                      *)
THEOREM TypeCorrect == Spec => []TypeOK
<1>1. IInv /\ HInv => TypeOK
  <2> SUFFICES ASSUME IInv, HInv PROVE TypeOK
    OBVIOUS
  <2>1. state \in {"Ready", "Trying", "Proceeding", "Completed", "Confirmed"}
    BY DEF IInv, Fixed, Fits
  <2> QED
    BY <2>1 DEF IInv, HInv, Fixed, RefsFit, Sound, TypeOK
<1> QED
  BY <1>1, HistoryInvariance, PTL

(* The channel hears of a final response exactly once, however often the    *)
(* peer repeats it, and never after timer B or F gave up.                   *)
THEOREM ToldOnce == Spec => []FinalToldOnce
<1>1. HInv => FinalToldOnce
  BY DEF HInv, FinalToldOnce, HistoryType
<1> QED
  BY <1>1, HistoryInvariance, PTL
-----------------------------------------------------------------------------
(* What the operators on timers leave alone.                                *)
LEMMA ArmedFrame ==
    ASSUME NEW S, NEW m \in [S -> TimerType], NEW t \in S
    PROVE  /\ Armed(m, t) \in [S -> TimerType]
           /\ Armed(m, t)[t].left = m[t].len /\ Armed(m, t)[t].len = m[t].len
           /\ \A u \in S \ {t} : Armed(m, t)[u] = m[u]
<1> DEFINE r == [len |-> m[t].len, left |-> m[t].len, start |-> TRUE,
                 lost |-> m[t].lost \/ m[t].left # Off]
<1>1. Armed(m, t) = [m EXCEPT ![t] = r]
  BY DEF Armed
<1>2. m[t].len \in Int /\ (m[t].lost \/ m[t].left # Off) \in BOOLEAN
  BY DEF TimerType
<1>3. r \in TimerType /\ r.left = m[t].len /\ r.len = m[t].len
  BY <1>2 DEF TimerType
<1> HIDE DEF r
<1>4. Armed(m, t)[t] = r /\ \A u \in S \ {t} : Armed(m, t)[u] = m[u]
  BY <1>1
<1>5. [m EXCEPT ![t] = r] \in [S -> TimerType]
  BY <1>3
<1> QED
  BY <1>1, <1>3, <1>4, <1>5

(* Cancelling touches none of the other timers.                            *)
LEMMA CancelledFrame ==
    ASSUME NEW S, NEW m \in [S -> TimerType], NEW T
    PROVE  /\ Cancelled(m, T) \in [S -> TimerType]
           /\ \A u \in S : /\ Cancelled(m, T)[u].len = m[u].len
                           /\ u \notin T => Cancelled(m, T)[u] = m[u]
                           /\ m[u].left = Off => Cancelled(m, T)[u].left = Off
<1>0. DOMAIN m = S /\ Off \in Int
  BY TimesAssumption DEF Off
<1>1. \A u \in S : Cancelled(m, T)[u] = IF u \in T /\ m[u].start
                                        THEN [m[u] EXCEPT !.left = Off, !.start = FALSE] ELSE m[u]
  BY <1>0 DEF Cancelled
<1>2. ASSUME NEW u \in S
      PROVE  /\ Cancelled(m, T)[u] \in TimerType
             /\ Cancelled(m, T)[u].len = m[u].len
             /\ u \notin T => Cancelled(m, T)[u] = m[u]
             /\ m[u].left = Off => Cancelled(m, T)[u].left = Off
  <2>1. m[u] \in TimerType
    OBVIOUS
  <2>2. CASE u \in T /\ m[u].start
    BY <1>0, <1>1, <2>1, <2>2 DEF TimerType
  <2>3. CASE ~(u \in T /\ m[u].start)
    BY <1>1, <2>1, <2>3
  <2> QED
    BY <2>2, <2>3
<1>3. Cancelled(m, T) \in [S -> TimerType]
  <2>1. Cancelled(m, T) = [u \in S |-> Cancelled(m, T)[u]]
    BY <1>0 DEF Cancelled
  <2> QED
    BY <1>2, <2>1
<1> QED
  BY <1>2, <1>3

(* Nor does the firing of a timer.                                         *)
LEMMA FiredFrame ==
    ASSUME NEW S, timers \in [S -> TimerType], NEW t \in S
    PROVE  /\ Fired(t) \in [S -> TimerType]
           /\ Fired(t)[t].left = Off /\ Fired(t)[t].len = timers[t].len
           /\ \A u \in S \ {t} : Fired(t)[u] = timers[u]
<1> DEFINE r == [timers[t] EXCEPT !.left = Off]
<1>0. Off \in Int
  BY TimesAssumption DEF Off
<1>1. Fired(t) = [timers EXCEPT ![t] = r]
  BY DEF Fired
<1>2. timers[t] \in TimerType
  OBVIOUS
<1>3. r \in TimerType /\ r.left = Off /\ r.len = timers[t].len
  BY <1>0, <1>2 DEF TimerType
<1> HIDE DEF r
<1>4. Fired(t)[t] = r /\ \A u \in S \ {t} : Fired(t)[u] = timers[u]
  BY <1>1
<1>5. [timers EXCEPT ![t] = r] \in [S -> TimerType]
  BY <1>3
<1> QED
  BY <1>1, <1>3, <1>4, <1>5

(* Nor does the setting of a length.                                       *)
LEMMA LengthFrame ==
    ASSUME NEW S, NEW m \in [S -> TimerType], NEW t \in S, NEW n \in Int
    PROVE  /\ [m EXCEPT ![t].len = n] \in [S -> TimerType]
           /\ [m EXCEPT ![t].len = n][t].len = n
           /\ [m EXCEPT ![t].len = n][t].left = m[t].left
           /\ \A u \in S \ {t} : [m EXCEPT ![t].len = n][u] = m[u]
<1> DEFINE r == [m[t] EXCEPT !.len = n]
           l == [m EXCEPT ![t].len = n]
<1>1. l = [m EXCEPT ![t] = r]
  OBVIOUS
<1>2. m[t] \in TimerType
  OBVIOUS
<1>3. r \in TimerType /\ r.len = n /\ r.left = m[t].left
  BY <1>2 DEF TimerType
<1> HIDE DEF r
<1>4. l[t] = r /\ \A u \in S \ {t} : l[u] = m[u]
  BY <1>1
<1>5. [m EXCEPT ![t] = r] \in [S -> TimerType]
  BY <1>3
<1> QED
  BY <1>1, <1>3, <1>4, <1>5

(* Nor does arming for a length that is given.                             *)
LEMMA ArmedForFrame ==
    ASSUME NEW S, NEW m \in [S -> TimerType], NEW t \in S, NEW n \in Int
    PROVE  /\ ArmedFor(m, t, n) \in [S -> TimerType]
           /\ ArmedFor(m, t, n)[t].left = n /\ ArmedFor(m, t, n)[t].len = n
           /\ \A u \in S \ {t} : ArmedFor(m, t, n)[u] = m[u]
<1> DEFINE l == [m EXCEPT ![t].len = n]
<1>1. l \in [S -> TimerType] /\ l[t].len = n /\ \A u \in S \ {t} : l[u] = m[u]
  BY LengthFrame
<1>2. ArmedFor(m, t, n) = Armed(l, t)
  BY DEF ArmedFor
<1> HIDE DEF l
<1>3. /\ Armed(l, t) \in [S -> TimerType]
      /\ Armed(l, t)[t].left = l[t].len /\ Armed(l, t)[t].len = l[t].len
      /\ \A u \in S \ {t} : Armed(l, t)[u] = l[u]
  BY <1>1, ArmedFrame
<1> QED
  BY <1>1, <1>2, <1>3
-----------------------------------------------------------------------------
(* Every timer but A, B, E and G keeps the length it was given at first, and *)
(* over a reliable transport timer G is never armed.                        *)
Lasting == {"D", "F", "K", "H", "I", "J"}

Kept(m) ==
    /\ kind \in DOMAIN TimersOf
    /\ m \in [TimersOf[kind] -> TimerType]
    /\ \A t \in TimersOf[kind] \cap Lasting : m[t].len = InitialLength(t, reliable)
    /\ kind = "IST" /\ reliable => m["G"].len = -1 /\ m["G"].left = Off

(* What lasts survives arming,                                             *)
LEMMA KeptArmed ==
    ASSUME NEW m, Kept(m), NEW t \in TimersOf[kind], t = "G" => ~reliable
    PROVE  Kept(Armed(m, t))
<1>1. "IST" = kind => "G" \in TimersOf[kind]
  BY DEF TimersOf
<1>2. /\ Armed(m, t) \in [TimersOf[kind] -> TimerType]
      /\ Armed(m, t)[t].len = m[t].len
      /\ \A u \in TimersOf[kind] \ {t} : Armed(m, t)[u] = m[u]
  BY ArmedFrame DEF Kept
<1> QED
  BY <1>1, <1>2 DEF Kept

(* arming for a length,                                                    *)
LEMMA KeptArmedFor ==
    ASSUME NEW m, Kept(m), NEW t \in TimersOf[kind], t \notin Lasting,
           t = "G" => ~reliable, NEW n \in Int
    PROVE  Kept(ArmedFor(m, t, n))
<1>1. "IST" = kind => "G" \in TimersOf[kind]
  BY DEF TimersOf
<1>2. /\ ArmedFor(m, t, n) \in [TimersOf[kind] -> TimerType]
      /\ \A u \in TimersOf[kind] \ {t} : ArmedFor(m, t, n)[u] = m[u]
  BY ArmedForFrame DEF Kept
<1> QED
  BY <1>1, <1>2 DEF Kept

(* cancelling,                                                             *)
LEMMA KeptCancelled == ASSUME NEW m, Kept(m), NEW T PROVE Kept(Cancelled(m, T))
<1>1. "IST" = kind => "G" \in TimersOf[kind]
  BY DEF TimersOf
<1>2. /\ Cancelled(m, T) \in [TimersOf[kind] -> TimerType]
      /\ \A u \in TimersOf[kind] : /\ Cancelled(m, T)[u].len = m[u].len
                                   /\ m[u].left = Off => Cancelled(m, T)[u].left = Off
  BY CancelledFrame DEF Kept
<1> QED
  BY <1>1, <1>2 DEF Kept

(* and firing.                                                             *)
LEMMA KeptFired == ASSUME Kept(timers), NEW t \in TimersOf[kind] PROVE Kept(Fired(t))
<1>1. "IST" = kind => "G" \in TimersOf[kind]
  BY DEF TimersOf
<1>2. /\ Fired(t) \in [TimersOf[kind] -> TimerType]
      /\ Fired(t)[t].left = Off /\ Fired(t)[t].len = timers[t].len
      /\ \A u \in TimersOf[kind] \ {t} : Fired(t)[u] = timers[u]
  BY FiredFrame DEF Kept
<1> QED
  BY <1>1, <1>2 DEF Kept

(* Both ways a handler ends keep what its record of timers keeps.           *)
LEMMA KeptOutcome ==
    ASSUME NEW m, Kept(m)
    PROVE  /\ Terminate(m) => Kept(timers)'
           /\ \A s : Stay(s, m) => Kept(timers)'
<1>1. ASSUME Terminate(m) PROVE Kept(timers)'
  <2>1. kind' = kind /\ reliable' = reliable /\ timers' \in {m, FreeRes(m)}
    BY <1>1 DEF Terminate
  <2>2. Kept(FreeRes(m))
    BY KeptCancelled DEF FreeRes
  <2>3. Kept(timers')
    BY <2>1, <2>2
  <2> QED
    BY <2>1, <2>3 DEF Kept
<1>2. ASSUME NEW s, Stay(s, m) PROVE Kept(timers)'
  <2>1. kind' = kind /\ reliable' = reliable /\ timers' = m
    BY <1>2 DEF Stay
  <2> QED
    BY <2>1 DEF Kept
<1> QED
  BY <1>1, <1>2

(* A failed handler terminates.                                             *)
LEMMA KeptFail == ASSUME NEW m, Kept(m), Fail(m) PROVE Kept(timers)'
  BY KeptOutcome DEF Fail

(* A timer that is due belongs to the kind, and is not G if reliable.       *)
LEMMA DueKept ==
    ASSUME Kept(timers), NEW t, Due(t)
    PROVE  /\ t \in TimersOf[kind] /\ Kept(Fired(t))
           /\ t = "G" => ~reliable
           /\ timers[t] \in TimerType /\ timers[t].len \in Int
<1>1. DOMAIN timers = TimersOf[kind]
  BY DEF Kept
<1>2. t \in TimersOf[kind] /\ timers[t].left # Off
  BY <1>1 DEF Due, Pending
<1>3. timers[t] \in TimerType /\ timers[t].len \in Int
  BY <1>2 DEF Kept, TimerType
<1>4. t = "G" => kind = "IST"
  <2>1. kind \in {"ICT", "NICT", "IST", "NIST"}
    BY <1>2, <1>3 DEF Kept, TimersOf
  <2> QED
    BY <1>2, <2>1 DEF TimersOf
<1> QED
  BY <1>2, <1>3, <1>4, KeptFired DEF Kept

(* The record of timers of every handler is made of these steps.            *)
LEMMA NextKept == ASSUME IInv, Kept(timers), [Next]_vars PROVE Kept(timers)'
<1> DEFINE S == TimersOf[kind]
<1>0. /\ T2 \in Int /\ -1 \in Int /\ 2 \in Int
      /\ "A" \notin Lasting /\ "B" \notin Lasting /\ "E" \notin Lasting /\ "G" \notin Lasting
  BY TimesAssumption DEF Lasting
<1>1. CASE SendRequest \/ RcvRequest
  <2>1. ASSUME kind = "ICT" PROVE Kept(Armed(Armed(timers, "A"), "B"))
    <3>1. "A" \in S /\ "B" \in S
      BY <2>1 DEF TimersOf
    <3>2. Kept(Armed(timers, "A"))
      BY <3>1, KeptArmed
    <3> QED
      BY <3>1, <3>2, KeptArmed
  <2>2. ASSUME kind = "NICT" PROVE Kept(Armed(Armed(timers, "E"), "F"))
    <3>1. "E" \in S /\ "F" \in S
      BY <2>2 DEF TimersOf
    <3>2. Kept(Armed(timers, "E"))
      BY <3>1, KeptArmed
    <3> QED
      BY <3>1, <3>2, KeptArmed
  <2>3. Fail(timers) => Kept(timers)'
    BY KeptFail
  <2>4. \A s : Stay(s, timers) => Kept(timers)'
    BY KeptOutcome
  <2>5. kind = "ICT" => \A s : Stay(s, Armed(Armed(timers, "A"), "B")) => Kept(timers)'
    BY <2>1, KeptOutcome
  <2>6. kind = "NICT" => \A s : Stay(s, Armed(Armed(timers, "E"), "F")) => Kept(timers)'
    BY <2>2, KeptOutcome
  <2>7. CASE SendRequest
    BY <2>3, <2>5, <2>6, <2>7 DEF SendRequest, Client
  <2>8. CASE RcvRequest
    BY <2>3, <2>4, <2>8 DEF RcvRequest
  <2> QED
    BY <1>1, <2>7, <2>8
<1>2. CASE Hold \/ Drop
  <2>1. kind' = kind /\ reliable' = reliable /\ timers' \in {timers, FreeRes(timers)}
    BY <1>2 DEF Hold, Drop
  <2>2. Kept(FreeRes(timers))
    BY KeptCancelled DEF FreeRes
  <2>3. Kept(timers')
    BY <2>1, <2>2
  <2> QED
    BY <2>1, <2>3 DEF Kept
<1>3. CASE Tick
  <2>1. /\ kind' = kind /\ reliable' = reliable
        /\ timers' = [t \in DOMAIN timers |->
                        IF Pending(t) THEN [timers[t] EXCEPT !.left = timers[t].left - 1] ELSE timers[t]]
    BY <1>3 DEF Tick
  <2>2. DOMAIN timers = S
    BY DEF Kept
  <2>3. ASSUME NEW t \in S
        PROVE  /\ timers'[t] \in TimerType /\ timers'[t].len = timers[t].len
               /\ timers[t].left = Off => timers'[t].left = Off
    <3>1. timers[t] \in TimerType
      BY DEF Kept
    <3>2. timers'[t] = IF Pending(t) THEN [timers[t] EXCEPT !.left = timers[t].left - 1] ELSE timers[t]
      BY <2>1, <2>2
    <3> QED
      BY <3>1, <3>2 DEF TimerType, Pending
  <2>4. timers' \in [S -> TimerType]
    BY <2>1, <2>2, <2>3
  <2>5. kind = "IST" => "G" \in S
    BY DEF TimersOf
  <2>6. Kept(timers')
    BY <2>3, <2>4, <2>5 DEF Kept
  <2> QED
    BY <2>1, <2>6 DEF Kept
<1>4. CASE IctTimerA
  <2>1. Due("A") /\ (Fail(Fired("A")) \/ Stay("Trying", ArmedFor(Fired("A"), "A", 2 * timers["A"].len)))
    BY <1>4 DEF IctTimerA
  <2>2. "A" \in S /\ Kept(Fired("A")) /\ 2 * timers["A"].len \in Int
    BY <2>1, DueKept
  <2> DEFINE f == Fired("A")
             n == 2 * timers["A"].len
  <2>3. Kept(f) /\ n \in Int
    BY <2>2
  <2> HIDE DEF f, n
  <2>4. Kept(ArmedFor(f, "A", n))
    BY <1>0, <2>2, <2>3, KeptArmedFor
  <2>5. Kept(ArmedFor(Fired("A"), "A", 2 * timers["A"].len))
    BY <2>4 DEF f, n
  <2> QED
    BY <2>1, <2>2, <2>5, KeptFail, KeptOutcome
<1>5. CASE IctTimerB
  <2>1. Due("B") /\ Terminate([Fired("B") EXCEPT !["B"].len = -1])
    BY <1>5 DEF IctTimerB
  <2>2. "B" \in S /\ Kept(Fired("B"))
    BY <2>1, DueKept
  <2> DEFINE f == Fired("B")
  <2>3. Kept(f)
    BY <2>2
  <2> HIDE DEF f
  <2>4. PICK n : n = -1
    OBVIOUS
  <2>5. /\ [f EXCEPT !["B"].len = n] \in [S -> TimerType]
        /\ \A u \in S \ {"B"} : [f EXCEPT !["B"].len = n][u] = f[u]
    <3>1. f \in [S -> TimerType] /\ n \in Int /\ "B" \in S
      BY <1>0, <2>2, <2>3, <2>4 DEF Kept
    <3> QED
      BY <3>1, LengthFrame
  <2>6. kind = "IST" => "G" \in S
    BY DEF TimersOf
  <2>7. Kept([f EXCEPT !["B"].len = n])
    BY <1>0, <2>3, <2>5, <2>6 DEF Kept
  <2>8. Kept([Fired("B") EXCEPT !["B"].len = -1])
    BY <2>4, <2>7 DEF f
  <2> QED
    BY <2>1, <2>8, KeptOutcome
<1>6. CASE IctRcv1xx \/ IctRcv2xx \/ IctRcv3456xx \/ IctRcv3456xxWhileCompleted
  <2>1. Kept(Cancelled(timers, {"A"})) /\ Kept(Cancelled(timers, {"A", "B"})) /\ kind = "ICT"
    BY <1>6, KeptCancelled DEF IctRcv1xx, IctRcv2xx, IctRcv3456xx, IctRcv3456xxWhileCompleted, In
  <2>2. Kept(Armed(Cancelled(timers, {"A", "B"}), "D"))
    <3> DEFINE c == Cancelled(timers, {"A", "B"})
    <3>1. Kept(c) /\ "D" \in S
      BY <2>1 DEF TimersOf
    <3> HIDE DEF c
    <3>2. Kept(Armed(c, "D"))
      BY <3>1, KeptArmed
    <3> QED
      BY <3>2 DEF c
  <2>3. \E m : /\ m \in {timers, Cancelled(timers, {"A"}), Armed(Cancelled(timers, {"A", "B"}), "D")}
               /\ Terminate(m) \/ \E s : Stay(s, m)
    BY <1>6 DEF IctRcv1xx, IctRcv2xx, IctRcv3456xx, IctRcv3456xxWhileCompleted, Fail
  <2> QED
    BY <2>1, <2>2, <2>3, KeptOutcome
<1>7. CASE NictTimerE
  <2>1. PICK n : /\ Due("E")
                 /\ n = IF state = "Proceeding" \/ 2 * timers["E"].len > T2 THEN T2 ELSE 2 * timers["E"].len
                 /\ Fail(Fired("E")) \/ Stay(state, ArmedFor(Fired("E"), "E", n))
    BY <1>7 DEF NictTimerE
  <2>2. "E" \in S /\ Kept(Fired("E")) /\ n \in Int
    BY <1>0, <2>1, DueKept
  <2> DEFINE f == Fired("E")
  <2>3. Kept(f)
    BY <2>2
  <2> HIDE DEF f
  <2>4. Kept(ArmedFor(f, "E", n))
    BY <1>0, <2>2, <2>3, KeptArmedFor
  <2>5. Kept(ArmedFor(Fired("E"), "E", n))
    BY <2>4 DEF f
  <2> QED
    BY <2>1, <2>2, <2>5, KeptFail, KeptOutcome
<1>8. CASE NictTimerF
  <2>1. Due("F") /\ \E m \in {Fired("F"), Cancelled(Fired("F"), {"E"})} : Terminate(m)
    BY <1>8 DEF NictTimerF
  <2>2. Kept(Fired("F"))
    BY <2>1, DueKept
  <2>3. Kept(Cancelled(Fired("F"), {"E"}))
    BY <2>2, KeptCancelled
  <2> QED
    BY <2>1, <2>2, <2>3, KeptOutcome
<1>9. CASE NictRcv1xx \/ NictRcvFinal
  <2>1. Kept(Cancelled(timers, {"E", "F"})) /\ kind = "NICT"
    BY <1>9, KeptCancelled DEF NictRcv1xx, NictRcvFinal, NICTWaits, In
  <2>2. Kept(Armed(Cancelled(timers, {"E", "F"}), "K"))
    <3> DEFINE c == Cancelled(timers, {"E", "F"})
    <3>1. Kept(c) /\ "K" \in S
      BY <2>1 DEF TimersOf
    <3> HIDE DEF c
    <3>2. Kept(Armed(c, "K"))
      BY <3>1, KeptArmed
    <3> QED
      BY <3>2 DEF c
  <2>3. \E m : /\ m \in {timers, Armed(Cancelled(timers, {"E", "F"}), "K")}
               /\ \E s : Stay(s, m)
    BY <1>9 DEF NictRcv1xx, NictRcvFinal
  <2> QED
    BY <2>2, <2>3, KeptOutcome
<1>10. CASE \/ IstRcvInviteAgain \/ IstSend1xx \/ IstSend2xx
            \/ NistRcvRequestAgain \/ NistSend1xx
  <2>1. Terminate(timers) \/ \E s : Stay(s, timers)
    BY <1>10 DEF IstRcvInviteAgain, IstSend1xx, IstSend2xx, NistRcvRequestAgain, NistSend1xx, Fail
  <2> QED
    BY <2>1, KeptOutcome
<1>11. CASE IstSend3456xx
  <2> DEFINE g == IF timers["G"].len > 0 THEN Armed(timers, "G") ELSE timers
  <2>1. kind = "IST" /\ (Fail(timers) \/ Stay("Completed", Armed(g, "H")))
    BY <1>11 DEF IstSend3456xx, In
  <2>2. "G" \in S /\ "H" \in S /\ "H" # "G"
    BY <2>1 DEF TimersOf
  <2>3. timers["G"].len > 0 => ~reliable
    BY <2>1 DEF Kept
  <2>4. Kept(g)
    BY <2>2, <2>3, KeptArmed
  <2> HIDE DEF g
  <2>5. Kept(Armed(g, "H"))
    BY <2>2, <2>4, KeptArmed
  <2> QED
    BY <2>1, <2>5, KeptFail, KeptOutcome
<1>12. CASE IstTimerG
  <2>1. PICK n : /\ Due("G")
                 /\ n = IF 2 * timers["G"].len > T2 THEN T2 ELSE 2 * timers["G"].len
                 /\ \/ Fail(ArmedFor(Fired("G"), "G", n))
                    \/ Stay("Completed", ArmedFor(Fired("G"), "G", n))
    BY <1>12 DEF IstTimerG
  <2>2. "G" \in S /\ Kept(Fired("G")) /\ n \in Int /\ ~reliable
    BY <1>0, <2>1, DueKept
  <2> DEFINE f == Fired("G")
  <2>3. Kept(f)
    BY <2>2
  <2> HIDE DEF f
  <2>4. Kept(ArmedFor(f, "G", n))
    BY <1>0, <2>2, <2>3, KeptArmedFor
  <2>5. Kept(ArmedFor(Fired("G"), "G", n))
    BY <2>4 DEF f
  <2> QED
    BY <2>1, <2>5, KeptFail, KeptOutcome
<1>13. CASE IstTimerH
  BY <1>13, DueKept, KeptOutcome DEF IstTimerH
<1>14. CASE IstRcvAck
  <2> DEFINE c == Cancelled(timers, {"H", "G"})
  <2>1. Kept(c) /\ kind = "IST" /\ (Terminate(c) \/ Stay("Confirmed", Armed(c, "I")))
    BY <1>14, KeptCancelled DEF IstRcvAck, In
  <2>2. "I" \in S
    BY <2>1 DEF TimersOf
  <2> HIDE DEF c
  <2>3. Kept(Armed(c, "I"))
    BY <2>1, <2>2, KeptArmed
  <2> QED
    BY <2>1, <2>3, KeptOutcome
<1>15. CASE NistSendFinal
  <2>1. kind = "NIST" /\ (Terminate(timers) \/ Stay("Completed", Armed(timers, "J")))
    BY <1>15 DEF NistSendFinal, Fail, In
  <2>2. "J" \in S
    BY <2>1 DEF TimersOf
  <2>3. Kept(Armed(timers, "J"))
    BY <2>2, KeptArmed
  <2> QED
    BY <2>1, <2>3, KeptOutcome
<1>16. CASE AbsorbTimer
  <2> DEFINE f == Fired(Absorber[kind])
  <2>1. Kept(f) /\ Terminate(IF kind = "NIST" THEN [f EXCEPT !["J"].start = FALSE] ELSE f)
    BY <1>16, DueKept DEF AbsorbTimer
  <2> HIDE DEF f
  <2>2. CASE kind = "NIST"
    <3>1. S = {"J"}
      BY <2>2 DEF TimersOf
    <3>2. f \in [{"J"} -> TimerType] /\ f["J"] \in TimerType
      BY <2>1, <3>1 DEF Kept
    <3>3. [f EXCEPT !["J"].start = FALSE] = [f EXCEPT !["J"] = [f["J"] EXCEPT !.start = FALSE]]
      OBVIOUS
    <3>4. /\ [f EXCEPT !["J"].start = FALSE] \in [{"J"} -> TimerType]
          /\ [f EXCEPT !["J"].start = FALSE]["J"].len = f["J"].len
      BY <3>2, <3>3 DEF TimerType
    <3>5. Kept([f EXCEPT !["J"].start = FALSE])
      BY <2>1, <2>2, <3>1, <3>4 DEF Kept
    <3> QED
      BY <2>1, <2>2, <3>5, KeptOutcome
  <2>3. CASE kind # "NIST"
    BY <2>1, <2>3, KeptOutcome
  <2> QED
    BY <2>2, <2>3
<1>17. CASE IgnoredTimer
  <2>1. PICK t : Due(t) /\ timers' = Fired(t) /\ kind' = kind /\ reliable' = reliable
    BY <1>17 DEF IgnoredTimer
  <2>2. Kept(timers')
    BY <2>1, DueKept
  <2> QED
    BY <2>1, <2>2 DEF Kept
<1>18. CASE UNCHANGED vars
  BY <1>18 DEF Kept, vars
<1> QED
  BY <1>1, <1>2, <1>3, <1>4, <1>5, <1>6, <1>7, <1>8, <1>9, <1>10, <1>11, <1>12, <1>13, <1>14,
     <1>15, <1>16, <1>17, <1>18
  DEF Next, Timeout, Receive, Respond

(* It holds of the timers at first.                                        *)
LEMMA InitKept == Init => Kept(timers)
<1> SUFFICES ASSUME Init PROVE Kept(timers)
  OBVIOUS
<1>1. /\ kind \in DOMAIN TimersOf
      /\ timers = [t \in TimersOf[kind] |-> [len |-> InitialLength(t, reliable), left |-> Off,
                                             start |-> FALSE, lost |-> FALSE]]
  BY DEF Init
<1>2. timers \in [TimersOf[kind] -> TimerType]
  BY InitIInv DEF IInv, Sound
<1>3. kind = "IST" => "G" \in TimersOf[kind]
  BY DEF TimersOf
<1>4. reliable => InitialLength("G", reliable) = -1
  BY DEF InitialLength
<1> QED
  BY <1>1, <1>2, <1>3, <1>4 DEF Kept
-----------------------------------------------------------------------------
(* The wait for copies: the timer that ends it in each kind and state, with *)
(* what has passed of its time.                                             *)
Before   == phase = "New" \/ (phase = "Live" /\ state \in {"Trying", "Proceeding"})
Answered == phase = "Live" /\ state \in {"Completed", "Confirmed"}

WaitTimer == IF kind = "IST" /\ state = "Completed" THEN "H" ELSE Absorber[kind]

WaitLength == IF kind = "NICT" \/ WaitTimer = "I" THEN T4 ELSE 64 * T1

LInv ==
    /\ Before => ~history.final /\ ~history.acked /\ history.linger = 0
    /\ Answered /\ ~reliable =>
          /\ timers[WaitTimer].left + history.linger = WaitLength
          /\ kind \in {"ICT", "IST"} => last = "3456xx"
          /\ kind = "IST" => (history.acked <=> state = "Confirmed")

(* No transaction lingers at first.                                        *)
LEMMA InitLInv == Init => LInv
  BY DEF Init, LInv, Before, Answered, NoHistory

(* The length a timer of the wait has.                                      *)
LEMMA WaitLengths ==
    ASSUME Kept(timers), ~reliable
    PROVE  /\ kind = "ICT"  => timers["D"].len = 64 * T1
           /\ kind = "NICT" => timers["K"].len = T4
           /\ kind = "IST"  => timers["H"].len = 64 * T1 /\ timers["I"].len = T4
           /\ kind = "NIST" => timers["J"].len = 64 * T1
  BY DEF Kept, TimersOf, Lasting, InitialLength

(* While the transaction waits, its timer is pending and handled.           *)
LEMMA WaitPending ==
    ASSUME IInv, Answered
    PROVE  /\ WaitTimer \in TimersOf[kind] /\ timers[WaitTimer].left # Off
           /\ WaitTimer \in Handled
           /\ timers[WaitTimer].left \in Int
           /\ kind # "IST" => state = "Completed"
<1>1. Fits(kind, state, PendingIn(timers)) /\ timers \in [TimersOf[kind] -> TimerType]
  BY DEF IInv, Answered, Sound
<1>2. /\ WaitTimer \in PendingIn(timers) /\ WaitTimer \in Handled
      /\ kind # "IST" => state = "Completed"
  BY <1>1 DEF Fits, WaitTimer, Absorber, Answered, Handled
<1>3. WaitTimer \in TimersOf[kind]
  BY <1>1, <1>2 DEF PendingIn
<1> QED
  BY <1>1, <1>2, <1>3 DEF PendingIn, TimerType

(* A transaction that left the map waits no longer.                         *)
LEMMA LingerEnds == ASSUME phase' \in {"Ended", "Freed"} PROVE LInv'
  BY DEF LInv, Before, Answered

(* A step that touches neither the state nor the timer of the wait.         *)
LEMMA LingerSame ==
    ASSUME IInv, LInv, UNCHANGED <<kind, reliable, phase, state>>,
           history'.final = history.final, history'.acked = history.acked,
           history'.linger = history.linger,
           Answered => last' = last /\ timers'[WaitTimer] = timers[WaitTimer]
    PROVE  LInv'
<1>1. Before' = Before /\ Answered' = Answered /\ WaitTimer' = WaitTimer /\ WaitLength' = WaitLength
  BY DEF Before, Answered, WaitTimer, WaitLength
<1>2. CASE Answered
  <2>1. timers'[WaitTimer'] = timers[WaitTimer] /\ last' = last
    BY <1>1, <1>2
  <2> HIDE DEF Before, Answered, WaitTimer, WaitLength
  <2> QED
    BY <1>1, <1>2, <2>1 DEF LInv
<1>3. CASE ~Answered
  BY <1>1, <1>3 DEF LInv
<1> QED
  BY <1>2, <1>3

(* A step from one state before the final response to another.              *)
LEMMA LingerBefore ==
    ASSUME LInv, Before, phase' = "Live", state' \in {"Trying", "Proceeding"},
           history'.final = history.final, history'.acked = history.acked,
           history'.linger = history.linger
    PROVE  LInv'
  BY DEF LInv, Before, Answered

(* The final response starts the wait.                                      *)
LEMMA LingerStarts ==
    ASSUME LInv, Before, phase' = "Live", state' = "Completed", UNCHANGED <<kind, reliable>>,
           history'.acked = history.acked, history'.linger = history.linger,
           kind \in DOMAIN TimersOf,
           kind \in {"ICT", "IST"} => last' = "3456xx",
           ~reliable => timers'[WaitTimer'].left = WaitLength'
    PROVE  LInv'
<1>1. ~Before' /\ (kind = "IST" => (state' # "Confirmed"))
  BY DEF Before
<1>2. history'.acked = FALSE \/ ~history'.acked
  BY DEF LInv
<1>3. WaitLength' \in Int /\ history'.linger = 0
  BY TimesAssumption DEF WaitLength, LInv
<1>4. ~reliable => timers'[WaitTimer'].left + history'.linger = WaitLength'
  BY <1>3
<1>5. kind' = kind /\ reliable' = reliable
  OBVIOUS
<1> HIDE DEF WaitTimer, WaitLength
<1> QED
  BY <1>1, <1>2, <1>4, <1>5 DEF LInv

(* What the changes of the history leave alone.                             *)
LEMMA HistoryFields ==
    ASSUME history \in HistoryType
    PROVE  /\ history' = [history EXCEPT !.failed = TRUE] =>
                /\ history'.final = history.final /\ history'.acked = history.acked
                /\ history'.linger = history.linger /\ history'.failed = TRUE
                /\ history'.sent = history.sent /\ history'.gaveup = history.gaveup
           /\ history' = [history EXCEPT !.sent = @ + 1] =>
                /\ history'.final = history.final /\ history'.acked = history.acked
                /\ history'.linger = history.linger
                /\ history'.sent = history.sent + 1 /\ history'.gaveup = history.gaveup
           /\ history' = [history EXCEPT !.linger = @ + 1] =>
                /\ history'.final = history.final /\ history'.acked = history.acked
                /\ history'.linger = history.linger + 1
                /\ history'.sent = history.sent /\ history'.gaveup = history.gaveup
           /\ history' = [history EXCEPT !.gaveup = TRUE] =>
                /\ history'.final = history.final /\ history'.acked = history.acked
                /\ history'.linger = history.linger
                /\ history'.sent = history.sent
           /\ history' = [history EXCEPT !.final = TRUE] =>
                /\ history'.acked = history.acked /\ history'.linger = history.linger
                /\ history'.sent = history.sent /\ history'.gaveup = history.gaveup
           /\ history' = [history EXCEPT !.final = TRUE, !.told = @ + 1] =>
                /\ history'.acked = history.acked /\ history'.linger = history.linger
                /\ history'.sent = history.sent /\ history'.gaveup = history.gaveup
           /\ history' = [history EXCEPT !.final = TRUE, !.failed = TRUE] =>
                /\ history'.failed = TRUE
                /\ history'.sent = history.sent /\ history'.gaveup = history.gaveup
           /\ history' = [history EXCEPT !.acked = TRUE, !.linger = 0] =>
                /\ history'.acked = TRUE /\ history'.linger = 0
                /\ history'.final = history.final
                /\ history'.sent = history.sent /\ history'.gaveup = history.gaveup
           /\ \A ok \in BOOLEAN : history' = [history EXCEPT !.final = TRUE, !.failed = ~ok] =>
                /\ history'.sent = history.sent /\ history'.gaveup = history.gaveup
  BY DEF HistoryType

(* A handler that left the transaction Terminated.                          *)
LEMMA LingerTerminate == ASSUME NEW m, Terminate(m) \/ Fail(m) PROVE LInv'
<1>1. phase' \in {"Ended", "Freed"}
  BY Outcome
<1> QED
  BY <1>1, LingerEnds

(* The steps that only wait, and time itself.                               *)
LEMMA LingerTime ==
    ASSUME IInv, HInv, Kept(timers), LInv,
           Hold \/ Drop \/ IgnoredTimer \/ AbsorbTimer \/ Tick \/ UNCHANGED vars
    PROVE  LInv'
<1>0. history \in HistoryType /\ timers \in [TimersOf[kind] -> TimerType]
  BY DEF HInv, Kept
<1>1. CASE AbsorbTimer
  BY <1>1, LingerTerminate DEF AbsorbTimer
<1>2. CASE Hold
  BY <1>2, LingerSame DEF Hold
<1>3. CASE UNCHANGED vars
  BY <1>3, LingerSame DEF vars
<1>4. CASE Drop
  <2>1. UNCHANGED <<kind, reliable, state, last, history>>
        /\ ((phase' = phase /\ timers' = timers) \/ phase' = "Freed")
    BY <1>4 DEF Drop
  <2> QED
    BY <2>1, LingerSame, LingerEnds
<1>5. CASE IgnoredTimer
  <2>1. PICK t \in DOMAIN timers \ Handled : timers' = Fired(t)
    BY <1>5 DEF IgnoredTimer
  <2>2. UNCHANGED <<kind, reliable, phase, state, last, history>>
    BY <1>5 DEF IgnoredTimer
  <2>3. ASSUME Answered PROVE timers'[WaitTimer] = timers[WaitTimer]
    <3>1. t # WaitTimer /\ WaitTimer \in TimersOf[kind] /\ t \in TimersOf[kind]
      BY <1>0, <2>1, <2>3, WaitPending
    <3> QED
      BY <1>0, <2>1, <3>1, FiredFrame
  <2> QED
    BY <2>2, <2>3, LingerSame
<1>6. CASE Tick
  <2>1. UNCHANGED <<kind, reliable, phase, state, last>>
    BY <1>6 DEF Tick
  <2>2. CASE Answered
    <3>1. /\ WaitTimer \in TimersOf[kind] /\ timers[WaitTimer].left # Off
          /\ timers[WaitTimer].left \in Int /\ timers[WaitTimer] \in TimerType
      BY <1>0, <2>2, WaitPending
    <3>2. history' = [history EXCEPT !.linger = @ + 1]
      BY <1>6, <2>2 DEF Tick, Answered
    <3>3. /\ history'.final = history.final /\ history'.acked = history.acked
          /\ history'.linger = history.linger + 1 /\ history.linger \in Int
      BY <1>0, <3>2, HistoryFields DEF HistoryType
    <3>4. timers'[WaitTimer] = [timers[WaitTimer] EXCEPT !.left = timers[WaitTimer].left - 1]
      BY <1>0, <1>6, <3>1 DEF Tick, Pending
    <3>5. timers'[WaitTimer].left = timers[WaitTimer].left - 1
      BY <3>1, <3>4 DEF TimerType
    <3>6. /\ Answered' /\ ~Before' /\ WaitTimer' = WaitTimer /\ WaitLength' = WaitLength
      BY <2>1, <2>2 DEF Before, Answered, WaitTimer, WaitLength
    <3>7. timers'[WaitTimer'].left + history'.linger = timers[WaitTimer].left + history.linger
      BY <3>1, <3>3, <3>5, <3>6
    <3> HIDE DEF Before, Answered, WaitTimer, WaitLength
    <3> QED
      BY <2>1, <2>2, <3>3, <3>6, <3>7 DEF LInv
  <2>3. CASE ~Answered
    <3>1. phase = "Ended" \/ (phase = "Live" /\ history' = history)
      <4>1. phase \in {"Live", "Ended"}
        BY <1>6 DEF Tick
      <4> QED
        BY <1>6, <2>3, <4>1 DEF Tick, Answered
    <3> QED
      BY <2>1, <2>3, <3>1, LingerSame, LingerEnds
  <2> QED
    BY <2>2, <2>3
<1> QED
  BY <1>1, <1>2, <1>3, <1>4, <1>5, <1>6

(* Handlers that stay before the final response, or repeat something.       *)
LEMMA LingerRepeats ==
    ASSUME IInv, HInv, Kept(timers), LInv,
           \/ SendRequest \/ RcvRequest \/ IctTimerA \/ NictTimerE \/ IctRcv1xx \/ NictRcv1xx
           \/ IstSend1xx \/ NistSend1xx \/ IctRcv3456xxWhileCompleted
           \/ IstRcvInviteAgain \/ NistRcvRequestAgain \/ IstTimerG
    PROVE  LInv'
<1>0. history \in HistoryType /\ timers \in [TimersOf[kind] -> TimerType]
  BY DEF HInv, Kept
<1>1. CASE SendRequest \/ RcvRequest
  <2>1. ASSUME NEW m, NEW s \in {"Trying", "Proceeding"}, Stay(s, m), UNCHANGED history PROVE LInv'
    <3>1. phase' = "Live" /\ state' = s /\ Before
      BY <1>1, <2>1 DEF Stay, Before, SendRequest, RcvRequest
    <3> QED
      BY <2>1, <3>1, LingerBefore
  <2> QED
    BY <1>1, <2>1, LingerTerminate DEF SendRequest, RcvRequest
<1>2. CASE IctTimerA \/ NictTimerE
  <2>1. Before /\ state \in {"Trying", "Proceeding"}
    BY <1>2 DEF IctTimerA, NictTimerE, NICTWaits, In, Before
  <2>2. ASSUME NEW m, Stay(state, m), Note([history EXCEPT !.sent = @ + 1]) PROVE LInv'
    <3>1. phase' = "Live" /\ state' = state /\ history' = [history EXCEPT !.sent = @ + 1]
      BY <2>2 DEF Stay, Note
    <3> QED
      BY <1>0, <2>1, <3>1, LingerBefore, HistoryFields
  <2>3. CASE IctTimerA
    <3>1. state = "Trying"
      BY <2>3 DEF IctTimerA, In
    <3> QED
      BY <2>2, <2>3, <3>1, LingerTerminate DEF IctTimerA
  <2>4. CASE NictTimerE
    BY <2>2, <2>4, LingerTerminate DEF NictTimerE
  <2> QED
    BY <1>2, <2>3, <2>4
<1>3. CASE IctRcv1xx \/ NictRcv1xx \/ IstSend1xx \/ NistSend1xx
  <2>1. Before
    BY <1>3 DEF IctRcv1xx, NictRcv1xx, IstSend1xx, NistSend1xx, NICTWaits, In, Before
  <2>2. ASSUME NEW m, Stay("Proceeding", m), UNCHANGED history PROVE LInv'
    <3>1. phase' = "Live" /\ state' = "Proceeding"
      BY <2>2 DEF Stay
    <3> QED
      BY <2>1, <2>2, <3>1, LingerBefore
  <2> QED
    BY <1>3, <2>2, LingerTerminate DEF IctRcv1xx, NictRcv1xx, IstSend1xx, NistSend1xx
<1>4. CASE IctRcv3456xxWhileCompleted \/ IstRcvInviteAgain \/ NistRcvRequestAgain
  <2>1. phase = "Live" /\ last' = last
    BY <1>4 DEF IctRcv3456xxWhileCompleted, IstRcvInviteAgain, NistRcvRequestAgain, In
  <2>2. ASSUME Stay(state, timers), UNCHANGED history PROVE LInv'
    <3>1. UNCHANGED <<kind, reliable, phase, state, timers>>
      BY <2>1, <2>2 DEF Stay
    <3> QED
      BY <2>1, <2>2, <3>1, LingerSame
  <2>3. IctRcv3456xxWhileCompleted => state = "Completed"
    BY DEF IctRcv3456xxWhileCompleted, In
  <2> QED
    BY <1>4, <2>2, <2>3, LingerTerminate
    DEF IctRcv3456xxWhileCompleted, IstRcvInviteAgain, NistRcvRequestAgain
<1>5. CASE IstTimerG
  <2>1. phase = "Live" /\ state = "Completed" /\ kind = "IST" /\ last' = last
    BY <1>5 DEF IstTimerG, In
  <2>2. PICK n : /\ Due("G")
                 /\ n = IF 2 * timers["G"].len > T2 THEN T2 ELSE 2 * timers["G"].len
                 /\ \/ Fail(ArmedFor(Fired("G"), "G", n))
                    \/ /\ Stay("Completed", ArmedFor(Fired("G"), "G", n))
                       /\ history' = [history EXCEPT !.sent = @ + 1]
    BY <1>5 DEF IstTimerG, Note
  <2>3. CASE Fail(ArmedFor(Fired("G"), "G", n))
    BY <2>3, LingerTerminate
  <2>4. CASE /\ Stay("Completed", ArmedFor(Fired("G"), "G", n))
             /\ history' = [history EXCEPT !.sent = @ + 1]
    <3>1. UNCHANGED <<kind, reliable, phase, state>> /\ timers' = ArmedFor(Fired("G"), "G", n)
      BY <2>1, <2>4 DEF Stay
    <3>2. WaitTimer = "H" /\ "G" \in TimersOf[kind] /\ "H" \in TimersOf[kind] \ {"G"}
      BY <2>1 DEF WaitTimer, TimersOf
    <3>3. n \in Int
      BY <2>2, DueKept, TimesAssumption
    <3>4. Fired("G") \in [TimersOf[kind] -> TimerType] /\ Fired("G")["H"] = timers["H"]
      BY <1>0, <3>2, FiredFrame
    <3> DEFINE f == Fired("G")
    <3>5. f \in [TimersOf[kind] -> TimerType] /\ f["H"] = timers["H"] /\ timers' = ArmedFor(f, "G", n)
      BY <3>1, <3>4
    <3> HIDE DEF f
    <3>6. timers'["H"] = timers["H"]
      BY <3>2, <3>3, <3>5, ArmedForFrame
    <3> QED
      BY <1>0, <2>1, <2>4, <3>1, <3>2, <3>6, LingerSame, HistoryFields
  <2> QED
    BY <2>2, <2>3, <2>4
<1> QED
  BY <1>1, <1>2, <1>3, <1>4, <1>5

(* Handlers that end the transaction or start the wait for copies.          *)
LEMMA LingerFinal ==
    ASSUME IInv, HInv, Kept(timers), LInv,
           \/ IctTimerB \/ NictTimerF \/ IstTimerH \/ IctRcv2xx \/ IctRcv3456xx \/ NictRcvFinal
           \/ IstSend2xx \/ IstSend3456xx \/ IstRcvAck \/ NistSendFinal
    PROVE  LInv'
<1> DEFINE S == TimersOf[kind]
<1>0. /\ history \in HistoryType /\ timers \in [S -> TimerType] /\ kind \in DOMAIN TimersOf
  BY DEF HInv, Kept
<1>1. CASE IctTimerB \/ NictTimerF \/ IstTimerH \/ IctRcv2xx \/ IstSend2xx
  BY <1>1, LingerTerminate DEF IctTimerB, NictTimerF, IstTimerH, IctRcv2xx, IstSend2xx
<1>2. CASE IctRcv3456xx
  <2> DEFINE c == Cancelled(timers, {"A", "B"})
  <2>1. /\ Before /\ kind = "ICT" /\ last' = "3456xx" /\ S = {"A", "B", "D"}
        /\ \/ Terminate(Cancelled(timers, {"A"}))
           \/ Stay("Completed", Armed(c, "D")) /\ history' = [history EXCEPT !.final = TRUE, !.told = @ + 1]
    BY <1>2 DEF IctRcv3456xx, In, Note, Before, TimersOf
  <2>2. CASE Stay("Completed", Armed(c, "D")) /\ history' = [history EXCEPT !.final = TRUE, !.told = @ + 1]
    <3>1. c \in [S -> TimerType] /\ c["D"].len = timers["D"].len
      BY <1>0, <2>1, CancelledFrame
    <3> HIDE DEF c
    <3>2. Armed(c, "D")["D"].left = timers["D"].len
      BY <2>1, <3>1, ArmedFrame
    <3>3. phase' = "Live" /\ state' = "Completed" /\ UNCHANGED <<kind, reliable>> /\ timers' = Armed(c, "D")
      BY <2>2 DEF Stay
    <3>4. WaitTimer' = "D" /\ WaitLength' = 64 * T1
      BY <2>1, <3>3 DEF WaitTimer, WaitLength, Absorber
    <3>5. ~reliable => timers'[WaitTimer'].left = WaitLength'
      BY <2>1, <3>2, <3>3, <3>4, WaitLengths
    <3> HIDE DEF WaitTimer, WaitLength
    <3> QED
      BY <1>0, <2>1, <2>2, <3>3, <3>5, LingerStarts, HistoryFields
  <2> QED
    BY <2>1, <2>2, LingerTerminate
<1>3. CASE NictRcvFinal
  <2> DEFINE c == Cancelled(timers, {"E", "F"})
  <2>1. /\ Before /\ kind = "NICT" /\ S = {"E", "F", "K"}
        /\ Stay("Completed", Armed(c, "K")) /\ history' = [history EXCEPT !.final = TRUE, !.told = @ + 1]
    BY <1>3 DEF NictRcvFinal, NICTWaits, In, Note, Before, TimersOf
  <2>2. c \in [S -> TimerType] /\ c["K"].len = timers["K"].len
    BY <1>0, <2>1, CancelledFrame
  <2> HIDE DEF c
  <2>3. Armed(c, "K")["K"].left = timers["K"].len
    BY <2>1, <2>2, ArmedFrame
  <2>4. phase' = "Live" /\ state' = "Completed" /\ UNCHANGED <<kind, reliable>> /\ timers' = Armed(c, "K")
    BY <2>1 DEF Stay
  <2>5. WaitTimer' = "K" /\ WaitLength' = T4
    BY <2>1, <2>4 DEF WaitTimer, WaitLength, Absorber
  <2>6. ~reliable => timers'[WaitTimer'].left = WaitLength'
    BY <2>1, <2>3, <2>4, <2>5, WaitLengths
  <2> HIDE DEF WaitTimer, WaitLength
  <2> QED
    BY <1>0, <2>1, <2>4, <2>6, LingerStarts, HistoryFields
<1>4. CASE IstSend3456xx
  <2> DEFINE g == IF timers["G"].len > 0 THEN Armed(timers, "G") ELSE timers
  <2>1. /\ Before /\ kind = "IST" /\ last' = "3456xx" /\ S = {"G", "H", "I"}
        /\ Fail(timers) \/ (Stay("Completed", Armed(g, "H")) /\ history' = [history EXCEPT !.final = TRUE])
    BY <1>4 DEF IstSend3456xx, In, Note, Before, TimersOf
  <2>2. CASE Stay("Completed", Armed(g, "H")) /\ history' = [history EXCEPT !.final = TRUE]
    <3>1. Armed(timers, "G") \in [S -> TimerType] /\ Armed(timers, "G")["H"] = timers["H"]
      BY <1>0, <2>1, ArmedFrame
    <3>2. g \in [S -> TimerType] /\ g["H"] = timers["H"]
      BY <1>0, <3>1
    <3> HIDE DEF g
    <3>3. Armed(g, "H")["H"].left = timers["H"].len
      BY <2>1, <3>2, ArmedFrame
    <3>4. phase' = "Live" /\ state' = "Completed" /\ UNCHANGED <<kind, reliable>> /\ timers' = Armed(g, "H")
      BY <2>2 DEF Stay
    <3>5. WaitTimer' = "H" /\ WaitLength' = 64 * T1
      BY <2>1, <3>4 DEF WaitTimer, WaitLength
    <3>6. ~reliable => timers'[WaitTimer'].left = WaitLength'
      BY <2>1, <3>3, <3>4, <3>5, WaitLengths
    <3> HIDE DEF WaitTimer, WaitLength
    <3> QED
      BY <1>0, <2>1, <2>2, <3>4, <3>6, LingerStarts, HistoryFields
  <2> QED
    BY <2>1, <2>2, LingerTerminate
<1>5. CASE IstRcvAck
  <2> DEFINE c == Cancelled(timers, {"H", "G"})
  <2>1. /\ Answered /\ state = "Completed" /\ kind = "IST" /\ last' = last /\ S = {"G", "H", "I"}
        /\ (Stay("Confirmed", Armed(c, "I")) \/ Terminate(c))
        /\ history' = [history EXCEPT !.acked = TRUE, !.linger = 0]
    BY <1>5 DEF IstRcvAck, In, Note, Answered, TimersOf
  <2>2. CASE Stay("Confirmed", Armed(c, "I"))
    <3>1. c \in [S -> TimerType] /\ c["I"].len = timers["I"].len
      BY <1>0, <2>1, CancelledFrame
    <3> HIDE DEF c
    <3>2. Armed(c, "I")["I"].left = timers["I"].len
      BY <2>1, <3>1, ArmedFrame
    <3>3. phase' = "Live" /\ state' = "Confirmed" /\ UNCHANGED <<kind, reliable>> /\ timers' = Armed(c, "I")
      BY <2>2 DEF Stay
    <3>4. WaitTimer' = "I" /\ WaitLength' = T4
      BY <2>1, <3>3 DEF WaitTimer, WaitLength, Absorber
    <3>5. history'.acked = TRUE /\ history'.linger = 0
      BY <1>0, <2>1, HistoryFields
    <3>6. ~reliable => timers'[WaitTimer'].left + history'.linger = WaitLength'
      BY <2>1, <3>2, <3>3, <3>4, <3>5, WaitLengths, TimesAssumption
    <3>7. ~reliable => last = "3456xx"
      BY <2>1 DEF LInv
    <3>8. ~Before'
      BY <3>3 DEF Before
    <3> HIDE DEF WaitTimer, WaitLength, Before
    <3> QED
      BY <2>1, <3>3, <3>5, <3>6, <3>7, <3>8 DEF LInv
  <2> QED
    BY <2>1, <2>2, LingerTerminate
<1>6. CASE NistSendFinal
  <2>1. /\ Before /\ kind = "NIST" /\ S = {"J"}
        /\ \/ Fail(timers) \/ Terminate(timers)
           \/ Stay("Completed", Armed(timers, "J")) /\ history' = [history EXCEPT !.final = TRUE]
    BY <1>6 DEF NistSendFinal, In, Note, Before, TimersOf
  <2>2. CASE Stay("Completed", Armed(timers, "J")) /\ history' = [history EXCEPT !.final = TRUE]
    <3>1. Armed(timers, "J")["J"].left = timers["J"].len
      BY <1>0, <2>1, ArmedFrame
    <3>2. phase' = "Live" /\ state' = "Completed" /\ UNCHANGED <<kind, reliable>> /\ timers' = Armed(timers, "J")
      BY <2>2 DEF Stay
    <3>3. WaitTimer' = "J" /\ WaitLength' = 64 * T1
      BY <2>1, <3>2 DEF WaitTimer, WaitLength, Absorber
    <3>4. ~reliable => timers'[WaitTimer'].left = WaitLength'
      BY <2>1, <3>1, <3>2, <3>3, WaitLengths
    <3> HIDE DEF WaitTimer, WaitLength
    <3> QED
      BY <1>0, <2>1, <2>2, <3>2, <3>4, LingerStarts, HistoryFields
  <2> QED
    BY <2>1, <2>2, LingerTerminate
<1> QED
  BY <1>1, <1>2, <1>3, <1>4, <1>5, <1>6

(* Every step keeps the lingering.                                         *)
LEMMA NextLInv == IInv /\ HInv /\ Kept(timers) /\ LInv /\ [Next]_vars => LInv'
<1> SUFFICES ASSUME IInv, HInv, Kept(timers), LInv, [Next]_vars PROVE LInv'
  OBVIOUS
<1> QED
  BY LingerTime, LingerRepeats, LingerFinal DEF Next, Timeout, Receive, Respond

(* The handlers that end a live transaction without a failure: one that got *)
(* no final response, one with a 2xx, or one whose wait is over.            *)
LEMMA LingerAction ==
    ASSUME IInv, HInv, Kept(timers), LInv, Next,
           phase = "Live", phase' # "Live", ~reliable, history'.final, ~history'.failed
    PROVE  history.linger >= LeastLinger
<1>0. /\ history \in HistoryType /\ timers \in [TimersOf[kind] -> TimerType]
      /\ T1 \in Nat \ {0} /\ T4 \in Nat \ {0} /\ history.linger \in Nat
  BY TimesAssumption DEF HInv, Kept, HistoryType
<1>1. ASSUME NEW m, Fail(m) PROVE FALSE
  BY <1>0, <1>1, HistoryFields DEF Fail, Note
<1>2. ASSUME NEW s, NEW m, Stay(s, m) PROVE FALSE
  BY <1>2 DEF Stay
<1>3. CASE SendRequest \/ RcvRequest \/ Hold \/ IgnoredTimer \/ Tick
  BY <1>3 DEF SendRequest, RcvRequest, Hold, IgnoredTimer, Tick
<1>4. CASE Drop
  <2>1. held /\ refs = 1
    BY <1>4 DEF Drop, IInv, RefsFit
  <2> QED
    BY <1>4, <2>1 DEF Drop
<1>5. CASE IctTimerB \/ NictTimerF
  <2>1. history' = [history EXCEPT !.gaveup = TRUE] /\ Before
    BY <1>5 DEF IctTimerB, NictTimerF, NICTWaits, In, Note, Before
  <2> QED
    BY <1>0, <2>1, HistoryFields DEF LInv
<1>6. CASE IctRcv2xx \/ IstSend2xx
  <2>1. LeastLinger = 0
    BY <1>6 DEF IctRcv2xx, IstSend2xx, In, LeastLinger
  <2> QED
    BY <1>0, <2>1
<1>7. CASE \/ IctTimerA \/ NictTimerE \/ IctRcv1xx \/ IctRcv3456xxWhileCompleted \/ NictRcv1xx
           \/ NictRcvFinal \/ IstRcvInviteAgain \/ NistRcvRequestAgain
           \/ IstSend1xx \/ IstSend3456xx \/ NistSend1xx \/ IstTimerG
  BY <1>1, <1>2, <1>7
  DEF IctTimerA, NictTimerE, IctRcv1xx, IctRcv3456xxWhileCompleted, NictRcv1xx, NictRcvFinal,
      IstRcvInviteAgain, NistRcvRequestAgain, IstSend1xx, IstSend3456xx, NistSend1xx, IstTimerG
<1>8. CASE IctRcv3456xx
  <2>1. history' = [history EXCEPT !.final = TRUE, !.failed = TRUE]
    BY <1>2, <1>8 DEF IctRcv3456xx, Note
  <2> QED
    BY <1>0, <2>1, HistoryFields
<1>9. CASE IstTimerH \/ AbsorbTimer
  <2>1. Answered /\ Due(WaitTimer) /\ last' = last
    BY <1>9 DEF IstTimerH, AbsorbTimer, In, Answered, WaitTimer
  <2>2. timers[WaitTimer].left <= 0 /\ timers[WaitTimer].left \in Int
    BY <2>1, WaitPending DEF Due
  <2>3. timers[WaitTimer].left + history.linger = WaitLength /\ WaitLength \in Int
    BY <1>0, <2>1 DEF LInv, WaitLength
  <2>4. history.linger >= WaitLength
    <3> HIDE DEF WaitTimer, WaitLength
    <3> QED
      BY <1>0, <2>2, <2>3
  <2>5. kind \in {"ICT", "IST"} => last' = "3456xx"
    BY <2>1 DEF LInv
  <2>6. history'.acked = history.acked
    <3>1. history' = history \/ history' = [history EXCEPT !.gaveup = TRUE]
      BY <1>9 DEF IstTimerH, AbsorbTimer, Note
    <3> QED
      BY <1>0, <3>1, HistoryFields
  <2>7. kind = "IST" => (history.acked <=> state = "Confirmed") /\ state \in {"Completed", "Confirmed"}
    BY <2>1 DEF LInv, Answered
  <2>8. WaitLength >= LeastLinger
    <3>1. kind \in {"ICT", "NICT", "IST", "NIST"}
      BY DEF Kept, TimersOf
    <3>2. CASE kind = "IST"
      <4>1. LeastLinger = IF history'.acked THEN T4 ELSE 64 * T1
        BY <2>5, <3>2 DEF LeastLinger
      <4>2. WaitLength = IF state = "Confirmed" THEN T4 ELSE 64 * T1
        BY <2>7, <3>2 DEF WaitLength, WaitTimer, Absorber
      <4> QED
        BY <1>0, <2>6, <2>7, <3>2, <4>1, <4>2
    <3>3. CASE kind # "IST"
      BY <1>0, <2>5, <3>1, <3>3 DEF LeastLinger, WaitLength, WaitTimer, Absorber
    <3> QED
      BY <3>2, <3>3
  <2>9. LeastLinger \in Int
    BY <1>0 DEF LeastLinger
  <2> QED
    <3> HIDE DEF WaitLength, LeastLinger
    <3> QED
      BY <1>0, <2>3, <2>4, <2>8, <2>9
<1>10. CASE IstRcvAck
  <2>1. kind = "IST" /\ timers["I"].len > 0
    BY <1>0, <1>10, WaitLengths DEF IstRcvAck, In
  <2> QED
    BY <1>2, <1>10, <2>1 DEF IstRcvAck
<1>11. CASE NistSendFinal
  <2>1. kind = "NIST" /\ timers["J"].len > 0
    BY <1>0, <1>11, WaitLengths DEF NistSendFinal, In
  <2> QED
    BY <1>1, <1>2, <1>11, <2>1 DEF NistSendFinal
<1> QED
  BY <1>3, <1>4, <1>5, <1>6, <1>7, <1>8, <1>9, <1>10, <1>11
  DEF Next, Timeout, Receive, Respond

(* So it holds in every state.                                             *)
LEMMA LingerInvariance == Spec => [](IInv /\ HInv /\ Kept(timers) /\ LInv)
<1>1. Init => IInv /\ HInv /\ Kept(timers) /\ LInv
  BY InitIInv, InitHInv, InitKept, InitLInv
<1>2. IInv /\ HInv /\ Kept(timers) /\ LInv /\ [Next]_vars
        => IInv' /\ HInv' /\ Kept(timers)' /\ LInv'
  BY NextIInv, NextHInv, NextKept, NextLInv
<1> QED
  BY <1>1, <1>2, PTL DEF Spec

(* Unless sending fails, a transaction over UDP that has its final response *)
(* stays in the map for the whole time of timer D, H, I, J or K, whatever   *)
(* T1, T2, T4 and the lateness of the dispatch loop are.                    *)
THEOREM Lingers == Spec => LingersForCopies
<1>1. IInv /\ HInv /\ Kept(timers) /\ LInv /\ [Next]_vars =>
        [phase = "Live" /\ phase' # "Live" /\ ~reliable /\ history'.final /\ ~history'.failed
           => history.linger >= LeastLinger]_vars
  BY LingerAction
<1> QED
  BY <1>1, LingerInvariance, PTL DEF Spec, LingersForCopies
-----------------------------------------------------------------------------
(* The pace of the retransmissions, in three numbers: the length of the     *)
(* timer that retransmits, when it is due since the first message, and how  *)
(* many copies were sent.  Timer A doubles; timers E and G double up to T2, *)
(* and E may be T2 at once.                                                 *)
DefaultTimes == T2 = 8 * T1 /\ Slack <= 2 * T1

Doubling(len, k) ==
    \/ (k = 0 /\ len = T1)      \/ (k = 1 /\ len = 2 * T1)  \/ (k = 2 /\ len = 4 * T1)
    \/ (k = 3 /\ len = 8 * T1)  \/ (k = 4 /\ len = 16 * T1) \/ (k = 5 /\ len = 32 * T1)
    \/ (k = 6 /\ len = 64 * T1)

IctPace(len, due, k) ==
    /\ Doubling(len, k)
    /\ due >= 2 * len - T1
    /\ due <= 2 * len - T1 + k * Slack

NotBefore(len, due, k) ==
    \/ k = 0 /\ len >= T1 /\ due >= T1
    \/ k = 1 /\ len >= 2 * T1 /\ due >= 3 * T1
    \/ k = 2 /\ len >= 4 * T1 /\ due >= 7 * T1
    \/ k \in 3 .. 10 /\ len = 8 * T1 /\ due >= (8 * k - 9) * T1

CappedPace(len, due, k) ==
    /\ len <= 8 * T1
    /\ NotBefore(len, due, k)
    /\ due <= T1 + k * (8 * T1 + Slack)

(* The retransmitting timer and the timer that gives up, while both run.    *)
ResendTimer == IF kind = "ICT" THEN "A" ELSE IF kind = "NICT" THEN "E" ELSE "G"
GiveUpTimer == IF kind = "ICT" THEN "B" ELSE IF kind = "NICT" THEN "F" ELSE "H"

Resends ==
    /\ phase = "Live"
    /\ \/ kind = "ICT" /\ state = "Trying"
       \/ kind = "NICT" /\ state \in {"Trying", "Proceeding"}
       \/ kind = "IST" /\ state = "Completed" /\ ~reliable

DueAt(m) == 64 * T1 - m[GiveUpTimer].left + m[ResendTimer].left

Paced(m, k) ==
    /\ m[ResendTimer].left # Off /\ m[GiveUpTimer].left # Off
    /\ IF kind = "ICT" THEN IctPace(m["A"].len, DueAt(m), k)
                       ELSE CappedPace(m[ResendTimer].len, DueAt(m), k)

Untried == phase = "New" \/ (phase = "Live" /\ kind = "IST" /\ state = "Proceeding")

FirstLengths(m) ==
    /\ kind = "ICT"  => m["A"].len = T1 /\ m["B"].len = 64 * T1
    /\ kind = "NICT" => m["E"].len = T1
    /\ kind = "IST" /\ ~reliable => m["G"].len = T1

RInv ==
    /\ history.sent <= MostCopies
    /\ history.gaveup => history.sent >= LeastCopies
    /\ phase \in {"New", "Live"} => ~history.gaveup
    /\ reliable => history.sent = 0
    /\ Untried => history.sent = 0 /\ FirstLengths(timers)
    /\ Resends => Paced(timers, history.sent)

(* Timer A fires: the seventh time would be after timer B.                  *)
LEMMA IctFires ==
    ASSUME DefaultTimes, NEW len \in Int, NEW left \in Int, NEW dl \in Int, NEW k \in Int,
           left <= 0, left >= -Slack, dl >= -Slack,
           IctPace(len, 64 * T1 - dl + left, k)
    PROVE  k + 1 <= 6 /\ IctPace(2 * len, 64 * T1 - dl + 2 * len, k + 1)
<1>0. T1 \in Int /\ T1 > 0 /\ Slack \in Int /\ Slack >= 0 /\ Slack <= 2 * T1
  BY TimesAssumption DEF DefaultTimes
<1>1. CASE k = 0
  BY <1>0, <1>1 DEF IctPace, Doubling
<1>2. CASE k = 1
  BY <1>0, <1>2 DEF IctPace, Doubling
<1>3. CASE k = 2
  BY <1>0, <1>3 DEF IctPace, Doubling
<1>4. CASE k = 3
  BY <1>0, <1>4 DEF IctPace, Doubling
<1>5. CASE k = 4
  BY <1>0, <1>5 DEF IctPace, Doubling
<1>6. CASE k = 5
  BY <1>0, <1>6 DEF IctPace, Doubling
<1>7. CASE k = 6
  <2>1. len = 64 * T1 /\ 64 * T1 - dl + left >= 127 * T1
    BY <1>0, <1>7 DEF IctPace, Doubling
  <2> QED
    BY <1>0, <2>1
<1>8. k \in {0, 1, 2, 3, 4, 5, 6}
  BY DEF IctPace, Doubling
<1> QED
  BY <1>1, <1>2, <1>3, <1>4, <1>5, <1>6, <1>7, <1>8

(* Timer E or G fires: the eleventh time would be after timer F or H.       *)
LEMMA CappedFires ==
    ASSUME DefaultTimes, NEW len \in Int, NEW left \in Int, NEW dl \in Int, NEW k \in Int,
           left <= 0, left >= -Slack, dl >= -Slack,
           CappedPace(len, 64 * T1 - dl + left, k),
           NEW next \in Int, next = 8 * T1 \/ (next = 2 * len /\ 2 * len <= 8 * T1)
    PROVE  k + 1 <= 10 /\ CappedPace(next, 64 * T1 - dl + next, k + 1)
<1>0. T1 \in Int /\ T1 > 0 /\ Slack \in Int /\ Slack >= 0 /\ Slack <= 2 * T1
  BY TimesAssumption DEF DefaultTimes
<1> DEFINE e == 64 * T1 - dl
<1>1. e \in Int /\ e + left >= e - Slack /\ e >= e + left /\ e <= 66 * T1
  BY <1>0
<1>2. /\ len <= 8 * T1 /\ NotBefore(len, e + left, k) /\ e + left <= T1 + k * (8 * T1 + Slack)
  BY DEF CappedPace
<1> HIDE DEF e
<1>3. k \in 0 .. 10 /\ next <= 8 * T1
  BY <1>0, <1>2 DEF NotBefore
<1>4. e + next <= T1 + (k + 1) * (8 * T1 + Slack)
  <2>1. PICK x \in Int : x = 8 * T1 + Slack
    BY <1>0
  <2>2. (k + 1) * x = k * x + x
    BY <2>1, <1>3
  <2>3. k * x \in Int
    BY <2>1
  <2>4. e + left <= T1 + k * x
    BY <1>2, <2>1
  <2>5. e + next <= T1 + k * x + x
    BY <1>0, <1>1, <1>3, <2>1, <2>3, <2>4
  <2>6. T1 + (k + 1) * x = T1 + k * x + x
    BY <1>0, <2>1, <2>2, <2>3
  <2>7. e + next <= T1 + (k + 1) * x
    BY <2>5, <2>6
  <2> QED
    BY <2>1, <2>7
<1>5. k + 1 <= 10 /\ NotBefore(next, e + next, k + 1)
  <2>1. CASE k = 0
    BY <1>0, <1>1, <1>2, <2>1 DEF NotBefore
  <2>2. CASE k = 1
    BY <1>0, <1>1, <1>2, <2>2 DEF NotBefore
  <2>3. CASE k = 2
    <3>1. len >= 4 * T1 /\ e + left >= 7 * T1
      BY <1>2, <2>3 DEF NotBefore
    <3>2. next = 8 * T1 /\ e + next >= 15 * T1
      BY <1>0, <1>1, <3>1
    <3>3. k + 1 = 3 /\ (8 * (k + 1) - 9) * T1 = 15 * T1
      BY <1>0, <2>3
    <3> QED
      BY <1>0, <3>2, <3>3 DEF NotBefore
  <2>4. CASE k \in 3 .. 10
    <3>1. len = 8 * T1 /\ e + left >= (8 * k - 9) * T1
      BY <1>2, <2>4 DEF NotBefore
    <3>2. next = 8 * T1
      BY <1>0, <3>1
    <3>3. (8 * k - 9) * T1 + 8 * T1 = (8 * (k + 1) - 9) * T1 /\ (8 * k - 9) * T1 \in Int
      BY <1>0
    <3>4. e + next >= (8 * (k + 1) - 9) * T1
      BY <1>0, <1>1, <3>1, <3>2, <3>3
    <3>5. k # 10
      <4>1. k = 10 => (8 * k - 9) * T1 = 71 * T1
        BY <1>0
      <4> QED
        BY <1>0, <1>1, <3>1, <4>1
    <3>6. k + 1 \in 3 .. 10
      BY <2>4, <3>5
    <3> QED
      BY <3>2, <3>4, <3>6 DEF NotBefore
  <2> QED
    BY <1>3, <2>1, <2>2, <2>3, <2>4
<1> QED
  BY <1>3, <1>4, <1>5 DEF CappedPace, e

(* How many copies were sent when the transaction gives up.                 *)
LEMMA PaceBounds ==
    ASSUME DefaultTimes, NEW len \in Int, NEW left \in Int, NEW dl \in Int, NEW k \in Int,
           left >= -Slack
    PROVE  /\ IctPace(len, 64 * T1 - dl + left, k) =>
                k \in 0 .. 6 /\ (dl <= 0 => k >= 5)
           /\ CappedPace(len, 64 * T1 - dl + left, k) =>
                k \in 0 .. 10 /\ (dl <= 0 => k >= 7)
<1>0. T1 \in Int /\ T1 > 0 /\ Slack \in Int /\ Slack >= 0 /\ Slack <= 2 * T1
  BY TimesAssumption DEF DefaultTimes
<1>1. ASSUME IctPace(len, 64 * T1 - dl + left, k)
      PROVE  k \in 0 .. 6 /\ (dl <= 0 => k >= 5)
  <2>1. k \in 0 .. 6
    BY <1>1 DEF IctPace, Doubling
  <2>2. ASSUME dl <= 0, k <= 4 PROVE FALSE
    <3>1. 64 * T1 - dl + left >= 62 * T1
      BY <1>0, <2>2
    <3>2. CASE k = 0
      BY <1>0, <1>1, <3>1, <3>2 DEF IctPace, Doubling
    <3>3. CASE k = 1
      BY <1>0, <1>1, <3>1, <3>3 DEF IctPace, Doubling
    <3>4. CASE k = 2
      BY <1>0, <1>1, <3>1, <3>4 DEF IctPace, Doubling
    <3>5. CASE k = 3
      BY <1>0, <1>1, <3>1, <3>5 DEF IctPace, Doubling
    <3>6. CASE k = 4
      BY <1>0, <1>1, <3>1, <3>6 DEF IctPace, Doubling
    <3> QED
      BY <2>1, <2>2, <3>2, <3>3, <3>4, <3>5, <3>6
  <2> QED
    BY <2>1, <2>2
<1>2. ASSUME CappedPace(len, 64 * T1 - dl + left, k)
      PROVE  k \in 0 .. 10 /\ (dl <= 0 => k >= 7)
  <2>1. k \in 0 .. 10
    BY <1>2 DEF CappedPace, NotBefore
  <2>2. ASSUME dl <= 0, k <= 6 PROVE FALSE
    <3>1. 64 * T1 - dl + left >= 62 * T1
      BY <1>0, <2>2
    <3>2. PICK x \in Int : x = 8 * T1 + Slack
      BY <1>0
    <3>3. 64 * T1 - dl + left <= T1 + k * x
      BY <1>2, <3>2 DEF CappedPace
    <3>4. k * x <= 6 * x
      <4>1. x >= 0 /\ 6 - k >= 0
        BY <1>0, <2>2, <3>2
      <4>2. (6 - k) * x >= 0
        BY <4>1
      <4> QED
        BY <4>2, <3>2
    <3>5. k * x \in Int
      BY <3>2
    <3> QED
      BY <1>0, <3>1, <3>2, <3>3, <3>4, <3>5
  <2> QED
    BY <2>1, <2>2
<1> QED
  BY <1>1, <1>2

(* The two timers of a transaction that retransmits.                        *)
LEMMA ResendFacts ==
    ASSUME IInv, Kept(timers), Resends
    PROVE  /\ ResendTimer \in TimersOf[kind] \ {GiveUpTimer} /\ GiveUpTimer \in TimersOf[kind]
           /\ ResendTimer \in Handled /\ GiveUpTimer \in Handled
           /\ timers[ResendTimer] \in TimerType /\ timers[GiveUpTimer] \in TimerType
           /\ timers[ResendTimer].left # Off => timers[ResendTimer].left >= -Slack
           /\ timers[GiveUpTimer].left # Off => timers[GiveUpTimer].left >= -Slack
           /\ kind = "ICT" => ResendTimer = "A"
           /\ ~Untried
<1>1. /\ ResendTimer \in TimersOf[kind] \ {GiveUpTimer} /\ GiveUpTimer \in TimersOf[kind]
      /\ ResendTimer \in Handled /\ GiveUpTimer \in Handled
      /\ kind = "ICT" => ResendTimer = "A"
      /\ ~Untried
  BY DEF Resends, ResendTimer, GiveUpTimer, TimersOf, Handled, Untried
<1>2. Sound(timers, TimersOf[kind])
  BY DEF IInv
<1> HIDE DEF ResendTimer, GiveUpTimer, Untried, Handled
<1> QED
  BY <1>1, <1>2 DEF Sound, Kept

(* A transaction that has stopped retransmitting, or never starts.          *)
LEMMA PaceOver ==
    ASSUME RInv, phase' = "Live" => phase \in {"New", "Live"}, phase' # "New",
           UNCHANGED <<kind, reliable>>, ~Untried', ~Resends', history'.sent = history.sent,
           history'.gaveup = history.gaveup \/
              (phase' # "Live" /\ history.sent >= LeastCopies)
    PROVE  RInv'
<1>1. MostCopies' = MostCopies /\ LeastCopies' = LeastCopies
  BY DEF MostCopies, LeastCopies
<1> QED
  BY <1>1 DEF RInv

(* Termination ends the retransmissions.                                   *)
LEMMA PaceTerminates ==
    ASSUME RInv, phase \in {"New", "Live"}, NEW m, Terminate(m), history'.sent = history.sent,
           history'.gaveup = history.gaveup \/ history.sent >= LeastCopies
    PROVE  RInv'
<1>1. phase' \in {"Ended", "Freed"} /\ UNCHANGED <<kind, reliable>>
  BY DEF Terminate
<1>2. ~Untried' /\ ~Resends'
  BY <1>1 DEF Untried, Resends
<1> QED
  BY <1>1, <1>2, PaceOver

(* So does an error of the transport.                                      *)
LEMMA PaceFails ==
    ASSUME RInv, HInv, phase \in {"New", "Live"}, NEW m, Fail(m)
    PROVE  RInv'
<1>1. history \in HistoryType /\ Terminate(m) /\ history' = [history EXCEPT !.failed = TRUE]
  BY DEF HInv, Fail, Note
<1> QED
  BY <1>1, HistoryFields, PaceTerminates

(* A step that leaves the state and the timers of the pace alone.           *)
LEMMA PaceSame ==
    ASSUME IInv, Kept(timers), RInv, UNCHANGED <<kind, reliable, phase>>,
           Untried' <=> Untried, Resends' => Resends,
           history'.sent = history.sent, history'.gaveup = history.gaveup,
           Untried => FirstLengths(timers'),
           Resends => /\ timers'[ResendTimer] = timers[ResendTimer]
                      /\ timers'[GiveUpTimer] = timers[GiveUpTimer]
    PROVE  RInv'
<1>1. /\ MostCopies' = MostCopies /\ LeastCopies' = LeastCopies
      /\ ResendTimer' = ResendTimer /\ GiveUpTimer' = GiveUpTimer
  BY DEF MostCopies, LeastCopies, ResendTimer, GiveUpTimer
<1>2. Untried' => history'.sent = 0 /\ FirstLengths(timers)'
  <2>1. Untried => FirstLengths(timers)'
    BY DEF FirstLengths
  <2> QED
    BY <2>1 DEF RInv
<1>3. ASSUME Resends' PROVE Paced(timers, history.sent)'
  <2>1. /\ timers'[ResendTimer] = timers[ResendTimer] /\ timers'[GiveUpTimer] = timers[GiveUpTimer]
        /\ Paced(timers, history.sent) /\ (kind = "ICT" => ResendTimer = "A")
    BY <1>3, ResendFacts DEF RInv
  <2>2. timers'[ResendTimer'] = timers[ResendTimer] /\ timers'[GiveUpTimer'] = timers[GiveUpTimer]
        /\ kind' = kind /\ history'.sent = history.sent
    BY <1>1, <2>1
  <2>3. DueAt(timers)' = DueAt(timers)
    BY <2>2 DEF DueAt
  <2> HIDE DEF ResendTimer, GiveUpTimer, DueAt, IctPace, CappedPace
  <2> QED
    BY <1>1, <2>1, <2>2, <2>3 DEF Paced
<1> HIDE DEF Untried, Resends, Paced, FirstLengths
<1> QED
  BY <1>1, <1>2, <1>3 DEF RInv

(* Both timers are armed and nothing was sent again yet.                    *)
LEMMA PaceStarts ==
    ASSUME IInv, DefaultTimes, RInv, Untried, UNCHANGED <<kind, reliable>>, ~reliable, ~Untried',
           phase' = "Live", history'.sent = history.sent, history'.gaveup = history.gaveup,
           timers'[ResendTimer].len = T1, timers'[ResendTimer].left = T1,
           timers'[GiveUpTimer].left = 64 * T1
    PROVE  RInv'
<1>0. T1 \in Int /\ T1 > 0 /\ Off \in Int /\ Off < 0 /\ Slack \in Int
  BY TimesAssumption DEF Off
<1>1. /\ MostCopies' = MostCopies /\ LeastCopies' = LeastCopies
      /\ ResendTimer' = ResendTimer /\ GiveUpTimer' = GiveUpTimer
  BY DEF MostCopies, LeastCopies, ResendTimer, GiveUpTimer
<1>2. history'.sent = 0 /\ DueAt(timers)' = T1
  BY <1>0, <1>1 DEF RInv, DueAt
<1>3. IctPace(T1, T1, 0) /\ CappedPace(T1, T1, 0)
  BY <1>0 DEF IctPace, Doubling, CappedPace, NotBefore
<1>4. Paced(timers, history.sent)'
  <2>1. timers'[ResendTimer'].left # Off /\ timers'[GiveUpTimer'].left # Off
    BY <1>0, <1>1
  <2>2. kind' = "ICT" => timers'["A"].len = T1
    BY DEF ResendTimer
  <2>3. timers'[ResendTimer'].len = T1
    BY <1>1
  <2> HIDE DEF ResendTimer, GiveUpTimer, DueAt, IctPace, CappedPace
  <2> QED
    BY <1>2, <1>3, <2>1, <2>2, <2>3 DEF Paced
<1>5. ~history'.gaveup
  BY DEF RInv, Untried
<1> HIDE DEF Untried, Resends, Paced, FirstLengths
<1> QED
  BY <1>1, <1>2, <1>4, <1>5 DEF RInv

(* The retransmitting timer fires and is armed again for next ticks.        *)
LEMMA PaceFires ==
    ASSUME DefaultTimes, IInv, HInv, Kept(timers), RInv, Resends, Due(ResendTimer),
           NEW next \in Int,
           kind = "ICT" => next = 2 * timers[ResendTimer].len,
           kind # "ICT" => \/ next = 8 * T1
                           \/ next = 2 * timers[ResendTimer].len /\ next <= 8 * T1,
           Stay(state, ArmedFor(Fired(ResendTimer), ResendTimer, next)),
           history' = [history EXCEPT !.sent = @ + 1]
    PROVE  RInv'
<1> DEFINE r == ResendTimer
           g == GiveUpTimer
           f == Fired(r)
<1>0. /\ T1 \in Int /\ T1 > 0 /\ Off \in Int /\ Off < 0 /\ Slack \in Int /\ Off < -Slack
      /\ history \in HistoryType /\ history.sent \in Nat
  BY TimesAssumption DEF Off, HInv, HistoryType
<1>1. /\ MostCopies' = MostCopies /\ LeastCopies' = LeastCopies
      /\ ResendTimer' = r /\ GiveUpTimer' = g /\ Resends' = Resends
      /\ ~Untried' /\ kind' = kind /\ reliable' = reliable /\ phase' = "Live"
  BY DEF MostCopies, LeastCopies, ResendTimer, GiveUpTimer, Stay, Resends, Untried
<1>2. /\ r \in TimersOf[kind] \ {g} /\ g \in TimersOf[kind]
      /\ timers[r] \in TimerType /\ timers[g] \in TimerType
      /\ timers[r].left # Off => timers[r].left >= -Slack
      /\ timers[g].left # Off => timers[g].left >= -Slack
      /\ kind = "ICT" => r = "A"
  BY ResendFacts
<1>3. history'.sent = history.sent + 1 /\ history'.gaveup = history.gaveup
  BY <1>0, HistoryFields
<1>4. ~history.gaveup /\ Paced(timers, history.sent) /\ ~reliable
  <2>1. ~reliable
    BY DEF Resends, IInv, Fixed, Client
  <2> QED
    BY <2>1 DEF RInv, Resends
<1>5. timers'[r].len = next /\ timers'[r].left = next /\ timers'[g] = timers[g]
  <2>1. f \in [TimersOf[kind] -> TimerType] /\ f[g] = timers[g] /\ timers' = ArmedFor(f, r, next)
    BY <1>2, FiredFrame DEF Kept, Stay
  <2> HIDE DEF f, r, g
  <2> QED
    BY <1>2, <2>1, ArmedForFrame
<1>6. timers[r].left <= 0 /\ timers[r].left # Off /\ timers[g].left # Off
  BY <1>4 DEF Due, Paced
<1> DEFINE len == timers[r].len
           left == timers[r].left
           dl == timers[g].left
           k == history.sent
<1>7. len \in Int /\ left \in Int /\ dl \in Int /\ k \in Int /\ left <= 0 /\ left >= -Slack /\ dl >= -Slack
  BY <1>0, <1>2, <1>6 DEF TimerType
<1>8. DueAt(timers) = 64 * T1 - dl + left /\ DueAt(timers)' = 64 * T1 - dl + next
  BY <1>1, <1>5 DEF DueAt
<1>9. CASE kind = "ICT"
  <2>1. IctPace(len, 64 * T1 - dl + left, k) /\ next = 2 * len
    BY <1>2, <1>4, <1>8, <1>9 DEF Paced
  <2> HIDE DEF len, left, dl, k, r, g
  <2>2. k + 1 <= 6 /\ IctPace(2 * len, 64 * T1 - dl + 2 * len, k + 1)
    BY <1>7, <2>1, IctFires
  <2>3. k + 1 <= 6 /\ IctPace(next, DueAt(timers)', k + 1)
    BY <1>8, <2>1, <2>2
  <2>4. history'.sent <= MostCopies'
    BY <1>1, <1>3, <1>4, <1>9, <2>3 DEF MostCopies, k
  <2>5. Paced(timers, history.sent)'
    <3>1. timers'[ResendTimer'].left # Off /\ timers'[GiveUpTimer'].left # Off
      <4>1. next # Off
        BY <1>0, <1>7, <2>1, <2>2 DEF IctPace, Doubling
      <4> QED
        BY <1>1, <1>5, <1>6, <4>1
    <3>2. timers'["A"].len = next /\ history'.sent = k + 1 /\ kind' = "ICT"
      BY <1>1, <1>2, <1>3, <1>5, <1>9 DEF k
    <3> HIDE DEF ResendTimer, GiveUpTimer, DueAt, IctPace
    <3> QED
      BY <2>3, <3>1, <3>2 DEF Paced
  <2> HIDE DEF Untried, Resends, Paced, FirstLengths
  <2> QED
    BY <1>1, <1>3, <1>4, <2>4, <2>5 DEF RInv
<1>10. CASE kind # "ICT"
  <2>1. CappedPace(len, 64 * T1 - dl + left, k) /\ (next = 8 * T1 \/ (next = 2 * len /\ 2 * len <= 8 * T1))
    BY <1>2, <1>4, <1>8, <1>10 DEF Paced
  <2> HIDE DEF len, left, dl, k, r, g
  <2>2. k + 1 <= 10 /\ CappedPace(next, 64 * T1 - dl + next, k + 1)
    BY <1>7, <2>1, CappedFires
  <2>3. k + 1 <= 10 /\ CappedPace(next, DueAt(timers)', k + 1)
    BY <1>8, <2>2
  <2>4. history'.sent <= MostCopies'
    BY <1>1, <1>3, <1>4, <1>10, <2>3 DEF MostCopies, k
  <2>5. Paced(timers, history.sent)'
    <3>1. timers'[ResendTimer'].left # Off /\ timers'[GiveUpTimer'].left # Off
      <4>1. len >= T1
        BY <1>0, <1>7, <2>1 DEF CappedPace, NotBefore
      <4>2. next # Off
        BY <1>0, <1>7, <2>1, <4>1
      <4> QED
        BY <1>1, <1>5, <1>6, <4>2
    <3>2. timers'[ResendTimer'].len = next /\ history'.sent = k + 1 /\ kind' # "ICT"
      BY <1>1, <1>2, <1>3, <1>5, <1>10 DEF k
    <3> HIDE DEF ResendTimer, GiveUpTimer, DueAt, CappedPace
    <3> QED
      BY <2>3, <3>1, <3>2 DEF Paced
  <2> HIDE DEF Untried, Resends, Paced, FirstLengths
  <2> QED
    BY <1>1, <1>3, <1>4, <2>4, <2>5 DEF RInv
<1> QED
  BY <1>9, <1>10

(* Timers A, E and G.                                                       *)
LEMMA PaceResends ==
    ASSUME DefaultTimes, IInv, HInv, Kept(timers), RInv, IctTimerA \/ NictTimerE \/ IstTimerG
    PROVE  RInv'
<1>0. T2 = 8 * T1 /\ T1 \in Int /\ phase \in {"New", "Live"}
  BY TimesAssumption DEF DefaultTimes, IctTimerA, NictTimerE, IstTimerG, NICTWaits, In
<1>1. CASE IctTimerA
  <2>1. /\ ResendTimer = "A" /\ kind = "ICT" /\ state = "Trying" /\ Resends /\ Due("A")
        /\ \/ Fail(Fired("A"))
           \/ /\ Stay("Trying", ArmedFor(Fired("A"), "A", 2 * timers["A"].len))
              /\ history' = [history EXCEPT !.sent = @ + 1]
    BY <1>1 DEF IctTimerA, In, Note, Resends, ResendTimer
  <2>2. PICK next : next = 2 * timers["A"].len
    OBVIOUS
  <2>3. next \in Int
    BY <2>1, <2>2, DueKept
  <2>4. CASE /\ Stay("Trying", ArmedFor(Fired("A"), "A", 2 * timers["A"].len))
             /\ history' = [history EXCEPT !.sent = @ + 1]
    BY <2>1, <2>2, <2>3, <2>4, PaceFires
  <2> QED
    BY <1>0, <2>1, <2>4, PaceFails
<1>2. CASE NictTimerE
  <2>1. ResendTimer = "E" /\ kind = "NICT" /\ Resends /\ Due("E")
    BY <1>2 DEF NictTimerE, NICTWaits, In, Resends, ResendTimer
  <2>2. timers["E"].len \in Int
    BY <2>1, DueKept
  <2>3. PICK next : /\ next = IF state = "Proceeding" \/ 2 * timers["E"].len > T2
                              THEN T2 ELSE 2 * timers["E"].len
                    /\ \/ Fail(Fired("E"))
                       \/ /\ Stay(state, ArmedFor(Fired("E"), "E", next))
                          /\ history' = [history EXCEPT !.sent = @ + 1]
    BY <1>2 DEF NictTimerE, Note
  <2>4. next \in Int /\ (next = 8 * T1 \/ (next = 2 * timers["E"].len /\ next <= 8 * T1))
    BY <1>0, <2>2, <2>3
  <2>5. CASE /\ Stay(state, ArmedFor(Fired("E"), "E", next))
             /\ history' = [history EXCEPT !.sent = @ + 1]
    BY <2>1, <2>4, <2>5, PaceFires
  <2> QED
    BY <1>0, <2>3, <2>5, PaceFails
<1>3. CASE IstTimerG
  <2>1. ResendTimer = "G" /\ kind = "IST" /\ state = "Completed" /\ Due("G") /\ phase = "Live"
    BY <1>3 DEF IstTimerG, In, ResendTimer
  <2>2. timers["G"].len \in Int /\ Resends
    BY <2>1, DueKept DEF Resends
  <2>3. PICK next : /\ next = IF 2 * timers["G"].len > T2 THEN T2 ELSE 2 * timers["G"].len
                    /\ \/ Fail(ArmedFor(Fired("G"), "G", next))
                       \/ /\ Stay("Completed", ArmedFor(Fired("G"), "G", next))
                          /\ history' = [history EXCEPT !.sent = @ + 1]
    BY <1>3 DEF IstTimerG, Note
  <2>4. next \in Int /\ (next = 8 * T1 \/ (next = 2 * timers["G"].len /\ next <= 8 * T1))
    BY <1>0, <2>2, <2>3
  <2>5. CASE /\ Stay("Completed", ArmedFor(Fired("G"), "G", next))
             /\ history' = [history EXCEPT !.sent = @ + 1]
    BY <2>1, <2>2, <2>4, <2>5, PaceFires
  <2> QED
    BY <1>0, <2>3, <2>5, PaceFails
<1> QED
  BY <1>1, <1>2, <1>3

(* Timers B, F and H.                                                       *)
LEMMA PaceGivesUp ==
    ASSUME DefaultTimes, IInv, HInv, Kept(timers), RInv, IctTimerB \/ NictTimerF \/ IstTimerH
    PROVE  RInv'
<1>1. /\ phase = "Live" /\ Due(GiveUpTimer) /\ (reliable \/ Resends)
      /\ kind \in {"ICT", "NICT", "IST"}
      /\ history' = [history EXCEPT !.gaveup = TRUE]
      /\ \E m : Terminate(m)
  BY DEF IctTimerB, NictTimerF, IstTimerH, NICTWaits, In, GiveUpTimer, Resends, Note
<1>2. history \in HistoryType /\ history.sent \in Int /\ history'.sent = history.sent
  <2>1. history \in HistoryType
    BY DEF HInv
  <2>2. history.sent \in Int
    BY <2>1 DEF HistoryType
  <2> QED
    BY <1>1, <2>1, <2>2, HistoryFields
<1>3. history.sent >= LeastCopies
  <2>1. CASE reliable
    BY <1>2, <2>1 DEF RInv, LeastCopies
  <2>2. CASE ~reliable
    <3>1. Resends
      BY <1>1, <2>2
    <3> DEFINE len == timers[ResendTimer].len
               left == timers[ResendTimer].left
               dl == timers[GiveUpTimer].left
               k == history.sent
    <3>2. /\ timers[ResendTimer] \in TimerType /\ timers[GiveUpTimer] \in TimerType
          /\ left # Off => left >= -Slack
          /\ kind = "ICT" => ResendTimer = "A"
      BY <3>1, ResendFacts
    <3>3. Paced(timers, k) /\ dl <= 0
      BY <1>1, <3>1 DEF RInv, Due
    <3>4. left >= -Slack /\ len \in Int /\ left \in Int /\ dl \in Int /\ k \in Int
      BY <1>2, <3>2, <3>3 DEF Paced, TimerType
    <3>5. \/ kind = "ICT" /\ IctPace(len, 64 * T1 - dl + left, k)
          \/ kind # "ICT" /\ CappedPace(len, 64 * T1 - dl + left, k)
      BY <3>2, <3>3 DEF Paced, DueAt
    <3> HIDE DEF len, left, dl, k
    <3>6. \/ kind = "ICT" /\ k >= 5
          \/ kind # "ICT" /\ k >= 7
      BY <3>3, <3>4, <3>5, PaceBounds
    <3> QED
      BY <2>2, <3>6 DEF LeastCopies, k
  <2> QED
    BY <2>1, <2>2
<1> QED
  BY <1>1, <1>2, <1>3, PaceTerminates

(* The first message, and the response that starts timers G and H.          *)
LEMMA PaceBegins ==
    ASSUME DefaultTimes, IInv, HInv, Kept(timers), RInv,
           SendRequest \/ RcvRequest \/ IstSend3456xx
    PROVE  RInv'
<1> DEFINE S == TimersOf[kind]
<1>0. /\ timers \in [S -> TimerType] /\ history \in HistoryType
      /\ T1 \in Int /\ T1 > 0
      /\ Untried /\ phase \in {"New", "Live"} /\ FirstLengths(timers)
      /\ kind \in {"ICT", "NICT", "IST", "NIST"}
  <2>1. Untried
    BY DEF SendRequest, RcvRequest, IstSend3456xx, In, Untried
  <2> QED
    BY <2>1, TimesAssumption DEF Kept, HInv, Untried, RInv, TimersOf
<1>1. CASE SendRequest
  <2>1. phase = "New" /\ kind \in {"ICT", "NICT"} /\ ~reliable
    BY <1>1 DEF SendRequest, Client, IInv, Fixed
  <2>2. ASSUME kind = "ICT", Stay("Trying", Armed(Armed(timers, "A"), "B")), UNCHANGED history
        PROVE  RInv'
    <3>1. S = {"A", "B", "D"} /\ timers["A"].len = T1 /\ timers["B"].len = 64 * T1
      BY <1>0, <2>2 DEF TimersOf, FirstLengths
    <3> DEFINE a == Armed(timers, "A")
    <3>2. a \in [S -> TimerType] /\ a["A"].left = T1 /\ a["A"].len = T1 /\ a["B"] = timers["B"]
      BY <1>0, <3>1, ArmedFrame
    <3>3. timers' = Armed(a, "B") /\ phase' = "Live" /\ state' = "Trying" /\ UNCHANGED <<kind, reliable>>
      BY <2>2 DEF Stay
    <3> HIDE DEF a
    <3>4. timers'["A"] = a["A"] /\ timers'["B"].left = 64 * T1
      BY <3>1, <3>2, <3>3, ArmedFrame
    <3>5. ResendTimer = "A" /\ GiveUpTimer = "B" /\ ~Untried'
      BY <2>2, <3>3 DEF ResendTimer, GiveUpTimer, Untried
    <3> HIDE DEF ResendTimer, GiveUpTimer, Untried
    <3> QED
      BY <1>0, <2>1, <2>2, <3>2, <3>3, <3>4, <3>5, PaceStarts
  <2>3. ASSUME kind = "NICT", Stay("Trying", Armed(Armed(timers, "E"), "F")), UNCHANGED history
        PROVE  RInv'
    <3>1. S = {"E", "F", "K"} /\ timers["E"].len = T1 /\ timers["F"].len = 64 * T1
      BY <1>0, <2>3 DEF TimersOf, FirstLengths, Kept, Lasting, InitialLength
    <3> DEFINE a == Armed(timers, "E")
    <3>2. a \in [S -> TimerType] /\ a["E"].left = T1 /\ a["E"].len = T1 /\ a["F"] = timers["F"]
      BY <1>0, <3>1, ArmedFrame
    <3>3. timers' = Armed(a, "F") /\ phase' = "Live" /\ state' = "Trying" /\ UNCHANGED <<kind, reliable>>
      BY <2>3 DEF Stay
    <3> HIDE DEF a
    <3>4. timers'["E"] = a["E"] /\ timers'["F"].left = 64 * T1
      BY <3>1, <3>2, <3>3, ArmedFrame
    <3>5. ResendTimer = "E" /\ GiveUpTimer = "F" /\ ~Untried'
      BY <2>3, <3>3 DEF ResendTimer, GiveUpTimer, Untried
    <3> HIDE DEF ResendTimer, GiveUpTimer, Untried
    <3> QED
      BY <1>0, <2>1, <2>3, <3>2, <3>3, <3>4, <3>5, PaceStarts
  <2> QED
    BY <1>0, <1>1, <2>1, <2>2, <2>3, PaceFails DEF SendRequest
<1>2. CASE RcvRequest
  <2>1. kind \in {"IST", "NIST"}
    BY <1>0, <1>2 DEF RcvRequest, Client
  <2>2. ASSUME Stay(IF kind = "IST" THEN "Proceeding" ELSE "Trying", timers), UNCHANGED history
        PROVE  RInv'
    <3>1. /\ phase' = "Live" /\ UNCHANGED <<kind, reliable, timers, history>>
          /\ state' = IF kind = "IST" THEN "Proceeding" ELSE "Trying"
      BY <2>2 DEF Stay
    <3>2. ~Resends' /\ MostCopies' = MostCopies /\ LeastCopies' = LeastCopies
          /\ (FirstLengths(timers)' <=> FirstLengths(timers))
      BY <2>1, <3>1 DEF Resends, MostCopies, LeastCopies, FirstLengths
    <3> HIDE DEF Untried, Resends, FirstLengths
    <3> QED
      BY <1>0, <3>1, <3>2 DEF RInv
  <2> QED
    BY <1>0, <1>2, <2>2, PaceFails DEF RcvRequest
<1>3. CASE IstSend3456xx
  <2> DEFINE g == IF timers["G"].len > 0 THEN Armed(timers, "G") ELSE timers
  <2>1. /\ kind = "IST" /\ S = {"G", "H", "I"} /\ phase = "Live"
        /\ Fail(timers) \/ (Stay("Completed", Armed(g, "H")) /\ history' = [history EXCEPT !.final = TRUE])
    BY <1>3 DEF IstSend3456xx, In, Note, TimersOf
  <2>2. CASE Stay("Completed", Armed(g, "H")) /\ history' = [history EXCEPT !.final = TRUE]
    <3>1. /\ timers' = Armed(g, "H") /\ phase' = "Live" /\ state' = "Completed"
          /\ UNCHANGED <<kind, reliable>>
          /\ history'.sent = history.sent /\ history'.gaveup = history.gaveup
      BY <1>0, <2>2, HistoryFields DEF Stay
    <3>2. ~Untried' /\ ResendTimer = "G" /\ GiveUpTimer = "H"
      BY <2>1, <3>1 DEF Untried, ResendTimer, GiveUpTimer
    <3>3. CASE reliable
      <4>1. ~Resends'
        BY <2>1, <3>1, <3>3 DEF Resends
      <4> QED
        BY <1>0, <3>1, <3>2, <4>1, PaceOver
    <3>4. CASE ~reliable
      <4>1. timers["G"].len = T1 /\ timers["H"].len = 64 * T1
        BY <1>0, <2>1, <3>4 DEF FirstLengths, Kept, Lasting, InitialLength
      <4>2. /\ Armed(timers, "G") \in [S -> TimerType]
            /\ Armed(timers, "G")["G"].left = T1 /\ Armed(timers, "G")["G"].len = T1
            /\ Armed(timers, "G")["H"] = timers["H"]
        BY <1>0, <2>1, <4>1, ArmedFrame
      <4>3. g = Armed(timers, "G")
        BY <1>0, <4>1
      <4>4. g \in [S -> TimerType] /\ g["G"].left = T1 /\ g["G"].len = T1 /\ g["H"] = timers["H"]
        BY <4>2, <4>3
      <4> HIDE DEF g
      <4>5. timers'["G"] = g["G"] /\ timers'["H"].left = 64 * T1
        BY <2>1, <3>1, <4>1, <4>4, ArmedFrame
      <4> HIDE DEF ResendTimer, GiveUpTimer, Untried
      <4> QED
        BY <1>0, <3>1, <3>2, <3>4, <4>4, <4>5, PaceStarts
    <3> QED
      BY <3>3, <3>4
  <2> QED
    BY <1>0, <2>1, <2>2, PaceFails
<1> QED
  BY <1>1, <1>2, <1>3

(* Responses that end the retransmissions, and what repeats nothing.        *)
LEMMA PaceAnswered ==
    ASSUME DefaultTimes, IInv, HInv, Kept(timers), RInv,
           \/ IctRcv1xx \/ IctRcv2xx \/ IctRcv3456xx \/ IctRcv3456xxWhileCompleted \/ NictRcvFinal
           \/ IstSend2xx \/ IstRcvAck \/ NistRcvRequestAgain \/ NistSend1xx \/ NistSendFinal
           \/ AbsorbTimer
    PROVE  RInv'
<1>0. history \in HistoryType
  BY DEF HInv
<1>1. /\ phase = "Live" /\ phase \in {"New", "Live"}
      /\ kind \in {"ICT", "NICT", "IST", "NIST"}
      /\ IctRcv3456xxWhileCompleted => kind = "ICT"
      /\ NistRcvRequestAgain => kind = "NIST" /\ state \in {"Trying", "Completed"}
      /\ IctRcv1xx => kind = "ICT"
      /\ IctRcv3456xx => kind = "ICT"
      /\ NictRcvFinal => kind = "NICT"
      /\ IstRcvAck => kind = "IST"
      /\ NistSend1xx => kind = "NIST"
      /\ NistSendFinal => kind = "NIST"
  BY DEF Kept, TimersOf, IctRcv1xx, IctRcv2xx, IctRcv3456xx, IctRcv3456xxWhileCompleted, NictRcvFinal,
     IstSend2xx, IstRcvAck, NistRcvRequestAgain, NistSend1xx, NistSendFinal, AbsorbTimer,
     NICTWaits, In
<1>2. ASSUME NEW m, NEW s, Stay(s, m),
             history'.sent = history.sent, history'.gaveup = history.gaveup,
             \/ kind = "ICT" /\ s \in {"Proceeding", "Completed"}
             \/ kind = "NICT" /\ s = "Completed"
             \/ kind = "IST" /\ s = "Confirmed"
             \/ kind = "NIST"
      PROVE  RInv'
  <2>1. phase' = "Live" /\ state' = s /\ UNCHANGED <<kind, reliable>>
    BY <1>2 DEF Stay
  <2>2. ~Untried' /\ ~Resends'
    BY <1>2, <2>1 DEF Untried, Resends
  <2> QED
    BY <1>1, <1>2, <2>1, <2>2, PaceOver
<1>3. ASSUME NEW m, Fail(m) PROVE RInv'
  BY <1>1, <1>3, PaceFails
<1>4. ASSUME NEW m, Terminate(m), history'.sent = history.sent, history'.gaveup = history.gaveup
      PROVE  RInv'
  BY <1>1, <1>4, PaceTerminates
<1>5. CASE IctRcv1xx
  BY <1>1, <1>2, <1>5 DEF IctRcv1xx
<1>6. CASE IctRcv2xx
  BY <1>0, <1>4, <1>6, HistoryFields DEF IctRcv2xx, Note
<1>7. CASE IctRcv3456xx
  BY <1>0, <1>1, <1>2, <1>4, <1>7, HistoryFields DEF IctRcv3456xx, Note
<1>8. CASE IctRcv3456xxWhileCompleted
  BY <1>1, <1>2, <1>3, <1>8 DEF IctRcv3456xxWhileCompleted
<1>9. CASE NictRcvFinal
  BY <1>0, <1>1, <1>2, <1>9, HistoryFields DEF NictRcvFinal, Note
<1>10. CASE IstSend2xx
  BY <1>0, <1>4, <1>10, HistoryFields DEF IstSend2xx, Note
<1>11. CASE IstRcvAck
  <2>1. history'.sent = history.sent /\ history'.gaveup = history.gaveup
    BY <1>0, <1>11, HistoryFields DEF IstRcvAck, Note
  <2>2. \E m : Terminate(m) \/ Stay("Confirmed", m)
    BY <1>11 DEF IstRcvAck
  <2> QED
    BY <1>1, <1>2, <1>4, <1>11, <2>1, <2>2
<1>12. CASE NistRcvRequestAgain
  BY <1>1, <1>2, <1>3, <1>12 DEF NistRcvRequestAgain
<1>13. CASE NistSend1xx
  BY <1>1, <1>2, <1>3, <1>13 DEF NistSend1xx
<1>14. CASE NistSendFinal
  <2>1. ASSUME history' = [history EXCEPT !.final = TRUE]
        PROVE  history'.sent = history.sent /\ history'.gaveup = history.gaveup
    BY <1>0, <2>1, HistoryFields
  <2>2. \/ Fail(timers)
        \/ /\ history' = [history EXCEPT !.final = TRUE]
           /\ \E m : Terminate(m) \/ Stay("Completed", m)
    BY <1>14 DEF NistSendFinal, Note
  <2> QED
    BY <1>1, <1>2, <1>3, <1>4, <1>14, <2>1, <2>2
<1>15. CASE AbsorbTimer
  BY <1>4, <1>15 DEF AbsorbTimer
<1> QED
  BY <1>5, <1>6, <1>7, <1>8, <1>9, <1>10, <1>11, <1>12, <1>13, <1>14, <1>15

(* Steps that leave the two timers alone.                                   *)
LEMMA PaceWaits ==
    ASSUME DefaultTimes, IInv, HInv, Kept(timers), RInv,
           \/ Hold \/ Drop \/ IgnoredTimer \/ NictRcv1xx \/ IstSend1xx \/ IstRcvInviteAgain
           \/ UNCHANGED vars
    PROVE  RInv'
<1>0. /\ history \in HistoryType /\ timers \in [TimersOf[kind] -> TimerType]
      /\ DOMAIN timers = TimersOf[kind]
      /\ kind \in {"ICT", "NICT", "IST", "NIST"}
      /\ Untried => FirstLengths(timers)
  BY DEF HInv, Kept, RInv, TimersOf
<1>1. CASE Hold \/ UNCHANGED vars
  <2>1. UNCHANGED <<kind, reliable, phase, state, timers, history>>
    BY <1>1 DEF Hold, vars
  <2>2. (Untried' <=> Untried) /\ (Resends' <=> Resends) /\ FirstLengths(timers') = FirstLengths(timers)
    BY <2>1 DEF Untried, Resends
  <2> QED
    BY <1>0, <2>1, <2>2, PaceSame
<1>2. CASE Drop
  <2>1. /\ UNCHANGED <<kind, reliable, state, history>>
        /\ (phase' = phase /\ timers' = timers) \/ phase' = "Freed"
    BY <1>2 DEF Drop
  <2>2. CASE phase' = phase /\ timers' = timers
    <3>1. (Untried' <=> Untried) /\ (Resends' <=> Resends) /\ FirstLengths(timers') = FirstLengths(timers)
      BY <2>1, <2>2 DEF Untried, Resends
    <3> QED
      BY <1>0, <2>1, <2>2, <3>1, PaceSame
  <2>3. CASE phase' = "Freed"
    <3>1. ~Untried' /\ ~Resends'
      BY <2>3 DEF Untried, Resends
    <3> QED
      BY <2>1, <2>3, <3>1, PaceOver
  <2> QED
    BY <2>1, <2>2, <2>3
<1>3. CASE IgnoredTimer
  <2>1. PICK t \in DOMAIN timers \ Handled : timers' = Fired(t)
    BY <1>3 DEF IgnoredTimer
  <2>2. UNCHANGED <<kind, reliable, phase, state, history>>
    BY <1>3 DEF IgnoredTimer
  <2>3. (Untried' <=> Untried) /\ (Resends' <=> Resends)
    BY <2>2 DEF Untried, Resends
  <2>4. \A u \in TimersOf[kind] : timers'[u].len = timers[u].len /\ (u # t => timers'[u] = timers[u])
    BY <1>0, <2>1, FiredFrame
  <2>5. Untried => FirstLengths(timers')
    BY <1>0, <2>4 DEF FirstLengths, TimersOf
  <2>6. Resends => timers'[ResendTimer] = timers[ResendTimer] /\ timers'[GiveUpTimer] = timers[GiveUpTimer]
    BY <2>1, <2>4, ResendFacts
  <2> QED
    BY <2>2, <2>3, <2>5, <2>6, PaceSame
<1>4. CASE NictRcv1xx \/ IstSend1xx \/ IstRcvInviteAgain
  <2>1. /\ phase = "Live" /\ phase \in {"New", "Live"}
        /\ NictRcv1xx => kind = "NICT" /\ state \in {"Trying", "Proceeding"}
        /\ IstSend1xx => state = "Proceeding" /\ kind = "IST"
    BY <1>4 DEF NictRcv1xx, IstSend1xx, IstRcvInviteAgain, NICTWaits, In
  <2>2. ASSUME NEW s, Stay(s, timers), UNCHANGED history,
               \/ s = state
               \/ kind = "NICT" /\ state \in {"Trying", "Proceeding"} /\ s = "Proceeding"
        PROVE  RInv'
    <3>1. UNCHANGED <<kind, reliable, phase, timers>> /\ state' = s
      BY <2>1, <2>2 DEF Stay
    <3>2. (Untried' <=> Untried) /\ (Resends' => Resends) /\ FirstLengths(timers') = FirstLengths(timers)
      BY <2>2, <3>1 DEF Untried, Resends
    <3> QED
      BY <1>0, <2>2, <3>1, <3>2, PaceSame
  <2>3. CASE NictRcv1xx
    BY <2>1, <2>2, <2>3 DEF NictRcv1xx
  <2>4. CASE IstSend1xx
    BY <2>1, <2>2, <2>4, PaceFails DEF IstSend1xx
  <2>5. CASE IstRcvInviteAgain
    BY <2>1, <2>2, <2>5, PaceFails DEF IstRcvInviteAgain
  <2> QED
    BY <1>4, <2>3, <2>4, <2>5
<1> QED
  BY <1>1, <1>2, <1>3, <1>4

(* A tick brings both timers nearer by the same amount.                     *)
LEMMA PaceTick ==
    ASSUME DefaultTimes, IInv, HInv, Kept(timers), RInv, Tick PROVE RInv'
<1>0. /\ history \in HistoryType /\ timers \in [TimersOf[kind] -> TimerType]
      /\ kind \in {"ICT", "NICT", "IST", "NIST"} /\ DOMAIN timers = TimersOf[kind]
      /\ T1 \in Int /\ Slack \in Int /\ Off \in Int /\ Off < -Slack
  BY TimesAssumption DEF HInv, Kept, TimersOf, Off
<1>1. /\ UNCHANGED <<kind, reliable, phase, state>>
      /\ history'.sent = history.sent /\ history'.gaveup = history.gaveup
      /\ \A t \in TimersOf[kind] : Pending(t) => timers[t].left > -Slack
  <2>1. history' = history \/ history' = [history EXCEPT !.linger = @ + 1]
    BY DEF Tick
  <2>2. history'.sent = history.sent /\ history'.gaveup = history.gaveup
    BY <1>0, <2>1, HistoryFields
  <2> QED
    BY <1>0, <2>2 DEF Tick
<1>2. ASSUME NEW t \in TimersOf[kind]
      PROVE  /\ timers'[t].len = timers[t].len
             /\ timers[t].left # Off =>
                  timers'[t].left = timers[t].left - 1 /\ timers'[t].left # Off /\ timers[t].left \in Int
  <2>1. timers'[t] = IF Pending(t) THEN [timers[t] EXCEPT !.left = timers[t].left - 1] ELSE timers[t]
    BY <1>0 DEF Tick
  <2>2. timers[t] \in TimerType
    BY <1>0
  <2>3. CASE Pending(t)
    BY <1>0, <1>1, <2>1, <2>2, <2>3 DEF TimerType, Pending
  <2>4. CASE ~Pending(t)
    BY <2>1, <2>4 DEF Pending
  <2> QED
    BY <2>3, <2>4
<1>3. /\ Untried' = Untried /\ Resends' = Resends
      /\ MostCopies' = MostCopies /\ LeastCopies' = LeastCopies
      /\ ResendTimer' = ResendTimer /\ GiveUpTimer' = GiveUpTimer
  BY <1>1 DEF Untried, Resends, MostCopies, LeastCopies, ResendTimer, GiveUpTimer
<1>4. Untried => FirstLengths(timers)'
  <2>1. Untried => FirstLengths(timers)
    BY DEF RInv
  <2> QED
    BY <1>0, <1>1, <1>2, <2>1 DEF FirstLengths, TimersOf
<1>5. ASSUME Resends PROVE Paced(timers, history.sent)'
  <2>1. /\ ResendTimer \in TimersOf[kind] /\ GiveUpTimer \in TimersOf[kind]
        /\ kind = "ICT" => ResendTimer = "A"
    BY <1>5, ResendFacts
  <2>2. Paced(timers, history.sent)
    BY <1>5 DEF RInv
  <2>3. timers[ResendTimer].left # Off /\ timers[GiveUpTimer].left # Off
    BY <2>2 DEF Paced
  <2>4. /\ timers'[ResendTimer].left = timers[ResendTimer].left - 1
        /\ timers'[GiveUpTimer].left = timers[GiveUpTimer].left - 1
        /\ timers'[ResendTimer].left # Off /\ timers'[GiveUpTimer].left # Off
        /\ timers[ResendTimer].left \in Int /\ timers[GiveUpTimer].left \in Int
        /\ timers'[ResendTimer].len = timers[ResendTimer].len
    BY <1>2, <2>1, <2>3
  <2>5. DueAt(timers)' = DueAt(timers)
    BY <1>0, <1>3, <2>4 DEF DueAt
  <2>6. kind = "ICT" => timers'["A"].len = timers["A"].len
    BY <2>1, <2>4
  <2>7. /\ timers'[ResendTimer'].left # Off /\ timers'[GiveUpTimer'].left # Off
        /\ timers'[ResendTimer'].len = timers[ResendTimer].len
    BY <1>3, <2>4
  <2> HIDE DEF ResendTimer, GiveUpTimer, DueAt, IctPace, CappedPace
  <2> QED
    BY <1>1, <2>2, <2>5, <2>6, <2>7 DEF Paced
<1> HIDE DEF Untried, Resends, Paced, FirstLengths
<1> QED
  BY <1>1, <1>3, <1>4, <1>5 DEF RInv

(* Every step keeps the pace.                                              *)
LEMMA NextRInv == DefaultTimes /\ IInv /\ HInv /\ Kept(timers) /\ RInv /\ [Next]_vars => RInv'
<1> SUFFICES ASSUME DefaultTimes, IInv, HInv, Kept(timers), RInv, [Next]_vars PROVE RInv'
  OBVIOUS
<1> QED
  BY PaceResends, PaceGivesUp, PaceBegins, PaceAnswered, PaceWaits, PaceTick
  DEF Next, Timeout, Receive, Respond

(* Nothing was sent at first.                                              *)
LEMMA InitRInv == Init => RInv
<1> SUFFICES ASSUME Init PROVE RInv
  OBVIOUS
<1>1. /\ phase = "New" /\ kind \in {"ICT", "NICT", "IST", "NIST"}
      /\ history.sent = 0 /\ history.gaveup = FALSE
      /\ kind \in Client => ~reliable
      /\ \A t \in TimersOf[kind] : timers[t].len = InitialLength(t, reliable)
  BY DEF Init, NoHistory, TimersOf
<1>2. FirstLengths(timers)
  BY <1>1 DEF FirstLengths, TimersOf, InitialLength, Client
<1>3. ~Resends /\ MostCopies >= 0
  BY <1>1 DEF Resends, MostCopies
<1> HIDE DEF FirstLengths, Resends, MostCopies
<1> QED
  BY <1>1, <1>2, <1>3 DEF RInv

(* So the pace is kept in every state.                                     *)
LEMMA PaceInvariance == ASSUME DefaultTimes PROVE Spec => []RInv
<1>1. Init => IInv /\ HInv /\ Kept(timers) /\ RInv
  BY InitIInv, InitHInv, InitKept, InitRInv
<1>2. IInv /\ HInv /\ Kept(timers) /\ RInv /\ [Next]_vars
        => IInv' /\ HInv' /\ Kept(timers)' /\ RInv'
  BY NextIInv, NextHInv, NextKept, NextRInv
<1> QED
  BY <1>1, <1>2, PTL DEF Spec

(* With T2 = 8 * T1 and a lateness of at most two T1, as the defaults of    *)
(* OSIP_Transaction.h and the dispatch loop have it, timers A, E and G stop *)
(* after 6 or 10 copies: no transaction floods its peer.                    *)
THEOREM CopiesBounded == ASSUME DefaultTimes PROVE Spec => []RetransmissionBounded
<1>1. RInv => RetransmissionBounded
  BY DEF RInv, RetransmissionBounded
<1>2. Spec => []RInv
  BY PaceInvariance
<1> QED
  BY <1>1, <1>2, PTL

(* ... and a transaction gives up only after 5 or 7 copies at least.        *)
THEOREM TriesBeforeGivingUp == ASSUME DefaultTimes PROVE Spec => []GivesUpOnlyAfterRetrying
<1>1. RInv => GivesUpOnlyAfterRetrying
  BY DEF RInv, GivesUpOnlyAfterRetrying
<1>2. Spec => []RInv
  BY PaceInvariance
<1> QED
  BY <1>1, <1>2, PTL
=============================================================================
