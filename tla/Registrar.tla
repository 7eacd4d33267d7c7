------------------------------ MODULE Registrar ------------------------------
(***************************************************************************)
(* The registrar of the SIP service: cb_nist_rcv_register in               *)
(* ua/OPPSipService.cpp binds an endpoint device, a timer of 90 s unbinds  *)
(* it, and the Lua application hears of both.  Phones register for the one *)
(* device over a network that loses, repeats and delays; the NIST          *)
(* transaction of a REGISTER answers its copies while it lingers.          *)
(***************************************************************************)
EXTENDS Integers, FiniteSets

CONSTANTS Phones,
          Requests,   \* bound on the REGISTERs of a phone
          Forms,      \* what a REGISTER may look like: the keys of Code
          Binding,    \* the timer of a binding: 90 s
          LongBinding,\* what a phone may ask for instead
          Linger,     \* 64 * T1: timer J, and how long a phone waits for a response
          MaxDelay,   \* how old a message may get in the network
          Slack,      \* how late the dispatch loop fires a timer
          None

ASSUME RegistrarAssumption ==
    /\ Requests \in Nat /\ Binding \in Nat \ {0} /\ LongBinding \in Nat
    /\ Linger \in Nat /\ MaxDelay \in Nat /\ Slack \in Nat
    /\ MaxDelay < Linger /\ Linger < Binding
    /\ None \notin Phones

VARIABLES net,     \* the REGISTERs that may still arrive
          nists,   \* the NIST transactions and what is left of their timer J
          state,   \* GetState() of the device
          contact, \* m_uriContact
          timers,  \* the entries of the device in OPPTimerMonitor, by the time left
          status,  \* the device's status in sip_dev.lua
          phone,   \* what each phone knows
          age      \* ticks since the REGISTER that bound the device last was sent

vars == <<net, nists, state, contact, timers, status, phone, age>>

Code == [good      |-> 200,
         nocontact |-> 400,  \* or no expiry, or no user in From
         noauth    |-> 401,
         badauth   |-> 401,  \* the digest is wrong
         broken    |-> 420,  \* a digest without nonce, response, realm or uri
         unknown   |-> 404]  \* no device of that name

MaxAge == MaxDelay + Binding + Slack + 1

(* A phone sends one REGISTER at a time.  bound tells that the last one was *)
(* accepted and asked to be bound, other that someone else's was since.     *)
Silent == [cseq |-> 0, waits |-> FALSE, since |-> 0, bound |-> FALSE, other |-> FALSE]

Init == /\ net = {} /\ nists = {} /\ timers = {}
        /\ state = "OffLine" /\ status = "offline" /\ contact = None
        /\ phone = [p \in Phones |-> Silent]
        /\ age = MaxAge
-----------------------------------------------------------------------------
(* A phone registers, or takes its registration back; it waits for the      *)
(* response before it sends another, or for Linger.                         *)
Register(p) ==
    /\ phone[p].cseq < Requests
    /\ ~phone[p].waits \/ phone[p].since >= Linger
    /\ \E f \in Forms, stay \in BOOLEAN :
          net' = net \cup {[from |-> p, cseq |-> phone[p].cseq + 1, form |-> f, stay |-> stay, age |-> 0]}
    /\ phone' = [phone EXCEPT ![p].cseq = @ + 1, ![p].waits = TRUE, ![p].since = 0, ![p].bound = FALSE]
    /\ UNCHANGED <<nists, state, contact, timers, status, age>>
-----------------------------------------------------------------------------
(* The digest is right: the device is bound to the Contact of the REGISTER, *)
(* which a REGISTER with an expiry of 0 sets as well.                       *)
Cancelled == {}

NotCancelled == timers   \* mutant

CancelTimer == Cancelled

BindForAsked == CancelTimer \cup {LongBinding}   \* mutant

Bind == CancelTimer \cup {Binding}

Unbind == CancelTimer

SetState(s, st) == state' = s /\ status' = IF state # s THEN st ELSE status

Accept(m) ==
    /\ contact' = m.from
    /\ IF m.stay THEN timers' = Bind /\ SetState("OnLine", "online") /\ age' = m.age
       ELSE timers' = Unbind /\ SetState("OffLine", "offline") /\ UNCHANGED age

(* What the phones know after the response to m, which arrives or is lost:  *)
(* one that is late is heard of later, and promises no more.                *)
Hears(ph, m) ==
    IF ph[m.from].waits /\ ph[m.from].cseq = m.cseq
    THEN {ph, [ph EXCEPT ![m.from].waits = FALSE,
                         ![m.from].bound = Code[m.form] = 200 /\ m.stay]}
    ELSE {ph}

Registers(m) == [p \in Phones |-> [phone[p] EXCEPT !.other = p # m.from]]

(* cb_nist_rcv_register.                                                    *)
RcvRegister(m) ==
    IF Code[m.form] = 200 THEN Accept(m) /\ phone' \in Hears(Registers(m), m)
    ELSE phone' \in Hears(phone, m) /\ UNCHANGED <<state, contact, timers, status, age>>

(* A copy meets the transaction, which repeats its response.                *)
Lingering(m) == \E t \in nists : t.from = m.from /\ t.cseq = m.cseq

NotLingering(m) == FALSE   \* mutant

Known(m) == Lingering(m)

Receive(m) ==
    /\ IF Known(m)
       THEN phone' \in Hears(phone, m)
            /\ UNCHANGED <<nists, state, contact, timers, status, age>>
       ELSE /\ nists' = nists \cup {[from |-> m.from, cseq |-> m.cseq, left |-> Linger]}
            /\ RcvRegister(m)
    /\ UNCHANGED net
-----------------------------------------------------------------------------
(* OPPSipDev::OnTimeout with TIMEOUT_REGISTER, for the entry t.             *)
OnTimeoutIgnored(t) ==   \* mutant
    timers' = timers \ {t} /\ UNCHANGED <<state, status>>

OnTimeout(t) == timers' = timers \ {t} /\ SetState("OffLine", "offline")

Timeout ==
    /\ \E t \in timers : t <= 0 /\ OnTimeout(t)
    /\ UNCHANGED <<net, nists, contact, phone, age>>

(* Timer J ends the transaction.                                            *)
Lingers(t) == t.left > 0

(* A message too old is gone.                                               *)
Tick ==
    /\ \A t \in timers : t > -Slack
    /\ net' = {[m EXCEPT !.age = @ + 1] : m \in {n \in net : n.age < MaxDelay}}
    /\ nists' = {[t EXCEPT !.left = @ - 1] : t \in {u \in nists : Lingers(u)}}
    /\ timers' = {t - 1 : t \in timers}
    /\ phone' = [p \in Phones |-> [phone[p] EXCEPT !.since = IF @ < Binding THEN @ + 1 ELSE @]]
    /\ age' = IF age < MaxAge THEN age + 1 ELSE age
    /\ UNCHANGED <<state, contact, status>>

Next == \/ \E p \in Phones : Register(p)
        \/ \E m \in net : Receive(m)
        \/ Timeout
        \/ Tick

Spec == Init /\ [][Next]_vars /\ WF_vars(Timeout) /\ WF_vars(Tick)
-----------------------------------------------------------------------------
(* The types of the messages, the transactions and the device.              *)
TypeOK ==
    /\ net \subseteq [from : Phones, cseq : 1 .. Requests, form : Forms, stay : BOOLEAN, age : 0 .. MaxDelay]
    /\ nists \subseteq [from : Phones, cseq : 1 .. Requests, left : 0 .. Linger]
    /\ state \in {"OffLine", "OnLine"} /\ status \in {"offline", "online"}
    /\ contact \in Phones \cup {None}
    /\ timers \subseteq Int
    /\ phone \in [Phones -> [cseq : 0 .. Requests, waits : BOOLEAN, since : 0 .. Binding,
                            bound : BOOLEAN, other : BOOLEAN]]
    /\ age \in 0 .. MaxAge

(* Lua sees the device as it is, and it is on line exactly while one timer  *)
(* will unbind it.                                                          *)
OnlineWhileTimed ==
    /\ (state = "OnLine") = (status = "online")
    /\ Cardinality(timers) = (IF state = "OnLine" THEN 1 ELSE 0)

(* What a phone was told holds: for 90 s after it sent the REGISTER that    *)
(* was accepted its device is on line, with the phone's address, unless     *)
(* another phone registered for the device since.                           *)
PhoneIsReachable ==
    \A p \in Phones :
        phone[p].bound /\ ~phone[p].other /\ phone[p].since < Binding
            => state = "OnLine" /\ contact = p

(* A device is on line no longer than a binding after the last REGISTER     *)
(* that could bind it was sent, however the network delays.                 *)
NoGhostBinding == state = "OnLine" => age < MaxAge

(* When the phones fall silent the device goes off line for good.           *)
SilentPhonesGoOffline == <>[](state = "OffLine")
=============================================================================
