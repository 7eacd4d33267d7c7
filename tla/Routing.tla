------------------------------- MODULE Routing -------------------------------
(***************************************************************************)
(* How a request from the network finds the call it is about: the          *)
(* transaction map of trans/OSIP_TransManager.cpp, the dialog of           *)
(* trans/OSIP_Dialog.cpp, and the callbacks of ua/OPPSipService.cpp that    *)
(* pick a channel of a device.  The callers' requests are repeated, lost    *)
(* and reordered.  All calls are incoming, on the channels of one device;   *)
(* INVITEs carry a body and the application answers with one.               *)
(***************************************************************************)
EXTENDS Naturals, FiniteSets

CONSTANTS Calls,     \* the callers' calls, each with a Call-ID and a From tag of its own
          Channels,  \* the channels of the device
          Scripts,   \* what the caller of each call may send
          MaxOffers, \* bounds on the times each call is taken for a new one
          MaxNet,    \* bound on the requests that may still arrive
          None

ASSUME RoutingAssumption ==
    /\ None \notin Calls \cup Channels
    /\ Scripts \in [Calls -> SUBSET {"INVITE", "CANCEL", "REINVITE", "BYE"}]
    /\ MaxOffers \in [Calls -> Nat] /\ MaxNet \in Nat

VARIABLES net,    \* the requests that may still arrive, any number of times
          told,   \* the responses that were sent, each heard or lost
          ists,   \* the IST transactions in the map
          nists,  \* the requests whose NIST transactions are in the map
          chans,  \* the channels
          offers  \* OnIncall: how often each call was offered as a new one

vars == <<net, told, ists, nists, chans, offers>>

(* branch stands for the branch of the top Via and the CSeq, tag for the    *)
(* tag in To: the dialogs of a call are numbered, 0 is no tag, also that of *)
(* a 1xx, which no caller uses.                                             *)
Request(method, c, branch, tag) == [method |-> method, call |-> c, branch |-> branch, tag |-> tag]

Response(c, branch, class, tag) == [call |-> c, branch |-> branch, class |-> class, tag |-> tag]

(* A channel with its call, the branch of m_IST, and the tag of m_Dialog.   *)
FreeChannel == [state |-> "Ready", call |-> None, branch |-> "none", tag |-> 0]

Init == /\ net = {} /\ told = {} /\ ists = {} /\ nists = {}
        /\ chans = [n \in Channels |-> FreeChannel]
        /\ offers = [c \in Calls |-> 0]
-----------------------------------------------------------------------------
(* The callers.  A request is sent once; the network repeats it.            *)
Sends(m) ==
    /\ m \notin net /\ Cardinality(net) < MaxNet
    /\ net' = net \cup {m}
    /\ UNCHANGED <<told, ists, nists, chans, offers>>

Answers(c, branch, class) == {r \in told : r.call = c /\ r.branch = branch /\ r.class = class}

(* A 2xx is acknowledged in a transaction of its own, any other final       *)
(* response in that of its INVITE.                                          *)
AckBranch == [inv |-> "ack", re |-> "reack"]

CallerInvites(c) ==
    /\ "INVITE" \in Scripts[c] /\ \A r \in told : r.call # c
    /\ Sends(Request("INVITE", c, "inv", 0))

CallerCancels(c) ==
    /\ "CANCEL" \in Scripts[c]
    /\ \E branch \in {"inv", "re"}, m \in net :
          /\ m.method = "INVITE" /\ m.call = c /\ m.branch = branch
          /\ Answers(c, branch, "1xx") # {}
          /\ Sends(Request("CANCEL", c, branch, m.tag))

CallerAcks(c) ==
    \E r \in told :
        /\ r.call = c
        /\ \/ r.class = "2xx" /\ Sends(Request("ACK", c, AckBranch[r.branch], r.tag))
           \/ /\ r.class = "3456xx"
              /\ \E m \in net : m.method = "INVITE" /\ m.call = c /\ m.branch = r.branch
              /\ Sends(Request("ACK", c, r.branch, r.tag))

CallerReInvites(c) ==
    /\ "REINVITE" \in Scripts[c]
    /\ \A m \in net : m.call = c => m.branch # "re"
    /\ \E r \in Answers(c, "inv", "2xx") : Sends(Request("INVITE", c, "re", r.tag))

CallerHangsUp(c) ==
    /\ "BYE" \in Scripts[c]
    /\ \E r \in Answers(c, "inv", "2xx") : Sends(Request("BYE", c, "bye", r.tag))
-----------------------------------------------------------------------------
(* OSIP_Dialog::osip_dialog_match_as_uas, whose From tag is the call's.     *)
MatchesCallId(d, m) == d.tag > 0 /\ d.call = m.call   \* mutant

osip_dialog_match_as_uas(d, m) == d.tag > 0 /\ d.call = m.call /\ d.tag = m.tag

(* GetSipChannelByDialogAsUAS: a channel whose dialog matches.              *)
ByDialog(m) == {n \in Channels : osip_dialog_match_as_uas(chans[n], m)}

(* The request meets the transaction of its branch, by its method except    *)
(* for an ACK, which meets that of its INVITE.                              *)
MatchedIST(m) ==
    {t \in ists : m.method \in {"INVITE", "ACK"} /\ t.call = m.call /\ t.branch = m.branch}

(* GetMatchedTransForCancel.                                                *)
GetMatchedTransForCancel(m) == {t \in ists : t.call = m.call /\ t.branch = m.branch}

(* m_IST == ist: the channel in the transaction's user data still holds it. *)
Holds(n, t) == t.chan = n /\ chans[n].call = t.call /\ chans[n].branch = t.branch

(* IsVeryLateInviteRetransform: a channel holds an IST with the same key.   *)
NeverLate(m) == FALSE   \* mutant

IsVeryLateInviteRetransform(m) ==
    \E n \in Channels : chans[n].call = m.call /\ chans[n].branch = m.branch
-----------------------------------------------------------------------------
(* Execute of an IST with a response: a 2xx removes it from the map, another*)
(* final response stays for the copies and the ACK.                         *)
IST(m, n, state) == [call |-> m.call, branch |-> m.branch, chan |-> n, state |-> state]

ErrorIsForgotten(t, class) == IF class = "1xx" THEN {t} ELSE {}   \* mutant

After(t, class) ==
    CASE class = "1xx"    -> {t}
      [] class = "2xx"    -> {}
      [] class = "3456xx" -> {[t EXCEPT !.state = "Completed"]}

Responds(t, class, tag) ==
    /\ ists' = (ists \ {t}) \cup After(t, class)
    /\ told' = told \cup {Response(t.call, t.branch, class, tag)}

(* A new IST that is answered at once, after its 100.                       *)
Declines(m) ==
    /\ ists' = ists \cup After(IST(m, None, "Proceeding"), "3456xx")
    /\ told' = told \cup {Response(m.call, m.branch, "1xx", 0),
                          Response(m.call, m.branch, "3456xx", m.tag)}
    /\ UNCHANGED <<chans, offers>>

(* OnInCallWhileReady: the call is offered to the application.              *)
Offer(m, n) ==
    /\ chans[n].state = "Ready" /\ offers[m.call] < MaxOffers[m.call]
    /\ chans' = [chans EXCEPT ![n] = [state |-> "Ring", call |-> m.call, branch |-> m.branch, tag |-> 0]]
    /\ ists' = ists \cup {IST(m, n, "Proceeding")}
    /\ told' = told \cup {Response(m.call, m.branch, "1xx", 0)}
    /\ offers' = [offers EXCEPT ![m.call] = @ + 1]

process_invite(m) ==
    IF IsVeryLateInviteRetransform(m) \/ \A n \in Channels : chans[n].state # "Ready"
    THEN Declines(m)
    ELSE \E n \in Channels : Offer(m, n)

(* A re-INVITE on an answered call takes the place of m_IST.  With another  *)
(* body it rings again; with the same it is answered at once.               *)
RingsAgainWithoutIST(m, n) ==   \* mutant
    /\ chans' = [chans EXCEPT ![n].state = "Ring"]
    /\ ists' = ists \cup {IST(m, n, "Proceeding")}
    /\ told' = told \cup {Response(m.call, m.branch, "1xx", 0)}

RingsAgain(m, n) ==
    /\ chans' = [chans EXCEPT ![n].state = "Ring", ![n].branch = m.branch]
    /\ ists' = ists \cup {IST(m, n, "Proceeding")}
    /\ told' = told \cup {Response(m.call, m.branch, "1xx", 0)}

AcceptsAgain(m, n) ==
    /\ chans' = [chans EXCEPT ![n].state = "Accept", ![n].branch = m.branch]
    /\ told' = told \cup {Response(m.call, m.branch, "1xx", 0), Response(m.call, m.branch, "2xx", m.tag)}
    /\ UNCHANGED ists

cb_ist_rcv_invite(m) ==
    IF ByDialog(m) = {} THEN process_invite(m)
    ELSE \E n \in ByDialog(m) :
            IF chans[n].state \in {"Accept", "Setup"}
            THEN (RingsAgain(m, n) \/ AcceptsAgain(m, n)) /\ UNCHANGED offers
            ELSE Declines(m)

(* cb_ist_rcv_ack without a transaction, and OnSetupWhileAccept.            *)
cb_ist_rcv_ack(m) ==
    /\ chans' = [n \in Channels |-> IF n \in ByDialog(m) /\ chans[n].state = "Accept"
                                    THEN [chans[n] EXCEPT !.state = "Setup"] ELSE chans[n]]
    /\ UNCHANGED <<told, ists, offers>>

(* A PeerHangup event: a ringing INVITE is answered with 487, an accepted   *)
(* call goes on.                                                            *)
PeerHangup(n) ==
    CASE chans[n].state = "Ring" ->
           /\ \E t \in ists : Holds(n, t) /\ Responds(t, "3456xx", chans[n].tag)
           /\ chans' = [chans EXCEPT ![n] = FreeChannel]
      [] chans[n].state = "Setup" ->
           chans' = [chans EXCEPT ![n] = FreeChannel] /\ UNCHANGED <<told, ists>>
      [] OTHER -> UNCHANGED <<told, ists, chans>>

HangsUp(N) ==
    /\ IF N = {} THEN UNCHANGED <<told, ists, chans>> ELSE \E n \in N : PeerHangup(n)
    /\ UNCHANGED offers

(* A ringing channel is hung up as well, with its dialog.                   *)
cb_nist_rcv_bye(m) == HangsUp(ByDialog(m))

cb_nist_rcv_cancel(m) ==
    IF GetMatchedTransForCancel(m) = {} THEN HangsUp(ByDialog(m))
    ELSE \E t \in GetMatchedTransForCancel(m) : HangsUp({n \in Channels : Holds(n, t)})

(* FindTransaction_andExcuteEvent for an INVITE or an ACK: a copy changes   *)
(* nothing, the ACK of an error confirms it.                                *)
ReceiveForIST(m) ==
    /\ m.method \in {"INVITE", "ACK"}
    /\ IF MatchedIST(m) # {}
       THEN /\ ists' = {IF t \in MatchedIST(m) /\ m.method = "ACK" /\ t.state = "Completed"
                        THEN [t EXCEPT !.state = "Confirmed"] ELSE t : t \in ists}
            /\ UNCHANGED <<told, chans, offers>>
       ELSE (m.method = "INVITE" /\ cb_ist_rcv_invite(m)) \/ (m.method = "ACK" /\ cb_ist_rcv_ack(m))
    /\ UNCHANGED <<net, nists>>

(* FindTransaction_andExcuteEvent for a BYE or a CANCEL: its transaction    *)
(* stays for as long as copies of it may arrive, and they find it.          *)
ReceiveForNIST(m) ==
    /\ m \notin nists
    /\ nists' = nists \cup {m}
    /\ \/ m.method = "BYE" /\ cb_nist_rcv_bye(m)
       \/ m.method = "CANCEL" /\ cb_nist_rcv_cancel(m)
    /\ UNCHANGED net

Receive(m) == ReceiveForIST(m) \/ ReceiveForNIST(m)

(* RemoveTrans at the end of timer H or I, when the network has lost or     *)
(* delivered every copy of the INVITE and of its ACK.                       *)
TransactionEnds ==
    /\ \E t \in ists : /\ t.state \in {"Completed", "Confirmed"}
                       /\ ists' = ists \ {t}
                       /\ net' = {m \in net : m.method = "CANCEL" \/ m.call # t.call \/ m.branch # t.branch}
    /\ UNCHANGED <<told, nists, chans, offers>>
-----------------------------------------------------------------------------
(* The application and the timer of a channel.  The first response of a     *)
(* ringing channel makes its dialog.                                        *)
Tag(n) == IF chans[n].tag = 0 THEN offers[chans[n].call] ELSE chans[n].tag

RingBack(n) ==
    /\ chans[n].state = "Ring"
    /\ \E t \in ists : Holds(n, t) /\ Responds(t, "1xx", 0)
    /\ chans' = [chans EXCEPT ![n].tag = Tag(n)]
    /\ UNCHANGED <<net, nists, offers>>

Answer(n) ==
    /\ chans[n].state = "Ring"
    /\ \E t \in ists, class \in {"2xx", "3456xx"} :
          /\ Holds(n, t) /\ Responds(t, class, Tag(n))
          /\ chans' = [chans EXCEPT ![n] = IF class = "2xx" THEN [@ EXCEPT !.state = "Accept", !.tag = Tag(n)]
                                           ELSE FreeChannel]
    /\ UNCHANGED <<net, nists, offers>>

(* _bye, and the end of the retransmission of an answer without ACK.        *)
Ends(n) ==
    /\ chans[n].state \in {"Accept", "Setup"}
    /\ chans' = [chans EXCEPT ![n] = FreeChannel]
    /\ UNCHANGED <<net, told, ists, nists, offers>>

Caller(c) == \/ CallerInvites(c) \/ CallerCancels(c) \/ CallerAcks(c)
             \/ CallerReInvites(c) \/ CallerHangsUp(c)

Next == \/ \E c \in Calls : Caller(c)
        \/ \E m \in net : Receive(m)
        \/ TransactionEnds
        \/ \E n \in Channels : RingBack(n) \/ Answer(n) \/ Ends(n)

Spec == Init /\ [][Next]_vars
-----------------------------------------------------------------------------
Requests == [method : {"INVITE", "ACK", "CANCEL", "BYE"}, call : Calls,
             branch : {"inv", "ack", "re", "reack", "bye"}, tag : Nat]

(* The types.  An INVITE of a new call has no tag; a 2xx has one.           *)
NetOK ==
    /\ net \subseteq Requests /\ nists \subseteq Requests
    /\ \A m \in net : m.method \in {"INVITE", "CANCEL"} => m.branch \in {"inv", "re"}
    /\ \A m \in net : m.method = "INVITE" => (m.branch = "inv") = (m.tag = 0)

ToldOK ==
    /\ told \subseteq [call : Calls, branch : {"inv", "re"}, class : {"1xx", "2xx", "3456xx"}, tag : Nat]
    /\ \A r \in told : r.class = "2xx" => r.tag > 0

IstsOK == ists \subseteq [call : Calls, branch : {"inv", "re"}, chan : Channels \cup {None},
                         state : {"Proceeding", "Completed", "Confirmed"}]

(* A channel in use carries a call that was offered.                        *)
ChansOK ==
    /\ chans \in [Channels -> [state : {"Ready", "Ring", "Accept", "Setup"}, call : Calls \cup {None},
                               branch : {"none", "inv", "re"}, tag : Nat]]
    /\ \A n \in Channels : IF chans[n].state = "Ready" THEN chans[n] = FreeChannel
                           ELSE chans[n].branch # "none" /\ chans[n].call # None /\ offers[chans[n].call] > 0

TypeOK == NetOK /\ ToldOK /\ IstsOK /\ ChansOK /\ offers \in [Calls -> Nat]

(* Every INVITE that waits for its final response rings on the channel that *)
(* holds it, and every ringing channel can still answer: neither copies,    *)
(* cancellations nor re-INVITEs part the two.                               *)
RingsForItsInvite ==
    /\ \A t \in ists : t.state = "Proceeding" =>
          \E n \in Channels : chans[n].state = "Ring" /\ Holds(n, t)
    /\ \A n \in Channels : chans[n].state = "Ring" =>
          \E t \in ists : t.state = "Proceeding" /\ Holds(n, t)

(* No call is on two channels at once, however late a copy of its INVITE is,*)
(* unless a re-INVITE took the place of the INVITE that a copy is known by. *)
NoCallTwice ==
    \A n, k \in Channels :
        n # k /\ chans[n].call = chans[k].call /\ chans[n].call # None
            => "re" \in {chans[n].branch, chans[k].branch}

(* A call is offered to the application again only after it was accepted:   *)
(* a refused or cancelled call does not ring a second time.                 *)
OfferedAgainOnlyIfAccepted ==
    \A c \in Calls : offers[c] > 1 => Answers(c, "inv", "2xx") # {}

(* A request changes only the channel of its own call: one that holds its   *)
(* INVITE or that has its dialog, or a free one that a new call takes.      *)
Concerns(m, n) ==
    \/ chans[n].state = "Ready" /\ m.method = "INVITE"
    \/ chans[n].call = m.call /\ (chans[n].branch = m.branch \/ (m.tag > 0 /\ chans[n].tag = m.tag))

NoCrossTalk ==
    [][\A m \in net : Receive(m) =>
          \A n \in Channels : chans'[n] # chans[n] => Concerns(m, n)]_vars
=============================================================================
