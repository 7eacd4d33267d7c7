---------------------------- MODULE Routing_proofs ----------------------------
(***************************************************************************)
(* Proofs about Routing, for any calls, channels and scripts.  The         *)
(* invariant says that at most one IST in the map has a given key, so the  *)
(* one a channel holds is the one that waits, and that a call keeps its    *)
(* INVITE's transaction, or has lost every copy of the INVITE, until the   *)
(* call is accepted.                                                       *)
(***************************************************************************)
EXTENDS Routing, TLAPS

(* The map has one IST for a key.                                           *)
OneIST == \A t, u \in ists : t.call = u.call /\ t.branch = u.branch => t = u

Accepted(c) == Answers(c, "inv", "2xx") # {}

(* While no copy of a call's INVITE can meet a free channel.                *)
Guarded(c) ==
    \/ \E t \in ists : t.call = c /\ t.branch = "inv"
    \/ \A m \in net : ~(m.method = "INVITE" /\ m.call = c /\ m.branch = "inv")

OfferSound ==
    /\ \A c \in Calls : offers[c] > 0 => \E r \in told : r.call = c
    /\ \A c \in Calls : offers[c] > 0 /\ ~Accepted(c) => Guarded(c)
    /\ \A m \in net : m.method = "INVITE" /\ m.branch = "re" => Accepted(m.call)

IInv == TypeOK /\ OneIST /\ RingsForItsInvite /\ NoCallTwice /\ OfferSound /\ OfferedAgainOnlyIfAccepted
-----------------------------------------------------------------------------
(* What a caller adds to the network.                                       *)
MaySend(m, c) ==
    /\ m \in Requests /\ Sends(m) /\ m.call = c
    /\ m.method \in {"INVITE", "CANCEL"} => m.branch \in {"inv", "re"}
    /\ m.method = "INVITE" => (m.branch = "inv") = (m.tag = 0)
    /\ m.method = "INVITE" /\ m.branch = "inv" => \A r \in told : r.call # c
    /\ m.method = "INVITE" /\ m.branch = "re" => Accepted(c)

LEMMA Sent ==
    ASSUME TypeOK, NEW c \in Calls, Caller(c)
    PROVE  \E m \in Requests : MaySend(m, c)
<1> DEFINE R(method, branch, tag) == Request(method, c, branch, tag)
<1>0. ASSUME NEW method \in {"INVITE", "ACK", "CANCEL", "BYE"}, NEW tag \in Nat,
             NEW branch \in {"inv", "ack", "re", "reack", "bye"}
      PROVE  /\ R(method, branch, tag) \in Requests /\ R(method, branch, tag).call = c
             /\ R(method, branch, tag).method = method /\ R(method, branch, tag).branch = branch
             /\ R(method, branch, tag).tag = tag
  BY DEF Request, Requests
<1>1. CASE CallerInvites(c)
  <2>1. MaySend(R("INVITE", "inv", 0), c)
    BY <1>0, <1>1 DEF CallerInvites, MaySend
  <2> QED
    BY <2>1 DEF MaySend
<1>2. CASE CallerCancels(c)
  <2>1. PICK branch \in {"inv", "re"}, tag \in Nat : Sends(R("CANCEL", branch, tag))
    BY <1>2 DEF CallerCancels, TypeOK, NetOK, Requests
  <2>2. MaySend(R("CANCEL", branch, tag), c)
    BY <1>0, <2>1 DEF MaySend
  <2> QED
    BY <2>2 DEF MaySend
<1>3. CASE CallerAcks(c)
  <2>1. PICK branch \in {"inv", "ack", "re", "reack"}, tag \in Nat : Sends(R("ACK", branch, tag))
    <3>1. \A r \in told : r.branch \in {"inv", "re"} /\ r.tag \in Nat /\ AckBranch[r.branch] \in {"ack", "reack"}
      BY DEF AckBranch, TypeOK, ToldOK
    <3> QED
      BY <1>3, <3>1 DEF CallerAcks
  <2>2. MaySend(R("ACK", branch, tag), c)
    BY <1>0, <2>1 DEF MaySend
  <2> QED
    BY <2>2 DEF MaySend
<1>4. CASE CallerReInvites(c)
  <2>1. PICK r \in Answers(c, "inv", "2xx") : Sends(R("INVITE", "re", r.tag))
    BY <1>4 DEF CallerReInvites
  <2>2. r.tag \in Nat /\ r.tag > 0 /\ Accepted(c)
    BY <2>1 DEF Answers, Accepted, TypeOK, ToldOK
  <2>3. MaySend(R("INVITE", "re", r.tag), c)
    BY <1>0, <2>1, <2>2 DEF MaySend
  <2> QED
    BY <2>3 DEF MaySend
<1>5. CASE CallerHangsUp(c)
  <2>1. PICK r \in Answers(c, "inv", "2xx") : Sends(R("BYE", "bye", r.tag))
    BY <1>5 DEF CallerHangsUp
  <2>2. r.tag \in Nat
    BY <2>1 DEF Answers, TypeOK, ToldOK
  <2>3. MaySend(R("BYE", "bye", r.tag), c)
    BY <1>0, <2>1, <2>2 DEF MaySend
  <2> QED
    BY <2>3 DEF MaySend
<1> QED
  BY <1>1, <1>2, <1>3, <1>4, <1>5 DEF Caller

(* What the arrival of a request comes to.                                  *)
Absorbed(m) ==
    /\ ists' = {IF t \in MatchedIST(m) /\ m.method = "ACK" /\ t.state = "Completed"
                THEN [t EXCEPT !.state = "Confirmed"] ELSE t : t \in ists}
    /\ UNCHANGED <<told, chans, offers>>

NewInvite(m) == m.method = "INVITE" /\ MatchedIST(m) = {}

LEMMA Received ==
    ASSUME NEW m \in net, Receive(m)
    PROVE  /\ UNCHANGED net /\ (UNCHANGED nists \/ nists' = nists \cup {m})
           /\ \/ Absorbed(m)
              \/ NewInvite(m) /\ Declines(m)
              \/ NewInvite(m) /\ ~IsVeryLateInviteRetransform(m) /\ \E n \in Channels : Offer(m, n)
              \/ /\ NewInvite(m) /\ UNCHANGED offers
                 /\ \E n \in ByDialog(m) : chans[n].state \in {"Accept", "Setup"}
                                           /\ (RingsAgain(m, n) \/ AcceptsAgain(m, n))
              \/ cb_ist_rcv_ack(m)
              \/ /\ UNCHANGED offers
                 /\ \E n \in Channels : PeerHangup(n) /\ (n \in ByDialog(m) \/ \E t \in GetMatchedTransForCancel(m) : Holds(n, t))
              \/ UNCHANGED <<told, ists, chans, offers>>
<1>1. CASE ReceiveForIST(m)
  BY <1>1 DEF ReceiveForIST, Absorbed, NewInvite, cb_ist_rcv_invite, process_invite
<1>2. CASE ReceiveForNIST(m)
  <2>1. UNCHANGED net /\ nists' = nists \cup {m}
    BY <1>2 DEF ReceiveForNIST
  <2>2. ASSUME NEW N \in SUBSET Channels, HangsUp(N)
        PROVE  /\ UNCHANGED offers
               /\ UNCHANGED <<told, ists, chans>> \/ \E n \in N : PeerHangup(n)
    BY <2>2 DEF HangsUp
  <2>3. ByDialog(m) \subseteq Channels
    BY DEF ByDialog
  <2>4. CASE cb_nist_rcv_bye(m)
    BY <2>1, <2>2, <2>3, <2>4 DEF cb_nist_rcv_bye
  <2>5. CASE cb_nist_rcv_cancel(m)
    <3>1. CASE GetMatchedTransForCancel(m) = {}
      BY <2>1, <2>2, <2>3, <2>5, <3>1 DEF cb_nist_rcv_cancel
    <3>2. ASSUME NEW t \in GetMatchedTransForCancel(m), HangsUp({n \in Channels : Holds(n, t)})
          PROVE  /\ UNCHANGED offers
                 /\ UNCHANGED <<told, ists, chans>> \/ \E n \in Channels : PeerHangup(n) /\ Holds(n, t)
      BY <2>2, <3>2
    <3> QED
      BY <2>1, <2>5, <3>1, <3>2 DEF cb_nist_rcv_cancel
  <2> QED
    BY <1>2, <2>4, <2>5 DEF ReceiveForNIST
<1> QED
  BY <1>1, <1>2 DEF Receive
-----------------------------------------------------------------------------
(* The execution of an IST with a response keeps the types.                 *)
LEMMA RespondsType ==
    ASSUME IstsOK, ToldOK, NEW t \in ists, NEW class \in {"1xx", "2xx", "3456xx"}, NEW tag \in Nat,
           class = "2xx" => tag > 0, Responds(t, class, tag)
    PROVE  IstsOK' /\ ToldOK'
<1>1. After(t, class) \subseteq {t, [t EXCEPT !.state = "Completed"]}
  BY DEF After
<1>2. IstsOK'
  BY <1>1 DEF Responds, IstsOK
<1>3. Response(t.call, t.branch, class, tag)
         \in [call : Calls, branch : {"inv", "re"}, class : {"1xx", "2xx", "3456xx"}, tag : Nat]
  BY DEF Response, IstsOK
<1>4. Response(t.call, t.branch, class, tag).class = class /\ Response(t.call, t.branch, class, tag).tag = tag
  BY DEF Response
<1>5. ToldOK'
  BY <1>3, <1>4 DEF Responds, ToldOK
<1> QED
  BY <1>2, <1>5

(* An INVITE that makes a new IST.                                          *)
LEMMA NewISTType ==
    ASSUME NetOK, NEW m \in net, m.method = "INVITE", NEW n \in Channels \cup {None}
    PROVE  /\ m.call \in Calls /\ m.branch \in {"inv", "re"} /\ m.tag \in Nat
           /\ IST(m, n, "Proceeding") \in [call : Calls, branch : {"inv", "re"}, chan : Channels \cup {None},
                                           state : {"Proceeding", "Completed", "Confirmed"}]
           /\ After(IST(m, n, "Proceeding"), "3456xx") = {IST(m, n, "Completed")}
           /\ IST(m, n, "Completed") \in [call : Calls, branch : {"inv", "re"}, chan : Channels \cup {None},
                                          state : {"Proceeding", "Completed", "Confirmed"}]
           /\ \A class \in {"1xx", "3456xx"}, tag \in {0, m.tag} :
                 /\ Response(m.call, m.branch, class, tag)
                       \in [call : Calls, branch : {"inv", "re"}, class : {"1xx", "2xx", "3456xx"}, tag : Nat]
                 /\ Response(m.call, m.branch, class, tag).class # "2xx"
  BY DEF NetOK, Requests, IST, After, Response

LEMMA ChanType ==
    ASSUME ChansOK, NEW n \in Channels
    PROVE  /\ chans[n].state \in {"Ready", "Ring", "Accept", "Setup"}
           /\ chans[n].state # "Ready" => /\ chans[n].call \in Calls /\ chans[n].branch \in {"inv", "re"}
                                         /\ offers[chans[n].call] > 0
           /\ chans[n].tag \in Nat
           /\ FreeChannel \in [state : {"Ready", "Ring", "Accept", "Setup"}, call : Calls \cup {None},
                                branch : {"none", "inv", "re"}, tag : Nat]
           /\ FreeChannel.state = "Ready"
  BY DEF ChansOK, FreeChannel

(* A step that changes one channel.                                         *)
Channel == [state : {"Ready", "Ring", "Accept", "Setup"}, call : Calls \cup {None},
            branch : {"none", "inv", "re"}, tag : Nat]

LEMMA OneChannel ==
    ASSUME ChansOK, NEW n \in Channels, NEW d \in Channel, chans' = [chans EXCEPT ![n] = d],
           IF d.state = "Ready" THEN d = FreeChannel
           ELSE d.branch # "none" /\ d.call # None /\ offers'[d.call] > 0,
           \A c \in Calls : offers[c] > 0 => offers'[c] > 0
    PROVE  ChansOK'
<1>1. chans' \in [Channels -> Channel] /\ chans'[n] = d
  BY DEF ChansOK, Channel
<1>2. \A k \in Channels : k # n => chans'[k] = chans[k]
  BY DEF ChansOK
<1>3. \A k \in Channels : chans[k].call \in Calls \/ chans[k].call = None
  BY DEF ChansOK
<1> QED
  BY <1>1, <1>2, <1>3 DEF ChansOK, Channel

LEMMA FreedType ==
    ASSUME ChansOK, NEW n \in Channels, chans' = [chans EXCEPT ![n] = FreeChannel], UNCHANGED offers
    PROVE  ChansOK'
  BY ChanType, OneChannel DEF Channel

LEMMA HangupType ==
    ASSUME TypeOK, NEW n \in Channels, PeerHangup(n), UNCHANGED offers
    PROVE  IstsOK' /\ ToldOK' /\ ChansOK'
<1>1. CASE chans[n].state = "Ring"
  <2>1. PICK t \in ists : Responds(t, "3456xx", chans[n].tag)
    BY <1>1 DEF PeerHangup
  <2>2. IstsOK' /\ ToldOK'
    BY <2>1, RespondsType, ChanType DEF TypeOK
  <2>3. chans' = [chans EXCEPT ![n] = FreeChannel]
    BY <1>1 DEF PeerHangup
  <2> QED
    BY <2>2, <2>3, FreedType DEF TypeOK
<1>2. CASE chans[n].state = "Setup"
  BY <1>2, FreedType DEF PeerHangup, TypeOK, IstsOK, ToldOK
<1>3. CASE chans[n].state \notin {"Ring", "Setup"}
  BY <1>3 DEF PeerHangup, TypeOK, IstsOK, ToldOK, ChansOK
<1> QED
  BY <1>1, <1>2, <1>3

LEMMA ReceiveType ==
    ASSUME TypeOK, NEW m \in net, Receive(m)
    PROVE  TypeOK'
<1>0. NetOK'
  BY Received DEF TypeOK, NetOK
<1>1. CASE Absorbed(m)
  <2>1. IstsOK'
    BY <1>1 DEF Absorbed, TypeOK, IstsOK
  <2> QED
    BY <1>0, <1>1, <2>1 DEF Absorbed, TypeOK, ToldOK, ChansOK
<1>2. CASE NewInvite(m) /\ Declines(m)
  <2>1. IstsOK' /\ ToldOK'
    BY <1>2, NewISTType DEF Declines, NewInvite, TypeOK, IstsOK, ToldOK
  <2> QED
    BY <1>0, <1>2, <2>1 DEF Declines, TypeOK, ChansOK
<1>3. ASSUME NEW n \in Channels, NewInvite(m), Offer(m, n) PROVE TypeOK'
  <2>1. IstsOK' /\ ToldOK'
    BY <1>3, NewISTType DEF Offer, NewInvite, TypeOK, IstsOK, ToldOK
  <2>2. offers' \in [Calls -> Nat] /\ offers'[m.call] > 0 /\ \A c \in Calls : offers'[c] >= offers[c]
    BY <1>3, NewISTType DEF Offer, NewInvite, TypeOK
  <2>3. ChansOK'
    <3> DEFINE d == [state |-> "Ring", call |-> m.call, branch |-> m.branch, tag |-> 0]
    <3>1. m.call \in Calls /\ m.branch \in {"inv", "re"} /\ m.call # None
      BY <1>3, NewISTType, RoutingAssumption DEF NewInvite, TypeOK
    <3>2. d \in Channel /\ d.state # "Ready" /\ d.branch # "none" /\ d.call # None /\ offers'[d.call] > 0
      BY <2>2, <3>1 DEF Channel
    <3>3. chans' = [chans EXCEPT ![n] = d]
      BY <1>3 DEF Offer
    <3>4. \A c \in Calls : offers[c] > 0 => offers'[c] > 0
      BY <2>2 DEF TypeOK
    <3> HIDE DEF d
    <3> QED
      BY <3>2, <3>3, <3>4, OneChannel DEF TypeOK
  <2> QED
    BY <1>0, <2>1, <2>2, <2>3 DEF TypeOK
<1>4. ASSUME NewInvite(m), UNCHANGED offers, NEW n \in Channels, n \in ByDialog(m),
             chans[n].state \in {"Accept", "Setup"}, RingsAgain(m, n) \/ AcceptsAgain(m, n)
      PROVE  TypeOK'
  <2>0. m.tag \in Nat /\ m.tag > 0
    BY <1>4 DEF ByDialog, osip_dialog_match_as_uas, TypeOK, NetOK, Requests
  <2>1. IstsOK' /\ ToldOK'
    <3>1. CASE RingsAgain(m, n)
      BY <1>4, <3>1, NewISTType DEF RingsAgain, NewInvite, TypeOK, IstsOK, ToldOK
    <3>2. CASE AcceptsAgain(m, n)
      <4>1. /\ Response(m.call, m.branch, "2xx", m.tag)
                  \in [call : Calls, branch : {"inv", "re"}, class : {"1xx", "2xx", "3456xx"}, tag : Nat]
            /\ Response(m.call, m.branch, "2xx", m.tag).tag = m.tag
        BY <1>4, NewISTType DEF Response, NewInvite, TypeOK
      <4> QED
        BY <1>4, <2>0, <3>2, <4>1, NewISTType DEF AcceptsAgain, NewInvite, TypeOK, IstsOK, ToldOK
    <3> QED
      BY <1>4, <3>1, <3>2
  <2>2. ChansOK'
    <3>1. PICK s \in {"Ring", "Accept"} :
             chans' = [chans EXCEPT ![n].state = s, ![n].branch = m.branch]
      BY <1>4 DEF RingsAgain, AcceptsAgain
    <3>2. m.branch \in {"inv", "re"}
      BY <1>4, NewISTType DEF NewInvite, TypeOK
    <3> DEFINE d == [chans[n] EXCEPT !.state = s, !.branch = m.branch]
    <3>3. chans' = [chans EXCEPT ![n] = d]
      BY <3>1
    <3>4. chans[n] \in Channel /\ chans[n].call # None /\ offers[chans[n].call] > 0
      BY <1>4 DEF TypeOK, ChansOK, Channel
    <3>5. d \in Channel /\ d.state = s /\ d.branch = m.branch /\ d.call = chans[n].call
      BY <3>2, <3>4 DEF Channel
    <3> HIDE DEF d
    <3> QED
      BY <1>4, <3>2, <3>3, <3>4, <3>5, OneChannel DEF TypeOK
  <2> QED
    BY <1>0, <1>4, <2>1, <2>2 DEF TypeOK
<1>5. CASE cb_ist_rcv_ack(m)
  <2>1. ChansOK'
    BY <1>5 DEF cb_ist_rcv_ack, TypeOK, ChansOK
  <2> QED
    BY <1>0, <1>5, <2>1 DEF cb_ist_rcv_ack, TypeOK, IstsOK, ToldOK
<1>6. ASSUME UNCHANGED offers, NEW n \in Channels, PeerHangup(n) PROVE TypeOK'
  BY <1>0, <1>6, HangupType DEF TypeOK
<1>7. CASE UNCHANGED <<told, ists, chans, offers>>
  BY <1>0, <1>7 DEF TypeOK, IstsOK, ToldOK, ChansOK
<1> QED
  BY <1>1, <1>2, <1>3, <1>4, <1>5, <1>6, <1>7, Received DEF ByDialog

LEMMA TypeNext ==
    ASSUME TypeOK, [Next]_vars
    PROVE  TypeOK'
<1>1. ASSUME NEW c \in Calls, Caller(c) PROVE TypeOK'
  <2>1. PICK m \in Requests : MaySend(m, c)
    BY <1>1, Sent
  <2>2. NetOK'
    BY <2>1 DEF MaySend, Sends, TypeOK, NetOK
  <2> QED
    BY <2>1, <2>2 DEF MaySend, Sends, TypeOK, ToldOK, IstsOK, ChansOK
<1>2. ASSUME NEW m \in net, Receive(m) PROVE TypeOK'
  BY <1>2, ReceiveType
<1>3. CASE TransactionEnds
  BY <1>3 DEF TransactionEnds, TypeOK, NetOK, ToldOK, IstsOK, ChansOK
<1>4. ASSUME NEW n \in Channels, RingBack(n) PROVE TypeOK'
  <2>1. Tag(n) \in Nat
    BY <1>4, ChanType DEF RingBack, Tag, TypeOK
  <2>2. IstsOK' /\ ToldOK'
    BY <1>4, RespondsType DEF RingBack, TypeOK
  <2>3. ChansOK' /\ NetOK'
    BY <1>4, <2>1 DEF RingBack, TypeOK, ChansOK, NetOK
  <2> QED
    BY <1>4, <2>2, <2>3 DEF RingBack, TypeOK
<1>5. ASSUME NEW n \in Channels, Answer(n) PROVE TypeOK'
  <2>1. Tag(n) \in Nat /\ Tag(n) > 0
    BY <1>5, ChanType DEF Answer, Tag, TypeOK
  <2>2. PICK t \in ists, class \in {"2xx", "3456xx"} :
          /\ Responds(t, class, Tag(n))
          /\ chans' = [chans EXCEPT ![n] = IF class = "2xx" THEN [@ EXCEPT !.state = "Accept", !.tag = Tag(n)]
                                           ELSE FreeChannel]
    BY <1>5 DEF Answer
  <2>3. IstsOK' /\ ToldOK'
    BY <2>1, <2>2, RespondsType DEF TypeOK
  <2>4. UNCHANGED offers /\ NetOK'
    BY <1>5 DEF Answer, TypeOK, NetOK
  <2>5. ChansOK'
    <3>1. CASE class = "2xx"
      <4>1. chans' = [chans EXCEPT ![n] = [chans[n] EXCEPT !.state = "Accept", !.tag = Tag(n)]]
        BY <2>2, <3>1
      <4>2. chans[n].state = "Ring"
        BY <1>5 DEF Answer
      <4> QED
        BY <2>1, <2>4, <4>1, <4>2 DEF TypeOK, ChansOK
    <3>2. CASE class # "2xx"
      BY <2>2, <2>4, <3>2, FreedType DEF TypeOK
    <3> QED
      BY <3>1, <3>2
  <2> QED
    BY <2>3, <2>4, <2>5 DEF TypeOK
<1>6. ASSUME NEW n \in Channels, Ends(n) PROVE TypeOK'
  BY <1>6, FreedType DEF Ends, TypeOK, NetOK, ToldOK, IstsOK
<1>7. CASE UNCHANGED vars
  BY <1>7 DEF vars, TypeOK, NetOK, ToldOK, IstsOK, ChansOK
<1> QED
  BY <1>1, <1>2, <1>3, <1>4, <1>5, <1>6, <1>7 DEF Next
-----------------------------------------------------------------------------
(* The map and the ringing channels.                                        *)
MapSound == OneIST /\ RingsForItsInvite

(* The INVITE of a ringing channel gets its final response, and the channel *)
(* stops ringing.                                                           *)
LEMMA FinalMap ==
    ASSUME TypeOK, MapSound, NEW n \in Channels, chans[n].state = "Ring", NEW t \in ists, Holds(n, t),
           NEW class \in {"2xx", "3456xx"}, NEW tag, Responds(t, class, tag),
           NEW d, chans' = [chans EXCEPT ![n] = d], d.state # "Ring"
    PROVE  MapSound'
<1>1. ists' \subseteq (ists \ {t}) \cup {[t EXCEPT !.state = "Completed"]}
  BY DEF Responds, After
<1>2. ists \ {t} \subseteq ists'
  BY DEF Responds
<1>3. OneIST'
  BY <1>1 DEF MapSound, OneIST, TypeOK, IstsOK
<1>4. chans'[n] = d /\ \A k \in Channels : k # n => chans'[k] = chans[k]
  BY DEF TypeOK, ChansOK
<1>5. \A u \in ists' : u.state = "Proceeding" => u \in ists \ {t}
  BY <1>1 DEF TypeOK, IstsOK
<1>6. \A u \in ists : Holds(n, u) => u = t
  BY DEF Holds, MapSound, OneIST
<1>7. \A k \in Channels, u \in ists : k # n => (Holds(k, u) <=> Holds(k, u)')
  BY <1>4 DEF Holds
<1>8. \A u \in ists' : u.state = "Proceeding" => \E k \in Channels : chans'[k].state = "Ring" /\ Holds(k, u)'
  BY <1>4, <1>5, <1>6, <1>7 DEF MapSound, RingsForItsInvite
<1>9. \A k \in Channels : chans'[k].state = "Ring" => \E u \in ists' : u.state = "Proceeding" /\ Holds(k, u)'
  <2> SUFFICES ASSUME NEW k \in Channels, chans'[k].state = "Ring"
               PROVE  \E u \in ists' : u.state = "Proceeding" /\ Holds(k, u)'
    OBVIOUS
  <2>1. k # n /\ chans[k].state = "Ring"
    BY <1>4
  <2>2. PICK u \in ists : u.state = "Proceeding" /\ Holds(k, u)
    BY <2>1 DEF MapSound, RingsForItsInvite
  <2>3. u # t
    BY <2>1, <2>2 DEF Holds
  <2> QED
    BY <1>2, <1>7, <2>1, <2>2, <2>3
<1> QED
  BY <1>3, <1>8, <1>9 DEF MapSound, RingsForItsInvite

(* A channel that does not ring, and after the step does not either.        *)
LEMMA QuietMap ==
    ASSUME TypeOK, MapSound, UNCHANGED ists,
           \A k \in Channels : chans'[k] = chans[k] \/ (chans[k].state # "Ring" /\ chans'[k].state # "Ring")
    PROVE  MapSound'
<1>1. \A k \in Channels, u \in ists : chans[k].state = "Ring" /\ Holds(k, u) => chans'[k].state = "Ring" /\ Holds(k, u)'
  BY DEF Holds
<1>2. \A k \in Channels : chans'[k].state = "Ring" => chans[k].state = "Ring"
  OBVIOUS
<1> QED
  BY <1>1, <1>2 DEF MapSound, OneIST, RingsForItsInvite

(* A channel that did not ring takes an INVITE without a transaction yet.   *)
LEMMA TakenMap ==
    ASSUME TypeOK, MapSound, NEW n \in Channels, chans[n].state # "Ring", NEW m \in net, NewInvite(m),
           NEW d, chans' = [chans EXCEPT ![n] = d], d.state = "Ring", d.call = m.call, d.branch = m.branch,
           ists' = ists \cup {IST(m, n, "Proceeding")}
    PROVE  MapSound'
<1> DEFINE i == IST(m, n, "Proceeding")
<1>1. i.call = m.call /\ i.branch = m.branch /\ i.chan = n /\ i.state = "Proceeding"
  BY DEF IST
<1>2. \A t \in ists : ~(t.call = m.call /\ t.branch = m.branch)
  BY DEF NewInvite, MatchedIST
<1> HIDE DEF i
<1>3. ists' = ists \cup {i}
  BY DEF i
<1>4. OneIST'
  BY <1>1, <1>2, <1>3 DEF MapSound, OneIST
<1>5. chans'[n] = d /\ \A k \in Channels : k # n => chans'[k] = chans[k]
  BY DEF TypeOK, ChansOK
<1>6. Holds(n, i)'
  BY <1>1, <1>5 DEF Holds
<1>7. \A k \in Channels, u \in ists : chans[k].state = "Ring" /\ Holds(k, u) => chans'[k].state = "Ring" /\ Holds(k, u)'
  BY <1>5 DEF Holds
<1>8. RingsForItsInvite'
  BY <1>1, <1>3, <1>5, <1>6, <1>7 DEF MapSound, RingsForItsInvite
<1> QED
  BY <1>4, <1>8 DEF MapSound

(* Steps that touch only transactions with a final response.                *)
LEMMA SettledMap ==
    ASSUME TypeOK, MapSound, UNCHANGED chans, OneIST',
           \A u \in ists' : u.state = "Proceeding" => u \in ists,
           \A u \in ists : u.state = "Proceeding" => u \in ists'
    PROVE  MapSound'
<1>1. \A k \in Channels : \A u : Holds(k, u)' <=> Holds(k, u)
  BY DEF Holds
<1> QED
  BY <1>1 DEF MapSound, RingsForItsInvite

LEMMA HangupMap ==
    ASSUME TypeOK, MapSound, NEW n \in Channels, PeerHangup(n)
    PROVE  MapSound'
<1>1. CASE chans[n].state = "Ring"
  <2>1. PICK t \in ists : Holds(n, t) /\ Responds(t, "3456xx", chans[n].tag)
    BY <1>1 DEF PeerHangup
  <2>2. chans' = [chans EXCEPT ![n] = FreeChannel] /\ FreeChannel.state # "Ring"
    BY <1>1 DEF PeerHangup, FreeChannel
  <2> QED
    BY <1>1, <2>1, <2>2, FinalMap
<1>2. CASE chans[n].state # "Ring"
  <2>1. UNCHANGED ists
    BY <1>2 DEF PeerHangup
  <2>2. \A k \in Channels : chans'[k] = chans[k] \/ (chans[k].state # "Ring" /\ chans'[k].state # "Ring")
    BY <1>2 DEF PeerHangup, FreeChannel, TypeOK, ChansOK
  <2> QED
    BY <2>1, <2>2, QuietMap
<1> QED
  BY <1>1, <1>2

LEMMA ReceiveMap ==
    ASSUME TypeOK, MapSound, NEW m \in net, Receive(m)
    PROVE  MapSound'
<1>1. CASE Absorbed(m)
  <2>1. \A u \in ists' : \E t \in ists :
            u = t \/ (t.state = "Completed" /\ u = [t EXCEPT !.state = "Confirmed"])
    <3> SUFFICES ASSUME NEW u \in ists'
                 PROVE  \E t \in ists :
                            u = t \/ (t.state = "Completed" /\ u = [t EXCEPT !.state = "Confirmed"])
      OBVIOUS
    <3>1. PICK t \in ists : u = IF t \in MatchedIST(m) /\ m.method = "ACK" /\ t.state = "Completed"
                               THEN [t EXCEPT !.state = "Confirmed"] ELSE t
      BY <1>1 DEF Absorbed
    <3>2. u = t \/ (t.state = "Completed" /\ u = [t EXCEPT !.state = "Confirmed"])
      BY <3>1
    <3> QED
      BY <3>2
  <2>2. \A u \in ists' : \E t \in ists : u.call = t.call /\ u.branch = t.branch
    BY <2>1 DEF TypeOK, IstsOK
  <2>3. OneIST'
    <3> SUFFICES ASSUME NEW u \in ists', NEW v \in ists', u.call = v.call, u.branch = v.branch PROVE u = v
      BY DEF OneIST
    <3> DEFINE Image(t) == IF t \in MatchedIST(m) /\ m.method = "ACK" /\ t.state = "Completed"
                           THEN [t EXCEPT !.state = "Confirmed"] ELSE t
    <3>1. PICK t \in ists : u = Image(t)
      BY <1>1 DEF Absorbed
    <3>2. PICK w \in ists : v = Image(w)
      BY <1>1 DEF Absorbed
    <3>3. \A x \in ists : Image(x).call = x.call /\ Image(x).branch = x.branch
      BY DEF TypeOK, IstsOK
    <3>4. t = w
      BY <3>1, <3>2, <3>3 DEF MapSound, OneIST
    <3> QED
      BY <3>1, <3>2, <3>4
  <2>4. \A u \in ists' : u.state = "Proceeding" => u \in ists
    BY <2>1 DEF TypeOK, IstsOK
  <2>5. \A u \in ists : u.state = "Proceeding" => u \in ists'
    BY <1>1 DEF Absorbed
  <2> QED
    BY <1>1, <2>3, <2>4, <2>5, SettledMap DEF Absorbed
<1>2. CASE NewInvite(m) /\ Declines(m)
  <2>1. ists' = ists \cup {IST(m, None, "Completed")}
    BY <1>2, NewISTType DEF Declines, NewInvite, TypeOK
  <2>2. /\ IST(m, None, "Completed").call = m.call /\ IST(m, None, "Completed").branch = m.branch
        /\ IST(m, None, "Completed").state = "Completed"
    BY DEF IST
  <2>3. \A t \in ists : ~(t.call = m.call /\ t.branch = m.branch)
    BY <1>2 DEF NewInvite, MatchedIST
  <2>4. OneIST'
    BY <2>1, <2>2, <2>3 DEF MapSound, OneIST
  <2> QED
    BY <1>2, <2>1, <2>2, <2>4, SettledMap DEF Declines
<1>3. ASSUME NEW n \in Channels, NewInvite(m), Offer(m, n) PROVE MapSound'
  <2> DEFINE d == [state |-> "Ring", call |-> m.call, branch |-> m.branch, tag |-> 0]
  <2>1. d.state = "Ring" /\ d.call = m.call /\ d.branch = m.branch
    OBVIOUS
  <2>2. chans' = [chans EXCEPT ![n] = d] /\ chans[n].state # "Ring" /\ ists' = ists \cup {IST(m, n, "Proceeding")}
    BY <1>3 DEF Offer
  <2> HIDE DEF d
  <2> QED
    BY <1>3, <2>1, <2>2, TakenMap
<1>4. ASSUME NewInvite(m), NEW n \in Channels, n \in ByDialog(m),
             chans[n].state \in {"Accept", "Setup"}, RingsAgain(m, n) PROVE MapSound'
  <2> DEFINE d == [chans[n] EXCEPT !.state = "Ring", !.branch = m.branch]
  <2>1. d.state = "Ring" /\ d.call = m.call /\ d.branch = m.branch
    BY <1>4 DEF ByDialog, osip_dialog_match_as_uas, TypeOK, ChansOK
  <2>2. chans' = [chans EXCEPT ![n] = d] /\ chans[n].state # "Ring" /\ ists' = ists \cup {IST(m, n, "Proceeding")}
    BY <1>4 DEF RingsAgain
  <2> HIDE DEF d
  <2> QED
    BY <1>4, <2>1, <2>2, TakenMap
<1>5. ASSUME NEW n \in Channels, chans[n].state \in {"Accept", "Setup"}, AcceptsAgain(m, n) PROVE MapSound'
  <2>1. UNCHANGED ists
    BY <1>5 DEF AcceptsAgain
  <2>2. \A k \in Channels : chans'[k] = chans[k] \/ (chans[k].state # "Ring" /\ chans'[k].state # "Ring")
    BY <1>5 DEF AcceptsAgain, TypeOK, ChansOK
  <2> QED
    BY <2>1, <2>2, QuietMap
<1>6. CASE cb_ist_rcv_ack(m)
  <2>1. \A k \in Channels : chans'[k] = chans[k] \/ (chans[k].state # "Ring" /\ chans'[k].state # "Ring")
    BY <1>6 DEF cb_ist_rcv_ack, TypeOK, ChansOK
  <2> QED
    BY <1>6, <2>1, QuietMap DEF cb_ist_rcv_ack
<1>7. CASE UNCHANGED <<told, ists, chans, offers>>
  BY <1>7, QuietMap
<1> QED
  BY <1>1, <1>2, <1>3, <1>4, <1>5, <1>6, <1>7, Received, HangupMap DEF ByDialog

LEMMA MapNext ==
    ASSUME TypeOK, MapSound, [Next]_vars
    PROVE  MapSound'
<1>1. ASSUME NEW c \in Calls, Caller(c) PROVE MapSound'
  <2>1. UNCHANGED <<ists, chans>>
    BY <1>1, Sent DEF MaySend, Sends
  <2> QED
    BY <2>1, QuietMap
<1>2. CASE TransactionEnds
  BY <1>2, SettledMap DEF TransactionEnds, MapSound, OneIST
<1>3. ASSUME NEW n \in Channels, RingBack(n) PROVE MapSound'
  <2>1. UNCHANGED ists
    BY <1>3 DEF RingBack, Responds, After
  <2>2. \A k \in Channels : /\ chans'[k].state = chans[k].state /\ chans'[k].call = chans[k].call
                            /\ chans'[k].branch = chans[k].branch
    BY <1>3 DEF RingBack, TypeOK, ChansOK
  <2>3. \A k \in Channels : \A u : Holds(k, u)' <=> Holds(k, u)
    BY <2>2 DEF Holds
  <2> QED
    BY <2>1, <2>2, <2>3 DEF MapSound, OneIST, RingsForItsInvite
<1>4. ASSUME NEW n \in Channels, Answer(n) PROVE MapSound'
  <2>1. PICK t \in ists, class \in {"2xx", "3456xx"} :
          /\ Holds(n, t) /\ Responds(t, class, Tag(n))
          /\ chans' = [chans EXCEPT ![n] = IF class = "2xx" THEN [@ EXCEPT !.state = "Accept", !.tag = Tag(n)]
                                           ELSE FreeChannel]
    BY <1>4 DEF Answer
  <2>0. chans[n].state = "Ring"
    BY <1>4 DEF Answer
  <2> DEFINE d == IF class = "2xx" THEN [chans[n] EXCEPT !.state = "Accept", !.tag = Tag(n)] ELSE FreeChannel
  <2>2. chans' = [chans EXCEPT ![n] = d]
    BY <2>1
  <2>3. d.state # "Ring"
    BY DEF FreeChannel, TypeOK, ChansOK
  <2>4. PICK e : chans' = [chans EXCEPT ![n] = e] /\ e.state # "Ring"
    BY <2>2, <2>3
  <2>5. PICK tag : Responds(t, class, tag)
    BY <2>1
  <2>6. Holds(n, t)
    BY <2>1
  <2> QED
    BY <2>0, <2>4, <2>5, <2>6, FinalMap
<1>5. ASSUME NEW n \in Channels, Ends(n) PROVE MapSound'
  <2>1. \A k \in Channels : chans'[k] = chans[k] \/ (chans[k].state # "Ring" /\ chans'[k].state # "Ring")
    BY <1>5 DEF Ends, FreeChannel, TypeOK, ChansOK
  <2> QED
    BY <1>5, <2>1, QuietMap DEF Ends
<1>6. CASE UNCHANGED vars
  BY <1>6, QuietMap DEF vars
<1> QED
  BY <1>1, <1>2, <1>3, <1>4, <1>5, <1>6, ReceiveMap DEF Next
-----------------------------------------------------------------------------
(* No call on two channels: one channel changes, the others stay.           *)
LEMMA OnceKept ==
    ASSUME ChansOK, NoCallTwice, NEW n \in Channels, NEW d, chans' = [chans EXCEPT ![n] = d],
           \A k \in Channels : k # n /\ chans[k].call = d.call /\ d.call # None
                                  => chans[k].branch = "re" \/ d.branch = "re"
    PROVE  NoCallTwice'
<1>1. chans'[n] = d /\ \A k \in Channels : k # n => chans'[k] = chans[k]
  BY DEF ChansOK
<1> QED
  BY <1>1 DEF NoCallTwice

LEMMA OnceFreed ==
    ASSUME TypeOK, NoCallTwice, NEW n \in Channels, chans' = [chans EXCEPT ![n] = FreeChannel]
    PROVE  NoCallTwice'
<1>1. FreeChannel.call = None
  BY DEF FreeChannel
<1> QED
  BY <1>1, OnceKept DEF TypeOK

LEMMA OnceSame ==
    ASSUME NoCallTwice,
           \A k \in Channels : chans'[k].call = chans[k].call /\ chans'[k].branch = chans[k].branch
    PROVE  NoCallTwice'
  BY DEF NoCallTwice

LEMMA OnceReceived ==
    ASSUME TypeOK, NoCallTwice, NEW m \in net, Receive(m)
    PROVE  NoCallTwice'
<1>1. CASE UNCHANGED chans
  BY <1>1, OnceSame
<1>2. ASSUME NEW n \in Channels, NewInvite(m), ~IsVeryLateInviteRetransform(m), Offer(m, n)
      PROVE  NoCallTwice'
  <2> DEFINE d == [state |-> "Ring", call |-> m.call, branch |-> m.branch, tag |-> 0]
  <2>0. chans' = [chans EXCEPT ![n] = d]
    BY <1>2 DEF Offer
  <2>1. d.call = m.call /\ d.branch = m.branch
    OBVIOUS
  <2>2. m.call # None /\ m.branch \in {"inv", "re"}
    BY <1>2, NewISTType, RoutingAssumption DEF NewInvite, TypeOK
  <2>3. ASSUME m.branch = "inv", NEW k \in Channels, chans[k].call = m.call PROVE chans[k].branch = "re"
    <3>1. chans[k].state # "Ready"
      BY <2>2, <2>3 DEF TypeOK, ChansOK, FreeChannel
    <3>2. chans[k].branch # "inv"
      BY <1>2, <2>3 DEF IsVeryLateInviteRetransform
    <3> QED
      BY <3>1, <3>2, ChanType DEF TypeOK
  <2>4. \A k \in Channels : chans[k].call = d.call => chans[k].branch = "re" \/ d.branch = "re"
    BY <2>1, <2>2, <2>3
  <2> HIDE DEF d
  <2> QED
    BY <2>0, <2>4, OnceKept DEF TypeOK
<1>3. ASSUME NewInvite(m), NEW n \in ByDialog(m), RingsAgain(m, n) \/ AcceptsAgain(m, n)
      PROVE  NoCallTwice'
  <2>1. m.branch = "re" /\ n \in Channels
    BY <1>3 DEF ByDialog, osip_dialog_match_as_uas, NewInvite, TypeOK, NetOK, Requests
  <2>2. PICK s \in {"Ring", "Accept"} : chans' = [chans EXCEPT ![n].state = s, ![n].branch = m.branch]
    BY <1>3 DEF RingsAgain, AcceptsAgain
  <2> DEFINE d == [chans[n] EXCEPT !.state = s, !.branch = m.branch]
  <2>3. chans' = [chans EXCEPT ![n] = d]
    BY <2>2
  <2>4. d.branch = "re"
    BY <2>1 DEF TypeOK, ChansOK
  <2> HIDE DEF d
  <2> QED
    BY <2>1, <2>3, <2>4, OnceKept DEF TypeOK
<1>4. CASE cb_ist_rcv_ack(m)
  <2>1. \A k \in Channels : chans'[k].call = chans[k].call /\ chans'[k].branch = chans[k].branch
    BY <1>4 DEF cb_ist_rcv_ack, TypeOK, ChansOK
  <2> QED
    BY <2>1, OnceSame
<1>5. ASSUME NEW n \in Channels, PeerHangup(n) PROVE NoCallTwice'
  <2>1. UNCHANGED chans \/ chans' = [chans EXCEPT ![n] = FreeChannel]
    BY <1>5 DEF PeerHangup
  <2> QED
    BY <1>1, <2>1, OnceFreed
<1> QED
  BY <1>1, <1>2, <1>3, <1>4, <1>5, Received DEF Absorbed, Declines

LEMMA OnceNext ==
    ASSUME TypeOK, NoCallTwice, [Next]_vars
    PROVE  NoCallTwice'
<1>1. ASSUME NEW c \in Calls, Caller(c) PROVE NoCallTwice'
  BY <1>1, Sent, OnceSame DEF MaySend, Sends
<1>2. CASE TransactionEnds \/ UNCHANGED vars
  BY <1>2, OnceSame DEF TransactionEnds, vars
<1>3. ASSUME NEW n \in Channels, RingBack(n) PROVE NoCallTwice'
  <2>1. \A k \in Channels : chans'[k].call = chans[k].call /\ chans'[k].branch = chans[k].branch
    BY <1>3 DEF RingBack, TypeOK, ChansOK
  <2> QED
    BY <2>1, OnceSame
<1>4. ASSUME NEW n \in Channels, Answer(n) PROVE NoCallTwice'
  <2>1. \/ chans' = [chans EXCEPT ![n] = [chans[n] EXCEPT !.state = "Accept", !.tag = Tag(n)]]
        \/ chans' = [chans EXCEPT ![n] = FreeChannel]
    BY <1>4 DEF Answer
  <2>2. CASE chans' = [chans EXCEPT ![n] = FreeChannel]
    BY <2>2, OnceFreed
  <2>3. CASE chans' = [chans EXCEPT ![n] = [chans[n] EXCEPT !.state = "Accept", !.tag = Tag(n)]]
    <3>1. \A k \in Channels : chans'[k].call = chans[k].call /\ chans'[k].branch = chans[k].branch
      BY <2>3 DEF TypeOK, ChansOK
    <3> QED
      BY <3>1, OnceSame
  <2> QED
    BY <2>1, <2>2, <2>3
<1>5. ASSUME NEW n \in Channels, Ends(n) PROVE NoCallTwice'
  BY <1>5, OnceFreed DEF Ends
<1> QED
  BY <1>1, <1>2, <1>3, <1>4, <1>5, OnceReceived DEF Next
-----------------------------------------------------------------------------
(* The offers.  A step that offers nothing keeps them sound when it keeps   *)
(* the transaction of every INVITE that was not accepted.                   *)
OfferInv == OfferSound /\ OfferedAgainOnlyIfAccepted

Keeps(t) == (\E u \in ists' : u.call = t.call /\ u.branch = t.branch) \/ (t.branch = "inv" => Accepted(t.call)')

LEMMA AcceptedStays ==
    ASSUME told \subseteq told', NEW c, Accepted(c)
    PROVE  Accepted(c)'
  BY DEF Accepted, Answers

LEMMA OffersKept ==
    ASSUME TypeOK, OfferInv, UNCHANGED offers, told \subseteq told', net' \subseteq net,
           \A t \in ists : Keeps(t)
    PROVE  OfferInv'
<1>1. \A c : Accepted(c) => Accepted(c)'
  BY AcceptedStays
<1>2. \A c : Guarded(c) => Guarded(c)' \/ Accepted(c)'
  <2> SUFFICES ASSUME NEW c, Guarded(c), ~Accepted(c)' PROVE Guarded(c)'
    OBVIOUS
  <2>1. CASE \E t \in ists : t.call = c /\ t.branch = "inv"
    <3>1. PICK t \in ists : t.call = c /\ t.branch = "inv"
      BY <2>1
    <3>2. \E u \in ists' : u.call = t.call /\ u.branch = t.branch
      BY <3>1 DEF Keeps
    <3> QED
      BY <3>1, <3>2 DEF Guarded
  <2>2. CASE \A m \in net : ~(m.method = "INVITE" /\ m.call = c /\ m.branch = "inv")
    BY <2>2 DEF Guarded
  <2> QED
    BY <2>1, <2>2 DEF Guarded
<1>3. OfferSound'
  BY <1>1, <1>2 DEF OfferInv, OfferSound
<1>4. \A c \in Calls : offers[c] > 1 => Accepted(c)'
  BY <1>1 DEF OfferInv, OfferedAgainOnlyIfAccepted, Accepted
<1> QED
  BY <1>3, <1>4 DEF OfferInv, OfferedAgainOnlyIfAccepted, Accepted

(* The execution of an IST with a final response keeps it, or accepts.      *)
LEMMA RespondsKeeps ==
    ASSUME TypeOK, NEW t \in ists, NEW class \in {"1xx", "2xx", "3456xx"}, NEW tag, Responds(t, class, tag)
    PROVE  told \subseteq told' /\ \A w \in ists : Keeps(w)
<1>1. told \subseteq told' /\ \A w \in ists : w # t => Keeps(w)
  BY DEF Responds, Keeps
<1>2. CASE class = "1xx"
  BY <1>1, <1>2 DEF Responds, After, Keeps
<1>3. CASE class = "2xx"
  <2>1. Response(t.call, t.branch, "2xx", tag) \in told'
    BY <1>3 DEF Responds
  <2>2. t.branch = "inv" => Accepted(t.call)'
    BY <2>1 DEF Accepted, Answers, Response
  <2> QED
    BY <1>1, <2>2 DEF Keeps
<1>4. CASE class = "3456xx"
  <2>1. [t EXCEPT !.state = "Completed"] \in ists'
    BY <1>4 DEF Responds, After
  <2>2. [t EXCEPT !.state = "Completed"].call = t.call /\ [t EXCEPT !.state = "Completed"].branch = t.branch
    BY DEF TypeOK, IstsOK
  <2> QED
    BY <1>1, <2>1, <2>2 DEF Keeps
<1> QED
  BY <1>2, <1>3, <1>4

(* A new offer is for a call that was never offered, or was accepted.       *)
LEMMA OfferFits ==
    ASSUME TypeOK, OfferInv, NEW m \in net, NewInvite(m)
    PROVE  offers[m.call] = 0 \/ Accepted(m.call)
<1> SUFFICES ASSUME offers[m.call] # 0, ~Accepted(m.call) PROVE FALSE
  OBVIOUS
<1>1. m.call \in Calls /\ m.branch \in {"inv", "re"} /\ m.method = "INVITE"
  BY NewISTType DEF NewInvite, TypeOK
<1>2. m.branch = "inv"
  BY <1>1 DEF OfferInv, OfferSound
<1>3. offers[m.call] > 0
  BY <1>1 DEF TypeOK
<1>4. Guarded(m.call)
  BY <1>1, <1>3 DEF OfferInv, OfferSound
<1>5. \A t \in ists : ~(t.call = m.call /\ t.branch = m.branch)
  BY DEF NewInvite, MatchedIST
<1> QED
  BY <1>1, <1>2, <1>4, <1>5 DEF Guarded

LEMMA OfferMade ==
    ASSUME TypeOK, OfferInv, NEW m \in net, NewInvite(m), NEW n \in Channels, Offer(m, n), UNCHANGED net
    PROVE  OfferInv'
<1>1. m.call \in Calls /\ m.branch \in {"inv", "re"} /\ m.method = "INVITE"
  BY NewISTType DEF NewInvite, TypeOK
<1>2. told \subseteq told' /\ ists \subseteq ists'
  BY DEF Offer
<1>3. \A c : Accepted(c) => Accepted(c)'
  BY <1>2, AcceptedStays
<1>4. \A c : Guarded(c) => Guarded(c)'
  BY <1>2 DEF Guarded
<1>5. /\ offers'[m.call] = offers[m.call] + 1
      /\ \A c \in Calls : c # m.call => offers'[c] = offers[c]
  BY <1>1 DEF Offer, TypeOK
<1>6. \E r \in told' : r.call = m.call
  <2>1. Response(m.call, m.branch, "1xx", 0) \in told'
    BY DEF Offer
  <2>2. Response(m.call, m.branch, "1xx", 0).call = m.call
    BY DEF Response
  <2> QED
    BY <2>1, <2>2
<1>7. m.branch = "inv" => Guarded(m.call)'
  <2>1. IST(m, n, "Proceeding") \in ists'
    BY DEF Offer
  <2>2. IST(m, n, "Proceeding").call = m.call /\ IST(m, n, "Proceeding").branch = m.branch
    BY DEF IST
  <2> QED
    BY <2>1, <2>2 DEF Guarded
<1>8. m.branch = "re" => Accepted(m.call)
  BY <1>1 DEF OfferInv, OfferSound
<1>9. OfferSound'
  BY <1>1, <1>2, <1>3, <1>4, <1>5, <1>6, <1>7, <1>8 DEF OfferInv, OfferSound
<1>10. \A c \in Calls : offers'[c] > 1 => Accepted(c)'
  <2>1. ASSUME offers'[m.call] > 1 PROVE Accepted(m.call)'
    BY <1>1, <1>3, <1>5, <2>1, OfferFits DEF TypeOK
  <2> QED
    BY <1>3, <1>5, <2>1 DEF OfferInv, OfferedAgainOnlyIfAccepted, Accepted
<1> QED
  BY <1>9, <1>10 DEF OfferInv, OfferedAgainOnlyIfAccepted, Accepted

LEMMA OfferReceived ==
    ASSUME TypeOK, OfferInv, NEW m \in net, Receive(m)
    PROVE  OfferInv'
<1>0. UNCHANGED net
  BY Received
<1>1. ASSUME told \subseteq told', ists \subseteq ists', UNCHANGED offers PROVE OfferInv'
  BY <1>0, <1>1, OffersKept DEF Keeps
<1>2. CASE Absorbed(m)
  <2>1. \A t \in ists : Keeps(t)
    <3> SUFFICES ASSUME NEW t \in ists PROVE \E u \in ists' : u.call = t.call /\ u.branch = t.branch
      BY DEF Keeps
    <3> DEFINE u == IF t \in MatchedIST(m) /\ m.method = "ACK" /\ t.state = "Completed"
                    THEN [t EXCEPT !.state = "Confirmed"] ELSE t
    <3>1. u \in ists'
      BY <1>2 DEF Absorbed
    <3>2. u.call = t.call /\ u.branch = t.branch
      BY DEF TypeOK, IstsOK
    <3> QED
      BY <3>1, <3>2
  <2> QED
    BY <1>0, <1>2, <2>1, OffersKept DEF Absorbed
<1>3. CASE NewInvite(m) /\ Declines(m)
  BY <1>1, <1>3 DEF Declines
<1>4. ASSUME NEW n \in Channels, NewInvite(m), Offer(m, n) PROVE OfferInv'
  BY <1>0, <1>4, OfferMade
<1>5. ASSUME UNCHANGED offers, NEW n \in Channels, RingsAgain(m, n) \/ AcceptsAgain(m, n) PROVE OfferInv'
  BY <1>1, <1>5 DEF RingsAgain, AcceptsAgain
<1>6. CASE cb_ist_rcv_ack(m)
  BY <1>1, <1>6 DEF cb_ist_rcv_ack
<1>7. ASSUME UNCHANGED offers, NEW n \in Channels, PeerHangup(n) PROVE OfferInv'
  <2>1. CASE chans[n].state = "Ring"
    <3>1. PICK t \in ists : Responds(t, "3456xx", chans[n].tag)
      BY <1>7, <2>1 DEF PeerHangup
    <3>2. told \subseteq told' /\ \A w \in ists : Keeps(w)
      BY <3>1, RespondsKeeps
    <3> QED
      BY <1>0, <1>7, <3>2, OffersKept
  <2>2. CASE chans[n].state # "Ring"
    <3>1. UNCHANGED <<told, ists>>
      BY <1>7, <2>2 DEF PeerHangup
    <3> QED
      BY <1>1, <1>7, <3>1
  <2> QED
    BY <2>1, <2>2
<1>8. CASE UNCHANGED <<told, ists, chans, offers>>
  BY <1>1, <1>8
<1> QED
  BY <1>2, <1>3, <1>4, <1>5, <1>6, <1>7, <1>8, Received DEF ByDialog

LEMMA OfferNext ==
    ASSUME TypeOK, OfferInv, [Next]_vars
    PROVE  OfferInv'
<1>1. ASSUME NEW c \in Calls, Caller(c) PROVE OfferInv'
  <2>1. PICK m \in Requests : MaySend(m, c)
    BY <1>1, Sent
  <2>2. UNCHANGED <<told, ists, offers>> /\ net' = net \cup {m} /\ m.call = c
    BY <2>1 DEF MaySend, Sends
  <2>3. \A e : Accepted(e)' <=> Accepted(e)
    BY <2>2 DEF Accepted, Answers
  <2>4. m.method = "INVITE" /\ m.branch = "inv" => offers[c] = 0
    BY <2>1 DEF MaySend, OfferInv, OfferSound, TypeOK
  <2>5. \A e \in Calls : offers[e] > 0 /\ Guarded(e) => Guarded(e)'
    BY <2>2, <2>4 DEF Guarded
  <2>6. m.method = "INVITE" /\ m.branch = "re" => Accepted(m.call)
    BY <2>1 DEF MaySend
  <2>7. OfferSound'
    BY <2>2, <2>3, <2>5, <2>6 DEF OfferInv, OfferSound
  <2> QED
    BY <2>2, <2>3, <2>7 DEF OfferInv, OfferedAgainOnlyIfAccepted, Accepted
<1>2. ASSUME NEW m \in net, Receive(m) PROVE OfferInv'
  BY <1>2, OfferReceived
<1>3. CASE TransactionEnds
  <2>1. PICK t \in ists :
           /\ ists' = ists \ {t}
           /\ net' = {m \in net : m.method = "CANCEL" \/ m.call # t.call \/ m.branch # t.branch}
    BY <1>3 DEF TransactionEnds
  <2>2. UNCHANGED <<told, offers>>
    BY <1>3 DEF TransactionEnds
  <2>3. \A c : Accepted(c)' <=> Accepted(c)
    BY <2>2 DEF Accepted, Answers
  <2>4. \A c : Guarded(c) => Guarded(c)'
    BY <2>1 DEF Guarded
  <2>5. OfferSound'
    BY <2>1, <2>2, <2>3, <2>4 DEF OfferInv, OfferSound
  <2> QED
    BY <2>2, <2>3, <2>5 DEF OfferInv, OfferedAgainOnlyIfAccepted, Accepted
<1>4. ASSUME NEW n \in Channels, RingBack(n) \/ Answer(n) PROVE OfferInv'
  <2>0. PICK t \in ists, class \in {"1xx", "2xx", "3456xx"} : \E tag : Responds(t, class, tag)
    BY <1>4 DEF RingBack, Answer
  <2>1. PICK tag : Responds(t, class, tag)
    BY <2>0
  <2>2. told \subseteq told' /\ \A w \in ists : Keeps(w)
    BY <2>1, RespondsKeeps
  <2>3. UNCHANGED <<net, offers>>
    BY <1>4 DEF RingBack, Answer
  <2> QED
    BY <2>2, <2>3, OffersKept
<1>5. ASSUME NEW n \in Channels, Ends(n) PROVE OfferInv'
  BY <1>5, OffersKept DEF Ends, Keeps
<1>6. CASE UNCHANGED vars
  BY <1>6, OffersKept DEF vars, Keeps
<1> QED
  BY <1>1, <1>2, <1>3, <1>4, <1>5, <1>6 DEF Next
-----------------------------------------------------------------------------
(* A request and the channel it changes.                                    *)
LEMMA Crosses ==
    ASSUME TypeOK, NEW m \in net, Receive(m), NEW n \in Channels, chans'[n] # chans[n]
    PROVE  Concerns(m, n)
<1>1. n \in ByDialog(m) => Concerns(m, n)
  BY DEF ByDialog, osip_dialog_match_as_uas, Concerns, TypeOK, NetOK, Requests, ChansOK
<1>2. ASSUME NEW k \in Channels, Offer(m, k), NewInvite(m) PROVE Concerns(m, n)
  <2>1. n = k
    BY <1>2 DEF Offer, TypeOK, ChansOK
  <2> QED
    BY <1>2, <2>1 DEF Offer, Concerns, NewInvite
<1>3. ASSUME NEW k \in ByDialog(m), RingsAgain(m, k) \/ AcceptsAgain(m, k) PROVE Concerns(m, n)
  <2>1. n = k
    BY <1>3 DEF RingsAgain, AcceptsAgain, TypeOK, ChansOK
  <2> QED
    BY <1>1, <1>3, <2>1
<1>4. CASE cb_ist_rcv_ack(m)
  BY <1>1, <1>4 DEF cb_ist_rcv_ack
<1>5. ASSUME NEW k \in Channels, PeerHangup(k),
             k \in ByDialog(m) \/ \E t \in GetMatchedTransForCancel(m) : Holds(k, t)
      PROVE  Concerns(m, n)
  <2>1. n = k
    BY <1>5 DEF PeerHangup, TypeOK, ChansOK
  <2>2. ASSUME NEW t \in GetMatchedTransForCancel(m), Holds(k, t) PROVE Concerns(m, n)
    BY <2>1, <2>2 DEF GetMatchedTransForCancel, Holds, Concerns
  <2> QED
    BY <1>1, <1>5, <2>1, <2>2
<1> QED
  BY <1>2, <1>3, <1>4, <1>5, Received DEF Absorbed, Declines
-----------------------------------------------------------------------------
LEMMA InitInv == Init => IInv
<1> SUFFICES ASSUME Init PROVE IInv
  OBVIOUS
<1>1. TypeOK
  BY DEF Init, TypeOK, NetOK, ToldOK, IstsOK, ChansOK, FreeChannel
<1>2. OneIST /\ RingsForItsInvite
  BY DEF Init, OneIST, RingsForItsInvite, FreeChannel
<1>3. NoCallTwice
  BY DEF Init, NoCallTwice, FreeChannel
<1>4. OfferSound /\ OfferedAgainOnlyIfAccepted
  BY DEF Init, OfferSound, OfferedAgainOnlyIfAccepted
<1> QED
  BY <1>1, <1>2, <1>3, <1>4 DEF IInv

LEMMA NextInv == IInv /\ [Next]_vars => IInv'
  BY TypeNext, MapNext, OnceNext, OfferNext DEF IInv, MapSound, OfferInv

(* The inductive invariant holds in every state, for any calls, channels,   *)
(* scripts and bounds.                                                      *)
THEOREM Inductive == Spec => []IInv
  BY InitInv, NextInv, PTL DEF Spec

(* The types of the requests, transactions and channels; a channel in use   *)
(* carries a call that was offered, and a free one carries none.            *)
THEOREM TypeCorrect == Spec => []TypeOK
<1>1. IInv => TypeOK
  BY DEF IInv
<1> QED
  BY <1>1, Inductive, PTL

(* Every INVITE that waits rings on the channel that holds it, and every    *)
(* ringing channel can answer, whatever copies, CANCELs and re-INVITEs come.*)
THEOREM RingingCanBeAnswered == Spec => []RingsForItsInvite
<1>1. IInv => RingsForItsInvite
  BY DEF IInv
<1> QED
  BY <1>1, Inductive, PTL

(* No call is on two channels because a copy of its INVITE came late, as    *)
(* long as no re-INVITE took the INVITE's place.                            *)
THEOREM OnOneChannel == Spec => []NoCallTwice
<1>1. IInv => NoCallTwice
  BY DEF IInv
<1> QED
  BY <1>1, Inductive, PTL

(* A call that was refused, cancelled or not answered is not offered again. *)
THEOREM NotOfferedAgain == Spec => []OfferedAgainOnlyIfAccepted
<1>1. IInv => OfferedAgainOnlyIfAccepted
  BY DEF IInv
<1> QED
  BY <1>1, Inductive, PTL

(* A request changes only a channel of its own call, or a free one.         *)
THEOREM CrossTalk == Spec => NoCrossTalk
<1>1. IInv /\ [Next]_vars =>
         [\A m \in net : Receive(m) => \A n \in Channels : chans'[n] # chans[n] => Concerns(m, n)]_vars
  BY Crosses DEF IInv
<1> QED
  BY <1>1, Inductive, PTL DEF Spec, NoCrossTalk
=============================================================================
