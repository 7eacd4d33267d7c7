---------------------------- MODULE Proxy_proofs ----------------------------
(***************************************************************************)
(* Proofs about Proxy, for any number of channels and sessions: that the   *)
(* two legs of a bridged call end together, that a call which nobody hears *)
(* of is one that rings, and that a session acts on the call of another    *)
(* only after its own ended without a word.                                *)
(*                                                                         *)
(* A step is a composition of operators on worlds.  Mid is what holds of   *)
(* the world between two of them: X are the sessions that the step has cut *)
(* off and that Lua will collect at its end, A those that may act on the   *)
(* call of another.                                                        *)
(***************************************************************************)
EXTENDS Proxy, TLAPS

Cut == {"timeout", "silent", "robbed"}

Phases == {"idle", "offered", "answered", "trying", "ringing", "talking", "over"}

SessType == [class : {"none", "proxy", "b2b"}, leg : Legs \cup {None}, peer : Sessions \cup {None},
             ended : {"no", "asked", "told", "timeout", "silent", "robbed"}]

Worlds == [phase : [Legs -> Phases], carries : [Legs -> Sessions \cup {None}],
           table : [Legs -> Sessions \cup {None}], sess : [Sessions -> SessType],
           robbed : SUBSET Legs, astray : SUBSET Sessions]

Used(w, s) == w.sess[s].class # "none"

Calling(w, d) == w.phase[d] \in {"trying", "ringing"}

SessOK(w) == \A s \in Sessions : IF Used(w, s) THEN w.sess[s].leg \in Legs ELSE w.sess[s] = Unused

(* A session is in the table, and carries a call, at its own leg only.      *)
TableOK(w) == \A c \in Legs, s \in Sessions : w.table[c] = s => Used(w, s) /\ w.sess[s].leg = c

CarriesOK(w) ==
    \A c \in Legs, s \in Sessions : w.carries[c] = s => Used(w, s) /\ w.sess[s].leg = c /\ w.phase[c] # "idle"

(* Two sessions point at each other, until one of them is terminated.       *)
PeersOK(w) ==
    \A s, q \in Sessions : w.sess[s].peer = q =>
        /\ Used(w, s) /\ Used(w, q) /\ w.sess[q].leg # w.sess[s].leg
        /\ w.sess[q].class # w.sess[s].class
        /\ w.sess[q].peer \in {s, None}
        /\ w.table[w.sess[q].leg] = q => w.sess[q].peer = s
        /\ \A z \in Sessions : w.sess[z].peer = q => z = s

(* A session that goes on hears of its call.                                *)
EndsOK(w, X) ==
    \A s \in Sessions \ X : Used(w, s) =>
        /\ w.sess[s].ended \in Cut \cup {"no"}
        /\ w.sess[s].ended = "no" => w.table[w.sess[s].leg] = s /\ w.carries[w.sess[s].leg] = s

CarriedOK(w, X) ==
    \A c \in Legs, s \in Sessions \ X :
        w.carries[c] = s /\ w.sess[s].ended # "no" => c \in w.robbed \/ w.phase[c] = "over"

OwnedOK(w) ==
    \A c \in Legs : w.phase[c] \notin {"idle", "offered", "over"} /\ c \notin w.robbed
                        => w.table[c] \in Sessions /\ w.carries[c] = w.table[c]

(* While the callee rings, the call of the caller is not answered.          *)
RingsOK(w) ==
    \A d \in Legs, s \in Sessions : Calling(w, d) /\ w.table[d] = s =>
        /\ w.sess[s].class = "b2b"
        /\ \A q \in Sessions :
              w.sess[s].peer = q /\ w.table[w.sess[q].leg] = q /\ w.carries[w.sess[q].leg] = q
                  => w.phase[w.sess[q].leg] \in {"offered", "over"} \/ w.sess[q].leg \in w.robbed

ActsOK(w, A) ==
    /\ w.astray \subseteq A
    /\ \A s \in Sessions \ A : Used(w, s) =>
          w.carries[w.sess[s].leg] = s \/ w.phase[w.sess[s].leg] = "idle"

Mid(w, X, A) ==
    /\ w \in Worlds
    /\ SessOK(w) /\ TableOK(w) /\ CarriesOK(w) /\ PeersOK(w)
    /\ EndsOK(w, X) /\ CarriedOK(w, X) /\ OwnedOK(w) /\ RingsOK(w) /\ ActsOK(w, A)

(* Between two steps nothing is over, and every session is one that Lua     *)
(* can reach.                                                               *)
IInv == /\ Mid(World, {}, Sessions)
        /\ astray \subseteq Sessions
        /\ \A c \in Legs : phase[c] # "over"
        /\ \A s \in Sessions : Used(World, s) => s \in Reachable(World)

(* But for how they ended, the sessions are the same.                       *)
Alike(v, w) ==
    \A s \in Sessions : /\ v.sess[s].class = w.sess[s].class /\ v.sess[s].leg = w.sess[s].leg
                        /\ v.sess[s].peer = w.sess[s].peer
-----------------------------------------------------------------------------
(* The fields of a world.                                                   *)
LEMMA WorldFields ==
    ASSUME NEW w \in Worlds
    PROVE  /\ w.phase \in [Legs -> Phases] /\ w.carries \in [Legs -> Sessions \cup {None}]
           /\ w.table \in [Legs -> Sessions \cup {None}] /\ w.sess \in [Sessions -> SessType]
           /\ w.robbed \subseteq Legs /\ w.astray \subseteq Sessions
           /\ \A s \in Sessions : /\ w.sess[s].class \in {"none", "proxy", "b2b"}
                                  /\ w.sess[s].leg \in Legs \cup {None}
                                  /\ w.sess[s].peer \in Sessions \cup {None}
                                  /\ w.sess[s].ended \in {"no", "asked", "told"} \cup Cut
BY DEF Worlds, SessType, Cut

(* A channel goes on to another phase of its call.                          *)
LEMMA PhaseMid ==
    ASSUME NEW w, NEW X, NEW A, Mid(w, X, A), NEW c \in Legs, NEW p \in Phases, NEW v \in Worlds,
           w.phase[c] \in {"answered", "trying", "ringing", "talking"},
           p \in {"answered", "trying", "ringing", "talking", "offered"},
           p \in {"trying", "ringing"} => w.phase[c] \in {"trying", "ringing"},
           v.phase = [w.phase EXCEPT ![c] = p], v.carries = w.carries, v.table = w.table,
           v.sess = w.sess, v.robbed = w.robbed, v.astray = w.astray
    PROVE  Mid(v, X, A)
<1>1. w \in Worlds /\ w.phase \in [Legs -> Phases]
  BY WorldFields DEF Mid
<1>2. v.phase[c] = p /\ \A d \in Legs : d # c => v.phase[d] = w.phase[d]
  BY <1>1
<1>3. SessOK(v) /\ TableOK(v) /\ PeersOK(v) /\ EndsOK(v, X)
  BY DEF Mid, SessOK, TableOK, PeersOK, EndsOK, Used
<1>4. CarriesOK(v) /\ CarriedOK(v, X) /\ OwnedOK(v)
  BY <1>2 DEF Mid, CarriesOK, CarriedOK, OwnedOK, Used
<1>5. RingsOK(v)
  <2>1. \A d \in Legs : Calling(v, d) => Calling(w, d)
    BY <1>2 DEF Calling
  <2>2. \A d \in Legs : w.phase[d] \in {"offered", "over"} => v.phase[d] \in {"offered", "over"}
    BY <1>2
  <2>3. \A s, q \in Sessions : w.sess[s].peer = q => w.sess[q].leg \in Legs
    BY DEF Mid, PeersOK, SessOK
  <2> QED
    BY <2>1, <2>2, <2>3 DEF Mid, RingsOK
<1>6. ActsOK(v, A)
  <2>1. \A s \in Sessions : Used(w, s) => w.sess[s].leg \in Legs
    BY DEF Mid, SessOK
  <2> QED
    BY <1>2, <2>1 DEF Mid, ActsOK, Used
<1> QED
  BY <1>3, <1>4, <1>5, <1>6 DEF Mid

(* The call of a channel is over, while the application handles it.         *)
LEMMA OverMid ==
    ASSUME NEW w, NEW X, NEW A, Mid(w, X, A), NEW c \in Legs, NEW v \in Worlds, w.phase[c] # "idle",
           v.phase = [w.phase EXCEPT ![c] = "over"], v.carries = w.carries, v.table = w.table,
           v.robbed = w.robbed, v.astray = w.astray, Alike(v, w),
           \A s \in Sessions : w.carries[c] # s => v.sess[s] = w.sess[s],
           \A s \in Sessions \ X : w.carries[c] = s => v.sess[s].ended \in Cut
    PROVE  Mid(v, X, A)
<1>1. w \in Worlds /\ w.phase \in [Legs -> Phases]
  BY WorldFields DEF Mid
<1>2. v.phase[c] = "over" /\ \A d \in Legs : d # c => v.phase[d] = w.phase[d]
  BY <1>1
<1>3. \A s \in Sessions : Used(v, s) = Used(w, s)
  BY DEF Used, Alike
<1>4. SessOK(v)
  <2>1. \A s \in Sessions : ~Used(w, s) => w.carries[c] # s
    BY DEF Mid, CarriesOK
  <2> QED
    BY <1>3, <2>1 DEF Mid, SessOK, Alike
<1>5. TableOK(v) /\ CarriesOK(v)
  BY <1>2, <1>3 DEF Mid, TableOK, CarriesOK, Alike
<1>6. PeersOK(v)
  BY <1>3 DEF Mid, PeersOK, Alike
<1>7. EndsOK(v, X)
  <2> SUFFICES ASSUME NEW s \in Sessions \ X, Used(v, s)
               PROVE  /\ v.sess[s].ended \in Cut \cup {"no"}
                      /\ v.sess[s].ended = "no" => v.table[v.sess[s].leg] = s /\ v.carries[v.sess[s].leg] = s
    BY DEF EndsOK
  <2>1. CASE w.carries[c] = s
    BY <2>1 DEF Cut
  <2>2. CASE w.carries[c] # s
    BY <1>3, <2>2 DEF Mid, EndsOK
  <2> QED
    BY <2>1, <2>2
<1>8. CarriedOK(v, X)
  <2> SUFFICES ASSUME NEW d \in Legs, NEW s \in Sessions \ X, v.carries[d] = s, v.sess[s].ended # "no"
               PROVE  d \in v.robbed \/ v.phase[d] = "over"
    BY DEF CarriedOK
  <2>1. CASE d = c
    BY <1>2, <2>1
  <2>2. CASE d # c
    <3>1. w.carries[c] # s
      BY <2>2 DEF Mid, CarriesOK
    <3> QED
      BY <1>2, <2>2, <3>1 DEF Mid, CarriedOK
  <2> QED
    BY <2>1, <2>2
<1>9. OwnedOK(v)
  BY <1>2 DEF Mid, OwnedOK
<1>10. RingsOK(v)
  <2>1. \A d \in Legs : Calling(v, d) => Calling(w, d)
    BY <1>2 DEF Calling
  <2>2. \A d \in Legs : w.phase[d] \in {"offered", "over"} => v.phase[d] \in {"offered", "over"}
    BY <1>2
  <2>3. \A s, q \in Sessions : w.sess[s].peer = q => w.sess[q].leg \in Legs
    BY DEF Mid, PeersOK, SessOK
  <2> QED
    BY <2>1, <2>2, <2>3 DEF Mid, RingsOK, Alike
<1>11. ActsOK(v, A)
  <2>1. \A s \in Sessions : Used(w, s) => w.sess[s].leg \in Legs
    BY DEF Mid, SessOK
  <2> QED
    BY <1>2, <1>3, <2>1 DEF Mid, ActsOK, Alike
<1> QED
  BY <1>4, <1>5, <1>6, <1>7, <1>8, <1>9, <1>10, <1>11 DEF Mid

(* A channel is freed, and the session it carried knows.                    *)
LEMMA FreedMid ==
    ASSUME NEW w, NEW X, NEW A, Mid(w, X, A), NEW c \in Legs, NEW v \in Worlds,
           v.phase = [w.phase EXCEPT ![c] = "idle"], v.carries = [w.carries EXCEPT ![c] = None],
           v.table = w.table, v.robbed = w.robbed \ {c}, v.astray = w.astray, Alike(v, w),
           \A s \in Sessions : w.carries[c] # s => v.sess[s] = w.sess[s],
           \A s \in Sessions \ X : w.carries[c] = s => v.sess[s].ended \in Cut
    PROVE  Mid(v, X, A)
<1>1. w \in Worlds /\ w.phase \in [Legs -> Phases] /\ w.carries \in [Legs -> Sessions \cup {None}]
  BY WorldFields DEF Mid
<1>2. /\ v.phase[c] = "idle" /\ \A d \in Legs : d # c => v.phase[d] = w.phase[d]
      /\ v.carries[c] = None /\ \A d \in Legs : d # c => v.carries[d] = w.carries[d]
      /\ None \notin Sessions
  BY <1>1, ProxyAssumption
<1>3. \A s \in Sessions : Used(v, s) = Used(w, s)
  BY DEF Used, Alike
<1>4. SessOK(v)
  <2>1. \A s \in Sessions : ~Used(w, s) => w.carries[c] # s
    BY DEF Mid, CarriesOK
  <2> QED
    BY <1>3, <2>1 DEF Mid, SessOK, Alike
<1>5. TableOK(v) /\ CarriesOK(v)
  BY <1>2, <1>3 DEF Mid, TableOK, CarriesOK, Alike
<1>6. PeersOK(v)
  BY <1>3 DEF Mid, PeersOK, Alike
<1>7. EndsOK(v, X)
  <2> SUFFICES ASSUME NEW s \in Sessions \ X, Used(v, s)
               PROVE  /\ v.sess[s].ended \in Cut \cup {"no"}
                      /\ v.sess[s].ended = "no" => v.table[v.sess[s].leg] = s /\ v.carries[v.sess[s].leg] = s
    BY DEF EndsOK
  <2>1. CASE w.carries[c] = s
    BY <2>1 DEF Cut
  <2>2. CASE w.carries[c] # s
    <3>1. w.sess[s].leg \in Legs
      BY <1>3 DEF Mid, SessOK
    <3>2. /\ w.sess[s].ended \in Cut \cup {"no"}
          /\ w.sess[s].ended = "no" => w.table[w.sess[s].leg] = s /\ w.carries[w.sess[s].leg] = s
      BY <1>3 DEF Mid, EndsOK
    <3> QED
      BY <1>2, <2>2, <3>1, <3>2
  <2> QED
    BY <2>1, <2>2
<1>8. CarriedOK(v, X)
  <2> SUFFICES ASSUME NEW d \in Legs, NEW s \in Sessions \ X, v.carries[d] = s, v.sess[s].ended # "no"
               PROVE  d \in v.robbed \/ v.phase[d] = "over"
    BY DEF CarriedOK
  <2>1. d # c
    BY <1>2
  <2>2. w.carries[c] # s
    BY <1>2, <2>1 DEF Mid, CarriesOK
  <2> QED
    BY <1>2, <2>1, <2>2 DEF Mid, CarriedOK
<1>9. OwnedOK(v)
  BY <1>2 DEF Mid, OwnedOK
<1>10. RingsOK(v)
  <2>1. \A d \in Legs : Calling(v, d) => Calling(w, d)
    BY <1>2 DEF Calling
  <2>2. \A d \in Legs, q \in Sessions : v.carries[d] = q => d # c
    BY <1>2
  <2>3. \A s, q \in Sessions : w.sess[s].peer = q => w.sess[q].leg \in Legs
    BY DEF Mid, PeersOK, SessOK
  <2> SUFFICES ASSUME NEW d \in Legs, NEW s \in Sessions, Calling(v, d), v.table[d] = s
               PROVE  /\ v.sess[s].class = "b2b"
                      /\ \A q \in Sessions :
                            v.sess[s].peer = q /\ v.table[v.sess[q].leg] = q /\ v.carries[v.sess[q].leg] = q
                                => v.phase[v.sess[q].leg] \in {"offered", "over"} \/ v.sess[q].leg \in v.robbed
    BY DEF RingsOK
  <2>4. v.sess[s].class = "b2b"
    BY <2>1 DEF Mid, RingsOK, Alike
  <2>5. ASSUME NEW q \in Sessions, v.sess[s].peer = q, v.table[v.sess[q].leg] = q, v.carries[v.sess[q].leg] = q
        PROVE  v.phase[v.sess[q].leg] \in {"offered", "over"} \/ v.sess[q].leg \in v.robbed
    <3>1. w.sess[s].peer = q /\ w.sess[q].leg = v.sess[q].leg /\ v.sess[q].leg \in Legs
      BY <2>3, <2>5 DEF Alike
    <3>2. v.sess[q].leg # c /\ w.carries[w.sess[q].leg] = q /\ w.table[w.sess[q].leg] = q
      BY <1>2, <2>2, <2>5, <3>1
    <3>3. w.phase[w.sess[q].leg] \in {"offered", "over"} \/ w.sess[q].leg \in w.robbed
      BY <2>1, <3>1, <3>2 DEF Mid, RingsOK
    <3> QED
      BY <1>2, <3>1, <3>2, <3>3
  <2> QED
    BY <2>4, <2>5
<1>11. ActsOK(v, A)
  <2>1. \A s \in Sessions : Used(w, s) => w.sess[s].leg \in Legs
    BY DEF Mid, SessOK
  <2> QED
    BY <1>2, <1>3, <2>1 DEF Mid, ActsOK, Alike
<1> QED
  BY <1>4, <1>5, <1>6, <1>7, <1>8, <1>9, <1>10, <1>11 DEF Mid

(* More is robbed, and a session that may goes astray.                      *)
LEMMA RobbedMid ==
    ASSUME NEW w, NEW X, NEW A, Mid(w, X, A), NEW v \in Worlds,
           v.phase = w.phase, v.carries = w.carries, v.table = w.table, v.sess = w.sess,
           w.robbed \subseteq v.robbed, v.astray \subseteq A
    PROVE  Mid(v, X, A)
<1>1. SessOK(v) /\ TableOK(v) /\ PeersOK(v) /\ EndsOK(v, X) /\ CarriesOK(v)
  BY DEF Mid, SessOK, TableOK, PeersOK, EndsOK, CarriesOK, Used
<1>2. CarriedOK(v, X) /\ OwnedOK(v) /\ ActsOK(v, A)
  BY DEF Mid, CarriedOK, OwnedOK, ActsOK, Used
<1>3. RingsOK(v)
  BY DEF Mid, RingsOK, Calling
<1> QED
  BY <1>1, <1>2, <1>3 DEF Mid

(* The call of a channel is answered by session q, or robbed by it, when no *)
(* other session that rings has q for its peer.                             *)
LEMMA AnsweredMid ==
    ASSUME NEW w, NEW X, NEW A, Mid(w, X, A), NEW c \in Legs, NEW q \in Sessions \ X, NEW v \in Worlds,
           w.phase[c] = "offered", w.carries[c] = q \/ c \in w.robbed,
           \A d \in Legs, s \in Sessions : Calling(w, d) /\ w.table[d] = s => w.sess[s].peer # q,
           v.phase = [w.phase EXCEPT ![c] = "answered"], v.carries = w.carries, v.table = w.table,
           v.sess = w.sess, v.robbed = w.robbed, v.astray = w.astray
    PROVE  Mid(v, X, A)
<1>1. w \in Worlds /\ w.phase \in [Legs -> Phases]
  BY WorldFields DEF Mid
<1>2. v.phase[c] = "answered" /\ \A d \in Legs : d # c => v.phase[d] = w.phase[d]
  BY <1>1
<1>3. SessOK(v) /\ TableOK(v) /\ PeersOK(v) /\ EndsOK(v, X)
  BY DEF Mid, SessOK, TableOK, PeersOK, EndsOK, Used
<1>4. CarriesOK(v) /\ CarriedOK(v, X)
  BY <1>2 DEF Mid, CarriesOK, CarriedOK, Used
<1>5. w.carries[c] = q => c \in w.robbed \/ w.table[c] = q
  BY DEF Mid, EndsOK, CarriedOK, CarriesOK
<1>6. OwnedOK(v)
  BY <1>2, <1>5 DEF Mid, OwnedOK
<1>7. RingsOK(v)
  <2>1. \A d \in Legs : Calling(v, d) => Calling(w, d)
    BY <1>2 DEF Calling
  <2>2. \A s, z \in Sessions : w.sess[s].peer = z => w.sess[z].leg \in Legs
    BY DEF Mid, PeersOK, SessOK
  <2>3. \A z \in Sessions : z # q /\ w.carries[c] = z => c \in w.robbed
    OBVIOUS
  <2> QED
    BY <1>2, <2>1, <2>2, <2>3 DEF Mid, RingsOK
<1>8. ActsOK(v, A)
  <2>1. \A s \in Sessions : Used(w, s) => w.sess[s].leg \in Legs
    BY DEF Mid, SessOK
  <2> QED
    BY <1>2, <2>1 DEF Mid, ActsOK, Used
<1> QED
  BY <1>3, <1>4, <1>6, <1>7, <1>8 DEF Mid

(* Session s has left the table and its peer; another that had its place    *)
(* was robbed.                                                              *)
LEMMA LeftMid ==
    ASSUME NEW w, NEW X, NEW A, Mid(w, X, A), NEW s \in Sessions, Used(w, s), NEW c \in Legs, w.sess[s].leg = c,
           s \in X \/ w.sess[s].ended \in Cut,
           w.table[c] = s => w.phase[c] \in {"idle", "offered", "over"} \/ c \in w.robbed,
           NEW v \in Worlds, v.phase = w.phase, v.carries = w.carries, v.astray = w.astray,
           v.table = [w.table EXCEPT ![c] = None], v.sess[s] = [w.sess[s] EXCEPT !.peer = None],
           \A z \in Sessions \ {s} :
               /\ v.sess[z].class = w.sess[z].class /\ v.sess[z].leg = w.sess[z].leg
               /\ v.sess[z].peer = w.sess[z].peer
               /\ w.table[c] # z => v.sess[z] = w.sess[z]
               /\ w.table[c] = z => /\ v.sess[z].ended = IF w.sess[z].ended = "no" THEN "robbed" ELSE w.sess[z].ended
                                    /\ w.phase[c] # "idle" => c \in v.robbed,
           w.robbed \subseteq v.robbed
    PROVE  Mid(v, X, A)
<1>1. w \in Worlds /\ w.table \in [Legs -> Sessions \cup {None}] /\ w.sess[s] \in SessType /\ None \notin Sessions
  BY WorldFields, ProxyAssumption DEF Mid
<1>2. /\ v.table[c] = None /\ \A d \in Legs : d # c => v.table[d] = w.table[d]
      /\ v.sess[s].class = w.sess[s].class /\ v.sess[s].leg = c /\ v.sess[s].peer = None
      /\ v.sess[s].ended = w.sess[s].ended
  BY <1>1 DEF SessType
<1>3. \A z \in Sessions : /\ Used(v, z) = Used(w, z) /\ v.sess[z].leg = w.sess[z].leg
                          /\ v.sess[z].class = w.sess[z].class
                          /\ v.sess[z].peer = IF z = s THEN None ELSE w.sess[z].peer
  BY <1>2 DEF Used
<1>4. SessOK(v)
  <2>1. \A z \in Sessions : ~Used(w, z) => z # s /\ w.table[c] # z
    BY DEF Mid, TableOK
  <2> QED
    BY <1>3, <2>1 DEF Mid, SessOK
<1>5. TableOK(v) /\ CarriesOK(v)
  BY <1>1, <1>2, <1>3 DEF Mid, TableOK, CarriesOK
<1>6. PeersOK(v)
  <2> SUFFICES ASSUME NEW z \in Sessions, NEW q \in Sessions, v.sess[z].peer = q
               PROVE  /\ Used(v, z) /\ Used(v, q) /\ v.sess[q].leg # v.sess[z].leg
                      /\ v.sess[q].class # v.sess[z].class
                      /\ v.sess[q].peer \in {z, None}
                      /\ v.table[v.sess[q].leg] = q => v.sess[q].peer = z
                      /\ \A y \in Sessions : v.sess[y].peer = q => y = z
    BY DEF PeersOK
  <2>1. z # s /\ w.sess[z].peer = q
    BY <1>1, <1>3
  <2>2. /\ Used(w, z) /\ Used(w, q) /\ w.sess[q].leg # w.sess[z].leg
        /\ w.sess[q].class # w.sess[z].class
        /\ w.sess[q].peer \in {z, None}
        /\ w.table[w.sess[q].leg] = q => w.sess[q].peer = z
        /\ \A y \in Sessions : w.sess[y].peer = q => y = z
    BY <2>1 DEF Mid, PeersOK
  <2>3. v.sess[q].leg \in Legs /\ v.sess[q].leg = w.sess[q].leg
    BY <1>3, <2>2 DEF Mid, SessOK
  <2>4. v.table[v.sess[q].leg] = q => q # s /\ w.table[w.sess[q].leg] = q
    BY <1>1, <1>2, <2>3
  <2>5. \A y \in Sessions : v.sess[y].peer = q => w.sess[y].peer = q
    BY <1>1, <1>3
  <2> QED
    BY <1>1, <1>3, <2>2, <2>4, <2>5
<1>7. EndsOK(v, X)
  <2> SUFFICES ASSUME NEW z \in Sessions \ X, Used(v, z)
               PROVE  /\ v.sess[z].ended \in Cut \cup {"no"}
                      /\ v.sess[z].ended = "no" => v.table[v.sess[z].leg] = z /\ v.carries[v.sess[z].leg] = z
    BY DEF EndsOK
  <2>1. /\ w.sess[z].ended \in Cut \cup {"no"}
        /\ w.sess[z].ended = "no" => w.table[w.sess[z].leg] = z /\ w.carries[w.sess[z].leg] = z
    BY <1>3 DEF Mid, EndsOK
  <2>2. CASE z = s
    BY <1>2, <2>2 DEF Cut
  <2>3. CASE z # s /\ w.table[c] = z
    BY <2>1, <2>3 DEF Cut
  <2>4. CASE z # s /\ w.table[c] # z
    <3>1. w.sess[z].leg \in Legs
      BY <1>3 DEF Mid, SessOK
    <3> QED
      BY <1>2, <2>1, <2>4, <3>1
  <2> QED
    BY <2>2, <2>3, <2>4
<1>8. CarriedOK(v, X)
  <2> SUFFICES ASSUME NEW d \in Legs, NEW z \in Sessions \ X, v.carries[d] = z, v.sess[z].ended # "no"
               PROVE  d \in v.robbed \/ v.phase[d] = "over"
    BY DEF CarriedOK
  <2>1. w.carries[d] = z /\ w.sess[z].leg = d /\ w.phase[d] # "idle"
    BY DEF Mid, CarriesOK
  <2>2. CASE z # s /\ w.table[c] = z
    <3>1. d = c
      BY <2>1, <2>2 DEF Mid, TableOK
    <3> QED
      BY <2>1, <2>2, <3>1
  <2>3. CASE z = s \/ w.table[c] # z
    <3>1. w.sess[z].ended # "no"
      BY <1>2, <2>3
    <3> QED
      BY <2>1, <3>1 DEF Mid, CarriedOK
  <2> QED
    BY <2>2, <2>3
<1>9. OwnedOK(v)
  <2> SUFFICES ASSUME NEW d \in Legs, v.phase[d] \notin {"idle", "offered", "over"}, d \notin v.robbed
               PROVE  v.table[d] \in Sessions /\ v.carries[d] = v.table[d]
    BY DEF OwnedOK
  <2>1. w.table[d] \in Sessions /\ w.carries[d] = w.table[d]
    BY DEF Mid, OwnedOK
  <2>2. d # c
    BY <2>1
  <2> QED
    BY <1>2, <2>1, <2>2
<1>10. RingsOK(v)
  <2> SUFFICES ASSUME NEW d \in Legs, NEW z \in Sessions, Calling(v, d), v.table[d] = z
               PROVE  /\ v.sess[z].class = "b2b"
                      /\ \A q \in Sessions :
                            v.sess[z].peer = q /\ v.table[v.sess[q].leg] = q /\ v.carries[v.sess[q].leg] = q
                                => v.phase[v.sess[q].leg] \in {"offered", "over"} \/ v.sess[q].leg \in v.robbed
    BY DEF RingsOK
  <2>1. d # c /\ w.table[d] = z /\ Calling(w, d)
    BY <1>1, <1>2 DEF Calling
  <2>2. v.sess[z].class = "b2b"
    BY <1>3, <2>1 DEF Mid, RingsOK
  <2>3. ASSUME NEW q \in Sessions, v.sess[z].peer = q, v.table[v.sess[q].leg] = q, v.carries[v.sess[q].leg] = q
        PROVE  v.phase[v.sess[q].leg] \in {"offered", "over"} \/ v.sess[q].leg \in v.robbed
    <3>1. w.sess[z].peer = q /\ w.sess[q].leg = v.sess[q].leg
      BY <1>1, <1>3, <2>3
    <3>2. w.sess[q].leg \in Legs
      BY <3>1 DEF Mid, PeersOK, SessOK
    <3>3. w.table[w.sess[q].leg] = q /\ w.carries[w.sess[q].leg] = q
      BY <1>1, <1>2, <2>3, <3>1, <3>2
    <3>4. w.phase[w.sess[q].leg] \in {"offered", "over"} \/ w.sess[q].leg \in w.robbed
      BY <2>1, <3>1, <3>3 DEF Mid, RingsOK
    <3> QED
      BY <3>1, <3>4
  <2> QED
    BY <2>2, <2>3
<1>11. ActsOK(v, A)
  BY <1>3 DEF Mid, ActsOK
<1> QED
  BY <1>4, <1>5, <1>6, <1>7, <1>8, <1>9, <1>10, <1>11 DEF Mid
-----------------------------------------------------------------------------
(* What a session learns of its call.                                       *)
LEMMA ClosesFields ==
    ASSUME NEW w \in Worlds, NEW s \in Sessions, NEW how \in {"asked", "told", "timeout", "silent", "robbed"}
    PROVE  LET v == Closes(w, s, how)
           IN  /\ v \in Worlds /\ Alike(v, w)
               /\ v.phase = w.phase /\ v.carries = w.carries /\ v.table = w.table
               /\ v.robbed = w.robbed /\ v.astray = w.astray
               /\ v.sess[s].ended = IF w.sess[s].ended = "no" THEN how ELSE w.sess[s].ended
               /\ \A z \in Sessions \ {s} : v.sess[z] = w.sess[z]
  BY DEF Closes, Worlds, SessType, Alike

(* What the session that a channel carries gets to know of the end.         *)
LEMMA EndsFields ==
    ASSUME NEW w \in Worlds, NEW c \in Legs, NEW how \in {"asked", "told", "timeout", "silent", "robbed"}
    PROVE  LET v == Ends(w, c, how)
           IN  /\ v \in Worlds /\ Alike(v, w)
               /\ v.phase = w.phase /\ v.carries = w.carries /\ v.table = w.table
               /\ v.robbed = w.robbed /\ v.astray = w.astray
               /\ \A s \in Sessions :
                     /\ w.carries[c] # s => v.sess[s] = w.sess[s]
                     /\ w.carries[c] = s =>
                          v.sess[s].ended = IF w.sess[s].ended = "no" THEN how ELSE w.sess[s].ended
<1>1. CASE w.carries[c] = None
  <2>1. Ends(w, c, how) = w
    BY <1>1 DEF Ends
  <2> QED
    BY <1>1, <2>1, ProxyAssumption DEF Alike
<1>2. CASE w.carries[c] # None
  <2>1. PICK y \in Sessions : y = w.carries[c]
    BY <1>2, WorldFields
  <2>2. Ends(w, c, how) = Closes(w, y, how)
    BY <1>2, <2>1 DEF Ends
  <2> DEFINE v == Closes(w, y, how)
  <2>3. /\ v \in Worlds /\ Alike(v, w)
        /\ v.phase = w.phase /\ v.carries = w.carries /\ v.table = w.table
        /\ v.robbed = w.robbed /\ v.astray = w.astray
        /\ v.sess[y].ended = IF w.sess[y].ended = "no" THEN how ELSE w.sess[y].ended
        /\ \A z \in Sessions \ {y} : v.sess[z] = w.sess[z]
    BY ClosesFields
  <2> HIDE DEF v
  <2>4. \A z \in Sessions :
           /\ w.carries[c] # z => v.sess[z] = w.sess[z]
           /\ w.carries[c] = z =>
                v.sess[z].ended = IF w.sess[z].ended = "no" THEN how ELSE w.sess[z].ended
    BY <2>1, <2>3
  <2> QED
    BY <2>2, <2>3, <2>4 DEF v
<1> QED
  BY <1>1, <1>2

(* A channel is free again.                                                 *)
LEMMA FreesFields ==
    ASSUME NEW w \in Worlds, NEW c \in Legs
    PROVE  LET v == Frees(w, c)
           IN  /\ v \in Worlds
               /\ v.phase = [w.phase EXCEPT ![c] = "idle"] /\ v.carries = [w.carries EXCEPT ![c] = None]
               /\ v.table = w.table /\ v.sess = w.sess /\ v.robbed = w.robbed \ {c} /\ v.astray = w.astray
  BY DEF Frees, Worlds, Phases

(* A channel is freed by a session that is told so, or by another.          *)
LEMMA EndsByMid ==
    ASSUME NEW w, NEW X, NEW A, Mid(w, X, A), NEW c \in Legs, NEW s \in Sessions,
           s \in X \/ w.sess[s].ended # "no"
    PROVE  LET v == EndsBy(w, c, s)
           IN  /\ Mid(v, X, A) /\ Alike(v, w) /\ v.table = w.table
               /\ v.phase = [w.phase EXCEPT ![c] = "idle"]
               /\ \A z \in Sessions : w.sess[z].ended # "no" => v.sess[z].ended = w.sess[z].ended
<1> DEFINE how == IF w.carries[c] = s THEN "asked" ELSE "robbed"
           u == Ends(w, c, how)
           v == Frees(u, c)
<1>0. w \in Worlds /\ how \in {"asked", "told", "timeout", "silent", "robbed"}
  BY DEF Mid
<1>1. /\ u \in Worlds /\ Alike(u, w)
      /\ u.phase = w.phase /\ u.carries = w.carries /\ u.table = w.table
      /\ u.robbed = w.robbed /\ u.astray = w.astray
      /\ \A z \in Sessions :
            /\ w.carries[c] # z => u.sess[z] = w.sess[z]
            /\ w.carries[c] = z => u.sess[z].ended = IF w.sess[z].ended = "no" THEN how ELSE w.sess[z].ended
  <2> HIDE DEF how
  <2> QED
    BY <1>0, EndsFields
<1>2. EndsBy(w, c, s) = v
  BY DEF EndsBy
<1> HIDE DEF u
<1>3. /\ v \in Worlds
      /\ v.phase = [w.phase EXCEPT ![c] = "idle"] /\ v.carries = [w.carries EXCEPT ![c] = None]
      /\ v.table = w.table /\ v.sess = u.sess /\ v.robbed = w.robbed \ {c} /\ v.astray = w.astray
  BY <1>1, FreesFields
<1> HIDE DEF v
<1>4. Alike(v, w)
  BY <1>1, <1>3 DEF Alike
<1>5. \A z \in Sessions \ X : w.carries[c] = z => v.sess[z].ended \in Cut
  <2> SUFFICES ASSUME NEW z \in Sessions \ X, w.carries[c] = z PROVE v.sess[z].ended \in Cut
    OBVIOUS
  <2>1. v.sess[z].ended = IF w.sess[z].ended = "no" THEN how ELSE w.sess[z].ended
    BY <1>1, <1>3
  <2>2. w.sess[z].ended \in Cut \cup {"no"}
    BY DEF Mid, CarriesOK, EndsOK
  <2>3. w.sess[z].ended = "no" => how = "robbed"
    OBVIOUS
  <2> QED
    BY <2>1, <2>2, <2>3 DEF Cut
<1>6. \A z \in Sessions : w.carries[c] # z => v.sess[z] = w.sess[z]
  BY <1>1, <1>3
<1>7. Mid(v, X, A)
  BY <1>3, <1>4, <1>5, <1>6, FreedMid
<1>8. \A z \in Sessions : w.sess[z].ended # "no" => v.sess[z].ended = w.sess[z].ended
  BY <1>1, <1>3
<1> QED
  BY <1>2, <1>3, <1>4, <1>7, <1>8

(* An API call of session s arrives at the channel the session remembers.   *)
LEMMA ReachesMid ==
    ASSUME NEW w, NEW X, NEW A, Mid(w, X, A), NEW s \in Sessions, Used(w, s)
    PROVE  LET v == Reaches(w, s)
           IN  /\ Mid(v, X, A)
               /\ v.phase = w.phase /\ v.carries = w.carries /\ v.table = w.table /\ v.sess = w.sess
               /\ w.robbed \subseteq v.robbed
               /\ w.phase[w.sess[s].leg] # "idle" /\ w.carries[w.sess[s].leg] # s => w.sess[s].leg \in v.robbed
<1> DEFINE c == w.sess[s].leg
           v == Reaches(w, s)
<1>0. w \in Worlds /\ c \in Legs
  BY DEF Mid, SessOK
<1>1. CASE w.phase[c] # "idle" /\ w.carries[c] # s
  <2>1. v = [w EXCEPT !.astray = @ \cup {s}, !.robbed = @ \cup {c}]
    BY <1>1 DEF Reaches
  <2>2. /\ v \in Worlds /\ v.phase = w.phase /\ v.carries = w.carries /\ v.table = w.table
        /\ v.sess = w.sess /\ v.robbed = w.robbed \cup {c} /\ v.astray = w.astray \cup {s}
    <3> HIDE DEF c, v
    <3> QED
      BY <1>0, <2>1 DEF Worlds
  <2>3. s \in A
    BY <1>1 DEF Mid, ActsOK
  <2> HIDE DEF v
  <2>4. v.astray \subseteq A
    BY <2>2, <2>3 DEF Mid, ActsOK
  <2>5. Mid(v, X, A)
    BY <2>2, <2>4, RobbedMid
  <2> QED
    BY <2>2, <2>5 DEF v
<1>2. CASE ~(w.phase[c] # "idle" /\ w.carries[c] # s)
  <2>1. v = w
    BY <1>2 DEF Reaches
  <2> QED
    BY <1>2, <2>1
<1> QED
  BY <1>1, <1>2

(* A session is gone from the table and has no peer; only its own channel   *)
(* changed, if any.                                                         *)
Leaves(v, w, s) ==
    /\ v.table = [w.table EXCEPT ![w.sess[s].leg] = None]
    /\ \A d \in Legs : d # w.sess[s].leg => v.phase[d] = w.phase[d]
    /\ \A z \in Sessions : /\ v.sess[z].class = w.sess[z].class /\ v.sess[z].leg = w.sess[z].leg
                           /\ v.sess[z].peer = IF z = s THEN None ELSE w.sess[z].peer

(* A session whose call is over, or that rings, is terminated.              *)
LEMMA TerminateMid ==
    ASSUME NEW w, NEW X, NEW A, Mid(w, X, A), NEW s \in Sessions, Used(w, s),
           s \in X \/ w.sess[s].ended \in Cut,
           w.table[w.sess[s].leg] = s =>
              w.phase[w.sess[s].leg] \in {"idle", "offered", "over"} \/ w.sess[s].leg \in w.robbed
    PROVE  LET v == terminate(w, s)
           IN  Mid(v, X, A) /\ Leaves(v, w, s) /\ v.phase = w.phase
<1> DEFINE c == w.sess[s].leg
           v == terminate(w, s)
           k == Closes(w, w.table[c], "robbed")
           r == IF w.table[c] \notin {s, None}
                THEN [k EXCEPT !.robbed = @ \cup {d \in {c} : w.phase[d] # "idle"}]
                ELSE w
<1>0. w \in Worlds /\ c \in Legs /\ None \notin Sessions /\ w.table[c] \in Sessions \cup {None}
  BY WorldFields, ProxyAssumption DEF Mid, SessOK
<1>1. v = [r EXCEPT !.sess[s].peer = None, !.table[c] = None]
  BY DEF terminate
<1>2. /\ r \in Worlds /\ r.phase = w.phase /\ r.carries = w.carries /\ r.table = w.table
      /\ r.astray = w.astray /\ w.robbed \subseteq r.robbed /\ r.sess[s] = w.sess[s]
      /\ \A z \in Sessions \ {s} :
            /\ r.sess[z].class = w.sess[z].class /\ r.sess[z].leg = w.sess[z].leg
            /\ r.sess[z].peer = w.sess[z].peer
            /\ w.table[c] # z => r.sess[z] = w.sess[z]
            /\ w.table[c] = z => /\ r.sess[z].ended = IF w.sess[z].ended = "no" THEN "robbed" ELSE w.sess[z].ended
                                 /\ w.phase[c] # "idle" => c \in r.robbed
  <2>1. CASE w.table[c] \in {s, None}
    <3>1. r = w
      BY <2>1
    <3> HIDE DEF r
    <3>2. \A z \in Sessions \ {s} : w.table[c] # z
      BY <1>0, <2>1
    <3> QED
      BY <1>0, <3>1, <3>2
  <2>2. CASE w.table[c] \notin {s, None}
    <3> DEFINE y == w.table[c]
    <3>1. y \in Sessions /\ y # s
      BY <1>0, <2>2
    <3>2. /\ k \in Worlds /\ Alike(k, w)
          /\ k.phase = w.phase /\ k.carries = w.carries /\ k.table = w.table
          /\ k.robbed = w.robbed /\ k.astray = w.astray
          /\ k.sess[y].ended = IF w.sess[y].ended = "no" THEN "robbed" ELSE w.sess[y].ended
          /\ \A z \in Sessions \ {y} : k.sess[z] = w.sess[z]
      BY <1>0, <3>1, ClosesFields
    <3> HIDE DEF k
    <3>3. /\ r \in Worlds /\ r.phase = k.phase /\ r.carries = k.carries /\ r.table = k.table
          /\ r.sess = k.sess /\ r.astray = k.astray
          /\ r.robbed = k.robbed \cup {d \in {c} : w.phase[d] # "idle"}
      <4>1. r = [k EXCEPT !.robbed = @ \cup {d \in {c} : w.phase[d] # "idle"}]
        BY <2>2
      <4> HIDE DEF r, c
      <4> QED
        BY <1>0, <3>2, <4>1 DEF Worlds
    <3> HIDE DEF r
    <3> QED
      BY <3>1, <3>2, <3>3 DEF Alike
  <2> QED
    BY <2>1, <2>2
<1> HIDE DEF r
<1>3. /\ v \in Worlds /\ v.phase = r.phase /\ v.carries = r.carries
      /\ v.table = [r.table EXCEPT ![c] = None] /\ v.robbed = r.robbed /\ v.astray = r.astray
      /\ v.sess[s] = [r.sess[s] EXCEPT !.peer = None]
      /\ \A z \in Sessions \ {s} : v.sess[z] = r.sess[z]
  <2> DEFINE e == [r.sess[s] EXCEPT !.peer = None]
  <2>1. r.sess \in [Sessions -> SessType] /\ r.table \in [Legs -> Sessions \cup {None}]
    BY <1>2, WorldFields
  <2>2. e \in SessType
    BY <2>1 DEF SessType
  <2>3. v = [r EXCEPT !.sess = [r.sess EXCEPT ![s] = e], !.table = [r.table EXCEPT ![c] = None]]
    BY <1>1
  <2> HIDE DEF c, v, e
  <2>4. [r.sess EXCEPT ![s] = e] \in [Sessions -> SessType]
    BY <2>1, <2>2
  <2>5. [r.table EXCEPT ![c] = None] \in [Legs -> Sessions \cup {None}]
    BY <1>0, <2>1
  <2>6. /\ v \in Worlds /\ v.phase = r.phase /\ v.carries = r.carries
        /\ v.table = [r.table EXCEPT ![c] = None] /\ v.robbed = r.robbed /\ v.astray = r.astray
        /\ v.sess = [r.sess EXCEPT ![s] = e]
    BY <1>2, <2>3, <2>4, <2>5 DEF Worlds
  <2> QED
    BY <2>1, <2>6 DEF e
<1> HIDE DEF v
<1>4. Mid(v, X, A)
  BY <1>0, <1>2, <1>3, LeftMid
<1>5. v.sess[s].class = w.sess[s].class /\ v.sess[s].leg = w.sess[s].leg /\ v.sess[s].peer = None
  <2>1. w.sess[s] \in SessType
    BY <1>0 DEF Worlds
  <2> QED
    BY <1>2, <1>3, <2>1 DEF SessType
<1>6. Leaves(v, w, s)
  <2>1. v.table = [w.table EXCEPT ![w.sess[s].leg] = None]
    BY <1>2, <1>3
  <2>2. v.phase = w.phase
    BY <1>2, <1>3
  <2>3. ASSUME NEW z \in Sessions
        PROVE  /\ v.sess[z].class = w.sess[z].class /\ v.sess[z].leg = w.sess[z].leg
               /\ v.sess[z].peer = IF z = s THEN None ELSE w.sess[z].peer
    <3>1. CASE z = s
      BY <1>5, <3>1
    <3>2. CASE z # s
      <4>1. v.sess[z] = r.sess[z] /\ r.sess[z].class = w.sess[z].class
            /\ r.sess[z].leg = w.sess[z].leg /\ r.sess[z].peer = w.sess[z].peer
        BY <1>2, <1>3, <3>2
      <4> QED
        BY <3>2, <4>1
    <3> QED
      BY <3>1, <3>2
  <2> HIDE DEF c
  <2> QED
    BY <2>1, <2>2, <2>3 DEF Leaves
<1> QED
  BY <1>2, <1>3, <1>4, <1>6 DEF v

(* _bye ends any call but one that is offered.                              *)
LEMMA LowByeMid ==
    ASSUME NEW w, NEW X, NEW A, Mid(w, X, A), NEW s \in Sessions, Used(w, s),
           s \in X \/ w.sess[s].ended # "no"
    PROVE  LET v == _bye(w, s)
           IN  /\ Mid(v, X, A) /\ Alike(v, w) /\ v.table = w.table
               /\ v.phase[w.sess[s].leg] \in {"idle", "offered"}
               /\ \A d \in Legs : d # w.sess[s].leg => v.phase[d] = w.phase[d]
               /\ \A z \in Sessions : w.sess[z].ended # "no" => v.sess[z].ended = w.sess[z].ended
<1> DEFINE c == w.sess[s].leg
           r == Reaches(w, s)
<1>0. c \in Legs /\ w.phase \in [Legs -> Phases]
  BY WorldFields DEF Mid, SessOK
<1>1. /\ Mid(r, X, A)
      /\ r.phase = w.phase /\ r.carries = w.carries /\ r.table = w.table /\ r.sess = w.sess
  BY ReachesMid
<1>2. _bye(w, s) = IF w.phase[c] # "offered" THEN EndsBy(r, c, s) ELSE r
  BY DEF _bye, Leg!Byes
<1> HIDE DEF r
<1>3. CASE w.phase[c] # "offered"
  <2>1. /\ Mid(EndsBy(r, c, s), X, A) /\ Alike(EndsBy(r, c, s), r) /\ EndsBy(r, c, s).table = r.table
        /\ EndsBy(r, c, s).phase = [r.phase EXCEPT ![c] = "idle"]
        /\ \A z \in Sessions : r.sess[z].ended # "no" => EndsBy(r, c, s).sess[z].ended = r.sess[z].ended
    BY <1>0, <1>1, EndsByMid
  <2> QED
    BY <1>0, <1>1, <1>2, <1>3, <2>1 DEF Alike
<1>4. CASE w.phase[c] = "offered"
  BY <1>0, <1>1, <1>2, <1>4 DEF Alike
<1> QED
  BY <1>3, <1>4

(* A session hangs up and is terminated.                                    *)
LEMMA ByeMid ==
    ASSUME NEW w, NEW X, NEW A, Mid(w, X, A), NEW s \in Sessions, Used(w, s),
           s \in X \/ w.sess[s].ended # "no"
    PROVE  LET v == bye(w, s)
           IN  Mid(v, X, A) /\ Leaves(v, w, s) /\ v.phase[w.sess[s].leg] \in {"idle", "offered"}
<1> DEFINE u == _bye(w, s)
<1>1. /\ Mid(u, X, A) /\ Alike(u, w) /\ u.table = w.table
      /\ u.phase[w.sess[s].leg] \in {"idle", "offered"}
      /\ \A d \in Legs : d # w.sess[s].leg => u.phase[d] = w.phase[d]
      /\ \A z \in Sessions : w.sess[z].ended # "no" => u.sess[z].ended = w.sess[z].ended
  BY LowByeMid
<1>2. bye(w, s) = terminate(u, s)
  BY DEF bye
<1> HIDE DEF u
<1>3. s \in X \/ u.sess[s].ended \in Cut
  BY <1>1 DEF Mid, EndsOK, Alike, Used
<1>4. Used(u, s) /\ u.sess[s].leg = w.sess[s].leg
  BY <1>1 DEF Alike, Used
<1>5. Mid(terminate(u, s), X, A) /\ Leaves(terminate(u, s), u, s) /\ terminate(u, s).phase = u.phase
  BY <1>1, <1>3, <1>4, TerminateMid
<1>6. Leaves(terminate(u, s), w, s)
  BY <1>1, <1>4, <1>5 DEF Leaves, Alike
<1> QED
  BY <1>1, <1>2, <1>5, <1>6

(* A peer answers its call, when nobody rings for it.                       *)
LEMMA AnswerMid ==
    ASSUME NEW w, NEW X, NEW A, Mid(w, X, A), NEW q \in Sessions \ X, Used(w, q),
           \A d \in Legs, s \in Sessions : Calling(w, d) /\ w.table[d] = s => w.sess[s].peer # q
    PROVE  LET v == answer(w, q, "2xx")
           IN  /\ Mid(v, X, A)
               /\ \A d \in Legs : v.phase[d] = "over" => w.phase[d] = "over"
<1> DEFINE c == w.sess[q].leg
           r == Reaches(w, q)
           v == [r EXCEPT !.phase[c] = "answered"]
<1>0. c \in Legs /\ w.phase \in [Legs -> Phases]
  BY WorldFields DEF Mid, SessOK
<1>1. CASE w.phase[c] # "offered"
  BY <1>1 DEF answer
<1>2. CASE w.phase[c] = "offered"
  <2>1. answer(w, q, "2xx") = v
    BY <1>2 DEF answer
  <2>2. /\ Mid(r, X, A)
        /\ r.phase = w.phase /\ r.carries = w.carries /\ r.table = w.table /\ r.sess = w.sess
        /\ w.carries[c] # q => c \in r.robbed
    BY <1>2, ReachesMid
  <2> HIDE DEF r
  <2>3. r \in Worlds
    BY <2>2 DEF Mid
  <2>4. /\ v \in Worlds /\ v.phase = [r.phase EXCEPT ![c] = "answered"] /\ v.carries = r.carries
        /\ v.table = r.table /\ v.sess = r.sess /\ v.robbed = r.robbed /\ v.astray = r.astray
    <3> HIDE DEF c
    <3> QED
      BY <1>0, <2>3 DEF Worlds, Phases
  <2> HIDE DEF v
  <2>5. \A d \in Legs, s \in Sessions : Calling(r, d) /\ r.table[d] = s => r.sess[s].peer # q
    BY <2>2 DEF Calling
  <2>6. Mid(v, X, A)
    BY <1>0, <1>2, <2>2, <2>4, <2>5, AnsweredMid
  <2>7. \A d \in Legs : v.phase[d] = "over" => w.phase[d] = "over"
    BY <1>0, <2>2, <2>4
  <2> QED
    BY <2>1, <2>6, <2>7
<1> QED
  BY <1>1, <1>2

(* A peer refuses its call and is terminated.                               *)
LEMMA RefuseMid ==
    ASSUME NEW w, NEW X, NEW A, Mid(w, X, A), NEW q \in X \cap Sessions, Used(w, q),
           w.table[w.sess[q].leg] = q =>
              w.phase[w.sess[q].leg] \in {"idle", "offered", "over"} \/ w.sess[q].leg \in w.robbed
    PROVE  LET v == terminate(answer(w, q, "error"), q)
           IN  /\ Mid(v, X, A) /\ Leaves(v, w, q)
               /\ \A d \in Legs : v.phase[d] = "over" => w.phase[d] = "over"
<1> DEFINE c == w.sess[q].leg
           r == Reaches(w, q)
           u == answer(w, q, "error")
<1>0. c \in Legs /\ w.phase \in [Legs -> Phases]
  BY WorldFields DEF Mid, SessOK
<1>1. /\ Mid(u, X, A) /\ Alike(u, w) /\ u.table = w.table
      /\ \A d \in Legs : d # c => u.phase[d] = w.phase[d]
      /\ \/ u = w
         \/ u.phase[c] = "idle"
  <2>1. CASE w.phase[c] # "offered"
    <3>1. u = w
      BY <2>1 DEF answer
    <3> QED
      BY <3>1 DEF Alike
  <2>2. CASE w.phase[c] = "offered"
    <3>1. u = EndsBy(r, c, q)
      BY <2>2 DEF answer
    <3>2. /\ Mid(r, X, A)
          /\ r.phase = w.phase /\ r.carries = w.carries /\ r.table = w.table /\ r.sess = w.sess
      BY ReachesMid
    <3> HIDE DEF r
    <3>3. /\ Mid(EndsBy(r, c, q), X, A) /\ Alike(EndsBy(r, c, q), r) /\ EndsBy(r, c, q).table = r.table
          /\ EndsBy(r, c, q).phase = [r.phase EXCEPT ![c] = "idle"]
      BY <1>0, <3>2, EndsByMid
    <3> QED
      BY <1>0, <3>1, <3>2, <3>3 DEF Alike
  <2> QED
    BY <2>1, <2>2
<1> HIDE DEF u
<1>2. Used(u, q) /\ u.sess[q].leg = c
  BY <1>1 DEF Alike, Used
<1>3. u.table[c] = q => u.phase[c] \in {"idle", "offered", "over"} \/ c \in u.robbed
  BY <1>1
<1>4. Mid(terminate(u, q), X, A) /\ Leaves(terminate(u, q), u, q) /\ terminate(u, q).phase = u.phase
  BY <1>1, <1>2, <1>3, TerminateMid
<1>5. Leaves(terminate(u, q), w, q)
  BY <1>1, <1>2, <1>4 DEF Leaves, Alike
<1>6. \A d \in Legs : terminate(u, q).phase[d] = "over" => w.phase[d] = "over"
  BY <1>0, <1>1, <1>4
<1> QED
  BY <1>4, <1>5, <1>6 DEF u

(* A channel that is over after its callback is freed.                      *)
LEMMA OverFreedMid ==
    ASSUME NEW w, NEW X, NEW A, Mid(w, X, A), NEW c \in Legs,
           \A s \in Sessions \ X : w.carries[c] = s => w.sess[s].ended # "no"
    PROVE  LET v == Frees(w, c)
           IN  /\ Mid(v, X, A) /\ v.table = w.table /\ v.sess = w.sess
               /\ v.phase = [w.phase EXCEPT ![c] = "idle"]
<1> DEFINE v == Frees(w, c)
<1>1. /\ v \in Worlds
      /\ v.phase = [w.phase EXCEPT ![c] = "idle"] /\ v.carries = [w.carries EXCEPT ![c] = None]
      /\ v.table = w.table /\ v.sess = w.sess /\ v.robbed = w.robbed \ {c} /\ v.astray = w.astray
  BY FreesFields DEF Mid
<1> HIDE DEF v
<1>2. \A s \in Sessions \ X : w.carries[c] = s => w.sess[s].ended \in Cut
  BY DEF Mid, EndsOK, CarriesOK
<1>3. Mid(v, X, A)
  BY <1>1, <1>2, FreedMid DEF Alike
<1> QED
  BY <1>1, <1>3 DEF v

(* A smaller set of sessions cut off says more.                             *)
LEMMA WiderMid ==
    ASSUME NEW w, NEW X, NEW Y, NEW A, Mid(w, X, A), X \subseteq Y
    PROVE  Mid(w, Y, A)
  BY DEF Mid, EndsOK, CarriedOK
-----------------------------------------------------------------------------
(* Whom Lua can reach: the sessions in the table and their peers.           *)
LEMMA ReachedHow ==
    ASSUME NEW w \in Worlds, NEW s \in Sessions
    PROVE  s \in Reachable(w) <=> \/ \E c \in Legs : w.table[c] = s
                                  \/ \E c \in Legs, z \in Sessions : w.table[c] = z /\ w.sess[z].peer = s
<1>1. /\ \A c \in Legs : w.table[c] \in Sessions \cup {None}
      /\ None \notin Sessions
  BY WorldFields, ProxyAssumption
<1> QED
  BY <1>1 DEF Reachable

(* Lua reaches nothing but sessions.                                        *)
LEMMA OnlySessionsReached ==
    ASSUME NEW w \in Worlds
    PROVE  Reachable(w) \subseteq Sessions
<1>1. /\ \A c \in Legs : w.table[c] \in Sessions \cup {None}
      /\ \A s \in Sessions : w.sess[s].peer \in Sessions \cup {None}
  BY WorldFields
<1> QED
  BY <1>1 DEF Reachable

(* A session without a place in the table and without a peer was reached by *)
(* nobody but its peer.                                                     *)
LEMMA CutOff ==
    ASSUME NEW w, NEW X, NEW A, Mid(w, X, A), NEW s \in Sessions, Used(w, s), w.sess[s].leg \in Legs,
           w.table[w.sess[s].leg] = None,
           \A c \in Legs, z \in Sessions : w.table[c] = z => w.sess[z].peer # s
    PROVE  s \notin Reachable(w)
<1>1. \A c \in Legs : w.table[c] # s
  BY ProxyAssumption DEF Mid, TableOK
<1> QED
  BY <1>1, ReachedHow DEF Mid

(* The end of a step: what Lua cannot reach is collected.                   *)
LEMMA BecomesInv ==
    ASSUME NEW w, NEW X, NEW A, Mid(w, X, A), A \subseteq Sessions, \A c \in Legs : w.phase[c] # "over",
           \A s \in X : s \notin Reachable(w), Becomes(w)
    PROVE  IInv'
<1> DEFINE v == World'
           kept == Reachable(w)
<1>0. /\ w \in Worlds /\ kept \subseteq Sessions /\ None \notin Sessions /\ None \notin kept
  BY OnlySessionsReached, ProxyAssumption DEF Mid
<1>1. /\ v.phase = w.phase /\ v.table = w.table /\ v.robbed = w.robbed /\ v.astray = {}
      /\ v.carries = [c \in Legs |-> IF w.carries[c] \in kept THEN w.carries[c] ELSE None]
      /\ v.sess = [s \in Sessions |-> IF s \in kept THEN w.sess[s] ELSE Unused]
      /\ v = [phase |-> v.phase, carries |-> v.carries, table |-> v.table, sess |-> v.sess,
              robbed |-> v.robbed, astray |-> {}]
      /\ astray' = w.astray
  BY DEF Becomes, World
<1> HIDE DEF kept
<1>2. Unused \in SessType /\ Unused.class = "none" /\ Unused.peer = None
  BY DEF Unused, SessType
<1>3. /\ w.phase \in [Legs -> Phases] /\ w.carries \in [Legs -> Sessions \cup {None}]
      /\ w.table \in [Legs -> Sessions \cup {None}] /\ w.sess \in [Sessions -> SessType]
      /\ w.robbed \subseteq Legs
  BY <1>0, WorldFields
<1>4. v \in Worlds
  <2>1. v.carries \in [Legs -> Sessions \cup {None}]
    BY <1>0, <1>1, <1>3
  <2>2. v.sess \in [Sessions -> SessType]
    BY <1>1, <1>2, <1>3
  <2> HIDE DEF v
  <2> QED
    BY <1>1, <1>3, <2>1, <2>2 DEF Worlds
<1> HIDE DEF v
<1>5. /\ \A s \in Sessions : /\ Used(v, s) <=> s \in kept /\ Used(w, s)
                             /\ s \in kept => v.sess[s] = w.sess[s]
                             /\ s \notin kept => v.sess[s] = Unused
      /\ \A c \in Legs, s \in Sessions : v.carries[c] = s <=> w.carries[c] = s /\ s \in kept
  BY <1>0, <1>1, <1>2 DEF Used
<1>6. /\ \A c \in Legs, s \in Sessions : w.table[c] = s => s \in kept
      /\ \A c \in Legs, s, z \in Sessions : w.table[c] = z /\ w.sess[z].peer = s => s \in kept
      /\ \A s \in kept : \/ \E c \in Legs : w.table[c] = s
                         \/ \E c \in Legs, z \in Sessions : w.table[c] = z /\ w.sess[z].peer = s
  BY <1>0, ReachedHow DEF kept
<1>7. \A s \in kept : Used(w, s)
  BY <1>0, <1>6 DEF Mid, TableOK, PeersOK
<1>8. \A s \in kept, q \in Sessions : w.sess[s].peer = q => q \in kept
  <2> SUFFICES ASSUME NEW s \in kept, NEW q \in Sessions, w.sess[s].peer = q PROVE q \in kept
    OBVIOUS
  <2>1. CASE \E c \in Legs : w.table[c] = s
    BY <1>0, <1>6, <2>1
  <2>2. CASE \E c \in Legs, z \in Sessions : w.table[c] = z /\ w.sess[z].peer = s
    <3>1. PICK c \in Legs, z \in Sessions : w.table[c] = z /\ w.sess[z].peer = s
      BY <2>2
    <3>2. w.sess[s].peer = z
      BY <1>0, <3>1 DEF Mid, PeersOK
    <3> QED
      BY <1>6, <3>1, <3>2
  <2> QED
    BY <1>6, <2>1, <2>2
<1>9. SessOK(v)
  BY <1>5 DEF Mid, SessOK
<1>10. TableOK(v) /\ CarriesOK(v)
  BY <1>1, <1>5, <1>6 DEF Mid, TableOK, CarriesOK
<1>11. PeersOK(v)
  <2> SUFFICES ASSUME NEW s \in Sessions, NEW q \in Sessions, v.sess[s].peer = q
               PROVE  /\ Used(v, s) /\ Used(v, q) /\ v.sess[q].leg # v.sess[s].leg
                      /\ v.sess[q].class # v.sess[s].class
                      /\ v.sess[q].peer \in {s, None}
                      /\ v.table[v.sess[q].leg] = q => v.sess[q].peer = s
                      /\ \A z \in Sessions : v.sess[z].peer = q => z = s
    BY DEF PeersOK
  <2>1. s \in kept /\ w.sess[s].peer = q
    BY <1>0, <1>2, <1>5
  <2>2. q \in kept /\ v.sess[q] = w.sess[q] /\ v.sess[s] = w.sess[s]
    BY <1>5, <1>8, <2>1
  <2>3. \A z \in Sessions : v.sess[z].peer = q => w.sess[z].peer = q
    BY <1>0, <1>2, <1>5
  <2>4. /\ Used(w, s) /\ Used(w, q) /\ w.sess[q].leg # w.sess[s].leg
        /\ w.sess[q].class # w.sess[s].class
        /\ w.sess[q].peer \in {s, None}
        /\ w.table[w.sess[q].leg] = q => w.sess[q].peer = s
        /\ \A z \in Sessions : w.sess[z].peer = q => z = s
    BY <2>1 DEF Mid, PeersOK
  <2> QED
    BY <1>1, <1>5, <2>1, <2>2, <2>3, <2>4
<1>12. EndsOK(v, {})
  <2> SUFFICES ASSUME NEW s \in Sessions, Used(v, s)
               PROVE  /\ v.sess[s].ended \in Cut \cup {"no"}
                      /\ v.sess[s].ended = "no" => v.table[v.sess[s].leg] = s /\ v.carries[v.sess[s].leg] = s
    BY DEF EndsOK
  <2>1. s \in kept /\ s \notin X /\ Used(w, s) /\ v.sess[s] = w.sess[s]
    BY <1>5 DEF kept
  <2>2. w.sess[s].leg \in Legs
    BY <2>1 DEF Mid, SessOK
  <2> QED
    BY <1>1, <1>5, <2>1, <2>2 DEF Mid, EndsOK
<1>13. CarriedOK(v, {})
  <2>1. \A s \in kept : s \notin X
    BY DEF kept
  <2> QED
    BY <1>1, <1>5, <2>1 DEF Mid, CarriedOK
<1>14. OwnedOK(v)
  <2>1. \A c \in Legs : w.table[c] \in Sessions => w.table[c] \in kept
    BY <1>6
  <2> QED
    BY <1>1, <2>1 DEF Mid, OwnedOK
<1>15. RingsOK(v)
  <2> SUFFICES ASSUME NEW d \in Legs, NEW s \in Sessions, Calling(v, d), v.table[d] = s
               PROVE  /\ v.sess[s].class = "b2b"
                      /\ \A q \in Sessions :
                            v.sess[s].peer = q /\ v.table[v.sess[q].leg] = q /\ v.carries[v.sess[q].leg] = q
                                => v.phase[v.sess[q].leg] \in {"offered", "over"} \/ v.sess[q].leg \in v.robbed
    BY DEF RingsOK
  <2>1. Calling(w, d) /\ w.table[d] = s /\ v.sess[s] = w.sess[s]
    BY <1>1, <1>5, <1>6 DEF Calling
  <2>2. v.sess[s].class = "b2b"
    BY <2>1 DEF Mid, RingsOK
  <2>3. ASSUME NEW q \in Sessions, v.sess[s].peer = q, v.table[v.sess[q].leg] = q, v.carries[v.sess[q].leg] = q
        PROVE  v.phase[v.sess[q].leg] \in {"offered", "over"} \/ v.sess[q].leg \in v.robbed
    <3>1. q \in kept /\ v.sess[q] = w.sess[q] /\ w.sess[s].peer = q
      BY <1>5, <1>6, <2>1, <2>3
    <3>2. w.sess[q].leg \in Legs
      BY <1>7, <3>1 DEF Mid, SessOK
    <3>3. w.table[w.sess[q].leg] = q /\ w.carries[w.sess[q].leg] = q
      BY <1>1, <1>5, <2>3, <3>1, <3>2
    <3>4. w.phase[w.sess[q].leg] \in {"offered", "over"} \/ w.sess[q].leg \in w.robbed
      BY <2>1, <3>1, <3>3 DEF Mid, RingsOK
    <3> QED
      BY <1>1, <3>1, <3>4
  <2> QED
    BY <2>2, <2>3
<1>16. ActsOK(v, Sessions)
  BY <1>1 DEF ActsOK
<1>17. Mid(v, {}, Sessions)
  BY <1>4, <1>9, <1>10, <1>11, <1>12, <1>13, <1>14, <1>15, <1>16 DEF Mid
<1>18. astray' \subseteq Sessions /\ (\A c \in Legs : phase'[c] # "over")
  BY <1>0, <1>1, WorldFields DEF Becomes
<1>19. \A s \in Sessions : Used(v, s) => s \in Reachable(v)
  <2> SUFFICES ASSUME NEW s \in Sessions, s \in kept PROVE s \in Reachable(v)
    BY <1>5
  <2>1. CASE \E c \in Legs : w.table[c] = s
    BY <1>1, <1>4, <2>1, ReachedHow
  <2>2. CASE \E c \in Legs, z \in Sessions : w.table[c] = z /\ w.sess[z].peer = s
    BY <1>1, <1>4, <1>5, <1>6, <2>2, ReachedHow
  <2> QED
    BY <1>6, <2>1, <2>2
<1> QED
  BY <1>17, <1>18, <1>19 DEF IInv, v
-----------------------------------------------------------------------------
(* The sessions that knew of no end, or of one that cut them off from their *)
(* call but not from their peer.                                            *)
Astrays == {s \in Sessions : sess[s].ended \in Cut}

(* The world a step starts from.                                            *)
LEMMA WorldMid ==
    ASSUME IInv
    PROVE  /\ Mid(World, {}, Astrays)
           /\ World.phase = phase /\ World.carries = carries /\ World.table = t_call_legs
           /\ World.sess = sess /\ World.robbed = robbed /\ World.astray = {}
<1>1. /\ World.phase = phase /\ World.carries = carries /\ World.table = t_call_legs
      /\ World.sess = sess /\ World.robbed = robbed /\ World.astray = {}
  BY DEF World
<1>2. ActsOK(World, Astrays)
  BY <1>1 DEF IInv, Mid, ActsOK, EndsOK, Astrays
<1> QED
  BY <1>1, <1>2 DEF IInv, Mid

(* A callback brings the channel to another phase.                          *)
LEMMA PhaseFields ==
    ASSUME NEW w \in Worlds, NEW c \in Legs, NEW p \in Phases
    PROVE  LET v == [w EXCEPT !.phase[c] = p]
           IN  /\ v \in Worlds /\ v.phase = [w.phase EXCEPT ![c] = p] /\ v.carries = w.carries
               /\ v.table = w.table /\ v.sess = w.sess /\ v.robbed = w.robbed /\ v.astray = w.astray
  BY DEF Worlds

(* After the handler a channel that is over is freed, and Lua collects.     *)
LEMMA Settles ==
    ASSUME NEW h, NEW Y, Mid(h, Y, Astrays), NEW c \in Legs,
           \A d \in Legs : h.phase[d] = "over" => d = c /\ h.table[c] = None,
           \A s \in Y : s \notin Reachable(h),
           Becomes(IF h.phase[c] = "over" THEN Frees(h, c) ELSE h)
    PROVE  IInv' /\ astray' \subseteq Astrays
<1> DEFINE f == IF h.phase[c] = "over" THEN Frees(h, c) ELSE h
<1>0. Astrays \subseteq Sessions
  BY DEF Astrays
<1>1. /\ Mid(f, Y, Astrays) /\ f.table = h.table /\ f.sess = h.sess
      /\ \A d \in Legs : f.phase[d] # "over"
  <2>1. CASE h.phase[c] # "over"
    BY <2>1
  <2>2. CASE h.phase[c] = "over"
    <3>1. f = Frees(h, c)
      BY <2>2
    <3>2. \A s \in Sessions \ Y : h.carries[c] = s => h.sess[s].ended # "no"
      BY <2>2, ProxyAssumption DEF Mid, EndsOK, CarriesOK
    <3>3. /\ Mid(Frees(h, c), Y, Astrays) /\ Frees(h, c).table = h.table /\ Frees(h, c).sess = h.sess
          /\ Frees(h, c).phase = [h.phase EXCEPT ![c] = "idle"]
      BY <3>2, OverFreedMid
    <3>4. h.phase \in [Legs -> Phases]
      BY WorldFields DEF Mid
    <3> QED
      BY <3>1, <3>3, <3>4
  <2> QED
    BY <2>1, <2>2
<1>2. Becomes(f)
  OBVIOUS
<1> HIDE DEF f
<1>3. Reachable(f) = Reachable(h)
  BY <1>1 DEF Reachable
<1>4. astray' = f.astray
  BY <1>2 DEF Becomes
<1>5. IInv'
  BY <1>0, <1>1, <1>2, <1>3, BecomesInv
<1> QED
  BY <1>1, <1>4, <1>5 DEF Mid, ActsOK

(* The end of a call, before its session hears of it.                       *)
LEMMA EndBegins ==
    ASSUME IInv, NEW c \in Legs, phase[c] # "idle", NEW how \in {"told", "timeout"}, NEW X,
           \A s \in Sessions \ X : carries[c] = s /\ sess[s].ended = "no" => how \in Cut
    PROVE  LET b == Ends([World EXCEPT !.phase[c] = "over"], c, how)
           IN  /\ Mid(b, X, Astrays) /\ Alike(b, World) /\ b.table = t_call_legs
               /\ b.phase = [phase EXCEPT ![c] = "over"]
               /\ \A s \in Sessions : carries[c] = s \/ sess[s].ended # "no" => b.sess[s].ended # "no"
<1> DEFINE w == [World EXCEPT !.phase[c] = "over"]
           b == Ends(w, c, how)
<1>1. /\ Mid(World, {}, Astrays)
      /\ World.phase = phase /\ World.carries = carries /\ World.table = t_call_legs
      /\ World.sess = sess /\ World.robbed = robbed
  BY WorldMid
<1>2. Mid(World, X, Astrays)
  BY <1>1, WiderMid
<1>3. World \in Worlds /\ phase \in [Legs -> Phases] /\ "over" \in Phases
  BY <1>1, WorldFields DEF Mid, Phases
<1>4. /\ w \in Worlds /\ w.phase = [phase EXCEPT ![c] = "over"] /\ w.carries = carries
      /\ w.table = t_call_legs /\ w.sess = sess /\ w.robbed = robbed /\ w.astray = World.astray
  BY <1>1, <1>3, PhaseFields
<1>0. how \in {"asked", "told", "timeout", "silent", "robbed"}
  OBVIOUS
<1> HIDE DEF w
<1>5. /\ b \in Worlds /\ Alike(b, w)
      /\ b.phase = w.phase /\ b.carries = w.carries /\ b.table = w.table
      /\ b.robbed = w.robbed /\ b.astray = w.astray
      /\ \A s \in Sessions :
            /\ w.carries[c] # s => b.sess[s] = w.sess[s]
            /\ w.carries[c] = s => b.sess[s].ended = IF w.sess[s].ended = "no" THEN how ELSE w.sess[s].ended
  BY <1>0, <1>4, EndsFields
<1> HIDE DEF b
<1>6. Alike(b, World)
  BY <1>1, <1>4, <1>5 DEF Alike
<1>7. \A s \in Sessions \ X : carries[c] = s => b.sess[s].ended \in Cut
  <2> SUFFICES ASSUME NEW s \in Sessions \ X, carries[c] = s PROVE b.sess[s].ended \in Cut
    OBVIOUS
  <2>1. sess[s].ended \in Cut \cup {"no"}
    BY <1>1 DEF Mid, EndsOK, CarriesOK
  <2> QED
    BY <1>4, <1>5, <2>1
<1>8. Mid(b, X, Astrays)
  BY <1>1, <1>2, <1>4, <1>5, <1>6, <1>7, OverMid
<1> QED
  BY <1>4, <1>5, <1>6, <1>8 DEF b, w

(* Session x of a call that is over leaves, after its peer q did.           *)
LEMMA BothGone ==
    ASSUME NEW b, NEW X, Mid(b, X, Astrays), NEW c \in Legs, NEW x \in Sessions, NEW q \in Sessions,
           b.table[c] = x, b.sess[x].peer = q, b.phase[c] = "over",
           NEW h, NEW Y, x \in Y, q \in Y, Mid(h, Y, Astrays), Leaves(h, b, q),
           \A d \in Legs : h.phase[d] = "over" => d = c
    PROVE  LET v == terminate(h, x)
           IN  /\ Mid(v, Y, Astrays)
               /\ \A d \in Legs : v.phase[d] = "over" => d = c /\ v.table[c] = None
               /\ x \notin Reachable(v) /\ q \notin Reachable(v)
<1> DEFINE v == terminate(h, x)
<1>0. /\ b \in Worlds /\ b.table \in [Legs -> Sessions \cup {None}] /\ None \notin Sessions
      /\ h \in Worlds /\ h.table \in [Legs -> Sessions \cup {None}]
  BY WorldFields, ProxyAssumption DEF Mid
<1>1. /\ Used(b, x) /\ Used(b, q) /\ b.sess[x].leg = c /\ b.sess[q].leg \in Legs /\ b.sess[q].leg # c /\ q # x
      /\ b.sess[q].peer \in {x, None}
      /\ \A z \in Sessions : /\ b.sess[z].peer = x => z = q
                             /\ b.sess[z].peer = q => z = x
  BY <1>0 DEF Mid, PeersOK, SessOK, TableOK
<1>2. /\ h.table = [b.table EXCEPT ![b.sess[q].leg] = None]
      /\ h.phase[c] = "over"
      /\ \A z \in Sessions : /\ h.sess[z].class = b.sess[z].class /\ h.sess[z].leg = b.sess[z].leg
                             /\ h.sess[z].peer = IF z = q THEN None ELSE b.sess[z].peer
  BY <1>1 DEF Leaves
<1>3. Used(h, x) /\ h.sess[x].leg = c /\ h.table[c] = x
  BY <1>0, <1>1, <1>2 DEF Used
<1>4. Mid(v, Y, Astrays) /\ Leaves(v, h, x) /\ v.phase = h.phase
  BY <1>2, <1>3, TerminateMid
<1> HIDE DEF v
<1>5. /\ v.table = [h.table EXCEPT ![c] = None]
      /\ \A z \in Sessions : /\ v.sess[z].class = b.sess[z].class /\ v.sess[z].leg = b.sess[z].leg
                             /\ v.sess[z].peer = IF z \in {x, q} THEN None ELSE b.sess[z].peer
  BY <1>2, <1>3, <1>4 DEF Leaves
<1>6. v.table[c] = None /\ v.table[b.sess[q].leg] = None
  BY <1>0, <1>1, <1>2, <1>5
<1>7. \A z \in Sessions : v.sess[z].peer \notin {x, q}
  BY <1>0, <1>1, <1>5
<1>8. Used(v, x) /\ Used(v, q) /\ v.sess[x].leg = c /\ v.sess[q].leg = b.sess[q].leg
  BY <1>1, <1>5 DEF Used
<1>9. x \notin Reachable(v) /\ q \notin Reachable(v)
  BY <1>1, <1>4, <1>6, <1>7, <1>8, CutOff
<1> QED
  BY <1>4, <1>6, <1>9 DEF v

(* So does one without a peer.                                              *)
LEMMA AloneGone ==
    ASSUME NEW b, NEW x \in Sessions, Mid(b, {x}, Astrays), NEW c \in Legs,
           b.table[c] = x, b.sess[x].peer = None, b.phase[c] = "over",
           \A d \in Legs : b.phase[d] = "over" => d = c
    PROVE  LET v == terminate(b, x)
           IN  /\ Mid(v, {x}, Astrays)
               /\ \A d \in Legs : v.phase[d] = "over" => d = c /\ v.table[c] = None
               /\ \A s \in {x} : s \notin Reachable(v)
<1> DEFINE v == terminate(b, x)
<1>0. b.table \in [Legs -> Sessions \cup {None}] /\ None \notin Sessions
  BY WorldFields, ProxyAssumption DEF Mid
<1>1. /\ Used(b, x) /\ b.sess[x].leg = c
      /\ \A z \in Sessions : b.sess[z].peer # x
  BY <1>0 DEF Mid, PeersOK, TableOK
<1>2. Mid(v, {x}, Astrays) /\ Leaves(v, b, x) /\ v.phase = b.phase
  BY <1>1, TerminateMid
<1> HIDE DEF v
<1>3. /\ v.table[c] = None /\ Used(v, x) /\ v.sess[x].leg = c
      /\ \A z \in Sessions : v.sess[z].peer # x
  BY <1>0, <1>1, <1>2 DEF Leaves, Used
<1>4. x \notin Reachable(v)
  BY <1>2, <1>3, CutOff
<1> QED
  BY <1>2, <1>3, <1>4 DEF v

(* The callbacks of a call that goes on, or ends.                           *)
LEMMA EventCases ==
    ASSUME NEW p, NEW e \in Leg(p)!Callbacks(p), e[1] # "Incall",
           p \in {"idle", "offered", "answered", "trying", "ringing", "talking"}
    PROVE  \/ e = <<"EndCall", "over">> /\ p \in {"offered", "answered", "talking"}
           \/ e = <<"Error", "over">> /\ p \in {"trying", "ringing"}
           \/ e = <<"Timeout", "over">> /\ p = "trying"
           \/ e = <<"RingBack", "ringing">> /\ p \in {"trying", "ringing"}
           \/ e[1] = "InCallSetup" /\ e[2] \in {"talking", "answered"} /\ p = "answered"
           \/ e = <<"OutCallSetup", "talking">> /\ p \in {"trying", "ringing"}
           \/ e = <<"ReIncall", "offered">> /\ p \in {"answered", "talking"}
<1>1. CASE p = "idle"
  BY <1>1 DEF Leg!Callbacks
<1>2. CASE p = "offered"
  BY <1>2 DEF Leg!Callbacks
<1>3. CASE p = "answered"
  BY <1>3 DEF Leg!Callbacks
<1>4. CASE p = "trying"
  BY <1>4 DEF Leg!Callbacks
<1>5. CASE p = "ringing"
  BY <1>5 DEF Leg!Callbacks
<1>6. CASE p = "talking"
  BY <1>6 DEF Leg!Callbacks
<1> QED
  BY <1>1, <1>2, <1>3, <1>4, <1>5, <1>6
-----------------------------------------------------------------------------
(* A call is over: its session and the peer of it leave.                    *)
LEMMA EndCallStep ==
    ASSUME IInv, NEW c \in Legs, phase[c] # "idle", NEW x \in Sessions, t_call_legs[c] = x,
           LET h == on_bye(Ends([World EXCEPT !.phase[c] = "over"], c, "told"), x)
           IN  Becomes(IF h.phase[c] = "over" THEN Frees(h, c) ELSE h)
    PROVE  IInv' /\ astray' \subseteq Astrays
<1> DEFINE b == Ends([World EXCEPT !.phase[c] = "over"], c, "told")
           q == b.sess[x].peer
           h == on_bye(b, x)
<1>0. phase \in [Legs -> Phases] /\ \A d \in Legs : phase[d] # "over"
  BY WorldMid, WorldFields DEF IInv, Mid
<1>1. \A s \in Sessions \ {x} : ~(carries[c] = s /\ sess[s].ended = "no")
  BY WorldMid DEF Mid, EndsOK, CarriesOK
<1>2. Mid(b, {x}, Astrays) /\ b.table = t_call_legs /\ b.phase = [phase EXCEPT ![c] = "over"]
  BY <1>1, EndBegins
<1> HIDE DEF b
<1>3. b.table[c] = x /\ b.phase[c] = "over" /\ \A d \in Legs : b.phase[d] = "over" => d = c
  BY <1>0, <1>2
<1>4. Becomes(IF h.phase[c] = "over" THEN Frees(h, c) ELSE h)
  BY DEF b
<1>5. CASE q = None
  <2>1. h = terminate(b, x)
    BY <1>5 DEF on_bye
  <2> HIDE DEF h
  <2>2. /\ Mid(h, {x}, Astrays)
        /\ \A d \in Legs : h.phase[d] = "over" => d = c /\ h.table[c] = None
        /\ \A s \in {x} : s \notin Reachable(h)
    <3> DEFINE t == terminate(b, x)
    <3>1. Mid(b, {x}, Astrays) /\ b.sess[x].peer = None
      BY <1>2, <1>5
    <3>2. /\ Mid(t, {x}, Astrays)
          /\ \A d \in Legs : t.phase[d] = "over" => d = c /\ t.table[c] = None
          /\ \A s \in {x} : s \notin Reachable(t)
      BY <1>3, <3>1, AloneGone
    <3> QED
      BY <2>1, <3>2
  <2> QED
    BY <1>4, <2>2, Settles
<1>6. CASE q # None
  <2>1. h = terminate(bye(b, q), x)
    BY <1>6 DEF on_bye, on_peer_bye
  <2> HIDE DEF h
  <2>2. q \in Sessions /\ Used(b, q)
    BY <1>2, <1>6, WorldFields DEF Mid, PeersOK
  <2>3. Mid(b, {x, q}, Astrays)
    BY <1>2, WiderMid
  <2>4. b.sess[q].leg # c
    BY <1>2, <1>3, <2>2 DEF Mid, PeersOK, TableOK
  <2> DEFINE g == bye(b, q)
  <2>5. Mid(g, {x, q}, Astrays) /\ Leaves(g, b, q) /\ g.phase[b.sess[q].leg] \in {"idle", "offered"}
    BY <2>2, <2>3, ByeMid
  <2> HIDE DEF g
  <2>6. \A d \in Legs : g.phase[d] = "over" => d = c
    BY <1>3, <2>5 DEF Leaves
  <2>7. /\ Mid(h, {x, q}, Astrays)
        /\ \A d \in Legs : h.phase[d] = "over" => d = c /\ h.table[c] = None
        /\ \A s \in {x, q} : s \notin Reachable(h)
    <3> HIDE DEF q
    <3> DEFINE t == terminate(g, x)
    <3>0. h = t
      BY <2>1 DEF g
    <3>1. b.sess[x].peer = q
      BY DEF q
    <3>2. Mid(b, {x}, Astrays) /\ Mid(g, {x, q}, Astrays) /\ Leaves(g, b, q) /\ q \in Sessions
      BY <1>2, <2>2, <2>5
    <3>3. /\ Mid(t, {x, q}, Astrays)
          /\ \A d \in Legs : t.phase[d] = "over" => d = c /\ t.table[c] = None
          /\ x \notin Reachable(t) /\ q \notin Reachable(t)
      BY <1>3, <2>6, <3>1, <3>2, BothGone
    <3> HIDE DEF t
    <3> QED
      BY <3>0, <3>3
  <2> QED
    BY <1>4, <2>7, Settles
<1> QED
  BY <1>5, <1>6

(* The callee refuses: the caller is refused with it.                       *)
LEMMA ErrorStep ==
    ASSUME IInv, NEW c \in Legs, phase[c] \in {"trying", "ringing"}, NEW x \in Sessions, t_call_legs[c] = x,
           LET h == on_error(Ends([World EXCEPT !.phase[c] = "over"], c, "told"), x)
           IN  Becomes(IF h.phase[c] = "over" THEN Frees(h, c) ELSE h)
    PROVE  IInv' /\ astray' \subseteq Astrays
<1> DEFINE b == Ends([World EXCEPT !.phase[c] = "over"], c, "told")
           q == b.sess[x].peer
           h == on_error(b, x)
<1>0. phase \in [Legs -> Phases] /\ \A d \in Legs : phase[d] # "over"
  BY WorldMid, WorldFields DEF IInv, Mid
<1>1. \A s \in Sessions \ {x} : ~(carries[c] = s /\ sess[s].ended = "no")
  BY WorldMid DEF Mid, EndsOK, CarriesOK
<1>2. /\ Mid(b, {x}, Astrays) /\ Alike(b, World) /\ b.table = t_call_legs
      /\ b.phase = [phase EXCEPT ![c] = "over"]
  BY <1>1, EndBegins
<1> HIDE DEF b
<1>3. b.table[c] = x /\ b.phase[c] = "over" /\ \A d \in Legs : b.phase[d] = "over" => d = c
  BY <1>0, <1>2
<1>4. Becomes(IF h.phase[c] = "over" THEN Frees(h, c) ELSE h)
  BY DEF b
<1>5. CASE q = None
  <2>1. h = terminate(b, x)
    BY <1>5 DEF on_error
  <2> HIDE DEF h
  <2>2. /\ Mid(h, {x}, Astrays)
        /\ \A d \in Legs : h.phase[d] = "over" => d = c /\ h.table[c] = None
        /\ \A s \in {x} : s \notin Reachable(h)
    <3> DEFINE t == terminate(b, x)
    <3>1. Mid(b, {x}, Astrays) /\ b.sess[x].peer = None
      BY <1>2, <1>5
    <3>2. /\ Mid(t, {x}, Astrays)
          /\ \A d \in Legs : t.phase[d] = "over" => d = c /\ t.table[c] = None
          /\ \A s \in {x} : s \notin Reachable(t)
      BY <1>3, <3>1, AloneGone
    <3> QED
      BY <2>1, <3>2
  <2> QED
    BY <1>4, <2>2, Settles
<1>6. CASE q # None
  <2>1. q \in Sessions /\ Used(b, q) /\ b.sess[q].leg \in Legs /\ b.sess[q].class # b.sess[x].class
    BY <1>2, <1>6, WorldFields DEF Mid, PeersOK, SessOK
  <2>2. b.sess[x].class = "b2b" /\ sess[x].peer = q
    BY <1>2, WorldMid DEF Mid, RingsOK, Calling, Alike
  <2>3. b.sess[q].class = "proxy"
    BY <1>2, <2>1, <2>2, WorldFields DEF Mid, Used
  <2>4. h = terminate(terminate(answer(b, q, "error"), q), x)
    BY <1>6, <2>3 DEF on_error, on_peer_error
  <2> HIDE DEF h
  <2>5. Mid(b, {x, q}, Astrays)
    BY <1>2, WiderMid
  <2>6. b.sess[q].leg # c
    BY <1>2, <1>3, <2>1 DEF Mid, PeersOK, TableOK
  <2>7. b.table[b.sess[q].leg] = q =>
           b.phase[b.sess[q].leg] \in {"idle", "offered", "over"} \/ b.sess[q].leg \in b.robbed
    <3> DEFINE k == b.sess[q].leg
    <3> SUFFICES ASSUME b.table[k] = q, b.phase[k] \notin {"idle", "offered", "over"}, k \notin b.robbed
                 PROVE  FALSE
      OBVIOUS
    <3>1. b.carries[k] = q
      BY <1>2, <2>1 DEF Mid, OwnedOK
    <3>2. b.carries = carries /\ b.robbed = robbed
      <4>1. World \in Worlds /\ "over" \in Phases
        BY DEF IInv, Mid, Phases
      <4>2. [World EXCEPT !.phase[c] = "over"] \in Worlds
            /\ [World EXCEPT !.phase[c] = "over"].carries = World.carries
            /\ [World EXCEPT !.phase[c] = "over"].robbed = World.robbed
        BY <4>1, PhaseFields
      <4> QED
        BY <4>2, EndsFields, WorldMid DEF b
    <3>3. sess[q].leg = k /\ t_call_legs[k] = q /\ carries[k] = q /\ phase[k] = b.phase[k] /\ k \notin robbed
      BY <1>0, <1>2, <2>1, <2>6, <3>1, <3>2, WorldMid DEF Alike
    <3>4. phase[k] \in {"offered", "over"} \/ k \in robbed
      BY <2>1, <2>2, <3>3, WorldMid DEF Mid, RingsOK, Calling
    <3> QED
      BY <3>3, <3>4
  <2> DEFINE g == terminate(answer(b, q, "error"), q)
  <2>8. Mid(g, {x, q}, Astrays) /\ Leaves(g, b, q) /\ \A d \in Legs : g.phase[d] = "over" => b.phase[d] = "over"
    BY <2>1, <2>5, <2>7, RefuseMid
  <2> HIDE DEF g
  <2>9. \A d \in Legs : g.phase[d] = "over" => d = c
    BY <1>3, <2>8
  <2>10. /\ Mid(h, {x, q}, Astrays)
         /\ \A d \in Legs : h.phase[d] = "over" => d = c /\ h.table[c] = None
         /\ \A s \in {x, q} : s \notin Reachable(h)
    <3> HIDE DEF q
    <3> DEFINE t == terminate(g, x)
    <3>0. h = t
      BY <2>4 DEF g
    <3>1. b.sess[x].peer = q
      BY DEF q
    <3>2. Mid(b, {x}, Astrays) /\ Mid(g, {x, q}, Astrays) /\ Leaves(g, b, q) /\ q \in Sessions
      BY <1>2, <2>1, <2>8
    <3>3. /\ Mid(t, {x, q}, Astrays)
          /\ \A d \in Legs : t.phase[d] = "over" => d = c /\ t.table[c] = None
          /\ x \notin Reachable(t) /\ q \notin Reachable(t)
      BY <1>3, <2>9, <3>1, <3>2, BothGone
    <3> HIDE DEF t
    <3> QED
      BY <3>0, <3>3
  <2> QED
    BY <1>4, <2>10, Settles
<1> QED
  BY <1>5, <1>6

(* A call is not answered in time: only its own session leaves.             *)
LEMMA TimeoutStep ==
    ASSUME IInv, NEW c \in Legs, phase[c] # "idle", NEW x \in Sessions, t_call_legs[c] = x,
           LET h == on_timeout(Ends([World EXCEPT !.phase[c] = "over"], c, "timeout"), x)
           IN  Becomes(IF h.phase[c] = "over" THEN Frees(h, c) ELSE h)
    PROVE  IInv' /\ astray' \subseteq Astrays
<1> DEFINE b == Ends([World EXCEPT !.phase[c] = "over"], c, "timeout")
           h == bye(b, x)
<1>0. phase \in [Legs -> Phases] /\ \A d \in Legs : phase[d] # "over"
  BY WorldMid, WorldFields DEF IInv, Mid
<1>1. Used(World, x) /\ sess[x].leg = c
  BY WorldMid DEF Mid, TableOK
<1>2. carries[c] = x \/ sess[x].ended # "no"
  BY <1>1, WorldMid DEF Mid, EndsOK
<1>3. /\ Mid(b, {}, Astrays) /\ Alike(b, World) /\ b.table = t_call_legs
      /\ b.phase = [phase EXCEPT ![c] = "over"] /\ b.sess[x].ended # "no"
  BY <1>2, EndBegins DEF Cut
<1>4. Becomes(IF h.phase[c] = "over" THEN Frees(h, c) ELSE h)
  BY DEF on_timeout
<1> HIDE DEF b
<1>5. Used(b, x) /\ b.sess[x].leg = c
  BY <1>1, <1>3, WorldMid DEF Used, Alike
<1>6. Mid(h, {}, Astrays) /\ Leaves(h, b, x) /\ h.phase[c] \in {"idle", "offered"}
  BY <1>3, <1>5, ByeMid
<1> HIDE DEF h
<1>7. \A d \in Legs : h.phase[d] # "over"
  BY <1>0, <1>3, <1>5, <1>6 DEF Leaves
<1> QED
  BY <1>4, <1>6, <1>7, Settles

(* The end of a call that no session hears of.                              *)
LEMMA UnheardEndStep ==
    ASSUME IInv, NEW c \in Legs, phase[c] # "idle", t_call_legs[c] = None, NEW how \in {"told", "timeout"},
           LET h == Ends([World EXCEPT !.phase[c] = "over"], c, how)
           IN  Becomes(IF h.phase[c] = "over" THEN Frees(h, c) ELSE h)
    PROVE  IInv' /\ astray' \subseteq Astrays
<1> DEFINE h == Ends([World EXCEPT !.phase[c] = "over"], c, how)
<1>0. phase \in [Legs -> Phases] /\ \A d \in Legs : phase[d] # "over"
  BY WorldMid, WorldFields DEF IInv, Mid
<1>1. \A s \in Sessions : ~(carries[c] = s /\ sess[s].ended = "no")
  BY WorldMid, ProxyAssumption DEF Mid, EndsOK, CarriesOK
<1>2. Mid(h, {}, Astrays) /\ h.table = t_call_legs /\ h.phase = [phase EXCEPT ![c] = "over"]
  BY <1>1, EndBegins
<1> HIDE DEF h
<1>3. \A d \in Legs : h.phase[d] = "over" => d = c /\ h.table[c] = None
  BY <1>0, <1>2
<1>4. Becomes(IF h.phase[c] = "over" THEN Frees(h, c) ELSE h)
  BY DEF h
<1>5. Mid(h, {}, Astrays) /\ \A s \in {} : s \notin Reachable(h)
  BY <1>2
<1> QED
  BY <1>3, <1>4, <1>5, Settles

(* A call goes on to another phase.                                         *)
LEMMA GoesOn ==
    ASSUME IInv, NEW c \in Legs, phase[c] \in {"answered", "trying", "ringing", "talking"},
           NEW p \in {"answered", "trying", "ringing", "talking", "offered"},
           p \in {"trying", "ringing"} => phase[c] \in {"trying", "ringing"}
    PROVE  LET w == [World EXCEPT !.phase[c] = p]
           IN  /\ Mid(w, {}, Astrays) /\ w.table = t_call_legs /\ w.sess = sess
               /\ w.phase = [phase EXCEPT ![c] = p]
               /\ \A d \in Legs : w.phase[d] # "over"
<1> DEFINE w == [World EXCEPT !.phase[c] = p]
<1>1. /\ Mid(World, {}, Astrays) /\ World \in Worlds /\ p \in Phases /\ p # "over"
      /\ phase \in [Legs -> Phases] /\ \A d \in Legs : phase[d] # "over"
  BY WorldMid, WorldFields DEF Mid, Phases, IInv
<1>2. /\ w \in Worlds /\ w.phase = [World.phase EXCEPT ![c] = p] /\ w.carries = World.carries
      /\ w.table = World.table /\ w.sess = World.sess /\ w.robbed = World.robbed /\ w.astray = World.astray
  BY <1>1, PhaseFields
<1>3. World.phase[c] \in {"answered", "trying", "ringing", "talking"}
      /\ (p \in {"trying", "ringing"} => World.phase[c] \in {"trying", "ringing"})
  BY WorldMid
<1> HIDE DEF w
<1>4. Mid(w, {}, Astrays)
  BY <1>1, <1>2, <1>3, PhaseMid
<1>5. w.table = t_call_legs /\ w.sess = sess /\ w.phase = [phase EXCEPT ![c] = p]
  BY <1>2, WorldMid
<1>6. \A d \in Legs : w.phase[d] # "over"
  BY <1>1, <1>5
<1> QED
  BY <1>4, <1>5, <1>6 DEF w

(* Nothing is over, and nobody leaves.                                      *)
LEMMA StaysStep ==
    ASSUME NEW h, Mid(h, {}, Astrays), NEW c \in Legs, \A d \in Legs : h.phase[d] # "over",
           Becomes(IF h.phase[c] = "over" THEN Frees(h, c) ELSE h) \/ Becomes(h)
    PROVE  IInv' /\ astray' \subseteq Astrays
<1>1. Becomes(IF h.phase[c] = "over" THEN Frees(h, c) ELSE h)
  OBVIOUS
<1>2. \A d \in Legs : h.phase[d] = "over" => d = c /\ h.table[c] = None
  OBVIOUS
<1>3. \A s \in {} : s \notin Reachable(h)
  OBVIOUS
<1> QED
  BY <1>1, <1>2, <1>3, Settles

(* A peer is told to ring, or of a digit.                                   *)
LEMMA PeerReaches ==
    ASSUME NEW w, Mid(w, {}, Astrays), \A d \in Legs : w.phase[d] # "over",
           NEW x \in Sessions, w.sess[x].peer # None
    PROVE  LET v == Reaches(w, w.sess[x].peer)
           IN  Mid(v, {}, Astrays) /\ \A d \in Legs : v.phase[d] # "over"
<1>1. PICK q \in Sessions : q = w.sess[x].peer
  BY WorldFields DEF Mid
<1>2. Used(w, q)
  BY <1>1 DEF Mid, PeersOK
<1>3. Mid(Reaches(w, q), {}, Astrays) /\ Reaches(w, q).phase = w.phase
  BY <1>2, ReachesMid
<1> QED
  BY <1>1, <1>3

(* A peer is told of the setup, of a call that does not ring.               *)
LEMMA SetupMid ==
    ASSUME NEW w, Mid(w, {}, Astrays), \A d \in Legs : w.phase[d] # "over",
           NEW c \in Legs, NEW x \in Sessions, w.table[c] = x, ~Calling(w, c)
    PROVE  LET v == on_setup(w, x)
           IN  Mid(v, {}, Astrays) /\ \A d \in Legs : v.phase[d] # "over"
<1>1. CASE w.sess[x].peer = None
  BY <1>1 DEF on_setup
<1>2. CASE w.sess[x].peer # None
  <2>1. PICK q \in Sessions : q = w.sess[x].peer
    BY <1>2, WorldFields DEF Mid
  <2>2. on_setup(w, x) = IF w.sess[q].class = "proxy" THEN answer(w, q, "2xx") ELSE w
    BY <1>2, <2>1 DEF on_setup, on_peer_setup
  <2>3. Used(w, q)
    BY <2>1 DEF Mid, PeersOK
  <2>4. \A d \in Legs, s \in Sessions : Calling(w, d) /\ w.table[d] = s => w.sess[s].peer # q
    BY <2>1 DEF Mid, PeersOK, TableOK
  <2>5. Mid(answer(w, q, "2xx"), {}, Astrays) /\ \A d \in Legs : answer(w, q, "2xx").phase[d] # "over"
    BY <2>3, <2>4, AnswerMid
  <2> QED
    BY <2>2, <2>5
<1> QED
  BY <1>1, <1>2

(* Every callback but that of a new call.                                   *)
LEMMA EventStep ==
    ASSUME IInv, NEW c \in Legs, Event(c)
    PROVE  IInv' /\ astray' \subseteq Astrays
<1>0. /\ phase[c] \in {"idle", "offered", "answered", "trying", "ringing", "talking"}
      /\ t_call_legs[c] \in Sessions \cup {None} /\ None \notin Sessions
  BY WorldMid, WorldFields, ProxyAssumption DEF IInv, Mid, Phases
<1>1. PICK e \in Leg(phase[c])!Callbacks(phase[c]) :
         /\ e[1] # "Incall"
         /\ LET w == [World EXCEPT !.phase[c] = e[2]]
                b == IF e[2] = "over"
                     THEN Ends(w, c, IF e[1] = "Timeout" THEN "timeout" ELSE "told") ELSE w
                h == on_event(b, c, e[1])
            IN  Becomes(IF h.phase[c] = "over" THEN Frees(h, c) ELSE h)
  BY DEF Event
<1> DEFINE w == [World EXCEPT !.phase[c] = e[2]]
           b == IF e[2] = "over" THEN Ends(w, c, IF e[1] = "Timeout" THEN "timeout" ELSE "told") ELSE w
           h == on_event(b, c, e[1])
           x == t_call_legs[c]
<1>2. Becomes(IF h.phase[c] = "over" THEN Frees(h, c) ELSE h)
  BY <1>1
<1>3. CASE e[2] = "over"
  <2> DEFINE how == IF e[1] = "Timeout" THEN "timeout" ELSE "told"
             o == Ends([World EXCEPT !.phase[c] = "over"], c, how)
  <2>1. /\ e[1] \in {"EndCall", "Error", "Timeout"} /\ phase[c] # "idle"
        /\ e[1] = "Error" => phase[c] \in {"trying", "ringing"}
    BY <1>0, <1>1, <1>3, EventCases
  <2>2. b = o /\ how \in {"told", "timeout"}
    BY <1>3
  <2>3. o.table = t_call_legs
    <3> DEFINE u == [World EXCEPT !.phase[c] = "over"]
    <3>1. "over" \in Phases /\ World \in Worlds /\ how \in {"asked", "told", "timeout", "silent", "robbed"}
      BY <2>2 DEF Phases, IInv, Mid
    <3>2. u \in Worlds /\ u.table = World.table
      BY <3>1, PhaseFields
    <3> HIDE DEF how, u
    <3>3. Ends(u, c, how).table = u.table
      BY <3>1, <3>2, EndsFields
    <3> QED
      BY <3>2, <3>3, WorldMid DEF u
  <2>4. CASE x = None
    <3>1. h = o
      BY <2>2, <2>3, <2>4 DEF on_event
    <3>2. Becomes(IF o.phase[c] = "over" THEN Frees(o, c) ELSE o)
      BY <1>2, <3>1
    <3> HIDE DEF how, h, b
    <3> QED
      BY <2>1, <2>2, <2>4, <3>2, UnheardEndStep
  <2>5. CASE x # None /\ e[1] = "EndCall"
    <3>1. h = on_bye(Ends([World EXCEPT !.phase[c] = "over"], c, "told"), x)
      BY <2>2, <2>3, <2>5 DEF on_event
    <3> HIDE DEF h
    <3> QED
      BY <1>0, <1>2, <2>1, <2>5, <3>1, EndCallStep
  <2>6. CASE x # None /\ e[1] = "Error"
    <3>1. h = on_error(Ends([World EXCEPT !.phase[c] = "over"], c, "told"), x)
      BY <2>2, <2>3, <2>6 DEF on_event
    <3> HIDE DEF h
    <3> QED
      BY <1>0, <1>2, <2>1, <2>6, <3>1, ErrorStep
  <2>7. CASE x # None /\ e[1] = "Timeout"
    <3>1. h = on_timeout(Ends([World EXCEPT !.phase[c] = "over"], c, "timeout"), x)
      BY <2>2, <2>3, <2>7 DEF on_event
    <3> HIDE DEF h
    <3> QED
      BY <1>0, <1>2, <2>1, <2>7, <3>1, TimeoutStep
  <2> QED
    BY <2>1, <2>4, <2>5, <2>6, <2>7
<1>4. CASE e[2] # "over"
  <2>1. /\ phase[c] \in {"answered", "trying", "ringing", "talking"}
        /\ e[2] \in {"answered", "trying", "ringing", "talking", "offered"}
        /\ e[2] \in {"trying", "ringing"} => phase[c] \in {"trying", "ringing"}
        /\ e[1] \in {"RingBack", "InCallSetup", "OutCallSetup", "ReIncall"}
        /\ e[1] \in {"InCallSetup", "OutCallSetup"} => e[2] \in {"talking", "answered"}
    BY <1>0, <1>1, <1>4, EventCases
  <2>2. /\ Mid(w, {}, Astrays) /\ w.table = t_call_legs /\ w.sess = sess
        /\ w.phase = [phase EXCEPT ![c] = e[2]]
        /\ \A d \in Legs : w.phase[d] # "over"
    BY <2>1, GoesOn
  <2>3. h = on_event(w, c, e[1])
    BY <1>4
  <2> HIDE DEF w, h
  <2>4. Mid(h, {}, Astrays) /\ \A d \in Legs : h.phase[d] # "over"
    <3>1. CASE x = None \/ e[1] = "ReIncall"
      <4>1. h = w
        BY <2>2, <2>3, <3>1 DEF on_event
      <4> QED
        BY <2>2, <4>1
    <3>2. CASE x # None /\ e[1] = "RingBack"
      <4>1. h = on_ringback(w, x)
        BY <2>2, <2>3, <3>2 DEF on_event
      <4>2. h = w \/ (w.sess[x].peer # None /\ h = Reaches(w, w.sess[x].peer))
        BY <4>1 DEF on_ringback, on_peer_ringback, ringback
      <4>3. x \in Sessions /\ Mid(w, {}, Astrays) /\ \A d \in Legs : w.phase[d] # "over"
        BY <1>0, <2>2, <3>2
      <4> HIDE DEF x
      <4> DEFINE v == Reaches(w, w.sess[x].peer)
      <4>4. w.sess[x].peer # None => Mid(v, {}, Astrays) /\ \A d \in Legs : v.phase[d] # "over"
        BY <4>3, PeerReaches
      <4> HIDE DEF v
      <4>5. h = w \/ (w.sess[x].peer # None /\ h = v)
        BY <4>2 DEF v
      <4> QED
        BY <4>3, <4>4, <4>5
    <3>3. CASE x # None /\ e[1] \in {"InCallSetup", "OutCallSetup"}
      <4>1. h = on_setup(w, x)
        BY <2>2, <2>3, <3>3 DEF on_event
      <4>2. ~Calling(w, c)
        BY <2>1, <2>2, <3>3, WorldMid, WorldFields DEF Calling, Mid
      <4>3. x \in Sessions /\ w.table[c] = x /\ Mid(w, {}, Astrays) /\ \A d \in Legs : w.phase[d] # "over"
        BY <1>0, <2>2, <3>3
      <4> HIDE DEF x
      <4> DEFINE v == on_setup(w, x)
      <4>4. Mid(v, {}, Astrays) /\ \A d \in Legs : v.phase[d] # "over"
        BY <4>2, <4>3, SetupMid
      <4> HIDE DEF v
      <4>5. h = v
        BY <4>1 DEF v
      <4> QED
        BY <4>4, <4>5
    <3> QED
      BY <2>1, <3>1, <3>2, <3>3
  <2> QED
    BY <1>2, <2>4, StaysStep
<1> QED
  BY <1>3, <1>4

(* A digit is passed on.                                                    *)
LEMMA DtmfStep ==
    ASSUME IInv, NEW c \in Legs, Dtmf(c)
    PROVE  IInv' /\ astray' \subseteq Astrays
<1> DEFINE x == t_call_legs[c]
           h == on_dtmf(World, x)
<1>1. Becomes(h) /\ x \in Sessions
  BY WorldMid, WorldFields DEF Dtmf, Mid
<1>2. Mid(World, {}, Astrays) /\ \A d \in Legs : World.phase[d] # "over"
  BY WorldMid DEF IInv
<1>3. h = World \/ (World.sess[x].peer # None /\ h = Reaches(World, World.sess[x].peer))
  BY DEF on_dtmf, send_info
<1> HIDE DEF x, h
<1>4. Mid(h, {}, Astrays) /\ \A d \in Legs : h.phase[d] # "over"
  BY <1>1, <1>2, <1>3, PeerReaches
<1> QED
  BY <1>1, <1>4, StaysStep

(* What a channel does without a callback.                                  *)
LEMMA SilentStep ==
    ASSUME IInv, NEW c \in Legs, Silent(c)
    PROVE  IInv' /\ astray' \subseteq Astrays
<1>0. phase[c] \in {"idle", "offered", "answered", "trying", "ringing", "talking"}
  BY WorldMid, WorldFields DEF IInv, Mid, Phases
<1>1. PICK p \in Leg(phase[c])!Unheard(phase[c]) :
         LET w == [World EXCEPT !.phase[c] = p]
         IN  Becomes(IF p = "idle" THEN Frees(Ends(w, c, "silent"), c) ELSE w)
  BY DEF Silent
<1>2. /\ phase[c] \in {"answered", "trying", "ringing", "talking"}
      /\ p \in {"answered", "trying", "talking", "idle"}
      /\ p = "trying" => phase[c] = "ringing"
  <2>1. CASE phase[c] \in {"idle", "offered"}
    BY <2>1 DEF Leg!Unheard
  <2>2. CASE phase[c] \in {"answered", "talking"}
    BY <2>2 DEF Leg!Unheard
  <2>3. CASE phase[c] \in {"trying", "ringing"}
    BY <2>3 DEF Leg!Unheard
  <2> QED
    BY <1>0, <2>1, <2>2, <2>3
<1> DEFINE w == [World EXCEPT !.phase[c] = p]
           u == Ends(w, c, "silent")
           v == Frees(u, c)
<1>3. CASE p # "idle"
  <2>1. Mid(w, {}, Astrays) /\ \A d \in Legs : w.phase[d] # "over"
    BY <1>2, <1>3, GoesOn
  <2>2. Becomes(w)
    BY <1>1, <1>3
  <2> HIDE DEF w
  <2> QED
    BY <2>1, <2>2, StaysStep
<1>4. CASE p = "idle"
  <2>1. /\ Mid(World, {}, Astrays) /\ World \in Worlds /\ p \in Phases
        /\ phase \in [Legs -> Phases] /\ \A d \in Legs : phase[d] # "over"
    BY <1>4, WorldMid, WorldFields DEF Mid, Phases, IInv
  <2>2. /\ w \in Worlds /\ w.phase = [World.phase EXCEPT ![c] = p] /\ w.carries = World.carries
        /\ w.table = World.table /\ w.sess = World.sess /\ w.robbed = World.robbed /\ w.astray = World.astray
    BY <2>1, PhaseFields
  <2> HIDE DEF w
  <2>3. /\ u \in Worlds /\ Alike(u, w)
        /\ u.phase = w.phase /\ u.carries = w.carries /\ u.table = w.table
        /\ u.robbed = w.robbed /\ u.astray = w.astray
        /\ \A s \in Sessions :
              /\ w.carries[c] # s => u.sess[s] = w.sess[s]
              /\ w.carries[c] = s => u.sess[s].ended = IF w.sess[s].ended = "no" THEN "silent" ELSE w.sess[s].ended
    BY <2>2, EndsFields
  <2> HIDE DEF u
  <2>4. /\ v \in Worlds /\ v.phase = [u.phase EXCEPT ![c] = "idle"] /\ v.carries = [u.carries EXCEPT ![c] = None]
        /\ v.table = u.table /\ v.sess = u.sess /\ v.robbed = u.robbed \ {c} /\ v.astray = u.astray
    BY <2>3, FreesFields
  <2>5. Becomes(v)
    BY <1>1, <1>4 DEF u, w
  <2> HIDE DEF v
  <2>6. v.phase = [World.phase EXCEPT ![c] = "idle"]
    BY <2>1, <2>2, <2>3, <2>4, WorldMid
  <2>7. v.carries = [World.carries EXCEPT ![c] = None] /\ v.table = World.table
        /\ v.robbed = World.robbed \ {c} /\ v.astray = World.astray
    BY <2>2, <2>3, <2>4
  <2>8. Alike(v, World)
    BY <2>2, <2>3, <2>4 DEF Alike
  <2>9. /\ \A s \in Sessions : World.carries[c] # s => v.sess[s] = World.sess[s]
        /\ \A s \in Sessions \ {} : World.carries[c] = s => v.sess[s].ended \in Cut
    <3>1. \A s \in Sessions : World.carries[c] = s => World.sess[s].ended \in Cut \cup {"no"}
      BY <2>1 DEF Mid, EndsOK, CarriesOK
    <3> QED
      BY <2>2, <2>3, <2>4, <3>1 DEF Cut
  <2>10. Mid(v, {}, Astrays)
    BY <2>1, <2>4, <2>6, <2>7, <2>8, <2>9, FreedMid
  <2>11. \A d \in Legs : v.phase[d] # "over"
    BY <2>1, <2>6, WorldMid
  <2> QED
    BY <2>5, <2>10, <2>11, StaysStep
<1> QED
  BY <1>3, <1>4
-----------------------------------------------------------------------------
(* A call is offered on a free channel.                                     *)
LEMMA OfferedMid ==
    ASSUME NEW w, Mid(w, {}, Sessions), NEW c \in Legs, w.phase[c] = "idle", NEW v \in Worlds,
           v.phase = [w.phase EXCEPT ![c] = "offered"], v.carries = w.carries, v.table = w.table,
           v.sess = w.sess, v.robbed = w.robbed, v.astray = w.astray
    PROVE  Mid(v, {}, Sessions)
<1>1. w \in Worlds /\ w.phase \in [Legs -> Phases]
  BY WorldFields DEF Mid
<1>2. v.phase[c] = "offered" /\ \A d \in Legs : d # c => v.phase[d] = w.phase[d]
  BY <1>1
<1>3. SessOK(v) /\ TableOK(v) /\ PeersOK(v) /\ EndsOK(v, {})
  BY DEF Mid, SessOK, TableOK, PeersOK, EndsOK, Used
<1>4. CarriesOK(v) /\ CarriedOK(v, {}) /\ OwnedOK(v)
  BY <1>2 DEF Mid, CarriesOK, CarriedOK, OwnedOK, Used
<1>5. RingsOK(v)
  <2>1. \A d \in Legs : Calling(v, d) => Calling(w, d)
    BY <1>2 DEF Calling
  <2>2. \A d \in Legs : w.phase[d] \in {"offered", "over"} => v.phase[d] \in {"offered", "over"}
    BY <1>2
  <2>3. \A s, q \in Sessions : w.sess[s].peer = q => w.sess[q].leg \in Legs
    BY DEF Mid, PeersOK, SessOK
  <2> QED
    BY <2>1, <2>2, <2>3 DEF Mid, RingsOK
<1>6. ActsOK(v, Sessions)
  BY DEF Mid, ActsOK
<1> QED
  BY <1>3, <1>4, <1>5, <1>6 DEF Mid

(* Session s, of class k, is new and takes channel c, in phase ph of a call *)
(* that may have failed already.                                            *)
Takes(v, w, s, c, k, ph) ==
    /\ v \in Worlds /\ v.robbed = w.robbed /\ v.astray = w.astray
    /\ v.phase[c] = ph /\ v.table[c] = s
    /\ ph = "idle" => v.carries[c] = w.carries[c] /\ v.sess[s].ended = "silent"
    /\ ph # "idle" => v.carries[c] = s /\ v.sess[s].ended = "no"
    /\ v.sess[s].class = k /\ v.sess[s].leg = c /\ v.sess[s].peer = None
    /\ \A d \in Legs \ {c} : /\ v.phase[d] = w.phase[d] /\ v.table[d] = w.table[d]
                             /\ v.carries[d] = w.carries[d]
    /\ \A z \in Sessions \ {s} : v.sess[z] = w.sess[z]

(* A new session takes a free channel for its call, which may fail at once. *)
LEMMA TakesMid ==
    ASSUME NEW w, Mid(w, {}, Sessions), NEW c \in Legs, w.phase[c] = "idle",
           NEW s \in Sessions, ~Used(w, s), NEW k \in {"proxy", "b2b"},
           NEW ph \in {"offered", "trying", "idle"}, ph = "trying" => k = "b2b",
           NEW v, Takes(v, w, s, c, k, ph)
    PROVE  /\ Mid(v, {}, Sessions)
           /\ \A z \in Sessions : v.sess[z].peer # s
<1>0. /\ v \in Worlds /\ v.robbed = w.robbed /\ v.astray = w.astray
      /\ v.phase[c] = ph /\ v.table[c] = s
      /\ ph = "idle" => v.carries[c] = w.carries[c] /\ v.sess[s].ended = "silent"
      /\ ph # "idle" => v.carries[c] = s /\ v.sess[s].ended = "no"
      /\ v.sess[s].class = k /\ v.sess[s].leg = c /\ v.sess[s].peer = None
      /\ \A d \in Legs \ {c} : /\ v.phase[d] = w.phase[d] /\ v.table[d] = w.table[d]
                               /\ v.carries[d] = w.carries[d]
      /\ \A z \in Sessions \ {s} : v.sess[z] = w.sess[z]
  BY DEF Takes
<1> USE <1>0
<1>1. /\ w \in Worlds /\ w.phase \in [Legs -> Phases] /\ w.table \in [Legs -> Sessions \cup {None}]
      /\ w.carries \in [Legs -> Sessions \cup {None}] /\ None \notin Sessions
  BY WorldFields, ProxyAssumption DEF Mid
<1>2. /\ v.phase[c] = ph /\ \A d \in Legs : d # c => v.phase[d] = w.phase[d]
      /\ v.table[c] = s /\ \A d \in Legs : d # c => v.table[d] = w.table[d]
      /\ \A d \in Legs : d # c => v.carries[d] = w.carries[d]
      /\ ph # "idle" => v.carries[c] = s
      /\ ph = "idle" => v.carries[c] = w.carries[c]
  OBVIOUS
<1>3. /\ Used(v, s) /\ v.sess[s].leg = c /\ v.sess[s].peer = None /\ v.sess[s].class = k
      /\ v.sess[s].ended = IF ph = "idle" THEN "silent" ELSE "no"
  BY DEF Used
<1>4. \A d \in Legs : w.carries[d] # s /\ w.table[d] # s
  BY DEF Mid, TableOK, CarriesOK
<1>5. \A z \in Sessions : w.sess[z].peer # s
  BY DEF Mid, PeersOK
<1>6. \A z \in Sessions : w.carries[c] # z
  BY DEF Mid, CarriesOK
<1>7. \A z \in Sessions : v.sess[z].peer # s
  BY <1>1, <1>3, <1>5
<1>8. SessOK(v)
  BY <1>3 DEF Mid, SessOK, Used
<1>9. TableOK(v)
  BY <1>2, <1>3, <1>4 DEF Mid, TableOK, Used
<1>10. CarriesOK(v)
  <2> SUFFICES ASSUME NEW d \in Legs, NEW z \in Sessions, v.carries[d] = z
               PROVE  Used(v, z) /\ v.sess[z].leg = d /\ v.phase[d] # "idle"
    BY DEF CarriesOK
  <2>1. CASE d = c
    BY <1>2, <1>3, <1>6, <2>1
  <2>2. CASE d # c
    <3>1. w.carries[d] = z /\ z # s /\ v.phase[d] = w.phase[d]
      BY <1>2, <1>4, <2>2
    <3> QED
      BY <3>1 DEF Mid, CarriesOK, Used
  <2> QED
    BY <2>1, <2>2
<1>11. PeersOK(v)
  <2> SUFFICES ASSUME NEW x \in Sessions, NEW q \in Sessions, v.sess[x].peer = q
               PROVE  /\ Used(v, x) /\ Used(v, q) /\ v.sess[q].leg # v.sess[x].leg
                      /\ v.sess[q].class # v.sess[x].class
                      /\ v.sess[q].peer \in {x, None}
                      /\ v.table[v.sess[q].leg] = q => v.sess[q].peer = x
                      /\ \A z \in Sessions : v.sess[z].peer = q => z = x
    BY DEF PeersOK
  <2>1. x # s /\ q # s
    BY <1>1, <1>3, <1>7
  <2>2. v.sess[x] = w.sess[x] /\ v.sess[q] = w.sess[q] /\ w.sess[x].peer = q
    BY <2>1
  <2>3. /\ Used(w, x) /\ Used(w, q) /\ w.sess[q].leg # w.sess[x].leg
        /\ w.sess[q].class # w.sess[x].class
        /\ w.sess[q].peer \in {x, None}
        /\ w.table[w.sess[q].leg] = q => w.sess[q].peer = x
        /\ \A z \in Sessions : w.sess[z].peer = q => z = x
    BY <2>2 DEF Mid, PeersOK
  <2>4. v.table[v.sess[q].leg] = q => w.table[w.sess[q].leg] = q
    <3>1. w.sess[q].leg \in Legs
      BY <2>3 DEF Mid, SessOK
    <3> QED
      BY <1>2, <2>1, <2>2, <3>1
  <2>5. \A z \in Sessions : v.sess[z].peer = q => w.sess[z].peer = q
    BY <1>1, <1>3
  <2> QED
    BY <2>2, <2>3, <2>4, <2>5 DEF Used
<1>12. EndsOK(v, {})
  <2> SUFFICES ASSUME NEW z \in Sessions, Used(v, z)
               PROVE  /\ v.sess[z].ended \in Cut \cup {"no"}
                      /\ v.sess[z].ended = "no" => v.table[v.sess[z].leg] = z /\ v.carries[v.sess[z].leg] = z
    BY DEF EndsOK
  <2>1. CASE z = s
    BY <1>2, <1>3, <2>1 DEF Cut
  <2>2. CASE z # s
    <3>1. v.sess[z] = w.sess[z] /\ Used(w, z) /\ w.sess[z].leg \in Legs
      BY <2>2 DEF Used, Mid, SessOK
    <3>2. /\ w.sess[z].ended \in Cut \cup {"no"}
          /\ w.sess[z].ended = "no" => w.table[w.sess[z].leg] = z /\ w.carries[w.sess[z].leg] = z
      BY <3>1 DEF Mid, EndsOK
    <3> QED
      BY <1>2, <1>6, <3>1, <3>2
  <2> QED
    BY <2>1, <2>2
<1>13. CarriedOK(v, {})
  <2> SUFFICES ASSUME NEW d \in Legs, NEW z \in Sessions, v.carries[d] = z, v.sess[z].ended # "no"
               PROVE  d \in v.robbed \/ v.phase[d] = "over"
    BY DEF CarriedOK
  <2>1. d # c
    BY <1>2, <1>3, <1>6
  <2>2. w.carries[d] = z /\ z # s
    BY <1>2, <1>4, <2>1
  <2> QED
    BY <1>2, <2>1, <2>2 DEF Mid, CarriedOK
<1>14. OwnedOK(v)
  BY <1>2 DEF Mid, OwnedOK
<1>15. RingsOK(v)
  <2> SUFFICES ASSUME NEW d \in Legs, NEW z \in Sessions, Calling(v, d), v.table[d] = z
               PROVE  /\ v.sess[z].class = "b2b"
                      /\ \A q \in Sessions :
                            v.sess[z].peer = q /\ v.table[v.sess[q].leg] = q /\ v.carries[v.sess[q].leg] = q
                                => v.phase[v.sess[q].leg] \in {"offered", "over"} \/ v.sess[q].leg \in v.robbed
    BY DEF RingsOK
  <2>1. CASE d = c
    <3>1. z = s /\ ph = "trying"
      BY <1>2, <2>1 DEF Calling
    <3> QED
      BY <1>1, <1>3, <3>1
  <2>2. CASE d # c
    <3>1. Calling(w, d) /\ w.table[d] = z /\ z # s /\ v.sess[z] = w.sess[z]
      BY <1>2, <1>4, <2>2 DEF Calling
    <3>2. v.sess[z].class = "b2b"
      BY <3>1 DEF Mid, RingsOK
    <3>3. ASSUME NEW q \in Sessions, v.sess[z].peer = q, v.table[v.sess[q].leg] = q, v.carries[v.sess[q].leg] = q
          PROVE  v.phase[v.sess[q].leg] \in {"offered", "over"} \/ v.sess[q].leg \in v.robbed
      <4>1. q # s /\ v.sess[q] = w.sess[q] /\ w.sess[z].peer = q
        BY <1>7, <3>1, <3>3
      <4>2. w.sess[q].leg \in Legs
        BY <4>1 DEF Mid, PeersOK, SessOK
      <4>3. w.sess[q].leg # c
        BY <1>2, <3>3, <4>1
      <4>4. w.table[w.sess[q].leg] = q /\ w.carries[w.sess[q].leg] = q
            /\ v.phase[w.sess[q].leg] = w.phase[w.sess[q].leg]
        BY <1>2, <3>3, <4>1, <4>2, <4>3
      <4>5. w.phase[w.sess[q].leg] \in {"offered", "over"} \/ w.sess[q].leg \in w.robbed
        BY <3>1, <4>1, <4>4 DEF Mid, RingsOK
      <4> QED
        BY <4>1, <4>4, <4>5
    <3> QED
      BY <3>2, <3>3
  <2> QED
    BY <2>1, <2>2
<1>16. ActsOK(v, Sessions)
  BY DEF Mid, ActsOK
<1> QED
  BY <1>7, <1>8, <1>9, <1>10, <1>11, <1>12, <1>13, <1>14, <1>15, <1>16 DEF Mid

(* The caller's session and the callee's, both new, are each other's peer.  *)
LEMMA PairMid ==
    ASSUME NEW w, Mid(w, {}, Sessions), NEW s \in Sessions, NEW q \in Sessions, Used(w, s), Used(w, q),
           w.sess[s].class = "proxy", w.sess[q].class = "b2b", w.sess[s].leg # w.sess[q].leg,
           w.phase[w.sess[s].leg] = "offered",
           \A z \in Sessions : w.sess[z].peer \notin {s, q},
           NEW v \in Worlds, v.phase = w.phase, v.table = w.table, v.carries = w.carries,
           v.robbed = w.robbed, v.astray = w.astray,
           \A z \in Sessions : /\ v.sess[z].class = w.sess[z].class /\ v.sess[z].leg = w.sess[z].leg
                               /\ v.sess[z].ended = w.sess[z].ended
                               /\ v.sess[z].peer = IF z = s THEN q ELSE IF z = q THEN s ELSE w.sess[z].peer,
           \A z \in Sessions \ {s, q} : v.sess[z] = w.sess[z]
    PROVE  Mid(v, {}, Sessions)
<1>1. \A z \in Sessions : Used(v, z) = Used(w, z)
  BY DEF Used
<1>2. SessOK(v) /\ TableOK(v) /\ CarriesOK(v)
  BY <1>1 DEF Mid, SessOK, TableOK, CarriesOK
<1>3. EndsOK(v, {}) /\ CarriedOK(v, {}) /\ OwnedOK(v) /\ ActsOK(v, Sessions)
  BY <1>1 DEF Mid, EndsOK, CarriedOK, OwnedOK, ActsOK
<1>4. s # q
  OBVIOUS
<1>5. PeersOK(v)
  <2> SUFFICES ASSUME NEW x \in Sessions, NEW y \in Sessions, v.sess[x].peer = y
               PROVE  /\ Used(v, x) /\ Used(v, y) /\ v.sess[y].leg # v.sess[x].leg
                      /\ v.sess[y].class # v.sess[x].class
                      /\ v.sess[y].peer \in {x, None}
                      /\ v.table[v.sess[y].leg] = y => v.sess[y].peer = x
                      /\ \A z \in Sessions : v.sess[z].peer = y => z = x
    BY DEF PeersOK
  <2>1. CASE x = s
    BY <1>1, <1>4, <2>1
  <2>2. CASE x = q
    BY <1>1, <1>4, <2>2
  <2>3. CASE x \notin {s, q}
    <3>1. w.sess[x].peer = y /\ y \notin {s, q}
      BY <2>3
    <3>2. /\ Used(w, x) /\ Used(w, y) /\ w.sess[y].leg # w.sess[x].leg
          /\ w.sess[y].class # w.sess[x].class
          /\ w.sess[y].peer \in {x, None}
          /\ w.table[w.sess[y].leg] = y => w.sess[y].peer = x
          /\ \A z \in Sessions : w.sess[z].peer = y => z = x
      BY <3>1 DEF Mid, PeersOK
    <3>3. \A z \in Sessions : v.sess[z].peer = y => w.sess[z].peer = y
      BY <3>1
    <3>4. v.sess[y] = w.sess[y] /\ v.sess[x] = w.sess[x]
      BY <2>3, <3>1
    <3> QED
      BY <1>1, <3>2, <3>3, <3>4
  <2> QED
    BY <2>1, <2>2, <2>3
<1>6. RingsOK(v)
  <2> SUFFICES ASSUME NEW d \in Legs, NEW x \in Sessions, Calling(v, d), v.table[d] = x
               PROVE  /\ v.sess[x].class = "b2b"
                      /\ \A y \in Sessions :
                            v.sess[x].peer = y /\ v.table[v.sess[y].leg] = y /\ v.carries[v.sess[y].leg] = y
                                => v.phase[v.sess[y].leg] \in {"offered", "over"} \/ v.sess[y].leg \in v.robbed
    BY DEF RingsOK
  <2>1. Calling(w, d) /\ w.table[d] = x
    BY DEF Calling
  <2>2. w.sess[x].class = "b2b"
    BY <2>1 DEF Mid, RingsOK
  <2>3. CASE x = q
    BY <1>4, <2>2, <2>3
  <2>4. CASE x # q
    <3>1. x # s /\ v.sess[x].peer = w.sess[x].peer
      BY <2>2, <2>4
    <3> QED
      BY <2>1, <2>2, <3>1 DEF Mid, RingsOK
  <2> QED
    BY <2>3, <2>4
<1> QED
  BY <1>2, <1>3, <1>5, <1>6 DEF Mid

(* The new session of a channel.                                            *)
LEMMA NewFields ==
    ASSUME NEW w \in Worlds, NEW s \in Sessions, NEW class \in {"proxy", "b2b"}, NEW c \in Legs
    PROVE  LET v == NewSession(w, s, class, c)
           IN  /\ v \in Worlds /\ v.phase = w.phase /\ v.carries = w.carries /\ v.table = w.table
               /\ v.robbed = w.robbed /\ v.astray = w.astray
               /\ v.sess[s] = [class |-> class, leg |-> c, peer |-> None, ended |-> "no"]
               /\ \A z \in Sessions \ {s} : v.sess[z] = w.sess[z]
  BY DEF NewSession, Unused, Worlds, SessType

(* The session of the caller, in the table.                                 *)
LEMMA InFields ==
    ASSUME NEW w \in Worlds, NEW s \in Sessions, NEW c \in Legs
    PROVE  LET v == push_self([NewSession(w, s, "proxy", c) EXCEPT !.carries[c] = s], s, c)
           IN  /\ v \in Worlds /\ v.phase = w.phase /\ v.carries = [w.carries EXCEPT ![c] = s]
               /\ v.table = [w.table EXCEPT ![c] = s] /\ v.robbed = w.robbed /\ v.astray = w.astray
               /\ v.sess[s] = [class |-> "proxy", leg |-> c, peer |-> None, ended |-> "no"]
               /\ \A z \in Sessions \ {s} : v.sess[z] = w.sess[z]
<1> DEFINE n == NewSession(w, s, "proxy", c)
<1>1. /\ n \in Worlds /\ n.phase = w.phase /\ n.carries = w.carries /\ n.table = w.table
      /\ n.robbed = w.robbed /\ n.astray = w.astray
      /\ n.sess[s] = [class |-> "proxy", leg |-> c, peer |-> None, ended |-> "no"]
      /\ \A z \in Sessions \ {s} : n.sess[z] = w.sess[z]
  BY NewFields
<1> HIDE DEF n
<1> DEFINE m == [n EXCEPT !.carries[c] = s]
<1>2. /\ m \in Worlds /\ m.phase = n.phase /\ m.carries = [n.carries EXCEPT ![c] = s] /\ m.table = n.table
      /\ m.robbed = n.robbed /\ m.astray = n.astray /\ m.sess = n.sess
  BY <1>1 DEF Worlds
<1> HIDE DEF m
<1> DEFINE v == push_self(m, s, c)
<1>3. /\ v \in Worlds /\ v.phase = m.phase /\ v.carries = m.carries /\ v.table = [m.table EXCEPT ![c] = s]
      /\ v.robbed = m.robbed /\ v.astray = m.astray /\ v.sess = m.sess
  BY <1>2 DEF Worlds, push_self
<1> HIDE DEF v
<1>4. /\ v \in Worlds /\ v.phase = w.phase /\ v.carries = [w.carries EXCEPT ![c] = s]
      /\ v.table = [w.table EXCEPT ![c] = s] /\ v.robbed = w.robbed /\ v.astray = w.astray
      /\ v.sess[s] = [class |-> "proxy", leg |-> c, peer |-> None, ended |-> "no"]
      /\ \A z \in Sessions \ {s} : v.sess[z] = w.sess[z]
  BY <1>1, <1>2, <1>3
<1> QED
  BY <1>4 DEF v, m, n

(* The session of the callee, whose call may have failed.                   *)
LEMMA OutFields ==
    ASSUME NEW w \in Worlds, NEW s \in Sessions, NEW c \in Legs, NEW ph \in {"trying", "idle"}
    PROVE  Takes(out_call(w, s, c, ph), w, s, c, "b2b", ph)
<1> DEFINE n == NewSession(w, s, "b2b", c)
           m == [n EXCEPT !.phase[c] = ph]
           l == push_self(m, s, c)
           v == out_call(w, s, c, ph)
<1>0. ph \in Phases
  BY DEF Phases
<1>1. /\ n \in Worlds /\ n.phase = w.phase /\ n.carries = w.carries /\ n.table = w.table
      /\ n.robbed = w.robbed /\ n.astray = w.astray
      /\ n.sess[s] = [class |-> "b2b", leg |-> c, peer |-> None, ended |-> "no"]
      /\ \A z \in Sessions \ {s} : n.sess[z] = w.sess[z]
  BY NewFields
<1>2. v = IF ph = "idle" THEN [l EXCEPT !.sess[s].ended = "silent"] ELSE [l EXCEPT !.carries[c] = s]
  BY DEF out_call
<1> HIDE DEF n
<1>3. /\ m \in Worlds /\ m.phase = [n.phase EXCEPT ![c] = ph] /\ m.carries = n.carries /\ m.table = n.table
      /\ m.sess = n.sess /\ m.robbed = n.robbed /\ m.astray = n.astray
  BY <1>0, <1>1, PhaseFields
<1> HIDE DEF m
<1>4. /\ l \in Worlds /\ l.phase = m.phase /\ l.carries = m.carries /\ l.table = [m.table EXCEPT ![c] = s]
      /\ l.robbed = m.robbed /\ l.astray = m.astray /\ l.sess = m.sess
  BY <1>3 DEF Worlds, push_self
<1> HIDE DEF l, v
<1>7. /\ w.phase \in [Legs -> Phases] /\ w.table \in [Legs -> Sessions \cup {None}]
      /\ w.carries \in [Legs -> Sessions \cup {None}]
  BY WorldFields
<1>5. CASE ph = "idle"
  <2>1. v = [l EXCEPT !.sess[s].ended = "silent"]
    BY <1>2, <1>5
  <2>0. l \in Worlds
    BY <1>4
  <2>2. /\ v \in Worlds /\ v.phase = l.phase /\ v.carries = l.carries /\ v.table = l.table
        /\ v.robbed = l.robbed /\ v.astray = l.astray
        /\ v.sess = [l.sess EXCEPT ![s] = [l.sess[s] EXCEPT !.ended = "silent"]]
    <3>1. l.sess \in [Sessions -> SessType]
      BY <2>0, WorldFields
    <3>2. l.sess[s] \in SessType
      BY <3>1
    <3> DEFINE r == [l.sess[s] EXCEPT !.ended = "silent"]
    <3>3. r \in SessType
      BY <3>2 DEF SessType
    <3>4. v = [l EXCEPT !.sess[s] = r]
      BY <2>1
    <3> HIDE DEF r
    <3>5. /\ v \in Worlds /\ v.phase = l.phase /\ v.carries = l.carries /\ v.table = l.table
          /\ v.robbed = l.robbed /\ v.astray = l.astray /\ v.sess = [l.sess EXCEPT ![s] = r]
      BY <2>0, <3>3, <3>4 DEF Worlds
    <3> QED
      BY <3>5 DEF r
  <2>5. l.sess \in [Sessions -> SessType]
    BY <2>0, WorldFields
  <2>3. v.sess[s] = [class |-> "b2b", leg |-> c, peer |-> None, ended |-> "silent"]
    BY <1>1, <1>3, <1>4, <2>2, <2>5
  <2>4. /\ v \in Worlds /\ v.phase = [w.phase EXCEPT ![c] = ph] /\ v.carries = w.carries
        /\ v.table = [w.table EXCEPT ![c] = s] /\ v.robbed = w.robbed /\ v.astray = w.astray
        /\ \A z \in Sessions \ {s} : v.sess[z] = w.sess[z]
    BY <1>1, <1>3, <1>4, <2>2, <2>5
  <2> QED
    BY <1>5, <1>7, <2>3, <2>4 DEF v, Takes
<1>6. CASE ph # "idle"
  <2>1. v = [l EXCEPT !.carries[c] = s]
    BY <1>2, <1>6
  <2>2. /\ v \in Worlds /\ v.phase = l.phase /\ v.carries = [l.carries EXCEPT ![c] = s] /\ v.table = l.table
        /\ v.robbed = l.robbed /\ v.astray = l.astray /\ v.sess = l.sess
    BY <1>4, <2>1 DEF Worlds
  <2>3. v.sess[s] = [class |-> "b2b", leg |-> c, peer |-> None, ended |-> "no"]
    BY <1>1, <1>3, <1>4, <2>2
  <2>4. /\ v \in Worlds /\ v.phase = [w.phase EXCEPT ![c] = ph] /\ v.carries = [w.carries EXCEPT ![c] = s]
        /\ v.table = [w.table EXCEPT ![c] = s] /\ v.robbed = w.robbed /\ v.astray = w.astray
        /\ \A z \in Sessions \ {s} : v.sess[z] = w.sess[z]
    BY <1>1, <1>3, <1>4, <2>2
  <2> QED
    BY <1>6, <1>7, <2>3, <2>4 DEF v, Takes
<1> QED
  BY <1>5, <1>6

(* A session gets a peer.                                                   *)
LEMMA PeerFields ==
    ASSUME NEW w \in Worlds, NEW s \in Sessions, NEW q \in Sessions
    PROVE  LET v == [w EXCEPT !.sess[s].peer = q]
           IN  /\ v \in Worlds /\ v.phase = w.phase /\ v.carries = w.carries /\ v.table = w.table
               /\ v.robbed = w.robbed /\ v.astray = w.astray
               /\ v.sess = [w.sess EXCEPT ![s] = [w.sess[s] EXCEPT !.peer = q]]
  BY DEF Worlds, SessType

(* Two sessions become each other's peer.                                   *)
LEMMA PairFields ==
    ASSUME NEW w \in Worlds, NEW s \in Sessions, NEW q \in Sessions, s # q
    PROVE  LET v == set_peers(w, s, q)
           IN  /\ v \in Worlds /\ v.phase = w.phase /\ v.carries = w.carries /\ v.table = w.table
               /\ v.robbed = w.robbed /\ v.astray = w.astray
               /\ \A z \in Sessions :
                     /\ v.sess[z].class = w.sess[z].class /\ v.sess[z].leg = w.sess[z].leg
                     /\ v.sess[z].ended = w.sess[z].ended
                     /\ v.sess[z].peer = IF z = s THEN q ELSE IF z = q THEN s ELSE w.sess[z].peer
               /\ \A z \in Sessions \ {s, q} : v.sess[z] = w.sess[z]
<1> DEFINE u == [w EXCEPT !.sess[s].peer = q]
           v == [u EXCEPT !.sess[q].peer = s]
<1>1. /\ u \in Worlds /\ u.phase = w.phase /\ u.carries = w.carries /\ u.table = w.table
      /\ u.robbed = w.robbed /\ u.astray = w.astray
      /\ u.sess = [w.sess EXCEPT ![s] = [w.sess[s] EXCEPT !.peer = q]]
  BY PeerFields
<1>2. set_peers(w, s, q) = v
  BY DEF set_peers
<1> HIDE DEF u
<1>3. /\ v \in Worlds /\ v.phase = u.phase /\ v.carries = u.carries /\ v.table = u.table
      /\ v.robbed = u.robbed /\ v.astray = u.astray
      /\ v.sess = [u.sess EXCEPT ![q] = [u.sess[q] EXCEPT !.peer = s]]
  BY <1>1, PeerFields
<1> HIDE DEF v
<1>4. w.sess \in [Sessions -> SessType] /\ u.sess \in [Sessions -> SessType]
  BY <1>1 DEF Worlds
<1>5. /\ v.sess[s] = [w.sess[s] EXCEPT !.peer = q] /\ v.sess[q] = [w.sess[q] EXCEPT !.peer = s]
      /\ \A z \in Sessions \ {s, q} : v.sess[z] = w.sess[z]
  BY <1>1, <1>3, <1>4
<1>6. \A z \in Sessions : w.sess[z] \in SessType
  BY <1>4
<1>7. \A z \in Sessions :
         /\ v.sess[z].class = w.sess[z].class /\ v.sess[z].leg = w.sess[z].leg
         /\ v.sess[z].ended = w.sess[z].ended
         /\ v.sess[z].peer = IF z = s THEN q ELSE IF z = q THEN s ELSE w.sess[z].peer
  BY <1>5, <1>6 DEF SessType
<1> QED
  BY <1>1, <1>2, <1>3, <1>5, <1>7

(* The session of the caller calls the callee, by a new one.                *)
LEMMA BridgedMid ==
    ASSUME NEW w, Mid(w, {}, Sessions), NEW s \in Sessions, Used(w, s), w.sess[s].class = "proxy",
           w.phase[w.sess[s].leg] = "offered", NEW q \in Sessions, ~Used(w, q),
           \A z \in Sessions : w.sess[z].peer # s,
           NEW d \in Legs, w.phase[d] = "idle", NEW ph \in {"trying", "idle"},
           \A e \in Legs : w.phase[e] # "over"
    PROVE  LET v == set_peers(out_call(w, q, d, ph), s, q)
           IN  Mid(v, {}, Sessions) /\ v.astray = w.astray /\ \A e \in Legs : v.phase[e] # "over"
<1> DEFINE c == w.sess[s].leg
           o == out_call(w, q, d, ph)
           v == set_peers(o, s, q)
<1>0. w \in Worlds /\ c \in Legs /\ d # c /\ q # s
  BY DEF Mid, SessOK
<1>9. Takes(o, w, q, d, "b2b", ph)
  BY <1>0, OutFields
<1> HIDE DEF o
<1>1. /\ o \in Worlds /\ o.astray = w.astray
      /\ o.phase[d] = ph /\ o.sess[q].class = "b2b" /\ o.sess[q].leg = d /\ o.sess[q].peer = None
      /\ \A e \in Legs \ {d} : o.phase[e] = w.phase[e]
      /\ \A z \in Sessions \ {q} : o.sess[z] = w.sess[z]
  BY <1>9 DEF Takes
<1>2. /\ v \in Worlds /\ v.phase = o.phase /\ v.carries = o.carries /\ v.table = o.table
      /\ v.robbed = o.robbed /\ v.astray = o.astray
      /\ \A z \in Sessions :
            /\ v.sess[z].class = o.sess[z].class /\ v.sess[z].leg = o.sess[z].leg
            /\ v.sess[z].ended = o.sess[z].ended
            /\ v.sess[z].peer = IF z = s THEN q ELSE IF z = q THEN s ELSE o.sess[z].peer
      /\ \A z \in Sessions \ {s, q} : v.sess[z] = o.sess[z]
  BY <1>0, <1>1, PairFields
<1> HIDE DEF v
<1>3. Mid(o, {}, Sessions) /\ \A z \in Sessions : o.sess[z].peer # q
  <2> DEFINE k == "b2b"
  <2>1. /\ ph \in {"offered", "trying", "idle"} /\ k \in {"proxy", "b2b"} /\ (ph = "trying" => k = "b2b")
        /\ Takes(o, w, q, d, k, ph)
    BY <1>9
  <2> HIDE DEF k
  <2> QED
    BY <2>1, TakesMid
<1>4. /\ Used(o, s) /\ o.sess[s].class = "proxy" /\ o.sess[s].leg = c
      /\ Used(o, q) /\ o.sess[q].class = "b2b" /\ o.sess[q].leg = d
  BY <1>0, <1>1 DEF Used
<1>5. /\ o.sess[s].leg # o.sess[q].leg /\ o.phase[o.sess[s].leg] = "offered"
      /\ \A e \in Legs : o.phase[e] # "over"
  BY <1>0, <1>1, <1>4
<1>6. \A z \in Sessions : o.sess[z].peer \notin {s, q}
  <2>1. o.sess[q].peer # s
    BY <1>1, ProxyAssumption
  <2> QED
    BY <1>1, <1>3, <2>1
<1>7. Mid(v, {}, Sessions)
  BY <1>2, <1>3, <1>4, <1>5, <1>6, PairMid
<1>8. v.astray = w.astray /\ \A e \in Legs : v.phase[e] # "over"
  BY <1>1, <1>2, <1>5
<1> QED
  BY <1>7, <1>8 DEF v, o

(* A new call, with the call to the callee that its session makes.          *)
LEMMA InCallStep ==
    ASSUME IInv, NEW c \in Legs, InCall(c)
    PROVE  IInv' /\ astray' \subseteq Astrays
<1> DEFINE w == [World EXCEPT !.phase[c] = "offered"]
           In(s) == push_self([NewSession(w, s, "proxy", c) EXCEPT !.carries[c] = s], s, c)
<1>1. /\ Mid(World, {}, Sessions) /\ World \in Worlds /\ World.astray = {} /\ "offered" \in Phases
      /\ World.phase = phase /\ World.table = t_call_legs /\ phase \in [Legs -> Phases]
      /\ \A d \in Legs : phase[d] # "over"
  BY WorldMid, WorldFields DEF IInv, Mid, Phases
<1>2. phase[c] = "idle"
  <2>1. phase[c] \in {"idle", "offered", "answered", "trying", "ringing", "talking"}
    BY <1>1 DEF Phases
  <2> QED
    BY <2>1 DEF InCall, Leg!Callbacks
<1>3. \/ t_call_legs[c] # None /\ Becomes(w)
      \/ \E s \in Sessions \ Reachable(World) :
            \/ Becomes(In(s))
            \/ \E q \in Sessions \ (Reachable(World) \cup {s}), d \in Legs, p \in Leg("idle")!OutCalls("idle") :
                  In(s).phase[d] = "idle" /\ Becomes(set_peers(out_call(In(s), q, d, p), s, q))
  BY DEF InCall
<1>4. /\ w \in Worlds /\ w.phase = [World.phase EXCEPT ![c] = "offered"] /\ w.carries = World.carries
      /\ w.table = World.table /\ w.sess = World.sess /\ w.robbed = World.robbed /\ w.astray = World.astray
  BY <1>1, PhaseFields
<1> HIDE DEF w
<1>5. ASSUME NEW v, Mid(v, {}, Sessions), v.astray = {}, \A d \in Legs : v.phase[d] # "over", Becomes(v)
      PROVE  IInv' /\ astray' \subseteq Astrays
  <2>1. IInv'
    BY <1>5, BecomesInv
  <2> QED
    BY <1>5, <2>1 DEF Becomes
<1>6. CASE Becomes(w)
  <2>1. World.phase[c] = "idle"
    BY <1>1, <1>2
  <2>2. Mid(w, {}, Sessions)
    BY <1>1, <1>4, <2>1, OfferedMid
  <2>3. w.astray = {} /\ \A d \in Legs : w.phase[d] # "over"
    BY <1>1, <1>4
  <2> QED
    BY <1>5, <1>6, <2>2, <2>3
<1>7. ASSUME NEW s \in Sessions \ Reachable(World),
             \/ Becomes(In(s))
             \/ \E q \in Sessions \ (Reachable(World) \cup {s}), d \in Legs, p \in Leg("idle")!OutCalls("idle") :
                   In(s).phase[d] = "idle" /\ Becomes(set_peers(out_call(In(s), q, d, p), s, q))
      PROVE  IInv' /\ astray' \subseteq Astrays
  <2> DEFINE i == In(s)
  <2>1. ~Used(World, s)
    BY DEF IInv
  <2>2. /\ i \in Worlds /\ i.phase = w.phase /\ i.carries = [w.carries EXCEPT ![c] = s]
        /\ i.table = [w.table EXCEPT ![c] = s] /\ i.robbed = w.robbed /\ i.astray = w.astray
        /\ i.sess[s] = [class |-> "proxy", leg |-> c, peer |-> None, ended |-> "no"]
        /\ \A z \in Sessions \ {s} : i.sess[z] = w.sess[z]
    BY <1>4, InFields
  <2>3. \/ Becomes(i)
        \/ \E q \in Sessions \ (Reachable(World) \cup {s}), d \in Legs, p \in Leg("idle")!OutCalls("idle") :
              i.phase[d] = "idle" /\ Becomes(set_peers(out_call(i, q, d, p), s, q))
    BY <1>7
  <2> HIDE DEF i
  <2>4. /\ World.phase[c] = "idle"
        /\ i.phase = [World.phase EXCEPT ![c] = "offered"] /\ i.table = [World.table EXCEPT ![c] = s]
        /\ i.carries = [World.carries EXCEPT ![c] = s]
        /\ \A z \in Sessions \ {s} : i.sess[z] = World.sess[z]
        /\ i.robbed = World.robbed /\ i.astray = World.astray
    BY <1>1, <1>2, <1>4, <2>2
  <2>5. Mid(i, {}, Sessions) /\ \A z \in Sessions : i.sess[z].peer # s
    <3> DEFINE ph == "offered"
               k == "proxy"
    <3>1. /\ World.phase \in [Legs -> Phases] /\ World.table \in [Legs -> Sessions \cup {None}]
          /\ World.carries \in [Legs -> Sessions \cup {None}]
      BY <1>1, WorldFields
    <3>2. ph \in {"offered", "trying", "idle"} /\ k \in {"proxy", "b2b"} /\ (ph = "trying" => k = "b2b")
      OBVIOUS
    <3>3. Takes(i, World, s, c, k, ph)
      BY <2>2, <2>4, <3>1 DEF Takes
    <3>4. Mid(World, {}, Sessions) /\ World.phase[c] = "idle" /\ ~Used(World, s) /\ s \in Sessions
      BY <1>1, <2>1, <2>4
    <3> HIDE DEF ph, k
    <3> QED
      BY <3>2, <3>3, <3>4, TakesMid
  <2>6. i.astray = {} /\ i.phase[c] = "offered" /\ \A d \in Legs : i.phase[d] # "over"
    BY <1>1, <2>4
  <2>7. CASE Becomes(i)
    BY <1>5, <2>5, <2>6, <2>7
  <2>8. ASSUME NEW q \in Sessions \ (Reachable(World) \cup {s}), NEW d \in Legs,
               NEW p \in Leg("idle")!OutCalls("idle"), i.phase[d] = "idle",
               Becomes(set_peers(out_call(i, q, d, p), s, q))
        PROVE  IInv' /\ astray' \subseteq Astrays
    <3> DEFINE v == set_peers(out_call(i, q, d, p), s, q)
    <3>1. p \in {"trying", "idle"} /\ Becomes(v)
      BY <2>8 DEF Leg!OutCalls
    <3>2. ~Used(i, q)
      <4>1. ~Used(World, q) /\ q # s
        BY DEF IInv
      <4> QED
        BY <2>4, <4>1 DEF Used
    <3>3. Used(i, s) /\ i.sess[s].class = "proxy" /\ i.phase[i.sess[s].leg] = "offered"
      BY <2>2, <2>6 DEF Used
    <3>4. Mid(v, {}, Sessions) /\ v.astray = i.astray /\ \A e \in Legs : v.phase[e] # "over"
      BY <2>5, <2>6, <2>8, <3>1, <3>2, <3>3, BridgedMid
    <3> HIDE DEF v
    <3> QED
      BY <1>5, <2>6, <3>1, <3>4
  <2> QED
    BY <2>3, <2>7, <2>8
<1> HIDE DEF In
<1> QED
  BY <1>3, <1>6, <1>7

-----------------------------------------------------------------------------
(* Every step keeps the invariant, and only the cut off go astray.          *)
LEMMA StepInv ==
    ASSUME IInv, Next
    PROVE  IInv' /\ astray' \subseteq Astrays
<1>1. PICK c \in Legs : InCall(c) \/ Event(c) \/ Dtmf(c) \/ Silent(c)
  BY DEF Next
<1> QED
  BY <1>1, InCallStep, EventStep, DtmfStep, SilentStep

(* At the start every channel is idle and no session exists.                *)
LEMMA InitInv == Init => IInv
<1> SUFFICES ASSUME Init PROVE IInv
  OBVIOUS
<1>1. /\ World.phase = [c \in Legs |-> "idle"] /\ World.carries = [c \in Legs |-> None]
      /\ World.table = [c \in Legs |-> None] /\ World.sess = [s \in Sessions |-> Unused]
      /\ World.robbed = {} /\ World.astray = {}
      /\ None \notin Sessions
  BY ProxyAssumption DEF Init, World
<1>2. Unused \in SessType /\ Unused.class = "none" /\ Unused.peer = None
  BY DEF SessType, Unused
<1>3. World \in Worlds
  BY <1>2 DEF Init, World, Worlds, Phases
<1>4. \A s \in Sessions : ~Used(World, s) /\ World.sess[s].peer = None
  BY <1>1, <1>2 DEF Used
<1>5. SessOK(World) /\ TableOK(World) /\ CarriesOK(World) /\ PeersOK(World)
  BY <1>1, <1>4 DEF SessOK, TableOK, CarriesOK, PeersOK
<1>6. EndsOK(World, {}) /\ CarriedOK(World, {}) /\ OwnedOK(World) /\ RingsOK(World) /\ ActsOK(World, Sessions)
  BY <1>1, <1>4 DEF EndsOK, CarriedOK, OwnedOK, RingsOK, ActsOK, Calling
<1>7. Mid(World, {}, Sessions)
  BY <1>3, <1>5, <1>6 DEF Mid
<1> QED
  BY <1>4, <1>7 DEF IInv, Init

(* A stutter keeps the invariant.                                           *)
LEMMA SameInv == IInv /\ UNCHANGED vars => IInv'
<1> SUFFICES ASSUME IInv, UNCHANGED vars PROVE IInv'
  OBVIOUS
<1>1. World' = World /\ phase' = phase /\ astray' = astray
  BY DEF vars, World
<1> QED
  BY <1>1 DEF IInv

(* The invariant holds in every state of every behaviour: the sessions, the *)
(* table and the channels keep agreeing, whatever the callbacks bring.      *)
THEOREM Inductive == Spec => []IInv
<1>1. IInv /\ [Next]_vars => IInv'
  BY StepInv, SameInv
<1> QED
  BY InitInv, <1>1, PTL DEF Spec

(* The types of the channels, the table and the sessions.                   *)
THEOREM TypeCorrect == Spec => []TypeOK
<1>1. IInv => TypeOK
  <2> SUFFICES ASSUME IInv PROVE TypeOK
    OBVIOUS
  <2>1. /\ phase \in [Legs -> Phases] /\ carries \in [Legs -> Sessions \cup {None}]
        /\ t_call_legs \in [Legs -> Sessions \cup {None}] /\ sess \in [Sessions -> SessType]
        /\ robbed \subseteq Legs /\ astray \subseteq Sessions
    BY WorldMid, WorldFields DEF IInv, Mid
  <2>2. \A c \in Legs : phase[c] \in {"idle", "offered", "answered", "trying", "ringing", "talking"}
    BY <2>1 DEF IInv, Phases
  <2> QED
    BY <2>1, <2>2 DEF TypeOK, SessType
<1> QED
  BY <1>1, Inductive, PTL

(* The two legs of a bridged call end together: a session whose peer's call *)
(* is over goes on only if that call timed out, ended silently or was ended *)
(* by a third session.                                                      *)
THEOREM EndTogether == Spec => []LegsEndTogether
<1>1. IInv => LegsEndTogether
  <2> SUFFICES ASSUME IInv, NEW c \in Legs, NEW s, s = carries[c], s # None,
                      sess[s].ended = "no", sess[s].peer # None
               PROVE  \/ sess[sess[s].peer].ended = "no" /\ sess[sess[s].peer].peer = s
                      \/ sess[sess[s].peer].ended \in {"timeout", "silent", "robbed"}
    BY DEF LegsEndTogether
  <2>1. Mid(World, {}, Sessions) /\ World.sess = sess /\ World.carries = carries /\ World.table = t_call_legs
    BY WorldMid DEF IInv
  <2>2. s \in Sessions
    BY <2>1, WorldFields DEF Mid
  <2>3. PICK q \in Sessions : q = sess[s].peer
    BY <2>1, <2>2, WorldFields DEF Mid
  <2>4. Used(World, q) /\ (t_call_legs[sess[q].leg] = q => sess[q].peer = s)
    BY <2>1, <2>2, <2>3 DEF Mid, PeersOK
  <2>5. /\ sess[q].ended \in Cut \cup {"no"}
        /\ sess[q].ended = "no" => t_call_legs[sess[q].leg] = q
    BY <2>1, <2>4 DEF Mid, EndsOK
  <2> QED
    BY <2>3, <2>4, <2>5 DEF Cut
<1> QED
  BY <1>1, Inductive, PTL

(* A call whose session cannot hear of it any more is one that rings, and   *)
(* that _bye could not end, or one whose session was robbed of it.          *)
THEOREM Orphans == Spec => []OrphansRing
<1>1. IInv => OrphansRing
  BY WorldMid, ProxyAssumption DEF IInv, Mid, OwnedOK, OrphansRing
<1> QED
  BY <1>1, Inductive, PTL

(* A session acts on the call of another one only if its own call ended by  *)
(* the call-out timeout, silently, or by such an act.                       *)
THEOREM OwnCallOnly == Spec => ActsOnItsOwnCall
<1>1. IInv /\ [Next]_vars => [\A s \in astray' : sess[s].ended \in {"timeout", "silent", "robbed"}]_vars
  BY StepInv DEF Astrays, Cut
<1> QED
  BY <1>1, Inductive, PTL DEF Spec, ActsOnItsOwnCall
=============================================================================
