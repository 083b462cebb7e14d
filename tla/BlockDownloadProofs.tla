------------------------- MODULE BlockDownloadProofs -------------------------
(***************************************************************************)
(* The download bookkeeping of BlockDownload is consistent for every set   *)
(* of connections and blocks and every limit.                              *)
(***************************************************************************)
EXTENDS BlockDownload, SequenceTheorems, WellFoundedInduction, TLAPS

-----------------------------------------------------------------------------
(* Sequences. *)

LEMMA LeastNumber ==
  ASSUME NEW S \in SUBSET Nat, S # {}
  PROVE  \E m \in S : \A n \in S : m <= n
<1> DEFINE R == OpToRel(<, Nat)
<1>1. IsWellFoundedOn(R, Nat)
  BY NatLessThanWellFounded
<1>2. \A x, y \in Nat : y < x => <<y, x>> \in R
  BY DEF OpToRel
<1> HIDE DEF R
<1>3. PICK m \in S : \A y \in S : ~(<<y, m>> \in R)
  BY <1>1, WFMin
<1>4. \A n \in S : ~(n < m)
  BY <1>2, <1>3
<1> QED
  BY <1>4

(* Min picks the least element of a set of positions. *)
LEMMA MinOfPositions ==
  ASSUME NEW S \in SUBSET Nat, S # {}
  PROVE  Min(S) \in S /\ \A n \in S : Min(S) <= n
BY LeastNumber DEF Min

(* RemoveAt drops one element and moves the later ones up. *)
LEMMA RemoveAtFacts ==
  ASSUME NEW X, NEW s \in Seq(X), NEW i \in 1 .. Len(s)
  PROVE  /\ RemoveAt(s, i) \in Seq(X)
         /\ Len(RemoveAt(s, i)) = Len(s) - 1
         /\ \A j \in 1 .. Len(s) - 1 : RemoveAt(s, i)[j] = IF j < i THEN s[j] ELSE s[j + 1]
<1> DEFINE a == SubSeq(s, 1, i - 1)
           b == SubSeq(s, i + 1, Len(s))
<1>1. a \in Seq(X) /\ Len(a) = i - 1 /\ \A j \in 1 .. i - 1 : a[j] = s[j]
  OBVIOUS
<1>2. b \in Seq(X) /\ Len(b) = Len(s) - i /\ \A j \in 1 .. Len(s) - i : b[j] = s[j + i]
  OBVIOUS
<1>0. Len(s) \in Nat /\ i \in Nat /\ 1 <= i /\ i <= Len(s)
  OBVIOUS
<1> HIDE DEF a, b
<1>3. a \o b \in Seq(X) /\ Len(a \o b) = Len(s) - 1
  <2>1. a \o b \in Seq(X) /\ Len(a \o b) = Len(a) + Len(b)
    BY <1>1, <1>2, ConcatProperties
  <2> QED
    BY <2>1, <1>0, <1>1, <1>2
<1>4. ASSUME NEW j \in 1 .. Len(s) - 1
      PROVE  (a \o b)[j] = IF j < i THEN s[j] ELSE s[j + 1]
  <2>1. (a \o b)[j] = IF j <= Len(a) THEN a[j] ELSE b[j - Len(a)]
    BY <1>1, <1>2
  <2>2. CASE j < i
    BY <2>1, <2>2, <1>0, <1>1
  <2>3. CASE ~(j < i)
    <3>1. j - (i - 1) \in 1 .. Len(s) - i /\ (j - (i - 1)) + i = j + 1 /\ ~(j <= i - 1)
      BY <2>3, <1>0
    <3> QED
      BY <3>1, <2>1, <2>3, <1>1, <1>2
  <2> QED
    BY <2>2, <2>3
<1>5. RemoveAt(s, i) = a \o b
  BY DEF RemoveAt, a, b
<1> QED
  BY <1>3, <1>4, <1>5

(* Where SelectInSeq finds the block h in a queue, and in a list of requests. *)
LEMMA RemoveFirstIsRemoveAt ==
  ASSUME NEW X, NEW s \in Seq(X), NEW h, \E i \in 1 .. Len(s) : s[i] = h
  PROVE  \E i \in 1 .. Len(s) : s[i] = h /\ RemoveFirst(s, h) = RemoveAt(s, i)
<1> DEFINE I == {i \in 1 .. Len(s) : s[i] = h}
<1>1. I # {} /\ I \in SUBSET Nat
  OBVIOUS
<1>2. RemoveFirst(s, h) = RemoveAt(s, Min(I))
  BY <1>1 DEF RemoveFirst, SelectInSeq
<1>3. Min(I) \in I
  BY <1>1, MinOfPositions
<1> QED
  BY <1>2, <1>3

LEMMA RemoveMatchIsRemoveAt ==
  ASSUME NEW X, NEW s \in Seq(X), NEW h, \E i \in 1 .. Len(s) : s[i].hash = h
  PROVE  \E i \in 1 .. Len(s) :
            s[i].hash = h /\ RemoveFirstMatch(s, LAMBDA q : q.hash = h) = RemoveAt(s, i)
<1> DEFINE I == {i \in 1 .. Len(s) : s[i].hash = h}
<1>1. I # {} /\ I \in SUBSET Nat
  OBVIOUS
<1>2. RemoveFirstMatch(s, LAMBDA q : q.hash = h) = RemoveAt(s, Min(I))
  BY <1>1 DEF RemoveFirstMatch, SelectInSeq
<1>3. Min(I) \in I
  BY <1>1, MinOfPositions
<1> QED
  BY <1>2, <1>3

-----------------------------------------------------------------------------
(* One peer's two lists.  S is the set of blocks the global map names it for. *)

Request == [hash : Hash, nTime : Time]

QueueOK(q, k, S) ==
  /\ q \in Seq(Hash) /\ k = Len(q)
  /\ \A i \in 1 .. Len(q) : q[i] \in S
  /\ \A h \in S : \E i \in 1 .. Len(q) : q[i] = h
  /\ \A i, j \in 1 .. Len(q) : q[i] = q[j] => i = j

FlightOK(q, k, S) ==
  /\ q \in Seq(Request) /\ k = Len(q)
  /\ \A i \in 1 .. Len(q) : q[i].hash \in S
  /\ \A h \in S : \E i \in 1 .. Len(q) : q[i].hash = h
  /\ \A i, j \in 1 .. Len(q) : q[i].hash = q[j].hash => i = j
  /\ \A i, j \in 1 .. Len(q) : i < j => q[i].nTime <= q[j].nTime

LEMMA QueueRemove ==
  ASSUME NEW q, NEW k, NEW S, QueueOK(q, k, S), NEW h \in S
  PROVE  QueueOK(RemoveFirst(q, h), k - 1, S \ {h})
<1>1. PICK i \in 1 .. Len(q) : q[i] = h /\ RemoveFirst(q, h) = RemoveAt(q, i)
  BY RemoveFirstIsRemoveAt DEF QueueOK
<1> DEFINE r == RemoveFirst(q, h)
<1>2. /\ r \in Seq(Hash) /\ Len(r) = Len(q) - 1
      /\ \A j \in 1 .. Len(q) - 1 : r[j] = IF j < i THEN q[j] ELSE q[j + 1]
  <2>1. q \in Seq(Hash)
    BY DEF QueueOK
  <2> QED
    BY <1>1, <2>1, RemoveAtFacts
<1> HIDE DEF r
<1>3. q \in Seq(Hash) /\ Len(q) \in Nat /\ k = Len(q)
  BY DEF QueueOK
<1>4. \A j \in 1 .. Len(r) : r[j] \in S \ {h}
  BY <1>1, <1>2, <1>3 DEF QueueOK
<1>5. ASSUME NEW g \in S \ {h}
      PROVE  \E j \in 1 .. Len(r) : r[j] = g
  <2>1. PICK l \in 1 .. Len(q) : q[l] = g
    BY DEF QueueOK
  <2>2. l # i
    BY <2>1, <1>1
  <2>3. CASE l < i
    BY <2>1, <2>3, <1>2, <1>3
  <2>4. CASE l > i
    <3>1. l - 1 \in 1 .. Len(r) /\ ~(l - 1 < i) /\ (l - 1) + 1 = l
      BY <2>4, <1>2, <1>3
    <3> QED
      BY <3>1, <2>1, <1>2, <1>3
  <2> QED
    BY <2>2, <2>3, <2>4, <1>3
<1>6. \A a, b \in 1 .. Len(r) : r[a] = r[b] => a = b
  BY <1>2, <1>3 DEF QueueOK
<1> QED
  BY <1>2, <1>3, <1>4, <1>5, <1>6 DEF QueueOK, r

LEMMA FlightRemove ==
  ASSUME NEW q, NEW k, NEW S, FlightOK(q, k, S), NEW h \in S
  PROVE  FlightOK(RemoveFirstMatch(q, LAMBDA e : e.hash = h), k - 1, S \ {h})
<1> DEFINE r == RemoveFirstMatch(q, LAMBDA e : e.hash = h)
<1>1. PICK i \in 1 .. Len(q) : q[i].hash = h /\ r = RemoveAt(q, i)
  BY RemoveMatchIsRemoveAt DEF FlightOK
<1>2. /\ r \in Seq(Request) /\ Len(r) = Len(q) - 1
      /\ \A j \in 1 .. Len(q) - 1 : r[j] = IF j < i THEN q[j] ELSE q[j + 1]
  <2>1. q \in Seq(Request)
    BY DEF FlightOK
  <2> HIDE DEF r
  <2> QED
    BY <1>1, <2>1, RemoveAtFacts
<1>3. q \in Seq(Request) /\ Len(q) \in Nat /\ k = Len(q)
  BY DEF FlightOK
<1>7. FlightOK(r, k - 1, S \ {h})
  <2> HIDE DEF r
  <2>4. \A j \in 1 .. Len(r) : r[j].hash \in S \ {h}
    BY <1>1, <1>2, <1>3 DEF FlightOK
  <2>5. ASSUME NEW g \in S \ {h}
        PROVE  \E j \in 1 .. Len(r) : r[j].hash = g
    <3>1. PICK l \in 1 .. Len(q) : q[l].hash = g
      BY DEF FlightOK
    <3>2. l # i
      BY <3>1, <1>1
    <3>3. CASE l < i
      BY <3>1, <3>3, <1>2, <1>3
    <3>4. CASE l > i
      <4>1. l - 1 \in 1 .. Len(r) /\ ~(l - 1 < i) /\ (l - 1) + 1 = l
        BY <3>4, <1>2, <1>3
      <4> QED
        BY <4>1, <3>1, <1>2, <1>3
    <3> QED
      BY <3>2, <3>3, <3>4, <1>3
  <2>6. ASSUME NEW a \in 1 .. Len(r), NEW b \in 1 .. Len(r), r[a].hash = r[b].hash
        PROVE  a = b
    <3>1. \A x, y \in 1 .. Len(q) : q[x].hash = q[y].hash => x = y
      BY DEF FlightOK
    <3>2. \A x \in 1 .. Len(r) : \E y \in 1 .. Len(q) :
             r[x] = q[y] /\ y = IF x < i THEN x ELSE x + 1
      BY <1>2, <1>3
    <3>3. PICK x \in 1 .. Len(q) : r[a] = q[x] /\ x = IF a < i THEN a ELSE a + 1
      BY <3>2
    <3>4. PICK y \in 1 .. Len(q) : r[b] = q[y] /\ y = IF b < i THEN b ELSE b + 1
      BY <3>2
    <3>5. x = y
      BY <2>6, <3>1, <3>3, <3>4
    <3> QED
      BY <3>3, <3>4, <3>5, <1>2, <1>3
  <2>7. \A a, b \in 1 .. Len(r) : a < b => r[a].nTime <= r[b].nTime
    BY <1>2, <1>3 DEF FlightOK
  <2> QED
    BY <1>2, <1>3, <2>4, <2>5, <2>6, <2>7 DEF FlightOK
<1> QED
  BY <1>7

LEMMA QueueAppend ==
  ASSUME NEW q, NEW k, NEW S, QueueOK(q, k, S), NEW h \in Hash, h \notin S
  PROVE  QueueOK(Append(q, h), k + 1, S \cup {h})
<1> DEFINE r == Append(q, h)
<1>1. q \in Seq(Hash) /\ Len(q) \in Nat /\ k = Len(q)
  BY DEF QueueOK
<1>2. /\ r \in Seq(Hash) /\ Len(r) = Len(q) + 1 /\ r[Len(q) + 1] = h
      /\ \A j \in 1 .. Len(q) : r[j] = q[j]
  BY <1>1
<1> HIDE DEF r
<1>3. \A g \in S \cup {h} : \E j \in 1 .. Len(r) : r[j] = g
  <2>1. ASSUME NEW g \in S PROVE \E j \in 1 .. Len(r) : r[j] = g
    <3>1. PICK j \in 1 .. Len(q) : q[j] = g
      BY DEF QueueOK
    <3> QED
      BY <3>1, <1>1, <1>2
  <2>2. \E j \in 1 .. Len(r) : r[j] = h
    BY <1>1, <1>2
  <2> QED
    BY <2>1, <2>2
<1>4. \A j \in 1 .. Len(r) : r[j] \in S \cup {h}
  BY <1>1, <1>2 DEF QueueOK
<1>5. \A a, b \in 1 .. Len(r) : r[a] = r[b] => a = b
  BY <1>1, <1>2 DEF QueueOK
<1> QED
  BY <1>1, <1>2, <1>3, <1>4, <1>5 DEF QueueOK, r

LEMMA FlightAppend ==
  ASSUME NEW q, NEW k, NEW S, FlightOK(q, k, S), NEW h \in Hash, h \notin S
  PROVE  FlightOK(Append(q, [hash |-> h, nTime |-> 0]), k + 1, S \cup {h})
<1> DEFINE e == [hash |-> h, nTime |-> 0]
           r == Append(q, e)
<1>1. q \in Seq(Request) /\ Len(q) \in Nat /\ k = Len(q)
  BY DEF FlightOK
<1>2. e \in Request /\ e.hash = h /\ e.nTime = 0
  BY DownloadAssumption DEF Request, Time
<1>3. \A j \in 1 .. Len(q) : q[j].nTime \in Int /\ q[j].nTime <= 0
  <2>1. \A x \in Request : x.nTime \in -MaxAge .. 0
    BY DEF Request, Time
  <2> QED
    BY <2>1, <1>1, DownloadAssumption
<1> HIDE DEF e
<1>4. /\ r \in Seq(Request) /\ Len(r) = Len(q) + 1 /\ r[Len(q) + 1] = e
      /\ \A j \in 1 .. Len(q) : r[j] = q[j]
  BY <1>1, <1>2
<1> HIDE DEF r
<1>5. \A g \in S \cup {h} : \E j \in 1 .. Len(r) : r[j].hash = g
  <2>1. ASSUME NEW g \in S PROVE \E j \in 1 .. Len(r) : r[j].hash = g
    <3>1. PICK j \in 1 .. Len(q) : q[j].hash = g
      BY DEF FlightOK
    <3> QED
      BY <3>1, <1>1, <1>4
  <2>2. \E j \in 1 .. Len(r) : r[j].hash = h
    BY <1>1, <1>2, <1>4
  <2> QED
    BY <2>1, <2>2
<1>6. \A j \in 1 .. Len(r) : r[j].hash \in S \cup {h}
  BY <1>1, <1>2, <1>4 DEF FlightOK
<1>7. \A a, b \in 1 .. Len(r) : r[a].hash = r[b].hash => a = b
  BY <1>1, <1>2, <1>4 DEF FlightOK
<1>8. \A a, b \in 1 .. Len(r) : a < b => r[a].nTime <= r[b].nTime
  BY <1>1, <1>2, <1>3, <1>4 DEF FlightOK
<1> QED
  BY <1>1, <1>4, <1>5, <1>6, <1>7, <1>8 DEF FlightOK, r, e

-----------------------------------------------------------------------------
(* The bookkeeping: the two maps and the lists are views of one thing. *)

NodeState ==
  [nMisbehavior : 0 .. BanScore, fShouldBan : BOOLEAN,
   vBlocksInFlight : Seq(Request), nBlocksInFlight : Int,
   vBlocksToDownload : Seq(Hash), nBlocksToDownload : Int,
   nLastBlockReceive : Time, nLastBlockProcess : Time]

(* The blocks a map names node n for. *)
BlocksOf(f, n) == {h \in DOMAIN f : f[h] = n}

GoodNode(s, Q, F) ==
  /\ s \in NodeState
  /\ QueueOK(s.vBlocksToDownload, s.nBlocksToDownload, Q)
  /\ FlightOK(s.vBlocksInFlight, s.nBlocksInFlight, F)

GoodMaps(M, T, F) ==
  /\ M \in [DOMAIN M -> NodeState] /\ DOMAIN M \subseteq Node
  /\ T \in [DOMAIN T -> DOMAIN M] /\ DOMAIN T \subseteq Hash
  /\ F \in [DOMAIN F -> DOMAIN M] /\ DOMAIN F \subseteq Hash
  /\ DOMAIN T \cap DOMAIN F = {}
  /\ \A n \in DOMAIN M : GoodNode(M[n], BlocksOf(T, n), BlocksOf(F, n))

Record(M, T, F) == [mapNodeState |-> M, mapBlocksToDownload |-> T, mapBlocksInFlight |-> F]

Good(d) ==
  /\ d = Record(d.mapNodeState, d.mapBlocksToDownload, d.mapBlocksInFlight)
  /\ GoodMaps(d.mapNodeState, d.mapBlocksToDownload, d.mapBlocksInFlight)

LEMMA GoodRecord ==
  ASSUME NEW M, NEW T, NEW F, GoodMaps(M, T, F)
  PROVE  Good(Record(M, T, F))
BY DEF Good, Record

(* Changing one node's state, and the maps only where they concern that node. *)
LEMMA Update ==
  ASSUME NEW M, NEW T, NEW F, GoodMaps(M, T, F), NEW n \in DOMAIN M, NEW s,
         NEW T2, T2 \in [DOMAIN T2 -> DOMAIN M], DOMAIN T2 \subseteq Hash,
         NEW F2, F2 \in [DOMAIN F2 -> DOMAIN M], DOMAIN F2 \subseteq Hash,
         DOMAIN T2 \cap DOMAIN F2 = {},
         \A m \in DOMAIN M \ {n} :
            BlocksOf(T2, m) = BlocksOf(T, m) /\ BlocksOf(F2, m) = BlocksOf(F, m),
         GoodNode(s, BlocksOf(T2, n), BlocksOf(F2, n))
  PROVE  GoodMaps([M EXCEPT ![n] = s], T2, F2)
<1> DEFINE M2 == [M EXCEPT ![n] = s]
<1>1. /\ DOMAIN M2 = DOMAIN M /\ M2 \in [DOMAIN M -> NodeState] /\ M2[n] = s
      /\ \A m \in DOMAIN M \ {n} : M2[m] = M[m]
  BY DEF GoodMaps, GoodNode
<1> HIDE DEF M2
<1>2. \A m \in DOMAIN M2 : GoodNode(M2[m], BlocksOf(T2, m), BlocksOf(F2, m))
  <2> TAKE m \in DOMAIN M2
  <2>1. CASE m = n
    BY <2>1, <1>1
  <2>2. CASE m # n
    BY <2>2, <1>1 DEF GoodMaps
  <2> QED
    BY <2>1, <2>2
<1>3. GoodMaps(M2, T2, F2)
  BY <1>1, <1>2 DEF GoodMaps
<1> QED
  BY <1>3 DEF M2

LEMMA BlocksOfWithout ==
  ASSUME NEW f, NEW h \in DOMAIN f
  PROVE  /\ DOMAIN Without(f, {h}) = DOMAIN f \ {h}
         /\ \A g \in DOMAIN f \ {h} : Without(f, {h})[g] = f[g]
         /\ BlocksOf(Without(f, {h}), f[h]) = BlocksOf(f, f[h]) \ {h}
         /\ \A m : m # f[h] => BlocksOf(Without(f, {h}), m) = BlocksOf(f, m)
BY DEF BlocksOf, Without

(* A change of a node's state that touches neither list nor counter. *)
LEMMA Touch ==
  ASSUME NEW M, NEW T, NEW F, GoodMaps(M, T, F), NEW n \in DOMAIN M, NEW s \in NodeState,
         s.vBlocksInFlight = M[n].vBlocksInFlight, s.nBlocksInFlight = M[n].nBlocksInFlight,
         s.vBlocksToDownload = M[n].vBlocksToDownload, s.nBlocksToDownload = M[n].nBlocksToDownload
  PROVE  GoodMaps([M EXCEPT ![n] = s], T, F)
<1>1. GoodNode(s, BlocksOf(T, n), BlocksOf(F, n))
  BY DEF GoodMaps, GoodNode
<1>2. /\ T \in [DOMAIN T -> DOMAIN M] /\ DOMAIN T \subseteq Hash
      /\ F \in [DOMAIN F -> DOMAIN M] /\ DOMAIN F \subseteq Hash
      /\ DOMAIN T \cap DOMAIN F = {}
  BY DEF GoodMaps
<1> QED
  BY <1>1, <1>2, Update

-----------------------------------------------------------------------------
(* What each bookkeeping operation preserves. *)

Scored(s, score) ==
  [s EXCEPT !.nMisbehavior = IF score > BanScore THEN BanScore ELSE score,
            !.fShouldBan = @ \/ score >= BanScore]

LEMMA MisbehavingShape ==
  ASSUME NEW M, NEW T, NEW F, NEW n \in DOMAIN M, NEW howmuch, howmuch # 0
  PROVE  Misbehaving(Record(M, T, F), n, howmuch)
           = Record([M EXCEPT ![n] = Scored(M[n], M[n].nMisbehavior + howmuch)], T, F)
BY DEF Misbehaving, Record, Scored

LEMMA MisbehavingGood ==
  ASSUME NEW d, Good(d), NEW n \in DOMAIN d.mapNodeState, NEW howmuch \in Nat
  PROVE  Good(Misbehaving(d, n, howmuch))
         /\ DOMAIN Misbehaving(d, n, howmuch).mapNodeState = DOMAIN d.mapNodeState
<1> DEFINE M == d.mapNodeState
           T == d.mapBlocksToDownload
           F == d.mapBlocksInFlight
           score == M[n].nMisbehavior + howmuch
           s == Scored(M[n], score)
<1>0. d = Record(M, T, F) /\ GoodMaps(M, T, F) /\ M[n] \in NodeState
  BY DEF Good, GoodMaps
<1>1. CASE howmuch = 0
  BY <1>1 DEF Misbehaving
<1>2. CASE howmuch # 0
  <2>1. Misbehaving(d, n, howmuch) = Record([M EXCEPT ![n] = s], T, F)
    BY <1>0, <1>2, MisbehavingShape
  <2>2. s \in NodeState
    <3>1. M[n].nMisbehavior \in 0 .. BanScore /\ score \in Nat /\ BanScore \in Nat
      BY <1>0, DownloadAssumption DEF NodeState
    <3>2. (IF score > BanScore THEN BanScore ELSE score) \in 0 .. BanScore
      BY <3>1
    <3>3. (M[n].fShouldBan \/ score >= BanScore) \in BOOLEAN
      OBVIOUS
    <3> QED
      BY <1>0, <3>2, <3>3 DEF NodeState, Scored
  <2>3. /\ s.vBlocksInFlight = M[n].vBlocksInFlight /\ s.nBlocksInFlight = M[n].nBlocksInFlight
        /\ s.vBlocksToDownload = M[n].vBlocksToDownload
        /\ s.nBlocksToDownload = M[n].nBlocksToDownload
    BY <1>0 DEF NodeState, Scored
  <2> HIDE DEF s
  <2>4. GoodMaps([M EXCEPT ![n] = s], T, F)
    BY <1>0, <2>2, <2>3, Touch
  <2> QED
    BY <2>1, <2>4, GoodRecord DEF Record
<1> QED
  BY <1>1, <1>2

(* A block leaves the queue it is in. *)
LEMMA DequeueGood ==
  ASSUME NEW d, Good(d), NEW h
  PROVE  /\ Good(Dequeue(d, h))
         /\ DOMAIN Dequeue(d, h).mapNodeState = DOMAIN d.mapNodeState
         /\ DOMAIN Dequeue(d, h).mapBlocksToDownload = DOMAIN d.mapBlocksToDownload \ {h}
         /\ Dequeue(d, h).mapBlocksInFlight = d.mapBlocksInFlight
<1> DEFINE M == d.mapNodeState
           T == d.mapBlocksToDownload
           F == d.mapBlocksInFlight
<1>0. d = Record(M, T, F) /\ GoodMaps(M, T, F)
  BY DEF Good
<1>1. CASE h \notin DOMAIN T
  BY <1>1 DEF Dequeue
<1>2. CASE h \in DOMAIN T
  <2> DEFINE n == T[h]
             s == [M[n] EXCEPT !.vBlocksToDownload = RemoveFirst(@, h), !.nBlocksToDownload = @ - 1]
             T2 == Without(T, {h})
  <2>0. n \in DOMAIN M /\ M[n] \in NodeState /\ GoodNode(M[n], BlocksOf(T, n), BlocksOf(F, n))
    BY <1>0, <1>2 DEF GoodMaps
  <2>1. Dequeue(d, h) = Record([M EXCEPT ![n] = s], T2, F)
    BY <1>0, <1>2, <2>0 DEF Dequeue, Record
  <2>2. h \in BlocksOf(T, n)
    BY <1>2 DEF BlocksOf
  <2>3. QueueOK(RemoveFirst(M[n].vBlocksToDownload, h), M[n].nBlocksToDownload - 1, BlocksOf(T, n) \ {h})
    BY <2>0, <2>2, QueueRemove DEF GoodNode
  <2>4. RemoveFirst(M[n].vBlocksToDownload, h) \in Seq(Hash) /\ M[n].nBlocksToDownload - 1 \in Int
    <3>1. RemoveFirst(M[n].vBlocksToDownload, h) \in Seq(Hash)
      BY <2>3 DEF QueueOK
    <3>2. M[n].nBlocksToDownload - 1 \in Int
      BY <2>0 DEF NodeState
    <3> QED
      BY <3>1, <3>2
  <2>5. /\ s \in NodeState /\ s.vBlocksToDownload = RemoveFirst(M[n].vBlocksToDownload, h)
        /\ s.nBlocksToDownload = M[n].nBlocksToDownload - 1
        /\ s.vBlocksInFlight = M[n].vBlocksInFlight /\ s.nBlocksInFlight = M[n].nBlocksInFlight
    BY <2>0, <2>4 DEF NodeState
  <2> HIDE DEF s
  <2>6. /\ DOMAIN T2 = DOMAIN T \ {h} /\ T2 \in [DOMAIN T2 -> DOMAIN M] /\ DOMAIN T2 \subseteq Hash
        /\ BlocksOf(T2, n) = BlocksOf(T, n) \ {h}
        /\ \A m \in DOMAIN M \ {n} : BlocksOf(T2, m) = BlocksOf(T, m)
    <3>1. /\ DOMAIN T2 = DOMAIN T \ {h} /\ BlocksOf(T2, n) = BlocksOf(T, n) \ {h}
          /\ \A m : m # n => BlocksOf(T2, m) = BlocksOf(T, m)
      BY <1>2, BlocksOfWithout
    <3>2. T \in [DOMAIN T -> DOMAIN M] /\ DOMAIN T \subseteq Hash
      BY <1>0 DEF GoodMaps
    <3>3. T2 \in [DOMAIN T \ {h} -> DOMAIN M]
      BY <3>2 DEF Without
    <3> QED
      BY <3>1, <3>2, <3>3
  <2> HIDE DEF T2
  <2>7. GoodNode(s, BlocksOf(T2, n), BlocksOf(F, n))
    BY <2>0, <2>3, <2>5, <2>6 DEF GoodNode
  <2>8. /\ F \in [DOMAIN F -> DOMAIN M] /\ DOMAIN F \subseteq Hash /\ DOMAIN T2 \cap DOMAIN F = {}
    BY <1>0, <2>6 DEF GoodMaps
  <2>9. GoodMaps([M EXCEPT ![n] = s], T2, F)
    BY <1>0, <2>0, <2>6, <2>7, <2>8, Update
  <2> QED
    BY <2>1, <2>6, <2>9, GoodRecord DEF Record
<1> QED
  BY <1>1, <1>2

(* A block is no longer in flight. *)
LEMMA LandGood ==
  ASSUME NEW d, Good(d), NEW h, NEW nodeFrom
  PROVE  /\ Good(Land(d, h, nodeFrom))
         /\ DOMAIN Land(d, h, nodeFrom).mapNodeState = DOMAIN d.mapNodeState
         /\ DOMAIN Land(d, h, nodeFrom).mapBlocksInFlight = DOMAIN d.mapBlocksInFlight \ {h}
         /\ Land(d, h, nodeFrom).mapBlocksToDownload = d.mapBlocksToDownload
         /\ \A m \in DOMAIN d.mapNodeState :
              /\ Land(d, h, nodeFrom).mapNodeState[m].vBlocksToDownload
                   = d.mapNodeState[m].vBlocksToDownload
              /\ h \notin DOMAIN d.mapBlocksInFlight =>
                   Land(d, h, nodeFrom).mapNodeState[m] = d.mapNodeState[m]
<1> DEFINE M == d.mapNodeState
           T == d.mapBlocksToDownload
           F == d.mapBlocksInFlight
<1>0. d = Record(M, T, F) /\ GoodMaps(M, T, F)
  BY DEF Good
<1>1. CASE h \notin DOMAIN F
  BY <1>1 DEF Land
<1>2. CASE h \in DOMAIN F
  <2> DEFINE n == F[h]
             r == RemoveFirstMatch(M[n].vBlocksInFlight, LAMBDA q : q.hash = h)
             t == IF n = nodeFrom THEN 0 ELSE M[n].nLastBlockReceive
             s == [M[n] EXCEPT !.vBlocksInFlight = r, !.nBlocksInFlight = @ - 1,
                               !.nLastBlockReceive = t]
             F2 == Without(F, {h})
  <2>0. n \in DOMAIN M /\ M[n] \in NodeState /\ GoodNode(M[n], BlocksOf(T, n), BlocksOf(F, n))
    BY <1>0, <1>2 DEF GoodMaps
  <2>1. Land(d, h, nodeFrom) = Record([M EXCEPT ![n] = s], T, F2)
    BY <1>0, <1>2, <2>0 DEF Land, Record
  <2>2. h \in BlocksOf(F, n)
    BY <1>2 DEF BlocksOf
  <2>3. FlightOK(r, M[n].nBlocksInFlight - 1, BlocksOf(F, n) \ {h})
    BY <2>0, <2>2, FlightRemove DEF GoodNode
  <2> HIDE DEF r
  <2>4. r \in Seq(Request) /\ M[n].nBlocksInFlight - 1 \in Int /\ t \in Time
    BY <2>0, <2>3, DownloadAssumption DEF FlightOK, NodeState, Time
  <2> HIDE DEF t
  <2>5. /\ s \in NodeState /\ s.vBlocksInFlight = r /\ s.nBlocksInFlight = M[n].nBlocksInFlight - 1
        /\ s.vBlocksToDownload = M[n].vBlocksToDownload
        /\ s.nBlocksToDownload = M[n].nBlocksToDownload
    BY <2>0, <2>4 DEF NodeState
  <2> HIDE DEF s
  <2>6. /\ DOMAIN F2 = DOMAIN F \ {h} /\ F2 \in [DOMAIN F2 -> DOMAIN M] /\ DOMAIN F2 \subseteq Hash
        /\ BlocksOf(F2, n) = BlocksOf(F, n) \ {h}
        /\ \A m \in DOMAIN M \ {n} : BlocksOf(F2, m) = BlocksOf(F, m)
    <3>1. /\ DOMAIN F2 = DOMAIN F \ {h} /\ BlocksOf(F2, n) = BlocksOf(F, n) \ {h}
          /\ \A m : m # n => BlocksOf(F2, m) = BlocksOf(F, m)
      BY <1>2, BlocksOfWithout
    <3>2. F \in [DOMAIN F -> DOMAIN M] /\ DOMAIN F \subseteq Hash
      BY <1>0 DEF GoodMaps
    <3>3. F2 \in [DOMAIN F \ {h} -> DOMAIN M]
      BY <3>2 DEF Without
    <3> QED
      BY <3>1, <3>2, <3>3
  <2> HIDE DEF F2
  <2>7. GoodNode(s, BlocksOf(T, n), BlocksOf(F2, n))
    BY <2>0, <2>3, <2>5, <2>6 DEF GoodNode
  <2>8. /\ T \in [DOMAIN T -> DOMAIN M] /\ DOMAIN T \subseteq Hash /\ DOMAIN T \cap DOMAIN F2 = {}
    BY <1>0, <2>6 DEF GoodMaps
  <2>9. GoodMaps([M EXCEPT ![n] = s], T, F2)
    BY <1>0, <2>0, <2>6, <2>7, <2>8, Update
  <2>10. \A m \in DOMAIN M : [M EXCEPT ![n] = s][m].vBlocksToDownload = M[m].vBlocksToDownload
    BY <2>0, <2>5
  <2> QED
    BY <2>1, <2>6, <2>9, <2>10, <1>2, GoodRecord DEF Record
<1> QED
  BY <1>1, <1>2

(* The counter of a node's queue is the length of the queue. *)
LEMMA CountIsLength ==
  ASSUME NEW d, Good(d), NEW n \in DOMAIN d.mapNodeState
  PROVE  LET s == d.mapNodeState[n]
         IN  /\ s \in NodeState
             /\ s.vBlocksToDownload \in Seq(Hash) /\ s.nBlocksToDownload = Len(s.vBlocksToDownload)
             /\ s.vBlocksInFlight \in Seq(Request) /\ s.nBlocksInFlight = Len(s.vBlocksInFlight)
BY DEF Good, GoodMaps, GoodNode, QueueOK, FlightOK

LEMMA DequeueCount ==
  ASSUME NEW d, Good(d), NEW h \in DOMAIN d.mapBlocksToDownload, NEW n,
         n = d.mapBlocksToDownload[h]
  PROVE  Dequeue(d, h).mapNodeState[n].nBlocksToDownload
           = d.mapNodeState[n].nBlocksToDownload - 1
<1> DEFINE M == d.mapNodeState
           T == d.mapBlocksToDownload
           F == d.mapBlocksInFlight
           s == [M[n] EXCEPT !.vBlocksToDownload = RemoveFirst(@, h), !.nBlocksToDownload = @ - 1]
<1>0. d = Record(M, T, F) /\ n \in DOMAIN M /\ M[n] \in NodeState
  BY DEF Good, GoodMaps
<1>1. Dequeue(d, h) = Record([M EXCEPT ![n] = s], Without(T, {h}), F)
  BY <1>0 DEF Dequeue, Record
<1>2. s.nBlocksToDownload = M[n].nBlocksToDownload - 1
  BY <1>0 DEF NodeState
<1> HIDE DEF s
<1> QED
  BY <1>0, <1>1, <1>2 DEF Record

LEMMA MarkBlockAsReceivedGood ==
  ASSUME NEW d, Good(d), NEW h, NEW nodeFrom
  PROVE  /\ Good(MarkBlockAsReceived(d, h, nodeFrom))
         /\ DOMAIN MarkBlockAsReceived(d, h, nodeFrom).mapNodeState = DOMAIN d.mapNodeState
         /\ h \notin DOMAIN MarkBlockAsReceived(d, h, nodeFrom).mapBlocksToDownload
         /\ h \notin DOMAIN MarkBlockAsReceived(d, h, nodeFrom).mapBlocksInFlight
<1> DEFINE e == Dequeue(d, h)
<1>1. /\ Good(e) /\ DOMAIN e.mapNodeState = DOMAIN d.mapNodeState
      /\ h \notin DOMAIN e.mapBlocksToDownload
  BY DequeueGood
<1> HIDE DEF e
<1>2. /\ Good(Land(e, h, nodeFrom))
      /\ DOMAIN Land(e, h, nodeFrom).mapNodeState = DOMAIN e.mapNodeState
      /\ h \notin DOMAIN Land(e, h, nodeFrom).mapBlocksInFlight
      /\ Land(e, h, nodeFrom).mapBlocksToDownload = e.mapBlocksToDownload
  BY <1>1, LandGood
<1>3. MarkBlockAsReceived(d, h, nodeFrom) = Land(e, h, nodeFrom)
  BY DEF MarkBlockAsReceived, e
<1> QED
  BY <1>1, <1>2, <1>3

(* Receiving the front of a node's queue shortens that queue by one. *)
LEMMA ReceivedCount ==
  ASSUME NEW d, Good(d), NEW h \in DOMAIN d.mapBlocksToDownload, NEW n, NEW nodeFrom,
         n = d.mapBlocksToDownload[h]
  PROVE  MarkBlockAsReceived(d, h, nodeFrom).mapNodeState[n].nBlocksToDownload
           = d.mapNodeState[n].nBlocksToDownload - 1
<1> DEFINE e == Dequeue(d, h)
           l == Land(e, h, nodeFrom)
<1>0. n \in DOMAIN d.mapNodeState
  BY DEF Good, GoodMaps
<1>1. Good(e) /\ n \in DOMAIN e.mapNodeState
  BY <1>0, DequeueGood
<1>2. e.mapNodeState[n].nBlocksToDownload = d.mapNodeState[n].nBlocksToDownload - 1
  BY DequeueCount
<1> HIDE DEF e
<1>3. /\ Good(l) /\ n \in DOMAIN l.mapNodeState
      /\ l.mapNodeState[n].vBlocksToDownload = e.mapNodeState[n].vBlocksToDownload
  BY <1>1, LandGood
<1> HIDE DEF l
<1>4. l.mapNodeState[n].nBlocksToDownload = e.mapNodeState[n].nBlocksToDownload
  BY <1>1, <1>3, CountIsLength
<1>5. MarkBlockAsReceived(d, h, nodeFrom) = l
  BY DEF MarkBlockAsReceived, e, l
<1> QED
  BY <1>2, <1>4, <1>5

LEMMA AddBlockToQueueGood ==
  ASSUME NEW d, Good(d), NEW n \in DOMAIN d.mapNodeState, NEW h \in Hash
  PROVE  /\ Good(AddBlockToQueue(d, n, h))
         /\ DOMAIN AddBlockToQueue(d, n, h).mapNodeState = DOMAIN d.mapNodeState
<1> DEFINE M == d.mapNodeState
           T == d.mapBlocksToDownload
           F == d.mapBlocksInFlight
<1>0. /\ d = Record(M, T, F) /\ GoodMaps(M, T, F)
      /\ M[n] \in NodeState /\ GoodNode(M[n], BlocksOf(T, n), BlocksOf(F, n))
  BY DEF Good, GoodMaps
<1>1. CASE h \in DOMAIN T \cup DOMAIN F
  BY <1>1 DEF AddBlockToQueue
<1>2. CASE h \notin DOMAIN T \cup DOMAIN F
  <2> DEFINE s == [M[n] EXCEPT !.vBlocksToDownload = Append(@, h), !.nBlocksToDownload = @ + 1]
             T2 == With(T, h, n)
             M1 == [M EXCEPT ![n] = s]
             e == Record(M1, T2, F)
             full == s.nBlocksToDownload > MaxQueued
  <2>1. h \notin BlocksOf(T, n)
    BY <1>2 DEF BlocksOf
  <2>2. QueueOK(Append(M[n].vBlocksToDownload, h), M[n].nBlocksToDownload + 1, BlocksOf(T, n) \cup {h})
    BY <1>0, <2>1, QueueAppend DEF GoodNode
  <2>3. Append(M[n].vBlocksToDownload, h) \in Seq(Hash) /\ M[n].nBlocksToDownload + 1 \in Int
    <3>1. Append(M[n].vBlocksToDownload, h) \in Seq(Hash)
      BY <2>2 DEF QueueOK
    <3>2. M[n].nBlocksToDownload + 1 \in Int
      BY <1>0 DEF NodeState
    <3> QED
      BY <3>1, <3>2
  <2>4. /\ s \in NodeState /\ s.vBlocksToDownload = Append(M[n].vBlocksToDownload, h)
        /\ s.nBlocksToDownload = M[n].nBlocksToDownload + 1
        /\ s.vBlocksInFlight = M[n].vBlocksInFlight /\ s.nBlocksInFlight = M[n].nBlocksInFlight
    BY <1>0, <2>3 DEF NodeState
  <2>5. AddBlockToQueue(d, n, h) = IF full THEN Misbehaving(e, n, 10) ELSE e
    <3> DEFINE d1 == [d EXCEPT !.mapNodeState[n] = s]
               d2 == IF d1.mapNodeState[n].nBlocksToDownload > MaxQueued
                       THEN Misbehaving(d1, n, 10) ELSE d1
    <3>1. AddBlockToQueue(d, n, h) = [d2 EXCEPT !.mapBlocksToDownload = With(@, h, n)]
      BY <1>2 DEF AddBlockToQueue
    <3> HIDE DEF s
    <3>2. d1 = Record(M1, T, F) /\ M1[n] = s
      BY <1>0 DEF Record, GoodMaps
    <3> HIDE DEF d1
    <3>3. CASE ~full
      BY <1>0, <3>1, <3>2, <3>3 DEF Record
    <3>4. CASE full
      <4> DEFINE M2 == [M1 EXCEPT ![n] = Scored(M1[n], M1[n].nMisbehavior + 10)]
      <4>1. n \in DOMAIN M1
        BY <1>0 DEF GoodMaps
      <4> HIDE DEF M1
      <4>2. /\ Misbehaving(Record(M1, T, F), n, 10) = Record(M2, T, F)
            /\ Misbehaving(Record(M1, T2, F), n, 10) = Record(M2, T2, F)
        BY <4>1, MisbehavingShape
      <4> HIDE DEF M2
      <4>3. d2 = Record(M2, T, F)
        BY <3>2, <3>4, <4>2 DEF Record
      <4> QED
        BY <3>1, <3>4, <4>2, <4>3 DEF Record
    <3> QED
      BY <3>3, <3>4
  <2> HIDE DEF s
  <2>6. /\ DOMAIN T2 = DOMAIN T \cup {h} /\ T2 \in [DOMAIN T2 -> DOMAIN M] /\ DOMAIN T2 \subseteq Hash
        /\ BlocksOf(T2, n) = BlocksOf(T, n) \cup {h}
        /\ \A m \in DOMAIN M \ {n} : BlocksOf(T2, m) = BlocksOf(T, m)
    <3>1. /\ DOMAIN T2 = DOMAIN T \cup {h} /\ BlocksOf(T2, n) = BlocksOf(T, n) \cup {h}
          /\ \A m : m # n => BlocksOf(T2, m) = BlocksOf(T, m)
      <4> HIDE DEF M, T, F
      <4>1. h \notin DOMAIN T
        BY <1>2
      <4> QED
        BY <4>1 DEF BlocksOf, With
    <3>2. T \in [DOMAIN T -> DOMAIN M] /\ DOMAIN T \subseteq Hash
      BY <1>0 DEF GoodMaps
    <3>3. T2 \in [DOMAIN T \cup {h} -> DOMAIN M]
      BY <3>2 DEF With
    <3> QED
      BY <3>1, <3>2, <3>3
  <2> HIDE DEF T2
  <2>7. GoodNode(s, BlocksOf(T2, n), BlocksOf(F, n))
    BY <1>0, <2>2, <2>4, <2>6 DEF GoodNode
  <2>8. /\ F \in [DOMAIN F -> DOMAIN M] /\ DOMAIN F \subseteq Hash /\ DOMAIN T2 \cap DOMAIN F = {}
    BY <1>0, <1>2, <2>6 DEF GoodMaps
  <2>9. GoodMaps(M1, T2, F)
    BY <1>0, <2>6, <2>7, <2>8, Update
  <2>10. Good(e) /\ DOMAIN e.mapNodeState = DOMAIN M
    BY <2>9, GoodRecord DEF Record
  <2> HIDE DEF e
  <2>11. Good(Misbehaving(e, n, 10)) /\ DOMAIN Misbehaving(e, n, 10).mapNodeState = DOMAIN M
    BY <2>10, MisbehavingGood
  <2> QED
    BY <2>5, <2>10, <2>11
<1> QED
  BY <1>1, <1>2

LEMMA MarkBlockAsInFlightGood ==
  ASSUME NEW d, Good(d), NEW n \in DOMAIN d.mapNodeState, NEW h \in Hash
  PROVE  /\ Good(MarkBlockAsInFlight(d, n, h))
         /\ DOMAIN MarkBlockAsInFlight(d, n, h).mapNodeState = DOMAIN d.mapNodeState
         /\ MarkBlockAsInFlight(d, n, h).mapNodeState[n].nBlocksToDownload
              = MarkBlockAsReceived(d, h, "none").mapNodeState[n].nBlocksToDownload
<1> DEFINE e == MarkBlockAsReceived(d, h, "none")
           M == e.mapNodeState
           T == e.mapBlocksToDownload
           F == e.mapBlocksInFlight
           req == [hash |-> h, nTime |-> 0]
           t == IF M[n].nBlocksInFlight = 0 THEN 0 ELSE M[n].nLastBlockReceive
           r == Append(M[n].vBlocksInFlight, req)
           s == [M[n] EXCEPT !.nLastBlockReceive = t, !.vBlocksInFlight = r,
                             !.nBlocksInFlight = @ + 1]
           F2 == With(F, h, n)
<1>0. /\ Good(e) /\ DOMAIN M = DOMAIN d.mapNodeState
      /\ h \notin DOMAIN T /\ h \notin DOMAIN F
  BY MarkBlockAsReceivedGood
<1>1. MarkBlockAsInFlight(d, n, h)
        = [e EXCEPT !.mapNodeState[n] = s, !.mapBlocksInFlight = F2]
  BY DEF MarkBlockAsInFlight
<1> HIDE DEF e
<1>2. /\ e = Record(M, T, F) /\ GoodMaps(M, T, F) /\ n \in DOMAIN M
      /\ M[n] \in NodeState /\ GoodNode(M[n], BlocksOf(T, n), BlocksOf(F, n))
  BY <1>0 DEF Good, GoodMaps
<1>3. MarkBlockAsInFlight(d, n, h) = Record([M EXCEPT ![n] = s], T, F2)
  <2> HIDE DEF s, F2
  <2> QED
    BY <1>1, <1>2 DEF Record
<1>4. h \notin BlocksOf(F, n)
  BY <1>0 DEF BlocksOf
<1>5. FlightOK(r, M[n].nBlocksInFlight + 1, BlocksOf(F, n) \cup {h})
  BY <1>2, <1>4, FlightAppend DEF GoodNode
<1> HIDE DEF r
<1>6. r \in Seq(Request) /\ M[n].nBlocksInFlight + 1 \in Int /\ t \in Time
  <2>1. r \in Seq(Request)
    BY <1>5 DEF FlightOK
  <2>2. M[n].nBlocksInFlight + 1 \in Int /\ t \in Time
    BY <1>2, DownloadAssumption DEF NodeState, Time
  <2> QED
    BY <2>1, <2>2
<1> HIDE DEF t
<1>7. /\ s \in NodeState /\ s.vBlocksInFlight = r /\ s.nBlocksInFlight = M[n].nBlocksInFlight + 1
      /\ s.vBlocksToDownload = M[n].vBlocksToDownload
      /\ s.nBlocksToDownload = M[n].nBlocksToDownload
  BY <1>2, <1>6 DEF NodeState
<1> HIDE DEF s
<1>8. /\ DOMAIN F2 = DOMAIN F \cup {h} /\ F2 \in [DOMAIN F2 -> DOMAIN M] /\ DOMAIN F2 \subseteq Hash
      /\ BlocksOf(F2, n) = BlocksOf(F, n) \cup {h}
      /\ \A m \in DOMAIN M \ {n} : BlocksOf(F2, m) = BlocksOf(F, m)
  <2>1. /\ DOMAIN F2 = DOMAIN F \cup {h} /\ BlocksOf(F2, n) = BlocksOf(F, n) \cup {h}
        /\ \A m : m # n => BlocksOf(F2, m) = BlocksOf(F, m)
    <3> HIDE DEF M, T, F
    <3>1. h \notin DOMAIN F
      BY <1>0
    <3> QED
      BY <3>1 DEF BlocksOf, With
  <2>2. F \in [DOMAIN F -> DOMAIN M] /\ DOMAIN F \subseteq Hash
    BY <1>2 DEF GoodMaps
  <2>3. F2 \in [DOMAIN F \cup {h} -> DOMAIN M]
    BY <2>2, <1>2 DEF With
  <2> QED
    BY <2>1, <2>2, <2>3
<1> HIDE DEF F2
<1>9. GoodNode(s, BlocksOf(T, n), BlocksOf(F2, n))
  BY <1>2, <1>5, <1>7, <1>8 DEF GoodNode
<1>10. /\ T \in [DOMAIN T -> DOMAIN M] /\ DOMAIN T \subseteq Hash /\ DOMAIN T \cap DOMAIN F2 = {}
  BY <1>0, <1>2, <1>8 DEF GoodMaps
<1>11. GoodMaps([M EXCEPT ![n] = s], T, F2)
  BY <1>2, <1>8, <1>9, <1>10, Update
<1>12. [M EXCEPT ![n] = s][n] = s
  BY <1>2 DEF GoodMaps
<1> QED
  BY <1>0, <1>3, <1>7, <1>11, <1>12, GoodRecord DEF Record, e

(* One round of the "getdata (blocks)" loop. *)
Round(e, n) == MarkBlockAsInFlight(e, n, Head(e.mapNodeState[n].vBlocksToDownload))

(* A round takes one block off the queue. *)
LEMMA RoundGood ==
  ASSUME NEW e, Good(e), NEW n \in DOMAIN e.mapNodeState,
         e.mapNodeState[n].nBlocksToDownload > 0
  PROVE  /\ Good(Round(e, n)) /\ DOMAIN Round(e, n).mapNodeState = DOMAIN e.mapNodeState
         /\ Round(e, n).mapNodeState[n].nBlocksToDownload
              = e.mapNodeState[n].nBlocksToDownload - 1
<1> DEFINE q == e.mapNodeState[n].vBlocksToDownload
           T == e.mapBlocksToDownload
           h == Head(q)
<1>1. q \in Seq(Hash) /\ Len(q) > 0
  BY CountIsLength
<1>2. QueueOK(q, e.mapNodeState[n].nBlocksToDownload, BlocksOf(T, n))
  BY DEF Good, GoodMaps, GoodNode
<1>3. h = q[1] /\ 1 \in 1 .. Len(q) /\ h \in Hash
  BY <1>1
<1>4. h \in DOMAIN T /\ T[h] = n
  BY <1>2, <1>3 DEF QueueOK, BlocksOf
<1>5. MarkBlockAsReceived(e, h, "none").mapNodeState[n].nBlocksToDownload
        = e.mapNodeState[n].nBlocksToDownload - 1
  BY <1>4, ReceivedCount
<1> QED
  BY <1>3, <1>5, MarkBlockAsInFlightGood DEF Round

(* The loop is a well-defined recursion. *)
LEMMA RoundsExist ==
  ASSUME NEW d, NEW n, NEW k \in Nat
  PROVE  \E f : f = [i \in 0 .. k |-> IF i = 0 THEN d ELSE Round(f[i - 1], n)]
<1> DEFINE Defined(m) == \E f : f = [i \in 0 .. m |-> IF i = 0 THEN d ELSE Round(f[i - 1], n)]
           B == {m \in Nat : ~Defined(m)}
<1> SUFFICES ASSUME ~Defined(k) PROVE FALSE
  OBVIOUS
<1>1. PICK m \in B : \A x \in B : m <= x
  <2> HIDE DEF Defined
  <2>1. B # {} /\ B \in SUBSET Nat
    OBVIOUS
  <2> QED
    BY <2>1, LeastNumber
<1>2. m # 0
  <2> SUFFICES ASSUME m = 0 PROVE Defined(0)
    OBVIOUS
  <2> DEFINE f == [i \in 0 .. 0 |-> d]
  <2>1. f = [i \in 0 .. 0 |-> IF i = 0 THEN d ELSE Round(f[i - 1], n)]
    OBVIOUS
  <2> QED
    BY <2>1
<1>3. m - 1 \in Nat /\ Defined(m - 1)
  <2> HIDE DEF Defined
  <2> QED
    BY <1>1, <1>2
<1>4. PICK f : f = [i \in 0 .. m - 1 |-> IF i = 0 THEN d ELSE Round(f[i - 1], n)]
  BY <1>3
<1> DEFINE g == [i \in 0 .. m |-> IF i = 0 THEN d ELSE Round(f[i - 1], n)]
<1>5. \A i \in 0 .. m - 1 : g[i] = f[i]
  BY <1>3, <1>4
<1>6. g = [i \in 0 .. m |-> IF i = 0 THEN d ELSE Round(g[i - 1], n)]
  <2>1. \A i \in 0 .. m : i # 0 => i - 1 \in 0 .. m - 1
    BY <1>3
  <2> QED
    BY <2>1, <1>5
<1>7. Defined(m)
  <2> HIDE DEF g
  <2> QED
    BY <1>6
<1> QED
  <2> HIDE DEF Defined
  <2> QED
    BY <1>7

LEMMA RequestedGood ==
  ASSUME NEW d, Good(d), NEW n \in DOMAIN d.mapNodeState
  PROVE  Good(Requested(d, n)) /\ DOMAIN Requested(d, n).mapNodeState = DOMAIN d.mapNodeState
<1> DEFINE state == d.mapNodeState[n]
           c == state.nBlocksToDownload
           k == IF Room(state) < c THEN Room(state) ELSE c
           f == CHOOSE g : g = [i \in 0 .. k |-> IF i = 0 THEN d ELSE Round(g[i - 1], n)]
           OK(e, i) == /\ Good(e) /\ DOMAIN e.mapNodeState = DOMAIN d.mapNodeState
                       /\ e.mapNodeState[n].nBlocksToDownload = c - i
<1>1. c \in Nat /\ k \in Nat /\ k <= c
  <2>1. c \in Nat /\ state.nBlocksInFlight \in Nat
    BY CountIsLength
  <2>2. Room(state) \in Nat
    BY <2>1, DownloadAssumption DEF Room
  <2> QED
    BY <2>1, <2>2
<1>2. Requested(d, n) = f[k]
  BY DEF Requested, Round
<1> HIDE DEF k
<1>3. f = [i \in 0 .. k |-> IF i = 0 THEN d ELSE Round(f[i - 1], n)]
  BY <1>1, RoundsExist
<1> HIDE DEF f
<1>4. ASSUME NEW i \in 0 .. k, i # 0, OK(f[i - 1], i - 1)
      PROVE  OK(f[i], i)
  <2> DEFINE e == f[i - 1]
  <2>1. f[i] = Round(e, n)
    BY <1>1, <1>3, <1>4
  <2>2. e.mapNodeState[n].nBlocksToDownload = c - (i - 1) /\ c - (i - 1) > 0 /\ Good(e)
        /\ n \in DOMAIN e.mapNodeState
    BY <1>1, <1>4
  <2> HIDE DEF e
  <2>3. /\ Good(Round(e, n)) /\ DOMAIN Round(e, n).mapNodeState = DOMAIN e.mapNodeState
        /\ Round(e, n).mapNodeState[n].nBlocksToDownload = c - (i - 1) - 1
    BY <2>2, RoundGood
  <2> QED
    BY <1>1, <1>4, <2>1, <2>3 DEF e
<1>5. OK(f[0], 0)
  <2>1. f[0] = d
    BY <1>1, <1>3
  <2> QED
    BY <2>1, <1>1
<1> HIDE DEF OK
<1>6. \A i \in 0 .. k : OK(f[i], i)
  <2> DEFINE B == {i \in 0 .. k : ~OK(f[i], i)}
  <2> SUFFICES ASSUME B # {} PROVE FALSE
    OBVIOUS
  <2>0. B \in SUBSET Nat
    BY <1>1
  <2>1. PICK i \in B : \A x \in B : i <= x
    BY <2>0, LeastNumber
  <2>2. i # 0 /\ i \in 0 .. k /\ i - 1 \in 0 .. k /\ ~(i <= i - 1)
    BY <1>1, <1>5, <2>1
  <2>3. OK(f[i - 1], i - 1)
    BY <2>1, <2>2
  <2> QED
    BY <2>1, <2>2, <2>3, <1>4
<1>7. OK(f[k], k)
  BY <1>1, <1>6
<1> QED
  BY <1>2, <1>7 DEF OK

(* ProcessMessage's time stamp, and the fShouldBan that SendMessages resets. *)
LEMMA StampedGood ==
  ASSUME NEW n \in Connected, Good(dl)
  PROVE  Good(Stamped(n)) /\ DOMAIN Stamped(n).mapNodeState = Connected
<1> DEFINE M == dl.mapNodeState
           T == dl.mapBlocksToDownload
           F == dl.mapBlocksInFlight
           s == [M[n] EXCEPT !.nLastBlockProcess = 0]
<1>0. dl = Record(M, T, F) /\ GoodMaps(M, T, F) /\ M[n] \in NodeState /\ n \in DOMAIN M
  BY DEF Good, GoodMaps, Connected
<1>1. Stamped(n) = Record([M EXCEPT ![n] = s], T, F)
  BY <1>0 DEF Stamped, Record
<1>2. 0 \in Time
  BY DownloadAssumption DEF Time
<1>3. /\ s \in NodeState
      /\ s.vBlocksInFlight = M[n].vBlocksInFlight /\ s.nBlocksInFlight = M[n].nBlocksInFlight
      /\ s.vBlocksToDownload = M[n].vBlocksToDownload /\ s.nBlocksToDownload = M[n].nBlocksToDownload
  BY <1>0, <1>2 DEF NodeState
<1> HIDE DEF s
<1>4. GoodMaps([M EXCEPT ![n] = s], T, F)
  BY <1>0, <1>3, Touch
<1> QED
  BY <1>1, <1>4, GoodRecord DEF Record, Connected

LEMMA ForgivenGood ==
  ASSUME NEW n \in Connected, Good(dl), NEW d, d = [dl EXCEPT !.mapNodeState[n].fShouldBan = FALSE]
  PROVE  Good(d) /\ DOMAIN d.mapNodeState = Connected
<1> DEFINE M == dl.mapNodeState
           T == dl.mapBlocksToDownload
           F == dl.mapBlocksInFlight
           s == [M[n] EXCEPT !.fShouldBan = FALSE]
<1>0. dl = Record(M, T, F) /\ GoodMaps(M, T, F) /\ M[n] \in NodeState /\ n \in DOMAIN M
  BY DEF Good, GoodMaps, Connected
<1>1. d = Record([M EXCEPT ![n] = s], T, F)
  BY <1>0 DEF Record
<1>3. /\ s \in NodeState
      /\ s.vBlocksInFlight = M[n].vBlocksInFlight /\ s.nBlocksInFlight = M[n].nBlocksInFlight
      /\ s.vBlocksToDownload = M[n].vBlocksToDownload /\ s.nBlocksToDownload = M[n].nBlocksToDownload
  BY <1>0 DEF NodeState
<1> HIDE DEF s
<1>4. GoodMaps([M EXCEPT ![n] = s], T, F)
  BY <1>0, <1>3, Touch
<1>5. Good(Record([M EXCEPT ![n] = s], T, F))
  BY <1>4, GoodRecord
<1> DEFINE D == [M EXCEPT ![n] = s]
<1>6. d = Record(D, T, F) /\ Good(Record(D, T, F)) /\ DOMAIN D = DOMAIN M
  BY <1>1, <1>5
<1> HIDE DEF D
<1>7. Record(D, T, F).mapNodeState = D
  BY DEF Record
<1>8. DOMAIN M = Connected
  BY DEF Connected
<1> HIDE DEF M, T, F
<1> QED
  BY ONLY <1>6, <1>7, <1>8

(* A new connection has been asked for nothing. *)
LEMMA NewNodeGood ==
  ASSUME Good(dl), NEW n \in Node, n \notin Connected, NEW d,
         d = [dl EXCEPT !.mapNodeState = With(@, n, CNodeState)]
  PROVE  Good(d) /\ DOMAIN d.mapNodeState = Connected \cup {n}
<1> DEFINE M == dl.mapNodeState
           T == dl.mapBlocksToDownload
           F == dl.mapBlocksInFlight
           M2 == With(M, n, CNodeState)
<1>0. dl = Record(M, T, F) /\ GoodMaps(M, T, F) /\ n \notin DOMAIN M
  BY DEF Good, Connected
<1>1. d = Record(M2, T, F)
  BY <1>0 DEF Record
<1>2. /\ CNodeState \in NodeState
      /\ CNodeState.vBlocksToDownload = << >> /\ CNodeState.nBlocksToDownload = 0
      /\ CNodeState.vBlocksInFlight = << >> /\ CNodeState.nBlocksInFlight = 0
  <2>1. -MaxAge \in Time /\ 0 \in 0 .. BanScore
    BY DownloadAssumption DEF Time
  <2> QED
    BY <2>1 DEF CNodeState, NodeState
<1>3. BlocksOf(T, n) = {} /\ BlocksOf(F, n) = {}
  BY <1>0 DEF GoodMaps, BlocksOf
<1>4. QueueOK(<< >>, 0, {}) /\ FlightOK(<< >>, 0, {})
  BY DEF QueueOK, FlightOK
<1>5. GoodNode(CNodeState, BlocksOf(T, n), BlocksOf(F, n))
  BY <1>2, <1>3, <1>4 DEF GoodNode
<1>6. /\ DOMAIN M2 = DOMAIN M \cup {n} /\ M2[n] = CNodeState
      /\ \A m \in DOMAIN M : M2[m] = M[m]
  BY <1>0 DEF With
<1>7. M2 \in [DOMAIN M \cup {n} -> NodeState]
  BY <1>0, <1>2 DEF With, GoodMaps
<1> HIDE DEF M2
<1>8. \A m \in DOMAIN M2 : GoodNode(M2[m], BlocksOf(T, m), BlocksOf(F, m))
  BY <1>0, <1>5, <1>6 DEF GoodMaps
<1>9. GoodMaps(M2, T, F)
  BY <1>0, <1>6, <1>7, <1>8 DEF GoodMaps
<1>10. Good(Record(M2, T, F))
  BY <1>9, GoodRecord
<1>11. Record(M2, T, F).mapNodeState = M2
  BY DEF Record
<1>12. DOMAIN M = Connected
  BY DEF Connected
<1> HIDE DEF M, T, F
<1> QED
  BY ONLY <1>1, <1>6, <1>10, <1>11, <1>12

(* FinalizeNode frees exactly the blocks the node was asked for. *)
LEMMA FinalizedGood ==
  ASSUME Good(dl), NEW n \in Connected
  PROVE  Good(Finalized(n)) /\ DOMAIN Finalized(n).mapNodeState = Connected \ {n}
<1> DEFINE M == dl.mapNodeState
           T == dl.mapBlocksToDownload
           F == dl.mapBlocksInFlight
           A == ToSet(M[n].vBlocksToDownload)
           B == {q.hash : q \in ToSet(M[n].vBlocksInFlight)}
           M2 == Without(M, {n})
           T2 == Without(T, A)
           F2 == Without(F, B)
<1>0. /\ dl = Record(M, T, F) /\ GoodMaps(M, T, F) /\ n \in DOMAIN M
      /\ GoodNode(M[n], BlocksOf(T, n), BlocksOf(F, n))
  BY DEF Good, GoodMaps, Connected
<1>1. Finalized(n) = Record(M2, T2, F2)
  <2> HIDE DEF A, B
  <2>1. Finalized(n) = [dl EXCEPT !.mapBlocksInFlight = Without(@, B), !.mapBlocksToDownload = Without(@, A),
                                  !.mapNodeState = Without(@, {n})]
    BY DEF Finalized, A, B
  <2> QED
    BY <2>1, <1>0 DEF Record
<1>2. A = BlocksOf(T, n)
  <2> DEFINE q == M[n].vBlocksToDownload
  <2>1. QueueOK(q, M[n].nBlocksToDownload, BlocksOf(T, n))
    BY <1>0 DEF GoodNode
  <2> HIDE DEF q
  <2>2. q \in Seq(Hash) /\ DOMAIN q = 1 .. Len(q)
    BY <2>1 DEF QueueOK
  <2>3. ToSet(q) = BlocksOf(T, n)
    BY <2>1, <2>2 DEF QueueOK, ToSet
  <2> QED
    BY <2>3 DEF q
<1>3. B = BlocksOf(F, n)
  <2> DEFINE q == M[n].vBlocksInFlight
  <2>1. FlightOK(q, M[n].nBlocksInFlight, BlocksOf(F, n))
    BY <1>0 DEF GoodNode
  <2> HIDE DEF q
  <2>2. q \in Seq(Request) /\ DOMAIN q = 1 .. Len(q)
    BY <2>1 DEF FlightOK
  <2>3. {x.hash : x \in ToSet(q)} = BlocksOf(F, n)
    BY <2>1, <2>2 DEF FlightOK, ToSet
  <2> QED
    BY <2>3 DEF q
<1> HIDE DEF A, B
<1>4. /\ DOMAIN M2 = DOMAIN M \ {n} /\ M2 \in [DOMAIN M2 -> NodeState]
      /\ \A m \in DOMAIN M2 : M2[m] = M[m]
  BY <1>0 DEF Without, GoodMaps
<1>5. /\ T2 \in [DOMAIN T2 -> DOMAIN M2] /\ DOMAIN T2 \subseteq DOMAIN T
      /\ \A m \in DOMAIN M2 : BlocksOf(T2, m) = BlocksOf(T, m)
  BY <1>0, <1>2 DEF Without, GoodMaps, BlocksOf
<1>6. /\ F2 \in [DOMAIN F2 -> DOMAIN M2] /\ DOMAIN F2 \subseteq DOMAIN F
      /\ \A m \in DOMAIN M2 : BlocksOf(F2, m) = BlocksOf(F, m)
  BY <1>0, <1>3 DEF Without, GoodMaps, BlocksOf
<1> HIDE DEF M2, T2, F2
<1>7. GoodMaps(M2, T2, F2)
  BY <1>0, <1>4, <1>5, <1>6 DEF GoodMaps
<1> QED
  BY <1>1, <1>4, <1>7, GoodRecord DEF Record, Connected

(* Growing older keeps the order of the requests. *)
LEMMA OlderGood ==
  ASSUME NEW s, NEW Q, NEW F, GoodNode(s, Q, F)
  PROVE  GoodNode(OlderState(s), Q, F)
<1> DEFINE q == s.vBlocksInFlight
           r == [i \in DOMAIN q |-> OlderRequest(q[i])]
           o == OlderState(s)
<1>1. \A t \in Time : Older(t) \in Time
  BY DownloadAssumption DEF Older, Time
<1>2. \A t, u \in Time : t <= u => Older(t) <= Older(u)
  BY DownloadAssumption DEF Older, Time
<1>3. s \in NodeState /\ QueueOK(s.vBlocksToDownload, s.nBlocksToDownload, Q)
      /\ FlightOK(q, s.nBlocksInFlight, F)
  BY DEF GoodNode
<1>4. FlightOK(r, s.nBlocksInFlight, F)
  <2> HIDE DEF q
  <2>1. q \in Seq(Request) /\ Len(q) \in Nat /\ DOMAIN q = 1 .. Len(q)
    BY <1>3 DEF FlightOK
  <2>2. \A x \in Request : /\ OlderRequest(x) \in Request /\ OlderRequest(x).hash = x.hash
                           /\ OlderRequest(x).nTime = Older(x.nTime) /\ x.nTime \in Time
    BY <1>1 DEF OlderRequest, Request
  <2>3. \A i \in 1 .. Len(q) : /\ r[i] \in Request /\ r[i].hash = q[i].hash
                               /\ r[i].nTime = Older(q[i].nTime) /\ q[i].nTime \in Time
    BY <2>1, <2>2
  <2>4. r \in Seq(Request) /\ Len(r) = Len(q)
    BY <2>1, <2>2
  <2> HIDE DEF r
  <2> QED
    BY <1>2, <1>3, <2>1, <2>3, <2>4 DEF FlightOK
<1>5. r \in Seq(Request)
  BY <1>4 DEF FlightOK
<1> HIDE DEF r
<1>6. OlderState(s) = [s EXCEPT !.nLastBlockReceive = Older(s.nLastBlockReceive),
                                !.nLastBlockProcess = Older(s.nLastBlockProcess),
                                !.vBlocksInFlight = r]
  BY <1>3 DEF OlderState, r, NodeState
<1>7. /\ o \in NodeState /\ o.vBlocksInFlight = r /\ o.nBlocksInFlight = s.nBlocksInFlight
      /\ o.vBlocksToDownload = s.vBlocksToDownload /\ o.nBlocksToDownload = s.nBlocksToDownload
  BY <1>1, <1>3, <1>5, <1>6 DEF NodeState
<1> HIDE DEF o
<1>8. GoodNode(o, Q, F)
  BY <1>3, <1>4, <1>7 DEF GoodNode
<1> QED
  BY <1>8 DEF o

-----------------------------------------------------------------------------
(* The inductive invariant: the bookkeeping is good and only connected nodes   *)
(* have sent a version or wait to be closed.                                   *)
IInv ==
  /\ Good(dl)
  /\ hasVersion \subseteq Connected /\ fDisconnect \subseteq Connected
  /\ setBanned \subseteq Node /\ mapBlockIndex \subseteq Hash

LEMMA InitIInv == Init => IInv
<1> SUFFICES ASSUME Init PROVE IInv
  OBVIOUS
<1> DEFINE M == [n \in {} |-> CNodeState]
           T == [h \in {} |-> h]
<1>1. dl = Record(M, T, T)
  BY DEF Init, Record
<1>2. M \in [DOMAIN M -> NodeState] /\ DOMAIN M = {} /\ T \in [DOMAIN T -> DOMAIN M] /\ DOMAIN T = {}
  OBVIOUS
<1> HIDE DEF M, T
<1>3. GoodMaps(M, T, T)
  BY <1>2 DEF GoodMaps
<1>4. Good(dl)
  BY <1>1, <1>3, GoodRecord
<1> QED
  BY <1>4 DEF IInv, Init

LEMMA InitializeNodeIInv ==
  ASSUME IInv, NEW n \in Node, InitializeNode(n)
  PROVE  IInv'
<1>1. Good(dl') /\ DOMAIN (dl').mapNodeState = Connected \cup {n}
  BY NewNodeGood DEF IInv, InitializeNode
<1> QED
  BY <1>1 DEF IInv, InitializeNode, Connected

LEMMA FinalizeNodeIInv ==
  ASSUME IInv, NEW n \in Node, FinalizeNode(n)
  PROVE  IInv'
<1>0. n \in Connected
  BY DEF IInv, FinalizeNode
<1>1. Good(dl') /\ DOMAIN (dl').mapNodeState = Connected \ {n}
  BY <1>0, FinalizedGood DEF IInv, FinalizeNode
<1> QED
  BY <1>1 DEF IInv, FinalizeNode, Connected

LEMMA CloseIInv ==
  ASSUME IInv, NEW n \in Node, CloseSocketDisconnect(n) \/ Unban(n)
  PROVE  IInv'
BY DEF IInv, CloseSocketDisconnect, Unban, Connected

LEMMA VersionMessageIInv ==
  ASSUME IInv, NEW n \in Node, VersionMessage(n)
  PROVE  IInv'
<1>0. n \in Connected
  BY DEF VersionMessage
<1>1. Good(dl') /\ DOMAIN (dl').mapNodeState = Connected
  BY <1>0, StampedGood DEF IInv, VersionMessage
<1> QED
  BY <1>0, <1>1 DEF IInv, VersionMessage, Connected

LEMMA UntimelyMessageIInv ==
  ASSUME IInv, NEW n \in Node, UntimelyMessage(n)
  PROVE  IInv'
<1>0. n \in Connected /\ 1 \in Nat
  BY DEF UntimelyMessage
<1>1. Good(Stamped(n)) /\ DOMAIN Stamped(n).mapNodeState = Connected
  BY <1>0, StampedGood DEF IInv
<1>2. Good(dl') /\ DOMAIN (dl').mapNodeState = Connected
  BY <1>0, <1>1, MisbehavingGood DEF UntimelyMessage
<1> QED
  BY <1>2 DEF IInv, UntimelyMessage, Connected

LEMMA OtherMessageIInv ==
  ASSUME IInv, NEW n \in Node, OtherMessage(n)
  PROVE  IInv'
<1>1. Good(dl') /\ DOMAIN (dl').mapNodeState = Connected
  BY StampedGood DEF IInv, OtherMessage, Heard
<1> QED
  BY <1>1 DEF IInv, OtherMessage, Connected

LEMMA InvMessageIInv ==
  ASSUME IInv, NEW n \in Node, NEW h \in Hash, InvMessage(n, h)
  PROVE  IInv'
<1>0. n \in Connected
  BY DEF InvMessage, Heard
<1>1. Good(Stamped(n)) /\ DOMAIN Stamped(n).mapNodeState = Connected
  BY <1>0, StampedGood DEF IInv
<1>2. /\ Good(AddBlockToQueue(Stamped(n), n, h))
      /\ DOMAIN AddBlockToQueue(Stamped(n), n, h).mapNodeState = Connected
  BY <1>0, <1>1, AddBlockToQueueGood
<1>3. Good(dl') /\ DOMAIN (dl').mapNodeState = Connected
  BY <1>1, <1>2 DEF InvMessage
<1> QED
  BY <1>3 DEF IInv, InvMessage, Connected

LEMMA BlockMessageIInv ==
  ASSUME IInv, NEW n \in Node, NEW h \in Hash, BlockMessage(n, h)
  PROVE  IInv'
<1>0. n \in Connected
  BY DEF BlockMessage, Heard
<1>1. Good(Stamped(n)) /\ DOMAIN Stamped(n).mapNodeState = Connected
  BY <1>0, StampedGood DEF IInv
<1>2. Good(dl') /\ DOMAIN (dl').mapNodeState = Connected
  BY <1>1, MarkBlockAsReceivedGood DEF BlockMessage
<1> QED
  BY <1>2 DEF IInv, BlockMessage, Connected

LEMMA BadBlockMessageIInv ==
  ASSUME IInv, NEW n \in Node, NEW h \in Hash, NEW nDoS \in RejectScore, BadBlockMessage(n, h, nDoS)
  PROVE  IInv'
<1> DEFINE e == MarkBlockAsReceived(Stamped(n), h, n)
<1>0. n \in Connected /\ nDoS \in Nat
  BY DownloadAssumption DEF BadBlockMessage, Heard
<1>1. Good(Stamped(n)) /\ DOMAIN Stamped(n).mapNodeState = Connected
  BY <1>0, StampedGood DEF IInv
<1>2. Good(e) /\ DOMAIN e.mapNodeState = Connected
  BY <1>1, MarkBlockAsReceivedGood
<1>3. dl' = Misbehaving(e, n, nDoS)
  BY DEF BadBlockMessage
<1> HIDE DEF e
<1>4. Good(dl') /\ DOMAIN (dl').mapNodeState = Connected
  BY <1>0, <1>2, <1>3, MisbehavingGood
<1> QED
  BY <1>4 DEF IInv, BadBlockMessage, Connected

LEMMA SendMessagesIInv ==
  ASSUME IInv, NEW n \in Node, SendMessages(n)
  PROVE  IInv'
<1> DEFINE d1 == [dl EXCEPT !.mapNodeState[n].fShouldBan = FALSE]
<1>0. n \in Connected
  BY DEF SendMessages
<1>1. Good(d1) /\ DOMAIN d1.mapNodeState = Connected
  BY <1>0, ForgivenGood DEF IInv
<1>2. dl' = d1 \/ dl' = Requested(d1, n)
  BY DEF SendMessages
<1>3. /\ fDisconnect' \subseteq fDisconnect \cup {n} /\ setBanned' \subseteq setBanned \cup {n}
      /\ mapBlockIndex' = mapBlockIndex /\ hasVersion' = hasVersion
  BY DEF SendMessages
<1> HIDE DEF d1
<1>4. Good(dl') /\ DOMAIN (dl').mapNodeState = Connected
  BY <1>0, <1>1, <1>2, RequestedGood
<1> QED
  BY <1>0, <1>3, <1>4 DEF IInv, Connected

LEMMA TickIInv ==
  ASSUME IInv, Tick
  PROVE  IInv'
<1> DEFINE M == dl.mapNodeState
           T == dl.mapBlocksToDownload
           F == dl.mapBlocksInFlight
           M2 == [n \in Connected |-> OlderState(M[n])]
<1>0. dl = Record(M, T, F) /\ GoodMaps(M, T, F) /\ Connected = DOMAIN M
  BY DEF IInv, Good, Connected
<1>1. dl' = Record(M2, T, F)
  BY <1>0 DEF Tick, Record
<1>2. \A n \in DOMAIN M : GoodNode(OlderState(M[n]), BlocksOf(T, n), BlocksOf(F, n))
  BY <1>0, OlderGood DEF GoodMaps
<1>3. /\ DOMAIN M2 = DOMAIN M
      /\ \A n \in DOMAIN M : M2[n] = OlderState(M[n])
  BY <1>0
<1>4. \A n \in DOMAIN M : OlderState(M[n]) \in NodeState
  BY <1>2 DEF GoodNode
<1>5. M2 \in [DOMAIN M -> NodeState]
  BY <1>0, <1>4
<1> HIDE DEF M2
<1>6. GoodMaps(M2, T, F)
  BY <1>0, <1>2, <1>3, <1>5 DEF GoodMaps
<1>7. Good(Record(M2, T, F)) /\ Record(M2, T, F).mapNodeState = M2
  BY <1>6, GoodRecord DEF Record
<1>8. Good(dl') /\ DOMAIN (dl').mapNodeState = Connected
  <2> HIDE DEF M, T, F
  <2> QED
    BY ONLY <1>0, <1>1, <1>3, <1>7
<1> QED
  BY <1>8 DEF IInv, Tick, Connected

LEMMA NextIInv == IInv /\ [Next]_vars => IInv'
<1> SUFFICES ASSUME IInv, [Next]_vars PROVE IInv'
  OBVIOUS
<1>1. CASE Tick
  BY <1>1, TickIInv
<1>2. ASSUME NEW n \in Node,
             \/ InitializeNode(n) \/ FinalizeNode(n) \/ CloseSocketDisconnect(n) \/ Unban(n)
             \/ VersionMessage(n) \/ UntimelyMessage(n) \/ OtherMessage(n)
             \/ \E h \in Hash : InvMessage(n, h) \/ BlockMessage(n, h)
             \/ \E h \in Hash, nDoS \in RejectScore : BadBlockMessage(n, h, nDoS)
             \/ SendMessages(n)
      PROVE  IInv'
  BY <1>2, InitializeNodeIInv, FinalizeNodeIInv, CloseIInv, VersionMessageIInv,
     UntimelyMessageIInv, OtherMessageIInv, InvMessageIInv, BlockMessageIInv, BadBlockMessageIInv, SendMessagesIInv
<1>3. CASE UNCHANGED vars
  BY <1>3 DEF vars, IInv, Connected
<1> QED
  BY <1>1, <1>2, <1>3 DEF Next

LEMMA IInvHolds == Spec => []IInv
BY InitIInv, NextIInv, PTL DEF Spec

-----------------------------------------------------------------------------
LEMMA IInvTypeOK == IInv => TypeOK
<1> SUFFICES ASSUME IInv PROVE TypeOK
  OBVIOUS
<1>1. /\ Connected \subseteq Node /\ DOMAIN dl.mapBlocksToDownload \subseteq Hash
      /\ DOMAIN dl.mapBlocksInFlight \subseteq Hash
  BY DEF IInv, Good, GoodMaps, Connected
<1>2. ASSUME NEW n \in Connected PROVE NodeStateOK(dl.mapNodeState[n])
  <2> DEFINE s == dl.mapNodeState[n]
  <2>1. /\ s \in NodeState /\ s.vBlocksToDownload \in Seq(Hash) /\ s.nBlocksToDownload = Len(s.vBlocksToDownload)
        /\ s.vBlocksInFlight \in Seq(Request) /\ s.nBlocksInFlight = Len(s.vBlocksInFlight)
    BY CountIsLength DEF IInv, Connected
  <2> HIDE DEF s
  <2>2. s.nBlocksToDownload \in Nat /\ s.nBlocksInFlight \in Nat
    BY <2>1
  <2>3. NodeStateOK(s)
    BY <2>1, <2>2 DEF NodeStateOK, NodeState, Request
  <2> QED
    BY <2>3 DEF s
<1> QED
  BY <1>1, <1>2 DEF TypeOK, IInv

LEMMA IInvMatch == IInv => MapsMatchLists
<1> SUFFICES ASSUME IInv PROVE MapsMatchLists
  OBVIOUS
<1> DEFINE T == dl.mapBlocksToDownload
           F == dl.mapBlocksInFlight
<1>1. /\ \A h \in DOMAIN T : T[h] \in Connected
      /\ \A h \in DOMAIN F : F[h] \in Connected
      /\ DOMAIN T \cap DOMAIN F = {}
  BY DEF IInv, Good, GoodMaps, Connected
<1>2. ASSUME NEW n \in Connected
      PROVE  /\ ToSet(Queue(n)) = BlocksOf(T, n) /\ IsInjective(Queue(n))
             /\ Len(Queue(n)) = dl.mapNodeState[n].nBlocksToDownload
  <2> DEFINE q == Queue(n)
  <2>1. QueueOK(q, dl.mapNodeState[n].nBlocksToDownload, BlocksOf(T, n))
    BY DEF IInv, Good, GoodMaps, GoodNode, Queue, Connected
  <2> HIDE DEF q
  <2>2. q \in Seq(Hash) /\ DOMAIN q = 1 .. Len(q)
    BY <2>1 DEF QueueOK
  <2>3. ToSet(q) = BlocksOf(T, n)
    BY <2>1, <2>2 DEF QueueOK, ToSet
  <2>4. IsInjective(q)
    BY <2>1, <2>2 DEF QueueOK, IsInjective
  <2> QED
    BY <2>1, <2>3, <2>4 DEF q, QueueOK
<1>3. ASSUME NEW n \in Connected
      PROVE  /\ ToSet(InFlight(n)) = BlocksOf(F, n) /\ IsInjective(InFlight(n))
             /\ Len(InFlight(n)) = dl.mapNodeState[n].nBlocksInFlight
  <2> DEFINE q == dl.mapNodeState[n].vBlocksInFlight
             r == [i \in DOMAIN q |-> q[i].hash]
  <2>1. FlightOK(q, dl.mapNodeState[n].nBlocksInFlight, BlocksOf(F, n))
    BY DEF IInv, Good, GoodMaps, GoodNode, Connected
  <2>0. InFlight(n) = r
    BY DEF InFlight
  <2> HIDE DEF q
  <2>2. q \in Seq(Request) /\ DOMAIN q = 1 .. Len(q) /\ Len(q) \in Nat
    BY <2>1 DEF FlightOK
  <2>3. /\ DOMAIN r = 1 .. Len(q) /\ Len(r) = Len(q)
        /\ \A i \in 1 .. Len(q) : r[i] = q[i].hash
    BY <2>2
  <2> HIDE DEF r
  <2>4. ToSet(r) = BlocksOf(F, n)
    <3>1. \A i \in 1 .. Len(q) : q[i].hash \in BlocksOf(F, n)
      BY <2>1 DEF FlightOK
    <3>2. \A h \in BlocksOf(F, n) : \E i \in 1 .. Len(q) : q[i].hash = h
      BY <2>1 DEF FlightOK
    <3>3. ToSet(r) = {r[i] : i \in 1 .. Len(q)}
      BY <2>3 DEF ToSet
    <3>4. ASSUME NEW h \in BlocksOf(F, n) PROVE h \in ToSet(r)
      <4>1. PICK i \in 1 .. Len(q) : q[i].hash = h
        BY <3>2
      <4> QED
        BY <4>1, <2>3, <3>3
    <3>5. ASSUME NEW h \in ToSet(r) PROVE h \in BlocksOf(F, n)
      <4>1. PICK i \in 1 .. Len(q) : h = r[i]
        BY <3>3
      <4> QED
        BY <4>1, <2>3, <3>1
    <3> QED
      BY <3>4, <3>5
  <2>5. IsInjective(r)
    BY <2>1, <2>3 DEF FlightOK, IsInjective
  <2> QED
    BY <2>0, <2>1, <2>3, <2>4, <2>5 DEF FlightOK
<1> QED
  BY <1>1, <1>2, <1>3 DEF MapsMatchLists, BlocksOf

LEMMA IInvOldest == IInv => OldestFirst
<1> SUFFICES ASSUME IInv, NEW n \in Connected
             PROVE  \A i, j \in DOMAIN dl.mapNodeState[n].vBlocksInFlight :
                       i < j => dl.mapNodeState[n].vBlocksInFlight[i].nTime
                                  <= dl.mapNodeState[n].vBlocksInFlight[j].nTime
  BY DEF OldestFirst
<1> DEFINE q == dl.mapNodeState[n].vBlocksInFlight
<1>1. FlightOK(q, dl.mapNodeState[n].nBlocksInFlight, BlocksOf(dl.mapBlocksInFlight, n))
  BY DEF IInv, Good, GoodMaps, GoodNode, Connected
<1> HIDE DEF q
<1>2. q \in Seq(Request) /\ DOMAIN q = 1 .. Len(q)
  BY <1>1 DEF FlightOK
<1>3. \A i, j \in DOMAIN q : i < j => q[i].nTime <= q[j].nTime
  BY <1>1, <1>2 DEF FlightOK
<1> QED
  BY <1>3 DEF q

(* The types of the download bookkeeping; no counter of MarkBlockAsReceived or  *)
(* MarkBlockAsInFlight ever drops below zero.                                   *)
THEOREM DownloadTypes == Spec => []TypeOK
BY IInvHolds, IInvTypeOK, PTL

(* mapBlocksToDownload, mapBlocksInFlight and the peers' lists and counters     *)
(* agree in every reachable state, for any number of peers and blocks: no path   *)
(* through AddBlockToQueue, MarkBlockAsInFlight, MarkBlockAsReceived and         *)
(* FinalizeNode leaves a block reserved for a peer that is gone.                 *)
THEOREM BookkeepingConsistent == Spec => []MapsMatchLists
BY IInvHolds, IInvMatch, PTL

(* The front of vBlocksInFlight is the oldest request, which the stall detection *)
(* of SendMessages relies on.                                                    *)
THEOREM FrontIsOldest == Spec => []OldestFirst
BY IInvHolds, IInvOldest, PTL
=============================================================================
