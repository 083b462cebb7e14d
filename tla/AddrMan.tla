------------------------------- MODULE AddrMan -------------------------------
(***************************************************************************)
(* CAddrMan (addrman.h, addrman.cpp): the table of peer addresses.  Every  *)
(* address has an entry under an id; an entry is in the "tried" table or   *)
(* in up to ADDRMAN_NEW_BUCKETS_PER_ADDRESS buckets of the "new" table,    *)
(* and at one place of vRandom.  CAddrDB saves the tables to peers.dat and *)
(* reads them back at start.                                               *)
(*                                                                         *)
(* Of an entry's times only nLastSuccess is kept (eviction compares it).   *)
(* The others decide which entry ShrinkNew deletes and whether Add_ has    *)
(* news of a known address: both are free choices here.  Attempt_ and      *)
(* Connected_ change only those times; Select_ changes nothing.            *)
(***************************************************************************)
EXTENDS Integers, SequencesExt

CONSTANTS
  Addr, Source, NewBucket, TriedBucket,
  GetNewBucket,      \* GetNewBucket[a][s]: bucket of a when s told us of it
  GetTriedBucket,    \* GetTriedBucket[a]
  ADDRMAN_NEW_BUCKET_SIZE, ADDRMAN_TRIED_BUCKET_SIZE,
  ADDRMAN_NEW_BUCKETS_PER_ADDRESS,
  ADDRMAN_TRIED_ENTRIES_INSPECT_ON_EVICT,
  ADDRMAN_GETADDR_MAX_PCT,
  MaxId,             \* bound on the ids handed out
  MaxTime            \* bound on the times of success

ASSUME AddrManAssumption ==
  /\ GetNewBucket \in [Addr -> [Source -> NewBucket]]
  /\ GetTriedBucket \in [Addr -> TriedBucket]
  /\ {ADDRMAN_NEW_BUCKET_SIZE, ADDRMAN_TRIED_BUCKET_SIZE, ADDRMAN_NEW_BUCKETS_PER_ADDRESS,
      ADDRMAN_TRIED_ENTRIES_INSPECT_ON_EVICT, MaxTime} \subseteq Nat \ {0}
  /\ ADDRMAN_GETADDR_MAX_PCT \in 0..100
  /\ MaxId \in Nat
  /\ IsFiniteSet(NewBucket)    \* ADDRMAN_NEW_BUCKET_COUNT of them

VARIABLES
  am,     \* the members of the CAddrMan object
  disk    \* peers.dat

vars == <<am, disk>>

Info == [addr : Addr, source : Source, nLastSuccess : 0..MaxTime,
         nRefCount : Int, fInTried : BOOLEAN, nRandomPos : Nat]

(* The constructor: empty tables. *)
Empty == [nIdCount |-> 0, mapInfo |-> << >>, mapAddr |-> << >>, vRandom |-> << >>,
          nTried |-> 0, vvTried |-> [b \in TriedBucket |-> << >>],
          nNew |-> 0, vvNew |-> [b \in NewBucket |-> {}]]

With(map, k, v) == [x \in DOMAIN map \cup {k} |-> IF x = k THEN v ELSE map[x]]

Without(map, k) == [x \in DOMAIN map \ {k} |-> map[x]]

-----------------------------------------------------------------------------
Create(m, a, s) ==
  [m EXCEPT !.nIdCount = @ + 1,
            !.mapInfo = With(@, m.nIdCount,
                             [addr |-> a, source |-> s, nLastSuccess |-> 0, nRefCount |-> 0,
                              fInTried |-> FALSE, nRandomPos |-> Len(m.vRandom)]),
            !.mapAddr = With(@, a, m.nIdCount),
            !.vRandom = Append(@, m.nIdCount)]

(* Two elements of a vector change places. *)
Exchange(s, i, j) == [s EXCEPT ![i] = s[j], ![j] = s[i]]

(* Positions of vRandom count from 0. *)
SwapRandom(m, p, q) ==
  IF p = q THEN m
  ELSE LET id1 == m.vRandom[p + 1]
           id2 == m.vRandom[q + 1]
       IN  [m EXCEPT !.mapInfo = [m.mapInfo EXCEPT ![id1].nRandomPos = q, ![id2].nRandomPos = p],
                     !.vRandom = Exchange(@, p + 1, q + 1)]

(* The deletion inside ShrinkNew: swap to the end of vRandom, pop, erase. *)
Delete(m, n) ==
  LET w == SwapRandom(m, m.mapInfo[n].nRandomPos, Len(m.vRandom) - 1)
  IN  [w EXCEPT !.vRandom = Front(@), !.mapAddr = Without(@, m.mapInfo[n].addr),
                !.mapInfo = Without(@, n), !.nNew = @ - 1]

(* ShrinkNew takes entry n out of bucket b. *)
ShrinkNew(m, b, n) ==
  LET w == [m EXCEPT !.mapInfo[n].nRefCount = @ - 1]
      d == IF w.mapInfo[n].nRefCount = 0 THEN Delete(w, n) ELSE w
  IN  [d EXCEPT !.vvNew[b] = @ \ {n}]

(* A round of SelectTried: rnd[i] is its random position.  st holds the bucket, *)
(* shuffled so far, and the entry and position chosen so far.                   *)
Inspect(m, rnd, i, st) ==
  LET id == st.vTried[rnd[i]]
      older == \/ st.nOldest = -1
               \/ m.mapInfo[id].nLastSuccess < m.mapInfo[st.nOldest].nLastSuccess
  IN  [vTried |-> Exchange(st.vTried, rnd[i], i),
       nOldest |-> IF older THEN id ELSE st.nOldest,
       nPos |-> IF older THEN rnd[i] ELSE st.nPos]

SelectTried(m, vTried, rnd) ==
  LET after[i \in 0..Len(rnd)] ==
        IF i = 0 THEN [vTried |-> vTried, nOldest |-> -1, nPos |-> 0]
        ELSE Inspect(m, rnd, i, after[i - 1])
  IN  after[Len(rnd)]

(* The random positions SelectTried may draw. *)
Draws(vTried) ==
  LET k == IF Len(vTried) < ADDRMAN_TRIED_ENTRIES_INSPECT_ON_EVICT THEN Len(vTried)
           ELSE ADDRMAN_TRIED_ENTRIES_INSPECT_ON_EVICT
  IN  {rnd \in [1..k -> 1..Len(vTried)] : \A i \in 1..k : rnd[i] >= i}

(* Mutant of ToTried: the entry stays in the other new buckets. *)
ToTriedOneBucket(m, n, nOrigin) ==
  [m EXCEPT !.vvNew[nOrigin] = @ \ {n}, !.mapInfo[n].nRefCount = 0, !.nNew = @ - 1]

(* MakeTried, first part: the entry leaves all new buckets. *)
ToTried(m, n, nOrigin) ==
  [m EXCEPT !.vvNew = [b \in NewBucket |-> m.vvNew[b] \ {n}],
            !.mapInfo[n].nRefCount = @ - Cardinality({b \in NewBucket : n \in m.vvNew[b]}),
            !.nNew = @ - 1]

(* Mutant of Evict: the old entry goes to its own new bucket in any case. *)
EvictAlwaysHome(m, n, nOrigin, sel) ==
  LET kb == GetTriedBucket[m.mapInfo[n].addr]
      old == sel.vTried[sel.nPos]
      ub == GetNewBucket[m.mapInfo[old].addr][m.mapInfo[old].source]
  IN  [m EXCEPT !.mapInfo[old].fInTried = FALSE, !.mapInfo[old].nRefCount = 1,
                !.vvNew[ub] = @ \cup {old}, !.nNew = @ + 1,
                !.vvTried[kb] = [sel.vTried EXCEPT ![sel.nPos] = n],
                !.mapInfo[n].fInTried = TRUE]

(* Mutant of Evict: the old entry is deleted. *)
EvictDeletes(m, n, nOrigin, sel) ==
  LET kb == GetTriedBucket[m.mapInfo[n].addr]
      old == sel.vTried[sel.nPos]
  IN  [Delete(m, old) EXCEPT !.nNew = @ + 1,
                             !.vvTried[kb] = [sel.vTried EXCEPT ![sel.nPos] = n],
                             !.mapInfo[n].fInTried = TRUE]

(* MakeTried with a full tried bucket: the entry SelectTried chose goes back to *)
(* its new bucket or, if that is full, to the one n came from.                  *)
Evict(m, n, nOrigin, sel) ==
  LET kb == GetTriedBucket[m.mapInfo[n].addr]
      old == sel.vTried[sel.nPos]
      home == GetNewBucket[m.mapInfo[old].addr][m.mapInfo[old].source]
      ub == IF Cardinality(m.vvNew[home]) < ADDRMAN_NEW_BUCKET_SIZE THEN home ELSE nOrigin
  IN  [m EXCEPT !.mapInfo = [@ EXCEPT ![old].fInTried = FALSE, ![old].nRefCount = 1, ![n].fInTried = TRUE],
                !.vvNew[ub] = @ \cup {old}, !.nNew = @ + 1,
                !.vvTried[kb] = [sel.vTried EXCEPT ![sel.nPos] = n]]

(* MakeTried with room in the tried bucket. *)
Place(m, n) ==
  [m EXCEPT !.vvTried[GetTriedBucket[m.mapInfo[n].addr]] = Append(@, n), !.nTried = @ + 1,
            !.mapInfo[n].fInTried = TRUE]

(* The ids of S in the order of the map. *)
InOrder(S) ==
  CHOOSE s \in [1..Cardinality(S) -> S] : \A i, j \in 1..Cardinality(S) : i < j => s[i] < s[j]

(* The entries of the ids in s, at most k of them. *)
Saved(mapInfo, s, k) == [i \in 1..(IF Len(s) < k THEN Len(s) ELSE k) |-> mapInfo[s[i]]]

(* Serialization: the new entries and the tried entries in id order, the new *)
(* buckets by index into the former.  nRefCount, fInTried and nRandomPos are  *)
(* not written: the reader rebuilds them.                                     *)
Serialize(m) ==
  LET new == InOrder({n \in DOMAIN m.mapInfo : m.mapInfo[n].nRefCount # 0})
      tried == InOrder({n \in DOMAIN m.mapInfo : m.mapInfo[n].fInTried})
  IN  [new |-> Saved(m.mapInfo, new, m.nNew), tried |-> Saved(m.mapInfo, tried, m.nTried),
       vvNew |-> [b \in NewBucket |-> {i - 1 : i \in {j \in DOMAIN new : new[j] \in m.vvNew[b]}}]]

(* Mutant of ReadTried: takes a bucket with one free place to be full. *)
ReadTriedEarly(m, info) ==
  LET kb == GetTriedBucket[info.addr]
      n == m.nIdCount
  IN  IF Len(m.vvTried[kb]) >= ADDRMAN_TRIED_BUCKET_SIZE - 1 THEN m
      ELSE [m EXCEPT !.mapInfo = With(@, n, [info EXCEPT !.nRandomPos = Len(m.vRandom),
                                                         !.fInTried = TRUE, !.nRefCount = 0]),
                     !.mapAddr = With(@, info.addr, n), !.vRandom = Append(@, n),
                     !.vvTried[kb] = Append(@, n), !.nTried = @ + 1, !.nIdCount = @ + 1]

(* Reading one tried entry; it is lost if its bucket is full. *)
ReadTried(m, info) ==
  LET kb == GetTriedBucket[info.addr]
      n == m.nIdCount
  IN  IF Len(m.vvTried[kb]) >= ADDRMAN_TRIED_BUCKET_SIZE THEN m
      ELSE [m EXCEPT !.mapInfo = With(@, n, [info EXCEPT !.nRandomPos = Len(m.vRandom),
                                                         !.fInTried = TRUE, !.nRefCount = 0]),
                     !.mapAddr = With(@, info.addr, n), !.vRandom = Append(@, n),
                     !.vvTried[kb] = Append(@, n), !.nTried = @ + 1, !.nIdCount = @ + 1]

(* Reading one new entry; the buckets that follow hold its references, never  *)
(* more than the reader's cap in a file this code wrote.                      *)
ReadNew(m, info) ==
  LET n == m.nIdCount
      refs == Cardinality({b \in NewBucket : n \in m.vvNew[b]})
  IN  [m EXCEPT !.mapInfo = With(@, n, [info EXCEPT !.nRandomPos = n, !.fInTried = FALSE,
                                                    !.nRefCount = refs]),
                !.mapAddr = With(@, info.addr, n), !.vRandom = Append(@, n),
                !.nNew = @ + 1, !.nIdCount = @ + 1]

(* Reading peers.dat into an empty CAddrMan. *)
Unserialize(d) ==
  LET read[i \in 0..(Len(d.new) + Len(d.tried))] ==
        IF i = 0 THEN [Empty EXCEPT !.vvNew = d.vvNew]
        ELSE IF i <= Len(d.new) THEN ReadNew(read[i - 1], d.new[i])
        ELSE ReadTried(read[i - 1], d.tried[i - Len(d.new)])
  IN  read[Len(d.new) + Len(d.tried)]

-----------------------------------------------------------------------------
(* Add_ of an unknown address, or of a known one with news that pass the *)
(* stochastic test.                                                      *)
Add(a, s) ==
  LET known == a \in DOMAIN am.mapAddr
      m1 == IF known THEN am ELSE [Create(am, a, s) EXCEPT !.nNew = @ + 1]
      n == m1.mapAddr[a]
      b == GetNewBucket[a][s]
      m2 == [m1 EXCEPT !.mapInfo[n].nRefCount = @ + 1]
  IN  /\ ~known => am.nIdCount < MaxId
      /\ known => /\ ~am.mapInfo[n].fInTried
                  /\ am.mapInfo[n].nRefCount # ADDRMAN_NEW_BUCKETS_PER_ADDRESS
                  /\ n \notin am.vvNew[b]
      /\ \E m3 \in IF Cardinality(m2.vvNew[b]) = ADDRMAN_NEW_BUCKET_SIZE
                     THEN {ShrinkNew(m2, b, x) : x \in m2.vvNew[b]}
                     ELSE {m2} :
           am' = [m3 EXCEPT !.vvNew[b] = @ \cup {n}]
      /\ UNCHANGED disk

(* Good_ of a known address, after a connection to it succeeded at nTime. *)
Good(a, nTime) ==
  /\ a \in DOMAIN am.mapAddr
  /\ LET n == am.mapAddr[a]
         m == [am EXCEPT !.mapInfo[n].nLastSuccess = nTime]
         vTried == am.vvTried[GetTriedBucket[a]]
     IN  \/ /\ am.mapInfo[n].fInTried
            /\ am' = m
         \/ /\ ~am.mapInfo[n].fInTried
            /\ \E nOrigin \in {b \in NewBucket : n \in am.vvNew[b]} :
                 LET w == ToTried(m, n, nOrigin)
                 IN  \/ /\ Len(vTried) < ADDRMAN_TRIED_BUCKET_SIZE
                        /\ am' = Place(w, n)
                     \/ /\ Len(vTried) >= ADDRMAN_TRIED_BUCKET_SIZE
                        /\ \E rnd \in Draws(vTried) : am' = Evict(w, n, nOrigin, SelectTried(w, vTried, rnd))
  /\ UNCHANGED disk

(* GetAddr_'s loop: the i-th entry of vRandom changes places with a later one. *)
Shuffle(m, rnd) ==
  LET after[i \in 0..Len(rnd)] == IF i = 0 THEN m ELSE SwapRandom(after[i - 1], i - 1, rnd[i])
  IN  after[Len(rnd)]

(* GetAddr_: answers a getaddr message and shuffles the head of vRandom. *)
GetAddr ==
  LET nNodes == (ADDRMAN_GETADDR_MAX_PCT * Len(am.vRandom)) \div 100
  IN  /\ nNodes > 0
      /\ \E rnd \in [1..nNodes -> 0..(Len(am.vRandom) - 1)] :
           /\ \A i \in 1..nNodes : rnd[i] >= i - 1
           /\ am' = Shuffle(am, rnd)
      /\ UNCHANGED disk

(* DumpAddresses: peers.dat is written aside and renamed into place. *)
DumpAddresses ==
  /\ disk' = Serialize(am)
  /\ UNCHANGED am

(* The node stops at any moment and starts from peers.dat. *)
Restart ==
  /\ am' = Unserialize(disk)
  /\ UNCHANGED disk

-----------------------------------------------------------------------------
Init == am = Empty /\ disk = Serialize(Empty)

Next ==
  \/ \E a \in Addr : \/ \E s \in Source : Add(a, s)
                     \/ \E nTime \in 1..MaxTime : Good(a, nTime)
  \/ GetAddr
  \/ DumpAddresses
  \/ Restart

Spec == Init /\ [][Next]_vars

-----------------------------------------------------------------------------
(* Types of the tables; ids are below nIdCount. *)
TypeOK ==
  /\ am.nIdCount \in 0..MaxId /\ am.nNew \in Nat /\ am.nTried \in Nat
  /\ DOMAIN am.mapInfo \subseteq 0..(am.nIdCount - 1)
  /\ \A n \in DOMAIN am.mapInfo : am.mapInfo[n] \in Info
  /\ am.vRandom \in Seq(DOMAIN am.mapInfo)
  /\ \A b \in TriedBucket : am.vvTried[b] \in Seq(DOMAIN am.mapInfo)
  /\ \A b \in NewBucket : am.vvNew[b] \subseteq DOMAIN am.mapInfo

(* Check_, codes -5, -7 and -14: mapInfo, mapAddr and vRandom index each other. *)
IndexesAgree ==
  /\ DOMAIN am.mapAddr = {am.mapInfo[n].addr : n \in DOMAIN am.mapInfo}
  /\ Len(am.vRandom) = am.nNew + am.nTried
  /\ \A n \in DOMAIN am.mapInfo : /\ am.mapAddr[am.mapInfo[n].addr] = n
                                  /\ am.mapInfo[n].nRandomPos < Len(am.vRandom)
                                  /\ am.vRandom[am.mapInfo[n].nRandomPos + 1] = n

New == {n \in DOMAIN am.mapInfo : ~am.mapInfo[n].fInTried}

(* Check_, codes -2 to -4, -10, -12 and -15: an entry's reference count is the    *)
(* number of new buckets it is in, zero for tried entries only; in particular     *)
(* MakeTried's assert(info.nRefCount == 0) holds.                                 *)
RefCountsExact ==
  /\ am.nNew = Cardinality(New)
  /\ \A n \in DOMAIN am.mapInfo :
       LET refs == Cardinality({b \in NewBucket : n \in am.vvNew[b]})
       IN  /\ am.mapInfo[n].nRefCount = refs
           /\ IF n \in New THEN refs \in 1..ADDRMAN_NEW_BUCKETS_PER_ADDRESS ELSE refs = 0

(* Check_, codes -1, -9, -11 and -13: each tried entry is once in the bucket its  *)
(* address hashes to.                                                             *)
TriedExact ==
  /\ am.nTried = Cardinality(DOMAIN am.mapInfo \ New)
  /\ \A n \in DOMAIN am.mapInfo, b \in TriedBucket :
       Cardinality({i \in DOMAIN am.vvTried[b] : am.vvTried[b][i] = n})
         = IF n \notin New /\ b = GetTriedBucket[am.mapInfo[n].addr] THEN 1 ELSE 0
  /\ \A n \in DOMAIN am.mapInfo \ New : am.mapInfo[n].nLastSuccess # 0

(* What Check_ tests, a debugging aid the build leaves out: mapInfo, mapAddr,     *)
(* vRandom, the buckets and the counts describe one set of entries.               *)
Check == IndexesAgree /\ RefCountsExact /\ TriedExact

(* No bucket grows beyond its size: "there is certainly place there" (MakeTried), *)
(* also when the evicted entry cannot go to its own bucket.                       *)
BucketsBounded ==
  /\ \A b \in NewBucket : Cardinality(am.vvNew[b]) <= ADDRMAN_NEW_BUCKET_SIZE
  /\ \A b \in TriedBucket : Len(am.vvTried[b]) <= ADDRMAN_TRIED_BUCKET_SIZE

(* What peers.dat is to preserve: for every address where it was learnt, its last *)
(* success, and its place in the tables.                                          *)
Content(m) ==
  [a \in DOMAIN m.mapAddr |->
     LET n == m.mapAddr[a]
     IN  [source |-> m.mapInfo[n].source, nLastSuccess |-> m.mapInfo[n].nLastSuccess,
          tried |-> {b \in TriedBucket : n \in Range(m.vvTried[b])},
          new |-> {b \in NewBucket : n \in m.vvNew[b]}]]

(* Writing peers.dat and reading it back loses nothing, although ids are handed   *)
(* out anew and the tried table and the indexes are rebuilt.                      *)
DumpRestores == Content(Unserialize(Serialize(am))) = Content(am)

(* "They are never deleted while in the tried table, only possibly evicted back   *)
(* to the new table" (ShrinkNew), short of a restart from an older file.          *)
TriedNeverDeleted ==
  [][\A n \in DOMAIN am.mapInfo \ New :
       am.mapInfo[n].addr \in DOMAIN am.mapAddr' \/ am' = Unserialize(disk)]_vars

(* "find the least recently tried among them" (SelectTried): an entry that Good_  *)
(* evicts has no older one beside it, when the bucket is small enough to be       *)
(* inspected as a whole.                                                          *)
EvictsOldest ==
  [][\A b \in TriedBucket, n \in DOMAIN am.mapInfo \ New :
       /\ Len(am.vvTried[b]) <= ADDRMAN_TRIED_ENTRIES_INSPECT_ON_EVICT
       /\ n \in Range(am.vvTried[b])
       /\ n \in DOMAIN am'.mapInfo /\ am.nIdCount = am'.nIdCount /\ n \in New'
       => \A k \in Range(am.vvTried[b]) : am.mapInfo[k].nLastSuccess >= am.mapInfo[n].nLastSuccess
     ]_vars
=============================================================================
