---------------------------- MODULE AddrManProofs ----------------------------
(***************************************************************************)
(* The address manager's tables describe one set of entries, the file      *)
(* describes such tables, and writing and reading it loses nothing: for    *)
(* any addresses, buckets, bucket sizes and limits.                        *)
(*                                                                         *)
(* Sound(m, W) says that the tables of m agree when W holds the new        *)
(* buckets; W is apart from m because the code passes through states in    *)
(* which counts and buckets differ, and because a file holds all buckets   *)
(* before the entries they refer to have been read.  AddrOK adds that the  *)
(* buckets are of m and within their sizes.  Restart reads whatever file   *)
(* there is, so the invariant AInv says also what a file may hold, DiskOK. *)
(*                                                                         *)
(* The loops (Shuffle, SelectTried, Unserialize) are recursive functions.  *)
(* That such a function exists and that every round keeps what is claimed  *)
(* of it follows from the least round that does not.                       *)
(***************************************************************************)
EXTENDS AddrMan, FiniteSetTheorems, SequenceTheorems, WellFoundedInduction, TLAPS

(* The members of a CAddrMan. *)
IsAddrMan(m) ==
  DOMAIN m = {"nIdCount", "mapInfo", "mapAddr", "vRandom", "nTried", "vvTried", "nNew", "vvNew"}

(* mapAddr finds every entry by its address. *)
AddrIndex(info, addrs) ==
  /\ addrs \in [{info[n].addr : n \in DOMAIN info} -> DOMAIN info]
  /\ \A n \in DOMAIN info : addrs[info[n].addr] = n

(* vRandom and the positions the entries remember are inverse to each other. *)
RandIndex(info, rand) ==
  /\ rand \in Seq(DOMAIN info)
  /\ \A n \in DOMAIN info : info[n].nRandomPos < Len(rand) /\ rand[info[n].nRandomPos + 1] = n
  /\ \A i \in 1..Len(rand) : info[rand[i]].nRandomPos = i - 1

(* The new buckets of n, and the entries of one table. *)
RefSet(W, n) == {b \in NewBucket : n \in W[b]}
NewOf(info) == {n \in DOMAIN info : ~info[n].fInTried}
TriedOf(info) == {n \in DOMAIN info : info[n].fInTried}

(* Reference counts, and the new table, for buckets W. *)
Counted(info, W, k) ==
  /\ k = Cardinality(NewOf(info))
  /\ \A n \in DOMAIN info :
       /\ info[n].nRefCount = Cardinality(RefSet(W, n))
       /\ info[n].nRefCount <= ADDRMAN_NEW_BUCKETS_PER_ADDRESS
       /\ info[n].fInTried <=> RefSet(W, n) = {}

(* The tried table. *)
TriedTable(info, vv, k) ==
  /\ k = Cardinality(TriedOf(info))
  /\ vv \in [TriedBucket -> Seq(DOMAIN info)]
  /\ \A b \in TriedBucket : \A i, j \in 1..Len(vv[b]) : vv[b][i] = vv[b][j] => i = j
  /\ \A b \in TriedBucket : \A i \in 1..Len(vv[b]) :
       info[vv[b][i]].fInTried /\ GetTriedBucket[info[vv[b][i]].addr] = b
  /\ \A n \in DOMAIN info : info[n].fInTried =>
       /\ info[n].nLastSuccess # 0
       /\ \E i \in 1..Len(vv[GetTriedBucket[info[n].addr]]) : vv[GetTriedBucket[info[n].addr]][i] = n

(* Everything but the new buckets, which are W. *)
Sound(m, W) ==
  /\ IsAddrMan(m)
  /\ m.nIdCount \in Nat /\ m.nNew \in Nat /\ m.nTried \in Nat
  /\ m.nIdCount <= MaxId
  /\ \A n \in DOMAIN m.mapInfo : n \in Nat /\ n < m.nIdCount
  /\ m.mapInfo \in [DOMAIN m.mapInfo -> Info]
  /\ AddrIndex(m.mapInfo, m.mapAddr)
  /\ RandIndex(m.mapInfo, m.vRandom)
  /\ Len(m.vRandom) = m.nNew + m.nTried
  /\ Counted(m.mapInfo, W, m.nNew)
  /\ TriedTable(m.mapInfo, m.vvTried, m.nTried)

-----------------------------------------------------------------------------
(* The sizes are positive. *)
LEMMA Sizes ==
  /\ ADDRMAN_NEW_BUCKET_SIZE \in Nat /\ ADDRMAN_NEW_BUCKET_SIZE >= 1
  /\ ADDRMAN_TRIED_BUCKET_SIZE \in Nat /\ ADDRMAN_TRIED_BUCKET_SIZE >= 1
  /\ ADDRMAN_NEW_BUCKETS_PER_ADDRESS \in Nat /\ ADDRMAN_NEW_BUCKETS_PER_ADDRESS >= 1
  /\ ADDRMAN_TRIED_ENTRIES_INSPECT_ON_EVICT \in Nat /\ ADDRMAN_TRIED_ENTRIES_INSPECT_ON_EVICT >= 1
  /\ MaxTime \in Nat /\ MaxId \in Nat
BY AddrManAssumption

(* Entries and their fields. *)

LEMMA InfoPos ==
  ASSUME NEW r \in Info, NEW q \in Nat, NEW s, s = [r EXCEPT !.nRandomPos = q]
  PROVE  /\ s \in Info /\ s.nRandomPos = q /\ s.addr = r.addr
         /\ s.source = r.source /\ s.nLastSuccess = r.nLastSuccess
         /\ s.nRefCount = r.nRefCount /\ s.fInTried = r.fInTried
BY DEF Info

(* mapAddr of a new entry. *)
LEMMA AddrAdd ==
  ASSUME NEW info, info \in [DOMAIN info -> Info], NEW addrs, AddrIndex(info, addrs),
         NEW n, n \notin DOMAIN info, NEW r \in Info, r.addr \notin DOMAIN addrs
  PROVE  AddrIndex(With(info, n, r), With(addrs, r.addr, n))
<1> DEFINE i2 == With(info, n, r)
           a2 == With(addrs, r.addr, n)
           A == {info[x].addr : x \in DOMAIN info}
           A2 == {i2[x].addr : x \in DOMAIN i2}
<1>1. DOMAIN i2 = DOMAIN info \cup {n} /\ i2[n] = r /\ \A x \in DOMAIN info : i2[x] = info[x]
  BY DEF With
<1>2. DOMAIN addrs = A /\ addrs \in [A -> DOMAIN info]
  BY DEF AddrIndex
<1>3. /\ a2 = [x \in A \cup {r.addr} |-> IF x = r.addr THEN n ELSE addrs[x]]
  BY <1>2 DEF With
<1> HIDE DEF i2, a2
<1>4. A2 = A \cup {r.addr}
  BY <1>1
<1>5. a2 \in [A2 -> DOMAIN i2]
  BY <1>1, <1>2, <1>3, <1>4
<1>6. ASSUME NEW x \in DOMAIN i2 PROVE a2[i2[x].addr] = x
  <2>1. CASE x = n
    BY <2>1, <1>1, <1>3
  <2>2. CASE x \in DOMAIN info
    <3>1. info[x].addr \in A /\ info[x].addr # r.addr
      BY <2>2, <1>2
    <3> QED
      BY <2>2, <3>1, <1>1, <1>3 DEF AddrIndex
  <2> QED BY <2>1, <2>2, <1>1
<1> QED
  BY <1>5, <1>6 DEF AddrIndex, i2, a2

LEMMA RandAdd ==
  ASSUME NEW info, info \in [DOMAIN info -> Info], NEW rand, RandIndex(info, rand),
         NEW n, n \notin DOMAIN info, NEW r \in Info, r.nRandomPos = Len(rand)
  PROVE  RandIndex(With(info, n, r), Append(rand, n))
<1> DEFINE i2 == With(info, n, r)
           s == Append(rand, n)
<1>1. DOMAIN i2 = DOMAIN info \cup {n} /\ i2[n] = r /\ \A x \in DOMAIN info : i2[x] = info[x]
  BY DEF With
<1>2. rand \in Seq(DOMAIN info)
  BY DEF RandIndex
<1>3. /\ s \in Seq(DOMAIN info \cup {n}) /\ Len(s) = Len(rand) + 1 /\ Len(rand) \in Nat
      /\ s[Len(rand) + 1] = n /\ \A i \in 1..Len(rand) : s[i] = rand[i] /\ rand[i] \in DOMAIN info
  BY <1>2
<1> HIDE DEF i2, s
<1>4. ASSUME NEW x \in DOMAIN i2 PROVE i2[x].nRandomPos < Len(s) /\ s[i2[x].nRandomPos + 1] = x
  <2>1. CASE x = n
    BY <2>1, <1>1, <1>3
  <2>2. CASE x \in DOMAIN info
    <3>1. info[x].nRandomPos \in Nat
      BY <2>2 DEF Info
    <3> QED
      BY <2>2, <3>1, <1>1, <1>3 DEF RandIndex
  <2> QED BY <2>1, <2>2, <1>1
<1>5. ASSUME NEW i \in 1..Len(s) PROVE i2[s[i]].nRandomPos = i - 1
  <2>1. CASE i = Len(rand) + 1
    BY <2>1, <1>1, <1>3
  <2>2. CASE i \in 1..Len(rand)
    BY <2>2, <1>1, <1>3 DEF RandIndex
  <2> QED BY <2>1, <2>2, <1>3
<1> QED
  BY <1>1, <1>3, <1>4, <1>5 DEF RandIndex, i2, s

(* Fields the indexes do not read. *)
LEMMA AddrUpdate ==
  ASSUME NEW info, NEW i2, DOMAIN i2 = DOMAIN info, NEW addrs, AddrIndex(info, addrs),
         \A n \in DOMAIN info : i2[n].addr = info[n].addr
  PROVE  AddrIndex(i2, addrs)
<1>1. {i2[n].addr : n \in DOMAIN i2} = {info[n].addr : n \in DOMAIN info}
  OBVIOUS
<1> QED
  BY <1>1 DEF AddrIndex

LEMMA RandUpdate ==
  ASSUME NEW info, NEW i2, DOMAIN i2 = DOMAIN info, NEW rand, RandIndex(info, rand),
         \A n \in DOMAIN info : i2[n].nRandomPos = info[n].nRandomPos
  PROVE  RandIndex(i2, rand)
<1>1. rand \in Seq(DOMAIN info) /\ \A i \in 1..Len(rand) : rand[i] \in DOMAIN info
  BY DEF RandIndex
<1> QED
  BY <1>1 DEF RandIndex

(* The entries of i2 are those of info, at other places of vRandom. *)
SameEntries(info, i2) ==
  /\ DOMAIN i2 = DOMAIN info
  /\ \A n \in DOMAIN info : /\ i2[n].addr = info[n].addr /\ i2[n].source = info[n].source
                            /\ i2[n].nLastSuccess = info[n].nLastSuccess
                            /\ i2[n].nRefCount = info[n].nRefCount
                            /\ i2[n].fInTried = info[n].fInTried

(* The positions the entries remember after SwapRandom. *)
Swapped(info, rand, p, q) ==
  [info EXCEPT ![rand[p + 1]].nRandomPos = q, ![rand[q + 1]].nRandomPos = p]

(* SwapRandom. *)
LEMMA RandSwap ==
  ASSUME NEW info, info \in [DOMAIN info -> Info], NEW rand, RandIndex(info, rand),
         NEW p \in Nat, NEW q \in Nat, p < Len(rand), q < Len(rand), p # q
  PROVE  /\ Swapped(info, rand, p, q) \in [DOMAIN info -> Info]
         /\ RandIndex(Swapped(info, rand, p, q), Exchange(rand, p + 1, q + 1))
         /\ SameEntries(info, Swapped(info, rand, p, q))
         /\ Len(Exchange(rand, p + 1, q + 1)) = Len(rand)
         /\ Exchange(rand, p + 1, q + 1)[q + 1] = rand[p + 1]
<1>a. PICK x, y : x = rand[p + 1] /\ y = rand[q + 1]
  OBVIOUS
<1>b. PICK i2 : i2 = [info EXCEPT ![x].nRandomPos = q, ![y].nRandomPos = p]
  OBVIOUS
<1>c. PICK r2 : r2 = [rand EXCEPT ![p + 1] = y, ![q + 1] = x]
  OBVIOUS
<1>1. rand \in Seq(DOMAIN info) /\ Len(rand) \in Nat
  BY DEF RandIndex
<1>2. p + 1 \in 1..Len(rand) /\ q + 1 \in 1..Len(rand) /\ x \in DOMAIN info /\ y \in DOMAIN info
  BY <1>1, <1>a
<1>3. info[x].nRandomPos = p /\ info[y].nRandomPos = q /\ x # y
  BY <1>2, <1>a DEF RandIndex
<1>4. /\ r2 \in Seq(DOMAIN info) /\ Len(r2) = Len(rand) /\ r2[p + 1] = y /\ r2[q + 1] = x
      /\ \A i \in 1..Len(rand) : i # p + 1 /\ i # q + 1 => r2[i] = rand[i]
  BY <1>1, <1>2, <1>c
<1>5. /\ DOMAIN i2 = DOMAIN info
      /\ i2[x] = [info[x] EXCEPT !.nRandomPos = q] /\ i2[y] = [info[y] EXCEPT !.nRandomPos = p]
      /\ \A n \in DOMAIN info : n # x /\ n # y => i2[n] = info[n]
  BY <1>2, <1>3, <1>b
<1>6. info[x] \in Info /\ info[y] \in Info
  BY <1>2
<1>7. /\ i2[x] \in Info /\ i2[x].nRandomPos = q /\ i2[x].addr = info[x].addr
      /\ i2[x].source = info[x].source /\ i2[x].nLastSuccess = info[x].nLastSuccess
      /\ i2[x].nRefCount = info[x].nRefCount /\ i2[x].fInTried = info[x].fInTried
  BY <1>5, <1>6, InfoPos
<1>8. /\ i2[y] \in Info /\ i2[y].nRandomPos = p /\ i2[y].addr = info[y].addr
      /\ i2[y].source = info[y].source /\ i2[y].nLastSuccess = info[y].nLastSuccess
      /\ i2[y].nRefCount = info[y].nRefCount /\ i2[y].fInTried = info[y].fInTried
  BY <1>5, <1>6, InfoPos
<1>9. i2 = [n \in DOMAIN info |-> i2[n]]
  BY <1>b
<1>10. i2 \in [DOMAIN info -> Info]
  BY <1>5, <1>7, <1>8, <1>9
<1>11. ASSUME NEW n \in DOMAIN info PROVE i2[n].nRandomPos < Len(r2) /\ r2[i2[n].nRandomPos + 1] = n
  <2>1. CASE n = x
    BY <2>1, <1>4, <1>7
  <2>2. CASE n = y
    BY <2>2, <1>4, <1>8
  <2>3. CASE n # x /\ n # y
    <3>1. info[n].nRandomPos \in Nat /\ info[n].nRandomPos < Len(rand)
          /\ rand[info[n].nRandomPos + 1] = n
      BY DEF RandIndex, Info
    <3>2. info[n].nRandomPos # p /\ info[n].nRandomPos # q
      BY <2>3, <3>1, <1>a
    <3>3. PICK k \in Nat : k = info[n].nRandomPos
      BY <3>1
    <3>4. k + 1 \in 1..Len(rand) /\ k + 1 # p + 1 /\ k + 1 # q + 1
      BY <3>1, <3>2, <3>3, <1>1
    <3>5. r2[k + 1] = rand[k + 1]
      BY <3>4, <1>4
    <3>6. i2[n].nRandomPos = k
      BY <2>3, <3>3, <1>5
    <3> QED
      BY <3>1, <3>3, <3>5, <3>6, <1>4
  <2> QED BY <2>1, <2>2, <2>3
<1>12. ASSUME NEW i \in 1..Len(r2) PROVE i2[r2[i]].nRandomPos = i - 1
  <2>1. CASE i = p + 1
    BY <2>1, <1>4, <1>8
  <2>2. CASE i = q + 1
    BY <2>2, <1>4, <1>7
  <2>3. CASE i # p + 1 /\ i # q + 1
    <3>1. r2[i] = rand[i] /\ rand[i] \in DOMAIN info /\ info[rand[i]].nRandomPos = i - 1
      BY <2>3, <1>1, <1>4 DEF RandIndex
    <3>2. rand[i] # x /\ rand[i] # y
      BY <2>3, <3>1, <1>3
    <3> QED
      BY <3>1, <3>2, <1>5
  <2> QED BY <2>1, <2>2, <2>3
<1>13. RandIndex(i2, r2)
  BY <1>4, <1>5, <1>11, <1>12 DEF RandIndex
<1>14. SameEntries(info, i2)
  BY <1>5, <1>7, <1>8 DEF SameEntries
<1>15. i2 = Swapped(info, rand, p, q) /\ r2 = Exchange(rand, p + 1, q + 1)
  BY <1>a, <1>b, <1>c DEF Swapped, Exchange
<1> QED
  BY <1>4, <1>10, <1>13, <1>14, <1>15, <1>a
(* What SwapRandom does to the members. *)
LEMMA SwapFields ==
  ASSUME NEW m, IsAddrMan(m), m.mapInfo \in [DOMAIN m.mapInfo -> Info],
         RandIndex(m.mapInfo, m.vRandom),
         NEW p \in Nat, NEW q \in Nat, p < Len(m.vRandom), q < Len(m.vRandom),
         NEW r, r = SwapRandom(m, p, q)
  PROVE  /\ IsAddrMan(r) /\ r.mapInfo \in [DOMAIN m.mapInfo -> Info]
         /\ RandIndex(r.mapInfo, r.vRandom) /\ SameEntries(m.mapInfo, r.mapInfo)
         /\ Len(r.vRandom) = Len(m.vRandom) /\ r.vRandom[q + 1] = m.vRandom[p + 1]
         /\ r.nIdCount = m.nIdCount /\ r.mapAddr = m.mapAddr
         /\ r.nTried = m.nTried /\ r.vvTried = m.vvTried /\ r.nNew = m.nNew /\ r.vvNew = m.vvNew
<1>1. CASE p = q
  <2>1. r = m
    BY <1>1 DEF SwapRandom
  <2> QED BY <1>1, <2>1 DEF SameEntries
<1>2. CASE p # q
  <2> DEFINE i2 == Swapped(m.mapInfo, m.vRandom, p, q)
             r2 == Exchange(m.vRandom, p + 1, q + 1)
  <2>1. /\ i2 \in [DOMAIN m.mapInfo -> Info] /\ RandIndex(i2, r2) /\ Len(r2) = Len(m.vRandom)
        /\ r2[q + 1] = m.vRandom[p + 1] /\ SameEntries(m.mapInfo, i2)
    BY <1>2, RandSwap
  <2>2. r = [m EXCEPT !.mapInfo = i2, !.vRandom = r2]
    BY <1>2 DEF SwapRandom, Swapped
  <2> HIDE DEF i2, r2
  <2>3. /\ IsAddrMan(r) /\ r.mapInfo = i2 /\ r.vRandom = r2
        /\ r.nIdCount = m.nIdCount /\ r.mapAddr = m.mapAddr
        /\ r.nTried = m.nTried /\ r.vvTried = m.vvTried /\ r.nNew = m.nNew /\ r.vvNew = m.vvNew
    BY <2>2 DEF IsAddrMan
  <2> QED BY <2>1, <2>3
<1> QED BY <1>1, <1>2

(* The last entry of vRandom leaves. *)
LEMMA RandRemove ==
  ASSUME NEW info, info \in [DOMAIN info -> Info], NEW rand, RandIndex(info, rand),
         NEW n \in DOMAIN info, rand[Len(rand)] = n
  PROVE  RandIndex(Without(info, n), Front(rand)) /\ Len(Front(rand)) = Len(rand) - 1
<1> DEFINE i2 == Without(info, n)
           s == Front(rand)
<1>1. DOMAIN i2 = DOMAIN info \ {n} /\ \A x \in DOMAIN i2 : i2[x] = info[x]
  BY DEF Without
<1>2. rand \in Seq(DOMAIN info) /\ Len(rand) \in Nat /\ info[n].nRandomPos \in Nat
  BY DEF RandIndex, Info
<1>3. Len(rand) > 0
  BY <1>2 DEF RandIndex
<1>4. info[n].nRandomPos = Len(rand) - 1
  <2>1. Len(rand) \in 1..Len(rand)
    BY <1>2, <1>3
  <2> QED BY <2>1 DEF RandIndex
<1>5. /\ Len(s) = Len(rand) - 1 /\ s \in Seq(DOMAIN info)
      /\ \A i \in 1..(Len(rand) - 1) : s[i] = rand[i]
  <2>1. s = SubSeq(rand, 1, Len(rand) - 1)
    BY DEF Front
  <2>2. Len(rand) - 1 \in Nat /\ \A i \in 1..(Len(rand) - 1) : rand[i] \in DOMAIN info
    BY <1>2, <1>3
  <2>3. PICK k \in Nat : k = Len(rand) - 1
    BY <2>2
  <2>4. /\ SubSeq(rand, 1, k) \in Seq(DOMAIN info)
        /\ Len(SubSeq(rand, 1, k)) = IF 1 <= k THEN k - 1 + 1 ELSE 0
        /\ \A i \in 1..(k - 1 + 1) : SubSeq(rand, 1, k)[i] = rand[1 + i - 1]
    BY <2>2, <2>3, SubSeqProperties
  <2>5. s = SubSeq(rand, 1, k)
    BY <2>1, <2>3
  <2>6. Len(s) = k /\ s \in Seq(DOMAIN info)
    BY <2>4, <2>5
  <2>7. \A i \in 1..k : s[i] = rand[i]
    <3> SUFFICES ASSUME NEW i \in 1..k PROVE s[i] = rand[i]
      OBVIOUS
    <3>1. i \in 1..(k - 1 + 1) /\ 1 + i - 1 = i
      OBVIOUS
    <3> QED BY <3>1, <2>4, <2>5
  <2> QED BY <2>3, <2>6, <2>7
<1> HIDE DEF i2, s
<1>6. \A i \in 1..Len(s) : rand[i] \in DOMAIN info /\ info[rand[i]].nRandomPos = i - 1
  BY <1>2, <1>5 DEF RandIndex
<1>7. \A i \in 1..Len(s) : s[i] \in DOMAIN i2
  <2> SUFFICES ASSUME NEW i \in 1..Len(s) PROVE s[i] \in DOMAIN i2
    OBVIOUS
  <2>1. s[i] = rand[i] /\ rand[i] # n
    BY <1>2, <1>4, <1>5, <1>6
  <2> QED BY <2>1, <1>1, <1>6
<1>8. s \in Seq(DOMAIN i2)
  BY <1>5, <1>7
<1>9. ASSUME NEW x \in DOMAIN i2 PROVE i2[x].nRandomPos < Len(s) /\ s[i2[x].nRandomPos + 1] = x
  <2>1. x \in DOMAIN info /\ x # n /\ i2[x] = info[x]
    BY <1>1
  <2>2. PICK k \in Nat : k = info[x].nRandomPos
    BY <2>1 DEF Info
  <2>3. k < Len(rand) /\ rand[k + 1] = x
    BY <2>1, <2>2 DEF RandIndex
  <2>4. k # Len(rand) - 1
    BY <2>1, <2>3, <1>2
  <2>5. k + 1 \in 1..(Len(rand) - 1)
    BY <2>3, <2>4, <1>2
  <2> QED
    BY <2>1, <2>2, <2>3, <2>5, <1>2, <1>5
<1>10. ASSUME NEW i \in 1..Len(s) PROVE i2[s[i]].nRandomPos = i - 1
  BY <1>1, <1>2, <1>5, <1>6, <1>7
<1> QED
  BY <1>5, <1>8, <1>9, <1>10 DEF RandIndex, i2, s

LEMMA AddrRemove ==
  ASSUME NEW info, NEW addrs, AddrIndex(info, addrs), NEW n \in DOMAIN info
  PROVE  AddrIndex(Without(info, n), Without(addrs, info[n].addr))
<1> DEFINE i2 == Without(info, n)
           a2 == Without(addrs, info[n].addr)
           A == {info[x].addr : x \in DOMAIN info}
           A2 == {i2[x].addr : x \in DOMAIN i2}
<1>1. DOMAIN i2 = DOMAIN info \ {n} /\ \A x \in DOMAIN i2 : i2[x] = info[x]
  BY DEF Without
<1>2. addrs \in [A -> DOMAIN info] /\ \A x \in DOMAIN info : addrs[info[x].addr] = x
  BY DEF AddrIndex
<1>3. a2 = [x \in A \ {info[n].addr} |-> addrs[x]]
  BY <1>2 DEF Without
<1> HIDE DEF i2, a2
<1>4. \A x \in DOMAIN info : x # n => info[x].addr # info[n].addr
  BY <1>2
<1>5. A2 = A \ {info[n].addr}
  BY <1>1, <1>4
<1>6. \A x \in A2 : \E k \in DOMAIN i2 : x = info[k].addr
  BY <1>1
<1>7. \A x \in A2 : addrs[x] \in DOMAIN i2
  BY <1>1, <1>2, <1>6
<1>8. a2 \in [A2 -> DOMAIN i2]
  BY <1>3, <1>5, <1>7
<1>9. \A x \in DOMAIN i2 : a2[i2[x].addr] = x
  BY <1>1, <1>2, <1>3, <1>4, <1>5
<1> QED
  BY <1>8, <1>9 DEF AddrIndex, i2, a2

(* What the deletion inside ShrinkNew does to the members. *)
LEMMA DeleteFields ==
  ASSUME NEW m, IsAddrMan(m), m.mapInfo \in [DOMAIN m.mapInfo -> Info],
         AddrIndex(m.mapInfo, m.mapAddr), RandIndex(m.mapInfo, m.vRandom),
         NEW n \in DOMAIN m.mapInfo, NEW r, r = Delete(m, n)
  PROVE  /\ IsAddrMan(r) /\ DOMAIN r.mapInfo = DOMAIN m.mapInfo \ {n}
         /\ r.mapInfo \in [DOMAIN r.mapInfo -> Info]
         /\ \A x \in DOMAIN r.mapInfo :
              /\ r.mapInfo[x].addr = m.mapInfo[x].addr
              /\ r.mapInfo[x].source = m.mapInfo[x].source
              /\ r.mapInfo[x].nLastSuccess = m.mapInfo[x].nLastSuccess
              /\ r.mapInfo[x].nRefCount = m.mapInfo[x].nRefCount
              /\ r.mapInfo[x].fInTried = m.mapInfo[x].fInTried
         /\ AddrIndex(r.mapInfo, r.mapAddr) /\ RandIndex(r.mapInfo, r.vRandom)
         /\ Len(r.vRandom) = Len(m.vRandom) - 1
         /\ r.nIdCount = m.nIdCount /\ r.nTried = m.nTried /\ r.vvTried = m.vvTried
         /\ r.nNew = m.nNew - 1 /\ r.vvNew = m.vvNew
<1>1. PICK p \in Nat : p = m.mapInfo[n].nRandomPos
  BY DEF Info
<1>2. Len(m.vRandom) \in Nat /\ p < Len(m.vRandom) /\ m.vRandom[p + 1] = n
  BY <1>1 DEF RandIndex
<1>3. PICK q \in Nat : q = Len(m.vRandom) - 1
  <2>1. Len(m.vRandom) - 1 \in Nat
    BY <1>2
  <2> QED BY <2>1
<1>4. PICK w : w = SwapRandom(m, p, q)
  OBVIOUS
<1>5. q < Len(m.vRandom)
  BY <1>2, <1>3
<1>6. /\ IsAddrMan(w) /\ w.mapInfo \in [DOMAIN m.mapInfo -> Info]
      /\ RandIndex(w.mapInfo, w.vRandom) /\ SameEntries(m.mapInfo, w.mapInfo)
      /\ Len(w.vRandom) = Len(m.vRandom) /\ w.vRandom[q + 1] = m.vRandom[p + 1]
      /\ w.nIdCount = m.nIdCount /\ w.mapAddr = m.mapAddr
      /\ w.nTried = m.nTried /\ w.vvTried = m.vvTried /\ w.nNew = m.nNew /\ w.vvNew = m.vvNew
  BY <1>2, <1>4, <1>5, SwapFields
<1>7. DOMAIN w.mapInfo = DOMAIN m.mapInfo /\ w.mapInfo \in [DOMAIN w.mapInfo -> Info]
  BY <1>6
<1>8. w.vRandom[Len(w.vRandom)] = n
  BY <1>2, <1>3, <1>6
<1>9. RandIndex(Without(w.mapInfo, n), Front(w.vRandom)) /\ Len(Front(w.vRandom)) = Len(w.vRandom) - 1
  BY <1>6, <1>7, <1>8, RandRemove
<1>10. AddrIndex(w.mapInfo, w.mapAddr) /\ w.mapInfo[n].addr = m.mapInfo[n].addr
  BY <1>6, AddrUpdate DEF SameEntries
<1>11. AddrIndex(Without(w.mapInfo, n), Without(w.mapAddr, m.mapInfo[n].addr))
  BY <1>7, <1>10, AddrRemove
<1>12. r = [w EXCEPT !.vRandom = Front(w.vRandom), !.mapAddr = Without(w.mapAddr, m.mapInfo[n].addr),
                     !.mapInfo = Without(w.mapInfo, n), !.nNew = w.nNew - 1]
  BY <1>1, <1>3, <1>4 DEF Delete
<1>13. /\ IsAddrMan(r) /\ r.vRandom = Front(w.vRandom) /\ r.mapInfo = Without(w.mapInfo, n)
       /\ r.mapAddr = Without(w.mapAddr, m.mapInfo[n].addr) /\ r.nNew = w.nNew - 1
       /\ r.nIdCount = w.nIdCount /\ r.nTried = w.nTried /\ r.vvTried = w.vvTried /\ r.vvNew = w.vvNew
  BY <1>6, <1>12 DEF IsAddrMan
<1>14. /\ DOMAIN r.mapInfo = DOMAIN m.mapInfo \ {n}
       /\ r.mapInfo = [x \in DOMAIN r.mapInfo |-> w.mapInfo[x]]
  BY <1>7, <1>13 DEF Without
<1>15. r.mapInfo \in [DOMAIN r.mapInfo -> Info] /\ \A x \in DOMAIN r.mapInfo : r.mapInfo[x] = w.mapInfo[x]
  BY <1>7, <1>14
<1>16. \A x \in DOMAIN r.mapInfo :
              /\ r.mapInfo[x].addr = m.mapInfo[x].addr
              /\ r.mapInfo[x].source = m.mapInfo[x].source
              /\ r.mapInfo[x].nLastSuccess = m.mapInfo[x].nLastSuccess
              /\ r.mapInfo[x].nRefCount = m.mapInfo[x].nRefCount
              /\ r.mapInfo[x].fInTried = m.mapInfo[x].fInTried
  BY <1>6, <1>14, <1>15 DEF SameEntries
<1> QED
  BY <1>6, <1>9, <1>11, <1>13, <1>14, <1>15, <1>16

-----------------------------------------------------------------------------
(* The tables.  An entry is in finitely many buckets, of finitely many. *)
LEMMA RefSetFinite ==
  ASSUME NEW W, NEW n
  PROVE  /\ IsFiniteSet(RefSet(W, n)) /\ Cardinality(RefSet(W, n)) \in Nat
         /\ Cardinality(RefSet(W, n)) = 0 <=> RefSet(W, n) = {}
<1>1. IsFiniteSet(NewBucket)
  BY AddrManAssumption
<1>2. RefSet(W, n) \in SUBSET NewBucket
  BY DEF RefSet
<1>3. IsFiniteSet(RefSet(W, n))
  BY <1>1, <1>2, FS_Subset
<1> QED
  BY <1>3, FS_CardinalityType, FS_EmptySet

LEMMA IdsFinite ==
  ASSUME NEW info, NEW k \in Nat, \A n \in DOMAIN info : n \in Nat /\ n < k
  PROVE  IsFiniteSet(DOMAIN info) /\ IsFiniteSet(NewOf(info)) /\ IsFiniteSet(TriedOf(info))
<1>1. IsFiniteSet(0..k)
  BY FS_Interval
<1>2. DOMAIN info \in SUBSET (0..k)
  OBVIOUS
<1>3. IsFiniteSet(DOMAIN info)
  BY <1>1, <1>2, FS_Subset
<1>4. NewOf(info) \in SUBSET DOMAIN info /\ TriedOf(info) \in SUBSET DOMAIN info
  BY DEF NewOf, TriedOf
<1> QED
  BY <1>3, <1>4, FS_Subset

(* One entry leaves one bucket. *)
LEMMA RefDrop ==
  ASSUME NEW W, NEW b \in NewBucket, NEW x,
         NEW W2, W2[b] = W[b] \ {x}, \A k \in NewBucket : k # b => W2[k] = W[k]
  PROVE  /\ RefSet(W2, x) = RefSet(W, x) \ {b}
         /\ \A n \in Nat : n # x => RefSet(W2, n) = RefSet(W, n)
BY DEF RefSet

(* One entry enters one bucket. *)
LEMMA RefEnter ==
  ASSUME NEW W, NEW b \in NewBucket, NEW x,
         NEW W2, W2[b] = W[b] \cup {x}, \A k \in NewBucket : k # b => W2[k] = W[k]
  PROVE  /\ RefSet(W2, x) = RefSet(W, x) \cup {b}
         /\ \A n \in Nat : n # x => RefSet(W2, n) = RefSet(W, n)
BY DEF RefSet

LEMMA CountedSame ==
  ASSUME NEW info, NEW W, NEW k, Counted(info, W, k), NEW i2, DOMAIN i2 = DOMAIN info,
         \A n \in DOMAIN info : i2[n].nRefCount = info[n].nRefCount /\ i2[n].fInTried = info[n].fInTried
  PROVE  Counted(i2, W, k)
<1>1. NewOf(i2) = NewOf(info)
  BY DEF NewOf
<1> QED
  BY <1>1 DEF Counted

(* The same entries are tried, with a time of success. *)
StayTried(info, i2) ==
  /\ DOMAIN i2 = DOMAIN info
  /\ \A n \in DOMAIN info : /\ i2[n].addr = info[n].addr /\ i2[n].fInTried = info[n].fInTried
                            /\ info[n].fInTried => i2[n].nLastSuccess # 0

LEMMA TriedSame ==
  ASSUME NEW info, NEW vv, NEW k, TriedTable(info, vv, k), NEW i2, StayTried(info, i2)
  PROVE  TriedTable(i2, vv, k)
<1> USE DEF StayTried
<1>1. TriedOf(i2) = TriedOf(info)
  BY DEF TriedOf
<1>2. \A b \in TriedBucket : \A i \in 1..Len(vv[b]) : vv[b][i] \in DOMAIN info
  BY DEF TriedTable
<1>3. /\ k = Cardinality(TriedOf(i2)) /\ vv \in [TriedBucket -> Seq(DOMAIN i2)]
      /\ \A b \in TriedBucket : \A i, j \in 1..Len(vv[b]) : vv[b][i] = vv[b][j] => i = j
  BY <1>1 DEF TriedTable
<1>4. ASSUME NEW b \in TriedBucket, NEW i \in 1..Len(vv[b])
      PROVE  i2[vv[b][i]].fInTried /\ GetTriedBucket[i2[vv[b][i]].addr] = b
  BY <1>2 DEF TriedTable
<1>5. ASSUME NEW n \in DOMAIN i2, i2[n].fInTried
      PROVE  /\ i2[n].nLastSuccess # 0
             /\ \E i \in 1..Len(vv[GetTriedBucket[i2[n].addr]]) : vv[GetTriedBucket[i2[n].addr]][i] = n
  BY <1>5 DEF TriedTable
<1> QED
  BY <1>3, <1>4, <1>5 DEF TriedTable

(* An entry of the new table is gone. *)
LEMMA CountedGone ==
  ASSUME NEW info, NEW W, NEW k, Counted(info, W, k), IsFiniteSet(NewOf(info)),
         NEW x \in NewOf(info), NEW i2, DOMAIN i2 = DOMAIN info \ {x},
         \A n \in DOMAIN i2 : i2[n].nRefCount = info[n].nRefCount /\ i2[n].fInTried = info[n].fInTried,
         NEW W2, \A n \in DOMAIN i2 : RefSet(W2, n) = RefSet(W, n)
  PROVE  Counted(i2, W2, k - 1)
<1>1. NewOf(i2) = NewOf(info) \ {x}
  BY DEF NewOf
<1>2. Cardinality(NewOf(i2)) = k - 1
  BY <1>1, FS_RemoveElement DEF Counted
<1> QED
  BY <1>2 DEF Counted

LEMMA TriedGone ==
  ASSUME NEW info, NEW vv, NEW k, TriedTable(info, vv, k),
         NEW x \in NewOf(info), NEW i2, DOMAIN i2 = DOMAIN info \ {x},
         \A n \in DOMAIN i2 : /\ i2[n].addr = info[n].addr /\ i2[n].fInTried = info[n].fInTried
                              /\ i2[n].nLastSuccess = info[n].nLastSuccess
  PROVE  TriedTable(i2, vv, k)
<1>1. TriedOf(i2) = TriedOf(info)
  BY DEF TriedOf, NewOf
<1>2. \A b \in TriedBucket : vv[b] \in Seq(DOMAIN info)
  BY DEF TriedTable
<1>3. \A b \in TriedBucket : \A i \in 1..Len(vv[b]) : vv[b][i] \in DOMAIN i2
  BY <1>2 DEF TriedTable, NewOf
<1>4. \A b \in TriedBucket : vv[b] \in Seq(DOMAIN i2)
  BY <1>2, <1>3
<1>5. /\ k = Cardinality(TriedOf(i2)) /\ vv \in [TriedBucket -> Seq(DOMAIN i2)]
      /\ \A b \in TriedBucket : \A i, j \in 1..Len(vv[b]) : vv[b][i] = vv[b][j] => i = j
  BY <1>1, <1>4 DEF TriedTable
<1>6. ASSUME NEW b \in TriedBucket, NEW i \in 1..Len(vv[b])
      PROVE  i2[vv[b][i]].fInTried /\ GetTriedBucket[i2[vv[b][i]].addr] = b
  BY <1>3 DEF TriedTable
<1>7. ASSUME NEW n \in DOMAIN i2, i2[n].fInTried
      PROVE  /\ i2[n].nLastSuccess # 0
             /\ \E i \in 1..Len(vv[GetTriedBucket[i2[n].addr]]) : vv[GetTriedBucket[i2[n].addr]][i] = n
  BY <1>7 DEF TriedTable
<1> QED
  BY <1>5, <1>6, <1>7 DEF TriedTable

(* SwapRandom changes the order of vRandom and nothing else. *)
LEMMA SwapSound ==
  ASSUME NEW m, NEW W, Sound(m, W),
         NEW p \in Nat, NEW q \in Nat, p < Len(m.vRandom), q < Len(m.vRandom),
         NEW r, r = SwapRandom(m, p, q)
  PROVE  /\ Sound(r, W) /\ SameEntries(m.mapInfo, r.mapInfo)
         /\ Len(r.vRandom) = Len(m.vRandom) /\ r.nIdCount = m.nIdCount /\ r.mapAddr = m.mapAddr
         /\ r.vvTried = m.vvTried /\ r.vvNew = m.vvNew
<1>1. /\ IsAddrMan(m) /\ m.mapInfo \in [DOMAIN m.mapInfo -> Info] /\ RandIndex(m.mapInfo, m.vRandom)
  BY DEF Sound
<1>2. /\ IsAddrMan(r) /\ r.mapInfo \in [DOMAIN m.mapInfo -> Info]
      /\ RandIndex(r.mapInfo, r.vRandom) /\ SameEntries(m.mapInfo, r.mapInfo)
      /\ Len(r.vRandom) = Len(m.vRandom)
      /\ r.nIdCount = m.nIdCount /\ r.mapAddr = m.mapAddr
      /\ r.nTried = m.nTried /\ r.vvTried = m.vvTried /\ r.nNew = m.nNew /\ r.vvNew = m.vvNew
  BY <1>1, SwapFields
<1>3. AddrIndex(r.mapInfo, r.mapAddr)
  BY <1>2, AddrUpdate DEF Sound, SameEntries
<1>4. Counted(r.mapInfo, W, r.nNew)
  BY <1>2, CountedSame DEF Sound, SameEntries
<1>5. TriedTable(r.mapInfo, r.vvTried, r.nTried)
  <2>1. TriedTable(m.mapInfo, m.vvTried, m.nTried)
    BY DEF Sound
  <2>2. \A n \in DOMAIN m.mapInfo : m.mapInfo[n].fInTried => r.mapInfo[n].nLastSuccess # 0
    BY <1>2, <2>1 DEF SameEntries, TriedTable
  <2> QED
    BY <1>2, <2>1, <2>2, TriedSame DEF SameEntries, StayTried
<1>6. DOMAIN r.mapInfo = DOMAIN m.mapInfo
  BY <1>2
<1> QED
  BY <1>2, <1>3, <1>4, <1>5, <1>6 DEF Sound

(* An entry with another reference count. *)
Recounted(info, x, c) == [info EXCEPT ![x].nRefCount = c]

LEMMA RefFields ==
  ASSUME NEW info, info \in [DOMAIN info -> Info], NEW x \in DOMAIN info, NEW c \in Int,
         NEW i1, i1 = Recounted(info, x, c)
  PROVE  /\ i1 \in [DOMAIN info -> Info] /\ i1[x].nRefCount = c
         /\ \A n \in DOMAIN info :
              /\ n # x => i1[n].nRefCount = info[n].nRefCount
              /\ i1[n].addr = info[n].addr /\ i1[n].source = info[n].source
              /\ i1[n].nLastSuccess = info[n].nLastSuccess
              /\ i1[n].nRandomPos = info[n].nRandomPos /\ i1[n].fInTried = info[n].fInTried
<1>1. PICK r : r = [info[x] EXCEPT !.nRefCount = c]
  OBVIOUS
<1>2. info[x] \in Info
  OBVIOUS
<1>3. /\ r \in Info /\ r.nRefCount = c /\ r.addr = info[x].addr /\ r.source = info[x].source
      /\ r.nLastSuccess = info[x].nLastSuccess /\ r.nRandomPos = info[x].nRandomPos
      /\ r.fInTried = info[x].fInTried
  BY <1>1, <1>2 DEF Info
<1>4. i1 = [info EXCEPT ![x] = r]
  BY <1>1 DEF Recounted
<1>5. i1 \in [DOMAIN info -> Info] /\ i1[x] = r /\ \A n \in DOMAIN info : n # x => i1[n] = info[n]
  BY <1>3, <1>4
<1> QED
  BY <1>3, <1>5

Parted(V, b, n, W) == W = [V EXCEPT ![b] = @ \ {n}]

(* ShrinkNew: the entry loses a reference, and is deleted with the last one. *)
LEMMA ShrinkSound ==
  ASSUME NEW m, NEW W, Sound(m, W), DOMAIN W = NewBucket, DOMAIN m.vvNew = NewBucket,
         NEW b \in NewBucket, NEW x \in W[b], x \in DOMAIN m.mapInfo,
         NEW r, r = ShrinkNew(m, b, x), NEW W2, Parted(W, b, x, W2)
  PROVE  /\ Sound(r, W2) /\ r.vvNew = [m.vvNew EXCEPT ![b] = @ \ {x}]
         /\ r.vvTried = m.vvTried /\ r.nIdCount = m.nIdCount
         /\ DOMAIN r.mapInfo \subseteq DOMAIN m.mapInfo
         /\ \A n \in DOMAIN m.mapInfo : n \notin DOMAIN r.mapInfo => n = x /\ RefSet(W2, x) = {}
         /\ \A n \in DOMAIN r.mapInfo : /\ r.mapInfo[n].addr = m.mapInfo[n].addr
                                        /\ r.mapInfo[n].fInTried = m.mapInfo[n].fInTried
<1> DEFINE info == m.mapInfo
<1>1. /\ IsAddrMan(m) /\ info \in [DOMAIN info -> Info] /\ AddrIndex(info, m.mapAddr)
      /\ RandIndex(info, m.vRandom) /\ Counted(info, W, m.nNew) /\ TriedTable(info, m.vvTried, m.nTried)
      /\ Len(m.vRandom) = m.nNew + m.nTried /\ m.nIdCount \in Nat /\ m.nNew \in Nat /\ m.nTried \in Nat
      /\ m.nIdCount <= MaxId /\ \A n \in DOMAIN info : n \in Nat /\ n < m.nIdCount
  BY DEF Sound
<1>2. IsFiniteSet(NewOf(info)) /\ IsFiniteSet(RefSet(W, x))
  BY <1>1, IdsFinite, RefSetFinite
<1>3. b \in RefSet(W, x) /\ ~info[x].fInTried /\ x \in NewOf(info)
  BY <1>1 DEF RefSet, Counted, NewOf
<1>4. PICK c \in Nat : c = info[x].nRefCount /\ c = Cardinality(RefSet(W, x)) /\ c # 0
                       /\ c <= ADDRMAN_NEW_BUCKETS_PER_ADDRESS
  BY <1>1, <1>3, RefSetFinite DEF Counted
<1>5. Cardinality(RefSet(W2, x)) = c - 1 /\ RefSet(W2, x) = RefSet(W, x) \ {b}
      /\ \A n \in Nat : n # x => RefSet(W2, n) = RefSet(W, n)
  <2>1. W2[b] = W[b] \ {x} /\ \A k \in NewBucket : k # b => W2[k] = W[k]
    BY DEF Parted
  <2>2. RefSet(W2, x) = RefSet(W, x) \ {b} /\ \A n \in Nat : n # x => RefSet(W2, n) = RefSet(W, n)
    BY <2>1 DEF RefSet
  <2>3. Cardinality(RefSet(W, x) \ {b}) = Cardinality(RefSet(W, x)) - 1
    BY <1>2, <1>3, FS_RemoveElement
  <2> QED BY <2>2, <2>3, <1>4
<1>6. PICK i1 : i1 = Recounted(info, x, c - 1)
  OBVIOUS
<1>7. /\ i1 \in [DOMAIN info -> Info] /\ i1[x].nRefCount = c - 1
      /\ \A n \in DOMAIN info :
              /\ n # x => i1[n].nRefCount = info[n].nRefCount
              /\ i1[n].addr = info[n].addr /\ i1[n].source = info[n].source
              /\ i1[n].nLastSuccess = info[n].nLastSuccess
              /\ i1[n].nRandomPos = info[n].nRandomPos /\ i1[n].fInTried = info[n].fInTried
  <2>1. info \in [DOMAIN info -> Info] /\ x \in DOMAIN info /\ c - 1 \in Int
    BY <1>1, <1>4
  <2> QED
    BY ONLY <2>1, <1>6, RefFields
<1>8. DOMAIN i1 = DOMAIN info /\ i1 \in [DOMAIN i1 -> Info]
  BY <1>7
<1>9. PICK w : w = [m EXCEPT !.mapInfo = i1]
  OBVIOUS
<1>10. /\ IsAddrMan(w) /\ w.mapInfo = i1 /\ w.nIdCount = m.nIdCount /\ w.mapAddr = m.mapAddr
       /\ w.vRandom = m.vRandom /\ w.nTried = m.nTried /\ w.vvTried = m.vvTried /\ w.nNew = m.nNew
       /\ w.vvNew = m.vvNew
  BY <1>1, <1>9 DEF IsAddrMan
<1>11. AddrIndex(i1, m.mapAddr) /\ RandIndex(i1, m.vRandom)
  BY <1>1, <1>7, <1>8, AddrUpdate, RandUpdate
<1>12. PICK d : d = IF c - 1 = 0 THEN Delete(w, x) ELSE w
  OBVIOUS
<1>13. r = [d EXCEPT !.vvNew[b] = d.vvNew[b] \ {x}]
  <2>1. w = [m EXCEPT !.mapInfo[x].nRefCount = m.mapInfo[x].nRefCount - 1]
    BY <1>4, <1>6, <1>9 DEF Recounted
  <2>2. d = IF w.mapInfo[x].nRefCount = 0 THEN Delete(w, x) ELSE w
    BY <1>7, <1>10, <1>12
  <2> QED
    BY <2>1, <2>2 DEF ShrinkNew
<1>14. IsAddrMan(d) /\ d.vvNew = m.vvNew => 
         /\ IsAddrMan(r) /\ r.mapInfo = d.mapInfo /\ r.nIdCount = d.nIdCount /\ r.mapAddr = d.mapAddr
         /\ r.vRandom = d.vRandom /\ r.nTried = d.nTried /\ r.vvTried = d.vvTried /\ r.nNew = d.nNew
         /\ r.vvNew = [m.vvNew EXCEPT ![b] = @ \ {x}]
  BY <1>13 DEF IsAddrMan
<1>15. CASE c - 1 # 0
  <2>1. d = w
    BY <1>12, <1>15
  <2>2. NewOf(i1) = NewOf(info)
    BY <1>7, <1>8 DEF NewOf
  <2>3. Counted(i1, W2, m.nNew)
    <3>1. ASSUME NEW n \in DOMAIN i1
          PROVE  /\ i1[n].nRefCount = Cardinality(RefSet(W2, n))
                 /\ i1[n].nRefCount <= ADDRMAN_NEW_BUCKETS_PER_ADDRESS
                 /\ i1[n].fInTried <=> RefSet(W2, n) = {}
      <4>1. CASE n = x
        <5>1. RefSet(W2, x) # {}
          BY <1>5, <1>15, RefSetFinite
        <5>2. c - 1 <= ADDRMAN_NEW_BUCKETS_PER_ADDRESS
          BY <1>4, AddrManAssumption
        <5>3. ~i1[x].fInTried
          BY <1>3, <1>7
        <5> QED
          BY <4>1, <5>1, <5>2, <5>3, <1>5, <1>7
      <4>2. CASE n # x
        BY <4>2, <1>1, <1>5, <1>7, <1>8 DEF Counted
      <4> QED BY <4>1, <4>2
    <3> QED
      BY <3>1, <2>2, <1>1 DEF Counted
  <2>4. TriedTable(i1, m.vvTried, m.nTried)
    <3>1. \A n \in DOMAIN info : info[n].fInTried => i1[n].nLastSuccess # 0
      <4>1. \A n \in DOMAIN info : info[n].fInTried => info[n].nLastSuccess # 0
        BY <1>1 DEF TriedTable
      <4>2. \A n \in DOMAIN info : i1[n].nLastSuccess = info[n].nLastSuccess
        BY <1>7
      <4> QED BY <4>1, <4>2
    <3> QED
      BY <3>1, <1>1, <1>7, <1>8, TriedSame DEF StayTried
  <2>5. Sound(r, W2)
    BY <2>1, <2>3, <2>4, <1>1, <1>8, <1>10, <1>11, <1>14 DEF Sound
  <2> QED
    BY <2>1, <2>5, <1>7, <1>8, <1>10, <1>14
<1>16. CASE c - 1 = 0
  <2>1. d = Delete(w, x)
    BY <1>12, <1>16
  <2>2. /\ IsAddrMan(d) /\ DOMAIN d.mapInfo = DOMAIN i1 \ {x}
        /\ d.mapInfo \in [DOMAIN d.mapInfo -> Info]
        /\ \A n \in DOMAIN d.mapInfo :
             /\ d.mapInfo[n].addr = i1[n].addr
             /\ d.mapInfo[n].source = i1[n].source
             /\ d.mapInfo[n].nLastSuccess = i1[n].nLastSuccess
             /\ d.mapInfo[n].nRefCount = i1[n].nRefCount
             /\ d.mapInfo[n].fInTried = i1[n].fInTried
        /\ AddrIndex(d.mapInfo, d.mapAddr) /\ RandIndex(d.mapInfo, d.vRandom)
        /\ Len(d.vRandom) = Len(w.vRandom) - 1
        /\ d.nIdCount = w.nIdCount /\ d.nTried = w.nTried /\ d.vvTried = w.vvTried
        /\ d.nNew = w.nNew - 1 /\ d.vvNew = w.vvNew
    BY <2>1, <1>8, <1>10, <1>11, DeleteFields
  <2>3. RefSet(W2, x) = {}
    BY <1>5, <1>16, RefSetFinite
  <2>4. DOMAIN d.mapInfo = DOMAIN info \ {x}
    BY <2>2, <1>8
  <2>5. \A n \in DOMAIN d.mapInfo :
             /\ d.mapInfo[n].addr = info[n].addr
             /\ d.mapInfo[n].nLastSuccess = info[n].nLastSuccess
             /\ d.mapInfo[n].nRefCount = info[n].nRefCount
             /\ d.mapInfo[n].fInTried = info[n].fInTried
    BY <2>2, <2>4, <1>7
  <2>6. Counted(d.mapInfo, W2, m.nNew - 1)
    <3>1. /\ Counted(info, W, m.nNew) /\ IsFiniteSet(NewOf(info)) /\ x \in NewOf(info)
      BY <1>1, <1>2, <1>3
    <3>2. \A n \in DOMAIN d.mapInfo : RefSet(W2, n) = RefSet(W, n)
      BY <1>1, <1>5, <2>4
    <3>3. \A n \in DOMAIN d.mapInfo :
             /\ d.mapInfo[n].nRefCount = info[n].nRefCount
             /\ d.mapInfo[n].fInTried = info[n].fInTried
      BY <2>5
    <3> QED
      BY <2>4, <3>3, <3>1, <3>2, CountedGone, Zenon
  <2>7. TriedTable(d.mapInfo, m.vvTried, m.nTried)
    <3>1. TriedTable(info, m.vvTried, m.nTried) /\ x \in NewOf(info)
      BY <1>1, <1>3
    <3>2. \A n \in DOMAIN d.mapInfo :
             /\ d.mapInfo[n].addr = info[n].addr
             /\ d.mapInfo[n].fInTried = info[n].fInTried
             /\ d.mapInfo[n].nLastSuccess = info[n].nLastSuccess
      BY <2>5
    <3> QED
      BY <2>4, <3>2, <3>1, TriedGone, Zenon
  <2>8. m.nNew - 1 \in Nat
    <3>1. m.nNew = Cardinality(NewOf(info)) /\ NewOf(info) # {}
      BY <1>1, <1>3 DEF Counted
    <3>2. m.nNew # 0
      BY <3>1, <1>2, FS_EmptySet
    <3> QED BY <3>2, <1>1
  <2>9. /\ r.mapInfo = d.mapInfo /\ r.nIdCount = m.nIdCount /\ r.mapAddr = d.mapAddr /\ IsAddrMan(r)
        /\ r.vRandom = d.vRandom /\ r.nTried = m.nTried /\ r.vvTried = m.vvTried /\ r.nNew = m.nNew - 1
        /\ r.vvNew = [m.vvNew EXCEPT ![b] = @ \ {x}]
    BY <2>2, <1>10, <1>14
  <2>10. Len(r.vRandom) = r.nNew + r.nTried
    <3>1. Len(r.vRandom) = Len(m.vRandom) - 1
      BY <2>2, <2>9, <1>10
    <3>2. Len(m.vRandom) = m.nNew + m.nTried /\ m.nNew \in Nat /\ m.nTried \in Nat
      BY <1>1
    <3> QED BY <3>1, <3>2, <2>9
  <2>11. \A n \in DOMAIN d.mapInfo : n \in Nat /\ n < m.nIdCount
    BY <2>4, <1>1
  <2>12. Sound(r, W2)
    BY <2>2, <2>6, <2>7, <2>8, <2>9, <2>10, <2>11, <1>1 DEF Sound
  <2>13. /\ r.vvNew = [m.vvNew EXCEPT ![b] = @ \ {x}] /\ r.vvTried = m.vvTried /\ r.nIdCount = m.nIdCount
    BY <2>9
  <2>14. /\ DOMAIN r.mapInfo \subseteq DOMAIN m.mapInfo
         /\ \A n \in DOMAIN m.mapInfo : n \notin DOMAIN r.mapInfo => n = x /\ RefSet(W2, x) = {}
    BY <2>3, <2>4, <2>9
  <2>15. \A n \in DOMAIN r.mapInfo : /\ r.mapInfo[n].addr = m.mapInfo[n].addr
                                     /\ r.mapInfo[n].fInTried = m.mapInfo[n].fInTried
    BY <2>5, <2>9
  <2> QED
    BY <2>12, <2>13, <2>14, <2>15
<1> QED BY <1>15, <1>16

-----------------------------------------------------------------------------
(* A new entry. *)

LEMMA CountedNew ==
  ASSUME NEW info, NEW W, NEW k \in Nat, Counted(info, W, k), IsFiniteSet(NewOf(info)),
         NEW n, n \notin DOMAIN info, NEW r, NEW i2, i2 = With(info, n, r),
         NEW W2, \A x \in DOMAIN info : RefSet(W2, x) = RefSet(W, x),
         ~r.fInTried, r.nRefCount = Cardinality(RefSet(W2, n)), RefSet(W2, n) # {},
         r.nRefCount <= ADDRMAN_NEW_BUCKETS_PER_ADDRESS
  PROVE  Counted(i2, W2, k + 1)
<1>1. DOMAIN i2 = DOMAIN info \cup {n} /\ i2[n] = r /\ \A x \in DOMAIN info : i2[x] = info[x]
  BY DEF With
<1>2. NewOf(i2) = NewOf(info) \cup {n} /\ n \notin NewOf(info)
  BY <1>1 DEF NewOf
<1>3. Cardinality(NewOf(i2)) = k + 1
  BY <1>2, FS_AddElement DEF Counted
<1>4. ASSUME NEW x \in DOMAIN i2
      PROVE  /\ i2[x].nRefCount = Cardinality(RefSet(W2, x))
             /\ i2[x].nRefCount <= ADDRMAN_NEW_BUCKETS_PER_ADDRESS
             /\ i2[x].fInTried <=> RefSet(W2, x) = {}
  <2>1. CASE x = n
    BY <2>1, <1>1
  <2>2. CASE x \in DOMAIN info
    BY <2>2, <1>1 DEF Counted
  <2> QED BY <2>1, <2>2, <1>1
<1> QED
  BY <1>3, <1>4 DEF Counted

LEMMA CountedOther ==
  ASSUME NEW info, NEW W, NEW k, Counted(info, W, k),
         NEW n, n \notin DOMAIN info, NEW r, NEW i2, i2 = With(info, n, r),
         r.fInTried, r.nRefCount = 0, RefSet(W, n) = {}
  PROVE  Counted(i2, W, k)
<1>1. DOMAIN i2 = DOMAIN info \cup {n} /\ i2[n] = r /\ \A x \in DOMAIN info : i2[x] = info[x]
  BY DEF With
<1>2. NewOf(i2) = NewOf(info)
  BY <1>1 DEF NewOf
<1>3. Cardinality(RefSet(W, n)) = 0
  BY FS_EmptySet
<1>4. ASSUME NEW x \in DOMAIN i2
      PROVE  /\ i2[x].nRefCount = Cardinality(RefSet(W, x))
             /\ i2[x].nRefCount <= ADDRMAN_NEW_BUCKETS_PER_ADDRESS
             /\ i2[x].fInTried <=> RefSet(W, x) = {}
  <2>1. CASE x = n
    BY <2>1, <1>1, <1>3, Sizes
  <2>2. CASE x \in DOMAIN info
    BY <2>2, <1>1 DEF Counted
  <2> QED BY <2>1, <2>2, <1>1
<1> QED
  BY <1>2, <1>4 DEF Counted

LEMMA TriedOther ==
  ASSUME NEW info, NEW vv, NEW k, TriedTable(info, vv, k),
         NEW n, n \notin DOMAIN info, NEW r, NEW i2, i2 = With(info, n, r), ~r.fInTried
  PROVE  TriedTable(i2, vv, k)
<1>1. DOMAIN i2 = DOMAIN info \cup {n} /\ i2[n] = r /\ \A x \in DOMAIN info : i2[x] = info[x]
  BY DEF With
<1>2. TriedOf(i2) = TriedOf(info)
  BY <1>1 DEF TriedOf
<1>3. \A b \in TriedBucket : vv[b] \in Seq(DOMAIN info)
  BY DEF TriedTable
<1>4. \A b \in TriedBucket : \A i \in 1..Len(vv[b]) : vv[b][i] \in DOMAIN info
  BY <1>3
<1>5. \A b \in TriedBucket : vv[b] \in Seq(DOMAIN i2)
  BY <1>1, <1>3, <1>4
<1>6. /\ k = Cardinality(TriedOf(i2)) /\ vv \in [TriedBucket -> Seq(DOMAIN i2)]
      /\ \A b \in TriedBucket : \A i, j \in 1..Len(vv[b]) : vv[b][i] = vv[b][j] => i = j
  BY <1>2, <1>5 DEF TriedTable
<1>7. ASSUME NEW b \in TriedBucket, NEW i \in 1..Len(vv[b])
      PROVE  i2[vv[b][i]].fInTried /\ GetTriedBucket[i2[vv[b][i]].addr] = b
  BY <1>1, <1>4 DEF TriedTable
<1>8. ASSUME NEW x \in DOMAIN i2, i2[x].fInTried
      PROVE  /\ i2[x].nLastSuccess # 0
             /\ \E i \in 1..Len(vv[GetTriedBucket[i2[x].addr]]) : vv[GetTriedBucket[i2[x].addr]][i] = x
  <2>1. x \in DOMAIN info /\ i2[x] = info[x]
    BY <1>1, <1>8
  <2> QED
    BY <1>8, <2>1 DEF TriedTable
<1> QED
  BY <1>6, <1>7, <1>8 DEF TriedTable

(* Entry n, new or unknown in info, is a tried one in i2; bucket b ends with n. *)
NowTried(info, i2, n) ==
  /\ DOMAIN i2 = DOMAIN info \cup {n} /\ i2[n].addr \in Addr
  /\ i2[n].fInTried /\ i2[n].nLastSuccess # 0
  /\ n \in DOMAIN info => ~info[n].fInTried
  /\ \A x \in DOMAIN info : x # n => i2[x] = info[x]

AppendedTo(vv, b, n, v2) == v2 = [vv EXCEPT ![b] = Append(@, n)]

(* A tried entry comes to the end of its bucket. *)
LEMMA TriedNew ==
  ASSUME NEW info, info \in [DOMAIN info -> Info], NEW vv, NEW k \in Nat, TriedTable(info, vv, k),
         IsFiniteSet(TriedOf(info)), NEW n, NEW i2, NowTried(info, i2, n),
         NEW kb, kb = GetTriedBucket[i2[n].addr], NEW v2, AppendedTo(vv, kb, n, v2)
  PROVE  TriedTable(i2, v2, k + 1)
<1>0. /\ DOMAIN i2 = DOMAIN info \cup {n} /\ i2[n].addr \in Addr
      /\ i2[n].fInTried /\ i2[n].nLastSuccess # 0
      /\ (n \in DOMAIN info => ~info[n].fInTried)
      /\ \A x \in DOMAIN info : x # n => i2[x] = info[x]
  BY DEF NowTried
<1>1. kb \in TriedBucket
  BY <1>0, AddrManAssumption
<1>a. /\ DOMAIN v2 = TriedBucket /\ v2 = [b \in DOMAIN v2 |-> v2[b]]
      /\ v2[kb] = Append(vv[kb], n) /\ \A b \in TriedBucket : b # kb => v2[b] = vv[b]
  <2>1. DOMAIN vv = TriedBucket
    BY DEF TriedTable
  <2> QED BY <2>1, <1>1 DEF AppendedTo
<1>2. TriedOf(i2) = TriedOf(info) \cup {n} /\ n \notin TriedOf(info)
  BY <1>0 DEF TriedOf
<1>3. Cardinality(TriedOf(i2)) = k + 1
  <2>1. k = Cardinality(TriedOf(info))
    BY DEF TriedTable
  <2> QED BY <1>2, <2>1, FS_AddElement
<1>4. \A b \in TriedBucket : vv[b] \in Seq(DOMAIN info) /\ Len(vv[b]) \in Nat
  BY DEF TriedTable
<1>5. \A b \in TriedBucket : \A i \in 1..Len(vv[b]) : vv[b][i] \in DOMAIN info /\ vv[b][i] # n
  BY <1>0, <1>4 DEF TriedTable
<1>6. /\ Len(v2[kb]) = Len(vv[kb]) + 1 /\ v2[kb][Len(vv[kb]) + 1] = n
      /\ \A i \in 1..Len(vv[kb]) : v2[kb][i] = vv[kb][i]
      /\ v2[kb] \in Seq(DOMAIN i2)
  <2>1. vv[kb] \in Seq(DOMAIN i2) /\ n \in DOMAIN i2
    BY <1>0, <1>1, <1>4, <1>5
  <2> QED BY <1>a, <2>1
<1>7. ASSUME NEW b \in TriedBucket, b # kb PROVE v2[b] = vv[b] /\ v2[b] \in Seq(DOMAIN i2)
  BY <1>0, <1>a, <1>4, <1>5, <1>7
<1>8. v2 \in [TriedBucket -> Seq(DOMAIN i2)]
  BY <1>a, <1>6, <1>7
<1>9. ASSUME NEW b \in TriedBucket, NEW i \in 1..Len(v2[b]), NEW j \in 1..Len(v2[b]), v2[b][i] = v2[b][j]
      PROVE  i = j
  <2>1. CASE b # kb
    BY <1>0, <1>7, <1>9, <2>1 DEF TriedTable
  <2>2. CASE b = kb
    <3>1. i = Len(vv[kb]) + 1 \/ i \in 1..Len(vv[kb])
      BY <1>4, <1>6, <2>2
    <3>2. j = Len(vv[kb]) + 1 \/ j \in 1..Len(vv[kb])
      BY <1>4, <1>6, <2>2
    <3> QED
      BY <3>1, <3>2, <1>1, <1>5, <1>6, <1>9, <2>2 DEF TriedTable
  <2> QED BY <2>1, <2>2
<1>10. ASSUME NEW b \in TriedBucket, NEW i \in 1..Len(v2[b])
       PROVE  i2[v2[b][i]].fInTried /\ GetTriedBucket[i2[v2[b][i]].addr] = b
  <2>1. CASE b # kb
    BY <1>0, <1>5, <1>7, <2>1 DEF TriedTable
  <2>2. CASE b = kb /\ i = Len(vv[kb]) + 1
    <3>1. v2[b][i] = n
      BY <1>6, <2>2
    <3> QED BY <1>0, <2>2, <3>1
  <2>3. CASE b = kb /\ i \in 1..Len(vv[kb])
    BY <1>0, <1>1, <1>5, <1>6, <2>3 DEF TriedTable
  <2> QED BY <2>1, <2>2, <2>3, <1>4, <1>6
<1>11. ASSUME NEW x \in DOMAIN i2, i2[x].fInTried
       PROVE  /\ i2[x].nLastSuccess # 0
              /\ \E i \in 1..Len(v2[GetTriedBucket[i2[x].addr]]) : v2[GetTriedBucket[i2[x].addr]][i] = x
  <2>1. CASE x = n
    <3>1. Len(vv[kb]) + 1 \in 1..Len(v2[kb])
      BY <1>1, <1>4, <1>6
    <3> QED BY <1>0, <3>1, <2>1, <1>6
  <2>2. CASE x # n
    <3>1. x \in DOMAIN info /\ i2[x] = info[x] /\ info[x].addr \in Addr
      BY <1>0, <2>2 DEF Info
    <3>2. PICK b \in TriedBucket : b = GetTriedBucket[info[x].addr]
      BY <3>1, AddrManAssumption
    <3>3. PICK i \in 1..Len(vv[b]) : vv[b][i] = x
      BY <1>11, <3>1, <3>2 DEF TriedTable
    <3>4. i \in 1..Len(v2[b]) /\ v2[b][i] = x
      <4>1. CASE b = kb
        BY <4>1, <3>3, <1>4, <1>6
      <4>2. CASE b # kb
        BY <4>2, <3>3, <1>7
      <4> QED BY <4>1, <4>2
    <3> QED
      BY <1>11, <3>1, <3>2, <3>4 DEF TriedTable
  <2> QED BY <2>1, <2>2
<1> QED
  BY <1>3, <1>8, <1>9, <1>10, <1>11 DEF TriedTable

(* An entry r for a new address, and the members once it is entered. *)
Fresh(m, r) ==
  /\ m.nIdCount < MaxId /\ r \in Info /\ r.addr \notin DOMAIN m.mapAddr
  /\ r.nRandomPos = Len(m.vRandom)

Entered(m, r, m2) ==
  /\ IsAddrMan(m2) /\ m2.nIdCount = m.nIdCount + 1
  /\ m2.mapInfo = With(m.mapInfo, m.nIdCount, r)
  /\ m2.mapAddr = With(m.mapAddr, r.addr, m.nIdCount)
  /\ m2.vRandom = Append(m.vRandom, m.nIdCount)

(* The parts of Sound. *)
LEMMA SoundParts ==
  ASSUME NEW m, NEW W, Sound(m, W)
  PROVE  /\ IsAddrMan(m) /\ m.mapInfo \in [DOMAIN m.mapInfo -> Info]
         /\ AddrIndex(m.mapInfo, m.mapAddr) /\ RandIndex(m.mapInfo, m.vRandom)
         /\ Counted(m.mapInfo, W, m.nNew) /\ TriedTable(m.mapInfo, m.vvTried, m.nTried)
         /\ Len(m.vRandom) = m.nNew + m.nTried /\ m.nIdCount \in Nat /\ m.nNew \in Nat /\ m.nTried \in Nat
         /\ m.nIdCount <= MaxId /\ \A x \in DOMAIN m.mapInfo : x \in Nat /\ x < m.nIdCount
         /\ IsFiniteSet(DOMAIN m.mapInfo) /\ IsFiniteSet(NewOf(m.mapInfo))
         /\ IsFiniteSet(TriedOf(m.mapInfo))
BY IdsFinite DEF Sound

(* What every new entry does to the indexes. *)
LEMMA EnteredIndexes ==
  ASSUME NEW m, NEW W, Sound(m, W), NEW r, Fresh(m, r), NEW m2, Entered(m, r, m2)
  PROVE  /\ IsAddrMan(m2) /\ m2.nIdCount \in Nat /\ m2.nIdCount <= MaxId
         /\ m.nIdCount \notin DOMAIN m.mapInfo
         /\ DOMAIN m2.mapInfo = DOMAIN m.mapInfo \cup {m.nIdCount}
         /\ m2.mapInfo[m.nIdCount] = r /\ \A x \in DOMAIN m.mapInfo : m2.mapInfo[x] = m.mapInfo[x]
         /\ m2.mapInfo \in [DOMAIN m2.mapInfo -> Info]
         /\ \A x \in DOMAIN m2.mapInfo : x \in Nat /\ x < m2.nIdCount
         /\ AddrIndex(m2.mapInfo, m2.mapAddr) /\ RandIndex(m2.mapInfo, m2.vRandom)
         /\ Len(m2.vRandom) = m.nNew + m.nTried + 1
<1>1. PICK n : n = m.nIdCount
  OBVIOUS
<1>2. PICK info : info = m.mapInfo
  OBVIOUS
<1>3. /\ info \in [DOMAIN info -> Info] /\ AddrIndex(info, m.mapAddr) /\ RandIndex(info, m.vRandom)
  BY <1>2, SoundParts
<1>4. /\ n \in Nat /\ n <= MaxId /\ \A x \in DOMAIN info : x \in Nat /\ x < n
  BY <1>1, <1>2, SoundParts
<1>5. n \notin DOMAIN info
  BY <1>4
<1>6. r \in Info /\ r.addr \notin DOMAIN m.mapAddr /\ r.nRandomPos = Len(m.vRandom) /\ n < MaxId
  BY <1>1 DEF Fresh
<1>7. /\ IsAddrMan(m2) /\ m2.nIdCount = n + 1 /\ m2.mapInfo = With(info, n, r)
      /\ m2.mapAddr = With(m.mapAddr, r.addr, n) /\ m2.vRandom = Append(m.vRandom, n)
  BY <1>1, <1>2 DEF Entered
<1>8. AddrIndex(With(info, n, r), With(m.mapAddr, r.addr, n))
  BY <1>3, <1>5, <1>6, AddrAdd, Zenon
<1>9. RandIndex(With(info, n, r), Append(m.vRandom, n))
  BY <1>3, <1>5, <1>6, RandAdd, Zenon
<1>10. /\ DOMAIN m2.mapInfo = DOMAIN info \cup {n} /\ m2.mapInfo \in [DOMAIN m2.mapInfo -> Info]
       /\ m2.mapInfo[n] = r /\ \A x \in DOMAIN info : m2.mapInfo[x] = info[x]
  BY <1>3, <1>5, <1>6, <1>7 DEF With
<1>11. Len(m2.vRandom) = m.nNew + m.nTried + 1
  <2>1. m.vRandom \in Seq(DOMAIN info)
    BY <1>3 DEF RandIndex
  <2>2. Len(m2.vRandom) = Len(m.vRandom) + 1
    BY <2>1, <1>7
  <2> QED BY <2>2, SoundParts
<1>12. m2.nIdCount \in Nat /\ m2.nIdCount <= MaxId
  BY <1>4, <1>6, <1>7, Sizes
<1>13. \A x \in DOMAIN m2.mapInfo : x \in Nat /\ x < m2.nIdCount
  BY <1>4, <1>7, <1>10
<1> QED
  BY <1>1, <1>2, <1>5, <1>7, <1>8, <1>9, <1>10, <1>11, <1>12, <1>13

(* A new entry with references, in the buckets W2. *)
LEMMA NewEntrySound ==
  ASSUME NEW m, NEW W, Sound(m, W), NEW r, Fresh(m, r), NEW m2, Entered(m, r, m2),
         m2.nNew = m.nNew + 1, m2.nTried = m.nTried, m2.vvTried = m.vvTried,
         NEW W2, \A x \in DOMAIN m.mapInfo : RefSet(W2, x) = RefSet(W, x),
         ~r.fInTried, r.nRefCount = Cardinality(RefSet(W2, m.nIdCount)), RefSet(W2, m.nIdCount) # {},
         r.nRefCount <= ADDRMAN_NEW_BUCKETS_PER_ADDRESS
  PROVE  Sound(m2, W2)
<1>1. PICK n : n = m.nIdCount
  OBVIOUS
<1>2. PICK info : info = m.mapInfo
  OBVIOUS
<1>3. PICK i2 : i2 = With(info, n, r)
  OBVIOUS
<1>4. m2.mapInfo = i2
  BY <1>1, <1>2, <1>3 DEF Entered
<1>5. PICK k \in Nat : k = m.nNew
  BY SoundParts
<1>6. /\ Counted(info, W, k) /\ IsFiniteSet(NewOf(info)) /\ TriedTable(info, m.vvTried, m.nTried)
      /\ m.nTried \in Nat
  BY <1>2, <1>5, SoundParts
<1>7. n \notin DOMAIN info
  BY <1>1, <1>2, EnteredIndexes
<1>8. \A x \in DOMAIN info : RefSet(W2, x) = RefSet(W, x)
  BY <1>2
<1>9. /\ ~r.fInTried /\ r.nRefCount = Cardinality(RefSet(W2, n)) /\ RefSet(W2, n) # {}
      /\ r.nRefCount <= ADDRMAN_NEW_BUCKETS_PER_ADDRESS
  BY <1>1
<1>10. Counted(i2, W2, k + 1)
  BY <1>3, <1>6, <1>7, <1>8, <1>9, CountedNew, Zenon
<1>11. TriedTable(i2, m.vvTried, m.nTried)
  BY <1>3, <1>6, <1>7, <1>9, TriedOther, Zenon
<1>12. Counted(m2.mapInfo, W2, m2.nNew) /\ TriedTable(m2.mapInfo, m2.vvTried, m2.nTried)
  BY <1>4, <1>5, <1>10, <1>11
<1>13. Len(m2.vRandom) = m2.nNew + m2.nTried /\ m2.nNew \in Nat /\ m2.nTried \in Nat
  <2>1. Len(m2.vRandom) = m.nNew + m.nTried + 1
    BY EnteredIndexes
  <2> QED BY <2>1, <1>5, <1>6
<1> QED
  BY <1>12, <1>13, EnteredIndexes DEF Sound

(* A new entry of the tried table. *)
LEMMA TriedEntrySound ==
  ASSUME NEW m, NEW W, Sound(m, W), NEW r, Fresh(m, r), NEW m2, Entered(m, r, m2),
         m2.nNew = m.nNew, m2.nTried = m.nTried + 1,
         r.fInTried, r.nRefCount = 0, r.nLastSuccess # 0, RefSet(W, m.nIdCount) = {},
         NEW kb, kb = GetTriedBucket[r.addr],
         m2.vvTried = [m.vvTried EXCEPT ![kb] = Append(@, m.nIdCount)]
  PROVE  Sound(m2, W)
<1>1. PICK n : n = m.nIdCount
  OBVIOUS
<1>2. PICK info : info = m.mapInfo
  OBVIOUS
<1>3. PICK i2 : i2 = With(info, n, r)
  OBVIOUS
<1>4. m2.mapInfo = i2
  BY <1>1, <1>2, <1>3 DEF Entered
<1>5. PICK k \in Nat : k = m.nTried
  BY SoundParts
<1>6. PICK vv : vv = m.vvTried
  OBVIOUS
<1>7. /\ Counted(info, W, m.nNew) /\ IsFiniteSet(TriedOf(info)) /\ TriedTable(info, vv, k)
      /\ m.nNew \in Nat /\ info \in [DOMAIN info -> Info]
  BY <1>2, <1>5, <1>6, SoundParts
<1>8. /\ n \notin DOMAIN info /\ DOMAIN i2 = DOMAIN info \cup {n} /\ i2[n] = r
      /\ \A x \in DOMAIN info : i2[x] = info[x]
  <2>1. /\ m.nIdCount \notin DOMAIN m.mapInfo /\ DOMAIN m2.mapInfo = DOMAIN m.mapInfo \cup {m.nIdCount}
        /\ m2.mapInfo[m.nIdCount] = r /\ \A x \in DOMAIN m.mapInfo : m2.mapInfo[x] = m.mapInfo[x]
    BY EnteredIndexes
  <2> QED BY <2>1, <1>1, <1>2, <1>4
<1>9. r.fInTried /\ r.nRefCount = 0 /\ r.nLastSuccess # 0 /\ RefSet(W, n) = {}
  BY <1>1
<1>10. r.addr \in Addr /\ kb \in TriedBucket
  BY AddrManAssumption DEF Fresh, Info
<1>11. PICK v2 : AppendedTo(vv, kb, n, v2)
  BY DEF AppendedTo
<1>12. m2.vvTried = v2
  BY <1>1, <1>6, <1>11 DEF AppendedTo
<1>15. Counted(i2, W, m.nNew)
  BY <1>3, <1>7, <1>8, <1>9, CountedOther, Zenon
<1>16. NowTried(info, i2, n) /\ kb = GetTriedBucket[i2[n].addr]
  BY <1>8, <1>9, <1>10 DEF NowTried
<1>17. TriedTable(i2, v2, k + 1)
  BY <1>7, <1>11, <1>16, TriedNew, Zenon
<1>18. Counted(m2.mapInfo, W, m2.nNew) /\ TriedTable(m2.mapInfo, m2.vvTried, m2.nTried)
  BY <1>4, <1>5, <1>12, <1>15, <1>17
<1>19. Len(m2.vRandom) = m2.nNew + m2.nTried /\ m2.nNew \in Nat /\ m2.nTried \in Nat
  <2>1. Len(m2.vRandom) = m.nNew + m.nTried + 1
    BY EnteredIndexes
  <2> QED BY <2>1, <1>5, <1>7
<1> QED
  BY <1>18, <1>19, EnteredIndexes DEF Sound

-----------------------------------------------------------------------------
(* The whole table, and what a step keeps of the tried entries. *)
AddrOK(m) ==
  /\ Sound(m, m.vvNew)
  /\ m.vvNew \in [NewBucket -> SUBSET DOMAIN m.mapInfo]
  /\ \A b \in NewBucket : Cardinality(m.vvNew[b]) <= ADDRMAN_NEW_BUCKET_SIZE
  /\ \A b \in TriedBucket : Len(m.vvTried[b]) <= ADDRMAN_TRIED_BUCKET_SIZE

Keeps(m, r) ==
  \A n \in DOMAIN m.mapInfo : m.mapInfo[n].fInTried => m.mapInfo[n].addr \in DOMAIN r.mapAddr

(* Sound speaks of the buckets it is given, not of vvNew. *)
LEMMA SoundBuckets ==
  ASSUME NEW m, NEW W, Sound(m, W), NEW r, IsAddrMan(r), r.nIdCount = m.nIdCount,
         r.mapInfo = m.mapInfo, r.mapAddr = m.mapAddr, r.vRandom = m.vRandom,
         r.nTried = m.nTried, r.vvTried = m.vvTried, r.nNew = m.nNew
  PROVE  Sound(r, W)
BY DEF Sound

(* Steps of Add_: a new entry, one more reference, entry n in bucket b. *)
Created(m, a, s, m1) == m1 = [Create(m, a, s) EXCEPT !.nNew = @ + 1]
RefAdded(m, n, m2) == m2 = [m EXCEPT !.mapInfo[n].nRefCount = @ + 1]
Joined(V, b, n, W) == W = [V EXCEPT ![b] = @ \cup {n}]
Inserted(m2, b, n, r) ==
  \E m3 \in IF Cardinality(m2.vvNew[b]) = ADDRMAN_NEW_BUCKET_SIZE
               THEN {ShrinkNew(m2, b, x) : x \in m2.vvNew[b]} ELSE {m2} :
    r = [m3 EXCEPT !.vvNew[b] = @ \cup {n}]

(* m2 counts the reference of n that m still lacks in bucket b. *)
Counting(m, b, n, W, m2) ==
  /\ n \in Nat /\ n \notin m.vvNew[b] /\ Joined(m.vvNew, b, n, W)
  /\ Sound(m2, W) /\ m2.vvNew = m.vvNew /\ m2.vvTried = m.vvTried
  /\ DOMAIN m2.mapInfo = DOMAIN m.mapInfo \cup {n}
  /\ \A x \in DOMAIN m.mapInfo : /\ m2.mapInfo[x].addr = m.mapInfo[x].addr
                                 /\ m2.mapInfo[x].fInTried = m.mapInfo[x].fInTried

LEMMA JoinedFacts ==
  ASSUME NEW V, DOMAIN V = NewBucket, NEW b \in NewBucket, NEW n, NEW W, Joined(V, b, n, W)
  PROVE  /\ DOMAIN W = NewBucket /\ W[b] = V[b] \cup {n} /\ \A k \in NewBucket : k # b => W[k] = V[k]
         /\ RefSet(W, n) = RefSet(V, n) \cup {b} /\ \A x \in Nat : x # n => RefSet(W, x) = RefSet(V, x)
<1>1. DOMAIN W = NewBucket /\ W[b] = V[b] \cup {n} /\ \A k \in NewBucket : k # b => W[k] = V[k]
  BY DEF Joined
<1> QED
  BY <1>1 DEF RefSet

(* The end of Add_: entry n has its reference counted and enters bucket b. *)
LEMMA InsertOK ==
  ASSUME NEW m, AddrOK(m), NEW n, NEW b \in NewBucket, NEW W, NEW m2, Counting(m, b, n, W, m2),
         NEW r, Inserted(m2, b, n, r)
  PROVE  AddrOK(r) /\ Keeps(m, r)
<1> SUFFICES ASSUME n \in Nat, n \notin m.vvNew[b], Joined(m.vvNew, b, n, W),
                    Sound(m2, W), m2.vvNew = m.vvNew, m2.vvTried = m.vvTried,
                    DOMAIN m2.mapInfo = DOMAIN m.mapInfo \cup {n},
                    \A x \in DOMAIN m.mapInfo : /\ m2.mapInfo[x].addr = m.mapInfo[x].addr
                                                /\ m2.mapInfo[x].fInTried = m.mapInfo[x].fInTried
             PROVE  AddrOK(r) /\ Keeps(m, r)
  BY DEF Counting
<1>a. W = [m.vvNew EXCEPT ![b] = @ \cup {n}]
  BY DEF Joined
<1>b. PICK m3 \in IF Cardinality(m2.vvNew[b]) = ADDRMAN_NEW_BUCKET_SIZE
                    THEN {ShrinkNew(m2, b, x) : x \in m2.vvNew[b]} ELSE {m2} :
        r = [m3 EXCEPT !.vvNew[b] = @ \cup {n}]
  BY DEF Inserted
<1>1. /\ m.vvNew \in [NewBucket -> SUBSET DOMAIN m.mapInfo] /\ Sound(m, m.vvNew)
      /\ \A k \in NewBucket : Cardinality(m.vvNew[k]) <= ADDRMAN_NEW_BUCKET_SIZE
      /\ \A k \in TriedBucket : Len(m.vvTried[k]) <= ADDRMAN_TRIED_BUCKET_SIZE
  BY DEF AddrOK
<1>2. IsFiniteSet(DOMAIN m.mapInfo) /\ IsFiniteSet(m.vvNew[b])
  <2>1. m.nIdCount \in Nat /\ \A x \in DOMAIN m.mapInfo : x \in Nat /\ x < m.nIdCount
    BY <1>1 DEF Sound
  <2>2. IsFiniteSet(DOMAIN m.mapInfo) /\ m.vvNew[b] \in SUBSET DOMAIN m.mapInfo
    BY <2>1, <1>1, IdsFinite
  <2> QED BY <2>2, FS_Subset
<1>3. PICK c \in Nat : c = Cardinality(m.vvNew[b])
  BY <1>2, FS_CardinalityType
<1>4. /\ DOMAIN W = NewBucket /\ W[b] = m.vvNew[b] \cup {n}
      /\ \A k \in NewBucket : k # b => W[k] = m.vvNew[k]
  BY <1>1, <1>a
<1>5. CASE c # ADDRMAN_NEW_BUCKET_SIZE
  <2>1. m3 = m2
    BY <1>3, <1>5, <1>b
  <2>2. /\ IsAddrMan(r) /\ r.nIdCount = m2.nIdCount /\ r.mapInfo = m2.mapInfo /\ r.mapAddr = m2.mapAddr
        /\ r.vRandom = m2.vRandom /\ r.nTried = m2.nTried /\ r.vvTried = m2.vvTried /\ r.nNew = m2.nNew
        /\ r.vvNew = W
    <3>1. IsAddrMan(m2)
      BY DEF Sound
    <3> QED BY <1>a, <1>b, <2>1, <3>1 DEF IsAddrMan
  <2>3. Sound(r, r.vvNew)
    BY <2>2, SoundBuckets
  <2>4. W \in [NewBucket -> SUBSET DOMAIN r.mapInfo]
    BY <1>1, <1>a, <2>2
  <2>5. Cardinality(W[b]) = c + 1 /\ c + 1 <= ADDRMAN_NEW_BUCKET_SIZE
    <3>1. Cardinality(m.vvNew[b] \cup {n}) = c + 1
      BY <1>2, <1>3, FS_AddElement
    <3>2. c <= ADDRMAN_NEW_BUCKET_SIZE
      BY <1>1, <1>3
    <3> QED BY <3>1, <3>2, <1>4, <1>5, Sizes
  <2>6. AddrOK(r)
    BY <1>1, <1>4, <2>2, <2>3, <2>4, <2>5 DEF AddrOK
  <2>7. AddrIndex(r.mapInfo, r.mapAddr)
    BY <2>3 DEF Sound
  <2>8. \A k \in DOMAIN m.mapInfo : m.mapInfo[k].fInTried =>
             k \in DOMAIN r.mapInfo /\ r.mapInfo[k].addr = m.mapInfo[k].addr
    BY <2>2
  <2>9. Keeps(m, r)
    BY <2>7, <2>8 DEF Keeps, AddrIndex
  <2> QED
    BY <2>6, <2>9
<1>6. CASE c = ADDRMAN_NEW_BUCKET_SIZE
  <2>1. PICK x \in m.vvNew[b] : m3 = ShrinkNew(m2, b, x)
    BY <1>3, <1>6, <1>b
  <2>a. PICK W2 : Parted(W, b, x, W2)
    BY DEF Parted
  <2>3. x \in W[b] /\ x \in DOMAIN m2.mapInfo /\ x # n /\ DOMAIN m2.vvNew = NewBucket
    BY <1>1, <1>4, <2>1
  <2>4. /\ Sound(m3, W2) /\ m3.vvNew = [m2.vvNew EXCEPT ![b] = @ \ {x}]
        /\ m3.vvTried = m2.vvTried /\ m3.nIdCount = m2.nIdCount
        /\ DOMAIN m3.mapInfo \subseteq DOMAIN m2.mapInfo
        /\ \A k \in DOMAIN m2.mapInfo : k \notin DOMAIN m3.mapInfo => k = x /\ RefSet(W2, x) = {}
        /\ \A k \in DOMAIN m3.mapInfo : /\ m3.mapInfo[k].addr = m2.mapInfo[k].addr
                                        /\ m3.mapInfo[k].fInTried = m2.mapInfo[k].fInTried
    BY <1>4, <2>1, <2>a, <2>3, ShrinkSound
  <2>2. W2 = [W EXCEPT ![b] = @ \ {x}]
    BY <2>a DEF Parted
  <2>5. /\ IsAddrMan(r) /\ r.nIdCount = m3.nIdCount /\ r.mapInfo = m3.mapInfo /\ r.mapAddr = m3.mapAddr
        /\ r.vRandom = m3.vRandom /\ r.nTried = m3.nTried /\ r.vvTried = m3.vvTried /\ r.nNew = m3.nNew
        /\ r.vvNew = [m3.vvNew EXCEPT ![b] = @ \cup {n}]
    <3>1. IsAddrMan(m3)
      BY <2>4 DEF Sound
    <3> QED BY <1>b, <3>1 DEF IsAddrMan
  <2>6. r.vvNew = W2
    <3>1. r.vvNew = [[m.vvNew EXCEPT ![b] = m.vvNew[b] \ {x}] EXCEPT ![b] = (m.vvNew[b] \ {x}) \cup {n}]
      BY <2>4, <2>5, <1>1
    <3>2. W2 = [[m.vvNew EXCEPT ![b] = m.vvNew[b] \cup {n}] EXCEPT ![b] = (m.vvNew[b] \cup {n}) \ {x}]
      BY <2>2, <1>1, <1>a
    <3>3. (m.vvNew[b] \cup {n}) \ {x} = (m.vvNew[b] \ {x}) \cup {n}
      BY <2>3
    <3> QED BY <3>1, <3>2, <3>3, <1>1
  <2>7. Sound(r, r.vvNew)
    BY <2>4, <2>5, <2>6, SoundBuckets
  <2>8. W2[b] = (m.vvNew[b] \ {x}) \cup {n} /\ \A k \in NewBucket : k # b => W2[k] = m.vvNew[k]
    BY <1>4, <2>2, <2>3
  <2>9. W2 \in [NewBucket -> SUBSET DOMAIN r.mapInfo]
    <3>1. DOMAIN W2 = NewBucket /\ W2 = [k \in NewBucket |-> W2[k]]
      BY <1>4, <2>2
    <3>2. ASSUME NEW k \in NewBucket, NEW y \in W2[k] PROVE y \in DOMAIN r.mapInfo
      <4>1. y \in DOMAIN m2.mapInfo
        BY <1>1, <2>8, <3>2
      <4>2. y = x => RefSet(W2, x) # {}
        BY <3>2 DEF RefSet
      <4> QED BY <4>1, <4>2, <2>4, <2>5
    <3> QED BY <3>1, <3>2
  <2>10. Cardinality(W2[b]) = c
    <3>1. IsFiniteSet(m.vvNew[b] \ {x}) /\ Cardinality(m.vvNew[b] \ {x}) = c - 1 /\ n \notin m.vvNew[b] \ {x}
      BY <1>2, <1>3, <2>1, FS_RemoveElement
    <3>2. Cardinality((m.vvNew[b] \ {x}) \cup {n}) = c - 1 + 1
      BY <3>1, FS_AddElement
    <3> QED BY <2>8, <3>2
  <2>11. AddrOK(r)
    <3>1. ASSUME NEW k \in NewBucket PROVE Cardinality(W2[k]) <= ADDRMAN_NEW_BUCKET_SIZE
      <4>1. CASE k = b
        BY <4>1, <1>6, <2>10, Sizes
      <4>2. CASE k # b
        BY <4>2, <1>1, <2>8
      <4> QED BY <4>1, <4>2
    <3>2. \A k \in TriedBucket : Len(r.vvTried[k]) <= ADDRMAN_TRIED_BUCKET_SIZE
      BY <1>1, <2>4, <2>5
    <3> QED BY <3>1, <3>2, <2>6, <2>7, <2>9 DEF AddrOK
  <2>12. AddrIndex(r.mapInfo, r.mapAddr)
    BY <2>7 DEF Sound
  <2>13. ~m2.mapInfo[x].fInTried
    <3>1. b \in RefSet(W, x)
      BY <2>3 DEF RefSet
    <3> QED BY <2>3, <3>1 DEF Sound, Counted
  <2>14. \A k \in DOMAIN m.mapInfo : m.mapInfo[k].fInTried =>
             k \in DOMAIN r.mapInfo /\ r.mapInfo[k].addr = m.mapInfo[k].addr
    BY <2>3, <2>4, <2>5, <2>13
  <2>15. Keeps(m, r)
    BY <2>12, <2>14 DEF Keeps, AddrIndex
  <2> QED
    BY <2>11, <2>15
<1> QED BY <1>5, <1>6

-----------------------------------------------------------------------------
(* Add_.  A known address gets one more reference. *)
LEMMA KnownCounted ==
  ASSUME NEW m, NEW V, Sound(m, V), DOMAIN V = NewBucket, NEW n \in DOMAIN m.mapInfo,
         ~m.mapInfo[n].fInTried, m.mapInfo[n].nRefCount # ADDRMAN_NEW_BUCKETS_PER_ADDRESS,
         NEW b \in NewBucket, n \notin V[b],
         NEW m2, RefAdded(m, n, m2), NEW W, Joined(V, b, n, W)
  PROVE  /\ Sound(m2, W) /\ m2.vvNew = m.vvNew /\ m2.vvTried = m.vvTried
         /\ DOMAIN m2.mapInfo = DOMAIN m.mapInfo
         /\ \A x \in DOMAIN m.mapInfo : /\ m2.mapInfo[x].addr = m.mapInfo[x].addr
                                        /\ m2.mapInfo[x].fInTried = m.mapInfo[x].fInTried
<1>1. PICK info : info = m.mapInfo
  OBVIOUS
<1>2. PICK c : c = info[n].nRefCount
  OBVIOUS
<1>3. info \in [DOMAIN info -> Info] /\ n \in DOMAIN info /\ n \in Nat
  BY <1>1, SoundParts
<1>4. PICK i1 : i1 = Recounted(info, n, c + 1)
  OBVIOUS
<1>5. IsAddrMan(m)
  BY SoundParts
<1>6. /\ IsAddrMan(m2) /\ m2.mapInfo = i1 /\ m2.nIdCount = m.nIdCount /\ m2.mapAddr = m.mapAddr
      /\ m2.vRandom = m.vRandom /\ m2.nTried = m.nTried /\ m2.vvTried = m.vvTried
      /\ m2.nNew = m.nNew /\ m2.vvNew = m.vvNew
  BY <1>1, <1>2, <1>4, <1>5 DEF IsAddrMan, Recounted, RefAdded
<1>7. c \in Int
  BY <1>2, <1>3 DEF Info
<1>8. c + 1 \in Int
  BY <1>7
<1>9. /\ i1 \in [DOMAIN info -> Info] /\ i1[n].nRefCount = c + 1
      /\ \A x \in DOMAIN info :
           /\ x # n => i1[x].nRefCount = info[x].nRefCount
           /\ i1[x].addr = info[x].addr /\ i1[x].source = info[x].source
           /\ i1[x].nLastSuccess = info[x].nLastSuccess
           /\ i1[x].nRandomPos = info[x].nRandomPos /\ i1[x].fInTried = info[x].fInTried
  BY <1>3, <1>4, <1>8, RefFields
<1>10. DOMAIN i1 = DOMAIN info
  BY <1>9
<1>11. AddrIndex(i1, m.mapAddr) /\ RandIndex(i1, m.vRandom)
  <2>1. AddrIndex(info, m.mapAddr) /\ RandIndex(info, m.vRandom)
    BY <1>1, SoundParts
  <2> QED BY <2>1, <1>9, <1>10, AddrUpdate, RandUpdate
<1>12. TriedTable(i1, m.vvTried, m.nTried)
  <2>1. TriedTable(info, m.vvTried, m.nTried)
    BY <1>1, SoundParts
  <2>2. \A x \in DOMAIN info :
           /\ i1[x].addr = info[x].addr /\ i1[x].fInTried = info[x].fInTried
           /\ info[x].fInTried => i1[x].nLastSuccess # 0
    BY <2>1, <1>9 DEF TriedTable
  <2>3. StayTried(info, i1)
    BY <2>2, <1>10 DEF StayTried
  <2> QED BY <2>1, <2>3, TriedSame
<1>13. Counted(info, V, m.nNew)
  BY <1>1, SoundParts
<1>14. RefSet(W, n) = RefSet(V, n) \cup {b} /\ \A x \in Nat : x # n => RefSet(W, x) = RefSet(V, x)
  BY JoinedFacts
<1>15. Cardinality(RefSet(W, n)) = c + 1
  <2>1. b \notin RefSet(V, n) /\ IsFiniteSet(RefSet(V, n))
    BY RefSetFinite DEF RefSet
  <2>2. c = Cardinality(RefSet(V, n))
    BY <1>2, <1>3, <1>13 DEF Counted
  <2> QED BY <2>1, <2>2, <1>14, FS_AddElement
<1>16. c + 1 <= ADDRMAN_NEW_BUCKETS_PER_ADDRESS
  <2>1. c <= ADDRMAN_NEW_BUCKETS_PER_ADDRESS /\ c # ADDRMAN_NEW_BUCKETS_PER_ADDRESS
    BY <1>1, <1>2, <1>3, <1>13 DEF Counted
  <2> QED BY <2>1, <1>7, Sizes
<1>17. \A x \in DOMAIN info : x \in Nat
  BY <1>1, SoundParts
<1>18. Counted(i1, W, m.nNew)
  <2>1. NewOf(i1) = NewOf(info)
    BY <1>9, <1>10 DEF NewOf
  <2>2. m.nNew = Cardinality(NewOf(i1))
    BY <2>1, <1>13 DEF Counted
  <2>3. ASSUME NEW x \in DOMAIN i1
        PROVE  /\ i1[x].nRefCount = Cardinality(RefSet(W, x))
               /\ i1[x].nRefCount <= ADDRMAN_NEW_BUCKETS_PER_ADDRESS
               /\ i1[x].fInTried <=> RefSet(W, x) = {}
    <3>1. CASE x = n
      <4>1. i1[x].nRefCount = c + 1
        BY <3>1, <1>9
      <4>2. RefSet(W, x) # {} /\ Cardinality(RefSet(W, x)) = c + 1
        BY <3>1, <1>14, <1>15
      <4>3. i1[x].fInTried = info[x].fInTried /\ ~info[x].fInTried
        BY <3>1, <1>1, <1>3, <1>9
      <4> QED BY <4>1, <4>2, <4>3, <1>16
    <3>2. CASE x # n
      <4>1. x \in DOMAIN info /\ RefSet(W, x) = RefSet(V, x)
        BY <3>2, <1>10, <1>14, <1>17
      <4>2. i1[x].nRefCount = info[x].nRefCount /\ i1[x].fInTried = info[x].fInTried
        BY <3>2, <4>1, <1>9
      <4>3. /\ info[x].nRefCount = Cardinality(RefSet(V, x))
            /\ info[x].nRefCount <= ADDRMAN_NEW_BUCKETS_PER_ADDRESS
            /\ info[x].fInTried <=> RefSet(V, x) = {}
        BY <4>1, <1>13 DEF Counted
      <4> QED BY <4>1, <4>2, <4>3
    <3> QED BY <3>1, <3>2
  <2> QED BY <2>2, <2>3 DEF Counted
<1>19. Sound(m2, W)
  <2>1. m2.mapInfo \in [DOMAIN m2.mapInfo -> Info] /\ \A x \in DOMAIN m2.mapInfo : x \in Nat /\ x < m2.nIdCount
    BY <1>1, <1>6, <1>9, <1>10, SoundParts
  <2>2. /\ m2.nIdCount \in Nat /\ m2.nNew \in Nat /\ m2.nTried \in Nat /\ m2.nIdCount <= MaxId
        /\ Len(m2.vRandom) = m2.nNew + m2.nTried
    BY <1>6, SoundParts
  <2> QED BY <2>1, <2>2, <1>6, <1>11, <1>12, <1>18 DEF Sound
<1> QED
  BY <1>1, <1>6, <1>9, <1>10, <1>19

(* An unknown address gets an entry and its first reference. *)
LEMMA UnknownCounted ==
  ASSUME NEW m, AddrOK(m), NEW a \in Addr, NEW s \in Source, a \notin DOMAIN m.mapAddr, m.nIdCount < MaxId,
         NEW b \in NewBucket, NEW m1, Created(m, a, s, m1), NEW n, n = m1.mapAddr[a],
         NEW m2, RefAdded(m1, n, m2), NEW W, Joined(m.vvNew, b, n, W)
  PROVE  Counting(m, b, n, W, m2)
<1>a. Sound(m, m.vvNew) /\ m.vvNew \in [NewBucket -> SUBSET DOMAIN m.mapInfo]
  BY DEF AddrOK
<1>1. PICK k \in Nat : k = m.nIdCount
  BY <1>a, SoundParts
<1>2. PICK p \in Nat : p = Len(m.vRandom)
  BY <1>a, SoundParts
<1>3. PICK r0 : r0 = [addr |-> a, source |-> s, nLastSuccess |-> 0, nRefCount |-> 0,
                      fInTried |-> FALSE, nRandomPos |-> p]
  OBVIOUS
<1>4. PICK r : r = [r0 EXCEPT !.nRefCount = r0.nRefCount + 1]
  OBVIOUS
<1>5. r \in Info /\ r.addr = a /\ r.nRandomPos = p /\ ~r.fInTried /\ r.nRefCount = 1
  <2>1. /\ r0 \in [addr : Addr, source : Source, nLastSuccess : 0..MaxTime, nRefCount : Int,
                   fInTried : BOOLEAN, nRandomPos : Nat]
        /\ r0.addr = a /\ r0.nRandomPos = p /\ r0.fInTried = FALSE /\ r0.nRefCount = 0
    BY <1>3, Sizes
  <2>2. r0.nRefCount + 1 = 1
    BY <2>1
  <2>3. r = [r0 EXCEPT !.nRefCount = 1]
    BY <2>2, <1>4
  <2> QED BY <2>1, <2>3 DEF Info
<1>6. IsAddrMan(m)
  BY <1>a, SoundParts
<1>7. /\ IsAddrMan(m1) /\ m1.mapInfo = With(m.mapInfo, k, r0) /\ m1.nIdCount = k + 1
      /\ m1.mapAddr = With(m.mapAddr, a, k) /\ m1.vRandom = Append(m.vRandom, k)
      /\ m1.nTried = m.nTried /\ m1.vvTried = m.vvTried /\ m1.nNew = m.nNew + 1 /\ m1.vvNew = m.vvNew
  BY <1>1, <1>2, <1>3, <1>6 DEF IsAddrMan, Create, Created
<1>8. n = k
  BY <1>7 DEF With
<1>9. /\ IsAddrMan(m2) /\ m2.mapInfo = [m1.mapInfo EXCEPT ![n].nRefCount = @ + 1] /\ m2.nIdCount = k + 1
      /\ m2.mapAddr = m1.mapAddr /\ m2.vRandom = m1.vRandom
      /\ m2.nTried = m.nTried /\ m2.vvTried = m.vvTried /\ m2.nNew = m.nNew + 1 /\ m2.vvNew = m.vvNew
  BY <1>7 DEF IsAddrMan, RefAdded
<1>10. m2.mapInfo = With(m.mapInfo, k, r)
  <2>1. m2.mapInfo = [With(m.mapInfo, k, r0) EXCEPT ![k] = [r0 EXCEPT !.nRefCount = r0.nRefCount + 1]]
    <3>1. With(m.mapInfo, k, r0)[k] = r0
      BY DEF With
    <3> QED BY <3>1, <1>7, <1>8, <1>9
  <2>2. m2.mapInfo = [With(m.mapInfo, k, r0) EXCEPT ![k] = r]
    BY <2>1, <1>4
  <2> QED BY <2>2 DEF With
<1>11. Fresh(m, r)
  BY <1>2, <1>5 DEF Fresh
<1>12. Entered(m, r, m2)
  BY <1>1, <1>5, <1>7, <1>9, <1>10 DEF Entered
<1>13. /\ k \notin DOMAIN m.mapInfo /\ DOMAIN m2.mapInfo = DOMAIN m.mapInfo \cup {k}
       /\ \A x \in DOMAIN m.mapInfo : m2.mapInfo[x] = m.mapInfo[x]
  <2>1. /\ m.nIdCount \notin DOMAIN m.mapInfo /\ DOMAIN m2.mapInfo = DOMAIN m.mapInfo \cup {m.nIdCount}
        /\ \A x \in DOMAIN m.mapInfo : m2.mapInfo[x] = m.mapInfo[x]
    BY <1>a, <1>11, <1>12, EnteredIndexes
  <2> QED BY <2>1, <1>1
<1>14. \A x \in DOMAIN m.mapInfo : x \in Nat /\ x # n
  BY <1>a, <1>8, <1>13, SoundParts
<1>15. RefSet(m.vvNew, n) = {}
  BY <1>a, <1>8, <1>13 DEF RefSet
<1>16. RefSet(W, n) = {b} /\ \A x \in DOMAIN m.mapInfo : RefSet(W, x) = RefSet(m.vvNew, x)
  <2>1. DOMAIN m.vvNew = NewBucket
    BY <1>a
  <2>2. /\ RefSet(W, n) = RefSet(m.vvNew, n) \cup {b}
        /\ \A x \in Nat : x # n => RefSet(W, x) = RefSet(m.vvNew, x)
    BY <2>1, JoinedFacts
  <2> QED BY <2>2, <1>14, <1>15
<1>17. /\ ~r.fInTried /\ r.nRefCount = Cardinality(RefSet(W, m.nIdCount)) /\ RefSet(W, m.nIdCount) # {}
       /\ r.nRefCount <= ADDRMAN_NEW_BUCKETS_PER_ADDRESS
  <2>1. Cardinality({b}) = 1
    BY FS_Singleton
  <2> QED BY <2>1, <1>5, <1>1, <1>8, <1>16, Sizes
<1>18. Sound(m2, W)
  BY <1>a, <1>9, <1>11, <1>12, <1>16, <1>17, NewEntrySound
<1>19. n \notin m.vvNew[b]
  BY <1>a, <1>8, <1>13
<1> QED
  <2>1. \A x \in DOMAIN m.mapInfo : /\ m2.mapInfo[x].addr = m.mapInfo[x].addr
                                     /\ m2.mapInfo[x].fInTried = m.mapInfo[x].fInTried
    BY <1>13
  <2> QED BY <2>1, <1>1, <1>8, <1>9, <1>13, <1>18, <1>19 DEF Counting

LEMMA AddOK ==
  ASSUME AddrOK(am), NEW a \in Addr, NEW s \in Source, Add(a, s)
  PROVE  AddrOK(am') /\ Keeps(am, am')
<1>1. PICK b \in NewBucket : b = GetNewBucket[a][s]
  BY AddrManAssumption
<1>2. Sound(am, am.vvNew) /\ am.vvNew \in [NewBucket -> SUBSET DOMAIN am.mapInfo]
  BY DEF AddrOK
<1>3. CASE a \in DOMAIN am.mapAddr
  <2>1. PICK n : n = am.mapAddr[a]
    OBVIOUS
  <2>2. n \in DOMAIN am.mapInfo
    BY <1>2, <1>3, <2>1, SoundParts DEF AddrIndex
  <2>3. PICK m2 : RefAdded(am, n, m2)
    BY DEF RefAdded
  <2>4. /\ ~am.mapInfo[n].fInTried /\ am.mapInfo[n].nRefCount # ADDRMAN_NEW_BUCKETS_PER_ADDRESS
        /\ n \notin am.vvNew[b]
    BY <1>1, <1>3, <2>1 DEF Add
  <2>5. Inserted(m2, b, n, am')
    BY <1>1, <1>3, <2>1, <2>3 DEF Add, Inserted, RefAdded
  <2>6. PICK W : Joined(am.vvNew, b, n, W)
    BY DEF Joined
  <2>7. DOMAIN am.vvNew = NewBucket
    BY <1>2
  <2>8. /\ Sound(m2, W) /\ m2.vvNew = am.vvNew /\ m2.vvTried = am.vvTried
        /\ DOMAIN m2.mapInfo = DOMAIN am.mapInfo
        /\ \A x \in DOMAIN am.mapInfo : /\ m2.mapInfo[x].addr = am.mapInfo[x].addr
                                        /\ m2.mapInfo[x].fInTried = am.mapInfo[x].fInTried
    BY <1>2, <2>2, <2>3, <2>4, <2>6, <2>7, KnownCounted
  <2>9. DOMAIN m2.mapInfo = DOMAIN am.mapInfo \cup {n} /\ n \in Nat
    BY <1>2, <2>2, <2>8, SoundParts
  <2>10. Counting(am, b, n, W, m2)
    BY <2>4, <2>6, <2>8, <2>9 DEF Counting
  <2> QED
    BY <2>5, <2>10, InsertOK
<1>4. CASE a \notin DOMAIN am.mapAddr
  <2>1. PICK m1 : m1 = [Create(am, a, s) EXCEPT !.nNew = @ + 1]
    OBVIOUS
  <2>2. PICK n : n = m1.mapAddr[a]
    OBVIOUS
  <2>3. PICK m2 : m2 = [m1 EXCEPT !.mapInfo[n].nRefCount = @ + 1]
    OBVIOUS
  <2>a. Created(am, a, s, m1) /\ RefAdded(m1, n, m2)
    BY <2>1, <2>3 DEF Created, RefAdded
  <2>4. am.nIdCount < MaxId
    BY <1>4 DEF Add
  <2>5. Inserted(m2, b, n, am')
    <3>1. \E m3 \in IF Cardinality(m2.vvNew[b]) = ADDRMAN_NEW_BUCKET_SIZE
                      THEN {ShrinkNew(m2, b, x) : x \in m2.vvNew[b]} ELSE {m2} :
             am' = [m3 EXCEPT !.vvNew[b] = @ \cup {n}]
      BY <1>1, <1>4, <2>1, <2>2, <2>3 DEF Add
    <3> QED BY <3>1 DEF Inserted
  <2>6. PICK W : Joined(am.vvNew, b, n, W)
    BY DEF Joined
  <2>7. Counting(am, b, n, W, m2)
    BY <1>4, <2>2, <2>a, <2>4, <2>6, UnknownCounted
  <2> QED
    BY <2>5, <2>7, InsertOK
<1> QED BY <1>3, <1>4

-----------------------------------------------------------------------------
(* GetAddr_.  Least elements stand in for induction. *)
LEMMA LeastNumber ==
  ASSUME NEW S \in SUBSET Nat, S # {}
  PROVE  \E m \in S : \A n \in S : m <= n
<1> DEFINE R == OpToRel(<, Nat)
<1>1. IsWellFoundedOn(R, Nat)
  BY NatLessThanWellFounded
<1>2. \A x, y \in Nat : y < x => <<y, x>> \in R
  BY DEF OpToRel
<1> HIDE DEF R
<1>3. PICK m \in S : \A y \in S : ~(<<y, m>> \in R)
  BY <1>1, WFMin
<1>4. \A n \in S : ~(n < m)
  BY <1>2, <1>3
<1> QED
  BY <1>4

(* The loop is a well-defined recursion. *)
AreSwaps(f, m, rnd, k) ==
  f = [i \in 0..k |-> IF i = 0 THEN m ELSE SwapRandom(f[i - 1], i - 1, rnd[i])]

LEMMA SwapsExist ==
  ASSUME NEW m, NEW rnd, NEW k \in Nat
  PROVE  \E f : AreSwaps(f, m, rnd, k)
<1> USE DEF AreSwaps
<1> DEFINE Defined(c) == \E f : f = [i \in 0..c |-> IF i = 0 THEN m ELSE SwapRandom(f[i - 1], i - 1, rnd[i])]
           B == {c \in Nat : ~Defined(c)}
<1> SUFFICES ASSUME ~Defined(k) PROVE FALSE
  OBVIOUS
<1>1. PICK c \in B : \A x \in B : c <= x
  <2> HIDE DEF Defined
  <2>1. B # {} /\ B \in SUBSET Nat
    OBVIOUS
  <2> QED
    BY <2>1, LeastNumber
<1>2. c # 0
  <2> SUFFICES ASSUME c = 0 PROVE Defined(0)
    OBVIOUS
  <2> DEFINE f == [i \in 0..0 |-> m]
  <2>1. f = [i \in 0..0 |-> IF i = 0 THEN m ELSE SwapRandom(f[i - 1], i - 1, rnd[i])]
    OBVIOUS
  <2> QED
    BY <2>1
<1>3. c - 1 \in Nat /\ Defined(c - 1)
  <2> HIDE DEF Defined
  <2> QED
    BY <1>1, <1>2
<1>4. PICK f : f = [i \in 0..c - 1 |-> IF i = 0 THEN m ELSE SwapRandom(f[i - 1], i - 1, rnd[i])]
  BY <1>3
<1> DEFINE g == [i \in 0..c |-> IF i = 0 THEN m ELSE SwapRandom(f[i - 1], i - 1, rnd[i])]
<1>5. \A i \in 0..c - 1 : g[i] = f[i]
  BY <1>3, <1>4
<1>6. g = [i \in 0..c |-> IF i = 0 THEN m ELSE SwapRandom(g[i - 1], i - 1, rnd[i])]
  <2>1. \A i \in 0..c : i # 0 => i - 1 \in 0..c - 1
    BY <1>3
  <2> QED
    BY <2>1, <1>5
<1>7. Defined(c)
  <2> HIDE DEF g
  <2> QED
    BY <1>6
<1> QED
  <2> HIDE DEF Defined
  <2> QED
    BY <1>7

(* r has the entries and the tables of m, in another order of vRandom. *)
Reordered(m, r) ==
  /\ Sound(r, m.vvNew) /\ SameEntries(m.mapInfo, r.mapInfo) /\ Len(r.vRandom) = Len(m.vRandom)
  /\ r.mapAddr = m.mapAddr /\ r.vvTried = m.vvTried /\ r.vvNew = m.vvNew

LEMMA SwapReorders ==
  ASSUME NEW m, NEW e, Reordered(m, e), NEW p \in Nat, NEW q \in Nat,
         p < Len(m.vRandom), q < Len(m.vRandom)
  PROVE  Reordered(m, SwapRandom(e, p, q))
<1>1. PICK r : r = SwapRandom(e, p, q)
  OBVIOUS
<1>2. /\ Sound(e, m.vvNew) /\ SameEntries(m.mapInfo, e.mapInfo) /\ Len(e.vRandom) = Len(m.vRandom)
      /\ e.mapAddr = m.mapAddr /\ e.vvTried = m.vvTried /\ e.vvNew = m.vvNew
  BY DEF Reordered
<1>3. p < Len(e.vRandom) /\ q < Len(e.vRandom)
  BY <1>2
<1>4. /\ Sound(r, m.vvNew) /\ SameEntries(e.mapInfo, r.mapInfo)
      /\ Len(r.vRandom) = Len(e.vRandom) /\ r.nIdCount = e.nIdCount /\ r.mapAddr = e.mapAddr
      /\ r.vvTried = e.vvTried /\ r.vvNew = e.vvNew
  BY <1>1, <1>2, <1>3, SwapSound
<1>5. SameEntries(m.mapInfo, r.mapInfo)
  BY <1>2, <1>4 DEF SameEntries
<1> QED
  BY <1>1, <1>2, <1>4, <1>5 DEF Reordered

LEMMA ShuffleReorders ==
  ASSUME NEW m, Sound(m, m.vvNew), NEW k \in Nat, NEW rnd \in [1..k -> 0..(Len(m.vRandom) - 1)],
         \A i \in 1..k : rnd[i] >= i - 1
  PROVE  Reordered(m, Shuffle(m, rnd))
<1> DEFINE f == CHOOSE g : g = [i \in 0..k |-> IF i = 0 THEN m ELSE SwapRandom(g[i - 1], i - 1, rnd[i])]
<1>1. Len(rnd) = k
  OBVIOUS
<1>2. Shuffle(m, rnd) = f[k]
  BY <1>1 DEF Shuffle
<1>3. f = [i \in 0..k |-> IF i = 0 THEN m ELSE SwapRandom(f[i - 1], i - 1, rnd[i])]
  <2>1. \E g : g = [i \in 0..k |-> IF i = 0 THEN m ELSE SwapRandom(g[i - 1], i - 1, rnd[i])]
    <3>1. PICK g : AreSwaps(g, m, rnd, k)
      BY SwapsExist
    <3> QED BY <3>1 DEF AreSwaps
  <2> QED BY <2>1
<1> HIDE DEF f
<1>4. Reordered(m, f[0])
  <2>1. f[0] = m
    BY <1>3
  <2> QED BY <2>1 DEF Reordered, SameEntries
<1>5. ASSUME NEW i \in 0..k, i # 0, Reordered(m, f[i - 1])
      PROVE  Reordered(m, f[i])
  <2>1. f[i] = SwapRandom(f[i - 1], i - 1, rnd[i])
    BY <1>3, <1>5
  <2>2. Len(m.vRandom) \in Nat
    BY SoundParts
  <2>3. PICK p, q : p = i - 1 /\ q = rnd[i]
    OBVIOUS
  <2>4. p \in Nat /\ q \in Nat /\ p < Len(m.vRandom) /\ q < Len(m.vRandom)
    <3>1. i \in 1..k /\ rnd[i] \in 0..(Len(m.vRandom) - 1) /\ rnd[i] >= i - 1
      BY <1>5
    <3>2. PICK c \in Nat : c = Len(m.vRandom)
      BY <2>2
    <3>3. q \in 0..(c - 1) /\ q >= p /\ p = i - 1 /\ i \in 1..k
      BY <3>1, <3>2, <2>3
    <3>4. p \in Nat /\ q \in Nat /\ p < c /\ q < c
      BY <3>3
    <3> QED BY <3>2, <3>4
  <2>5. Reordered(m, SwapRandom(f[i - 1], p, q))
    BY <2>4, <1>5, SwapReorders
  <2> QED BY <2>1, <2>3, <2>5
<1>6. \A i \in 0..k : Reordered(m, f[i])
  <2> DEFINE B == {i \in 0..k : ~Reordered(m, f[i])}
  <2> SUFFICES ASSUME B # {} PROVE FALSE
    OBVIOUS
  <2>0. B \in SUBSET Nat
    OBVIOUS
  <2>1. PICK i \in B : \A x \in B : i <= x
    BY <2>0, LeastNumber
  <2>2. i # 0 /\ i \in 0..k /\ i - 1 \in 0..k /\ ~(i <= i - 1)
    BY <1>4, <2>1
  <2>3. Reordered(m, f[i - 1])
    BY <2>1, <2>2
  <2> QED
    BY <2>1, <2>2, <2>3, <1>5
<1> QED
  BY <1>2, <1>6

(* Another order of vRandom changes nothing else. *)
LEMMA ReorderedOK ==
  ASSUME NEW m, AddrOK(m), NEW r, Reordered(m, r)
  PROVE  AddrOK(r) /\ Keeps(m, r)
<1>1. /\ Sound(r, r.vvNew) /\ DOMAIN r.mapInfo = DOMAIN m.mapInfo
      /\ r.mapAddr = m.mapAddr /\ r.vvTried = m.vvTried /\ r.vvNew = m.vvNew
  BY DEF Reordered, SameEntries
<1>2. AddrOK(r)
  BY <1>1 DEF AddrOK
<1>3. Sound(m, m.vvNew)
  BY DEF AddrOK
<1>4. AddrIndex(m.mapInfo, m.mapAddr)
  BY <1>3, SoundParts
<1>5. Keeps(m, r)
  BY <1>1, <1>4 DEF Keeps, AddrIndex
<1> QED
  BY <1>2, <1>5

LEMMA GetAddrOK ==
  ASSUME AddrOK(am), GetAddr
  PROVE  AddrOK(am') /\ Keeps(am, am')
<1>1. PICK k : k = (ADDRMAN_GETADDR_MAX_PCT * Len(am.vRandom)) \div 100
  OBVIOUS
<1>2. Sound(am, am.vvNew)
  BY DEF AddrOK
<1>3. k > 0 /\ \E rnd \in [1..k -> 0..(Len(am.vRandom) - 1)] :
                 (\A i \in 1..k : rnd[i] >= i - 1) /\ am' = Shuffle(am, rnd)
  BY <1>1 DEF GetAddr
<1>4. k \in Nat
  <2>1. Len(am.vRandom) \in Nat
    BY <1>2, SoundParts
  <2>2. ADDRMAN_GETADDR_MAX_PCT \in Nat
    BY AddrManAssumption
  <2>3. PICK c : c = ADDRMAN_GETADDR_MAX_PCT * Len(am.vRandom)
    OBVIOUS
  <2>4. c \in Nat
    BY <2>1, <2>2, <2>3
  <2>5. c \div 100 \in Nat
    BY <2>4
  <2> QED BY <1>1, <2>3, <2>5
<1>5. PICK rnd \in [1..k -> 0..(Len(am.vRandom) - 1)] :
         (\A i \in 1..k : rnd[i] >= i - 1) /\ am' = Shuffle(am, rnd)
  BY <1>3
<1>6. Reordered(am, am')
  BY <1>2, <1>4, <1>5, ShuffleReorders
<1> QED
  BY <1>6, ReorderedOK

-----------------------------------------------------------------------------
(* Good_ sets the time of success. *)
TimeSet(m, n, t, w) == w = [m EXCEPT !.mapInfo[n].nLastSuccess = t]

LEMMA TimedSound ==
  ASSUME NEW m, NEW W, Sound(m, W), NEW n \in DOMAIN m.mapInfo, NEW t \in 1..MaxTime,
         NEW w, TimeSet(m, n, t, w)
  PROVE  /\ Sound(w, W) /\ w.mapAddr = m.mapAddr /\ w.vvTried = m.vvTried /\ w.vvNew = m.vvNew
         /\ DOMAIN w.mapInfo = DOMAIN m.mapInfo /\ w.mapInfo[n].nLastSuccess = t
         /\ w.mapInfo[n].addr = m.mapInfo[n].addr /\ w.mapInfo[n].fInTried = m.mapInfo[n].fInTried
<1>1. PICK info : info = m.mapInfo
  OBVIOUS
<1>2. /\ IsAddrMan(m) /\ info \in [DOMAIN info -> Info] /\ n \in DOMAIN info
  BY <1>1, SoundParts
<1>3. PICK i2 : i2 = [info EXCEPT ![n].nLastSuccess = t]
  OBVIOUS
<1>4. /\ IsAddrMan(w) /\ w.mapInfo = i2 /\ w.nIdCount = m.nIdCount /\ w.mapAddr = m.mapAddr
      /\ w.vRandom = m.vRandom /\ w.nTried = m.nTried /\ w.vvTried = m.vvTried
      /\ w.nNew = m.nNew /\ w.vvNew = m.vvNew
  BY <1>1, <1>2, <1>3 DEF IsAddrMan, TimeSet
<1>5. /\ DOMAIN i2 = DOMAIN info /\ i2[n] = [info[n] EXCEPT !.nLastSuccess = t]
      /\ i2 = [x \in DOMAIN info |-> i2[x]] /\ \A x \in DOMAIN info : x # n => i2[x] = info[x]
  BY <1>2, <1>3
<1>6. info[n] \in Info /\ t \in 0..MaxTime /\ t # 0
  BY <1>2, Sizes
<1>7. /\ i2[n] \in Info /\ i2[n].nLastSuccess = t /\ i2[n].addr = info[n].addr
      /\ i2[n].nRefCount = info[n].nRefCount /\ i2[n].fInTried = info[n].fInTried
      /\ i2[n].nRandomPos = info[n].nRandomPos
  BY <1>5, <1>6 DEF Info
<1>8. i2 \in [DOMAIN info -> Info]
  BY <1>2, <1>5, <1>7
<1>9. \A x \in DOMAIN info : /\ i2[x].addr = info[x].addr /\ i2[x].nRandomPos = info[x].nRandomPos
                             /\ i2[x].nRefCount = info[x].nRefCount
                             /\ i2[x].fInTried = info[x].fInTried
  BY <1>5, <1>7
<1>10. AddrIndex(i2, m.mapAddr) /\ RandIndex(i2, m.vRandom)
  <2>1. AddrIndex(info, m.mapAddr) /\ RandIndex(info, m.vRandom)
    BY <1>1, SoundParts
  <2> QED BY <2>1, <1>5, <1>9, AddrUpdate, RandUpdate
<1>11. Counted(i2, W, m.nNew)
  <2>1. Counted(info, W, m.nNew)
    BY <1>1, SoundParts
  <2> QED BY <2>1, <1>5, <1>9, CountedSame
<1>12. TriedTable(i2, m.vvTried, m.nTried)
  <2>1. TriedTable(info, m.vvTried, m.nTried)
    BY <1>1, SoundParts
  <2>2. ASSUME NEW x \in DOMAIN info, info[x].fInTried PROVE i2[x].nLastSuccess # 0
    <3>1. info[x].nLastSuccess # 0
      BY <2>1, <2>2 DEF TriedTable
    <3> QED BY <3>1, <1>5, <1>6, <1>7
  <2>3. StayTried(info, i2)
    BY <2>2, <1>5, <1>9 DEF StayTried
  <2> QED BY <2>1, <2>3, TriedSame
<1>13. Sound(w, W)
  <2>1. w.mapInfo \in [DOMAIN w.mapInfo -> Info] /\ \A x \in DOMAIN w.mapInfo : x \in Nat /\ x < w.nIdCount
    BY <1>1, <1>4, <1>5, <1>8, SoundParts
  <2>2. /\ w.nIdCount \in Nat /\ w.nNew \in Nat /\ w.nTried \in Nat /\ w.nIdCount <= MaxId
        /\ Len(w.vRandom) = w.nNew + w.nTried
    BY <1>4, SoundParts
  <2> QED BY <2>1, <2>2, <1>4, <1>10, <1>11, <1>12 DEF Sound
<1> QED
  BY <1>1, <1>4, <1>5, <1>7, <1>13

(* MakeTried: entry n has left the new table for the tried one. *)
MadeTried(info, n, i2) ==
  /\ i2 \in [DOMAIN info -> Info] /\ DOMAIN i2 = DOMAIN info
  /\ i2[n].fInTried /\ i2[n].nRefCount = 0
  /\ i2[n].addr = info[n].addr /\ i2[n].source = info[n].source
  /\ i2[n].nLastSuccess = info[n].nLastSuccess /\ i2[n].nRandomPos = info[n].nRandomPos
  /\ \A x \in DOMAIN info : x # n => i2[x] = info[x]

LEMMA MadeTriedFields ==
  ASSUME NEW info, info \in [DOMAIN info -> Info], NEW n \in DOMAIN info,
         NEW i2, i2 = [Recounted(info, n, 0) EXCEPT ![n].fInTried = TRUE]
  PROVE  MadeTried(info, n, i2)
<1>1. PICK i1 : i1 = Recounted(info, n, 0)
  OBVIOUS
<1>2. /\ DOMAIN i1 = DOMAIN info /\ i1[n] = [info[n] EXCEPT !.nRefCount = 0]
      /\ i1 = [x \in DOMAIN info |-> i1[x]] /\ \A x \in DOMAIN info : x # n => i1[x] = info[x]
  BY <1>1 DEF Recounted
<1>3. /\ DOMAIN i2 = DOMAIN info /\ i2[n] = [i1[n] EXCEPT !.fInTried = TRUE]
      /\ i2 = [x \in DOMAIN info |-> i2[x]] /\ \A x \in DOMAIN info : x # n => i2[x] = i1[x]
  BY <1>1, <1>2
<1>4. info[n] \in Info
  OBVIOUS
<1>5. /\ i1[n] \in Info /\ i1[n].nRefCount = 0 /\ i1[n].addr = info[n].addr
      /\ i1[n].source = info[n].source /\ i1[n].nLastSuccess = info[n].nLastSuccess
      /\ i1[n].nRandomPos = info[n].nRandomPos
  BY <1>2, <1>4 DEF Info
<1>6. /\ i2[n] \in Info /\ i2[n].nRefCount = 0 /\ i2[n].addr = info[n].addr /\ i2[n].fInTried
      /\ i2[n].source = info[n].source /\ i2[n].nLastSuccess = info[n].nLastSuccess
      /\ i2[n].nRandomPos = info[n].nRandomPos
  BY <1>3, <1>5 DEF Info
<1>7. i2 \in [DOMAIN info -> Info]
  <2>1. ASSUME NEW x \in DOMAIN info PROVE i2[x] \in Info
    <3>1. CASE x = n
      BY <3>1, <1>6
    <3>2. CASE x # n
      <4>1. i2[x] = i1[x] /\ i1[x] = info[x] /\ info[x] \in Info
        BY <3>2, <1>2, <1>3
      <4> QED BY <4>1
    <3> QED BY <3>1, <3>2
  <2>2. PICK j : j = i2
    OBVIOUS
  <2>3. j = [x \in DOMAIN info |-> j[x]] /\ \A x \in DOMAIN info : j[x] \in Info
    BY <2>1, <2>2, <1>3
  <2> HIDE <2>2
  <2>4. j \in [DOMAIN info -> Info]
    BY <2>3
  <2> QED BY <2>2, <2>4
<1> QED
  BY <1>2, <1>3, <1>6, <1>7 DEF MadeTried

(* The buckets without n. *)
Cleared(V, n) == [b \in NewBucket |-> V[b] \ {n}]

LEMMA ClearedRefs ==
  ASSUME NEW V, NEW n
  PROVE  RefSet(Cleared(V, n), n) = {} /\ \A x \in Nat : x # n => RefSet(Cleared(V, n), x) = RefSet(V, x)
BY DEF Cleared, RefSet

LEMMA CountedLeft ==
  ASSUME NEW info, NEW W, NEW k, Counted(info, W, k), IsFiniteSet(NewOf(info)),
         \A x \in DOMAIN info : x \in Nat, NEW n \in NewOf(info), NEW i2, MadeTried(info, n, i2)
  PROVE  Counted(i2, Cleared(W, n), k - 1)
<1>1. /\ DOMAIN i2 = DOMAIN info /\ i2[n].fInTried /\ i2[n].nRefCount = 0
      /\ \A x \in DOMAIN info : x # n => i2[x] = info[x]
  BY DEF MadeTried
<1>2. NewOf(i2) = NewOf(info) \ {n}
  BY <1>1 DEF NewOf
<1>3. k - 1 = Cardinality(NewOf(i2))
  <2>1. k = Cardinality(NewOf(info))
    BY DEF Counted
  <2> QED BY <2>1, <1>2, FS_RemoveElement
<1>4. ASSUME NEW x \in DOMAIN i2
      PROVE  /\ i2[x].nRefCount = Cardinality(RefSet(Cleared(W, n), x))
             /\ i2[x].nRefCount <= ADDRMAN_NEW_BUCKETS_PER_ADDRESS
             /\ i2[x].fInTried <=> RefSet(Cleared(W, n), x) = {}
  <2>1. CASE x = n
    <3>1. RefSet(Cleared(W, n), x) = {}
      BY <2>1, ClearedRefs
    <3> QED BY <2>1, <3>1, <1>1, FS_EmptySet, Sizes
  <2>2. CASE x # n
    <3>1. x \in DOMAIN info /\ i2[x] = info[x] /\ RefSet(Cleared(W, n), x) = RefSet(W, x)
      BY <2>2, <1>1, ClearedRefs
    <3>2. /\ info[x].nRefCount = Cardinality(RefSet(W, x))
          /\ info[x].nRefCount <= ADDRMAN_NEW_BUCKETS_PER_ADDRESS
          /\ info[x].fInTried <=> RefSet(W, x) = {}
      BY <3>1 DEF Counted
    <3> QED BY <3>1, <3>2
  <2> QED BY <2>1, <2>2
<1> QED
  BY <1>3, <1>4 DEF Counted

(* MakeTried, first part. *)
LEMMA ToTriedFields ==
  ASSUME NEW m, Sound(m, m.vvNew), NEW n \in DOMAIN m.mapInfo, NEW o, NEW w, w = ToTried(m, n, o)
  PROVE  /\ IsAddrMan(w) /\ w.mapInfo = Recounted(m.mapInfo, n, 0) /\ w.vvNew = Cleared(m.vvNew, n)
         /\ w.nIdCount = m.nIdCount /\ w.mapAddr = m.mapAddr /\ w.vRandom = m.vRandom
         /\ w.nTried = m.nTried /\ w.vvTried = m.vvTried /\ w.nNew = m.nNew - 1
<1>1. PICK c : c = m.mapInfo[n].nRefCount
  OBVIOUS
<1>2. PICK k \in Nat : k = Cardinality(RefSet(m.vvNew, n))
  BY RefSetFinite
<1>3. c = k
  <2>1. Counted(m.mapInfo, m.vvNew, m.nNew)
    BY SoundParts
  <2> QED BY <2>1, <1>1, <1>2 DEF Counted
<1>4. c - k = 0
  BY <1>3
<1>5. IsAddrMan(m)
  BY SoundParts
<1>6. /\ IsAddrMan(w) /\ w.mapInfo = Recounted(m.mapInfo, n, c - k) /\ w.vvNew = Cleared(m.vvNew, n)
      /\ w.nIdCount = m.nIdCount /\ w.mapAddr = m.mapAddr /\ w.vRandom = m.vRandom
      /\ w.nTried = m.nTried /\ w.vvTried = m.vvTried /\ w.nNew = m.nNew - 1
  BY <1>1, <1>2, <1>5 DEF IsAddrMan, ToTried, Recounted, Cleared, RefSet
<1> QED
  BY <1>4, <1>6

(* MakeTried with room in the tried bucket. *)
LEMMA PlaceSound ==
  ASSUME NEW m, Sound(m, m.vvNew), NEW n \in DOMAIN m.mapInfo, ~m.mapInfo[n].fInTried,
         m.mapInfo[n].nLastSuccess # 0, NEW o, NEW kb, kb = GetTriedBucket[m.mapInfo[n].addr],
         NEW r, r = Place(ToTried(m, n, o), n)
  PROVE  /\ Sound(r, r.vvNew) /\ r.vvNew = Cleared(m.vvNew, n) /\ r.mapAddr = m.mapAddr
         /\ DOMAIN r.mapInfo = DOMAIN m.mapInfo /\ AppendedTo(m.vvTried, kb, n, r.vvTried)
<1>1. PICK w : w = ToTried(m, n, o)
  OBVIOUS
<1>2. /\ IsAddrMan(w) /\ w.mapInfo = Recounted(m.mapInfo, n, 0) /\ w.vvNew = Cleared(m.vvNew, n)
      /\ w.nIdCount = m.nIdCount /\ w.mapAddr = m.mapAddr /\ w.vRandom = m.vRandom
      /\ w.nTried = m.nTried /\ w.vvTried = m.vvTried /\ w.nNew = m.nNew - 1
  BY <1>1, ToTriedFields
<1>3. PICK info : info = m.mapInfo
  OBVIOUS
<1>4. info \in [DOMAIN info -> Info] /\ n \in DOMAIN info
  BY <1>3, SoundParts
<1>5. PICK i2 : i2 = [Recounted(info, n, 0) EXCEPT ![n].fInTried = TRUE]
  OBVIOUS
<1>6. MadeTried(info, n, i2)
  BY <1>4, <1>5, MadeTriedFields
<1>7. w.mapInfo[n].addr = info[n].addr
  BY <1>2, <1>3, <1>4, RefFields
<1>8. /\ IsAddrMan(r) /\ r.mapInfo = i2 /\ r.vvNew = w.vvNew
      /\ r.nIdCount = w.nIdCount /\ r.mapAddr = w.mapAddr /\ r.vRandom = w.vRandom
      /\ r.nTried = w.nTried + 1 /\ r.nNew = w.nNew
      /\ r.vvTried = [w.vvTried EXCEPT ![kb] = Append(@, n)]
  BY <1>1, <1>2, <1>3, <1>5, <1>7 DEF Place, IsAddrMan
<1>9. AppendedTo(m.vvTried, kb, n, r.vvTried)
  BY <1>2, <1>8 DEF AppendedTo
<1>10. /\ i2 \in [DOMAIN info -> Info] /\ DOMAIN i2 = DOMAIN info
       /\ i2[n].fInTried /\ i2[n].nRefCount = 0 /\ i2[n].addr = info[n].addr
       /\ i2[n].nLastSuccess = info[n].nLastSuccess /\ i2[n].nRandomPos = info[n].nRandomPos
       /\ \A x \in DOMAIN info : x # n => i2[x] = info[x]
  BY <1>6 DEF MadeTried
<1>11. AddrIndex(i2, m.mapAddr) /\ RandIndex(i2, m.vRandom)
  <2>1. AddrIndex(info, m.mapAddr) /\ RandIndex(info, m.vRandom)
    BY <1>3, SoundParts
  <2>2. \A x \in DOMAIN info : i2[x].addr = info[x].addr /\ i2[x].nRandomPos = info[x].nRandomPos
    BY <1>10
  <2> QED BY <2>1, <2>2, <1>10, AddrUpdate, RandUpdate
<1>12. Counted(i2, Cleared(m.vvNew, n), m.nNew - 1)
  <2>1. Counted(info, m.vvNew, m.nNew) /\ IsFiniteSet(NewOf(info)) /\ \A x \in DOMAIN info : x \in Nat
    BY <1>3, SoundParts
  <2>2. n \in NewOf(info)
    BY <1>3 DEF NewOf
  <2> QED BY <2>1, <2>2, <1>6, CountedLeft
<1>13. TriedTable(i2, r.vvTried, m.nTried + 1)
  <2>1. TriedTable(info, m.vvTried, m.nTried) /\ IsFiniteSet(TriedOf(info)) /\ m.nTried \in Nat
    BY <1>3, SoundParts
  <2>2. i2[n].addr \in Addr /\ kb = GetTriedBucket[i2[n].addr]
    BY <1>3, <1>4, <1>10 DEF Info
  <2>3. NowTried(info, i2, n)
    BY <2>2, <1>3, <1>10 DEF NowTried
  <2> QED BY <2>1, <2>2, <2>3, <1>4, <1>9, TriedNew
<1>14. m.nNew \in Nat /\ m.nNew - 1 \in Nat
  <2>1. m.nNew = Cardinality(NewOf(info)) /\ n \in NewOf(info) /\ IsFiniteSet(NewOf(info)) /\ m.nNew \in Nat
    BY <1>3, SoundParts DEF Counted, NewOf
  <2>2. m.nNew # 0
    BY <2>1, FS_EmptySet
  <2> QED BY <2>1, <2>2
<1>15. Sound(r, r.vvNew)
  <2>1. r.mapInfo \in [DOMAIN r.mapInfo -> Info] /\ \A x \in DOMAIN r.mapInfo : x \in Nat /\ x < r.nIdCount
    BY <1>2, <1>3, <1>8, <1>10, SoundParts
  <2>2. m.nTried \in Nat /\ Len(m.vRandom) = m.nNew + m.nTried /\ m.nIdCount \in Nat /\ m.nIdCount <= MaxId
    BY SoundParts
  <2>3. r.nNew = m.nNew - 1 /\ r.nTried = m.nTried + 1 /\ Len(r.vRandom) = Len(m.vRandom)
    BY <1>2, <1>8
  <2>4. /\ r.nIdCount \in Nat /\ r.nNew \in Nat /\ r.nTried \in Nat /\ r.nIdCount <= MaxId
        /\ Len(r.vRandom) = r.nNew + r.nTried
    BY <2>2, <2>3, <1>2, <1>8, <1>14
  <2>5. Counted(r.mapInfo, r.vvNew, r.nNew) /\ TriedTable(r.mapInfo, r.vvTried, r.nTried)
    BY <2>3, <1>2, <1>8, <1>12, <1>13
  <2>6. AddrIndex(r.mapInfo, r.mapAddr) /\ RandIndex(r.mapInfo, r.vRandom)
    BY <1>2, <1>8, <1>11
  <2> QED BY <2>1, <2>4, <2>5, <2>6, <1>8 DEF Sound
<1> QED
  BY <1>2, <1>3, <1>8, <1>9, <1>10, <1>15

-----------------------------------------------------------------------------
(* SelectTried.  s has the entries of v, in another order. *)
Shuffled(v, s, D) ==
  /\ s \in Seq(D) /\ Len(s) = Len(v)
  /\ \A i, j \in 1..Len(v) : s[i] = s[j] => i = j
  /\ \A i \in 1..Len(v) : \E j \in 1..Len(v) : s[j] = v[i]
  /\ \A j \in 1..Len(v) : \E i \in 1..Len(v) : s[j] = v[i]

LEMMA ExchangeShuffled ==
  ASSUME NEW D, NEW v \in Seq(D), NEW s, Shuffled(v, s, D), NEW p \in 1..Len(v), NEW q \in 1..Len(v)
  PROVE  Shuffled(v, Exchange(s, p, q), D)
<1>1. /\ s \in Seq(D) /\ Len(s) = Len(v) /\ Len(v) \in Nat
      /\ \A i, j \in 1..Len(v) : s[i] = s[j] => i = j
      /\ \A i \in 1..Len(v) : \E j \in 1..Len(v) : s[j] = v[i]
      /\ \A j \in 1..Len(v) : \E i \in 1..Len(v) : s[j] = v[i]
  <2>1. Len(v) \in Nat
    OBVIOUS
  <2>2. Shuffled(v, s, D)
    OBVIOUS
  <2> QED
    BY ONLY <2>1, <2>2 DEF Shuffled
<1>2. PICK x, y : x = s[p] /\ y = s[q]
  OBVIOUS
<1>a. PICK c \in Nat : c = Len(v)
  BY <1>1
<1>b. p \in 1..c /\ q \in 1..c /\ s \in [1..c -> D]
  <2>1. s \in Seq(D) /\ Len(s) = c
    BY <1>1, <1>a
  <2> QED BY <2>1, <1>a
<1>3. x \in D /\ y \in D
  BY <1>2, <1>b
<1>4. PICK r : r = [s EXCEPT ![p] = y, ![q] = x]
  OBVIOUS
<1>5. /\ r \in Seq(D) /\ Len(r) = Len(v) /\ r[q] = x /\ (p # q => r[p] = y)
      /\ \A i \in 1..Len(v) : i # p /\ i # q => r[i] = s[i]
  <2>1. /\ r \in [1..c -> D] /\ r[q] = x /\ (p # q => r[p] = y)
        /\ \A i \in 1..c : i # p /\ i # q => r[i] = s[i]
    BY <1>3, <1>4, <1>b
  <2>2. r \in Seq(D) /\ Len(r) = c
    BY <2>1
  <2> QED BY <2>1, <2>2, <1>a
<1>6. r[p] = s[q] /\ r[q] = s[p]
  BY <1>2, <1>5
<1>7. ASSUME NEW i \in 1..Len(v), NEW j \in 1..Len(v), r[i] = r[j] PROVE i = j
  <2>1. PICK a \in 1..Len(v) : r[i] = s[a] /\ a = IF i = p THEN q ELSE IF i = q THEN p ELSE i
    BY <1>5, <1>6
  <2>2. PICK b \in 1..Len(v) : r[j] = s[b] /\ b = IF j = p THEN q ELSE IF j = q THEN p ELSE j
    BY <1>5, <1>6
  <2>3. a = b
    <3>1. s[a] = s[b]
      BY <1>7, <2>1, <2>2
    <3>2. \A i1, j1 \in 1..Len(v) : s[i1] = s[j1] => i1 = j1
      BY <1>1
    <3> QED BY <3>1, <3>2
  <2> QED BY <2>1, <2>2, <2>3
<1>8. ASSUME NEW i \in 1..Len(v) PROVE \E j \in 1..Len(v) : r[j] = v[i]
  <2>1. PICK a \in 1..Len(v) : s[a] = v[i]
    BY <1>1
  <2>2. PICK b \in 1..Len(v) : b = IF a = p THEN q ELSE IF a = q THEN p ELSE a
    OBVIOUS
  <2>3. r[b] = s[a]
    BY <2>2, <1>5, <1>6
  <2> QED BY <2>1, <2>3
<1>9. ASSUME NEW j \in 1..Len(v) PROVE \E i \in 1..Len(v) : r[j] = v[i]
  <2>1. PICK a \in 1..Len(v) : r[j] = s[a]
    BY <1>5, <1>6
  <2> QED BY <2>1, <1>1
<1>10. r = Exchange(s, p, q)
  BY <1>2, <1>4 DEF Exchange
<1>11. Shuffled(v, r, D)
  BY <1>5, <1>7, <1>8, <1>9 DEF Shuffled
<1> QED
  BY <1>10, <1>11

AreInspections(f, m, v, rnd, k) ==
  f = [i \in 0..k |-> IF i = 0 THEN [vTried |-> v, nOldest |-> -1, nPos |-> 0]
                      ELSE Inspect(m, rnd, i, f[i - 1])]

LEMMA InspectionsExist ==
  ASSUME NEW m, NEW v, NEW rnd, NEW k \in Nat
  PROVE  \E f : AreInspections(f, m, v, rnd, k)
<1>z. PICK z : z = [vTried |-> v, nOldest |-> -1, nPos |-> 0]
  OBVIOUS
<1> DEFINE Defined(c) == \E f : f = [i \in 0..c |-> IF i = 0 THEN z ELSE Inspect(m, rnd, i, f[i - 1])]
           B == {c \in Nat : ~Defined(c)}
<1>0. Defined(k) => \E f : AreInspections(f, m, v, rnd, k)
  BY <1>z DEF AreInspections
<1> SUFFICES ASSUME ~Defined(k) PROVE FALSE
  BY <1>0
<1>1. PICK c \in B : \A x \in B : c <= x
  <2> HIDE DEF Defined
  <2>1. B # {} /\ B \in SUBSET Nat
    OBVIOUS
  <2> QED
    BY <2>1, LeastNumber
<1>2. c # 0
  <2> SUFFICES ASSUME c = 0 PROVE Defined(0)
    OBVIOUS
  <2> DEFINE f == [i \in 0..0 |-> z]
  <2>1. f = [i \in 0..0 |-> IF i = 0 THEN z ELSE Inspect(m, rnd, i, f[i - 1])]
    OBVIOUS
  <2> QED
    BY <2>1
<1>3. c - 1 \in Nat /\ Defined(c - 1)
  <2> HIDE DEF Defined
  <2> QED
    BY <1>1, <1>2
<1>4. PICK f : f = [i \in 0..c - 1 |-> IF i = 0 THEN z ELSE Inspect(m, rnd, i, f[i - 1])]
  BY <1>3
<1> DEFINE g == [i \in 0..c |-> IF i = 0 THEN z ELSE Inspect(m, rnd, i, f[i - 1])]
<1>5. \A i \in 0..c - 1 : g[i] = f[i]
  BY <1>3, <1>4
<1>6. g = [i \in 0..c |-> IF i = 0 THEN z ELSE Inspect(m, rnd, i, g[i - 1])]
  <2>1. \A i \in 0..c : i # 0 => i - 1 \in 0..c - 1
    BY <1>3
  <2> QED
    BY <2>1, <1>5
<1>7. Defined(c)
  <2> HIDE DEF g
  <2> QED
    BY <1>6
<1> QED
  <2> HIDE DEF Defined
  <2> QED
    BY <1>7

(* Whatever SelectTried draws, it leaves the bucket's entries as they are and *)
(* chooses one of them.                                                       *)
LEMMA SelectTriedOK ==
  ASSUME NEW m, NEW D, NEW v \in Seq(D), Len(v) >= 1, \A i, j \in 1..Len(v) : v[i] = v[j] => i = j,
         NEW rnd \in Draws(v), NEW sel, sel = SelectTried(m, v, rnd)
  PROVE  Shuffled(v, sel.vTried, D) /\ sel.nPos \in 1..Len(v)
<1>1. PICK k : k = IF Len(v) < ADDRMAN_TRIED_ENTRIES_INSPECT_ON_EVICT THEN Len(v)
                   ELSE ADDRMAN_TRIED_ENTRIES_INSPECT_ON_EVICT
  OBVIOUS
<1>2. k \in Nat /\ k >= 1 /\ k <= Len(v) /\ Len(v) \in Nat
  BY <1>1, Sizes
<1>3. rnd \in [1..k -> 1..Len(v)]
  BY <1>1 DEF Draws
<1>4. Len(rnd) = k
  BY <1>2, <1>3
<1> DEFINE f == CHOOSE g : g = [i \in 0..k |-> IF i = 0 THEN [vTried |-> v, nOldest |-> -1, nPos |-> 0]
                                               ELSE Inspect(m, rnd, i, g[i - 1])]
<1>5. sel = f[k]
  BY <1>4 DEF SelectTried
<1>6. f = [i \in 0..k |-> IF i = 0 THEN [vTried |-> v, nOldest |-> -1, nPos |-> 0]
                          ELSE Inspect(m, rnd, i, f[i - 1])]
  <2>1. \E g : g = [i \in 0..k |-> IF i = 0 THEN [vTried |-> v, nOldest |-> -1, nPos |-> 0]
                                   ELSE Inspect(m, rnd, i, g[i - 1])]
    <3>1. PICK g : AreInspections(g, m, v, rnd, k)
      BY <1>2, InspectionsExist
    <3> QED BY <3>1 DEF AreInspections
  <2> QED BY <2>1
<1> HIDE DEF f
<1> DEFINE OK(i) == /\ Shuffled(v, f[i].vTried, D)
                    /\ IF i = 0 THEN f[i].nOldest = -1 ELSE f[i].nPos \in 1..Len(v)
<1>7. OK(0)
  <2>1. f[0] = [vTried |-> v, nOldest |-> -1, nPos |-> 0]
    BY <1>2, <1>6
  <2>2. Shuffled(v, v, D)
    BY DEF Shuffled
  <2> QED BY <2>1, <2>2
<1>8. ASSUME NEW i \in 0..k, i # 0, OK(i - 1) PROVE OK(i)
  <2>1. PICK e : e = f[i - 1]
    OBVIOUS
  <2>2. f[i] = Inspect(m, rnd, i, e)
    BY <1>2, <1>6, <1>8, <2>1
  <2>3. i \in 1..k /\ rnd[i] \in 1..Len(v) /\ i \in 1..Len(v)
    BY <1>2, <1>3, <1>8
  <2>4. /\ f[i].vTried = Exchange(e.vTried, rnd[i], i)
        /\ f[i].nPos = rnd[i] \/ (f[i].nPos = e.nPos /\ e.nOldest # -1)
    BY <2>2 DEF Inspect
  <2>5. Shuffled(v, e.vTried, D)
    BY <1>8, <2>1
  <2>6. Shuffled(v, f[i].vTried, D)
    BY <2>3, <2>4, <2>5, ExchangeShuffled
  <2>7. f[i].nPos \in 1..Len(v)
    <3>1. CASE f[i].nPos = rnd[i]
      BY <3>1, <2>3
    <3>2. CASE f[i].nPos = e.nPos /\ e.nOldest # -1
      BY <3>2, <1>8, <2>1
    <3> QED BY <3>1, <3>2, <2>4
  <2> QED BY <1>8, <2>6, <2>7
<1> HIDE DEF OK
<1>9. \A i \in 0..k : OK(i)
  <2> DEFINE B == {i \in 0..k : ~OK(i)}
  <2> SUFFICES ASSUME B # {} PROVE FALSE
    OBVIOUS
  <2>0. B \in SUBSET Nat
    BY <1>2
  <2>1. PICK i \in B : \A x \in B : i <= x
    BY <2>0, LeastNumber
  <2>2. i # 0 /\ i \in 0..k /\ i - 1 \in 0..k /\ ~(i <= i - 1)
    BY <1>2, <1>7, <2>1
  <2>3. OK(i - 1)
    BY <2>1, <2>2
  <2> QED
    BY <2>1, <2>2, <2>3, <1>8
<1>10. OK(k) /\ k # 0
  BY <1>2, <1>9
<1> QED
  BY <1>5, <1>10 DEF OK

-----------------------------------------------------------------------------
(* MakeTried with a full tried bucket.  The evicted entry is a new one again. *)
BackToNew(info, old, j) ==
  /\ j \in [DOMAIN info -> Info] /\ DOMAIN j = DOMAIN info
  /\ ~j[old].fInTried /\ j[old].nRefCount = 1
  /\ j[old].addr = info[old].addr /\ j[old].source = info[old].source
  /\ j[old].nLastSuccess = info[old].nLastSuccess /\ j[old].nRandomPos = info[old].nRandomPos
  /\ \A x \in DOMAIN info : x # old => j[x] = info[x]

LEMMA EvictInfo ==
  ASSUME NEW info, info \in [DOMAIN info -> Info], NEW n \in DOMAIN info, NEW old \in DOMAIN info,
         n # old, NEW i1, i1 = Recounted(info, n, 0), NEW i2, i2 = [i1 EXCEPT ![n].fInTried = TRUE],
         NEW j, j = [i1 EXCEPT ![old].fInTried = FALSE, ![old].nRefCount = 1, ![n].fInTried = TRUE]
  PROVE  MadeTried(info, n, i2) /\ BackToNew(i2, old, j)
<1>1. MadeTried(info, n, i2)
  BY MadeTriedFields
<1>2. DOMAIN i1 = DOMAIN info /\ i1 \in [DOMAIN info -> Info]
  <2>1. 0 \in Int
    OBVIOUS
  <2>2. i1 \in [DOMAIN info -> Info]
    BY <2>1, RefFields
  <2> QED BY <2>2
<1>3. PICK c : c = i1
  OBVIOUS
<1>4. PICK d : d = [c EXCEPT ![old].fInTried = FALSE, ![old].nRefCount = 1, ![n].fInTried = TRUE]
  OBVIOUS
<1>5. PICK e : e = [c EXCEPT ![n].fInTried = TRUE]
  OBVIOUS
<1>6. c \in [DOMAIN info -> Info]
  BY <1>2, <1>3
<1>7. /\ DOMAIN e = DOMAIN info /\ e[n] = [c[n] EXCEPT !.fInTried = TRUE]
      /\ \A x \in DOMAIN info : x # n => e[x] = c[x]
  BY <1>5, <1>6
<1>8. /\ DOMAIN d = DOMAIN info /\ d[n] = [c[n] EXCEPT !.fInTried = TRUE]
      /\ d = [x \in DOMAIN info |-> d[x]]
      /\ d[old] = [c[old] EXCEPT !.fInTried = FALSE, !.nRefCount = 1]
      /\ \A x \in DOMAIN info : x # n /\ x # old => d[x] = c[x]
  BY <1>4, <1>6
<1>9. c[old] \in Info /\ e[old] = c[old]
  BY <1>6, <1>7
<1>10. /\ d[old] \in Info /\ ~d[old].fInTried /\ d[old].nRefCount = 1
       /\ d[old].addr = e[old].addr /\ d[old].source = e[old].source
       /\ d[old].nLastSuccess = e[old].nLastSuccess /\ d[old].nRandomPos = e[old].nRandomPos
  <2>1. PICK u : u = [c[old] EXCEPT !.fInTried = FALSE]
    OBVIOUS
  <2>2. /\ u \in Info /\ u.fInTried = FALSE /\ u.addr = e[old].addr /\ u.source = e[old].source
        /\ u.nLastSuccess = e[old].nLastSuccess /\ u.nRandomPos = e[old].nRandomPos
    BY <2>1, <1>9 DEF Info
  <2>3. d[old] = [u EXCEPT !.nRefCount = 1]
    BY <2>1, <1>8
  <2> QED BY <2>2, <2>3 DEF Info
<1>11. \A x \in DOMAIN info : x # old => d[x] = e[x]
  BY <1>7, <1>8
<1>12. e = i2 /\ d = j
  BY <1>3, <1>4, <1>5
<1>13. e \in [DOMAIN info -> Info]
  BY <1>1, <1>12 DEF MadeTried
<1>14. d \in [DOMAIN info -> Info]
  <2>1. \A x \in DOMAIN info : d[x] \in Info
    BY <1>10, <1>11, <1>13
  <2> QED BY <2>1, <1>8
<1>15. BackToNew(e, old, d)
  BY <1>7, <1>8, <1>10, <1>11, <1>14 DEF BackToNew
<1> QED
  BY <1>1, <1>12, <1>15

LEMMA CountedBack ==
  ASSUME NEW info, NEW V, NEW k \in Nat, Counted(info, V, k), IsFiniteSet(NewOf(info)),
         \A x \in DOMAIN info : x \in Nat, NEW old \in DOMAIN info, info[old].fInTried,
         NEW j, BackToNew(info, old, j), DOMAIN V = NewBucket, NEW b \in NewBucket,
         NEW W, Joined(V, b, old, W)
  PROVE  Counted(j, W, k + 1)
<1>1. /\ DOMAIN j = DOMAIN info /\ ~j[old].fInTried /\ j[old].nRefCount = 1
      /\ \A x \in DOMAIN info : x # old => j[x] = info[x]
  BY DEF BackToNew
<1>2. NewOf(j) = NewOf(info) \cup {old} /\ old \notin NewOf(info)
  BY <1>1 DEF NewOf
<1>3. k + 1 = Cardinality(NewOf(j))
  <2>1. k = Cardinality(NewOf(info))
    BY DEF Counted
  <2> QED BY <2>1, <1>2, FS_AddElement
<1>4. RefSet(V, old) = {}
  BY DEF Counted
<1>5. RefSet(W, old) = {b} /\ \A x \in DOMAIN info : x # old => RefSet(W, x) = RefSet(V, x)
  BY <1>4, JoinedFacts
<1>6. ASSUME NEW x \in DOMAIN j
      PROVE  /\ j[x].nRefCount = Cardinality(RefSet(W, x))
             /\ j[x].nRefCount <= ADDRMAN_NEW_BUCKETS_PER_ADDRESS
             /\ j[x].fInTried <=> RefSet(W, x) = {}
  <2>1. CASE x = old
    <3>1. RefSet(W, x) = {b} /\ Cardinality({b}) = 1
      BY <2>1, <1>5, FS_Singleton
    <3>2. RefSet(W, x) # {} /\ Cardinality(RefSet(W, x)) = 1
      BY <3>1
    <3> QED BY <2>1, <3>2, <1>1, Sizes
  <2>2. CASE x # old
    <3>1. x \in DOMAIN info /\ j[x] = info[x] /\ RefSet(W, x) = RefSet(V, x)
      BY <2>2, <1>1, <1>5
    <3>2. /\ info[x].nRefCount = Cardinality(RefSet(V, x))
          /\ info[x].nRefCount <= ADDRMAN_NEW_BUCKETS_PER_ADDRESS
          /\ info[x].fInTried <=> RefSet(V, x) = {}
      BY <3>1 DEF Counted
    <3> QED BY <3>1, <3>2
  <2> QED BY <2>1, <2>2
<1> QED
  BY <1>3, <1>6 DEF Counted

(* In the tried table n takes the place of old. *)
Replaces(info, n, old, j) ==
  /\ DOMAIN j = DOMAIN info /\ n \in NewOf(info) /\ old \in TriedOf(info)
  /\ j[n].fInTried /\ j[n].nLastSuccess # 0 /\ j[n].addr = info[n].addr /\ ~j[old].fInTried
  /\ \A x \in DOMAIN info : x # n /\ x # old => j[x] = info[x]

Overwritten(vv, b, s, p, n, v2) == v2 = [vv EXCEPT ![b] = [s EXCEPT ![p] = n]]

LEMMA TriedReplaced ==
  ASSUME NEW info, info \in [DOMAIN info -> Info], NEW vv, NEW k \in Nat, TriedTable(info, vv, k),
         IsFiniteSet(TriedOf(info)), NEW n, NEW old, NEW j, Replaces(info, n, old, j),
         NEW kb, kb = GetTriedBucket[info[n].addr],
         NEW s, Shuffled(vv[kb], s, DOMAIN info), NEW p \in 1..Len(vv[kb]), s[p] = old,
         NEW v2, Overwritten(vv, kb, s, p, n, v2)
  PROVE  TriedTable(j, v2, k)
<1>1. /\ DOMAIN j = DOMAIN info /\ n \in NewOf(info) /\ old \in TriedOf(info)
      /\ j[n].fInTried /\ j[n].nLastSuccess # 0 /\ j[n].addr = info[n].addr /\ ~j[old].fInTried
      /\ \A x \in DOMAIN info : x # n /\ x # old => j[x] = info[x]
  BY DEF Replaces
<1>2. /\ n \in DOMAIN info /\ old \in DOMAIN info /\ n # old
      /\ ~info[n].fInTried /\ info[old].fInTried
  BY <1>1 DEF NewOf, TriedOf
<1>3. \A x \in DOMAIN info : info[x].addr \in Addr /\ GetTriedBucket[info[x].addr] \in TriedBucket
  BY AddrManAssumption DEF Info
<1>4. kb \in TriedBucket
  BY <1>2, <1>3
<1>5. /\ vv \in [TriedBucket -> Seq(DOMAIN info)]
      /\ \A b \in TriedBucket : \A a, c \in 1..Len(vv[b]) : vv[b][a] = vv[b][c] => a = c
      /\ \A b \in TriedBucket : \A i \in 1..Len(vv[b]) :
           info[vv[b][i]].fInTried /\ GetTriedBucket[info[vv[b][i]].addr] = b
  BY DEF TriedTable
<1>6. PICK c \in Nat : c = Len(vv[kb])
  BY <1>4, <1>5
<1>7. /\ s \in [1..c -> DOMAIN info] /\ p \in 1..c
      /\ \A a, b \in 1..c : s[a] = s[b] => a = b
      /\ \A i \in 1..c : \E a \in 1..c : s[a] = vv[kb][i]
      /\ \A a \in 1..c : \E i \in 1..c : s[a] = vv[kb][i]
  <2>1. s \in Seq(DOMAIN info) /\ Len(s) = c /\ p \in 1..c
    BY <1>6 DEF Shuffled
  <2>2. /\ \A a, b \in 1..c : s[a] = s[b] => a = b
        /\ \A i \in 1..c : \E a \in 1..c : s[a] = vv[kb][i]
        /\ \A a \in 1..c : \E i \in 1..c : s[a] = vv[kb][i]
    BY <1>6 DEF Shuffled
  <2>3. s \in [1..c -> DOMAIN info]
    BY <2>1
  <2> QED BY <2>1, <2>2, <2>3
<1>8. PICK q : q = [s EXCEPT ![p] = n]
  OBVIOUS
<1>9. q \in [1..c -> DOMAIN info] /\ q[p] = n /\ \A i \in 1..c : i # p => q[i] = s[i]
  BY <1>2, <1>7, <1>8
<1>10. q \in Seq(DOMAIN info) /\ Len(q) = c
  BY <1>9
<1>11. /\ DOMAIN v2 = TriedBucket /\ v2 = [b \in TriedBucket |-> v2[b]]
       /\ v2[kb] = q /\ \A b \in TriedBucket : b # kb => v2[b] = vv[b]
  BY <1>4, <1>5, <1>8 DEF Overwritten
<1>12. v2 \in [TriedBucket -> Seq(DOMAIN j)]
  <2>1. \A b \in TriedBucket : v2[b] \in Seq(DOMAIN j)
    BY <1>1, <1>5, <1>10, <1>11
  <2> QED BY <2>1, <1>11
<1>13. \A i \in 1..c : info[s[i]].fInTried /\ GetTriedBucket[info[s[i]].addr] = kb
  <2> SUFFICES ASSUME NEW i \in 1..c
               PROVE  info[s[i]].fInTried /\ GetTriedBucket[info[s[i]].addr] = kb
    OBVIOUS
  <2>1. PICK a \in 1..c : s[i] = vv[kb][a]
    BY <1>7
  <2>2. a \in 1..Len(vv[kb])
    BY <1>6
  <2>3. info[vv[kb][a]].fInTried /\ GetTriedBucket[info[vv[kb][a]].addr] = kb
    BY <2>2, <1>4, <1>5
  <2> QED BY <2>1, <2>3
<1>14. k = Cardinality(TriedOf(j))
  <2>1. TriedOf(j) = (TriedOf(info) \ {old}) \cup {n}
    BY <1>1, <1>2 DEF TriedOf
  <2>2. k = Cardinality(TriedOf(info))
    BY DEF TriedTable
  <2>3. /\ IsFiniteSet(TriedOf(info) \ {old}) /\ Cardinality(TriedOf(info) \ {old}) = k - 1
        /\ n \notin TriedOf(info) \ {old}
    BY <2>2, <1>1, <1>2, FS_RemoveElement DEF TriedOf
  <2>4. Cardinality((TriedOf(info) \ {old}) \cup {n}) = k - 1 + 1
    BY <2>3, FS_AddElement
  <2> QED BY <2>1, <2>4
<1>15. ASSUME NEW b \in TriedBucket, NEW i \in 1..Len(v2[b]), NEW a \in 1..Len(v2[b]), v2[b][i] = v2[b][a]
       PROVE  i = a
  <2>1. CASE b # kb
    BY <2>1, <1>5, <1>11, <1>15
  <2>2. CASE b = kb
    <3>1. i \in 1..c /\ a \in 1..c /\ q[i] = q[a]
      BY <2>2, <1>10, <1>11, <1>15
    <3>2. \A e \in 1..c : s[e] # n
      BY <1>2, <1>13
    <3>3. CASE i = p /\ a # p
      BY <3>1, <3>2, <3>3, <1>9
    <3>4. CASE i # p /\ a = p
      BY <3>1, <3>2, <3>4, <1>9
    <3>5. CASE i # p /\ a # p
      BY <3>1, <3>5, <1>7, <1>9
    <3> QED BY <3>3, <3>4, <3>5
  <2> QED BY <2>1, <2>2
<1>16. ASSUME NEW b \in TriedBucket, NEW i \in 1..Len(v2[b])
       PROVE  j[v2[b][i]].fInTried /\ GetTriedBucket[j[v2[b][i]].addr] = b
  <2>1. CASE b = kb /\ i = p
    BY <2>1, <1>1, <1>9, <1>11
  <2>2. CASE b = kb /\ i # p
    <3>1. i \in 1..c /\ v2[b][i] = s[i] /\ s[i] # old /\ s[i] \in DOMAIN info
      BY <2>2, <1>7, <1>9, <1>10, <1>11
    <3>2. info[s[i]].fInTried /\ GetTriedBucket[info[s[i]].addr] = kb
      BY <3>1, <1>13
    <3>3. s[i] # n
      BY <3>2, <1>2
    <3>4. j[s[i]] = info[s[i]]
      BY <3>1, <3>3, <1>1
    <3> QED BY <2>2, <3>1, <3>2, <3>4
  <2>3. CASE b # kb
    <3>1. i \in 1..Len(vv[b]) /\ v2[b][i] = vv[b][i] /\ vv[b][i] \in DOMAIN info
      BY <2>3, <1>5, <1>11
    <3>2. info[vv[b][i]].fInTried /\ GetTriedBucket[info[vv[b][i]].addr] = b
      BY <3>1, <1>5
    <3>3. GetTriedBucket[info[old].addr] = kb
      BY <1>7, <1>13
    <3>4. vv[b][i] # n /\ vv[b][i] # old
      BY <2>3, <3>2, <3>3, <1>2
    <3>5. j[vv[b][i]] = info[vv[b][i]]
      BY <3>1, <3>4, <1>1
    <3> QED BY <3>1, <3>2, <3>5
  <2> QED BY <2>1, <2>2, <2>3
<1>17. ASSUME NEW x \in DOMAIN j, j[x].fInTried
       PROVE  /\ j[x].nLastSuccess # 0
              /\ \E i \in 1..Len(v2[GetTriedBucket[j[x].addr]]) : v2[GetTriedBucket[j[x].addr]][i] = x
  <2>1. CASE x = n
    <3>1. p \in 1..Len(v2[kb]) /\ v2[kb][p] = n
      BY <1>7, <1>9, <1>10, <1>11
    <3> QED BY <2>1, <3>1, <1>1
  <2>2. CASE x # n
    <3>1. x \in DOMAIN info /\ x # old /\ j[x] = info[x] /\ info[x].fInTried
      BY <2>2, <1>1, <1>17
    <3>2. PICK b \in TriedBucket : b = GetTriedBucket[info[x].addr]
      BY <3>1, <1>3
    <3>3. info[x].nLastSuccess # 0 /\ \E i \in 1..Len(vv[b]) : vv[b][i] = x
      BY <3>1, <3>2 DEF TriedTable
    <3>4. PICK i \in 1..Len(vv[b]) : vv[b][i] = x
      BY <3>3
    <3>5. \E a \in 1..Len(v2[b]) : v2[b][a] = x
      <4>1. CASE b # kb
        BY <4>1, <3>4, <1>11
      <4>2. CASE b = kb
        <5>1. PICK a \in 1..c : s[a] = x
          BY <4>2, <3>4, <1>6, <1>7
        <5>2. a # p
          BY <5>1, <3>1
        <5> QED BY <4>2, <5>1, <5>2, <1>9, <1>10, <1>11
      <4> QED BY <4>1, <4>2
    <3> QED BY <3>1, <3>2, <3>3, <3>5
  <2> QED BY <2>1, <2>2
<1> QED
  BY <1>12, <1>14, <1>15, <1>16, <1>17 DEF TriedTable

(* The bucket the evicted entry goes to. *)
NewHome(m, n, o, old) ==
  LET home == GetNewBucket[m.mapInfo[old].addr][m.mapInfo[old].source]
  IN  IF Cardinality(Cleared(m.vvNew, n)[home]) < ADDRMAN_NEW_BUCKET_SIZE THEN home ELSE o

(* old is the entry SelectTried chose, r the tables after Evict, j its entries. *)
Chosen(sel, old) == old = sel.vTried[sel.nPos]
Evicted(m, n, o, sel, r) == r = Evict(ToTried(m, n, o), n, o, sel)
EvictedInfo(info, n, old, j) ==
  j = [Recounted(info, n, 0) EXCEPT ![old].fInTried = FALSE, ![old].nRefCount = 1, ![n].fInTried = TRUE]

LEMMA EvictFields ==
  ASSUME NEW m, Sound(m, m.vvNew), NEW n \in DOMAIN m.mapInfo, NEW o, NEW sel,
         NEW old \in DOMAIN m.mapInfo, Chosen(sel, old), NEW r, Evicted(m, n, o, sel, r)
  PROVE  /\ IsAddrMan(r) /\ EvictedInfo(m.mapInfo, n, old, r.mapInfo)
         /\ Joined(Cleared(m.vvNew, n), NewHome(m, n, o, old), old, r.vvNew)
         /\ Overwritten(m.vvTried, GetTriedBucket[m.mapInfo[n].addr], sel.vTried, sel.nPos, n, r.vvTried)
         /\ r.nIdCount = m.nIdCount /\ r.mapAddr = m.mapAddr /\ r.vRandom = m.vRandom
         /\ r.nTried = m.nTried /\ r.nNew = m.nNew
<1>1. PICK w : w = ToTried(m, n, o)
  OBVIOUS
<1>2. /\ IsAddrMan(w) /\ w.mapInfo = Recounted(m.mapInfo, n, 0) /\ w.vvNew = Cleared(m.vvNew, n)
      /\ w.nIdCount = m.nIdCount /\ w.mapAddr = m.mapAddr /\ w.vRandom = m.vRandom
      /\ w.nTried = m.nTried /\ w.vvTried = m.vvTried /\ w.nNew = m.nNew - 1
  BY <1>1, ToTriedFields
<1>3. PICK info : info = m.mapInfo
  OBVIOUS
<1>4. PICK i1 : i1 = Recounted(info, n, 0)
  OBVIOUS
<1>5. info \in [DOMAIN info -> Info] /\ n \in DOMAIN info /\ old \in DOMAIN info /\ 0 \in Int
  BY <1>3, SoundParts
<1>6. \A x \in DOMAIN info : i1[x].addr = info[x].addr /\ i1[x].source = info[x].source
  BY <1>4, <1>5, RefFields
<1>7. PICK kb : kb = GetTriedBucket[info[n].addr]
  OBVIOUS
<1>8. PICK b : b = NewHome(m, n, o, old)
  OBVIOUS
<1>9. PICK p : p = sel.nPos
  OBVIOUS
<1>10. PICK s : s = sel.vTried
  OBVIOUS
<1>11. w.mapInfo = i1
  BY <1>2, <1>3, <1>4
<1>12. GetTriedBucket[w.mapInfo[n].addr] = kb
  BY <1>5, <1>6, <1>7, <1>11
<1>13. GetNewBucket[w.mapInfo[old].addr][w.mapInfo[old].source] = GetNewBucket[info[old].addr][info[old].source]
  BY <1>5, <1>6, <1>11
<1>14. (IF Cardinality(w.vvNew[GetNewBucket[w.mapInfo[old].addr][w.mapInfo[old].source]]) < ADDRMAN_NEW_BUCKET_SIZE
          THEN GetNewBucket[w.mapInfo[old].addr][w.mapInfo[old].source] ELSE o) = b
  BY <1>2, <1>3, <1>8, <1>13 DEF NewHome
<1>15. r = [w EXCEPT !.mapInfo = [@ EXCEPT ![old].fInTried = FALSE, ![old].nRefCount = 1, ![n].fInTried = TRUE],
                     !.vvNew[b] = @ \cup {old}, !.nNew = @ + 1,
                     !.vvTried[kb] = [s EXCEPT ![p] = n]]
  BY <1>1, <1>9, <1>10, <1>12, <1>14 DEF Evict, Evicted, Chosen
<1>16. PICK j : j = [i1 EXCEPT ![old].fInTried = FALSE, ![old].nRefCount = 1, ![n].fInTried = TRUE]
  OBVIOUS
<1>17. PICK t : t = [s EXCEPT ![p] = n]
  OBVIOUS
<1>18. r = [w EXCEPT !.mapInfo = j, !.vvNew[b] = @ \cup {old}, !.nNew = @ + 1, !.vvTried[kb] = t]
  BY <1>11, <1>15, <1>16, <1>17
<1>19. /\ IsAddrMan(r) /\ r.mapInfo = j
       /\ r.vvNew = [w.vvNew EXCEPT ![b] = @ \cup {old}] /\ r.nNew = w.nNew + 1
       /\ r.vvTried = [w.vvTried EXCEPT ![kb] = t]
       /\ r.nIdCount = w.nIdCount /\ r.mapAddr = w.mapAddr /\ r.vRandom = w.vRandom
       /\ r.nTried = w.nTried
  BY <1>2, <1>18 DEF IsAddrMan
<1>20. Joined(Cleared(m.vvNew, n), b, old, r.vvNew)
  BY <1>2, <1>19 DEF Joined
<1>21. Overwritten(m.vvTried, kb, s, p, n, r.vvTried)
  BY <1>2, <1>17, <1>19 DEF Overwritten
<1>22. EvictedInfo(info, n, old, r.mapInfo)
  BY <1>4, <1>16, <1>19 DEF EvictedInfo
<1>23. PICK k \in Nat : k = m.nNew
  BY SoundParts
<1>24. r.nNew = k - 1 + 1
  BY <1>2, <1>19, <1>23
<1>25. r.nNew = m.nNew
  BY <1>23, <1>24
<1> QED
  BY <1>2, <1>3, <1>7, <1>8, <1>9, <1>10, <1>19, <1>20, <1>21, <1>22, <1>25

LEMMA EvictSound ==
  ASSUME NEW m, Sound(m, m.vvNew), NEW n \in DOMAIN m.mapInfo, ~m.mapInfo[n].fInTried,
         m.mapInfo[n].nLastSuccess # 0, NEW o \in NewBucket, NEW kb, kb = GetTriedBucket[m.mapInfo[n].addr],
         NEW sel, Shuffled(m.vvTried[kb], sel.vTried, DOMAIN m.mapInfo),
         sel.nPos \in 1..Len(m.vvTried[kb]), NEW old, Chosen(sel, old),
         NEW b, b = NewHome(m, n, o, old), NEW r, Evicted(m, n, o, sel, r)
  PROVE  /\ Sound(r, r.vvNew) /\ Joined(Cleared(m.vvNew, n), b, old, r.vvNew) /\ r.mapAddr = m.mapAddr
         /\ b \in NewBucket /\ DOMAIN r.mapInfo = DOMAIN m.mapInfo
         /\ old \in DOMAIN m.mapInfo /\ m.mapInfo[old].fInTried
         /\ Overwritten(m.vvTried, kb, sel.vTried, sel.nPos, n, r.vvTried) /\ kb \in TriedBucket
<1>1. PICK info : info = m.mapInfo
  OBVIOUS
<1>2. info \in [DOMAIN info -> Info] /\ n \in DOMAIN info
  BY <1>1, SoundParts
<1>3. TriedTable(info, m.vvTried, m.nTried)
  BY <1>1, SoundParts
<1>4. kb \in TriedBucket
  BY <1>1, <1>2, AddrManAssumption DEF Info
<1>5. old \in DOMAIN info /\ info[old].fInTried
  <2>1. PICK i \in 1..Len(m.vvTried[kb]) : old = m.vvTried[kb][i]
    BY DEF Shuffled, Chosen
  <2>2. m.vvTried[kb] \in Seq(DOMAIN info)
    BY <1>3, <1>4 DEF TriedTable
  <2>3. m.vvTried[kb][i] \in DOMAIN info
    BY <2>1, <2>2, ElementOfSeq
  <2>4. info[m.vvTried[kb][i]].fInTried
    BY <2>1, <1>3, <1>4 DEF TriedTable
  <2> QED BY <2>1, <2>3, <2>4
<1>6. n # old
  BY <1>1, <1>5
<1>7. b \in NewBucket
  <2>1. info[old].addr \in Addr /\ info[old].source \in Source
    BY <1>2, <1>5 DEF Info
  <2>2. GetNewBucket[info[old].addr][info[old].source] \in NewBucket
    BY <2>1, AddrManAssumption
  <2> QED BY <2>2, <1>1 DEF NewHome
<1>8. PICK j : j = r.mapInfo
  OBVIOUS
<1>9. /\ IsAddrMan(r) /\ EvictedInfo(info, n, old, j)
      /\ Joined(Cleared(m.vvNew, n), b, old, r.vvNew)
      /\ Overwritten(m.vvTried, kb, sel.vTried, sel.nPos, n, r.vvTried)
      /\ r.nIdCount = m.nIdCount /\ r.mapAddr = m.mapAddr /\ r.vRandom = m.vRandom
      /\ r.nTried = m.nTried /\ r.nNew = m.nNew
  <2>1. old \in DOMAIN m.mapInfo
    BY <1>1, <1>5
  <2>2. /\ IsAddrMan(r) /\ EvictedInfo(m.mapInfo, n, old, r.mapInfo)
        /\ Joined(Cleared(m.vvNew, n), NewHome(m, n, o, old), old, r.vvNew)
        /\ Overwritten(m.vvTried, GetTriedBucket[m.mapInfo[n].addr], sel.vTried, sel.nPos, n, r.vvTried)
        /\ r.nIdCount = m.nIdCount /\ r.mapAddr = m.mapAddr /\ r.vRandom = m.vRandom
        /\ r.nTried = m.nTried /\ r.nNew = m.nNew
    BY <2>1, EvictFields
  <2> QED BY <2>2, <1>1, <1>8
<1>10. PICK i1 : i1 = Recounted(info, n, 0)
  OBVIOUS
<1>11. PICK i2 : i2 = [i1 EXCEPT ![n].fInTried = TRUE]
  OBVIOUS
<1>12. j = [i1 EXCEPT ![old].fInTried = FALSE, ![old].nRefCount = 1, ![n].fInTried = TRUE]
  BY <1>9, <1>10 DEF EvictedInfo
<1>13. MadeTried(info, n, i2) /\ BackToNew(i2, old, j)
  BY <1>2, <1>5, <1>6, <1>10, <1>11, <1>12, EvictInfo
<1>14. /\ i2 \in [DOMAIN info -> Info] /\ DOMAIN i2 = DOMAIN info
       /\ i2[n].fInTried /\ i2[n].addr = info[n].addr
       /\ i2[n].nLastSuccess = info[n].nLastSuccess /\ i2[n].nRandomPos = info[n].nRandomPos
       /\ \A x \in DOMAIN info : x # n => i2[x] = info[x]
  BY <1>13 DEF MadeTried
<1>15. /\ j \in [DOMAIN i2 -> Info] /\ DOMAIN j = DOMAIN i2 /\ ~j[old].fInTried
       /\ j[old].addr = i2[old].addr /\ j[old].nRandomPos = i2[old].nRandomPos
       /\ \A x \in DOMAIN i2 : x # old => j[x] = i2[x]
  BY <1>13 DEF BackToNew
<1>16. DOMAIN j = DOMAIN info /\ j \in [DOMAIN info -> Info]
  BY <1>14, <1>15
<1>17. AddrIndex(j, m.mapAddr) /\ RandIndex(j, m.vRandom)
  <2>1. AddrIndex(info, m.mapAddr) /\ RandIndex(info, m.vRandom)
    BY <1>1, SoundParts
  <2>2. \A x \in DOMAIN info : i2[x].addr = info[x].addr /\ i2[x].nRandomPos = info[x].nRandomPos
    BY <1>14
  <2>3. \A x \in DOMAIN info : j[x].addr = info[x].addr /\ j[x].nRandomPos = info[x].nRandomPos
    BY <2>2, <1>14, <1>15
  <2> QED BY <2>1, <2>3, <1>16, AddrUpdate, RandUpdate
<1>18. PICK k \in Nat : k = m.nNew
  BY SoundParts
<1>19. Counted(j, r.vvNew, k)
  <2>1. Counted(info, m.vvNew, k) /\ IsFiniteSet(NewOf(info)) /\ \A x \in DOMAIN info : x \in Nat
    BY <1>1, <1>18, SoundParts
  <2>2. n \in NewOf(info)
    BY <1>1 DEF NewOf
  <2>3. Counted(i2, Cleared(m.vvNew, n), k - 1)
    BY <2>1, <2>2, <1>13, CountedLeft
  <2>4. k # 0
    <3>1. k = Cardinality(NewOf(info))
      BY <2>1 DEF Counted
    <3> QED BY <2>1, <2>2, <3>1, FS_EmptySet
  <2>5. k - 1 \in Nat /\ k - 1 + 1 = k
    BY <2>4, <1>18
  <2>6. IsFiniteSet(NewOf(i2))
    <3>1. NewOf(i2) \in SUBSET NewOf(info)
      BY <1>14 DEF NewOf
    <3> QED BY <2>1, <3>1, FS_Subset
  <2>7. DOMAIN Cleared(m.vvNew, n) = NewBucket
    BY DEF Cleared
  <2>8. old \in DOMAIN i2 /\ i2[old].fInTried /\ \A x \in DOMAIN i2 : x \in Nat
    BY <2>1, <1>5, <1>6, <1>14
  <2>9. Counted(j, r.vvNew, k - 1 + 1)
    BY <2>3, <2>5, <2>6, <2>7, <2>8, <1>7, <1>9, <1>13, CountedBack
  <2> QED BY <2>5, <2>9
<1>20. TriedTable(j, r.vvTried, m.nTried)
  <2>1. n \in NewOf(info) /\ old \in TriedOf(info)
    BY <1>1, <1>5 DEF NewOf, TriedOf
  <2>2. j[n] = i2[n] /\ \A x \in DOMAIN info : x # n /\ x # old => j[x] = info[x]
    BY <1>2, <1>6, <1>14, <1>15
  <2>3. Replaces(info, n, old, j)
    BY <2>1, <2>2, <1>1, <1>14, <1>15, <1>16 DEF Replaces
  <2>4. IsFiniteSet(TriedOf(info)) /\ m.nTried \in Nat /\ kb = GetTriedBucket[info[n].addr]
    BY <1>1, SoundParts
  <2>5. PICK vv : vv = m.vvTried
    OBVIOUS
  <2>6. PICK s : s = sel.vTried
    OBVIOUS
  <2>7. PICK p : p = sel.nPos
    OBVIOUS
  <2>8. Shuffled(vv[kb], s, DOMAIN info) /\ p \in 1..Len(vv[kb])
    BY <1>1, <2>5, <2>6, <2>7
  <2>9. s[p] = old
    BY <2>6, <2>7 DEF Chosen
  <2>10. TriedTable(info, vv, m.nTried) /\ Overwritten(vv, kb, s, p, n, r.vvTried)
    BY <1>3, <1>9, <2>5, <2>6, <2>7
  <2> QED BY <2>3, <2>4, <2>8, <2>9, <2>10, <1>2, TriedReplaced
<1>21. Sound(r, r.vvNew)
  <2>1. r.mapInfo \in [DOMAIN r.mapInfo -> Info] /\ \A x \in DOMAIN r.mapInfo : x \in Nat /\ x < r.nIdCount
    BY <1>1, <1>8, <1>9, <1>16, SoundParts
  <2>2. /\ r.nIdCount \in Nat /\ r.nNew \in Nat /\ r.nTried \in Nat /\ r.nIdCount <= MaxId
        /\ Len(r.vRandom) = r.nNew + r.nTried
    BY <1>9, SoundParts
  <2>3. Counted(r.mapInfo, r.vvNew, r.nNew) /\ TriedTable(r.mapInfo, r.vvTried, r.nTried)
    BY <1>8, <1>9, <1>18, <1>19, <1>20
  <2>4. AddrIndex(r.mapInfo, r.mapAddr) /\ RandIndex(r.mapInfo, r.vRandom)
    BY <1>8, <1>9, <1>17
  <2> QED BY <2>1, <2>2, <2>3, <2>4, <1>9 DEF Sound
<1> QED
  BY <1>1, <1>4, <1>5, <1>7, <1>8, <1>9, <1>16, <1>21

(* Leaving the new buckets keeps them bounded. *)
LEMMA ClearedBounded ==
  ASSUME NEW m, AddrOK(m), NEW n, NEW b \in NewBucket
  PROVE  /\ Cleared(m.vvNew, n)[b] = m.vvNew[b] \ {n} /\ m.vvNew[b] \in SUBSET DOMAIN m.mapInfo
         /\ IsFiniteSet(m.vvNew[b]) /\ IsFiniteSet(Cleared(m.vvNew, n)[b])
         /\ Cardinality(Cleared(m.vvNew, n)[b]) \in Nat
         /\ Cardinality(Cleared(m.vvNew, n)[b]) <= ADDRMAN_NEW_BUCKET_SIZE
         /\ n \in m.vvNew[b] => Cardinality(Cleared(m.vvNew, n)[b]) < ADDRMAN_NEW_BUCKET_SIZE
<1>1. PICK S : S = m.vvNew[b]
  OBVIOUS
<1>2. PICK T : T = Cleared(m.vvNew, n)[b]
  OBVIOUS
<1>3. S \in SUBSET DOMAIN m.mapInfo /\ Cardinality(S) <= ADDRMAN_NEW_BUCKET_SIZE
  BY <1>1 DEF AddrOK
<1>4. IsFiniteSet(DOMAIN m.mapInfo)
  BY SoundParts DEF AddrOK
<1>5. IsFiniteSet(S) /\ T = S \ {n}
  BY <1>1, <1>2, <1>3, <1>4, FS_Subset DEF Cleared
<1>6. /\ IsFiniteSet(T) /\ Cardinality(T) = IF n \in S THEN Cardinality(S) - 1 ELSE Cardinality(S)
      /\ Cardinality(S) \in Nat /\ Cardinality(T) \in Nat
  BY <1>5, FS_RemoveElement, FS_CardinalityType
<1>7. Cardinality(T) <= ADDRMAN_NEW_BUCKET_SIZE /\ (n \in S => Cardinality(T) < ADDRMAN_NEW_BUCKET_SIZE)
  BY <1>3, <1>6, Sizes
<1> QED
  BY <1>1, <1>2, <1>3, <1>5, <1>6, <1>7

Placed(m, n, o, r) == r = Place(ToTried(m, n, o), n)

LEMMA PlaceOK ==
  ASSUME NEW m, AddrOK(m), NEW n \in DOMAIN m.mapInfo, ~m.mapInfo[n].fInTried,
         m.mapInfo[n].nLastSuccess # 0, NEW o, NEW kb, kb = GetTriedBucket[m.mapInfo[n].addr],
         Len(m.vvTried[kb]) < ADDRMAN_TRIED_BUCKET_SIZE, NEW r, Placed(m, n, o, r)
  PROVE  AddrOK(r) /\ r.mapAddr = m.mapAddr
<1>1. Sound(m, m.vvNew)
  BY DEF AddrOK
<1>2. /\ Sound(r, r.vvNew) /\ r.vvNew = Cleared(m.vvNew, n) /\ r.mapAddr = m.mapAddr
      /\ DOMAIN r.mapInfo = DOMAIN m.mapInfo /\ AppendedTo(m.vvTried, kb, n, r.vvTried)
  BY <1>1, PlaceSound DEF Placed
<1>3. r.vvNew \in [NewBucket -> SUBSET DOMAIN r.mapInfo]
  <2>1. ASSUME NEW b \in NewBucket
        PROVE  Cleared(m.vvNew, n)[b] \in SUBSET DOMAIN m.mapInfo
    <3>1. Cleared(m.vvNew, n)[b] = m.vvNew[b] \ {n} /\ m.vvNew[b] \in SUBSET DOMAIN m.mapInfo
      BY ClearedBounded
    <3> QED BY <3>1
  <2> QED BY <2>1, <1>2 DEF Cleared
<1>4. \A b \in NewBucket : Cardinality(r.vvNew[b]) <= ADDRMAN_NEW_BUCKET_SIZE
  BY <1>2, ClearedBounded
<1>5. ASSUME NEW b \in TriedBucket
      PROVE  Len(r.vvTried[b]) <= ADDRMAN_TRIED_BUCKET_SIZE
  <2>1. /\ m.vvTried \in [TriedBucket -> Seq(DOMAIN m.mapInfo)]
        /\ Len(m.vvTried[b]) <= ADDRMAN_TRIED_BUCKET_SIZE
    BY <1>1, SoundParts DEF TriedTable, AddrOK
  <2>2. r.vvTried[b] = IF b = kb THEN Append(m.vvTried[b], n) ELSE m.vvTried[b]
    BY <1>2, <2>1 DEF AppendedTo
  <2>3. CASE b # kb
    BY <2>1, <2>2, <2>3
  <2>4. CASE b = kb
    <3>1. PICK s \in Seq(DOMAIN m.mapInfo) : s = m.vvTried[b]
      BY <2>1
    <3>2. Len(Append(s, n)) = Len(s) + 1 /\ Len(s) \in Nat
      BY <3>1
    <3>3. Len(s) < ADDRMAN_TRIED_BUCKET_SIZE
      BY <3>1, <2>4
    <3>4. Len(s) + 1 <= ADDRMAN_TRIED_BUCKET_SIZE
      BY <3>2, <3>3, Sizes
    <3> QED BY <2>2, <2>4, <3>1, <3>2, <3>4
  <2> QED BY <2>3, <2>4
<1> QED
  BY <1>2, <1>3, <1>4, <1>5 DEF AddrOK

LEMMA EvictOK ==
  ASSUME NEW m, AddrOK(m), NEW n \in DOMAIN m.mapInfo, ~m.mapInfo[n].fInTried,
         m.mapInfo[n].nLastSuccess # 0, NEW o \in NewBucket, n \in m.vvNew[o],
         NEW kb, kb = GetTriedBucket[m.mapInfo[n].addr],
         NEW sel, Shuffled(m.vvTried[kb], sel.vTried, DOMAIN m.mapInfo),
         sel.nPos \in 1..Len(m.vvTried[kb]), NEW r, Evicted(m, n, o, sel, r)
  PROVE  AddrOK(r) /\ r.mapAddr = m.mapAddr
<1>1. Sound(m, m.vvNew)
  BY DEF AddrOK
<1>2. PICK old : Chosen(sel, old)
  BY DEF Chosen
<1>3. PICK b : b = NewHome(m, n, o, old)
  OBVIOUS
<1>4. /\ Sound(r, r.vvNew) /\ Joined(Cleared(m.vvNew, n), b, old, r.vvNew) /\ r.mapAddr = m.mapAddr
      /\ b \in NewBucket /\ DOMAIN r.mapInfo = DOMAIN m.mapInfo
      /\ old \in DOMAIN m.mapInfo
      /\ Overwritten(m.vvTried, kb, sel.vTried, sel.nPos, n, r.vvTried) /\ kb \in TriedBucket
  BY <1>1, <1>2, <1>3, EvictSound
<1>5. PICK C : C = Cleared(m.vvNew, n)
  OBVIOUS
<1>6. DOMAIN C = NewBucket
  BY <1>5 DEF Cleared
<1>7. \A k \in NewBucket : /\ C[k] \in SUBSET DOMAIN m.mapInfo /\ IsFiniteSet(C[k])
                           /\ Cardinality(C[k]) \in Nat /\ Cardinality(C[k]) <= ADDRMAN_NEW_BUCKET_SIZE
  <2> TAKE k \in NewBucket
  <2>1. /\ C[k] = m.vvNew[k] \ {n} /\ m.vvNew[k] \in SUBSET DOMAIN m.mapInfo /\ IsFiniteSet(C[k])
        /\ Cardinality(C[k]) \in Nat /\ Cardinality(C[k]) <= ADDRMAN_NEW_BUCKET_SIZE
    BY <1>5, ClearedBounded
  <2> QED BY <2>1
<1>8. PICK W : W = r.vvNew
  OBVIOUS
<1>9. DOMAIN W = NewBucket /\ W[b] = C[b] \cup {old} /\ \A k \in NewBucket : k # b => W[k] = C[k]
  BY <1>4, <1>5, <1>6, <1>8, JoinedFacts
<1>10. \A k \in NewBucket : W[k] \in SUBSET DOMAIN r.mapInfo
  BY <1>4, <1>7, <1>9
<1>11. W = [k \in NewBucket |-> W[k]]
  BY <1>4, <1>8, <1>9 DEF Joined
<1>12. W \in [NewBucket -> SUBSET DOMAIN r.mapInfo]
  BY <1>10, <1>11
<1>13. Cardinality(C[b]) < ADDRMAN_NEW_BUCKET_SIZE
  <2>1. b = o => n \in m.vvNew[b]
    OBVIOUS
  <2>2. CASE b = o
    BY <2>1, <2>2, <1>4, <1>5, ClearedBounded
  <2>3. CASE b # o
    BY <2>3, <1>3, <1>5 DEF NewHome
  <2> QED BY <2>2, <2>3
<1>14. Cardinality(W[b]) <= ADDRMAN_NEW_BUCKET_SIZE
  <2>1. Cardinality(W[b]) = IF old \in C[b] THEN Cardinality(C[b]) ELSE Cardinality(C[b]) + 1
    BY <1>4, <1>7, <1>9, FS_AddElement
  <2>2. Cardinality(C[b]) \in Nat
    BY <1>4, <1>7
  <2> QED BY <2>1, <2>2, <1>13, Sizes
<1>15. \A k \in NewBucket : Cardinality(W[k]) <= ADDRMAN_NEW_BUCKET_SIZE
  BY <1>7, <1>9, <1>14
<1>16. ASSUME NEW k \in TriedBucket
       PROVE  Len(r.vvTried[k]) <= ADDRMAN_TRIED_BUCKET_SIZE
  <2>1. /\ m.vvTried \in [TriedBucket -> Seq(DOMAIN m.mapInfo)]
        /\ \A x \in TriedBucket : Len(m.vvTried[x]) <= ADDRMAN_TRIED_BUCKET_SIZE
    BY <1>1, SoundParts DEF TriedTable, AddrOK
  <2>2. PICK s : s = sel.vTried
    OBVIOUS
  <2>3. PICK p : p = sel.nPos
    OBVIOUS
  <2>4. r.vvTried[k] = IF k = kb THEN [s EXCEPT ![p] = n] ELSE m.vvTried[k]
    BY <1>4, <2>1, <2>2, <2>3 DEF Overwritten
  <2>5. s \in Seq(DOMAIN m.mapInfo) /\ Len(s) = Len(m.vvTried[kb])
    BY <2>2 DEF Shuffled
  <2>6. p \in 1..Len(s)
    BY <2>3, <2>5
  <2>7. Len([s EXCEPT ![p] = n]) = Len(s)
    BY <2>5, <2>6
  <2>8. CASE k # kb
    BY <2>1, <2>4, <2>8
  <2>9. CASE k = kb
    BY <2>1, <2>4, <2>5, <2>7, <2>9, <1>4
  <2> QED BY <2>8, <2>9
<1> QED
  BY <1>4, <1>8, <1>12, <1>15, <1>16 DEF AddrOK

(* Good_. *)
LEMMA GoodOK ==
  ASSUME AddrOK(am), NEW a \in Addr, NEW nTime \in 1..MaxTime, Good(a, nTime)
  PROVE  AddrOK(am') /\ Keeps(am, am')
<1>1. Sound(am, am.vvNew)
  BY DEF AddrOK
<1>2. PICK n : n = am.mapAddr[a]
  OBVIOUS
<1>3. n \in DOMAIN am.mapInfo /\ am.mapInfo[n].addr = a
  <2>1. AddrIndex(am.mapInfo, am.mapAddr)
    BY <1>1, SoundParts
  <2>2. a \in DOMAIN am.mapAddr
    BY DEF Good
  <2>3. PICK x \in DOMAIN am.mapInfo : a = am.mapInfo[x].addr
    BY <2>1, <2>2 DEF AddrIndex
  <2>4. am.mapAddr[am.mapInfo[x].addr] = x
    BY <2>1, <2>3 DEF AddrIndex
  <2> QED BY <2>3, <2>4, <1>2
<1>4. PICK m : TimeSet(am, n, nTime, m)
  BY DEF TimeSet
<1>5. /\ Sound(m, am.vvNew) /\ m.mapAddr = am.mapAddr /\ m.vvTried = am.vvTried /\ m.vvNew = am.vvNew
      /\ DOMAIN m.mapInfo = DOMAIN am.mapInfo /\ m.mapInfo[n].nLastSuccess = nTime
      /\ m.mapInfo[n].addr = am.mapInfo[n].addr /\ m.mapInfo[n].fInTried = am.mapInfo[n].fInTried
  BY <1>1, <1>3, <1>4, TimedSound
<1>6. AddrOK(m)
  BY <1>5 DEF AddrOK
<1>7. PICK v : v = am.vvTried[GetTriedBucket[a]]
  OBVIOUS
<1>8. v = m.vvTried[GetTriedBucket[m.mapInfo[n].addr]]
  BY <1>3, <1>5, <1>7
<1>9. /\ v \in Seq(DOMAIN m.mapInfo) /\ \A i, j \in 1..Len(v) : v[i] = v[j] => i = j
  <2>1. TriedTable(m.mapInfo, m.vvTried, m.nTried)
    BY <1>5, SoundParts
  <2>2. GetTriedBucket[a] \in TriedBucket
    BY AddrManAssumption
  <2>3. v = m.vvTried[GetTriedBucket[a]]
    BY <1>5, <1>7
  <2> QED BY <2>1, <2>2, <2>3 DEF TriedTable
<1>10. m.mapInfo[n].nLastSuccess # 0
  BY <1>5
<1>11. \/ am.mapInfo[n].fInTried /\ am' = m
       \/ ~am.mapInfo[n].fInTried /\ \E nOrigin \in {b \in NewBucket : n \in am.vvNew[b]} :
            \/ Len(v) < ADDRMAN_TRIED_BUCKET_SIZE /\ Placed(m, n, nOrigin, am')
            \/ Len(v) >= ADDRMAN_TRIED_BUCKET_SIZE
               /\ \E rnd \in Draws(v) :
                    Evicted(m, n, nOrigin, SelectTried(ToTried(m, n, nOrigin), v, rnd), am')
  BY <1>2, <1>4, <1>7 DEF Good, TimeSet, Placed, Evicted
<1>12. AddrOK(am') /\ am'.mapAddr = am.mapAddr
  <2>1. CASE am.mapInfo[n].fInTried /\ am' = m
    BY <2>1, <1>5, <1>6
  <2>2. CASE ~am.mapInfo[n].fInTried
    <3>1. PICK o \in NewBucket :
             /\ n \in am.vvNew[o]
             /\ \/ Len(v) < ADDRMAN_TRIED_BUCKET_SIZE /\ Placed(m, n, o, am')
                \/ Len(v) >= ADDRMAN_TRIED_BUCKET_SIZE
                   /\ \E rnd \in Draws(v) : Evicted(m, n, o, SelectTried(ToTried(m, n, o), v, rnd), am')
      BY <2>2, <1>11
    <3>2. n \in DOMAIN m.mapInfo /\ ~m.mapInfo[n].fInTried /\ n \in m.vvNew[o]
      BY <2>2, <3>1, <1>3, <1>5
    <3>3. CASE Len(v) < ADDRMAN_TRIED_BUCKET_SIZE /\ Placed(m, n, o, am')
      <4>1. Len(m.vvTried[GetTriedBucket[m.mapInfo[n].addr]]) < ADDRMAN_TRIED_BUCKET_SIZE
        BY <3>3, <1>8
      <4>2. AddrOK(am') /\ am'.mapAddr = m.mapAddr
        BY <4>1, <3>2, <3>3, <1>6, <1>10, PlaceOK
      <4> QED BY <4>2, <1>5
    <3>4. CASE Len(v) >= ADDRMAN_TRIED_BUCKET_SIZE
               /\ \E rnd \in Draws(v) : Evicted(m, n, o, SelectTried(ToTried(m, n, o), v, rnd), am')
      <4>1. PICK rnd \in Draws(v) : Evicted(m, n, o, SelectTried(ToTried(m, n, o), v, rnd), am')
        BY <3>4
      <4>2. PICK w : w = ToTried(m, n, o)
        OBVIOUS
      <4>3. PICK sel : sel = SelectTried(w, v, rnd)
        OBVIOUS
      <4>4. Len(v) >= 1
        <5>1. Len(v) \in Nat
          BY <1>9
        <5> QED BY <5>1, <3>4, Sizes
      <4>5. Shuffled(v, sel.vTried, DOMAIN m.mapInfo) /\ sel.nPos \in 1..Len(v)
        BY <4>3, <4>4, <1>9, SelectTriedOK
      <4>6. Evicted(m, n, o, sel, am')
        BY <4>1, <4>2, <4>3
      <4>7. PICK kb : kb = GetTriedBucket[m.mapInfo[n].addr]
        OBVIOUS
      <4>8. Shuffled(m.vvTried[kb], sel.vTried, DOMAIN m.mapInfo) /\ sel.nPos \in 1..Len(m.vvTried[kb])
        BY <4>5, <4>7, <1>8
      <4>9. AddrOK(am') /\ am'.mapAddr = m.mapAddr
        BY <4>6, <4>7, <4>8, <3>2, <1>6, <1>10, EvictOK
      <4> QED BY <4>9, <1>5
    <3> QED BY <3>1, <3>3, <3>4
  <2> QED BY <2>1, <2>2, <1>11
<1>13. Keeps(am, am')
  <2>1. AddrIndex(am.mapInfo, am.mapAddr)
    BY <1>1, SoundParts
  <2> QED BY <2>1, <1>12 DEF AddrIndex, Keeps
<1> QED
  BY <1>12, <1>13

-----------------------------------------------------------------------------
(* Counting along an injection. *)
LEMMA Injects ==
  ASSUME NEW S, NEW T, IsFiniteSet(T), NEW f, f \in [S -> T],
         \A x, y \in S : f[x] = f[y] => x = y
  PROVE  /\ IsFiniteSet(S) /\ Cardinality(S) <= Cardinality(T)
         /\ Cardinality(S) = Cardinality(T) => \A t \in T : \E x \in S : f[x] = t
<1>1. f \in Injection(S, T)
  BY DEF Injection, IsInjective
<1>2. /\ IsFiniteSet(S) /\ Cardinality(S) <= Cardinality(T)
      /\ Cardinality(S) = Cardinality(T) => f \in Surjection(S, T)
  BY <1>1, FS_Injection
<1> QED
  BY <1>2 DEF Surjection

(* Finitely many ids have an order: s lists those of S. *)
Lists(s, S) ==
  /\ s \in [1..Cardinality(S) -> S]
  /\ \A i, j \in 1..Cardinality(S) : i < j => s[i] < s[j]

LEMMA OrderExists ==
  ASSUME NEW S \in SUBSET Nat, IsFiniteSet(S)
  PROVE  \E s : Lists(s, S)
<1> DEFINE P(c) == \A T \in SUBSET Nat : IsFiniteSet(T) /\ Cardinality(T) = c => \E s : Lists(s, T)
           B == {c \in Nat : ~P(c)}
<1>1. Cardinality(S) \in Nat
  BY FS_CardinalityType
<1> SUFFICES ASSUME ~P(Cardinality(S)) PROVE FALSE
  OBVIOUS
<1>2. PICK c \in B : \A x \in B : c <= x
  <2> HIDE DEF P
  <2>1. B # {} /\ B \in SUBSET Nat
    BY <1>1
  <2> QED
    BY <2>1, LeastNumber
<1>3. PICK T \in SUBSET Nat : IsFiniteSet(T) /\ Cardinality(T) = c /\ ~\E s : Lists(s, T)
  BY <1>2
<1>4. c \in Nat
  BY <1>2
<1>5. T # {}
  <2> SUFFICES ASSUME T = {} PROVE Lists([i \in {} |-> 0], T)
    BY <1>3
  <2>1. 1..Cardinality(T) = {}
    BY FS_EmptySet
  <2> QED BY <2>1 DEF Lists
<1>6. PICK x \in T : \A y \in T : x <= y
  BY <1>3, <1>5, LeastNumber
<1>7. PICK R : R = T \ {x}
  OBVIOUS
<1>8. R \in SUBSET Nat /\ IsFiniteSet(R) /\ Cardinality(R) = c - 1 /\ Cardinality(R) \in Nat
  <2>1. IsFiniteSet(R) /\ Cardinality(R) = Cardinality(T) - 1
    BY <1>3, <1>6, <1>7, FS_RemoveElement
  <2>2. Cardinality(R) \in Nat
    BY <2>1, FS_CardinalityType
  <2> QED BY <2>1, <2>2, <1>3, <1>7
<1>9. c - 1 \in Nat /\ P(c - 1)
  <2> HIDE DEF P
  <2> QED BY <1>2, <1>4, <1>8
<1>10. PICK t : Lists(t, R)
  BY <1>8, <1>9
<1>11. /\ t \in [1..c - 1 -> R]
       /\ \A i, j \in 1..c - 1 : i < j => t[i] < t[j]
  BY <1>8, <1>10 DEF Lists
<1>12. PICK s : s = [i \in 1..c |-> IF i = 1 THEN x ELSE t[i - 1]]
  OBVIOUS
<1>13. \A i \in 1..c : i # 1 => i - 1 \in 1..c - 1 /\ s[i] = t[i - 1] /\ s[i] \in R
  BY <1>4, <1>11, <1>12
<1>14. 1 \in 1..c => s[1] = x
  BY <1>12
<1>15. s \in [1..c -> T]
  BY <1>6, <1>7, <1>12, <1>13
<1>16. \A y \in R : y \in Nat /\ x \in Nat /\ x < y
  BY <1>3, <1>6, <1>7
<1>17. ASSUME NEW i \in 1..c, NEW j \in 1..c, i < j PROVE s[i] < s[j]
  <2>1. j # 1
    BY <1>17
  <2>2. CASE i = 1
    BY <2>1, <2>2, <1>13, <1>14, <1>16
  <2>3. CASE i # 1
    <3>1. i - 1 \in 1..c - 1 /\ j - 1 \in 1..c - 1 /\ i - 1 < j - 1
      BY <2>1, <2>3, <1>13, <1>17
    <3>2. t[i - 1] < t[j - 1]
      BY <3>1, <1>11
    <3> QED BY <2>1, <2>3, <3>2, <1>13
  <2> QED BY <2>2, <2>3
<1>18. Lists(s, T)
  BY <1>3, <1>15, <1>17 DEF Lists
<1> QED
  BY <1>3, <1>18

LEMMA InOrderLists ==
  ASSUME NEW S \in SUBSET Nat, IsFiniteSet(S), NEW s, s = InOrder(S)
  PROVE  /\ s \in Seq(S) /\ Len(s) = Cardinality(S) /\ Len(s) \in Nat
         /\ \A i, j \in 1..Len(s) : s[i] = s[j] => i = j
         /\ \A x \in S : \E i \in 1..Len(s) : s[i] = x
<1>1. PICK c : c = Cardinality(S)
  OBVIOUS
<1>2. c \in Nat
  BY <1>1, FS_CardinalityType
<1>3. \E t \in [1..c -> S] : \A i, j \in 1..c : i < j => t[i] < t[j]
  <2>1. PICK t : Lists(t, S)
    BY OrderExists
  <2> QED BY <2>1, <1>1 DEF Lists
<1>4. s = CHOOSE t \in [1..c -> S] : \A i, j \in 1..c : i < j => t[i] < t[j]
  BY <1>1 DEF InOrder
<1>5. s \in [1..c -> S] /\ \A i, j \in 1..c : i < j => s[i] < s[j]
  BY <1>3, <1>4
<1>6. s \in Seq(S) /\ Len(s) = c
  BY <1>2, <1>5
<1>7. ASSUME NEW i \in 1..c, NEW j \in 1..c, s[i] = s[j] PROVE i = j
  <2>1. s[i] \in Nat /\ s[j] \in Nat
    BY <1>5
  <2>2. ~(i < j) /\ ~(j < i)
    BY <2>1, <1>5, <1>7
  <2> QED BY <2>2
<1>8. Cardinality(1..c) = c
  <2>1. Cardinality(1..c) = IF 1 > c THEN 0 ELSE c - 1 + 1
    BY <1>2, FS_Interval
  <2> QED BY <2>1, <1>2
<1>9. \A x \in S : \E i \in 1..c : s[i] = x
  <2>1. PICK I : I = 1..c
    OBVIOUS
  <2>2. s \in [I -> S] /\ Cardinality(I) = Cardinality(S)
    BY <2>1, <1>1, <1>5, <1>8
  <2>3. \A i, j \in I : s[i] = s[j] => i = j
    BY <2>1, <1>7
  <2>4. \A x \in S : \E i \in I : s[i] = x
    BY <2>2, <2>3, Injects
  <2> QED BY <2>1, <2>4
<1> QED
  BY <1>1, <1>2, <1>6, <1>7, <1>9

-----------------------------------------------------------------------------
(* peers.dat.  Entry(d, i) is its i-th entry, new ones first. *)
Entry(d, i) == IF i <= Len(d.new) THEN d.new[i] ELSE d.tried[i - Len(d.new)]
Entries(d) == Len(d.new) + Len(d.tried)

(* The entries of the file that go to tried bucket b. *)
TriedIn(d, b) == {i \in 1..Len(d.tried) : GetTriedBucket[d.tried[i].addr] = b}

DiskOK(d) ==
  /\ d.new \in Seq(Info) /\ d.tried \in Seq(Info) /\ Entries(d) <= MaxId
  /\ \A i, j \in 1..Entries(d) : Entry(d, i).addr = Entry(d, j).addr => i = j
  /\ d.vvNew \in [NewBucket -> SUBSET (0..Len(d.new) - 1)]
  /\ \A b \in NewBucket : Cardinality(d.vvNew[b]) <= ADDRMAN_NEW_BUCKET_SIZE
  /\ \A x \in 0..Len(d.new) - 1 :
       RefSet(d.vvNew, x) # {} /\ Cardinality(RefSet(d.vvNew, x)) <= ADDRMAN_NEW_BUCKETS_PER_ADDRESS
  /\ \A i \in 1..Len(d.tried) : d.tried[i].nLastSuccess # 0
  /\ \A b \in TriedBucket : Cardinality(TriedIn(d, b)) <= ADDRMAN_TRIED_BUCKET_SIZE

(* m after reading i entries of d: they have the ids 0 to i - 1. *)
ReadTo(d, i, m) ==
  /\ Sound(m, d.vvNew) /\ m.vvNew = d.vvNew
  /\ m.nIdCount = i /\ m.nNew + m.nTried = i
  /\ \A x : x \in DOMAIN m.mapInfo <=> x \in Nat /\ x < i
  /\ \A x \in DOMAIN m.mapInfo :
       /\ m.mapInfo[x].addr = Entry(d, x + 1).addr /\ m.mapInfo[x].source = Entry(d, x + 1).source
       /\ m.mapInfo[x].nLastSuccess = Entry(d, x + 1).nLastSuccess
       /\ m.mapInfo[x].fInTried <=> x >= Len(d.new)
  /\ \A b \in TriedBucket : Len(m.vvTried[b]) <= ADDRMAN_TRIED_BUCKET_SIZE

LEMMA DiskSizes ==
  ASSUME NEW d, DiskOK(d)
  PROVE  Len(d.new) \in Nat /\ Len(d.tried) \in Nat /\ Entries(d) \in Nat /\ Entries(d) <= MaxId
<1>1. d.new \in Seq(Info) /\ d.tried \in Seq(Info) /\ Entries(d) <= MaxId
  BY DEF DiskOK
<1>2. Len(d.new) \in Nat /\ Len(d.tried) \in Nat
  BY <1>1, LenProperties
<1>3. PICK a \in Nat : a = Len(d.new)
  BY <1>2
<1>4. PICK b \in Nat : b = Len(d.tried)
  BY <1>2
<1>5. Entries(d) = a + b
  BY <1>3, <1>4 DEF Entries
<1> QED
  BY <1>1, <1>2, <1>5

LEMMA EntryFacts ==
  ASSUME NEW d, DiskOK(d), NEW i \in 1..Entries(d)
  PROVE  /\ Entry(d, i) \in Info
         /\ i <= Len(d.new) => Entry(d, i) = d.new[i] /\ i \in 1..Len(d.new)
         /\ ~(i <= Len(d.new)) => /\ Entry(d, i) = d.tried[i - Len(d.new)] /\ i - Len(d.new) \in 1..Len(d.tried)
                                  /\ Entry(d, i).nLastSuccess # 0
<1>1. PICK c \in Nat : c = Len(d.new)
  BY DiskSizes
<1>2. PICK e \in Nat : e = Len(d.tried)
  BY DiskSizes
<1>3. i \in 1..(c + e)
  BY <1>1, <1>2 DEF Entries
<1>4. CASE i <= c
  <2>1. i \in 1..Len(d.new)
    BY <1>1, <1>3, <1>4
  <2>2. d.new \in Seq(Info)
    BY DEF DiskOK
  <2>3. d.new[i] \in Info
    BY <2>1, <2>2, ElementOfSeq
  <2> QED BY <2>1, <2>3, <1>1, <1>4 DEF Entry
<1>5. CASE ~(i <= c)
  <2>1. i - c \in 1..e
    BY <1>3, <1>5
  <2>2. d.tried \in Seq(Info) /\ d.tried[i - c].nLastSuccess # 0
    BY <2>1, <1>2 DEF DiskOK
  <2>3. d.tried[i - c] \in Info
    BY <2>1, <2>2, <1>2, ElementOfSeq
  <2> QED BY <2>1, <2>2, <2>3, <1>1, <1>2, <1>5 DEF Entry
<1> QED BY <1>4, <1>5

(* The indexes only grow: the next entry is fresh. *)
LEMMA NextFresh ==
  ASSUME NEW d, DiskOK(d), NEW i \in 1..Entries(d), NEW m, ReadTo(d, i - 1, m),
         NEW r \in Info, r.addr = Entry(d, i).addr, r.nRandomPos = i - 1
  PROVE  Fresh(m, r)
<1>1. /\ Sound(m, d.vvNew) /\ m.nIdCount = i - 1 /\ m.nNew + m.nTried = i - 1
      /\ \A x \in DOMAIN m.mapInfo : x \in Nat /\ x < i - 1
      /\ \A x \in DOMAIN m.mapInfo : m.mapInfo[x].addr = Entry(d, x + 1).addr
  BY DEF ReadTo
<1>2. i \in Nat /\ i <= Entries(d) /\ Entries(d) \in Nat /\ Entries(d) <= MaxId /\ MaxId \in Nat
  BY DiskSizes, AddrManAssumption
<1>3. m.nIdCount < MaxId
  BY <1>1, <1>2
<1>4. r.nRandomPos = Len(m.vRandom)
  BY <1>1, SoundParts
<1>5. r.addr \notin DOMAIN m.mapAddr
  <2> SUFFICES ASSUME r.addr \in DOMAIN m.mapAddr PROVE FALSE
    OBVIOUS
  <2>0. AddrIndex(m.mapInfo, m.mapAddr)
    BY <1>1, SoundParts
  <2>1. PICK x \in DOMAIN m.mapInfo : r.addr = m.mapInfo[x].addr
    BY <2>0 DEF AddrIndex
  <2>2. Entry(d, x + 1).addr = Entry(d, i).addr
    BY <2>1, <1>1
  <2>3. x + 1 \in 1..Entries(d) /\ x + 1 # i
    BY <1>1, <1>2
  <2> QED BY <2>2, <2>3 DEF DiskOK
<1> QED
  BY <1>3, <1>4, <1>5 DEF Fresh

(* What the reader makes of an entry of the file. *)
ReadAs(info, pos, tried, refs) ==
  [info EXCEPT !.nRandomPos = pos, !.fInTried = tried, !.nRefCount = refs]
IsRead(info, pos, tried, refs, r) == r = ReadAs(info, pos, tried, refs)

LEMMA ReadAsFields ==
  ASSUME NEW info \in Info, NEW pos \in Nat, NEW tried \in BOOLEAN, NEW refs \in Int,
         NEW r, IsRead(info, pos, tried, refs, r)
  PROVE  /\ r \in Info /\ r.addr = info.addr /\ r.source = info.source
         /\ r.nLastSuccess = info.nLastSuccess /\ r.nRandomPos = pos /\ r.fInTried = tried
         /\ r.nRefCount = refs
<1>1. PICK r1 : r1 = [info EXCEPT !.nRandomPos = pos]
  OBVIOUS
<1>2. /\ r1 \in Info /\ r1.addr = info.addr /\ r1.source = info.source
      /\ r1.nLastSuccess = info.nLastSuccess /\ r1.nRandomPos = pos
  BY <1>1 DEF Info
<1>3. PICK r2 : r2 = [r1 EXCEPT !.fInTried = tried]
  OBVIOUS
<1>4. /\ r2 \in Info /\ r2.addr = r1.addr /\ r2.source = r1.source
      /\ r2.nLastSuccess = r1.nLastSuccess /\ r2.nRandomPos = r1.nRandomPos /\ r2.fInTried = tried
  BY <1>2, <1>3 DEF Info
<1>5. r = [r2 EXCEPT !.nRefCount = refs]
  BY <1>1, <1>3 DEF ReadAs, IsRead
<1>6. /\ r \in Info /\ r.addr = r2.addr /\ r.source = r2.source
      /\ r.nLastSuccess = r2.nLastSuccess /\ r.nRandomPos = r2.nRandomPos /\ r.fInTried = r2.fInTried
      /\ r.nRefCount = refs
  BY <1>4, <1>5 DEF Info
<1> QED
  BY <1>2, <1>4, <1>6

(* What reading an entry leaves to show. *)
LEMMA ReadOn ==
  ASSUME NEW d, DiskOK(d), NEW i \in 1..Entries(d), NEW m, ReadTo(d, i - 1, m),
         NEW r, Fresh(m, r), NEW m2, Entered(m, r, m2), r.addr = Entry(d, i).addr,
         r.source = Entry(d, i).source, r.nLastSuccess = Entry(d, i).nLastSuccess,
         r.fInTried <=> i > Len(d.new), Sound(m2, d.vvNew), m2.vvNew = d.vvNew,
         m2.nNew + m2.nTried = i, \A b \in TriedBucket : Len(m2.vvTried[b]) <= ADDRMAN_TRIED_BUCKET_SIZE
  PROVE  ReadTo(d, i, m2)
<1>1. /\ Sound(m, d.vvNew) /\ m.nIdCount = i - 1
      /\ \A x : x \in DOMAIN m.mapInfo <=> x \in Nat /\ x < i - 1
      /\ \A x \in DOMAIN m.mapInfo :
           /\ m.mapInfo[x].addr = Entry(d, x + 1).addr /\ m.mapInfo[x].source = Entry(d, x + 1).source
           /\ m.mapInfo[x].nLastSuccess = Entry(d, x + 1).nLastSuccess
           /\ m.mapInfo[x].fInTried <=> x >= Len(d.new)
  BY DEF ReadTo
<1>2. i \in Nat /\ i # 0 /\ i - 1 + 1 = i /\ i - 1 \in Nat
  BY DiskSizes
<1>3. /\ m2.nIdCount = m.nIdCount + 1 /\ DOMAIN m2.mapInfo = DOMAIN m.mapInfo \cup {i - 1}
      /\ m2.mapInfo[i - 1] = r /\ \A x \in DOMAIN m.mapInfo : m2.mapInfo[x] = m.mapInfo[x]
  <2>1. /\ DOMAIN m2.mapInfo = DOMAIN m.mapInfo \cup {m.nIdCount}
        /\ m2.mapInfo[m.nIdCount] = r /\ \A x \in DOMAIN m.mapInfo : m2.mapInfo[x] = m.mapInfo[x]
    BY <1>1, EnteredIndexes
  <2> QED BY <2>1, <1>1 DEF Entered
<1>4. m2.nIdCount = i
  BY <1>1, <1>2, <1>3
<1>5. ASSUME NEW x PROVE x \in DOMAIN m2.mapInfo <=> x \in Nat /\ x < i
  <2>1. x \in DOMAIN m2.mapInfo <=> (x \in Nat /\ x < i - 1) \/ x = i - 1
    BY <1>1, <1>3
  <2>2. CASE x \in Nat
    BY <2>1, <2>2, <1>2
  <2>3. CASE x \notin Nat
    BY <2>1, <2>3, <1>2
  <2> QED BY <2>2, <2>3
<1>6. ASSUME NEW x \in DOMAIN m2.mapInfo
      PROVE  /\ m2.mapInfo[x].addr = Entry(d, x + 1).addr /\ m2.mapInfo[x].source = Entry(d, x + 1).source
             /\ m2.mapInfo[x].nLastSuccess = Entry(d, x + 1).nLastSuccess
             /\ m2.mapInfo[x].fInTried <=> x >= Len(d.new)
  <2>1. CASE x = i - 1
    <3>1. x + 1 = i /\ m2.mapInfo[x] = r
      BY <2>1, <1>2, <1>3
    <3>2. i > Len(d.new) <=> x >= Len(d.new)
      BY <2>1, <1>2, DiskSizes
    <3> QED BY <3>1, <3>2
  <2>2. CASE x \in DOMAIN m.mapInfo
    BY <2>2, <1>1, <1>3
  <2> QED BY <2>1, <2>2, <1>3
<1> QED
  BY <1>4, <1>5, <1>6 DEF ReadTo

LEMMA ReadNewOK ==
  ASSUME NEW d, DiskOK(d), NEW i \in 1..Entries(d), i <= Len(d.new), NEW m, ReadTo(d, i - 1, m)
  PROVE  ReadTo(d, i, ReadNew(m, d.new[i]))
<1>1. /\ Sound(m, d.vvNew) /\ m.vvNew = d.vvNew /\ m.nIdCount = i - 1 /\ m.nNew + m.nTried = i - 1
      /\ \A b \in TriedBucket : Len(m.vvTried[b]) <= ADDRMAN_TRIED_BUCKET_SIZE
  BY DEF ReadTo
<1>2. i \in Nat /\ i # 0 /\ i - 1 \in Nat /\ Len(d.new) \in Nat /\ i - 1 \in 0..Len(d.new) - 1
  BY DiskSizes
<1>3. PICK info : info = d.new[i]
  OBVIOUS
<1>4. info \in Info /\ info = Entry(d, i)
  BY <1>3, EntryFacts
<1>5. PICK refs : refs = Cardinality(RefSet(d.vvNew, i - 1))
  OBVIOUS
<1>6. RefSet(d.vvNew, i - 1) # {} /\ refs <= ADDRMAN_NEW_BUCKETS_PER_ADDRESS
  BY <1>2, <1>5 DEF DiskOK
<1>7. refs \in Int
  BY <1>5, RefSetFinite, FS_CardinalityType
<1>8. PICK r : r = ReadAs(info, i - 1, FALSE, refs)
  OBVIOUS
<1>9. /\ r \in Info /\ r.addr = info.addr /\ r.source = info.source
      /\ r.nLastSuccess = info.nLastSuccess /\ r.nRandomPos = i - 1 /\ ~r.fInTried
      /\ r.nRefCount = refs
  <2>1. PICK t \in BOOLEAN : t = FALSE
    OBVIOUS
  <2>2. IsRead(info, i - 1, t, refs, r)
    BY <2>1, <1>8 DEF IsRead
  <2>3. /\ r \in Info /\ r.addr = info.addr /\ r.source = info.source
        /\ r.nLastSuccess = info.nLastSuccess /\ r.nRandomPos = i - 1 /\ r.fInTried = t
        /\ r.nRefCount = refs
    BY <2>2, <1>2, <1>4, <1>7, ReadAsFields
  <2> QED BY <2>1, <2>3
<1>10. PICK m2 : m2 = ReadNew(m, info)
  OBVIOUS
<1>11. m2 = [m EXCEPT !.mapInfo = With(@, i - 1, r), !.mapAddr = With(@, r.addr, i - 1),
                      !.vRandom = Append(@, i - 1), !.nNew = @ + 1, !.nIdCount = @ + 1]
  <2>1. refs = Cardinality({b \in NewBucket : i - 1 \in m.vvNew[b]})
    BY <1>1, <1>5 DEF RefSet
  <2>2. m2 = [m EXCEPT !.mapInfo = With(@, m.nIdCount, ReadAs(info, m.nIdCount, FALSE,
                                     Cardinality({b \in NewBucket : m.nIdCount \in m.vvNew[b]}))),
                       !.mapAddr = With(@, info.addr, m.nIdCount),
                       !.vRandom = Append(@, m.nIdCount), !.nNew = @ + 1, !.nIdCount = @ + 1]
    BY <1>10 DEF ReadNew, ReadAs
  <2>3. m.nIdCount = i - 1 /\ info.addr = r.addr
    BY <1>1, <1>9
  <2>4. ReadAs(info, m.nIdCount, FALSE, Cardinality({b \in NewBucket : m.nIdCount \in m.vvNew[b]})) = r
    BY <2>1, <2>3, <1>8
  <2> QED BY <2>2, <2>3, <2>4
<1>12. IsAddrMan(m)
  BY <1>1, SoundParts
<1>13. /\ Entered(m, r, m2) /\ m2.nNew = m.nNew + 1 /\ m2.nTried = m.nTried
       /\ m2.vvTried = m.vvTried /\ m2.vvNew = m.vvNew
  BY <1>1, <1>11, <1>12 DEF IsAddrMan, Entered
<1>14. Fresh(m, r)
  BY <1>4, <1>9, NextFresh
<1>15. Sound(m2, d.vvNew)
  BY <1>1, <1>5, <1>6, <1>9, <1>13, <1>14, NewEntrySound
<1>16. m2.nNew + m2.nTried = i
  <2>1. m.nNew \in Nat /\ m.nTried \in Nat
    BY <1>1, SoundParts
  <2> QED BY <2>1, <1>1, <1>2, <1>13
<1>17. ~(i > Len(d.new))
  BY <1>2
<1>18. ReadTo(d, i, m2)
  BY <1>1, <1>4, <1>9, <1>13, <1>14, <1>15, <1>16, <1>17, ReadOn
<1> QED
  BY <1>3, <1>10, <1>18

(* A tried bucket has room for the next entry: a file holds no more than fit. *)
LEMMA RoomToRead ==
  ASSUME NEW d, DiskOK(d), NEW i \in 1..Entries(d), i > Len(d.new), NEW m, ReadTo(d, i - 1, m),
         NEW kb, kb = GetTriedBucket[Entry(d, i).addr]
  PROVE  /\ kb \in TriedBucket /\ m.vvTried[kb] \in Seq(DOMAIN m.mapInfo)
         /\ Len(m.vvTried[kb]) < ADDRMAN_TRIED_BUCKET_SIZE
<1>1. PICK c \in Nat : c = Len(d.new)
  BY DiskSizes
<1>2. PICK e \in Nat : e = Len(d.tried)
  BY DiskSizes
<1>3. i \in 1..(c + e) /\ i > c /\ Entries(d) = c + e
  BY <1>1, <1>2 DEF Entries
<1>4. /\ Sound(m, d.vvNew)
      /\ \A x : x \in DOMAIN m.mapInfo <=> x \in Nat /\ x < i - 1
      /\ \A x \in DOMAIN m.mapInfo : m.mapInfo[x].addr = Entry(d, x + 1).addr
                                     /\ (m.mapInfo[x].fInTried <=> x >= c)
  BY <1>1 DEF ReadTo
<1>5. kb \in TriedBucket
  BY EntryFacts, AddrManAssumption DEF Info
<1>6. PICK v : v = m.vvTried[kb]
  OBVIOUS
<1>7. /\ v \in Seq(DOMAIN m.mapInfo) /\ \A a, b \in 1..Len(v) : v[a] = v[b] => a = b
      /\ \A a \in 1..Len(v) : m.mapInfo[v[a]].fInTried /\ GetTriedBucket[m.mapInfo[v[a]].addr] = kb
  <2>1. TriedTable(m.mapInfo, m.vvTried, m.nTried)
    BY <1>4, SoundParts
  <2>2. PICK vv : vv = m.vvTried
    OBVIOUS
  <2>3. PICK j : j = m.mapInfo
    OBVIOUS
  <2>4. TriedTable(j, vv, m.nTried) /\ v = vv[kb]
    BY <2>1, <2>2, <2>3, <1>6
  <2>5. v \in Seq(DOMAIN j)
    BY <2>4, <1>5 DEF TriedTable
  <2>6. \A a, b \in 1..Len(v) : v[a] = v[b] => a = b
    BY <2>4, <1>5 DEF TriedTable
  <2>7. \A a \in 1..Len(v) : j[v[a]].fInTried /\ GetTriedBucket[j[v[a]].addr] = kb
    BY <2>4, <1>5 DEF TriedTable
  <2> QED BY <2>3, <2>5, <2>6, <2>7
<1>8. PICK T : T = TriedIn(d, kb)
  OBVIOUS
<1>9. IsFiniteSet(T) /\ Cardinality(T) <= ADDRMAN_TRIED_BUCKET_SIZE
  <2>1. IsFiniteSet(1..e)
    BY FS_Interval
  <2>2. T \in SUBSET (1..e)
    BY <1>2, <1>8 DEF TriedIn
  <2>3. Cardinality(T) <= ADDRMAN_TRIED_BUCKET_SIZE
    BY <1>5, <1>8 DEF DiskOK
  <2> QED BY <2>1, <2>2, <2>3, FS_Subset
<1>10. i - c \in T
  <2>1. i - c \in 1..e /\ ~(i <= c)
    BY <1>3
  <2>2. Entry(d, i) = d.tried[i - c]
    BY <2>1, <1>1 DEF Entry
  <2> QED BY <2>1, <2>2, <1>2, <1>8 DEF TriedIn
<1>11. PICK U : U = T \ {i - c}
  OBVIOUS
<1>12. IsFiniteSet(U) /\ Cardinality(U) = Cardinality(T) - 1 /\ Cardinality(T) \in Nat
  BY <1>9, <1>10, <1>11, FS_RemoveElement, FS_CardinalityType
<1>13. PICK f : f = [a \in 1..Len(v) |-> v[a] + 1 - c]
  OBVIOUS
<1>14. ASSUME NEW a \in 1..Len(v) PROVE f[a] \in U /\ v[a] \in Nat
  <2>1. v[a] \in DOMAIN m.mapInfo
    BY <1>7, ElementOfSeq
  <2>2. PICK x : x = v[a]
    OBVIOUS
  <2>3. x \in Nat /\ x < i - 1 /\ x >= c
    BY <2>1, <2>2, <1>4, <1>7
  <2>4. x + 1 - c \in 1..e /\ x + 1 - c # i - c /\ ~(x + 1 <= c)
    BY <2>3, <1>3
  <2>5. Entry(d, x + 1) = d.tried[x + 1 - c]
    <3>1. PICK y : y = x + 1
      OBVIOUS
    <3>2. ~(y <= c)
      BY <3>1, <2>4
    <3>3. Entry(d, y) = d.tried[y - c]
      BY <3>2, <1>1 DEF Entry
    <3>4. y - c = x + 1 - c
      BY <3>1, <2>3
    <3> QED BY <3>1, <3>3, <3>4
  <2>6. GetTriedBucket[Entry(d, x + 1).addr] = kb
    BY <2>1, <2>2, <1>4, <1>7
  <2>7. x + 1 - c \in T
    BY <2>4, <2>5, <2>6, <1>2, <1>8 DEF TriedIn
  <2> QED BY <2>2, <2>3, <2>4, <2>7, <1>11, <1>13
<1>15. f \in [1..Len(v) -> U]
  BY <1>13, <1>14
<1>16. \A a, b \in 1..Len(v) : f[a] = f[b] => a = b
  <2> TAKE a, b \in 1..Len(v)
  <2>1. v[a] \in Nat /\ v[b] \in Nat /\ f[a] = v[a] + 1 - c /\ f[b] = v[b] + 1 - c
    BY <1>13, <1>14
  <2>2. f[a] = f[b] => v[a] = v[b]
    BY <2>1
  <2> QED BY <2>2, <1>7
<1>17. Len(v) \in Nat
  BY <1>7
<1>18. PICK S : S = 1..Len(v)
  OBVIOUS
<1>19. Cardinality(S) = Len(v)
  <2>1. PICK k \in Nat : k = Len(v)
    BY <1>17
  <2>2. Cardinality(1..k) = IF 1 > k THEN 0 ELSE k - 1 + 1
    BY FS_Interval
  <2>3. Cardinality(1..k) = k
    BY <2>2
  <2> QED BY <2>1, <2>3, <1>18
<1>20. Cardinality(S) <= Cardinality(U)
  BY <1>12, <1>15, <1>16, <1>18, Injects
<1>21. Len(v) < ADDRMAN_TRIED_BUCKET_SIZE
  <2>1. Len(v) <= Cardinality(T) - 1
    BY <1>12, <1>19, <1>20
  <2> QED BY <2>1, <1>9, <1>12, <1>17, Sizes
<1> QED
  BY <1>5, <1>6, <1>7, <1>21

LEMMA ReadTriedOK ==
  ASSUME NEW d, DiskOK(d), NEW i \in 1..Entries(d), i > Len(d.new), NEW m, ReadTo(d, i - 1, m)
  PROVE  ReadTo(d, i, ReadTried(m, d.tried[i - Len(d.new)]))
<1>1. /\ Sound(m, d.vvNew) /\ m.vvNew = d.vvNew /\ m.nIdCount = i - 1 /\ m.nNew + m.nTried = i - 1
      /\ \A b \in TriedBucket : Len(m.vvTried[b]) <= ADDRMAN_TRIED_BUCKET_SIZE
  BY DEF ReadTo
<1>2. i \in Nat /\ i # 0 /\ i - 1 \in Nat /\ Len(d.new) \in Nat /\ ~(i <= Len(d.new)) /\ i - 1 >= Len(d.new)
  BY DiskSizes
<1>3. PICK info : info = d.tried[i - Len(d.new)]
  OBVIOUS
<1>4. info \in Info /\ info = Entry(d, i) /\ info.nLastSuccess # 0
  BY <1>2, <1>3, EntryFacts
<1>5. PICK kb : kb = GetTriedBucket[info.addr]
  OBVIOUS
<1>6. /\ kb \in TriedBucket /\ m.vvTried[kb] \in Seq(DOMAIN m.mapInfo)
      /\ Len(m.vvTried[kb]) < ADDRMAN_TRIED_BUCKET_SIZE
  BY <1>4, <1>5, RoomToRead
<1>7. PICK r : r = ReadAs(info, i - 1, TRUE, 0)
  OBVIOUS
<1>8. /\ r \in Info /\ r.addr = info.addr /\ r.source = info.source
      /\ r.nLastSuccess = info.nLastSuccess /\ r.nRandomPos = i - 1 /\ r.fInTried
      /\ r.nRefCount = 0
  <2>1. PICK t \in BOOLEAN : t = TRUE
    OBVIOUS
  <2>2. PICK z \in Int : z = 0
    OBVIOUS
  <2>3. IsRead(info, i - 1, t, z, r)
    BY <2>1, <2>2, <1>7 DEF IsRead
  <2>4. /\ r \in Info /\ r.addr = info.addr /\ r.source = info.source
        /\ r.nLastSuccess = info.nLastSuccess /\ r.nRandomPos = i - 1 /\ r.fInTried = t
        /\ r.nRefCount = z
    BY <2>3, <1>2, <1>4, ReadAsFields
  <2> QED BY <2>1, <2>2, <2>4
<1>9. PICK m2 : m2 = ReadTried(m, info)
  OBVIOUS
<1>10. Len(m.vRandom) = i - 1
  BY <1>1, SoundParts
<1>11. m2 = [m EXCEPT !.mapInfo = With(@, i - 1, r), !.mapAddr = With(@, r.addr, i - 1),
                      !.vRandom = Append(@, i - 1), !.vvTried[kb] = Append(@, i - 1),
                      !.nTried = @ + 1, !.nIdCount = @ + 1]
  <2>1. ~(Len(m.vvTried[kb]) >= ADDRMAN_TRIED_BUCKET_SIZE)
    <3>1. Len(m.vvTried[kb]) \in Nat
      BY <1>6
    <3> QED BY <3>1, <1>6, Sizes
  <2>2. m2 = [m EXCEPT !.mapInfo = With(@, m.nIdCount, ReadAs(info, Len(m.vRandom), TRUE, 0)),
                       !.mapAddr = With(@, info.addr, m.nIdCount),
                       !.vRandom = Append(@, m.nIdCount), !.vvTried[kb] = Append(@, m.nIdCount),
                       !.nTried = @ + 1, !.nIdCount = @ + 1]
    BY <2>1, <1>5, <1>9 DEF ReadTried, ReadAs
  <2>3. m.nIdCount = i - 1 /\ info.addr = r.addr /\ ReadAs(info, Len(m.vRandom), TRUE, 0) = r
    BY <1>1, <1>7, <1>8, <1>10
  <2> QED BY <2>2, <2>3
<1>12. IsAddrMan(m)
  BY <1>1, SoundParts
<1>13. /\ Entered(m, r, m2) /\ m2.nNew = m.nNew /\ m2.nTried = m.nTried + 1
       /\ m2.vvTried = [m.vvTried EXCEPT ![kb] = Append(@, m.nIdCount)] /\ m2.vvNew = m.vvNew
  BY <1>1, <1>11, <1>12 DEF IsAddrMan, Entered
<1>14. Fresh(m, r)
  BY <1>4, <1>8, NextFresh
<1>15. RefSet(d.vvNew, m.nIdCount) = {}
  <2>1. d.vvNew \in [NewBucket -> SUBSET (0..Len(d.new) - 1)]
    BY DEF DiskOK
  <2>2. i - 1 \notin 0..Len(d.new) - 1
    BY <1>2
  <2> QED BY <2>1, <2>2, <1>1 DEF RefSet
<1>16. kb = GetTriedBucket[r.addr] /\ r.nLastSuccess # 0
  BY <1>4, <1>5, <1>8
<1>17. Sound(m2, d.vvNew)
  BY <1>1, <1>8, <1>13, <1>14, <1>15, <1>16, TriedEntrySound
<1>18. m2.nNew + m2.nTried = i
  <2>1. m.nNew \in Nat /\ m.nTried \in Nat
    BY <1>1, SoundParts
  <2> QED BY <2>1, <1>1, <1>2, <1>13
<1>19. ASSUME NEW b \in TriedBucket
       PROVE  Len(m2.vvTried[b]) <= ADDRMAN_TRIED_BUCKET_SIZE
  <2>1. m.vvTried \in [TriedBucket -> Seq(DOMAIN m.mapInfo)]
    BY <1>1, SoundParts DEF TriedTable
  <2>2. m2.vvTried[b] = IF b = kb THEN Append(m.vvTried[kb], m.nIdCount) ELSE m.vvTried[b]
    BY <2>1, <1>13
  <2>3. CASE b # kb
    BY <2>2, <2>3, <1>1
  <2>4. CASE b = kb
    <3>1. PICK s : s = m.vvTried[kb]
      OBVIOUS
    <3>2. s \in Seq(DOMAIN m.mapInfo) /\ Len(s) < ADDRMAN_TRIED_BUCKET_SIZE
      BY <3>1, <1>6
    <3>3. Len(Append(s, m.nIdCount)) = Len(s) + 1 /\ Len(s) \in Nat
      BY <3>2, AppendProperties, LenProperties
    <3>4. Len(s) + 1 <= ADDRMAN_TRIED_BUCKET_SIZE
      BY <3>2, <3>3, Sizes
    <3> QED BY <2>2, <2>4, <3>1, <3>3, <3>4
  <2> QED BY <2>3, <2>4
<1>20. r.fInTried <=> i > Len(d.new)
  BY <1>8
<1>21. ReadTo(d, i, m2)
  BY <1>1, <1>4, <1>8, <1>13, <1>14, <1>17, <1>18, <1>19, <1>20, ReadOn
<1> QED
  BY <1>3, <1>9, <1>21

(* The tables the reader starts from. *)
Started(V, m) == m = [Empty EXCEPT !.vvNew = V]

LEMMA EmptySound ==
  ASSUME NEW V, NEW m, Started(V, m)
  PROVE  /\ Sound(m, V) /\ m.vvNew = V /\ m.nIdCount = 0 /\ m.nNew = 0 /\ m.nTried = 0
         /\ DOMAIN m.mapInfo = {} /\ \A b \in TriedBucket : Len(m.vvTried[b]) = 0
<1>1. PICK e : e = << >>
  OBVIOUS
<1>2. /\ IsAddrMan(m) /\ m.vvNew = V /\ m.nIdCount = 0 /\ m.nNew = 0 /\ m.nTried = 0
      /\ m.mapInfo = e /\ m.mapAddr = e /\ m.vRandom = e /\ m.vvTried = [b \in TriedBucket |-> e]
  BY <1>1 DEF IsAddrMan, Empty, Started
<1>3. DOMAIN e = {} /\ e \in Seq({}) /\ Len(e) = 0
  BY <1>1
<1>4. e = [x \in {} |-> 0]
  BY <1>1
<1>5. e \in [{} -> Info] /\ e \in [{} -> {}]
  BY <1>4
<1>6. NewOf(e) = {} /\ TriedOf(e) = {} /\ {e[n].addr : n \in DOMAIN e} = {}
  BY <1>3 DEF NewOf, TriedOf
<1>7. AddrIndex(e, e)
  BY <1>3, <1>5, <1>6 DEF AddrIndex
<1>8. RandIndex(e, e)
  BY <1>3 DEF RandIndex
<1>9. Counted(e, V, 0)
  BY <1>3, <1>6, FS_EmptySet DEF Counted
<1>10. TriedTable(e, [b \in TriedBucket |-> e], 0)
  <2>1. PICK vv : vv = [b \in TriedBucket |-> e]
    OBVIOUS
  <2>2. vv \in [TriedBucket -> Seq(DOMAIN e)] /\ \A b \in TriedBucket : vv[b] = e
    BY <2>1, <1>3
  <2>3. TriedTable(e, vv, 0)
    BY <2>2, <1>3, <1>6, FS_EmptySet DEF TriedTable
  <2> QED BY <2>1, <2>3
<1>11. MaxId \in Nat
  BY AddrManAssumption
<1>12. Sound(m, V)
  <2>1. m.mapInfo \in [DOMAIN m.mapInfo -> Info] /\ \A n \in DOMAIN m.mapInfo : n \in Nat /\ n < m.nIdCount
    BY <1>2, <1>3, <1>5
  <2>2. /\ m.nIdCount \in Nat /\ m.nNew \in Nat /\ m.nTried \in Nat /\ m.nIdCount <= MaxId
        /\ Len(m.vRandom) = m.nNew + m.nTried
    BY <1>2, <1>3, <1>11
  <2>3. AddrIndex(m.mapInfo, m.mapAddr) /\ RandIndex(m.mapInfo, m.vRandom)
    BY <1>2, <1>7, <1>8
  <2>4. Counted(m.mapInfo, V, m.nNew) /\ TriedTable(m.mapInfo, m.vvTried, m.nTried)
    BY <1>2, <1>9, <1>10
  <2> QED BY <2>1, <2>2, <2>3, <2>4, <1>2 DEF Sound
<1> QED
  BY <1>2, <1>3, <1>12

(* Reading is a well-defined recursion. *)
AreReads(f, d, k) ==
  f = [i \in 0..k |-> IF i = 0 THEN [Empty EXCEPT !.vvNew = d.vvNew]
                      ELSE IF i <= Len(d.new) THEN ReadNew(f[i - 1], d.new[i])
                      ELSE ReadTried(f[i - 1], d.tried[i - Len(d.new)])]

LEMMA ReadsExist ==
  ASSUME NEW d, NEW k \in Nat
  PROVE  \E f : AreReads(f, d, k)
<1> USE DEF AreReads
<1> DEFINE z == [Empty EXCEPT !.vvNew = d.vvNew]
           Step(i, m) == IF i <= Len(d.new) THEN ReadNew(m, d.new[i])
                         ELSE ReadTried(m, d.tried[i - Len(d.new)])
           Defined(c) == \E f : f = [i \in 0..c |-> IF i = 0 THEN z ELSE Step(i, f[i - 1])]
           B == {c \in Nat : ~Defined(c)}
<1> SUFFICES ASSUME ~Defined(k) PROVE FALSE
  OBVIOUS
<1> HIDE DEF z, Step
<1>1. PICK c \in B : \A x \in B : c <= x
  <2> HIDE DEF Defined
  <2>1. B # {} /\ B \in SUBSET Nat
    OBVIOUS
  <2> QED
    BY <2>1, LeastNumber
<1>2. c # 0
  <2> SUFFICES ASSUME c = 0 PROVE Defined(0)
    OBVIOUS
  <2> DEFINE f == [i \in 0..0 |-> z]
  <2>1. f = [i \in 0..0 |-> IF i = 0 THEN z ELSE Step(i, f[i - 1])]
    OBVIOUS
  <2> QED
    BY <2>1
<1>3. c - 1 \in Nat /\ Defined(c - 1)
  <2> HIDE DEF Defined
  <2> QED
    BY <1>1, <1>2
<1>4. PICK f : f = [i \in 0..c - 1 |-> IF i = 0 THEN z ELSE Step(i, f[i - 1])]
  BY <1>3
<1> DEFINE g == [i \in 0..c |-> IF i = 0 THEN z ELSE Step(i, f[i - 1])]
<1>5. \A i \in 0..c - 1 : g[i] = f[i]
  BY <1>3, <1>4
<1>6. g = [i \in 0..c |-> IF i = 0 THEN z ELSE Step(i, g[i - 1])]
  <2>1. \A i \in 0..c : i # 0 => i - 1 \in 0..c - 1
    BY <1>3
  <2> QED
    BY <2>1, <1>5
<1>7. Defined(c)
  <2> HIDE DEF g
  <2> QED
    BY <1>6
<1> QED
  <2> HIDE DEF Defined
  <2> QED
    BY <1>7

(* The reader restores all entries of a file this code wrote. *)
LEMMA ReadAll ==
  ASSUME NEW d, DiskOK(d)
  PROVE  ReadTo(d, Entries(d), Unserialize(d))
<1>1. PICK k \in Nat : k = Entries(d)
  BY DiskSizes
<1> DEFINE f == CHOOSE g : g = [i \in 0..k |-> IF i = 0 THEN [Empty EXCEPT !.vvNew = d.vvNew]
                                               ELSE IF i <= Len(d.new) THEN ReadNew(g[i - 1], d.new[i])
                                               ELSE ReadTried(g[i - 1], d.tried[i - Len(d.new)])]
<1>2. Unserialize(d) = f[k]
  BY <1>1 DEF Unserialize, Entries
<1>3. AreReads(f, d, k)
  <2>1. \E g : g = [i \in 0..k |-> IF i = 0 THEN [Empty EXCEPT !.vvNew = d.vvNew]
                                   ELSE IF i <= Len(d.new) THEN ReadNew(g[i - 1], d.new[i])
                                   ELSE ReadTried(g[i - 1], d.tried[i - Len(d.new)])]
    BY ReadsExist DEF AreReads
  <2> QED BY <2>1 DEF AreReads
<1> HIDE DEF f
<1> DEFINE OK(i) == ReadTo(d, i, f[i])
<1>4. OK(0)
  <2>1. PICK m : m = [Empty EXCEPT !.vvNew = d.vvNew]
    OBVIOUS
  <2>2. f[0] = m
    BY <2>1, <1>3 DEF AreReads
  <2>3. /\ Sound(m, d.vvNew) /\ m.vvNew = d.vvNew /\ m.nIdCount = 0 /\ m.nNew = 0 /\ m.nTried = 0
        /\ DOMAIN m.mapInfo = {} /\ \A b \in TriedBucket : Len(m.vvTried[b]) = 0
    <3>1. Started(d.vvNew, m)
      BY <2>1 DEF Started
    <3> QED BY <3>1, EmptySound
  <2>4. \A x : x \in DOMAIN m.mapInfo <=> x \in Nat /\ x < 0
    BY <2>3
  <2>5. \A b \in TriedBucket : Len(m.vvTried[b]) <= ADDRMAN_TRIED_BUCKET_SIZE
    BY <2>3, Sizes
  <2> QED BY <2>2, <2>3, <2>4, <2>5 DEF ReadTo
<1>5. ASSUME NEW i \in 0..k, i # 0, OK(i - 1) PROVE OK(i)
  <2>1. PICK m : m = f[i - 1]
    OBVIOUS
  <2>2. ReadTo(d, i - 1, m) /\ i \in 1..Entries(d)
    BY <2>1, <1>1, <1>5
  <2>3. f[i] = IF i <= Len(d.new) THEN ReadNew(m, d.new[i]) ELSE ReadTried(m, d.tried[i - Len(d.new)])
    BY <2>1, <1>3, <1>5 DEF AreReads
  <2>4. CASE i <= Len(d.new)
    BY <2>2, <2>3, <2>4, ReadNewOK
  <2>5. CASE i > Len(d.new)
    <3>1. ~(i <= Len(d.new))
      BY <2>5, DiskSizes
    <3> QED BY <3>1, <2>2, <2>3, <2>5, ReadTriedOK
  <2>6. i <= Len(d.new) \/ i > Len(d.new)
    BY DiskSizes
  <2> QED BY <2>4, <2>5, <2>6
<1> HIDE DEF OK
<1>6. OK(k)
  <2> DEFINE B == {i \in 0..k : ~OK(i)}
  <2> SUFFICES ASSUME B # {} PROVE FALSE
    BY <1>1
  <2>0. B \in SUBSET Nat
    BY <1>1
  <2>1. PICK i \in B : \A x \in B : i <= x
    BY <2>0, LeastNumber
  <2>2. i # 0 /\ i \in 0..k /\ i - 1 \in 0..k /\ ~(i <= i - 1)
    BY <1>1, <1>4, <2>1
  <2>3. OK(i - 1)
    BY <2>1, <2>2
  <2> QED
    BY <2>1, <2>2, <2>3, <1>5
<1> QED
  BY <1>1, <1>2, <1>6 DEF OK

LEMMA UnserializeOK ==
  ASSUME NEW d, DiskOK(d)
  PROVE  AddrOK(Unserialize(d))
<1>1. PICK m : m = Unserialize(d)
  OBVIOUS
<1>2. ReadTo(d, Entries(d), m)
  BY <1>1, ReadAll
<1>3. /\ Sound(m, d.vvNew) /\ m.vvNew = d.vvNew
      /\ \A x : x \in DOMAIN m.mapInfo <=> x \in Nat /\ x < Entries(d)
      /\ \A b \in TriedBucket : Len(m.vvTried[b]) <= ADDRMAN_TRIED_BUCKET_SIZE
  BY <1>2 DEF ReadTo
<1>4. /\ d.vvNew \in [NewBucket -> SUBSET (0..Len(d.new) - 1)]
      /\ \A b \in NewBucket : Cardinality(d.vvNew[b]) <= ADDRMAN_NEW_BUCKET_SIZE
  BY DEF DiskOK
<1>5. 0..Len(d.new) - 1 \in SUBSET DOMAIN m.mapInfo
  <2>1. PICK c \in Nat : c = Len(d.new)
    BY DiskSizes
  <2>2. PICK e \in Nat : e = Len(d.tried)
    BY DiskSizes
  <2>3. \A x \in 0..c - 1 : x \in Nat /\ x < c + e
    OBVIOUS
  <2> QED BY <2>1, <2>2, <2>3, <1>3 DEF Entries
<1>6. d.vvNew \in [NewBucket -> SUBSET DOMAIN m.mapInfo]
  BY <1>4, <1>5
<1> QED
  BY <1>1, <1>3, <1>4, <1>6 DEF AddrOK

-----------------------------------------------------------------------------
(* d is a file for m: ids lists the entries in the order they are written. *)
Written(m, d, ids) ==
  /\ d.new \in Seq(Info) /\ d.tried \in Seq(Info)
  /\ ids \in [1..Entries(d) -> DOMAIN m.mapInfo]
  /\ \A i, j \in 1..Entries(d) : ids[i] = ids[j] => i = j
  /\ \A n \in DOMAIN m.mapInfo : \E i \in 1..Entries(d) : ids[i] = n
  /\ \A i \in 1..Entries(d) : /\ Entry(d, i) = m.mapInfo[ids[i]]
                              /\ i > Len(d.new) <=> m.mapInfo[ids[i]].fInTried
  /\ d.vvNew \in [NewBucket -> SUBSET (0..Len(d.new) - 1)]
  /\ \A b \in NewBucket : \A i \in 1..Len(d.new) : i - 1 \in d.vvNew[b] <=> ids[i] \in m.vvNew[b]

(* At most all entries are saved. *)
LEMMA SavedAll ==
  ASSUME NEW info, info \in [DOMAIN info -> Info], NEW S \in SUBSET DOMAIN info,
         NEW s \in Seq(S), NEW r, r = Saved(info, s, Len(s))
  PROVE  /\ r \in Seq(Info) /\ Len(r) = Len(s) /\ \A i \in 1..Len(s) : r[i] = info[s[i]]
<1>1. PICK k : k = Len(s)
  OBVIOUS
<1>2. k \in Nat /\ ~(k < k) /\ s \in [1..k -> S]
  BY <1>1, LenProperties
<1>3. r = [i \in 1..k |-> info[s[i]]]
  BY <1>1, <1>2 DEF Saved
<1>4. \A i \in 1..k : info[s[i]] \in Info
  BY <1>2
<1>5. r \in [1..k -> Info]
  BY <1>3, <1>4
<1>6. r \in Seq(Info) /\ Len(r) = k
  BY <1>2, <1>5
<1> QED
  BY <1>1, <1>3, <1>6

LEMMA SerializeWrites ==
  ASSUME NEW m, AddrOK(m), NEW d, d = Serialize(m)
  PROVE  \E ids : Written(m, d, ids)
<1>1. PICK info : info = m.mapInfo
  OBVIOUS
<1>2. /\ info \in [DOMAIN info -> Info] /\ \A x \in DOMAIN info : x \in Nat
      /\ IsFiniteSet(NewOf(info)) /\ IsFiniteSet(TriedOf(info))
      /\ Counted(info, m.vvNew, m.nNew) /\ TriedTable(info, m.vvTried, m.nTried)
  BY <1>1, SoundParts DEF AddrOK
<1>3. {n \in DOMAIN info : info[n].nRefCount # 0} = NewOf(info)
  <2>1. ASSUME NEW n \in DOMAIN info PROVE info[n].nRefCount = 0 <=> info[n].fInTried
    <3>1. IsFiniteSet(RefSet(m.vvNew, n))
      BY RefSetFinite
    <3>2. Cardinality(RefSet(m.vvNew, n)) = 0 <=> RefSet(m.vvNew, n) = {}
      BY <3>1, FS_EmptySet
    <3> QED BY <3>2, <1>2 DEF Counted
  <2> QED BY <2>1 DEF NewOf
<1>4. PICK new : new = InOrder(NewOf(info))
  OBVIOUS
<1>5. PICK tried : tried = InOrder(TriedOf(info))
  OBVIOUS
<1>6. NewOf(info) \in SUBSET Nat /\ TriedOf(info) \in SUBSET Nat
  BY <1>2 DEF NewOf, TriedOf
<1>7. /\ new \in Seq(NewOf(info)) /\ Len(new) = Cardinality(NewOf(info)) /\ Len(new) \in Nat
      /\ \A i, j \in 1..Len(new) : new[i] = new[j] => i = j
      /\ \A x \in NewOf(info) : \E i \in 1..Len(new) : new[i] = x
  BY <1>2, <1>4, <1>6, InOrderLists
<1>8. /\ tried \in Seq(TriedOf(info)) /\ Len(tried) = Cardinality(TriedOf(info)) /\ Len(tried) \in Nat
      /\ \A i, j \in 1..Len(tried) : tried[i] = tried[j] => i = j
      /\ \A x \in TriedOf(info) : \E i \in 1..Len(tried) : tried[i] = x
  BY <1>2, <1>5, <1>6, InOrderLists
<1>9. m.nNew = Len(new) /\ m.nTried = Len(tried)
  BY <1>2, <1>7, <1>8 DEF Counted, TriedTable
<1>10. /\ d.new = Saved(info, new, Len(new)) /\ d.tried = Saved(info, tried, Len(tried))
       /\ d.vvNew = [b \in NewBucket |-> {i - 1 : i \in {j \in DOMAIN new : new[j] \in m.vvNew[b]}}]
  <2>1. {n \in DOMAIN m.mapInfo : m.mapInfo[n].fInTried} = TriedOf(info)
    BY <1>1 DEF TriedOf
  <2>2. {n \in DOMAIN m.mapInfo : m.mapInfo[n].nRefCount # 0} = NewOf(info)
    BY <1>1, <1>3
  <2>3. d = [new |-> Saved(m.mapInfo, new, m.nNew), tried |-> Saved(m.mapInfo, tried, m.nTried),
             vvNew |-> [b \in NewBucket |-> {i - 1 : i \in {j \in DOMAIN new : new[j] \in m.vvNew[b]}}]]
    BY <2>1, <2>2, <1>4, <1>5 DEF Serialize
  <2> QED BY <2>3, <1>1, <1>9
<1>11. PICK c \in Nat : c = Len(new)
  BY <1>7
<1>12. PICK e \in Nat : e = Len(tried)
  BY <1>8
<1>13. /\ d.new \in Seq(Info) /\ Len(d.new) = c /\ \A i \in 1..c : d.new[i] = info[new[i]]
  <2>1. NewOf(info) \in SUBSET DOMAIN info
    BY DEF NewOf
  <2>2. PICK S : S = NewOf(info)
    OBVIOUS
  <2>3. PICK r : r = d.new
    OBVIOUS
  <2>4. r = Saved(info, new, Len(new)) /\ new \in Seq(S) /\ S \in SUBSET DOMAIN info
    BY <2>1, <2>2, <2>3, <1>7, <1>10
  <2>5. r \in Seq(Info) /\ Len(r) = Len(new) /\ \A i \in 1..Len(new) : r[i] = info[new[i]]
    BY <2>4, <1>2, SavedAll
  <2> QED BY <2>3, <2>5, <1>11
<1>14. /\ d.tried \in Seq(Info) /\ Len(d.tried) = e /\ \A i \in 1..e : d.tried[i] = info[tried[i]]
  <2>1. TriedOf(info) \in SUBSET DOMAIN info
    BY DEF TriedOf
  <2>2. PICK S : S = TriedOf(info)
    OBVIOUS
  <2>3. PICK r : r = d.tried
    OBVIOUS
  <2>4. r = Saved(info, tried, Len(tried)) /\ tried \in Seq(S) /\ S \in SUBSET DOMAIN info
    BY <2>1, <2>2, <2>3, <1>8, <1>10
  <2>5. r \in Seq(Info) /\ Len(r) = Len(tried) /\ \A i \in 1..Len(tried) : r[i] = info[tried[i]]
    BY <2>4, <1>2, SavedAll
  <2> QED BY <2>3, <2>5, <1>12
<1>15. PICK ids : ids = [i \in 1..(c + e) |-> IF i <= c THEN new[i] ELSE tried[i - c]]
  OBVIOUS
<1>16. Entries(d) = c + e
  BY <1>13, <1>14 DEF Entries
<1>17. ASSUME NEW i \in 1..(c + e)
       PROVE  /\ i <= c => i \in 1..c /\ ids[i] = new[i] /\ ids[i] \in NewOf(info)
              /\ i > c => i - c \in 1..e /\ ids[i] = tried[i - c] /\ ids[i] \in TriedOf(info)
              /\ i <= c \/ i > c
  <2>1. CASE i <= c
    <3>1. i \in 1..c /\ ids[i] = new[i] /\ ~(i > c)
      BY <2>1, <1>15
    <3>2. new[i] \in NewOf(info)
      BY <3>1, <1>7, <1>11, ElementOfSeq
    <3> QED BY <2>1, <3>1, <3>2
  <2>2. CASE i > c
    <3>1. i - c \in 1..e /\ ids[i] = tried[i - c] /\ ~(i <= c)
      BY <2>2, <1>15
    <3>2. tried[i - c] \in TriedOf(info)
      BY <3>1, <1>8, <1>12, ElementOfSeq
    <3> QED BY <2>2, <3>1, <3>2
  <2> QED BY <2>1, <2>2
<1>18. ids \in [1..Entries(d) -> DOMAIN info]
  <2>1. \A i \in 1..(c + e) : ids[i] \in DOMAIN info
    BY <1>17 DEF NewOf, TriedOf
  <2> QED BY <2>1, <1>15, <1>16
<1>19. \A i, j \in 1..(c + e) : ids[i] = ids[j] => i = j
  <2>1. ASSUME NEW i \in 1..(c + e), NEW j \in 1..(c + e), ids[i] = ids[j], i <= c, j <= c PROVE i = j
    <3>1. i \in 1..c /\ j \in 1..c /\ new[i] = new[j]
      BY <2>1, <1>17
    <3> QED BY <3>1, <1>7, <1>11
  <2>2. ASSUME NEW i \in 1..(c + e), NEW j \in 1..(c + e), ids[i] = ids[j], i > c, j > c PROVE i = j
    <3>1. i - c \in 1..e /\ j - c \in 1..e /\ tried[i - c] = tried[j - c]
      BY <2>2, <1>17
    <3>2. i - c = j - c
      BY <3>1, <1>8, <1>12
    <3> QED BY <3>2
  <2>3. \A i, j \in 1..(c + e) : i <= c /\ j > c => ids[i] # ids[j]
    BY <1>17 DEF NewOf, TriedOf
  <2> QED BY <2>1, <2>2, <2>3, <1>17
<1>20. ASSUME NEW n \in DOMAIN info PROVE \E i \in 1..(c + e) : ids[i] = n
  <2>1. CASE n \in NewOf(info)
    <3>1. PICK i \in 1..c : new[i] = n
      BY <2>1, <1>7, <1>11
    <3> QED BY <3>1, <1>15
  <2>2. CASE n \in TriedOf(info)
    <3>1. PICK i \in 1..e : tried[i] = n
      BY <2>2, <1>8, <1>12
    <3>2. i + c \in 1..(c + e) /\ ~(i + c <= c) /\ (i + c) - c = i
      OBVIOUS
    <3> QED BY <3>1, <3>2, <1>15
  <2> QED BY <2>1, <2>2 DEF NewOf, TriedOf
<1>21. ASSUME NEW i \in 1..(c + e)
       PROVE  Entry(d, i) = info[ids[i]] /\ (i > c <=> info[ids[i]].fInTried)
  <2>1. CASE i <= c
    <3>1. Entry(d, i) = d.new[i] /\ d.new[i] = info[new[i]] /\ ids[i] = new[i]
      BY <2>1, <1>13, <1>17 DEF Entry
    <3>2. ~info[ids[i]].fInTried /\ ~(i > c)
      BY <2>1, <1>17 DEF NewOf
    <3> QED BY <3>1, <3>2
  <2>2. CASE i > c
    <3>1. i - c \in 1..e /\ ids[i] = tried[i - c] /\ ids[i] \in TriedOf(info) /\ ~(i <= c)
      BY <2>2, <1>17
    <3>2. Entry(d, i) = d.tried[i - c]
      BY <3>1, <1>13 DEF Entry
    <3>3. info[ids[i]].fInTried
      BY <3>1 DEF TriedOf
    <3> QED BY <2>2, <3>1, <3>2, <3>3, <1>14
  <2> QED BY <2>1, <2>2, <1>17
<1>22. ASSUME NEW b \in NewBucket
       PROVE  /\ d.vvNew[b] \in SUBSET (0..c - 1)
              /\ \A i \in 1..c : i - 1 \in d.vvNew[b] <=> ids[i] \in m.vvNew[b]
  <2>1. DOMAIN new = 1..c
    BY <1>7, <1>11, LenProperties
  <2>2. d.vvNew[b] = {i - 1 : i \in {j \in 1..c : new[j] \in m.vvNew[b]}}
    BY <2>1, <1>10
  <2>3. d.vvNew[b] \in SUBSET (0..c - 1)
    BY <2>2
  <2>4. ASSUME NEW i \in 1..c PROVE i - 1 \in d.vvNew[b] <=> ids[i] \in m.vvNew[b]
    <3>1. ids[i] = new[i]
      BY <1>15
    <3>2. \A j \in 1..c : i - 1 = j - 1 => i = j
      OBVIOUS
    <3> QED BY <3>1, <3>2, <2>2
  <2> QED BY <2>3, <2>4
<1>23. d.vvNew \in [NewBucket -> SUBSET (0..c - 1)]
  BY <1>10, <1>22
<1>24. Written(m, d, ids)
  BY <1>1, <1>13, <1>14, <1>16, <1>18, <1>19, <1>20, <1>21, <1>22, <1>23 DEF Written
<1> QED
  BY <1>24

(* The parts of Written that follow. *)
LEMMA WrittenSizes ==
  ASSUME NEW m, AddrOK(m), NEW d, NEW ids, Written(m, d, ids)
  PROVE  /\ Len(d.new) \in Nat /\ Len(d.tried) \in Nat /\ Entries(d) = Len(d.new) + Len(d.tried)
         /\ Entries(d) \in Nat /\ Entries(d) <= MaxId
<1>1. d.new \in Seq(Info) /\ d.tried \in Seq(Info)
  BY DEF Written
<1>2. PICK c \in Nat : c = Len(d.new)
  BY <1>1, LenProperties
<1>3. PICK e \in Nat : e = Len(d.tried)
  BY <1>1, LenProperties
<1>4. PICK k \in Nat : k = Entries(d)
  <2>1. Entries(d) = c + e
    BY <1>2, <1>3 DEF Entries
  <2> QED BY <2>1
<1>5. ids \in [1..k -> DOMAIN m.mapInfo] /\ \A i, j \in 1..k : ids[i] = ids[j] => i = j
  BY <1>4 DEF Written
<1>6. /\ IsFiniteSet(DOMAIN m.mapInfo) /\ m.nIdCount \in Nat /\ m.nIdCount <= MaxId
      /\ \A x \in DOMAIN m.mapInfo : x \in Nat /\ x < m.nIdCount
  BY SoundParts DEF AddrOK
<1>7. PICK S : S = 1..k
  OBVIOUS
<1>8. Cardinality(S) <= Cardinality(DOMAIN m.mapInfo)
  BY <1>5, <1>6, <1>7, Injects
<1>9. Cardinality(S) = k
  <2>1. Cardinality(1..k) = IF 1 > k THEN 0 ELSE k - 1 + 1
    BY FS_Interval
  <2>2. Cardinality(1..k) = k
    BY <2>1
  <2> QED BY <2>2, <1>7
<1>10. Cardinality(DOMAIN m.mapInfo) <= m.nIdCount
  <2>1. PICK z \in Nat : z = m.nIdCount
    BY <1>6
  <2>2. IsFiniteSet(0..z - 1) /\ Cardinality(0..z - 1) = z
    <3>1. /\ IsFiniteSet(0..z - 1)
          /\ Cardinality(0..z - 1) = IF 0 > z - 1 THEN 0 ELSE z - 1 - 0 + 1
      BY FS_Interval
    <3> QED BY <3>1
  <2>3. DOMAIN m.mapInfo \in SUBSET (0..z - 1)
    BY <2>1, <1>6
  <2>4. Cardinality(DOMAIN m.mapInfo) <= Cardinality(0..z - 1)
    BY <2>2, <2>3, FS_Subset
  <2> QED BY <2>1, <2>2, <2>4
<1>11. k <= MaxId
  <2>1. Cardinality(DOMAIN m.mapInfo) \in Nat /\ MaxId \in Nat
    BY <1>6, FS_CardinalityType, AddrManAssumption
  <2> QED BY <2>1, <1>6, <1>8, <1>9, <1>10
<1> QED
  BY <1>2, <1>3, <1>4, <1>11 DEF Entries

LEMMA WrittenOK ==
  ASSUME NEW m, AddrOK(m), NEW d, NEW ids, Written(m, d, ids)
  PROVE  DiskOK(d)
<1>1. PICK c \in Nat : c = Len(d.new)
  BY WrittenSizes
<1>2. PICK e \in Nat : e = Len(d.tried)
  BY WrittenSizes
<1>3. PICK k \in Nat : k = Entries(d) /\ k = c + e /\ k <= MaxId
  BY <1>1, <1>2, WrittenSizes
<1>4. PICK info : info = m.mapInfo
  OBVIOUS
<1>5. /\ ids \in [1..k -> DOMAIN info] /\ \A i, j \in 1..k : ids[i] = ids[j] => i = j
      /\ \A i \in 1..k : Entry(d, i) = info[ids[i]] /\ (i > c <=> info[ids[i]].fInTried)
  BY <1>1, <1>3, <1>4 DEF Written
<1>6. /\ d.new \in Seq(Info) /\ d.tried \in Seq(Info)
      /\ d.vvNew \in [NewBucket -> SUBSET (0..Len(d.new) - 1)]
      /\ \A b \in NewBucket : \A i \in 1..c : i - 1 \in d.vvNew[b] <=> ids[i] \in m.vvNew[b]
  BY <1>1 DEF Written
<1>7. /\ AddrIndex(info, m.mapAddr) /\ Counted(info, m.vvNew, m.nNew) /\ TriedTable(info, m.vvTried, m.nTried)
      /\ IsFiniteSet(DOMAIN info) /\ info \in [DOMAIN info -> Info]
  BY <1>4, SoundParts DEF AddrOK
<1>8. \A i, j \in 1..k : Entry(d, i).addr = Entry(d, j).addr => i = j
  <2> TAKE i, j \in 1..k
  <2>1. /\ ids[i] \in DOMAIN info /\ ids[j] \in DOMAIN info
        /\ Entry(d, i) = info[ids[i]] /\ Entry(d, j) = info[ids[j]]
    BY <1>5
  <2>2. info[ids[i]].addr = info[ids[j]].addr => ids[i] = ids[j]
    BY <2>1, <1>7 DEF AddrIndex
  <2> QED BY <2>1, <2>2, <1>5
<1>9. ASSUME NEW b \in NewBucket
      PROVE  Cardinality(d.vvNew[b]) <= ADDRMAN_NEW_BUCKET_SIZE
  <2>1. PICK S : S = d.vvNew[b]
    OBVIOUS
  <2>2. PICK T : T = m.vvNew[b]
    OBVIOUS
  <2>3. T \in SUBSET DOMAIN info /\ Cardinality(T) <= ADDRMAN_NEW_BUCKET_SIZE
    BY <2>2, <1>4 DEF AddrOK
  <2>4. IsFiniteSet(T)
    BY <2>3, <1>7, FS_Subset
  <2>5. PICK f : f = [x \in S |-> ids[x + 1]]
    OBVIOUS
  <2>6. \A x \in S : x \in 0..c - 1
    BY <2>1, <1>1, <1>6
  <2>7. ASSUME NEW x \in S PROVE x + 1 \in 1..c /\ x + 1 \in 1..k /\ ids[x + 1] \in T
    <3>1. x + 1 \in 1..c /\ x + 1 \in 1..k /\ (x + 1) - 1 = x
      BY <2>6, <1>3
    <3>2. (x + 1) - 1 \in d.vvNew[b] <=> ids[x + 1] \in m.vvNew[b]
      BY <3>1, <1>6
    <3> QED BY <3>1, <3>2, <2>1, <2>2
  <2>8. f \in [S -> T]
    BY <2>5, <2>7
  <2>9. \A x, y \in S : f[x] = f[y] => x = y
    <3> TAKE x, y \in S
    <3>1. f[x] = ids[x + 1] /\ f[y] = ids[y + 1] /\ x + 1 \in 1..k /\ y + 1 \in 1..k
      BY <2>5, <2>7
    <3>2. x + 1 = y + 1 => x = y
      BY <2>6
    <3> QED BY <3>1, <3>2, <1>5
  <2>10. IsFiniteSet(S) /\ Cardinality(S) <= Cardinality(T)
    BY <2>4, <2>8, <2>9, Injects
  <2>11. Cardinality(S) \in Nat /\ Cardinality(T) \in Nat
    BY <2>4, <2>10, FS_CardinalityType
  <2> QED BY <2>1, <2>3, <2>10, <2>11, Sizes
<1>10. ASSUME NEW x \in 0..c - 1
       PROVE  RefSet(d.vvNew, x) # {} /\ Cardinality(RefSet(d.vvNew, x)) <= ADDRMAN_NEW_BUCKETS_PER_ADDRESS
  <2>1. x + 1 \in 1..c /\ x + 1 \in 1..k /\ (x + 1) - 1 = x /\ ~(x + 1 > c)
    BY <1>3
  <2>2. PICK n : n = ids[x + 1]
    OBVIOUS
  <2>3. n \in DOMAIN info /\ ~info[n].fInTried
    BY <2>1, <2>2, <1>5
  <2>4. \A b \in NewBucket : x \in d.vvNew[b] <=> n \in m.vvNew[b]
    BY <2>1, <2>2, <1>6
  <2>5. RefSet(d.vvNew, x) = RefSet(m.vvNew, n)
    BY <2>4 DEF RefSet
  <2>6. /\ info[n].nRefCount = Cardinality(RefSet(m.vvNew, n))
        /\ info[n].nRefCount <= ADDRMAN_NEW_BUCKETS_PER_ADDRESS
        /\ info[n].fInTried <=> RefSet(m.vvNew, n) = {}
    BY <2>3, <1>7 DEF Counted
  <2> QED BY <2>3, <2>5, <2>6
<1>11. ASSUME NEW i \in 1..e
       PROVE  /\ i + c \in 1..k /\ ids[i + c] \in DOMAIN info /\ d.tried[i] = info[ids[i + c]]
              /\ info[ids[i + c]].fInTried
  <2>1. PICK y : y = i + c
    OBVIOUS
  <2>2. y \in 1..k /\ ~(y <= c) /\ y > c /\ y - c = i
    BY <2>1, <1>3
  <2>3. Entry(d, y) = d.tried[i]
    BY <2>2, <1>1 DEF Entry
  <2>4. ids[y] \in DOMAIN info /\ Entry(d, y) = info[ids[y]] /\ info[ids[y]].fInTried
    BY <2>2, <1>5
  <2> QED BY <2>1, <2>2, <2>3, <2>4
<1>12. \A i \in 1..e : d.tried[i].nLastSuccess # 0
  BY <1>7, <1>11 DEF TriedTable
<1>13. ASSUME NEW b \in TriedBucket
       PROVE  Cardinality(TriedIn(d, b)) <= ADDRMAN_TRIED_BUCKET_SIZE
  <2>1. PICK S : S = TriedIn(d, b)
    OBVIOUS
  <2>2. \A i \in S : i \in 1..e /\ GetTriedBucket[d.tried[i].addr] = b
    BY <2>1, <1>2 DEF TriedIn
  <2>3. PICK v : v = m.vvTried[b]
    OBVIOUS
  <2>4. v \in Seq(DOMAIN info) /\ Len(v) <= ADDRMAN_TRIED_BUCKET_SIZE
    BY <2>3, <1>7 DEF TriedTable, AddrOK
  <2>5. PICK z \in Nat : z = Len(v)
    BY <2>4, LenProperties
  <2>6. ASSUME NEW i \in S PROVE \E p \in 1..z : v[p] = ids[i + c]
    <3>1. PICK n : n = ids[i + c]
      OBVIOUS
    <3>2. n \in DOMAIN info /\ info[n].fInTried /\ GetTriedBucket[info[n].addr] = b
      BY <3>1, <2>2, <1>11
    <3>3. \E p \in 1..Len(m.vvTried[GetTriedBucket[info[n].addr]]) : m.vvTried[GetTriedBucket[info[n].addr]][p] = n
      BY <3>2, <1>7 DEF TriedTable
    <3> QED BY <3>1, <3>2, <3>3, <2>3, <2>5
  <2>7. PICK f : f = [i \in S |-> CHOOSE p \in 1..z : v[p] = ids[i + c]]
    OBVIOUS
  <2>8. ASSUME NEW i \in S PROVE f[i] \in 1..z /\ v[f[i]] = ids[i + c]
    BY <2>6, <2>7
  <2>9. PICK T : T = 1..z
    OBVIOUS
  <2>10. f \in [S -> T]
    BY <2>7, <2>8, <2>9
  <2>11. \A x, y \in S : f[x] = f[y] => x = y
    <3> TAKE x, y \in S
    <3>1. v[f[x]] = ids[x + c] /\ v[f[y]] = ids[y + c]
      BY <2>8
    <3>2. x \in 1..e /\ y \in 1..e /\ x + c \in 1..k /\ y + c \in 1..k
      BY <2>2, <1>11
    <3>3. ids[x + c] = ids[y + c] => x + c = y + c
      BY <3>2, <1>5
    <3> QED BY <3>1, <3>2, <3>3
  <2>12. IsFiniteSet(T) /\ Cardinality(T) = z
    <3>1. IsFiniteSet(1..z) /\ Cardinality(1..z) = IF 1 > z THEN 0 ELSE z - 1 + 1
      BY FS_Interval
    <3>2. Cardinality(1..z) = z
      BY <3>1
    <3> QED BY <3>1, <3>2, <2>9
  <2>13. IsFiniteSet(S) /\ Cardinality(S) <= Cardinality(T)
    BY <2>10, <2>11, <2>12, Injects
  <2>14. Cardinality(S) \in Nat
    BY <2>13, FS_CardinalityType
  <2> QED BY <2>1, <2>4, <2>5, <2>12, <2>13, <2>14, Sizes
<1> QED
  BY <1>1, <1>2, <1>3, <1>6, <1>8, <1>9, <1>10, <1>12, <1>13 DEF DiskOK

LEMMA SerializeOK ==
  ASSUME NEW m, AddrOK(m)
  PROVE  DiskOK(Serialize(m))
<1>1. PICK d : d = Serialize(m)
  OBVIOUS
<1>2. PICK ids : Written(m, d, ids)
  BY <1>1, SerializeWrites
<1>3. DiskOK(d)
  BY <1>2, WrittenOK
<1> QED BY <1>1, <1>3

-----------------------------------------------------------------------------
(* The tables of the constructor. *)
LEMMA EmptyOK == AddrOK(Empty)
<1>1. PICK V : V = [b \in NewBucket |-> {}]
  OBVIOUS
<1>2. PICK m : m = Empty
  OBVIOUS
<1>3. Started(V, m)
  <2>1. PICK e : e = << >>
    OBVIOUS
  <2>2. PICK T : T = [b \in TriedBucket |-> << >>]
    OBVIOUS
  <2>3. m = [nIdCount |-> 0, mapInfo |-> e, mapAddr |-> e, vRandom |-> e,
             nTried |-> 0, vvTried |-> T, nNew |-> 0, vvNew |-> V]
    BY <2>1, <2>2, <1>1, <1>2 DEF Empty
  <2>4. m = [m EXCEPT !.vvNew = V]
    BY <2>3
  <2> QED BY <2>4, <1>2 DEF Started
<1>4. /\ Sound(m, V) /\ m.vvNew = V /\ DOMAIN m.mapInfo = {} /\ \A b \in TriedBucket : Len(m.vvTried[b]) = 0
  BY <1>3, EmptySound
<1>5. V \in [NewBucket -> SUBSET DOMAIN m.mapInfo] /\ \A b \in NewBucket : V[b] = {}
  BY <1>1, <1>4
<1>6. \A b \in NewBucket : Cardinality(V[b]) <= ADDRMAN_NEW_BUCKET_SIZE
  BY <1>5, FS_EmptySet, Sizes
<1>7. \A b \in TriedBucket : Len(m.vvTried[b]) <= ADDRMAN_TRIED_BUCKET_SIZE
  BY <1>4, Sizes
<1>8. AddrOK(m)
  BY <1>4, <1>5, <1>6, <1>7 DEF AddrOK
<1> QED BY <1>2, <1>8

(* The inductive invariant: the tables in memory are sound, and so is the file. *)
AInv == AddrOK(am) /\ DiskOK(disk)

LEMMA AInvInit == Init => AInv
<1> SUFFICES ASSUME Init PROVE AInv
  OBVIOUS
<1>1. am = Empty /\ disk = Serialize(Empty)
  BY DEF Init
<1>2. AddrOK(Empty) /\ DiskOK(Serialize(Empty))
  BY EmptyOK, SerializeOK
<1> QED BY <1>1, <1>2 DEF AInv

LEMMA AInvNext == AInv /\ [Next]_vars => AInv'
<1> SUFFICES ASSUME AInv, [Next]_vars PROVE AInv'
  OBVIOUS
<1>0. AddrOK(am) /\ DiskOK(disk)
  BY DEF AInv
<1>1. ASSUME NEW a \in Addr, NEW s \in Source, Add(a, s) PROVE AInv'
  <2>1. AddrOK(am')
    BY <1>0, <1>1, AddOK
  <2>2. disk' = disk
    BY <1>1 DEF Add
  <2> QED BY <2>1, <2>2, <1>0 DEF AInv
<1>2. ASSUME NEW a \in Addr, NEW nTime \in 1..MaxTime, Good(a, nTime) PROVE AInv'
  <2>1. AddrOK(am')
    BY <1>0, <1>2, GoodOK
  <2>2. disk' = disk
    BY <1>2 DEF Good
  <2> QED BY <2>1, <2>2, <1>0 DEF AInv
<1>3. CASE GetAddr
  <2>1. AddrOK(am')
    BY <1>0, <1>3, GetAddrOK
  <2>2. disk' = disk
    BY <1>3 DEF GetAddr
  <2> QED BY <2>1, <2>2, <1>0 DEF AInv
<1>4. CASE DumpAddresses
  <2>1. DiskOK(Serialize(am))
    BY <1>0, SerializeOK
  <2>2. disk' = Serialize(am) /\ am' = am
    BY <1>4 DEF DumpAddresses
  <2> QED BY <2>1, <2>2, <1>0 DEF AInv
<1>5. CASE Restart
  <2>1. AddrOK(Unserialize(disk))
    BY <1>0, UnserializeOK
  <2>2. am' = Unserialize(disk) /\ disk' = disk
    BY <1>5 DEF Restart
  <2> QED BY <2>1, <2>2, <1>0 DEF AInv
<1>6. CASE UNCHANGED vars
  BY <1>0, <1>6 DEF AInv, vars
<1> QED
  BY <1>1, <1>2, <1>3, <1>4, <1>5, <1>6 DEF Next

(* The tables in memory and peers.dat stay sound. *)
THEOREM TablesStaySound == Spec => []AInv
BY AInvInit, AInvNext, PTL DEF Spec

(* Types of the tables. *)
THEOREM AddrManTypeOK == Spec => []TypeOK
<1>1. AInv => TypeOK
  <2> SUFFICES ASSUME AInv PROVE TypeOK
    OBVIOUS
  <2>1. AddrOK(am) /\ Sound(am, am.vvNew)
    BY DEF AInv, AddrOK
  <2>2. /\ am.mapInfo \in [DOMAIN am.mapInfo -> Info]
        /\ am.nIdCount \in Nat /\ am.nNew \in Nat /\ am.nTried \in Nat /\ am.nIdCount <= MaxId
        /\ \A x \in DOMAIN am.mapInfo : x \in Nat /\ x < am.nIdCount
        /\ RandIndex(am.mapInfo, am.vRandom) /\ TriedTable(am.mapInfo, am.vvTried, am.nTried)
    BY <2>1, SoundParts
  <2>3. am.nIdCount \in 0..MaxId /\ DOMAIN am.mapInfo \subseteq 0..(am.nIdCount - 1)
    BY <2>2, AddrManAssumption
  <2>4. am.vRandom \in Seq(DOMAIN am.mapInfo)
    BY <2>2 DEF RandIndex
  <2>5. \A b \in TriedBucket : am.vvTried[b] \in Seq(DOMAIN am.mapInfo)
    BY <2>2 DEF TriedTable
  <2>6. \A b \in NewBucket : am.vvNew[b] \subseteq DOMAIN am.mapInfo
    BY <2>1 DEF AddrOK
  <2> QED BY <2>2, <2>3, <2>4, <2>5, <2>6 DEF TypeOK
<1> QED
  BY <1>1, TablesStaySound, PTL

(* No bucket outgrows its size. *)
THEOREM BucketsStayBounded == Spec => []BucketsBounded
<1>1. AInv => BucketsBounded
  BY DEF AInv, AddrOK, BucketsBounded
<1> QED
  BY <1>1, TablesStaySound, PTL

(* An entry is once in one tried bucket, or in none. *)
LEMMA TimesTried ==
  ASSUME NEW info, info \in [DOMAIN info -> Info], NEW vv, NEW k, TriedTable(info, vv, k),
         NEW n \in DOMAIN info, NEW b \in TriedBucket
  PROVE  Cardinality({i \in DOMAIN vv[b] : vv[b][i] = n})
           = IF info[n].fInTried /\ b = GetTriedBucket[info[n].addr] THEN 1 ELSE 0
<1>1. PICK v : v = vv[b]
  OBVIOUS
<1>2. /\ v \in Seq(DOMAIN info) /\ \A i, j \in 1..Len(v) : v[i] = v[j] => i = j
      /\ \A i \in 1..Len(v) : info[v[i]].fInTried /\ GetTriedBucket[info[v[i]].addr] = b
      /\ info[n].fInTried /\ b = GetTriedBucket[info[n].addr] => \E i \in 1..Len(v) : v[i] = n
  BY <1>1 DEF TriedTable
<1>3. DOMAIN v = 1..Len(v)
  BY <1>2, LenProperties
<1>4. CASE info[n].fInTried /\ b = GetTriedBucket[info[n].addr]
  <2>1. PICK i \in 1..Len(v) : v[i] = n
    BY <1>2, <1>4
  <2>2. {j \in DOMAIN v : v[j] = n} = {i}
    BY <2>1, <1>2, <1>3
  <2>3. Cardinality({i}) = 1
    BY FS_Singleton
  <2> QED BY <2>2, <2>3, <1>1, <1>4
<1>5. CASE ~(info[n].fInTried /\ b = GetTriedBucket[info[n].addr])
  <2>1. {j \in DOMAIN v : v[j] = n} = {}
    BY <1>2, <1>3, <1>5
  <2>2. Cardinality({}) = 0
    BY FS_EmptySet
  <2> QED BY <2>1, <2>2, <1>1, <1>5
<1> QED BY <1>4, <1>5

(* Check_ finds nothing: the maps, the buckets and the counts agree. *)
THEOREM CheckHolds == Spec => []Check
<1>1. AInv => Check
  <2> SUFFICES ASSUME AInv PROVE Check
    OBVIOUS
  <2>1. Sound(am, am.vvNew)
    BY DEF AInv, AddrOK
  <2>2. PICK info : info = am.mapInfo
    OBVIOUS
  <2>3. /\ info \in [DOMAIN info -> Info]
        /\ AddrIndex(info, am.mapAddr) /\ RandIndex(info, am.vRandom)
        /\ Counted(info, am.vvNew, am.nNew) /\ TriedTable(info, am.vvTried, am.nTried)
        /\ Len(am.vRandom) = am.nNew + am.nTried
    BY <2>1, <2>2, SoundParts
  <2>4. New = NewOf(info) /\ DOMAIN info \ New = TriedOf(info)
    BY <2>2 DEF New, NewOf, TriedOf
  <2>5. IndexesAgree
    BY <2>2, <2>3 DEF IndexesAgree, AddrIndex, RandIndex
  <2>6. RefCountsExact
    <3>1. am.nNew = Cardinality(New)
      BY <2>3, <2>4 DEF Counted
    <3>2. ASSUME NEW n \in DOMAIN info, NEW refs, refs = Cardinality({b \in NewBucket : n \in am.vvNew[b]})
          PROVE  /\ info[n].nRefCount = refs
                 /\ IF n \in New THEN refs \in 1..ADDRMAN_NEW_BUCKETS_PER_ADDRESS ELSE refs = 0
      <4>1. refs = Cardinality(RefSet(am.vvNew, n))
        BY <3>2 DEF RefSet
      <4>2. /\ info[n].nRefCount = refs /\ refs <= ADDRMAN_NEW_BUCKETS_PER_ADDRESS
            /\ info[n].fInTried <=> RefSet(am.vvNew, n) = {}
        BY <4>1, <2>3 DEF Counted
      <4>3. IsFiniteSet(RefSet(am.vvNew, n))
        BY RefSetFinite
      <4>4. refs \in Nat /\ (refs = 0 <=> RefSet(am.vvNew, n) = {})
        BY <4>1, <4>3, FS_EmptySet, FS_CardinalityType
      <4>5. n \in New <=> ~info[n].fInTried
        BY <2>4 DEF NewOf
      <4> QED BY <4>2, <4>4, <4>5, Sizes
    <3> QED BY <3>1, <3>2, <2>2 DEF RefCountsExact
  <2>7. TriedExact
    <3>1. am.nTried = Cardinality(DOMAIN am.mapInfo \ New)
      BY <2>2, <2>3, <2>4 DEF TriedTable
    <3>2. \A n \in DOMAIN info : n \notin New <=> info[n].fInTried
      BY <2>4 DEF NewOf
    <3>3. ASSUME NEW n \in DOMAIN info, NEW b \in TriedBucket
          PROVE  Cardinality({i \in DOMAIN am.vvTried[b] : am.vvTried[b][i] = n})
                   = IF n \notin New /\ b = GetTriedBucket[info[n].addr] THEN 1 ELSE 0
      <4>1. Cardinality({i \in DOMAIN am.vvTried[b] : am.vvTried[b][i] = n})
              = IF info[n].fInTried /\ b = GetTriedBucket[info[n].addr] THEN 1 ELSE 0
        BY <2>3, TimesTried
      <4> QED BY <4>1, <3>2
    <3>4. \A n \in DOMAIN info \ New : info[n].nLastSuccess # 0
      BY <3>2, <2>3 DEF TriedTable
    <3> QED BY <3>1, <3>3, <3>4, <2>2 DEF TriedExact
  <2> QED BY <2>5, <2>6, <2>7 DEF Check
<1> QED
  BY <1>1, TablesStaySound, PTL

(* A tried entry stays known in every step but a restart. *)
THEOREM TriedStayKnown == Spec => TriedNeverDeleted
<1>1. AInv /\ [Next]_vars
      => [\A n \in DOMAIN am.mapInfo \ New :
            am.mapInfo[n].addr \in DOMAIN am.mapAddr' \/ am' = Unserialize(disk)]_vars
  <2> SUFFICES ASSUME AInv, Next, NEW n \in DOMAIN am.mapInfo \ New
               PROVE  am.mapInfo[n].addr \in DOMAIN am'.mapAddr \/ am' = Unserialize(disk)
    OBVIOUS
  <2>1. AddrOK(am) /\ n \in DOMAIN am.mapInfo /\ am.mapInfo[n].fInTried
    BY DEF AInv, New
  <2>2. Keeps(am, am') => am.mapInfo[n].addr \in DOMAIN am'.mapAddr
    BY <2>1 DEF Keeps
  <2>3. ASSUME NEW a \in Addr, NEW s \in Source, Add(a, s) PROVE Keeps(am, am')
    BY <2>1, <2>3, AddOK
  <2>4. ASSUME NEW a \in Addr, NEW nTime \in 1..MaxTime, Good(a, nTime) PROVE Keeps(am, am')
    BY <2>1, <2>4, GoodOK
  <2>5. CASE GetAddr
    BY <2>1, <2>2, <2>5, GetAddrOK
  <2>6. CASE DumpAddresses
    <3>1. AddrIndex(am.mapInfo, am.mapAddr)
      BY <2>1, SoundParts DEF AddrOK
    <3> QED BY <3>1, <2>1, <2>6 DEF AddrIndex, DumpAddresses
  <2>7. CASE Restart
    BY <2>7 DEF Restart
  <2> QED BY <2>2, <2>3, <2>4, <2>5, <2>6, <2>7 DEF Next
<1> QED
  BY <1>1, TablesStaySound, PTL DEF Spec, TriedNeverDeleted

-----------------------------------------------------------------------------
(* The places of an entry in the tried table. *)
LEMMA TriedPlaces ==
  ASSUME NEW info, info \in [DOMAIN info -> Info], NEW vv, NEW k, TriedTable(info, vv, k),
         NEW n \in DOMAIN info
  PROVE  {b \in TriedBucket : n \in Range(vv[b])}
           = {b \in TriedBucket : info[n].fInTried /\ b = GetTriedBucket[info[n].addr]}
<1>1. ASSUME NEW b \in TriedBucket
      PROVE  n \in Range(vv[b]) <=> info[n].fInTried /\ b = GetTriedBucket[info[n].addr]
  <2>1. PICK v : v = vv[b]
    OBVIOUS
  <2>2. /\ v \in Seq(DOMAIN info)
        /\ \A i \in 1..Len(v) : info[v[i]].fInTried /\ GetTriedBucket[info[v[i]].addr] = b
        /\ info[n].fInTried /\ b = GetTriedBucket[info[n].addr] => \E i \in 1..Len(v) : v[i] = n
    BY <2>1 DEF TriedTable
  <2>3. DOMAIN v = 1..Len(v)
    BY <2>2, LenProperties
  <2>4. n \in Range(v) <=> \E i \in 1..Len(v) : v[i] = n
    BY <2>3 DEF Range
  <2> QED BY <2>1, <2>2, <2>4
<1> QED BY <1>1

(* What one entry is in the tables of m. *)
ContentOf(m, n) ==
  [source |-> m.mapInfo[n].source, nLastSuccess |-> m.mapInfo[n].nLastSuccess,
   tried |-> {b \in TriedBucket : n \in Range(m.vvTried[b])},
   new |-> {b \in NewBucket : n \in m.vvNew[b]}]

LEMMA ContentSame ==
  ASSUME NEW m, AddrOK(m), NEW d, NEW ids, Written(m, d, ids), NEW r, ReadTo(d, Entries(d), r),
         NEW i \in 1..Entries(d)
  PROVE  /\ i - 1 \in DOMAIN r.mapInfo /\ ids[i] \in DOMAIN m.mapInfo
         /\ r.mapInfo[i - 1].addr = m.mapInfo[ids[i]].addr
         /\ ContentOf(r, i - 1) = ContentOf(m, ids[i])
<1>1. PICK c \in Nat : c = Len(d.new)
  BY WrittenSizes
<1>2. PICK k \in Nat : k = Entries(d)
  BY WrittenSizes
<1>3. PICK x : x = i - 1
  OBVIOUS
<1>4. PICK n : n = ids[i]
  OBVIOUS
<1>5. x \in Nat /\ x < k /\ x + 1 = i /\ (x >= c <=> i > c) /\ i \in Nat
  BY <1>1, <1>2, <1>3
<1>6. /\ n \in DOMAIN m.mapInfo /\ Entry(d, i) = m.mapInfo[n] /\ (i > c <=> m.mapInfo[n].fInTried)
  BY <1>1, <1>4 DEF Written
<1>7. /\ Sound(r, d.vvNew) /\ r.vvNew = d.vvNew /\ x \in DOMAIN r.mapInfo
      /\ r.mapInfo[x].addr = Entry(d, x + 1).addr /\ r.mapInfo[x].source = Entry(d, x + 1).source
      /\ r.mapInfo[x].nLastSuccess = Entry(d, x + 1).nLastSuccess
      /\ r.mapInfo[x].fInTried <=> x >= c
  BY <1>1, <1>2, <1>5 DEF ReadTo
<1>8. /\ r.mapInfo[x].addr = m.mapInfo[n].addr /\ r.mapInfo[x].source = m.mapInfo[n].source
      /\ r.mapInfo[x].nLastSuccess = m.mapInfo[n].nLastSuccess
      /\ r.mapInfo[x].fInTried <=> m.mapInfo[n].fInTried
  BY <1>5, <1>6, <1>7
<1>9. {b \in TriedBucket : x \in Range(r.vvTried[b])} = {b \in TriedBucket : n \in Range(m.vvTried[b])}
  <2>1. {b \in TriedBucket : x \in Range(r.vvTried[b])}
          = {b \in TriedBucket : r.mapInfo[x].fInTried /\ b = GetTriedBucket[r.mapInfo[x].addr]}
    <3>1. r.mapInfo \in [DOMAIN r.mapInfo -> Info] /\ TriedTable(r.mapInfo, r.vvTried, r.nTried)
      BY <1>7, SoundParts
    <3> QED BY <3>1, <1>7, TriedPlaces
  <2>2. {b \in TriedBucket : n \in Range(m.vvTried[b])}
          = {b \in TriedBucket : m.mapInfo[n].fInTried /\ b = GetTriedBucket[m.mapInfo[n].addr]}
    <3>1. m.mapInfo \in [DOMAIN m.mapInfo -> Info] /\ TriedTable(m.mapInfo, m.vvTried, m.nTried)
      BY SoundParts DEF AddrOK
    <3> QED BY <3>1, <1>6, TriedPlaces
  <2> QED BY <2>1, <2>2, <1>8
<1>10. RefSet(r.vvNew, x) = RefSet(m.vvNew, n)
  <2>1. CASE i <= c
    <3>1. i \in 1..c /\ i - 1 = x
      BY <2>1, <1>5
    <3>2. \A b \in NewBucket : i - 1 \in d.vvNew[b] <=> ids[i] \in m.vvNew[b]
      BY <3>1, <1>1 DEF Written
    <3> QED BY <3>1, <3>2, <1>4, <1>7 DEF RefSet
  <2>2. CASE i > c
    <3>1. RefSet(m.vvNew, n) = {}
      <4>1. Counted(m.mapInfo, m.vvNew, m.nNew)
        BY SoundParts DEF AddrOK
      <4> QED BY <4>1, <2>2, <1>6 DEF Counted
    <3>2. RefSet(r.vvNew, x) = {}
      <4>1. Counted(r.mapInfo, d.vvNew, r.nNew)
        BY <1>7, SoundParts
      <4> QED BY <4>1, <2>2, <1>6, <1>7, <1>8 DEF Counted
    <3> QED BY <3>1, <3>2
  <2> QED BY <2>1, <2>2, <1>1, <1>5
<1>11. ContentOf(r, x) = ContentOf(m, n)
  BY <1>8, <1>9, <1>10 DEF ContentOf, RefSet
<1> QED
  BY <1>3, <1>4, <1>6, <1>7, <1>8, <1>11

LEMMA ContentRestored ==
  ASSUME NEW m, AddrOK(m)
  PROVE  Content(Unserialize(Serialize(m))) = Content(m)
<1>1. PICK d : d = Serialize(m)
  OBVIOUS
<1>2. PICK r : r = Unserialize(d)
  OBVIOUS
<1>3. PICK ids : Written(m, d, ids)
  BY <1>1, SerializeWrites
<1>4. DiskOK(d)
  BY <1>3, WrittenOK
<1>5. ReadTo(d, Entries(d), r)
  BY <1>2, <1>4, ReadAll
<1>6. PICK k \in Nat : k = Entries(d)
  BY <1>4, DiskSizes
<1>7. ASSUME NEW i \in 1..k
      PROVE  /\ i - 1 \in DOMAIN r.mapInfo /\ ids[i] \in DOMAIN m.mapInfo
             /\ r.mapInfo[i - 1].addr = m.mapInfo[ids[i]].addr
             /\ ContentOf(r, i - 1) = ContentOf(m, ids[i])
  BY <1>3, <1>5, <1>6, ContentSame
<1>8. AddrIndex(m.mapInfo, m.mapAddr)
  BY SoundParts DEF AddrOK
<1>9. AddrIndex(r.mapInfo, r.mapAddr)
  BY <1>5, SoundParts DEF ReadTo
<1>10. \A n \in DOMAIN m.mapInfo : \E i \in 1..k : ids[i] = n
  BY <1>3, <1>6 DEF Written
<1>11. ASSUME NEW x \in DOMAIN r.mapInfo PROVE \E i \in 1..k : x = i - 1
  <2>1. x \in Nat /\ x < k
    BY <1>5, <1>6 DEF ReadTo
  <2>2. x + 1 \in 1..k /\ x = (x + 1) - 1
    BY <2>1
  <2> QED BY <2>2
<1>12. ASSUME NEW a \in DOMAIN m.mapAddr
       PROVE  a \in DOMAIN r.mapAddr /\ ContentOf(r, r.mapAddr[a]) = ContentOf(m, m.mapAddr[a])
  <2>1. PICK n \in DOMAIN m.mapInfo : a = m.mapInfo[n].addr /\ m.mapAddr[a] = n
    BY <1>8 DEF AddrIndex
  <2>2. PICK i \in 1..k : ids[i] = n
    BY <1>10
  <2>3. i - 1 \in DOMAIN r.mapInfo /\ r.mapInfo[i - 1].addr = a /\ ContentOf(r, i - 1) = ContentOf(m, n)
    BY <2>1, <2>2, <1>7
  <2>4. a \in DOMAIN r.mapAddr /\ r.mapAddr[a] = i - 1
    BY <2>3, <1>9 DEF AddrIndex
  <2> QED BY <2>1, <2>3, <2>4
<1>13. ASSUME NEW a \in DOMAIN r.mapAddr PROVE a \in DOMAIN m.mapAddr
  <2>1. PICK x \in DOMAIN r.mapInfo : a = r.mapInfo[x].addr
    BY <1>9 DEF AddrIndex
  <2>2. PICK i \in 1..k : x = i - 1
    BY <1>11
  <2>3. ids[i] \in DOMAIN m.mapInfo /\ m.mapInfo[ids[i]].addr = a
    BY <2>1, <2>2, <1>7
  <2> QED BY <2>3, <1>8 DEF AddrIndex
<1>14. DOMAIN r.mapAddr = DOMAIN m.mapAddr
  BY <1>12, <1>13
<1>15. /\ Content(m) = [a \in DOMAIN m.mapAddr |-> ContentOf(m, m.mapAddr[a])]
       /\ Content(r) = [a \in DOMAIN r.mapAddr |-> ContentOf(r, r.mapAddr[a])]
  BY DEF Content, ContentOf
<1>16. Content(r) = Content(m)
  BY <1>12, <1>14, <1>15
<1> QED BY <1>1, <1>2, <1>16

(* Writing peers.dat and reading it back gives the same tables. *)
THEOREM DumpAlwaysRestores == Spec => []DumpRestores
<1>1. AInv => DumpRestores
  BY ContentRestored DEF AInv, DumpRestores
<1> QED
  BY <1>1, TablesStaySound, PTL
=============================================================================
