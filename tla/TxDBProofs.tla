----------------------------- MODULE TxDBProofs -----------------------------
(***************************************************************************)
(* CTxDB implements the transactional store of TxStore, for every set of   *)
(* handles, keys and values and batches of every length.                   *)
(***************************************************************************)
EXTENDS TxDB, SequenceTheorems, WellFoundedInduction, TLAPS

-----------------------------------------------------------------------------
(* The entries of a batch for one key. *)

(* Positions among the first i entries with key k, and those of them that put. *)
Where(b, i, k) == {j \in 1 .. i : b[j].key = k}
Puts(b, i, k) == {j \in Where(b, i, k) : b[j].value # NoValue}

Latest(S) == CHOOSE j \in S : \A m \in S : m <= j

LEMMA LeastNumber ==
  ASSUME NEW S \in SUBSET Nat, S # {}
  PROVE  \E m \in S : \A n \in S : m <= n
<1> DEFINE R == OpToRel(<, Nat)
<1>1. IsWellFoundedOn(R, Nat)
  BY NatLessThanWellFounded
<1>2. \A x, y \in Nat : y < x => <<y, x>> \in R
  BY DEF OpToRel
<1> HIDE DEF R
<1>3. PICK m \in S : \A y \in S : ~(<<y, m>> \in R)
  BY <1>1, WFMin
<1>4. \A n \in S : ~(n < m)
  BY <1>2, <1>3
<1> QED
  BY <1>4

(* A set of positions has a last one. *)
LEMMA LatestFacts ==
  ASSUME NEW n \in Nat, NEW S \in SUBSET (1 .. n), S # {}
  PROVE  Latest(S) \in S /\ \A m \in S : m <= Latest(S)
<1> DEFINE B == {n - j : j \in S}
<1>0. \A j \in S : j \in Int /\ n - j \in Nat
  OBVIOUS
<1>1. B \in SUBSET Nat /\ B # {}
  BY <1>0
<1>2. PICK d \in B : \A x \in B : d <= x
  BY <1>1, LeastNumber
<1>3. PICK j \in S : d = n - j
  BY <1>2
<1>4. \A m \in S : m <= j
  <2> TAKE m \in S
  <2>1. n - j <= n - m
    BY <1>2, <1>3
  <2> QED
    BY <2>1, j \in Int, m \in Int
<1> QED
  BY <1>3, <1>4 DEF Latest

LEMMA LatestUnique ==
  ASSUME NEW n \in Nat, NEW S \in SUBSET (1 .. n), NEW j \in S, \A m \in S : m <= j
  PROVE  Latest(S) = j
<1>1. Latest(S) \in S /\ j <= Latest(S)
  BY LatestFacts
<1>2. Latest(S) <= j
  BY <1>1
<1>3. \A m \in S : m \in Int
  OBVIOUS
<1>4. Latest(S) \in Int /\ j \in Int
  BY <1>1, <1>3
<1> QED
  BY ONLY <1>1, <1>2, <1>4

(* One more entry. *)
LEMMA WhereStep ==
  ASSUME NEW b, NEW i \in Nat \ {0}, NEW k
  PROVE  /\ i - 1 \in Nat /\ i \in Nat
         /\ Where(b, i, k) \in SUBSET (1 .. i) /\ Where(b, i - 1, k) \in SUBSET (1 .. i)
         /\ Puts(b, i, k) \in SUBSET (1 .. i) /\ Puts(b, i - 1, k) \in SUBSET (1 .. i)
         /\ b[i].key # k => /\ Where(b, i, k) = Where(b, i - 1, k)
                            /\ Puts(b, i, k) = Puts(b, i - 1, k)
         /\ b[i].key = k => Where(b, i, k) # {} /\ Latest(Where(b, i, k)) = i
         /\ b[i].key = k /\ b[i].value # NoValue => Puts(b, i, k) # {} /\ Latest(Puts(b, i, k)) = i
         /\ b[i].value = NoValue => Puts(b, i, k) = Puts(b, i - 1, k)
<1>1. i - 1 \in Nat /\ i \in Nat /\ 1 .. i = (1 .. i - 1) \cup {i} /\ i \in 1 .. i
  OBVIOUS
<1>2. /\ Where(b, i, k) \in SUBSET (1 .. i) /\ Where(b, i - 1, k) \in SUBSET (1 .. i)
      /\ Puts(b, i, k) \in SUBSET (1 .. i) /\ Puts(b, i - 1, k) \in SUBSET (1 .. i)
  BY <1>1 DEF Where, Puts
<1>3. b[i].key # k => Where(b, i, k) = Where(b, i - 1, k) /\ Puts(b, i, k) = Puts(b, i - 1, k)
  BY <1>1 DEF Where, Puts
<1>4. \A m \in 1 .. i : m <= i
  OBVIOUS
<1>5. ASSUME b[i].key = k PROVE Where(b, i, k) # {} /\ Latest(Where(b, i, k)) = i
  <2>1. i \in Where(b, i, k)
    BY <1>1, <1>5 DEF Where
  <2>2. \A m \in Where(b, i, k) : m <= i
    BY <1>2, <1>4
  <2> QED
    BY <2>1, <2>2, <1>1, <1>2, LatestUnique
<1>6. ASSUME b[i].key = k, b[i].value # NoValue PROVE Puts(b, i, k) # {} /\ Latest(Puts(b, i, k)) = i
  <2>1. i \in Puts(b, i, k)
    BY <1>1, <1>6 DEF Where, Puts
  <2>2. \A m \in Puts(b, i, k) : m <= i
    BY <1>2, <1>4
  <2> QED
    BY <2>1, <2>2, <1>1, <1>2, LatestUnique
<1>7. b[i].value = NoValue => Puts(b, i, k) = Puts(b, i - 1, k)
  BY <1>1 DEF Where, Puts
<1> QED
  BY <1>1, <1>2, <1>3, <1>5, <1>6, <1>7

-----------------------------------------------------------------------------
(* What ScanBatch has found after i entries. *)
Scanned(b, i, k) ==
  [foundEntry |-> Where(b, i, k) # {},
   deleted    |-> Where(b, i, k) # {} /\ b[Latest(Where(b, i, k))].value = NoValue,
   value      |-> IF Puts(b, i, k) = {} THEN NoValue ELSE b[Latest(Puts(b, i, k))].value]

LEMMA ScannedStep ==
  ASSUME NEW b, NEW i \in Nat \ {0}, NEW k
  PROVE  Scanned(b, i, k) = ScanEntry(Scanned(b, i - 1, k), b[i], k)
<1>1. CASE b[i].key # k
  BY <1>1, WhereStep DEF Scanned, ScanEntry
<1>2. CASE b[i].key = k /\ b[i].value = NoValue
  <2>1. /\ (Where(b, i, k) # {}) = TRUE /\ (b[Latest(Where(b, i, k))].value = NoValue) = TRUE
        /\ Puts(b, i, k) = Puts(b, i - 1, k)
    BY <1>2, WhereStep
  <2> QED
    BY <1>2, <2>1 DEF Scanned, ScanEntry
<1>3. CASE b[i].key = k /\ b[i].value # NoValue
  <2>1. /\ (Where(b, i, k) # {}) = TRUE /\ (b[Latest(Where(b, i, k))].value = NoValue) = FALSE
        /\ Puts(b, i, k) # {} /\ Latest(Puts(b, i, k)) = i
    BY <1>3, WhereStep
  <2> QED
    BY <1>3, <2>1 DEF Scanned, ScanEntry
<1> QED
  BY <1>1, <1>2, <1>3

LEMMA ScannedZero ==
  ASSUME NEW b, NEW k
  PROVE  Scanned(b, 0, k) = [foundEntry |-> FALSE, deleted |-> FALSE, value |-> NoValue]
<1>1. Where(b, 0, k) = {} /\ Puts(b, 0, k) = {}
  BY DEF Where, Puts
<1>2. (Where(b, 0, k) # {}) = FALSE
  BY <1>1
<1> QED
  BY <1>1, <1>2 DEF Scanned

(* The callbacks of WriteBatch::Iterate leave the last entry for the key. *)
LEMMA ScanBatchIs ==
  ASSUME NEW b, Len(b) \in Nat, NEW k
  PROVE  ScanBatch(b, k) = Scanned(b, Len(b), k)
<1> DEFINE n == Len(b)
           zero == [foundEntry |-> FALSE, deleted |-> FALSE, value |-> NoValue]
           Fits(f) == f = [i \in 0 .. n |-> IF i = 0 THEN zero ELSE ScanEntry(f[i - 1], b[i], k)]
           f == CHOOSE g : Fits(g)
           c == [i \in 0 .. n |-> Scanned(b, i, k)]
<1>0. n \in Nat
  OBVIOUS
<1>1. ScanBatch(b, k) = f[n]
  BY DEF ScanBatch
<1> HIDE DEF n
<1>2. Scanned(b, 0, k) = zero
  BY ScannedZero
<1>3. \A i \in 0 .. n : i # 0 => i - 1 \in 0 .. n /\ Scanned(b, i, k) = ScanEntry(Scanned(b, i - 1, k), b[i], k)
  <2> SUFFICES ASSUME NEW i \in 0 .. n, i # 0
               PROVE  i - 1 \in 0 .. n /\ Scanned(b, i, k) = ScanEntry(Scanned(b, i - 1, k), b[i], k)
    OBVIOUS
  <2>1. i \in Nat \ {0} /\ i - 1 \in 0 .. n
    BY <1>0
  <2> QED
    BY <2>1, <1>0, ScannedStep
<1> HIDE DEF zero
<1>4. Fits(c)
  BY <1>2, <1>3, Zenon
<1>5. Fits(f)
  <2> HIDE DEF Fits, c
  <2> QED
    BY <1>4
<1> HIDE DEF f
<1>6. \A i \in 0 .. n : f[i] = Scanned(b, i, k)
  <2> DEFINE B == {i \in 0 .. n : f[i] # Scanned(b, i, k)}
  <2> SUFFICES ASSUME B # {} PROVE FALSE
    OBVIOUS
  <2>0. B \in SUBSET Nat
    BY <1>0
  <2>1. PICK i \in B : \A x \in B : i <= x
    BY <2>0, LeastNumber
  <2>2. i \in 0 .. n /\ f[i] # Scanned(b, i, k)
    BY <2>1
  <2>3. f[0] = zero
    BY <1>0, <1>5
  <2>4. i # 0
    BY <2>2, <2>3, <1>2
  <2>5. i - 1 \in 0 .. n /\ ~(i <= i - 1)
    BY <1>0, <2>2, <2>4
  <2>6. f[i - 1] = Scanned(b, i - 1, k)
    BY <2>1, <2>5
  <2>7. f[i] = ScanEntry(f[i - 1], b[i], k)
    BY <1>5, <2>2, <2>4
  <2> QED
    BY <2>2, <2>4, <2>6, <2>7, <1>3
<1>7. n \in 0 .. n
  BY <1>0
<1> QED
  BY <1>1, <1>6, <1>7 DEF n

(* The database after i entries of the batch have been applied. *)
Applied(db, b, i) ==
  [k \in DOMAIN db |-> IF Where(b, i, k) = {} THEN db[k] ELSE b[Latest(Where(b, i, k))].value]

ApplyEntry(d, e) == [d EXCEPT ![e.key] = e.value]

LEMMA AppliedStep ==
  ASSUME NEW db, NEW b, NEW i \in Nat \ {0}
  PROVE  Applied(db, b, i) = ApplyEntry(Applied(db, b, i - 1), b[i])
<1> DEFINE d == Applied(db, b, i - 1)
           e == [d EXCEPT ![b[i].key] = b[i].value]
<1>1. DOMAIN e = DOMAIN db /\ DOMAIN d = DOMAIN db
  BY DEF Applied
<1>2. ASSUME NEW k \in DOMAIN db
      PROVE  Applied(db, b, i)[k] = e[k]
  <2>1. CASE b[i].key = k
    <3>1. e[k] = b[i].value
      BY <1>1, <2>1
    <3>2. Applied(db, b, i)[k] = b[i].value
      BY <2>1, WhereStep DEF Applied
    <3> QED
      BY <3>1, <3>2
  <2>2. CASE b[i].key # k
    <3>1. e[k] = d[k]
      BY <1>1, <2>2
    <3>2. Applied(db, b, i)[k] = d[k]
      BY <2>2, WhereStep DEF Applied
    <3> QED
      BY <3>1, <3>2
  <2> QED
    BY <2>1, <2>2
<1>3. Applied(db, b, i) = [k \in DOMAIN db |-> Applied(db, b, i)[k]]
  BY DEF Applied
<1>4. e = [k \in DOMAIN db |-> e[k]]
  BY <1>1
<1> HIDE DEF e
<1>5. Applied(db, b, i) = e
  BY <1>2, <1>3, <1>4, Zenon
<1> QED
  BY <1>5 DEF e, ApplyEntry

(* LevelDB's replay of the batch leaves the last entry of every key. *)
LEMMA WriteToDBIs ==
  ASSUME NEW db, db = [k \in DOMAIN db |-> db[k]], NEW b, Len(b) \in Nat
  PROVE  WriteToDB(db, b) = Applied(db, b, Len(b))
<1> DEFINE n == Len(b)
           Fits(f) == f = [i \in 0 .. n |-> IF i = 0 THEN db ELSE ApplyEntry(f[i - 1], b[i])]
           f == CHOOSE g : Fits(g)
           c == [i \in 0 .. n |-> Applied(db, b, i)]
<1>0. n \in Nat
  OBVIOUS
<1>1. WriteToDB(db, b) = f[n]
  BY DEF WriteToDB, ApplyEntry
<1> HIDE DEF n
<1>2. Applied(db, b, 0) = db
  <2>1. \A k : Where(b, 0, k) = {}
    BY DEF Where
  <2> QED
    BY <2>1 DEF Applied
<1>3. \A i \in 0 .. n : i # 0 => i - 1 \in 0 .. n /\ Applied(db, b, i) = ApplyEntry(Applied(db, b, i - 1), b[i])
  <2> SUFFICES ASSUME NEW i \in 0 .. n, i # 0
               PROVE  i - 1 \in 0 .. n /\ Applied(db, b, i) = ApplyEntry(Applied(db, b, i - 1), b[i])
    OBVIOUS
  <2>1. i \in Nat \ {0} /\ i - 1 \in 0 .. n
    BY <1>0
  <2> QED
    BY <2>1, <1>0, AppliedStep
<1>4. Fits(c)
  BY <1>2, <1>3, Zenon
<1>5. Fits(f)
  <2> HIDE DEF Fits, c
  <2> QED
    BY <1>4
<1> HIDE DEF f
<1>6. \A i \in 0 .. n : f[i] = Applied(db, b, i)
  <2> DEFINE B == {i \in 0 .. n : f[i] # Applied(db, b, i)}
  <2> SUFFICES ASSUME B # {} PROVE FALSE
    OBVIOUS
  <2>0. B \in SUBSET Nat
    BY <1>0
  <2>1. PICK i \in B : \A x \in B : i <= x
    BY <2>0, LeastNumber
  <2>2. i \in 0 .. n /\ f[i] # Applied(db, b, i)
    BY <2>1
  <2>3. f[0] = db
    BY <1>0, <1>5
  <2>4. i # 0
    BY <2>2, <2>3, <1>2
  <2>5. i - 1 \in 0 .. n /\ ~(i <= i - 1)
    BY <1>0, <2>2, <2>4
  <2>6. f[i - 1] = Applied(db, b, i - 1)
    BY <2>1, <2>5
  <2>7. f[i] = ApplyEntry(f[i - 1], b[i])
    BY <1>5, <2>2, <2>4
  <2> QED
    BY <2>2, <2>4, <2>6, <2>7, <1>3
<1>7. n \in 0 .. n
  BY <1>0
<1> QED
  BY <1>1, <1>6, <1>7 DEF n

-----------------------------------------------------------------------------
(* Net, the abstract store's view of a batch. *)

LEMMA NetFacts ==
  ASSUME NEW b \in Seq(Entry)
  PROVE  /\ Net(b) = [k \in DOMAIN Net(b) |-> Net(b)[k]]
         /\ DOMAIN Net(b) \subseteq Key
         /\ \A k : k \in DOMAIN Net(b) <=> Where(b, Len(b), k) # {}
         /\ \A k \in DOMAIN Net(b) : Net(b)[k] = b[Latest(Where(b, Len(b), k))].value
<1> DEFINE n == Len(b)
           LastFor(k) == CHOOSE i \in DOMAIN b :
                           b[i].key = k /\ \A j \in DOMAIN b : j > i => b[j].key # k
           D == {b[i].key : i \in DOMAIN b}
<1>1. n \in Nat /\ DOMAIN b = 1 .. n
  OBVIOUS
<1>2. \A k : k \in D <=> Where(b, n, k) # {}
  BY <1>1 DEF Where
<1>3. D \subseteq Key
  <2>1. \A i \in DOMAIN b : b[i] \in Entry
    OBVIOUS
  <2> QED
    BY <2>1 DEF Entry
<1>4. ASSUME NEW k \in D
      PROVE  LastFor(k) = Latest(Where(b, n, k))
  <2> DEFINE S == Where(b, n, k)
             j == Latest(S)
             P(i) == b[i].key = k /\ \A m \in DOMAIN b : m > i => b[m].key # k
  <2>1. S \in SUBSET (1 .. n) /\ S # {}
    BY <1>2, <1>4 DEF Where
  <2>2. j \in S /\ \A m \in S : m <= j
    BY <2>1, <1>1, LatestFacts
  <2>3. \A m : m \in S <=> m \in 1 .. n /\ b[m].key = k
    BY DEF Where
  <2>4. \A m \in 1 .. n : m \in Int
    OBVIOUS
  <2> HIDE DEF S, j, n
  <2>5. j \in DOMAIN b /\ P(j)
    BY <1>1, <2>2, <2>3, <2>4
  <2>6. ASSUME NEW i \in DOMAIN b, P(i) PROVE i = j
    <3>1. i \in S /\ i <= j /\ ~(j > i)
      BY <1>1, <2>2, <2>3, <2>5, <2>6
    <3> QED
      BY <3>1, <2>4, <2>5, <1>1
  <2> HIDE DEF P
  <2>7. (CHOOSE i \in DOMAIN b : P(i)) = j
    BY <2>5, <2>6
  <2> QED
    BY <2>7 DEF P, j, S
<1>5. Net(b) = [k \in D |-> b[LastFor(k)].value]
  BY DEF Net
<1> HIDE DEF LastFor, D
<1> QED
  BY <1>2, <1>3, <1>4, <1>5

LEMMA NetEmpty == Net(<< >>) = Store!Empty
BY DEF Net, Store!Empty

(* Put or Delete adds one change to the net effect. *)
LEMMA NetAppend ==
  ASSUME NEW b \in Seq(Entry), NEW e \in Entry
  PROVE  Net(Append(b, e)) = Store!Overlay(Net(b), Store!Set(e.key, e.value))
<1> DEFINE c == Append(b, e)
           n == Len(b)
           R == Store!Overlay(Net(b), Store!Set(e.key, e.value))
<1>1. n \in Nat /\ c \in Seq(Entry) /\ Len(c) = n + 1 /\ c[n + 1] = e /\ \A j \in 1 .. n : c[j] = b[j]
  OBVIOUS
<1> HIDE DEF c, n
<1>2. n + 1 \in 1 .. n + 1 /\ n + 1 \in Nat /\ (n + 1) - 1 = n
  BY <1>1
<1>3. \A k : Where(c, n, k) = Where(b, n, k)
  BY <1>1 DEF Where
<1>4. \A k : /\ e.key # k => Where(c, n + 1, k) = Where(b, n, k)
             /\ e.key = k => Where(c, n + 1, k) # {} /\ Latest(Where(c, n + 1, k)) = n + 1
  <2> TAKE k
  <2>1. PICK m : m = n + 1
    OBVIOUS
  <2>2. m \in Nat \ {0} /\ m - 1 = n
    BY <2>1, <1>2
  <2>3. /\ c[m].key # k => Where(c, m, k) = Where(c, m - 1, k)
        /\ c[m].key = k => Where(c, m, k) # {} /\ Latest(Where(c, m, k)) = m
    BY <2>2, WhereStep
  <2> QED
    BY <2>1, <2>2, <2>3, <1>1, <1>3
<1>5. /\ Net(b) = [k \in DOMAIN Net(b) |-> Net(b)[k]]
      /\ \A k : k \in DOMAIN Net(b) <=> Where(b, n, k) # {}
      /\ \A k \in DOMAIN Net(b) : Net(b)[k] = b[Latest(Where(b, n, k))].value
  BY NetFacts DEF n
<1>6. /\ Net(c) = [k \in DOMAIN Net(c) |-> Net(c)[k]]
      /\ \A k : k \in DOMAIN Net(c) <=> Where(c, n + 1, k) # {}
      /\ \A k \in DOMAIN Net(c) : Net(c)[k] = c[Latest(Where(c, n + 1, k))].value
  BY <1>1, NetFacts
<1>7. /\ R = [k \in DOMAIN R |-> R[k]]
      /\ \A k : k \in DOMAIN R <=> (k \in DOMAIN Net(b) \/ k = e.key)
      /\ \A k \in DOMAIN R : R[k] = IF k = e.key THEN e.value ELSE Net(b)[k]
  BY DEF Store!Overlay, Store!Set
<1> HIDE DEF R
<1>8. DOMAIN Net(c) = DOMAIN R
  BY <1>4, <1>5, <1>6, <1>7
<1>9. ASSUME NEW k \in DOMAIN R
      PROVE  Net(c)[k] = R[k]
  <2>1. CASE k = e.key
    BY <2>1, <1>1, <1>4, <1>6, <1>7, <1>8, <1>9
  <2>2. CASE k # e.key
    <3>1. k \in DOMAIN Net(b) /\ R[k] = b[Latest(Where(b, n, k))].value
      BY <2>2, <1>5, <1>7, <1>9
    <3>2. Net(c)[k] = c[Latest(Where(b, n, k))].value
      BY <2>2, <1>4, <1>6, <1>8, <1>9
    <3>3. Latest(Where(b, n, k)) \in 1 .. n
      <4>1. Where(b, n, k) \in SUBSET (1 .. n) /\ Where(b, n, k) # {}
        BY <3>1, <1>5 DEF Where
      <4> QED
        BY <4>1, <1>1, LatestFacts
    <3> QED
      BY <3>1, <3>2, <3>3, <1>1
  <2> QED
    BY <2>1, <2>2
<1>10. Net(c) = R
  BY <1>6, <1>7, <1>8, <1>9, Zenon
<1> QED
  BY <1>10 DEF c, R

(* Replaying the batch is overlaying its net effect. *)
LEMMA ReplayIsOverlay ==
  ASSUME NEW db \in [Key -> Value \cup {NoValue}], NEW b \in Seq(Entry)
  PROVE  WriteToDB(db, b) = Store!Overlay(db, Net(b))
<1> DEFINE n == Len(b)
           R == Store!Overlay(db, Net(b))
<1>1. DOMAIN db = Key /\ db = [k \in DOMAIN db |-> db[k]] /\ n \in Nat
  OBVIOUS
<1>2. WriteToDB(db, b) = Applied(db, b, n)
  BY <1>1, WriteToDBIs
<1>3. /\ DOMAIN Net(b) \subseteq Key
      /\ \A k : k \in DOMAIN Net(b) <=> Where(b, n, k) # {}
      /\ \A k \in DOMAIN Net(b) : Net(b)[k] = b[Latest(Where(b, n, k))].value
  BY NetFacts
<1> HIDE DEF n
<1>4. DOMAIN db \cup DOMAIN Net(b) = Key
  BY <1>1, <1>3
<1>5. R = [k \in Key |-> IF k \in DOMAIN Net(b) THEN Net(b)[k] ELSE db[k]]
  BY <1>4 DEF Store!Overlay
<1>6. Applied(db, b, n) = [k \in Key |-> IF k \in DOMAIN Net(b) THEN Net(b)[k] ELSE db[k]]
  BY <1>1, <1>3 DEF Applied
<1> QED
  BY <1>2, <1>5, <1>6

(* Scanning the batch before the database reads the overlaid store. *)
LEMMA ScanIsOverlay ==
  ASSUME NEW db \in [Key -> Value \cup {NoValue}], NEW b \in Seq(Entry), NEW k \in Key
  PROVE  LET s == ScanBatch(b, k)
         IN  (IF s.deleted THEN NoValue ELSE IF s.foundEntry THEN s.value ELSE db[k])
               = Store!Overlay(db, Net(b))[k]
<1> DEFINE n == Len(b)
           W == Where(b, n, k)
           P == Puts(b, n, k)
           s == ScanBatch(b, k)
           r == IF s.deleted THEN NoValue ELSE IF s.foundEntry THEN s.value ELSE db[k]
<1>1. n \in Nat
  OBVIOUS
<1>2. s = Scanned(b, n, k)
  BY <1>1, ScanBatchIs
<1>3. Store!Overlay(db, Net(b))[k] = IF W # {} THEN b[Latest(W)].value ELSE db[k]
  <2>1. (k \in DOMAIN Net(b) <=> W # {}) /\ (k \in DOMAIN Net(b) => Net(b)[k] = b[Latest(W)].value)
    BY NetFacts
  <2> HIDE DEF W
  <2> QED
    BY <2>1 DEF Store!Overlay
<1>4. /\ s.foundEntry = (W # {}) /\ s.deleted = (W # {} /\ b[Latest(W)].value = NoValue)
      /\ s.value = IF P = {} THEN NoValue ELSE b[Latest(P)].value
  BY <1>2 DEF Scanned
<1>5. ASSUME W # {}, b[Latest(W)].value # NoValue
      PROVE  P # {} /\ Latest(P) = Latest(W)
  <2>1. W \in SUBSET (1 .. n) /\ P \in SUBSET (1 .. n)
    BY DEF Where, Puts
  <2>2. Latest(W) \in W /\ \A m \in W : m <= Latest(W)
    BY <1>1, <1>5, <2>1, LatestFacts
  <2>3. Latest(W) \in P /\ P \subseteq W
    BY <1>5, <2>2 DEF Puts
  <2> HIDE DEF W, P
  <2> QED
    BY <1>1, <2>1, <2>2, <2>3, LatestUnique
<1> HIDE DEF W, P, s, n
<1>6. r = IF W # {} THEN b[Latest(W)].value ELSE db[k]
  <2>1. CASE W = {}
    BY <1>4, <2>1
  <2>2. CASE W # {} /\ b[Latest(W)].value = NoValue
    BY <1>4, <2>2
  <2>3. CASE W # {} /\ b[Latest(W)].value # NoValue
    BY <1>4, <1>5, <2>3
  <2> QED
    BY <2>1, <2>2, <2>3
<1> QED
  BY <1>3, <1>6 DEF s

-----------------------------------------------------------------------------
(* Types. *)

LEMMA InitTypeOK == Init => TypeOK
BY DEF Init, TypeOK

LEMMA WriteToDBType ==
  ASSUME NEW db \in [Key -> Value \cup {NoValue}], NEW b \in Seq(Entry)
  PROVE  WriteToDB(db, b) \in [Key -> Value \cup {NoValue}]
<1> DEFINE n == Len(b)
           V == Value \cup {NoValue}
<1>1. DOMAIN db = Key /\ db = [k \in DOMAIN db |-> db[k]] /\ n \in Nat
  OBVIOUS
<1>2. WriteToDB(db, b) = Applied(db, b, n)
  BY <1>1, WriteToDBIs
<1>3. ASSUME NEW k \in Key, Where(b, n, k) # {}
      PROVE  b[Latest(Where(b, n, k))].value \in V
  <2>1. Where(b, n, k) \in SUBSET (1 .. n)
    BY DEF Where
  <2>2. Latest(Where(b, n, k)) \in 1 .. n
    BY <1>1, <1>3, <2>1, LatestFacts
  <2>3. \A j \in 1 .. n : b[j] \in Entry
    OBVIOUS
  <2> QED
    BY <2>2, <2>3 DEF Entry
<1> QED
  BY <1>1, <1>2, <1>3 DEF Applied

LEMMA NextTypeOK ==
  ASSUME TypeOK, [Next]_vars
  PROVE  TypeOK'
<1> USE DEF TypeOK
<1>1. CASE UNCHANGED vars
  BY <1>1 DEF vars
<1>2. ASSUME NEW h \in Handle, TxnBegin(h) PROVE TypeOK'
  BY <1>2 DEF TxnBegin
<1>3. ASSUME NEW h \in Handle, TxnCommit(h) PROVE TypeOK'
  <2>1. activeBatch[h] \in Seq(Entry)
    BY <1>3 DEF TxnCommit
  <2>2. pdb' \in [Key -> Value \cup {NoValue}]
    BY <1>3, <2>1, WriteToDBType DEF TxnCommit
  <2> QED
    BY <1>3, <2>2 DEF TxnCommit, Dropped
<1>4. ASSUME NEW h \in Handle, TxnCommitFails(h) PROVE TypeOK'
  BY <1>4 DEF TxnCommitFails, Dropped
<1>5. ASSUME NEW h \in Handle, TxnAbort(h) PROVE TypeOK'
  BY <1>5 DEF TxnAbort, Dropped
<1>6. ASSUME NEW h \in Handle, NEW readOnly \in BOOLEAN, OpenHandle(h, readOnly) PROVE TypeOK'
  BY <1>6 DEF OpenHandle
<1>7. ASSUME NEW h \in Handle, NEW k \in Key, Read(h, k) PROVE TypeOK'
  BY <1>7 DEF Read
<1>8. ASSUME NEW h \in Handle, NEW k \in Key, NEW v \in Value \cup {NoValue}, Write(h, k, v)
      PROVE  TypeOK'
  <2>1. CASE activeBatch[h] = NULL
    BY <1>8, <2>1 DEF Write
  <2>2. CASE activeBatch[h] # NULL
    <3> DEFINE e == [key |-> k, value |-> v]
               a == Append(activeBatch[h], e)
    <3>1. e \in Entry /\ activeBatch[h] \in Seq(Entry)
      BY <2>2 DEF Entry
    <3>2. a \in Seq(Entry)
      BY <3>1
    <3>3. activeBatch' = [activeBatch EXCEPT ![h] = a] /\ pdb' = pdb /\ fReadOnly' = fReadOnly
      BY <1>8, <2>2 DEF Write
    <3> HIDE DEF a
    <3> QED
      BY <3>2, <3>3
  <2> QED
    BY <2>1, <2>2
<1>9. CASE Crash
  BY <1>9 DEF Crash
<1> QED
  BY <1>1, <1>2, <1>3, <1>4, <1>5, <1>6, <1>7, <1>8, <1>9 DEF Next

(* Every handle's batch is a log of puts and deletes, or absent, and the         *)
(* database holds a value or nothing for each key (CTxDB, all operations).       *)
THEOREM DatabaseTypes == Spec => []TypeOK
<1>1. TypeOK /\ [Next]_vars => TypeOK'
  BY NextTypeOK
<1> QED
  BY InitTypeOK, <1>1, PTL DEF Spec

-----------------------------------------------------------------------------
(* The step simulation. *)

(* The refinement mapping for the pending changes. *)
Pending == [h \in Handle |-> IF activeBatch[h] = NULL THEN [k \in {} |-> NoValue] ELSE Net(activeBatch[h])]

LEMMA InitSimulates == Init => Store!Init
BY DEF Init, Store!Init, InTxn, Store!Empty

(* TxnBegin is Begin. *)
LEMMA BeginSimulates ==
  ASSUME TypeOK, NEW h \in Handle, TxnBegin(h)
  PROVE  Store!Begin(h)
<1>1. activeBatch[h] = NULL /\ activeBatch' = [activeBatch EXCEPT ![h] = << >>] /\ pdb' = pdb /\ result' = result
  BY DEF TxnBegin
<1>2. << >> # NULL
  <2>1. << >> \in Seq(Entry)
    OBVIOUS
  <2> QED
    BY <2>1, TxDBAssumption, Zenon
<1>3. h \notin InTxn /\ InTxn' = InTxn \cup {h}
  BY <1>1, <1>2 DEF InTxn, TypeOK
<1>4. Pending' = [Pending EXCEPT ![h] = Store!Empty]
  BY <1>1, <1>2, NetEmpty DEF Pending, TypeOK
<1> QED
  BY <1>1, <1>3, <1>4 DEF Store!Begin, Pending


(* A handle that gives up its batch ends its transaction. *)
LEMMA DroppedEnds ==
  ASSUME TypeOK, NEW h \in Handle, Dropped(h)
  PROVE  InTxn' = InTxn \ {h} /\ Pending' = [Pending EXCEPT ![h] = Store!Empty]
BY DEF Dropped, InTxn, Pending, TypeOK, Store!Empty

(* The overlay in Read and TxnCommit. *)
LEMMA OverlayEmpty ==
  ASSUME NEW db \in [Key -> Value \cup {NoValue}]
  PROVE  Store!Overlay(db, Store!Empty) = db
BY DEF Store!Overlay, Store!Empty

(* TxnCommit is Commit. *)
LEMMA CommitSimulates ==
  ASSUME TypeOK, NEW h \in Handle, TxnCommit(h)
  PROVE  Store!Commit(h)
<1>1. /\ activeBatch[h] # NULL /\ pdb' = WriteToDB(pdb, activeBatch[h]) /\ Dropped(h)
      /\ result' = result
  BY DEF TxnCommit
<1>2. activeBatch[h] \in Seq(Entry) /\ pdb \in [Key -> Value \cup {NoValue}] /\ h \in InTxn
  BY <1>1 DEF TypeOK, InTxn
<1>3. pdb' = Store!Overlay(pdb, Net(activeBatch[h]))
  BY <1>1, <1>2, ReplayIsOverlay
<1>4. Pending[h] = Net(activeBatch[h])
  BY <1>1 DEF Pending
<1>5. InTxn' = InTxn \ {h} /\ Pending' = [Pending EXCEPT ![h] = Store!Empty]
  BY <1>1, DroppedEnds
<1> QED
  BY <1>1, <1>2, <1>3, <1>4, <1>5 DEF Store!Commit, Store!End, Pending

(* A failed commit, an abort and the destructor are Rollback. *)
LEMMA DropSimulates ==
  ASSUME TypeOK, NEW h \in Handle, activeBatch[h] # NULL, Dropped(h), pdb' = pdb, result' = result
  PROVE  Store!Rollback(h)
<1>1. h \in InTxn
  BY DEF InTxn
<1>2. InTxn' = InTxn \ {h} /\ Pending' = [Pending EXCEPT ![h] = Store!Empty]
  BY DroppedEnds
<1> QED
  BY <1>1, <1>2 DEF Store!Rollback, Store!End, Pending

LEMMA OpenSimulates ==
  ASSUME TypeOK, NEW h \in Handle, NEW readOnly \in BOOLEAN, OpenHandle(h, readOnly)
  PROVE  Store!Rollback(h) \/ UNCHANGED Store!storeVars
<1>1. Dropped(h) /\ pdb' = pdb /\ result' = result
  BY DEF OpenHandle, Dropped
<1>2. CASE activeBatch[h] # NULL
  BY <1>1, <1>2, DropSimulates
<1>3. CASE activeBatch[h] = NULL
  <2>1. activeBatch' = activeBatch
    BY <1>1, <1>3 DEF Dropped, TypeOK
  <2> QED
    BY <1>1, <2>1 DEF Store!storeVars, InTxn
<1> QED
  BY <1>2, <1>3

(* Put and Delete, with and without a batch, are Change. *)
LEMMA WriteSimulates ==
  ASSUME TypeOK, NEW h \in Handle, NEW k \in Key, NEW v \in Value \cup {NoValue}, Write(h, k, v)
  PROVE  Store!Change(h, k, v)
<1>1. CASE activeBatch[h] = NULL
  <2>1. pdb' = [pdb EXCEPT ![k] = v] /\ activeBatch' = activeBatch /\ result' = result
    BY <1>1 DEF Write
  <2>2. h \notin InTxn /\ InTxn' = InTxn /\ Pending' = Pending
    BY <1>1, <2>1 DEF InTxn, Pending
  <2>3. pdb' = Store!Overlay(pdb, Store!Set(k, v))
    BY <2>1 DEF TypeOK, Store!Overlay, Store!Set
  <2> QED
    BY <2>1, <2>2, <2>3 DEF Store!Change, Pending
<1>2. CASE activeBatch[h] # NULL
  <2> DEFINE e == [key |-> k, value |-> v]
             a == Append(activeBatch[h], e)
  <2>1. activeBatch' = [activeBatch EXCEPT ![h] = a] /\ pdb' = pdb /\ result' = result
    BY <1>2 DEF Write
  <2>2. e \in Entry /\ activeBatch[h] \in Seq(Entry)
    BY <1>2 DEF Entry, TypeOK
  <2>3. a \in Seq(Entry) /\ Net(a) = Store!Overlay(Net(activeBatch[h]), Store!Set(e.key, e.value))
    BY <2>2, NetAppend
  <2>4. e.key = k /\ e.value = v
    OBVIOUS
  <2> HIDE DEF a, e
  <2>5. a # NULL
    BY <2>3, TxDBAssumption, Zenon
  <2>6. h \in InTxn /\ InTxn' = InTxn
    BY <1>2, <2>1, <2>5 DEF InTxn, TypeOK
  <2>7. Pending[h] = Net(activeBatch[h])
    BY <1>2 DEF Pending
  <2>8. Pending' = [Pending EXCEPT ![h] = Net(a)]
    BY <2>1, <2>5 DEF Pending, TypeOK
  <2>9. Pending' = [Pending EXCEPT ![h] = Store!Overlay(Pending[h], Store!Set(k, v))]
    BY <2>3, <2>4, <2>7, <2>8
  <2> QED
    BY <2>1, <2>6, <2>9 DEF Store!Change, Pending
<1> QED
  BY <1>1, <1>2

(* Read, by scan and database, returns the overlaid value. *)
LEMMA ReadSimulates ==
  ASSUME TypeOK, NEW h \in Handle, NEW k \in Key, Read(h, k)
  PROVE  Store!Read(h, k)
<1>1. /\ result' = <<h, k, ReadValue(h, k)>>
      /\ pdb' = pdb /\ activeBatch' = activeBatch
  BY DEF Read
<1>2. pdb \in [Key -> Value \cup {NoValue}]
  BY DEF TypeOK
<1>3. ReadValue(h, k) = Store!Overlay(pdb, Pending[h])[k]
  <2>1. CASE activeBatch[h] = NULL
    <3>1. Pending[h] = Store!Empty /\ ReadValue(h, k) = pdb[k]
      BY <2>1 DEF Pending, Store!Empty, ReadValue
    <3> QED
      BY <3>1, <1>2, OverlayEmpty
  <2>2. CASE activeBatch[h] # NULL
    <3>1. activeBatch[h] \in Seq(Entry) /\ Pending[h] = Net(activeBatch[h])
      BY <2>2 DEF TypeOK, Pending
    <3> QED
      BY <2>2, <3>1, <1>2, ScanIsOverlay DEF ReadValue
  <2> QED
    BY <2>1, <2>2
<1>4. InTxn' = InTxn /\ Pending' = Pending
  BY <1>1 DEF InTxn, Pending
<1> QED
  BY <1>1, <1>3, <1>4 DEF Store!Read, Pending

LEMMA CrashSimulates ==
  ASSUME TypeOK, Crash
  PROVE  Store!Crash
BY DEF Crash, Store!Crash, InTxn, Store!Empty, TypeOK

LEMMA StepSimulates ==
  ASSUME TypeOK, [Next]_vars
  PROVE  [Store!Next]_Store!storeVars
<1>1. CASE UNCHANGED vars
  BY <1>1 DEF vars, Store!storeVars, InTxn
<1>2. ASSUME NEW h \in Handle, TxnBegin(h) PROVE Store!Next
  BY <1>2, BeginSimulates DEF Store!Next
<1>3. ASSUME NEW h \in Handle, TxnCommit(h) PROVE Store!Next
  BY <1>3, CommitSimulates DEF Store!Next
<1>4. ASSUME NEW h \in Handle, TxnCommitFails(h) \/ TxnAbort(h) PROVE Store!Next
  <2>1. activeBatch[h] # NULL /\ Dropped(h) /\ pdb' = pdb /\ result' = result
    BY <1>4 DEF TxnCommitFails, TxnAbort
  <2> QED
    BY <2>1, DropSimulates DEF Store!Next
<1>5. ASSUME NEW h \in Handle, NEW readOnly \in BOOLEAN, OpenHandle(h, readOnly)
      PROVE  Store!Next \/ UNCHANGED Store!storeVars
  BY <1>5, OpenSimulates DEF Store!Next
<1>6. ASSUME NEW h \in Handle, NEW k \in Key, Read(h, k) PROVE Store!Next
  BY <1>6, ReadSimulates DEF Store!Next
<1>7. ASSUME NEW h \in Handle, NEW k \in Key, NEW v \in Value \cup {NoValue}, Write(h, k, v)
      PROVE  Store!Next
  BY <1>7, WriteSimulates DEF Store!Next
<1>8. CASE Crash
  BY <1>8, CrashSimulates DEF Store!Next
<1> QED
  BY <1>1, <1>2, <1>3, <1>4, <1>5, <1>6, <1>7, <1>8 DEF Next

(* CTxDB implements the transactional store: what Read finds by scanning the     *)
(* handle's log and then the database, and what LevelDB makes of the log in      *)
(* TxnCommit, are one set of pending changes, visible to their own handle only   *)
(* and applied whole or not at all.                                              *)
THEOREM DatabaseImplementsStore == Spec => ImplementsStore
<1>1. TypeOK /\ [Next]_vars => [Store!Next]_Store!storeVars
  BY StepSimulates
<1>2. Spec => []TypeOK
  BY DatabaseTypes
<1> QED
  BY <1>1, <1>2, InitSimulates, PTL DEF Spec, ImplementsStore, Store!Spec

=============================================================================
