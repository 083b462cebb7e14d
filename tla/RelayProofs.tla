----------------------------- MODULE RelayProofs -----------------------------
(***************************************************************************)
(* Blocks and transactions that arrive before what they need.  First the   *)
(* orphan transactions and the pool of TxRelay, for every set of           *)
(* transactions, peers and limits; then OrphanBlocks, for every tree of    *)
(* blocks, every assignment of stakes and every limit.  The two machines   *)
(* share no state; the names of OrphanBlocks begin with Orphan where       *)
(* TxRelay has one of its own.                                             *)
(***************************************************************************)
EXTENDS TxRelay, OrphanBlocks, FiniteSetTheorems, SequenceTheorems, WellFoundedInduction, TLAPS

-----------------------------------------------------------------------------
(* The inductive invariant. *)

(* What mapOrphanTransactionsByPrev holds for a set O of orphans. *)
Filed(O) ==
  [p \in UNION {PrevTxs(t) : t \in O} |-> {t \in O : p \in PrevTxs(t)}]

(* A pool whose mapNextTx has an entry for each outpoint a transaction of it   *)
(* spends: this is where AcceptToMemoryPool looks for conflicts.               *)
PoolOK(pool) ==
  /\ pool.mapTx \subseteq Tx
  /\ SpentBy(pool.mapTx) \subseteq DOMAIN pool.mapNextTx
  /\ \A s, t \in pool.mapTx : s # t => vin[s] \cap vin[t] = {}

OrphanTxLimit ==
  IsFiniteSet(mapOrphanTransactions) /\ Cardinality(mapOrphanTransactions) <= MAX_ORPHAN_TRANSACTIONS

RInv == TypeOK /\ ByPrevExact /\ PoolOK(mempool) /\ OrphanTxLimit

-----------------------------------------------------------------------------
(* mapOrphanTransactionsByPrev. *)

LEMMA FiledFacts ==
  ASSUME NEW O
  PROVE  /\ \A p : p \in DOMAIN Filed(O) <=> \E t \in O : p \in PrevTxs(t)
         /\ \A p \in DOMAIN Filed(O) : Filed(O)[p] = {t \in O : p \in PrevTxs(t)}
         /\ \A p : WaitingFor(Filed(O), p) = {t \in O : p \in PrevTxs(t)}
<1>1. \A p : p \in DOMAIN Filed(O) <=> \E t \in O : p \in PrevTxs(t)
  BY DEF Filed
<1>2. \A p \in DOMAIN Filed(O) : Filed(O)[p] = {t \in O : p \in PrevTxs(t)}
  BY DEF Filed
<1> QED
  BY <1>1, <1>2 DEF WaitingFor

(* Functions with equal domains and values are equal. *)
LEMMA AddOrphanFiled ==
  ASSUME NEW O, NEW t
  PROVE  AddOrphanTx(Filed(O), t) = Filed(O \cup {t})
<1> DEFINE a == AddOrphanTx(Filed(O), t)
           f == Filed(O \cup {t})
<1>1. a = [p \in DOMAIN a |-> a[p]] /\ f = [p \in DOMAIN f |-> f[p]]
  BY DEF AddOrphanTx, Filed
<1>2. DOMAIN a = DOMAIN Filed(O) \cup PrevTxs(t)
  BY DEF AddOrphanTx
<1>3. \A p : p \in DOMAIN f <=> \E u \in O \cup {t} : p \in PrevTxs(u)
  BY FiledFacts
<1>4. DOMAIN a = DOMAIN f
  BY <1>2, <1>3, FiledFacts
<1>5. ASSUME NEW p \in DOMAIN f PROVE a[p] = f[p]
  <2>1. f[p] = {u \in O \cup {t} : p \in PrevTxs(u)}
    BY FiledFacts
  <2>2. CASE p \in PrevTxs(t)
    <3>1. a[p] = {u \in O : p \in PrevTxs(u)} \cup {t}
      BY <1>2, <2>2, FiledFacts DEF AddOrphanTx
    <3> QED
      BY <2>1, <2>2, <3>1
  <2>3. CASE p \notin PrevTxs(t)
    <3>1. p \in DOMAIN Filed(O) /\ a[p] = Filed(O)[p]
      BY <1>2, <1>4, <2>3 DEF AddOrphanTx
    <3>2. a[p] = {u \in O : p \in PrevTxs(u)}
      BY <3>1, FiledFacts
    <3> QED
      BY <2>1, <2>3, <3>2
  <2> QED
    BY <2>2, <2>3
<1> HIDE DEF a, f
<1> QED
  BY <1>1, <1>4, <1>5, Zenon DEF a, f

LEMMA EraseOrphansFiled ==
  ASSUME NEW O, NEW T
  PROVE  EraseOrphanTxs(Filed(O), T) = Filed(O \ T)
<1> DEFINE a == EraseOrphanTxs(Filed(O), T)
           f == Filed(O \ T)
<1>1. a = [p \in DOMAIN a |-> a[p]] /\ f = [p \in DOMAIN f |-> f[p]]
  BY DEF EraseOrphanTxs, Filed
<1>2. DOMAIN a = {p \in DOMAIN Filed(O) : Filed(O)[p] \ T # {}}
  BY DEF EraseOrphanTxs
<1>3. \A p : p \in DOMAIN a <=> \E u \in O \ T : p \in PrevTxs(u)
  <2> TAKE p
  <2>1. ASSUME p \in DOMAIN a PROVE \E u \in O \ T : p \in PrevTxs(u)
    BY <1>2, <2>1, FiledFacts
  <2>2. ASSUME NEW u \in O \ T, p \in PrevTxs(u) PROVE p \in DOMAIN a
    BY <1>2, <2>2, FiledFacts
  <2> QED
    BY <2>1, <2>2
<1>4. DOMAIN a = DOMAIN f
  BY <1>3, FiledFacts
<1>5. ASSUME NEW p \in DOMAIN f PROVE a[p] = f[p]
  <2>1. f[p] = {u \in O \ T : p \in PrevTxs(u)}
    BY FiledFacts
  <2>2. p \in DOMAIN Filed(O) /\ a[p] = Filed(O)[p] \ T
    BY <1>2, <1>4 DEF EraseOrphanTxs
  <2>3. a[p] = {u \in O : p \in PrevTxs(u)} \ T
    BY <2>2, FiledFacts
  <2> QED
    BY <2>1, <2>3
<1> HIDE DEF a, f
<1> QED
  BY <1>1, <1>4, <1>5, Zenon DEF a, f

-----------------------------------------------------------------------------
(* The pool. *)

LEMMA SpentByFacts ==
  ASSUME NEW T
  PROVE  \A o : o \in SpentBy(T) <=> \E t \in T : o \in vin[t]
BY DEF SpentBy

LEMMA AddUncheckedOK ==
  ASSUME NEW pool, PoolOK(pool), NEW t \in Tx, vin[t] \cap DOMAIN pool.mapNextTx = {}
  PROVE  PoolOK(addUnchecked(pool, t))
<1> DEFINE a == addUnchecked(pool, t)
<1>1. a.mapTx = pool.mapTx \cup {t} /\ DOMAIN a.mapNextTx = DOMAIN pool.mapNextTx \cup vin[t]
  BY DEF addUnchecked
<1> HIDE DEF a
<1>2. a.mapTx \subseteq Tx
  BY <1>1 DEF PoolOK
<1>3. SpentBy(a.mapTx) \subseteq DOMAIN a.mapNextTx
  BY <1>1, SpentByFacts DEF PoolOK
<1>4. ASSUME NEW s \in pool.mapTx PROVE vin[s] \cap vin[t] = {}
  BY <1>4, SpentByFacts DEF PoolOK
<1>5. \A s, u \in a.mapTx : s # u => vin[s] \cap vin[u] = {}
  BY <1>1, <1>4 DEF PoolOK
<1> QED
  BY <1>2, <1>3, <1>5 DEF PoolOK, a

LEMMA RemoveOK ==
  ASSUME NEW pool, PoolOK(pool), NEW t
  PROVE  PoolOK(remove(pool, {t}))
<1> DEFINE a == remove(pool, {t})
<1>1. CASE t \notin pool.mapTx
  <2>1. {t} \cap pool.mapTx = {}
    BY <1>1
  <2>2. SpentBy({}) = {}
    BY DEF SpentBy
  <2>3. a.mapTx = pool.mapTx /\ DOMAIN a.mapNextTx = DOMAIN pool.mapNextTx
    BY <2>1, <2>2 DEF remove, EraseAll
  <2> HIDE DEF a
  <2> QED
    BY <2>3 DEF PoolOK, a
<1>2. CASE t \in pool.mapTx
  <2>1. {t} \cap pool.mapTx = {t} /\ SpentBy({t}) = vin[t]
    BY <1>2 DEF SpentBy
  <2>2. a.mapTx = pool.mapTx \ {t} /\ DOMAIN a.mapNextTx = DOMAIN pool.mapNextTx \ vin[t]
    BY <2>1 DEF remove, EraseAll
  <2> HIDE DEF a
  <2>3. SpentBy(a.mapTx) \subseteq DOMAIN a.mapNextTx
    <3> SUFFICES ASSUME NEW s \in pool.mapTx, s # t, NEW o \in vin[s]
                 PROVE  o \in DOMAIN pool.mapNextTx /\ o \notin vin[t]
      BY <2>2, SpentByFacts
    <3>1. o \in DOMAIN pool.mapNextTx
      BY SpentByFacts DEF PoolOK
    <3>2. vin[s] \cap vin[t] = {}
      BY <1>2 DEF PoolOK
    <3> QED
      BY <3>1, <3>2
  <2>4. a.mapTx \subseteq Tx /\ \A s, u \in a.mapTx : s # u => vin[s] \cap vin[u] = {}
    BY <2>2 DEF PoolOK
  <2> QED
    BY <2>3, <2>4 DEF PoolOK, a
<1> QED
  BY <1>1, <1>2

(* What AcceptToMemoryPool has checked. *)
LEMMA AcceptedFacts ==
  ASSUME NEW pool, NEW barred, NEW t, Verdict(pool, barred, t) = "accepted"
  PROVE  t \in Tx /\ t \notin pool.mapTx /\ vin[t] \cap DOMAIN pool.mapNextTx = {}
BY RelayAssumption DEF Verdict

-----------------------------------------------------------------------------
(* The loop over vWorkQueue. *)

LEMMA LeastNumber ==
  ASSUME NEW S \in SUBSET Nat, S # {}
  PROVE  \E m \in S : \A n \in S : m <= n
<1> DEFINE R == OpToRel(<, Nat)
<1>1. IsWellFoundedOn(R, Nat)
  BY NatLessThanWellFounded
<1>2. \A x, y \in Nat : y < x => <<y, x>> \in R
  BY DEF OpToRel
<1> HIDE DEF R
<1>3. PICK m \in S : \A y \in S : ~(<<y, m>> \in R)
  BY <1>1, WFMin
<1>4. \A n \in S : ~(n < m)
  BY <1>2, <1>3
<1> QED
  BY <1>4

(* What every step of the loop preserves. *)
LoopOK(s) ==
  PoolOK(s.pool) /\ s.todo \subseteq mapOrphanTransactions /\ s.work \in Seq(Tx)

Drained(s) == s.todo = {} /\ s.work = << >>

(* The entries the queue still has, or may still get. *)
Entries(s) == Len(s.work) + Cardinality(mapOrphanTransactions \ s.pool.mapTx)

(* A bound on the steps the loop still takes. *)
StepsLeft(s) == Cardinality(s.todo) + (Cardinality(mapOrphanTransactions) + 1) * Entries(s)

LEMMA StepsLeftNat ==
  ASSUME IsFiniteSet(mapOrphanTransactions), NEW s, LoopOK(s)
  PROVE  /\ Cardinality(mapOrphanTransactions) \in Nat
         /\ IsFiniteSet(s.todo) /\ Cardinality(s.todo) \in Nat
         /\ Cardinality(s.todo) <= Cardinality(mapOrphanTransactions)
         /\ IsFiniteSet(mapOrphanTransactions \ s.pool.mapTx)
         /\ Cardinality(mapOrphanTransactions \ s.pool.mapTx) \in Nat
         /\ Len(s.work) \in Nat /\ Entries(s) \in Nat /\ StepsLeft(s) \in Nat
<1> DEFINE O == mapOrphanTransactions
           N == Cardinality(O) + 1
<1>1. Cardinality(O) \in Nat
  BY FS_CardinalityType
<1>2. IsFiniteSet(s.todo) /\ Cardinality(s.todo) <= Cardinality(O)
  BY FS_Subset DEF LoopOK
<1>3. Cardinality(s.todo) \in Nat
  BY <1>2, FS_CardinalityType
<1>4. IsFiniteSet(O \ s.pool.mapTx)
  BY FS_Difference
<1>5. Cardinality(O \ s.pool.mapTx) \in Nat
  BY <1>4, FS_CardinalityType
<1>6. Len(s.work) \in Nat
  BY DEF LoopOK
<1>7. Entries(s) \in Nat
  BY <1>5, <1>6 DEF Entries
<1>8. N * Entries(s) \in Nat
  BY <1>1, <1>7
<1>9. StepsLeft(s) \in Nat
  BY <1>3, <1>8 DEF StepsLeft
<1> QED
  BY <1>1, <1>2, <1>3, <1>4, <1>5, <1>6, <1>7, <1>9

LEMMA NothingLeft ==
  ASSUME IsFiniteSet(mapOrphanTransactions), NEW s, LoopOK(s), StepsLeft(s) = 0
  PROVE  Drained(s)
<1> DEFINE N == Cardinality(mapOrphanTransactions) + 1
<1>1. /\ N \in Nat \ {0} /\ Len(s.work) \in Nat /\ Entries(s) \in Nat
      /\ IsFiniteSet(s.todo) /\ Cardinality(s.todo) \in Nat
      /\ Cardinality(mapOrphanTransactions \ s.pool.mapTx) \in Nat
  BY StepsLeftNat
<1>2. Cardinality(s.todo) + N * Entries(s) = 0
  BY DEF StepsLeft
<1> HIDE DEF N
<1>3. N * Entries(s) \in Nat
  BY <1>1
<1>4. Cardinality(s.todo) = 0 /\ N * Entries(s) = 0
  BY <1>1, <1>2, <1>3
<1>5. Entries(s) = 0
  BY <1>1, <1>4
<1>6. Len(s.work) = 0
  BY <1>1, <1>5 DEF Entries
<1>7. s.work = << >>
  BY <1>6 DEF LoopOK
<1>8. s.todo = {}
  BY <1>1, <1>4, FS_EmptySet
<1> QED
  BY <1>7, <1>8 DEF Drained

(* One orphan: accepted, it moves from the orphans not in the pool to the queue. *)
LEMMA TryOrphanOK ==
  ASSUME TypeOK, IsFiniteSet(mapOrphanTransactions), NEW s, LoopOK(s), NEW t \in s.todo
  PROVE  LoopOK(TryOrphan(s, t)) /\ StepsLeft(TryOrphan(s, t)) = StepsLeft(s) - 1
<1> DEFINE O == mapOrphanTransactions
           N == Cardinality(O) + 1
           r == TryOrphan(s, t)
<1>0. t \in O /\ t \in Tx
  BY DEF LoopOK, TypeOK
<1>a. /\ Cardinality(O) \in Nat /\ Len(s.work) \in Nat /\ Entries(s) \in Nat /\ StepsLeft(s) \in Nat
      /\ IsFiniteSet(s.todo) /\ Cardinality(s.todo) \in Nat
      /\ IsFiniteSet(O \ s.pool.mapTx) /\ Cardinality(O \ s.pool.mapTx) \in Nat
  BY StepsLeftNat
<1>b. N * Entries(s) \in Nat
  BY <1>a
<1>1. r.todo = s.todo \ {t} /\ r.todo \subseteq O
  BY DEF TryOrphan, LoopOK
<1>2. Cardinality(r.todo) = Cardinality(s.todo) - 1
  BY <1>1, <1>a, FS_RemoveElement
<1>3. CASE Verdict(s.pool, s.barred, t) = "accepted"
  <2>1. r.pool = addUnchecked(s.pool, t) /\ r.work = Append(s.work, t)
    BY <1>3 DEF TryOrphan
  <2>2. t \notin s.pool.mapTx /\ vin[t] \cap DOMAIN s.pool.mapNextTx = {}
    BY <1>3, AcceptedFacts
  <2>3. PoolOK(r.pool)
    BY <2>1, <2>2, <1>0, AddUncheckedOK DEF LoopOK
  <2>4. r.work \in Seq(Tx) /\ Len(r.work) = Len(s.work) + 1
    BY <2>1, <1>0 DEF LoopOK
  <2>5. r.pool.mapTx = s.pool.mapTx \cup {t}
    BY <2>1 DEF addUnchecked
  <2>6. O \ r.pool.mapTx = (O \ s.pool.mapTx) \ {t} /\ t \in O \ s.pool.mapTx
    BY <2>2, <2>5, <1>0
  <2>7. Cardinality(O \ r.pool.mapTx) = Cardinality(O \ s.pool.mapTx) - 1
    <3>1. \A S : IsFiniteSet(S) => \A x \in S : Cardinality(S \ {x}) = Cardinality(S) - 1
      BY FS_RemoveElement
    <3> QED
      BY <1>a, <2>6, <3>1, Zenon
  <2> HIDE DEF r, O
  <2>8. Entries(r) = Entries(s)
    <3>1. Entries(r) = Len(r.work) + Cardinality(O \ r.pool.mapTx)
          /\ Entries(s) = Len(s.work) + Cardinality(O \ s.pool.mapTx)
      BY DEF Entries, O
    <3> QED
      BY <2>4, <2>7, <1>a, <3>1
  <2>9. LoopOK(r)
    BY <1>1, <2>3, <2>4 DEF LoopOK, O
  <2>10. StepsLeft(r) = Cardinality(r.todo) + N * Entries(s) /\ StepsLeft(s) = Cardinality(s.todo) + N * Entries(s)
    BY <2>8 DEF StepsLeft, O
  <2> HIDE DEF N
  <2>11. StepsLeft(r) = StepsLeft(s) - 1
    BY <1>2, <1>a, <1>b, <2>10
  <2> QED
    BY <2>9, <2>11 DEF r
<1>4. CASE Verdict(s.pool, s.barred, t) # "accepted"
  <2>1. r.pool = s.pool /\ r.work = s.work
    BY <1>4 DEF TryOrphan
  <2> HIDE DEF r
  <2>2. Entries(r) = Entries(s)
    BY <2>1 DEF Entries
  <2>3. LoopOK(r)
    BY <1>1, <2>1 DEF LoopOK
  <2>4. StepsLeft(r) = Cardinality(r.todo) + N * Entries(s) /\ StepsLeft(s) = Cardinality(s.todo) + N * Entries(s)
    BY <2>2 DEF StepsLeft
  <2> HIDE DEF N
  <2>5. StepsLeft(r) = StepsLeft(s) - 1
    BY <1>2, <1>a, <1>b, <2>4
  <2> QED
    BY <2>3, <2>5 DEF r
<1> QED
  BY <1>3, <1>4 DEF r

LEMMA LoopStepOK ==
  ASSUME TypeOK, ByPrevExact, IsFiniteSet(mapOrphanTransactions), NEW s, LoopOK(s)
  PROVE  /\ LoopOK(LoopStep(s))
         /\ Drained(s) => LoopStep(s) = s
         /\ ~Drained(s) => StepsLeft(LoopStep(s)) <= StepsLeft(s) - 1
<1> DEFINE O == mapOrphanTransactions
           N == Cardinality(O) + 1
           r == LoopStep(s)
<1>a. /\ Cardinality(O) \in Nat /\ Len(s.work) \in Nat /\ Entries(s) \in Nat /\ StepsLeft(s) \in Nat
      /\ Cardinality(O \ s.pool.mapTx) \in Nat
  BY StepsLeftNat
<1>1. CASE s.todo # {}
  <2> DEFINE t == CHOOSE u \in s.todo : TRUE
  <2>1. t \in s.todo /\ r = TryOrphan(s, t)
    BY <1>1 DEF LoopStep
  <2> HIDE DEF t, r
  <2>2. LoopOK(r) /\ StepsLeft(r) = StepsLeft(s) - 1
    BY <2>1, TryOrphanOK
  <2>3. StepsLeft(r) <= StepsLeft(s) - 1
    BY <2>2, <1>a
  <2> QED
    BY <1>1, <2>2, <2>3 DEF Drained, r
<1>2. CASE s.todo = {} /\ s.work # << >>
  <2>1. /\ r.pool = s.pool /\ r.work = Tail(s.work)
        /\ r.todo = WaitingFor(mapOrphanTransactionsByPrev, Head(s.work))
    BY <1>2 DEF LoopStep
  <2> HIDE DEF r
  <2>2. r.todo \subseteq O
    <3>1. mapOrphanTransactionsByPrev = Filed(O)
      BY DEF ByPrevExact, Filed
    <3> QED
      BY <2>1, <3>1, FiledFacts
  <2>3. r.work \in Seq(Tx) /\ Len(r.work) = Len(s.work) - 1
    BY <1>2, <2>1 DEF LoopOK
  <2>4. LoopOK(r)
    BY <2>1, <2>2, <2>3 DEF LoopOK
  <2>5. Entries(r) = Entries(s) - 1 /\ Entries(s) \in Nat /\ N \in Nat
    <3>1. Entries(r) = Len(r.work) + Cardinality(O \ s.pool.mapTx)
          /\ Entries(s) = Len(s.work) + Cardinality(O \ s.pool.mapTx)
      BY <2>1 DEF Entries
    <3> HIDE DEF O
    <3> QED
      BY <2>3, <1>a, <3>1
  <2>6. Cardinality(s.todo) = 0
    BY <1>2, FS_EmptySet
  <2>7. Cardinality(r.todo) \in Nat /\ Cardinality(r.todo) <= N - 1
    <3>1. Cardinality(r.todo) \in Nat /\ Cardinality(r.todo) <= Cardinality(O)
      BY <2>4, StepsLeftNat
    <3> QED
      BY <1>a, <3>1
  <2>8. N * (Entries(s) - 1) = N * Entries(s) - N /\ N * Entries(s) \in Nat
    <3> HIDE DEF N
    <3> QED
      BY <2>5
  <2>9. StepsLeft(r) = Cardinality(r.todo) + (N * Entries(s) - N) /\ StepsLeft(s) = N * Entries(s)
    BY <2>5, <2>6, <2>8 DEF StepsLeft
  <2>10. StepsLeft(r) <= StepsLeft(s) - 1
    <3> HIDE DEF N
    <3> QED
      BY <2>5, <2>7, <2>8, <2>9
  <2> QED
    BY <1>2, <2>4, <2>10 DEF Drained, r
<1>3. CASE Drained(s)
  BY <1>3 DEF LoopStep, Drained
<1> QED
  BY <1>1, <1>2, <1>3 DEF Drained

(* The loop is a well-defined recursion. *)
LEMMA StepsExist ==
  ASSUME NEW s, NEW k \in Nat
  PROVE  \E f : f = [i \in 0 .. k |-> IF i = 0 THEN s ELSE LoopStep(f[i - 1])]
<1> DEFINE Defined(m) == \E f : f = [i \in 0 .. m |-> IF i = 0 THEN s ELSE LoopStep(f[i - 1])]
           B == {m \in Nat : ~Defined(m)}
<1> SUFFICES ASSUME ~Defined(k) PROVE FALSE
  OBVIOUS
<1>1. PICK m \in B : \A x \in B : m <= x
  <2> HIDE DEF Defined
  <2>1. B # {} /\ B \in SUBSET Nat
    OBVIOUS
  <2> QED
    BY <2>1, LeastNumber
<1>2. m # 0
  <2> SUFFICES ASSUME m = 0 PROVE Defined(0)
    OBVIOUS
  <2> DEFINE f == [i \in 0 .. 0 |-> s]
  <2>1. f = [i \in 0 .. 0 |-> IF i = 0 THEN s ELSE LoopStep(f[i - 1])]
    OBVIOUS
  <2> QED
    BY <2>1
<1>3. m - 1 \in Nat /\ Defined(m - 1)
  <2> HIDE DEF Defined
  <2> QED
    BY <1>1, <1>2
<1>4. PICK f : f = [i \in 0 .. m - 1 |-> IF i = 0 THEN s ELSE LoopStep(f[i - 1])]
  BY <1>3
<1> DEFINE g == [i \in 0 .. m |-> IF i = 0 THEN s ELSE LoopStep(f[i - 1])]
<1>5. \A i \in 0 .. m - 1 : g[i] = f[i]
  BY <1>3, <1>4
<1>6. g = [i \in 0 .. m |-> IF i = 0 THEN s ELSE LoopStep(g[i - 1])]
  <2>1. \A i \in 0 .. m : i # 0 => i - 1 \in 0 .. m - 1
    BY <1>3
  <2> QED
    BY <2>1, <1>5
<1>7. Defined(m)
  <2> HIDE DEF g
  <2> QED
    BY <1>6
<1> QED
  <2> HIDE DEF Defined
  <2> QED
    BY <1>7

(* The work queue keeps the pool in order and is worked off to its end. *)
LEMMA WorkQueueOK ==
  ASSUME TypeOK, ByPrevExact, IsFiniteSet(mapOrphanTransactions),
         NEW s, LoopOK(s), StepsLeft(s) <= LoopSteps
  PROVE  LoopOK(WorkQueue(s)) /\ Drained(WorkQueue(s))
<1> DEFINE k == LoopSteps
           f == CHOOSE g : g = [i \in 0 .. k |-> IF i = 0 THEN s ELSE LoopStep(g[i - 1])]
           OK(e, i) == LoopOK(e) /\ (Drained(e) \/ StepsLeft(e) <= k - i)
<1>1. k \in Nat
  <2>1. Cardinality(mapOrphanTransactions) \in Nat
    BY FS_CardinalityType
  <2> QED
    BY <2>1 DEF LoopSteps
<1>2. WorkQueue(s) = f[k]
  BY DEF WorkQueue
<1>k. StepsLeft(s) <= k
  OBVIOUS
<1> HIDE DEF k
<1>3. f = [i \in 0 .. k |-> IF i = 0 THEN s ELSE LoopStep(f[i - 1])]
  BY <1>1, StepsExist
<1> HIDE DEF f
<1>4. ASSUME NEW i \in 0 .. k, i # 0, OK(f[i - 1], i - 1)
      PROVE  OK(f[i], i)
  <2> DEFINE e == f[i - 1]
  <2>1. f[i] = LoopStep(e)
    BY <1>1, <1>3, <1>4
  <2>2. LoopOK(e) /\ (Drained(e) \/ StepsLeft(e) <= k - (i - 1))
    BY <1>4
  <2> HIDE DEF e
  <2>3. /\ LoopOK(LoopStep(e)) /\ (Drained(e) => LoopStep(e) = e)
        /\ ~Drained(e) => StepsLeft(LoopStep(e)) <= StepsLeft(e) - 1
    BY <2>2, LoopStepOK
  <2>4. CASE Drained(e)
    BY <2>1, <2>3, <2>4
  <2>5. CASE ~Drained(e)
    <3>1. StepsLeft(e) \in Nat /\ StepsLeft(LoopStep(e)) \in Nat
      BY <2>2, <2>3, StepsLeftNat
    <3>2. StepsLeft(LoopStep(e)) <= k - i
      BY <1>1, <2>2, <2>3, <2>5, <3>1
    <3> QED
      BY <2>1, <2>3, <3>2
  <2> QED
    BY <2>4, <2>5
<1>5. OK(f[0], 0)
  <2>1. f[0] = s
    BY <1>1, <1>3
  <2> QED
    BY <2>1, <1>1, <1>k
<1> HIDE DEF OK
<1>6. \A i \in 0 .. k : OK(f[i], i)
  <2> DEFINE B == {i \in 0 .. k : ~OK(f[i], i)}
  <2> SUFFICES ASSUME B # {} PROVE FALSE
    OBVIOUS
  <2>0. B \in SUBSET Nat
    BY <1>1
  <2>1. PICK i \in B : \A x \in B : i <= x
    BY <2>0, LeastNumber
  <2>2. i # 0 /\ i \in 0 .. k /\ i - 1 \in 0 .. k /\ ~(i <= i - 1)
    BY <1>1, <1>5, <2>1
  <2>3. OK(f[i - 1], i - 1)
    BY <2>1, <2>2
  <2> QED
    BY <2>1, <2>2, <2>3, <1>4
<1>7. OK(f[k], k)
  BY <1>1, <1>6
<1>8. Drained(f[k])
  <2> SUFFICES ASSUME ~Drained(f[k]) PROVE FALSE
    OBVIOUS
  <2>1. LoopOK(f[k]) /\ StepsLeft(f[k]) <= k - k
    BY <1>7 DEF OK
  <2>2. StepsLeft(f[k]) \in Nat
    BY <2>1, StepsLeftNat
  <2>3. StepsLeft(f[k]) = 0
    BY <2>1, <2>2, <1>1
  <2> QED
    BY <2>1, <2>3, NothingLeft
<1> QED
  BY <1>2, <1>7, <1>8 DEF OK

(* The loop started by an accepted transaction. *)
LEMMA AcceptedQueue ==
  ASSUME RInv, NEW t \in Tx, NEW barred, Verdict(mempool, barred, t) = "accepted"
  PROVE  LET s == WorkQueue(Started(t, barred)) IN LoopOK(s) /\ Drained(s)
<1> DEFINE O == mapOrphanTransactions
           N == Cardinality(O) + 1
           s == Started(t, barred)
<1>0. TypeOK /\ ByPrevExact /\ PoolOK(mempool) /\ IsFiniteSet(O)
  BY DEF RInv, OrphanTxLimit
<1>1. s.pool = addUnchecked(mempool, t) /\ s.work = <<t>> /\ s.todo = {}
  BY DEF Started
<1> HIDE DEF s
<1>2. PoolOK(s.pool)
  BY <1>0, <1>1, AcceptedFacts, AddUncheckedOK
<1>3. s.work \in Seq(Tx) /\ Len(s.work) = 1
  BY <1>1
<1>4. LoopOK(s)
  BY <1>1, <1>2, <1>3 DEF LoopOK
<1>5. Cardinality(O) \in Nat
  BY <1>0, FS_CardinalityType
<1>6. Cardinality(O \ s.pool.mapTx) \in Nat /\ Cardinality(O \ s.pool.mapTx) <= Cardinality(O)
  <2>1. O \ s.pool.mapTx \in SUBSET O
    OBVIOUS
  <2>2. IsFiniteSet(O \ s.pool.mapTx) /\ Cardinality(O \ s.pool.mapTx) <= Cardinality(O)
    BY <1>0, <2>1, FS_Subset
  <2> QED
    BY <2>2, FS_CardinalityType
<1>7. Entries(s) \in Nat /\ Entries(s) <= N /\ N \in Nat
  BY <1>3, <1>5, <1>6 DEF Entries
<1>8. Cardinality(s.todo) = 0
  BY <1>1, FS_EmptySet
<1>9. N * Entries(s) <= N * N /\ N * Entries(s) \in Nat
  <2> HIDE DEF N
  <2> QED
    BY <1>7
<1>10. StepsLeft(s) <= LoopSteps
  <2>1. StepsLeft(s) = 0 + N * Entries(s) /\ LoopSteps = N * N
    BY <1>8 DEF StepsLeft, LoopSteps
  <2> HIDE DEF N
  <2> QED
    BY <2>1, <1>9
<1>11. LoopOK(WorkQueue(s)) /\ Drained(WorkQueue(s))
  BY <1>0, <1>4, <1>10, WorkQueueOK
<1> QED
  BY <1>11 DEF s

-----------------------------------------------------------------------------
(* The invariant is inductive. *)

LEMMA InitRInv == Init => RInv
<1> SUFFICES ASSUME Init PROVE RInv
  OBVIOUS
<1>1. mempool.mapTx = {} /\ mapOrphanTransactions = {}
  BY DEF Init, EmptyPool
<1>2. TypeOK
  BY <1>1, RelayAssumption DEF Init, TypeOK
<1>3. ByPrevExact
  BY <1>1 DEF Init, ByPrevExact
<1>4. PoolOK(mempool)
  BY <1>1 DEF PoolOK, SpentBy
<1>5. OrphanTxLimit
  BY <1>1, FS_EmptySet, RelayAssumption DEF OrphanTxLimit
<1> QED
  BY <1>2, <1>3, <1>4, <1>5 DEF RInv

(* Steps that leave pool and orphans alone keep all but the types of the queues. *)
LEMMA SameOrphans ==
  ASSUME RInv, TypeOK', mempool' = mempool, UNCHANGED orphanVars
  PROVE  RInv'
BY DEF RInv, ByPrevExact, OrphanTxLimit, orphanVars, PoolOK

(* The parts of the types an answered request changes. *)
LEMMA AnsweredTypes ==
  ASSUME TypeOK, NEW n \in Node, NEW t \in Tx, Answered(n, t),
         mapOrphanTransactions' \subseteq Tx, mempool'.mapTx \subseteq Tx
  PROVE  TypeOK'
<1>1. -Retry \in -Retry .. MaxDelay
  BY RelayAssumption
<1> QED
  BY <1>1 DEF TypeOK, Answered

LEMMA TxAcceptedRInv ==
  ASSUME RInv, NEW n \in Node, NEW t \in Tx, TxAccepted(n, t)
  PROVE  RInv'
<1>0. PICK barred \in Barred(t) :
        LET w == WorkQueue(Started(t, barred))
        IN  /\ Verdict(mempool, barred, t) = "accepted"
            /\ mempool' = w.pool
            /\ mapOrphanTransactions' = mapOrphanTransactions \ w.erase
            /\ mapOrphanTransactionsByPrev' = EraseOrphanTxs(mapOrphanTransactionsByPrev, w.erase)
            /\ Answered(n, t)
  BY DEF TxAccepted
<1> DEFINE O == mapOrphanTransactions
           s == WorkQueue(Started(t, barred))
<1>1. /\ Verdict(mempool, barred, t) = "accepted" /\ mempool' = s.pool
      /\ mapOrphanTransactions' = O \ s.erase
      /\ mapOrphanTransactionsByPrev' = EraseOrphanTxs(mapOrphanTransactionsByPrev, s.erase)
      /\ Answered(n, t)
  BY <1>0
<1>2. LoopOK(s)
  BY <1>1, AcceptedQueue
<1>p. PICK r : r = s
  OBVIOUS
<1> HIDE DEF s
<1>3. PoolOK(mempool)' /\ mempool'.mapTx \subseteq Tx
  BY <1>1, <1>2 DEF LoopOK, PoolOK
<1>4. mapOrphanTransactions' \subseteq Tx
  BY <1>1 DEF RInv, TypeOK
<1>5. TypeOK'
  BY <1>1, <1>3, <1>4, AnsweredTypes DEF RInv
<1>6. mapOrphanTransactionsByPrev = Filed(O)
  BY DEF RInv, ByPrevExact, Filed
<1>7. mapOrphanTransactionsByPrev' = Filed(O \ r.erase)
  BY <1>1, <1>6, <1>p, EraseOrphansFiled
<1>8. ByPrevExact'
  BY <1>1, <1>7, <1>p DEF ByPrevExact, Filed
<1>9. OrphanTxLimit'
  <2>1. IsFiniteSet(O) /\ Cardinality(O) \in Nat /\ Cardinality(O) <= MAX_ORPHAN_TRANSACTIONS
    BY FS_CardinalityType DEF RInv, OrphanTxLimit
  <2>2. O \ r.erase \in SUBSET O
    OBVIOUS
  <2>3. IsFiniteSet(O \ r.erase) /\ Cardinality(O \ r.erase) <= Cardinality(O)
    BY <2>1, <2>2, FS_Subset
  <2>4. Cardinality(O \ r.erase) \in Nat
    BY <2>3, FS_CardinalityType
  <2>5. Cardinality(O \ r.erase) <= MAX_ORPHAN_TRANSACTIONS
    BY <2>1, <2>3, <2>4, RelayAssumption
  <2> QED
    BY <2>3, <2>5, <1>1, <1>p DEF OrphanTxLimit
<1> QED
  BY <1>3, <1>5, <1>8, <1>9 DEF RInv

LEMMA TxOrphanRInv ==
  ASSUME RInv, NEW n \in Node, NEW t \in Tx, TxOrphan(n, t)
  PROVE  RInv'
<1> DEFINE O == mapOrphanTransactions
           all == O \cup Stored(t)
           byPrev == IF t \in LargeTx THEN mapOrphanTransactionsByPrev
                     ELSE AddOrphanTx(mapOrphanTransactionsByPrev, t)
<1>1. PICK gone \in SUBSET all :
        /\ Cardinality(gone) = IF Surplus(all) > 0 THEN Surplus(all) ELSE 0
        /\ mapOrphanTransactions' = all \ gone
        /\ mapOrphanTransactionsByPrev' = EraseOrphanTxs(byPrev, gone)
  BY DEF TxOrphan
<1>2. Answered(n, t) /\ mempool' = mempool
  BY DEF TxOrphan
<1>3. TypeOK'
  <2>1. mapOrphanTransactions' \subseteq Tx /\ mempool'.mapTx \subseteq Tx
    BY <1>1, <1>2 DEF RInv, TypeOK, Stored
  <2> QED
    BY <1>2, <2>1, AnsweredTypes DEF RInv
<1>4. mapOrphanTransactionsByPrev = Filed(O)
  BY DEF RInv, ByPrevExact, Filed
<1>a. byPrev = Filed(all)
  <2>1. CASE t \in LargeTx
    BY <2>1, <1>4 DEF Stored
  <2>2. CASE t \notin LargeTx
    BY <2>2, <1>4, AddOrphanFiled DEF Stored
  <2> QED
    BY <2>1, <2>2
<1>5. mapOrphanTransactionsByPrev' = Filed(all \ gone)
  <2> HIDE DEF all, byPrev
  <2> QED
    BY <1>1, <1>a, EraseOrphansFiled
<1>6. ByPrevExact'
  BY <1>1, <1>5 DEF ByPrevExact, Filed
<1>7. OrphanTxLimit'
  <2>1. IsFiniteSet(all)
    <3>1. IsFiniteSet(O) /\ IsFiniteSet(O \cup {t})
      BY FS_AddElement DEF RInv, OrphanTxLimit
    <3>2. all = O \/ all = O \cup {t}
      BY DEF Stored
    <3> QED
      BY <3>1, <3>2
  <2> HIDE DEF all
  <2>2. IsFiniteSet(all \ gone) /\ Cardinality(all \ gone) = Cardinality(all) - Cardinality(all \cap gone)
    BY <2>1, FS_Difference
  <2>3. all \cap gone = gone
    BY <1>1
  <2>4. Cardinality(all) \in Nat /\ Cardinality(all \ gone) \in Nat
    BY <2>1, <2>2, FS_CardinalityType
  <2>5. Cardinality(all \ gone) <= MAX_ORPHAN_TRANSACTIONS
    <3>1. Cardinality(all \ gone) = Cardinality(all) - Cardinality(gone)
      BY <2>2, <2>3
    <3>2. Surplus(all) = Cardinality(all) - MAX_ORPHAN_TRANSACTIONS /\ MAX_ORPHAN_TRANSACTIONS \in Nat
      BY RelayAssumption DEF Surplus
    <3>3. Cardinality(gone) = IF Surplus(all) > 0 THEN Surplus(all) ELSE 0
      BY <1>1
    <3> QED
      BY ONLY <3>1, <3>2, <3>3, <2>4
  <2> QED
    BY <1>1, <2>2, <2>5 DEF OrphanTxLimit
<1>8. PoolOK(mempool)'
  BY <1>2 DEF RInv, PoolOK
<1> QED
  BY <1>3, <1>6, <1>7, <1>8 DEF RInv

LEMMA TxRefusedRInv ==
  ASSUME RInv, NEW n \in Node, NEW t \in Tx, TxRefused(n, t)
  PROVE  RInv'
<1>1. TypeOK'
  BY AnsweredTypes DEF RInv, TypeOK, TxRefused, orphanVars
<1> QED
  BY <1>1, SameOrphans DEF TxRefused

LEMMA AskForRInv ==
  ASSUME RInv, NEW n \in Node, NEW t \in Tx, AskFor(n, t)
  PROVE  RInv'
<1> DEFINE time == RequestTime(t)
           r == [due |-> time, tx |-> t]
<1>0. mapAlreadyAskedFor[t] \in -Retry .. MaxDelay /\ Retry \in Nat /\ MaxDelay \in Nat
  BY RelayAssumption DEF RInv, TypeOK
<1>1. time \in 0 .. MaxDelay
  BY <1>0 DEF AskFor, RequestTime
<1>2. time \in -Retry .. MaxDelay
  BY <1>0, <1>1
<1>3. r \in [due : 0 .. MaxDelay, tx : Tx]
  BY <1>1
<1>4. /\ setAskFor' = [setAskFor EXCEPT ![n] = @ \cup {t}]
      /\ mapAlreadyAskedFor' = [mapAlreadyAskedFor EXCEPT ![t] = time]
      /\ mapAskFor' = [mapAskFor EXCEPT ![n] = @ \cup {r}]
      /\ mempool' = mempool /\ txindex' = txindex
      /\ mapOrphanTransactions' = mapOrphanTransactions
  BY DEF AskFor, Queued, orphanVars
<1> HIDE DEF time, r
<1>5. TypeOK'
  BY <1>2, <1>3, <1>4 DEF RInv, TypeOK
<1> QED
  BY <1>5, SameOrphans DEF AskFor

LEMMA SendMessagesRInv ==
  ASSUME RInv, NEW n \in Node, SendMessages(n)
  PROVE  RInv'
<1> DEFINE due == {r.tx : r \in {q \in mapAskFor[n] : IsDue(q)}}
<1>1. due \subseteq Tx
  BY DEF RInv, TypeOK
<1>2. /\ mapAskFor' = [mapAskFor EXCEPT ![n] = {r \in @ : ~IsDue(r)}]
      /\ setAskFor' = [setAskFor EXCEPT ![n] = @ \ {t \in due : AlreadyHave(t)}]
      /\ mempool' = mempool /\ txindex' = txindex /\ mapAlreadyAskedFor' = mapAlreadyAskedFor
      /\ mapOrphanTransactions' = mapOrphanTransactions
  BY DEF SendMessages, orphanVars
<1> HIDE DEF due
<1>3. TypeOK'
  BY <1>1, <1>2 DEF RInv, TypeOK
<1> QED
  BY <1>3, SameOrphans DEF SendMessages

LEMMA ReconnectRInv ==
  ASSUME RInv, NEW n \in Node, Reconnect(n)
  PROVE  RInv'
<1>1. TypeOK'
  BY DEF RInv, TypeOK, Reconnect, orphanVars
<1> QED
  BY <1>1, SameOrphans DEF Reconnect

LEMMA ConfirmRInv ==
  ASSUME RInv, NEW t \in Tx, Confirm(t)
  PROVE  RInv'
<1>1. /\ mempool' = remove(mempool, {t}) /\ txindex' = txindex \cup {t}
      /\ UNCHANGED <<mapOrphanTransactions, mapOrphanTransactionsByPrev>>
      /\ UNCHANGED <<mapAskFor, setAskFor, mapAlreadyAskedFor>>
  BY DEF Confirm, orphanVars, askVars
<1>2. PoolOK(remove(mempool, {t}))
  BY RemoveOK DEF RInv
<1>3. PoolOK(mempool)' /\ mempool'.mapTx \subseteq Tx
  BY <1>1, <1>2 DEF PoolOK
<1>4. TypeOK'
  BY <1>1, <1>3 DEF RInv, TypeOK
<1>5. ByPrevExact' /\ OrphanTxLimit'
  BY <1>1 DEF RInv, ByPrevExact, OrphanTxLimit
<1> QED
  BY <1>3, <1>4, <1>5 DEF RInv

LEMMA TickRInv ==
  ASSUME RInv, Tick
  PROVE  RInv'
<1>0. Retry \in Nat \ {0} /\ MaxDelay \in Nat
  BY RelayAssumption
<1>1. mapAskFor' \in [Node -> SUBSET [due : 0 .. MaxDelay, tx : Tx]]
  <2>1. ASSUME NEW n \in Node, NEW r \in mapAskFor[n]
        PROVE  [due |-> IF r.due > 0 THEN r.due - 1 ELSE 0, tx |-> r.tx] \in [due : 0 .. MaxDelay, tx : Tx]
    <3>1. r \in [due : 0 .. MaxDelay, tx : Tx]
      BY DEF RInv, TypeOK
    <3>2. (IF r.due > 0 THEN r.due - 1 ELSE 0) \in 0 .. MaxDelay
      BY <1>0, <3>1
    <3> QED
      BY <3>1, <3>2
  <2> QED
    BY <2>1 DEF Tick
<1>2. mapAlreadyAskedFor' \in [Tx -> -Retry .. MaxDelay]
  <2>1. ASSUME NEW t \in Tx
        PROVE  (IF mapAlreadyAskedFor[t] > -Retry THEN mapAlreadyAskedFor[t] - 1 ELSE -Retry) \in -Retry .. MaxDelay
    <3>1. mapAlreadyAskedFor[t] \in -Retry .. MaxDelay
      BY DEF RInv, TypeOK
    <3> QED
      BY <1>0, <3>1
  <2> QED
    BY <2>1 DEF Tick
<1>3. TypeOK'
  BY <1>1, <1>2 DEF RInv, TypeOK, Tick, orphanVars
<1> QED
  BY <1>3, SameOrphans DEF Tick

LEMMA NextRInv ==
  ASSUME RInv, [Next]_vars
  PROVE  RInv'
<1>0. \A n \in Node : Sends[n] \subseteq Tx
  BY RelayAssumption
<1>1. CASE UNCHANGED vars
  <2>1. TypeOK'
    BY <1>1 DEF RInv, TypeOK, vars, askVars, orphanVars
  <2> QED
    BY <1>1, <2>1, SameOrphans DEF vars
<1>2. ASSUME NEW n \in Node, NEW t \in Tx, TxMessage(n, t) PROVE RInv'
  BY <1>2, TxAcceptedRInv, TxOrphanRInv, TxRefusedRInv DEF TxMessage
<1>3. ASSUME NEW n \in Node, NEW t \in Tx, AskFor(n, t) PROVE RInv'
  BY <1>3, AskForRInv
<1>4. ASSUME NEW n \in Node, SendMessages(n) \/ Reconnect(n) PROVE RInv'
  BY <1>4, SendMessagesRInv, ReconnectRInv
<1>5. ASSUME NEW t \in Tx, Confirm(t) PROVE RInv'
  BY <1>5, ConfirmRInv
<1>6. CASE Tick
  BY <1>6, TickRInv
<1> QED
  BY <1>0, <1>1, <1>2, <1>3, <1>4, <1>5, <1>6 DEF Next

LEMMA RelayInvariant == Spec => []RInv
<1>1. RInv /\ [Next]_vars => RInv'
  BY NextRInv
<1> QED
  BY InitRInv, <1>1, PTL DEF Spec

-----------------------------------------------------------------------------
(* The results. *)

(* The requests of every peer keep their types, and none is put off further     *)
(* than the interval between two requests allows (AskFor, SendMessages, "tx").  *)
THEOREM RelayTypes == Spec => []TypeOK
<1>1. RInv => TypeOK
  BY DEF RInv
<1> QED
  BY RelayInvariant, <1>1, PTL

(* mapOrphanTransactionsByPrev files exactly the orphans, each under every      *)
(* transaction it spends, without empty entries (AddOrphanTx, EraseOrphanTx,    *)
(* LimitOrphanTxSize and the work queue of the "tx" message).                   *)
THEOREM OrphansFiledExactly == Spec => []ByPrevExact
<1>1. RInv => ByPrevExact
  BY DEF RInv
<1> QED
  BY RelayInvariant, <1>1, PTL

(* No two transactions of the pool spend one output, however they came there:   *)
(* directly or from the orphans (AcceptToMemoryPool, addUnchecked, remove).     *)
THEOREM PoolHasNoConflict == Spec => []NoPoolConflict
<1>1. RInv => NoPoolConflict
  BY DEF RInv, PoolOK, NoPoolConflict
<1> QED
  BY RelayInvariant, <1>1, PTL

(* LimitOrphanTxSize: after each "tx" message there are no more orphans than    *)
(* MAX_ORPHAN_TRANSACTIONS.                                                     *)
THEOREM OrphanTxsBounded == Spec => []OrphanTxLimit
<1>1. RInv => OrphanTxLimit
  BY DEF RInv
<1> QED
  BY RelayInvariant, <1>1, PTL

(* The loop over vWorkQueue, which lengthens the queue it runs over, comes to   *)
(* the end of it: each transaction enters the queue at most once.               *)
THEOREM WorkQueueEnds ==
  ASSUME RInv, NEW t \in Tx, NEW barred, Verdict(mempool, barred, t) = "accepted"
  PROVE  Drained(WorkQueue(Started(t, barred)))
BY AcceptedQueue


-----------------------------------------------------------------------------
(***************************************************************************)
(* Orphan blocks.  The inductive invariant is the conjunction of the       *)
(* invariants the run checks: OrphanMapsAgree is needed because the work   *)
(* queue reads one map and the invariants speak of the other.              *)
(***************************************************************************)
OInv ==
  /\ OrphanTypeOK
  /\ OrphanMapsAgree
  /\ NoOrphanLeftBehind
  /\ OrphansBounded
  /\ MarksBelongToOrphans
  /\ IndexClosed

(* The work queue takes only orphans, takes every orphan that waits for h or    *)
(* for an orphan it accepts.                                                    *)
LEMMA ProcessedClosed ==
  ASSUME NEW h, NEW verdict,
         NEW c \in mapOrphanBlocksByPrev,
         hashPrevBlock[c] \in {h} \cup {s \in Processed(h, verdict) : verdict[s] = "accepted"}
  PROVE  c \in Processed(h, verdict)
BY DEF Processed

(* What the work queue takes waits for h or for an orphan it accepts: nothing   *)
(* else is taken, so every block it adds to the index has its parent there.     *)
LEMMA ProcessedLeast ==
  ASSUME NEW h, NEW verdict, NEW o \in Processed(h, verdict)
  PROVE  hashPrevBlock[o] \in {h} \cup {s \in Processed(h, verdict) : verdict[s] = "accepted"}
<1> DEFINE P == Processed(h, verdict)
           R == {q \in P : hashPrevBlock[q] \in {h} \cup {s \in P : verdict[s] = "accepted"}}
<1>1. R \in SUBSET mapOrphanBlocksByPrev
  BY DEF Processed
<1>2. \A c \in mapOrphanBlocksByPrev :
        hashPrevBlock[c] \in {h} \cup {s \in R : verdict[s] = "accepted"} => c \in R
  <2> SUFFICES ASSUME NEW c \in mapOrphanBlocksByPrev,
                      hashPrevBlock[c] \in {h} \cup {s \in R : verdict[s] = "accepted"}
               PROVE  c \in R
    OBVIOUS
  <2>1. hashPrevBlock[c] \in {h} \cup {s \in P : verdict[s] = "accepted"}
    OBVIOUS
  <2>2. c \in P
    BY <2>1, ProcessedClosed
  <2> QED BY <2>1, <2>2
<1>3. o \in R
  BY <1>1, <1>2 DEF Processed
<1> QED BY <1>3

-----------------------------------------------------------------------------
(* The initial state satisfies the invariant. *)
LEMMA InitOInv == OrphanInit => OInv
<1> SUFFICES ASSUME OrphanInit PROVE OInv
  OBVIOUS
<1>1. Cardinality({}) = 0
  BY FS_EmptySet
<1> QED
  BY <1>1, OrphanAssumption
  DEF OrphanInit, OInv, OrphanTypeOK, OrphanMapsAgree, NoOrphanLeftBehind, OrphansBounded,
      MarksBelongToOrphans, IndexClosed, StakesOf

(* A set of blocks is finite. *)
LEMMA BlocksFinite == ASSUME NEW S \in SUBSET Block PROVE IsFiniteSet(S)
BY FS_Subset, OrphanAssumption

(* Pruning before inserting keeps the number of orphans within the limit. *)
LEMMA PruneBound ==
  ASSUME NEW S \in SUBSET Block, NEW gone \in SUBSET S, NEW b \in Block,
         Cardinality(S) <= MaxOrphanBlocks + 1,
         Cardinality(S) <= MaxOrphanBlocks \/ \E p \in S : gone = {p}
  PROVE  Cardinality((S \ gone) \cup {b}) <= MaxOrphanBlocks + 1
<1>1. IsFiniteSet(S) /\ IsFiniteSet(S \ gone)
  BY BlocksFinite
<1>2. Cardinality(S) \in Nat /\ Cardinality(S \ gone) \in Nat
  BY <1>1, FS_CardinalityType
<1>3. Cardinality(S \ gone) <= MaxOrphanBlocks
  <2>1. CASE Cardinality(S) <= MaxOrphanBlocks
    <3>1. Cardinality(S \ gone) <= Cardinality(S)
      BY <1>1, FS_Subset
    <3> QED BY <2>1, <3>1, <1>2, OrphanAssumption
  <2>2. CASE \E p \in S : gone = {p}
    <3>1. PICK p \in S : gone = {p}
      BY <2>2
    <3>2. Cardinality(S \ {p}) = Cardinality(S) - 1
      BY <1>1, FS_RemoveElement
    <3> QED BY <3>1, <3>2, <1>2, OrphanAssumption
  <2> QED BY <2>1, <2>2
<1>4. Cardinality((S \ gone) \cup {b}) <= Cardinality(S \ gone) + 1
  <2>1. Cardinality((S \ gone) \cup {b})
          = IF b \in S \ gone THEN Cardinality(S \ gone) ELSE Cardinality(S \ gone) + 1
    BY <1>1, FS_AddElement
  <2> QED BY <2>1, <1>2
<1>5. Cardinality((S \ gone) \cup {b}) \in Nat
  BY BlocksFinite, FS_CardinalityType
<1> QED BY <1>2, <1>3, <1>4, <1>5, OrphanAssumption

-----------------------------------------------------------------------------
(* StoreOrphan preserves the invariant. *)
LEMMA StoreOrphanStep ==
  ASSUME OInv, NEW b \in Block, StoreOrphan(b)
  PROVE  OInv'
<1> USE DEF OInv
<1>1. PICK gone \in (IF Prunable = {} THEN {{}} ELSE {{p} : p \in Prunable}) :
        /\ mapOrphanBlocks' = (mapOrphanBlocks \ gone) \cup {b}
        /\ mapOrphanBlocksByPrev' = (mapOrphanBlocksByPrev \ gone) \cup {b}
        /\ setStakeSeenOrphan' = (setStakeSeenOrphan \ StakesOf(gone)) \cup StakesOf({b})
  BY DEF StoreOrphan
<1>2. UNCHANGED <<mapBlockIndex, fAccepted, setStakeSeen>>
  BY DEF StoreOrphan, index
<1>3. mapOrphanBlocksByPrev = mapOrphanBlocks /\ mapOrphanBlocks \subseteq Block
  BY DEF OrphanTypeOK, OrphanMapsAgree
<1>4. gone \subseteq mapOrphanBlocks
  BY <1>1, <1>3 DEF Prunable
<1>5. b \notin mapBlockIndex /\ hashPrevBlock[b] \notin mapBlockIndex
  BY DEF StoreOrphan, NotDuplicate
<1>6. OrphanTypeOK'
  BY <1>1, <1>2 DEF OrphanTypeOK, StakesOf
<1>7. OrphanMapsAgree'
  BY <1>1, <1>2, <1>5 DEF OrphanMapsAgree
<1>8. NoOrphanLeftBehind'
  BY <1>1, <1>2, <1>5 DEF NoOrphanLeftBehind, OrphanTypeOK
<1>9. OrphansBounded'
  <2>1. Cardinality(mapOrphanBlocks) <= MaxOrphanBlocks \/ \E p \in mapOrphanBlocks : gone = {p}
    <3>1. CASE Cardinality(mapOrphanBlocks) <= MaxOrphanBlocks
      BY <3>1
    <3>2. CASE ~(Cardinality(mapOrphanBlocks) <= MaxOrphanBlocks)
      <4>1. Prunable # {}
        <5>1. Prunable = {p \in mapOrphanBlocks : ~HasOrphanChild(p)}
          BY <1>3, <3>2 DEF Prunable
        <5>2. mapOrphanBlocks # {}
          BY <3>2, FS_EmptySet, OrphanAssumption
        <5>3. mapOrphanBlocks \in SUBSET (Block \ {Genesis})
          BY <1>3 DEF OrphanMapsAgree, IndexClosed
        <5>4. PICK p \in mapOrphanBlocks : \A c \in mapOrphanBlocks : hashPrevBlock[c] # p
          BY <5>2, <5>3, OrphanAssumption
        <5> QED BY <5>1, <5>4, <1>3 DEF HasOrphanChild
      <4> QED BY <4>1, <1>1, <1>3 DEF Prunable
    <3> QED BY <3>1, <3>2
  <2> QED BY <2>1, <1>1, <1>3, <1>4, PruneBound DEF OrphansBounded
<1>10. MarksBelongToOrphans'
  BY <1>1 DEF MarksBelongToOrphans, StakesOf
<1>11. IndexClosed'
  BY <1>2 DEF IndexClosed
<1> QED BY <1>6, <1>7, <1>8, <1>9, <1>10, <1>11

(* Accepting block b, alone or with the orphans the work queue reaches,         *)
(* preserves the invariant.                                                     *)
LEMMA ProcessBlockStep ==
  ASSUME OInv, NEW b \in Block, NEW fImporting \in BOOLEAN, ProcessBlock(b, fImporting)
  PROVE  OInv'
<1> USE DEF OInv
<1>1. PICK verdict \in [{b} \cup mapOrphanBlocksByPrev -> BlockVerdict] :
        IF verdict[b] # "accepted"
          THEN AcceptBlocks({b}, verdict) /\ UNCHANGED orphans
          ELSE /\ AcceptBlocks({b} \cup Processed(b, verdict), verdict)
               /\ Forget(Processed(b, verdict), verdict)
  BY DEF ProcessBlock
<1>2. b \notin mapBlockIndex /\ b \notin mapOrphanBlocks /\ hashPrevBlock[b] \in mapBlockIndex
  BY DEF ProcessBlock, NotDuplicate, ParentKnown
<1>3. mapOrphanBlocksByPrev = mapOrphanBlocks /\ mapOrphanBlocks \subseteq Block
  BY DEF OrphanTypeOK, OrphanMapsAgree
<1>4. CASE verdict[b] # "accepted"
  <2>1. /\ mapBlockIndex' \in {mapBlockIndex, mapBlockIndex \cup {b}}
        /\ fAccepted' = fAccepted
        /\ UNCHANGED <<mapOrphanBlocks, mapOrphanBlocksByPrev, setStakeSeenOrphan>>
        /\ setStakeSeen' \subseteq setStakeSeen \cup StakesOf({b})
    BY <1>1, <1>4 DEF AcceptBlocks, orphans, StakesOf
  <2>2. OrphanTypeOK'
    BY <2>1 DEF OrphanTypeOK, StakesOf
  <2>3. OrphanMapsAgree'
    BY <2>1, <1>2 DEF OrphanMapsAgree
  <2>4. NoOrphanLeftBehind' /\ OrphansBounded' /\ MarksBelongToOrphans'
    BY <2>1 DEF NoOrphanLeftBehind, OrphansBounded, MarksBelongToOrphans
  <2>5. IndexClosed'
    BY <2>1, <1>2 DEF IndexClosed
  <2> QED BY <2>2, <2>3, <2>4, <2>5
<1>5. CASE verdict[b] = "accepted"
  <2> DEFINE P == Processed(b, verdict)
             A == {q \in P : verdict[q] = "accepted"}
             X == {q \in P : verdict[q] # "refused"}
  <2>1. P \subseteq mapOrphanBlocks
    BY <1>3 DEF Processed
  <2>2. /\ mapBlockIndex' = mapBlockIndex \cup {b} \cup X
        /\ fAccepted' = fAccepted \cup {b} \cup A
        /\ setStakeSeen' = setStakeSeen \cup StakesOf({b} \cup X)
        /\ mapOrphanBlocks' = mapOrphanBlocks \ P
        /\ mapOrphanBlocksByPrev' = mapOrphanBlocksByPrev \ P
        /\ setStakeSeenOrphan' = setStakeSeenOrphan \ StakesOf(P)
    <3>1. {q \in {b} \cup P : verdict[q] # "refused"} = {b} \cup X
      BY <1>5
    <3>2. {q \in {b} \cup P : verdict[q] = "accepted"} = {b} \cup A
      BY <1>5
    <3>3. AcceptBlocks({b} \cup P, verdict) /\ Forget(P, verdict)
      BY <1>1, <1>5
    <3> HIDE DEF P, A, X
    <3> QED BY <3>1, <3>2, <3>3 DEF AcceptBlocks, Forget
  <2>3. A \subseteq X /\ X \subseteq P
    OBVIOUS
  <2>4. \A o \in mapOrphanBlocks : hashPrevBlock[o] \in {b} \cup A => o \in P
    BY <1>3, ProcessedClosed
  <2>5. \A o \in P : hashPrevBlock[o] \in {b} \cup A
    BY ProcessedLeast
  <2> HIDE DEF P, A, X
  <2>6. OrphanTypeOK'
    BY <2>1, <2>2, <2>3, <1>3 DEF OrphanTypeOK, StakesOf
  <2>7. OrphanMapsAgree'
    BY <2>1, <2>2, <2>3, <1>2 DEF OrphanMapsAgree
  <2>8. NoOrphanLeftBehind'
    BY <2>2, <2>4 DEF NoOrphanLeftBehind
  <2>9. OrphansBounded'
    <3>1. Cardinality(mapOrphanBlocks \ P) <= Cardinality(mapOrphanBlocks)
      BY <1>3, BlocksFinite, FS_Subset
    <3>2. Cardinality(mapOrphanBlocks) \in Nat /\ Cardinality(mapOrphanBlocks \ P) \in Nat
      BY <1>3, BlocksFinite, FS_CardinalityType
    <3> QED BY <2>2, <3>1, <3>2, OrphanAssumption DEF OrphansBounded
  <2>10. MarksBelongToOrphans'
    BY <2>2 DEF MarksBelongToOrphans, StakesOf
  <2>11. IndexClosed'
    BY <2>2, <2>3, <2>5, <1>2 DEF IndexClosed
  <2> QED BY <2>6, <2>7, <2>8, <2>9, <2>10, <2>11
<1> QED BY <1>4, <1>5

(* A restart preserves the invariant. *)
LEMMA LoadBlockIndexStep ==
  ASSUME OInv, LoadBlockIndex
  PROVE  OInv'
<1>1. Cardinality({}) = 0
  BY FS_EmptySet
<1> QED
  BY <1>1, OrphanAssumption
  DEF LoadBlockIndex, OInv, OrphanTypeOK, OrphanMapsAgree, NoOrphanLeftBehind, OrphansBounded,
      MarksBelongToOrphans, IndexClosed, StakesOf

(* Every step preserves the invariant. *)
LEMMA NextOInv == OInv /\ [OrphanNext]_orphanBlockVars => OInv'
<1> SUFFICES ASSUME OInv, [OrphanNext]_orphanBlockVars PROVE OInv'
  OBVIOUS
<1>1. ASSUME NEW b \in Block, StoreOrphan(b) PROVE OInv'
  BY <1>1, StoreOrphanStep
<1>2. ASSUME NEW b \in Block, NEW fImporting \in BOOLEAN, ProcessBlock(b, fImporting) PROVE OInv'
  BY <1>2, ProcessBlockStep
<1>3. CASE LoadBlockIndex
  BY <1>3, LoadBlockIndexStep
<1>4. CASE UNCHANGED orphanBlockVars
  BY <1>4 DEF orphanBlockVars, index, orphans, OInv, OrphanTypeOK, OrphanMapsAgree, NoOrphanLeftBehind,
              OrphansBounded, MarksBelongToOrphans, IndexClosed
<1> QED BY <1>1, <1>2, <1>3, <1>4 DEF OrphanNext

(* The invariant holds in every reachable state. *)
THEOREM OInvHolds == OrphanSpec => []OInv
BY InitOInv, NextOInv, PTL DEF OrphanSpec

(* ProcessBlock keeps mapOrphanBlocks and mapOrphanBlocksByPrev equal and       *)
(* disjoint from the index, for every tree of blocks.                           *)
THEOREM OrphanMapsCorrect == OrphanSpec => []OrphanMapsAgree
<1>1. OInv => OrphanMapsAgree
  BY DEF OInv
<1> QED BY <1>1, OInvHolds, PTL

(* ProcessBlock's work queue leaves no orphan of an accepted block behind,      *)
(* however deep the chain of orphans.                                           *)
THEOREM WorkQueueComplete == OrphanSpec => []NoOrphanLeftBehind
<1>1. OInv => NoOrphanLeftBehind
  BY DEF OInv
<1> QED BY <1>1, OInvHolds, PTL

(* PruneOrphanBlocks bounds the orphans held, for every limit: the walk to an   *)
(* orphan without children always finds one, because hashes form no cycle.      *)
THEOREM OrphansNeverExceed == OrphanSpec => []OrphansBounded
<1>1. OInv => OrphansBounded
  BY DEF OInv
<1> QED BY <1>1, OInvHolds, PTL

(* ProcessBlock adds no block to the index before its parent.                   *)
THEOREM IndexIsTree == OrphanSpec => []IndexClosed
<1>1. OInv => IndexClosed
  BY DEF OInv
<1> QED BY <1>1, OInvHolds, PTL

(* ProcessBlock and PruneOrphanBlocks leave no mark in setStakeSeenOrphan whose  *)
(* orphan is gone, for every assignment of stakes to blocks.                     *)
THEOREM MarksCorrect == OrphanSpec => []MarksBelongToOrphans
<1>1. OInv => MarksBelongToOrphans
  BY DEF OInv
<1> QED BY <1>1, OInvHolds, PTL
==============================================================================
