---------------------------- MODULE KeyPoolProofs ----------------------------
(* Proofs about KeyPool: no key is used twice and no secret is lost, for any   *)
(* number of reservations, pool sizes and keys, whatever write a crash follows. *)
EXTENDS KeyPool, WellFoundedInduction, TLAPS

(* The numbers in use: while a fresh key waits for its record, one index is    *)
(* still free below nKeys.                                                     *)
Bound == IF job.fresh = NoKey THEN nKeys ELSE nKeys - 1

Types ==
  /\ nKeys \in Nat
  /\ {fMasterKey, slack, leaked, locking, clash} \subseteq BOOLEAN
  /\ status \in {"plain", "locked", "unlocked"}
  /\ job \in [op : Op, who : Holder \cup {NoKey}, fill : BOOLEAN, size : Nat, i : Nat, fresh : Nat]
  /\ held \in [Holder -> [nIndex : Nat \cup {-1}, vchPubKey : Nat]]
  /\ enc \in [old : Nat, reserved : SUBSET Nat, done : BOOLEAN]

(* What a job has in hand. *)
JobInv ==
  /\ job.fresh # NoKey => job.fill
  /\ job.fill => job.op \in {"reserve", "getkey", "refill", "newpool"}
  /\ job.op = "reserve" => job.who \in Holder /\ held[job.who].nIndex = -1
  /\ job.op = "encrypt" => job.i = 0

(* The lock state follows the master key on disk, but for EncryptWallet before *)
(* its commit.                                                                 *)
ModeInv ==
  /\ ~fMasterKey <=> (status = "plain" \/ job.op = "encrypt")
  /\ job.op = "encrypt" => status = "locked"
  /\ job.op \in {"erase", "newpool", "rewrite", "rename"} => fMasterKey
  /\ locking => fMasterKey

SecretInv ==
  /\ plain \cup crypted \subseteq 1 .. nKeys
  /\ IF fMasterKey THEN plain = {} ELSE crypted = {}
  /\ job.fresh # NoKey => job.fresh \in plain \cup crypted
  /\ used \subseteq plain \cup crypted
  /\ \A i \in DOMAIN pool : pool[i] \in plain \cup crypted
  /\ \A h \in Holder : held[h].nIndex # -1 /\ held[h].vchPubKey # NoKey
                         => held[h].vchPubKey \in plain \cup crypted

IndexInv ==
  /\ DOMAIN pool \subseteq 1 .. Bound
  /\ setKeyPool \subseteq 1 .. Bound
  /\ \A h \in Holder : held[h].nIndex # -1 => held[h].nIndex \in 1 .. Bound
  /\ job.i <= Bound

(* A key has at most one record, and no record once it is used. *)
RecordInv ==
  /\ \A i, j \in DOMAIN pool : pool[i] = pool[j] => i = j
  /\ \A i \in DOMAIN pool : pool[i] \notin used
  /\ \A h \in Holder : held[h].nIndex # -1 /\ held[h].vchPubKey # NoKey
       => \A i \in DOMAIN pool : pool[i] = held[h].vchPubKey => i = held[h].nIndex

(* The key just generated is known to nobody. *)
FreshInv ==
  job.fresh # NoKey =>
    /\ job.fresh \notin used
    /\ \A i \in DOMAIN pool : pool[i] # job.fresh
    /\ \A h \in Holder : held[h].nIndex # -1 => held[h].vchPubKey # job.fresh

(* The default key is used, and is all an unreserved CReserveKey can have.     *)
DefaultInv ==
  /\ DefaultKey \in used
  /\ \A h \in Holder : held[h].nIndex = -1 => held[h].vchPubKey \in {NoKey, DefaultKey}

HeldBy(i) ==
  \E h \in Holder : held[h].nIndex = i /\ i # -1 /\ held[h].vchPubKey = pool[i]

(* No record is forgotten: setKeyPool or a CReserveKey has its index.  In the  *)
(* first loop of NewKeyPool setKeyPool counts only above job.i.                *)
OwnerInv ==
  \A i \in DOMAIN pool :
    (i \in setKeyPool /\ (job.op = "erase" => i > job.i)) \/ HeldBy(i)

(* Until a record is written over a reserved one, the pool and the             *)
(* reservations are disjoint and both are backed by records.                   *)
ClashInv ==
  ~clash =>
    /\ \A h \in Holder : held[h].nIndex # -1 =>
         /\ held[h].nIndex \notin setKeyPool
         /\ held[h].nIndex \in DOMAIN pool
         /\ held[h].vchPubKey = pool[held[h].nIndex]
    /\ \A g, h \in Holder : held[g].nIndex # -1 /\ held[g].nIndex = held[h].nIndex => g = h
    /\ job.op # "erase" => setKeyPool \subseteq DOMAIN pool

(* EncryptWallet has the keys of the CReserveKeys before it, and what it or a  *)
(* later job writes is newer.                                                  *)
EncInv ==
  /\ enc.old <= nKeys
  /\ job.op \in {"encrypt", "erase"} =>
       \A h \in Holder : held[h].nIndex # -1 => held[h].vchPubKey \in enc.reserved
  /\ job.op \in {"newpool", "rewrite", "rename"} \/ enc.done =>
       /\ \A i \in DOMAIN pool : pool[i] > enc.old \/ pool[i] \in enc.reserved
       /\ job.fresh # NoKey => job.fresh > enc.old

KInv ==
  /\ Types /\ JobInv /\ ModeInv /\ SecretInv /\ IndexInv /\ RecordInv
  /\ FreshInv /\ DefaultInv /\ OwnerInv /\ ClashInv /\ EncInv
-----------------------------------------------------------------------------
(* A set of naturals has a least element, and Min is in the set. *)
LEMMA MinInSet ==
  ASSUME NEW S \in SUBSET Nat, S # {}
  PROVE  Min(S) \in S /\ \A y \in S : Min(S) <= y
<1>. DEFINE R == OpToRel(<, Nat)
<1>1. IsWellFoundedOn(R, Nat)
  BY NatLessThanWellFounded
<1>2. \A x, y \in Nat : y < x => <<y, x>> \in R
  BY DEF OpToRel
<1>. HIDE DEF R
<1>3. PICK x \in S : \A y \in S : <<y, x>> \notin R
  BY <1>1, WFMin
<1>4. \A y \in S : x <= y
  <2>. TAKE y \in S
  <2>1. x \in Nat /\ y \in Nat /\ ~(y < x)
    BY <1>2, <1>3
  <2>. QED
    BY <2>1
<1>. QED
  BY <1>4 DEF Min

(* A bounded set has a greatest element, the least one counted from above. *)
LEMMA MaxInSet ==
  ASSUME NEW n \in Nat, NEW S \in SUBSET (1 .. n), S # {}
  PROVE  Max(S) \in S /\ \A y \in S : Max(S) >= y
<1>. DEFINE D == {n - y : y \in S}
<1>1. D \in SUBSET Nat /\ D # {}
  <2>1. \A y \in S : n - y \in Nat
    OBVIOUS
  <2>. QED
    BY <2>1
<1>2. Min(D) \in D /\ \A d \in D : Min(D) <= d
  BY <1>1, MinInSet
<1>3. PICK x \in S : Min(D) = n - x
  BY <1>2
<1>4. \A y \in S : x >= y
  <2>. TAKE y \in S
  <2>1. n - x <= n - y
    BY <1>2, <1>3
  <2>2. x \in Int /\ y \in Int
    OBVIOUS
  <2>. QED
    BY <2>1, <2>2
<1>. QED
  BY <1>4 DEF Max

(* The index of a new record is the next one to be used. *)
LEMMA NewIndexBound ==
  ASSUME KInv, job.fresh # NoKey
  PROVE  NewIndex \in 1 .. nKeys
<1>1. /\ nKeys \in Nat /\ nKeys - 1 \in Nat
      /\ setKeyPool \in SUBSET (1 .. (nKeys - 1))
      /\ job.i \in Nat /\ job.i <= nKeys - 1
  BY DEF KInv, Types, IndexInv, SecretInv, Bound, NoKey
<1>2. CASE job.op = "newpool"
  BY <1>1, <1>2 DEF NewIndex
<1>3. CASE job.op # "newpool" /\ setKeyPool = {}
  BY <1>1, <1>3 DEF NewIndex
<1>4. CASE job.op # "newpool" /\ setKeyPool # {}
  <2>1. Max(setKeyPool) \in setKeyPool
    BY <1>1, <1>4, MaxInSet
  <2>2. Max(setKeyPool) \in 1 .. (nKeys - 1)
    BY <1>1, <2>1
  <2>3. NewIndex = Max(setKeyPool) + 1
    BY <1>4 DEF NewIndex
  <2>. QED
    BY <1>1, <2>2, <2>3
<1>. QED
  BY <1>2, <1>3, <1>4

(* ReserveKeyFromKeyPool takes an element of setKeyPool. *)
LEMMA OldestInPool ==
  ASSUME KInv, setKeyPool # {}
  PROVE  Oldest \in setKeyPool /\ Oldest \in Nat
<1>1. setKeyPool \in SUBSET Nat
  BY DEF KInv, Types, IndexInv, Bound
<1>. QED
  BY <1>1, MinInSet DEF Oldest

(* The first loop of NewKeyPool erases an element of setKeyPool it has not     *)
(* passed, and passes no other.                                                *)
LEMMA NextToErase ==
  ASSUME KInv, ToErase # {}
  PROVE  /\ ToErase \subseteq Nat
         /\ Min(ToErase) \in ToErase
         /\ \A i \in ToErase : Min(ToErase) <= i
<1>1. setKeyPool \in SUBSET Nat
  BY DEF KInv, Types, IndexInv, Bound
<1>2. ToErase \in SUBSET Nat
  BY <1>1 DEF ToErase
<1>. QED
  BY <1>2, MinInSet

(* A job begins. *)
LEMMA TakeStep ==
  ASSUME KInv, NEW op \in {"reserve", "getkey", "refill"}, NEW h \in Holder \cup {NoKey}, NEW n \in Nat,
         op = "reserve" => h \in Holder /\ ~IsReserved(h), Take(op, h, n)
  PROVE  KInv'
<1>. USE DEF KInv, NoKey, DefaultKey, Take, Idle, IsReserved, diskVars, memVars, history
<1>1. Types'
  BY DEF Types, Op
<1>2. JobInv'
  BY DEF Types, JobInv
<1>3. ModeInv'
  BY DEF Types, JobInv, ModeInv
<1>4. SecretInv'
  BY DEF Types, JobInv, ModeInv, SecretInv
<1>5. IndexInv'
  BY DEF Types, JobInv, IndexInv, Bound
<1>6. RecordInv'
  BY DEF Types, JobInv, SecretInv, RecordInv, FreshInv
<1>7. FreshInv'
  BY DEF Types, JobInv, SecretInv, FreshInv
<1>8. OwnerInv'
  BY DEF Types, JobInv, OwnerInv, HeldBy, SecretInv, IndexInv
<1>9. ClashInv'
  BY DEF Types, JobInv, ClashInv, SecretInv
<1>10. EncInv'
  BY DEF Types, JobInv, EncInv, SecretInv
<1>11. DefaultInv'
  BY DEF Types, JobInv, DefaultInv
<1>. QED
  BY <1>1, <1>2, <1>3, <1>4, <1>5, <1>6, <1>7, <1>8, <1>9, <1>10, <1>11

(* GenerateNewKey fails and ends the job. *)
LEMMA ThrowStep ==
  ASSUME KInv, GenerateNewKeyThrows
  PROVE  KInv'
<1>. USE DEF KInv, NoKey, DefaultKey, GenerateNewKeyThrows, WantsKey, Idle, diskVars, memVars, history
<1>1. Types'
  BY DEF Types, Op
<1>2. JobInv'
  BY DEF Types, JobInv
<1>3. ModeInv'
  BY DEF Types, JobInv, ModeInv
<1>4. SecretInv'
  BY DEF Types, JobInv, ModeInv, SecretInv
<1>5. IndexInv'
  BY DEF Types, JobInv, IndexInv, Bound
<1>6. RecordInv'
  BY DEF Types, JobInv, SecretInv, RecordInv, FreshInv
<1>7. FreshInv'
  BY DEF Types, JobInv, SecretInv, FreshInv
<1>8. OwnerInv'
  BY DEF Types, JobInv, OwnerInv, HeldBy, SecretInv, IndexInv
<1>9. ClashInv'
  BY DEF Types, JobInv, ClashInv, SecretInv
<1>10. EncInv'
  BY DEF Types, JobInv, EncInv, SecretInv
<1>11. DefaultInv'
  BY DEF Types, JobInv, DefaultInv
<1>. QED
  BY <1>1, <1>2, <1>3, <1>4, <1>5, <1>6, <1>7, <1>8, <1>9, <1>10, <1>11

(* A key is generated: newer than all that exist, and on disk. *)
LEMMA GenerateStep ==
  ASSUME KInv, GenerateNewKey
  PROVE  KInv'
<1>. USE DEF KInv, NoKey, DefaultKey, GenerateNewKey, WantsKey, diskVars, memVars, history
<1>1. Types'
  BY DEF Types, Op
<1>2. JobInv'
  BY DEF Types, JobInv
<1>3. ModeInv'
  BY DEF Types, JobInv, ModeInv
<1>4. SecretInv'
  BY DEF Types, JobInv, ModeInv, SecretInv
<1>5. IndexInv'
  BY DEF Types, JobInv, IndexInv, Bound
<1>6. RecordInv'
  BY DEF Types, JobInv, SecretInv, RecordInv, FreshInv
<1>7. FreshInv'
  BY DEF Types, JobInv, SecretInv, FreshInv
<1>8. OwnerInv'
  BY DEF Types, JobInv, OwnerInv, HeldBy, SecretInv, IndexInv
<1>9. ClashInv'
  BY DEF Types, JobInv, ClashInv, SecretInv
<1>10. EncInv'
  BY DEF Types, JobInv, EncInv, SecretInv
<1>11. DefaultInv'
  BY DEF Types, JobInv, DefaultInv
<1>. QED
  BY <1>1, <1>2, <1>3, <1>4, <1>5, <1>6, <1>7, <1>8, <1>9, <1>10, <1>11

(* The pool is full. *)
LEMMA TopUpDoneStep ==
  ASSUME KInv, TopUpDone
  PROVE  KInv'
<1>. USE DEF KInv, NoKey, DefaultKey, TopUpDone, diskVars, memVars, history
<1>1. Types'
  BY DEF Types, Op
<1>2. JobInv'
  BY DEF Types, JobInv
<1>3. ModeInv'
  BY DEF Types, JobInv, ModeInv
<1>4. SecretInv'
  BY DEF Types, JobInv, ModeInv, SecretInv
<1>5. IndexInv'
  BY DEF Types, JobInv, IndexInv, Bound
<1>6. RecordInv'
  BY DEF Types, JobInv, SecretInv, RecordInv, FreshInv
<1>7. FreshInv'
  BY DEF Types, JobInv, SecretInv, FreshInv
<1>8. OwnerInv'
  BY DEF Types, JobInv, OwnerInv, HeldBy, SecretInv, IndexInv
<1>9. ClashInv'
  BY DEF Types, JobInv, ClashInv, SecretInv
<1>10. EncInv'
  BY DEF Types, JobInv, EncInv, SecretInv
<1>11. DefaultInv'
  BY DEF Types, JobInv, DefaultInv
<1>. QED
  BY <1>1, <1>2, <1>3, <1>4, <1>5, <1>6, <1>7, <1>8, <1>9, <1>10, <1>11

(* keypoolrefill returns. *)
LEMMA RefillDoneStep ==
  ASSUME KInv, RefillDone
  PROVE  KInv'
<1>. USE DEF KInv, NoKey, DefaultKey, RefillDone, Idle, diskVars, memVars, history
<1>1. Types'
  BY DEF Types, Op
<1>2. JobInv'
  BY DEF Types, JobInv
<1>3. ModeInv'
  BY DEF Types, JobInv, ModeInv
<1>4. SecretInv'
  BY DEF Types, JobInv, ModeInv, SecretInv
<1>5. IndexInv'
  BY DEF Types, JobInv, IndexInv, Bound
<1>6. RecordInv'
  BY DEF Types, JobInv, SecretInv, RecordInv, FreshInv
<1>7. FreshInv'
  BY DEF Types, JobInv, SecretInv, FreshInv
<1>8. OwnerInv'
  BY DEF Types, JobInv, OwnerInv, HeldBy, SecretInv, IndexInv
<1>9. ClashInv'
  BY DEF Types, JobInv, ClashInv, SecretInv
<1>10. EncInv'
  BY DEF Types, JobInv, EncInv, SecretInv
<1>11. DefaultInv'
  BY DEF Types, JobInv, DefaultInv
<1>. QED
  BY <1>1, <1>2, <1>3, <1>4, <1>5, <1>6, <1>7, <1>8, <1>9, <1>10, <1>11

(* The fresh key gets a record; over a reserved index that is a clash. *)
LEMMA WriteStep ==
  ASSUME KInv, WritePool
  PROVE  KInv'
<1>. USE DEF KInv, NoKey, DefaultKey, WritePool, WithRecord, diskVars, memVars, history
<1>0. NewIndex \in 1 .. nKeys
  BY NewIndexBound
<1>1. Types'
  <2>1. NewIndex \in Nat
    BY <1>0 DEF Types
  <2>2. clash' \in BOOLEAN
    BY DEF Types
  <2>. QED
    BY <2>1, <2>2 DEF Types
<1>2. JobInv'
  BY DEF Types, JobInv
<1>3. ModeInv'
  BY DEF Types, JobInv, ModeInv
<1>4. SecretInv'
  BY DEF Types, JobInv, ModeInv, SecretInv
<1>5. IndexInv'
  BY <1>0 DEF Types, JobInv, IndexInv, Bound
<1>6. RecordInv'
  BY DEF Types, JobInv, SecretInv, RecordInv, FreshInv
<1>7. FreshInv'
  BY DEF Types, JobInv, SecretInv, FreshInv
<1>8. OwnerInv'
  BY DEF Types, JobInv, OwnerInv, HeldBy, SecretInv, IndexInv
<1>9. ClashInv'
  BY DEF Types, JobInv, ClashInv, SecretInv, Reserved, IsReserved
<1>10. EncInv'
  BY DEF Types, JobInv, EncInv, SecretInv
<1>11. DefaultInv'
  BY DEF Types, JobInv, DefaultInv
<1>. QED
  BY <1>1, <1>2, <1>3, <1>4, <1>5, <1>6, <1>7, <1>8, <1>9, <1>10, <1>11

(* A CReserveKey takes the oldest index, whose record stays. *)
LEMMA ReserveStep ==
  ASSUME KInv, Reserve
  PROVE  KInv'
<1>. USE DEF KInv, NoKey, DefaultKey, Reserve, KeyOfOldest, Idle, Readable, Secrets, diskVars, memVars, history
<1>0. setKeyPool # {} => Oldest \in setKeyPool /\ Oldest \in Nat
  BY OldestInPool
<1>12. setKeyPool # {} => Oldest # -1
  BY <1>0
<1>1. Types'
  <2>1. CASE setKeyPool = {}
    BY <2>1 DEF Types, Op
  <2>2. CASE setKeyPool # {}
    <3>1. Oldest \in Nat
      BY <1>0, <2>2
    <3>2. (IF Readable THEN pool[Oldest] ELSE held[job.who].vchPubKey) \in Nat
      BY DEF Types, JobInv, SecretInv
    <3>. QED
      BY <2>2, <3>1, <3>2 DEF Types, Op
  <2>. QED
    BY <2>1, <2>2
<1>2. JobInv'
  BY DEF Types, JobInv
<1>3. ModeInv'
  BY DEF Types, JobInv, ModeInv
<1>4. SecretInv'
  BY DEF Types, JobInv, ModeInv, SecretInv, DefaultInv
<1>5. IndexInv'
  <2>1. CASE setKeyPool = {}
    BY <2>1 DEF Types, JobInv, IndexInv, Bound
  <2>2. CASE setKeyPool # {}
    <3>1. Oldest \in 1 .. Bound
      BY <1>0, <2>2 DEF IndexInv
    <3>2. Bound' = Bound
      BY DEF Types, JobInv, Bound
    <3>3. \A h \in Holder : held'[h].nIndex # -1 => held'[h].nIndex \in 1 .. Bound
      BY <2>2, <3>1 DEF Types, JobInv, IndexInv
    <3>4. Bound \in Nat /\ job'.i = 0 /\ setKeyPool' \subseteq setKeyPool
      BY <1>0, <2>2 DEF Types, JobInv, IndexInv, Bound
    <3>5. DOMAIN pool' \subseteq 1 .. Bound /\ setKeyPool' \subseteq 1 .. Bound
      BY <3>4 DEF IndexInv
    <3>6. job'.i <= Bound
      BY <3>4
    <3>. QED
      BY <3>2, <3>3, <3>5, <3>6 DEF IndexInv
  <2>. QED
    BY <2>1, <2>2
<1>6. RecordInv'
  <2>1. \A i, j \in DOMAIN pool : pool[i] = pool[j] => i = j
    BY DEF RecordInv
  <2>2. \A i \in DOMAIN pool : pool[i] \notin used /\ pool[i] # DefaultKey /\ pool[i] # NoKey
    BY DEF Types, RecordInv, SecretInv, DefaultInv
  <2>3. ASSUME NEW h \in Holder, held'[h].nIndex # -1, held'[h].vchPubKey # NoKey,
               NEW i \in DOMAIN pool, pool[i] = held'[h].vchPubKey
        PROVE  i = held'[h].nIndex
    <3>1. CASE h # job.who
      BY <2>3, <3>1 DEF Types, RecordInv
    <3>2. CASE h = job.who
      BY <2>1, <2>2, <2>3, <3>2, <1>0 DEF Types, JobInv, DefaultInv
    <3>. QED
      BY <3>1, <3>2
  <2>. QED
    BY <2>1, <2>2, <2>3 DEF RecordInv
<1>7. FreshInv'
  BY DEF Types, JobInv, SecretInv, FreshInv
<1>8. OwnerInv'
  BY DEF Types, JobInv, OwnerInv, HeldBy, SecretInv, IndexInv
<1>9. ClashInv'
  <2>. SUFFICES ASSUME ~clash
                PROVE  ClashInv'
    BY DEF ClashInv
  <2>1. CASE setKeyPool = {}
    BY <2>1 DEF Types, ClashInv
  <2>2. CASE setKeyPool # {}
    <3>1. Oldest \in setKeyPool /\ Oldest \in DOMAIN pool /\ pool[Oldest] \in plain \cup crypted
      BY <1>0, <2>2 DEF ClashInv, SecretInv
    <3>2. /\ held'[job.who] = [nIndex |-> Oldest, vchPubKey |-> pool[Oldest]]
          /\ \A g \in Holder : g # job.who => held'[g] = held[g]
      BY <2>2, <3>1 DEF Types, JobInv
    <3>. QED
      BY <2>2, <3>1, <3>2 DEF ClashInv, JobInv
  <2>. QED
    BY <2>1, <2>2
<1>10. EncInv'
  BY DEF Types, JobInv, EncInv, SecretInv
<1>11. DefaultInv'
  BY <1>0, <1>12 DEF Types, JobInv, DefaultInv
<1>. QED
  BY <1>1, <1>2, <1>3, <1>4, <1>5, <1>6, <1>7, <1>8, <1>9, <1>10, <1>11

(* GetKeyFromPool takes the oldest index and its record. *)
LEMMA GetKeyStep ==
  ASSUME KInv, GetKey
  PROVE  KInv'
<1>. USE DEF KInv, NoKey, DefaultKey, GetKey, Idle, WithoutRecord, Readable, Secrets, diskVars, memVars, history
<1>0. setKeyPool # {} => Oldest \in setKeyPool /\ Oldest \in Nat
  BY OldestInPool
<1>1. Types'
  BY DEF Types, Op
<1>2. JobInv'
  BY DEF Types, JobInv
<1>3. ModeInv'
  BY DEF Types, JobInv, ModeInv
<1>4. SecretInv'
  BY DEF Types, JobInv, ModeInv, SecretInv
<1>5. IndexInv'
  BY DEF Types, JobInv, IndexInv, Bound
<1>6. RecordInv'
  BY DEF Types, JobInv, SecretInv, RecordInv, FreshInv
<1>7. FreshInv'
  BY DEF Types, JobInv, SecretInv, FreshInv
<1>8. OwnerInv'
  BY DEF Types, JobInv, OwnerInv, HeldBy, SecretInv, IndexInv
<1>9. ClashInv'
  BY <1>0 DEF Types, JobInv, ClashInv, SecretInv
<1>10. EncInv'
  BY DEF Types, JobInv, EncInv, SecretInv
<1>11. DefaultInv'
  BY DEF Types, JobInv, DefaultInv
<1>. QED
  BY <1>1, <1>2, <1>3, <1>4, <1>5, <1>6, <1>7, <1>8, <1>9, <1>10, <1>11

(* KeepKey: the record goes, the key is used. *)
LEMMA KeepStep ==
  ASSUME KInv, NEW h \in Holder, KeepKey(h)
  PROVE  KInv'
<1>. USE DEF KInv, NoKey, DefaultKey, KeepKey, HasKey, InCall, WithoutRecord, IsReserved, Unreserved, diskVars, memVars, history
<1>1. Types'
  BY DEF Types, Op
<1>2. JobInv'
  BY DEF Types, JobInv
<1>3. ModeInv'
  BY DEF Types, JobInv, ModeInv
<1>4. SecretInv'
  BY DEF Types, JobInv, ModeInv, SecretInv, DefaultInv
<1>5. IndexInv'
  BY DEF Types, JobInv, IndexInv, Bound
<1>6. RecordInv'
  <2>1. \A i \in DOMAIN pool' : i \in DOMAIN pool /\ pool'[i] = pool[i]
    OBVIOUS
  <2>2. \A i \in DOMAIN pool' : pool[i] # held[h].vchPubKey
    BY DEF Types, RecordInv, DefaultInv
  <2>3. \A g \in Holder : held'[g] # held[g] => held'[g].nIndex = -1
    BY DEF Types
  <2>. QED
    BY <2>1, <2>2, <2>3 DEF RecordInv
<1>7. FreshInv'
  BY DEF Types, JobInv, SecretInv, FreshInv, DefaultInv
<1>12. -1 \notin DOMAIN pool
  BY DEF Types, IndexInv, Bound
<1>8. OwnerInv'
  <2>. SUFFICES ASSUME NEW i \in DOMAIN pool', ~HeldBy(i)'
                PROVE  i \in setKeyPool /\ (job.op = "erase" => i > job.i)
    BY DEF OwnerInv
  <2>1. i \in DOMAIN pool /\ i # held[h].nIndex /\ pool'[i] = pool[i]
    BY <1>12
  <2>2. ~HeldBy(i)
    <3>1. ASSUME NEW g \in Holder, held[g].nIndex = i, i # -1, held[g].vchPubKey = pool[i]
          PROVE  held'[g] = held[g]
      BY <2>1, <3>1 DEF Types
    <3>. QED
      BY <2>1, <3>1 DEF HeldBy
  <2>. QED
    BY <2>1, <2>2 DEF OwnerInv
<1>9. ClashInv'
  BY DEF Types, JobInv, ClashInv, SecretInv
<1>10. EncInv'
  BY DEF Types, JobInv, EncInv, SecretInv
<1>11. DefaultInv'
  BY DEF Types, JobInv, DefaultInv
<1>. QED
  BY <1>1, <1>2, <1>3, <1>4, <1>5, <1>6, <1>7, <1>8, <1>9, <1>10, <1>11

(* ReturnKey: the index is in the pool again. *)
LEMMA ReturnStep ==
  ASSUME KInv, NEW h \in Holder, ReturnKey(h)
  PROVE  KInv'
<1>. USE DEF KInv, NoKey, DefaultKey, ReturnKey, InCall, Idle, IsReserved, Unreserved, diskVars, memVars, history
<1>1. Types'
  BY DEF Types, Op
<1>2. JobInv'
  BY DEF Types, JobInv
<1>3. ModeInv'
  BY DEF Types, JobInv, ModeInv
<1>4. SecretInv'
  BY DEF Types, JobInv, ModeInv, SecretInv
<1>5. IndexInv'
  BY DEF Types, JobInv, IndexInv, Bound
<1>6. RecordInv'
  BY DEF Types, JobInv, SecretInv, RecordInv, FreshInv
<1>7. FreshInv'
  BY DEF Types, JobInv, SecretInv, FreshInv
<1>8. OwnerInv'
  BY DEF Types, JobInv, OwnerInv, HeldBy, SecretInv, IndexInv
<1>9. ClashInv'
  BY DEF Types, JobInv, ClashInv, SecretInv
<1>10. EncInv'
  BY DEF Types, JobInv, EncInv, SecretInv
<1>11. DefaultInv'
  BY DEF Types, JobInv, DefaultInv
<1>. QED
  BY <1>1, <1>2, <1>3, <1>4, <1>5, <1>6, <1>7, <1>8, <1>9, <1>10, <1>11

(* Locking and unlocking. *)
LEMMA LockStep ==
  ASSUME KInv, Lock \/ LockKeyStore \/ Unlock \/ ChangeWalletPassphrase
  PROVE  KInv'
<1>. USE DEF KInv, NoKey, DefaultKey, Lock, LockKeyStore, Unlock, ChangeWalletPassphrase, Idle, diskVars, memVars, history
<1>1. Types'
  BY DEF Types, Op
<1>2. JobInv'
  BY DEF Types, JobInv
<1>3. ModeInv'
  BY DEF Types, JobInv, ModeInv
<1>4. SecretInv'
  BY DEF Types, JobInv, ModeInv, SecretInv
<1>5. IndexInv'
  BY DEF Types, JobInv, IndexInv, Bound
<1>6. RecordInv'
  BY DEF Types, JobInv, SecretInv, RecordInv, FreshInv
<1>7. FreshInv'
  BY DEF Types, JobInv, SecretInv, FreshInv
<1>8. OwnerInv'
  BY DEF Types, JobInv, OwnerInv, HeldBy, SecretInv, IndexInv
<1>9. ClashInv'
  BY DEF Types, JobInv, ClashInv, SecretInv
<1>10. EncInv'
  BY DEF Types, JobInv, EncInv, SecretInv
<1>11. DefaultInv'
  BY DEF Types, JobInv, DefaultInv
<1>. QED
  BY <1>1, <1>2, <1>3, <1>4, <1>5, <1>6, <1>7, <1>8, <1>9, <1>10, <1>11

(* EncryptWallet begins. *)
LEMMA EncryptStep ==
  ASSUME KInv, EncryptWallet
  PROVE  KInv'
<1>. USE DEF KInv, NoKey, DefaultKey, EncryptWallet, Idle, diskVars, memVars, history
<1>1. Types'
  <2>1. HeldKeys \subseteq Nat
    BY DEF Types, HeldKeys, IsReserved
  <2>. QED
    BY <2>1, KeyPoolAssumption DEF Types, Op
<1>2. JobInv'
  BY DEF Types, JobInv
<1>3. ModeInv'
  BY DEF Types, JobInv, ModeInv
<1>4. SecretInv'
  BY DEF Types, JobInv, ModeInv, SecretInv
<1>5. IndexInv'
  BY DEF Types, JobInv, IndexInv, Bound
<1>6. RecordInv'
  BY DEF Types, JobInv, SecretInv, RecordInv, FreshInv
<1>7. FreshInv'
  BY DEF Types, JobInv, SecretInv, FreshInv
<1>8. OwnerInv'
  BY DEF Types, JobInv, OwnerInv, HeldBy, SecretInv, IndexInv
<1>9. ClashInv'
  BY DEF Types, JobInv, ClashInv, SecretInv
<1>10. EncInv'
  BY DEF Types, EncInv, HeldKeys, IsReserved
<1>11. DefaultInv'
  BY DEF Types, JobInv, DefaultInv
<1>. QED
  BY <1>1, <1>2, <1>3, <1>4, <1>5, <1>6, <1>7, <1>8, <1>9, <1>10, <1>11

(* A failed TxnBegin leaves a master key in memory and nothing on disk. *)
LEMMA TxnBeginStep ==
  ASSUME KInv, TxnBeginFails
  PROVE  KInv'
<1>. USE DEF KInv, NoKey, DefaultKey, TxnBeginFails, diskVars, memVars, history
<1>1. Types'
  BY DEF Types, Op
<1>2. JobInv'
  BY DEF Types, JobInv
<1>3. ModeInv'
  BY DEF Types, JobInv, ModeInv
<1>4. SecretInv'
  BY DEF Types, JobInv, ModeInv, SecretInv
<1>5. IndexInv'
  BY DEF Types, JobInv, IndexInv, Bound
<1>6. RecordInv'
  BY DEF Types, JobInv, SecretInv, RecordInv, FreshInv
<1>7. FreshInv'
  BY DEF Types, JobInv, SecretInv, FreshInv
<1>8. OwnerInv'
  BY DEF Types, JobInv, OwnerInv, HeldBy, SecretInv, IndexInv
<1>9. ClashInv'
  BY DEF Types, JobInv, ClashInv, SecretInv
<1>10. EncInv'
  BY DEF Types, JobInv, EncInv, SecretInv
<1>11. DefaultInv'
  BY DEF Types, JobInv, DefaultInv
<1>. QED
  BY <1>1, <1>2, <1>3, <1>4, <1>5, <1>6, <1>7, <1>8, <1>9, <1>10, <1>11

(* The secrets change in one database transaction. *)
LEMMA CommitStep ==
  ASSUME KInv, TxnCommit
  PROVE  KInv'
<1>. USE DEF KInv, NoKey, DefaultKey, TxnCommit, diskVars, memVars, history
<1>1. Types'
  BY DEF Types, Op
<1>2. JobInv'
  BY DEF Types, JobInv
<1>3. ModeInv'
  BY DEF Types, JobInv, ModeInv
<1>4. SecretInv'
  BY DEF Types, JobInv, ModeInv, SecretInv
<1>5. IndexInv'
  BY DEF Types, JobInv, IndexInv, Bound
<1>6. RecordInv'
  BY DEF Types, JobInv, SecretInv, RecordInv, FreshInv
<1>7. FreshInv'
  BY DEF Types, JobInv, SecretInv, FreshInv
<1>8. OwnerInv'
  BY DEF Types, JobInv, OwnerInv, HeldBy, IndexInv, Bound
<1>9. ClashInv'
  BY DEF Types, JobInv, ClashInv, SecretInv
<1>10. EncInv'
  BY DEF Types, JobInv, EncInv, SecretInv
<1>11. DefaultInv'
  BY DEF Types, JobInv, DefaultInv
<1>. QED
  BY <1>1, <1>2, <1>3, <1>4, <1>5, <1>6, <1>7, <1>8, <1>9, <1>10, <1>11

(* NewKeyPool erases the next record. *)
LEMMA EraseStep ==
  ASSUME KInv, ErasePool
  PROVE  KInv'
<1>. USE DEF KInv, NoKey, DefaultKey, ErasePool, WithoutRecord, diskVars, memVars, history
<1>0. ToErase \subseteq Nat /\ Min(ToErase) \in ToErase /\ \A i \in ToErase : Min(ToErase) <= i
  BY NextToErase
<1>1. Types'
  <2>1. Min(ToErase) \in Nat
    BY <1>0 DEF Types, IndexInv, Bound, ToErase
  <2>. QED
    BY <2>1 DEF Types, Op
<1>2. JobInv'
  BY DEF Types, JobInv
<1>3. ModeInv'
  BY DEF Types, JobInv, ModeInv
<1>4. SecretInv'
  BY DEF Types, JobInv, ModeInv, SecretInv
<1>5. IndexInv'
  BY <1>0 DEF Types, JobInv, IndexInv, Bound, ToErase
<1>6. RecordInv'
  BY DEF Types, JobInv, SecretInv, RecordInv, FreshInv
<1>7. FreshInv'
  BY DEF Types, JobInv, SecretInv, FreshInv
<1>8. OwnerInv'
  <2>1. job'.op = "erase" /\ job'.i = Min(ToErase)
    BY DEF Types
  <2>2. \A i \in DOMAIN pool' : i \in DOMAIN pool /\ i # Min(ToErase) /\ pool'[i] = pool[i]
    OBVIOUS
  <2>3. \A i \in ToErase : i # Min(ToErase) => i > Min(ToErase)
    <3>. TAKE i \in ToErase
    <3>1. Min(ToErase) \in Nat /\ i \in Nat /\ Min(ToErase) <= i
      BY <1>0
    <3>. QED
      BY <3>1
  <2>4. \A i \in DOMAIN pool : (i \in ToErase /\ i \in setKeyPool) \/ HeldBy(i)
    BY DEF OwnerInv, ToErase
  <2>. QED
    BY <2>1, <2>2, <2>3, <2>4 DEF OwnerInv, HeldBy
<1>9. ClashInv'
  BY <1>0 DEF Types, JobInv, ClashInv, ToErase
<1>10. EncInv'
  BY DEF Types, JobInv, EncInv, SecretInv
<1>11. DefaultInv'
  BY DEF Types, JobInv, DefaultInv
<1>. QED
  BY <1>1, <1>2, <1>3, <1>4, <1>5, <1>6, <1>7, <1>8, <1>9, <1>10, <1>11

(* NewKeyPool has erased the pool: only the reserved records are left. *)
LEMMA ClearStep ==
  ASSUME KInv, ClearPool
  PROVE  KInv'
<1>. USE DEF KInv, NoKey, DefaultKey, ClearPool, ToErase, diskVars, memVars, history
<1>1. Types'
  BY DEF Types, Op
<1>2. JobInv'
  BY DEF Types, JobInv
<1>3. ModeInv'
  BY DEF Types, JobInv, ModeInv
<1>4. SecretInv'
  BY DEF Types, JobInv, ModeInv, SecretInv
<1>5. IndexInv'
  BY DEF Types, JobInv, IndexInv, Bound
<1>6. RecordInv'
  BY DEF Types, JobInv, SecretInv, RecordInv, FreshInv
<1>7. FreshInv'
  BY DEF Types, JobInv, SecretInv, FreshInv
<1>8. OwnerInv'
  BY DEF Types, JobInv, OwnerInv, HeldBy, SecretInv, IndexInv
<1>9. ClashInv'
  BY DEF Types, JobInv, ClashInv, SecretInv
<1>10. EncInv'
  BY DEF Types, JobInv, EncInv, SecretInv, OwnerInv, HeldBy
<1>11. DefaultInv'
  BY DEF Types, JobInv, DefaultInv
<1>. QED
  BY <1>1, <1>2, <1>3, <1>4, <1>5, <1>6, <1>7, <1>8, <1>9, <1>10, <1>11

(* NewKeyPool returns. *)
LEMMA NewKeyPoolStep ==
  ASSUME KInv, NewKeyPoolDone
  PROVE  KInv'
<1>. USE DEF KInv, NoKey, DefaultKey, NewKeyPoolDone, Idle, diskVars, memVars, history
<1>1. Types'
  BY DEF Types, Op
<1>2. JobInv'
  BY DEF Types, JobInv
<1>3. ModeInv'
  BY DEF Types, JobInv, ModeInv
<1>4. SecretInv'
  BY DEF Types, JobInv, ModeInv, SecretInv
<1>5. IndexInv'
  BY DEF Types, JobInv, IndexInv, Bound
<1>6. RecordInv'
  BY DEF Types, JobInv, SecretInv, RecordInv, FreshInv
<1>7. FreshInv'
  BY DEF Types, JobInv, SecretInv, FreshInv
<1>8. OwnerInv'
  BY DEF Types, JobInv, OwnerInv, HeldBy, SecretInv, IndexInv
<1>9. ClashInv'
  BY DEF Types, JobInv, ClashInv, SecretInv
<1>10. EncInv'
  BY DEF Types, JobInv, EncInv, SecretInv
<1>11. DefaultInv'
  BY DEF Types, JobInv, DefaultInv
<1>. QED
  BY <1>1, <1>2, <1>3, <1>4, <1>5, <1>6, <1>7, <1>8, <1>9, <1>10, <1>11

(* CDB::Rewrite replaces the file by one with the same records. *)
LEMMA RewriteStep ==
  ASSUME KInv, RewriteRemoves \/ RewriteRenames \/ RewriteFails
  PROVE  KInv'
<1>. USE DEF KInv, NoKey, DefaultKey, RewriteRemoves, RewriteRenames, RewriteFails, Encrypted, Idle, diskVars, memVars, history
<1>1. Types'
  <2>1. job' \in [op : Op, who : Holder \cup {NoKey}, fill : BOOLEAN, size : Nat, i : Nat, fresh : Nat]
    <3>1. job' = [job EXCEPT !.op = "rename"] \/ job' = Idle
      OBVIOUS
    <3>2. CASE job' = [job EXCEPT !.op = "rename"]
      BY ONLY <3>2, KInv DEF KInv, Types, Op
    <3>3. CASE job' = Idle
      BY ONLY <3>3 DEF Op, Idle, NoKey
    <3>. QED
      BY <3>1, <3>2, <3>3
  <2>2. enc' \in [old : Nat, reserved : SUBSET Nat, done : BOOLEAN]
    BY DEF Types
  <2>. QED
    BY <2>1, <2>2 DEF Types
<1>2. JobInv'
  BY DEF Types, JobInv
<1>3. ModeInv'
  BY DEF Types, JobInv, ModeInv
<1>4. SecretInv'
  BY DEF Types, JobInv, ModeInv, SecretInv
<1>5. IndexInv'
  BY DEF Types, JobInv, IndexInv, Bound
<1>6. RecordInv'
  BY DEF Types, JobInv, SecretInv, RecordInv, FreshInv
<1>7. FreshInv'
  BY DEF Types, JobInv, SecretInv, FreshInv
<1>8. OwnerInv'
  BY DEF Types, JobInv, OwnerInv, HeldBy, SecretInv, IndexInv
<1>9. ClashInv'
  BY DEF Types, JobInv, ClashInv, SecretInv
<1>10. EncInv'
  BY DEF Types, JobInv, EncInv, SecretInv
<1>11. DefaultInv'
  BY DEF Types, JobInv, DefaultInv
<1>. QED
  BY <1>1, <1>2, <1>3, <1>4, <1>5, <1>6, <1>7, <1>8, <1>9, <1>10, <1>11

(* A crash at any point and the restart. *)
LEMMA LoadStep ==
  ASSUME KInv, LoadWallet
  PROVE  KInv'
<1>. USE DEF KInv, NoKey, DefaultKey, LoadWallet, Idle, Unreserved, diskVars, memVars, history
<1>1. Types'
  BY DEF Types, Op
<1>2. JobInv'
  BY DEF Types, JobInv
<1>3. ModeInv'
  BY DEF Types, JobInv, ModeInv
<1>4. SecretInv'
  BY DEF Types, JobInv, ModeInv, SecretInv
<1>5. IndexInv'
  BY DEF Types, JobInv, IndexInv, Bound
<1>6. RecordInv'
  BY DEF Types, JobInv, SecretInv, RecordInv, FreshInv
<1>7. FreshInv'
  BY DEF Types, JobInv, SecretInv, FreshInv
<1>8. OwnerInv'
  BY DEF Types, JobInv, OwnerInv, HeldBy, SecretInv, IndexInv
<1>9. ClashInv'
  BY DEF Types, JobInv, ClashInv, SecretInv
<1>10. EncInv'
  BY DEF Types, JobInv, EncInv, SecretInv
<1>11. DefaultInv'
  BY DEF Types, JobInv, DefaultInv
<1>. QED
  BY <1>1, <1>2, <1>3, <1>4, <1>5, <1>6, <1>7, <1>8, <1>9, <1>10, <1>11

-----------------------------------------------------------------------------
(* The invariant holds after the first run of the wallet. *)
LEMMA InitKInv == Init => KInv
<1>. SUFFICES ASSUME Init
              PROVE  KInv
  OBVIOUS
<1>. USE KeyPoolAssumption DEF Init, NoKey, Idle, Unreserved
<1>1. Types
  <2>1. nKeys \in Nat
    OBVIOUS
  <2>2. held \in [Holder -> [nIndex : Nat \cup {-1}, vchPubKey : Nat]]
    OBVIOUS
  <2>3. job \in [op : Op, who : Holder \cup {NoKey}, fill : BOOLEAN, size : Nat, i : Nat, fresh : Nat]
    BY DEF Op
  <2>4. enc \in [old : Nat, reserved : SUBSET Nat, done : BOOLEAN]
    OBVIOUS
  <2>. QED
    BY <2>1, <2>2, <2>3, <2>4 DEF Types
<1>2. JobInv /\ ModeInv
  BY DEF JobInv, ModeInv
<1>3. SecretInv /\ IndexInv
  BY DEF SecretInv, IndexInv, Bound, DefaultKey
<1>4. RecordInv /\ FreshInv
  BY DEF RecordInv, FreshInv, DefaultKey
<1>5. OwnerInv /\ ClashInv /\ EncInv
  BY DEF OwnerInv, ClashInv, EncInv
<1>6. DefaultInv
  BY DEF DefaultInv
<1>. QED
  BY <1>1, <1>2, <1>3, <1>4, <1>5, <1>6 DEF KInv

(* No step leaves the invariant. *)
LEMMA NextKInv == KInv /\ [Next]_vars => KInv'
<1>. SUFFICES ASSUME KInv, [Next]_vars
              PROVE  KInv'
  OBVIOUS
<1>1. ASSUME NEW h \in Holder, GetReservedKey(h)
      PROVE  KInv'
  BY <1>1, TakeStep, KeyPoolAssumption DEF GetReservedKey
<1>2. CASE GetKeyFromPool
  BY <1>2, TakeStep, KeyPoolAssumption DEF GetKeyFromPool
<1>3. ASSUME NEW n \in RefillSize, keypoolrefill(n)
      PROVE  KInv'
  BY <1>3, TakeStep, KeyPoolAssumption DEF keypoolrefill
<1>4. ASSUME NEW h \in Holder, KeepKey(h) \/ ReturnKey(h)
      PROVE  KInv'
  BY <1>4, KeepStep, ReturnStep
<1>5. CASE GenerateNewKey \/ GenerateNewKeyThrows \/ WritePool \/ TopUpDone \/ RefillDone
  BY <1>5, GenerateStep, ThrowStep, WriteStep, TopUpDoneStep, RefillDoneStep
<1>6. CASE Reserve \/ GetKey
  BY <1>6, ReserveStep, GetKeyStep
<1>7. CASE Lock \/ LockKeyStore \/ Unlock \/ ChangeWalletPassphrase
  BY <1>7, LockStep
<1>8. CASE EncryptWallet \/ TxnBeginFails \/ TxnCommit \/ ErasePool \/ ClearPool \/ NewKeyPoolDone
  BY <1>8, EncryptStep, TxnBeginStep, CommitStep, EraseStep, ClearStep, NewKeyPoolStep
<1>9. CASE LoadWallet
  BY <1>9, LoadStep
<1>10. CASE UNCHANGED vars
  BY <1>10 DEF vars, diskVars, memVars, history, KInv, DefaultInv, Types, JobInv, ModeInv, SecretInv, IndexInv, Bound, RecordInv,
               FreshInv, OwnerInv, HeldBy, ClashInv, EncInv
<1>11. CASE RewriteRemoves \/ RewriteRenames \/ RewriteFails
  BY <1>11, RewriteStep
<1>. QED
  BY <1>1, <1>2, <1>3, <1>4, <1>5, <1>6, <1>7, <1>8, <1>9, <1>10, <1>11 DEF Next

(* The inductive invariant holds always. *)
LEMMA KInvHolds == Spec => []KInv
  BY InitKInv, NextKInv, PTL DEF Spec

(* What setKeyPool lists can be read and is nobody's, until a record is        *)
(* written over a reserved one.                                                *)
THEOREM PoolIsBacked == Spec => []PoolBacked
<1>1. KInv => PoolBacked
  BY DEF KInv, Types, SecretInv, ClashInv, PoolBacked, Secrets, Reserved, IsReserved
<1>. QED
  BY <1>1, KInvHolds, PTL

(* A key that was kept or given out is never in the pool again, over crashes   *)
(* too; until a record is written over a reserved one it is not reserved       *)
(* either, and two CReserveKeys share only the default key of an empty pool.   *)
THEOREM KeysAreFresh == Spec => []FreshKeys
<1>1. KInv => PoolKeys \cap used = {}
  BY DEF KInv, RecordInv, PoolKeys
<1>2. KInv /\ ~clash => HeldKeys \cap used = {}
  BY DEF KInv, RecordInv, ClashInv, HeldKeys, IsReserved
<1>3. KInv /\ ~clash => \A h \in Holder :
        IF IsReserved(h) THEN /\ held[h].vchPubKey = pool[held[h].nIndex]
                              /\ held[h].nIndex \in DOMAIN pool
                              /\ held[h].vchPubKey \notin {NoKey, DefaultKey}
        ELSE held[h].vchPubKey \in {NoKey, DefaultKey}
  BY DEF KInv, Types, SecretInv, RecordInv, ClashInv, DefaultInv, IsReserved, NoKey
<1>5. KInv /\ ~clash => \A g, h \in Holder :
        g # h /\ held[g].vchPubKey = held[h].vchPubKey
          => held[g].vchPubKey \in {NoKey, DefaultKey} /\ ~IsReserved(g) /\ ~IsReserved(h)
  BY <1>3 DEF KInv, RecordInv, ClashInv, IsReserved
<1>4. KInv => FreshKeys
  BY <1>1, <1>2, <1>5 DEF FreshKeys
<1>. QED
  BY <1>4, KInvHolds, PTL

(* A crash at any write of any operation loses no secret, and leaves the       *)
(* wallet wholly plain or wholly encrypted.                                    *)
THEOREM SecretsSurvive == Spec => []SecretsOnDisk
<1>1. KInv => used \cup PoolKeys \cup (HeldKeys \ {NoKey}) \subseteq Secrets
  BY DEF KInv, SecretInv, PoolKeys, HeldKeys, IsReserved, Secrets
<1>2. KInv => /\ IF fMasterKey THEN plain = {} ELSE crypted = {}
              /\ status = "unlocked" => fMasterKey
  BY DEF KInv, Types, SecretInv, ModeInv
<1>3. KInv => SecretsOnDisk
  BY <1>1, <1>2 DEF SecretsOnDisk
<1>. QED
  BY <1>3, KInvHolds, PTL

(* After EncryptWallet no key from before it comes out of the pool, but for    *)
(* those reserved meanwhile.                                                   *)
THEOREM EncryptionFlushes == Spec => []FlushedByEncryption
<1>1. KInv => FlushedByEncryption
  BY DEF KInv, EncInv, FlushedByEncryption
<1>. QED
  BY <1>1, KInvHolds, PTL
=============================================================================
