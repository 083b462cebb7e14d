-------------------------- MODULE ChainStateProofs --------------------------
(***************************************************************************)
(* Theorems about the behaviours of module ChainState, for every block     *)
(* tree and every set of transactions: type correctness, the agreement of  *)
(* the transaction index with the best chain wherever the process dies,    *)
(* the agreement of memory with disk, the exactness of the memory pool's   *)
(* index, and that the trust of the best chain on disk falls only when the *)
(* start-up verification moves it back to an ancestor.                     *)
(* First the facts that mention no variable: about the tree of blocks and  *)
(* about what ConnectBlock and DisconnectBlock do to the database.         *)
(***************************************************************************)
EXTENDS ChainState, WellFoundedInduction, TLAPS

-----------------------------------------------------------------------------
(* The least-number principle, from the well-foundedness of < on Nat. *)
LEMMA LeastNat ==
  ASSUME NEW S \in SUBSET Nat, S # {}
  PROVE  \E m \in S : \A n \in S : m <= n
<1> DEFINE R == OpToRel(<, Nat)
<1>1. IsWellFoundedOn(R, Nat)
  BY NatLessThanWellFounded
<1>2. \A x, y \in Nat : y < x => <<y, x>> \in R
  BY DEF OpToRel
<1> HIDE DEF R
<1>3. \E x \in S : \A y \in S : ~(<<y, x>> \in R)
  BY <1>1, WFMin
<1>4. PICK x \in S : \A y \in S : ~(<<y, x>> \in R)
  BY <1>3
<1>5. \A y \in S : x <= y
  <2> TAKE y \in S
  <2>1. ~(<<y, x>> \in R)
    BY <1>4
  <2>2. ~(y < x)
    BY <2>1, <1>2
  <2> QED
    BY <2>2
<1> QED
  BY <1>5

-----------------------------------------------------------------------------
(* The block tree. *)

(* What the assumptions say of one block and its parent. *)
LEMMA TreeFacts ==
  /\ Genesis \in Block /\ pprev[Genesis] = Genesis
  /\ \A b \in Block :
        /\ pprev[b] \in Block
        /\ nHeight[b] \in Nat /\ nChainTrust[b] \in Nat
        /\ b # Genesis => nHeight[b] = nHeight[pprev[b]] + 1
        /\ b # Genesis => nChainTrust[b] > nChainTrust[pprev[b]]
        /\ nHeight[pprev[b]] <= nHeight[b]
<1>1. \A b \in Block : nHeight[b] \in Nat /\ nChainTrust[b] \in Nat /\ pprev[b] \in Block
  BY BlockAssumption
<1>2. \A b \in Block \ {Genesis} : nHeight[b] = nHeight[pprev[b]] + 1
                                   /\ nChainTrust[b] > nChainTrust[pprev[b]]
  BY BlockAssumption
<1>3. Genesis \in Block /\ pprev[Genesis] = Genesis
  BY BlockAssumption
<1> QED
  BY <1>1, <1>2, <1>3

(* A block is its own ancestor, and the ancestors are closed under pprev. *)
LEMMA AncestorsClosed ==
  ASSUME NEW b \in Block
  PROVE  /\ Ancestors[b] \subseteq Block
         /\ b \in Ancestors[b]
         /\ \A a \in Ancestors[b] : pprev[a] \in Ancestors[b]
  BY TreeFacts DEF Ancestors

(* Ancestors is the least such set. *)
LEMMA AncestorsLeast ==
  ASSUME NEW b \in Block, NEW S \in SUBSET Block, b \in S,
         \A c \in S : pprev[c] \in S
  PROVE  Ancestors[b] \subseteq S
  BY DEF Ancestors

(* The ancestors of a block are the block and the ancestors of its parent. *)
LEMMA AncestorsStep ==
  ASSUME NEW b \in Block
  PROVE  Ancestors[b] = {b} \cup Ancestors[pprev[b]]
<1> DEFINE p == pprev[b]
          S == {b} \cup Ancestors[p]
<1>1. p \in Block
  BY TreeFacts
<1>2. Ancestors[b] \subseteq S
  <2>1. S \in SUBSET Block /\ b \in S /\ \A c \in S : pprev[c] \in S
    BY <1>1, AncestorsClosed
  <2> HIDE DEF S
  <2> QED
    BY <2>1, AncestorsLeast
<1>3. Ancestors[p] \subseteq Ancestors[b]
  <2> DEFINE A == Ancestors[b]
  <2>1. A \in SUBSET Block /\ p \in A /\ \A c \in A : pprev[c] \in A
    BY AncestorsClosed
  <2> HIDE DEF A
  <2>2. Ancestors[p] \subseteq A
    BY <1>1, <2>1, AncestorsLeast
  <2> QED
    BY <2>2 DEF A
<1> QED
  BY <1>2, <1>3, AncestorsClosed

(* Heights grow towards the descendants, strictly. *)
LEMMA AncestorsHeight ==
  ASSUME NEW b \in Block, NEW a \in Ancestors[b]
  PROVE  nHeight[a] <= nHeight[b]
<1> DEFINE S == {c \in Block : nHeight[c] <= nHeight[b]}
<1>1. S \in SUBSET Block /\ b \in S
  BY TreeFacts
<1>2. \A c \in S : pprev[c] \in S
  BY TreeFacts
<1> HIDE DEF S
<1>3. a \in S
  BY <1>1, <1>2, AncestorsLeast
<1> QED
  BY <1>3 DEF S

(* A block is above its parent and is none of the parent's ancestors. *)
LEMMA ParentHeight ==
  ASSUME NEW b \in Block, b # Genesis
  PROVE  /\ pprev[b] \in Block
         /\ nHeight[b] = nHeight[pprev[b]] + 1
         /\ nHeight[pprev[b]] \in Nat /\ nHeight[b] \in Nat
         /\ b \notin Ancestors[pprev[b]]
         /\ \A a \in Ancestors[pprev[b]] : a \in Block /\ nHeight[a] \in Nat /\ nHeight[a] < nHeight[b]
<1>1. /\ pprev[b] \in Block
      /\ nHeight[b] = nHeight[pprev[b]] + 1
      /\ nHeight[pprev[b]] \in Nat /\ nHeight[b] \in Nat
  BY TreeFacts
<1>2. \A a \in Ancestors[pprev[b]] : nHeight[a] <= nHeight[pprev[b]] /\ a \in Block
  BY <1>1, AncestorsHeight, AncestorsClosed
<1>3. \A a \in Block : nHeight[a] \in Nat
  BY TreeFacts
<1> QED
  BY <1>1, <1>2, <1>3

(* Genesis is an ancestor of every block, and its only one. *)
LEMMA GenesisAncestor ==
  ASSUME NEW b \in Block
  PROVE  Genesis \in Ancestors[b] /\ Ancestors[Genesis] = {Genesis}
<1>1. Ancestors[Genesis] = {Genesis}
  <2> DEFINE S == {Genesis}
  <2>1. S \in SUBSET Block /\ Genesis \in S /\ \A c \in S : pprev[c] \in S
    BY TreeFacts
  <2> HIDE DEF S
  <2>2. Ancestors[Genesis] \subseteq S
    BY <2>1, TreeFacts, AncestorsLeast
  <2> QED
    BY <2>2, AncestorsClosed, TreeFacts DEF S
<1> DEFINE H == {nHeight[a] : a \in Ancestors[b]}
<1>2. H \in SUBSET Nat /\ H # {}
  BY TreeFacts, AncestorsClosed
<1>3. PICK m \in H : \A n \in H : m <= n
  BY <1>2, LeastNat
<1>4. PICK a \in Ancestors[b] : nHeight[a] = m
  BY <1>3
<1>5. a = Genesis
  <2> SUFFICES ASSUME a # Genesis PROVE FALSE
    OBVIOUS
  <2>1. pprev[a] \in Ancestors[b] /\ a \in Block
    BY AncestorsClosed
  <2>2. nHeight[pprev[a]] < m
    BY <1>4, <2>1, TreeFacts
  <2>3. nHeight[pprev[a]] \in H
    BY <2>1
  <2> HIDE DEF H
  <2>4. m <= nHeight[pprev[a]] /\ m \in Nat /\ nHeight[pprev[a]] \in Nat
    BY <1>2, <1>3, <2>3
  <2> QED
    BY <2>2, <2>4
<1> QED
  BY <1>1, <1>4, <1>5

(* Below a proper ancestor the chain goes on. *)
LEMMA NextTowardsChild ==
  ASSUME NEW b \in Block, NEW t \in Ancestors[b], t # b
  PROVE  LET c == NextTowards(t, b)
         IN  c \in Ancestors[b] /\ c \in Block /\ c # Genesis /\ pprev[c] = t
<1>1. \E c \in Ancestors[b] \ {Genesis} : pprev[c] = t
  <2> SUFFICES ASSUME \A c \in Ancestors[b] \ {Genesis} : pprev[c] # t PROVE FALSE
    OBVIOUS
  <2> DEFINE S == Ancestors[b] \ {t}
  <2>1. S \in SUBSET Block /\ b \in S
    BY AncestorsClosed
  <2>2. \A c \in S : pprev[c] \in S
    BY AncestorsClosed, TreeFacts
  <2> HIDE DEF S
  <2>3. Ancestors[b] \subseteq S
    BY <2>1, <2>2, AncestorsLeast
  <2> QED
    BY <2>3 DEF S
<1> QED
  BY <1>1, AncestorsClosed DEF NextTowards

-----------------------------------------------------------------------------
(* The database of a chain. *)

(* The inductive form of DescribesChain and LinksChain: besides the entries   *)
(* and the spent flags, no transaction is in two blocks of the chain, and no  *)
(* block spends an output of a later one.                                     *)
Consistent(db, b) ==
  /\ db.tx = ChainTx(b)
  /\ \A a, c \in Ancestors[b] : a # c => TxIn(a) \cap TxIn(c) = {}
  /\ \A t \in db.tx : \A o \in vin[t] : txOf[o] \in db.tx /\ db.spent[o] = t
  /\ \A o \in OutPoint : db.spent[o] # NULL =>
        db.spent[o] \in db.tx /\ o \in vin[db.spent[o]]
  /\ \A a, c \in Ancestors[b] : \A t \in TxIn(a) : \A o \in vin[t] :
        txOf[o] \in TxIn(c) => nHeight[c] <= nHeight[a]
  /\ LinksChain(db.next, b)

(* What the assumptions say of transactions and outputs. *)
LEMMA TxFacts ==
  /\ \A t \in Tx : vin[t] \subseteq OutPoint
  /\ \A o \in OutPoint : txOf[o] \in Tx
  /\ NULL \notin Tx /\ NULL \notin Block
  /\ \A b \in Block : TxIn(b) \subseteq Tx
  /\ \A b \in Block : DOMAIN vtx[b] \subseteq Nat
  /\ TxIn(Genesis) = {}
<1>1. \A b \in Block : vtx[b] \in Seq(Tx)
  BY BlockAssumption
<1>2. vtx[Genesis] = << >>
  BY BlockAssumption
<1>3. NULL \notin Tx /\ NULL \notin Block
  BY BlockAssumption
<1> QED
  BY <1>1, <1>2, <1>3, TxAssumption DEF TxIn

(* A coinbase is at one height only. *)
LEMMA CoinbaseHeight ==
  ASSUME NEW b \in Block, NEW c \in Block, NEW t \in TxIn(b) \cap TxIn(c), vin[t] = {}
  PROVE  nHeight[b] = nHeight[c]
  BY BlockAssumption

(* A block that connects holds no transaction of the chain it extends: one    *)
(* that did would find its inputs spent, or spend nothing and be a coinbase   *)
(* of another height.  The argument takes the first such transaction.         *)
LEMMA NoDuplicate ==
  ASSUME NEW db \in DB, NEW b \in Block, b # Genesis,
         Consistent(db, pprev[b]), ConnectBlockOK(db, b)
  PROVE  TxIn(b) \cap db.tx = {}
<1> SUFFICES ASSUME TxIn(b) \cap db.tx # {} PROVE FALSE
  OBVIOUS
<1> DEFINE D == {i \in DOMAIN vtx[b] : vtx[b][i] \in db.tx}
<1>1. D \in SUBSET Nat /\ D # {}
  BY TxFacts DEF TxIn
<1>2. PICK i \in D : \A j \in D : i <= j
  BY <1>1, LeastNat
<1> DEFINE t == vtx[b][i]
<1>3. t \in db.tx /\ t \in TxIn(b) /\ i \in DOMAIN vtx[b]
  BY <1>2 DEF TxIn
<1>4. PICK a \in Ancestors[pprev[b]] : t \in TxIn(a)
  BY <1>3 DEF Consistent, ChainTx
<1>5. a \in Block /\ nHeight[a] < nHeight[b] /\ nHeight[a] \in Nat /\ nHeight[b] \in Nat
  BY ParentHeight
<1>6. vin[t] # {}
  BY <1>3, <1>4, <1>5, CoinbaseHeight
<1>7. PICK o \in vin[t] : TRUE
  BY <1>6
<1>8. txOf[o] \in db.tx /\ db.spent[o] = t /\ t \in Tx
  BY <1>3, <1>7, TxFacts DEF Consistent
<1>9. txOf[o] \in Before(b, i)
  BY <1>3, <1>7, <1>8, TxFacts DEF ConnectBlockOK, ConnectInputsOK
<1>10. PICK j \in DOMAIN vtx[b] : j < i /\ vtx[b][j] = txOf[o]
  BY <1>9 DEF Before
<1>11. j \in D
  BY <1>8, <1>10
<1> HIDE DEF D
<1> QED
  BY <1>1, <1>2, <1>10, <1>11

(* The transactions of a connecting block spend different outputs. *)
LEMMA NoDoubleSpendInBlock ==
  ASSUME NEW db, NEW b \in Block, ConnectBlockOK(db, b),
         NEW t \in TxIn(b), NEW u \in TxIn(b), NEW o \in vin[t], o \in vin[u]
  PROVE  t = u
<1>1. PICK i \in DOMAIN vtx[b] : t = vtx[b][i]
  BY DEF TxIn
<1>2. PICK j \in DOMAIN vtx[b] : u = vtx[b][j]
  BY DEF TxIn
<1>3. ~(j < i)
  BY <1>1, <1>2 DEF ConnectBlockOK, ConnectInputsOK, Before, SpentBy
<1>4. ~(i < j)
  BY <1>1, <1>2 DEF ConnectBlockOK, ConnectInputsOK, Before, SpentBy
<1>5. i \in Nat /\ j \in Nat
  BY TxFacts
<1> QED
  BY <1>1, <1>2, <1>3, <1>4, <1>5

(* The chain of a block is the block's transactions on top of its parent's. *)
LEMMA ChainTxStep ==
  ASSUME NEW b \in Block
  PROVE  ChainTx(b) = TxIn(b) \cup ChainTx(pprev[b])
  BY AncestorsStep DEF ChainTx

(* ConnectBlock yields the fields one expects. *)
LEMMA ConnectBlockFields ==
  ASSUME NEW db \in DB, NEW b \in Block
  PROVE  LET n == ConnectBlock(db, b)
         IN  /\ n \in DB
             /\ n.blocks = db.blocks \cup {pprev[b]} /\ n.best = db.best
             /\ n.tx = db.tx \cup TxIn(b)
             /\ n.next = [db.next EXCEPT ![pprev[b]] = b]
             /\ n.spent = [o \in OutPoint |->
                  IF o \in SpentBy(TxIn(b))
                    THEN CHOOSE t \in TxIn(b) : o \in vin[t]
                    ELSE IF txOf[o] \in TxIn(b) THEN NULL ELSE db.spent[o]]
<1> DEFINE sp == [o \in OutPoint |->
                  IF o \in SpentBy(TxIn(b))
                    THEN CHOOSE t \in TxIn(b) : o \in vin[t]
                    ELSE IF txOf[o] \in TxIn(b) THEN NULL ELSE db.spent[o]]
<1>1. sp \in [OutPoint -> Tx \cup {NULL}]
  <2> SUFFICES ASSUME NEW o \in OutPoint PROVE sp[o] \in Tx \cup {NULL}
    OBVIOUS
  <2>1. CASE o \in SpentBy(TxIn(b))
    <3>1. \E t \in TxIn(b) : o \in vin[t]
      BY <2>1 DEF SpentBy
    <3>2. (CHOOSE t \in TxIn(b) : o \in vin[t]) \in TxIn(b)
      BY <3>1
    <3> QED
      BY <2>1, <3>2, TxFacts
  <2>2. CASE o \notin SpentBy(TxIn(b))
    BY <2>2 DEF DB
  <2> QED
    BY <2>1, <2>2
<1>2. [db.next EXCEPT ![pprev[b]] = b] \in [Block -> Block \cup {NULL}]
  BY DEF DB
<1>3. db.tx \cup TxIn(b) \in SUBSET Tx
  BY TxFacts DEF DB
<1> HIDE DEF sp
<1>4. ConnectBlock(db, b) = [db EXCEPT !.blocks = db.blocks \cup {pprev[b]},
                               !.tx = db.tx \cup TxIn(b), !.spent = sp,
                               !.next = [db.next EXCEPT ![pprev[b]] = b]]
  BY DEF ConnectBlock, sp
<1>5. db.blocks \cup {pprev[b]} \in SUBSET Block
  BY TreeFacts DEF DB
<1>6. LET n == ConnectBlock(db, b)
      IN  n \in DB /\ n.blocks = db.blocks \cup {pprev[b]} /\ n.best = db.best
          /\ n.tx = db.tx \cup TxIn(b) /\ n.next = [db.next EXCEPT ![pprev[b]] = b]
          /\ n.spent = sp
  BY <1>1, <1>2, <1>3, <1>4, <1>5 DEF DB
<1> QED
  BY <1>6 DEF sp

(* DisconnectBlock yields the fields one expects. *)
LEMMA DisconnectBlockFields ==
  ASSUME NEW db \in DB, NEW b \in Block
  PROVE  LET n == DisconnectBlock(db, b)
         IN  /\ n \in DB
             /\ n.blocks = db.blocks \cup {pprev[b]} /\ n.best = db.best
             /\ n.tx = db.tx \ TxIn(b)
             /\ n.next = [db.next EXCEPT ![pprev[b]] = NULL]
             /\ n.spent = [o \in OutPoint |->
                  IF o \in SpentBy(TxIn(b)) \/ txOf[o] \in TxIn(b)
                    THEN NULL ELSE db.spent[o]]
<1> DEFINE sp == [o \in OutPoint |->
                  IF o \in SpentBy(TxIn(b)) \/ txOf[o] \in TxIn(b)
                    THEN NULL ELSE db.spent[o]]
<1>1. sp \in [OutPoint -> Tx \cup {NULL}]
  BY DEF DB
<1>2. [db.next EXCEPT ![pprev[b]] = NULL] \in [Block -> Block \cup {NULL}]
  BY DEF DB
<1> HIDE DEF sp
<1>3. DisconnectBlock(db, b) = [db EXCEPT !.blocks = db.blocks \cup {pprev[b]},
                                  !.tx = db.tx \ TxIn(b), !.spent = sp,
                                  !.next = [db.next EXCEPT ![pprev[b]] = NULL]]
  BY DEF DisconnectBlock, sp
<1>4. db.blocks \cup {pprev[b]} \in SUBSET Block
  BY TreeFacts DEF DB
<1>5. LET n == DisconnectBlock(db, b)
      IN  n \in DB /\ n.blocks = db.blocks \cup {pprev[b]} /\ n.best = db.best
          /\ n.tx = db.tx \ TxIn(b) /\ n.next = [db.next EXCEPT ![pprev[b]] = NULL]
          /\ n.spent = sp
  BY <1>1, <1>2, <1>3, <1>4 DEF DB
<1> QED
  BY <1>5 DEF sp

(* Connecting a valid block on top of a chain leaves the database of the     *)
(* longer chain.                                                             *)
LEMMA ConnectKeepsConsistent ==
  ASSUME NEW db \in DB, NEW b \in Block, b # Genesis,
         Consistent(db, pprev[b]), ConnectBlockOK(db, b)
  PROVE  Consistent(ConnectBlock(db, b), b)
<1> DEFINE n == ConnectBlock(db, b)
           p == pprev[b]
<1>0. /\ n.tx = db.tx \cup TxIn(b)
      /\ n.next = [db.next EXCEPT ![p] = b]
      /\ n.spent = [o \in OutPoint |->
            IF o \in SpentBy(TxIn(b))
              THEN CHOOSE t \in TxIn(b) : o \in vin[t]
              ELSE IF txOf[o] \in TxIn(b) THEN NULL ELSE db.spent[o]]
  BY ConnectBlockFields, Zenon
<1> HIDE DEF n
<1>1. /\ n.tx = db.tx \cup TxIn(b)
      /\ n.next = [db.next EXCEPT ![p] = b]
      /\ \A o \in OutPoint : n.spent[o] =
            IF o \in SpentBy(TxIn(b))
              THEN CHOOSE t \in TxIn(b) : o \in vin[t]
              ELSE IF txOf[o] \in TxIn(b) THEN NULL ELSE db.spent[o]
  BY <1>0
<1>2. TxIn(b) \cap db.tx = {}
  BY NoDuplicate
<1>3. Ancestors[b] = {b} \cup Ancestors[p] /\ p \in Block /\ b \notin Ancestors[p]
  BY AncestorsStep, ParentHeight
<1>4. \A a \in Ancestors[p] : TxIn(a) \subseteq db.tx
  BY DEF Consistent, ChainTx
<1>5. n.tx = ChainTx(b)
  BY <1>1, ChainTxStep DEF Consistent
<1>6. ASSUME NEW a \in Ancestors[b], NEW c \in Ancestors[b], a # c
      PROVE  TxIn(a) \cap TxIn(c) = {}
  BY <1>2, <1>3, <1>4, <1>6 DEF Consistent
<1>7. ASSUME NEW t \in n.tx, NEW o \in vin[t]
      PROVE  txOf[o] \in n.tx /\ n.spent[o] = t
  <2>0. t \in Tx /\ o \in OutPoint
    BY <1>1, <1>7, TxFacts DEF DB
  <2>1. CASE t \in TxIn(b)
    <3>1. PICK i \in DOMAIN vtx[b] : t = vtx[b][i]
      BY <2>1 DEF TxIn
    <3>2. txOf[o] \in db.tx \cup Before(b, i)
      BY <3>1, <1>7 DEF ConnectBlockOK, ConnectInputsOK
    <3>3. txOf[o] \in n.tx
      BY <3>2, <1>1 DEF Before, TxIn
    <3>4. \A u \in TxIn(b) : o \in vin[u] => u = t
      BY <2>1, <1>7, NoDoubleSpendInBlock
    <3>5. o \in SpentBy(TxIn(b))
      BY <2>1, <1>7 DEF SpentBy
    <3>6. (CHOOSE u \in TxIn(b) : o \in vin[u]) = t
      BY <2>1, <1>7, <3>4
    <3> QED
      BY <1>1, <2>0, <3>3, <3>5, <3>6
  <2>2. CASE t \in db.tx
    <3>1. txOf[o] \in db.tx /\ db.spent[o] = t
      BY <2>2, <1>7 DEF Consistent
    <3>2. txOf[o] \notin TxIn(b)
      BY <3>1, <1>2
    <3>3. o \notin SpentBy(TxIn(b))
      <4> SUFFICES ASSUME NEW u \in TxIn(b), o \in vin[u] PROVE FALSE
        BY DEF SpentBy
      <4>1. PICK j \in DOMAIN vtx[b] : u = vtx[b][j]
        BY DEF TxIn
      <4>2. txOf[o] \in Before(b, j) \/ db.spent[o] = NULL
        BY <4>1 DEF ConnectBlockOK, ConnectInputsOK
      <4>3. txOf[o] \notin Before(b, j)
        BY <3>2 DEF Before, TxIn
      <4> QED
        BY <4>2, <4>3, <3>1, <2>0, TxFacts
    <3> QED
      BY <1>1, <2>0, <3>1, <3>2, <3>3
  <2> QED
    BY <2>1, <2>2, <1>1, <1>7
<1>8. ASSUME NEW o \in OutPoint, n.spent[o] # NULL
      PROVE  n.spent[o] \in n.tx /\ o \in vin[n.spent[o]]
  <2>1. CASE o \in SpentBy(TxIn(b))
    <3>1. \E t \in TxIn(b) : o \in vin[t]
      BY <2>1 DEF SpentBy
    <3>2. n.spent[o] = CHOOSE t \in TxIn(b) : o \in vin[t]
      BY <1>1, <2>1
    <3> QED
      BY <1>1, <3>1, <3>2
  <2>2. CASE o \notin SpentBy(TxIn(b))
    BY <1>1, <1>8, <2>2 DEF Consistent
  <2> QED
    BY <2>1, <2>2
<1>9. ASSUME NEW a \in Ancestors[b], NEW c \in Ancestors[b], NEW t \in TxIn(a),
             NEW o \in vin[t], txOf[o] \in TxIn(c)
      PROVE  nHeight[c] <= nHeight[a]
  <2>1. CASE a = b
    BY <2>1, AncestorsHeight
  <2>2. CASE a # b /\ c = b
    BY <1>2, <1>3, <1>4, <1>9, <2>2 DEF Consistent
  <2>3. CASE a # b /\ c # b
    BY <1>3, <1>9, <2>3 DEF Consistent
  <2> QED
    BY <2>1, <2>2, <2>3
<1>10. LinksChain(n.next, b)
  <2> SUFFICES ASSUME NEW a \in Block, NEW c \in Block
               PROVE  n.next[a] = c <=> (c \in Ancestors[b] \ {Genesis} /\ pprev[c] = a)
    BY DEF LinksChain
  <2>1. db.next[a] = c <=> (c \in Ancestors[p] \ {Genesis} /\ pprev[c] = a)
    BY DEF Consistent, LinksChain
  <2>2. CASE a = p
    <3>1. n.next[a] = b
      BY <1>1, <1>3, <2>2 DEF DB
    <3>2. c \in Ancestors[p] \ {Genesis} => pprev[c] # p
      BY <1>3, ParentHeight, AncestorsHeight
    <3> QED
      BY <1>3, <2>2, <3>1, <3>2
  <2>3. CASE a # p
    BY <1>1, <1>3, <2>1, <2>3 DEF DB
  <2> QED
    BY <2>2, <2>3
<1>11. \A a, c \in Ancestors[b] : a # c => TxIn(a) \cap TxIn(c) = {}
  BY <1>6
<1>12. \A t \in n.tx : \A o \in vin[t] : txOf[o] \in n.tx /\ n.spent[o] = t
  BY <1>7
<1>13. \A o \in OutPoint : n.spent[o] # NULL => n.spent[o] \in n.tx /\ o \in vin[n.spent[o]]
  BY <1>8
<1>14. \A a, c \in Ancestors[b] : \A t \in TxIn(a) : \A o \in vin[t] :
          txOf[o] \in TxIn(c) => nHeight[c] <= nHeight[a]
  BY <1>9
<1>15. Consistent(n, b)
  BY <1>5, <1>10, <1>11, <1>12, <1>13, <1>14, Zenon DEF Consistent
<1> QED
  BY <1>15 DEF n

(* Disconnecting the last block leaves the database of the shorter chain. *)
LEMMA DisconnectKeepsConsistent ==
  ASSUME NEW db \in DB, NEW b \in Block, b # Genesis, Consistent(db, b)
  PROVE  Consistent(DisconnectBlock(db, b), pprev[b])
<1> DEFINE n == DisconnectBlock(db, b)
           p == pprev[b]
<1>0. /\ n.tx = db.tx \ TxIn(b)
      /\ n.next = [db.next EXCEPT ![p] = NULL]
      /\ n.spent = [o \in OutPoint |->
            IF o \in SpentBy(TxIn(b)) \/ txOf[o] \in TxIn(b) THEN NULL ELSE db.spent[o]]
  BY DisconnectBlockFields, Zenon
<1> HIDE DEF n
<1>1. /\ n.tx = db.tx \ TxIn(b)
      /\ n.next = [db.next EXCEPT ![p] = NULL]
      /\ \A o \in OutPoint : n.spent[o] =
            IF o \in SpentBy(TxIn(b)) \/ txOf[o] \in TxIn(b) THEN NULL ELSE db.spent[o]
  BY <1>0
<1>2. Ancestors[b] = {b} \cup Ancestors[p] /\ p \in Block /\ b \notin Ancestors[p]
  BY AncestorsStep, ParentHeight
<1>3. \A a \in Ancestors[p] : TxIn(a) \cap TxIn(b) = {}
  BY <1>2 DEF Consistent
<1>4. n.tx = ChainTx(p)
  BY <1>1, <1>3, ChainTxStep DEF Consistent, ChainTx
<1>5. ASSUME NEW t \in n.tx, NEW o \in vin[t]
      PROVE  txOf[o] \in n.tx /\ n.spent[o] = t
  <2>1. t \in db.tx /\ t \notin TxIn(b) /\ t \in Tx /\ o \in OutPoint
    BY <1>1, <1>5, TxFacts DEF DB
  <2>2. txOf[o] \in db.tx /\ db.spent[o] = t
    BY <2>1, <1>5 DEF Consistent
  <2>3. txOf[o] \notin TxIn(b)
    <3> SUFFICES ASSUME txOf[o] \in TxIn(b) PROVE FALSE
      OBVIOUS
    <3>1. PICK a \in Ancestors[p] : t \in TxIn(a)
      BY <1>4, <1>5 DEF ChainTx
    <3>2. nHeight[b] <= nHeight[a]
      BY <1>2, <1>5, <3>1, AncestorsClosed DEF Consistent
    <3>3. nHeight[a] < nHeight[b] /\ nHeight[a] \in Nat /\ nHeight[b] \in Nat
      BY ParentHeight
    <3> QED
      BY <3>2, <3>3
  <2>4. o \notin SpentBy(TxIn(b))
    <3> SUFFICES ASSUME NEW u \in TxIn(b), o \in vin[u] PROVE FALSE
      BY DEF SpentBy
    <3>1. u \in db.tx
      BY AncestorsClosed DEF Consistent, ChainTx
    <3>2. db.spent[o] = u
      BY <3>1 DEF Consistent
    <3> QED
      BY <2>1, <2>2, <3>2
  <2> QED
    BY <1>1, <2>1, <2>2, <2>3, <2>4
<1>6. ASSUME NEW o \in OutPoint, n.spent[o] # NULL
      PROVE  n.spent[o] \in n.tx /\ o \in vin[n.spent[o]]
  <2>1. o \notin SpentBy(TxIn(b)) /\ n.spent[o] = db.spent[o] /\ db.spent[o] # NULL
    BY <1>1, <1>6
  <2>2. db.spent[o] \in db.tx /\ o \in vin[db.spent[o]]
    BY <2>1 DEF Consistent
  <2>3. db.spent[o] \notin TxIn(b)
    BY <2>1, <2>2 DEF SpentBy
  <2> QED
    BY <1>1, <2>1, <2>2, <2>3
<1>7. LinksChain(n.next, p)
  <2> SUFFICES ASSUME NEW a \in Block, NEW c \in Block
               PROVE  n.next[a] = c <=> (c \in Ancestors[p] \ {Genesis} /\ pprev[c] = a)
    BY DEF LinksChain
  <2>1. db.next[a] = c <=> (c \in Ancestors[b] \ {Genesis} /\ pprev[c] = a)
    BY DEF Consistent, LinksChain
  <2>2. CASE a = p
    <3>1. n.next[a] = NULL
      BY <1>1, <1>2, <2>2 DEF DB
    <3>2. c \in Ancestors[p] \ {Genesis} => pprev[c] # p
      BY <1>2, ParentHeight, AncestorsHeight
    <3> QED
      BY <2>2, <3>1, <3>2, TxFacts
  <2>3. CASE a # p
    BY <1>1, <1>2, <2>1, <2>3 DEF DB
  <2> QED
    BY <2>2, <2>3
<1>8. \A a, c \in Ancestors[p] : a # c => TxIn(a) \cap TxIn(c) = {}
  BY <1>2 DEF Consistent
<1>9. \A a, c \in Ancestors[p] : \A t \in TxIn(a) : \A o \in vin[t] :
          txOf[o] \in TxIn(c) => nHeight[c] <= nHeight[a]
  BY <1>2 DEF Consistent
<1>10. \A t \in n.tx : \A o \in vin[t] : txOf[o] \in n.tx /\ n.spent[o] = t
  BY <1>5
<1>11. \A o \in OutPoint : n.spent[o] # NULL => n.spent[o] \in n.tx /\ o \in vin[n.spent[o]]
  BY <1>6
<1>12. Consistent(n, p)
  BY <1>4, <1>7, <1>8, <1>9, <1>10, <1>11, Zenon DEF Consistent
<1> QED
  BY <1>12 DEF n

(* Consistent implies the two properties that IndexMatchesBestChain states. *)
LEMMA ConsistentDescribes ==
  ASSUME NEW db \in DB, NEW b \in Block, Consistent(db, b)
  PROVE  DescribesChain(db, b) /\ LinksChain(db.next, b)
<1>1. \A o \in OutPoint : \A t \in Tx : db.spent[o] = t <=> (t \in ChainTx(b) /\ o \in vin[t])
  <2> TAKE o \in OutPoint
  <2> TAKE t \in Tx
  <2>1. ASSUME db.spent[o] = t PROVE t \in ChainTx(b) /\ o \in vin[t]
    BY <2>1, TxFacts DEF Consistent
  <2>2. ASSUME t \in ChainTx(b), o \in vin[t] PROVE db.spent[o] = t
    BY <2>2 DEF Consistent
  <2> QED
    BY <2>1, <2>2
<1> QED
  BY <1>1 DEF Consistent, DescribesChain

(* Consistent looks at the index and the links only. *)
LEMMA ConsistentFields ==
  ASSUME NEW db, NEW n, NEW b, Consistent(db, b),
         n.tx = db.tx, n.spent = db.spent, n.next = db.next
  PROVE  Consistent(n, b)
  BY Zenon DEF Consistent

(* The empty database describes the chain of the genesis block. *)
LEMMA GenesisConsistent == Consistent(GenesisDB, Genesis) /\ GenesisDB \in DB
<1>1. Ancestors[Genesis] = {Genesis} /\ Genesis \in Block
  BY GenesisAncestor, TreeFacts
<1>2. ChainTx(Genesis) = {}
  BY <1>1, TxFacts DEF ChainTx
<1>3. LinksChain(GenesisDB.next, Genesis)
  BY <1>1, TxFacts DEF LinksChain, GenesisDB
<1>4. GenesisDB \in DB
  BY <1>1 DEF GenesisDB, DB
<1>5. GenesisDB.tx = {} /\ \A o \in OutPoint : GenesisDB.spent[o] = NULL
  BY DEF GenesisDB
<1>6. \A a, c \in Ancestors[Genesis] : a = c /\ TxIn(a) = {}
  BY <1>1, TxFacts
<1> HIDE DEF GenesisDB
<1> QED
  BY <1>2, <1>3, <1>4, <1>5, <1>6 DEF Consistent

(* Trust never falls towards the descendants. *)
LEMMA AncestorsTrust ==
  ASSUME NEW b \in Block, NEW a \in Ancestors[b]
  PROVE  nChainTrust[a] <= nChainTrust[b]
<1> DEFINE S == {c \in Block : nChainTrust[c] <= nChainTrust[b]}
<1>1. S \in SUBSET Block /\ b \in S
  BY TreeFacts
<1>2. \A c \in S : pprev[c] \in S
  <2> SUFFICES ASSUME NEW c \in S PROVE pprev[c] \in S
    OBVIOUS
  <2>1. CASE c = Genesis
    BY <2>1, TreeFacts
  <2>2. CASE c # Genesis
    BY <2>2, TreeFacts
  <2> QED
    BY <2>1, <2>2
<1> HIDE DEF S
<1>3. a \in S
  BY <1>1, <1>2, AncestorsLeast
<1> QED
  BY <1>3 DEF S

(* An ancestor's chain is part of the chain. *)
LEMMA AncestorsTransitive ==
  ASSUME NEW b \in Block, NEW a \in Ancestors[b]
  PROVE  Ancestors[a] \subseteq Ancestors[b]
<1> DEFINE S == Ancestors[b]
<1>1. S \in SUBSET Block /\ a \in S /\ \A c \in S : pprev[c] \in S
  BY AncestorsClosed
<1> HIDE DEF S
<1>2. Ancestors[a] \subseteq S
  BY <1>1, AncestorsLeast
<1> QED
  BY <1>2 DEF S

(* A proper ancestor is strictly below. *)
LEMMA ProperAncestor ==
  ASSUME NEW b \in Block, NEW a \in Ancestors[b], a # b
  PROVE  /\ a \in Block /\ nHeight[a] \in Nat /\ nHeight[b] \in Nat
         /\ nHeight[a] < nHeight[b] /\ a \in Ancestors[pprev[b]]
<1>1. b # Genesis
  BY GenesisAncestor
<1>2. a \in Ancestors[pprev[b]]
  BY AncestorsStep
<1> QED
  BY <1>1, <1>2, ParentHeight

(* The records stay complete below the next block that is connected, and below *)
(* the parent of the one that is disconnected.                                 *)
LEMMA RecordedMoves ==
  ASSUME NEW db, NEW n, NEW b \in Block, n.blocks = db.blocks \cup {pprev[b]}
  PROVE  /\ RecordedBelow(db, pprev[b]) => RecordedBelow(n, b)
         /\ b # Genesis /\ RecordedBelow(db, b) => RecordedBelow(n, pprev[b])
<1>1. Ancestors[b] = {b} \cup Ancestors[pprev[b]]
  BY AncestorsStep
<1>2. b # Genesis => b \notin Ancestors[pprev[b]]
  BY ParentHeight
<1> QED
  BY <1>1, <1>2 DEF RecordedBelow

-----------------------------------------------------------------------------
(* The inductive invariant, in parts. *)

Elems(s) == {s[i] : i \in DOMAIN s}

(* SetBestChain has not committed anything yet. *)
Uncommitted == pc \in {"idle", "setbest", "disconnect", "connect"}

(* SetBestChain is past Reorganize's commit. *)
Committed == pc \in {"resurrect", "delete", "secondary"}

(* Where SetBestChain stands in the tree. *)
PathInv ==
  /\ pc \in {"setbest", "disconnect", "connect"} =>
        pindexIntermediate \in Ancestors[pindexNew]
  /\ pc = "connect" => tip \in Ancestors[pindexIntermediate]
  /\ Committed => tip = disk.best /\ tip \in Ancestors[pindexNew]

(* SetBestChain was called by the start-up verification: for a proper       *)
(* ancestor of the best block.                                              *)
GoesBack ==
  /\ pindexIntermediate = pindexNew /\ pindexBest = disk.best
  /\ pindexNew \in Ancestors[pindexBest] /\ pindexNew # pindexBest

(* SetBestChain was called by AddToBlockIndex: for a chain with more trust. *)
GoesForward ==
  /\ pc = "setbest" => nChainTrust[pindexBest] < nChainTrust[pindexNew]
  /\ nChainTrust[pindexBest] < nChainTrust[pindexIntermediate]

(* The best chain on disk never has more trust than the one in memory, and  *)
(* SetBestChain works for a chain with more trust than both, or goes back.  *)
TrustInv ==
  /\ Uncommitted => nChainTrust[disk.best] <= nChainTrust[pindexBest]
  /\ pc \in {"setbest", "disconnect", "connect"} => GoesForward \/ GoesBack

(* The block index in memory knows every block on disk, and the parent of   *)
(* every block that is not a stub; what SetBestChain walks through it knows *)
(* down to the genesis block.                                               *)
BlocksInv ==
  pc # "down" =>
    /\ disk.blocks \subseteq mapBlockIndex
    /\ \A b \in mapBlockIndex \ stub : pprev[b] \in mapBlockIndex
    /\ Ancestors[pindexBest] \subseteq mapBlockIndex
    /\ pc # "idle" => Ancestors[pindexNew] \subseteq mapBlockIndex
    /\ pc \in {"disconnect", "connect"} => batch.blocks \subseteq mapBlockIndex

(* The database and the batch are those of the chains they stand for.       *)
IndexInv ==
  ~fSwallowed =>
    /\ Consistent(disk, disk.best)
    /\ Uncommitted => pindexBest = disk.best
    /\ pc # "down" => pnext = disk.next
    /\ pc \in {"disconnect", "connect"} => Consistent(batch, tip)

(* The records lead down from the chain the database or the batch stands for. *)
RecordInv ==
  ~fSwallowed =>
    /\ RecordedBelow(disk, disk.best)
    /\ pc \in {"disconnect", "connect"} => RecordedBelow(batch, tip)

(* The blocks disconnected so far are the old branch down to tip, and when  *)
(* the batch turns to the new branch, down to the fork.                     *)
BranchInv ==
  /\ pc = "disconnect" =>
       /\ tip \in Ancestors[pindexBest]
       /\ vDisconnect = Ancestors[pindexBest] \ Ancestors[tip]
       /\ vDisconnect \cap Ancestors[pindexIntermediate] = {}
  /\ pc = "connect" => vDisconnect = Ancestors[pindexBest] \ Ancestors[pindexIntermediate]

(* The pool holds no confirmed transaction but those Reorganize has still to *)
(* delete from it.                                                           *)
PoolChainInv ==
  /\ pc \in {"idle", "setbest", "disconnect", "connect", "secondary"} =>
        mempool.mapTx \cap disk.tx = {}
  /\ pc \in {"disconnect", "connect"} => batch.tx \subseteq disk.tx \cup Elems(vDelete)
  /\ pc \in {"resurrect", "delete"} => mempool.mapTx \cap disk.tx \subseteq Elems(vDelete)
  /\ pc = "down" => mempool = EmptyPool

IInv ==
  /\ TypeOK /\ PathInv /\ TrustInv /\ BlocksInv /\ IndexInv /\ RecordInv /\ BranchInv
  /\ PoolIndexExact /\ PoolChainInv

-----------------------------------------------------------------------------
(* The memory pool's operations. *)

(* What PoolIndexExact says, of any pool. *)
ExactPool(pool) ==
  /\ DOMAIN pool.mapNextTx = SpentBy(pool.mapTx)
  /\ \A t \in pool.mapTx : \A o \in vin[t] : pool.mapNextTx[o] = t

(* CTxMemPool's constructor: the empty pool's index is exact. *)
LEMMA EmptyPoolExact ==
  PoolOK(EmptyPool) /\ ExactPool(EmptyPool) /\ EmptyPool.mapTx = {}
<1> DEFINE nx == [o \in {} |-> {}]
<1>1. DOMAIN nx = {}
  OBVIOUS
<1>2. nx \in [DOMAIN nx -> Tx]
  OBVIOUS
<1> HIDE DEF nx
<1>3. EmptyPool = [mapTx |-> {}, mapNextTx |-> nx]
  BY DEF EmptyPool, nx
<1>4. EmptyPool.mapTx = {} /\ EmptyPool.mapNextTx = nx
  BY <1>3
<1>5. SpentBy({}) = {}
  BY DEF SpentBy
<1>6. PoolOK(EmptyPool)
  BY <1>1, <1>2, <1>3, <1>4 DEF PoolOK
<1>7. ExactPool(EmptyPool)
  BY <1>1, <1>4, <1>5 DEF ExactPool
<1> QED
  BY <1>4, <1>6, <1>7

(* CTxMemPool::addUnchecked keeps the pool's index exact when no input is    *)
(* claimed, which is what AcceptToMemoryPool checks.                         *)
LEMMA AddUncheckedExact ==
  ASSUME NEW pool, PoolOK(pool), ExactPool(pool), NEW t \in Tx,
         vin[t] \cap DOMAIN pool.mapNextTx = {}
  PROVE  LET n == addUnchecked(pool, t)
         IN  PoolOK(n) /\ ExactPool(n) /\ n.mapTx = pool.mapTx \cup {t}
<1> DEFINE nx == [o \in DOMAIN pool.mapNextTx \cup vin[t] |->
                    IF o \in vin[t] THEN t ELSE pool.mapNextTx[o]]
           n  == addUnchecked(pool, t)
<1>1. n = [mapTx |-> pool.mapTx \cup {t}, mapNextTx |-> nx]
  BY DEF addUnchecked
<1>2. n.mapTx = pool.mapTx \cup {t} /\ n.mapNextTx = nx
  BY <1>1
<1>3. DOMAIN nx = DOMAIN pool.mapNextTx \cup vin[t]
  OBVIOUS
<1>4. \A o \in DOMAIN nx : nx[o] \in Tx
  BY DEF PoolOK
<1>5. DOMAIN nx \subseteq OutPoint
  BY <1>3, TxFacts DEF PoolOK
<1>6. PoolOK(n)
  <2>1. nx \in [DOMAIN nx -> Tx]
    BY <1>4
  <2> HIDE DEF nx
  <2> QED
    BY <1>1, <1>2, <1>5, <2>1 DEF PoolOK
<1>7. DOMAIN nx = SpentBy(pool.mapTx \cup {t})
  BY <1>3 DEF ExactPool, SpentBy
<1>8. \A u \in pool.mapTx \cup {t} : \A o \in vin[u] : nx[o] = u
  <2> SUFFICES ASSUME NEW u \in pool.mapTx \cup {t}, NEW o \in vin[u] PROVE nx[o] = u
    OBVIOUS
  <2>1. CASE u = t
    BY <2>1
  <2>2. CASE u # t
    <3>1. o \in DOMAIN pool.mapNextTx /\ pool.mapNextTx[o] = u
      BY <2>2 DEF ExactPool, SpentBy
    <3>2. o \notin vin[t]
      BY <3>1
    <3> QED
      BY <3>1, <3>2
  <2> QED
    BY <2>1, <2>2
<1> HIDE DEF nx
<1>9. ExactPool(n)
  BY <1>2, <1>7, <1>8 DEF ExactPool
<1> QED
  BY <1>2, <1>6, <1>9

(* Whatever is erased, the pool's index stays exact. *)
LEMMA EraseAllExact ==
  ASSUME NEW pool, PoolOK(pool), ExactPool(pool), NEW T
  PROVE  LET n == EraseAll(pool, T)
         IN  PoolOK(n) /\ ExactPool(n) /\ n.mapTx = pool.mapTx \ T
<1> DEFINE gone == T \cap pool.mapTx
           nx == [o \in DOMAIN pool.mapNextTx \ SpentBy(gone) |-> pool.mapNextTx[o]]
           n  == EraseAll(pool, T)
<1>1. n = [mapTx |-> pool.mapTx \ gone, mapNextTx |-> nx]
  BY DEF EraseAll
<1>2. n.mapTx = pool.mapTx \ gone /\ n.mapNextTx = nx
  BY <1>1
<1>3. DOMAIN nx = DOMAIN pool.mapNextTx \ SpentBy(gone)
  OBVIOUS
<1>4. \A o \in DOMAIN nx : nx[o] \in Tx
  BY DEF PoolOK
<1>5. DOMAIN nx \subseteq OutPoint
  BY <1>3 DEF PoolOK
<1>6. PoolOK(n)
  <2>1. nx \in [DOMAIN nx -> Tx]
    BY <1>4
  <2> HIDE DEF nx
  <2> QED
    BY <1>1, <1>2, <1>5, <2>1 DEF PoolOK
<1>7. \A u \in pool.mapTx \ gone : \A o \in vin[u] : o \in DOMAIN nx /\ nx[o] = u
  <2> SUFFICES ASSUME NEW u \in pool.mapTx \ gone, NEW o \in vin[u]
               PROVE  o \in DOMAIN nx /\ nx[o] = u
    OBVIOUS
  <2>1. o \in DOMAIN pool.mapNextTx /\ pool.mapNextTx[o] = u
    BY DEF ExactPool, SpentBy
  <2>2. o \notin SpentBy(gone)
    BY <2>1 DEF ExactPool, SpentBy
  <2> QED
    BY <2>1, <2>2
<1>8. DOMAIN nx = SpentBy(pool.mapTx \ gone)
  BY <1>3, <1>7 DEF ExactPool, SpentBy
<1> HIDE DEF nx
<1>9. ExactPool(n)
  BY <1>2, <1>7, <1>8 DEF ExactPool
<1>10. pool.mapTx \ gone = pool.mapTx \ T
  OBVIOUS
<1> QED
  BY <1>2, <1>6, <1>9, <1>10

(* CTxMemPool::removeConflicts erases, and keeps the pool's index exact. *)
LEMMA RemoveConflictsExact ==
  ASSUME NEW pool, PoolOK(pool), ExactPool(pool), NEW t
  PROVE  LET n == removeConflicts(pool, t)
         IN  PoolOK(n) /\ ExactPool(n) /\ n.mapTx \subseteq pool.mapTx
<1> DEFINE T == Descendants(pool,
                  ({pool.mapNextTx[o] : o \in vin[t] \cap DOMAIN pool.mapNextTx} \ {t})
                    \cap pool.mapTx)
<1>1. removeConflicts(pool, t) = EraseAll(pool, T)
  BY DEF removeConflicts, removeRecursive
<1> HIDE DEF T
<1>2. LET n == EraseAll(pool, T)
      IN  PoolOK(n) /\ ExactPool(n) /\ n.mapTx = pool.mapTx \ T
  BY EraseAllExact
<1> QED
  BY <1>1, <1>2

(* The elements of a concatenation. *)
LEMMA ElemsConcat ==
  ASSUME NEW s \in Seq(Tx), NEW r \in Seq(Tx)
  PROVE  Elems(s \o r) = Elems(s) \cup Elems(r) /\ s \o r \in Seq(Tx)
<1>1. Elems(s \o r) \subseteq Elems(s) \cup Elems(r)
  BY DEF Elems
<1>2. Elems(s) \subseteq Elems(s \o r)
  BY DEF Elems
<1>3. ASSUME NEW i \in DOMAIN r PROVE r[i] \in Elems(s \o r)
  <2>1. Len(s) + i \in DOMAIN (s \o r) /\ (s \o r)[Len(s) + i] = r[i]
    OBVIOUS
  <2> QED
    BY <2>1 DEF Elems
<1> QED
  BY <1>1, <1>2, <1>3 DEF Elems

(* The elements of a sequence are its head and those of its tail. *)
LEMMA ElemsTail ==
  ASSUME NEW s \in Seq(Tx), s # << >>
  PROVE  /\ Elems(s) \subseteq {Head(s)} \cup Elems(Tail(s))
         /\ Head(s) \in Tx /\ Tail(s) \in Seq(Tx)
<1>1. Head(s) \in Tx /\ Tail(s) \in Seq(Tx) /\ Len(s) >= 1
  OBVIOUS
<1>2. ASSUME NEW i \in DOMAIN s, i # 1 PROVE s[i] \in Elems(Tail(s))
  <2>1. i - 1 \in DOMAIN Tail(s) /\ Tail(s)[i - 1] = s[i]
    BY <1>2
  <2> QED
    BY <2>1 DEF Elems
<1> QED
  BY <1>1, <1>2 DEF Elems

-----------------------------------------------------------------------------
(* The invariant holds initially, and each action preserves it. *)

(* The genesis block alone satisfies the invariant. *)
LEMMA InitInv == Init => IInv
<1> SUFFICES ASSUME Init PROVE IInv
  OBVIOUS
<1>1. GenesisDB \in DB /\ Consistent(GenesisDB, Genesis)
      /\ GenesisDB.best = Genesis /\ GenesisDB.tx = {} /\ GenesisDB.blocks = {Genesis}
      /\ GenesisDB.next = [b \in Block |-> NULL]
  BY GenesisConsistent DEF GenesisDB
<1>2. Genesis \in Block /\ nChainTrust[Genesis] \in Nat
  BY TreeFacts
<1>3. PoolOK(EmptyPool) /\ ExactPool(EmptyPool) /\ EmptyPool.mapTx = {}
  BY EmptyPoolExact
<1>4. TypeOK
  <2>1. disk \in DB /\ batch \in DB /\ PoolOK(mempool)
    BY <1>1, <1>3 DEF Init
  <2>2. pnext \in [Block -> Block \cup {NULL}]
    BY DEF Init
  <2>3. vResurrect \in Seq(Tx) /\ vDelete \in Seq(Tx) /\ preorgmax \in Int
    BY DEF Init
  <2>4. barred \in SUBSET Tx /\ fSwallowed \in BOOLEAN
    BY DEF Init
  <2>5. mapBlockIndex \in SUBSET Block /\ stub \in SUBSET Block /\ pindexBest \in Block /\ pc \in Steps
        /\ pindexNew \in Block /\ pindexIntermediate \in Block /\ tip \in Block
        /\ vDisconnect \in SUBSET Block
    BY <1>2 DEF Init, Steps
  <2> QED
    BY <2>1, <2>2, <2>3, <2>4, <2>5 DEF TypeOK
<1>5. PoolIndexExact
  BY <1>3 DEF Init, PoolIndexExact, ExactPool
<1>6. IndexInv
  BY <1>1 DEF Init, IndexInv, Uncommitted
<1>7. Ancestors[Genesis] = {Genesis} /\ pprev[Genesis] = Genesis
  BY GenesisAncestor, TreeFacts
<1>8. PathInv /\ TrustInv /\ BranchInv /\ PoolChainInv
  BY <1>1, <1>2, <1>3 DEF Init, PathInv, TrustInv, BranchInv, PoolChainInv,
     Uncommitted, Committed
<1>9. BlocksInv /\ RecordInv
  BY <1>1, <1>7 DEF Init, BlocksInv, RecordInv, RecordedBelow
<1> QED
  BY <1>4, <1>5, <1>6, <1>8, <1>9 DEF IInv

(* A field of a record in DB, and the fields that the commits write. *)
LEMMA DBFields ==
  ASSUME NEW db \in DB, NEW b \in Block
  PROVE  /\ db.best \in Block /\ db.blocks \subseteq Block /\ db.tx \subseteq Tx
         /\ db.next \in [Block -> Block \cup {NULL}]
         /\ db.spent \in [OutPoint -> Tx \cup {NULL}]
         /\ LET n == WriteHashBestChain(db, b)
            IN  /\ n \in DB /\ n.best = b /\ n.blocks = db.blocks /\ n.tx = db.tx
                /\ n.next = db.next /\ n.spent = db.spent
  BY DEF DB, WriteHashBestChain

(* A transaction that AcceptToMemoryPool accepts. *)
LEMMA AcceptStep ==
  ASSUME TypeOK, PoolIndexExact, NEW t \in Tx, Acceptable(t),
         mempool' = addUnchecked(mempool, t)
  PROVE  /\ PoolOK(mempool') /\ PoolIndexExact'
         /\ mempool'.mapTx = mempool.mapTx \cup {t} /\ t \notin disk.tx
<1>1. PoolOK(mempool) /\ ExactPool(mempool) /\ vin[t] \cap DOMAIN mempool.mapNextTx = {}
  BY DEF TypeOK, PoolIndexExact, ExactPool, Acceptable
<1>2. LET n == addUnchecked(mempool, t)
      IN  PoolOK(n) /\ ExactPool(n) /\ n.mapTx = mempool.mapTx \cup {t}
  BY <1>1, AddUncheckedExact
<1>3. PoolIndexExact'
  BY <1>2 DEF PoolIndexExact, ExactPool
<1> QED
  BY <1>2, <1>3 DEF Acceptable

(* AcceptToMemoryPool preserves the invariant: the pool grows by a          *)
(* transaction that is neither confirmed nor in conflict.                   *)
LEMMA AcceptToMemoryPoolInv ==
  ASSUME IInv, NEW t \in Tx, AcceptToMemoryPool(t)
  PROVE  IInv'
<1>1. /\ PoolOK(mempool') /\ PoolIndexExact'
      /\ mempool'.mapTx = mempool.mapTx \cup {t} /\ t \notin disk.tx
  BY AcceptStep DEF IInv, AcceptToMemoryPool
<1> USE DEF AcceptToMemoryPool, IInv, locals
<1>2. TypeOK'
  BY <1>1 DEF TypeOK
<1>3. PathInv' /\ TrustInv' /\ BlocksInv' /\ BranchInv' /\ RecordInv'
  BY DEF PathInv, TrustInv, BlocksInv, BranchInv, RecordInv, GoesForward, GoesBack, Uncommitted, Committed
<1>4. IndexInv'
  BY DEF IndexInv, Uncommitted
<1>5. PoolChainInv'
  BY <1>1 DEF PoolChainInv
<1> QED
  BY <1>1, <1>2, <1>3, <1>4, <1>5

(* AddToBlockIndex preserves it: only the block index grows. *)
LEMMA AddToBlockIndexInv ==
  ASSUME IInv, NEW b \in Block, AddToBlockIndex(b)
  PROVE  IInv'
<1> USE DEF AddToBlockIndex, AcceptBlock, CallSetBestChain, IInv
<1>1. disk \in DB /\ pc = "idle" /\ nChainTrust[pindexBest] \in Nat /\ nChainTrust[b] \in Nat
  BY TreeFacts DEF TypeOK
<1>2. /\ disk' \in DB /\ disk'.blocks = disk.blocks \cup {b} /\ disk'.best = disk.best
      /\ disk'.tx = disk.tx /\ disk'.next = disk.next /\ disk'.spent = disk.spent
  BY <1>1 DEF DB
<1>3. TypeOK'
  BY <1>1, <1>2 DEF TypeOK, Steps
<1>4. PathInv' /\ BranchInv'
  BY <1>1, <1>2, AncestorsClosed DEF PathInv, BranchInv, Committed
<1>5. TrustInv'
  BY <1>1, <1>2 DEF TrustInv, GoesForward, Uncommitted
<1>8. BlocksInv'
  <2>1. /\ disk.blocks \subseteq mapBlockIndex /\ Ancestors[pindexBest] \subseteq mapBlockIndex
        /\ \A c \in mapBlockIndex \ stub : pprev[c] \in mapBlockIndex
    BY <1>1 DEF BlocksInv
  <2>2. \A c \in mapBlockIndex' \ stub' : pprev[c] \in mapBlockIndex'
    BY <2>1
  <2>3. ASSUME Ancestors[b] \cap stub = {} PROVE Ancestors[b] \subseteq mapBlockIndex'
    <3> DEFINE S == Ancestors[b] \cap mapBlockIndex'
    <3>1. S \in SUBSET Block /\ b \in S
      BY AncestorsClosed
    <3>2. \A c \in S : pprev[c] \in S
      BY <2>2, <2>3, AncestorsClosed
    <3> HIDE DEF S
    <3>3. Ancestors[b] \subseteq S
      BY <3>1, <3>2, AncestorsLeast
    <3> QED
      BY <3>3 DEF S
  <2>4. pc' \in {"idle", "setbest"} /\ (pc' # "idle" => pindexNew' = b /\ Ancestors[b] \cap stub = {})
    BY <1>1
  <2> QED
    BY <1>2, <2>1, <2>2, <2>3, <2>4 DEF BlocksInv
<1>9. RecordInv'
  BY <1>1, <1>2 DEF RecordInv, RecordedBelow
<1>6. IndexInv'
  <2> SUFFICES ASSUME ~fSwallowed PROVE IndexInv'
    BY DEF IndexInv
  <2>1. Consistent(disk, disk.best) /\ pindexBest = disk.best /\ pnext = disk.next
    BY <1>1 DEF IndexInv, Uncommitted
  <2>2. Consistent(disk', disk'.best)
    BY <1>2, <2>1, ConsistentFields
  <2> QED
    BY <1>1, <1>2, <2>1, <2>2 DEF IndexInv, Uncommitted
<1>7. PoolIndexExact' /\ PoolChainInv'
  BY <1>1, <1>2 DEF PoolIndexExact, PoolChainInv
<1> QED
  BY <1>3, <1>4, <1>5, <1>6, <1>7, <1>8, <1>9

(* ... and without a record it is only in memory. *)
LEMMA AddToBlockIndexFailsInv ==
  ASSUME IInv, NEW b \in Block, AddToBlockIndexFails(b)
  PROVE  IInv'
<1> USE DEF AddToBlockIndexFails, AcceptBlock, IInv, locals
<1>1. TypeOK' /\ pc = "idle"
  BY DEF TypeOK
<1>2. PathInv' /\ TrustInv' /\ BranchInv' /\ RecordInv' /\ PoolIndexExact' /\ PoolChainInv'
  BY <1>1 DEF PathInv, TrustInv, BranchInv, RecordInv, PoolIndexExact, PoolChainInv,
              Uncommitted, Committed
<1>3. BlocksInv'
  BY <1>1 DEF BlocksInv
<1>4. IndexInv'
  BY <1>1 DEF IndexInv, Uncommitted
<1> QED
  BY <1>1, <1>2, <1>3, <1>4

(* The steps that leave the database, memory and SetBestChain's locals alone. *)
LEMMA AbortInv ==
  ASSUME IInv, Abort, pc \in {"setbest", "disconnect", "connect"}
  PROVE  IInv'
<1> USE DEF Abort, IInv, memory, locals
<1>1. TypeOK'
  BY DEF TypeOK, Steps
<1>2. PathInv' /\ TrustInv' /\ BlocksInv' /\ BranchInv' /\ RecordInv' /\ PoolIndexExact' /\ PoolChainInv'
  BY DEF PathInv, TrustInv, BlocksInv, BranchInv, RecordInv, PoolIndexExact, PoolChainInv,
         Uncommitted, Committed
<1>3. IndexInv'
  BY DEF IndexInv, Uncommitted
<1> QED
  BY <1>1, <1>2, <1>3

(* SetBestChainInner's commit: what it does to the index and to the pool. *)
LEMMA ConnectToBestStep ==
  ASSUME TypeOK, PoolIndexExact, NEW b \in Block, ConnectToBest(b)
  PROVE  /\ disk' \in DB /\ disk'.best = b /\ disk'.blocks = disk.blocks \cup {pprev[b]}
         /\ disk'.tx = disk.tx \cup TxIn(b)
         /\ disk'.next = [disk.next EXCEPT ![pprev[b]] = b]
         /\ pnext' = [pnext EXCEPT ![pprev[b]] = b]
         /\ pnext' \in [Block -> Block \cup {NULL}]
         /\ PoolOK(mempool') /\ PoolIndexExact'
         /\ mempool'.mapTx = mempool.mapTx \ TxIn(b)
<1>1. disk \in DB /\ PoolOK(mempool) /\ ExactPool(mempool)
      /\ pnext \in [Block -> Block \cup {NULL}]
  BY DEF TypeOK, PoolIndexExact, ExactPool
<1> DEFINE n == ConnectBlock(disk, b)
<1>2. /\ n \in DB /\ n.blocks = disk.blocks \cup {pprev[b]} /\ n.tx = disk.tx \cup TxIn(b)
      /\ n.next = [disk.next EXCEPT ![pprev[b]] = b]
  BY <1>1, ConnectBlockFields, Zenon
<1> HIDE DEF n
<1>3. disk' = WriteHashBestChain(n, b)
  BY DEF ConnectToBest, n
<1>4. /\ disk' \in DB /\ disk'.best = b /\ disk'.blocks = n.blocks
      /\ disk'.tx = n.tx /\ disk'.next = n.next
  BY <1>2, <1>3, DBFields
<1>5. LET m == EraseAll(mempool, TxIn(b))
      IN  PoolOK(m) /\ ExactPool(m) /\ m.mapTx = mempool.mapTx \ TxIn(b)
  BY <1>1, EraseAllExact
<1>6. mempool' = EraseAll(mempool, TxIn(b))
  BY DEF ConnectToBest, remove
<1>7. PoolOK(mempool') /\ PoolIndexExact' /\ mempool'.mapTx = mempool.mapTx \ TxIn(b)
  BY <1>5, <1>6 DEF PoolIndexExact, ExactPool
<1>8. pnext' = [pnext EXCEPT ![pprev[b]] = b]
  BY DEF ConnectToBest
<1>9. pnext' \in [Block -> Block \cup {NULL}]
  BY <1>1, <1>8
<1> QED
  BY <1>2, <1>4, <1>7, <1>8, <1>9

(* ... and the chain the database then describes. *)
LEMMA ConnectToBestConsistent ==
  ASSUME TypeOK, NEW b \in Block, b # Genesis, ConnectToBest(b),
         Consistent(disk, pprev[b]), ConnectBlockOK(disk, b)
  PROVE  Consistent(disk', b)
<1> DEFINE n == ConnectBlock(disk, b)
<1>1. disk \in DB
  BY DEF TypeOK
<1>2. Consistent(n, b) /\ n \in DB
  BY <1>1, ConnectKeepsConsistent, ConnectBlockFields, Zenon
<1> HIDE DEF n
<1>3. disk' = WriteHashBestChain(n, b)
  BY DEF ConnectToBest, n
<1>4. disk'.tx = n.tx /\ disk'.next = n.next /\ disk'.spent = n.spent
  BY <1>2, <1>3, DBFields
<1> QED
  BY <1>2, <1>4, ConsistentFields

(* SetBestChainInner on the best block's child preserves it. *)
LEMMA ExtendBestChainInv ==
  ASSUME IInv, ExtendBestChain
  PROVE  IInv'
<1> DEFINE b == pindexNew
<1>1. TypeOK /\ b \in Block /\ ConnectToBest(b) /\ pc = "setbest" /\ pprev[b] = pindexBest
      /\ PoolIndexExact /\ pindexBest' = b /\ pc' = "idle"
      /\ ConnectBlockOK(disk, b)
  BY DEF IInv, TypeOK, ExtendBestChain
<1>2. /\ disk' \in DB /\ disk'.best = b /\ disk'.blocks = disk.blocks \cup {pprev[b]}
      /\ disk'.tx = disk.tx \cup TxIn(b)
      /\ disk'.next = [disk.next EXCEPT ![pprev[b]] = b]
      /\ pnext' = [pnext EXCEPT ![pprev[b]] = b]
      /\ pnext' \in [Block -> Block \cup {NULL}]
      /\ PoolOK(mempool') /\ PoolIndexExact'
      /\ mempool'.mapTx = mempool.mapTx \ TxIn(b)
  BY <1>1, ConnectToBestStep
<1>a. GoesForward
  <2> SUFFICES ASSUME GoesBack PROVE FALSE
    BY <1>1 DEF IInv, TrustInv
  <2>1. pindexBest \in Block /\ b \in Ancestors[pindexBest] /\ b # pindexBest
    BY <1>1 DEF GoesBack, TypeOK
  <2>2. nHeight[b] < nHeight[pindexBest] /\ nHeight[b] \in Nat /\ nHeight[pindexBest] \in Nat
    BY <2>1, ProperAncestor
  <2>3. nHeight[pprev[b]] <= nHeight[b]
    BY <1>1, TreeFacts
  <2> QED
    BY <1>1, <2>2, <2>3
<1>3. b # Genesis /\ nChainTrust[pindexBest] < nChainTrust[b]
  BY <1>1, <1>a, TreeFacts DEF GoesForward
<1>b. Ancestors[b] = {b} \cup Ancestors[pindexBest]
  BY <1>1, AncestorsStep
<1> USE DEF ExtendBestChain, locals
<1>4. TypeOK'
  BY <1>1, <1>2 DEF TypeOK, Steps
<1>5. PathInv' /\ TrustInv' /\ BranchInv'
  BY <1>1, <1>2, TreeFacts DEF IInv, PathInv, TrustInv, BranchInv, Committed
<1>8. BlocksInv'
  <2>1. pprev[b] \in Ancestors[b]
    BY <1>1, AncestorsClosed
  <2> QED
    BY <1>1, <1>2, <2>1 DEF IInv, BlocksInv
<1>9. RecordInv'
  <2> SUFFICES ASSUME ~fSwallowed PROVE RecordInv'
    BY DEF RecordInv
  <2>1. RecordedBelow(disk, pprev[b])
    BY <1>1 DEF IInv, RecordInv, IndexInv, Uncommitted
  <2>2. RecordedBelow(disk', b)
    BY <1>1, <1>2, <2>1, RecordedMoves
  <2> QED
    BY <1>1, <1>2, <2>2 DEF RecordInv
<1>6. IndexInv'
  <2> SUFFICES ASSUME ~fSwallowed PROVE IndexInv'
    BY DEF IndexInv
  <2>1. Consistent(disk, pprev[b]) /\ pnext = disk.next
    BY <1>1 DEF IInv, IndexInv, Uncommitted
  <2>2. Consistent(disk', b)
    BY <1>1, <1>3, <2>1, ConnectToBestConsistent
  <2>3. pnext' = disk'.next
    BY <1>2, <2>1
  <2> QED
    BY <1>1, <1>2, <2>2, <2>3 DEF IndexInv, Uncommitted
<1>7. PoolChainInv'
  BY <1>1, <1>2 DEF IInv, PoolChainInv
<1> QED
  BY <1>2, <1>4, <1>5, <1>6, <1>7, <1>8, <1>9 DEF IInv

(* ... and so does its refusal. *)
LEMMA ExtendBestChainFailsInv ==
  ASSUME IInv, ExtendBestChainFails
  PROVE  IInv'
  BY AbortInv DEF ExtendBestChainFails, Abort

(* SetBestChain's loop over the postponed blocks stays on the way to        *)
(* pindexNew and above the best chain's trust.                              *)
LEMMA PostponeInv ==
  ASSUME IInv, Postpone
  PROVE  IInv'
<1> USE DEF IInv, Postpone, memory
<1>1. pindexNew \in Block /\ pindexIntermediate \in Block /\ pc = "setbest"
  BY DEF TypeOK
<1>2. TypeOK'
  BY <1>1, TreeFacts DEF TypeOK, Steps
<1>3. PathInv'
  BY <1>1, AncestorsClosed DEF PathInv, Committed
<1>4. TrustInv'
  <2>1. GoesForward
    <3> SUFFICES ASSUME GoesBack PROVE FALSE
      BY <1>1 DEF TrustInv
    <3>1. pindexBest \in Block /\ pindexIntermediate \in Ancestors[pindexBest]
      BY DEF GoesBack, TypeOK
    <3>2. pprev[pindexIntermediate] \in Ancestors[pindexBest]
      BY <3>1, AncestorsClosed
    <3>3. nChainTrust[pprev[pindexIntermediate]] <= nChainTrust[pindexBest]
      BY <3>1, <3>2, AncestorsTrust
    <3>4. nChainTrust[pprev[pindexIntermediate]] \in Nat /\ nChainTrust[pindexBest] \in Nat
      BY <1>1, <3>1, TreeFacts
    <3> QED
      BY <3>3, <3>4 DEF Postponable
  <2> QED
    BY <1>1, <2>1 DEF TrustInv, GoesForward, Uncommitted, Postponable
<1>5. BlocksInv' /\ BranchInv' /\ RecordInv' /\ PoolIndexExact' /\ PoolChainInv'
  BY <1>1 DEF BlocksInv, BranchInv, RecordInv, PoolIndexExact, PoolChainInv
<1>6. IndexInv'
  BY <1>1 DEF IndexInv, Uncommitted
<1> QED
  BY <1>2, <1>3, <1>4, <1>5, <1>6

(* Reorganize starts with a batch that describes the old chain. *)
LEMMA ReorganizeBeginInv ==
  ASSUME IInv, NEW f, ReorganizeBegin(f)
  PROVE  IInv'
<1> USE DEF IInv, memory
<1>1. /\ pc = "setbest" /\ pc' = "disconnect" /\ batch' = disk /\ tip' = pindexBest
      /\ vDisconnect' = {} /\ vResurrect' = << >> /\ vDelete' = << >> /\ barred' = {}
      /\ UNCHANGED <<disk, mapBlockIndex, stub, pindexBest, pnext, mempool, pindexNew,
                     pindexIntermediate, fSwallowed>>
  BY DEF ReorganizeBegin, AtReorganize
<1>2. pindexBest \in Block /\ pindexIntermediate \in Block
  BY DEF TypeOK
<1>3. preorgmax' \in Int
  <2>1. nHeight[pindexBest] \in Nat /\ BLOCK_REORG_MAX_DEPTH \in Nat
        /\ BLOCK_REORG_OVERRIDE_DEPTH \in Nat
    BY <1>2, TreeFacts, BlockAssumption
  <2> QED
    BY <2>1 DEF ReorganizeBegin
<1>4. TypeOK'
  <2>1. vResurrect' \in Seq(Tx) /\ vDelete' \in Seq(Tx)
    BY <1>1
  <2> QED
    BY <1>1, <1>2, <1>3, <2>1 DEF TypeOK, Steps
<1>5. PathInv' /\ TrustInv' /\ BlocksInv'
  BY <1>1 DEF PathInv, TrustInv, GoesForward, GoesBack, BlocksInv, Uncommitted, Committed
<1>6. BranchInv'
  BY <1>1, <1>2, AncestorsClosed DEF BranchInv
<1>7. IndexInv'
  BY <1>1 DEF IndexInv, Uncommitted
<1>9. RecordInv'
  BY <1>1 DEF RecordInv, IndexInv, Uncommitted
<1>8. PoolIndexExact' /\ PoolChainInv'
  BY <1>1 DEF PoolIndexExact, PoolChainInv
<1> QED
  BY <1>4, <1>5, <1>6, <1>7, <1>8, <1>9

(* Every TxnAbort of Reorganize leaves disk and memory as they were. *)
LEMMA RefusalsInv ==
  ASSUME IInv,
         ReorganizeRefused \/ DisconnectTipFails \/ ConnectNextFails \/ ReorganizeCommitFails
  PROVE  IInv'
  BY AbortInv DEF ReorganizeRefused, AtReorganize, DisconnectTipFails, ConnectNextFails,
                  ReorganizeCommitFails

(* "Disconnect shorter branch": the batch describes the chain one block     *)
(* shorter.                                                                 *)
LEMMA DisconnectTipInv ==
  ASSUME IInv, DisconnectTip
  PROVE  IInv'
<1> DEFINE n == DisconnectBlock(batch, tip)
<1>1. /\ pc = "disconnect" /\ pc' = pc /\ tip' = pprev[tip] /\ batch' = n
      /\ tip \notin Ancestors[pindexIntermediate]
      /\ vDisconnect' = vDisconnect \cup {tip}
      /\ vResurrect' = Resurrectable(tip) \o vResurrect
      /\ UNCHANGED <<disk, mapBlockIndex, stub, pindexBest, pnext, mempool, pindexNew,
                     pindexIntermediate, preorgmax, vDelete, barred, fSwallowed>>
  BY DEF DisconnectTip, memory
<1>2. TypeOK /\ tip \in Block /\ pindexBest \in Block /\ pindexIntermediate \in Block
      /\ batch \in DB /\ pprev[tip] \in Block
  BY TreeFacts DEF IInv, TypeOK
<1>3. tip # Genesis
  BY <1>1, <1>2, GenesisAncestor
<1>4. n \in DB /\ n.blocks = batch.blocks \cup {pprev[tip]} /\ n.best = batch.best /\ n.tx = batch.tx \ TxIn(tip)
  BY <1>2, DisconnectBlockFields, Zenon
<1> HIDE DEF n
<1>5. TypeOK'
  <2>1. Resurrectable(tip) \in Seq(Tx)
    BY <1>2, BlockAssumption DEF Resurrectable
  <2>2. vResurrect' \in Seq(Tx)
    BY <1>1, <1>2, <2>1, ElemsConcat DEF TypeOK
  <2> QED
    BY <1>1, <1>2, <1>4, <2>2 DEF TypeOK
<1>6. PathInv' /\ TrustInv' /\ PoolIndexExact' /\ PoolChainInv'
  BY <1>1, <1>4 DEF IInv, PathInv, TrustInv, GoesForward, GoesBack, PoolIndexExact, PoolChainInv,
                    Uncommitted, Committed
<1>7. BranchInv'
  <2>1. Ancestors[tip] = {tip} \cup Ancestors[pprev[tip]] /\ tip \notin Ancestors[pprev[tip]]
    BY <1>2, <1>3, AncestorsStep, ParentHeight
  <2>2. tip \in Ancestors[pindexBest] /\ pprev[tip] \in Ancestors[pindexBest]
    BY <1>1, <1>2, AncestorsClosed DEF IInv, BranchInv
  <2> QED
    BY <1>1, <2>1, <2>2 DEF IInv, BranchInv
<1>9. BlocksInv'
  <2>1. pprev[tip] \in Ancestors[pindexBest]
    BY <1>1, <1>2, AncestorsClosed DEF IInv, BranchInv
  <2> QED
    BY <1>1, <1>4, <2>1 DEF IInv, BlocksInv
<1>10. RecordInv'
  <2> SUFFICES ASSUME ~fSwallowed PROVE RecordInv'
    BY <1>1 DEF RecordInv
  <2>1. RecordedBelow(batch, tip)
    BY <1>1 DEF IInv, RecordInv
  <2>2. RecordedBelow(n, pprev[tip])
    BY <1>2, <1>3, <1>4, <2>1, RecordedMoves
  <2> QED
    BY <1>1, <2>2 DEF IInv, RecordInv
<1>8. IndexInv'
  <2> SUFFICES ASSUME ~fSwallowed PROVE IndexInv'
    BY <1>1 DEF IndexInv
  <2>1. Consistent(batch, tip)
    BY <1>1 DEF IInv, IndexInv
  <2>2. Consistent(n, pprev[tip])
    BY <1>2, <1>3, <2>1, DisconnectKeepsConsistent DEF n
  <2> QED
    BY <1>1, <2>2 DEF IInv, IndexInv, Uncommitted
<1> QED
  BY <1>5, <1>6, <1>7, <1>8, <1>9, <1>10 DEF IInv

(* At the fork the disconnected blocks are the whole old branch. *)
LEMMA DisconnectDoneInv ==
  ASSUME IInv, DisconnectDone
  PROVE  IInv'
<1> USE DEF IInv
<1>1. /\ pc = "disconnect" /\ pc' = "connect" /\ tip \in Ancestors[pindexIntermediate]
      /\ UNCHANGED <<disk, batch, mapBlockIndex, stub, pindexBest, pnext, mempool, locals, fSwallowed>>
  BY DEF DisconnectDone, memory
<1>2. TypeOK /\ pindexIntermediate \in Block
  BY DEF TypeOK
<1>3. TypeOK'
  BY <1>1 DEF TypeOK, Steps, locals
<1>4. PathInv' /\ TrustInv' /\ BlocksInv' /\ RecordInv' /\ PoolIndexExact' /\ PoolChainInv'
  BY <1>1 DEF PathInv, TrustInv, GoesForward, GoesBack, BlocksInv, RecordInv, PoolIndexExact, PoolChainInv,
              Uncommitted, Committed, locals
<1>5. BranchInv'
  <2>1. Ancestors[tip] \subseteq Ancestors[pindexIntermediate]
    BY <1>1, <1>2, AncestorsTransitive
  <2>2. vDisconnect = Ancestors[pindexBest] \ Ancestors[pindexIntermediate]
    BY <1>1, <2>1 DEF BranchInv
  <2> QED
    BY <1>1, <2>2 DEF BranchInv, locals
<1>6. IndexInv'
  BY <1>1 DEF IndexInv, Uncommitted, locals
<1> QED
  BY <1>3, <1>4, <1>5, <1>6

(* "Connect longer branch": the batch describes the chain one block longer. *)
LEMMA ConnectNextInv ==
  ASSUME IInv, ConnectNext
  PROVE  IInv'
<1> DEFINE b == NextTowards(tip, pindexIntermediate)
           n == ConnectBlock(batch, b)
<1>1. /\ pc = "connect" /\ pc' = pc /\ tip # pindexIntermediate
      /\ ConnectBlockOK(batch, b) /\ batch' = n /\ tip' = b
      /\ vDelete' = vDelete \o vtx[b]
      /\ UNCHANGED <<disk, mapBlockIndex, stub, pindexBest, pnext, mempool, pindexNew,
                     pindexIntermediate, preorgmax, vDisconnect, vResurrect, barred,
                     fSwallowed>>
  BY DEF ConnectNext, memory
<1>2. TypeOK /\ pindexIntermediate \in Block /\ batch \in DB
      /\ tip \in Ancestors[pindexIntermediate]
  BY <1>1 DEF IInv, TypeOK, PathInv
<1>3. b \in Ancestors[pindexIntermediate] /\ b \in Block /\ b # Genesis /\ pprev[b] = tip
  BY <1>1, <1>2, NextTowardsChild
<1> HIDE DEF b
<1>4. n \in DB /\ n.blocks = batch.blocks \cup {pprev[b]} /\ n.best = batch.best /\ n.tx = batch.tx \cup TxIn(b)
  BY <1>2, <1>3, ConnectBlockFields, Zenon
<1> HIDE DEF n
<1>5. vDelete' \in Seq(Tx) /\ Elems(vDelete') = Elems(vDelete) \cup TxIn(b)
  <2>1. vtx[b] \in Seq(Tx) /\ vDelete \in Seq(Tx)
    BY <1>2, <1>3, BlockAssumption DEF TypeOK
  <2>2. Elems(vtx[b]) = TxIn(b)
    BY DEF Elems, TxIn
  <2> QED
    BY <1>1, <2>1, <2>2, ElemsConcat
<1>6. TypeOK'
  BY <1>1, <1>2, <1>3, <1>4, <1>5 DEF TypeOK
<1>7. PathInv' /\ TrustInv' /\ PoolIndexExact' /\ BranchInv'
  BY <1>1, <1>3, <1>4 DEF IInv, PathInv, TrustInv, GoesForward, GoesBack, PoolIndexExact, BranchInv,
                          Uncommitted, Committed
<1>8. PoolChainInv'
  BY <1>1, <1>4, <1>5 DEF IInv, PoolChainInv
<1>10. BlocksInv'
  <2>1. tip \in Ancestors[pindexNew]
    BY <1>1, <1>2, AncestorsTransitive DEF IInv, PathInv, TypeOK
  <2> QED
    BY <1>1, <1>3, <1>4, <2>1 DEF IInv, BlocksInv
<1>11. RecordInv'
  <2> SUFFICES ASSUME ~fSwallowed PROVE RecordInv'
    BY <1>1 DEF RecordInv
  <2>1. RecordedBelow(batch, pprev[b])
    BY <1>1, <1>3 DEF IInv, RecordInv
  <2>2. RecordedBelow(n, b)
    BY <1>3, <1>4, <2>1, RecordedMoves
  <2> QED
    BY <1>1, <2>2 DEF IInv, RecordInv
<1>9. IndexInv'
  <2> SUFFICES ASSUME ~fSwallowed PROVE IndexInv'
    BY <1>1 DEF IndexInv
  <2>1. Consistent(batch, pprev[b])
    BY <1>1, <1>3 DEF IInv, IndexInv
  <2>2. Consistent(n, b)
    BY <1>1, <1>2, <1>3, <2>1, ConnectKeepsConsistent DEF n
  <2> QED
    BY <1>1, <2>2 DEF IInv, IndexInv, Uncommitted
<1> QED
  BY <1>6, <1>7, <1>8, <1>9, <1>10, <1>11 DEF IInv

(* Reorganize's in-memory links are those the database got. *)
LEMMA RelinkIsNext ==
  ASSUME TypeOK, NEW next \in [Block -> Block \cup {NULL}],
         NEW b \in Block, LinksChain(pnext, pindexBest), LinksChain(next, b)
  PROVE  Relink(Ancestors[pindexBest] \ Ancestors[b], Ancestors[b] \ Ancestors[pindexBest]) = next
<1> DEFINE off == Ancestors[pindexBest] \ Ancestors[b]
           on  == Ancestors[b] \ Ancestors[pindexBest]
           r   == Relink(off, on)
<1>1. pindexBest \in Block /\ pnext \in [Block -> Block \cup {NULL}]
  BY DEF TypeOK
<1>2. /\ Genesis \in Ancestors[b] /\ Genesis \in Ancestors[pindexBest]
      /\ Ancestors[b] \subseteq Block /\ Ancestors[pindexBest] \subseteq Block
  BY <1>1, GenesisAncestor, AncestorsClosed
<1>3. ASSUME NEW a \in Block PROVE r[a] = next[a]
  <2>1. r[a] = IF \E c \in on : pprev[c] = a THEN CHOOSE c \in on : pprev[c] = a
               ELSE IF \E c \in off : pprev[c] = a THEN NULL ELSE pnext[a]
    BY DEF Relink
  <2> HIDE DEF r
  <2>2. \A c \in Block : next[a] = c <=> (c \in Ancestors[b] \ {Genesis} /\ pprev[c] = a)
    BY DEF LinksChain
  <2>3. \A c \in Block : pnext[a] = c <=> (c \in Ancestors[pindexBest] \ {Genesis} /\ pprev[c] = a)
    BY DEF LinksChain
  <2>4. next[a] \in Block \cup {NULL} /\ pnext[a] \in Block \cup {NULL}
    BY <1>1
  <2>5. CASE \E c \in on : pprev[c] = a
    <3>1. PICK c \in on : pprev[c] = a /\ r[a] = c
      BY <2>1, <2>5
    <3> QED
      BY <1>2, <2>2, <3>1
  <2>6. CASE ~(\E c \in on : pprev[c] = a) /\ \E c \in off : pprev[c] = a
    <3>1. PICK c \in off : pprev[c] = a
      BY <2>6
    <3>2. pnext[a] = c
      BY <1>2, <2>3, <3>1
    <3>3. ASSUME NEW d \in Block, next[a] = d PROVE FALSE
      BY <1>2, <2>2, <2>3, <2>6, <3>1, <3>2, <3>3
    <3> QED
      BY <2>1, <2>4, <2>6, <3>3
  <2>7. CASE ~(\E c \in on : pprev[c] = a) /\ ~(\E c \in off : pprev[c] = a)
    <3>1. r[a] = pnext[a]
      BY <2>1, <2>7
    <3>2. \A c \in Block : next[a] = c <=> pnext[a] = c
      BY <1>2, <2>2, <2>3, <2>7
    <3> QED
      BY <2>4, <3>1, <3>2, TxFacts
  <2> QED
    BY <2>5, <2>6, <2>7
<1>4. r = [a \in Block |-> r[a]]
  BY DEF Relink
<1> HIDE DEF r
<1>5. r = next
  BY <1>3, <1>4
<1> QED
  BY <1>5 DEF r

(* Reorganize's commit: disk and memory get the new chain together. *)
LEMMA ReorganizeCommitInv ==
  ASSUME IInv, ReorganizeCommit
  PROVE  IInv'
<1>1. /\ pc = "connect" /\ pc' = "resurrect" /\ tip = pindexIntermediate
      /\ disk' = WriteHashBestChain(batch, pindexIntermediate)
      /\ pnext' = Relink(vDisconnect, Ancestors[pindexIntermediate] \ Ancestors[pindexBest])
      /\ UNCHANGED <<batch, mapBlockIndex, stub, pindexBest, mempool, locals, fSwallowed>>
  BY DEF ReorganizeCommit
<1>2. TypeOK /\ batch \in DB /\ disk \in DB /\ pindexIntermediate \in Block /\ pindexBest \in Block
      /\ pnext \in [Block -> Block \cup {NULL}]
  BY DEF IInv, TypeOK
<1>3. /\ disk' \in DB /\ disk'.best = pindexIntermediate /\ disk'.blocks = batch.blocks
      /\ disk'.tx = batch.tx /\ disk'.next = batch.next /\ disk'.spent = batch.spent
      /\ batch.next \in [Block -> Block \cup {NULL}]
  BY <1>1, <1>2, DBFields
<1>4. pnext' \in [Block -> Block \cup {NULL}]
  <2> DEFINE on == Ancestors[pindexIntermediate] \ Ancestors[pindexBest]
  <2>1. on \subseteq Block
    BY <1>2, AncestorsClosed
  <2> HIDE DEF on
  <2>2. pnext' = [b \in Block |->
          IF \E c \in on : pprev[c] = b THEN CHOOSE c \in on : pprev[c] = b
          ELSE IF \E c \in vDisconnect : pprev[c] = b THEN NULL ELSE pnext[b]]
    BY <1>1 DEF Relink, on
  <2>3. ASSUME NEW b \in Block
        PROVE  (IF \E c \in on : pprev[c] = b THEN CHOOSE c \in on : pprev[c] = b
                ELSE IF \E c \in vDisconnect : pprev[c] = b THEN NULL ELSE pnext[b])
                  \in Block \cup {NULL}
    <3>1. CASE \E c \in on : pprev[c] = b
      BY <2>1, <3>1
    <3>2. CASE ~\E c \in on : pprev[c] = b
      BY <1>2, <3>2
    <3> QED
      BY <3>1, <3>2
  <2> QED
    BY <2>2, <2>3
<1>5. TypeOK'
  BY <1>1, <1>2, <1>3, <1>4 DEF TypeOK, Steps, locals
<1>6. PathInv' /\ TrustInv' /\ BlocksInv' /\ PoolIndexExact' /\ BranchInv' /\ RecordInv'
  BY <1>1, <1>3 DEF IInv, PathInv, TrustInv, BlocksInv, PoolIndexExact, BranchInv, RecordInv, RecordedBelow,
                    Uncommitted, Committed, locals
<1>7. PoolChainInv'
  BY <1>1, <1>3 DEF IInv, PoolChainInv, locals
<1>8. IndexInv'
  <2> SUFFICES ASSUME ~fSwallowed PROVE IndexInv'
    BY <1>1 DEF IndexInv
  <2>1. /\ Consistent(batch, pindexIntermediate) /\ Consistent(disk, pindexBest)
        /\ pnext = disk.next
    BY <1>1 DEF IInv, IndexInv, Uncommitted
  <2>2. Consistent(disk', disk'.best)
    BY <1>3, <2>1, ConsistentFields
  <2>3. LinksChain(pnext, pindexBest) /\ LinksChain(batch.next, pindexIntermediate)
    BY <2>1 DEF Consistent
  <2>4. vDisconnect = Ancestors[pindexBest] \ Ancestors[pindexIntermediate]
    BY <1>1 DEF IInv, BranchInv
  <2>5. pnext' = batch.next
    BY <1>1, <1>2, <1>3, <2>3, <2>4, RelinkIsNext
  <2> QED
    BY <1>1, <1>3, <2>2, <2>5 DEF IndexInv, Uncommitted
<1> QED
  BY <1>5, <1>6, <1>7, <1>8 DEF IInv

(* Resurrecting goes through AcceptToMemoryPool, so the pool stays exact. *)
LEMMA ResurrectInv ==
  ASSUME IInv, Resurrect
  PROVE  IInv'
<1>1. /\ pc = "resurrect"
      /\ UNCHANGED <<disk, batch, mapBlockIndex, stub, pindexBest, pnext, pindexNew,
                     pindexIntermediate, tip, preorgmax, vDisconnect, vDelete, fSwallowed>>
  BY DEF Resurrect
<1>2. /\ pc' \in {"resurrect", "delete"}
      /\ PoolOK(mempool') /\ PoolIndexExact' /\ vResurrect' \in Seq(Tx) /\ barred' \in SUBSET Tx
      /\ mempool'.mapTx \cap disk.tx = mempool.mapTx \cap disk.tx
  <2>1. TypeOK /\ PoolIndexExact /\ PoolOK(mempool) /\ vResurrect \in Seq(Tx) /\ barred \in SUBSET Tx
    BY DEF IInv, TypeOK
  <2>2. CASE vResurrect = << >>
    BY <1>1, <2>1, <2>2 DEF Resurrect, PoolIndexExact
  <2>3. CASE vResurrect # << >>
    <3>1. Head(vResurrect) \in Tx /\ Tail(vResurrect) \in Seq(Tx)
      BY <2>1, <2>3, ElemsTail
    <3>2. /\ vResurrect' = Tail(vResurrect) /\ pc' = pc
          /\ \/ Acceptable(Head(vResurrect)) /\ mempool' = addUnchecked(mempool, Head(vResurrect))
             \/ mempool' = mempool
          /\ barred' = barred \/ barred' = barred \cup {Head(vResurrect)}
      BY <2>3 DEF Resurrect
    <3>3. CASE Acceptable(Head(vResurrect)) /\ mempool' = addUnchecked(mempool, Head(vResurrect))
      <4>1. /\ PoolOK(mempool') /\ PoolIndexExact'
            /\ mempool'.mapTx = mempool.mapTx \cup {Head(vResurrect)}
            /\ Head(vResurrect) \notin disk.tx
        BY <2>1, <3>1, <3>3, AcceptStep
      <4> QED
        BY <1>1, <2>1, <3>1, <3>2, <4>1
    <3>4. CASE mempool' = mempool
      BY <1>1, <2>1, <3>1, <3>2, <3>4 DEF PoolIndexExact
    <3> QED
      BY <3>2, <3>3, <3>4
  <2> QED
    BY <2>2, <2>3
<1>3. TypeOK'
  BY <1>1, <1>2 DEF IInv, TypeOK, Steps
<1>4. PathInv' /\ TrustInv' /\ BlocksInv' /\ BranchInv' /\ RecordInv' /\ PoolChainInv'
  BY <1>1, <1>2 DEF IInv, PathInv, TrustInv, BlocksInv, BranchInv, RecordInv, PoolChainInv,
                    Uncommitted, Committed
<1>5. IndexInv'
  BY <1>1, <1>2 DEF IInv, IndexInv, Uncommitted
<1> QED
  BY <1>2, <1>3, <1>4, <1>5 DEF IInv

(* Deleting empties the pool of what the new branch confirmed. *)
LEMMA DeleteInv ==
  ASSUME IInv, Delete
  PROVE  IInv'
<1>1. /\ pc = "delete"
      /\ UNCHANGED <<disk, batch, mapBlockIndex, stub, pindexBest, pnext, pindexNew,
                     pindexIntermediate, tip, preorgmax, vDisconnect, vResurrect, barred,
                     fSwallowed>>
  BY DEF Delete
<1>2. TypeOK /\ PoolIndexExact /\ PoolOK(mempool) /\ ExactPool(mempool) /\ vDelete \in Seq(Tx)
      /\ mempool.mapTx \cap disk.tx \subseteq Elems(vDelete)
  BY <1>1 DEF IInv, TypeOK, PoolIndexExact, ExactPool, PoolChainInv
<1>3. /\ pc' \in {"delete", "secondary"}
      /\ PoolOK(mempool') /\ PoolIndexExact' /\ vDelete' \in Seq(Tx)
      /\ pc' = "delete" => mempool'.mapTx \cap disk.tx \subseteq Elems(vDelete')
      /\ pc' = "secondary" => mempool'.mapTx \cap disk.tx = {}
  <2>1. CASE vDelete = << >>
    <3>1. Elems(vDelete) = {}
      BY <2>1 DEF Elems
    <3> QED
      BY <1>1, <1>2, <2>1, <3>1 DEF Delete, PoolIndexExact
  <2>2. CASE vDelete # << >>
    <3> DEFINE h == Head(vDelete)
               m == EraseAll(mempool, {h})
    <3>1. vDelete' = Tail(vDelete) /\ pc' = "delete" /\ mempool' = removeConflicts(m, h)
      BY <1>1, <2>2 DEF Delete, remove
    <3>2. Elems(vDelete) \subseteq {h} \cup Elems(Tail(vDelete)) /\ Tail(vDelete) \in Seq(Tx)
      BY <1>2, <2>2, ElemsTail
    <3>3. PoolOK(m) /\ ExactPool(m) /\ m.mapTx = mempool.mapTx \ {h}
      BY <1>2, EraseAllExact, Zenon
    <3> HIDE DEF m, h
    <3>4. PoolOK(mempool') /\ ExactPool(mempool') /\ mempool'.mapTx \subseteq m.mapTx
      BY <3>1, <3>3, RemoveConflictsExact
    <3>5. PoolIndexExact'
      BY <3>4 DEF PoolIndexExact, ExactPool
    <3> QED
      BY <1>2, <3>1, <3>2, <3>3, <3>4, <3>5
  <2> QED
    BY <2>1, <2>2
<1>4. TypeOK'
  BY <1>1, <1>2, <1>3 DEF TypeOK, Steps
<1>5. PathInv' /\ TrustInv' /\ BlocksInv' /\ BranchInv' /\ RecordInv' /\ PoolChainInv'
  BY <1>1, <1>3 DEF IInv, PathInv, TrustInv, BlocksInv, BranchInv, RecordInv, PoolChainInv,
                    Uncommitted, Committed
<1>6. IndexInv'
  BY <1>1, <1>3 DEF IInv, IndexInv, Uncommitted
<1> QED
  BY <1>3, <1>4, <1>5, <1>6 DEF IInv

(* A postponed block extends the chain on disk. *)
LEMMA ConnectSecondaryInv ==
  ASSUME IInv, ConnectSecondary
  PROVE  IInv'
<1> DEFINE b == NextTowards(tip, pindexNew)
<1>1. /\ pc = "secondary" /\ pc' = pc /\ tip # pindexNew /\ ConnectBlockOK(disk, b)
      /\ ConnectToBest(b) /\ tip' = b
      /\ UNCHANGED <<batch, mapBlockIndex, stub, pindexBest, pindexNew, pindexIntermediate,
                     preorgmax, vDisconnect, vResurrect, vDelete, barred,
                     fSwallowed>>
  BY DEF ConnectSecondary
<1>2. TypeOK /\ PoolIndexExact /\ pindexNew \in Block /\ disk \in DB
      /\ tip = disk.best /\ tip \in Ancestors[pindexNew]
  BY <1>1 DEF IInv, TypeOK, PathInv, Committed
<1>3. b \in Ancestors[pindexNew] /\ b \in Block /\ b # Genesis /\ pprev[b] = tip
  BY <1>1, <1>2, NextTowardsChild
<1> HIDE DEF b
<1>4. /\ disk' \in DB /\ disk'.best = b /\ disk'.blocks = disk.blocks \cup {pprev[b]}
      /\ disk'.tx = disk.tx \cup TxIn(b)
      /\ disk'.next = [disk.next EXCEPT ![pprev[b]] = b]
      /\ pnext' = [pnext EXCEPT ![pprev[b]] = b]
      /\ pnext' \in [Block -> Block \cup {NULL}]
      /\ PoolOK(mempool') /\ PoolIndexExact'
      /\ mempool'.mapTx = mempool.mapTx \ TxIn(b)
  BY <1>1, <1>2, <1>3, ConnectToBestStep
<1>5. TypeOK'
  BY <1>1, <1>2, <1>3, <1>4 DEF TypeOK
<1>6. PathInv' /\ TrustInv' /\ BlocksInv' /\ BranchInv'
  BY <1>1, <1>2, <1>3, <1>4 DEF IInv, PathInv, TrustInv, BlocksInv, BranchInv, Uncommitted,
                                Committed
<1>9. RecordInv'
  <2> SUFFICES ASSUME ~fSwallowed PROVE RecordInv'
    BY <1>1 DEF RecordInv
  <2>1. RecordedBelow(disk, pprev[b])
    BY <1>2, <1>1, <1>3 DEF IInv, RecordInv
  <2>2. RecordedBelow(disk', b)
    BY <1>3, <1>4, <2>1, RecordedMoves
  <2> QED
    BY <1>1, <1>4, <2>2 DEF RecordInv
<1>7. PoolChainInv'
  BY <1>1, <1>4 DEF IInv, PoolChainInv
<1>8. IndexInv'
  <2> SUFFICES ASSUME ~fSwallowed PROVE IndexInv'
    BY <1>1 DEF IndexInv
  <2>1. Consistent(disk, pprev[b]) /\ pnext = disk.next
    BY <1>1, <1>2, <1>3 DEF IInv, IndexInv
  <2>2. Consistent(disk', b)
    BY <1>1, <1>2, <1>3, <2>1, ConnectToBestConsistent
  <2>3. pnext' = disk'.next
    BY <1>4, <2>1
  <2> QED
    BY <1>1, <1>4, <2>2, <2>3 DEF IndexInv, Uncommitted
<1> QED
  BY <1>4, <1>5, <1>6, <1>7, <1>8, <1>9 DEF IInv

(* SetBestChain returns: pindexBest is the chain on disk, or the failure of  *)
(* a postponed block has been swallowed.                                     *)
LEMMA SetBestChainEndsInv ==
  ASSUME IInv, ConnectSecondaryFails \/ SetBestChainDone
  PROVE  IInv'
<1>1. /\ pc = "secondary" /\ pc' = "idle" /\ pindexBest' = pindexNew
      /\ UNCHANGED <<disk, batch, mapBlockIndex, stub, pnext, mempool, locals>>
      /\ fSwallowed' \in BOOLEAN
      /\ ~fSwallowed' => ~fSwallowed /\ tip = pindexNew
  BY DEF ConnectSecondaryFails, SetBestChainDone, IInv, TypeOK
<1>2. TypeOK /\ pindexNew \in Block /\ tip = disk.best /\ tip \in Ancestors[pindexNew]
  BY <1>1 DEF IInv, TypeOK, PathInv, Committed
<1>3. TypeOK'
  BY <1>1, <1>2 DEF TypeOK, Steps, locals
<1>4. TrustInv'
  BY <1>1, <1>2, AncestorsTrust DEF TrustInv, Uncommitted
<1>5. PathInv' /\ BlocksInv' /\ BranchInv' /\ RecordInv' /\ PoolIndexExact' /\ PoolChainInv'
  BY <1>1 DEF IInv, PathInv, BlocksInv, BranchInv, RecordInv, PoolIndexExact,
              PoolChainInv, Committed
<1>6. IndexInv'
  BY <1>1, <1>2 DEF IInv, IndexInv, Uncommitted
<1> QED
  BY <1>3, <1>4, <1>5, <1>6 DEF IInv

(* A crash leaves the disk alone. *)
LEMMA CrashInv ==
  ASSUME IInv, Crash
  PROVE  IInv'
<1>1. /\ pc' = "down" /\ mempool' = EmptyPool
      /\ UNCHANGED <<disk, batch, mapBlockIndex, stub, pindexBest, pnext, locals, fSwallowed>>
  BY DEF Crash
<1>2. PoolOK(EmptyPool) /\ ExactPool(EmptyPool) /\ EmptyPool.mapTx = {}
  BY EmptyPoolExact
<1>3. TypeOK'
  BY <1>1, <1>2 DEF IInv, TypeOK, Steps, locals
<1>4. PoolIndexExact'
  BY <1>1, <1>2 DEF PoolIndexExact, ExactPool
<1>5. PathInv' /\ TrustInv' /\ BlocksInv' /\ BranchInv' /\ RecordInv' /\ PoolChainInv'
  BY <1>1 DEF IInv, PathInv, TrustInv, BlocksInv, BranchInv, RecordInv, PoolChainInv, Uncommitted, Committed
<1>6. IndexInv'
  BY <1>1 DEF IInv, IndexInv, Uncommitted
<1> QED
  BY <1>3, <1>4, <1>5, <1>6 DEF IInv

(* CTxDB::LoadBlockIndex makes memory what disk is, and SetBestChain may go  *)
(* back to an ancestor.                                                      *)
LEMMA LoadBlockIndexInv ==
  ASSUME IInv, LoadBlockIndex
  PROVE  IInv'
<1>1. /\ pc = "down" /\ Recorded /\ mapBlockIndex' = InsertBlockIndex
      /\ stub' = mapBlockIndex' \ disk.blocks
      /\ pindexBest' = disk.best /\ pnext' = disk.next
      /\ UNCHANGED <<disk, batch, mempool, tip, preorgmax, vDisconnect, vResurrect,
                     vDelete, barred, fSwallowed>>
  BY DEF LoadBlockIndex
<1>2. TypeOK /\ disk \in DB
  BY DEF IInv, TypeOK
<1>3. disk.best \in Block /\ disk.blocks \subseteq Block /\ disk.next \in [Block -> Block \cup {NULL}]
  BY <1>2 DEF DB
<1>4. mempool.mapTx = {}
  BY <1>1, EmptyPoolExact DEF IInv, PoolChainInv
<1>5. /\ disk.blocks \subseteq mapBlockIndex' /\ mapBlockIndex' \subseteq Block
      /\ \A b \in disk.blocks : pprev[b] \in mapBlockIndex'
  BY <1>1, <1>3, TreeFacts DEF InsertBlockIndex
<1>6. nChainTrust[disk.best] \in Nat
  BY <1>3, TreeFacts
<1>7. \/ pc' = "idle" /\ UNCHANGED <<pindexNew, pindexIntermediate>>
      \/ /\ pc' = "setbest" /\ pindexIntermediate' = pindexNew' /\ pindexNew' \in Block
         /\ pindexNew' \in Ancestors[disk.best] /\ pindexNew' # disk.best
  <2>1. CASE pc' = "idle" /\ UNCHANGED <<pindexNew, pindexIntermediate>>
    BY <2>1
  <2>2. CASE \E b \in Verified : CallSetBestChain(pprev[b])
    <3>1. PICK b \in Verified : CallSetBestChain(pprev[b])
      BY <2>2
    <3>2. b \in Ancestors[disk.best] /\ b # Genesis /\ b \in Block
      BY <1>3, <3>1, AncestorsClosed DEF Verified
    <3>3. pprev[b] \in Block /\ pprev[b] \in Ancestors[disk.best]
      BY <1>3, <3>2, AncestorsClosed, TreeFacts
    <3>4. nHeight[pprev[b]] < nHeight[b] /\ nHeight[b] <= nHeight[disk.best]
          /\ nHeight[pprev[b]] \in Nat /\ nHeight[b] \in Nat /\ nHeight[disk.best] \in Nat
      BY <1>3, <3>2, ParentHeight, AncestorsHeight, TreeFacts
    <3>5. pprev[b] # disk.best
      BY <3>4
    <3> QED
      BY <3>1, <3>3, <3>5 DEF CallSetBestChain
  <2> QED
    BY <2>1, <2>2 DEF LoadBlockIndex
<1>8. TypeOK'
  BY <1>1, <1>2, <1>3, <1>5, <1>7 DEF TypeOK, Steps
<1>9. PathInv' /\ BranchInv' /\ RecordInv' /\ PoolIndexExact' /\ PoolChainInv'
  BY <1>1, <1>4, <1>7, AncestorsClosed DEF IInv, PathInv, BranchInv, RecordInv, PoolIndexExact,
                          PoolChainInv, Committed
<1>10. TrustInv'
  BY <1>1, <1>6, <1>7 DEF TrustInv, GoesBack, Uncommitted
<1>11. BlocksInv'
  <2>1. Ancestors[disk.best] \subseteq mapBlockIndex'
    BY <1>1, <1>5 DEF Recorded
  <2>2. pc' # "idle" => Ancestors[pindexNew'] \subseteq mapBlockIndex'
    BY <1>3, <1>7, <2>1, AncestorsTransitive
  <2> QED
    BY <1>1, <1>5, <1>7, <2>1, <2>2 DEF BlocksInv
<1>12. IndexInv'
  BY <1>1, <1>7 DEF IInv, IndexInv, Uncommitted
<1> QED
  BY <1>8, <1>9, <1>10, <1>11, <1>12 DEF IInv

(* Nothing changes when no variable does. *)
LEMMA StutterInv ==
  ASSUME IInv, UNCHANGED vars
  PROVE  IInv'
<1> USE DEF IInv, vars, memory, locals
<1>1. TypeOK' /\ PathInv' /\ TrustInv' /\ BlocksInv'
  BY DEF TypeOK, PathInv, TrustInv, GoesForward, GoesBack, BlocksInv, Uncommitted, Committed
<1>2. BranchInv' /\ RecordInv' /\ PoolIndexExact' /\ PoolChainInv'
  BY DEF BranchInv, RecordInv, PoolIndexExact, PoolChainInv
<1>3. IndexInv'
  BY DEF IndexInv, Uncommitted
<1> QED
  BY <1>1, <1>2, <1>3

(* Every step of the engine preserves the invariant. *)
LEMMA NextInv == IInv /\ [Next]_vars => IInv'
<1> SUFFICES ASSUME IInv, [Next]_vars PROVE IInv'
  OBVIOUS
<1>1. CASE \E t \in Tx : AcceptToMemoryPool(t)
  BY <1>1, AcceptToMemoryPoolInv
<1>2. CASE \E b \in Block : AddToBlockIndex(b) \/ AddToBlockIndexFails(b)
  BY <1>2, AddToBlockIndexInv, AddToBlockIndexFailsInv
<1>3. CASE SetBestChain
  <2>1. CASE ExtendBestChain \/ ExtendBestChainFails \/ Postpone
    BY <2>1, ExtendBestChainInv, ExtendBestChainFailsInv, PostponeInv
  <2>2. CASE \E f \in BOOLEAN : ReorganizeBegin(f)
    BY <2>2, ReorganizeBeginInv
  <2>3. CASE ReorganizeRefused \/ DisconnectTipFails \/ ConnectNextFails \/ ReorganizeCommitFails
    BY <2>3, RefusalsInv
  <2>4. CASE DisconnectTip \/ DisconnectDone \/ ConnectNext \/ ReorganizeCommit
    BY <2>4, DisconnectTipInv, DisconnectDoneInv, ConnectNextInv, ReorganizeCommitInv
  <2>5. CASE Resurrect \/ Delete
    BY <2>5, ResurrectInv, DeleteInv
  <2>6. CASE ConnectSecondary \/ ConnectSecondaryFails \/ SetBestChainDone
    BY <2>6, ConnectSecondaryInv, SetBestChainEndsInv
  <2> QED
    BY <1>3, <2>1, <2>2, <2>3, <2>4, <2>5, <2>6 DEF SetBestChain, Reorganize
<1>4. CASE Crash \/ LoadBlockIndex
  BY <1>4, CrashInv, LoadBlockIndexInv
<1>5. CASE UNCHANGED vars
  BY <1>5, StutterInv
<1> QED
  BY <1>1, <1>2, <1>3, <1>4, <1>5 DEF Next

-----------------------------------------------------------------------------
(* The theorems. *)

(* Every state SetBestChain, Reorganize, a crash or a restart leads to       *)
(* satisfies the inductive invariant.                                        *)
THEOREM InvHolds == Spec => []IInv
  BY InitInv, NextInv, PTL DEF Spec

(* Database, block index, pool and SetBestChain's locals keep their types. *)
THEOREM TypeCorrect == Spec => []TypeOK
<1>1. IInv => TypeOK
  BY DEF IInv
<1> QED
  BY <1>1, InvHolds, PTL

(* CTxDB: wherever the process dies, the transaction index and the hashNext   *)
(* links on disk are exactly those of the chain that hashBestChain names.     *)
THEOREM IndexCorrect == Spec => []IndexMatchesBestChain
<1>1. IInv => IndexMatchesBestChain
  <2> SUFFICES ASSUME IInv, ~fSwallowed
               PROVE  /\ DescribesChain(disk, disk.best) /\ LinksChain(disk.next, disk.best)
                      /\ RecordedBelow(disk, disk.best)
    BY DEF IndexMatchesBestChain
  <2>1. disk \in DB /\ Consistent(disk, disk.best) /\ RecordedBelow(disk, disk.best)
    BY DEF IInv, TypeOK, IndexInv, RecordInv
  <2>2. disk.best \in Block
    BY <2>1 DEF DB
  <2> QED
    BY <2>1, <2>2, ConsistentDescribes
<1> QED
  BY <1>1, InvHolds, PTL

(* Between two calls of SetBestChain memory agrees with disk, reorganisations  *)
(* and refused branches included.                                              *)
THEOREM MemoryCorrect == Spec => []MemoryMatchesDisk
<1>1. IInv => MemoryMatchesDisk
  BY DEF IInv, IndexInv, RecordInv, RecordedBelow, BlocksInv, MemoryMatchesDisk, Uncommitted
<1> QED
  BY <1>1, InvHolds, PTL

(* CTxMemPool: mapNextTx is exact and no two pool transactions conflict. *)
THEOREM PoolIndexCorrect == Spec => []PoolIndexExact
<1>1. IInv => PoolIndexExact
  BY DEF IInv
<1> QED
  BY <1>1, InvHolds, PTL

(* No confirmed transaction stays in the pool, whether it was confirmed by    *)
(* extending the chain or by a reorganisation.                                *)
THEOREM PoolDisjoint == Spec => []PoolNotInChain
<1>1. IInv => PoolNotInChain
  BY DEF IInv, PoolChainInv, PoolNotInChain
<1> QED
  BY <1>1, InvHolds, PTL

(* No commit, and no crash, lowers the trust of the best chain on disk, but  *)
(* the start-up verification when it moves the best chain back.              *)
THEOREM TrustGrows == Spec => DiskTrustDropsOnlyBack
<1>1. ASSUME IInv, [Next]_vars
      PROVE  [\/ nChainTrust[disk'.best] >= nChainTrust[disk.best]
              \/ disk'.best = pindexNew /\ pindexNew \in Ancestors[disk.best]]_vars
  <2>1. disk \in DB /\ disk.best \in Block /\ nChainTrust[disk.best] \in Nat
        /\ TypeOK /\ PoolIndexExact
    <3>1. disk \in DB /\ disk.best \in Block
      BY <1>1 DEF IInv, TypeOK, DB
    <3> QED
      BY <1>1, <3>1, TreeFacts DEF IInv
  <2>2. CASE disk'.best = disk.best
    BY <2>1, <2>2
  <2>3. CASE \E b \in Block : AddToBlockIndex(b)
    BY <2>1, <2>3 DEF AddToBlockIndex, DB
  <2>4. CASE ExtendBestChain
    <3>1. disk'.best = pindexNew /\ pindexNew \in Block
      BY <2>1, <2>4, ConnectToBestStep DEF ExtendBestChain, TypeOK
    <3>2. /\ nChainTrust[disk.best] <= nChainTrust[pindexBest]
          /\ GoesForward => nChainTrust[pindexBest] < nChainTrust[pindexNew]
          /\ GoesBack => pindexNew \in Ancestors[disk.best]
          /\ GoesForward \/ GoesBack
      BY <1>1, <2>4 DEF IInv, TrustInv, Uncommitted, ExtendBestChain, GoesForward, GoesBack
    <3>3. nChainTrust[pindexBest] \in Nat /\ nChainTrust[pindexNew] \in Nat
      BY <2>1, TreeFacts DEF TypeOK
    <3> QED
      BY <2>1, <3>1, <3>2, <3>3
  <2>5. CASE ReorganizeCommit
    <3>1. disk'.best = pindexIntermediate
      BY <2>1, <2>5, DBFields DEF ReorganizeCommit, TypeOK
    <3>2. /\ nChainTrust[disk.best] <= nChainTrust[pindexBest]
          /\ GoesForward => nChainTrust[pindexBest] < nChainTrust[pindexIntermediate]
          /\ GoesBack => pindexIntermediate = pindexNew /\ pindexNew \in Ancestors[disk.best]
          /\ GoesForward \/ GoesBack
      BY <1>1, <2>5 DEF IInv, TrustInv, Uncommitted, ReorganizeCommit, GoesForward, GoesBack
    <3>3. nChainTrust[pindexBest] \in Nat /\ nChainTrust[pindexIntermediate] \in Nat
      BY <2>1, TreeFacts DEF TypeOK
    <3> QED
      BY <2>1, <3>1, <3>2, <3>3
  <2>6. CASE ConnectSecondary
    <3> DEFINE b == NextTowards(tip, pindexNew)
    <3>1. tip = disk.best /\ tip \in Ancestors[pindexNew] /\ tip # pindexNew /\ pindexNew \in Block
      BY <1>1, <2>1, <2>6 DEF IInv, PathInv, Committed, ConnectSecondary, TypeOK
    <3>2. b \in Block /\ b # Genesis /\ pprev[b] = tip
      BY <3>1, NextTowardsChild
    <3>3. ConnectToBest(b)
      BY <2>6 DEF ConnectSecondary
    <3> HIDE DEF b
    <3>4. disk'.best = b
      BY <2>1, <3>2, <3>3, ConnectToBestStep
    <3>5. nChainTrust[b] > nChainTrust[tip] /\ nChainTrust[b] \in Nat
      BY <3>2, TreeFacts
    <3> QED
      BY <2>1, <3>1, <3>4, <3>5
  <2>7. disk' = disk \/ (\E b \in Block : AddToBlockIndex(b))
        \/ ExtendBestChain \/ ReorganizeCommit \/ ConnectSecondary
    BY <1>1 DEF Next, vars, AcceptToMemoryPool, SetBestChain, Reorganize,
       ExtendBestChainFails, Postpone, ReorganizeBegin, ReorganizeRefused, Abort,
       DisconnectTip, DisconnectTipFails, DisconnectDone, ConnectNext, ConnectNextFails,
       ReorganizeCommitFails, Resurrect, Delete, ConnectSecondaryFails, SetBestChainDone, Crash,
       LoadBlockIndex, AddToBlockIndexFails
  <2> QED
    BY <2>2, <2>3, <2>4, <2>5, <2>6, <2>7
<1> QED
  BY <1>1, InvHolds, PTL DEF Spec, DiskTrustDropsOnlyBack
-----------------------------------------------------------------------------
(* Reorganize and the transactions it disconnects. *)

(* A transaction of a disconnected block above preorgmax. *)
Recent(t) == \E b \in vDisconnect : nHeight[b] > preorgmax /\ t \in TxIn(b)

(* Until it was offered to the pool it is queued; the queue of the deletions   *)
(* holds transactions that the new chain confirms.                             *)
QueueInv ==
  /\ pc \in {"disconnect", "connect"} => \A t \in Tx : Recent(t) => t \in Elems(vResurrect)
  /\ pc = "resurrect" => \A t \in Tx :
        Recent(t) => t \in Elems(vResurrect) \/ ~Lost(t) \/ t \in barred
  /\ pc = "disconnect" => vDelete = << >>
  /\ pc = "connect" => Elems(vDelete) \subseteq batch.tx
  /\ pc \in {"resurrect", "delete"} => Elems(vDelete) \subseteq disk.tx

(* AcceptToMemoryPool refuses exactly what cannot be lost. *)
LEMMA LostIsAcceptable == ASSUME NEW t PROVE Lost(t) <=> Acceptable(t)
  BY DEF Lost, Spendable, Acceptable

(* What grows the pool loses nothing. *)
LEMMA GrowingLosesNothing ==
  ASSUME PoolIndexExact, PoolIndexExact', disk' = disk, mempool.mapTx \subseteq mempool'.mapTx,
         NEW t, ~Lost(t)
  PROVE  ~Lost(t)'
<1>1. DOMAIN mempool.mapNextTx \subseteq DOMAIN mempool'.mapNextTx
  BY DEF PoolIndexExact, SpentBy
<1> QED
  BY <1>1 DEF Lost, Spendable

(* The head and the tail of a sequence are among its elements. *)
LEMMA TailElems ==
  ASSUME NEW s \in Seq(Tx), s # << >>
  PROVE  Head(s) \in Elems(s) /\ Elems(Tail(s)) \subseteq Elems(s)
<1>1. Head(s) = s[1] /\ 1 \in DOMAIN s
  OBVIOUS
<1>2. ASSUME NEW i \in DOMAIN Tail(s) PROVE Tail(s)[i] \in Elems(s)
  <2>1. i + 1 \in DOMAIN s /\ Tail(s)[i] = s[i + 1]
    OBVIOUS
  <2> QED
    BY <2>1 DEF Elems
<1> QED
  BY <1>1, <1>2 DEF Elems

LEMMA QueueDisconnectTip ==
  ASSUME IInv, QueueInv, DisconnectTip
  PROVE  QueueInv'
<1>1. /\ pc = "disconnect" /\ pc' = pc /\ vDisconnect' = vDisconnect \cup {tip}
      /\ vResurrect' = Resurrectable(tip) \o vResurrect
      /\ UNCHANGED <<preorgmax, vDelete>>
  BY DEF DisconnectTip
<1>2. tip \in Block /\ vResurrect \in Seq(Tx) /\ vtx[tip] \in Seq(Tx)
  BY BlockAssumption DEF IInv, TypeOK
<1>3. Resurrectable(tip) \in Seq(Tx)
  BY <1>2 DEF Resurrectable
<1>4. Elems(vResurrect') = Elems(Resurrectable(tip)) \cup Elems(vResurrect)
  BY <1>1, <1>2, <1>3, ElemsConcat
<1>5. nHeight[tip] > preorgmax => Elems(Resurrectable(tip)) = TxIn(tip)
  BY DEF Elems, TxIn, Resurrectable
<1>6. \A t \in Tx : Recent(t)' => Recent(t) \/ (nHeight[tip] > preorgmax /\ t \in TxIn(tip))
  BY <1>1 DEF Recent
<1> QED
  BY <1>1, <1>4, <1>5, <1>6 DEF QueueInv

LEMMA QueueConnectNext ==
  ASSUME IInv, QueueInv, ConnectNext
  PROVE  QueueInv'
<1> DEFINE b == NextTowards(tip, pindexIntermediate)
           n == ConnectBlock(batch, b)
<1>1. /\ pc = "connect" /\ pc' = pc /\ tip # pindexIntermediate
      /\ batch' = n /\ vDelete' = vDelete \o vtx[b]
      /\ UNCHANGED <<preorgmax, vDisconnect, vResurrect>>
  BY DEF ConnectNext
<1>2. pindexIntermediate \in Block /\ batch \in DB /\ tip \in Ancestors[pindexIntermediate]
      /\ vDelete \in Seq(Tx)
  BY <1>1 DEF IInv, TypeOK, PathInv
<1>3. b \in Block
  BY <1>1, <1>2, NextTowardsChild
<1> HIDE DEF b
<1>4. n.tx = batch.tx \cup TxIn(b)
  BY <1>2, <1>3, ConnectBlockFields, Zenon
<1> HIDE DEF n
<1>5. vtx[b] \in Seq(Tx) /\ Elems(vtx[b]) = TxIn(b)
  BY <1>3, BlockAssumption DEF Elems, TxIn
<1>6. Elems(vDelete') = Elems(vDelete) \cup TxIn(b)
  BY <1>1, <1>2, <1>5, ElemsConcat
<1>7. Elems(vDelete') \subseteq batch'.tx
  BY <1>1, <1>4, <1>6 DEF QueueInv
<1> QED
  BY <1>1, <1>7 DEF QueueInv, Recent

LEMMA QueueCommit ==
  ASSUME IInv, QueueInv, ReorganizeCommit
  PROVE  QueueInv'
<1>1. /\ pc = "connect" /\ pc' = "resurrect" /\ disk' = WriteHashBestChain(batch, pindexIntermediate)
      /\ UNCHANGED <<preorgmax, vDisconnect, vResurrect, vDelete>>
  BY DEF ReorganizeCommit, locals
<1>2. disk'.tx = batch.tx
  BY <1>1, DBFields DEF IInv, TypeOK
<1> QED
  BY <1>1, <1>2 DEF QueueInv, Recent

(* Each queued transaction is offered once, and then it is barred or not lost. *)
LEMMA QueueResurrect ==
  ASSUME IInv, QueueInv, Resurrect
  PROVE  QueueInv'
<1>1. pc = "resurrect" /\ UNCHANGED <<disk, preorgmax, vDisconnect, vDelete>>
  BY DEF Resurrect
<1>2. PoolIndexExact /\ PoolIndexExact' /\ vResurrect \in Seq(Tx) /\ TypeOK
  BY ResurrectInv DEF IInv, TypeOK
<1>3. CASE vResurrect = << >>
  BY <1>1, <1>3 DEF Resurrect, QueueInv
<1>4. CASE vResurrect # << >>
  <2>0. PICK h \in Tx : h = Head(vResurrect)
    BY <1>2, <1>4, ElemsTail
  <2>1. /\ pc' = pc /\ vResurrect' = Tail(vResurrect)
        /\ \/ Acceptable(h) /\ mempool' = addUnchecked(mempool, h) /\ barred' = barred
           \/ mempool' = mempool /\ barred' = barred \cup {h}
           \/ ~Acceptable(h) /\ mempool' = mempool /\ barred' = barred
    BY <1>4, <2>0 DEF Resurrect
  <2>2. Elems(vResurrect) \subseteq {h} \cup Elems(Tail(vResurrect))
    BY <1>2, <1>4, <2>0, ElemsTail
  <2>3. mempool.mapTx \subseteq mempool'.mapTx /\ barred \subseteq barred'
    BY <2>1 DEF addUnchecked
  <2>4. ~Lost(h)' \/ h \in barred'
    <3>1. CASE Acceptable(h) /\ mempool' = addUnchecked(mempool, h)
      <4>1. h \in mempool'.mapTx
        BY <3>1 DEF addUnchecked
      <4> QED
        BY <4>1 DEF Lost
    <3>2. CASE barred' = barred \cup {h}
      BY <3>2
    <3>3. CASE ~Acceptable(h)
      BY <1>1, <1>2, <2>3, <3>3, LostIsAcceptable, GrowingLosesNothing
    <3> QED
      BY <2>1, <3>1, <3>2, <3>3
  <2>5. \A t \in Tx : ~Lost(t) => ~Lost(t)'
    BY <1>1, <1>2, <2>3, GrowingLosesNothing
  <2>6. \A t \in Tx : Recent(t)' => Recent(t)
    BY <1>1 DEF Recent
  <2>7. \A t \in Tx : Recent(t)' => t \in Elems(vResurrect') \/ ~Lost(t)' \/ t \in barred'
    BY <1>1, <2>1, <2>2, <2>3, <2>4, <2>5, <2>6 DEF QueueInv
  <2> QED
    BY <1>1, <2>1, <2>7 DEF QueueInv
<1> QED
  BY <1>3, <1>4

LEMMA QueueDelete ==
  ASSUME IInv, QueueInv, Delete
  PROVE  QueueInv'
<1>1. pc = "delete" /\ UNCHANGED disk
  BY DEF Delete
<1>2. vDelete \in Seq(Tx)
  BY DEF IInv, TypeOK
<1>3. CASE vDelete = << >>
  BY <1>1, <1>3 DEF Delete, QueueInv
<1>4. CASE vDelete # << >>
  <2>1. pc' = pc /\ vDelete' = Tail(vDelete)
    BY <1>4 DEF Delete
  <2>2. Elems(vDelete') \subseteq Elems(vDelete)
    BY <1>2, <1>4, <2>1, TailElems
  <2> QED
    BY <1>1, <2>1, <2>2 DEF QueueInv
<1> QED
  BY <1>3, <1>4

(* The queues of Reorganize hold what they should in every reachable state. *)
THEOREM QueueHolds == Spec => []QueueInv
<1>1. Init => QueueInv
  BY DEF Init, QueueInv
<1>2. IInv /\ QueueInv /\ [Next]_vars => QueueInv'
  <2> SUFFICES ASSUME IInv, QueueInv, [Next]_vars PROVE QueueInv'
    OBVIOUS
  <2>1. CASE DisconnectTip
    BY <2>1, QueueDisconnectTip
  <2>2. CASE ConnectNext
    BY <2>2, QueueConnectNext
  <2>3. CASE ReorganizeCommit
    BY <2>3, QueueCommit
  <2>4. CASE Resurrect
    BY <2>4, QueueResurrect
  <2>5. CASE Delete
    BY <2>5, QueueDelete
  <2>6. CASE \E f \in BOOLEAN : ReorganizeBegin(f)
    <3>1. pc' = "disconnect" /\ vDisconnect' = {} /\ vDelete' = << >>
      BY <2>6 DEF ReorganizeBegin
    <3> QED
      BY <3>1 DEF QueueInv, Recent
  <2>7. CASE DisconnectDone
    <3>1. pc = "disconnect" /\ pc' = "connect" /\ UNCHANGED <<batch, preorgmax, vDisconnect, vResurrect, vDelete>>
      BY <2>7 DEF DisconnectDone, locals
    <3>2. Elems(vDelete') = {}
      BY <3>1 DEF QueueInv, Elems
    <3> QED
      BY <3>1, <3>2 DEF QueueInv, Recent
  <2>8. CASE pc' \in {"idle", "setbest", "secondary", "down"}
    BY <2>8 DEF QueueInv
  <2>9. CASE UNCHANGED vars
    BY <2>9 DEF vars, memory, locals, QueueInv, Recent, Lost, Spendable
  <2>10. \/ DisconnectTip \/ ConnectNext \/ ReorganizeCommit \/ Resurrect \/ Delete
         \/ (\E f \in BOOLEAN : ReorganizeBegin(f)) \/ DisconnectDone
         \/ pc' \in {"idle", "setbest", "secondary", "down"} \/ UNCHANGED vars
    BY DEF Next, SetBestChain, Reorganize, AcceptToMemoryPool, AddToBlockIndex, ExtendBestChain,
           ExtendBestChainFails, Postpone, ReorganizeRefused, Abort, DisconnectTipFails,
           ConnectNextFails, ConnectSecondary, ConnectSecondaryFails, SetBestChainDone, Crash,
           LoadBlockIndex, CallSetBestChain, ReorganizeCommitFails, AddToBlockIndexFails, AcceptBlock
  <2> QED
    BY <2>1, <2>2, <2>3, <2>4, <2>5, <2>6, <2>7, <2>8, <2>9, <2>10
<1> QED
  BY <1>1, <1>2, InvHolds, PTL DEF Spec

(* What removeConflicts takes away with a confirmed transaction d could not be   *)
(* mined: it spends an output that d spends, or one of a transaction that cannot *)
(* be mined either.                                                              *)
LEMMA ConflictsUnspendable ==
  ASSUME TypeOK, Consistent(disk, disk.best), NEW pool, PoolOK(pool), ExactPool(pool),
         NEW d \in disk.tx, d \notin pool.mapTx
  PROVE  \A v \in pool.mapTx \ removeConflicts(pool, d).mapTx : ~Spendable(v)
<1> DEFINE bad(v) == \E o \in vin[v] : ~(txOf[o] \in disk.tx /\ disk.spent[o] = NULL)
           C == {v \in pool.mapTx : v \notin disk.tx /\ bad(v)}
           roots == ({pool.mapNextTx[o] : o \in vin[d] \cap DOMAIN pool.mapNextTx} \ {d}) \cap pool.mapTx
           D == Descendants(pool, roots)
<1>a. disk.tx \subseteq Tx /\ pool.mapTx \subseteq Tx /\ d \in Tx
  BY DEF TypeOK, DB, PoolOK
<1>b. /\ \A t \in disk.tx : \A o \in vin[t] : txOf[o] \in disk.tx /\ disk.spent[o] = t
      /\ NULL \notin Tx
  BY TxFacts DEF Consistent
<1>c. \A p \in DOMAIN pool.mapNextTx : p \in vin[pool.mapNextTx[p]]
  BY DEF ExactPool, SpentBy
<1>1. roots \subseteq C
  <2> SUFFICES ASSUME NEW v \in roots PROVE v \in C
    OBVIOUS
  <2>1. PICK o \in vin[d] \cap DOMAIN pool.mapNextTx : v = pool.mapNextTx[o]
    OBVIOUS
  <2>2. o \in vin[v] /\ o \in vin[d] /\ v # d /\ v \in pool.mapTx
    BY <1>c, <2>1
  <2>3. disk.spent[o] = d /\ d # NULL
    BY <1>a, <1>b, <2>2
  <2>4. v \notin disk.tx
    BY <1>b, <2>2, <2>3
  <2> QED
    BY <2>2, <2>3, <2>4
<1>2. Children(pool, C) \cap pool.mapTx \subseteq C
  <2> SUFFICES ASSUME NEW v \in Children(pool, C) \cap pool.mapTx PROVE v \in C
    OBVIOUS
  <2>1. PICK p \in DOMAIN pool.mapNextTx : txOf[p] \in C /\ v = pool.mapNextTx[p]
    BY DEF Children
  <2>2. p \in vin[v] /\ txOf[p] \notin disk.tx
    BY <1>c, <2>1
  <2> QED
    BY <1>b, <2>2
<1>3. D \subseteq C
  <2>1. C \in SUBSET pool.mapTx
    OBVIOUS
  <2> HIDE DEF C, roots
  <2> QED
    BY <1>1, <1>2, <2>1 DEF Descendants
<1>4. removeConflicts(pool, d) = EraseAll(pool, D)
  BY DEF removeConflicts, removeRecursive
<1>5. EraseAll(pool, D).mapTx = pool.mapTx \ D
  BY EraseAllExact, Zenon
<1> HIDE DEF D
<1> QED
  BY <1>3, <1>4, <1>5 DEF Spendable

(* A deletion loses a transaction only by taking away its conflict. *)
LEMMA DeleteLosesOnlyDisplaced ==
  ASSUME IInv, QueueInv, Delete, ~fSwallowed, NEW t \in Tx, Lost(t)', ~Lost(t)
  PROVE  Displaced(t)
<1>1. /\ pc = "delete" /\ UNCHANGED disk
  BY DEF Delete
<1>2. /\ TypeOK /\ PoolOK(mempool) /\ ExactPool(mempool) /\ vDelete \in Seq(Tx)
      /\ Consistent(disk, disk.best) /\ ExactPool(mempool')
  BY DeleteInv DEF IInv, TypeOK, PoolIndexExact, ExactPool, IndexInv
<1>3. vDelete # << >>
  BY <1>1 DEF Delete, Lost, Spendable
<1> DEFINE d == Head(vDelete)
           m == EraseAll(mempool, {d})
<1>4. mempool' = removeConflicts(m, d)
  BY <1>3 DEF Delete, remove
<1>5. d \in disk.tx
  BY <1>1, <1>2, <1>3, TailElems DEF QueueInv
<1>6. PoolOK(m) /\ ExactPool(m) /\ m.mapTx = mempool.mapTx \ {d}
  BY <1>2, EraseAllExact, Zenon
<1> HIDE DEF m, d
<1>7. \A v \in m.mapTx \ mempool'.mapTx : ~Spendable(v)
  BY <1>2, <1>4, <1>5, <1>6, ConflictsUnspendable
<1>8. /\ t \in LooseTx /\ Spendable(t) /\ t \notin mempool'.mapTx
      /\ vin[t] \cap DOMAIN mempool'.mapNextTx = {}
  BY <1>1 DEF Lost, Spendable
<1>9. t \notin mempool.mapTx
  BY <1>5, <1>6, <1>7, <1>8 DEF Spendable
<1>10. PICK o \in vin[t] : o \in DOMAIN mempool.mapNextTx
  BY <1>8, <1>9 DEF Lost
<1>11. PICK u \in mempool.mapTx : o \in vin[u]
  BY <1>2, <1>10 DEF ExactPool, SpentBy
<1>12. u \notin mempool'.mapTx
  BY <1>2, <1>8, <1>10, <1>11 DEF ExactPool, SpentBy
<1>13. u # d
  <2>1. \A p \in vin[d] : disk.spent[p] = d
    BY <1>2, <1>5 DEF Consistent
  <2>2. d # NULL
    BY <1>2, <1>5, TxFacts DEF TypeOK, DB
  <2> QED
    BY <1>8, <1>10, <1>11, <2>1, <2>2 DEF Spendable
<1>14. ~Spendable(u)
  BY <1>6, <1>7, <1>11, <1>12, <1>13
<1> QED
  BY <1>9, <1>10, <1>11, <1>12, <1>14 DEF Displaced

(* Reorganize, for every tree and every pool: once all its disconnected          *)
(* transactions are offered none is lost but those a lock barred, and a deletion *)
(* loses one only together with the pool transaction that had kept it out.       *)
THEOREM ResurrectionComplete == Spec => RecentTxResurrected
<1>1. ASSUME IInv, QueueInv, [Next]_vars, NEW b \in vDisconnect, nHeight[b] > preorgmax, NEW t \in TxIn(b)
      PROVE  /\ pc = "resurrect" /\ pc' = "delete" => ~Lost(t) \/ t \in barred
             /\ pc = "delete" /\ pc' # "down" /\ ~fSwallowed /\ Lost(t)' => Lost(t) \/ Displaced(t)
  <2>a. t \in Tx /\ Recent(t)
    BY <1>1, TxFacts DEF IInv, TypeOK, Recent
  <2>b. pc \in {"resurrect", "delete"} => Resurrect \/ Delete \/ pc' = "down" \/ UNCHANGED vars
    BY <1>1 DEF Next, SetBestChain, Reorganize, AcceptToMemoryPool, AddToBlockIndex, ExtendBestChain,
           ExtendBestChainFails, Postpone, ReorganizeBegin, ReorganizeRefused, AtReorganize,
           DisconnectTip, DisconnectTipFails, DisconnectDone, ConnectNext, ConnectNextFails,
           ReorganizeCommit, ConnectSecondary, ConnectSecondaryFails, SetBestChainDone, Crash,
           LoadBlockIndex, ReorganizeCommitFails, AddToBlockIndexFails, AcceptBlock
  <2>1. ASSUME pc = "resurrect", pc' = "delete" PROVE ~Lost(t) \/ t \in barred
    <3>1. Resurrect
      BY <2>1, <2>b DEF Delete, vars
    <3>2. vResurrect = << >>
      BY <2>1, <3>1 DEF Resurrect
    <3>3. Elems(vResurrect) = {}
      BY <3>2 DEF Elems
    <3> QED
      BY <1>1, <2>1, <2>a, <3>3 DEF QueueInv
  <2>2. ASSUME pc = "delete", pc' # "down", ~fSwallowed, Lost(t)', ~Lost(t) PROVE Displaced(t)
    <3>1. CASE Delete
      BY <1>1, <2>2, <2>a, <3>1, DeleteLosesOnlyDisplaced
    <3>2. CASE UNCHANGED vars
      BY <2>2, <3>2 DEF vars, memory, Lost, Spendable
    <3> QED
      BY <2>2, <2>b, <3>1, <3>2 DEF Resurrect
  <2> QED
    BY <2>1, <2>2
<1>2. IInv /\ QueueInv /\ [Next]_vars =>
        [\A b \in vDisconnect : nHeight[b] > preorgmax => \A t \in TxIn(b) :
           /\ pc = "resurrect" /\ pc' = "delete" => ~Lost(t) \/ t \in barred
           /\ pc = "delete" /\ pc' # "down" /\ ~fSwallowed /\ Lost(t)' => Lost(t) \/ Displaced(t)]_vars
  BY <1>1
<1> QED
  BY <1>2, InvHolds, QueueHolds, PTL DEF Spec, RecentTxResurrected
=============================================================================
