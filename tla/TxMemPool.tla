------------------------------ MODULE TxMemPool ------------------------------
(***************************************************************************)
(* CTxMemPool (txmempool.h, txmempool.cpp): the pool of unconfirmed        *)
(* transactions, as operators on a pool record.  A transaction is named by *)
(* its hash, so mapTx is the set of hashes in the pool; mapNextTx maps an  *)
(* outpoint to the pool transaction that spends it (CInPoint without the   *)
(* input number).  The state machine that calls these operations is in     *)
(* module ChainState.                                                      *)
(***************************************************************************)
CONSTANTS
  Tx,        \* transactions (their hashes)
  OutPoint,  \* transaction outputs
  vin,       \* vin[t]: the outpoints transaction t spends (vin[i].prevout)
  txOf       \* txOf[o]: the transaction that creates o (COutPoint::hash)

ASSUME TxAssumption ==
  /\ vin \in [Tx -> SUBSET OutPoint]
  /\ txOf \in [OutPoint -> Tx]

(* The outpoints that some transaction of T spends. *)
SpentBy(T) == UNION {vin[t] : t \in T}

(* CTxMemPool::CTxMemPool and CTxMemPool::clear: the empty pool. *)
EmptyPool == [mapTx |-> {}, mapNextTx |-> [o \in {} |-> {}]]

(* CTxMemPool::addUnchecked: every input overwrites its mapNextTx entry. *)
addUnchecked(pool, t) ==
  [mapTx     |-> pool.mapTx \cup {t},
   mapNextTx |-> [o \in DOMAIN pool.mapNextTx \cup vin[t] |->
                    IF o \in vin[t] THEN t ELSE pool.mapNextTx[o]]]

(* Mutant of EraseAll: the inputs stay in mapNextTx. *)
EraseAllKeepsNext(pool, T) ==
  [mapTx |-> pool.mapTx \ T, mapNextTx |-> pool.mapNextTx]

(* Erases the transactions of T that are in the pool, and with each of them *)
(* the mapNextTx entries of its inputs, whatever those entries point to.    *)
EraseAll(pool, T) ==
  LET gone == T \cap pool.mapTx
  IN  [mapTx     |-> pool.mapTx \ gone,
       mapNextTx |-> [o \in DOMAIN pool.mapNextTx \ SpentBy(gone) |->
                        pool.mapNextTx[o]]]

(* CTxMemPool::remove(tx, false), for each tx of T: children stay. *)
remove(pool, T) == EraseAll(pool, T)

(* The pool transactions that spend an output of a transaction of T,        *)
(* found as the code finds them: through mapNextTx.                         *)
Children(pool, T) ==
  {pool.mapNextTx[o] : o \in {p \in DOMAIN pool.mapNextTx : txOf[p] \in T}}

(* The recursion of CTxMemPool::remove(tx, true): the least set that holds  *)
(* the roots and is closed under Children.                                  *)
Descendants(pool, roots) ==
  {t \in pool.mapTx :
     \A C \in SUBSET pool.mapTx :
        (roots \subseteq C /\ Children(pool, C) \cap pool.mapTx \subseteq C) => t \in C}

(* CTxMemPool::remove(tx, true) *)
removeRecursive(pool, roots) ==
  EraseAll(pool, Descendants(pool, roots \cap pool.mapTx))

(* CTxMemPool::removeConflicts: every pool transaction other than t that    *)
(* spends an input of t goes, with everything that depends on it.           *)
removeConflicts(pool, t) ==
  removeRecursive(pool,
    {pool.mapNextTx[o] : o \in vin[t] \cap DOMAIN pool.mapNextTx} \ {t})
=============================================================================
