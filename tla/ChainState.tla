----------------------------- MODULE ChainState -----------------------------
(***************************************************************************)
(* The validation engine of main.cpp: the block index, the transaction     *)
(* index of the CTxDB database, the best chain and the memory pool, and    *)
(* the operations that move them: AcceptBlock/AddToBlockIndex,             *)
(* SetBestChain, Reorganize, ConnectBlock, DisconnectBlock,                *)
(* AcceptToMemoryPool, and a crash followed by LoadBlockIndex.             *)
(*                                                                         *)
(* All of it runs under cs_main, so nothing else interleaves with          *)
(* SetBestChain; it is still cut into steps, one per block and one per     *)
(* database commit, because the process can die between any two of them.   *)
(*                                                                         *)
(* Blocks and transactions are constants: what a hash names never changes. *)
(***************************************************************************)
EXTENDS Integers, Sequences, TxMemPool

CONSTANTS
  Block, Genesis,
  pprev,        \* pprev[b]: the parent block (Genesis is its own)
  nHeight,      \* CBlockIndex::nHeight
  nChainTrust,  \* CBlockIndex::nChainTrust
  vtx,          \* vtx[b]: the block's transactions, in order
  LooseTx,      \* neither coinbase nor coinstake, standard, signed, paying
  BadBlock,     \* ConnectBlock refuses these whatever their inputs
  BLOCK_REORG_MAX_DEPTH, BLOCK_REORG_OVERRIDE_DEPTH, BLOCK_REORG_THRESHOLD,
  nCheckDepth,  \* -checkblocks: the blocks verified at start-up
  DiskMayFail,  \* whether reading a block or a commit may fail
  NULL

(* The transactions of block b, as a set. *)
TxIn(b) == {vtx[b][i] : i \in DOMAIN vtx[b]}

ASSUME BlockAssumption ==
  /\ Genesis \in Block
  /\ pprev \in [Block -> Block]
  /\ pprev[Genesis] = Genesis
  /\ nHeight \in [Block -> Nat]
  /\ nChainTrust \in [Block -> Nat]
  /\ \A b \in Block \ {Genesis} :
        /\ nHeight[b] = nHeight[pprev[b]] + 1
        /\ nChainTrust[b] > nChainTrust[pprev[b]]
  /\ vtx \in [Block -> Seq(Tx)]
  /\ vtx[Genesis] = << >>
  \* CheckBlock: no transaction twice in one block.
  /\ \A b \in Block : \A i, j \in DOMAIN vtx[b] : i # j => vtx[b][i] # vtx[b][j]
  \* AcceptBlock: the coinbase, the one transaction that spends nothing, starts
  \* with the block's height, so no chain holds it twice.
  /\ \A b, c \in Block : \A t \in TxIn(b) \cap TxIn(c) :
        vin[t] = {} => nHeight[b] = nHeight[c]
  /\ LooseTx \subseteq {t \in Tx : vin[t] # {}}
  /\ BadBlock \subseteq Block \ {Genesis}
  /\ BLOCK_REORG_MAX_DEPTH \in Nat
  /\ BLOCK_REORG_OVERRIDE_DEPTH \in Nat
  /\ BLOCK_REORG_THRESHOLD \in Nat
  /\ nCheckDepth \in Nat
  /\ DiskMayFail \in BOOLEAN
  /\ NULL \notin Block /\ NULL \notin Tx

VARIABLES
  \* CTxDB, on disk
  disk,          \* the committed database
  batch,         \* the pending batch of the open transaction, applied to disk
  \* memory
  mapBlockIndex, \* blocks in the in-memory block index
  stub,          \* those of them that InsertBlockIndex made without a record
  pindexBest,    \* the best block (hashBestChain, nBestChainTrust follow it)
  pnext,         \* CBlockIndex::pnext
  mempool,
  \* where SetBestChain is, and its locals
  pc,
  pindexNew,     \* the block SetBestChain was called for
  pindexIntermediate,
  tip,           \* the last block connected, or the next to disconnect
  preorgmax,     \* blocks above this height have their transactions resurrected
  vDisconnect,   \* blocks disconnected so far
  vResurrect, vDelete,
  \* history: the transactions a lock or the clock kept out in this Reorganize,
  \* and whether a failed connect was swallowed by SetBestChain
  barred, fSwallowed

memory == <<mapBlockIndex, stub, pindexBest, pnext, mempool>>
locals == <<pindexNew, pindexIntermediate, tip, preorgmax,
            vDisconnect, vResurrect, vDelete, barred>>
vars == <<disk, batch, memory, pc, locals, fSwallowed>>

-----------------------------------------------------------------------------
(* The block tree. *)

(* b and all its ancestors: the least set holding b and closed under pprev. *)
Ancestors ==
  [b \in Block |->
     {a \in Block : \A S \in SUBSET Block :
                       (b \in S /\ \A c \in S : pprev[c] \in S) => a \in S}]

(* The child of t on the way to b, for t an ancestor of b. *)
NextTowards(t, b) == CHOOSE c \in Ancestors[b] \ {Genesis} : pprev[c] = t

-----------------------------------------------------------------------------
(* The database.  tx: the transactions with a CTxIndex entry; spent[o]: the *)
(* vSpent entry of outpoint o (NULL when unspent or when txOf[o] has no     *)
(* entry); next: CDiskBlockIndex::hashNext; best: the hashBestChain record. *)

DB == [blocks : SUBSET Block, best : Block, next : [Block -> Block \cup {NULL}],
       tx : SUBSET Tx, spent : [OutPoint -> Tx \cup {NULL}]]

(* The transactions of b before position i: mapQueuedChanges when             *)
(* ConnectBlock reaches vtx[i].                                               *)
Before(b, i) == {vtx[b][j] : j \in {k \in DOMAIN vtx[b] : k < i}}

(* FetchInputs and ConnectInputs for vtx[i]: each input has an index entry, on *)
(* disk or in the queued changes, and its vSpent entry there is null.          *)
ConnectInputsOK(db, b, i) ==
  \A o \in vin[vtx[b][i]] :
     /\ txOf[o] \in db.tx \cup Before(b, i)
     /\ o \notin SpentBy(Before(b, i))
     /\ txOf[o] \in Before(b, i) \/ db.spent[o] = NULL

ConnectBlockOK(db, b) ==
  b \notin BadBlock /\ \A i \in DOMAIN vtx[b] : ConnectInputsOK(db, b, i)

(* CBlock::ConnectBlock: the queued changes are written, every transaction   *)
(* of the block gets a fresh entry, and pprev's record is written with its   *)
(* hashNext pointing to b.                                                   *)
ConnectBlock(db, b) ==
  [db EXCEPT
     !.blocks = db.blocks \cup {pprev[b]},
     !.tx    = db.tx \cup TxIn(b),
     !.spent = [o \in OutPoint |->
                  IF o \in SpentBy(TxIn(b))
                    THEN CHOOSE t \in TxIn(b) : o \in vin[t]
                    ELSE IF txOf[o] \in TxIn(b) THEN NULL ELSE db.spent[o]],
     !.next  = [db.next EXCEPT ![pprev[b]] = b]]

(* CTransaction::DisconnectInputs fails when an input has no index entry;   *)
(* the transactions after vtx[i] have already been erased.                  *)
DisconnectBlockOK(db, b) ==
  \A i \in DOMAIN vtx[b] : \A o \in vin[vtx[b][i]] :
     txOf[o] \in db.tx \ {vtx[b][j] : j \in {k \in DOMAIN vtx[b] : k > i}}

(* Mutant of DisconnectBlock: the inputs are not released. *)
DisconnectBlockKeepsSpent(db, b) ==
  [db EXCEPT !.blocks = db.blocks \cup {pprev[b]},
             !.tx   = db.tx \ TxIn(b),
             !.next = [db.next EXCEPT ![pprev[b]] = NULL]]

(* CBlock::DisconnectBlock: last transaction first, each releases its inputs *)
(* and loses its entry; pprev's record is written with a null hashNext.      *)
DisconnectBlock(db, b) ==
  [db EXCEPT
     !.blocks = db.blocks \cup {pprev[b]},
     !.tx    = db.tx \ TxIn(b),
     !.spent = [o \in OutPoint |->
                  IF o \in SpentBy(TxIn(b)) \/ txOf[o] \in TxIn(b)
                    THEN NULL ELSE db.spent[o]],
     !.next  = [db.next EXCEPT ![pprev[b]] = NULL]]

WriteHashBestChain(db, b) == [db EXCEPT !.best = b]

-----------------------------------------------------------------------------
(* The memory pool's door. *)

(* AcceptToMemoryPool's checks of the pool and of the index: not in the     *)
(* pool, no input claimed by a pool transaction, not in the index, every    *)
(* input's transaction in the index and unspent there.  Inputs created by   *)
(* pool transactions are not enough.  What else may keep t out (a lock of   *)
(* InstantX on an input, an immature input, the clock, the limit on free    *)
(* transactions) is up to the actions that offer t.                         *)
Acceptable(t) ==
  /\ t \in LooseTx
  /\ t \notin mempool.mapTx
  /\ vin[t] \cap DOMAIN mempool.mapNextTx = {}
  /\ t \notin disk.tx
  /\ \A o \in vin[t] : txOf[o] \in disk.tx /\ disk.spent[o] = NULL

(* AcceptToMemoryPool, from the network ("tx") or the wallet; that it does  *)
(* not happen stands for the other refusals.                                *)
AcceptToMemoryPool(t) ==
  /\ pc = "idle"
  /\ Acceptable(t)
  /\ mempool' = addUnchecked(mempool, t)
  /\ UNCHANGED <<disk, batch, mapBlockIndex, stub, pindexBest, pnext, pc, locals, fSwallowed>>

-----------------------------------------------------------------------------
(* Accepting a block. *)

(* SetBestChain is called for b. *)
CallSetBestChain(b) == pc' = "setbest" /\ pindexNew' = b /\ pindexIntermediate' = b

(* AcceptBlock takes b: its hash is new and its parent known.  The height of  *)
(* a stub is zero, so the height its child's coinbase starts with is wrong.   *)
AcceptBlock(b) ==
  /\ pc = "idle"
  /\ b \notin mapBlockIndex /\ pprev[b] \in mapBlockIndex \ stub

(* AddToBlockIndex: the block enters the index and the database;             *)
(* SetBestChain is called when it has more trust than the best.  A branch    *)
(* that hangs on a stub never becomes the best: its trust counts from the    *)
(* stub, and Reorganize finds no way down from it.                           *)
AddToBlockIndex(b) ==
  /\ AcceptBlock(b)
  /\ mapBlockIndex' = mapBlockIndex \cup {b}
  /\ disk' = [disk EXCEPT !.blocks = @ \cup {b}]
  /\ IF nChainTrust[b] > nChainTrust[pindexBest] /\ Ancestors[b] \cap stub = {}
       THEN CallSetBestChain(b)
       ELSE UNCHANGED <<pc, pindexNew, pindexIntermediate>>
  /\ UNCHANGED <<batch, stub, pindexBest, pnext, mempool, tip, preorgmax,
                 vDisconnect, vResurrect, vDelete, barred, fSwallowed>>

(* AddToBlockIndex when TxnCommit fails: the block stays in the index without  *)
(* a record, and SetBestChain is not called.                                   *)
AddToBlockIndexFails(b) ==
  /\ DiskMayFail
  /\ AcceptBlock(b)
  /\ mapBlockIndex' = mapBlockIndex \cup {b}
  /\ UNCHANGED <<disk, batch, stub, pindexBest, pnext, mempool, pc, locals, fSwallowed>>

(* Mutant of ConnectToBest: the block's transactions stay in the pool. *)
ConnectToBestKeepsPool(b) ==
  /\ disk' = WriteHashBestChain(ConnectBlock(disk, b), b)
  /\ pnext' = [pnext EXCEPT ![pprev[b]] = b]
  /\ UNCHANGED mempool

(* SetBestChainInner's success: commit, link, drop the block's transactions *)
(* from the pool.  Conflicting pool transactions are left alone.            *)
ConnectToBest(b) ==
  /\ disk' = WriteHashBestChain(ConnectBlock(disk, b), b)
  /\ pnext' = [pnext EXCEPT ![pprev[b]] = b]
  /\ mempool' = remove(mempool, TxIn(b))

(* SetBestChain when the new block extends the best one: success. *)
ExtendBestChain ==
  /\ pc = "setbest" /\ pprev[pindexNew] = pindexBest
  /\ ConnectBlockOK(disk, pindexNew)
  /\ ConnectToBest(pindexNew)
  /\ pindexBest' = pindexNew
  /\ pc' = "idle"
  /\ UNCHANGED <<batch, mapBlockIndex, stub, locals, fSwallowed>>

(* ... and failure, of the block or of the commit: the best chain stays. *)
ExtendBestChainFails ==
  /\ pc = "setbest" /\ pprev[pindexNew] = pindexBest
  /\ DiskMayFail \/ ~ConnectBlockOK(disk, pindexNew)
  /\ pc' = "idle"
  /\ UNCHANGED <<disk, batch, memory, locals, fSwallowed>>

-----------------------------------------------------------------------------
(* Reorganize. *)

(* Mutant of Postponable: every block but the first of the branch waits. *)
PostponableAll(b) == pprev[b] \notin Ancestors[pindexBest]

(* The postponed blocks are those whose parent already beats the best chain. *)
Postponable(b) == nChainTrust[pprev[b]] > nChainTrust[pindexBest]

(* SetBestChain when the new block is on another branch: the loop that finds  *)
(* "the first block in the new chain that will cause it to become the new     *)
(* best chain".                                                               *)
Postpone ==
  /\ pc = "setbest" /\ pprev[pindexNew] # pindexBest
  /\ Postponable(pindexIntermediate)
  /\ pindexIntermediate' = pprev[pindexIntermediate]
  /\ UNCHANGED <<disk, batch, memory, pc, pindexNew, tip, preorgmax,
                 vDisconnect, vResurrect, vDelete, barred, fSwallowed>>

(* Reorganize is called for that block. *)
AtReorganize ==
  /\ pc = "setbest" /\ pprev[pindexNew] # pindexBest
  /\ ~Postponable(pindexIntermediate)

(* Reorganize's checks pass.  fDemiPeer stands for                            *)
(* fDemiPeerRelay(GetRelayPeerAddr) && fDemiNodes.                            *)
ReorganizeBegin(fDemiPeer) ==
  LET depth == nHeight[pindexIntermediate] - nHeight[pindexBest]
      deep  == depth > BLOCK_REORG_MAX_DEPTH
  IN  /\ AtReorganize
      /\ deep => fDemiPeer /\ depth <= BLOCK_REORG_THRESHOLD
      /\ tip' = pindexBest
      /\ preorgmax' = nHeight[pindexBest] - BLOCK_REORG_MAX_DEPTH
                        - (IF deep THEN BLOCK_REORG_OVERRIDE_DEPTH ELSE 0)
      /\ vDisconnect' = {} /\ vResurrect' = << >> /\ vDelete' = << >> /\ barred' = {}
      /\ batch' = disk
      /\ pc' = "disconnect"
      /\ UNCHANGED <<disk, memory, pindexNew, pindexIntermediate, fSwallowed>>

(* Reorganize refuses, or one of its blocks does not connect: TxnAbort. *)
Abort ==
  /\ pc' = "idle"
  /\ UNCHANGED <<disk, batch, memory, locals, fSwallowed>>

(* The depth rule (who relayed the block decides), the rolling checkpoint,   *)
(* the branch's supply or, while connecting, Velocity refuse the branch.     *)
ReorganizeRefused ==
  /\ AtReorganize \/ (pc = "connect" /\ tip \notin Ancestors[pindexBest])
  /\ Abort

(* Mutant of Resurrectable: off by one at the height limit. *)
ResurrectableBelow(b) == IF nHeight[b] > preorgmax + 1 THEN vtx[b] ELSE << >>

(* What Reorganize queues of a block it disconnects.  The code skips the     *)
(* coinbase and the coinstake already here; AcceptToMemoryPool refuses both. *)
Resurrectable(b) == IF nHeight[b] > preorgmax THEN vtx[b] ELSE << >>

(* "Disconnect shorter branch": one block, into the batch, until the fork. *)
DisconnectTip ==
  /\ pc = "disconnect" /\ tip \notin Ancestors[pindexIntermediate]
  /\ DisconnectBlockOK(batch, tip)
  /\ batch' = DisconnectBlock(batch, tip)
  /\ vDisconnect' = vDisconnect \cup {tip}
  /\ vResurrect' = Resurrectable(tip) \o vResurrect
  /\ tip' = pprev[tip]
  /\ UNCHANGED <<disk, memory, pc, pindexNew, pindexIntermediate,
                 preorgmax, vDelete, barred, fSwallowed>>

(* ... or the block cannot be read, or not be disconnected. *)
DisconnectTipFails ==
  /\ pc = "disconnect" /\ tip \notin Ancestors[pindexIntermediate]
  /\ DiskMayFail \/ ~DisconnectBlockOK(batch, tip)
  /\ Abort

DisconnectDone ==
  /\ pc = "disconnect" /\ tip \in Ancestors[pindexIntermediate]
  /\ pc' = "connect"
  /\ UNCHANGED <<disk, batch, memory, locals, fSwallowed>>

(* "Connect longer branch": one block, into the batch. *)
ConnectNext ==
  LET b == NextTowards(tip, pindexIntermediate)
  IN  /\ pc = "connect" /\ tip # pindexIntermediate
      /\ ConnectBlockOK(batch, b)
      /\ batch' = ConnectBlock(batch, b)
      /\ vDelete' = vDelete \o vtx[b]
      /\ tip' = b
      /\ UNCHANGED <<disk, memory, pc, pindexNew, pindexIntermediate,
                     preorgmax, vDisconnect, vResurrect, barred, fSwallowed>>

(* ... or the block cannot be read, or does not connect. *)
ConnectNextFails ==
  /\ pc = "connect" /\ tip # pindexIntermediate
  /\ DiskMayFail \/ ~ConnectBlockOK(batch, NextTowards(tip, pindexIntermediate))
  /\ Abort

(* Mutant of Relink: the disconnected branch keeps its links. *)
RelinkKeepsOld(off, on) ==
  [b \in Block |-> IF \E c \in on : pprev[c] = b THEN CHOOSE c \in on : pprev[c] = b
                   ELSE pnext[b]]

(* The in-memory links after the blocks off are disconnected and the blocks  *)
(* on are connected.                                                         *)
Relink(off, on) ==
  [b \in Block |-> IF \E c \in on : pprev[c] = b THEN CHOOSE c \in on : pprev[c] = b
                   ELSE IF \E c \in off : pprev[c] = b THEN NULL ELSE pnext[b]]

(* WriteHashBestChain, TxnCommit, then the in-memory links. *)
ReorganizeCommit ==
  /\ pc = "connect" /\ tip = pindexIntermediate
  /\ disk' = WriteHashBestChain(batch, pindexIntermediate)
  /\ pnext' = Relink(vDisconnect, Ancestors[pindexIntermediate] \ Ancestors[pindexBest])
  /\ pc' = "resurrect"
  /\ UNCHANGED <<batch, mapBlockIndex, stub, pindexBest, mempool, locals, fSwallowed>>

(* ... or TxnCommit fails. *)
ReorganizeCommitFails ==
  /\ DiskMayFail
  /\ pc = "connect" /\ tip = pindexIntermediate
  /\ Abort

(* "Resurrect memory transactions that were in the disconnected branch": each  *)
(* is offered to AcceptToMemoryPool, which a lock of InstantX on one of its    *)
(* inputs, or a clock that is behind the time of its block, can make refuse it. *)
(* Depths and heights are still counted from the old best block, on whose      *)
(* chain the transaction was confirmed, and there is no limit on free          *)
(* transactions here.                                                          *)
Resurrect ==
  /\ pc = "resurrect"
  /\ \/ /\ vResurrect = << >>
        /\ pc' = "delete"
        /\ UNCHANGED <<mempool, vResurrect, barred>>
     \/ /\ vResurrect # << >>
        /\ \/ /\ Acceptable(Head(vResurrect))
              /\ mempool' = addUnchecked(mempool, Head(vResurrect))
              /\ UNCHANGED barred
           \/ /\ Acceptable(Head(vResurrect))
              /\ barred' = barred \cup {Head(vResurrect)}
              /\ UNCHANGED mempool
           \/ ~Acceptable(Head(vResurrect)) /\ UNCHANGED <<mempool, barred>>
        /\ vResurrect' = Tail(vResurrect)
        /\ UNCHANGED pc
  /\ UNCHANGED <<disk, batch, mapBlockIndex, stub, pindexBest, pnext, pindexNew,
                 pindexIntermediate, tip, preorgmax, vDisconnect, vDelete, fSwallowed>>

(* "Delete redundant memory transactions that are in the connected branch". *)
Delete ==
  /\ pc = "delete"
  /\ IF vDelete = << >>
       THEN pc' = "secondary" /\ UNCHANGED <<mempool, vDelete>>
       ELSE /\ mempool' = removeConflicts(remove(mempool, {Head(vDelete)}), Head(vDelete))
            /\ vDelete' = Tail(vDelete)
            /\ UNCHANGED pc
  /\ UNCHANGED <<disk, batch, mapBlockIndex, stub, pindexBest, pnext, pindexNew,
                 pindexIntermediate, tip, preorgmax, vDisconnect, vResurrect, barred,
                 fSwallowed>>

-----------------------------------------------------------------------------
(* SetBestChain after Reorganize: "Connect further blocks". *)

ConnectSecondary ==
  LET b == NextTowards(tip, pindexNew)
  IN  /\ pc = "secondary" /\ tip # pindexNew
      /\ ConnectBlockOK(disk, b)
      /\ ConnectToBest(b)
      /\ tip' = b
      /\ UNCHANGED <<batch, mapBlockIndex, stub, pindexBest, pc, pindexNew, pindexIntermediate,
                     preorgmax, vDisconnect, vResurrect, vDelete, barred, fSwallowed>>

(* "errors now are not fatal": the block cannot be read, does not connect or   *)
(* is not committed; the loop breaks and the block SetBestChain was called     *)
(* for becomes the best block in memory all the same.                          *)
ConnectSecondaryFails ==
  /\ pc = "secondary" /\ tip # pindexNew
  /\ DiskMayFail \/ ~ConnectBlockOK(disk, NextTowards(tip, pindexNew))
  /\ pindexBest' = pindexNew
  /\ fSwallowed' = TRUE
  /\ pc' = "idle"
  /\ UNCHANGED <<disk, batch, mapBlockIndex, stub, pnext, mempool, locals>>

(* "New best block". *)
SetBestChainDone ==
  /\ pc = "secondary" /\ tip = pindexNew
  /\ pindexBest' = pindexNew
  /\ pc' = "idle"
  /\ UNCHANGED <<disk, batch, mapBlockIndex, stub, pnext, mempool, locals, fSwallowed>>

-----------------------------------------------------------------------------
(* The process dies anywhere: the batch and all memory are lost. *)
Crash ==
  /\ pc # "down"
  /\ pc' = "down"
  /\ mempool' = EmptyPool
  /\ UNCHANGED <<disk, batch, mapBlockIndex, stub, pindexBest, pnext, locals, fSwallowed>>

(* Every block of the best chain on disk has its record. *)
Recorded == Ancestors[disk.best] \subseteq disk.blocks

(* InsertBlockIndex is called for every block that has a record, and for the *)
(* hashPrev and the hashNext of that record.                                 *)
InsertBlockIndex ==
  disk.blocks \cup {pprev[b] : b \in disk.blocks}
    \cup ({disk.next[b] : b \in disk.blocks} \ {NULL})

(* The blocks that LoadBlockIndex verifies, down from the best one. *)
Verified ==
  {b \in Ancestors[disk.best] \ {Genesis} : nHeight[b] >= nHeight[disk.best] - nCheckDepth}

(* CTxDB::LoadBlockIndex: the block index and the best chain pointer come    *)
(* back from disk.  Blocks with more trust than the best are not connected.  *)
(* The last blocks are verified, by rules that read the clock and what the   *)
(* masternodes say, so any of them may be found bad: the parent of the       *)
(* lowest one is pindexFork, and SetBestChain is called for it.              *)
(* Bound: there is no restart when a block of the best chain has no record;  *)
(* LoadBlockIndex would take an empty entry for it.                          *)
LoadBlockIndex ==
  /\ pc = "down" /\ Recorded
  /\ mapBlockIndex' = InsertBlockIndex
  /\ stub' = mapBlockIndex' \ disk.blocks
  /\ pindexBest' = disk.best
  /\ pnext' = disk.next
  /\ \/ pc' = "idle" /\ UNCHANGED <<pindexNew, pindexIntermediate>>
     \/ \E b \in Verified : CallSetBestChain(pprev[b])
  /\ UNCHANGED <<disk, batch, mempool, tip, preorgmax, vDisconnect, vResurrect,
                 vDelete, barred, fSwallowed>>

-----------------------------------------------------------------------------
GenesisDB == [blocks |-> {Genesis}, best |-> Genesis,
              next |-> [b \in Block |-> NULL],
              tx |-> {}, spent |-> [o \in OutPoint |-> NULL]]

Init ==
  /\ disk = GenesisDB /\ batch = GenesisDB
  /\ mapBlockIndex = {Genesis} /\ stub = {} /\ pindexBest = Genesis
  /\ pnext = [b \in Block |-> NULL]
  /\ mempool = EmptyPool
  /\ pc = "idle"
  /\ pindexNew = Genesis /\ pindexIntermediate = Genesis /\ tip = Genesis
  /\ preorgmax = 0
  /\ vDisconnect = {} /\ vResurrect = << >> /\ vDelete = << >>
  /\ barred = {} /\ fSwallowed = FALSE

Reorganize ==
  \/ \E fDemiPeer \in BOOLEAN : ReorganizeBegin(fDemiPeer)
  \/ ReorganizeRefused
  \/ DisconnectTip \/ DisconnectTipFails \/ DisconnectDone
  \/ ConnectNext \/ ConnectNextFails
  \/ ReorganizeCommit \/ ReorganizeCommitFails \/ Resurrect \/ Delete

SetBestChain ==
  \/ ExtendBestChain \/ ExtendBestChainFails
  \/ Postpone
  \/ Reorganize
  \/ ConnectSecondary \/ ConnectSecondaryFails \/ SetBestChainDone

Next ==
  \/ \E t \in Tx : AcceptToMemoryPool(t)
  \/ \E b \in Block : AddToBlockIndex(b) \/ AddToBlockIndexFails(b)
  \/ SetBestChain
  \/ Crash \/ LoadBlockIndex

Spec == Init /\ [][Next]_vars

-----------------------------------------------------------------------------
(* Properties. *)

Steps == {"idle", "setbest", "disconnect", "connect", "resurrect", "delete",
          "secondary", "down"}

(* The pool's index points from outpoints to transactions. *)
PoolOK(pool) ==
  /\ pool.mapTx \subseteq Tx
  /\ DOMAIN pool.mapNextTx \subseteq OutPoint
  /\ pool = [mapTx |-> pool.mapTx, mapNextTx |-> pool.mapNextTx]
  /\ pool.mapNextTx \in [DOMAIN pool.mapNextTx -> Tx]

(* Type correctness of the database, the block index and SetBestChain's locals. *)
TypeOK ==
  /\ disk \in DB /\ batch \in DB
  /\ mapBlockIndex \in SUBSET Block /\ stub \in SUBSET Block /\ pindexBest \in Block
  /\ pnext \in [Block -> Block \cup {NULL}]
  /\ PoolOK(mempool)
  /\ pc \in Steps
  /\ pindexNew \in Block /\ pindexIntermediate \in Block /\ tip \in Block
  /\ preorgmax \in Int
  /\ vDisconnect \in SUBSET Block
  /\ vResurrect \in Seq(Tx) /\ vDelete \in Seq(Tx)
  /\ barred \in SUBSET Tx /\ fSwallowed \in BOOLEAN

(* The transactions confirmed by the chain that ends in b. *)
ChainTx(b) == UNION {TxIn(a) : a \in Ancestors[b]}

(* db is what connecting the chain that ends in b, block by block, leaves. *)
DescribesChain(db, b) ==
  /\ db.tx = ChainTx(b)
  /\ \A o \in OutPoint :
        \A t \in Tx : db.spent[o] = t <=> (t \in ChainTx(b) /\ o \in vin[t])

(* The hashNext links of the blocks lead along the chain that ends in b and  *)
(* nowhere else.                                                             *)
LinksChain(next, b) ==
  \A a, c \in Block : next[a] = c <=>
     (c \in Ancestors[b] \ {Genesis} /\ pprev[c] = a)

(* The blocks under b have a record, also those whose first write failed. *)
RecordedBelow(db, b) == Ancestors[b] \ {b} \subseteq db.blocks

(* CTxDB: whatever is committed, and wherever the process dies, the index of   *)
(* the database is exactly the outcome of the chain its hashBestChain names:   *)
(* no transaction of an abandoned branch is left in it, no spent flag is lost, *)
(* and the records lead from hashBestChain down to the genesis block.          *)
(* It can only be lost after SetBestChain has swallowed a failed connect.      *)
IndexMatchesBestChain ==
  ~fSwallowed =>
    /\ DescribesChain(disk, disk.best) /\ LinksChain(disk.next, disk.best)
    /\ RecordedBelow(disk, disk.best)

(* Between two calls of SetBestChain memory and disk agree on the best chain   *)
(* and its links, unless a failed connect was swallowed; the block index in    *)
(* memory knows every block on disk and is ahead of it only by blocks that are *)
(* not below the best one, those whose write in AddToBlockIndex failed.        *)
MemoryMatchesDisk ==
  (pc = "idle" /\ ~fSwallowed) =>
     /\ pindexBest = disk.best /\ pnext = disk.next
     /\ disk.blocks \subseteq mapBlockIndex
     /\ (mapBlockIndex \ disk.blocks) \cap Ancestors[pindexBest] \subseteq {pindexBest}

(* AddToBlockIndex: "Write to disk block index": the block the database calls  *)
(* the best has its record.                                                    *)
BestBlockIsRecorded == disk.best \in disk.blocks

(* SetBestChain, "errors now are not fatal, we still did a reorganisation to a *)
(* new chain in a valid way": the best block in memory is the one on disk.     *)
BestBlockIsConnected == pc = "idle" => pindexBest = disk.best

(* No two pool transactions spend the same output, and mapNextTx names for     *)
(* every input of the pool exactly its spender, across reorganisations.        *)
PoolIndexExact ==
  /\ DOMAIN mempool.mapNextTx = SpentBy(mempool.mapTx)
  /\ \A t \in mempool.mapTx : \A o \in vin[t] : mempool.mapNextTx[o] = t

(* Between two calls of SetBestChain no pool transaction is already confirmed. *)
PoolNotInChain == pc = "idle" => mempool.mapTx \cap disk.tx = {}

(* txmempool.h: "CTxMemPool stores valid-according-to-the-current-best-chain   *)
(* transactions": the inputs of a pool transaction are unspent outputs.        *)
PoolValidOnBestChain ==
  pc = "idle" => \A t \in mempool.mapTx : \A o \in vin[t] :
                    txOf[o] \in disk.tx /\ disk.spent[o] = NULL

(* t could be mined on the chain on disk. *)
Spendable(t) ==
  t \notin disk.tx /\ \A o \in vin[t] : txOf[o] \in disk.tx /\ disk.spent[o] = NULL

(* ... but it is neither in the pool nor in conflict with a pool transaction. *)
Lost(t) ==
  /\ t \in LooseTx /\ Spendable(t)
  /\ t \notin mempool.mapTx
  /\ vin[t] \cap DOMAIN mempool.mapNextTx = {}

(* This step takes from the pool a transaction that claimed an input of t and   *)
(* that the new chain does not allow.                                           *)
Displaced(t) ==
  \E u \in mempool.mapTx \ mempool'.mapTx : u # t /\ vin[u] \cap vin[t] # {} /\ ~Spendable(u)

(* Reorganize brings the transactions of the blocks it disconnects, above        *)
(* preorgmax, back: once all are offered to the pool none is lost but those a    *)
(* lock of InstantX or the clock barred, and what it then deletes loses one only *)
(* by taking away the pool transaction that had kept it out (a conflict older    *)
(* than the reorganisation).                                                     *)
RecentTxResurrected ==
  [][\A b \in vDisconnect : nHeight[b] > preorgmax => \A t \in TxIn(b) :
        /\ pc = "resurrect" /\ pc' = "delete" => ~Lost(t) \/ t \in barred
        /\ pc = "delete" /\ pc' # "down" /\ ~fSwallowed /\ Lost(t)' => Lost(t) \/ Displaced(t)]_vars

ReorganizeDone == pc = "secondary" /\ tip = pindexIntermediate

(* Reorganize's comment: "Resurrect memory transactions that were in the          *)
(* disconnected branch": a disconnected transaction that is still spendable on    *)
(* the new chain is in the pool in the end, for the blocks above preorgmax.       *)
AllRecentTxResurrected ==
  ReorganizeDone =>
    \A b \in vDisconnect : nHeight[b] > preorgmax => \A t \in TxIn(b) : Lost(t) => t \in barred

(* Reorganize's comment: "We only do this for blocks after the last checkpoint": *)
(* no block a reorganisation can reach is older than that.                       *)
DisconnectedTxResurrected ==
  ReorganizeDone => \A b \in vDisconnect : \A t \in TxIn(b) : Lost(t) => t \in barred

(* Every commit, a crash between Reorganize and the postponed blocks included, *)
(* leaves a best chain on disk with no less trust than the one before, unless  *)
(* it goes back to an ancestor of the best block in one commit and SetBestChain *)
(* was called for that ancestor, which only LoadBlockIndex does.               *)
DiskTrustDropsOnlyBack ==
  [][\/ nChainTrust[disk'.best] >= nChainTrust[disk.best]
     \/ disk'.best = pindexNew /\ pindexNew \in Ancestors[disk.best]]_vars
=============================================================================
