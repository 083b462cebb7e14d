------------------------------ MODULE InstantX ------------------------------
(***************************************************************************)
(* InstantX (instantx.cpp): transaction locks.  A request (txlreq) names a *)
(* transaction; masternodes vote for it (txlvote); a lock with enough      *)
(* votes of its own height is complete and holds the transaction's inputs  *)
(* in mapLockedInputs, which the memory pool and CheckBlock consult.       *)
(*                                                                         *)
(* Time is relative: nExpiration is what is left until the lock expires.   *)
(* The memory pool and the chain are reduced to what locks and requests    *)
(* ask of them.  Left out: the relay of votes and mapUnknownVotes, which   *)
(* decides only whether a vote is relayed; SPORK_2 and SPORK_3 are on.     *)
(***************************************************************************)
EXTENDS Integers, FiniteSetsExt

CONSTANTS
  Tx, OutPoint,
  vin,           \* vin[t]: the outpoints t spends
  WalletTx,      \* transactions of this node's wallet
  Masternode,
  Self,          \* this node's masternode
  VoteHeight,    \* heights a vote may name
  LockHeight,    \* the height CreateNewLock computes
  EXPIRATION,    \* lifetime of a lock, in ticks
  INSTANTX_SIGNATURES_REQUIRED

ASSUME InstantXAssumption ==
  /\ vin \in [Tx -> SUBSET OutPoint]
  /\ WalletTx \subseteq Tx
  /\ Self \in Masternode
  /\ VoteHeight \subseteq Nat \ {0} /\ LockHeight \in VoteHeight
  /\ EXPIRATION \in Nat
  /\ INSTANTX_SIGNATURES_REQUIRED \in Nat \ {0}

VARIABLES
  mapTxLockReq,          \* transactions with an accepted request
  emptyReq,              \* those of them whose entry is an empty transaction
  mapTxLockReqRejected,  \* transactions with a rejected request
  mapTxLockVote,         \* votes seen: <<masternode, transaction>>
  mapTxLocks,            \* transaction |-> lock
  mapLockedInputs,       \* outpoint |-> transaction
  pool,                  \* the memory pool
  chain,                 \* transactions in the active chain
  fAborted               \* the process has died

lockVars == <<mapTxLockReq, emptyReq, mapTxLockReqRejected, mapTxLockVote, mapTxLocks, mapLockedInputs>>
vars == <<lockVars, pool, chain, fAborted>>

(* A lock; votes[m][h] counts the entries of vecConsensusVotes, whose order *)
(* nothing depends on.                                                      *)
Lock == [nBlockHeight : VoteHeight \cup {0},
         votes : [Masternode -> [VoteHeight -> Nat]],
         nExpiration : -1..EXPIRATION]

Conflict(t, u) == t # u /\ vin[t] \cap vin[u] # {}

-----------------------------------------------------------------------------
NewLock(h) == [nBlockHeight |-> h, nExpiration |-> EXPIRATION,
               votes |-> [m \in Masternode |-> [g \in VoteHeight |-> 0]]]

With(map, k, v) == [x \in DOMAIN map \cup {k} |-> IF x = k THEN v ELSE map[x]]

Without(map, S) == [x \in DOMAIN map \ S |-> map[x]]

(* Mutant of CreateNewLock: a repeated request renews the lock. *)
CreateNewLockRenews(locks, t, h) ==
  IF h = 0 THEN locks
  ELSE IF t \in DOMAIN locks
    THEN [locks EXCEPT ![t].nBlockHeight = h, ![t].nExpiration = EXPIRATION]
    ELSE With(locks, t, NewLock(h))

(* CreateNewLock; h = 0 when an input is less than nine blocks deep. *)
CreateNewLock(locks, t, h) ==
  IF h = 0 THEN locks
  ELSE IF t \in DOMAIN locks THEN [locks EXCEPT ![t].nBlockHeight = h]
                             ELSE With(locks, t, NewLock(h))

(* CTransactionLock::CountSignatures *)
CountSignatures(lock) ==
  IF lock.nBlockHeight = 0 THEN -1
  ELSE MapThenSumSet(LAMBDA m : lock.votes[m][lock.nBlockHeight], Masternode)

Complete(locks, t) ==
  t \in DOMAIN locks /\ CountSignatures(locks[t]) >= INSTANTX_SIGNATURES_REQUIRED

AddSignature(locks, m, t, h) == [locks EXCEPT ![t].votes[m][h] = @ + 1]

(* Transactions whose locks hold inputs of t. *)
Rivals(inputs, t) == {inputs[o] : o \in vin[t] \cap DOMAIN inputs} \ {t}

(* CheckForConflictingLocks stops at the first rival it meets; t's lock and *)
(* that one's are to expire.                                                *)
ExpireConflicting(locks, t, u) ==
  [x \in DOMAIN locks |-> IF x \in {t, u} THEN [locks[x] EXCEPT !.nExpiration = 0] ELSE locks[x]]

(* The inputs of t that are free become locked by t. *)
LockInputs(inputs, t) ==
  [o \in DOMAIN inputs \cup vin[t] |-> IF o \in DOMAIN inputs THEN inputs[o] ELSE t]

(* AcceptToMemoryPool, as far as locks and double spends decide it. *)
Acceptable(t) ==
  /\ t \notin pool \cup chain
  /\ Rivals(mapLockedInputs, t) = {}
  /\ \A u \in pool \cup chain : ~Conflict(t, u)

-----------------------------------------------------------------------------
(* A transaction arrives by other means than a lock request. *)
AcceptTx(t) ==
  /\ ~fAborted
  /\ Acceptable(t)
  /\ pool' = pool \cup {t}
  /\ UNCHANGED <<lockVars, chain, fAborted>>

(* A block with t is connected: CheckBlock refuses it if another transaction *)
(* has locked an input.  Only a reorganization drops t's rivals from the pool. *)
ConnectBlock(t, reorganize) ==
  /\ ~fAborted
  /\ t \notin chain
  /\ \A u \in chain : ~Conflict(t, u)
  /\ Rivals(mapLockedInputs, t) = {}
  /\ chain' = chain \cup {t}
  /\ pool' = {u \in pool \ {t} : reorganize => ~Conflict(t, u)}
  /\ UNCHANGED <<lockVars, fAborted>>

(* This node's own vote, if it is a masternode of high enough rank (vote); it *)
(* is recorded as seen and not added to the lock.                             *)
DoConsensusVote(t, vote) ==
  mapTxLockVote' = mapTxLockVote \cup (IF vote THEN {<<Self, t>>} ELSE {})

(* "txlreq" accepted: CreateNewLock, AcceptToMemoryPool, DoConsensusVote. *)
TxLockRequestAccepted(t, h, vote) ==
  /\ ~fAborted
  /\ t \notin mapTxLockReq \cup mapTxLockReqRejected
  /\ Acceptable(t)
  /\ mapTxLocks' = CreateNewLock(mapTxLocks, t, h)
  /\ pool' = pool \cup {t}
  /\ DoConsensusVote(t, vote)
  /\ mapTxLockReq' = mapTxLockReq \cup {t}
  /\ UNCHANGED <<emptyReq, mapTxLockReqRejected, mapLockedInputs, chain, fAborted>>

(* "txlreq" rejected, for a conflict or a reason of its own (other).  With a  *)
(* complete lock it calls DisconnectBlock with a block index pointer that was *)
(* never set, on a database opened read-only: it aborts, unless the pointer's *)
(* garbage has a null pprev and no index entry is found for t's inputs.       *)
TxLockRequestRejected(t, h, other) ==
  /\ ~fAborted
  /\ t \notin mapTxLockReq \cup mapTxLockReqRejected
  /\ other \/ ~Acceptable(t)
  /\ mapTxLockReqRejected' = mapTxLockReqRejected \cup {t}
  /\ mapLockedInputs' = LockInputs(mapLockedInputs, t)
  /\ LET locks == CreateNewLock(mapTxLocks, t, h)
     IN  IF ~Complete(locks, t)
           THEN mapTxLocks' = locks /\ fAborted' = FALSE
           ELSE \/ /\ Rivals(mapLockedInputs', t) = {}
                   /\ mapTxLocks' = locks
                   /\ fAborted' \in BOOLEAN
                \/ \E u \in Rivals(mapLockedInputs', t) :
                     mapTxLocks' = ExpireConflicting(locks, t, u) /\ fAborted' = FALSE
  /\ UNCHANGED <<mapTxLockReq, emptyReq, mapTxLockVote, pool, chain>>

(* CWalletTx::RelayWalletTransaction with "txlreq", for a transaction at depth 0: *)
(* a complete lock would count as confirmations.                              *)
RelayWalletTransaction(t, h) ==
  /\ ~fAborted
  /\ t \in (WalletTx \cap pool) \ chain
  /\ ~Complete(mapTxLocks, t)
  /\ mapTxLockReq' = mapTxLockReq \cup {t}
  /\ mapTxLocks' = CreateNewLock(mapTxLocks, t, h)
  /\ UNCHANGED <<emptyReq, mapTxLockReqRejected, mapTxLockVote, mapLockedInputs, pool, chain, fAborted>>

(* Mutant of NewVote: every delivery is processed. *)
NewVoteAlways(m, t) == TRUE

(* "txlvote" returns early for a vote it has seen. *)
NewVote(m, t) == <<m, t>> \notin mapTxLockVote

(* A vote of an unknown or low-ranked masternode, or with a bad signature: it *)
(* has been recorded as seen and is not counted.                              *)
TxLockVoteRefused(m, t) ==
  /\ ~fAborted
  /\ NewVote(m, t)
  /\ mapTxLockVote' = mapTxLockVote \cup {<<m, t>>}
  /\ UNCHANGED <<mapTxLockReq, emptyReq, mapTxLockReqRejected, mapTxLocks, mapLockedInputs, pool, chain, fAborted>>

(* A vote ahead of its request opens a lock of height 0. *)
LocksWith(t) ==
  IF t \in DOMAIN mapTxLocks THEN mapTxLocks ELSE With(mapTxLocks, t, NewLock(0))

(* A valid vote (ProcessConsensusVote).  mapTxLockReq[t] is read by operator[]: *)
(* for an unknown or rejected request it inserts an empty transaction, which    *)
(* conflicts with nothing and locks nothing, whatever request comes later;      *)
(* DisconnectInputs of it aborts.                                               *)
TxLockVote(m, t, h) ==
  /\ ~fAborted
  /\ NewVote(m, t)
  /\ mapTxLockVote' = mapTxLockVote \cup {<<m, t>>}
  /\ LET locks == AddSignature(LocksWith(t), m, t, h)
         full  == t \in mapTxLockReq \ emptyReq
     IN  IF ~Complete(locks, t)
           THEN /\ mapTxLocks' = locks
                /\ UNCHANGED <<mapTxLockReq, emptyReq, mapLockedInputs, fAborted>>
           ELSE \/ /\ ~full
                   /\ mapTxLockReq' = mapTxLockReq \cup {t}
                   /\ emptyReq' = emptyReq \cup {t}
                   /\ mapTxLocks' = locks
                   /\ fAborted' \in BOOLEAN /\ (fAborted' <=> t \in mapTxLockReqRejected)
                   /\ UNCHANGED mapLockedInputs
                \/ /\ full
                   /\ \E u \in Rivals(mapLockedInputs, t) : mapTxLocks' = ExpireConflicting(locks, t, u)
                   /\ UNCHANGED <<mapTxLockReq, emptyReq, mapLockedInputs, fAborted>>
                \/ /\ full
                   /\ Rivals(mapLockedInputs, t) = {}
                   /\ mapTxLocks' = locks
                   /\ mapLockedInputs' = LockInputs(mapLockedInputs, t)
                   /\ fAborted' \in BOOLEAN /\ (fAborted' => t \in mapTxLockReqRejected)
                   /\ UNCHANGED <<mapTxLockReq, emptyReq>>
  /\ UNCHANGED <<mapTxLockReqRejected, pool, chain>>

Expired == {t \in DOMAIN mapTxLocks : mapTxLocks[t].nExpiration < 0}

(* Mutant of ReleasedInputs: the inputs stay locked. *)
ReleasedInputsNone(S) == {}

(* Mutant of ReleasedInputs: of a request's inputs only one is given up. *)
ReleasedInputsFirst(S) == {CHOOSE o \in vin[t] : TRUE : t \in S}

(* The inputs expired requests give up, whoever locked them. *)
ReleasedInputs(S) == UNION {vin[t] : t \in S}

(* CleanTransactionLocksList: a lock without an accepted request is dropped alone. *)
CleanTransactionLocksList ==
  LET requested == Expired \cap mapTxLockReq
  IN  /\ ~fAborted
      /\ Expired # {}
      /\ mapTxLocks' = Without(mapTxLocks, Expired)
      /\ mapLockedInputs' = Without(mapLockedInputs, ReleasedInputs(requested \ emptyReq))
      /\ mapTxLockReq' = mapTxLockReq \ requested
      /\ emptyReq' = emptyReq \ requested
      /\ mapTxLockReqRejected' = mapTxLockReqRejected \ requested
      /\ mapTxLockVote' = {v \in mapTxLockVote :
                             ~ /\ v[2] \in requested
                               /\ \E h \in VoteHeight : mapTxLocks[v[2]].votes[v[1]][h] > 0}
      /\ UNCHANGED <<pool, chain, fAborted>>

(* Time passes. *)
Tick ==
  /\ ~fAborted
  /\ \E t \in DOMAIN mapTxLocks : mapTxLocks[t].nExpiration >= 0
  /\ mapTxLocks' = [t \in DOMAIN mapTxLocks |->
                      [mapTxLocks[t] EXCEPT !.nExpiration = IF @ >= 0 THEN @ - 1 ELSE @]]
  /\ UNCHANGED <<mapTxLockReq, emptyReq, mapTxLockReqRejected, mapTxLockVote, mapLockedInputs, pool, chain, fAborted>>

(* The maps and the pool live in memory only. *)
Restart ==
  /\ mapTxLockReq' = {} /\ emptyReq' = {} /\ mapTxLockReqRejected' = {} /\ mapTxLockVote' = {}
  /\ mapTxLocks' = [t \in {} |-> NewLock(0)]
  /\ mapLockedInputs' = [o \in {} |-> o]
  /\ pool' = {}
  /\ fAborted' = FALSE
  /\ UNCHANGED chain

-----------------------------------------------------------------------------
Init ==
  /\ mapTxLockReq = {} /\ emptyReq = {} /\ mapTxLockReqRejected = {} /\ mapTxLockVote = {}
  /\ mapTxLocks = [t \in {} |-> NewLock(0)]
  /\ mapLockedInputs = [o \in {} |-> o]
  /\ pool = {} /\ chain = {}
  /\ fAborted = FALSE

Next ==
  \/ \E t \in Tx :
       \/ AcceptTx(t)
       \/ \E reorganize \in BOOLEAN : ConnectBlock(t, reorganize)
       \/ \E h \in {0, LockHeight} :
            \/ \E vote \in BOOLEAN : TxLockRequestAccepted(t, h, vote)
            \/ \E other \in BOOLEAN : TxLockRequestRejected(t, h, other)
            \/ RelayWalletTransaction(t, h)
       \/ \E m \in Masternode : TxLockVoteRefused(m, t) \/ \E h \in VoteHeight : TxLockVote(m, t, h)
  \/ CleanTransactionLocksList
  \/ Tick
  \/ Restart

Spec == Init /\ [][Next]_vars

(* ThreadCheckMNenginePool cleans the locks every minute; clocks advance. *)
FairSpec == Spec /\ WF_vars(CleanTransactionLocksList) /\ WF_vars(Tick) /\ WF_vars(fAborted /\ Restart)

-----------------------------------------------------------------------------
(* Types of the maps. *)
TypeOK ==
  /\ mapTxLockReq \subseteq Tx /\ emptyReq \subseteq mapTxLockReq /\ mapTxLockReqRejected \subseteq Tx
  /\ mapTxLockVote \subseteq Masternode \X Tx
  /\ DOMAIN mapTxLocks \subseteq Tx /\ \A t \in DOMAIN mapTxLocks : mapTxLocks[t] \in Lock
  /\ DOMAIN mapLockedInputs \subseteq OutPoint /\ \A o \in DOMAIN mapLockedInputs : mapLockedInputs[o] \in Tx
  /\ pool \subseteq Tx /\ chain \subseteq Tx /\ fAborted \in BOOLEAN

VotesOf(t, m) == {h \in VoteHeight : mapTxLocks[t].votes[m][h] > 0}

(* No masternode counts twice towards a lock (CountSignatures counts entries of   *)
(* vecConsensusVotes, and only mapTxLockVote keeps a masternode from being there  *)
(* twice), across redelivery, expiry, cleaning and a new request.                 *)
OneVotePerMasternode ==
  \A t \in DOMAIN mapTxLocks, m \in Masternode :
    \A h \in VotesOf(t, m) : /\ mapTxLocks[t].votes[m][h] = 1
                             /\ VotesOf(t, m) = {h}
                             /\ <<m, t>> \in mapTxLockVote

(* A locked input belongs to a transaction that spends it and whose request the   *)
(* node still remembers; unless that request was rejected, its lock is still in   *)
(* mapTxLocks, from where CleanTransactionLocksList will find and release it.     *)
LockOwnerRequested ==
  \A o \in DOMAIN mapLockedInputs :
    LET t == mapLockedInputs[o]
    IN  /\ o \in vin[t]
        /\ t \in mapTxLockReq \cup mapTxLockReqRejected
        /\ t \notin mapTxLockReqRejected => t \in DOMAIN mapTxLocks

HoldsInput(t) == \E o \in DOMAIN mapLockedInputs : mapLockedInputs[o] = t

(* A transaction whose request was not rejected does not hold inputs for ever:    *)
(* CleanTransactionLocksList gives all of them back, although votes, conflicting  *)
(* requests and repeated requests of the wallet keep touching its lock.  (For a   *)
(* rejected request that has no lock nothing does: ExpiryReleasesInputs.)         *)
HoldEnds == \A t \in Tx : []<>(HoldsInput(t) => t \in mapTxLockReqRejected)

(* Every lock is dropped some day: neither further votes nor further requests     *)
(* for the transaction prolong it.                                                *)
LocksExpire == \A t \in Tx : []<>(t \notin DOMAIN mapTxLocks)

(* "only reject blocks when it's based on complete consensus" (CheckBlock): a     *)
(* block is refused for a locked input only if the lock that holds it was         *)
(* complete, that is, inputs become locked only by complete locks.                *)
LocksNeedConsensus ==
  [][\A o \in DOMAIN mapLockedInputs' \ DOMAIN mapLockedInputs :
       Complete(mapTxLocks', mapLockedInputs'[o])]_vars

(* "locks expire after 20 minutes (20 confirmations)" (CreateNewLock): with its   *)
(* lock a transaction loses its hold on the inputs.                               *)
ExpiryReleasesInputs ==
  [][\A t \in DOMAIN mapTxLocks \ DOMAIN mapTxLocks' :
       \A o \in DOMAIN mapLockedInputs' : mapLockedInputs'[o] # t]_vars

(* "locks expire after 20 minutes (20 confirmations)" (CreateNewLock): and not    *)
(* before: the inputs of an accepted request with a complete lock are held until  *)
(* that lock goes.                                                                *)
HeldUntilExpiry ==
  [][\A o \in DOMAIN mapLockedInputs :
       /\ mapLockedInputs[o] \in mapTxLockReq \ mapTxLockReqRejected
       /\ Complete(mapTxLocks, mapLockedInputs[o])
       /\ mapLockedInputs[o] \in DOMAIN mapTxLocks'
       => o \in DOMAIN mapLockedInputs']_vars

(* "txlock - Locks transaction" (the head of instantx.cpp): a complete lock of an *)
(* accepted request, alone with its inputs, holds them.                           *)
CompleteLockHolds ==
  \A t \in mapTxLockReq :
    Complete(mapTxLocks, t) /\ mapTxLocks[t].nExpiration > 0 => vin[t] \subseteq DOMAIN mapLockedInputs

(* "reprocess the last 15 blocks": resolving a conflict leaves the node running.  *)
Survives == ~fAborted
=============================================================================
