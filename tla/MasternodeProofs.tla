-------------------------- MODULE MasternodeProofs --------------------------
(***************************************************************************)
(* What the masternodes keep.                                              *)
(*                                                                         *)
(* InstantX: the vote and lock invariants, for every set of transactions,  *)
(* outpoints, masternodes and heights.                                     *)
(*                                                                         *)
(* The masternode list: its types, and that no exchange of old messages    *)
(* makes a silent masternode look seen, for every network, every bound on  *)
(* the delay of a message and every value of the code's intervals that     *)
(* leaves the ages apart (Undisturbed).                                    *)
(***************************************************************************)
EXTENDS InstantX, MasternodeList, FiniteSetTheorems, SequenceTheorems, TLAPS

-----------------------------------------------------------------------------
(* InstantX. *)

(* A request whose entry is an empty transaction holds no input: the cleaner *)
(* would not find it.                                                        *)
EmptyHoldsNothing ==
  ~fAborted => \A o \in DOMAIN mapLockedInputs : mapLockedInputs[o] \notin emptyReq

(* The inductive invariant: a vote counts once because every counted vote is *)
(* in mapTxLockVote, and an owner is forgotten only with all its inputs.     *)
IXInv == TypeOK /\ OneVotePerMasternode /\ LockOwnerRequested /\ EmptyHoldsNothing

(* What CreateNewLock leaves alone: locks stay locks, no vote appears. *)
LEMMA CreateNewLockKeeps ==
  ASSUME NEW locks, NEW t \in Tx, NEW h \in {0, LockHeight},
         DOMAIN locks \subseteq Tx, \A x \in DOMAIN locks : locks[x] \in Lock
  PROVE  LET new == CreateNewLock(locks, t, h)
         IN  /\ DOMAIN locks \subseteq DOMAIN new /\ DOMAIN new \subseteq Tx
             /\ \A x \in DOMAIN new : new[x] \in Lock
             /\ \A x \in DOMAIN locks : new[x].votes = locks[x].votes
             /\ \A x \in DOMAIN new \ DOMAIN locks :
                  \A m \in Masternode, g \in VoteHeight : new[x].votes[m][g] = 0
<1> DEFINE new == CreateNewLock(locks, t, h)
<1>1. CASE h = 0
  BY <1>1 DEF CreateNewLock
<1>2. CASE h # 0 /\ t \in DOMAIN locks
  <2>1. new = [locks EXCEPT ![t].nBlockHeight = h]
    BY <1>2 DEF CreateNewLock
  <2>2. h \in VoteHeight
    BY <1>2, InstantXAssumption
  <2>3. \A x \in DOMAIN new : new[x] \in Lock
    BY <2>1, <2>2 DEF Lock
  <2>4. \A x \in DOMAIN locks : new[x].votes = locks[x].votes
    BY <2>1 DEF Lock
  <2> QED BY <2>1, <2>3, <2>4
<1>3. CASE h # 0 /\ t \notin DOMAIN locks
  <2>1. new = With(locks, t, NewLock(h))
    BY <1>3 DEF CreateNewLock
  <2>2. NewLock(h) \in Lock
    BY <1>3, InstantXAssumption DEF NewLock, Lock
  <2>3. DOMAIN new = DOMAIN locks \cup {t} /\ new[t] = NewLock(h)
        /\ \A x \in DOMAIN locks : new[x] = locks[x]
    BY <2>1, <1>3 DEF With
  <2>4. \A m \in Masternode, g \in VoteHeight : NewLock(h).votes[m][g] = 0
    BY DEF NewLock
  <2> QED BY <2>2, <2>3, <2>4
<1> QED BY <1>1, <1>2, <1>3

(* Expiring locks early changes no vote. *)
LEMMA ExpireKeeps ==
  ASSUME NEW locks, NEW t, NEW u,
         DOMAIN locks \subseteq Tx, \A x \in DOMAIN locks : locks[x] \in Lock
  PROVE  LET new == ExpireConflicting(locks, t, u)
         IN  /\ DOMAIN new = DOMAIN locks
             /\ \A x \in DOMAIN new : new[x] \in Lock /\ new[x].votes = locks[x].votes
<1> DEFINE new == ExpireConflicting(locks, t, u)
<1>1. 0 \in -1..EXPIRATION
  BY InstantXAssumption
<1>2. DOMAIN new = DOMAIN locks
  BY DEF ExpireConflicting
<1>3. ASSUME NEW x \in DOMAIN locks
      PROVE  new[x] \in Lock /\ new[x].votes = locks[x].votes
  BY <1>1, <1>3 DEF ExpireConflicting, Lock
<1> QED BY <1>2, <1>3

(* Votes are untouched or absent, and no vote seen is forgotten. *)
LEMMA SameVotes ==
  ASSUME OneVotePerMasternode, mapTxLockVote \subseteq mapTxLockVote',
         \A x \in DOMAIN mapTxLocks' :
           \/ x \in DOMAIN mapTxLocks /\ mapTxLocks'[x].votes = mapTxLocks[x].votes
           \/ \A m \in Masternode, h \in VoteHeight : mapTxLocks'[x].votes[m][h] = 0
  PROVE  OneVotePerMasternode'
<1> SUFFICES ASSUME NEW x \in DOMAIN mapTxLocks', NEW m \in Masternode,
                    NEW h \in VoteHeight, mapTxLocks'[x].votes[m][h] > 0
             PROVE  /\ mapTxLocks'[x].votes[m][h] = 1
                    /\ {g \in VoteHeight : mapTxLocks'[x].votes[m][g] > 0} = {h}
                    /\ <<m, x>> \in mapTxLockVote'
  BY Zenon DEF OneVotePerMasternode, VotesOf
<1>1. x \in DOMAIN mapTxLocks /\ mapTxLocks'[x].votes = mapTxLocks[x].votes
  OBVIOUS
<1>2. h \in VotesOf(x, m)
  BY <1>1 DEF VotesOf
<1> QED BY <1>1, <1>2 DEF OneVotePerMasternode, VotesOf

(* A vote that was not seen is the masternode's first on the lock. *)
LEMMA AddSignatureOnce ==
  ASSUME IXInv, NEW m \in Masternode, NEW t \in Tx, NEW h \in VoteHeight,
         NewVote(m, t)
  PROVE  LET new == AddSignature(LocksWith(t), m, t, h)
         IN  /\ DOMAIN new = DOMAIN mapTxLocks \cup {t}
             /\ \A x \in DOMAIN new : new[x] \in Lock
             /\ \A x \in DOMAIN mapTxLocks, n \in Masternode :
                  <<n, x>> # <<m, t>> => new[x].votes[n] = mapTxLocks[x].votes[n]
             /\ t \notin DOMAIN mapTxLocks =>
                  \A n \in Masternode \ {m}, g \in VoteHeight : new[t].votes[n][g] = 0
             /\ new[t].votes[m][h] = 1
             /\ \A g \in VoteHeight \ {h} : new[t].votes[m][g] = 0
<1> DEFINE old == LocksWith(t)
           new == AddSignature(old, m, t, h)
<1>1. /\ DOMAIN old = DOMAIN mapTxLocks \cup {t}
      /\ \A x \in DOMAIN mapTxLocks : old[x] = mapTxLocks[x]
      /\ t \notin DOMAIN mapTxLocks => old[t] = NewLock(0)
  BY DEF With, LocksWith
<1>2. NewLock(0) \in Lock /\ \A n \in Masternode, g \in VoteHeight : NewLock(0).votes[n][g] = 0
  BY InstantXAssumption DEF NewLock, Lock
<1>3. \A x \in DOMAIN old : old[x] \in Lock
  BY <1>1, <1>2 DEF IXInv, TypeOK
<1>4. \A g \in VoteHeight : old[t].votes[m][g] = 0
  <2>1. CASE t \notin DOMAIN mapTxLocks
    BY <2>1, <1>1, <1>2
  <2>2. CASE t \in DOMAIN mapTxLocks
    <3>1. VotesOf(t, m) = {}
      BY <2>2 DEF IXInv, OneVotePerMasternode, NewVote
    <3>2. \A g \in VoteHeight : mapTxLocks[t].votes[m][g] \in Nat
      BY <2>2 DEF IXInv, TypeOK, Lock
    <3> QED BY <2>2, <1>1, <3>1, <3>2 DEF VotesOf
  <2> QED BY <2>1, <2>2
<1> HIDE DEF old
<1>5. new = [old EXCEPT ![t].votes[m][h] = old[t].votes[m][h] + 1]
  BY DEF AddSignature
<1>6. old[t].votes \in [Masternode -> [VoteHeight -> Nat]]
  BY <1>1, <1>3 DEF Lock
<1> DEFINE v == [old[t].votes EXCEPT ![m][h] = old[t].votes[m][h] + 1]
<1>7. v \in [Masternode -> [VoteHeight -> Nat]]
  BY <1>6
<1>8. new = [old EXCEPT ![t].votes = v]
  BY <1>5, <1>1
<1> HIDE DEF new, v
<1>9. new[t] \in Lock /\ new[t].votes = v
  BY <1>1, <1>3, <1>7, <1>8 DEF Lock
<1>10. DOMAIN new = DOMAIN old /\ \A x \in DOMAIN old \ {t} : new[x] = old[x]
  BY <1>8
<1>11. \A n \in Masternode \ {m} : v[n] = old[t].votes[n]
  BY <1>6 DEF v
<1>12. \A g \in VoteHeight : v[m][g] = IF g = h THEN 1 ELSE 0
  BY <1>4, <1>6 DEF v
<1>13. \A x \in DOMAIN new : new[x] \in Lock
  BY <1>3, <1>9, <1>10
<1>14. \A x \in DOMAIN mapTxLocks, n \in Masternode :
         <<n, x>> # <<m, t>> => new[x].votes[n] = mapTxLocks[x].votes[n]
  BY <1>1, <1>9, <1>10, <1>11
<1>15. t \notin DOMAIN mapTxLocks =>
         \A n \in Masternode \ {m}, g \in VoteHeight : new[t].votes[n][g] = 0
  BY <1>1, <1>2, <1>9, <1>11
<1>16. DOMAIN new = DOMAIN mapTxLocks \cup {t}
  BY <1>1, <1>10
<1> QED BY <1>9, <1>12, <1>13, <1>14, <1>15, <1>16 DEF new, old

(* Locking free inputs for a remembered request keeps every owner known. *)
LEMMA LockInputsKeeps ==
  ASSUME IXInv, ~fAborted, NEW t \in Tx \ emptyReq,
         mapLockedInputs' = LockInputs(mapLockedInputs, t),
         t \in mapTxLockReqRejected' \/ (t \in mapTxLockReq' /\ t \in DOMAIN mapTxLocks'),
         mapTxLockReq \subseteq mapTxLockReq', mapTxLockReqRejected \subseteq mapTxLockReqRejected',
         DOMAIN mapTxLocks \subseteq DOMAIN mapTxLocks', emptyReq' = emptyReq
  PROVE  /\ LockOwnerRequested' /\ EmptyHoldsNothing'
         /\ DOMAIN mapLockedInputs' \subseteq OutPoint
         /\ \A o \in DOMAIN mapLockedInputs' : mapLockedInputs'[o] \in Tx
         /\ \A o \in DOMAIN mapLockedInputs : o \in DOMAIN mapLockedInputs'
                                              /\ mapLockedInputs'[o] = mapLockedInputs[o]
<1>1. vin[t] \subseteq OutPoint
  BY InstantXAssumption
<1>2. /\ DOMAIN mapLockedInputs' = DOMAIN mapLockedInputs \cup vin[t]
      /\ \A o \in DOMAIN mapLockedInputs : mapLockedInputs'[o] = mapLockedInputs[o]
      /\ \A o \in vin[t] \ DOMAIN mapLockedInputs : mapLockedInputs'[o] = t
  BY DEF LockInputs
<1>3. LockOwnerRequested'
  <2> SUFFICES ASSUME NEW o \in DOMAIN mapLockedInputs'
               PROVE  /\ o \in vin[mapLockedInputs'[o]]
                      /\ mapLockedInputs'[o] \in (mapTxLockReq \cup mapTxLockReqRejected)'
                      /\ mapLockedInputs'[o] \notin mapTxLockReqRejected'
                           => mapLockedInputs'[o] \in DOMAIN mapTxLocks'
    BY DEF LockOwnerRequested
  <2> QED BY <1>2 DEF IXInv, LockOwnerRequested
<1>4. EmptyHoldsNothing'
  BY <1>2 DEF IXInv, EmptyHoldsNothing
<1> QED BY <1>1, <1>2, <1>3, <1>4 DEF IXInv, TypeOK

(* What a handler that only creates a lock keeps. *)
LEMMA NewLockKeeps ==
  ASSUME IXInv, NEW t \in Tx, NEW h \in {0, LockHeight},
         mapTxLocks' = CreateNewLock(mapTxLocks, t, h),
         mapTxLockVote \subseteq mapTxLockVote'
  PROVE  /\ OneVotePerMasternode'
         /\ DOMAIN mapTxLocks \subseteq DOMAIN mapTxLocks'
         /\ DOMAIN mapTxLocks' \subseteq Tx /\ \A x \in DOMAIN mapTxLocks' : mapTxLocks'[x] \in Lock
<1>1. DOMAIN mapTxLocks \subseteq Tx /\ \A x \in DOMAIN mapTxLocks : mapTxLocks[x] \in Lock
  BY DEF IXInv, TypeOK
<1>2. /\ DOMAIN mapTxLocks \subseteq DOMAIN mapTxLocks' /\ DOMAIN mapTxLocks' \subseteq Tx
      /\ \A x \in DOMAIN mapTxLocks' : mapTxLocks'[x] \in Lock
      /\ \A x \in DOMAIN mapTxLocks : mapTxLocks'[x].votes = mapTxLocks[x].votes
      /\ \A x \in DOMAIN mapTxLocks' \ DOMAIN mapTxLocks :
           \A m \in Masternode, g \in VoteHeight : mapTxLocks'[x].votes[m][g] = 0
  BY <1>1, CreateNewLockKeeps
<1>3. OneVotePerMasternode'
  BY <1>2, SameVotes DEF IXInv
<1> QED BY <1>2, <1>3

(* A rejected request. *)
LEMMA RejectedKeeps ==
  ASSUME IXInv, NEW t \in Tx, NEW h \in {0, LockHeight}, NEW other \in BOOLEAN,
         TxLockRequestRejected(t, h, other)
  PROVE  IXInv'
<1> DEFINE locks == CreateNewLock(mapTxLocks, t, h)
<1>1. DOMAIN mapTxLocks \subseteq Tx /\ \A x \in DOMAIN mapTxLocks : mapTxLocks[x] \in Lock
  BY DEF IXInv, TypeOK
<1>2. /\ DOMAIN mapTxLocks \subseteq DOMAIN locks /\ DOMAIN locks \subseteq Tx
      /\ \A x \in DOMAIN locks : locks[x] \in Lock
      /\ \A x \in DOMAIN mapTxLocks : locks[x].votes = mapTxLocks[x].votes
      /\ \A x \in DOMAIN locks \ DOMAIN mapTxLocks :
           \A m \in Masternode, g \in VoteHeight : locks[x].votes[m][g] = 0
  BY <1>1, CreateNewLockKeeps
<1>3. fAborted' \in BOOLEAN
      /\ (mapTxLocks' = locks \/ \E u : mapTxLocks' = ExpireConflicting(locks, t, u))
  BY DEF TxLockRequestRejected
<1> HIDE DEF locks
<1>4. /\ DOMAIN mapTxLocks' = DOMAIN locks
      /\ \A x \in DOMAIN locks : mapTxLocks'[x] \in Lock /\ mapTxLocks'[x].votes = locks[x].votes
  BY <1>2, <1>3, ExpireKeeps
<1>5. OneVotePerMasternode'
  BY <1>2, <1>4, SameVotes DEF IXInv, TxLockRequestRejected
<1>6. /\ LockOwnerRequested' /\ EmptyHoldsNothing'
      /\ DOMAIN mapLockedInputs' \subseteq OutPoint
      /\ \A o \in DOMAIN mapLockedInputs' : mapLockedInputs'[o] \in Tx
  <2>1. t \notin emptyReq
    BY DEF TxLockRequestRejected, IXInv, TypeOK
  <2>2. /\ ~fAborted /\ mapLockedInputs' = LockInputs(mapLockedInputs, t)
        /\ mapTxLockReqRejected' = mapTxLockReqRejected \cup {t}
        /\ UNCHANGED <<mapTxLockReq, emptyReq>>
    BY DEF TxLockRequestRejected
  <2> QED BY <1>2, <1>4, <2>1, <2>2, LockInputsKeeps
<1>7. TypeOK'
  BY <1>2, <1>3, <1>4, <1>6 DEF TypeOK, IXInv, TxLockRequestRejected
<1> QED BY <1>5, <1>6, <1>7 DEF IXInv

(* A counted vote. *)
LEMMA VoteKeeps ==
  ASSUME IXInv, NEW t \in Tx, NEW m \in Masternode, NEW h \in VoteHeight, TxLockVote(m, t, h)
  PROVE  IXInv'
<1> DEFINE locks == AddSignature(LocksWith(t), m, t, h)
<1>1. NewVote(m, t) /\ mapTxLockVote' = mapTxLockVote \cup {<<m, t>>}
  BY DEF TxLockVote
<1>2. /\ DOMAIN locks = DOMAIN mapTxLocks \cup {t}
      /\ \A x \in DOMAIN locks : locks[x] \in Lock
      /\ \A x \in DOMAIN mapTxLocks, n \in Masternode :
           <<n, x>> # <<m, t>> => locks[x].votes[n] = mapTxLocks[x].votes[n]
      /\ t \notin DOMAIN mapTxLocks =>
           \A n \in Masternode \ {m}, g \in VoteHeight : locks[t].votes[n][g] = 0
      /\ locks[t].votes[m][h] = 1
      /\ \A g \in VoteHeight \ {h} : locks[t].votes[m][g] = 0
  BY <1>1, AddSignatureOnce
<1>3. /\ fAborted' \in BOOLEAN
      /\ mapTxLocks' = locks \/ \E u : mapTxLocks' = ExpireConflicting(locks, t, u)
  <2>1. fAborted' \in BOOLEAN
    <3>1. CASE ~Complete(locks, t)
      BY <3>1, Zenon DEF TxLockVote, IXInv, TypeOK
    <3>2. CASE Complete(locks, t)
      BY <3>2, Zenon DEF TxLockVote, IXInv, TypeOK
    <3> QED BY <3>1, <3>2
  <2>2. mapTxLocks' = locks \/ \E u : mapTxLocks' = ExpireConflicting(locks, t, u)
    BY Zenon DEF TxLockVote
  <2> QED BY <2>1, <2>2
<1>4. /\ ~fAborted
      /\ UNCHANGED <<mapTxLockReqRejected, pool, chain>>
      /\ \/ UNCHANGED <<mapTxLockReq, emptyReq, mapLockedInputs, fAborted>>
         \/ /\ t \notin mapTxLockReq \ emptyReq
            /\ mapTxLockReq' = mapTxLockReq \cup {t}
            /\ emptyReq' = emptyReq \cup {t}
            /\ UNCHANGED mapLockedInputs
            /\ ~fAborted' => t \notin mapTxLockReqRejected
         \/ /\ t \in mapTxLockReq \ emptyReq
            /\ UNCHANGED <<mapTxLockReq, emptyReq>>
            /\ mapLockedInputs' = LockInputs(mapLockedInputs, t)
  <2>1. CASE ~Complete(locks, t)
    BY <2>1, Zenon DEF TxLockVote
  <2>2. CASE Complete(locks, t)
    BY <2>2, SMT DEF TxLockVote
  <2> QED BY <2>1, <2>2
<1> HIDE DEF locks
<1>5. /\ DOMAIN mapTxLocks' = DOMAIN locks
      /\ \A x \in DOMAIN locks : mapTxLocks'[x] \in Lock /\ mapTxLocks'[x].votes = locks[x].votes
  <2>1. DOMAIN locks \subseteq Tx
    BY <1>2 DEF IXInv, TypeOK
  <2> QED BY <1>2, <1>3, <2>1, ExpireKeeps
<1>6. OneVotePerMasternode'
  <2> SUFFICES ASSUME NEW x \in DOMAIN locks, NEW n \in Masternode,
                      NEW g \in VoteHeight, locks[x].votes[n][g] > 0
               PROVE  /\ locks[x].votes[n][g] = 1
                      /\ {k \in VoteHeight : locks[x].votes[n][k] > 0} = {g}
                      /\ <<n, x>> \in mapTxLockVote'
    <3> SUFFICES ASSUME NEW x \in DOMAIN mapTxLocks', NEW n \in Masternode, NEW g \in VotesOf(x, n)'
                 PROVE  /\ mapTxLocks'[x].votes[n][g] = 1
                        /\ VotesOf(x, n)' = {g}
                        /\ <<n, x>> \in mapTxLockVote'
      BY DEF OneVotePerMasternode
    <3>1. x \in DOMAIN locks /\ mapTxLocks'[x].votes = locks[x].votes
      BY <1>5
    <3> QED BY <3>1 DEF VotesOf
  <2>1. CASE <<n, x>> = <<m, t>>
    BY <2>1, <1>1, <1>2
  <2>2. CASE <<n, x>> # <<m, t>>
    <3>1. x \in DOMAIN mapTxLocks
      BY <1>2, <2>2
    <3>2. locks[x].votes[n] = mapTxLocks[x].votes[n]
      BY <1>2, <2>2, <3>1
    <3> QED BY <1>1, <3>1, <3>2 DEF IXInv, OneVotePerMasternode, VotesOf
  <2> QED BY <2>1, <2>2
<1>7. /\ LockOwnerRequested' /\ EmptyHoldsNothing'
      /\ DOMAIN mapLockedInputs' \subseteq OutPoint
      /\ \A o \in DOMAIN mapLockedInputs' : mapLockedInputs'[o] \in Tx
      /\ mapTxLockReq' \subseteq Tx /\ emptyReq' \subseteq mapTxLockReq'
  <2>1. DOMAIN mapTxLocks \subseteq DOMAIN mapTxLocks' /\ t \in DOMAIN mapTxLocks'
    BY <1>2, <1>5
  <2>2. CASE UNCHANGED <<mapTxLockReq, emptyReq, mapLockedInputs, fAborted>>
    BY <2>1, <2>2, <1>4 DEF IXInv, TypeOK, LockOwnerRequested, EmptyHoldsNothing
  <2>3. CASE /\ t \notin mapTxLockReq \ emptyReq
             /\ mapTxLockReq' = mapTxLockReq \cup {t}
             /\ emptyReq' = emptyReq \cup {t}
             /\ UNCHANGED mapLockedInputs
             /\ ~fAborted' => t \notin mapTxLockReqRejected
    <3>1. LockOwnerRequested'
      BY <2>1, <2>3, <1>4 DEF IXInv, LockOwnerRequested
    <3>2. EmptyHoldsNothing'
      BY <2>3, <1>4 DEF IXInv, LockOwnerRequested, EmptyHoldsNothing
    <3> QED BY <3>1, <3>2, <2>3 DEF IXInv, TypeOK
  <2>4. CASE /\ t \in mapTxLockReq \ emptyReq
             /\ UNCHANGED <<mapTxLockReq, emptyReq>>
             /\ mapLockedInputs' = LockInputs(mapLockedInputs, t)
    <3>1. /\ LockOwnerRequested' /\ EmptyHoldsNothing'
          /\ DOMAIN mapLockedInputs' \subseteq OutPoint
          /\ \A o \in DOMAIN mapLockedInputs' : mapLockedInputs'[o] \in Tx
      BY <2>1, <2>4, <1>4, LockInputsKeeps
    <3> QED BY <3>1, <2>4 DEF IXInv, TypeOK
  <2> QED BY <1>4, <2>2, <2>3, <2>4
<1>8. TypeOK'
  BY <1>1, <1>2, <1>3, <1>4, <1>5, <1>7 DEF TypeOK, IXInv
<1> QED BY <1>6, <1>7, <1>8 DEF IXInv

(* Cleaning. *)
LEMMA CleanKeeps ==
  ASSUME IXInv, CleanTransactionLocksList
  PROVE  IXInv'
<1> DEFINE requested == Expired \cap mapTxLockReq
<1>1. /\ DOMAIN mapTxLocks' = DOMAIN mapTxLocks \ Expired
      /\ \A x \in DOMAIN mapTxLocks' : mapTxLocks'[x] = mapTxLocks[x]
      /\ DOMAIN mapLockedInputs' = DOMAIN mapLockedInputs \ ReleasedInputs(requested \ emptyReq)
      /\ \A o \in DOMAIN mapLockedInputs' : mapLockedInputs'[o] = mapLockedInputs[o]
  BY DEF CleanTransactionLocksList, Without
<1>2. /\ mapTxLockReq' = mapTxLockReq \ requested
      /\ emptyReq' = emptyReq \ requested /\ ~fAborted
      /\ mapTxLockReqRejected' = mapTxLockReqRejected \ requested
      /\ mapTxLockVote' \subseteq mapTxLockVote
      /\ \A v \in mapTxLockVote : v[2] \notin requested => v \in mapTxLockVote'
      /\ UNCHANGED <<pool, chain, fAborted>>
  BY DEF CleanTransactionLocksList
<1>3. TypeOK'
  BY <1>1, <1>2 DEF IXInv, TypeOK
<1>4. OneVotePerMasternode'
  <2> SUFFICES ASSUME NEW x \in DOMAIN mapTxLocks', NEW m \in Masternode, NEW h \in VotesOf(x, m)'
               PROVE  /\ mapTxLocks'[x].votes[m][h] = 1
                      /\ VotesOf(x, m)' = {h}
                      /\ <<m, x>> \in mapTxLockVote'
    BY DEF OneVotePerMasternode
  <2>1. VotesOf(x, m)' = VotesOf(x, m) /\ x \in DOMAIN mapTxLocks /\ x \notin requested
    BY <1>1 DEF VotesOf
  <2> QED BY <1>1, <1>2, <2>1 DEF IXInv, OneVotePerMasternode
<1>5. LockOwnerRequested'
  <2> SUFFICES ASSUME NEW o \in DOMAIN mapLockedInputs'
               PROVE  /\ o \in vin[mapLockedInputs'[o]]
                      /\ mapLockedInputs'[o] \in (mapTxLockReq \cup mapTxLockReqRejected)'
                      /\ mapLockedInputs'[o] \notin mapTxLockReqRejected'
                           => mapLockedInputs'[o] \in DOMAIN mapTxLocks'
    BY DEF LockOwnerRequested
  <2> DEFINE t == mapLockedInputs[o]
  <2>1. /\ o \in vin[t] /\ t \in mapTxLockReq \cup mapTxLockReqRejected
        /\ t \notin mapTxLockReqRejected => t \in DOMAIN mapTxLocks
        /\ t \notin emptyReq
    BY <1>1, <1>2 DEF IXInv, LockOwnerRequested, EmptyHoldsNothing
  <2>2. t \notin requested
    BY <1>1, <2>1 DEF ReleasedInputs
  <2>3. t \notin mapTxLockReqRejected => t \notin Expired
    BY <2>1, <2>2
  <2> QED BY <1>1, <1>2, <2>1, <2>2, <2>3
<1>6. EmptyHoldsNothing'
  BY <1>1, <1>2 DEF IXInv, EmptyHoldsNothing
<1> QED BY <1>3, <1>4, <1>5, <1>6 DEF IXInv

(* Every step keeps the inductive invariant. *)
LEMMA IXInvStep == IXInv /\ [Next]_vars => IXInv'
<1> SUFFICES ASSUME IXInv, [Next]_vars PROVE IXInv'
  OBVIOUS
<1> USE DEF lockVars
<1>1. ASSUME NEW t \in Tx, AcceptTx(t) PROVE IXInv'
  BY <1>1 DEF AcceptTx, IXInv, TypeOK, OneVotePerMasternode, VotesOf, LockOwnerRequested, EmptyHoldsNothing
<1>2. ASSUME NEW t \in Tx, NEW reorganize \in BOOLEAN, ConnectBlock(t, reorganize) PROVE IXInv'
  BY <1>2 DEF ConnectBlock, IXInv, TypeOK, OneVotePerMasternode, VotesOf, LockOwnerRequested, EmptyHoldsNothing
<1>3. ASSUME NEW t \in Tx, NEW h \in {0, LockHeight}, NEW vote \in BOOLEAN,
             TxLockRequestAccepted(t, h, vote)
      PROVE  IXInv'
  <2>1. /\ mapTxLockVote \subseteq mapTxLockVote' /\ mapTxLockVote' \subseteq Masternode \X Tx
        /\ mapTxLockReq \subseteq mapTxLockReq' /\ mapTxLockReq' \subseteq Tx
        /\ pool' \subseteq Tx
        /\ UNCHANGED <<emptyReq, mapTxLockReqRejected, mapLockedInputs, chain, fAborted>>
    BY <1>3, InstantXAssumption DEF TxLockRequestAccepted, DoConsensusVote, IXInv, TypeOK
  <2>2. /\ OneVotePerMasternode'
        /\ DOMAIN mapTxLocks \subseteq DOMAIN mapTxLocks'
        /\ DOMAIN mapTxLocks' \subseteq Tx /\ \A x \in DOMAIN mapTxLocks' : mapTxLocks'[x] \in Lock
    BY <1>3, <2>1, NewLockKeeps DEF TxLockRequestAccepted
  <2> QED BY <2>1, <2>2 DEF IXInv, TypeOK, LockOwnerRequested, EmptyHoldsNothing
<1>4. ASSUME NEW t \in Tx, NEW h \in {0, LockHeight}, RelayWalletTransaction(t, h) PROVE IXInv'
  <2>1. /\ mapTxLockReq \subseteq mapTxLockReq' /\ mapTxLockReq' \subseteq Tx
        /\ UNCHANGED <<emptyReq, mapTxLockReqRejected, mapTxLockVote, mapLockedInputs, pool, chain, fAborted>>
    BY <1>4 DEF RelayWalletTransaction, IXInv, TypeOK
  <2>2. /\ OneVotePerMasternode'
        /\ DOMAIN mapTxLocks \subseteq DOMAIN mapTxLocks'
        /\ DOMAIN mapTxLocks' \subseteq Tx /\ \A x \in DOMAIN mapTxLocks' : mapTxLocks'[x] \in Lock
    BY <1>4, <2>1, NewLockKeeps DEF RelayWalletTransaction
  <2> QED BY <2>1, <2>2 DEF IXInv, TypeOK, LockOwnerRequested, EmptyHoldsNothing
<1>5. ASSUME NEW t \in Tx, NEW m \in Masternode, TxLockVoteRefused(m, t) PROVE IXInv'
  <2>1. /\ mapTxLockVote' = mapTxLockVote \cup {<<m, t>>}
        /\ UNCHANGED <<mapTxLockReq, emptyReq, mapTxLockReqRejected, mapTxLocks, mapLockedInputs, pool, chain, fAborted>>
    BY <1>5 DEF TxLockVoteRefused
  <2>2. OneVotePerMasternode'
    BY <2>1, SameVotes DEF IXInv
  <2> QED BY <2>1, <2>2 DEF IXInv, TypeOK, LockOwnerRequested, EmptyHoldsNothing
<1>6. ASSUME Tick PROVE IXInv'
  <2>1. /\ DOMAIN mapTxLocks' = DOMAIN mapTxLocks
        /\ \A x \in DOMAIN mapTxLocks : mapTxLocks'[x] \in Lock
                                        /\ mapTxLocks'[x].votes = mapTxLocks[x].votes
    <3>1. DOMAIN mapTxLocks' = DOMAIN mapTxLocks
      BY <1>6 DEF Tick
    <3>2. ASSUME NEW x \in DOMAIN mapTxLocks
          PROVE  mapTxLocks'[x] \in Lock /\ mapTxLocks'[x].votes = mapTxLocks[x].votes
      <4>1. PICK e \in -1..EXPIRATION : mapTxLocks'[x] = [mapTxLocks[x] EXCEPT !.nExpiration = e]
        <5>1. mapTxLocks[x].nExpiration \in -1..EXPIRATION
          BY DEF IXInv, TypeOK, Lock
        <5> DEFINE e == IF mapTxLocks[x].nExpiration >= 0 THEN mapTxLocks[x].nExpiration - 1
                        ELSE mapTxLocks[x].nExpiration
        <5>2. mapTxLocks'[x] = [mapTxLocks[x] EXCEPT !.nExpiration = e]
          BY <1>6 DEF Tick
        <5>3. e \in -1..EXPIRATION
          BY <5>1, InstantXAssumption
        <5> QED BY <5>2, <5>3
      <4> QED BY <4>1 DEF IXInv, TypeOK, Lock
    <3> QED BY <3>1, <3>2
  <2>2. UNCHANGED <<mapTxLockReq, emptyReq, mapTxLockReqRejected, mapTxLockVote, mapLockedInputs, pool, chain, fAborted>>
    BY <1>6 DEF Tick
  <2>3. OneVotePerMasternode'
    BY <2>1, <2>2, SameVotes DEF IXInv
  <2> QED BY <2>1, <2>2, <2>3 DEF IXInv, TypeOK, LockOwnerRequested, EmptyHoldsNothing
<1>7. ASSUME Restart PROVE IXInv'
  BY <1>7 DEF Restart, IXInv, TypeOK, OneVotePerMasternode, LockOwnerRequested, EmptyHoldsNothing
<1>8. CASE UNCHANGED vars
  BY <1>8 DEF vars, IXInv, TypeOK, OneVotePerMasternode, VotesOf, LockOwnerRequested, EmptyHoldsNothing
<1> QED
  BY <1>1, <1>2, <1>3, <1>4, <1>5, <1>6, <1>7, <1>8, RejectedKeeps, VoteKeeps, CleanKeeps DEF Next

(* The inductive invariant of the transaction locks. *)
THEOREM IXInvHolds == Spec => []IXInv
<1>1. Init => IXInv
  BY DEF Init, IXInv, TypeOK, OneVotePerMasternode, LockOwnerRequested, EmptyHoldsNothing
<1> QED BY <1>1, IXInvStep, PTL DEF Spec

(* The maps of instantx.cpp keep their types. *)
THEOREM LockTypesCorrect == Spec => []TypeOK
BY IXInvHolds, PTL DEF IXInv

(* No masternode counts twice towards a lock. *)
THEOREM VotesCountOnce == Spec => []OneVotePerMasternode
BY IXInvHolds, PTL DEF IXInv

(* A locked input belongs to a remembered request that spends it. *)
THEOREM LockOwnersKnown == Spec => []LockOwnerRequested
BY IXInvHolds, PTL DEF IXInv

-----------------------------------------------------------------------------
(* Messages and queues. *)
MessageWith(m, w) == [m EXCEPT !.wait = w]

(* A message is of one of three kinds, each with its own fields. *)
LEMMA MessageFields ==
  ASSUME NEW m \in Message
  PROVE  /\ m.wait \in 0..Delay
         /\ \/ /\ m.kind = "dsee" /\ m.new \in BOOLEAN /\ m.sig \in 0..SigCap /\ m.seen \in 0..Never
               /\ m = [kind |-> "dsee", new |-> m.new, sig |-> m.sig, seen |-> m.seen, wait |-> m.wait]
            \/ /\ m.kind = "dseep" /\ m.sig \in 0..SigCap /\ m.stop \in BOOLEAN
               /\ m = [kind |-> "dseep", sig |-> m.sig, stop |-> m.stop, wait |-> m.wait]
            \/ m.kind = "dseg" /\ m = [kind |-> "dseg", wait |-> m.wait]
BY DEF Message

(* The constants are natural numbers in the order TimesAssumption gives. *)
LEMMA Times ==
  /\ MinDsee \in Nat /\ MinDseep \in Nat /\ Expire \in Nat /\ Removal \in Nat /\ Delay \in Nat
  /\ SigCap \in Nat /\ MaxFaults \in Nat /\ Never = Removal + 1 /\ Never \in Nat
  /\ 2 * Delay < MinDsee /\ MinDsee <= MinDseep /\ 2 * MinDseep + 2 * Delay < Expire /\ Expire < Removal
BY TimesAssumption DEF Never

(* The messages the nodes make, and their fields. *)
LEMMA DseeMessage ==
  ASSUME NEW new \in BOOLEAN, NEW sig \in 0..SigCap, NEW seen \in 0..Never
  PROVE  /\ Dsee(new, sig, seen) \in Message
         /\ Dsee(new, sig, seen).kind = "dsee" /\ Dsee(new, sig, seen).wait = 0
         /\ Dsee(new, sig, seen).sig = sig /\ Dsee(new, sig, seen).seen = seen
         /\ Dsee(new, sig, seen).new = new
BY Times DEF Dsee, Message

LEMMA PingMessage ==
  ASSUME NEW sig \in 0..SigCap, NEW stop \in BOOLEAN
  PROVE  /\ Ping(sig, stop) \in Message
         /\ Ping(sig, stop).kind = "dseep" /\ Ping(sig, stop).wait = 0
         /\ Ping(sig, stop).sig = sig /\ Ping(sig, stop).stop = stop
BY Times DEF Ping, Message

LEMMA DsegMessage == Dseg \in Message /\ Dseg.kind = "dseg"
BY Times DEF Dseg, Message

(* Sending a message again starts its delay anew. *)
LEMMA Rewait ==
  ASSUME NEW m \in Message
  PROVE  /\ MessageWith(m, 0) \in Message
         /\ MessageWith(m, 0).kind = m.kind /\ MessageWith(m, 0).wait = 0
         /\ m.kind = "dsee" => /\ MessageWith(m, 0).sig = m.sig /\ MessageWith(m, 0).seen = m.seen
                               /\ MessageWith(m, 0).new = m.new
         /\ m.kind = "dseep" => MessageWith(m, 0).sig = m.sig /\ MessageWith(m, 0).stop = m.stop
<1>1. 0 \in 0..Delay
  BY Times
<1>2. CASE m.kind = "dsee"
  <2>1. PICK a \in BOOLEAN, b \in 0..SigCap, c \in 0..Never, w \in 0..Delay :
           m = [kind |-> "dsee", new |-> a, sig |-> b, seen |-> c, wait |-> w]
    BY <1>2, MessageFields
  <2>2. MessageWith(m, 0) = [kind |-> "dsee", new |-> a, sig |-> b, seen |-> c, wait |-> 0]
    BY <2>1 DEF MessageWith
  <2>3. MessageWith(m, 0) \in Message
    BY <1>1, <2>2 DEF Message
  <2> QED BY <1>2, <2>1, <2>2, <2>3
<1>3. CASE m.kind = "dseep"
  <2>1. PICK b \in 0..SigCap, c \in BOOLEAN, w \in 0..Delay :
           m = [kind |-> "dseep", sig |-> b, stop |-> c, wait |-> w]
    BY <1>3, MessageFields
  <2>2. MessageWith(m, 0) = [kind |-> "dseep", sig |-> b, stop |-> c, wait |-> 0]
    BY <2>1 DEF MessageWith
  <2>3. MessageWith(m, 0) \in Message
    BY <1>1, <2>2 DEF Message
  <2> QED BY <1>3, <2>1, <2>2, <2>3
<1>4. CASE m.kind = "dseg"
  <2>1. PICK w \in 0..Delay : m = [kind |-> "dseg", wait |-> w]
    BY <1>4, MessageFields
  <2>2. MessageWith(m, 0) = [kind |-> "dseg", wait |-> 0]
    BY <2>1 DEF MessageWith
  <2>3. MessageWith(m, 0) \in Message
    BY <1>1, <2>2 DEF Message
  <2> QED BY <1>4, <2>1, <2>2, <2>3
<1> QED BY <1>2, <1>3, <1>4, MessageFields

(* The messages under way. *)
Under(L) == {m \in Message : \E l \in Peer : \E i \in 1..Len(L[l]) : L[l][i] = m}

(* What a queue holds is under way. *)
LEMMA UnderIn ==
  ASSUME NEW L \in [Peer -> Seq(Message)], NEW l \in Peer, NEW i \in 1..Len(L[l])
  PROVE  L[l][i] \in Under(L)
<1>1. L[l][i] \in Message
  BY ElementOfSeq
<1> QED BY <1>1 DEF Under

(* Taking the first message off a connection. *)
LEMMA RestUnder ==
  ASSUME NEW l \in Peer, link \in [Peer -> Seq(Message)], link[l] # << >>
  PROVE  /\ Rest(l) \in [Peer -> Seq(Message)] /\ Under(Rest(l)) \subseteq Under(link)
         /\ Head(link[l]) \in Under(link) /\ Head(link[l]) \in Message
         /\ \A k \in Peer : link[k] = << >> => Rest(l)[k] = << >>
<1>1. link[l] \in Seq(Message) /\ Tail(link[l]) \in Seq(Message) /\ Len(link[l]) \in Nat /\ Len(link[l]) # 0
      /\ Len(Tail(link[l])) = Len(link[l]) - 1 /\ Head(link[l]) = link[l][1]
      /\ \A i \in 1..Len(Tail(link[l])) : Tail(link[l])[i] = link[l][i + 1]
  BY HeadTailProperties, EmptySeq, LenProperties
<1>2. PICK Q : Q = Rest(l)
  OBVIOUS
<1>3. Q \in [Peer -> Seq(Message)] /\ Q[l] = Tail(link[l]) /\ \A k \in Peer : k # l => Q[k] = link[k]
  BY <1>1, <1>2 DEF Rest
<1>4. ASSUME NEW k \in Peer, NEW i \in 1..Len(Q[k]) PROVE Q[k][i] \in Under(link)
  <2>1. CASE k = l
    <3>1. PICK c \in Nat : c = Len(link[l])
      BY <1>1
    <3>2. Q[k] = Tail(link[l]) /\ Len(Q[k]) = c - 1
      BY <1>1, <1>3, <2>1, <3>1
    <3>3. i \in 1..(c - 1)
      BY <3>2
    <3>4. i + 1 \in 1..c
      BY <3>1, <3>3
    <3>5. i + 1 \in 1..Len(link[l]) /\ Q[k][i] = link[l][i + 1]
      BY <1>1, <3>1, <3>2, <3>4
    <3> QED BY <2>1, <3>5, UnderIn
  <2>2. CASE k # l
    BY <1>3, <2>2, UnderIn
  <2> QED BY <2>1, <2>2
<1>5. Under(Q) \subseteq Under(link)
  BY <1>4 DEF Under
<1>6. Head(link[l]) \in Under(link)
  <2>1. 1 \in 1..Len(link[l])
    BY <1>1
  <2> QED BY <2>1, <1>1, UnderIn
<1>7. Under(link) \subseteq Message
  BY DEF Under
<1> QED BY <1>2, <1>3, <1>5, <1>6, <1>7

(* Appending one message to some of the connections. *)
LEMMA AppendUnder ==
  ASSUME NEW L \in [Peer -> Seq(Message)], NEW M \in [Peer -> Seq(Message)], NEW m \in Message,
         \A l \in Peer : M[l] = L[l] \/ M[l] = Append(L[l], m)
  PROVE  Under(M) \subseteq Under(L) \cup {m}
<1>1. ASSUME NEW l \in Peer, NEW i \in 1..Len(M[l]) PROVE M[l][i] \in Under(L) \cup {m}
  <2>1. CASE M[l] = L[l]
    BY <2>1, UnderIn
  <2>2. CASE M[l] = Append(L[l], m)
    <3>1. L[l] \in Seq(Message) /\ Len(L[l]) \in Nat
      BY LenProperties
    <3>2. Len(M[l]) = Len(L[l]) + 1 /\ M[l][Len(L[l]) + 1] = m
          /\ \A j \in 1..Len(L[l]) : M[l][j] = L[l][j]
      BY <2>2, <3>1, AppendProperties
    <3>3. i \in 1..Len(L[l]) \/ i = Len(L[l]) + 1
      BY <3>1, <3>2
    <3> QED BY <3>2, <3>3, UnderIn
  <2> QED BY <2>1, <2>2
<1> QED BY <1>1 DEF Under

(* Relaying adds copies of one message, to connections whose other end lives. *)
LEMMA RelayUnder ==
  ASSUME NEW L \in [Peer -> Seq(Message)], NEW n \in Node, NEW m \in Message
  PROVE  /\ Relay(L, n, m) \in [Peer -> Seq(Message)]
         /\ Under(Relay(L, n, m)) \subseteq Under(L) \cup {MessageWith(m, 0)}
         /\ status = "DOWN" => \A l \in Peer : l[2] = Own => Relay(L, n, m)[l] = L[l]
<1>1. PICK c \in Message : c = MessageWith(m, 0)
  BY Rewait
<1>2. PICK M : M = Relay(L, n, m)
  OBVIOUS
<1>3. M = [l \in Peer |-> IF l[1] = n /\ Alive(l[2]) THEN Append(L[l], c) ELSE L[l]]
  BY <1>1, <1>2 DEF Relay, MessageWith
<1>4. \A l \in Peer : Append(L[l], c) \in Seq(Message)
  BY AppendProperties
<1>5. M \in [Peer -> Seq(Message)]
  BY <1>3, <1>4
<1>6. \A l \in Peer : M[l] = L[l] \/ M[l] = Append(L[l], c)
  BY <1>3
<1>7. Under(M) \subseteq Under(L) \cup {c}
  BY <1>5, <1>6, AppendUnder
<1>8. status = "DOWN" => \A l \in Peer : l[2] = Own => M[l] = L[l]
  BY <1>3 DEF Alive
<1> QED BY <1>1, <1>2, <1>5, <1>7, <1>8

(* Pushing a message to one connection. *)
LEMMA PushUnder ==
  ASSUME NEW L \in [Peer -> Seq(Message)], NEW l \in Peer, NEW m \in Message
  PROVE  /\ Push(L, l, m) \in [Peer -> Seq(Message)]
         /\ Under(Push(L, l, m)) \subseteq Under(L) \cup {m}
         /\ status = "DOWN" => \A k \in Peer : k[2] = Own => Push(L, l, m)[k] = L[k]
<1>1. PICK M : M = Push(L, l, m)
  OBVIOUS
<1>2. Append(L[l], m) \in Seq(Message)
  BY AppendProperties
<1>3. M \in [Peer -> Seq(Message)] /\ \A k \in Peer : M[k] = L[k] \/ M[k] = Append(L[k], m)
  BY <1>1, <1>2 DEF Push
<1>4. Under(M) \subseteq Under(L) \cup {m}
  BY <1>3, AppendUnder
<1>5. status = "DOWN" => \A k \in Peer : k[2] = Own => M[k] = L[k]
  BY <1>1 DEF Push, Alive
<1> QED BY <1>1, <1>3, <1>4, <1>5

-----------------------------------------------------------------------------
(* Types. *)
LEMMA NewEntryType ==
  ASSUME NEW sig \in 0..SigCap, NEW seen \in 0..Never
  PROVE  /\ NewEntry(sig, seen) \in Entry /\ NewEntry(sig, seen).sig = sig
         /\ NewEntry(sig, seen).state = "ENABLED" /\ NewEntry(sig, seen).dseep = SigCap
         /\ NewEntry(sig, seen).age = IF seen = Never THEN 0 ELSE seen
<1>1. 0 \in 0..Never /\ SigCap \in 0..SigCap
  BY Times
<1> QED BY <1>1 DEF NewEntry, Entry, State

(* The fields of an entry that an operation may write. *)
LEMMA EntryFields ==
  ASSUME NEW e \in Entry
  PROVE  /\ e.state \in State /\ e.age \in 0..Never /\ e.sig \in 0..SigCap /\ e.dseep \in 0..SigCap
         /\ e.open \in BOOLEAN /\ e # None
BY NoneAssumption DEF Entry

(* An operation writes one or two fields and leaves the others. *)
LEMMA AgeSet ==
  ASSUME NEW e \in Entry, NEW a \in 0..Never, NEW f, f = [e EXCEPT !.age = a]
  PROVE  /\ f \in Entry /\ f.age = a /\ f.state = e.state /\ f.sig = e.sig /\ f.dseep = e.dseep
         /\ f.open = e.open
BY DEF Entry

LEMMA StateSet ==
  ASSUME NEW e \in Entry, NEW s \in State, NEW f, f = [e EXCEPT !.state = s]
  PROVE  /\ f \in Entry /\ f.age = e.age /\ f.state = s /\ f.sig = e.sig /\ f.dseep = e.dseep
         /\ f.open = e.open
BY DEF Entry

LEMMA DseepSet ==
  ASSUME NEW e \in Entry, NEW s \in 0..SigCap, NEW f, f = [e EXCEPT !.dseep = s]
  PROVE  /\ f \in Entry /\ f.age = e.age /\ f.state = e.state /\ f.sig = e.sig /\ f.dseep = s
         /\ f.open = e.open
BY DEF Entry

LEMMA SigSet ==
  ASSUME NEW e \in Entry, NEW s \in 0..SigCap, NEW o \in BOOLEAN, NEW f, f = [e EXCEPT !.sig = s, !.open = o]
  PROVE  /\ f \in Entry /\ f.age = e.age /\ f.state = e.state /\ f.sig = s /\ f.dseep = e.dseep
         /\ f.open = o
BY DEF Entry

(* Check changes the state only. *)
LEMMA CheckedEntry ==
  ASSUME NEW e \in Entry, NEW lock \in BOOLEAN
  PROVE  /\ CheckEntry(e, lock) \in Entry
         /\ CheckEntry(e, lock).age = e.age /\ CheckEntry(e, lock).sig = e.sig
         /\ CheckEntry(e, lock).dseep = e.dseep /\ CheckEntry(e, lock).open = e.open
         /\ CheckEntry(e, lock).state \in {e.state, CheckedState(e)}
<1>1. CheckedState(e) \in State
  <2>1. e.state \in State /\ e.age \in 0..Never
    BY EntryFields
  <2>2. Removal \in Nat /\ Expire \in Nat /\ Expire < Removal /\ Never \in Nat
    BY Times
  <2>3. (e.age < Removal \/ ~(e.age < Removal)) /\ (e.age < Expire \/ ~(e.age < Expire))
        /\ (e.age < Expire => e.age < Removal)
    BY <2>1, <2>2
  <2> QED BY <2>3 DEF CheckedState, UpdatedWithin, State
<1>2. PICK f : f = [e EXCEPT !.state = CheckedState(e)]
  OBVIOUS
<1>3. /\ f \in Entry /\ f.age = e.age /\ f.state = CheckedState(e) /\ f.sig = e.sig /\ f.dseep = e.dseep
      /\ f.open = e.open
  BY <1>1, <1>2, StateSet
<1>4. CheckEntry(e, lock) = IF lock THEN f ELSE e
  BY <1>2 DEF CheckEntry
<1> QED BY <1>3, <1>4

(* A message comes from a connection. *)
LEMMA ReceivedType ==
  ASSUME NEW l \in Peer, link \in [Peer -> Seq(Message)], NEW kind, First(l, kind)
  PROVE  /\ l[1] \in Node /\ l[2] \in Node /\ <<l[2], l[1]>> \in Peer
         /\ Rest(l) \in [Peer -> Seq(Message)] /\ Head(link[l]) \in Message
         /\ Head(link[l]).kind = kind /\ link[l] # << >>
<1>1. link[l] # << >> /\ Head(link[l]).kind = kind
  BY DEF First
<1> QED BY <1>1, RestUnder, PeerAssumption

(* Each operation keeps the types of what it writes. *)
LEMMA RegisterType ==
  ASSUME ListTypeOK, Register
  PROVE  entry' \in [Node -> Entry \cup {None}] /\ link' \in [Peer -> Seq(Message)] /\ silent' \in 0..Removal
<1>1. 0 \in 0..SigCap /\ 0 \in 0..Never /\ 0 \in 0..Removal
  BY Times
<1>2. NewEntry(0, 0) \in Entry /\ Dsee(TRUE, 0, 0) \in Message
  BY <1>1, NewEntryType, DseeMessage
<1>3. Relay(link, Own, Dsee(TRUE, 0, 0)) \in [Peer -> Seq(Message)]
  BY <1>2, RelayUnder, NodeAssumption DEF ListTypeOK
<1>4. [entry EXCEPT ![Own] = NewEntry(0, 0)] \in [Node -> Entry \cup {None}]
  BY <1>2 DEF ListTypeOK
<1>5. /\ entry' = (IF entry[Own] = None THEN [entry EXCEPT ![Own] = NewEntry(0, 0)] ELSE entry)
      /\ link' = Relay(link, Own, Dsee(TRUE, 0, 0)) /\ silent' = 0
  BY DEF Register
<1> QED BY <1>1, <1>3, <1>4, <1>5 DEF ListTypeOK

LEMMA ActivateType ==
  ASSUME ListTypeOK, NEW capable \in BOOLEAN, Activate(capable)
  PROVE  /\ entry' \in [Node -> Entry \cup {None}] /\ link' \in [Peer -> Seq(Message)]
         /\ silent' \in 0..Removal /\ status' \in {"IS_CAPABLE", "NOT_CAPABLE"}
<1>1. CASE Register /\ status' = "IS_CAPABLE"
  BY <1>1, RegisterType
<1>2. CASE UNCHANGED <<entry, link, silent>> /\ status' = "NOT_CAPABLE"
  BY <1>2 DEF ListTypeOK
<1> QED BY <1>1, <1>2 DEF Activate

LEMMA SendDseepType ==
  ASSUME ListTypeOK, NEW stop \in BOOLEAN, NEW before, SendDseep(stop, before)
  PROVE  /\ entry' \in [Node -> Entry \cup {None}] /\ link' \in [Peer -> Seq(Message)]
         /\ silent' \in 0..Removal /\ status' \in {before, "NOT_CAPABLE"}
<1>1. 0 \in 0..SigCap /\ 0 \in 0..Never /\ 0 \in 0..Removal
  BY Times
<1>2. CASE status' = "NOT_CAPABLE" /\ UNCHANGED <<entry, link, silent>>
  BY <1>2 DEF ListTypeOK
<1>3. CASE /\ entry[Own] # None /\ status' = before
           /\ entry' = IF stop THEN [entry EXCEPT ![Own] = None] ELSE [entry EXCEPT ![Own].age = 0]
           /\ link' = Relay(link, Own, Ping(0, stop))
           /\ silent' = IF stop THEN silent ELSE 0
  <2>1. Relay(link, Own, Ping(0, stop)) \in [Peer -> Seq(Message)]
    BY <1>1, PingMessage, RelayUnder, NodeAssumption DEF ListTypeOK
  <2>2. entry[Own] \in Entry
    BY <1>3, NodeAssumption DEF ListTypeOK
  <2>3. PICK f : f = [entry[Own] EXCEPT !.age = 0]
    OBVIOUS
  <2>4. f \in Entry
    BY <1>1, <2>2, <2>3, AgeSet
  <2>5. entry' = [entry EXCEPT ![Own] = IF stop THEN None ELSE f]
    BY <1>3, <2>3
  <2>6. entry' \in [Node -> Entry \cup {None}]
    BY <2>4, <2>5 DEF ListTypeOK
  <2> QED BY <1>1, <1>3, <2>1, <2>6 DEF ListTypeOK
<1> QED BY <1>2, <1>3 DEF SendDseep

LEMMA DseeKnownType ==
  ASSUME ListTypeOK, NEW l \in Peer, NEW lock \in BOOLEAN, NEW port \in BOOLEAN, DseeKnown(l, lock, port)
  PROVE  entry' \in [Node -> Entry \cup {None}] /\ link' \in [Peer -> Seq(Message)]
<1>1. First(l, "dsee") /\ entry[l[2]] # None
  BY DEF DseeKnown
<1>2. entry \in [Node -> Entry \cup {None}] /\ link \in [Peer -> Seq(Message)]
  BY DEF ListTypeOK
<1>3. /\ l[2] \in Node /\ Rest(l) \in [Peer -> Seq(Message)] /\ Head(link[l]) \in Message
      /\ Head(link[l]).kind = "dsee"
  BY <1>1, <1>2, ReceivedType
<1>4. PICK m, n : m = Head(link[l]) /\ n = l[2]
  OBVIOUS
<1>5. m \in Message /\ n \in Node /\ m.sig \in 0..SigCap /\ 0 \in 0..Never /\ entry[n] \in Entry
  BY <1>1, <1>2, <1>3, <1>4, MessageFields, Times
<1>6. PICK e : e = [entry[n] EXCEPT !.age = 0]
  OBVIOUS
<1>7. e \in Entry
  BY <1>5, <1>6, AgeSet
<1>8. PICK g : g = [e EXCEPT !.sig = m.sig, !.open = port]
  OBVIOUS
<1>9. g \in Entry
  BY <1>5, <1>7, <1>8, SigSet
<1>10. PICK f : f = CheckEntry(g, lock)
  OBVIOUS
<1>11. f \in Entry
  BY <1>9, <1>10, CheckedEntry
<1>12. Relay(Rest(l), n, m) \in [Peer -> Seq(Message)]
  BY <1>3, <1>5, RelayUnder
<1>13. /\ entry' = entry \/ entry' = [entry EXCEPT ![n] = e] \/ entry' = [entry EXCEPT ![n] = f]
       /\ link' = Rest(l) \/ link' = Relay(Rest(l), n, m)
  BY <1>4, <1>6, <1>8, <1>10 DEF DseeKnown
<1>14. link' \in [Peer -> Seq(Message)]
  BY <1>3, <1>12, <1>13
<1>15. entry' \in [Node -> Entry \cup {None}]
  BY <1>2, <1>5, <1>7, <1>11, <1>13
<1> QED BY <1>14, <1>15

LEMMA DseeNewType ==
  ASSUME ListTypeOK, NEW l \in Peer, NEW lock \in BOOLEAN, DseeNew(l, lock)
  PROVE  /\ entry' \in [Node -> Entry \cup {None}] /\ link' \in [Peer -> Seq(Message)]
         /\ status' \in {status, "REMOTELY_ENABLED"}
<1>1. First(l, "dsee")
  BY DEF DseeNew
<1>2. entry \in [Node -> Entry \cup {None}] /\ link \in [Peer -> Seq(Message)]
  BY DEF ListTypeOK
<1>3. /\ l[2] \in Node /\ Rest(l) \in [Peer -> Seq(Message)] /\ Head(link[l]) \in Message
      /\ Head(link[l]).kind = "dsee"
  BY <1>1, <1>2, ReceivedType
<1>4. PICK m, n : m = Head(link[l]) /\ n = l[2]
  OBVIOUS
<1>5. m \in Message /\ n \in Node /\ m.sig \in 0..SigCap /\ m.seen \in 0..Never
  BY <1>3, <1>4, MessageFields
<1>6. PICK e : e = NewEntry(m.sig, m.seen)
  OBVIOUS
<1>7. e \in Entry
  BY <1>5, <1>6, NewEntryType
<1>8. Relay(Rest(l), n, m) \in [Peer -> Seq(Message)]
  BY <1>3, <1>5, RelayUnder
<1>9. /\ entry' = entry \/ entry' = [entry EXCEPT ![n] = e]
      /\ link' = Rest(l) \/ link' = Relay(Rest(l), n, m)
      /\ status' = status \/ status' = "REMOTELY_ENABLED"
  BY <1>4, <1>6 DEF DseeNew
<1>10. entry' \in [Node -> Entry \cup {None}]
  BY <1>2, <1>5, <1>7, <1>9
<1> QED BY <1>3, <1>8, <1>9, <1>10

LEMMA DseepKnownType ==
  ASSUME ListTypeOK, NEW l \in Peer, NEW lock \in BOOLEAN, DseepKnown(l, lock)
  PROVE  /\ entry' \in [Node -> Entry \cup {None}] /\ link' \in [Peer -> Seq(Message)]
         /\ disabled' \in BOOLEAN
<1>1. First(l, "dseep") /\ entry[l[2]] # None
  BY DEF DseepKnown
<1>2. entry \in [Node -> Entry \cup {None}] /\ link \in [Peer -> Seq(Message)] /\ disabled \in BOOLEAN
  BY DEF ListTypeOK
<1>3. /\ l[2] \in Node /\ Rest(l) \in [Peer -> Seq(Message)] /\ Head(link[l]) \in Message
      /\ Head(link[l]).kind = "dseep"
  BY <1>1, <1>2, ReceivedType
<1>4. PICK m, n : m = Head(link[l]) /\ n = l[2]
  OBVIOUS
<1>5. /\ m \in Message /\ n \in Node /\ m.sig \in 0..SigCap /\ 0 \in 0..Never /\ entry[n] \in Entry
      /\ m.stop \in BOOLEAN /\ Never \in 0..Never
  BY <1>1, <1>2, <1>3, <1>4, MessageFields, Times
<1>6. PICK e : e = [entry[n] EXCEPT !.dseep = m.sig]
  OBVIOUS
<1>7. e \in Entry
  BY <1>5, <1>6, DseepSet
<1>8. PICK d, g : d = [e EXCEPT !.age = Never] /\ g = [e EXCEPT !.age = 0]
  OBVIOUS
<1>9. d \in Entry /\ g \in Entry
  BY <1>5, <1>7, <1>8, AgeSet
<1>10. PICK f : f = IF m.stop THEN d ELSE CheckEntry(g, lock)
  OBVIOUS
<1>11. f \in Entry
  BY <1>9, <1>10, CheckedEntry
<1>12. Relay(Rest(l), n, m) \in [Peer -> Seq(Message)]
  BY <1>3, <1>5, RelayUnder
<1>13. /\ entry' = entry \/ entry' = [entry EXCEPT ![n] = e] \/ entry' = [entry EXCEPT ![n] = f]
       /\ link' = Rest(l) \/ link' = Relay(Rest(l), n, m)
       /\ disabled' = disabled \/ disabled' = (disabled \/ m.stop)
  BY <1>4, <1>6, <1>8, <1>10 DEF DseepKnown, Disable
<1>14. link' \in [Peer -> Seq(Message)]
  BY <1>3, <1>12, <1>13
<1>15. entry' \in [Node -> Entry \cup {None}]
  BY <1>2, <1>5, <1>7, <1>11, <1>13
<1>16. disabled' \in BOOLEAN
  BY <1>2, <1>5, <1>13
<1> QED BY <1>14, <1>15, <1>16

LEMMA DseepUnknownType ==
  ASSUME ListTypeOK, NEW l \in Peer, DseepUnknown(l)
  PROVE  link' \in [Peer -> Seq(Message)] /\ asked' \in [Node -> 0..MinDseep]
<1>1. First(l, "dseep")
  BY DEF DseepUnknown
<1>2. link \in [Peer -> Seq(Message)] /\ asked \in [Node -> 0..MinDseep]
  BY DEF ListTypeOK
<1>3. <<l[2], l[1]>> \in Peer /\ Rest(l) \in [Peer -> Seq(Message)] /\ MinDseep \in 0..MinDseep
  <2>1. <<l[2], l[1]>> \in Peer /\ Rest(l) \in [Peer -> Seq(Message)]
    BY <1>1, <1>2, ReceivedType
  <2>2. MinDseep \in 0..MinDseep
    BY Times
  <2> QED BY <2>1, <2>2
<1>4. Push(Rest(l), <<l[2], l[1]>>, Dseg) \in [Peer -> Seq(Message)]
  BY <1>3, PushUnder, DsegMessage
<1>5. /\ asked' = asked \/ asked' = [asked EXCEPT ![l[2]] = MinDseep]
      /\ link' = Rest(l) \/ link' = Push(Rest(l), <<l[2], l[1]>>, Dseg)
  BY DEF DseepUnknown
<1> QED BY <1>2, <1>3, <1>4, <1>5

LEMMA AnswerDsegType ==
  ASSUME ListTypeOK, NEW l \in Peer, AnswerDseg(l)
  PROVE  link' \in [Peer -> Seq(Message)]
<1>1. First(l, "dseg")
  BY DEF AnswerDseg
<1>2. link \in [Peer -> Seq(Message)] /\ entry \in [Node -> Entry \cup {None}]
  BY DEF ListTypeOK
<1>3. l[2] \in Node /\ <<l[2], l[1]>> \in Peer /\ Rest(l) \in [Peer -> Seq(Message)]
  BY <1>1, <1>2, ReceivedType
<1>4. PICK e : e = entry[l[2]]
  OBVIOUS
<1>5. \/ link' = Rest(l)
      \/ e # None /\ link' = Push(Rest(l), <<l[2], l[1]>>, Dsee(FALSE, e.sig, e.age))
  BY <1>4 DEF AnswerDseg
<1>6. CASE e # None /\ link' = Push(Rest(l), <<l[2], l[1]>>, Dsee(FALSE, e.sig, e.age))
  <2>1. e \in Entry
    BY <1>2, <1>3, <1>4, <1>6
  <2>2. Dsee(FALSE, e.sig, e.age) \in Message
    BY <2>1, EntryFields, DseeMessage
  <2> QED BY <1>3, <1>6, <2>2, PushUnder
<1> QED BY <1>3, <1>5, <1>6

LEMMA ReceiveType ==
  ASSUME ListTypeOK, NEW l \in Peer, NEW lock \in BOOLEAN, NEW port \in BOOLEAN, Receive(l, lock, port)
  PROVE  ListTypeOK'
<1>1. UNCHANGED <<managed, checked, spent, silent, faults>>
  BY DEF Receive
<1>2. CASE DseeKnown(l, lock, port) /\ UNCHANGED disabled
  <2>1. UNCHANGED <<asked, status>>
    BY <1>2 DEF DseeKnown
  <2> QED BY <1>1, <1>2, <2>1, DseeKnownType DEF ListTypeOK
<1>3. CASE DseeNew(l, lock) /\ UNCHANGED disabled
  <2>1. UNCHANGED asked
    BY <1>3 DEF DseeNew
  <2> QED BY <1>1, <1>3, <2>1, DseeNewType DEF ListTypeOK
<1>4. CASE DseepKnown(l, lock)
  <2>1. UNCHANGED <<asked, status>>
    BY <1>4 DEF DseepKnown
  <2> QED BY <1>1, <1>4, <2>1, DseepKnownType DEF ListTypeOK
<1>5. CASE DseepUnknown(l) /\ UNCHANGED disabled
  <2>1. UNCHANGED <<entry, status>>
    BY <1>5 DEF DseepUnknown
  <2> QED BY <1>1, <1>5, <2>1, DseepUnknownType DEF ListTypeOK
<1>6. CASE AnswerDseg(l) /\ UNCHANGED disabled
  <2>1. UNCHANGED <<entry, asked, status>>
    BY <1>6 DEF AnswerDseg
  <2> QED BY <1>1, <1>6, <2>1, AnswerDsegType DEF ListTypeOK
<1> QED BY <1>2, <1>3, <1>4, <1>5, <1>6 DEF Receive

(* Ages grow by one up to their cap. *)
LEMMA OlderAge ==
  ASSUME NEW cap \in Nat, NEW age \in Nat
  PROVE  /\ Older(age, cap) \in Nat /\ Older(age, cap) = (IF age < cap THEN age + 1 ELSE age)
         /\ age <= cap => Older(age, cap) <= cap
         /\ Older(age, cap) >= age /\ Older(age, cap) <= age + 1
BY DEF Older

LEMMA OlderIn ==
  ASSUME NEW cap \in Nat, NEW top \in Nat, cap <= top, NEW age \in 0..top
  PROVE  Older(age, cap) \in 0..top
BY DEF Older

LEMMA OlderTimes ==
  /\ \A s \in 0..SigCap : Older(s, SigCap) \in 0..SigCap
  /\ \A a \in 0..Never : Older(a, Removal) \in 0..Never
<1>1. SigCap \in Nat /\ Removal \in Nat /\ Never \in Nat /\ SigCap <= SigCap /\ Removal <= Never
  BY Times
<1>2. \A s \in 0..SigCap : Older(s, SigCap) \in 0..SigCap
  BY <1>1, OlderIn
<1>3. \A a \in 0..Never : Older(a, Removal) \in 0..Never
  BY <1>1, OlderIn
<1> QED BY <1>2, <1>3

(* A message under way grows older by a minute. *)
LEMMA OlderMessageFields ==
  ASSUME NEW m \in Message, m.wait < Delay
  PROVE  /\ OlderMessage(m) \in Message
         /\ OlderMessage(m).kind = m.kind /\ OlderMessage(m).wait = m.wait + 1
         /\ m.kind = "dsee" => /\ OlderMessage(m).sig = Older(m.sig, SigCap)
                               /\ OlderMessage(m).seen = Older(m.seen, Removal)
                               /\ OlderMessage(m).new = m.new
         /\ m.kind = "dseep" => /\ OlderMessage(m).sig = Older(m.sig, SigCap)
                                /\ OlderMessage(m).stop = m.stop
<1>1. m.wait + 1 \in 0..Delay
  BY MessageFields, Times
<1>2. PICK M : M = OlderMessage(m)
  OBVIOUS
<1>3. CASE m.kind = "dsee"
  <2>1. PICK a \in BOOLEAN, b \in 0..SigCap, c \in 0..Never, w \in 0..Delay :
           m = [kind |-> "dsee", new |-> a, sig |-> b, seen |-> c, wait |-> w]
    BY <1>3, MessageFields
  <2>2. Older(b, SigCap) \in 0..SigCap /\ Older(c, Removal) \in 0..Never
    BY <2>1, OlderTimes
  <2>3. M = [m EXCEPT !.wait = m.wait + 1, !.sig = Older(m.sig, SigCap), !.seen = Older(m.seen, Removal)]
    BY <1>2, <1>3 DEF OlderMessage
  <2>4. M = [kind |-> "dsee", new |-> a, sig |-> Older(b, SigCap), seen |-> Older(c, Removal), wait |-> w + 1]
    BY <2>1, <2>3
  <2>5. M \in Message
    BY <1>1, <2>1, <2>2, <2>4 DEF Message
  <2> QED BY <1>2, <1>3, <2>1, <2>4, <2>5
<1>4. CASE m.kind = "dseep"
  <2>1. PICK b \in 0..SigCap, c \in BOOLEAN, w \in 0..Delay :
           m = [kind |-> "dseep", sig |-> b, stop |-> c, wait |-> w]
    BY <1>4, MessageFields
  <2>2. Older(b, SigCap) \in 0..SigCap
    BY <2>1, OlderTimes
  <2>3. M = [m EXCEPT !.wait = m.wait + 1, !.sig = Older(m.sig, SigCap)]
    BY <1>2, <1>4 DEF OlderMessage
  <2>4. M = [kind |-> "dseep", sig |-> Older(b, SigCap), stop |-> c, wait |-> w + 1]
    BY <2>1, <2>3
  <2>5. M \in Message
    BY <1>1, <2>1, <2>2, <2>4 DEF Message
  <2> QED BY <1>2, <1>4, <2>1, <2>4, <2>5
<1>5. CASE m.kind = "dseg"
  <2>1. PICK w \in 0..Delay : m = [kind |-> "dseg", wait |-> w]
    BY <1>5, MessageFields
  <2>2. M = [m EXCEPT !.wait = m.wait + 1]
    BY <1>2, <1>5 DEF OlderMessage
  <2>3. M = [kind |-> "dseg", wait |-> w + 1]
    BY <2>1, <2>2
  <2>4. M \in Message
    BY <1>1, <2>1, <2>3 DEF Message
  <2> QED BY <1>2, <1>5, <2>1, <2>3, <2>4
<1> QED BY <1>3, <1>4, <1>5, MessageFields

(* An entry grows older by a minute. *)
OlderEntry(e) == [e EXCEPT !.age = Older(@, Removal), !.sig = Older(@, SigCap), !.dseep = Older(@, SigCap)]

LEMMA OlderEntryFields ==
  ASSUME NEW e \in Entry
  PROVE  /\ OlderEntry(e) \in Entry /\ OlderEntry(e).age = Older(e.age, Removal)
         /\ OlderEntry(e).sig = Older(e.sig, SigCap) /\ OlderEntry(e).dseep = Older(e.dseep, SigCap)
         /\ OlderEntry(e).state = e.state
<1>1. e.state \in State /\ e.age \in 0..Never /\ e.sig \in 0..SigCap /\ e.dseep \in 0..SigCap
  BY EntryFields
<1>2. PICK a, s, d : a = Older(e.age, Removal) /\ s = Older(e.sig, SigCap) /\ d = Older(e.dseep, SigCap)
  OBVIOUS
<1>3. a \in 0..Never /\ s \in 0..SigCap /\ d \in 0..SigCap
  BY <1>1, <1>2, OlderTimes
<1>4. PICK f : f = [e EXCEPT !.age = a, !.sig = s, !.dseep = d]
  OBVIOUS
<1>5. OlderEntry(e) = f
  BY <1>2, <1>4 DEF OlderEntry
<1>6. f \in Entry /\ f.age = a /\ f.sig = s /\ f.dseep = d /\ f.state = e.state
  BY <1>3, <1>4 DEF Entry
<1> QED BY <1>2, <1>5, <1>6

(* A minute keeps the queues and makes every message in them older. *)
LEMMA OlderQueues ==
  ASSUME NEW L \in [Peer -> Seq(Message)], \A m \in Under(L) : m.wait < Delay,
         NEW M, M = [l \in Peer |-> [i \in DOMAIN L[l] |-> OlderMessage(L[l][i])]]
  PROVE  /\ M \in [Peer -> Seq(Message)]
         /\ \A l \in Peer : Len(M[l]) = Len(L[l])
         /\ \A m \in Under(M) : \E k \in Under(L) : m = OlderMessage(k)
<1>1. ASSUME NEW l \in Peer
      PROVE  /\ M[l] \in Seq(Message) /\ Len(M[l]) = Len(L[l])
             /\ \A i \in 1..Len(L[l]) : M[l][i] = OlderMessage(L[l][i])
  <2>1. L[l] \in Seq(Message)
    OBVIOUS
  <2>2. PICK c \in Nat : c = Len(L[l]) /\ DOMAIN L[l] = 1..c
    BY <2>1, LenProperties
  <2>3. M[l] = [i \in 1..c |-> OlderMessage(L[l][i])]
    BY <2>2
  <2>4. \A i \in 1..c : L[l][i] \in Under(L)
    BY <2>2, UnderIn
  <2>5. \A i \in 1..c : OlderMessage(L[l][i]) \in Message
    BY <2>4, OlderMessageFields DEF Under
  <2>6. M[l] \in [1..c -> Message]
    BY <2>3, <2>5
  <2>7. M[l] \in Seq(Message)
    BY <2>6, SeqDef
  <2>8. Len(M[l]) = c
    BY <2>2, <2>6, <2>7, LenProperties
  <2> QED BY <2>2, <2>3, <2>7, <2>8
<1>2. M \in [Peer -> Seq(Message)]
  <2>1. PICK f : f = [l \in Peer |-> M[l]]
    OBVIOUS
  <2>2. f = M /\ f \in [Peer -> Seq(Message)]
    BY <1>1, <2>1
  <2> QED BY <2>2
<1>3. ASSUME NEW m \in Under(M) PROVE \E k \in Under(L) : m = OlderMessage(k)
  <2>1. PICK l \in Peer : \E i \in 1..Len(M[l]) : M[l][i] = m
    BY DEF Under
  <2>2. PICK i \in 1..Len(L[l]) : M[l][i] = m
    BY <1>1, <2>1
  <2>3. L[l][i] \in Under(L) /\ m = OlderMessage(L[l][i])
    BY <1>1, <2>2, UnderIn
  <2> QED BY <2>3
<1> QED BY <1>1, <1>2, <1>3

(* The guard of Minute, for the messages under way. *)
LEMMA AllDue ==
  ASSUME \A l \in Peer : \A i \in DOMAIN link[l] : link[l][i].wait < Delay,
         link \in [Peer -> Seq(Message)]
  PROVE  \A m \in Under(link) : m.wait < Delay
<1>1. \A l \in Peer : DOMAIN link[l] = 1..Len(link[l])
  BY LenProperties
<1> QED BY <1>1 DEF Under

LEMMA MinuteType == ASSUME ListTypeOK, Minute PROVE ListTypeOK'
<1>1. /\ entry \in [Node -> Entry \cup {None}] /\ asked \in [Node -> 0..MinDseep]
      /\ link \in [Peer -> Seq(Message)] /\ silent \in 0..Removal
  BY DEF ListTypeOK
<1>2. link' \in [Peer -> Seq(Message)]
  <2>1. link' = [l \in Peer |-> [i \in DOMAIN link[l] |-> OlderMessage(link[l][i])]]
    BY DEF Minute
  <2>2. \A m \in Under(link) : m.wait < Delay
    <3>1. \A l \in Peer : \A i \in DOMAIN link[l] : link[l][i].wait < Delay
      BY DEF Minute
    <3> QED BY <1>1, <3>1, AllDue
  <2> QED BY <1>1, <2>1, <2>2, OlderQueues
<1>3. entry' \in [Node -> Entry \cup {None}]
  <2>1. entry' = [n \in Node |-> IF entry[n] = None THEN None ELSE OlderEntry(entry[n])]
    BY DEF Minute, OlderEntry
  <2>2. \A n \in Node : entry[n] # None => OlderEntry(entry[n]) \in Entry
    BY <1>1, OlderEntryFields
  <2> QED BY <2>1, <2>2
<1>4. asked' \in [Node -> 0..MinDseep]
  <2>1. asked' = [n \in Node |-> IF asked[n] > 0 THEN asked[n] - 1 ELSE 0]
    BY DEF Minute
  <2>2. \A n \in Node : (IF asked[n] > 0 THEN asked[n] - 1 ELSE 0) \in 0..MinDseep
    BY <1>1, Times
  <2> QED BY <2>1, <2>2
<1>5. silent' \in 0..Removal
  <2>1. silent' = Older(silent, Removal)
    BY DEF Minute
  <2> QED BY <1>1, <2>1, OlderAge, Times
<1>6. managed' = FALSE /\ checked' = {} /\ UNCHANGED <<status, spent, disabled, faults>>
  BY DEF Minute
<1> QED BY <1>2, <1>3, <1>4, <1>5, <1>6 DEF ListTypeOK

LEMMA CheckType ==
  ASSUME ListTypeOK, NEW n \in Node, NEW lock \in BOOLEAN, Check(n, lock) \/ CheckAndRemove(n, lock)
  PROVE  ListTypeOK'
<1>1. entry \in [Node -> Entry \cup {None}] /\ entry[n] # None
  BY DEF ListTypeOK, Check, CheckAndRemove
<1>2. PICK f : f = CheckEntry(entry[n], lock)
  OBVIOUS
<1>3. f \in Entry
  BY <1>1, <1>2, CheckedEntry
<1>4. entry' = [entry EXCEPT ![n] = f] \/ entry' = [entry EXCEPT ![n] = None]
  BY <1>2 DEF Check, CheckAndRemove
<1>5. entry' \in [Node -> Entry \cup {None}]
  BY <1>1, <1>3, <1>4
<1>6. checked' \subseteq Node
  BY DEF Check, CheckAndRemove, ListTypeOK
<1>7. UNCHANGED <<asked, link, status, managed, spent, silent, disabled, faults>>
  BY DEF Check, CheckAndRemove
<1> QED BY <1>5, <1>6, <1>7 DEF ListTypeOK

(* A lost connection and a dead node lose messages only. *)
LEMMA DropUnder ==
  ASSUME NEW l \in Peer, link \in [Peer -> Seq(Message)], NEW M,
         M = [link EXCEPT ![l] = << >>, ![<<l[2], l[1]>>] = << >>]
  PROVE  /\ M \in [Peer -> Seq(Message)] /\ Under(M) \subseteq Under(link)
         /\ \A k \in Peer : link[k] = << >> => M[k] = << >>
<1>1. << >> \in Seq(Message) /\ Len(<< >>) = 0
  BY EmptySeq
<1>2. \A k \in Peer : M[k] = link[k] \/ M[k] = << >>
  OBVIOUS
<1>3. M \in [Peer -> Seq(Message)]
  BY <1>1
<1>4. \A k \in Peer : \A i \in 1..Len(M[k]) : M[k] = link[k]
  BY <1>1, <1>2
<1>5. ASSUME NEW m \in Under(M) PROVE m \in Under(link)
  <2>1. PICK k \in Peer : \E i \in 1..Len(M[k]) : M[k][i] = m
    BY DEF Under
  <2>2. M[k] = link[k]
    BY <1>4, <2>1
  <2> QED BY <2>1, <2>2 DEF Under
<1>6. Under(M) \subseteq Under(link)
  BY <1>5
<1> QED BY <1>2, <1>3, <1>6

LEMMA DieUnder ==
  ASSUME link \in [Peer -> Seq(Message)], NEW M,
         M = [l \in Peer |-> IF l[2] = Own THEN << >> ELSE link[l]]
  PROVE  /\ M \in [Peer -> Seq(Message)] /\ Under(M) \subseteq Under(link)
         /\ \A k \in Peer : k[2] = Own => M[k] = << >>
<1>1. << >> \in Seq(Message) /\ Len(<< >>) = 0
  BY EmptySeq
<1>2. \A k \in Peer : M[k] = link[k] \/ M[k] = << >>
  OBVIOUS
<1>3. M \in [Peer -> Seq(Message)]
  BY <1>1
<1>4. \A k \in Peer : \A i \in 1..Len(M[k]) : M[k] = link[k]
  BY <1>1, <1>2
<1>5. Under(M) \subseteq Under(link)
  BY <1>4 DEF Under
<1> QED BY <1>3, <1>5

(* The number of faults stays within its bound. *)
LEMMA FaultType ==
  ASSUME ListTypeOK, NEW kind, Fault(kind)
  PROVE  faults' \in 0..MaxFaults
<1>1. faults \in Nat
  BY DEF ListTypeOK
<1>2. faults' \in Nat /\ faults' <= MaxFaults
  BY <1>1 DEF Fault
<1> QED BY <1>2, Times

(* Every step keeps the types. *)
LEMMA ListTypesNext == ListTypeOK /\ [ListNext]_listVars => ListTypeOK'
<1> SUFFICES ASSUME ListTypeOK, [ListNext]_listVars PROVE ListTypeOK'
  OBVIOUS
<1>1. CASE UNCHANGED listVars
  BY <1>1 DEF listVars, ListTypeOK
<1>2. ASSUME NEW capable \in BOOLEAN, ManageStatus(capable) PROVE ListTypeOK'
  <2>1. /\ entry' \in [Node -> Entry \cup {None}] /\ link' \in [Peer -> Seq(Message)]
        /\ silent' \in 0..Removal /\ status' \in {status, "IS_CAPABLE", "NOT_CAPABLE"}
    <3>1. CASE Activate(capable)
      BY <3>1, ActivateType
    <3>2. CASE SendDseep(FALSE, status)
      BY <3>2, SendDseepType
    <3>3. CASE UNCHANGED <<entry, link, status, silent>>
      BY <3>3 DEF ListTypeOK
    <3> QED BY <1>2, <3>1, <3>2, <3>3 DEF ManageStatus
  <2>2. managed' = TRUE /\ UNCHANGED <<asked, checked, spent, disabled, faults>>
    BY <1>2 DEF ManageStatus
  <2> QED BY <2>1, <2>2 DEF ListTypeOK
<1>3. ASSUME NEW capable \in BOOLEAN, StartMasterNode(capable) PROVE ListTypeOK'
  <2>1. Activate(capable) /\ UNCHANGED <<asked, managed, checked, spent, disabled, faults>>
    BY <1>3 DEF StartMasterNode
  <2> QED BY <2>1, ActivateType DEF ListTypeOK
<1>4. CASE StopMasterNode
  <2>1. Fault("stop") /\ SendDseep(TRUE, "STOPPED") /\ UNCHANGED <<asked, managed, checked, spent, disabled>>
    BY <1>4 DEF StopMasterNode
  <2> QED BY <2>1, SendDseepType, FaultType DEF ListTypeOK
<1>5. ASSUME NEW l \in Peer, NEW lock \in BOOLEAN, NEW port \in BOOLEAN, Receive(l, lock, port)
      PROVE  ListTypeOK'
  BY <1>5, ReceiveType
<1>6. ASSUME NEW n \in Node, NEW lock \in BOOLEAN, Check(n, lock) \/ CheckAndRemove(n, lock)
      PROVE  ListTypeOK'
  BY <1>6, CheckType
<1>7. CASE Spend
  <2>1. Fault("spend") /\ spent' = ~spent
        /\ UNCHANGED <<entry, asked, link, status, managed, checked, silent, disabled>>
    BY <1>7 DEF Spend
  <2>2. spent' \in BOOLEAN
    BY <2>1
  <2> QED BY <2>1, <2>2, FaultType DEF ListTypeOK
<1>8. ASSUME NEW l \in Peer, Drop(l) PROVE ListTypeOK'
  <2>1. /\ Fault("drop") /\ link' = [link EXCEPT ![l] = << >>, ![<<l[2], l[1]>>] = << >>]
        /\ UNCHANGED <<entry, asked, status, managed, checked, spent, silent, disabled>>
    BY <1>8 DEF Drop
  <2>2. link' \in [Peer -> Seq(Message)]
    BY <2>1, DropUnder DEF ListTypeOK
  <2> QED BY <2>1, <2>2, FaultType DEF ListTypeOK
<1>9. CASE Die
  <2>1. /\ Fault("die") /\ status' = "DOWN" /\ entry' = [entry EXCEPT ![Own] = None]
        /\ asked' = [asked EXCEPT ![Own] = 0] /\ managed' = FALSE
        /\ link' = [l \in Peer |-> IF l[2] = Own THEN << >> ELSE link[l]]
        /\ UNCHANGED <<checked, spent, silent, disabled>>
    BY <1>9 DEF Die
  <2>2. link' \in [Peer -> Seq(Message)]
    BY <2>1, DieUnder DEF ListTypeOK
  <2>3. entry' \in [Node -> Entry \cup {None}] /\ asked' \in [Node -> 0..MinDseep]
    <3>1. 0 \in 0..MinDseep
      BY Times
    <3>2. entry \in [Node -> Entry \cup {None}] /\ asked \in [Node -> 0..MinDseep]
      BY DEF ListTypeOK
    <3> QED BY <2>1, <3>1, <3>2
  <2>4. faults' \in 0..MaxFaults
    BY <2>1, FaultType
  <2> QED BY <2>1, <2>2, <2>3, <2>4 DEF ListTypeOK
<1>10. CASE Minute
  BY <1>10, MinuteType
<1> QED
  BY <1>1, <1>2, <1>3, <1>4, <1>5, <1>6, <1>7, <1>8, <1>9, <1>10 DEF ListNext

(* The initial state has them. *)
LEMMA ListTypesInit == ListInit => ListTypeOK
<1> SUFFICES ASSUME ListInit PROVE ListTypeOK
  OBVIOUS
<1>1. 0 \in 0..MinDseep /\ 0 \in 0..Removal /\ 0 \in 0..MaxFaults /\ << >> \in Seq(Message)
  BY Times, EmptySeq
<1> QED BY <1>1 DEF ListInit, ListTypeOK

(* The list, the connections and the masternode's status keep their types, also *)
(* through stops and a spent collateral.                                        *)
THEOREM ListTypesCorrect == ListSpec => []ListTypeOK
BY ListTypesInit, ListTypesNext, PTL DEF ListSpec

-----------------------------------------------------------------------------
(* The age of what is listed.  The masternode is never stopped by its user and  *)
(* its collateral stays unspent; the ages of signatures and entries that occur  *)
(* while a message goes once through each node can be told apart.               *)
Undisturbed ==
  /\ FaultKind \subseteq {"drop", "die"}
  /\ Hops * Delay + Delay < SigCap
  /\ Hops * Delay + Delay + MinDseep < Removal

(* An entry that the next announcement or ping finds in the list. *)
Holds(e) == e # None /\ e.state # "REMOVE"

(* The nodes that have taken a ping signed s ticks ago or a later one, and the *)
(* nodes that have taken the announcement.  The masternode counts once dead.   *)
Pinged(E, st, s) == {n \in Node : (n = Own /\ st = "DOWN") \/ (Holds(E[n]) /\ E[n].dseep <= s)}
Announced(E) == {n \in Node \ {Own} : Holds(E[n])}

(* All entries and announcements carry one signature, of age A.  An entry is as *)
(* old as the silence, up to the time messages take, and not much older than    *)
(* the last signatures it has seen.                                             *)
EntryOK(e, sil, A) ==
  /\ e.sig = A /\ e.state # "VIN_SPENT" /\ e.age <= Removal
  /\ e.age + Hops * Delay >= sil
  /\ e.dseep < SigCap => e.age <= e.dseep + MinDseep
  /\ A < SigCap => e.age <= A

(* A broadcast under way has taken Delay for each node that took it before. *)
AnnouncementOK(m, E, sil, A) ==
  /\ m.sig = A /\ m.seen <= Removal /\ m.seen + Hops * Delay >= sil
  /\ A < SigCap => m.seen <= A
  /\ m.new => /\ sil <= m.sig
              /\ m.sig <= Delay * Cardinality(Announced(E)) + m.wait

PingOK(m, E, st, sil) ==
  /\ ~m.stop /\ sil <= m.sig
  /\ m.sig <= Delay * Cardinality(Pinged(E, st, m.sig)) + m.wait

MessageOK(m, E, st, sil, A) ==
  /\ m.kind = "dsee" => AnnouncementOK(m, E, sil, A)
  /\ m.kind = "dseep" => PingOK(m, E, st, sil)

EntriesOK(E, sil, A) == \A n \in Node : E[n] # None => EntryOK(E[n], sil, A)
MessagesOK(L, E, st, sil, A) == \A m \in Under(L) : MessageOK(m, E, st, sil, A)
Agreed(E, L, st, sil, A) == EntriesOK(E, sil, A) /\ MessagesOK(L, E, st, sil, A)

(* Before its first announcement nobody has heard of the masternode; while it   *)
(* runs it lists itself and sees itself every minute; once dead it hears        *)
(* nothing.                                                                     *)
IsIdle(st) == st \in {"NOT_PROCESSED", "NOT_CAPABLE"}
IsRunning(st) == st \in {"IS_CAPABLE", "REMOTELY_ENABLED"}
OwnOK(E, L, st, mg) ==
  /\ IsIdle(st) \/ IsRunning(st) \/ st = "DOWN"
  /\ IsIdle(st) => (\A n \in Node : E[n] = None) /\ (\A l \in Peer : L[l] = << >>)
  /\ IsRunning(st) => Holds(E[Own]) /\ E[Own].age <= (IF mg THEN 0 ELSE 1)
  /\ st = "DOWN" => E[Own] = None /\ \A l \in Peer : l[2] = Own => L[l] = << >>

LInv ==
  /\ ListTypeOK /\ ~spent /\ ~disabled
  /\ OwnOK(entry, link, status, managed)
  /\ \E A \in 0..SigCap : Agreed(entry, link, status, silent, A)

(* Counting the nodes a message has gone through. *)
LEMMA Multiples ==
  ASSUME NEW d \in Nat, NEW a \in Nat, NEW b \in Nat
  PROVE  /\ d * a \in Nat /\ a * d = d * a
         /\ a <= b => d * a <= d * b
         /\ a + 1 <= b => d * a + d <= d * b
<1>1. d * a \in Nat /\ d * b \in Nat /\ a * d = d * a
  OBVIOUS
<1>2. a <= b => d * a <= d * b
  OBVIOUS
<1>3. d * (a + 1) = d * a + d
  OBVIOUS
<1>4. a + 1 <= b => d * (a + 1) <= d * b
  OBVIOUS
<1> QED BY <1>1, <1>2, <1>3, <1>4

(* A larger set of nodes takes longer to go through, none longer than all of them. *)
LEMMA Reaches ==
  ASSUME NEW T, T \subseteq Node, NEW S, S \subseteq T
  PROVE  /\ Cardinality(S) \in Nat /\ Delay * Cardinality(S) \in Nat
         /\ Delay * Cardinality(S) <= Delay * Cardinality(T)
         /\ \A n \in T : n \notin S => Delay * Cardinality(S) + Delay <= Delay * Cardinality(T)
         /\ Delay * Cardinality(T) <= Hops * Delay /\ Hops * Delay \in Nat
<1>1. IsFiniteSet(T) /\ IsFiniteSet(S) /\ IsFiniteSet(Node)
  BY FS_Subset, NodeAssumption
<1>2. PICK s, t, h \in Nat : s = Cardinality(S) /\ t = Cardinality(T) /\ h = Cardinality(Node)
  BY <1>1, FS_CardinalityType
<1>3. s <= t /\ t <= h
  BY <1>1, <1>2, FS_Subset
<1>4. ASSUME NEW n \in T, n \notin S PROVE s + 1 <= t
  <2>1. S # T
    BY <1>4
  <2>2. s < t
    BY <1>1, <1>2, <2>1, FS_Subset
  <2> QED BY <2>2
<1>5. Delay \in Nat
  BY Times
<1>6. Delay * s \in Nat /\ Delay * s <= Delay * t /\ Delay * t <= Delay * h /\ h * Delay = Delay * h
      /\ Delay * h \in Nat /\ (s + 1 <= t => Delay * s + Delay <= Delay * t)
  BY <1>3, <1>5, Multiples
<1>7. Hops * Delay = h * Delay
  BY <1>2 DEF Hops
<1>8. \A n \in T : n \notin S => Delay * s + Delay <= Delay * t
  BY <1>4, <1>6
<1> QED BY <1>2, <1>6, <1>7, <1>8

(* The sets that are counted are sets of nodes. *)
LEMMA Sets ==
  ASSUME NEW E, NEW st, NEW s
  PROVE  Pinged(E, st, s) \subseteq Node /\ Announced(E) \subseteq Node /\ Own \notin Announced(E)
BY DEF Pinged, Announced

(* The longest way a message takes stays below the caps. *)
LEMMA MaxReach ==
  ASSUME Undisturbed
  PROVE  /\ Hops * Delay \in Nat /\ Hops * Delay + Delay < SigCap
         /\ Hops * Delay + Delay + MinDseep < Removal
BY Reaches DEF Undisturbed

(* A broadcast is young.  A node that has not taken it yet hears of it within the *)
(* time the property allows.                                                      *)
LEMMA PingYoung ==
  ASSUME Undisturbed, NEW m \in Message, m.kind = "dseep", NEW E, NEW st, NEW sil \in Nat, PingOK(m, E, st, sil)
  PROVE  /\ m.sig \in Nat /\ m.sig < SigCap /\ m.sig + MinDseep < Removal /\ sil <= m.sig /\ ~m.stop
         /\ \A n \in Node : n \notin Pinged(E, st, m.sig) => sil <= Hops * Delay
<1>1. m.sig \in 0..SigCap /\ m.wait \in 0..Delay
  BY MessageFields
<1>2. PICK c : c = Delay * Cardinality(Pinged(E, st, m.sig))
  OBVIOUS
<1>3. /\ c \in Nat /\ c <= Hops * Delay /\ Hops * Delay \in Nat
      /\ \A n \in Node : n \notin Pinged(E, st, m.sig) => c + Delay <= Hops * Delay
  <2>1. Pinged(E, st, m.sig) \subseteq Node /\ Node \subseteq Node
    BY Sets
  <2>2. /\ c \in Nat /\ c <= Delay * Cardinality(Node) /\ Delay * Cardinality(Node) <= Hops * Delay
        /\ Hops * Delay \in Nat
        /\ \A n \in Node : n \notin Pinged(E, st, m.sig) => c + Delay <= Delay * Cardinality(Node)
    BY <1>2, <2>1, Reaches
  <2>3. Delay * Cardinality(Node) \in Nat
    BY Reaches
  <2>4. PICK x \in Nat, h \in Nat : x = Delay * Cardinality(Node) /\ h = Hops * Delay
    BY <2>2, <2>3
  <2>5. c \in Nat /\ c <= x /\ x <= h /\ \A n \in Node : n \notin Pinged(E, st, m.sig) => c + Delay <= x
    BY <2>2, <2>4
  <2>6. Delay \in Nat
    BY Times
  <2>7. c <= h /\ \A n \in Node : n \notin Pinged(E, st, m.sig) => c + Delay <= h
    BY <2>5, <2>6
  <2> QED BY <2>2, <2>4, <2>5, <2>7
<1>4. m.sig <= c + m.wait /\ sil <= m.sig /\ ~m.stop
  BY <1>2 DEF PingOK
<1>5. Hops * Delay + Delay < SigCap /\ Hops * Delay + Delay + MinDseep < Removal
  BY MaxReach
<1>6. PICK h \in Nat : h = Hops * Delay
  BY <1>3
<1>7. MinDseep \in Nat /\ Removal \in Nat /\ Delay \in Nat /\ SigCap \in Nat
  BY Times
<1>8. m.sig < SigCap /\ m.sig + MinDseep < Removal
  BY <1>1, <1>3, <1>4, <1>5, <1>6, <1>7
<1>9. ASSUME NEW n \in Node, n \notin Pinged(E, st, m.sig) PROVE sil <= Hops * Delay
  <2>1. c + Delay <= h
    BY <1>3, <1>6, <1>9
  <2> QED BY <2>1, <1>1, <1>3, <1>4, <1>6, <1>7
<1> QED BY <1>1, <1>4, <1>8, <1>9

(* The same for an announcement, which Own itself never counts for. *)
LEMMA AnnouncementYoung ==
  ASSUME Undisturbed, NEW m \in Message, m.kind = "dsee", m.new, NEW E, NEW sil \in Nat, NEW A,
         AnnouncementOK(m, E, sil, A)
  PROVE  /\ m.sig = A /\ A \in Nat /\ A < SigCap /\ A < Removal /\ sil <= A /\ sil <= Hops * Delay
<1>1. m.sig \in 0..SigCap /\ m.wait \in 0..Delay /\ m.sig = A
  BY MessageFields DEF AnnouncementOK
<1>2. PICK c : c = Delay * Cardinality(Announced(E))
  OBVIOUS
<1>3. c \in Nat /\ c + Delay <= Hops * Delay /\ Hops * Delay \in Nat
  <2>1. Announced(E) \subseteq Node /\ Node \subseteq Node /\ Own \in Node /\ Own \notin Announced(E)
    BY Sets, NodeAssumption
  <2>2. c \in Nat /\ Delay * Cardinality(Node) <= Hops * Delay /\ Hops * Delay \in Nat
        /\ c + Delay <= Delay * Cardinality(Node)
    BY <1>2, <2>1, Reaches
  <2>3. Delay * Cardinality(Node) \in Nat
    BY Reaches
  <2>4. PICK x \in Nat, h \in Nat : x = Delay * Cardinality(Node) /\ h = Hops * Delay
    BY <2>2, <2>3
  <2> QED BY <2>2, <2>4, Times
<1>4. m.sig <= c + m.wait /\ sil <= m.sig
  BY <1>2 DEF AnnouncementOK
<1>5. Hops * Delay + Delay < SigCap /\ Hops * Delay + Delay + MinDseep < Removal
  BY MaxReach
<1>6. PICK h \in Nat : h = Hops * Delay
  BY <1>3
<1>7. MinDseep \in Nat /\ Removal \in Nat /\ Delay \in Nat /\ SigCap \in Nat
  BY Times
<1>8. A < SigCap /\ A < Removal /\ sil <= h
  BY <1>1, <1>3, <1>4, <1>5, <1>6, <1>7
<1> QED BY <1>1, <1>4, <1>6, <1>8

(* What stays true of a message when other nodes take it. *)
LEMMA StillOK ==
  ASSUME NEW m \in Message, NEW E, NEW E2, NEW st, NEW st2, NEW sil \in Nat, NEW sil2 \in Nat, sil2 <= sil,
         NEW A, MessageOK(m, E, st, sil, A),
         m.kind = "dsee" /\ m.new => Announced(E) \subseteq Announced(E2),
         m.kind = "dseep" => Pinged(E, st, m.sig) \subseteq Pinged(E2, st2, m.sig)
  PROVE  MessageOK(m, E2, st2, sil2, A)
<1>1. ASSUME m.kind = "dsee" PROVE AnnouncementOK(m, E2, sil2, A)
  <2>1. AnnouncementOK(m, E, sil, A) /\ m.sig \in Nat /\ m.seen \in Nat /\ m.wait \in Nat /\ m.new \in BOOLEAN
    BY <1>1, MessageFields, Times DEF MessageOK
  <2>2. Hops * Delay \in Nat
    BY Reaches
  <2>3. PICK h \in Nat : h = Hops * Delay
    BY <2>2
  <2>4. m.sig = A /\ m.seen <= Removal /\ (A < SigCap => m.seen <= A) /\ m.seen + Hops * Delay >= sil
    BY <2>1 DEF AnnouncementOK
  <2>5. m.seen + Hops * Delay >= sil2
    BY <2>1, <2>3, <2>4
  <2>6. ASSUME m.new PROVE sil2 <= m.sig /\ m.sig <= Delay * Cardinality(Announced(E2)) + m.wait
    <3>1. Announced(E) \subseteq Announced(E2) /\ Announced(E2) \subseteq Node
      BY <1>1, <2>6, Sets
    <3>2. /\ Delay * Cardinality(Announced(E)) \in Nat
          /\ Delay * Cardinality(Announced(E)) <= Delay * Cardinality(Announced(E2))
      BY <3>1, Reaches
    <3>3. Delay * Cardinality(Announced(E2)) \in Nat
      BY <3>1, Reaches
    <3>4. PICK c \in Nat, d \in Nat : c = Delay * Cardinality(Announced(E)) /\ d = Delay * Cardinality(Announced(E2))
      BY <3>2, <3>3
    <3>5. sil <= m.sig /\ m.sig <= c + m.wait /\ c <= d
      BY <2>1, <2>6, <3>2, <3>4 DEF AnnouncementOK
    <3> QED BY <2>1, <3>4, <3>5
  <2> QED BY <2>4, <2>5, <2>6 DEF AnnouncementOK
<1>2. ASSUME m.kind = "dseep" PROVE PingOK(m, E2, st2, sil2)
  <2>1. PingOK(m, E, st, sil) /\ m.sig \in Nat /\ m.wait \in Nat
    BY <1>2, MessageFields, Times DEF MessageOK
  <2>2. Pinged(E, st, m.sig) \subseteq Pinged(E2, st2, m.sig) /\ Pinged(E2, st2, m.sig) \subseteq Node
    BY <1>2, Sets
  <2>3. /\ Delay * Cardinality(Pinged(E, st, m.sig)) \in Nat
        /\ Delay * Cardinality(Pinged(E, st, m.sig)) <= Delay * Cardinality(Pinged(E2, st2, m.sig))
    BY <2>2, Reaches
  <2>4. Delay * Cardinality(Pinged(E2, st2, m.sig)) \in Nat
    BY <2>2, Reaches
  <2>5. PICK c \in Nat, d \in Nat :
          c = Delay * Cardinality(Pinged(E, st, m.sig)) /\ d = Delay * Cardinality(Pinged(E2, st2, m.sig))
    BY <2>3, <2>4
  <2>6. ~m.stop /\ sil <= m.sig /\ m.sig <= c + m.wait /\ c <= d
    BY <2>1, <2>3, <2>5 DEF PingOK
  <2>7. sil2 <= m.sig /\ m.sig <= d + m.wait
    BY <2>1, <2>6
  <2> QED BY <2>5, <2>6, <2>7 DEF PingOK
<1> QED BY <1>1, <1>2 DEF MessageOK

(* Passing a message on after taking it. *)
LEMMA PassedOn ==
  ASSUME NEW m \in Message, NEW E, NEW E2, NEW st, NEW sil \in Nat, NEW A, MessageOK(m, E, st, sil, A),
         m.kind = "dsee" => m.new /\ Announced(E) \subseteq Announced(E2) /\ \E n \in Announced(E2) : n \notin Announced(E),
         m.kind = "dseep" => /\ Pinged(E, st, m.sig) \subseteq Pinged(E2, st, m.sig)
                             /\ \E n \in Pinged(E2, st, m.sig) : n \notin Pinged(E, st, m.sig)
  PROVE  MessageOK(MessageWith(m, 0), E2, st, sil, A)
<1> DEFINE c == MessageWith(m, 0)
<1>1. /\ c \in Message /\ c.kind = m.kind /\ c.wait = 0
      /\ m.kind = "dsee" => c.sig = m.sig /\ c.seen = m.seen /\ c.new = m.new
      /\ m.kind = "dseep" => c.sig = m.sig /\ c.stop = m.stop
  BY Rewait
<1>2. ASSUME m.kind = "dsee" PROVE AnnouncementOK(c, E2, sil, A)
  <2>1. AnnouncementOK(m, E, sil, A) /\ m.sig \in Nat /\ m.wait \in 0..Delay /\ m.new
    BY <1>2, MessageFields, Times DEF MessageOK
  <2>2. Announced(E) \subseteq Announced(E2) /\ Announced(E2) \subseteq Node
    BY <1>2, Sets
  <2>3. /\ Delay * Cardinality(Announced(E)) \in Nat
        /\ Delay * Cardinality(Announced(E)) + Delay <= Delay * Cardinality(Announced(E2))
    BY <1>2, <2>2, Reaches
  <2>4. Delay * Cardinality(Announced(E2)) \in Nat
    BY <2>2, Reaches
  <2>5. PICK x \in Nat, y \in Nat : x = Delay * Cardinality(Announced(E)) /\ y = Delay * Cardinality(Announced(E2))
    BY <2>3, <2>4
  <2>6. m.sig <= x + m.wait /\ x + Delay <= y
    BY <2>1, <2>3, <2>5 DEF AnnouncementOK
  <2>7. m.sig <= y + 0
    BY <2>1, <2>6, Times
  <2> QED BY <1>1, <1>2, <2>1, <2>5, <2>7 DEF AnnouncementOK
<1>3. ASSUME m.kind = "dseep" PROVE PingOK(c, E2, st, sil)
  <2>1. PingOK(m, E, st, sil) /\ m.sig \in Nat /\ m.wait \in 0..Delay
    BY <1>3, MessageFields, Times DEF MessageOK
  <2>2. Pinged(E, st, m.sig) \subseteq Pinged(E2, st, m.sig) /\ Pinged(E2, st, m.sig) \subseteq Node
    BY <1>3, Sets
  <2>3. /\ Delay * Cardinality(Pinged(E, st, m.sig)) \in Nat
        /\ Delay * Cardinality(Pinged(E, st, m.sig)) + Delay <= Delay * Cardinality(Pinged(E2, st, m.sig))
    BY <1>3, <2>2, Reaches
  <2>4. Delay * Cardinality(Pinged(E2, st, m.sig)) \in Nat
    BY <2>2, Reaches
  <2>5. PICK x \in Nat, y \in Nat :
          x = Delay * Cardinality(Pinged(E, st, m.sig)) /\ y = Delay * Cardinality(Pinged(E2, st, m.sig))
    BY <2>3, <2>4
  <2>6. m.sig <= x + m.wait /\ x + Delay <= y
    BY <2>1, <2>3, <2>5 DEF PingOK
  <2>7. m.sig <= y + 0
    BY <2>1, <2>6, Times
  <2> QED BY <1>1, <1>3, <2>1, <2>5, <2>7 DEF PingOK
<1> QED BY <1>1, <1>2, <1>3 DEF MessageOK

(* A step in which no node loses what it holds. *)
NoneLost(E, E2) == \A n \in Node : Holds(E[n]) => Holds(E2[n]) /\ E2[n].dseep <= E[n].dseep

(* Then every set that is counted can only grow, *)
LEMMA NoneLostSets ==
  ASSUME NEW E \in [Node -> Entry \cup {None}], NEW E2 \in [Node -> Entry \cup {None}], NoneLost(E, E2), NEW st,
         NEW st2, st = "DOWN" => st2 = "DOWN"
  PROVE  /\ Announced(E) \subseteq Announced(E2)
         /\ \A s \in Nat : Pinged(E, st, s) \subseteq Pinged(E2, st2, s)
<1>1. Announced(E) \subseteq Announced(E2)
  BY DEF Announced, NoneLost
<1>2. ASSUME NEW s \in Nat, NEW n \in Pinged(E, st, s) PROVE n \in Pinged(E2, st2, s)
  <2>1. CASE n = Own /\ st = "DOWN"
    BY <2>1, NodeAssumption DEF Pinged
  <2>2. CASE Holds(E[n]) /\ E[n].dseep <= s
    <3>1. n \in Node /\ Holds(E2[n]) /\ E2[n].dseep <= E[n].dseep
      BY <2>2 DEF Pinged, NoneLost
    <3>2. E[n] \in Entry /\ E2[n] \in Entry
      BY <2>2, <3>1 DEF Holds
    <3>3. E[n].dseep \in Nat /\ E2[n].dseep \in Nat
      BY <3>2, EntryFields, Times
    <3>4. E2[n].dseep <= s
      BY <2>2, <3>1, <3>3
    <3> QED BY <3>1, <3>4 DEF Pinged
  <2> QED BY <2>1, <2>2 DEF Pinged
<1> QED BY <1>1, <1>2

(* and every message stays as good as it was. *)
LEMMA NoneLostOK ==
  ASSUME NEW E \in [Node -> Entry \cup {None}], NEW E2 \in [Node -> Entry \cup {None}], NoneLost(E, E2), NEW st,
         NEW st2, st = "DOWN" => st2 = "DOWN", NEW sil \in Nat, NEW sil2 \in Nat, sil2 <= sil, NEW A,
         NEW L, MessagesOK(L, E, st, sil, A), NEW M,
         \A m \in Under(M) : m \in Under(L) \/ MessageOK(m, E2, st2, sil2, A)
  PROVE  MessagesOK(M, E2, st2, sil2, A)
<1>1. ASSUME NEW m \in Under(L) PROVE MessageOK(m, E2, st2, sil2, A)
  <2>1. m \in Message /\ MessageOK(m, E, st, sil, A)
    BY DEF Under, MessagesOK
  <2>2. m.kind = "dseep" => m.sig \in Nat
    BY <2>1, MessageFields, Times
  <2>3. Announced(E) \subseteq Announced(E2)
        /\ (m.kind = "dseep" => Pinged(E, st, m.sig) \subseteq Pinged(E2, st2, m.sig))
    BY <2>2, NoneLostSets
  <2> QED BY <2>1, <2>3, StillOK
<1> QED BY <1>1 DEF MessagesOK

(* An entry that has just been refreshed by a young message. *)
LEMMA ZeroAge ==
  ASSUME NEW e \in Entry, NEW sil \in Nat, NEW A \in Nat, e.age = 0, e.sig = A, e.state # "VIN_SPENT",
         sil <= Hops * Delay
  PROVE  EntryOK(e, sil, A)
<1>1. Hops * Delay \in Nat
  BY Reaches
<1>2. e.dseep \in Nat /\ MinDseep \in Nat /\ Removal \in Nat
  BY EntryFields, Times
<1>3. PICK h \in Nat : h = Hops * Delay
  BY <1>1
<1>4. e.age <= Removal /\ e.age + h >= sil /\ e.age <= e.dseep + MinDseep /\ e.age <= A
  BY <1>2, <1>3
<1> QED BY <1>3, <1>4 DEF EntryOK

(* One entry is written. *)
LEMMA EntryWritten ==
  ASSUME NEW E \in [Node -> Entry \cup {None}], NEW n \in Node, NEW f \in Entry, NEW E2,
         E2 = [E EXCEPT ![n] = f], NEW sil, NEW A, EntriesOK(E, sil, A), EntryOK(f, sil, A)
  PROVE  /\ E2 \in [Node -> Entry \cup {None}] /\ EntriesOK(E2, sil, A)
         /\ Holds(E[n]) => E[n] \in Entry
         /\ (Holds(E[n]) => Holds(f) /\ f.dseep <= E[n].dseep) => NoneLost(E, E2)
<1>1. E2 \in [Node -> Entry \cup {None}] /\ E2[n] = f /\ \A k \in Node : k # n => E2[k] = E[k]
  OBVIOUS
<1>2. EntriesOK(E2, sil, A)
  BY <1>1 DEF EntriesOK
<1>3. Holds(E[n]) => E[n] \in Entry
  BY DEF Holds
<1>4. ASSUME Holds(E[n]) => Holds(f) /\ f.dseep <= E[n].dseep PROVE NoneLost(E, E2)
  <2>1. ASSUME NEW k \in Node, Holds(E[k]) PROVE Holds(E2[k]) /\ E2[k].dseep <= E[k].dseep
    <3>1. CASE k = n
      BY <1>1, <1>4, <2>1, <3>1
    <3>2. CASE k # n
      <4>1. E[k] \in Entry /\ E2[k] = E[k]
        BY <1>1, <2>1, <3>2 DEF Holds
      <4>2. E[k].dseep \in Nat
        BY <4>1, EntryFields, Times
      <4> QED BY <2>1, <4>1, <4>2
    <3> QED BY <3>1, <3>2
  <2> QED BY <2>1 DEF NoneLost
<1> QED BY <1>1, <1>2, <1>3, <1>4

(* An unchanged list loses nothing. *)
LEMMA NoneLostSelf ==
  ASSUME NEW E \in [Node -> Entry \cup {None}]
  PROVE  NoneLost(E, E)
<1>1. ASSUME NEW k \in Node, Holds(E[k]) PROVE E[k].dseep <= E[k].dseep
  <2>1. E[k].dseep \in Nat
    BY <1>1, EntryFields, Times DEF Holds
  <2> QED BY <2>1
<1> QED BY <1>1 DEF NoneLost

(* Without a stop or a spent collateral Check does not erase a fresh entry. *)
LEMMA CheckedFresh ==
  ASSUME ~spent, NEW e \in Entry, e.state # "VIN_SPENT", NEW lock \in BOOLEAN, NEW f, f = CheckEntry(e, lock)
  PROVE  /\ f \in Entry /\ f.age = e.age /\ f.sig = e.sig /\ f.dseep = e.dseep /\ f.state # "VIN_SPENT"
         /\ Holds(e) /\ ~Holds(f) => e.age >= Removal
         /\ IsEnabled(f) => Holds(f)
<1>1. /\ f \in Entry /\ f.age = e.age /\ f.sig = e.sig /\ f.dseep = e.dseep
      /\ f.state \in {e.state, CheckedState(e)}
  BY CheckedEntry
<1>2. e.age \in Nat /\ Removal \in Nat /\ Expire \in Nat /\ Expire < Removal
  BY EntryFields, Times
<1>3. CheckedState(e) \in {"REMOVE", "EXPIRED", "ENABLED"} /\ (CheckedState(e) = "REMOVE" => e.age >= Removal)
  <2>1. CASE ~(e.age < Removal)
    <3>1. ~(e.age < Expire) /\ e.age >= Removal
      BY <2>1, <1>2
    <3>2. CheckedState(e) = "REMOVE"
      BY <2>1, <3>1 DEF CheckedState, UpdatedWithin
    <3> QED BY <3>1, <3>2
  <2>2. CASE e.age < Removal /\ ~(e.age < Expire)
    <3>1. CheckedState(e) = "EXPIRED"
      BY <2>2 DEF CheckedState, UpdatedWithin
    <3> QED BY <3>1
  <2>3. CASE e.age < Removal /\ e.age < Expire
    <3>1. CheckedState(e) = "ENABLED"
      BY <2>3 DEF CheckedState, UpdatedWithin
    <3> QED BY <3>1
  <2> QED BY <2>1, <2>2, <2>3
<1>4. f # None /\ e # None
  BY <1>1, NoneAssumption
<1> QED BY <1>1, <1>3, <1>4 DEF Holds, IsEnabled

(* Only a masternode that has announced itself, and a node that lives, gets a message. *)
LEMMA Receiving ==
  ASSUME LInv, NEW l \in Peer, NEW kind, First(l, kind)
  PROVE  /\ ~IsIdle(status) /\ (l[2] = Own => IsRunning(status) /\ Holds(entry[Own]))
         /\ l[2] \in Node /\ <<l[2], l[1]>> \in Peer /\ Head(link[l]) \in Under(link) /\ Head(link[l]) \in Message
         /\ Head(link[l]).kind = kind
         /\ Rest(l) \in [Peer -> Seq(Message)] /\ Under(Rest(l)) \subseteq Under(link)
         /\ status = "DOWN" => \A k \in Peer : k[2] = Own => Rest(l)[k] = << >>
<1>1. link \in [Peer -> Seq(Message)] /\ OwnOK(entry, link, status, managed)
  BY DEF LInv, ListTypeOK
<1>2. link[l] # << >>
  BY DEF First
<1>3. ~IsIdle(status) /\ (l[2] = Own => status # "DOWN")
  BY <1>1, <1>2 DEF OwnOK
<1>4. l[2] = Own => IsRunning(status) /\ Holds(entry[Own])
  BY <1>1, <1>3 DEF OwnOK
<1>5. \A k \in Peer : link[k] = << >> => Rest(l)[k] = << >>
  BY <1>1, <1>2, RestUnder
<1>6. status = "DOWN" => \A k \in Peer : k[2] = Own => Rest(l)[k] = << >>
  BY <1>1, <1>5 DEF OwnOK
<1> QED BY <1>1, <1>2, <1>3, <1>4, <1>6, ReceivedType, RestUnder

(* What a step that leaves the masternode's own state alone must show. *)
LEMMA Settled ==
  ASSUME LInv, ~IsIdle(status), UNCHANGED <<status, managed, spent, silent>>, ListTypeOK', ~disabled',
         NEW A \in 0..SigCap, EntriesOK(entry', silent, A), MessagesOK(link', entry', status, silent, A),
         entry'[Own] = entry[Own] \/ (IsRunning(status) /\ Holds(entry'[Own]) /\ entry'[Own].age \in {0, entry[Own].age}),
         status = "DOWN" => \A k \in Peer : k[2] = Own => link'[k] = << >>
  PROVE  LInv'
<1>1. managed \in BOOLEAN
  BY DEF LInv, ListTypeOK
<1>2. status' = status /\ managed' = managed /\ spent' = spent /\ silent' = silent
  OBVIOUS
<1>3. Agreed(entry', link', status, silent, A)
  BY DEF Agreed
<1>4. OwnOK(entry', link', status, managed)
  <2>1. OwnOK(entry, link, status, managed)
    BY DEF LInv
  <2>2. IsRunning(status) => Holds(entry'[Own]) /\ entry'[Own].age <= (IF managed THEN 0 ELSE 1)
    <3>1. ASSUME IsRunning(status) PROVE entry'[Own].age <= (IF managed THEN 0 ELSE 1)
      <4>1. entry[Own].age <= (IF managed THEN 0 ELSE 1)
        BY <2>1, <3>1 DEF OwnOK
      <4>2. 0 <= (IF managed THEN 0 ELSE 1)
        OBVIOUS
      <4> QED BY <4>1, <4>2
    <3>2. IsRunning(status) => Holds(entry'[Own])
      BY <2>1 DEF OwnOK
    <3> QED BY <3>1, <3>2
  <2>3. status = "DOWN" => entry'[Own] = None
    BY <2>1 DEF OwnOK, IsRunning
  <2> QED BY <2>1, <2>2, <2>3 DEF OwnOK
<1>5. ~spent' /\ ~disabled'
  BY <1>2 DEF LInv
<1> QED BY <1>2, <1>3, <1>4, <1>5 DEF LInv

(* The same for a handler, which takes nothing away from a list. *)
LEMMA Handled ==
  ASSUME LInv, ~IsIdle(status), UNCHANGED <<status, managed, spent, silent>>, ListTypeOK', ~disabled',
         NEW A \in 0..SigCap, Agreed(entry, link, status, silent, A), EntriesOK(entry', silent, A), NoneLost(entry, entry'),
         entry'[Own] = entry[Own] \/ (IsRunning(status) /\ Holds(entry'[Own]) /\ entry'[Own].age \in {0, entry[Own].age}),
         \A m \in Under(link') : m \in Under(link) \/ MessageOK(m, entry', status, silent, A),
         status = "DOWN" => \A k \in Peer : k[2] = Own => link'[k] = << >>
  PROVE  LInv'
<1>1. entry \in [Node -> Entry \cup {None}] /\ entry' \in [Node -> Entry \cup {None}] /\ silent \in Nat
      /\ silent <= silent
  BY Times DEF LInv, ListTypeOK
<1>2. MessagesOK(link', entry', status, silent, A)
  <2>1. MessagesOK(link, entry, status, silent, A)
    BY DEF Agreed
  <2> QED BY <1>1, <2>1, NoneLostOK
<1> QED BY <1>2, Settled

(* A handler that leaves the list alone and may answer. *)
LEMMA Unwritten ==
  ASSUME LInv, NEW l \in Peer, NEW kind, First(l, kind), UNCHANGED <<entry, status, managed, spent, silent>>,
         ListTypeOK', ~disabled', NEW A \in 0..SigCap, Agreed(entry, link, status, silent, A),
         \/ link' = Rest(l)
         \/ \E m \in Message : /\ link' = Push(Rest(l), <<l[2], l[1]>>, m)
                               /\ MessageOK(m, entry, status, silent, A)
  PROVE  LInv'
<1>1. /\ ~IsIdle(status) /\ <<l[2], l[1]>> \in Peer /\ Rest(l) \in [Peer -> Seq(Message)]
      /\ Under(Rest(l)) \subseteq Under(link)
      /\ status = "DOWN" => \A k \in Peer : k[2] = Own => Rest(l)[k] = << >>
  BY Receiving
<1>2. entry \in [Node -> Entry \cup {None}] /\ entry' = entry
  BY DEF LInv, ListTypeOK
<1>3. EntriesOK(entry', silent, A) /\ NoneLost(entry, entry')
  BY <1>2, NoneLostSelf DEF Agreed
<1>4. /\ \A m \in Under(link') : m \in Under(link) \/ MessageOK(m, entry', status, silent, A)
      /\ status = "DOWN" => \A k \in Peer : k[2] = Own => link'[k] = << >>
  <2>1. CASE link' = Rest(l)
    BY <1>1, <2>1
  <2>2. ASSUME NEW m \in Message, link' = Push(Rest(l), <<l[2], l[1]>>, m), MessageOK(m, entry, status, silent, A)
        PROVE  /\ \A k \in Under(link') : k \in Under(link) \/ MessageOK(k, entry', status, silent, A)
               /\ status = "DOWN" => \A k \in Peer : k[2] = Own => link'[k] = << >>
    <3> DEFINE L == Rest(l)
    <3>1. PICK p \in Peer : p = <<l[2], l[1]>>
      BY <1>1
    <3>2. L \in [Peer -> Seq(Message)] /\ link' = Push(L, p, m)
      BY <1>1, <2>2, <3>1
    <3> HIDE DEF L
    <3>3. PICK P : P = Push(L, p, m)
      OBVIOUS
    <3>4. /\ Under(P) \subseteq Under(L) \cup {m}
          /\ status = "DOWN" => \A k \in Peer : k[2] = Own => P[k] = L[k]
      BY ONLY <3>2, <3>3, PushUnder, p \in Peer, m \in Message
    <3>5. /\ Under(link') \subseteq Under(L) \cup {m}
          /\ status = "DOWN" => \A k \in Peer : k[2] = Own => link'[k] = L[k]
      BY <3>2, <3>3, <3>4
    <3>6. /\ Under(link') \subseteq Under(Rest(l)) \cup {m}
          /\ status = "DOWN" => \A k \in Peer : k[2] = Own => link'[k] = Rest(l)[k]
      BY <3>5 DEF L
    <3>7. MessageOK(m, entry', status, silent, A)
      BY <1>2, <2>2
    <3> QED BY <1>1, <3>6, <3>7
  <2> QED BY <2>1, <2>2
<1> QED BY <1>1, <1>2, <1>3, <1>4, Handled

(* A handler that writes the entry of the node and may pass the message on. *)
LEMMA Written ==
  ASSUME LInv, NEW l \in Peer, NEW kind, First(l, kind), UNCHANGED <<status, managed, spent, silent>>,
         ListTypeOK', ~disabled', NEW A \in 0..SigCap, Agreed(entry, link, status, silent, A),
         NEW f \in Entry, entry' = [entry EXCEPT ![l[2]] = f], EntryOK(f, silent, A),
         Holds(entry[l[2]]) => Holds(f) /\ f.dseep <= entry[l[2]].dseep,
         l[2] = Own => f.age \in {0, entry[Own].age},
         \/ link' = Rest(l)
         \/ /\ link' = Relay(Rest(l), l[2], Head(link[l]))
            /\ MessageOK(MessageWith(Head(link[l]), 0), entry', status, silent, A)
  PROVE  LInv'
<1>1. /\ ~IsIdle(status) /\ l[2] \in Node /\ Rest(l) \in [Peer -> Seq(Message)]
      /\ (l[2] = Own => IsRunning(status) /\ Holds(entry[Own]))
      /\ Under(Rest(l)) \subseteq Under(link) /\ Head(link[l]) \in Message
      /\ status = "DOWN" => \A k \in Peer : k[2] = Own => Rest(l)[k] = << >>
  BY Receiving
<1>2. entry \in [Node -> Entry \cup {None}] /\ EntriesOK(entry, silent, A)
  BY DEF LInv, ListTypeOK, Agreed
<1>3. EntriesOK(entry', silent, A) /\ NoneLost(entry, entry')
  <2>1. PICK n \in Node : n = l[2]
    BY <1>1
  <2>2. entry' = [entry EXCEPT ![n] = f] /\ (Holds(entry[n]) => Holds(f) /\ f.dseep <= entry[n].dseep)
    BY <2>1
  <2> QED BY <1>2, <2>2, EntryWritten
<1>4. entry'[Own] = entry[Own] \/ (IsRunning(status) /\ Holds(entry'[Own]) /\ entry'[Own].age \in {0, entry[Own].age})
  <2>1. CASE l[2] = Own
    <3>1. entry'[Own] = f
      BY <1>1, <1>2, <2>1
    <3> QED BY <1>1, <2>1, <3>1
  <2>2. CASE l[2] # Own
    BY <1>2, <2>2, NodeAssumption
  <2> QED BY <2>1, <2>2
<1>5. /\ \A m \in Under(link') : m \in Under(link) \/ MessageOK(m, entry', status, silent, A)
      /\ status = "DOWN" => \A k \in Peer : k[2] = Own => link'[k] = << >>
  <2>1. CASE link' = Rest(l)
    BY <1>1, <2>1
  <2>2. CASE /\ link' = Relay(Rest(l), l[2], Head(link[l]))
             /\ MessageOK(MessageWith(Head(link[l]), 0), entry', status, silent, A)
    <3>1. /\ Under(link') \subseteq Under(Rest(l)) \cup {MessageWith(Head(link[l]), 0)}
          /\ status = "DOWN" => \A k \in Peer : k[2] = Own => link'[k] = Rest(l)[k]
      BY <1>1, <2>2, RelayUnder
    <3> QED BY <1>1, <2>2, <3>1
  <2> QED BY <2>1, <2>2
<1> QED BY <1>1, <1>3, <1>4, <1>5, Handled

(* What a handler may assume of the message and of the entry it reads. *)
LEMMA Reading ==
  ASSUME LInv, NEW l \in Peer, NEW kind, First(l, kind), NEW A, Agreed(entry, link, status, silent, A)
  PROVE  /\ l[2] \in Node /\ Head(link[l]) \in Message /\ Head(link[l]).kind = kind
         /\ MessageOK(Head(link[l]), entry, status, silent, A)
         /\ silent \in Nat /\ entry \in [Node -> Entry \cup {None}]
         /\ entry[l[2]] # None => entry[l[2]] \in Entry /\ EntryOK(entry[l[2]], silent, A)
<1>1. l[2] \in Node /\ Head(link[l]) \in Under(link) /\ Head(link[l]) \in Message /\ Head(link[l]).kind = kind
  BY Receiving
<1>2. entry \in [Node -> Entry \cup {None}] /\ silent \in Nat
  BY Times DEF LInv, ListTypeOK
<1>3. MessageOK(Head(link[l]), entry, status, silent, A)
  BY <1>1 DEF Agreed, MessagesOK
<1>4. entry[l[2]] # None => entry[l[2]] \in Entry /\ EntryOK(entry[l[2]], silent, A)
  BY <1>1, <1>2 DEF Agreed, EntriesOK
<1> QED BY <1>1, <1>2, <1>3, <1>4

(* An announcement of a listed masternode: no second signature exists. *)
LEMMA DseeKnownStep ==
  ASSUME Undisturbed, LInv, ListTypeOK', NEW l \in Peer, NEW lock \in BOOLEAN, NEW port \in BOOLEAN,
         DseeKnown(l, lock, port), UNCHANGED <<disabled, managed, spent, silent>>
  PROVE  LInv'
<1>1. First(l, "dsee") /\ entry[l[2]] # None /\ status' = status
  BY DEF DseeKnown
<1>2. ~disabled' /\ UNCHANGED <<status, managed, spent, silent>>
  BY <1>1 DEF LInv
<1>3. PICK A \in 0..SigCap : Agreed(entry, link, status, silent, A)
  BY DEF LInv
<1>4. PICK m, n : m = Head(link[l]) /\ n = l[2]
  OBVIOUS
<1>5. /\ n \in Node /\ m \in Message /\ m.kind = "dsee" /\ MessageOK(m, entry, status, silent, A) /\ silent \in Nat
      /\ entry \in [Node -> Entry \cup {None}] /\ entry[n] \in Entry /\ EntryOK(entry[n], silent, A)
  BY <1>1, <1>3, <1>4, Reading
<1>6. AnnouncementOK(m, entry, silent, A) /\ A \in Nat
  BY <1>5, Times DEF MessageOK
<1>7. PICK e : e = [entry[n] EXCEPT !.age = 0]
  OBVIOUS
<1>8. CASE UNCHANGED entry /\ link' = Rest(l)
  BY <1>1, <1>2, <1>3, <1>8, Unwritten
<1>9. CASE m.new /\ entry' = [entry EXCEPT ![n] = e] /\ link' = Rest(l)
  <2>1. silent <= Hops * Delay
    BY <1>5, <1>6, <1>9, AnnouncementYoung
  <2>2. 0 \in 0..Never
    BY Times
  <2>3. /\ e \in Entry /\ e.age = 0 /\ e.state = entry[n].state /\ e.sig = entry[n].sig
        /\ e.dseep = entry[n].dseep
    BY <1>5, <1>7, <2>2, AgeSet
  <2>4. entry[n].sig = A /\ entry[n].state # "VIN_SPENT"
    BY <1>5 DEF EntryOK
  <2>5. EntryOK(e, silent, A)
    BY <1>5, <1>6, <2>1, <2>3, <2>4, ZeroAge
  <2>6. e.dseep <= entry[n].dseep
    <3>1. entry[n].dseep \in Nat
      BY <1>5, EntryFields, Times
    <3> QED BY <2>3, <3>1
  <2>7. Holds(entry[n]) => Holds(e)
    BY <2>3, EntryFields DEF Holds
  <2> QED BY <1>1, <1>2, <1>3, <1>4, <1>9, <2>3, <2>5, <2>6, <2>7, Written
<1>10. CASE m.new /\ TRUE \in Newer(m.sig, entry[n].sig)
  <2>1. m.sig = A /\ A < SigCap
    BY <1>5, <1>6, <1>10, AnnouncementYoung
  <2>2. entry[n].sig = A /\ SigCap \in Nat
    BY <1>5, Times DEF EntryOK
  <2>3. A # SigCap /\ ~(A < A)
    BY <1>6, <2>1, <2>2
  <2>4. Newer(A, A) = {A < A}
    BY <2>3 DEF Newer
  <2>5. TRUE \notin {A < A}
    BY <2>3
  <2> QED BY <1>10, <2>1, <2>2, <2>4, <2>5
<1> QED BY <1>4, <1>7, <1>8, <1>9, <1>10 DEF DseeKnown

(* An announcement of a masternode that is not listed, or an answer to dseg. *)
LEMMA DseeNewStep ==
  ASSUME Undisturbed, LInv, ListTypeOK', NEW l \in Peer, NEW lock \in BOOLEAN, DseeNew(l, lock),
         UNCHANGED <<disabled, managed, spent, silent>>
  PROVE  LInv'
<1>1. First(l, "dsee") /\ entry[l[2]] = None
  BY DEF DseeNew
<1>2. l[2] # Own
  BY <1>1, Receiving DEF Holds
<1>3. status' = status
  BY <1>2 DEF DseeNew
<1>4. ~disabled' /\ UNCHANGED <<status, managed, spent, silent>>
  BY <1>3 DEF LInv
<1>5. PICK A \in 0..SigCap : Agreed(entry, link, status, silent, A)
  BY DEF LInv
<1>6. PICK m, n : m = Head(link[l]) /\ n = l[2]
  OBVIOUS
<1>7. /\ n \in Node /\ m \in Message /\ m.kind = "dsee" /\ MessageOK(m, entry, status, silent, A) /\ silent \in Nat
      /\ entry \in [Node -> Entry \cup {None}]
  BY <1>1, <1>5, <1>6, Reading
<1>8. m.sig \in 0..SigCap /\ m.seen \in 0..Never
  BY <1>7, MessageFields
<1>9. /\ m.sig = A /\ m.seen <= Removal /\ m.seen + Hops * Delay >= silent /\ (A < SigCap => m.seen <= A)
  BY <1>7 DEF MessageOK, AnnouncementOK
<1>10. PICK f : f = NewEntry(m.sig, m.seen)
  OBVIOUS
<1>11. m.seen # Never
  BY <1>8, <1>9, Times
<1>12. f \in Entry /\ f.sig = A /\ f.state = "ENABLED" /\ f.dseep = SigCap /\ f.age = m.seen
  BY <1>8, <1>9, <1>10, <1>11, NewEntryType
<1>13. EntryOK(f, silent, A)
  <2>1. ~(SigCap < SigCap)
    BY Times
  <2> QED BY <1>9, <1>12, <2>1 DEF EntryOK
<1>14. Holds(f) /\ ~Holds(entry[n])
  BY <1>1, <1>6, <1>12, NoneAssumption DEF Holds
<1>15. CASE UNCHANGED entry /\ link' = Rest(l)
  BY <1>1, <1>4, <1>5, <1>15, Unwritten
<1>16. CASE /\ entry' = [entry EXCEPT ![n] = f]
            /\ link' = Rest(l) \/ (m.new /\ link' = Relay(Rest(l), n, m))
  <2>1. ASSUME m.new PROVE MessageOK(MessageWith(m, 0), entry', status, silent, A)
    <3>1. EntriesOK(entry, silent, A)
      BY <1>5 DEF Agreed
    <3>2. entry' \in [Node -> Entry \cup {None}] /\ NoneLost(entry, entry')
      BY <1>7, <1>12, <1>13, <1>14, <1>16, <3>1, EntryWritten
    <3>3. Announced(entry) \subseteq Announced(entry')
      BY <1>7, <3>2, NoneLostSets
    <3>4. entry'[n] = f
      BY <1>7, <1>16
    <3>5. n \in Announced(entry') /\ n \notin Announced(entry)
      BY <1>2, <1>6, <1>7, <1>14, <3>4 DEF Announced
    <3> QED BY <1>7, <2>1, <3>3, <3>5, PassedOn
  <2> QED BY <1>1, <1>2, <1>4, <1>5, <1>6, <1>12, <1>13, <1>14, <1>16, <2>1, Written
<1> QED BY <1>6, <1>10, <1>15, <1>16 DEF DseeNew

(* A ping: it refreshes the entry only of a node it has not gone through. *)
LEMMA DseepKnownStep ==
  ASSUME Undisturbed, LInv, ListTypeOK', NEW l \in Peer, NEW lock \in BOOLEAN, DseepKnown(l, lock),
         UNCHANGED <<managed, spent, silent>>
  PROVE  LInv'
<1>1. First(l, "dseep") /\ entry[l[2]] # None /\ status' = status
  BY DEF DseepKnown
<1>2. UNCHANGED <<status, managed, spent, silent>> /\ ~spent /\ ~disabled
  BY <1>1 DEF LInv
<1>3. PICK A \in 0..SigCap : Agreed(entry, link, status, silent, A)
  BY DEF LInv
<1>4. PICK m, n : m = Head(link[l]) /\ n = l[2]
  OBVIOUS
<1>5. /\ n \in Node /\ m \in Message /\ m.kind = "dseep" /\ MessageOK(m, entry, status, silent, A) /\ silent \in Nat
      /\ entry \in [Node -> Entry \cup {None}] /\ entry[n] \in Entry /\ EntryOK(entry[n], silent, A)
  BY <1>1, <1>3, <1>4, Reading
<1>6. PingOK(m, entry, status, silent) /\ A \in Nat /\ m.sig \in 0..SigCap
  BY <1>5, MessageFields, Times DEF MessageOK
<1>7. /\ m.sig \in Nat /\ m.sig < SigCap /\ ~m.stop
      /\ \A k \in Node : k \notin Pinged(entry, status, m.sig) => silent <= Hops * Delay
  BY <1>5, <1>6, PingYoung
<1>8. /\ entry[n].sig = A /\ entry[n].state # "VIN_SPENT" /\ entry[n].age <= Removal
      /\ entry[n].age + Hops * Delay >= silent /\ (A < SigCap => entry[n].age <= A)
  BY <1>5 DEF EntryOK
<1>9. entry[n].age \in Nat /\ entry[n].dseep \in Nat /\ MinDseep \in Nat /\ Removal \in Nat /\ SigCap \in Nat
  BY <1>5, EntryFields, Times
<1>10. PICK e : e = [entry[n] EXCEPT !.dseep = m.sig]
  OBVIOUS
<1>11. /\ e \in Entry /\ e.age = entry[n].age /\ e.state = entry[n].state /\ e.sig = entry[n].sig /\ e.dseep = m.sig
  BY <1>5, <1>6, <1>10, DseepSet
<1>12. PICK g : g = [e EXCEPT !.age = 0]
  OBVIOUS
<1>13. /\ g \in Entry /\ g.age = 0 /\ g.state = entry[n].state /\ g.sig = entry[n].sig /\ g.dseep = m.sig
  <2>1. 0 \in 0..Never
    BY Times
  <2> QED BY <1>11, <1>12, <2>1, AgeSet
<1>14. PICK f : f = CheckEntry(g, lock)
  OBVIOUS
<1>15. /\ f \in Entry /\ f.age = 0 /\ f.sig = A /\ f.dseep = m.sig /\ f.state # "VIN_SPENT"
       /\ (Holds(g) /\ ~Holds(f) => 0 >= Removal) /\ (IsEnabled(f) => Holds(f))
  BY <1>2, <1>8, <1>13, <1>14, CheckedFresh
<1>16. TRUE \in Newer(m.sig, entry[n].dseep) => m.sig < entry[n].dseep
  <2>1. m.sig # SigCap
    BY <1>7, <1>9
  <2>2. Newer(m.sig, entry[n].dseep) = {m.sig < entry[n].dseep}
    BY <2>1 DEF Newer
  <2> QED BY <2>2
<1>17. CASE UNCHANGED <<entry, disabled>> /\ link' = Rest(l)
  BY <1>1, <1>2, <1>3, <1>17, Unwritten
<1>18. CASE /\ m.sig < entry[n].dseep /\ e.age < MinDseep /\ entry' = [entry EXCEPT ![n] = e] /\ link' = Rest(l)
            /\ UNCHANGED disabled
  <2>1. e.age <= e.dseep + MinDseep
    BY <1>7, <1>9, <1>11, <1>18
  <2>2. EntryOK(e, silent, A)
    BY <1>8, <1>11, <2>1 DEF EntryOK
  <2>3. e.dseep <= entry[n].dseep
    BY <1>7, <1>9, <1>11, <1>18
  <2>4. Holds(entry[n]) => Holds(e)
    BY <1>11, EntryFields DEF Holds
  <2>5. n = Own => e.age \in {0, entry[Own].age}
    BY <1>11
  <2> QED BY <1>1, <1>2, <1>3, <1>4, <1>11, <1>18, <2>2, <2>3, <2>4, <2>5, Written
<1>19. CASE /\ m.sig < entry[n].dseep /\ entry' = [entry EXCEPT ![n] = f] /\ disabled' = (disabled \/ m.stop)
            /\ link' = Rest(l) \/ (IsEnabled(f) /\ link' = Relay(Rest(l), n, m))
  <2>1. n \notin Pinged(entry, status, m.sig)
    <3>1. ~(entry[n].dseep <= m.sig)
      BY <1>7, <1>9, <1>19
    <3>2. ~(n = Own /\ status = "DOWN")
      <4>1. n = Own => IsRunning(status)
        BY <1>1, <1>4, Receiving
      <4> QED BY <4>1 DEF IsRunning
    <3> QED BY <3>1, <3>2 DEF Pinged
  <2>2. EntryOK(f, silent, A)
    <3>1. silent <= Hops * Delay
      BY <1>5, <1>7, <2>1
    <3> QED BY <1>5, <1>6, <1>15, <3>1, ZeroAge
  <2>3. Holds(entry[n]) => Holds(f)
    <3>1. ~(0 >= Removal)
      BY <1>9, Times
    <3>2. Holds(entry[n]) => Holds(g)
      BY <1>13, EntryFields DEF Holds
    <3> QED BY <1>15, <3>1, <3>2
  <2>4. f.dseep <= entry[n].dseep
    BY <1>7, <1>9, <1>15, <1>19
  <2>5. ~disabled'
    BY <1>2, <1>7, <1>19
  <2>6. ASSUME IsEnabled(f) PROVE MessageOK(MessageWith(m, 0), entry', status, silent, A)
    <3>1. EntriesOK(entry, silent, A)
      BY <1>3 DEF Agreed
    <3>2. entry' \in [Node -> Entry \cup {None}] /\ NoneLost(entry, entry')
      BY <1>5, <1>15, <1>19, <2>2, <2>3, <2>4, <3>1, EntryWritten
    <3>3. Pinged(entry, status, m.sig) \subseteq Pinged(entry', status, m.sig)
      BY <1>5, <1>7, <3>2, NoneLostSets
    <3>4. entry'[n] = f
      BY <1>5, <1>19
    <3>5. m.sig <= m.sig
      BY <1>7
    <3>6. n \in Pinged(entry', status, m.sig)
      BY <1>5, <1>15, <2>6, <3>4, <3>5 DEF Pinged
    <3> QED BY <1>5, <2>1, <3>3, <3>6, PassedOn
  <2> QED BY <1>1, <1>2, <1>3, <1>4, <1>15, <1>19, <2>2, <2>3, <2>4, <2>5, <2>6, Written
<1> QED
  <2>1. \/ UNCHANGED <<entry, disabled>> /\ link' = Rest(l)
        \/ /\ TRUE \in Newer(m.sig, entry[n].dseep) /\ e.age < MinDseep /\ entry' = [entry EXCEPT ![n] = e]
           /\ link' = Rest(l) /\ UNCHANGED disabled
        \/ /\ TRUE \in Newer(m.sig, entry[n].dseep) /\ entry' = [entry EXCEPT ![n] = f]
           /\ link' = Rest(l) \/ (IsEnabled(f) /\ link' = Relay(Rest(l), n, m))
           /\ disabled' = (disabled \/ m.stop)
    BY <1>4, <1>7, <1>10, <1>12, <1>14 DEF DseepKnown, UpdatedWithin
  <2> QED BY <1>16, <1>17, <1>18, <1>19, <2>1

(* Asking for an entry, and answering with the age the entry has. *)
LEMMA AnswerStep ==
  ASSUME LInv, ListTypeOK', NEW l \in Peer, DseepUnknown(l) \/ AnswerDseg(l),
         UNCHANGED <<disabled, managed, spent, silent>>
  PROVE  LInv'
<1>1. UNCHANGED <<entry, status, managed, spent, silent>> /\ ~disabled'
  BY DEF LInv, DseepUnknown, AnswerDseg
<1>2. PICK kind : First(l, kind)
  BY DEF DseepUnknown, AnswerDseg
<1>3. PICK A \in 0..SigCap : Agreed(entry, link, status, silent, A)
  BY DEF LInv
<1>4. CASE link' = Rest(l)
  BY <1>1, <1>2, <1>3, <1>4, Unwritten
<1>5. CASE link' = Push(Rest(l), <<l[2], l[1]>>, Dseg)
  <2>1. Dseg \in Message /\ MessageOK(Dseg, entry, status, silent, A)
    BY DsegMessage DEF MessageOK
  <2> QED BY <1>1, <1>2, <1>3, <1>5, <2>1, Unwritten
<1>6. ASSUME NEW e, e = entry[l[2]], e # None, link' = Push(Rest(l), <<l[2], l[1]>>, Dsee(FALSE, e.sig, e.age))
      PROVE  LInv'
  <2>1. e \in Entry /\ EntryOK(e, silent, A)
    BY <1>2, <1>3, <1>6, Reading
  <2>2. PICK m : m = Dsee(FALSE, e.sig, e.age)
    OBVIOUS
  <2>3. m \in Message /\ m.kind = "dsee" /\ m.sig = e.sig /\ m.seen = e.age /\ m.new = FALSE
    <3>1. PICK a \in 0..SigCap, b \in 0..Never : a = e.sig /\ b = e.age
      BY <2>1, EntryFields
    <3>2. PICK c \in BOOLEAN : c = FALSE
      OBVIOUS
    <3>3. m = Dsee(c, a, b)
      BY <2>2, <3>1, <3>2
    <3>4. m \in Message /\ m.kind = "dsee" /\ m.sig = a /\ m.seen = b /\ m.new = c
      BY ONLY <3>3, DseeMessage, a \in 0..SigCap, b \in 0..Never, c \in BOOLEAN
    <3> QED BY <3>1, <3>2, <3>4
  <2>4. MessageOK(m, entry, status, silent, A)
    BY <2>1, <2>3 DEF MessageOK, AnnouncementOK, EntryOK
  <2> QED BY <1>1, <1>2, <1>3, <1>6, <2>2, <2>3, <2>4, Unwritten
<1>7. \/ link' = Rest(l)
      \/ link' = Push(Rest(l), <<l[2], l[1]>>, Dseg)
      \/ \E e : /\ e = entry[l[2]] /\ e # None
                /\ link' = Push(Rest(l), <<l[2], l[1]>>, Dsee(FALSE, e.sig, e.age))
  BY DEF DseepUnknown, AnswerDseg
<1> QED BY <1>4, <1>5, <1>6, <1>7

(* Whatever message is handled. *)
LEMMA ReceiveStep ==
  ASSUME Undisturbed, LInv, NEW l \in Peer, NEW lock \in BOOLEAN, NEW port \in BOOLEAN, Receive(l, lock, port)
  PROVE  LInv'
<1>1. ListTypeOK'
  BY ReceiveType DEF LInv
<1>2. UNCHANGED <<managed, checked, spent, silent, faults>>
  BY DEF Receive
<1> QED BY <1>1, <1>2, DseeKnownStep, DseeNewStep, DseepKnownStep, AnswerStep DEF Receive

(* A check takes an entry out of the list only when it is too old for any       *)
(* broadcast under way to have touched it.                                       *)
LEMMA CheckStep ==
  ASSUME Undisturbed, LInv, NEW n \in Node, NEW lock \in BOOLEAN, Check(n, lock) \/ CheckAndRemove(n, lock)
  PROVE  LInv'
<1>1. ListTypeOK'
  BY CheckType DEF LInv
<1>2. /\ entry[n] # None /\ UNCHANGED <<link, status, managed, spent, silent, disabled>>
  BY DEF Check, CheckAndRemove
<1>3. PICK A \in 0..SigCap : Agreed(entry, link, status, silent, A)
  BY DEF LInv
<1>4. /\ entry \in [Node -> Entry \cup {None}] /\ entry[n] \in Entry /\ EntryOK(entry[n], silent, A) /\ silent \in Nat
      /\ EntriesOK(entry, silent, A) /\ MessagesOK(link, entry, status, silent, A) /\ silent <= silent
      /\ OwnOK(entry, link, status, managed) /\ ~spent /\ ~disabled
  BY <1>2, <1>3, Times DEF LInv, ListTypeOK, Agreed, EntriesOK
<1>5. /\ entry[n].state # "VIN_SPENT" /\ (entry[n].dseep < SigCap => entry[n].age <= entry[n].dseep + MinDseep)
      /\ (A < SigCap => entry[n].age <= A)
  BY <1>4 DEF EntryOK
<1>6. PICK f : f = CheckEntry(entry[n], lock)
  OBVIOUS
<1>7. /\ f \in Entry /\ f.age = entry[n].age /\ f.sig = entry[n].sig /\ f.dseep = entry[n].dseep
      /\ f.state # "VIN_SPENT" /\ (Holds(entry[n]) /\ ~Holds(f) => entry[n].age >= Removal)
  BY <1>4, <1>5, <1>6, CheckedFresh
<1>8. PICK g : entry' = [entry EXCEPT ![n] = g] /\ (g = f \/ (g = None /\ f.state = "REMOVE"))
  <2>1. CASE Check(n, lock)
    BY <1>6, <2>1 DEF Check
  <2>2. CASE CheckAndRemove(n, lock)
    BY <1>6, <1>7, <2>2 DEF CheckAndRemove
  <2> QED BY <2>1, <2>2
<1>9. entry'[n] = g /\ \A k \in Node : k # n => entry'[k] = entry[k]
  BY <1>4, <1>8
<1>10. Holds(f) => g = f
  BY <1>8 DEF Holds
<1>11. EntryOK(f, silent, A)
  BY <1>4, <1>7 DEF EntryOK
<1>12. EntriesOK(entry', silent, A)
  <2>1. ASSUME NEW k \in Node, entry'[k] # None PROVE EntryOK(entry'[k], silent, A)
    BY <1>4, <1>8, <1>9, <1>11, <2>1 DEF EntriesOK
  <2> QED BY <2>1 DEF EntriesOK
<1>13. entry[n].age \in Nat /\ entry[n].dseep \in Nat /\ Removal \in Nat /\ MinDseep \in Nat /\ SigCap \in Nat
       /\ 1 < Removal
  BY <1>4, EntryFields, Times
<1>14. ~IsIdle(status) /\ (n = Own => IsRunning(status))
  BY <1>2, <1>4 DEF OwnOK
<1>15. n = Own => IsRunning(status) /\ Holds(f) /\ g = f
  <2>1. ASSUME n = Own PROVE Holds(entry[n]) /\ entry[n].age <= 1
    <3>1. Holds(entry[n]) /\ entry[n].age <= (IF managed THEN 0 ELSE 1)
      BY <1>4, <1>14, <2>1 DEF OwnOK
    <3> QED BY <1>13, <3>1
  <2>2. ASSUME n = Own PROVE ~(entry[n].age >= Removal)
    BY <1>13, <2>1, <2>2
  <2> QED BY <1>7, <1>10, <1>14, <2>1, <2>2
<1>16. entry'[Own] = entry[Own] \/ (IsRunning(status) /\ Holds(entry'[Own]) /\ entry'[Own].age \in {0, entry[Own].age})
  BY <1>7, <1>9, <1>15, NodeAssumption
<1>17. ASSUME NEW m \in Under(link) PROVE MessageOK(m, entry', status, silent, A)
  <2>1. m \in Message /\ MessageOK(m, entry, status, silent, A)
    BY <1>4 DEF Under, MessagesOK
  <2>2. ASSUME m.kind = "dsee" /\ m.new PROVE Announced(entry) \subseteq Announced(entry')
    <3>1. AnnouncementOK(m, entry, silent, A)
      BY <2>1, <2>2 DEF MessageOK
    <3>2. A \in Nat /\ A < SigCap /\ A < Removal
      BY <1>4, <2>1, <2>2, <3>1, AnnouncementYoung
    <3>3. ~(entry[n].age >= Removal)
      BY <1>5, <1>13, <3>2
    <3>4. Holds(entry[n]) => Holds(entry'[n])
      BY <1>7, <1>9, <1>10, <3>3
    <3> QED BY <1>9, <3>4 DEF Announced
  <2>3. ASSUME m.kind = "dseep" PROVE Pinged(entry, status, m.sig) \subseteq Pinged(entry', status, m.sig)
    <3>1. PingOK(m, entry, status, silent)
      BY <2>1, <2>3 DEF MessageOK
    <3>2. m.sig \in Nat /\ m.sig < SigCap /\ m.sig + MinDseep < Removal
      BY <1>4, <2>1, <2>3, <3>1, PingYoung
    <3>3. ASSUME entry[n].dseep <= m.sig PROVE ~(entry[n].age >= Removal)
      <4>1. entry[n].dseep < SigCap
        BY <1>13, <3>2, <3>3
      <4>2. entry[n].age <= entry[n].dseep + MinDseep
        BY <1>5, <4>1
      <4> QED BY <1>13, <3>2, <3>3, <4>2
    <3>4. Holds(entry[n]) /\ entry[n].dseep <= m.sig => Holds(entry'[n]) /\ entry'[n].dseep <= m.sig
      BY <1>7, <1>9, <1>10, <3>3
    <3> QED BY <1>9, <3>4 DEF Pinged
  <2> QED BY <1>4, <2>1, <2>2, <2>3, StillOK
<1>18. MessagesOK(link', entry', status, silent, A)
  BY <1>2, <1>17 DEF MessagesOK
<1>19. status = "DOWN" => \A k \in Peer : k[2] = Own => link'[k] = << >>
  BY <1>2, <1>4 DEF OwnOK
<1> QED BY <1>1, <1>2, <1>4, <1>12, <1>14, <1>16, <1>18, <1>19, Settled

(* A lost connection. *)
LEMMA DropStep ==
  ASSUME LInv, NEW l \in Peer, Drop(l)
  PROVE  LInv'
<1>1. /\ link' = [link EXCEPT ![l] = << >>, ![<<l[2], l[1]>>] = << >>] /\ link' # link
      /\ UNCHANGED <<entry, status, managed, spent, silent, disabled>>
  BY DEF Drop
<1>2. /\ entry \in [Node -> Entry \cup {None}] /\ link \in [Peer -> Seq(Message)]
      /\ OwnOK(entry, link, status, managed) /\ ~disabled
  BY DEF LInv, ListTypeOK
<1>3. ListTypeOK'
  <2>1. ListTypeOK /\ [ListNext]_listVars
    BY DEF LInv, ListNext
  <2> QED BY <2>1, ListTypesNext
<1>4. /\ link' \in [Peer -> Seq(Message)] /\ Under(link') \subseteq Under(link)
      /\ \A k \in Peer : link[k] = << >> => link'[k] = << >>
  BY <1>1, <1>2, DropUnder
<1>5. ~IsIdle(status)
  <2>1. SUFFICES ASSUME \A k \in Peer : link[k] = << >> PROVE FALSE
    BY <1>2 DEF OwnOK
  <2>2. \A k \in Peer : link'[k] = link[k]
    BY <1>4, <2>1
  <2>3. link' = link
    BY <1>2, <1>4, <2>2
  <2> QED BY <1>1, <2>3
<1>6. PICK A \in 0..SigCap : Agreed(entry, link, status, silent, A)
  BY DEF LInv
<1>7. EntriesOK(entry', silent, A) /\ NoneLost(entry, entry') /\ entry'[Own] = entry[Own]
  BY <1>1, <1>2, <1>6, NoneLostSelf DEF Agreed
<1>8. status = "DOWN" => \A k \in Peer : k[2] = Own => link'[k] = << >>
  BY <1>2, <1>4 DEF OwnOK
<1>9. \A m \in Under(link') : m \in Under(link)
  BY <1>4
<1> QED BY <1>1, <1>2, <1>3, <1>5, <1>6, <1>7, <1>8, <1>9, Handled

(* The death of the masternode: from now on it counts as having taken every ping. *)
LEMMA DieStep ==
  ASSUME LInv, Die
  PROVE  LInv'
<1>1. /\ status' = "DOWN" /\ entry' = [entry EXCEPT ![Own] = None]
      /\ link' = [l \in Peer |-> IF l[2] = Own THEN << >> ELSE link[l]]
      /\ UNCHANGED <<checked, spent, silent, disabled>>
  BY DEF Die
<1>2. entry \in [Node -> Entry \cup {None}] /\ link \in [Peer -> Seq(Message)] /\ silent \in Nat /\ silent <= silent
      /\ ~disabled /\ ~spent
  BY Times DEF LInv, ListTypeOK
<1>3. ListTypeOK'
  <2>1. ListTypeOK /\ [ListNext]_listVars
    BY DEF LInv, ListNext
  <2> QED BY <2>1, ListTypesNext
<1>4. Under(link') \subseteq Under(link) /\ \A k \in Peer : k[2] = Own => link'[k] = << >>
  BY <1>1, <1>2, DieUnder
<1>5. PICK A \in 0..SigCap : Agreed(entry, link, status, silent, A)
  BY DEF LInv
<1>6. entry'[Own] = None /\ \A k \in Node : k # Own => entry'[k] = entry[k]
  BY <1>1, <1>2, NodeAssumption
<1>7. EntriesOK(entry', silent, A)
  BY <1>5, <1>6 DEF Agreed, EntriesOK
<1>8. Announced(entry) \subseteq Announced(entry')
  BY <1>6 DEF Announced
<1>9. \A s : Pinged(entry, status, s) \subseteq Pinged(entry', "DOWN", s)
  BY <1>6, NodeAssumption DEF Pinged
<1>10. ASSUME NEW m \in Under(link') PROVE MessageOK(m, entry', "DOWN", silent, A)
  <2>1. m \in Message /\ MessageOK(m, entry, status, silent, A)
    BY <1>4, <1>5 DEF Under, Agreed, MessagesOK
  <2> QED BY <1>2, <1>8, <1>9, <2>1, StillOK
<1>11. Agreed(entry', link', "DOWN", silent, A)
  BY <1>7, <1>10 DEF Agreed, MessagesOK
<1>12. OwnOK(entry', link', "DOWN", managed')
  BY <1>4, <1>6 DEF OwnOK, IsIdle, IsRunning
<1>13. ~spent' /\ ~disabled' /\ silent' = silent
  BY <1>1, <1>2
<1> QED BY <1>1, <1>3, <1>11, <1>12, <1>13 DEF LInv

(* Nothing is under way on empty connections. *)
LEMMA NothingUnder ==
  ASSUME NEW L, \A l \in Peer : L[l] = << >>
  PROVE  Under(L) = {}
<1>1. Len(<< >>) = 0 /\ 1..0 = {}
  BY EmptySeq
<1> QED BY <1>1 DEF Under

(* The first announcement, or a refusal to activate. *)
LEMMA ActivateStep ==
  ASSUME LInv, ListTypeOK', IsIdle(status), NEW capable \in BOOLEAN, Activate(capable), managed' = TRUE,
         UNCHANGED <<spent, disabled>>
  PROVE  LInv'
<1>1. /\ entry \in [Node -> Entry \cup {None}] /\ link \in [Peer -> Seq(Message)] /\ ~spent' /\ ~disabled'
      /\ OwnOK(entry, link, status, managed)
  BY DEF LInv, ListTypeOK
<1>2. (\A n \in Node : entry[n] = None) /\ (\A l \in Peer : link[l] = << >>)
  BY <1>1 DEF OwnOK
<1>3. Under(link) = {}
  BY <1>2, NothingUnder
<1>4. CASE status' = "NOT_CAPABLE" /\ UNCHANGED <<entry, link, silent>>
  <2>1. PICK A \in 0..SigCap : Agreed(entry, link, status, silent, A)
    BY DEF LInv
  <2>2. Agreed(entry', link', status', silent', A)
    BY <1>2, <1>3, <1>4 DEF Agreed, EntriesOK, MessagesOK
  <2>3. OwnOK(entry', link', status', managed')
    BY <1>2, <1>4 DEF OwnOK, IsIdle, IsRunning
  <2> QED BY <1>1, <2>2, <2>3 DEF LInv
<1>5. CASE status' = "IS_CAPABLE" /\ Register
  <2>1. 0 \in 0..SigCap /\ 0 \in 0..Never /\ 0 # Never /\ 0 \in Nat
    BY Times
  <2>2. PICK f, d : f = NewEntry(0, 0) /\ d = Dsee(TRUE, 0, 0)
    OBVIOUS
  <2>3. f \in Entry /\ f.sig = 0 /\ f.state = "ENABLED" /\ f.age = 0
    BY <2>1, <2>2, NewEntryType
  <2>4. d \in Message
    BY <2>1, <2>2, DseeMessage
  <2>5. entry' = [entry EXCEPT ![Own] = f] /\ link' = Relay(link, Own, d) /\ silent' = 0
    BY <1>2, <2>2, <1>5, NodeAssumption DEF Register
  <2>6. entry'[Own] = f /\ \A n \in Node : n # Own => entry'[n] = None
    BY <1>1, <1>2, <2>5, NodeAssumption
  <2>7. Hops * Delay \in Nat
    BY Reaches
  <2>8. EntryOK(f, 0, 0)
    <3>1. 0 <= Hops * Delay
      BY <2>7
    <3>2. f.state # "VIN_SPENT"
      BY <2>3
    <3> QED BY <2>1, <2>3, <3>1, <3>2, ZeroAge
  <2>9. EntriesOK(entry', 0, 0)
    BY <2>6, <2>8 DEF EntriesOK
  <2>10. Under(link') \subseteq {MessageWith(d, 0)}
    BY <1>1, <1>3, <2>4, <2>5, NodeAssumption, RelayUnder
  <2>11. MessageOK(MessageWith(d, 0), entry', "IS_CAPABLE", 0, 0)
    <3>1. PICK c : c = MessageWith(d, 0)
      OBVIOUS
    <3>2. c = [kind |-> "dsee", new |-> TRUE, sig |-> 0, seen |-> 0, wait |-> 0]
      BY <2>2, <3>1 DEF MessageWith, Dsee
    <3>3. Announced(entry') \subseteq Node
      BY Sets
    <3>4. Delay * Cardinality(Announced(entry')) \in Nat
      BY <3>3, Reaches
    <3>5. PICK x \in Nat, h \in Nat : x = Delay * Cardinality(Announced(entry')) /\ h = Hops * Delay
      BY <2>7, <3>4
    <3>6. 0 <= Removal /\ 0 + h >= 0 /\ 0 <= 0 /\ 0 <= x + 0
      BY Times
    <3>7. AnnouncementOK(c, entry', 0, 0)
      BY <3>2, <3>5, <3>6 DEF AnnouncementOK
    <3> QED BY <3>1, <3>2, <3>7 DEF MessageOK
  <2>12. Agreed(entry', link', status', silent', 0)
    BY <1>5, <2>5, <2>9, <2>10, <2>11 DEF Agreed, MessagesOK
  <2>13. OwnOK(entry', link', status', managed')
    <3>1. Holds(f) /\ f.age <= 0
      BY <2>3, NoneAssumption DEF Holds
    <3> QED BY <1>5, <2>6, <3>1 DEF OwnOK, IsIdle, IsRunning
  <2> QED BY <1>1, <2>1, <2>12, <2>13 DEF LInv
<1> QED BY <1>4, <1>5 DEF Activate

(* A ping of the masternode that runs: it has just been heard. *)
LEMMA SendDseepStep ==
  ASSUME LInv, ListTypeOK', IsRunning(status), SendDseep(FALSE, status), managed' = TRUE,
         UNCHANGED <<spent, disabled>>
  PROVE  LInv'
<1>1. /\ entry \in [Node -> Entry \cup {None}] /\ link \in [Peer -> Seq(Message)] /\ ~spent' /\ ~disabled'
      /\ OwnOK(entry, link, status, managed) /\ silent \in Nat /\ 0 \in Nat /\ 0 <= silent
  BY Times DEF LInv, ListTypeOK
<1>2. Holds(entry[Own]) /\ entry[Own] \in Entry
  BY <1>1, NodeAssumption DEF OwnOK, Holds
<1>3. PICK f, d : f = [entry[Own] EXCEPT !.age = 0] /\ d = Ping(0, FALSE)
  OBVIOUS
<1>4. status' = status /\ entry' = [entry EXCEPT ![Own] = f] /\ link' = Relay(link, Own, d) /\ silent' = 0
  BY <1>2, <1>3 DEF SendDseep, Holds
<1>5. 0 \in 0..SigCap /\ 0 \in 0..Never /\ FALSE \in BOOLEAN
  BY Times
<1>6. d \in Message
  BY <1>3, <1>5, PingMessage
<1>7. f \in Entry /\ f.age = 0 /\ f.state = entry[Own].state /\ f.sig = entry[Own].sig /\ f.dseep = entry[Own].dseep
  BY <1>2, <1>3, <1>5, AgeSet
<1>8. PICK A \in 0..SigCap : Agreed(entry, link, status, silent, A)
  BY DEF LInv
<1>9. EntryOK(entry[Own], silent, A) /\ A \in Nat
  BY <1>2, <1>8, NodeAssumption, Times DEF Agreed, EntriesOK, Holds
<1>10. PICK h \in Nat : h = Hops * Delay
  BY Reaches
<1>11. EntryOK(f, 0, A)
  <2>1. f.sig = A /\ f.state # "VIN_SPENT"
    BY <1>7, <1>9 DEF EntryOK
  <2>2. 0 <= Hops * Delay
    BY <1>10
  <2> QED BY <1>1, <1>7, <1>9, <2>1, <2>2, ZeroAge
<1>12. ASSUME NEW n \in Node, entry[n] # None PROVE EntryOK(entry[n], 0, A)
  <2>1. EntryOK(entry[n], silent, A) /\ entry[n] \in Entry
    BY <1>1, <1>8, <1>12 DEF Agreed, EntriesOK
  <2>2. entry[n].age \in Nat
    BY <2>1, EntryFields, Times
  <2>3. entry[n].age + Hops * Delay >= 0
    BY <1>10, <2>2
  <2> QED BY <2>1, <2>3 DEF EntryOK
<1>13. EntriesOK(entry, 0, A)
  BY <1>12 DEF EntriesOK
<1>14. Holds(f) /\ f.dseep <= entry[Own].dseep
  <2>1. entry[Own].dseep \in Nat
    BY <1>2, EntryFields, Times
  <2>2. f.dseep <= entry[Own].dseep
    BY <1>7, <2>1
  <2> QED BY <1>2, <1>7, <2>2, NoneAssumption DEF Holds
<1>15. entry' \in [Node -> Entry \cup {None}] /\ EntriesOK(entry', 0, A) /\ NoneLost(entry, entry')
  BY <1>1, <1>4, <1>7, <1>11, <1>13, <1>14, NodeAssumption, EntryWritten
<1>16. MessageOK(MessageWith(d, 0), entry', status, 0, A)
  <2>1. PICK c : c = MessageWith(d, 0)
    OBVIOUS
  <2>2. c = [kind |-> "dseep", sig |-> 0, stop |-> FALSE, wait |-> 0]
    BY <1>3, <2>1 DEF MessageWith, Ping
  <2>3. Pinged(entry', status, 0) \subseteq Node
    BY Sets
  <2>4. PICK x \in Nat : x = Delay * Cardinality(Pinged(entry', status, 0))
    BY <2>3, Reaches
  <2>5. 0 <= 0 /\ 0 <= x + 0
    OBVIOUS
  <2>6. PingOK(c, entry', status, 0)
    BY <2>2, <2>4, <2>5 DEF PingOK
  <2> QED BY <2>1, <2>2, <2>6 DEF MessageOK
<1>17. Under(link') \subseteq Under(link) \cup {MessageWith(d, 0)}
  BY <1>1, <1>4, <1>6, NodeAssumption, RelayUnder
<1>18. MessagesOK(link', entry', status, 0, A)
  <2>1. MessagesOK(link, entry, status, silent, A)
    BY <1>8 DEF Agreed
  <2>2. \A m \in Under(link') : m \in Under(link) \/ MessageOK(m, entry', status, 0, A)
    BY <1>16, <1>17
  <2> QED BY <1>1, <1>15, <2>1, <2>2, NoneLostOK
<1>19. Agreed(entry', link', status', silent', A)
  BY <1>4, <1>15, <1>18 DEF Agreed
<1>20. OwnOK(entry', link', status', managed')
  <2>1. entry'[Own] = f /\ f.age <= 0
    BY <1>1, <1>4, <1>7, NodeAssumption
  <2> QED BY <1>4, <1>14, <2>1 DEF OwnOK, IsIdle, IsRunning
<1> QED BY <1>1, <1>19, <1>20 DEF LInv

(* The turn of the masternode. *)
LEMMA ManageStatusStep ==
  ASSUME LInv, NEW capable \in BOOLEAN, ManageStatus(capable)
  PROVE  LInv'
<1>1. ListTypeOK'
  <2>1. ListTypeOK /\ [ListNext]_listVars
    BY DEF LInv, ListNext
  <2> QED BY <2>1, ListTypesNext
<1>2. managed' = TRUE /\ UNCHANGED <<spent, disabled>> /\ status # "DOWN"
  BY DEF ManageStatus
<1>3. IsIdle(status) \/ IsRunning(status)
  BY <1>2 DEF LInv, OwnOK
<1>4. \/ IsIdle(status) /\ Activate(capable)
      \/ IsRunning(status) /\ SendDseep(FALSE, status)
  BY <1>3 DEF ManageStatus, IsIdle, IsRunning, Running
<1> QED BY <1>1, <1>2, <1>4, ActivateStep, SendDseepStep

(* A minute for an entry. *)
LEMMA OlderEntryOK ==
  ASSUME NEW e \in Entry, NEW sil \in 0..Removal, NEW A \in 0..SigCap, EntryOK(e, sil, A)
  PROVE  EntryOK(OlderEntry(e), Older(sil, Removal), Older(A, SigCap))
<1>1. /\ OlderEntry(e).age = Older(e.age, Removal) /\ OlderEntry(e).sig = Older(e.sig, SigCap)
      /\ OlderEntry(e).dseep = Older(e.dseep, SigCap) /\ OlderEntry(e).state = e.state
  BY OlderEntryFields
<1>2. e.age \in Nat /\ e.dseep \in Nat /\ sil \in Nat /\ A \in Nat /\ sil <= Removal
      /\ Removal \in Nat /\ SigCap \in Nat /\ MinDseep \in Nat
  BY EntryFields, Times
<1>3. PICK h \in Nat : h = Hops * Delay
  BY Reaches
<1>4. /\ e.sig = A /\ e.state # "VIN_SPENT" /\ e.age <= Removal /\ e.age + h >= sil
      /\ (e.dseep < SigCap => e.age <= e.dseep + MinDseep) /\ (A < SigCap => e.age <= A)
  BY <1>3 DEF EntryOK
<1>5. PICK a, d, s, t : /\ a = Older(e.age, Removal) /\ d = Older(e.dseep, SigCap)
                        /\ s = Older(sil, Removal) /\ t = Older(A, SigCap)
  OBVIOUS
<1>6. /\ a = (IF e.age < Removal THEN e.age + 1 ELSE e.age) /\ d = (IF e.dseep < SigCap THEN e.dseep + 1 ELSE e.dseep)
      /\ s = (IF sil < Removal THEN sil + 1 ELSE sil) /\ t = (IF A < SigCap THEN A + 1 ELSE A)
  BY <1>5 DEF Older
<1>7. a <= Removal /\ a + h >= s
  BY <1>2, <1>4, <1>6
<1>8. d < SigCap => a <= d + MinDseep
  BY <1>2, <1>4, <1>6
<1>9. t < SigCap => a <= t
  BY <1>2, <1>4, <1>6
<1> QED BY <1>1, <1>3, <1>4, <1>5, <1>7, <1>8, <1>9 DEF EntryOK

(* A minute leaves who has taken what, by ages that grow together. *)
LEMMA OlderSets ==
  ASSUME NEW E \in [Node -> Entry \cup {None}], NEW E2,
         E2 = [n \in Node |-> IF E[n] = None THEN None ELSE OlderEntry(E[n])], NEW st
  PROVE  /\ Announced(E) \subseteq Announced(E2)
         /\ \A s \in Nat : Pinged(E, st, s) \subseteq Pinged(E2, st, s + 1)
<1>1. ASSUME NEW n \in Node, Holds(E[n]) PROVE Holds(E2[n]) /\ E2[n].dseep <= E[n].dseep + 1
  <2>1. E[n] \in Entry /\ E2[n] = OlderEntry(E[n])
    BY <1>1 DEF Holds
  <2>2. E2[n] \in Entry /\ E2[n].state = E[n].state /\ E2[n].dseep = Older(E[n].dseep, SigCap)
    BY <2>1, OlderEntryFields
  <2>3. E[n].dseep \in Nat /\ SigCap \in Nat
    BY <2>1, EntryFields, Times
  <2>4. E2[n].dseep <= E[n].dseep + 1
    <3>1. PICK x \in Nat : x = E[n].dseep
      BY <2>3
    <3>2. Older(x, SigCap) <= x + 1
      BY <2>3, OlderAge
    <3> QED BY <2>2, <3>1, <3>2
  <2> QED BY <1>1, <2>2, <2>4, NoneAssumption DEF Holds
<1>2. Announced(E) \subseteq Announced(E2)
  BY <1>1 DEF Announced
<1>3. ASSUME NEW s \in Nat, NEW n \in Pinged(E, st, s) PROVE n \in Pinged(E2, st, s + 1)
  <2>1. CASE n = Own /\ st = "DOWN"
    BY <2>1, NodeAssumption DEF Pinged
  <2>2. CASE Holds(E[n]) /\ E[n].dseep <= s
    <3>1. n \in Node
      BY DEF Pinged
    <3>2. Holds(E2[n]) /\ E2[n].dseep <= E[n].dseep + 1
      BY <1>1, <2>2, <3>1
    <3>3. E[n] \in Entry /\ E2[n] = OlderEntry(E[n])
      BY <2>2, <3>1 DEF Holds
    <3>4. E[n].dseep \in Nat /\ E2[n].dseep \in Nat
      BY <3>3, EntryFields, OlderEntryFields, Times
    <3>5. E2[n].dseep <= s + 1
      BY <2>2, <3>2, <3>4
    <3> QED BY <3>1, <3>2, <3>5 DEF Pinged
  <2> QED BY <2>1, <2>2 DEF Pinged
<1> QED BY <1>2, <1>3

(* A minute for a message. *)
LEMMA OlderMessageOK ==
  ASSUME Undisturbed, NEW m \in Message, m.wait < Delay, NEW E, NEW E2, NEW st, NEW sil \in 0..Removal,
         NEW A \in 0..SigCap, MessageOK(m, E, st, sil, A), Announced(E) \subseteq Announced(E2),
         \A s \in Nat : Pinged(E, st, s) \subseteq Pinged(E2, st, s + 1)
  PROVE  MessageOK(OlderMessage(m), E2, st, Older(sil, Removal), Older(A, SigCap))
<1>1. PICK c, s, t : c = OlderMessage(m) /\ s = Older(sil, Removal) /\ t = Older(A, SigCap)
  OBVIOUS
<1>2. /\ c.kind = m.kind /\ c.wait = m.wait + 1
      /\ m.kind = "dsee" => c.sig = Older(m.sig, SigCap) /\ c.seen = Older(m.seen, Removal) /\ c.new = m.new
      /\ m.kind = "dseep" => c.sig = Older(m.sig, SigCap) /\ c.stop = m.stop
  BY <1>1, OlderMessageFields
<1>3. /\ sil \in Nat /\ A \in Nat /\ sil <= Removal /\ Removal \in Nat /\ SigCap \in Nat /\ m.wait \in Nat
      /\ s = (IF sil < Removal THEN sil + 1 ELSE sil) /\ t = (IF A < SigCap THEN A + 1 ELSE A)
  BY <1>1, MessageFields, Times DEF Older
<1>4. s \in Nat /\ s <= sil + 1 /\ s <= Removal
  BY <1>3
<1>5. ASSUME m.kind = "dsee" PROVE AnnouncementOK(c, E2, s, t)
  <2>1. AnnouncementOK(m, E, sil, A) /\ m.seen \in Nat /\ m.new \in BOOLEAN
    BY <1>5, MessageFields, Times DEF MessageOK
  <2>2. PICK h \in Nat : h = Hops * Delay
    BY Reaches
  <2>3. m.sig = A /\ m.seen <= Removal /\ m.seen + h >= sil /\ (A < SigCap => m.seen <= A)
    BY <2>1, <2>2 DEF AnnouncementOK
  <2>4. c.sig = t /\ c.seen = (IF m.seen < Removal THEN m.seen + 1 ELSE m.seen) /\ c.new = m.new
    BY <1>1, <1>2, <1>5, <2>3 DEF Older
  <2>5. c.seen <= Removal /\ c.seen + h >= s
    BY <1>3, <2>1, <2>3, <2>4
  <2>6. t < SigCap => c.seen <= t
    BY <1>3, <2>1, <2>3, <2>4
  <2>7. ASSUME m.new PROVE s <= c.sig /\ c.sig <= Delay * Cardinality(Announced(E2)) + c.wait
    <3>1. A < SigCap /\ sil <= A
      BY <1>3, <1>5, <2>1, <2>7, AnnouncementYoung
    <3>2. Announced(E2) \subseteq Node
      BY Sets
    <3>3. /\ Delay * Cardinality(Announced(E)) \in Nat /\ Delay * Cardinality(Announced(E2)) \in Nat
          /\ Delay * Cardinality(Announced(E)) <= Delay * Cardinality(Announced(E2))
      BY <3>2, Reaches
    <3>4. PICK x \in Nat, y \in Nat : x = Delay * Cardinality(Announced(E)) /\ y = Delay * Cardinality(Announced(E2))
      BY <3>3
    <3>5. A <= x + m.wait /\ x <= y
      BY <2>1, <2>3, <2>7, <3>3, <3>4 DEF AnnouncementOK
    <3>6. c.sig = A + 1 /\ c.wait = m.wait + 1
      BY <1>2, <1>3, <2>4, <3>1
    <3>7. s <= A + 1 /\ A + 1 <= y + (m.wait + 1)
      BY <1>3, <1>4, <3>1, <3>5
    <3> QED BY <3>4, <3>6, <3>7
  <2> QED BY <2>2, <2>4, <2>5, <2>6, <2>7 DEF AnnouncementOK
<1>6. ASSUME m.kind = "dseep" PROVE PingOK(c, E2, st, s)
  <2>1. PingOK(m, E, st, sil)
    BY <1>6 DEF MessageOK
  <2>2. m.sig \in Nat /\ m.sig < SigCap /\ sil <= m.sig /\ ~m.stop
    BY <1>3, <1>6, <2>1, PingYoung
  <2>3. c.sig = m.sig + 1 /\ c.stop = m.stop /\ c.wait = m.wait + 1
    BY <1>2, <1>6, <2>2 DEF Older
  <2>4. Pinged(E, st, m.sig) \subseteq Pinged(E2, st, c.sig) /\ Pinged(E2, st, c.sig) \subseteq Node
    BY <2>2, <2>3, Sets
  <2>5. /\ Delay * Cardinality(Pinged(E, st, m.sig)) \in Nat /\ Delay * Cardinality(Pinged(E2, st, c.sig)) \in Nat
        /\ Delay * Cardinality(Pinged(E, st, m.sig)) <= Delay * Cardinality(Pinged(E2, st, c.sig))
    BY <2>4, Reaches
  <2>6. PICK x \in Nat, y \in Nat :
          x = Delay * Cardinality(Pinged(E, st, m.sig)) /\ y = Delay * Cardinality(Pinged(E2, st, c.sig))
    BY <2>5
  <2>7. m.sig <= x + m.wait /\ x <= y
    BY <2>1, <2>5, <2>6 DEF PingOK
  <2>8. s <= m.sig + 1 /\ m.sig + 1 <= y + (m.wait + 1)
    BY <1>3, <1>4, <2>2, <2>7
  <2> QED BY <2>2, <2>3, <2>6, <2>8 DEF PingOK
<1> QED BY <1>1, <1>2, <1>5, <1>6 DEF MessageOK

(* A minute: ages, delays and the silence grow together. *)
LEMMA MinuteStep ==
  ASSUME Undisturbed, LInv, Minute
  PROVE  LInv'
<1>1. /\ ListTypeOK' /\ ~spent' /\ ~disabled'
  BY MinuteType DEF LInv, Minute
<1>2. /\ entry' = [n \in Node |-> IF entry[n] = None THEN None ELSE OlderEntry(entry[n])]
      /\ link' = [l \in Peer |-> [i \in DOMAIN link[l] |-> OlderMessage(link[l][i])]]
      /\ silent' = Older(silent, Removal) /\ status' = status /\ managed' = FALSE
      /\ managed \/ status = "DOWN"
  BY DEF Minute, OlderEntry
<1>3. /\ entry \in [Node -> Entry \cup {None}] /\ link \in [Peer -> Seq(Message)] /\ silent \in 0..Removal
      /\ OwnOK(entry, link, status, managed)
  BY DEF LInv, ListTypeOK
<1>4. \A m \in Under(link) : m.wait < Delay
  <2>1. \A l \in Peer : \A i \in DOMAIN link[l] : link[l][i].wait < Delay
    BY DEF Minute
  <2> QED BY <1>3, <2>1, AllDue
<1>5. /\ link' \in [Peer -> Seq(Message)] /\ \A l \in Peer : Len(link'[l]) = Len(link[l])
      /\ \A m \in Under(link') : \E k \in Under(link) : m = OlderMessage(k)
  BY <1>2, <1>3, <1>4, OlderQueues
<1>6. PICK A \in 0..SigCap : Agreed(entry, link, status, silent, A)
  BY DEF LInv
<1>7. PICK t, s : t = Older(A, SigCap) /\ s = Older(silent, Removal)
  OBVIOUS
<1>8. t \in 0..SigCap
  BY <1>7, OlderTimes
<1>9. EntriesOK(entry', s, t)
  <2>1. ASSUME NEW n \in Node, entry'[n] # None PROVE EntryOK(entry'[n], s, t)
    <3>1. entry[n] # None /\ entry'[n] = OlderEntry(entry[n])
      BY <1>2, <2>1
    <3>2. entry[n] \in Entry /\ EntryOK(entry[n], silent, A)
      BY <1>3, <1>6, <3>1 DEF Agreed, EntriesOK
    <3> QED BY <1>3, <1>7, <3>1, <3>2, OlderEntryOK
  <2> QED BY <2>1 DEF EntriesOK
<1>10. /\ Announced(entry) \subseteq Announced(entry')
       /\ \A k \in Nat : Pinged(entry, status, k) \subseteq Pinged(entry', status, k + 1)
  BY <1>2, <1>3, OlderSets
<1>11. ASSUME NEW m \in Under(link') PROVE MessageOK(m, entry', status, s, t)
  <2>1. PICK k \in Under(link) : m = OlderMessage(k)
    BY <1>5
  <2>2. k \in Message /\ k.wait < Delay /\ MessageOK(k, entry, status, silent, A)
    BY <1>4, <1>6, <2>1 DEF Under, Agreed, MessagesOK
  <2> QED BY <1>3, <1>7, <1>10, <2>1, <2>2, OlderMessageOK
<1>12. Agreed(entry', link', status', silent', t)
  BY <1>2, <1>7, <1>9, <1>11 DEF Agreed, MessagesOK
<1>13. OwnOK(entry', link', status', managed')
  <2>1. \A l \in Peer : link[l] = << >> => link'[l] = << >>
    <3>1. Len(<< >>) = 0
      BY EmptySeq
    <3>2. \A l \in Peer : link'[l] \in Seq(Message) /\ (link[l] = << >> => Len(link'[l]) = 0)
      BY <1>5, <3>1
    <3> QED BY <3>2, EmptySeq
  <2>2. \A n \in Node : entry[n] = None => entry'[n] = None
    BY <1>2
  <2>3. ASSUME IsRunning(status) PROVE Holds(entry'[Own]) /\ entry'[Own].age <= 1
    <3>1. managed /\ Holds(entry[Own]) /\ entry[Own].age <= 0
      BY <1>2, <1>3, <2>3 DEF OwnOK, IsRunning
    <3>2. entry[Own] \in Entry /\ entry'[Own] = OlderEntry(entry[Own])
      BY <1>2, <1>3, <3>1, NodeAssumption DEF Holds
    <3>3. entry'[Own] \in Entry /\ entry'[Own].state = entry[Own].state
          /\ entry'[Own].age = Older(entry[Own].age, Removal)
      BY <3>2, OlderEntryFields
    <3>4. entry[Own].age \in Nat /\ Removal \in Nat
      BY <3>2, EntryFields, Times
    <3>5. Older(entry[Own].age, Removal) <= entry[Own].age + 1 /\ Older(entry[Own].age, Removal) \in Nat
      BY <3>4, OlderAge
    <3>6. entry'[Own].age <= 1
      BY <3>1, <3>3, <3>4, <3>5
    <3> QED BY <3>1, <3>3, <3>6, NoneAssumption DEF Holds
  <2> QED BY <1>2, <1>3, <2>1, <2>2, <2>3, NodeAssumption DEF OwnOK
<1> QED BY <1>1, <1>8, <1>12, <1>13 DEF LInv

(* The invariant holds initially, is kept by every step and implies the property. *)
LEMMA LInvInit == ASSUME ListInit PROVE LInv
<1>1. ListTypeOK
  BY ListTypesInit
<1>2. /\ entry = [n \in Node |-> None] /\ link = [l \in Peer |-> << >>] /\ status = "NOT_PROCESSED"
      /\ ~spent /\ ~disabled
  BY DEF ListInit
<1>3. (\A n \in Node : entry[n] = None) /\ (\A l \in Peer : link[l] = << >>)
  BY <1>2
<1>4. OwnOK(entry, link, status, managed)
  BY <1>2, <1>3 DEF OwnOK, IsIdle, IsRunning
<1>5. Under(link) = {}
  BY <1>3, NothingUnder
<1>6. Agreed(entry, link, status, silent, 0)
  BY <1>3, <1>5 DEF Agreed, EntriesOK, MessagesOK
<1>7. 0 \in 0..SigCap
  BY Times
<1> QED BY <1>1, <1>2, <1>4, <1>6, <1>7 DEF LInv

LEMMA LInvNext == ASSUME Undisturbed, LInv, [ListNext]_listVars PROVE LInv'
<1>1. CASE UNCHANGED listVars
  <2>1. UNCHANGED <<entry, asked, link, status, managed, checked, spent, silent, disabled, faults>>
    BY <1>1 DEF listVars
  <2>2. ListTypeOK'
    BY <2>1 DEF LInv, ListTypeOK
  <2> QED BY <2>1, <2>2 DEF LInv
<1>2. ASSUME NEW capable \in BOOLEAN, ManageStatus(capable) PROVE LInv'
  BY <1>2, ManageStatusStep
<1>3. ASSUME NEW capable \in BOOLEAN, StartMasterNode(capable) PROVE FALSE
  BY <1>3 DEF StartMasterNode, LInv, OwnOK, IsIdle, IsRunning
<1>4. CASE StopMasterNode
  BY <1>4 DEF StopMasterNode, Fault, Undisturbed
<1>5. ASSUME NEW l \in Peer, NEW lock \in BOOLEAN, NEW port \in BOOLEAN, Receive(l, lock, port) PROVE LInv'
  BY <1>5, ReceiveStep
<1>6. ASSUME NEW n \in Node, NEW lock \in BOOLEAN, Check(n, lock) \/ CheckAndRemove(n, lock) PROVE LInv'
  BY <1>6, CheckStep
<1>7. CASE Spend
  BY <1>7 DEF Spend, Fault, Undisturbed
<1>8. ASSUME NEW l \in Peer, Drop(l) PROVE LInv'
  BY <1>8, DropStep
<1>9. CASE Die
  BY <1>9, DieStep
<1>10. CASE Minute
  BY <1>10, MinuteStep
<1> QED
  BY <1>1, <1>2, <1>3, <1>4, <1>5, <1>6, <1>7, <1>8, <1>9, <1>10 DEF ListNext

LEMMA LInvSeen == ASSUME LInv PROVE SeenIsReal
<1>1. PICK A \in 0..SigCap : EntriesOK(entry, silent, A)
  BY DEF LInv, Agreed
<1> QED BY <1>1 DEF EntriesOK, EntryOK, SeenIsReal

(* No exchange of old announcements, pings and list answers between other nodes  *)
(* makes a silent masternode look seen: whatever connections are lost, and also  *)
(* after the masternode has died, every copy of lastTimeSeen (UpdateLastSeen in  *)
(* dsee and dseep of CMasternodeMan::ProcessMessage) is as old as the silence, up *)
(* to the time a message needs to go once through every node.                    *)
THEOREM SeenStaysReal == ASSUME Undisturbed PROVE ListSpec => []SeenIsReal
<1>1. ListInit => LInv
  BY LInvInit
<1>2. LInv /\ [ListNext]_listVars => LInv'
  BY LInvNext
<1>3. LInv => SeenIsReal
  BY LInvSeen
<1> QED BY <1>1, <1>2, <1>3, PTL DEF ListSpec
=============================================================================
