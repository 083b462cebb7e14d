------------------------------- MODULE TxRelay -------------------------------
(***************************************************************************)
(* How transactions are fetched and kept (main.cpp: the "inv" and "tx"     *)
(* messages, AlreadyHave, the orphan transactions; net.h: CNode::AskFor).  *)
(* A transaction a peer announces is asked of that peer, one peer after    *)
(* the other at intervals; one whose inputs are not known waits as an      *)
(* orphan until the transaction it spends arrives.                         *)
(*                                                                         *)
(* Times are relative to the present: an entry of mapAskFor is due at 0    *)
(* and Tick brings all of them nearer.  mapAlreadyAskedFor[t] = -Retry     *)
(* stands for a request so old that it no longer matters, or for none.     *)
(***************************************************************************)
EXTENDS Integers, Sequences, FiniteSetsExt, TxMemPool

CONSTANTS
  Node,
  Sends,        \* Sends[n]: transactions n may announce and send
  LargeTx,      \* transactions of more than 5000 bytes
  StandardTx,   \* transactions that pass the checks not about inputs
  Confirmed0,   \* transactions in the index at the start
  Retry,        \* two minutes
  MaxDelay,     \* bound on how far ahead a request is put off
  MAPASKFOR_MAX_SZ, SETASKFOR_MAX_SZ, MAX_ORPHAN_TRANSACTIONS

ASSUME RelayAssumption ==
  /\ Sends \in [Node -> SUBSET Tx] /\ LargeTx \subseteq Tx
  /\ StandardTx \subseteq Tx /\ Confirmed0 \subseteq Tx
  /\ Retry \in Nat \ {0} /\ MaxDelay \in Nat
  /\ {MAPASKFOR_MAX_SZ, SETASKFOR_MAX_SZ, MAX_ORPHAN_TRANSACTIONS} \subseteq Nat

VARIABLES
  mempool,
  txindex,             \* transactions CTxDB contains
  mapOrphanTransactions,
  mapOrphanTransactionsByPrev,
  mapAskFor,           \* mapAskFor[n]: requests not yet sent, [due, tx]
  setAskFor,           \* setAskFor[n]: transactions n is asked for
  mapAlreadyAskedFor   \* when t was last asked for, of anyone

orphanVars == <<mapOrphanTransactions, mapOrphanTransactionsByPrev>>
askVars == <<mapAskFor, setAskFor, mapAlreadyAskedFor>>
vars == <<mempool, txindex, orphanVars, askVars>>

-----------------------------------------------------------------------------
(* AlreadyHave, for MSG_TX. *)
AlreadyHave(t) == t \in mempool.mapTx \cup mapOrphanTransactions \cup txindex

(* Mutant of Verdict: mapNextTx is not consulted. *)
VerdictNoConflict(pool, barred, t) ==
  IF t \notin StandardTx \/ t \in barred \cup pool.mapTx \cup txindex THEN "refused"
  ELSE IF \E o \in vin[t] : txOf[o] \notin txindex THEN "missing"
  ELSE IF vin[t] \cap SpentBy(txindex) # {} THEN "refused"
  ELSE "accepted"

(* AcceptToMemoryPool's verdict, its checks in the order of the code.  barred  *)
(* are transactions it refuses for what is kept elsewhere: an input locked for  *)
(* another transaction (mapLockedInputs), the limit on free transactions.       *)
Verdict(pool, barred, t) ==
  IF \/ t \notin StandardTx \/ t \in barred \/ t \in pool.mapTx
     \/ vin[t] \cap DOMAIN pool.mapNextTx # {} \/ t \in txindex THEN "refused"
  ELSE IF \E o \in vin[t] : txOf[o] \notin txindex THEN "missing"
  ELSE IF vin[t] \cap SpentBy(txindex) # {} THEN "refused"
  ELSE "accepted"

(* mapOrphanTransactionsByPrev.find(p): the orphans filed under p. *)
WaitingFor(byPrev, p) == IF p \in DOMAIN byPrev THEN byPrev[p] ELSE {}

PrevTxs(t) == {txOf[o] : o \in vin[t]}

(* AddOrphanTx files a transaction under every one it spends, unless it is     *)
(* large (Stored).                                                             *)
Stored(t) == {t} \ LargeTx

AddOrphanTx(byPrev, t) ==
  [p \in DOMAIN byPrev \cup PrevTxs(t) |->
     IF p \in PrevTxs(t) THEN WaitingFor(byPrev, p) \cup {t} ELSE byPrev[p]]

(* Mutant of EraseOrphanTxs: an entry that has become empty stays. *)
EraseOrphanTxsKeepEmpty(byPrev, T) == [p \in DOMAIN byPrev |-> byPrev[p] \ T]

(* EraseOrphanTx, for every t in T. *)
EraseOrphanTxs(byPrev, T) ==
  [p \in {q \in DOMAIN byPrev : byPrev[q] \ T # {}} |-> byPrev[p] \ T]

(* One orphan of the inner loop.  s holds the pool, vWorkQueue from the next   *)
(* entry on, the orphans still to try under the present one, and vEraseQueue.  *)
TryOrphan(s, t) ==
  LET v == Verdict(s.pool, s.barred, t)
  IN  [barred |-> s.barred,
       pool  |-> IF v = "accepted" THEN addUnchecked(s.pool, t) ELSE s.pool,
       work  |-> IF v = "accepted" THEN Append(s.work, t) ELSE s.work,
       todo  |-> s.todo \ {t},
       erase |-> IF v = "missing" THEN s.erase ELSE s.erase \cup {t}]

(* The next step of the two loops: an orphan, or the next entry of the queue. *)
LoopStep(s) ==
  IF s.todo # {} THEN TryOrphan(s, CHOOSE t \in s.todo : TRUE)
  ELSE IF s.work # << >>
    THEN [pool |-> s.pool, barred |-> s.barred, work |-> Tail(s.work), erase |-> s.erase,
          todo |-> WaitingFor(mapOrphanTransactionsByPrev, Head(s.work))]
    ELSE s

(* Enough steps: t and then each orphan enter the queue once, and there are no *)
(* more than all the orphans to try under each.                                *)
LoopSteps ==
  LET n == Cardinality(mapOrphanTransactions) + 1 IN n * n

(* "Recursively process any orphan transactions that depended on this one". *)
WorkQueue(s) ==
  LET after[i \in 0 .. LoopSteps] == IF i = 0 THEN s ELSE LoopStep(after[i - 1])
  IN  after[LoopSteps]

(* LimitOrphanTxSize: how many orphans have to go. *)
Surplus(T) == Cardinality(T) - MAX_ORPHAN_TRANSACTIONS

-----------------------------------------------------------------------------
(* The "tx" message. *)

(* What the handler does before AcceptToMemoryPool. *)
Answered(n, t) ==
  /\ setAskFor' = [setAskFor EXCEPT ![n] = @ \ {t}]
  /\ mapAlreadyAskedFor' = [mapAlreadyAskedFor EXCEPT ![t] = -Retry]
  /\ UNCHANGED <<mapAskFor, txindex>>

(* The orphans of the work queue, and t, that are refused this time for what is *)
(* kept elsewhere.                                                              *)
Barred(t) == SUBSET (mapOrphanTransactions \cup {t})

(* t is in the pool and the only entry of the work queue. *)
Started(t, barred) ==
  [pool |-> addUnchecked(mempool, t), barred |-> barred, work |-> <<t>>, todo |-> {}, erase |-> {}]

TxAccepted(n, t) ==
  \E barred \in Barred(t) :
    LET s == WorkQueue(Started(t, barred))
    IN  /\ Verdict(mempool, barred, t) = "accepted"
        /\ mempool' = s.pool
        /\ mapOrphanTransactions' = mapOrphanTransactions \ s.erase
        /\ mapOrphanTransactionsByPrev' = EraseOrphanTxs(mapOrphanTransactionsByPrev, s.erase)
        /\ Answered(n, t)

TxOrphan(n, t) ==
  LET all    == mapOrphanTransactions \cup Stored(t)
      byPrev == IF t \in LargeTx THEN mapOrphanTransactionsByPrev
                ELSE AddOrphanTx(mapOrphanTransactionsByPrev, t)
  IN  /\ Verdict(mempool, {}, t) = "missing"
      /\ \E gone \in {G \in SUBSET all : Cardinality(G) = IF Surplus(all) > 0 THEN Surplus(all) ELSE 0} :
           /\ mapOrphanTransactions' = all \ gone
           /\ mapOrphanTransactionsByPrev' = EraseOrphanTxs(byPrev, gone)
      /\ Answered(n, t)
      /\ UNCHANGED mempool

TxRefused(n, t) ==
  /\ \E barred \in Barred(t) : Verdict(mempool, barred, t) = "refused"
  /\ Answered(n, t)
  /\ UNCHANGED <<mempool, orphanVars>>

(* The handler returns at once when we have the transaction. *)
TxMessage(n, t) ==
  /\ ~AlreadyHave(t)
  /\ TxAccepted(n, t) \/ TxOrphan(n, t) \/ TxRefused(n, t)

-----------------------------------------------------------------------------
(* Asking. *)

(* "Each retry is 2 minutes after the last". *)
RequestTime(t) ==
  IF mapAlreadyAskedFor[t] + Retry > 0 THEN mapAlreadyAskedFor[t] + Retry ELSE 0

(* Mutant of Queued: the request that is waiting is moved, with everybody. *)
QueuedMoves(n, r) ==
  [m \in Node |-> IF m = n THEN {q \in mapAskFor[m] : q.tx # r.tx} \cup {r}
                  ELSE IF \E q \in mapAskFor[m] : q.tx = r.tx
                    THEN {q \in mapAskFor[m] : q.tx # r.tx} \cup {r} ELSE mapAskFor[m]]

(* mapAskFor.insert *)
Queued(n, r) == [mapAskFor EXCEPT ![n] = @ \cup {r}]

(* "inv" with a transaction we do not have: CNode::AskFor. *)
AskFor(n, t) ==
  LET nRequestTime == RequestTime(t)
  IN  /\ ~AlreadyHave(t)
      /\ Cardinality(mapAskFor[n]) <= MAPASKFOR_MAX_SZ
      /\ t \notin setAskFor[n]
      /\ nRequestTime <= MaxDelay
      /\ setAskFor' = [setAskFor EXCEPT ![n] = @ \cup {t}]
      /\ mapAlreadyAskedFor' = [mapAlreadyAskedFor EXCEPT ![t] = nRequestTime]
      /\ mapAskFor' = Queued(n, [due |-> nRequestTime, tx |-> t])
      /\ UNCHANGED <<mempool, txindex, orphanVars>>

IsDue(r) == r.due <= 0

(* SendMessages, "getdata (non-blocks)". *)
SendMessages(n) ==
  LET due == {r.tx : r \in {q \in mapAskFor[n] : IsDue(q)}}
  IN  /\ due # {}
      /\ mapAskFor' = [mapAskFor EXCEPT ![n] = {r \in @ : ~IsDue(r)}]
      /\ setAskFor' = [setAskFor EXCEPT ![n] = @ \ {t \in due : AlreadyHave(t)}]
      /\ UNCHANGED <<mempool, txindex, orphanVars, mapAlreadyAskedFor>>

(* The connection closes, and another from the same peer opens. *)
Reconnect(n) ==
  /\ mapAskFor' = [mapAskFor EXCEPT ![n] = {}]
  /\ setAskFor' = [setAskFor EXCEPT ![n] = {}]
  /\ UNCHANGED <<mempool, txindex, orphanVars, mapAlreadyAskedFor>>

(* A block confirms t: the index has it, the pool no longer. *)
Confirm(t) ==
  /\ t \in StandardTx \ txindex
  /\ \A o \in vin[t] : txOf[o] \in txindex /\ o \notin SpentBy(txindex)
  /\ txindex' = txindex \cup {t}
  /\ mempool' = remove(mempool, {t})
  /\ UNCHANGED <<orphanVars, askVars>>

Tick ==
  /\ mapAskFor' = [n \in Node |->
       {[due |-> IF r.due > 0 THEN r.due - 1 ELSE 0, tx |-> r.tx] : r \in mapAskFor[n]}]
  /\ mapAlreadyAskedFor' = [t \in Tx |-> IF mapAlreadyAskedFor[t] > -Retry
                                           THEN mapAlreadyAskedFor[t] - 1 ELSE -Retry]
  /\ UNCHANGED <<mempool, txindex, orphanVars, setAskFor>>

-----------------------------------------------------------------------------
Init ==
  /\ mempool = EmptyPool /\ txindex = Confirmed0
  /\ mapOrphanTransactions = {} /\ mapOrphanTransactionsByPrev = [p \in {} |-> {}]
  /\ mapAskFor = [n \in Node |-> {}] /\ setAskFor = [n \in Node |-> {}]
  /\ mapAlreadyAskedFor = [t \in Tx |-> -Retry]

Next ==
  \/ \E n \in Node : \E t \in Sends[n] \ Confirmed0 : TxMessage(n, t) \/ AskFor(n, t)
  \/ \E n \in Node : SendMessages(n) \/ Reconnect(n)
  \/ \E t \in Tx : Confirm(t)
  \/ Tick

Spec == Init /\ [][Next]_vars

(* Time passes and the message thread calls SendMessages for every peer. *)
FairSpec == Spec /\ WF_vars(Tick) /\ \A n \in Node : WF_vars(SendMessages(n))

-----------------------------------------------------------------------------
(* Types; a request is never put off further than the interval allows. *)
TypeOK ==
  /\ mapOrphanTransactions \subseteq Tx /\ txindex \subseteq Tx /\ mempool.mapTx \subseteq Tx
  /\ mapAskFor \in [Node -> SUBSET [due : 0 .. MaxDelay, tx : Tx]]
  /\ setAskFor \in [Node -> SUBSET Tx]
  /\ mapAlreadyAskedFor \in [Tx -> -Retry .. MaxDelay]

(* mapOrphanTransactionsByPrev files every orphan under each transaction it     *)
(* spends and nothing else, and holds no empty entry: the work queue reads      *)
(* mapOrphanTransactions[hash] for every hash in it.                            *)
ByPrevExact ==
  mapOrphanTransactionsByPrev =
    [p \in UNION {PrevTxs(t) : t \in mapOrphanTransactions} |->
       {t \in mapOrphanTransactions : p \in PrevTxs(t)}]

(* A pool transaction never spends what another pool transaction spends,        *)
(* whichever of the two waited as an orphan.                                    *)
NoPoolConflict == \A s, t \in mempool.mapTx : s # t => vin[s] \cap vin[t] = {}

QueuedTx(n) == {r.tx : r \in mapAskFor[n]}

(* SendMessages takes a request for t from n's queue: getdata goes out, unless   *)
(* we have t by then.                                                            *)
TakesUp(n, t) == t \in {r.tx : r \in {q \in mapAskFor[n] : IsDue(q)}} /\ SendMessages(n)

(* A queued request is taken up or goes with the connection, however often other *)
(* peers announce the same transaction and push its next request further: if t    *)
(* is in n's queue from some time on, requests for it are taken up again and      *)
(* again.                                                                         *)
RequestIsSent ==
  \A n \in Node, t \in Tx : []<>(t \notin QueuedTx(n)) \/ []<><<TakesUp(n, t)>>_vars

(* "Recursively process any orphan transactions that depended on this one": an  *)
(* orphan whose inputs are all known, in the pool or in the index, and claimed  *)
(* by no one else, does not keep waiting.                                       *)
OrphanNotForgotten ==
  \A t \in mapOrphanTransactions :
     \/ \E p \in PrevTxs(t) : p \notin mempool.mapTx \cup txindex
     \/ vin[t] \cap (DOMAIN mempool.mapNextTx \cup SpentBy(txindex)) # {}

(* "The maximum number of entries in setAskFor".                                *)
SetAskForBounded == \A n \in Node : Cardinality(setAskFor[n]) <= SETASKFOR_MAX_SZ
=============================================================================
