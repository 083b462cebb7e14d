------------------------ MODULE NodeLifecycleProofs ------------------------
(* Proofs about NodeLifecycle: the reference counts cover every holder, and no *)
(* step loses an outbound slot, for any number of callers, addresses and nodes. *)
EXTENDS NodeLifecycle, FiniteSetTheorems, TLAPS

(* The caller has created its node and not finished with it. *)
Owns(c) == caller[c].pc \in Using /\ caller[c].pnode \notin aliased

Owned(n) == \E c \in Caller : Owns(c) /\ caller[c].pnode = n

(* A caller past ConnectNode's lookup has a node; one it found is aliased. *)
CallerHasNode ==
  \A c \in Caller :
    /\ caller[c].pc \in {"load", "store"} \cup Using => caller[c].pnode \in Created
    /\ caller[c].pc \in {"load", "store"} => caller[c].pnode \in aliased

(* Nobody else knows that a created node is to count as outbound: the socket    *)
(* thread cannot have given its reference back.                                 *)
OwnedIsPlain ==
  \A c \in Caller : Owns(c) =>
    /\ ~node[caller[c].pnode].fInbound /\ ~node[caller[c].pnode].fNetworkNode
    /\ caller[c].pnode \in vNodes \cup vNodesDisconnected

OneOwner ==
  \A c, d \in Caller : Owns(c) /\ Owns(d) /\ caller[c].pnode = caller[d].pnode => c = d

(* RefsCoverHolders, with the reference of the creator, and of the list until *)
(* the socket thread has given it back.                                       *)
CountCovers ==
  \A n \in (vNodes \cup vNodesDisconnected) \ aliased :
     node[n].nRefCount >= (IF n \in vNodes \cup closing \/ Owned(n) THEN 1 ELSE 0)
                            + Held("net", n) + Held("msghand", n)

CopyOnlyInRound == \A t \in Handler : stage[t] # "round" => vNodesCopy[t] = {}

(* The socket thread is closing nodes only under cs_vNodes. *)
ClosingInRelease == stage["net"] # "release" => closing = {}

NInv ==
  /\ TypeOK /\ CallerHasNode /\ OwnedIsPlain /\ OneOwner
  /\ CountCovers /\ CopyOnlyInRound /\ NoRoundOnDeleted /\ ClosingInRelease

-----------------------------------------------------------------------------
(* A caller uses its node in four program points. *)
USE DEF Using

(* The initial state satisfies the invariant. *)
LEMMA InitNInv == Init => NInv
<1>. USE NodeAssumption
<1>1. Init => TypeOK /\ ClosingInRelease
  BY DEF Init, TypeOK, Created, Handler, Idle, CallerState, NodeId, ClosingInRelease
<1>2. Init => CallerHasNode /\ OwnedIsPlain /\ OneOwner
  BY DEF Init, CallerHasNode, OwnedIsPlain, OneOwner, Owns, Idle, Using
<1>3. Init => CountCovers /\ CopyOnlyInRound /\ NoRoundOnDeleted
  BY DEF Init, CountCovers, CopyOnlyInRound, NoRoundOnDeleted, Deleted, Created, Handler
<1>. QED
  BY <1>1, <1>2, <1>3 DEF NInv

(* Sets of nodes are finite, so that counting the grants they hold is defined. *)
LEMMA GrantCount ==
  ASSUME TypeOK, NEW S, S \subseteq Created, NEW P, P \subseteq S
  PROVE  Cardinality(P) \in Nat
<1>1. IsFiniteSet(Created)
  BY FS_Interval DEF Created, TypeOK
<1>2. IsFiniteSet(P)
  BY <1>1, FS_Subset
<1>. QED
  BY <1>2, FS_CardinalityType

-----------------------------------------------------------------------------
(* Steps that change only callers that own nothing before or after. *)
LEMMA UnownedStep ==
  ASSUME NInv, NEW c \in Caller,
         TypeOK', CallerHasNode', UNCHANGED <<nLastNodeId, node, vNodes, vNodesDisconnected, stage, vNodesCopy, closing, posted>>,
         \A d \in Caller \ {c} : caller'[d] = caller[d],
         caller'[c].pc \notin Using \/ caller'[c].pnode \in aliased',
         aliased \subseteq aliased'
  PROVE  NInv'
<1>1. \A d \in Caller : Owns(d)' => Owns(d) /\ caller'[d].pnode = caller[d].pnode
  BY DEF Owns
<1>2. \A n : Owned(n)' => Owned(n)
  BY <1>1 DEF Owned
<1>3. OwnedIsPlain' /\ OneOwner'
  BY <1>1 DEF NInv, OwnedIsPlain, OneOwner
<1>4. CountCovers'
  <2>. SUFFICES ASSUME NEW n \in (vNodes \cup vNodesDisconnected) \ aliased'
                PROVE  node[n].nRefCount >= (IF n \in vNodes \cup closing \/ Owned(n)' THEN 1 ELSE 0)
                                             + Held("net", n) + Held("msghand", n)
    BY DEF CountCovers, Held
  <2>1. node[n].nRefCount >= (IF n \in vNodes \cup closing \/ Owned(n) THEN 1 ELSE 0)
                               + Held("net", n) + Held("msghand", n)
    BY DEF NInv, CountCovers
  <2>2. node[n].nRefCount \in Int /\ Held("net", n) \in Int /\ Held("msghand", n) \in Int
    BY DEF NInv, TypeOK, Field, Held
  <2>. QED
    BY <1>2, <2>1, <2>2
<1>5. CopyOnlyInRound' /\ NoRoundOnDeleted' /\ ClosingInRelease'
  BY DEF NInv, ClosingInRelease, CopyOnlyInRound, NoRoundOnDeleted, Deleted, Created
<1>. QED
  BY <1>3, <1>4, <1>5 DEF NInv

(* Steps of a caller that neither create nor use a node. *)
LEMMA QuietCallerStep ==
  ASSUME NInv, NEW c \in Caller,
         \/ \E a \in Addr : AcquireGrant(c, a) \/ CallConnectNode(c, a)
         \/ AlreadyConnected(c) \/ NotConnected(c)
         \/ ConnectNodeFinds(c) \/ ConnectNodeDials(c) \/ DialFails(c)
         \/ AddRefLoad(c) \/ ConnectNodeReturns(c)
  PROVE  NInv'
<1>. USE NodeAssumption
<1>a. TypeOK /\ CallerHasNode /\ caller[c] \in CallerState
  BY DEF NInv, TypeOK
<1>b. UNCHANGED <<nLastNodeId, node, vNodes, vNodesDisconnected, stage, vNodesCopy, closing, posted>>
  BY DEF AcquireGrant, CallConnectNode, AlreadyConnected, NotConnected, ConnectNodeFinds,
         ConnectNodeDials, DialFails, AddRefLoad, ConnectNodeReturns, netVars
<1>c. /\ \A d \in Caller \ {c} : caller'[d] = caller[d]
      /\ aliased \subseteq aliased' /\ aliased' \subseteq Created
      /\ caller' \in [Caller -> CallerState] /\ semOutbound' \in Nat
      /\ caller'[c].pc \notin Using
      /\ caller'[c].pc \in {"load", "store"} => caller'[c].pnode \in aliased'
  <2>1. CASE \E a \in Addr : AcquireGrant(c, a)
    <3>1. PICK a \in Addr : AcquireGrant(c, a)
      BY <2>1
    <3>. DEFINE r == [caller[c] EXCEPT !.pc = "open", !.addr = a, !.fHaveGrant = TRUE]
    <3>2. r \in CallerState /\ r.pc = "open"
      BY <1>a DEF CallerState
    <3>3. caller' = [caller EXCEPT ![c] = r] /\ aliased' = aliased
      BY <3>1 DEF AcquireGrant
    <3>4. semOutbound \in Nat /\ semOutbound >= 1 /\ semOutbound' = semOutbound - 1
      BY <1>a, <3>1 DEF AcquireGrant, TypeOK
    <3>. HIDE DEF r
    <3>. QED
      BY <1>a, <3>2, <3>3, <3>4 DEF TypeOK
  <2>2. CASE \E a \in Addr : CallConnectNode(c, a)
    <3>1. PICK a \in Addr : CallConnectNode(c, a)
      BY <2>2
    <3>. DEFINE r == [caller[c] EXCEPT !.pc = "connect", !.addr = a]
    <3>2. r \in CallerState /\ r.pc = "connect"
      BY <1>a DEF CallerState
    <3>3. caller' = [caller EXCEPT ![c] = r] /\ aliased' = aliased /\ semOutbound' = semOutbound
      BY <1>a, <3>1 DEF CallConnectNode
    <3>. HIDE DEF r
    <3>. QED
      BY <1>a, <3>2, <3>3 DEF TypeOK
  <2>3. CASE AlreadyConnected(c) \/ DialFails(c) \/ ConnectNodeReturns(c)
    <3>1. Idle(FALSE) \in CallerState /\ Idle(FALSE).pc = "start"
      BY DEF Idle, CallerState
    <3>2. Finished(c) /\ aliased' = aliased
      BY <2>3 DEF AlreadyConnected, DialFails, ConnectNodeReturns
    <3>3. semOutbound' \in Nat
      BY <1>a, <3>2 DEF Finished, TypeOK, CallerState
    <3>. QED
      BY <1>a, <3>1, <3>2, <3>3 DEF Finished, TypeOK
  <2>4. CASE NotConnected(c) \/ ConnectNodeDials(c)
    BY <1>a, <2>4 DEF NotConnected, ConnectNodeDials, TypeOK, CallerState
  <2>5. CASE ConnectNodeFinds(c)
    <3>1. PICK n \in FindNode(caller[c].addr) :
            /\ caller' = [caller EXCEPT ![c] = [@ EXCEPT !.pc = "load", !.pnode = n]]
            /\ aliased' = aliased \cup {n}
      BY <2>5 DEF ConnectNodeFinds
    <3>a. n \in 1 .. nLastNodeId /\ nLastNodeId \in 0 .. MaxNodes
      BY <1>a DEF FindNode, TypeOK, Created
    <3>2. n \in Created /\ n \in NodeId
      BY <3>a DEF Created, NodeId
    <3>. DEFINE r == [caller[c] EXCEPT !.pc = "load", !.pnode = n]
    <3>3. r \in CallerState /\ r.pc = "load" /\ r.pnode = n
      BY <1>a, <3>2 DEF CallerState
    <3>4. caller' = [caller EXCEPT ![c] = r] /\ semOutbound' = semOutbound
      BY <2>5, <3>1 DEF ConnectNodeFinds
    <3>. HIDE DEF r
    <3>. QED
      BY <1>a, <3>1, <3>2, <3>3, <3>4 DEF TypeOK
  <2>6. CASE AddRefLoad(c)
    <3>1. node[caller[c].pnode].nRefCount \in Int
      BY <1>a, <2>6 DEF AddRefLoad, CallerHasNode, TypeOK, Field
    <3>. QED
      BY <1>a, <2>6, <3>1 DEF AddRefLoad, CallerHasNode, TypeOK, CallerState
  <2>. QED
    BY <2>1, <2>2, <2>3, <2>4, <2>5, <2>6
<1>1. TypeOK'
  BY <1>a, <1>b, <1>c DEF TypeOK, Created
<1>2. CallerHasNode'
  BY <1>a, <1>b, <1>c DEF CallerHasNode, Created
<1>. QED
  BY <1>1, <1>2, <1>b, <1>c, UnownedStep

-----------------------------------------------------------------------------
(* A node that no list holds is deleted, and stays so. *)
LEMMA DeletedAlt ==
  ASSUME NEW n \in Created
  PROVE  n \in Deleted <=> n \notin vNodes /\ n \notin vNodesDisconnected
BY DEF Deleted

(* The store of a found node's AddRef: only an aliased count changes. *)
LEMMA StoreStep ==
  ASSUME NInv, NEW c \in Caller, AddRefStore(c)
  PROVE  NInv'
<1>. DEFINE p == caller[c].pnode
<1>a. TypeOK /\ CallerHasNode /\ caller[c] \in CallerState /\ p \in Created /\ p \in aliased
  BY DEF NInv, TypeOK, CallerHasNode, AddRefStore
<1>b. /\ node' = [node EXCEPT ![p].nRefCount = caller[c].nLoaded + 1]
      /\ caller' = [caller EXCEPT ![c] = [@ EXCEPT !.pc = "connected"]]
      /\ UNCHANGED <<nLastNodeId, vNodes, vNodesDisconnected, semOutbound, stage, vNodesCopy, closing, posted, aliased>>
  BY DEF AddRefStore, netVars
<1>1. TypeOK'
  <2>1. node' \in [Created -> Field]
    BY <1>a, <1>b DEF TypeOK, Field, CallerState
  <2>2. caller' \in [Caller -> CallerState]
    BY <1>a, <1>b DEF TypeOK, CallerState
  <2>. QED
    BY <1>a, <1>b, <2>1, <2>2 DEF TypeOK, Created
<1>c. /\ \A d \in Caller : caller'[d].pnode = caller[d].pnode
      /\ \A d \in Caller \ {c} : caller'[d] = caller[d]
      /\ caller'[c].pc = "connected"
  BY <1>a, <1>b DEF TypeOK, CallerState
<1>2. CallerHasNode'
  BY <1>a, <1>b, <1>c DEF CallerHasNode, Created
<1>3. \A d \in Caller : Owns(d)' => Owns(d)
  BY <1>a, <1>b, <1>c DEF Owns
<1>4. \A n \in Created : n # p => node'[n] = node[n]
  BY <1>a, <1>b DEF TypeOK
<1>5. \A n : Owned(n)' => Owned(n)
  BY <1>3, <1>c DEF Owned
<1>6. OwnedIsPlain' /\ OneOwner'
  <2>1. OneOwner'
    BY <1>3, <1>c DEF OneOwner, NInv
  <2>2. OwnedIsPlain'
    <3>. SUFFICES ASSUME NEW d \in Caller, Owns(d)'
                  PROVE  /\ ~node'[caller[d].pnode].fInbound /\ ~node'[caller[d].pnode].fNetworkNode
                         /\ caller[d].pnode \in vNodes \cup vNodesDisconnected
      BY <1>b, <1>c DEF OwnedIsPlain
    <3>1. Owns(d) /\ caller[d].pnode # p /\ caller[d].pnode \in Created
      BY <1>3, <1>a DEF Owns, CallerHasNode
    <3>. QED
      BY <3>1, <1>4 DEF NInv, OwnedIsPlain
  <2>. QED
    BY <2>1, <2>2
<1>7. CountCovers'
  <2>. SUFFICES ASSUME NEW n \in (vNodes \cup vNodesDisconnected) \ aliased
                PROVE  node'[n].nRefCount >= (IF n \in vNodes \cup closing \/ Owned(n)' THEN 1 ELSE 0)
                                             + Held("net", n) + Held("msghand", n)
    BY <1>b DEF CountCovers, Held
  <2>1. node[n].nRefCount >= (IF n \in vNodes \cup closing \/ Owned(n) THEN 1 ELSE 0)
                               + Held("net", n) + Held("msghand", n)
    BY DEF NInv, CountCovers
  <2>2. node'[n] = node[n] /\ node[n].nRefCount \in Int /\ Held("net", n) \in Int /\ Held("msghand", n) \in Int
    BY <1>4, <1>a DEF TypeOK, Field, Held
  <2>. QED
    BY <1>5, <2>1, <2>2
<1>8. CopyOnlyInRound' /\ NoRoundOnDeleted' /\ ClosingInRelease'
  BY <1>b DEF NInv, ClosingInRelease, CopyOnlyInRound, NoRoundOnDeleted, Deleted, Created
<1>. QED
  BY <1>1, <1>2, <1>6, <1>7, <1>8 DEF NInv

(* Moving a grant changes no count and no list. *)
LEMMA GrantStep ==
  ASSUME NInv, NEW c \in Caller, NEW g \in BOOLEAN, NEW r \in CallerState,
         caller[c].pc \in Using, r.pc \in Using, r.pnode = caller[c].pnode,
         caller' = [caller EXCEPT ![c] = r],
         node' = [node EXCEPT ![caller[c].pnode].grantOutbound = g], semOutbound' \in Nat,
         UNCHANGED <<nLastNodeId, vNodes, vNodesDisconnected, stage, vNodesCopy, closing, posted, aliased>>
  PROVE  NInv'
<1>. DEFINE p == caller[c].pnode
<1>a. TypeOK /\ CallerHasNode /\ p \in Created
  BY DEF NInv, TypeOK, CallerHasNode
<1>b. /\ node' = [node EXCEPT ![p].grantOutbound = g]
      /\ caller' = [caller EXCEPT ![c] = r]
      /\ UNCHANGED <<nLastNodeId, vNodes, vNodesDisconnected, stage, vNodesCopy, closing, posted, aliased>>
  OBVIOUS
<1>1. TypeOK'
  <2>1. node' \in [Created -> Field]
    BY <1>a, <1>b DEF TypeOK, Field
  <2>2. caller' \in [Caller -> CallerState]
    BY <1>a, <1>b DEF TypeOK
  <2>. QED
    BY <1>a, <1>b, <2>1, <2>2 DEF TypeOK, Created
<1>c. /\ \A d \in Caller : caller'[d].pnode = caller[d].pnode
      /\ \A d \in Caller \ {c} : caller'[d] = caller[d]
      /\ caller'[c].pc \in Using
  BY <1>a, <1>b DEF TypeOK
<1>2. CallerHasNode'
  BY <1>a, <1>b, <1>c DEF CallerHasNode, Created
<1>3. \A d \in Caller : Owns(d)' <=> Owns(d)
  BY <1>a, <1>b, <1>c DEF Owns
<1>4. \A n \in Created : /\ node'[n].nRefCount = node[n].nRefCount
                         /\ node'[n].fInbound = node[n].fInbound
                         /\ node'[n].fNetworkNode = node[n].fNetworkNode
  BY <1>a, <1>b DEF TypeOK, Field
<1>5. \A n : Owned(n)' => Owned(n)
  BY <1>3, <1>c DEF Owned
<1>6. OneOwner'
  BY <1>3, <1>c DEF OneOwner, NInv
<1>7. OwnedIsPlain'
  <2>. SUFFICES ASSUME NEW d \in Caller, Owns(d)
                PROVE  /\ ~node'[caller[d].pnode].fInbound /\ ~node'[caller[d].pnode].fNetworkNode
                       /\ caller[d].pnode \in vNodes \cup vNodesDisconnected
    BY <1>b, <1>c, <1>3 DEF OwnedIsPlain
  <2>1. caller[d].pnode \in Created
    BY <1>a DEF Owns, CallerHasNode
  <2>. QED
    BY <2>1, <1>4 DEF NInv, OwnedIsPlain
<1>8. CountCovers'
  <2>. SUFFICES ASSUME NEW n \in (vNodes \cup vNodesDisconnected) \ aliased
                PROVE  node'[n].nRefCount >= (IF n \in vNodes \cup closing \/ Owned(n)' THEN 1 ELSE 0)
                                             + Held("net", n) + Held("msghand", n)
    BY <1>b DEF CountCovers, Held
  <2>1. node[n].nRefCount >= (IF n \in vNodes \cup closing \/ Owned(n) THEN 1 ELSE 0)
                               + Held("net", n) + Held("msghand", n)
    BY DEF NInv, CountCovers
  <2>2. /\ node'[n].nRefCount = node[n].nRefCount /\ node[n].nRefCount \in Int
        /\ Held("net", n) \in Int /\ Held("msghand", n) \in Int
    BY <1>4, <1>a DEF TypeOK, Field, Held
  <2>. QED
    BY <1>5, <2>1, <2>2
<1>9. CopyOnlyInRound' /\ NoRoundOnDeleted' /\ ClosingInRelease'
  BY <1>b DEF NInv, ClosingInRelease, CopyOnlyInRound, NoRoundOnDeleted, Deleted, Created
<1>. QED
  BY <1>1, <1>2, <1>6, <1>7, <1>8, <1>9 DEF NInv

(* MoveTo: the release of the node's grant, and the move. *)
LEMMA MoveStep ==
  ASSUME NInv, NEW c \in Caller, MoveToReleases(c) \/ MoveToClears(c) \/ MoveTo(c)
  PROVE  NInv'
<1>. DEFINE p == caller[c].pnode
<1>a. TypeOK /\ CallerHasNode /\ caller[c] \in CallerState /\ caller[c].pc \in Using /\ p \in Created
  BY DEF NInv, TypeOK, CallerHasNode, Using, MoveToReleases, MoveToClears, MoveTo
<1>b. UNCHANGED <<nLastNodeId, vNodes, vNodesDisconnected, stage, vNodesCopy, closing, posted, aliased>>
  BY DEF MoveToReleases, MoveToClears, MoveTo, netVars
<1>1. CASE MoveToReleases(c)
  <2>1. node' = [node EXCEPT ![p].grantOutbound = node[p].grantOutbound] /\ node[p].grantOutbound \in BOOLEAN
    BY <1>1, <1>a DEF MoveToReleases, TypeOK, Field
  <2>2. semOutbound' \in Nat
    BY <1>1, <1>a DEF MoveToReleases, TypeOK
  <2>3. PICK to \in {"clear", "move"} : caller' = [caller EXCEPT ![c] = [@ EXCEPT !.pc = to]]
    BY <1>1 DEF MoveToReleases
  <2>. DEFINE r == [caller[c] EXCEPT !.pc = to]
  <2>4. r \in CallerState /\ r.pc \in Using /\ r.pnode = p /\ caller' = [caller EXCEPT ![c] = r]
    BY <2>3, <1>a DEF CallerState, Using
  <2>. HIDE DEF r
  <2>. QED
    BY <1>a, <1>b, <2>1, <2>2, <2>4, GrantStep
<1>2. CASE MoveToClears(c)
  <2>. DEFINE r == [caller[c] EXCEPT !.pc = "move"]
  <2>1. r \in CallerState /\ r.pc \in Using /\ r.pnode = p /\ caller' = [caller EXCEPT ![c] = r]
    BY <1>2, <1>a DEF CallerState, Using, MoveToClears
  <2>2. node' = [node EXCEPT ![p].grantOutbound = FALSE] /\ semOutbound' \in Nat
    BY <1>2, <1>a DEF MoveToClears, TypeOK
  <2>. HIDE DEF r
  <2>. QED
    BY <1>a, <1>b, <2>1, <2>2, GrantStep
<1>3. CASE MoveTo(c)
  <2>. DEFINE r == [caller[c] EXCEPT !.pc = "moved", !.fHaveGrant = FALSE]
  <2>1. r \in CallerState /\ r.pc \in Using /\ r.pnode = p /\ caller' = [caller EXCEPT ![c] = r]
    BY <1>3, <1>a DEF CallerState, Using, MoveTo
  <2>2. node' = [node EXCEPT ![p].grantOutbound = TRUE] /\ semOutbound' \in Nat
    BY <1>3, <1>a DEF MoveTo, TypeOK
  <2>. HIDE DEF r
  <2>. QED
    BY <1>a, <1>b, <2>1, <2>2, GrantStep
<1>. QED
  BY <1>1, <1>2, <1>3

(* Once fNetworkNode is set the caller owns nothing. *)
LEMMA NetworkStep ==
  ASSUME NInv, NEW c \in Caller, SetNetworkNode(c)
  PROVE  NInv'
<1>. DEFINE p == caller[c].pnode
<1>a. TypeOK /\ CallerHasNode /\ caller[c] \in CallerState /\ p \in Created
  BY DEF NInv, TypeOK, CallerHasNode, SetNetworkNode
<1>b. /\ node' = [node EXCEPT ![p].fNetworkNode = TRUE]
      /\ caller' = [caller EXCEPT ![c] = Idle(FALSE)]
      /\ UNCHANGED <<nLastNodeId, vNodes, vNodesDisconnected, stage, vNodesCopy, closing, posted, aliased>>
      /\ caller[c].pc = "moved"
      /\ semOutbound' = IF caller[c].fHaveGrant THEN semOutbound + 1 ELSE semOutbound
  BY DEF SetNetworkNode, Finished, netVars
<1>d. Idle(FALSE) \in CallerState /\ Idle(FALSE).pc = "start"
  BY DEF Idle, CallerState
<1>1. TypeOK'
  <2>1. node' \in [Created -> Field]
    BY <1>a, <1>b DEF TypeOK, Field
  <2>2. caller' \in [Caller -> CallerState]
    BY <1>a, <1>b, <1>d DEF TypeOK
  <2>3. semOutbound' \in Nat
    BY <1>a, <1>b DEF TypeOK
  <2>. QED
    BY <1>a, <1>b, <2>1, <2>2, <2>3 DEF TypeOK, Created
<1>c. /\ \A d \in Caller \ {c} : caller'[d] = caller[d]
      /\ caller'[c].pc = "start"
  BY <1>a, <1>b, <1>d DEF TypeOK
<1>e. nLastNodeId' = nLastNodeId /\ aliased' = aliased
  BY <1>b
<1>2. CallerHasNode'
  BY <1>a, <1>c, <1>e DEF CallerHasNode, Created
<1>3. \A d \in Caller : Owns(d)' => Owns(d) /\ d # c /\ caller'[d] = caller[d]
  BY <1>c, <1>e DEF Owns
<1>4. \A n \in Created : /\ node'[n].nRefCount = node[n].nRefCount
                         /\ node'[n].fInbound = node[n].fInbound
                         /\ n # p => node'[n].fNetworkNode = node[n].fNetworkNode
  BY <1>a, <1>b DEF TypeOK, Field
<1>5. \A n : Owned(n)' => Owned(n)
  BY <1>3, <1>c DEF Owned
<1>6. OneOwner'
  BY <1>3, <1>c DEF OneOwner, NInv
<1>7. OwnedIsPlain'
  <2>. SUFFICES ASSUME NEW d \in Caller, Owns(d), d # c
                PROVE  /\ ~node'[caller[d].pnode].fInbound /\ ~node'[caller[d].pnode].fNetworkNode
                       /\ caller[d].pnode \in vNodes \cup vNodesDisconnected
    BY <1>b, <1>c, <1>3 DEF OwnedIsPlain
  <2>1. caller[d].pnode \in Created
    BY <1>a DEF Owns, CallerHasNode
  <2>2. caller[d].pnode # p
    <3>. SUFFICES ASSUME caller[d].pnode = p PROVE FALSE
      OBVIOUS
    <3>1. Owns(c)
      BY <1>b DEF Owns
    <3>. QED
      BY <3>1 DEF NInv, OneOwner
  <2>. QED
    BY <2>1, <2>2, <1>4 DEF NInv, OwnedIsPlain
<1>8. CountCovers'
  <2>. SUFFICES ASSUME NEW n \in (vNodes \cup vNodesDisconnected) \ aliased
                PROVE  node'[n].nRefCount >= (IF n \in vNodes \cup closing \/ Owned(n)' THEN 1 ELSE 0)
                                             + Held("net", n) + Held("msghand", n)
    BY <1>b DEF CountCovers, Held
  <2>1. node[n].nRefCount >= (IF n \in vNodes \cup closing \/ Owned(n) THEN 1 ELSE 0)
                               + Held("net", n) + Held("msghand", n)
    BY DEF NInv, CountCovers
  <2>2. /\ node'[n].nRefCount = node[n].nRefCount /\ node[n].nRefCount \in Int
        /\ Held("net", n) \in Int /\ Held("msghand", n) \in Int
    BY <1>4, <1>a DEF TypeOK, Field, Held
  <2>. QED
    BY <1>5, <2>1, <2>2
<1>9. CopyOnlyInRound' /\ NoRoundOnDeleted' /\ ClosingInRelease'
  BY <1>b DEF NInv, ClosingInRelease, CopyOnlyInRound, NoRoundOnDeleted, Deleted, Created
<1>. QED
  BY <1>1, <1>2, <1>6, <1>7, <1>8, <1>9 DEF NInv

-----------------------------------------------------------------------------
(* A new node gets a new id, one reference and a place in vNodes. *)
LEMMA NewNode ==
  ASSUME TypeOK, NEW a \in Addr \cup {NULL}, NEW fIn \in BOOLEAN, AddNode(a, fIn)
  PROVE  LET n == nLastNodeId + 1
         IN  /\ nLastNodeId' \in 0 .. MaxNodes /\ Created' = Created \cup {n} /\ n \notin Created
             /\ n \in NodeId
             /\ node' \in [Created' -> Field] /\ vNodes' = vNodes \cup {n}
             /\ \A i \in Created : node'[i] = node[i]
             /\ node'[n].nRefCount = 1 /\ node'[n].fInbound = fIn /\ ~node'[n].fNetworkNode
<1>. USE NodeAssumption
<1>. DEFINE n == nLastNodeId + 1
<1>1. nLastNodeId \in 0 .. MaxNodes /\ nLastNodeId' = n /\ n <= MaxNodes
  BY DEF TypeOK, AddNode
<1>2. Created' = Created \cup {n} /\ n \notin Created /\ n \in NodeId
  BY <1>1 DEF Created, NodeId
<1>3. CNode(a, fIn) \in Field /\ CNode(a, fIn).nRefCount = 1 /\ CNode(a, fIn).fInbound = fIn
      /\ ~CNode(a, fIn).fNetworkNode
  BY DEF CNode, Field
<1>4. /\ node' = [i \in Created \cup {n} |-> IF i = n THEN CNode(a, fIn) ELSE node[i]]
      /\ vNodes' = vNodes \cup {n}
  BY DEF AddNode
<1>5. node \in [Created -> Field]
  BY DEF TypeOK
<1>6. node' \in [Created' -> Field]
  BY <1>2, <1>3, <1>4, <1>5
<1>7. (\A i \in Created : node'[i] = node[i]) /\ node'[n] = CNode(a, fIn)
  BY <1>2, <1>4
<1>. QED
  BY <1>1, <1>2, <1>3, <1>4, <1>6, <1>7

(* A node is accepted or dialled. *)
LEMMA AcceptStep ==
  ASSUME NInv, NEW a \in Addr, AcceptConnection(a)
  PROVE  NInv'
<1>. DEFINE n == nLastNodeId + 1
<1>a. TypeOK /\ CallerHasNode /\ AddNode(a, TRUE)
  BY DEF NInv, AcceptConnection
<1>b. /\ UNCHANGED <<vNodesDisconnected, semOutbound, vNodesCopy, closing, posted, caller, aliased>>
      /\ stage' = [stage EXCEPT !["net"] = "idle"] /\ stage["net"] = "accept"
  BY DEF AcceptConnection
<1>c. /\ nLastNodeId' \in 0 .. MaxNodes /\ Created' = Created \cup {n} /\ n \notin Created
      /\ node' \in [Created' -> Field] /\ vNodes' = vNodes \cup {n}
      /\ \A i \in Created : node'[i] = node[i]
      /\ node'[n].nRefCount = 1
  BY <1>a, NewNode
<1>. HIDE DEF n
<1>d. \A x : x \in vNodes \cup vNodesDisconnected \cup aliased \cup vNodesCopy["net"] \cup vNodesCopy["msghand"]
             => x \in Created
  BY <1>a DEF TypeOK, Handler
<1>e. stage' \in [Handler -> {"disconnect", "release", "delete", "accept", "idle", "round"}]
  BY <1>a, <1>b DEF TypeOK, Handler
<1>1. TypeOK'
  BY <1>a, <1>b, <1>c, <1>e DEF TypeOK
<1>2. CallerHasNode'
  BY <1>a, <1>b, <1>c DEF CallerHasNode
<1>3. \A d \in Caller : (Owns(d)' <=> Owns(d)) /\ (Owns(d) => caller[d].pnode \in Created)
  BY <1>a, <1>b DEF Owns, CallerHasNode
<1>4. OneOwner'
  BY <1>b, <1>3 DEF OneOwner, NInv
<1>5. OwnedIsPlain'
  BY <1>b, <1>c, <1>3 DEF OwnedIsPlain, NInv
<1>6. CountCovers'
  <2>. SUFFICES ASSUME NEW m \in (vNodes' \cup vNodesDisconnected) \ aliased
                PROVE  node'[m].nRefCount >= (IF m \in vNodes' \cup closing' \/ Owned(m)' THEN 1 ELSE 0)
                                             + Held("net", m) + Held("msghand", m)
    BY <1>b DEF CountCovers, Held
  <2>1. CASE m = n
    <3>1. Held("net", m) = 0 /\ Held("msghand", m) = 0
      BY <2>1, <1>c, <1>d DEF Held
    <3>. QED
      BY <2>1, <3>1, <1>c
  <2>2. CASE m # n
    <3>1. m \in (vNodes \cup vNodesDisconnected) \ aliased /\ m \in Created
      BY <2>2, <1>c, <1>d
    <3>2. node[m].nRefCount >= (IF m \in vNodes \cup closing \/ Owned(m) THEN 1 ELSE 0)
                                 + Held("net", m) + Held("msghand", m)
      BY <3>1 DEF NInv, CountCovers
    <3>3. node'[m].nRefCount = node[m].nRefCount /\ node[m].nRefCount \in Int
      BY <3>1, <1>a, <1>c DEF TypeOK, Field
    <3>4. (m \in vNodes' \cup closing' <=> m \in vNodes \cup closing) /\ (Owned(m)' <=> Owned(m))
      BY <2>2, <1>b, <1>c, <1>3 DEF Owned
    <3>5. Held("net", m) \in Int /\ Held("msghand", m) \in Int
      BY DEF Held
    <3>. QED
      BY <3>2, <3>3, <3>4, <3>5
  <2>. QED
    BY <2>1, <2>2
<1>7. CopyOnlyInRound' /\ ClosingInRelease'
  BY <1>a, <1>b DEF NInv, ClosingInRelease, CopyOnlyInRound, TypeOK, Handler
<1>8. NoRoundOnDeleted'
  BY <1>a, <1>b, <1>c DEF NInv, NoRoundOnDeleted, Deleted, TypeOK
<1>. QED
  BY <1>1, <1>2, <1>4, <1>5, <1>6, <1>7, <1>8 DEF NInv

LEMMA DialStep ==
  ASSUME NInv, NEW c \in Caller, DialSucceeds(c)
  PROVE  NInv'
<1>. DEFINE n == nLastNodeId + 1
            r == [caller[c] EXCEPT !.pc = "connected", !.pnode = n]
<1>a. TypeOK /\ CallerHasNode /\ caller[c] \in CallerState /\ AddNode(caller[c].addr, FALSE)
      /\ caller[c].addr \in Addr \cup {NULL}
  BY DEF NInv, DialSucceeds, TypeOK, CallerState
<1>b. /\ UNCHANGED <<vNodesDisconnected, semOutbound, stage, vNodesCopy, closing, posted, aliased>>
      /\ caller' = [caller EXCEPT ![c] = r]
  BY DEF DialSucceeds, netVars
<1>c. /\ nLastNodeId' \in 0 .. MaxNodes /\ Created' = Created \cup {n} /\ n \notin Created
      /\ n \in NodeId
      /\ node' \in [Created' -> Field] /\ vNodes' = vNodes \cup {n}
      /\ \A i \in Created : node'[i] = node[i]
      /\ node'[n].nRefCount = 1 /\ ~node'[n].fInbound /\ ~node'[n].fNetworkNode
  BY <1>a, NewNode
<1>d. r \in CallerState /\ r.pc = "connected" /\ r.pnode = n
  BY <1>a, <1>c DEF CallerState
<1>. HIDE DEF n, r
<1>e. \A x : x \in vNodes \cup vNodesDisconnected \cup aliased \cup vNodesCopy["net"] \cup vNodesCopy["msghand"]
             => x \in Created
  BY <1>a DEF TypeOK, Handler
<1>f. caller' \in [Caller -> CallerState] /\ caller'[c] = r /\ \A d \in Caller \ {c} : caller'[d] = caller[d]
  BY <1>a, <1>b, <1>d DEF TypeOK
<1>1. TypeOK'
  BY <1>a, <1>b, <1>c, <1>f DEF TypeOK
<1>2. CallerHasNode'
  BY <1>a, <1>b, <1>c, <1>d, <1>f DEF CallerHasNode
<1>3. \A d \in Caller \ {c} : /\ Owns(d)' => Owns(d) /\ caller[d].pnode \in Created
                              /\ caller'[d].pnode = caller[d].pnode
  BY <1>a, <1>b, <1>f DEF Owns, CallerHasNode
<1>4. OneOwner'
  <2>. SUFFICES ASSUME NEW d \in Caller, NEW e \in Caller, Owns(d)', Owns(e)',
                       caller'[d].pnode = caller'[e].pnode
                PROVE  d = e
    BY DEF OneOwner
  <2>1. CASE d # c /\ e # c
    BY <2>1, <1>3 DEF OneOwner, NInv
  <2>2. CASE d = c \/ e = c
    BY <2>2, <1>3, <1>c, <1>d, <1>f
  <2>. QED
    BY <2>1, <2>2
<1>5. OwnedIsPlain'
  <2>. SUFFICES ASSUME NEW d \in Caller, Owns(d)'
                PROVE  /\ ~node'[caller'[d].pnode].fInbound /\ ~node'[caller'[d].pnode].fNetworkNode
                       /\ caller'[d].pnode \in vNodes' \cup vNodesDisconnected'
    BY DEF OwnedIsPlain
  <2>1. CASE d = c
    BY <2>1, <1>c, <1>d, <1>f
  <2>2. CASE d # c
    BY <2>2, <1>3, <1>c, <1>b DEF OwnedIsPlain, NInv
  <2>. QED
    BY <2>1, <2>2
<1>6. CountCovers'
  <2>. SUFFICES ASSUME NEW m \in (vNodes' \cup vNodesDisconnected) \ aliased
                PROVE  node'[m].nRefCount >= (IF m \in vNodes' \cup closing' \/ Owned(m)' THEN 1 ELSE 0)
                                             + Held("net", m) + Held("msghand", m)
    BY <1>b DEF CountCovers, Held
  <2>1. CASE m = n
    <3>1. Held("net", m) = 0 /\ Held("msghand", m) = 0
      BY <2>1, <1>c, <1>e DEF Held
    <3>. QED
      BY <2>1, <3>1, <1>c
  <2>2. CASE m # n
    <3>1. m \in (vNodes \cup vNodesDisconnected) \ aliased /\ m \in Created
      BY <2>2, <1>c, <1>e
    <3>2. node[m].nRefCount >= (IF m \in vNodes \cup closing \/ Owned(m) THEN 1 ELSE 0)
                                 + Held("net", m) + Held("msghand", m)
      BY <3>1 DEF NInv, CountCovers
    <3>3. node'[m].nRefCount = node[m].nRefCount /\ node[m].nRefCount \in Int
      BY <3>1, <1>a, <1>c DEF TypeOK, Field
    <3>4. (m \in vNodes' \cup closing' <=> m \in vNodes \cup closing) /\ (Owned(m)' => Owned(m))
      BY <2>2, <1>b, <1>c, <1>d, <1>f, <1>3 DEF Owned
    <3>5. Held("net", m) \in Int /\ Held("msghand", m) \in Int
      BY DEF Held
    <3>. QED
      BY <3>2, <3>3, <3>4, <3>5
  <2>. QED
    BY <2>1, <2>2
<1>7. CopyOnlyInRound' /\ ClosingInRelease'
  BY <1>b DEF NInv, ClosingInRelease, CopyOnlyInRound
<1>8. NoRoundOnDeleted'
  BY <1>a, <1>b, <1>c DEF NInv, NoRoundOnDeleted, Deleted, TypeOK
<1>. QED
  BY <1>1, <1>2, <1>4, <1>5, <1>6, <1>7, <1>8 DEF NInv

-----------------------------------------------------------------------------
(* Steps of the handler threads leave the callers alone. *)
LEMMA CallersUntouched ==
  ASSUME NInv, UNCHANGED <<nLastNodeId, caller, aliased>>
  PROVE  /\ CallerHasNode' /\ OneOwner'
         /\ \A d \in Caller : (Owns(d)' <=> Owns(d)) /\ (Owns(d) => caller[d].pnode \in Created)
         /\ \A n : Owned(n)' <=> Owned(n)
<1>1. CallerHasNode' /\ OneOwner'
  BY DEF NInv, CallerHasNode, OneOwner, Created, Owns
<1>2. \A d \in Caller : (Owns(d)' <=> Owns(d)) /\ (Owns(d) => caller[d].pnode \in Created)
  BY DEF NInv, CallerHasNode, Owns
<1>3. \A n : Owned(n)' <=> Owned(n)
  BY <1>2 DEF Owned
<1>. QED
  BY <1>1, <1>2, <1>3

(* A round begins: one more reference for each node of vNodes. *)
LEMMA BeginStep ==
  ASSUME NInv, NEW t \in Handler, BeginRound(t)
  PROVE  NInv'
<1>a. TypeOK /\ node \in [Created -> Field] /\ vNodes \subseteq Created
  BY DEF NInv, TypeOK
<1>b. /\ UNCHANGED <<nLastNodeId, vNodes, vNodesDisconnected, semOutbound, closing, posted, caller, aliased>>
      /\ node' = AddRefs(vNodes) /\ vNodesCopy' = [vNodesCopy EXCEPT ![t] = vNodes]
      /\ stage' = [stage EXCEPT ![t] = "round"] /\ stage[t] = "idle"
  BY DEF BeginRound
<1>c. \A n \in Created : /\ node'[n] \in Field /\ node'[n].fInbound = node[n].fInbound
                         /\ node'[n].fNetworkNode = node[n].fNetworkNode
                         /\ node'[n].nRefCount = IF n \in vNodes THEN node[n].nRefCount + 1
                                                 ELSE node[n].nRefCount
  BY <1>a, <1>b DEF AddRefs, Field
<1>d. node' \in [Created -> Field]
  BY <1>b, <1>c DEF AddRefs
<1>e. vNodesCopy[t] = {} /\ vNodesCopy'[t] = vNodes
      /\ (\A u \in Handler \ {t} : vNodesCopy'[u] = vNodesCopy[u])
  BY <1>a, <1>b DEF NInv, CopyOnlyInRound, TypeOK
<1>f. Created' = Created
  BY <1>b DEF Created
<1>1. TypeOK'
  BY <1>a, <1>b, <1>d, <1>f DEF TypeOK
<1>2. /\ CallerHasNode' /\ OneOwner'
      /\ \A d \in Caller : (Owns(d)' <=> Owns(d)) /\ (Owns(d) => caller[d].pnode \in Created)
      /\ \A n : Owned(n)' <=> Owned(n)
  BY <1>b, CallersUntouched
<1>3. OwnedIsPlain'
  BY <1>b, <1>c, <1>2 DEF OwnedIsPlain, NInv
<1>4. CountCovers'
  <2>. SUFFICES ASSUME NEW n \in (vNodes \cup vNodesDisconnected) \ aliased
                PROVE  node'[n].nRefCount >= (IF n \in vNodes \cup closing \/ Owned(n) THEN 1 ELSE 0)
                                             + Held("net", n)' + Held("msghand", n)'
    BY <1>b, <1>2 DEF CountCovers
  <2>1. node[n].nRefCount >= (IF n \in vNodes \cup closing \/ Owned(n) THEN 1 ELSE 0)
                               + Held("net", n) + Held("msghand", n)
    BY DEF NInv, CountCovers
  <2>2. node[n].nRefCount \in Int /\ n \in Created
    BY <1>a DEF TypeOK, Field
  <2>3. Held(t, n)' = (IF n \in vNodes THEN 1 ELSE 0) /\ Held(t, n) = 0
    BY <1>e DEF Held
  <2>4. \A u \in Handler \ {t} : Held(u, n)' = Held(u, n)
    BY <1>e DEF Held
  <2>5. \A u \in Handler : Held(u, n) \in Int
    BY DEF Held
  <2>. QED
    BY <1>c, <2>1, <2>2, <2>3, <2>4, <2>5 DEF Handler
<1>5. CopyOnlyInRound' /\ ClosingInRelease'
  BY <1>a, <1>b, <1>e DEF NInv, ClosingInRelease, CopyOnlyInRound, TypeOK, Handler
<1>6. NoRoundOnDeleted'
  BY <1>b, <1>e, <1>f DEF NInv, NoRoundOnDeleted, Deleted
<1>. QED
  BY <1>1, <1>2, <1>3, <1>4, <1>5, <1>6 DEF NInv

(* A node is marked for closing. *)
LEMMA CloseStep ==
  ASSUME NInv, NEW t \in Handler, NEW n \in vNodesCopy[t], CloseSocketDisconnect(t, n)
  PROVE  NInv'
<1>a. TypeOK /\ node \in [Created -> Field] /\ n \in Created
  BY DEF NInv, TypeOK
<1>b. /\ UNCHANGED <<nLastNodeId, vNodes, vNodesDisconnected, semOutbound, stage, vNodesCopy, closing, posted, caller, aliased>>
      /\ node' = [node EXCEPT ![n].fDisconnect = TRUE]
  BY DEF CloseSocketDisconnect, netVars
<1>c. /\ node' \in [Created -> Field]
      /\ \A m \in Created : /\ node'[m].fInbound = node[m].fInbound
                            /\ node'[m].fNetworkNode = node[m].fNetworkNode
                            /\ node'[m].nRefCount = node[m].nRefCount
  BY <1>a, <1>b DEF Field
<1>f. Created' = Created
  BY <1>b DEF Created
<1>1. TypeOK'
  BY <1>a, <1>b, <1>c, <1>f DEF TypeOK
<1>2. /\ CallerHasNode' /\ OneOwner'
      /\ \A d \in Caller : (Owns(d)' <=> Owns(d)) /\ (Owns(d) => caller[d].pnode \in Created)
      /\ \A m : Owned(m)' <=> Owned(m)
  BY <1>b, CallersUntouched
<1>3. OwnedIsPlain'
  BY <1>b, <1>c, <1>2 DEF OwnedIsPlain, NInv
<1>4. CountCovers'
  <2>. SUFFICES ASSUME NEW m \in (vNodes \cup vNodesDisconnected) \ aliased
                PROVE  node'[m].nRefCount >= (IF m \in vNodes \cup closing \/ Owned(m) THEN 1 ELSE 0)
                                             + Held("net", m) + Held("msghand", m)
    BY <1>b, <1>2 DEF CountCovers, Held
  <2>1. m \in Created
    BY <1>a DEF TypeOK
  <2>. QED
    BY <1>c, <2>1 DEF NInv, CountCovers
<1>5. CopyOnlyInRound' /\ NoRoundOnDeleted' /\ ClosingInRelease'
  BY <1>b, <1>f DEF NInv, ClosingInRelease, CopyOnlyInRound, NoRoundOnDeleted, Deleted
<1>. QED
  BY <1>1, <1>2, <1>3, <1>4, <1>5 DEF NInv

(* A round ends: what it took is given back. *)
LEMMA EndStep ==
  ASSUME NInv, NEW t \in Handler, EndRound(t)
  PROVE  NInv'
<1>a. TypeOK /\ node \in [Created -> Field] /\ vNodesCopy[t] \subseteq Created
  BY DEF NInv, TypeOK
<1>b. /\ UNCHANGED <<nLastNodeId, vNodes, vNodesDisconnected, semOutbound, closing, posted, caller, aliased>>
      /\ node' = Releases(vNodesCopy[t]) /\ vNodesCopy' = [vNodesCopy EXCEPT ![t] = {}]
      /\ stage' = [stage EXCEPT ![t] = IF t = "net" THEN "disconnect" ELSE "idle"] /\ stage[t] = "round"
  BY DEF EndRound
<1>c. \A n \in Created : /\ node'[n] \in Field /\ node'[n].fInbound = node[n].fInbound
                         /\ node'[n].fNetworkNode = node[n].fNetworkNode
                         /\ node'[n].nRefCount = IF n \in vNodesCopy[t] THEN node[n].nRefCount - 1
                                                 ELSE node[n].nRefCount
  BY <1>a, <1>b DEF Releases, Field
<1>d. node' \in [Created -> Field]
  BY <1>b, <1>c DEF Releases
<1>e. vNodesCopy'[t] = {} /\ (\A u \in Handler \ {t} : vNodesCopy'[u] = vNodesCopy[u])
  BY <1>a, <1>b DEF TypeOK
<1>f. Created' = Created
  BY <1>b DEF Created
<1>1. TypeOK'
  BY <1>a, <1>b, <1>d, <1>f DEF TypeOK
<1>2. /\ CallerHasNode' /\ OneOwner'
      /\ \A d \in Caller : (Owns(d)' <=> Owns(d)) /\ (Owns(d) => caller[d].pnode \in Created)
      /\ \A n : Owned(n)' <=> Owned(n)
  BY <1>b, CallersUntouched
<1>3. OwnedIsPlain'
  BY <1>b, <1>c, <1>2 DEF OwnedIsPlain, NInv
<1>4. CountCovers'
  <2>. SUFFICES ASSUME NEW n \in (vNodes \cup vNodesDisconnected) \ aliased
                PROVE  node'[n].nRefCount >= (IF n \in vNodes \cup closing \/ Owned(n) THEN 1 ELSE 0)
                                             + Held("net", n)' + Held("msghand", n)'
    BY <1>b, <1>2 DEF CountCovers
  <2>1. node[n].nRefCount >= (IF n \in vNodes \cup closing \/ Owned(n) THEN 1 ELSE 0)
                               + Held("net", n) + Held("msghand", n)
    BY DEF NInv, CountCovers
  <2>2. node[n].nRefCount \in Int /\ n \in Created
    BY <1>a DEF TypeOK, Field
  <2>3. Held(t, n) = (IF n \in vNodesCopy[t] THEN 1 ELSE 0) /\ Held(t, n)' = 0
    BY <1>e DEF Held
  <2>4. \A u \in Handler \ {t} : Held(u, n)' = Held(u, n)
    BY <1>e DEF Held
  <2>5. \A u \in Handler : Held(u, n) \in Int
    BY DEF Held
  <2>. QED
    BY <1>c, <2>1, <2>2, <2>3, <2>4, <2>5 DEF Handler
<1>5. CopyOnlyInRound' /\ ClosingInRelease'
  BY <1>a, <1>b, <1>e DEF NInv, ClosingInRelease, CopyOnlyInRound, TypeOK, Handler
<1>6. NoRoundOnDeleted'
  BY <1>b, <1>e, <1>f DEF NInv, NoRoundOnDeleted, Deleted
<1>. QED
  BY <1>1, <1>2, <1>3, <1>4, <1>5, <1>6 DEF NInv

(* What disconnecting and freeing do to the fields. *)
LEMMA DisconnectedFields ==
  ASSUME NEW r \in Field
  PROVE  /\ Disconnected(r) \in Field /\ Disconnected(r).fInbound = r.fInbound
         /\ Disconnected(r).fNetworkNode = r.fNetworkNode
         /\ Disconnected(r).grantOutbound = r.grantOutbound
         /\ Disconnected(r).nRefCount =
              IF r.fNetworkNode \/ r.fInbound THEN r.nRefCount - 1 ELSE r.nRefCount
<1>. DEFINE k == IF r.fNetworkNode \/ r.fInbound THEN r.nRefCount - 1 ELSE r.nRefCount
<1>1. k \in Int
  BY DEF Field
<1>2. Disconnected(r) = [r EXCEPT !.fDisconnect = TRUE, !.nRefCount = k]
  BY DEF Disconnected, Field
<1>. HIDE DEF k
<1>3. Disconnected(r) = [addr |-> r.addr, fInbound |-> r.fInbound, fNetworkNode |-> r.fNetworkNode,
                         fDisconnect |-> TRUE, nRefCount |-> k, grantOutbound |-> r.grantOutbound]
  BY <1>2 DEF Field
<1>4. /\ r.addr \in Addr \cup {NULL} /\ r.fInbound \in BOOLEAN /\ r.fNetworkNode \in BOOLEAN
      /\ r.grantOutbound \in BOOLEAN
  BY DEF Field
<1>5. Disconnected(r) \in Field
  BY <1>1, <1>3, <1>4 DEF Field
<1>6. /\ Disconnected(r).fInbound = r.fInbound
      /\ Disconnected(r).fNetworkNode = r.fNetworkNode
      /\ Disconnected(r).grantOutbound = r.grantOutbound
      /\ Disconnected(r).nRefCount = k
  BY <1>3
<1>7. k = IF r.fNetworkNode \/ r.fInbound THEN r.nRefCount - 1 ELSE r.nRefCount
  BY DEF k
<1>. QED
  BY <1>5, <1>6, <1>7, Zenon

LEMMA FreedFields == ASSUME NEW r \in Field PROVE Freed(r) \in Field
<1>1. \A q \in Field : [q EXCEPT !.grantOutbound = FALSE] \in Field
  BY DEF Field
<1>2. \A q \in Field : [q EXCEPT !.nRefCount = 0] \in Field
  BY DEF Field
<1>3. \A q \in Field : [q EXCEPT !.fNetworkNode = FALSE] \in Field
  BY DEF Field
<1>4. Freed(r) = [[[r EXCEPT !.grantOutbound = FALSE] EXCEPT !.nRefCount = 0]
                    EXCEPT !.fNetworkNode = FALSE]
  BY DEF Freed
<1>. QED
  BY <1>1, <1>2, <1>3, <1>4

(* The socket thread takes what it closes out of vNodes. *)
LEMMA DisconnectStep ==
  ASSUME NInv, DisconnectNodes
  PROVE  NInv'
<1>a. TypeOK /\ vNodes \subseteq Created /\ vNodesDisconnected \subseteq Created
  BY DEF NInv, TypeOK
<1>0. PICK idle \in SUBSET vNodes :
        /\ closing' = Unused(idle) /\ vNodes' = StillListed(closing')
        /\ vNodesDisconnected' = vNodesDisconnected \cup closing'
        /\ posted' = Granted(closing') /\ semOutbound' = semOutbound + Cardinality(posted')
  BY DEF DisconnectNodes
<1>g. closing' \subseteq vNodes /\ posted' \subseteq closing'
  BY <1>0 DEF Unused, Granted
<1>b. /\ UNCHANGED <<nLastNodeId, node, vNodesCopy, caller, aliased>>
      /\ stage' = [stage EXCEPT !["net"] = "release"] /\ stage["net"] = "disconnect"
      /\ vNodes' = vNodes \ closing' /\ vNodesDisconnected' = vNodesDisconnected \cup closing'
      /\ vNodes' \cup vNodesDisconnected' = vNodes \cup vNodesDisconnected
      /\ vNodes' \cup closing' = vNodes
  BY <1>0, <1>g DEF DisconnectNodes, StillListed
<1>c. closing = {}
  BY <1>b DEF NInv, ClosingInRelease
<1>h. semOutbound' \in Nat
  <2>1. Cardinality(posted') \in Nat
    BY <1>a, <1>g, GrantCount
  <2>. QED
    BY <1>a, <1>0, <2>1 DEF TypeOK
<1>f. Created' = Created
  BY <1>b DEF Created
<1>e. stage' \in [Handler -> {"disconnect", "release", "delete", "accept", "idle", "round"}]
      /\ stage'["net"] = "release"
  BY <1>a, <1>b DEF TypeOK, Handler
<1>1. TypeOK'
  <2>1. vNodes' \subseteq Created /\ vNodesDisconnected' \subseteq Created /\ vNodes' \cap vNodesDisconnected' = {}
    BY <1>a, <1>b, <1>g DEF TypeOK
  <2>2. nLastNodeId' \in 0 .. MaxNodes /\ node' \in [Created -> Field]
        /\ vNodesCopy' \in [Handler -> SUBSET Created]
        /\ caller' \in [Caller -> CallerState] /\ aliased' \subseteq Created
    BY <1>a, <1>b DEF TypeOK
  <2>3. closing' \subseteq vNodesDisconnected' /\ posted' \subseteq closing'
    BY <1>b, <1>g
  <2>. QED
    BY <1>e, <1>f, <1>h, <2>1, <2>2, <2>3 DEF TypeOK
<1>2. /\ CallerHasNode' /\ OneOwner'
      /\ \A d \in Caller : (Owns(d)' <=> Owns(d)) /\ (Owns(d) => caller[d].pnode \in Created)
      /\ \A n : Owned(n)' <=> Owned(n)
  BY <1>b, CallersUntouched
<1>3. OwnedIsPlain'
  BY <1>b, <1>2 DEF OwnedIsPlain, NInv
<1>4. CountCovers'
  <2>. SUFFICES ASSUME NEW n \in (vNodes \cup vNodesDisconnected) \ aliased
                PROVE  node[n].nRefCount >= (IF n \in vNodes \/ Owned(n) THEN 1 ELSE 0)
                                             + Held("net", n) + Held("msghand", n)
    BY <1>b, <1>2 DEF CountCovers, Held
  <2>. QED
    BY <1>c DEF NInv, CountCovers
<1>5. CopyOnlyInRound' /\ ClosingInRelease'
  <2>1. \A t \in Handler : stage'[t] # "round" => stage[t] # "round"
    BY <1>a, <1>b DEF TypeOK
  <2>. QED
    BY <1>b, <1>e, <2>1 DEF NInv, CopyOnlyInRound, ClosingInRelease
<1>6. NoRoundOnDeleted'
  BY <1>b, <1>f DEF NInv, NoRoundOnDeleted, Deleted
<1>. QED
  BY <1>1, <1>2, <1>3, <1>4, <1>5, <1>6 DEF NInv

(* Disconnection gives back the reference of whoever created the node, unless   *)
(* its creator still owns it.                                                   *)
LEMMA CloseNodesStep ==
  ASSUME NInv, CloseNodes
  PROVE  NInv'
<1>a. TypeOK /\ node \in [Created -> Field] /\ vNodes \subseteq Created /\ vNodesDisconnected \subseteq Created
  BY DEF NInv, TypeOK
<1>. DEFINE closed(n) == IF n \in posted THEN [Disconnected(node[n]) EXCEPT !.grantOutbound = FALSE]
                          ELSE IF n \in closing THEN Disconnected(node[n]) ELSE node[n]
<1>b. /\ UNCHANGED <<nLastNodeId, vNodes, vNodesDisconnected, semOutbound, vNodesCopy, caller, aliased>>
      /\ stage' = [stage EXCEPT !["net"] = "delete"] /\ stage["net"] = "release"
      /\ closing' = {} /\ posted' = {}
      /\ node' = [n \in Created |-> closed(n)]
  BY DEF CloseNodes
<1>g. posted \subseteq closing /\ closing \subseteq vNodesDisconnected
      /\ vNodes \cap vNodesDisconnected = {}
  BY <1>a DEF TypeOK
<1>c. \A n \in Created : /\ node'[n] \in Field /\ node'[n].fInbound = node[n].fInbound
                         /\ node'[n].fNetworkNode = node[n].fNetworkNode
                         /\ node'[n].nRefCount =
                              IF n \in closing /\ (node[n].fNetworkNode \/ node[n].fInbound)
                                THEN node[n].nRefCount - 1 ELSE node[n].nRefCount
  <2>. SUFFICES ASSUME NEW n \in Created
                PROVE  /\ node'[n] \in Field /\ node'[n].fInbound = node[n].fInbound
                       /\ node'[n].fNetworkNode = node[n].fNetworkNode
                       /\ node'[n].nRefCount =
                            IF n \in closing /\ (node[n].fNetworkNode \/ node[n].fInbound)
                              THEN node[n].nRefCount - 1 ELSE node[n].nRefCount
    OBVIOUS
  <2>1. node[n] \in Field /\ node'[n] = closed(n)
    BY <1>a, <1>b
  <2>2. \A q \in Field : LET u == [q EXCEPT !.grantOutbound = FALSE]
                         IN  /\ u \in Field /\ u.fInbound = q.fInbound
                             /\ u.fNetworkNode = q.fNetworkNode /\ u.nRefCount = q.nRefCount
    BY DEF Field
  <2>3. /\ Disconnected(node[n]) \in Field /\ Disconnected(node[n]).fInbound = node[n].fInbound
        /\ Disconnected(node[n]).fNetworkNode = node[n].fNetworkNode
        /\ Disconnected(node[n]).nRefCount =
             IF node[n].fNetworkNode \/ node[n].fInbound THEN node[n].nRefCount - 1 ELSE node[n].nRefCount
    BY <2>1, DisconnectedFields
  <2>. QED
    BY <1>g, <2>1, <2>2, <2>3
<1>d. node' \in [Created -> Field]
  BY <1>b, <1>c
<1>f. Created' = Created
  BY <1>b DEF Created
<1>e. stage' \in [Handler -> {"disconnect", "release", "delete", "accept", "idle", "round"}]
  BY <1>a, <1>b DEF TypeOK, Handler
<1>1. TypeOK'
  <2>1. vNodes' \subseteq Created /\ vNodesDisconnected' \subseteq Created /\ vNodes' \cap vNodesDisconnected' = {}
    BY <1>a, <1>b DEF TypeOK
  <2>2. nLastNodeId' \in 0 .. MaxNodes /\ vNodesCopy' \in [Handler -> SUBSET Created]
        /\ caller' \in [Caller -> CallerState] /\ aliased' \subseteq Created
    BY <1>a, <1>b DEF TypeOK
  <2>. QED
    BY <1>a, <1>b, <1>d, <1>e, <1>f, <2>1, <2>2 DEF TypeOK
<1>2. /\ CallerHasNode' /\ OneOwner'
      /\ \A d \in Caller : (Owns(d)' <=> Owns(d)) /\ (Owns(d) => caller[d].pnode \in Created)
      /\ \A n : Owned(n)' <=> Owned(n)
  BY <1>b, CallersUntouched
<1>3. OwnedIsPlain'
  BY <1>b, <1>c, <1>2 DEF OwnedIsPlain, NInv
<1>4. CountCovers'
  <2>. SUFFICES ASSUME NEW n \in (vNodes \cup vNodesDisconnected) \ aliased
                PROVE  node'[n].nRefCount >= (IF n \in vNodes \/ Owned(n) THEN 1 ELSE 0)
                                             + Held("net", n) + Held("msghand", n)
    BY <1>b, <1>2 DEF CountCovers, Held
  <2>1. node[n].nRefCount >= (IF n \in vNodes \cup closing \/ Owned(n) THEN 1 ELSE 0)
                               + Held("net", n) + Held("msghand", n)
    BY DEF NInv, CountCovers
  <2>2. node[n].nRefCount \in Int /\ n \in Created /\ Held("net", n) \in Int /\ Held("msghand", n) \in Int
    BY <1>a DEF Field, Held
  <2>3. Owned(n) => ~node[n].fInbound /\ ~node[n].fNetworkNode
    BY DEF Owned, NInv, OwnedIsPlain
  <2>4. n \in closing => n \notin vNodes
    BY <1>g
  <2>. QED
    BY <1>c, <2>1, <2>2, <2>3, <2>4
<1>5. CopyOnlyInRound' /\ ClosingInRelease'
  <2>1. \A t \in Handler : stage'[t] # "round" => stage[t] # "round"
    BY <1>a, <1>b DEF TypeOK
  <2>. QED
    BY <1>b, <2>1 DEF NInv, CopyOnlyInRound, ClosingInRelease
<1>6. NoRoundOnDeleted'
  BY <1>b, <1>f DEF NInv, NoRoundOnDeleted, Deleted
<1>. QED
  BY <1>1, <1>2, <1>3, <1>4, <1>5, <1>6 DEF NInv

(* Only nodes without references are deleted: no round uses them and no creator  *)
(* owns them.                                                                    *)
LEMMA DeleteStep ==
  ASSUME NInv, NEW busy, DeleteNodes(busy)
  PROVE  NInv'
<1>. DEFINE dead == Deletable \ busy
<1>a. TypeOK /\ node \in [Created -> Field] /\ vNodesDisconnected \subseteq Created
      /\ vNodes \subseteq Created
  BY DEF NInv, TypeOK
<1>g. dead \subseteq vNodesDisconnected /\ \A n \in dead : node[n].nRefCount <= 0
  BY DEF Deletable
<1>b. /\ UNCHANGED <<nLastNodeId, vNodes, vNodesCopy, closing, posted, caller, aliased>>
      /\ stage' = [stage EXCEPT !["net"] = "accept"] /\ stage["net"] = "delete"
      /\ vNodesDisconnected' = vNodesDisconnected \ dead
      /\ node' = [n \in Created |-> IF n \in dead THEN Freed(node[n]) ELSE node[n]]
      /\ semOutbound' = semOutbound + Cardinality(Granted(dead))
  BY DEF DeleteNodes, PostedByDelete
<1>h. semOutbound' \in Nat
  <2>1. Cardinality(Granted(dead)) \in Nat
    BY <1>a, <1>g, GrantCount DEF Granted
  <2>. QED
    BY <1>a, <1>b, <2>1 DEF TypeOK
<1>. HIDE DEF dead
<1>c. \A n \in Created : /\ node'[n] \in Field
                         /\ n \notin dead => node'[n] = node[n]
  BY <1>a, <1>b, FreedFields
<1>d. node' \in [Created -> Field]
  BY <1>b, <1>c
<1>f. Created' = Created
  BY <1>b DEF Created
<1>e. stage' \in [Handler -> {"disconnect", "release", "delete", "accept", "idle", "round"}]
  BY <1>a, <1>b DEF TypeOK, Handler
<1>i. \A n \in dead \ aliased : ~Owned(n) /\ n \notin vNodesCopy["net"] /\ n \notin vNodesCopy["msghand"]
  <2>. SUFFICES ASSUME NEW n \in dead \ aliased
                PROVE  ~Owned(n) /\ n \notin vNodesCopy["net"] /\ n \notin vNodesCopy["msghand"]
    OBVIOUS
  <2>1. node[n].nRefCount >= (IF n \in vNodes \cup closing \/ Owned(n) THEN 1 ELSE 0)
                               + Held("net", n) + Held("msghand", n)
    BY <1>g DEF NInv, CountCovers
  <2>2. node[n].nRefCount \in Int /\ node[n].nRefCount <= 0
    BY <1>a, <1>g DEF Field
  <2>. QED
    BY <2>1, <2>2 DEF Held
<1>j. closing = {}
  BY <1>b DEF NInv, ClosingInRelease
<1>1. TypeOK'
  <2>1. vNodes' \subseteq Created /\ vNodesDisconnected' \subseteq Created /\ vNodes' \cap vNodesDisconnected' = {}
    BY <1>a, <1>b DEF TypeOK
  <2>2. nLastNodeId' \in 0 .. MaxNodes /\ vNodesCopy' \in [Handler -> SUBSET Created]
        /\ caller' \in [Caller -> CallerState] /\ aliased' \subseteq Created
    BY <1>a, <1>b DEF TypeOK
  <2>. QED
    BY <1>a, <1>b, <1>d, <1>e, <1>f, <1>h, <1>j, <2>1, <2>2 DEF TypeOK
<1>2. /\ CallerHasNode' /\ OneOwner'
      /\ \A d \in Caller : (Owns(d)' <=> Owns(d)) /\ (Owns(d) => caller[d].pnode \in Created)
      /\ \A n : Owned(n)' <=> Owned(n)
  BY <1>b, CallersUntouched
<1>3. OwnedIsPlain'
  <2>. SUFFICES ASSUME NEW d \in Caller, Owns(d)
                PROVE  /\ ~node'[caller[d].pnode].fInbound /\ ~node'[caller[d].pnode].fNetworkNode
                       /\ caller[d].pnode \in vNodes' \cup vNodesDisconnected'
    BY <1>b, <1>2 DEF OwnedIsPlain
  <2>1. caller[d].pnode \notin dead /\ caller[d].pnode \in Created
    BY <1>2, <1>i DEF Owned, Owns
  <2>. QED
    BY <1>b, <1>c, <2>1 DEF NInv, OwnedIsPlain
<1>4. CountCovers'
  <2>. SUFFICES ASSUME NEW n \in (vNodes \cup (vNodesDisconnected \ dead)) \ aliased
                PROVE  node'[n].nRefCount >= (IF n \in vNodes \cup closing \/ Owned(n) THEN 1 ELSE 0)
                                             + Held("net", n) + Held("msghand", n)
    BY <1>b, <1>2 DEF CountCovers, Held
  <2>1. n \in Created /\ n \notin dead
    BY <1>a, <1>g DEF TypeOK
  <2>. QED
    BY <1>c, <2>1 DEF NInv, CountCovers
<1>5. CopyOnlyInRound' /\ ClosingInRelease'
  <2>1. \A t \in Handler : stage'[t] # "round" => stage[t] # "round"
    BY <1>a, <1>b DEF TypeOK
  <2>. QED
    BY <1>b, <1>j, <2>1 DEF NInv, CopyOnlyInRound, ClosingInRelease
<1>6. NoRoundOnDeleted'
  BY <1>b, <1>f, <1>i DEF NInv, NoRoundOnDeleted, Deleted, Handler
<1>. QED
  BY <1>1, <1>2, <1>3, <1>4, <1>5, <1>6 DEF NInv

LEMMA AcceptNothingStep ==
  ASSUME NInv, AcceptNothing
  PROVE  NInv'
<1>a. TypeOK
  BY DEF NInv
<1>b. /\ UNCHANGED <<nLastNodeId, node, vNodes, vNodesDisconnected, semOutbound, vNodesCopy, closing, posted, caller, aliased>>
      /\ stage' = [stage EXCEPT !["net"] = "idle"] /\ stage["net"] = "accept"
  BY DEF AcceptNothing
<1>1. TypeOK'
  BY <1>a, <1>b DEF TypeOK, Created, Handler
<1>2. CallerHasNode' /\ OneOwner' /\ OwnedIsPlain' /\ CountCovers' /\ NoRoundOnDeleted'
  BY <1>b DEF NInv, CallerHasNode, OneOwner, OwnedIsPlain, CountCovers, NoRoundOnDeleted, Created,
              Deleted, Owns, Owned, Held
<1>3. CopyOnlyInRound' /\ ClosingInRelease'
  BY <1>a, <1>b DEF NInv, ClosingInRelease, CopyOnlyInRound, TypeOK, Handler
<1>. QED
  BY <1>1, <1>2, <1>3 DEF NInv

-----------------------------------------------------------------------------
(* The reference counts cover every holder in every behaviour of the connection  *)
(* threads, for any number of callers, addresses and nodes.                      *)
THEOREM NInvHolds == Spec => []NInv
<1>1. NInv /\ [Next]_vars => NInv'
  <2>. SUFFICES ASSUME NInv, [Next]_vars PROVE NInv'
    OBVIOUS
  <2>1. CASE DisconnectNodes \/ CloseNodes
    BY <2>1, DisconnectStep, CloseNodesStep
  <2>2. CASE \E busy \in SUBSET vNodesDisconnected : DeleteNodes(busy)
    BY <2>2, DeleteStep
  <2>3. CASE \E a \in Addr : AcceptConnection(a)
    BY <2>3, AcceptStep
  <2>4. CASE AcceptNothing
    BY <2>4, AcceptNothingStep
  <2>5. CASE \E t \in Handler : BeginRound(t) \/ EndRound(t)
    BY <2>5, BeginStep, EndStep
  <2>6. CASE \E t \in Handler : \E n \in vNodesCopy[t] : CloseSocketDisconnect(t, n)
    BY <2>6, CloseStep
  <2>7. CASE \E c \in Caller : CallerStep(c)
    BY <2>7, QuietCallerStep, DialStep, StoreStep, MoveStep, NetworkStep DEF CallerStep
  <2>8. CASE UNCHANGED vars
    BY <2>8 DEF vars, netVars, ClosingInRelease, NInv, TypeOK, CallerHasNode, OwnedIsPlain, OneOwner, CountCovers,
                CopyOnlyInRound, NoRoundOnDeleted, Created, Deleted, Owns, Owned, Held
  <2>. QED
    BY <2>1, <2>2, <2>3, <2>4, <2>5, <2>6, <2>7, <2>8 DEF Next
<1>. QED
  BY <1>1, InitNInv, PTL DEF Spec

(* The types of the node lists, rounds and callers. *)
THEOREM NodeTypesCorrect == Spec => []TypeOK
<1>1. NInv => TypeOK
  BY DEF NInv
<1>. QED
  BY <1>1, NInvHolds, PTL

(* nRefCount is at least the number of references in use. *)
THEOREM CountsCover == Spec => []RefsCoverHolders
<1>1. NInv => RefsCoverHolders
  <2>. SUFFICES ASSUME NInv, NEW n \in (vNodes \cup vNodesDisconnected) \ aliased
                PROVE  node[n].nRefCount >= Base(n) + Held("net", n) + Held("msghand", n)
    BY DEF RefsCoverHolders
  <2>1. node[n].nRefCount >= (IF n \in vNodes \cup closing \/ Owned(n) THEN 1 ELSE 0)
                               + Held("net", n) + Held("msghand", n)
    BY DEF NInv, CountCovers
  <2>2. node[n].nRefCount \in Int /\ Held("net", n) \in Int /\ Held("msghand", n) \in Int
    BY DEF NInv, TypeOK, Field, Held
  <2>. QED
    BY <2>1, <2>2 DEF Base
<1>. QED
  BY <1>1, NInvHolds, PTL

(* ThreadSocketHandler deletes no node under a round of either thread. *)
THEOREM RoundsAreSafe == Spec => []NoRoundOnDeleted
<1>1. NInv => NoRoundOnDeleted
  BY DEF NInv
<1>. QED
  BY <1>1, NInvHolds, PTL

(* OpenNetworkConnection may use the node it created until it returns. *)
THEOREM OpenersAreSafe == Spec => []OpenerKeepsNode
<1>1. NInv => OpenerKeepsNode
  BY DEF NInv, OwnedIsPlain, Owns, OpenerKeepsNode, Deleted
<1>. QED
  BY <1>1, NInvHolds, PTL

-----------------------------------------------------------------------------
(* The slots of semOutbound: who holds them. *)
Holders == {c \in Caller : caller[c].fHaveGrant}

Having == Granted((vNodes \cup vNodesDisconnected) \ posted)

(* A caller of OpenNetworkConnection has its grant from the wait to MoveTo; the  *)
(* other callers never have one.                                                 *)
GrantWhileOpening ==
  \A c \in Caller :
    caller[c].fHaveGrant <=> c \in Opener /\ caller[c].pc \notin {"start", "moved"}

OnlyOpenersMove == \A c \in Caller : caller[c].pc \in {"clear", "move"} => c \in Opener

(* The node that a caller has created has no grant before the caller's is moved: *)
(* MoveTo has nothing to release.                                                *)
OwnedHasNoGrant ==
  \A c \in Caller :
    Owns(c) /\ caller[c].pc # "moved" => caller[c].pc # "clear" /\ ~node[caller[c].pnode].grantOutbound

(* The grant that the socket thread has posted is there until it clears it. *)
PostedHadGrant == \A n \in posted : n \in aliased \/ node[n].grantOutbound

GInv == GrantWhileOpening /\ OnlyOpenersMove /\ OwnedHasNoGrant /\ PostedHadGrant

NobodyClears == \A c \in Caller : caller[c].pc # "clear"

(* The conclusion of each lemma below. *)
GStep == GInv' /\ (MovingTwice \/ Slots' = Slots)

LEMMA InitGInv == Init => GInv
<1>. SUFFICES ASSUME Init PROVE GInv
  OBVIOUS
<1>1. \A c \in Caller : caller[c].pc = "start" /\ caller[c].fHaveGrant = FALSE
  BY DEF Init, Idle
<1>2. posted = {}
  BY DEF Init
<1>. QED
  BY <1>1, <1>2 DEF GInv, GrantWhileOpening, OnlyOpenersMove, OwnedHasNoGrant, PostedHadGrant, Owns

(* The two sets of holders are finite. *)
LEMMA HoldersFinite ==
  ASSUME TypeOK
  PROVE  /\ IsFiniteSet(Holders) /\ Cardinality(Holders) \in Nat
         /\ IsFiniteSet(Having) /\ Cardinality(Having) \in Nat
<1>1. IsFiniteSet(Holders)
  BY NodeAssumption, FS_Subset DEF Holders
<1>2. IsFiniteSet(Created)
  BY FS_Interval DEF Created, TypeOK
<1>3. Having \subseteq Created
  BY DEF Having, Granted, TypeOK
<1>4. IsFiniteSet(Having)
  BY <1>2, <1>3, FS_Subset
<1>. QED
  BY <1>1, <1>4, FS_CardinalityType

(* Nobody clears a node's grant unless the node was handed out twice. *)
LEMMA ClearersMoveTwice ==
  ASSUME NInv, GInv, ~MovingTwice
  PROVE  /\ NobodyClears
         /\ \A c \in Opener : caller[c].pc \in {"connected", "clear", "move"} => Owns(c)
<1>1. \A c \in Opener : c \in Caller /\ (caller[c].pc \in {"connected", "clear", "move"} => Owns(c))
  BY NodeAssumption DEF MovingTwice, Owns
<1>2. \A c \in Caller : caller[c].pc = "clear" => c \in Opener /\ ~Owns(c)
  BY DEF GInv, OnlyOpenersMove, OwnedHasNoGrant
<1>. QED
  BY <1>1, <1>2 DEF NobodyClears

(* The slots, counted by their holders. *)
LEMMA SlotsCounted ==
  /\ NobodyClears => Slots = semOutbound + Cardinality(Holders) + Cardinality(Having)
  /\ NobodyClears' => Slots' = semOutbound' + Cardinality(Holders') + Cardinality(Having')
<1>1. NobodyClears => {d \in Caller : caller[d].pc = "clear"} = {}
  BY DEF NobodyClears
<1>2. NobodyClears => Cleared = posted
  BY <1>1 DEF Cleared
<1>3. NobodyClears' => {d \in Caller : caller'[d].pc = "clear"} = {}
  BY DEF NobodyClears
<1>4. NobodyClears' => Cleared' = posted'
  BY <1>3 DEF Cleared
<1>. QED
  BY <1>2, <1>4 DEF Slots, Holders, Having

(* A step of one caller, seen by the holders of grants. *)
LEMMA OneCaller ==
  ASSUME TypeOK, TypeOK', GInv, NEW c \in Caller, \A d \in Caller \ {c} : caller'[d] = caller[d]
  PROVE  /\ caller'[c].fHaveGrant = caller[c].fHaveGrant => Holders' = Holders
         /\ caller'[c].fHaveGrant = TRUE => Holders' = Holders \cup {c}
         /\ caller'[c].fHaveGrant = FALSE => Holders' = Holders \ {c}
         /\ (caller'[c].fHaveGrant <=> c \in Opener /\ caller'[c].pc \notin {"start", "moved"})
              => GrantWhileOpening'
         /\ caller[c].fHaveGrant <=> c \in Opener /\ caller[c].pc \notin {"start", "moved"}
         /\ c \in Holders <=> caller[c].fHaveGrant
         /\ (caller'[c].pc \notin {"clear", "move"} \/ c \in Opener) => OnlyOpenersMove'
         /\ NobodyClears /\ caller'[c].pc # "clear" => NobodyClears'
<1>1. caller'[c].fHaveGrant \in BOOLEAN /\ caller[c].fHaveGrant \in BOOLEAN
  BY DEF TypeOK, CallerState
<1>2. /\ caller'[c].fHaveGrant = caller[c].fHaveGrant => Holders' = Holders
      /\ caller'[c].fHaveGrant = TRUE => Holders' = Holders \cup {c}
      /\ caller'[c].fHaveGrant = FALSE => Holders' = Holders \ {c}
  BY <1>1 DEF Holders
<1>3. (caller'[c].fHaveGrant <=> c \in Opener /\ caller'[c].pc \notin {"start", "moved"})
         => GrantWhileOpening'
  BY DEF GrantWhileOpening, GInv
<1>4. caller[c].fHaveGrant <=> c \in Opener /\ caller[c].pc \notin {"start", "moved"}
  BY DEF GrantWhileOpening, GInv
<1>5. c \in Holders <=> caller[c].fHaveGrant
  BY DEF Holders
<1>6. (caller'[c].pc \notin {"clear", "move"} \/ c \in Opener) => OnlyOpenersMove'
  BY DEF OnlyOpenersMove, GInv
<1>7. NobodyClears /\ caller'[c].pc # "clear" => NobodyClears'
  BY DEF NobodyClears
<1>. QED
  BY <1>2, <1>3, <1>4, <1>5, <1>6, <1>7

(* A step of one caller that owns nothing afterwards and moves no grant of a node. *)
LEMMA NodesKeepGrants ==
  ASSUME NInv, NInv', GInv, NEW c \in Caller,
         UNCHANGED <<nLastNodeId, vNodes, vNodesDisconnected, posted>>, aliased \subseteq aliased',
         \A n \in Created : node'[n].grantOutbound = node[n].grantOutbound,
         \A d \in Caller \ {c} : caller'[d] = caller[d],
         caller'[c].pc \notin Using \/ caller'[c].pnode \in aliased'
  PROVE  OwnedHasNoGrant' /\ PostedHadGrant' /\ Having' = Having
<1>1. OwnedHasNoGrant'
  <2>. SUFFICES ASSUME NEW d \in Caller, Owns(d)', caller'[d].pc # "moved"
                PROVE  caller'[d].pc # "clear" /\ ~node'[caller'[d].pnode].grantOutbound
    BY DEF OwnedHasNoGrant
  <2>1. d # c /\ caller'[d] = caller[d] /\ Owns(d)
    BY DEF Owns
  <2>2. caller[d].pnode \in Created
    BY <2>1 DEF NInv, CallerHasNode, Owns
  <2>. QED
    BY <2>1, <2>2 DEF GInv, OwnedHasNoGrant
<1>2. posted \subseteq Created /\ (vNodes \cup vNodesDisconnected) \subseteq Created
  BY DEF NInv, TypeOK
<1>3. PostedHadGrant'
  BY <1>2 DEF GInv, PostedHadGrant
<1>4. Having' = Having
  BY <1>2 DEF Having, Granted
<1>. QED
  BY <1>1, <1>3, <1>4

(* A caller's step between the wait for a slot and MoveTo moves no grant. *)
LEMMA QuietGrants ==
  ASSUME NInv, NInv', GInv, NEW c \in Caller,
         UNCHANGED <<nLastNodeId, vNodes, vNodesDisconnected, semOutbound, posted>>, aliased \subseteq aliased',
         \A n \in Created : node'[n].grantOutbound = node[n].grantOutbound,
         \A d \in Caller \ {c} : caller'[d] = caller[d],
         caller'[c].fHaveGrant = caller[c].fHaveGrant,
         caller'[c].pc \notin {"start", "clear", "move", "moved"},
         caller[c].pc \notin {"start", "moved"} \/ c \notin Opener,
         caller'[c].pc \notin Using \/ caller'[c].pnode \in aliased'
  PROVE  GStep
<1>a. TypeOK /\ TypeOK'
  BY DEF NInv
<1>1. Holders' = Holders /\ GrantWhileOpening' /\ OnlyOpenersMove' /\ (NobodyClears => NobodyClears')
  BY <1>a, OneCaller
<1>2. OwnedHasNoGrant' /\ PostedHadGrant' /\ Having' = Having
  BY NodesKeepGrants
<1>3. MovingTwice \/ Slots' = Slots
  BY <1>1, <1>2, ClearersMoveTwice, SlotsCounted
<1>. QED
  BY <1>1, <1>2, <1>3 DEF GInv, GStep

LEMMA CallGrants ==
  ASSUME NInv, NInv', GInv, NEW c \in Caller, NEW a \in Addr, CallConnectNode(c, a)
  PROVE  GStep
<1>1. UNCHANGED <<nLastNodeId, node, vNodes, vNodesDisconnected, semOutbound, posted, aliased>>
  BY DEF CallConnectNode, netVars
<1>2. /\ \A d \in Caller \ {c} : caller'[d] = caller[d]
      /\ caller'[c].fHaveGrant = caller[c].fHaveGrant
      /\ caller'[c].pc = "connect" /\ c \notin Opener
  BY DEF CallConnectNode, NInv, TypeOK, CallerState
<1>. QED
  BY <1>1, <1>2, QuietGrants

LEMMA FindsGrants ==
  ASSUME NInv, NInv', GInv, NEW c \in Caller, ConnectNodeFinds(c)
  PROVE  GStep
<1>1. UNCHANGED <<nLastNodeId, node, vNodes, vNodesDisconnected, semOutbound, posted>> /\ caller[c].pc = "connect"
  BY DEF ConnectNodeFinds, netVars
<1>2. PICK n \in FindNode(caller[c].addr) :
        /\ caller' = [caller EXCEPT ![c] = [@ EXCEPT !.pc = "load", !.pnode = n]]
        /\ aliased' = aliased \cup {n}
  BY DEF ConnectNodeFinds
<1>3. /\ \A d \in Caller \ {c} : caller'[d] = caller[d]
      /\ caller'[c].fHaveGrant = caller[c].fHaveGrant
      /\ caller'[c].pc = "load"
  BY <1>2 DEF NInv, TypeOK, CallerState
<1>4. aliased \subseteq aliased'
  BY <1>2
<1>. QED
  BY <1>1, <1>3, <1>4, QuietGrants

LEMMA AdvanceGrants ==
  ASSUME NInv, NInv', GInv, NEW c \in Caller, NotConnected(c) \/ ConnectNodeDials(c) \/ AddRefLoad(c)
  PROVE  GStep
<1>1. UNCHANGED <<nLastNodeId, node, vNodes, vNodesDisconnected, semOutbound, posted, aliased>>
  BY DEF NotConnected, ConnectNodeDials, AddRefLoad, netVars
<1>2. /\ \A d \in Caller \ {c} : caller'[d] = caller[d]
      /\ caller'[c].fHaveGrant = caller[c].fHaveGrant
      /\ caller'[c].pc \in {"connect", "dial", "store"} /\ caller[c].pc \in {"open", "connect", "load"}
  <2>1. CASE NotConnected(c)
    BY <2>1 DEF NotConnected, NInv, TypeOK, CallerState
  <2>2. CASE ConnectNodeDials(c)
    BY <2>2 DEF ConnectNodeDials, NInv, TypeOK, CallerState
  <2>3. CASE AddRefLoad(c)
    <3>1. node[caller[c].pnode].nRefCount \in Int
      BY <2>3 DEF AddRefLoad, NInv, CallerHasNode, TypeOK, Field
    <3>. QED
      BY <2>3, <3>1 DEF AddRefLoad, NInv, TypeOK, CallerState
  <2>. QED
    BY <2>1, <2>2, <2>3
<1>. QED
  BY <1>1, <1>2, QuietGrants

LEMMA StoreGrants ==
  ASSUME NInv, NInv', GInv, NEW c \in Caller, AddRefStore(c)
  PROVE  GStep
<1>1. UNCHANGED <<nLastNodeId, vNodes, vNodesDisconnected, semOutbound, posted, aliased>>
  BY DEF AddRefStore, netVars
<1>2. /\ \A d \in Caller \ {c} : caller'[d] = caller[d]
      /\ caller'[c].fHaveGrant = caller[c].fHaveGrant
      /\ caller'[c].pnode = caller[c].pnode
      /\ caller'[c].pc = "connected" /\ caller[c].pc = "store"
  BY DEF AddRefStore, NInv, TypeOK, CallerState
<1>3. caller[c].pnode \in Created /\ caller[c].pnode \in aliased
  BY DEF AddRefStore, NInv, CallerHasNode
<1>4. \A n \in Created : node'[n].grantOutbound = node[n].grantOutbound
  BY <1>3 DEF AddRefStore, NInv, TypeOK, Field
<1>. QED
  BY <1>1, <1>2, <1>3, <1>4, QuietGrants

(* Waiting for a slot takes one out of the semaphore. *)
LEMMA AcquireGrants ==
  ASSUME NInv, NInv', GInv, NEW c \in Caller, NEW a \in Addr, AcquireGrant(c, a)
  PROVE  GStep
<1>a. TypeOK /\ TypeOK' /\ caller[c] \in CallerState /\ semOutbound \in Nat
  BY DEF NInv, TypeOK
<1>b. /\ UNCHANGED <<nLastNodeId, node, vNodes, vNodesDisconnected, posted, aliased>>
      /\ semOutbound' = semOutbound - 1 /\ c \in Opener /\ caller[c].pc = "start"
  BY DEF AcquireGrant, netVars
<1>c. /\ \A d \in Caller \ {c} : caller'[d] = caller[d]
      /\ caller'[c].fHaveGrant = TRUE /\ caller'[c].pc = "open"
  BY <1>a DEF AcquireGrant, TypeOK, CallerState
<1>1. /\ Holders' = Holders \cup {c} /\ c \notin Holders
      /\ GrantWhileOpening' /\ OnlyOpenersMove' /\ (NobodyClears => NobodyClears')
  BY <1>a, <1>b, <1>c, OneCaller
<1>2. OwnedHasNoGrant' /\ PostedHadGrant' /\ Having' = Having
  BY <1>b, <1>c, NodesKeepGrants
<1>3. Cardinality(Holders') = Cardinality(Holders) + 1
  BY <1>1, <1>a, HoldersFinite, FS_AddElement
<1>4. Cardinality(Holders) \in Nat /\ Cardinality(Having) \in Nat
  BY <1>a, HoldersFinite
<1>5. MovingTwice \/ Slots' = Slots
  BY <1>a, <1>b, <1>1, <1>2, <1>3, <1>4, ClearersMoveTwice, SlotsCounted
<1>. QED
  BY <1>1, <1>2, <1>5 DEF GInv, GStep

(* ~CSemaphoreGrant posts the slot that its caller still holds. *)
LEMMA FinishedGrants ==
  ASSUME NInv, NInv', GInv, NEW c \in Caller,
         AlreadyConnected(c) \/ DialFails(c) \/ ConnectNodeReturns(c) \/ SetNetworkNode(c)
  PROVE  GStep
<1>a. TypeOK /\ TypeOK' /\ CallerHasNode /\ caller[c] \in CallerState /\ semOutbound \in Nat
  BY DEF NInv, TypeOK
<1>b. /\ UNCHANGED <<nLastNodeId, vNodes, vNodesDisconnected, posted, aliased>> /\ Finished(c)
  BY DEF AlreadyConnected, DialFails, ConnectNodeReturns, SetNetworkNode, netVars
<1>c. /\ \A d \in Caller \ {c} : caller'[d] = caller[d]
      /\ caller'[c].fHaveGrant = FALSE /\ caller'[c].pc = "start"
  BY <1>a, <1>b DEF Finished, Idle, TypeOK
<1>1. /\ Holders' = Holders \ {c} /\ (c \in Holders <=> caller[c].fHaveGrant)
      /\ GrantWhileOpening' /\ OnlyOpenersMove' /\ (NobodyClears => NobodyClears')
  BY <1>a, <1>b, <1>c, OneCaller
<1>2. \A n \in Created : node'[n].grantOutbound = node[n].grantOutbound
  <2>1. CASE node' = node
    BY <2>1
  <2>2. CASE SetNetworkNode(c)
    <3>1. caller[c].pnode \in Created
      BY <1>a, <2>2 DEF SetNetworkNode, CallerHasNode
    <3>. QED
      BY <1>a, <2>2, <3>1 DEF SetNetworkNode, TypeOK, Field
  <2>. QED
    BY <2>1, <2>2 DEF AlreadyConnected, DialFails, ConnectNodeReturns
<1>3. OwnedHasNoGrant' /\ PostedHadGrant' /\ Having' = Having
  BY <1>b, <1>c, <1>2, NodesKeepGrants
<1>4. Cardinality(Holders') = IF c \in Holders THEN Cardinality(Holders) - 1 ELSE Cardinality(Holders)
  BY <1>1, <1>a, HoldersFinite, FS_RemoveElement
<1>5. Cardinality(Holders) \in Nat /\ Cardinality(Having) \in Nat
  BY <1>a, HoldersFinite
<1>6. semOutbound' = IF c \in Holders THEN semOutbound + 1 ELSE semOutbound
  BY <1>1, <1>b DEF Finished
<1>7. MovingTwice \/ Slots' = Slots
  BY <1>a, <1>1, <1>3, <1>4, <1>5, <1>6, ClearersMoveTwice, SlotsCounted
<1>. QED
  BY <1>1, <1>3, <1>7 DEF GInv, GStep

(* The node of an opener that is moving its grant to it: it exists, has no grant, *)
(* none was posted for it, and nobody else is about to use it.                    *)
LEMMA MovedTo ==
  ASSUME NInv, GInv, NEW c \in Opener, ~MovingTwice, caller[c].pc \in {"connected", "clear", "move"}
  PROVE  /\ c \in Caller /\ Owns(c) /\ caller[c].pc # "clear"
         /\ caller[c].pnode \in (vNodes \cup vNodesDisconnected) \ posted
         /\ ~node[caller[c].pnode].grantOutbound
<1>1. c \in Caller /\ Owns(c)
  BY NodeAssumption, ClearersMoveTwice
<1>2. caller[c].pc # "clear" /\ ~node[caller[c].pnode].grantOutbound
  BY <1>1 DEF GInv, OwnedHasNoGrant
<1>3. caller[c].pnode \in vNodes \cup vNodesDisconnected
  BY <1>1 DEF NInv, OwnedIsPlain
<1>4. caller[c].pnode \notin posted
  BY <1>1, <1>2 DEF GInv, PostedHadGrant, Owns
<1>. QED
  BY <1>1, <1>2, <1>3, <1>4

(* The node's grant is released first. *)
LEMMA ReleaseGrants ==
  ASSUME NInv, NInv', GInv, NEW c \in Caller, MoveToReleases(c)
  PROVE  GStep
<1>a. TypeOK /\ TypeOK' /\ CallerHasNode /\ caller[c] \in CallerState
  BY DEF NInv, TypeOK
<1>b. /\ UNCHANGED <<nLastNodeId, node, vNodes, vNodesDisconnected, posted, aliased>>
      /\ c \in Opener /\ caller[c].pc = "connected"
  BY DEF MoveToReleases, netVars
<1>0. PICK to \in {"clear", "move"} :
        /\ caller' = [caller EXCEPT ![c] = [@ EXCEPT !.pc = to]]
        /\ to = "clear" <=> node[caller[c].pnode].grantOutbound
        /\ to = "move" => semOutbound' = semOutbound
  BY DEF MoveToReleases
<1>c. /\ \A d \in Caller \ {c} : caller'[d] = caller[d]
      /\ caller'[c].fHaveGrant = caller[c].fHaveGrant /\ caller'[c].pnode = caller[c].pnode
      /\ caller'[c].pc = to
  BY <1>a, <1>0 DEF TypeOK, CallerState
<1>1. Holders' = Holders /\ GrantWhileOpening' /\ OnlyOpenersMove'
      /\ (NobodyClears /\ to # "clear" => NobodyClears')
  BY <1>a, <1>b, <1>c, OneCaller
<1>2. OwnedHasNoGrant'
  <2>. SUFFICES ASSUME NEW d \in Caller, Owns(d)', caller'[d].pc # "moved"
                PROVE  caller'[d].pc # "clear" /\ ~node[caller'[d].pnode].grantOutbound
    BY <1>b DEF OwnedHasNoGrant
  <2>1. Owns(d) /\ caller'[d].pnode = caller[d].pnode /\ caller[d].pc # "moved"
    BY <1>b, <1>c DEF Owns
  <2>. QED
    BY <1>0, <1>c, <2>1 DEF GInv, OwnedHasNoGrant
<1>3. PostedHadGrant' /\ Having' = Having
  BY <1>b DEF GInv, PostedHadGrant, Having, Granted
<1>4. ASSUME ~MovingTwice PROVE Slots' = Slots
  <2>1. ~node[caller[c].pnode].grantOutbound
    BY <1>b, <1>4, MovedTo
  <2>2. to = "move" /\ semOutbound' = semOutbound
    BY <1>0, <2>1
  <2>. QED
    BY <1>1, <1>3, <1>4, <2>2, ClearersMoveTwice, SlotsCounted
<1>. QED
  BY <1>1, <1>2, <1>3, <1>4 DEF GInv, GStep

(* Only the grant of a node handed out twice is cleared by an opener. *)
LEMMA ClearGrants ==
  ASSUME NInv, NInv', GInv, NEW c \in Caller, MoveToClears(c)
  PROVE  GStep
<1>. DEFINE p == caller[c].pnode
<1>a. /\ TypeOK /\ TypeOK' /\ CallerHasNode /\ caller[c] \in CallerState /\ p \in Created
      /\ node \in [Created -> Field]
  BY DEF NInv, TypeOK, CallerHasNode, MoveToClears
<1>b. /\ UNCHANGED <<nLastNodeId, vNodes, vNodesDisconnected, posted, aliased>>
      /\ caller[c].pc = "clear" /\ node' = [node EXCEPT ![p].grantOutbound = FALSE]
      /\ caller' = [caller EXCEPT ![c] = [@ EXCEPT !.pc = "move"]]
  BY DEF MoveToClears, netVars
<1>c. /\ \A d \in Caller \ {c} : caller'[d] = caller[d]
      /\ caller'[c].fHaveGrant = caller[c].fHaveGrant /\ caller'[c].pnode = caller[c].pnode
      /\ caller'[c].pc = "move"
  BY <1>a, <1>b DEF TypeOK, CallerState
<1>d. c \in Opener /\ ~Owns(c) /\ p \in aliased
  BY <1>b DEF GInv, OnlyOpenersMove, OwnedHasNoGrant, Owns
<1>e. \A n \in Created : node'[n].grantOutbound = IF n = p THEN FALSE ELSE node[n].grantOutbound
  BY <1>a, <1>b DEF Field
<1>1. GrantWhileOpening' /\ OnlyOpenersMove'
  BY <1>a, <1>b, <1>c, <1>d, OneCaller
<1>2. OwnedHasNoGrant'
  <2>. SUFFICES ASSUME NEW d \in Caller, Owns(d)', caller'[d].pc # "moved"
                PROVE  caller'[d].pc # "clear" /\ ~node'[caller'[d].pnode].grantOutbound
    BY DEF OwnedHasNoGrant
  <2>1. d # c /\ Owns(d) /\ caller'[d] = caller[d]
    BY <1>b, <1>c, <1>d DEF Owns
  <2>2. caller[d].pnode \in Created
    BY <1>a, <2>1 DEF CallerHasNode, Owns
  <2>. QED
    BY <1>e, <2>1, <2>2 DEF GInv, OwnedHasNoGrant
<1>3. PostedHadGrant'
  <2>1. posted \subseteq Created
    BY <1>a DEF TypeOK
  <2>. QED
    BY <1>b, <1>d, <1>e, <2>1 DEF GInv, PostedHadGrant
<1>4. MovingTwice
  BY <1>b, <1>d DEF MovingTwice
<1>. QED
  BY <1>1, <1>2, <1>3, <1>4 DEF GInv, GStep

(* MoveTo hands the caller's slot to the node. *)
LEMMA MoveGrants ==
  ASSUME NInv, NInv', GInv, NEW c \in Caller, MoveTo(c)
  PROVE  GStep
<1>. DEFINE p == caller[c].pnode
<1>a. /\ TypeOK /\ TypeOK' /\ CallerHasNode /\ caller[c] \in CallerState
      /\ semOutbound \in Nat /\ node \in [Created -> Field] /\ p \in Created
  BY DEF NInv, TypeOK, CallerHasNode, MoveTo
<1>b. /\ UNCHANGED <<nLastNodeId, vNodes, vNodesDisconnected, semOutbound, posted, aliased>>
      /\ caller[c].pc = "move" /\ node' = [node EXCEPT ![p].grantOutbound = TRUE]
      /\ caller' = [caller EXCEPT ![c] = [@ EXCEPT !.pc = "moved", !.fHaveGrant = FALSE]]
  BY DEF MoveTo, netVars
<1>c. /\ \A d \in Caller \ {c} : caller'[d] = caller[d]
      /\ caller'[c].fHaveGrant = FALSE /\ caller'[c].pc = "moved"
  BY <1>a, <1>b DEF TypeOK, CallerState
<1>d. c \in Opener
  BY <1>b DEF GInv, OnlyOpenersMove
<1>e. \A n \in Created : node'[n].grantOutbound = IF n = p THEN TRUE ELSE node[n].grantOutbound
  BY <1>a, <1>b DEF Field
<1>1. /\ Holders' = Holders \ {c} /\ c \in Holders
      /\ GrantWhileOpening' /\ OnlyOpenersMove' /\ (NobodyClears => NobodyClears')
  BY <1>a, <1>b, <1>c, <1>d, OneCaller
<1>2. OwnedHasNoGrant'
  <2>. SUFFICES ASSUME NEW d \in Caller, Owns(d)', caller'[d].pc # "moved"
                PROVE  caller'[d].pc # "clear" /\ ~node'[caller'[d].pnode].grantOutbound
    BY DEF OwnedHasNoGrant
  <2>1. d # c /\ Owns(d) /\ caller'[d] = caller[d]
    BY <1>b, <1>c DEF Owns
  <2>2. caller[d].pnode \in Created /\ caller[d].pnode \notin aliased
    BY <1>a, <2>1 DEF CallerHasNode, Owns
  <2>3. caller[d].pnode # p
    <3>. SUFFICES ASSUME caller[d].pnode = p PROVE FALSE
      OBVIOUS
    <3>1. Owns(c)
      BY <1>b, <2>2 DEF Owns
    <3>. QED
      BY <2>1, <3>1 DEF NInv, OneOwner
  <2>. QED
    BY <1>e, <2>1, <2>2, <2>3 DEF GInv, OwnedHasNoGrant
<1>3. PostedHadGrant'
  <2>1. posted \subseteq Created
    BY <1>a DEF TypeOK
  <2>. QED
    BY <1>b, <1>e, <2>1 DEF GInv, PostedHadGrant
<1>4. ASSUME ~MovingTwice PROVE Slots' = Slots
  <2>1. p \in (vNodes \cup vNodesDisconnected) \ posted /\ ~node[p].grantOutbound
    BY <1>b, <1>d, <1>4, MovedTo
  <2>2. vNodes \cup vNodesDisconnected \subseteq Created
    BY <1>a DEF TypeOK
  <2>3. Having' = Having \cup {p} /\ p \notin Having
    BY <1>b, <1>e, <2>1, <2>2 DEF Having, Granted
  <2>4. Cardinality(Holders') = Cardinality(Holders) - 1 /\ Cardinality(Having') = Cardinality(Having) + 1
    BY <1>1, <2>3, <1>a, HoldersFinite, FS_RemoveElement, FS_AddElement
  <2>5. Cardinality(Holders) \in Nat /\ Cardinality(Having) \in Nat
    BY <1>a, HoldersFinite
  <2>6. NobodyClears /\ NobodyClears'
    BY <1>1, <1>4, ClearersMoveTwice
  <2>. QED
    BY <1>a, <1>b, <2>4, <2>5, <2>6, SlotsCounted
<1>. QED
  BY <1>1, <1>2, <1>3, <1>4 DEF GInv, GStep

(* A new node has no slot. *)
LEMMA NewNodeGrants ==
  ASSUME TypeOK, NEW a, NEW f, AddNode(a, f), UNCHANGED <<vNodesDisconnected, posted>>
  PROVE  /\ Having' = Having /\ \A i \in Created : node'[i] = node[i]
         /\ ~node'[nLastNodeId + 1].grantOutbound /\ nLastNodeId + 1 \notin Created
<1>. DEFINE n == nLastNodeId + 1
<1>1. nLastNodeId \in Nat /\ n \notin Created /\ Created' = Created \cup {n}
  BY NodeAssumption DEF TypeOK, AddNode, Created
<1>2. node' = [i \in Created \cup {n} |-> IF i = n THEN CNode(a, f) ELSE node[i]]
      /\ vNodes' = vNodes \cup {n}
  BY DEF AddNode
<1>3. CNode(a, f).grantOutbound = FALSE
  BY DEF CNode
<1>. HIDE DEF n
<1>4. \A i \in Created : node'[i] = node[i]
  BY <1>1, <1>2
<1>5. node'[n] = CNode(a, f)
  BY <1>2
<1>6. vNodes \cup vNodesDisconnected \subseteq Created
  BY DEF TypeOK
<1>7. Having' = Having
  BY <1>1, <1>2, <1>3, <1>4, <1>5, <1>6 DEF Having, Granted
<1>8. ~node'[n].grantOutbound
  BY <1>3, <1>5
<1>. QED
  BY <1>1, <1>4, <1>7, <1>8 DEF n

LEMMA DialGrants ==
  ASSUME NInv, NInv', GInv, NEW c \in Caller, DialSucceeds(c)
  PROVE  GStep
<1>a. TypeOK /\ TypeOK' /\ CallerHasNode /\ caller[c] \in CallerState /\ posted \subseteq Created
  BY DEF NInv, TypeOK
<1>b. /\ UNCHANGED <<vNodesDisconnected, semOutbound, posted, aliased>> /\ AddNode(caller[c].addr, FALSE)
  BY DEF DialSucceeds, netVars
<1>c. /\ \A d \in Caller \ {c} : caller'[d] = caller[d]
      /\ caller'[c].fHaveGrant = caller[c].fHaveGrant /\ caller'[c].pnode = nLastNodeId + 1
      /\ caller'[c].pc = "connected" /\ caller[c].pc = "dial"
  BY <1>a DEF DialSucceeds, TypeOK, CallerState
<1>1. Holders' = Holders /\ GrantWhileOpening' /\ OnlyOpenersMove' /\ (NobodyClears => NobodyClears')
  BY <1>a, <1>c, OneCaller
<1>2. /\ Having' = Having /\ \A i \in Created : node'[i] = node[i]
      /\ ~node'[nLastNodeId + 1].grantOutbound
  BY <1>a, <1>b, NewNodeGrants
<1>3. OwnedHasNoGrant'
  <2>. SUFFICES ASSUME NEW d \in Caller, Owns(d)', caller'[d].pc # "moved"
                PROVE  caller'[d].pc # "clear" /\ ~node'[caller'[d].pnode].grantOutbound
    BY DEF OwnedHasNoGrant
  <2>1. CASE d = c
    BY <2>1, <1>c, <1>2
  <2>2. CASE d # c
    <3>1. Owns(d) /\ caller'[d] = caller[d]
      BY <1>b, <1>c, <2>2 DEF Owns
    <3>2. caller[d].pnode \in Created
      BY <1>a, <3>1 DEF CallerHasNode, Owns
    <3>. QED
      BY <1>2, <3>1, <3>2 DEF GInv, OwnedHasNoGrant
  <2>. QED
    BY <2>1, <2>2
<1>4. PostedHadGrant'
  BY <1>a, <1>b, <1>2 DEF GInv, PostedHadGrant
<1>5. MovingTwice \/ Slots' = Slots
  BY <1>b, <1>1, <1>2, ClearersMoveTwice, SlotsCounted
<1>. QED
  BY <1>1, <1>3, <1>4, <1>5 DEF GInv, GStep

-----------------------------------------------------------------------------
(* Steps of the handler threads leave the callers' grants alone, and give a node  *)
(* none.                                                                          *)
LEMMA CallersKeepGrants ==
  ASSUME NInv, GInv, UNCHANGED <<caller, aliased>>,
         \A n \in Created : node'[n].grantOutbound => node[n].grantOutbound
  PROVE  /\ Holders' = Holders /\ GrantWhileOpening' /\ OnlyOpenersMove' /\ OwnedHasNoGrant'
         /\ NobodyClears' = NobodyClears
<1>1. Holders' = Holders /\ GrantWhileOpening' /\ OnlyOpenersMove' /\ NobodyClears' = NobodyClears
  BY DEF GInv, Holders, GrantWhileOpening, OnlyOpenersMove, NobodyClears
<1>2. \A d \in Caller : Owns(d)' = Owns(d) /\ (Owns(d) => caller[d].pnode \in Created)
  BY DEF Owns, NInv, CallerHasNode
<1>3. OwnedHasNoGrant'
  BY <1>2 DEF GInv, OwnedHasNoGrant
<1>. QED
  BY <1>1, <1>3

(* Accepting, closing and the rounds move no slot. *)
LEMMA HandlerGrants ==
  ASSUME NInv, NInv', GInv,
         \/ \E a \in Addr : AcceptConnection(a)
         \/ AcceptNothing
         \/ \E t \in Handler : BeginRound(t) \/ EndRound(t)
         \/ \E t \in Handler : \E n \in vNodesCopy[t] : CloseSocketDisconnect(t, n)
  PROVE  GStep
<1>a. TypeOK /\ node \in [Created -> Field] /\ posted \subseteq Created
      /\ vNodes \cup vNodesDisconnected \subseteq Created
  BY DEF NInv, TypeOK
<1>b. UNCHANGED <<vNodesDisconnected, semOutbound, posted, caller, aliased>>
  BY DEF AcceptConnection, AcceptNothing, BeginRound, EndRound, CloseSocketDisconnect, netVars
<1>1. Having' = Having /\ \A n \in Created : node'[n].grantOutbound = node[n].grantOutbound
  <2>1. CASE \E a \in Addr : AcceptConnection(a)
    BY <1>a, <1>b, <2>1, NewNodeGrants DEF AcceptConnection
  <2>2. CASE UNCHANGED vNodes /\ \A n \in Created : node'[n].grantOutbound = node[n].grantOutbound
    BY <1>a, <1>b, <2>2 DEF Having, Granted
  <2>3. CASE \E t \in Handler : BeginRound(t)
    <3>1. UNCHANGED vNodes /\ node' = AddRefs(vNodes)
      BY <2>3 DEF BeginRound
    <3>2. \A n \in Created : node'[n].grantOutbound = node[n].grantOutbound
      BY <1>a, <3>1 DEF AddRefs, Field
    <3>. QED
      BY <2>2, <3>1, <3>2
  <2>4. CASE \E t \in Handler : EndRound(t)
    <3>1. PICK t \in Handler : EndRound(t)
      BY <2>4
    <3>2. UNCHANGED vNodes /\ node' = Releases(vNodesCopy[t])
      BY <3>1 DEF EndRound
    <3>3. \A n \in Created : node'[n].grantOutbound = node[n].grantOutbound
      BY <1>a, <3>2 DEF Releases, Field
    <3>. QED
      BY <2>2, <3>2, <3>3
  <2>5. CASE \E t \in Handler : \E n \in vNodesCopy[t] : CloseSocketDisconnect(t, n)
    <3>1. PICK t \in Handler : \E n \in vNodesCopy[t] : CloseSocketDisconnect(t, n)
      BY <2>5
    <3>a. PICK n \in vNodesCopy[t] : CloseSocketDisconnect(t, n)
      BY <3>1
    <3>2. UNCHANGED vNodes /\ node' = [node EXCEPT ![n].fDisconnect = TRUE]
      BY <3>a DEF CloseSocketDisconnect
    <3>3. \A i \in Created : node'[i].grantOutbound = node[i].grantOutbound
      BY <1>a, <3>2 DEF Field
    <3>. QED
      BY <2>2, <3>2, <3>3
  <2>6. CASE AcceptNothing
    BY <2>6, <2>2 DEF AcceptNothing
  <2>. QED
    BY <2>1, <2>3, <2>4, <2>5, <2>6
<1>2. /\ Holders' = Holders /\ GrantWhileOpening' /\ OnlyOpenersMove' /\ OwnedHasNoGrant'
      /\ NobodyClears' = NobodyClears
  BY <1>b, <1>1, CallersKeepGrants
<1>3. PostedHadGrant'
  BY <1>a, <1>b, <1>1 DEF GInv, PostedHadGrant
<1>4. MovingTwice \/ Slots' = Slots
  BY <1>b, <1>1, <1>2, ClearersMoveTwice, SlotsCounted
<1>. QED
  BY <1>2, <1>3, <1>4 DEF GInv, GStep

(* The grants of a set of nodes are posted. *)
LEMMA PostedGrants ==
  ASSUME NInv, NInv', GInv, NEW gone \in SUBSET Having, UNCHANGED <<caller, aliased>>,
         Having' = Having \ gone, semOutbound' = semOutbound + Cardinality(gone)
  PROVE  MovingTwice \/ Slots' = Slots
<1>a. TypeOK /\ semOutbound \in Nat
  BY DEF NInv, TypeOK
<1>1. Having \cap gone = gone /\ Holders' = Holders /\ NobodyClears' = NobodyClears
  BY DEF Holders, NobodyClears
<1>2. Cardinality(Having') = Cardinality(Having) - Cardinality(gone)
  BY <1>a, <1>1, HoldersFinite, FS_Difference
<1>3. Cardinality(gone) \in Nat /\ Cardinality(Holders) \in Nat /\ Cardinality(Having) \in Nat
  BY <1>a, HoldersFinite, FS_Subset, FS_CardinalityType
<1>4. semOutbound' + Cardinality(Holders') + Cardinality(Having')
        = semOutbound + Cardinality(Holders) + Cardinality(Having)
  BY <1>a, <1>1, <1>2, <1>3
<1>. QED
  BY <1>1, <1>4, ClearersMoveTwice, SlotsCounted

LEMMA DisconnectGrants ==
  ASSUME NInv, NInv', GInv, DisconnectNodes
  PROVE  GStep
<1>0. PICK idle \in SUBSET vNodes :
        /\ closing' = Unused(idle) /\ vNodes' = StillListed(closing')
        /\ vNodesDisconnected' = vNodesDisconnected \cup closing'
        /\ posted' = Granted(closing') /\ semOutbound' = semOutbound + Cardinality(posted')
  BY DEF DisconnectNodes
<1>b. UNCHANGED <<node, caller, aliased>> /\ stage["net"] = "disconnect"
  BY DEF DisconnectNodes
<1>c. closing = {} /\ posted = {}
  BY <1>b DEF NInv, ClosingInRelease, TypeOK
<1>d. closing' \subseteq vNodes
  BY <1>0 DEF Unused
<1>1. vNodes' \cup vNodesDisconnected' = vNodes \cup vNodesDisconnected
  BY <1>0, <1>d DEF StillListed
<1>2. Having' = Having \ posted' /\ posted' \subseteq Having
  BY <1>0, <1>b, <1>c, <1>d, <1>1 DEF Having, Granted
<1>3. MovingTwice \/ Slots' = Slots
  BY <1>0, <1>b, <1>2, PostedGrants
<1>4. GrantWhileOpening' /\ OnlyOpenersMove' /\ OwnedHasNoGrant'
  BY <1>b, CallersKeepGrants
<1>5. PostedHadGrant'
  BY <1>0, <1>b DEF PostedHadGrant, Granted
<1>. QED
  BY <1>3, <1>4, <1>5 DEF GInv, GStep

(* What was posted is cleared. *)
LEMMA CloseNodesGrants ==
  ASSUME NInv, NInv', GInv, CloseNodes
  PROVE  GStep
<1>a. TypeOK /\ node \in [Created -> Field] /\ vNodes \cup vNodesDisconnected \subseteq Created
  BY DEF NInv, TypeOK
<1>b. /\ UNCHANGED <<vNodes, vNodesDisconnected, semOutbound, caller, aliased>> /\ posted' = {}
      /\ node' = [n \in Created |->
                    IF n \in posted THEN [Disconnected(node[n]) EXCEPT !.grantOutbound = FALSE]
                    ELSE IF n \in closing THEN Disconnected(node[n]) ELSE node[n]]
  BY DEF CloseNodes
<1>c. \A q \in Field : [q EXCEPT !.grantOutbound = FALSE].grantOutbound = FALSE
  BY DEF Field
<1>1. \A n \in Created : node'[n].grantOutbound = IF n \in posted THEN FALSE ELSE node[n].grantOutbound
  <2>. SUFFICES ASSUME NEW n \in Created
                PROVE  node'[n].grantOutbound = IF n \in posted THEN FALSE ELSE node[n].grantOutbound
    OBVIOUS
  <2>1. node[n] \in Field
    BY <1>a
  <2>2. Disconnected(node[n]) \in Field /\ Disconnected(node[n]).grantOutbound = node[n].grantOutbound
    BY <2>1, DisconnectedFields
  <2>. QED
    BY <1>b, <1>c, <2>2
<1>2. /\ Holders' = Holders /\ GrantWhileOpening' /\ OnlyOpenersMove' /\ OwnedHasNoGrant'
      /\ NobodyClears' = NobodyClears
  BY <1>b, <1>1, CallersKeepGrants
<1>3. Having' = Having
  BY <1>a, <1>b, <1>1 DEF Having, Granted
<1>4. PostedHadGrant'
  BY <1>b DEF PostedHadGrant
<1>5. MovingTwice \/ Slots' = Slots
  BY <1>b, <1>2, <1>3, ClearersMoveTwice, SlotsCounted
<1>. QED
  BY <1>2, <1>4, <1>5 DEF GInv, GStep

LEMMA DeleteGrants ==
  ASSUME NInv, NInv', GInv, NEW busy, DeleteNodes(busy)
  PROVE  GStep
<1>. DEFINE dead == Deletable \ busy
<1>a. TypeOK /\ node \in [Created -> Field] /\ vNodes \cup vNodesDisconnected \subseteq Created
      /\ vNodes \cap vNodesDisconnected = {}
  BY DEF NInv, TypeOK
<1>b. /\ UNCHANGED <<vNodes, posted, caller, aliased>> /\ stage["net"] = "delete"
      /\ vNodesDisconnected' = vNodesDisconnected \ dead
      /\ node' = [n \in Created |-> IF n \in dead THEN Freed(node[n]) ELSE node[n]]
      /\ semOutbound' = semOutbound + Cardinality(Granted(dead))
  BY DEF DeleteNodes, PostedByDelete
<1>c. dead \subseteq vNodesDisconnected
  BY DEF Deletable
<1>d. \A r \in Field : Freed(r).grantOutbound = FALSE
  BY DEF Freed, Field
<1>e. posted = {}
  BY <1>b DEF NInv, ClosingInRelease, TypeOK
<1>. HIDE DEF dead
<1>1. \A n \in Created : node'[n].grantOutbound = IF n \in dead THEN FALSE ELSE node[n].grantOutbound
  BY <1>a, <1>b, <1>d
<1>2. Having' = Having \ Granted(dead) /\ Granted(dead) \subseteq Having
  BY <1>a, <1>b, <1>c, <1>e, <1>1 DEF Having, Granted
<1>3. MovingTwice \/ Slots' = Slots
  BY <1>b, <1>2, PostedGrants
<1>4. GrantWhileOpening' /\ OnlyOpenersMove' /\ OwnedHasNoGrant'
  BY <1>b, <1>1, CallersKeepGrants
<1>5. PostedHadGrant'
  BY <1>b, <1>e DEF PostedHadGrant
<1>. QED
  BY <1>3, <1>4, <1>5 DEF GInv, GStep

(* Where the grants are, and what each step does with the slots. *)
LEMMA GrantSteps ==
  ASSUME NInv, NInv', GInv, [Next]_vars
  PROVE  GInv' /\ (vars' = vars \/ MovingTwice \/ Slots' = Slots)
<1>1. CASE DisconnectNodes \/ CloseNodes
  BY <1>1, DisconnectGrants, CloseNodesGrants DEF GStep
<1>2. CASE \E busy \in SUBSET vNodesDisconnected : DeleteNodes(busy)
  BY <1>2, DeleteGrants DEF GStep
<1>3. CASE \/ \E a \in Addr : AcceptConnection(a)
           \/ AcceptNothing
           \/ \E t \in Handler : BeginRound(t) \/ EndRound(t)
           \/ \E t \in Handler : \E n \in vNodesCopy[t] : CloseSocketDisconnect(t, n)
  BY <1>3, HandlerGrants DEF GStep
<1>4. CASE \E c \in Caller : CallerStep(c)
  <2>1. GStep
    BY <1>4, CallGrants, FindsGrants, AdvanceGrants, StoreGrants, AcquireGrants, FinishedGrants,
       ReleaseGrants, ClearGrants, MoveGrants, DialGrants DEF CallerStep
  <2>. QED
    BY <2>1 DEF GStep
<1>5. CASE UNCHANGED vars
  BY <1>5 DEF vars, netVars, GInv, GrantWhileOpening, OnlyOpenersMove, OwnedHasNoGrant, PostedHadGrant, Owns
<1>. QED
  BY <1>1, <1>2, <1>3, <1>4, <1>5 DEF Next

THEOREM GInvHolds == Spec => []GInv
<1>1. NInv /\ NInv' /\ GInv /\ [Next]_vars => GInv'
  BY GrantSteps
<1>. QED
  BY <1>1, InitGInv, NInvHolds, PTL DEF Spec

(* Every slot of semOutbound is free, held by one caller or held by one node, and *)
(* no step of MoveTo or of ThreadSocketHandler changes their number, unless       *)
(* ConnectNode had handed the node out twice; for any number of slots, callers    *)
(* and nodes.                                                                     *)
THEOREM SlotsNeverLost == Spec => GrantsConserved
<1>1. NInv /\ NInv' /\ GInv /\ [Next]_vars => [MovingTwice \/ Slots' = Slots]_vars
  BY GrantSteps
<1>. QED
  BY <1>1, NInvHolds, GInvHolds, PTL DEF Spec, GrantsConserved
=============================================================================
