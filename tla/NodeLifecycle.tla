---------------------------- MODULE NodeLifecycle ----------------------------
(***************************************************************************)
(* The life of a CNode (net.cpp, net.h, sync.h): who creates it, who may   *)
(* use it, when it is deleted, and the outbound slot it holds.             *)
(*                                                                         *)
(* ThreadSocketHandler ("net") accepts, services, disconnects and deletes; *)
(* ThreadMessageHandler ("msghand") handles messages; both take references *)
(* on all of vNodes for a round.  Callers of ConnectNode run in threads of *)
(* their own: an Opener goes through OpenNetworkConnection with a grant of *)
(* semOutbound, the others (the masternode check, RPC) call ConnectNode    *)
(* alone.  A node is named by its id.                                      *)
(*                                                                         *)
(* What a thread does under cs_vNodes is one step, except where others act *)
(* without the lock: the AddRef of a node that ConnectNode finds is a load *)
(* and a store, and the grant of a node is moved by its opener while the   *)
(* socket thread may be releasing it.                                      *)
(***************************************************************************)
EXTENDS Integers, FiniteSets

CONSTANTS
  Addr,            \* addresses of peers
  Caller,          \* threads that call ConnectNode
  Opener,          \* the ones that do so through OpenNetworkConnection
  nMaxOutbound,    \* initial value of semOutbound
  nMaxInbound,     \* nMaxConnections - MAX_OUTBOUND_CONNECTIONS
  MaxNodes,        \* bound on the nodes ever created
  NULL

ASSUME NodeAssumption ==
  /\ Opener \subseteq Caller /\ IsFiniteSet(Caller)
  /\ nMaxOutbound \in Nat /\ nMaxInbound \in Nat /\ MaxNodes \in Nat

VARIABLES
  nLastNodeId,
  node,                \* node[n]: the fields of the n-th CNode, also once deleted
  vNodes,
  vNodesDisconnected,
  semOutbound,         \* value of the semaphore
  stage,               \* where each of the two handler threads is
  vNodesCopy,          \* the nodes it holds references on for this round
  closing,             \* nodes the socket thread is disconnecting under cs_vNodes
  posted,              \* those of them whose grant it has posted and not yet cleared
  caller,              \* where each caller is: [pc, addr, pnode, fHaveGrant, nLoaded]
  aliased              \* history: nodes that ConnectNode found instead of creating

netVars == <<stage, vNodesCopy, closing, posted>>
vars == <<nLastNodeId, node, vNodes, vNodesDisconnected, semOutbound, netVars, caller, aliased>>

NodeId == 1 .. MaxNodes

Handler == {"net", "msghand"}

Created == 1 .. nLastNodeId

Deleted == Created \ (vNodes \cup vNodesDisconnected)

(* Constructor. *)
CNode(a, fInbound) ==
  [addr |-> a, fInbound |-> fInbound, fNetworkNode |-> FALSE, fDisconnect |-> FALSE,
   nRefCount |-> 1, grantOutbound |-> FALSE]

(* new CNode, AddRef and push_back: nobody sees the node before it is in vNodes. *)
AddNode(a, fInbound) ==
  LET n == nLastNodeId + 1
  IN  /\ n <= MaxNodes
      /\ nLastNodeId' = n
      /\ node' = [i \in Created \cup {n} |-> IF i = n THEN CNode(a, fInbound) ELSE node[i]]
      /\ vNodes' = vNodes \cup {n}

(* AddRef, or Release, of every node of a set. *)
AddRefs(nodes) == [n \in Created |-> IF n \in nodes THEN [node[n] EXCEPT !.nRefCount = @ + 1] ELSE node[n]]

(* Mutant of Releases: the nodes listed now, not the ones of the copy. *)
ReleasesListed(nodes) == [n \in Created |-> IF n \in vNodes THEN [node[n] EXCEPT !.nRefCount = @ - 1] ELSE node[n]]

(* Mutant of Releases: a node that was closed in this round is skipped. *)
ReleasesOpen(nodes) ==
  [n \in Created |-> IF n \in nodes /\ ~node[n].fDisconnect
                       THEN [node[n] EXCEPT !.nRefCount = @ - 1] ELSE node[n]]

Releases(nodes) == [n \in Created |-> IF n \in nodes THEN [node[n] EXCEPT !.nRefCount = @ - 1] ELSE node[n]]

(* Another thread can enter cs_vNodes. *)
Unlocked == stage["net"] # "release"

FindNode(a) == {n \in vNodes : node[n].addr = a}

-----------------------------------------------------------------------------
(* ThreadSocketHandler. *)

(* What the first loop removes from vNodes; a node without references only     *)
(* when its buffers are empty.                                                 *)
Unused(idle) == {n \in vNodes : node[n].fDisconnect \/ (node[n].nRefCount <= 0 /\ n \in idle)}

(* Mutant of Disconnected: the reference is released whoever took it. *)
DisconnectedAlways(r) == [r EXCEPT !.fDisconnect = TRUE, !.nRefCount = @ - 1]

(* CloseSocketDisconnect, and the release of the reference that ConnectNode or *)
(* the accept took.                                                            *)
Disconnected(r) ==
  [r EXCEPT !.fDisconnect = TRUE,
            !.nRefCount = IF r.fNetworkNode \/ r.fInbound THEN @ - 1 ELSE @]

(* "remove from vNodes" *)
StillListed(gone) == vNodes \ gone

Granted(nodes) == {n \in nodes : node[n].grantOutbound}

(* The socket thread enters cs_vNodes and releases the grants of what it closes: *)
(* Release tests fHaveGrant and posts here and clears it in the next step.       *)
DisconnectNodes ==
  /\ stage["net"] = "disconnect"
  /\ \E idle \in SUBSET vNodes :
       /\ closing' = Unused(idle)
       /\ vNodes' = StillListed(closing')
       /\ vNodesDisconnected' = vNodesDisconnected \cup closing'
       /\ posted' = Granted(closing')
       /\ semOutbound' = semOutbound + Cardinality(posted')
  /\ stage' = [stage EXCEPT !["net"] = "release"]
  /\ UNCHANGED <<nLastNodeId, node, vNodesCopy, caller, aliased>>

CloseNodes ==
  /\ stage["net"] = "release"
  /\ node' = [n \in Created |->
                IF n \in posted THEN [Disconnected(node[n]) EXCEPT !.grantOutbound = FALSE]
                ELSE IF n \in closing THEN Disconnected(node[n]) ELSE node[n]]
  /\ closing' = {} /\ posted' = {}
  /\ stage' = [stage EXCEPT !["net"] = "delete"]
  /\ UNCHANGED <<nLastNodeId, vNodes, vNodesDisconnected, semOutbound, vNodesCopy, caller, aliased>>

(* Mutant of Deletable: does not wait. *)
DeletableAll == vNodesDisconnected

(* "wait until threads are done using it". *)
Deletable == {n \in vNodesDisconnected : node[n].nRefCount <= 0}

(* ~CNode, and with it ~CSemaphoreGrant; the memory is there to be misused. *)
Freed(r) == [r EXCEPT !.grantOutbound = FALSE, !.nRefCount = 0, !.fNetworkNode = FALSE]

(* Mutant of PostedByDelete: the slot goes with the node. *)
PostedByDeleteNone(dead) == 0

PostedByDelete(dead) == Cardinality(Granted(dead))

(* A node whose locks are taken is left for the next round. *)
DeleteNodes(busy) ==
  LET dead == Deletable \ busy
  IN  /\ stage["net"] = "delete"
      /\ vNodesDisconnected' = vNodesDisconnected \ dead
      /\ node' = [n \in Created |-> IF n \in dead THEN Freed(node[n]) ELSE node[n]]
      /\ semOutbound' = semOutbound + PostedByDelete(dead)
      /\ stage' = [stage EXCEPT !["net"] = "accept"]
      /\ UNCHANGED <<nLastNodeId, vNodes, vNodesCopy, closing, posted, caller, aliased>>

nInbound == Cardinality({n \in vNodes : node[n].fInbound})

AcceptConnection(a) ==
  /\ stage["net"] = "accept" /\ nInbound < nMaxInbound
  /\ AddNode(a, TRUE)
  /\ stage' = [stage EXCEPT !["net"] = "idle"]
  /\ UNCHANGED <<vNodesDisconnected, semOutbound, vNodesCopy, closing, posted, caller, aliased>>

(* Nobody connects, or the socket is closed again: too many, or banned. *)
AcceptNothing ==
  /\ stage["net"] = "accept"
  /\ stage' = [stage EXCEPT !["net"] = "idle"]
  /\ UNCHANGED <<nLastNodeId, node, vNodes, vNodesDisconnected, semOutbound, vNodesCopy, closing, posted, caller, aliased>>

-----------------------------------------------------------------------------
(* The rounds of both handler threads: "Service each socket", and "Poll the    *)
(* connected nodes for messages".                                              *)

BeginRound(t) ==
  /\ stage[t] = "idle" /\ Unlocked
  /\ node' = AddRefs(vNodes)
  /\ vNodesCopy' = [vNodesCopy EXCEPT ![t] = vNodes]
  /\ stage' = [stage EXCEPT ![t] = "round"]
  /\ UNCHANGED <<nLastNodeId, vNodes, vNodesDisconnected, semOutbound, closing, posted, caller, aliased>>

(* Socket error, flood, timeout; a bad message, a ban, an idle peer. *)
CloseSocketDisconnect(t, n) ==
  /\ stage[t] = "round" /\ n \in vNodesCopy[t]
  /\ node' = [node EXCEPT ![n].fDisconnect = TRUE]
  /\ UNCHANGED <<nLastNodeId, vNodes, vNodesDisconnected, semOutbound, netVars, caller, aliased>>

EndRound(t) ==
  /\ stage[t] = "round" /\ Unlocked
  /\ node' = Releases(vNodesCopy[t])
  /\ vNodesCopy' = [vNodesCopy EXCEPT ![t] = {}]
  /\ stage' = [stage EXCEPT ![t] = IF t = "net" THEN "disconnect" ELSE "idle"]
  /\ UNCHANGED <<nLastNodeId, vNodes, vNodesDisconnected, semOutbound, closing, posted, caller, aliased>>

-----------------------------------------------------------------------------
(* Callers of ConnectNode. *)

Idle(fHaveGrant) == [pc |-> "start", addr |-> NULL, pnode |-> NULL, fHaveGrant |-> fHaveGrant, nLoaded |-> 0]

(* ThreadOpenConnections and ThreadOpenAddedConnections: wait for a slot, then   *)
(* choose an address.                                                            *)
AcquireGrant(c, a) ==
  /\ c \in Opener /\ caller[c].pc = "start" /\ semOutbound >= 1
  /\ semOutbound' = semOutbound - 1
  /\ caller' = [caller EXCEPT ![c] = [@ EXCEPT !.pc = "open", !.addr = a, !.fHaveGrant = TRUE]]
  /\ UNCHANGED <<nLastNodeId, node, vNodes, vNodesDisconnected, netVars, aliased>>

(* The caller is done; ~CSemaphoreGrant posts what it still holds. *)
Finished(c) ==
  /\ caller' = [caller EXCEPT ![c] = Idle(FALSE)]
  /\ semOutbound' = IF caller[c].fHaveGrant THEN semOutbound + 1 ELSE semOutbound

(* OpenNetworkConnection: "return false" when the address is ours, banned or    *)
(* connected.                                                                   *)
AlreadyConnected(c) ==
  /\ caller[c].pc = "open"
  /\ Finished(c)
  /\ UNCHANGED <<nLastNodeId, node, vNodes, vNodesDisconnected, netVars, aliased>>

NotConnected(c) ==
  /\ caller[c].pc = "open" /\ Unlocked /\ FindNode(caller[c].addr) = {}
  /\ caller' = [caller EXCEPT ![c] = [@ EXCEPT !.pc = "connect"]]
  /\ UNCHANGED <<nLastNodeId, node, vNodes, vNodesDisconnected, semOutbound, netVars, aliased>>

(* ProcessCheckMasternode, "masternode connect" and "addnode onetry". *)
CallConnectNode(c, a) ==
  /\ c \notin Opener /\ caller[c].pc = "start"
  /\ caller' = [caller EXCEPT ![c] = [@ EXCEPT !.pc = "connect", !.addr = a]]
  /\ UNCHANGED <<nLastNodeId, node, vNodes, vNodesDisconnected, semOutbound, netVars, aliased>>

(* Bound: a node is found at most once, else the references it never gives back *)
(* grow without end.                                                            *)
FoundOnce(n) == n \notin aliased

(* "Look for an existing connection". *)
ConnectNodeFinds(c) ==
  /\ caller[c].pc = "connect" /\ Unlocked
  /\ \E n \in FindNode(caller[c].addr) :
       /\ FoundOnce(n)
       /\ caller' = [caller EXCEPT ![c] = [@ EXCEPT !.pc = "load", !.pnode = n]]
       /\ aliased' = aliased \cup {n}
  /\ UNCHANGED <<nLastNodeId, node, vNodes, vNodesDisconnected, semOutbound, netVars>>

(* No connection found, or the peer was given by name and is not looked for. *)
ConnectNodeDials(c) ==
  /\ caller[c].pc = "connect"
  /\ caller' = [caller EXCEPT ![c] = [@ EXCEPT !.pc = "dial"]]
  /\ UNCHANGED <<nLastNodeId, node, vNodes, vNodesDisconnected, semOutbound, netVars, aliased>>

DialFails(c) ==
  /\ caller[c].pc = "dial"
  /\ Finished(c)
  /\ UNCHANGED <<nLastNodeId, node, vNodes, vNodesDisconnected, netVars, aliased>>

(* "Add node". *)
DialSucceeds(c) ==
  /\ caller[c].pc = "dial" /\ Unlocked
  /\ AddNode(caller[c].addr, FALSE)
  /\ caller' = [caller EXCEPT ![c] = [@ EXCEPT !.pc = "connected", !.pnode = nLastNodeId + 1]]
  /\ UNCHANGED <<vNodesDisconnected, semOutbound, netVars, aliased>>

(* pnode->AddRef() on the node found; a deleted one is read all the same. *)
AddRefLoad(c) ==
  /\ caller[c].pc = "load"
  /\ caller' = [caller EXCEPT ![c] = [@ EXCEPT !.pc = "store", !.nLoaded = node[caller[c].pnode].nRefCount]]
  /\ UNCHANGED <<nLastNodeId, node, vNodes, vNodesDisconnected, semOutbound, netVars, aliased>>

AddRefStore(c) ==
  /\ caller[c].pc = "store"
  /\ node' = [node EXCEPT ![caller[c].pnode].nRefCount = caller[c].nLoaded + 1]
  /\ caller' = [caller EXCEPT ![c] = [@ EXCEPT !.pc = "connected"]]
  /\ UNCHANGED <<nLastNodeId, vNodes, vNodesDisconnected, semOutbound, netVars, aliased>>

(* A caller of ConnectNode alone drops the pointer. *)
ConnectNodeReturns(c) ==
  /\ c \notin Opener /\ caller[c].pc = "connected"
  /\ Finished(c)
  /\ UNCHANGED <<nLastNodeId, node, vNodes, vNodesDisconnected, netVars, aliased>>

(* OpenNetworkConnection: grantOutbound->MoveTo(pnode->grantOutbound), without   *)
(* cs_vNodes.  First the node's grant is released: tested and posted, and cleared. *)
MoveToReleases(c) ==
  LET n == caller[c].pnode
  IN  /\ c \in Opener /\ caller[c].pc = "connected"
      /\ \/ /\ node[n].grantOutbound
            /\ semOutbound' = semOutbound + 1
            /\ caller' = [caller EXCEPT ![c] = [@ EXCEPT !.pc = "clear"]]
         \/ /\ ~node[n].grantOutbound
            /\ semOutbound' = semOutbound
            /\ caller' = [caller EXCEPT ![c] = [@ EXCEPT !.pc = "move"]]
      /\ UNCHANGED <<nLastNodeId, node, vNodes, vNodesDisconnected, netVars, aliased>>

MoveToClears(c) ==
  /\ caller[c].pc = "clear"
  /\ node' = [node EXCEPT ![caller[c].pnode].grantOutbound = FALSE]
  /\ caller' = [caller EXCEPT ![c] = [@ EXCEPT !.pc = "move"]]
  /\ UNCHANGED <<nLastNodeId, vNodes, vNodesDisconnected, semOutbound, netVars, aliased>>

(* Then the caller's grant becomes the node's. *)
MoveTo(c) ==
  /\ caller[c].pc = "move"
  /\ node' = [node EXCEPT ![caller[c].pnode].grantOutbound = TRUE]
  /\ caller' = [caller EXCEPT ![c] = [@ EXCEPT !.pc = "moved", !.fHaveGrant = FALSE]]
  /\ UNCHANGED <<nLastNodeId, vNodes, vNodesDisconnected, semOutbound, netVars, aliased>>

(* pnode->fNetworkNode = true *)
SetNetworkNode(c) ==
  /\ caller[c].pc = "moved"
  /\ node' = [node EXCEPT ![caller[c].pnode].fNetworkNode = TRUE]
  /\ Finished(c)
  /\ UNCHANGED <<nLastNodeId, vNodes, vNodesDisconnected, netVars, aliased>>

-----------------------------------------------------------------------------
Init ==
  /\ nLastNodeId = 0 /\ node = [n \in {} |-> CNode(NULL, FALSE)]
  /\ vNodes = {} /\ vNodesDisconnected = {}
  /\ semOutbound = nMaxOutbound
  /\ stage = [t \in Handler |-> IF t = "net" THEN "disconnect" ELSE "idle"]
  /\ vNodesCopy = [t \in Handler |-> {}]
  /\ closing = {} /\ posted = {}
  /\ caller = [c \in Caller |-> Idle(FALSE)]
  /\ aliased = {}

CallerStep(c) ==
  \/ \E a \in Addr : AcquireGrant(c, a) \/ CallConnectNode(c, a)
  \/ AlreadyConnected(c) \/ NotConnected(c)
  \/ ConnectNodeFinds(c) \/ ConnectNodeDials(c) \/ DialFails(c) \/ DialSucceeds(c)
  \/ AddRefLoad(c) \/ AddRefStore(c) \/ ConnectNodeReturns(c)
  \/ MoveToReleases(c) \/ MoveToClears(c) \/ MoveTo(c) \/ SetNetworkNode(c)

Next ==
  \/ DisconnectNodes \/ CloseNodes
  \/ \E busy \in SUBSET vNodesDisconnected : DeleteNodes(busy)
  \/ \E a \in Addr : AcceptConnection(a)
  \/ AcceptNothing
  \/ \E t \in Handler : BeginRound(t) \/ EndRound(t)
  \/ \E t \in Handler : \E n \in vNodesCopy[t] : CloseSocketDisconnect(t, n)
  \/ \E c \in Caller : CallerStep(c)

Spec == Init /\ [][Next]_vars

(* The socket thread keeps going round, a round of the message thread ends,    *)
(* and no lock (cs_vNodes, those of a node) is always taken when one of them   *)
(* tries.                                                                      *)
FairSpec ==
  /\ Spec
  /\ WF_vars(DisconnectNodes) /\ WF_vars(CloseNodes) /\ WF_vars(AcceptNothing)
  /\ WF_vars(DeleteNodes(vNodesDisconnected)) /\ SF_vars(DeleteNodes({}))
  /\ WF_vars(BeginRound("net")) /\ WF_vars(EndRound("net")) /\ SF_vars(EndRound("msghand"))

-----------------------------------------------------------------------------
Field == [addr : Addr \cup {NULL}, fInbound : BOOLEAN, fNetworkNode : BOOLEAN,
          fDisconnect : BOOLEAN, nRefCount : Int, grantOutbound : BOOLEAN]

CallerState ==
  [pc : {"start", "open", "connect", "load", "store", "dial",
         "connected", "clear", "move", "moved"},
   addr : Addr \cup {NULL}, pnode : NodeId \cup {NULL}, fHaveGrant : BOOLEAN, nLoaded : Int]

(* Types; a node is in at most one list. *)
TypeOK ==
  /\ nLastNodeId \in 0 .. MaxNodes /\ node \in [Created -> Field]
  /\ vNodes \subseteq Created /\ vNodesDisconnected \subseteq Created
  /\ vNodes \cap vNodesDisconnected = {}
  /\ semOutbound \in Nat
  /\ stage \in [Handler -> {"disconnect", "release", "delete", "accept", "idle", "round"}]
  /\ vNodesCopy \in [Handler -> SUBSET Created]
  /\ caller \in [Caller -> CallerState]
  /\ closing \subseteq vNodesDisconnected /\ posted \subseteq closing
  /\ aliased \subseteq Created

(* References that someone will give back. *)
Held(t, n) == IF n \in vNodesCopy[t] THEN 1 ELSE 0
Base(n) == IF n \in vNodes THEN 1 ELSE 0

(* The reference count of a node that exists covers every holder, whatever the  *)
(* threads do, and the assertion of GetRefCount holds; for nodes that           *)
(* ConnectNode did not hand out a second time.                                  *)
RefsCoverHolders ==
  \A n \in (vNodes \cup vNodesDisconnected) \ aliased :
     node[n].nRefCount >= Base(n) + Held("net", n) + Held("msghand", n)

(* A round never works on a deleted node, unless ConnectNode handed it out a     *)
(* second time.                                                                  *)
NoRoundOnDeleted == \A t \in Handler : vNodesCopy[t] \cap Deleted \subseteq aliased

Using == {"connected", "clear", "move", "moved"}

(* A caller that created its node may still use it (MoveTo, fNetworkNode), even   *)
(* when the socket thread has already disconnected it.                            *)
OpenerKeepsNode ==
  \A c \in Caller : caller[c].pc \in Using /\ caller[c].pnode \notin aliased
                      => caller[c].pnode \notin Deleted

(* The slots: free, held by a caller, or held by a node that exists; a grant that *)
(* was posted and is about to be cleared holds none.                              *)
Cleared == posted \cup {caller[c].pnode : c \in {d \in Caller : caller[d].pc = "clear"}}

Slots ==
  semOutbound + Cardinality({c \in Caller : caller[c].fHaveGrant})
              + Cardinality(Granted((vNodes \cup vNodesDisconnected) \ Cleared))

(* An opener is moving its grant to a node that ConnectNode handed out twice. *)
MovingTwice ==
  \E c \in Opener : caller[c].pc \in {"connected", "clear", "move"} /\ caller[c].pnode \in aliased

(* No step loses or doubles an outbound slot, although MoveTo and the release in  *)
(* ThreadSocketHandler work on the same grant without a common lock; except while *)
(* a grant is moved to a node that was handed out twice, where the code does both *)
(* (SlotsStayInBound).                                                            *)
GrantsConserved == [][MovingTwice \/ Slots' = Slots]_vars

(* An accepted connection that was closed is deleted in the end. *)
InboundDeleted ==
  \A n \in NodeId :
     []<>(n \in Created /\ node[n].fInbound /\ node[n].fDisconnect => n \in Deleted \cup aliased)

(* "release outbound grant (if any)" (ThreadSocketHandler): a disconnected node    *)
(* does not hold an outbound slot.                                                 *)
DisconnectedHoldsNoGrant ==
  \A n \in vNodesDisconnected \ closing : ~node[n].grantOutbound

(* "semOutbound" (StartNode): there are MAX_OUTBOUND_CONNECTIONS slots, whatever    *)
(* happens.                                                                        *)
SlotsStayInBound == Slots = nMaxOutbound
=============================================================================
