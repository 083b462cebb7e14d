---------------------------- MODULE BlockDownload ----------------------------
(***************************************************************************)
(* Who is asked for which block (main.cpp: CNodeState, AddBlockToQueue,    *)
(* MarkBlockAsInFlight, MarkBlockAsReceived, FinalizeNode, the "inv" and   *)
(* "block" messages, SendMessages), and how a peer that misbehaves or      *)
(* stalls is dropped.  Every handler runs under cs_main.                   *)
(*                                                                         *)
(* Time is kept relative to the present: a timestamp is 0 when it is taken *)
(* and Tick makes all of them one unit older, down to -MaxAge, which also  *)
(* stands for the zero a timestamp starts with.                            *)
(***************************************************************************)
EXTENDS Integers, SequencesExt

CONSTANTS
  Node,       \* connections (NodeId)
  LocalNode,  \* connections whose address is local: never banned
  Hash,       \* block hashes
  MAX_BLOCKS_IN_TRANSIT_PER_PEER,
  BLOCK_DOWNLOAD_TIMEOUT,
  MaxQueued,     \* AddBlockToQueue's limit (5000 in the code)
  BanScore,      \* -banscore; nMisbehavior saturates here
  RejectScore,   \* the nDoS values a refused block may carry
  MaxAge

ASSUME DownloadAssumption ==
  /\ LocalNode \subseteq Node
  /\ MAX_BLOCKS_IN_TRANSIT_PER_PEER \in Nat \ {0}
  /\ BLOCK_DOWNLOAD_TIMEOUT \in Nat
  /\ MaxQueued \in Nat /\ BanScore \in Nat \ {0} /\ RejectScore \subseteq Nat
  /\ MaxAge \in Nat /\ MaxAge > 2 * BLOCK_DOWNLOAD_TIMEOUT

VARIABLES
  dl,           \* mapNodeState, mapBlocksToDownload, mapBlocksInFlight
  hasVersion,   \* connections whose "version" came in (nVersion # 0)
  fDisconnect,  \* connections to be closed
  setBanned,    \* banned connections (by address)
  mapBlockIndex \* the blocks we have, orphans included

vars == <<dl, hasVersion, fDisconnect, setBanned, mapBlockIndex>>

Time == -MaxAge .. 0

(* CNodeState's constructor *)
CNodeState == [nMisbehavior |-> 0, fShouldBan |-> FALSE,
               vBlocksInFlight |-> << >>, nBlocksInFlight |-> 0,
               vBlocksToDownload |-> << >>, nBlocksToDownload |-> 0,
               nLastBlockReceive |-> -MaxAge, nLastBlockProcess |-> -MaxAge]

Connected == DOMAIN dl.mapNodeState

(* The map f without the keys K. *)
Without(f, K) == [k \in DOMAIN f \ K |-> f[k]]

(* The map f with f[k] = v. *)
With(f, k, v) == [j \in DOMAIN f \cup {k} |-> IF j = k THEN v ELSE f[j]]

-----------------------------------------------------------------------------
(* The bookkeeping operations, on a value of dl. *)

Misbehaving(d, n, howmuch) ==
  IF howmuch = 0 THEN d
  ELSE LET score == d.mapNodeState[n].nMisbehavior + howmuch
       IN  [d EXCEPT !.mapNodeState[n].nMisbehavior = IF score > BanScore THEN BanScore ELSE score,
                     !.mapNodeState[n].fShouldBan = @ \/ score >= BanScore]

(* The first half of MarkBlockAsReceived: h leaves the queue it is in. *)
Dequeue(d, h) ==
  IF h \notin DOMAIN d.mapBlocksToDownload THEN d
  ELSE LET n == d.mapBlocksToDownload[h]
       IN  [d EXCEPT !.mapNodeState[n].vBlocksToDownload = RemoveFirst(@, h),
                     !.mapNodeState[n].nBlocksToDownload = @ - 1,
                     !.mapBlocksToDownload = Without(@, {h})]

(* The second half: h is no longer in flight; the peer it was asked of gets   *)
(* the credit when it is the one that sent it.                                *)
Land(d, h, nodeFrom) ==
  IF h \notin DOMAIN d.mapBlocksInFlight THEN d
  ELSE LET n == d.mapBlocksInFlight[h]
       IN  [d EXCEPT !.mapNodeState[n].vBlocksInFlight =
                        RemoveFirstMatch(@, LAMBDA q : q.hash = h),
                     !.mapNodeState[n].nBlocksInFlight = @ - 1,
                     !.mapNodeState[n].nLastBlockReceive = IF n = nodeFrom THEN 0 ELSE @,
                     !.mapBlocksInFlight = Without(@, {h})]

(* Mutant of MarkBlockAsReceived: a queued block is not looked for in flight. *)
MarkBlockAsReceivedQueued(d, h, nodeFrom) ==
  IF h \in DOMAIN d.mapBlocksToDownload THEN Dequeue(d, h)
  ELSE [d EXCEPT !.mapBlocksInFlight = Without(@, {h})]

MarkBlockAsReceived(d, h, nodeFrom) == Land(Dequeue(d, h), h, nodeFrom)

(* AddBlockToQueue, for a connected node. *)
AddBlockToQueue(d, n, h) ==
  IF h \in DOMAIN d.mapBlocksToDownload \cup DOMAIN d.mapBlocksInFlight THEN d
  ELSE LET state == d.mapNodeState[n]
           d1 == [d EXCEPT !.mapNodeState[n] =
                    [state EXCEPT !.vBlocksToDownload = Append(@, h), !.nBlocksToDownload = @ + 1]]
           d2 == IF d1.mapNodeState[n].nBlocksToDownload > MaxQueued
                   THEN Misbehaving(d1, n, 10) ELSE d1
       IN  [d2 EXCEPT !.mapBlocksToDownload = With(@, h, n)]

(* Mutant of MarkBlockAsInFlight: the request goes to the front of the list. *)
MarkBlockAsInFlightFront(d, n, h) ==
  LET d1 == MarkBlockAsReceived(d, h, "none")
  IN  [d1 EXCEPT !.mapNodeState[n].vBlocksInFlight = <<[hash |-> h, nTime |-> 0]>> \o @,
                 !.mapNodeState[n].nBlocksInFlight = @ + 1,
                 !.mapBlocksInFlight = With(@, h, n)]

MarkBlockAsInFlight(d, n, h) ==
  LET d1 == MarkBlockAsReceived(d, h, "none")
      state == d1.mapNodeState[n]
  IN  [d1 EXCEPT !.mapNodeState[n] =
                    [state EXCEPT !.nLastBlockReceive = IF state.nBlocksInFlight = 0 THEN 0 ELSE @,
                                  !.vBlocksInFlight = Append(@, [hash |-> h, nTime |-> 0]),
                                  !.nBlocksInFlight = @ + 1],
                 !.mapBlocksInFlight = With(@, h, n)]

-----------------------------------------------------------------------------
(* Connections. *)

(* A socket is accepted or opened, unless its address is banned: CNode's      *)
(* constructor calls InitializeNode.                                          *)
InitializeNode(n) ==
  /\ n \notin Connected /\ n \notin setBanned
  /\ dl' = [dl EXCEPT !.mapNodeState = With(@, n, CNodeState)]
  /\ UNCHANGED <<hasVersion, fDisconnect, setBanned, mapBlockIndex>>

(* Mutant of Finalized: what the node was asked for is forgotten, not freed. *)
FinalizedLeaks(n) ==
  [dl EXCEPT !.mapNodeState = Without(@, {n})]

(* FinalizeNode frees what the node was asked for. *)
Finalized(n) ==
  LET state == dl.mapNodeState[n]
  IN  [dl EXCEPT
         !.mapBlocksInFlight = Without(@, {q.hash : q \in ToSet(state.vBlocksInFlight)}),
         !.mapBlocksToDownload = Without(@, ToSet(state.vBlocksToDownload)),
         !.mapNodeState = Without(@, {n})]

(* ThreadSocketHandler deletes the closed connection. *)
FinalizeNode(n) ==
  /\ n \in fDisconnect
  /\ dl' = Finalized(n)
  /\ fDisconnect' = fDisconnect \ {n}
  /\ hasVersion' = hasVersion \ {n}
  /\ UNCHANGED <<setBanned, mapBlockIndex>>

(* The peer closes the socket, or an error does. *)
CloseSocketDisconnect(n) ==
  /\ n \in Connected \ fDisconnect
  /\ fDisconnect' = fDisconnect \cup {n}
  /\ UNCHANGED <<dl, hasVersion, setBanned, mapBlockIndex>>

(* ThreadSocketHandler's inactivity check. *)
Idle(n) ==
  /\ n \in Connected /\ dl.mapNodeState[n].nLastBlockProcess = -MaxAge
  /\ CloseSocketDisconnect(n)

(* The ban runs out, or is lifted. *)
Unban(n) ==
  /\ n \in setBanned
  /\ setBanned' = setBanned \ {n}
  /\ UNCHANGED <<dl, hasVersion, fDisconnect, mapBlockIndex>>

-----------------------------------------------------------------------------
(* Messages.  ProcessMessage notes the time before it looks at the command. *)

Stamped(n) == [dl EXCEPT !.mapNodeState[n].nLastBlockProcess = 0]

(* A message can be handled: the peer has introduced itself. *)
Heard(n) == n \in (Connected \cap hasVersion) \ fDisconnect

(* The first "version"; a peer too old, or ourselves, is dropped at once. *)
VersionMessage(n) ==
  /\ n \in Connected \ (hasVersion \cup fDisconnect)
  /\ dl' = Stamped(n)
  /\ hasVersion' = hasVersion \cup {n}
  /\ fDisconnect' \in {fDisconnect, fDisconnect \cup {n}}
  /\ UNCHANGED <<setBanned, mapBlockIndex>>

(* Anything before "version", or a second "version". *)
UntimelyMessage(n) ==
  /\ n \in Connected \ fDisconnect
  /\ dl' = Misbehaving(Stamped(n), n, 1)
  /\ UNCHANGED <<hasVersion, fDisconnect, setBanned, mapBlockIndex>>

(* Any message that does not concern blocks. *)
OtherMessage(n) ==
  /\ Heard(n)
  /\ dl' = Stamped(n)
  /\ UNCHANGED <<hasVersion, fDisconnect, setBanned, mapBlockIndex>>

(* "inv" with one block. *)
InvMessage(n, h) ==
  /\ Heard(n)
  /\ dl' = IF h \in mapBlockIndex THEN Stamped(n) ELSE AddBlockToQueue(Stamped(n), n, h)
  /\ UNCHANGED <<hasVersion, fDisconnect, setBanned, mapBlockIndex>>

(* "block", accepted by ProcessBlock, asked for or not. *)
BlockMessage(n, h) ==
  /\ Heard(n)
  /\ dl' = MarkBlockAsReceived(Stamped(n), h, n)
  /\ mapBlockIndex' = mapBlockIndex \cup {h}
  /\ UNCHANGED <<hasVersion, fDisconnect, setBanned>>

(* "block", refused by ProcessBlock, with any score, none included; the       *)
(* velocity check refuses a block that is in the index by then.               *)
BadBlockMessage(n, h, nDoS) ==
  /\ Heard(n)
  /\ dl' = Misbehaving(MarkBlockAsReceived(Stamped(n), h, n), n, nDoS)
  /\ mapBlockIndex' \in {mapBlockIndex, mapBlockIndex \cup {h}}
  /\ UNCHANGED <<hasVersion, fDisconnect, setBanned>>

(* Mutant of Stalled: waits for a block to be processed after the timeout. *)
StalledNever(state) ==
  /\ state.nBlocksInFlight > 0
  /\ state.nLastBlockReceive < state.nLastBlockReceive - BLOCK_DOWNLOAD_TIMEOUT

(* SendMessages: "Detect stalled peers". *)
Stalled(state) ==
  /\ state.nBlocksInFlight > 0
  /\ state.nLastBlockReceive < state.nLastBlockProcess - BLOCK_DOWNLOAD_TIMEOUT
  /\ Head(state.vBlocksInFlight).nTime
       < state.nLastBlockProcess - 2 * BLOCK_DOWNLOAD_TIMEOUT

(* How many more blocks the peer may be asked for. *)
Room(state) ==
  IF state.nBlocksInFlight >= MAX_BLOCKS_IN_TRANSIT_PER_PEER THEN 0
  ELSE MAX_BLOCKS_IN_TRANSIT_PER_PEER - state.nBlocksInFlight

(* "getdata (blocks)": k rounds of the loop, each of which puts the front of  *)
(* the queue in flight.                                                        *)
Requested(d, n) ==
  LET state == d.mapNodeState[n]
      k == IF Room(state) < state.nBlocksToDownload THEN Room(state) ELSE state.nBlocksToDownload
      after[i \in 0 .. k] ==
        IF i = 0 THEN d
        ELSE MarkBlockAsInFlight(after[i - 1], n, Head(after[i - 1].mapNodeState[n].vBlocksToDownload))
  IN  after[k]

(* Mutant of BanDue: the flag is lost when the peer is also stalling. *)
BanDueUnlessStalled(n) ==
  dl.mapNodeState[n].fShouldBan /\ n \notin LocalNode /\ dl.mapNodeState[n].nBlocksInFlight = 0

(* SendMessages bans the peer, unless its address is local. *)
BanDue(n) == dl.mapNodeState[n].fShouldBan /\ n \notin LocalNode

(* SendMessages, the part about bans and blocks; nothing is done for a peer    *)
(* that has not sent its version.  The connection may have been marked for      *)
(* closing since ThreadMessageHandler looked.                                  *)
SendMessages(n) ==
  LET d1   == [dl EXCEPT !.mapNodeState[n].fShouldBan = FALSE]
      gone == n \in fDisconnect \/ BanDue(n) \/ Stalled(d1.mapNodeState[n])
  IN  /\ n \in Connected \cap hasVersion
      /\ setBanned' = IF BanDue(n) THEN setBanned \cup {n} ELSE setBanned
      /\ fDisconnect' = IF gone THEN fDisconnect \cup {n} ELSE fDisconnect
      /\ dl' = IF gone THEN d1 ELSE Requested(d1, n)
      /\ UNCHANGED <<hasVersion, mapBlockIndex>>

(* Time passes. *)
Older(t) == IF t = -MaxAge THEN t ELSE t - 1

OlderRequest(q) == [q EXCEPT !.nTime = Older(@)]

OlderState(state) ==
  [state EXCEPT !.nLastBlockReceive = Older(@), !.nLastBlockProcess = Older(@),
                !.vBlocksInFlight = [i \in DOMAIN @ |-> OlderRequest(@[i])]]

Tick ==
  /\ dl' = [dl EXCEPT !.mapNodeState = [n \in Connected |-> OlderState(dl.mapNodeState[n])]]
  /\ UNCHANGED <<hasVersion, fDisconnect, setBanned, mapBlockIndex>>

-----------------------------------------------------------------------------
Init ==
  /\ dl = [mapNodeState |-> [n \in {} |-> CNodeState],
           mapBlocksToDownload |-> [h \in {} |-> h], mapBlocksInFlight |-> [h \in {} |-> h]]
  /\ hasVersion = {} /\ fDisconnect = {} /\ setBanned = {} /\ mapBlockIndex = {}

Next ==
  \/ \E n \in Node :
       \/ InitializeNode(n) \/ FinalizeNode(n) \/ CloseSocketDisconnect(n) \/ Unban(n)
       \/ VersionMessage(n) \/ UntimelyMessage(n) \/ OtherMessage(n)
       \/ \E h \in Hash : InvMessage(n, h) \/ BlockMessage(n, h)
       \/ \E h \in Hash, nDoS \in RejectScore : BadBlockMessage(n, h, nDoS)
       \/ SendMessages(n)
  \/ Tick

Spec == Init /\ [][Next]_vars

(* Time passes; the socket thread closes idle connections (a peer that has sent *)
(* its version must answer pings) and deletes closed ones.  The message thread   *)
(* calls SendMessages for a peer in every round, right after it has handled that *)
(* peer's messages: a peer that is found stalled whenever a message has just     *)
(* come in is seen so, hence strong fairness there.                              *)
FairSpec ==
  /\ Spec
  /\ WF_vars(Tick)
  /\ \A n \in Node :
       /\ WF_vars(SendMessages(n))
       /\ SF_vars(n \in Connected \cap hasVersion /\ Stalled(dl.mapNodeState[n]) /\ SendMessages(n))
       /\ WF_vars(n \in hasVersion /\ Idle(n)) /\ WF_vars(FinalizeNode(n))

-----------------------------------------------------------------------------
NodeStateOK(s) ==
  /\ s.nMisbehavior \in 0 .. BanScore /\ s.fShouldBan \in BOOLEAN
  /\ s.vBlocksToDownload \in Seq(Hash) /\ s.nBlocksToDownload \in Nat
  /\ s.vBlocksInFlight \in Seq([hash : Hash, nTime : Time]) /\ s.nBlocksInFlight \in Nat
  /\ s.nLastBlockReceive \in Time /\ s.nLastBlockProcess \in Time

(* Types of the download bookkeeping; a counter below zero is a decrement of   *)
(* MarkBlockAsReceived for a block that was not counted.                       *)
TypeOK ==
  /\ Connected \subseteq Node /\ \A n \in Connected : NodeStateOK(dl.mapNodeState[n])
  /\ DOMAIN dl.mapBlocksToDownload \subseteq Hash
  /\ DOMAIN dl.mapBlocksInFlight \subseteq Hash
  /\ hasVersion \subseteq Node /\ fDisconnect \subseteq Node /\ setBanned \subseteq Node
  /\ mapBlockIndex \subseteq Hash

Queue(n) == dl.mapNodeState[n].vBlocksToDownload
InFlight(n) == [i \in DOMAIN dl.mapNodeState[n].vBlocksInFlight |->
                  dl.mapNodeState[n].vBlocksInFlight[i].hash]

(* The global maps and the per-peer lists are two views of one thing: a block   *)
(* is in exactly the list its map entry names, once, never both queued and in    *)
(* flight, its peer still exists (MarkBlockAsReceived dereferences it), and the  *)
(* counters are the lists' lengths - through disconnects and through blocks that *)
(* arrive from a peer other than the one that was asked.                         *)
MapsMatchLists ==
  /\ \A h \in DOMAIN dl.mapBlocksToDownload : dl.mapBlocksToDownload[h] \in Connected
  /\ \A h \in DOMAIN dl.mapBlocksInFlight : dl.mapBlocksInFlight[h] \in Connected
  /\ DOMAIN dl.mapBlocksToDownload \cap DOMAIN dl.mapBlocksInFlight = {}
  /\ \A n \in Connected :
       /\ ToSet(Queue(n)) = {h \in DOMAIN dl.mapBlocksToDownload : dl.mapBlocksToDownload[h] = n}
       /\ ToSet(InFlight(n)) = {h \in DOMAIN dl.mapBlocksInFlight : dl.mapBlocksInFlight[h] = n}
       /\ IsInjective(Queue(n)) /\ IsInjective(InFlight(n))
       /\ Len(Queue(n)) = dl.mapNodeState[n].nBlocksToDownload
       /\ Len(InFlight(n)) = dl.mapNodeState[n].nBlocksInFlight

(* Stall detection looks at the front of vBlocksInFlight for the oldest request. *)
OldestFirst ==
  \A n \in Connected : LET q == dl.mapNodeState[n].vBlocksInFlight
                       IN  \A i, j \in DOMAIN q : i < j => q[i].nTime <= q[j].nTime

(* "Detect stalled peers ... and that all blocks are in flight for over two      *)
(* minutes" (SendMessages): a peer found stalled has no younger request.         *)
StalledMeansAllOld ==
  \A n \in Connected : LET s == dl.mapNodeState[n]
                       IN  Stalled(s) => \A i \in DOMAIN s.vBlocksInFlight :
                             s.vBlocksInFlight[i].nTime
                               < s.nLastBlockProcess - 2 * BLOCK_DOWNLOAD_TIMEOUT

Wanted(n, h) == n \in Connected /\ h \in ToSet(Queue(n)) \cup ToSet(InFlight(n))

(* Node n sends a block it was asked for. *)
Delivers(n) ==
  \E h \in DOMAIN dl.mapBlocksInFlight \ DOMAIN dl'.mapBlocksInFlight :
    /\ dl.mapBlocksInFlight[h] = n
    /\ BlockMessage(n, h) \/ \E nDoS \in RejectScore : BadBlockMessage(n, h, nDoS)

(* A peer that from some time on sends none of the blocks it was asked for does *)
(* not keep any block reserved: each one arrives from somebody else, or the peer *)
(* is dropped and anyone else may be asked ("Detect stalled peers").  As long as *)
(* it delivers some requested block now and then it keeps the others: any of     *)
(* them resets nLastBlockReceive.                                                *)
WantedBlockIsFreed ==
  \A n \in Node, h \in Hash : []<>~Wanted(n, h) \/ []<><<Delivers(n)>>_vars

(* A peer that reached the ban score is disconnected, if it has sent its         *)
(* version: before that SendMessages does not look at fShouldBan.                *)
MisbehavingPeerDropped ==
  \A n \in Node \ LocalNode :
     (n \in Connected \cap hasVersion /\ dl.mapNodeState[n].fShouldBan) ~> (n \notin Connected)
=============================================================================
