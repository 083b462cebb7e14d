---------------------------- MODULE OrphanBlocks ----------------------------
(***************************************************************************)
(* ProcessBlock (main.cpp): what happens to a block that arrives before    *)
(* its parent.  It waits in mapOrphanBlocks, indexed by its parent in      *)
(* mapOrphanBlocksByPrev; when the parent is accepted, everything that     *)
(* waits for it is tried in the same call.  A proof-of-stake block whose   *)
(* stake is already seen is refused.  All of it runs under cs_main.        *)
(*                                                                         *)
(* AcceptBlock has three outcomes: "accepted"; "refused" before the block  *)
(* is in the index; and "indexed", when AddToBlockIndex has put it in the  *)
(* index and then fails (the commit, or SetBestChain).                     *)
(***************************************************************************)
EXTENDS Integers, FiniteSets

CONSTANTS
  Block, Genesis,
  hashPrevBlock,   \* hashPrevBlock[b] (Genesis is its own)
  stake,           \* stake[b]: GetProofOfStake, NoStake for proof of work
  NoStake,
  MaxOrphanBlocks  \* -maxorphanblocks

ASSUME OrphanAssumption ==
  /\ Genesis \in Block
  /\ hashPrevBlock \in [Block -> Block] /\ hashPrevBlock[Genesis] = Genesis
  \* A chain of hashes has no cycle: some block of a set is no other's parent.
  /\ \A S \in SUBSET (Block \ {Genesis}) :
        S # {} => \E b \in S : \A c \in S : hashPrevBlock[c] # b
  /\ NoStake = stake[Genesis] /\ DOMAIN stake = Block
  /\ MaxOrphanBlocks \in Nat
  /\ IsFiniteSet(Block)

VARIABLES
  mapBlockIndex,         \* blocks in the index
  fAccepted,             \* those for which AcceptBlock returned true
  setStakeSeen,          \* stakes of the blocks in the index
  mapOrphanBlocks,
  mapOrphanBlocksByPrev, \* the COrphanBlocks, filed under their hashPrev
  setStakeSeenOrphan

index == <<mapBlockIndex, fAccepted, setStakeSeen>>
orphans == <<mapOrphanBlocks, mapOrphanBlocksByPrev, setStakeSeenOrphan>>
orphanBlockVars == <<index, orphans>>

BlockVerdict == {"accepted", "indexed", "refused"}

StakesOf(B) == {stake[b] : b \in B} \ {NoStake}

(* mapOrphanBlocksByPrev.count(b) *)
HasOrphanChild(b) == \E c \in mapOrphanBlocksByPrev : hashPrevBlock[c] = b

-----------------------------------------------------------------------------
(* The checks at the top of ProcessBlock.  The later ones (checkpoint time,   *)
(* signature encoding, CheckBlock) only return.                               *)
NotDuplicate(b, fImporting) ==
  /\ b \notin mapBlockIndex /\ b \notin mapOrphanBlocks
  /\ fImporting \/ stake[b] \notin setStakeSeen \/ HasOrphanChild(b)

(* The check of an orphan's stake. *)
OrphanStakeOK(b) == stake[b] \notin setStakeSeenOrphan \/ HasOrphanChild(b)

(* Mutant of Prunable: never prunes. *)
PrunableNone == {}

(* PruneOrphanBlocks walks from a random orphan down to one without children. *)
Prunable ==
  IF Cardinality(mapOrphanBlocksByPrev) <= MaxOrphanBlocks THEN {}
  ELSE {p \in mapOrphanBlocksByPrev : ~HasOrphanChild(p)}

(* A block with an unknown parent, from a peer.  (Without a peer to ask for   *)
(* the parent the block is dropped.)                                          *)
StoreOrphan(b) ==
  /\ NotDuplicate(b, FALSE)
  /\ hashPrevBlock[b] \notin mapBlockIndex
  /\ OrphanStakeOK(b)
  /\ \E gone \in (IF Prunable = {} THEN {{}} ELSE {{p} : p \in Prunable}) :
       /\ mapOrphanBlocks' = (mapOrphanBlocks \ gone) \cup {b}
       /\ mapOrphanBlocksByPrev' = (mapOrphanBlocksByPrev \ gone) \cup {b}
       /\ setStakeSeenOrphan' = (setStakeSeenOrphan \ StakesOf(gone)) \cup StakesOf({b})
  /\ UNCHANGED index

-----------------------------------------------------------------------------
(* AcceptBlock, for a set of blocks with their verdicts. *)
AcceptBlocks(B, verdict) ==
  LET added == {b \in B : verdict[b] # "refused"}
  IN  /\ mapBlockIndex' = mapBlockIndex \cup added
      /\ fAccepted' = fAccepted \cup {b \in B : verdict[b] = "accepted"}
      /\ setStakeSeen' = setStakeSeen \cup StakesOf(added)

(* Mutant of Processed: only the children of h are tried. *)
ProcessedOnce(h, verdict) == {c \in mapOrphanBlocksByPrev : hashPrevBlock[c] = h}

(* The orphans vWorkQueue reaches: the children of h, and those of every       *)
(* orphan accepted on the way.                                                 *)
Processed(h, verdict) ==
  {o \in mapOrphanBlocksByPrev : \A S \in SUBSET mapOrphanBlocksByPrev :
     (\A c \in mapOrphanBlocksByPrev :
        hashPrevBlock[c] \in {h} \cup {s \in S : verdict[s] = "accepted"} => c \in S)
     => o \in S}

(* Mutant of Forget: an orphan that is not accepted stays in the map. *)
ForgetAccepted(B, verdict) ==
  /\ mapOrphanBlocks' = mapOrphanBlocks \ {b \in B : verdict[b] = "accepted"}
  /\ mapOrphanBlocksByPrev' = mapOrphanBlocksByPrev \ B
  /\ setStakeSeenOrphan' = setStakeSeenOrphan \ StakesOf(B)

(* Mutant of Forget: the marks of the tried orphans are kept. *)
ForgetKeepsMarks(B, verdict) ==
  /\ mapOrphanBlocks' = mapOrphanBlocks \ B
  /\ mapOrphanBlocksByPrev' = mapOrphanBlocksByPrev \ B
  /\ UNCHANGED setStakeSeenOrphan

(* Every orphan tried is forgotten, accepted or not. *)
Forget(B, verdict) ==
  /\ mapOrphanBlocks' = mapOrphanBlocks \ B
  /\ mapOrphanBlocksByPrev' = mapOrphanBlocksByPrev \ B
  /\ setStakeSeenOrphan' = setStakeSeenOrphan \ StakesOf(B)

(* Mutant of ParentKnown: the parent may itself be an orphan. *)
ParentKnownOrOrphan(b) == hashPrevBlock[b] \in mapBlockIndex \cup mapOrphanBlocks

ParentKnown(b) == hashPrevBlock[b] \in mapBlockIndex

(* A block with a known parent, from a peer, a miner or a file. *)
ProcessBlock(b, fImporting) ==
  /\ NotDuplicate(b, fImporting)
  /\ ParentKnown(b)
  /\ \E verdict \in [{b} \cup mapOrphanBlocksByPrev -> BlockVerdict] :
       IF verdict[b] # "accepted"
         THEN /\ AcceptBlocks({b}, verdict)
              /\ UNCHANGED orphans
         ELSE /\ AcceptBlocks({b} \cup Processed(b, verdict), verdict)
              /\ Forget(Processed(b, verdict), verdict)

(* A restart loses the orphans; LoadBlockIndex rebuilds setStakeSeen. *)
LoadBlockIndex ==
  /\ setStakeSeen' = StakesOf(mapBlockIndex)
  /\ mapOrphanBlocks' = {} /\ mapOrphanBlocksByPrev' = {} /\ setStakeSeenOrphan' = {}
  /\ UNCHANGED <<mapBlockIndex, fAccepted>>

-----------------------------------------------------------------------------
OrphanInit ==
  /\ mapBlockIndex = {Genesis} /\ fAccepted = {Genesis} /\ setStakeSeen = {}
  /\ mapOrphanBlocks = {} /\ mapOrphanBlocksByPrev = {} /\ setStakeSeenOrphan = {}

OrphanNext ==
  \/ \E b \in Block : StoreOrphan(b) \/ \E fImporting \in BOOLEAN : ProcessBlock(b, fImporting)
  \/ LoadBlockIndex

OrphanSpec == OrphanInit /\ [][OrphanNext]_orphanBlockVars

-----------------------------------------------------------------------------
(* Types; the marks are stakes. *)
OrphanTypeOK ==
  /\ mapBlockIndex \subseteq Block /\ fAccepted \subseteq mapBlockIndex
  /\ mapOrphanBlocks \subseteq Block /\ mapOrphanBlocksByPrev \subseteq Block
  /\ setStakeSeen \subseteq StakesOf(Block) /\ setStakeSeenOrphan \subseteq StakesOf(Block)

(* The two orphan maps hold the same COrphanBlocks: an entry of one without the *)
(* other is a leak or a pointer to a deleted block.  No orphan is in the index. *)
OrphanMapsAgree ==
  /\ mapOrphanBlocksByPrev = mapOrphanBlocks
  /\ mapOrphanBlocks \cap mapBlockIndex = {}

(* ProcessBlock's work queue leaves no orphan behind: none waits for a block    *)
(* that was accepted.                                                           *)
NoOrphanLeftBehind == \A o \in mapOrphanBlocks : hashPrevBlock[o] \notin fAccepted

(* PruneOrphanBlocks runs before the insertion and removes one: at most one     *)
(* orphan over the limit is ever held.                                          *)
OrphansBounded == Cardinality(mapOrphanBlocks) <= MaxOrphanBlocks + 1

(* A mark without an orphan would refuse honest blocks with that stake until    *)
(* the next restart: pruning and processing take the mark along.                *)
MarksBelongToOrphans == setStakeSeenOrphan \subseteq StakesOf(mapOrphanBlocks)

(* Whatever order blocks arrive in, the index is a tree rooted at Genesis: no   *)
(* block is indexed before its parent (LoadBlockIndex relies on it).            *)
IndexClosed ==
  /\ Genesis \in mapBlockIndex
  /\ \A b \in mapBlockIndex : hashPrevBlock[b] \in mapBlockIndex

(* "Duplicate stake allowed only when there is orphan child block": a block that *)
(* would be stored now, with the stake of an orphan already held, has a child    *)
(* among the orphans.                                                            *)
DuplicateNeedsChild ==
  \A b \in Block, o \in mapOrphanBlocks :
     /\ NotDuplicate(b, FALSE) /\ ~ParentKnown(b) /\ OrphanStakeOK(b)
     /\ stake[b] # NoStake /\ stake[b] = stake[o]
     => HasOrphanChild(b)

(* "shunt it off to holding area until we get it": an orphan's parent is not in  *)
(* the index.                                                                    *)
HeldUntilParentKnown == \A o \in mapOrphanBlocks : ~ParentKnown(o)
=============================================================================
