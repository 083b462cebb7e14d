-------------------------------- MODULE TxDB --------------------------------
(***************************************************************************)
(* CTxDB (txdb-leveldb.h, txdb-leveldb.cpp): handles on one shared LevelDB *)
(* database.  A handle may hold a WriteBatch, the log of the puts and      *)
(* deletes since TxnBegin; its reads scan that log before the database,    *)
(* and TxnCommit hands it to LevelDB, which applies it atomically.         *)
(***************************************************************************)
EXTENDS Integers, SequencesExt

CONSTANTS Handle, Key, Value, NoValue,
          NULL,      \* no active batch
          MaxBatch   \* bound on the entries of a batch

(* A WriteBatch entry; value NoValue is a delete. *)
Entry == [key : Key, value : Value \cup {NoValue}]

ASSUME TxDBAssumption ==
  NoValue \notin Value /\ MaxBatch \in Nat /\ NULL \notin Seq(Entry)

VARIABLES
  pdb,          \* the database: a value or NoValue for each key
  activeBatch,  \* activeBatch[h]: a sequence of entries, or NULL
  fReadOnly,    \* fReadOnly[h]: the mode h was opened with
  result        \* what the last Read returned

vars == <<pdb, activeBatch, fReadOnly, result>>

-----------------------------------------------------------------------------
(* Mutant of ScanBatch: stops at the first entry for the key. *)
ScanBatchFirst(batch, k) ==
  FoldLeft(LAMBDA s, e : IF e.key # k \/ s.foundEntry THEN s
                         ELSE [foundEntry |-> TRUE, deleted |-> e.value = NoValue, value |-> e.value],
           [foundEntry |-> FALSE, deleted |-> FALSE, value |-> NoValue], batch)

(* CBatchScanner: the callback of one entry of the batch. *)
ScanEntry(s, e, k) ==
  IF e.key # k THEN s
  ELSE IF e.value = NoValue THEN [s EXCEPT !.foundEntry = TRUE, !.deleted = TRUE]
       ELSE [foundEntry |-> TRUE, deleted |-> FALSE, value |-> e.value]

(* WriteBatch::Iterate calls it for every entry: a later one overwrites an earlier. *)
ScanBatch(batch, k) ==
  LET scanned[i \in 0 .. Len(batch)] ==
        IF i = 0 THEN [foundEntry |-> FALSE, deleted |-> FALSE, value |-> NoValue]
        ELSE ScanEntry(scanned[i - 1], batch[i], k)
  IN  scanned[Len(batch)]

(* What CTxDB::Read returns; NoValue when it fails. *)
ReadValue(h, k) ==
  IF activeBatch[h] = NULL THEN pdb[k]
  ELSE LET s == ScanBatch(activeBatch[h], k)
       IN  IF s.deleted THEN NoValue ELSE IF s.foundEntry THEN s.value ELSE pdb[k]

(* CTxDB::Exists *)
Exists(h, k) ==
  \/ /\ activeBatch[h] # NULL
     /\ LET s == ScanBatch(activeBatch[h], k) IN s.foundEntry /\ ~s.deleted
  \/ pdb[k] # NoValue

(* LevelDB applies a batch entry by entry (WriteBatch::Iterate). *)
WriteToDB(db, batch) ==
  LET applied[i \in 0 .. Len(batch)] ==
        IF i = 0 THEN db ELSE [applied[i - 1] EXCEPT ![batch[i].key] = batch[i].value]
  IN  applied[Len(batch)]

-----------------------------------------------------------------------------
(* CTxDB::CTxDB on the open database, and the destructor of the old handle. *)
OpenHandle(h, readOnly) ==
  /\ fReadOnly' = [fReadOnly EXCEPT ![h] = readOnly]
  /\ activeBatch' = [activeBatch EXCEPT ![h] = NULL]
  /\ UNCHANGED <<pdb, result>>

TxnBegin(h) ==
  /\ activeBatch[h] = NULL
  /\ activeBatch' = [activeBatch EXCEPT ![h] = << >>]
  /\ UNCHANGED <<pdb, fReadOnly, result>>

(* Write (v in Value) and Erase (v = NoValue). *)
Write(h, k, v) ==
  /\ ~fReadOnly[h]
  /\ IF activeBatch[h] = NULL
       THEN pdb' = [pdb EXCEPT ![k] = v] /\ UNCHANGED activeBatch
       ELSE /\ Len(activeBatch[h]) < MaxBatch
            /\ activeBatch' = [activeBatch EXCEPT ![h] = Append(@, [key |-> k, value |-> v])]
            /\ UNCHANGED pdb
  /\ UNCHANGED <<fReadOnly, result>>

Dropped(h) == activeBatch' = [activeBatch EXCEPT ![h] = NULL]

TxnCommit(h) ==
  /\ activeBatch[h] # NULL
  /\ pdb' = WriteToDB(pdb, activeBatch[h])
  /\ Dropped(h)
  /\ UNCHANGED <<fReadOnly, result>>

(* LevelDB reports an error: the batch is deleted all the same. *)
TxnCommitFails(h) ==
  /\ activeBatch[h] # NULL
  /\ Dropped(h)
  /\ UNCHANGED <<pdb, fReadOnly, result>>

TxnAbort(h) ==
  /\ activeBatch[h] # NULL
  /\ Dropped(h)
  /\ UNCHANGED <<pdb, fReadOnly, result>>

Read(h, k) ==
  /\ result' = <<h, k, ReadValue(h, k)>>
  /\ UNCHANGED <<pdb, activeBatch, fReadOnly>>

(* The process dies and restarts. *)
Crash ==
  /\ activeBatch' = [h \in Handle |-> NULL]
  /\ UNCHANGED <<pdb, fReadOnly, result>>

-----------------------------------------------------------------------------
Init ==
  /\ pdb = [k \in Key |-> NoValue]
  /\ activeBatch = [h \in Handle |-> NULL]
  /\ fReadOnly \in [Handle -> BOOLEAN]
  /\ result = << >>

Next ==
  \/ \E h \in Handle : \/ TxnBegin(h) \/ TxnCommit(h) \/ TxnCommitFails(h) \/ TxnAbort(h)
                       \/ \E readOnly \in BOOLEAN : OpenHandle(h, readOnly)
  \/ \E h \in Handle, k \in Key : Read(h, k) \/ \E v \in Value \cup {NoValue} : Write(h, k, v)
  \/ Crash

Spec == Init /\ [][Next]_vars

-----------------------------------------------------------------------------
InTxn == {h \in Handle : activeBatch[h] # NULL}

(* The net effect of a batch. *)
Net(batch) ==
  [k \in {batch[i].key : i \in DOMAIN batch} |->
     batch[CHOOSE i \in DOMAIN batch :
             batch[i].key = k /\ \A j \in DOMAIN batch : j > i => batch[j].key # k].value]

Store == INSTANCE TxStore WITH
  store <- pdb, open <- InTxn, result <- result,
  pending <- [h \in Handle |-> IF activeBatch[h] = NULL THEN [k \in {} |-> NoValue]
                               ELSE Net(activeBatch[h])]

(* Types of the database and of the batches. *)
TypeOK ==
  /\ pdb \in [Key -> Value \cup {NoValue}]
  /\ activeBatch \in [Handle -> {NULL} \cup Seq(Entry)]
  /\ fReadOnly \in [Handle -> BOOLEAN]

(* CTxDB implements the transactional store: scanning the log in Read and        *)
(* applying it in TxnCommit agree with each other, and nothing of a batch that   *)
(* was aborted, failed to commit or was lost in a crash is ever read.            *)
ImplementsStore == Store!Spec

(* "once a database transaction begins reads are consistent with it" (ScanBatch): *)
(* Exists agrees with Read.                                                       *)
ExistsAgreesWithRead == \A h \in Handle, k \in Key : Exists(h, k) <=> ReadValue(h, k) # NoValue
=============================================================================
