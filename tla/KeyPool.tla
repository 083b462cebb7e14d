------------------------------- MODULE KeyPool -------------------------------
(***************************************************************************)
(* The key pool of the wallet and its encryption (wallet.cpp, walletdb.cpp,*)
(* crypter.cpp): keys made in advance, reserved by a CReserveKey while a   *)
(* transaction or a block is built, and then kept or returned.             *)
(*                                                                         *)
(* On disk: the secrets (plain, crypted), whether there is a master key,   *)
(* and the pool records.  In memory: setKeyPool, the lock state, and the   *)
(* CReserveKey objects.  A crash loses the memory between any two writes.  *)
(*                                                                         *)
(* cs_wallet is held by one job at a time (job), which the other jobs wait *)
(* for; KeepKey, LockKeyStore and a crash do not.  A key is its number in  *)
(* the order of creation.                                                  *)
(***************************************************************************)
EXTENDS Integers, FiniteSets, FiniteSetsExt

CONSTANTS
  Holder,        \* CReserveKey objects: a send dialog, the key of the block being mined
  KeypoolSize,   \* -keypool
  RefillSize,    \* the sizes keypoolrefill is called with
  MaxKey         \* bound on the keys ever generated

ASSUME KeyPoolAssumption ==
  /\ KeypoolSize \in Nat
  /\ RefillSize \subseteq Nat /\ KeypoolSize \in RefillSize
  /\ MaxKey \in Nat /\ KeypoolSize < MaxKey

VARIABLES
  plain,         \* disk: keys with a "key" record
  crypted,       \* disk: keys with a "ckey" record
  fMasterKey,    \* disk: there is an "mkey" record
  pool,          \* disk: the "pool" records, index -> key
  slack,         \* disk: free pages of wallet.dat may hold plain secrets
  setKeyPool,
  status,        \* "plain", or crypted and "locked" or "unlocked"
  locking,       \* Lock() has released cs_wallet and not yet called LockKeyStore
  nKeys,         \* keys generated so far
  leaked,        \* a failed TxnBegin left a master key and an open pwalletdbEncryption
  job,           \* what is being done under cs_wallet: [op, who, fill, size, i, fresh]
  held,          \* held[h]: nIndex and vchPubKey of a CReserveKey
  used,          \* history: keys kept or given out as an address
  clash,         \* history: a pool record was written over one that is reserved
  enc            \* history: keys generated and keys reserved when EncryptWallet began; is it done

diskVars == <<plain, crypted, fMasterKey, pool, slack>>
memVars == <<setKeyPool, status, locking, nKeys, leaked>>
history == <<used, clash, enc>>
vars == <<diskVars, memVars, job, held, history>>

NoKey == 0
DefaultKey == 1
Key == 1 .. MaxKey
Secrets == plain \cup crypted
PoolKeys == {pool[i] : i \in DOMAIN pool}

Unreserved == [nIndex |-> -1, vchPubKey |-> NoKey]
IsReserved(h) == held[h].nIndex # -1
InCall(h) == job.op = "reserve" /\ job.who = h
Reserved == {held[h].nIndex : h \in {g \in Holder : IsReserved(g)}}
HeldKeys == {held[h].vchPubKey : h \in {g \in Holder : IsReserved(g)}}

Idle == [op |-> "idle", who |-> NoKey, fill |-> FALSE, size |-> 0, i |-> 0, fresh |-> NoKey]

WithRecord(i, k) == [j \in DOMAIN pool \cup {i} |-> IF j = i THEN k ELSE pool[j]]
WithoutRecord(i) == [j \in DOMAIN pool \ {i} |-> pool[j]]

(***************************************************************************)
(* The wallet after its first run: the pool was filled, its first key was  *)
(* taken for the default address.                                          *)
(***************************************************************************)
Init ==
  /\ plain = 1 .. (KeypoolSize + 1)
  /\ crypted = {}
  /\ fMasterKey = FALSE
  /\ pool = [i \in 2 .. (KeypoolSize + 1) |-> i]
  /\ slack = FALSE
  /\ setKeyPool = 2 .. (KeypoolSize + 1)
  /\ status = "plain"
  /\ locking = FALSE
  /\ nKeys = KeypoolSize + 1
  /\ leaked = FALSE
  /\ job = Idle
  /\ held = [h \in Holder |-> Unreserved]
  /\ used = {DefaultKey}
  /\ clash = FALSE
  /\ enc = [old |-> 0, reserved |-> {}, done |-> FALSE]

(***************************************************************************)
(* Jobs under cs_wallet.  The bound MaxKey: a job starts only when the     *)
(* keys it may generate are left.                                          *)
(***************************************************************************)
KeysLeft(n) == nKeys + n <= MaxKey

(* TopUpKeyPool returns at once when the wallet is locked. *)
Take(op, h, n) ==
  /\ job = Idle
  /\ status = "locked" \/ KeysLeft(n + 1)
  /\ job' = [op |-> op, who |-> h, fill |-> status # "locked", size |-> n, i |-> 0, fresh |-> NoKey]
  /\ UNCHANGED <<diskVars, memVars, held, history>>

GetReservedKey(h) == ~IsReserved(h) /\ Take("reserve", h, KeypoolSize)
GetKeyFromPool == Take("getkey", NoKey, KeypoolSize)
keypoolrefill(n) == status # "locked" /\ Take("refill", NoKey, n)

(* The conditions of the loops of TopUpKeyPool and NewKeyPool. *)
WantsKey ==
  /\ job.fill
  /\ IF job.op = "newpool" THEN job.i < job.size
     ELSE Cardinality(setKeyPool) < job.size + 1

(* GenerateNewKey: the secret is on disk before anything refers to the key. *)
GenerateNewKey ==
  /\ WantsKey /\ job.fresh = NoKey
  /\ status # "locked"
  /\ nKeys' = nKeys + 1
  /\ job' = [job EXCEPT !.fresh = nKeys + 1]
  /\ IF status = "plain"
     THEN plain' = plain \cup {nKeys + 1} /\ UNCHANGED crypted
     ELSE crypted' = crypted \cup {nKeys + 1} /\ UNCHANGED plain
  /\ UNCHANGED <<fMasterKey, pool, slack, setKeyPool, status, locking, leaked, held, history>>

(* AddKeyPubKey fails in a wallet that was locked meanwhile: an exception  *)
(* ends the job.                                                           *)
GenerateNewKeyThrows ==
  /\ WantsKey /\ job.fresh = NoKey
  /\ status = "locked"
  /\ job' = Idle
  /\ UNCHANGED <<diskVars, memVars, held, history>>

NewIndex ==
  IF job.op = "newpool" THEN job.i + 1
  ELSE IF setKeyPool = {} THEN 1 ELSE Max(setKeyPool) + 1

WritePool ==
  /\ job.fresh # NoKey
  /\ pool' = WithRecord(NewIndex, job.fresh)
  /\ setKeyPool' = setKeyPool \cup {NewIndex}
  /\ job' = [job EXCEPT !.fresh = NoKey, !.i = IF job.op = "newpool" THEN NewIndex ELSE 0]
  /\ clash' = (clash \/ NewIndex \in Reserved)
  /\ UNCHANGED <<plain, crypted, fMasterKey, slack, status, locking, nKeys, leaked, held, used, enc>>

TopUpDone ==
  /\ job.fill /\ job.op # "newpool" /\ job.fresh = NoKey /\ ~WantsKey
  /\ job' = [job EXCEPT !.fill = FALSE]
  /\ UNCHANGED <<diskVars, memVars, held, history>>

RefillDone ==
  /\ job.op = "refill" /\ ~job.fill
  /\ job' = Idle
  /\ UNCHANGED <<diskVars, memVars, held, history>>

(* The key of the oldest index leaves the set; its record stays. *)
Oldest == Min(setKeyPool)
Readable == Oldest \in DOMAIN pool /\ pool[Oldest] \in Secrets

(* A read that throws leaves vchPubKey as it was; with an empty pool       *)
(* GetReservedKey hands out the default key, and nothing is reserved.      *)
KeyOfOldest(h) ==
  IF setKeyPool = {} THEN [nIndex |-> -1, vchPubKey |-> DefaultKey]
  ELSE [nIndex |-> Oldest, vchPubKey |-> IF Readable THEN pool[Oldest] ELSE held[h].vchPubKey]

(* Mutant of Reserve: the index is read and stays in setKeyPool. *)
ReserveKeepsIndex ==
  /\ job.op = "reserve" /\ ~job.fill
  /\ job' = Idle
  /\ held' = [held EXCEPT ![job.who] = KeyOfOldest(job.who)]
  /\ UNCHANGED <<diskVars, memVars, history>>

(* ReserveKeyFromKeyPool for a CReserveKey, whose nIndex is set before the *)
(* read.                                                                   *)
Reserve ==
  /\ job.op = "reserve" /\ ~job.fill
  /\ job' = Idle
  /\ setKeyPool' = IF setKeyPool = {} THEN {} ELSE setKeyPool \ {Oldest}
  /\ held' = [held EXCEPT ![job.who] = KeyOfOldest(job.who)]
  /\ UNCHANGED <<diskVars, status, locking, nKeys, leaked, history>>

(* GetKeyFromPool: reserved and kept in one job. *)
GetKey ==
  /\ job.op = "getkey" /\ ~job.fill
  /\ job' = Idle
  /\ IF setKeyPool = {} THEN UNCHANGED <<setKeyPool, pool, used>>
     ELSE /\ setKeyPool' = setKeyPool \ {Oldest}
          /\ IF Readable THEN pool' = WithoutRecord(Oldest) /\ used' = used \cup {pool[Oldest]}
             ELSE UNCHANGED <<pool, used>>
  /\ UNCHANGED <<plain, crypted, fMasterKey, slack, status, locking, nKeys, leaked, held, clash, enc>>

(* The object has a key, and its thread is not in GetReservedKey. *)
HasKey(h) == held[h].vchPubKey # NoKey /\ ~InCall(h)

(* Mutant of KeepKey: forgets the record. *)
KeepKeyInMemory(h) ==
  /\ HasKey(h) /\ job.op # "rename"
  /\ held' = [held EXCEPT ![h] = Unreserved]
  /\ used' = used \cup {held[h].vchPubKey}
  /\ UNCHANGED <<diskVars, memVars, job, clash, enc>>

(* CommitTransaction or CheckWork: the record is erased first.  CheckWork  *)
(* holds cs_main only and waits for no job, but the database is closed to  *)
(* it while the file is rewritten.                                         *)
KeepKey(h) ==
  /\ HasKey(h) /\ job.op # "rename"
  /\ pool' = IF IsReserved(h) THEN WithoutRecord(held[h].nIndex) ELSE pool
  /\ held' = [held EXCEPT ![h] = Unreserved]
  /\ used' = used \cup {held[h].vchPubKey}
  /\ UNCHANGED <<plain, crypted, fMasterKey, slack, memVars, job, clash, enc>>

(* Called by the destructor too, also after the read has thrown. *)
ReturnKey(h) ==
  /\ held[h] # Unreserved /\ ~InCall(h)
  /\ IF IsReserved(h) THEN job = Idle /\ setKeyPool' = setKeyPool \cup {held[h].nIndex}
     ELSE UNCHANGED setKeyPool
  /\ held' = [held EXCEPT ![h] = Unreserved]
  /\ UNCHANGED <<diskVars, status, locking, nKeys, leaked, job, history>>

(***************************************************************************)
(* Locking and unlocking.  Lock takes cs_wallet for the stealth addresses  *)
(* and calls LockKeyStore after it has released it.                        *)
(***************************************************************************)
Lock ==
  /\ job = Idle /\ status = "unlocked" /\ ~locking
  /\ locking' = TRUE
  /\ UNCHANGED <<diskVars, setKeyPool, status, nKeys, leaked, job, held, history>>

LockKeyStore ==
  /\ locking
  /\ locking' = FALSE
  /\ status' = "locked"
  /\ UNCHANGED <<diskVars, setKeyPool, nKeys, leaked, job, held, history>>

Unlock ==
  /\ job = Idle /\ status = "locked"
  /\ status' = "unlocked"
  /\ UNCHANGED <<diskVars, setKeyPool, locking, nKeys, leaked, job, held, history>>

(* With a wrong passphrase: locked to try it, and left so. *)
ChangeWalletPassphrase ==
  /\ job = Idle /\ status = "unlocked"
  /\ status' = "locked"
  /\ UNCHANGED <<diskVars, setKeyPool, locking, nKeys, leaked, job, held, history>>

(***************************************************************************)
(* EncryptWallet, one job: the secrets are replaced in one database        *)
(* transaction, then NewKeyPool erases the pool and fills it anew, and     *)
(* CDB::Rewrite replaces the file.                                         *)
(***************************************************************************)
(* Mutant of EncryptWallet: the secrets are written outside the transaction. *)
EncryptWalletNoTxn ==
  /\ job = Idle /\ status = "plain" /\ KeysLeft(KeypoolSize)
  /\ status' = "locked"
  /\ crypted' = crypted \cup plain
  /\ plain' = {}
  /\ job' = [Idle EXCEPT !.op = "encrypt", !.size = KeypoolSize]
  /\ enc' = [old |-> nKeys, reserved |-> HeldKeys, done |-> FALSE]
  /\ UNCHANGED <<fMasterKey, pool, slack, setKeyPool, locking, nKeys, leaked, held, used, clash>>

EncryptWallet ==
  /\ job = Idle /\ status = "plain" /\ KeysLeft(KeypoolSize)
  /\ status' = "locked"
  /\ job' = [Idle EXCEPT !.op = "encrypt", !.size = KeypoolSize]
  /\ enc' = [old |-> nKeys, reserved |-> HeldKeys, done |-> FALSE]
  /\ UNCHANGED <<diskVars, setKeyPool, locking, nKeys, leaked, held, used, clash>>

(* "if (!pwalletdbEncryption->TxnBegin()) return false;" *)
TxnBeginFails ==
  /\ job = Idle /\ status = "plain"
  /\ leaked' = TRUE
  /\ UNCHANGED <<diskVars, setKeyPool, status, locking, nKeys, job, held, history>>

(* TxnCommit, Lock and Unlock; Unlock tries the first master key, which is *)
(* not the wallet's when an earlier call has left one.                     *)
TxnCommit ==
  /\ job.op = "encrypt"
  /\ crypted' = crypted \cup plain
  /\ plain' = {}
  /\ fMasterKey' = TRUE /\ slack' = TRUE
  /\ status' = IF leaked THEN "locked" ELSE "unlocked"
  /\ job' = [job EXCEPT !.op = "erase"]
  /\ UNCHANGED <<pool, setKeyPool, locking, nKeys, leaked, held, history>>

ToErase == {i \in setKeyPool : i > job.i}

(* Mutant of ErasePool: the records stay. *)
ErasePoolNot ==
  /\ job.op = "erase" /\ ToErase # {}
  /\ job' = [job EXCEPT !.i = Min(ToErase)]
  /\ UNCHANGED <<diskVars, memVars, held, history>>

ErasePool ==
  /\ job.op = "erase" /\ ToErase # {}
  /\ pool' = WithoutRecord(Min(ToErase))
  /\ job' = [job EXCEPT !.i = Min(ToErase)]
  /\ UNCHANGED <<plain, crypted, fMasterKey, slack, memVars, held, history>>

(* "if (IsLocked()) return false;" *)
ClearPool ==
  /\ job.op = "erase" /\ ToErase = {}
  /\ setKeyPool' = {}
  /\ job' = IF status = "locked" THEN [job EXCEPT !.op = "rewrite", !.i = 0]
            ELSE [job EXCEPT !.op = "newpool", !.fill = TRUE, !.i = 0]
  /\ UNCHANGED <<diskVars, status, locking, nKeys, leaked, held, history>>

NewKeyPoolDone ==
  /\ job.op = "newpool" /\ job.fresh = NoKey /\ ~WantsKey
  /\ status' = "locked"
  /\ job' = [job EXCEPT !.op = "rewrite", !.fill = FALSE, !.i = 0]
  /\ UNCHANGED <<diskVars, setKeyPool, locking, nKeys, leaked, held, history>>

(* CDB::Rewrite waits until nobody has the file open, which the object of  *)
(* a failed TxnBegin has for ever; it copies the records and removes the   *)
(* old file.                                                               *)
RewriteRemoves ==
  /\ job.op = "rewrite" /\ ~leaked
  /\ job' = [job EXCEPT !.op = "rename"]
  /\ UNCHANGED <<diskVars, memVars, held, history>>

Encrypted == job' = Idle /\ enc' = [enc EXCEPT !.done = TRUE]

(* Bound: the renaming does not fail. *)
RewriteRenames ==
  /\ job.op = "rename"
  /\ slack' = FALSE
  /\ Encrypted
  /\ UNCHANGED <<plain, crypted, fMasterKey, pool, memVars, held, used, clash>>

(* "Rewriting of %s FAILED!": EncryptWallet does not look. *)
RewriteFails ==
  /\ job.op = "rewrite" /\ ~leaked
  /\ Encrypted
  /\ UNCHANGED <<diskVars, memVars, held, used, clash>>

(***************************************************************************)
(* The process ends at any moment and starts again: LoadWallet.  A key in  *)
(* the hands of a CReserveKey is in the pool again.  Bound: not between    *)
(* the removal of wallet.dat and the renaming, after which the records are *)
(* in wallet.dat.rewrite and the next start makes a new wallet.            *)
(***************************************************************************)
LoadWallet ==
  /\ job.op # "rename"
  /\ setKeyPool' = DOMAIN pool
  /\ status' = IF fMasterKey THEN "locked" ELSE "plain"
  /\ locking' = FALSE /\ leaked' = FALSE
  /\ job' = Idle
  /\ held' = [h \in Holder |-> Unreserved]
  /\ clash' = FALSE
  /\ UNCHANGED <<diskVars, nKeys, used, enc>>

Next ==
  \/ \E h \in Holder : GetReservedKey(h) \/ KeepKey(h) \/ ReturnKey(h)
  \/ GetKeyFromPool
  \/ \E n \in RefillSize : keypoolrefill(n)
  \/ GenerateNewKey \/ GenerateNewKeyThrows \/ WritePool \/ TopUpDone
  \/ RefillDone \/ Reserve \/ GetKey
  \/ Lock \/ LockKeyStore \/ Unlock \/ ChangeWalletPassphrase
  \/ EncryptWallet \/ TxnBeginFails \/ TxnCommit \/ ErasePool \/ ClearPool \/ NewKeyPoolDone
  \/ RewriteRemoves \/ RewriteRenames \/ RewriteFails
  \/ LoadWallet

Spec == Init /\ [][Next]_vars
-----------------------------------------------------------------------------
Op == {"idle", "reserve", "getkey", "refill", "encrypt", "erase", "newpool", "rewrite", "rename"}

(* The values the wallet's variables range over. *)
TypeOK ==
  /\ plain \subseteq Key /\ crypted \subseteq Key
  /\ {fMasterKey, slack, leaked} \subseteq BOOLEAN
  /\ DOMAIN pool \subseteq Nat \ {0}
  /\ pool = [i \in DOMAIN pool |-> pool[i]]
  /\ \A i \in DOMAIN pool : pool[i] \in Key
  /\ setKeyPool \subseteq Nat \ {0} /\ IsFiniteSet(setKeyPool)
  /\ status \in {"plain", "locked", "unlocked"}
  /\ locking \in BOOLEAN
  /\ nKeys \in 0 .. MaxKey
  /\ job \in [op : Op, who : Holder \cup {NoKey}, fill : BOOLEAN, size : Nat, i : Nat, fresh : Key \cup {NoKey}]
  /\ held \in [Holder -> [nIndex : Nat \cup {-1}, vchPubKey : Key \cup {NoKey}]]
  /\ used \subseteq Key
  /\ clash \in BOOLEAN
  /\ enc \in [old : Nat, reserved : SUBSET (Key \cup {NoKey}), done : BOOLEAN]

(***************************************************************************)
(* ReserveKeyFromKeyPool and GetAllReserveKeys find what they read: every  *)
(* index of setKeyPool has a record whose key is in the wallet, and it is  *)
(* reserved by nobody.  Not while NewKeyPool is between erasing and        *)
(* clearing, and not once a record was written over a reserved one.        *)
(***************************************************************************)
PoolBacked ==
  ~clash /\ job.op # "erase" =>
    \A i \in setKeyPool : i \in DOMAIN pool /\ pool[i] \in Secrets /\ i \notin Reserved

(***************************************************************************)
(* "Take key pair from key pool so it won't be used again": a key that was *)
(* kept or given out is not in the pool, whatever crashed in between; and, *)
(* unless a record was written over a reserved one, it is not reserved,    *)
(* and two CReserveKeys have the same key only when both were given the    *)
(* default key of an empty pool.                                           *)
(***************************************************************************)
FreshKeys ==
  /\ PoolKeys \cap used = {}
  /\ ~clash =>
       /\ HeldKeys \cap used = {}
       /\ \A g, h \in Holder :
            g # h /\ held[g].vchPubKey = held[h].vchPubKey
              => held[g].vchPubKey \in {NoKey, DefaultKey} /\ ~IsReserved(g) /\ ~IsReserved(h)

(***************************************************************************)
(* No secret is lost: whatever was used, is reserved or is in the pool has *)
(* its secret in a record; the wallet has a master key exactly when its    *)
(* records are encrypted; a crash at any write of EncryptWallet leaves     *)
(* the records all plain or all encrypted.                                 *)
(***************************************************************************)
SecretsOnDisk ==
  /\ used \cup PoolKeys \cup (HeldKeys \ {NoKey}) \subseteq Secrets
  /\ IF fMasterKey THEN plain = {} ELSE crypted = {}
  /\ status = "unlocked" => fMasterKey

(***************************************************************************)
(* "The keypool has been flushed" (encryptwallet): after EncryptWallet has *)
(* returned, also after restarts, a key from before the encryption is in   *)
(* the pool only if it was reserved while the wallet was encrypted.        *)
(***************************************************************************)
FlushedByEncryption ==
  enc.done => \A i \in DOMAIN pool : pool[i] > enc.old \/ pool[i] \in enc.reserved

(***************************************************************************)
(* The record of a reserved key stays until the key is kept: not when      *)
(* TopUpKeyPool numbers from 1 again.                                      *)
(***************************************************************************)
ReservedHasRecord ==
  \A h \in Holder : IsReserved(h) =>
    held[h].nIndex \in DOMAIN pool /\ pool[held[h].nIndex] = held[h].vchPubKey

(***************************************************************************)
(* "Mark old keypool keys as used, and generate all new keys" (NewKeyPool):*)
(* not after a crash within it, and not the keys reserved meanwhile.       *)
(***************************************************************************)
OldKeysNotInPool ==
  fMasterKey /\ job = Idle => \A i \in DOMAIN pool : pool[i] > enc.old

(***************************************************************************)
(* "Need to completely rewrite the wallet file; if we don't, bdb might     *)
(* keep bits of the unencrypted private key" (EncryptWallet): not so after *)
(* a crash before CDB::Rewrite, nor when that fails.                       *)
(***************************************************************************)
NoPlainBits == fMasterKey /\ job = Idle => ~slack
=============================================================================
