------------------------------- MODULE TxStore -------------------------------
(***************************************************************************)
(* What CTxDB promises its callers: a key-value store in which a           *)
(* transaction is a set of pending changes that its own handle sees, that  *)
(* no other handle sees, and that reach the store all at once or never.    *)
(***************************************************************************)
CONSTANTS Handle, Key, Value, NoValue

VARIABLES
  store,    \* the committed value of every key
  open,     \* handles in a transaction
  pending,  \* pending[h]: h's changes, a value or NoValue for each changed key
  result    \* what the last read returned: handle, key and value

storeVars == <<store, open, pending, result>>

(* The map f overridden by g. *)
Overlay(f, g) == [k \in DOMAIN f \cup DOMAIN g |-> IF k \in DOMAIN g THEN g[k] ELSE f[k]]

Empty == [k \in {} |-> NoValue]

Set(k, v) == [j \in {k} |-> v]

Begin(h) ==
  /\ h \notin open
  /\ open' = open \cup {h}
  /\ pending' = [pending EXCEPT ![h] = Empty]
  /\ UNCHANGED <<store, result>>

(* A change, v = NoValue for a deletion. *)
Change(h, k, v) ==
  /\ IF h \in open
       THEN pending' = [pending EXCEPT ![h] = Overlay(@, Set(k, v))] /\ UNCHANGED store
       ELSE store' = Overlay(store, Set(k, v)) /\ UNCHANGED pending
  /\ UNCHANGED <<open, result>>

End(h) ==
  /\ open' = open \ {h}
  /\ pending' = [pending EXCEPT ![h] = Empty]

Commit(h) == h \in open /\ store' = Overlay(store, pending[h]) /\ End(h) /\ UNCHANGED result

Rollback(h) == h \in open /\ End(h) /\ UNCHANGED <<store, result>>

Read(h, k) ==
  /\ result' = <<h, k, Overlay(store, pending[h])[k]>>
  /\ UNCHANGED <<store, open, pending>>

Crash ==
  /\ open' = {} /\ pending' = [h \in Handle |-> Empty]
  /\ UNCHANGED <<store, result>>

Init ==
  /\ store = [k \in Key |-> NoValue] /\ open = {} /\ pending = [h \in Handle |-> Empty]
  /\ result = << >>

Next ==
  \/ \E h \in Handle : Begin(h) \/ Commit(h) \/ Rollback(h)
  \/ \E h \in Handle, k \in Key : Read(h, k) \/ \E v \in Value \cup {NoValue} : Change(h, k, v)
  \/ Crash

Spec == Init /\ [][Next]_storeVars
==============================================================================
