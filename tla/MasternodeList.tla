--------------------------- MODULE MasternodeList ---------------------------
(***************************************************************************)
(* The masternode list: one masternode, its own node and the other nodes'  *)
(* copies of its entry.  CMasternodeMan keeps a vector of CMasternode; the *)
(* entries of different masternodes do not interact, so the module follows *)
(* one of them (one vin) on every node.                                    *)
(*                                                                         *)
(* The masternode announces itself with "dsee" (Register) and then pings   *)
(* with "dseep" every minute (ManageStatus in ThreadCheckMNenginePool).  A *)
(* node refreshes an entry from a ping at most every MinDseep, relays only *)
(* the pings that refreshed it, calls the entry expired after Expire and   *)
(* erases it after Removal.  A node that hears a ping for a masternode it  *)
(* does not list asks the sender for the entry ("dseg").  The masternode   *)
(* may be stopped by RPC, die, or have its collateral spent.               *)
(*                                                                         *)
(* Time passes by the Minute, and every time stamp is kept as its age.     *)
(* The code's 5, 30, 65 and 70 minutes are the constants below.  A link is *)
(* a TCP connection: messages arrive in order, within Delay ticks, unless  *)
(* the connection is lost.                                                 *)
(*                                                                         *)
(* All nodes are honest and their clocks agree: a message is sent by the   *)
(* masternode, or by a node that passes on or reports what it has.  The    *)
(* code needs this: it logs a signature that does not verify and goes on   *)
(* (masternodeman.cpp:682, 842).                                           *)
(***************************************************************************)
EXTENDS Naturals, Sequences, FiniteSets

CONSTANTS
  Node,       \* the nodes of the network
  Own,        \* the node that is the masternode
  Peer,       \* the connections, a symmetric set of pairs of nodes
  MinDsee,    \* MASTERNODE_MIN_DSEE_SECONDS
  MinDseep,   \* MASTERNODE_MIN_DSEEP_SECONDS
  Expire,     \* MASTERNODE_EXPIRATION_SECONDS
  Removal,    \* MASTERNODE_REMOVAL_SECONDS
  Delay,      \* a message is delivered within this many ticks
  Window,     \* a ping with a signature of this age (an hour) is ignored
  SigCap,     \* ages of signatures are counted up to this
  FaultKind,  \* what may go wrong: "stop", "spend", "drop", "die"
  MaxFaults,  \* bound on how often
  None        \* no entry

ASSUME NodeAssumption == Own \in Node /\ IsFiniteSet(Node)
ASSUME PeerAssumption == Peer \subseteq {l \in Node \X Node : l[1] # l[2]}
                         /\ \A l \in Peer : <<l[2], l[1]>> \in Peer
\* The relation between the code's constants that the protocol lives on:
\* 65 > 2 * 30 with minutes to spare for the ping interval and the network.
ASSUME TimesAssumption ==
  /\ {MinDsee, MinDseep, Expire, Removal, Delay, SigCap, MaxFaults} \subseteq Nat
  /\ Window \in 1..SigCap
  /\ 2 * Delay < MinDsee /\ MinDsee <= MinDseep
  /\ 2 * MinDseep + 2 * Delay < Expire /\ Expire < Removal

VARIABLES
  entry,     \* per node: the list's entry for the masternode, or None
  asked,     \* per node: ticks until it may ask for the entry again
  link,      \* per connection: the messages under way, oldest first
  status,    \* CActiveMasternode::status of Own, "DOWN" once it is dead
  managed,   \* ManageStatus has run in this tick
  checked,   \* the nodes whose CheckAndRemove has run in this tick
  spent,     \* the collateral is spent on the best chain or in the pool
  silent,    \* ticks since the masternode last announced or pinged
  disabled,  \* history: a stop ping has set some lastTimeSeen to 0
  faults     \* faults so far

listVars == <<entry, asked, link, status, managed, checked, spent, silent,
              disabled, faults>>

(***************************************************************************)
(* One entry.  age is that of lastTimeSeen, Never stands for lastTimeSeen  *)
(* = 0; sig and dseep are the ages of sigTime and lastDseep.               *)
(***************************************************************************)
Never == Removal + 1
State == {"ENABLED", "EXPIRED", "VIN_SPENT", "REMOVE"}
Entry == [state : State, age : 0..Never, sig : 0..SigCap, dseep : 0..SigCap,
          open : BOOLEAN]

ASSUME NoneAssumption == None \notin Entry

\* Mutant: an entry that is learnt from a list counts as seen now.
NewEntryNow(sig, seen) ==
  [state |-> "ENABLED", age |-> 0, sig |-> sig, dseep |-> SigCap, open |-> TRUE]

\* The constructor with the given signature time, and UpdateLastSeen(seen):
\* an override of 0 means "now".
NewEntry(sig, seen) ==
  [state |-> "ENABLED", age |-> IF seen = Never THEN 0 ELSE seen,
   sig |-> sig, dseep |-> SigCap, open |-> TRUE]

UpdatedWithin(e, t) == e.age < t
IsEnabled(e) == e.open /\ e.state = "ENABLED"
Disable(e) == [e EXCEPT !.age = Never]

\* Mutant: entries expire after an hour, two intervals of accepted pings.
CheckedStateHour(e) ==
  CASE e.state = "VIN_SPENT" -> "VIN_SPENT"
    [] OTHER -> CASE ~UpdatedWithin(e, Removal) -> "REMOVE"
                  [] UpdatedWithin(e, Removal) /\ ~UpdatedWithin(e, 2 * MinDseep)
                       -> "EXPIRED"
                  [] UpdatedWithin(e, 2 * MinDseep)
                       -> IF spent THEN "VIN_SPENT" ELSE "ENABLED"

\* CMasternode::Check when it gets cs_main; without it Check does nothing.
\* Spent is for good: only erasing the entry ends it.
CheckedState(e) ==
  CASE e.state = "VIN_SPENT" -> "VIN_SPENT"
    [] OTHER -> CASE ~UpdatedWithin(e, Removal) -> "REMOVE"
                  [] UpdatedWithin(e, Removal) /\ ~UpdatedWithin(e, Expire)
                       -> "EXPIRED"
                  [] UpdatedWithin(e, Expire)
                       -> IF spent THEN "VIN_SPENT" ELSE "ENABLED"

CheckEntry(e, lock) ==
  IF lock THEN [e EXCEPT !.state = CheckedState(e)] ELSE e

\* Whether a signature is newer than another, by their ages; of two that
\* have reached the cap either may be.
Newer(sig, other) ==
  IF sig = SigCap /\ other = SigCap THEN BOOLEAN ELSE {sig < other}

\* The window on sigTime that every ping must be in.
InWindow(m) == m.sig < Window

(***************************************************************************)
(* Messages.  new is count = -1, which tells a broadcast from an answer to *)
(* dseg; seen is lastUpdated.                                              *)
(***************************************************************************)
Dsee(new, sig, seen) ==
  [kind |-> "dsee", new |-> new, sig |-> sig, seen |-> seen, wait |-> 0]
Ping(sig, stop) == [kind |-> "dseep", sig |-> sig, stop |-> stop, wait |-> 0]
Dseg == [kind |-> "dseg", wait |-> 0]

Alive(n) == n # Own \/ status # "DOWN"

\* RelayMasternodeEntry, RelayMasternodeEntryPing: push to every connection.
Relay(queues, n, m) ==
  [l \in Peer |-> IF l[1] = n /\ Alive(l[2])
                  THEN Append(queues[l], [m EXCEPT !.wait = 0])
                  ELSE queues[l]]

Push(queues, l, m) ==
  IF Alive(l[2]) THEN [queues EXCEPT ![l] = Append(@, m)] ELSE queues

\* The environment's turn, bounded.  A stop, which the masternode may answer
\* by registering again, counts for two.
Fault(kind) ==
  /\ kind \in FaultKind
  /\ faults' = faults + (IF kind = "stop" THEN 2 ELSE 1)
  /\ faults' <= MaxFaults

Running == status \in {"IS_CAPABLE", "REMOTELY_ENABLED"}

ListInit ==
  /\ entry = [n \in Node |-> None]
  /\ asked = [n \in Node |-> 0]
  /\ link = [l \in Peer |-> << >>]
  /\ status = "NOT_PROCESSED"
  /\ managed = FALSE
  /\ checked = {}
  /\ spent = FALSE
  /\ silent = 0
  /\ disabled = FALSE
  /\ faults = 0

(***************************************************************************)
(* The masternode's own node.                                              *)
(***************************************************************************)
\* Register: list ourselves unless listed, and announce to everybody.
Register ==
  /\ entry' = IF entry[Own] = None
              THEN [entry EXCEPT ![Own] = NewEntry(0, 0)] ELSE entry
  /\ link' = Relay(link, Own, Dsee(TRUE, 0, 0))
  /\ silent' = 0

\* The part of ManageStatus for a masternode that does not run: it becomes
\* capable and registers, or (wallet locked, own port unreachable, no
\* suitable coins) it stays as it is and the Dseep at the end is refused.
Activate(capable) ==
  IF capable /\ ~spent
  THEN status' = "IS_CAPABLE" /\ Register
  ELSE status' = "NOT_CAPABLE" /\ UNCHANGED <<entry, link, silent>>

\* Dseep: without an entry of its own the masternode takes itself for
\* unregistered, otherwise it updates (or removes) the entry and sends.
SendDseep(stop, before) ==
  \/ /\ entry[Own] = None
     /\ status' = "NOT_CAPABLE"
     /\ UNCHANGED <<entry, link, silent>>
  \/ /\ entry[Own] # None
     /\ status' = before
     /\ entry' = IF stop THEN [entry EXCEPT ![Own] = None]
                         ELSE [entry EXCEPT ![Own].age = 0]
     /\ link' = Relay(link, Own, Ping(0, stop))
     /\ silent' = IF stop THEN silent ELSE 0

\* Once a minute in ThreadCheckMNenginePool.
ManageStatus(capable) ==
  /\ ~managed /\ status # "DOWN"
  /\ managed' = TRUE
  /\ \/ status \in {"NOT_PROCESSED", "NOT_CAPABLE"} /\ Activate(capable)
     \/ Running /\ SendDseep(FALSE, status)
     \/ status = "STOPPED" /\ UNCHANGED <<entry, link, status, silent>>
  /\ UNCHANGED <<asked, checked, spent, disabled, faults>>

\* RPC "masternode stop": StopMasterNode.
StopMasterNode ==
  /\ Running /\ Fault("stop")
  /\ SendDseep(TRUE, "STOPPED")
  /\ UNCHANGED <<asked, managed, checked, spent, disabled>>

\* RPC "masternode start".
StartMasterNode(capable) ==
  /\ status = "STOPPED"
  /\ Activate(capable)
  /\ UNCHANGED <<asked, managed, checked, spent, disabled, faults>>

(***************************************************************************)
(* ProcessMessage: the first message of a connection.  lock is whether     *)
(* TRY_LOCK(cs_main) succeeds, port what CheckNode finds.                  *)
(***************************************************************************)
First(l, kind) == link[l] # << >> /\ Head(link[l]).kind = kind
Rest(l) == [link EXCEPT ![l] = Tail(@)]

\* dsee for a listed masternode: only a broadcast counts, at most every
\* MinDsee, and only a newer one is taken over and relayed.
DseeKnown(l, lock, port) ==
  LET n == l[2]
      m == Head(link[l])
      e == [entry[n] EXCEPT !.age = 0]
      f == CheckEntry([e EXCEPT !.sig = m.sig, !.open = port], lock)
      taken == m.new /\ ~UpdatedWithin(entry[n], MinDsee)
  IN  /\ First(l, "dsee") /\ entry[n] # None
      /\ \/ ~taken /\ link' = Rest(l) /\ UNCHANGED entry
         \/ /\ taken /\ FALSE \in Newer(m.sig, entry[n].sig)
            /\ entry' = [entry EXCEPT ![n] = e]
            /\ link' = Rest(l)
         \/ /\ taken /\ TRUE \in Newer(m.sig, entry[n].sig)
            /\ entry' = [entry EXCEPT ![n] = f]
            /\ link' = IF IsEnabled(f) THEN Relay(Rest(l), n, m) ELSE Rest(l)
      /\ UNCHANGED <<asked, status>>

\* dsee for a masternode that is not listed: it is added if its collateral
\* is unspent, and if it is ours we have been activated remotely.
DseeNew(l, lock) ==
  LET n == l[2]
      m == Head(link[l])
  IN  /\ First(l, "dsee") /\ entry[n] = None
      /\ \/ (~lock \/ spent) /\ link' = Rest(l) /\ UNCHANGED <<entry, status>>
         \/ /\ lock /\ ~spent
            /\ entry' = [entry EXCEPT ![n] = NewEntry(m.sig, m.seen)]
            /\ link' = IF m.new THEN Relay(Rest(l), n, m) ELSE Rest(l)
            /\ status' = IF n = Own THEN "REMOTELY_ENABLED" ELSE status
      /\ UNCHANGED asked

\* dseep for a listed masternode.
DseepKnown(l, lock) ==
  LET n == l[2]
      m == Head(link[l])
      e == [entry[n] EXCEPT !.dseep = m.sig]
      f == IF m.stop THEN Disable(e)
           ELSE CheckEntry([e EXCEPT !.age = 0], lock)
      newer == Newer(m.sig, entry[n].dseep)
  IN  /\ First(l, "dseep") /\ entry[n] # None
      /\ \/ /\ FALSE \in newer \/ ~InWindow(m)
            /\ link' = Rest(l)
            /\ UNCHANGED <<entry, disabled>>
         \/ /\ TRUE \in newer /\ InWindow(m) /\ UpdatedWithin(e, MinDseep)
            /\ entry' = [entry EXCEPT ![n] = e]
            /\ link' = Rest(l)
            /\ UNCHANGED disabled
         \/ /\ TRUE \in newer /\ InWindow(m) /\ ~UpdatedWithin(e, MinDseep)
            /\ entry' = [entry EXCEPT ![n] = f]
            /\ link' = IF m.stop \/ IsEnabled(f)
                       THEN Relay(Rest(l), n, m) ELSE Rest(l)
            /\ disabled' = (disabled \/ m.stop)
      /\ UNCHANGED <<asked, status>>

\* Mutant: a ping for an unknown masternode is ignored.
DseepUnknownIgnored(l) ==
  /\ First(l, "dseep") /\ entry[l[2]] = None
  /\ link' = Rest(l)
  /\ UNCHANGED <<entry, asked, status>>

\* dseep for a masternode that is not listed: ask the sender, once.
DseepUnknown(l) ==
  LET n == l[2]
  IN  /\ First(l, "dseep") /\ entry[n] = None
      /\ \/ /\ asked[n] > 0 \/ ~InWindow(Head(link[l]))
            /\ link' = Rest(l)
            /\ UNCHANGED asked
         \/ /\ asked[n] = 0 /\ InWindow(Head(link[l]))
            /\ link' = Push(Rest(l), <<n, l[1]>>, Dseg)
            /\ asked' = [asked EXCEPT ![n] = MinDseep]
      /\ UNCHANGED <<entry, status>>

\* dseg for one entry: answered if the entry is enabled.
AnswerDseg(l) ==
  LET n == l[2]
      e == entry[n]
  IN  /\ First(l, "dseg")
      /\ link' = IF e # None /\ IsEnabled(e)
                 THEN Push(Rest(l), <<n, l[1]>>, Dsee(FALSE, e.sig, e.age))
                 ELSE Rest(l)
      /\ UNCHANGED <<entry, asked, status>>

Receive(l, lock, port) ==
  /\ \/ DseeKnown(l, lock, port) /\ UNCHANGED disabled
     \/ DseeNew(l, lock) /\ UNCHANGED disabled
     \/ DseepKnown(l, lock)
     \/ DseepUnknown(l) /\ UNCHANGED disabled
     \/ AnswerDseg(l) /\ UNCHANGED disabled
  /\ UNCHANGED <<managed, checked, spent, silent, faults>>

(***************************************************************************)
(* Checks of the list.                                                     *)
(***************************************************************************)
\* CMasternodeMan::Check and the counts and ranks that call mn.Check().
Check(n, lock) ==
  /\ entry[n] # None
  /\ entry' = [entry EXCEPT ![n] = CheckEntry(@, lock)]
  /\ UNCHANGED <<asked, link, status, managed, checked, spent, silent, disabled,
                 faults>>

\* Mutant: only the entries that are too old are erased.
CheckAndRemoveKeepsSpent(n, lock) ==
  LET e == CheckEntry(entry[n], lock)
  IN  /\ entry[n] # None /\ n \notin checked
      /\ entry' = [entry EXCEPT ![n] = IF e.state = "REMOVE" THEN None ELSE e]
      /\ checked' = checked \cup {n}
      /\ UNCHANGED <<asked, link, status, managed, spent, silent, disabled, faults>>

\* CheckAndRemove, every minute in ThreadCheckMNenginePool.
CheckAndRemove(n, lock) ==
  LET e == CheckEntry(entry[n], lock)
  IN  /\ entry[n] # None /\ n \notin checked
      /\ entry' = [entry EXCEPT ![n] =
                     IF e.state \in {"REMOVE", "VIN_SPENT"} THEN None ELSE e]
      /\ checked' = checked \cup {n}
      /\ UNCHANGED <<asked, link, status, managed, spent, silent, disabled, faults>>

(***************************************************************************)
(* The environment.                                                        *)
(***************************************************************************)
\* The collateral is spent, or a reorganisation brings it back.
Spend ==
  /\ Fault("spend")
  /\ spent' = ~spent
  /\ UNCHANGED <<entry, asked, link, status, managed, checked, silent, disabled>>

\* A connection is lost with everything under way on it, and made again.
Drop(l) ==
  /\ Fault("drop")
  /\ link' = [link EXCEPT ![l] = << >>, ![<<l[2], l[1]>>] = << >>]
  /\ link' # link
  /\ UNCHANGED <<entry, asked, status, managed, checked, spent, silent, disabled>>

\* The masternode's process is gone for good.
Die ==
  /\ status # "DOWN" /\ Fault("die")
  /\ status' = "DOWN"
  /\ entry' = [entry EXCEPT ![Own] = None]
  /\ asked' = [asked EXCEPT ![Own] = 0]
  /\ link' = [l \in Peer |-> IF l[2] = Own THEN << >> ELSE link[l]]
  /\ managed' = FALSE
  /\ UNCHANGED <<checked, spent, silent, disabled>>

Older(age, cap) == IF age < cap THEN age + 1 ELSE age

OlderMessage(m) ==
  CASE m.kind = "dsee"  -> [m EXCEPT !.wait = @ + 1, !.sig = Older(@, SigCap),
                                     !.seen = Older(@, Removal)]
    [] m.kind = "dseep" -> [m EXCEPT !.wait = @ + 1, !.sig = Older(@, SigCap)]
    [] m.kind = "dseg"  -> [m EXCEPT !.wait = @ + 1]

\* A minute passes: everything under way that is due has arrived, and the
\* masternode has had its turn.
Minute ==
  /\ managed \/ status = "DOWN"
  /\ \A l \in Peer : \A i \in DOMAIN link[l] : link[l][i].wait < Delay
  /\ entry' = [n \in Node |->
                IF entry[n] = None THEN None
                ELSE [entry[n] EXCEPT !.age = Older(@, Removal),
                        !.sig = Older(@, SigCap), !.dseep = Older(@, SigCap)]]
  /\ asked' = [n \in Node |-> IF asked[n] > 0 THEN asked[n] - 1 ELSE 0]
  /\ link' = [l \in Peer |-> [i \in DOMAIN link[l] |-> OlderMessage(link[l][i])]]
  /\ managed' = FALSE
  /\ checked' = {}
  /\ silent' = Older(silent, Removal)
  /\ UNCHANGED <<status, spent, disabled, faults>>

ListNext ==
  \/ \E capable \in BOOLEAN : ManageStatus(capable) \/ StartMasterNode(capable)
  \/ StopMasterNode
  \/ \E l \in Peer, lock, port \in BOOLEAN : Receive(l, lock, port)
  \/ \E n \in Node, lock \in BOOLEAN : Check(n, lock) \/ CheckAndRemove(n, lock)
  \/ Spend
  \/ \E l \in Peer : Drop(l)
  \/ Die
  \/ Minute

(***************************************************************************)
(* Fairness.  The threads and the connections go on.  TRY_LOCK(cs_main) is *)
(* not refused for ever: of the checks of a list, and of the announcements *)
(* of a masternode a node does not list, some find the lock free.          *)
(***************************************************************************)
Learn(l) == entry[l[2]] = None /\ First(l, "dsee") /\ Receive(l, TRUE, TRUE)

Fairness ==
  /\ WF_listVars(Minute)
  /\ WF_listVars(\E capable \in BOOLEAN : ManageStatus(capable))
  /\ \A l \in Peer : WF_listVars(\E lock, port \in BOOLEAN : Receive(l, lock, port))
  /\ \A l \in Peer : SF_listVars(Learn(l))
  /\ \A n \in Node : SF_listVars(CheckAndRemove(n, TRUE))

ListSpec == ListInit /\ [][ListNext]_listVars /\ Fairness

-----------------------------------------------------------------------------
Message ==
  [kind : {"dsee"}, new : BOOLEAN, sig : 0..SigCap, seen : 0..Never,
   wait : 0..Delay]
  \cup [kind : {"dseep"}, sig : 0..SigCap, stop : BOOLEAN, wait : 0..Delay]
  \cup [kind : {"dseg"}, wait : 0..Delay]

\* The types.
ListTypeOK ==
  /\ entry \in [Node -> Entry \cup {None}]
  /\ asked \in [Node -> 0..MinDseep]
  /\ link \in [Peer -> Seq(Message)]
  /\ checked \subseteq Node
  /\ status \in {"NOT_PROCESSED", "IS_CAPABLE", "NOT_CAPABLE", "STOPPED",
                 "REMOTELY_ENABLED", "DOWN"}
  /\ {managed, spent, disabled} \subseteq BOOLEAN
  /\ silent \in 0..Removal /\ faults \in 0..MaxFaults

Listed(n) == entry[n] # None /\ IsEnabled(entry[n])

\* A masternode that runs and pings every minute, with no fault, is never
\* dropped or called expired by a node that lists it, although each node
\* takes and relays only one ping in MinDseep.
LiveStays ==
  [][Running /\ faults' = 0 => \A n \in Node : Listed(n) => Listed(n)']_listVars

\* A message that refreshes an entry has come at most once through each node.
Hops == Cardinality(Node)

\* No exchange of old announcements, pings and list answers between other
\* nodes makes a silent masternode look seen: every copy of lastTimeSeen is
\* as old as the silence, up to the time a message is under way.
SeenIsReal ==
  \A n \in Node :
    ~disabled /\ entry[n] # None => entry[n].age + Hops * Delay >= silent

\* A masternode that no longer runs, or whose collateral is spent, is
\* erased from every list and does not come back.
GoneIsRemoved ==
  <>[](~Running \/ spent) => <>[](\A n \in Node : entry[n] = None)

\* A masternode that runs is in the end listed everywhere, whatever was lost
\* before, unless a node once found its port closed.
LiveIsListed ==
  <>[](Running /\ ~spent)
    => <>[](\A n \in Node : Listed(n)
              \/ \E k \in Node : entry[k] # None /\ ~entry[k].open)
=============================================================================
