------------------------------ MODULE MCTxRelay ------------------------------
(* p spends the confirmed cb; x and y spend the same output of p.  Both peers  *)
(* have x.                                                                     *)
EXTENDS TxRelay

MCTx == {"cb", "p", "x", "y"}
MCOutPoint == {"o1", "o2"}
MCvin == [cb |-> {}, p |-> {"o1"}, x |-> {"o2"}, y |-> {"o2"}]
MCtxOf == [o1 |-> "cb", o2 |-> "p"]
MCSends == [n1 |-> {"p", "x", "y"}, n2 |-> {"x"}]
=============================================================================
