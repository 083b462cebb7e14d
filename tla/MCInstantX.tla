----------------------------- MODULE MCInstantX -----------------------------
(* t1 spends both outpoints, t2 and t3 one each. *)
EXTENDS InstantX

MCOutPoint == {"o", "p"}

MCTx == {"t1", "t2", "t3"}

MCvin == [t \in MCTx |-> CASE t = "t1" -> {"o", "p"} [] t = "t2" -> {"o"} [] t = "t3" -> {"p"}]

MCvin2 == [t \in {"t1", "t2"} |-> MCvin[t]]
=============================================================================
