---------------------------- MODULE MCChainState ----------------------------
(***************************************************************************)
(* A block tree for module ChainState.  cb pays the outputs o1 and o2; x   *)
(* and y both spend o1; z spends an output of x; w spends o2;              *)
(* v, in no block, spends o1 and o2.                                       *)
(*                                                                         *)
(*     g -- p[cb] -- a1[x] -- a2[z]                                        *)
(*               \-- b1[w] -- b2[y] -- b3[z]   (b3 spends a missing output)*)
(***************************************************************************)
EXTENDS ChainState

MCTx == {"cb", "x", "y", "z", "w", "v"}
MCOutPoint == {"o1", "o2", "o3"}
MCvin == [cb |-> {}, x |-> {"o1"}, y |-> {"o1"}, z |-> {"o3"}, w |-> {"o2"},
          v |-> {"o1", "o2"}]
MCtxOf == [o1 |-> "cb", o2 |-> "cb", o3 |-> "x"]

MCBlock == {"g", "p", "a1", "a2", "b1", "b2", "b3"}
MCpprev == [g |-> "g", p |-> "g", a1 |-> "p", a2 |-> "a1",
            b1 |-> "p", b2 |-> "b1", b3 |-> "b2"]
MCnHeight == [g |-> 0, p |-> 1, a1 |-> 2, a2 |-> 3, b1 |-> 2, b2 |-> 3, b3 |-> 4]
\* a2 is a little heavier than b2, so that either branch can overtake the other.
MCnChainTrust == [g |-> 1, p |-> 2, a1 |-> 3, a2 |-> 6,
                  b1 |-> 4, b2 |-> 5, b3 |-> 8]
MCvtx == [g |-> << >>, p |-> <<"cb">>, a1 |-> <<"x">>, a2 |-> <<"z">>,
          b1 |-> <<"w">>, b2 |-> <<"y">>, b3 |-> <<"z">>]
MCLooseTx == {"x", "y", "z", "w", "v"}
=============================================================================
