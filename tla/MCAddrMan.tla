------------------------------ MODULE MCAddrMan ------------------------------
EXTENDS AddrMan

MCAddr == {"a", "b", "c"}

MCSource == {"s", "t"}

(* Source s fills bucket 0; source t tells of a and b for bucket 1. *)
MCGetNewBucket == [x \in MCAddr |-> [y \in MCSource |-> IF y = "t" /\ x # "c" THEN 1 ELSE 0]]

MCGetTriedBucket == [x \in MCAddr |-> 0]
=============================================================================
