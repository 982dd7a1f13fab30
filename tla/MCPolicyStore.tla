--------------------------- MODULE MCPolicyStore ---------------------------
(* PolicyStore on small instances: two writers and two objects of lengths 1 *)
(* and 2, index objects of length 1.  In the safety run the sequence number *)
(* is the binding limit, in the recovery run the objects and bytes are.     *)
EXTENDS PolicyStore, TLC

CONSTANTS w1, w2, o1, o2

MCSize == (o1 :> 1) @@ (o2 :> 2)

WriterSymmetry == Permutations({w1, w2})
=============================================================================
