--------------------------- MODULE MCRefundHistory ---------------------------
(* Three refunds, of which any two make up the captured amount, and two    *)
(* instances; r2 and r3 are alike, and so are the instances.               *)
EXTENDS RefundHistory
CONSTANTS r1, r2, r3, h1, h2
Halves == [r \in {r1, r2, r3} |-> 1]
Symmetry == Permutations({r2, r3}) \cup Permutations({h1, h2})
=============================================================================
