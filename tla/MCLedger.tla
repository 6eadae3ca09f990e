------------------------------ MODULE MCLedger ------------------------------
(* Ledger on a small instance: frames of three units, two frames to a      *)
(* segment, at most three segments and three frames.                       *)
EXTENDS Ledger, TLC

CONSTANTS r1, r2, c1, c2, b1, k1, k2, k3, p1, bad

Symmetry == Permutations({r1, r2}) \union Permutations({c1, c2})
            \union Permutations({k1, k2, k3})

=============================================================================
