------------------------------ MODULE MCBrokers ------------------------------
(* Brokers with two callers in one process and one in another.               *)
EXTENDS Brokers, TLC

CONSTANTS a, b, c, P, Q, s1, s2

MCProcessOf == [x \in Callers |-> IF x = c THEN Q ELSE P]

\* The callers of a process are alike, and so are the seconds.
Symmetry == Permutations({a, b}) \union Permutations({s1, s2})

=============================================================================
