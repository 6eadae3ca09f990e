----------------------------- MODULE MCVerifier -----------------------------
(* Verifier with two invocations and three files, any of which may be       *)
(* broken.                                                                  *)
EXTENDS Verifier

CONSTANTS A, B, f1, f2, f3

=============================================================================
