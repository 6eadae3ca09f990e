----------------------------- MODULE Lifecycle -----------------------------
(***************************************************************************)
(* The lifecycle of a run in the away-loop ledger: the statuses of         *)
(* .pi/away-runtime/ledger.ts and the steps between them.                  *)
(***************************************************************************)
EXTENDS Naturals, Sequences

StatusOrder == << "reserved", "workspace_observed", "candidate_observed",
                  "commit_observed", "verified", "push_intent",
                  "push_observed", "pr_intent", "pr_observed", "completed" >>

Stops == {"blocked", "aborted"}
Terminal == {"completed"} \union Stops
Statuses == { StatusOrder[i] : i \in 1..Len(StatusOrder) } \union Stops

\* Forward statuses advance by exactly one step.
NextStatus(s, t) ==
    \E i \in 1..(Len(StatusOrder) - 1) :
        StatusOrder[i] = s /\ StatusOrder[i + 1] = t

Advances(s, t) ==
    \/ t \in Stops /\ s \notin Terminal
    \/ NextStatus(s, t)

=============================================================================
