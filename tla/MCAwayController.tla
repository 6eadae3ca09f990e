-------------------------- MODULE MCAwayController --------------------------
(* AwayController on small instances: one or two processes, two cards.      *)
EXTENDS AwayController

CONSTANTS r1, r2, A, B

NoNamespace == [id \in CardIds |-> "absent"]

Clean == [source |-> 1, head |-> 1, facts |-> 1, ready |-> TRUE,
          namespace |-> NoNamespace, prompts |-> 1]
\* The roadmap was edited; it still offers both cards.
Edited == [Clean EXCEPT !.source = 2]
\* The templates were edited, and a namespace begun for the first card.
Templates == [Clean EXCEPT !.prompts = 2, !.namespace[1] = "partial"]
\* The work for the first card was merged: HEAD moved, its namespace is there.
Merged == [Clean EXCEPT !.head = 2, !.namespace[1] = "established"]
\* The packet was edited and is not ready.
NotReady == [Clean EXCEPT !.facts = 2, !.ready = FALSE]

OnlyClean == {Clean}
Several == {Clean, Edited, Templates, Merged, NotReady}

OneText == <<{1, 2}>>
BothOffer == <<{1, 2}, {1, 2}>>

\* Where a controller may end in the runs below.
Anywhere == Labels \ {"idle"}

=============================================================================
