------------------------------- MODULE Verdict -------------------------------
(***************************************************************************)
(* What the host asks of the verification of one commit: a verdict is      *)
(* certified before it is relied on, and only a sound commit is certified. *)
(* A verification may fail for any reason.                                 *)
(***************************************************************************)
CONSTANT Invocations   \* verifications of the commit, one after the other

VARIABLES sound,       \* the commit passes its checks
          disturbed,   \* verifications that something else interfered with
          certified,   \* verifications with a receipt that says completed
          verdict      \* none, running, accepted or refused

vars == <<sound, disturbed, certified, verdict>>

Init ==
    /\ sound \in BOOLEAN
    /\ disturbed = {} /\ certified = {}
    /\ verdict = [r \in Invocations |-> "none"]

Moves(r, from, to) == verdict[r] = from /\ verdict' = [verdict EXCEPT ![r] = to]

Begin(r) == Moves(r, "none", "running") /\ UNCHANGED <<sound, disturbed, certified>>

Disturb(r) ==
    /\ verdict[r] = "running"
    /\ disturbed' = disturbed \union {r}
    /\ UNCHANGED <<sound, certified, verdict>>

Certify(r) ==
    /\ verdict[r] = "running" /\ (sound \/ r \in disturbed)
    /\ certified' = certified \union {r}
    /\ UNCHANGED <<sound, disturbed, verdict>>

Accept(r) ==
    /\ r \in certified /\ Moves(r, "running", "accepted")
    /\ UNCHANGED <<sound, disturbed, certified>>

Refuse(r) == Moves(r, "running", "refused") /\ UNCHANGED <<sound, disturbed, certified>>

Next == \E r \in Invocations :
          Begin(r) \/ Disturb(r) \/ Certify(r) \/ Accept(r) \/ Refuse(r)

Spec == Init /\ [][Next]_vars

=============================================================================
