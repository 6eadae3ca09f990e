------------------------------ MODULE EffectLog ------------------------------
(***************************************************************************)
(* What the ledger promises: an append-only history of effect records, each*)
(* accepted by the reducer after the ones before it.  No files, no crashes.*)
(***************************************************************************)
EXTENDS LedgerReducer

VARIABLE effects    \* the sequence of records the ledger holds

Init == effects = << >>

Accept(r) ==
    /\ Accepts(effects, r)
    /\ effects' = Append(effects, r)

Next == \E r \in Record : Accept(r)

Spec == Init /\ [][Next]_effects

-----------------------------------------------------------------------------
\* The history consists of well-formed records (validateRecord, ledger.ts:462-486).
TypeOK == effects \in Seq(Record)

\* One card at one roadmap source belongs to one run (ledger.ts:387-396:
\* no entry of the reservations map is ever removed).
OneRunPerCard == ReservationExclusive(effects)

\* Every record of a run is preceded by the previous lifecycle status
\* (ledger.ts:405-423): a `push_observed` without its `push_intent`, or a
\* `completed` without a `verified`, cannot be in the history.
LifecycleInOrder == NoStepSkipped(effects) /\ TerminalIsLast(effects)

\* Keys name one record, runs keep their identity (ledger.ts:397-404, 454).
IdentityFixed == KeysUnique(effects) /\ IdentityStable(effects)

=============================================================================
