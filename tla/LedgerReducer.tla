--------------------------- MODULE LedgerReducer ---------------------------
(***************************************************************************)
(* The per-run reducer of the away-loop ledger (.pi/away-runtime/ledger.ts)*)
(* as constant operators: which record may follow a history of records.    *)
(* A history is the sequence of records accepted so far.  The code keeps   *)
(* three maps (effectKeys, runs, reservations) that commitTransition       *)
(* updates with every record; all three are functions of the history, so   *)
(* the history itself stands for them.                                     *)
(***************************************************************************)
EXTENDS Lifecycle

CONSTANTS Runs,      \* run identifiers (runId)
          Cards,     \* reservation identities: repositoryId+cardId+sourceHash
          Bases,     \* base object ids (baseOid)
          Keys,      \* effect keys (effectKey)
          Payloads   \* the remaining bounded fields (timestamp, oids, ids)

Record == [run : Runs, card : Cards, base : Bases, key : Keys,
           status : Statuses, payload : Payloads]

-----------------------------------------------------------------------------
(* Facts about a history h.                                                *)

Started(h, run) == \E i \in 1..Len(h) : h[i].run = run

\* h[i] is the newest record of its run: it holds the run's current status.
Latest(h, i) == \A j \in 1..Len(h) : j > i => h[j].run # h[i].run

\* The key of the reservations map: the first record of a run claims it.
Reserved(h, card) ==
    \E i \in 1..Len(h) : h[i].status = "reserved" /\ h[i].card = card

KeyUsed(h, key) == \E i \in 1..Len(h) : h[i].key = key

SameIdentity(r, s) == r.card = s.card /\ r.base = s.base

-----------------------------------------------------------------------------
(* checkTransition: may r be the next record after h?                      *)
TransitionAllowed(h, r) ==
    IF Started(h, r.run)
      THEN \A i \in 1..Len(h) :
              /\ h[i].run = r.run => SameIdentity(h[i], r)
              /\ h[i].run = r.run /\ Latest(h, i)
                    => Advances(h[i].status, r.status)
      ELSE r.status = "reserved" /\ ~Reserved(h, r.card)

\* reducerStep and append both refuse a used effect key first.
Accepts(h, r) == ~KeyUsed(h, r.key) /\ TransitionAllowed(h, r)

\* A history every record of which the reducer accepts when it replays it.
Replayable(h) ==
    \A i \in 1..Len(h) : Accepts(SubSeq(h, 1, i - 1), h[i])

-----------------------------------------------------------------------------
(* What an accepted history promises to the code that reads it.            *)

\* No two runs ever hold the same card at the same roadmap source, even when
\* the first of them was blocked or aborted (reservations are never released).
ReservationExclusive(h) ==
    \A i, j \in 1..Len(h) :
        h[i].card = h[j].card => h[i].run = h[j].run

\* An effect key names one record for ever.
KeysUnique(h) ==
    \A i, j \in 1..Len(h) : h[i].key = h[j].key => i = j

\* Identity never drifts inside a run.
IdentityStable(h) ==
    \A i, j \in 1..Len(h) :
        h[i].run = h[j].run => SameIdentity(h[i], h[j])

\* Nothing follows a terminal record of the same run.
TerminalIsLast(h) ==
    \A i \in 1..Len(h) : h[i].status \in Terminal => Latest(h, i)

\* A record past `reserved` has the record of the status before it earlier in
\* the same run: no step of the lifecycle is ever skipped.
NoStepSkipped(h) ==
    \A i \in 1..Len(h) : \A k \in 2..Len(StatusOrder) :
        h[i].status = StatusOrder[k] =>
            \E j \in 1..Len(h) :
                /\ j < i
                /\ h[j].run = h[i].run
                /\ h[j].status = StatusOrder[k - 1]

=============================================================================
