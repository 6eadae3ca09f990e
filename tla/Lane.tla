-------------------------------- MODULE Lane --------------------------------
(***************************************************************************)
(* One phase of one away run: invoke of production-host.ts launches a      *)
(* writer lane (launcher.ts, rpc.ts), the agent stages files, the host     *)
(* reads its proposal and has the lane extension settle it                 *)
(* (lane-extension.ts, staging.ts, attestation.ts), then checks the receipt*)
(* and stores the evidence of the phase.  The phase is invoked again when  *)
(* an invocation has returned or died; the lane it launched may still be   *)
(* there, and shares the staging directory, the workspace and the receipts *)
(* of the run with the next one.  Timers fire, streams break, file         *)
(* operations fail, lanes and hosts die.                                   *)
(***************************************************************************)
EXTENDS Naturals, FiniteSets

CONSTANTS MaxCalls,   \* bound: invocations of the phase
          Files,      \* paths an agent may stage
          Sentinels,  \* the ones a proposal of this phase must list
          Contents,   \* contents of a file; a hash stands for its content
          Writes,     \* what the agent of an invocation may stage: path, content
          Texts,      \* and what it may answer
          MaxCandidates, \* candidates that phase evidence may list
          None,       \* no file, no answer, nothing stored
          Prose,      \* assistant text that is no proposal
          Partial     \* a phase receipt cut off in the middle

Calls == 1..MaxCalls    \* in the order in which they begin

\* parsePhaseProposal: the candidates of a proposal, each path once.
Proposals == UNION { [paths -> Contents] :
                       paths \in { S \in SUBSET Files : Sentinels \subseteq S /\ S # {} } }

\* The limit of validatePhaseEvidence; parsePhaseProposal has none, and the one
\* of the lane (4096) is more than an answer of 64 KiB can list.
Oversized(candidates) == Cardinality(DOMAIN candidates) > MaxCandidates

ASSUME LaneAssumption ==
    /\ MaxCalls \in Nat /\ MaxCandidates \in Nat /\ Sentinels \subseteq Files
    /\ Writes \in [Calls -> SUBSET (Files \X Contents)]
    /\ Texts \in [Calls -> SUBSET (Proposals \union {Prose})]
    /\ None \notin Contents
    /\ None # Prose /\ None # Partial /\ Prose # Partial
    /\ None \notin Proposals
    /\ \A v \in {None, Partial} : v \notin [by : Calls, candidates : Proposals]

VARIABLES
    staging,   \* what is staged at each path, or None
    work,      \* what the workspace has at each path; None as in the base commit
    wrapped,   \* the wrapper has left a receipt for the profile `writer`
    receipts,  \* extension receipts: the lane that wrote it and its outcome
    evidence,  \* the phase receipt: None, Partial, or who stored what
    call       \* each invocation with its lane

vars == <<staging, work, wrapped, receipts, evidence, call>>

\* pc, before, good and closed are locals of the host, lane, reserved, sent of
\* the lane process, wanted and said what it sent.  past and cut remember that
\* something failed or that a lane met the next invocation, and that the host
\* stopped reading a lane that was alive.
Fresh == [pc |-> "new", lane |-> "none", before |-> {}, reserved |-> {},
          wanted |-> None, sent |-> FALSE, moved |-> {}, said |-> None,
          good |-> FALSE, closed |-> FALSE, past |-> "clean", cut |-> FALSE]

Init ==
    /\ staging = [f \in Files |-> None] /\ work = [f \in Files |-> None]
    /\ wrapped = FALSE /\ receipts = {} /\ evidence = None
    /\ call = [c \in Calls |-> Fresh]

files == <<staging, work, wrapped, receipts, evidence>>
Set(c, r) == call' = [call EXCEPT ![c] = r]

Fault(r) == [r EXCEPT !.past = IF @ = "met" THEN "met" ELSE "faulty"]

\* What ends takes its locals with it.
HostEnd(r, how) ==
    [r EXCEPT !.pc = how, !.before = {}, !.good = FALSE, !.closed = FALSE]
Closing(r) == [r EXCEPT !.pc = "closing", !.said = None]
LaneEnd(r) ==
    [r EXCEPT !.lane = "gone", !.reserved = {}, !.sent = FALSE, !.cut = FALSE]

Alive(c) == call[c].lane \notin {"none", "gone"}
Rest(c) == call[c].pc \in {"over", "dead"} /\ ~Alive(c)

-----------------------------------------------------------------------------
(* The host, up to the settlement                                          *)

\* loadEvidence and observeWorkspace: stored evidence is replayed, a partial
\* receipt or a workspace that drifted from the evidence is refused.
Observe(c) ==
    /\ call[c].pc = "new" /\ \A d \in 1..(c - 1) : call[d].pc \in {"over", "dead"}
    /\ call' =
         IF evidence # None \/ \E f \in Files : work[f] # None
           THEN [call EXCEPT ![c].pc = "over"]
           ELSE [d \in Calls |->
                   IF d = c THEN [Fresh EXCEPT !.pc = "launch",
                                     !.past = IF \E e \in Calls : Alive(e)
                                                THEN "met" ELSE "clean"]
                   ELSE [call[d] EXCEPT !.past = IF Alive(d) THEN "met" ELSE @]]
    /\ UNCHANGED files

\* The receipts there are, then launch and run: the lane is spawned.
Launch(c) ==
    /\ call[c].pc = "launch"
    /\ Set(c, [call[c] EXCEPT !.pc = "turn", !.lane = "turn", !.before = receipts])
    /\ UNCHANGED files

\* Mutant: no timeout.
GiveUpNever(c) == FALSE /\ Set(c, call[c]) /\ UNCHANGED files

\* A timer of timeoutAfter fires, or the host refuses what the lane sends;
\* the finally of run closes stdin.
GiveUp(c) ==
    /\ call[c].pc \in {"turn", "settle"}
    /\ Set(c, Fault(Closing(call[c])))
    /\ UNCHANGED files

\* agent_settled and the answer to the prompt are read, the proposal is
\* parsed, and the settlement command goes out.  When the lane is gone by
\* then, nothing rejects the request: close() has run before.
SendSettle(c) ==
    /\ call[c].pc = "turn" /\ call[c].wanted # None
    /\ Set(c, IF call[c].wanted \in Proposals
                THEN [call[c] EXCEPT !.pc = "settle", !.sent = TRUE]
                ELSE Closing(call[c]))
    /\ UNCHANGED files

\* The dispatcher closes: pending requests are rejected and the launcher takes
\* the lane for exited.  An agent_settled that is queued can still be read.
CloseStream(c) ==
    LET r == Fault([call[c] EXCEPT !.closed = TRUE, !.cut = Alive(c)])
    IN /\ call[c].pc \in {"turn", "settle"} /\ ~call[c].closed
       /\ \/ Set(c, Closing(r))
          \/ /\ call[c].pc = "turn" /\ call[c].wanted # None
             /\ Set(c, r)
       /\ UNCHANGED files

StreamEnds(c) == ~Alive(c) /\ CloseStream(c)

\* An oversized record closes the dispatcher too, and the lane lives on.
StreamBreaks(c) == Alive(c) /\ CloseStream(c)

-----------------------------------------------------------------------------
(* The lane                                                                *)

\* away_stage_write, while the writer token is held.
Stage(c) ==
    /\ call[c].lane = "turn"
    /\ \E w \in Writes[c] :
          /\ staging' = [staging EXCEPT ![w[1]] = w[2]]
          /\ Set(c, [call[c] EXCEPT !.reserved = @ \union {w[1]}])
    /\ UNCHANGED <<work, wrapped, receipts, evidence>>

\* handleResult of the executor wrapper: the receipt names the profile, not
\* the lane process.
Wrap(c) ==
    /\ call[c].lane = "turn" /\ ~wrapped
    /\ wrapped' = TRUE
    /\ UNCHANGED <<staging, work, receipts, evidence, call>>

\* agent_settled: the token is released, the assistant text is complete.
EndTurn(c) ==
    /\ call[c].lane = "turn"
    /\ \E text \in Texts[c] :
          Set(c, [call[c] EXCEPT !.lane = "ready", !.wanted = text])
    /\ UNCHANGED files

\* readWrapperReceipt: any fsynced receipt of the profile, of whichever lane.
WrapperReceipt == wrapped

\* Mutant: any staged file will do, whoever staged it.
SettleableByAnyone(c) ==
    /\ \A f \in DOMAIN call[c].wanted : staging[f] = call[c].wanted[f]
    /\ WrapperReceipt

\* Mutant: the hashes are compared after the move only.
SettleableUnread(c) ==
    /\ call[c].reserved = DOMAIN call[c].wanted
    /\ WrapperReceipt

\* The checks of settle before anything is moved.  They only read, so they are
\* one step: what changes between two reads is seen by the commit's own check.
Settleable(c) ==
    /\ call[c].reserved = DOMAIN call[c].wanted
    /\ WrapperReceipt
    /\ \A f \in DOMAIN call[c].wanted : staging[f] = call[c].wanted[f]

Settle(c) ==
    /\ call[c].lane = "ready" /\ call[c].sent
    /\ Set(c, [call[c] EXCEPT !.lane = IF Settleable(c) THEN "commit" ELSE "failing"])
    /\ UNCHANGED files

Unmoved(c) == DOMAIN call[c].wanted \ call[c].moved

\* The lane after it moved f: on to the next file, to the attestation, or,
\* when the hash is not the one proposed, to the failure path.
Moved(c, f) ==
    [call[c] EXCEPT
       !.moved = @ \union {f},
       !.lane = IF staging[f] # call[c].wanted[f] THEN "failing"
                ELSE IF Unmoved(c) = {f} THEN "attest" ELSE "commit"]

Rename(f) ==
    /\ work' = [work EXCEPT ![f] = staging[f]]
    /\ staging' = [staging EXCEPT ![f] = None]

\* commitStaged, then the hash of the destination.
CommitFile(c) ==
    /\ call[c].lane = "commit"
    /\ \E f \in Unmoved(c) :
          IF staging[f] = None
            THEN Set(c, [call[c] EXCEPT !.lane = "failing"]) /\ UNCHANGED files
            ELSE /\ Set(c, Moved(c, f)) /\ Rename(f)
                 /\ UNCHANGED <<wrapped, receipts, evidence>>

\* Mutant: a file operation that fails is passed over.
CommitFaultIgnored(c) ==
    /\ call[c].lane = "commit"
    /\ Set(c, Fault([call[c] EXCEPT !.lane = "attest"]))
    /\ UNCHANGED files

\* A file operation fails, before the rename or after it (fsync, read back).
CommitFault(c) ==
    LET r == Fault([call[c] EXCEPT !.lane = "failing"])
    IN /\ call[c].lane = "commit"
       /\ \/ Set(c, r) /\ UNCHANGED files
          \/ \E f \in Unmoved(c) :
                /\ staging[f] # None
                /\ Rename(f) /\ Set(c, [r EXCEPT !.moved = @ \union {f}])
                /\ UNCHANGED <<wrapped, receipts, evidence>>

\* The answer to the command; one that nobody awaits any more is dropped.
Answer(r, yes) ==
    [r EXCEPT !.lane = "idle", !.said = IF r.pc = "settle" THEN yes ELSE None]

Receipt(c, outcome) == [lane |-> c, outcome |-> outcome]

\* away_attest: the receipt is there once it is renamed; the fsync of the
\* directory behind it may fail, and then the lane does not count as attested.
Attest(c) ==
    /\ call[c].lane = "attest"
    /\ \/ /\ receipts' = receipts \union {Receipt(c, "completed")}
          /\ Set(c, Answer(call[c], TRUE))
       \/ /\ receipts' \in {receipts, receipts \union {Receipt(c, "completed")}}
          /\ Set(c, Fault([call[c] EXCEPT !.lane = "failing"]))
    /\ UNCHANGED <<staging, work, wrapped, evidence>>

\* The catch of the command handler: a failed outcome is attested when a
\* wrapper receipt allows it, errors in that are swallowed, and it throws;
\* whether pi then answers with a failure is up to pi.
AttestFailure(c) ==
    /\ call[c].lane = "failing"
    /\ receipts' \in {receipts} \union
         (IF WrapperReceipt THEN {receipts \union {Receipt(c, "failed")}} ELSE {})
    /\ \E yes \in BOOLEAN :
          Set(c, Answer(call[c], yes))
    /\ UNCHANGED <<staging, work, wrapped, evidence>>

\* pi shuts down when stdin ends, between two commands.
Exit(c) ==
    /\ call[c].pc \in {"closing", "check", "store", "over", "dead"}
    /\ call[c].lane \in {"turn", "ready", "idle"}
    /\ Set(c, LaneEnd(call[c]))
    /\ UNCHANGED files

Kill(c) ==
    /\ Alive(c)
    /\ Set(c, Fault(LaneEnd(call[c])))
    /\ UNCHANGED files

-----------------------------------------------------------------------------
(* The host, from the answer on                                            *)

\* The reader goes on after an oversized record, but not after the exit.
HearAnswer(c) ==
    /\ call[c].pc = "settle" /\ call[c].said # None
    /\ call[c].closed => call[c].cut
    /\ Set(c, [Closing(call[c]) EXCEPT !.good = call[c].said])
    /\ UNCHANGED files

\* Mutant: run returns without waiting for the process.
ReturnAtOnce(c) ==
    /\ call[c].pc = "closing"
    /\ Set(c, IF call[c].good THEN [call[c] EXCEPT !.pc = "check"]
                ELSE HostEnd(call[c], "over"))
    /\ UNCHANGED files

\* The finally of run waits for the exit, unless the stream has closed.
WaitForExit(c) ==
    /\ call[c].pc = "closing"
    /\ ~Alive(c) \/ call[c].closed
    /\ Set(c, IF call[c].good THEN [call[c] EXCEPT !.pc = "check"]
                ELSE HostEnd(call[c], "over"))
    /\ UNCHANGED files

Added(c) == receipts \ call[c].before

\* Mutant: one new receipt will do, whatever it says.
ReceiptFitsAnyway(c) == Cardinality(Added(c)) = 1

\* Exactly one new receipt, of a completed settlement.
ReceiptFits(c) ==
    /\ Cardinality(Added(c)) = 1
    /\ \A r \in Added(c) : r.outcome = "completed"

\* The receipt, the sentinels, and how many candidates there are.
Acceptable(c) ==
    /\ ReceiptFits(c)
    /\ \A f \in Sentinels : work[f] # None
    /\ ~Oversized(call[c].wanted)

\* writerSettlement, namespaceState and validatePhaseEvidence; by now the files
\* have been moved.
CheckReceipt(c) ==
    /\ call[c].pc = "check"
    /\ Set(c, IF Acceptable(c)
                THEN [call[c] EXCEPT !.pc = "store"]
                ELSE HostEnd(call[c], "over"))
    /\ UNCHANGED files

\* writeDurablePhaseReceipt: exclusive creation, then the content; the process
\* may end between the two.
Store(c) ==
    /\ call[c].pc = "store"
    /\ \/ /\ evidence' = IF evidence = None
                           THEN [by |-> c, candidates |-> call[c].wanted]
                           ELSE evidence
          /\ Set(c, HostEnd(call[c], "over"))
       \/ /\ evidence = None /\ evidence' = Partial
          /\ Set(c, Fault(HostEnd(call[c], "dead")))
    /\ UNCHANGED <<staging, work, wrapped, receipts>>

HostDies(c) ==
    /\ call[c].pc \notin {"new", "over", "dead"}
    /\ Set(c, Fault(HostEnd(call[c], "dead")))
    /\ UNCHANGED files

-----------------------------------------------------------------------------
HostStep(c) ==
    \/ Launch(c) \/ SendSettle(c) \/ GiveUp(c) \/ StreamEnds(c)
    \/ HearAnswer(c) \/ WaitForExit(c) \/ CheckReceipt(c) \/ Store(c)

HandlerStep(c) ==
    Settle(c) \/ CommitFile(c) \/ Attest(c) \/ AttestFailure(c)

AgentStep(c) == Stage(c) \/ Wrap(c) \/ EndTurn(c)

Trouble(c) == StreamBreaks(c) \/ CommitFault(c) \/ Kill(c) \/ HostDies(c)

Done == (\A c \in Calls : Rest(c)) /\ UNCHANGED vars

Next ==
    \/ \E c \in Calls :
          Observe(c) \/ HostStep(c) \/ HandlerStep(c) \/ Exit(c)
             \/ AgentStep(c) \/ Trouble(c)
    \/ Done

\* Nothing is asked of the agent; host and lane go on with what they began,
\* timers fire, and pi shuts down when its input ends.
Fairness ==
    \A c \in Calls : WF_vars(HostStep(c) \/ HandlerStep(c) \/ Exit(c))

Spec == Init /\ [][Next]_vars /\ Fairness

-----------------------------------------------------------------------------
\* Types, and: a lane moves only files that it staged and that were proposed
\* (lane-extension.ts:498-515, 541-542), whatever lies in the shared staging.
TypeOK ==
    /\ staging \in [Files -> Contents \union {None}]
    /\ work \in [Files -> Contents \union {None}]
    /\ wrapped \in BOOLEAN
    /\ receipts \subseteq [lane : Calls, outcome : {"completed", "failed"}]
    /\ evidence \in {None, Partial} \union [by : Calls, candidates : Proposals]
    /\ \A c \in Calls :
          LET r == call[c]
          IN /\ r.pc \in {"new", "launch", "turn", "settle", "closing", "check",
                          "store", "over", "dead"}
             /\ r.lane \in {"none", "turn", "ready", "commit", "attest", "failing",
                            "idle", "gone"}
             /\ r.wanted \in Proposals \union {None, Prose}
             /\ r.before \subseteq receipts
             /\ r.moved # {} =>
                   /\ r.moved \subseteq DOMAIN r.wanted
                   /\ Alive(c) => r.moved \subseteq r.reserved
             /\ r.said \in BOOLEAN \union {None}
             /\ r.past \in {"clean", "faulty", "met"}
             /\ {r.sent, r.good, r.closed, r.cut} \subseteq BOOLEAN

\* Stored evidence lists exactly what the workspace differs in from the base,
\* for as long as the run exists, when the invocation that stored it ran alone:
\* whatever fails, and even if pi reports a failed settlement as a success
\* (production-host.ts:916-918, 934-946).
EvidenceIsTrue ==
    \A c \in Calls :
       (evidence \notin {None, Partial} /\ evidence.by = c /\ call[c].past # "met") =>
          /\ work = [f \in Files |-> IF f \in DOMAIN evidence.candidates
                                       THEN evidence.candidates[f] ELSE None]
          /\ Receipt(c, "completed") \in receipts

\* A receipt with outcome `completed` never lies about the workspace, not even
\* when the rest of the invocation fails (lane-extension.ts:568-583).
ReceiptIsTrue ==
    \A c \in Calls :
       (Receipt(c, "completed") \in receipts /\ call[c].past # "met") =>
          \A f \in DOMAIN call[c].wanted : work[f] = call[c].wanted[f]

\* A proposal the lane refuses leaves the workspace as it was, so that the
\* phase can be tried again: all candidates are validated before the first one
\* is moved (lane-extension.ts:516-574).  What the host alone refuses, because
\* its evidence may not list as many candidates, has been moved and attested as
\* a whole by then, and the phase cannot be tried again (production-host.ts:485).
AllOrNothing ==
    \A c \in Calls :
       (Rest(c) /\ call[c].past = "clean" /\ call[c].moved # {}) =>
          \/ evidence \notin {None, Partial} /\ evidence.by = c
          \/ /\ Oversized(call[c].wanted)
             /\ call[c].moved = DOMAIN call[c].wanted
             /\ Receipt(c, "completed") \in receipts

\* An invocation that returned has no lane behind it that could still write,
\* unless the stream was closed on a living lane (launcher.ts:249-267).
LaneEndsWithCall ==
    \A c \in Calls : call[c].pc = "over" /\ ~call[c].cut => ~Alive(c)

\* Every invocation that begins returns or dies: no lost answer, dead lane or
\* silent agent holds it (production-host.ts:316-324, rpc.ts:246-254,
\* launcher.ts:249-267).  There are MaxCalls of them.
InvokeReturns ==
    <>[](\A c \in Calls : call[c].pc \in {"new", "over", "dead"})

=============================================================================
