---------------------------- MODULE AwayController ----------------------------
(***************************************************************************)
(* The one-shot production controller (runProductionAwayController of      *)
(* .pi/away-runtime/production-host.ts) with everything it drives: card    *)
(* selection and reservation under the repository lease, the create, ship  *)
(* and verify phases in the retained workspace, and the reconciliation of  *)
(* the external effects against the ledger (controller.ts).                *)
(*                                                                         *)
(* Controllers are operating-system processes.  Each of them may end at    *)
(* any step named in StopAt, by a crash or by a call that throws; what it  *)
(* knew is gone, its lease is released by the kernel, and what it wrote    *)
(* stays.  The ledger is the history of module EffectLog, which Ledger     *)
(* implements; here an append is one step.                                 *)
(***************************************************************************)
EXTENDS Lifecycle, FiniteSets

CONSTANTS Controllers,  \* processes
          RunIds,       \* run ids a process may draw (randomBytes)
          NumCards,     \* cards of the roadmap, numbered from 1
          Checkouts,    \* states of the operator's repository, see Checkout
          AtFirst,      \* the one it starts in
          Offered,      \* Offered[source]: cards its text makes eligible
          Untracked,    \* git's status.showUntrackedFiles
          MaxTroubles,  \* bound: processes ended early, changes of the
                        \* repository and what people do on GitHub, together
          MaxTogether,  \* bound: invocations where they overlap
          StopAt,       \* program points where a controller may end
          NoRun         \* not a run id

CardIds == 1..NumCards

\* What a process reads of the repository: the hash of ROADMAP.md, HEAD, the
\* hashes of packet and closures and whether they are valid, the namespaces
\* under .pi/artifacts, and the hash of the prompt templates.
Checkout == [source : Nat, head : Nat, facts : Nat, ready : BOOLEAN,
             namespace : [CardIds -> {"absent", "partial", "established"}],
             prompts : Nat]

Sources == { k.source : k \in Checkouts }
Heads   == { k.head : k \in Checkouts }
Prompts == { k.prompts : k \in Checkouts }

ASSUME NoRunAssumption == NoRun \notin RunIds
ASSUME BoundsAssumption ==
    NumCards \in Nat /\ MaxTroubles \in Nat /\ MaxTogether \in Nat
ASSUME CheckoutsAssumption ==
    /\ Checkouts \subseteq Checkout
    /\ AtFirst \in Checkouts
    /\ Offered \in [Sources -> SUBSET CardIds]
ASSUME UntrackedAssumption == Untracked \in {"normal", "all"}

Cards  == CardIds \X Sources       \* reservation identity: card and source
Phases == {"create", "ship", "verify"}
PullNumbers == 0..(MaxTroubles + 1)  \* 0: none

VARIABLES
    together,  \* whether invocations overlap: chosen once
    ledger,    \* records in file order, each with its sequence number
    lease,     \* the controllers holding the flock (at most one)
    repo,      \* the operator's repository, a Checkout
    tree,      \* the retained worktree of a run: missing, partial or ready
    work,      \* files promoted into the retained workspace of a run
    receipts,  \* phase receipts of a run, with the templates they were made of
    ref,       \* runs whose candidate commit is on the dedicated local ref
    remote,    \* the branch of a run on the remote: absent, match or divergent
    pulls,     \* the pull requests of a run in the order they were opened
    meddled,   \* runs whose branch or pull request people touched
    ctl,       \* the state of each process
    troubles   \* what of the two bounds is used up

host == <<tree, work, receipts, ref>>
github == <<remote, pulls, meddled>>
vars == <<together, ledger, lease, repo, host, github, ctl, troubles>>

Keys == ({"reserve"} \X Cards) \union (RunIds \X Statuses)

\* The payload of a record is the number of the pull request it names.
L == INSTANCE LedgerReducer WITH
        Runs <- RunIds, Bases <- Heads, Keys <- Keys, Payloads <- PullNumbers

-----------------------------------------------------------------------------
(* Reading the ledger.                                                     *)

History == [i \in 1..Len(ledger) |-> ledger[i].rec]

\* openLedger and replay throw unless every record is next in sequence and
\* accepted by the reducer: no process appended behind the back of another
\* (ledger.ts:462-486, 718-780).
Readable ==
    /\ \A i \in 1..Len(ledger) : ledger[i].seq = i
    /\ L!Replayable(History)

RunOf(i) == ledger[i].rec.run
Newest(run) ==
    LET own == { i \in 1..Len(ledger) : RunOf(i) = run }
    IN ledger[CHOOSE i \in own : \A j \in own : j <= i].rec
Status(run) == Newest(run).status

Known == { RunOf(i) : i \in 1..Len(ledger) }
HasStatus(run, s) ==
    \E i \in 1..Len(ledger) : RunOf(i) = run /\ ledger[i].rec.status = s

\* collectRunEvidence: the pull request the records of a run name, 0 if none.
NamedPull(run) ==
    IF run \in Known /\ Status(run) \in {"pr_observed", "completed"}
      THEN Newest(run).payload ELSE 0

\* latestUnfinished
Unfinished == { run \in Known : Status(run) \notin Terminal }

-----------------------------------------------------------------------------
(* selectAwayRoadmapCard over records h, the text of source src and the    *)
(* namespaces ns: the first card in order whose text is eligible, whose    *)
(* namespace is not there yet and which is not reserved at this source.  A *)
(* half namespace, or a reservation made at another source, of a card that *)
(* comes before blocks the selection.                                      *)

ReservedAt(h, id, src) ==
    \E i \in 1..Len(h) : h[i].status = "reserved" /\ h[i].card = <<id, src>>
Drifted(h, id, src) == \E s \in Sources \ {src} : ReservedAt(h, id, s)

Considered(src, ns) == { id \in Offered[src] : ns[id] # "established" }

Eligible(h, src, ns) ==
    { id \in Considered(src, ns) : ~ReservedAt(h, id, src) }
First(S) == CHOOSE id \in S : \A other \in S : id <= other

\* Mutant: a reservation made at another roadmap source is not looked at.
SelectionNeverBlocked(h, src, ns) == FALSE

SelectionBlocked(h, src, ns) ==
    \E id \in Considered(src, ns) :
        /\ ns[id] = "partial" \/ Drifted(h, id, src)
        /\ \A earlier \in Eligible(h, src, ns) : earlier >= id

Selectable(h, src, ns) ==
    ~SelectionBlocked(h, src, ns) /\ Eligible(h, src, ns) # {}

-----------------------------------------------------------------------------
Idle == [pc |-> "idle", run |-> NoRun, seen |-> AtFirst, card |-> 0,
         view |-> << >>, ev |-> {}, phase |-> "create", next |-> "reserved",
         prompts |-> AtFirst.prompts, number |-> 0]

NoReceipt == [state |-> "missing", prompts |-> 0]

Init ==
    /\ together \in BOOLEAN
    /\ ledger = << >> /\ lease = {} /\ repo = AtFirst
    /\ tree = [run \in RunIds |-> "missing"]
    /\ work = [run \in RunIds |-> {}]
    /\ receipts = [run \in RunIds |-> [p \in Phases |-> NoReceipt]]
    /\ ref = {} /\ remote = [run \in RunIds |-> "absent"]
    /\ pulls = [run \in RunIds |-> << >>] /\ meddled = {}
    /\ ctl = [c \in Controllers |-> Idle]
    /\ troubles = 0

At(c, label) == ctl[c].pc = label
Goto(c, label) == ctl' = [ctl EXCEPT ![c].pc = label]

\* A thrown error ends the invocation with kind `blocked`.
End(c) == ctl' = [ctl EXCEPT ![c] = Idle]

Trouble == troubles < MaxTroubles /\ troubles' = troubles + 1

\* Where invocations do not overlap it does not matter which process they are;
\* where they do, they are what is counted.
MayStart(c) ==
    IF together THEN troubles < MaxTogether /\ troubles' = troubles + 1
    ELSE c = (CHOOSE d \in Controllers : TRUE) /\ UNCHANGED troubles

-----------------------------------------------------------------------------
(* defaultSelect and reserveNext.                                          *)

\* Mutant: an unfinished run does not keep a new one from being reserved.
MayReserveAnyway == Selectable(History, repo.source, repo.namespace)

MayReserve ==
    Unfinished = {} /\ Selectable(History, repo.source, repo.namespace)

\* randomBytes: a run id nobody drew before, and it does not matter which.
Fresh == RunIds \ (Known \union { ctl[d].run : d \in Controllers })

\* The identity of an unfinished run against the repository as it is now.
StillAtHome(run) ==
    /\ Newest(run).card[2] = repo.source
    /\ Newest(run).base = repo.head

\* Packet, closures and git facts are valid; the records are read under the
\* lease, which is free again afterwards.
SelectRun(c) ==
    /\ At(c, "idle") /\ MayStart(c)
    /\ repo.ready
    /\ lease = {}
    /\ Readable
    /\ \/ /\ Cardinality(Unfinished) = 1
          /\ \E run \in Unfinished :
                /\ StillAtHome(run)
                /\ ctl' = [ctl EXCEPT ![c].pc = "open", ![c].run = run]
       \/ /\ MayReserve
          /\ Fresh # {}
          /\ ctl' = [ctl EXCEPT ![c].pc = "baseline",
                                ![c].run = CHOOSE run \in Fresh : TRUE]
    /\ UNCHANGED <<together, ledger, lease, repo, host, github>>

\* reserveNext reads packet, closures, HEAD and roadmap before the lease.
ReadBaseline(c) ==
    /\ At(c, "baseline")
    /\ IF repo.ready
         THEN ctl' = [ctl EXCEPT ![c].pc = "lease", ![c].seen = repo]
         ELSE End(c)
    /\ UNCHANGED <<together, ledger, lease, repo, host, github, troubles>>

\* Mutant: the lock is shared instead of exclusive.
LeaseShared == TRUE

LeaseFree == lease = {}

\* flock --nonblock: a lease held by another process ends the invocation.
AcquireLease(c) ==
    /\ At(c, "lease")
    /\ IF LeaseFree
         THEN lease' = lease \union {c} /\ Goto(c, "replay")
         ELSE End(c) /\ UNCHANGED lease
    /\ UNCHANGED <<together, ledger, repo, host, github, troubles>>

Choice(c) ==
    First(Eligible(ctl[c].view, ctl[c].seen.source, repo.namespace))

\* openLedger, replay and the first selection under the lease: the text read
\* before, the namespaces there are now.
ReplayLedger(c) ==
    /\ At(c, "replay")
    /\ IF Readable /\ Selectable(History, ctl[c].seen.source, repo.namespace)
         THEN /\ ctl' = [ctl EXCEPT ![c].pc = "reserve", ![c].view = History,
                 ![c].card = First(Eligible(History, ctl[c].seen.source,
                                            repo.namespace))]
              /\ UNCHANGED lease
         ELSE End(c) /\ lease' = lease \ {c}
    /\ UNCHANGED <<together, ledger, repo, host, github, troubles>>

\* nextSequence of the ledger handle a process has open.
NextSequence(c) == Len(ctl[c].view) + 1

ReservationRecord(c) ==
    LET card == <<ctl[c].card, ctl[c].seen.source>>
    IN [run |-> ctl[c].run, card |-> card, base |-> ctl[c].seen.head,
        key |-> <<"reserve", card>>, status |-> "reserved", payload |-> 0]

\* Mutant: HEAD is not compared with the baseline.
UndriftedButHead(c) ==
    /\ repo.ready
    /\ repo.source = ctl[c].seen.source /\ repo.facts = ctl[c].seen.facts

\* Revalidate immediately before append. Any drift blocks.
Undrifted(c) ==
    /\ repo.ready
    /\ repo.source = ctl[c].seen.source
    /\ repo.head = ctl[c].seen.head
    /\ repo.facts = ctl[c].seen.facts

\* The second selection, with the namespaces of this moment.
Reselected(c) ==
    /\ Selectable(ctl[c].view, ctl[c].seen.source, repo.namespace)
    /\ Choice(c) = ctl[c].card

\* Revalidate, select again, append.  To the code a change between the last read
\* and the append looks like one right after the append: both are one here.
Reserve(c) ==
    /\ At(c, "reserve")
    /\ IF Undrifted(c) /\ Reselected(c) /\ L!Accepts(ctl[c].view, ReservationRecord(c))
         THEN /\ ledger' = Append(ledger,
                    [rec |-> ReservationRecord(c), seq |-> NextSequence(c)])
              /\ Goto(c, "confirm")
              /\ UNCHANGED lease
         ELSE End(c) /\ lease' = lease \ {c} /\ UNCHANGED ledger
    /\ UNCHANGED <<together, repo, host, github, troubles>>

\* The reservation is durable even when this last check throws.
ConfirmReservation(c) ==
    /\ At(c, "confirm")
    /\ lease' = lease \ {c}
    /\ IF repo.source = ctl[c].seen.source THEN Goto(c, "open") ELSE End(c)
    /\ UNCHANGED <<together, ledger, repo, host, github, troubles>>

\* openLedger of the selection: no lease is held from here on.
OpenLedger(c) ==
    /\ At(c, "open")
    /\ IF Readable
         THEN ctl' = [ctl EXCEPT ![c] =
                [Idle EXCEPT !.pc = "load", !.run = ctl[c].run, !.view = History]]
         ELSE End(c)
    /\ UNCHANGED <<together, ledger, lease, repo, host, github, troubles>>

-----------------------------------------------------------------------------
(* createProductionHost and driveReservedLifecycle: the phases.  Every     *)
(* phase promotes its files into the workspace one rename at a time and    *)
(* then stores its receipt; a restart trusts the receipts and compares the *)
(* workspace with them.                                                    *)

\* Mutant: settling leaves a staging file in the workspace.
FilesAndStaging(p) == CASE p = "create" -> {"plan", "todo"}
                        [] p = "ship"   -> {"code", "code.staged"}
                        [] p = "verify" -> {}

FilesOf(p) == CASE p = "create" -> {"plan", "todo"}
                [] p = "ship"   -> {"code"}
                [] p = "verify" -> {}
Candidates(ev) == UNION { FilesOf(p) : p \in ev }

\* What `git status --porcelain=v1 -z` lists: a new directory is one entry
\* ending in a slash, unless the configuration asks for all files.
Listed(run) ==
    IF Untracked = "normal" /\ work[run] \intersect {"plan", "todo"} # {}
      THEN (work[run] \ {"plan", "todo"}) \union {"namespace/"}
      ELSE work[run]

\* observeRetainedWorkspace, or ensureRetainedWorkspace when no evidence.
WorkspaceAgrees(run, ev) == tree[run] = "ready" /\ Listed(run) = Candidates(ev)

Stored(run) == { p \in Phases : receipts[run][p].state = "stored" }

\* validatePhaseEvidence: the digest of the prompt is made of the template
\* that is on disk now.
DigestsAgree(run, ev) == \A p \in ev : receipts[run][p].prompts = repo.prompts

\* Mutant: stored receipts are never taken up again.
EvidenceLoadsFresh(run) == Stored(run) = {}

\* loadEvidence: whole receipts without a gap, made of the present templates,
\* and a workspace that is what they list; then driveReservedLifecycle refuses
\* half a namespace.
EvidenceLoads(run) ==
    /\ \A p \in Phases : receipts[run][p].state # "partial"
    /\ Stored(run) \in {{}, {"create"}, {"create", "ship"}, Phases}
    /\ DigestsAgree(run, Stored(run))
    /\ Stored(run) # {} => WorkspaceAgrees(run, Stored(run))
    /\ "plan" \in work[run] <=> "todo" \in work[run]

LoadEvidence(c) ==
    /\ At(c, "load")
    /\ IF EvidenceLoads(ctl[c].run)
         THEN ctl' = [ctl EXCEPT ![c].pc = "phase",
                                 ![c].ev = Stored(ctl[c].run)]
         ELSE End(c)
    /\ UNCHANGED <<together, ledger, lease, repo, host, github, troubles>>

\* ensureRetainedWorkspace for a run without a worktree: git worktree add
\* makes the directory and checks the base out into it.
AddWorktree(c) ==
    LET run == ctl[c].run
    IN /\ At(c, "phase") /\ ctl[c].ev = {}
       /\ tree[run] = "missing"
       /\ tree' = [tree EXCEPT ![run] = "partial"]
       /\ Goto(c, "checkout")
       /\ UNCHANGED <<together, ledger, lease, repo, work, receipts, ref, github, troubles>>

CheckOut(c) ==
    /\ At(c, "checkout")
    /\ tree' = [tree EXCEPT ![ctl[c].run] = "ready"]
    /\ Goto(c, "phase")
    /\ UNCHANGED <<together, ledger, lease, repo, work, receipts, ref, github, troubles>>

\* After create comes ship, then the candidate commit, then verify, then the
\* external effects.
After(p) == CASE p = "create" -> <<"phase", "ship">>
              [] p = "ship"   -> <<"candidate", "verify">>
              [] p = "verify" -> <<"effects", "verify">>

\* invoke: replay a stored phase, or observe the workspace, read the template
\* and run the lane (for verify, the exact-OID verifier).
InvokePhase(c) ==
    LET p == ctl[c].phase
    IN /\ At(c, "phase") /\ tree[ctl[c].run] # "missing"
       /\ IF ~WorkspaceAgrees(ctl[c].run, ctl[c].ev)
            THEN End(c)
            ELSE IF p \in ctl[c].ev
              THEN ctl' = [ctl EXCEPT ![c].pc = After(p)[1], ![c].phase = After(p)[2]]
              ELSE ctl' = [ctl EXCEPT
                     ![c].pc = IF p = "verify" THEN "receipt" ELSE "settle",
                     ![c].prompts = repo.prompts]
       /\ UNCHANGED <<together, ledger, lease, repo, host, github, troubles>>

\* settle of the lane extension: commitStaged renames one candidate; their order
\* does not matter.
SettleFile(c) ==
    LET run == ctl[c].run
        missing == FilesOf(ctl[c].phase) \ work[run]
    IN /\ At(c, "settle")
       /\ IF missing = {}
            THEN Goto(c, "receipt") /\ UNCHANGED work
            ELSE /\ work' = [work EXCEPT ![run] = @ \union {CHOOSE f \in missing : TRUE}]
                 /\ UNCHANGED ctl
       /\ UNCHANGED <<together, ledger, lease, repo, tree, receipts, ref, github, troubles>>

\* writeDurablePhaseReceipt: O_EXCL create and write ...
CreateReceipt(c) ==
    LET run == ctl[c].run  p == ctl[c].phase
    IN /\ At(c, "receipt")
       /\ IF receipts[run][p].state = "missing"
            THEN /\ receipts' = [receipts EXCEPT ![run][p].state = "partial"]
                 /\ Goto(c, "flush")
            ELSE End(c) /\ UNCHANGED receipts
       /\ UNCHANGED <<together, ledger, lease, repo, tree, work, ref, github, troubles>>

\* ... then all bytes are there and invoke returns.
FlushReceipt(c) ==
    LET run == ctl[c].run  p == ctl[c].phase
    IN /\ At(c, "flush")
       /\ receipts' = [receipts EXCEPT ![run][p] =
              [state |-> "stored", prompts |-> ctl[c].prompts]]
       /\ ctl' = [ctl EXCEPT ![c].pc = After(p)[1], ![c].phase = After(p)[2],
                             ![c].ev = @ \union {p}]
       /\ UNCHANGED <<together, ledger, lease, repo, tree, work, ref, github, troubles>>

\* createOrObserveCandidate: the dedicated local ref, created once.
CommitCandidate(c) ==
    /\ At(c, "candidate")
    /\ IF WorkspaceAgrees(ctl[c].run, ctl[c].ev)
         THEN ref' = ref \union {ctl[c].run} /\ Goto(c, "phase")
         ELSE End(c) /\ UNCHANGED ref
    /\ UNCHANGED <<together, ledger, lease, repo, tree, work, receipts, github, troubles>>

-----------------------------------------------------------------------------
(* createProductionEffectHost and reconcileAwayRun: replay, observe,       *)
(* mutate when absent, append.                                             *)

\* storedCandidates: the create and ship receipts are read again.
OpenEffects(c) ==
    /\ At(c, "effects")
    /\ IF DigestsAgree(ctl[c].run, {"create", "ship"})
         THEN Goto(c, "decide") ELSE End(c)
    /\ UNCHANGED <<together, ledger, lease, repo, host, github, troubles>>

Successor(s) == CHOOSE t \in Statuses : NextStatus(s, t)

\* observeDraftPullRequest: the open one, 0 if there is none; it throws when
\* that one is no draft any more or its branch is not at the candidate.
OpenPull(run) ==
    IF \E n \in DOMAIN pulls[run] : pulls[run][n] # "closed"
      THEN CHOOSE n \in DOMAIN pulls[run] : pulls[run][n] # "closed"
      ELSE 0
PullUnexpected(run) ==
    /\ OpenPull(run) # 0
    /\ pulls[run][OpenPull(run)] = "ready" \/ remote[run] # "match"

\* ensureVerification: the stored verify evidence is read again.
Verified(run) ==
    receipts[run]["verify"].state = "stored" /\ DigestsAgree(run, {"verify"})

\* Mutant: the ledger advances without looking at the host.
ObservedBlindly(run, s) == TRUE

\* Effects the host observes before the record after status s may be written.
Observed(run, s) ==
    CASE s = "reserved" -> WorkspaceAgrees(run, {"create", "ship"})
      [] s \in {"workspace_observed", "candidate_observed"} ->
            WorkspaceAgrees(run, {"create", "ship"}) /\ run \in ref
      [] s = "commit_observed" -> Verified(run)
      [] s = "push_intent"     -> remote[run] = "match"
      [] s = "pr_intent"       -> OpenPull(run) # 0 /\ ~PullUnexpected(run)
      [] s = "pr_observed"     -> /\ Verified(run) /\ remote[run] = "match"
                                  /\ OpenPull(run) = NamedPull(run)
                                  /\ ~PullUnexpected(run)
      [] OTHER -> TRUE

\* Mutant: a pull request that is gone is created again before `completed`.
MutationAgain(run, s) == CASE s = "push_intent" -> "publish"
                           [] s \in {"pr_intent", "pr_observed"} -> "create_pr"
                           [] OTHER -> "stop"

\* What is done about an absent effect; "stop": reconciliation blocks.
Mutation(run, s) ==
    CASE s = "push_intent" /\ remote[run] = "absent" -> "publish"
      [] s = "pr_intent" /\ ~PullUnexpected(run) -> "create_pr"
      [] OTHER -> "stop"

\* Mutant: the effect is made first and its intent recorded afterwards.
DecideEffectFirst(c) ==
    /\ At(c, "decide")
    /\ Goto(c, IF remote[ctl[c].run] = "absent" THEN "publish" ELSE "create_pr")
    /\ UNCHANGED <<together, ledger, lease, repo, host, github, troubles>>

Decide(c) ==
    LET run == ctl[c].run
        s == Status(run)
    IN /\ At(c, "decide")
       /\ IF ~Readable \/ s \in Terminal
            THEN End(c)
            ELSE IF Observed(run, s)
              THEN ctl' = [ctl EXCEPT ![c].pc = "append", ![c].next = Successor(s),
                      ![c].number =
                        IF s \in {"pr_intent", "pr_observed"} THEN OpenPull(run) ELSE 0]
              ELSE IF Mutation(run, s) = "stop" THEN End(c)
                   ELSE Goto(c, Mutation(run, s))
       /\ UNCHANGED <<together, ledger, lease, repo, host, github, troubles>>

\* publish: observe, push when absent; a divergent branch throws.
Publish(c) ==
    LET run == ctl[c].run
    IN /\ At(c, "publish")
       /\ IF remote[run] = "divergent"
            THEN End(c) /\ UNCHANGED remote
            ELSE /\ remote' = [remote EXCEPT ![run] = "match"]
                 /\ Goto(c, "confirm_push")
       /\ UNCHANGED <<together, ledger, lease, repo, host, pulls, meddled, troubles>>

\* Only a match lets the record follow.
ConfirmPush(c) ==
    /\ At(c, "confirm_push")
    /\ IF remote[ctl[c].run] = "match"
         THEN ctl' = [ctl EXCEPT ![c].pc = "append", ![c].next = "push_observed"]
         ELSE End(c)
    /\ UNCHANGED <<together, ledger, lease, repo, host, github, troubles>>

\* createOrGetDraftPullRequest: list, POST only when absent, list again. A
\* pull request needs its branch.
CreatePull(c) ==
    LET run == ctl[c].run
    IN /\ At(c, "create_pr")
       /\ IF PullUnexpected(run) \/ remote[run] # "match"
            THEN End(c) /\ UNCHANGED pulls
            ELSE /\ pulls' = IF OpenPull(run) # 0 THEN pulls
                             ELSE [pulls EXCEPT ![run] = Append(@, "draft")]
                 /\ ctl' = [ctl EXCEPT ![c].pc = "append",
                       ![c].next = "pr_observed",
                       ![c].number = IF OpenPull(run) # 0 THEN OpenPull(run)
                                     ELSE Len(pulls[run]) + 1]
       /\ UNCHANGED <<together, ledger, lease, repo, host, remote, meddled, troubles>>

\* append checks the reducer state this process loaded or built, not the disk;
\* the identity is that of the run's reservation, as in all its records.
AppendRecord(c) ==
    LET view == ctl[c].view
        mine == view[CHOOSE i \in 1..Len(view) : view[i].run = ctl[c].run]
        record == [run |-> ctl[c].run, card |-> mine.card, base |-> mine.base,
                   key |-> <<ctl[c].run, ctl[c].next>>,
                   status |-> ctl[c].next, payload |-> ctl[c].number]
    IN /\ At(c, "append")
       /\ IF L!Accepts(ctl[c].view, record)
            THEN /\ ledger' = Append(ledger,
                       [rec |-> record, seq |-> NextSequence(c)])
                 /\ ctl' = [ctl EXCEPT ![c].pc = "decide", ![c].number = 0,
                                       ![c].view = Append(@, record)]
            ELSE End(c) /\ UNCHANGED ledger
       /\ UNCHANGED <<together, lease, repo, host, github, troubles>>

-----------------------------------------------------------------------------
(* The environment.  Where invocations overlap it leaves them alone.       *)

\* The process ends between two steps, by a crash or by a call that throws;
\* the kernel frees its lease.
Stop(c) ==
    /\ ~together
    /\ ctl[c].pc \in StopAt
    /\ Trouble
    /\ lease' = lease \ {c}
    /\ End(c)
    /\ UNCHANGED <<together, ledger, repo, host, github>>

\* The operator edits a file, commits, or pulls what was merged.
ChangeRepository ==
    /\ ~together
    /\ Trouble
    /\ repo' \in Checkouts \ {repo}
    /\ UNCHANGED <<together, ledger, lease, host, github, ctl>>

\* People close or merge a pull request (and GitHub may delete its branch),
\* mark it ready for review, delete the branch or push to it.
Meddle(run) ==
    /\ ~together
    /\ Trouble
    /\ remote[run] # "absent"
    /\ \/ /\ \E n \in DOMAIN pulls[run] : \E to \in {"closed", "ready"} :
                /\ pulls[run][n] = "draft"
                /\ pulls' = [pulls EXCEPT ![run][n] = to]
          /\ UNCHANGED remote
       \/ /\ remote' = [remote EXCEPT ![run] = "absent"]
          /\ pulls' = [pulls EXCEPT ![run] = [n \in DOMAIN @ |-> "closed"]]
       \/ /\ remote' = [remote EXCEPT ![run] = "divergent"]
          /\ UNCHANGED pulls
    /\ meddled' = meddled \union {run}
    /\ UNCHANGED <<together, ledger, lease, repo, host, ctl>>

Step(c) ==
    \/ SelectRun(c) \/ ReadBaseline(c) \/ AcquireLease(c)
    \/ ReplayLedger(c) \/ Reserve(c)
    \/ ConfirmReservation(c) \/ OpenLedger(c) \/ LoadEvidence(c)
    \/ AddWorktree(c) \/ CheckOut(c)
    \/ InvokePhase(c) \/ SettleFile(c) \/ CreateReceipt(c) \/ FlushReceipt(c)
    \/ CommitCandidate(c) \/ OpenEffects(c) \/ Decide(c) \/ Publish(c)
    \/ ConfirmPush(c) \/ CreatePull(c) \/ AppendRecord(c)

\* Nothing to do, or nothing this code will do any more.
Quiet == (\A c \in Controllers : At(c, "idle")) /\ UNCHANGED vars

Next ==
    \/ \E c \in Controllers : Step(c) \/ Stop(c)
    \/ ChangeRepository
    \/ \E run \in RunIds : Meddle(run)
    \/ Quiet

Spec == Init /\ [][Next]_vars

\* The operator invokes the command again, and a running process goes on.
FairSpec == Spec /\ WF_vars(~together /\ \E c \in Controllers : Step(c))

-----------------------------------------------------------------------------
(* Properties.                                                             *)

Labels == {"idle", "baseline", "lease", "replay", "reserve", "confirm", "open",
           "load", "checkout", "phase", "settle", "receipt", "flush", "candidate",
           "effects", "decide", "publish", "confirm_push", "create_pr", "append"}

\* Types of the ledger, of the host and of the processes; no staging file is
\* left in a retained workspace (staging.ts, production-host.ts:690-723).
TypeOK ==
    /\ together \in BOOLEAN
    /\ ledger \in Seq([rec : L!Record, seq : Nat \ {0}])
    /\ lease \subseteq Controllers
    /\ repo \in Checkouts
    /\ tree \in [RunIds -> {"missing", "partial", "ready"}]
    /\ work \in [RunIds -> SUBSET {"plan", "todo", "code"}]
    /\ receipts \in [RunIds -> [Phases ->
          [state : {"missing", "partial", "stored"}, prompts : Prompts \union {0}]]]
    /\ ref \subseteq RunIds /\ meddled \subseteq RunIds
    /\ remote \in [RunIds -> {"absent", "match", "divergent"}]
    /\ pulls \in [RunIds -> Seq({"draft", "ready", "closed"})]
    /\ ctl \in [Controllers ->
          [pc : Labels, run : RunIds \union {NoRun}, seen : Checkouts,
           card : CardIds \union {0}, view : Seq(L!Record), ev : SUBSET Phases,
           phase : Phases, next : Statuses, prompts : Prompts,
           number : PullNumbers]]
    /\ troubles \in 0..(MaxTroubles + MaxTogether)

\* Whatever the earlier invocations ended at, a later one can use the ledger:
\* openLedger accepts it (ledger.ts:462-486, 718-780) and defaultSelect does not
\* meet two unfinished runs, which it would refuse for ever
\* (production-host.ts:1025-1049); unless invocations overlap.
LedgerUsable == together \/ (Readable /\ Cardinality(Unfinished) <= 1)

\* A card gets one run, and so one branch and one pull request, even when the
\* roadmap is edited between two invocations (controller.ts:458-474) or two of
\* them overlap (883-983).
OneRunPerCardId ==
    \A i, j \in 1..Len(ledger) :
        ledger[i].rec.card[1] = ledger[j].rec.card[1] => RunOf(i) = RunOf(j)

\* A reservation is what a fresh selection would reserve at that moment: nothing
\* read before the lease (packet, closures, HEAD, roadmap) and no namespace has
\* changed when it is appended (controller.ts:920-983).
FreshReservation ==
    \A i \in (Len(ledger) + 1)..Len(ledger') :
        LET rec == ledger'[i].rec
        IN rec.status = "reserved" =>
              /\ repo.ready
              /\ rec.card[2] = repo.source /\ rec.base = repo.head
              /\ rec.card[1] \in Offered[repo.source]
              /\ \A id \in Offered[repo.source] :
                    id <= rec.card[1] /\ repo.namespace[id] # "established" =>
                      /\ repo.namespace[id] = "absent"
                      /\ id < rec.card[1] => ReservedAt(History, id, repo.source)

\* Every step makes such reservations only (controller.ts:920-983).
ReservesWhatIsThere == [][FreshReservation]_vars

\* What the outside world holds was announced in the ledger before, and only a
\* commit whose verification is stored leaves the host (controller.ts:1485-1540).
EffectsFollowIntents ==
    \A run \in RunIds :
        /\ remote[run] # "absent" =>
              /\ HasStatus(run, "push_intent")
              /\ run \in ref /\ receipts[run]["verify"].state = "stored"
        /\ pulls[run] # << >> =>
              /\ HasStatus(run, "pr_intent")
              /\ run \in meddled \/ remote[run] = "match"

\* Once a pull request is on record no other one is opened for the run, also
\* when people close it or a process ends in between (controller.ts:1518-1560).
NoSecondPull ==
    \A i \in 1..Len(ledger) :
        ledger[i].rec.payload # 0 => ledger[i].rec.payload = Len(pulls[RunOf(i)])

\* `completed` is in the ledger only of a run that got its branch and its pull
\* request, the one on record, and both are there unless people took them away
\* (controller.ts:1541-1574).
CompletedHolds ==
    \A i \in 1..Len(ledger) : ledger[i].rec.status = "completed" =>
        LET run == RunOf(i)  number == ledger[i].rec.payload
        IN /\ number \in DOMAIN pulls[run]
           /\ run \in meddled \/ (remote[run] = "match" /\ OpenPull(run) = number)

\* Nothing keeps defaultSelect and loadEvidence from taking the run up again:
\* roadmap, HEAD and templates are those it was begun with.
Resumable(run) ==
    /\ run \in Known
    /\ repo.ready /\ StillAtHome(run)
    /\ \A p \in Phases : receipts[run][p].state = "stored" =>
          receipts[run][p].prompts = repo.prompts

\* The process ended while it added the worktree, promoted the files of a phase
\* or stored its receipt: worktree, files and receipts of the run disagree.
CutInPhase(run) ==
    /\ \A c \in Controllers : ctl[c].run # run
    /\ \/ tree[run] = "partial"
       \/ \E p \in Phases : receipts[run][p].state = "partial"
       \/ work[run] # Candidates(Stored(run))

\* Unless it ended there or people touched its branch or pull request, repeated
\* invocations drive a reserved run to `completed`, if the repository stays such
\* that the run can be resumed (production-host.ts:1055-1075, 1366-1396).
ConvergesUnlessCut ==
    \A run \in RunIds :
        []<>~Resumable(run)
        \/ (~together /\ run \in Known ~>
              \/ HasStatus(run, "completed")
              \/ CutInPhase(run) \/ run \in meddled)

\* Every reserved run is driven to `completed` by repeated invocations, whatever
\* durable cut the earlier ones ended at (production-host.ts:1055-1075, 1366-1396).
Converges ==
    \A run \in RunIds : ~together /\ run \in Known ~> HasStatus(run, "completed")

=============================================================================
