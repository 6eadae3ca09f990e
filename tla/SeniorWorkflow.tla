---------------------------- MODULE SeniorWorkflow ----------------------------
(***************************************************************************)
(* The senior workflow of .pi/away-runtime/supervise-away.ts: one piece of *)
(* work (a roadmap card or a maintenance cycle), driven under the lease by *)
(* executeSeniorWorkflowAway through a list of commands in a persistent    *)
(* agent session, and published as one branch and one draft pull request.  *)
(* Everything a later invocation knows is in files of the retained run.    *)
(*                                                                         *)
(* Invocations come from the service loop or from the operator.  One of    *)
(* them may end at any program point; whatever was not in a file is gone,  *)
(* but the agent it had started may go on for a while.  Meanwhile the card *)
(* may be edited, or the repository move on from the HEAD that names a     *)
(* maintenance cycle.                                                      *)
(* The command list keeps one command of each kind the host looks at: the  *)
(* policy turn, /create, the working commands (as "ship") and /verify.     *)
(***************************************************************************)
EXTENDS Naturals, Sequences

CONSTANTS Controllers,   \* invocations that may be under way at once
          NoOne,         \* not a controller
          MaxStops       \* bound: invocations ended early, and edits

ASSUME NoOneAssumption == NoOne \notin Controllers
ASSUME MaxStopsAssumption == MaxStops \in Nat

Commands == <<"policy", "create", "ship", "verify">>
InitList == <<"init">>            \* the packet is not ready: /init --deep
PolicyList == <<"policy">>
Last == Len(Commands)

\* The outcome of the card, or the HEAD of the cycle, first and after an edit.
Versions == {"first", "edited"}

PlainFiles == {"reservation", "base", "completion"}
\* The HEAD of the workspace: it descends from the base, or does not.
Heads == {"base", "astray"}

\* What a turn may change in the workspace; "gone" stands for a change the host
\* takes into no candidate: a deleted file, a link, a protected or odd path.
Sources == {"plan", "code", "gone"}
Unfit == {"gone"}

VARIABLES
    kind,       \* "roadmap" or "maintenance"
    version,    \* the outcome of the card now; the HEAD of the repository now
    reserved,   \* the version in reservation.json
    base,       \* the HEAD in base-oid, when it matters
    file,       \* files written in place: missing, partial or stored
    idle,       \* idle.json exists (linked into place, never partial)
    selection,  \* selection.json: missing, selected or no-change
    tree,       \* the worktree: absent, or there with a packet unready or ready
    files,      \* changed files of the workspace
    head,       \* the HEAD of the workspace
    cursor,     \* nextIndex of the newest readable cursor line, 0 for none
    torn,       \* the cursor file ends in an incomplete line
    said,       \* last assistant text of the retained session
    ref, remote, pull,  \* the candidate on the local ref, remote branch, PR
    lease,      \* the controller in executeSeniorWorkflowAway, or NoOne
    waiting,    \* the version a controller selected before taking the lease
    late,       \* the command an agent still executes after its invocation ended
    p,          \* the locals of the execution
    sent,       \* history: commands ever sent
    asked,      \* history: the versions they were about
    approved,   \* history: a policy turn authorised the creation
    verified,   \* history: workspaces a /verify turn called VERIFIED
    meddled,    \* history: workspaces as a late agent left them
    stops       \* executions ended early and edits so far

stored  == <<file, idle, selection, reserved, base, tree>>
disk    == <<stored, cursor, torn>>
agent   == <<files, head, said, late>>
outside == <<ref, remote, pull>>
history == <<sent, asked, approved, verified, meddled>>
vars == <<kind, version, disk, agent, outside, lease, waiting, p, history, stops>>

NoExecution == [pc |-> "none", list |-> InitList, index |-> 0, glued |-> FALSE,
                version |-> "first", candidate |-> {}]

Init ==
    /\ kind \in {"roadmap", "maintenance"}
    /\ version = "first" /\ reserved = "first" /\ base = "first"
    /\ file = [f \in PlainFiles |-> "missing"]
    /\ idle = FALSE /\ selection = "missing" /\ tree = "absent"
    /\ files = {} /\ head = "base" /\ cursor = 0 /\ torn = FALSE /\ said = "none"
    /\ ref = {} /\ remote = {} /\ pull = {}
    /\ lease = NoOne /\ waiting = [c \in Controllers |-> "none"] /\ p = NoExecution
    /\ late = "none" /\ sent = {} /\ asked = {} /\ approved = FALSE
    /\ verified = {} /\ meddled = {} /\ stops = 0

-----------------------------------------------------------------------------
At(label) == p.pc = label
Goto(label) == p' = [p EXCEPT !.pc = label] /\ UNCHANGED lease

\* Mutant: the lease is kept on a return.
ReturnKeepsLease == p' = NoExecution /\ UNCHANGED lease

\* The execution returns or throws; the lease is given back.
Return == p' = NoExecution /\ lease' = NoOne

\* The guard decides between the next program point and a `blocked` result.
ContinueIf(condition, label) == IF condition THEN Goto(label) ELSE Return

-----------------------------------------------------------------------------
(* runAwayOnce: selection before the lease, execution under it.            *)

\* validSeniorCompletion: a completion or idle file for this version.
Finished == (file["completion"] = "stored" \/ idle) /\ reserved = version

\* Another HEAD is another maintenance cycle; a card keeps its id when edited.
Selectable == ~Finished /\ (kind = "maintenance" => version = "first")

Select(c) ==
    /\ waiting[c] = "none" /\ lease # c
    /\ Selectable
    /\ waiting' = [waiting EXCEPT ![c] = version]
    /\ UNCHANGED <<kind, version, disk, agent, outside, lease, p, history, stops>>

\* flock --nonblock: a lease held by another ends the invocation.
TakeLease(c) ==
    /\ waiting[c] # "none"
    /\ waiting' = [waiting EXCEPT ![c] = "none"]
    /\ IF lease = NoOne
         THEN /\ lease' = c
              /\ p' = [p EXCEPT !.pc = "reservation", !.version = waiting[c]]
         ELSE UNCHANGED <<lease, p>>
    /\ UNCHANGED <<kind, version, disk, agent, outside, history, stops>>

-----------------------------------------------------------------------------
(* The retained files.                                                     *)

\* Where an execution goes once file f is there.
AfterFile(f) == CASE f = "reservation" -> "finished"
                  [] f = "base"        -> "worktree"
                  [] f = "completion"  -> "none"

\* Where one is that opened file f and has not written it.
Writing(f) == CASE f = "reservation" -> "reservation_write"
                [] f = "base"        -> "base_write"
                [] f = "completion"  -> "completion_write"

\* open with "wx"; HEAD is looked up before ...
OpenFile(f) ==
    /\ At(f) /\ file[f] = "missing"
    /\ file' = [file EXCEPT ![f] = "partial"]
    /\ base' = IF f = "base" /\ kind = "maintenance" THEN version ELSE base
    /\ Goto(Writing(f))
    /\ UNCHANGED <<kind, version, idle, selection, reserved, tree, cursor, torn,
                   agent, outside, waiting, history, stops>>

\* ... then write and fsync.
WriteFile(f) ==
    /\ At(Writing(f))
    /\ file' = [file EXCEPT ![f] = "stored"]
    /\ reserved' = IF f = "reservation" THEN p.version ELSE reserved
    /\ IF f = "completion" THEN Return ELSE Goto(AfterFile(f))
    /\ UNCHANGED <<kind, version, idle, selection, base, tree, cursor, torn,
                   agent, outside, waiting, history, stops>>

\* Mutant: the reservation is not compared with the work at hand.
ReadFileAnyVersion(f) ==
    /\ f # "completion" /\ At(f) /\ file[f] # "missing"
    /\ ContinueIf(file[f] = "stored", AfterFile(f))
    /\ UNCHANGED <<kind, version, disk, agent, outside, waiting, history, stops>>

\* Mutant: a file that is there already is an error.
FileMustBeNew(f) ==
    /\ f # "completion" /\ At(f) /\ file[f] # "missing"
    /\ Return
    /\ UNCHANGED <<kind, version, disk, agent, outside, waiting, history, stops>>

\* A file that is there is read; one that does not parse blocks, and so does a
\* reservation for another outcome.
ReadFile(f) ==
    /\ f # "completion" /\ At(f) /\ file[f] # "missing"
    /\ ContinueIf(/\ file[f] = "stored"
                  /\ f = "reservation" => reserved = p.version, AfterFile(f))
    /\ UNCHANGED <<kind, version, disk, agent, outside, waiting, history, stops>>

\* A completion or idle file ends the execution, whatever it holds.
CheckFinished ==
    /\ At("finished")
    /\ ContinueIf(file["completion"] = "missing" /\ ~idle, "base")
    /\ UNCHANGED <<kind, version, disk, agent, outside, waiting, history, stops>>

\* The base of a maintenance cycle is the HEAD it is named after.
SameIdentity == kind = "maintenance" => base = p.version

\* git worktree add --no-checkout, or a look at the worktree that is there: it
\* must be one, and its HEAD must descend from the base ...
AddWorktree ==
    /\ At("worktree")
    /\ IF tree = "absent" /\ SameIdentity
         THEN tree' = "unready" /\ Goto("checkout")
         ELSE /\ UNCHANGED tree
              /\ ContinueIf(SameIdentity /\ head # "astray", "plan")
    /\ UNCHANGED <<kind, version, file, idle, selection, reserved, base, cursor,
                   torn, agent, outside, waiting, history, stops>>

\* ... then git checkout, of a base that has a ready packet or has none.
Checkout ==
    /\ At("checkout")
    /\ tree' \in {"unready", "ready"}
    /\ Goto("plan")
    /\ UNCHANGED <<kind, version, file, idle, selection, reserved, base, cursor,
                   torn, agent, outside, waiting, history, stops>>

-----------------------------------------------------------------------------
(* Which commands, and from where.                                         *)

\* A root Pi is started and asked for its commands.
Run(list, start) ==
    /\ p' = [p EXCEPT !.pc = "run", !.list = list, !.index = start]
    /\ UNCHANGED lease

Min2(i, j) == IF i < j THEN i ELSE j

PacketReady == tree = "ready"

\* --session resumes what the cursor names; without one the session is new.
Resumed == IF cursor = 0 THEN "none" ELSE said

\* The selection is used only with the fsynced cursor of its policy turn.
CursorCovers == selection = "missing" \/ cursor >= 1

\* Maintenance is selected in a workspace that is the base, before and after; a
\* commit on top of the base counts as the files it changes.
CleanBase == files = {} /\ head = "base"

PlanRun ==
    /\ At("plan")
    /\ IF selection = "no-change"
         THEN Goto("idle")
         ELSE IF kind = "maintenance" /\ PacketReady /\ selection = "missing"
           THEN IF cursor <= 1 /\ CleanBase
                  THEN Run(PolicyList, Min2(cursor, 1))
                  ELSE Return
           ELSE IF ~CursorCovers
             THEN Return
             ELSE LET list == IF PacketReady THEN Commands ELSE InitList
                  IN Run(list, Min2(cursor, Len(list)))
    /\ said' = Resumed
    /\ UNCHANGED <<kind, version, disk, files, head, late, outside, waiting,
                   history, stops>>

\* writeFsyncedJsonExclusive of idle.json.
PersistIdle ==
    /\ At("idle")
    /\ idle' = TRUE
    /\ Return
    /\ UNCHANGED <<kind, version, file, selection, reserved, base, tree, cursor,
                   torn, agent, outside, waiting, history, stops>>

-----------------------------------------------------------------------------
(* runRootPiWorkflow: one command at a time, each settled, validated and   *)
(* checkpointed.                                                           *)

Current == p.list[p.index + 1]

\* What a turn is to add to the workspace, what else it may change there, and
\* what it may end with.
Asked(command) == CASE command = "create" -> {"plan"}
                    [] command = "ship"   -> {"code"}
                    [] OTHER              -> {}
MayTouch(command) ==
    Asked(command) \union (CASE command = "policy" -> {"code"}
                             [] command = "ship"   -> Unfit
                             [] OTHER              -> {})
MayMove(command) == IF command \in {"policy", "ship"} THEN Heads ELSE {}
MaySay(command) ==
    CASE command = "policy" ->
            IF kind = "maintenance" THEN {"selected", "no-change", "blocker"}
                                    ELSE {"ready", "blocker"}
      [] command = "verify" -> {"VERIFIED", "failed"}
      [] OTHER              -> {"done"}

\* What a turn leaves of the workspace: a path it may change is changed or as
\* in the base, and HEAD may leave the line of the base or come back.
Work(command) ==
    /\ \E touched \in SUBSET MayTouch(command) :
          files' = (files \ MayTouch(command)) \union touched
    /\ head' \in {head} \union MayMove(command)

\* What a turn of the agent does to the workspace and ends with.
Turn(command) ==
    /\ Work(command)
    /\ said' \in MaySay(command)
    /\ approved' = (approved \/ said' \in {"ready", "selected"})
    /\ verified' = IF said' = "VERIFIED" THEN verified \union {files'} ELSE verified

Send(command) ==
    /\ sent' = sent \union {command}
    /\ asked' = asked \union {IF kind = "maintenance" THEN base ELSE p.version}

RunCommand ==
    /\ At("run") /\ p.index < Len(p.list)
    /\ Send(Current) /\ Turn(Current)
    /\ Goto("settled")
    /\ UNCHANGED <<kind, version, disk, late, outside, waiting, meddled, stops>>

\* validateSettlement.  The prompt of the policy turn does not begin with
\* "/workflow ", so what it says is not looked at unless it is maintenance.
SettlementValid ==
    /\ p.list = PolicyList => said \in {"selected", "no-change"}
    /\ Current = "create" => "plan" \in files

ValidateSettlement ==
    /\ At("settled")
    /\ ContinueIf(SettlementValid, "checkpoint")
    /\ UNCHANGED <<kind, version, disk, agent, outside, waiting, history, stops>>

\* The cursor line is appended: first some of its bytes ...
BeginCheckpoint ==
    /\ At("checkpoint")
    /\ torn' = TRUE
    /\ p' = [p EXCEPT !.pc = "cursor_write", !.glued = torn]
    /\ UNCHANGED <<kind, version, stored, cursor, agent, outside, lease,
                   waiting, history, stops>>

\* ... then all.  Behind an incomplete line it cannot be parsed.
EndCheckpoint ==
    /\ At("cursor_write")
    /\ torn' = FALSE
    /\ cursor' = IF p.glued THEN cursor ELSE p.index + 1
    /\ p' = [p EXCEPT !.pc = "run", !.index = @ + 1, !.glued = FALSE]
    /\ UNCHANGED <<kind, version, stored, agent, outside, lease, waiting,
                   history, stops>>

\* Mutant: the selection is only kept in memory.
SelectionInMemory ==
    /\ At("run") /\ p.list = PolicyList /\ p.index = 1
    /\ IF CleanBase /\ said \in {"selected", "no-change"}
         THEN IF said = "no-change" THEN Goto("idle") ELSE Run(Commands, 1)
         ELSE Return
    /\ UNCHANGED <<kind, version, disk, agent, outside, waiting, history, stops>>

\* Mutant: the workspace is not compared after the policy turn.
WorkspaceNotCompared ==
    /\ At("run") /\ p.list = PolicyList /\ p.index = 1
    /\ IF said \in {"selected", "no-change"}
         THEN /\ selection' = said
              /\ IF said = "no-change" THEN Goto("idle") ELSE Run(Commands, 1)
         ELSE Return /\ UNCHANGED selection
    /\ UNCHANGED <<kind, version, file, idle, reserved, base, tree, cursor, torn,
                   agent, outside, waiting, history, stops>>

\* The policy turn of a maintenance cycle is over: store what it selected.
StoreSelection ==
    /\ At("run") /\ p.list = PolicyList /\ p.index = 1
    /\ IF CleanBase /\ said \in {"selected", "no-change"}
         THEN /\ selection' = said
              /\ IF said = "no-change" THEN Goto("idle") ELSE Run(Commands, 1)
         ELSE Return /\ UNCHANGED selection
    /\ UNCHANGED <<kind, version, file, idle, reserved, base, tree, cursor, torn,
                   agent, outside, waiting, history, stops>>

-----------------------------------------------------------------------------
(* Publication.                                                            *)

\* Mutant: the result of the verification turn is not looked at.
ResultAlwaysVerified == TRUE

ResultVerified == said = "VERIFIED"

\* Something changed, and each changed path may be in a candidate.
Fit == files # {} /\ files \intersect Unfit = {}

\* All commands are settled: an initialisation asks for the operator, work
\* needs a verified result and changes that are fit; they become the candidate.
FinishCommands ==
    /\ At("run") /\ p.index = Len(p.list) /\ p.list # PolicyList
    /\ IF p.list # InitList /\ ResultVerified /\ Fit
         THEN /\ p' = [p EXCEPT !.pc = "commit", !.candidate = files]
              /\ UNCHANGED lease
         ELSE Return
    /\ UNCHANGED <<kind, version, disk, agent, outside, waiting, history, stops>>

\* createOrObserveCandidateCommit: created once, observed when equal; a path
\* that is no longer as it was listed is refused.
CommitCandidate ==
    /\ At("commit")
    /\ LET unchanged == p.candidate \subseteq files
       IN /\ ref' = IF ref = {} /\ unchanged THEN p.candidate ELSE ref
          /\ IF unchanged /\ ref' = p.candidate
               THEN p' = [p EXCEPT !.pc = "host_verify", !.candidate = {}]
                    /\ UNCHANGED lease
               ELSE Return
    /\ UNCHANGED <<kind, version, disk, agent, remote, pull, waiting, history, stops>>

\* verifyProductionCommit runs the checks on that commit; here the ones
\* without the code fail them.
Sound(candidate) == "code" \in candidate

\* Mutant: the host's verification does not decide.
VerifyIgnored ==
    /\ At("host_verify")
    /\ Goto("publish")
    /\ UNCHANGED <<kind, version, disk, agent, outside, waiting, history, stops>>

VerifyCommit ==
    /\ At("host_verify")
    /\ ContinueIf(Sound(ref), "publish")
    /\ UNCHANGED <<kind, version, disk, agent, outside, waiting, history, stops>>

PublishBranch ==
    /\ At("publish")
    /\ remote' = IF remote = {} THEN ref ELSE remote
    /\ ContinueIf(remote' = ref, "create_pull")
    /\ UNCHANGED <<kind, version, disk, agent, ref, pull, waiting, history, stops>>

\* createOrGetDraftPullRequest: the open pull request is observed.
CreatePull ==
    /\ At("create_pull")
    /\ pull' = IF pull = {} THEN ref ELSE pull
    /\ ContinueIf(pull' = ref, "completion")
    /\ UNCHANGED <<kind, version, disk, agent, ref, remote, waiting, history, stops>>

-----------------------------------------------------------------------------
(* The environment.                                                        *)

Trouble == stops < MaxStops /\ stops' = stops + 1

\* The execution ends early; the kernel frees the lease.
Stop ==
    /\ lease # NoOne /\ Trouble
    /\ Return
    /\ UNCHANGED <<kind, version, disk, agent, outside, waiting, history>>

\* A command times out, or the controller ends while the agent is at work: the
\* agent gets a signal, and nobody waits for its end.
CutOff ==
    /\ At("run") /\ p.index < Len(p.list) /\ Trouble
    /\ Send(Current)
    /\ late' = Current
    /\ Return
    /\ UNCHANGED <<kind, version, disk, files, head, said, outside, waiting,
                   approved, verified, meddled>>

\* Or while git adds the worktree: what is there then is none, and stays.
CutAdd ==
    /\ At("worktree") /\ tree = "absent" /\ SameIdentity /\ Trouble
    /\ tree' = "unready" /\ head' = "astray"
    /\ Return
    /\ UNCHANGED <<kind, version, file, idle, selection, reserved, base, cursor,
                   torn, files, said, late, outside, waiting, history>>

\* An execution under way holds its session in memory.
SessionLoaded == p.pc \in {"run", "settled", "checkpoint", "cursor_write"}

\* That agent does some of its work before it ends, or all of it.
LateWork ==
    /\ late # "none" /\ late' = "none"
    /\ \/ ~SessionLoaded /\ Turn(late)
       \/ Work(late) /\ UNCHANGED <<said, approved, verified>>
    /\ meddled' = IF files' = files THEN meddled ELSE meddled \union {files'}
    /\ UNCHANGED <<kind, version, disk, outside, lease, waiting, p, sent, asked, stops>>

\* The operator edits the card, or the default branch moves; also back again.
Edit ==
    /\ Trouble
    /\ version' \in Versions \ {version}
    /\ UNCHANGED <<kind, disk, agent, outside, lease, waiting, p, history>>

\* The operator does what the initialisation preview asks for.
OperatorPrepares ==
    /\ tree = "unready" /\ "init" \in sent
    /\ tree' = "ready"
    /\ UNCHANGED <<kind, version, file, idle, selection, reserved, base, cursor,
                   torn, agent, outside, lease, waiting, p, history, stops>>

\* Nothing is left to do for this work.
Rest ==
    /\ ~Selectable /\ lease = NoOne /\ \A c \in Controllers : waiting[c] = "none"
    /\ UNCHANGED vars

Execute ==
    \/ \E f \in PlainFiles : OpenFile(f) \/ WriteFile(f) \/ ReadFile(f)
    \/ CheckFinished \/ AddWorktree \/ Checkout \/ PlanRun \/ PersistIdle
    \/ RunCommand \/ ValidateSettlement \/ BeginCheckpoint \/ EndCheckpoint
    \/ StoreSelection \/ FinishCommands \/ CommitCandidate \/ VerifyCommit
    \/ PublishBranch \/ CreatePull

Next ==
    \/ \E c \in Controllers : Select(c) \/ TakeLease(c)
    \/ Execute
    \/ Stop \/ CutOff \/ CutAdd \/ LateWork \/ Edit
    \/ OperatorPrepares
    \/ Rest

Spec == Init /\ [][Next]_vars

\* A turn in which the agent does what it was asked for.
GoodTurn ==
    /\ RunCommand
    /\ Asked(Current) \subseteq files'
    /\ said' # "blocker"

\* The service loop invokes again, a running execution goes on, and an agent
\* that is asked the same again and again does it at last.
FairSpec ==
    /\ Spec
    /\ \A c \in Controllers : WF_vars(Select(c)) /\ WF_vars(TakeLease(c))
    /\ WF_vars(Execute)
    /\ SF_vars(GoodTurn)

-----------------------------------------------------------------------------
(* Properties.                                                             *)

ProgramPoints == {"none", "reservation", "reservation_write", "finished",
    "base", "base_write", "worktree", "checkout", "plan", "idle", "run",
    "settled", "checkpoint", "cursor_write", "commit", "host_verify",
    "publish", "create_pull", "completion", "completion_write"}

Locals == [pc : ProgramPoints, list : {Commands, InitList, PolicyList},
           index : 0..Last, glued : BOOLEAN, version : Versions,
           candidate : SUBSET Sources]

\* The type invariant; the lease is held while an execution is under way.
TypeOK ==
    /\ kind \in {"roadmap", "maintenance"}
    /\ file \in [PlainFiles -> {"missing", "partial", "stored"}]
    /\ idle \in BOOLEAN /\ torn \in BOOLEAN /\ approved \in BOOLEAN
    /\ selection \in {"missing", "selected", "no-change"}
    /\ tree \in {"absent", "unready", "ready"}
    /\ version \in Versions /\ reserved \in Versions /\ base \in Versions
    /\ asked \subseteq Versions
    /\ files \subseteq Sources /\ head \in Heads /\ ref \subseteq Sources
    /\ remote \subseteq Sources /\ pull \subseteq Sources
    /\ verified \subseteq SUBSET Sources /\ meddled \subseteq SUBSET Sources
    /\ cursor \in 0..Last /\ stops \in 0..MaxStops
    /\ said \in {"none", "done", "ready", "blocker", "selected", "no-change",
                "VERIFIED", "failed"}
    /\ waiting \in [Controllers -> Versions \union {"none"}]
    /\ sent \subseteq {"init", "policy", "create", "ship", "verify"}
    /\ late \in {"none", "init", "policy", "create", "ship", "verify"}
    /\ p \in Locals
    /\ lease \in Controllers \union {NoOne}
    /\ (lease = NoOne) <=> At("none")

\* What is committed, pushed or in a pull request is a workspace that a
\* verification turn called VERIFIED as it stands, or that an agent of an
\* earlier invocation changed behind the back of this one, however often
\* executions ended, repeated commands or resumed from an older cursor line;
\* and it holds no change that is unfit, whatever an agent does between the
\* look at the paths and the commit (the checks of executeSeniorWorkflowAway
\* before the candidate).
PublishedIsVerified ==
    \A published \in {ref, remote, pull} \ {{}} :
       published \in verified \union meddled /\ published \intersect Unfit = {}

\* All that is ever asked of the agent in one retained run is about the same
\* outcome of the card, or the HEAD the cycle is named after, whatever was
\* edited between the selection, the lease and the next invocation (the
\* reservation and the identity of executeSeniorWorkflowAway).
OneSubject == asked \subseteq {reserved}

\* A stored completion is true: the local ref, the remote branch and the pull
\* request are all the candidate that passed the host's own verification
\* (the last write of executeSeniorWorkflowAway).
CompletionHolds ==
    file["completion"] = "stored" =>
        /\ ref # {} /\ remote = ref /\ pull = ref
        /\ Sound(ref)

\* A maintenance cycle creates nothing before its selection is durable, and
\* the workspace it selects in was clean (the policy turn of maintenance).
SelectionFirst ==
    kind = "maintenance" /\ sent \intersect {"create", "ship", "verify"} # {} =>
        selection = "selected"

\* Work recorded as idle has left no trace: nothing in the workspace and
\* nothing published, although other invocations may have been at it; only an
\* agent that outlived its invocation may have changed the workspace
\* (persistIdle after a policy turn that chose no change).
IdleLeavesNothing ==
    idle => /\ files = {} \/ files \in meddled
            /\ ref = {} /\ remote = {} /\ pull = {}

\* The work creates a candidate only when a policy turn authorised it
\* ("Workflow policy prompt did not authorize the create phase.").
AuthorizedCreate == "create" \in sent => approved

\* The states no later execution leaves, because of what a retained file or
\* the session holds: a card edited under its reservation, a repository that
\* moved on from the HEAD of the cycle or did so before its base was stored, a
\* file that was opened and never written, a base whose packet the operator has
\* not prepared, a worktree that git was stopped at or whose HEAD left the base,
\* a maintenance cycle whose cursor counts the initialisation or whose policy
\* answer a late agent talked over, a selection whose cursor line was lost, a
\* policy turn of maintenance that touched the workspace or its HEAD, a result
\* that is not VERIFIED or a workspace that is not fit behind the last cursor
\* line, a candidate the host rejects or that is no longer the workspace.
Stuck ==
    \/ file["reservation"] = "stored" /\ reserved # version
    \/ kind = "maintenance" /\ "edited" \in {version, base}
    \/ \E f \in PlainFiles : file[f] = "partial" /\ ~At(Writing(f))
    \/ tree = "unready" \/ head = "astray"
    \/ kind = "maintenance" /\ selection = "missing" /\ cursor = 1
         /\ said \notin {"selected", "no-change"}
    \/ selection = "selected" /\ cursor = 0 /\ p.list # Commands
    \/ kind = "maintenance" /\ selection = "missing" /\ ~CleanBase
    \/ cursor = Last /\ ~(ResultVerified /\ Fit)
    \/ ref # {} /\ (~Sound(ref) \/ ref # files)

\* The service finishes the work, whatever stopped executions left behind,
\* unless it stays in one of those states (runContinuousSeniorService invokes
\* again; every stage observes what is there).
FinishesUnlessStuck == <>[](Finished \/ Stuck)

=============================================================================
