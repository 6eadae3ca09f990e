# A verification project for the away runtime

The program is the away runtime of this repository (`.pi/away-runtime/*.ts` and
`.pi/extensions/away`): it takes an eligible card of `.pi/ROADMAP.md`, lets
confined agents produce a candidate in a retained workspace, and turns the
candidate into one dedicated branch and one draft pull request. Beside it there
is one plug-in with shared state, the MCP client pool of
`.opencode/plugin/skill-mcp*`. Everything else in the repository is Markdown
(skills, prompts, artifacts), vendored code, or editor helpers that rewrite a
text and keep nothing.

This directory holds TLA+ modules translated from that code, TLC configurations
that check them on small instances, and TLAPS proofs.

## Parts of the system

| Part | Source | State | Operations | What is hard |
|---|---|---|---|---|
| Effect ledger | `ledger.ts` | segment and ack files; reducer maps; counters of the open handle | `openLedger`, `append`, `replay` | crash between two system calls, power loss, torn frames, caps, stale counters |
| Repository lease | `controller.ts` (`withRepositoryLease`) | lock file, helper process, pipe | `withRepositoryLease` | helper dying after READY, timers against answers, orphans |
| Away extension, service loop | `.pi/extensions/away/index.ts`, `supervise-away.ts` (`runContinuousSeniorService`) | the flag of a session, requests in flight | input handler, polling | a session that changes under a request, two requests for one lease |
| Away controller | `controller.ts`, `production-host.ts` | ledger, retained workspace, phase receipts, local ref, remote branch, pull request | `defaultSelect`, `reserveNext`, `driveReservedLifecycle`, `reconcileAwayRun` | crashes at every cut, overlapping invocations, a repository and a pull request that change in between, intent before effect |
| Senior workflow | `supervise-away.ts` | retained JSON files, command cursor, worktree | `runAwayOnce`, `executeSeniorWorkflowAway` | files written in place, restart, agents that outlive their run, edits under a retained run |
| Lane and staging | `lane-extension.ts`, `staging.ts`, `attestation.ts` | writer token, staged files, receipts | `settle`, `stageWrite`, `commitStaged`, `makeAwayAttest` | partial promotion, receipts that must not lie, files staged by an earlier lane |
| Launcher, RPC | `launcher.ts`, `rpc.ts` | child process, frame buffer, pending requests | `launch`, `run`, `runLifecycleRpc` | late answers, timeouts, streams that close on a living lane |
| Verifier | `verifier.ts`, parts of `production-host.ts`, `command-catalog.ts` | evidence tree of a commit, manifests, receipt | `verifyProductionCommit`, `verify` | what a dead invocation left half extracted, a tar that still writes, a command that never ends |
| Git broker | `git-broker.ts` | local ref, remote branch, temporary index | `createOrObserveCandidateCommit`, `publishDedicatedBranch` | compare-and-swap races |
| GitHub broker | `github-broker.ts` | serialised queue, open pull requests | `observeDraftPullRequest`, `createOrGetDraftPullRequest` | ambiguous POST, concurrent creations |
| skill_mcp tools | `.opencode/plugin/skill-mcp.ts`, `skill-mcp/client.ts` | Map of clients, server processes, pending requests | `skill_mcp`, `skill_mcp_disconnect`, exit handler | two connections for one key, late exits, answers that never come |
| Bootstrap, closures, dispatch, confinement wrapper, other extensions and plug-ins | remaining `.ts`, `.mjs` | none between calls | file and hash checks, sandbox arguments, text | sequential |

Interaction: an invocation (extension or service) selects its work and takes the
lease. The production composition reserves a card in the ledger under the
lease, gives the lease back, and works on the retained workspace without it;
phases run in a lane whose `settle` promotes files into the workspace by renames;
the host stores a receipt per phase; reconciliation walks the statuses of the
ledger, observing or causing one external effect per step, through the two
brokers. The senior workflow keeps the lease all the time and a state of its own
in retained files; before it publishes, its host verifies the exact commit. All
coordination between processes is through files: the lock, the ledger, the
receipts, the git refs, and GitHub.

## Modules

`Lifecycle` (statuses and steps) <- `LedgerReducer` (which record may follow a
history) <- `EffectLog` (the abstract ledger: one variable, one action) and
`Ledger` (files, crashes; implements `EffectLog`). `AwayController` uses
`Lifecycle` and instantiates `LedgerReducer` for its ledger, so an append there
is one step: `Ledger` is why that is allowed for one process at a time.
`Lease` is the lock that `AwayController`, `SeniorWorkflow` and `Verifier` treat
as one atomic variable; `AwayExtension` composes it with the requests that
compete for it. `Brokers` is the detail behind three steps of `AwayController`
and `SeniorWorkflow` (`CommitCandidate`, `Publish` or `PublishBranch`,
`CreatePull`): what those modules rely on is `RemoteIsCandidate` and
`ResultHolds`. `Lane` is the detail behind `InvokePhase`, `SettleFile` and the two
receipt actions of `AwayController`. `Verifier` is the detail behind
`VerifyCommit` of `SeniorWorkflow`, and implements `Verdict`, which is what that
step assumes. `SkillMcp` stands alone. The `MC*` modules give constants for TLC,
the `*Proofs` modules hold the proofs.

### LedgerReducer, EffectLog

`checkTransition` reads three maps that `commitTransition` updates with every
record; they are functions of the records accepted so far, so the model keeps
the history and defines `Started`, `Reserved`, `KeyUsed` over it. A record's
bounded text fields (timestamp, oids, ids) are one `payload`.
`ReservationExclusive`, `NoStepSkipped` etc. say what the reducer is for.

### Ledger

One action per system call of an append: `AppendStart` (checks, routing, caps),
`CreateAck`, `SyncAckDir`, `CreateSegment`, `WriteUnit` (one round of the write
loop), `FsyncSegment`, `SyncDir`, `Commit` (reducer and counters, return);
`Duplicate` is the append of a record that is there already. `Open` is
`loadLedger` and the counters derived from it; its guard `Loadable` is everything
`loadLedger` and `listSegments` throw on. `Exit` is the end of the process,
`AppendFail` a failing call (the handle is poisoned), `PowerLoss` takes back what
was not fsynced. `world`, chosen once from `Worlds`, says what can go wrong:
`soft` processes and calls, `power` the machine, `both`. Files are measured in
units of which a frame has `FrameLen`; a frame is complete or torn. The power
loss of the model is kind: directory entries disappear in reverse order of
creation, data never turns into garbage. What is violated under it is violated
on any file system.

### AwayController

One process per controller, one action per call that changes something outside
it: `SelectRun` (`defaultSelect`), `ReadBaseline`, `AcquireLease`,
`ReplayLedger`, `Reserve`, `ConfirmReservation` (`reserveNext`), `OpenLedger`,
`LoadEvidence`, `AddWorktree`, `CheckOut`, `InvokePhase`, `SettleFile`,
`CreateReceipt`, `FlushReceipt`, `CommitCandidate` (`driveReservedLifecycle` and
the production host), `OpenEffects`, `Decide`, `Publish`, `ConfirmPush`,
`CreatePull`, `AppendRecord` (`reconcileAwayRun`). `Stop` ends a process at the
program points of `StopAt`: a crash and a thrown error look the same to the next
invocation. Every append is checked against the records the process has in
memory (`view`), not against the disk, as in the code.

What a process reads of the operator's repository is a `Checkout`: the hash of
the roadmap, HEAD, the facts that selection compares again under the lease
(packet, closures), whether they are valid, which namespaces exist, and the hash
of the prompt templates. `ChangeRepository` replaces it by another one at any
time; `Meddle` is a person who pushes to the branch of a run or closes or readies
its pull request. Invocations come one after another, or (`together`) overlap.
The candidate files of a phase are `plan` and `todo` (create) and `code` (ship):
two in one phase, so that a promotion can be half done. `Untracked` is git's
`status.showUntrackedFiles`, which the observation of the workspace depends on.

### Lease, AwayExtension

`flock(1)` and the node script it starts are two processes; the lock is held
while one of them has the descriptor. Timers may fire at any time. `Leave`
registers for the exit of the helper after ending its input, so an exit that
came earlier may be missed and only the timer ends the wait. `AwayExtension` adds
the requests: `Input` is the handler of the extension with its flag, `Poll` the
service; `TakeLease` is `Spawn` of the lease when the work is selected; `Answer`
clears the flag whoever set it; `ChangeSession` resets it while a handler still
waits; `ProcessDies` takes all handlers of a Pi process with it.

### SeniorWorkflow

`executeSeniorWorkflowAway` for one work item. `Select` is `runAwayOnce` before
the lease, `TakeLease` its `withRepositoryLease`; then one action per thing done
to a retained file, to the session or to the outside: `OpenFile`, `WriteFile`
and `ReadFile` for the files written in place (reservation, base, completion),
`CheckFinished`, `AddWorktree`, `Checkout`, `PlanRun` (packet, selection, cursor:
which commands from which index), `RunCommand`, `ValidateSettlement`,
`BeginCheckpoint`, `EndCheckpoint`, `StoreSelection`, `FinishCommands`,
`CommitCandidate`, `VerifyCommit`, `PublishBranch`, `CreatePull`. Selection and
idle files are linked into place and so written in one step. `Stop` may end an
execution at every program point, `CutOff` ends one in the middle of a turn whose
agent goes on: the agent process gets SIGTERM and is not awaited, and
`LateWork` is what it still does to the workspace and the session. `Edit` changes
the card, or moves HEAD, at any time. Of the command list the model keeps the
commands the host looks at. What an agent does in a turn is a free choice, within
what that turn may touch and say: it adds files, takes its changes back, leaves
one that no candidate may hold (`Unfit`: a deleted file, a link, a protected or
malformed path), or moves `head` off the line of the base. `FinishCommands` refuses
an unfit workspace and takes the list of paths (`p.candidate`), `CommitCandidate`
refuses paths that are no longer there, and `AddWorktree` refuses a worktree whose
HEAD does not descend from the base, or which is none because git was stopped
while it added it (`CutAdd`).

### Verifier, Verdict

`Verdict` is what a caller wants: a commit is certified, and then accepted, only
if it is sound. `Verifier` is `verifyProductionCommit` with `verify` and the
check that runs in the sandbox: `Start` begins the extraction, `TarOpen`,
`TarClose`, `TarEnds` are `git archive | tar -x`, file by file, `PreManifest` and
`PostManifest` the two manifests, `Walk`, `CheckFile`, `CommandExits` the
candidate's command, `Timeout` its end by the timer, `WriteReceipt` and
`Decide` the outcome, `Throw` and `Crash` what may go wrong. All invocations for a
commit share the evidence directory. They hold the lease one after another, but
the tar of one that died goes on with what is left in its pipe: `disturbed`
remembers whom that met.

### Brokers

`createOrObserveCandidateCommit`, `publishDedicatedBranch` and
`createOrGetDraftPullRequest` one after the other, by callers of the same run.
`ReadTree`, `AddPaths`, `CompareNames`, `WriteTree` are the git commands on the
temporary index, which is named after the run and so shared; `ProbeRef`,
`CommitTree` and `UpdateRef` make or observe the candidate; `ObserveRemote`,
`Push`, `ConfirmRemote` publish it; `Enqueue` and `Enter` are the promise queue
`serialized`, `List` and `ListAgain` the rate-limited list, `PostCreated` and
`PostAmbiguous` the creation. The git functions are synchronous, so callers of
one process overlap only from `Enqueue` on (`At` has that guard); callers of two
processes overlap everywhere. GitHub may carry a request out after its answer
was lost (`CarriedOut`), people close pull requests (`People`), a process ends
at any point (`Crash`). A commit is its tree and the second of its time: the
parent, message and author are the same for all callers of a run.

### Lane

One record per invocation of a phase: `pc` is `invoke` of the production host
with `runLifecycleRpc` and the launcher, `lane` the process it launched. Host:
`Observe` (stored evidence, clean workspace), `Launch` (receipts there are,
spawn), `SendSettle` (`agent_settled`, proposal, command), `GiveUp` (timers,
limits), `StreamEnds` and `StreamBreaks` (the dispatcher closes because the
lane is gone, or on an oversized record of a living lane), `HearAnswer`,
`WaitForExit` (the `finally` of `run`), `CheckReceipt` (the receipt, the sentinels
and the number of candidates, `MaxCandidates`), `Store`. Lane: `Stage`,
`Wrap` (the wrapper's receipt), `EndTurn`, `Settle` (all checks, which only
read), `CommitFile` (one rename and its check), `CommitFault`, `Attest`,
`AttestFailure`, `Exit`, `Kill`. Staging, workspace, receipts and evidence are
shared by all invocations of the run. Staging and committing are synchronous in
the lane, so its token never counts a write in flight and the model has only
its release. A file is its content, and a hash stands for it. How pi reports a
command handler that threw is left open.

### SkillMcp

One event loop, so an action is what runs between two awaits. `Reuse` and
`Connect` are `connectServer`, `Refuse` the configuration errors, `Data` an answer
of a server (`Settle`), `Timeout` the timer of `sendRequest`, `Ends` the end of a
server and `ExitEvent` its handler, `Disconnect` and `DisconnectAll` the two forms
of `skill_mcp_disconnect`. A client has the name of the call that spawned its
server; the Map is keyed by skill and server.

## Runs

| Run | Module, cfg | Specification | Result |
|---|---|---|---|
| `ledger` | `MCLedger`, `Ledger.cfg` | `Spec` | process crashes and failing calls, or power losses, between any two system calls: reopens, handle agrees with the files, returned records stay, and the files (or the durable part) implement `EffectLog` |
| `ledger_full` | `MCLedger`, `LedgerFull.cfg` | `Spec` | violated: see below |
| `away` | `MCAwayController`, `Away.cfg` | `FairSpec` | two disturbances of any kind, or two invocations that overlap: safety of reservations, ledger and effects, and completion of what can be resumed unless a phase was cut; `LedgerUsable` claims nothing where invocations overlap, `Readable` and `OneRunPerCardId` do |
| `away_untracked` | `MCAwayController`, `AwayUntracked.cfg` | `FairSpec` | violated: see below |
| `away_writers` | `MCAwayController`, `AwayWriters.cfg` | `Spec` | violated: see below |
| `requests` | `MCAwayExtension`, `Requests.cfg` | `FairSpec` | requests of one Pi process, or of one and a service: exclusion unless a helper was killed, overlaps bounded by session changes, every request ends, no orphan keeps the lock |
| `senior` | `MCSeniorWorkflow`, `Senior.cfg` | `FairSpec` | two invocations, any end, late agents, edits: what is published was verified, one subject, completions are true, the work finishes or stays in a listed stuck state |
| `senior_policy` | `MCSeniorWorkflow`, `SeniorPolicy.cfg` | `Spec` | violated: see below |
| `verifier` | `MCVerifier`, `Verifier.cfg` | `FairSpec` | two verifications of a commit over what the first left: implements `Verdict`, every verification ends |
| `brokers` | `MCBrokers`, `Brokers.cfg` | `Spec` | three callers in two processes publish one run: the remote branch is the candidate, returned results hold, no process races itself on GitHub, nobody waits for a call that is over |
| `lane` | `MCLane`, `Lane.cfg` | `Spec` | a phase invoked twice, anything may fail: evidence and completed receipts are true, a proposal the lane refuses changes nothing, one that is too long for evidence is moved and attested as a whole, no lane stays behind, every invocation returns |
| `skill_mcp` | `MCSkillMcp`, `SkillMcp.cfg` | `FairSpec` | three calls, servers that end and answer late: a running server is found unless the cleanup of an earlier client took its entry, every call returns |

Bounds.

* `ledger`, `ledger_full`: two runs, two cards, three keys, so a run can be
  stopped and its card asked for again by the other; frames of three units
  (`FrameLen`), so that a power loss can cut a frame at two places; two frames to
  a segment (`MaxSegmentBytes` 6) and at most three segments (`MaxSegments`), so
  rollover and recovery into a successor occur; a total cap (`MaxLedgerBytes` 10)
  that is no multiple of a frame, so that a torn unit decides whether another
  frame fits (12 in `ledger_full`, where the cap has no part). What an accepted
  history guarantees is also proved, without bounds.
* `away`: two cards, two run ids, five checkouts (clean, another roadmap text,
  other templates with a namespace half begun, HEAD moved with the card done,
  packet not ready) and `MaxTroubles` 2: enough for a crash while a crash is being
  recovered from, for a change before and one after the reservation, and for the
  second card after the first. Where invocations overlap there are two
  (`MaxTogether`) and no other trouble. The two violated runs need none.
* `requests`: two requests, both in the Pi process or one in a service, two
  helpers and one change of session (`MaxSessions`), so that a stale `finally`
  meets the next request.
* `senior`: two invocations, one work item of either kind and two disturbances
  (`MaxStops`: early ends, cut turns, edits), so a repeated command can itself
  be cut and a torn cursor line swallow the next one; two files an agent may
  add, one of which decides the host's verification, and one change that is unfit.
* `verifier`: two invocations and three files, any of which may be broken: one
  file the dead tar has written, one it has open, one it has still to write.
* `brokers`: two callers in one process, which meet in its queue, and one in
  another, which meets them at the index, the branches and GitHub; two seconds,
  so that their commits may differ; two pull requests (`MaxPulls`), so that one
  can be closed and another made; two attempts at a list (`MaxListAttempts`,
  three in the code: the properties do not count them).
* `lane`: two invocations (`MaxCalls`), the second when the first has returned or
  died, so that it finds what the first left in the staging directory, the
  workspace and the receipts, or the living lane itself; two files, both of which
  the phase must propose, so that a promotion can be half done, and a third one
  that the first agent may propose too, which is one candidate more than
  `MaxCandidates` (2; 256 in the code); the agent of each invocation stages a
  version of its own (`Writes`), and the first one proposes it or the hashes of
  the other, or answers with prose (`Texts`).
* `skill_mcp`: three calls for the servers of two skills, so that two connect for
  one key at once and a third arrives when one of them has ended. The
  configuration filters its tools (`Filtered`): that is the case that asks the
  server for them.

Symmetric are the runs, cards and keys of the ledger, and the callers of one
process and the seconds of `Brokers`; the runs with symmetry check safety only,
but for the ledger, whose `ImplementsEffectLog` is a step property without
fairness.

Fairness.

* `AwayController!FairSpec`: the operator (or the service unit) invokes the
  command again after it ended, and a running process goes on. Nothing is assumed
  of changes or crashes except their bound, and nothing where invocations overlap.
* `AwayExtension!FairSpec` with `Lease!Fairness`: timers fire, `fn` ends, and
  processes that can run do run; nothing is assumed of new requests, of spawning
  or of the lock being granted.
* `SeniorWorkflow!FairSpec`: the service invokes again
  (`runContinuousSeniorService` under a unit that restarts it), a running
  execution goes on, and an agent asked for the same again and again does it at
  last (strong fairness of `GoodTurn`); nothing is assumed of a verification
  turn's answer, of late agents or of the operator.
* `Lane!Spec`: host and lane go on with what they began, timers fire, and pi
  shuts down when its input ends (`rpc-mode` does, by the comment at
  `launcher.ts:250`; `run` has no timer of its own for that); nothing is assumed
  of the agent, of `agent_settled` or of a second invocation.
* `Verifier!FairSpec`: the host and each tar go on; the candidate's command need
  not, the host's timer is what ends it.
* `SkillMcp!FairSpec`: timers fire; a server owes neither answer nor end.
* `Brokers!Spec` has none: what must not happen to a queued call is stated as the
  safety property `NobodyWaitsForNobody`.

## Disagreements found

* `ledger_full` / `Reopens`. A process dies with a torn frame that was never
  fsynced; the next one writes the recovery ack for exactly those bytes and
  makes the ack durable, not the bytes; the power goes. The ack now names bytes
  that are gone and every later open throws. `ledger.ts:966-969` says a crash
  between ack and successor still reconciles. The same three events with a
  complete but unsynced frame lose a record that `append` has confirmed as a
  duplicate (`PromisedKept` fails in the world `both` too); in `soft` or `power`
  alone neither can happen.
* `away_untracked` / `Converges`. `observeRetainedWorkspace` runs `git status`
  with git's default for untracked files, so the namespace that `create` has just
  made is one entry, the directory; the file list never agrees with the receipt
  and no run of a new card gets past `create`. The run needs no crash, no change
  and one process. All other `AwayController` runs set `Untracked` to `all`, as
  the tests' stub does.
* `away` / `ConvergesUnlessCut`. A process that ends while it adds the worktree,
  between the first promotion of a phase and its receipt, or while it writes that
  receipt leaves worktree, files and receipts in disagreement; every later
  invocation refuses the run. The production-hardening plan promises convergence
  "after a crash at any durable cut". The property says these are the only such
  cuts (`CutInPhase`).
* `away_writers` / `Readable`. The handle that records effects is opened after
  the lease was given back, so two invocations may append the same sequence
  number, after which nobody can open the ledger. The same gap lets two
  invocations reserve two cards, and every later selection then refuses two
  unfinished runs; `LedgerUsable` claims both only where invocations do not
  overlap.
* `senior_policy` / `AuthorizedCreate`. The check of the policy turn's answer
  asks whether the command starts with `/workflow `; the policy prompt starts
  with other words, so a turn that ends in a blocker is followed by `/create`.
* `SeniorWorkflow!Stuck` lists what no later invocation gets out of by itself,
  from a file opened and not yet written to a card edited under its reservation.
  `FinishesUnlessStuck` shows that the list is complete for the disturbances of the
  model. Neither result nor paths are looked at before the last cursor line is
  written (`supervise-away.ts:1483-1504`), so a failed verification, or a `/ship`
  that deletes a tracked file, is met again by every later invocation.
* `SeniorWorkflow!LateWork`. An agent that was cut off still has the workspace;
  what it changes after the verification turn is published (`meddled` in
  `PublishedIsVerified`), because the host compares the candidate with the
  workspace as it is then, and only its own verification of the commit stands
  between.
* `Brokers!ReadTree`. The temporary index is `<runId>.index`, so two invocations
  of a run share it, and a read-tree of one between the add and the write-tree
  of the other gives a candidate with the tree of the base. `ResultHolds` says
  everything but that: it leaves out the calls that met another at the index
  (`overlap`). `.pi/artifacts/autonomous-away-loop/PLAN.md:83` promises a
  candidate of exactly the staged paths; the production host holds no lease
  there.
* `Verifier`. The host starts the next verification without waiting for the tar
  of a dead one, which may still write between the two manifests' reads;
  `Verdict!Disturb` is that exception.
* `Lane!WaitForExit`. `launcher.ts:249-253` says that a consumer error never
  orphans the lane process. An oversized record closes the dispatcher, whose end
  listener marks the process as exited (230-233), and `run` then returns without
  waiting. `LaneEndsWithCall` excepts these invocations (`cut`), and
  `EvidenceIsTrue` and `ReceiptIsTrue` those whose lane met the next invocation
  (`past = "met"`): the one new receipt the host looks for is not bound to the
  lane it launched, so a settlement that arrives late can be taken for its own.
* `Lane!Acceptable`. Evidence may list 256 candidates (`production-host.ts:485`), but
  neither the parser of proposals (510-547) nor the lane, whose own limit is 4096,
  says so: 257 short paths are moved and attested before the host refuses them,
  with nothing having failed, and the phase cannot be invoked again because its
  workspace is not the base. `AllOrNothing` says that this is the only such case.
* `Lane!Wrap`. `attestation.ts:181-182` wants the wrapper's receipt for "THIS
  lane"; the receipt names the profile, which is `writer` for every lane of a
  run, so one receipt serves all later lanes.
* `runLifecycleRpc` sends `abort` after a timeout (`production-host.ts:380-382`)
  when `run` has already waited for the exit of the lane: it reaches nobody.
* `Lease`. `MutualExclusion` has to except a helper killed after READY: the
  controller ignores its exit and works on without the lock.
* `SkillMcp!Forget`. The exit handler deletes by key, whoever the entry belongs
  to: when the server of an earlier client of a key ends late, the entry of the
  running one goes, and no disconnect reaches it any more (`stolen`). A client
  that is still connecting, or whose connection failed, is in the Map and is
  reused by the next call (`Usable`).

## Proofs

No proof assumes more than the named `ASSUME`s of the modules, which TLC evaluates
on the runs; four theorems on the ledger state a further hypothesis on `Worlds`.

`LedgerProofs` is about the ledger with its files and crashes, for any number of
runs, cards and segments, any frame length and any limits.

* `LedgerTyped` and `HandleAgrees` hold in every world. `ProcessInv` says what an
  open handle knows of the files: at rest (`Between`) it has counted every byte
  there is; inside an append, for each system call, what was there `Before` the
  call, how much of the frame is being `Writing`, what is `Written`. No other
  process touches the files, so what was read once stays true until the handle is
  poisoned, and a poisoned one promises nothing.
* `LedgerReopens`, `LedgerKeepsPromises` and `LedgerIsALog` need `"both" \notin
  Worlds`: either processes and calls fail or the machine does. In a world of both
  the run `ledger_full` shows that the ledger does not always open again. `FilesInv`
  adds to `ProcessInv` that the files load, that a frame is numbered by its place in
  its segment (`Numbered`), that no frame under way was promised, and, where power
  can be lost, that what is on the disk differs from what was fsynced by the units
  being written (`Unsynced`) and at most one new directory entry (`Named`). So a
  power loss leaves all frames or all but the newest (`LogKept`), and that one was
  not yet promised.
* `LedgerIsALog` is the refinement: `Ledger` implements `EffectLog`, with the
  variable `effects` mapped to `Lasting`: the frames that are complete on the disk,
  and where power can be lost those of them that it cannot take. `Standing` relates
  the two, and each step of the code leaves `Lasting` as it is or appends one
  record that the reducer accepts: the one of the frame whose last unit is written,
  or where power can be lost, the one whose last fsync returns (of the file, or of
  the directory when the segment is new).
* `EffectLogSafe` is about the abstract ledger alone: every history the reducer
  accepts is well typed, gives a card to one run for ever, fixes keys and
  identities, and skips no lifecycle step. `HistoryInv` adds that every card in the
  history was reserved in it (`CardsWereReserved`: otherwise a new reservation
  could meet a record without one) and that every run has a newest record
  (`RunsHaveLatest`: the one `checkTransition` compares with). `LedgerHistorySafe`
  carries this over to what the files hold and to what lasts, under the same
  hypothesis.

`BrokersProofs` proves `BrokersType`, `RemoteIsTheCandidate` and
`ReturnedIsWhatWasChecked` for any number of callers, processes and seconds.
Neither property is inductive: what a caller will publish depends on what it
holds half way. `IInv` adds `Sound` for every caller, which says what its locals
mean at each label: undisturbed, its paths are in the index, then in its tree,
then in its commit; from the update on its commit is the local branch, and from
the publication on the remote one. Each step is proved twice over: the caller's
new locals are sound (one lemma per action), and those of the others stay so
(`StaysSound`, once), because a branch that exists never moves, pull requests
only get more, and a read-tree marks whoever it disturbs.

It also proves `SerializedMeetsNobody` and `MarkersAreResolved`, the two
properties of the promise queue. The queue is a linked list that no variable
holds: each call knows the one before it. The invariant says that there is a
ranking of the callers by which every queued call comes after the one it waits
for and the tail comes last (`Ranked`), with what each link points at
(`Linked`): so only one caller of a process can be past the queue, and the one a
call waits for is in the queue too. It uses that a request carried out `late` is
in no process's queue (`BrokersAssumption`).

`AwayProofs` proves every safety property of `AwayController` that the run `away`
checks, for any number of processes, runs and cards, any `Checkouts` and any number
of disturbances. Each step is first summarised by what it does to the process and
to the variables (`Selects`, `Reserves`, `Decides`, `Appends`, ...; the steps of the
phases together by `Walks`), and `Steps` says that these are all. The invariant
is built in five layers over these summaries.
`Typed` (`AwayTyped`): besides the types, that a process has its run among the
records it read, because the next record copies the identity from there, and that
all pull requests of a run but the last are closed, which bounds their number.
`Orderly` (`CardsGetOneRun`, `ReservesTheFirstFreeCard`): only the holder of the
lease reserves, and it has read every reservation there is; so the card it
chooses is nobody's, at no source of the roadmap, and the second selection is
the one a fresh reader would make.
`Effectual` (`NothingUnannounced`, `CompletedIsThere`): three sets that never shrink
(statuses on record, statuses the host's receipts and ref give a right to, pull
requests that were there with their branch) justify each record and each effect
under way, so nothing another process does in between makes a decision wrong.
`Alone` (`LedgerStaysUsable`): where invocations do not overlap, the one process
under way has read all there is; what it appends is therefore accepted by every
later reader (`ReplayableGrows`), the statuses of a run come in order, and a
reservation is made only when nothing is unfinished.
`Counted` (`OnePullOnRecord`): a number on record is that of the last pull request.
Where invocations overlap this is because nobody closes one; where they do not, it
is because the one process under way finds no number on record when the newest
status is `pr_intent`, which needs the order that `Alone` established.

`AwayExtensionProofs` proves `RequestsTyped`, `LeaseExcludes` and
`OverlapsAreBounded` for any number of requests, helpers and session changes.
`LockInv` says why the lock excludes: one helper has it, a helper serves one call,
a call is inside only after its own helper printed READY, and a helper that did so
holds the lock or is dead. The bound on overlaps follows by counting: a handler
begins only with the flag down, and each change of session lowers it once.

`SeniorProofs` proves all safety properties of `SeniorWorkflow` but the violated
one: `SeniorTyped`, `SubjectIsKept`, `PublishedWasVerified`, `CompletionIsTrue`,
`SelectionComesFirst`, `IdleIsClean`. The argument is in four layers.
`SubjectInv`: behind the reservation the work at hand is the one reserved, and
behind the base the HEAD that is the base too. `CandidateInv`: a VERIFIED answer in
the session is about the workspace as it is, but for late agents, and the list of
paths about to be committed was such a workspace, and fit. `CompletionInv`: what each step of the publication has
established, from the host's verification of the ref to the completion.
`SelectionInv`: which selection goes with which command list, and what a
maintenance cycle without one has left. The first three are not implied by the
properties because these say nothing of an execution half way, or of the session
that the next one loads.

`VerifierProofs` proves `VerdictImplemented`, the refinement of `Verdict`, and the
invariant behind it, `EvidenceHolds`: for an undisturbed invocation each file is
still to be extracted, being extracted by its own tar, or whole; all are whole
from the first manifest on; the check has passed no broken file; and a status of
`passed` or `completed` means that there is none.

`SkillMcpProofs` proves `RunningStaysKnown`. The strengthening `Spawned` says that
a call that initialises a server has spawned it, and that every server that was
spawned has a key.

`LaneProofs` proves all safety properties of `Lane`: `LaneTyped`,
`EvidenceStaysTrue`, `ReceiptStaysTrue`, `SettlesAllOrNothing` and `NoLaneBehind`,
for any number of invocations, any files, sentinels and proposals. The lanes of a
run share everything but their locals, so what a lane knows can be spoiled by
another one that stages, moves or attests. `Apart` says when that cannot be: two
calls whose lanes were alive together have both met somebody, and after a
completed receipt of a call that met nobody no later one gets as far as a lane,
because it finds the workspace changed. Behind that, `Mine` says what the locals
of a call that met nobody mean: what is still to be moved is staged as proposed,
what was moved is in the workspace as proposed, the rest of the workspace is as in
the base, and all receipts that are new to its host are its own. `Promoting` says
how far a clean settlement that moved something has come: to stored evidence, or
to a host that refused its length. Each step is
again proved twice over, for the call that takes it (one lemma per action) and for
the others (`OthersStay`, `ApartStays`, once).

Only model-checked: every liveness property, `ConvergesUnlessCut` of
`AwayController` among them. Liveness under fairness is outside the prover's
reach, and so is what a recursive definition computes for every input.

## Not modelled

* Ledger: field validation and frame format.
* Controller: the wording of prompts and proposals; `blocked` and `aborted`
  records, which nothing in the code writes.
* `Brokers`: other writers of the remote branch, the fields of a pull request
  and the text of its body, argument checks.
* Senior workflow: the order of the roadmap cards, the length of the back-off,
  the confined single-shot execution.
* Lane: the read, list, search and discard tools, the framing of bytes into
  records, path and payload checks.
* Verifier: the arguments of the sandbox and of `systemd-run`; the transient
  service of a timed-out command, which is stopped by systemd or lives on without
  touching the evidence.
* skill_mcp: finding and parsing a skill's configuration, glob patterns, the text
  of answers, a write to the stdin of a server that is gone, the shell between
  the client and its server.
* Bootstrap, closures, dispatch, the confinement wrapper: sequential checks and
  the construction of arguments, with no state between two calls;
  `AwayController` has their verdict as `ready`.
* The other extensions and plug-ins (auto-prewalk, diagnostics, session summary,
  prompt leverage, guard): each rewrites a text or refuses it in one handler.

## Limits and what could follow

Two hosts at work on one run are covered by `away` for the ledger and the effects,
and by `Brokers` for git and GitHub, but not for the lane. The workspace of `AwayController` and that of `Lane` are related by the
correspondence above, not by a checked refinement.
