---------------------------- MODULE SeniorProofs ----------------------------
(***************************************************************************)
(* The safety of the senior workflow, for any number of invocations, early *)
(* ends, edits and late agents.                                            *)
(***************************************************************************)
EXTENDS SeniorWorkflow, TLAPS

Publishing == {"commit", "host_verify", "publish", "create_pull"}

\* A command that is checkpointed is one of the list.
Indexed == p.pc \in {"settled", "checkpoint", "cursor_write"} => p.index < Len(p.list)

Types == TypeOK /\ Indexed

\* Behind the reservation the work at hand is the one reserved, and behind the
\* base the HEAD that is the base too.
SubjectInv ==
    /\ OneSubject
    /\ asked # {} => file["reservation"] = "stored"
    /\ p.pc = "reservation_write" => file["reservation"] = "partial"
    /\ p.pc \notin {"none", "reservation", "reservation_write"} =>
          file["reservation"] = "stored" /\ reserved = p.version
    /\ SessionLoaded \/ p.pc \in {"checkout", "plan"} => SameIdentity

\* A verified answer in the session is about the workspace as it is, but for
\* late agents; what is about to be committed was such a workspace, and fit.
CandidateInv ==
    /\ PublishedIsVerified
    /\ said = "VERIFIED" => files \in verified \union meddled
    /\ p.pc = "commit" => /\ p.candidate \in verified \union meddled
                          /\ p.candidate \intersect Unfit = {}

\* What each step of the publication has established.
CompletionInv ==
    /\ p.pc = "publish" => Sound(ref)
    /\ p.pc = "create_pull" => Sound(ref) /\ remote = ref
    /\ p.pc \in {"completion", "completion_write"} \/ file["completion"] # "missing" =>
          Sound(ref) /\ remote = ref /\ pull = ref

\* Which selection goes with which command list, and what a maintenance cycle
\* without one has left.
SelectionInv ==
    /\ SelectionFirst /\ IdleLeavesNothing
    /\ kind = "roadmap" => selection = "missing"
    /\ SessionLoaded => selection # "no-change"
    /\ SessionLoaded /\ p.list = PolicyList =>
          kind = "maintenance" /\ selection = "missing"
    /\ kind = "maintenance" /\ SessionLoaded /\ p.list = Commands =>
          selection = "selected"
    /\ kind = "maintenance" /\ p.pc \in Publishing => selection = "selected"
    /\ p.pc = "idle" \/ idle => selection = "no-change"
    /\ kind = "maintenance" /\ selection # "selected" =>
          ref = {} /\ remote = {} /\ pull = {}
    /\ selection = "no-change" => files = {} \/ files \in meddled

Inv == Types /\ SubjectInv /\ CandidateInv /\ CompletionInv /\ SelectionInv

-----------------------------------------------------------------------------
(* The command lists, and the steps that choose among them.                *)

LEMMA ListFacts ==
    /\ Len(Commands) = 4 /\ Len(InitList) = 1 /\ Len(PolicyList) = 1
    /\ PolicyList # Commands /\ InitList # Commands /\ PolicyList # InitList
  BY DEF Commands, InitList, PolicyList

LEMMA CurrentFacts ==
    ASSUME TypeOK, p.index < Len(p.list)
    PROVE  /\ Current \in {"init", "policy", "create", "ship", "verify"}
           /\ p.list = PolicyList => Current = "policy"
           /\ p.list = InitList => Current = "init"
<1>1. p.index \in Nat /\ p.list \in {Commands, InitList, PolicyList}
  BY ListFacts DEF TypeOK, Locals, Last
<1>2. CASE p.list = PolicyList
  BY <1>1, <1>2, ListFacts DEF Current, PolicyList
<1>3. CASE p.list = InitList
  BY <1>1, <1>3, ListFacts DEF Current, InitList
<1>4. CASE p.list = Commands
  <2>1. p.index \in {0, 1, 2, 3}
    BY <1>1, <1>4, ListFacts
  <2> QED
    BY <1>4, <2>1, ListFacts DEF Current, Commands
<1> QED
  BY <1>1, <1>2, <1>3, <1>4

LEMMA NextIndex ==
    ASSUME TypeOK, p.index < Len(p.list)
    PROVE  p.index + 1 \in 0..Last
<1>1. p.index \in 0..4 /\ Last = 4
  BY ListFacts DEF TypeOK, Locals, Last
<1>2. Len(p.list) \in {1, 4}
  BY ListFacts DEF TypeOK, Locals
<1> DEFINE i == p.index
           n == Len(p.list)
<1> HIDE DEF i, n
<1>3. i \in 0..4 /\ n \in {1, 4} /\ i < n
  BY <1>1, <1>2 DEF i, n
<1>4. i + 1 \in 0..4
  BY <1>3
<1> QED
  BY <1>1, <1>4 DEF i

\* The locals of an execution that ends, and of one that goes on.
LEMMA EndFacts == NoExecution \in Locals /\ NoExecution.pc = "none"
  BY ListFacts DEF NoExecution, Locals, ProgramPoints, Versions, Last

LEMMA ReturnFacts == Return => p' \in Locals /\ p'.pc = "none" /\ lease' = NoOne
  BY EndFacts DEF Return

LEMMA GotoFacts ==
    ASSUME TypeOK, NEW label \in ProgramPoints, Goto(label)
    PROVE  /\ p' \in Locals /\ p'.pc = label /\ p'.version = p.version
           /\ p'.list = p.list /\ p'.index = p.index /\ lease' = lease
<1>1. p \in Locals
  BY DEF TypeOK
<1> QED
  BY <1>1 DEF Goto, Locals

LEMMA RunFacts ==
    ASSUME TypeOK, NEW list \in {Commands, InitList, PolicyList},
           NEW start \in 0..Last, Run(list, start)
    PROVE  /\ p' \in Locals /\ p'.pc = "run" /\ p'.version = p.version
           /\ p'.list = list /\ lease' = lease
<1>1. p \in Locals
  BY DEF TypeOK
<1>2. p' = [p EXCEPT !.pc = "run", !.list = list, !.index = start] /\ lease' = lease
  BY DEF Run
<1>3. LET r == [p EXCEPT !.pc = "run", !.list = list, !.index = start] IN
      r \in Locals /\ r.pc = "run" /\ r.version = p.version /\ r.list = list
  BY <1>1 DEF Locals, ProgramPoints
<1> QED
  BY <1>2, <1>3

LEMMA TakeLeaseFacts ==
    ASSUME TypeOK, NEW c \in Controllers, TakeLease(c)
    PROVE  /\ UNCHANGED <<kind, version, disk, agent, outside, history, stops>>
           /\ waiting' \in [Controllers -> Versions \union {"none"}]
           /\ p' \in Locals /\ lease' \in Controllers \union {NoOne}
           /\ \/ UNCHANGED <<lease, p>>
              \/ p.pc = "none" /\ p'.pc = "reservation" /\ lease' # NoOne
<1>1. UNCHANGED <<lease, p>> \/
         (lease = NoOne /\ lease' = c /\ waiting[c] # "none"
             /\ p' = [p EXCEPT !.pc = "reservation", !.version = waiting[c]])
  BY DEF TakeLease
<1>2. waiting[c] \in Versions \union {"none"}
  BY DEF TypeOK
<1>3. "reservation" \in ProgramPoints
  BY DEF ProgramPoints
<1>4. /\ UNCHANGED <<kind, version, disk, agent, outside, history, stops>>
      /\ waiting' = [waiting EXCEPT ![c] = "none"]
  BY DEF TakeLease
<1>5. /\ waiting \in [Controllers -> Versions \union {"none"}]
      /\ p \in Locals /\ lease \in Controllers \union {NoOne}
      /\ (lease = NoOne) <=> p.pc = "none"
  BY DEF TypeOK, At
<1>6. waiting' \in [Controllers -> Versions \union {"none"}]
  BY <1>4, <1>5
<1>7. ASSUME lease = NoOne, lease' = c, waiting[c] # "none",
             p' = [p EXCEPT !.pc = "reservation", !.version = waiting[c]]
      PROVE  /\ p' \in Locals /\ lease' \in Controllers /\ lease' # NoOne
             /\ p.pc = "none" /\ p'.pc = "reservation"
  <2>1. LET r == [p EXCEPT !.pc = "reservation", !.version = waiting[c]] IN
        r \in Locals /\ r.pc = "reservation"
    BY <1>2, <1>3, <1>5, <1>7 DEF Locals
  <2> QED
    BY <1>5, <1>7, <2>1, NoOneAssumption
<1> QED
  BY <1>1, <1>4, <1>5, <1>6, <1>7

LEMMA PlanRunFacts ==
    ASSUME TypeOK, PlanRun
    PROVE  /\ UNCHANGED <<kind, version, disk, files, head, late, outside, waiting, history, stops>>
           /\ p.pc = "plan" /\ said' \in {said, "none"} /\ p' \in Locals
           /\ \/ p'.pc = "none" /\ lease' = NoOne
              \/ p'.pc = "idle" /\ selection = "no-change" /\ lease' = lease
                   /\ p'.version = p.version
              \/ /\ p'.pc = "run" /\ lease' = lease
                 /\ selection # "no-change" /\ p'.version = p.version
                 /\ p'.list = PolicyList =>
                       kind = "maintenance" /\ selection = "missing"
                 /\ p'.list = Commands /\ kind = "maintenance" => selection = "selected"
<1>1. /\ UNCHANGED <<kind, version, disk, files, head, late, outside, waiting, history, stops>>
      /\ p.pc = "plan" /\ said' \in {said, "none"}
  BY DEF PlanRun, Resumed, At
<1>2. \/ selection = "no-change" /\ Goto("idle")
      \/ Return
      \/ /\ kind = "maintenance" /\ selection = "missing"
         /\ Run(PolicyList, Min2(cursor, 1))
      \/ selection # "no-change" /\ Run(InitList, Min2(cursor, Len(InitList)))
      \/ /\ selection # "no-change" /\ (kind = "maintenance" => selection # "missing")
         /\ Run(Commands, Min2(cursor, Len(Commands)))
  BY DEF PlanRun
<1>3. cursor \in 0..Last /\ Last = 4
  BY ListFacts DEF TypeOK, Last
<1>4. /\ Min2(cursor, 1) \in 0..Last /\ Min2(cursor, Len(InitList)) \in 0..Last
      /\ Min2(cursor, Len(Commands)) \in 0..Last
  BY <1>3, ListFacts DEF Min2
<1>5. "idle" \in ProgramPoints
  BY DEF ProgramPoints
<1>6. selection \in {"missing", "selected", "no-change"}
  BY DEF TypeOK
<1>7. CASE selection = "no-change" /\ Goto("idle")
  BY <1>1, <1>5, <1>7, GotoFacts
<1>8. CASE Return
  BY <1>1, <1>8, ReturnFacts
<1>9. CASE /\ kind = "maintenance" /\ selection = "missing"
           /\ Run(PolicyList, Min2(cursor, 1))
  BY <1>1, <1>4, <1>9, RunFacts, ListFacts
<1>10. CASE selection # "no-change" /\ Run(InitList, Min2(cursor, Len(InitList)))
  BY <1>1, <1>4, <1>10, RunFacts, ListFacts
<1>11. CASE /\ selection # "no-change" /\ (kind = "maintenance" => selection # "missing")
            /\ Run(Commands, Min2(cursor, Len(Commands)))
  BY <1>1, <1>4, <1>6, <1>11, RunFacts, ListFacts
<1> QED
  BY <1>2, <1>7, <1>8, <1>9, <1>10, <1>11

LEMMA StoreSelectionFacts ==
    ASSUME TypeOK, StoreSelection
    PROVE  /\ UNCHANGED <<kind, version, file, idle, reserved, base, tree, cursor,
                          torn, agent, outside, waiting, history, stops>>
           /\ p.pc = "run" /\ p.list = PolicyList /\ p' \in Locals
           /\ \/ p'.pc = "none" /\ lease' = NoOne /\ selection' = selection
              \/ /\ p'.pc = "idle" /\ lease' = lease /\ p'.version = p.version
                 /\ selection' = "no-change" /\ files = {}
              \/ /\ p'.pc = "run" /\ lease' = lease /\ p'.version = p.version
                 /\ p'.list = Commands /\ selection' = "selected"
<1>1. /\ UNCHANGED <<kind, version, file, idle, reserved, base, tree, cursor,
                     torn, agent, outside, waiting, history, stops>>
      /\ p.pc = "run" /\ p.list = PolicyList
      /\ \/ Return /\ selection' = selection
         \/ selection' = "no-change" /\ files = {} /\ Goto("idle")
         \/ selection' = "selected" /\ Run(Commands, 1)
  BY DEF StoreSelection, CleanBase, At
<1>2. 1 \in 0..Last /\ "idle" \in ProgramPoints
  BY ListFacts DEF Last, ProgramPoints
<1> QED
  BY <1>1, <1>2, ReturnFacts, GotoFacts, RunFacts

LEMMA FinishCommandsFacts ==
    ASSUME TypeOK, FinishCommands
    PROVE  /\ UNCHANGED <<kind, version, disk, agent, outside, waiting, history, stops>>
           /\ p.pc = "run" /\ p' \in Locals
           /\ \/ p'.pc = "none" /\ lease' = NoOne
              \/ /\ p'.pc = "commit" /\ lease' = lease /\ p'.version = p.version
                 /\ p.list = Commands /\ said = "VERIFIED"
                 /\ p'.candidate = files /\ files \intersect Unfit = {}
<1>1. /\ UNCHANGED <<kind, version, disk, agent, outside, waiting, history, stops>>
      /\ p.pc = "run" /\ p.list # PolicyList
      /\ \/ Return
         \/ /\ p.list # InitList /\ said = "VERIFIED" /\ files \intersect Unfit = {}
            /\ p' = [p EXCEPT !.pc = "commit", !.candidate = files]
            /\ lease' = lease
  BY DEF FinishCommands, Fit, ResultVerified, At
<1>2. "commit" \in ProgramPoints
  BY DEF ProgramPoints
<1>3. p \in Locals /\ files \subseteq Sources
  BY DEF TypeOK
<1>4. p.list \in {Commands, InitList, PolicyList}
  BY <1>3 DEF Locals
<1>5. LET r == [p EXCEPT !.pc = "commit", !.candidate = files] IN
      /\ r \in Locals /\ r.pc = "commit" /\ r.version = p.version
      /\ r.candidate = files
  BY <1>2, <1>3 DEF Locals
<1> QED
  BY <1>1, <1>4, <1>5, ReturnFacts

LEMMA CommitFacts ==
    ASSUME TypeOK, CommitCandidate
    PROVE  /\ UNCHANGED <<kind, version, disk, agent, remote, pull, waiting, history, stops>>
           /\ p.pc = "commit" /\ p' \in Locals /\ ref' \in {ref, p.candidate}
           /\ ref # {} => ref' = ref
           /\ \/ p'.pc = "none" /\ lease' = NoOne
              \/ /\ p'.pc = "host_verify" /\ lease' = lease
                 /\ p'.version = p.version /\ p'.list = p.list
<1>1. /\ UNCHANGED <<kind, version, disk, agent, remote, pull, waiting, history, stops>>
      /\ p.pc = "commit" /\ ref' \in {ref, p.candidate} /\ (ref # {} => ref' = ref)
      /\ \/ Return
         \/ /\ p' = [p EXCEPT !.pc = "host_verify", !.candidate = {}]
            /\ lease' = lease
  BY DEF CommitCandidate, At
<1>2. "host_verify" \in ProgramPoints
  BY DEF ProgramPoints
<1>3. p \in Locals
  BY DEF TypeOK
<1>4. LET r == [p EXCEPT !.pc = "host_verify", !.candidate = {}] IN
      /\ r \in Locals /\ r.pc = "host_verify" /\ r.version = p.version
      /\ r.list = p.list
  BY <1>2, <1>3 DEF Locals
<1> QED
  BY <1>1, <1>4, ReturnFacts

-----------------------------------------------------------------------------
(* The types.                                                              *)

LEMMA TypesInit == Init => Types
<1> SUFFICES ASSUME Init PROVE Types
  OBVIOUS
<1>1. p \in Locals /\ p.pc = "none"
  BY EndFacts DEF Init
<1>2. 0 \in 0..Last /\ 0 \in 0..MaxStops
  BY MaxStopsAssumption, ListFacts DEF Last
<1>3. /\ file \in [PlainFiles -> {"missing", "partial", "stored"}]
      /\ waiting \in [Controllers -> Versions \union {"none"}]
  BY DEF Init
<1> QED
  BY <1>1, <1>2, <1>3 DEF Init, Types, TypeOK, Indexed, Versions, Heads, At

\* The part about the execution under way ...
Control ==
    /\ p \in Locals /\ lease \in Controllers \union {NoOne}
    /\ (lease = NoOne) <=> p.pc = "none"
    /\ Indexed

LEMMA ReturnControl == Return => Control'
  BY ReturnFacts DEF Control, Indexed

LEMMA GotoControl ==
    ASSUME Types, p.pc # "none", NEW label \in ProgramPoints \ {"none"}, Goto(label),
           label \in {"settled", "checkpoint", "cursor_write"} => p.index < Len(p.list)
    PROVE  Control'
<1>1. /\ p' \in Locals /\ p'.pc = label /\ p'.list = p.list /\ p'.index = p.index
      /\ lease' = lease
  BY GotoFacts DEF Types
<1> QED
  BY <1>1 DEF Types, TypeOK, At, Control, Indexed

LEMMA ControlStep == Types /\ [Next]_vars => Control'
<1> SUFFICES ASSUME Types, [Next]_vars PROVE Control'
  OBVIOUS
<1> USE DEF ContinueIf
<1>0. TypeOK /\ Control
  BY DEF Types, TypeOK, Control, At
<1>1. ASSUME NEW c \in Controllers, Select(c) PROVE Control'
  BY <1>1, <1>0 DEF Select, Control, Indexed
<1>2. ASSUME NEW c \in Controllers, TakeLease(c) PROVE Control'
  BY <1>2, <1>0, TakeLeaseFacts DEF Control, Indexed
<1>3. ASSUME NEW f \in PlainFiles, OpenFile(f) PROVE Control'
  <2>1. p.pc # "none" /\ (Return \/ \E label \in {"reservation_write", "base_write", "completion_write"} : Goto(label))
    BY <1>3 DEF OpenFile, Writing, PlainFiles, At
  <2>2. {"reservation_write", "base_write", "completion_write"} \subseteq ProgramPoints \ {"none"}
    BY DEF ProgramPoints
  <2> QED
    BY <2>1, <2>2, ReturnControl, GotoControl
<1>4. ASSUME NEW f \in PlainFiles, WriteFile(f) PROVE Control'
  <2>1. p.pc # "none" /\ (Return \/ \E label \in {"finished", "worktree"} : Goto(label))
    BY <1>4 DEF WriteFile, Writing, AfterFile, PlainFiles, At
  <2>2. {"finished", "worktree"} \subseteq ProgramPoints \ {"none"}
    BY DEF ProgramPoints
  <2> QED
    BY <2>1, <2>2, ReturnControl, GotoControl
<1>5. ASSUME NEW f \in PlainFiles, ReadFile(f) PROVE Control'
  <2>1. p.pc # "none" /\ (Return \/ \E label \in {"finished", "worktree"} : Goto(label))
    BY <1>5 DEF ReadFile, AfterFile, PlainFiles, At
  <2>2. {"finished", "worktree"} \subseteq ProgramPoints \ {"none"}
    BY DEF ProgramPoints
  <2> QED
    BY <2>1, <2>2, ReturnControl, GotoControl
<1>6. CASE CheckFinished
  <2>1. p.pc # "none" /\ (Return \/ \E label \in {"base"} : Goto(label))
    BY <1>6 DEF CheckFinished, At
  <2>2. {"base"} \subseteq ProgramPoints \ {"none"}
    BY DEF ProgramPoints
  <2> QED
    BY <2>1, <2>2, ReturnControl, GotoControl
<1>7. CASE AddWorktree
  <2>1. p.pc # "none" /\ (Return \/ \E label \in {"checkout", "plan"} : Goto(label))
    BY <1>7 DEF AddWorktree, At
  <2>2. {"checkout", "plan"} \subseteq ProgramPoints \ {"none"}
    BY DEF ProgramPoints
  <2> QED
    BY <2>1, <2>2, ReturnControl, GotoControl
<1>8. CASE Checkout
  <2>1. p.pc # "none" /\ (Return \/ \E label \in {"plan"} : Goto(label))
    BY <1>8 DEF Checkout, At
  <2>2. {"plan"} \subseteq ProgramPoints \ {"none"}
    BY DEF ProgramPoints
  <2> QED
    BY <2>1, <2>2, ReturnControl, GotoControl
<1>9. CASE PlanRun
  BY <1>9, <1>0, PlanRunFacts DEF Control, Indexed
<1>10. CASE PersistIdle
  BY <1>10, ReturnControl DEF PersistIdle
<1>11. CASE RunCommand
  <2>1. p.pc # "none" /\ p.index < Len(p.list) /\ Goto("settled")
    BY <1>11 DEF RunCommand, At
  <2>2. "settled" \in ProgramPoints \ {"none"}
    BY DEF ProgramPoints
  <2> QED
    BY <2>1, <2>2, GotoControl
<1>12. CASE ValidateSettlement
  <2>1. /\ p.pc # "none" /\ p.index < Len(p.list)
        /\ Return \/ Goto("checkpoint")
    BY <1>12 DEF ValidateSettlement, Types, Indexed, At
  <2>2. "checkpoint" \in ProgramPoints \ {"none"}
    BY DEF ProgramPoints
  <2> QED
    BY <2>1, <2>2, ReturnControl, GotoControl
<1>13. CASE BeginCheckpoint
  BY <1>13, <1>0 DEF BeginCheckpoint, Control, Indexed, Types, TypeOK, Locals, ProgramPoints, At
<1>14. CASE EndCheckpoint
  <2>1. p.index < Len(p.list)
    BY <1>14 DEF EndCheckpoint, Types, Indexed, At
  <2>2. p.index + 1 \in 0..Last
    BY <1>0, <2>1, NextIndex
  <2> QED
    BY <1>14, <1>0, <2>2 DEF EndCheckpoint, Control, Indexed, Locals, ProgramPoints, At
<1>15. CASE StoreSelection
  BY <1>15, <1>0, StoreSelectionFacts DEF Control, Indexed
<1>16. CASE FinishCommands
  BY <1>16, <1>0, FinishCommandsFacts DEF Control, Indexed
<1>17. CASE CommitCandidate
  BY <1>17, <1>0, CommitFacts DEF Control, Indexed
<1>18. CASE VerifyCommit
  <2>1. p.pc # "none" /\ (Return \/ \E label \in {"publish"} : Goto(label))
    BY <1>18 DEF VerifyCommit, At
  <2>3. {"publish"} \subseteq ProgramPoints \ {"none"}
    BY DEF ProgramPoints
  <2> QED
    BY <2>1, <2>3, ReturnControl, GotoControl
<1>19. CASE PublishBranch
  <2>1. p.pc # "none" /\ (Return \/ \E label \in {"create_pull"} : Goto(label))
    BY <1>19 DEF PublishBranch, At
  <2>3. {"create_pull"} \subseteq ProgramPoints \ {"none"}
    BY DEF ProgramPoints
  <2> QED
    BY <2>1, <2>3, ReturnControl, GotoControl
<1>20. CASE CreatePull
  <2>1. p.pc # "none" /\ (Return \/ \E label \in {"completion"} : Goto(label))
    BY <1>20 DEF CreatePull, At
  <2>3. {"completion"} \subseteq ProgramPoints \ {"none"}
    BY DEF ProgramPoints
  <2> QED
    BY <2>1, <2>3, ReturnControl, GotoControl
<1>21. CASE Stop \/ CutOff \/ CutAdd
  BY <1>21, ReturnControl DEF Stop, CutOff, CutAdd
<1>22. CASE LateWork \/ Edit \/ OperatorPrepares
  BY <1>22, <1>0 DEF LateWork, Edit, OperatorPrepares, Control, Indexed
<1>23. CASE Rest \/ UNCHANGED vars
  BY <1>23, <1>0 DEF Rest, vars, Control, Indexed
<1> QED
  BY <1>1, <1>2, <1>3, <1>4, <1>5, <1>6, <1>7, <1>8, <1>9, <1>10,
     <1>11, <1>12, <1>13, <1>14, <1>15, <1>16, <1>17, <1>18, <1>19, <1>20, <1>21, <1>22, <1>23
  DEF Next, Execute

\* ... and that about everything else.
Data ==
    /\ kind \in {"roadmap", "maintenance"}
    /\ file \in [PlainFiles -> {"missing", "partial", "stored"}]
    /\ idle \in BOOLEAN /\ torn \in BOOLEAN /\ approved \in BOOLEAN
    /\ selection \in {"missing", "selected", "no-change"}
    /\ tree \in {"absent", "unready", "ready"}
    /\ version \in Versions /\ reserved \in Versions /\ base \in Versions
    /\ asked \subseteq Versions
    /\ files \subseteq Sources /\ head \in Heads /\ ref \subseteq Sources
    /\ remote \subseteq Sources /\ pull \subseteq Sources
    /\ verified \subseteq SUBSET Sources /\ meddled \subseteq SUBSET Sources
    /\ cursor \in 0..Last /\ stops \in 0..MaxStops
    /\ said \in {"none", "done", "ready", "blocker", "selected", "no-change",
                "VERIFIED", "failed"}
    /\ waiting \in [Controllers -> Versions \union {"none"}]
    /\ sent \subseteq {"init", "policy", "create", "ship", "verify"}
    /\ late \in {"none", "init", "policy", "create", "ship", "verify"}

LEMMA DataStep == Types /\ [Next]_vars => Data'
<1> SUFFICES ASSUME Types, [Next]_vars PROVE Data'
  OBVIOUS
<1>0. Data
  BY DEF Types, TypeOK, Data
<1>a. ASSUME NEW c \in Controllers, TakeLease(c)
      PROVE  /\ UNCHANGED <<kind, version, disk, agent, outside, history, stops>>
             /\ waiting' \in [Controllers -> Versions \union {"none"}]
  BY <1>a, TakeLeaseFacts DEF Types
<1>b. PlanRun =>
        /\ UNCHANGED <<kind, version, disk, files, head, late, outside, waiting, history, stops>>
        /\ said' \in {said, "none"}
  BY PlanRunFacts DEF Types
<1>c. StoreSelection =>
        /\ UNCHANGED <<kind, version, file, idle, reserved, base, tree, cursor,
                       torn, agent, outside, waiting, history, stops>>
        /\ selection' \in {selection, "selected", "no-change"}
  BY StoreSelectionFacts DEF Types
<1>d. FinishCommands =>
        UNCHANGED <<kind, version, disk, agent, outside, waiting, history, stops>>
  BY FinishCommandsFacts DEF Types
<1>e. RunCommand \/ CutOff => Current \in {"init", "policy", "create", "ship", "verify"}
  BY CurrentFacts DEF Types, RunCommand, CutOff
<1>f. p.version \in Versions /\ p.index \in 0..Last /\ p.candidate \subseteq Sources
  BY DEF Types, TypeOK, Locals
<1>g. EndCheckpoint => p.index + 1 \in 0..Last
  BY NextIndex DEF EndCheckpoint, Types, Indexed, At
<1>h. ASSUME NEW command \in {"none", "init", "policy", "create", "ship", "verify"}
      PROVE  /\ MayTouch(command) \subseteq Sources /\ MayMove(command) \subseteq Heads
             /\ MaySay(command) \subseteq {"none", "done", "ready", "blocker", "selected",
                                          "no-change", "VERIFIED", "failed"}
  BY <1>0 DEF MayTouch, Asked, MayMove, MaySay, Sources, Heads, Unfit, Data
<1>i. ASSUME NEW command \in {"none", "init", "policy", "create", "ship", "verify"},
             Turn(command)
      PROVE  /\ files' \subseteq Sources /\ head' \in Heads /\ approved' \in BOOLEAN
             /\ verified' \subseteq SUBSET Sources
             /\ said' \in {"none", "done", "ready", "blocker", "selected",
                           "no-change", "VERIFIED", "failed"}
  BY <1>0, <1>h, <1>i DEF Turn, Work, Data
<1>k. CommitCandidate =>
        /\ UNCHANGED <<kind, version, disk, agent, remote, pull, waiting, history, stops>>
        /\ ref' \in {ref, p.candidate}
  BY CommitFacts DEF Types
<1>j. Rest => UNCHANGED vars
  BY DEF Rest
<1> USE <1>0, MaxStopsAssumption
    DEF Data, PlainFiles, Versions, Sources, Heads, vars, disk, stored, agent, outside, history
<1>1. ASSUME NEW c \in Controllers, Select(c) PROVE Data'
  BY <1>1 DEF Select
<1>2. ASSUME NEW c \in Controllers, TakeLease(c) PROVE Data'
  <2>1. /\ UNCHANGED <<kind, version, disk, agent, outside, history, stops>>
        /\ waiting' \in [Controllers -> Versions \union {"none"}]
    BY <1>2, <1>a
  <2> QED
    BY <2>1
<1>3. ASSUME NEW f \in PlainFiles, OpenFile(f) PROVE Data'
  BY <1>3 DEF OpenFile
<1>4. ASSUME NEW f \in PlainFiles, WriteFile(f) PROVE Data'
  BY <1>4, <1>f DEF WriteFile
<1>5. ASSUME NEW f \in PlainFiles, ReadFile(f) PROVE Data'
  BY <1>5 DEF ReadFile
<1>6. CASE CheckFinished
  BY <1>6 DEF CheckFinished
<1>7. CASE AddWorktree
  BY <1>7 DEF AddWorktree
<1>8. CASE Checkout
  BY <1>8 DEF Checkout
<1>9. CASE PlanRun
  <2>1. /\ UNCHANGED <<kind, version, disk, files, head, late, outside, waiting, history, stops>>
        /\ said' \in {said, "none"}
    BY <1>9, <1>b
  <2> QED
    BY <2>1
<1>10. CASE PersistIdle
  BY <1>10 DEF PersistIdle
<1>11. CASE RunCommand
  <2>1. /\ files' \subseteq Sources /\ head' \in Heads /\ approved' \in BOOLEAN
        /\ verified' \subseteq SUBSET Sources
        /\ said' \in {"none", "done", "ready", "blocker", "selected",
                     "no-change", "VERIFIED", "failed"}
    BY <1>11, <1>e, <1>i DEF RunCommand
  <2>2. asked' \subseteq Versions
    BY <1>11, <1>f DEF RunCommand, Send
  <2>3. sent' \subseteq {"init", "policy", "create", "ship", "verify"}
    BY <1>11, <1>e DEF RunCommand, Send
  <2>4. UNCHANGED <<kind, version, disk, late, outside, waiting, meddled, stops>>
    BY <1>11 DEF RunCommand
  <2> QED
    BY <2>1, <2>2, <2>3, <2>4
<1>12. CASE ValidateSettlement
  BY <1>12 DEF ValidateSettlement
<1>13. CASE BeginCheckpoint
  BY <1>13 DEF BeginCheckpoint
<1>14. CASE EndCheckpoint
  <2>1. cursor' \in 0..Last /\ torn' \in BOOLEAN
    BY <1>14, <1>g DEF EndCheckpoint
  <2>2. UNCHANGED <<kind, version, stored, agent, outside, waiting, history, stops>>
    BY <1>14 DEF EndCheckpoint
  <2> QED
    BY <2>1, <2>2
<1>15. CASE StoreSelection
  <2>1. /\ UNCHANGED <<kind, version, file, idle, reserved, base, tree, cursor,
                       torn, agent, outside, waiting, history, stops>>
        /\ selection' \in {selection, "selected", "no-change"}
    BY <1>15, <1>c
  <2> QED
    BY <2>1
<1>16. CASE FinishCommands
  <2>1. UNCHANGED <<kind, version, disk, agent, outside, waiting, history, stops>>
    BY <1>16, <1>d
  <2> QED
    BY <2>1
<1>17. CASE CommitCandidate
  <2>1. /\ UNCHANGED <<kind, version, disk, agent, remote, pull, waiting, history, stops>>
        /\ ref' \in {ref, p.candidate}
    BY <1>17, <1>k
  <2> QED
    BY <2>1, <1>f
<1>18. CASE VerifyCommit
  BY <1>18 DEF VerifyCommit
<1>19. CASE PublishBranch
  BY <1>19 DEF PublishBranch
<1>20. CASE CreatePull
  BY <1>20 DEF CreatePull
<1>21. CASE Stop
  BY <1>21 DEF Stop, Trouble
<1>22. CASE CutOff
  <2>1. asked' \subseteq Versions
    BY <1>22, <1>f DEF CutOff, Send
  <2>2. /\ sent' \subseteq {"init", "policy", "create", "ship", "verify"}
        /\ late' \in {"none", "init", "policy", "create", "ship", "verify"}
    BY <1>22, <1>e DEF CutOff, Send
  <2>3. stops' \in 0..MaxStops
    BY <1>22 DEF CutOff, Trouble
  <2>4. UNCHANGED <<kind, version, disk, files, head, said, outside, waiting, approved,
                    verified, meddled>>
    BY <1>22 DEF CutOff
  <2> QED
    BY <2>1, <2>2, <2>3, <2>4
<1>23. CASE LateWork
  <2>1. /\ files' \subseteq Sources /\ head' \in Heads /\ approved' \in BOOLEAN
        /\ verified' \subseteq SUBSET Sources
        /\ said' \in {"none", "done", "ready", "blocker", "selected",
                     "no-change", "VERIFIED", "failed"}
    BY <1>23, <1>h, <1>i DEF LateWork, Work
  <2>2. meddled' \subseteq SUBSET Sources /\ late' = "none"
    BY <1>23, <2>1 DEF LateWork
  <2>3. UNCHANGED <<kind, version, disk, outside, lease, waiting, p, sent, asked, stops>>
    BY <1>23 DEF LateWork
  <2> QED
    BY <2>1, <2>2, <2>3
<1>24. CASE Edit
  BY <1>24 DEF Edit, Trouble
<1>25. CASE OperatorPrepares
  BY <1>25 DEF OperatorPrepares
<1>26. CASE CutAdd
  BY <1>26 DEF CutAdd, Trouble
<1>27. CASE Rest \/ UNCHANGED vars
  <2>1. UNCHANGED vars
    BY <1>27, <1>j
  <2> QED
    BY <2>1
<1> QED
  BY <1>1, <1>2, <1>3, <1>4, <1>5, <1>6, <1>7, <1>8, <1>9, <1>10,
     <1>11, <1>12, <1>13, <1>14, <1>15, <1>16, <1>17, <1>18, <1>19, <1>20,
     <1>21, <1>22, <1>23, <1>24, <1>25, <1>26, <1>27
  DEF Next, Execute

LEMMA TypesStep == Types /\ [Next]_vars => Types'
  BY ControlStep, DataStep DEF Control, Data, Types, TypeOK, At

-----------------------------------------------------------------------------
(* What the agent is asked about.                                          *)

LEMMA SubjectInit == Init => SubjectInv
  BY DEF Init, SubjectInv, NoExecution, PlainFiles, OneSubject, SameIdentity, SessionLoaded

LEMMA SubjectStep == Inv /\ [Next]_vars => SubjectInv'
<1> SUFFICES ASSUME Types, SubjectInv, [Next]_vars PROVE SubjectInv'
  BY DEF Inv
<1> USE NoOneAssumption, MaxStopsAssumption
    DEF At, Goto, Return, ContinueIf, NoExecution, vars, disk, stored, agent,
        outside, history,
        Types, TypeOK, Locals, PlainFiles, ProgramPoints,
        SubjectInv, OneSubject, SameIdentity, SessionLoaded
<1>1. ASSUME NEW c \in Controllers, Select(c) PROVE SubjectInv'
  BY <1>1 DEF Select
<1>2. ASSUME NEW c \in Controllers, TakeLease(c) PROVE SubjectInv'
  BY <1>2, TakeLeaseFacts
<1>3. ASSUME NEW f \in PlainFiles, OpenFile(f) PROVE SubjectInv'
  BY <1>3 DEF OpenFile, Writing
<1>4. ASSUME NEW f \in PlainFiles, WriteFile(f) PROVE SubjectInv'
  BY <1>4 DEF WriteFile, Writing, AfterFile
<1>5. ASSUME NEW f \in PlainFiles, ReadFile(f) PROVE SubjectInv'
  BY <1>5 DEF ReadFile, AfterFile
<1>6. CASE CheckFinished
  BY <1>6 DEF CheckFinished
<1>7. CASE AddWorktree
  BY <1>7 DEF AddWorktree
<1>8. CASE Checkout
  BY <1>8 DEF Checkout
<1>9. CASE PlanRun
  BY <1>9, PlanRunFacts
<1>10. CASE PersistIdle
  BY <1>10 DEF PersistIdle
<1>11. CASE RunCommand
  BY <1>11, CurrentFacts DEF RunCommand, Send, Turn, Work
<1>12. CASE ValidateSettlement
  BY <1>12 DEF ValidateSettlement
<1>13. CASE BeginCheckpoint
  BY <1>13 DEF BeginCheckpoint
<1>14. CASE EndCheckpoint
  BY <1>14, ListFacts DEF EndCheckpoint
<1>15. CASE StoreSelection
  BY <1>15, StoreSelectionFacts
<1>16. CASE FinishCommands
  BY <1>16, FinishCommandsFacts
<1>17. CASE CommitCandidate
  BY <1>17, CommitFacts
<1>18. CASE VerifyCommit
  BY <1>18 DEF VerifyCommit
<1>19. CASE PublishBranch
  BY <1>19 DEF PublishBranch
<1>20. CASE CreatePull
  BY <1>20 DEF CreatePull
<1>21. CASE Stop
  BY <1>21 DEF Stop, Trouble
<1>22. CASE CutOff
  BY <1>22, CurrentFacts DEF CutOff, Send, Trouble
<1>23. CASE LateWork
  BY <1>23 DEF LateWork, Turn, Work
<1>24. CASE Edit
  BY <1>24 DEF Edit, Trouble
<1>25. CASE OperatorPrepares
  BY <1>25 DEF OperatorPrepares
<1>26. CASE CutAdd
  BY <1>26 DEF CutAdd, Trouble
<1>27. CASE Rest \/ UNCHANGED vars
  BY <1>27 DEF Rest
<1> QED
  BY <1>1, <1>2, <1>3, <1>4, <1>5, <1>6, <1>7, <1>8, <1>9, <1>10,
     <1>11, <1>12, <1>13, <1>14, <1>15, <1>16, <1>17, <1>18, <1>19, <1>20,
     <1>21, <1>22, <1>23, <1>24, <1>25, <1>26, <1>27
  DEF Next, Execute

-----------------------------------------------------------------------------
(* What is committed was verified.                                         *)

LEMMA CandidateInit == Init => CandidateInv
  BY DEF Init, CandidateInv, NoExecution, PlainFiles, PublishedIsVerified

LEMMA CandidateStep == Inv /\ [Next]_vars => CandidateInv'
<1> SUFFICES ASSUME Types, CandidateInv, [Next]_vars PROVE CandidateInv'
  BY DEF Inv
<1> USE NoOneAssumption, MaxStopsAssumption
    DEF At, Goto, Return, ContinueIf, NoExecution, vars, disk, stored, agent,
        outside, history,
        Types, TypeOK, Locals, PlainFiles, ProgramPoints,
        CandidateInv, PublishedIsVerified
<1>1. ASSUME NEW c \in Controllers, Select(c) PROVE CandidateInv'
  BY <1>1 DEF Select
<1>2. ASSUME NEW c \in Controllers, TakeLease(c) PROVE CandidateInv'
  BY <1>2, TakeLeaseFacts
<1>3. ASSUME NEW f \in PlainFiles, OpenFile(f) PROVE CandidateInv'
  BY <1>3 DEF OpenFile, Writing
<1>4. ASSUME NEW f \in PlainFiles, WriteFile(f) PROVE CandidateInv'
  BY <1>4 DEF WriteFile, Writing, AfterFile
<1>5. ASSUME NEW f \in PlainFiles, ReadFile(f) PROVE CandidateInv'
  BY <1>5 DEF ReadFile, AfterFile
<1>6. CASE CheckFinished
  BY <1>6 DEF CheckFinished
<1>7. CASE AddWorktree
  BY <1>7 DEF AddWorktree
<1>8. CASE Checkout
  BY <1>8 DEF Checkout
<1>9. CASE PlanRun
  BY <1>9, PlanRunFacts
<1>10. CASE PersistIdle
  BY <1>10 DEF PersistIdle
<1>11. CASE RunCommand
  BY <1>11, CurrentFacts DEF RunCommand, Send, Turn, Work
<1>12. CASE ValidateSettlement
  BY <1>12 DEF ValidateSettlement
<1>13. CASE BeginCheckpoint
  BY <1>13 DEF BeginCheckpoint
<1>14. CASE EndCheckpoint
  BY <1>14, ListFacts DEF EndCheckpoint
<1>15. CASE StoreSelection
  BY <1>15, StoreSelectionFacts
<1>16. CASE FinishCommands
  BY <1>16, FinishCommandsFacts
<1>17. CASE CommitCandidate
  BY <1>17, CommitFacts
<1>18. CASE VerifyCommit
  BY <1>18 DEF VerifyCommit
<1>19. CASE PublishBranch
  BY <1>19 DEF PublishBranch
<1>20. CASE CreatePull
  BY <1>20 DEF CreatePull
<1>21. CASE Stop
  BY <1>21 DEF Stop, Trouble
<1>22. CASE CutOff
  BY <1>22, CurrentFacts DEF CutOff, Send, Trouble
<1>23. CASE LateWork
  BY <1>23 DEF LateWork, Turn, Work
<1>24. CASE Edit
  BY <1>24 DEF Edit, Trouble
<1>25. CASE OperatorPrepares
  BY <1>25 DEF OperatorPrepares
<1>26. CASE CutAdd
  BY <1>26 DEF CutAdd, Trouble
<1>27. CASE Rest \/ UNCHANGED vars
  BY <1>27 DEF Rest
<1> QED
  BY <1>1, <1>2, <1>3, <1>4, <1>5, <1>6, <1>7, <1>8, <1>9, <1>10,
     <1>11, <1>12, <1>13, <1>14, <1>15, <1>16, <1>17, <1>18, <1>19, <1>20,
     <1>21, <1>22, <1>23, <1>24, <1>25, <1>26, <1>27
  DEF Next, Execute

-----------------------------------------------------------------------------
(* What the completion says.                                               *)

LEMMA CompletionInit == Init => CompletionInv
  BY DEF Init, CompletionInv, NoExecution, PlainFiles, Sound

LEMMA CompletionStep == Inv /\ [Next]_vars => CompletionInv'
<1> SUFFICES ASSUME Types, CompletionInv, [Next]_vars PROVE CompletionInv'
  BY DEF Inv
<1> USE NoOneAssumption, MaxStopsAssumption
    DEF At, Goto, Return, ContinueIf, NoExecution, vars, disk, stored, agent,
        outside, history,
        Types, TypeOK, Locals, PlainFiles, ProgramPoints,
        CompletionInv, Sound
<1>1. ASSUME NEW c \in Controllers, Select(c) PROVE CompletionInv'
  BY <1>1 DEF Select
<1>2. ASSUME NEW c \in Controllers, TakeLease(c) PROVE CompletionInv'
  BY <1>2, TakeLeaseFacts
<1>3. ASSUME NEW f \in PlainFiles, OpenFile(f) PROVE CompletionInv'
  BY <1>3 DEF OpenFile, Writing
<1>4. ASSUME NEW f \in PlainFiles, WriteFile(f) PROVE CompletionInv'
  BY <1>4 DEF WriteFile, Writing, AfterFile
<1>5. ASSUME NEW f \in PlainFiles, ReadFile(f) PROVE CompletionInv'
  BY <1>5 DEF ReadFile, AfterFile
<1>6. CASE CheckFinished
  BY <1>6 DEF CheckFinished
<1>7. CASE AddWorktree
  BY <1>7 DEF AddWorktree
<1>8. CASE Checkout
  BY <1>8 DEF Checkout
<1>9. CASE PlanRun
  BY <1>9, PlanRunFacts
<1>10. CASE PersistIdle
  BY <1>10 DEF PersistIdle
<1>11. CASE RunCommand
  BY <1>11, CurrentFacts DEF RunCommand, Send, Turn, Work
<1>12. CASE ValidateSettlement
  BY <1>12 DEF ValidateSettlement
<1>13. CASE BeginCheckpoint
  BY <1>13 DEF BeginCheckpoint
<1>14. CASE EndCheckpoint
  BY <1>14, ListFacts DEF EndCheckpoint
<1>15. CASE StoreSelection
  BY <1>15, StoreSelectionFacts
<1>16. CASE FinishCommands
  BY <1>16, FinishCommandsFacts
<1>17. CASE CommitCandidate
  BY <1>17, CommitFacts
<1>18. CASE VerifyCommit
  BY <1>18 DEF VerifyCommit
<1>19. CASE PublishBranch
  BY <1>19 DEF PublishBranch
<1>20. CASE CreatePull
  BY <1>20 DEF CreatePull
<1>21. CASE Stop
  BY <1>21 DEF Stop, Trouble
<1>22. CASE CutOff
  BY <1>22, CurrentFacts DEF CutOff, Send, Trouble
<1>23. CASE LateWork
  BY <1>23 DEF LateWork, Turn, Work
<1>24. CASE Edit
  BY <1>24 DEF Edit, Trouble
<1>25. CASE OperatorPrepares
  BY <1>25 DEF OperatorPrepares
<1>26. CASE CutAdd
  BY <1>26 DEF CutAdd, Trouble
<1>27. CASE Rest \/ UNCHANGED vars
  BY <1>27 DEF Rest
<1> QED
  BY <1>1, <1>2, <1>3, <1>4, <1>5, <1>6, <1>7, <1>8, <1>9, <1>10,
     <1>11, <1>12, <1>13, <1>14, <1>15, <1>16, <1>17, <1>18, <1>19, <1>20,
     <1>21, <1>22, <1>23, <1>24, <1>25, <1>26, <1>27
  DEF Next, Execute

-----------------------------------------------------------------------------
(* Selections and idle work.                                               *)

LEMMA SelectionInit == Init => SelectionInv
  BY DEF Init, SelectionInv, NoExecution, PlainFiles, SelectionFirst, IdleLeavesNothing, SessionLoaded, Publishing

LEMMA SelectionStep == Inv /\ [Next]_vars => SelectionInv'
<1> SUFFICES ASSUME Types, SelectionInv, [Next]_vars PROVE SelectionInv'
  BY DEF Inv
<1> USE NoOneAssumption, MaxStopsAssumption
    DEF At, Goto, Return, ContinueIf, NoExecution, vars, disk, stored, agent,
        outside, history,
        Types, TypeOK, Locals, PlainFiles, ProgramPoints,
        SelectionInv, SelectionFirst, IdleLeavesNothing, SessionLoaded, Publishing
<1>1. ASSUME NEW c \in Controllers, Select(c) PROVE SelectionInv'
  BY <1>1 DEF Select
<1>2. ASSUME NEW c \in Controllers, TakeLease(c) PROVE SelectionInv'
  BY <1>2, TakeLeaseFacts
<1>3. ASSUME NEW f \in PlainFiles, OpenFile(f) PROVE SelectionInv'
  BY <1>3 DEF OpenFile, Writing
<1>4. ASSUME NEW f \in PlainFiles, WriteFile(f) PROVE SelectionInv'
  BY <1>4 DEF WriteFile, Writing, AfterFile
<1>5. ASSUME NEW f \in PlainFiles, ReadFile(f) PROVE SelectionInv'
  BY <1>5 DEF ReadFile, AfterFile
<1>6. CASE CheckFinished
  BY <1>6 DEF CheckFinished
<1>7. CASE AddWorktree
  BY <1>7 DEF AddWorktree
<1>8. CASE Checkout
  BY <1>8 DEF Checkout
<1>9. CASE PlanRun
  BY <1>9, PlanRunFacts
<1>10. CASE PersistIdle
  BY <1>10 DEF PersistIdle
<1>11. CASE RunCommand
  BY <1>11, CurrentFacts DEF RunCommand, Send, Turn, Work
<1>12. CASE ValidateSettlement
  BY <1>12 DEF ValidateSettlement
<1>13. CASE BeginCheckpoint
  BY <1>13 DEF BeginCheckpoint
<1>14. CASE EndCheckpoint
  BY <1>14, ListFacts DEF EndCheckpoint
<1>15. CASE StoreSelection
  BY <1>15, StoreSelectionFacts
<1>16. CASE FinishCommands
  BY <1>16, FinishCommandsFacts
<1>17. CASE CommitCandidate
  BY <1>17, CommitFacts
<1>18. CASE VerifyCommit
  BY <1>18 DEF VerifyCommit
<1>19. CASE PublishBranch
  BY <1>19 DEF PublishBranch
<1>20. CASE CreatePull
  BY <1>20 DEF CreatePull
<1>21. CASE Stop
  BY <1>21 DEF Stop, Trouble
<1>22. CASE CutOff
  BY <1>22, CurrentFacts DEF CutOff, Send, Trouble
<1>23. CASE LateWork
  BY <1>23 DEF LateWork, Turn, Work
<1>24. CASE Edit
  BY <1>24 DEF Edit, Trouble
<1>25. CASE OperatorPrepares
  BY <1>25 DEF OperatorPrepares
<1>26. CASE CutAdd
  BY <1>26 DEF CutAdd, Trouble
<1>27. CASE Rest \/ UNCHANGED vars
  BY <1>27 DEF Rest
<1> QED
  BY <1>1, <1>2, <1>3, <1>4, <1>5, <1>6, <1>7, <1>8, <1>9, <1>10,
     <1>11, <1>12, <1>13, <1>14, <1>15, <1>16, <1>17, <1>18, <1>19, <1>20,
     <1>21, <1>22, <1>23, <1>24, <1>25, <1>26, <1>27
  DEF Next, Execute

-----------------------------------------------------------------------------
(* The theorems.                                                           *)

LEMMA InvHolds == Spec => []Inv
<1>1. Init => Inv
  BY TypesInit, SubjectInit, CandidateInit, CompletionInit, SelectionInit DEF Inv
<1>2. Inv /\ [Next]_vars => Inv'
  <2>1. Inv => Types
    BY DEF Inv
  <2> QED
    BY <2>1, TypesStep, SubjectStep, CandidateStep, CompletionStep, SelectionStep DEF Inv
<1> QED
  BY <1>1, <1>2, PTL DEF Spec

\* The files of the retained run, the session, the branch and the locals of
\* the execution have the values the code gives them; an execution under way
\* holds the lease.
THEOREM SeniorTyped == Spec => []TypeOK
<1>1. Inv => TypeOK
  BY DEF Inv, Types
<1> QED
  BY <1>1, InvHolds, PTL

\* One retained run asks the agent about one outcome, or one HEAD, only:
\* through the reservation and the stored base, which each execution compares
\* with its own selection before it prompts (SubjectInv).
THEOREM SubjectIsKept == Spec => []OneSubject
<1>1. Inv => OneSubject
  BY DEF Inv, SubjectInv
<1> QED
  BY <1>1, InvHolds, PTL

\* Nothing is committed, pushed or proposed that no verification turn called
\* VERIFIED, but for what a late agent changed: a settled VERIFIED always is
\* about the workspace as it stands (CandidateInv).
THEOREM PublishedWasVerified == Spec => []PublishedIsVerified
<1>1. Inv => PublishedIsVerified
  BY DEF Inv, CandidateInv
<1> QED
  BY <1>1, InvHolds, PTL

\* A stored completion describes the branch and the pull request, which hold
\* the candidate that passed the host's verification (CompletionInv).
THEOREM CompletionIsTrue == Spec => []CompletionHolds
<1>1. Inv => CompletionHolds
  BY DEF Inv, CompletionInv, CompletionHolds, Sound
<1> QED
  BY <1>1, InvHolds, PTL

\* A maintenance cycle sends no creating command before its selection is
\* stored (SelectionInv ties the command list to the selection).
THEOREM SelectionComesFirst == Spec => []SelectionFirst
<1>1. Inv => SelectionFirst
  BY DEF Inv, SelectionInv
<1> QED
  BY <1>1, InvHolds, PTL

\* Idle work has published nothing and left the workspace to late agents only.
THEOREM IdleIsClean == Spec => []IdleLeavesNothing
<1>1. Inv => IdleLeavesNothing
  BY DEF Inv, SelectionInv
<1> QED
  BY <1>1, InvHolds, PTL

=============================================================================
