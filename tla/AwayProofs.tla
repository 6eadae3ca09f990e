------------------------------ MODULE AwayProofs ------------------------------
(***************************************************************************)
(* What the production controller keeps, for any number of processes, runs *)
(* and cards, any states of the repository and any number of troubles.     *)
(***************************************************************************)
EXTENDS AwayController, SequenceTheorems, WellFoundedInduction,
        FiniteSetTheorems, TLAPS

Entry == [rec : L!Record, seq : Nat \ {0}]
Receipt == [state : {"missing", "partial", "stored"}, prompts : Prompts \union {0}]
PullStates == {"draft", "ready", "closed"}
Locals == [pc : Labels, run : RunIds \union {NoRun}, seen : Checkouts,
           card : CardIds \union {0}, view : Seq(L!Record), ev : SUBSET Phases,
           phase : Phases, next : Statuses, prompts : Prompts,
           number : PullNumbers]

-----------------------------------------------------------------------------
(* Sequences and minima.                                                   *)

LEMMA Least ==
    ASSUME NEW S \in SUBSET Nat, S # {}
    PROVE  \E x \in S : \A y \in S : x <= y
<1>1. PICK x \in S : \A y \in S : ~ (<<y, x>> \in OpToRel(<, Nat))
  BY WFMin, NatLessThanWellFounded
<1>2. \A y \in S : ~(y < x)
  BY <1>1 DEF OpToRel
<1> QED
  BY <1>2

LEMMA Greatest ==
    ASSUME NEW n \in Nat, NEW S \in SUBSET (1..n), S # {}
    PROVE  \E x \in S : \A y \in S : y <= x
<1> DEFINE T == { n - x : x \in S }
<1>1. T \subseteq Nat
  <2>1. \A x \in S : n - x \in Nat
    OBVIOUS
  <2> QED
    BY <2>1
<1>2. T # {}
  OBVIOUS
<1>3. PICK t \in T : \A u \in T : t <= u
  <2> HIDE DEF T
  <2> QED
    BY <1>1, <1>2, Least
<1>4. PICK x \in S : t = n - x
  BY <1>3
<1>5. \A y \in S : n - x <= n - y
  BY <1>3, <1>4
<1>6. 1..n \subseteq Nat
  OBVIOUS
<1>7. \A y \in S : y \in Nat /\ x \in Nat
  BY <1>6
<1> QED
  BY <1>5, <1>7

LEMMA Appended ==
    ASSUME NEW S, NEW h \in Seq(S), NEW x \in S
    PROVE  /\ Append(h, x) \in Seq(S)
           /\ Len(h) \in Nat
           /\ Len(Append(h, x)) = Len(h) + 1
           /\ 1..Len(Append(h, x)) = (1..Len(h)) \union {Len(h) + 1}
           /\ \A i \in 1..Len(h) : Append(h, x)[i] = h[i]
           /\ Append(h, x)[Len(h) + 1] = x
  BY AppendProperties

LEMMA Elements ==
    ASSUME NEW S, NEW h \in Seq(S)
    PROVE  /\ Len(h) \in Nat /\ DOMAIN h = 1..Len(h)
           /\ \A i \in 1..Len(h) : h[i] \in S
  BY LenProperties, ElementOfSeq

\* An invariant of the present reads like the one of the next state.
LEMMA TypesOf ==
    TypeOK <=>
    /\ together \in BOOLEAN
    /\ ledger \in Seq(Entry)
    /\ lease \subseteq Controllers
    /\ repo \in Checkouts
    /\ tree \in [RunIds -> {"missing", "partial", "ready"}]
    /\ work \in [RunIds -> SUBSET {"plan", "todo", "code"}]
    /\ receipts \in [RunIds -> [Phases -> Receipt]]
    /\ ref \subseteq RunIds /\ meddled \subseteq RunIds
    /\ remote \in [RunIds -> {"absent", "match", "divergent"}]
    /\ pulls \in [RunIds -> Seq(PullStates)]
    /\ ctl \in [Controllers -> Locals]
    /\ troubles \in 0..(MaxTroubles + MaxTogether)
  BY DEF TypeOK, Entry, Receipt, PullStates, Locals

LEMMA HistoryIs ==
    ASSUME ledger \in Seq(Entry)
    PROVE  /\ History \in Seq(L!Record)
           /\ Len(History) = Len(ledger)
           /\ \A i \in 1..Len(ledger) : History[i] = ledger[i].rec
<1>1. Len(ledger) \in Nat /\ \A i \in 1..Len(ledger) : ledger[i] \in Entry
  BY Elements
<1>2. \A i \in 1..Len(ledger) : ledger[i].rec \in L!Record
  BY <1>1 DEF Entry
<1> QED
  BY <1>1, <1>2 DEF History

\* The newest record of a run is one of its records, and none is newer.
LEMMA NewestIs ==
    ASSUME ledger \in Seq(Entry), NEW run \in Known
    PROVE  \E i \in 1..Len(ledger) :
              /\ RunOf(i) = run /\ Newest(run) = ledger[i].rec
              /\ \A j \in 1..Len(ledger) : RunOf(j) = run => j <= i
<1> DEFINE own == { i \in 1..Len(ledger) : RunOf(i) = run }
<1>1. own \in SUBSET (1..Len(ledger)) /\ own # {}
  BY DEF Known
<1>2. Len(ledger) \in Nat
  BY Elements
<1>3. \E i \in own : \A j \in own : j <= i
  <2> HIDE DEF own
  <2> QED
    BY <1>1, <1>2, Greatest
<1>4. PICK i \in own : /\ Newest(run) = ledger[i].rec
                       /\ \A j \in own : j <= i
  BY <1>3 DEF Newest
<1> QED
  BY <1>4

\* First finds the least.
LEMMA FirstIs ==
    ASSUME NEW S \in SUBSET CardIds, S # {}
    PROVE  First(S) \in S /\ \A other \in S : First(S) <= other
<1>1. S \in SUBSET Nat
  BY BoundsAssumption DEF BoundsAssumption, CardIds
<1>2. \E x \in S : \A y \in S : x <= y
  BY <1>1, Least
<1> QED
  BY <1>2 DEF First

\* Every forward status but the last has its successor.
LEMMA Successors ==
    /\ Successor("reserved") = "workspace_observed"
    /\ Successor("workspace_observed") = "candidate_observed"
    /\ Successor("candidate_observed") = "commit_observed"
    /\ Successor("commit_observed") = "verified"
    /\ Successor("verified") = "push_intent"
    /\ Successor("push_intent") = "push_observed"
    /\ Successor("push_observed") = "pr_intent"
    /\ Successor("pr_intent") = "pr_observed"
    /\ Successor("pr_observed") = "completed"
<1>1. \A i \in 1..9 : Successor(StatusOrder[i]) = StatusOrder[i + 1]
  BY DEF Successor, NextStatus, StatusOrder, Statuses
<1> QED
  BY <1>1 DEF StatusOrder

LEMMA StatusesAre ==
    Statuses = {"reserved", "workspace_observed", "candidate_observed",
                "commit_observed", "verified", "push_intent", "push_observed",
                "pr_intent", "pr_observed", "completed", "blocked", "aborted"}
<1>1. 1..Len(StatusOrder) = 1..10
  BY DEF StatusOrder
<1> QED
  BY <1>1 DEF Statuses, StatusOrder, Stops

\* The reducer has the same lifecycle.
LEMMA OneLifecycle ==
    /\ L!StatusOrder = StatusOrder /\ L!Stops = Stops /\ L!Terminal = Terminal
    /\ L!Statuses = Statuses
    /\ \A s, t : L!NextStatus(s, t) <=> NextStatus(s, t)
    /\ \A s, t : L!Advances(s, t) <=> Advances(s, t)
<1>1. L!StatusOrder = StatusOrder /\ L!Stops = Stops /\ L!Terminal = Terminal
  BY DEF L!StatusOrder, StatusOrder, L!Stops, Stops, L!Terminal, Terminal
<1>2. L!Statuses = Statuses
  BY <1>1 DEF L!Statuses, Statuses
<1>3. \A s, t : L!NextStatus(s, t) <=> NextStatus(s, t)
  BY <1>1 DEF L!NextStatus, NextStatus
<1> QED
  BY <1>1, <1>2, <1>3 DEF L!Advances, Advances

-----------------------------------------------------------------------------
(* What the steps do.  Becomes: a process goes from its locals to r.       *)

Becomes(c, r) == r \in Locals /\ ctl' = [ctl EXCEPT ![c] = r]

LEMMA BecomesIs ==
    ASSUME TypeOK, NEW c \in Controllers, NEW r, Becomes(c, r)
    PROVE  /\ ctl' \in [Controllers -> Locals] /\ ctl'[c] = r
           /\ \A d \in Controllers \ {c} : ctl'[d] = ctl[d]
  BY TypesOf DEF Becomes

LEMMA IdleIs ==
    /\ Idle \in Locals
    /\ Idle.pc = "idle" /\ Idle.run = NoRun /\ Idle.view = << >> /\ Idle.number = 0
<1>1. AtFirst \in Checkouts /\ AtFirst.prompts \in Prompts
  BY CheckoutsAssumption DEF CheckoutsAssumption, Prompts
<1>2. 0 \in PullNumbers
  BY BoundsAssumption DEF BoundsAssumption, PullNumbers
<1>3. << >> \in Seq(L!Record)
  BY EmptySeq
<1> QED
  BY <1>1, <1>2, <1>3, StatusesAre DEF Idle, Locals, Labels, Phases

LEMMA EndIs ==
    ASSUME TypeOK, NEW c \in Controllers, End(c)
    PROVE  Becomes(c, Idle)
  BY IdleIs DEF End, Becomes

LEMMA GotoIs ==
    ASSUME TypeOK, NEW c \in Controllers, NEW label \in Labels, Goto(c, label)
    PROVE  /\ Becomes(c, [ctl[c] EXCEPT !.pc = label])
           /\ ctl'[c] = [ctl[c] EXCEPT !.pc = label]
<1>1. ctl \in [Controllers -> Locals]
  BY TypesOf
<1>2. [ctl[c] EXCEPT !.pc = label] \in Locals
  BY <1>1 DEF Locals
<1>3. ctl' = [ctl EXCEPT ![c] = [ctl[c] EXCEPT !.pc = label]]
  BY <1>1 DEF Goto
<1> QED
  BY <1>1, <1>2, <1>3 DEF Becomes

\* The phases: nothing is appended, and nobody outside is asked for anything.
Walking == {"load", "checkout", "phase", "settle", "receipt", "flush",
            "candidate", "effects", "decide"}

Walked(c, r) ==
    /\ ctl[c].pc \in Walking
    /\ \/ r = Idle
       \/ /\ r.pc \in Walking
          /\ r.run = ctl[c].run /\ r.view = ctl[c].view
          /\ r.number = ctl[c].number /\ r.next = ctl[c].next

\* What the host has of a run does not go away.
HostGrows ==
    /\ ref \subseteq ref'
    /\ \A run \in RunIds : receipts[run]["verify"].state = "stored" =>
          receipts'[run]["verify"].state = "stored"

Walks(c) ==
    /\ \E r \in Locals : Becomes(c, r) /\ Walked(c, r)
    /\ tree' \in [RunIds -> {"missing", "partial", "ready"}]
    /\ work' \in [RunIds -> SUBSET {"plan", "todo", "code"}]
    /\ receipts' \in [RunIds -> [Phases -> Receipt]]
    /\ ref' \subseteq RunIds
    /\ HostGrows
    /\ UNCHANGED <<together, ledger, lease, repo, remote, pulls, meddled, troubles>>

\* One of the steps of the phases.
PhaseStep(c) ==
    \/ LoadEvidence(c) \/ AddWorktree(c) \/ CheckOut(c) \/ InvokePhase(c)
    \/ SettleFile(c) \/ CreateReceipt(c) \/ FlushReceipt(c)
    \/ CommitCandidate(c) \/ OpenEffects(c)

\* Every process past its selection has drawn a run id.
HasRun == \A c \in Controllers : ctl[c].pc # "idle" => ctl[c].run \in RunIds

LEMMA Afterwards ==
    ASSUME NEW p \in Phases
    PROVE  After(p)[1] \in {"phase", "candidate", "effects"} /\ After(p)[2] \in Phases
  BY DEF After, Phases

LEMMA PhaseStepWalks ==
    ASSUME TypeOK, HasRun, NEW c \in Controllers, PhaseStep(c)
    PROVE  Walks(c)
<1> DEFINE run == ctl[c].run
           p == ctl[c].phase
<1>1. /\ ctl \in [Controllers -> Locals] /\ ctl[c] \in Locals
      /\ tree \in [RunIds -> {"missing", "partial", "ready"}]
      /\ work \in [RunIds -> SUBSET {"plan", "todo", "code"}]
      /\ receipts \in [RunIds -> [Phases -> Receipt]]
      /\ ref \subseteq RunIds /\ repo \in Checkouts
  BY TypesOf
<1>2. p \in Phases
  BY <1>1 DEF Locals
<1>3. ctl[c].pc # "idle" => run \in RunIds
  BY DEF HasRun
<1>4. ASSUME UNCHANGED <<tree, work, receipts, ref>>
      PROVE  /\ tree' \in [RunIds -> {"missing", "partial", "ready"}]
             /\ work' \in [RunIds -> SUBSET {"plan", "todo", "code"}]
             /\ receipts' \in [RunIds -> [Phases -> Receipt]]
             /\ ref' \subseteq RunIds
             /\ HostGrows
  BY <1>1, <1>4 DEF HostGrows
<1>5. ASSUME End(c)
      PROVE  \E r \in Locals : Becomes(c, r) /\ Walked(c, r)
  <2>1. ctl[c].pc \in Walking
    BY DEF PhaseStep, LoadEvidence, AddWorktree, CheckOut, InvokePhase, SettleFile,
           CreateReceipt, FlushReceipt, CommitCandidate, OpenEffects, At, Walking
  <2> QED
    BY <1>5, <2>1, EndIs, IdleIs DEF Walked
<1>6. ASSUME NEW label \in Walking, ctl[c].pc \in Walking, Goto(c, label)
      PROVE  \E r \in Locals : Becomes(c, r) /\ Walked(c, r)
  <2>1. label \in Labels
    BY DEF Walking, Labels
  <2>2. Becomes(c, [ctl[c] EXCEPT !.pc = label])
    BY <1>6, <2>1, GotoIs
  <2>3. Walked(c, [ctl[c] EXCEPT !.pc = label])
    BY <1>1, <1>6 DEF Walked, Locals
  <2> QED
    BY <2>2, <2>3 DEF Becomes
<1>7. \A s \in {"phase", "candidate", "effects", "settle", "receipt"} :
          s \in Walking /\ s \in Labels
  BY DEF Walking, Labels
<1>8. CASE LoadEvidence(c)
  <2>1. CASE EvidenceLoads(run)
    <3> DEFINE r == [ctl[c] EXCEPT !.pc = "phase", !.ev = Stored(run)]
    <3>1. Stored(run) \subseteq Phases
      BY DEF Stored
    <3>2. ctl' = [ctl EXCEPT ![c] = r]
      BY <1>1, <1>8, <2>1 DEF LoadEvidence
    <3>3. r \in Locals
      BY <1>1, <1>7, <3>1 DEF Locals
    <3>4. Walked(c, r)
      BY <1>1, <1>8 DEF Walked, Locals, Walking, LoadEvidence, At
    <3> QED
      BY <1>4, <1>8, <3>2, <3>3, <3>4 DEF LoadEvidence, Walks, Becomes, host, github
  <2>2. CASE ~EvidenceLoads(run)
    BY <1>4, <1>5, <1>8, <2>2 DEF LoadEvidence, Walks, host, github
  <2> QED
    BY <2>1, <2>2
<1>9. CASE AddWorktree(c)
  <2>1. tree' \in [RunIds -> {"missing", "partial", "ready"}]
    BY <1>1, <1>9 DEF AddWorktree
  <2>2. "checkout" \in Walking /\ ctl[c].pc \in Walking
    BY <1>9 DEF AddWorktree, At, Walking
  <2> QED
    BY <1>1, <1>6, <1>9, <2>1, <2>2 DEF AddWorktree, Walks, HostGrows, github
<1>10. CASE CheckOut(c)
  <2>1. tree' \in [RunIds -> {"missing", "partial", "ready"}]
    BY <1>1, <1>10 DEF CheckOut
  <2>2. "phase" \in Walking /\ ctl[c].pc \in Walking
    BY <1>10 DEF CheckOut, At, Walking
  <2> QED
    BY <1>1, <1>6, <1>10, <2>1, <2>2 DEF CheckOut, Walks, HostGrows, github
<1>11. CASE InvokePhase(c)
  <2>1. ctl[c].pc \in Walking /\ repo.prompts \in Prompts
    BY <1>1, <1>11 DEF InvokePhase, At, Walking, Prompts
  <2>2. CASE ~WorkspaceAgrees(run, ctl[c].ev)
    BY <1>4, <1>5, <1>11, <2>2 DEF InvokePhase, Walks, host, github
  <2>3. CASE WorkspaceAgrees(run, ctl[c].ev) /\ p \in ctl[c].ev
    <3> DEFINE r == [ctl[c] EXCEPT !.pc = After(p)[1], !.phase = After(p)[2]]
    <3>1. ctl' = [ctl EXCEPT ![c] = r]
      BY <1>1, <1>11, <2>3 DEF InvokePhase
    <3>2. r \in Locals /\ Walked(c, r)
      <4> HIDE DEF p
      <4> QED
        BY <1>1, <1>2, <1>7, <2>1, Afterwards DEF Locals, Walked
    <3> QED
      BY <1>4, <1>11, <3>1, <3>2 DEF InvokePhase, Walks, Becomes, host, github
  <2>4. CASE WorkspaceAgrees(run, ctl[c].ev) /\ p \notin ctl[c].ev
    <3> DEFINE label == IF p = "verify" THEN "receipt" ELSE "settle"
               r == [ctl[c] EXCEPT !.pc = label, !.prompts = repo.prompts]
    <3>1. ctl' = [ctl EXCEPT ![c] = r]
      BY <1>1, <1>11, <2>4 DEF InvokePhase
    <3>2. label \in Walking /\ label \in Labels
      BY <1>7
    <3>3. r \in Locals /\ Walked(c, r)
      <4> HIDE DEF label
      <4> QED
        BY <1>1, <2>1, <3>2 DEF Locals, Walked
    <3> QED
      BY <1>4, <1>11, <3>1, <3>3 DEF InvokePhase, Walks, Becomes, host, github
  <2> QED
    BY <2>2, <2>3, <2>4
<1>12. CASE SettleFile(c)
  <2> DEFINE missing == FilesOf(p) \ work[run]
  <2>1. ctl[c].pc \in Walking /\ ctl[c].pc # "idle"
    BY <1>12 DEF SettleFile, At, Walking
  <2>2. CASE missing = {}
    BY <1>1, <1>4, <1>6, <1>7, <1>12, <2>1, <2>2 DEF SettleFile, Walks, github
  <2>3. CASE missing # {}
    <3>1. FilesOf(p) \subseteq {"plan", "todo", "code"}
      BY <1>2 DEF FilesOf, Phases
    <3>2. PICK f \in {"plan", "todo", "code"} :
              work' = [work EXCEPT ![run] = @ \union {f}]
      BY <1>12, <2>3, <3>1 DEF SettleFile
    <3>3. work' \in [RunIds -> SUBSET {"plan", "todo", "code"}]
      BY <1>1, <3>2
    <3>4. ctl' = [ctl EXCEPT ![c] = ctl[c]] /\ ctl[c] \in Locals
      BY <1>1, <1>12, <2>3 DEF SettleFile
    <3>5. Walked(c, ctl[c])
      BY <2>1 DEF Walked
    <3> QED
      BY <1>1, <1>12, <3>3, <3>4, <3>5
      DEF SettleFile, Walks, Becomes, HostGrows, github
  <2> QED
    BY <2>2, <2>3
<1>13. CASE CreateReceipt(c)
  <2>1. ctl[c].pc \in Walking /\ run \in RunIds
    BY <1>3, <1>13 DEF CreateReceipt, At, Walking
  <2>2. CASE receipts[run][p].state = "missing"
    <3>1. receipts' = [receipts EXCEPT ![run][p].state = "partial"] /\ Goto(c, "flush")
      BY <1>13, <2>2 DEF CreateReceipt
    <3>2. receipts' \in [RunIds -> [Phases -> Receipt]]
      <4> DEFINE partial == [receipts[run][p] EXCEPT !.state = "partial"]
      <4>1. partial \in Receipt
        <5>1. receipts[run][p] \in Receipt
          BY <1>1, <1>2, <2>1
        <5> QED
          BY <5>1 DEF Receipt
      <4>2. receipts' = [receipts EXCEPT ![run][p] = partial]
        BY <1>1, <1>2, <2>1, <3>1
      <4> HIDE DEF partial
      <4> QED
        BY <1>1, <1>2, <2>1, <4>1, <4>2
    <3>3. \A other \in RunIds : receipts[other]["verify"].state = "stored" =>
              receipts'[other]["verify"].state = "stored"
      BY <1>1, <1>2, <2>1, <2>2, <3>1 DEF Phases
    <3>4. "flush" \in Walking
      BY DEF Walking
    <3> QED
      BY <1>1, <1>6, <1>13, <2>1, <3>1, <3>2, <3>3, <3>4
      DEF CreateReceipt, Walks, HostGrows, github
  <2>3. CASE receipts[run][p].state # "missing"
    BY <1>4, <1>5, <1>13, <2>3 DEF CreateReceipt, Walks, github
  <2> QED
    BY <2>2, <2>3
<1>14. CASE FlushReceipt(c)
  <2>1. ctl[c].pc \in Walking /\ run \in RunIds
    BY <1>3, <1>14 DEF FlushReceipt, At, Walking
  <2> DEFINE stored == [state |-> "stored", prompts |-> ctl[c].prompts]
             r == [ctl[c] EXCEPT !.pc = After(p)[1], !.phase = After(p)[2],
                                 !.ev = @ \union {p}]
  <2>2. stored \in Receipt /\ stored.state = "stored"
    BY <1>1 DEF Receipt, Locals
  <2>3. receipts' = [receipts EXCEPT ![run][p] = stored] /\ ctl' = [ctl EXCEPT ![c] = r]
    BY <1>1, <1>14 DEF FlushReceipt
  <2>4. /\ receipts' \in [RunIds -> [Phases -> Receipt]]
        /\ \A other \in RunIds : receipts[other]["verify"].state = "stored" =>
              receipts'[other]["verify"].state = "stored"
    <3> HIDE DEF stored
    <3> QED
      BY <1>1, <1>2, <2>1, <2>2, <2>3 DEF Phases
  <2>5. r \in Locals /\ Walked(c, r)
    <3> HIDE DEF p
    <3> QED
      BY <1>1, <1>2, <1>7, <2>1, Afterwards DEF Locals, Walked
  <2> QED
    BY <1>1, <1>14, <2>3, <2>4, <2>5
    DEF FlushReceipt, Walks, Becomes, HostGrows, github
<1>15. CASE CommitCandidate(c)
  <2>1. ctl[c].pc \in Walking /\ run \in RunIds
    BY <1>3, <1>15 DEF CommitCandidate, At, Walking
  <2>2. CASE WorkspaceAgrees(run, ctl[c].ev)
    BY <1>1, <1>6, <1>7, <1>15, <2>1, <2>2 DEF CommitCandidate, Walks, HostGrows, github
  <2>3. CASE ~WorkspaceAgrees(run, ctl[c].ev)
    BY <1>4, <1>5, <1>15, <2>3 DEF CommitCandidate, Walks, github
  <2> QED
    BY <2>2, <2>3
<1>16. CASE OpenEffects(c)
  <2>1. "decide" \in Walking /\ ctl[c].pc \in Walking
    BY <1>16 DEF OpenEffects, At, Walking
  <2> QED
    BY <1>4, <1>5, <1>6, <1>16, <2>1 DEF OpenEffects, Walks, host, github
<1> QED
  BY <1>8, <1>9, <1>10, <1>11, <1>12, <1>13, <1>14, <1>15, <1>16 DEF PhaseStep

-----------------------------------------------------------------------------
(* Types.  That the identity of a record is there to be copied needs the   *)
(* process to have its run among the records it read (Sited); that the     *)
(* number of a pull request is bounded, that people close each before the  *)
(* next is opened (Pulled).                                                *)

Outside == {"publish", "confirm_push", "create_pr", "append"}
Loaded == Walking \union Outside

Sited(r, known) ==
    /\ r.pc # "idle" => r.run \in RunIds
    /\ r.pc = "reserve" => r.card \in CardIds
    /\ r.pc \in Loaded \union {"confirm", "open"} => r.run \in known
    /\ r.pc \in Loaded => \E i \in 1..Len(r.view) : r.view[i].run = r.run

Pulled(run) ==
    /\ \A n \in 1..Len(pulls[run]) : n < Len(pulls[run]) => pulls[run][n] = "closed"
    /\ run \notin meddled =>
          /\ Len(pulls[run]) <= 1
          /\ \A n \in 1..Len(pulls[run]) : pulls[run][n] = "draft"
    /\ together => run \notin meddled
    /\ ~together =>
          /\ Len(pulls[run]) <= troubles + 1
          /\ OpenPull(run) = 0 => Len(pulls[run]) <= troubles

Typed ==
    /\ TypeOK
    /\ ~together => troubles <= MaxTroubles
    /\ \A c \in Controllers : Sited(ctl[c], Known)
    /\ \A run \in RunIds : Pulled(run)

LEMMA OpenPullIs ==
    ASSUME TypeOK, NEW run \in RunIds
    PROVE  /\ Len(pulls[run]) \in Nat /\ DOMAIN pulls[run] = 1..Len(pulls[run])
           /\ \A n \in 1..Len(pulls[run]) : pulls[run][n] \in PullStates
           /\ OpenPull(run) = 0 <=> \A n \in 1..Len(pulls[run]) : pulls[run][n] = "closed"
           /\ OpenPull(run) # 0 =>
                 /\ OpenPull(run) \in 1..Len(pulls[run])
                 /\ pulls[run][OpenPull(run)] # "closed"
<1>1. pulls[run] \in Seq(PullStates)
  BY TypesOf
<1>2. /\ Len(pulls[run]) \in Nat /\ DOMAIN pulls[run] = 1..Len(pulls[run])
      /\ \A n \in 1..Len(pulls[run]) : pulls[run][n] \in PullStates
  BY <1>1, Elements
<1>3. CASE \E n \in 1..Len(pulls[run]) : pulls[run][n] # "closed"
  <2>1. /\ OpenPull(run) \in 1..Len(pulls[run])
        /\ pulls[run][OpenPull(run)] # "closed"
    BY <1>2, <1>3 DEF OpenPull
  <2> QED
    BY <1>2, <1>3, <2>1
<1>4. CASE \A n \in 1..Len(pulls[run]) : pulls[run][n] = "closed"
  BY <1>2, <1>4 DEF OpenPull
<1> QED
  BY <1>2, <1>3, <1>4

\* Only the last pull request of a run can be open, and it has its number.
LEMMA OpenIsLast ==
    ASSUME Typed, NEW run \in RunIds
    PROVE  /\ OpenPull(run) # 0 => OpenPull(run) = Len(pulls[run])
           /\ OpenPull(run) \in PullNumbers
           /\ OpenPull(run) = 0 => Len(pulls[run]) + 1 \in PullNumbers
           /\ run \notin meddled /\ OpenPull(run) = 0 => Len(pulls[run]) = 0
<1>1. Pulled(run) /\ TypeOK /\ (~together => troubles <= MaxTroubles)
  BY DEF Typed
<1>2. troubles \in Nat /\ MaxTroubles \in Nat
  BY <1>1, BoundsAssumption DEF TypeOK, BoundsAssumption
<1>3. OpenPull(run) # 0 => OpenPull(run) = Len(pulls[run])
  BY <1>1, OpenPullIs DEF Pulled
<1>4. run \notin meddled /\ OpenPull(run) = 0 => Len(pulls[run]) = 0
  <2>1. ASSUME run \notin meddled, OpenPull(run) = 0, Len(pulls[run]) # 0 PROVE FALSE
    <3>1. 1 \in 1..Len(pulls[run])
      BY <1>1, <2>1, OpenPullIs
    <3> QED
      BY <1>1, <2>1, <3>1, OpenPullIs DEF Pulled
  <2> QED
    BY <2>1
<1>5. Len(pulls[run]) \in Nat
  BY <1>1, OpenPullIs
<1>6. CASE together
  <2>1. Len(pulls[run]) <= 1 /\ run \notin meddled
    BY <1>1, <1>6 DEF Pulled
  <2> QED
    BY <1>2, <1>3, <1>4, <1>5, <2>1 DEF PullNumbers
<1>7. CASE ~together
  <2>1. /\ Len(pulls[run]) <= troubles + 1
        /\ OpenPull(run) = 0 => Len(pulls[run]) <= troubles
        /\ troubles <= MaxTroubles
    BY <1>1, <1>7 DEF Pulled
  <2> QED
    BY <1>2, <1>3, <1>4, <1>5, <2>1 DEF PullNumbers
<1> QED
  BY <1>6, <1>7

\* A step of one process that leaves the pull requests alone.
LEMMA TypedStep ==
    ASSUME Typed, NEW c \in Controllers, NEW r, Becomes(c, r),
           Known \subseteq Known', Sited(r, Known'),
           ledger' \in Seq(Entry), lease' \subseteq Controllers,
           tree' \in [RunIds -> {"missing", "partial", "ready"}],
           work' \in [RunIds -> SUBSET {"plan", "todo", "code"}],
           receipts' \in [RunIds -> [Phases -> Receipt]],
           ref' \subseteq RunIds,
           remote' \in [RunIds -> {"absent", "match", "divergent"}],
           UNCHANGED <<together, repo, pulls, meddled>>,
           \/ troubles' = troubles
           \/ troubles' = troubles + 1 /\ troubles' \in 0..(MaxTroubles + MaxTogether)
              /\ (~together => troubles' <= MaxTroubles)
    PROVE  Typed'
<1>1. TypeOK /\ (~together => troubles <= MaxTroubles)
  BY DEF Typed
<1>2. /\ ctl' \in [Controllers -> Locals] /\ ctl'[c] = r
      /\ \A d \in Controllers \ {c} : ctl'[d] = ctl[d]
  BY <1>1, BecomesIs
<1>3. TypeOK'
  <2>1. /\ together' \in BOOLEAN /\ repo' \in Checkouts /\ meddled' \subseteq RunIds
        /\ pulls' \in [RunIds -> Seq(PullStates)]
        /\ troubles' \in 0..(MaxTroubles + MaxTogether)
    BY <1>1, TypesOf
  <2> QED
    BY <1>2, <2>1 DEF TypeOK, Entry, Receipt, PullStates, Locals
<1>4. ~together' => troubles' <= MaxTroubles
  BY <1>1
<1>5. \A d \in Controllers : Sited(ctl'[d], Known')
  <2>1. ASSUME NEW d \in Controllers, d # c PROVE Sited(ctl'[d], Known')
    <3>1. Sited(ctl[d], Known) /\ ctl'[d] = ctl[d]
      BY <1>2, <2>1 DEF Typed
    <3> QED
      BY <3>1 DEF Sited
  <2> QED
    BY <1>2, <2>1
<1>6. \A run \in RunIds : Pulled(run)'
  <2>1. ASSUME NEW run \in RunIds PROVE Pulled(run)'
    <3>1. Pulled(run) /\ Len(pulls[run]) \in Nat /\ troubles \in Nat
      BY <1>1, OpenPullIs, BoundsAssumption DEF Typed, TypeOK, BoundsAssumption
    <3>2. OpenPull(run)' = OpenPull(run)
      BY DEF OpenPull
    <3>3. troubles' = troubles \/ troubles' = troubles + 1
      OBVIOUS
    <3> QED
      BY <3>1, <3>2, <3>3 DEF Pulled
  <2> QED
    BY <2>1
<1> QED
  BY <1>3, <1>4, <1>5, <1>6 DEF Typed

\* A process between its selection and the first phase.
Selects(c, r) ==
    /\ ctl[c].pc = "idle" /\ r.number = ctl[c].number
    /\ lease = {}
    /\ \/ r.pc = "open" /\ r.run \in Unfinished
       \/ r.pc = "baseline" /\ Unfinished = {} /\ r.run \in RunIds \ Known
    /\ \/ together /\ troubles < MaxTogether /\ troubles' = troubles + 1
       \/ ~together /\ c = (CHOOSE d \in Controllers : TRUE) /\ troubles' = troubles
    /\ UNCHANGED <<together, ledger, lease, repo, tree, work, receipts, ref,
                   remote, pulls, meddled>>

LEMMA SelectRunIs ==
    ASSUME TypeOK, NEW c \in Controllers, SelectRun(c)
    PROVE  \E r \in Locals : Becomes(c, r) /\ Selects(c, r)
<1>1. ctl \in [Controllers -> Locals] /\ ctl[c] \in Locals
  BY TypesOf
<1>2. /\ ctl[c].pc = "idle" /\ lease = {} /\ MayStart(c)
      /\ UNCHANGED <<together, ledger, lease, repo, tree, work, receipts, ref,
                     remote, pulls, meddled>>
  BY DEF SelectRun, At, host, github
<1>3. \/ together /\ troubles < MaxTogether /\ troubles' = troubles + 1
      \/ ~together /\ c = (CHOOSE d \in Controllers : TRUE) /\ troubles' = troubles
  BY <1>2 DEF MayStart
<1>4. CASE \E run \in Unfinished :
              ctl' = [ctl EXCEPT ![c].pc = "open", ![c].run = run]
  <2>1. PICK run \in Unfinished :
            ctl' = [ctl EXCEPT ![c].pc = "open", ![c].run = run]
    BY <1>4
  <2> DEFINE r == [ctl[c] EXCEPT !.pc = "open", !.run = run]
  <2>2. run \in RunIds
    <3>1. \A i \in 1..Len(ledger) : ledger[i] \in Entry
      BY TypesOf, Elements
    <3> QED
      BY <3>1 DEF Unfinished, Known, RunOf, Entry, L!Record
  <2>3. ctl' = [ctl EXCEPT ![c] = r] /\ r \in Locals
    BY <1>1, <2>1, <2>2 DEF Locals, Labels
  <2>4. r.pc = "open" /\ r.run = run /\ r.number = ctl[c].number
    BY <1>1 DEF Locals
  <2> HIDE DEF r
  <2> QED
    BY <1>2, <1>3, <2>1, <2>3, <2>4 DEF Becomes, Selects
<1>5. CASE /\ MayReserve /\ Fresh # {}
           /\ ctl' = [ctl EXCEPT ![c].pc = "baseline",
                                 ![c].run = CHOOSE run \in Fresh : TRUE]
  <2>1. PICK run \in Fresh :
            ctl' = [ctl EXCEPT ![c].pc = "baseline", ![c].run = run]
    BY <1>5
  <2> DEFINE r == [ctl[c] EXCEPT !.pc = "baseline", !.run = run]
  <2>2. run \in RunIds \ Known /\ Unfinished = {}
    BY <1>5 DEF Fresh, MayReserve
  <2>3. ctl' = [ctl EXCEPT ![c] = r] /\ r \in Locals
    BY <1>1, <2>1, <2>2 DEF Locals, Labels
  <2>4. r.pc = "baseline" /\ r.run = run /\ r.number = ctl[c].number
    BY <1>1 DEF Locals
  <2> HIDE DEF r
  <2> QED
    BY <1>2, <1>3, <2>1, <2>2, <2>3, <2>4 DEF Becomes, Selects
<1> QED
  BY <1>4, <1>5 DEF SelectRun

\* ReadBaseline and AcquireLease.
Prepares(c, r) ==
    /\ \/ r = Idle /\ lease' = lease
       \/ /\ r.run = ctl[c].run /\ r.number = ctl[c].number
          /\ \/ ctl[c].pc = "baseline" /\ r.pc = "lease" /\ lease' = lease
             \/ /\ ctl[c].pc = "lease" /\ r.pc = "replay"
                /\ lease = {} /\ lease' = lease \union {c}
    /\ ctl[c].pc \in {"baseline", "lease"}
    /\ UNCHANGED <<together, ledger, repo, tree, work, receipts, ref,
                   remote, pulls, meddled, troubles>>

LEMMA PrepareIs ==
    ASSUME TypeOK, NEW c \in Controllers, ReadBaseline(c) \/ AcquireLease(c)
    PROVE  \E r \in Locals : Becomes(c, r) /\ Prepares(c, r)
<1>1. ctl \in [Controllers -> Locals] /\ ctl[c] \in Locals /\ repo \in Checkouts
  BY TypesOf
<1>2. CASE ReadBaseline(c)
  <2>1. CASE repo.ready
    <3> DEFINE r == [ctl[c] EXCEPT !.pc = "lease", !.seen = repo]
    <3>1. ctl' = [ctl EXCEPT ![c] = r] /\ r \in Locals
      BY <1>1, <1>2, <2>1 DEF ReadBaseline, Locals, Labels
    <3>2. r.pc = "lease" /\ r.run = ctl[c].run /\ r.number = ctl[c].number
      BY <1>1 DEF Locals
    <3> HIDE DEF r
    <3> QED
      BY <1>2, <3>1, <3>2 DEF ReadBaseline, Becomes, Prepares, At, host, github
  <2>2. CASE ~repo.ready
    BY <1>2, <2>2, EndIs, IdleIs DEF ReadBaseline, Prepares, At, host, github
  <2> QED
    BY <2>1, <2>2
<1>3. CASE AcquireLease(c)
  <2>1. CASE LeaseFree
    <3> DEFINE r == [ctl[c] EXCEPT !.pc = "replay"]
    <3>1. Becomes(c, r)
      BY <1>3, <2>1, GotoIs DEF AcquireLease, Labels
    <3>2. r.pc = "replay" /\ r.run = ctl[c].run /\ r.number = ctl[c].number
      BY <1>1 DEF Locals
    <3> HIDE DEF r
    <3> QED
      BY <1>3, <2>1, <3>1, <3>2
      DEF AcquireLease, LeaseFree, Becomes, Prepares, At, host, github
  <2>2. CASE ~LeaseFree
    BY <1>3, <2>2, EndIs, IdleIs DEF AcquireLease, Prepares, At, host, github
  <2> QED
    BY <2>1, <2>2
<1> QED
  BY <1>2, <1>3

\* Under the lease: the records are read and a card is chosen.
Replays(c, r) ==
    /\ ctl[c].pc = "replay"
    /\ \/ r = Idle /\ lease' = lease \ {c}
       \/ /\ r.pc = "reserve" /\ r.run = ctl[c].run /\ r.number = ctl[c].number
          /\ r.card \in CardIds /\ r.view = History
          /\ lease' = lease
    /\ UNCHANGED <<together, ledger, repo, tree, work, receipts, ref,
                   remote, pulls, meddled, troubles>>

LEMMA EligibleIs ==
    ASSUME TypeOK, NEW h, NEW k \in Checkouts, NEW ns
    PROVE  Eligible(h, k.source, ns) \subseteq CardIds
<1>1. k.source \in Sources
  BY DEF Sources
<1> QED
  BY <1>1, CheckoutsAssumption DEF CheckoutsAssumption, Eligible, Considered

LEMMA ReplayLedgerIs ==
    ASSUME TypeOK, NEW c \in Controllers, ReplayLedger(c)
    PROVE  \E r \in Locals : Becomes(c, r) /\ Replays(c, r)
<1>1. /\ ctl \in [Controllers -> Locals] /\ ctl[c] \in Locals
      /\ ctl[c].seen \in Checkouts
  BY TypesOf DEF Locals
<1> DEFINE source == ctl[c].seen.source
           card == First(Eligible(History, source, repo.namespace))
           r == [ctl[c] EXCEPT !.pc = "reserve", !.view = History, !.card = card]
<1>2. CASE Readable /\ Selectable(History, source, repo.namespace)
  <2>1. card \in CardIds
    BY <1>1, <1>2, EligibleIs, FirstIs DEF Selectable
  <2>2. History \in Seq(L!Record)
    BY HistoryIs, TypesOf
  <2>3. ctl' = [ctl EXCEPT ![c] = r] /\ lease' = lease
    BY <1>1, <1>2 DEF ReplayLedger
  <2> HIDE DEF card
  <2>4. r \in Locals
    BY <1>1, <2>1, <2>2 DEF Locals, Labels
  <2>5. /\ r.pc = "reserve" /\ r.run = ctl[c].run /\ r.number = ctl[c].number
        /\ r.card = card /\ r.view = History
    BY <1>1 DEF Locals
  <2> HIDE DEF r
  <2> QED
    BY <2>1, <2>3, <2>4, <2>5 DEF ReplayLedger, Becomes, Replays, At, host, github
<1>3. CASE ~(Readable /\ Selectable(History, source, repo.namespace))
  BY <1>3, EndIs, IdleIs DEF ReplayLedger, Replays, At, host, github
<1> QED
  BY <1>2, <1>3

\* Under the lease: the reservation is appended, unless something drifted.
Reserves(c, r) ==
    /\ ctl[c].pc = "reserve"
    /\ \/ r = Idle /\ lease' = lease \ {c} /\ ledger' = ledger
       \/ /\ Undrifted(c) /\ Reselected(c)
          /\ L!Accepts(ctl[c].view, ReservationRecord(c))
          /\ ReservationRecord(c) \in L!Record
          /\ ledger' = Append(ledger,
                [rec |-> ReservationRecord(c), seq |-> NextSequence(c)])
          /\ r.pc = "confirm" /\ r.run = ctl[c].run /\ r.number = ctl[c].number
          /\ lease' = lease
    /\ UNCHANGED <<together, repo, tree, work, receipts, ref,
                   remote, pulls, meddled, troubles>>

LEMMA ReserveIs ==
    ASSUME Typed, NEW c \in Controllers, Reserve(c)
    PROVE  \E r \in Locals : Becomes(c, r) /\ Reserves(c, r)
<1>1. /\ TypeOK /\ ctl \in [Controllers -> Locals] /\ ctl[c] \in Locals
      /\ ctl[c].seen \in Checkouts
  BY TypesOf DEF Locals, Typed
<1>2. ctl[c].pc = "reserve"
  BY DEF Reserve, At
<1>3. ctl[c].card \in CardIds /\ ctl[c].run \in RunIds
  BY <1>2 DEF Typed, Sited
<1>4. ReservationRecord(c) \in L!Record
  <2>1. ctl[c].seen.source \in Sources /\ ctl[c].seen.head \in Heads
    BY <1>1 DEF Sources, Heads
  <2>2. <<ctl[c].card, ctl[c].seen.source>> \in Cards
    BY <1>3, <2>1 DEF Cards
  <2>3. <<"reserve", <<ctl[c].card, ctl[c].seen.source>>>> \in Keys
    BY <2>2 DEF Keys
  <2>4. 0 \in PullNumbers
    BY BoundsAssumption DEF BoundsAssumption, PullNumbers
  <2> QED
    BY <1>3, <2>1, <2>2, <2>3, <2>4, StatusesAre, OneLifecycle
    DEF ReservationRecord, L!Record
<1>5. CASE Undrifted(c) /\ Reselected(c) /\ L!Accepts(ctl[c].view, ReservationRecord(c))
  <2> DEFINE r == [ctl[c] EXCEPT !.pc = "confirm"]
  <2>1. Becomes(c, r)
    BY <1>1, <1>5, GotoIs DEF Reserve, Labels
  <2>2. r.pc = "confirm" /\ r.run = ctl[c].run /\ r.number = ctl[c].number
    BY <1>1 DEF Locals
  <2> HIDE DEF r
  <2> QED
    BY <1>2, <1>4, <1>5, <2>1, <2>2 DEF Reserve, Becomes, Reserves, host, github
<1>6. CASE ~(Undrifted(c) /\ Reselected(c) /\ L!Accepts(ctl[c].view, ReservationRecord(c)))
  BY <1>1, <1>2, <1>6, EndIs, IdleIs DEF Reserve, Reserves, host, github
<1> QED
  BY <1>5, <1>6

\* ConfirmReservation and OpenLedger: the lease is given up.
Opens(c, r) ==
    /\ \/ ctl[c].pc = "confirm" /\ lease' = lease \ {c}
       \/ ctl[c].pc = "open" /\ lease' = lease
    /\ \/ r = Idle
       \/ /\ ctl[c].pc = "confirm" /\ r.pc = "open"
          /\ r.run = ctl[c].run /\ r.number = ctl[c].number
       \/ /\ ctl[c].pc = "open" /\ r.pc = "load"
          /\ r.run = ctl[c].run /\ r.view = History /\ r.number = 0
    /\ UNCHANGED <<together, ledger, repo, tree, work, receipts, ref,
                   remote, pulls, meddled, troubles>>

LEMMA OpenIs ==
    ASSUME TypeOK, NEW c \in Controllers, ConfirmReservation(c) \/ OpenLedger(c)
    PROVE  \E r \in Locals : Becomes(c, r) /\ Opens(c, r)
<1>1. ctl \in [Controllers -> Locals] /\ ctl[c] \in Locals
  BY TypesOf
<1>2. CASE ConfirmReservation(c)
  <2>1. CASE repo.source = ctl[c].seen.source
    <3> DEFINE r == [ctl[c] EXCEPT !.pc = "open"]
    <3>1. Becomes(c, r)
      BY <1>2, <2>1, GotoIs DEF ConfirmReservation, Labels
    <3>2. r.pc = "open" /\ r.run = ctl[c].run /\ r.number = ctl[c].number
      BY <1>1 DEF Locals
    <3> HIDE DEF r
    <3> QED
      BY <1>2, <3>1, <3>2 DEF ConfirmReservation, Becomes, Opens, At, host, github
  <2>2. CASE repo.source # ctl[c].seen.source
    BY <1>2, <2>2, EndIs, IdleIs DEF ConfirmReservation, Opens, At, host, github
  <2> QED
    BY <2>1, <2>2
<1>3. CASE OpenLedger(c)
  <2>1. CASE Readable
    <3> DEFINE r == [Idle EXCEPT !.pc = "load", !.run = ctl[c].run, !.view = History]
    <3>1. ctl' = [ctl EXCEPT ![c] = r]
      BY <1>3, <2>1 DEF OpenLedger
    <3>2. History \in Seq(L!Record) /\ ctl[c].run \in RunIds \union {NoRun}
      BY <1>1, HistoryIs, TypesOf DEF Locals
    <3>3. r \in Locals
      BY <3>2, IdleIs DEF Locals, Labels
    <3>4. r.pc = "load" /\ r.run = ctl[c].run /\ r.view = History /\ r.number = 0
      BY IdleIs DEF Locals
    <3> HIDE DEF r
    <3> QED
      BY <1>3, <3>1, <3>3, <3>4 DEF OpenLedger, Becomes, Opens, At, host, github
  <2>2. CASE ~Readable
    BY <1>3, <2>2, EndIs, IdleIs DEF OpenLedger, Opens, At, host, github
  <2> QED
    BY <2>1, <2>2
<1> QED
  BY <1>2, <1>3

\* reconcileAwayRun: one look at the records and at what is outside.
Decides(c, r) ==
    LET run == ctl[c].run
        s == Status(run)
    IN /\ ctl[c].pc = "decide"
       /\ \/ r = Idle
          \/ /\ Readable /\ s \notin Terminal
             /\ r.run = run /\ r.view = ctl[c].view
             /\ \/ /\ r.pc = "append" /\ Observed(run, s) /\ r.next = Successor(s)
                   /\ r.number = IF s \in {"pr_intent", "pr_observed"}
                                   THEN OpenPull(run) ELSE 0
                \/ /\ r.pc = "publish" /\ s = "push_intent"
                   /\ r.number = ctl[c].number
                \/ /\ r.pc = "create_pr" /\ s = "pr_intent"
                   /\ r.number = ctl[c].number
       /\ UNCHANGED <<together, ledger, lease, repo, tree, work, receipts, ref,
                      remote, pulls, meddled, troubles>>

LEMMA StatusIs ==
    ASSUME TypeOK, NEW run \in Known
    PROVE  Status(run) \in Statuses /\ HasStatus(run, Status(run))
<1>1. ledger \in Seq(Entry)
  BY TypesOf
<1>2. PICK i \in 1..Len(ledger) : RunOf(i) = run /\ Newest(run) = ledger[i].rec
  BY <1>1, NewestIs
<1>3. ledger[i].rec \in L!Record
  <2>1. ledger[i] \in Entry
    BY <1>1, Elements
  <2> QED
    BY <2>1 DEF Entry
<1> QED
  BY <1>2, <1>3, OneLifecycle DEF Status, HasStatus, L!Record

LEMMA Onwards ==
    ASSUME NEW s \in Statuses, s \notin Terminal
    PROVE  /\ Successor(s) \in Statuses \ ({"reserved"} \union Stops)
           /\ NextStatus(s, Successor(s))
<1>1. s \in {"reserved", "workspace_observed", "candidate_observed",
             "commit_observed", "verified", "push_intent", "push_observed",
             "pr_intent", "pr_observed"}
  BY StatusesAre DEF Terminal, Stops
<1>2. Successor(s) \in Statuses \ ({"reserved"} \union Stops)
  BY <1>1, Successors, StatusesAre DEF Stops
<1>3. PICK i \in 1..9 : s = StatusOrder[i]
  BY <1>1 DEF StatusOrder
<1>4. \E t \in Statuses : NextStatus(s, t)
  <2>1. NextStatus(s, StatusOrder[i + 1])
    BY <1>3 DEF NextStatus, StatusOrder
  <2>2. StatusOrder[i + 1] \in Statuses
    BY DEF Statuses, StatusOrder
  <2> QED
    BY <2>1, <2>2
<1> QED
  BY <1>2, <1>4 DEF Successor

LEMMA DecideIs ==
    ASSUME Typed, NEW c \in Controllers, Decide(c)
    PROVE  \E r \in Locals : Becomes(c, r) /\ Decides(c, r)
<1> DEFINE run == ctl[c].run
           s == Status(run)
<1>1. TypeOK /\ ctl \in [Controllers -> Locals] /\ ctl[c] \in Locals
  BY TypesOf DEF Typed
<1>2. /\ ctl[c].pc = "decide"
      /\ UNCHANGED <<together, ledger, lease, repo, tree, work, receipts, ref,
                     remote, pulls, meddled, troubles>>
  BY DEF Decide, At, host, github
<1>3. run \in Known /\ run \in RunIds
  BY <1>2 DEF Typed, Sited, Loaded, Walking
<1>4. s \in Statuses
  BY <1>1, <1>3, StatusIs
<1>5. CASE ~Readable \/ s \in Terminal
  BY <1>1, <1>2, <1>5, EndIs, IdleIs DEF Decide, Decides
<1>6. CASE Readable /\ s \notin Terminal /\ Observed(run, s)
  <2> DEFINE number == IF s \in {"pr_intent", "pr_observed"} THEN OpenPull(run) ELSE 0
             r == [ctl[c] EXCEPT !.pc = "append", !.next = Successor(s), !.number = number]
  <2>1. number \in PullNumbers
    BY <1>3, OpenIsLast, BoundsAssumption DEF BoundsAssumption, PullNumbers
  <2>2. Successor(s) \in Statuses
    BY <1>4, <1>6, Onwards
  <2>3. ctl' = [ctl EXCEPT ![c] = r]
    BY <1>1, <1>6 DEF Decide
  <2> HIDE DEF number, s
  <2>4. r \in Locals
    BY <1>1, <2>1, <2>2 DEF Locals, Labels
  <2>5. /\ r.pc = "append" /\ r.next = Successor(s) /\ r.number = number
        /\ r.run = run /\ r.view = ctl[c].view
    BY <1>1 DEF Locals
  <2> HIDE DEF r
  <2> QED
    BY <1>2, <1>6, <2>3, <2>4, <2>5 DEF Becomes, Decides, number, s
<1>7. CASE Readable /\ s \notin Terminal /\ ~Observed(run, s) /\ Mutation(run, s) = "stop"
  BY <1>1, <1>2, <1>7, EndIs, IdleIs DEF Decide, Decides
<1>8. CASE Readable /\ s \notin Terminal /\ ~Observed(run, s) /\ Mutation(run, s) # "stop"
  <2> DEFINE label == Mutation(run, s)
             r == [ctl[c] EXCEPT !.pc = label]
  <2>1. \/ label = "publish" /\ s = "push_intent"
        \/ label = "create_pr" /\ s = "pr_intent"
    BY <1>8 DEF Mutation
  <2>2. Goto(c, label) /\ label \in Labels
    BY <1>8, <2>1 DEF Decide, Labels
  <2> HIDE DEF label, s
  <2>3. Becomes(c, r)
    BY <1>1, <2>2, GotoIs
  <2>4. r.pc = label /\ r.number = ctl[c].number /\ r.run = run /\ r.view = ctl[c].view
    BY <1>1 DEF Locals
  <2> HIDE DEF r
  <2> QED
    BY <1>2, <1>8, <2>1, <2>3, <2>4 DEF Becomes, Decides, s
<1> QED
  BY <1>5, <1>6, <1>7, <1>8

\* The effects.
Pushes(c, r) ==
    LET run == ctl[c].run
    IN /\ \/ /\ r = Idle /\ remote' = remote
             /\ ctl[c].pc \in {"publish", "confirm_push"}
          \/ /\ ctl[c].pc = "publish" /\ r.pc = "confirm_push"
             /\ r.number = ctl[c].number
             /\ remote' = [remote EXCEPT ![run] = "match"]
             /\ r.run = run /\ r.view = ctl[c].view
          \/ /\ ctl[c].pc = "confirm_push" /\ r.pc = "append"
             /\ r.next = "push_observed" /\ r.number = ctl[c].number
             /\ remote' = remote
             /\ r.run = run /\ r.view = ctl[c].view
       /\ UNCHANGED <<together, ledger, lease, repo, tree, work, receipts, ref,
                      pulls, meddled, troubles>>

LEMMA PushIs ==
    ASSUME TypeOK, NEW c \in Controllers, Publish(c) \/ ConfirmPush(c)
    PROVE  \E r \in Locals : Becomes(c, r) /\ Pushes(c, r)
<1> DEFINE run == ctl[c].run
<1>1. ctl \in [Controllers -> Locals] /\ ctl[c] \in Locals
  BY TypesOf
<1>2. CASE Publish(c)
  <2>1. CASE remote[run] = "divergent"
    BY <1>2, <2>1, EndIs, IdleIs DEF Publish, Pushes, At, host
  <2>2. CASE remote[run] # "divergent"
    <3> DEFINE r == [ctl[c] EXCEPT !.pc = "confirm_push"]
    <3>1. Becomes(c, r)
      BY <1>2, <2>2, GotoIs DEF Publish, Labels
    <3>2. /\ r.pc = "confirm_push" /\ r.number = ctl[c].number
          /\ r.run = run /\ r.view = ctl[c].view
      BY <1>1 DEF Locals
    <3> HIDE DEF r
    <3> QED
      BY <1>2, <2>2, <3>1, <3>2 DEF Publish, Becomes, Pushes, At, host
  <2> QED
    BY <2>1, <2>2
<1>3. CASE ConfirmPush(c)
  <2>1. CASE remote[run] = "match"
    <3> DEFINE r == [ctl[c] EXCEPT !.pc = "append", !.next = "push_observed"]
    <3>1. ctl' = [ctl EXCEPT ![c] = r] /\ r \in Locals
      BY <1>1, <1>3, <2>1, StatusesAre, ZenonT(60) DEF ConfirmPush, Locals, Labels
    <3>2. /\ r.pc = "append" /\ r.next = "push_observed" /\ r.number = ctl[c].number
          /\ r.run = run /\ r.view = ctl[c].view
      BY <1>1 DEF Locals
    <3> HIDE DEF r
    <3> QED
      BY <1>3, <2>1, <3>1, <3>2 DEF ConfirmPush, Becomes, Pushes, At, host, github
  <2>2. CASE remote[run] # "match"
    BY <1>3, <2>2, EndIs, IdleIs DEF ConfirmPush, Pushes, At, host, github
  <2> QED
    BY <2>1, <2>2
<1> QED
  BY <1>2, <1>3

CreatesPull(c, r) ==
    LET run == ctl[c].run
    IN /\ ctl[c].pc = "create_pr"
       /\ \/ r = Idle /\ pulls' = pulls
          \/ /\ remote[run] = "match"
             /\ r.pc = "append" /\ r.next = "pr_observed"
             /\ r.run = run /\ r.view = ctl[c].view
             /\ \/ OpenPull(run) # 0 /\ pulls' = pulls /\ r.number = OpenPull(run)
                \/ /\ OpenPull(run) = 0
                   /\ pulls' = [pulls EXCEPT ![run] = Append(@, "draft")]
                   /\ r.number = Len(pulls[run]) + 1
       /\ UNCHANGED <<together, ledger, lease, repo, tree, work, receipts, ref,
                      remote, meddled, troubles>>

LEMMA CreatePullIs ==
    ASSUME Typed, NEW c \in Controllers, CreatePull(c)
    PROVE  \E r \in Locals : Becomes(c, r) /\ CreatesPull(c, r)
<1> DEFINE run == ctl[c].run
<1>1. TypeOK /\ ctl \in [Controllers -> Locals] /\ ctl[c] \in Locals
  BY TypesOf DEF Typed
<1>2. ctl[c].pc = "create_pr"
  BY DEF CreatePull, At
<1>3. run \in RunIds
  BY <1>2 DEF Typed, Sited
<1>4. CASE PullUnexpected(run) \/ remote[run] # "match"
  BY <1>1, <1>2, <1>4, EndIs, IdleIs DEF CreatePull, CreatesPull, host
<1>5. CASE ~(PullUnexpected(run) \/ remote[run] # "match")
  <2> DEFINE number == IF OpenPull(run) # 0 THEN OpenPull(run) ELSE Len(pulls[run]) + 1
             r == [ctl[c] EXCEPT !.pc = "append", !.next = "pr_observed", !.number = number]
  <2>1. number \in PullNumbers
    BY <1>3, OpenIsLast
  <2>2. ctl' = [ctl EXCEPT ![c] = r]
    BY <1>1, <1>5 DEF CreatePull
  <2> HIDE DEF number
  <2>3. r \in Locals
    BY <1>1, <2>1, StatusesAre, ZenonT(60) DEF Locals, Labels
  <2>4. /\ r.pc = "append" /\ r.next = "pr_observed" /\ r.number = number
        /\ r.run = run /\ r.view = ctl[c].view
    BY <1>1 DEF Locals
  <2> HIDE DEF r
  <2>5. CASE OpenPull(run) # 0
    BY <1>2, <1>5, <2>2, <2>3, <2>4, <2>5 DEF CreatePull, CreatesPull, Becomes, number, host
  <2>6. CASE OpenPull(run) = 0
    BY <1>2, <1>5, <2>2, <2>3, <2>4, <2>6 DEF CreatePull, CreatesPull, Becomes, number, host
  <2> QED
    BY <2>5, <2>6
<1> QED
  BY <1>4, <1>5

\* A record is appended behind those the process has read.
Appends(c, r) ==
    LET view == ctl[c].view  run == ctl[c].run
    IN /\ ctl[c].pc = "append"
       /\ \/ r = Idle /\ ledger' = ledger
          \/ \E rec \in L!Record :
                /\ rec.run = run /\ rec.status = ctl[c].next
                /\ rec.payload = ctl[c].number
                /\ \E i \in 1..Len(view) : view[i].run = run /\ rec.card = view[i].card
                /\ L!Accepts(view, rec)
                /\ ledger' = Append(ledger, [rec |-> rec, seq |-> NextSequence(c)])
                /\ r.pc = "decide" /\ r.number = 0 /\ r.run = run
                /\ r.view = Append(view, rec)
       /\ UNCHANGED <<together, lease, repo, tree, work, receipts, ref,
                      remote, pulls, meddled, troubles>>

LEMMA AppendRecordIs ==
    ASSUME Typed, NEW c \in Controllers, AppendRecord(c)
    PROVE  \E r \in Locals : Becomes(c, r) /\ Appends(c, r)
<1> DEFINE run == ctl[c].run
           view == ctl[c].view
           mine == view[CHOOSE i \in 1..Len(view) : view[i].run = run]
           rec == [run |-> run, card |-> mine.card, base |-> mine.base,
                   key |-> <<run, ctl[c].next>>,
                   status |-> ctl[c].next, payload |-> ctl[c].number]
<1>1. TypeOK /\ ctl \in [Controllers -> Locals] /\ ctl[c] \in Locals
  BY TypesOf DEF Typed
<1>2. ctl[c].pc = "append"
  BY DEF AppendRecord, At
<1>3. run \in RunIds /\ \E i \in 1..Len(view) : view[i].run = run
  BY <1>2 DEF Typed, Sited, Loaded, Outside
<1>4. view \in Seq(L!Record)
  BY <1>1 DEF Locals
<1>5. PICK i \in 1..Len(view) : mine = view[i] /\ view[i].run = run
  BY <1>3
<1>6. mine \in L!Record
  BY <1>4, <1>5, Elements
<1>7. rec \in L!Record
  <2>1. /\ ctl[c].next \in Statuses /\ ctl[c].number \in PullNumbers
        /\ mine.card \in Cards /\ mine.base \in Heads
    BY <1>1, <1>6 DEF Locals, L!Record
  <2>2. <<run, ctl[c].next>> \in Keys
    BY <1>3, <2>1 DEF Keys
  <2> HIDE DEF mine
  <2> QED
    BY <1>3, <2>1, <2>2, OneLifecycle DEF L!Record
<1>8. /\ rec.run = run /\ rec.card = view[i].card
      /\ rec.status = ctl[c].next /\ rec.payload = ctl[c].number
  BY <1>5
<1>9. CASE L!Accepts(view, rec)
  <2> DEFINE r == [ctl[c] EXCEPT !.pc = "decide", !.number = 0, !.view = Append(@, rec)]
  <2>1. /\ ctl' = [ctl EXCEPT ![c] = r]
        /\ ledger' = Append(ledger, [rec |-> rec, seq |-> NextSequence(c)])
    BY <1>1, <1>9 DEF AppendRecord
  <2> HIDE DEF rec
  <2>2. Append(view, rec) \in Seq(L!Record) /\ 0 \in PullNumbers
    BY <1>4, <1>7, Appended, IdleIs DEF Locals
  <2>3. r \in Locals
    BY <1>1, <2>2 DEF Locals, Labels
  <2>4. /\ r.pc = "decide" /\ r.number = 0 /\ r.run = run
        /\ r.view = Append(view, rec)
    BY <1>1 DEF Locals
  <2> HIDE DEF r
  <2> QED
    BY <1>2, <1>5, <1>7, <1>8, <1>9, <2>1, <2>3, <2>4
    DEF AppendRecord, Appends, Becomes, host, github
<1>10. CASE ~L!Accepts(view, rec)
  BY <1>1, <1>2, <1>10, EndIs, IdleIs DEF AppendRecord, Appends, host, github
<1> QED
  BY <1>9, <1>10

\* The process ends between two steps.
Halts(c) ==
    /\ ~together /\ troubles < MaxTroubles /\ troubles' = troubles + 1
    /\ lease' = lease \ {c}
    /\ UNCHANGED <<together, ledger, repo, tree, work, receipts, ref,
                   remote, pulls, meddled>>

LEMMA StopIs ==
    ASSUME TypeOK, NEW c \in Controllers, Stop(c)
    PROVE  Becomes(c, Idle) /\ Halts(c)
  BY EndIs DEF Stop, Trouble, Halts, host, github

\* What people do.
Meddles(run) ==
    /\ ~together /\ troubles < MaxTroubles /\ troubles' = troubles + 1
    /\ remote[run] # "absent"
    /\ \/ /\ \E n \in 1..Len(pulls[run]), to \in {"closed", "ready"} :
                /\ pulls[run][n] = "draft"
                /\ pulls' = [pulls EXCEPT ![run][n] = to]
          /\ remote' = remote
       \/ /\ remote' = [remote EXCEPT ![run] = "absent"]
          /\ pulls' = [pulls EXCEPT ![run] = [n \in 1..Len(pulls[run]) |-> "closed"]]
       \/ remote' = [remote EXCEPT ![run] = "divergent"] /\ pulls' = pulls
    /\ meddled' = meddled \union {run}
    /\ UNCHANGED <<together, ledger, lease, repo, tree, work, receipts, ref, ctl>>

LEMMA MeddleIs ==
    ASSUME TypeOK, NEW run \in RunIds, Meddle(run)
    PROVE  Meddles(run)
<1>1. DOMAIN pulls[run] = 1..Len(pulls[run]) /\ run \in DOMAIN pulls
  BY OpenPullIs, TypesOf
<1>2. CASE pulls' = [pulls EXCEPT ![run] = [n \in DOMAIN @ |-> "closed"]]
  <2>1. pulls' = [pulls EXCEPT ![run] = [n \in 1..Len(pulls[run]) |-> "closed"]]
    BY <1>1, <1>2
  <2> QED
    BY <1>1, <2>1 DEF Meddle, Meddles, Trouble, host
<1>3. CASE ~(pulls' = [pulls EXCEPT ![run] = [n \in DOMAIN @ |-> "closed"]])
  BY <1>1, <1>3 DEF Meddle, Meddles, Trouble, host
<1> QED
  BY <1>2, <1>3

-----------------------------------------------------------------------------
(* The types are kept.                                                     *)

\* The state variables but ctl, ledger and troubles keep their types.
LEMMA Unchanged ==
    ASSUME Typed
    PROVE  /\ ledger \in Seq(Entry) /\ lease \subseteq Controllers
           /\ tree \in [RunIds -> {"missing", "partial", "ready"}]
           /\ work \in [RunIds -> SUBSET {"plan", "todo", "code"}]
           /\ receipts \in [RunIds -> [Phases -> Receipt]]
           /\ ref \subseteq RunIds
           /\ remote \in [RunIds -> {"absent", "match", "divergent"}]
           /\ TypeOK /\ ctl \in [Controllers -> Locals]
           /\ \A c \in Controllers : Sited(ctl[c], Known)
  BY TypesOf DEF Typed

LEMMA SitedIdle == Sited(Idle, Known) /\ Sited(Idle, Known')
  BY IdleIs DEF Sited, Loaded, Walking, Outside

\* A record appended is of a known run from then on.
LEMMA LedgerGrows ==
    ASSUME ledger \in Seq(Entry), NEW rec \in L!Record, NEW n \in Nat \ {0},
           ledger' = Append(ledger, [rec |-> rec, seq |-> n])
    PROVE  /\ ledger' \in Seq(Entry) /\ Len(ledger) \in Nat
           /\ Len(ledger') = Len(ledger) + 1
           /\ 1..Len(ledger') = (1..Len(ledger)) \union {Len(ledger) + 1}
           /\ \A i \in 1..Len(ledger) : ledger'[i] = ledger[i]
           /\ ledger'[Len(ledger) + 1] = [rec |-> rec, seq |-> n]
           /\ ledger'[Len(ledger) + 1].rec = rec
           /\ Known' = Known \union {rec.run}
<1> DEFINE entry == [rec |-> rec, seq |-> n]
<1>1. entry \in Entry /\ entry.rec = rec
  BY DEF Entry
<1>2. /\ ledger' \in Seq(Entry) /\ Len(ledger) \in Nat
      /\ Len(ledger') = Len(ledger) + 1
      /\ 1..Len(ledger') = (1..Len(ledger)) \union {Len(ledger) + 1}
      /\ \A i \in 1..Len(ledger) : ledger'[i] = ledger[i]
      /\ ledger'[Len(ledger) + 1] = entry
  <2> HIDE DEF entry
  <2>1. ledger' = Append(ledger, entry)
    BY DEF entry
  <2> QED
    BY <1>1, <2>1, Appended
<1>3. Known' = Known \union {rec.run}
  <2> DEFINE m == Len(ledger) + 1
  <2>1. Known' = { ledger'[i].rec.run : i \in 1..Len(ledger') }
    BY DEF Known, RunOf
  <2>2. Known = { ledger[i].rec.run : i \in 1..Len(ledger) }
    BY DEF Known, RunOf
  <2>3. ledger'[m].rec.run = rec.run
    BY <1>1, <1>2
  <2> HIDE DEF m
  <2>4. 1..Len(ledger') = (1..Len(ledger)) \union {m}
    BY <1>2 DEF m
  <2> QED
    BY <1>2, <2>1, <2>2, <2>3, <2>4
<1> QED
  BY <1>1, <1>2, <1>3

LEMMA NextSequenceIs ==
    ASSUME TypeOK, NEW c \in Controllers
    PROVE  NextSequence(c) \in Nat \ {0}
<1>1. ctl[c].view \in Seq(L!Record)
  BY TypesOf DEF Locals
<1>2. Len(ctl[c].view) \in Nat
  BY <1>1, Elements
<1> QED
  BY <1>2 DEF NextSequence

LEMMA KnownRuns ==
    ASSUME ledger \in Seq(Entry)
    PROVE  Known \subseteq RunIds
<1>1. \A i \in 1..Len(ledger) : ledger[i] \in Entry
  BY Elements
<1> QED
  BY <1>1 DEF Known, RunOf, Entry, L!Record

LEMMA HistorySites ==
    ASSUME ledger \in Seq(Entry), NEW run \in Known
    PROVE  \E i \in 1..Len(History) : History[i].run = run
  BY HistoryIs DEF Known, RunOf

LEMMA TypedInit == Init => Typed
<1> SUFFICES ASSUME Init PROVE Typed
  OBVIOUS
<1>1. MaxTroubles \in Nat /\ MaxTogether \in Nat
  BY BoundsAssumption DEF BoundsAssumption
<1>2. ctl \in [Controllers -> Locals] /\ \A c \in Controllers : ctl[c] = Idle
  BY IdleIs DEF Init
<1>3. NoReceipt \in Receipt
  BY DEF NoReceipt, Receipt
<1>4. receipts \in [RunIds -> [Phases -> Receipt]]
  BY <1>3 DEF Init
<1>5. ledger \in Seq(Entry) /\ pulls \in [RunIds -> Seq(PullStates)]
  <2>1. << >> \in Seq(Entry) /\ << >> \in Seq(PullStates)
    BY EmptySeq
  <2> QED
    BY <2>1 DEF Init
<1>6. TypeOK
  <2>1. AtFirst \in Checkouts
    BY CheckoutsAssumption DEF CheckoutsAssumption
  <2>2. troubles \in 0..(MaxTroubles + MaxTogether)
    BY <1>1 DEF Init
  <2>3. /\ tree \in [RunIds -> {"missing", "partial", "ready"}]
        /\ work \in [RunIds -> SUBSET {"plan", "todo", "code"}]
        /\ remote \in [RunIds -> {"absent", "match", "divergent"}]
    BY DEF Init
  <2> QED
    BY <1>2, <1>4, <1>5, <2>1, <2>2, <2>3, TypesOf DEF Init
<1>7. \A run \in RunIds : Pulled(run)
  <2>1. ASSUME NEW run \in RunIds PROVE Pulled(run)
    <3>1. pulls[run] = << >> /\ troubles = 0 /\ meddled = {}
      BY DEF Init
    <3>2. Len(pulls[run]) = 0
      BY <3>1, EmptySeq
    <3> QED
      BY <3>1, <3>2 DEF Pulled
  <2> QED
    BY <2>1
<1>8. troubles <= MaxTroubles
  BY <1>1 DEF Init
<1> QED
  BY <1>2, <1>6, <1>7, <1>8, SitedIdle DEF Typed

LEMMA TypedLocally ==
    ASSUME Typed, NEW c \in Controllers, NEW r \in Locals, Becomes(c, r),
           \/ Selects(c, r) \/ Prepares(c, r) \/ Replays(c, r) \/ Opens(c, r)
           \/ Decides(c, r) \/ Pushes(c, r) \/ (r = Idle /\ Halts(c))
    PROVE  Typed'
<1>1. /\ ledger \in Seq(Entry) /\ lease \subseteq Controllers /\ Sited(ctl[c], Known)
      /\ TypeOK /\ ctl[c] \in Locals
  BY Unchanged
<1>2. Known' = Known
  BY DEF Known, RunOf, Selects, Prepares, Replays, Opens, Decides, Pushes, Halts
<1>3. ASSUME UNCHANGED <<tree, work, receipts, ref, remote>>
      PROVE  /\ tree' \in [RunIds -> {"missing", "partial", "ready"}]
             /\ work' \in [RunIds -> SUBSET {"plan", "todo", "code"}]
             /\ receipts' \in [RunIds -> [Phases -> Receipt]]
             /\ ref' \subseteq RunIds
             /\ remote' \in [RunIds -> {"absent", "match", "divergent"}]
  BY <1>3, Unchanged
<1>4. CASE r = Idle /\ Halts(c)
  <2>1. /\ troubles' = troubles + 1 /\ troubles' <= MaxTroubles
        /\ troubles' \in 0..(MaxTroubles + MaxTogether)
    BY <1>1, <1>4, BoundsAssumption DEF TypeOK, Halts, BoundsAssumption
  <2> QED
    BY <1>1, <1>2, <1>3, <1>4, <2>1, SitedIdle, TypedStep DEF Halts
<1>5. CASE Selects(c, r)
  <2>1. Sited(r, Known')
    <3>1. r.run \in RunIds
      BY <1>1, <1>5, KnownRuns DEF Selects, Unfinished
    <3> QED
      BY <1>2, <1>5, <3>1 DEF Sited, Selects, Loaded, Walking, Outside, Unfinished
  <2>2. \/ troubles' = troubles
        \/ together /\ troubles' = troubles + 1 /\ troubles' \in 0..(MaxTroubles + MaxTogether)
    BY <1>1, <1>5, BoundsAssumption DEF Selects, BoundsAssumption, TypeOK
  <2> QED
    BY <1>1, <1>2, <1>3, <1>5, <2>1, <2>2, TypedStep DEF Selects
<1>6. CASE Prepares(c, r)
  <2>1. Sited(r, Known')
    BY <1>1, <1>6, SitedIdle DEF Sited, Prepares, Loaded, Walking, Outside
  <2>2. lease' \subseteq Controllers
    BY <1>1, <1>6 DEF Prepares
  <2> QED
    BY <1>1, <1>2, <1>3, <1>6, <2>1, <2>2, TypedStep DEF Prepares
<1>7. CASE Replays(c, r)
  <2>1. Sited(r, Known')
    BY <1>1, <1>7, SitedIdle DEF Sited, Replays, Loaded, Walking, Outside
  <2>2. lease' \subseteq Controllers
    BY <1>1, <1>7 DEF Replays
  <2> QED
    BY <1>1, <1>2, <1>3, <1>7, <2>1, <2>2, TypedStep DEF Replays
<1>8. CASE Opens(c, r)
  <2>1. Sited(r, Known')
    <3>1. CASE r = Idle
      BY <3>1, SitedIdle
    <3>2. CASE r # Idle /\ ctl[c].pc = "confirm"
      BY <1>1, <1>2, <1>8, <3>2 DEF Sited, Opens, Loaded, Walking, Outside
    <3>3. CASE r # Idle /\ ctl[c].pc = "open"
      <4>1. r.run = ctl[c].run /\ r.view = History /\ r.pc = "load"
        BY <1>8, <3>3 DEF Opens
      <4>2. r.run \in Known /\ r.run \in RunIds
        BY <1>1, <3>3, <4>1 DEF Sited
      <4>3. \E i \in 1..Len(r.view) : r.view[i].run = r.run
        BY <1>1, <4>1, <4>2, HistorySites
      <4> QED
        BY <1>2, <4>1, <4>2, <4>3 DEF Sited
    <3> QED
      BY <1>8, <3>1, <3>2, <3>3 DEF Opens
  <2>2. lease' \subseteq Controllers
    BY <1>1, <1>8 DEF Opens
  <2> QED
    BY <1>1, <1>2, <1>3, <1>8, <2>1, <2>2, TypedStep DEF Opens
<1>9. CASE Decides(c, r)
  <2>1. Sited(r, Known')
    BY <1>1, <1>2, <1>9, SitedIdle DEF Sited, Decides, Loaded, Walking, Outside
  <2> QED
    BY <1>1, <1>2, <1>3, <1>9, <2>1, TypedStep DEF Decides
<1>10. CASE Pushes(c, r)
  <2>1. Sited(r, Known')
    BY <1>1, <1>2, <1>10, SitedIdle DEF Sited, Pushes, Loaded, Walking, Outside
  <2>2. remote' \in [RunIds -> {"absent", "match", "divergent"}]
    BY <1>10, Unchanged DEF Pushes
  <2>3. /\ tree' = tree /\ work' = work /\ receipts' = receipts /\ ref' = ref
    BY <1>10 DEF Pushes
  <2> QED
    BY <1>1, <1>2, <1>10, <2>1, <2>2, <2>3, Unchanged, TypedStep DEF Pushes
<1> QED
  BY <1>4, <1>5, <1>6, <1>7, <1>8, <1>9, <1>10

LEMMA TypedWalk ==
    ASSUME Typed, NEW c \in Controllers, Walks(c)
    PROVE  Typed'
<1>1. PICK r \in Locals : Becomes(c, r) /\ Walked(c, r)
  BY DEF Walks
<1>2. Known' = Known /\ Sited(ctl[c], Known)
  BY Unchanged DEF Known, RunOf, Walks
<1>3. Sited(r, Known')
  BY <1>1, <1>2, SitedIdle DEF Walked, Sited, Loaded, Walking, Outside
<1>4. /\ ledger' \in Seq(Entry) /\ lease' \subseteq Controllers
      /\ remote' \in [RunIds -> {"absent", "match", "divergent"}]
  BY Unchanged DEF Walks
<1> QED
  BY <1>1, <1>2, <1>3, <1>4, TypedStep DEF Walks

LEMMA TypedAppends ==
    ASSUME Typed, NEW c \in Controllers, NEW r \in Locals, Becomes(c, r),
           Reserves(c, r) \/ Appends(c, r)
    PROVE  Typed'
<1>1. /\ ledger \in Seq(Entry) /\ lease \subseteq Controllers /\ Sited(ctl[c], Known)
      /\ TypeOK /\ ctl[c] \in Locals
      /\ tree' \in [RunIds -> {"missing", "partial", "ready"}]
      /\ work' \in [RunIds -> SUBSET {"plan", "todo", "code"}]
      /\ receipts' \in [RunIds -> [Phases -> Receipt]]
      /\ ref' \subseteq RunIds
      /\ remote' \in [RunIds -> {"absent", "match", "divergent"}]
  BY Unchanged DEF Reserves, Appends
<1>2. /\ UNCHANGED <<together, repo, pulls, meddled, troubles>>
      /\ lease' \subseteq Controllers
  BY <1>1 DEF Reserves, Appends
<1>3. CASE r = Idle /\ ledger' = ledger
  <2>1. Known' = Known
    BY <1>3 DEF Known, RunOf
  <2> QED
    BY <1>1, <1>2, <1>3, <2>1, SitedIdle, TypedStep
<1>4. CASE Reserves(c, r) /\ ~(r = Idle /\ ledger' = ledger)
  <2> DEFINE rec == ReservationRecord(c)
  <2>1. /\ rec \in L!Record
        /\ ledger' = Append(ledger, [rec |-> rec, seq |-> NextSequence(c)])
        /\ r.pc = "confirm" /\ r.run = ctl[c].run /\ ctl[c].pc = "reserve"
    BY <1>4 DEF Reserves
  <2>2. rec.run = r.run
    BY <2>1 DEF ReservationRecord
  <2> HIDE DEF rec
  <2>3. ledger' \in Seq(Entry) /\ Known' = Known \union {r.run}
    BY <1>1, <2>1, <2>2, LedgerGrows, NextSequenceIs
  <2>4. Sited(r, Known')
    BY <1>1, <2>1, <2>3 DEF Sited, Loaded, Walking, Outside
  <2> QED
    BY <1>1, <1>2, <2>3, <2>4, TypedStep
<1>5. CASE Appends(c, r) /\ ~(r = Idle /\ ledger' = ledger)
  <2>1. PICK rec \in L!Record :
          /\ rec.run = ctl[c].run
          /\ ledger' = Append(ledger, [rec |-> rec, seq |-> NextSequence(c)])
          /\ r.pc = "decide" /\ r.run = ctl[c].run /\ ctl[c].pc = "append"
          /\ r.view = Append(ctl[c].view, rec)
    BY <1>5 DEF Appends
  <2>2. ledger' \in Seq(Entry) /\ Known' = Known \union {r.run}
    BY <1>1, <2>1, LedgerGrows, NextSequenceIs
  <2>3. ctl[c].view \in Seq(L!Record)
    BY <1>1 DEF Locals
  <2>4. /\ Len(r.view) = Len(ctl[c].view) + 1 /\ Len(ctl[c].view) \in Nat
        /\ r.view[Len(ctl[c].view) + 1] = rec
    BY <2>1, <2>3, Appended
  <2>5. \E i \in 1..Len(r.view) : r.view[i].run = r.run
    <3>1. Len(ctl[c].view) + 1 \in 1..Len(r.view)
      BY <2>4
    <3> QED
      BY <2>1, <2>4, <3>1
  <2>6. r.run \in RunIds
    BY <1>1, <2>1 DEF Sited
  <2>7. Sited(r, Known')
    BY <2>1, <2>2, <2>5, <2>6 DEF Sited
  <2> QED
    BY <1>1, <1>2, <2>2, <2>7, TypedStep
<1> QED
  BY <1>3, <1>4, <1>5 DEF Reserves, Appends

LEMMA TypedCreatesPull ==
    ASSUME Typed, NEW c \in Controllers, NEW r \in Locals, Becomes(c, r),
           CreatesPull(c, r)
    PROVE  Typed'
<1>1. /\ TypeOK /\ Sited(ctl[c], Known) /\ ctl[c].pc = "create_pr"
      /\ ctl[c].run \in RunIds /\ (~together => troubles <= MaxTroubles)
  BY Unchanged DEF Typed, Sited, CreatesPull
<1> PICK run \in RunIds : run = ctl[c].run
  BY <1>1
<1>2. /\ UNCHANGED <<together, ledger, lease, repo, tree, work, receipts, ref,
                     remote, meddled, troubles>>
      /\ Known' = Known
  BY DEF CreatesPull, Known, RunOf
<1>3. Sited(r, Known')
  BY <1>1, <1>2, SitedIdle DEF Sited, CreatesPull, Loaded, Walking, Outside
<1>4. CASE pulls' = pulls
  BY <1>1, <1>2, <1>3, <1>4, Unchanged, TypedStep
<1>5. CASE OpenPull(run) = 0 /\ pulls' = [pulls EXCEPT ![run] = Append(@, "draft")]
  <2>1. /\ ctl' \in [Controllers -> Locals] /\ ctl'[c] = r
        /\ \A d \in Controllers \ {c} : ctl'[d] = ctl[d]
    BY <1>1, BecomesIs
  <2>2. /\ pulls \in [RunIds -> Seq(PullStates)] /\ pulls[run] \in Seq(PullStates)
        /\ "draft" \in PullStates
    BY <1>1, TypesOf DEF PullStates
  <2>3. /\ Append(pulls[run], "draft") \in Seq(PullStates)
        /\ Len(pulls[run]) \in Nat
        /\ Len(Append(pulls[run], "draft")) = Len(pulls[run]) + 1
        /\ 1..Len(Append(pulls[run], "draft")) = (1..Len(pulls[run])) \union {Len(pulls[run]) + 1}
        /\ \A i \in 1..Len(pulls[run]) : Append(pulls[run], "draft")[i] = pulls[run][i]
        /\ Append(pulls[run], "draft")[Len(pulls[run]) + 1] = "draft"
    BY <2>2, Appended
  <2>4. /\ pulls'[run] = Append(pulls[run], "draft")
        /\ \A other \in RunIds \ {run} : pulls'[other] = pulls[other]
    BY <1>1, <1>5, <2>2
  <2>5. pulls' \in [RunIds -> Seq(PullStates)]
    BY <1>1, <1>5, <2>2, <2>3
  <2>6. TypeOK'
    <3>1. /\ together' \in BOOLEAN /\ ledger' \in Seq(Entry) /\ lease' \subseteq Controllers
          /\ repo' \in Checkouts
          /\ tree' \in [RunIds -> {"missing", "partial", "ready"}]
          /\ work' \in [RunIds -> SUBSET {"plan", "todo", "code"}]
          /\ receipts' \in [RunIds -> [Phases -> Receipt]]
          /\ ref' \subseteq RunIds /\ meddled' \subseteq RunIds
          /\ remote' \in [RunIds -> {"absent", "match", "divergent"}]
          /\ troubles' \in 0..(MaxTroubles + MaxTogether)
      BY <1>1, <1>2, TypesOf
    <3> QED
      BY <2>1, <2>5, <3>1 DEF TypeOK, Entry, Receipt, PullStates, Locals
  <2>7. \A d \in Controllers : Sited(ctl'[d], Known')
    BY <1>2, <1>3, <2>1, Unchanged
  <2>8. ASSUME NEW other \in RunIds PROVE Pulled(other)'
    <3>1. CASE other # run
      <4>1. Pulled(other) /\ pulls'[other] = pulls[other]
        BY <2>4, <3>1 DEF Typed
      <4>2. OpenPull(other)' = OpenPull(other)
        BY <4>1 DEF OpenPull
      <4> QED
        BY <1>2, <4>1, <4>2 DEF Pulled
    <3>2. CASE other = run
      <4>1. Pulled(run)
        BY <1>1 DEF Typed
      <4>2. \A n \in 1..Len(pulls[run]) : pulls[run][n] = "closed"
        BY <1>1, <1>5, OpenPullIs
      <4>3. run \notin meddled => Len(pulls[run]) = 0
        BY <1>1, <1>5, OpenIsLast
      <4>4. /\ Len(pulls'[run]) = Len(pulls[run]) + 1 /\ Len(pulls[run]) \in Nat
            /\ \A n \in 1..Len(pulls[run]) : pulls'[run][n] = "closed"
            /\ pulls'[run][Len(pulls[run]) + 1] = "draft"
        BY <2>3, <2>4, <4>2
      <4>5. OpenPull(run)' # 0
        <5>1. Len(pulls[run]) + 1 \in 1..Len(pulls'[run])
          BY <4>4
        <5>2. pulls'[run][Len(pulls[run]) + 1] # "closed"
          BY <4>4
        <5>3. DOMAIN pulls'[run] = 1..Len(pulls'[run]) /\ 0 \notin DOMAIN pulls'[run]
          BY <2>5, Elements
        <5>4. \E n \in DOMAIN pulls'[run] : pulls'[run][n] # "closed"
          BY <5>1, <5>2, <5>3
        <5> QED
          BY <5>3, <5>4 DEF OpenPull
      <4>6. \A n \in 1..Len(pulls'[run]) : n < Len(pulls'[run]) => pulls'[run][n] = "closed"
        BY <4>4
      <4>7. run \notin meddled' =>
              /\ Len(pulls'[run]) <= 1
              /\ \A n \in 1..Len(pulls'[run]) : pulls'[run][n] = "draft"
        BY <1>2, <4>3, <4>4
      <4>8. ~together => Len(pulls[run]) <= troubles
        BY <1>5, <4>1 DEF Pulled
      <4>9. ~together' => Len(pulls'[run]) <= troubles' + 1
        <5>1. troubles \in Nat
          BY <1>1, BoundsAssumption DEF TypeOK, BoundsAssumption
        <5> QED
          BY <1>2, <4>4, <4>8, <5>1
      <4>10. together' => run \notin meddled'
        BY <1>2, <4>1 DEF Pulled
      <4> QED
        BY <3>2, <4>5, <4>6, <4>7, <4>9, <4>10 DEF Pulled
    <3> QED
      BY <3>1, <3>2
  <2> QED
    BY <1>1, <1>2, <2>6, <2>7, <2>8 DEF Typed
<1> QED
  BY <1>4, <1>5 DEF CreatesPull

\* People open no pull request and reopen none.
LEMMA MeddledPulls ==
    ASSUME TypeOK, NEW run \in RunIds, Meddles(run)
    PROVE  /\ pulls' \in [RunIds -> Seq(PullStates)]
           /\ \A other \in RunIds \ {run} : pulls'[other] = pulls[other]
           /\ Len(pulls'[run]) = Len(pulls[run])
           /\ \A n \in 1..Len(pulls[run]) : pulls[run][n] = "closed" => pulls'[run][n] = "closed"
<1>1. /\ pulls \in [RunIds -> Seq(PullStates)] /\ pulls[run] \in Seq(PullStates)
      /\ Len(pulls[run]) \in Nat
  BY TypesOf, OpenPullIs
<1>2. CASE pulls' = pulls
  BY <1>1, <1>2
<1>3. CASE \E n \in 1..Len(pulls[run]), to \in {"closed", "ready"} :
              /\ pulls[run][n] = "draft" /\ pulls' = [pulls EXCEPT ![run][n] = to]
  <2>1. PICK n \in 1..Len(pulls[run]), to \in {"closed", "ready"} :
              /\ pulls[run][n] = "draft" /\ pulls' = [pulls EXCEPT ![run][n] = to]
    BY <1>3
  <2> DEFINE new == [pulls[run] EXCEPT ![n] = to]
  <2>2. to \in PullStates
    BY DEF PullStates
  <2>3. /\ new \in Seq(PullStates) /\ Len(new) = Len(pulls[run])
        /\ \A j \in 1..Len(pulls[run]) : new[j] = IF j = n THEN to ELSE pulls[run][j]
    BY <1>1, <2>2, ExceptSeq
  <2>4. pulls' = [pulls EXCEPT ![run] = new]
    BY <1>1, <2>1
  <2> HIDE DEF new
  <2> QED
    BY <1>1, <2>1, <2>3, <2>4
<1>4. CASE pulls' = [pulls EXCEPT ![run] = [n \in 1..Len(pulls[run]) |-> "closed"]]
  <2> DEFINE new == [n \in 1..Len(pulls[run]) |-> "closed"]
  <2>1. /\ new \in Seq(PullStates) /\ Len(new) = Len(pulls[run])
        /\ \A j \in 1..Len(pulls[run]) : new[j] = "closed"
    BY <1>1 DEF PullStates
  <2>2. pulls' = [pulls EXCEPT ![run] = new]
    BY <1>4
  <2> HIDE DEF new
  <2> QED
    BY <1>1, <2>1, <2>2
<1> QED
  BY <1>2, <1>3, <1>4 DEF Meddles

LEMMA TypedMeddles ==
    ASSUME Typed, NEW run \in RunIds, Meddles(run)
    PROVE  Typed'
<1>1. TypeOK /\ ~together /\ Pulled(run)
  BY DEF Typed, Meddles
<1>2. /\ troubles' = troubles + 1 /\ troubles \in Nat /\ troubles' <= MaxTroubles
      /\ troubles' \in 0..(MaxTroubles + MaxTogether)
  BY <1>1, BoundsAssumption DEF TypeOK, BoundsAssumption, Meddles
<1>3. /\ UNCHANGED <<together, ledger, lease, repo, tree, work, receipts, ref, ctl>>
      /\ meddled' = meddled \union {run} /\ Known' = Known
  BY DEF Meddles, Known, RunOf
<1>4. /\ pulls \in [RunIds -> Seq(PullStates)] /\ pulls[run] \in Seq(PullStates)
      /\ remote \in [RunIds -> {"absent", "match", "divergent"}]
      /\ Len(pulls[run]) \in Nat
  BY <1>1, TypesOf, OpenPullIs
<1>5. remote' \in [RunIds -> {"absent", "match", "divergent"}]
  BY <1>4 DEF Meddles
<1>6. /\ pulls' \in [RunIds -> Seq(PullStates)]
      /\ \A other \in RunIds \ {run} : pulls'[other] = pulls[other]
      /\ Len(pulls'[run]) = Len(pulls[run])
      /\ \A n \in 1..Len(pulls[run]) : pulls[run][n] = "closed" => pulls'[run][n] = "closed"
  BY <1>1, MeddledPulls
<1>7. TypeOK'
  <2>1. /\ together' \in BOOLEAN /\ ledger' \in Seq(Entry) /\ lease' \subseteq Controllers
        /\ repo' \in Checkouts
        /\ tree' \in [RunIds -> {"missing", "partial", "ready"}]
        /\ work' \in [RunIds -> SUBSET {"plan", "todo", "code"}]
        /\ receipts' \in [RunIds -> [Phases -> Receipt]]
        /\ ref' \subseteq RunIds /\ meddled' \subseteq RunIds
        /\ ctl' \in [Controllers -> Locals]
    BY <1>1, <1>3, TypesOf
  <2> QED
    BY <1>2, <1>5, <1>6, <2>1 DEF TypeOK, Entry, Receipt, PullStates, Locals
<1>8. \A c \in Controllers : Sited(ctl'[c], Known')
  BY <1>3, Unchanged
<1>9. ASSUME NEW other \in RunIds PROVE Pulled(other)'
  <2>1. CASE other # run
    <3>1. Pulled(other) /\ pulls'[other] = pulls[other] /\ Len(pulls[other]) \in Nat
      BY <1>1, <1>6, <2>1, OpenPullIs DEF Typed
    <3>2. OpenPull(other)' = OpenPull(other)
      BY <3>1 DEF OpenPull
    <3>3. other \in meddled' <=> other \in meddled
      BY <1>3, <2>1
    <3> QED
      BY <1>2, <1>3, <3>1, <3>2, <3>3 DEF Pulled
  <2>2. CASE other = run
    <3>1. Len(pulls[run]) <= troubles + 1
      BY <1>1 DEF Pulled
    <3>2. Len(pulls'[run]) <= troubles'
      BY <1>2, <1>4, <1>6, <3>1
    <3>3. \A n \in 1..Len(pulls'[run]) : n < Len(pulls'[run]) => pulls'[run][n] = "closed"
      BY <1>1, <1>6 DEF Pulled
    <3>4. Len(pulls'[run]) <= troubles' + 1
      BY <1>2, <1>4, <1>6, <3>2
    <3> QED
      BY <1>1, <1>3, <2>2, <3>2, <3>3, <3>4 DEF Pulled
  <2> QED
    BY <2>1, <2>2
<1> QED
  BY <1>1, <1>2, <1>7, <1>8, <1>9 DEF Typed

\* The operator's repository changes, and nothing else does.
LEMMA TypedChange ==
    ASSUME Typed, ChangeRepository
    PROVE  Typed'
<1>1. /\ UNCHANGED <<together, ledger, lease, tree, work, receipts, ref, remote,
                     pulls, meddled, ctl>>
      /\ ~together /\ repo' \in Checkouts
      /\ troubles' = troubles + 1 /\ troubles < MaxTroubles /\ Known' = Known
  BY DEF ChangeRepository, Trouble, host, github, Known, RunOf
<1>2. troubles \in Nat /\ troubles' <= MaxTroubles /\ troubles' \in 0..(MaxTroubles + MaxTogether)
  BY <1>1, BoundsAssumption DEF Typed, TypeOK, BoundsAssumption
<1>3. TypeOK'
  BY <1>1, <1>2 DEF Typed, TypeOK
<1>4. \A c \in Controllers : Sited(ctl'[c], Known')
  BY <1>1, Unchanged
<1>5. ASSUME NEW run \in RunIds PROVE Pulled(run)'
  <2>1. Pulled(run) /\ Len(pulls[run]) \in Nat /\ OpenPull(run)' = OpenPull(run)
    BY <1>1, OpenPullIs DEF Typed, OpenPull
  <2> QED
    BY <1>1, <1>2, <2>1 DEF Pulled
<1> QED
  BY <1>1, <1>2, <1>3, <1>4, <1>5 DEF Typed

\* Every step is one of those above.
Does(c, r) ==
    \/ Selects(c, r) \/ Prepares(c, r) \/ Replays(c, r) \/ Reserves(c, r)
    \/ Opens(c, r) \/ Decides(c, r) \/ Pushes(c, r) \/ CreatesPull(c, r)
    \/ Appends(c, r) \/ (r = Idle /\ Halts(c))

LEMMA Steps ==
    ASSUME Typed, [Next]_vars
    PROVE  \/ \E c \in Controllers, r \in Locals : Becomes(c, r) /\ Does(c, r)
           \/ \E c \in Controllers : Walks(c)
           \/ ChangeRepository
           \/ \E run \in RunIds : Meddles(run)
           \/ UNCHANGED <<together, ledger, lease, repo, tree, work, receipts, ref,
                          remote, pulls, meddled, ctl, troubles>>
<1>1. TypeOK /\ HasRun
  BY DEF Typed, HasRun, Sited
<1>2. ASSUME NEW c \in Controllers, Step(c) \/ Stop(c)
      PROVE  (\E r \in Locals : Becomes(c, r) /\ Does(c, r)) \/ Walks(c)
  <2>1. CASE PhaseStep(c)
    BY <1>1, <2>1, PhaseStepWalks
  <2>2. CASE Stop(c)
    BY <1>1, <2>2, StopIs, IdleIs DEF Does
  <2>3. CASE SelectRun(c)
    BY <1>1, <2>3, SelectRunIs DEF Does
  <2>4. CASE ReadBaseline(c) \/ AcquireLease(c)
    BY <1>1, <2>4, PrepareIs DEF Does
  <2>5. CASE ReplayLedger(c)
    BY <1>1, <2>5, ReplayLedgerIs DEF Does
  <2>6. CASE Reserve(c)
    BY <2>6, ReserveIs DEF Does
  <2>7. CASE ConfirmReservation(c) \/ OpenLedger(c)
    BY <1>1, <2>7, OpenIs DEF Does
  <2>8. CASE Decide(c)
    BY <2>8, DecideIs DEF Does
  <2>9. CASE Publish(c) \/ ConfirmPush(c)
    BY <1>1, <2>9, PushIs DEF Does
  <2>10. CASE CreatePull(c)
    BY <2>10, CreatePullIs DEF Does
  <2>11. CASE AppendRecord(c)
    BY <2>11, AppendRecordIs DEF Does
  <2> QED
    BY <1>2, <2>1, <2>2, <2>3, <2>4, <2>5, <2>6, <2>7, <2>8, <2>9, <2>10, <2>11
    DEF Step, PhaseStep
<1>3. ASSUME UNCHANGED vars
      PROVE  UNCHANGED <<together, ledger, lease, repo, tree, work, receipts, ref,
                         remote, pulls, meddled, ctl, troubles>>
  BY <1>3 DEF vars, host, github
<1>4. Next \/ UNCHANGED vars
  OBVIOUS
<1>5. CASE Quiet
  BY <1>3, <1>5 DEF Quiet
<1>6. CASE \E run \in RunIds : Meddle(run)
  BY <1>1, <1>6, MeddleIs
<1> QED
  BY <1>2, <1>3, <1>4, <1>5, <1>6 DEF Next

LEMMA NextTyped == Typed /\ [Next]_vars => Typed'
<1> SUFFICES ASSUME Typed, [Next]_vars PROVE Typed'
  OBVIOUS
<1>1. CASE \E c \in Controllers, r \in Locals : Becomes(c, r) /\ Does(c, r)
  BY <1>1, TypedLocally, TypedAppends, TypedCreatesPull DEF Does
<1>2. CASE \E c \in Controllers : Walks(c)
  BY <1>2, TypedWalk
<1>3. CASE ChangeRepository
  BY <1>3, TypedChange
<1>4. CASE \E run \in RunIds : Meddles(run)
  BY <1>4, TypedMeddles
<1>5. CASE UNCHANGED <<together, ledger, lease, repo, tree, work, receipts, ref,
                       remote, pulls, meddled, ctl, troubles>>
  <2>1. Known' = Known /\ \A run \in RunIds : OpenPull(run)' = OpenPull(run)
    BY <1>5 DEF Known, RunOf, OpenPull
  <2>2. TypeOK'
    BY <1>5 DEF Typed, TypeOK
  <2> QED
    BY <1>5, <2>1, <2>2 DEF Typed, Pulled
<1> QED
  BY <1>1, <1>2, <1>3, <1>4, <1>5, Steps

\* The types hold of every behaviour: a record names only runs, cards and pull
\* requests there are, and nothing but the phases' files is in a workspace.
THEOREM AwayTyped == Spec => []TypeOK
<1>1. Spec => []Typed
  BY TypedInit, NextTyped, PTL DEF Spec
<1>2. Typed => TypeOK
  BY DEF Typed
<1> QED
  BY <1>1, <1>2, PTL

-----------------------------------------------------------------------------
(* Who holds the lease, what a process has read, and what it is about to   *)
(* write.  A process that reserves has read every reservation there is:    *)
(* only the holder of the lease makes one (Placed), so the card it chooses *)
(* is nobody's, at no source of the roadmap.                               *)

Records == { ledger[i].rec : i \in 1..Len(ledger) }
Leased == {"replay", "reserve", "confirm"}
Late == {"pr_observed", "completed"}

Placed(c, r, holders, recs) ==
    /\ c \in holders <=> r.pc \in Leased
    /\ r.pc \in Loaded \union {"reserve"} =>
          \A i \in 1..Len(r.view) : r.view[i] \in recs
    /\ r.pc = "reserve" => \A x \in recs : x.status = "reserved" =>
          \E i \in 1..Len(r.view) : r.view[i] = x
    /\ r.pc = "append" =>
          /\ r.next \notin {"reserved"} \union Stops
          /\ r.next \notin Late => r.number = 0
    /\ r.pc # "append" => r.number = 0

CardsWereReserved ==
    \A x \in Records : \E y \in Records : y.status = "reserved" /\ y.card = x.card
CardsApart ==
    \A x, y \in Records : x.card[1] = y.card[1] => x.run = y.run

Orderly ==
    /\ \A c, d \in lease : c = d
    /\ \A c \in Controllers : Placed(c, ctl[c], lease, Records)
    /\ CardsWereReserved /\ CardsApart

LEMMA PlacedIdle ==
    ASSUME NEW c, NEW holders, NEW recs, c \notin holders
    PROVE  Placed(c, Idle, holders, recs)
  BY IdleIs DEF Placed, Loaded, Walking, Outside, Leased

LEMMA PlacedStep ==
    ASSUME Typed, Orderly, NEW c \in Controllers, NEW r, Becomes(c, r),
           Records \subseteq Records',
           \A x \in Records' \ Records : x.status = "reserved" => c \in lease,
           lease' \ {c} = lease \ {c},
           c \in lease' => c \in lease \/ lease = {},
           Placed(c, r, lease', Records')
    PROVE  /\ \A d, e \in lease' : d = e
           /\ \A d \in Controllers : Placed(d, ctl'[d], lease', Records')
<1>1. /\ ctl'[c] = r /\ \A d \in Controllers \ {c} : ctl'[d] = ctl[d]
  BY BecomesIs DEF Typed
<1>2. \A d, e \in lease' : d = e
  BY DEF Orderly
<1>3. ASSUME NEW d \in Controllers \ {c} PROVE Placed(d, ctl[d], lease', Records')
  <2>1. Placed(d, ctl[d], lease, Records)
    BY DEF Orderly
  <2>2. d \in lease' <=> d \in lease
    BY <1>3
  <2>3. ctl[d].pc = "reserve" =>
          \A x \in Records' : x.status = "reserved" => x \in Records
    <3>1. ctl[d].pc = "reserve" => d \in lease
      BY <2>1 DEF Placed, Leased
    <3>2. ctl[d].pc = "reserve" => c \notin lease
      BY <1>3, <3>1 DEF Orderly
    <3> QED
      BY <3>2
  <2> QED
    BY <2>1, <2>2, <2>3 DEF Placed
<1> QED
  BY <1>1, <1>2, <1>3

\* Only the ledger matters to the cards.
LEMMA OrderlyLocally ==
    ASSUME Typed, Orderly, NEW c \in Controllers, NEW r, Becomes(c, r),
           ledger' = ledger,
           lease' \ {c} = lease \ {c},
           c \in lease' => c \in lease \/ lease = {},
           Placed(c, r, lease', Records)
    PROVE  Orderly'
<1>1. Records' = Records
  BY DEF Records
<1>2. CardsWereReserved' /\ CardsApart'
  BY <1>1 DEF Orderly, CardsWereReserved, CardsApart
<1> QED
  BY <1>1, <1>2, PlacedStep DEF Orderly

LEMMA HistoryRecords ==
    ASSUME ledger \in Seq(Entry)
    PROVE  /\ \A i \in 1..Len(History) : History[i] \in Records
           /\ \A x \in Records : \E i \in 1..Len(History) : History[i] = x
  BY HistoryIs DEF Records

LEMMA RecordsGrow ==
    ASSUME ledger \in Seq(Entry), NEW rec \in L!Record, NEW n \in Nat \ {0},
           ledger' = Append(ledger, [rec |-> rec, seq |-> n])
    PROVE  Records' = Records \union {rec}
<1> DEFINE m == Len(ledger) + 1
<1>1. /\ 1..Len(ledger') = (1..Len(ledger)) \union {m}
      /\ \A i \in 1..Len(ledger) : ledger'[i] = ledger[i]
      /\ ledger'[m].rec = rec
  BY LedgerGrows
<1> HIDE DEF m
<1> QED
  BY <1>1 DEF Records

LEMMA RecordTypes ==
    ASSUME ledger \in Seq(Entry)
    PROVE  Records \subseteq L!Record
<1>1. \A i \in 1..Len(ledger) : ledger[i] \in Entry
  BY Elements
<1> QED
  BY <1>1 DEF Records, Entry

\* The status a process found decides what it writes next.
LEMMA NextFound ==
    ASSUME TypeOK, NEW run \in Known, Status(run) \notin Terminal
    PROVE  LET s == Status(run)  next == Successor(s)
           IN /\ next \notin {"reserved"} \union Stops
              /\ next = "pr_observed" <=> s = "pr_intent"
              /\ next = "completed" <=> s = "pr_observed"
              /\ next = "push_intent" <=> s = "verified"
              /\ next = "pr_intent" <=> s = "push_observed"
              /\ next = "push_observed" <=> s = "push_intent"
              /\ next = "verified" <=> s = "commit_observed"
              /\ next = "commit_observed" <=> s = "candidate_observed"
              /\ next = "candidate_observed" <=> s = "workspace_observed"
<1> DEFINE s == Status(run)
<1>1. s \in Statuses /\ s \notin Terminal
  BY StatusIs
<1>2. s \in {"reserved", "workspace_observed", "candidate_observed",
             "commit_observed", "verified", "push_intent", "push_observed",
             "pr_intent", "pr_observed"}
  BY <1>1, StatusesAre DEF Terminal, Stops
<1> HIDE DEF s
<1>3. Successor(s) \notin {"reserved"} \union Stops
  BY <1>1, Onwards
<1>4. /\ Successor(s) = "pr_observed" <=> s = "pr_intent"
      /\ Successor(s) = "completed" <=> s = "pr_observed"
      /\ Successor(s) = "push_intent" <=> s = "verified"
      /\ Successor(s) = "pr_intent" <=> s = "push_observed"
      /\ Successor(s) = "push_observed" <=> s = "push_intent"
      /\ Successor(s) = "verified" <=> s = "commit_observed"
      /\ Successor(s) = "commit_observed" <=> s = "candidate_observed"
      /\ Successor(s) = "candidate_observed" <=> s = "workspace_observed"
  BY <1>2, Successors
<1> QED
  BY <1>3, <1>4 DEF s

\* A step that appends nothing.
LEMMA OrderlyQuiet ==
    ASSUME Typed, Orderly, NEW c \in Controllers, NEW r \in Locals, Becomes(c, r),
           \/ Selects(c, r) \/ Prepares(c, r) \/ Replays(c, r) \/ Opens(c, r)
           \/ Decides(c, r) \/ Pushes(c, r) \/ CreatesPull(c, r)
           \/ (r = Idle /\ Halts(c))
    PROVE  Orderly'
<1>1. /\ TypeOK /\ ledger \in Seq(Entry) /\ Sited(ctl[c], Known)
      /\ Placed(c, ctl[c], lease, Records)
      /\ \A d, e \in lease : d = e
  BY Unchanged DEF Orderly
<1>2. ledger' = ledger
  BY DEF Selects, Prepares, Replays, Opens, Decides, Pushes, CreatesPull, Halts
<1>3. CASE Selects(c, r)
  <2>1. lease' = lease /\ Placed(c, r, lease', Records)
    BY <1>1, <1>3 DEF Selects, Placed, Loaded, Walking, Outside, Leased
  <2> QED
    BY <1>2, <2>1, OrderlyLocally
<1>4. CASE Prepares(c, r)
  <2>1. /\ lease' \ {c} = lease \ {c} /\ (c \in lease' => c \in lease \/ lease = {})
        /\ Placed(c, r, lease', Records)
    <3>1. CASE r = Idle
      BY <1>1, <1>4, <3>1, PlacedIdle, IdleIs DEF Prepares, Placed, Leased
    <3>2. CASE r # Idle
      BY <1>1, <1>4, <3>2 DEF Prepares, Placed, Loaded, Walking, Outside, Leased
    <3> QED
      BY <3>1, <3>2
  <2> QED
    BY <1>2, <2>1, OrderlyLocally
<1>5. CASE Replays(c, r)
  <2>1. /\ lease' \ {c} = lease \ {c} /\ (c \in lease' => c \in lease \/ lease = {})
        /\ Placed(c, r, lease', Records)
    <3>1. CASE r = Idle /\ lease' = lease \ {c}
      BY <3>1, PlacedIdle
    <3>2. CASE ~(r = Idle /\ lease' = lease \ {c})
      <4>1. /\ r.pc = "reserve" /\ r.view = History /\ lease' = lease
            /\ r.number = ctl[c].number /\ ctl[c].pc = "replay"
        BY <1>5, <3>2 DEF Replays
      <4>2. c \in lease' /\ r.number = 0
        BY <1>1, <4>1 DEF Placed, Leased
      <4>3. Placed(c, r, lease', Records)
        BY <1>1, <4>1, <4>2, HistoryRecords DEF Placed, Leased
      <4> QED
        BY <4>1, <4>3
    <3> QED
      BY <3>1, <3>2
  <2> QED
    BY <1>2, <2>1, OrderlyLocally
<1>6. CASE Opens(c, r)
  <2>1. /\ lease' \ {c} = lease \ {c} /\ (c \in lease' => c \in lease)
        /\ c \notin lease'
    BY <1>1, <1>6 DEF Opens, Placed, Leased
  <2>2. Placed(c, r, lease', Records)
    <3>1. CASE r = Idle
      BY <2>1, <3>1, PlacedIdle
    <3>2. CASE r # Idle /\ r.pc = "open"
      BY <1>1, <1>6, <2>1, <3>2
      DEF Opens, Placed, Loaded, Walking, Outside, Leased
    <3>3. CASE r # Idle /\ r.pc # "open"
      <4>1. r.pc = "load" /\ r.view = History /\ r.number = 0
        BY <1>6, <3>3 DEF Opens
      <4> QED
        BY <1>1, <2>1, <4>1, HistoryRecords DEF Placed, Leased
    <3> QED
      BY <3>1, <3>2, <3>3
  <2> QED
    BY <1>2, <2>1, <2>2, OrderlyLocally
<1>7. CASE Decides(c, r)
  <2>1. lease' = lease /\ ctl[c].pc = "decide" /\ c \notin lease
    BY <1>1, <1>7 DEF Decides, Placed, Leased
  <2>2. Placed(c, r, lease', Records)
    <3>1. CASE r = Idle
      BY <2>1, <3>1, PlacedIdle
    <3>2. CASE r # Idle /\ r.pc = "append"
      <4> DEFINE s == Status(ctl[c].run)
      <4>1. /\ s \notin Terminal /\ r.next = Successor(s) /\ r.view = ctl[c].view
            /\ r.number = IF s \in {"pr_intent", "pr_observed"}
                            THEN OpenPull(ctl[c].run) ELSE 0
        BY <1>7, <3>2 DEF Decides
      <4>2. ctl[c].run \in Known
        BY <1>1, <2>1 DEF Sited, Loaded, Walking
      <4>3. /\ r.next \notin {"reserved"} \union Stops
            /\ r.next \notin Late => s \notin {"pr_intent", "pr_observed"}
        BY <1>1, <4>1, <4>2, NextFound DEF Late
      <4>4. \A i \in 1..Len(r.view) : r.view[i] \in Records
        BY <1>1, <2>1, <4>1 DEF Placed, Loaded, Walking
      <4> HIDE DEF s
      <4> QED
        BY <2>1, <3>2, <4>1, <4>3, <4>4 DEF Placed, Leased
    <3>3. CASE r # Idle /\ r.pc # "append"
      BY <1>1, <1>7, <2>1, <3>3 DEF Decides, Placed, Loaded, Walking, Outside, Leased
    <3> QED
      BY <3>1, <3>2, <3>3
  <2> QED
    BY <1>2, <2>1, <2>2, OrderlyLocally
<1>8. CASE Pushes(c, r)
  <2>1. lease' = lease /\ c \notin lease
    BY <1>1, <1>8 DEF Pushes, Placed, Leased
  <2>2. Placed(c, r, lease', Records)
    <3>1. CASE r = Idle
      BY <2>1, <3>1, PlacedIdle
    <3>2. CASE r # Idle
      BY <1>1, <1>8, <2>1, <3>2
      DEF Pushes, Placed, Loaded, Walking, Outside, Leased, Late, Stops
    <3> QED
      BY <3>1, <3>2
  <2> QED
    BY <1>2, <2>1, <2>2, OrderlyLocally
<1>9. CASE CreatesPull(c, r)
  <2>1. lease' = lease /\ c \notin lease
    BY <1>1, <1>9 DEF CreatesPull, Placed, Leased
  <2>2. Placed(c, r, lease', Records)
    <3>1. CASE r = Idle
      BY <2>1, <3>1, PlacedIdle
    <3>2. CASE r # Idle
      BY <1>1, <1>9, <2>1, <3>2
      DEF CreatesPull, Placed, Loaded, Walking, Outside, Leased, Late, Stops
    <3> QED
      BY <3>1, <3>2
  <2> QED
    BY <1>2, <2>1, <2>2, OrderlyLocally
<1>10. CASE r = Idle /\ Halts(c)
  <2>1. lease' = lease \ {c}
    BY <1>10 DEF Halts
  <2> QED
    BY <1>2, <1>10, <2>1, PlacedIdle, OrderlyLocally
<1> QED
  BY <1>3, <1>4, <1>5, <1>6, <1>7, <1>8, <1>9, <1>10

LEMMA OrderlyWalk ==
    ASSUME Typed, Orderly, NEW c \in Controllers, Walks(c)
    PROVE  Orderly'
<1>1. PICK r \in Locals : Becomes(c, r) /\ Walked(c, r)
  BY DEF Walks
<1>2. ledger' = ledger /\ lease' = lease /\ Placed(c, ctl[c], lease, Records)
  BY DEF Walks, Orderly
<1>3. CASE r # Idle
  <2>1. Placed(c, r, lease', Records)
    BY <1>1, <1>2, <1>3 DEF Walked, Placed, Loaded, Walking, Outside, Leased
  <2> QED
    BY <1>1, <1>2, <2>1, OrderlyLocally
<1>4. CASE r = Idle
  <2>1. c \notin lease
    BY <1>1, <1>2 DEF Walked, Placed, Walking, Leased
  <2> QED
    BY <1>1, <1>2, <1>4, <2>1, PlacedIdle, OrderlyLocally
<1> QED
  BY <1>3, <1>4

\* What the second selection says about the card that was chosen.
LEMMA ChosenCard ==
    ASSUME TypeOK, NEW c \in Controllers, Reselected(c)
    PROVE  LET card == ctl[c].card
               source == ctl[c].seen.source
           IN /\ card \in Eligible(ctl[c].view, source, repo.namespace)
              /\ \A id \in Eligible(ctl[c].view, source, repo.namespace) : card <= id
              /\ ~SelectionBlocked(ctl[c].view, source, repo.namespace)
              /\ card \in CardIds /\ source \in Sources
<1> DEFINE eligible == Eligible(ctl[c].view, ctl[c].seen.source, repo.namespace)
<1>1. ctl[c].seen \in Checkouts
  BY TypesOf DEF Locals
<1>2. eligible \subseteq CardIds /\ ctl[c].seen.source \in Sources
  BY <1>1, EligibleIs DEF Sources
<1>3. /\ eligible # {} /\ First(eligible) = ctl[c].card
      /\ ~SelectionBlocked(ctl[c].view, ctl[c].seen.source, repo.namespace)
  BY DEF Reselected, Selectable, Choice
<1>4. First(eligible) \in eligible /\ \A id \in eligible : First(eligible) <= id
  <2> HIDE DEF eligible
  <2> QED
    BY <1>2, <1>3, FirstIs
<1> QED
  BY <1>2, <1>3, <1>4

LEMMA CardIsFree ==
    ASSUME Typed, Orderly, NEW c \in Controllers, ctl[c].pc = "reserve", Reselected(c)
    PROVE  \A x \in Records : x.card[1] # ctl[c].card
<1> DEFINE card == ctl[c].card
           source == ctl[c].seen.source
           view == ctl[c].view
<1>1. /\ card \in Eligible(view, source, repo.namespace)
      /\ \A id \in Eligible(view, source, repo.namespace) : card <= id
      /\ ~SelectionBlocked(view, source, repo.namespace)
      /\ card \in CardIds /\ source \in Sources
  BY ChosenCard DEF Typed
<1>2. ~ReservedAt(view, card, source) /\ card \in Considered(source, repo.namespace)
  BY <1>1 DEF Eligible
<1>3. ~Drifted(view, card, source)
  BY <1>1, <1>2 DEF SelectionBlocked
<1>4. \A s \in Sources : ~ReservedAt(view, card, s)
  BY <1>2, <1>3 DEF Drifted
<1>5. \A x \in Records : x.status = "reserved" =>
          \E i \in 1..Len(view) : view[i] = x
  BY DEF Orderly, Placed
<1>6. \A x \in Records : x.card \in CardIds \X Sources
  BY Unchanged, RecordTypes DEF L!Record, Cards
<1>7. ASSUME NEW x \in Records, x.status = "reserved", x.card[1] = card PROVE FALSE
  <2>1. x.card[2] \in Sources /\ x.card = <<card, x.card[2]>>
    BY <1>6, <1>7
  <2>2. ReservedAt(view, card, x.card[2])
    BY <1>5, <1>7, <2>1 DEF ReservedAt
  <2> QED
    BY <1>4, <2>1, <2>2
<1>8. \A x \in Records : \E y \in Records : y.status = "reserved" /\ y.card = x.card
  BY DEF Orderly, CardsWereReserved
<1> QED
  BY <1>7, <1>8

LEMMA OrderlyReserves ==
    ASSUME Typed, Orderly, NEW c \in Controllers, NEW r \in Locals, Becomes(c, r),
           Reserves(c, r)
    PROVE  Orderly'
<1>1. /\ TypeOK /\ ledger \in Seq(Entry) /\ ctl[c].pc = "reserve"
      /\ Placed(c, ctl[c], lease, Records)
  BY Unchanged DEF Orderly, Reserves
<1>2. c \in lease
  BY <1>1 DEF Placed, Leased
<1>3. CASE r = Idle /\ lease' = lease \ {c} /\ ledger' = ledger
  <2>1. Placed(c, r, lease', Records)
    BY <1>3, PlacedIdle
  <2> QED
    BY <1>3, <2>1, OrderlyLocally
<1>4. CASE ~(r = Idle /\ lease' = lease \ {c} /\ ledger' = ledger)
  <2> DEFINE rec == ReservationRecord(c)
  <2>1. /\ Reselected(c) /\ rec \in L!Record /\ lease' = lease
        /\ ledger' = Append(ledger, [rec |-> rec, seq |-> NextSequence(c)])
        /\ r.pc = "confirm" /\ r.number = ctl[c].number
    BY <1>4 DEF Reserves
  <2>2. rec.status = "reserved" /\ rec.card[1] = ctl[c].card /\ rec.card = rec.card
    BY DEF ReservationRecord
  <2>3. \A x \in Records : x.card[1] # rec.card[1]
    BY <1>1, <2>1, <2>2, CardIsFree
  <2> HIDE DEF rec
  <2>4. Records' = Records \union {rec}
    BY <1>1, <2>1, RecordsGrow, NextSequenceIs
  <2>5. Placed(c, r, lease', Records')
    BY <1>1, <1>2, <2>1 DEF Placed, Loaded, Walking, Outside, Leased
  <2>6. CardsWereReserved'
    BY <2>2, <2>4 DEF Orderly, CardsWereReserved
  <2>7. CardsApart'
    BY <2>3, <2>4 DEF Orderly, CardsApart
  <2> QED
    BY <1>2, <2>1, <2>4, <2>5, <2>6, <2>7, PlacedStep DEF Orderly
<1> QED
  BY <1>3, <1>4

LEMMA OrderlyAppends ==
    ASSUME Typed, Orderly, NEW c \in Controllers, NEW r \in Locals, Becomes(c, r),
           Appends(c, r)
    PROVE  Orderly'
<1>1. /\ TypeOK /\ ledger \in Seq(Entry) /\ ctl[c].pc = "append" /\ lease' = lease
      /\ Placed(c, ctl[c], lease, Records)
  BY Unchanged DEF Orderly, Appends
<1>2. /\ c \notin lease /\ ctl[c].next # "reserved"
      /\ \A i \in 1..Len(ctl[c].view) : ctl[c].view[i] \in Records
  BY <1>1 DEF Placed, Leased, Loaded, Outside
<1>3. CASE r = Idle /\ ledger' = ledger
  <2>1. Placed(c, r, lease', Records)
    BY <1>1, <1>2, <1>3, PlacedIdle
  <2> QED
    BY <1>1, <1>3, <2>1, OrderlyLocally
<1>4. CASE ~(r = Idle /\ ledger' = ledger)
  <2>1. PICK rec \in L!Record :
          /\ rec.run = ctl[c].run /\ rec.status = ctl[c].next
          /\ \E i \in 1..Len(ctl[c].view) :
                ctl[c].view[i].run = ctl[c].run /\ rec.card = ctl[c].view[i].card
          /\ ledger' = Append(ledger, [rec |-> rec, seq |-> NextSequence(c)])
          /\ r.pc = "decide" /\ r.number = 0 /\ r.view = Append(ctl[c].view, rec)
    BY <1>4 DEF Appends
  <2>2. PICK x \in Records : x.run = rec.run /\ x.card = rec.card
    BY <1>2, <2>1
  <2>3. Records' = Records \union {rec}
    BY <1>1, <2>1, RecordsGrow, NextSequenceIs
  <2>4. \A i \in 1..Len(r.view) : r.view[i] \in Records'
    <3>1. ctl[c].view \in Seq(L!Record)
      BY <1>1, TypesOf DEF Locals
    <3>2. /\ 1..Len(r.view) = (1..Len(ctl[c].view)) \union {Len(ctl[c].view) + 1}
          /\ \A i \in 1..Len(ctl[c].view) : r.view[i] = ctl[c].view[i]
          /\ r.view[Len(ctl[c].view) + 1] = rec
      BY <2>1, <3>1, Appended
    <3> QED
      BY <1>2, <2>3, <3>2
  <2>5. Placed(c, r, lease', Records')
    BY <1>1, <1>2, <2>1, <2>4 DEF Placed, Leased
  <2>6. CardsWereReserved'
    BY <2>2, <2>3 DEF Orderly, CardsWereReserved
  <2>7. CardsApart'
    BY <2>2, <2>3 DEF Orderly, CardsApart
  <2>8. \A y \in Records' \ Records : y.status # "reserved"
    BY <1>2, <2>1, <2>3
  <2> QED
    BY <1>1, <2>3, <2>5, <2>6, <2>7, <2>8, PlacedStep DEF Orderly
<1> QED
  BY <1>3, <1>4

LEMMA OrderlyInit == Init => Orderly
<1> SUFFICES ASSUME Init PROVE Orderly
  OBVIOUS
<1>1. Records = {} /\ lease = {} /\ \A c \in Controllers : ctl[c] = Idle
  <2>1. Len(ledger) = 0
    BY EmptySeq DEF Init
  <2> QED
    BY <2>1 DEF Records, Init
<1> QED
  BY <1>1, PlacedIdle DEF Orderly, CardsWereReserved, CardsApart

LEMMA NextOrderly == Typed /\ Orderly /\ [Next]_vars => Orderly'
<1> SUFFICES ASSUME Typed, Orderly, [Next]_vars PROVE Orderly'
  OBVIOUS
<1>1. CASE \E c \in Controllers, r \in Locals : Becomes(c, r) /\ Does(c, r)
  BY <1>1, OrderlyQuiet, OrderlyReserves, OrderlyAppends DEF Does
<1>2. CASE \E c \in Controllers : Walks(c)
  BY <1>2, OrderlyWalk
<1>3. CASE UNCHANGED <<ledger, lease, ctl>>
  <2>1. Records' = Records
    BY <1>3 DEF Records
  <2>2. CardsWereReserved' /\ CardsApart'
    BY <2>1 DEF Orderly, CardsWereReserved, CardsApart
  <2> QED
    BY <1>3, <2>1, <2>2 DEF Orderly
<1>4. ChangeRepository => UNCHANGED <<ledger, lease, ctl>>
  BY DEF ChangeRepository
<1>5. (\E run \in RunIds : Meddles(run)) => UNCHANGED <<ledger, lease, ctl>>
  BY DEF Meddles
<1> QED
  BY <1>1, <1>2, <1>3, <1>4, <1>5, Steps

\* A card gets one run, whatever is edited between the invocations and however
\* they overlap: the reservation is chosen from all the others, under the lease.
THEOREM CardsGetOneRun == Spec => []OneRunPerCardId
<1>1. Spec => [](Typed /\ Orderly)
  BY TypedInit, NextTyped, OrderlyInit, NextOrderly, PTL DEF Spec
<1>2. Typed /\ Orderly => OneRunPerCardId
  <2> SUFFICES ASSUME Typed, Orderly,
                      NEW i \in 1..Len(ledger), NEW j \in 1..Len(ledger),
                      ledger[i].rec.card[1] = ledger[j].rec.card[1]
               PROVE  RunOf(i) = RunOf(j)
    BY DEF OneRunPerCardId
  <2>1. ledger[i].rec \in Records /\ ledger[j].rec \in Records
    BY DEF Records
  <2> QED
    BY <2>1 DEF Orderly, CardsApart, RunOf
<1> QED
  BY <1>1, <1>2, PTL

LEMMA ReservationFresh ==
    ASSUME Typed, Orderly, NEW c \in Controllers, ctl[c].pc = "reserve",
           Undrifted(c), Reselected(c)
    PROVE  LET rec == ReservationRecord(c)
           IN /\ repo.ready
              /\ rec.card[2] = repo.source /\ rec.base = repo.head
              /\ rec.card[1] \in Offered[repo.source]
              /\ \A id \in Offered[repo.source] :
                    id <= rec.card[1] /\ repo.namespace[id] # "established" =>
                      /\ repo.namespace[id] = "absent"
                      /\ id < rec.card[1] => ReservedAt(History, id, repo.source)
<1> DEFINE card == ctl[c].card
           source == repo.source
           view == ctl[c].view
<1>1. repo.ready /\ source = ctl[c].seen.source /\ repo.head = ctl[c].seen.head
  BY DEF Undrifted
<1>2. /\ card \in Eligible(view, source, repo.namespace)
      /\ \A id \in Eligible(view, source, repo.namespace) : card <= id
      /\ ~SelectionBlocked(view, source, repo.namespace)
      /\ card \in CardIds /\ source \in Sources
  BY <1>1, ChosenCard DEF Typed
<1>3. /\ ReservationRecord(c).card = <<card, source>>
      /\ ReservationRecord(c).base = repo.head
  BY <1>1 DEF ReservationRecord
<1>4. card \in Offered[source]
  BY <1>2 DEF Eligible, Considered
<1>5. /\ repo.namespace \in [CardIds -> {"absent", "partial", "established"}]
      /\ Offered[source] \subseteq CardIds
  BY <1>2, CheckoutsAssumption, TypesOf DEF CheckoutsAssumption, Checkout, Typed
<1>6. \A id \in CardIds : id \in Nat
  BY BoundsAssumption DEF BoundsAssumption, CardIds
<1>7. ASSUME NEW id \in Offered[source], id <= card, repo.namespace[id] # "established"
      PROVE  /\ repo.namespace[id] = "absent"
             /\ id < card => ReservedAt(History, id, source)
  <2>1. id \in Considered(source, repo.namespace) /\ id \in CardIds
    BY <1>5, <1>7 DEF Considered
  <2>2. \A earlier \in Eligible(view, source, repo.namespace) : earlier >= id
    <3>1. \A earlier \in Eligible(view, source, repo.namespace) : earlier \in CardIds
      BY <1>5 DEF Eligible, Considered
    <3> QED
      BY <1>2, <1>6, <1>7, <2>1, <3>1
  <2>3. repo.namespace[id] # "partial"
    BY <1>2, <2>1, <2>2 DEF SelectionBlocked
  <2>4. repo.namespace[id] = "absent"
    BY <1>5, <1>7, <2>1, <2>3
  <2>5. ASSUME id < card PROVE ReservedAt(History, id, source)
    <3>1. id \notin Eligible(view, source, repo.namespace)
      BY <1>2, <1>6, <2>1, <2>5
    <3>2. PICK i \in 1..Len(view) : view[i].status = "reserved" /\ view[i].card = <<id, source>>
      BY <2>1, <3>1 DEF Eligible, ReservedAt
    <3>3. view[i] \in Records
      BY DEF Orderly, Placed
    <3>4. PICK j \in 1..Len(History) : History[j] = view[i]
      BY <3>3, Unchanged, HistoryRecords
    <3> QED
      BY <3>2, <3>4 DEF ReservedAt
  <2> QED
    BY <2>4, <2>5
<1> QED
  BY <1>1, <1>3, <1>4, <1>7

LEMMA NextReserves == Typed /\ Orderly /\ [Next]_vars => FreshReservation
<1> SUFFICES ASSUME Typed, Orderly, [Next]_vars,
                    NEW i \in (Len(ledger) + 1)..Len(ledger'),
                    ledger'[i].rec.status = "reserved"
             PROVE  \E c \in Controllers :
                       /\ ctl[c].pc = "reserve" /\ Undrifted(c) /\ Reselected(c)
                       /\ ledger'[i].rec = ReservationRecord(c)
  BY ReservationFresh DEF FreshReservation
<1>1. TypeOK /\ ledger \in Seq(Entry) /\ Len(ledger) \in Nat
  BY Unchanged, Elements
<1>2. ledger' # ledger
  BY <1>1
<1>3. PICK c \in Controllers, r \in Locals :
          Becomes(c, r) /\ (Reserves(c, r) \/ Appends(c, r))
  BY <1>2, Steps
  DEF Does, Selects, Prepares, Replays, Opens, Decides, Pushes, CreatesPull, Halts,
      Walks, ChangeRepository, Meddles
<1>4. ASSUME NEW rec \in L!Record,
             ledger' = Append(ledger, [rec |-> rec, seq |-> NextSequence(c)])
      PROVE  ledger'[i].rec = rec
  <2>1. /\ Len(ledger') = Len(ledger) + 1
        /\ ledger'[Len(ledger) + 1].rec = rec
    BY <1>1, <1>4, LedgerGrows, NextSequenceIs
  <2>2. i = Len(ledger) + 1
    BY <1>1, <2>1
  <2> QED
    BY <2>1, <2>2
<1>5. CASE Reserves(c, r)
  BY <1>2, <1>4, <1>5 DEF Reserves
<1>6. CASE Appends(c, r)
  <2>1. PICK rec \in L!Record :
          /\ rec.status = ctl[c].next /\ ctl[c].pc = "append"
          /\ ledger' = Append(ledger, [rec |-> rec, seq |-> NextSequence(c)])
    BY <1>2, <1>6 DEF Appends
  <2>2. ctl[c].next # "reserved"
    BY <2>1 DEF Orderly, Placed
  <2> QED
    BY <1>4, <2>1, <2>2
<1> QED
  BY <1>3, <1>5, <1>6

\* A reservation is what a fresh selection would reserve at that moment, whatever
\* was edited since the packet, the roadmap and HEAD were read.
THEOREM ReservesTheFirstFreeCard == Spec => ReservesWhatIsThere
<1>1. Typed /\ Orderly /\ [Next]_vars => [FreshReservation]_vars
  BY NextReserves
<1>2. Spec => [](Typed /\ Orderly)
  BY TypedInit, NextTyped, OrderlyInit, NextOrderly, PTL DEF Spec
<1> QED
  BY <1>1, <1>2, PTL DEF Spec, ReservesWhatIsThere

-----------------------------------------------------------------------------
(* The effects.  Written are the statuses on record; Rights are those a    *)
(* run may have by what the host keeps; Settlements are the pull requests  *)
(* that were there with their branch before people touched them.  None of  *)
(* the three ever shrinks, so what a process found stays true until it     *)
(* appends (Founded), however the processes interleave.                    *)

Committed == {"candidate_observed", "commit_observed", "verified", "push_intent",
              "push_observed", "pr_intent", "pr_observed", "completed"}
Verdicted == {"verified", "push_intent", "push_observed", "pr_intent",
              "pr_observed", "completed"}

Written == { <<x.run, x.status>> : x \in Records }
Rights ==
    { p \in RunIds \X Statuses :
        /\ p[2] \in Committed => p[1] \in ref
        /\ p[2] \in Verdicted => receipts[p[1]]["verify"].state = "stored" }
Settlements ==
    { p \in RunIds \X PullNumbers :
        /\ p[2] \in 1..Len(pulls[p[1]])
        /\ p[1] \in meddled \/ remote[p[1]] = "match" }

Founded(r, written, rights, settlements) ==
    /\ r.pc = "append" =>
          /\ <<r.run, r.next>> \in rights
          /\ r.next \in Late => <<r.run, r.number>> \in settlements
    /\ r.pc \in {"publish", "confirm_push"} => <<r.run, "push_intent">> \in written
    /\ r.pc = "create_pr" => <<r.run, "pr_intent">> \in written

Sound(recs, rights, settlements) ==
    \A x \in recs :
        /\ <<x.run, x.status>> \in rights
        /\ x.status \in Late => <<x.run, x.payload>> \in settlements
        /\ x.payload # 0 => x.status \in Late

Effectual ==
    /\ Sound(Records, Rights, Settlements)
    /\ \A c \in Controllers : Founded(ctl[c], Written, Rights, Settlements)
    /\ EffectsFollowIntents

LEMMA WrittenIs ==
    ASSUME NEW run, NEW s
    PROVE  /\ <<run, s>> \in Written <=> \E x \in Records : x.run = run /\ x.status = s
           /\ HasStatus(run, s) <=> <<run, s>> \in Written
<1>1. <<run, s>> \in Written <=> \E x \in Records : x.run = run /\ x.status = s
  BY DEF Written
<1>2. HasStatus(run, s) <=> \E x \in Records : x.run = run /\ x.status = s
  BY DEF HasStatus, Records, RunOf
<1> QED
  BY <1>1, <1>2

\* What is outside may only grow, except where people touch it.
OutsideGrows ==
    \A run \in RunIds :
        /\ Len(pulls[run]) <= Len(pulls'[run])
        /\ run \in meddled \/ remote[run] = "match" =>
              run \in meddled' \/ remote'[run] = "match"

LEMMA Grows ==
    ASSUME Typed, Typed', Records \subseteq Records', HostGrows, OutsideGrows
    PROVE  /\ Written \subseteq Written' /\ Rights \subseteq Rights'
           /\ Settlements \subseteq Settlements'
           /\ \A run, s : HasStatus(run, s) => HasStatus(run, s)'
<1>1. Written \subseteq Written'
  BY DEF Written
<1>2. Rights \subseteq Rights'
  BY DEF Rights, HostGrows
<1>3. Settlements \subseteq Settlements'
  <2>1. \A run \in RunIds : /\ Len(pulls[run]) \in Nat /\ Len(pulls'[run]) \in Nat
                            /\ 1..Len(pulls[run]) \subseteq 1..Len(pulls'[run])
    <3>1. ASSUME NEW run \in RunIds
          PROVE  Len(pulls[run]) \in Nat /\ Len(pulls'[run]) \in Nat
      <4>1. pulls[run] \in Seq(PullStates) /\ pulls'[run] \in Seq(PullStates)
        BY DEF Typed, TypeOK, PullStates
      <4> QED
        BY <4>1, Elements
    <3> QED
      BY <3>1 DEF OutsideGrows
  <2> QED
    BY <2>1 DEF Settlements, OutsideGrows
<1>4. \A run, s : HasStatus(run, s) => HasStatus(run, s)'
  <2>1. \A run, s : HasStatus(run, s) <=> \E x \in Records : x.run = run /\ x.status = s
    BY DEF HasStatus, Records, RunOf
  <2>2. \A run, s : HasStatus(run, s)' <=> \E x \in Records' : x.run = run /\ x.status = s
    BY DEF HasStatus, Records, RunOf
  <2> QED
    BY <2>1, <2>2
<1> QED
  BY <1>1, <1>2, <1>3, <1>4

LEMMA FoundedIdle ==
    ASSUME NEW w, NEW h, NEW s
    PROVE  Founded(Idle, w, h, s)
  BY IdleIs DEF Founded

LEMMA EffectStep ==
    ASSUME Typed, Typed', Effectual, Records \subseteq Records', HostGrows, OutsideGrows,
           \A c \in Controllers :
              ctl'[c] = ctl[c] \/ Founded(ctl'[c], Written', Rights', Settlements'),
           \A x \in Records' \ Records :
              /\ <<x.run, x.status>> \in Rights
              /\ x.status \in Late => <<x.run, x.payload>> \in Settlements
              /\ x.payload # 0 => x.status \in Late,
           \A run \in RunIds :
              \/ remote'[run] = remote[run] /\ pulls'[run] = pulls[run]
              \/ run \in meddled' /\ remote[run] # "absent"
                 /\ (pulls'[run] # << >> => pulls[run] # << >>)
              \/ /\ remote'[run] = "match"
                 /\ <<run, "push_intent">> \in Written
                 /\ pulls'[run] = pulls[run] \/ <<run, "pr_intent">> \in Written
    PROVE  Effectual'
<1>1. /\ Written \subseteq Written' /\ Rights \subseteq Rights'
      /\ Settlements \subseteq Settlements'
      /\ \A run, s : HasStatus(run, s) => HasStatus(run, s)'
  BY Grows
<1>2. Sound(Records', Rights', Settlements')
  BY <1>1 DEF Effectual, Sound
<1>3. \A c \in Controllers : Founded(ctl'[c], Written', Rights', Settlements')
  BY <1>1 DEF Effectual, Founded
<1>4. ASSUME NEW run \in RunIds
      PROVE  /\ remote'[run] # "absent" =>
                  /\ HasStatus(run, "push_intent")'
                  /\ run \in ref' /\ receipts'[run]["verify"].state = "stored"
             /\ pulls'[run] # << >> =>
                  /\ HasStatus(run, "pr_intent")'
                  /\ run \in meddled' \/ remote'[run] = "match"
  <2>1. /\ remote[run] # "absent" =>
              /\ HasStatus(run, "push_intent")
              /\ run \in ref /\ receipts[run]["verify"].state = "stored"
        /\ pulls[run] # << >> =>
              /\ HasStatus(run, "pr_intent")
              /\ run \in meddled \/ remote[run] = "match"
    BY DEF Effectual, EffectsFollowIntents
  <2>2. /\ run \in ref => run \in ref'
        /\ receipts[run]["verify"].state = "stored" => receipts'[run]["verify"].state = "stored"
        /\ run \in meddled \/ remote[run] = "match" => run \in meddled' \/ remote'[run] = "match"
    BY DEF HostGrows, OutsideGrows
  <2>3. ASSUME <<run, "push_intent">> \in Written
        PROVE  run \in ref /\ receipts[run]["verify"].state = "stored"
    <3>1. PICK x \in Records : x.run = run /\ x.status = "push_intent"
      BY <2>3, WrittenIs
    <3>2. <<run, "push_intent">> \in Rights
      BY <3>1 DEF Effectual, Sound
    <3> QED
      BY <3>2 DEF Rights, Committed, Verdicted
  <2>4. \A s : <<run, s>> \in Written => HasStatus(run, s)'
    BY <1>1, WrittenIs
  <2> QED
    BY <1>1, <2>1, <2>2, <2>3, <2>4
<1>5. EffectsFollowIntents'
  BY <1>4 DEF EffectsFollowIntents
<1> QED
  BY <1>2, <1>3, <1>5 DEF Effectual

\* A step that leaves host and GitHub alone and appends nothing.
LEMMA EffectLocally ==
    ASSUME Typed, Typed', Effectual, NEW c \in Controllers, NEW r, Becomes(c, r),
           UNCHANGED <<ledger, receipts, ref, remote, pulls, meddled>>,
           Founded(r, Written, Rights, Settlements)
    PROVE  Effectual'
<1>1. /\ ctl'[c] = r /\ \A d \in Controllers \ {c} : ctl'[d] = ctl[d]
  BY BecomesIs DEF Typed
<1>2. Records' = Records /\ HostGrows /\ OutsideGrows
  <2>1. \A run \in RunIds : Len(pulls[run]) \in Nat
    BY OpenPullIs DEF Typed
  <2> QED
    BY <2>1 DEF Records, HostGrows, OutsideGrows
<1>3. Written' = Written /\ Rights' = Rights /\ Settlements' = Settlements
  BY <1>2 DEF Written, Rights, Settlements
<1>4. \A d \in Controllers :
          ctl'[d] = ctl[d] \/ Founded(ctl'[d], Written', Rights', Settlements')
  BY <1>1, <1>3
<1> QED
  BY <1>2, <1>4, EffectStep

LEMMA Settled ==
    ASSUME Typed, NEW run \in RunIds, NEW n \in 1..Len(pulls[run]),
           n \in PullNumbers, run \in meddled \/ remote[run] = "match"
    PROVE  <<run, n>> \in Settlements
  BY DEF Settlements

\* What a record says of its run.
LEMMA RecordSays ==
    ASSUME Typed, Effectual, NEW run \in RunIds, NEW s, <<run, s>> \in Written
    PROVE  /\ s \in Statuses
           /\ s \in Committed => run \in ref
           /\ s \in Verdicted => receipts[run]["verify"].state = "stored"
<1>1. PICK x \in Records : x.run = run /\ x.status = s
  BY WrittenIs
<1>2. <<run, s>> \in Rights
  BY <1>1 DEF Effectual, Sound
<1> QED
  BY <1>2 DEF Rights

\* The decision is founded on what was observed.
LEMMA DecisionFounded ==
    ASSUME Typed, Effectual, NEW run \in RunIds, run \in Known,
           Status(run) \notin Terminal, Observed(run, Status(run))
    PROVE  LET s == Status(run)
               next == Successor(s)
           IN /\ <<run, next>> \in Rights
              /\ next \in Late => /\ s \in {"pr_intent", "pr_observed"}
                                  /\ <<run, OpenPull(run)>> \in Settlements
<1> DEFINE s == Status(run)
           next == Successor(s)
<1>1. TypeOK /\ ledger \in Seq(Entry)
  BY Unchanged
<1>2. s \in Statuses /\ HasStatus(run, s)
  BY <1>1, StatusIs
<1>3. /\ next \notin {"reserved"} \union Stops
      /\ next = "pr_observed" <=> s = "pr_intent"
      /\ next = "completed" <=> s = "pr_observed"
      /\ next = "push_intent" <=> s = "verified"
      /\ next = "pr_intent" <=> s = "push_observed"
      /\ next = "push_observed" <=> s = "push_intent"
      /\ next = "verified" <=> s = "commit_observed"
      /\ next = "commit_observed" <=> s = "candidate_observed"
      /\ next = "candidate_observed" <=> s = "workspace_observed"
  BY <1>1, NextFound
<1>4. next \in Statuses
  BY <1>2, Onwards
<1>5. /\ s \in Committed => run \in ref
      /\ s \in Verdicted => receipts[run]["verify"].state = "stored"
  BY <1>2, RecordSays, WrittenIs
<1>6. PICK i \in 1..Len(ledger) : RunOf(i) = run /\ Newest(run) = ledger[i].rec
  BY <1>1, NewestIs
<1>7. Newest(run) \in Records /\ Newest(run).run = run /\ Newest(run).status = s
  BY <1>6 DEF Records, RunOf, Status
<1>8. Observed(run, s)
  OBVIOUS
<1> HIDE DEF s, next
<1>9. next \in Committed => run \in ref
  <2>1. s = "workspace_observed" => run \in ref
    BY <1>8 DEF Observed
  <2> QED
    BY <1>3, <1>5, <2>1 DEF Committed
<1>10. next \in Verdicted => receipts[run]["verify"].state = "stored"
  <2>1. s = "commit_observed" => receipts[run]["verify"].state = "stored"
    BY <1>8 DEF Observed, Verified
  <2> QED
    BY <1>3, <1>5, <2>1 DEF Verdicted
<1>11. <<run, next>> \in Rights
  BY <1>4, <1>9, <1>10 DEF Rights
<1>12. ASSUME next \in Late PROVE <<run, OpenPull(run)>> \in Settlements
  <2>1. s \in {"pr_intent", "pr_observed"}
    BY <1>3, <1>12 DEF Late
  <2>2. OpenPull(run) # 0 /\ ~PullUnexpected(run)
    <3>1. CASE s = "pr_intent"
      BY <1>8, <3>1 DEF Observed
    <3>2. CASE s = "pr_observed"
      <4>1. OpenPull(run) = NamedPull(run) /\ ~PullUnexpected(run)
        BY <1>8, <3>2 DEF Observed
      <4>2. NamedPull(run) = Newest(run).payload
        BY <1>7, <3>2 DEF NamedPull, Status
      <4>3. <<run, Newest(run).payload>> \in Settlements
        BY <1>7, <3>2 DEF Effectual, Sound, Late
      <4>4. Newest(run).payload # 0
        BY <4>3 DEF Settlements
      <4> QED
        BY <4>1, <4>2, <4>4
    <3> QED
      BY <2>1, <3>1, <3>2
  <2>3. remote[run] = "match"
    BY <2>2 DEF PullUnexpected
  <2>4. OpenPull(run) \in 1..Len(pulls[run]) /\ OpenPull(run) \in PullNumbers
    BY <1>1, <2>2, OpenPullIs, OpenIsLast
  <2> QED
    BY <2>3, <2>4, Settled
<1>13. next \in Late => s \in {"pr_intent", "pr_observed"}
  BY <1>3 DEF Late
<1> QED
  BY <1>11, <1>12, <1>13 DEF s, next

LEMMA EffectQuiet ==
    ASSUME Typed, Typed', Orderly, Effectual,
           NEW c \in Controllers, NEW r \in Locals, Becomes(c, r),
           \/ Selects(c, r) \/ Prepares(c, r) \/ Replays(c, r) \/ Opens(c, r)
           \/ Decides(c, r) \/ (r = Idle /\ Halts(c))
           \/ Reserves(c, r) /\ r = Idle
           \/ Appends(c, r) /\ r = Idle
    PROVE  Effectual'
<1>1. CASE r = Idle /\ UNCHANGED <<ledger, receipts, ref, remote, pulls, meddled>>
  BY <1>1, FoundedIdle, EffectLocally
<1>2. CASE (r = Idle /\ Halts(c)) \/ (Reserves(c, r) /\ r = Idle) \/ (Appends(c, r) /\ r = Idle)
  BY <1>1, <1>2, IdleIs DEF Halts, Reserves, Appends
<1>3. CASE Selects(c, r) \/ Prepares(c, r) \/ Replays(c, r) \/ Opens(c, r)
  <2>1. Founded(r, Written, Rights, Settlements)
    <3>1. r = Idle \/ r.pc \notin Outside
      BY <1>3 DEF Selects, Prepares, Replays, Opens, Outside
    <3> QED
      BY <3>1, FoundedIdle DEF Founded, Outside
  <2> QED
    BY <1>3, <2>1, EffectLocally DEF Selects, Prepares, Replays, Opens
<1>4. CASE Decides(c, r) /\ r # Idle
  <2>1. /\ ctl[c].pc = "decide" /\ Sited(ctl[c], Known) /\ TypeOK
        /\ UNCHANGED <<ledger, receipts, ref, remote, pulls, meddled>>
    BY <1>4, Unchanged DEF Decides
  <2>2. ctl[c].run \in RunIds /\ ctl[c].run \in Known
    BY <2>1 DEF Sited, Loaded, Walking
  <2> PICK run \in RunIds : run = ctl[c].run /\ run \in Known
    BY <2>2
  <2> DEFINE s == Status(run)
  <2>3. s \notin Terminal /\ r.run = run
    BY <1>4 DEF Decides
  <2>4. HasStatus(run, s)
    BY <2>1, StatusIs
  <2>5. CASE r.pc = "append"
    <3>1. /\ Observed(run, s) /\ r.next = Successor(s)
          /\ r.number = IF s \in {"pr_intent", "pr_observed"} THEN OpenPull(run) ELSE 0
      BY <1>4, <2>5 DEF Decides
    <3>2. /\ <<run, r.next>> \in Rights
          /\ r.next \in Late => /\ s \in {"pr_intent", "pr_observed"}
                                /\ <<run, OpenPull(run)>> \in Settlements
      BY <2>3, <3>1, DecisionFounded
    <3> HIDE DEF s
    <3>3. Founded(r, Written, Rights, Settlements)
      BY <2>3, <2>5, <3>1, <3>2 DEF Founded
    <3> QED
      BY <2>1, <3>3, EffectLocally
  <2>6. CASE r.pc # "append"
    <3>1. \/ r.pc = "publish" /\ s = "push_intent"
          \/ r.pc = "create_pr" /\ s = "pr_intent"
      BY <1>4, <2>6 DEF Decides
    <3>2. <<run, s>> \in Written
      BY <2>4, WrittenIs
    <3> HIDE DEF s
    <3>3. Founded(r, Written, Rights, Settlements)
      BY <2>3, <3>1, <3>2 DEF Founded
    <3> QED
      BY <2>1, <3>3, EffectLocally
  <2> QED
    BY <2>5, <2>6
<1>5. CASE Decides(c, r) /\ r = Idle
  BY <1>1, <1>5 DEF Decides
<1> QED
  BY <1>2, <1>3, <1>4, <1>5

LEMMA EffectWalk ==
    ASSUME Typed, Typed', Effectual, NEW c \in Controllers, Walks(c)
    PROVE  Effectual'
<1>1. PICK r \in Locals : Becomes(c, r) /\ Walked(c, r)
  BY DEF Walks
<1>2. /\ ctl'[c] = r /\ \A d \in Controllers \ {c} : ctl'[d] = ctl[d]
  BY <1>1, BecomesIs DEF Typed
<1>3. Founded(r, Written', Rights', Settlements')
  BY <1>1, FoundedIdle DEF Walked, Walking, Founded
<1>4. UNCHANGED <<ledger, remote, pulls, meddled>> /\ HostGrows
  BY DEF Walks
<1>5. Records' = Records /\ OutsideGrows
  <2>1. \A run \in RunIds : Len(pulls[run]) \in Nat
    BY OpenPullIs DEF Typed
  <2> QED
    BY <1>4, <2>1 DEF Records, OutsideGrows
<1> QED
  BY <1>2, <1>3, <1>4, <1>5, EffectStep

LEMMA EffectPushes ==
    ASSUME Typed, Typed', Effectual, NEW c \in Controllers, NEW r \in Locals,
           Becomes(c, r), Pushes(c, r)
    PROVE  Effectual'
<1>1. /\ TypeOK /\ ctl[c].pc \in {"publish", "confirm_push"} /\ Sited(ctl[c], Known)
      /\ Founded(ctl[c], Written, Rights, Settlements)
      /\ UNCHANGED <<ledger, receipts, ref, pulls, meddled>>
      /\ remote \in [RunIds -> {"absent", "match", "divergent"}]
  BY Unchanged DEF Pushes, Effectual
<1>2. /\ ctl[c].run \in RunIds /\ <<ctl[c].run, "push_intent">> \in Written
  BY <1>1 DEF Sited, Founded
<1> PICK run \in RunIds : run = ctl[c].run
  BY <1>2
<1>3. CASE remote' = remote
  <2>1. Founded(r, Written, Rights, Settlements)
    <3>1. CASE r = Idle
      BY <3>1, FoundedIdle
    <3>2. CASE r # Idle
      <4>1. \/ r.pc = "confirm_push"
            \/ r.pc = "append" /\ r.next = "push_observed"
        BY <3>2 DEF Pushes
      <4>2. r.run = run
        BY <3>2 DEF Pushes
      <4>3. <<run, "push_observed">> \in Rights
        <5>1. run \in ref /\ receipts[run]["verify"].state = "stored"
          BY <1>2, RecordSays DEF Committed, Verdicted
        <5> QED
          BY <5>1, StatusesAre DEF Rights
      <4> QED
        BY <1>2, <4>1, <4>2, <4>3 DEF Founded, Late
    <3> QED
      BY <3>1, <3>2
  <2> QED
    BY <1>1, <1>3, <2>1, EffectLocally
<1>4. CASE remote' # remote
  <2>1. /\ r.pc = "confirm_push" /\ r.run = run
        /\ remote' = [remote EXCEPT ![run] = "match"]
    BY <1>4 DEF Pushes
  <2>2. /\ ctl'[c] = r /\ \A d \in Controllers \ {c} : ctl'[d] = ctl[d]
    BY <1>1, BecomesIs
  <2>3. /\ remote'[run] = "match" /\ \A other \in RunIds \ {run} : remote'[other] = remote[other]
    BY <1>1, <2>1
  <2>4. Records' = Records /\ Written' = Written /\ HostGrows /\ OutsideGrows
    <3>1. \A other \in RunIds : Len(pulls[other]) \in Nat
      BY <1>1, OpenPullIs
    <3> QED
      BY <1>1, <2>3, <3>1 DEF Records, Written, HostGrows, OutsideGrows
  <2>5. Founded(r, Written', Rights', Settlements')
    BY <1>2, <2>1, <2>4 DEF Founded
  <2> QED
    BY <1>1, <1>2, <2>2, <2>3, <2>4, <2>5, EffectStep
<1> QED
  BY <1>3, <1>4

LEMMA EffectCreatesPull ==
    ASSUME Typed, Typed', Effectual, NEW c \in Controllers, NEW r \in Locals,
           Becomes(c, r), CreatesPull(c, r)
    PROVE  Effectual'
<1>1. /\ TypeOK /\ ctl[c].pc = "create_pr" /\ Sited(ctl[c], Known)
      /\ Founded(ctl[c], Written, Rights, Settlements)
      /\ UNCHANGED <<ledger, receipts, ref, remote, meddled>>
      /\ pulls \in [RunIds -> Seq(PullStates)]
  BY Unchanged, TypesOf DEF CreatesPull, Effectual
<1>2. /\ ctl[c].run \in RunIds /\ <<ctl[c].run, "pr_intent">> \in Written
  BY <1>1 DEF Sited, Founded
<1> PICK run \in RunIds : run = ctl[c].run
  BY <1>2
<1>3. <<run, "pr_observed">> \in Rights
  <2>1. run \in ref /\ receipts[run]["verify"].state = "stored"
    BY <1>2, RecordSays DEF Committed, Verdicted
  <2> QED
    BY <2>1, StatusesAre DEF Rights
<1>4. CASE r = Idle
  BY <1>1, <1>4, FoundedIdle, EffectLocally, IdleIs DEF CreatesPull
<1>5. CASE r # Idle /\ pulls' = pulls
  <2>1. /\ remote[run] = "match" /\ r.pc = "append" /\ r.next = "pr_observed" /\ r.run = run
    BY <1>5 DEF CreatesPull
  <2>2. OpenPull(run) # 0 /\ r.number = OpenPull(run)
    <3>1. CASE OpenPull(run) = 0
      <4>1. pulls'[run] = Append(pulls[run], "draft")
        BY <1>1, <1>5, <3>1 DEF CreatesPull
      <4>2. Len(pulls'[run]) = Len(pulls[run]) + 1 /\ Len(pulls[run]) \in Nat
        BY <1>1, <4>1, Appended DEF PullStates
      <4> QED
        BY <1>5, <4>2
    <3>2. CASE OpenPull(run) # 0
      BY <1>5, <3>2 DEF CreatesPull
    <3> QED
      BY <3>1, <3>2
  <2>3. <<run, OpenPull(run)>> \in Settlements
    BY <1>1, <2>1, <2>2, OpenPullIs, OpenIsLast, Settled
  <2>4. Founded(r, Written, Rights, Settlements)
    BY <1>3, <2>1, <2>2, <2>3 DEF Founded
  <2> QED
    BY <1>1, <1>5, <2>4, EffectLocally
<1>6. CASE r # Idle /\ pulls' # pulls
  <2>1. /\ remote[run] = "match" /\ r.pc = "append" /\ r.next = "pr_observed" /\ r.run = run
        /\ pulls' = [pulls EXCEPT ![run] = Append(pulls[run], "draft")]
        /\ r.number = Len(pulls[run]) + 1
    BY <1>1, <1>6 DEF CreatesPull
  <2>2. /\ ctl'[c] = r /\ \A d \in Controllers \ {c} : ctl'[d] = ctl[d]
    BY <1>1, BecomesIs
  <2>3. /\ pulls'[run] = Append(pulls[run], "draft")
        /\ \A other \in RunIds \ {run} : pulls'[other] = pulls[other]
    BY <1>1, <2>1
  <2>4. Len(pulls'[run]) = Len(pulls[run]) + 1 /\ Len(pulls[run]) \in Nat
    BY <1>1, <2>3, Appended DEF PullStates
  <2>5. Records' = Records /\ Written' = Written /\ HostGrows /\ OutsideGrows
    <3>1. \A other \in RunIds : Len(pulls[other]) \in Nat
      BY <1>1, OpenPullIs
    <3>2. \A other \in RunIds : Len(pulls[other]) <= Len(pulls'[other])
      BY <2>3, <2>4, <3>1
    <3> QED
      BY <1>1, <3>2 DEF Records, Written, HostGrows, OutsideGrows
  <2>6. <<run, r.number>> \in Settlements'
    <3>1. r.number \in PullNumbers /\ r.number \in 1..Len(pulls'[run])
      BY <2>1, <2>4 DEF Locals
    <3> QED
      BY <1>1, <2>1, <3>1 DEF Settlements
  <2>7. Rights' = Rights
    BY <1>1 DEF Rights
  <2>8. Founded(r, Written', Rights', Settlements')
    BY <1>3, <2>1, <2>6, <2>7 DEF Founded
  <2>9. \A other \in RunIds :
            \/ remote'[other] = remote[other] /\ pulls'[other] = pulls[other]
            \/ /\ remote'[other] = "match"
               /\ <<other, "push_intent">> \in Written
               /\ pulls'[other] = pulls[other] \/ <<other, "pr_intent">> \in Written
    <3>1. <<run, "push_intent">> \in Written
      BY <2>1, WrittenIs DEF Effectual, EffectsFollowIntents
    <3> QED
      BY <1>1, <1>2, <2>1, <2>3, <3>1
  <2> QED
    BY <1>1, <2>2, <2>5, <2>8, <2>9, EffectStep
<1> QED
  BY <1>4, <1>5, <1>6

LEMMA EffectAppended ==
    ASSUME Typed, Typed', Effectual, NEW c \in Controllers, NEW r \in Locals,
           Becomes(c, r), NEW rec \in L!Record,
           ledger' = Append(ledger, [rec |-> rec, seq |-> NextSequence(c)]),
           UNCHANGED <<receipts, ref, remote, pulls, meddled>>,
           r.pc \notin Outside,
           <<rec.run, rec.status>> \in Rights,
           rec.status \in Late => <<rec.run, rec.payload>> \in Settlements,
           rec.payload # 0 => rec.status \in Late
    PROVE  Effectual'
<1>1. TypeOK /\ ledger \in Seq(Entry)
  BY Unchanged
<1>2. /\ ctl'[c] = r /\ \A d \in Controllers \ {c} : ctl'[d] = ctl[d]
  BY <1>1, BecomesIs
<1>3. Records' = Records \union {rec}
  BY <1>1, RecordsGrow, NextSequenceIs
<1>4. HostGrows /\ OutsideGrows
  <2>1. \A run \in RunIds : Len(pulls[run]) \in Nat
    BY <1>1, OpenPullIs
  <2> QED
    BY <2>1 DEF HostGrows, OutsideGrows
<1>5. Founded(r, Written', Rights', Settlements')
  BY DEF Founded, Outside
<1> QED
  BY <1>2, <1>3, <1>4, <1>5, EffectStep

LEMMA EffectReserves ==
    ASSUME Typed, Typed', Orderly, Effectual, NEW c \in Controllers,
           NEW r \in Locals, Becomes(c, r), Reserves(c, r)
    PROVE  Effectual'
<1>1. CASE r = Idle /\ ledger' = ledger
  BY <1>1, EffectQuiet
<1>2. CASE ~(r = Idle /\ ledger' = ledger)
  <2> DEFINE rec == ReservationRecord(c)
  <2>1. /\ rec \in L!Record
        /\ ledger' = Append(ledger, [rec |-> rec, seq |-> NextSequence(c)])
        /\ r.pc = "confirm" /\ UNCHANGED <<receipts, ref, remote, pulls, meddled>>
    BY <1>2 DEF Reserves
  <2>2. rec.status = "reserved" /\ rec.payload = 0 /\ rec.run \in RunIds
    BY <2>1 DEF ReservationRecord, L!Record
  <2> HIDE DEF rec
  <2>3. <<rec.run, rec.status>> \in Rights
    BY <2>2, StatusesAre DEF Rights, Committed, Verdicted
  <2> QED
    BY <2>1, <2>2, <2>3, EffectAppended DEF Late, Outside
<1> QED
  BY <1>1, <1>2

LEMMA EffectAppends ==
    ASSUME Typed, Typed', Orderly, Effectual, NEW c \in Controllers,
           NEW r \in Locals, Becomes(c, r), Appends(c, r)
    PROVE  Effectual'
<1>1. CASE r = Idle /\ ledger' = ledger
  BY <1>1, EffectQuiet
<1>2. CASE ~(r = Idle /\ ledger' = ledger)
  <2>1. PICK rec \in L!Record :
          /\ ctl[c].pc = "append"
          /\ rec.run = ctl[c].run /\ rec.status = ctl[c].next /\ rec.payload = ctl[c].number
          /\ ledger' = Append(ledger, [rec |-> rec, seq |-> NextSequence(c)])
          /\ r.pc = "decide"
    BY <1>2 DEF Appends
  <2>2. /\ <<rec.run, rec.status>> \in Rights
        /\ rec.status \in Late => <<rec.run, rec.payload>> \in Settlements
    BY <2>1 DEF Effectual, Founded
  <2>3. rec.payload # 0 => rec.status \in Late
    BY <2>1 DEF Orderly, Placed
  <2>4. UNCHANGED <<receipts, ref, remote, pulls, meddled>>
    BY DEF Appends
  <2>5. r.pc \notin Outside
    BY <2>1 DEF Outside
  <2> QED
    BY <2>1, <2>2, <2>3, <2>4, <2>5, EffectAppended
<1> QED
  BY <1>1, <1>2

LEMMA EffectMeddles ==
    ASSUME Typed, Typed', Effectual, NEW run \in RunIds, Meddles(run)
    PROVE  Effectual'
<1>1. /\ TypeOK /\ UNCHANGED <<ledger, receipts, ref, ctl>>
      /\ remote[run] # "absent" /\ meddled' = meddled \union {run}
      /\ remote \in [RunIds -> {"absent", "match", "divergent"}]
      /\ pulls \in [RunIds -> Seq(PullStates)]
  BY TypesOf DEF Typed, Meddles
<1>2. /\ \A other \in RunIds \ {run} : pulls'[other] = pulls[other]
      /\ Len(pulls'[run]) = Len(pulls[run]) /\ Len(pulls[run]) \in Nat
      /\ pulls' \in [RunIds -> Seq(PullStates)]
  BY <1>1, MeddledPulls, OpenPullIs
<1>3. \A other \in RunIds \ {run} : remote'[other] = remote[other]
  BY <1>1 DEF Meddles
<1>4. pulls'[run] # << >> => pulls[run] # << >>
  <2>1. pulls[run] = << >> => Len(pulls[run]) = 0
    BY EmptySeq
  <2>2. Len(pulls'[run]) = 0 => pulls'[run] = << >>
    BY <1>2, EmptySeq
  <2> QED
    BY <1>2, <2>1, <2>2
<1>5. Records' = Records /\ HostGrows /\ OutsideGrows
  <2>1. \A other \in RunIds : Len(pulls[other]) \in Nat
    BY <1>1, OpenPullIs
  <2> QED
    BY <1>1, <1>2, <1>3, <2>1 DEF Records, HostGrows, OutsideGrows
<1> QED
  BY <1>1, <1>2, <1>3, <1>4, <1>5, EffectStep

LEMMA EffectInit == Init => Effectual
<1> SUFFICES ASSUME Init PROVE Effectual
  OBVIOUS
<1>1. Records = {} /\ \A c \in Controllers : ctl[c] = Idle
  <2>1. Len(ledger) = 0
    BY EmptySeq DEF Init
  <2> QED
    BY <2>1 DEF Records, Init
<1>2. EffectsFollowIntents
  BY DEF EffectsFollowIntents, Init
<1> QED
  BY <1>1, <1>2, FoundedIdle DEF Effectual, Sound

LEMMA NextEffectual ==
    Typed /\ Orderly /\ Effectual /\ [Next]_vars => Effectual'
<1> SUFFICES ASSUME Typed, Orderly, Effectual, [Next]_vars PROVE Effectual'
  OBVIOUS
<1>1. Typed'
  BY NextTyped
<1>2. CASE \E c \in Controllers, r \in Locals : Becomes(c, r) /\ Does(c, r)
  BY <1>1, <1>2, EffectQuiet, EffectPushes, EffectCreatesPull, EffectReserves, EffectAppends
  DEF Does
<1>3. CASE \E c \in Controllers : Walks(c)
  BY <1>1, <1>3, EffectWalk
<1>4. CASE \E run \in RunIds : Meddles(run)
  BY <1>1, <1>4, EffectMeddles
<1>5. CASE UNCHANGED <<ledger, receipts, ref, remote, pulls, meddled, ctl>>
  <2>1. Records' = Records
    BY <1>5 DEF Records
  <2>2. Written' = Written /\ Rights' = Rights /\ Settlements' = Settlements
    BY <1>5, <2>1 DEF Written, Rights, Settlements
  <2>3. EffectsFollowIntents'
    BY <1>5 DEF Effectual, EffectsFollowIntents, HasStatus, RunOf
  <2> QED
    BY <1>5, <2>1, <2>2, <2>3 DEF Effectual
<1>6. ChangeRepository => UNCHANGED <<ledger, receipts, ref, remote, pulls, meddled, ctl>>
  BY DEF ChangeRepository, host, github
<1> QED
  BY <1>2, <1>3, <1>4, <1>5, <1>6, Steps

LEMMA AwaySafe == Spec => [](Typed /\ Orderly /\ Effectual)
  BY TypedInit, NextTyped, OrderlyInit, NextOrderly, EffectInit, NextEffectual, PTL
  DEF Spec

\* What is on GitHub was announced in the ledger before it was made, and only a
\* commit whose verification is stored leaves the host; however the processes
\* interleave, wherever they end, and whatever people do in between.
THEOREM NothingUnannounced == Spec => []EffectsFollowIntents
<1>1. Effectual => EffectsFollowIntents
  BY DEF Effectual
<1> QED
  BY <1>1, AwaySafe, PTL

\* A completed run has the pull request on record, and its branch, until people
\* touch them.
THEOREM CompletedIsThere == Spec => []CompletedHolds
<1>1. Typed /\ Effectual => CompletedHolds
  <2> SUFFICES ASSUME Typed, Effectual, NEW i \in 1..Len(ledger),
                      ledger[i].rec.status = "completed"
               PROVE  LET run == RunOf(i)  number == ledger[i].rec.payload
                      IN /\ number \in DOMAIN pulls[run]
                         /\ run \in meddled
                               \/ (remote[run] = "match" /\ OpenPull(run) = number)
    BY DEF CompletedHolds
  <2> DEFINE run == RunOf(i)
             number == ledger[i].rec.payload
  <2>1. <<run, number>> \in Settlements
    BY DEF Effectual, Sound, Records, RunOf, Late
  <2>2. /\ run \in RunIds /\ number \in 1..Len(pulls[run])
        /\ run \in meddled \/ remote[run] = "match"
    BY <2>1 DEF Settlements
  <2> HIDE DEF run, number
  <2>3. TypeOK /\ Pulled(run)
    BY <2>2 DEF Typed
  <2>4. DOMAIN pulls[run] = 1..Len(pulls[run]) /\ Len(pulls[run]) \in Nat
    BY <2>2, <2>3, OpenPullIs
  <2>5. ASSUME run \notin meddled PROVE OpenPull(run) = number
    <3>1. Len(pulls[run]) <= 1 /\ pulls[run][number] = "draft"
      BY <2>2, <2>3, <2>5 DEF Pulled
    <3>2. OpenPull(run) \in 1..Len(pulls[run])
      BY <2>2, <2>3, <3>1, OpenPullIs
    <3> QED
      BY <2>2, <2>4, <3>1, <3>2
  <2> QED
    BY <2>2, <2>4, <2>5 DEF run, number
<1> QED
  BY <1>1, AwaySafe, PTL

-----------------------------------------------------------------------------
(* Where invocations do not overlap, one process at a time is under way;   *)
(* it has read all there is (Lone).  So what it appends is accepted by     *)
(* every later reader, the statuses of a run come in order, and a new run  *)
(* begins only where all others have ended.                                *)

Before(s, t) ==
    \E p, q \in 1..10 : p < q /\ StatusOrder[p] = s /\ StatusOrder[q] = t

Ordered ==
    \A i, j \in 1..Len(ledger) :
        i < j /\ RunOf(i) = RunOf(j) =>
            Before(ledger[i].rec.status, ledger[j].rec.status)

Lone(c, r, history, unfinished) ==
    /\ r.pc # "idle" => c = (CHOOSE d \in Controllers : TRUE)
    /\ r.pc \in Loaded \union {"reserve"} => r.view = history
    /\ r.pc \in {"baseline", "lease", "replay", "reserve"} => unfinished = {}

Alone ==
    ~together =>
        /\ \A c \in Controllers : Lone(c, ctl[c], History, Unfinished)
        /\ Readable /\ Ordered
        /\ \A a, b \in Unfinished : a = b

LEMMA StatusOrderIs ==
    /\ \A p \in 1..10, q \in 1..10 : StatusOrder[p] = StatusOrder[q] => p = q
    /\ StatusOrder[8] = "pr_intent" /\ StatusOrder[9] = "pr_observed"
    /\ StatusOrder[10] = "completed" /\ StatusOrder[1] = "reserved"
    /\ \A p \in 1..10 : StatusOrder[p] \notin Stops
    /\ \A s, t : NextStatus(s, t) <=>
          \E p \in 1..9 : StatusOrder[p] = s /\ StatusOrder[p + 1] = t
<1>1. Len(StatusOrder) = 10
  BY DEF StatusOrder
<1>2. 1..(10 - 1) = 1..9
  OBVIOUS
<1>3. \A s, t : NextStatus(s, t) <=>
          \E p \in 1..9 : StatusOrder[p] = s /\ StatusOrder[p + 1] = t
  BY <1>1, <1>2 DEF NextStatus
<1> QED
  BY <1>3 DEF StatusOrder, Stops

\* A step forward is from a status that does not end the run, and is after
\* all that came before.
LEMMA ForwardStep ==
    ASSUME NEW s, NEW t, NextStatus(s, t)
    PROVE  /\ s \notin Terminal /\ t # "reserved" /\ Before(s, t)
           /\ \A u : Before(u, s) => Before(u, t)
<1>1. PICK p \in 1..9 : StatusOrder[p] = s /\ StatusOrder[p + 1] = t
  BY StatusOrderIs
<1>2. p \in 1..10 /\ p + 1 \in 1..10 /\ p # 10 /\ p + 1 # 1 /\ p < p + 1
  OBVIOUS
<1>3. s \notin Terminal
  BY <1>1, <1>2, StatusOrderIs DEF Terminal
<1>4. t # "reserved"
  BY <1>1, <1>2, StatusOrderIs
<1>5. Before(s, t)
  BY <1>1, <1>2 DEF Before
<1>6. ASSUME NEW u, Before(u, s) PROVE Before(u, t)
  <2>1. PICK a, b \in 1..10 : a < b /\ StatusOrder[a] = u /\ StatusOrder[b] = s
    BY <1>6 DEF Before
  <2>2. b = p
    BY <1>1, <1>2, <2>1, StatusOrderIs
  <2>3. a < p + 1
    BY <2>1, <2>2
  <2> QED
    BY <1>1, <1>2, <2>1, <2>3 DEF Before
<1> QED
  BY <1>3, <1>4, <1>5, <1>6

LEMMA LateIsLast ==
    ASSUME NEW s \in Late
    PROVE  ~Before(s, "pr_intent")
<1>1. PICK p \in {9, 10} : StatusOrder[p] = s
  BY StatusOrderIs DEF Late
<1>2. ASSUME Before(s, "pr_intent") PROVE FALSE
  <2>1. PICK a, b \in 1..10 : a < b /\ StatusOrder[a] = s /\ StatusOrder[b] = "pr_intent"
    BY <1>2 DEF Before
  <2>2. a = p /\ b = 8
    BY <1>1, <2>1, StatusOrderIs
  <2> QED
    BY <2>1, <2>2
<1> QED
  BY <1>2

\* The newest record after an append.
LEMMA NewestAppended ==
    ASSUME ledger \in Seq(Entry), NEW rec \in L!Record, NEW n \in Nat \ {0},
           ledger' = Append(ledger, [rec |-> rec, seq |-> n])
    PROVE  /\ Newest(rec.run)' = rec
           /\ \A other \in Known \ {rec.run} : Newest(other)' = Newest(other)
<1> DEFINE m == Len(ledger) + 1
<1>1. /\ Len(ledger) \in Nat /\ Len(ledger') = m
      /\ 1..Len(ledger') = (1..Len(ledger)) \union {m}
      /\ \A i \in 1..Len(ledger) : ledger'[i] = ledger[i]
      /\ ledger'[m].rec = rec
  BY LedgerGrows
<1>2. Newest(rec.run)' = rec
  <2> DEFINE own == { i \in 1..Len(ledger') : ledger'[i].rec.run = rec.run }
             k == CHOOSE i \in own : \A j \in own : j <= i
  <2>1. m \in own /\ \A j \in own : j <= m
    BY <1>1
  <2>2. k \in own /\ \A j \in own : j <= k
    <3> HIDE DEF own
    <3> QED
      BY <2>1
  <2>3. k = m
    <3>1. k <= m /\ m <= k
      BY <2>1, <2>2
    <3>2. k \in Nat /\ m \in Nat
      <4>1. k \in 1..Len(ledger') /\ m \in 1..Len(ledger')
        BY <2>1, <2>2
      <4>2. 1..Len(ledger') \subseteq Nat
        OBVIOUS
      <4> HIDE DEF k, m
      <4> QED
        BY <4>1, <4>2
    <3> HIDE DEF k, m
    <3> QED
      BY <3>1, <3>2
  <2>4. Newest(rec.run)' = ledger'[k].rec
    BY DEF Newest, RunOf
  <2> QED
    BY <1>1, <2>3, <2>4
<1>3. ASSUME NEW other \in Known \ {rec.run} PROVE Newest(other)' = Newest(other)
  <2> DEFINE own == { i \in 1..Len(ledger) : ledger[i].rec.run = other }
             new == { i \in 1..Len(ledger') : ledger'[i].rec.run = other }
             k == CHOOSE i \in own : \A j \in own : j <= i
  <2>1. new = own
    <3> HIDE DEF m
    <3> QED
      BY <1>1, <1>3
  <2>2. Newest(other) = ledger[k].rec
    BY DEF Newest, RunOf
  <2>3. Newest(other)' = ledger'[CHOOSE i \in new : \A j \in new : j <= i].rec
    BY DEF Newest, RunOf
  <2>4. k \in own
    <3>1. own \in SUBSET (1..Len(ledger)) /\ own # {}
      BY <1>3 DEF Known, RunOf
    <3>2. \E i \in own : \A j \in own : j <= i
      <4> HIDE DEF own
      <4> QED
        BY <1>1, <3>1, Greatest
    <3> HIDE DEF own
    <3> QED
      BY <3>2
  <2>5. k \in 1..Len(ledger)
    BY <2>4
  <2>6. Newest(other)' = ledger'[k].rec
    <3> HIDE DEF own, new
    <3> QED
      BY <2>1, <2>3
  <2> HIDE DEF k
  <2> QED
    BY <1>1, <2>2, <2>5, <2>6
<1> QED
  BY <1>2, <1>3

LEMMA HistoryGrows ==
    ASSUME ledger \in Seq(Entry), NEW rec \in L!Record, NEW n \in Nat \ {0},
           ledger' = Append(ledger, [rec |-> rec, seq |-> n])
    PROVE  History' = Append(History, rec)
<1>1. /\ ledger' \in Seq(Entry) /\ Len(ledger) \in Nat
      /\ Len(ledger') = Len(ledger) + 1
      /\ 1..Len(ledger') = (1..Len(ledger)) \union {Len(ledger) + 1}
      /\ \A i \in 1..Len(ledger) : ledger'[i] = ledger[i]
      /\ ledger'[Len(ledger) + 1].rec = rec
  BY LedgerGrows
<1>2. /\ History \in Seq(L!Record) /\ Len(History) = Len(ledger)
      /\ \A i \in 1..Len(ledger) : History[i] = ledger[i].rec
  BY HistoryIs
<1>3. /\ History' \in Seq(L!Record) /\ Len(History') = Len(ledger')
      /\ \A i \in 1..Len(ledger') : History'[i] = ledger'[i].rec
  <2>1. \A i \in 1..Len(ledger') : ledger'[i] \in Entry
    BY <1>1, Elements
  <2>2. \A i \in 1..Len(ledger') : ledger'[i].rec \in L!Record
    BY <2>1 DEF Entry
  <2> QED
    BY <1>1, <2>2 DEF History
<1>4. /\ Append(History, rec) \in Seq(L!Record)
      /\ Len(Append(History, rec)) = Len(History) + 1
      /\ \A i \in 1..Len(History) : Append(History, rec)[i] = History[i]
      /\ Append(History, rec)[Len(History) + 1] = rec
  BY <1>2, Appended
<1>5. \A i \in 1..Len(History') : History'[i] = Append(History, rec)[i]
  BY <1>1, <1>2, <1>3, <1>4
<1> QED
  BY <1>1, <1>2, <1>3, <1>4, <1>5, SeqEqual

\* A reader accepts what its writer accepted.
LEMMA ReplayableGrows ==
    ASSUME NEW h \in Seq(L!Record), NEW rec \in L!Record,
           L!Replayable(h), L!Accepts(h, rec)
    PROVE  L!Replayable(Append(h, rec))
<1> DEFINE g == Append(h, rec)
<1>1. /\ g \in Seq(L!Record) /\ Len(h) \in Nat /\ Len(g) = Len(h) + 1
      /\ 1..Len(g) = (1..Len(h)) \union {Len(h) + 1}
      /\ \A i \in 1..Len(h) : g[i] = h[i]
      /\ g[Len(h) + 1] = rec
  BY Appended
<1>2. \A i \in 1..Len(h) : h[i] \in L!Record
  BY Elements
<1> HIDE DEF g
<1>3. ASSUME NEW i \in 1..Len(g)
      PROVE  SubSeq(g, 1, i - 1) = SubSeq(h, 1, i - 1)
  <2>1. i - 1 \in Int /\ 1 \in Int /\ i - 1 <= Len(h)
    BY <1>1
  <2>2. \A j \in 1..(i - 1) : g[j] \in L!Record /\ h[j] \in L!Record /\ g[j] = h[j]
    BY <1>1, <1>2, <2>1
  <2>3. /\ SubSeq(g, 1, i - 1) \in Seq(L!Record)
        /\ Len(SubSeq(g, 1, i - 1)) = IF 1 <= i - 1 THEN (i - 1) - 1 + 1 ELSE 0
        /\ \A j \in 1..((i - 1) - 1 + 1) : SubSeq(g, 1, i - 1)[j] = g[1 + j - 1]
    BY <2>1, <2>2, SubSeqProperties
  <2>4. /\ SubSeq(h, 1, i - 1) \in Seq(L!Record)
        /\ Len(SubSeq(h, 1, i - 1)) = IF 1 <= i - 1 THEN (i - 1) - 1 + 1 ELSE 0
        /\ \A j \in 1..((i - 1) - 1 + 1) : SubSeq(h, 1, i - 1)[j] = h[1 + j - 1]
    BY <2>1, <2>2, SubSeqProperties
  <2>5. \A j \in 1..Len(SubSeq(g, 1, i - 1)) : SubSeq(g, 1, i - 1)[j] = SubSeq(h, 1, i - 1)[j]
    <3>1. ASSUME NEW j \in 1..Len(SubSeq(g, 1, i - 1))
          PROVE  SubSeq(g, 1, i - 1)[j] = SubSeq(h, 1, i - 1)[j]
      <4>1. j \in 1..(i - 1) /\ j \in 1..((i - 1) - 1 + 1) /\ 1 + j - 1 = j
        BY <1>1, <2>1, <2>3
      <4> QED
        BY <2>2, <2>3, <2>4, <4>1
    <3> QED
      BY <3>1
  <2> QED
    BY <2>3, <2>4, <2>5, SeqEqual
<1>4. SubSeq(h, 1, Len(h)) = h
  BY SubSeqFull
<1>5. ASSUME NEW i \in 1..Len(g) PROVE L!Accepts(SubSeq(g, 1, i - 1), g[i])
  <2>1. CASE i \in 1..Len(h)
    BY <1>1, <1>3, <2>1 DEF L!Replayable
  <2>2. CASE i = Len(h) + 1
    <3>1. i - 1 = Len(h)
      BY <1>1, <2>2
    <3> QED
      BY <1>1, <1>3, <1>4, <2>2, <3>1
  <2> QED
    BY <1>1, <2>1, <2>2
<1>6. L!Replayable(g)
  BY <1>5 DEF L!Replayable
<1> QED
  BY <1>6 DEF g

LEMMA LoneIdle ==
    ASSUME NEW c, NEW history, NEW unfinished
    PROVE  Lone(c, Idle, history, unfinished)
  BY IdleIs DEF Lone, Loaded, Walking, Outside

LEMMA OthersIdle ==
    ASSUME Alone, ~together, NEW c \in Controllers, ctl[c].pc # "idle",
           NEW d \in Controllers \ {c}, NEW history, NEW unfinished
    PROVE  ctl[d].pc = "idle" /\ Lone(d, ctl[d], history, unfinished)
<1>1. /\ Lone(c, ctl[c], History, Unfinished)
      /\ Lone(d, ctl[d], History, Unfinished)
  BY DEF Alone
<1>2. ctl[d].pc = "idle"
  BY <1>1 DEF Lone
<1> QED
  BY <1>2 DEF Lone, Loaded, Walking, Outside

\* The ledger and what is derived from it.
LEMMA SameLedger ==
    ASSUME ledger' = ledger
    PROVE  /\ History' = History /\ Unfinished' = Unfinished
           /\ Readable' = Readable /\ Ordered' = Ordered
           /\ Records' = Records
<1>1. History' = History
  BY DEF History
<1>2. Unfinished' = Unfinished
  BY DEF Unfinished, Known, Status, Newest, RunOf
<1>3. Readable' = Readable
  BY <1>1 DEF Readable
<1>4. Ordered' = Ordered
  BY DEF Ordered, RunOf
<1> QED
  BY <1>1, <1>2, <1>3, <1>4 DEF Records

LEMMA AloneLocally ==
    ASSUME Typed, Alone, NEW c \in Controllers, NEW r, Becomes(c, r),
           ledger' = ledger, together' = together,
           ~together => Lone(c, r, History, Unfinished)
    PROVE  Alone'
<1>1. /\ ctl'[c] = r /\ \A d \in Controllers \ {c} : ctl'[d] = ctl[d]
  BY BecomesIs DEF Typed
<1>2. ASSUME ~together
      PROVE  \A d \in Controllers : Lone(d, ctl'[d], History', Unfinished')
  <2>1. History' = History /\ Unfinished' = Unfinished
    BY SameLedger
  <2>2. \A d \in Controllers \ {c} : Lone(d, ctl[d], History, Unfinished)
    BY <1>2 DEF Alone
  <2> QED
    BY <1>1, <1>2, <2>1, <2>2
<1>3. ~together => /\ Readable' /\ Ordered'
                   /\ \A a, b \in Unfinished' : a = b
  BY SameLedger DEF Alone
<1> QED
  BY <1>2, <1>3 DEF Alone

\* A step that appends nothing.
LEMMA AloneQuiet ==
    ASSUME Typed, Alone, NEW c \in Controllers, NEW r \in Locals, Becomes(c, r),
           \/ Selects(c, r) \/ Prepares(c, r) \/ Replays(c, r) \/ Opens(c, r)
           \/ Decides(c, r) \/ Pushes(c, r) \/ CreatesPull(c, r)
           \/ (r = Idle /\ Halts(c)) \/ (Walks(c) /\ Walked(c, r))
    PROVE  Alone'
<1>1. ledger' = ledger /\ together' = together
  BY DEF Selects, Prepares, Replays, Opens, Decides, Pushes, CreatesPull, Halts, Walks
<1>2. ASSUME ~together PROVE Lone(c, r, History, Unfinished)
  <2>1. Lone(c, ctl[c], History, Unfinished)
    BY <1>2 DEF Alone
  <2>2. CASE r = Idle
    BY <2>2, LoneIdle
  <2>3. CASE Selects(c, r)
    BY <1>2, <2>3 DEF Selects, Lone, Loaded, Walking, Outside
  <2>4. CASE Prepares(c, r) /\ r # Idle
    BY <2>1, <2>4 DEF Prepares, Lone, Loaded, Walking, Outside
  <2>5. CASE Replays(c, r) /\ r # Idle
    BY <2>1, <2>5 DEF Replays, Lone
  <2>6. CASE Opens(c, r) /\ r # Idle
    BY <2>1, <2>6 DEF Opens, Lone, Loaded, Walking, Outside
  <2>7. CASE Decides(c, r) /\ r # Idle
    BY <2>1, <2>7 DEF Decides, Lone, Loaded, Walking, Outside
  <2>8. CASE Pushes(c, r) /\ r # Idle
    BY <2>1, <2>8 DEF Pushes, Lone, Loaded, Walking, Outside
  <2>9. CASE CreatesPull(c, r) /\ r # Idle
    BY <2>1, <2>9 DEF CreatesPull, Lone, Loaded, Walking, Outside
  <2>10. CASE Walked(c, r) /\ r # Idle
    BY <2>1, <2>10 DEF Walked, Lone, Loaded, Walking, Outside
  <2> QED
    BY <2>2, <2>3, <2>4, <2>5, <2>6, <2>7, <2>8, <2>9, <2>10
<1> QED
  BY <1>1, <1>2, AloneLocally

\* What a writer that has read all there is may append.
LEMMA AcceptedNext ==
    ASSUME ledger \in Seq(Entry), NEW rec \in L!Record, L!Accepts(History, rec)
    PROVE  /\ rec.run \in Known => Advances(Status(rec.run), rec.status)
           /\ rec.run \notin Known => rec.status = "reserved"
<1>1. /\ Len(History) = Len(ledger)
      /\ \A i \in 1..Len(ledger) : History[i] = ledger[i].rec
  BY HistoryIs
<1>2. L!TransitionAllowed(History, rec)
  BY DEF L!Accepts
<1>3. L!Started(History, rec.run) <=> rec.run \in Known
  BY <1>1 DEF L!Started, Known, RunOf
<1>4. ASSUME rec.run \in Known PROVE Advances(Status(rec.run), rec.status)
  <2>1. PICK i \in 1..Len(ledger) :
              /\ RunOf(i) = rec.run /\ Newest(rec.run) = ledger[i].rec
              /\ \A j \in 1..Len(ledger) : RunOf(j) = rec.run => j <= i
    BY <1>4, NewestIs
  <2>2. L!Latest(History, i)
    <3>1. Len(ledger) \in Nat
      BY Elements
    <3>2. \A j \in 1..Len(ledger) : j > i => RunOf(j) # rec.run
      BY <2>1, <3>1
    <3> QED
      BY <1>1, <2>1, <3>2 DEF L!Latest, RunOf
  <2>3. L!Advances(History[i].status, rec.status)
    BY <1>1, <1>2, <1>3, <1>4, <2>1, <2>2 DEF L!TransitionAllowed, RunOf
  <2> QED
    BY <1>1, <2>1, <2>3, OneLifecycle DEF Status
<1>5. ASSUME rec.run \notin Known PROVE rec.status = "reserved"
  BY <1>2, <1>3, <1>5 DEF L!TransitionAllowed
<1> QED
  BY <1>4, <1>5

LEMMA ReadableGrows ==
    ASSUME ledger \in Seq(Entry), Readable, NEW rec \in L!Record,
           L!Accepts(History, rec),
           ledger' = Append(ledger, [rec |-> rec, seq |-> Len(ledger) + 1])
    PROVE  Readable'
<1>1. Len(ledger) \in Nat /\ Len(ledger) + 1 \in Nat \ {0}
  BY Elements
<1>2. History' = Append(History, rec)
  BY <1>1, HistoryGrows
<1>3. L!Replayable(History')
  BY <1>2, HistoryIs, ReplayableGrows DEF Readable
<1>4. \A i \in 1..Len(ledger') : ledger'[i].seq = i
  <2>1. /\ 1..Len(ledger') = (1..Len(ledger)) \union {Len(ledger) + 1}
        /\ \A i \in 1..Len(ledger) : ledger'[i] = ledger[i]
        /\ ledger'[Len(ledger) + 1].seq = Len(ledger) + 1
    BY <1>1, LedgerGrows
  <2>2. \A i \in 1..Len(ledger) : ledger[i].seq = i
    BY DEF Readable
  <2> QED
    BY <2>1, <2>2
<1> QED
  BY <1>3, <1>4 DEF Readable

LEMMA OrderedGrows ==
    ASSUME ledger \in Seq(Entry), Ordered, NEW rec \in L!Record, NEW n \in Nat \ {0},
           ledger' = Append(ledger, [rec |-> rec, seq |-> n]),
           \A i \in 1..Len(ledger) :
              RunOf(i) = rec.run => Before(ledger[i].rec.status, rec.status)
    PROVE  Ordered'
<1> DEFINE m == Len(ledger) + 1
<1>1. /\ Len(ledger) \in Nat
      /\ 1..Len(ledger') = (1..Len(ledger)) \union {m}
      /\ \A i \in 1..Len(ledger) : ledger'[i] = ledger[i]
      /\ ledger'[m].rec = rec
  BY LedgerGrows
<1>2. ASSUME NEW i \in 1..Len(ledger'), NEW j \in 1..Len(ledger'), i < j,
             ledger'[i].rec.run = ledger'[j].rec.run
      PROVE  Before(ledger'[i].rec.status, ledger'[j].rec.status)
  <2>1. i \in 1..Len(ledger)
    BY <1>1, <1>2
  <2>2. CASE j \in 1..Len(ledger)
    BY <1>1, <1>2, <2>1, <2>2 DEF Ordered, RunOf
  <2>3. CASE j = m
    <3> HIDE DEF m
    <3> QED
      BY <1>1, <1>2, <2>1, <2>3 DEF RunOf
  <2> QED
    BY <1>1, <2>2, <2>3
<1> QED
  BY <1>2 DEF Ordered, RunOf

LEMMA UnfinishedGrows ==
    ASSUME ledger \in Seq(Entry), NEW rec \in L!Record, NEW n \in Nat \ {0},
           ledger' = Append(ledger, [rec |-> rec, seq |-> n])
    PROVE  Unfinished' \subseteq Unfinished \union {rec.run}
<1>1. Known' = Known \union {rec.run}
  BY LedgerGrows
<1>2. \A other \in Known \ {rec.run} : Newest(other)' = Newest(other)
  BY NewestAppended
<1> QED
  BY <1>1, <1>2 DEF Unfinished, Status

LEMMA AloneAppended ==
    ASSUME Typed, Alone, ~together, NEW c \in Controllers, NEW r, Becomes(c, r),
           ctl[c].pc \in {"reserve", "append"}, together' = together,
           NEW rec \in L!Record, L!Accepts(ctl[c].view, rec),
           ledger' = Append(ledger, [rec |-> rec, seq |-> NextSequence(c)]),
           \A i \in 1..Len(ledger) :
              RunOf(i) = rec.run => Before(ledger[i].rec.status, rec.status),
           \A a, b \in Unfinished \union {rec.run} : a = b,
           Lone(c, r, Append(ctl[c].view, rec), Unfinished')
    PROVE  Alone'
<1>1. /\ TypeOK /\ ledger \in Seq(Entry)
      /\ ctl'[c] = r /\ \A d \in Controllers \ {c} : ctl'[d] = ctl[d]
  BY Unchanged, BecomesIs
<1>2. Readable /\ Ordered /\ ctl[c].view = History /\ ctl[c].pc # "idle"
  <2>1. Lone(c, ctl[c], History, Unfinished)
    BY DEF Alone
  <2>2. ctl[c].pc \in Loaded \union {"reserve"}
    BY DEF Loaded, Outside
  <2> QED
    BY <2>1, <2>2 DEF Alone, Lone
<1>3. NextSequence(c) = Len(ledger) + 1 /\ NextSequence(c) \in Nat \ {0}
  BY <1>1, <1>2, HistoryIs, NextSequenceIs DEF NextSequence
<1>4. Readable'
  BY <1>1, <1>2, <1>3, ReadableGrows
<1>5. Ordered'
  BY <1>1, <1>2, <1>3, OrderedGrows
<1>6. \A a, b \in Unfinished' : a = b
  BY <1>1, <1>3, UnfinishedGrows
<1>7. History' = Append(ctl[c].view, rec)
  BY <1>1, <1>2, <1>3, HistoryGrows
<1>8. \A d \in Controllers \ {c} : Lone(d, ctl[d], History', Unfinished')
  BY <1>2, OthersIdle
<1>9. \A d \in Controllers : Lone(d, ctl'[d], History', Unfinished')
  BY <1>1, <1>7, <1>8
<1> QED
  BY <1>4, <1>5, <1>6, <1>9 DEF Alone

LEMMA AloneReserves ==
    ASSUME Typed, Alone, NEW c \in Controllers, NEW r \in Locals, Becomes(c, r),
           Reserves(c, r)
    PROVE  Alone'
<1>1. ctl[c].pc = "reserve" /\ together' = together /\ ledger \in Seq(Entry)
  BY Unchanged DEF Reserves
<1>2. CASE together
  BY <1>1, <1>2 DEF Alone
<1>3. CASE r = Idle /\ ledger' = ledger
  BY <1>1, <1>3, LoneIdle, AloneLocally
<1>4. CASE ~together /\ ~(r = Idle /\ ledger' = ledger)
  <2> DEFINE rec == ReservationRecord(c)
  <2>1. /\ rec \in L!Record /\ L!Accepts(ctl[c].view, rec) /\ r.pc = "confirm"
        /\ ledger' = Append(ledger, [rec |-> rec, seq |-> NextSequence(c)])
    BY <1>4 DEF Reserves
  <2>2. rec.status = "reserved"
    BY DEF ReservationRecord
  <2> HIDE DEF rec
  <2>3. /\ ctl[c].view = History /\ Unfinished = {}
        /\ c = (CHOOSE d \in Controllers : TRUE)
    BY <1>1, <1>4 DEF Alone, Lone
  <2>4. rec.run \notin Known
    <3>1. ASSUME rec.run \in Known PROVE FALSE
      <4>1. Advances(Status(rec.run), "reserved")
        BY <1>1, <2>1, <2>2, <2>3, <3>1, AcceptedNext
      <4>2. NextStatus(Status(rec.run), "reserved")
        BY <4>1 DEF Advances, Stops
      <4> QED
        BY <4>2, ForwardStep
    <3> QED
      BY <3>1
  <2>5. \A i \in 1..Len(ledger) : RunOf(i) # rec.run
    BY <2>4 DEF Known
  <2>6. Lone(c, r, Append(ctl[c].view, rec), Unfinished')
    BY <2>1, <2>3 DEF Lone, Loaded, Walking, Outside
  <2> QED
    BY <1>1, <1>4, <2>1, <2>3, <2>5, <2>6, AloneAppended
<1> QED
  BY <1>2, <1>3, <1>4

LEMMA AloneAppends ==
    ASSUME Typed, Orderly, Alone, NEW c \in Controllers, NEW r \in Locals,
           Becomes(c, r), Appends(c, r)
    PROVE  Alone'
<1>1. /\ ctl[c].pc = "append" /\ together' = together /\ ledger \in Seq(Entry)
      /\ ctl[c].next \notin {"reserved"} \union Stops
  BY Unchanged DEF Appends, Orderly, Placed
<1>2. CASE together
  BY <1>1, <1>2 DEF Alone
<1>3. CASE r = Idle /\ ledger' = ledger
  BY <1>1, <1>3, LoneIdle, AloneLocally
<1>4. CASE ~together /\ ~(r = Idle /\ ledger' = ledger)
  <2>1. PICK rec \in L!Record :
          /\ rec.run = ctl[c].run /\ rec.status = ctl[c].next
          /\ L!Accepts(ctl[c].view, rec)
          /\ ledger' = Append(ledger, [rec |-> rec, seq |-> NextSequence(c)])
          /\ r.pc = "decide" /\ r.view = Append(ctl[c].view, rec)
    BY <1>4 DEF Appends
  <2>2. /\ Ordered /\ ctl[c].view = History /\ c = (CHOOSE d \in Controllers : TRUE)
        /\ \A a, b \in Unfinished : a = b
    BY <1>1, <1>4 DEF Alone, Lone, Loaded, Outside
  <2>3. rec.run \in Known
    BY <1>1, <2>1, <2>2, AcceptedNext
  <2>4. NextStatus(Status(rec.run), rec.status)
    <3>1. Advances(Status(rec.run), rec.status)
      BY <1>1, <2>1, <2>2, <2>3, AcceptedNext
    <3> QED
      BY <1>1, <2>1, <3>1 DEF Advances
  <2>5. /\ Status(rec.run) \notin Terminal /\ Before(Status(rec.run), rec.status)
        /\ \A u : Before(u, Status(rec.run)) => Before(u, rec.status)
    BY <2>4, ForwardStep
  <2>6. rec.run \in Unfinished
    BY <2>3, <2>5 DEF Unfinished
  <2>7. ASSUME NEW i \in 1..Len(ledger), RunOf(i) = rec.run
        PROVE  Before(ledger[i].rec.status, rec.status)
    <3>1. PICK j \in 1..Len(ledger) :
                /\ RunOf(j) = rec.run /\ Newest(rec.run) = ledger[j].rec
                /\ \A k \in 1..Len(ledger) : RunOf(k) = rec.run => k <= j
      BY <1>1, <2>3, NewestIs
    <3>2. Status(rec.run) = ledger[j].rec.status
      BY <3>1 DEF Status
    <3>3. i = j \/ i < j
      <4>1. i <= j /\ i \in Nat /\ j \in Nat
        BY <1>1, <2>7, <3>1, Elements
      <4> QED
        BY <4>1
    <3>4. CASE i < j
      BY <2>2, <2>5, <2>7, <3>1, <3>2, <3>4 DEF Ordered
    <3>5. CASE i = j
      BY <2>5, <3>2, <3>5
    <3> QED
      BY <3>3, <3>4, <3>5
  <2>8. \A a, b \in Unfinished \union {rec.run} : a = b
    BY <2>2, <2>6
  <2>9. Lone(c, r, Append(ctl[c].view, rec), Unfinished')
    BY <2>1, <2>2 DEF Lone
  <2> QED
    BY <1>1, <1>4, <2>1, <2>7, <2>8, <2>9, AloneAppended
<1> QED
  BY <1>2, <1>3, <1>4

LEMMA AloneInit == Init => Alone
<1> SUFFICES ASSUME Init PROVE Alone
  OBVIOUS
<1>1. Len(ledger) = 0
  BY EmptySeq DEF Init
<1>2. Known = {} /\ Unfinished = {}
  BY <1>1 DEF Known, Unfinished
<1>3. Len(History) = 0
  BY <1>1, EmptySeq, HistoryIs DEF Init
<1>4. Readable /\ Ordered
  BY <1>1, <1>3 DEF Readable, Ordered, L!Replayable
<1> QED
  BY <1>2, <1>4, LoneIdle DEF Alone, Init

LEMMA NextAlone == Typed /\ Orderly /\ Alone /\ [Next]_vars => Alone'
<1> SUFFICES ASSUME Typed, Orderly, Alone, [Next]_vars PROVE Alone'
  OBVIOUS
<1>1. CASE \E c \in Controllers, r \in Locals : Becomes(c, r) /\ Does(c, r)
  BY <1>1, AloneQuiet, AloneReserves, AloneAppends DEF Does
<1>2. CASE \E c \in Controllers : Walks(c)
  <2>1. PICK c \in Controllers : Walks(c)
    BY <1>2
  <2>2. PICK r \in Locals : Becomes(c, r) /\ Walked(c, r)
    BY <2>1 DEF Walks
  <2> QED
    BY <2>1, <2>2, AloneQuiet
<1>3. CASE UNCHANGED <<ledger, ctl, together>>
  BY <1>3, SameLedger DEF Alone
<1>4. ChangeRepository => UNCHANGED <<ledger, ctl, together>>
  BY DEF ChangeRepository
<1>5. (\E run \in RunIds : Meddles(run)) => UNCHANGED <<ledger, ctl, together>>
  BY DEF Meddles
<1> QED
  BY <1>1, <1>2, <1>3, <1>4, <1>5, Steps

\* Whatever the earlier invocations ended at, the records are such that the next
\* one accepts them, and at most one run is unfinished, if they do not overlap.
THEOREM LedgerStaysUsable == Spec => []LedgerUsable
<1>1. Alone => LedgerUsable
  <2> SUFFICES ASSUME Alone, ~together PROVE Readable /\ Cardinality(Unfinished) <= 1
    BY DEF LedgerUsable
  <2>1. CASE Unfinished = {}
    BY <2>1, FS_EmptySet DEF Alone
  <2>2. CASE Unfinished # {}
    <3>1. PICK run \in Unfinished : Unfinished = {run}
      BY <2>2 DEF Alone
    <3>2. Cardinality({run}) = 1
      BY FS_Singleton
    <3> QED
      BY <3>1, <3>2 DEF Alone
  <2> QED
    BY <2>1, <2>2
<1> QED
  BY <1>1, TypedInit, NextTyped, OrderlyInit, NextOrderly, AloneInit, NextAlone, PTL
  DEF Spec

-----------------------------------------------------------------------------
(* The pull request on record is the last one.  A process that is to open  *)
(* one looks for an open one first; where invocations overlap nobody has   *)
(* closed it, and where they do not, none of the records names one yet.    *)

Agrees(r, p) ==
    r.pc = "append" /\ r.number # 0 => r.number = Len(p[r.run])
Unnamed(r, recs) ==
    r.pc = "create_pr" => \A x \in recs : x.run = r.run => x.payload = 0

Counted ==
    /\ \A x \in Records : x.payload # 0 => x.payload = Len(pulls[x.run])
    /\ \A c \in Controllers : Agrees(ctl[c], pulls)
    /\ ~together => \A c \in Controllers : Unnamed(ctl[c], Records)

\* A number on record, or about to be, is one of the pull requests of its run.
LEMMA NamedIsThere ==
    ASSUME Typed, Orderly, Effectual
    PROVE  /\ \A x \in Records : x.payload # 0 =>
                 x.run \in RunIds /\ x.payload \in 1..Len(pulls[x.run])
           /\ \A c \in Controllers : ctl[c].pc = "append" /\ ctl[c].number # 0 =>
                 ctl[c].run \in RunIds /\ ctl[c].number \in 1..Len(pulls[ctl[c].run])
<1>1. \A x \in Records : x.payload # 0 => <<x.run, x.payload>> \in Settlements
  BY DEF Effectual, Sound
<1>2. \A c \in Controllers : ctl[c].pc = "append" /\ ctl[c].number # 0 =>
          <<ctl[c].run, ctl[c].number>> \in Settlements
  BY DEF Effectual, Orderly, Founded, Placed
<1> QED
  BY <1>1, <1>2 DEF Settlements

\* A step that appends nothing and opens no pull request.
LEMMA CountedLocally ==
    ASSUME Typed, Counted, NEW c \in Controllers, NEW r, Becomes(c, r),
           ledger' = ledger, pulls' = pulls, together' = together,
           Agrees(r, pulls), ~together => Unnamed(r, Records)
    PROVE  Counted'
<1>1. /\ ctl'[c] = r /\ \A d \in Controllers \ {c} : ctl'[d] = ctl[d]
  BY BecomesIs DEF Typed
<1>2. Records' = Records
  BY SameLedger
<1>3. \A d \in Controllers : Agrees(ctl'[d], pulls)
  BY <1>1 DEF Counted
<1>4. ~together => \A d \in Controllers : Unnamed(ctl'[d], Records)
  BY <1>1 DEF Counted
<1> QED
  BY <1>2, <1>3, <1>4 DEF Counted

\* Where a run is at its announced pull request, none is on record.
LEMMA NoneNamed ==
    ASSUME Typed, Effectual, Ordered, NEW run \in Known, Status(run) = "pr_intent",
           NEW x \in Records, x.run = run
    PROVE  x.payload = 0
<1>1. ledger \in Seq(Entry)
  BY Unchanged
<1>2. PICK i \in 1..Len(ledger) :
            /\ RunOf(i) = run /\ Newest(run) = ledger[i].rec
            /\ \A j \in 1..Len(ledger) : RunOf(j) = run => j <= i
  BY <1>1, NewestIs
<1>3. PICK j \in 1..Len(ledger) : x = ledger[j].rec
  BY DEF Records
<1>4. ledger[i].rec.status = "pr_intent"
  BY <1>2 DEF Status
<1>5. ASSUME x.payload # 0 PROVE FALSE
  <2>1. x.status \in Late
    BY <1>5 DEF Effectual, Sound
  <2>2. x.status # "pr_intent"
    BY <2>1 DEF Late
  <2>3. j < i
    <3>1. j <= i /\ j # i
      BY <1>2, <1>3, <1>4, <2>2 DEF RunOf
    <3>2. i \in Nat /\ j \in Nat
      BY <1>1, Elements
    <3> QED
      BY <3>1, <3>2
  <2>4. Before(x.status, "pr_intent")
    BY <1>2, <1>3, <1>4, <2>3 DEF Ordered, RunOf
  <2> QED
    BY <2>1, <2>4, LateIsLast
<1> QED
  BY <1>5

LEMMA CountedQuiet ==
    ASSUME Typed, Orderly, Effectual, Alone, Counted, NEW c \in Controllers,
           NEW r \in Locals, Becomes(c, r),
           \/ Selects(c, r) \/ Prepares(c, r) \/ Replays(c, r) \/ Opens(c, r)
           \/ Decides(c, r) \/ Pushes(c, r)
           \/ (r = Idle /\ Halts(c)) \/ (Walks(c) /\ Walked(c, r))
    PROVE  Counted'
<1>1. UNCHANGED <<ledger, pulls, together>>
  BY DEF Selects, Prepares, Replays, Opens, Decides, Pushes, Halts, Walks
<1>2. Placed(c, ctl[c], lease, Records)
  BY DEF Orderly
<1>3. CASE r.pc \notin {"append", "create_pr"}
  BY <1>1, <1>3, CountedLocally DEF Agrees, Unnamed
<1>4. CASE r.pc \in {"append", "create_pr"}
  <2>1. r # Idle
    BY <1>4, IdleIs
  <2>2. \/ Decides(c, r)
        \/ Pushes(c, r) /\ r.pc = "append" /\ r.number = 0
    <3>1. CASE Pushes(c, r)
      BY <1>2, <1>4, <2>1, <3>1 DEF Pushes, Placed
    <3> QED
      BY <1>4, <2>1, <3>1
      DEF Selects, Prepares, Replays, Opens, Walked, Walking
  <2>3. CASE Pushes(c, r) /\ r.pc = "append" /\ r.number = 0
    BY <1>1, <2>3, CountedLocally DEF Agrees, Unnamed
  <2>4. CASE Decides(c, r) /\ r.pc = "append"
    <3>1. /\ r.run = ctl[c].run /\ ctl[c].pc = "decide"
          /\ r.number # 0 => r.number = OpenPull(ctl[c].run)
      BY <2>1, <2>4 DEF Decides
    <3>2. ctl[c].run \in RunIds
      BY <3>1, Unchanged DEF Sited
    <3>3. Agrees(r, pulls)
      BY <3>1, <3>2, OpenIsLast DEF Agrees
    <3> QED
      BY <1>1, <2>4, <3>3, CountedLocally DEF Unnamed
  <2>5. CASE Decides(c, r) /\ r.pc = "create_pr"
    <3>1. /\ r.run = ctl[c].run /\ ctl[c].pc = "decide"
          /\ Status(ctl[c].run) = "pr_intent"
      BY <2>1, <2>5 DEF Decides
    <3>2. ctl[c].run \in Known
      BY <3>1, Unchanged DEF Sited, Loaded, Walking
    <3>3. ~together => Unnamed(r, Records)
      BY <3>1, <3>2, NoneNamed DEF Alone, Unnamed
    <3> QED
      BY <1>1, <2>5, <3>3, CountedLocally DEF Agrees
  <2> QED
    BY <1>4, <2>2, <2>3, <2>4, <2>5
<1> QED
  BY <1>3, <1>4

LEMMA CountedCreates ==
    ASSUME Typed, Orderly, Effectual, Alone, Counted, NEW c \in Controllers,
           NEW r \in Locals, Becomes(c, r), CreatesPull(c, r)
    PROVE  Counted'
<1>1. /\ TypeOK /\ ctl[c].pc = "create_pr" /\ UNCHANGED <<ledger, together>>
      /\ pulls \in [RunIds -> Seq(PullStates)]
  BY TypesOf DEF CreatesPull, Typed
<1>2. ctl[c].run \in RunIds
  BY <1>1, Unchanged DEF Sited
<1> PICK run \in RunIds : run = ctl[c].run
  BY <1>2
<1>3. CASE r = Idle /\ pulls' = pulls
  BY <1>1, <1>3, IdleIs, CountedLocally DEF Agrees, Unnamed
<1>4. CASE OpenPull(run) # 0 /\ r # Idle
  <2>1. /\ pulls' = pulls /\ r.pc = "append" /\ r.run = run
        /\ r.number = OpenPull(run)
    BY <1>4 DEF CreatesPull
  <2>2. Agrees(r, pulls)
    BY <1>4, <2>1, OpenIsLast DEF Agrees
  <2> QED
    BY <1>1, <2>1, <2>2, CountedLocally DEF Unnamed
<1>5. CASE OpenPull(run) = 0 /\ ~(r = Idle /\ pulls' = pulls)
  <2>1. /\ r.pc = "append" /\ r.run = run /\ r.number = Len(pulls[run]) + 1
        /\ pulls' = [pulls EXCEPT ![run] = Append(pulls[run], "draft")]
    BY <1>5 DEF CreatesPull
  <2>2. /\ ctl'[c] = r /\ \A d \in Controllers \ {c} : ctl'[d] = ctl[d]
    BY <1>1, BecomesIs
  <2>3. /\ pulls'[run] = Append(pulls[run], "draft")
        /\ \A other \in RunIds \ {run} : pulls'[other] = pulls[other]
    BY <1>1, <2>1
  <2>4. Len(pulls'[run]) = Len(pulls[run]) + 1
    BY <1>1, <2>3, Appended DEF PullStates
  <2>5. CASE together
    <3>1. Len(pulls[run]) = 0
      BY <1>1, <1>5, <2>5, OpenIsLast DEF Typed, Pulled
    <3>2. 1..Len(pulls[run]) = {}
      BY <3>1
    <3>3. \A x \in Records : x.payload # 0 => x.run \in RunIds \ {run}
      BY <3>2, NamedIsThere
    <3>4. \A d \in Controllers : ctl[d].pc = "append" /\ ctl[d].number # 0 =>
              ctl[d].run \in RunIds \ {run}
      BY <3>2, NamedIsThere
    <3>5. \A x \in Records : x.payload # 0 => x.payload = Len(pulls'[x.run])
      BY <2>3, <3>3 DEF Counted
    <3>6. \A d \in Controllers : Agrees(ctl'[d], pulls')
      <4>1. ASSUME NEW d \in Controllers \ {c} PROVE Agrees(ctl[d], pulls')
        BY <2>3, <3>4 DEF Counted, Agrees
      <4>2. Agrees(r, pulls')
        BY <2>1, <2>4 DEF Agrees
      <4> QED
        BY <2>2, <4>1, <4>2
    <3> QED
      BY <1>1, <2>5, <3>5, <3>6, SameLedger DEF Counted
  <2>6. CASE ~together
    <3>1. \A d \in Controllers \ {c} : ctl[d].pc = "idle"
      BY <1>1, <2>6, OthersIdle
    <3>2. \A x \in Records : x.run = run => x.payload = 0
      BY <1>1, <2>6 DEF Counted, Unnamed
    <3>3. \A x \in Records : x.payload # 0 => x.run \in RunIds \ {run}
      BY <3>2, NamedIsThere
    <3>4. \A x \in Records : x.payload # 0 => x.payload = Len(pulls'[x.run])
      BY <2>3, <3>3 DEF Counted
    <3>5. \A d \in Controllers : Agrees(ctl'[d], pulls') /\ Unnamed(ctl'[d], Records)
      BY <2>1, <2>2, <2>4, <3>1 DEF Agrees, Unnamed
    <3> QED
      BY <1>1, <3>4, <3>5, SameLedger DEF Counted
  <2> QED
    BY <2>5, <2>6
<1> QED
  BY <1>3, <1>4, <1>5 DEF CreatesPull

LEMMA CountedAppends ==
    ASSUME Typed, Orderly, Alone, Counted, NEW c \in Controllers, NEW r \in Locals,
           Becomes(c, r), Reserves(c, r) \/ Appends(c, r)
    PROVE  Counted'
<1>1. /\ TypeOK /\ ledger \in Seq(Entry) /\ UNCHANGED <<pulls, together>>
      /\ ctl[c].pc \in {"reserve", "append"}
  BY Unchanged DEF Reserves, Appends
<1>2. CASE r = Idle /\ ledger' = ledger
  BY <1>1, <1>2, IdleIs, CountedLocally DEF Agrees, Unnamed
<1>3. CASE ~(r = Idle /\ ledger' = ledger)
  <2>1. PICK rec \in L!Record :
          /\ ledger' = Append(ledger, [rec |-> rec, seq |-> NextSequence(c)])
          /\ r.pc \in {"confirm", "decide"}
          /\ rec.payload # 0 =>
                /\ ctl[c].pc = "append" /\ rec.run = ctl[c].run
                /\ rec.payload = ctl[c].number
    <3>1. CASE Reserves(c, r)
      BY <1>3, <3>1 DEF Reserves, ReservationRecord
    <3>2. CASE Appends(c, r)
      BY <1>3, <3>2 DEF Appends
    <3> QED
      BY <3>1, <3>2
  <2>2. /\ ctl'[c] = r /\ \A d \in Controllers \ {c} : ctl'[d] = ctl[d]
    BY <1>1, BecomesIs
  <2>3. Records' = Records \union {rec}
    BY <1>1, <2>1, RecordsGrow, NextSequenceIs
  <2>4. rec.payload # 0 => rec.payload = Len(pulls[rec.run])
    BY <2>1 DEF Counted, Agrees
  <2>5. \A x \in Records' : x.payload # 0 => x.payload = Len(pulls[x.run])
    BY <2>3, <2>4 DEF Counted
  <2>6. \A d \in Controllers : Agrees(ctl'[d], pulls)
    BY <2>1, <2>2 DEF Counted, Agrees
  <2>7. ~together => \A d \in Controllers : Unnamed(ctl'[d], Records')
    <3>1. ~together => \A d \in Controllers \ {c} : ctl[d].pc = "idle"
      BY <1>1, OthersIdle
    <3> QED
      BY <2>1, <2>2, <3>1 DEF Unnamed
  <2> QED
    BY <1>1, <2>5, <2>6, <2>7 DEF Counted
<1> QED
  BY <1>2, <1>3

LEMMA CountedMeddles ==
    ASSUME Typed, Orderly, Effectual, Counted, NEW run \in RunIds, Meddles(run)
    PROVE  Counted'
<1>1. UNCHANGED <<ledger, ctl, together>> /\ Records' = Records
  BY SameLedger DEF Meddles
<1>2. \A other \in RunIds : Len(pulls'[other]) = Len(pulls[other])
  BY MeddledPulls DEF Typed
<1>3. \A x \in Records : x.payload # 0 => x.payload = Len(pulls'[x.run])
  BY <1>2, NamedIsThere DEF Counted
<1>4. \A c \in Controllers : Agrees(ctl[c], pulls')
  BY <1>2, NamedIsThere DEF Counted, Agrees
<1> QED
  BY <1>1, <1>3, <1>4 DEF Counted

LEMMA CountedInit == Init => Counted
<1> SUFFICES ASSUME Init PROVE Counted
  OBVIOUS
<1>1. Len(ledger) = 0
  BY EmptySeq DEF Init
<1>2. Records = {} /\ \A c \in Controllers : ctl[c] = Idle
  BY <1>1 DEF Records, Init
<1> QED
  BY <1>2, IdleIs DEF Counted, Agrees, Unnamed

LEMMA NextCounted ==
    Typed /\ Orderly /\ Effectual /\ Alone /\ Counted /\ [Next]_vars => Counted'
<1> SUFFICES ASSUME Typed, Orderly, Effectual, Alone, Counted, [Next]_vars
             PROVE  Counted'
  OBVIOUS
<1>1. CASE \E c \in Controllers, r \in Locals : Becomes(c, r) /\ Does(c, r)
  BY <1>1, CountedQuiet, CountedCreates, CountedAppends DEF Does
<1>2. CASE \E c \in Controllers : Walks(c)
  <2>1. PICK c \in Controllers : Walks(c)
    BY <1>2
  <2>2. PICK r \in Locals : Becomes(c, r) /\ Walked(c, r)
    BY <2>1 DEF Walks
  <2> QED
    BY <2>1, <2>2, CountedQuiet
<1>3. CASE \E run \in RunIds : Meddles(run)
  BY <1>3, CountedMeddles
<1>4. CASE UNCHANGED <<ledger, ctl, together, pulls>>
  BY <1>4, SameLedger DEF Counted
<1>5. ChangeRepository => UNCHANGED <<ledger, ctl, together, pulls>>
  BY DEF ChangeRepository, github
<1> QED
  BY <1>1, <1>2, <1>3, <1>4, <1>5, Steps

\* Once a pull request is on record no other one is opened for the run, whether
\* people close it, processes end in between, or invocations overlap.
THEOREM OnePullOnRecord == Spec => []NoSecondPull
<1>1. Counted => NoSecondPull
  <2> SUFFICES ASSUME Counted, NEW i \in 1..Len(ledger), ledger[i].rec.payload # 0
               PROVE  ledger[i].rec.payload = Len(pulls[RunOf(i)])
    BY DEF NoSecondPull
  <2>1. ledger[i].rec \in Records
    BY DEF Records
  <2> QED
    BY <2>1 DEF Counted, RunOf
<1>2. Spec => [](Typed /\ Orderly /\ Effectual /\ Alone)
  BY TypedInit, NextTyped, OrderlyInit, NextOrderly, EffectInit, NextEffectual,
     AloneInit, NextAlone, PTL DEF Spec
<1> QED
  BY <1>1, <1>2, CountedInit, NextCounted, PTL DEF Spec

=============================================================================
