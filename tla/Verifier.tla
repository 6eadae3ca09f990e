------------------------------ MODULE Verifier ------------------------------
(***************************************************************************)
(* The verification of one commit: verifyProductionCommit of               *)
(* .pi/away-runtime/production-host.ts with verify of verifier.ts and the  *)
(* syntax check that runs in the sandbox.                                  *)
(*                                                                         *)
(* All invocations for a commit extract it into the same evidence          *)
(* directory of the retained run.  They hold the lease, so they follow one *)
(* another; but the tar of an invocation that died goes on with what is    *)
(* left in its pipe.  The sandbox mounts the evidence read-only.           *)
(*                                                                         *)
(* Abstracted: the catalog and the dependencies, which are written once    *)
(* per invocation and compared like the evidence; directories.             *)
(***************************************************************************)
CONSTANTS Files,          \* source files of the commit
          Invocations,    \* invocations of verifyProductionCommit
          NoOne, NoFile,
          Absent, Whole   \* states of a file in the evidence directory

ASSUME FilesAssumption == Files # {} /\ NoFile \notin Files
ASSUME InvocationsAssumption ==
    NoOne \notin Invocations /\ Absent \notin Invocations /\ Whole \notin Invocations
ASSUME WholeAssumption == Absent # Whole

VARIABLES
    broken,    \* files of the commit that the syntax check rejects
    tree,      \* a file is absent, whole, or being written by somebody's tar
    todo,      \* files an invocation's tar has still to extract
    writing,   \* the file it has open
    lease,     \* the invocation under way
    p,         \* its locals
    verdict,   \* none, running, accepted, refused, dead
    receipts,  \* receipts in the attestation directory
    disturbed  \* history: invocations during which another's tar wrote

tars == <<todo, writing>>
vars == <<broken, tree, tars, lease, p, verdict, receipts, disturbed>>

Nothing == [f \in Files |-> Absent]
Blank == [pc |-> "none", pre |-> Nothing, left |-> {}, status |-> "none"]

Init ==
    /\ broken \in SUBSET Files
    /\ tree = Nothing
    /\ todo = [r \in Invocations |-> {}] /\ writing = [r \in Invocations |-> NoFile]
    /\ lease = NoOne /\ p = Blank
    /\ verdict = [r \in Invocations |-> "none"]
    /\ receipts = {} /\ disturbed = {}

At(label) == lease # NoOne /\ p.pc = label

\* The invocation returns, throws or dies.
End(v) ==
    /\ verdict' = [verdict EXCEPT ![lease] = v]
    /\ lease' = NoOne /\ p' = Blank

-----------------------------------------------------------------------------
(* The evidence tree: git archive | tar -x.                                *)

\* Mutant: a tree that is there already is used as it is.
StartReusesTree(r) ==
    /\ lease = NoOne /\ verdict[r] = "none"
    /\ lease' = r /\ verdict' = [verdict EXCEPT ![r] = "running"]
    /\ todo' = [todo EXCEPT ![r] = IF tree = Nothing THEN Files ELSE {}]
    /\ p' = [Blank EXCEPT !.pc = "extract"]
    /\ UNCHANGED <<broken, tree, writing, receipts, disturbed>>

Start(r) ==
    /\ lease = NoOne /\ verdict[r] = "none"
    /\ lease' = r /\ verdict' = [verdict EXCEPT ![r] = "running"]
    /\ todo' = [todo EXCEPT ![r] = Files]
    /\ p' = [Blank EXCEPT !.pc = "extract"]
    /\ UNCHANGED <<broken, tree, writing, receipts, disturbed>>

\* tar unlinks what is there and creates the file ...
TarOpen(r) ==
    /\ writing[r] = NoFile
    /\ \E f \in todo[r] :
          /\ writing' = [writing EXCEPT ![r] = f]
          /\ todo' = [todo EXCEPT ![r] = @ \ {f}]
          /\ tree' = [tree EXCEPT ![f] = r]
    /\ disturbed' = disturbed \union ({lease} \ {r, NoOne})
    /\ UNCHANGED <<broken, lease, p, verdict, receipts>>

\* ... and writes it; if another tar unlinked it meanwhile nobody sees that.
TarClose(r) ==
    /\ writing[r] # NoFile
    /\ tree' = IF tree[writing[r]] = r
                 THEN [tree EXCEPT ![writing[r]] = Whole] ELSE tree
    /\ writing' = [writing EXCEPT ![r] = NoFile]
    /\ UNCHANGED <<broken, todo, lease, p, verdict, receipts, disturbed>>

\* The tar of an invocation that died finds its pipe closed.
TarEnds(r) ==
    /\ verdict[r] = "dead" /\ (todo[r] # {} \/ writing[r] # NoFile)
    /\ todo' = [todo EXCEPT ![r] = {}] /\ writing' = [writing EXCEPT ![r] = NoFile]
    /\ UNCHANGED <<broken, tree, lease, p, verdict, receipts, disturbed>>

\* git or tar fails, at any file, or the catalog is rejected.
Throw ==
    /\ At("extract")
    /\ todo' = [todo EXCEPT ![lease] = {}]
    /\ writing' = [writing EXCEPT ![lease] = NoFile]
    /\ End("refused")
    /\ UNCHANGED <<broken, tree, receipts, disturbed>>

\* buildInputManifest before the command; it may find too many files.
PreManifest ==
    /\ At("extract") /\ todo[lease] = {} /\ writing[lease] = NoFile
    /\ p' = [p EXCEPT !.pc = "walk", !.pre = tree]
    /\ UNCHANGED <<broken, tree, tars, lease, verdict, receipts, disturbed>>

-----------------------------------------------------------------------------
(* The command in the sandbox.                                             *)

Exit(status) == p' = [p EXCEPT !.pc = "post", !.left = {}, !.status = status]

\* The check lists the source files; a file in the making may be missed.
Walk ==
    /\ At("walk")
    /\ \E listed \in SUBSET { f \in Files : tree[f] # Absent } :
          /\ { f \in Files : tree[f] = Whole } \subseteq listed
          /\ IF listed = {} THEN Exit("failed")
                            ELSE p' = [p EXCEPT !.pc = "check", !.left = listed]
    /\ UNCHANGED <<broken, tree, tars, lease, verdict, receipts, disturbed>>

Passes(f) == tree[f] # Absent /\ (tree[f] = Whole => f \notin broken)
Fails(f) == tree[f] # Whole \/ f \in broken

\* node --check of one file; half a file may pass.
CheckFile(f) ==
    /\ At("check") /\ f \in p.left
    /\ \/ Fails(f) /\ Exit("failed")
       \/ Passes(f) /\ p' = [p EXCEPT !.left = @ \ {f}]
    /\ UNCHANGED <<broken, tree, tars, lease, verdict, receipts, disturbed>>

CommandExits ==
    /\ At("check") /\ p.left = {}
    /\ Exit("passed")
    /\ UNCHANGED <<broken, tree, tars, lease, verdict, receipts, disturbed>>

\* Mutant: the command is given all the time it takes.
TimeoutNever == FALSE /\ UNCHANGED vars

\* The time is up, or the command was killed.
Timeout ==
    /\ At("walk") \/ At("check")
    /\ Exit("aborted")
    /\ UNCHANGED <<broken, tree, tars, lease, verdict, receipts, disturbed>>

-----------------------------------------------------------------------------
(* The receipt.                                                            *)

Outcome == CASE p.status = "aborted"                   -> "aborted"
             [] p.status = "passed" /\ p.pre = tree    -> "completed"
             [] OTHER                                  -> "failed"

\* buildInputManifest after the command.
PostManifest ==
    /\ At("post")
    /\ p' = [p EXCEPT !.pc = "receipt", !.status = Outcome]
    /\ UNCHANGED <<broken, tree, tars, lease, verdict, receipts, disturbed>>

\* writeVerifierAttestation: a temporary file, fsynced and renamed.
WriteReceipt ==
    /\ At("receipt")
    /\ receipts' = receipts \union {<<lease, p.status>>}
    /\ p' = [p EXCEPT !.pc = "decide"]
    /\ UNCHANGED <<broken, tree, tars, lease, verdict, disturbed>>

\* verifyProductionCommit returns the receipt or throws.
Decide ==
    /\ At("decide")
    /\ End(IF p.status = "completed" THEN "accepted" ELSE "refused")
    /\ UNCHANGED <<broken, tree, tars, receipts, disturbed>>

\* The process dies; its tar and its command do not notice at once.
Crash ==
    /\ lease # NoOne
    /\ End("dead")
    /\ UNCHANGED <<broken, tree, tars, receipts, disturbed>>

-----------------------------------------------------------------------------
Command == Walk \/ CommandExits \/ \E f \in Files : CheckFile(f)
Host == PreManifest \/ Timeout \/ PostManifest \/ WriteReceipt \/ Decide
Tar(r) == TarOpen(r) \/ TarClose(r)

\* Every invocation is over.
Rest == (\A r \in Invocations : verdict[r] \notin {"none", "running"}) /\ UNCHANGED vars

Next ==
    \/ \E r \in Invocations : Start(r) \/ Tar(r) \/ TarEnds(r)
    \/ Command \/ Host \/ Throw \/ Crash
    \/ Rest

Spec == Init /\ [][Next]_vars

\* The host goes on and so does its tar; the command of a candidate need not.
FairSpec ==
    /\ Spec
    /\ WF_vars(Host)
    /\ \A r \in Invocations : WF_vars(Tar(r))

-----------------------------------------------------------------------------
(* Properties.                                                             *)

ProgramPoints == {"none", "extract", "walk", "check", "post", "receipt", "decide"}
Statuses == {"none", "passed", "failed", "aborted", "completed"}

\* The type invariant.
TypeOK ==
    /\ broken \in SUBSET Files
    /\ tree \in [Files -> Invocations \union {Absent, Whole}]
    /\ todo \in [Invocations -> SUBSET Files]
    /\ writing \in [Invocations -> Files \union {NoFile}]
    /\ lease \in Invocations \union {NoOne}
    /\ p \in [pc : ProgramPoints, pre : [Files -> Invocations \union {Absent, Whole}],
              left : SUBSET Files, status : Statuses]
    /\ verdict \in [Invocations -> {"none", "running", "accepted", "refused", "dead"}]
    /\ receipts \subseteq Invocations \X Statuses
    /\ disturbed \subseteq Invocations
    /\ \A r \in Invocations : verdict[r] = "running" <=> lease = r

Abstract == INSTANCE Verdict WITH
    sound <- broken = {},
    certified <- { r \in Invocations : <<r, "completed">> \in receipts },
    verdict <- [r \in Invocations |->
                  IF verdict[r] = "dead" THEN "refused" ELSE verdict[r]]

\* A commit is accepted only with a receipt on disk, and a receipt says completed
\* only of a commit whose every file passes, whatever earlier invocations left
\* half extracted in the evidence directory; unless the tar of one that died was
\* still writing (verify, verifyProductionCommit).
ImplementsVerdict == Abstract!Spec

\* Every verification comes to an end, also of a candidate whose command never
\* does (executor_timeout_ms in runInCgroup).
VerificationEnds ==
    \A r \in Invocations : verdict[r] = "running" ~> verdict[r] # "running"

=============================================================================
