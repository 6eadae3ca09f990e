------------------------------- MODULE Brokers -------------------------------
(***************************************************************************)
(* Publication of one candidate by .pi/away-runtime/git-broker.ts and      *)
(* github-broker.ts: createOrObserveCandidateCommit, publishDedicatedBranch*)
(* and createOrGetDraftPullRequest, called one after the other by callers  *)
(* of several processes on the same run and workspace.  The git functions  *)
(* run without giving up control, so the callers of a process meet only on *)
(* GitHub, where a queue of promises serialises them.  The temporary       *)
(* index, git, the remote repository and GitHub are shared by all; answers *)
(* get lost, requests are carried out late, processes end, people close    *)
(* pull requests.                                                          *)
(***************************************************************************)
EXTENDS Naturals, Sequences

CONSTANTS Callers, Processes,
          ProcessOf,   \* the process of a caller
          Seconds,     \* commit times; commits differ by tree and second
          None,        \* no commit, no caller
          MaxListAttempts,  \* MAX_LIST_ATTEMPTS, 3 in the code
          MaxPulls     \* bound: pull requests ever created

Trees == {"base", "work"}   \* the base commit, the candidate in the workspace
Commits == [tree : Trees, time : Seconds]

ASSUME BrokersAssumption ==
    /\ ProcessOf \in [Callers -> Processes]
    /\ None \notin Callers \union Processes \union Commits
    /\ "late" \notin Processes
    /\ MaxPulls \in Nat /\ MaxListAttempts \in Nat \ {0}

VARIABLES
    index,    \* the temporary index of the run
    ref,      \* the dedicated local branch: a commit or None
    remote,   \* the branch of the remote repository: a commit or None
    pulls,    \* pull requests: the process that asked for it, "late" when its
              \* request was carried out late, "closed" once people closed it
    late,     \* the process of a request GitHub has not carried out yet, or None
    call,     \* the locals of each caller
    tail      \* the entry of `queues` in each process: a caller or None

vars == <<index, ref, remote, pulls, late, call, tail>>

Returned(number, overlapped) ==   \* number 0: nothing was returned
    [pc |-> "idle", tree |-> "base", oid |-> None, previous |-> None,
     attempt |-> 0, overlap |-> overlapped, result |-> number]

Init ==
    /\ index = "base" /\ ref = None /\ remote = None /\ pulls = << >> /\ late = None
    /\ call = [c \in Callers |-> Returned(0, FALSE)]
    /\ tail = [p \in Processes |-> None]

-----------------------------------------------------------------------------
Mates(c) == {d \in Callers \ {c} : ProcessOf[d] = ProcessOf[c]}

\* A git function of another caller is under way in the process.
Building == {"add", "names", "write"}
Blocking == Building \union {"probe", "create", "update", "push", "confirm"}
At(c, label) ==
    /\ call[c].pc = label
    /\ \A d \in Mates(c) : call[d].pc \notin Blocking
Goto(c, label) == call' = [call EXCEPT ![c].pc = label] /\ UNCHANGED tail

\* Mutant: a call that ends does not resolve its marker.
LeaveUnresolved(c, number) ==
    /\ call' = [call EXCEPT ![c] = Returned(number, number # 0 /\ call[c].overlap)]
    /\ UNCHANGED tail

\* The call ends: a pull request number, or 0 for a thrown error.  Its marker
\* is resolved whatever happened, so a caller that awaits it may go on.
Leave(c, number) ==
    /\ call' = [d \in Callers |->
                  IF d = c THEN Returned(number, number # 0 /\ call[c].overlap)
                  ELSE IF call[d].previous = c
                    THEN [call[d] EXCEPT !.previous = None]
                  ELSE call[d]]
    /\ tail' = [p \in Processes |-> IF tail[p] = c THEN None ELSE tail[p]]

Throw(c) == Leave(c, 0)

Begin(c) ==
    /\ At(c, "idle")
    /\ call' = [call EXCEPT ![c] = [Returned(0, FALSE) EXCEPT !.pc = "read"]]
    /\ UNCHANGED <<index, ref, remote, pulls, late, tail>>

-----------------------------------------------------------------------------
(* createOrObserveCandidateCommit.                                         *)

\* read-tree of the base into the temporary index of the run: whoever is at
\* work on it loses what it added.
ReadTree(c) ==
    /\ At(c, "read")
    /\ index' = "base"
    /\ LET others == {d \in Callers \ {c} : call[d].pc \in Building}
       IN call' = [d \in Callers |->
                     IF d = c THEN [call[c] EXCEPT !.pc = "add", !.overlap = others # {}]
                     ELSE IF d \in others THEN [call[d] EXCEPT !.overlap = TRUE]
                     ELSE call[d]]
    /\ UNCHANGED <<ref, remote, pulls, late, tail>>

\* add of the candidate paths.
AddPaths(c) ==
    /\ At(c, "add")
    /\ index' = "work"
    /\ Goto(c, "names")
    /\ UNCHANGED <<ref, remote, pulls, late>>

\* diff --cached: exactly the candidate paths differ from the base.
CompareNames(c) ==
    /\ At(c, "names")
    /\ IF index = "work" THEN Goto(c, "write") ELSE Throw(c)
    /\ UNCHANGED <<index, ref, remote, pulls, late>>

WriteTree(c) ==
    /\ At(c, "write")
    /\ call' = [call EXCEPT ![c].pc = "probe", ![c].tree = index]
    /\ UNCHANGED <<index, ref, remote, pulls, late, tail>>

\* Mutant: the tree of an existing candidate is not compared.
SameTreeAlways(c) == TRUE

SameTree(c) == ref.tree = call[c].tree

\* rev-parse of the local branch: absent, the same candidate or divergent.
ProbeRef(c) ==
    /\ At(c, "probe")
    /\ IF ref = None THEN Goto(c, "create")
       ELSE IF SameTree(c)
         THEN /\ call' = [call EXCEPT ![c].pc = "observe", ![c].tree = "base",
                                      ![c].oid = ref]
              /\ UNCHANGED tail
         ELSE Throw(c)
    /\ UNCHANGED <<index, ref, remote, pulls, late>>

\* commit-tree: the commit carries the time of the call.
CommitTree(c) ==
    /\ At(c, "create")
    /\ \E time \in Seconds :
         call' = [call EXCEPT ![c].pc = "update", ![c].tree = "base",
                              ![c].oid = [tree |-> call[c].tree, time |-> time]]
    /\ UNCHANGED <<index, ref, remote, pulls, late, tail>>

\* Mutant: update-ref without the expected old value.
UpdateRefForced(c) ==
    /\ At(c, "update")
    /\ ref' = call[c].oid
    /\ Goto(c, "observe")
    /\ UNCHANGED <<index, remote, pulls, late>>

\* update-ref with the zero oid as old value; a lost race is no error when the
\* winner made the very same commit.
UpdateRef(c) ==
    /\ At(c, "update")
    /\ ref' = IF ref = None THEN call[c].oid ELSE ref
    /\ IF ref' = call[c].oid THEN Goto(c, "observe") ELSE Throw(c)
    /\ UNCHANGED <<index, remote, pulls, late>>

-----------------------------------------------------------------------------
(* publishDedicatedBranch.                                                 *)

ObserveRemote(c) ==
    /\ At(c, "observe")
    /\ CASE remote = None        -> Goto(c, "push")
         [] remote = call[c].oid -> Goto(c, "enqueue")
         [] OTHER                -> Throw(c)
    /\ UNCHANGED <<index, ref, remote, pulls, late>>

\* A push creates the branch or is refused: candidates have one parent, so
\* none is a fast-forward of another.  The answer says nothing certain.
Push(c) ==
    /\ At(c, "push")
    /\ remote' \in {remote, IF remote = None THEN call[c].oid ELSE remote}
    /\ Goto(c, "confirm")
    /\ UNCHANGED <<index, ref, pulls, late>>

ConfirmRemote(c) ==
    /\ At(c, "confirm")
    /\ IF remote = call[c].oid THEN Goto(c, "enqueue") ELSE Throw(c)
    /\ UNCHANGED <<index, ref, remote, pulls, late>>

-----------------------------------------------------------------------------
(* createOrGetDraftPullRequest, under `serialized`.                        *)

Enqueue(c) ==
    /\ At(c, "enqueue")
    /\ call' = [call EXCEPT ![c].pc = "wait", ![c].previous = tail[ProcessOf[c]]]
    /\ tail' = [tail EXCEPT ![ProcessOf[c]] = c]
    /\ UNCHANGED <<index, ref, remote, pulls, late>>

\* Mutant: the operation does not wait for the one before it.
ItsTurnAlways(c) == TRUE

ItsTurn(c) == call[c].previous = None

Enter(c) ==
    /\ At(c, "wait") /\ ItsTurn(c)
    /\ call' = [call EXCEPT ![c].pc = "list", ![c].attempt = 1]
    /\ UNCHANGED <<index, ref, remote, pulls, late, tail>>

OpenPulls == {n \in DOMAIN pulls : pulls[n] # "closed"}

\* listExact, before the creation and after an ambiguous one.
List(c) ==
    \/ /\ At(c, "list") /\ OpenPulls = {}
       /\ call' = [call EXCEPT ![c].pc = "post", ![c].attempt = 0]
       /\ UNCHANGED tail
       /\ UNCHANGED <<index, ref, remote, pulls, late>>
    \/ /\ At(c, "reconcile") /\ OpenPulls = {}
       /\ Throw(c)
       /\ UNCHANGED <<index, ref, remote, pulls, late>>
    \/ /\ At(c, "list") \/ At(c, "reconcile")
       /\ \E n \in OpenPulls :
            IF remote = call[c].oid THEN Leave(c, n) ELSE Throw(c)
       /\ UNCHANGED <<index, ref, remote, pulls, late>>

\* Mutant: a rate-limited list is asked for without end.
ListAgainForever(c) ==
    /\ At(c, "list") \/ At(c, "reconcile")
    /\ call' = [call EXCEPT ![c].attempt = @ + 1]
    /\ UNCHANGED <<index, ref, remote, pulls, late, tail>>

\* A rate-limited answer: sleep and ask again, a bounded number of times.
ListAgain(c) ==
    /\ At(c, "list") \/ At(c, "reconcile")
    /\ IF call[c].attempt < MaxListAttempts
         THEN call' = [call EXCEPT ![c].attempt = @ + 1] /\ UNCHANGED tail
         ELSE Throw(c)
    /\ UNCHANGED <<index, ref, remote, pulls, late>>

\* GitHub has one open pull request for a branch.
Creatable == OpenPulls = {} /\ Len(pulls) < MaxPulls

Reconcile(c) ==
    /\ call' = [call EXCEPT ![c].pc = "reconcile", ![c].attempt = 1]
    /\ UNCHANGED tail

\* The POST: created and answered 201 ...
PostCreated(c) ==
    /\ At(c, "post") /\ Creatable
    /\ pulls' = Append(pulls, ProcessOf[c])
    /\ Leave(c, Len(pulls')) \/ Reconcile(c)
    /\ UNCHANGED <<index, ref, remote, late>>

\* ... or not carried out (422 when one is open, 5xx, a rate limit), or not
\* yet: the answer is lost and GitHub is still at it (one at a time).
PostAmbiguous(c) ==
    /\ At(c, "post")
    /\ late' \in {late, ProcessOf[c]}
    /\ Reconcile(c)
    /\ UNCHANGED <<index, ref, remote, pulls>>

\* Any call may fail in a way that is thrown: transport, status, output, a
\* pull request that is no draft any more.
Fail(c) ==
    /\ call[c].pc \notin {"idle", "wait"}
    /\ Throw(c)
    /\ UNCHANGED <<index, ref, remote, pulls, late>>

-----------------------------------------------------------------------------
(* The environment.                                                        *)

CarriedOut ==
    /\ late # None
    /\ late' = None
    /\ pulls' = IF Creatable THEN Append(pulls, "late") ELSE pulls
    /\ UNCHANGED <<index, ref, remote, call, tail>>

People(n) ==
    /\ n \in OpenPulls
    /\ pulls' = [pulls EXCEPT ![n] = "closed"]
    /\ UNCHANGED <<index, ref, remote, late, call, tail>>

Crash(process) ==
    /\ call' = [c \in Callers |-> IF ProcessOf[c] = process THEN Returned(0, FALSE) ELSE call[c]]
    /\ tail' = [tail EXCEPT ![process] = None]
    /\ UNCHANGED <<index, ref, remote, pulls, late>>

Step(c) ==
    \/ ReadTree(c) \/ AddPaths(c) \/ CompareNames(c) \/ WriteTree(c)
    \/ ProbeRef(c) \/ CommitTree(c) \/ UpdateRef(c)
    \/ ObserveRemote(c) \/ Push(c) \/ ConfirmRemote(c)
    \/ Enqueue(c) \/ Enter(c) \/ List(c) \/ ListAgain(c)
    \/ PostCreated(c) \/ PostAmbiguous(c) \/ Fail(c)

Next ==
    \/ \E c \in Callers : Begin(c) \/ Step(c)
    \/ CarriedOut
    \/ \E process \in Processes : Crash(process)
    \/ \E n \in DOMAIN pulls : People(n)

Spec == Init /\ [][Next]_vars

-----------------------------------------------------------------------------
(* Properties.                                                             *)

Labels == Building \union
    {"idle", "read", "probe", "create", "update", "observe", "push", "confirm",
     "enqueue", "wait", "list", "post", "reconcile"}
Locals ==
    [pc : Labels, tree : Trees, overlap : BOOLEAN,
     oid : Commits \union {None}, previous : Callers \union {None},
     attempt : 0..MaxListAttempts, result : 0..MaxPulls]

\* The type invariant.
TypeOK ==
    /\ index \in Trees
    /\ {ref, remote} \subseteq Commits \union {None}
    /\ pulls \in Seq(Processes \union {"late", "closed"})
    /\ Len(pulls) <= MaxPulls
    /\ late \in Processes \union {None}
    /\ call \in [Callers -> Locals]
    /\ tail \in [Processes -> Callers \union {None}]

\* Whoever publishes, the remote branch is the local candidate; a call that
\* works on another commit has no way to push it (createOrObserveCandidate-
\* Commit, publishDedicatedBranch).
RemoteIsCandidate == remote # None => remote = ref

\* A call that returned a pull request has the candidate it checked on the
\* local and the remote branch, unless another process was at the temporary
\* index of the run at the same time (candidateIndexPath, read-tree).
ResultHolds ==
    \A c \in Callers : call[c].result # 0 /\ ~call[c].overlap =>
        /\ call[c].result \in DOMAIN pulls
        /\ remote # None /\ remote = ref /\ ref.tree = "work"

\* A process never asks GitHub for a pull request it has asked for already:
\* when it posts, an open one is another process's or was carried out late
\* (what `serialized` is for).
NoConflictWithItself ==
    \A c \in Callers, n \in OpenPulls :
        call[c].pc = "post" => pulls[n] # ProcessOf[c]

\* A queued call waits for one that is still under way, never for one that
\* returned, threw or went with its process (the `finally` of `serialized`).
NobodyWaitsForNobody ==
    \A c \in Callers : call[c].previous # None =>
        /\ call[c].previous \in Mates(c)
        /\ call[call[c].previous].pc \in {"wait", "list", "post", "reconcile"}

=============================================================================
