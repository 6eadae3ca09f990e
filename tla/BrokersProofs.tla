---------------------------- MODULE BrokersProofs ----------------------------
(***************************************************************************)
(* Whatever the number of callers, processes and seconds: the remote       *)
(* branch is the local candidate, and a pull request that was returned is  *)
(* one of the candidate its caller checked.  Sound says of one caller what *)
(* it knows at each label; a step of a caller makes its own new locals     *)
(* sound and leaves those of the others so, because a branch that exists   *)
(* never moves, pull requests only get more, and a read-tree marks whoever *)
(* it disturbs.                                                            *)
(***************************************************************************)
EXTENDS Brokers, TLAPS

\* Where a caller's commit is on the remote branch, and where on the local.
Pushed == {"enqueue", "wait", "list", "post", "reconcile"}
Named  == {"observe", "push", "confirm"} \union Pushed

\* What a caller with locals l knows of the index ix, the local and the remote
\* branch, and the number n of pull requests: its paths are in the index, in the
\* tree it wrote, in the commit it works on, unless it was disturbed; the commit
\* is the local branch once the branch was probed or updated, and the remote one
\* once it was published.
Sound(l, ix, local, published, n) ==
    /\ l.pc \in {"names", "write"} /\ ~l.overlap => ix = "work"
    /\ l.pc \in {"probe", "create"} /\ ~l.overlap => l.tree = "work"
    /\ l.pc \in {"update"} \union Named =>
          l.oid \in Commits /\ (~l.overlap => l.oid.tree = "work")
    /\ l.pc \in Named => local = l.oid
    /\ l.pc \in Pushed => published = l.oid
    /\ l.result # 0 => l.pc = "idle"
    /\ l.result # 0 /\ ~l.overlap =>
          l.result <= n /\ published # None /\ published = local /\ local.tree = "work"

SoundCall(d) == Sound(call[d], index, ref, remote, Len(pulls))

IInv == TypeOK /\ RemoteIsCandidate /\ \A d \in Callers : SoundCall(d)

\* What a step of another caller may do to locals l.
Undisturbed(k, l) ==
    /\ k.pc = l.pc /\ k.tree = l.tree /\ k.oid = l.oid /\ k.result = l.result
    /\ k.overlap = l.overlap \/ k.overlap

-----------------------------------------------------------------------------
(* The constants, and the locals of one caller.                            *)

LEMMA NoneFacts == None \notin Commits /\ None \notin Callers /\ None \notin Processes
  BY BrokersAssumption DEF BrokersAssumption

LEMMA Bounds ==
    0 \in 0..MaxPulls /\ 0 \in 0..MaxListAttempts /\ 1 \in 0..MaxListAttempts
  BY BrokersAssumption DEF BrokersAssumption

\* Sound locals stay so when branches only come to be, pull requests get more,
\* and the index keeps what the caller added or the caller is marked.
LEMMA StaysSound ==
    ASSUME NEW l \in Locals, NEW k \in Locals, Undisturbed(k, l),
           NEW ix, NEW ix2, NEW rf, NEW rf2, NEW rm, NEW rm2, NEW n \in Nat, NEW n2 \in Nat,
           Sound(l, ix, rf, rm, n),
           ix2 \in {ix, "work"} \/ k.pc \notin {"names", "write"} \/ k.overlap,
           rf \in {None, rf2}, rm \in {None, rm2}, n <= n2
    PROVE  Sound(k, ix2, rf2, rm2, n2)
<1>1. l.result \in Nat /\ k.result \in Nat
  BY BrokersAssumption DEF Locals, BrokersAssumption
<1> QED
  BY <1>1, NoneFacts DEF Sound, Undisturbed, Named, Pushed

LEMMA RecordChange == ASSUME NEW r \in Locals, NEW label \in Labels
    PROVE  LET k == [r EXCEPT !.pc = label]
           IN  /\ k \in Locals /\ k.pc = label /\ k.tree = r.tree /\ k.overlap = r.overlap
               /\ k.oid = r.oid /\ k.result = r.result
  BY SMT DEF Locals

LEMMA OverlapChange == ASSUME NEW r \in Locals, NEW label \in Labels, NEW o \in BOOLEAN
    PROVE  LET k == [r EXCEPT !.pc = label, !.overlap = o]
           IN  k \in Locals /\ k.pc = label /\ k.result = r.result
  BY Zenon DEF Locals

LEMMA ReturnedFacts ==
    ASSUME NEW n \in 0..MaxPulls, NEW o \in BOOLEAN
    PROVE  /\ Returned(n, o) \in Locals
           /\ Returned(n, o).pc = "idle" /\ Returned(n, o).result = n
           /\ Returned(n, o).overlap = o
  BY BrokersAssumption DEF Returned, Locals, Trees, Labels, BrokersAssumption

LEMMA ReturnedSound ==
    ASSUME NEW n \in 0..MaxPulls, NEW o \in BOOLEAN, NEW ix, NEW rf, NEW rm, NEW len \in Nat,
           n # 0 /\ ~o => n <= len /\ rm # None /\ rm = rf /\ rf.tree = "work"
    PROVE  Sound(Returned(n, o), ix, rf, rm, len)
  BY ReturnedFacts DEF Sound, Named, Pushed

\* A call that threw, and a process that starts anew.
LEMMA NothingReturned ==
    ASSUME NEW ix, NEW rf, NEW rm, NEW len \in Nat
    PROVE  /\ Returned(0, FALSE) \in Locals /\ Returned(0, FALSE).result = 0
           /\ Sound(Returned(0, FALSE), ix, rf, rm, len)
<1>1. FALSE \in BOOLEAN
  OBVIOUS
<1> QED
  BY <1>1, Bounds, ReturnedFacts, ReturnedSound

-----------------------------------------------------------------------------
(* What a step of c does to the locals of all callers.                     *)

CallMoves(c) ==
    /\ call' \in [Callers -> Locals]
    /\ \A d \in Callers \ {c} : Undisturbed(call'[d], call[d])

LEMMA GotoMoves ==
    ASSUME TypeOK, NEW c \in Callers, NEW label \in Labels, Goto(c, label)
    PROVE  CallMoves(c) /\ call'[c] = [call[c] EXCEPT !.pc = label] /\ tail' = tail
<1>1. call \in [Callers -> Locals]
  BY DEF TypeOK
<1>2. call' = [call EXCEPT ![c] = [call[c] EXCEPT !.pc = label]] /\ tail' = tail
  BY DEF Goto
<1> QED
  BY <1>1, <1>2, RecordChange DEF CallMoves, Undisturbed

LEMMA LeaveMoves ==
    ASSUME TypeOK, NEW c \in Callers, NEW number \in 0..MaxPulls, Leave(c, number)
    PROVE  /\ CallMoves(c)
           /\ call'[c] = Returned(number, number # 0 /\ call[c].overlap)
           /\ tail' \in [Processes -> Callers \union {None}]
<1>1. call \in [Callers -> Locals] /\ tail \in [Processes -> Callers \union {None}]
  BY DEF TypeOK
<1>2. tail' \in [Processes -> Callers \union {None}]
  BY <1>1 DEF Leave
<1>3. call[c].overlap \in BOOLEAN
  BY <1>1 DEF Locals
<1>4. Returned(number, number # 0 /\ call[c].overlap) \in Locals
  BY <1>3, ReturnedFacts
<1>5. call'[c] = Returned(number, number # 0 /\ call[c].overlap)
  BY <1>1 DEF Leave
<1>6. ASSUME NEW d \in Callers \ {c}
      PROVE  call'[d] \in Locals /\ Undisturbed(call'[d], call[d])
  <2>1. call'[d] \in {call[d], [call[d] EXCEPT !.previous = None]}
    BY <1>1 DEF Leave
  <2>2. LET k == [call[d] EXCEPT !.previous = None] IN k \in Locals /\ Undisturbed(k, call[d])
    BY <1>1 DEF Locals, Undisturbed
  <2> QED
    BY <1>1, <2>1, <2>2 DEF Undisturbed
<1>7. call' = [d \in Callers |-> call'[d]]
  BY DEF Leave
<1> QED
  BY <1>2, <1>4, <1>5, <1>6, <1>7 DEF CallMoves

LEMMA OneMoves ==
    ASSUME TypeOK, NEW c \in Callers, NEW k \in Locals, call' = [call EXCEPT ![c] = k]
    PROVE  CallMoves(c) /\ call'[c] = k
  BY DEF TypeOK, CallMoves, Undisturbed

\* A step of c is accounted for by what it does to c's own locals.
LEMMA CallStep ==
    ASSUME IInv, NEW c \in Callers, TypeOK', RemoteIsCandidate',
           \A d \in Callers \ {c} : Undisturbed(call'[d], call[d]),
           index' \in {index, "work"}
             \/ \A d \in Callers \ {c} : call'[d].pc \notin {"names", "write"} \/ call'[d].overlap,
           ref \in {None, ref'}, remote \in {None, remote'}, Len(pulls) <= Len(pulls'),
           SoundCall(c)'
    PROVE  IInv'
<1>1. ASSUME NEW d \in Callers \ {c} PROVE SoundCall(d)'
  <2>1. call[d] \in Locals /\ call'[d] \in Locals /\ Undisturbed(call'[d], call[d])
    BY DEF IInv, TypeOK
  <2>2. Len(pulls) \in Nat /\ Len(pulls') \in Nat
    BY DEF IInv, TypeOK
  <2>3. Sound(call[d], index, ref, remote, Len(pulls))
    BY DEF IInv, SoundCall
  <2>4. Sound(call'[d], index', ref', remote', Len(pulls'))
    BY <2>1, <2>2, <2>3, StaysSound
  <2> QED
    BY <2>4 DEF SoundCall
<1> QED
  BY <1>1 DEF IInv

\* The step changes nothing shared but the request under way and the queues.
LEMMA QuietStep ==
    ASSUME IInv, NEW c \in Callers, UNCHANGED <<index, ref, remote, pulls>>,
           late' \in Processes \union {None},
           CallMoves(c), tail' \in [Processes -> Callers \union {None}],
           SoundCall(c)'
    PROVE  IInv'
<1>1. TypeOK'
  BY DEF IInv, TypeOK, CallMoves
<1>2. RemoteIsCandidate'
  BY DEF IInv, RemoteIsCandidate
<1>3. Len(pulls) \in Nat
  BY DEF IInv, TypeOK
<1> QED
  BY <1>1, <1>2, <1>3, CallStep DEF CallMoves

\* What the invariant says of c itself.
LEMMA Present ==
    ASSUME IInv, NEW c \in Callers
    PROVE  call[c] \in Locals /\ Sound(call[c], index, ref, remote, Len(pulls))
  BY DEF IInv, TypeOK, SoundCall

\* A caller whose locals become k, with nothing shared changed.
LEMMA OwnStep ==
    ASSUME IInv, NEW c \in Callers, NEW k \in Locals, call' = [call EXCEPT ![c] = k],
           UNCHANGED <<index, ref, remote, pulls>>, late' \in Processes \union {None},
           tail' \in [Processes -> Callers \union {None}],
           Sound(k, index, ref, remote, Len(pulls))
    PROVE  IInv'
<1>1. CallMoves(c) /\ call'[c] = k
  BY OneMoves DEF IInv
<1>2. SoundCall(c)'
  BY <1>1 DEF SoundCall
<1> QED
  BY <1>1, <1>2, QuietStep

\* A caller that goes on at another label, its candidate as it was.
LEMMA AdvanceStep ==
    ASSUME IInv, NEW c \in Callers, NEW k \in Locals, call' = [call EXCEPT ![c] = k],
           UNCHANGED <<index, ref, remote, pulls>>, late' \in Processes \union {None},
           tail' \in [Processes -> Callers \union {None}],
           call[c].pc # "idle",
           k.tree = call[c].tree, k.oid = call[c].oid,
           k.overlap = call[c].overlap, k.result = call[c].result,
           k.pc \in {"names", "write"} /\ ~k.overlap => index = "work",
           k.pc \in {"probe", "create"} => call[c].pc \in {"probe", "create"},
           k.pc \in {"update"} \union Named => call[c].pc \in {"update"} \union Named,
           k.pc \in Named => ref = k.oid,
           k.pc \in Pushed => remote = k.oid
    PROVE  IInv'
<1>1. Sound(k, index, ref, remote, Len(pulls))
  BY Present DEF Sound
<1> QED
  BY <1>1, OwnStep

LEMMA GotoStep ==
    ASSUME IInv, NEW c \in Callers, NEW label \in Labels, Goto(c, label),
           UNCHANGED <<index, ref, remote, pulls, late>>,
           call[c].pc # "idle",
           label \in {"names", "write"} /\ ~call[c].overlap => index = "work",
           label \in {"probe", "create"} => call[c].pc \in {"probe", "create"},
           label \in {"update"} \union Named => call[c].pc \in {"update"} \union Named,
           label \in Named => ref = call[c].oid,
           label \in Pushed => remote = call[c].oid
    PROVE  IInv'
<1> DEFINE k == [call[c] EXCEPT !.pc = label]
<1>1. /\ k \in Locals /\ k.pc = label /\ k.tree = call[c].tree
      /\ k.overlap = call[c].overlap /\ k.oid = call[c].oid /\ k.result = call[c].result
  BY Present, RecordChange
<1>2. call' = [call EXCEPT ![c] = k] /\ tail' = tail
  BY DEF Goto
<1>3. tail' \in [Processes -> Callers \union {None}] /\ late' \in Processes \union {None}
  BY <1>2 DEF IInv, TypeOK
<1> HIDE DEF k
<1> QED
  BY <1>1, <1>2, <1>3, AdvanceStep

\* A call that returns a pull request must have its commit on both branches.
LEMMA LeaveStep ==
    ASSUME IInv, NEW c \in Callers, NEW n \in 0..MaxPulls, Leave(c, n),
           UNCHANGED <<index, ref, remote, pulls, late>>,
           n # 0 /\ ~call[c].overlap =>
               n <= Len(pulls) /\ remote # None /\ remote = ref /\ ref.tree = "work"
    PROVE  IInv'
<1>1. /\ CallMoves(c) /\ call'[c] = Returned(n, n # 0 /\ call[c].overlap)
      /\ tail' \in [Processes -> Callers \union {None}]
  BY LeaveMoves DEF IInv
<1>2. Len(pulls) \in Nat /\ call[c].overlap \in BOOLEAN
  BY DEF IInv, TypeOK, Locals
<1>3. Sound(Returned(n, n # 0 /\ call[c].overlap), index, ref, remote, Len(pulls))
  <2> DEFINE o == n # 0 /\ call[c].overlap
  <2>1. o \in BOOLEAN
    BY <1>2
  <2>2. n # 0 /\ ~o => n <= Len(pulls) /\ remote # None /\ remote = ref /\ ref.tree = "work"
    OBVIOUS
  <2> HIDE DEF o
  <2>3. Sound(Returned(n, o), index, ref, remote, Len(pulls))
    BY <1>2, <2>1, <2>2, ReturnedSound
  <2> QED
    BY <2>3 DEF o
<1>4. SoundCall(c)' /\ late' \in Processes \union {None}
  BY <1>1, <1>3 DEF SoundCall, IInv, TypeOK
<1> QED
  BY <1>1, <1>4, QuietStep

LEMMA ThrowStep ==
    ASSUME IInv, NEW c \in Callers, Throw(c), UNCHANGED <<index, ref, remote, pulls, late>>
    PROVE  IInv'
  BY Bounds, LeaveStep DEF Throw

-----------------------------------------------------------------------------
(* The steps that change nothing shared.                                   *)

LEMMA CompareNamesStep == ASSUME IInv, NEW c \in Callers, CompareNames(c) PROVE IInv'
<1>1. CASE index = "work"
  BY <1>1, GotoStep DEF CompareNames, At, Labels, Building, Named, Pushed
<1>2. CASE index # "work"
  BY <1>2, ThrowStep DEF CompareNames
<1> QED
  BY <1>1, <1>2

LEMMA FailStep == ASSUME IInv, NEW c \in Callers, Fail(c) PROVE IInv'
  BY ThrowStep DEF Fail

LEMMA BeginStep == ASSUME IInv, NEW c \in Callers, Begin(c) PROVE IInv'
<1> DEFINE k == [Returned(0, FALSE) EXCEPT !.pc = "read"]
<1>2. k \in Locals /\ k.pc = "read" /\ k.result = 0
  <2>1. Returned(0, FALSE) \in Locals /\ Returned(0, FALSE).result = 0
    BY NothingReturned
  <2>2. "read" \in Labels
    BY DEF Labels
  <2> QED
    BY <2>1, <2>2, RecordChange
<1>3. Sound(k, index, ref, remote, Len(pulls))
  BY <1>2 DEF Sound, Named, Pushed
<1>4. call' = [call EXCEPT ![c] = k]
  BY DEF Begin
<1> HIDE DEF k
<1> QED
  BY <1>2, <1>3, <1>4, OwnStep DEF Begin, IInv, TypeOK

LEMMA WriteTreeStep == ASSUME IInv, NEW c \in Callers, WriteTree(c) PROVE IInv'
<1> DEFINE k == [call[c] EXCEPT !.pc = "probe", !.tree = index]
<1>1. call[c] \in Locals /\ index \in Trees /\ call[c].pc = "write" /\ call[c].result = 0
  BY Present DEF IInv, TypeOK, WriteTree, At, Sound
<1>2. k \in Locals /\ k.pc = "probe" /\ k.tree = index /\ k.overlap = call[c].overlap
      /\ k.result = call[c].result
  BY <1>1 DEF Locals, Labels
<1>3. Sound(k, index, ref, remote, Len(pulls))
  BY <1>1, <1>2, Present DEF Sound, Named, Pushed
<1>4. call' = [call EXCEPT ![c] = k]
  BY DEF WriteTree
<1> HIDE DEF k
<1> QED
  BY <1>2, <1>3, <1>4, OwnStep DEF WriteTree, IInv, TypeOK

LEMMA CommitTreeStep == ASSUME IInv, NEW c \in Callers, CommitTree(c) PROVE IInv'
<1>1. PICK time \in Seconds :
        call' = [call EXCEPT ![c].pc = "update", ![c].tree = "base",
                             ![c].oid = [tree |-> call[c].tree, time |-> time]]
  BY DEF CommitTree
<1> DEFINE oid == [tree |-> call[c].tree, time |-> time]
           k == [call[c] EXCEPT !.pc = "update", !.tree = "base", !.oid = oid]
<1>2. call[c] \in Locals /\ call[c].pc = "create" /\ call[c].result = 0
  BY Present DEF CommitTree, At, Sound
<1>3. oid \in Commits /\ oid.tree = call[c].tree
  BY <1>2 DEF Locals, Commits
<1>4. call' = [call EXCEPT ![c] = k]
  BY <1>1
<1> HIDE DEF oid
<1>5. k \in Locals /\ k.pc = "update" /\ k.oid = oid /\ k.overlap = call[c].overlap
      /\ k.result = call[c].result
  BY <1>2, <1>3 DEF Locals, Labels, Trees
<1>6. Sound(k, index, ref, remote, Len(pulls))
  BY <1>2, <1>3, <1>5, Present DEF Sound, Named, Pushed
<1> HIDE DEF k
<1> QED
  BY <1>4, <1>5, <1>6, OwnStep DEF CommitTree, IInv, TypeOK

LEMMA ProbeRefStep == ASSUME IInv, NEW c \in Callers, ProbeRef(c) PROVE IInv'
<1>0. call[c] \in Locals /\ call[c].pc = "probe" /\ call[c].result = 0
  BY Present DEF ProbeRef, At, Sound
<1>1. CASE ref = None
  BY <1>0, <1>1, GotoStep DEF ProbeRef, Labels, Named, Pushed
<1>2. CASE ref # None /\ SameTree(c)
  <2> DEFINE k == [call[c] EXCEPT !.pc = "observe", !.tree = "base", !.oid = ref]
  <2>1. ref \in Commits
    BY <1>2 DEF IInv, TypeOK
  <2>2. k \in Locals /\ k.pc = "observe" /\ k.result = 0 /\ k.oid = ref
        /\ k.overlap = call[c].overlap
    BY <1>0, <2>1 DEF Locals, Labels, Trees
  <2>3. Sound(k, index, ref, remote, Len(pulls))
    BY <1>0, <1>2, <2>1, <2>2, Present DEF Sound, Named, Pushed, SameTree
  <2>4. call' = [call EXCEPT ![c] = k]
    BY <1>2 DEF ProbeRef
  <2> HIDE DEF k
  <2> QED
    BY <1>2, <2>2, <2>3, <2>4, OwnStep DEF ProbeRef, IInv, TypeOK
<1>3. CASE ref # None /\ ~SameTree(c)
  BY <1>3, ThrowStep DEF ProbeRef
<1> QED
  BY <1>1, <1>2, <1>3

LEMMA ObserveRemoteStep == ASSUME IInv, NEW c \in Callers, ObserveRemote(c) PROVE IInv'
<1>0. call[c].pc = "observe" /\ ref = call[c].oid
  BY Present DEF ObserveRemote, At, Sound, Named
<1>1. CASE remote = None
  BY <1>0, <1>1, GotoStep DEF ObserveRemote, Labels, Named, Pushed
<1>2. CASE remote # None /\ remote = call[c].oid
  BY <1>0, <1>2, GotoStep DEF ObserveRemote, Labels, Named, Pushed
<1>3. CASE remote # None /\ remote # call[c].oid
  BY <1>3, ThrowStep DEF ObserveRemote
<1> QED
  BY <1>1, <1>2, <1>3

LEMMA ConfirmRemoteStep == ASSUME IInv, NEW c \in Callers, ConfirmRemote(c) PROVE IInv'
<1>0. call[c].pc = "confirm" /\ ref = call[c].oid
  BY Present DEF ConfirmRemote, At, Sound, Named
<1>1. CASE remote = call[c].oid
  BY <1>0, <1>1, GotoStep DEF ConfirmRemote, Labels, Named, Pushed
<1>2. CASE remote # call[c].oid
  BY <1>2, ThrowStep DEF ConfirmRemote
<1> QED
  BY <1>1, <1>2

LEMMA EnqueueStep == ASSUME IInv, NEW c \in Callers, Enqueue(c) PROVE IInv'
<1> DEFINE k == [call[c] EXCEPT !.pc = "wait", !.previous = tail[ProcessOf[c]]]
<1>1. /\ call[c] \in Locals /\ call[c].pc = "enqueue"
      /\ ref = call[c].oid /\ remote = call[c].oid
  BY Present DEF Enqueue, At, Sound, Named, Pushed
<1>2. ProcessOf[c] \in Processes /\ tail[ProcessOf[c]] \in Callers \union {None}
  BY BrokersAssumption DEF BrokersAssumption, IInv, TypeOK
<1>3. /\ k \in Locals /\ k.pc = "wait" /\ k.tree = call[c].tree
      /\ k.overlap = call[c].overlap /\ k.oid = call[c].oid /\ k.result = call[c].result
  BY <1>1, <1>2 DEF Locals, Labels
<1>4. call' = [call EXCEPT ![c] = k]
  BY DEF Enqueue
<1>5. tail' \in [Processes -> Callers \union {None}] /\ late' \in Processes \union {None}
  BY <1>2 DEF Enqueue, IInv, TypeOK
<1> HIDE DEF k
<1> QED
  BY <1>1, <1>3, <1>4, <1>5, AdvanceStep DEF Enqueue, Named, Pushed

\* From one label of the pull request stage to another.
LEMMA PullStep ==
    ASSUME IInv, NEW c \in Callers, NEW label \in Pushed, NEW n \in 0..MaxListAttempts,
           call[c].pc \in Pushed,
           call' = [call EXCEPT ![c].pc = label, ![c].attempt = n],
           UNCHANGED <<index, ref, remote, pulls, tail>>, late' \in Processes \union {None}
    PROVE  IInv'
<1> DEFINE k == [call[c] EXCEPT !.pc = label, !.attempt = n]
<1>1. /\ call[c] \in Locals /\ ref = call[c].oid /\ remote = call[c].oid
      /\ call[c].pc # "idle"
  BY Present DEF Sound, Named, Pushed
<1>2. label \in Labels /\ label \notin {"names", "write", "probe", "create"}
  BY DEF Labels, Pushed
<1>3. /\ k \in Locals /\ k.pc = label /\ k.tree = call[c].tree
      /\ k.overlap = call[c].overlap /\ k.oid = call[c].oid /\ k.result = call[c].result
  BY <1>1, <1>2 DEF Locals
<1>4. call' = [call EXCEPT ![c] = k]
  OBVIOUS
<1>5. tail' \in [Processes -> Callers \union {None}]
  BY DEF IInv, TypeOK
<1> HIDE DEF k
<1> QED
  BY <1>1, <1>2, <1>3, <1>4, <1>5, AdvanceStep DEF Named

LEMMA EnterStep == ASSUME IInv, NEW c \in Callers, Enter(c) PROVE IInv'
  BY Bounds, PullStep DEF Enter, At, Pushed, IInv, TypeOK

LEMMA ReconcileStep ==
    ASSUME IInv, NEW c \in Callers, call[c].pc = "post", Reconcile(c),
           UNCHANGED <<index, ref, remote, pulls>>, late' \in Processes \union {None}
    PROVE  IInv'
  BY Bounds, PullStep DEF Reconcile, Pushed

LEMMA PostAmbiguousStep == ASSUME IInv, NEW c \in Callers, PostAmbiguous(c) PROVE IInv'
<1>1. late' \in Processes \union {None}
  BY BrokersAssumption DEF BrokersAssumption, PostAmbiguous, IInv, TypeOK
<1> QED
  BY <1>1, ReconcileStep DEF PostAmbiguous, At

LEMMA ListAgainStep == ASSUME IInv, NEW c \in Callers, ListAgain(c) PROVE IInv'
<1>1. CASE call[c].attempt < MaxListAttempts
  <2> DEFINE k == [call[c] EXCEPT !.attempt = @ + 1]
  <2>1. /\ call[c] \in Locals /\ call[c].pc \in {"list", "reconcile"}
        /\ ref = call[c].oid /\ remote = call[c].oid
    BY Present DEF ListAgain, At, Sound, Named, Pushed
  <2>2. call[c].attempt + 1 \in 0..MaxListAttempts
    BY <1>1, <2>1, BrokersAssumption DEF BrokersAssumption, Locals
  <2>3. /\ k \in Locals /\ k.pc = call[c].pc /\ k.tree = call[c].tree
        /\ k.overlap = call[c].overlap /\ k.oid = call[c].oid /\ k.result = call[c].result
    BY <2>1, <2>2 DEF Locals
  <2>4. call' = [call EXCEPT ![c] = k] /\ tail' = tail
    BY <1>1 DEF ListAgain
  <2>5. tail' \in [Processes -> Callers \union {None}] /\ late' \in Processes \union {None}
    BY <2>4 DEF ListAgain, IInv, TypeOK
  <2> HIDE DEF k
  <2> QED
    BY <2>1, <2>3, <2>4, <2>5, AdvanceStep DEF ListAgain, Named, Pushed
<1>2. CASE ~(call[c].attempt < MaxListAttempts)
  BY <1>2, ThrowStep DEF ListAgain
<1> QED
  BY <1>1, <1>2

LEMMA ListStep == ASSUME IInv, NEW c \in Callers, List(c) PROVE IInv'
<1>1. CASE /\ At(c, "list") /\ call' = [call EXCEPT ![c].pc = "post", ![c].attempt = 0]
           /\ UNCHANGED <<index, ref, remote, pulls, late, tail>>
  BY <1>1, Bounds, PullStep DEF At, Pushed, IInv, TypeOK
<1>2. CASE Throw(c) /\ UNCHANGED <<index, ref, remote, pulls, late>>
  BY <1>2, ThrowStep
<1>3. ASSUME At(c, "list") \/ At(c, "reconcile"), NEW n \in OpenPulls, remote = call[c].oid,
             Leave(c, n), UNCHANGED <<index, ref, remote, pulls, late>>
      PROVE  IInv'
  <2>1. /\ call[c] \in Locals /\ ref = call[c].oid /\ remote = call[c].oid
        /\ call[c].oid \in Commits /\ (~call[c].overlap => call[c].oid.tree = "work")
    BY <1>3, Present DEF At, Sound, Named, Pushed
  <2>2. n \in 0..MaxPulls /\ n <= Len(pulls)
    BY BrokersAssumption DEF BrokersAssumption, OpenPulls, IInv, TypeOK
  <2>3. remote # None
    BY <2>1, NoneFacts
  <2> QED
    BY <1>3, <2>1, <2>2, <2>3, LeaveStep
<1> QED
  BY <1>1, <1>2, <1>3 DEF List

-----------------------------------------------------------------------------
(* The steps that change what the callers share.                           *)

LEMMA ReadTreeStep == ASSUME IInv, NEW c \in Callers, ReadTree(c) PROVE IInv'
<1> DEFINE others == {d \in Callers \ {c} : call[d].pc \in Building}
           o == others # {}
           k == [call[c] EXCEPT !.pc = "add", !.overlap = o]
<1>1. call \in [Callers -> Locals] /\ call[c].pc = "read" /\ call[c].result = 0
  BY Present DEF IInv, TypeOK, ReadTree, At, Sound
<1>2. k \in Locals /\ k.pc = "add" /\ k.result = 0
  <2>1. o \in BOOLEAN
    OBVIOUS
  <2>2. "add" \in Labels
    BY DEF Labels, Building
  <2>3. call[c] \in Locals
    BY <1>1
  <2> HIDE DEF o
  <2>4. k \in Locals /\ k.pc = "add" /\ k.result = call[c].result
    BY <2>1, <2>2, <2>3, OverlapChange, Zenon
  <2> QED
    BY <1>1, <2>4
<1>3. call'[c] = k
  BY DEF ReadTree
<1> HIDE DEF k
<1>4. ASSUME NEW d \in Callers \ {c}
      PROVE  /\ call'[d] \in Locals /\ Undisturbed(call'[d], call[d])
             /\ call'[d].pc \notin {"names", "write"} \/ call'[d].overlap
  <2> DEFINE m == [call[d] EXCEPT !.overlap = TRUE]
  <2>1. m \in Locals /\ Undisturbed(m, call[d]) /\ m.overlap
    BY <1>1 DEF Locals, Undisturbed
  <2> HIDE DEF m
  <2>2. CASE d \in others
    <3>1. call'[d] = m
      BY <2>2 DEF ReadTree, m
    <3> QED
      BY <2>1, <3>1
  <2>3. CASE d \notin others
    <3>1. call'[d] = call[d]
      BY <2>3 DEF ReadTree
    <3> QED
      BY <1>1, <2>3, <3>1 DEF Undisturbed, Building
  <2> QED
    BY <2>2, <2>3
<1>5. call' \in [Callers -> Locals]
  <2>1. call' = [d \in Callers |-> call'[d]]
    BY DEF ReadTree
  <2> QED
    BY <1>2, <1>3, <1>4, <2>1
<1>6. TypeOK'
  BY <1>5 DEF ReadTree, IInv, TypeOK, Trees
<1>7. RemoteIsCandidate' /\ Len(pulls) <= Len(pulls')
  <2>1. ref' = ref /\ remote' = remote /\ pulls' = pulls
    BY DEF ReadTree
  <2>2. Len(pulls) \in Nat
    BY DEF IInv, TypeOK
  <2> QED
    BY <2>1, <2>2 DEF IInv, RemoteIsCandidate
<1>8. SoundCall(c)'
  BY <1>2, <1>3 DEF SoundCall, Sound, Named, Pushed
<1> QED
  BY <1>4, <1>6, <1>7, <1>8, CallStep DEF ReadTree

LEMMA AddPathsStep == ASSUME IInv, NEW c \in Callers, AddPaths(c) PROVE IInv'
<1> DEFINE k == [call[c] EXCEPT !.pc = "names"]
<1>1. "names" \in Labels /\ call[c].result = 0
  BY Present DEF Labels, Building, AddPaths, At, Sound
<1>2. k \in Locals /\ k.pc = "names" /\ k.result = 0
  BY <1>1, Present, RecordChange
<1>3. CallMoves(c) /\ call'[c] = k /\ tail' = tail
  BY <1>1, GotoMoves DEF AddPaths, IInv
<1> HIDE DEF k
<1>4. TypeOK'
  BY <1>3 DEF AddPaths, IInv, TypeOK, CallMoves, Trees
<1>5. RemoteIsCandidate' /\ Len(pulls) <= Len(pulls')
  BY DEF AddPaths, IInv, TypeOK, RemoteIsCandidate
<1>6. SoundCall(c)'
  BY <1>2, <1>3 DEF AddPaths, SoundCall, Sound, Named, Pushed
<1> QED
  BY <1>3, <1>4, <1>5, <1>6, CallStep DEF AddPaths, CallMoves

LEMMA UpdateRefStep == ASSUME IInv, NEW c \in Callers, UpdateRef(c) PROVE IInv'
<1>0. /\ call[c] \in Locals /\ call[c].pc = "update" /\ call[c].result = 0
      /\ call[c].oid \in Commits /\ (~call[c].overlap => call[c].oid.tree = "work")
  BY Present DEF UpdateRef, At, Sound
<1>1. CASE ref' = call[c].oid
  <2> DEFINE k == [call[c] EXCEPT !.pc = "observe"]
  <2>1. "observe" \in Labels
    BY DEF Labels
  <2>2. /\ k \in Locals /\ k.pc = "observe" /\ k.result = 0
        /\ k.oid = call[c].oid /\ k.overlap = call[c].overlap
    BY <1>0, <2>1, RecordChange
  <2>3. CallMoves(c) /\ call'[c] = k /\ tail' = tail
    BY <1>1, <2>1, GotoMoves DEF UpdateRef, IInv
  <2> HIDE DEF k
  <2>4. ref \in {None, ref'} /\ ref' \in Commits
    BY <1>0, <1>1 DEF UpdateRef
  <2>5. TypeOK'
    BY <2>3, <2>4 DEF UpdateRef, IInv, TypeOK, CallMoves
  <2>6. RemoteIsCandidate' /\ Len(pulls) <= Len(pulls')
    BY <2>4 DEF UpdateRef, IInv, TypeOK, RemoteIsCandidate
  <2>7. SoundCall(c)'
    BY <1>0, <1>1, <2>2, <2>3 DEF SoundCall, Sound, Named, Pushed
  <2> QED
    BY <2>3, <2>4, <2>5, <2>6, <2>7, CallStep DEF UpdateRef, CallMoves
<1>2. CASE ref' # call[c].oid
  <2>1. ref' = ref
    BY <1>2 DEF UpdateRef
  <2> QED
    BY <1>2, <2>1, ThrowStep DEF UpdateRef
<1> QED
  BY <1>1, <1>2

LEMMA PushStep == ASSUME IInv, NEW c \in Callers, Push(c) PROVE IInv'
<1> DEFINE k == [call[c] EXCEPT !.pc = "confirm"]
<1>1. /\ call[c] \in Locals /\ call[c].pc = "push" /\ call[c].result = 0
      /\ call[c].oid \in Commits /\ (~call[c].overlap => call[c].oid.tree = "work")
      /\ ref = call[c].oid /\ "confirm" \in Labels
  BY Present DEF Push, At, Sound, Named, Labels
<1>2. /\ k \in Locals /\ k.pc = "confirm" /\ k.result = 0
      /\ k.oid = call[c].oid /\ k.overlap = call[c].overlap
  BY <1>1, RecordChange
<1>3. CallMoves(c) /\ call'[c] = k /\ tail' = tail
  BY <1>1, GotoMoves DEF Push, IInv
<1> HIDE DEF k
<1>4. remote \in {None, remote'} /\ remote' \in {remote, ref}
  BY <1>1 DEF Push
<1>5. TypeOK'
  BY <1>3, <1>4 DEF Push, IInv, TypeOK, CallMoves
<1>6. RemoteIsCandidate' /\ Len(pulls) <= Len(pulls')
  BY <1>4 DEF Push, IInv, TypeOK, RemoteIsCandidate
<1>7. SoundCall(c)'
  BY <1>1, <1>2, <1>3 DEF Push, SoundCall, Sound, Named, Pushed
<1> QED
  BY <1>3, <1>4, <1>5, <1>6, <1>7, CallStep DEF Push, CallMoves

\* One pull request more.
LEMMA AppendPull ==
    ASSUME TypeOK, Len(pulls) < MaxPulls, NEW x \in Processes \union {"late"},
           pulls' = Append(pulls, x)
    PROVE  /\ pulls' \in Seq(Processes \union {"late", "closed"})
           /\ Len(pulls') = Len(pulls) + 1 /\ Len(pulls') \in 1..MaxPulls
           /\ Len(pulls) \in Nat
  BY BrokersAssumption DEF BrokersAssumption, TypeOK

LEMMA PostCreatedStep == ASSUME IInv, NEW c \in Callers, PostCreated(c) PROVE IInv'
<1>1. /\ call[c] \in Locals /\ call[c].pc = "post" /\ call[c].result = 0
      /\ call[c].oid \in Commits /\ (~call[c].overlap => call[c].oid.tree = "work")
      /\ ref = call[c].oid /\ remote = call[c].oid /\ call[c].overlap \in BOOLEAN
  BY Present DEF PostCreated, At, Sound, Named, Pushed, Locals
<1>2. /\ pulls' \in Seq(Processes \union {"late", "closed"})
      /\ Len(pulls') = Len(pulls) + 1 /\ Len(pulls') \in 1..MaxPulls
      /\ Len(pulls) \in Nat
  BY BrokersAssumption, AppendPull DEF BrokersAssumption, PostCreated, Creatable, IInv
<1>3. /\ CallMoves(c) /\ tail' \in [Processes -> Callers \union {None}]
      /\ Sound(call'[c], index, ref, remote, Len(pulls'))
  <2>1. CASE Leave(c, Len(pulls'))
    <3> DEFINE o == Len(pulls') # 0 /\ call[c].overlap
    <3>1. /\ CallMoves(c) /\ tail' \in [Processes -> Callers \union {None}]
          /\ call'[c] = Returned(Len(pulls'), o)
      BY <1>2, <2>1, LeaveMoves DEF IInv
    <3>2. o = call[c].overlap
      <4>1. Len(pulls') # 0
        BY <1>2
      <4> QED
        BY <1>1, <4>1
    <3> HIDE DEF o
    <3>3. Sound(Returned(Len(pulls'), o), index, ref, remote, Len(pulls'))
      BY <1>1, <1>2, <3>2, NoneFacts, ReturnedSound
    <3> QED
      BY <3>1, <3>3
  <2>2. CASE Reconcile(c)
    <3> DEFINE k == [call[c] EXCEPT !.pc = "reconcile", !.attempt = 1]
    <3>1. /\ k \in Locals /\ k.pc = "reconcile" /\ k.result = 0
          /\ k.oid = call[c].oid /\ k.overlap = call[c].overlap
      <4>1. "reconcile" \in Labels
        BY DEF Labels
      <4> QED
        BY <1>1, <4>1, Bounds DEF Locals
    <3>2. call' = [call EXCEPT ![c] = k] /\ tail' = tail
      BY <2>2 DEF Reconcile
    <3> HIDE DEF k
    <3>3. CallMoves(c) /\ call'[c] = k
      BY <3>1, <3>2, OneMoves DEF IInv
    <3>4. Sound(k, index, ref, remote, Len(pulls'))
      BY <1>1, <3>1 DEF Sound, Named, Pushed
    <3> QED
      BY <3>2, <3>3, <3>4 DEF IInv, TypeOK
  <2> QED
    BY <2>1, <2>2 DEF PostCreated
<1>4. TypeOK'
  BY <1>2, <1>3 DEF PostCreated, IInv, TypeOK, CallMoves
<1>5. RemoteIsCandidate' /\ Len(pulls) <= Len(pulls')
  BY <1>2 DEF PostCreated, IInv, TypeOK, RemoteIsCandidate
<1>6. SoundCall(c)'
  BY <1>3 DEF PostCreated, SoundCall
<1> QED
  BY <1>3, <1>4, <1>5, <1>6, CallStep DEF PostCreated, CallMoves

\* A step of GitHub or of people.
LEMMA OutsideStep ==
    ASSUME IInv, UNCHANGED <<index, ref, remote, call, tail>>,
           late' \in Processes \union {None},
           pulls' \in Seq(Processes \union {"late", "closed"}),
           Len(pulls) <= Len(pulls'), Len(pulls') <= MaxPulls
    PROVE  IInv'
<1>1. TypeOK' /\ RemoteIsCandidate'
  BY DEF IInv, TypeOK, RemoteIsCandidate
<1>2. ASSUME NEW d \in Callers PROVE SoundCall(d)'
  <2>1. Len(pulls) \in Nat /\ Len(pulls') \in Nat
    BY DEF IInv, TypeOK
  <2>2. Undisturbed(call[d], call[d])
    BY DEF Undisturbed
  <2>3. Sound(call[d], index, ref, remote, Len(pulls'))
    BY <2>1, <2>2, Present, StaysSound
  <2> QED
    BY <2>3 DEF SoundCall
<1> QED
  BY <1>1, <1>2 DEF IInv

LEMMA CarriedOutStep == ASSUME IInv, CarriedOut PROVE IInv'
<1>1. CASE Creatable
  <2>1. /\ pulls' \in Seq(Processes \union {"late", "closed"})
        /\ Len(pulls') = Len(pulls) + 1 /\ Len(pulls') \in 1..MaxPulls
        /\ Len(pulls) \in Nat
    BY <1>1, AppendPull DEF CarriedOut, Creatable, IInv
  <2> QED
    BY <2>1, OutsideStep DEF CarriedOut
<1>2. CASE ~Creatable
  <2>1. pulls' = pulls
    BY <1>2 DEF CarriedOut
  <2> QED
    BY <2>1, OutsideStep DEF CarriedOut, IInv, TypeOK
<1> QED
  BY <1>1, <1>2

LEMMA PeopleStep == ASSUME IInv, NEW n \in DOMAIN pulls, People(n) PROVE IInv'
<1>1. pulls' \in Seq(Processes \union {"late", "closed"}) /\ Len(pulls') = Len(pulls)
  BY DEF People, IInv, TypeOK
<1> QED
  BY <1>1, OutsideStep DEF People, IInv, TypeOK

LEMMA CrashStep == ASSUME IInv, NEW process \in Processes, Crash(process) PROVE IInv'
<1>1. Len(pulls) \in Nat
  BY DEF IInv, TypeOK
<1>2. ASSUME NEW d \in Callers PROVE call'[d] \in Locals /\ SoundCall(d)'
  <2>1. CASE ProcessOf[d] = process
    <3>1. call'[d] = Returned(0, FALSE)
      BY <2>1 DEF Crash
    <3> QED
      BY <1>1, <3>1, NothingReturned DEF Crash, SoundCall
  <2>2. CASE ProcessOf[d] # process
    <3>1. call'[d] = call[d]
      BY <2>2 DEF Crash
    <3> QED
      BY <3>1, Present DEF Crash, SoundCall
  <2> QED
    BY <2>1, <2>2
<1>3. call' \in [Callers -> Locals]
  <2>1. call' = [d \in Callers |-> call'[d]]
    BY DEF Crash
  <2> QED
    BY <1>2, <2>1
<1>4. TypeOK' /\ RemoteIsCandidate'
  BY <1>3 DEF Crash, IInv, TypeOK, RemoteIsCandidate
<1> QED
  BY <1>2, <1>4 DEF IInv

-----------------------------------------------------------------------------
(* The invariant and the theorems.                                         *)

LEMMA InitIInv == Init => IInv
<1> SUFFICES ASSUME Init PROVE IInv
  OBVIOUS
<1>1. pulls \in Seq(Processes \union {"late", "closed"}) /\ Len(pulls) = 0 /\ 0 <= MaxPulls
  BY BrokersAssumption DEF BrokersAssumption, Init
<1>2. call \in [Callers -> Locals] /\ tail \in [Processes -> Callers \union {None}]
  BY <1>1, NothingReturned DEF Init
<1>3. TypeOK /\ RemoteIsCandidate
  <2>1. /\ index \in Trees /\ {ref, remote} \subseteq Commits \union {None}
        /\ late \in Processes \union {None} /\ remote = None
    BY DEF Init, Trees
  <2> QED
    BY <1>1, <1>2, <2>1 DEF TypeOK, RemoteIsCandidate
<1>4. ASSUME NEW d \in Callers PROVE SoundCall(d)
  <2>1. call[d] = Returned(0, FALSE)
    BY DEF Init
  <2>2. Len(pulls) \in Nat
    BY <1>1
  <2>3. Sound(Returned(0, FALSE), index, ref, remote, Len(pulls))
    BY <2>2, NothingReturned
  <2> QED
    BY <2>1, <2>3 DEF SoundCall
<1> QED
  BY <1>3, <1>4 DEF IInv

LEMMA NextIInv == IInv /\ [Next]_vars => IInv'
<1> SUFFICES ASSUME IInv, [Next]_vars PROVE IInv'
  OBVIOUS
<1>1. ASSUME NEW c \in Callers, Begin(c) \/ Step(c) PROVE IInv'
  BY <1>1, BeginStep, ReadTreeStep, AddPathsStep, CompareNamesStep, WriteTreeStep,
     ProbeRefStep, CommitTreeStep, UpdateRefStep, ObserveRemoteStep, PushStep,
     ConfirmRemoteStep, EnqueueStep, EnterStep, ListStep, ListAgainStep,
     PostCreatedStep, PostAmbiguousStep, FailStep DEF Step
<1>2. CASE CarriedOut
  BY <1>2, CarriedOutStep
<1>3. ASSUME NEW process \in Processes, Crash(process) PROVE IInv'
  BY <1>3, CrashStep
<1>4. ASSUME NEW n \in DOMAIN pulls, People(n) PROVE IInv'
  BY <1>4, PeopleStep
<1>5. CASE UNCHANGED vars
  <2>1. Len(pulls) <= Len(pulls)
    BY DEF IInv, TypeOK
  <2> QED
    BY <1>5, <2>1, OutsideStep DEF vars, IInv, TypeOK
<1> QED
  BY <1>1, <1>2, <1>3, <1>4, <1>5 DEF Next

LEMMA IInvHolds == Spec => []IInv
  BY InitIInv, NextIInv, PTL DEF Spec

\* The locals of every call, the branches and the queues keep their types, and
\* no more pull requests exist than the bound allows.
THEOREM BrokersType == Spec => []TypeOK
<1>1. IInv => TypeOK
  BY DEF IInv
<1> QED
  BY <1>1, IInvHolds, PTL

\* Whichever callers of whichever processes publish, fail and crash, the
\* dedicated remote branch is the local candidate (publishDedicatedBranch).
THEOREM RemoteIsTheCandidate == Spec => []RemoteIsCandidate
<1>1. IInv => RemoteIsCandidate
  BY DEF IInv
<1> QED
  BY <1>1, IInvHolds, PTL

\* A call that returned a pull request, and whose temporary index no other
\* invocation of the run touched, has the candidate it checked on the local and
\* the remote branch, for ever (createOrObserveCandidateCommit to
\* createOrGetDraftPullRequest).
THEOREM ReturnedIsWhatWasChecked == Spec => []ResultHolds
<1>1. IInv => ResultHolds
  <2> SUFFICES ASSUME IInv, NEW c \in Callers, call[c].result # 0, ~call[c].overlap
               PROVE  /\ call[c].result \in DOMAIN pulls
                      /\ remote # None /\ remote = ref /\ ref.tree = "work"
    BY DEF ResultHolds
  <2>1. call[c].result \in Nat /\ DOMAIN pulls = 1..Len(pulls) /\ Len(pulls) \in Nat
    BY Present, BrokersAssumption DEF BrokersAssumption, Locals, IInv, TypeOK
  <2> QED
    BY <2>1, Present DEF Sound
<1> QED
  BY <1>1, IInvHolds, PTL

-----------------------------------------------------------------------------
(* The promise queue of github-broker.ts: a call waits only for one that   *)
(* is in the queue, and no two calls of a process are at GitHub together.  *)
(*                                                                         *)
(* A queue is a chain of `previous`.  Order says that it is one without    *)
(* walking along it: the calls of a process can be ranked so that the tail *)
(* ranks highest, the one that waits for nobody lowest, and no one ranks   *)
(* between a call and the one it waits for.                                *)

Same(c, d) == ProcessOf[c] = ProcessOf[d]

\* Q are the calls in a queue, prev is whom they wait for, last the tails.
Ranked(rank, Q, prev, last) ==
    /\ \A c \in Q : last[ProcessOf[c]] # None /\ rank[c] <= rank[last[ProcessOf[c]]]
    /\ \A c, d \in Q : Same(c, d) /\ rank[c] = rank[d] => c = d
    /\ \A c, d \in Q : Same(c, d) /\ prev[c] = None => rank[c] <= rank[d]
    /\ \A c, d \in Q : Same(c, d) /\ prev[c] # None =>
          rank[d] <= rank[prev[c]] \/ rank[c] <= rank[d]

Linked(Q, prev, last) ==
    /\ \A p \in Processes : last[p] # None => last[p] \in Q /\ ProcessOf[last[p]] = p
    /\ \A c \in Callers : prev[c] # None =>
          c \in Q /\ prev[c] \in Q /\ prev[c] # c /\ Same(prev[c], c)

Order(Q, prev, last) ==
    Linked(Q, prev, last) /\ \E rank \in [Callers -> Nat] : Ranked(rank, Q, prev, last)

-----------------------------------------------------------------------------
(* Chains: one that is first, one that joins, one that leaves.             *)

\* Two calls of a process that wait for nobody are one.
LEMMA FirstIsAlone ==
    ASSUME NEW Q \in SUBSET Callers, NEW prev, NEW last, Order(Q, prev, last),
           NEW c \in Q, NEW d \in Q, Same(c, d), prev[c] = None, prev[d] = None
    PROVE  c = d
<1>1. PICK rank \in [Callers -> Nat] : Ranked(rank, Q, prev, last)
  BY DEF Order
<1>2. rank[c] <= rank[d] /\ rank[d] <= rank[c]
  BY <1>1 DEF Ranked, Same
<1>3. rank[c] \in Nat /\ rank[d] \in Nat
  BY <1>1
<1> QED
  BY <1>1, <1>2, <1>3 DEF Ranked

LEMMA Joins ==
    ASSUME NEW Q \in SUBSET Callers, NEW prev \in [Callers -> Callers \union {None}],
           NEW last \in [Processes -> Callers \union {None}], Order(Q, prev, last),
           NEW c \in Callers \ Q
    PROVE  Order(Q \union {c}, [prev EXCEPT ![c] = last[ProcessOf[c]]],
                 [last EXCEPT ![ProcessOf[c]] = c])
<1> DEFINE p == ProcessOf[c]
           Q2 == Q \union {c}
           prev2 == [prev EXCEPT ![c] = last[p]]
           last2 == [last EXCEPT ![p] = c]
<1>0. p \in Processes /\ None \notin Callers
  BY BrokersAssumption DEF BrokersAssumption
<1>1. PICK rank \in [Callers -> Nat] : Ranked(rank, Q, prev, last)
  BY DEF Order
<1> DEFINE rank2 == [rank EXCEPT ![c] = IF last[p] = None THEN 0 ELSE rank[last[p]] + 1]
<1>2. rank2 \in [Callers -> Nat]
  BY <1>0, <1>1
<1>3. /\ last2[p] = c /\ \A q \in Processes \ {p} : last2[q] = last[q]
      /\ prev2[c] = last[p] /\ \A d \in Q : prev2[d] = prev[d] /\ rank2[d] = rank[d]
      /\ \A d \in Callers \ {c} : prev2[d] = prev[d]
  BY <1>0, <1>1
<1>4. \A d \in Q : Same(d, c) =>
         last[p] # None /\ rank2[d] < rank2[c] /\ rank2[d] <= rank[last[p]]
  <2>1. ASSUME NEW d \in Q, Same(d, c)
        PROVE  last[p] # None /\ rank2[d] < rank2[c] /\ rank2[d] <= rank[last[p]]
    <3>1. last[p] # None /\ rank[d] <= rank[last[p]]
      BY <1>1, <2>1 DEF Ranked, Same
    <3>2. rank2[c] = rank[last[p]] + 1 /\ rank2[d] = rank[d]
      BY <1>1, <1>3, <3>1
    <3>3. rank[d] \in Nat /\ rank[last[p]] \in Nat
      BY <1>0, <1>1, <3>1
    <3> QED
      BY <3>1, <3>2, <3>3
  <2> QED
    BY <2>1
<1>5. last[p] # None => last[p] \in Q /\ Same(last[p], c) /\ rank2[last[p]] = rank[last[p]]
  BY <1>0, <1>3 DEF Order, Linked, Same
<1>6. \A d \in Q : ProcessOf[d] \in Processes /\ prev[d] # c /\ last[ProcessOf[d]] # c
  BY <1>0, BrokersAssumption DEF Order, Linked, BrokersAssumption
<1>7. \A d \in Q2 : rank2[d] \in Nat
  BY <1>2
<1>8. Linked(Q2, prev2, last2)
  BY <1>0, <1>3, <1>5 DEF Order, Linked, Same
<1>9. Ranked(rank2, Q2, prev2, last2)
  <2> HIDE DEF Q2, prev2, last2, rank2
  <2>0. Q2 = Q \union {c} /\ c \notin Q
    BY DEF Q2
  <2>1. \A d \in Q2 : last2[ProcessOf[d]] # None /\ rank2[d] <= rank2[last2[ProcessOf[d]]]
    <3>1. ASSUME NEW d \in Q2 PROVE last2[ProcessOf[d]] # None /\ rank2[d] <= rank2[last2[ProcessOf[d]]]
      <4>1. CASE Same(d, c)
        <5>1. last2[ProcessOf[d]] = c
          BY <1>3, <4>1 DEF Same
        <5>2. rank2[d] <= rank2[c]
          BY <1>4, <1>7, <2>0, <4>1
        <5> QED
          BY <1>0, <5>1, <5>2
      <4>2. CASE ~Same(d, c)
        <5>1. d \in Q /\ ProcessOf[d] \in Processes \ {p}
          BY <1>6, <2>0, <4>2 DEF Same
        <5>2. last2[ProcessOf[d]] = last[ProcessOf[d]] /\ last[ProcessOf[d]] # None
              /\ rank[d] <= rank[last[ProcessOf[d]]]
          BY <1>1, <1>3, <5>1 DEF Ranked
        <5>3. last[ProcessOf[d]] \in Q
          BY <5>1, <5>2 DEF Order, Linked
        <5> QED
          BY <1>3, <5>1, <5>2, <5>3
      <4> QED
        BY <4>1, <4>2
    <3> QED
      BY <3>1
  <2>2. \A d, e \in Q2 : Same(d, e) /\ rank2[d] = rank2[e] => d = e
    <3>1. \A d, e \in Q : Same(d, e) /\ rank[d] = rank[e] => d = e
      BY <1>1 DEF Ranked
    <3>2. \A d \in Q : Same(d, c) => rank2[d] # rank2[c]
      BY <1>4, <1>7, <2>0
    <3> QED
      BY <1>3, <2>0, <3>1, <3>2 DEF Same
  <2>3. \A d, e \in Q2 : Same(d, e) /\ prev2[d] = None => rank2[d] <= rank2[e]
    <3>1. \A d, e \in Q : Same(d, e) /\ prev[d] = None => rank[d] <= rank[e]
      BY <1>1 DEF Ranked
    <3>2. \A d \in Q : Same(d, c) => rank2[d] <= rank2[c] /\ prev2[c] # None
      BY <1>3, <1>4, <1>7, <2>0
    <3>3. rank2[c] <= rank2[c]
      BY <1>7, <2>0
    <3> QED
      BY <1>3, <2>0, <3>1, <3>2, <3>3 DEF Same
  <2>4. \A d, e \in Q2 : Same(d, e) /\ prev2[d] # None =>
           rank2[e] <= rank2[prev2[d]] \/ rank2[d] <= rank2[e]
    <3>1. \A d, e \in Q : Same(d, e) /\ prev[d] # None =>
             rank[e] <= rank[prev[d]] \/ rank[d] <= rank[e]
      BY <1>1 DEF Ranked
    <3>2. \A d \in Q : prev[d] # None => prev[d] \in Q
      BY DEF Order, Linked
    <3>3. \A d, e \in Q : Same(d, e) /\ prev2[d] # None =>
             rank2[e] <= rank2[prev2[d]] \/ rank2[d] <= rank2[e]
      BY <1>3, <3>1, <3>2
    <3>4. \A d \in Q : Same(d, c) => rank2[d] <= rank2[c]
      BY <1>4, <1>7, <2>0
    <3>5. \A e \in Q : Same(c, e) /\ prev2[c] # None => rank2[e] <= rank2[prev2[c]]
      BY <1>3, <1>4, <1>5 DEF Same
    <3>6. rank2[c] <= rank2[c]
      BY <1>7, <2>0
    <3> QED
      BY <2>0, <3>3, <3>4, <3>5, <3>6
  <2> QED
    BY <2>1, <2>2, <2>3, <2>4 DEF Ranked
<1> QED
  BY <1>2, <1>8, <1>9 DEF Order

LEMMA Leaves ==
    ASSUME NEW Q \in SUBSET Callers, NEW prev \in [Callers -> Callers \union {None}],
           NEW last \in [Processes -> Callers \union {None}], Order(Q, prev, last),
           NEW c \in Q, prev[c] = None
    PROVE  Order(Q \ {c}, [d \in Callers |-> IF prev[d] = c THEN None ELSE prev[d]],
                 [q \in Processes |-> IF last[q] = c THEN None ELSE last[q]])
<1> DEFINE Q2 == Q \ {c}
           prev2 == [d \in Callers |-> IF prev[d] = c THEN None ELSE prev[d]]
           last2 == [q \in Processes |-> IF last[q] = c THEN None ELSE last[q]]
<1>0. ProcessOf \in [Callers -> Processes]
  BY BrokersAssumption DEF BrokersAssumption
<1>1. PICK rank \in [Callers -> Nat] : Ranked(rank, Q, prev, last)
  BY DEF Order
<1>2. \A d \in Q : rank[d] \in Nat
  BY <1>1
<1>3. \A d \in Q2 : Same(c, d) => rank[c] < rank[d]
  BY <1>1, <1>2 DEF Ranked, Same
<1>4. Linked(Q2, prev2, last2)
  BY DEF Order, Linked, Same
<1>5. \A d \in Q2 : last2[ProcessOf[d]] # None /\ rank[d] <= rank[last2[ProcessOf[d]]]
  <2>1. ASSUME NEW d \in Q2 PROVE last2[ProcessOf[d]] # None /\ rank[d] <= rank[last2[ProcessOf[d]]]
    <3>1. ProcessOf[d] \in Processes /\ last[ProcessOf[d]] # None
          /\ rank[d] <= rank[last[ProcessOf[d]]]
      BY <1>0, <1>1 DEF Ranked
    <3>2. last[ProcessOf[d]] # c
      <4>1. CASE Same(c, d)
        BY <1>2, <1>3, <3>1, <4>1
      <4>2. CASE ~Same(c, d)
        BY <3>1, <4>2 DEF Order, Linked, Same
      <4> QED
        BY <4>1, <4>2
    <3> QED
      BY <3>1, <3>2
  <2> QED
    BY <2>1
<1>6. \A d, e \in Q2 : Same(d, e) /\ prev2[d] = None => rank[d] <= rank[e]
  <2>1. ASSUME NEW d \in Q2, NEW e \in Q2, Same(d, e), prev2[d] = None PROVE rank[d] <= rank[e]
    <3>1. CASE prev[d] = None
      BY <1>1, <2>1, <3>1 DEF Ranked
    <3>2. CASE prev[d] = c /\ prev[d] # None
      <4>1. Same(c, e)
        BY <2>1, <3>2 DEF Order, Linked, Same
      <4>2. rank[e] <= rank[c] \/ rank[d] <= rank[e]
        BY <1>1, <2>1, <3>2 DEF Ranked
      <4> QED
        BY <1>2, <1>3, <4>1, <4>2
    <3> QED
      BY <2>1, <3>1, <3>2
  <2> QED
    BY <2>1
<1>7. Ranked(rank, Q2, prev2, last2)
  BY <1>1, <1>5, <1>6 DEF Ranked
<1> QED
  BY <1>1, <1>4, <1>7 DEF Order

\* A process ends and takes its queue with it.
LEMMA Drops ==
    ASSUME NEW Q \in SUBSET Callers, NEW prev \in [Callers -> Callers \union {None}],
           NEW last \in [Processes -> Callers \union {None}], Order(Q, prev, last),
           NEW process \in Processes
    PROVE  Order({d \in Q : ProcessOf[d] # process},
                 [d \in Callers |-> IF ProcessOf[d] = process THEN None ELSE prev[d]],
                 [last EXCEPT ![process] = None])
<1> DEFINE Q2 == {d \in Q : ProcessOf[d] # process}
           prev2 == [d \in Callers |-> IF ProcessOf[d] = process THEN None ELSE prev[d]]
           last2 == [last EXCEPT ![process] = None]
<1>0. ProcessOf \in [Callers -> Processes]
  BY BrokersAssumption DEF BrokersAssumption
<1>1. PICK rank \in [Callers -> Nat] : Ranked(rank, Q, prev, last)
  BY DEF Order
<1>2. Linked(Q2, prev2, last2)
  BY <1>0 DEF Order, Linked, Same
<1>3. \A d \in Q2 : prev2[d] = prev[d] /\ last2[ProcessOf[d]] = last[ProcessOf[d]]
  BY <1>0
<1>4. Ranked(rank, Q2, prev2, last2)
  BY <1>1, <1>3 DEF Ranked
<1> QED
  BY <1>1, <1>2, <1>4 DEF Order

-----------------------------------------------------------------------------
(* The chains of a state.                                                  *)

Queue == {"wait", "list", "post", "reconcile"}
Queued == {c \in Callers : call[c].pc \in Queue}
Previous == [c \in Callers |-> call[c].previous]

\* Only a call that waits waits for one; the queues are chains; and what
\* `serialized` is for.
QueueInv ==
    /\ \A c \in Callers : call[c].previous # None => call[c].pc = "wait"
    /\ Order(Queued, Previous, tail)
    /\ NoConflictWithItself

FullInv == IInv /\ QueueInv

LEMMA QueueTypes ==
    ASSUME TypeOK
    PROVE  /\ Queued \in SUBSET Callers /\ Previous \in [Callers -> Callers \union {None}]
           /\ tail \in [Processes -> Callers \union {None}]
           /\ ProcessOf \in [Callers -> Processes]
  BY BrokersAssumption DEF TypeOK, Queued, Previous, Locals, BrokersAssumption

\* At GitHub there is one call of a process.
LEMMA OneAtGitHub ==
    ASSUME FullInv, NEW c \in Callers, NEW d \in Callers, Same(c, d),
           call[c].pc \in {"list", "post", "reconcile"},
           call[d].pc \in {"list", "post", "reconcile"}
    PROVE  c = d
<1>1. c \in Queued /\ d \in Queued /\ Previous[c] = None /\ Previous[d] = None
  BY DEF FullInv, QueueInv, Queued, Previous, Queue
<1>2. Queued \in SUBSET Callers /\ Order(Queued, Previous, tail)
  BY QueueTypes DEF FullInv, IInv, QueueInv
<1> QED
  BY <1>1, <1>2, FirstIsAlone

\* A step of c that leaves the queues alone.
LEMMA SameQueue ==
    ASSUME FullInv, NEW c \in Callers, UNCHANGED <<tail, pulls>>,
           call' \in [Callers -> Locals],
           \A d \in Callers \ {c} : call'[d].pc = call[d].pc
                                       /\ call'[d].previous = call[d].previous,
           call'[c].pc \in Queue <=> call[c].pc \in Queue,
           call'[c].previous = call[c].previous,
           call'[c].pc = "wait" \/ call[c].previous = None,
           call'[c].pc = "post" => call[c].pc = "post" \/ OpenPulls = {}
    PROVE  QueueInv'
<1>1. Queued' = Queued /\ Previous' = Previous
  BY DEF Queued, Previous
<1>2. Order(Queued, Previous, tail)'
  BY <1>1 DEF FullInv, QueueInv
<1>3. NoConflictWithItself'
  BY DEF FullInv, QueueInv, NoConflictWithItself, OpenPulls
<1>4. (\A d \in Callers : call[d].previous # None => call[d].pc = "wait")'
  BY DEF FullInv, QueueInv
<1> QED
  BY <1>2, <1>3, <1>4 DEF QueueInv

\* c goes on to another label.
LEMMA SameQueueGoto ==
    ASSUME FullInv, NEW c \in Callers, NEW label \in Labels, Goto(c, label), UNCHANGED pulls,
           label \in Queue <=> call[c].pc \in Queue,
           call[c].pc # "wait", label # "post"
    PROVE  QueueInv'
<1>1. call \in [Callers -> Locals] /\ call[c].previous = None
  BY DEF FullInv, IInv, TypeOK, QueueInv
<1>2. /\ call' = [call EXCEPT ![c] = [call[c] EXCEPT !.pc = label]] /\ tail' = tail
      /\ [call[c] EXCEPT !.pc = label] \in Locals
  BY <1>1, RecordChange DEF Goto
<1>3. /\ call'[c].pc = label /\ call'[c].previous = None
      /\ call' \in [Callers -> Locals] /\ \A d \in Callers \ {c} : call'[d] = call[d]
  BY <1>1, <1>2 DEF Locals
<1> QED
  BY <1>1, <1>2, <1>3, SameQueue

\* c ends: its marker is resolved.
LEMMA LeaveQueue ==
    ASSUME FullInv, NEW c \in Callers, call[c].pc # "wait",
           NEW number \in 0..MaxPulls, Leave(c, number),
           \A d \in Callers \ {c}, n \in OpenPulls' :
              call[d].pc = "post" => pulls'[n] # ProcessOf[d]
    PROVE  QueueInv'
<1>0. call \in [Callers -> Locals] /\ TypeOK /\ None \notin Callers
  BY NoneFacts DEF FullInv, IInv, TypeOK
<1>1. /\ call'[c].pc = "idle" /\ call'[c].previous = None
      /\ \A d \in Callers \ {c} :
            /\ call'[d].pc = call[d].pc
            /\ call'[d].previous = IF call[d].previous = c THEN None ELSE call[d].previous
  BY <1>0 DEF Leave, Returned, Locals
<1>2. call[c].previous = None
  BY DEF FullInv, QueueInv
<1>3. Queued' = Queued \ {c}
  BY <1>1 DEF Queued, Queue
<1>4. Previous' = [d \in Callers |-> IF Previous[d] = c THEN None ELSE Previous[d]]
  <2>1. \A d \in Callers : call'[d].previous = IF call[d].previous = c THEN None ELSE call[d].previous
    BY <1>0, <1>1, <1>2
  <2> QED
    BY <2>1 DEF Previous
<1>5. tail' = [q \in Processes |-> IF tail[q] = c THEN None ELSE tail[q]]
  BY DEF Leave
<1>6. Order(Queued, Previous, tail) /\ Previous[c] = None
  BY <1>2 DEF FullInv, QueueInv, Previous
<1>7. Order(Queued', Previous', tail')
  <2>1. CASE c \in Queued
    BY <1>0, <1>3, <1>4, <1>5, <1>6, <2>1, QueueTypes, Leaves
  <2>2. CASE c \notin Queued
    <3>1. \A q \in Processes : tail[q] # c
      BY <1>0, <1>6, <2>2 DEF Order, Linked
    <3>2. \A d \in Callers : Previous[d] # c
      BY <1>0, <1>6, <2>2 DEF Order, Linked
    <3>3. Queued' = Queued /\ tail' = tail /\ Previous' = Previous
      BY <1>0, <1>3, <1>4, <1>5, <2>2, <3>1, <3>2, QueueTypes
    <3> QED
      BY <1>6, <3>3
  <2> QED
    BY <2>1, <2>2
<1>8. (\A d \in Callers : call[d].previous # None => call[d].pc = "wait")'
  BY <1>1 DEF FullInv, QueueInv
<1>9. NoConflictWithItself'
  BY <1>1 DEF NoConflictWithItself
<1> QED
  BY <1>7, <1>8, <1>9 DEF QueueInv

LEMMA ThrowQueue ==
    ASSUME FullInv, NEW c \in Callers, call[c].pc # "wait", Throw(c), UNCHANGED pulls
    PROVE  QueueInv'
<1>1. \A d \in Callers \ {c}, n \in OpenPulls' : call[d].pc = "post" => pulls'[n] # ProcessOf[d]
  BY DEF FullInv, QueueInv, NoConflictWithItself, OpenPulls
<1> QED
  BY <1>1, Bounds, LeaveQueue DEF Throw

-----------------------------------------------------------------------------
(* The steps.                                                              *)

\* The git functions are outside the queue.
LEMMA GitQueue ==
    ASSUME FullInv, NEW c \in Callers,
           \/ Begin(c) \/ ReadTree(c) \/ AddPaths(c) \/ CompareNames(c) \/ WriteTree(c)
           \/ ProbeRef(c) \/ CommitTree(c) \/ UpdateRef(c) \/ ObserveRemote(c)
           \/ Push(c) \/ ConfirmRemote(c)
    PROVE  QueueInv'
<1>0. call \in [Callers -> Locals] /\ UNCHANGED pulls
  BY DEF FullInv, IInv, TypeOK, Begin, ReadTree, AddPaths, CompareNames, WriteTree,
         ProbeRef, CommitTree, UpdateRef, ObserveRemote, Push, ConfirmRemote
<1>1. call[c].pc \notin Queue \/ call[c].pc \notin {"wait", "list", "post", "reconcile"}
  BY DEF At, Begin, ReadTree, AddPaths, CompareNames, WriteTree, ProbeRef, CommitTree,
         UpdateRef, ObserveRemote, Push, ConfirmRemote
<1>2. call[c].pc \notin Queue /\ call[c].pc # "wait" /\ call[c].previous = None
  BY <1>1 DEF Queue, FullInv, QueueInv
<1>3. FullInv' => QueueInv'
  BY DEF FullInv
<1>4. call' \in [Callers -> Locals]
  BY BeginStep, ReadTreeStep, AddPathsStep, CompareNamesStep, WriteTreeStep,
     ProbeRefStep, CommitTreeStep, UpdateRefStep, ObserveRemoteStep, PushStep,
     ConfirmRemoteStep DEF FullInv, IInv, TypeOK
<1>5. CASE \/ Throw(c)
           \/ \E label \in Labels \ Queue : Goto(c, label)
           \/ /\ tail' = tail
              /\ \A d \in Callers \ {c} : call'[d].pc = call[d].pc
                                             /\ call'[d].previous = call[d].previous
              /\ call'[c].pc \in Labels \ Queue /\ call'[c].previous = None
  <2>1. CASE Throw(c)
    BY <1>0, <1>2, <2>1, ThrowQueue
  <2>2. ASSUME NEW label \in Labels \ Queue, Goto(c, label) PROVE QueueInv'
    BY <1>0, <1>2, <2>2, SameQueueGoto DEF Queue
  <2>3. CASE /\ tail' = tail
             /\ \A d \in Callers \ {c} : call'[d].pc = call[d].pc
                                            /\ call'[d].previous = call[d].previous
             /\ call'[c].pc \in Labels \ Queue /\ call'[c].previous = None
    BY <1>0, <1>2, <1>4, <2>3, SameQueue DEF Queue
  <2> QED
    BY <1>5, <2>1, <2>2, <2>3
<1>6. {"add", "names", "write", "probe", "create", "update", "observe", "push", "confirm",
       "enqueue", "read", "idle"} \subseteq Labels \ Queue
  BY DEF Labels, Building, Queue
<1>7. CASE AddPaths(c) \/ CompareNames(c) \/ UpdateRef(c) \/ ObserveRemote(c)
             \/ Push(c) \/ ConfirmRemote(c)
  BY <1>5, <1>6, <1>7 DEF AddPaths, CompareNames, UpdateRef, ObserveRemote, Push, ConfirmRemote
<1>8. CASE Begin(c)
  BY <1>0, <1>5, <1>6, <1>8 DEF Begin, Returned
<1>9. CASE ReadTree(c)
  BY <1>0, <1>2, <1>5, <1>6, <1>9 DEF ReadTree, Locals
<1>10. CASE WriteTree(c)
  BY <1>0, <1>2, <1>5, <1>6, <1>10 DEF WriteTree, Locals
<1>11. CASE CommitTree(c)
  <2>1. PICK time \in Seconds :
           call' = [call EXCEPT ![c].pc = "update", ![c].tree = "base",
                                ![c].oid = [tree |-> call[c].tree, time |-> time]]
    BY <1>11 DEF CommitTree
  <2>2. /\ call'[c].pc = "update" /\ call'[c].previous = None
        /\ \A d \in Callers \ {c} : call'[d] = call[d]
    BY <1>0, <1>2, <2>1 DEF Locals
  <2>3. tail' = tail
    BY <1>11 DEF CommitTree
  <2> QED
    BY <1>5, <1>6, <2>2, <2>3
<1>12. CASE ProbeRef(c)
  BY <1>0, <1>2, <1>5, <1>6, <1>12 DEF ProbeRef, Locals
<1> QED
  BY <1>7, <1>8, <1>9, <1>10, <1>11, <1>12

LEMMA EnqueueQueue == ASSUME FullInv, NEW c \in Callers, Enqueue(c) PROVE QueueInv'
<1> DEFINE p == ProcessOf[c]
<1>0. call \in [Callers -> Locals] /\ TypeOK /\ p \in Processes
  BY BrokersAssumption DEF FullInv, IInv, TypeOK, BrokersAssumption
<1>1. /\ call[c].pc = "enqueue" /\ UNCHANGED pulls
      /\ call' = [call EXCEPT ![c].pc = "wait", ![c].previous = tail[p]]
      /\ tail' = [tail EXCEPT ![p] = c]
  BY DEF Enqueue, At
<1>2. /\ call'[c].pc = "wait" /\ call'[c].previous = tail[p]
      /\ \A d \in Callers \ {c} : call'[d] = call[d]
  BY <1>0, <1>1 DEF Locals
<1>3. Queued' = Queued \union {c} /\ c \notin Queued
  BY <1>1, <1>2 DEF Queued, Queue
<1>4. Previous' = [Previous EXCEPT ![c] = tail[p]]
  BY <1>2 DEF Previous
<1>5. Order(Queued', Previous', tail')
  BY <1>0, <1>1, <1>3, <1>4, QueueTypes, Joins DEF FullInv, QueueInv
<1>6. (\A d \in Callers : call[d].previous # None => call[d].pc = "wait")'
  BY <1>2 DEF FullInv, QueueInv
<1>7. NoConflictWithItself'
  <2>1. pulls' = pulls /\ OpenPulls' = OpenPulls
    BY <1>1 DEF OpenPulls
  <2>2. \A d \in Callers : call'[d].pc = "post" => call[d].pc = "post"
    BY <1>2
  <2> QED
    BY <2>1, <2>2 DEF FullInv, QueueInv, NoConflictWithItself
<1> QED
  BY <1>5, <1>6, <1>7 DEF QueueInv

\* A step of c at GitHub that changes nothing but its own label and count.
LEMMA StayQueue ==
    ASSUME FullInv, NEW c \in Callers, UNCHANGED <<tail, pulls>>,
           NEW label \in Queue, NEW count \in 0..MaxListAttempts,
           call' = [call EXCEPT ![c].pc = label, ![c].attempt = count],
           call[c].pc \in Queue, call[c].previous = None,
           label = "post" => OpenPulls = {}
    PROVE  QueueInv'
<1>1. call \in [Callers -> Locals] /\ label \in Labels
  BY DEF FullInv, IInv, TypeOK, Queue, Labels
<1> DEFINE k == [call[c] EXCEPT !.pc = label, !.attempt = count]
<1>2. call' = [call EXCEPT ![c] = k]
  OBVIOUS
<1>3. k \in Locals /\ k.pc = label /\ k.previous = None
  BY <1>1 DEF Locals
<1> HIDE DEF k
<1>4. /\ call' \in [Callers -> Locals]
      /\ call'[c].pc = label /\ call'[c].previous = None
      /\ \A d \in Callers \ {c} : call'[d] = call[d]
  BY <1>1, <1>2, <1>3
<1> QED
  BY <1>4, SameQueue

LEMMA GitHubQueue ==
    ASSUME FullInv, NEW c \in Callers, Enter(c) \/ List(c) \/ ListAgain(c) \/ PostAmbiguous(c)
    PROVE  QueueInv'
<1>0. call \in [Callers -> Locals] /\ call[c].previous = None /\ UNCHANGED pulls
  BY DEF FullInv, IInv, TypeOK, QueueInv, Enter, List, ListAgain, PostAmbiguous, At, ItsTurn
<1>1. call[c].attempt \in 0..MaxListAttempts /\ MaxListAttempts \in Nat
  BY <1>0, BrokersAssumption DEF Locals, BrokersAssumption
<1>2. CASE Enter(c)
  BY <1>0, <1>2, Bounds, StayQueue DEF Enter, At, Queue
<1>3. CASE PostAmbiguous(c)
  BY <1>0, <1>3, Bounds, StayQueue DEF PostAmbiguous, Reconcile, At, Queue
<1>4. CASE ListAgain(c)
  <2>1. call[c].pc \in {"list", "reconcile"}
    BY <1>4 DEF ListAgain, At
  <2>2. CASE call[c].attempt < MaxListAttempts
    <3>1. call[c].attempt + 1 \in 0..MaxListAttempts
      BY <1>1, <2>2
    <3>2. call' = [call EXCEPT ![c].attempt = call[c].attempt + 1] /\ UNCHANGED tail
      BY <1>4, <2>2 DEF ListAgain
    <3>3. /\ call' \in [Callers -> Locals]
          /\ call'[c].pc = call[c].pc /\ call'[c].previous = None
          /\ \A d \in Callers \ {c} : call'[d] = call[d]
      BY <1>0, <3>1, <3>2 DEF Locals
    <3> QED
      BY <1>0, <2>1, <3>2, <3>3, SameQueue
  <2>3. CASE ~(call[c].attempt < MaxListAttempts)
    BY <1>0, <1>4, <2>1, <2>3, ThrowQueue DEF ListAgain
  <2> QED
    BY <2>2, <2>3
<1>5. CASE List(c)
  <2>1. call[c].pc \in {"list", "reconcile"}
    BY <1>5 DEF List, At
  <2>2. CASE Throw(c)
    BY <1>0, <2>1, <2>2, ThrowQueue
  <2>3. ASSUME NEW n \in OpenPulls, Leave(c, n) PROVE QueueInv'
    <3>1. n \in 0..MaxPulls
      BY BrokersAssumption DEF OpenPulls, FullInv, IInv, TypeOK, BrokersAssumption
    <3>2. \A d \in Callers \ {c}, m \in OpenPulls' : call[d].pc = "post" => pulls'[m] # ProcessOf[d]
      BY <1>0 DEF FullInv, QueueInv, NoConflictWithItself, OpenPulls
    <3> QED
      BY <2>1, <2>3, <3>1, <3>2, LeaveQueue
  <2>4. CASE /\ OpenPulls = {} /\ UNCHANGED tail
             /\ call' = [call EXCEPT ![c].pc = "post", ![c].attempt = 0]
    BY <1>0, <2>1, <2>4, Bounds, StayQueue DEF Queue
  <2> QED
    BY <1>5, <2>2, <2>3, <2>4 DEF List
<1> QED
  BY <1>2, <1>3, <1>4, <1>5

\* What c creates meets no other call of its process.
LEMMA PostCreatedQueue == ASSUME FullInv, NEW c \in Callers, PostCreated(c) PROVE QueueInv'
<1>0. /\ call \in [Callers -> Locals] /\ call[c].previous = None /\ call[c].pc = "post"
      /\ pulls \in Seq(Processes \union {"late", "closed"}) /\ Len(pulls) \in Nat
      /\ ProcessOf[c] \in Processes
  BY BrokersAssumption DEF FullInv, IInv, TypeOK, QueueInv, PostCreated, At, BrokersAssumption
<1>1. pulls' = Append(pulls, ProcessOf[c]) /\ OpenPulls = {} /\ Len(pulls) < MaxPulls
  BY DEF PostCreated, Creatable
<1>2. Len(pulls') \in 0..MaxPulls
  BY <1>0, <1>1, BrokersAssumption DEF BrokersAssumption
<1>3. \A n \in OpenPulls' : pulls'[n] = ProcessOf[c]
  BY <1>0, <1>1 DEF OpenPulls
<1>4. ASSUME NEW d \in Callers \ {c}, call[d].pc = "post" PROVE ProcessOf[d] # ProcessOf[c]
  BY <1>0, <1>4, OneAtGitHub DEF Same
<1>5. \A d \in Callers \ {c}, n \in OpenPulls' : call[d].pc = "post" => pulls'[n] # ProcessOf[d]
  BY <1>3, <1>4
<1>6. CASE Leave(c, Len(pulls'))
  BY <1>0, <1>2, <1>5, <1>6, LeaveQueue
<1>7. CASE Reconcile(c)
  <2>1. /\ call'[c].pc = "reconcile" /\ call'[c].previous = None /\ tail' = tail
        /\ \A d \in Callers \ {c} : call'[d] = call[d]
    BY <1>0, <1>7 DEF Reconcile, Locals
  <2>2. Queued' = Queued /\ Previous' = Previous
    BY <1>0, <2>1 DEF Queued, Previous, Queue
  <2>3. Order(Queued', Previous', tail')
    BY <2>1, <2>2 DEF FullInv, QueueInv
  <2>4. (\A d \in Callers : call[d].previous # None => call[d].pc = "wait")'
    BY <2>1 DEF FullInv, QueueInv
  <2>5. NoConflictWithItself'
    BY <1>5, <2>1 DEF NoConflictWithItself
  <2> QED
    BY <2>3, <2>4, <2>5 DEF QueueInv
<1> QED
  BY <1>6, <1>7 DEF PostCreated

LEMMA FailQueue == ASSUME FullInv, NEW c \in Callers, Fail(c) PROVE QueueInv'
  BY ThrowQueue DEF Fail

\* GitHub and people.
LEMMA OutsideQueue ==
    ASSUME FullInv, UNCHANGED <<call, tail>>,
           \A c \in Callers, n \in OpenPulls' : call[c].pc = "post" => pulls'[n] # ProcessOf[c]
    PROVE  QueueInv'
<1>1. Queued' = Queued /\ Previous' = Previous
  BY DEF Queued, Previous
<1> QED
  BY <1>1 DEF FullInv, QueueInv, NoConflictWithItself

LEMMA CarriedOutQueue == ASSUME FullInv, CarriedOut PROVE QueueInv'
<1>1. pulls \in Seq(Processes \union {"late", "closed"}) /\ Len(pulls) \in Nat
  BY DEF FullInv, IInv, TypeOK
<1>2. \A c \in Callers : ProcessOf[c] # "late"
  BY BrokersAssumption DEF BrokersAssumption
<1>3. ASSUME NEW c \in Callers, NEW n \in OpenPulls', call[c].pc = "post"
      PROVE  pulls'[n] # ProcessOf[c]
  <2>1. CASE pulls' = pulls
    BY <1>3, <2>1 DEF FullInv, QueueInv, NoConflictWithItself, OpenPulls
  <2>2. CASE pulls' = Append(pulls, "late") /\ OpenPulls = {}
    <3>1. pulls'[n] = "late"
      BY <1>1, <1>3, <2>2 DEF OpenPulls
    <3> QED
      BY <1>2, <3>1
  <2> QED
    BY <2>1, <2>2 DEF CarriedOut, Creatable
<1> QED
  BY <1>3, OutsideQueue DEF CarriedOut

LEMMA PeopleQueue == ASSUME FullInv, NEW n \in DOMAIN pulls, People(n) PROVE QueueInv'
<1>1. pulls \in Seq(Processes \union {"late", "closed"}) /\ pulls' = [pulls EXCEPT ![n] = "closed"]
  BY DEF FullInv, IInv, TypeOK, People
<1>2. \A m \in OpenPulls' : m \in OpenPulls /\ pulls'[m] = pulls[m]
  BY <1>1 DEF OpenPulls
<1> QED
  BY <1>2, OutsideQueue DEF People, FullInv, QueueInv, NoConflictWithItself

LEMMA CrashQueue == ASSUME FullInv, NEW process \in Processes, Crash(process) PROVE QueueInv'
<1>0. TypeOK /\ UNCHANGED pulls /\ tail' = [tail EXCEPT ![process] = None]
  BY DEF FullInv, IInv, Crash
<1>1. /\ \A c \in Callers : ProcessOf[c] = process =>
            call'[c].pc = "idle" /\ call'[c].previous = None
      /\ \A c \in Callers : ProcessOf[c] # process => call'[c] = call[c]
  BY DEF Crash, Returned
<1>2. Queued' = {d \in Queued : ProcessOf[d] # process}
  BY <1>1 DEF Queued, Queue
<1>3. Previous' = [d \in Callers |-> IF ProcessOf[d] = process THEN None ELSE Previous[d]]
  BY <1>1 DEF Previous
<1>4. Order(Queued', Previous', tail')
  BY <1>0, <1>2, <1>3, QueueTypes, Drops DEF FullInv, QueueInv
<1>5. (\A d \in Callers : call[d].previous # None => call[d].pc = "wait")'
  BY <1>1 DEF FullInv, QueueInv
<1>6. NoConflictWithItself'
  BY <1>0, <1>1 DEF FullInv, QueueInv, NoConflictWithItself, OpenPulls
<1> QED
  BY <1>4, <1>5, <1>6 DEF QueueInv

-----------------------------------------------------------------------------
(* The invariant and the theorems.                                         *)

LEMMA InitQueue == Init => QueueInv
<1> SUFFICES ASSUME Init PROVE QueueInv
  OBVIOUS
<1>1. \A c \in Callers : call[c].pc = "idle" /\ call[c].previous = None
  BY DEF Init, Returned
<1>2. Queued = {} /\ Previous = [c \in Callers |-> None] /\ tail = [p \in Processes |-> None]
  BY <1>1 DEF Init, Queued, Previous, Queue
<1>3. Linked(Queued, Previous, tail)
  BY <1>2 DEF Linked
<1>4. [c \in Callers |-> 0] \in [Callers -> Nat]
  OBVIOUS
<1>5. Ranked([c \in Callers |-> 0], Queued, Previous, tail)
  BY <1>2 DEF Ranked
<1> QED
  BY <1>1, <1>3, <1>4, <1>5 DEF QueueInv, Order, NoConflictWithItself

LEMMA NextQueue == FullInv /\ [Next]_vars => QueueInv'
<1> SUFFICES ASSUME FullInv, [Next]_vars PROVE QueueInv'
  OBVIOUS
<1>1. ASSUME NEW c \in Callers, Begin(c) \/ Step(c) PROVE QueueInv'
  BY <1>1, GitQueue, EnqueueQueue, GitHubQueue, PostCreatedQueue, FailQueue DEF Step
<1>2. CASE CarriedOut
  BY <1>2, CarriedOutQueue
<1>3. ASSUME NEW process \in Processes, Crash(process) PROVE QueueInv'
  BY <1>3, CrashQueue
<1>4. ASSUME NEW n \in DOMAIN pulls, People(n) PROVE QueueInv'
  BY <1>4, PeopleQueue
<1>5. CASE UNCHANGED vars
  BY <1>5, OutsideQueue DEF vars, FullInv, QueueInv, NoConflictWithItself, OpenPulls
<1> QED
  BY <1>1, <1>2, <1>3, <1>4, <1>5 DEF Next

LEMMA FullInvHolds == Spec => []FullInv
<1>1. Init => FullInv
  BY InitIInv, InitQueue DEF FullInv
<1>2. FullInv /\ [Next]_vars => FullInv'
  BY NextIInv, NextQueue DEF FullInv
<1> QED
  BY <1>1, <1>2, PTL DEF Spec

\* A process never posts a pull request while one it asked for is open, however
\* many of its calls are queued: at most one of them is past the queue, and it
\* has seen none open (OneAtGitHub).
THEOREM SerializedMeetsNobody == Spec => []NoConflictWithItself
<1>1. FullInv => NoConflictWithItself
  BY DEF FullInv, QueueInv
<1> QED
  BY <1>1, FullInvHolds, PTL

\* A queued call waits for one of its own process that is in the queue too,
\* whatever threw, returned or crashed (Linked).
THEOREM MarkersAreResolved == Spec => []NobodyWaitsForNobody
<1>1. FullInv => NobodyWaitsForNobody
  <2> SUFFICES ASSUME FullInv, NEW c \in Callers, call[c].previous # None
               PROVE  /\ call[c].previous \in Mates(c)
                      /\ call[call[c].previous].pc \in Queue
    BY DEF NobodyWaitsForNobody, Queue
  <2>1. Previous[c] # None /\ Linked(Queued, Previous, tail)
    BY DEF FullInv, QueueInv, Order, Previous
  <2>2. Previous[c] \in Queued /\ Previous[c] # c /\ Same(Previous[c], c)
    BY <2>1 DEF Linked
  <2> QED
    BY <2>2 DEF Queued, Previous, Mates, Same
<1> QED
  BY <1>1, FullInvHolds, PTL

=============================================================================
