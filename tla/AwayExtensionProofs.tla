------------------------- MODULE AwayExtensionProofs -------------------------
(***************************************************************************)
(* For any number of requests, helpers, processes and changes of session:  *)
(* the types hold, two requests execute together only when a helper was    *)
(* killed under one of them, and requests of one process overlap only as   *)
(* often as its session changed.                                           *)
(*                                                                         *)
(* LockInv says why the lock excludes: one helper has it, a helper has one *)
(* call, and a call is inside only after its own helper printed READY.     *)
(***************************************************************************)
EXTENDS AwayExtension, FiniteSetTheorems, TLAPS

LockInv ==
    /\ \A h \in Helpers : h \in script \union ready => flock[h] \in {"holding", "dead"}
    /\ \A g, h \in Helpers : HasLock(g) /\ HasLock(h) => g = h
    /\ \A c, d \in Controllers :
          pc[c] # "out" /\ pc[d] # "out" /\ mine[c] = mine[d] => c = d
    /\ \A c \in Controllers : pc[c] # "out" => flock[mine[c]] # "none"
    /\ \A c \in Controllers : pc[c] = "inside" => mine[c] \in ready

-----------------------------------------------------------------------------
(* The types.                                                              *)

LEMMA TypeInit == ExtensionInit => RequestTypeOK
<1> SUFFICES ASSUME ExtensionInit PROVE RequestTypeOK
  OBVIOUS
<1>1. TypeOK /\ \A c \in Controllers : pc[c] = "out"
  BY DEF ExtensionInit, Init, TypeOK
<1>2. sessions \in 0..MaxSessions
  BY MaxSessionsAssumption DEF ExtensionInit, MaxSessionsAssumption
<1>3. running \in BOOLEAN
  BY Zenon DEF ExtensionInit
<1> QED
  BY <1>1, <1>2, <1>3 DEF ExtensionInit, RequestTypeOK

LEMMA TypeStep == RequestTypeOK /\ [RequestNext]_all => RequestTypeOK'
<1> SUFFICES ASSUME RequestTypeOK, [RequestNext]_all PROVE RequestTypeOK'
  OBVIOUS
<1> USE NoHelperAssumption DEF RequestTypeOK, TypeOK, NoHelperAssumption
<1>1. ASSUME NEW c \in Controllers, Input(c) PROVE RequestTypeOK'
  BY <1>1 DEF Input, Stage, vars
<1>2. ASSUME NEW c \in Controllers, Poll(c) PROVE RequestTypeOK'
  BY <1>2 DEF Poll, Stage, vars
<1>3. ASSUME NEW c \in Controllers, TakeLease(c) PROVE RequestTypeOK'
  BY <1>3 DEF TakeLease, Stage, Spawn, Moves
<1>4. ASSUME NEW c \in Controllers, Answer(c) PROVE RequestTypeOK'
  BY <1>4 DEF Answer, vars
<1>5. ASSUME NEW c \in Controllers, CallStep(c), Outside PROVE RequestTypeOK'
  BY <1>5 DEF CallStep, Acquired, Refused, ReadyTimeout, Leave, ExitHeard,
              ExitTimeout, Moves, FlockGone, Outside
<1>6. ASSUME NEW h \in Helpers, Helper(h), Outside PROVE RequestTypeOK'
  BY <1>6 DEF Helper, TryLock, PrintReady, ScriptExit, FlockExit, HelperKilled,
              Reap, FlockGone, Outside
<1>7. CASE ChangeSession
  <2>1. sessions' \in 0..MaxSessions
    BY <1>7, MaxSessionsAssumption DEF ChangeSession, MaxSessionsAssumption
  <2>2. running' \in BOOLEAN
    BY <1>7, Zenon DEF ChangeSession
  <2> QED
    BY <1>7, <2>1, <2>2 DEF ChangeSession, vars
<1>8. ASSUME NEW S \in Processes, ProcessDies(S) PROVE RequestTypeOK'
  BY <1>8 DEF ProcessDies, Die
<1>9. CASE UNCHANGED all
  BY <1>9 DEF all, vars
<1> QED
  BY <1>1, <1>2, <1>3, <1>4, <1>5, <1>6, <1>7, <1>8, <1>9 DEF RequestNext

-----------------------------------------------------------------------------
(* The lock.                                                               *)

LEMMA LockInit == ExtensionInit => LockInv
  BY DEF ExtensionInit, Init, LockInv, HasLock

LEMMA LockStep == RequestTypeOK /\ LockInv /\ [RequestNext]_all => LockInv'
<1> SUFFICES ASSUME RequestTypeOK, LockInv, [RequestNext]_all PROVE LockInv'
  OBVIOUS
<1> USE NoHelperAssumption DEF RequestTypeOK, TypeOK, LockInv, HasLock, NoHelperAssumption
<1>1. ASSUME NEW c \in Controllers, Input(c) \/ Poll(c) \/ Answer(c) PROVE LockInv'
  BY <1>1 DEF Input, Poll, Answer, vars
<1>2. ASSUME NEW c \in Controllers, TakeLease(c) PROVE LockInv'
  BY <1>2 DEF TakeLease, Spawn, Moves
<1>3. ASSUME NEW c \in Controllers, CallStep(c) PROVE LockInv'
  <2>1. CASE Acquired(c)
    BY <2>1 DEF Acquired, Moves
  <2>2. CASE Refused(c) \/ ExitHeard(c)
    BY <2>2 DEF Refused, ExitHeard, Moves
  <2>3. CASE ReadyTimeout(c) \/ ExitTimeout(c)
    BY <2>3 DEF ReadyTimeout, ExitTimeout, Moves, FlockGone
  <2>4. CASE Leave(c)
    BY <2>4 DEF Leave, Moves
  <2> QED
    BY <1>3, <2>1, <2>2, <2>3, <2>4 DEF CallStep
<1>4. ASSUME NEW h \in Helpers, Helper(h) PROVE LockInv'
  <2>1. CASE TryLock(h)
    BY <2>1 DEF TryLock, LockFree, FlockGone
  <2>2. CASE PrintReady(h)
    BY <2>2 DEF PrintReady
  <2>3. CASE ScriptExit(h)
    BY <2>3 DEF ScriptExit
  <2>4. CASE FlockExit(h) \/ HelperKilled(h)
    BY <2>4 DEF FlockExit, HelperKilled, FlockGone
  <2>5. CASE Reap(h)
    BY <2>5 DEF Reap
  <2> QED
    BY <1>4, <2>1, <2>2, <2>3, <2>4, <2>5 DEF Helper
<1>5. CASE ChangeSession
  BY <1>5 DEF ChangeSession, vars
<1>6. ASSUME NEW S \in Processes, ProcessDies(S) PROVE LockInv'
  BY <1>6 DEF ProcessDies, Die
<1>7. CASE UNCHANGED all
  BY <1>7 DEF all, vars
<1> QED
  BY <1>1, <1>2, <1>3, <1>4, <1>5, <1>6, <1>7 DEF RequestNext

\* Whoever is inside has the lock, or the helper was killed.
LEMMA LockExcludes == RequestTypeOK /\ LockInv => MutualExclusion
  BY DEF RequestTypeOK, TypeOK, LockInv, HasLock, MutualExclusion

-----------------------------------------------------------------------------
(* The flag.                                                               *)

LEMMA PendingFinite == RequestTypeOK => IsFiniteSet(Pending)
  BY ControllersAssumption, HomesAssumption, FS_Subset
  DEF RequestTypeOK, Pending, ControllersAssumption, HomesAssumption

LEMMA OverlapInit == ExtensionInit => OverlapsBounded
<1> SUFFICES ASSUME ExtensionInit PROVE OverlapsBounded
  OBVIOUS
<1>1. Pending = {}
  BY HomesAssumption DEF ExtensionInit, Pending, HomesAssumption
<1> QED
  BY <1>1, FS_EmptySet DEF ExtensionInit, OverlapsBounded

LEMMA OverlapStep ==
    RequestTypeOK /\ OverlapsBounded /\ [RequestNext]_all => OverlapsBounded'
<1> SUFFICES ASSUME RequestTypeOK, OverlapsBounded, [RequestNext]_all
             PROVE  OverlapsBounded'
  OBVIOUS
<1>0. IsFiniteSet(Pending) /\ Cardinality(Pending) \in Nat
  BY PendingFinite, FS_CardinalityType
<1>1. handlers \subseteq Controllers /\ sessions \in Nat
  BY HomesAssumption, MaxSessionsAssumption
  DEF RequestTypeOK, HomesAssumption, MaxSessionsAssumption
<1> USE <1>0, <1>1 DEF OverlapsBounded
<1>2. ASSUME NEW c \in Controllers, Input(c) PROVE OverlapsBounded'
  <2>1. Pending' = Pending \union {c} /\ c \notin Pending
    BY <1>2 DEF Input, Stage, Pending, RequestTypeOK
  <2>2. Cardinality(Pending') = Cardinality(Pending) + 1
    BY <2>1, FS_AddElement
  <2> QED
    BY <1>2, <2>1, <2>2 DEF Input
<1>3. ASSUME NEW c \in Controllers, Poll(c) PROVE OverlapsBounded'
  <2>1. Pending' = Pending
    BY <1>3 DEF Poll, Stage, Pending, RequestTypeOK
  <2> QED
    BY <1>3, <2>1 DEF Poll
<1>4. ASSUME NEW c \in Controllers, TakeLease(c) PROVE OverlapsBounded'
  <2>1. Pending' = Pending
    BY <1>4 DEF TakeLease, Stage, Pending, RequestTypeOK
  <2> QED
    BY <1>4, <2>1 DEF TakeLease
<1>5. ASSUME NEW c \in Controllers, Answer(c) PROVE OverlapsBounded'
  <2>1. CASE c \in handlers
    <3>1. Pending' = Pending \ {c} /\ c \in Pending
      BY <1>5, <2>1 DEF Answer, Pending, RequestTypeOK
    <3>2. Cardinality(Pending') = Cardinality(Pending) - 1
      BY <3>1, FS_RemoveElement
    <3>3. ~running' /\ sessions' = sessions
      BY <1>5, <2>1, Zenon DEF Answer
    <3>4. Cardinality(Pending') <= sessions
      BY <3>2
    <3> QED
      BY <3>3, <3>4
  <2>2. CASE c \notin handlers
    <3>1. Pending' = Pending
      BY <1>5, <2>2 DEF Answer, Pending, RequestTypeOK
    <3> QED
      BY <1>5, <2>2, <3>1 DEF Answer, RequestTypeOK
  <2> QED
    BY <2>1, <2>2
<1>6. ASSUME Outside PROVE OverlapsBounded'
  <2>1. Pending' = Pending
    BY <1>6 DEF Outside, Pending
  <2> QED
    BY <1>6, <2>1 DEF Outside
<1>7. CASE ChangeSession
  <2>1. Pending' = Pending
    BY <1>7 DEF ChangeSession, Pending
  <2> QED
    BY <1>7, <2>1 DEF ChangeSession
<1>8. ASSUME NEW S \in Processes, ProcessDies(S) PROVE OverlapsBounded'
  <2>1. CASE S = handlers
    <3>1. Pending' = {}
      BY <1>8, <2>1 DEF ProcessDies, Pending
    <3>2. ~running' /\ sessions' = sessions
      BY <1>8, <2>1, Zenon DEF ProcessDies
    <3>3. Cardinality(Pending') = 0
      BY <3>1, FS_EmptySet, Zenon
    <3> QED
      BY <3>2, <3>3
  <2>2. CASE S # handlers
    <3>1. PICK d \in Controllers \ handlers : S = {d}
      BY <2>2 DEF Processes
    <3>2. Pending' = Pending
      BY <1>8, <3>1 DEF ProcessDies, Pending, RequestTypeOK
    <3> QED
      BY <1>8, <2>2, <3>2 DEF ProcessDies, RequestTypeOK
  <2> QED
    BY <2>1, <2>2
<1>9. CASE UNCHANGED all
  BY <1>6, <1>9 DEF all, Outside
<1> QED
  BY <1>2, <1>3, <1>4, <1>5, <1>6, <1>7, <1>8, <1>9 DEF RequestNext

-----------------------------------------------------------------------------
(* The theorems.                                                           *)

\* Requests and lease keep their types; only a request that has selected its work
\* is in a call of withRepositoryLease.
THEOREM RequestsTyped == ExtensionSpec => []RequestTypeOK
  BY TypeInit, TypeStep, PTL DEF ExtensionSpec

\* Two requests execute together only when a helper was killed under one of them.
THEOREM LeaseExcludes == ExtensionSpec => []MutualExclusion
<1>1. ExtensionInit => LockInv
  BY LockInit
<1>2. RequestTypeOK /\ LockInv /\ [RequestNext]_all => LockInv'
  BY LockStep
<1>3. RequestTypeOK /\ LockInv => MutualExclusion
  BY LockExcludes
<1> QED
  BY <1>1, <1>2, <1>3, RequestsTyped, PTL DEF ExtensionSpec

\* Requests of one process overlap only as often as its session changed.
THEOREM OverlapsAreBounded == ExtensionSpec => []OverlapsBounded
<1>1. ExtensionInit => OverlapsBounded
  BY OverlapInit
<1>2. RequestTypeOK /\ OverlapsBounded /\ [RequestNext]_all => OverlapsBounded'
  BY OverlapStep
<1> QED
  BY <1>1, <1>2, RequestsTyped, PTL DEF ExtensionSpec

=============================================================================
