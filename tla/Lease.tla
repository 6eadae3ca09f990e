------------------------------- MODULE Lease -------------------------------
(***************************************************************************)
(* withRepositoryLease of .pi/away-runtime/controller.ts: a critical       *)
(* section guarded by a file lock that a helper holds on behalf of the     *)
(* controller.                                                             *)
(*                                                                         *)
(* The helper is two processes: flock(1), which takes the lock or exits,   *)
(* and the node script it starts, which inherits the locked descriptor,    *)
(* prints READY and lives until its standard input is closed.  The lock is *)
(* held as long as one of the two has the descriptor.  Node closes the     *)
(* pipe to a child it has seen exit.                                       *)
(***************************************************************************)
EXTENDS FiniteSets

CONSTANTS Controllers,    \* processes that call withRepositoryLease
          Helpers,        \* helper incarnations
          NoHelper        \* not a helper

ASSUME NoHelperAssumption == NoHelper \notin Helpers

VARIABLES pc,      \* controller: out, waiting, inside, closing
          mine,    \* the helper a controller spawned last
          heard,   \* awaitExit was registered before the helper exited
          flock,   \* flock(1): none, starting, holding, dead
          script,  \* helpers whose node script runs
          stdin,   \* helpers whose standard input is open
          ready    \* helpers that have printed READY

vars == <<pc, mine, heard, flock, script, stdin, ready>>

HasLock(h) == flock[h] = "holding" \/ h \in script
\* Mutant: flock is asked for a shared lock.
LockShared == TRUE

LockFree == \A h \in Helpers : ~HasLock(h)

Init ==
    /\ pc = [c \in Controllers |-> "out"]
    /\ mine = [c \in Controllers |-> NoHelper]
    /\ heard = {}
    /\ flock = [h \in Helpers |-> "none"]
    /\ script = {} /\ stdin = {} /\ ready = {}

Moves(c, from, to) == pc[c] = from /\ pc' = [pc EXCEPT ![c] = to]

\* flock(1) ends: the controller closes its end of the pipe.
FlockGone(h) ==
    /\ flock' = [flock EXCEPT ![h] = "dead"]
    /\ stdin' = stdin \ {h}

-----------------------------------------------------------------------------
(* The controller.                                                         *)

\* Mutant: the handle of the child is not kept.
SpawnUntracked(c) ==
    /\ Moves(c, "out", "waiting")
    /\ \E h \in Helpers :
          /\ flock[h] = "none" /\ h \notin script
          /\ flock' = [flock EXCEPT ![h] = "starting"]
          /\ stdin' = stdin \union {h}
    /\ UNCHANGED <<mine, heard, script, ready>>

Spawn(c) ==
    /\ Moves(c, "out", "waiting")
    /\ \E h \in Helpers :
          /\ flock[h] = "none" /\ h \notin script
          /\ mine' = [mine EXCEPT ![c] = h]
          /\ flock' = [flock EXCEPT ![h] = "starting"]
          /\ stdin' = stdin \union {h}
    /\ UNCHANGED <<heard, script, ready>>

\* acquireLock resolves on READY ...
Acquired(c) ==
    /\ mine[c] \in ready
    /\ Moves(c, "waiting", "inside")
    /\ UNCHANGED <<mine, heard, flock, script, stdin, ready>>

\* ... and rejects when the helper exits first ...
Refused(c) ==
    /\ mine[c] \in Helpers /\ flock[mine[c]] = "dead"
    /\ Moves(c, "waiting", "out")
    /\ UNCHANGED <<mine, heard, flock, script, stdin, ready>>

\* Mutant: the timeout rejects and leaves the helper alone.
ReadyTimeoutWithoutKill(c) ==
    /\ Moves(c, "waiting", "out")
    /\ UNCHANGED <<mine, heard, flock, script, stdin, ready>>

\* ... or READY_TIMEOUT_MS is over: the helper is killed.
ReadyTimeout(c) ==
    /\ Moves(c, "waiting", "out")
    /\ FlockGone(mine[c])
    /\ UNCHANGED <<mine, heard, script, ready>>

\* fn returned or threw: end stdin, then listen for the exit.  An exit that
\* happened before may not be heard any more.
Leave(c) ==
    /\ Moves(c, "inside", "closing")
    /\ \/ heard' = heard \union {c}
       \/ flock[mine[c]] = "dead" /\ heard' = heard \ {c}
    /\ stdin' = stdin \ {mine[c]}
    /\ UNCHANGED <<mine, flock, script, ready>>

ExitHeard(c) ==
    /\ Moves(c, "closing", "out")
    /\ c \in heard /\ flock[mine[c]] = "dead"
    /\ UNCHANGED <<mine, heard, flock, script, stdin, ready>>

\* Mutant: awaitExit has no timer.
ExitTimeoutNever(c) == FALSE /\ UNCHANGED vars

\* EXIT_TIMEOUT_MS is over: kill flock(1) and return without further waiting.
ExitTimeout(c) ==
    /\ Moves(c, "closing", "out")
    /\ FlockGone(mine[c])
    /\ UNCHANGED <<mine, heard, script, ready>>

\* The process of the controllers S is killed: the kernel closes its pipes.
Die(S) ==
    /\ \E c \in S : pc[c] # "out"
    /\ pc' = [c \in Controllers |-> IF c \in S THEN "out" ELSE pc[c]]
    /\ stdin' = stdin \ { mine[c] : c \in S }
    /\ UNCHANGED <<mine, heard, flock, script, ready>>

-----------------------------------------------------------------------------
(* The helper and its environment.                                         *)

\* flock --exclusive --nonblock: take the lock and start the script, or exit.
TryLock(h) ==
    /\ flock[h] = "starting"
    /\ IF LockFree
         THEN /\ flock' = [flock EXCEPT ![h] = "holding"]
              /\ script' = script \union {h}
              /\ UNCHANGED stdin
         ELSE FlockGone(h) /\ UNCHANGED script
    /\ UNCHANGED <<pc, mine, heard, ready>>

PrintReady(h) ==
    /\ h \in script \ ready
    /\ ready' = ready \union {h}
    /\ UNCHANGED <<pc, mine, heard, flock, script, stdin>>

\* The script sees end of file and exits.
ScriptExit(h) ==
    /\ h \in script \ stdin
    /\ script' = script \ {h}
    /\ UNCHANGED <<pc, mine, heard, flock, stdin, ready>>

\* flock(1) waits for its child.
FlockExit(h) ==
    /\ flock[h] = "holding" /\ h \notin script
    /\ FlockGone(h)
    /\ UNCHANGED <<pc, mine, heard, script, ready>>

HelperKilled(h) ==
    /\ flock[h] \in {"starting", "holding"}
    /\ FlockGone(h)
    /\ UNCHANGED <<pc, mine, heard, script, ready>>

\* Nobody knows the process any more: its entry may name a new one.
Reap(h) ==
    /\ flock[h] = "dead" /\ h \notin script
    /\ \A c \in Controllers : mine[c] = h => pc[c] = "out"
    /\ flock' = [flock EXCEPT ![h] = "none"]
    /\ ready' = ready \ {h}
    /\ mine' = [c \in Controllers |-> IF mine[c] = h THEN NoHelper ELSE mine[c]]
    /\ UNCHANGED <<pc, heard, script, stdin>>

-----------------------------------------------------------------------------
\* A call that has spawned its helper.
CallStep(c) ==
    \/ Acquired(c) \/ Refused(c) \/ ReadyTimeout(c)
    \/ Leave(c) \/ ExitHeard(c) \/ ExitTimeout(c)

Helper(h) ==
    \/ TryLock(h) \/ PrintReady(h) \/ ScriptExit(h) \/ FlockExit(h)
    \/ HelperKilled(h) \/ Reap(h)

\* Timers fire, fn ends, and processes that can run do run.
Fairness ==
    /\ \A c \in Controllers :
          /\ WF_vars(Acquired(c) \/ Refused(c) \/ ReadyTimeout(c))
          /\ WF_vars(Leave(c))
          /\ WF_vars(ExitHeard(c) \/ ExitTimeout(c))
    /\ \A h \in Helpers : WF_vars(ScriptExit(h)) /\ WF_vars(FlockExit(h))

-----------------------------------------------------------------------------
(* Properties.                                                             *)

\* Types; a controller that is in the call knows its helper (controller.ts:668-676).
TypeOK ==
    /\ pc \in [Controllers -> {"out", "waiting", "inside", "closing"}]
    /\ mine \in [Controllers -> Helpers \union {NoHelper}]
    /\ \A c \in Controllers : pc[c] # "out" => mine[c] \in Helpers
    /\ heard \subseteq Controllers
    /\ flock \in [Helpers -> {"none", "starting", "holding", "dead"}]
    /\ script \subseteq Helpers /\ stdin \subseteq Helpers /\ ready \subseteq Helpers

\* Two controllers are inside fn of the same lease at once only when the helper
\* of one of them was killed under it (controller.ts:717-726, 790-816): timers
\* that fire early, refused helpers and dead controllers never lead there.
MutualExclusion ==
    \A c, d \in Controllers :
        pc[c] = "inside" /\ pc[d] = "inside" /\ c # d =>
            flock[mine[c]] = "dead" \/ flock[mine[d]] = "dead"

\* A lock nobody works under any more is given up: after a timeout, a killed
\* helper or a killed controller no orphan keeps the repository closed.
Abandoned(h) == HasLock(h) /\ \A c \in Controllers : mine[c] = h => pc[c] = "out"

LockIsFreed == \A h \in Helpers : Abandoned(h) ~> ~HasLock(h)

=============================================================================
