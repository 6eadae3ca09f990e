---------------------------- MODULE AwayExtension ----------------------------
(***************************************************************************)
(* The command /supervise --away of .pi/extensions/away/index.ts and the   *)
(* service of supervise-away.ts, composed with the lease they both take:   *)
(* requests come from the input handlers of one Pi process, which a flag   *)
(* keeps from overlapping, and from service processes.  Every one of them  *)
(* selects its work and then executes it in one call of                    *)
(* withRepositoryLease (runAwayOnce).                                      *)
(*                                                                         *)
(* A change of session resets the flag; it does not end the handler that   *)
(* is still waiting for its controller.                                    *)
(***************************************************************************)
EXTENDS Lease, Naturals

CONSTANTS MaxSessions,  \* bound: changes of the session
          Homes         \* which requests may be input handlers

ASSUME ControllersAssumption == IsFiniteSet(Controllers)
ASSUME MaxSessionsAssumption == MaxSessions \in Nat
ASSUME HomesAssumption == Homes \subseteq SUBSET Controllers

VARIABLES
    handlers,  \* requests that are input handlers of the Pi process
    running,   \* the flag of the extension
    request,   \* stage of a request: none, selecting, leasing
    sessions   \* changes of the session so far

all == <<vars, handlers, running, request, sessions>>

Pending == { c \in handlers : request[c] # "none" }

ExtensionInit ==
    /\ Init
    /\ handlers \in Homes
    /\ running = FALSE
    /\ request = [c \in Controllers |-> "none"]
    /\ sessions = 0

Stage(c, from, to) == request[c] = from /\ request' = [request EXCEPT ![c] = to]

-----------------------------------------------------------------------------
\* Mutant: the flag is set when the controller has answered.
InputBeforeFlag(c) ==
    /\ c \in handlers /\ ~running
    /\ Stage(c, "none", "selecting")
    /\ UNCHANGED <<vars, handlers, running, sessions>>

\* pi.on("input"): a second request is refused while the flag is up.
Input(c) ==
    /\ c \in handlers /\ ~running
    /\ Stage(c, "none", "selecting")
    /\ running' = TRUE
    /\ UNCHANGED <<vars, handlers, sessions>>

\* runContinuousSeniorService polls again.
Poll(c) ==
    /\ c \notin handlers
    /\ Stage(c, "none", "selecting")
    /\ UNCHANGED <<vars, handlers, running, sessions>>

\* runAwayOnce has selected its work.
TakeLease(c) ==
    /\ Stage(c, "selecting", "leasing")
    /\ Spawn(c)
    /\ UNCHANGED <<handlers, running, sessions>>

\* The controller answers or throws, before its lease or after it: `finally`
\* clears the flag, whoever set it last.
Answer(c) ==
    /\ pc[c] = "out"
    /\ request[c] # "none" /\ request' = [request EXCEPT ![c] = "none"]
    /\ running' = (running /\ c \notin handlers)
    /\ UNCHANGED <<vars, handlers, sessions>>

\* session_shutdown and session_start reset the flag.
ChangeSession ==
    /\ sessions < MaxSessions
    /\ sessions' = sessions + 1
    /\ running' = FALSE
    /\ UNCHANGED <<vars, handlers, request>>

\* The process of the requests S ends: the Pi process or a service.
ProcessDies(S) ==
    /\ Die(S)
    /\ request' = [c \in Controllers |-> IF c \in S THEN "none" ELSE request[c]]
    /\ running' = (running /\ S # handlers)
    /\ UNCHANGED <<handlers, sessions>>

Processes == { handlers } \union { {c} : c \in Controllers \ handlers }

-----------------------------------------------------------------------------
Outside == UNCHANGED <<handlers, running, request, sessions>>

RequestNext ==
    \/ \E c \in Controllers :
          \/ Input(c) \/ Poll(c) \/ TakeLease(c) \/ Answer(c)
          \/ CallStep(c) /\ Outside
    \/ \E h \in Helpers : Helper(h) /\ Outside
    \/ ChangeSession
    \/ \E S \in Processes : ProcessDies(S)

ExtensionSpec == ExtensionInit /\ [][RequestNext]_all

\* As in Lease; and a request selects or answers.
FairSpec ==
    /\ ExtensionSpec /\ Fairness
    /\ \A c \in Controllers : WF_all(TakeLease(c) \/ Answer(c))

-----------------------------------------------------------------------------
(* Properties.                                                             *)

\* The types of requests and lease; only a request that has got so far is in a
\* call of withRepositoryLease (supervise-away.ts:858-866).
RequestTypeOK ==
    /\ TypeOK
    /\ handlers \in Homes
    /\ running \in BOOLEAN
    /\ request \in [Controllers -> {"none", "selecting", "leasing"}]
    /\ \A c \in Controllers : pc[c] # "out" => request[c] = "leasing"
    /\ sessions \in 0..MaxSessions

\* Requests of one Pi process overlap only as often as the session changed under
\* one of them, although a request that ends clears the flag of the next one
\* (index.ts:105-147); and the flag is up for somebody.
OverlapsBounded ==
    /\ Cardinality(Pending) <= sessions + (IF running THEN 1 ELSE 0)
    /\ running => Pending # {}

\* Every request comes to an end, also when the helper of its lease died before
\* anyone listened for the exit (controller.ts:732-753), and the operator is never
\* refused for ever (index.ts:138-141).
RequestEnds ==
    /\ \A c \in Controllers : request[c] # "none" ~> request[c] = "none"
    /\ running ~> ~running

=============================================================================
