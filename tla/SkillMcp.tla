------------------------------ MODULE SkillMcp ------------------------------
(***************************************************************************)
(* The clients of the skill_mcp tools: .opencode/plugin/skill-mcp.ts and   *)
(* skill-mcp/client.ts.                                                    *)
(*                                                                         *)
(* One event loop: an action is what runs between two awaits.  A client    *)
(* has the name of the call that spawned its server; a call waits for at   *)
(* most one request at a time.  Abstracted: the tools of a server, which   *)
(* are known or not, what loadedSkills adds to the description of a tool,  *)
(* and the wording of answers.                                             *)
(***************************************************************************)
EXTENDS Naturals

CONSTANTS NumCalls,   \* bound: calls of skill_mcp, numbered as they arrive
          Keys,       \* <<skill, server>>, the keys of clients
          NoKey,
          Asks,       \* the keys a call may ask for
          Filtered    \* the configuration has includeTools

ASSUME NumCallsAssumption == NumCalls \in Nat
ASSUME KeysAssumption == NoKey \notin Keys
ASSUME FilteredAssumption == Filtered \in BOOLEAN

Calls == 1..NumCalls
ASSUME AsksAssumption == Asks \in [Calls -> SUBSET Keys]
NoCall == 0

VARIABLES
    clients,   \* the Map of the plugin
    server,    \* process of a client: its key, whether it runs, ChildProcess.killed
    tools,     \* filteredTools of a client: unknown, listed or empty
    call,      \* a call: its program point, its client, whether that can still answer
    stolen     \* history: clients whose entry another client's cleanup removed

vars == <<clients, server, tools, call, stolen>>

At(pc, client, answers) == [pc |-> pc, client |-> client, answers |-> answers]

Init ==
    /\ clients = [k \in Keys |-> NoCall]
    /\ server = [c \in Calls |-> [run |-> "none", killed |-> FALSE, key |-> NoKey]]
    /\ tools = [c \in Calls |-> "unknown"]
    /\ call = [c \in Calls |-> At("new", NoCall, FALSE)]
    /\ stolen = {}

-----------------------------------------------------------------------------
(* Connecting.                                                             *)

Up(c) == server[c].run = "up"

\* kill() marks the process as killed unless its exit was seen already.
Killed(s) == [s EXCEPT !.killed = @ \/ s.run \in {"up", "down"}]

\* clients.delete(key) by the cleanup of client c, whoever is there.
Forget(c) ==
    LET k == server[c].key IN
    /\ clients' = [clients EXCEPT ![k] = NoCall]
    /\ stolen' = stolen \union ({clients[k]} \ {c, NoCall})

\* Writing a request to a process that is gone gets no answer.
Send(c, pc, client, up) == call' = [call EXCEPT ![c] = At(pc, client, up)]
Return(c) == call' = [call EXCEPT ![c] = At("done", NoCall, FALSE)]

\* execute goes on with its client: it lists tools, refuses, or calls a tool.
Continue(c, client, known) ==
    \/ Return(c)
    \/ (Filtered => known = "listed") /\ Send(c, "use", client, Up(client))

\* Of several clients with one key only the one in the Map is found.
Usable(k) == clients[k] # NoCall /\ ~server[clients[k]].killed

Arrives(c) == call[c].pc = "new" /\ \A d \in 1..(c - 1) : call[d].pc # "new"

\* There is no such skill, server or configuration.
Refuse(c) ==
    /\ Arrives(c)
    /\ Return(c)
    /\ UNCHANGED <<clients, server, tools, stolen>>

\* Another call's client, which may still be connecting.
Reuse(c, k) ==
    /\ Arrives(c) /\ Usable(k)
    /\ Continue(c, clients[k], tools[clients[k]])
    /\ UNCHANGED <<clients, server, tools, stolen>>

\* Mutant: a client that has not listed its tools is not used.
ConnectUnlessReady(c, k) ==
    /\ Arrives(c) /\ ~(Usable(k) /\ tools[clients[k]] # "unknown")
    /\ server' = [server EXCEPT ![c] = [run |-> "up", killed |-> FALSE, key |-> k]]
    /\ clients' = [clients EXCEPT ![k] = c]
    /\ Send(c, "init", c, TRUE)
    /\ UNCHANGED <<tools, stolen>>

Connect(c, k) ==
    /\ Arrives(c) /\ ~Usable(k)
    /\ server' = [server EXCEPT ![c] = [run |-> "up", killed |-> FALSE, key |-> k]]
    /\ clients' = [clients EXCEPT ![k] = c]
    /\ Send(c, "init", c, TRUE)
    /\ UNCHANGED <<tools, stolen>>

-----------------------------------------------------------------------------
(* Requests.                                                               *)

Waits(c) == call[c].pc \in {"init", "list", "use"}

\* initialize was rejected.
InitializeFails(c) ==
    /\ server' = [server EXCEPT ![c] = Killed(@)]
    /\ Forget(c) /\ Return(c)
    /\ UNCHANGED tools

\* tools/list was answered or rejected; connectServer returns the client.
Connected(c, known) ==
    /\ tools' = [tools EXCEPT ![c] = known]
    /\ Continue(c, c, known)
    /\ UNCHANGED <<clients, server, stolen>>

Settle(c, answer) ==
    \/ call[c].pc = "init" /\ answer = "error" /\ InitializeFails(c)
    \/ /\ call[c].pc = "init" /\ answer = "result"
       /\ Send(c, "list", c, Up(c))
       /\ UNCHANGED <<clients, server, tools, stolen>>
    \/ call[c].pc = "list" /\ Connected(c, IF answer = "result" THEN "listed" ELSE "empty")
    \/ /\ call[c].pc = "use"
       /\ Return(c)
       /\ UNCHANGED <<clients, server, tools, stolen>>

\* A line of stdout: the server wrote it while it ran, it may have ended since.
Data(c) == Waits(c) /\ call[c].answers /\ \E a \in {"result", "error"} : Settle(c, a)

\* Mutant: the timer removes the pending request and rejects nobody.
TimeoutForgets(c) ==
    /\ Waits(c)
    /\ call' = [call EXCEPT ![c].answers = FALSE]
    /\ UNCHANGED <<clients, server, tools, stolen>>

\* Thirty seconds passed.
Timeout(c) == Waits(c) /\ Settle(c, "error")

-----------------------------------------------------------------------------
(* The servers and skill_mcp_disconnect.                                   *)

\* A server ends, by a signal or by itself ...
Ends(c) ==
    /\ Up(c)
    /\ server' = [server EXCEPT ![c].run = "down"]
    /\ UNCHANGED <<clients, tools, call, stolen>>

\* ... and the plugin gets the exit event; nobody is told who waits for it.
ExitEvent(c) ==
    /\ server[c].run = "down"
    /\ server' = [server EXCEPT ![c].run = "over"]
    /\ Forget(c)
    /\ UNCHANGED <<tools, call>>

Stop(keys) ==
    LET stopped == { clients[k] : k \in keys } IN
    /\ server' = [c \in Calls |-> IF c \in stopped THEN Killed(server[c]) ELSE server[c]]
    /\ clients' = [k \in Keys |-> IF k \in keys THEN NoCall ELSE clients[k]]
    /\ UNCHANGED <<tools, call, stolen>>

Disconnect(skill) ==
    LET keys == { k \in Keys : k[1] = skill /\ clients[k] # NoCall }
    IN  keys # {} /\ Stop(keys)

DisconnectAll == (\E k \in Keys : clients[k] # NoCall) /\ Stop(Keys)

-----------------------------------------------------------------------------
\* Every call has returned.
Rest == (\A c \in Calls : call[c].pc = "done") /\ UNCHANGED vars

Next ==
    \/ \E c \in Calls : \E k \in Asks[c] : Reuse(c, k) \/ Connect(c, k)
    \/ \E c \in Calls : Refuse(c) \/ Data(c) \/ Timeout(c)
    \/ \E c \in Calls : Ends(c) \/ ExitEvent(c)
    \/ \E k \in Keys : Disconnect(k[1])
    \/ DisconnectAll
    \/ Rest

Spec == Init /\ [][Next]_vars

\* Timers run; servers owe nothing.
FairSpec == Spec /\ \A c \in Calls : WF_vars(Timeout(c))

-----------------------------------------------------------------------------
(* Properties.                                                             *)

\* The type invariant.
TypeOK ==
    /\ clients \in [Keys -> Calls \union {NoCall}]
    /\ server \in [Calls -> [run : {"none", "up", "down", "over"}, killed : BOOLEAN,
                             key : Keys \union {NoKey}]]
    /\ tools \in [Calls -> {"unknown", "listed", "empty"}]
    /\ call \in [Calls -> [pc : {"new", "init", "list", "use", "done"},
                           client : Calls \union {NoCall},
                           answers : BOOLEAN]]
    /\ stolen \subseteq Calls

\* A server that runs and was not told to stop can still be found, so that
\* skill_mcp_disconnect reaches it and a second call does not start another one;
\* only one whose entry was removed by the late cleanup of an earlier client of
\* the same key is lost (connectServer, the exit handler, skill_mcp_disconnect).
RunningIsKnown ==
    \A c \in Calls :
       Up(c) /\ ~server[c].killed =>
          clients[server[c].key] = c \/ c \in stolen

\* Every call of skill_mcp returns, also when its server exits without an
\* answer or another call disconnects it (the timer of sendRequest).
CallsReturn == \A c \in Calls : Waits(c) ~> call[c].pc = "done"

=============================================================================
