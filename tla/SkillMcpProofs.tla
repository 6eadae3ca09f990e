--------------------------- MODULE SkillMcpProofs ---------------------------
(***************************************************************************)
(* For any number of calls, skills and servers: the plugin loses a running *)
(* server only by the cleanup of an earlier client of the same key.        *)
(***************************************************************************)
EXTENDS SkillMcp, TLAPS

\* A call that initializes has spawned its server, under a key.
Spawned ==
    \A c \in Calls :
       /\ call[c].pc = "init" => server[c].run # "none"
       /\ server[c].run # "none" => server[c].key \in Keys

Inv == TypeOK /\ RunningIsKnown /\ Spawned

Server == [run : {"none", "up", "down", "over"}, killed : BOOLEAN, key : Keys \union {NoKey}]

-----------------------------------------------------------------------------
LEMMA Numbers == NoCall \notin Calls
  BY DEF NoCall, Calls

\* What Killed leaves of a process.
LEMMA KilledFacts ==
    ASSUME NEW s \in Server
    PROVE  /\ Killed(s) \in Server /\ Killed(s).run = s.run /\ Killed(s).key = s.key
           /\ s.run = "up" => Killed(s).killed
  BY DEF Killed, Server

LEMMA ReturnTypes ==
    ASSUME TypeOK, NEW c \in Calls, Return(c)
    PROVE  call' \in [Calls -> [pc : {"new", "init", "list", "use", "done"},
                                client : Calls \union {NoCall}, answers : BOOLEAN]]
  BY DEF TypeOK, Return, At

LEMMA SendTypes ==
    ASSUME TypeOK, NEW c \in Calls, NEW label \in {"init", "list", "use"},
           NEW client \in Calls \union {NoCall}, NEW up \in BOOLEAN,
           Send(c, label, client, up)
    PROVE  call' \in [Calls -> [pc : {"new", "init", "list", "use", "done"},
                                client : Calls \union {NoCall}, answers : BOOLEAN]]
  BY DEF TypeOK, Send, At

LEMMA ContinueTypes ==
    ASSUME TypeOK, NEW c \in Calls, NEW client \in Calls \union {NoCall}, NEW known,
           Continue(c, client, known)
    PROVE  call' \in [Calls -> [pc : {"new", "init", "list", "use", "done"},
                                client : Calls \union {NoCall}, answers : BOOLEAN]]
<1>1. Up(client) \in BOOLEAN
  BY DEF Up
<1> QED
  BY <1>1, ReturnTypes, SendTypes DEF Continue

\* The entry that a client's cleanup removes was its own, or is remembered.
LEMMA ForgetKnows ==
    ASSUME Inv, NEW c \in Calls, Forget(c), server[c].run # "none"
    PROVE  /\ clients' \in [Keys -> Calls \union {NoCall}] /\ stolen' \subseteq Calls
           /\ \A d \in Calls \ {c} :
                 server[d].run = "up" /\ ~server[d].killed =>
                    clients'[server[d].key] = d \/ d \in stolen'
<1> DEFINE k == server[c].key
<1>1. /\ clients' = [clients EXCEPT ![k] = NoCall]
      /\ stolen' = stolen \union ({clients[k]} \ {c, NoCall})
  BY DEF Forget
<1>2. k \in Keys /\ clients[k] \in Calls \union {NoCall}
  BY DEF Inv, TypeOK, Spawned
<1>3. clients' \in [Keys -> Calls \union {NoCall}] /\ stolen' \subseteq Calls
  BY <1>1, <1>2 DEF Inv, TypeOK
<1>4. ASSUME NEW d \in Calls \ {c}, server[d].run = "up", ~server[d].killed
      PROVE  clients'[server[d].key] = d \/ d \in stolen'
  BY <1>4, <1>1, <1>2, Numbers DEF Inv, TypeOK, RunningIsKnown, Up
<1> QED
  BY <1>3, <1>4

-----------------------------------------------------------------------------
(* One lemma for each kind of step: of the calls, and of the servers.      *)

LEMMA InitInv == Init => Inv
  BY Numbers DEF Init, Inv, TypeOK, RunningIsKnown, Spawned, Up, At

\* Only the program point of a call changes.
LEMMA CallOnly ==
    ASSUME Inv, UNCHANGED <<clients, server, stolen>>,
           tools' \in [Calls -> {"unknown", "listed", "empty"}],
           call' \in [Calls -> [pc : {"new", "init", "list", "use", "done"},
                                client : Calls \union {NoCall}, answers : BOOLEAN]],
           \A c \in Calls : call'[c].pc = "init" => call[c].pc = "init"
    PROVE  Inv'
<1>1. TypeOK'
  BY DEF Inv, TypeOK
<1>2. RunningIsKnown' /\ Spawned'
  BY DEF Inv, RunningIsKnown, Spawned, Up
<1> QED
  BY <1>1, <1>2 DEF Inv

LEMMA ReturnInit == ASSUME TypeOK, NEW c \in Calls, Return(c)
    PROVE  \A d \in Calls : call'[d].pc = "init" => call[d].pc = "init"
  BY DEF TypeOK, Return, At

LEMMA SendInit ==
    ASSUME TypeOK, NEW c \in Calls, NEW label \in {"list", "use"}, NEW client, NEW up,
           Send(c, label, client, up)
    PROVE  \A d \in Calls : call'[d].pc = "init" => call[d].pc = "init"
  BY DEF TypeOK, Send, At

LEMMA ContinueInit ==
    ASSUME TypeOK, NEW c \in Calls, NEW client, NEW known, Continue(c, client, known)
    PROVE  \A d \in Calls : call'[d].pc = "init" => call[d].pc = "init"
  BY ReturnInit, SendInit DEF Continue

LEMMA ConnectStep == ASSUME Inv, NEW c \in Calls, NEW k \in Keys, Connect(c, k) PROVE Inv'
<1>1. /\ ~Usable(k) /\ call[c].pc = "new" /\ UNCHANGED <<tools, stolen>>
      /\ server' = [server EXCEPT ![c] = [run |-> "up", killed |-> FALSE, key |-> k]]
      /\ clients' = [clients EXCEPT ![k] = c]
      /\ Send(c, "init", c, TRUE)
  BY DEF Connect, Arrives
<1>2. [run |-> "up", killed |-> FALSE, key |-> k] \in Server
  BY DEF Server
<1>3. TypeOK'
  BY <1>1, <1>2, SendTypes DEF Inv, TypeOK, Server
<1>4. ASSUME NEW d \in Calls, Up(d)', ~server'[d].killed
      PROVE  clients'[server'[d].key] = d \/ d \in stolen'
  <2>1. CASE d = c
    BY <1>1, <2>1 DEF Inv, TypeOK
  <2>2. CASE d # c
    <3>1. server'[d] = server[d]
      BY <1>1, <2>2 DEF Inv, TypeOK
    <3>2. clients[server[d].key] = d \/ d \in stolen
      BY <1>4, <3>1 DEF Inv, RunningIsKnown, Up
    <3>3. clients[server[d].key] = d => server[d].key # k
      BY <1>1, <1>4, <3>1, Numbers DEF Usable
    <3> QED
      BY <1>1, <3>1, <3>2, <3>3 DEF Inv, TypeOK
  <2> QED
    BY <2>1, <2>2
<1>5. Spawned'
  BY <1>1 DEF Inv, TypeOK, Spawned, Send, At
<1> QED
  BY <1>3, <1>4, <1>5 DEF Inv, RunningIsKnown

LEMMA InitializeFailsStep ==
    ASSUME Inv, NEW c \in Calls, call[c].pc = "init", InitializeFails(c) PROVE Inv'
<1>1. /\ server' = [server EXCEPT ![c] = Killed(server[c])] /\ UNCHANGED tools
      /\ Forget(c) /\ Return(c)
  BY DEF InitializeFails
<1>2. server \in [Calls -> Server]
  BY DEF Inv, TypeOK, Server
<1>3. server' \in [Calls -> Server]
  BY <1>1, <1>2, KilledFacts
<1>4. server[c].run # "none"
  BY DEF Inv, Spawned
<1>5. /\ \A d \in Calls : server'[d].run = server[d].run /\ server'[d].key = server[d].key
      /\ \A d \in Calls \ {c} : server'[d] = server[d]
      /\ server'[c].run = "up" => server'[c].killed
  BY <1>1, <1>2, KilledFacts
<1>6. TypeOK'
  BY <1>1, <1>3, <1>4, ForgetKnows, ReturnTypes DEF Inv, TypeOK, Server
<1>7. RunningIsKnown'
  BY <1>1, <1>4, <1>5, ForgetKnows DEF RunningIsKnown, Up
<1>8. Spawned'
  BY <1>1, <1>5, ReturnInit DEF Inv, Spawned
<1> QED
  BY <1>6, <1>7, <1>8 DEF Inv

LEMMA EndsStep == ASSUME Inv, NEW c \in Calls, Ends(c) PROVE Inv'
<1>1. /\ server' = [server EXCEPT ![c].run = "down"] /\ server[c].run = "up"
      /\ UNCHANGED <<clients, tools, call, stolen>>
  BY DEF Ends, Up
<1>2. TypeOK'
  BY <1>1 DEF Inv, TypeOK
<1>3. RunningIsKnown' /\ Spawned'
  BY <1>1 DEF Inv, TypeOK, RunningIsKnown, Spawned, Up
<1> QED
  BY <1>2, <1>3 DEF Inv

LEMMA ExitEventStep == ASSUME Inv, NEW c \in Calls, ExitEvent(c) PROVE Inv'
<1>1. /\ server' = [server EXCEPT ![c].run = "over"] /\ server[c].run = "down"
      /\ Forget(c) /\ UNCHANGED <<tools, call>>
  BY DEF ExitEvent
<1>2. server[c].run # "none"
  BY <1>1
<1>3. TypeOK'
  BY <1>1, <1>2, ForgetKnows DEF Inv, TypeOK
<1>4. /\ \A d \in Calls \ {c} : server'[d] = server[d]
      /\ server'[c].run = "over" /\ server'[c].key = server[c].key
  BY <1>1 DEF Inv, TypeOK
<1>5. RunningIsKnown'
  BY <1>1, <1>2, <1>4, ForgetKnows DEF RunningIsKnown, Up
<1>6. Spawned'
  BY <1>1, <1>2, <1>4 DEF Inv, Spawned
<1> QED
  BY <1>3, <1>5, <1>6 DEF Inv

LEMMA StopStep == ASSUME Inv, NEW keys \in SUBSET Keys, Stop(keys) PROVE Inv'
<1> DEFINE stopped == { clients[k] : k \in keys }
<1>1. /\ server' = [c \in Calls |-> IF c \in stopped THEN Killed(server[c]) ELSE server[c]]
      /\ clients' = [k \in Keys |-> IF k \in keys THEN NoCall ELSE clients[k]]
      /\ UNCHANGED <<tools, call, stolen>>
  BY DEF Stop
<1>2. server \in [Calls -> Server]
  BY DEF Inv, TypeOK, Server
<1>3. server' \in [Calls -> Server]
  BY <1>1, <1>2, KilledFacts
<1> HIDE DEF stopped
<1>a. ASSUME NEW d \in Calls
      PROVE  server'[d].run = server[d].run /\ server'[d].key = server[d].key
  BY <1>1, <1>2, KilledFacts
<1>b. ASSUME NEW d \in Calls, server'[d].run = "up", ~server'[d].killed
      PROVE  d \notin stopped /\ server'[d] = server[d]
  BY <1>1, <1>2, <1>b, KilledFacts
<1>4. TypeOK'
  BY <1>1, <1>3 DEF Inv, TypeOK, Server
<1>5. ASSUME NEW d \in Calls, Up(d)', ~server'[d].killed
      PROVE  clients'[server'[d].key] = d \/ d \in stolen'
  <2>1. d \notin stopped /\ server'[d] = server[d]
    BY <1>b, <1>5 DEF Up
  <2>2. clients[server[d].key] = d \/ d \in stolen
    BY <1>5, <2>1 DEF Inv, RunningIsKnown, Up
  <2>3. server[d].key \in Keys
    BY <1>5, <2>1 DEF Inv, Spawned, Up
  <2>4. clients[server[d].key] = d => server[d].key \notin keys
    BY <2>1 DEF stopped
  <2> QED
    BY <1>1, <2>1, <2>2, <2>3, <2>4
<1>6. Spawned'
  <2>1. UNCHANGED call
    BY <1>1
  <2> QED
    BY <1>a, <2>1 DEF Inv, Spawned
<1> QED
  BY <1>4, <1>5, <1>6 DEF Inv, RunningIsKnown

-----------------------------------------------------------------------------
LEMMA SettleStep == ASSUME Inv, NEW c \in Calls, NEW answer, Settle(c, answer) PROVE Inv'
<1>0. TypeOK
  BY DEF Inv
<1>1. CASE call[c].pc = "init" /\ InitializeFails(c)
  BY <1>1, InitializeFailsStep
<1>2. CASE Send(c, "list", c, Up(c)) /\ UNCHANGED <<clients, server, tools, stolen>>
  <2>1. Up(c) \in BOOLEAN
    BY DEF Up
  <2> QED
    BY <1>0, <1>2, <2>1, SendTypes, SendInit, CallOnly DEF TypeOK
<1>3. ASSUME NEW known \in {"listed", "empty"}, Connected(c, known) PROVE Inv'
  <2>1. tools' \in [Calls -> {"unknown", "listed", "empty"}]
    BY <1>0, <1>3 DEF TypeOK, Connected
  <2>2. Continue(c, c, known) /\ UNCHANGED <<clients, server, stolen>>
    BY <1>3 DEF Connected
  <2> QED
    BY <1>0, <2>1, <2>2, ContinueTypes, ContinueInit, CallOnly
<1>4. CASE Return(c) /\ UNCHANGED <<clients, server, tools, stolen>>
  BY <1>0, <1>4, ReturnTypes, ReturnInit, CallOnly DEF TypeOK
<1> QED
  BY <1>1, <1>2, <1>3, <1>4 DEF Settle

LEMMA ReuseStep == ASSUME Inv, NEW c \in Calls, NEW k \in Keys, Reuse(c, k) PROVE Inv'
<1>1. /\ Continue(c, clients[k], tools[clients[k]])
      /\ UNCHANGED <<clients, server, tools, stolen>>
  BY DEF Reuse
<1>2. TypeOK /\ clients[k] \in Calls \union {NoCall}
  BY DEF Inv, TypeOK
<1> QED
  BY <1>1, <1>2, ContinueTypes, ContinueInit, CallOnly DEF TypeOK

LEMMA NextInv == Inv /\ [Next]_vars => Inv'
<1> SUFFICES ASSUME Inv, [Next]_vars PROVE Inv'
  OBVIOUS
<1>1. ASSUME NEW c \in Calls, NEW k \in Asks[c], Reuse(c, k) \/ Connect(c, k) PROVE Inv'
  <2>1. k \in Keys
    BY AsksAssumption
  <2> QED
    BY <1>1, <2>1, ReuseStep, ConnectStep
<1>2. ASSUME NEW c \in Calls, Refuse(c) PROVE Inv'
  BY <1>2, ReturnTypes, ReturnInit, CallOnly DEF Refuse, Inv, TypeOK
<1>3. ASSUME NEW c \in Calls, Data(c) \/ Timeout(c) PROVE Inv'
  BY <1>3, SettleStep DEF Data, Timeout
<1>4. ASSUME NEW c \in Calls, Ends(c) \/ ExitEvent(c) PROVE Inv'
  BY <1>4, EndsStep, ExitEventStep
<1>5. ASSUME NEW skill, Disconnect(skill) PROVE Inv'
  BY <1>5, StopStep DEF Disconnect
<1>6. CASE DisconnectAll
  BY <1>6, StopStep DEF DisconnectAll
<1>7. CASE UNCHANGED vars
  BY <1>7 DEF vars, Inv, TypeOK, RunningIsKnown, Spawned, Up
<1>8. CASE Rest
  BY <1>8, <1>7 DEF Rest
<1> QED
  BY <1>1, <1>2, <1>3, <1>4, <1>5, <1>6, <1>7, <1>8 DEF Next

\* A server that runs and was not told to stop is in the Map under its key,
\* unless the cleanup of another client of that key took it out; for any number
\* of calls and keys (RunningIsKnown is inductive but for the types and for
\* Spawned: only a client with a key is ever cleaned up).
THEOREM RunningStaysKnown == Spec => []RunningIsKnown
<1>1. Inv => RunningIsKnown
  BY DEF Inv
<1> QED
  BY <1>1, InitInv, NextInv, PTL DEF Spec

=============================================================================
