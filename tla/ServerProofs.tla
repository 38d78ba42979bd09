---------------------------- MODULE ServerProofs ----------------------------
(***************************************************************************)
(* Proofs about RestApi, for any number of server processes, devices,      *)
(* operators and requests: the types, that operators can go on working     *)
(* over restarts of the server, and that an action for many devices        *)
(* reaches all that it should.                                             *)
(***************************************************************************)
EXTENDS RestApi, TLAPS

\* A process that has loaded its configuration and not failed.
Loaded(s) ==
  stage[s] \in {"open", "admin", "listen", "serving", "closing", "draining"}

\* What each process has read is what the files say: the file was there before it
\* was read and never goes away, its secret changes only with rewritten, and a
\* process listens only when its first user is saved.
ReadIsWritten ==
  /\ \A s \in Servers : stage[s] = "load" \/ Loaded(s) => config # Absent
  /\ ~rewritten => \A s \in Servers :
       Loaded(s) => config \in Text /\ config.secret = cfg[s].secret
  /\ \A s \in Servers :
       stage[s] \in {"listen", "serving", "closing", "draining"} => admin[s]
  /\ \A s \in Servers : admin[s] => usersFile
  /\ port # None => stage[port] \in {"serving", "closing"}

\* What stayed connected is still to be looked up, still to be told, or reached; only
\* a request to one device waits for an answer.
StayedIsReached ==
  \A h \in Handlers :
    /\ ~Free(h) => request[h].srv \in Servers
    /\ request[h].at \in {"collect", "act"} =>
         request[h].stayed \subseteq online[request[h].srv]
    /\ request[h].at = "collect" =>
         request[h].stayed \subseteq request[h].todo \cup request[h].targets
    /\ request[h].at = "act" =>
         request[h].stayed \subseteq request[h].todo \cup request[h].reached
    /\ request[h].at = "wait" => request[h].kind = "ask"

ServerInv == ServerTypeOK /\ ReadIsWritten /\ OperatorsKept

HandlerInv == StayedIsReached /\ BroadcastReaches

-----------------------------------------------------------------------------

\* Nothing runs at first, and there is neither a configuration nor a user.
LEMMA InitServerInv == ApiInit => ServerInv
<1> SUFFICES ASSUME ApiInit PROVE ServerInv
  OBVIOUS
<1> USE DEF ApiInit, LifeInit
<1>1. Default \in Text /\ NoSession \in 0 .. NoSession
  BY SecretAssumption DEF Default, Text, NoSession
<1>2. Idle \in RequestRecord
  BY DEF Idle, RequestRecord, Kinds
<1>3. 0 \in 0 .. MaxSecret /\ FALSE \in BOOLEAN
  BY SecretAssumption
<1>4. /\ cfg \in [Servers -> Text]
      /\ session \in [Operators -> 0 .. NoSession]
      /\ request \in [Handlers -> RequestRecord]
  BY <1>1, <1>2
<1>5. ServerTypeOK
  BY <1>3, <1>4 DEF ServerTypeOK
<1> QED
  BY <1>5 DEF ServerInv, ReadIsWritten, OperatorsKept, Loaded

-----------------------------------------------------------------------------

\* A step of a process keeps the types: what it loads or writes can be parsed.
LEMMA StartTyped ==
  ASSUME ServerTypeOK, NEW s \in Servers,
         \/ Start(s) \/ EnsureConfig(s) \/ WriteTemplate(s) \/ LoadConfig(s)
         \/ OpenStore(s) \/ EnsureDefaultAdmin(s) \/ Listen(s) \/ Shutdown(s),
         UNCHANGED <<session, request>>
  PROVE  ServerTypeOK'
<1> USE DEF ServerTypeOK, Goto, files, agents
<1>1. CASE Start(s)
  BY <1>1 DEF Start
<1>2. CASE EnsureConfig(s)
  BY <1>2 DEF EnsureConfig
<1>3. CASE WriteTemplate(s)
  <2>1. drawn + 1 \in 0 .. MaxSecret
    BY <1>3, SecretAssumption DEF WriteTemplate
  <2>2. [open |-> TRUE, secret |-> drawn + 1] \in Text
    BY <2>1 DEF Text
  <2> QED
    BY <1>3, <2>1, <2>2 DEF WriteTemplate
<1>4. CASE LoadConfig(s)
  <2>1. Default \in Text
    BY SecretAssumption DEF Default, Text
  <2> QED
    BY <1>4, <2>1 DEF LoadConfig
<1>5. CASE OpenStore(s)
  BY <1>5 DEF OpenStore
<1>6. CASE EnsureDefaultAdmin(s)
  BY <1>6 DEF EnsureDefaultAdmin
<1>7. CASE Listen(s)
  BY <1>7 DEF Listen
<1>8. CASE Shutdown(s)
  BY <1>8 DEF Shutdown
<1> QED
  BY <1>1, <1>2, <1>3, <1>4, <1>5, <1>6, <1>7, <1>8

\* A process reads only what is written, and writes nothing that another has read.
LEMMA StartKept ==
  ASSUME ServerInv, NEW s \in Servers,
         \/ Start(s) \/ EnsureConfig(s) \/ WriteTemplate(s) \/ LoadConfig(s)
         \/ OpenStore(s) \/ EnsureDefaultAdmin(s) \/ Listen(s) \/ Shutdown(s),
         UNCHANGED <<session, request>>
  PROVE  ReadIsWritten' /\ OperatorsKept'
<1> USE FileAssumption, NobodyAssumption
        DEF ServerInv, ServerTypeOK, ReadIsWritten, OperatorsKept, Loaded, Goto, files, agents
<1>1. CASE Start(s)
  BY <1>1 DEF Start
<1>2. CASE EnsureConfig(s)
  BY <1>2 DEF EnsureConfig
<1>3. CASE WriteTemplate(s)
  <2>1. ~rewritten' => config = Absent /\ ~rewritten
    BY <1>3 DEF WriteTemplate
  <2>2. ~rewritten' => \A r \in Servers : ~Loaded(r)'
    BY <1>3, <2>1 DEF WriteTemplate
  <2>3. ~rewritten' => \A o \in Operators : session'[o] = NoSession
    BY <1>3, <2>1 DEF WriteTemplate
  <2>4. config' # Absent
    <3>1. config' \in Text
      <4>1. drawn + 1 \in 0 .. MaxSecret
        BY <1>3, SecretAssumption DEF WriteTemplate
      <4> QED
        BY <1>3, <4>1 DEF WriteTemplate, Text
    <3> QED
      BY <3>1
  <2>5. OperatorsKept'
    BY <1>3, <2>3 DEF WriteTemplate
  <2>6. ReadIsWritten'
    BY <1>3, <2>2, <2>4 DEF WriteTemplate
  <2> QED
    BY <2>5, <2>6
<1>4. CASE LoadConfig(s)
  BY <1>4 DEF LoadConfig
<1>5. CASE OpenStore(s)
  BY <1>5 DEF OpenStore
<1>6. CASE EnsureDefaultAdmin(s)
  BY <1>6 DEF EnsureDefaultAdmin
<1>7. CASE Listen(s)
  BY <1>7 DEF Listen
<1>8. CASE Shutdown(s)
  BY <1>8 DEF Shutdown
<1> QED
  BY <1>1, <1>2, <1>3, <1>4, <1>5, <1>6, <1>7, <1>8

\* The end of a process may leave a template behind, but only where none was read.
LEMMA EndKept ==
  ASSUME ServerInv, NEW s \in Servers, ServerEnds(s)
  PROVE  ServerInv'
<1> USE DEF ServerInv, ServerTypeOK, ServerEnds, End, Goto
<1>1. /\ Default \in Text
      /\ Cuts \subseteq Text \cup {Broken}
      /\ Absent \notin Cuts
  <2>1. Default \in Text /\ [open |-> TRUE, secret |-> 0] \in Text
    BY SecretAssumption DEF Default, Text
  <2> QED
    BY <2>1, FileAssumption DEF Cuts
<1>2. Idle \in RequestRecord
  BY DEF Idle, RequestRecord, Kinds
<1>3. config' \in Text \cup {Absent, Broken} /\ (config # Absent => config' # Absent)
  BY <1>1
<1>4. request' \in [Handlers -> RequestRecord]
  BY <1>2
<1>5. ServerTypeOK'
  BY <1>1, <1>3, <1>4
<1>6. ReadIsWritten'
  BY <1>3, NobodyAssumption, FileAssumption DEF ReadIsWritten, Loaded
<1>7. OperatorsKept'
  BY <1>3, NobodyAssumption, FileAssumption DEF ReadIsWritten, OperatorsKept, Loaded
<1> QED
  BY <1>5, <1>6, <1>7

-----------------------------------------------------------------------------

\* What each step does to a request is a record of a request.
LEMMA LeavesTyped ==
  ASSUME ServerTypeOK, NEW s, NEW ds, Leaves(s, ds)
  PROVE  request' \in [Handlers -> RequestRecord]
  BY DEF ServerTypeOK, Leaves, RequestRecord

LEMMA RequestTyped ==
  ASSUME ServerTypeOK, NEW h \in Handlers, Request(h)
  PROVE  request' \in [Handlers -> RequestRecord] /\ UNCHANGED <<lifeVars, session>>
<1> USE DEF ServerTypeOK, RequestRecord
<1>1. ASSUME NEW o \in Operators, NEW s \in Servers, NEW kind \in Kinds,
             NEW ids \in SUBSET Devices, Begin(h, o, s, kind, ids)
      PROVE  request' \in [Handlers -> RequestRecord] /\ UNCHANGED <<lifeVars, session>>
  BY <1>1 DEF Begin
<1>2. ASSUME NEW d \in Devices, Collect(h, d)
      PROVE  request' \in [Handlers -> RequestRecord] /\ UNCHANGED <<lifeVars, session>>
  <2> DEFINE one == [request[h] EXCEPT !.todo = @ \ {d},
                       !.targets = IF d \in online[request[h].srv] THEN @ \cup {d} ELSE @]
  <2>1. one \in RequestRecord
    OBVIOUS
  <2>2. request' = [request EXCEPT ![h] = one]
    BY <1>2 DEF Collect, IsOnline
  <2> QED
    BY <1>2, <2>1, <2>2 DEF Collect, IsOnline
<1>3. ASSUME NEW d \in Devices, Tell(h, d)
      PROVE  request' \in [Handlers -> RequestRecord] /\ UNCHANGED <<lifeVars, session>>
  <2> DEFINE one == [request[h] EXCEPT !.todo = @ \ {d}, !.reached = @ \cup {d}]
  <2>1. one \in RequestRecord
    OBVIOUS
  <2>2. request' = [request EXCEPT ![h] = one]
    BY <1>3 DEF Tell
  <2> QED
    BY <1>3, <2>1, <2>2 DEF Tell
<1>4. ASSUME NEW d \in Devices, PassOver(h, d)
      PROVE  request' \in [Handlers -> RequestRecord] /\ UNCHANGED <<lifeVars, session>>
  BY <1>4 DEF PassOver, Told
<1>5. CASE Collected(h)
  <2> DEFINE one == [request[h] EXCEPT
                       !.at = IF request[h].kind = "look" THEN "done" ELSE "act",
                       !.todo = request[h].targets]
  <2>1. one \in RequestRecord
    OBVIOUS
  <2>2. request' = [request EXCEPT ![h] = one]
    BY <1>5 DEF Collected
  <2> QED
    BY <1>5, <2>1, <2>2 DEF Collected
<1>6. CASE Acted(h)
  BY <1>6 DEF Acted
<1>7. CASE Answered(h)
  BY <1>7 DEF Answered
<1>8. CASE Respond(h)
  BY <1>8 DEF Respond, Idle, Kinds
<1> QED
  BY <1>1, <1>2, <1>3, <1>4, <1>5, <1>6, <1>7, <1>8 DEF Request

-----------------------------------------------------------------------------

\* Every step of a process, an agent, an operator or a request keeps the types
\* and what was read equal to what is written.
LEMMA NextServerInv == ServerInv /\ [ApiNext]_apiVars => ServerInv'
<1> SUFFICES ASSUME ServerInv, [ApiNext]_apiVars PROVE ServerInv'
  OBVIOUS
<1>1. ASSUME NEW s \in Servers, ServerStep(s) PROVE ServerInv'
  <2>1. CASE /\ \/ Start(s) \/ EnsureConfig(s) \/ WriteTemplate(s) \/ LoadConfig(s)
                \/ OpenStore(s) \/ EnsureDefaultAdmin(s) \/ Listen(s) \/ Shutdown(s)
             /\ UNCHANGED <<session, request>>
    BY <2>1, StartTyped, StartKept DEF ServerInv
  <2>2. CASE CloseAll(s) /\ Leaves(s, Devices) /\ UNCHANGED session
    <3>1. request' \in [Handlers -> RequestRecord]
      BY <2>2, LeavesTyped DEF ServerInv
    <3>2. ServerTypeOK'
      BY <2>2, <3>1 DEF ServerInv, ServerTypeOK, CloseAll, Goto, files
    <3> QED
      BY <2>2, <3>2, NobodyAssumption
         DEF ServerInv, ServerTypeOK, ReadIsWritten, OperatorsKept, Loaded, CloseAll,
             Goto, files
  <2> QED
    BY <1>1, <2>1, <2>2 DEF ServerStep
<1>2. ASSUME NEW s \in Servers, ServerEnds(s) PROVE ServerInv'
  BY <1>2, EndKept
<1>3. ASSUME NEW s \in Servers, NEW d \in Devices, AgentComes(s, d) PROVE ServerInv'
  BY <1>3 DEF AgentComes, Connect, ServerInv, ServerTypeOK, ReadIsWritten,
              OperatorsKept, Loaded, files
<1>4. ASSUME NEW s \in Servers, NEW d \in Devices, AgentGoes(s, d) PROVE ServerInv'
  <2>1. request' \in [Handlers -> RequestRecord]
    BY <1>4, LeavesTyped DEF ServerInv, AgentGoes
  <2> QED
    BY <1>4, <2>1 DEF AgentGoes, Cut, ServerInv, ServerTypeOK, ReadIsWritten,
                      OperatorsKept, Loaded, files
<1>5. ASSUME NEW o \in Operators, NEW s \in Servers, Login(o, s) PROVE ServerInv'
  <2> USE DEF Login, Issue, SaveUser, FindUser
  <2>1. cfg[s].secret \in 0 .. NoSession
    BY SecretAssumption DEF ServerInv, ServerTypeOK, Text, NoSession
  <2>2. Loaded(s)
    BY <1>5, NobodyAssumption DEF Listening, ServerInv, ReadIsWritten, Loaded
  <2>3. usersFile = TRUE
    BY <1>5 DEF ServerInv, ServerTypeOK, ReadIsWritten
  <2>4. UNCHANGED usersFile
    BY <1>5, <2>3
  <2>5. ServerTypeOK'
    BY <1>5, <2>1, <2>4 DEF ServerInv, ServerTypeOK, agents
  <2>6. ReadIsWritten'
    BY <1>5, <2>4 DEF ServerInv, ServerTypeOK, ReadIsWritten, Loaded, agents
  <2>7. OperatorsKept'
    BY <1>5, <2>2, <2>4
       DEF ServerInv, ServerTypeOK, ReadIsWritten, OperatorsKept, agents
  <2> QED
    BY <2>5, <2>6, <2>7 DEF ServerInv
<1>6. ASSUME NEW o \in Operators, NEW s \in Servers, NEW d \in Devices, Delete(o, s, d)
      PROVE  ServerInv'
  BY <1>6 DEF Delete, ServerInv, ServerTypeOK, ReadIsWritten, OperatorsKept, Loaded, files
<1>7. ASSUME NEW o \in Operators, Logout(o) PROVE ServerInv'
  <2>1. NoSession \in 0 .. NoSession
    BY SecretAssumption DEF NoSession
  <2> QED
    BY <1>7, <2>1 DEF Logout, ServerInv, ServerTypeOK, ReadIsWritten, OperatorsKept,
                      Loaded, lifeVars, files, agents
<1>8. ASSUME NEW h \in Handlers, Request(h) PROVE ServerInv'
  <2>1. request' \in [Handlers -> RequestRecord] /\ UNCHANGED <<lifeVars, session>>
    BY <1>8, RequestTyped DEF ServerInv
  <2> QED
    BY <2>1 DEF ServerInv, ServerTypeOK, ReadIsWritten, OperatorsKept, Loaded,
                lifeVars, files, agents
<1>9. CASE UNCHANGED apiVars
  BY <1>9 DEF apiVars, ServerInv, ServerTypeOK, ReadIsWritten, OperatorsKept, Loaded,
              lifeVars, files, agents
<1> QED
  BY <1>1, <1>2, <1>3, <1>4, <1>5, <1>6, <1>7, <1>8, <1>9 DEF ApiNext

-----------------------------------------------------------------------------

\* Without a request there is nobody to be reached.
LEMMA InitHandlerInv == ApiInit => HandlerInv
  BY DEF ApiInit, HandlerInv, StayedIsReached, BroadcastReaches, Free, Idle

\* Whoever loses its connection is taken out of stayed in the same step.
LEMMA LeavesKeeps ==
  ASSUME ServerTypeOK, HandlerInv, NEW s \in Servers, NEW ds, Leaves(s, ds),
         online' = [online EXCEPT ![s] = @ \ ds]
  PROVE  HandlerInv'
<1> USE DEF ServerTypeOK, HandlerInv, StayedIsReached, BroadcastReaches, Free,
            Leaves, RequestRecord
<1>1. \A h \in Handlers :
        /\ request'[h].srv = request[h].srv
        /\ request'[h].kind = request[h].kind
        /\ request'[h].at = request[h].at
        /\ request'[h].todo = request[h].todo
        /\ request'[h].targets = request[h].targets
        /\ request'[h].reached = request[h].reached
        /\ request'[h].stayed =
             request[h].stayed \ (IF request[h].srv = s THEN ds ELSE {})
  OBVIOUS
<1>2. \A r \in Servers : online'[r] = online[r] \ (IF r = s THEN ds ELSE {})
  OBVIOUS
<1> QED
  BY <1>1, <1>2

\* A request looks up and tells device after device, and passes over only those
\* that have left.
LEMMA RequestKeeps ==
  ASSUME ServerTypeOK, HandlerInv, NEW h \in Handlers, Request(h)
  PROVE  HandlerInv'
<1>0. UNCHANGED online
  BY RequestTyped DEF lifeVars, agents
<1> USE <1>0 DEF ServerTypeOK, HandlerInv, StayedIsReached, BroadcastReaches, Free, Told,
                 RequestRecord
<1>1. ASSUME NEW o \in Operators, NEW s \in Servers, NEW kind \in Kinds,
             NEW ids \in SUBSET Devices, Begin(h, o, s, kind, ids)
      PROVE  HandlerInv'
  BY <1>1 DEF Begin
<1>2. ASSUME NEW d \in Devices, Collect(h, d) PROVE HandlerInv'
  BY <1>2 DEF Collect, IsOnline
<1>3. ASSUME NEW d \in Devices, Tell(h, d) PROVE HandlerInv'
  BY <1>3 DEF Tell
<1>4. ASSUME NEW d \in Devices, PassOver(h, d) PROVE HandlerInv'
  BY <1>4 DEF PassOver
<1>5. CASE Collected(h)
  BY <1>5 DEF Collected
<1>6. CASE Acted(h)
  BY <1>6 DEF Acted
<1>7. CASE Answered(h)
  BY <1>7 DEF Answered
<1>8. CASE Respond(h)
  BY <1>8 DEF Respond, Idle
<1> QED
  BY <1>1, <1>2, <1>3, <1>4, <1>5, <1>6, <1>7, <1>8 DEF Request

\* A connection is lost only with Leaves, and with the process its requests go.
LEMMA NextHandlerInv == ServerTypeOK /\ HandlerInv /\ [ApiNext]_apiVars => HandlerInv'
<1> SUFFICES ASSUME ServerTypeOK, HandlerInv, [ApiNext]_apiVars PROVE HandlerInv'
  OBVIOUS
<1>1. ASSUME NEW s \in Servers, ServerStep(s) PROVE HandlerInv'
  <2>1. CASE UNCHANGED <<online, request>>
    BY <2>1 DEF HandlerInv, StayedIsReached, BroadcastReaches, Free
  <2>2. CASE CloseAll(s) /\ Leaves(s, Devices)
    <3>1. online' = [online EXCEPT ![s] = @ \ Devices]
      BY <2>2 DEF ServerTypeOK, CloseAll
    <3> QED
      BY <2>2, <3>1, LeavesKeeps
  <2> QED
    BY <1>1, <2>1, <2>2
       DEF ServerStep, Start, EnsureConfig, WriteTemplate, LoadConfig, OpenStore,
           EnsureDefaultAdmin, Listen, Shutdown, agents
<1>2. ASSUME NEW s \in Servers, ServerEnds(s) PROVE HandlerInv'
  BY <1>2 DEF ServerTypeOK, ServerEnds, End, HandlerInv, StayedIsReached,
              BroadcastReaches, Free, Idle
<1>3. ASSUME NEW s \in Servers, NEW d \in Devices, AgentComes(s, d) PROVE HandlerInv'
  BY <1>3 DEF ServerTypeOK, AgentComes, Connect, HandlerInv, StayedIsReached,
              BroadcastReaches, Free
<1>4. ASSUME NEW s \in Servers, NEW d \in Devices, AgentGoes(s, d) PROVE HandlerInv'
  BY <1>4, LeavesKeeps DEF AgentGoes, Cut
<1>5. ASSUME NEW o \in Operators, NEW s \in Servers, Login(o, s) PROVE HandlerInv'
  BY <1>5 DEF Login, agents, HandlerInv, StayedIsReached, BroadcastReaches, Free
<1>6. ASSUME NEW o \in Operators, NEW s \in Servers, NEW d \in Devices, Delete(o, s, d)
      PROVE  HandlerInv'
  BY <1>6 DEF Delete, HandlerInv, StayedIsReached, BroadcastReaches, Free
<1>7. ASSUME NEW o \in Operators, Logout(o) PROVE HandlerInv'
  BY <1>7 DEF Logout, lifeVars, agents, HandlerInv, StayedIsReached, BroadcastReaches, Free
<1>8. ASSUME NEW h \in Handlers, Request(h) PROVE HandlerInv'
  BY <1>8, RequestKeeps
<1>9. CASE UNCHANGED apiVars
  BY <1>9 DEF apiVars, lifeVars, agents, HandlerInv, StayedIsReached, BroadcastReaches, Free
<1> QED
  BY <1>1, <1>2, <1>3, <1>4, <1>5, <1>6, <1>7, <1>8, <1>9 DEF ApiNext

-----------------------------------------------------------------------------

\* The invariants hold in every state of every execution.
THEOREM ServerInvariant == ApiSpec => []ServerInv
  BY InitServerInv, NextServerInv, PTL DEF ApiSpec

\* The invariant of the handlers holds in every state of every execution.
THEOREM HandlerInvariant == ApiSpec => []HandlerInv
<1>1. ServerInv => ServerTypeOK
  BY DEF ServerInv
<1> QED
  BY <1>1, ServerInvariant, InitHandlerInv, NextHandlerInv, PTL DEF ApiSpec

\* Every variable keeps its type; a server never runs with a configuration that
\* could not be parsed.
THEOREM ServerTypeCorrect == ApiSpec => []ServerTypeOK
<1>1. ServerInv => ServerTypeOK
  BY DEF ServerInv
<1> QED
  BY <1>1, ServerInvariant, PTL

\* Whatever ends a server process, and whichever is started next, a server that
\* listens has its first user, in memory and on disk, and the tokens it has signed
\* are those of config.yaml (setup.go:54-71, bootstrap.go:21-40).
THEOREM ServerKeepsOperators == ApiSpec => []OperatorsKept
<1>1. ServerInv => OperatorsKept
  BY DEF ServerInv
<1> QED
  BY <1>1, ServerInvariant, PTL

\* An action for many devices reaches each of them that was stored when it began
\* and connected all the while, whatever other devices do (devices.go:170-235).
THEOREM ServerBroadcastReaches == ApiSpec => []BroadcastReaches
<1>1. HandlerInv => BroadcastReaches
  BY DEF HandlerInv
<1> QED
  BY <1>1, HandlerInvariant, PTL
=============================================================================
