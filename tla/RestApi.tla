------------------------------ MODULE RestApi ------------------------------
(***************************************************************************)
(* The REST API of the server: sessions of operators and the handlers of   *)
(* their requests, over the life of the server process (ServerLife).  A    *)
(* handler runs in a goroutine of its own, device after device, while      *)
(* agents come and go and the server stops.                                *)
(***************************************************************************)
EXTENDS ServerLife

CONSTANTS Handlers,   \* requests in flight
          Operators   \* browsers

VARIABLES
  session,   \* the secret that signed the token of each operator
  request    \* what each handler is doing

apiVars == <<lifeVars, session, request>>

NoSession == MaxSecret + 1

\* The routes behind mw.API.  "ask" waits for the answer of one device (proxy,
\* Screenshot, FSDownload, FSUpload), "tell" does not (Power, Message), "tellAll"
\* is PowerAll and MessageAll, "look" ListDevices, GetDevice, Stats and Wake.
Kinds == {"ask", "tell", "tellAll", "look"}

\* todo: the devices still to be examined or told; reached: those whose queue took
\* the message; stayed: stored and connected ever since the request began.
Idle == [kind |-> "none", srv |-> None, at |-> "idle", todo |-> {}, targets |-> {},
         reached |-> {}, stayed |-> {}]

Free(h) == request[h].at = "idle"
InFlight(s) == {h \in Handlers : request[h].srv = s}

ApiInit ==
  /\ LifeInit
  /\ session = [o \in Operators |-> NoSession]
  /\ request = [h \in Handlers |-> Idle]

\* Whoever loses its connection has not stayed.
Leaves(s, ds) ==
  request' = [h \in Handlers |-> IF request[h].srv = s
                                 THEN [request[h] EXCEPT !.stayed = @ \ ds]
                                 ELSE request[h]]

-----------------------------------------------------------------------------
(* Sessions.                                                               *)

\* GetByUsername looks in the memory of the process.
FindUser(s) == admin[s]

\* Save writes the users of the memory, with this one, to the file, or fails.
SaveUser == usersFile' \in {usersFile, TRUE}

\* A token is known by the secret that signed it; the secret is all that is asked
\* of one.  Its time is over with a Logout.
Issue(s) == cfg[s].secret
Verify(token, s) == token = cfg[s].secret

\* A user is found and its password right: it gets a token, and the user is saved
\* with the time of its login; a failure to save is only logged.
Login(o, s) ==
  /\ Listening(s)
  /\ FindUser(s)
  /\ session' = [session EXCEPT ![o] = Issue(s)]
  /\ SaveUser
  /\ UNCHANGED <<config, drawn, stage, cfg, admin, port, agents, rewritten, request>>

\* The cookie is deleted, or its time is over.
Logout(o) ==
  /\ session' = [session EXCEPT ![o] = NoSession]
  /\ UNCHANGED <<lifeVars, request>>

\* authenticate
Authenticated(o, s) == Verify(session[o], s)

-----------------------------------------------------------------------------
(* Requests.                                                               *)

\* A request without ids is meant for all devices, one with ids for those.
Begin(h, o, s, kind, ids) ==
  /\ Free(h)
  /\ Listening(s)
  /\ Authenticated(o, s)
  /\ kind \in {"ask", "tell"} => Cardinality(ids) = 1
  /\ kind = "look" => ids = {}
  /\ LET all == ids = {}
     IN request' = [request EXCEPT ![h] =
          [kind |-> kind, srv |-> s,
           at |-> IF all THEN "collect" ELSE "act",
           todo |-> IF all THEN stored ELSE ids,
           targets |-> {}, reached |-> {},
           stayed |-> online[s] \cap (IF all THEN stored ELSE ids)]]
  /\ UNCHANGED <<lifeVars, session>>

\* Hub.IsOnline
IsOnline(s, d) == d \in online[s]

\* targetIDs: of the devices that were stored it takes those that are online, each
\* at its own time.
Collect(h, d) ==
  LET s == request[h].srv
  IN /\ request[h].at = "collect"
     /\ d \in request[h].todo
     /\ request' = [request EXCEPT
          ![h].todo = @ \ {d},
          ![h].targets = IF IsOnline(s, d) THEN @ \cup {d} ELSE @]
     /\ UNCHANGED <<lifeVars, session>>

Collected(h) ==
  /\ request[h].at = "collect"
  /\ request[h].todo = {}
  /\ request' = [request EXCEPT
       ![h].at = IF request[h].kind = "look" THEN "done" ELSE "act",
       ![h].todo = request[h].targets]
  /\ UNCHANGED <<lifeVars, session>>

\* Notify, or the sending half of Request: a device that is not connected is passed
\* over; one whose queue is full is cut.
Told(h, d) ==
  /\ request[h].at = "act"
  /\ d \in request[h].todo

Tell(h, d) ==
  /\ Told(h, d)
  /\ d \in online[request[h].srv]
  /\ request' = [request EXCEPT ![h].todo = @ \ {d}, ![h].reached = @ \cup {d}]
  /\ UNCHANGED <<lifeVars, session>>

\* Fault: the loop ends at the first device that is not connected.
PassOverAll(h, d) ==
  /\ Told(h, d)
  /\ d \notin online[request[h].srv]
  /\ request' = [request EXCEPT ![h].todo = {}]
  /\ UNCHANGED <<lifeVars, session>>

PassOver(h, d) ==
  /\ Told(h, d)
  /\ d \notin online[request[h].srv]
  /\ request' = [request EXCEPT ![h].todo = @ \ {d}]
  /\ UNCHANGED <<lifeVars, session>>

\* DeleteDevice removes the device, at once; its connection goes on.
Delete(o, s, d) ==
  /\ Listening(s)
  /\ Authenticated(o, s)
  /\ d \in stored
  /\ stored' = stored \ {d}
  /\ UNCHANGED <<files, stage, cfg, admin, port, online, rewritten, session, request>>

Acted(h) ==
  /\ request[h].at = "act"
  /\ request[h].todo = {}
  /\ request' = [request EXCEPT ![h].at =
       IF request[h].kind = "ask" /\ request[h].reached # {} THEN "wait" ELSE "done"]
  /\ UNCHANGED <<lifeVars, session>>

\* The answer of the agent comes, or the time of the request is over.
Answered(h) ==
  /\ request[h].at = "wait"
  /\ request' = [request EXCEPT ![h].at = "done"]
  /\ UNCHANGED <<lifeVars, session>>

Respond(h) ==
  /\ request[h].at = "done"
  /\ request' = [request EXCEPT ![h] = Idle]
  /\ UNCHANGED <<lifeVars, session>>

-----------------------------------------------------------------------------
(* The server and the agents, as requests meet them.                       *)

ServerStep(s) ==
  \/ /\ \/ Start(s) \/ EnsureConfig(s) \/ WriteTemplate(s) \/ LoadConfig(s)
        \/ OpenStore(s) \/ EnsureDefaultAdmin(s) \/ Listen(s) \/ Shutdown(s)
     /\ UNCHANGED <<session, request>>
  \/ /\ CloseAll(s)
     /\ Leaves(s, Devices)
     /\ UNCHANGED session

\* Shutdown returns when no request is left, or after ten seconds; then the process
\* ends, and requests that are left with it.  So they do when it is killed.
ServerEnds(s) ==
  /\ End(s)
  /\ request' = [h \in Handlers |-> IF request[h].srv = s THEN Idle ELSE request[h]]
  /\ UNCHANGED session

AgentComes(s, d) == Connect(s, d) /\ UNCHANGED <<session, request>>

AgentGoes(s, d) == Cut(s, d) /\ Leaves(s, {d}) /\ UNCHANGED session

Request(h) ==
  \/ \E o \in Operators, s \in Servers, kind \in Kinds, ids \in SUBSET Devices :
       Begin(h, o, s, kind, ids)
  \/ \E d \in Devices : Collect(h, d) \/ Tell(h, d) \/ PassOver(h, d)
  \/ Collected(h) \/ Acted(h) \/ Answered(h) \/ Respond(h)

ApiNext ==
  \/ \E s \in Servers :
       \/ ServerStep(s) \/ ServerEnds(s)
       \/ \E d \in Devices : AgentComes(s, d) \/ AgentGoes(s, d)
       \/ \E o \in Operators : Login(o, s) \/ \E d \in Devices : Delete(o, s, d)
  \/ \E o \in Operators : Logout(o)
  \/ \E h \in Handlers : Request(h)

ApiSpec == ApiInit /\ [][ApiNext]_apiVars

-----------------------------------------------------------------------------
(* Properties.                                                             *)

RequestRecord == [kind : Kinds \cup {"none"}, srv : Servers \cup {None},
                  at : {"idle", "collect", "act", "wait", "done"},
                  todo : SUBSET Devices, targets : SUBSET Devices,
                  reached : SUBSET Devices, stayed : SUBSET Devices]

ServerTypeOK ==
  /\ config \in Text \cup {Absent, Broken}
  /\ drawn \in 0 .. MaxSecret
  /\ usersFile \in BOOLEAN
  /\ stage \in [Servers -> {"off", "ensure", "template", "told", "load", "open", "admin",
                            "listen", "serving", "closing", "draining", "failed"}]
  /\ cfg \in [Servers -> Text]
  /\ admin \in [Servers -> BOOLEAN]
  /\ port \in Servers \cup {None}
  /\ stored \subseteq Devices
  /\ online \in [Servers -> SUBSET Devices]
  /\ rewritten \in BOOLEAN
  /\ session \in [Operators -> 0 .. NoSession]
  /\ request \in [Handlers -> RequestRecord]

\* Operators can work: a server that listens has a user that can log in, on disk as
\* well, and the token of an operator outlives every end of the server, however the
\* process ended and whichever is next, as long as two first starts have not
\* written a configuration each (main.go:47-108, setup.go:54-71).
OperatorsKept ==
  /\ port # None => admin[port] /\ usersFile
  /\ ~rewritten => \A o \in Operators :
       session[o] # NoSession => config \in Text /\ config.secret = session[o]

\* An action for many devices reaches every device that is stored when it begins
\* and connected all the while, although the targets are looked up and told one
\* after the other (devices.go:170-207, 228-234).
BroadcastReaches ==
  \A h \in Handlers :
    request[h].at = "done" /\ request[h].kind = "tellAll" =>
      request[h].stayed \subseteq request[h].reached
=============================================================================
