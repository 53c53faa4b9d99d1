-------------------------------- MODULE Apps --------------------------------
(***************************************************************************)
(* Applications: a row, and a container the engine knows by a name made of *)
(* the row's id.  A request reads the row, talks to the engine for as long *)
(* as minutes, and then commits the columns it changed: the session writes *)
(* only what differs from what it read, wherever the row stands by then.   *)
(* The engine is a second truth; nothing but the requests compares them.   *)
(***************************************************************************)
EXTENDS Naturals, FiniteSets

CONSTANTS
    Apps,           \* each could be created once
    AppCalls,       \* requests under way
    Ports,          \* app_port_first .. app_port_last
    NoRow, Gone,    \* before there is a row, and after
    NoId, NoPort,
    MaxRuns,        \* bound: containers started in all
    MaxFaults       \* bound: restarts, engine timeouts, exits of a container

VARIABLES
    app,            \* rows: state, container, port
    engine,         \* per name: the container, its id, whether it is up, its port
    request,        \* where a request stands, and the row as it read it
    settled,        \* history: apps whose last change was made by one request alone
    runs, faults

appVars == <<app, engine, request, settled, runs, faults>>

ApplicationRows == [state : {"stopped", "running", "failed"},
                    container : (0..MaxRuns) \union {NoId}, port : Ports \union {NoPort}]
NoContainer == [id |-> NoId, up |-> FALSE, port |-> NoPort]
Free        == [at |-> "free"]
Exists(a)   == app[a] \notin {NoRow, Gone}
At(c, s)    == request[c].at = s
About(c)    == request[c].app
Seen(c)     == request[c].seen
Asking(what, a, row, met) ==
    [at |-> what, app |-> a, seen |-> row, met |-> met, id |-> NoId, found |-> "none"]
Row(state, id, port) == [state |-> state, container |-> id, port |-> port]
On(a)       == {c \in AppCalls : ~At(c, "free") /\ About(c) = a}
Moves(c, s) == request' = [request EXCEPT ![c].at = s]
Closes(c)   == request' = [request EXCEPT ![c] = Free]

\* A request that was alone from its first step to its last settles the app.
Alone(c)    == On(About(c)) = {c} /\ ~request[c].met
Settle(c)   == settled' = IF Alone(c) THEN settled \union {About(c)} ELSE settled \ {About(c)}
Fault(a)    == faults < MaxFaults /\ faults' = faults + 1 /\ settled' = settled \ {a}

\* A commit of the session: the columns that differ from what was read.  No
\* row is left to update when it was deleted meanwhile.
Commit(c, state, id) ==
    LET a == About(c) IN
    app' = IF ~Exists(a) THEN app
           ELSE [app EXCEPT ![a] = Row(IF state = Seen(c).state THEN @.state ELSE state,
                                       IF id = Seen(c).container THEN @.container ELSE id, @.port)]

Init ==
    /\ app = [a \in Apps |-> NoRow] /\ engine = [a \in Apps |-> NoContainer]
    /\ request = [c \in AppCalls |-> Free]
    /\ settled = {} /\ runs = 0 /\ faults = 0

\* Mutant: a port is free again as soon as its application does not run.
FreeOfRunning == {p \in Ports : \A a \in Apps : ~Exists(a) \/ app[a].state # "running" \/ app[a].port # p}

FreePorts == {p \in Ports : \A a \in Apps : ~Exists(a) \/ app[a].port # p}

\* _free_port: the first of the range, as the rows stand when it asks.
_free_port(p) == p \in FreePorts /\ \A q \in FreePorts : p <= q

create(c, a) ==
    /\ At(c, "free") /\ app[a] = NoRow /\ On(a) = {}
    /\ \E p \in Ports \union {NoPort} :
          /\ p # NoPort => _free_port(p)
          /\ request' = [request EXCEPT ![c] =
                Asking("insert", a, Row("stopped", NoId, p), FALSE)]
    /\ UNCHANGED <<app, engine, settled, runs, faults>>

insert(c) ==
    /\ At(c, "insert") /\ Closes(c)
    /\ app' = [app EXCEPT ![About(c)] = Seen(c)]
    /\ Settle(c) /\ UNCHANGED <<engine, runs, faults>>

\* The row is read by scope.allowed, and the first word goes to the engine.
_allowed(c, a, what) ==
    /\ At(c, "free") /\ Exists(a)
    /\ request' = [d \in AppCalls |->
          IF d = c THEN Asking(what, a, app[a], On(a) # {})
          ELSE IF d \in On(a) THEN [request[d] EXCEPT !.met = TRUE] ELSE request[d]]
    /\ settled' = IF what = "refresh" THEN settled ELSE settled \ {a}
    /\ UNCHANGED <<app, engine, runs, faults>>

start_application(c, a)  == _allowed(c, a, "start")
stop_application(c, a)   == _allowed(c, a, "stop")
delete_application(c, a) == _allowed(c, a, "delete")
read_application(c, a)   == _allowed(c, a, "refresh")

\* Mutant: only a container the row names is removed.
ForgetWhatIsNoted(c) ==
    /\ request[c].at \in {"start", "stop", "delete"}
    /\ engine' = IF Seen(c).container = NoId THEN engine
                 ELSE [engine EXCEPT ![About(c)] = NoContainer]
    /\ Moves(c, CASE At(c, "start") -> "run" [] At(c, "stop") -> "stopped" [] OTHER -> "gone")
    /\ UNCHANGED <<app, settled, runs, faults>>

\* rm --force by name; an engine that does not answer is not told apart from
\* one that had nothing to remove.
_forget_container(c) ==
    /\ request[c].at \in {"start", "stop", "delete"}
    /\ \/ engine' = [engine EXCEPT ![About(c)] = NoContainer] /\ UNCHANGED <<settled, faults>>
          /\ Moves(c, CASE At(c, "start") -> "run" [] At(c, "stop") -> "stopped" [] OTHER -> "gone")
       \/ engine[About(c)] # NoContainer /\ Fault(About(c)) /\ UNCHANGED engine
          /\ request' = [request EXCEPT ![c].met = TRUE,
                ![c].at = CASE At(c, "start") -> "run" [] At(c, "stop") -> "stopped" [] OTHER -> "gone"]
    /\ UNCHANGED <<app, runs>>

\* A container holds its port for as long as it is up, row or no row.
PortIsHeld(c) == Seen(c).port # NoPort /\ \E b \in Apps \ {About(c)} :
    engine[b].up /\ engine[b].port = Seen(c).port

Container(c, up) == [id |-> runs, up |-> up, port |-> Seen(c).port]

\* docker run: it refuses a name that is in use, and leaves a container that
\* cannot be started; one that comes up after the client gave up is not known.
run(c) ==
    /\ At(c, "run") /\ runs < MaxRuns
    /\ LET a == About(c) IN
       IF engine[a] # NoContainer
       THEN Moves(c, "failed") /\ UNCHANGED <<engine, runs, settled, faults>>
       ELSE /\ runs' = runs + 1
            /\ \/ ~PortIsHeld(c) /\ engine' = [engine EXCEPT ![a] = Container(c, TRUE)]
                  /\ request' = [request EXCEPT ![c].at = "ran", ![c].id = runs]
                  /\ UNCHANGED <<settled, faults>>
               \/ engine' = [engine EXCEPT ![a] = Container(c, FALSE)]
                  /\ Moves(c, "failed") /\ UNCHANGED <<settled, faults>>
               \/ ~PortIsHeld(c) /\ engine' = [engine EXCEPT ![a] = Container(c, TRUE)]
                  /\ Fault(a)
                  /\ request' = [request EXCEPT ![c].at = "failed", ![c].met = TRUE]
    /\ UNCHANGED <<app>>

start(c) ==
    /\ request[c].at \in {"ran", "failed"} /\ Closes(c)
    /\ IF At(c, "ran") THEN Commit(c, "running", request[c].id) ELSE Commit(c, "failed", NoId)
    /\ Settle(c) /\ UNCHANGED <<engine, runs, faults>>

stop(c) ==
    /\ At(c, "stopped") /\ Closes(c) /\ Commit(c, "stopped", NoId)
    /\ Settle(c) /\ UNCHANGED <<engine, runs, faults>>

delete(c) ==
    /\ At(c, "gone") /\ Closes(c)
    /\ app' = [app EXCEPT ![About(c)] = Gone]
    /\ Settle(c) /\ UNCHANGED <<engine, runs, faults>>

\* Only a row that names a container is asked about.
refresh(c) ==
    LET a == About(c) IN
    /\ At(c, "refresh")
    /\ IF Seen(c).container = NoId THEN Closes(c)
       ELSE \E found \in {IF engine[a].id # Seen(c).container THEN "none"
                          ELSE IF engine[a].up THEN "up" ELSE "down"} :
            request' = [request EXCEPT ![c].at = "inspected", ![c].found = found]
    /\ UNCHANGED <<app, engine, settled, runs, faults>>

\* A container that is down has an exit code, zero or not.
Refreshed(c) ==
    /\ At(c, "inspected") /\ Closes(c)
    /\ CASE request[c].found = "none" -> Commit(c, "stopped", NoId)
         [] request[c].found = "up"   -> Commit(c, "running", Seen(c).container)
         [] OTHER -> \E state \in {"failed", "stopped"} : Commit(c, state, Seen(c).container)
    /\ settled' = IF Alone(c) THEN settled ELSE settled \ {About(c)}
    /\ UNCHANGED <<engine, runs, faults>>

Exits(a) ==
    /\ engine[a].up /\ Fault(a)
    /\ engine' = [engine EXCEPT ![a].up = FALSE]
    /\ request' = [c \in AppCalls |-> IF c \in On(a) THEN [request[c] EXCEPT !.met = TRUE] ELSE request[c]]
    /\ UNCHANGED <<app, runs>>

\* The process that serves the request dies; what it told the engine stays.
Dies(c) ==
    /\ ~At(c, "free") /\ Fault(About(c)) /\ Closes(c)
    /\ UNCHANGED <<app, engine, runs>>

Next ==
    \/ \E c \in AppCalls, a \in Apps :
          \/ create(c, a) \/ start_application(c, a) \/ stop_application(c, a)
          \/ delete_application(c, a) \/ read_application(c, a)
    \/ \E c \in AppCalls :
          \/ insert(c) \/ _forget_container(c) \/ run(c) \/ start(c) \/ stop(c) \/ delete(c)
          \/ refresh(c) \/ Refreshed(c) \/ Dies(c)
    \/ \E a \in Apps : Exits(a)

Spec == Init /\ [][Next]_appVars

-----------------------------------------------------------------------------
(* Rows and containers are of their kind. *)
TypeOK ==
    /\ \A a \in Apps : Exists(a) => app[a] \in ApplicationRows
    /\ engine \in [Apps -> [id : (0..MaxRuns) \union {NoId}, up : BOOLEAN, port : Ports \union {NoPort}]]

(* A start, a stop or a deletion that ran alone leaves the row and the engine
   in agreement, however earlier requests, restarts or timeouts had left
   them: a row that says running names the container that runs, and nothing
   runs under a row that says otherwise or is gone. *)
RowTellsEngine == \A a \in settled :
    IF Exists(a) /\ app[a].state = "running"
    THEN engine[a].up /\ engine[a].id = app[a].container
    ELSE ~engine[a].up
=============================================================================
