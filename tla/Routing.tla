------------------------------ MODULE Routing ------------------------------
(***************************************************************************)
(* Routes: names the platform answers at, and the handing over of a call   *)
(* to what stands behind one, beside the applications whose containers    *)
(* answer.  A call reads the route and the application's row for a port,   *)
(* waits for its own body to come in, and only then dials; the engine may  *)
(* have given that port to another container by then.                      *)
(***************************************************************************)
EXTENDS Apps

CONSTANTS
    Names,          \* of routes
    Hops,           \* calls that come in from outside
    Outside,        \* the target of a route that leads to an address
    NoRoute

VARIABLES
    route,          \* rows, by name
    hop,            \* where a call stands
    together,       \* history: pairs of applications given a port at one time
    strays,         \* history: <<meant, reached>>, of calls that reached another
    deserted        \* history: applications deleted while a call to them was under way

routingVars == <<appVars, route, hop, together, strays, deserted>>
past        == <<together, strays, deserted>>

Targets   == Apps \union {Outside}
RouteRows == [target : Targets, public : BOOLEAN]
Waiting   == [at |-> "free"]
Routed(n) == route[n] # NoRoute

RoutingInit ==
    /\ Init
    /\ route = [n \in Names |-> NoRoute] /\ hop = [h \in Hops |-> Waiting]
    /\ together = {} /\ strays = {} /\ deserted = {}

\* service.create: a name is taken once on the whole instance.
insert_route(n, row) == ~Routed(n) /\ route' = [route EXCEPT ![n] = row]

create_route(n) ==
    /\ \E row \in RouteRows : insert_route(n, row)
    /\ UNCHANGED <<appVars, hop, past>>

delete_route(n) ==
    /\ Routed(n) /\ route' = [route EXCEPT ![n] = NoRoute]
    /\ UNCHANGED <<appVars, hop, past>>

\* What the rows say stands behind a target; anything else is nowhere to go.
resolve(t) ==
    IF t = Outside THEN {Outside}
    ELSE {p \in Ports : Exists(t) /\ app[t].port = p /\ app[t].state = "running"}

\* A private route lets an operator of it through.
MayPass(n, operator) == route[n].public \/ operator

forward_call(h, n) ==
    /\ hop[h] = Waiting /\ Routed(n)
    /\ \E operator \in BOOLEAN, address \in resolve(route[n].target) :
          /\ MayPass(n, operator)
          /\ hop' = [hop EXCEPT ![h] = [at |-> "body", meant |-> route[n].target, dials |-> address]]
    /\ UNCHANGED <<appVars, route, past>>

\* The port as it is dialled; what a call to an address meets is not told apart.
Answers(p)  == {a \in Apps : engine[a].up /\ engine[a].port = p}
\* A container that outlived its row is nobody's.
Strayed(h)  == {<<hop[h].meant, a>> : a \in {b \in Answers(hop[h].dials) :
                    b # hop[h].meant /\ Exists(b)}}

forward(h) ==
    /\ hop[h] # Waiting /\ hop' = [hop EXCEPT ![h] = Waiting]
    /\ strays' = IF hop[h].meant = Outside THEN strays ELSE strays \union Strayed(h)
    /\ UNCHANGED <<appVars, route, together, deserted>>

Given == {About(c) : c \in {d \in AppCalls : At(d, "insert")}}

\* The applications' own steps, who asked for a port beside whom, and who went
\* while a call to it was coming in.
AppsNext ==
    /\ Next /\ UNCHANGED <<route, hop, strays>>
    /\ together' = together \union {pair \in Given' \X Given' : pair[1] # pair[2]}
    /\ deserted' = deserted \union {a \in Apps :
          app[a] # Gone /\ app'[a] = Gone /\ \E h \in Hops : hop[h] # Waiting /\ hop[h].meant = a}

RoutingNext ==
    \/ AppsNext
    \/ \E n \in Names : create_route(n) \/ delete_route(n)
    \/ \E h \in Hops : forward(h) \/ \E n \in Names : forward_call(h, n)

RoutingSpec == RoutingInit /\ [][RoutingNext]_routingVars

-----------------------------------------------------------------------------
(* Applications, routes and calls are of their kind. *)
RoutingTypeOK ==
    /\ TypeOK
    /\ route \in [Names -> RouteRows \union {NoRoute}]
    /\ together \subseteq Apps \X Apps /\ strays \subseteq Apps \X Apps
    /\ deserted \subseteq Apps

(* A call that came through a route reaches the application the route was
   resolved to, or nothing: never the container of another one that has its
   row, however long the body took and whatever was started, stopped, deleted
   or lost meanwhile.  Two exceptions.  Two applications that were created at
   one time may both have been given the one port.  And when the application
   itself was deleted while the call came in, the port the call holds is free
   for the next one, and that one is reached. *)
CallsReachTheirTarget == strays \subseteq together \union (deserted \X Apps)
=============================================================================
