----------------------------- MODULE ProxyProcess -----------------------------
(***************************************************************************)
(* The process (src/main.rs) with the controller that configures it.  The  *)
(* process creates an empty store, starts a health server and a gRPC       *)
(* server on threads of their own and then runs the proxy; a server that   *)
(* ends is only logged, and nothing is kept on disk.  The controller is    *)
(* not part of the repository: it is modelled by what the API is made for, *)
(* to send a configuration, to ask for the version in force, and to send   *)
(* it again when it had no answer or the version is another one.           *)
(***************************************************************************)
EXTENDS Routing

CONSTANT Servers  \* "grpc", "proxy", and "health", which nothing depends on

ASSUME ServersAssumption == {"grpc", "proxy"} \subseteq Servers

VARIABLES
  server,  \* the three servers of the process
  wanted,  \* the configuration that the controller wants
  heard    \* the version that Health last told it

controllerVars == <<wanted, heard>>
processVars == <<routingVars, server, controllerVars>>

\* A configuration is known by its version, and no version is that of the
\* empty store.
ASSUME VersionsAssumption ==
  /\ \A R \in Requests : R.version # 0
  /\ \A Q, R \in Requests : Q.version = R.version => Q = R

ServerStates == {"down", "starting", "listening", "ended"}
Running == \E s \in Servers : server[s] # "down"

ProcessInit ==
  /\ RoutingInit
  /\ server = [s \in Servers |-> "down"]
  /\ wanted \in Requests
  /\ heard = 0

-----------------------------------------------------------------------------
\* main() spawns both threads and then runs the proxy.
Start ==
  /\ ~Running
  /\ server' = [s \in Servers |-> "starting"]
  /\ UNCHANGED <<routingVars, controllerVars>>

\* A server has bound its port.
Listen(s) ==
  /\ server[s] = "starting"
  /\ server' = [server EXCEPT ![s] = "listening"]
  /\ UNCHANGED <<routingVars, controllerVars>>

\* Binding its port or serving on it fails: the error is logged and the thread
\* ends.  The other servers go on.
ServerEnds(s) ==
  /\ s # "proxy"
  /\ server[s] \in {"starting", "listening"}
  /\ server' = [server EXCEPT ![s] = "ended"]
  /\ UNCHANGED <<routingVars, controllerVars>>

\* The end of the process: all calls and the store are lost, and its version
\* is v when it starts again.
Lose(v) ==
  /\ server' = [s \in Servers |-> "down"]
  /\ table' = Empty
  /\ version' = v
  /\ stage' = [h \in Handlers |-> "idle"]
  /\ at' = [h \in Handlers |-> 1]
  /\ req' = [h \in Handlers |-> NoRequest]
  /\ batch' = {}
  /\ reading' = [r \in Readers |-> "idle"]
  /\ held' = [r \in Readers |-> 0]
  /\ got' = [r \in Readers |-> {}]
  /\ gotVersion' = [r \in Readers |-> 0]
  /\ answer' = [r \in Readers |-> None]
  /\ window' = [r \in Readers |-> {}]
  /\ stable' = [r \in Readers |-> {}]
  /\ ask' = [r \in Readers |-> NoAsk]
  /\ UNCHANGED controllerVars

\* Mutant of Exit: the version outlives the routes.
ExitKeepsVersion == Running /\ Lose(version)

\* The process is killed, or panics.
Exit == Running /\ Lose(0)

-----------------------------------------------------------------------------
\* The controller turns to a newer configuration when no call is under way.
Want(R) ==
  /\ Quiescent
  /\ R.version > wanted.version
  /\ wanted' = R
  /\ UNCHANGED <<routingVars, server, heard>>

\* RoutingService::health.
Health ==
  /\ server["grpc"] = "listening"
  /\ heard' = version
  /\ UNCHANGED <<routingVars, server, wanted>>

\* A first delivery, or another one: the reply to the last was lost, or a call
\* that timed out is still being served.
Deliver(h) ==
  /\ server["grpc"] = "listening"
  /\ heard # wanted.version
  /\ Update(h, wanted)
  /\ UNCHANGED <<server, controllerVars>>

\* A call that is under way awaits nothing: it runs to its end even if the
\* server ends meanwhile.
Work(h) == Apply(h) /\ UNCHANGED <<server, controllerVars>>

\* GetRoutes, which nobody has to call.
ServeGetRoutes(r) ==
  /\ \/ server["grpc"] = "listening" /\ CallGetRoutes(r)
     \/ ReplyRoutes(r)
  /\ UNCHANGED <<server, controllerVars>>

RouteRequest(r) ==
  /\ \/ server["proxy"] = "listening" /\ \E a \in Asks : Ask(r, a)
     \/ Clone(r)
     \/ Decide(r)
  /\ UNCHANGED <<server, controllerVars>>

ProcessNext ==
  \/ Start \/ Exit \/ \E s \in Servers : Listen(s) \/ ServerEnds(s)
  \/ Health \/ \E R \in Requests : Want(R)
  \/ /\ \/ \E h \in Handlers : Deliver(h) \/ Work(h)
        \/ \E r \in Readers : ServeGetRoutes(r) \/ RouteRequest(r)
     /\ Observe

\* Threads go on and calls under way are polled to their end.  The controller
\* keeps asking for the version, and sends what it wants when that is not it.
ProcessFairness ==
  /\ WF_server(Start)
  /\ WF_heard(Health)
  /\ \A h \in Handlers : WF_vars(Work(h))
  /\ \A r \in Readers : WF_vars(ReplyRoutes(r) \/ Clone(r) \/ Decide(r))
  /\ WF_vars(\E h \in Handlers : Deliver(h))

ProcessSpec == ProcessInit /\ [][ProcessNext]_processVars /\ ProcessFairness

-----------------------------------------------------------------------------
\* The version that Health reports stands for a configuration: when no update
\* is under way, the tables are those of the configuration with that version,
\* whatever was delivered twice or lost, and however often the process was
\* restarted (src/main.rs:44, RouteStore::update_routes, RoutingService::health).
VersionTellsTable ==
  Quiescent /\ version # 0 =>
    \E R \in Requests : version = R.version /\ table = TablesOf(R)

\* A restart, a lost reply or a call served late costs the configuration no more
\* than time: if the gRPC server goes on listening in the end and no read stands
\* in the way of updates, the tables become those that the controller wants and
\* stay so (a store that starts empty with version 0, src/main.rs:44, a server
\* that binds before it serves, main.rs:60-77).
ConfigurationReturns ==
  <>[](server["grpc"] = "listening" /\ \A r \in Readers : ~InProgress(r))
    => <>[](table = TablesOf(wanted))
=============================================================================
