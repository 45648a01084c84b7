-------------------------- MODULE ProxyProcessProofs --------------------------
(***************************************************************************)
(* Proofs about the process and its controller, for any configurations and *)
(* any number of calls, shards, servers and restarts.                      *)
(***************************************************************************)
EXTENDS ProxyProcessRegister, RoutingProofs

\* Calls that overlap carry one configuration, the one that is wanted while any
\* of them is under way; before the first of them the store is that of Init.
ProcessInv ==
  /\ RoutingInv
  /\ wanted \in Requests
  /\ batch = {} => version = 0 /\ Quiescent
  /\ ~Quiescent => batch = {wanted}
  /\ \A Q, R \in batch : Q = R

LEMMA ProcessStarts == ProcessInit => ProcessInv
<1> SUFFICES ASSUME ProcessInit PROVE ProcessInv
  OBVIOUS
<1>1. RoutingInv /\ wanted \in Requests
  BY RoutingStarts DEF ProcessInit
<1>2. batch = {} /\ version = 0 /\ Quiescent
  BY DEF ProcessInit, RoutingInit, ReadsInit, Init, Quiescent, Free
<1>3. QED
  BY <1>1, <1>2 DEF ProcessInv

\* The end of the process leaves the store as it is created.
LEMMA ExitKeeps ==
  ASSUME ProcessInv, Exit
  PROVE  ProcessInv' /\ \A r \in Readers : ~Answers(r)
<1>1. Init'
  BY DEF Exit, Lose, Init
<1>2. IInv'
  <2>1. Init' => IInv'
    BY InitInv, PTL
  <2>2. QED
    BY <1>1, <2>1
<1>3. HeldInv' /\ ReadsInv'
  BY <1>1 DEF Init, HeldInv, ReadsInv, ReadInv, InProgress
<1>4. RoutingInv' /\ wanted' \in Requests
  BY <1>2, <1>3 DEF ProcessInv, RoutingInv, Exit, Lose, controllerVars
<1>5. batch' = {} /\ version' = 0 /\ Quiescent'
  BY <1>1 DEF Init, Quiescent, Free
<1>6. \A r \in Readers : ~Answers(r)
  BY <1>1 DEF Init, Answers
<1>7. QED
  BY <1>4, <1>5, <1>6 DEF ProcessInv

\* The steps of the process that leave the store and the proxy alone.
LEMMA FrameKeeps ==
  ASSUME ProcessInv, UNCHANGED routingVars,
         wanted' = wanted \/ (Quiescent /\ wanted' \in Requests)
  PROVE  ProcessInv'
<1>1. RoutingInv'
  BY RoutingStep DEF ProcessInv
<1>2. batch' = batch /\ version' = version /\ Quiescent' = Quiescent
  BY DEF routingVars, readsVars, Quiescent, Free
<1>3. QED
  BY <1>1, <1>2 DEF ProcessInv

LEMMA DeliverKeeps ==
  ASSUME ProcessInv, NEW h \in Handlers, Deliver(h), Observe
  PROVE  ProcessInv'
<1>1. RoutingInv'
  BY RoutingStep DEF ProcessInv, Deliver, RoutingNext
<1>2. wanted' = wanted /\ wanted \in Requests
  BY DEF ProcessInv, Deliver, controllerVars
<1>3. batch' = {wanted}
  BY DEF ProcessInv, Deliver, Update, UpdateRoutes
<1>4. QED
  BY <1>1, <1>2, <1>3 DEF ProcessInv

LEMMA WorkKeeps ==
  ASSUME ProcessInv, NEW h \in Handlers, Work(h), Observe
  PROVE  ProcessInv'
<1>1. RoutingInv'
  BY RoutingStep DEF ProcessInv, Work, RoutingNext
<1>2. wanted' = wanted /\ wanted \in Requests
  BY DEF ProcessInv, Work, controllerVars
<1>3. ~Free(h) /\ batch' = batch
  BY DEF Work, Apply, Serve, ClearShard, ClearDone, InsertRoute, InsertDone, StoreVersion,
     Free, Maps, Clearing, Inserting
<1>4. batch' = {wanted}
  BY <1>3 DEF ProcessInv, Quiescent
<1>5. QED
  BY <1>1, <1>2, <1>4 DEF ProcessInv

LEMMA ReadsKeep ==
  ASSUME ProcessInv, NEW r \in Readers, ServeGetRoutes(r) \/ RouteRequest(r), Observe
  PROVE  ProcessInv'
<1>1. RoutingInv'
  BY RoutingStep DEF ProcessInv, ServeGetRoutes, RouteRequest, RoutingNext
<1>2. UNCHANGED <<wanted, batch, version, stage>>
  BY DEF ServeGetRoutes, CallGetRoutes, ReplyRoutes, Read, ReadDone, LoadVersion, RouteRequest,
     controllerVars, Ask, GetRoutes, Clone, ReadShard, Decide, Answer, storeVars, handlerVars
<1>3. QED
  BY <1>1, <1>2 DEF ProcessInv, Quiescent, Free

LEMMA ProcessStep == ProcessInv /\ [ProcessNext]_processVars => ProcessInv'
<1> SUFFICES ASSUME ProcessInv, [ProcessNext]_processVars PROVE ProcessInv'
  OBVIOUS
<1>1. CASE Start \/ (\E s \in Servers : Listen(s) \/ ServerEnds(s)) \/ Health
  <2>1. UNCHANGED <<routingVars, wanted>>
    BY <1>1 DEF Start, Listen, ServerEnds, Health, controllerVars
  <2>2. QED
    BY <2>1, FrameKeeps
<1>2. CASE \E R \in Requests : Want(R)
  <2>1. UNCHANGED routingVars /\ Quiescent /\ wanted' \in Requests
    BY <1>2 DEF Want
  <2>2. QED
    BY <2>1, FrameKeeps
<1>3. CASE Exit
  BY <1>3, ExitKeeps
<1>4. CASE (\E h \in Handlers : Deliver(h) \/ Work(h)) /\ Observe
  BY <1>4, DeliverKeeps, WorkKeeps
<1>5. CASE (\E r \in Readers : ServeGetRoutes(r) \/ RouteRequest(r)) /\ Observe
  BY <1>5, ReadsKeep
<1>6. CASE UNCHANGED processVars
  <2>1. UNCHANGED <<routingVars, wanted>>
    BY <1>6 DEF processVars, controllerVars
  <2>2. QED
    BY <2>1, FrameKeeps
<1>7. QED
  BY <1>1, <1>2, <1>3, <1>4, <1>5, <1>6 DEF ProcessNext

LEMMA ProcessInvariant == ProcessSpec => []ProcessInv
BY ProcessStarts, ProcessStep, PTL DEF ProcessSpec

-----------------------------------------------------------------------------
\* However often the process restarts and a configuration is delivered again,
\* the version that Health reports between calls stands for the tables of the
\* configuration with that version.
THEOREM VersionTellsTableCorrect == ProcessSpec => []VersionTellsTable
<1>1. ProcessInv => VersionTellsTable
  <2> SUFFICES ASSUME ProcessInv, Quiescent, version # 0
               PROVE  \E R \in Requests : version = R.version /\ table = TablesOf(R)
    BY DEF VersionTellsTable
  <2>1. IInv /\ batch \subseteq Requests /\ batch # {} /\ \A Q, R \in batch : Q = R
    BY DEF ProcessInv, RoutingInv, IInv, TypeOK
  <2>2. PICK R \in Requests : batch = {R}
    BY <2>1
  <2>3. QED
    BY <2>1, <2>2, RedeliveryFollows DEF RedeliveryIsIdempotent
<1>2. QED
  BY <1>1, ProcessInvariant, PTL

\* But for its end, a step of the process is one of the store and its readers.
LEMMA StepOfProcess ==
  ASSUME wanted \in Requests, [ProcessNext]_processVars, ~Exit
  PROVE  [RoutingNext]_routingVars
<1>1. CASE Start \/ (\E s \in Servers : Listen(s) \/ ServerEnds(s))
  BY <1>1 DEF Start, Listen, ServerEnds
<1>2. CASE Health \/ (\E R \in Requests : Want(R))
  BY <1>2 DEF Health, Want
<1>3. ASSUME NEW h \in Handlers, Deliver(h), Observe
      PROVE  RoutingNext
  <2>1. PICK R \in {wanted} : Update(h, R)
    BY <1>3 DEF Deliver
  <2>2. QED
    BY <1>3, <2>1 DEF RoutingNext
<1>4. ASSUME NEW h \in Handlers, Work(h), Observe
      PROVE  RoutingNext
  BY <1>4 DEF Work, RoutingNext
<1>5. ASSUME NEW r \in Readers, ServeGetRoutes(r) \/ RouteRequest(r), Observe
      PROVE  RoutingNext
  BY <1>5 DEF ServeGetRoutes, RouteRequest, RoutingNext
<1>6. QED
  BY <1>1, <1>2, <1>3, <1>4, <1>5 DEF ProcessNext, processVars

\* In the whole process too, restarts included, each request that is answered is
\* given a rule that fits the tables as they were while it was routed.
THEOREM AnswersFitInProcess == ProcessSpec => AnswerFits
<1>1. ASSUME ProcessInv, [ProcessNext]_processVars
      PROVE  [\A r \in Readers : Answers(r) =>
                LET m == answer'[r]
                    h == ask[r].host
                    t == ask[r].path
                IN  /\ m # None => m \in Rules(window[r])
                    /\ \A n \in Rules(stable[r]) :
                         Applies(n.route, n.rule, h, t) =>
                           m # None /\ ~Outranks(n.route, n.rule, m.route, m.rule, h, t)]_routingVars
  <2>1. CASE Exit
    BY <1>1, <2>1, ExitKeeps
  <2>2. CASE ~Exit
    BY <1>1, <2>2, StepOfProcess, StepFits DEF ProcessInv
  <2>3. QED
    BY <2>1, <2>2
<1>2. QED
  BY <1>1, ProcessInvariant, PTL DEF ProcessSpec, AnswerFits

\* Restarts and servers that end leave nothing behind that an update or a read
\* would trip over: what holds of the store alone holds of the store in the
\* process, where each call may be the first after a restart.
THEOREM StoreSafeInProcess ==
  ProcessSpec => [](SettledIsMerge /\ RedeliveryIsIdempotent
                      /\ UntouchedRouteIsSeen /\ NothingFromThePast)
<1>1. ProcessInv => SettledIsMerge /\ RedeliveryIsIdempotent
  BY RedeliveryFollows DEF ProcessInv, RoutingInv, IInv
<1>2. ProcessInv => UntouchedRouteIsSeen /\ NothingFromThePast
  BY DEF ProcessInv, RoutingInv, ReadsInv, ReadInv, UntouchedRouteIsSeen, NothingFromThePast
<1>3. QED
  BY <1>1, <1>2, ProcessInvariant, PTL

\* Nor does a request ever wait for its answer in the whole process: as soon as
\* it has cloned the routes, there is one (find_backend awaits nothing).
THEOREM NoRequestWaits == ProcessSpec => [](\A r \in Readers : HasCloned(r) => HasAnswer(r))
<1>1. ProcessInit => FiniteInv
  BY FiniteStarts DEF ProcessInit, RoutingInit, ReadsInit
<1>2. ProcessInv /\ FiniteInv /\ [ProcessNext]_processVars => FiniteInv'
  <2> SUFFICES ASSUME ProcessInv, FiniteInv, [ProcessNext]_processVars PROVE FiniteInv'
    OBVIOUS
  <2>1. CASE Exit
    <3>1. Init' => FiniteInv'
      BY FiniteStarts, PTL
    <3>2. QED
      BY <2>1, <3>1 DEF Exit, Lose, Init
  <2>2. CASE ~Exit
    BY <2>2, StepOfProcess, FiniteStep DEF ProcessInv, RoutingInv, IInv
  <2>3. QED
    BY <2>1, <2>2
<1>3. ProcessInv /\ FiniteInv => \A r \in Readers : HasCloned(r) => HasAnswer(r)
  BY ClonedHasAnswer DEF ProcessInv
<1>4. QED
  BY <1>1, <1>2, <1>3, ProcessInvariant, PTL DEF ProcessSpec

-----------------------------------------------------------------------------
(* The store is a register to its controller.                              *)

\* The version in force is never newer than the one wanted.
VersionInv == version <= wanted.version

LEMMA VersionStep == ProcessInv /\ VersionInv /\ [ProcessNext]_processVars => VersionInv'
<1> SUFFICES ASSUME ProcessInv, VersionInv, [ProcessNext]_processVars PROVE VersionInv'
  OBVIOUS
<1>1. wanted \in Requests /\ version \in Nat /\ \A R \in Requests : R.version \in Nat
  BY RequestsAssumption DEF ProcessInv, RoutingInv, IInv, TypeOK, Request
<1>2. ASSUME NEW h \in Handlers, StoreVersion(h), wanted' = wanted
      PROVE  VersionInv'
  <2>1. req[h] = wanted /\ version' = req[h].version
    BY <1>2 DEF StoreVersion, ProcessInv, RoutingInv, IInv, BatchInv, Quiescent, Free
  <2>2. QED
    BY <1>1, <1>2, <2>1 DEF VersionInv
<1>3. CASE version' = version /\ wanted' = wanted
  BY <1>3 DEF VersionInv
<1>4. CASE \E R \in Requests : Want(R)
  BY <1>1, <1>4 DEF Want, VersionInv, routingVars, readsVars
<1>5. CASE Exit
  BY <1>1, <1>5 DEF Exit, Lose, controllerVars, VersionInv
<1>6. QED
  BY <1>2, <1>3, <1>4, <1>5
  DEF ProcessNext, Start, Listen, ServerEnds, Health, Deliver, Update, UpdateRoutes, Work,
      Apply, Serve, ClearShard, ClearDone, InsertRoute, InsertDone, ServeGetRoutes,
      CallGetRoutes, ReplyRoutes, Read, ReadShard, ReadDone, LoadVersion, RouteRequest, Ask,
      GetRoutes, Clone, Decide, Answer, storeVars, processVars, routingVars, readsVars,
      controllerVars

\* ConfigRegister sees the same requests and tables as the store.
LEMMA SameTables ==
  /\ Register!Empty = Empty
  /\ \A R : Register!TablesOf(R) = TablesOf(R)
BY DEF Maps, Empty, TablesOf, Final, Listed, LastEntry, Register!Maps, Register!Empty,
       Register!TablesOf, Register!Final, Register!Listed, Register!LastEntry

\* A step that leaves the store and the handlers alone is not to be seen.
LEMMA Unseen ==
  ASSUME UNCHANGED <<table, version, stage, wanted>>
  PROVE  UNCHANGED Register!vars
BY DEF Register!vars, view, Quiescent, Free

\* A delivery begins a sync.
LEMMA DeliverBegins ==
  ASSUME ProcessInv, VersionInv, NEW h \in Handlers, Deliver(h)
  PROVE  Register!Begin
<1>1. stage' = [stage EXCEPT ![h] = "clear_http"] /\ version' = version /\ wanted' = wanted
  BY DEF Deliver, Update, UpdateRoutes, storeVars, controllerVars
<1>2. stage \in [Handlers -> Stages]
  BY DEF ProcessInv, RoutingInv, IInv, TypeOK
<1>3. ~Free(h)'
  BY <1>1, <1>2 DEF Free
<1>4. view' = Syncing
  BY <1>3 DEF view, Quiescent
<1>5. QED
  BY <1>1, <1>4 DEF Register!Begin, VersionInv

\* A step of a call at work is inside the sync, and the last one of the last
\* call ends it with the tables of the one configuration that was delivered.
LEMMA WorkAnnounces ==
  ASSUME ProcessInv, ProcessInv', NEW h \in Handlers, Work(h)
  PROVE  Register!Announce \/ UNCHANGED Register!vars
<1>1. Serve(h) /\ wanted' = wanted
  BY DEF Work, Apply, controllerVars
<1>2. stage \in [Handlers -> Stages]
  BY DEF ProcessInv, RoutingInv, IInv, TypeOK
<1>3. CASE \E m \in Maps : ClearShard(h, m) \/ ClearDone(h, m)
                             \/ InsertRoute(h, m) \/ InsertDone(h, m)
  <2>1. ~Free(h) /\ ~Free(h)' /\ version' = version
    BY <1>2, <1>3 DEF ClearShard, ClearDone, InsertRoute, InsertDone, Free, Clearing,
                Inserting, AfterClear, AfterInsert, Maps, storeVars
  <2>2. view = Syncing /\ view' = Syncing
    BY <2>1 DEF view, Quiescent
  <2>3. QED
    BY <1>1, <2>1, <2>2 DEF Register!vars
<1>4. CASE StoreVersion(h)
  <2>1. ~Free(h) /\ ~Quiescent /\ req[h] \in batch
    BY <1>4 DEF StoreVersion, Free, Quiescent, ProcessInv, RoutingInv, IInv, BatchInv
  <2>2. batch = {wanted} /\ req[h] = wanted
    BY <2>1 DEF ProcessInv
  <2>3. version' = wanted.version /\ batch' = {wanted'} /\ wanted' \in Requests
    BY <1>1, <1>4, <2>2 DEF StoreVersion, ProcessInv
  <2>4. view = Syncing
    BY <2>1 DEF view
  <2>5. Quiescent' => table' = TablesOf(wanted)'
    <3>1. RedeliveryIsIdempotent'
      <4>1. IInv' => RedeliveryIsIdempotent'
        BY RedeliveryFollows, PTL
      <4>2. QED
        BY <4>1 DEF ProcessInv, RoutingInv
    <3>2. QED
      BY <2>3, <3>1 DEF RedeliveryIsIdempotent, TablesOf, Final, Listed, LastEntry
  <2>6. TablesOf(wanted)' = TablesOf(wanted)
    BY <1>1 DEF TablesOf, Final, Listed, LastEntry
  <2>7. view' \in {Syncing, Register!TablesOf(wanted)}
    BY <2>5, <2>6, SameTables DEF view
  <2>8. QED
    BY <1>1, <2>3, <2>4, <2>7 DEF Register!Announce
<1>5. QED
  BY <1>1, <1>3, <1>4 DEF Serve

LEMMA ProcessRefines ==
  ASSUME ProcessInv, ProcessInv', VersionInv, [ProcessNext]_processVars
  PROVE  [Register!Next]_(Register!vars)
<1>1. CASE Start \/ (\E s \in Servers : Listen(s) \/ ServerEnds(s)) \/ Health \/ UNCHANGED processVars
  <2>1. UNCHANGED <<table, version, stage, wanted>>
    BY <1>1 DEF Start, Listen, ServerEnds, Health, processVars, controllerVars, routingVars, readsVars
  <2>2. QED
    BY <2>1, Unseen
<1>2. ASSUME NEW R \in Requests, Want(R) PROVE Register!Want(R)
  <2>1. Quiescent /\ table # Syncing
    BY <1>2, SyncingAssumption DEF Want, ProcessInv, RoutingInv, IInv, TypeOK
  <2>2. view # Syncing
    BY <2>1 DEF view
  <2>3. UNCHANGED <<table, version, stage>>
    BY <1>2 DEF Want, routingVars, readsVars
  <2>4. view' = view
    BY <2>3 DEF view, Quiescent, Free
  <2>5. QED
    BY <1>2, <2>2, <2>3, <2>4 DEF Want, Register!Want
<1>3. CASE Exit
  <2>1. table' = Empty /\ version' = 0 /\ Quiescent' /\ wanted' = wanted
    BY <1>3 DEF Exit, Lose, Quiescent, Free, controllerVars
  <2>2. view' = Empty
    BY <2>1 DEF view
  <2>3. Register!Lose
    BY <2>1, <2>2, SameTables DEF Register!Lose
  <2>4. QED
    BY <2>3 DEF Register!Next
<1>4. CASE \E h \in Handlers : Deliver(h) \/ Work(h)
  <2>1. Register!Begin \/ Register!Announce \/ UNCHANGED Register!vars
    BY <1>4, DeliverBegins, WorkAnnounces
  <2>2. QED
    BY <2>1 DEF Register!Next
<1>5. CASE \E r \in Readers : ServeGetRoutes(r) \/ RouteRequest(r)
  <2>1. UNCHANGED <<table, version, stage, wanted>>
    BY <1>5 DEF ServeGetRoutes, CallGetRoutes, ReplyRoutes, Read, ReadDone, LoadVersion,
       RouteRequest, controllerVars, Ask, GetRoutes, Clone, ReadShard, Decide, Answer,
       storeVars, handlerVars
  <2>2. QED
    BY <2>1, Unseen
<1>6. QED
  BY <1>1, <1>2, <1>3, <1>4, <1>5 DEF ProcessNext, Register!Next

\* To its one controller the process, with any number of calls, shards and
\* restarts, is the register that ConfigRegister describes
\* (RouteStore::update_routes and RoutingService::health under main).
THEOREM ProcessImplementsRegister == ProcessSpec => ImplementsRegister
<1>1. ProcessInit => Register!Init
  BY SameTables DEF ProcessInit, RoutingInit, ReadsInit, Init, Register!Init, view, Quiescent, Free
<1>2. ProcessInit => VersionInv
  BY RequestsAssumption DEF ProcessInit, RoutingInit, ReadsInit, Init, VersionInv, Request
<1>3. ProcessSpec => []VersionInv
  BY <1>2, VersionStep, ProcessInvariant, PTL DEF ProcessSpec
<1>4. QED
  BY <1>1, <1>3, ProcessRefines, ProcessInvariant, PTL
  DEF ProcessSpec, ImplementsRegister, Register!Spec
=============================================================================
