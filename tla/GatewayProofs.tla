---------------------------- MODULE GatewayProofs ----------------------------
(***************************************************************************)
(* Proofs about GatewayProxy, for any number of requests, backends and     *)
(* rules, and any weights and threshold.                                   *)
(***************************************************************************)
EXTENDS Gateway, UpstreamProofs, FiniteSetTheorems

\* No request resets the tracker.
LifeInv == GatewayTypeOK /\ \A q \in Pickers : doing[q] # "forget"

LEMMA LifeStarts == GatewayInit => LifeInv
BY ThresholdAssumption, CounterAssumption, PickersAssumption
DEF GatewayInit, BalancerInit, HealthInit, LifeInv, GatewayTypeOK, Lives, BalancerTypeOK,
    HealthTypeOK, HealthStatus, Halves, Phases

\* A request that is connecting has a backend, and so has one whose list is not
\* empty.
LEMMA Chosen ==
  ASSUME LifeInv, NEW q \in Pickers
  PROVE  /\ life[q] = "connecting" => BackendOf(q) \in Backends
         /\ life[q] # "choosing" => kept[q] = <<>>
         /\ kept[q] \in Seq(Backend)
<1>1. picked[q] \in Seq(Backend) /\ kept[q] \in Seq(Backend)
  BY DEF LifeInv, GatewayTypeOK, BalancerTypeOK
<1>2. life[q] = "connecting" => picked[q][1] \in Backend
  BY <1>1 DEF LifeInv, GatewayTypeOK
<1>3. QED
  BY <1>1, <1>2 DEF LifeInv, GatewayTypeOK, BalancerTypeOK, BackendOf, Backend

\* The outcome of a connection is recorded by a step of the tracker.
LEMMA OutcomeIsHealthStep ==
  ASSUME LifeInv, NEW q \in Pickers, Connected(q) \/ FailToConnect(q)
  PROVE  HealthStep
<1>1. BackendOf(q) \in Backends
  BY Chosen DEF Connected, FailToConnect
<1>2. RecordSuccess(q, BackendOf(q)) \/ RecordFailure(q, BackendOf(q))
  BY DEF Connected, FailToConnect
<1>3. UNCHANGED <<pickVars, recent>> /\ health' = health
  BY DEF Connected, FailToConnect, RecordSuccess, RecordFailure, ClearCount
<1>4. Up' = Up
  BY <1>3 DEF Up, IsHealthy
<1>5. QED
  BY <1>1, <1>2, <1>3, <1>4, PickersAssumption DEF HealthStep

\* A step of a request, but for its completion, is one of the load balancer.
LEMMA GatewayStepTyped ==
  ASSUME LifeInv, [GatewayNext]_gatewayVars
  PROVE  BalancerTypeOK'
<1>1. BalancerTypeOK
  BY DEF LifeInv, GatewayTypeOK
<1>2. CASE UNCHANGED gatewayVars
  BY <1>1, <1>2, StepTyped DEF gatewayVars
<1>3. ASSUME NEW q \in Pickers, NEW P \in Pools, Arrive(q, P) \/ Retry(q, P), ObserveHealth
      PROVE  BalancerTypeOK'
  BY <1>1, <1>3, StepTyped DEF Arrive, Retry, AskForPeer, BalancerNext
<1>4. ASSUME NEW q \in Pickers, CheckNext(q) \/ NotFound(q) \/ Choose(q), ObserveHealth
      PROVE  BalancerTypeOK'
  BY <1>1, <1>4, StepTyped DEF CheckNext, NotFound, Choose, BalancerNext
<1>5. ASSUME NEW q \in Pickers, Connected(q) \/ FailToConnect(q), ObserveHealth
      PROVE  BalancerTypeOK'
  BY <1>1, <1>5, OutcomeIsHealthStep, StepTyped DEF BalancerNext
<1>6. ASSUME NEW q \in Pickers, FinishRecording(q), ObserveHealth
      PROVE  BalancerTypeOK'
  BY <1>1, <1>6, StepTyped, PickersAssumption DEF FinishRecording, HealthStep, BalancerNext
<1>7. ASSUME NEW q \in Pickers, Complete(q), ObserveHealth
      PROVE  BalancerTypeOK'
  BY <1>1, <1>7, SeenTyped DEF Complete, BalancerTypeOK, HealthTypeOK, healthVars, pickVars
<1>8. QED
  BY <1>2, <1>3, <1>4, <1>5, <1>6, <1>7 DEF GatewayNext

\* What LifeInv says of one request.
LifeOf(q) ==
  /\ life[q] = "choosing" <=> phase[q] = "checking"
  /\ life[q] = "connecting" => Len(picked[q]) = 1 /\ doing[q] = "none"
  /\ doing[q] = "restore" => life[q] = "serving"
  /\ doing[q] = "mark" => life[q] = "idle"
  /\ doing[q] # "forget"

LEMMA LifeStep == LifeInv /\ [GatewayNext]_gatewayVars => LifeInv'
<1> SUFFICES ASSUME LifeInv, [GatewayNext]_gatewayVars PROVE LifeInv'
  OBVIOUS
<1>1. /\ BalancerTypeOK' /\ \A q \in Pickers : LifeOf(q)
      /\ life \in [Pickers -> Lives] /\ refused \in [Backends -> Nat]
      /\ phase \in [Pickers -> Phases] /\ doing \in [Pickers -> Halves]
      /\ picked \in [Pickers -> Seq(Backend)]
  BY GatewayStepTyped, PickersAssumption
  DEF LifeInv, GatewayTypeOK, LifeOf, BalancerTypeOK, HealthTypeOK
<1> SUFFICES /\ life' \in [Pickers -> Lives] /\ refused' \in [Backends -> Nat]
             /\ \A q \in Pickers : LifeOf(q)'
  BY <1>1 DEF LifeInv, GatewayTypeOK, LifeOf
<1> USE <1>1 DEF LifeOf, Lives
<1>2. CASE UNCHANGED gatewayVars
  BY <1>2 DEF gatewayVars, balancerVars, healthVars, pickVars
<1>3. ASSUME NEW q \in Pickers, NEW P \in Pools, Arrive(q, P) \/ Retry(q, P)
      PROVE  /\ life' \in [Pickers -> Lives] /\ refused' \in [Backends -> Nat]
             /\ \A p \in Pickers : LifeOf(p)'
  <2>1. /\ phase' = [phase EXCEPT ![q] = "checking"]
        /\ life' = [life EXCEPT ![q] = "choosing"]
        /\ picked' = [picked EXCEPT ![q] = <<>>]
        /\ doing' = doing /\ refused' = refused
        /\ doing[q] = "none"
    BY <1>3 DEF Arrive, Retry, AskForPeer, CallNext, healthVars
  <2>2. LifeOf(q)'
    BY <2>1
  <2>3. ASSUME NEW p \in Pickers, p # q PROVE LifeOf(p)'
    BY <2>1, <2>3
  <2>4. QED
    BY <2>1, <2>2, <2>3
<1>4. ASSUME NEW q \in Pickers, CheckNext(q)
      PROVE  /\ life' \in [Pickers -> Lives] /\ refused' \in [Backends -> Nat]
             /\ \A p \in Pickers : LifeOf(p)'
  BY <1>4 DEF CheckNext, Check, healthVars
<1>5. ASSUME NEW q \in Pickers, NotFound(q)
      PROVE  /\ life' \in [Pickers -> Lives] /\ refused' \in [Backends -> Nat]
             /\ \A p \in Pickers : LifeOf(p)'
  BY <1>5 DEF NotFound, Decline, Return, healthVars
<1>6. ASSUME NEW q \in Pickers, Choose(q)
      PROVE  /\ life' \in [Pickers -> Lives] /\ refused' \in [Backends -> Nat]
             /\ \A p \in Pickers : LifeOf(p)'
  <2>1. PICK i \in 1..Len(kept[q]) : Return(q, <<kept[q][i]>>)
    BY <1>6 DEF Choose, Pick
  <2>2. /\ phase[q] = "checking" /\ phase' = [phase EXCEPT ![q] = "returned"]
        /\ picked' = [picked EXCEPT ![q] = <<kept[q][i]>>]
        /\ doing' = doing
    BY <2>1 DEF Return, healthVars
  <2>3. Len(picked'[q]) = 1
    BY <2>2
  <2>4. PICK next \in {"idle", "connecting"} : life' = [life EXCEPT ![q] = next]
    BY <1>6 DEF Choose
  <2>5. doing[q] = "none"
    BY <2>2 DEF Halves
  <2>6. LifeOf(q)'
    BY <2>2, <2>3, <2>4, <2>5
  <2>7. ASSUME NEW p \in Pickers, p # q PROVE LifeOf(p)'
    BY <2>2, <2>4, <2>7
  <2>8. QED
    BY <1>6, <2>4, <2>6, <2>7 DEF Choose
<1>7. ASSUME NEW q \in Pickers, Connected(q) \/ FailToConnect(q)
      PROVE  /\ life' \in [Pickers -> Lives] /\ refused' \in [Backends -> Nat]
             /\ \A p \in Pickers : LifeOf(p)'
  <2>1. /\ life[q] = "connecting" /\ UNCHANGED <<phase, picked>>
        /\ refused' = [refused EXCEPT ![BackendOf(q)] = 0]
           \/ refused' = [refused EXCEPT ![BackendOf(q)] = @ + 1]
    BY <1>7 DEF Connected, FailToConnect, pickVars
  <2>2. \/ doing' = [doing EXCEPT ![q] = "restore"] /\ life' = [life EXCEPT ![q] = "serving"]
        \/ /\ doing' = [doing EXCEPT ![q] = "mark"] \/ doing' = [doing EXCEPT ![q] = "none"]
           /\ life' = [life EXCEPT ![q] = "idle"]
    BY <1>7 DEF Connected, FailToConnect, RecordSuccess, RecordFailure, Begin
  <2>3. PICK now \in {"serving", "idle"} : life' = [life EXCEPT ![q] = now]
    BY <2>2
  <2>4. phase[q] # "checking"
    BY <2>1
  <2>5. LifeOf(q)'
    BY <2>1, <2>2, <2>4
  <2>6. ASSUME NEW p \in Pickers, p # q PROVE LifeOf(p)'
    BY <2>1, <2>2, <2>6
  <2>7. refused' \in [Backends -> Nat]
    BY <2>1
  <2>8. QED
    BY <2>3, <2>5, <2>6, <2>7
<1>8. ASSUME NEW q \in Pickers, FinishRecording(q)
      PROVE  /\ life' \in [Pickers -> Lives] /\ refused' \in [Backends -> Nat]
             /\ \A p \in Pickers : LifeOf(p)'
  <2>1. /\ doing' = [doing EXCEPT ![q] = "none"] /\ UNCHANGED <<life, phase, picked>>
        /\ refused' = IF doing[q] = "restore" THEN [refused EXCEPT ![target[q]] = 0] ELSE refused
    BY <1>8 DEF FinishRecording, Finish, Restore, Mark, Forget, End, pickVars
  <2>2. refused' \in [Backends -> Nat]
    BY <2>1
  <2>3. \A p \in Pickers : LifeOf(p)'
    BY <2>1
  <2>4. QED
    BY <2>1, <2>2, <2>3
<1>9. ASSUME NEW q \in Pickers, Complete(q)
      PROVE  /\ life' \in [Pickers -> Lives] /\ refused' \in [Backends -> Nat]
             /\ \A p \in Pickers : LifeOf(p)'
  BY <1>9 DEF Complete, healthVars, pickVars
<1>10. QED
  BY <1>2, <1>3, <1>4, <1>5, <1>6, <1>7, <1>8, <1>9 DEF GatewayNext

\* A request is choosing exactly while it is inside next(), has one backend when
\* it connects, and records an outcome only where the hooks do.
THEOREM GatewayTypeCorrect == GatewaySpec => []GatewayTypeOK
BY LifeStarts, LifeStep, PTL DEF GatewaySpec, LifeInv

-----------------------------------------------------------------------------
(* The load balancer under the gateway is the one that stands alone.       *)

\* Each step of a request is one of the load balancer or of the tracker, or, when
\* the request completes, leaves both alone.
LEMMA GatewayStep ==
  ASSUME LifeInv, AnswerInv, [GatewayNext]_gatewayVars
  PROVE  [BalancerNext]_balancerVars
<1>1. CASE UNCHANGED gatewayVars
  BY <1>1 DEF gatewayVars
<1>2. ASSUME NEW q \in Pickers, NEW P \in Pools, Arrive(q, P) \/ Retry(q, P), ObserveHealth
      PROVE  BalancerNext
  BY <1>2 DEF Arrive, Retry, AskForPeer, BalancerNext
<1>3. ASSUME NEW q \in Pickers, CheckNext(q) \/ NotFound(q) \/ Choose(q), ObserveHealth
      PROVE  BalancerNext
  BY <1>3 DEF CheckNext, NotFound, Choose, BalancerNext
<1>4. ASSUME NEW q \in Pickers, Connected(q) \/ FailToConnect(q), ObserveHealth
      PROVE  BalancerNext
  BY <1>4, OutcomeIsHealthStep DEF BalancerNext
<1>5. ASSUME NEW q \in Pickers, FinishRecording(q), ObserveHealth
      PROVE  BalancerNext
  BY <1>5, PickersAssumption DEF FinishRecording, HealthStep, BalancerNext
<1>6. ASSUME NEW q \in Pickers, Complete(q), ObserveHealth
      PROVE  UNCHANGED balancerVars
  <2>1. UNCHANGED <<healthVars, pickVars, recent>>
    BY <1>6 DEF Complete
  <2>2. Up' = Up /\ phase' = phase
    BY <2>1 DEF healthVars, pickVars, Up, IsHealthy
  <2>3. ASSUME NEW p \in Pickers, phase[p] = "checking" PROVE Up \in seen[p]
    BY <2>3 DEF AnswerInv, CheckingInv
  <2>4. seen' = [p \in Pickers |-> seen[p]]
    BY <1>6, <2>2, <2>3 DEF ObserveHealth
  <2>5. seen' = seen
    BY <2>4 DEF AnswerInv, BalancerTypeOK
  <2>6. QED
    BY <2>1, <2>5 DEF balancerVars
<1>7. QED
  BY <1>1, <1>2, <1>3, <1>4, <1>5, <1>6 DEF GatewayNext

LEMMA GatewayInvariant == GatewaySpec => [](LifeInv /\ AnswerInv)
<1>1. GatewayInit => LifeInv /\ AnswerInv
  BY LifeStarts, AnswerStarts DEF GatewayInit
<1>2. LifeInv /\ AnswerInv /\ [GatewayNext]_gatewayVars => LifeInv' /\ AnswerInv'
  BY LifeStep, GatewayStep, AnswerStep
<1>3. QED
  BY <1>1, <1>2, PTL DEF GatewaySpec

\* The requests of the gateway call the load balancer and the tracker as the
\* specification of the load balancer expects of its callers, so what holds of
\* that holds of them (GatewayProxy, src/proxy/gateway.rs:59-156).
THEOREM GatewayImplementsLoadBalancer == GatewaySpec => BalancerSpec
<1>1. GatewayInit => BalancerInit
  BY DEF GatewayInit
<1>2. QED
  BY <1>1, GatewayStep, GatewayInvariant, PTL DEF GatewaySpec, BalancerSpec

\* The backend that a request is sent to was healthy at some instant of its
\* choice, and one is told 404 only if each backend of its rule was unhealthy at
\* some instant of it, whatever the other requests record meanwhile
\* (upstream_peer with the filter of next(), src/proxy/upstream.rs:115-122).
THEOREM RequestAnswerCorrect == GatewaySpec => []AnswerWasTrue
BY GatewayImplementsLoadBalancer, AnswerCorrect, PTL

\* While requests run, retried ones included, a backend is marked only by a
\* full streak of failures, or while a request is lifting its mark
\* (connected_to_upstream and fail_to_connect, src/proxy/gateway.rs:103-131).
THEOREM RequestsEarnMarks == GatewaySpec => []UnhealthyIsEarned
BY GatewayImplementsLoadBalancer, LoadBalancerKeepsTracker, EarnedCorrect, PTL

\* Nor does a full streak of failures stay unmarked while requests run, unless a
\* success that began before its end lifts the mark (connected_to_upstream and
\* fail_to_connect, src/proxy/gateway.rs:103-131).
THEOREM RequestsMarkStreaks == GatewaySpec => OnlyLateLiftsEscape
BY GatewayImplementsLoadBalancer, LoadBalancerKeepsTracker, OnlyLateLiftsEscapeCorrect, PTL

\* As many choices in a row from one list as its weights add up to share the
\* backends of the list exactly, whichever requests make them and although others
\* are told 404 meanwhile: upstream_peer hands every ticket of the one counter to
\* one choice (src/proxy/gateway.rs:87-93 with src/proxy/upstream.rs:135).  That
\* is a round: a choice from another list, such as that of another rule, a status
\* that changes or the wrap of the counter breaks it, and nothing is said then.
THEOREM RoundsShareExactly == GatewaySpec => []ExactShare
BY GatewayImplementsLoadBalancer, ExactShareCorrect, PTL

-----------------------------------------------------------------------------
(* Once a backend is unhealthy no request turns to it any more.            *)

\* Request q has kept backend b or connects to it.
Near(q, b) == b \in Addresses(kept[q]) \/ (life[q] = "connecting" /\ BackendOf(q) = b)

LEMMA NearFrame ==
  ASSUME NEW p, NEW b, kept'[p] = kept[p], life'[p] = life[p], picked'[p] = picked[p]
  PROVE  Near(p, b)' = Near(p, b)
BY DEF Near, BackendOf, Addresses

LEMMA AppendAddress ==
  ASSUME NEW list \in Seq(Backend), NEW c \in Backend
  PROVE  Addresses(Append(list, c)) = Addresses(list) \cup {c.address}
<1> DEFINE more == Append(list, c)
<1>1. /\ Len(more) = Len(list) + 1 /\ more[Len(list) + 1] = c
      /\ \A i \in 1..Len(list) : more[i] = list[i]
  OBVIOUS
<1> HIDE DEF more
<1>2. Len(list) \in Nat
  OBVIOUS
<1>3. QED
  BY <1>1, <1>2 DEF Addresses, more

LEMMA NearShrinks ==
  ASSUME LifeInv, [GatewayNext]_gatewayVars, NEW b \in Backends, ~IsHealthy(b),
         NEW p \in Pickers, Near(p, b)'
  PROVE  Near(p, b)
<1>1. /\ life \in [Pickers -> Lives] /\ kept \in [Pickers -> Seq(Backend)]
      /\ picked \in [Pickers -> Seq(Backend)]
  BY DEF LifeInv, GatewayTypeOK, BalancerTypeOK
<1>2. CASE UNCHANGED gatewayVars
  BY <1>2, NearFrame DEF gatewayVars, balancerVars, pickVars
<1>3. ASSUME NEW q \in Pickers, NEW P \in Pools, Arrive(q, P) \/ Retry(q, P)
      PROVE  Near(p, b)
  <2>1. /\ kept' = kept /\ life' = [life EXCEPT ![q] = "choosing"]
        /\ picked' = [picked EXCEPT ![q] = <<>>]
    BY <1>3 DEF Arrive, Retry, AskForPeer, CallNext
  <2>2. CASE p = q
    BY <1>1, <2>1, <2>2 DEF Near
  <2>3. CASE p # q
    BY <1>1, <2>1, <2>3, NearFrame
  <2>4. QED
    BY <2>2, <2>3
<1>4. ASSUME NEW q \in Pickers, CheckNext(q)
      PROVE  Near(p, b)
  <2> DEFINE c == pool[q][checked[q] + 1]
  <2>1. /\ life' = life /\ picked' = picked
        /\ kept' = [kept EXCEPT ![q] = IF IsHealthy(c.address) THEN Append(@, c) ELSE @]
    BY <1>4 DEF CheckNext, Check
  <2>2. c \in Backend
    <3>1. pool[q] \in Seq(Backend) /\ checked[q] \in Nat /\ checked[q] < Len(pool[q])
      BY <1>4, PoolsAssumption DEF CheckNext, Check, LifeInv, GatewayTypeOK, BalancerTypeOK
    <3>2. QED
      BY <3>1
  <2> HIDE DEF c
  <2>3. CASE p = q /\ IsHealthy(c.address)
    <3>1. Addresses(kept'[p]) = Addresses(kept[p]) \cup {c.address}
      BY <1>1, <2>1, <2>2, <2>3, AppendAddress
    <3>2. b # c.address
      BY <2>3
    <3>3. QED
      BY <2>1, <3>1, <3>2 DEF Near, BackendOf, Addresses
  <2>4. CASE ~(p = q /\ IsHealthy(c.address))
    BY <1>1, <2>1, <2>4, NearFrame
  <2>5. QED
    BY <2>3, <2>4
<1>5. ASSUME NEW q \in Pickers, NotFound(q)
      PROVE  Near(p, b)
  <2>1. /\ kept' = [kept EXCEPT ![q] = <<>>] /\ picked' = [picked EXCEPT ![q] = <<>>]
        /\ life' = [life EXCEPT ![q] = "idle"]
    BY <1>5 DEF NotFound, Decline, Return
  <2>2. CASE p = q
    BY <1>1, <2>1, <2>2 DEF Near, Addresses
  <2>3. CASE p # q
    BY <1>1, <2>1, <2>3, NearFrame
  <2>4. QED
    BY <2>2, <2>3
<1>6. ASSUME NEW q \in Pickers, Choose(q)
      PROVE  Near(p, b)
  <2>1. PICK i \in 1..Len(kept[q]) : Return(q, <<kept[q][i]>>)
    BY <1>6 DEF Choose, Pick
  <2>2. /\ kept' = [kept EXCEPT ![q] = <<>>]
        /\ picked' = [picked EXCEPT ![q] = <<kept[q][i]>>]
    BY <2>1 DEF Return
  <2>3. \A r \in Pickers : r # q => life'[r] = life[r]
    BY <1>1, <1>6 DEF Choose
  <2>4. CASE p = q
    <3>1. Addresses(kept'[p]) = {} /\ BackendOf(p)' = kept[p][i].address
      BY <1>1, <2>2, <2>4 DEF Addresses, BackendOf
    <3>2. QED
      BY <2>1, <2>4, <3>1 DEF Near, Addresses
  <2>5. CASE p # q
    BY <1>1, <2>2, <2>3, <2>5, NearFrame
  <2>6. QED
    BY <2>4, <2>5
<1>7. ASSUME NEW q \in Pickers,
             Connected(q) \/ FailToConnect(q) \/ FinishRecording(q) \/ Complete(q)
      PROVE  Near(p, b)
  <2>1. /\ UNCHANGED <<kept, picked>>
        /\ life' = life \/ \E l \in {"serving", "idle"} : life' = [life EXCEPT ![q] = l]
    BY <1>7 DEF Connected, FailToConnect, FinishRecording, Complete, pickVars
  <2>2. QED
    BY <1>1, <2>1 DEF Near, BackendOf, Addresses
<1>8. QED
  BY <1>2, <1>3, <1>4, <1>5, <1>6, <1>7 DEF GatewayNext

\* A status changes by the call of a request on that backend, and a call begins
\* with the backend of a request that was connecting to it.
LEMMA CallsAreNear ==
  ASSUME LifeInv, [GatewayNext]_gatewayVars, NEW b \in Backends
  PROVE  /\ \A p \in Pickers : doing'[p] # "none" /\ target'[p] = b =>
              (doing[p] # "none" /\ target[p] = b) \/ Near(p, b)
         /\ health'[b] # health[b] => \E p \in Pickers : doing[p] # "none" /\ target[p] = b
<1>1. /\ doing \in [Pickers -> Halves] /\ target \in [Pickers -> Backends]
      /\ health \in [Backends -> HealthStatus]
  BY PickersAssumption DEF LifeInv, GatewayTypeOK, BalancerTypeOK, HealthTypeOK
<1>2. CASE UNCHANGED healthVars
  BY <1>2 DEF healthVars
<1>3. ASSUME NEW q \in Pickers, Connected(q) \/ FailToConnect(q)
      PROVE  /\ health' = health
             /\ \A p \in Pickers : doing'[p] # "none" /\ target'[p] = b =>
                  (doing[p] # "none" /\ target[p] = b) \/ Near(p, b)
  <2>1. /\ health' = health /\ life[q] = "connecting"
        /\ \E half \in Halves : doing' = [doing EXCEPT ![q] = half]
        /\ target' = [target EXCEPT ![q] = BackendOf(q)]
    BY <1>3 DEF Connected, FailToConnect, RecordSuccess, RecordFailure, Begin, ClearCount, Halves
  <2>2. QED
    BY <1>1, <2>1 DEF Near
<1>4. ASSUME NEW q \in Pickers, FinishRecording(q)
      PROVE  /\ \A p \in Pickers : doing'[p] # "none" /\ target'[p] = b =>
                  doing[p] # "none" /\ target[p] = b
             /\ health'[b] # health[b] => doing[q] # "none" /\ target[q] = b
  <2>1. /\ doing[q] # "none" /\ doing' = [doing EXCEPT ![q] = "none"] /\ target' = target
        /\ \E s \in HealthStatus : health' = [health EXCEPT ![target[q]] = s]
    BY <1>4 DEF FinishRecording, Finish, Restore, Mark, Forget, End, HealthStatus
  <2>2. QED
    BY <1>1, <2>1
<1>5. ASSUME NEW q \in Pickers, CheckNext(q) \/ NotFound(q) \/ Choose(q) \/ Complete(q)
      PROVE  UNCHANGED healthVars
  BY <1>5 DEF CheckNext, Check, NotFound, Decline, Choose, Pick, Return, Complete
<1>6. ASSUME NEW q \in Pickers, NEW P \in Pools, Arrive(q, P) \/ Retry(q, P)
      PROVE  UNCHANGED healthVars
  BY <1>6 DEF Arrive, Retry, AskForPeer, CallNext
<1>7. CASE UNCHANGED gatewayVars
  BY <1>2, <1>7 DEF gatewayVars, balancerVars
<1>8. QED
  BY <1>2, <1>3, <1>4, <1>5, <1>6, <1>7 DEF GatewayNext

\* Whatever requests there are, a backend that is unhealthy and that no request
\* is engaged with stays so for ever.
THEOREM NoWayBackCorrect == GatewaySpec => NoWayBack
<1>1. LifeInv /\ [GatewayNext]_gatewayVars => [\A b \in Backends : Out(b) => Out(b)']_gatewayVars
  <2> SUFFICES ASSUME LifeInv, [GatewayNext]_gatewayVars, NEW b \in Backends, Out(b)
               PROVE  Out(b)'
    OBVIOUS
  <2>1. /\ ~IsHealthy(b)
        /\ \A q \in Pickers : ~Near(q, b) /\ ~(doing[q] # "none" /\ target[q] = b)
    BY DEF Out, Engaged, Near
  <2>2. health'[b] = health[b]
    BY <2>1, CallsAreNear
  <2>3. \A q \in Pickers : ~Near(q, b)'
    BY <2>1, NearShrinks
  <2>4. \A q \in Pickers : ~(doing[q] # "none" /\ target[q] = b)'
    BY <2>1, CallsAreNear
  <2>5. QED
    BY <2>1, <2>2, <2>3, <2>4 DEF Out, Engaged, Near, IsHealthy
<1>2. QED
  BY <1>1, LifeStarts, LifeStep, PTL DEF GatewaySpec, NoWayBack

-----------------------------------------------------------------------------
(* What an outage costs.  While a backend is healthy the connections that   *)
(* have failed since the last write of record_success are among those that  *)
(* it has counted, and at the threshold its entry is held until the mark is *)
(* set.  The request that sets the mark is not near the backend any more,   *)
(* and each failure from then on takes one of those that are.  That the     *)
(* count tells the truth needs that it does not wrap, which a success that  *)
(* lifts the mark and does not clear the count could bring about: Count     *)
(* bounds it by the failures that the requests near and the lifts under way *)
(* still allow.                                                             *)

AtOnce == Cardinality(Pickers)

Marking(b) == \E q \in Pickers : doing[q] = "mark" /\ target[q] = b
Lifters(b) == {q \in Pickers : doing[q] = "restore" /\ target[q] = b}
NearTo(b) == {q \in Pickers : Near(q, b)}

\* The failures that b may count before its mark is lifted again.
Reach(b) ==
  IF ~IsHealthy(b) THEN Cardinality(NearTo(b))
                   ELSE IF Marking(b) THEN AtOnce - 1 ELSE AtOnce

\* Each lift under way lets every request that is being served fail once more.
Count(b) ==
  failures[b] + Reach(b) + Cardinality(Lifters(b)) * (AtOnce + 1)
    < Threshold + AtOnce * (AtOnce + 2)

Cost(b) ==
  IF IsHealthy(b)
  THEN \/ refused[b] = 0
       \/ refused[b] <= failures[b] /\ failures[b] < Threshold
       \/ refused[b] <= Threshold /\ Marking(b)
  ELSE refused[b] + Cardinality(NearTo(b)) <= Threshold + AtOnce - 1

CostInv == LifeInv /\ \A b \in Backends : Count(b) /\ Cost(b)

LEMMA Fewer ==
  ASSUME NEW T \in SUBSET Pickers, NEW S \in SUBSET T
  PROVE  /\ Cardinality(S) \in Nat /\ Cardinality(T) \in Nat
         /\ Cardinality(S) <= Cardinality(T)
         /\ \A q \in T \ S : Cardinality(S) <= Cardinality(T) - 1
<1>1. IsFiniteSet(T)
  BY PickersAssumption, FS_Subset
<1>2. /\ IsFiniteSet(S) /\ Cardinality(S) <= Cardinality(T)
      /\ Cardinality(S) \in Nat /\ Cardinality(T) \in Nat
  BY <1>1, FS_Subset, FS_CardinalityType
<1>3. ASSUME NEW q \in T \ S PROVE Cardinality(S) <= Cardinality(T) - 1
  <2>1. IsFiniteSet(T \ {q}) /\ Cardinality(T \ {q}) = Cardinality(T) - 1
    BY <1>1, FS_RemoveElement
  <2>2. S \subseteq T \ {q}
    OBVIOUS
  <2>3. QED
    BY <2>1, <2>2, FS_Subset
<1>4. QED
  BY <1>2, <1>3

\* The numbers that Count and Cost relate, and the two constants.
LEMMA Sizes ==
  ASSUME NEW b
  PROVE  /\ AtOnce \in Nat /\ Threshold \in Nat /\ Threshold >= 1
         /\ Cardinality(NearTo(b)) \in 0..AtOnce /\ Cardinality(Lifters(b)) \in 0..AtOnce
         /\ Pickers # {} => AtOnce >= 1
<1>1. NearTo(b) \subseteq Pickers /\ Lifters(b) \subseteq Pickers
  BY DEF NearTo, Lifters
<1>2. /\ AtOnce \in Nat
      /\ Cardinality(NearTo(b)) \in Nat /\ Cardinality(NearTo(b)) <= AtOnce
      /\ Cardinality(Lifters(b)) \in Nat /\ Cardinality(Lifters(b)) <= AtOnce
  BY <1>1, Fewer DEF AtOnce
<1>3. Pickers # {} => AtOnce >= 1
  BY <1>2, PickersAssumption, FS_EmptySet DEF AtOnce
<1>4. QED
  BY <1>2, <1>3, ThresholdAssumption, FailuresAssumption

LEMMA ReachBounds ==
  ASSUME NEW b PROVE Reach(b) \in Int /\ Reach(b) <= AtOnce /\ (Pickers # {} => Reach(b) >= 0)
BY Sizes DEF Reach

\* Nothing of b is touched.
Quiet(b) ==
  /\ UNCHANGED <<health[b], failures[b], refused[b]>>
  /\ \A q \in Pickers : \A half \in {"mark", "restore"} :
       (doing[q] = half /\ target[q] = b)' <=> (doing[q] = half /\ target[q] = b)

\* What a step may do to one backend.
LEMMA BackendStep ==
  ASSUME LifeInv, [GatewayNext]_gatewayVars, NEW b \in Backends
  PROVE  \/ Quiet(b)
         \/ \E q \in Pickers : (Connected(q) \/ FailToConnect(q)) /\ BackendOf(q) = b
         \/ \E q \in Pickers : FinishRecording(q) /\ target[q] = b
<1>1. /\ doing \in [Pickers -> Halves] /\ target \in [Pickers -> Backends]
      /\ health \in [Backends -> HealthStatus] /\ refused \in [Backends -> Nat]
      /\ failures \in [Backends -> 0..(CountSize - 1)]
  BY PickersAssumption DEF LifeInv, GatewayTypeOK, BalancerTypeOK, HealthTypeOK
<1>2. CASE UNCHANGED healthVars /\ UNCHANGED refused
  BY <1>2 DEF Quiet, healthVars
<1>3. ASSUME NEW q \in Pickers, Connected(q) \/ FailToConnect(q), BackendOf(q) # b
      PROVE  Quiet(b)
  <2> PICK c : c = BackendOf(q)
    OBVIOUS
  <2>1. /\ health' = health /\ doing[q] = "none"
        /\ \E half \in Halves : doing' = [doing EXCEPT ![q] = half]
        /\ target' = [target EXCEPT ![q] = c]
        /\ \E n : failures' = [failures EXCEPT ![c] = n]
        /\ \E n : refused' = [refused EXCEPT ![c] = n]
    BY <1>3 DEF Connected, FailToConnect, RecordSuccess, RecordFailure, Begin, ClearCount, Halves
  <2>2. failures'[b] = failures[b] /\ refused'[b] = refused[b]
    BY <1>1, <1>3, <2>1
  <2>3. QED
    BY <1>1, <1>3, <2>1, <2>2 DEF Quiet
<1>4. ASSUME NEW q \in Pickers, FinishRecording(q), target[q] # b
      PROVE  Quiet(b)
  <2>1. /\ doing' = [doing EXCEPT ![q] = "none"] /\ UNCHANGED <<target, failures>>
        /\ \E s : health' = [health EXCEPT ![target[q]] = s]
        /\ refused' = refused \/ refused' = [refused EXCEPT ![target[q]] = 0]
    BY <1>4 DEF FinishRecording, Finish, Restore, Mark, Forget, End
  <2>2. health'[b] = health[b] /\ refused'[b] = refused[b]
    BY <1>1, <1>4, <2>1
  <2>3. QED
    BY <1>1, <1>4, <2>1, <2>2 DEF Quiet
<1>5. ASSUME NEW q \in Pickers, CheckNext(q) \/ NotFound(q) \/ Choose(q) \/ Complete(q)
      PROVE  UNCHANGED healthVars /\ UNCHANGED refused
  BY <1>5 DEF CheckNext, Check, NotFound, Decline, Choose, Pick, Return, Complete
<1>6. ASSUME NEW q \in Pickers, NEW P \in Pools, Arrive(q, P) \/ Retry(q, P)
      PROVE  UNCHANGED healthVars /\ UNCHANGED refused
  BY <1>6 DEF Arrive, Retry, AskForPeer, CallNext
<1>7. CASE UNCHANGED gatewayVars
  BY <1>2, <1>7 DEF gatewayVars, balancerVars
<1>8. QED
  BY <1>2, <1>3, <1>4, <1>5, <1>6, <1>7 DEF GatewayNext

LEMMA CostStarts == GatewayInit => CostInv
<1> SUFFICES ASSUME GatewayInit PROVE CostInv
  OBVIOUS
<1>1. LifeInv
  BY LifeStarts
<1>2. ASSUME NEW b \in Backends PROVE Count(b) /\ Cost(b)
  <2>1. /\ failures[b] = 0 /\ refused[b] = 0 /\ IsHealthy(b) /\ Lifters(b) = {}
    BY <1>2, PickersAssumption
    DEF GatewayInit, BalancerInit, HealthInit, IsHealthy, Lifters
  <2>2. Cardinality(Lifters(b)) = 0
    BY <2>1, FS_EmptySet
  <2>3. AtOnce * (AtOnce + 2) >= AtOnce
    BY Sizes
  <2>4. QED
    BY <2>1, <2>2, <2>3, Sizes, ReachBounds DEF Count, Cost
<1>3. QED
  BY <1>1, <1>2 DEF CostInv

LEMMA Times ==
  ASSUME NEW n \in Nat, NEW k \in Nat, NEW m \in Nat, k <= m
  PROVE  /\ k * (n + 1) <= m * (n + 1) /\ k * (n + 1) \in Nat /\ m * (n + 1) \in Nat
         /\ k < m => k * (n + 1) + n + 1 <= m * (n + 1)
<1>1. PICK d \in Nat : m = k + d
  <2>1. m - k \in Nat /\ m = k + (m - k)
    OBVIOUS
  <2>2. QED
    BY <2>1
<1>2. m * (n + 1) = k * (n + 1) + d * (n + 1) /\ k * (n + 1) \in Nat
  BY <1>1
<1>3. d * (n + 1) >= 0
  BY <1>1
<1>4. d >= 1 => d * (n + 1) >= n + 1
  <2>1. SUFFICES ASSUME d >= 1 PROVE d * (n + 1) >= n + 1
    OBVIOUS
  <2>2. PICK e \in Nat : d = e + 1
    <3>1. d - 1 \in Nat /\ d = (d - 1) + 1
      BY <2>1
    <3>2. QED
      BY <3>1
  <2>3. d * (n + 1) = e * (n + 1) + n + 1 /\ e * (n + 1) >= 0
    BY <2>2
  <2>4. QED
    BY <2>3
<1>5. QED
  BY <1>1, <1>2, <1>3, <1>4

\* The count of b goes no further than its requests let it.
LEMMA CountStays ==
  ASSUME NEW c \in Nat, NEW d \in Nat, NEW r \in Int, NEW s \in Int,
         NEW k \in Nat, NEW m \in Nat, m <= k,
         c + r + k * (AtOnce + 1) < Threshold + AtOnce * (AtOnce + 2),
         \/ d + s <= c + r
         \/ m < k /\ d + s <= c + r + AtOnce + 1
  PROVE  d + s + m * (AtOnce + 1) < Threshold + AtOnce * (AtOnce + 2)
<1> DEFINE bound == Threshold + AtOnce * (AtOnce + 2)
<1>1. AtOnce \in Nat /\ bound \in Int
  BY Sizes
<1>2. /\ m * (AtOnce + 1) <= k * (AtOnce + 1)
      /\ m * (AtOnce + 1) \in Nat /\ k * (AtOnce + 1) \in Nat
      /\ m < k => m * (AtOnce + 1) + AtOnce + 1 <= k * (AtOnce + 1)
  BY <1>1, Times
<1> HIDE DEF bound
<1>3. c + r + k * (AtOnce + 1) < bound
  BY DEF bound
<1>4. d + s + m * (AtOnce + 1) < bound
  BY <1>1, <1>2, <1>3
<1>5. QED
  BY <1>4 DEF bound

\* A count that starts again has all the way to go.
LEMMA CountStarts ==
  ASSUME NEW d \in Nat, NEW s \in Int, NEW m \in 0..AtOnce, d < Threshold, s <= AtOnce
  PROVE  d + s + m * (AtOnce + 1) < Threshold + AtOnce * (AtOnce + 2)
<1>1. AtOnce \in Nat /\ Threshold \in Nat
  BY Sizes
<1>2. m * (AtOnce + 1) <= AtOnce * (AtOnce + 1) /\ m * (AtOnce + 1) \in Nat
  BY <1>1, Times
<1>3. AtOnce * (AtOnce + 2) = AtOnce * (AtOnce + 1) + AtOnce /\ AtOnce * (AtOnce + 1) \in Nat
  BY <1>1
<1>4. QED
  BY <1>1, <1>2, <1>3

\* While b is unhealthy no request comes near it, and one that connects to it or
\* fails to leaves.
LEMMA NearToShrinks ==
  ASSUME LifeInv, [GatewayNext]_gatewayVars, NEW b \in Backends, ~IsHealthy(b)
  PROVE  /\ Cardinality(NearTo(b)') \in Nat
         /\ Cardinality(NearTo(b)') <= Cardinality(NearTo(b))
         /\ \A q \in Pickers : Near(q, b) /\ ~Near(q, b)'
              => Cardinality(NearTo(b)') <= Cardinality(NearTo(b)) - 1
<1>1. NearTo(b)' \subseteq NearTo(b) /\ NearTo(b) \subseteq Pickers
  BY NearShrinks DEF NearTo
<1>2. ASSUME NEW q \in Pickers, Near(q, b), ~Near(q, b)'
      PROVE  q \in NearTo(b) \ NearTo(b)'
  BY <1>2 DEF NearTo
<1>3. QED
  BY <1>1, <1>2, Fewer

LEMMA SizesAfter ==
  ASSUME NEW b
  PROVE  /\ Cardinality(NearTo(b)') \in 0..AtOnce
         /\ Cardinality(Lifters(b)') \in 0..AtOnce
<1>1. NearTo(b)' \subseteq Pickers /\ Lifters(b)' \subseteq Pickers
  BY DEF NearTo, Lifters
<1>2. QED
  BY <1>1, Fewer, Sizes DEF AtOnce

LEMMA ReachBoundsAfter ==
  ASSUME NEW b PROVE Reach(b)' \in Int /\ Reach(b)' <= AtOnce
BY Sizes, SizesAfter DEF Reach, AtOnce

\* What Count and Cost of b are about.
LEMMA CostTyped ==
  ASSUME CostInv, NEW b \in Backends
  PROVE  /\ LifeInv /\ Count(b) /\ Cost(b)
         /\ doing \in [Pickers -> Halves] /\ target \in [Pickers -> Backends]
         /\ health \in [Backends -> HealthStatus] /\ refused \in [Backends -> Nat]
         /\ failures \in [Backends -> Nat] /\ refused[b] \in Nat /\ failures[b] \in Nat
BY PickersAssumption, ThresholdAssumption
DEF CostInv, LifeInv, GatewayTypeOK, BalancerTypeOK, HealthTypeOK

LEMMA QuietCosts ==
  ASSUME CostInv, [GatewayNext]_gatewayVars, NEW b \in Backends, Quiet(b)
  PROVE  Count(b)' /\ Cost(b)'
<1>1. /\ LifeInv /\ Count(b) /\ Cost(b) /\ refused[b] \in Nat /\ failures[b] \in Nat
  BY CostTyped
<1>2. /\ failures'[b] = failures[b] /\ refused'[b] = refused[b]
      /\ IsHealthy(b)' <=> IsHealthy(b)
      /\ Marking(b)' <=> Marking(b)
  BY DEF Quiet, IsHealthy, Marking
<1>3. Lifters(b)' = Lifters(b)
  BY DEF Quiet, Lifters
<1>4. ~IsHealthy(b) => /\ Cardinality(NearTo(b)') \in Nat
                       /\ Cardinality(NearTo(b)') <= Cardinality(NearTo(b))
  BY <1>1, NearToShrinks
<1>5. Reach(b)' <= Reach(b) /\ Reach(b) \in Int /\ Reach(b)' \in Int
  BY <1>2, <1>4, Sizes DEF Reach, AtOnce
<1>6. Count(b)'
  BY <1>1, <1>2, <1>3, <1>5, Sizes, CountStays DEF Count, AtOnce
<1>7. Cost(b)'
  BY <1>1, <1>2, <1>4, Sizes DEF Cost, AtOnce
<1>8. QED
  BY <1>6, <1>7

\* A request that connects to b or fails to.
LEMMA LeavesNear ==
  ASSUME LifeInv, NEW q \in Pickers, Connected(q) \/ FailToConnect(q),
         NEW b, BackendOf(q) = b
  PROVE  Near(q, b) /\ ~Near(q, b)'
<1>1. life[q] = "connecting" /\ life'[q] \in {"serving", "idle"} /\ kept' = kept
  BY DEF Connected, FailToConnect, pickVars, LifeInv, GatewayTypeOK
<1>2. kept[q] = <<>>
  BY <1>1, Chosen
<1>3. QED
  BY <1>1, <1>2 DEF Near, Addresses

\* A connection that fails: the count has room for it, and either it is one below
\* the threshold, or it leads to the mark, or the mark is set already.
LEMMA FailureCosts ==
  ASSUME CostInv, [GatewayNext]_gatewayVars, NEW q \in Pickers, FailToConnect(q),
         NEW b \in Backends, BackendOf(q) = b
  PROVE  Count(b)' /\ Cost(b)'
<1>1. /\ LifeInv /\ Count(b) /\ Cost(b) /\ refused[b] \in Nat /\ failures[b] \in Nat
      /\ doing \in [Pickers -> Halves] /\ target \in [Pickers -> Backends]
      /\ refused \in [Backends -> Nat] /\ failures \in [Backends -> Nat]
  BY CostTyped
<1>2. Near(q, b) /\ ~Near(q, b)'
  BY <1>1, LeavesNear
<1>3. /\ health' = health /\ doing[q] = "none" /\ ~Locked(b)
      /\ failures' = [failures EXCEPT ![b] = (failures[b] + 1) % CountSize]
      /\ doing' = [doing EXCEPT ![q] = IF (failures[b] + 1) % CountSize >= Threshold
                                        THEN "mark" ELSE "none"]
      /\ target' = [target EXCEPT ![q] = b]
      /\ refused' = [refused EXCEPT ![b] = @ + 1]
  BY DEF FailToConnect, RecordFailure, Begin
<1>4. ~Marking(b)
  BY <1>3, PickersAssumption DEF Marking, Locked
<1>5. /\ AtOnce >= 1 /\ AtOnce \in Nat /\ Threshold \in Nat /\ Threshold >= 1
      /\ Reach(b) \in Int /\ Reach(b) >= 1
  <2>1. ~IsHealthy(b) => Cardinality(NearTo(b)) >= 1
    <3>1. q \in NearTo(b) \ {} /\ {} \subseteq NearTo(b) /\ NearTo(b) \subseteq Pickers
      BY <1>2 DEF NearTo
    <3>2. QED
      BY <3>1, Fewer, FS_EmptySet
  <2>2. QED
    BY <1>4, <2>1, Sizes DEF Reach
<1>6. (failures[b] + 1) % CountSize = failures[b] + 1
  <2>1. Cardinality(Lifters(b)) * (AtOnce + 1) >= 0 /\ Cardinality(Lifters(b)) * (AtOnce + 1) \in Nat
    BY Sizes, Times
  <2>2. AtOnce * (AtOnce + 2) \in Nat
    BY <1>5
  <2>3. CountSize \in Nat /\ Threshold + AtOnce * (AtOnce + 2) <= CountSize
    BY ThresholdAssumption, WidthAssumption DEF AtOnce
  <2>4. failures[b] + 1 < CountSize
    BY <1>1, <1>5, <2>1, <2>2, <2>3 DEF Count
  <2>5. QED
    BY <1>1, <2>3, <2>4
<1>7. /\ failures'[b] = failures[b] + 1 /\ refused'[b] = refused[b] + 1
      /\ IsHealthy(b)' <=> IsHealthy(b)
      /\ failures[b] + 1 >= Threshold => Marking(b)'
  <2>1. failures[b] + 1 >= Threshold => doing'[q] = "mark" /\ target'[q] = b
    BY <1>1, <1>3, <1>6
  <2>2. QED
    BY <1>1, <1>3, <1>6, <2>1 DEF IsHealthy, Marking
<1>8. Lifters(b)' \subseteq Lifters(b)
  BY <1>1, <1>3 DEF Lifters
<1>9. Cardinality(Lifters(b)') <= Cardinality(Lifters(b))
  <2>1. Lifters(b) \subseteq Pickers
    BY DEF Lifters
  <2>2. QED
    BY <1>8, <2>1, Fewer
<1>10. CASE IsHealthy(b) /\ failures[b] + 1 < Threshold
  <2>1. Count(b)'
    BY <1>1, <1>7, <1>10, CountStarts, SizesAfter, Sizes, ReachBoundsAfter DEF Count, AtOnce
  <2>2. Cost(b)'
    BY <1>1, <1>4, <1>5, <1>7, <1>10 DEF Cost, AtOnce
  <2>3. QED
    BY <2>1, <2>2
<1>11. CASE IsHealthy(b) /\ failures[b] + 1 >= Threshold
  <2>1. Reach(b) = AtOnce /\ Reach(b)' = AtOnce - 1
    BY <1>4, <1>7, <1>11 DEF Reach, AtOnce
  <2>2. Count(b)'
    BY <1>1, <1>5, <1>7, <1>9, <2>1, CountStays, SizesAfter, Sizes DEF Count, AtOnce
  <2>3. Cost(b)'
    BY <1>1, <1>4, <1>5, <1>7, <1>11 DEF Cost, AtOnce
  <2>4. QED
    BY <2>2, <2>3
<1>12. CASE ~IsHealthy(b)
  <2>1. Cardinality(NearTo(b)') \in Nat /\ Cardinality(NearTo(b)') <= Cardinality(NearTo(b)) - 1
    BY <1>1, <1>2, <1>12, NearToShrinks
  <2>2. /\ Reach(b) = Cardinality(NearTo(b)) /\ Reach(b)' = Cardinality(NearTo(b)')
        /\ Cardinality(NearTo(b)) \in Nat
    BY <1>7, <1>12, Sizes DEF Reach
  <2>3. Count(b)'
    BY <1>1, <1>7, <1>9, <2>1, <2>2, CountStays, SizesAfter, Sizes DEF Count, AtOnce
  <2>4. Cost(b)'
    BY <1>1, <1>5, <1>7, <1>12, <2>1, <2>2 DEF Cost, AtOnce
  <2>5. QED
    BY <2>3, <2>4
<1>13. QED
  BY <1>1, <1>5, <1>10, <1>11, <1>12

\* A connection that comes about, of a dead backend too: the count starts again.
LEMMA SuccessCosts ==
  ASSUME CostInv, [GatewayNext]_gatewayVars, NEW q \in Pickers, Connected(q),
         NEW b \in Backends, BackendOf(q) = b
  PROVE  Count(b)' /\ Cost(b)'
<1>1. /\ LifeInv /\ refused \in [Backends -> Nat] /\ failures \in [Backends -> Nat]
  BY CostTyped
<1>2. /\ health' = health /\ failures' = [failures EXCEPT ![b] = 0]
      /\ refused' = [refused EXCEPT ![b] = 0]
  BY DEF Connected, RecordSuccess, ClearCount
<1>3. failures'[b] = 0 /\ refused'[b] = 0
  BY <1>1, <1>2
<1>4. Count(b)'
  <2>1. failures'[b] \in Nat /\ failures'[b] < Threshold
    BY <1>3, Sizes
  <2>2. QED
    BY <2>1, CountStarts, SizesAfter, ReachBoundsAfter DEF Count, AtOnce
<1>5. Cost(b)'
  BY <1>3, SizesAfter, Sizes DEF Cost, AtOnce
<1>6. QED
  BY <1>4, <1>5

\* The second write of record_success: it lifts the mark and leaves the count,
\* and there is one lift less under way.
LEMMA LiftCosts ==
  ASSUME CostInv, [GatewayNext]_gatewayVars, NEW q \in Pickers, FinishRecording(q),
         NEW b \in Backends, target[q] = b, doing[q] = "restore"
  PROVE  Count(b)' /\ Cost(b)'
<1>1. /\ LifeInv /\ Count(b) /\ refused \in [Backends -> Nat] /\ failures[b] \in Nat
      /\ doing \in [Pickers -> Halves] /\ health \in [Backends -> HealthStatus]
  BY CostTyped
<1>2. /\ health' = [health EXCEPT ![b] = "Healthy"] /\ failures' = failures
      /\ doing' = [doing EXCEPT ![q] = "none"] /\ target' = target
      /\ refused' = [refused EXCEPT ![b] = 0]
  BY DEF FinishRecording, Finish, Restore, Mark, Forget, End
<1>3. refused'[b] = 0 /\ failures'[b] = failures[b] /\ IsHealthy(b)'
  BY <1>1, <1>2 DEF IsHealthy
<1>4. Cardinality(Lifters(b)') < Cardinality(Lifters(b))
  <2>1. /\ Lifters(b)' \subseteq Lifters(b) /\ Lifters(b) \subseteq Pickers
        /\ q \in Lifters(b) \ Lifters(b)'
    BY <1>1, <1>2 DEF Lifters
  <2>2. QED
    BY <2>1, Fewer
<1>5. failures'[b] + Reach(b)' <= failures[b] + Reach(b) + AtOnce + 1
  BY <1>1, <1>3, Sizes, ReachBounds, ReachBoundsAfter DEF AtOnce
<1>6. Count(b)'
  BY <1>1, <1>3, <1>4, <1>5, CountStays, SizesAfter, Sizes, ReachBounds, ReachBoundsAfter
  DEF Count, AtOnce
<1>7. QED
  BY <1>3, <1>6 DEF Cost

LEMMA MarkCosts ==
  ASSUME CostInv, [GatewayNext]_gatewayVars, NEW q \in Pickers, FinishRecording(q),
         NEW b \in Backends, target[q] = b, doing[q] = "mark"
  PROVE  Count(b)' /\ Cost(b)'
<1>1. /\ LifeInv /\ Count(b) /\ Cost(b) /\ refused[b] \in Nat /\ failures[b] \in Nat
      /\ doing \in [Pickers -> Halves] /\ health \in [Backends -> HealthStatus]
      /\ life[q] = "idle"
  BY CostTyped DEF LifeInv, GatewayTypeOK
<1>2. /\ health' = [health EXCEPT ![b] = "Unhealthy"]
      /\ UNCHANGED <<failures, target, kept, picked, life, refused>>
      /\ doing' = [doing EXCEPT ![q] = "none"]
  BY DEF FinishRecording, Finish, Restore, Mark, Forget, End, pickVars
<1>3. ~IsHealthy(b)'
  BY <1>1, <1>2 DEF IsHealthy
<1>4. Lifters(b)' = Lifters(b)
  BY <1>1, <1>2 DEF Lifters
<1>5. Cardinality(NearTo(b)') \in Nat /\ Cardinality(NearTo(b)') <= AtOnce - 1
  <2>1. ~Near(q, b)'
    BY <1>1, <1>2, Chosen DEF Near, Addresses
  <2>2. NearTo(b)' \subseteq Pickers /\ q \in Pickers \ NearTo(b)'
    BY <2>1 DEF NearTo
  <2>3. QED
    BY <2>2, Fewer DEF AtOnce
<1>6. CASE IsHealthy(b)
  <2>1. Marking(b) /\ Reach(b) = AtOnce - 1 /\ Reach(b)' = Cardinality(NearTo(b)')
    BY <1>3, <1>6 DEF Marking, Reach
  <2>2. Count(b)'
    BY <1>1, <1>2, <1>4, <1>5, <2>1, Sizes, CountStays DEF Count, AtOnce
  <2>3. refused[b] <= Threshold
    BY <1>1, <1>6, Sizes DEF Cost
  <2>4. Cost(b)'
    BY <1>1, <1>2, <1>3, <1>5, <2>3, Sizes DEF Cost, AtOnce
  <2>5. QED
    BY <2>2, <2>4
<1>7. CASE ~IsHealthy(b)
  <2>1. /\ Cardinality(NearTo(b)') <= Cardinality(NearTo(b))
        /\ Reach(b) = Cardinality(NearTo(b)) /\ Reach(b)' = Cardinality(NearTo(b)')
    BY <1>1, <1>3, <1>7, NearToShrinks DEF Reach
  <2>2. Count(b)'
    BY <1>1, <1>2, <1>4, <1>5, <2>1, Sizes, CountStays DEF Count, AtOnce
  <2>3. Cost(b)'
    BY <1>1, <1>2, <1>3, <1>5, <1>7, <2>1, Sizes DEF Cost, AtOnce
  <2>4. QED
    BY <2>2, <2>3
<1>8. QED
  BY <1>6, <1>7

LEMMA CostStep == CostInv /\ [GatewayNext]_gatewayVars => CostInv'
<1> SUFFICES ASSUME CostInv, [GatewayNext]_gatewayVars PROVE CostInv'
  OBVIOUS
<1>1. LifeInv /\ LifeInv'
  BY LifeStep DEF CostInv
<1>2. ASSUME NEW b \in Backends PROVE Count(b)' /\ Cost(b)'
  <2>1. ASSUME NEW q \in Pickers, FinishRecording(q) PROVE doing[q] \in {"restore", "mark"}
    BY <1>1, <2>1 DEF FinishRecording, Finish, Restore, Mark, Forget, End, LifeInv
  <2>2. QED
    BY <1>1, <2>1, BackendStep, QuietCosts, FailureCosts, SuccessCosts, LiftCosts, MarkCosts
<1>3. QED
  BY <1>1, <1>2 DEF CostInv

\* The failure count of a backend stays far below its width, however long the
\* proxy runs and whatever fails, and so record_failure never panics or starts
\* again from zero (count += 1, src/proxy/upstream.rs:57).  A count goes on while
\* the backend is marked and outlives a late lift of the mark, but each success
\* clears it when it begins, and each lift still under way lets every request
\* fail once more at most (record_success, upstream.rs:47-50).
THEOREM CountNeverWraps ==
  GatewaySpec =>
    [](\A b \in Backends : failures[b] < Threshold + AtOnce * (AtOnce + 2))
<1> DEFINE Small(b) == failures[b] < Threshold + AtOnce * (AtOnce + 2)
<1>1. CostInv => \A b \in Backends : Small(b)
  <2> SUFFICES ASSUME CostInv, NEW b \in Backends PROVE Small(b)
    OBVIOUS
  <2>1. Count(b) /\ failures[b] \in Nat
    BY CostTyped
  <2>2. /\ Cardinality(Lifters(b)) * (AtOnce + 1) \in Nat
        /\ AtOnce \in Nat /\ AtOnce * (AtOnce + 2) \in Nat /\ Threshold \in Nat
    BY Sizes, Times
  <2>3. CASE Pickers # {}
    BY <2>1, <2>2, <2>3, ReachBounds DEF Count
  <2>4. CASE Pickers = {}
    <3>1. AtOnce = 0 /\ ~Marking(b)
      BY <2>4, FS_EmptySet DEF AtOnce, Marking
    <3>2. Reach(b) = 0
      BY <3>1, Sizes DEF Reach
    <3>3. QED
      BY <2>1, <2>2, <3>2 DEF Count
  <2>5. QED
    BY <2>3, <2>4
<1>2. QED
  BY <1>1, CostStarts, CostStep, PTL DEF GatewaySpec

\* Whatever the threshold, however many requests are served at one time, and
\* however backends fail and recover and their connections are reused, a backend
\* fails at most its threshold of requests, and one for each of the other
\* requests, from one write of record_success to the next.
THEOREM OutageCostsFewCorrect == GatewaySpec => []OutageCostsFew
<1>1. CostInv => OutageCostsFew
  <2> SUFFICES ASSUME CostInv, NEW b \in Backends
               PROVE  refused[b] <= Threshold + AtOnce - 1
    BY DEF OutageCostsFew, AtOnce
  <2>1. Cost(b) /\ refused[b] \in Nat /\ failures[b] \in Nat
    BY CostTyped
  <2>2. Marking(b) => AtOnce >= 1
    BY Sizes DEF Marking
  <2>3. QED
    BY <2>1, <2>2, Sizes DEF Cost
<1>2. QED
  BY <1>1, CostStarts, CostStep, PTL DEF GatewaySpec

-----------------------------------------------------------------------------
(* Nothing is recorded against an address that does not parse.             *)

\* No request connects to such an address, or records an outcome of it.
Unparsed(q) ==
  /\ life[q] = "connecting" => BackendOf(q) \notin Malformed
  /\ doing[q] # "none" => target[q] \notin Malformed

MalformedInv == LifeInv /\ MalformedStaysIn /\ \A q \in Pickers : Unparsed(q)

LEMMA MalformedStarts == GatewayInit => MalformedInv
BY LifeStarts, AddressesAssumption, PickersAssumption
DEF GatewayInit, BalancerInit, HealthInit, MalformedInv, MalformedStaysIn, Unparsed, IsHealthy

LEMMA MalformedStep == MalformedInv /\ [GatewayNext]_gatewayVars => MalformedInv'
<1> SUFFICES ASSUME MalformedInv, [GatewayNext]_gatewayVars PROVE MalformedInv'
  OBVIOUS
<1>1. /\ LifeInv' /\ \A q \in Pickers : Unparsed(q)
      /\ \A b \in Malformed : b \in Backends /\ health[b] = "Healthy" /\ failures[b] = 0
      /\ life \in [Pickers -> Lives] /\ picked \in [Pickers -> Seq(Backend)]
      /\ doing \in [Pickers -> Halves] /\ target \in [Pickers -> Backends]
      /\ health \in [Backends -> HealthStatus]
      /\ failures \in [Backends -> 0..(CountSize - 1)]
  BY LifeStep, AddressesAssumption, PickersAssumption
  DEF MalformedInv, MalformedStaysIn, IsHealthy, LifeInv, GatewayTypeOK, BalancerTypeOK,
      HealthTypeOK
<1> SUFFICES /\ \A q \in Pickers : Unparsed(q)'
             /\ \A b \in Malformed : health'[b] = "Healthy" /\ failures'[b] = 0
  BY <1>1 DEF MalformedInv, MalformedStaysIn, IsHealthy
<1> USE DEF Unparsed, BackendOf
<1>2. CASE UNCHANGED gatewayVars
  BY <1>1, <1>2 DEF gatewayVars, balancerVars, healthVars, pickVars
<1>3. ASSUME NEW q \in Pickers, NEW P \in Pools, Arrive(q, P) \/ Retry(q, P)
      PROVE  /\ \A p \in Pickers : Unparsed(p)'
             /\ \A b \in Malformed : health'[b] = "Healthy" /\ failures'[b] = 0
  <2>1. /\ life' = [life EXCEPT ![q] = "choosing"]
        /\ picked' = [picked EXCEPT ![q] = <<>>]
        /\ UNCHANGED <<doing, target, health, failures>>
    BY <1>3 DEF Arrive, Retry, AskForPeer, CallNext, healthVars
  <2>2. QED
    BY <1>1, <2>1
<1>4. ASSUME NEW q \in Pickers, CheckNext(q) \/ Complete(q)
      PROVE  /\ \A p \in Pickers : Unparsed(p)'
             /\ \A b \in Malformed : health'[b] = "Healthy" /\ failures'[b] = 0
  <2>1. /\ life' = life \/ life' = [life EXCEPT ![q] = "idle"]
        /\ UNCHANGED <<picked, doing, target, health, failures>>
    BY <1>4 DEF CheckNext, Check, Complete, healthVars, pickVars
  <2>2. QED
    BY <1>1, <2>1
<1>5. ASSUME NEW q \in Pickers, NotFound(q)
      PROVE  /\ \A p \in Pickers : Unparsed(p)'
             /\ \A b \in Malformed : health'[b] = "Healthy" /\ failures'[b] = 0
  <2>1. /\ life' = [life EXCEPT ![q] = "idle"] /\ picked' = [picked EXCEPT ![q] = <<>>]
        /\ UNCHANGED <<doing, target, health, failures>>
    BY <1>5 DEF NotFound, Decline, Return, healthVars
  <2>2. QED
    BY <1>1, <2>1
<1>6. ASSUME NEW q \in Pickers, Choose(q)
      PROVE  /\ \A p \in Pickers : Unparsed(p)'
             /\ \A b \in Malformed : health'[b] = "Healthy" /\ failures'[b] = 0
  <2>1. /\ \E b : picked' = [picked EXCEPT ![q] = <<b>>]
        /\ life' = [life EXCEPT ![q] = IF picked'[q][1].address \in Malformed
                                        THEN "idle" ELSE "connecting"]
        /\ UNCHANGED <<doing, target, health, failures>>
    BY <1>6 DEF Choose, Pick, Return, healthVars
  <2>2. QED
    BY <1>1, <2>1
<1>7. ASSUME NEW q \in Pickers, Connected(q) \/ FailToConnect(q)
      PROVE  /\ \A p \in Pickers : Unparsed(p)'
             /\ \A b \in Malformed : health'[b] = "Healthy" /\ failures'[b] = 0
  <2> PICK c : c = BackendOf(q)
    OBVIOUS
  <2>1. /\ life[q] = "connecting" /\ health' = health /\ picked' = picked
        /\ \E now \in {"serving", "idle"} : life' = [life EXCEPT ![q] = now]
        /\ \E half : doing' = [doing EXCEPT ![q] = half]
        /\ target' = [target EXCEPT ![q] = c]
        /\ \E n : failures' = [failures EXCEPT ![c] = n]
    BY <1>7 DEF Connected, FailToConnect, RecordSuccess, RecordFailure, Begin, ClearCount,
                pickVars
  <2>2. c \notin Malformed
    BY <1>1, <2>1
  <2>3. QED
    BY <1>1, <2>1, <2>2
<1>8. ASSUME NEW q \in Pickers, FinishRecording(q)
      PROVE  /\ \A p \in Pickers : Unparsed(p)'
             /\ \A b \in Malformed : health'[b] = "Healthy" /\ failures'[b] = 0
  <2>1. /\ doing[q] # "none" /\ doing' = [doing EXCEPT ![q] = "none"]
        /\ UNCHANGED <<life, picked, target, failures>>
        /\ \E s : health' = [health EXCEPT ![target[q]] = s]
    BY <1>8 DEF FinishRecording, Finish, Restore, Mark, Forget, End, pickVars
  <2>2. target[q] \notin Malformed
    BY <1>1, <2>1
  <2>3. QED
    BY <1>1, <2>1, <2>2
<1>9. QED
  BY <1>2, <1>3, <1>4, <1>5, <1>6, <1>7, <1>8 DEF GatewayNext

\* Whatever the other backends go through, one whose address does not parse is
\* neither counted nor marked: only a new configuration takes it away
\* (src/proxy/gateway.rs:95-101).
THEOREM MalformedStaysInCorrect == GatewaySpec => []MalformedStaysIn
<1>1. MalformedInv => MalformedStaysIn
  BY DEF MalformedInv
<1>2. QED
  BY <1>1, MalformedStarts, MalformedStep, PTL DEF GatewaySpec
=============================================================================
