------------------------------- MODULE Gateway -------------------------------
(***************************************************************************)
(* GatewayProxy (src/proxy/gateway.rs): the life of the requests that the  *)
(* proxy serves at one time.  Each chooses a backend (upstream_peer, hence *)
(* Router::find_backend and LoadBalancer::next), connects to it and        *)
(* records the outcome in the HealthTracker that the next choice consults. *)
(* The proxy framework calls these hooks; when a connection it has reused  *)
(* turns out to be closed it starts the request again from upstream_peer.  *)
(***************************************************************************)
EXTENDS LoadBalancer, FiniteSets

CONSTANT Malformed  \* addresses that parse_backend_address refuses

ASSUME PickersAssumption == Workers = Pickers /\ IsFiniteSet(Pickers)
ASSUME AddressesAssumption == Malformed \subseteq Backends
ASSUME FailuresAssumption == Threshold # 0  \* three in main.rs

\* With 2^32 values and a threshold of three, up to 65534 requests at one time.
ASSUME WidthAssumption ==
  Threshold + Cardinality(Pickers) * (Cardinality(Pickers) + 2) <= CountSize

VARIABLES
  life,    \* where each request is
  refused  \* history: the connections to each backend that have failed since a
           \* write of record_success to it

gatewayVars == <<balancerVars, life, refused>>

\* GatewayCtx: the backend of the request, once one is chosen.
BackendOf(q) == picked[q][1].address

GatewayInit ==
  /\ BalancerInit
  /\ life = [q \in Pickers |-> "idle"]
  /\ refused = [b \in Backends |-> 0]

-----------------------------------------------------------------------------
\* upstream_peer is called for a request that matches the rule with pool P.
\* One that matches no rule is answered 404 before anything changes.
AskForPeer(q, P) ==
  /\ CallNext(q, P)
  /\ life' = [life EXCEPT ![q] = "choosing"]
  /\ UNCHANGED refused

Arrive(q, P) == life[q] = "idle" /\ doing[q] = "none" /\ AskForPeer(q, P)

CheckNext(q) == Check(q) /\ UNCHANGED <<life, refused>>

\* 404: no backend is left.
NotFound(q) ==
  /\ Decline(q)
  /\ life' = [life EXCEPT ![q] = "idle"]
  /\ UNCHANGED refused

\* Mutant of Choose: the address is not parsed before a connection is tried.
ChooseUnparsed(q) ==
  /\ Pick(q)
  /\ life' = [life EXCEPT ![q] = "connecting"]
  /\ UNCHANGED refused

\* An address that does not parse ends the request with 500, and nothing is
\* recorded against it.
Choose(q) ==
  /\ Pick(q)
  /\ life' = [life EXCEPT ![q] = IF picked'[q][1].address \in Malformed
                                  THEN "idle" ELSE "connecting"]
  /\ UNCHANGED refused

\* connected_to_upstream.  Any connection may come about and any may fail: a
\* backend dies and comes back at any time, and the hook is called as well for a
\* connection that is reused, when the backend at its other end has died.
Connected(q) ==
  /\ life[q] = "connecting"
  /\ RecordSuccess(q, BackendOf(q))
  /\ life' = [life EXCEPT ![q] = "serving"]
  /\ refused' = [refused EXCEPT ![BackendOf(q)] = 0]
  /\ UNCHANGED <<pickVars, recent>>

\* fail_to_connect: recorded, and the request is answered 502.
FailToConnect(q) ==
  /\ life[q] = "connecting"
  /\ RecordFailure(q, BackendOf(q))
  /\ life' = [life EXCEPT ![q] = "idle"]
  /\ refused' = [refused EXCEPT ![BackendOf(q)] = @ + 1]
  /\ UNCHANGED <<pickVars, recent>>

\* The second half of a record_success or record_failure.
FinishRecording(q) ==
  /\ Finish(q)
  /\ recent' = IF Up' = Up THEN recent ELSE <<>>
  /\ refused' = IF doing[q] = "restore" THEN [refused EXCEPT ![target[q]] = 0] ELSE refused
  /\ UNCHANGED <<pickVars, life>>

Complete(q) ==
  /\ life[q] = "serving" /\ doing[q] = "none"
  /\ life' = [life EXCEPT ![q] = "idle"]
  /\ UNCHANGED <<healthVars, pickVars, recent, refused>>

\* Mutant of Retry: the outcome of the first attempt is still being recorded.
RetryEarly(q, P) == life[q] = "serving" /\ AskForPeer(q, P)

\* The framework starts over; the routes may have changed meanwhile.
Retry(q, P) == life[q] = "serving" /\ doing[q] = "none" /\ AskForPeer(q, P)

GatewayNext ==
  /\ \E q \in Pickers :
       \/ \E P \in Pools : Arrive(q, P) \/ Retry(q, P)
       \/ CheckNext(q) \/ NotFound(q) \/ Choose(q)
       \/ Connected(q) \/ FailToConnect(q) \/ FinishRecording(q) \/ Complete(q)
  /\ ObserveHealth

GatewaySpec == GatewayInit /\ [][GatewayNext]_gatewayVars

-----------------------------------------------------------------------------
Lives == {"idle", "choosing", "connecting", "serving"}

GatewayTypeOK ==
  /\ BalancerTypeOK
  /\ life \in [Pickers -> Lives]
  /\ refused \in [Backends -> Nat]
  /\ \A q \in Pickers :
       /\ life[q] = "choosing" <=> phase[q] = "checking"
       /\ life[q] = "connecting" => Len(picked[q]) = 1 /\ doing[q] = "none"
       /\ doing[q] = "restore" => life[q] = "serving"
       /\ doing[q] = "mark" => life[q] = "idle"

\* Request q may still connect to b, or has an outcome of b to record.
Engaged(q, b) ==
  \/ b \in Addresses(kept[q])
  \/ life[q] = "connecting" /\ BackendOf(q) = b
  \/ doing[q] # "none" /\ target[q] = b

Out(b) == ~IsHealthy(b) /\ \A q \in Pickers : ~Engaged(q, b)

\* A backend that is marked unhealthy when no request is engaged with it never
\* comes back: next() does not pick it, so no connection is left that could
\* succeed, and nothing else records a success ("A single success restores the
\* backend to healthy status", src/proxy/upstream.rs:25, has no occasion).
NoWayBack == [][\A b \in Backends : Out(b) => Out(b)']_gatewayVars

\* An outage costs few requests.  However a backend fails and recovers, from one
\* write of record_success to the next it fails at most its threshold of
\* requests, and one more for every other request that was being served when the
\* mark was set.  So one that has died fails that many at once, and that many
\* again after each of the writes that are left: both of a connection that is
\* reused after its death, and the second of one that was made before it
\* (record_failure, upstream.rs:55-63, and connected_to_upstream,
\* gateway.rs:103-117, against the checks of next(), upstream.rs:115-118).
OutageCostsFew ==
  \A b \in Backends : refused[b] <= Threshold + Cardinality(Pickers) - 1

\* A backend whose address does not parse is never taken out, however many
\* requests it has failed: none of them gets as far as an outcome that could be
\* recorded, so it goes on to get its share of the requests, and each one ends
\* with 500 (backend_to_peer after ctx.backend_address is set,
\* src/proxy/gateway.rs:95-101, against fail_to_connect).
MalformedStaysIn == \A b \in Malformed : IsHealthy(b) /\ failures[b] = 0
=============================================================================
