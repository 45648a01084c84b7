---------------------------- MODULE HealthTracker ----------------------------
(***************************************************************************)
(* HealthTracker (src/proxy/upstream.rs): a failure count and a status for *)
(* each backend address, in two DashMaps that the worker threads of the    *)
(* proxy share.  record_success and reset write one map and then the       *)
(* other, holding no lock between; record_failure keeps the entry of the   *)
(* count, and with it the write lock of the entry's shard, until it has    *)
(* marked the backend.                                                     *)
(***************************************************************************)
EXTENDS Naturals

CONSTANTS
  Backends,   \* the addresses in use
  Workers,    \* threads that may be inside a call of the tracker
  Threshold,  \* failure_threshold
  CountSize,  \* the failure count is kept modulo this (u32: 2^32)
  Shard       \* [Backends -> shards of the map failures]

ASSUME ThresholdAssumption == Threshold \in Nat /\ CountSize \in Nat
                                /\ Threshold < CountSize

VARIABLES
  health,    \* the map health; Healthy where it has no entry
  failures,  \* the map failures; 0 where it has no entry
  doing,     \* the second half of the call that each worker has begun
  target,    \* the backend of that call
  streak     \* history: failures counted since the last clear, up to Threshold

healthVars == <<health, failures, doing, target, streak>>

-----------------------------------------------------------------------------
HealthStatus == {"Healthy", "Unhealthy"}
Halves == {"none", "restore", "mark", "forget"}

\* HealthTracker::is_healthy; nothing tells an unknown backend from a healthy one.
IsHealthy(b) == health[b] = "Healthy"

\* Mutant of Locked: the count is copied out of its entry before the mark.
LockedNever(b) == FALSE

\* record_failure still holds the entry of its backend's count.
Locked(b) == \E w \in Workers : doing[w] = "mark" /\ Shard[target[w]] = Shard[b]

HealthTypeOK ==
  /\ health \in [Backends -> HealthStatus]
  /\ failures \in [Backends -> 0..(CountSize - 1)]
  /\ doing \in [Workers -> Halves]
  /\ target \in [Workers -> Backends]
  /\ streak \in [Backends -> 0..Threshold]

HealthInit ==
  /\ health = [b \in Backends |-> "Healthy"]
  /\ failures = [b \in Backends |-> 0]
  /\ doing = [w \in Workers |-> "none"]
  /\ target \in [Workers -> Backends]
  /\ streak = [b \in Backends |-> 0]

-----------------------------------------------------------------------------
\* A worker begins a call on backend b and goes on to its second half, if any.
Begin(w, b, half) ==
  /\ doing[w] = "none"
  /\ ~Locked(b)
  /\ doing' = [doing EXCEPT ![w] = half]
  /\ target' = [target EXCEPT ![w] = b]

End(w, half) ==
  /\ doing[w] = half
  /\ doing' = [doing EXCEPT ![w] = "none"]
  /\ UNCHANGED <<failures, target, streak>>

ClearCount(b) ==
  /\ failures' = [failures EXCEPT ![b] = 0]
  /\ streak' = [streak EXCEPT ![b] = 0]
  /\ UNCHANGED health

\* record_success: clear the count, then restore the status.
RecordSuccess(w, b) == Begin(w, b, "restore") /\ ClearCount(b)
Restore(w) ==
  /\ End(w, "restore")
  /\ health' = [health EXCEPT ![target[w]] = "Healthy"]

\* Mutant of RecordFailure: the count has no width.
RecordFailureUnbounded(w, b) ==
  LET count == failures[b] + 1
  IN
  /\ Begin(w, b, IF count >= Threshold THEN "mark" ELSE "none")
  /\ failures' = [failures EXCEPT ![b] = count]
  /\ streak' = [streak EXCEPT ![b] = IF @ < Threshold THEN @ + 1 ELSE @]
  /\ UNCHANGED health

\* Mutant of RecordFailure: the threshold is passed, not reached.
RecordFailureLate(w, b) ==
  LET count == (failures[b] + 1) % CountSize
  IN
  /\ Begin(w, b, IF count > Threshold THEN "mark" ELSE "none")
  /\ failures' = [failures EXCEPT ![b] = count]
  /\ streak' = [streak EXCEPT ![b] = IF @ < Threshold THEN @ + 1 ELSE @]
  /\ UNCHANGED health

\* record_failure: count, and at the threshold mark the backend before the
\* entry is let go.
RecordFailure(w, b) ==
  LET count == (failures[b] + 1) % CountSize
  IN
  /\ Begin(w, b, IF count >= Threshold THEN "mark" ELSE "none")
  /\ failures' = [failures EXCEPT ![b] = count]
  /\ streak' = [streak EXCEPT ![b] = IF @ < Threshold THEN @ + 1 ELSE @]
  /\ UNCHANGED health
Mark(w) ==
  /\ End(w, "mark")
  /\ health' = [health EXCEPT ![target[w]] = "Unhealthy"]

\* reset: remove the count, then the status.
Reset(w, b) == Begin(w, b, "forget") /\ ClearCount(b)
Forget(w) ==
  /\ End(w, "forget")
  /\ health' = [health EXCEPT ![target[w]] = "Healthy"]

Finish(w) == Restore(w) \/ Mark(w) \/ Forget(w)

HealthNext ==
  \E w \in Workers :
    \/ \E b \in Backends : RecordSuccess(w, b) \/ RecordFailure(w, b) \/ Reset(w, b)
    \/ Finish(w)

HealthSpec == HealthInit /\ [][HealthNext]_healthVars

-----------------------------------------------------------------------------
\* A call on b is to lift the mark of b.
Lifting(b) == \E w \in Workers : doing[w] \in {"restore", "forget"} /\ target[w] = b

\* A backend whose last failures do not reach the threshold is unhealthy only
\* while a call that clears it is under way: no mark is set from a count that
\* a success has cleared meanwhile, so a success is never lost
\* (record_failure holds its entry until the mark is set, upstream.rs:56-62).
UnhealthyIsEarned ==
  \A b \in Backends : health[b] = "Unhealthy" => streak[b] = Threshold \/ Lifting(b)

\* A backend is marked, or is about to be.
Demoted(b) ==
  health[b] = "Unhealthy" \/ \E w \in Workers : doing[w] = "mark" /\ target[w] = b

\* There is one way only in which a backend with a full streak of failures comes
\* to be healthy: a success, or a reset, whose first half came before the end of
\* the streak and whose second half lands after it.  The failure that completes
\* a streak always goes on to the mark, whichever calls overlap it and although
\* the count wraps, and what counts on does not lift a mark (record_failure,
\* upstream.rs:55-63, with the two writes of record_success, upstream.rs:47-50).
OnlyLateLiftsEscape ==
  [][\A b \in Backends :
       streak'[b] = Threshold /\ ~Demoted(b)' =>
         streak[b] = Threshold /\ (Lifting(b) \/ ~Demoted(b))]_healthVars

-----------------------------------------------------------------------------
\* "After failure_threshold consecutive failures, a backend is marked
\* unhealthy" (src/proxy/upstream.rs:24): once no call is under way, a backend
\* that has failed that often since its last success is unhealthy.
StreakDemotes ==
  (\A w \in Workers : doing[w] = "none")
    => \A b \in Backends : streak[b] = Threshold => ~IsHealthy(b)
=============================================================================
