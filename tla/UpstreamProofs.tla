---------------------------- MODULE UpstreamProofs ----------------------------
(***************************************************************************)
(* Proofs about what src/proxy/upstream.rs holds: HealthTracker, for any   *)
(* number of backends, workers and shards and any threshold below the size *)
(* of the count, and LoadBalancer, for any backends, weights, lists,       *)
(* threads, threshold and counter size.                                    *)
(***************************************************************************)
EXTENDS LoadBalancer, TLAPS, FunctionTheorems, FiniteSetTheorems

-----------------------------------------------------------------------------
(* The tracker.                                                            *)

\* Each step on the tracker keeps its type.
LEMMA TrackerStepTyped == HealthTypeOK /\ [HealthNext]_healthVars => HealthTypeOK'
<1> SUFFICES ASSUME HealthTypeOK, [HealthNext]_healthVars PROVE HealthTypeOK'
  OBVIOUS
<1> USE ThresholdAssumption DEF HealthTypeOK, HealthStatus, Halves
<1>1. ASSUME NEW w \in Workers, NEW b \in Backends,
             RecordSuccess(w, b) \/ Reset(w, b)
      PROVE  HealthTypeOK'
  BY <1>1 DEF RecordSuccess, Reset, Begin, ClearCount
<1>2. ASSUME NEW w \in Workers, NEW b \in Backends, RecordFailure(w, b)
      PROVE  HealthTypeOK'
  <2> DEFINE count == (failures[b] + 1) % CountSize
  <2>1. count \in 0..(CountSize - 1)
    OBVIOUS
  <2>2. QED
    BY <1>2, <2>1 DEF RecordFailure, Begin
<1>3. ASSUME NEW w \in Workers, Finish(w)
      PROVE  HealthTypeOK'
  BY <1>3 DEF Finish, Restore, Mark, Forget, End
<1>4. CASE UNCHANGED healthVars
  BY <1>4 DEF healthVars
<1>5. QED
  BY <1>1, <1>2, <1>3, <1>4 DEF HealthNext

\* The state of the tracker keeps its type (src/proxy/upstream.rs).
THEOREM HealthTypeCorrect == HealthSpec => []HealthTypeOK
<1>1. HealthInit => HealthTypeOK
  BY ThresholdAssumption DEF HealthInit, HealthTypeOK, HealthStatus, Halves
<1>2. QED
  BY <1>1, TrackerStepTyped, PTL DEF HealthSpec

-----------------------------------------------------------------------------
(* Why the mark is earned.  The count never exceeds the streak unless the  *)
(* streak has reached the threshold, so a call goes on to mark a backend   *)
(* only at a full streak; and while that call holds the entry, no call     *)
(* clears the count of any backend in the same shard.                      *)

CountBelowStreak == \A b \in Backends : failures[b] <= streak[b] \/ streak[b] = Threshold
MarkAtThreshold == \A w \in Workers : doing[w] = "mark" => streak[target[w]] = Threshold

EarnedInv == HealthTypeOK /\ CountBelowStreak /\ MarkAtThreshold /\ UnhealthyIsEarned

\* A call that clears a count begins where no mark is pending.
LEMMA ClearKeepsEarned ==
  ASSUME EarnedInv, NEW w \in Workers, NEW b \in Backends,
         RecordSuccess(w, b) \/ Reset(w, b), HealthTypeOK'
  PROVE  EarnedInv'
<1> USE DEF EarnedInv, HealthTypeOK
<1>1. /\ ~Locked(b) /\ doing[w] = "none"
      /\ \E half \in {"restore", "forget"} : doing' = [doing EXCEPT ![w] = half]
      /\ target' = [target EXCEPT ![w] = b]
      /\ failures' = [failures EXCEPT ![b] = 0]
      /\ streak' = [streak EXCEPT ![b] = 0]
      /\ health' = health
  BY DEF RecordSuccess, Reset, Begin, ClearCount
<1>2. CountBelowStreak'
  BY <1>1 DEF CountBelowStreak
<1>3. MarkAtThreshold'
  <2> SUFFICES ASSUME NEW v \in Workers, doing'[v] = "mark"
               PROVE  streak'[target'[v]] = Threshold
    BY DEF MarkAtThreshold
  <2>1. v # w /\ doing[v] = "mark" /\ target'[v] = target[v]
    BY <1>1
  <2>2. target[v] # b
    BY <1>1, <2>1 DEF Locked
  <2>3. QED
    BY <1>1, <2>1, <2>2 DEF MarkAtThreshold
<1>4. UnhealthyIsEarned'
  <2> SUFFICES ASSUME NEW c \in Backends, health'[c] = "Unhealthy"
               PROVE  streak'[c] = Threshold \/ Lifting(c)'
    BY DEF UnhealthyIsEarned
  <2>1. CASE c = b
    BY <1>1, <2>1 DEF Lifting
  <2>2. CASE c # b
    <3>1. streak[c] = Threshold \/ Lifting(c)
      BY <1>1 DEF UnhealthyIsEarned
    <3>2. Lifting(c) => Lifting(c)'
      BY <1>1 DEF Lifting
    <3>3. QED
      BY <1>1, <2>2, <3>1, <3>2
  <2>3. QED
    BY <2>1, <2>2
<1>5. QED
  BY <1>2, <1>3, <1>4

\* A failure lengthens its streak, and marks only a full one.
LEMMA FailureKeepsEarned ==
  ASSUME EarnedInv, NEW w \in Workers, NEW b \in Backends,
         RecordFailure(w, b), HealthTypeOK'
  PROVE  EarnedInv'
<1> USE ThresholdAssumption DEF EarnedInv, HealthTypeOK
<1> DEFINE count == (failures[b] + 1) % CountSize
           half == IF count >= Threshold THEN "mark" ELSE "none"
           longer == IF streak[b] < Threshold THEN streak[b] + 1 ELSE streak[b]
<1>1. /\ doing[w] = "none"
      /\ doing' = [doing EXCEPT ![w] = half]
      /\ target' = [target EXCEPT ![w] = b]
      /\ failures' = [failures EXCEPT ![b] = count]
      /\ streak' = [streak EXCEPT ![b] = longer]
      /\ health' = health
  BY DEF RecordFailure, Begin
<1>2. count \in Nat /\ count <= failures[b] + 1
  OBVIOUS
<1>3. count <= longer \/ longer = Threshold
  BY <1>2 DEF CountBelowStreak
<1>4. half = "mark" => longer = Threshold
  BY <1>2, <1>3
<1>5. streak[b] = Threshold => longer = Threshold
  OBVIOUS
<1> HIDE DEF count, half, longer
<1>6. CountBelowStreak'
  BY <1>1, <1>3 DEF CountBelowStreak
<1>7. MarkAtThreshold'
  BY <1>1, <1>4, <1>5 DEF MarkAtThreshold
<1>8. UnhealthyIsEarned'
  <2> SUFFICES ASSUME NEW c \in Backends, health'[c] = "Unhealthy"
               PROVE  streak'[c] = Threshold \/ Lifting(c)'
    BY DEF UnhealthyIsEarned
  <2>1. streak[c] = Threshold \/ Lifting(c)
    BY <1>1 DEF UnhealthyIsEarned
  <2>2. Lifting(c) => Lifting(c)'
    BY <1>1 DEF Lifting
  <2>3. QED
    BY <1>1, <1>5, <2>1, <2>2
<1>9. QED
  BY <1>6, <1>7, <1>8

\* The second half of a call sets the status that its first half settled.
LEMMA FinishKeepsEarned ==
  ASSUME EarnedInv, NEW w \in Workers, Finish(w), HealthTypeOK'
  PROVE  EarnedInv'
<1> USE DEF EarnedInv, HealthTypeOK
<1>1. /\ doing' = [doing EXCEPT ![w] = "none"]
      /\ UNCHANGED <<failures, target, streak>>
      /\ \A c \in Backends : c # target[w] => health'[c] = health[c]
      /\ health'[target[w]] = "Unhealthy" <=> doing[w] = "mark"
  BY DEF Finish, Restore, Mark, Forget, End
<1>2. CountBelowStreak' /\ MarkAtThreshold'
  BY <1>1 DEF CountBelowStreak, MarkAtThreshold
<1>3. UnhealthyIsEarned'
  <2> SUFFICES ASSUME NEW c \in Backends, health'[c] = "Unhealthy"
               PROVE  streak'[c] = Threshold \/ Lifting(c)'
    BY DEF UnhealthyIsEarned
  <2>1. CASE c = target[w]
    BY <1>1, <2>1 DEF MarkAtThreshold
  <2>2. CASE c # target[w]
    <3>1. streak[c] = Threshold \/ Lifting(c)
      BY <1>1, <2>2 DEF UnhealthyIsEarned
    <3>2. Lifting(c) => Lifting(c)'
      BY <1>1, <2>2 DEF Lifting
    <3>3. QED
      BY <1>1, <3>1, <3>2
  <2>3. QED
    BY <2>1, <2>2
<1>4. QED
  BY <1>2, <1>3

\* A backend is unhealthy only by a full streak of failures or while a call
\* that lifts the mark is under way (src/proxy/upstream.rs:47-63).
THEOREM EarnedCorrect == HealthSpec => []UnhealthyIsEarned
<1>1. HealthInit => EarnedInv
  BY ThresholdAssumption
  DEF HealthInit, EarnedInv, HealthTypeOK, HealthStatus, Halves, CountBelowStreak,
      MarkAtThreshold, UnhealthyIsEarned
<1>2. EarnedInv /\ HealthTypeOK' /\ [HealthNext]_healthVars => EarnedInv'
  <2>1. CASE UNCHANGED healthVars
    BY <2>1 DEF healthVars, EarnedInv, HealthTypeOK, CountBelowStreak,
                MarkAtThreshold, UnhealthyIsEarned, Lifting
  <2>2. QED
    BY <2>1, ClearKeepsEarned, FailureKeepsEarned, FinishKeepsEarned DEF HealthNext
<1>3. EarnedInv => UnhealthyIsEarned
  BY DEF EarnedInv
<1>4. QED
  BY <1>1, <1>2, <1>3, HealthTypeCorrect, PTL DEF HealthSpec

-----------------------------------------------------------------------------
(* Why a full streak is marked.  Short of the threshold the count and the  *)
(* streak are one and the same, so the failure that completes the streak   *)
(* finds the count one below the threshold, and wraps nothing.             *)

CountIsStreak == \A b \in Backends : streak[b] < Threshold => failures[b] = streak[b]

LEMMA CountIsStreakStep ==
  HealthTypeOK /\ CountIsStreak /\ [HealthNext]_healthVars => CountIsStreak'
<1> SUFFICES ASSUME HealthTypeOK, CountIsStreak, [HealthNext]_healthVars,
                    NEW c \in Backends, streak'[c] < Threshold
             PROVE  failures'[c] = streak'[c]
  BY DEF CountIsStreak
<1> USE ThresholdAssumption DEF HealthTypeOK, CountIsStreak
<1>1. ASSUME NEW w \in Workers, NEW b \in Backends, RecordSuccess(w, b) \/ Reset(w, b)
      PROVE  failures'[c] = streak'[c]
  BY <1>1 DEF RecordSuccess, Reset, ClearCount
<1>2. ASSUME NEW w \in Workers, NEW b \in Backends, RecordFailure(w, b)
      PROVE  failures'[c] = streak'[c]
  <2>1. /\ failures' = [failures EXCEPT ![b] = (failures[b] + 1) % CountSize]
        /\ streak' = [streak EXCEPT ![b] = IF @ < Threshold THEN @ + 1 ELSE @]
    BY <1>2 DEF RecordFailure
  <2>2. CASE c = b
    <3>1. streak[c] < Threshold /\ streak'[c] = streak[c] + 1
      BY <2>1, <2>2
    <3>2. (failures[c] + 1) % CountSize = failures[c] + 1
      BY <3>1
    <3>3. QED
      BY <2>1, <2>2, <3>1, <3>2
  <2>3. QED
    BY <2>1, <2>2
<1>3. ASSUME NEW w \in Workers, Finish(w)
      PROVE  failures'[c] = streak'[c]
  BY <1>3 DEF Finish, Restore, Mark, Forget, End
<1>4. CASE UNCHANGED healthVars
  BY <1>4 DEF healthVars
<1>5. QED
  BY <1>1, <1>2, <1>3, <1>4 DEF HealthNext

LEMMA EscapeStep ==
  ASSUME HealthTypeOK, CountIsStreak, [HealthNext]_healthVars,
         NEW c \in Backends, streak'[c] = Threshold, ~Demoted(c)'
  PROVE  streak[c] = Threshold /\ (Lifting(c) \/ ~Demoted(c))
<1> USE ThresholdAssumption DEF HealthTypeOK
<1>1. ASSUME NEW w \in Workers, NEW b \in Backends, RecordSuccess(w, b) \/ Reset(w, b)
      PROVE  streak[c] = Threshold /\ (Lifting(c) \/ ~Demoted(c))
  <2>1. /\ doing[w] = "none" /\ ~Locked(b) /\ health' = health
        /\ \E half \in {"restore", "forget"} : doing' = [doing EXCEPT ![w] = half]
        /\ target' = [target EXCEPT ![w] = b]
        /\ streak' = [streak EXCEPT ![b] = 0]
    BY <1>1 DEF RecordSuccess, Reset, Begin, ClearCount
  <2>2. ~Demoted(c)
    BY <2>1 DEF Demoted
  <2>3. CASE c = b
    BY <2>1, <2>2, <2>3
  <2>4. QED
    BY <2>1, <2>2, <2>3
<1>2. ASSUME NEW w \in Workers, NEW b \in Backends, RecordFailure(w, b)
      PROVE  streak[c] = Threshold /\ (Lifting(c) \/ ~Demoted(c))
  <2> DEFINE count == (failures[b] + 1) % CountSize
  <2>1. /\ doing[w] = "none" /\ health' = health
        /\ doing' = [doing EXCEPT ![w] = IF count >= Threshold THEN "mark" ELSE "none"]
        /\ target' = [target EXCEPT ![w] = b]
        /\ streak' = [streak EXCEPT ![b] = IF @ < Threshold THEN @ + 1 ELSE @]
    BY <1>2 DEF RecordFailure, Begin
  <2>2. ASSUME c = b, streak[c] # Threshold PROVE FALSE
    <3>1. streak[c] < Threshold /\ streak[c] + 1 = Threshold
      BY <2>1, <2>2
    <3>2. failures[c] = streak[c]
      BY <3>1 DEF CountIsStreak
    <3>3. count = Threshold
      BY <2>2, <3>1, <3>2
    <3>4. QED
      BY <2>1, <2>2, <3>3 DEF Demoted
  <2> HIDE DEF count
  <2>3. ~Demoted(c)
    BY <2>1 DEF Demoted
  <2>4. QED
    BY <2>1, <2>2, <2>3
<1>3. ASSUME NEW w \in Workers, Finish(w)
      PROVE  streak[c] = Threshold /\ (Lifting(c) \/ ~Demoted(c))
  <2>1. /\ doing' = [doing EXCEPT ![w] = "none"] /\ UNCHANGED <<target, streak>>
        /\ \A b \in Backends : b # target[w] => health'[b] = health[b]
        /\ doing[w] = "mark" => health'[target[w]] = "Unhealthy"
        /\ doing[w] \in {"mark", "restore", "forget"}
    BY <1>3 DEF Finish, Restore, Mark, Forget, End
  <2>2. CASE c = target[w]
    BY <2>1, <2>2 DEF Lifting, Demoted
  <2>3. CASE c # target[w]
    BY <2>1, <2>3 DEF Demoted
  <2>4. QED
    BY <2>1, <2>2, <2>3
<1>4. CASE UNCHANGED healthVars
  BY <1>4 DEF healthVars, Demoted
<1>5. QED
  BY <1>1, <1>2, <1>3, <1>4 DEF HealthNext

\* A full streak of failures is marked unless a late success or reset lifts the
\* mark, for any threshold, width of the count and number of callers
\* (src/proxy/upstream.rs:47-63).
THEOREM OnlyLateLiftsEscapeCorrect == HealthSpec => OnlyLateLiftsEscape
<1>1. HealthInit => CountIsStreak
  BY DEF HealthInit, CountIsStreak
<1>2. HealthTypeOK /\ CountIsStreak /\ [HealthNext]_healthVars
        => [\A b \in Backends :
              streak'[b] = Threshold /\ ~Demoted(b)' =>
                streak[b] = Threshold /\ (Lifting(b) \/ ~Demoted(b))]_healthVars
  BY EscapeStep
<1>3. QED
  BY <1>1, <1>2, CountIsStreakStep, HealthTypeCorrect, PTL DEF HealthSpec, OnlyLateLiftsEscape

-----------------------------------------------------------------------------
(* The load balancer.                                                      *)

\* What was seen stays a set of sets of backends.
LEMMA SeenTyped ==
  ASSUME seen \in [Pickers -> SUBSET SUBSET Backends], ObserveHealth
  PROVE  seen' \in [Pickers -> SUBSET SUBSET Backends]
<1>1. Up' \in SUBSET Backends
  BY DEF Up
<1>2. QED
  BY <1>1 DEF ObserveHealth

\* Other threads make calls of the tracker, and no step of next() writes to it.
LEMMA StepIsTrackerStep == [BalancerNext]_balancerVars => [HealthNext]_healthVars
<1>1. ASSUME NEW p \in Pickers,
             (\E P \in Pools : CallNext(p, P)) \/ Check(p) \/ Decline(p) \/ Pick(p)
      PROVE  UNCHANGED healthVars
  BY <1>1 DEF CallNext, Check, Decline, Pick, Return
<1>2. HealthStep => HealthNext
  BY DEF HealthStep, HealthNext
<1>3. QED
  BY <1>1, <1>2 DEF BalancerNext, balancerVars

\* Each step keeps the type of the state.
LEMMA StepTyped == BalancerTypeOK /\ [BalancerNext]_balancerVars => BalancerTypeOK'
<1> SUFFICES ASSUME BalancerTypeOK, [BalancerNext]_balancerVars PROVE BalancerTypeOK'
  OBVIOUS
<1> USE CounterAssumption, PoolsAssumption DEF BalancerTypeOK, Phases
<1>1. ASSUME NEW p \in Pickers, NEW P \in Pools, CallNext(p, P), ObserveHealth
      PROVE  BalancerTypeOK'
  <2>1. HealthTypeOK'
    BY <1>1 DEF CallNext, healthVars, HealthTypeOK
  <2>2. checked[p] = 0 /\ kept[p] = <<>> /\ Len(P) >= 0
    BY <1>1 DEF CallNext
  <2>3. QED
    BY <1>1, <2>1, <2>2, SeenTyped DEF CallNext
<1>2. ASSUME NEW p \in Pickers, Check(p), ObserveHealth
      PROVE  BalancerTypeOK'
  <2>1. pool[p] \in Seq(Backend) /\ checked[p] \in Nat /\ checked[p] < Len(pool[p])
    BY <1>2 DEF Check
  <2>2. pool[p][checked[p] + 1] \in Backend
    BY <2>1
  <2>3. kept' \in [Pickers -> Seq(Backend)]
    <3> DEFINE longer == IF IsHealthy(pool[p][checked[p] + 1].address)
                         THEN Append(kept[p], pool[p][checked[p] + 1]) ELSE kept[p]
    <3>1. longer \in Seq(Backend)
      BY <2>2
    <3>2. kept' = [kept EXCEPT ![p] = longer]
      BY <1>2 DEF Check
    <3> HIDE DEF longer
    <3>3. QED
      BY <3>1, <3>2
  <2>4. QED
    BY <1>2, <2>1, <2>3, SeenTyped DEF Check, healthVars, HealthTypeOK
<1>3. ASSUME NEW p \in Pickers, Decline(p), ObserveHealth
      PROVE  BalancerTypeOK'
  BY <1>3, SeenTyped DEF Decline, Return, healthVars, HealthTypeOK
<1>4. ASSUME NEW p \in Pickers, Pick(p), ObserveHealth
      PROVE  BalancerTypeOK'
  <2>1. PICK i \in 1..Len(kept[p]) :
          /\ Return(p, <<kept[p][i]>>)
          /\ current' = (current + 1) % CounterSize
          /\ LET picks == Append(recent, [list |-> kept[p], backend |-> kept[p][i]])
             IN  recent' = IF current' = 0 THEN <<>>
                           ELSE IF Len(picks) > Window THEN Tail(picks) ELSE picks
    BY <1>4 DEF Pick
  <2> DEFINE picks == Append(recent, [list |-> kept[p], backend |-> kept[p][i]])
  <2>2. kept[p][i] \in Backend
    OBVIOUS
  <2>3. picks \in Seq(Recorded) /\ picks # <<>>
    <3>1. [list |-> kept[p], backend |-> kept[p][i]] \in Recorded
      BY <2>2 DEF Recorded
    <3>2. recent \in Seq(Recorded)
      OBVIOUS
    <3> HIDE DEF BalancerTypeOK
    <3>3. QED
      BY <3>1, <3>2
  <2>4. recent' \in Seq(Recorded)
    <3>1. Tail(picks) \in Seq(Recorded)
      BY <2>3
    <3>2. \/ recent' = <<>>
          \/ recent' = Tail(picks)
          \/ recent' = picks
      BY <2>1
    <3> HIDE DEF picks, BalancerTypeOK
    <3>3. <<>> \in Seq(Recorded)
      OBVIOUS
    <3>4. QED
      BY <2>3, <3>1, <3>2, <3>3
  <2>5. picked' \in [Pickers -> Seq(Backend)]
    BY <2>1, <2>2 DEF Return
  <2>6. current' \in 0..(CounterSize - 1)
    BY <2>1
  <2>7. QED
    BY <1>4, <2>1, <2>4, <2>5, <2>6, SeenTyped DEF Return, healthVars, HealthTypeOK
<1>5. ASSUME HealthStep, ObserveHealth
      PROVE  BalancerTypeOK'
  BY <1>5, TrackerStepTyped, StepIsTrackerStep, SeenTyped DEF HealthStep, pickVars
<1>6. CASE UNCHANGED balancerVars
  BY <1>6 DEF balancerVars, pickVars, healthVars, HealthTypeOK
<1>7. QED
  BY <1>1, <1>2, <1>3, <1>4, <1>5, <1>6 DEF BalancerNext

\* The state of the load balancer keeps its type (src/proxy/upstream.rs).
THEOREM LoadBalancerTypeCorrect == BalancerSpec => []BalancerTypeOK
<1>1. BalancerInit => BalancerTypeOK
  BY ThresholdAssumption, CounterAssumption
  DEF BalancerInit, HealthInit, BalancerTypeOK, HealthTypeOK, HealthStatus, Halves, Phases
<1>2. QED
  BY <1>1, StepTyped, PTL DEF BalancerSpec

-----------------------------------------------------------------------------
(* Why the answer was true.  While a call is asking the tracker, the       *)
(* history holds what is healthy now, whatever it has kept was healthy     *)
(* when asked about, and if it has kept nothing then each backend it has   *)
(* asked about was unhealthy when asked about.                             *)

KeptWasUp(p) ==
  \A k \in 1..Len(kept[p]) :
    /\ kept[p][k] \in Range(pool[p])
    /\ \E up \in seen[p] : kept[p][k].address \in up

DroppedWasDown(p) ==
  kept[p] = <<>> =>
    \A j \in 1..checked[p] : \E up \in seen[p] : pool[p][j].address \notin up

CheckingInv(p) ==
  phase[p] = "checking" => Up \in seen[p] /\ KeptWasUp(p) /\ DroppedWasDown(p)

ReturnedInv(p) ==
  phase[p] = "returned" =>
    IF picked[p] = <<>>
    THEN \A b \in Addresses(pool[p]) : \E up \in seen[p] : b \notin up
    ELSE /\ picked[p][1] \in Range(pool[p])
         /\ \E up \in seen[p] : picked[p][1].address \in up

AnswerInv == BalancerTypeOK /\ \A p \in Pickers : CheckingInv(p) /\ ReturnedInv(p)

\* The history of a call only grows until the call returns.
LEMMA SeenGrows ==
  ASSUME BalancerTypeOK, ObserveHealth, NEW p \in Pickers
  PROVE  /\ phase'[p] # "checking" => seen'[p] = seen[p]
         /\ phase'[p] = "checking" => Up' \in seen'[p]
         /\ phase[p] = "checking" => seen[p] \subseteq seen'[p]
BY DEF ObserveHealth, BalancerTypeOK

\* A picker that another thread's step leaves alone keeps its invariant.
LEMMA PickerFrame ==
  ASSUME BalancerTypeOK, ObserveHealth, NEW p \in Pickers, CheckingInv(p), ReturnedInv(p),
         phase'[p] = phase[p], pool'[p] = pool[p], checked'[p] = checked[p],
         kept'[p] = kept[p], picked'[p] = picked[p]
  PROVE  CheckingInv(p)' /\ ReturnedInv(p)'
<1>1. CheckingInv(p)'
  <2> SUFFICES ASSUME phase'[p] = "checking"
               PROVE  (Up \in seen[p])' /\ KeptWasUp(p)' /\ DroppedWasDown(p)'
    BY DEF CheckingInv
  <2>1. Up' \in seen'[p] /\ seen[p] \subseteq seen'[p]
    BY SeenGrows
  <2>2. KeptWasUp(p) /\ DroppedWasDown(p)
    BY DEF CheckingInv
  <2>3. KeptWasUp(p)'
    BY <2>1, <2>2 DEF KeptWasUp
  <2>4. DroppedWasDown(p)'
    BY <2>1, <2>2 DEF DroppedWasDown
  <2>5. QED
    BY <2>1, <2>3, <2>4
<1>2. ReturnedInv(p)'
  BY SeenGrows DEF ReturnedInv
<1>3. QED
  BY <1>1, <1>2

\* A new call starts from an empty history that holds what is healthy now.
LEMMA CallNextKeepsAnswer ==
  ASSUME AnswerInv, NEW p \in Pickers, NEW P \in Pools, CallNext(p, P), ObserveHealth
  PROVE  CheckingInv(p)' /\ ReturnedInv(p)'
<1>1. phase'[p] = "checking" /\ kept'[p] = <<>> /\ checked'[p] = 0
  BY DEF CallNext, AnswerInv, BalancerTypeOK
<1>2. Up' \in seen'[p]
  BY <1>1, SeenGrows DEF AnswerInv
<1>3. QED
  BY <1>1, <1>2 DEF CheckingInv, ReturnedInv, KeptWasUp, DroppedWasDown

\* A backend is kept or dropped by the status it has now.
LEMMA CheckKeepsAnswer ==
  ASSUME AnswerInv, NEW p \in Pickers, Check(p), ObserveHealth
  PROVE  CheckingInv(p)' /\ ReturnedInv(p)'
<1> DEFINE j == checked[p] + 1
           b == pool[p][j]
<1>1. /\ phase[p] = "checking" /\ phase'[p] = "checking" /\ pool'[p] = pool[p]
      /\ checked'[p] = j
      /\ kept'[p] = IF IsHealthy(b.address) THEN Append(kept[p], b) ELSE kept[p]
      /\ health' = health
      /\ checked[p] < Len(pool[p]) /\ checked[p] \in Nat
      /\ kept[p] \in Seq(Backend) /\ pool[p] \in Seq(Backend)
  BY PoolsAssumption DEF Check, AnswerInv, BalancerTypeOK, healthVars
<1>2. Up' \in seen'[p] /\ seen[p] \subseteq seen'[p] /\ Up' = Up
  BY <1>1, SeenGrows DEF AnswerInv, Up, IsHealthy
<1>3. b \in Backend /\ b \in Range(pool[p]) /\ j \in 1..Len(pool[p])
  BY <1>1 DEF Range
<1>4. KeptWasUp(p) /\ DroppedWasDown(p)
  BY <1>1 DEF AnswerInv, CheckingInv
<1> HIDE DEF b
<1>5. b.address \in Up <=> IsHealthy(b.address)
  BY <1>3 DEF Up, Backend
<1>6. KeptWasUp(p)'
  <2> SUFFICES ASSUME NEW k \in 1..Len(kept'[p])
               PROVE  /\ kept'[p][k] \in Range(pool[p])
                      /\ \E up \in seen'[p] : kept'[p][k].address \in up
    BY <1>1 DEF KeptWasUp
  <2>1. CASE k \in 1..Len(kept[p])
    <3>1. kept'[p][k] = kept[p][k]
      BY <1>1, <1>3, <2>1
    <3>2. QED
      BY <1>2, <1>4, <2>1, <3>1 DEF KeptWasUp
  <2>2. CASE k \notin 1..Len(kept[p])
    <3>1. kept'[p][k] = b /\ IsHealthy(b.address)
      BY <1>1, <1>3, <2>2
    <3>2. QED
      BY <1>2, <1>3, <1>5, <3>1
  <2>3. QED
    BY <2>1, <2>2
<1>7. DroppedWasDown(p)'
  <2> SUFFICES ASSUME kept'[p] = <<>>, NEW i \in 1..j
               PROVE  \E up \in seen'[p] : pool[p][i].address \notin up
    BY <1>1 DEF DroppedWasDown
  <2>1. kept[p] = <<>> /\ ~IsHealthy(b.address)
    <3>1. Append(kept[p], b) # <<>>
      BY <1>1, <1>3
    <3>2. QED
      BY <1>1, <3>1
  <2>2. CASE i = j
    BY <1>2, <1>5, <2>1, <2>2 DEF b
  <2>3. CASE i # j
    <3>1. i \in 1..checked[p]
      BY <1>1, <2>3
    <3>2. \E up \in seen[p] : pool[p][i].address \notin up
      BY <1>4, <2>1, <3>1 DEF DroppedWasDown
    <3>3. QED
      BY <1>2, <3>2
  <2>4. QED
    BY <2>2, <2>3
<1>8. QED
  BY <1>1, <1>2, <1>6, <1>7 DEF CheckingInv, ReturnedInv

\* None is returned when every backend has been asked about and dropped.
LEMMA DeclineKeepsAnswer ==
  ASSUME AnswerInv, NEW p \in Pickers, Decline(p), ObserveHealth
  PROVE  CheckingInv(p)' /\ ReturnedInv(p)'
<1>1. /\ phase[p] = "checking" /\ phase'[p] = "returned" /\ pool'[p] = pool[p]
      /\ kept[p] = <<>> /\ checked[p] = Len(pool[p]) /\ picked'[p] = <<>>
  BY DEF Decline, Return, AnswerInv, BalancerTypeOK
<1>2. seen'[p] = seen[p]
  BY <1>1, SeenGrows DEF AnswerInv
<1>3. DroppedWasDown(p)
  BY <1>1 DEF AnswerInv, CheckingInv
<1>4. \A c \in Addresses(pool[p]) : \E up \in seen[p] : c \notin up
  BY <1>1, <1>3 DEF DroppedWasDown, Addresses
<1>5. QED
  BY <1>1, <1>2, <1>4 DEF CheckingInv, ReturnedInv

\* A backend is picked among those that were kept.
LEMMA PickKeepsAnswer ==
  ASSUME AnswerInv, NEW p \in Pickers, Pick(p), ObserveHealth
  PROVE  CheckingInv(p)' /\ ReturnedInv(p)'
<1>1. PICK i \in 1..Len(kept[p]) : Return(p, <<kept[p][i]>>)
  BY DEF Pick
<1>2. /\ phase[p] = "checking" /\ phase'[p] = "returned" /\ pool'[p] = pool[p]
      /\ picked'[p] = <<kept[p][i]>>
  BY <1>1 DEF Return, AnswerInv, BalancerTypeOK
<1>3. seen'[p] = seen[p]
  BY <1>2, SeenGrows DEF AnswerInv
<1>4. KeptWasUp(p)
  BY <1>2 DEF AnswerInv, CheckingInv
<1>5. picked'[p] # <<>> /\ picked'[p][1] = kept[p][i]
  BY <1>2
<1>6. QED
  BY <1>2, <1>3, <1>4, <1>5 DEF CheckingInv, ReturnedInv, KeptWasUp

LEMMA AnswerStarts == BalancerInit => AnswerInv
BY ThresholdAssumption, CounterAssumption
DEF BalancerInit, HealthInit, AnswerInv, CheckingInv, ReturnedInv, BalancerTypeOK, HealthTypeOK,
    HealthStatus, Halves, Phases

LEMMA AnswerStep == AnswerInv /\ [BalancerNext]_balancerVars => AnswerInv'
<1> SUFFICES ASSUME AnswerInv, [BalancerNext]_balancerVars, NEW q \in Pickers
             PROVE  CheckingInv(q)' /\ ReturnedInv(q)'
  BY StepTyped DEF AnswerInv
<1>1. CheckingInv(q) /\ ReturnedInv(q) /\ BalancerTypeOK
  BY DEF AnswerInv
<1>2. ASSUME NEW p \in Pickers, ObserveHealth,
             (\E P \in Pools : CallNext(p, P)) \/ Check(p) \/ Decline(p) \/ Pick(p)
      PROVE  CheckingInv(q)' /\ ReturnedInv(q)'
  <2>1. CASE p = q
    BY <1>2, <2>1, CallNextKeepsAnswer, CheckKeepsAnswer, DeclineKeepsAnswer,
       PickKeepsAnswer
  <2>2. CASE p # q
    <3>1. /\ phase'[q] = phase[q] /\ pool'[q] = pool[q]
          /\ checked'[q] = checked[q] /\ kept'[q] = kept[q]
          /\ picked'[q] = picked[q]
      BY <1>1, <1>2, <2>2 DEF CallNext, Check, Decline, Pick, Return, BalancerTypeOK
    <3>2. QED
      BY <1>1, <1>2, <3>1, PickerFrame
  <2>3. QED
    BY <2>1, <2>2
<1>3. CASE HealthStep /\ ObserveHealth
  BY <1>1, <1>3, PickerFrame DEF HealthStep, pickVars
<1>4. CASE UNCHANGED balancerVars
  BY <1>1, <1>4 DEF balancerVars, pickVars, healthVars, CheckingInv, ReturnedInv, Up,
                    IsHealthy, KeptWasUp, DroppedWasDown
<1>5. QED
  BY <1>2, <1>3, <1>4 DEF BalancerNext

\* next() never answers what was not so at some instant of the call: it picks
\* no backend that was unhealthy all along, and returns None only if each
\* backend was unhealthy for a while (src/proxy/upstream.rs:113-137).
THEOREM AnswerCorrect == BalancerSpec => []AnswerWasTrue
<1>1. AnswerInv => AnswerWasTrue
  BY DEF AnswerInv, ReturnedInv, AnswerWasTrue
<1>2. QED
  BY <1>1, AnswerStarts, AnswerStep, PTL DEF BalancerSpec

-----------------------------------------------------------------------------
(* The tracker under the load balancer.                                    *)

\* The load balancer only reads the tracker, between any two writes of the
\* calls that requests make on it: what holds of the tracker alone holds of it
\* here (LoadBalancer::next, src/proxy/upstream.rs:115-118).
THEOREM LoadBalancerKeepsTracker == BalancerSpec => HealthSpec
<1>1. BalancerInit => HealthInit
  BY DEF BalancerInit
<1>2. QED
  BY <1>1, StepIsTrackerStep, PTL DEF BalancerSpec, HealthSpec

-----------------------------------------------------------------------------
(* Induction over data.                                                    *)

\* A set of numbers that is not empty has a least one: induction without an
\* operator as a parameter.
LEMMA Least ==
  ASSUME NEW T \in SUBSET Nat, T # {}
  PROVE  \E m \in T : \A n \in T : m <= n
<1> DEFINE Down == {0..m : m \in T}
<1>1. IsWellFoundedOn(StrictSubsetOrdering(Nat), FiniteSubsetsOf(Nat))
  BY FS_StrictSubsetOrderingWellFounded
<1>2. Down \subseteq FiniteSubsetsOf(Nat)
  <2>1. \A m \in T : IsFiniteSet(0..m) /\ 0..m \in SUBSET Nat
    BY FS_Interval
  <2>2. QED
    BY <2>1 DEF FiniteSubsetsOf
<1>3. Down # {}
  OBVIOUS
<1>4. PICK x \in Down : \A y \in Down : <<y, x>> \notin StrictSubsetOrdering(Nat)
  <2> HIDE DEF Down
  <2>1. QED
    BY <1>1, <1>2, <1>3, WFMin
<1>5. PICK m \in T : x = 0..m
  OBVIOUS
<1>6. ASSUME NEW n \in T, n < m PROVE FALSE
  <2>1. 0..n \subseteq 0..m /\ 0..n # 0..m
    BY <1>6
  <2>2. <<0..n, 0..m>> \in StrictSubsetOrdering(Nat)
    BY <2>1 DEF StrictSubsetOrdering
  <2>3. QED
    BY <1>4, <1>5, <2>2
<1>7. QED
  BY <1>6

-----------------------------------------------------------------------------
(* The slots of a list: consecutive ranges that begin at 0.                *)

\* Each backend fills at least one slot.
LEMMA ShareType == ASSUME NEW b \in Backend PROVE Share(b) \in Nat \ {0}
BY DEF Share, Backend

\* g counts the slots before each of the first m backends of a list.
Counts(g, list, m) ==
  /\ g \in [1..(m + 1) -> Nat]
  /\ g[1] = 0
  /\ \A i \in 1..m : g[i + 1] = g[i] + Share(list[i])

\* There is such a count for each prefix of a list.
LEMMA CountsExist ==
  ASSUME NEW list \in Seq(Backend), NEW m \in 0..Len(list)
  PROVE  \E g : Counts(g, list, m)
<1> DEFINE Bad == {k \in 0..Len(list) : ~\E g : Counts(g, list, k)}
<1> SUFFICES ASSUME Bad # {} PROVE FALSE
  OBVIOUS
<1>1. PICK k \in Bad : \A n \in Bad : k <= n
  <2>1. Bad \in SUBSET Nat
    OBVIOUS
  <2> HIDE DEF Bad
  <2>2. QED
    BY <2>1, Least
<1>2. k \in 0..Len(list) /\ ~\E g : Counts(g, list, k)
  OBVIOUS
<1>3. CASE k = 0
  <2>1. Counts([i \in 1..1 |-> 0], list, 0)
    BY DEF Counts
  <2>2. QED
    BY <1>2, <1>3, <2>1
<1>4. CASE k # 0
  <2>1. k - 1 \in 0..Len(list) /\ ~(k <= k - 1)
    BY <1>2, <1>4
  <2>2. PICK g : Counts(g, list, k - 1)
    <3>1. k - 1 \notin Bad
      <4> HIDE DEF Bad
      <4>1. QED
        BY <1>1, <2>1
    <3>2. QED
      BY <2>1, <3>1
  <2>3. Share(list[k]) \in Nat
    BY <1>2, <1>4, ShareType
  <2> DEFINE h == [i \in 1..(k + 1) |-> IF i = k + 1 THEN g[k] + Share(list[k]) ELSE g[i]]
  <2>4. Counts(h, list, k)
    BY <1>2, <1>4, <2>2, <2>3 DEF Counts
  <2>5. QED
    BY <1>2, <2>4
<1>5. QED
  BY <1>3, <1>4

\* Before, defined by recursion on the place, is the count for the whole list.
LEMMA BeforeCounts ==
  ASSUME NEW list \in Seq(Backend)
  PROVE  Counts(Before(list), list, Len(list))
<1> DEFINE D == 1..(Len(list) + 1)
           F(f) == [i \in D |-> IF i = 1 THEN 0 ELSE f[i - 1] + Share(list[i - 1])]
<1>1. PICK g : Counts(g, list, Len(list))
  BY CountsExist
<1>2. g = F(g)
  <2>1. ASSUME NEW i \in D PROVE g[i] = F(g)[i]
    <3>1. CASE i = 1
      BY <1>1, <3>1 DEF Counts
    <3>2. CASE i # 1
      <4>1. i - 1 \in 1..Len(list) /\ (i - 1) + 1 = i
        BY <3>2
      <4>2. QED
        BY <1>1, <3>2, <4>1 DEF Counts
    <3>3. QED
      BY <3>1, <3>2
  <2>2. QED
    BY <1>1, <2>1 DEF Counts
<1>3. Before(list) = F(Before(list))
  <2>1. Before(list) = CHOOSE f : f = F(f)
    BY DEF Before
  <2>2. QED
    BY <1>2, <2>1
<1>4. ASSUME NEW f, f = F(f) PROVE \A i \in D : f[i] = g[i]
  <2> DEFINE Bad == {i \in D : f[i] # g[i]}
  <2> SUFFICES ASSUME Bad # {} PROVE FALSE
    OBVIOUS
  <2>1. PICK k \in Bad : \A n \in Bad : k <= n
    <3>1. Bad \in SUBSET Nat
      OBVIOUS
    <3> HIDE DEF Bad
    <3>2. QED
      BY <3>1, Least
  <2>2. k \in D /\ f[k] # g[k]
    OBVIOUS
  <2>3. k # 1
    BY <1>1, <1>4, <2>2 DEF Counts
  <2>4. k - 1 \in 1..Len(list) /\ (k - 1) + 1 = k /\ k - 1 \in D /\ ~(k <= k - 1)
    BY <2>2, <2>3
  <2>5. k - 1 \notin Bad
    <3> HIDE DEF Bad
    <3>1. QED
      BY <2>1, <2>4
  <2>6. f[k - 1] = g[k - 1]
    BY <2>4, <2>5
  <2>7. f[k] = f[k - 1] + Share(list[k - 1])
    BY <1>4, <2>2, <2>3
  <2>8. g[k] = g[k - 1] + Share(list[k - 1])
    BY <1>1, <2>4 DEF Counts
  <2>9. QED
    BY <2>2, <2>6, <2>7, <2>8
<1>5. Before(list) = g
  <2>1. \A i \in D : Before(list)[i] = g[i]
    <3> HIDE DEF F
    <3>1. QED
      BY <1>3, <1>4
  <2>2. QED
    BY <1>1, <1>3, <2>1 DEF Counts
<1>6. QED
  BY <1>1, <1>5

\* A backend further on has no fewer slots before it.
LEMMA BeforeGrows ==
  ASSUME NEW list \in Seq(Backend)
  PROVE  \A i, j \in 1..(Len(list) + 1) : i <= j => Before(list)[i] <= Before(list)[j]
<1> DEFINE D == 1..(Len(list) + 1)
           g == Before(list)
           Bad == {j \in D : \E i \in D : i <= j /\ ~(g[i] <= g[j])}
<1> SUFFICES ASSUME Bad # {} PROVE FALSE
  OBVIOUS
<1>1. g \in [D -> Nat] /\ \A i \in 1..Len(list) : g[i + 1] = g[i] + Share(list[i])
  BY BeforeCounts DEF Counts
<1> HIDE DEF g
<1>2. PICK k \in Bad : \A n \in Bad : k <= n
  <2>1. Bad \in SUBSET Nat
    OBVIOUS
  <2> HIDE DEF Bad
  <2>2. QED
    BY <2>1, Least
<1>3. PICK i \in D : k \in D /\ i <= k /\ ~(g[i] <= g[k])
  OBVIOUS
<1>4. i <= k - 1 /\ k - 1 \in 1..Len(list) /\ k - 1 \in D /\ (k - 1) + 1 = k /\ ~(k <= k - 1)
  <2>1. i # k
    BY <1>1, <1>3
  <2>2. QED
    BY <1>3, <2>1
<1>5. k - 1 \notin Bad
  <2> HIDE DEF Bad
  <2>1. QED
    BY <1>2, <1>4
<1>6. g[i] <= g[k - 1]
  BY <1>4, <1>5
<1>7. g[k] = g[k - 1] + Share(list[k - 1]) /\ Share(list[k - 1]) \in Nat
  <2>1. list[k - 1] \in Backend
    BY <1>4
  <2>2. Share(list[k - 1]) \in Nat
    BY <2>1, ShareType
  <2> HIDE DEF D, Bad
  <2>3. QED
    BY <1>1, <1>4, <2>2
<1>8. g[i] \in Nat /\ g[k - 1] \in Nat /\ g[k] \in Nat
  BY <1>1, <1>3, <1>4
<1>9. g[k - 1] <= g[k]
  BY <1>7, <1>8
<1>10. ~(g[i] <= g[k])
  BY <1>3
<1> HIDE DEF D, Bad
<1>11. QED
  BY <1>6, <1>8, <1>9, <1>10

\* The slots of a list are its range of tickets, and no two backends share one.
LEMMA SlotsTile ==
  ASSUME NEW list \in Seq(Backend)
  PROVE  /\ Total(list) \in Nat
         /\ \A i \in 1..Len(list) :
              /\ Before(list)[i] \in Nat
              /\ Slots(list, i) \subseteq 0..(Total(list) - 1)
         /\ \A i, j \in 1..Len(list) : \A s \in Slots(list, i) : s \in Slots(list, j) => i = j
<1> DEFINE g == Before(list)
           n == Len(list)
<1>1. /\ n \in Nat /\ g \in [1..(n + 1) -> Nat]
      /\ \A i \in 1..n : g[i + 1] = g[i] + Share(list[i]) /\ Share(list[i]) \in Nat \ {0}
  BY BeforeCounts, ShareType DEF Counts
<1>2. \A i, j \in 1..(n + 1) : i <= j => g[i] <= g[j]
  BY BeforeGrows
<1>3. Total(list) = g[n + 1]
  BY DEF Total
<1> HIDE DEF g, n
<1>4. ASSUME NEW i \in 1..n PROVE Slots(list, i) = g[i]..(g[i + 1] - 1)
  <2>1. Slots(list, i) = g[i]..(g[i] + Share(list[i]) - 1)
    BY DEF Slots, g
  <2>2. g[i] + Share(list[i]) - 1 = g[i + 1] - 1
    BY <1>1
  <2>3. QED
    BY <2>1, <2>2
<1>5. ASSUME NEW i \in 1..n PROVE Slots(list, i) \subseteq 0..(g[n + 1] - 1)
  <2>1. i + 1 \in 1..(n + 1) /\ n + 1 \in 1..(n + 1) /\ i \in 1..(n + 1)
    BY <1>1
  <2>2. g[i] \in Nat /\ g[i + 1] \in Nat /\ g[n + 1] \in Nat /\ g[i + 1] <= g[n + 1]
    BY <1>1, <1>2, <2>1
  <2>3. g[i]..(g[i + 1] - 1) \subseteq 0..(g[n + 1] - 1)
    BY <2>2
  <2>4. QED
    BY <1>4, <2>3
<1>6. ASSUME NEW i \in 1..n, NEW j \in 1..n, NEW s \in Slots(list, i),
             s \in Slots(list, j), i < j
      PROVE  FALSE
  <2>1. i + 1 \in 1..(n + 1) /\ j \in 1..(n + 1) /\ j + 1 \in 1..(n + 1) /\ i \in 1..(n + 1)
        /\ i + 1 <= j
    BY <1>1, <1>6
  <2>2. g[i + 1] <= g[j] /\ g[i + 1] \in Nat /\ g[j] \in Nat /\ g[i] \in Nat /\ g[j + 1] \in Nat
    BY <1>1, <1>2, <2>1
  <2>3. s \in g[i]..(g[i + 1] - 1) /\ s \in g[j]..(g[j + 1] - 1)
    BY <1>4, <1>6
  <2>4. QED
    BY <2>2, <2>3
<1>7. ASSUME NEW i \in 1..n, NEW j \in 1..n, NEW s \in Slots(list, i), s \in Slots(list, j)
      PROVE  i = j
  <2>1. ~(i < j) /\ ~(j < i)
    BY <1>6, <1>7
  <2>2. i \in Nat /\ j \in Nat
    BY <1>1
  <2>3. QED
    BY <2>1, <2>2
<1>8. \A i \in 1..n : g[i] \in Nat
  BY <1>1
<1>9. g[n + 1] \in Nat
  BY <1>1
<1>10. QED
  BY <1>3, <1>5, <1>7, <1>8, <1>9 DEF g, n

\* Each ticket falls on the slots of one backend, and of one only, whichever
\* the healthy backends and their weights are: next() never looks past the end
\* of the expanded list, and Pick never blocks (src/proxy/upstream.rs:124-137).
THEOREM TicketPicksOneBackend ==
  ASSUME NEW list \in Seq(Backend), list # <<>>, NEW ticket \in Nat
  PROVE  /\ Total(list) \in Nat \ {0}
         /\ \E i \in 1..Len(list) : ticket % Total(list) \in Slots(list, i)
         /\ \A i, j \in 1..Len(list) :
              /\ ticket % Total(list) \in Slots(list, i)
              /\ ticket % Total(list) \in Slots(list, j)
              => i = j
<1> DEFINE g == Before(list)
           n == Len(list)
           T == Total(list)
           s == ticket % T
           Above == {i \in 1..(n + 1) : s < g[i]}
<1>1. /\ n \in Nat \ {0} /\ g \in [1..(n + 1) -> Nat] /\ g[1] = 0 /\ T = g[n + 1]
      /\ \A i \in 1..n : g[i + 1] = g[i] + Share(list[i]) /\ Share(list[i]) \in Nat \ {0}
  BY BeforeCounts, ShareType DEF Counts, Total
<1>2. T \in Nat \ {0}
  <2>1. g[n + 1] = g[n] + Share(list[n]) /\ Share(list[n]) \in Nat \ {0} /\ g[n] \in Nat
    BY <1>1
  <2> HIDE DEF g, n, T
  <2>2. QED
    BY <1>1, <2>1
<1>3. \A i, j \in 1..n : s \in Slots(list, i) /\ s \in Slots(list, j) => i = j
  BY SlotsTile
<1>4. \A i \in 1..n : Slots(list, i) = g[i]..(g[i] + Share(list[i]) - 1)
  BY DEF Slots
<1> HIDE DEF g, T, n
<1>5. s \in 0..(T - 1)
  BY <1>2
<1> HIDE DEF s
<1>6. PICK k \in Above : \A i \in Above : k <= i
  <2>1. Above \in SUBSET Nat
    BY <1>1
  <2>2. n + 1 \in Above
    BY <1>1, <1>2, <1>5
  <2> HIDE DEF Above
  <2>3. QED
    BY <2>1, <2>2, Least
<1>7. k \in 1..(n + 1) /\ s < g[k]
  OBVIOUS
<1>8. k # 1
  BY <1>1, <1>5, <1>7
<1>9. k - 1 \in 1..n /\ (k - 1) + 1 = k /\ k - 1 \in 1..(n + 1) /\ ~(k <= k - 1)
  BY <1>1, <1>7, <1>8
<1>10. ~(s < g[k - 1])
  <2>1. k - 1 \notin Above
    <3> HIDE DEF Above
    <3>1. QED
      BY <1>6, <1>9
  <2>2. QED
    BY <1>9, <2>1
<1>11. s \in Slots(list, k - 1)
  <2>1. g[k] = g[k - 1] + Share(list[k - 1]) /\ Share(list[k - 1]) \in Nat \ {0}
    BY <1>1, <1>9
  <2>2. g[k - 1] \in Nat /\ s \in Nat /\ Slots(list, k - 1) = g[k - 1]..(g[k - 1] + Share(list[k - 1]) - 1)
    BY <1>1, <1>4, <1>5, <1>9
  <2>3. QED
    BY <1>7, <1>10, <2>1, <2>2
<1>12. QED
  BY <1>2, <1>3, <1>9, <1>11 DEF T, s, n

-----------------------------------------------------------------------------
(* Consecutive tickets, modulo the number of slots.                        *)

\* The remainder is what it is for one quotient only.
LEMMA Remainder ==
  ASSUME NEW a \in Nat, NEW T \in Nat \ {0}
  PROVE  /\ a % T \in 0..(T - 1)
         /\ \E q \in Nat : a = q * T + (a % T)
         /\ \A q \in Nat, s \in 0..(T - 1) : a = q * T + s => a % T = s
<1>1. a % T \in 0..(T - 1) /\ a = (a \div T) * T + (a % T) /\ a \div T \in Nat
  OBVIOUS
<1>2. ASSUME NEW q \in Nat, NEW s \in 0..(T - 1), a = q * T + s PROVE a % T = s
  BY <1>2
<1>3. QED
  BY <1>1, <1>2

\* Multiples of a number are at least that number apart.
LEMMA Product ==
  ASSUME NEW p \in Nat, NEW q \in Nat, NEW T \in Nat, p < q
  PROVE  p * T + T <= q * T
<1>1. PICK d \in Nat : q = p + 1 + d
  BY q - p - 1 \in Nat
<1>2. q * T = p * T + T + d * T
  BY <1>1
<1>3. d * T \in Nat /\ p * T \in Nat
  OBVIOUS
<1>4. QED
  BY <1>2, <1>3

\* As many consecutive tickets as there are slots fall on each slot once.
LEMMA Consecutive ==
  ASSUME NEW a \in Nat, NEW T \in Nat \ {0}
  PROVE  /\ \A s \in 0..(T - 1) : \E k \in 1..T : (a + k - 1) % T = s
         /\ \A j, k \in 1..T : (a + j - 1) % T = (a + k - 1) % T => j = k
<1>1. ASSUME NEW s \in 0..(T - 1) PROVE \E k \in 1..T : (a + k - 1) % T = s
  <2>1. PICK q \in Nat : a = q * T + (a % T)
    BY Remainder
  <2>2. a % T \in 0..(T - 1) /\ q * T \in Nat
    BY Remainder
  <2>3. CASE a % T <= s
    <3> DEFINE k == s - (a % T) + 1
    <3>1. k \in 1..T /\ a + k - 1 \in Nat /\ a + k - 1 = q * T + s
      BY <2>1, <2>2, <2>3
    <3> HIDE DEF k
    <3>2. (a + k - 1) % T = s
      BY <3>1, Remainder
    <3>3. QED
      BY <3>1, <3>2
  <2>4. CASE a % T > s
    <3> DEFINE k == T - (a % T) + s + 1
    <3>1. k \in 1..T /\ a + k - 1 \in Nat /\ a + k - 1 = q * T + T + s
      BY <2>1, <2>2, <2>4
    <3>2. q + 1 \in Nat /\ q * T + T = (q + 1) * T
      OBVIOUS
    <3> DEFINE b == a + k - 1
    <3> HIDE DEF k
    <3>3. b \in Nat /\ b = (q + 1) * T + s
      BY <3>1, <3>2
    <3> HIDE DEF b
    <3>4. b % T = s
      BY <3>2, <3>3, Remainder
    <3>5. QED
      BY <3>1, <3>4 DEF b
  <2>5. QED
    BY <2>2, <2>3, <2>4
<1>2. ASSUME NEW j \in 1..T, NEW k \in 1..T, (a + j - 1) % T = (a + k - 1) % T, j < k
      PROVE  FALSE
  <2> DEFINE s == (a + j - 1) % T
  <2>1. a + j - 1 \in Nat /\ a + k - 1 \in Nat
    OBVIOUS
  <2>2. PICK p \in Nat : a + j - 1 = p * T + s
    BY <2>1, Remainder
  <2>3. PICK q \in Nat : a + k - 1 = q * T + ((a + k - 1) % T)
    BY <2>1, Remainder
  <2>4. s \in 0..(T - 1) /\ (a + k - 1) % T = s
    BY <1>2, <2>1, Remainder
  <2> HIDE DEF s
  <2>5. p * T \in Nat /\ q * T \in Nat
    OBVIOUS
  <2>6. p * T < q * T /\ q * T < p * T + T
    BY <1>2, <2>2, <2>3, <2>4, <2>5
  <2>7. ~(p < q)
    BY <2>5, <2>6, Product
  <2>8. ~(q < p)
    BY <2>5, <2>6, Product
  <2>9. QED
    BY <2>6, <2>7, <2>8
<1>3. ASSUME NEW j \in 1..T, NEW k \in 1..T, (a + j - 1) % T = (a + k - 1) % T
      PROVE  j = k
  <2>1. ~(j < k) /\ ~(k < j)
    BY <1>2, <1>3
  <2>2. QED
    BY <2>1
<1>4. QED
  BY <1>1, <1>3

\* The points of K lie in intervals of one length, one interval for each place
\* of I, and fill them without meeting.
FillIntervals(K, I, size, low, of, slot) ==
  /\ IsFiniteSet(I) /\ IsFiniteSet(K) /\ size \in Nat \ {0}
  /\ low \in [I -> Nat] /\ of \in [K -> I] /\ slot \in [K -> Nat]
  /\ \A k \in K : slot[k] \in low[of[k]]..(low[of[k]] + size - 1)
  /\ \A j, k \in K : slot[j] = slot[k] => j = k
  /\ \A i \in I : \A d \in 0..(size - 1) :
       \E k \in K : of[k] = i /\ slot[k] = low[i] + d

\* Such points are as many as the places times the length.
LEMMA PointsFillIntervals ==
  ASSUME NEW K, NEW I, NEW size, NEW low, NEW of, NEW slot,
         FillIntervals(K, I, size, low, of, slot)
  PROVE  Cardinality(K) = size * Cardinality(I)
<1> USE DEF FillIntervals
<1> DEFINE D == 0..(size - 1)
           f == [k \in K |-> <<of[k], slot[k] - low[of[k]]>>]
<1>1. ASSUME NEW k \in K PROVE slot[k] - low[of[k]] \in D
  OBVIOUS
<1>2. f \in [K -> I \X D]
  <2> HIDE DEF D
  <2>1. QED
    BY <1>1
<1>3. ASSUME NEW j \in K, NEW k \in K, f[j] = f[k] PROVE j = k
  <2>1. of[j] = of[k] /\ slot[j] - low[of[j]] = slot[k] - low[of[k]]
    BY <1>3
  <2>2. low[of[k]] \in Nat /\ slot[j] \in Nat /\ slot[k] \in Nat
    OBVIOUS
  <2>3. slot[j] = slot[k]
    BY <2>1, <2>2
  <2>4. QED
    BY <2>3
<1>4. ASSUME NEW t \in I \X D PROVE \E k \in K : f[k] = t
  <2>1. PICK i \in I, d \in D : t = <<i, d>>
    OBVIOUS
  <2>2. PICK k \in K : of[k] = i /\ slot[k] = low[i] + d
    BY <2>1
  <2>3. slot[k] - low[i] = d
    <3>1. low[i] \in Nat /\ d \in Nat
      OBVIOUS
    <3>2. QED
      BY <2>2, <3>1
  <2>4. QED
    BY <2>1, <2>2, <2>3
<1>5. IsFiniteSet(D) /\ Cardinality(D) = size
  <2>1. 0 \in Int /\ size - 1 \in Int /\ ~(0 > size - 1) /\ (size - 1) - 0 + 1 = size
    OBVIOUS
  <2>2. QED
    BY <2>1, FS_Interval
<1> HIDE DEF f, D
<1>6. f \in Bijection(K, I \X D)
  <2>1. \A j, k \in K : f[j] = f[k] => j = k
    BY <1>3
  <2>2. \A t \in I \X D : \E k \in K : f[k] = t
    BY <1>4
  <2>3. QED
    BY <1>2, <2>1, <2>2, Fun_IsBij
<1>7. Cardinality(K) = Cardinality(I \X D)
  BY <1>6, FS_Bijection DEF ExistsBijection
<1>8. Cardinality(I \X D) = Cardinality(I) * Cardinality(D)
  BY <1>5, FS_Product
<1>9. Cardinality(I) \in Nat
  BY FS_CardinalityType
<1>10. QED
  BY <1>5, <1>7, <1>8, <1>9

\* Picks that take as many consecutive tickets as a list has slots.
Round(list, a, picks) ==
  /\ picks \in [1..Total(list) -> Backend]
  /\ \A k \in 1..Total(list) : \E i \in 1..Len(list) :
       picks[k] = list[i] /\ (a + k - 1) % Total(list) \in Slots(list, i)

\* They give each backend its share, once for each time it is in the list.
LEMMA RoundIsExact ==
  ASSUME NEW list \in Seq(Backend), Total(list) \in Nat \ {0}, NEW a \in Nat,
         NEW picks, Round(list, a, picks), NEW b \in Range(list)
  PROVE  Cardinality({k \in 1..Total(list) : picks[k] = b})
           = Share(b) * Cardinality({i \in 1..Len(list) : list[i] = b})
<1> DEFINE T == Total(list)
<1> HIDE DEF T
<1>00. T \in Nat \ {0}
  BY DEF T
<1>0. /\ \A s \in 0..(T - 1) : \E k \in 1..T : (a + k - 1) % T = s
      /\ \A j, k \in 1..T : (a + j - 1) % T = (a + k - 1) % T => j = k
  BY <1>00, Consecutive
<1> DEFINE K == {k \in 1..T : picks[k] = b}
           I == {i \in 1..Len(list) : list[i] = b}
           Good(k, i) == picks[k] = list[i] /\ (a + k - 1) % T \in Slots(list, i)
           low == [i \in I |-> Before(list)[i]]
           of == [k \in K |-> CHOOSE i \in 1..Len(list) : Good(k, i)]
           slot == [k \in K |-> (a + k - 1) % T]
<1>1. b \in Backend /\ Share(b) \in Nat \ {0}
  BY ShareType DEF Range
<1>2. \A i \in 1..Len(list) : Before(list)[i] \in Nat /\ Slots(list, i) \subseteq 0..(T - 1)
  BY SlotsTile DEF T
<1>3. \A i, j \in 1..Len(list) : \A s \in Slots(list, i) : s \in Slots(list, j) => i = j
  BY SlotsTile
<1>4. \A k \in 1..T : \E i \in 1..Len(list) : Good(k, i)
  BY DEF Round, T
<1>5. \A i \in I : low[i] \in Nat /\ Slots(list, i) = low[i]..(low[i] + Share(b) - 1)
  BY <1>2 DEF Slots
<1>6. \A k \in K : slot[k] = (a + k - 1) % T /\ slot[k] \in Nat /\ k \in 1..T
  BY <1>00
<1>7. \A k \in K : of[k] \in I /\ slot[k] \in Slots(list, of[k])
  <2> TAKE k \in K
  <2> HIDE DEF Good
  <2>1. of[k] \in 1..Len(list) /\ Good(k, of[k])
    BY <1>4
  <2>2. picks[k] = b
    OBVIOUS
  <2>3. QED
    BY <2>1, <2>2 DEF Good
<1>8. IsFiniteSet(K) /\ IsFiniteSet(I)
  <2>1. IsFiniteSet(1..T) /\ IsFiniteSet(1..Len(list))
    BY <1>00, FS_Interval
  <2>2. K \in SUBSET (1..T) /\ I \in SUBSET (1..Len(list))
    OBVIOUS
  <2> HIDE DEF K, I
  <2>3. QED
    BY <2>1, <2>2, FS_Subset
<1>9. low \in [I -> Nat] /\ of \in [K -> I] /\ slot \in [K -> Nat]
  <2> HIDE DEF K, I
  <2>1. QED
    BY <1>5, <1>6, <1>7
<1>10. \A i \in I : \A s \in Slots(list, i) : \E k \in K : of[k] = i /\ slot[k] = s
  <2> TAKE i \in I
  <2> TAKE s \in Slots(list, i)
  <2>1. PICK k \in 1..T : (a + k - 1) % T = s
    BY <1>2, <1>0
  <2>2. PICK j \in 1..Len(list) : Good(k, j)
    BY <1>4
  <2>3. j = i
    BY <1>3, <2>1, <2>2
  <2>4. k \in K
    BY <2>2, <2>3
  <2>5. slot[k] = s
    BY <1>6, <2>1, <2>4
  <2>6. of[k] \in 1..Len(list) /\ s \in Slots(list, of[k])
    BY <1>7, <2>4, <2>5
  <2> HIDE DEF of, slot, K
  <2>7. of[k] = i
    BY <1>3, <2>6
  <2>8. QED
    BY <2>4, <2>5, <2>7
<1>11. \A j, k \in K : slot[j] = slot[k] => j = k
  <2> TAKE j, k \in K
  <2>1. HAVE slot[j] = slot[k]
  <2>2. (a + j - 1) % T = (a + k - 1) % T /\ j \in 1..T /\ k \in 1..T
    BY <1>6, <2>1
  <2>3. QED
    BY <2>2, <1>0
<1> HIDE DEF K, I, Good, low, of, slot
<1>12. \A k \in K : slot[k] \in low[of[k]]..(low[of[k]] + Share(b) - 1)
  BY <1>5, <1>7
<1>13. \A i \in I : \A d \in 0..(Share(b) - 1) : \E k \in K : of[k] = i /\ slot[k] = low[i] + d
  <2> TAKE i \in I
  <2> TAKE d \in 0..(Share(b) - 1)
  <2>1. low[i] + d \in Slots(list, i)
    BY <1>1, <1>5
  <2>2. QED
    BY <1>10, <2>1
<1>14. Cardinality(K) = Share(b) * Cardinality(I)
  <2>1. FillIntervals(K, I, Share(b), low, of, slot)
    BY <1>1, <1>8, <1>9, <1>11, <1>12, <1>13 DEF FillIntervals
  <2>2. QED
    BY <2>1, PointsFillIntervals
<1>15. QED
  BY <1>14 DEF K, I, T

-----------------------------------------------------------------------------
(* Why the shares are exact.  The picks that the history holds have taken  *)
(* consecutive tickets, the last of them the one before the counter, and   *)
(* each is of the backend that its ticket falls on.                        *)

\* The ticket of the k-th pick of the history.
TicketOf(k) == current - Len(recent) + k - 1

\* That pick is the i-th backend of its list, on whose slots the ticket fell.
Drawn(k, i) ==
  /\ recent[k].backend = recent[k].list[i]
  /\ TicketOf(k) % Total(recent[k].list) \in Slots(recent[k].list, i)

\* The counter has not wrapped under the history, and each pick was drawn.
TicketInv ==
  /\ Len(recent) <= current
  /\ \A k \in 1..Len(recent) : \E i \in 1..Len(recent[k].list) : Drawn(k, i)

\* A pick draws the next ticket, and may drop the oldest pick from the history.
LEMMA PickKeepsTickets ==
  ASSUME BalancerTypeOK, TicketInv, NEW p \in Pickers, Pick(p), BalancerTypeOK'
  PROVE  TicketInv'
<1> DEFINE n == Len(recent)
<1>1. PICK i \in 1..Len(kept[p]) :
        /\ current % Total(kept[p]) \in Slots(kept[p], i)
        /\ current' = (current + 1) % CounterSize
        /\ LET picks == Append(recent, [list |-> kept[p], backend |-> kept[p][i]])
           IN  recent' = IF current' = 0 THEN <<>>
                         ELSE IF Len(picks) > Window THEN Tail(picks) ELSE picks
  BY DEF Pick
<1> DEFINE pick == [list |-> kept[p], backend |-> kept[p][i]]
           picks == Append(recent, pick)
<1>2. /\ recent \in Seq(Recorded) /\ pick \in Recorded /\ n \in Nat
      /\ current \in 0..(CounterSize - 1) /\ CounterSize \in Nat \ {0}
  BY CounterAssumption DEF BalancerTypeOK, Recorded
<1>3. CASE current' = 0
  BY <1>1, <1>3 DEF TicketInv
<1>4. CASE current' # 0
  <2>1. current' = current + 1
    <3>1. CASE current + 1 = CounterSize
      <4>1. CounterSize = 1 * CounterSize + 0 /\ 0 \in 0..(CounterSize - 1)
        BY <1>2
      <4>2. CounterSize % CounterSize = 0
        BY <1>2, <4>1, Remainder
      <4>3. QED
        BY <1>1, <1>4, <3>1, <4>2
    <3>2. CASE current + 1 < CounterSize
      <4>1. \A m \in 0..(CounterSize - 1) : m % CounterSize = m
        BY <1>2
      <4>2. QED
        BY <1>1, <1>2, <3>2, <4>1
    <3>3. QED
      BY <1>2, <3>1, <3>2
  <2>2. /\ picks \in Seq(Recorded) /\ Len(picks) = n + 1 /\ picks[n + 1] = pick
        /\ \A k \in 1..n : picks[k] = recent[k]
    BY <1>2
  <2>3. ASSUME NEW k \in 1..(n + 1)
        PROVE  \E j \in 1..Len(picks[k].list) :
                 /\ picks[k].backend = picks[k].list[j]
                 /\ (current - n + k - 1) % Total(picks[k].list) \in Slots(picks[k].list, j)
    <3>1. CASE k = n + 1
      <4>1. current - n + k - 1 = current
        BY <1>2, <3>1
      <4>2. picks[k].list = kept[p] /\ picks[k].backend = kept[p][i]
        BY <2>2, <3>1
      <4> HIDE DEF picks, pick, n
      <4>3. (current - n + k - 1) % Total(picks[k].list) \in Slots(picks[k].list, i)
        BY <1>1, <4>1, <4>2
      <4>4. i \in 1..Len(picks[k].list) /\ picks[k].backend = picks[k].list[i]
        BY <4>2
      <4>5. QED
        BY <4>3, <4>4
    <3>2. CASE k # n + 1
      <4>1. k \in 1..n /\ picks[k] = recent[k]
        BY <1>2, <2>2, <3>2
      <4>2. PICK j \in 1..Len(recent[k].list) : Drawn(k, j)
        BY <4>1 DEF TicketInv
      <4> HIDE DEF picks, pick
      <4>3. QED
        BY <4>1, <4>2 DEF Drawn, TicketOf
    <3>3. QED
      BY <3>1, <3>2
  <2>4. n <= current
    BY DEF TicketInv
  <2> HIDE DEF picks, pick
  <2>5. CASE recent' = picks
    <3>1. Len(recent') = n + 1
      BY <2>2, <2>5
    <3>2. ASSUME NEW k \in 1..(n + 1) PROVE TicketOf(k)' = current - n + k - 1
      BY <1>2, <2>1, <3>1 DEF TicketOf
    <3>3. ASSUME NEW k \in 1..(n + 1)
          PROVE  \E j \in 1..Len(recent'[k].list) : Drawn(k, j)'
      <4>1. recent'[k] = picks[k] /\ TicketOf(k)' = current - n + k - 1
        BY <2>5, <3>2
      <4>2. PICK j \in 1..Len(picks[k].list) :
              /\ picks[k].backend = picks[k].list[j]
              /\ (current - n + k - 1) % Total(picks[k].list) \in Slots(picks[k].list, j)
        BY <2>3
      <4>3. Drawn(k, j)'
        BY <4>1, <4>2 DEF Drawn
      <4>4. QED
        BY <4>1, <4>2, <4>3
    <3>4. n + 1 <= current'
      BY <1>2, <2>1, <2>4
    <3>5. QED
      BY <3>1, <3>3, <3>4 DEF TicketInv
  <2>6. CASE recent' = Tail(picks)
    <3>1. Len(recent') = n /\ \A k \in 1..n : recent'[k] = picks[k + 1]
      BY <1>2, <2>2, <2>6
    <3>2. ASSUME NEW k \in 1..n PROVE TicketOf(k)' = current - n + (k + 1) - 1 /\ k + 1 \in 1..(n + 1)
      BY <1>2, <2>1, <3>1 DEF TicketOf
    <3>3. ASSUME NEW k \in 1..n
          PROVE  \E j \in 1..Len(recent'[k].list) : Drawn(k, j)'
      <4>1. recent'[k] = picks[k + 1] /\ TicketOf(k)' = current - n + (k + 1) - 1
        BY <3>1, <3>2
      <4>2. PICK j \in 1..Len(picks[k + 1].list) :
              /\ picks[k + 1].backend = picks[k + 1].list[j]
              /\ (current - n + (k + 1) - 1) % Total(picks[k + 1].list)
                   \in Slots(picks[k + 1].list, j)
        BY <2>3, <3>2
      <4>3. Drawn(k, j)'
        BY <4>1, <4>2 DEF Drawn
      <4>4. QED
        BY <4>1, <4>2, <4>3
    <3>4. n <= current'
      BY <1>2, <2>1, <2>4
    <3>5. QED
      BY <3>1, <3>3, <3>4 DEF TicketInv
  <2>7. QED
    BY <1>1, <1>4, <2>5, <2>6 DEF picks, pick
<1>5. QED
  BY <1>3, <1>4

\* So does each step: one on the tracker clears the history or leaves it alone.
LEMMA TicketStep ==
  BalancerTypeOK /\ BalancerTypeOK' /\ TicketInv /\ [BalancerNext]_balancerVars => TicketInv'
<1> SUFFICES ASSUME BalancerTypeOK, BalancerTypeOK', TicketInv, [BalancerNext]_balancerVars
             PROVE  TicketInv'
  OBVIOUS
<1>1. ASSUME NEW p \in Pickers, Pick(p) PROVE TicketInv'
  BY <1>1, PickKeepsTickets
<1>2. CASE UNCHANGED <<current, recent>>
  BY <1>2 DEF TicketInv, Drawn, TicketOf
<1>3. CASE UNCHANGED current /\ recent' = <<>>
  BY <1>3, CounterAssumption DEF TicketInv, BalancerTypeOK
<1>4. QED
  BY <1>1, <1>2, <1>3
  DEF BalancerNext, CallNext, Check, Decline, HealthStep, balancerVars, pickVars

\* The tickets of a full round fall on each slot once.
LEMMA TicketsGiveShares == BalancerTypeOK /\ TicketInv => ExactShare
<1> DEFINE n == Len(recent)
           list == recent[n].list
           T == Total(list)
           last == SubSeq(recent, n - T + 1, n)
           a == current - T
<1> SUFFICES ASSUME BalancerTypeOK, TicketInv, n > 0, T <= n,
                    \A k \in DOMAIN last : last[k].list = list, NEW b \in Range(list)
             PROVE  Cardinality({k \in DOMAIN last : last[k].backend = b})
                      = Share(b) * Cardinality({i \in DOMAIN list : list[i] = b})
  BY DEF ExactShare
<1>1. recent \in Seq(Recorded) /\ n \in Nat \ {0} /\ n \in 1..Len(recent) /\ current \in Nat
  BY CounterAssumption DEF BalancerTypeOK
<1>2. recent[n] \in Recorded
  BY <1>1
<1>3. list \in Seq(Backend)
  BY <1>2 DEF Recorded
<1>4. T \in Nat \ {0}
  <2>1. PICK i \in 1..Len(list) : TicketOf(n) % T \in Slots(list, i)
    BY <1>1 DEF TicketInv, Drawn
  <2>2. T \in Nat /\ Slots(list, i) \subseteq 0..(T - 1)
    BY <1>3, SlotsTile
  <2>3. QED
    BY <2>1, <2>2
<1>5. /\ DOMAIN last = 1..T
      /\ \A k \in 1..T : last[k] = recent[n - T + k] /\ n - T + k \in 1..n
  <2> HIDE DEF T
  <2>1. QED
    BY <1>1, <1>4
<1>6. a \in Nat
  BY <1>1, <1>4 DEF TicketInv
<1>7. ASSUME NEW k \in 1..T
      PROVE  /\ last[k].backend \in Backend
             /\ \E i \in 1..Len(list) :
                  last[k].backend = list[i] /\ (a + k - 1) % T \in Slots(list, i)
  <2>1. last[k].list = list /\ last[k] = recent[n - T + k] /\ n - T + k \in 1..n
    BY <1>5
  <2>2. TicketOf(n - T + k) = a + k - 1
    BY <1>1, <1>4 DEF TicketOf
  <2>3. PICK i \in 1..Len(recent[n - T + k].list) : Drawn(n - T + k, i)
    BY <2>1 DEF TicketInv
  <2>4. recent[n - T + k] \in Recorded
    BY <1>1, <2>1
  <2>5. last[k].backend \in Backend
    BY <2>1, <2>4 DEF Recorded
  <2>6. QED
    BY <2>1, <2>2, <2>3, <2>5 DEF Drawn
<1>8. DOMAIN list = 1..Len(list)
  BY <1>3
<1> DEFINE picks == [k \in 1..T |-> last[k].backend]
<1> HIDE DEF last, list, a
<1>9. Cardinality({k \in 1..T : picks[k] = b})
        = Share(b) * Cardinality({i \in 1..Len(list) : list[i] = b})
  <2>1. picks \in [1..T -> Backend]
    BY <1>7
  <2>2. \A k \in 1..T : \E i \in 1..Len(list) :
          picks[k] = list[i] /\ (a + k - 1) % T \in Slots(list, i)
    BY <1>7
  <2> HIDE DEF picks
  <2>3. Round(list, a, picks)
    BY <2>1, <2>2 DEF Round
  <2>4. QED
    BY <1>3, <1>4, <1>6, <2>3, RoundIsExact
<1>10. {k \in 1..T : picks[k] = b} = {k \in 1..T : last[k].backend = b}
  OBVIOUS
<1>11. QED
  BY <1>5, <1>8, <1>9, <1>10

\* While no status changes and the counter does not wrap, any round of picks
\* from one list, by whichever threads, gives each backend exactly its weight,
\* for any weights and lists: no ticket is drawn twice or lost between the
\* threads (the fetch_add of src/proxy/upstream.rs:135).
THEOREM ExactShareCorrect == BalancerSpec => []ExactShare
<1>1. BalancerInit => TicketInv
  BY CounterAssumption DEF BalancerInit, TicketInv
<1>2. QED
  BY <1>1, TicketStep, TicketsGiveShares, LoadBalancerTypeCorrect, PTL DEF BalancerSpec
=============================================================================
