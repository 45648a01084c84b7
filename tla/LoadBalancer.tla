----------------------------- MODULE LoadBalancer -----------------------------
(***************************************************************************)
(* LoadBalancer (src/proxy/upstream.rs): weighted round-robin over the     *)
(* backends of the rule a request matched.  One counter serves every rule  *)
(* of the router.  next() asks the HealthTracker about the backends one by *)
(* one, while other threads record successes and failures, and only then   *)
(* takes a ticket from the counter.                                        *)
(***************************************************************************)
EXTENDS HealthTracker, Sequences, SequencesExt

CONSTANTS
  Pools,        \* the backend lists of rules: sequences of Backend
  Pickers,      \* threads that may be inside next()
  CounterSize,  \* the counter wraps here (usize: 2^64)
  NoPool,       \* a picker that has served no call yet
  Window        \* how many picks the history recent keeps

Backend == [address : Backends, weight : Nat]

ASSUME PoolsAssumption == \A P \in Pools : P \in Seq(Backend)
ASSUME CounterAssumption == CounterSize \in Nat \ {0}

VARIABLES
  current,  \* the ticket counter
  pool,     \* the backends that each picker chooses from
  checked,  \* how many of them it has asked the tracker about
  kept,     \* the healthy ones among those
  picked,   \* what its call returned: <<>> for None, or <<a backend>>
  phase,    \* where in next() it is
  seen,     \* history: the sets of healthy addresses there were meanwhile
  recent    \* history: the last picks, as [list, backend], since a status
            \* changed or the counter wrapped

pickVars == <<current, pool, checked, kept, picked, phase>>
balancerVars == <<healthVars, pickVars, seen, recent>>

-----------------------------------------------------------------------------
\* A backend fills as many slots of the expanded list as its weight says, and
\* one if that is zero.
Share(b) == IF b.weight = 0 THEN 1 ELSE b.weight
Before(list) ==
  LET slots[i \in 1..(Len(list) + 1)] ==
        IF i = 1 THEN 0 ELSE slots[i - 1] + Share(list[i - 1])
  IN  slots
Total(list) == Before(list)[Len(list) + 1]
\* Mutant of Slots: each range reaches into the next.
SlotsOverlap(list, i) == Before(list)[i]..(Before(list)[i] + Share(list[i]))
Slots(list, i) == Before(list)[i]..(Before(list)[i] + Share(list[i]) - 1)

Up == {b \in Backends : IsHealthy(b)}

BalancerInit ==
  /\ HealthInit
  /\ current = 0
  /\ pool = [p \in Pickers |-> NoPool]
  /\ checked = [p \in Pickers |-> 0]
  /\ kept = [p \in Pickers |-> <<>>]
  /\ picked = [p \in Pickers |-> <<>>]
  /\ phase = [p \in Pickers |-> "idle"]
  /\ seen = [p \in Pickers |-> {}]
  /\ recent = <<>>

-----------------------------------------------------------------------------
CallNext(p, P) ==
  /\ phase[p] \in {"idle", "returned"}
  /\ phase' = [phase EXCEPT ![p] = "checking"]
  /\ pool' = [pool EXCEPT ![p] = P]
  /\ picked' = [picked EXCEPT ![p] = <<>>]
  /\ UNCHANGED <<healthVars, current, checked, kept, recent>>

\* Mutant of Check: the status is not asked for.
CheckNothing(p) ==
  /\ phase[p] = "checking"
  /\ checked[p] < Len(pool[p])
  /\ checked' = [checked EXCEPT ![p] = @ + 1]
  /\ kept' = [kept EXCEPT ![p] = Append(@, pool[p][checked[p] + 1])]
  /\ UNCHANGED <<healthVars, current, pool, picked, phase, recent>>

Check(p) ==
  LET b == pool[p][checked[p] + 1]
  IN
  /\ phase[p] = "checking"
  /\ checked[p] < Len(pool[p])
  /\ checked' = [checked EXCEPT ![p] = @ + 1]
  /\ kept' = [kept EXCEPT ![p] = IF IsHealthy(b.address) THEN Append(@, b) ELSE @]
  /\ UNCHANGED <<healthVars, current, pool, picked, phase, recent>>

\* Mutant of Return: the list is kept for the next call.
ReturnAndKeep(p, result) ==
  /\ phase[p] = "checking"
  /\ checked[p] = Len(pool[p])
  /\ phase' = [phase EXCEPT ![p] = "returned"]
  /\ picked' = [picked EXCEPT ![p] = result]
  /\ checked' = [checked EXCEPT ![p] = 0]
  /\ UNCHANGED <<healthVars, pool, kept>>

\* No ticket is taken when nothing is left to choose from.
Return(p, result) ==
  /\ phase[p] = "checking"
  /\ checked[p] = Len(pool[p])
  /\ phase' = [phase EXCEPT ![p] = "returned"]
  /\ picked' = [picked EXCEPT ![p] = result]
  /\ checked' = [checked EXCEPT ![p] = 0]
  /\ kept' = [kept EXCEPT ![p] = <<>>]
  /\ UNCHANGED <<healthVars, pool>>

Decline(p) ==
  /\ kept[p] = <<>>
  /\ Return(p, <<>>)
  /\ UNCHANGED <<current, recent>>

Pick(p) ==
  \E i \in 1..Len(kept[p]) :
    /\ current % Total(kept[p]) \in Slots(kept[p], i)
    /\ Return(p, <<kept[p][i]>>)
    /\ current' = (current + 1) % CounterSize
    /\ LET picks == Append(recent, [list |-> kept[p], backend |-> kept[p][i]])
       IN  recent' = IF current' = 0 THEN <<>>
                     ELSE IF Len(picks) > Window THEN Tail(picks) ELSE picks

\* The calls that requests already under way make on the tracker (reset() has
\* no caller but its test).
HealthStep ==
  /\ \E w \in Workers :
       \/ \E b \in Backends : RecordSuccess(w, b) \/ RecordFailure(w, b)
       \/ Finish(w)
  /\ UNCHANGED pickVars
  /\ recent' = IF Up' = Up THEN recent ELSE <<>>

\* What was healthy while a call was under way.
ObserveHealth ==
  seen' = [p \in Pickers |->
    IF phase'[p] # "checking" THEN seen[p]
    ELSE (IF phase[p] = "checking" THEN seen[p] ELSE {}) \cup {Up'}]

BalancerNext ==
  /\ \/ \E p \in Pickers : \/ \E P \in Pools : CallNext(p, P)
                           \/ Check(p) \/ Decline(p) \/ Pick(p)
     \/ HealthStep
  /\ ObserveHealth

BalancerSpec == BalancerInit /\ [][BalancerNext]_balancerVars

-----------------------------------------------------------------------------
Phases == {"idle", "checking", "returned"}
Recorded == [list : Seq(Backend), backend : Backend]

BalancerTypeOK ==
  /\ HealthTypeOK
  /\ current \in 0..(CounterSize - 1)
  /\ pool \in [Pickers -> Pools \cup {NoPool}]
  /\ phase \in [Pickers -> Phases]
  /\ checked \in [Pickers -> Nat]
  /\ kept \in [Pickers -> Seq(Backend)]
  /\ picked \in [Pickers -> Seq(Backend)]
  /\ seen \in [Pickers -> SUBSET SUBSET Backends]
  /\ recent \in Seq(Recorded)
  /\ \A p \in Pickers :
       /\ phase[p] # "idle" => pool[p] \in Pools
       /\ IF phase[p] = "checking" THEN checked[p] <= Len(pool[p])
          ELSE checked[p] = 0 /\ kept[p] = <<>>

Addresses(list) == {list[i].address : i \in 1..Len(list)}

\* What next() returns was so at some instant of the call: the backend it picks
\* was then healthy, and when it returns None each backend of the pool was then
\* unhealthy, though not all of them at one and the same instant (the filter of
\* src/proxy/upstream.rs:115-122 against concurrent record_success and
\* record_failure).
AnswerWasTrue ==
  \A p \in Pickers : phase[p] = "returned" =>
    IF picked[p] = <<>>
    THEN \A b \in Addresses(pool[p]) : \E up \in seen[p] : b \notin up
    ELSE /\ picked[p][1] \in Range(pool[p])
         /\ \E up \in seen[p] : picked[p][1].address \in up

\* As many picks in a row from one list as its weights add up to, with no change
\* of a status and no wrap of the counter between them, give every backend its
\* weight exactly, however many threads pick and whatever the counter was at the
\* start: no ticket is given out twice or skipped, nor is one lost by a call that
\* returns None (fetch_add, src/proxy/upstream.rs:120-136).
ExactShare ==
  LET n == Len(recent)
  IN  n > 0 =>
    LET list == recent[n].list
        last == SubSeq(recent, n - Total(list) + 1, n)
    IN  Total(list) <= n /\ (\A k \in DOMAIN last : last[k].list = list)
          => \A b \in Range(list) :
               Cardinality({k \in DOMAIN last : last[k].backend = b})
                 = Share(b) * Cardinality({i \in DOMAIN list : list[i] = b})
=============================================================================
