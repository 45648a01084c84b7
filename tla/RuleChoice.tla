------------------------------ MODULE RuleChoice ------------------------------
(***************************************************************************)
(* What Router::find_backend (src/proxy/router.rs) promises to a request,  *)
(* without scores, order or partial results: it is asked about the routes  *)
(* as they were cloned, and answers once, with the rule of theirs that the *)
(* documented precedence puts first, or with none.                         *)
(***************************************************************************)
EXTENDS RouteRules

VARIABLES
  host, path,  \* the request
  table,       \* the routes it is about
  pending,     \* it has had no answer yet
  answer       \* the rule found for it, or None

vars == <<host, path, table, pending, answer>>

Init ==
  /\ host \in Host /\ path \in Paths
  /\ table = {}
  /\ pending = FALSE
  /\ answer = None

\* Where there are no routes the answer is None at once.
Ask ==
  /\ ~pending
  /\ host' \in Host /\ path' \in Paths
  /\ table' \in SUBSET Route
  /\ pending' = (table' # {})
  /\ answer' = None

Answer ==
  /\ pending
  /\ pending' = FALSE
  /\ IsFirst(answer', table, host, path)
  /\ UNCHANGED <<host, path, table>>

Next == Ask \/ Answer

Spec == Init /\ [][Next]_vars
=============================================================================
