---------------------------- MODULE ConfigRegister ----------------------------
(***************************************************************************)
(* What the process promises to its one controller: a register that holds  *)
(* a configuration and its version.  It is empty, under version 0, or      *)
(* holds what the controller wants or wanted before; a sync takes it to    *)
(* what is wanted now, and a restart empties it.  Retries, calls that      *)
(* overlap and calls served late are not to be seen.                       *)
(***************************************************************************)
EXTENDS RouteConfig

CONSTANT Syncing  \* the view while a sync is under way

VARIABLES
  view,     \* the tables, or Syncing
  version,  \* the version that Health reports
  wanted    \* the configuration that the controller wants

vars == <<view, version, wanted>>

Init ==
  /\ view = Empty
  /\ version = 0
  /\ wanted \in Requests

\* The controller turns to a newer configuration, never during a sync.
Want(R) ==
  /\ R.version > wanted.version
  /\ wanted' = R
  /\ view # Syncing
  /\ UNCHANGED <<view, version>>

\* A sync never begins while the register holds what is not yet wanted.
Begin ==
  /\ version <= wanted.version
  /\ view' = Syncing
  /\ UNCHANGED <<version, wanted>>

\* A delivery announces its version, and the last one also ends the sync.
Announce ==
  /\ version' = wanted.version
  /\ view = Syncing
  /\ view' \in {Syncing, TablesOf(wanted)}
  /\ UNCHANGED wanted

Lose ==
  /\ version' = 0
  /\ view' = Empty
  /\ UNCHANGED wanted

Next == (\E R \in Requests : Want(R)) \/ Begin \/ Announce \/ Lose

Spec == Init /\ [][Next]_vars
=============================================================================
