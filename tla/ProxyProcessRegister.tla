------------------------- MODULE ProxyProcessRegister -------------------------
(***************************************************************************)
(* The process with its controller implements ConfigRegister: seen between *)
(* calls, the store is a register.                                         *)
(***************************************************************************)
EXTENDS ProxyProcess, RouteStoreSync

Register == INSTANCE ConfigRegister WITH view <- view

\* However often a configuration is delivered again, late or to a new process,
\* between calls the controller finds the tables it wanted last or before, whole
\* and under their version, or those of an empty store; and only a restart takes
\* it back to less than it had (RouteStore::update_routes under main, with a
\* controller that awaits its calls).
ImplementsRegister == Register!Spec
=============================================================================
