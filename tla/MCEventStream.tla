----------------------------- MODULE MCEventStream -----------------------------
(* An instance of EventStream for TLC.                                       *)
EXTENDS EventStream

Connections == 1 .. 4

(* A connection an event monitor has left stays until two more events have   *)
(* been sent, so each change may cost it one; level frames keep coming.      *)
Allowed == [events |-> Connections, levels |-> {1, 2}]
=============================================================================
