---------------------------- MODULE MCRuntimeUnits ----------------------------
(* RuntimeUnits with the two units of the desktop. *)
EXTENDS RuntimeUnits

CONSTANTS controller, web

BothUnits == <<controller, web>>
WebDependsOnController == [u \in {controller, web} |-> IF u = controller THEN {web} ELSE {}]

===============================================================================
