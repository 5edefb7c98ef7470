----------------------------- MODULE MCRemoteSync -----------------------------
(* Three tasks, the third of which needs the first.  A run is of one task,   *)
(* of two that are executed side by side, or of two of which the first may   *)
(* block the second.                                                         *)
EXTENDS RemoteSync

CONSTANTS t1, t2, t3

MCNeeds == [t \in Task |-> IF t = t3 THEN {t1} ELSE {}]
MCPlans == {{t1}, {t1, t2}, {t1, t3}}
================================================================================
