--------------------------- MODULE MCCompositeSetup ----------------------------
(* Three tasks and two plugin set-ups; t1 and t2 use both in different        *)
(* orders, t3 uses one of them.                                               *)
EXTENDS CompositeSetup, TLC

CONSTANTS t1, t2, t3, k1, k2

MCUses == t1 :> <<k1, k2>> @@ t2 :> <<k2, k1>> @@ t3 :> <<k1>>
================================================================================
