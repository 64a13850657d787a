----------------------------- MODULE MCSnowflake -----------------------------
(* Two Transmite processes whose machine ids differ, two ids a millisecond.   *)
EXTENDS Snowflake, TLC
CONSTANTS n1, n2
TwoNodes == {n1, n2}
TwoMachines == n1 :> 1 @@ n2 :> 4
===============================================================================
