-------------------------- MODULE MCServiceDiscovery --------------------------
(* Three instances, two of which were started with the same --instance_name.   *)
EXTENDS ServiceDiscovery, TLC
CONSTANTS i1, i2, i3, k1, k2
Keys == i1 :> k1 @@ i2 :> k2 @@ i3 :> k2
===============================================================================
