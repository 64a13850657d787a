--------------------------- MODULE MCGatewaySession ---------------------------
(* Two users, three logins in all, two gateways and two connections: a user can *)
(* come back at once or later, at the same gateway or at the other.  Everything *)
(* of a kind is interchangeable.                                                *)
EXTENDS GatewaySession, TLC
Symmetry == Permutations(Ssid) \cup Permutations(Conn) \cup Permutations(Gateway)
              \cup Permutations(Login) \cup Permutations(User)
===============================================================================
