---------------------------- MODULE MCUserInfoCache ----------------------------
(* Two threads of one Transmite process and a third of another.                *)
EXTENDS UserInfoCache, TLC
CONSTANTS w1, w2, w3, p1, p2
Threads == [w \in {w1, w2, w3} |-> IF w = w3 THEN p2 ELSE p1]
Symmetry == Permutations(Profile) \cup Permutations({w1, w2})
===============================================================================
