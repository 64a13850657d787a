----------------------------- MODULE MCUserProfile -----------------------------
(* Two handlers at a time; enough names for two users to want the same one.    *)
EXTENDS UserProfile, TLC
Symmetry == Permutations(User) \cup Permutations(Worker) \cup Permutations(Nickname)
===============================================================================
