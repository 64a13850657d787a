---------------------------- MODULE MCFriendService ----------------------------
(* Two users and two chat ids: one chat of two and a group, or two chats of   *)
(* two.  Users, ids and handlers are interchangeable.                         *)
EXTENDS FriendService, TLC
Symmetry == Permutations(User) \cup Permutations(Session) \cup Permutations(Worker)
===============================================================================
