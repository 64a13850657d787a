----------------------------- MODULE MessageStore -----------------------------
(***************************************************************************)
(* What the chat system promises of a message for which GetTransmitTarget  *)
(* has answered success: it is in flight until it is in the history or     *)
(* lost, and both are final.                                               *)
(***************************************************************************)
CONSTANT Msg
VARIABLE fate

Accept(m) == fate[m] = "none" /\ fate' = [fate EXCEPT ![m] = "accepted"]
Store(m) == fate[m] = "accepted" /\ fate' = [fate EXCEPT ![m] = "stored"]
Lose(m) == fate[m] = "accepted" /\ fate' = [fate EXCEPT ![m] = "lost"]

Init == fate = [m \in Msg |-> "none"]
Next == \E m \in Msg : Accept(m) \/ Store(m) \/ Lose(m)
Spec == Init /\ [][Next]_fate
===============================================================================
