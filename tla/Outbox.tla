-------------------------------- MODULE Outbox --------------------------------
(***************************************************************************)
(* What a caller of MQClient::publish is promised (and no more): publish() *)
(* always answers TRUE, and from then on the message is queued in the      *)
(* process; it is handed to the broker at most once, or given up, and a    *)
(* message that has left the queue never comes back.  Nothing is promised  *)
(* about the order of messages or about when a message leaves the queue.   *)
(***************************************************************************)
CONSTANT Msg        \* the messages given to publish(), one call each

VARIABLE status     \* status[m]: where message m is

Status == {"new", "queued", "sent", "dropped"}

\* publish() returned TRUE.
Accept(m) == /\ status[m] = "new"
             /\ status' = [status EXCEPT ![m] = "queued"]

\* The AMQP channel took the frame.
Send(m) == /\ status[m] = "queued"
           /\ status' = [status EXCEPT ![m] = "sent"]

\* The retry budget of the task is spent, or the process ends with the task in it.
Drop(m) == /\ status[m] = "queued"
           /\ status' = [status EXCEPT ![m] = "dropped"]

Init == status = [m \in Msg |-> "new"]
Next == \E m \in Msg : Accept(m) \/ Send(m) \/ Drop(m)
Spec == Init /\ [][Next]_status
===============================================================================
