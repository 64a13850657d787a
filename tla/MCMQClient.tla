------------------------------ MODULE MCMQClient ------------------------------
(* Three messages, two publishing threads and one retry: enough for a retried *)
(* task to be overtaken by a fresh one, by a second batch, and to be dropped. *)
EXTENDS MQClient
===============================================================================
