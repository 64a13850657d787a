----------------------------- MODULE MCPushFanout -----------------------------
(* Two members of a chat, who connect where they like; two plain messages, one *)
(* whose '|' cuts it and one whose '|' kills the consumer.                     *)
EXTENDS PushFanout, TLC
CONSTANTS u1, u2, g1, m1, m2, m3, m4
Senders == m1 :> u1 @@ m2 :> u1 @@ m3 :> u2 @@ m4 :> u1
Targets == m1 :> {u1, u2} @@ m2 :> {u1, u2} @@ m3 :> {u1, u2} @@ m4 :> {u1, u2}
===============================================================================
