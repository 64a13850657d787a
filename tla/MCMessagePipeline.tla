--------------------------- MODULE MCMessagePipeline ---------------------------
(* One text and one file with one retry and one crash.                         *)
EXTENDS MessagePipeline
================================================================================
