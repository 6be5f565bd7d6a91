------------------------- MODULE MCMessagePipeline -------------------------
(* Instances of MessagePipeline for TLC. *)
EXTENDS MessagePipeline

CONSTANTS order, chat1, chat2, beat

\* HEARTBEAT 0, ORDER 1, CHAT 2.
MCPriority ==
    [m \in Messages |-> CASE m = beat -> 0 [] m = order -> 1 [] OTHER -> 2]
=============================================================================
