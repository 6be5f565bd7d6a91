----------------------------- MODULE MCWsClient -----------------------------
(* Instances of WsClient for TLC. *)
EXTENDS WsClient, TLC

\* The task objects are interchangeable.
TaskSymmetry == Permutations(Heartbeats) \cup Permutations(Runners)
=============================================================================
