---------------------------- MODULE MCWsSession ----------------------------
(* WsSession for TLC: the threads and the topics are interchangeable.      *)
EXTENDS WsSession, TLC

Interchangeable == Permutations(Callers) \cup Permutations(Topics)

=============================================================================
