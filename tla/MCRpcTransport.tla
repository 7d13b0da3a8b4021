---------------------------- MODULE MCRpcTransport ----------------------------
(* RpcTransport for TLC: interchangeable callers. *)
EXTENDS RpcTransport, TLC

CallerSymmetry == Permutations(Caller)

\* The patient clock waits for exactly what needs no timer.
ClockWaitsForAll == Runnable <=> ENABLED Prompt
================================================================================
