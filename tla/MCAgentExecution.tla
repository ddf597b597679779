---------------------------- MODULE MCAgentExecution ----------------------------
(* Finite values for AgentExecution.                                        *)
EXTENDS AgentExecution, TLC

CONSTANTS r1, r2, r3, t1, t2

\* Every request has a task id of its own.
MCOwnIds == (r1 :> t1) @@ (r2 :> t2)

\* Two clients name the same task id, a third one does not.
MCSharedId == (r1 :> t1) @@ (r2 :> t1) @@ (r3 :> t2)
================================================================================
