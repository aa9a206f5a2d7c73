-------------------------- MODULE MCAgentCliGuard --------------------------
(* AgentCliGuard for TLC: a session host with two transports and processes with fewer. *)
EXTENDS AgentCliGuard, TLC

CONSTANTS host, runner

MCLimit == (host :> 2 @@ runner :> 0)
============================================================================
