---------------------------- MODULE MCAgentSender ----------------------------
(* A preferred and a secondary replica.                                    *)
EXTENDS AgentSender
=============================================================================
