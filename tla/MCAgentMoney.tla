----------------------------- MODULE MCAgentMoney -----------------------------
(* AgentMoney on a small instance: two days for which money is due, one for which  *)
(* the agent is owed some, and one that comes out even.                            *)
EXTENDS AgentMoney, TLC

GrossOfDays   == <<10, 0, 10, 20>>
PaidOutOnDays == <<6, 1, 9, 15>>
=============================================================================
