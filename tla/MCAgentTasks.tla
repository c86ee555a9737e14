----------------------------- MODULE MCAgentTasks -----------------------------
(***************************************************************************)
(* Instances of AgentTasks: two agents compete for the tasks of a design.  *)
(* Task ids, preview ids and agents are model values nothing tells apart.  *)
(***************************************************************************)
EXTENDS AgentTasks, TLC

TaskSymmetry ==
    Permutations(Agents) \cup Permutations(TaskIds) \cup Permutations(PreviewIds)
===============================================================================
