----------------------------- MODULE MCAgentRun -----------------------------
(* Values for the constants of AgentRun that a .cfg cannot write. *)
EXTENDS AgentRun, TLC

CONSTANTS backup, report, cronBackup, cronReport

OneEach == (backup :> cronBackup) @@ (report :> cronReport)
=============================================================================
