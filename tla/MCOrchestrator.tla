--------------------------- MODULE MCOrchestrator ---------------------------
(* Model-checking instance of Orchestrator.                                *)
EXTENDS Orchestrator
=============================================================================
