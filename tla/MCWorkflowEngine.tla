-------------------------- MODULE MCWorkflowEngine --------------------------
(* WorkflowEngine with a chain whose middle step is the manager's (so that  *)
(* the numbering may have a gap) and whose last step is never auto-skipped. *)
EXTENDS Visibility

MCManagerSteps == {2}
MCManualSteps == {3}
=============================================================================
