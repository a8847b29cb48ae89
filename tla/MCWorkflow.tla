----------------------------- MODULE MCWorkflow -----------------------------
(***************************************************************************)
(* Instances of Workflow for TLC.                                          *)
(***************************************************************************)
EXTENDS Workflow, TLC

(* Users are only ever compared.                                           *)
Symmetric == Permutations(Users)

=============================================================================
