---------------------------- MODULE MCPlaybooks -----------------------------
(***************************************************************************)
(* Instances of Playbooks for TLC.                                         *)
(***************************************************************************)
EXTENDS Playbooks, TLC

(* Handlers and actors are only ever compared.  Sound for invariants and   *)
(* action properties, which is all that is checked.                        *)
Symmetric == Permutations(Handlers) \cup Permutations(Actors)

=============================================================================
