------------------------------- MODULE MCAuth -------------------------------
(***************************************************************************)
(* An instance of Auth for TLC: one user with two sessions and another.    *)
(***************************************************************************)
EXTENDS Auth, TLC

MCRoleLists == {{"scanner_operator"}, {"approver"}, {"admin"}, {"scanner_operator", "approver"}}

Symmetry == Permutations(Tokens)

=============================================================================
