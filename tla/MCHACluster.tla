---------------------------- MODULE MCHACluster -----------------------------
(***************************************************************************)
(* Instances of HACluster for TLC.                                         *)
(***************************************************************************)
EXTENDS HACluster, TLC

CONSTANTS c1, c2

Symmetry == Permutations({c1, c2})

=============================================================================
