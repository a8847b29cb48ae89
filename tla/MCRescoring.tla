---------------------------- MODULE MCRescoring -----------------------------
(***************************************************************************)
(* An instance of Rescoring for TLC: findings without a CVE, with one, and *)
(* with two in both orders of the alphabet.                                *)
(***************************************************************************)
EXTENDS Rescoring

MCCveLists == {<<>>, <<"a">>, <<"a", "b">>}

=============================================================================
