--------------------------- MODULE MCRemediation ----------------------------
(***************************************************************************)
(* Instances of Remediation for TLC.                                       *)
(***************************************************************************)
EXTENDS Remediation

CONSTANTS a1, a2, x, y

(* Two plugins name the same port of the asset: two action ids, one port.  *)
SharedPort == [a \in {a1, a2} |-> x]

OnePort  == [a \in {a1} |-> x]

(* Approval needed and never automated; unattended.                        *)
GatedKeys == {Key("medium", "high", FALSE), Key("high", "high", TRUE)}
UnattendedKey == {Key("low", "low", FALSE)}

NoWindow == {}
Midnight == {<<1, 0>>}

=============================================================================
