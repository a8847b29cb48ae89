----------------------------- MODULE MCBackends -----------------------------
(***************************************************************************)
(* An instance of Backends for TLC: two actions each on one listening      *)
(* port, one service and one secret, and one on a port nobody listens on.  *)
(***************************************************************************)
EXTENDS Backends

MCAction == {"block-a", "block-b", "block-c", "off-a", "off-b", "rotate-a", "rotate-b"}
MCSubject == [a \in MCAction |->
  CASE a \in {"block-a", "block-b"} -> "22"
    [] a = "block-c"                -> "445"
    [] a \in {"off-a", "off-b"}     -> "telnetd"
    [] OTHER                        -> "svc-account"]

(* rotate-b was told the value rotate-a sets, and sets a third one.        *)
MCNewValue == [a \in MCAction |-> IF a = "rotate-b" THEN "s2" ELSE "s1"]
MCOldValue == [a \in MCAction |-> IF a = "rotate-b" THEN "s1" ELSE "s0"]

MCOwnName == [p \in {"22", "445"} |-> IF p = "22" THEN "deny-22" ELSE "deny-445"]

=============================================================================
