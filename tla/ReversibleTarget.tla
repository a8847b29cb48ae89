-------------------------- MODULE ReversibleTarget --------------------------
(***************************************************************************)
(* What a remediation backend promises the engine, whichever target it     *)
(* changes: the interface RemediationBackend of avmp/backends.py with the  *)
(* meaning its implementations give it.  An action wants one setting of    *)
(* the target to have one value.  apply() saves the value it finds and     *)
(* sets the wanted one, at most once; rollback() brings back the saved     *)
(* value, at most once, and may leave a setting alone that apply() had     *)
(* found as wanted.                                                        *)
(*                                                                         *)
(* Backends implements this for every kind of target, Remediation for the  *)
(* engine's use of it.                                                     *)
(***************************************************************************)
CONSTANTS
  Action,     \* action ids
  Setting,    \* the settings of the target
  Wanted,     \* Wanted[a]: the value action a gives its setting
  SettingOf,  \* SettingOf[a]: the setting action a is about
  Nothing,    \* no value saved
  MayBreak    \* may a call on the target raise?

VARIABLES
  value,      \* value[s]: the value of setting s
  saved       \* saved[a]: what rollback of a would bring back, or Nothing

vars == <<value, saved>>

Init == saved = [a \in Action |-> Nothing]

Put(a, v) == value' = [value EXCEPT ![SettingOf[a]] = v]

Apply(a) ==
  /\ saved[a] = Nothing
  /\ saved' = [saved EXCEPT ![a] = value[SettingOf[a]]]
  /\ Put(a, Wanted[a])

Rollback(a) ==
  /\ saved[a] # Nothing
  /\ saved' = [saved EXCEPT ![a] = Nothing]
  /\ \/ Put(a, saved[a])
     \/ saved[a] = Wanted[a] /\ UNCHANGED value

(* A call that raises after the target took the change, or after the saved *)
(* value was taken out.                                                    *)
Break(a) ==
  /\ MayBreak
  /\ saved[a] = Nothing => Put(a, Wanted[a]) /\ UNCHANGED saved
  /\ saved[a] # Nothing => saved' = [saved EXCEPT ![a] = Nothing] /\ UNCHANGED value

(* The process ends, and with it what was saved.                           *)
Forget ==
  /\ saved' = [a \in Action |-> Nothing]
  /\ UNCHANGED value

Next == (\E a \in Action : Apply(a) \/ Rollback(a) \/ Break(a)) \/ Forget

Spec == Init /\ [][Next]_vars

=============================================================================
