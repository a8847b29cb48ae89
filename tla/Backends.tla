------------------------------ MODULE Backends ------------------------------
(***************************************************************************)
(* The remediation backends of avmp/backends.py and what they change.      *)
(* HostModelBackend works on one SimulatedHost (avmp/targets.py): denied   *)
(* ports, services, secrets.  AzureNsgBackend works on the rules of one    *)
(* network security group, simulated in the process or live behind         *)
(* avmp/azure_client.py.  An engine has one backend; the variable backend  *)
(* says which.  Any action may be applied and rolled back at any time.     *)
(***************************************************************************)
EXTENDS Naturals, Sequences, FiniteSets, SequencesExt

CONSTANTS
  Action,       \* action ids
  Subject,      \* Subject[a]: the port, service or secret a is about
  Ports, Services, Secrets,
  Listening,    \* the ports something listens on
  NewValue,     \* NewValue[a]: the value a rotates its secret to
  OldValue,     \* OldValue[a]: the value a was told the secret had
  FirstValues,  \* the values a secret may have at first; "absent" for none
  OwnName,      \* OwnName[p]: the rule name f"deny-{p}"
  ForeignName,  \* a rule name nobody derives from a port
  MayBreak      \* may a call on the live group raise?

ASSUME BackendConstantsAssumption ==
  /\ Subject \in [Action -> Ports \cup Services \cup Secrets]
  /\ Ports \cap Services = {} /\ Ports \cap Secrets = {} /\ Services \cap Secrets = {}
  /\ Listening \subseteq Ports /\ "no port" \notin Ports
  /\ \A a \in Action : NewValue[a] \notin {"none", "absent"}
  /\ "none" \notin FirstValues
  /\ \A p, q \in Ports : OwnName[p] = OwnName[q] => p = q
  /\ \A p \in Ports : OwnName[p] # ForeignName
  /\ MayBreak \in BOOLEAN

VARIABLES
  backend,   \* "host", "sim" or "live"
  denied,    \* the host's firewall_blocked
  services,  \* services[n]: "on", "off", or "absent" from the dict
  secrets,   \* secrets[n]: a value, or "absent"
  rules,     \* rules[n]: the group's rule of name n, or NoRule
  undo,      \* undo[a]: the last part of a's entry in _undo, or "none"
  inForce,   \* history: the actions applied and not rolled back, per setting
  original,  \* history: the settings before the actions of inForce
  found,     \* history: the rules before the actions of inForce
  inOrder,   \* history: no setting's actions were rolled back out of order
  broken     \* history: the ports a call raised on

target == <<denied, services, secrets, rules>>
history == <<inForce, original, found, inOrder, broken>>
vars == <<backend, target, undo, history>>

Setting == Ports \cup Services \cup Secrets
RuleNames == {OwnName[p] : p \in Ports} \cup {ForeignName}

(* A rule is a port and whether it denies it to everybody, to some sources *)
(* or, being an outbound or an Allow rule, not at all.                     *)
Reach == {"all", "some", "none"}
Rule == [port : Ports, denies : Reach]
NoRule == [port |-> "no port", denies |-> "none"]
DenyAll(p) == [port |-> p, denies |-> "all"]
Denies(r, p) == r.port = p /\ r.denies # "none"

-----------------------------------------------------------------------------
(* What the target is asked.                                               *)

(* SimulatedHost.service_enabled: a service not in the dict is enabled.    *)
ServiceEnabled(n) == IF services[n] = "off" THEN "off" ELSE "on"

Exposed(p) == p \in Listening /\ p \notin denied

(* SimulatedNsg.has_deny, AzureSdkNsgClient.deny_exists: any inbound deny  *)
(* of the port, under any name and for any source.                         *)
HasDeny(p) == \E n \in RuleNames : Denies(rules[n], p)

(* A port is denied to everybody by the host's firewall or by a rule of    *)
(* the group, or to some sources by rules only.                            *)
DeniedToAll(p) ==
  IF backend = "host" THEN p \in denied ELSE \E n \in RuleNames : rules[n] = DenyAll(p)
DeniedToSome(p) == backend # "host" /\ HasDeny(p)

Value(s) ==
  CASE s \in Ports    -> IF DeniedToAll(s) THEN "denied"
                         ELSE IF DeniedToSome(s) THEN "partly" ELSE "open"
    [] s \in Services -> ServiceEnabled(s)
    [] s \in Secrets  -> secrets[s]

(* What each kind of action wants.                                         *)
WantedOf(a) ==
  CASE Subject[a] \in Ports    -> "denied"
    [] Subject[a] \in Services -> "off"
    [] Subject[a] \in Secrets  -> NewValue[a]

(* What the backend saves of the target: for the simulated group whether a *)
(* rule of its own name exists, whatever the rule is about, for the live   *)
(* one whether any rule denies the port.                                   *)
Existed(p) == IF backend = "sim" THEN rules[OwnName[p]] # NoRule ELSE HasDeny(p)
Prior(a) ==
  IF backend = "host" THEN Value(Subject[a])
  ELSE IF Existed(Subject[a]) THEN "denied" ELSE "open"

(* Slip: a rotation is validated by the secret's being there.              *)
ValidateAny(a) ==
  CASE Subject[a] \in Ports    -> IF backend = "host" THEN ~Exposed(Subject[a])
                                  ELSE HasDeny(Subject[a])
    [] Subject[a] \in Services -> ServiceEnabled(Subject[a]) = "off"
    [] Subject[a] \in Secrets  -> secrets[Subject[a]] # "absent"

Validate(a) ==
  CASE Subject[a] \in Ports    -> IF backend = "host" THEN ~Exposed(Subject[a])
                                  ELSE HasDeny(Subject[a])
    [] Subject[a] \in Services -> ServiceEnabled(Subject[a]) = "off"
    [] Subject[a] \in Secrets  -> secrets[Subject[a]] \notin {"absent", OldValue[a]}

-----------------------------------------------------------------------------
(* What the target is told.                                                *)

Handles(a) == backend = "host" \/ Subject[a] \in Ports

(* HostModelBackend.apply for the three kinds of action.                   *)
ChangeHost(a) ==
  /\ denied' = denied \cup ({Subject[a]} \cap Ports)
  /\ services' = [n \in Services |-> IF n = Subject[a] THEN "off" ELSE services[n]]
  /\ secrets' = [n \in Secrets |-> IF n = Subject[a] THEN NewValue[a] ELSE secrets[n]]
  /\ UNCHANGED rules

(* add_rule, begin_create_or_update: a rule of that name is replaced.      *)
ChangeGroup(a) ==
  /\ rules' = [rules EXCEPT ![OwnName[Subject[a]]] = DenyAll(Subject[a])]
  /\ UNCHANGED <<denied, services, secrets>>

Change(a) == IF backend = "host" THEN ChangeHost(a) ELSE ChangeGroup(a)

(* Slip: a port that was blocked before is opened as well.                 *)
RestoreHostAlways(a) ==
  /\ denied' = denied \ {Subject[a]}
  /\ services' = [n \in Services |-> IF n = Subject[a] THEN undo[a] ELSE services[n]]
  /\ secrets' = [n \in Secrets |-> IF n = Subject[a] THEN undo[a] ELSE secrets[n]]
  /\ UNCHANGED rules

(* HostModelBackend.rollback; "absent" is the pop of a secret that was     *)
(* not there.                                                              *)
RestoreHost(a) ==
  /\ denied' = IF undo[a] = "open" THEN denied \ {Subject[a]} ELSE denied
  /\ services' = [n \in Services |-> IF n = Subject[a] THEN undo[a] ELSE services[n]]
  /\ secrets' = [n \in Secrets |-> IF n = Subject[a] THEN undo[a] ELSE secrets[n]]
  /\ UNCHANGED rules

RestoreGroup(a) ==
  /\ rules' = IF undo[a] = "denied" THEN rules
              ELSE [rules EXCEPT ![OwnName[Subject[a]]] = NoRule]
  /\ UNCHANGED <<denied, services, secrets>>

Restore(a) == IF backend = "host" THEN RestoreHost(a) ELSE RestoreGroup(a)

-----------------------------------------------------------------------------
(* The operations.                                                         *)

Values == [s \in Setting |-> Value(s)]

Without(seq, a) == RemoveAt(seq, CHOOSE i \in DOMAIN seq : seq[i] = a)
IsLast(a) == LET on == inForce[Subject[a]] IN on # <<>> /\ on[Len(on)] = a

Init ==
  /\ backend \in {"host", "sim", "live"}
  /\ denied \in IF backend = "host" THEN SUBSET Ports ELSE {{}}
  /\ services \in IF backend = "host" THEN [Services -> {"on", "off", "absent"}]
                  ELSE [Services -> {"absent"}]
  /\ secrets \in IF backend = "host" THEN [Secrets -> FirstValues] ELSE [Secrets -> {"absent"}]
  /\ rules \in IF backend = "host" THEN [RuleNames -> {NoRule}]
               ELSE [RuleNames -> Rule \cup {NoRule}]
  /\ undo = [a \in Action |-> "none"]
  /\ inForce = [s \in Setting |-> <<>>]
  /\ original = Values
  /\ found = rules
  /\ inOrder = TRUE
  /\ broken = {}

(* Slip: a second apply of an action saves what the first one did.         *)
ApplyAgain(a) ==
  /\ Handles(a)
  /\ undo' = [undo EXCEPT ![a] = Prior(a)]
  /\ Change(a)
  /\ inForce' = [inForce EXCEPT ![Subject[a]] = IF undo[a] = "none" THEN Append(@, a) ELSE @]
  /\ UNCHANGED <<backend, original, found, inOrder, broken>>

(* apply(): an action of _undo is in effect already, and nothing is done.  *)
Apply(a) ==
  /\ Handles(a)
  /\ undo[a] = "none"
  /\ undo' = [undo EXCEPT ![a] = Prior(a)]
  /\ Change(a)
  /\ inForce' = [inForce EXCEPT ![Subject[a]] = Append(@, a)]
  /\ UNCHANGED <<backend, original, found, inOrder, broken>>

(* Slip: the undo is read and not popped.                                  *)
RollbackKeepsUndo(a) ==
  /\ undo[a] # "none"
  /\ Restore(a)
  /\ inForce' = [inForce EXCEPT ![Subject[a]] = Without(@, a)]
  /\ inOrder' = (inOrder /\ IsLast(a))
  /\ UNCHANGED <<backend, undo, original, found, broken>>

(* rollback() pops the undo and restores.                                  *)
Rollback(a) ==
  /\ undo[a] # "none"
  /\ undo' = [undo EXCEPT ![a] = "none"]
  /\ Restore(a)
  /\ inForce' = [inForce EXCEPT ![Subject[a]] = Without(@, a)]
  /\ inOrder' = (inOrder /\ IsLast(a))
  /\ UNCHANGED <<backend, original, found, broken>>

(* A live call raises: the rule may have been created all the same, and    *)
(* no undo is recorded.                                                    *)
ApplyRaises(a) ==
  /\ MayBreak /\ backend = "live"
  /\ Handles(a) /\ undo[a] = "none"
  /\ ChangeGroup(a)
  /\ broken' = broken \cup {Subject[a]}
  /\ UNCHANGED <<backend, undo, inForce, original, found, inOrder>>

(* The undo is gone before delete_rule raises.                             *)
RollbackRaises(a) ==
  /\ MayBreak /\ backend = "live"
  /\ undo[a] = "open"
  /\ undo' = [undo EXCEPT ![a] = "none"]
  /\ inForce' = [inForce EXCEPT ![Subject[a]] = Without(@, a)]
  /\ broken' = broken \cup {Subject[a]}
  /\ UNCHANGED <<backend, target, original, found, inOrder>>

(* The process ends; a live group outlives it.                             *)
Restart ==
  /\ backend = "live"
  /\ undo' = [a \in Action |-> "none"]
  /\ inForce' = [s \in Setting |-> <<>>]
  /\ original' = Values
  /\ found' = rules
  /\ inOrder' = TRUE
  /\ broken' = {}
  /\ UNCHANGED <<backend, target>>

Next ==
  \/ \E a \in Action : Apply(a) \/ Rollback(a) \/ ApplyRaises(a) \/ RollbackRaises(a)
  \/ Restart

Spec == Init /\ [][Next]_vars

-----------------------------------------------------------------------------
(* Properties.                                                             *)

(* Every variable keeps its type, and an undo is held exactly for the      *)
(* actions in force.                                                       *)
TypeOK ==
  /\ backend \in {"host", "sim", "live"}
  /\ denied \subseteq Ports
  /\ services \in [Services -> {"on", "off", "absent"}]
  /\ rules \in [RuleNames -> Rule \cup {NoRule}]
  /\ DOMAIN secrets = Secrets
  /\ \A a \in Action :
       undo[a] # "none" <=> \E i \in DOMAIN inForce[Subject[a]] : inForce[Subject[a]][i] = a

(* A group's undo is one bit (backends.py:219-228), so it cannot say what   *)
(* rule was there.  It is enough where apply() finds no rule of its name,  *)
(* or the very rule it adds.  A live group must then have no other deny of *)
(* the port: the bit would be about that one.  Nor may a rule named for    *)
(* another port be what denies this one: that port's apply replaces it.    *)
UndoTells(p) ==
  \/ backend = "host"
  \/ /\ found[OwnName[p]] \in {NoRule, DenyAll(p)}
     /\ \A q \in Ports \ {p} : ~Denies(found[OwnName[q]], p)
     /\ backend = "live" /\ found[OwnName[p]] = NoRule => ~Denies(found[ForeignName], p)

Told(s) == s \in Ports => UndoTells(s)

(* While every rollback undoes the latest action in force on its setting,  *)
(* a setting has what the latest action in force wants, and the value it   *)
(* had at first once none is in force.  Not for ports a live call raised   *)
(* on, and the second half only where the undo tells what was there.       *)
LatestInForceRules ==
  inOrder => \A s \in Setting \ broken :
    /\ inForce[s] # <<>> => Value(s) = WantedOf(inForce[s][Len(inForce[s])])
    /\ inForce[s] = <<>> /\ Told(s) => Value(s) = original[s]

(* Ports come back in whatever order their actions are rolled back, and so *)
(* does the rule of the port's name.  (Services and secrets do not: each   *)
(* undo writes the value it saved.)                                        *)
PortsAreRestoredInAnyOrder ==
  \A p \in Ports \ broken : inForce[p] = <<>> /\ UndoTells(p) =>
    Value(p) = original[p] /\ rules[OwnName[p]] = found[OwnName[p]]

(* What is true of "every action records an undo so rollback is exact"     *)
(* (backends.py:12): for all settings last in, first out, for ports in any *)
(* order, on a group where the undo tells what was there.  Elsewhere the   *)
(* code breaks it: another rule of that name is replaced, and rollback     *)
(* leaves the replacement in a simulated group (line 224), and deletes it  *)
(* from a live one or leaves it if some rule denied the port.              *)
RollbackIsExact == LatestInForceRules /\ PortsAreRestoredInAnyOrder

(* Post-fix validation tells an action that is in force from one that is   *)
(* not, where the target lets it: a port nobody listens on is not exposed  *)
(* either way, a rule for some sources counts as a deny, a rule the undo   *)
(* did not tell may be left behind, and a secret counts as rotated if it   *)
(* is not the value the action was told (backends.py:51).                  *)
CanTell(a) ==
  /\ Told(Subject[a]) /\ original[Subject[a]] # WantedOf(a)
  /\ Subject[a] \in Ports => original[Subject[a]] = "open"
  /\ Subject[a] \in Ports /\ backend = "host" => Subject[a] \in Listening
  /\ Subject[a] \in Secrets => original[Subject[a]] \in {"absent", OldValue[a]}

ValidationTellsInForce ==
  inOrder => \A a \in Action : Handles(a) /\ Subject[a] \notin broken =>
    /\ IsLast(a) /\ (Subject[a] \in Secrets => NewValue[a] # OldValue[a]) => Validate(a)
    /\ inForce[Subject[a]] = <<>> /\ CanTell(a) => ~Validate(a)

(* Whichever backend it is, and in any order of calls, it keeps the promise *)
(* of ReversibleTarget, if the undo tells what was there of every port.    *)
(* What a rule-group undo would bring back is what the port has from the   *)
(* rules the backend does not own.                                         *)
FromOthers(p) ==
  IF backend = "host" \/ ~Denies(rules[ForeignName], p) THEN "open"
  ELSE IF rules[ForeignName] = DenyAll(p) THEN "denied" ELSE "partly"

SavedOf(a) ==
  IF undo[a] = "open" /\ Subject[a] \in Ports THEN FromOthers(Subject[a]) ELSE undo[a]

Reversible == INSTANCE ReversibleTarget WITH
  Wanted <- [a \in Action |-> WantedOf(a)],
  SettingOf <- Subject,
  Nothing <- "none",
  value <- Values,
  saved <- [a \in Action |-> SavedOf(a)]

KeepsThePromise ==
  Reversible!Init /\ [][(\A p \in Ports : UndoTells(p)) => Reversible!Next]_(Reversible!vars)

=============================================================================
