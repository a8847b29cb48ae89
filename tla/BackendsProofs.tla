--------------------------- MODULE BackendsProofs ---------------------------
(***************************************************************************)
(* Proofs about Backends, for any actions, settings and rule names.        *)
(*                                                                         *)
(* The argument has two halves.  A port is denied by what the backend owns *)
(* (the host's blocked set, the deny it adds under the port's name) or by  *)
(* a rule it does not own; at most one undo in force would take away what  *)
(* it owns, and then it owns nothing that was there at first.  This holds  *)
(* in whatever order actions are rolled back; that nothing else happens to *)
(* the port needs UndoTells.  A service or a secret has what the           *)
(* latest action in force wants, and each undo holds what the action       *)
(* before it wants, as long as the latest is rolled back first.            *)
(***************************************************************************)
EXTENDS Backends, SequenceTheorems, TLAPS

-----------------------------------------------------------------------------
(* The inductive invariant.                                                *)

SecretValues == FirstValues \cup {"absent"} \cup {NewValue[a] : a \in Action}

UndoType(a) ==
  CASE Subject[a] \in Ports    -> {"none", "denied", "open"}
    [] Subject[a] \in Services -> {"none", "on", "off"}
    [] Subject[a] \in Secrets  -> {"none"} \cup SecretValues

TargetTyped ==
  /\ backend \in {"host", "sim", "live"}
  /\ denied \subseteq Ports
  /\ services \in [Services -> {"on", "off", "absent"}]
  /\ secrets \in [Secrets -> SecretValues]
  /\ rules \in [RuleNames -> Rule \cup {NoRule}]
  /\ found \in [RuleNames -> Rule \cup {NoRule}]
  /\ \A p \in Ports : rules[OwnName[p]] \in {found[OwnName[p]], NoRule, DenyAll(p)}
  /\ rules[ForeignName] = found[ForeignName]
  /\ backend = "host" => rules = found

(* An undo is held exactly for the actions in force, each in force once.   *)
UndosTyped ==
  /\ DOMAIN undo = Action /\ \A a \in Action : undo[a] \in UndoType(a)
  /\ \A a \in Action : undo[a] # "none" => Handles(a)
  /\ inForce \in [Setting -> Seq(Action)]
  /\ \A s \in Setting : \A i, j \in DOMAIN inForce[s] :
       inForce[s][i] = inForce[s][j] => i = j
  /\ \A s \in Setting : \A i \in DOMAIN inForce[s] : Subject[inForce[s][i]] = s
  /\ \A a \in Action :
       undo[a] # "none" <=> \E i \in DOMAIN inForce[Subject[a]] : inForce[Subject[a]][i] = a
  /\ inOrder \in BOOLEAN

(* What the backend has of a port: the host's mark, or the deny it adds.   *)
Owns(p) == IF backend = "host" THEN p \in denied ELSE rules[OwnName[p]] = DenyAll(p)
OwnedAtFirst(p) ==
  IF backend = "host" THEN original[p] = "denied" ELSE found[OwnName[p]] = DenyAll(p)

Opens(a, p) == Subject[a] = p /\ undo[a] = "open"

(* What was there at first no undo takes away; what the backend owns more  *)
(* than that, one undo does.                                               *)
FirstOnesStay ==
  \A p \in Ports : OwnedAtFirst(p) => Owns(p) /\ ~\E a \in Action : Opens(a, p)
OneUndoOpens ==
  \A p \in Ports \ broken :
    /\ UndoTells(p) /\ Owns(p) => OwnedAtFirst(p) \/ \E a \in Action : Opens(a, p)
    /\ \A a \in Action : Opens(a, p) => Owns(p)
    /\ \A a, b \in Action : Opens(a, p) /\ Opens(b, p) => a = b
OriginalIs ==
  \A p \in Ports : UndoTells(p) =>
    original[p] = IF OwnedAtFirst(p) THEN "denied" ELSE FromOthers(p)

(* Rolled back in order, an action in force leaves the one before it.      *)
PortsInOrder ==
  inOrder => \A p \in Ports \ broken :
    /\ inForce[p] # <<>> => Owns(p)
    /\ \A i \in DOMAIN inForce[p] : i > 1 => undo[inForce[p][i]] = "denied"

Before(s, i) == IF i = 1 THEN original[s] ELSE WantedOf(inForce[s][i - 1])

OthersInOrder ==
  inOrder => \A s \in Setting \ (Ports \cup broken) :
    /\ Value(s) = Before(s, Len(inForce[s]) + 1)
    /\ \A i \in DOMAIN inForce[s] : undo[inForce[s][i]] = Before(s, i)

IInv ==
  /\ TargetTyped /\ UndosTyped
  /\ FirstOnesStay /\ OneUndoOpens /\ OriginalIs
  /\ PortsInOrder /\ OthersInOrder

-----------------------------------------------------------------------------
(* Lemmas about the target.                                                *)

(* Every action is about one kind of setting.                              *)
LEMMA Kinds ==
  ASSUME NEW a \in Action
  PROVE  /\ Subject[a] \in Setting
         /\ Subject[a] \in Ports =>
              /\ WantedOf(a) = "denied" /\ UndoType(a) = {"none", "denied", "open"}
              /\ Subject[a] \notin Services /\ Subject[a] \notin Secrets
         /\ Subject[a] \in Services =>
              /\ WantedOf(a) = "off" /\ UndoType(a) = {"none", "on", "off"}
              /\ Subject[a] \notin Ports /\ Subject[a] \notin Secrets
         /\ Subject[a] \in Secrets =>
              /\ WantedOf(a) = NewValue[a] /\ UndoType(a) = {"none"} \cup SecretValues
              /\ Subject[a] \notin Ports /\ Subject[a] \notin Services
<1>1. Subject[a] \in Setting
  BY BackendConstantsAssumption DEF Setting
<1>2. CASE Subject[a] \in Ports
  <2>1. Subject[a] \notin Services /\ Subject[a] \notin Secrets
    BY <1>2, BackendConstantsAssumption
  <2> QED
    BY <1>1, <1>2, <2>1 DEF WantedOf, UndoType
<1>3. CASE Subject[a] \in Services
  <2>1. Subject[a] \notin Ports /\ Subject[a] \notin Secrets
    BY <1>3, BackendConstantsAssumption
  <2> QED
    BY <1>1, <1>3, <2>1 DEF WantedOf, UndoType
<1>4. CASE Subject[a] \in Secrets
  <2>1. Subject[a] \notin Ports /\ Subject[a] \notin Services
    BY <1>4, BackendConstantsAssumption
  <2> QED
    BY <1>1, <1>4, <2>1 DEF WantedOf, UndoType
<1> QED
  BY <1>1, <1>2, <1>3, <1>4 DEF Setting

(* Where the undo tells, a group denies a port by the deny the backend     *)
(* adds or by a rule the backend does not own.                             *)
LEMMA DenyIsOwnOrOthers ==
  ASSUME TargetTyped, backend # "host", NEW p \in Ports, UndoTells(p),
         NEW n \in RuleNames, Denies(rules[n], p)
  PROVE  n = ForeignName \/ (n = OwnName[p] /\ rules[n] = DenyAll(p))
<1>1. /\ found[OwnName[p]] \in {NoRule, DenyAll(p)}
      /\ \A q \in Ports \ {p} : ~Denies(found[OwnName[q]], p)
  BY DEF UndoTells
<1>2. ~Denies(NoRule, p)
  BY DEF Denies, NoRule
<1>3. ASSUME NEW q \in Ports, n = OwnName[q]
      PROVE  q = p /\ rules[n] = DenyAll(p)
  <2>1. rules[n] \in {found[n], NoRule, DenyAll(q)}
    BY <1>3 DEF TargetTyped
  <2>2. CASE q = p
    BY <1>1, <1>2, <1>3, <2>1, <2>2
  <2>3. CASE q # p
    <3>1. ~Denies(DenyAll(q), p)
      BY <2>3 DEF Denies, DenyAll
    <3>2. ~Denies(found[n], p)
      BY <1>1, <1>3, <2>3
    <3> QED
      BY <1>2, <2>1, <3>1, <3>2
  <2> QED
    BY <2>2, <2>3
<1> QED
  BY <1>3 DEF RuleNames

LEMMA DenyAllDenies ==
  ASSUME NEW p \in Ports
  PROVE  Denies(DenyAll(p), p) /\ ~Denies(NoRule, p) /\ DenyAll(p) # NoRule
<1>1. Denies(DenyAll(p), p)
  BY DEF Denies, DenyAll
<1>2. ~Denies(NoRule, p)
  BY DEF Denies, NoRule
<1> QED
  BY <1>1, <1>2

ValuesAreOfTheKind ==
  /\ \A p \in Ports :
       /\ Value(p) \in {"denied", "partly", "open"}
       /\ backend # "host" => (HasDeny(p) <=> Value(p) # "open")
       /\ Owns(p) => Value(p) = "denied"
       /\ UndoTells(p) /\ ~Owns(p) => Value(p) = FromOthers(p)
  /\ \A n \in Services : Value(n) = ServiceEnabled(n)
  /\ \A n \in Secrets : Value(n) = secrets[n]

LEMMA ValueOfSetting == TargetTyped => ValuesAreOfTheKind
<1> SUFFICES ASSUME TargetTyped
             PROVE  ValuesAreOfTheKind
  OBVIOUS
<1>1. ASSUME NEW p \in Ports
      PROVE  /\ Value(p) \in {"denied", "partly", "open"}
             /\ backend # "host" => (HasDeny(p) <=> Value(p) # "open")
             /\ Owns(p) => Value(p) = "denied"
             /\ UndoTells(p) /\ ~Owns(p) => Value(p) = FromOthers(p)
  <2>1. OwnName[p] \in RuleNames /\ ForeignName \in RuleNames
    BY DEF RuleNames
  <2>2. Value(p) = IF DeniedToAll(p) THEN "denied" ELSE IF DeniedToSome(p) THEN "partly" ELSE "open"
    <3>1. p \notin Services /\ p \notin Secrets
      BY BackendConstantsAssumption
    <3> QED
      BY <3>1 DEF Value
  <2>3. Owns(p) => DeniedToAll(p)
    BY <2>1 DEF Owns, DeniedToAll
  <2>4. backend # "host" /\ DeniedToAll(p) => HasDeny(p)
    BY DenyAllDenies DEF DeniedToAll, HasDeny
  <2>5. ASSUME UndoTells(p), ~Owns(p)
        PROVE  Value(p) = FromOthers(p)
    <3>1. CASE backend = "host"
      BY <2>2, <2>5, <3>1 DEF Owns, DeniedToAll, DeniedToSome, FromOthers
    <3>2. CASE backend # "host"
      <4>1. \A n \in RuleNames : Denies(rules[n], p) => n = ForeignName
        BY <2>5, <3>2, DenyIsOwnOrOthers DEF Owns
      <4>2. HasDeny(p) <=> Denies(rules[ForeignName], p)
        BY <2>1, <4>1 DEF HasDeny
      <4>3. DeniedToAll(p) <=> rules[ForeignName] = DenyAll(p)
        BY <2>1, <3>2, <4>1, DenyAllDenies DEF DeniedToAll
      <4> QED
        BY <2>2, <2>4, <3>2, <4>2, <4>3, DenyAllDenies DEF DeniedToSome, FromOthers
    <3> QED
      BY <3>1, <3>2
  <2> QED
    BY <2>2, <2>3, <2>4, <2>5 DEF DeniedToSome
<1>2. ASSUME NEW n \in Services
      PROVE  Value(n) = ServiceEnabled(n)
  <2>1. n \notin Ports /\ n \notin Secrets
    BY BackendConstantsAssumption
  <2> QED
    BY <1>2, <2>1 DEF Value
<1>3. ASSUME NEW n \in Secrets
      PROVE  Value(n) = secrets[n]
  <2>1. n \notin Ports /\ n \notin Services
    BY BackendConstantsAssumption
  <2> QED
    BY <1>3, <2>1 DEF Value
<1> QED
  BY <1>1, <1>2, <1>3 DEF ValuesAreOfTheKind

(* The same of the next state.                                             *)
LEMMA ValueOfSettingNext == TargetTyped' => ValuesAreOfTheKind'
  BY ValueOfSetting, PTL

(* What is saved of a setting.                                             *)
LEMMA PriorIs ==
  ASSUME TargetTyped, FirstOnesStay, NEW a \in Action, Handles(a)
  PROVE  /\ Prior(a) \in UndoType(a) /\ Prior(a) # "none"
         /\ Subject[a] \in Ports =>
              /\ Owns(Subject[a]) => Prior(a) = "denied"
              /\ Prior(a) = "denied" /\ UndoTells(Subject[a]) => Owns(Subject[a])
         /\ Subject[a] \notin Ports => Prior(a) = Value(Subject[a])
<1>1. CASE Subject[a] \in Ports
  <2> DEFINE p == Subject[a]
  <2>1. CASE backend = "host"
    <3>1. Prior(a) = IF Owns(p) THEN "denied" ELSE "open"
      BY <1>1, <2>1, BackendConstantsAssumption DEF Prior, Value, DeniedToAll, DeniedToSome, Owns
    <3> QED
      BY <1>1, <3>1, Kinds
  <2>2. CASE backend # "host"
    <3>1. Prior(a) = IF Existed(p) THEN "denied" ELSE "open"
      BY <2>2 DEF Prior
    <3>2. OwnName[p] \in RuleNames
      BY <1>1 DEF RuleNames
    <3>3. Owns(p) => Existed(p)
      BY <1>1, <2>2, <3>2, DenyAllDenies DEF Owns, Existed, HasDeny
    <3>4. ASSUME Existed(p), UndoTells(p)
          PROVE  Owns(p)
      <4>1. CASE backend = "sim"
        <5>1. rules[OwnName[p]] # NoRule /\ found[OwnName[p]] \in {NoRule, DenyAll(p)}
          BY <2>2, <3>4, <4>1 DEF Existed, UndoTells
        <5>2. rules[OwnName[p]] = DenyAll(p)
          BY <1>1, <5>1 DEF TargetTyped
        <5> QED
          BY <2>2, <5>2 DEF Owns
      <4>2. CASE backend # "sim"
        <5>1. PICK n \in RuleNames : Denies(rules[n], p)
          BY <3>4, <4>2 DEF Existed, HasDeny
        <5>2. n = OwnName[p] /\ rules[n] = DenyAll(p) => Owns(p)
          BY <2>2 DEF Owns
        <5>3. n = ForeignName => found[OwnName[p]] = DenyAll(p)
          BY <1>1, <2>2, <3>4, <4>2, <5>1 DEF UndoTells, TargetTyped
        <5>4. found[OwnName[p]] = DenyAll(p) => Owns(p)
          BY <1>1, <2>2 DEF FirstOnesStay, OwnedAtFirst
        <5> QED
          BY <1>1, <2>2, <3>4, <5>1, <5>2, <5>3, <5>4, DenyIsOwnOrOthers
      <4> QED
        BY <4>1, <4>2
    <3> QED
      BY <1>1, <3>1, <3>3, <3>4, Kinds
  <2> QED
    BY <2>1, <2>2
<1>2. CASE Subject[a] \notin Ports
  <2>1. backend = "host" /\ Prior(a) = Value(Subject[a])
    BY <1>2 DEF Handles, Prior
  <2>2. CASE Subject[a] \in Services
    <3>1. Value(Subject[a]) \in {"on", "off"}
      BY <2>2, ValueOfSetting DEF ValuesAreOfTheKind, ServiceEnabled
    <3> QED
      BY <1>2, <2>1, <2>2, <3>1, Kinds
  <2>3. CASE Subject[a] \in Secrets
    <3>1. Value(Subject[a]) \in SecretValues
      BY <2>3, ValueOfSetting DEF ValuesAreOfTheKind, TargetTyped
    <3>2. "none" \notin SecretValues
      BY BackendConstantsAssumption DEF SecretValues
    <3> QED
      BY <1>2, <2>1, <2>3, <3>1, <3>2, Kinds
  <2> QED
    BY <1>2, <2>2, <2>3, Kinds DEF Setting
<1> QED
  BY <1>1, <1>2

(* What the rules at the start say stays the same.                         *)
SameStart ==
  \A p \in Ports :
    /\ UndoTells(p)' <=> UndoTells(p)
    /\ OwnedAtFirst(p)' <=> OwnedAtFirst(p)

LEMMA StartKept ==
  ASSUME UNCHANGED <<backend, found, original>>
  PROVE  SameStart
  BY DEF SameStart, UndoTells, OwnedAtFirst, Denies, DenyAll

(* What an apply that changes the target does to every setting.            *)
Changed(a) ==
  /\ \A p \in Ports : /\ Owns(p)' <=> Owns(p) \/ p = Subject[a]
                      /\ FromOthers(p)' = FromOthers(p)
  /\ \A s \in Services \cup Secrets :
       Value(s)' = IF s = Subject[a] THEN WantedOf(a) ELSE Value(s)

LEMMA ChangeEffect ==
  ASSUME TargetTyped, NEW a \in Action, Handles(a), Change(a), UNCHANGED <<backend, found>>
  PROVE  TargetTyped' /\ Changed(a)
<1>1. CASE backend = "host"
  <2>1. ChangeHost(a)
    BY <1>1 DEF Change
  <2>2. services' \in [Services -> {"on", "off", "absent"}]
    BY <2>1 DEF ChangeHost, TargetTyped
  <2>3. secrets' \in [Secrets -> SecretValues]
    BY <2>1 DEF ChangeHost, TargetTyped, SecretValues
  <2>4. TargetTyped'
    BY <2>1, <2>2, <2>3 DEF ChangeHost, TargetTyped
  <2>5. \A p \in Ports : /\ Owns(p)' <=> Owns(p) \/ p = Subject[a]
                         /\ FromOthers(p)' = FromOthers(p)
    BY <1>1, <2>1 DEF ChangeHost, Owns, FromOthers
  <2>6. ASSUME NEW n \in Services
        PROVE  Value(n)' = IF n = Subject[a] THEN WantedOf(a) ELSE Value(n)
    <3>1. ServiceEnabled(n)' = IF n = Subject[a] THEN "off" ELSE ServiceEnabled(n)
      BY <2>1 DEF ChangeHost, ServiceEnabled
    <3> QED
      BY <2>4, <3>1, Kinds, ValueOfSetting, ValueOfSettingNext DEF ValuesAreOfTheKind
  <2>7. ASSUME NEW n \in Secrets
        PROVE  Value(n)' = IF n = Subject[a] THEN WantedOf(a) ELSE Value(n)
    <3>1. secrets'[n] = IF n = Subject[a] THEN NewValue[a] ELSE secrets[n]
      BY <2>1 DEF ChangeHost
    <3> QED
      BY <2>4, <3>1, Kinds, ValueOfSetting, ValueOfSettingNext DEF ValuesAreOfTheKind
  <2> QED
    BY <2>4, <2>5, <2>6, <2>7 DEF Changed
<1>2. CASE backend # "host"
  <2>1. ChangeGroup(a) /\ Subject[a] \in Ports
    BY <1>2 DEF Change, Handles
  <2> DEFINE new == DenyAll(Subject[a])
  <2>2. new \in Rule
    BY <2>1 DEF Rule, Reach, DenyAll
  <2>3. rules' = [rules EXCEPT ![OwnName[Subject[a]]] = new]
    BY <2>1 DEF ChangeGroup
  <2> HIDE DEF new
  <2>4. /\ \A p \in Ports : rules'[OwnName[p]] = IF p = Subject[a] THEN new ELSE rules[OwnName[p]]
        /\ rules'[ForeignName] = rules[ForeignName]
    BY <2>1, <2>3, BackendConstantsAssumption DEF TargetTyped, RuleNames
  <2>5. rules' \in [RuleNames -> Rule \cup {NoRule}]
    BY <2>2, <2>3 DEF TargetTyped
  <2>6. TargetTyped'
    <3>1. \A p \in Ports : rules'[OwnName[p]] \in {found[OwnName[p]], NoRule, DenyAll(p)}
      BY <2>4 DEF TargetTyped, new
    <3> QED
      BY <1>2, <2>1, <2>4, <2>5, <3>1 DEF TargetTyped, ChangeGroup
  <2>7. \A p \in Ports : /\ Owns(p)' <=> Owns(p) \/ p = Subject[a]
                         /\ FromOthers(p)' = FromOthers(p)
    BY <1>2, <2>4 DEF Owns, FromOthers, new
  <2>8. ASSUME NEW s \in Services \cup Secrets
        PROVE  s # Subject[a] /\ Value(s)' = Value(s)
    <3>1. s # Subject[a]
      BY <2>1, BackendConstantsAssumption
    <3>2. UNCHANGED <<services, secrets>>
      BY <2>1 DEF ChangeGroup
    <3> QED
      BY <2>6, <3>1, <3>2, ValueOfSetting, ValueOfSettingNext
      DEF ValuesAreOfTheKind, ServiceEnabled
  <2> QED
    BY <2>6, <2>7, <2>8 DEF Changed
<1> QED
  BY <1>1, <1>2

(* What a rollback that changes the target does to every setting.          *)
Restored(a) ==
  /\ \A p \in Ports : /\ Owns(p)' <=> Owns(p) /\ ~Opens(a, p)
                      /\ FromOthers(p)' = FromOthers(p)
  /\ \A s \in Services \cup Secrets :
       Value(s)' = IF s = Subject[a] THEN undo[a] ELSE Value(s)

LEMMA RestoreEffect ==
  ASSUME TargetTyped, NEW a \in Action, Handles(a), Restore(a), UNCHANGED <<backend, found>>,
         undo[a] \in UndoType(a), undo[a] # "none"
  PROVE  TargetTyped' /\ Restored(a)
<1>1. CASE backend = "host"
  <2>1. RestoreHost(a)
    BY <1>1 DEF Restore
  <2>2. services' \in [Services -> {"on", "off", "absent"}]
    <3>1. \A n \in Services : n = Subject[a] => undo[a] \in {"on", "off"}
      BY Kinds
    <3> QED
      BY <2>1, <3>1 DEF RestoreHost, TargetTyped
  <2>3. secrets' \in [Secrets -> SecretValues]
    <3>1. \A n \in Secrets : n = Subject[a] => undo[a] \in SecretValues
      BY Kinds
    <3> QED
      BY <2>1, <3>1 DEF RestoreHost, TargetTyped
  <2>4. TargetTyped'
    BY <2>1, <2>2, <2>3 DEF RestoreHost, TargetTyped
  <2>5. \A p \in Ports : /\ Owns(p)' <=> Owns(p) /\ ~Opens(a, p)
                         /\ FromOthers(p)' = FromOthers(p)
    BY <1>1, <2>1 DEF RestoreHost, Owns, FromOthers, Opens
  <2>6. ASSUME NEW n \in Services
        PROVE  Value(n)' = IF n = Subject[a] THEN undo[a] ELSE Value(n)
    <3>1. n = Subject[a] => undo[a] \in {"on", "off"}
      BY Kinds
    <3>2. ServiceEnabled(n)' = IF n = Subject[a] THEN undo[a] ELSE ServiceEnabled(n)
      BY <2>1, <3>1 DEF RestoreHost, ServiceEnabled
    <3> QED
      BY <2>4, <3>2, ValueOfSetting, ValueOfSettingNext DEF ValuesAreOfTheKind
  <2>7. ASSUME NEW n \in Secrets
        PROVE  Value(n)' = IF n = Subject[a] THEN undo[a] ELSE Value(n)
    <3>1. secrets'[n] = IF n = Subject[a] THEN undo[a] ELSE secrets[n]
      BY <2>1 DEF RestoreHost
    <3> QED
      BY <2>4, <3>1, ValueOfSetting, ValueOfSettingNext DEF ValuesAreOfTheKind
  <2> QED
    BY <2>4, <2>5, <2>6, <2>7 DEF Restored
<1>2. CASE backend # "host"
  <2>1. RestoreGroup(a) /\ Subject[a] \in Ports
    BY <1>2 DEF Restore, Handles
  <2>2. undo[a] \in {"denied", "open"}
    BY <2>1, Kinds
  <2>3. /\ \A p \in Ports : rules'[OwnName[p]] = IF Opens(a, p) THEN NoRule ELSE rules[OwnName[p]]
        /\ rules'[ForeignName] = rules[ForeignName]
        /\ rules' \in [RuleNames -> Rule \cup {NoRule}]
    BY <2>1, <2>2, BackendConstantsAssumption DEF RestoreGroup, TargetTyped, RuleNames, Opens
  <2>4. TargetTyped'
    <3>1. \A p \in Ports : rules'[OwnName[p]] \in {found[OwnName[p]], NoRule, DenyAll(p)}
      BY <2>3 DEF TargetTyped
    <3> QED
      BY <1>2, <2>1, <2>3, <3>1 DEF TargetTyped, RestoreGroup
  <2>5. \A p \in Ports : /\ Owns(p)' <=> Owns(p) /\ ~Opens(a, p)
                         /\ FromOthers(p)' = FromOthers(p)
    BY <1>2, <2>3, DenyAllDenies DEF Owns, FromOthers
  <2>6. ASSUME NEW s \in Services \cup Secrets
        PROVE  s # Subject[a] /\ Value(s)' = Value(s)
    <3>1. s # Subject[a]
      BY <2>1, BackendConstantsAssumption
    <3>2. UNCHANGED <<services, secrets>>
      BY <2>1 DEF RestoreGroup
    <3> QED
      BY <2>4, <3>1, <3>2, ValueOfSetting, ValueOfSettingNext
      DEF ValuesAreOfTheKind, ServiceEnabled
  <2> QED
    BY <2>4, <2>5, <2>6 DEF Restored
<1> QED
  BY <1>1, <1>2

-----------------------------------------------------------------------------
(* Lemmas about the undos and the actions in force.                        *)

(* What Without takes out of a sequence that has no element twice.         *)
LEMMA WithoutElement ==
  ASSUME NEW seq \in Seq(Action), NEW k \in 1..Len(seq),
         \A i, j \in DOMAIN seq : seq[i] = seq[j] => i = j
  PROVE  /\ Without(seq, seq[k]) \in Seq(Action)
         /\ Len(Without(seq, seq[k])) = Len(seq) - 1
         /\ \A i \in 1..(Len(seq) - 1) :
              Without(seq, seq[k])[i] = IF i < k THEN seq[i] ELSE seq[i + 1]
<1> DEFINE before == SubSeq(seq, 1, k - 1)
           after == SubSeq(seq, k + 1, Len(seq))
<1>1. (CHOOSE i \in DOMAIN seq : seq[i] = seq[k]) = k
  OBVIOUS
<1>2. Without(seq, seq[k]) = before \o after
  BY <1>1 DEF Without, RemoveAt
<1>3. /\ before \in Seq(Action) /\ Len(before) = k - 1
      /\ \A i \in 1..(k - 1) : before[i] = seq[i]
  <2>1. \A i \in 1..(k - 1) : seq[i] \in Action
    OBVIOUS
  <2>2. 1 \in Int /\ k - 1 \in Int /\ k - 1 >= 0
    OBVIOUS
  <2> QED
    BY <2>1, <2>2, SubSeqProperties
<1>4. /\ after \in Seq(Action) /\ Len(after) = Len(seq) - k
      /\ \A i \in 1..(Len(seq) - k) : after[i] = seq[k + i]
  <2>1. \A i \in (k + 1)..Len(seq) : seq[i] \in Action
    OBVIOUS
  <2>2. k + 1 \in Int /\ Len(seq) \in Int /\ k <= Len(seq)
    OBVIOUS
  <2> QED
    BY <2>1, <2>2, SubSeqProperties
<1> HIDE DEF before, after
<1>5. /\ before \o after \in Seq(Action)
      /\ Len(before \o after) = Len(before) + Len(after)
      /\ \A i \in 1..(Len(before) + Len(after)) :
           (before \o after)[i] = IF i <= Len(before) THEN before[i] ELSE after[i - Len(before)]
  BY <1>3, <1>4, ConcatProperties
<1>6. ASSUME NEW i \in 1..(Len(seq) - 1)
      PROVE  (before \o after)[i] = IF i < k THEN seq[i] ELSE seq[i + 1]
  <2>1. CASE i < k
    <3>1. i \in 1..(k - 1) /\ i \in 1..(Len(before) + Len(after)) /\ i <= Len(before)
      BY <1>3, <1>4, <2>1
    <3> QED
      BY <1>3, <1>5, <2>1, <3>1
  <2>2. CASE ~(i < k)
    <3>1. /\ i \in 1..(Len(before) + Len(after)) /\ ~(i <= Len(before))
          /\ i - Len(before) \in 1..(Len(seq) - k) /\ k + (i - Len(before)) = i + 1
      BY <1>3, <1>4, <2>2
    <3> QED
      BY <1>4, <1>5, <2>2, <3>1
  <2> QED
    BY <2>1, <2>2
<1>7. /\ before \o after \in Seq(Action)
      /\ Len(before \o after) = Len(seq) - 1
  BY <1>3, <1>4, <1>5
<1> HIDE DEF Without
<1> QED
  BY <1>2, <1>6, <1>7

(* What an apply that succeeds does to the undos and the actions in force. *)
LEMMA AppliedUndos ==
  ASSUME UndosTyped, NEW a \in Action, Handles(a), undo[a] = "none",
         NEW v \in UndoType(a), v # "none",
         undo' = [undo EXCEPT ![a] = v],
         inForce' = [inForce EXCEPT ![Subject[a]] = Append(@, a)],
         UNCHANGED <<backend, inOrder>>
  PROVE  /\ UndosTyped'
         /\ \A b \in Action : undo'[b] = IF b = a THEN v ELSE undo[b]
         /\ \A s \in Setting : s # Subject[a] => inForce'[s] = inForce[s]
         /\ Len(inForce'[Subject[a]]) = Len(inForce[Subject[a]]) + 1
         /\ inForce'[Subject[a]][Len(inForce[Subject[a]]) + 1] = a
         /\ \A i \in 1..Len(inForce[Subject[a]]) :
              /\ inForce'[Subject[a]][i] = inForce[Subject[a]][i]
              /\ inForce[Subject[a]][i] # a
<1> DEFINE s0 == Subject[a]
           on == inForce[s0]
<1>1. s0 \in Setting /\ inForce \in [Setting -> Seq(Action)] /\ on \in Seq(Action)
  BY Kinds DEF UndosTyped
<1>2. /\ inForce' \in [Setting -> Seq(Action)]
      /\ inForce'[s0] = Append(on, a)
      /\ \A s \in Setting : s # s0 => inForce'[s] = inForce[s]
  BY <1>1
<1>3. \A b \in Action : undo'[b] = IF b = a THEN v ELSE undo[b]
  BY DEF UndosTyped
<1>4. \A i \in DOMAIN on : on[i] # a
  BY DEF UndosTyped
<1>5. /\ Len(inForce'[s0]) = Len(on) + 1 /\ inForce'[s0][Len(on) + 1] = a
      /\ \A i \in 1..Len(on) : inForce'[s0][i] = on[i]
      /\ DOMAIN on = 1..Len(on) /\ DOMAIN inForce'[s0] = 1..(Len(on) + 1)
      /\ Len(on) \in Nat
  BY <1>1, <1>2
<1>6. UndosTyped'
  <2>1. \A b \in Action : undo'[b] \in UndoType(b) /\ (undo'[b] # "none" => Handles(b))
    BY <1>3 DEF UndosTyped
  <2>2. ASSUME NEW s \in Setting, NEW i \in DOMAIN inForce'[s], NEW j \in DOMAIN inForce'[s],
               inForce'[s][i] = inForce'[s][j]
        PROVE  i = j
    <3>1. CASE s # s0
      BY <1>2, <2>2, <3>1 DEF UndosTyped
    <3>2. CASE s = s0
      <4>1. \A m, n \in 1..Len(on) : on[m] = on[n] => m = n
        BY <1>1, <1>5 DEF UndosTyped
      <4> HIDE DEF s0, on
      <4> QED
        BY <1>4, <1>5, <2>2, <3>2, <4>1
    <3> QED
      BY <3>1, <3>2
  <2>3. ASSUME NEW s \in Setting, NEW i \in DOMAIN inForce'[s]
        PROVE  Subject[inForce'[s][i]] = s
    <3>1. CASE s # s0
      BY <1>2, <3>1 DEF UndosTyped
    <3>2. CASE s = s0
      <4>1. \A m \in 1..Len(on) : Subject[on[m]] = s0
        BY <1>1, <1>5 DEF UndosTyped
      <4>2. i \in 1..Len(on) \/ i = Len(on) + 1
        BY <1>5, <2>3, <3>2
      <4> QED
        BY <1>5, <3>2, <4>1, <4>2
    <3> QED
      BY <3>1, <3>2
  <2>4. ASSUME NEW b \in Action
        PROVE  undo'[b] # "none" <=>
                 \E i \in DOMAIN inForce'[Subject[b]] : inForce'[Subject[b]][i] = b
    <3>0. Subject[b] \in Setting
      BY Kinds
    <3>1. CASE Subject[b] # s0
      BY <1>2, <1>3, <3>0, <3>1 DEF UndosTyped
    <3>2. CASE b = a
      BY <1>3, <1>5, <3>2
    <3>3. CASE Subject[b] = s0 /\ b # a
      <4>1. undo[b] # "none" <=> \E i \in 1..Len(on) : on[i] = b
        BY <1>5, <3>3 DEF UndosTyped
      <4>2. (\E i \in 1..Len(on) : on[i] = b) <=>
              \E i \in 1..(Len(on) + 1) : inForce'[s0][i] = b
        <5> HIDE DEF s0, on
        <5> QED
          BY <1>5, <3>3
      <4> QED
        BY <1>3, <1>5, <3>3, <4>1, <4>2
    <3> QED
      BY <3>1, <3>2, <3>3
  <2>5. /\ \A b \in Action : UndoType(b)' = UndoType(b)
        /\ \A b \in Action : Handles(b)' <=> Handles(b)
    BY DEF UndoType, Handles
  <2> QED
    BY <1>2, <2>1, <2>2, <2>3, <2>4, <2>5 DEF UndosTyped
<1> QED
  BY <1>2, <1>3, <1>4, <1>5, <1>6

(* What a rollback does to them, whether or not the target takes it.       *)
LEMMA RolledBackUndos ==
  ASSUME UndosTyped, NEW a \in Action, undo[a] # "none",
         undo' = [undo EXCEPT ![a] = "none"],
         inForce' = [inForce EXCEPT ![Subject[a]] = Without(@, a)],
         UNCHANGED backend, inOrder' \in BOOLEAN
  PROVE  /\ UndosTyped'
         /\ \A b \in Action : undo'[b] = IF b = a THEN "none" ELSE undo[b]
         /\ \A s \in Setting : s # Subject[a] => inForce'[s] = inForce[s]
         /\ inForce[Subject[a]] \in Seq(Action)
         /\ inForce'[Subject[a]] \in Seq(Action)
         /\ Len(inForce'[Subject[a]]) = Len(inForce[Subject[a]]) - 1
         /\ IsLast(a) => \A i \in 1..(Len(inForce[Subject[a]]) - 1) :
              /\ inForce'[Subject[a]][i] = inForce[Subject[a]][i]
              /\ inForce[Subject[a]][i] # a
<1> DEFINE s0 == Subject[a]
           on == inForce[s0]
           rest == inForce'[s0]
<1>1. s0 \in Setting /\ inForce \in [Setting -> Seq(Action)] /\ on \in Seq(Action)
  BY Kinds DEF UndosTyped
<1>2. PICK k \in 1..Len(on) : on[k] = a
  <2>1. \E k \in DOMAIN on : on[k] = a
    BY DEF UndosTyped
  <2> HIDE DEF on
  <2> QED
    BY <1>1, <2>1
<1>3. \A i, j \in DOMAIN on : on[i] = on[j] => i = j
  BY <1>1 DEF UndosTyped
<1>4. rest = Without(on, a) /\ \A s \in Setting : s # s0 => inForce'[s] = inForce[s]
  BY <1>1
<1>5. /\ rest \in Seq(Action) /\ Len(rest) = Len(on) - 1
      /\ \A i \in 1..(Len(on) - 1) : rest[i] = IF i < k THEN on[i] ELSE on[i + 1]
  <2> HIDE DEF rest, on
  <2> QED
    BY <1>1, <1>2, <1>3, <1>4, WithoutElement
<1>6. inForce' \in [Setting -> Seq(Action)]
  BY <1>1, <1>4, <1>5
<1>7. \A b \in Action : undo'[b] = IF b = a THEN "none" ELSE undo[b]
  BY DEF UndosTyped
<1>8. /\ DOMAIN on = 1..Len(on) /\ DOMAIN rest = 1..(Len(on) - 1) /\ Len(on) \in Nat
  BY <1>1, <1>5
<1>9. \A i \in 1..(Len(on) - 1) : \E j \in 1..Len(on) : j # k /\ rest[i] = on[j]
  <2> SUFFICES ASSUME NEW i \in 1..(Len(on) - 1)
               PROVE  \E j \in 1..Len(on) : j # k /\ rest[i] = on[j]
    OBVIOUS
  <2> HIDE DEF rest, on
  <2>1. CASE i < k
    BY <1>5, <1>8, <2>1
  <2>2. CASE ~(i < k)
    <3>1. i + 1 \in 1..Len(on) /\ i + 1 # k
      BY <1>8, <2>2
    <3> QED
      BY <1>5, <2>2, <3>1
  <2> QED
    BY <2>1, <2>2
<1>10. UndosTyped'
  <2>1. \A b \in Action : undo'[b] \in UndoType(b) /\ (undo'[b] # "none" => Handles(b))
    <3>1. \A b \in Action : "none" \in UndoType(b)
      BY Kinds DEF Setting
    <3> QED
      BY <1>7, <3>1 DEF UndosTyped
  <2>2. ASSUME NEW s \in Setting, NEW i \in DOMAIN inForce'[s], NEW j \in DOMAIN inForce'[s],
               inForce'[s][i] = inForce'[s][j]
        PROVE  i = j
    <3>1. CASE s # s0
      BY <1>4, <2>2, <3>1 DEF UndosTyped
    <3>2. CASE s = s0
      <4>1. /\ i \in 1..(Len(on) - 1) /\ j \in 1..(Len(on) - 1) /\ rest[i] = rest[j]
        BY <1>8, <2>2, <3>2
      <4> HIDE DEF rest, on
      <4>2. ASSUME NEW x \in 1..(Len(on) - 1)
            PROVE  /\ (IF x < k THEN x ELSE x + 1) \in DOMAIN on
                   /\ rest[x] = on[IF x < k THEN x ELSE x + 1]
        BY <1>5, <1>8, <4>2
      <4>3. (IF i < k THEN i ELSE i + 1) = (IF j < k THEN j ELSE j + 1)
        BY <1>3, <4>1, <4>2
      <4> QED
        BY <4>1, <4>3, <1>8
    <3> QED
      BY <3>1, <3>2
  <2>3. ASSUME NEW s \in Setting, NEW i \in DOMAIN inForce'[s]
        PROVE  Subject[inForce'[s][i]] = s
    <3>1. CASE s # s0
      BY <1>4, <3>1 DEF UndosTyped
    <3>2. CASE s = s0
      <4>1. \A m \in 1..Len(on) : Subject[on[m]] = s0
        BY <1>1, <1>8 DEF UndosTyped
      <4> QED
        BY <1>8, <1>9, <2>3, <3>2, <4>1
    <3> QED
      BY <3>1, <3>2
  <2>4. ASSUME NEW b \in Action
        PROVE  undo'[b] # "none" <=>
                 \E i \in DOMAIN inForce'[Subject[b]] : inForce'[Subject[b]][i] = b
    <3>0. Subject[b] \in Setting
      BY Kinds
    <3>1. CASE Subject[b] # s0
      BY <1>4, <1>7, <3>0, <3>1 DEF UndosTyped
    <3>2. CASE b = a
      <4>1. ~\E i \in 1..(Len(on) - 1) : rest[i] = a
        <5> HIDE DEF rest, on
        <5> QED
          BY <1>2, <1>3, <1>8, <1>9
      <4> QED
        BY <1>7, <1>8, <3>2, <4>1
    <3>3. CASE Subject[b] = s0 /\ b # a
      <4>1. undo[b] # "none" <=> \E i \in 1..Len(on) : on[i] = b
        BY <1>8, <3>3 DEF UndosTyped
      <4>2. ASSUME NEW j \in 1..Len(on), on[j] = b
            PROVE  \E i \in 1..(Len(on) - 1) : rest[i] = b
        <5> HIDE DEF rest, on
        <5>1. j # k
          BY <1>2, <3>3, <4>2
        <5>2. CASE j < k
          BY <1>5, <1>8, <4>2, <5>2
        <5>3. CASE j > k
          <6>1. j - 1 \in 1..(Len(on) - 1) /\ ~(j - 1 < k) /\ (j - 1) + 1 = j
            BY <1>8, <5>3
          <6>2. rest[j - 1] = b
            BY <1>5, <4>2, <6>1
          <6> QED
            BY <6>1, <6>2
        <5> QED
          BY <5>1, <5>2, <5>3
      <4>3. ASSUME NEW i \in 1..(Len(on) - 1), rest[i] = b
            PROVE  \E j \in 1..Len(on) : on[j] = b
        BY <1>9, <4>3
      <4>4. (\E j \in 1..Len(on) : on[j] = b) <=> \E i \in 1..(Len(on) - 1) : rest[i] = b
        BY <4>2, <4>3
      <4>5. undo'[b] = undo[b]
        BY <1>7, <3>3
      <4> QED
        BY <1>8, <3>3, <4>1, <4>4, <4>5
    <3> QED
      BY <3>1, <3>2, <3>3
  <2>5. /\ \A b \in Action : UndoType(b)' = UndoType(b)
        /\ \A b \in Action : Handles(b)' <=> Handles(b)
    BY DEF UndoType, Handles
  <2>6. DOMAIN undo' = Action
    BY DEF UndosTyped
  <2> QED
    BY <1>6, <2>1, <2>2, <2>3, <2>4, <2>5, <2>6 DEF UndosTyped
<1>11. ASSUME IsLast(a), NEW i \in 1..(Len(on) - 1)
       PROVE  rest[i] = on[i] /\ on[i] # a
  <2>1. on[Len(on)] = a
    BY <1>11 DEF IsLast
  <2> HIDE DEF rest, on
  <2>2. k = Len(on)
    <3>1. k \in DOMAIN on /\ Len(on) \in DOMAIN on
      BY <1>2, <1>8
    <3> QED
      BY <1>2, <1>3, <2>1, <3>1
  <2> QED
    BY <1>2, <1>3, <1>5, <1>8, <2>2
<1> QED
  BY <1>1, <1>4, <1>5, <1>7, <1>10, <1>11

-----------------------------------------------------------------------------
(* The invariant is inductive.                                             *)

(* An empty list of actions in force holds no undo of its setting.         *)
LEMMA NoneInForce ==
  ASSUME UndosTyped, NEW a \in Action, inForce[Subject[a]] = <<>>
  PROVE  undo[a] = "none"
<1>1. ~\E i \in DOMAIN inForce[Subject[a]] : inForce[Subject[a]][i] = a
  OBVIOUS
<1> QED
  BY <1>1 DEF UndosTyped

(* Whatever the history, a state with no undo whose settings are the       *)
(* original ones is a start.                                               *)
LEMMA FreshStart ==
  ASSUME TargetTyped, undo = [a \in Action |-> "none"], inForce = [s \in Setting |-> <<>>],
         original = Values, found = rules, inOrder = TRUE, broken = {}
  PROVE  IInv
<1>1. \A s \in Setting : original[s] = Value(s) /\ inForce[s] = <<>>
  BY DEF Values
<1>2. \A a \in Action : undo[a] = "none"
  OBVIOUS
<1>3. UndosTyped
  <2>1. \A a \in Action : "none" \in UndoType(a)
    BY Kinds DEF Setting
  <2>2. inForce \in [Setting -> Seq(Action)]
    <3>1. <<>> \in Seq(Action)
      OBVIOUS
    <3> QED
      BY <3>1
  <2>3. \A s \in Setting : DOMAIN inForce[s] = {}
    BY <1>1
  <2>4. \A a \in Action : Subject[a] \in Setting
    BY Kinds
  <2> QED
    BY <1>2, <2>1, <2>2, <2>3, <2>4 DEF UndosTyped
<1>4. FirstOnesStay /\ OneUndoOpens /\ OriginalIs
  <2>1. \A p \in Ports : OwnedAtFirst(p) <=> Owns(p)
    <3>1. \A p \in Ports : backend = "host" => (Owns(p) <=> Value(p) = "denied")
      BY BackendConstantsAssumption DEF Owns, Value, DeniedToAll, DeniedToSome
    <3> QED
      BY <1>1, <3>1 DEF OwnedAtFirst, Owns, Setting
  <2>2. \A p \in Ports, a \in Action : ~Opens(a, p)
    BY <1>2 DEF Opens
  <2>3. \A p \in Ports : original[p] = Value(p)
    BY <1>1 DEF Setting
  <2> QED
    BY <2>1, <2>2, <2>3, ValueOfSetting
    DEF FirstOnesStay, OneUndoOpens, OriginalIs, ValuesAreOfTheKind
<1>5. PortsInOrder
  BY <1>1 DEF PortsInOrder, Setting
<1>6. OthersInOrder
  <2> SUFFICES ASSUME NEW s \in Setting
               PROVE  /\ Value(s) = Before(s, Len(inForce[s]) + 1)
                      /\ \A i \in DOMAIN inForce[s] : undo[inForce[s][i]] = Before(s, i)
    BY DEF OthersInOrder
  <2>1. Len(inForce[s]) = 0 /\ DOMAIN inForce[s] = {}
    BY <1>1
  <2> QED
    BY <1>1, <2>1 DEF Before
<1> QED
  BY <1>3, <1>4, <1>5, <1>6 DEF IInv

LEMMA InvInit == Init => IInv
<1> SUFFICES ASSUME Init
             PROVE  IInv
  OBVIOUS
<1>1. /\ rules \in [RuleNames -> Rule \cup {NoRule}] /\ found = rules
  BY DEF Init
<1>2. backend \in {"host", "sim", "live"} /\ denied \subseteq Ports
  BY DEF Init
<1>3. services \in [Services -> {"on", "off", "absent"}]
  BY DEF Init
<1>4. secrets \in [Secrets -> SecretValues]
  <2>1. FirstValues \subseteq SecretValues /\ "absent" \in SecretValues
    BY DEF SecretValues
  <2> QED
    BY <2>1 DEF Init
<1>5. TargetTyped
  BY <1>1, <1>2, <1>3, <1>4 DEF TargetTyped
<1> QED
  BY <1>5, FreshStart DEF Init

LEMMA RestartKeeps ==
  ASSUME IInv, Restart
  PROVE  IInv'
<1>1. TargetTyped'
  BY DEF IInv, TargetTyped, Restart, target
<1>2. Values' = Values
  BY DEF Restart, target, Values, Value, DeniedToAll, DeniedToSome, HasDeny, ServiceEnabled
<1>3. /\ undo' = [a \in Action |-> "none"] /\ inForce' = [s \in Setting |-> <<>>]
      /\ original' = Values' /\ found' = rules' /\ inOrder' = TRUE /\ broken' = {}
  BY <1>2 DEF Restart, target
<1> DEFINE Fresh == /\ undo = [a \in Action |-> "none"] /\ inForce = [s \in Setting |-> <<>>]
                    /\ original = Values /\ found = rules /\ inOrder = TRUE /\ broken = {}
<1>4. TargetTyped /\ Fresh => IInv
  BY FreshStart
<1>5. Fresh'
  BY <1>3
<1> HIDE DEF Fresh
<1>6. TargetTyped' /\ Fresh' => IInv'
  BY FreshStart, PTL DEF Fresh
<1> QED
  BY <1>1, <1>5, <1>6

LEMMA ApplyKeeps ==
  ASSUME IInv, NEW a \in Action, Apply(a)
  PROVE  IInv'
<1> DEFINE s0 == Subject[a]
           on == inForce[s0]
<1>1. /\ TargetTyped /\ UndosTyped /\ Handles(a) /\ undo[a] = "none" /\ Change(a)
      /\ undo' = [undo EXCEPT ![a] = Prior(a)]
      /\ inForce' = [inForce EXCEPT ![s0] = Append(@, a)]
      /\ FirstOnesStay /\ OneUndoOpens /\ OriginalIs
      /\ UNCHANGED <<backend, original, found, inOrder, broken>>
  BY DEF IInv, Apply
<1>2. /\ Prior(a) \in UndoType(a) /\ Prior(a) # "none"
      /\ s0 \in Ports => /\ Owns(s0) => Prior(a) = "denied"
                         /\ Prior(a) = "denied" /\ UndoTells(s0) => Owns(s0)
      /\ s0 \notin Ports => Prior(a) = Value(s0)
  BY <1>1, PriorIs
<1>3. TargetTyped' /\ Changed(a)
  BY <1>1, ChangeEffect
<1>4. /\ UndosTyped'
      /\ \A b \in Action : undo'[b] = IF b = a THEN Prior(a) ELSE undo[b]
      /\ \A s \in Setting : s # s0 => inForce'[s] = inForce[s]
      /\ Len(inForce'[s0]) = Len(on) + 1 /\ inForce'[s0][Len(on) + 1] = a
      /\ \A i \in 1..Len(on) : inForce'[s0][i] = on[i] /\ on[i] # a
  BY <1>1, <1>2, AppliedUndos, ZenonT(60)
<1>5. /\ s0 \in Setting /\ Len(on) \in Nat
      /\ inForce'[s0] # <<>> /\ DOMAIN inForce'[s0] = 1..(Len(on) + 1)
      /\ DOMAIN on = 1..Len(on) /\ \A i \in 1..Len(on) : on[i] \in Action
  BY <1>1, <1>4, Kinds DEF UndosTyped
<1>6. \A s \in Setting : s # s0 => \A i \in DOMAIN inForce[s] :
        inForce[s][i] \in Action /\ inForce[s][i] # a
  <2> SUFFICES ASSUME NEW s \in Setting, s # s0, NEW i \in DOMAIN inForce[s]
               PROVE  inForce[s][i] \in Action /\ inForce[s][i] # a
    OBVIOUS
  <2>1. inForce[s] \in Seq(Action) /\ Subject[inForce[s][i]] = s
    BY <1>1 DEF UndosTyped
  <2> QED
    BY <2>1
<1>7. FirstOnesStay' /\ OneUndoOpens' /\ OriginalIs'
  <2>1. SameStart
    BY <1>1, StartKept
  <2>2. \A p \in Ports : /\ Owns(p)' <=> Owns(p) \/ p = s0
                         /\ FromOthers(p)' = FromOthers(p)
    BY <1>3 DEF Changed
  <2>3. \A b \in Action, p \in Ports :
          Opens(b, p)' <=> IF b = a THEN p = s0 /\ Prior(a) = "open" ELSE Opens(b, p)
    BY <1>4 DEF Opens
  <2>4. \A p \in Ports : ~Opens(a, p)
    BY <1>1 DEF Opens
  <2>5. FirstOnesStay'
    BY <1>1, <1>2, <2>1, <2>2, <2>3 DEF FirstOnesStay, SameStart
  <2>6. OneUndoOpens'
    <3> SUFFICES ASSUME NEW p \in Ports, p \notin broken
                 PROVE  (/\ UndoTells(p) /\ Owns(p) => OwnedAtFirst(p) \/ \E b \in Action : Opens(b, p)
                         /\ \A b \in Action : Opens(b, p) => Owns(p)
                         /\ \A b, c \in Action : Opens(b, p) /\ Opens(c, p) => b = c)'
      BY <1>1 DEF OneUndoOpens
    <3>1. /\ UndoTells(p) /\ Owns(p) => OwnedAtFirst(p) \/ \E b \in Action : Opens(b, p)
          /\ \A b \in Action : Opens(b, p) => Owns(p)
          /\ \A b, c \in Action : Opens(b, p) /\ Opens(c, p) => b = c
      BY <1>1 DEF OneUndoOpens
    <3>2. (UndoTells(p)' <=> UndoTells(p)) /\ (OwnedAtFirst(p)' <=> OwnedAtFirst(p))
      BY <2>1 DEF SameStart
    <3>3. CASE p = s0 /\ Prior(a) = "open"
      <4>1. Opens(a, p)' /\ \A b \in Action : ~Opens(b, p)
        BY <1>2, <2>3, <3>1, <3>3
      <4> QED
        BY <2>2, <2>3, <3>3, <4>1
    <3>4. CASE p = s0 /\ Prior(a) # "open"
      <4>1. Prior(a) = "denied"
        BY <1>2, <3>4, Kinds
      <4>2. \A b \in Action : Opens(b, p)' <=> Opens(b, p)
        BY <2>3, <2>4, <3>4
      <4> QED
        BY <1>2, <2>2, <3>1, <3>2, <3>4, <4>1, <4>2
    <3>5. CASE p # s0
      BY <2>2, <2>3, <2>4, <3>1, <3>2, <3>5
    <3> QED
      BY <3>3, <3>4, <3>5
  <2>7. OriginalIs'
    BY <1>1, <2>1, <2>2 DEF OriginalIs, SameStart
  <2> QED
    BY <2>5, <2>6, <2>7
<1>8. PortsInOrder'
  <2> SUFFICES ASSUME inOrder, NEW p \in Ports, p \notin broken
               PROVE  /\ inForce'[p] # <<>> => Owns(p)'
                      /\ \A i \in DOMAIN inForce'[p] : i > 1 => undo'[inForce'[p][i]] = "denied"
    BY <1>1 DEF PortsInOrder
  <2>1. /\ inForce[p] # <<>> => Owns(p)
        /\ \A i \in DOMAIN inForce[p] : i > 1 => undo[inForce[p][i]] = "denied"
    BY DEF IInv, PortsInOrder
  <2>2. Owns(p)' <=> Owns(p) \/ p = s0
    BY <1>3 DEF Changed
  <2>3. CASE p # s0
    <3>1. inForce'[p] = inForce[p]
      BY <1>4, <2>3 DEF Setting
    <3>2. \A i \in DOMAIN inForce[p] : inForce[p][i] \in Action /\ inForce[p][i] # a
      BY <1>6, <2>3 DEF Setting
    <3> QED
      BY <1>4, <2>1, <2>2, <3>1, <3>2
  <2>4. CASE p = s0
    <3>1. ASSUME NEW i \in 1..Len(on), i > 1
          PROVE  undo'[inForce'[s0][i]] = "denied"
      BY <1>4, <1>5, <2>1, <2>4, <3>1
    <3>2. Len(on) + 1 > 1 => undo'[inForce'[s0][Len(on) + 1]] = "denied"
      <4> SUFFICES ASSUME Len(on) + 1 > 1
                   PROVE  Prior(a) = "denied"
        BY <1>4
      <4>1. on # <<>>
        BY <1>5
      <4>2. Owns(s0)
        BY <2>1, <2>4, <4>1
      <4> QED
        BY <1>2, <2>4, <4>2, Kinds
    <3>3. ASSUME NEW i \in 1..(Len(on) + 1)
          PROVE  i \in 1..Len(on) \/ i = Len(on) + 1
      BY <1>5
    <3> QED
      BY <1>5, <2>2, <2>4, <3>1, <3>2, <3>3
  <2> QED
    BY <2>3, <2>4
<1>9. OthersInOrder'
  <2> SUFFICES ASSUME inOrder, NEW s \in Setting \ (Ports \cup broken)
               PROVE  (/\ Value(s) = Before(s, Len(inForce[s]) + 1)
                       /\ \A i \in DOMAIN inForce[s] : undo[inForce[s][i]] = Before(s, i))'
    BY <1>1 DEF OthersInOrder, Setting
  <2>1. /\ Value(s) = Before(s, Len(inForce[s]) + 1)
        /\ \A i \in DOMAIN inForce[s] : undo[inForce[s][i]] = Before(s, i)
    BY DEF IInv, OthersInOrder
  <2>2. Value(s)' = IF s = s0 THEN WantedOf(a) ELSE Value(s)
    BY <1>3 DEF Changed, Setting
  <2>3. CASE s # s0
    <3>1. inForce'[s] = inForce[s] /\ \A i : Before(s, i)' = Before(s, i)
      BY <1>1, <1>4, <2>3 DEF Before
    <3>2. \A i \in DOMAIN inForce[s] : undo'[inForce[s][i]] = undo[inForce[s][i]]
      BY <1>4, <1>6, <2>3
    <3> QED
      BY <2>1, <2>2, <2>3, <3>1, <3>2
  <2>4. CASE s = s0
    <3>1. \A i \in 1..(Len(on) + 1) : Before(s0, i)' = Before(s0, i)
      <4> SUFFICES ASSUME NEW i \in 1..(Len(on) + 1)
                   PROVE  Before(s0, i)' = Before(s0, i)
        OBVIOUS
      <4>1. CASE i = 1
        BY <1>1, <4>1 DEF Before
      <4>2. CASE i # 1
        <5>1. i - 1 \in 1..Len(on)
          BY <1>5, <4>2
        <5>2. inForce'[s0][i - 1] = inForce[s0][i - 1]
          BY <1>4, <5>1
        <5> QED
          BY <4>2, <5>2 DEF Before
      <4> QED
        BY <4>1, <4>2
    <3>2. (Value(s0) = Before(s0, Len(inForce[s0]) + 1))'
      <4>1. PICK n \in Nat : n = Len(on)
        BY <1>5
      <4>2. n + 2 # 1 /\ n + 2 - 1 = n + 1 /\ Len(inForce'[s0]) + 1 = n + 2
        BY <1>4, <4>1
      <4>3. Before(s0, n + 2)' = WantedOf(a)
        BY <1>4, <4>1, <4>2 DEF Before
      <4> QED
        BY <2>2, <2>4, <4>2, <4>3
    <3>3. ASSUME NEW i \in 1..Len(on)
          PROVE  undo'[inForce'[s0][i]] = Before(s0, i)
      BY <1>4, <1>5, <2>1, <2>4
    <3>4. undo'[inForce'[s0][Len(on) + 1]] = Before(s0, Len(on) + 1)
      BY <1>2, <1>4, <2>1, <2>4
    <3>5. \A i \in 1..(Len(on) + 1) : i \in 1..Len(on) \/ i = Len(on) + 1
      BY <1>5
    <3>6. (\A i \in DOMAIN inForce[s0] : undo[inForce[s0][i]] = Before(s0, i))'
      BY <1>5, <3>1, <3>3, <3>4, <3>5
    <3> QED
      BY <2>4, <3>2, <3>6
  <2> QED
    BY <2>3, <2>4
<1> QED
  BY <1>3, <1>4, <1>7, <1>8, <1>9 DEF IInv

LEMMA RollbackKeeps ==
  ASSUME IInv, NEW a \in Action, Rollback(a)
  PROVE  IInv'
<1> DEFINE s0 == Subject[a]
           on == inForce[s0]
<1>1. /\ TargetTyped /\ UndosTyped /\ undo[a] # "none" /\ Restore(a)
      /\ undo' = [undo EXCEPT ![a] = "none"]
      /\ inForce' = [inForce EXCEPT ![s0] = Without(@, a)]
      /\ inOrder' = (inOrder /\ IsLast(a))
      /\ FirstOnesStay /\ OneUndoOpens /\ OriginalIs
      /\ UNCHANGED <<backend, original, found, broken>>
  BY DEF IInv, Rollback
<1>2. Handles(a) /\ undo[a] \in UndoType(a) /\ inOrder \in BOOLEAN
  BY <1>1 DEF UndosTyped
<1>3. TargetTyped' /\ Restored(a)
  BY <1>1, <1>2, RestoreEffect
<1>4. /\ UndosTyped'
      /\ \A b \in Action : undo'[b] = IF b = a THEN "none" ELSE undo[b]
      /\ \A s \in Setting : s # s0 => inForce'[s] = inForce[s]
      /\ on \in Seq(Action) /\ inForce'[s0] \in Seq(Action)
      /\ Len(inForce'[s0]) = Len(on) - 1
      /\ IsLast(a) => \A i \in 1..(Len(on) - 1) : inForce'[s0][i] = on[i] /\ on[i] # a
  <2>1. inOrder' \in BOOLEAN
    BY <1>1
  <2> QED
    BY <1>1, <2>1, RolledBackUndos
<1>5. inOrder' => inOrder /\ IsLast(a)
  BY <1>1
<1>6. IsLast(a) => on[Len(on)] = a
  BY DEF IsLast
<1>7. PICK n \in Nat : Len(on) = n + 1
  <2>1. on # <<>>
    BY <1>1, NoneInForce
  <2>2. Len(on) \in Nat /\ Len(on) # 0
    BY <1>4, <2>1
  <2>3. Len(on) - 1 \in Nat /\ Len(on) = (Len(on) - 1) + 1
    BY <2>2
  <2> QED
    BY <2>3
<1>8. /\ s0 \in Setting /\ Len(inForce'[s0]) = n
      /\ DOMAIN inForce'[s0] = 1..n /\ DOMAIN on = 1..(n + 1)
      /\ \A i \in 1..(n + 1) : on[i] \in Action
  BY <1>4, <1>7, Kinds
<1>9. \A s \in Setting : s # s0 => \A i \in DOMAIN inForce[s] :
        inForce[s][i] \in Action /\ inForce[s][i] # a
  <2> SUFFICES ASSUME NEW s \in Setting, s # s0, NEW i \in DOMAIN inForce[s]
               PROVE  inForce[s][i] \in Action /\ inForce[s][i] # a
    OBVIOUS
  <2>1. inForce[s] \in Seq(Action) /\ Subject[inForce[s][i]] = s
    BY <1>1 DEF UndosTyped
  <2> QED
    BY <2>1
<1>10. ASSUME inOrder'
       PROVE  /\ \A i \in 1..n : inForce'[s0][i] = on[i] /\ on[i] # a
              /\ \A i \in 1..n : undo'[inForce'[s0][i]] = undo[on[i]]
              /\ on[n + 1] = a
  <2>1. \A i \in 1..n : inForce'[s0][i] = on[i] /\ on[i] # a
    BY <1>4, <1>5, <1>7, <1>10
  <2>2. \A i \in 1..n : on[i] \in Action
    BY <1>8
  <2> QED
    BY <1>4, <1>5, <1>6, <1>7, <1>10, <2>1, <2>2
<1>11. FirstOnesStay' /\ OneUndoOpens' /\ OriginalIs'
  <2>1. SameStart
    BY <1>1, StartKept
  <2>2. \A p \in Ports : /\ Owns(p)' <=> Owns(p) /\ ~Opens(a, p)
                         /\ FromOthers(p)' = FromOthers(p)
    BY <1>3 DEF Restored
  <2>3. \A b \in Action, p \in Ports : Opens(b, p)' <=> b # a /\ Opens(b, p)
    BY <1>4 DEF Opens
  <2>4. FirstOnesStay'
    BY <1>1, <2>1, <2>2, <2>3 DEF FirstOnesStay, SameStart
  <2>5. OneUndoOpens'
    BY <1>1, <2>1, <2>2, <2>3 DEF OneUndoOpens, SameStart
  <2>6. OriginalIs'
    BY <1>1, <2>1, <2>2 DEF OriginalIs, SameStart
  <2> QED
    BY <2>4, <2>5, <2>6
<1>12. PortsInOrder'
  <2> SUFFICES ASSUME inOrder', NEW p \in Ports, p \notin broken
               PROVE  /\ inForce'[p] # <<>> => Owns(p)'
                      /\ \A i \in DOMAIN inForce'[p] : i > 1 => undo'[inForce'[p][i]] = "denied"
    BY <1>1 DEF PortsInOrder
  <2>1. /\ inForce[p] # <<>> => Owns(p)
        /\ \A i \in DOMAIN inForce[p] : i > 1 => undo[inForce[p][i]] = "denied"
    BY <1>5 DEF IInv, PortsInOrder
  <2>2. Owns(p)' <=> Owns(p) /\ ~Opens(a, p)
    BY <1>3 DEF Restored
  <2>3. CASE p # s0
    <3>1. inForce'[p] = inForce[p]
      BY <1>4, <2>3 DEF Setting
    <3>2. \A i \in DOMAIN inForce[p] : inForce[p][i] \in Action /\ inForce[p][i] # a
      BY <1>9, <2>3 DEF Setting
    <3>3. ~Opens(a, p)
      BY <2>3 DEF Opens
    <3> QED
      BY <1>4, <2>1, <2>2, <3>1, <3>2, <3>3
  <2>4. CASE p = s0
    <3>1. ASSUME inForce'[s0] # <<>>
          PROVE  Owns(s0)'
      <4>1. n # 0
        BY <1>4, <1>8, <3>1
      <4>2. undo[a] = "denied"
        BY <1>8, <1>10, <2>1, <2>4, <4>1
      <4>3. on # <<>> /\ ~Opens(a, s0)
        BY <1>7, <4>2 DEF Opens
      <4> QED
        BY <2>1, <2>2, <2>4, <4>3
    <3>2. ASSUME NEW i \in 1..n, i > 1
          PROVE  undo'[inForce'[s0][i]] = "denied"
      BY <1>8, <1>10, <2>1, <2>4, <3>2
    <3> QED
      BY <1>8, <2>4, <3>1, <3>2
  <2> QED
    BY <2>3, <2>4
<1>13. OthersInOrder'
  <2> SUFFICES ASSUME inOrder', NEW s \in Setting \ (Ports \cup broken)
               PROVE  (/\ Value(s) = Before(s, Len(inForce[s]) + 1)
                       /\ \A i \in DOMAIN inForce[s] : undo[inForce[s][i]] = Before(s, i))'
    BY <1>1 DEF OthersInOrder, Setting
  <2>1. /\ Value(s) = Before(s, Len(inForce[s]) + 1)
        /\ \A i \in DOMAIN inForce[s] : undo[inForce[s][i]] = Before(s, i)
    BY <1>5 DEF IInv, OthersInOrder
  <2>2. Value(s)' = IF s = s0 THEN undo[a] ELSE Value(s)
    BY <1>3 DEF Restored, Setting
  <2>3. CASE s # s0
    <3>1. inForce'[s] = inForce[s] /\ \A i : Before(s, i)' = Before(s, i)
      BY <1>1, <1>4, <2>3 DEF Before
    <3>2. \A i \in DOMAIN inForce[s] : undo'[inForce[s][i]] = undo[inForce[s][i]]
      BY <1>4, <1>9, <2>3
    <3> QED
      BY <2>1, <2>2, <2>3, <3>1, <3>2
  <2>4. CASE s = s0
    <3>1. \A i \in 1..(n + 1) : Before(s0, i)' = Before(s0, i)
      <4> SUFFICES ASSUME NEW i \in 1..(n + 1)
                   PROVE  Before(s0, i)' = Before(s0, i)
        OBVIOUS
      <4>1. CASE i = 1
        BY <1>1, <4>1 DEF Before
      <4>2. CASE i # 1
        <5>1. i - 1 \in 1..n
          BY <4>2
        <5>2. inForce'[s0][i - 1] = inForce[s0][i - 1]
          BY <1>10, <5>1
        <5> QED
          BY <4>2, <5>2 DEF Before
      <4> QED
        BY <4>1, <4>2
    <3>2. (Value(s0) = Before(s0, Len(inForce[s0]) + 1))'
      <4>1. undo[a] = Before(s0, n + 1)
        BY <1>8, <1>10, <2>1, <2>4
      <4> QED
        BY <1>8, <2>2, <2>4, <3>1, <4>1
    <3>3. ASSUME NEW i \in 1..n
          PROVE  undo'[inForce'[s0][i]] = Before(s0, i)'
      <4>1. undo'[inForce'[s0][i]] = undo[on[i]]
        BY <1>10
      <4>2. i \in 1..(n + 1)
        OBVIOUS
      <4> QED
        BY <1>8, <2>1, <2>4, <3>1, <4>1, <4>2
    <3> QED
      BY <1>8, <2>4, <3>2, <3>3
  <2> QED
    BY <2>3, <2>4
<1> QED
  BY <1>3, <1>4, <1>11, <1>12, <1>13 DEF IInv

(* A call that raises spoils its own port and no other setting.            *)
LEMMA ApplyRaisesKeeps ==
  ASSUME IInv, NEW a \in Action, ApplyRaises(a)
  PROVE  IInv'
<1>1. /\ TargetTyped /\ UndosTyped /\ Handles(a) /\ Change(a)
      /\ broken' = broken \cup {Subject[a]}
      /\ FirstOnesStay /\ OneUndoOpens /\ OriginalIs
      /\ UNCHANGED <<backend, undo, inForce, original, found, inOrder>>
  BY DEF IInv, ApplyRaises, Change
<1>2. TargetTyped' /\ Changed(a)
  BY <1>1, ChangeEffect
<1>3. UndosTyped'
  <2>1. /\ \A b \in Action : UndoType(b)' = UndoType(b)
        /\ \A b \in Action : Handles(b)' <=> Handles(b)
    BY <1>1 DEF UndoType, Handles
  <2> QED
    BY <1>1, <2>1 DEF UndosTyped
<1>4. /\ \A p \in Ports \ broken' : p \notin broken /\ (Owns(p)' <=> Owns(p)) /\ (FromOthers(p)' = FromOthers(p))
      /\ \A s \in Setting \ (Ports \cup broken') : s \notin broken /\ Value(s)' = Value(s)
  BY <1>1, <1>2 DEF Changed, Setting
<1>5. FirstOnesStay' /\ OneUndoOpens' /\ OriginalIs'
  <2>1. SameStart
    BY <1>1, StartKept
  <2>2. \A b \in Action, p \in Ports : Opens(b, p)' <=> Opens(b, p)
    BY <1>1 DEF Opens
  <2>3. FirstOnesStay'
    BY <1>1, <1>2, <2>1, <2>2 DEF FirstOnesStay, SameStart, Changed
  <2>4. OneUndoOpens'
    BY <1>1, <1>4, <2>1, <2>2 DEF OneUndoOpens, SameStart
  <2>5. OriginalIs'
    BY <1>1, <1>2, <2>1 DEF OriginalIs, SameStart, Changed
  <2> QED
    BY <2>3, <2>4, <2>5
<1>6. PortsInOrder'
  BY <1>1, <1>4 DEF IInv, PortsInOrder
<1>7. OthersInOrder'
  <2>1. \A s, i : Before(s, i)' = Before(s, i)
    BY <1>1 DEF Before
  <2> QED
    BY <1>1, <1>4, <2>1 DEF IInv, OthersInOrder
<1> QED
  BY <1>2, <1>3, <1>5, <1>6, <1>7 DEF IInv

LEMMA RollbackRaisesKeeps ==
  ASSUME IInv, NEW a \in Action, RollbackRaises(a)
  PROVE  IInv'
<1>1. /\ TargetTyped /\ UndosTyped /\ undo[a] # "none" /\ backend = "live"
      /\ undo' = [undo EXCEPT ![a] = "none"]
      /\ inForce' = [inForce EXCEPT ![Subject[a]] = Without(@, a)]
      /\ broken' = broken \cup {Subject[a]}
      /\ FirstOnesStay /\ OneUndoOpens /\ OriginalIs
      /\ UNCHANGED <<backend, target, original, found, inOrder>>
  BY DEF IInv, RollbackRaises
<1>2. Handles(a) /\ Subject[a] \in Ports /\ inOrder' \in BOOLEAN
  BY <1>1 DEF UndosTyped, Handles
<1>3. /\ UndosTyped'
      /\ \A b \in Action : undo'[b] = IF b = a THEN "none" ELSE undo[b]
      /\ \A s \in Setting : s # Subject[a] => inForce'[s] = inForce[s]
  BY <1>1, <1>2, RolledBackUndos
<1>4. TargetTyped'
  BY <1>1 DEF TargetTyped, target
<1>5. /\ \A p \in Ports : (Owns(p)' <=> Owns(p)) /\ (FromOthers(p)' = FromOthers(p))
      /\ \A s \in Setting : Value(s)' = Value(s)
  BY <1>1
  DEF target, Owns, FromOthers, Value, DeniedToAll, DeniedToSome, HasDeny, ServiceEnabled
<1>6. ASSUME NEW s \in Setting, s \notin broken' \/ s \notin Ports
      PROVE  /\ s # Subject[a] /\ inForce'[s] = inForce[s]
             /\ \A i \in DOMAIN inForce[s] :
                  inForce[s][i] \in Action /\ undo'[inForce[s][i]] = undo[inForce[s][i]]
  <2>1. s # Subject[a] /\ inForce'[s] = inForce[s]
    BY <1>1, <1>2, <1>3, <1>6
  <2>2. \A i \in DOMAIN inForce[s] : inForce[s][i] \in Action /\ Subject[inForce[s][i]] = s
    BY <1>1 DEF UndosTyped
  <2> QED
    BY <1>3, <2>1, <2>2
<1>7. FirstOnesStay' /\ OneUndoOpens' /\ OriginalIs'
  <2>1. SameStart
    BY <1>1, StartKept
  <2>2. \A b \in Action, p \in Ports : Opens(b, p)' => Opens(b, p)
    BY <1>3 DEF Opens
  <2>3. \A p \in Ports \ broken' : \A b \in Action : Opens(b, p)' <=> Opens(b, p)
    BY <1>1, <1>3 DEF Opens
  <2>4. FirstOnesStay'
    BY <1>1, <1>5, <2>1, <2>2 DEF FirstOnesStay, SameStart
  <2>5. OneUndoOpens'
    BY <1>1, <1>5, <2>1, <2>3 DEF OneUndoOpens, SameStart
  <2>6. OriginalIs'
    BY <1>1, <1>5, <2>1 DEF OriginalIs, SameStart
  <2> QED
    BY <2>4, <2>5, <2>6
<1>8. PortsInOrder'
  <2> SUFFICES ASSUME inOrder, NEW p \in Ports, p \notin broken'
               PROVE  /\ inForce'[p] # <<>> => Owns(p)'
                      /\ \A i \in DOMAIN inForce'[p] : i > 1 => undo'[inForce'[p][i]] = "denied"
    BY <1>1 DEF PortsInOrder
  <2>1. p \in Setting /\ p \notin broken
    BY <1>1 DEF Setting
  <2> QED
    BY <1>5, <1>6, <2>1 DEF IInv, PortsInOrder
<1>9. OthersInOrder'
  <2> SUFFICES ASSUME inOrder, NEW s \in Setting \ (Ports \cup broken')
               PROVE  (/\ Value(s) = Before(s, Len(inForce[s]) + 1)
                       /\ \A i \in DOMAIN inForce[s] : undo[inForce[s][i]] = Before(s, i))'
    BY <1>1 DEF OthersInOrder, Setting
  <2>1. /\ Value(s) = Before(s, Len(inForce[s]) + 1)
        /\ \A i \in DOMAIN inForce[s] : undo[inForce[s][i]] = Before(s, i)
    BY <1>1 DEF IInv, OthersInOrder
  <2>2. inForce'[s] = inForce[s] /\ \A i : Before(s, i)' = Before(s, i)
    BY <1>1, <1>6 DEF Before
  <2> QED
    BY <1>5, <1>6, <2>1, <2>2
<1> QED
  BY <1>3, <1>4, <1>7, <1>8, <1>9 DEF IInv

LEMMA StutterKeeps ==
  ASSUME IInv, UNCHANGED vars
  PROVE  IInv'
<1> USE DEF vars, target, history
<1>1. TargetTyped'
  BY DEF IInv, TargetTyped
<1>2. UndosTyped'
  <2>1. /\ \A b \in Action : UndoType(b)' = UndoType(b)
        /\ \A b \in Action : Handles(b)' <=> Handles(b)
    BY DEF UndoType, Handles
  <2> QED
    BY <2>1 DEF IInv, UndosTyped
<1>3. /\ \A p \in Ports : (Owns(p)' <=> Owns(p)) /\ (FromOthers(p)' = FromOthers(p))
      /\ \A s \in Setting : Value(s)' = Value(s)
      /\ \A b \in Action, p \in Ports : Opens(b, p)' <=> Opens(b, p)
      /\ \A s, i : Before(s, i)' = Before(s, i)
  BY DEF Owns, FromOthers, Value, DeniedToAll, DeniedToSome, HasDeny, ServiceEnabled, Opens, Before
<1>4. FirstOnesStay' /\ OneUndoOpens' /\ OriginalIs'
  <2>1. SameStart
    BY StartKept
  <2> QED
    BY <1>3, <2>1 DEF IInv, FirstOnesStay, OneUndoOpens, OriginalIs, SameStart
<1>5. PortsInOrder'
  BY <1>3 DEF IInv, PortsInOrder
<1>6. OthersInOrder'
  BY <1>3 DEF IInv, OthersInOrder
<1> QED
  BY <1>1, <1>2, <1>4, <1>5, <1>6 DEF IInv

(* The invariant holds in every reachable state, for any actions on any    *)
(* target.                                                                 *)
THEOREM Inductive == Spec => []IInv
<1>1. ASSUME IInv, [Next]_vars
      PROVE  IInv'
  <2>1. CASE UNCHANGED vars
    BY <1>1, <2>1, StutterKeeps
  <2>2. CASE Next
    <3>1. ASSUME NEW a \in Action, Apply(a)
          PROVE  IInv'
      BY <1>1, <3>1, ApplyKeeps
    <3>2. ASSUME NEW a \in Action, Rollback(a)
          PROVE  IInv'
      BY <1>1, <3>2, RollbackKeeps
    <3>3. ASSUME NEW a \in Action, ApplyRaises(a)
          PROVE  IInv'
      BY <1>1, <3>3, ApplyRaisesKeeps
    <3>4. ASSUME NEW a \in Action, RollbackRaises(a)
          PROVE  IInv'
      BY <1>1, <3>4, RollbackRaisesKeeps
    <3>5. CASE Restart
      BY <1>1, <3>5, RestartKeeps
    <3> QED
      BY <2>2, <3>1, <3>2, <3>3, <3>4, <3>5 DEF Next
  <2> QED
    BY <1>1, <2>1, <2>2
<1> QED
  BY <1>1, InvInit, PTL DEF Spec

-----------------------------------------------------------------------------
(* What the invariant says of rollback and of validation.                  *)

(* A port with nothing in force has its original value and rule, if the    *)
(* undo tells what that was; so have the other settings, rolled back in    *)
(* order.                                                                  *)
LEMMA NothingInForce ==
  ASSUME IInv, NEW s \in Setting \ broken, inForce[s] = <<>>, s \in Ports \/ inOrder, Told(s)
  PROVE  /\ Value(s) = original[s]
         /\ s \in Ports => rules[OwnName[s]] = found[OwnName[s]]
<1>1. /\ TargetTyped /\ UndosTyped /\ OthersInOrder
      /\ FirstOnesStay /\ OneUndoOpens /\ OriginalIs
  BY DEF IInv
<1>2. CASE s \in Ports
  <2>1. ~\E a \in Action : Opens(a, s)
    BY <1>1, NoneInForce DEF Opens
  <2>2. UndoTells(s)
    BY <1>2 DEF Told
  <2>3. OwnedAtFirst(s) <=> Owns(s)
    BY <1>1, <1>2, <2>1, <2>2 DEF FirstOnesStay, OneUndoOpens
  <2>4. Value(s) = original[s]
    BY <1>1, <1>2, <2>2, <2>3, ValueOfSetting DEF OriginalIs, ValuesAreOfTheKind
  <2>5. rules[OwnName[s]] = found[OwnName[s]]
    <3>1. CASE backend = "host"
      BY <1>1, <1>2, <3>1 DEF TargetTyped
    <3>2. CASE backend # "host"
      BY <1>1, <1>2, <2>2, <2>3, <3>2 DEF TargetTyped, UndoTells, Owns, OwnedAtFirst
    <3> QED
      BY <3>1, <3>2
  <2> QED
    BY <2>4, <2>5
<1>3. CASE s \notin Ports
  <2>1. Value(s) = Before(s, Len(inForce[s]) + 1)
    BY <1>1, <1>3 DEF OthersInOrder
  <2>2. Len(inForce[s]) + 1 = 1
    OBVIOUS
  <2> QED
    BY <1>3, <2>1, <2>2 DEF Before
<1> QED
  BY <1>2, <1>3

(* A setting with actions in force has what the latest of them wants.      *)
LEMMA LatestInForce ==
  ASSUME IInv, NEW s \in Setting \ broken, inForce[s] # <<>>, inOrder
  PROVE  /\ inForce[s][Len(inForce[s])] \in Action
         /\ Subject[inForce[s][Len(inForce[s])]] = s
         /\ Value(s) = WantedOf(inForce[s][Len(inForce[s])])
<1>1. TargetTyped /\ UndosTyped /\ PortsInOrder /\ OthersInOrder
  BY DEF IInv
<1>2. inForce[s] \in Seq(Action)
  BY <1>1 DEF UndosTyped
<1>3. Len(inForce[s]) \in DOMAIN inForce[s] /\ Len(inForce[s]) \in Nat \ {0}
  BY <1>2
<1> DEFINE last == inForce[s][Len(inForce[s])]
<1>4. last \in Action /\ Subject[last] = s
  BY <1>1, <1>2, <1>3 DEF UndosTyped
<1>5. CASE s \in Ports
  <2>1. Owns(s)
    BY <1>1, <1>5 DEF PortsInOrder
  <2>2. Value(s) = "denied"
    BY <1>1, <1>5, <2>1, ValueOfSetting DEF ValuesAreOfTheKind
  <2> QED
    BY <1>4, <1>5, <2>2, Kinds
<1>6. CASE s \notin Ports
  <2>1. Value(s) = Before(s, Len(inForce[s]) + 1)
    BY <1>1, <1>6 DEF OthersInOrder
  <2>2. Len(inForce[s]) + 1 # 1 /\ Len(inForce[s]) + 1 - 1 = Len(inForce[s])
    BY <1>3
  <2> QED
    BY <1>4, <2>1, <2>2 DEF Before
<1> QED
  BY <1>4, <1>5, <1>6

(* The variables keep their types, and an undo is held exactly for the     *)
(* actions in force (backends.py, the _undo dictionaries).                 *)
THEOREM TypeCorrect == Spec => []TypeOK
<1>1. IInv => TypeOK
  BY DEF IInv, TargetTyped, UndosTyped, TypeOK
<1> QED
  BY <1>1, Inductive, PTL

(* Rollback is exact, for every kind of target and any number of actions:  *)
(* rolled back last in, first out, each setting has what the latest action *)
(* in force wants and in the end its first value; ports get theirs, and    *)
(* the rule of their name, in whatever order the actions are rolled back.  *)
(* On a rule group the end is promised only where one bit could tell what  *)
(* rules were found (UndoTells); elsewhere the code's undo is not exact.   *)
THEOREM RollbackExact == Spec => []RollbackIsExact
<1>1. ASSUME IInv
      PROVE  RollbackIsExact
  <2>1. LatestInForceRules
    BY <1>1, NothingInForce, LatestInForce DEF LatestInForceRules
  <2>2. PortsAreRestoredInAnyOrder
    BY <1>1, NothingInForce DEF PortsAreRestoredInAnyOrder, Setting, Told
  <2> QED
    BY <2>1, <2>2 DEF RollbackIsExact
<1> QED
  BY <1>1, Inductive, PTL

(* Validation tells an action in force from one that is not, wherever the  *)
(* target lets it (validate() of the backends).                            *)
THEOREM ValidationTells == Spec => []ValidationTellsInForce
<1>1. ASSUME IInv
      PROVE  ValidationTellsInForce
  <2> SUFFICES ASSUME inOrder, NEW a \in Action, Handles(a), Subject[a] \notin broken
               PROVE  /\ IsLast(a) /\ (Subject[a] \in Secrets => NewValue[a] # OldValue[a]) => Validate(a)
                      /\ inForce[Subject[a]] = <<>> /\ CanTell(a) => ~Validate(a)
    BY DEF ValidationTellsInForce
  <2>1. TargetTyped /\ Subject[a] \in Setting \ broken
    BY <1>1, Kinds DEF IInv
  <2>2. IsLast(a) => Value(Subject[a]) = WantedOf(a)
    BY <1>1, <2>1, LatestInForce DEF IsLast
  <2>3. inForce[Subject[a]] = <<>> /\ CanTell(a) => Value(Subject[a]) = original[Subject[a]]
    BY <1>1, <2>1, NothingInForce DEF CanTell
  <2>4. CASE Subject[a] \in Ports
    <3>1. /\ WantedOf(a) = "denied" /\ Subject[a] \notin Services /\ Subject[a] \notin Secrets
      BY <2>4, Kinds
    <3>2. /\ backend # "host" => (HasDeny(Subject[a]) <=> Value(Subject[a]) # "open")
          /\ backend = "host" => (Value(Subject[a]) = IF Subject[a] \in denied THEN "denied" ELSE "open")
      BY <2>1, <2>4, <3>1, ValueOfSetting DEF ValuesAreOfTheKind, Value, DeniedToAll, DeniedToSome
    <3>3. Validate(a) <=> IF backend = "host" THEN ~Exposed(Subject[a]) ELSE HasDeny(Subject[a])
      BY <2>4, <3>1 DEF Validate
    <3> QED
      BY <2>2, <2>3, <2>4, <3>1, <3>2, <3>3 DEF Exposed, CanTell
  <2>5. CASE Subject[a] \in Services
    <3>1. WantedOf(a) = "off" /\ Subject[a] \notin Ports /\ Subject[a] \notin Secrets
      BY <2>5, Kinds
    <3>2. Value(Subject[a]) = ServiceEnabled(Subject[a])
      BY <2>1, <2>5, ValueOfSetting DEF ValuesAreOfTheKind
    <3>3. Validate(a) <=> ServiceEnabled(Subject[a]) = "off"
      BY <2>5, <3>1 DEF Validate
    <3> QED
      BY <2>2, <2>3, <3>1, <3>2, <3>3 DEF CanTell
  <2>6. CASE Subject[a] \in Secrets
    <3>1. WantedOf(a) = NewValue[a] /\ Subject[a] \notin Ports /\ Subject[a] \notin Services
      BY <2>6, Kinds
    <3>2. Value(Subject[a]) = secrets[Subject[a]]
      BY <2>1, <2>6, ValueOfSetting DEF ValuesAreOfTheKind
    <3>3. Validate(a) <=> secrets[Subject[a]] \notin {"absent", OldValue[a]}
      BY <2>6, <3>1 DEF Validate
    <3> QED
      BY <2>2, <2>3, <2>6, <3>1, <3>2, <3>3, BackendConstantsAssumption DEF CanTell
  <2> QED
    BY <2>1, <2>4, <2>5, <2>6 DEF Setting
<1> QED
  BY <1>1, Inductive, PTL

-----------------------------------------------------------------------------
(* The refinement.                                                         *)

Saved == [a \in Action |-> SavedOf(a)]
Wanted == [a \in Action |-> WantedOf(a)]

(* A group and the rules of other owners stay as they are.                 *)
AllTell == \A p \in Ports : UndoTells(p)

(* The change of a successful or a raising apply, seen from outside.       *)
LEMMA ChangePuts ==
  ASSUME TargetTyped, TargetTyped', AllTell, NEW a \in Action, Changed(a),
         UNCHANGED <<backend, found>>
  PROVE  Values' = [Values EXCEPT ![Subject[a]] = Wanted[a]]
<1>1. Subject[a] \in Setting /\ (Subject[a] \in Ports => WantedOf(a) = "denied")
  BY Kinds
<1>2. ASSUME NEW s \in Setting
      PROVE  Value(s)' = IF s = Subject[a] THEN WantedOf(a) ELSE Value(s)
  <2>1. CASE s \in Ports
    <3>1. UndoTells(s) /\ UndoTells(s)'
      BY <2>1 DEF AllTell, UndoTells
    <3> QED
      BY <1>1, <2>1, <3>1, ValueOfSetting, ValueOfSettingNext DEF ValuesAreOfTheKind, Changed
  <2>2. CASE s \notin Ports
    BY <2>2 DEF Changed, Setting
  <2> QED
    BY <2>1, <2>2
<1> QED
  BY <1>1, <1>2 DEF Values, Wanted

LEMMA ApplyMaps ==
  ASSUME IInv, IInv', AllTell, NEW a \in Action, Apply(a)
  PROVE  Reversible!Apply(a)
<1>1. /\ TargetTyped /\ UndosTyped /\ FirstOnesStay /\ TargetTyped'
      /\ Handles(a) /\ undo[a] = "none" /\ Change(a)
      /\ undo' = [undo EXCEPT ![a] = Prior(a)] /\ UNCHANGED <<backend, found>>
  BY DEF IInv, Apply
<1>2. Changed(a)
  BY <1>1, ChangeEffect
<1>3. Values' = [Values EXCEPT ![Subject[a]] = Wanted[a]]
  BY <1>1, <1>2, ChangePuts
<1>4. Subject[a] \in Setting /\ Saved[a] = "none" /\ Values[Subject[a]] = Value(Subject[a])
  BY <1>1, Kinds DEF Saved, SavedOf, Values
<1>5. \A b \in Action : undo'[b] = IF b = a THEN Prior(a) ELSE undo[b]
  BY <1>1 DEF UndosTyped
<1>6. ASSUME NEW b \in Action, b # a
      PROVE  SavedOf(b)' = SavedOf(b)
  BY <1>2, <1>5, <1>6 DEF Changed, SavedOf
<1>7. SavedOf(a)' = Value(Subject[a])
  <2>1. CASE Subject[a] \in Ports
    <3>1. Prior(a) = IF Owns(Subject[a]) THEN "denied" ELSE "open"
      BY <1>1, <2>1, PriorIs, Kinds DEF AllTell
    <3>2. FromOthers(Subject[a])' = FromOthers(Subject[a])
      BY <1>2, <2>1 DEF Changed
    <3>3. Value(Subject[a]) = IF Owns(Subject[a]) THEN "denied" ELSE FromOthers(Subject[a])
      BY <1>1, <2>1, ValueOfSetting DEF ValuesAreOfTheKind, AllTell
    <3> QED
      BY <1>5, <2>1, <3>1, <3>2, <3>3 DEF SavedOf
  <2>2. CASE Subject[a] \notin Ports
    BY <1>1, <1>5, <2>2, PriorIs DEF SavedOf
  <2> QED
    BY <2>1, <2>2
<1>8. Saved' = [Saved EXCEPT ![a] = Values[Subject[a]]]
  BY <1>4, <1>6, <1>7 DEF Saved
<1> QED
  BY <1>3, <1>4, <1>8 DEF Reversible!Apply, Reversible!Put, Saved, Wanted

LEMMA RollbackMaps ==
  ASSUME IInv, IInv', AllTell, NEW a \in Action, Rollback(a)
  PROVE  Reversible!Rollback(a)
<1>1. /\ TargetTyped /\ UndosTyped /\ FirstOnesStay /\ TargetTyped'
      /\ undo[a] # "none" /\ Restore(a)
      /\ undo' = [undo EXCEPT ![a] = "none"] /\ UNCHANGED <<backend, found>>
  BY DEF IInv, Rollback
<1>2. Handles(a) /\ undo[a] \in UndoType(a)
  BY <1>1 DEF UndosTyped
<1>3. Restored(a)
  BY <1>1, <1>2, RestoreEffect
<1>4. \A b \in Action : undo'[b] = IF b = a THEN "none" ELSE undo[b]
  BY <1>1 DEF UndosTyped
<1>5. \A b \in Action : SavedOf(b)' = IF b = a THEN "none" ELSE SavedOf(b)
  BY <1>3, <1>4 DEF Restored, SavedOf
<1>6. /\ Saved' = [Saved EXCEPT ![a] = "none"] /\ Saved[a] = SavedOf(a)
      /\ SavedOf(a) # "none"
  <2>1. \A p \in Ports : FromOthers(p) # "none"
    BY DEF FromOthers
  <2> QED
    BY <1>1, <1>5, <2>1 DEF Saved, SavedOf
<1>7. ASSUME NEW p \in Ports
      PROVE  /\ Value(p) = IF Owns(p) THEN "denied" ELSE FromOthers(p)
             /\ Value(p)' = IF Owns(p) /\ ~Opens(a, p) THEN "denied" ELSE FromOthers(p)
  <2>1. UndoTells(p) /\ UndoTells(p)'
    BY <1>1 DEF AllTell, UndoTells
  <2> QED
    BY <1>1, <1>3, <2>1, ValueOfSetting, ValueOfSettingNext DEF ValuesAreOfTheKind, Restored
<1>8. Values' = [Values EXCEPT ![Subject[a]] = Saved[a]] \/ (Saved[a] = Wanted[a] /\ UNCHANGED Values)
  <2>1. Subject[a] \in Setting /\ \A s \in Setting : Values[s] = Value(s) /\ Values'[s] = Value(s)'
    BY Kinds DEF Values
  <2>2. CASE Subject[a] \notin Ports \/ undo[a] = "open"
    <3>1. ASSUME NEW s \in Setting
          PROVE  Value(s)' = IF s = Subject[a] THEN SavedOf(a) ELSE Value(s)
      <4>1. CASE s \in Ports
        BY <1>7, <2>2, <4>1 DEF SavedOf, Opens
      <4>2. CASE s \notin Ports
        BY <1>3, <2>2, <4>2 DEF Restored, Setting, SavedOf
      <4> QED
        BY <4>1, <4>2
    <3> QED
      BY <1>6, <2>1, <3>1 DEF Values
  <2>3. CASE Subject[a] \in Ports /\ undo[a] # "open"
    <3>1. SavedOf(a) = "denied" /\ WantedOf(a) = "denied"
      BY <1>1, <1>2, <2>3, Kinds DEF SavedOf
    <3>2. ASSUME NEW s \in Setting
          PROVE  Value(s)' = Value(s)
      <4>1. CASE s \in Ports
        BY <1>7, <2>3, <4>1 DEF Opens
      <4>2. CASE s \notin Ports
        BY <1>3, <2>3, <4>2 DEF Restored, Setting
      <4> QED
        BY <4>1, <4>2
    <3> QED
      BY <1>6, <3>1, <3>2 DEF Values, Wanted
  <2> QED
    BY <2>2, <2>3
<1> QED
  BY <1>6, <1>8 DEF Reversible!Rollback, Reversible!Put, Saved, Wanted

LEMMA ApplyRaisesMaps ==
  ASSUME IInv, IInv', AllTell, NEW a \in Action, ApplyRaises(a)
  PROVE  Reversible!Break(a)
<1>1. /\ TargetTyped /\ UndosTyped /\ TargetTyped' /\ MayBreak
      /\ Handles(a) /\ undo[a] = "none" /\ Change(a) /\ UNCHANGED <<backend, undo, found>>
  BY DEF IInv, ApplyRaises, Change
<1>2. Changed(a)
  BY <1>1, ChangeEffect
<1>3. Values' = [Values EXCEPT ![Subject[a]] = Wanted[a]]
  BY <1>1, <1>2, ChangePuts
<1>4. \A b \in Action : SavedOf(b)' = SavedOf(b)
  BY <1>1, <1>2 DEF Changed, SavedOf
<1>5. UNCHANGED Saved /\ Saved[a] = "none"
  BY <1>1, <1>4 DEF Saved, SavedOf
<1> QED
  BY <1>1, <1>3, <1>5 DEF Reversible!Break, Reversible!Put, Saved, Wanted

LEMMA RollbackRaisesMaps ==
  ASSUME IInv, NEW a \in Action, RollbackRaises(a)
  PROVE  Reversible!Break(a)
<1>1. /\ UndosTyped /\ MayBreak /\ undo[a] # "none"
      /\ undo' = [undo EXCEPT ![a] = "none"] /\ UNCHANGED <<backend, target>>
  BY DEF IInv, RollbackRaises
<1>2. UNCHANGED Values
  BY <1>1 DEF target, Values, Value, DeniedToAll, DeniedToSome, HasDeny, ServiceEnabled
<1>3. \A b \in Action : undo'[b] = IF b = a THEN "none" ELSE undo[b]
  BY <1>1 DEF UndosTyped
<1>4. \A b \in Action : SavedOf(b)' = IF b = a THEN "none" ELSE SavedOf(b)
  BY <1>1, <1>3 DEF SavedOf, FromOthers, target
<1>5. Saved' = [Saved EXCEPT ![a] = "none"] /\ Saved[a] # "none"
  <2>1. \A p \in Ports : FromOthers(p) # "none"
    BY DEF FromOthers
  <2> QED
    BY <1>1, <1>4, <2>1 DEF Saved, SavedOf
<1> QED
  BY <1>1, <1>2, <1>5 DEF Reversible!Break, Saved

LEMMA RestartMaps ==
  ASSUME Restart
  PROVE  Reversible!Forget
<1>1. Saved' = [a \in Action |-> "none"]
  BY DEF Restart, Saved, SavedOf
<1>2. UNCHANGED Values
  BY DEF Restart, target, Values, Value, DeniedToAll, DeniedToSome, HasDeny, ServiceEnabled
<1> QED
  BY <1>1, <1>2 DEF Reversible!Forget, Saved

LEMMA StutterMaps ==
  ASSUME UNCHANGED vars
  PROVE  UNCHANGED <<Values, Saved>>
  BY DEF vars, target, history, Values, Value, DeniedToAll, DeniedToSome, HasDeny,
         ServiceEnabled, Saved, SavedOf, FromOthers

(* The host, the simulated and the live group keep the promise of          *)
(* ReversibleTarget, through calls that raise and restarts: one saved      *)
(* value per action, which its rollback brings back, if every port of a    *)
(* group is found with rules the undo can tell.                            *)
THEOREM Promise == Spec => KeepsThePromise
<1>1. Init => Reversible!Init
  BY DEF Init, Reversible!Init, SavedOf
<1>2. ASSUME IInv, IInv', [Next]_vars
      PROVE  [AllTell => Reversible!Next]_(Reversible!vars)
  <2> SUFFICES ASSUME AllTell
               PROVE  [Reversible!Next]_(Reversible!vars)
    OBVIOUS
  <2>1. CASE UNCHANGED vars
    BY <2>1, StutterMaps DEF Reversible!vars, Saved
  <2>2. ASSUME NEW a \in Action, Apply(a) \/ Rollback(a) \/ ApplyRaises(a) \/ RollbackRaises(a)
        PROVE  Reversible!Next
    <3>1. Reversible!Apply(a) \/ Reversible!Rollback(a) \/ Reversible!Break(a)
      BY <1>2, <2>2, ApplyMaps, RollbackMaps, ApplyRaisesMaps, RollbackRaisesMaps
    <3> QED
      BY <3>1 DEF Reversible!Next
  <2>3. CASE Restart
    BY <2>3, RestartMaps DEF Reversible!Next
  <2> QED
    BY <1>2, <2>1, <2>2, <2>3 DEF Next
<1> QED
  BY <1>1, <1>2, Inductive, PTL DEF Spec, KeepsThePromise, AllTell

=============================================================================
