----------------------------- MODULE AuthProofs -----------------------------
(***************************************************************************)
(* Proofs about Auth, for any users, tokens and role lists.                *)
(*                                                                         *)
(* The argument: nothing but login writes a session's roles, and it copies *)
(* them from the enrolment the session is then based on; nothing but       *)
(* verify_mfa writes its verified flag.  Enrolling a user again makes a    *)
(* new enrolment and leaves the earlier ones, which the sessions are based *)
(* on, as they were.                                                       *)
(***************************************************************************)
EXTENDS Auth, FiniteSetTheorems, TLAPS

-----------------------------------------------------------------------------
(* The inductive invariant.                                                *)

StateTyped ==
  /\ user \in [Users -> [roles : SUBSET Roles, secret : Nat, required : BOOLEAN]]
  /\ session \in [Tokens -> [user : Users \cup {"nobody"}, roles : SUBSET Roles,
                             verified : BOOLEAN]]
  /\ now \in 0 .. MaxStep
  /\ enrolments \in 0 .. MaxEnrolments
  /\ DOMAIN rolesOf = 1 .. enrolments
  /\ \A e \in 1 .. enrolments : rolesOf[e] \in SUBSET Roles
  /\ basis \in [Tokens -> Nat]
  /\ proof \in [Tokens -> BOOLEAN]

(* A user has the roles of the enrolment the user's secret was made in.    *)
UsersAreEnrolled ==
  \A u \in Users : user[u] # NoUser =>
    /\ user[u].secret \in 1 .. enrolments
    /\ user[u].roles \in RoleLists
    /\ user[u].roles = rolesOf[user[u].secret]

(* A session is an enrolled user's, has the roles of its enrolment, and is *)
(* verified only by a proof.                                               *)
SessionsAreBased ==
  \A t \in Tokens : session[t] # NoSession =>
    /\ session[t].user \in Users /\ user[session[t].user] # NoUser
    /\ basis[t] \in 1 .. enrolments
    /\ session[t].roles = rolesOf[basis[t]]
    /\ session[t].verified => proof[t]

IInv == StateTyped /\ UsersAreEnrolled /\ SessionsAreBased

-----------------------------------------------------------------------------
(* The steps.                                                              *)

LEMMA InvInit == Init => IInv
<1> SUFFICES ASSUME Init
             PROVE  IInv
  OBVIOUS
<1>1. NoUser \in [roles : SUBSET Roles, secret : Nat, required : BOOLEAN]
  BY DEF NoUser
<1>2. NoSession \in [user : Users \cup {"nobody"}, roles : SUBSET Roles, verified : BOOLEAN]
  BY DEF NoSession
<1>3. StateTyped
  BY <1>1, <1>2, AuthConstantsAssumption DEF Init, StateTyped
<1> QED
  BY <1>3 DEF Init, IInv, UsersAreEnrolled, SessionsAreBased

(* A new enrolment leaves the earlier ones, and the sessions, alone.       *)
LEMMA InvAddUser ==
  ASSUME IInv, NEW u \in Users, NEW roles \in RoleLists, NEW required \in BOOLEAN,
         AddUser(u, roles, required)
  PROVE  IInv'
<1> DEFINE e == enrolments + 1
           new == [roles |-> roles, secret |-> e, required |-> required]
<1>1. /\ enrolments \in Nat /\ enrolments' = e /\ e \in 1 .. MaxEnrolments
      /\ user' = [user EXCEPT ![u] = new]
      /\ rolesOf' = [i \in 1 .. e |-> IF i = e THEN roles ELSE rolesOf[i]]
      /\ UNCHANGED <<session, now, basis, proof>>
  BY AuthConstantsAssumption DEF AddUser, IInv, StateTyped
<1>2. /\ roles \in SUBSET Roles /\ rolesOf'[e] = roles
      /\ \A i \in 1 .. enrolments : i \in 1 .. e /\ rolesOf'[i] = rolesOf[i]
      /\ new \in [roles : SUBSET Roles, secret : Nat, required : BOOLEAN]
  BY <1>1, AuthConstantsAssumption
<1>3. StateTyped'
  BY <1>1, <1>2 DEF IInv, StateTyped
<1>4. UsersAreEnrolled'
  <2> SUFFICES ASSUME NEW v \in Users, user'[v] # NoUser
               PROVE  /\ user'[v].secret \in 1 .. e
                      /\ user'[v].roles \in RoleLists
                      /\ user'[v].roles = rolesOf'[user'[v].secret]
    BY <1>1 DEF UsersAreEnrolled
  <2>1. CASE v = u
    BY <1>1, <1>2, <2>1 DEF IInv, StateTyped
  <2>2. CASE v # u
    BY <1>1, <1>2, <2>2 DEF IInv, StateTyped, UsersAreEnrolled
  <2> QED
    BY <2>1, <2>2
<1>5. SessionsAreBased'
  <2> SUFFICES ASSUME NEW t \in Tokens, session[t] # NoSession
               PROVE  /\ session[t].user \in Users /\ user'[session[t].user] # NoUser
                      /\ basis[t] \in 1 .. e
                      /\ session[t].roles = rolesOf'[basis[t]]
                      /\ session[t].verified => proof[t]
    BY <1>1 DEF SessionsAreBased
  <2>1. new # NoUser
    BY <1>1 DEF NoUser
  <2> QED
    BY <1>1, <1>2, <2>1 DEF IInv, StateTyped, SessionsAreBased
<1> QED
  BY <1>3, <1>4, <1>5 DEF IInv

(* A session begins with the roles of its user's enrolment, unverified.    *)
LEMMA InvLogin ==
  ASSUME IInv, NEW t \in Tokens, NEW u \in Users, Login(t, u)
  PROVE  IInv'
<1> DEFINE new == [user |-> u, roles |-> user[u].roles, verified |-> FALSE]
<1>1. /\ user[u] # NoUser
      /\ session' = [session EXCEPT ![t] = new]
      /\ basis' = [basis EXCEPT ![t] = user[u].secret]
      /\ UNCHANGED <<user, now, enrolments, rolesOf, proof>>
  BY DEF Login, Open
<1>2. /\ user[u] \in [roles : SUBSET Roles, secret : Nat, required : BOOLEAN]
      /\ user[u].secret \in 1 .. enrolments
      /\ user[u].roles = rolesOf[user[u].secret]
  BY <1>1 DEF IInv, StateTyped, UsersAreEnrolled
<1>3. new \in [user : Users \cup {"nobody"}, roles : SUBSET Roles, verified : BOOLEAN]
  BY <1>2
<1>4. StateTyped'
  BY <1>1, <1>2, <1>3 DEF IInv, StateTyped
<1>5. UsersAreEnrolled'
  BY <1>1 DEF IInv, UsersAreEnrolled
<1>6. SessionsAreBased'
  <2> SUFFICES ASSUME NEW s \in Tokens, session'[s] # NoSession
               PROVE  /\ session'[s].user \in Users /\ user[session'[s].user] # NoUser
                      /\ basis'[s] \in 1 .. enrolments
                      /\ session'[s].roles = rolesOf[basis'[s]]
                      /\ session'[s].verified => proof[s]
    BY <1>1 DEF SessionsAreBased
  <2>1. CASE s = t
    BY <1>1, <1>2, <2>1 DEF IInv, StateTyped
  <2>2. CASE s # t
    BY <1>1, <2>2 DEF IInv, StateTyped, SessionsAreBased
  <2> QED
    BY <2>1, <2>2
<1> QED
  BY <1>4, <1>5, <1>6 DEF IInv

(* An answer decides the flag and the proof together.                      *)
LEMMA InvVerifyMfa ==
  ASSUME IInv, NEW t \in Tokens, NEW code \in Codes, VerifyMfa(t, code)
  PROVE  IInv'
<1> DEFINE good == VerifyTotp(user[session[t].user].secret, code)
<1>1. /\ session[t] # NoSession
      /\ session' = [session EXCEPT ![t].verified = good]
      /\ proof' = [proof EXCEPT ![t] = good]
      /\ UNCHANGED <<user, now, enrolments, rolesOf, basis>>
  BY DEF VerifyMfa, Answer, VerifyTotp
<1>2. good \in BOOLEAN
  BY DEF VerifyTotp
<1> HIDE DEF good
<1>3. StateTyped'
  BY <1>1, <1>2 DEF IInv, StateTyped
<1>4. UsersAreEnrolled'
  BY <1>1 DEF IInv, UsersAreEnrolled
<1>5. SessionsAreBased'
  <2> SUFFICES ASSUME NEW s \in Tokens, session'[s] # NoSession
               PROVE  /\ session'[s].user \in Users /\ user[session'[s].user] # NoUser
                      /\ basis[s] \in 1 .. enrolments
                      /\ session'[s].roles = rolesOf[basis[s]]
                      /\ session'[s].verified => proof'[s]
    BY <1>1 DEF SessionsAreBased
  <2>1. CASE s = t
    BY <1>1, <2>1 DEF IInv, StateTyped, SessionsAreBased
  <2>2. CASE s # t
    BY <1>1, <2>2 DEF IInv, StateTyped, SessionsAreBased
  <2> QED
    BY <2>1, <2>2
<1> QED
  BY <1>3, <1>4, <1>5 DEF IInv

LEMMA InvTick == IInv /\ (Tick \/ UNCHANGED vars) => IInv'
  BY AuthConstantsAssumption
  DEF IInv, StateTyped, UsersAreEnrolled, SessionsAreBased, Tick, vars

(* The invariant is inductive.                                             *)
THEOREM Inductive == Spec => []IInv
<1>1. IInv /\ [Next]_vars => IInv'
  BY InvAddUser, InvLogin, InvVerifyMfa, InvTick DEF Next
<1> QED
  BY InvInit, <1>1, PTL DEF Spec

-----------------------------------------------------------------------------
(* What follows from it.                                                   *)

(* authorize(require_mfa) lets through only a session whose last answer    *)
(* was a good code of its user's device at the time, or one of a user who, *)
(* now, needs none; whatever was enrolled anew in between.                 *)
THEOREM MfaProved == Spec => []MfaIsProved
<1>1. IInv => MfaIsProved
  BY DEF IInv, SessionsAreBased, MfaIsProved, Authorize
<1> QED
  BY <1>1, Inductive, PTL

(* Sessions are of enrolled users, and what they are let do is what their  *)
(* user was enrolled for when they were opened.                            *)
THEOREM SessionsSound == Spec => []SessionsAreSound
<1>1. IInv => TypeOK
  BY DEF IInv, StateTyped, UsersAreEnrolled, SessionsAreBased, TypeOK
<1>2. IInv => RightsAreOfTheEnrolment
  BY DEF IInv, StateTyped, UsersAreEnrolled, SessionsAreBased, RightsAreOfTheEnrolment, Authorize
<1> QED
  BY <1>1, <1>2, Inductive, PTL DEF SessionsAreSound

(* The separation of duties in ROLE_PERMISSIONS (rbac.py): the roles that  *)
(* may run scans are not those that may approve.                           *)
LEMMA NoRoleHasBothDuties ==
  ASSUME NEW r \in Roles
  PROVE  ~("run_scan" \in PermissionsOf(r) /\ "approve_remediation" \in PermissionsOf(r))
<1>1. CASE r = "approver"
  BY <1>1 DEF PermissionsOf
<1>2. CASE r # "approver"
  BY <1>2 DEF Roles, PermissionsOf
<1> QED
  BY <1>1, <1>2

(* A finite set with two members has more than one.                        *)
LEMMA TwoMembers ==
  ASSUME NEW S, IsFiniteSet(S), NEW x \in S, NEW y \in S, x # y
  PROVE  Cardinality(S) > 1
<1>1. IsFiniteSet({x}) /\ Cardinality({x}) = 1
  BY FS_Singleton
<1>2. IsFiniteSet({x} \cup {y}) /\ Cardinality({x} \cup {y}) = 2
  <2>1. y \notin {x}
    OBVIOUS
  <2>2. /\ IsFiniteSet({x} \cup {y})
        /\ Cardinality({x} \cup {y}) = Cardinality({x}) + 1
    BY <1>1, <2>1, FS_AddElement
  <2> QED
    BY <1>1, <2>2
<1>3. {x} \cup {y} \subseteq S
  OBVIOUS
<1>4. Cardinality({x} \cup {y}) <= Cardinality(S)
  BY <1>3, FS_Subset
<1>5. Cardinality(S) \in Nat
  BY FS_CardinalityType
<1> QED
  BY <1>2, <1>4, <1>5

(* The sessions of one enrolment with one role never allow both to run     *)
(* scans and to approve remediation, however many of them are open.        *)
THEOREM DutiesApart == Spec => []DutiesStayApart
<1>1. IsFiniteSet(Roles)
  <2>1. IsFiniteSet({"scanner_operator"} \cup {"approver"})
    BY FS_Singleton, FS_Union
  <2>2. IsFiniteSet(({"scanner_operator"} \cup {"approver"}) \cup {"auditor"})
    BY <2>1, FS_Singleton, FS_Union
  <2>3. IsFiniteSet({"system_owner"} \cup {"admin"})
    BY FS_Singleton, FS_Union
  <2>4. IsFiniteSet((({"scanner_operator"} \cup {"approver"}) \cup {"auditor"})
                    \cup ({"system_owner"} \cup {"admin"}))
    BY <2>2, <2>3, FS_Union
  <2>5. Roles = (({"scanner_operator"} \cup {"approver"}) \cup {"auditor"})
                \cup ({"system_owner"} \cup {"admin"})
    BY DEF Roles
  <2> QED
    BY <2>4, <2>5
<1>2. IInv => DutiesStayApart
  <2> SUFFICES ASSUME IInv, NEW s \in Tokens, NEW t \in Tokens, basis[s] = basis[t],
                      Authorize(s, "run_scan", FALSE),
                      Authorize(t, "approve_remediation", FALSE)
               PROVE  Cardinality(rolesOf[basis[s]]) > 1
    BY DEF DutiesStayApart
  <2>1. /\ session[s].roles = rolesOf[basis[s]] /\ session[t].roles = rolesOf[basis[s]]
        /\ rolesOf[basis[s]] \subseteq Roles
    BY DEF IInv, StateTyped, SessionsAreBased, Authorize
  <2>2. PICK r \in rolesOf[basis[s]] : "run_scan" \in PermissionsOf(r)
    BY <2>1 DEF Authorize, HasPermission
  <2>3. PICK q \in rolesOf[basis[s]] : "approve_remediation" \in PermissionsOf(q)
    BY <2>1 DEF Authorize, HasPermission
  <2>4. r # q
    BY <2>1, <2>2, <2>3, NoRoleHasBothDuties
  <2>5. IsFiniteSet(rolesOf[basis[s]])
    BY <1>1, <2>1, FS_Subset
  <2> QED
    BY <2>4, <2>5, TwoMembers
<1> QED
  BY <1>2, Inductive, PTL

=============================================================================
