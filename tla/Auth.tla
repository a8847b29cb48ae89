-------------------------------- MODULE Auth --------------------------------
(***************************************************************************)
(* Sessions, roles and the second factor (avmp/authn.py, avmp/rbac.py).    *)
(* Users are enrolled and enrolled again with other roles and another      *)
(* secret, log in, answer the TOTP challenge with codes they got earlier   *)
(* or from a device whose clock is ahead, and ask for permissions.         *)
(*                                                                         *)
(* A secret is the enrolment it was made in; a code is a secret and a time *)
(* step, and no two of them give the same digits.                          *)
(***************************************************************************)
EXTENDS Integers, FiniteSets

CONSTANTS
  Users, Tokens,
  RoleLists,       \* the role lists users are enrolled with
  MaxEnrolments,   \* bound on the enrolments
  MaxStep          \* bound on the time, in steps of 30 s

Roles == {"scanner_operator", "approver", "auditor", "system_owner", "admin"}

ASSUME AuthConstantsAssumption ==
  /\ RoleLists \subseteq SUBSET Roles
  /\ MaxEnrolments \in Nat /\ MaxStep \in Nat

VARIABLES
  user,       \* user[u]: [roles, secret, required], or NoUser
  session,    \* session[t]: [user, roles, verified], or NoSession
  now,        \* int(time.time() // 30)
  enrolments, \* how many there were
  rolesOf,    \* history: rolesOf[e]: what enrolment e gave
  basis,      \* history: basis[t]: the enrolment session t was opened in
  proof       \* history: proof[t]: was t's last answer a code of its user at the time?

vars == <<user, session, now, enrolments, rolesOf, basis, proof>>

NoUser == [roles |-> {}, secret |-> 0, required |-> FALSE]
NoSession == [user |-> "nobody", roles |-> {}, verified |-> FALSE]

Permissions == {"run_scan", "view_findings", "approve_remediation",
                "execute_remediation", "view_audit", "manage_policy"}

(* Slip: the administrator may do anything.                                *)
PermissionsOfGenerous(role) ==
  CASE role = "admin" -> Permissions
    [] role = "approver" -> {"view_findings", "approve_remediation", "execute_remediation"}
    [] OTHER -> {"view_findings", "run_scan"}

PermissionsOf(role) ==
  CASE role = "scanner_operator" -> {"run_scan", "view_findings"}
    [] role = "approver"     -> {"view_findings", "approve_remediation", "execute_remediation"}
    [] role = "auditor"      -> {"view_findings", "view_audit"}
    [] role = "system_owner" -> {"view_findings", "manage_policy"}
    [] role = "admin"        -> {"run_scan", "view_findings", "view_audit", "manage_policy"}

HasPermission(roles, permission) == \E r \in roles : permission \in PermissionsOf(r)

(* A code its holder can have: of a secret made so far, for a step that    *)
(* is past or a little ahead.                                              *)
Codes == [secret : 1 .. enrolments, step : 0 .. now + 2]

(* verify_totp with window = 1.                                            *)
VerifyTotp(secret, code) == code.secret = secret /\ code.step \in now - 1 .. now + 1

Init ==
  /\ user = [u \in Users |-> NoUser]
  /\ session = [t \in Tokens |-> NoSession]
  /\ now = 0 /\ enrolments = 0
  /\ rolesOf = [e \in {} |-> {}]
  /\ basis = [t \in Tokens |-> 0]
  /\ proof = [t \in Tokens |-> FALSE]

(* add_user: a user of that name is replaced.                              *)
AddUser(u, roles, required) ==
  /\ enrolments < MaxEnrolments
  /\ enrolments' = enrolments + 1
  /\ user' = [user EXCEPT ![u] = [roles |-> roles, secret |-> enrolments', required |-> required]]
  /\ rolesOf' = [e \in 1 .. enrolments' |-> IF e = enrolments' THEN roles ELSE rolesOf[e]]
  /\ UNCHANGED <<session, now, basis, proof>>

Open(t, u, roles) ==
  /\ session[t] = NoSession
  /\ session' = [session EXCEPT ![t] = [user |-> u, roles |-> roles, verified |-> FALSE]]
  /\ basis' = [basis EXCEPT ![t] = user[u].secret]
  /\ UNCHANGED <<user, now, enrolments, rolesOf, proof>>

(* Slip: a user nobody enrolled logs in.                                   *)
LoginAnyone(t, u) == Open(t, u, user[u].roles)

(* Slip: a second session takes its roles from the first.                  *)
LoginCached(t, u) ==
  LET open == {s \in Tokens : session[s].user = u}
  IN /\ user[u] # NoUser
     /\ Open(t, u, IF open = {} THEN user[u].roles ELSE session[CHOOSE s \in open : TRUE].roles)

(* login: a fresh token, and a copy of the roles of a user there is.       *)
Login(t, u) == user[u] # NoUser /\ Open(t, u, user[u].roles)

Answer(t, code, verified) ==
  /\ session[t] # NoSession
  /\ session' = [session EXCEPT ![t].verified = verified]
  /\ proof' = [proof EXCEPT ![t] =
       code.secret = user[session[t].user].secret /\ code.step \in now - 1 .. now + 1]
  /\ UNCHANGED <<user, now, enrolments, rolesOf, basis>>

(* Slip: a wrong code leaves the session as it was.                        *)
VerifyMfaSticky(t, code) ==
  Answer(t, code, session[t].verified \/ VerifyTotp(user[session[t].user].secret, code))

(* verify_mfa: a wrong code takes back an earlier success.                 *)
VerifyMfa(t, code) == Answer(t, code, VerifyTotp(user[session[t].user].secret, code))

(* authorize returns the session, or raises; either way it changes         *)
(* nothing.  Whether a factor is required is the user's present setting,   *)
(* the roles are the session's.                                            *)
Authorize(t, permission, requireMfa) ==
  /\ session[t] # NoSession
  /\ requireMfa /\ user[session[t].user].required => session[t].verified
  /\ HasPermission(session[t].roles, permission)

Tick ==
  /\ now < MaxStep /\ now' = now + 1
  /\ UNCHANGED <<user, session, enrolments, rolesOf, basis, proof>>

Next ==
  \/ \E u \in Users, roles \in RoleLists, required \in BOOLEAN : AddUser(u, roles, required)
  \/ \E t \in Tokens, u \in Users : Login(t, u)
  \/ \E t \in Tokens, code \in Codes : VerifyMfa(t, code)
  \/ Tick

Spec == Init /\ [][Next]_vars

-----------------------------------------------------------------------------
(* Properties.                                                             *)

(* Every variable keeps its type, and every session is of an enrolled user.*)
TypeOK ==
  /\ \A u \in Users : user[u] # NoUser =>
       user[u].roles \in RoleLists /\ user[u].secret \in 1 .. enrolments
  /\ \A t \in Tokens : session[t] # NoSession =>
       user[session[t].user] # NoUser /\ basis[t] \in 1 .. enrolments
  /\ now \in 0 .. MaxStep /\ enrolments \in 0 .. MaxEnrolments

(* "privileged actions require an authenticated identity AND a passed MFA  *)
(* challenge" (authn.py:3): what authorize lets through with MFA is a      *)
(* session whose last answer was a code of its user's device, at most one  *)
(* step old or ahead, unless the user is, now, one that needs none.        *)
(* Neither time nor a new enrolment takes the success back; a wrong answer *)
(* does.                                                                   *)
MfaIsProved ==
  \A t \in Tokens, p \in Permissions :
    Authorize(t, p, TRUE) => proof[t] \/ ~user[session[t].user].required

(* What a session is let do is what its user was enrolled for when it was  *)
(* opened, hence what the user may do now unless enrolled anew since: a    *)
(* role that was taken away lives on in older sessions only.               *)
RightsAreOfTheEnrolment ==
  \A t \in Tokens, p \in Permissions : Authorize(t, p, FALSE) =>
    /\ HasPermission(rolesOf[basis[t]], p)
    /\ LET u == user[session[t].user]
       IN u.secret = basis[t] => HasPermission(u.roles, p)

(* Sessions are of enrolled users and have the rights of their enrolment.  *)
SessionsAreSound == TypeOK /\ RightsAreOfTheEnrolment

(* "no single role may both run scans and approve remediation" (rbac.py:4): *)
(* the sessions of a user enrolled once with one role never allow both,    *)
(* however many there are.  Those of different enrolments may.             *)
DutiesStayApart ==
  \A s, t \in Tokens :
    /\ session[s].user = session[t].user /\ basis[s] = basis[t]
    /\ Authorize(s, "run_scan", FALSE) /\ Authorize(t, "approve_remediation", FALSE)
    => Cardinality(rolesOf[basis[s]]) > 1

=============================================================================
