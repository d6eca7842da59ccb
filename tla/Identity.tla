------------------------------ MODULE Identity ------------------------------
(***************************************************************************)
(* One dashboard user: logging in with lockout (internal/adminsvc/auth.go),*)
(* the checks every request of a session passes (middleware.go,            *)
(* internal/rbac), and the administration of users and roles               *)
(* (handlers_users.go, handlers_rbac.go, internal/store/identity.go).      *)
(*                                                                         *)
(* Every step is one statement of the metadata database.  A role either    *)
(* has the permission the requests need or not.  The lock is held until    *)
(* time ends it.                                                           *)
(***************************************************************************)
EXTENDS Naturals, FiniteSets

CONSTANTS Logins,           \* login attempts under way at once
          Calls,            \* requests of the session under way at once
          MaxFailedLogin,   \* failures that lock the account
          MaxRecorded       \* bound: failures recorded in a row

ASSUME IdentityAssumption == MaxFailedLogin \in Nat \ {0} /\ IsFiniteSet(Logins)

Roles == {"system", "custom"}

VARIABLES user,         \* the row: status, failed_login_count, lock
          userRoles,    \* roles of the user
          rolePerms,    \* roles that have the permission
          roleRows,     \* roles there are
          attempts,     \* per login: where it is, the count it has read
          session,      \* a session token is valid
          calls,        \* per request: where it is, on which grounds
          guesses       \* history: recorded failures since the account was last opened

identityVars == <<user, userRoles, rolePerms, roleRows, attempts, session, calls, guesses>>
rbacVars == <<userRoles, rolePerms, roleRows>>

NoAttempt == [at |-> "idle", failed |-> 0]
NoCall == [at |-> "idle", held |-> {}]

IdentityInit ==
    /\ user = [active |-> TRUE, failed |-> 0, locked |-> FALSE]
    /\ userRoles = {"system"} /\ rolePerms = {"system"} /\ roleRows = {"system"}
    /\ attempts = [l \in Logins |-> NoAttempt]
    /\ session = FALSE
    /\ calls = [c \in Calls |-> NoCall]
    /\ guesses = 0

(* What a success and a new password make of the row.                      *)
Unlocked(row) == [row EXCEPT !.failed = 0, !.locked = FALSE]

(* UserPermissionCodes contains the permission.                            *)
Permitted == userRoles \cap rolePerms # {}

(* What speaks for a request now is added to what has.                     *)
NoteCalls(next, active, permitted) ==
    calls' = [c \in Calls |-> IF next[c].at \in {"idle", "acting"} THEN next[c]
                ELSE [next[c] EXCEPT !.held = @ \cup (IF active THEN {"active"} ELSE {})
                                               \cup (IF permitted THEN {"permitted"} ELSE {})]]

-----------------------------------------------------------------------------
(* handleLogin.                                                            *)

CanLogIn(row) == row.active /\ ~row.locked

GetUserByLogin(l) ==
    /\ attempts[l].at = "idle" /\ CanLogIn(user)
    /\ attempts' = [attempts EXCEPT ![l] = [at |-> "password", failed |-> user.failed]]
    /\ UNCHANGED <<user, rbacVars, session, calls, guesses>>

(* Fault: the new count is computed from the row the login has read.       *)
CountRead(l) == attempts[l].failed + 1

CountNow(l) == user.failed + 1

RecordLoginFailure(l) ==
    /\ attempts[l].at = "password" /\ user.failed < MaxRecorded
    /\ user' = [user EXCEPT !.failed = CountNow(l),
                            !.locked = @ \/ CountNow(l) >= MaxFailedLogin]
    /\ attempts' = [attempts EXCEPT ![l] = NoAttempt]
    /\ guesses' = guesses + 1
    /\ UNCHANGED <<rbacVars, session, calls>>

(* The password is right and the row is reset; then the session and the    *)
(* CSRF secret are made, which may fail.                                   *)
RecordLoginSuccess(l) ==
    /\ attempts[l].at = "password"
    /\ user' = Unlocked(user)
    /\ attempts' = [attempts EXCEPT ![l] = NoAttempt]
    /\ session' \in {session, TRUE}
    /\ guesses' = 0
    /\ UNCHANGED <<rbacVars, calls>>

(* The password is right, but the row could not be updated.                *)
UnrecordedSuccess(l) ==
    /\ attempts[l].at = "password"
    /\ attempts' = [attempts EXCEPT ![l] = NoAttempt]
    /\ session' \in {session, TRUE}
    /\ UNCHANGED <<user, rbacVars, calls, guesses>>

(* The password is wrong, and that could not be recorded.                  *)
UnrecordedFailure(l) ==
    /\ attempts[l].at = "password"
    /\ attempts' = [attempts EXCEPT ![l] = NoAttempt]
    /\ UNCHANGED <<user, rbacVars, session, calls, guesses>>

LockExpires ==
    /\ user.locked
    /\ user' = [user EXCEPT !.locked = FALSE]
    /\ guesses' = 0
    /\ UNCHANGED <<rbacVars, attempts, session, calls>>

SessionExpires ==
    /\ session
    /\ session' = FALSE
    /\ UNCHANGED <<user, rbacVars, attempts, calls, guesses>>

-----------------------------------------------------------------------------
(* requireSession and RequirePermission around a handler.                  *)

Step(c, next) ==
    /\ NoteCalls([calls EXCEPT ![c] = next], user.active, Permitted)
    /\ UNCHANGED <<user, rbacVars, attempts, session, guesses>>

ParseSession(c) ==
    /\ calls[c].at = "idle" /\ session
    /\ Step(c, [NoCall EXCEPT !.at = "user"])

(* Fault: the row is read for its name and roles only.                     *)
AnyUser == TRUE

ActiveUser == user.active

GetUserByID(c) ==
    /\ calls[c].at = "user"
    /\ Step(c, IF ActiveUser THEN [calls[c] EXCEPT !.at = "permissions"] ELSE NoCall)

UserPermissionCodes(c) ==
    /\ calls[c].at = "permissions"
    /\ Step(c, IF Permitted THEN [calls[c] EXCEPT !.at = "acting"] ELSE NoCall)

(* The row or the permissions cannot be read.                              *)
ReadFails(c) == calls[c].at \in {"user", "permissions"} /\ Step(c, NoCall)

EndCall(c) == calls[c].at = "acting" /\ Step(c, NoCall)

-----------------------------------------------------------------------------
(* Administration.                                                         *)

(* updateUser, disableUser.                                                *)
UpdateUser ==
    /\ user' = [user EXCEPT !.active = ~@]
    /\ NoteCalls(calls, user'.active, Permitted)
    /\ UNCHANGED <<rbacVars, attempts, session, guesses>>

(* The sessions stay.                                                      *)
SetUserPassword ==
    /\ user' = Unlocked(user)
    /\ guesses' = 0
    /\ UNCHANGED <<rbacVars, attempts, session, calls>>

ChangeRBAC(assigned, permitting, rows) ==
    /\ userRoles' = assigned /\ rolePerms' = permitting /\ roleRows' = rows
    /\ NoteCalls(calls, user.active, assigned \cap permitting # {})
    /\ UNCHANGED <<user, attempts, session, guesses>>

(* Names of roles that do not exist are passed over.                       *)
SetUserRoles(named) == ChangeRBAC(named \cap roleRows, rolePerms, roleRows)

SetRolePermissions(r, has) ==
    /\ r \in roleRows
    /\ ChangeRBAC(userRoles, IF has THEN rolePerms \cup {r} ELSE rolePerms \ {r}, roleRows)

CreateRole ==
    /\ "custom" \notin roleRows
    /\ ChangeRBAC(userRoles, rolePerms, roleRows \cup {"custom"})

(* System roles stay; the rows that refer to the role go with it.          *)
DeleteRole ==
    /\ "custom" \in roleRows
    /\ ChangeRBAC(userRoles \ {"custom"}, rolePerms \ {"custom"}, roleRows \ {"custom"})

(* Every start of the admin backend gives the system roles the permissions *)
(* they came with.                                                         *)
SeedCore == ChangeRBAC(userRoles, rolePerms \cup {"system"}, roleRows)

IdentityNext ==
    \/ \E l \in Logins : \/ GetUserByLogin(l) \/ RecordLoginFailure(l)
                         \/ RecordLoginSuccess(l) \/ UnrecordedSuccess(l) \/ UnrecordedFailure(l)
    \/ LockExpires \/ SessionExpires
    \/ \E c \in Calls : \/ ParseSession(c) \/ GetUserByID(c) \/ UserPermissionCodes(c)
                        \/ ReadFails(c) \/ EndCall(c)
    \/ UpdateUser \/ SetUserPassword
    \/ \E named \in SUBSET Roles : SetUserRoles(named)
    \/ \E r \in Roles, has \in BOOLEAN : SetRolePermissions(r, has)
    \/ CreateRole \/ DeleteRole \/ SeedCore

-----------------------------------------------------------------------------
(* A request reaches its handler only if, since it came in, its user was   *)
(* active at some moment and held the permission at some moment: disabling *)
(* a user or taking a role away stops every later request, whatever        *)
(* sessions are out (adminsvc/middleware.go:107).                          *)
RevocationStops == \A c \in Calls : calls[c].at = "acting" => calls[c].held = {"active", "permitted"}

(* Between two openings of the account no more wrong passwords are tried   *)
(* and recorded than the threshold and the logins that were already past   *)
(* the check of the lock (store/identity.go:121, adminsvc/auth.go:35).     *)
GuessesBounded == guesses <= MaxFailedLogin + Cardinality(Logins) - 1
=============================================================================
