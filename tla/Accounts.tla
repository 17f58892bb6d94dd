------------------------------ MODULE Accounts ------------------------------
(***************************************************************************)
(* Accounts, sessions and the last administrator.                          *)
(*                                                                         *)
(* lib/auth.ts makes a session a signed cookie that names a user and the   *)
(* version of the user's sessions; whatever revokes sessions increments    *)
(* the version.  The routes read a record, wait (for the database, or for  *)
(* scrypt), and write: api/auth/login, api/auth/register,                  *)
(* api/account/password, api/admin/users and api/admin/users/[userId].     *)
(* scripts/manage-user.ts writes the record from a shell.                  *)
(*                                                                         *)
(* A browser has one request under way, at a stage named for what the      *)
(* route does next.  The list of users that a page shows may be stale, so  *)
(* it offers any action.  Left out: the rate limits (RateLimiter), the     *)
(* audit log, validation of the fields, signatures.                        *)
(***************************************************************************)
EXTENDS Naturals

CONSTANTS
  Browsers, Users,
  Administrators, \* who is one at first; the other users have no account yet
  Secrets,        \* passwords
  NoUser,
  SignedIn,       \* the administrator each browser has signed in, or NoUser
  PublicRegistration, \* ALLOW_PUBLIC_REGISTRATION
  ScriptRoles,    \* what ADMIN_ROLE is set to when the script is run
  MaxSubmits      \* bound on requests and runs of the script

ASSUME AccountsAssumption ==
  /\ Administrators \subseteq Users /\ Administrators # {} /\ NoUser \notin Users
  /\ Secrets # {}
  /\ SignedIn \in [Browsers -> Administrators \cup {NoUser}]
  /\ PublicRegistration \in BOOLEAN
  /\ ScriptRoles \subseteq {"user", "super"} /\ MaxSubmits \in Nat

VARIABLES
  account,   \* the rows of the table User
  cookie,    \* the session of each browser
  job,       \* the request under way of each browser
  submits,
  disableRace  \* history: an administrator was disabled by two requests at once

accountVars == <<account, cookie, job, submits, disableRace>>

Roles == {"none", "user", "super"}
Accounts == [role : Roles, active : BOOLEAN, secret : Secrets, must : BOOLEAN, version : Nat]
NoAccount == [role |-> "none", active |-> FALSE, secret |-> CHOOSE p \in Secrets : TRUE,
              must |-> FALSE, version |-> 0]

\* "proof" is the password the session was got with; "crossed" says that
\* the password changed while the login was under way.
Sessions == [user : Users \cup {NoUser}, version : Nat, proof : Secrets, crossed : BOOLEAN]
NoSession == [user |-> NoUser, version |-> 0, proof |-> NoAccount.secret, crossed |-> FALSE]

Stages == {"idle", "login", "verified", "password", "checked", "changed", "admit",
           "count", "update", "create", "insert", "register", "registered"}
Jobs == [at : Stages, user : Users \cup {NoUser}, secret : Secrets, next : Secrets,
         action : {"none", "disable", "enable", "reset-password"}, crossed : BOOLEAN]
Idle == [at |-> "idle", user |-> NoUser, secret |-> NoAccount.secret,
         next |-> NoAccount.secret, action |-> "none", crossed |-> FALSE]

\* authenticateSessionValue: the cookie's user, if active, at this version.
Authenticated(b) ==
  LET c == cookie[b]
  IN c.user # NoUser /\ account[c.user].active /\ account[c.user].version = c.version

\* requireApiUser and isSuperUser, at the beginning of each admin route.
IsAdministrator(b) == Authenticated(b) /\ account[cookie[b].user].role = "super"

ActiveAdministrators == {u \in Users : account[u].role = "super" /\ account[u].active}

\* createSession for u: the version is the one the row has now.
SessionFor(u, proof, crossed) ==
  [user |-> u, version |-> account[u].version, proof |-> proof, crossed |-> crossed]

AccountsInit ==
  /\ account = [u \in Users |-> IF u \in Administrators
       THEN [NoAccount EXCEPT !.role = "super", !.active = TRUE, !.version = 1]
       ELSE NoAccount]
  /\ cookie = [b \in Browsers |-> IF SignedIn[b] = NoUser THEN NoSession
                                  ELSE SessionFor(SignedIn[b], account[SignedIn[b]].secret, FALSE)]
  /\ job = [b \in Browsers |-> Idle]
  /\ submits = 0 /\ disableRace = FALSE

-----------------------------------------------------------------------------
(* Helpers.                                                                *)

Submit(b, j) ==
  /\ job[b] = Idle /\ submits < MaxSubmits
  /\ job' = [job EXCEPT ![b] = j]
  /\ submits' = submits + 1
  /\ UNCHANGED <<account, cookie, disableRace>>

Advance(b, stage) == job' = [job EXCEPT ![b].at = stage]
GiveUp(b) == job' = [job EXCEPT ![b] = Idle]

\* Jobs of other browsers that had read u's password before it changed.
CrossLogins(u, secret, j) ==
  [b \in Browsers |-> IF j[b].user = u /\ j[b].at = "verified" /\ j[b].secret # secret
                      THEN [j[b] EXCEPT !.crossed = TRUE] ELSE j[b]]

\* Mutant: the sessions go on.
WithSecretOnly(u, secret, must) == [account EXCEPT ![u].secret = secret, ![u].must = must]

\* data: { passwordHash, mustChangePassword, sessionVersion: { increment: 1 } }.
WithSecret(u, secret, must) ==
  [account EXCEPT ![u].secret = secret, ![u].must = must, ![u].version = @ + 1]

-----------------------------------------------------------------------------
(* Logging in and out.                                                     *)

SubmitLogin(b, u, p) == Submit(b, [Idle EXCEPT !.at = "login", !.user = u, !.secret = p])

\* findUnique and verifyPassword; an unknown user has a hash nothing matches.
VerifyLogin(b) ==
  /\ job[b].at = "login"
  /\ LET row == account[job[b].user]
     IN IF row.active /\ row.secret = job[b].secret THEN Advance(b, "verified") ELSE GiveUp(b)
  /\ UNCHANGED <<account, cookie, submits, disableRace>>

\* The second read, in createSession.
FinishLogin(b) ==
  /\ job[b].at = "verified"
  /\ cookie' = IF account[job[b].user].active
       THEN [cookie EXCEPT ![b] = SessionFor(job[b].user, job[b].secret, job[b].crossed)]
       ELSE cookie
  /\ GiveUp(b)
  /\ UNCHANGED <<account, submits, disableRace>>

\* clearSession, or twelve hours.
SessionEnds(b) ==
  /\ cookie[b] # NoSession /\ job[b] = Idle
  /\ cookie' = [cookie EXCEPT ![b] = NoSession]
  /\ UNCHANGED <<account, job, submits, disableRace>>

-----------------------------------------------------------------------------
(* Changing one's password.                                                *)

SubmitPassword(b, current, next) ==
  /\ cookie[b] # NoSession
  /\ Submit(b, [Idle EXCEPT !.at = "password", !.secret = current, !.next = next])

CheckPassword(b) ==
  /\ job[b].at = "password"
  /\ IF Authenticated(b) /\ job[b].secret # job[b].next
        /\ account[cookie[b].user].secret = job[b].secret
     THEN job' = [job EXCEPT ![b].at = "checked", ![b].user = cookie[b].user]
     ELSE GiveUp(b)
  /\ UNCHANGED <<account, cookie, submits, disableRace>>

ChangePassword(b) ==
  /\ job[b].at = "checked"
  /\ account' = WithSecret(job[b].user, job[b].next, FALSE)
  /\ job' = CrossLogins(job[b].user, job[b].next, [job EXCEPT ![b].at = "changed"])
  /\ UNCHANGED <<cookie, submits, disableRace>>

\* A changed password is a fresh session; an account disabled since has none.
RenewSession(b) ==
  /\ job[b].at = "changed"
  /\ cookie' = IF account[job[b].user].active
       THEN [cookie EXCEPT ![b] = SessionFor(job[b].user, job[b].next,
                                    account[job[b].user].secret # job[b].next)]
       ELSE cookie
  /\ GiveUp(b)
  /\ UNCHANGED <<account, submits, disableRace>>

-----------------------------------------------------------------------------
(* Administration.                                                         *)

\* act in users-client.tsx; the buttons of one's own row leave out "disable".
SubmitAction(b, action, target, p) ==
  /\ cookie[b] # NoSession
  /\ action # "reset-password" => target # cookie[b].user /\ p = NoAccount.secret
  /\ Submit(b, [Idle EXCEPT !.at = "admit", !.user = target, !.action = action, !.next = p])

\* Who asks, whether the target exists, and that nobody disables himself.
AdmitAction(b) ==
  /\ job[b].at = "admit"
  /\ LET j == job[b]
     IN IF /\ IsAdministrator(b) /\ account[j.user].role # "none"
           /\ j.action = "disable" => j.user # cookie[b].user
        THEN Advance(b, IF j.action = "disable" /\ account[j.user].role = "super"
                        THEN "count" ELSE "update")
        ELSE GiveUp(b)
  /\ UNCHANGED <<account, cookie, submits, disableRace>>

\* Mutant: the last one may go.
CountNothing(b) ==
  /\ job[b].at = "count"
  /\ Advance(b, "update")
  /\ UNCHANGED <<account, cookie, submits, disableRace>>

\* prisma.user.count: the last active administrator cannot be disabled.
CountAdministrators(b) ==
  /\ job[b].at = "count"
  /\ IF \E u, w \in ActiveAdministrators : u # w THEN Advance(b, "update") ELSE GiveUp(b)
  /\ UNCHANGED <<account, cookie, submits, disableRace>>

Disabling(b) == job[b].at = "update" /\ job[b].action = "disable" /\ job[b].user \in ActiveAdministrators

UpdateUser(b) ==
  LET j == job[b]
  IN /\ j.at = "update"
     /\ account' = CASE j.action = "reset-password" ->
                          [WithSecret(j.user, j.next, TRUE) EXCEPT ![j.user].active = TRUE]
                     [] j.action = "disable" ->
                          [account EXCEPT ![j.user].active = FALSE, ![j.user].version = @ + 1]
                     [] j.action = "enable" ->
                          [account EXCEPT ![j.user].active = TRUE, ![j.user].version = @ + 1]
     /\ job' = CrossLogins(j.user, account'[j.user].secret, [job EXCEPT ![b] = Idle])
     /\ disableRace' = (disableRace \/
          (Disabling(b) /\ \E x \in Browsers \ {b} : Disabling(x) /\ job[x].user # j.user))
     /\ UNCHANGED <<cookie, submits>>

SubmitUser(b, u, p) ==
  /\ cookie[b] # NoSession
  /\ Submit(b, [Idle EXCEPT !.at = "create", !.user = u, !.next = p])

AdmitUser(b) ==
  /\ job[b].at = "create"
  /\ IF IsAdministrator(b) THEN Advance(b, "insert") ELSE GiveUp(b)
  /\ UNCHANGED <<account, cookie, submits, disableRace>>

\* The address is unique: a second row is refused (P2002).  The form offers
\* both roles.
InsertUser(b) ==
  /\ job[b].at = "insert"
  /\ IF account[job[b].user].role # "none" THEN UNCHANGED account
     ELSE \E role \in {"user", "super"} :
       account' = [account EXCEPT ![job[b].user] =
         [role |-> role, active |-> TRUE, secret |-> job[b].next, must |-> TRUE, version |-> 1]]
  /\ GiveUp(b)
  /\ UNCHANGED <<cookie, submits, disableRace>>

SubmitRegistration(b, u, p) ==
  /\ PublicRegistration
  /\ Submit(b, [Idle EXCEPT !.at = "register", !.user = u, !.secret = p])

Register(b) ==
  /\ job[b].at = "register"
  /\ IF account[job[b].user].role # "none" THEN GiveUp(b) /\ UNCHANGED account
     ELSE /\ account' = [account EXCEPT ![job[b].user] =
               [role |-> "user", active |-> TRUE, secret |-> job[b].secret, must |-> FALSE, version |-> 1]]
          /\ Advance(b, "verified")
  /\ UNCHANGED <<cookie, submits, disableRace>>

\* scripts/manage-user.ts: an upsert.
ManageUser(u, role, p) ==
  /\ submits < MaxSubmits /\ submits' = submits + 1
  /\ account' = [WithSecret(u, p, TRUE) EXCEPT ![u].active = TRUE, ![u].role = role]
  /\ job' = CrossLogins(u, p, job)
  /\ UNCHANGED <<cookie, disableRace>>

-----------------------------------------------------------------------------
SubmitSomething(b) ==
  \E u \in Users, p, q \in Secrets :
    \/ SubmitLogin(b, u, p)
    \/ SubmitPassword(b, p, q)
    \/ \E action \in {"disable", "enable", "reset-password"} : SubmitAction(b, action, u, p)
    \/ SubmitUser(b, u, p)
    \/ SubmitRegistration(b, u, p)

AccountsNext ==
  \/ \E b \in Browsers :
       \/ SubmitSomething(b) \/ SessionEnds(b)
       \/ VerifyLogin(b) \/ FinishLogin(b)
       \/ CheckPassword(b) \/ ChangePassword(b) \/ RenewSession(b)
       \/ AdmitAction(b) \/ CountAdministrators(b) \/ UpdateUser(b)
       \/ AdmitUser(b) \/ InsertUser(b) \/ Register(b)
  \/ \E u \in Users, role \in ScriptRoles, p \in Secrets : ManageUser(u, role, p)

AccountsSpec == AccountsInit /\ [][AccountsNext]_accountVars

-----------------------------------------------------------------------------
AccountsTypeOK ==
  /\ account \in [Users -> Accounts]
  /\ cookie \in [Browsers -> Sessions]
  /\ job \in [Browsers -> Jobs]
  /\ submits \in 0..MaxSubmits /\ disableRace \in BOOLEAN

\* "The last active administrator cannot be disabled", says the route
\* (admin/users/[userId]/route.ts:40): there always is one.
LastAdministratorStays == ActiveAdministrators # {}

\* As long as no two requests were past the count together, there is an
\* active administrator.
AdministratorUnlessRaced == ~disableRace => ActiveAdministrators # {}

\* A session that is accepted was got with the password that is in force:
\* whoever changes, resets or is given a password ends the sessions that
\* were got with an older one ("Other signed-in sessions have been revoked",
\* account-client.tsx:37), except for a login that was already past the
\* check of the older one.
SessionsFollowThePassword ==
  \A b \in Browsers : Authenticated(b) /\ ~cookie[b].crossed
    => cookie[b].proof = account[cookie[b].user].secret

=============================================================================
