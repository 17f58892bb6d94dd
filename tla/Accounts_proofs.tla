--------------------------- MODULE Accounts_proofs ---------------------------
(***************************************************************************)
(* Proofs about Accounts, for any users, browsers, passwords and bound on  *)
(* requests: the type invariant, that only a race of two requests leaves   *)
(* the system without an administrator, and that sessions follow the       *)
(* password.                                                               *)
(***************************************************************************)
EXTENDS Accounts, TLAPS

-----------------------------------------------------------------------------
(* Types.                                                                  *)

Administering == {"admit", "count", "update"}

\* A request that waits for the database has the user it is about, and one
\* for an administrator's action has its action.
JobsComplete ==
  \A b \in Browsers :
    /\ job[b].at \notin {"idle", "password"} => job[b].user \in Users
    /\ job[b].at \in Administering => job[b].action # "none"

TypeInv == AccountsTypeOK /\ JobsComplete

\* The values that nothing has been stored in yet have the types of the rest.
LEMMA Defaults ==
  /\ NoAccount \in Accounts /\ NoSession \in Sessions /\ Idle \in Jobs
BY AccountsAssumption DEF NoAccount, NoSession, Idle, Accounts, Sessions, Jobs, Roles, Stages

\* The row of a user after a new password.
LEMMA WithSecretType ==
  ASSUME account \in [Users -> Accounts], NEW u \in Users, NEW p \in Secrets, NEW m \in BOOLEAN
  PROVE  /\ WithSecret(u, p, m) \in [Users -> Accounts]
         /\ \A w \in Users \ {u} : WithSecret(u, p, m)[w] = account[w]
         /\ WithSecret(u, p, m)[u].role = account[u].role
         /\ WithSecret(u, p, m)[u].active = account[u].active
         /\ WithSecret(u, p, m)[u].secret = p
         /\ WithSecret(u, p, m)[u].version = account[u].version + 1
<1> DEFINE first == [account EXCEPT ![u].secret = p]
           second == [first EXCEPT ![u].must = m]
           third == [second EXCEPT ![u].version = @ + 1]
<1>0. WithSecret(u, p, m) = third
  BY DEF WithSecret
<1>1. /\ first \in [Users -> Accounts] /\ first[u] = [account[u] EXCEPT !.secret = p]
      /\ \A w \in Users \ {u} : first[w] = account[w]
  BY DEF Accounts
<1> HIDE DEF first
<1>2. /\ second \in [Users -> Accounts] /\ second[u] = [first[u] EXCEPT !.must = m]
      /\ \A w \in Users \ {u} : second[w] = first[w]
  BY <1>1 DEF Accounts
<1> HIDE DEF second
<1>v. second[u].version + 1 \in Nat
  BY <1>2 DEF Accounts
<1>3. /\ third \in [Users -> Accounts]
      /\ third[u] = [second[u] EXCEPT !.version = second[u].version + 1]
      /\ \A w \in Users \ {u} : third[w] = second[w]
  <2> DEFINE n == second[u].version + 1
  <2>1. n \in Nat /\ third = [second EXCEPT ![u].version = n]
    BY <1>v
  <2> HIDE DEF n, third
  <2>2. second[u] \in Accounts
    BY <1>2
  <2>3. [second[u] EXCEPT !.version = n] \in Accounts
    BY <2>1, <2>2 DEF Accounts
  <2>4. third = [second EXCEPT ![u] = [second[u] EXCEPT !.version = n]]
    BY <2>1
  <2>5. QED
    BY <1>2, <2>3, <2>4 DEF n
<1> HIDE DEF third
<1>4. /\ account[u] \in Accounts /\ first[u] \in Accounts /\ second[u] \in Accounts
  BY <1>1, <1>2
<1>5. QED
  BY <1>0, <1>1, <1>2, <1>3, <1>4 DEF Accounts

\* The jobs after a change of a password: only "crossed" differs.
LEMMA CrossLoginsType ==
  ASSUME NEW u \in Users, NEW p \in Secrets, NEW j \in [Browsers -> Jobs]
  PROVE  /\ CrossLogins(u, p, j) \in [Browsers -> Jobs]
         /\ \A b \in Browsers :
              /\ CrossLogins(u, p, j)[b].at = j[b].at
              /\ CrossLogins(u, p, j)[b].user = j[b].user
              /\ CrossLogins(u, p, j)[b].secret = j[b].secret
              /\ CrossLogins(u, p, j)[b].next = j[b].next
              /\ CrossLogins(u, p, j)[b].action = j[b].action
              /\ ~CrossLogins(u, p, j)[b].crossed =>
                   /\ ~j[b].crossed
                   /\ (j[b].user = u /\ j[b].at = "verified") => j[b].secret = p
BY DEF CrossLogins, Jobs

\* The session of a user has the type of a cookie.
LEMMA SessionForType ==
  ASSUME account \in [Users -> Accounts], NEW u \in Users, NEW p \in Secrets, NEW c \in BOOLEAN
  PROVE  SessionFor(u, p, c) \in Sessions
BY DEF SessionFor, Sessions, Accounts

LEMMA InitTypeInv == AccountsInit => TypeInv
<1> SUFFICES ASSUME AccountsInit PROVE TypeInv
  OBVIOUS
<1>1. \A u \in Users : account[u] \in Accounts
  BY Defaults DEF AccountsInit, Accounts, Roles
<1>2. account \in [Users -> Accounts]
  BY <1>1 DEF AccountsInit
<1>3. \A b \in Browsers : cookie[b] \in Sessions
  <2> SUFFICES ASSUME NEW b \in Browsers PROVE cookie[b] \in Sessions
    OBVIOUS
  <2>1. CASE SignedIn[b] = NoUser
    BY <2>1, Defaults DEF AccountsInit
  <2>2. CASE SignedIn[b] # NoUser
    <3>1. SignedIn[b] \in Users
      BY <2>2, AccountsAssumption
    <3>2. account[SignedIn[b]].secret \in Secrets
      BY <1>2, <3>1 DEF Accounts
    <3>3. SessionFor(SignedIn[b], account[SignedIn[b]].secret, FALSE) \in Sessions
      BY <1>2, <3>1, <3>2, SessionForType
    <3>4. QED
      BY <2>2, <3>3 DEF AccountsInit
  <2>3. QED
    BY <2>1, <2>2
<1>4. cookie \in [Browsers -> Sessions]
  BY <1>3 DEF AccountsInit
<1>5. job \in [Browsers -> Jobs] /\ JobsComplete
  BY Defaults DEF AccountsInit, JobsComplete, Idle, Administering
<1>6. submits \in 0..MaxSubmits
  BY AccountsAssumption DEF AccountsInit
<1>7. disableRace \in BOOLEAN
  BY Zenon DEF AccountsInit
<1>8. QED
  BY <1>2, <1>4, <1>5, <1>6, <1>7 DEF TypeInv, AccountsTypeOK

\* The stages that a request begins at.
Beginnings == {"login", "password", "admit", "create", "register"}

\* What a page sends is the beginning of some request.
LEMMA Submitted ==
  ASSUME NEW b \in Browsers, SubmitSomething(b)
  PROVE  \E j \in Jobs : /\ Submit(b, j) /\ j.at \in Beginnings
                         /\ j.at # "password" => j.user \in Users
                         /\ j.at \in Administering => j.action # "none"
<1> DEFINE Goal(j) == /\ Submit(b, j) /\ j.at \in Beginnings
                      /\ j.at # "password" => j.user \in Users
                      /\ j.at \in Administering => j.action # "none"
<1> USE DEF Beginnings, Administering
<1>1. PICK u \in Users, p \in Secrets, q \in Secrets :
        \/ SubmitLogin(b, u, p)
        \/ SubmitPassword(b, p, q)
        \/ \E action \in {"disable", "enable", "reset-password"} : SubmitAction(b, action, u, p)
        \/ SubmitUser(b, u, p)
        \/ SubmitRegistration(b, u, p)
  BY DEF SubmitSomething
<1>2. CASE SubmitLogin(b, u, p)
  <2> DEFINE j == [Idle EXCEPT !.at = "login", !.user = u, !.secret = p]
  <2>1. j \in Jobs /\ Submit(b, j)
    BY <1>2, Defaults DEF SubmitLogin, Idle, Jobs, Stages
  <2>2. Goal(j)
    BY <2>1 DEF Idle
  <2>3. QED
    BY <2>1, <2>2
<1>3. CASE SubmitPassword(b, p, q)
  <2> DEFINE j == [Idle EXCEPT !.at = "password", !.secret = p, !.next = q]
  <2>1. j \in Jobs /\ Submit(b, j)
    BY <1>3, Defaults DEF SubmitPassword, Idle, Jobs, Stages
  <2>2. Goal(j)
    BY <2>1 DEF Idle
  <2>3. QED
    BY <2>1, <2>2
<1>4. ASSUME NEW action \in {"disable", "enable", "reset-password"}, SubmitAction(b, action, u, p)
      PROVE  \E j \in Jobs : Goal(j)
  <2> DEFINE j == [Idle EXCEPT !.at = "admit", !.user = u, !.action = action, !.next = p]
  <2>1. j \in Jobs /\ Submit(b, j)
    BY <1>4, Defaults DEF SubmitAction, Idle, Jobs, Stages
  <2>2. Goal(j)
    BY <2>1 DEF Idle
  <2>3. QED
    BY <2>1, <2>2
<1>5. CASE SubmitUser(b, u, p)
  <2> DEFINE j == [Idle EXCEPT !.at = "create", !.user = u, !.next = p]
  <2>1. j \in Jobs /\ Submit(b, j)
    BY <1>5, Defaults DEF SubmitUser, Idle, Jobs, Stages
  <2>2. Goal(j)
    BY <2>1 DEF Idle
  <2>3. QED
    BY <2>1, <2>2
<1>6. CASE SubmitRegistration(b, u, p)
  <2> DEFINE j == [Idle EXCEPT !.at = "register", !.user = u, !.secret = p]
  <2>1. j \in Jobs /\ Submit(b, j)
    BY <1>6, Defaults DEF SubmitRegistration, Idle, Jobs, Stages
  <2>2. Goal(j)
    BY <2>1 DEF Idle
  <2>3. QED
    BY <2>1, <2>2
<1>7. QED
  BY <1>1, <1>2, <1>3, <1>4, <1>5, <1>6

\* A request that arrives.
LEMMA SubmitType ==
  ASSUME TypeInv, NEW b \in Browsers, NEW j \in Jobs,
         j.at \notin {"idle", "password"} => j.user \in Users,
         j.at \in Administering => j.action # "none", Submit(b, j)
  PROVE  TypeInv'
BY AccountsAssumption DEF TypeInv, AccountsTypeOK, JobsComplete, Submit

\* A request that goes on to the next stage, or is answered.
LEMMA MoveType ==
  ASSUME TypeInv, NEW b \in Browsers, NEW stage \in Stages,
         \/ /\ Advance(b, stage) /\ job[b].at \notin {"idle", "password"}
            /\ stage \in Administering => job[b].at \in Administering
         \/ GiveUp(b)
  PROVE  job' \in [Browsers -> Jobs] /\ JobsComplete'
<1>1. job \in [Browsers -> Jobs] /\ JobsComplete
  BY DEF TypeInv, AccountsTypeOK
<1>2. CASE GiveUp(b)
  BY <1>1, <1>2, Defaults DEF GiveUp, JobsComplete, Idle, Administering
<1>3. CASE /\ Advance(b, stage) /\ job[b].at \notin {"idle", "password"}
           /\ stage \in Administering => job[b].at \in Administering
  <2>1. job[b].user \in Users
    BY <1>1, <1>3 DEF JobsComplete
  <2>2. job' \in [Browsers -> Jobs]
    BY <1>1, <1>3 DEF Advance, Jobs
  <2>3. \A x \in Browsers : /\ job'[x].user = job[x].user
                            /\ job'[x].action = job[x].action
                            /\ x # b => job'[x].at = job[x].at
    BY <1>1, <1>3 DEF Advance, Jobs
  <2>s. job'[b].at = stage
    BY <1>1, <1>3 DEF Advance, Jobs
  <2>4. QED
    BY <1>1, <1>3, <2>1, <2>2, <2>3, <2>s DEF JobsComplete
<1>4. QED
  BY <1>2, <1>3

\* The rows after an action of an administrator: the role stays, and a
\* request to disable leaves an inactive row.
LEMMA UpdateUserType ==
  ASSUME TypeInv, NEW b \in Browsers, UpdateUser(b)
  PROVE  /\ account' \in [Users -> Accounts]
         /\ \A w \in Users \ {job[b].user} : account'[w] = account[w]
         /\ account'[job[b].user].role = account[job[b].user].role
         /\ account'[job[b].user].active = (job[b].action # "disable")
         /\ account'[job[b].user].version = account[job[b].user].version + 1
         /\ job[b].action # "reset-password" =>
              account'[job[b].user].secret = account[job[b].user].secret
<1>1. /\ job[b].user \in Users /\ job[b].next \in Secrets
      /\ account \in [Users -> Accounts]
  BY DEF TypeInv, AccountsTypeOK, UpdateUser, JobsComplete, Jobs
<1> DEFINE u == job[b].user
<1>2. account[u] \in Accounts
  BY <1>1
<1>3. CASE job[b].action = "reset-password"
  <2> DEFINE row == WithSecret(u, job[b].next, TRUE)
  <2>1. /\ row \in [Users -> Accounts]
        /\ \A w \in Users \ {u} : row[w] = account[w]
        /\ row[u].role = account[u].role
        /\ row[u].version = account[u].version + 1
    BY <1>1, WithSecretType
  <2>2. account' = [row EXCEPT ![u].active = TRUE]
    BY <1>3 DEF UpdateUser
  <2> HIDE DEF row
  <2>3. row[u] \in Accounts
    BY <1>1, <2>1
  <2>4. QED
    BY <1>1, <1>3, <2>1, <2>2, <2>3 DEF Accounts
<1>4. CASE job[b].action # "reset-password"
  <2> DEFINE up == job[b].action # "disable"
             row == [account[u] EXCEPT !.active = up, !.version = account[u].version + 1]
  <2>1. up \in BOOLEAN /\ account[u].version + 1 \in Nat
    BY <1>2 DEF Accounts
  <2>2. job[b].action \in {"disable", "enable"}
    BY <1>4 DEF UpdateUser, TypeInv, AccountsTypeOK, Jobs, JobsComplete, Administering
  <2>3. account' = [account EXCEPT ![u] = row]
    BY <1>1, <1>4, <2>2 DEF UpdateUser
  <2>4. /\ row.role = account[u].role /\ row.active = up
        /\ row.secret = account[u].secret
        /\ row.version = account[u].version + 1
    BY <1>2 DEF Accounts
  <2>5. row \in Accounts
    BY <1>2, <2>1 DEF Accounts
  <2> HIDE DEF row
  <2>6. QED
    BY <1>1, <2>3, <2>4, <2>5
<1>5. QED
  BY <1>3, <1>4

\* The row that the maintenance script leaves behind.
LEMMA ManageUserType ==
  ASSUME TypeInv, NEW u \in Users, NEW role \in ScriptRoles, NEW p \in Secrets,
         ManageUser(u, role, p)
  PROVE  /\ account' \in [Users -> Accounts]
         /\ \A w \in Users \ {u} : account'[w] = account[w]
         /\ account'[u].role = role /\ account'[u].active
         /\ account'[u].secret = p
         /\ account'[u].version = account[u].version + 1
<1> DEFINE row == WithSecret(u, p, TRUE)
<1>1. /\ row \in [Users -> Accounts]
      /\ \A w \in Users \ {u} : row[w] = account[w]
      /\ row[u].secret = p
      /\ row[u].version = account[u].version + 1
  BY WithSecretType DEF TypeInv, AccountsTypeOK
<1>2. account' = [row EXCEPT ![u].active = TRUE, ![u].role = role]
  BY DEF ManageUser
<1>3. role \in Roles
  BY AccountsAssumption DEF Roles
<1> HIDE DEF row
<1>4. row[u] \in Accounts
  BY <1>1
<1>5. QED
  BY <1>1, <1>2, <1>3, <1>4 DEF Accounts

LEMMA StepTypeInv == TypeInv /\ [AccountsNext]_accountVars => TypeInv'
<1> SUFFICES ASSUME TypeInv, [AccountsNext]_accountVars PROVE TypeInv'
  OBVIOUS
<1> USE DEF TypeInv, AccountsTypeOK
<1>1. ASSUME NEW b \in Browsers, SubmitSomething(b) PROVE TypeInv'
  BY <1>1, Submitted, SubmitType
<1>2. ASSUME NEW b \in Browsers, SessionEnds(b) PROVE TypeInv'
  BY <1>2, Defaults DEF SessionEnds, JobsComplete
<1>3. ASSUME NEW b \in Browsers, VerifyLogin(b) PROVE TypeInv'
  <2>1. job' \in [Browsers -> Jobs] /\ JobsComplete'
    BY <1>3, MoveType DEF VerifyLogin, Stages, Administering
  <2>2. QED
    BY <1>3, <2>1 DEF VerifyLogin
<1>4. ASSUME NEW b \in Browsers, FinishLogin(b) PROVE TypeInv'
  <2>1. job[b].user \in Users /\ job[b].secret \in Secrets /\ job[b].crossed \in BOOLEAN
    BY <1>4 DEF FinishLogin, JobsComplete, Jobs
  <2>2. SessionFor(job[b].user, job[b].secret, job[b].crossed) \in Sessions
    BY <2>1, SessionForType
  <2>3. cookie' \in [Browsers -> Sessions]
    BY <1>4, <2>2 DEF FinishLogin
  <2>4. job' \in [Browsers -> Jobs] /\ JobsComplete'
    BY <1>4, MoveType DEF FinishLogin, Stages, Administering
  <2>5. QED
    BY <1>4, <2>3, <2>4 DEF FinishLogin
<1>5. ASSUME NEW b \in Browsers, CheckPassword(b) PROVE TypeInv'
  <2>1. CASE GiveUp(b)
    <3>1. job' \in [Browsers -> Jobs] /\ JobsComplete'
      BY <2>1, MoveType DEF Stages, Administering
    <3>2. QED
      BY <1>5, <3>1 DEF CheckPassword
  <2>2. CASE /\ Authenticated(b)
             /\ job' = [job EXCEPT ![b].at = "checked", ![b].user = cookie[b].user]
    <3>1. cookie[b].user \in Users
      BY <2>2 DEF Authenticated, Sessions
    <3>2. [job[b] EXCEPT !.at = "checked", !.user = cookie[b].user] \in Jobs
      BY <3>1 DEF Jobs, Stages
    <3>3. job' = [job EXCEPT ![b] = [job[b] EXCEPT !.at = "checked", !.user = cookie[b].user]]
      BY <2>2
    <3>4. job' \in [Browsers -> Jobs] /\ JobsComplete'
      BY <3>1, <3>2, <3>3 DEF JobsComplete, Jobs, Administering
    <3>5. QED
      BY <1>5, <3>4 DEF CheckPassword
  <2>3. QED
    BY <1>5, <2>1, <2>2 DEF CheckPassword
<1>6. ASSUME NEW b \in Browsers, ChangePassword(b) PROVE TypeInv'
  <2>1. job[b].user \in Users /\ job[b].next \in Secrets
    BY <1>6 DEF ChangePassword, JobsComplete, Jobs
  <2>2. account' \in [Users -> Accounts]
    BY <1>6, <2>1, WithSecretType DEF ChangePassword
  <2> DEFINE j == [job EXCEPT ![b].at = "changed"]
  <2>3. /\ j \in [Browsers -> Jobs] /\ j[b].at = "changed"
        /\ \A x \in Browsers : j[x].user = job[x].user /\ j[x].action = job[x].action
        /\ \A x \in Browsers \ {b} : j[x].at = job[x].at
    BY DEF Jobs, Stages
  <2>4. job' = CrossLogins(job[b].user, job[b].next, j)
    BY <1>6 DEF ChangePassword
  <2> HIDE DEF j
  <2>5. job' \in [Browsers -> Jobs]
        /\ \A x \in Browsers : job'[x].at = j[x].at /\ job'[x].user = j[x].user /\ job'[x].action = j[x].action
    BY <2>1, <2>3, <2>4, CrossLoginsType
  <2>6. JobsComplete'
    <3> SUFFICES ASSUME NEW x \in Browsers
                 PROVE  /\ job'[x].at \notin {"idle", "password"} => job'[x].user \in Users
                        /\ job'[x].at \in Administering => job'[x].action # "none"
      BY DEF JobsComplete
    <3>1. CASE x = b
      <4>1. job'[b].at = "changed" /\ job'[b].user = job[b].user
        BY <2>3, <2>5
      <4>2. QED
        BY <2>1, <3>1, <4>1 DEF Administering
    <3>2. CASE x # b
      BY <2>3, <2>5, <3>2 DEF JobsComplete
    <3>3. QED
      BY <3>1, <3>2
  <2>7. QED
    BY <1>6, <2>2, <2>5, <2>6 DEF ChangePassword
<1>7. ASSUME NEW b \in Browsers, RenewSession(b) PROVE TypeInv'
  <2>1. job[b].user \in Users /\ job[b].next \in Secrets
    BY <1>7 DEF RenewSession, JobsComplete, Jobs
  <2>2. SessionFor(job[b].user, job[b].next, account[job[b].user].secret # job[b].next) \in Sessions
    BY <2>1, SessionForType
  <2>3. cookie' \in [Browsers -> Sessions]
    BY <1>7, <2>2 DEF RenewSession
  <2>4. job' \in [Browsers -> Jobs] /\ JobsComplete'
    BY <1>7, MoveType DEF RenewSession, Stages, Administering
  <2>5. QED
    BY <1>7, <2>3, <2>4 DEF RenewSession
<1>8. ASSUME NEW b \in Browsers, AdmitAction(b) PROVE TypeInv'
  <2>1. job' \in [Browsers -> Jobs] /\ JobsComplete'
    BY <1>8, MoveType DEF AdmitAction, Stages, Administering
  <2>2. QED
    BY <1>8, <2>1 DEF AdmitAction
<1>9. ASSUME NEW b \in Browsers, CountAdministrators(b) PROVE TypeInv'
  <2>1. job' \in [Browsers -> Jobs] /\ JobsComplete'
    BY <1>9, MoveType DEF CountAdministrators, Stages, Administering
  <2>2. QED
    BY <1>9, <2>1 DEF CountAdministrators
<1>10. ASSUME NEW b \in Browsers, UpdateUser(b) PROVE TypeInv'
  <2>1. job[b].user \in Users /\ job[b].next \in Secrets
    BY <1>10 DEF UpdateUser, JobsComplete, Jobs
  <2>2. account' \in [Users -> Accounts]
    BY <1>10, <2>1, UpdateUserType
  <2> DEFINE j == [job EXCEPT ![b] = Idle]
  <2>3. j \in [Browsers -> Jobs] /\ j[b].at = "idle"
        /\ \A x \in Browsers \ {b} : j[x] = job[x]
    BY Defaults DEF Idle
  <2>4. job' = CrossLogins(job[b].user, account'[job[b].user].secret, j)
    BY <1>10 DEF UpdateUser
  <2>5. account'[job[b].user].secret \in Secrets
    BY <2>1, <2>2 DEF Accounts
  <2> HIDE DEF j
  <2>6. job' \in [Browsers -> Jobs]
        /\ \A x \in Browsers : job'[x].at = j[x].at /\ job'[x].user = j[x].user /\ job'[x].action = j[x].action
    BY <2>1, <2>3, <2>4, <2>5, CrossLoginsType
  <2>7. JobsComplete'
    BY <2>3, <2>6 DEF JobsComplete, Administering
  <2>8. disableRace' \in BOOLEAN
    BY <1>10, Zenon DEF UpdateUser
  <2>9. QED
    BY <1>10, <2>2, <2>6, <2>7, <2>8 DEF UpdateUser
<1>11. ASSUME NEW b \in Browsers, AdmitUser(b) PROVE TypeInv'
  <2>1. job' \in [Browsers -> Jobs] /\ JobsComplete'
    BY <1>11, MoveType DEF AdmitUser, Stages, Administering
  <2>2. QED
    BY <1>11, <2>1 DEF AdmitUser
<1>12. ASSUME NEW b \in Browsers, InsertUser(b) PROVE TypeInv'
  <2>1. job' \in [Browsers -> Jobs] /\ JobsComplete'
    BY <1>12, MoveType DEF InsertUser, Stages, Administering
  <2>2. job[b].user \in Users /\ job[b].next \in Secrets
    BY <1>12 DEF InsertUser, JobsComplete, Jobs
  <2>3. account' \in [Users -> Accounts]
    <3>1. CASE account[job[b].user].role # "none"
      BY <1>12, <3>1 DEF InsertUser
    <3>2. CASE account[job[b].user].role = "none"
      <4>1. PICK row : row \in Accounts /\ account' = [account EXCEPT ![job[b].user] = row]
        BY <1>12, <2>2, <3>2 DEF InsertUser, Accounts, Roles
      <4>2. QED
        BY <2>2, <4>1
    <3>3. QED
      BY <3>1, <3>2
  <2>4. QED
    BY <1>12, <2>1, <2>3 DEF InsertUser
<1>13. ASSUME NEW b \in Browsers, Register(b) PROVE TypeInv'
  <2>1. job' \in [Browsers -> Jobs] /\ JobsComplete'
    BY <1>13, MoveType DEF Register, Stages, Administering
  <2>2. job[b].user \in Users /\ job[b].secret \in Secrets
    BY <1>13 DEF Register, JobsComplete, Jobs
  <2>3. account' \in [Users -> Accounts]
    <3>1. CASE account[job[b].user].role # "none"
      BY <1>13, <3>1 DEF Register
    <3>2. CASE account[job[b].user].role = "none"
      <4>1. PICK row : row \in Accounts /\ account' = [account EXCEPT ![job[b].user] = row]
        BY <1>13, <2>2, <3>2 DEF Register, Accounts, Roles
      <4>2. QED
        BY <2>2, <4>1
    <3>3. QED
      BY <3>1, <3>2
  <2>4. QED
    BY <1>13, <2>1, <2>3 DEF Register
<1>14. ASSUME NEW u \in Users, NEW role \in ScriptRoles, NEW p \in Secrets, ManageUser(u, role, p)
       PROVE  TypeInv'
  <2>1. account' \in [Users -> Accounts]
    BY <1>14, ManageUserType
  <2>2. job' \in [Browsers -> Jobs] /\ JobsComplete'
    BY <1>14, CrossLoginsType DEF ManageUser, JobsComplete
  <2>3. submits' \in 0..MaxSubmits
    BY <1>14, AccountsAssumption DEF ManageUser
  <2>4. QED
    BY <1>14, <2>1, <2>2, <2>3 DEF ManageUser
<1>15. CASE UNCHANGED accountVars
  BY <1>15 DEF accountVars, JobsComplete
<1>16. QED
  BY <1>1, <1>2, <1>3, <1>4, <1>5, <1>6, <1>7, <1>8, <1>9, <1>10, <1>11, <1>12, <1>13,
     <1>14, <1>15 DEF AccountsNext

\* Accounts, sessions and requests have their types in every reachable state:
\* no route goes on for a user it has not looked up.
THEOREM AccountsTypeCorrect == AccountsSpec => []AccountsTypeOK
<1>1. TypeInv => AccountsTypeOK
  BY DEF TypeInv
<1>2. QED
  BY InitTypeInv, StepTypeInv, <1>1, PTL DEF AccountsSpec

-----------------------------------------------------------------------------
(* The last administrator.  A request that is about to disable one was told *)
(* that there is another, and as long as no two such requests for different *)
(* users overlap, that other one stays.                                     *)

AnotherStays ==
  \A b \in Browsers : Disabling(b) => \E w \in ActiveAdministrators : w # job[b].user

AdministratorInv == ~disableRace => ActiveAdministrators # {} /\ AnotherStays

\* A step that takes no administrator away and brings no request to the
\* update keeps the invariant: a request for a user who only now becomes an
\* administrator is not for the one there was.
LEMMA AdministratorsGrow ==
  ASSUME TypeInv, AdministratorInv,
         disableRace => disableRace',
         \A u \in Users : u \in ActiveAdministrators => u \in ActiveAdministrators',
         \A b \in Browsers : job'[b].at = "update" /\ job'[b].action = "disable" =>
           job[b].at = "update" /\ job[b].action = "disable" /\ job[b].user = job'[b].user
  PROVE  AdministratorInv'
<1> SUFFICES ASSUME ~disableRace' PROVE (ActiveAdministrators # {} /\ AnotherStays)'
  BY DEF AdministratorInv
<1>1. ActiveAdministrators # {} /\ AnotherStays /\ ActiveAdministrators \subseteq Users
  BY DEF AdministratorInv, ActiveAdministrators
<1>2. ActiveAdministrators \subseteq ActiveAdministrators'
  BY <1>1
<1>3. ASSUME NEW b \in Browsers, Disabling(b)'
      PROVE  \E w \in ActiveAdministrators' : w # job'[b].user
  <2>1. job[b].at = "update" /\ job[b].action = "disable" /\ job[b].user = job'[b].user
    BY <1>3 DEF Disabling
  <2>2. CASE job[b].user \in ActiveAdministrators
    BY <1>1, <1>2, <2>1, <2>2 DEF AnotherStays, Disabling
  <2>3. CASE job[b].user \notin ActiveAdministrators
    BY <1>1, <1>2, <2>1, <2>3
  <2>4. QED
    BY <2>2, <2>3
<1>4. QED
  BY <1>1, <1>2, <1>3 DEF AnotherStays

LEMMA InitAdministratorInv == AccountsInit => AdministratorInv
<1> SUFFICES ASSUME AccountsInit PROVE ActiveAdministrators # {} /\ AnotherStays
  BY DEF AdministratorInv
<1>1. PICK u \in Administrators : TRUE
  BY AccountsAssumption
<1>2. u \in Users /\ account[u].role = "super" /\ account[u].active
  BY <1>1, AccountsAssumption DEF AccountsInit, NoAccount
<1>3. \A b \in Browsers : job[b].at = "idle"
  BY DEF AccountsInit, Idle
<1>4. QED
  BY <1>2, <1>3 DEF ActiveAdministrators, AnotherStays, Disabling

LEMMA StepAdministratorInv ==
  ASSUME "user" \notin ScriptRoles, TypeInv, AdministratorInv, [AccountsNext]_accountVars
  PROVE  AdministratorInv'
<1> USE DEF TypeInv, AccountsTypeOK
<1>1. ASSUME NEW b \in Browsers, SubmitSomething(b) PROVE AdministratorInv'
  BY <1>1, Submitted, AdministratorsGrow DEF Submit, ActiveAdministrators, Beginnings
<1>2. ASSUME NEW b \in Browsers,
             SessionEnds(b) \/ VerifyLogin(b) \/ FinishLogin(b) \/ CheckPassword(b)
               \/ RenewSession(b) \/ AdmitUser(b)
      PROVE  AdministratorInv'
  <2>1. account' = account /\ disableRace' = disableRace
    BY <1>2 DEF SessionEnds, VerifyLogin, FinishLogin, CheckPassword, RenewSession, AdmitUser
  <2>2. job'[b].at # "update" /\ \A x \in Browsers \ {b} : job'[x] = job[x]
    BY <1>2 DEF SessionEnds, VerifyLogin, FinishLogin, CheckPassword, RenewSession, AdmitUser,
                Advance, GiveUp, Idle, Jobs
  <2>3. QED
    BY <2>1, <2>2, AdministratorsGrow DEF ActiveAdministrators
<1>3. ASSUME NEW b \in Browsers, ChangePassword(b) PROVE AdministratorInv'
  <2>1. job[b].user \in Users /\ job[b].next \in Secrets
    BY <1>3 DEF ChangePassword, JobsComplete, Jobs
  <2>2. \A u \in Users : account'[u].role = account[u].role /\ account'[u].active = account[u].active
    <3>1. account' = WithSecret(job[b].user, job[b].next, FALSE)
      BY <1>3 DEF ChangePassword
    <3>2. /\ \A w \in Users \ {job[b].user} : account'[w] = account[w]
          /\ account'[job[b].user].role = account[job[b].user].role
          /\ account'[job[b].user].active = account[job[b].user].active
      <4> DEFINE u == job[b].user
                 p == job[b].next
      <4>1. /\ \A w \in Users \ {u} : WithSecret(u, p, FALSE)[w] = account[w]
            /\ WithSecret(u, p, FALSE)[u].role = account[u].role
            /\ WithSecret(u, p, FALSE)[u].active = account[u].active
        <5>1. account \in [Users -> Accounts] /\ u \in Users /\ p \in Secrets /\ FALSE \in BOOLEAN
          BY <2>1
        <5> HIDE DEF u, p
        <5>2. QED
          BY <5>1, WithSecretType, Zenon
      <4>2. QED
        BY <3>1, <4>1, Zenon
    <3>3. QED
      BY <3>2
  <2> DEFINE j == [job EXCEPT ![b].at = "changed"]
  <2>3. j \in [Browsers -> Jobs] /\ j[b].at = "changed"
        /\ \A x \in Browsers \ {b} : j[x] = job[x]
    BY DEF Jobs, Stages
  <2>4. job' = CrossLogins(job[b].user, job[b].next, j)
    BY <1>3 DEF ChangePassword
  <2> HIDE DEF j
  <2>5. \A x \in Browsers :
          job'[x].at = j[x].at /\ job'[x].user = j[x].user /\ job'[x].action = j[x].action
    BY <2>1, <2>3, <2>4, CrossLoginsType
  <2>6. disableRace' = disableRace
    BY <1>3 DEF ChangePassword
  <2>7. QED
    BY <2>2, <2>3, <2>5, <2>6, AdministratorsGrow DEF ActiveAdministrators
<1>4. ASSUME NEW b \in Browsers, AdmitAction(b) \/ CountAdministrators(b) PROVE AdministratorInv'
  <2>1. /\ account' = account /\ disableRace' = disableRace
        /\ ActiveAdministrators' = ActiveAdministrators
    BY <1>4 DEF AdmitAction, CountAdministrators, ActiveAdministrators
  <2>2. /\ \A x \in Browsers \ {b} : job'[x] = job[x]
        /\ \/ job' = [job EXCEPT ![b] = Idle]
           \/ \E stage \in Stages : job' = [job EXCEPT ![b].at = stage]
    BY <1>4 DEF AdmitAction, CountAdministrators, Advance, GiveUp, Stages
  <2>3. ASSUME Disabling(b)' PROVE \E w \in ActiveAdministrators : w # job'[b].user
    <3>1. job'[b].at = "update" /\ job'[b].action = "disable" /\ job'[b].user \in ActiveAdministrators
      BY <2>1, <2>3 DEF Disabling
    <3>2. job'[b].user = job[b].user /\ job'[b].action = job[b].action
      BY <2>2, <3>1 DEF Idle, Jobs
    <3>3. CASE AdmitAction(b)
      <4>1. job' = [job EXCEPT ![b].at = IF job[b].action = "disable" /\ account[job[b].user].role = "super"
                                         THEN "count" ELSE "update"]
        BY <3>1, <3>3 DEF AdmitAction, Advance, GiveUp, Idle
      <4>2. account[job[b].user].role # "super"
        BY <3>1, <3>2, <4>1 DEF Jobs
      <4>3. QED
        BY <3>1, <3>2, <4>2 DEF ActiveAdministrators
    <3>4. CASE CountAdministrators(b)
      <4>1. \E u, w \in ActiveAdministrators : u # w
        BY <3>1, <3>4 DEF CountAdministrators, GiveUp, Idle
      <4>2. QED
        BY <4>1
    <3>5. QED
      BY <1>4, <3>3, <3>4
  <2>4. ASSUME NEW x \in Browsers \ {b}, Disabling(x)' PROVE Disabling(x) /\ job'[x].user = job[x].user
    BY <2>1, <2>2, <2>4 DEF Disabling
  <2>5. QED
    BY <2>1, <2>3, <2>4 DEF AdministratorInv, AnotherStays
<1>5. ASSUME NEW b \in Browsers, UpdateUser(b) PROVE AdministratorInv'
  <2> DEFINE u == job[b].user
  <2>1. u \in Users
    BY <1>5 DEF UpdateUser, JobsComplete
  <2>2. /\ \A w \in Users \ {u} : account'[w] = account[w]
        /\ account'[u].role = account[u].role
        /\ account'[u].active = (job[b].action # "disable")
        /\ account' \in [Users -> Accounts]
    BY <1>5, UpdateUserType
  <2> DEFINE j == [job EXCEPT ![b] = Idle]
  <2>3. j \in [Browsers -> Jobs] /\ j[b].at = "idle" /\ \A x \in Browsers \ {b} : j[x] = job[x]
    BY Defaults DEF Idle
  <2>4. job' = CrossLogins(u, account'[u].secret, j) /\ account'[u].secret \in Secrets
    BY <1>5, <2>1, <2>2 DEF UpdateUser, Accounts
  <2> HIDE DEF j
  <2>5. \A x \in Browsers :
          job'[x].at = j[x].at /\ job'[x].user = j[x].user /\ job'[x].action = j[x].action
    BY <2>1, <2>3, <2>4, CrossLoginsType
  <2>6. /\ disableRace => disableRace'
        /\ Disabling(b) /\ (\E x \in Browsers \ {b} : Disabling(x) /\ job[x].user # u) => disableRace'
    BY <1>5, Zenon DEF UpdateUser
  <2>7. CASE ~Disabling(b)
    <3>1. \A w \in Users : w \in ActiveAdministrators => w \in ActiveAdministrators'
      BY <1>5, <2>1, <2>2, <2>7 DEF ActiveAdministrators, Disabling, UpdateUser
    <3>2. QED
      BY <2>3, <2>5, <2>6, <3>1, AdministratorsGrow
  <2>8. CASE Disabling(b)
    <3> SUFFICES ASSUME ~disableRace' PROVE (ActiveAdministrators # {} /\ AnotherStays)'
      BY DEF AdministratorInv
    <3>1. PICK w \in ActiveAdministrators : w # u
      BY <2>6, <2>8 DEF AdministratorInv, AnotherStays
    <3>2. \A v \in Users \ {u} : v \in ActiveAdministrators <=> v \in ActiveAdministrators'
      BY <2>2 DEF ActiveAdministrators
    <3>3. w \in ActiveAdministrators'
      BY <3>1, <3>2 DEF ActiveAdministrators
    <3>4. u \notin ActiveAdministrators'
      BY <2>2, <2>8 DEF ActiveAdministrators, Disabling
    <3>5. \A x \in Browsers : ~Disabling(x)'
      <4> SUFFICES ASSUME NEW x \in Browsers, Disabling(x)' PROVE FALSE
        OBVIOUS
      <4>1. x # b /\ job[x].at = "update" /\ job[x].action = "disable" /\ job[x].user = job'[x].user
        BY <2>3, <2>5 DEF Disabling
      <4>2. job[x].user \in ActiveAdministrators' /\ job[x].user # u
        BY <3>4, <4>1 DEF Disabling
      <4>3. job[x].user \in ActiveAdministrators
        BY <3>2, <4>2 DEF ActiveAdministrators
      <4>4. QED
        BY <2>6, <2>8, <4>1, <4>2, <4>3 DEF Disabling
    <3>6. QED
      BY <3>3, <3>5 DEF AnotherStays
  <2>9. QED
    BY <2>7, <2>8
<1>6. ASSUME NEW b \in Browsers, InsertUser(b) \/ Register(b) PROVE AdministratorInv'
  <2>1. job[b].user \in Users
    BY <1>6 DEF InsertUser, Register, JobsComplete
  <2>2. \A w \in Users : account[w].role # "none" => account'[w] = account[w]
    BY <1>6, <2>1 DEF InsertUser, Register
  <2>3. /\ \A x \in Browsers \ {b} : job'[x] = job[x]
        /\ job'[b].at # "update" /\ disableRace' = disableRace
    BY <1>6 DEF InsertUser, Register, Advance, GiveUp, Idle, Jobs
  <2>4. QED
    BY <2>2, <2>3, AdministratorsGrow DEF ActiveAdministrators
<1>7. ASSUME NEW u \in Users, NEW role \in ScriptRoles, NEW p \in Secrets, ManageUser(u, role, p)
      PROVE  AdministratorInv'
  <2>1. role = "super"
    BY AccountsAssumption
  <2>2. \A w \in Users : w \in ActiveAdministrators => w \in ActiveAdministrators'
    BY <1>7, <2>1, ManageUserType DEF ActiveAdministrators
  <2>3. /\ disableRace' = disableRace
        /\ \A x \in Browsers : /\ job'[x].at = job[x].at /\ job'[x].user = job[x].user
                               /\ job'[x].action = job[x].action
    BY <1>7, CrossLoginsType DEF ManageUser
  <2>4. QED
    BY <2>2, <2>3, AdministratorsGrow
<1>8. CASE UNCHANGED accountVars
  BY <1>8, AdministratorsGrow DEF accountVars, ActiveAdministrators
<1>9. QED
  BY <1>1, <1>2, <1>3, <1>4, <1>5, <1>6, <1>7, <1>8 DEF AccountsNext

\* Unless the maintenance script makes an administrator a user, the system
\* is without an active administrator only after two requests had both
\* counted another one before either wrote (admin/users/[userId]/route.ts).
THEOREM AdministratorStaysUnlessRaced ==
  ASSUME "user" \notin ScriptRoles
  PROVE  AccountsSpec => []AdministratorUnlessRaced
<1>1. AdministratorInv => AdministratorUnlessRaced
  BY DEF AdministratorInv, AdministratorUnlessRaced
<1>2. TypeInv /\ AdministratorInv /\ [AccountsNext]_accountVars => AdministratorInv'
  BY StepAdministratorInv
<1>3. QED
  BY InitTypeInv, StepTypeInv, InitAdministratorInv, <1>1, <1>2, PTL DEF AccountsSpec

-----------------------------------------------------------------------------
(* Sessions.  A row that exists stays, and its version says which password  *)
(* it has: a step that changes the password of a user increments it.        *)

HasAccount(u) == account[u].role # "none"

CookieSound(c) ==
  c.user # NoUser =>
    /\ HasAccount(c.user) /\ c.version <= account[c.user].version
    /\ (c.version = account[c.user].version /\ ~c.crossed) => c.proof = account[c.user].secret

\* The stages of a request that has found the row of its user.
Found == {"verified", "checked", "changed", "count", "update"}

JobSound(j) ==
  /\ j.at \in Found => HasAccount(j.user)
  /\ (j.at = "verified" /\ ~j.crossed) => j.secret = account[j.user].secret

SessionInv ==
  /\ \A u \in Users : account[u].active => HasAccount(u)
  /\ \A b \in Browsers : CookieSound(cookie[b]) /\ JobSound(job[b])

\* What every step keeps of the rows.
Rising ==
  \A u \in Users : HasAccount(u) =>
    /\ account'[u].role # "none" /\ account'[u].version >= account[u].version
    /\ account'[u].version = account[u].version => account'[u].secret = account[u].secret

\* A step that changes one row and increments its version raises the rows.
LEMMA RowsRise ==
  ASSUME TypeInv, NEW u \in Users,
         \A w \in Users \ {u} : account'[w] = account[w],
         HasAccount(u) => account'[u].role # "none",
         account'[u].version = account[u].version + 1
  PROVE  Rising
<1>1. \A w \in Users : account[w].version \in Nat
  BY DEF TypeInv, AccountsTypeOK, Accounts
<1>2. QED
  BY <1>1 DEF Rising, HasAccount

\* A cookie that was sound is so after a step that raises the versions.
LEMMA RisingKeepsCookies ==
  ASSUME TypeInv, account' \in [Users -> Accounts], Rising,
         NEW c \in Sessions, CookieSound(c)
  PROVE  c.user # NoUser =>
           /\ account'[c.user].role # "none" /\ c.version <= account'[c.user].version
           /\ (c.version = account'[c.user].version /\ ~c.crossed) => c.proof = account'[c.user].secret
<1> SUFFICES ASSUME c.user # NoUser
             PROVE  /\ account'[c.user].role # "none" /\ c.version <= account'[c.user].version
                    /\ (c.version = account'[c.user].version /\ ~c.crossed)
                         => c.proof = account'[c.user].secret
  OBVIOUS
<1>1. c.user \in Users /\ c.version \in Nat
  BY DEF Sessions
<1>2. account[c.user].version \in Nat /\ account'[c.user].version \in Nat
  BY <1>1 DEF TypeInv, AccountsTypeOK, Accounts
<1>3. QED
  BY <1>1, <1>2 DEF CookieSound, Rising, HasAccount

\* The invariant after a step that changes no row.
LEMMA SameRows ==
  ASSUME SessionInv, account' = account,
         \A b \in Browsers : CookieSound(cookie'[b]) /\ JobSound(job'[b])
  PROVE  SessionInv'
BY DEF SessionInv, CookieSound, JobSound, HasAccount

LEMMA InitSessionInv == AccountsInit => SessionInv
<1> SUFFICES ASSUME AccountsInit PROVE SessionInv
  OBVIOUS
<1>1. \A u \in Users : (account[u].active => HasAccount(u)) /\ account[u].secret = NoAccount.secret
  BY DEF AccountsInit, HasAccount, NoAccount
<1>2. \A b \in Browsers : CookieSound(cookie[b])
  <2> SUFFICES ASSUME NEW b \in Browsers PROVE CookieSound(cookie[b])
    OBVIOUS
  <2>1. CASE SignedIn[b] = NoUser
    BY <2>1 DEF AccountsInit, CookieSound, NoSession
  <2>2. CASE SignedIn[b] # NoUser
    <3>1. SignedIn[b] \in Administrators /\ SignedIn[b] \in Users
      BY <2>2, AccountsAssumption
    <3>2. cookie[b] = SessionFor(SignedIn[b], account[SignedIn[b]].secret, FALSE)
      BY <2>2 DEF AccountsInit
    <3>3. account[SignedIn[b]].role = "super" /\ account[SignedIn[b]].version \in Nat
      BY <3>1, InitTypeInv DEF AccountsInit, NoAccount, TypeInv, AccountsTypeOK, Accounts
    <3>4. QED
      BY <3>2, <3>3 DEF CookieSound, SessionFor, HasAccount
  <2>3. QED
    BY <2>1, <2>2
<1>3. \A b \in Browsers : JobSound(job[b])
  BY DEF AccountsInit, JobSound, Idle, Found
<1>4. QED
  BY <1>1, <1>2, <1>3 DEF SessionInv

\* A session made for a user who has a row is sound.
LEMMA FreshSession ==
  ASSUME TypeInv, NEW u \in Users, HasAccount(u), NEW p \in Secrets, NEW c \in BOOLEAN,
         ~c => p = account[u].secret
  PROVE  CookieSound(SessionFor(u, p, c))
<1>1. account[u].version \in Nat
  BY DEF TypeInv, AccountsTypeOK, Accounts
<1>2. QED
  BY <1>1 DEF CookieSound, SessionFor

LEMMA StepSessionInv == TypeInv /\ SessionInv /\ [AccountsNext]_accountVars => SessionInv'
<1> SUFFICES ASSUME TypeInv, SessionInv, [AccountsNext]_accountVars PROVE SessionInv'
  OBVIOUS
<1> USE DEF TypeInv, AccountsTypeOK, Found
<1>0. TypeInv'
  BY StepTypeInv
<1>a. ASSUME NEW b \in Browsers, account' = account, CookieSound(cookie'[b]), JobSound(job'[b]),
             \A x \in Browsers \ {b} : cookie'[x] = cookie[x] /\ job'[x] = job[x]
      PROVE  SessionInv'
  BY <1>a, SameRows DEF SessionInv
<1>1. ASSUME NEW b \in Browsers, SubmitSomething(b) PROVE SessionInv'
  <2>1. PICK j \in Jobs : Submit(b, j) /\ j.at \in Beginnings
    BY <1>1, Submitted
  <2>2. JobSound(j)
    BY <2>1 DEF JobSound, Beginnings
  <2>3. QED
    BY <1>a, <2>1, <2>2 DEF Submit, SessionInv
<1>2. ASSUME NEW b \in Browsers, SessionEnds(b) PROVE SessionInv'
  <2>1. CookieSound(NoSession)
    BY DEF CookieSound, NoSession
  <2>2. QED
    BY <1>2, <1>a, <2>1 DEF SessionEnds, SessionInv
<1>3. ASSUME NEW b \in Browsers,
             VerifyLogin(b) \/ CheckPassword(b) \/ AdmitAction(b) \/ CountAdministrators(b)
               \/ AdmitUser(b)
      PROVE  SessionInv'
  <2>1. account' = account /\ cookie' = cookie
    BY <1>3 DEF VerifyLogin, CheckPassword, AdmitAction, CountAdministrators, AdmitUser
  <2>2. \A x \in Browsers \ {b} : job'[x] = job[x]
    BY <1>3 DEF VerifyLogin, CheckPassword, AdmitAction, CountAdministrators, AdmitUser,
                Advance, GiveUp
  <2>3. JobSound(job'[b])
    <3>1. CASE GiveUp(b)
      BY <3>1 DEF GiveUp, JobSound, Idle
    <3>2. CASE VerifyLogin(b) /\ Advance(b, "verified")
      <4>1. job[b].user \in Users /\ account[job[b].user].active
            /\ account[job[b].user].secret = job[b].secret
        BY <3>2 DEF VerifyLogin, Advance, GiveUp, Idle, JobsComplete, Jobs
      <4>2. job'[b].user = job[b].user /\ job'[b].secret = job[b].secret /\ job'[b].at = "verified"
        BY <3>2 DEF Advance, Jobs
      <4>3. QED
        BY <4>1, <4>2 DEF JobSound, SessionInv
    <3>3. CASE /\ Authenticated(b)
               /\ job' = [job EXCEPT ![b].at = "checked", ![b].user = cookie[b].user]
      <4>1. cookie[b].user # NoUser /\ HasAccount(cookie[b].user)
        BY <3>3 DEF Authenticated, SessionInv, CookieSound
      <4>2. job'[b].at = "checked" /\ job'[b].user = cookie[b].user
        BY <3>3 DEF Jobs
      <4>3. QED
        BY <4>1, <4>2 DEF JobSound
    <3>4. CASE AdmitUser(b) /\ Advance(b, "insert")
      BY <3>4 DEF Advance, JobSound, Jobs
    <3>6. CASE \E stage \in {"count", "update"} : Advance(b, stage) /\ HasAccount(job[b].user)
      BY <3>6 DEF Advance, JobSound, Jobs
    <3>7. CASE AdmitAction(b) \/ CountAdministrators(b)
      <4>1. ~GiveUp(b) => HasAccount(job[b].user)
        BY <3>7 DEF AdmitAction, CountAdministrators, SessionInv, JobSound, HasAccount
      <4>2. GiveUp(b) \/ Advance(b, "count") \/ Advance(b, "update")
        BY <3>7 DEF AdmitAction, CountAdministrators
      <4>3. QED
        BY <3>1, <3>6, <4>1, <4>2
    <3>5. QED
      BY <1>3, <3>1, <3>2, <3>3, <3>4, <3>7 DEF VerifyLogin, CheckPassword, AdmitUser
  <2>4. QED
    BY <1>a, <2>1, <2>2, <2>3 DEF SessionInv
<1>4. ASSUME NEW b \in Browsers, FinishLogin(b) PROVE SessionInv'
  <2>1. /\ job[b].user \in Users /\ job[b].secret \in Secrets /\ job[b].crossed \in BOOLEAN
        /\ HasAccount(job[b].user)
        /\ ~job[b].crossed => job[b].secret = account[job[b].user].secret
    BY <1>4 DEF FinishLogin, JobsComplete, Jobs, SessionInv, JobSound
  <2>2. CookieSound(SessionFor(job[b].user, job[b].secret, job[b].crossed))
    BY <2>1, FreshSession
  <2>3. CookieSound(cookie'[b]) /\ \A x \in Browsers \ {b} : cookie'[x] = cookie[x]
    BY <1>4, <2>2 DEF FinishLogin, SessionInv
  <2>4. JobSound(job'[b]) /\ account' = account /\ \A x \in Browsers \ {b} : job'[x] = job[x]
    BY <1>4 DEF FinishLogin, GiveUp, JobSound, Idle
  <2>5. QED
    BY <1>a, <2>3, <2>4
<1>5. ASSUME NEW b \in Browsers, RenewSession(b) PROVE SessionInv'
  <2>1. job[b].user \in Users /\ job[b].next \in Secrets /\ HasAccount(job[b].user)
    BY <1>5 DEF RenewSession, JobsComplete, Jobs, SessionInv, JobSound
  <2>2. CookieSound(SessionFor(job[b].user, job[b].next, account[job[b].user].secret # job[b].next))
    BY <2>1, FreshSession
  <2>3. CookieSound(cookie'[b]) /\ \A x \in Browsers \ {b} : cookie'[x] = cookie[x]
    BY <1>5, <2>2 DEF RenewSession, SessionInv
  <2>4. JobSound(job'[b]) /\ account' = account /\ \A x \in Browsers \ {b} : job'[x] = job[x]
    BY <1>5 DEF RenewSession, GiveUp, JobSound, Idle
  <2>5. QED
    BY <1>a, <2>3, <2>4
<1>b. ASSUME NEW u \in Users, NEW p \in Secrets, NEW j \in [Browsers -> Jobs],
             account' \in [Users -> Accounts], Rising, cookie' = cookie,
             \A w \in Users \ {u} : account'[w] = account[w],
             account'[u].active => account'[u].role # "none",
             account'[u].secret = p, job' = CrossLogins(u, p, j),
             \A x \in Browsers : \/ j[x] = job[x]
                                 \/ j[x].at = "idle"
                                 \/ j[x].at = "changed" /\ HasAccount(j[x].user)
      PROVE  SessionInv'
  <2>1. \A w \in Users : account'[w].active => account'[w].role # "none"
    BY <1>b DEF SessionInv, HasAccount
  <2>2. \A x \in Browsers : CookieSound(cookie[x])'
    BY <1>b, RisingKeepsCookies DEF SessionInv, CookieSound, HasAccount
  <2>3. ASSUME NEW x \in Browsers PROVE JobSound(job[x])'
    <3>1. /\ job'[x].at = j[x].at /\ job'[x].user = j[x].user /\ job'[x].secret = j[x].secret
          /\ ~job'[x].crossed => /\ ~j[x].crossed
                                 /\ (j[x].user = u /\ j[x].at = "verified") => j[x].secret = p
      BY <1>b, CrossLoginsType
    <3>2. CASE j[x].at = "idle"
      BY <3>1, <3>2 DEF JobSound
    <3>3. CASE j[x].at = "changed" /\ HasAccount(j[x].user)
      <4>1. job'[x].user \in Users
        BY <1>0, <3>1, <3>3 DEF JobsComplete
      <4>2. QED
        BY <1>b, <3>1, <3>3, <4>1 DEF JobSound, Rising, HasAccount
    <3>4. CASE j[x] = job[x]
      <4>1. JobSound(j[x])
        BY <3>4 DEF SessionInv
      <4>2. CASE j[x].at \notin Found
        BY <3>1, <4>2 DEF JobSound
      <4>3. CASE j[x].at \in Found
        <5>1. j[x].user \in Users /\ HasAccount(j[x].user)
          BY <3>4, <4>1, <4>3 DEF JobsComplete, JobSound
        <5>2. account'[j[x].user].role # "none"
          BY <1>b, <5>1 DEF Rising
        <5>3. CASE j[x].user = u
          BY <1>b, <3>1, <5>2, <5>3 DEF JobSound, HasAccount
        <5>4. CASE j[x].user # u
          <6>1. account'[j[x].user] = account[j[x].user]
            BY <1>b, <5>1, <5>4
          <6>2. QED
            BY <3>1, <4>1, <5>2, <6>1 DEF JobSound, HasAccount
        <5>5. QED
          BY <5>3, <5>4
      <4>4. QED
        BY <4>2, <4>3
    <3>5. QED
      BY <1>b, <3>2, <3>3, <3>4
  <2>4. QED
    BY <2>1, <2>2, <2>3 DEF SessionInv, HasAccount
<1>6. ASSUME NEW b \in Browsers, ChangePassword(b) PROVE SessionInv'
  <2> DEFINE u == job[b].user
             p == job[b].next
             j == [job EXCEPT ![b].at = "changed"]
  <2>1. u \in Users /\ p \in Secrets /\ HasAccount(u) /\ FALSE \in BOOLEAN
    BY <1>6 DEF ChangePassword, JobsComplete, Jobs, SessionInv, JobSound
  <2>2. account' = WithSecret(u, p, FALSE) /\ cookie' = cookie /\ job' = CrossLogins(u, p, j)
    BY <1>6 DEF ChangePassword
  <2>3. j \in [Browsers -> Jobs] /\ j[b].at = "changed" /\ j[b].user = u
        /\ \A x \in Browsers \ {b} : j[x] = job[x]
    BY DEF Jobs, Stages
  <2> HIDE DEF u, p, j
  <2>4. /\ account' \in [Users -> Accounts]
        /\ \A w \in Users \ {u} : account'[w] = account[w]
        /\ account'[u].role = account[u].role
        /\ account'[u].secret = p
        /\ account'[u].version = account[u].version + 1
    <3>1. /\ WithSecret(u, p, FALSE) \in [Users -> Accounts]
          /\ \A w \in Users \ {u} : WithSecret(u, p, FALSE)[w] = account[w]
          /\ WithSecret(u, p, FALSE)[u].role = account[u].role
          /\ WithSecret(u, p, FALSE)[u].secret = p
          /\ WithSecret(u, p, FALSE)[u].version = account[u].version + 1
      BY <2>1, WithSecretType, Zenon
    <3>2. QED
      BY <2>2, <3>1, Zenon
  <2>5. Rising
    <3>1. HasAccount(u) => account'[u].role # "none"
      BY <2>4 DEF HasAccount
    <3>2. QED
      BY <2>1, <2>4, <3>1, RowsRise
  <2>6. account'[u].role # "none"
    BY <2>1, <2>4 DEF HasAccount
  <2>7. QED
    BY <1>b, <2>1, <2>2, <2>3, <2>4, <2>5, <2>6
<1>7. ASSUME NEW b \in Browsers, UpdateUser(b) PROVE SessionInv'
  <2> DEFINE u == job[b].user
             j == [job EXCEPT ![b] = Idle]
             p == account'[u].secret
  <2>1. u \in Users
    BY <1>7 DEF UpdateUser, JobsComplete
  <2>2. /\ account' \in [Users -> Accounts]
        /\ \A w \in Users \ {u} : account'[w] = account[w]
        /\ account'[u].role = account[u].role
        /\ account'[u].version = account[u].version + 1
    BY <1>7, UpdateUserType
  <2>3. cookie' = cookie /\ job' = CrossLogins(u, p, j)
    BY <1>7 DEF UpdateUser
  <2>4. j \in [Browsers -> Jobs] /\ j[b].at = "idle" /\ \A x \in Browsers \ {b} : j[x] = job[x]
    BY Defaults DEF Idle
  <2>5. p \in Secrets
    BY <2>1, <2>2 DEF Accounts
  <2> HIDE DEF u, j
  <2>6. Rising
    <3>1. HasAccount(u) => account'[u].role # "none"
      BY <2>2 DEF HasAccount
    <3>2. QED
      BY <2>1, <2>2, <3>1, RowsRise
  <2>7. account'[u].role # "none"
    BY <1>7, <2>2 DEF HasAccount, SessionInv, JobSound, UpdateUser, u
  <2>8. QED
    BY <1>b, <2>1, <2>2, <2>3, <2>4, <2>5, <2>6, <2>7
<1>8. ASSUME NEW b \in Browsers, InsertUser(b) \/ Register(b) PROVE SessionInv'
  <2>1. job[b].user \in Users
    BY <1>8 DEF InsertUser, Register, JobsComplete
  <2>2. /\ \A w \in Users : HasAccount(w) => account'[w] = account[w]
        /\ \A w \in Users : account'[w].active => account'[w].role # "none"
    BY <1>8, <2>1 DEF InsertUser, Register, HasAccount, SessionInv
  <2>3. cookie' = cookie /\ \A x \in Browsers \ {b} : job'[x] = job[x]
    BY <1>8 DEF InsertUser, Register, GiveUp, Advance
  <2>4. \A x \in Browsers : CookieSound(cookie[x])'
    <3>0. \A w \in Users : account[w].version \in Nat
      BY DEF Accounts
    <3>1. Rising
      BY <2>2, <3>0 DEF Rising, HasAccount
    <3>2. QED
      BY <1>0, <2>3, <3>1, RisingKeepsCookies DEF SessionInv, CookieSound, HasAccount
  <2>5. ASSUME NEW x \in Browsers \ {b} PROVE JobSound(job[x])'
    <3>1. JobSound(job[x]) /\ (job[x].at \in Found => job[x].user \in Users)
      BY DEF SessionInv, JobsComplete
    <3>2. QED
      BY <2>2, <2>3, <3>1 DEF JobSound, HasAccount
  <2>6. JobSound(job[b])'
    <3>1. CASE GiveUp(b)
      BY <3>1 DEF GiveUp, JobSound, Idle
    <3>2. CASE /\ Advance(b, "verified") /\ job[b].at = "register"
               /\ account' = [account EXCEPT ![job[b].user] =
                    [role |-> "user", active |-> TRUE, secret |-> job[b].secret, must |-> FALSE, version |-> 1]]
      <4>1. job'[b].at = "verified" /\ job'[b].user = job[b].user /\ job'[b].secret = job[b].secret
        BY <3>2 DEF Advance, Jobs
      <4>2. account'[job[b].user].role = "user" /\ account'[job[b].user].secret = job[b].secret
        BY <2>1, <3>2
      <4>3. QED
        BY <4>1, <4>2 DEF JobSound, HasAccount
    <3>3. QED
      BY <1>8, <3>1, <3>2 DEF InsertUser, Register
  <2>7. QED
    BY <2>2, <2>4, <2>5, <2>6 DEF SessionInv, HasAccount
<1>9. ASSUME NEW u \in Users, NEW role \in ScriptRoles, NEW p \in Secrets, ManageUser(u, role, p)
      PROVE  SessionInv'
  <2>1. /\ account' \in [Users -> Accounts]
        /\ \A w \in Users \ {u} : account'[w] = account[w]
        /\ account'[u].role = role /\ account'[u].secret = p
        /\ account'[u].version = account[u].version + 1
    BY <1>9, ManageUserType
  <2>2. role # "none"
    BY AccountsAssumption
  <2>3. Rising
    BY <2>1, <2>2, RowsRise
  <2>4. cookie' = cookie /\ job' = CrossLogins(u, p, job)
    BY <1>9 DEF ManageUser
  <2>5. QED
    BY <1>b, <2>1, <2>2, <2>3, <2>4
<1>10. CASE UNCHANGED accountVars
  BY <1>10 DEF accountVars, SessionInv, CookieSound, JobSound, HasAccount
<1>11. QED
  BY <1>1, <1>2, <1>3, <1>4, <1>5, <1>6, <1>7, <1>8, <1>9, <1>10 DEF AccountsNext

\* Whatever changes a password (the user, an administrator, the maintenance
\* script) ends the sessions that were got with an older one, except those
\* of a login that had already compared it (lib/auth.ts: sessionVersion).
THEOREM SessionsEndWithPassword == AccountsSpec => []SessionsFollowThePassword
<1>1. TypeInv /\ SessionInv => SessionsFollowThePassword
  BY DEF SessionInv, CookieSound, SessionsFollowThePassword, Authenticated
<1>2. QED
  BY InitTypeInv, StepTypeInv, InitSessionInv, StepSessionInv, <1>1, PTL DEF AccountsSpec

=============================================================================
