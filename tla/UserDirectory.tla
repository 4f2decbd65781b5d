---------------------------- MODULE UserDirectory ----------------------------
(***************************************************************************)
(* UsersService behind its routes: who may administer accounts, and what   *)
(* create, update and remove do to the tables User and UserRole.  As in    *)
(* CashMovements one step is one database statement with the checks up to  *)
(* the next await, and other requests or a restart may come in between.    *)
(*                                                                         *)
(* Both the class and its methods are decorated with PermissionsGuard, so  *)
(* the guard runs twice: user1, roles1, user2, roles2.                     *)
(*                                                                         *)
(* Abstracted: password hashes, the ids of roles, and what the responses   *)
(* say beyond their status.  Role is constant, so reading it is no step.   *)
(***************************************************************************)
EXTENDS Rbac, FiniteSets, Naturals

CONSTANTS
  Accounts,          \* ids of the accounts that may come to exist
  Organizations, Emails, Requests,
  Absent,            \* the row of an id not in use
  Keep,              \* a field the body of an update leaves out
  InitialAccounts,   \* table User at the start
  InitialRoles,      \* table UserRole at the start
  Offered            \* the calls clients make

Account == [organization : Organizations, email : Emails, active : BOOLEAN]

\* A body may not give an empty list (the DTOs): {} stands for a body without
\* roles.  "unknown" is a name that finds no row of its own, because there is
\* no such role or because the name is given twice.
RoleNames == Roles \cup {"unknown"}

Operations == {"createUser", "updateUser", "removeUser", "listUsers", "readUser"}

Calls ==
  [op : Operations, caller : Accounts, target : Accounts,
   email : Emails \cup {Keep}, active : BOOLEAN \cup {Keep},
   roles : SUBSET RoleNames]

\* The seed has put an administrator into the table.
OneEach(table) ==
  \A a, b \in Accounts :
    table[a] # Absent /\ table[b] # Absent /\ table[a].email = table[b].email => a = b

ASSUME DirectoryAssumption ==
  /\ Accounts # {}
  /\ Absent \notin Account
  /\ Keep \notin Emails /\ Keep \notin BOOLEAN
  /\ InitialAccounts \in [Accounts -> Account \cup {Absent}]
  /\ OneEach(InitialAccounts)
  /\ InitialRoles \in [Accounts -> SUBSET Roles]
  /\ \A a \in Accounts : InitialAccounts[a] = Absent <=> InitialRoles[a] = {}
  /\ Offered \subseteq Calls
  /\ \A c \in Offered :
       /\ InitialAccounts[c.caller] # Absent
       /\ c.op = "createUser" => c.email # Keep /\ c.roles # {}

VARIABLES
  accounts,  \* table User
  roles,     \* table UserRole
  pc, call, answer,
  by,        \* history: who changed an account
  admins,    \* history: who ever held ADMIN
  cut        \* history: whose role rewrite a restart cut in two

tables == <<accounts, roles, by, admins, cut>>
vars == <<tables, pc, call, answer>>

Points == {"free", "user1", "roles1", "user2", "roles2", "list", "find",
           "exists", "insert", "target", "admin", "found", "data", "delete",
           "grant", "reread", "deactivate", "answered"}

Answers == {"none", "ok", "unauthorized", "forbidden", "notFound", "error"}

InProgress(r) == pc[r] \notin {"free", "answered"}

NoCall == [op |-> "listUsers", caller |-> CHOOSE a \in Accounts : TRUE,
           target |-> CHOOSE a \in Accounts : TRUE,
           email |-> Keep, active |-> Keep, roles |-> {}]

HoldersOfAdmin(held) == {a \in Accounts : "ADMIN" \in held[a]}

Init ==
  /\ accounts = InitialAccounts
  /\ roles = InitialRoles
  /\ pc = [r \in Requests |-> "free"]
  /\ call = [r \in Requests |-> NoCall]
  /\ answer = [r \in Requests |-> "none"]
  /\ by = [a \in Accounts |-> {}]
  /\ admins = HoldersOfAdmin(InitialRoles)
  /\ cut = {}

-----------------------------------------------------------------------------
GoTo(r, point) == pc' = [pc EXCEPT ![r] = point] /\ UNCHANGED <<answer, call>>

Answer(r, a) ==
  /\ pc' = [pc EXCEPT ![r] = "answered"]
  /\ answer' = [answer EXCEPT ![r] = a]
  /\ UNCHANGED call

\* Bound: a create is only sent while an id is left for it.
Unused == {a \in Accounts : accounts[a] = Absent}
Creating == {r \in Requests : InProgress(r) /\ call[r].op = "createUser"}

\* GET /users/:id demands nothing, both guards let it pass.
Submit(r, c) ==
  /\ ~InProgress(r)
  /\ c.op = "createUser" => Cardinality(Unused) > Cardinality(Creating)
  /\ pc' = [pc EXCEPT ![r] = IF c.op = "readUser" THEN "find" ELSE "user1"]
  /\ call' = [call EXCEPT ![r] = c]
  /\ answer' = [answer EXCEPT ![r] = "none"]
  /\ UNCHANGED tables

GuardUser(r) ==
  /\ pc[r] \in {"user1", "user2"}
  /\ IF accounts[call[r].caller].active
     THEN GoTo(r, IF pc[r] = "user1" THEN "roles1" ELSE "roles2")
     ELSE Answer(r, "unauthorized")
  /\ UNCHANGED tables

FirstPoint ==
  [listUsers |-> "list", createUser |-> "exists", updateUser |-> "target",
   removeUser |-> "target"]

GuardRoles(r) ==
  /\ pc[r] \in {"roles1", "roles2"}
  /\ IF Admits(call[r].op, roles[call[r].caller])
     THEN GoTo(r, IF pc[r] = "roles1" THEN "user2" ELSE FirstPoint[call[r].op])
     ELSE Answer(r, "forbidden")
  /\ UNCHANGED tables

List(r) == pc[r] = "list" /\ Answer(r, "ok") /\ UNCHANGED tables

-----------------------------------------------------------------------------
\* The organization of the caller's token: accounts keep theirs.
CallerOrg(r) == accounts[call[r].caller].organization

InAnyOrganization(r, a) == accounts[a] # Absent

\* withOrganizationScope(organizationId, {id}).
InOrganization(r, a) ==
  accounts[a] # Absent /\ accounts[a].organization = CallerOrg(r)

\* A findFirst that answers 404 or goes on: findById, then the target read of
\* assertCanAccessUser, and the second read of update and remove.
FindFirst(r, point, next) ==
  /\ pc[r] = point
  /\ IF InOrganization(r, call[r].target)
     THEN GoTo(r, next) ELSE Answer(r, "notFound")
  /\ UNCHANGED tables

\* assertCanAccessUser, after the target read: an administrator, or oneself.
CheckAccess(r) ==
  /\ pc[r] = "admin"
  /\ LET allowed == "ADMIN" \in roles[call[r].caller]
                    \/ call[r].target = call[r].caller
     IN \/ ~allowed /\ Answer(r, "forbidden")
        \/ allowed /\ call[r].op = "readUser" /\ Answer(r, "ok")
        \/ allowed /\ call[r].op # "readUser" /\ GoTo(r, "found")
  /\ UNCHANGED tables

\* findUnique by e-mail.
Taken(email) == \E a \in Accounts : accounts[a] # Absent /\ accounts[a].email = email

NoIndex(a, email) == FALSE

\* The unique index on User.email: has a row other than that of a the e-mail?
Clash(a, email) ==
  \E b \in Accounts \ {a} : accounts[b] # Absent /\ accounts[b].email = email

\* dbRoles.length against roles.length: has every name given a row of its own?
AnyNames(c) == TRUE
AllKnown(c) == c.roles \subseteq Roles

Known(c) == c.roles \cap Roles

Changed(r, a) == by' = [by EXCEPT ![a] = @ \cup {call[r].caller}]

-----------------------------------------------------------------------------
\* create: the e-mail is looked up, the roles are; then one nested insert.
CheckNew(r) ==
  /\ pc[r] = "exists"
  /\ IF Taken(call[r].email) \/ ~AllKnown(call[r])
     THEN Answer(r, "forbidden") ELSE GoTo(r, "insert")
  /\ UNCHANGED tables

\* The index may refuse what the lookup let pass; nothing maps that error.
Insert(r) ==
  /\ pc[r] = "insert"
  /\ \E a \in Unused :
       \/ /\ Clash(a, call[r].email)
          /\ Answer(r, "error")
          /\ UNCHANGED tables
       \/ /\ ~Clash(a, call[r].email)
          /\ accounts' = [accounts EXCEPT ![a] =
               [organization |-> CallerOrg(r), email |-> call[r].email,
                active |-> TRUE]]
          /\ roles' = [roles EXCEPT ![a] = Known(call[r])]
          /\ Changed(r, a)
          /\ admins' = admins \cup HoldersOfAdmin(roles')
          /\ Answer(r, "ok")
          /\ UNCHANGED cut

-----------------------------------------------------------------------------
\* update, first the fields of User, if the body has any ...
HasData(c) == c.email # Keep \/ c.active # Keep

EmailClash(c) == c.email # Keep /\ Clash(c.target, c.email)

WithData(row, email, active) ==
  [organization |-> row.organization,
   email |-> IF email = Keep THEN row.email ELSE email,
   active |-> IF active = Keep THEN row.active ELSE active]

\* ... and then, in the same stretch, what the body says about roles.
AfterData(r) ==
  \/ call[r].roles = {} /\ GoTo(r, "reread")
  \/ call[r].roles # {} /\ AllKnown(call[r]) /\ GoTo(r, "delete")
  \/ call[r].roles # {} /\ ~AllKnown(call[r]) /\ Answer(r, "forbidden")

UpdateData(r) ==
  /\ pc[r] = "data"
  /\ LET c == call[r]
     IN \/ /\ EmailClash(c)
           /\ Answer(r, "error")
           /\ UNCHANGED tables
        \/ /\ HasData(c) /\ ~EmailClash(c)
           /\ accounts' = [accounts EXCEPT ![c.target] = WithData(@, c.email, c.active)]
           /\ Changed(r, c.target)
           /\ AfterData(r)
           /\ UNCHANGED <<roles, admins, cut>>
        \/ /\ ~HasData(c)
           /\ AfterData(r)
           /\ UNCHANGED tables

Remaining(r) == {}

\* userRole.deleteMany, of every role.
DeleteRoles(r) ==
  /\ pc[r] = "delete"
  /\ roles' = [roles EXCEPT ![call[r].target] = Remaining(r)]
  /\ Changed(r, call[r].target)
  /\ GoTo(r, "grant")
  /\ UNCHANGED <<accounts, admins, cut>>

\* userRole.createMany: one insert, refused as a whole by the primary key if
\* another update has granted one of these roles since the delete.
GrantRoles(r) ==
  /\ pc[r] = "grant"
  /\ LET a == call[r].target
         granted == Known(call[r])
     IN \/ /\ roles[a] \cap granted # {}
           /\ Answer(r, "error")
           /\ UNCHANGED tables
        \/ /\ roles[a] \cap granted = {}
           /\ roles' = [roles EXCEPT ![a] = @ \cup granted]
           /\ admins' = admins \cup HoldersOfAdmin(roles')
           /\ GoTo(r, "reread")
           /\ UNCHANGED <<accounts, by, cut>>

\* The findUnique the response is built from.
Reread(r) == pc[r] = "reread" /\ Answer(r, "ok") /\ UNCHANGED tables

\* remove.
Deactivate(r) ==
  /\ pc[r] = "deactivate"
  /\ accounts' = [accounts EXCEPT ![call[r].target] =
       WithData(@, Keep, FALSE)]
  /\ Changed(r, call[r].target)
  /\ Answer(r, "ok")
  /\ UNCHANGED <<roles, admins, cut>>

Step(r) ==
  \/ GuardUser(r) \/ GuardRoles(r) \/ List(r)
  \/ FindFirst(r, "find", "target") \/ FindFirst(r, "target", "admin")
  \/ CheckAccess(r)
  \/ FindFirst(r, "found",
       IF call[r].op = "removeUser" THEN "deactivate" ELSE "data")
  \/ CheckNew(r) \/ Insert(r)
  \/ UpdateData(r) \/ DeleteRoles(r) \/ GrantRoles(r) \/ Reread(r)
  \/ Deactivate(r)

\* The process stops; an update between its two statements is cut.
Restart ==
  /\ \E r \in Requests : InProgress(r)
  /\ pc' = [r \in Requests |-> IF InProgress(r) THEN "free" ELSE pc[r]]
  /\ cut' = cut \cup {call[r].target : r \in {q \in Requests : pc[q] = "grant"}}
  /\ UNCHANGED <<accounts, roles, by, admins, call, answer>>

Next ==
  \/ \E r \in Requests : Step(r) \/ \E c \in Offered : Submit(r, c)
  \/ Restart

Spec == Init /\ [][Next]_vars

-----------------------------------------------------------------------------
\* Properties.

\* Every variable keeps to its domain: in particular the ids in use are those
\* with a complete row, only roles of the table Role are granted, and an e-mail
\* names one account although a create looks for it two statements before the
\* insert and an update never does.
DirectoryTypeOK ==
  /\ accounts \in [Accounts -> Account \cup {Absent}]
  /\ OneEach(accounts)
  /\ roles \in [Accounts -> SUBSET Roles]
  /\ \A a \in Unused : roles[a] = {} /\ by[a] = {}
  /\ pc \in [Requests -> Points]
  /\ call \in [Requests -> Calls]
  /\ answer \in [Requests -> Answers]
  /\ by \in [Accounts -> SUBSET Accounts]
  /\ admins \subseteq Accounts /\ cut \subseteq Accounts

\* Accounts are administered from within: whoever changed an account belongs
\* to its organization and has held ADMIN, although the guard and the service
\* read the caller's roles long before they write.
ChangedByAdmins ==
  \A a \in Accounts : \A c \in by[a] :
    /\ accounts[c].organization = accounts[a].organization
    /\ c \in admins

\* Is the account's set of roles being rewritten?
Rewriting(a) ==
  \E r \in Requests : call[r].target = a /\ pc[r] \in {"delete", "grant"}

\* "User must have at least one role": however updates overlap, whichever of
\* them the primary key refuses, and halfway through which an unknown role
\* ends it, an account at rest has one, unless a restart came between the two
\* statements of a rewrite.
RolelessOnlyIfCut ==
  \A a \in Accounts :
    accounts[a] # Absent /\ ~Rewriting(a) /\ a \notin cut => roles[a] # {}
=============================================================================
