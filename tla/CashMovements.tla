---------------------------- MODULE CashMovements ----------------------------
(***************************************************************************)
(* The cash movement routes, POST /cash-movements to PATCH .../deliver,    *)
(* as the Node process runs them: each request is a chain of awaits, one   *)
(* database statement each, and between two awaits of one request any      *)
(* other request, an administrator editing users, or a restart may come.   *)
(*                                                                         *)
(* The program points of a request:                                        *)
(*   free -> guard -> roles -> service -> branch -> insert | query         *)
(*                      |          \------------------------> query        *)
(*                      \-> load -> write                                  *)
(* and "answered" from any of them.  The access token has been verified    *)
(* when a request starts; its claims are UserOrg and UserBranch.           *)
(*                                                                         *)
(* Abstracted: amount, type, description and the timestamps of a movement, *)
(* and the status and date filters of the listing, which only narrow it.   *)
(***************************************************************************)
EXTENDS Rbac, FiniteSets, Naturals

CONSTANTS
  Users, Organizations, Branches,
  Movements,            \* ids of the rows that may come to exist
  Requests,             \* slots for the requests in progress
  NoBranch, NoUser, NoMovement, NoRow,
  UserOrg,              \* claim organizationId
  UserBranch,           \* claim branchId, NoBranch when the user has none
  BranchOrg,            \* Branch.organizationId
  InitialRoles,         \* table UserRole at the start
  Grants,               \* <<user, roles>> an administrator may grant
  Offered               \* the calls clients make

Decisions == {"approve", "reject", "deliver"}

Calls ==
  [op : {"create", "list"}, user : Users, movement : {NoMovement},
   branch : Branches \cup {NoBranch}]
  \cup
  [op : Decisions, user : Users, movement : Movements, branch : {NoBranch}]

Statuses == {"PENDING", "APPROVED", "REJECTED", "DELIVERED"}

\* A row of CashMovement.
Row == [organization : Organizations, branch : Branches, createdBy : Users,
        status : Statuses, approvedBy : Users \cup {NoUser}]

ASSUME SentinelsAssumption ==
  /\ NoBranch \notin Branches
  /\ NoUser \notin Users
  /\ NoMovement \notin Movements
  /\ NoRow \notin Row

\* The database lets a user sit in a branch of another organization: the two
\* foreign keys of User are independent.  So UserBranch and UserOrg are too.
ASSUME DirectoryAssumption ==
  /\ Users # {}
  /\ UserOrg \in [Users -> Organizations]
  /\ UserBranch \in [Users -> Branches \cup {NoBranch}]
  /\ BranchOrg \in [Branches -> Organizations]
  /\ InitialRoles \in [Users -> SUBSET Roles]
  /\ Grants \subseteq Users \X SUBSET Roles
  /\ Offered \subseteq Calls

ASSUME FiniteAssumption == IsFiniteSet(Movements) /\ IsFiniteSet(Requests)

VARIABLES
  movements,   \* table CashMovement
  roles,       \* table UserRole
  active,      \* User.isActive
  pc,          \* program point of each request
  call,        \* what each request asks
  scope,       \* branchId chosen by the service
  asOperator,  \* isOperator, as the service read it
  seen,        \* the row findFirst returned
  listed,      \* the ids findMany returned
  answer,      \* the response
  decided      \* history: who brought a movement to which status

vars == <<movements, roles, active, pc, call, scope, asOperator, seen, listed,
          answer, decided>>

tables   == <<movements, roles, active, decided>>
locals   == <<call, scope, asOperator, seen, listed>>

Answers == {"none", "ok", "unauthorized", "forbidden", "notFound", "conflict"}

Points == {"free", "guard", "roles", "service", "branch", "insert", "query",
           "load", "write", "answered"}

InProgress(r) == pc[r] \notin {"free", "answered"}

NoCall == [op |-> "list", user |-> CHOOSE u \in Users : TRUE,
           movement |-> NoMovement, branch |-> NoBranch]

Init ==
  /\ movements = [m \in Movements |-> NoRow]
  /\ roles = InitialRoles
  /\ active = [u \in Users |-> TRUE]
  /\ pc = [r \in Requests |-> "free"]
  /\ call = [r \in Requests |-> NoCall]
  /\ scope = [r \in Requests |-> NoBranch]
  /\ asOperator = [r \in Requests |-> FALSE]
  /\ seen = [r \in Requests |-> NoRow]
  /\ listed = [r \in Requests |-> {}]
  /\ answer = [r \in Requests |-> "none"]
  /\ decided = [m \in Movements |-> {}]

-----------------------------------------------------------------------------
\* Steps of a request.  GoTo resumes it at its next await, Answer ends it.
\* Where a definition is preceded by an uncommented variant of itself, the
\* variant is a plausible mistake some property has to notice; nothing uses it.

GoTo(r, point) ==
  /\ pc' = [pc EXCEPT ![r] = point]
  /\ UNCHANGED answer

Answer(r, a) ==
  /\ pc' = [pc EXCEPT ![r] = "answered"]
  /\ answer' = [answer EXCEPT ![r] = a]

\* Bound: a create is only sent while a row id is left for it.
Unused == {m \in Movements : movements[m] = NoRow}
Creating == {r \in Requests : InProgress(r) /\ call[r].op = "create"}

Submit(r, c) ==
  /\ ~InProgress(r)
  /\ c.op = "create" => Cardinality(Unused) > Cardinality(Creating)
  /\ pc' = [pc EXCEPT ![r] = "guard"]
  /\ call' = [call EXCEPT ![r] = c]
  /\ scope' = [scope EXCEPT ![r] = NoBranch]
  /\ asOperator' = [asOperator EXCEPT ![r] = FALSE]
  /\ seen' = [seen EXCEPT ![r] = NoRow]
  /\ listed' = [listed EXCEPT ![r] = {}]
  /\ answer' = [answer EXCEPT ![r] = "none"]
  /\ UNCHANGED tables

\* PermissionsGuard, first read: is the user active?
GuardUser(r) ==
  /\ pc[r] = "guard"
  /\ \/ active[call[r].user] /\ GoTo(r, "roles")
     \/ ~active[call[r].user] /\ Answer(r, "unauthorized")
  /\ UNCHANGED <<tables, locals>>

\* PermissionsGuard, second read: roles and permissions.  A decision goes
\* on to load its movement, create and list read the roles again.
GuardRoles(r) ==
  /\ pc[r] = "roles"
  /\ LET held == roles[call[r].user]
         op == call[r].op
     IN \/ Admits(op, held) /\ op \in Decisions /\ GoTo(r, "load")
        \/ Admits(op, held) /\ op \notin Decisions /\ GoTo(r, "service")
        \/ ~Admits(op, held) /\ Answer(r, "forbidden")
  /\ UNCHANGED <<tables, locals>>

\* The branch of a create: an operator's own, otherwise the one asked for or
\* else the user's own.
CreateBranch(c, isOperator) ==
  IF ~isOperator /\ c.branch # NoBranch THEN c.branch ELSE UserBranch[c.user]

\* The branch filter of a listing: an operator's own branch, otherwise the one
\* asked for, if any.
ListBranchAsked(c, isOperator) == c.branch

ListBranch(c, isOperator) == IF isOperator THEN UserBranch[c.user] ELSE c.branch

\* getUserRoles, then the choice of the branch.
ReadRolesToCreate(r) ==
  /\ pc[r] = "service"
  /\ call[r].op = "create"
  /\ LET isOperator == "OPERATOR" \in roles[call[r].user]
         branch == CreateBranch(call[r], isOperator)
     IN /\ asOperator' = [asOperator EXCEPT ![r] = isOperator]
        /\ scope' = [scope EXCEPT ![r] = branch]
        /\ \/ branch = NoBranch /\ Answer(r, "forbidden")
           \/ branch # NoBranch /\ GoTo(r, "branch")
  /\ UNCHANGED <<tables, call, seen, listed>>

\* An operator needs a branch and may ask for no other; a branch anyone else
\* asks for is checked first.
ReadRolesToList(r) ==
  /\ pc[r] = "service"
  /\ call[r].op = "list"
  /\ LET isOperator == "OPERATOR" \in roles[call[r].user]
         home == UserBranch[call[r].user]
         asked == call[r].branch
     IN /\ asOperator' = [asOperator EXCEPT ![r] = isOperator]
        /\ scope' = [scope EXCEPT ![r] = ListBranch(call[r], isOperator)]
        /\ \/ isOperator /\ home # NoBranch /\ asked \in {NoBranch, home}
              /\ GoTo(r, "query")
           \/ isOperator /\ (home = NoBranch \/ asked \notin {NoBranch, home})
              /\ Answer(r, "forbidden")
           \/ ~isOperator /\ asked = NoBranch /\ GoTo(r, "query")
           \/ ~isOperator /\ asked # NoBranch /\ GoTo(r, "branch")
  /\ UNCHANGED <<tables, call, seen, listed>>

\* assertBranchInOrganization.
CheckBranch(r) ==
  /\ pc[r] = "branch"
  /\ IF BranchOrg[scope[r]] = UserOrg[call[r].user]
     THEN GoTo(r, IF call[r].op = "create" THEN "insert" ELSE "query")
     ELSE Answer(r, "notFound")
  /\ UNCHANGED <<tables, locals>>

NewRowAsAsked(r) ==
  [organization |-> UserOrg[call[r].user], branch |-> call[r].branch,
   createdBy |-> call[r].user, status |-> "PENDING", approvedBy |-> NoUser]

NewRow(r) ==
  [organization |-> UserOrg[call[r].user], branch |-> scope[r],
   createdBy |-> call[r].user, status |-> "PENDING", approvedBy |-> NoUser]

\* cashMovement.create.
Insert(r) ==
  /\ pc[r] = "insert"
  /\ \E m \in Unused : movements' = [movements EXCEPT ![m] = NewRow(r)]
  /\ Answer(r, "ok")
  /\ UNCHANGED <<roles, active, decided, locals>>

\* withOrganizationScope, and where.branchId when it was set.
InScope(r, row) ==
  /\ row.organization = UserOrg[call[r].user]
  /\ scope[r] \in {NoBranch, row.branch}

Query(r) ==
  /\ pc[r] = "query"
  /\ listed' = [listed EXCEPT ![r] =
       {m \in Movements : movements[m] # NoRow /\ InScope(r, movements[m])}]
  /\ Answer(r, "ok")
  /\ UNCHANGED <<tables, call, scope, asOperator, seen>>

RequestedReopening ==
  [approve |-> "APPROVED", reject |-> "PENDING", deliver |-> "DELIVERED"]
ExpectedCopied ==
  [approve |-> "PENDING", reject |-> "PENDING", deliver |-> "PENDING"]

\* The status a decision asks for, and the one it must find.
Requested ==
  [approve |-> "APPROVED", reject |-> "REJECTED", deliver |-> "DELIVERED"]
Expected ==
  [approve |-> "PENDING", reject |-> "PENDING", deliver |-> "APPROVED"]

FoundById(r, row) == row # NoRow
Found(r, row) == row # NoRow /\ row.organization = UserOrg[call[r].user]

\* findFirst of updateStatus and of deliver, with the checks that follow it.
Load(r) ==
  /\ pc[r] = "load"
  /\ LET row == movements[call[r].movement]
         found == Found(r, row)
     IN \/ ~found /\ Answer(r, "notFound") /\ UNCHANGED seen
        \/ found /\ row.status # Expected[call[r].op]
           /\ Answer(r, "conflict") /\ UNCHANGED seen
        \/ found /\ row.status = Expected[call[r].op]
           /\ GoTo(r, "write") /\ seen' = [seen EXCEPT ![r] = row]
  /\ UNCHANGED <<tables, call, scope, asOperator, listed>>

ApproverIsCaller(r) == call[r].user

\* The approver a decision stores: deliver keeps the one it read, if any.
Approver(r) ==
  IF call[r].op = "deliver" /\ seen[r].approvedBy # NoUser
  THEN seen[r].approvedBy ELSE call[r].user

Updated(r) ==
  [movements[call[r].movement] EXCEPT !.status = Requested[call[r].op],
                                      !.approvedBy = Approver(r)]

\* cashMovement.update: by id alone, whatever the row has become.
Write(r) ==
  /\ pc[r] = "write"
  /\ LET m == call[r].movement
         status == Requested[call[r].op]
     IN /\ movements' = [movements EXCEPT ![m] = Updated(r)]
        /\ decided' = [decided EXCEPT ![m] = @ \cup {<<call[r].user, status>>}]
  /\ Answer(r, "ok")
  /\ UNCHANGED <<roles, active, locals>>

Step(r) ==
  \/ GuardUser(r) \/ GuardRoles(r)
  \/ ReadRolesToCreate(r) \/ ReadRolesToList(r) \/ CheckBranch(r)
  \/ Insert(r) \/ Query(r)
  \/ Load(r) \/ Write(r)

-----------------------------------------------------------------------------
\* What happens around the requests.

\* The two statements by which UsersService.update replaces a user's roles.
DeleteRoles(u) ==
  /\ roles[u] # {}
  /\ roles' = [roles EXCEPT ![u] = {}]
  /\ UNCHANGED <<movements, active, pc, locals, answer, decided>>

GrantRoles(u, granted) ==
  /\ roles[u] \cap granted = {}
  /\ roles' = [roles EXCEPT ![u] = @ \cup granted]
  /\ UNCHANGED <<movements, active, pc, locals, answer, decided>>

\* UsersService.remove, and update with isActive.
SetActive(u, value) ==
  /\ active[u] # value
  /\ active' = [active EXCEPT ![u] = value]
  /\ UNCHANGED <<movements, roles, pc, locals, answer, decided>>

\* The process stops: the requests in progress are lost, the tables stay.
Restart ==
  /\ \E r \in Requests : InProgress(r)
  /\ pc' = [r \in Requests |-> IF InProgress(r) THEN "free" ELSE pc[r]]
  /\ UNCHANGED <<tables, locals, answer>>

Administration ==
  \/ \E u \in {g[1] : g \in Grants} :
       DeleteRoles(u) \/ \E value \in BOOLEAN : SetActive(u, value)
  \/ \E g \in Grants : GrantRoles(g[1], g[2])

Next ==
  \/ \E r \in Requests : Step(r) \/ \E c \in Offered : Submit(r, c)
  \/ Administration
  \/ Restart

\* The event loop resumes every request whose statement has returned; nothing
\* makes a client call, an administrator act or the process stop.
Fairness == \A r \in Requests : WF_vars(Step(r))

Spec == Init /\ [][Next]_vars /\ Fairness

-----------------------------------------------------------------------------
\* Properties.

\* Every variable keeps to its domain, every row that is stored is a complete
\* Row: in particular a create reaches the table with a branch, whichever of
\* the three ways of choosing one was taken (create, lines 29-38).
TypeOK ==
  /\ movements \in [Movements -> Row \cup {NoRow}]
  /\ roles \in [Users -> SUBSET Roles]
  /\ active \in [Users -> BOOLEAN]
  /\ pc \in [Requests -> Points]
  /\ call \in [Requests -> Calls]
  /\ scope \in [Requests -> Branches \cup {NoBranch}]
  /\ asOperator \in [Requests -> BOOLEAN]
  /\ seen \in [Requests -> Row \cup {NoRow}]
  /\ listed \in [Requests -> SUBSET Movements]
  /\ answer \in [Requests -> Answers]
  /\ decided \in [Movements -> SUBSET (Users \X Statuses)]

\* Tenancy: a row, its branch, its creator and everyone who ever decided on
\* it belong to one organization, although only the row's own organization
\* is compared and the update is by id alone.
RowsInTenant ==
  \A m \in Movements : movements[m] # NoRow =>
    LET org == movements[m].organization
    IN /\ BranchOrg[movements[m].branch] = org
       /\ UserOrg[movements[m].createdBy] = org
       /\ \A d \in decided[m] : UserOrg[d[1]] = org

\* The audit trail in the row is true, even after stale writes: approvedBy is
\* a user who brought the movement to the status it shows, for a delivered
\* one a user who approved it, and delivery was always preceded by approval.
ApproverIsDecider ==
  \A m \in Movements : movements[m] # NoRow =>
    LET row == movements[m]
    IN /\ row.status = "PENDING" => row.approvedBy = NoUser /\ decided[m] = {}
       /\ row.status \in {"APPROVED", "REJECTED"}
            => <<row.approvedBy, row.status>> \in decided[m]
       /\ row.status = "DELIVERED"
            => /\ <<row.approvedBy, "APPROVED">> \in decided[m]
               /\ \E u \in Users : <<u, "DELIVERED">> \in decided[m]

\* Roles a user holds at the start or may be granted.
EverHeld(u) == InitialRoles[u] \cup UNION {g[2] : g \in {h \in Grants : h[1] = u}}

\* Separation of duties over a whole history of role rewrites: who never
\* holds MANAGER or ADMIN decides on no movement, who never holds OPERATOR or
\* ADMIN creates none.  The guard reads the roles long before the write.
SeparationOfDuties ==
  \A m \in Movements : movements[m] # NoRow =>
    /\ EverHeld(movements[m].createdBy) \cap {"OPERATOR", "ADMIN"} # {}
    /\ \A d \in decided[m] : EverHeld(d[1]) \cap {"MANAGER", "ADMIN"} # {}

\* A listing shows only rows of the caller's organization, of the branch asked
\* for, and of the caller's own branch if the service took it for an operator;
\* also after the rows and the caller's roles have changed since.
ListedInScope ==
  \A r \in Requests : \A m \in listed[r] :
    /\ movements[m] # NoRow
    /\ movements[m].organization = UserOrg[call[r].user]
    /\ call[r].branch \in {NoBranch, movements[m].branch}
    /\ asOperator[r] => movements[m].branch = UserBranch[call[r].user]

\* No step removes a row, moves it to another organization, branch or
\* creator, or makes a decided movement pending again.
FactsFrozen ==
  [][\A m \in Movements : movements[m] # NoRow =>
       /\ movements'[m] # NoRow
       /\ movements'[m].organization = movements[m].organization
       /\ movements'[m].branch = movements[m].branch
       /\ movements'[m].createdBy = movements[m].createdBy
       /\ movements'[m].status = "PENDING" => movements[m].status = "PENDING"]_vars

\* "Only pending movements can be approved or rejected".
OnlyPendingIsDecided ==
  [][\A m \in Movements : movements'[m] # movements[m] =>
       \/ movements[m] = NoRow
       \/ movements'[m].status \in {"APPROVED", "REJECTED"}
            => movements[m].status = "PENDING"]_vars

\* One request at a time, a single slot, implements the life cycle.
Lifecycle ==
  INSTANCE MovementLifecycle WITH
    status <- [m \in Movements |->
                 IF movements[m] = NoRow THEN "ABSENT" ELSE movements[m].status]

LifecycleSpec == Lifecycle!Spec
=============================================================================
