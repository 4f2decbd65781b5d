--------------------------- MODULE RequestPipeline ---------------------------
(***************************************************************************)
(* The way of a request through NestJS as main.ts, app.module.ts and the   *)
(* decorators of the controllers lay it out:                               *)
(*                                                                         *)
(*   unsent -> guards -> pipe -> handler -> returned -> answered           *)
(*               |        \------------------^             ^               *)
(*               \-----------------------------------------/               *)
(*                                                                         *)
(* The guards run one after another, the global one first.  Only behind    *)
(* them are the interceptors, around the pipe and the handler: they see    *)
(* what these end with ("returned"), count it and have it audited, and     *)
(* then the response is sent.  The audit statement is not awaited: it is   *)
(* on its way when the request is answered, and if it fails, the rejection *)
(* nobody handles stops the process.                                       *)
(*                                                                         *)
(* The handlers of branches and organizations are those of                 *)
(* OrganizationDirectory; of refresh and logout only the outcome is here,  *)
(* AuthSessions has the rest; "metrics" stands for /health too.  Every     *)
(* request is sent once; a client that tries again is another request.     *)
(*                                                                         *)
(* Abstracted: bodies beyond their validity, headers, durations, what a    *)
(* read returns, the texts of logs.  Roles do not change here; that they   *)
(* do is in CashMovements and UserDirectory.                               *)
(***************************************************************************)
EXTENDS OrganizationDirectory, Rbac, Sequences, FiniteSets

CONSTANTS
  Users, NoUser, NoEntry,
  UserOrg,        \* claim organizationId, and column of User
  UserRoles,      \* table UserRole
  Administered,   \* users who are deactivated and activated again
  Offered         \* the calls clients make

Creating == {"createBranch", "createOrganization"}
Listing  == {"listBranches", "listOrganizations"}
Ops      == Creating \cup Listing \cup {"refresh", "logout", "ready", "metrics"}

Method ==
  [op \in Ops |-> IF op \in Creating \cup {"refresh", "logout"} THEN "POST" ELSE "GET"]

\* @Public.
Public == {"refresh", "ready", "metrics"}

\* The global guard, then those of the controller and the method.  The global
\* one stands a second time on the controllers of both directories, followed
\* by PermissionsGuard with its two reads.
Guards ==
  [op \in Ops |->
     CASE op \in {"ready", "metrics"}  -> <<"jwt">>
       [] op \in {"refresh", "logout"} -> <<"jwt", "csrf", "limit">>
       [] op \in Creating \cup Listing ->
            <<"jwt", "jwt">> \o (IF Unrestricted(op) THEN <<>> ELSE <<"user", "roles">>)]

\* token: with claims, from the time before there were claims, or unusable.
\* csrf: how the header compares with the cookie.
Calls ==
  [op : Ops, user : Users \cup {NoUser}, token : {"claims", "legacy", "unusable"},
   csrf : {"same", "other", "missing"}, valid : BOOLEAN, text : Texts]

Statuses == {200, 201, 400, 401, 403, 409, 429, 500, 503}

Entry == [actor : Users \cup {NoUser}, op : Ops, status : Statuses]

ASSUME PipelineAssumption ==
  /\ UserOrg \in [Users -> Organizations]
  /\ UserRoles \in [Users -> SUBSET Roles]
  /\ Administered \subseteq Users
  /\ IsFiniteSet(Requests)
  /\ Offered \subseteq Calls /\ Offered # {}
  /\ \A c \in Offered : c.op \notin Public /\ c.token # "unusable" => c.user # NoUser
  /\ NoEntry \notin Entry
  /\ NoUser \notin Users

VARIABLES
  active,     \* User.isActive
  pc, call,
  passed,     \* how many of its guards a request has passed
  outcome,    \* what pipe or handler ended with
  answer,     \* the response: status and code
  pending,    \* the audit statement on its way
  auditLog,   \* table AuditLog: the entries of each request
  totals,     \* httpRequestTotals
  stopped,    \* history: has the process been stopped?
  dropped     \* history: whose audit statement was lost with it

vars == <<directory, active, pc, call, passed, outcome, answer, pending, auditLog,
          totals, stopped, dropped>>

trail == <<pending, auditLog, totals, stopped, dropped>>

Points == {"unsent", "guards", "pipe", "handler", "returned", "answered", "lost"}

InProgress(r) == pc[r] \in {"guards", "pipe", "handler", "returned"}

NoAnswer == [status |-> 0, code |-> NoCode]
NoCall == CHOOSE c \in Offered : TRUE

Labels == Ops \X Statuses

PipelineInit ==
  /\ DirectoryInit
  /\ active = [u \in Users |-> TRUE]
  /\ pc = [r \in Requests |-> "unsent"]
  /\ call = [r \in Requests |-> NoCall]
  /\ passed = [r \in Requests |-> 0]
  /\ outcome = [r \in Requests |-> Value]
  /\ answer = [r \in Requests |-> NoAnswer]
  /\ pending = [r \in Requests |-> NoEntry]
  /\ auditLog = [r \in Requests |-> <<>>]
  /\ totals = [label \in Labels |-> 0]
  /\ stopped = FALSE
  /\ dropped = {}

-----------------------------------------------------------------------------
\* As in the other modules, an uncommented definition that precedes its namesake
\* is a plausible mistake some property has to notice; nothing uses it.

Mutating(r) == Method[call[r].op] = "POST"

Send(r, c) ==
  /\ pc[r] = "unsent"
  /\ pc' = [pc EXCEPT ![r] = "guards"]
  /\ call' = [call EXCEPT ![r] = c]
  /\ UNCHANGED <<directory, active, passed, outcome, answer, trail>>

\* The response of the exception filter, or the value's.
Answer(r, o) ==
  /\ pc' = [pc EXCEPT ![r] = "answered"]
  /\ answer' = [answer EXCEPT ![r] = Response(o, Method[call[r].op])]

\* May the guard admit, may it refuse?  What RateLimitGuard does depends on
\* the requests before; RateLimit has it.  The legacy token is checked against
\* the user's row, by each of the two guards that verify it.
Admitted(r, guard) ==
  LET c == call[r]
  IN CASE guard = "jwt"   -> \/ c.op \in Public
                             \/ c.token = "claims"
                             \/ c.token = "legacy" /\ active[c.user]
       [] guard = "csrf"  -> c.csrf = "same"
       [] guard = "limit" -> TRUE
       [] guard = "user"  -> active[c.user]
       [] guard = "roles" -> Admits(c.op, UserRoles[c.user])

MayRefuse(r, guard) == guard = "limit" \/ ~Admitted(r, guard)

Refusal(r, guard) ==
  LET c == call[r]
  IN CASE guard = "jwt"   -> Exception(401, IF c.token = "legacy"
                                            THEN "AUTH_USER_INACTIVE" ELSE NoCode)
       [] guard = "csrf"  -> Exception(403, IF c.csrf = "missing"
                                            THEN "AUTH_CSRF_TOKEN_MISSING"
                                            ELSE "AUTH_CSRF_TOKEN_INVALID")
       [] guard = "limit" -> Exception(429, "RATE_LIMIT_EXCEEDED")
       [] guard = "user"  -> Exception(401, "AUTH_USER_INACTIVE")
       [] guard = "roles" -> Exception(403, RefusalCode(c.op, UserRoles[c.user]))

\* Does the guard ask the database?
ReadsUser(r, guard) ==
  LET c == call[r]
  IN \/ guard \in {"user", "roles"}
     \/ guard = "jwt" /\ c.op \notin Public /\ c.token = "legacy"

\* The guard whose turn it is; a refusal goes to the filter directly, and so
\* does a read that fails.
Guard(r) ==
  /\ pc[r] = "guards"
  /\ LET guards == Guards[call[r].op]
         guard == guards[passed[r] + 1]
     IN \/ /\ Admitted(r, guard)
           /\ passed' = [passed EXCEPT ![r] = @ + 1]
           /\ pc' = [pc EXCEPT ![r] =
                       IF passed[r] + 1 = Len(guards) THEN "pipe" ELSE "guards"]
           /\ UNCHANGED answer
        \/ /\ \/ MayRefuse(r, guard) /\ Answer(r, Refusal(r, guard))
              \/ ReadsUser(r, guard) /\ Answer(r, Failure)
           /\ UNCHANGED passed
  /\ UNCHANGED <<directory, active, call, outcome, trail>>

Return(r, o) ==
  /\ pc' = [pc EXCEPT ![r] = "returned"]
  /\ outcome' = [outcome EXCEPT ![r] = o]

\* ValidationPipe; only the creates have a body.
Validate(r) ==
  /\ pc[r] = "pipe"
  /\ \/ /\ call[r].op \in Creating => call[r].valid
        /\ pc' = [pc EXCEPT ![r] = "handler"] /\ UNCHANGED outcome
     \/ call[r].op \in Creating /\ ~call[r].valid /\ Return(r, Exception(400, NoCode))
  /\ UNCHANGED <<directory, active, call, passed, answer, trail>>

-----------------------------------------------------------------------------
\* The handlers.

Create(r) ==
  \E o \in {Value, BranchExists, OrganizationExists} :
    /\ CASE call[r].op = "createBranch" ->
              CreateBranch(r, UserOrg[call[r].user], call[r].text, o)
         [] call[r].op = "createOrganization" ->
              CreateOrganization(r, call[r].text, o)
    \* A statement whose acknowledgement is lost has taken effect and fails.
    /\ Return(r, o) \/ (o = Value /\ Return(r, Failure))

\* Reads, the health checks, and the outcomes of AuthService that matter here.
Read(r) ==
  /\ \/ Return(r, Value)
     \/ call[r].op = "refresh" /\ Return(r, Exception(401, "AUTH_INVALID_CREDENTIALS"))
  /\ UNCHANGED directory

\* The database refuses to work: getReadiness makes a 503 of it, nobody else
\* anything.  /metrics and /health do not ask it.
Break(r) ==
  /\ call[r].op # "metrics"
  /\ Return(r, IF call[r].op = "ready" THEN Exception(503, "DB_UNAVAILABLE") ELSE Failure)
  /\ UNCHANGED directory

Handle(r) ==
  /\ pc[r] = "handler"
  /\ \/ call[r].op \in Creating /\ Create(r)
     \/ call[r].op \notin Creating /\ Read(r)
     \/ Break(r)
  /\ UNCHANGED <<active, call, passed, answer, trail>>

-----------------------------------------------------------------------------
\* What the interceptors do with the outcome.

\* actorUserId was taken from req.user, which a public route does not have.
Actor(r) == IF call[r].op \in Public THEN NoUser ELSE call[r].user

NewEntry(r) ==
  [actor |-> Actor(r), op |-> call[r].op,
   status |-> AuditStatus(outcome[r], Method[call[r].op])]

AuditedOnSuccess(r) == Mutating(r) /\ ~IsError(outcome[r])

\* shouldLog; value and error alike.
Audited(r) == Mutating(r)

CountedOnSuccess(r) ==
  LET label == <<call[r].op, LoggedStatus(outcome[r], Method[call[r].op])>>
  IN IF IsError(outcome[r]) THEN totals ELSE [totals EXCEPT ![label] = @ + 1]

\* recordHttpRequest, after a value and after an error.
Counted(r) ==
  LET label == <<call[r].op, LoggedStatus(outcome[r], Method[call[r].op])>>
  IN [totals EXCEPT ![label] = @ + 1]

\* The statement or the pipe is done: audit (inner), metrics (outer), response.
Settle(r) ==
  /\ pc[r] = "returned"
  /\ pending' = [pending EXCEPT ![r] = IF Audited(r) THEN NewEntry(r) ELSE NoEntry]
  /\ totals' = Counted(r)
  /\ Answer(r, outcome[r])
  /\ UNCHANGED <<directory, active, call, passed, outcome, auditLog, stopped, dropped>>

\* AuditService.log.
WriteAudit(r) ==
  /\ pending[r] # NoEntry
  /\ auditLog' = [auditLog EXCEPT ![r] = Append(@, pending[r])]
  /\ pending' = [pending EXCEPT ![r] = NoEntry]
  /\ UNCHANGED <<directory, active, pc, call, passed, outcome, answer, totals,
                 stopped, dropped>>

\* The process ends and a new one starts: without counters, and without the
\* requests and the audit statements that were on their way.
Stop ==
  /\ pc' = [r \in Requests |-> IF InProgress(r) THEN "lost" ELSE pc[r]]
  /\ pending' = [r \in Requests |-> NoEntry]
  /\ dropped' = dropped \cup {r \in Requests : pending[r] # NoEntry}
  /\ totals' = [label \in Labels |-> 0]
  /\ stopped' = TRUE
  /\ UNCHANGED <<directory, active, call, passed, outcome, answer, auditLog>>

\* The insert of the entry fails: an unhandled rejection.
AuditFails(r) == pending[r] # NoEntry /\ Stop

Restart == (\E r \in Requests : InProgress(r)) /\ Stop

SetActive(u) ==
  /\ active' = [active EXCEPT ![u] = ~@]
  /\ UNCHANGED <<directory, pc, call, passed, outcome, answer, trail>>

Step(r) == Guard(r) \/ Validate(r) \/ Handle(r) \/ Settle(r)
Audit(r) == WriteAudit(r) \/ AuditFails(r)

PipelineNext ==
  \/ \E r \in Requests : Step(r) \/ Audit(r) \/ \E c \in Offered : Send(r, c)
  \/ \E u \in Administered : SetActive(u)
  \/ Restart

PipelineSpec == PipelineInit /\ [][PipelineNext]_vars

-----------------------------------------------------------------------------
\* Properties.

\* Did the request get past its guards, and to an answer?
Handled(r) == pc[r] = "answered" /\ passed[r] = Len(Guards[call[r].op])

\* Every variable keeps to its domain: in particular each outcome has a status
\* of its own in the audit log, in the counters and in the answer.
PipelineTypeOK ==
  /\ branches \subseteq BranchRow
  /\ organizations \subseteq OrganizationRow
  /\ active \in [Users -> BOOLEAN]
  /\ pc \in [Requests -> Points]
  /\ call \in [Requests -> Calls]
  /\ \A r \in Requests : passed[r] \in 0 .. Len(Guards[call[r].op])
  /\ \A r \in Requests : pc[r] = "answered" => answer[r].status \in Statuses
  /\ pending \in [Requests -> Entry \cup {NoEntry}]
  /\ \A r \in Requests : \A i \in DOMAIN auditLog[r] : auditLog[r][i] \in Entry
  /\ \A label \in Labels : totals[label] \in 0 .. Cardinality(Requests)
  /\ stopped \in BOOLEAN
  /\ dropped \subseteq Requests

\* What the audit log has, or is about to have, of a request.
Recorded(r) ==
  {auditLog[r][i] : i \in DOMAIN auditLog[r]} \cup ({pending[r]} \ {NoEntry})

\* The audit log tells the truth although it is written after the fact and
\* works the status out by itself: an entry has the status the client got and,
\* for a creation, names an administrator; a creation it shows as done is in
\* the table, one it shows as refused is not.
TrailIsTrue ==
  \A r \in Requests : \A e \in Recorded(r) :
    /\ e.status = answer[r].status
    /\ call[r].op \in Creating => e.actor # NoUser /\ "ADMIN" \in UserRoles[e.actor]
    /\ call[r].op \in Creating /\ e.status = 201 => HasCreated(r)
    /\ e.status \in {400, 409} => ~HasCreated(r)

\* A mutating request that was answered from behind the guards, by whatever,
\* has one entry, now or soon, unless the process stopped under the statement;
\* every other request has none.
TrailIsComplete ==
  \A r \in Requests :
    Len(auditLog[r]) + Cardinality({pending[r]} \ {NoEntry}) + Cardinality({r} \cap dropped)
      = IF Handled(r) /\ Mutating(r) THEN 1 ELSE 0

\* The counters are the answers given from behind the guards, label by label;
\* after a restart they only lag behind.
CountersMatch ==
  \A label \in Labels :
    LET given == {r \in Requests : Handled(r) /\ <<call[r].op, answer[r].status>> = label}
    IN /\ totals[label] <= Cardinality(given)
       /\ ~stopped => totals[label] = Cardinality(given)

\* Texts that differ only in white space do not make two branches of one
\* organization, nor texts of one slug two organizations, whatever races or is
\* tried again; who is told of a conflict lost against another request or
\* against what was there before.
NamesStayApart ==
  /\ \A r, s \in Requests : r # s /\ HasCreated(r) /\ HasCreated(s) =>
       /\ call[r].op = "createBranch" /\ call[s].op = "createBranch"
          /\ UserOrg[call[r].user] = UserOrg[call[s].user]
            => Trimmed[call[r].text] # Trimmed[call[s].text]
       /\ call[r].op = "createOrganization" /\ call[s].op = "createOrganization"
            => Slugged[call[r].text] # Slugged[call[s].text]
  /\ \A r \in Requests :
       /\ answer[r].code = "BRANCH_ALREADY_EXISTS" =>
            \E row \in branches :
              /\ row.by # r
              /\ row.organization = UserOrg[call[r].user]
              /\ row.name = Trimmed[call[r].text]
       /\ answer[r].code = "ORGANIZATION_SLUG_ALREADY_EXISTS" =>
            \E row \in organizations : row.by # r /\ row.slug = Slugged[call[r].text]
=============================================================================
