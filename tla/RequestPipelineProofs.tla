------------------------ MODULE RequestPipelineProofs ------------------------
(***************************************************************************)
(* Theorems about RequestPipeline, for any number of requests, whoever     *)
(* sends what, and however the texts of names are converted.               *)
(***************************************************************************)
EXTENDS RequestPipeline, FiniteSetTheorems, SequenceTheorems, TLAPS

(***************************************************************************)
(* What the guards, the statuses and the codes can be.  The definitions of *)
(* these tables are expanded here and nowhere else.                        *)
(***************************************************************************)
Methods == {"GET", "POST"}
Conflicts == {"BRANCH_ALREADY_EXISTS", "ORGANIZATION_SLUG_ALREADY_EXISTS"}
Invalid == Exception(400, NoCode)

\* What the pipe and the handlers end with.
Outcomes ==
  {Value, Failure, Invalid, BranchExists, OrganizationExists,
   Exception(401, "AUTH_INVALID_CREDENTIALS"), Exception(503, "DB_UNAVAILABLE")}

\* The outcomes of requests that did not put in a row.
Fruitless == {Invalid, BranchExists, OrganizationExists}

LEMMA OpsAndMethods ==
  /\ Creating \subseteq Ops
  /\ \A op \in Creating : Method[op] = "POST" /\ op \notin Public
  /\ \A op \in Ops : Method[op] \in Methods
<1>1. Creating \subseteq Ops
  BY DEF Ops
<1>2. \A op \in Creating : Method[op] = "POST" /\ op \notin Public
  BY <1>1 DEF Method, Creating, Public
<1>3. \A op \in Ops : Method[op] \in Methods
  BY DEF Method, Methods
<1> QED
  BY <1>1, <1>2, <1>3

LEMMA WhatIsUnrestricted ==
  /\ Unrestricted("listOrganizations")
  /\ ~Unrestricted("listBranches")
  /\ ~Unrestricted("createBranch") /\ ~Unrestricted("createOrganization")
BY DEF Unrestricted, RequiredRoles, RequiredPermissions

\* Nobody comes past the guards of a route without passing the first one; the
\* last one of a creation asks for a role.
LEMMA GuardLists ==
  /\ \A op \in Ops : /\ Guards[op] \in Seq({"jwt", "csrf", "limit", "user", "roles"})
                     /\ Len(Guards[op]) > 0 /\ Guards[op][1] = "jwt"
  /\ \A op \in Creating : Len(Guards[op]) = 4 /\ Guards[op][4] = "roles"
<1> DEFINE G == {"jwt", "csrf", "limit", "user", "roles"}
           Fits(list) == list \in Seq(G) /\ Len(list) > 0 /\ list[1] = "jwt"
           one == <<"jwt">>
           two == <<"jwt", "jwt">>
           three == <<"jwt", "csrf", "limit">>
           rest == <<"user", "roles">>
           four == two \o rest
<1>1. Fits(one) /\ Fits(two) /\ Fits(three)
  OBVIOUS
<1>2. Fits(four) /\ Len(four) = 4 /\ four[4] = "roles"
  <2>1. two \in Seq(G) /\ Len(two) = 2 /\ two[1] = "jwt"
    OBVIOUS
  <2>2. rest \in Seq(G) /\ Len(rest) = 2 /\ rest[2] = "roles"
    OBVIOUS
  <2> HIDE DEF two, rest
  <2>3. /\ four \in Seq(G) /\ Len(four) = Len(two) + Len(rest)
        /\ \A i \in 1 .. Len(two) + Len(rest) :
             four[i] = IF i <= Len(two) THEN two[i] ELSE rest[i - Len(two)]
    BY <2>1, <2>2, ConcatProperties
  <2> HIDE DEF four
  <2> QED
    BY <2>1, <2>2, <2>3
<1>3. /\ \A op \in {"ready", "metrics"} : Guards[op] = one
      /\ \A op \in {"refresh", "logout"} : Guards[op] = three
  BY DEF Guards, Ops, Creating, Listing
<1>4. \A op \in Creating \cup Listing :
        Guards[op] = two \o (IF Unrestricted(op) THEN <<>> ELSE rest)
  BY DEF Guards, Ops, Creating, Listing
<1>5. two \o <<>> = two
  OBVIOUS
<1> HIDE DEF one, two, three, rest, Fits
<1>6. \A op \in Creating \cup {"listBranches"} : Guards[op] = four
  BY <1>4, WhatIsUnrestricted DEF Creating, Listing
<1> HIDE DEF four
<1>7. Guards["listOrganizations"] = two
  BY <1>4, <1>5, WhatIsUnrestricted DEF Listing
<1>8. ASSUME NEW op \in Ops
      PROVE  Fits(Guards[op])
  BY <1>1, <1>2, <1>3, <1>6, <1>7 DEF Ops, Listing
<1>9. \A op \in Creating : Len(Guards[op]) = 4 /\ Guards[op][4] = "roles"
  BY <1>2, <1>6
<1> QED
  BY <1>8, <1>9 DEF Fits

\* What becomes of an exception, whichever it is.
LEMMA ExceptionTable ==
  ASSUME NEW status, NEW code, NEW m
  PROVE  /\ Response(Exception(status, code), m).status = status
         /\ Response(Exception(status, code), m).code =
              IF code # NoCode THEN code ELSE MapStatusCode(status)
         /\ AuditStatus(Exception(status, code), m) = status
         /\ LoggedStatus(Exception(status, code), m) = status
<1> DEFINE e == Exception(status, code)
<1>1. /\ e.kind = "http" /\ e.status = status /\ e.code = code
      /\ "status" \in DOMAIN e /\ IsError(e)
  BY DEF Exception, IsError
<1> HIDE DEF e
<1>2. Response(e, m) =
        [status |-> status, code |-> IF code # NoCode THEN code ELSE MapStatusCode(status)]
  BY <1>1 DEF Response
<1>3. AuditStatus(e, m) = status
  BY <1>1 DEF AuditStatus
<1>4. LoggedStatus(e, m) = status
  BY <1>1 DEF LoggedStatus
<1> QED
  BY <1>2, <1>3, <1>4 DEF e

LEMMA CodesOfStatuses == \A status \in Nat : MapStatusCode(status) \notin Conflicts
BY DEF MapStatusCode, Conflicts

\* The three places that look at an outcome agree about it; a creation is told
\* 201 when it ended with a value and of a conflict when it ended with one.
LEMMA OutcomeTable ==
  ASSUME NEW o \in Outcomes, NEW m \in Methods
  PROVE  /\ Response(o, m).status \in Statuses
         /\ AuditStatus(o, m) = Response(o, m).status
         /\ LoggedStatus(o, m) = Response(o, m).status
         /\ m = "POST" /\ Response(o, m).status = 201 => o = Value
         /\ Response(o, m).status \in {400, 409} => o \in Fruitless
         /\ Response(o, m).code = "BRANCH_ALREADY_EXISTS" => o = BranchExists
         /\ Response(o, m).code = "ORGANIZATION_SLUG_ALREADY_EXISTS" => o = OrganizationExists
<1> USE DEF Statuses, Fruitless, Conflicts
<1>1. CASE o = Value
  <2>1. o.kind = "value" /\ ~IsError(o)
    BY <1>1 DEF Value, IsError
  <2>2. Response(o, m) = [status |-> Declared(m), code |-> NoCode]
    BY <2>1 DEF Response
  <2>3. AuditStatus(o, m) = Declared(m) /\ LoggedStatus(o, m) = Declared(m)
    BY <2>1 DEF AuditStatus, LoggedStatus
  <2>4. Declared(m) \in {200, 201}
    BY DEF Declared
  <2> QED
    BY <1>1, <2>2, <2>3, <2>4 DEF NoCode
<1>2. CASE o = Failure
  <2>1. o.kind = "error" /\ IsError(o) /\ "status" \notin DOMAIN o
    BY <1>2 DEF Failure, IsError
  <2>2. Response(o, m) = [status |-> 500, code |-> "INTERNAL_SERVER_ERROR"]
    BY <2>1 DEF Response
  <2>3. AuditStatus(o, m) = 500 /\ LoggedStatus(o, m) = 500
    BY <2>1 DEF AuditStatus, LoggedStatus
  <2> QED
    BY <1>2, <2>2, <2>3
<1>3. CASE o = Invalid
  BY <1>3, ExceptionTable, CodesOfStatuses DEF Invalid, NoCode
<1>4. CASE o = BranchExists
  BY <1>4, ExceptionTable DEF BranchExists, NoCode
<1>5. CASE o = OrganizationExists
  BY <1>5, ExceptionTable DEF OrganizationExists, NoCode
<1>6. CASE o = Exception(401, "AUTH_INVALID_CREDENTIALS")
  BY <1>6, ExceptionTable DEF NoCode
<1>7. CASE o = Exception(503, "DB_UNAVAILABLE")
  BY <1>7, ExceptionTable DEF NoCode
<1> QED
  BY <1>1, <1>2, <1>3, <1>4, <1>5, <1>6, <1>7 DEF Outcomes

LEMMA OutcomesDiffer ==
  /\ Value \notin Fruitless /\ Failure \notin Fruitless
  /\ Value # BranchExists /\ Value # OrganizationExists /\ BranchExists # OrganizationExists
  /\ Value # Failure
BY DEF Fruitless, Value, Failure, Invalid, BranchExists, OrganizationExists, Exception, NoCode

\* No guard refuses with the code of a conflict.
LEMMA RefusalTable ==
  ASSUME NEW r \in Requests, NEW m \in Methods,
         NEW guard \in {"jwt", "csrf", "limit", "user", "roles"}
  PROVE  LET a == Response(Refusal(r, guard), m)
         IN a.status \in Statuses /\ a.code \notin Conflicts
<1> USE DEF Statuses, Conflicts
<1>1. RefusalCode(call[r].op, UserRoles[call[r].user]) \in
          {"AUTH_USER_HAS_NO_ROLES", "AUTH_MISSING_REQUIRED_ROLE",
           "AUTH_MISSING_REQUIRED_PERMISSION"}
  BY DEF RefusalCode
<1>2. PICK status \in {401, 403, 429} :
        \E code : code \notin Conflicts /\ Refusal(r, guard) = Exception(status, code)
  <2>1. CASE guard = "jwt"
    BY <2>1 DEF Refusal, NoCode
  <2>2. CASE guard = "csrf"
    BY <2>2 DEF Refusal, NoCode
  <2>3. CASE guard = "limit"
    BY <2>3 DEF Refusal
  <2>4. CASE guard = "user"
    BY <2>4 DEF Refusal
  <2>5. CASE guard = "roles"
    BY <1>1, <2>5 DEF Refusal
  <2> QED
    BY <2>1, <2>2, <2>3, <2>4, <2>5
<1> QED
  BY <1>2, ExceptionTable, CodesOfStatuses

\* Who may create is an administrator.
LEMMA CreatingNeedsAdmin ==
  ASSUME NEW op \in Creating, NEW held, Admits(op, held)
  PROVE  "ADMIN" \in held
BY DEF Admits, HoldsRequiredRole, RequiredRoles, Creating

(***************************************************************************)
(* The inductive invariant.  A request is described by what it knows at    *)
(* its point of the way, the tables by whose rows they hold.               *)
(***************************************************************************)
DomainsOK ==
  /\ branches \subseteq BranchRow
  /\ organizations \subseteq OrganizationRow
  /\ active \in [Users -> BOOLEAN]
  /\ pc \in [Requests -> Points]
  /\ call \in [Requests -> Offered]
  /\ passed \in [Requests -> Nat]
  /\ outcome \in [Requests -> Outcomes]
  /\ DOMAIN answer = Requests
  /\ pending \in [Requests -> Entry \cup {NoEntry}]
  /\ auditLog \in [Requests -> Seq(Entry)]
  /\ totals \in [Labels -> Nat]
  /\ stopped \in BOOLEAN
  /\ dropped \subseteq Requests

AllPassed(r) == passed[r] = Len(Guards[call[r].op])

\* How many guards a request has passed where it is, and what this says of
\* who sent it.
Progress(r) ==
  /\ passed[r] <= Len(Guards[call[r].op])
  /\ pc[r] = "unsent" => passed[r] = 0
  /\ pc[r] = "guards" => ~AllPassed(r)
  /\ pc[r] \in {"pipe", "handler", "returned"} => AllPassed(r)
  /\ passed[r] > 0 /\ call[r].op \notin Public => call[r].user \in Users
  /\ call[r].op \in Creating /\ AllPassed(r) => "ADMIN" \in UserRoles[call[r].user]

\* The row that stood in the way of a creation.
BranchInTheWay(r) ==
  \E row \in branches :
    /\ row.by # r
    /\ row.organization = UserOrg[call[r].user]
    /\ row.name = Trimmed[call[r].text]

SlugInTheWay(r) == \E row \in organizations : row.by # r /\ row.slug = Slugged[call[r].text]

\* What the outcome of a request says of the tables.
Truthful(r) ==
  /\ pc[r] \in {"unsent", "guards", "pipe", "handler"} => outcome[r] = Value /\ ~HasCreated(r)
  /\ outcome[r] \in Fruitless => ~HasCreated(r)
  /\ call[r].op \in Creating /\ outcome[r] = Value /\ (pc[r] = "returned" \/ Handled(r)) =>
       HasCreated(r)
  /\ outcome[r] = BranchExists => BranchInTheWay(r)
  /\ outcome[r] = OrganizationExists => SlugInTheWay(r)

\* The answer is the outcome's, or the refusal of a guard.
Replied(r) ==
  /\ Handled(r) => answer[r] = Response(outcome[r], Method[call[r].op])
  /\ ~Handled(r) => answer[r].code \notin Conflicts
  /\ pc[r] = "answered" => answer[r].status \in Statuses

\* Of a request that changes something and came to an answer there is one entry,
\* on its way, in the table, or lost; of every other there is none.
Trailed(r) ==
  IF Handled(r) /\ Mutating(r)
  THEN \/ pending[r] = NewEntry(r) /\ auditLog[r] = <<>> /\ r \notin dropped
       \/ pending[r] = NoEntry /\ auditLog[r] = <<NewEntry(r)>> /\ r \notin dropped
       \/ pending[r] = NoEntry /\ auditLog[r] = <<>> /\ r \in dropped
  ELSE pending[r] = NoEntry /\ auditLog[r] = <<>> /\ r \notin dropped

\* A row is the one its request asked for.
BranchesFit ==
  \A row \in branches :
    /\ row.by \in Requests /\ call[row.by].op = "createBranch"
    /\ row.organization = UserOrg[call[row.by].user] /\ row.name = Trimmed[call[row.by].text]

OrganizationsFit ==
  \A row \in organizations :
    row.by \in Requests => /\ call[row.by].op = "createOrganization"
                           /\ row.slug = Slugged[call[row.by].text]

\* The unique indexes.
BranchesDiffer ==
  \A row, other \in branches :
    row.organization = other.organization /\ row.name = other.name => row = other

OrganizationsDiffer ==
  \A row, other \in organizations : row.slug = other.slug => row = other

Tables == BranchesFit /\ OrganizationsFit /\ BranchesDiffer /\ OrganizationsDiffer

RequestsInv == \A r \in Requests : Progress(r) /\ Truthful(r) /\ Replied(r) /\ Trailed(r)

IInv == DomainsOK /\ RequestsInv /\ Tables /\ CountersMatch

-----------------------------------------------------------------------------
(***************************************************************************)
(* The kinds of steps, as far as the invariant tells them apart: the       *)
(* conditions and the case distinctions of the actions are spent here.     *)
(***************************************************************************)
Passes(r) ==
  /\ pc[r] = "guards"
  /\ passed' = [passed EXCEPT ![r] = passed[r] + 1]
  /\ pc' = [pc EXCEPT ![r] =
              IF passed[r] + 1 = Len(Guards[call[r].op]) THEN "pipe" ELSE "guards"]
  /\ call[r].op \notin Public => call[r].user \in Users
  /\ call[r].op \in Creating /\ passed[r] + 1 = Len(Guards[call[r].op]) =>
       "ADMIN" \in UserRoles[call[r].user]
  /\ UNCHANGED <<directory, active, call, outcome, answer, trail>>

Refuses(r) ==
  /\ pc[r] = "guards"
  /\ pc' = [pc EXCEPT ![r] = "answered"]
  /\ DOMAIN answer' = Requests /\ \A s \in Requests \ {r} : answer'[s] = answer[s]
  /\ answer'[r].status \in Statuses /\ answer'[r].code \notin Conflicts
  /\ UNCHANGED <<directory, active, call, passed, outcome, trail>>

Enters(r) ==
  /\ pc[r] = "pipe"
  /\ pc' = [pc EXCEPT ![r] = "handler"]
  /\ UNCHANGED <<directory, active, call, passed, outcome, answer, trail>>

PutsBranch(r) ==
  /\ call[r].op = "createBranch"
  /\ ~NameTaken(UserOrg[call[r].user], call[r].text)
  /\ branches' = branches \cup {[organization |-> UserOrg[call[r].user],
                                 name |-> Trimmed[call[r].text], by |-> r]}
  /\ UNCHANGED organizations

PutsOrganization(r) ==
  /\ call[r].op = "createOrganization"
  /\ ~SlugTaken(call[r].text)
  /\ organizations' = organizations \cup {[slug |-> Slugged[call[r].text], by |-> r]}
  /\ UNCHANGED branches

PutsNothing(r, o) ==
  /\ call[r].op \in Creating => o # Value
  /\ o = BranchExists => BranchInTheWay(r)
  /\ o = OrganizationExists => SlugInTheWay(r)
  /\ UNCHANGED directory

Ends(r, o) ==
  /\ pc[r] \in {"pipe", "handler"}
  /\ pc' = [pc EXCEPT ![r] = "returned"]
  /\ outcome' = [outcome EXCEPT ![r] = o]
  /\ \/ PutsBranch(r) /\ o \in {Value, Failure}
     \/ PutsOrganization(r) /\ o \in {Value, Failure}
     \/ PutsNothing(r, o)
  /\ UNCHANGED <<active, call, passed, answer, trail>>

LEMMA CallsAreTyped ==
  ASSUME DomainsOK, NEW r \in Requests
  PROVE  /\ call[r] \in Calls /\ call[r].op \in Ops /\ call[r].text \in Texts
         /\ call[r].user \in Users \cup {NoUser}
         /\ call[r].op \notin Public /\ call[r].token # "unusable" => call[r].user # NoUser
         /\ Method[call[r].op] \in Methods
<1>1. call[r] \in Offered
  BY DEF DomainsOK
<1>2. call[r] \in Calls
  BY <1>1, PipelineAssumption
<1>3. call[r].op \in Ops /\ call[r].text \in Texts /\ call[r].user \in Users \cup {NoUser}
  BY <1>2 DEF Calls
<1>4. call[r].op \notin Public /\ call[r].token # "unusable" => call[r].user # NoUser
  BY <1>1, PipelineAssumption
<1> QED
  BY <1>2, <1>3, <1>4, OpsAndMethods

LEMMA GuardKinds ==
  ASSUME DomainsOK, NEW r \in Requests, Progress(r), Guard(r)
  PROVE  Passes(r) \/ Refuses(r)
<1> DEFINE op == call[r].op
           guard == Guards[op][passed[r] + 1]
<1>1. op \in Ops /\ Method[op] \in Methods
  BY CallsAreTyped
<1>2. /\ pc[r] = "guards" /\ passed[r] \in Nat /\ Len(Guards[op]) \in Nat
      /\ passed[r] < Len(Guards[op])
  <2>1. Len(Guards[op]) \in Nat
    BY <1>1, GuardLists, LenProperties
  <2> QED
    BY <2>1 DEF Guard, Progress, AllPassed, DomainsOK
<1>3. guard \in {"jwt", "csrf", "limit", "user", "roles"}
  BY <1>1, <1>2, GuardLists, ElementOfSeq
<1>4. CASE /\ Admitted(r, guard)
           /\ passed' = [passed EXCEPT ![r] = @ + 1]
           /\ pc' = [pc EXCEPT ![r] =
                       IF passed[r] + 1 = Len(Guards[op]) THEN "pipe" ELSE "guards"]
           /\ UNCHANGED answer
           /\ UNCHANGED <<directory, active, call, outcome, trail>>
  <2>1. ASSUME op \notin Public  PROVE call[r].user \in Users
    <3>1. CASE passed[r] = 0
      <4>1. guard = "jwt"
        BY <1>1, <3>1, GuardLists
      <4>2. call[r].token # "unusable"
        BY <1>4, <2>1, <4>1 DEF Admitted
      <4> QED
        BY <2>1, <4>2, CallsAreTyped
    <3>2. CASE passed[r] > 0
      BY <2>1, <3>2 DEF Progress
    <3> QED
      BY <1>2, <3>1, <3>2
  <2>2. ASSUME op \in Creating, passed[r] + 1 = Len(Guards[op])
        PROVE  "ADMIN" \in UserRoles[call[r].user]
    <3>1. guard = "roles"
      BY <1>2, <2>2, GuardLists
    <3>2. Admits(op, UserRoles[call[r].user])
      BY <1>4, <3>1 DEF Admitted
    <3> QED
      BY <2>2, <3>2, CreatingNeedsAdmin
  <2> QED
    BY <1>2, <1>4, <2>1, <2>2 DEF Passes
<1>5. ASSUME NEW o, Answer(r, o), o \in {Refusal(r, guard), Failure},
             UNCHANGED passed, UNCHANGED <<directory, active, call, outcome, trail>>
      PROVE  Refuses(r)
  <2>1. /\ Response(o, Method[op]).status \in Statuses
        /\ Response(o, Method[op]).code \notin Conflicts
    <3>1. Failure \in Outcomes \ {BranchExists, OrganizationExists}
      BY DEF Outcomes, Exception, BranchExists, OrganizationExists, Failure
    <3>2. CASE o = Refusal(r, guard)
      BY <1>1, <1>3, <3>2, RefusalTable
    <3>3. CASE o = Failure
      BY <1>1, <3>1, <3>3, OutcomeTable DEF Conflicts
    <3> QED BY <1>5, <3>2, <3>3
  <2>2. /\ DOMAIN answer' = Requests /\ \A s \in Requests \ {r} : answer'[s] = answer[s]
        /\ answer'[r] = Response(o, Method[op])
    BY <1>5 DEF Answer, DomainsOK
  <2>3. pc' = [pc EXCEPT ![r] = "answered"]
    BY <1>5 DEF Answer
  <2> QED
    BY <1>2, <1>5, <2>1, <2>2, <2>3 DEF Refuses
<1> QED
  BY <1>4, <1>5 DEF Guard

LEMMA ValidateKinds ==
  ASSUME DomainsOK, NEW r \in Requests, Validate(r)
  PROVE  Enters(r) \/ \E o \in Outcomes : Ends(r, o)
<1>1. CASE /\ pc' = [pc EXCEPT ![r] = "handler"] /\ UNCHANGED outcome
  BY <1>1 DEF Validate, Enters
<1>2. CASE Return(r, Invalid)
  <2>1. Invalid \in Outcomes /\ Invalid # Value
    BY OutcomesDiffer DEF Outcomes, Fruitless
  <2>2. Invalid # BranchExists /\ Invalid # OrganizationExists
    BY DEF Invalid, BranchExists, OrganizationExists, Exception
  <2>3. PutsNothing(r, Invalid)
    BY <2>1, <2>2 DEF PutsNothing, Validate
  <2> QED
    BY <1>2, <2>1, <2>3 DEF Ends, Return, Validate
<1> QED
  BY <1>1, <1>2 DEF Validate, Invalid

\* Somebody else's row stood in the way: a request that is in its handler has
\* put in none.
LEMMA CreateKinds ==
  ASSUME DomainsOK, NEW r \in Requests, ~HasCreated(r), call[r].op \in Creating,
         pc[r] = "handler", Create(r), UNCHANGED <<active, call, passed, answer, trail>>
  PROVE  \E o \in Outcomes : Ends(r, o)
<1>1. /\ {Value, Failure, BranchExists, OrganizationExists} \subseteq Outcomes
      /\ Value # Failure
  BY OutcomesDiffer DEF Outcomes
<1>2. /\ Value \notin {BranchExists, OrganizationExists}
      /\ BranchExists # OrganizationExists
  BY OutcomesDiffer
<1>3. PICK o \in {Value, BranchExists, OrganizationExists} :
        /\ CASE call[r].op = "createBranch" ->
                  CreateBranch(r, UserOrg[call[r].user], call[r].text, o)
             [] call[r].op = "createOrganization" ->
                  CreateOrganization(r, call[r].text, o)
        /\ Return(r, o) \/ (o = Value /\ Return(r, Failure))
  BY DEF Create
<1>4. CASE call[r].op = "createBranch"
  <2>1. CreateBranch(r, UserOrg[call[r].user], call[r].text, o)
    BY <1>3, <1>4
  <2>2. CASE o = Value /\ PutsBranch(r)
    <3>1. CASE Return(r, o)
      BY <1>1, <2>2, <3>1 DEF Ends, Return
    <3>2. CASE Return(r, Failure)
      BY <1>1, <2>2, <3>2 DEF Ends, Return
    <3> QED
      BY <1>3, <3>1, <3>2
  <2>3. CASE /\ NameTaken(UserOrg[call[r].user], call[r].text)
             /\ o = BranchExists /\ UNCHANGED directory
    <3>1. BranchInTheWay(r)
      BY <2>3 DEF NameTaken, StoredName, BranchInTheWay, HasCreated
    <3>2. PutsNothing(r, o)
      BY <1>2, <2>3, <3>1 DEF PutsNothing
    <3>3. Return(r, o)
      BY <1>2, <1>3, <2>3
    <3> QED
      BY <1>1, <2>3, <3>2, <3>3 DEF Ends, Return
  <2> QED
    BY <1>4, <2>1, <2>2, <2>3 DEF CreateBranch, PutsBranch, StoredName
<1>5. CASE call[r].op = "createOrganization"
  <2>1. CreateOrganization(r, call[r].text, o)
    BY <1>3, <1>5
  <2>2. CASE o = Value /\ PutsOrganization(r)
    <3>1. CASE Return(r, o)
      BY <1>1, <2>2, <3>1 DEF Ends, Return
    <3>2. CASE Return(r, Failure)
      BY <1>1, <2>2, <3>2 DEF Ends, Return
    <3> QED
      BY <1>3, <3>1, <3>2
  <2>3. CASE /\ SlugTaken(call[r].text)
             /\ o = OrganizationExists /\ UNCHANGED directory
    <3>1. SlugInTheWay(r)
      BY <2>3 DEF SlugTaken, StoredSlug, SlugInTheWay, HasCreated
    <3>2. PutsNothing(r, o)
      BY <1>2, <2>3, <3>1 DEF PutsNothing
    <3>3. Return(r, o)
      BY <1>2, <1>3, <2>3
    <3> QED
      BY <1>1, <2>3, <3>2, <3>3 DEF Ends, Return
  <2> QED
    BY <1>5, <2>1, <2>2, <2>3 DEF CreateOrganization, PutsOrganization, StoredSlug
<1> QED
  BY <1>4, <1>5 DEF Creating

LEMMA HandleKinds ==
  ASSUME DomainsOK, NEW r \in Requests, Truthful(r), Handle(r)
  PROVE  \E o \in Outcomes : Ends(r, o)
<1>1. /\ pc[r] = "handler" /\ ~HasCreated(r)
      /\ UNCHANGED <<active, call, passed, answer, trail>>
  BY DEF Handle, Truthful
<1>2. CASE call[r].op \in Creating /\ Create(r)
  BY <1>1, <1>2, CreateKinds
<1>3. ASSUME NEW o \in Outcomes \ {BranchExists, OrganizationExists}, Return(r, o),
             UNCHANGED directory, call[r].op \in Creating => o # Value
      PROVE  Ends(r, o)
  BY <1>1, <1>3 DEF Ends, Return, PutsNothing
<1>4. CASE call[r].op \notin Creating /\ Read(r)
  <2>1. /\ Value \in Outcomes \ {BranchExists, OrganizationExists}
        /\ Exception(401, "AUTH_INVALID_CREDENTIALS")
             \in Outcomes \ {BranchExists, OrganizationExists}
    BY OutcomesDiffer DEF Outcomes, Exception, BranchExists, OrganizationExists
  <2> QED
    BY <1>3, <1>4, <2>1 DEF Read
<1>5. CASE Break(r)
  <2>1. /\ Failure \in Outcomes \ {BranchExists, OrganizationExists} /\ Failure # Value
        /\ Exception(503, "DB_UNAVAILABLE") \in Outcomes \ {BranchExists, OrganizationExists}
        /\ Exception(503, "DB_UNAVAILABLE") # Value
    BY OutcomesDiffer
    DEF Outcomes, Exception, BranchExists, OrganizationExists, Value, Failure
  <2> QED
    BY <1>3, <1>5, <2>1 DEF Break
<1> QED
  BY <1>2, <1>4, <1>5 DEF Handle

\* Every step is of one of these kinds.
LEMMA StepKinds ==
  ASSUME DomainsOK, RequestsInv, [PipelineNext]_vars
  PROVE  \/ \E r \in Requests :
              \/ \E c \in Offered : Send(r, c)
              \/ Passes(r) \/ Refuses(r) \/ Enters(r)
              \/ \E o \in Outcomes : Ends(r, o)
              \/ Settle(r) \/ WriteAudit(r)
         \/ Stop
         \/ /\ active' \in [Users -> BOOLEAN]
            /\ UNCHANGED <<directory, pc, call, passed, outcome, answer, trail>>
<1>1. CASE UNCHANGED vars
  BY <1>1 DEF vars, trail, DomainsOK
<1>2. ASSUME NEW u \in Administered, SetActive(u)
      PROVE  /\ active' \in [Users -> BOOLEAN]
             /\ UNCHANGED <<directory, pc, call, passed, outcome, answer, trail>>
  BY <1>2, PipelineAssumption DEF SetActive, DomainsOK
<1>3. CASE Restart
  BY <1>3 DEF Restart
<1>4. ASSUME NEW r \in Requests, Audit(r)
      PROVE  WriteAudit(r) \/ Stop
  BY <1>4 DEF Audit, AuditFails
<1>5. ASSUME NEW r \in Requests, Step(r)
      PROVE  \/ Passes(r) \/ Refuses(r) \/ Enters(r)
             \/ \E o \in Outcomes : Ends(r, o)
             \/ Settle(r)
  <2>1. Progress(r) /\ Truthful(r)
    BY DEF RequestsInv
  <2> QED
    BY <1>5, <2>1, GuardKinds, ValidateKinds, HandleKinds DEF Step
<1> QED
  BY <1>1, <1>2, <1>3, <1>4, <1>5 DEF PipelineNext

-----------------------------------------------------------------------------
(***************************************************************************)
(* The invariant is kept, part by part and kind by kind.                   *)
(***************************************************************************)
LEMMA EntriesAreTyped ==
  ASSUME DomainsOK, NEW r \in Requests
  PROVE  /\ NewEntry(r) \in Entry
         /\ <<call[r].op, LoggedStatus(outcome[r], Method[call[r].op])>> \in Labels
<1>1. outcome[r] \in Outcomes
  BY DEF DomainsOK
<1>2. /\ AuditStatus(outcome[r], Method[call[r].op]) \in Statuses
      /\ LoggedStatus(outcome[r], Method[call[r].op]) \in Statuses
  BY <1>1, CallsAreTyped, OutcomeTable
<1>3. Actor(r) \in Users \cup {NoUser}
  BY CallsAreTyped DEF Actor
<1> QED
  BY <1>2, <1>3, CallsAreTyped DEF NewEntry, Entry, Labels

LEMMA DomainsKept ==
  ASSUME DomainsOK, RequestsInv, [PipelineNext]_vars
  PROVE  DomainsOK'
<1> USE DEF DomainsOK
<1>1. ASSUME NEW r \in Requests, NEW c \in Offered, Send(r, c)  PROVE DomainsOK'
  BY <1>1 DEF Send, directory, trail, Points
<1>2. ASSUME NEW r \in Requests, Passes(r)  PROVE DomainsOK'
  BY <1>2 DEF Passes, directory, trail, Points
<1>3. ASSUME NEW r \in Requests, Refuses(r)  PROVE DomainsOK'
  BY <1>3 DEF Refuses, directory, trail, Points
<1>4. ASSUME NEW r \in Requests, Enters(r)  PROVE DomainsOK'
  BY <1>4 DEF Enters, directory, trail, Points
<1>5. ASSUME NEW r \in Requests, NEW o \in Outcomes, Ends(r, o)  PROVE DomainsOK'
  <2>1. branches' \subseteq BranchRow /\ organizations' \subseteq OrganizationRow
    <3>1. CASE PutsBranch(r)
      <4>1. call[r].user \in Users
        <5>1. AllPassed(r) /\ Progress(r)
          BY <1>5 DEF Ends, RequestsInv, Progress
        <5>2. call[r].op \in Creating /\ call[r].op \notin Public
          BY <3>1, OpsAndMethods DEF PutsBranch, Creating
        <5>3. passed[r] > 0
          BY <5>1, CallsAreTyped, GuardLists DEF AllPassed
        <5> QED
          BY <5>1, <5>2, <5>3 DEF Progress
      <4>2. /\ UserOrg[call[r].user] \in Organizations
            /\ Trimmed[call[r].text] \in STRING
        BY <4>1, CallsAreTyped, PipelineAssumption, ConversionAssumption
      <4> QED
        BY <3>1, <4>2 DEF PutsBranch, BranchRow
    <3>2. CASE PutsOrganization(r)
      <4>1. Slugged[call[r].text] \in STRING
        BY CallsAreTyped, ConversionAssumption
      <4> QED
        BY <3>2, <4>1 DEF PutsOrganization, OrganizationRow
    <3>3. CASE PutsNothing(r, o)
      BY <3>3 DEF PutsNothing, directory
    <3> QED
      BY <1>5, <3>1, <3>2, <3>3 DEF Ends
  <2> QED
    BY <1>5, <2>1 DEF Ends, trail, Points
<1>6. ASSUME NEW r \in Requests, Settle(r)  PROVE DomainsOK'
  <2>1. NewEntry(r) \in Entry
    BY EntriesAreTyped
  <2>2. totals' \in [Labels -> Nat]
    BY <1>6, EntriesAreTyped DEF Settle, Counted
  <2>3. pending' \in [Requests -> Entry \cup {NoEntry}]
    BY <1>6, <2>1 DEF Settle
  <2>4. DOMAIN answer' = Requests /\ pc' \in [Requests -> Points]
    BY <1>6 DEF Settle, Answer, Points
  <2> QED
    BY <1>6, <2>2, <2>3, <2>4 DEF Settle, directory
<1>7. ASSUME NEW r \in Requests, WriteAudit(r)  PROVE DomainsOK'
  <2>1. pending[r] \in Entry /\ auditLog[r] \in Seq(Entry)
    BY <1>7 DEF WriteAudit
  <2>2. Append(auditLog[r], pending[r]) \in Seq(Entry)
    BY <2>1, AppendProperties
  <2>3. auditLog' \in [Requests -> Seq(Entry)]
    BY <1>7, <2>2 DEF WriteAudit
  <2> QED
    BY <1>7, <2>3 DEF WriteAudit, directory
<1>8. CASE Stop
  BY <1>8 DEF Stop, directory, Points
<1>9. CASE /\ active' \in [Users -> BOOLEAN]
           /\ UNCHANGED <<directory, pc, call, passed, outcome, answer, trail>>
  BY <1>9 DEF directory, trail
<1> QED
  BY <1>1, <1>2, <1>3, <1>4, <1>5, <1>6, <1>7, <1>8, <1>9, StepKinds

LEMMA ProgressKept ==
  ASSUME DomainsOK, RequestsInv, [PipelineNext]_vars, NEW s \in Requests
  PROVE  Progress(s)'
<1> DEFINE guards(r) == Len(Guards[call[r].op])
<1>1. \A r \in Requests : guards(r) \in Nat /\ guards(r) > 0 /\ passed[r] \in Nat
  <2> SUFFICES ASSUME NEW r \in Requests
               PROVE  guards(r) \in Nat /\ guards(r) > 0 /\ passed[r] \in Nat
    OBVIOUS
  <2> QED
    BY CallsAreTyped, GuardLists, LenProperties DEF DomainsOK
<1>2. Progress(s)
  BY DEF RequestsInv
<1> USE DEF Progress, AllPassed, DomainsOK
<1>3. ASSUME NEW r \in Requests, NEW c \in Offered, Send(r, c)  PROVE Progress(s)'
  <2>1. CASE s = r
    <3>1. pc'[s] = "guards" /\ call'[s] = c /\ passed'[s] = 0
      BY <1>2, <1>3, <2>1 DEF Send
    <3>2. Len(Guards[c.op]) \in Nat /\ Len(Guards[c.op]) > 0
      BY GuardLists, LenProperties, PipelineAssumption DEF Calls
    <3> QED
      BY <3>1, <3>2
  <2>2. CASE s # r
    BY <1>2, <1>3, <2>2 DEF Send
  <2> QED
    BY <2>1, <2>2
<1>4. ASSUME NEW r \in Requests, Passes(r)  PROVE Progress(s)'
  <2>1. CASE s = r
    BY <1>1, <1>2, <1>4, <2>1 DEF Passes
  <2>2. CASE s # r
    BY <1>2, <1>4, <2>2 DEF Passes
  <2> QED
    BY <2>1, <2>2
<1>5. ASSUME NEW r \in Requests, Refuses(r)  PROVE Progress(s)'
  BY <1>2, <1>5 DEF Refuses
<1>6. ASSUME NEW r \in Requests, Enters(r)  PROVE Progress(s)'
  BY <1>2, <1>6 DEF Enters
<1>7. ASSUME NEW r \in Requests, NEW o \in Outcomes, Ends(r, o)  PROVE Progress(s)'
  BY <1>2, <1>7 DEF Ends
<1>8. ASSUME NEW r \in Requests, Settle(r)  PROVE Progress(s)'
  BY <1>2, <1>8 DEF Settle, Answer
<1>9. ASSUME NEW r \in Requests, WriteAudit(r)  PROVE Progress(s)'
  BY <1>2, <1>9 DEF WriteAudit
<1>10. CASE Stop
  BY <1>2, <1>10 DEF Stop
<1>11. CASE /\ active' \in [Users -> BOOLEAN]
            /\ UNCHANGED <<directory, pc, call, passed, outcome, answer, trail>>
  BY <1>2, <1>11
<1> QED
  BY <1>3, <1>4, <1>5, <1>6, <1>7, <1>8, <1>9, <1>10, <1>11, StepKinds

\* Which requests have put in a row, after a step that ends a handler.
LEMMA WhoHasCreated ==
  ASSUME DomainsOK, NEW r \in Requests, NEW o \in Outcomes, Ends(r, o)
  PROVE  /\ \A s \in Requests \ {r} : HasCreated(s)' <=> HasCreated(s)
         /\ PutsNothing(r, o) => (HasCreated(r)' <=> HasCreated(r))
         /\ PutsBranch(r) \/ PutsOrganization(r) => HasCreated(r)'
         /\ branches \subseteq branches' /\ organizations \subseteq organizations'
<1>1. ASSUME PutsNothing(r, o)
      PROVE  branches' = branches /\ organizations' = organizations
  BY <1>1 DEF PutsNothing, directory
<1>2. ASSUME PutsNothing(r, o), NEW s
      PROVE  HasCreated(s)' <=> HasCreated(s)
  BY <1>1, <1>2 DEF HasCreated
<1>3. ASSUME PutsBranch(r)
      PROVE  /\ HasCreated(r)'
             /\ branches \subseteq branches' /\ organizations \subseteq organizations'
             /\ \A s \in Requests \ {r} : HasCreated(s)' <=> HasCreated(s)
  <2>1. PICK new : new.by = r /\ branches' = branches \cup {new}
    BY <1>3 DEF PutsBranch
  <2>2. organizations' = organizations
    BY <1>3 DEF PutsBranch
  <2> QED
    BY <2>1, <2>2 DEF HasCreated
<1>4. ASSUME PutsOrganization(r)
      PROVE  /\ HasCreated(r)'
             /\ branches \subseteq branches' /\ organizations \subseteq organizations'
             /\ \A s \in Requests \ {r} : HasCreated(s)' <=> HasCreated(s)
  <2>1. PICK new : new.by = r /\ organizations' = organizations \cup {new}
    BY <1>4 DEF PutsOrganization
  <2>2. branches' = branches
    BY <1>4 DEF PutsOrganization
  <2> QED
    BY <2>1, <2>2 DEF HasCreated
<1> QED
  BY <1>1, <1>2, <1>3, <1>4 DEF Ends

LEMMA TablesKept ==
  ASSUME DomainsOK, RequestsInv, Tables, [PipelineNext]_vars
  PROVE  Tables'
<1> USE DEF Tables, BranchesFit, OrganizationsFit, BranchesDiffer, OrganizationsDiffer
<1>1. ASSUME NEW r \in Requests, NEW c \in Offered, Send(r, c)  PROVE Tables'
  <2>1. ~HasCreated(r)
    BY <1>1 DEF Send, RequestsInv, Truthful
  <2>2. branches' = branches /\ organizations' = organizations
    BY <1>1 DEF Send, directory
  <2>3. \A s \in Requests \ {r} : call'[s] = call[s]
    BY <1>1 DEF Send, DomainsOK
  <2>4. \A row \in branches : row.by # r
    BY <2>1 DEF HasCreated
  <2>5. \A row \in organizations : row.by # r
    BY <2>1 DEF HasCreated
  <2>6. BranchesFit'
    BY <2>2, <2>3, <2>4
  <2>7. OrganizationsFit'
    BY <2>2, <2>3, <2>5
  <2> QED
    BY <2>2, <2>6, <2>7
<1>2. ASSUME NEW r \in Requests, NEW o \in Outcomes, Ends(r, o)  PROVE Tables'
  <2>1. call' = call
    BY <1>2 DEF Ends
  <2>2. CASE PutsBranch(r)
    <3> DEFINE new == [organization |-> UserOrg[call[r].user],
                       name |-> Trimmed[call[r].text], by |-> r]
    <3>1. /\ branches' = branches \cup {new} /\ organizations' = organizations
          /\ call[r].op = "createBranch"
          /\ ~NameTaken(UserOrg[call[r].user], call[r].text)
      BY <2>2 DEF PutsBranch
    <3>2. /\ new.organization = UserOrg[call[r].user]
          /\ new.name = Trimmed[call[r].text] /\ new.by = r
      OBVIOUS
    <3>3. \A row \in branches : ~(row.organization = new.organization /\ row.name = new.name)
      BY <3>1, <3>2 DEF NameTaken, StoredName
    <3> HIDE DEF new
    <3> QED
      BY <2>1, <3>1, <3>2, <3>3
  <2>3. CASE PutsOrganization(r)
    <3> DEFINE new == [slug |-> Slugged[call[r].text], by |-> r]
    <3>1. /\ organizations' = organizations \cup {new} /\ branches' = branches
          /\ call[r].op = "createOrganization" /\ ~SlugTaken(call[r].text)
      BY <2>3 DEF PutsOrganization
    <3>2. new.slug = Slugged[call[r].text] /\ new.by = r
      OBVIOUS
    <3>3. \A row \in organizations : row.slug # new.slug
      BY <3>1, <3>2 DEF SlugTaken, StoredSlug
    <3> HIDE DEF new
    <3> QED
      BY <2>1, <3>1, <3>2, <3>3
  <2>4. CASE PutsNothing(r, o)
    BY <2>1, <2>4 DEF PutsNothing, directory
  <2> QED
    BY <1>2, <2>2, <2>3, <2>4 DEF Ends
<1>3. CASE UNCHANGED <<directory, call>>
  BY <1>3 DEF directory
<1>4. \/ \E r \in Requests : \/ \E c \in Offered : Send(r, c)
                             \/ \E o \in Outcomes : Ends(r, o)
      \/ UNCHANGED <<directory, call>>
  BY StepKinds DEF Passes, Refuses, Enters, Settle, WriteAudit, Stop
<1> QED
  BY <1>1, <1>2, <1>3, <1>4

LEMMA TruthfulKept ==
  ASSUME DomainsOK, RequestsInv, [PipelineNext]_vars, NEW s \in Requests
  PROVE  Truthful(s)'
<1>1. Truthful(s) /\ Progress(s)
  BY DEF RequestsInv
<1> USE DEF Truthful, DomainsOK, Handled
\* A step that leaves the tables, the call and the outcome alone only has to
\* mind where it brings the request.
<1>2. ASSUME UNCHANGED <<directory, outcome>>, call'[s] = call[s],
             pc'[s] \in {"unsent", "guards", "pipe", "handler"} =>
               pc[s] \in {"unsent", "guards", "pipe", "handler"},
             pc'[s] = "returned" \/ Handled(s)' => pc[s] = "returned" \/ Handled(s)
      PROVE  Truthful(s)'
  <2>1. HasCreated(s)' <=> HasCreated(s)
    BY <1>2 DEF HasCreated, directory
  <2>2. BranchInTheWay(s)' <=> BranchInTheWay(s)
    BY <1>2 DEF BranchInTheWay, directory
  <2>3. SlugInTheWay(s)' <=> SlugInTheWay(s)
    BY <1>2 DEF SlugInTheWay, directory
  <2> HIDE DEF Handled
  <2> QED
    BY <1>1, <1>2, <2>1, <2>2, <2>3
<1>3. ASSUME NEW r \in Requests, NEW c \in Offered, Send(r, c)  PROVE Truthful(s)'
  <2>1. CASE s = r
    <3>1. outcome'[s] = Value /\ pc'[s] = "guards" /\ ~HasCreated(s)
      BY <1>1, <1>3, <2>1 DEF Send
    <3>2. ~HasCreated(s)'
      BY <1>3, <3>1 DEF Send, HasCreated, directory
    <3> QED
      BY <3>1, <3>2, OutcomesDiffer
  <2>2. CASE s # r
    BY <1>2, <1>3, <2>2 DEF Send
  <2> QED
    BY <2>1, <2>2
<1>4. ASSUME NEW r \in Requests, Passes(r)  PROVE Truthful(s)'
  BY <1>2, <1>4 DEF Passes
<1>5. ASSUME NEW r \in Requests, Refuses(r)  PROVE Truthful(s)'
  <2>1. s = r => ~AllPassed(s)
    BY <1>1, <1>5 DEF Refuses, Progress
  <2> QED
    BY <1>2, <1>5, <2>1 DEF Refuses, AllPassed
<1>6. ASSUME NEW r \in Requests, Enters(r)  PROVE Truthful(s)'
  BY <1>2, <1>6 DEF Enters
<1>7. ASSUME NEW r \in Requests, NEW o \in Outcomes, Ends(r, o)  PROVE Truthful(s)'
  <2>1. call' = call /\ passed' = passed
    BY <1>7 DEF Ends
  <2>2. /\ BranchInTheWay(s) => BranchInTheWay(s)'
        /\ SlugInTheWay(s) => SlugInTheWay(s)'
    <3>1. branches \subseteq branches' /\ organizations \subseteq organizations'
      BY <1>7, WhoHasCreated
    <3> QED
      BY <2>1, <3>1 DEF BranchInTheWay, SlugInTheWay
  <2>3. CASE s # r
    <3>1. HasCreated(s)' <=> HasCreated(s)
      BY <1>7, <2>3, WhoHasCreated
    <3>2. pc'[s] = pc[s] /\ outcome'[s] = outcome[s]
      BY <1>7, <2>3 DEF Ends
    <3> QED
      BY <1>1, <2>1, <2>2, <3>1, <3>2
  <2>4. CASE s = r
    <3>1. pc'[s] = "returned" /\ outcome'[s] = o /\ ~HasCreated(s)
      BY <1>1, <1>7, <2>4 DEF Ends
    <3>2. CASE (PutsBranch(r) \/ PutsOrganization(r)) /\ o \in {Value, Failure}
      <4>1. HasCreated(s)'
        BY <1>7, <2>4, <3>2, WhoHasCreated
      <4>2. o \notin Fruitless
        BY <3>2, OutcomesDiffer
      <4> QED
        BY <3>1, <4>1, <4>2 DEF Fruitless
    <3>3. CASE PutsNothing(r, o)
      <4>1. ~HasCreated(s)'
        BY <1>7, <2>4, <3>1, <3>3, WhoHasCreated
      <4>2. /\ call[s].op \in Creating => o # Value
            /\ o = BranchExists => BranchInTheWay(s)
            /\ o = OrganizationExists => SlugInTheWay(s)
        BY <2>4, <3>3 DEF PutsNothing
      <4> QED
        BY <2>1, <2>2, <3>1, <4>1, <4>2
    <3> QED
      BY <1>7, <3>2, <3>3 DEF Ends
  <2> QED
    BY <2>3, <2>4
<1>8. ASSUME NEW r \in Requests, Settle(r)  PROVE Truthful(s)'
  BY <1>2, <1>8 DEF Settle, Answer
<1>9. ASSUME NEW r \in Requests, WriteAudit(r)  PROVE Truthful(s)'
  BY <1>2, <1>9 DEF WriteAudit
<1>10. CASE Stop
  BY <1>2, <1>10 DEF Stop
<1>11. CASE /\ active' \in [Users -> BOOLEAN]
            /\ UNCHANGED <<directory, pc, call, passed, outcome, answer, trail>>
  BY <1>2, <1>11
<1> QED
  BY <1>3, <1>4, <1>5, <1>6, <1>7, <1>8, <1>9, <1>10, <1>11, StepKinds

\* A request is handled once, when it settles; from then on its call, its
\* outcome and its answer stay.
StaysHandled(s) ==
  /\ Handled(s)' <=> Handled(s)
  /\ Handled(s) => /\ call'[s] = call[s] /\ outcome'[s] = outcome[s]
                   /\ answer'[s] = answer[s]

LEMMA SettlingHandles ==
  ASSUME DomainsOK, NEW r \in Requests, Progress(r), Settle(r)
  PROVE  /\ ~Handled(r) /\ Handled(r)' /\ call' = call /\ outcome' = outcome
         /\ answer'[r] = Response(outcome[r], Method[call[r].op])
         /\ \A s \in Requests \ {r} : StaysHandled(s) /\ pc'[s] = pc[s] /\ answer'[s] = answer[s]
<1> USE DEF Settle, Answer, Handled, DomainsOK
<1>1. ~Handled(r) /\ Handled(r)' /\ call' = call /\ outcome' = outcome
  BY DEF Progress, AllPassed
<1>2. answer'[r] = Response(outcome[r], Method[call[r].op])
  OBVIOUS
<1>3. \A s \in Requests \ {r} : pc'[s] = pc[s] /\ answer'[s] = answer[s]
  OBVIOUS
<1>4. \A s \in Requests \ {r} : StaysHandled(s)
  BY <1>3 DEF StaysHandled
<1> QED
  BY <1>1, <1>2, <1>3, <1>4

\* What the other steps do to those who are handled, and to the trail.
LEMMA NothingElseHandles ==
  ASSUME DomainsOK, RequestsInv, [PipelineNext]_vars
  PROVE  \/ \E r \in Requests : Settle(r)
         \/ /\ \A s \in Requests : StaysHandled(s)
            /\ \A s \in Requests :
                 \/ UNCHANGED <<pc[s], answer[s]>>
                 \/ pc'[s] # "answered" /\ answer'[s] = answer[s] /\ ~Handled(s)
                 \/ answer'[s].status \in Statuses /\ answer'[s].code \notin Conflicts
            /\ \/ UNCHANGED trail
               \/ \E r \in Requests : WriteAudit(r)
               \/ Stop
<1> DEFINE Quiet(s) == \/ UNCHANGED <<pc[s], answer[s]>>
                       \/ pc'[s] # "answered" /\ answer'[s] = answer[s] /\ ~Handled(s)
                       \/ answer'[s].status \in Statuses /\ answer'[s].code \notin Conflicts
<1>0. \A s \in Requests : Progress(s)
  BY DEF RequestsInv
<1> USE DEF StaysHandled, Handled, DomainsOK
<1>1. ASSUME NEW r \in Requests, NEW c \in Offered, Send(r, c), NEW s \in Requests
      PROVE  StaysHandled(s) /\ Quiet(s)
  BY <1>1 DEF Send
<1>2. ASSUME NEW r \in Requests, Passes(r), NEW s \in Requests
      PROVE  StaysHandled(s) /\ Quiet(s)
  BY <1>2 DEF Passes
<1>3. ASSUME NEW r \in Requests, Refuses(r), NEW s \in Requests
      PROVE  StaysHandled(s) /\ Quiet(s)
  <2>1. CASE s = r
    BY <1>0, <1>3, <2>1 DEF Refuses, Progress, AllPassed
  <2>2. CASE s # r
    BY <1>3, <2>2 DEF Refuses
  <2> QED
    BY <2>1, <2>2
<1>4. ASSUME NEW r \in Requests, Enters(r), NEW s \in Requests
      PROVE  StaysHandled(s) /\ Quiet(s)
  BY <1>4 DEF Enters
<1>5. ASSUME NEW r \in Requests, NEW o \in Outcomes, Ends(r, o), NEW s \in Requests
      PROVE  StaysHandled(s) /\ Quiet(s)
  BY <1>5 DEF Ends
<1>6. ASSUME NEW r \in Requests, WriteAudit(r), NEW s \in Requests
      PROVE  StaysHandled(s) /\ Quiet(s)
  BY <1>6 DEF WriteAudit
<1>7. ASSUME Stop, NEW s \in Requests
      PROVE  StaysHandled(s) /\ Quiet(s)
  <2>1. pc'[s] = IF InProgress(s) THEN "lost" ELSE pc[s]
    BY <1>7 DEF Stop
  <2>2. answer' = answer /\ passed' = passed /\ call' = call /\ outcome' = outcome
    BY <1>7 DEF Stop
  <2> QED
    BY <2>1, <2>2 DEF InProgress
<1>8. ASSUME UNCHANGED <<directory, pc, call, passed, outcome, answer, trail>>,
             NEW s \in Requests
      PROVE  StaysHandled(s) /\ Quiet(s)
  BY <1>8
<1>9. ASSUME NEW r \in Requests,
             \/ \E c \in Offered : Send(r, c)
             \/ Passes(r) \/ Refuses(r) \/ Enters(r)
             \/ \E o \in Outcomes : Ends(r, o)
      PROVE  UNCHANGED trail
  BY <1>9 DEF Send, Passes, Refuses, Enters, Ends
<1> HIDE DEF Quiet, StaysHandled
<1>10. CASE \E r \in Requests : Settle(r)
  BY <1>10
<1>11. CASE Stop
  BY <1>7, <1>11 DEF Quiet
<1>12. CASE UNCHANGED <<directory, pc, call, passed, outcome, answer, trail>>
  BY <1>8, <1>12 DEF Quiet
<1>13. CASE \E r \in Requests :
              \/ \E c \in Offered : Send(r, c)
              \/ Passes(r) \/ Refuses(r) \/ Enters(r)
              \/ \E o \in Outcomes : Ends(r, o)
  <2>1. PICK r \in Requests : 
              \/ \E c \in Offered : Send(r, c)
              \/ Passes(r) \/ Refuses(r) \/ Enters(r)
              \/ \E o \in Outcomes : Ends(r, o)
    BY <1>13
  <2>2. \A s \in Requests : StaysHandled(s) /\ Quiet(s)
    BY <1>1, <1>2, <1>3, <1>4, <1>5, <2>1
  <2> QED
    BY <1>9, <2>1, <2>2 DEF Quiet
<1>14. CASE \E r \in Requests : WriteAudit(r)
  BY <1>6, <1>14 DEF Quiet
<1> QED
  BY <1>10, <1>11, <1>12, <1>13, <1>14, StepKinds

LEMMA RepliedKept ==
  ASSUME DomainsOK, RequestsInv, [PipelineNext]_vars, NEW s \in Requests
  PROVE  Replied(s)'
<1>1. Replied(s) /\ Progress(s)
  BY DEF RequestsInv
<1>2. ASSUME NEW r \in Requests, Settle(r)  PROVE Replied(s)'
  <2>1. CASE s = r
    <3>1. outcome[s] \in Outcomes
      BY DEF DomainsOK
    <3>2. Response(outcome[s], Method[call[s].op]).status \in Statuses
      BY <3>1, CallsAreTyped, OutcomeTable
    <3> QED
      BY <1>1, <1>2, <2>1, <3>2, SettlingHandles DEF Replied
  <2>2. CASE s # r
    <3>1. /\ StaysHandled(s) /\ pc'[s] = pc[s] /\ answer'[s] = answer[s]
          /\ call' = call /\ outcome' = outcome
      BY <1>2, <2>2, SettlingHandles DEF RequestsInv
    <3> QED
      BY <1>1, <3>1 DEF Replied, StaysHandled
  <2> QED
    BY <2>1, <2>2
<1>3. CASE /\ StaysHandled(s)
           /\ \/ UNCHANGED <<pc[s], answer[s]>>
              \/ pc'[s] # "answered" /\ answer'[s] = answer[s] /\ ~Handled(s)
              \/ answer'[s].status \in Statuses /\ answer'[s].code \notin Conflicts
  <2>1. CASE Handled(s)
    <3>1. Handled(s)' /\ call'[s] = call[s] /\ outcome'[s] = outcome[s] /\ answer'[s] = answer[s]
      BY <1>3, <2>1 DEF StaysHandled
    <3>2. pc[s] = "answered"
      BY <2>1 DEF Handled
    <3> QED
      BY <1>1, <2>1, <3>1, <3>2 DEF Replied
  <2>2. CASE ~Handled(s)
    <3>1. ~Handled(s)'
      BY <1>3, <2>2 DEF StaysHandled
    <3> QED
      BY <1>1, <1>3, <2>2, <3>1 DEF Replied
  <2> QED
    BY <2>1, <2>2
<1> QED
  BY <1>2, <1>3, NothingElseHandles

LEMMA TrailedKept ==
  ASSUME DomainsOK, RequestsInv, [PipelineNext]_vars, NEW s \in Requests
  PROVE  Trailed(s)'
<1>1. Trailed(s) /\ Progress(s)
  BY DEF RequestsInv
<1>2. NewEntry(s) # NoEntry
  BY EntriesAreTyped, PipelineAssumption
<1>3. ASSUME call'[s] = call[s], outcome'[s] = outcome[s]
      PROVE  NewEntry(s)' = NewEntry(s) /\ (Mutating(s)' <=> Mutating(s))
  BY <1>3 DEF NewEntry, Actor, Mutating
<1>4. ASSUME NEW r \in Requests, Settle(r)  PROVE Trailed(s)'
  <2>1. auditLog' = auditLog /\ dropped' = dropped
    BY <1>4 DEF Settle
  <2>2. CASE s = r
    <3>1. /\ ~Handled(s) /\ Handled(s)' /\ call' = call /\ outcome' = outcome
      BY <1>1, <1>4, <2>2, SettlingHandles
    <3>2. pending'[s] = IF Mutating(s) THEN NewEntry(s) ELSE NoEntry
      BY <1>4, <2>2 DEF Settle, Audited, DomainsOK
    <3> QED
      BY <1>1, <1>3, <2>1, <3>1, <3>2 DEF Trailed
  <2>3. CASE s # r
    <3>1. StaysHandled(s) /\ call' = call /\ outcome' = outcome
      BY <1>4, <2>3, SettlingHandles DEF RequestsInv
    <3>2. pending'[s] = pending[s]
      BY <1>4, <2>3 DEF Settle, DomainsOK
    <3> QED
      BY <1>1, <1>3, <2>1, <3>1, <3>2 DEF Trailed, StaysHandled
  <2> QED
    BY <2>2, <2>3
<1>5. ASSUME StaysHandled(s), NEW r \in Requests, WriteAudit(r)  PROVE Trailed(s)'
  <2>1. dropped' = dropped
    BY <1>5 DEF WriteAudit
  <2>2. CASE s = r
    <3>1. /\ Handled(s) /\ Mutating(s)
          /\ pending[s] = NewEntry(s) /\ auditLog[s] = <<>> /\ s \notin dropped
      BY <1>1, <1>5, <2>2 DEF WriteAudit, Trailed
    <3>2. pending'[s] = NoEntry /\ auditLog'[s] = Append(auditLog[s], pending[s])
      BY <1>5, <2>2 DEF WriteAudit, DomainsOK
    <3>3. Append(<<>>, NewEntry(s)) = <<NewEntry(s)>>
      OBVIOUS
    <3>4. /\ Handled(s)' /\ call'[s] = call[s] /\ outcome'[s] = outcome[s]
      BY <1>5, <3>1 DEF StaysHandled
    <3> QED
      BY <1>3, <2>1, <3>1, <3>2, <3>3, <3>4 DEF Trailed
  <2>3. CASE s # r
    <3>1. pending'[s] = pending[s] /\ auditLog'[s] = auditLog[s]
      BY <1>5, <2>3 DEF WriteAudit, DomainsOK
    <3>2. call' = call /\ outcome' = outcome
      BY <1>5 DEF WriteAudit
    <3> QED
      BY <1>1, <1>3, <1>5, <2>1, <3>1, <3>2 DEF Trailed, StaysHandled
  <2> QED
    BY <2>2, <2>3
<1>6. ASSUME StaysHandled(s), Stop  PROVE Trailed(s)'
  <2>1. /\ pending'[s] = NoEntry /\ auditLog' = auditLog
        /\ s \in dropped' <=> s \in dropped \/ pending[s] # NoEntry
        /\ call' = call /\ outcome' = outcome
    BY <1>6 DEF Stop
  <2> QED
    BY <1>1, <1>2, <1>3, <1>6, <2>1 DEF Trailed, StaysHandled
<1>7. ASSUME StaysHandled(s), UNCHANGED trail  PROVE Trailed(s)'
  <2>1. pending' = pending /\ auditLog' = auditLog /\ dropped' = dropped
    BY <1>7 DEF trail
  <2>2. CASE Handled(s)
    BY <1>1, <1>3, <1>7, <2>1, <2>2 DEF Trailed, StaysHandled
  <2>3. CASE ~Handled(s)
    BY <1>1, <1>7, <2>1, <2>3 DEF Trailed, StaysHandled
  <2> QED
    BY <2>2, <2>3
<1> QED
  BY <1>4, <1>5, <1>6, <1>7, NothingElseHandles

\* The requests a counter counts.
Given(label) == {r \in Requests : Handled(r) /\ <<call[r].op, answer[r].status>> = label}

LEMMA GivenIsFinite ==
  ASSUME NEW label
  PROVE  /\ IsFiniteSet(Given(label)) /\ Cardinality(Given(label)) \in Nat
         /\ Cardinality(Given(label)) <= Cardinality(Requests)
<1>1. Given(label) \subseteq Requests
  BY DEF Given
<1> QED
  BY <1>1, PipelineAssumption, FS_Subset, FS_CardinalityType

LEMMA CountersKept ==
  ASSUME DomainsOK, RequestsInv, CountersMatch, [PipelineNext]_vars
  PROVE  CountersMatch'
<1>1. \A label \in Labels :
        /\ totals[label] <= Cardinality(Given(label))
        /\ ~stopped => totals[label] = Cardinality(Given(label))
  BY DEF CountersMatch, Given
<1>2. SUFFICES ASSUME NEW label \in Labels
               PROVE  /\ totals'[label] <= Cardinality(Given(label)')
                      /\ ~stopped' => totals'[label] = Cardinality(Given(label)')
  BY DEF CountersMatch, Given
<1>3. totals[label] \in Nat
  BY DEF DomainsOK
<1>4. ASSUME NEW r \in Requests, Settle(r)
      PROVE  /\ totals'[label] <= Cardinality(Given(label)')
             /\ ~stopped' => totals'[label] = Cardinality(Given(label)')
  <2> DEFINE own == <<call[r].op, LoggedStatus(outcome[r], Method[call[r].op])>>
  <2>1. /\ totals' = [totals EXCEPT ![own] = totals[own] + 1] /\ stopped' = stopped
    BY <1>4 DEF Settle, Counted
  <2>2. /\ ~Handled(r) /\ Handled(r)' /\ call' = call
        /\ answer'[r] = Response(outcome[r], Method[call[r].op])
        /\ \A s \in Requests \ {r} : StaysHandled(s) /\ answer'[s] = answer[s]
    BY <1>4, SettlingHandles DEF RequestsInv
  <2>3. <<call'[r].op, answer'[r].status>> = own
    <3>1. outcome[r] \in Outcomes
      BY DEF DomainsOK
    <3>2. LoggedStatus(outcome[r], Method[call[r].op])
            = Response(outcome[r], Method[call[r].op]).status
      BY <3>1, CallsAreTyped, OutcomeTable
    <3> QED
      BY <2>2, <3>2
  <2> HIDE DEF own
  <2>4. CASE label = own
    <3>1. Given(label)' = Given(label) \cup {r}
      BY <2>2, <2>3, <2>4 DEF Given, StaysHandled
    <3>2. r \notin Given(label)
      BY <2>2 DEF Given
    <3>3. Cardinality(Given(label)') = Cardinality(Given(label)) + 1
      BY <3>1, <3>2, GivenIsFinite, FS_AddElement
    <3>4. totals'[label] = totals[label] + 1
      BY <2>1, <2>4 DEF DomainsOK
    <3> QED
      BY <1>1, <1>3, <2>1, <3>3, <3>4, GivenIsFinite
  <2>5. CASE label # own
    <3>1. Given(label)' = Given(label)
      BY <2>2, <2>3, <2>5 DEF Given, StaysHandled
    <3>2. totals'[label] = totals[label]
      BY <2>1, <2>5 DEF DomainsOK
    <3> QED
      BY <1>1, <2>1, <3>1, <3>2
  <2> QED
    BY <2>4, <2>5
<1>5. CASE /\ \A s \in Requests : StaysHandled(s)
           /\ UNCHANGED trail \/ (\E r \in Requests : WriteAudit(r)) \/ Stop
  <2>1. Given(label)' = Given(label)
    BY <1>5 DEF Given, StaysHandled
  <2>2. CASE Stop
    <3>1. totals'[label] = 0 /\ stopped' = TRUE
      BY <2>2 DEF Stop
    <3> QED
      BY <2>1, <3>1, GivenIsFinite
  <2>3. CASE UNCHANGED <<totals, stopped>>
    BY <1>1, <2>1, <2>3
  <2> QED
    BY <1>5, <2>2, <2>3 DEF WriteAudit, trail
<1> QED
  BY <1>4, <1>5, NothingElseHandles

-----------------------------------------------------------------------------
LEMMA InvInit == PipelineInit => IInv
<1> SUFFICES ASSUME PipelineInit  PROVE IInv
  OBVIOUS
<1> USE DEF PipelineInit
<1>1. NoCall \in Offered
  BY PipelineAssumption DEF NoCall
<1>2. DomainsOK
  <2>1. branches \subseteq BranchRow /\ organizations \subseteq OrganizationRow
    BY ConversionAssumption DEF DirectoryInit, BranchRow, OrganizationRow
  <2>2. \A r \in Requests : <<>> \in Seq(Entry)
    BY EmptySeq
  <2> QED
    BY <1>1, <2>1, <2>2 DEF DomainsOK, Points, Outcomes
<1>3. \A r \in Requests : call[r] = NoCall /\ ~Handled(r) /\ ~HasCreated(r)
  BY ConversionAssumption DEF Handled, HasCreated, DirectoryInit
<1>4. Tables
  BY ConversionAssumption
  DEF Tables, BranchesFit, OrganizationsFit, BranchesDiffer, OrganizationsDiffer, DirectoryInit
<1>5. ASSUME NEW r \in Requests
      PROVE  Progress(r) /\ Truthful(r) /\ Replied(r) /\ Trailed(r)
  <2>1. Len(Guards[call[r].op]) \in Nat /\ Len(Guards[call[r].op]) > 0
    BY <1>2, CallsAreTyped, GuardLists, LenProperties
  <2>2. Progress(r)
    BY <2>1 DEF Progress, AllPassed
  <2>3. Truthful(r)
    BY <1>3, OutcomesDiffer DEF Truthful
  <2>4. Replied(r)
    <3>1. answer[r].code = NoCode /\ NoCode \notin Conflicts
      BY DEF NoAnswer, NoCode, Conflicts
    <3> QED
      BY <1>3, <3>1 DEF Replied
  <2>5. Trailed(r)
    BY <1>3 DEF Trailed
  <2> QED
    BY <2>2, <2>3, <2>4, <2>5
<1>6. CountersMatch
  <2>1. ASSUME NEW label \in Labels
        PROVE  totals[label] = Cardinality(Given(label))
    <3>1. Given(label) = {}
      BY <1>3 DEF Given
    <3> QED
      BY <2>1, <3>1, FS_EmptySet
  <2>2. \A label \in Labels :
          /\ totals[label] <= Cardinality(Given(label))
          /\ ~stopped => totals[label] = Cardinality(Given(label))
    BY <1>2, <2>1 DEF DomainsOK
  <2> QED
    BY <2>2 DEF CountersMatch, Given
<1> QED
  BY <1>2, <1>4, <1>5, <1>6 DEF IInv, RequestsInv

LEMMA InvKept == IInv /\ [PipelineNext]_vars => IInv'
<1> SUFFICES ASSUME IInv, [PipelineNext]_vars  PROVE IInv'
  OBVIOUS
<1>1. DomainsOK /\ RequestsInv /\ Tables /\ CountersMatch
  BY DEF IInv
<1>2. DomainsOK' /\ Tables' /\ CountersMatch'
  BY <1>1, DomainsKept, TablesKept, CountersKept
<1>3. \A r \in Requests : Progress(r)' /\ Truthful(r)' /\ Replied(r)' /\ Trailed(r)'
  BY <1>1, ProgressKept, TruthfulKept, RepliedKept, TrailedKept
<1>4. RequestsInv'
  BY <1>3 DEF RequestsInv
<1> QED
  BY <1>2, <1>4 DEF IInv

LEMMA PipelineAlways == PipelineSpec => []IInv
BY InvInit, InvKept, PTL DEF PipelineSpec

\* PipelineTypeOK of RequestPipeline: every variable keeps to its domain, and
\* the three computations of a status never leave the statuses the routes end
\* with.
THEOREM PipelineTypeCorrect == PipelineSpec => []PipelineTypeOK
<1>1. ASSUME IInv  PROVE PipelineTypeOK
  <2>1. DomainsOK /\ RequestsInv /\ CountersMatch
    BY <1>1 DEF IInv
  <2>2. call \in [Requests -> Calls]
    BY <2>1, PipelineAssumption DEF DomainsOK
  <2>3. \A r \in Requests : passed[r] \in 0 .. Len(Guards[call[r].op])
    <3> SUFFICES ASSUME NEW r \in Requests
                 PROVE  passed[r] \in 0 .. Len(Guards[call[r].op])
      OBVIOUS
    <3>1. Len(Guards[call[r].op]) \in Nat
      BY <2>1, CallsAreTyped, GuardLists, LenProperties
    <3> QED
      BY <2>1, <3>1 DEF RequestsInv, Progress, DomainsOK
  <2>4. \A r \in Requests : pc[r] = "answered" => answer[r].status \in Statuses
    BY <2>1 DEF RequestsInv, Replied
  <2>5. \A r \in Requests : \A i \in DOMAIN auditLog[r] : auditLog[r][i] \in Entry
    BY <2>1, ElementOfSeq, LenProperties DEF DomainsOK
  <2>6. \A label \in Labels : totals[label] \in 0 .. Cardinality(Requests)
    <3> SUFFICES ASSUME NEW label \in Labels
                 PROVE  totals[label] \in 0 .. Cardinality(Requests)
      OBVIOUS
    <3>1. totals[label] \in Nat /\ totals[label] <= Cardinality(Given(label))
      BY <2>1 DEF DomainsOK, CountersMatch, Given
    <3>2. Cardinality(Requests) \in Nat
      BY PipelineAssumption, FS_CardinalityType
    <3> QED
      BY <3>1, <3>2, GivenIsFinite
  <2> QED
    BY <2>1, <2>2, <2>3, <2>4, <2>5, <2>6 DEF PipelineTypeOK, DomainsOK
<1> QED
  BY <1>1, PipelineAlways, PTL

\* What is recorded of a request is the one entry its outcome makes.
LEMMA OneEntry ==
  ASSUME IInv, NEW r \in Requests, NEW e \in Recorded(r)
  PROVE  Handled(r) /\ Mutating(r) /\ e = NewEntry(r)
<1>1. Trailed(r)
  BY DEF IInv, RequestsInv
<1>2. e \in {auditLog[r][i] : i \in DOMAIN auditLog[r]} \cup ({pending[r]} \ {NoEntry})
  BY DEF Recorded
<1>3. CASE auditLog[r] = <<>>
  <2>1. DOMAIN auditLog[r] = {}
    BY <1>3
  <2>2. e = pending[r] /\ pending[r] # NoEntry
    BY <1>2, <2>1
  <2> QED
    BY <1>1, <2>2 DEF Trailed
<1>4. CASE auditLog[r] # <<>>
  <2>1. /\ Handled(r) /\ Mutating(r)
        /\ pending[r] = NoEntry /\ auditLog[r] = <<NewEntry(r)>>
    BY <1>1, <1>4 DEF Trailed
  <2>2. \A i \in DOMAIN auditLog[r] : auditLog[r][i] = NewEntry(r)
    BY <2>1
  <2> QED
    BY <1>2, <2>1, <2>2
<1> QED
  BY <1>3, <1>4

\* TrailIsTrue of RequestPipeline: an entry of the audit log has the status the
\* client got; for a creation it names an administrator, and it says "done" or
\* "refused" only when that is so in the table.
THEOREM TrailTellsTruth == PipelineSpec => []TrailIsTrue
<1>1. ASSUME IInv  PROVE TrailIsTrue
  <2> SUFFICES ASSUME NEW r \in Requests, NEW e \in Recorded(r)
               PROVE  /\ e.status = answer[r].status
                      /\ call[r].op \in Creating =>
                           e.actor # NoUser /\ "ADMIN" \in UserRoles[e.actor]
                      /\ call[r].op \in Creating /\ e.status = 201 => HasCreated(r)
                      /\ e.status \in {400, 409} => ~HasCreated(r)
    BY DEF TrailIsTrue
  <2>1. DomainsOK /\ Progress(r) /\ Truthful(r) /\ Replied(r)
    BY <1>1 DEF IInv, RequestsInv
  <2>2. Handled(r) /\ Mutating(r) /\ e = NewEntry(r)
    BY <1>1, OneEntry
  <2>3. /\ e.status = AuditStatus(outcome[r], Method[call[r].op]) /\ e.actor = Actor(r)
    BY <2>2 DEF NewEntry
  <2>4. outcome[r] \in Outcomes /\ Method[call[r].op] = "POST" /\ "POST" \in Methods
    BY <2>1, <2>2 DEF DomainsOK, Mutating, Methods
  <2>5. /\ e.status = answer[r].status
        /\ e.status = 201 => outcome[r] = Value
        /\ e.status \in {400, 409} => outcome[r] \in Fruitless
    BY <2>1, <2>2, <2>3, <2>4, OutcomeTable DEF Replied
  <2>6. ASSUME call[r].op \in Creating
        PROVE  e.actor # NoUser /\ "ADMIN" \in UserRoles[e.actor]
    <3>1. AllPassed(r)
      BY <2>2 DEF Handled, AllPassed
    <3>2. passed[r] > 0
      BY <2>1, <3>1, CallsAreTyped, GuardLists DEF AllPassed
    <3>3. call[r].op \notin Public
      BY <2>6, OpsAndMethods
    <3>4. call[r].user \in Users /\ "ADMIN" \in UserRoles[call[r].user]
      BY <2>1, <2>6, <3>1, <3>2, <3>3 DEF Progress
    <3>5. e.actor = call[r].user
      BY <2>3, <3>3 DEF Actor
    <3> QED
      BY <3>4, <3>5, PipelineAssumption
  <2> QED
    BY <2>1, <2>2, <2>5, <2>6 DEF Truthful
<1> QED
  BY <1>1, PipelineAlways, PTL

\* TrailIsComplete of RequestPipeline: a mutating request that came past its
\* guards and was answered has exactly one entry, in the table, on its way, or
\* lost with the process; no other has any.
THEOREM TrailLeavesNothingOut == PipelineSpec => []TrailIsComplete
<1>1. ASSUME IInv  PROVE TrailIsComplete
  <2> SUFFICES ASSUME NEW r \in Requests
               PROVE  Len(auditLog[r]) + Cardinality({pending[r]} \ {NoEntry})
                        + Cardinality({r} \cap dropped)
                        = IF Handled(r) /\ Mutating(r) THEN 1 ELSE 0
    BY DEF TrailIsComplete
  <2>1. Trailed(r) /\ NewEntry(r) # NoEntry
    BY <1>1, EntriesAreTyped, PipelineAssumption DEF IInv, RequestsInv
  <2>2. /\ pending[r] = NoEntry => Cardinality({pending[r]} \ {NoEntry}) = 0
        /\ pending[r] # NoEntry => Cardinality({pending[r]} \ {NoEntry}) = 1
    <3>1. pending[r] = NoEntry => {pending[r]} \ {NoEntry} = {}
      OBVIOUS
    <3>2. pending[r] # NoEntry => {pending[r]} \ {NoEntry} = {pending[r]}
      OBVIOUS
    <3> QED
      BY <3>1, <3>2, FS_EmptySet, FS_Singleton
  <2>3. /\ r \notin dropped => Cardinality({r} \cap dropped) = 0
        /\ r \in dropped => Cardinality({r} \cap dropped) = 1
    <3>1. r \notin dropped => {r} \cap dropped = {}
      OBVIOUS
    <3>2. r \in dropped => {r} \cap dropped = {r}
      OBVIOUS
    <3> QED
      BY <3>1, <3>2, FS_EmptySet, FS_Singleton
  <2>4. Len(<<>>) = 0 /\ Len(<<NewEntry(r)>>) = 1
    OBVIOUS
  <2>5. CASE Handled(r) /\ Mutating(r)
    <3>1. CASE pending[r] = NewEntry(r) /\ auditLog[r] = <<>> /\ r \notin dropped
      BY <2>1, <2>2, <2>3, <2>4, <2>5, <3>1
    <3>2. CASE pending[r] = NoEntry /\ auditLog[r] = <<NewEntry(r)>> /\ r \notin dropped
      <4>1. Len(auditLog[r]) = 1
        BY <2>4, <3>2
      <4> QED
        BY <2>2, <2>3, <2>5, <3>2, <4>1
    <3>3. CASE pending[r] = NoEntry /\ auditLog[r] = <<>> /\ r \in dropped
      BY <2>2, <2>3, <2>4, <2>5, <3>3
    <3> QED
      BY <2>1, <2>5, <3>1, <3>2, <3>3 DEF Trailed
  <2>6. CASE ~(Handled(r) /\ Mutating(r))
    <3>1. pending[r] = NoEntry /\ auditLog[r] = <<>> /\ r \notin dropped
      BY <2>1, <2>6 DEF Trailed
    <3> QED
      BY <2>2, <2>3, <2>4, <2>6, <3>1
  <2> QED
    BY <2>5, <2>6
<1> QED
  BY <1>1, PipelineAlways, PTL

\* CountersMatch of RequestPipeline: the counters are the answers given from
\* behind the guards, label by label, until a restart, and never more than those.
THEOREM CountersCountAnswers == PipelineSpec => []CountersMatch
<1>1. IInv => CountersMatch
  BY DEF IInv
<1> QED
  BY <1>1, PipelineAlways, PTL

\* NamesStayApart of RequestPipeline, however the texts are converted: two
\* creations that succeeded, even when they were told otherwise, made two names;
\* a conflict is one with a row of somebody else.
THEOREM NamesKeptApart == PipelineSpec => []NamesStayApart
<1>1. ASSUME IInv  PROVE NamesStayApart
  <2>1. DomainsOK /\ RequestsInv /\ Tables
    BY <1>1 DEF IInv
  <2>2. ASSUME NEW r \in Requests, HasCreated(r), call[r].op = "createBranch"
        PROVE  \E row \in branches : /\ row.by = r
                                     /\ row.organization = UserOrg[call[r].user]
                                     /\ row.name = Trimmed[call[r].text]
    BY <2>1, <2>2 DEF Tables, BranchesFit, OrganizationsFit, HasCreated
  <2>3. ASSUME NEW r \in Requests, HasCreated(r), call[r].op = "createOrganization"
        PROVE  \E row \in organizations : row.by = r /\ row.slug = Slugged[call[r].text]
    BY <2>1, <2>3 DEF Tables, BranchesFit, OrganizationsFit, HasCreated
  <2>4. ASSUME NEW r \in Requests, NEW s \in Requests, r # s, HasCreated(r), HasCreated(s)
        PROVE  /\ call[r].op = "createBranch" /\ call[s].op = "createBranch"
                  /\ UserOrg[call[r].user] = UserOrg[call[s].user]
                    => Trimmed[call[r].text] # Trimmed[call[s].text]
               /\ call[r].op = "createOrganization" /\ call[s].op = "createOrganization"
                    => Slugged[call[r].text] # Slugged[call[s].text]
    <3>1. ASSUME call[r].op = "createBranch", call[s].op = "createBranch",
                 UserOrg[call[r].user] = UserOrg[call[s].user]
          PROVE  Trimmed[call[r].text] # Trimmed[call[s].text]
      BY <2>1, <2>2, <2>4, <3>1 DEF Tables, BranchesDiffer
    <3>2. ASSUME call[r].op = "createOrganization", call[s].op = "createOrganization"
          PROVE  Slugged[call[r].text] # Slugged[call[s].text]
      BY <2>1, <2>3, <2>4, <3>2 DEF Tables, OrganizationsDiffer
    <3> QED
      BY <3>1, <3>2
  <2>5. ASSUME NEW r \in Requests
        PROVE  /\ answer[r].code = "BRANCH_ALREADY_EXISTS" => BranchInTheWay(r)
               /\ answer[r].code = "ORGANIZATION_SLUG_ALREADY_EXISTS" => SlugInTheWay(r)
    <3>1. Truthful(r) /\ Replied(r) /\ outcome[r] \in Outcomes
      BY <2>1 DEF RequestsInv, DomainsOK
    <3>2. answer[r].code \in Conflicts =>
            answer[r] = Response(outcome[r], Method[call[r].op])
      BY <3>1 DEF Replied
    <3>3. /\ answer[r].code = "BRANCH_ALREADY_EXISTS" => outcome[r] = BranchExists
          /\ answer[r].code = "ORGANIZATION_SLUG_ALREADY_EXISTS" =>
               outcome[r] = OrganizationExists
      BY <2>1, <3>1, <3>2, CallsAreTyped, OutcomeTable DEF Conflicts
    <3> QED
      BY <3>1, <3>3 DEF Truthful
  <2> QED
    BY <2>4, <2>5 DEF NamesStayApart, BranchInTheWay, SlugInTheWay
<1> QED
  BY <1>1, PipelineAlways, PTL
=============================================================================
