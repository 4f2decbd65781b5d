------------------------- MODULE CashMovementsProofs -------------------------
(***************************************************************************)
(* Theorems about CashMovements, for any number of users, organizations,   *)
(* branches, movements and requests in progress.                           *)
(***************************************************************************)
EXTENDS CashMovements, TLAPS

\* What a request may rely on at each of its program points.  The branch of a
\* create has been checked once it is at "insert"; a decision at "write" has
\* found its row in the caller's organization, and rows stay where they are.
WellPlaced(r) ==
  /\ pc[r] \in {"service", "branch", "insert", "query"} => call[r].op \notin Decisions
  /\ pc[r] \in {"load", "write"} => call[r].op \in Decisions
  /\ pc[r] = "branch" => scope[r] \in Branches
  /\ pc[r] = "insert" => /\ scope[r] \in Branches
                         /\ BranchOrg[scope[r]] = UserOrg[call[r].user]
  /\ pc[r] = "write" =>
       /\ seen[r] \in Row
       /\ movements[call[r].movement] # NoRow
       /\ movements[call[r].movement].organization = UserOrg[call[r].user]

Placed == TypeOK /\ \A r \in Requests : WellPlaced(r)

USE SentinelsAssumption, DirectoryAssumption

\* A call is one of the two kinds, and a decision names a movement.
LEMMA CallShape ==
  ASSUME NEW c \in Calls
  PROVE  /\ c.user \in Users
         /\ c.op \in Decisions \cup {"create", "list"}
         /\ c.op \in Decisions => c.movement \in Movements
         /\ c.branch \in Branches \cup {NoBranch}
  BY DEF Calls, Decisions

LEMMA NoCallIsCall == NoCall \in Calls
<1>1. (CHOOSE u \in Users : TRUE) \in Users
  OBVIOUS
<1> QED BY <1>1 DEF NoCall, Calls

LEMMA PlacedInit == Init => Placed
  BY NoCallIsCall
  DEF Init, Placed, TypeOK, WellPlaced, Points, Answers

\* A write keeps all of the row but its status and its approver, and is made
\* by a user of the row's organization.
LEMMA WriteEffect ==
  ASSUME Placed, NEW r \in Requests, Write(r)
  PROVE  \E row \in Row :
           LET m == call[r].movement
           IN  /\ m \in Movements /\ movements[m] \in Row
               /\ movements' = [movements EXCEPT ![m] = row]
               /\ row.organization = movements[m].organization
               /\ row.branch = movements[m].branch
               /\ row.createdBy = movements[m].createdBy
               /\ row.status = Requested[call[r].op]
               /\ row.approvedBy = Approver(r)
               /\ UserOrg[call[r].user] = movements[m].organization
<1> DEFINE m == call[r].movement
           status == Requested[call[r].op]
           row == Updated(r)
<1>1. /\ call[r] \in Calls
      /\ call[r].op \in Decisions
      /\ seen[r] \in Row \cup {NoRow}
  BY DEF Placed, TypeOK, WellPlaced, Write
<1>2. m \in Movements /\ call[r].user \in Users
  BY <1>1, CallShape
<1>3. /\ movements[m] \in Row
      /\ UserOrg[call[r].user] = movements[m].organization
  BY <1>2 DEF Placed, TypeOK, WellPlaced, Write
<1>4. status \in Statuses
  BY <1>1 DEF Requested, Statuses, Decisions
<1>5. Approver(r) \in Users \cup {NoUser}
  BY <1>1, <1>2 DEF Approver, Row, Placed, WellPlaced, Write
<1>6. /\ row \in Row
      /\ row.organization = movements[m].organization
      /\ row.branch = movements[m].branch
      /\ row.createdBy = movements[m].createdBy
      /\ row.status = status
      /\ row.approvedBy = Approver(r)
  BY <1>3, <1>4, <1>5 DEF Row, Updated
<1>7. movements' = [movements EXCEPT ![m] = row]
  BY DEF Write
<1> HIDE DEF row, status, m
<1> QED BY <1>2, <1>3, <1>6, <1>7 DEF m, status

\* A step that leaves the table alone keeps every other request well placed.
LEMMA PlacedStep ==
  ASSUME Placed, NEW r \in Requests, Step(r)
  PROVE  Placed'
<1> USE DEF Placed, TypeOK, Points, Answers, tables, locals
<1>0. /\ call[r] \in Calls
      /\ call[r].user \in Users
      /\ call[r].op \in Decisions \cup {"create", "list"}
      /\ call[r].op \in Decisions => call[r].movement \in Movements
      /\ call[r].branch \in Branches \cup {NoBranch}
  <2>1. call[r] \in Calls
    OBVIOUS
  <2> QED BY <2>1, CallShape
<1>1. CASE GuardUser(r)
  BY <1>1 DEF GuardUser, GoTo, Answer, WellPlaced
<1>2. CASE GuardRoles(r)
  BY <1>0, <1>2 DEF GuardRoles, GoTo, Answer, WellPlaced
<1>3. CASE ReadRolesToCreate(r)
  BY <1>0, <1>3 DEF ReadRolesToCreate, CreateBranch, GoTo, Answer, WellPlaced, Decisions
<1>4. CASE ReadRolesToList(r)
  <2> DEFINE isOperator == "OPERATOR" \in roles[call[r].user]
             branch == ListBranch(call[r], isOperator)
  <2>1. branch \in Branches \cup {NoBranch}
    BY <1>0 DEF ListBranch
  <2>2. /\ scope' = [scope EXCEPT ![r] = branch]
        /\ asOperator' = [asOperator EXCEPT ![r] = isOperator]
        /\ UNCHANGED <<movements, roles, active, decided, call, seen, listed>>
    BY <1>4 DEF ReadRolesToList
  <2>3. \/ pc' = [pc EXCEPT ![r] = "query"] /\ UNCHANGED answer
        \/ /\ pc' = [pc EXCEPT ![r] = "branch"] /\ UNCHANGED answer
           /\ branch \in Branches
        \/ /\ pc' = [pc EXCEPT ![r] = "answered"]
           /\ answer' = [answer EXCEPT ![r] = "forbidden"]
    BY <1>0, <1>4 DEF ReadRolesToList, ListBranch, GoTo, Answer
  <2>4. call[r].op \notin Decisions
    BY <1>4 DEF ReadRolesToList, Decisions
  <2> HIDE DEF branch
  <2>5. TypeOK'
    BY <2>1, <2>2, <2>3
  <2>6. ASSUME NEW q \in Requests PROVE WellPlaced(q)'
    BY <2>2, <2>3, <2>4 DEF WellPlaced
  <2> QED BY <2>5, <2>6
<1>5. CASE CheckBranch(r)
  BY <1>0, <1>5 DEF CheckBranch, GoTo, Answer, WellPlaced
<1>6. CASE Insert(r)
  BY <1>0, <1>6 DEF Insert, Unused, NewRow, Row, Statuses, Answer, WellPlaced
<1>7. CASE Query(r)
  BY <1>0, <1>7 DEF Query, Answer, WellPlaced
<1>8. CASE Load(r)
  <2>1. /\ UNCHANGED <<movements, roles, active, decided, call, scope, asOperator, listed>>
        /\ \/ /\ pc' = [pc EXCEPT ![r] = "answered"]
              /\ \E a \in {"notFound", "conflict"} : answer' = [answer EXCEPT ![r] = a]
              /\ UNCHANGED seen
           \/ /\ pc' = [pc EXCEPT ![r] = "write"] /\ UNCHANGED answer
              /\ seen' = [seen EXCEPT ![r] = movements[call[r].movement]]
              /\ movements[call[r].movement] # NoRow
              /\ movements[call[r].movement].organization = UserOrg[call[r].user]
    BY <1>8 DEF Load, Found, GoTo, Answer
  <2>2. call[r].op \in Decisions /\ call[r].movement \in Movements
    BY <1>0, <1>8 DEF Load, WellPlaced
  <2>3. TypeOK'
    BY <2>1, <2>2
  <2>4. ASSUME NEW q \in Requests PROVE WellPlaced(q)'
    BY <2>1, <2>2 DEF WellPlaced
  <2> QED BY <2>3, <2>4
<1>9. CASE Write(r)
  <2>1. PICK row \in Row :
          LET m == call[r].movement
          IN  /\ m \in Movements /\ movements[m] \in Row
              /\ movements' = [movements EXCEPT ![m] = row]
              /\ row.organization = movements[m].organization
    BY <1>9, WriteEffect DEF Placed
  <2>2. Requested[call[r].op] \in Statuses
    BY <1>9 DEF Write, WellPlaced, Requested, Statuses, Decisions
  <2>3. /\ decided' = [decided EXCEPT ![call[r].movement] =
                         @ \cup {<<call[r].user, Requested[call[r].op]>>}]
        /\ pc' = [pc EXCEPT ![r] = "answered"]
        /\ answer' = [answer EXCEPT ![r] = "ok"]
        /\ UNCHANGED <<roles, active, call, scope, asOperator, seen, listed>>
    BY <1>9 DEF Write, Answer
  <2>4. TypeOK'
    BY <1>0, <2>1, <2>2, <2>3
  <2>5. ASSUME NEW q \in Requests PROVE WellPlaced(q)'
    BY <2>1, <2>3 DEF WellPlaced
  <2> QED BY <2>4, <2>5
<1> QED BY <1>1, <1>2, <1>3, <1>4, <1>5, <1>6, <1>7, <1>8, <1>9 DEF Step

\* Nothing outside the requests touches a movement or moves a request forward.
LEMMA PlacedOutside ==
  ASSUME Placed, Administration \/ Restart
  PROVE  Placed'
<1>1. ASSUME NEW u \in {g[1] : g \in Grants}, DeleteRoles(u)
      PROVE  Placed'
  BY <1>1 DEF DeleteRoles, Placed, TypeOK, WellPlaced, locals
<1>2. ASSUME NEW u \in {g[1] : g \in Grants}, NEW value \in BOOLEAN, SetActive(u, value)
      PROVE  Placed'
  BY <1>2 DEF SetActive, Placed, TypeOK, WellPlaced, locals
<1>3. ASSUME NEW g \in Grants, GrantRoles(g[1], g[2])
      PROVE  Placed'
  BY <1>3 DEF GrantRoles, Placed, TypeOK, WellPlaced, locals
<1>4. CASE Restart
  BY <1>4 DEF Restart, InProgress, Points, Placed, TypeOK, WellPlaced, tables, locals
<1> QED BY <1>1, <1>2, <1>3, <1>4 DEF Administration

LEMMA PlacedSubmit ==
  ASSUME Placed, NEW r \in Requests, NEW c \in Offered, Submit(r, c)
  PROVE  Placed'
  BY DEF Placed, TypeOK, Submit, WellPlaced, Points, Answers, tables

LEMMA PlacedNext == Placed /\ [Next]_vars => Placed'
<1> SUFFICES ASSUME Placed, [Next]_vars PROVE Placed'
  OBVIOUS
<1>1. CASE UNCHANGED vars
  BY <1>1 DEF vars, Placed, TypeOK, WellPlaced
<1> QED BY <1>1, PlacedStep, PlacedSubmit, PlacedOutside DEF Next

\* Every reachable state is typed and every request is where it may be.
THEOREM PlacedAlways == Spec => []Placed
  BY PlacedInit, PlacedNext, PTL DEF Spec

\* TypeOK of CashMovements: a stored row is a complete row.
THEOREM TypeCorrect == Spec => []TypeOK
<1>1. Placed => TypeOK
  BY DEF Placed
<1> QED BY <1>1, PlacedAlways, PTL

-----------------------------------------------------------------------------
\* Only an insert and a write touch the table and its history.
LEMMA TableSteps ==
  ASSUME Placed, [Next]_vars
  PROVE  \/ UNCHANGED <<movements, decided>>
         \/ \E r \in Requests : Insert(r) \/ Write(r)
<1>1. ASSUME NEW r \in Requests, Step(r)
      PROVE  UNCHANGED <<movements, decided>> \/ Insert(r) \/ Write(r)
  BY <1>1 DEF Step, GuardUser, GuardRoles, ReadRolesToCreate, ReadRolesToList,
              CheckBranch, Query, Load, tables
<1>2. ASSUME NEW r \in Requests, NEW c \in Offered, Submit(r, c)
      PROVE  UNCHANGED <<movements, decided>>
  BY <1>2 DEF Submit, tables
<1>3. ASSUME Administration \/ Restart
      PROVE  UNCHANGED <<movements, decided>>
  BY <1>3 DEF Administration, DeleteRoles, GrantRoles, SetActive, Restart, tables
<1>4. ASSUME UNCHANGED vars
      PROVE  UNCHANGED <<movements, decided>>
  BY <1>4 DEF vars
<1> QED BY <1>1, <1>2, <1>3, <1>4 DEF Next

\* An insert stores one new row in the creator's organization, in a branch of
\* that organization.
LEMMA InsertEffect ==
  ASSUME Placed, NEW r \in Requests, Insert(r)
  PROVE  \E m \in Movements :
           /\ movements[m] = NoRow
           /\ movements' = [movements EXCEPT ![m] = NewRow(r)]
           /\ NewRow(r) # NoRow
           /\ NewRow(r).organization = UserOrg[call[r].user]
           /\ BranchOrg[NewRow(r).branch] = UserOrg[call[r].user]
           /\ NewRow(r).createdBy = call[r].user
           /\ NewRow(r).status = "PENDING"
           /\ NewRow(r).approvedBy = NoUser
<1>1. call[r].user \in Users
  BY CallShape DEF Placed, TypeOK
<1>2. NewRow(r) \in Row
  BY <1>1 DEF NewRow, Row, Statuses, Placed, WellPlaced, Insert
<1> QED BY <1>2 DEF Insert, Unused, NewRow, Placed, WellPlaced

-----------------------------------------------------------------------------
\* Tenancy.  RowsInTenant is inductive together with Placed and with the fact
\* that an id without a row has no history.
Untouched == \A m \in Movements : movements[m] = NoRow => decided[m] = {}

TenantInv == Placed /\ Untouched /\ RowsInTenant

LEMMA TenantInit == Init => TenantInv
  BY PlacedInit DEF Init, TenantInv, Untouched, RowsInTenant

LEMMA TenantNext == TenantInv /\ [Next]_vars => TenantInv'
<1> SUFFICES ASSUME TenantInv, [Next]_vars PROVE TenantInv'
  OBVIOUS
<1>1. Placed /\ Placed'
  BY PlacedNext DEF TenantInv
<1>2. /\ movements \in [Movements -> Row \cup {NoRow}]
      /\ decided \in [Movements -> SUBSET (Users \X Statuses)]
      /\ call \in [Requests -> Calls]
  BY <1>1 DEF Placed, TypeOK
<1>3. CASE UNCHANGED <<movements, decided>>
  BY <1>1, <1>3 DEF TenantInv, Untouched, RowsInTenant
<1>4. ASSUME NEW r \in Requests, Insert(r) PROVE TenantInv'
  <2>1. PICK m \in Movements :
          /\ movements[m] = NoRow
          /\ movements' = [movements EXCEPT ![m] = NewRow(r)]
          /\ NewRow(r) # NoRow
          /\ NewRow(r).organization = UserOrg[call[r].user]
          /\ BranchOrg[NewRow(r).branch] = UserOrg[call[r].user]
          /\ NewRow(r).createdBy = call[r].user
    BY <1>1, <1>4, InsertEffect
  <2>2. decided' = decided
    BY <1>4 DEF Insert
  <2> QED BY <1>1, <1>2, <2>1, <2>2 DEF TenantInv, Untouched, RowsInTenant
<1>5. ASSUME NEW r \in Requests, Write(r) PROVE TenantInv'
  <2> DEFINE m == call[r].movement
  <2>1. PICK row \in Row :
          /\ m \in Movements /\ movements[m] \in Row
          /\ movements' = [movements EXCEPT ![m] = row]
          /\ row.organization = movements[m].organization
          /\ row.branch = movements[m].branch
          /\ row.createdBy = movements[m].createdBy
          /\ UserOrg[call[r].user] = movements[m].organization
    BY <1>1, <1>5, WriteEffect
  <2>2. decided' = [decided EXCEPT ![m] = @ \cup {<<call[r].user, Requested[call[r].op]>>}]
    BY <1>5 DEF Write
  <2> HIDE DEF m
  <2>3. ASSUME NEW n \in Movements, movements'[n] # NoRow
        PROVE  /\ BranchOrg[movements'[n].branch] = movements'[n].organization
               /\ UserOrg[movements'[n].createdBy] = movements'[n].organization
               /\ \A d \in decided'[n] : UserOrg[d[1]] = movements'[n].organization
    BY <1>2, <2>1, <2>2, <2>3 DEF TenantInv, RowsInTenant
  <2>4. ASSUME NEW n \in Movements, movements'[n] = NoRow
        PROVE  decided'[n] = {}
    BY <1>2, <2>1, <2>2, <2>4 DEF TenantInv, Untouched
  <2> QED BY <1>1, <2>3, <2>4 DEF TenantInv, Untouched, RowsInTenant
<1> QED BY <1>1, <1>3, <1>4, <1>5, TableSteps

\* RowsInTenant of CashMovements: nothing in a movement's history, its branch,
\* creator or deciders, ever crosses the boundary of its organization.
THEOREM TenantIsolation == Spec => []RowsInTenant
<1>1. TenantInv => RowsInTenant
  BY DEF TenantInv
<1> QED BY <1>1, TenantInit, TenantNext, PTL DEF Spec

-----------------------------------------------------------------------------
\* The trail.  A delivery at "write" carries an approver who did approve: the
\* row it read showed him, and history is never erased, whatever other
\* requests have written in between.
Carried ==
  \A r \in Requests : pc[r] = "write" /\ call[r].op = "deliver" =>
    /\ seen[r].approvedBy # NoUser
    /\ <<seen[r].approvedBy, "APPROVED">> \in decided[call[r].movement]

TrailInv == Placed /\ Untouched /\ ApproverIsDecider /\ Carried

LEMMA TrailInit == Init => TrailInv
  BY PlacedInit DEF Init, TrailInv, Untouched, ApproverIsDecider, Carried

\* A decision that starts to be written has read a row the trail vouches for.
LEMMA CarriedNext == TrailInv /\ [Next]_vars => Carried'
<1> SUFFICES ASSUME TrailInv, [Next]_vars, NEW r \in Requests,
                    pc'[r] = "write", call'[r].op = "deliver"
             PROVE  /\ seen'[r].approvedBy # NoUser
                    /\ <<seen'[r].approvedBy, "APPROVED">> \in decided'[call'[r].movement]
  BY DEF Carried
<1>0. /\ pc \in [Requests -> Points]
      /\ seen \in [Requests -> Row \cup {NoRow}]
      /\ decided \in [Movements -> SUBSET (Users \X Statuses)]
      /\ \A q \in Requests : call[q].op \in Decisions => call[q].movement \in Movements
  BY CallShape DEF TrailInv, Placed, TypeOK
<1>1. ASSUME UNCHANGED <<pc, call, seen, decided>>
      PROVE  /\ seen'[r].approvedBy # NoUser
             /\ <<seen'[r].approvedBy, "APPROVED">> \in decided'[call'[r].movement]
  BY <1>1 DEF TrailInv, Carried
<1>2. ASSUME NEW q \in Requests, Load(q)
      PROVE  /\ seen'[r].approvedBy # NoUser
             /\ <<seen'[r].approvedBy, "APPROVED">> \in decided'[call'[r].movement]
  <2>1. UNCHANGED <<call, decided>>
    BY <1>2 DEF Load, tables
  <2>2. CASE r # q
    <3>1. pc'[r] = pc[r] /\ seen'[r] = seen[r]
      BY <1>0, <1>2, <2>2 DEF Load, GoTo, Answer
    <3> QED BY <2>1, <3>1 DEF TrailInv, Carried
  <2>3. CASE r = q
    <3> DEFINE m == call[r].movement
    <3>1. m \in Movements
      BY <1>0, <2>1 DEF Decisions
    <3>2. /\ movements[m] # NoRow
          /\ movements[m].status = "APPROVED"
          /\ seen'[r] = movements[m]
      BY <1>0, <1>2, <2>1, <2>3 DEF Load, Found, GoTo, Answer, Expected
    <3>3. <<movements[m].approvedBy, "APPROVED">> \in decided[m]
      BY <3>1, <3>2 DEF TrailInv, ApproverIsDecider
    <3>4. movements[m].approvedBy \in Users
      BY <1>0, <3>1, <3>3
    <3> QED BY <2>1, <3>2, <3>3, <3>4
  <2> QED BY <2>2, <2>3
<1>3. ASSUME NEW q \in Requests, Write(q)
      PROVE  /\ seen'[r].approvedBy # NoUser
             /\ <<seen'[r].approvedBy, "APPROVED">> \in decided'[call'[r].movement]
  <2>1. UNCHANGED <<call, seen>>
    BY <1>3 DEF Write, locals
  <2>2. pc[r] = "write" /\ call[r].movement \in Movements
    BY <1>0, <1>3, <2>1 DEF Write, Answer, Decisions
  <2>3. decided[call[r].movement] \subseteq decided'[call[r].movement]
    BY <1>0, <1>3, <2>2 DEF Write
  <2> QED BY <2>1, <2>2, <2>3 DEF TrailInv, Carried
<1>4. ASSUME NEW q \in Requests, Step(q), ~Load(q), ~Write(q)
      PROVE  /\ seen'[r].approvedBy # NoUser
             /\ <<seen'[r].approvedBy, "APPROVED">> \in decided'[call'[r].movement]
  <2>1. UNCHANGED <<call, seen, decided>>
    BY <1>4 DEF Step, GuardUser, GuardRoles, ReadRolesToCreate, ReadRolesToList,
                CheckBranch, Insert, Query, tables, locals
  <2>2. pc[r] = "write"
    BY <1>0, <1>4 DEF Step, GuardUser, GuardRoles, ReadRolesToCreate, ReadRolesToList,
                      CheckBranch, Insert, Query, GoTo, Answer
  <2> QED BY <2>1, <2>2 DEF TrailInv, Carried
<1>5. ASSUME NEW q \in Requests, NEW c \in Offered, Submit(q, c)
      PROVE  /\ seen'[r].approvedBy # NoUser
             /\ <<seen'[r].approvedBy, "APPROVED">> \in decided'[call'[r].movement]
  <2>1. r # q
    BY <1>0, <1>5 DEF Submit
  <2>2. pc'[r] = pc[r] /\ call'[r] = call[r] /\ seen'[r] = seen[r] /\ decided' = decided
    BY <1>0, <1>5, <2>1 DEF Submit, tables, TrailInv, Placed, TypeOK
  <2> QED BY <2>2 DEF TrailInv, Carried
<1>6. ASSUME Administration
      PROVE  UNCHANGED <<pc, call, seen, decided>>
  BY <1>6 DEF Administration, DeleteRoles, GrantRoles, SetActive, locals
<1>7. ASSUME Restart
      PROVE  /\ pc[r] = "write"
             /\ UNCHANGED <<call, seen, decided>>
  BY <1>0, <1>7 DEF Restart, tables, locals
<1>8. ASSUME UNCHANGED vars
      PROVE  UNCHANGED <<pc, call, seen, decided>>
  BY <1>8 DEF vars
<1>9. ASSUME Restart
      PROVE  /\ seen'[r].approvedBy # NoUser
             /\ <<seen'[r].approvedBy, "APPROVED">> \in decided'[call'[r].movement]
  BY <1>7, <1>9 DEF TrailInv, Carried
<1> QED BY <1>1, <1>2, <1>3, <1>4, <1>5, <1>6, <1>8, <1>9 DEF Next

LEMMA TrailNext == TrailInv /\ [Next]_vars => TrailInv'
<1> SUFFICES ASSUME TrailInv, [Next]_vars PROVE TrailInv'
  OBVIOUS
<1>1. Placed /\ Placed' /\ Carried'
  BY PlacedNext, CarriedNext DEF TrailInv
<1>2. /\ movements \in [Movements -> Row \cup {NoRow}]
      /\ decided \in [Movements -> SUBSET (Users \X Statuses)]
      /\ \A r \in Requests : call[r].user \in Users
  BY <1>1, CallShape DEF Placed, TypeOK
<1>3. CASE UNCHANGED <<movements, decided>>
  BY <1>1, <1>3 DEF TrailInv, Untouched, ApproverIsDecider
<1>4. ASSUME NEW r \in Requests, Insert(r) PROVE TrailInv'
  <2>1. PICK m \in Movements :
          /\ movements[m] = NoRow
          /\ movements' = [movements EXCEPT ![m] = NewRow(r)]
          /\ NewRow(r) # NoRow
          /\ NewRow(r).status = "PENDING"
          /\ NewRow(r).approvedBy = NoUser
    BY <1>1, <1>4, InsertEffect
  <2>2. decided' = decided
    BY <1>4 DEF Insert
  <2> QED BY <1>1, <1>2, <2>1, <2>2 DEF TrailInv, Untouched, ApproverIsDecider
<1>5. ASSUME NEW r \in Requests, Write(r) PROVE TrailInv'
  <2> DEFINE m == call[r].movement
             status == Requested[call[r].op]
             user == call[r].user
  <2>1. PICK row \in Row :
          /\ m \in Movements /\ movements[m] \in Row
          /\ movements' = [movements EXCEPT ![m] = row]
          /\ row.status = status
          /\ row.approvedBy = Approver(r)
    BY <1>1, <1>5, WriteEffect
  <2>2. decided' = [decided EXCEPT ![m] = @ \cup {<<user, status>>}]
    BY <1>5 DEF Write
  <2>3. \/ status \in {"APPROVED", "REJECTED"} /\ Approver(r) = user
        \/ /\ status = "DELIVERED"
           /\ <<Approver(r), "APPROVED">> \in decided[m]
    <3>1. pc[r] = "write" /\ call[r].op \in Decisions
      BY <1>1, <1>5 DEF Write, Placed, WellPlaced
    <3>2. CASE call[r].op = "deliver"
      <4>1. /\ seen[r].approvedBy # NoUser
            /\ <<seen[r].approvedBy, "APPROVED">> \in decided[m]
        BY <3>1, <3>2 DEF TrailInv, Carried
      <4>2. Approver(r) = seen[r].approvedBy
        BY <3>2, <4>1 DEF Approver
      <4>3. status = "DELIVERED"
        BY <3>2 DEF Requested
      <4> QED BY <4>1, <4>2, <4>3
    <3>3. CASE call[r].op \in {"approve", "reject"}
      BY <3>3 DEF Approver, Requested
    <3> QED BY <3>1, <3>2, <3>3 DEF Decisions
  <2>4. user \in Users
    BY <1>2
  <2> HIDE DEF m, status, user
  <2>5. ApproverIsDecider'
    <3> SUFFICES ASSUME NEW n \in Movements, movements'[n] # NoRow
                 PROVE  LET s == movements'[n].status
                            a == movements'[n].approvedBy
                        IN  /\ s = "PENDING" => a = NoUser /\ decided'[n] = {}
                            /\ s \in {"APPROVED", "REJECTED"} => <<a, s>> \in decided'[n]
                            /\ s = "DELIVERED" =>
                                 /\ <<a, "APPROVED">> \in decided'[n]
                                 /\ \E u \in Users : <<u, "DELIVERED">> \in decided'[n]
      BY DEF ApproverIsDecider
    <3>1. CASE n # m
      BY <1>2, <2>1, <2>2, <3>1 DEF TrailInv, ApproverIsDecider
    <3>2. CASE n = m
      BY <1>2, <2>1, <2>2, <2>3, <2>4, <3>2
    <3> QED BY <3>1, <3>2
  <2>6. Untouched'
    BY <1>2, <2>1, <2>2 DEF TrailInv, Untouched
  <2> QED BY <1>1, <2>5, <2>6 DEF TrailInv
<1> QED BY <1>1, <1>3, <1>4, <1>5, TableSteps

\* ApproverIsDecider of CashMovements: with any number of racing decisions,
\* approvedBy names someone who really took the decision the row shows.
THEOREM TrailIsTrue == Spec => []ApproverIsDecider
<1>1. TrailInv => ApproverIsDecider
  BY DEF TrailInv
<1> QED BY <1>1, TrailInit, TrailNext, PTL DEF Spec

-----------------------------------------------------------------------------
\* What no step does to a row.
Frozen(m) ==
  /\ movements'[m] # NoRow
  /\ movements'[m].organization = movements[m].organization
  /\ movements'[m].branch = movements[m].branch
  /\ movements'[m].createdBy = movements[m].createdBy
  /\ movements'[m].status = "PENDING" => movements[m].status = "PENDING"

LEMMA FrozenNext ==
  ASSUME Placed, [Next]_vars, NEW m \in Movements, movements[m] # NoRow
  PROVE  Frozen(m)
<1>1. movements \in [Movements -> Row \cup {NoRow}]
  BY DEF Placed, TypeOK
<1>2. CASE UNCHANGED movements
  BY <1>2 DEF Frozen
<1>3. ASSUME NEW r \in Requests, Insert(r) PROVE Frozen(m)
  <2>1. PICK n \in Movements :
          /\ movements[n] = NoRow
          /\ movements' = [movements EXCEPT ![n] = NewRow(r)]
    BY <1>3, InsertEffect
  <2>2. movements'[m] = movements[m]
    BY <1>1, <2>1
  <2> QED BY <2>2 DEF Frozen
<1>4. ASSUME NEW r \in Requests, Write(r) PROVE Frozen(m)
  <2> DEFINE n == call[r].movement
  <2>1. PICK row \in Row :
          /\ n \in Movements /\ movements[n] \in Row
          /\ movements' = [movements EXCEPT ![n] = row]
          /\ row.organization = movements[n].organization
          /\ row.branch = movements[n].branch
          /\ row.createdBy = movements[n].createdBy
          /\ row.status = Requested[call[r].op]
    BY <1>4, WriteEffect
  <2>2. Requested[call[r].op] # "PENDING"
    BY <1>4 DEF Placed, WellPlaced, Write, Requested, Decisions
  <2> HIDE DEF n
  <2>3. CASE m = n
    BY <1>1, <2>1, <2>2, <2>3 DEF Frozen
  <2>4. CASE m # n
    BY <1>1, <2>1, <2>4 DEF Frozen
  <2> QED BY <2>3, <2>4
<1> QED BY <1>2, <1>3, <1>4, TableSteps

\* FactsFrozen of CashMovements: rows stay, keep organization, branch and
\* creator, and once decided are never pending again.
THEOREM FactsStayFrozen == Spec => FactsFrozen
<1>1. Placed /\ [Next]_vars =>
        [\A m \in Movements : movements[m] # NoRow =>
           /\ movements'[m] # NoRow
           /\ movements'[m].organization = movements[m].organization
           /\ movements'[m].branch = movements[m].branch
           /\ movements'[m].createdBy = movements[m].createdBy
           /\ movements'[m].status = "PENDING" => movements[m].status = "PENDING"]_vars
  BY FrozenNext DEF Frozen
<1> QED BY <1>1, PlacedAlways, PTL DEF Spec, FactsFrozen

-----------------------------------------------------------------------------
\* Separation of duties.  The roles the guard reads are among those the user
\* ever holds; a request past the guard has therefore a user who at some time
\* held a role of its route, whatever has become of his roles since.
RolesEverHeld == \A u \in Users : roles[u] \subseteq EverHeld(u)

Authorized(r) ==
  /\ pc[r] = "insert" => call[r].op = "create"
  /\ pc[r] \in {"service", "branch", "insert"} /\ call[r].op = "create"
       => EverHeld(call[r].user) \cap {"OPERATOR", "ADMIN"} # {}
  /\ pc[r] \in {"load", "write"}
       => EverHeld(call[r].user) \cap {"MANAGER", "ADMIN"} # {}

DutyInv ==
  /\ Placed /\ Untouched
  /\ RolesEverHeld
  /\ \A r \in Requests : Authorized(r)
  /\ SeparationOfDuties

\* What PermissionsGuard grants: a role of the route is held.
LEMMA AdmitsARole ==
  ASSUME NEW op \in Decisions \cup {"create"}, NEW held, Admits(op, held)
  PROVE  /\ op = "create" => held \cap {"OPERATOR", "ADMIN"} # {}
         /\ op \in Decisions => held \cap {"MANAGER", "ADMIN"} # {}
  BY DEF Admits, HoldsRequiredRole, RequiredRoles, Decisions

LEMMA DutyInit == Init => DutyInv
<1> SUFFICES ASSUME Init PROVE DutyInv
  OBVIOUS
<1>1. Placed
  BY PlacedInit
<1>2. Untouched /\ SeparationOfDuties
  BY DEF Init, Untouched, SeparationOfDuties
<1>3. RolesEverHeld
  BY DEF Init, RolesEverHeld, EverHeld
<1>4. \A r \in Requests : Authorized(r)
  BY DEF Init, Authorized
<1> QED BY <1>1, <1>2, <1>3, <1>4 DEF DutyInv

\* An administrator grants only what Grants lists.
LEMMA RolesEverHeldNext ==
  ASSUME Placed, RolesEverHeld, [Next]_vars
  PROVE  RolesEverHeld'
<1>1. roles \in [Users -> SUBSET Roles]
  BY DEF Placed, TypeOK
<1>2. CASE UNCHANGED roles
  BY <1>2 DEF RolesEverHeld, EverHeld
<1>3. ASSUME NEW u, DeleteRoles(u) PROVE RolesEverHeld'
  BY <1>1, <1>3 DEF DeleteRoles, RolesEverHeld, EverHeld
<1>4. ASSUME NEW g \in Grants, GrantRoles(g[1], g[2]) PROVE RolesEverHeld'
  <2>1. g[2] \subseteq EverHeld(g[1])
    BY DEF EverHeld
  <2>2. roles' = [roles EXCEPT ![g[1]] = @ \cup g[2]]
    BY <1>4 DEF GrantRoles
  <2>3. ASSUME NEW u \in Users PROVE roles'[u] \subseteq EverHeld(u)
    BY <1>1, <2>1, <2>2 DEF RolesEverHeld
  <2> QED BY <2>3 DEF RolesEverHeld, EverHeld
<1>5. ASSUME NEW r \in Requests, Step(r) PROVE UNCHANGED roles
  BY <1>5 DEF Step, GuardUser, GuardRoles, ReadRolesToCreate, ReadRolesToList,
              CheckBranch, Insert, Query, Load, Write, tables
<1>6. ASSUME NEW r \in Requests, NEW c \in Offered, Submit(r, c)
      PROVE  UNCHANGED roles
  BY <1>6 DEF Submit, tables
<1>7. ASSUME NEW u, NEW value, SetActive(u, value) PROVE UNCHANGED roles
  BY <1>7 DEF SetActive
<1>8. CASE Restart
  BY <1>2, <1>8 DEF Restart, tables
<1>9. CASE UNCHANGED vars
  BY <1>2, <1>9 DEF vars
<1> QED BY <1>2, <1>3, <1>4, <1>5, <1>6, <1>7, <1>8, <1>9 DEF Next, Administration

\* Where a request goes when it takes a step, and that its call stays.
LEMMA StepMoves ==
  ASSUME Placed, NEW r \in Requests, Step(r)
  PROVE  /\ call' = call
         /\ \A q \in Requests : q # r => pc'[q] = pc[q]
         /\ \/ pc'[r] \in {"answered", "roles"}
            \/ /\ pc[r] = "roles" /\ Admits(call[r].op, roles[call[r].user])
               /\ pc'[r] = IF call[r].op \in Decisions THEN "load" ELSE "service"
            \/ pc[r] = "service" /\ pc'[r] \in {"branch", "query"}
            \/ /\ pc[r] = "branch"
               /\ pc'[r] = IF call[r].op = "create" THEN "insert" ELSE "query"
            \/ pc[r] = "load" /\ pc'[r] = "write"
<1>1. pc \in [Requests -> Points]
  BY DEF Placed, TypeOK
<1>2. CASE GuardUser(r) \/ GuardRoles(r)
  BY <1>1, <1>2 DEF GuardUser, GuardRoles, GoTo, Answer, locals
<1>3. CASE ReadRolesToCreate(r)
  BY <1>1, <1>3 DEF ReadRolesToCreate, GoTo, Answer
<1>4. CASE ReadRolesToList(r)
  BY <1>1, <1>4 DEF ReadRolesToList, GoTo, Answer
<1>5. CASE CheckBranch(r)
  BY <1>1, <1>5 DEF CheckBranch, GoTo, Answer, locals
<1>6. CASE Insert(r) \/ Query(r) \/ Write(r)
  BY <1>1, <1>6 DEF Insert, Query, Write, Answer, locals
<1>7. CASE Load(r)
  BY <1>1, <1>7 DEF Load, GoTo, Answer
<1> QED BY <1>2, <1>3, <1>4, <1>5, <1>6, <1>7 DEF Step

\* A request stays authorized: the guard lets it past only with a role of its
\* route, and nothing after the guard changes its caller.
LEMMA AuthorizedNext ==
  ASSUME DutyInv, [Next]_vars, NEW r \in Requests
  PROVE  Authorized(r)'
<1>1. /\ pc \in [Requests -> Points]
      /\ call \in [Requests -> Calls]
      /\ call[r].user \in Users
      /\ call[r].op \in Decisions \cup {"create", "list"}
  BY CallShape DEF DutyInv, Placed, TypeOK
<1>2. Placed /\ Authorized(r) /\ WellPlaced(r) /\ RolesEverHeld
  BY DEF DutyInv, Placed
<1>3. CASE pc'[r] = pc[r] /\ call'[r] = call[r]
  BY <1>2, <1>3 DEF Authorized, EverHeld
<1>4. CASE pc'[r] \in {"free", "guard", "roles", "answered"}
  BY <1>4 DEF Authorized
<1>5. ASSUME Step(r) PROVE Authorized(r)'
  <2>1. call'[r] = call[r]
    BY <1>2, <1>5, StepMoves
  <2>2. ASSUME pc[r] = "roles", Admits(call[r].op, roles[call[r].user]),
               pc'[r] = IF call[r].op \in Decisions THEN "load" ELSE "service"
        PROVE  Authorized(r)'
    <3>1. roles[call[r].user] \subseteq EverHeld(call[r].user)
      BY <1>1, <1>2 DEF RolesEverHeld
    <3>2. /\ call[r].op = "create"
               => EverHeld(call[r].user) \cap {"OPERATOR", "ADMIN"} # {}
          /\ call[r].op \in Decisions
               => EverHeld(call[r].user) \cap {"MANAGER", "ADMIN"} # {}
      BY <1>1, <2>2, <3>1, AdmitsARole
    <3> QED BY <2>1, <2>2, <3>2 DEF Authorized, EverHeld
  <2>3. ASSUME pc[r] = "service", pc'[r] \in {"branch", "query"}
        PROVE  Authorized(r)'
    BY <1>2, <2>1, <2>3 DEF Authorized, EverHeld
  <2>4. ASSUME pc[r] = "branch",
               pc'[r] = IF call[r].op = "create" THEN "insert" ELSE "query"
        PROVE  Authorized(r)'
    BY <1>2, <2>1, <2>4 DEF Authorized, EverHeld
  <2>5. ASSUME pc[r] = "load", pc'[r] = "write"
        PROVE  Authorized(r)'
    BY <1>2, <2>1, <2>5 DEF Authorized, EverHeld
  <2> QED BY <1>2, <1>4, <1>5, <2>2, <2>3, <2>4, <2>5, StepMoves
<1>6. ASSUME NEW q \in Requests, q # r, Step(q) PROVE Authorized(r)'
  BY <1>2, <1>3, <1>6, StepMoves
<1>7. ASSUME NEW q \in Requests, NEW c \in Offered, Submit(q, c)
      PROVE  Authorized(r)'
  BY <1>1, <1>3, <1>4, <1>7 DEF Submit
<1>8. CASE Administration
  BY <1>3, <1>8 DEF Administration, DeleteRoles, GrantRoles, SetActive, locals
<1>9. CASE Restart
  BY <1>1, <1>3, <1>4, <1>9 DEF Restart, locals
<1>10. CASE UNCHANGED vars
  BY <1>3, <1>10 DEF vars
<1> QED BY <1>5, <1>6, <1>7, <1>8, <1>9, <1>10 DEF Next

LEMMA DutyNext == DutyInv /\ [Next]_vars => DutyInv'
<1> SUFFICES ASSUME DutyInv, [Next]_vars PROVE DutyInv'
  OBVIOUS
<1>1. /\ Placed /\ Placed' /\ RolesEverHeld'
      /\ \A r \in Requests : Authorized(r)'
  BY PlacedNext, RolesEverHeldNext, AuthorizedNext DEF DutyInv
<1>2. /\ movements \in [Movements -> Row \cup {NoRow}]
      /\ decided \in [Movements -> SUBSET (Users \X Statuses)]
  BY <1>1 DEF Placed, TypeOK
<1>3. CASE UNCHANGED <<movements, decided>>
  BY <1>1, <1>3 DEF DutyInv, Untouched, SeparationOfDuties, EverHeld
<1>4. ASSUME NEW r \in Requests, Insert(r) PROVE DutyInv'
  <2>1. PICK m \in Movements :
          /\ movements[m] = NoRow
          /\ movements' = [movements EXCEPT ![m] = NewRow(r)]
          /\ NewRow(r) # NoRow
          /\ NewRow(r).createdBy = call[r].user
    BY <1>1, <1>4, InsertEffect
  <2>2. decided' = decided
    BY <1>4 DEF Insert
  <2>3. EverHeld(call[r].user) \cap {"OPERATOR", "ADMIN"} # {}
    BY <1>4 DEF Insert, DutyInv, Authorized
  <2>4. decided[m] = {}
    BY <2>1 DEF DutyInv, Untouched
  <2>5. SeparationOfDuties'
    <3> SUFFICES ASSUME NEW n \in Movements, movements'[n] # NoRow
                 PROVE  /\ EverHeld(movements'[n].createdBy) \cap {"OPERATOR", "ADMIN"} # {}
                        /\ \A e \in decided'[n] : EverHeld(e[1]) \cap {"MANAGER", "ADMIN"} # {}
      BY DEF SeparationOfDuties, EverHeld
    <3>1. CASE n = m
      <4>1. movements'[n].createdBy = call[r].user /\ decided'[n] = {}
        BY <1>2, <2>1, <2>2, <2>4, <3>1
      <4> QED BY <2>3, <4>1
    <3>2. CASE n # m
      <4>1. movements'[n] = movements[n] /\ decided'[n] = decided[n]
        BY <1>2, <2>1, <2>2, <3>2
      <4> QED BY <4>1 DEF DutyInv, SeparationOfDuties
    <3> QED BY <3>1, <3>2
  <2>6. Untouched'
    BY <1>2, <2>1, <2>2 DEF DutyInv, Untouched
  <2> QED BY <1>1, <2>5, <2>6 DEF DutyInv
<1>5. ASSUME NEW r \in Requests, Write(r) PROVE DutyInv'
  <2> DEFINE m == call[r].movement
             d == <<call[r].user, Requested[call[r].op]>>
  <2>1. PICK row \in Row :
          /\ m \in Movements /\ movements[m] \in Row
          /\ movements' = [movements EXCEPT ![m] = row]
          /\ row.createdBy = movements[m].createdBy
    BY <1>1, <1>5, WriteEffect
  <2>2. decided' = [decided EXCEPT ![m] = @ \cup {d}]
    BY <1>5 DEF Write
  <2>3. EverHeld(d[1]) \cap {"MANAGER", "ADMIN"} # {}
    BY <1>5 DEF Write, DutyInv, Authorized
  <2> HIDE DEF m, d
  <2>4. SeparationOfDuties'
    <3> SUFFICES ASSUME NEW n \in Movements, movements'[n] # NoRow
                 PROVE  /\ EverHeld(movements'[n].createdBy) \cap {"OPERATOR", "ADMIN"} # {}
                        /\ \A e \in decided'[n] : EverHeld(e[1]) \cap {"MANAGER", "ADMIN"} # {}
      BY DEF SeparationOfDuties, EverHeld
    <3>1. movements[n] # NoRow /\ movements'[n].createdBy = movements[n].createdBy
      BY <1>2, <2>1
    <3>2. decided'[n] \subseteq decided[n] \cup {d}
      BY <1>2, <2>1, <2>2
    <3> QED BY <2>3, <3>1, <3>2 DEF DutyInv, SeparationOfDuties
  <2>5. Untouched'
    BY <1>2, <2>1, <2>2 DEF DutyInv, Untouched
  <2> QED BY <1>1, <2>4, <2>5 DEF DutyInv
<1> QED BY <1>1, <1>3, <1>4, <1>5, TableSteps

\* SeparationOfDuties of CashMovements: who never holds a role of a route
\* never has its effect, although the roles read are old when the row is
\* written.
THEOREM DutiesSeparated == Spec => []SeparationOfDuties
<1>1. DutyInv => SeparationOfDuties
  BY DEF DutyInv
<1> QED BY <1>1, DutyInit, DutyNext, PTL DEF Spec

-----------------------------------------------------------------------------
\* The scope of a listing.  From the moment the service has chosen the branch
\* until the query runs, the branch obeys what was asked and, for someone the
\* service took for an operator, is his own; until the query nothing is listed.
Scoped(r) ==
  /\ InProgress(r) => listed[r] = {}
  /\ pc[r] = "query" => call[r].op = "list"
  /\ pc[r] \in {"branch", "query"} /\ call[r].op = "list" =>
       /\ call[r].branch # NoBranch => scope[r] = call[r].branch
       /\ asOperator[r] => scope[r] = UserBranch[call[r].user] /\ scope[r] # NoBranch

\* What ListedInScope says of one request.
ListsItsOwn(r) ==
  \A m \in listed[r] :
    /\ movements[m] # NoRow
    /\ movements[m].organization = UserOrg[call[r].user]
    /\ call[r].branch \in {NoBranch, movements[m].branch}
    /\ asOperator[r] => movements[m].branch = UserBranch[call[r].user]

ScopeInv == Placed /\ \A r \in Requests : Scoped(r) /\ ListsItsOwn(r)

LEMMA ScopeInit == Init => ScopeInv
  BY PlacedInit DEF Init, ScopeInv, Scoped, ListsItsOwn, InProgress

\* A request that neither moves nor changes its choice keeps its scope, and
\* the rows it listed stay where they were.
LEMMA ScopeKept ==
  ASSUME ScopeInv, [Next]_vars, NEW r \in Requests,
         call'[r] = call[r], scope'[r] = scope[r],
         asOperator'[r] = asOperator[r], listed'[r] = listed[r]
  PROVE  /\ ListsItsOwn(r)'
         /\ pc'[r] = pc[r] => Scoped(r)'
<1>1. Placed /\ Scoped(r) /\ ListsItsOwn(r)
  BY DEF ScopeInv
<1>2. listed[r] \subseteq Movements
  BY <1>1 DEF Placed, TypeOK
<1>3. ListsItsOwn(r)'
  BY <1>1, <1>2, FrozenNext DEF ListsItsOwn, Frozen
<1>4. ASSUME pc'[r] = pc[r] PROVE Scoped(r)'
  BY <1>1, <1>4 DEF Scoped, InProgress
<1> QED BY <1>3, <1>4

\* A step of the request itself.
LEMMA ScopeStep ==
  ASSUME ScopeInv, NEW r \in Requests, Step(r)
  PROVE  Scoped(r)' /\ ListsItsOwn(r)'
<1>1. /\ pc \in [Requests -> Points]
      /\ scope \in [Requests -> Branches \cup {NoBranch}]
      /\ asOperator \in [Requests -> BOOLEAN]
      /\ listed \in [Requests -> SUBSET Movements]
      /\ call[r].op \in Decisions \cup {"create", "list"}
  BY CallShape DEF ScopeInv, Placed, TypeOK
<1>2. Placed /\ WellPlaced(r) /\ Scoped(r) /\ ListsItsOwn(r) /\ [Next]_vars
  BY DEF ScopeInv, Placed, Next
<1>3. CASE Query(r)
  <2>1. /\ call[r].op = "list" /\ pc'[r] = "answered"
        /\ listed'[r] = {m \in Movements : movements[m] # NoRow /\ InScope(r, movements[m])}
        /\ UNCHANGED <<movements, call, scope, asOperator>>
    BY <1>1, <1>2, <1>3 DEF Query, Scoped, Answer, tables
  <2>2. pc[r] = "query"
    BY <1>3 DEF Query
  <2>3. Scoped(r)'
    BY <2>1 DEF Scoped, InProgress
  <2>4. ASSUME NEW m \in listed'[r]
        PROVE  /\ movements[m] # NoRow
               /\ movements[m].organization = UserOrg[call[r].user]
               /\ call[r].branch \in {NoBranch, movements[m].branch}
               /\ asOperator[r] => movements[m].branch = UserBranch[call[r].user]
    <3>1. /\ movements[m] # NoRow
          /\ movements[m].organization = UserOrg[call[r].user]
          /\ scope[r] \in {NoBranch, movements[m].branch}
      BY <2>1, <2>4 DEF InScope
    <3>2. /\ call[r].branch # NoBranch => scope[r] = call[r].branch
          /\ asOperator[r] => scope[r] = UserBranch[call[r].user] /\ scope[r] # NoBranch
      BY <1>2, <2>1, <2>2 DEF Scoped
    <3> QED BY <3>1, <3>2
  <2>5. ListsItsOwn(r)'
    BY <2>1, <2>4 DEF ListsItsOwn
  <2> QED BY <2>3, <2>5
<1>4. CASE ReadRolesToCreate(r) \/ ReadRolesToList(r)
  <2>1. listed[r] = {} /\ UNCHANGED <<call, listed>>
    BY <1>2, <1>4 DEF ReadRolesToCreate, ReadRolesToList, Scoped, InProgress
  <2>2. ListsItsOwn(r)'
    BY <2>1 DEF ListsItsOwn
  <2>3. CASE ReadRolesToCreate(r)
    <3>1. call[r].op = "create" /\ pc'[r] \in {"answered", "branch"}
      BY <1>1, <2>3 DEF ReadRolesToCreate, GoTo, Answer
    <3> QED BY <2>1, <2>2, <3>1 DEF Scoped
  <2>4. CASE ReadRolesToList(r)
    <3> DEFINE isOperator == "OPERATOR" \in roles[call[r].user]
    <3>1. /\ call[r].op = "list" /\ pc'[r] \in {"answered", "branch", "query"}
          /\ asOperator'[r] = isOperator
          /\ scope'[r] = IF isOperator THEN UserBranch[call[r].user] ELSE call[r].branch
      BY <1>1, <2>4 DEF ReadRolesToList, ListBranch, GoTo, Answer
    <3>2. \/ pc'[r] = "answered"
          \/ /\ isOperator /\ UserBranch[call[r].user] # NoBranch
             /\ call[r].branch \in {NoBranch, UserBranch[call[r].user]}
          \/ ~isOperator
      BY <1>1, <2>4 DEF ReadRolesToList, GoTo, Answer
    <3> HIDE DEF isOperator
    <3> QED BY <2>1, <2>2, <3>1, <3>2 DEF Scoped, InProgress
  <2> QED BY <1>4, <2>3, <2>4
<1>5. CASE ~(Query(r) \/ ReadRolesToCreate(r) \/ ReadRolesToList(r))
  <2>1. UNCHANGED <<call, scope, asOperator, listed>>
    BY <1>5 DEF Step, GuardUser, GuardRoles, CheckBranch, Insert, Load, Write, locals
  <2>2. InProgress(r)
    BY DEF Step, GuardUser, GuardRoles, ReadRolesToCreate, ReadRolesToList,
           CheckBranch, Insert, Query, Load, Write, InProgress
  <2>3. ListsItsOwn(r)'
    BY <1>2, <2>1, ScopeKept
  <2>4. \/ pc'[r] \notin {"branch", "query"}
        \/ /\ pc[r] = "branch"
           /\ pc'[r] = "query" /\ call[r].op # "create"
    BY <1>1, <1>5 DEF Step, GuardUser, GuardRoles, CheckBranch, Insert, Load, Write,
                      GoTo, Answer
  <2>5. pc'[r] = "query" => call[r].op = "list"
    BY <1>1, <1>2, <2>4 DEF WellPlaced
  <2>6. Scoped(r)'
    BY <1>2, <2>1, <2>2, <2>4, <2>5 DEF Scoped, InProgress
  <2> QED BY <2>3, <2>6
<1> QED BY <1>3, <1>4, <1>5

LEMMA ScopeNext == ScopeInv /\ [Next]_vars => ScopeInv'
<1> SUFFICES ASSUME ScopeInv, [Next]_vars, NEW r \in Requests
             PROVE  Scoped(r)' /\ ListsItsOwn(r)'
  BY PlacedNext DEF ScopeInv
<1>1. /\ pc \in [Requests -> Points]
      /\ scope \in [Requests -> Branches \cup {NoBranch}]
      /\ asOperator \in [Requests -> BOOLEAN]
      /\ listed \in [Requests -> SUBSET Movements]
      /\ call \in [Requests -> Calls]
  BY DEF ScopeInv, Placed, TypeOK
<1>2. CASE UNCHANGED <<pc, call, scope, asOperator, listed>>
  BY <1>2, ScopeKept
<1>3. ASSUME NEW q \in Requests, Step(q), q # r
      PROVE  Scoped(r)' /\ ListsItsOwn(r)'
  <2>1. pc'[r] = pc[r] /\ call'[r] = call[r]
    BY <1>3, StepMoves DEF ScopeInv
  <2>2. scope'[r] = scope[r] /\ asOperator'[r] = asOperator[r] /\ listed'[r] = listed[r]
    BY <1>1, <1>3 DEF Step, GuardUser, GuardRoles, ReadRolesToCreate, ReadRolesToList,
                      CheckBranch, Insert, Query, Load, Write, locals
  <2> QED BY <2>1, <2>2, ScopeKept
<1>4. ASSUME NEW q \in Requests, NEW c \in Offered, Submit(q, c)
      PROVE  Scoped(r)' /\ ListsItsOwn(r)'
  <2>1. CASE q = r
    <3>1. pc'[r] = "guard" /\ listed'[r] = {}
      BY <1>1, <1>4, <2>1 DEF Submit
    <3> QED BY <3>1 DEF Scoped, ListsItsOwn
  <2>2. CASE q # r
    <3>1. /\ pc'[r] = pc[r] /\ call'[r] = call[r] /\ scope'[r] = scope[r]
          /\ asOperator'[r] = asOperator[r] /\ listed'[r] = listed[r]
      BY <1>1, <1>4, <2>2 DEF Submit
    <3> QED BY <3>1, ScopeKept
  <2> QED BY <2>1, <2>2
<1>5. CASE Administration
  BY <1>2, <1>5 DEF Administration, DeleteRoles, GrantRoles, SetActive, locals
<1>6. CASE Restart
  <2>1. /\ UNCHANGED <<call, scope, asOperator, listed>>
        /\ pc'[r] = pc[r] \/ pc'[r] = "free"
    BY <1>1, <1>6 DEF Restart, locals
  <2>2. ListsItsOwn(r)' /\ (pc'[r] = pc[r] => Scoped(r)')
    BY <2>1, ScopeKept
  <2>3. pc'[r] = "free" => Scoped(r)'
    BY DEF Scoped, InProgress
  <2> QED BY <2>1, <2>2, <2>3
<1>7. CASE UNCHANGED vars
  BY <1>2, <1>7 DEF vars
<1> QED BY <1>3, <1>4, <1>5, <1>6, <1>7, ScopeStep DEF Next

\* ListedInScope of CashMovements: no listing, however long ago its branch was
\* checked and its caller's roles were read, shows a row outside its scope.
THEOREM ListingsInScope == Spec => []ListedInScope
<1>1. ScopeInv => ListedInScope
  BY DEF ScopeInv, ListsItsOwn, ListedInScope
<1> QED BY <1>1, ScopeInit, ScopeNext, PTL DEF Spec

-----------------------------------------------------------------------------
\* One request at a time: what a decision has read when it writes is what the
\* row still is, for nobody else writes.
Serial == \A r, q \in Requests : r = q

Current ==
  \A r \in Requests : pc[r] = "write" =>
    movements[call[r].movement].status = Expected[call[r].op]

SerialInv == Placed /\ Current

LEMMA SerialInit == Init => SerialInv
  BY PlacedInit DEF Init, SerialInv, Current

LEMMA SerialNext == Serial /\ SerialInv /\ [Next]_vars => SerialInv'
<1> SUFFICES ASSUME Serial, SerialInv, [Next]_vars, NEW r \in Requests, pc'[r] = "write"
             PROVE  movements'[call'[r].movement].status = Expected[call'[r].op]
  BY PlacedNext DEF SerialInv, Current
<1>1. /\ pc \in [Requests -> Points]
      /\ Placed
  BY DEF SerialInv, Placed, TypeOK
<1>2. CASE pc[r] = "write" /\ UNCHANGED <<movements, call>>
  BY <1>2 DEF SerialInv, Current
<1>3. ASSUME Load(r)
      PROVE  movements'[call'[r].movement].status = Expected[call'[r].op]
  BY <1>1, <1>3 DEF Load, GoTo, Answer, tables
<1>4. ASSUME NEW q \in Requests, Step(q), ~Load(q)
      PROVE  FALSE
  <2>1. q = r
    BY DEF Serial
  <2>2. pc[q] # "load" /\ pc'[q] = "write"
    BY <2>1, <1>1, <1>4 DEF Step, GuardUser, GuardRoles, ReadRolesToCreate,
       ReadRolesToList, CheckBranch, Insert, Query, Write, GoTo, Answer
  <2> QED BY <1>1, <1>4, <2>2, StepMoves
<1>5. ASSUME NEW q \in Requests, NEW c \in Offered, Submit(q, c)
      PROVE  FALSE
  <2>1. q = r
    BY DEF Serial
  <2> QED BY <1>1, <1>5, <2>1 DEF Submit
<1>6. CASE Administration
  BY <1>2, <1>6 DEF Administration, DeleteRoles, GrantRoles, SetActive, locals
<1>7. CASE Restart
  BY <1>1, <1>2, <1>7 DEF Restart, tables, locals
<1>8. CASE UNCHANGED vars
  BY <1>2, <1>8 DEF vars
<1>9. ASSUME NEW q \in Requests, Load(q)
      PROVE  movements'[call'[r].movement].status = Expected[call'[r].op]
  <2>1. q = r
    BY DEF Serial
  <2> QED BY <1>3, <1>9, <2>1
<1> QED BY <1>4, <1>5, <1>6, <1>7, <1>8, <1>9 DEF Next

\* The status of each movement, as LifecycleSpec maps it.
StatusMap ==
  [m \in Movements |-> IF movements[m] = NoRow THEN "ABSENT" ELSE movements[m].status]

LEMMA LifecycleInit == Init => Lifecycle!Init
  BY DEF Init, Lifecycle!Init, Lifecycle!Absent

\* An insert is a creation, a write the step its operation is named for, and
\* everything else leaves every status alone.
LEMMA LifecycleStep ==
  ASSUME SerialInv, [Next]_vars
  PROVE  [Lifecycle!Next]_StatusMap
<1>1. /\ Placed
      /\ movements \in [Movements -> Row \cup {NoRow}]
  BY DEF SerialInv, Placed, TypeOK
<1>2. CASE UNCHANGED movements
  BY <1>2 DEF StatusMap
<1>3. ASSUME NEW r \in Requests, Insert(r) PROVE Lifecycle!Next
  <2>1. PICK m \in Movements :
          /\ movements[m] = NoRow
          /\ movements' = [movements EXCEPT ![m] = NewRow(r)]
          /\ NewRow(r) # NoRow
          /\ NewRow(r).status = "PENDING"
    BY <1>1, <1>3, InsertEffect
  <2>2. /\ StatusMap[m] = "ABSENT"
        /\ StatusMap' = [StatusMap EXCEPT ![m] = "PENDING"]
    BY <1>1, <2>1 DEF StatusMap
  <2>3. Lifecycle!Create(m)
    BY <2>2 DEF Lifecycle!Create, Lifecycle!Move, Lifecycle!Absent, StatusMap
  <2> QED BY <2>3 DEF Lifecycle!Next
<1>4. ASSUME NEW r \in Requests, Write(r) PROVE Lifecycle!Next
  <2>1. PICK m \in Movements, op \in Decisions :
          /\ movements[m] \in Row /\ movements[m].status = Expected[op]
          /\ \E row \in Row : /\ movements' = [movements EXCEPT ![m] = row]
                              /\ row.status = Requested[op]
    <3>1. pc[r] = "write" /\ call[r].op \in Decisions
      BY <1>1, <1>4 DEF Write, Placed, WellPlaced
    <3> QED BY <1>1, <1>4, <3>1, WriteEffect DEF SerialInv, Current
  <2>2. /\ StatusMap[m] = Expected[op]
        /\ StatusMap' = [StatusMap EXCEPT ![m] = Requested[op]]
    BY <1>1, <2>1 DEF StatusMap
  <2>3. Lifecycle!Move(m, Expected[op], Requested[op])
    BY <2>2 DEF Lifecycle!Move, StatusMap
  <2>4. Lifecycle!Approve(m) \/ Lifecycle!Reject(m) \/ Lifecycle!Deliver(m)
    BY <2>3 DEF Lifecycle!Approve, Lifecycle!Reject, Lifecycle!Deliver,
       Decisions, Expected, Requested
  <2> QED BY <2>4 DEF Lifecycle!Next
<1> QED BY <1>1, <1>2, <1>3, <1>4, TableSteps

\* LifecycleSpec of CashMovements, a refinement: when requests do not overlap,
\* every movement is created pending, decided once and delivered once.  That
\* they do not overlap is needed: OnlyPendingIsDecided fails otherwise.
THEOREM SerialLifecycle ==
  ASSUME Serial
  PROVE  Spec => LifecycleSpec
<1>1. SerialInv /\ [Next]_vars => SerialInv'
  BY SerialNext
<1>2. SerialInv /\ [Next]_vars => [Lifecycle!Next]_StatusMap
  BY LifecycleStep
<1> QED BY <1>1, <1>2, SerialInit, LifecycleInit, PTL
        DEF Spec, LifecycleSpec, Lifecycle!Spec, StatusMap
=============================================================================
