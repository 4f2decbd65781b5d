------------------------- MODULE UserDirectoryProofs -------------------------
(***************************************************************************)
(* Theorems about UserDirectory, for any number of accounts, organizations *)
(* and requests in progress.                                               *)
(***************************************************************************)
EXTENDS UserDirectory, TLAPS

Guarded == {"createUser", "updateUser", "removeUser", "listUsers"}
OnTarget == {"updateUser", "removeUser", "readUser"}

\* Past the target reads: the target exists, in the caller's organization.
PastTarget == {"admin", "found", "data", "delete", "grant", "reread", "deactivate"}

\* Past the first roles read of the guard: the caller holds ADMIN, or did.
PastGuard ==
  {"user2", "roles2", "list", "exists", "insert", "found", "data", "delete",
   "grant", "reread", "deactivate"}

\* What a request may rely on at each of its program points.
WellPlaced(r) ==
  /\ InProgress(r) => accounts[call[r].caller] # Absent
  /\ pc[r] \in {"user1", "roles1", "user2", "roles2"} => call[r].op \in Guarded
  /\ pc[r] \in {"exists", "insert"} =>
       call[r].op = "createUser" /\ call[r].email # Keep /\ call[r].roles # {}
  /\ call[r].op = "createUser" => call[r].email # Keep /\ call[r].roles # {}
  /\ pc[r] = "insert" => AllKnown(call[r])
  /\ pc[r] = "find" => call[r].op = "readUser"
  /\ pc[r] \in {"target", "admin"} => call[r].op \in OnTarget
  /\ pc[r] \in {"target", "admin"} /\ call[r].op # "readUser" => call[r].caller \in admins
  /\ pc[r] \in PastTarget => InOrganization(r, call[r].target)
  /\ pc[r] \in PastGuard => call[r].caller \in admins
  /\ pc[r] \in {"delete", "grant"} => call[r].roles # {} /\ AllKnown(call[r])

\* Rows stay, each in its organization, and the history of ADMIN only grows.
Stays ==
  /\ \A a \in Accounts :
       accounts[a] # Absent =>
         accounts'[a] # Absent /\ accounts'[a].organization = accounts[a].organization
  /\ admins \subseteq admins'

\* Whoever changed a was an administrator of its organization.
ChangedFromWithin(a) ==
  \A c \in by[a] :
    /\ accounts[c] # Absent /\ accounts[c].organization = accounts[a].organization
    /\ c \in admins

\* An account without a role is between the two statements of a rewrite.
RoleKept(a) ==
  accounts[a] # Absent /\ roles[a] = {} /\ a \notin cut =>
    \E r \in Requests : pc[r] = "grant" /\ call[r].target = a

DirectoryInv ==
  /\ DirectoryTypeOK
  /\ HoldersOfAdmin(roles) \subseteq admins
  /\ \A r \in Requests : WellPlaced(r)
  /\ \A a \in Accounts : ChangedFromWithin(a) /\ RoleKept(a)
  /\ \A a \in Accounts : InitialAccounts[a] # Absent => accounts[a] # Absent

LEMMA CallFields ==
  ASSUME NEW c \in Calls
  PROVE  /\ c.op \in Guarded \cup {"readUser"}
         /\ c.caller \in Accounts /\ c.target \in Accounts
         /\ c.email \in Emails \cup {Keep} /\ c.active \in BOOLEAN \cup {Keep}
         /\ c.roles \subseteq RoleNames
  BY DEF Calls, Operations, Guarded

\* All the routes behind the guard are an administrator's: users.read and
\* users.write come with no other role.
LEMMA OnlyAdmins ==
  ASSUME NEW held \in SUBSET Roles, NEW op \in Guarded, Admits(op, held)
  PROVE  "ADMIN" \in held
<1>1. CASE op = "listUsers"
  BY <1>1 DEF Admits, HoldsRequiredRole, RequiredRoles
<1>2. CASE op # "listUsers"
  <2>1. RequiredPermissions[op] = {"users.write"}
    BY <1>2 DEF Guarded, RequiredPermissions
  <2>2. PICK role \in held : "users.write" \in RolePermissions[role]
    BY <2>1 DEF Admits, PermissionsOf
  <2> QED BY <2>2 DEF RolePermissions, Roles
<1> QED BY <1>1, <1>2

LEMMA DirectoryInit == Init => DirectoryInv
<1> SUFFICES ASSUME Init PROVE DirectoryInv
  OBVIOUS
<1> USE DirectoryAssumption
<1>1. NoCall \in Calls /\ NoCall.op = "listUsers"
  <2>1. (CHOOSE a \in Accounts : TRUE) \in Accounts
    OBVIOUS
  <2> QED BY <2>1 DEF NoCall, Calls, Operations
<1>2. DirectoryTypeOK
  BY <1>1 DEF Init, DirectoryTypeOK, Points, Answers, Unused, HoldersOfAdmin
<1>3. ASSUME NEW r \in Requests PROVE WellPlaced(r)
  BY <1>1 DEF Init, WellPlaced, InProgress, PastTarget, PastGuard
<1>4. ASSUME NEW a \in Accounts PROVE ChangedFromWithin(a) /\ RoleKept(a)
  BY DEF Init, ChangedFromWithin, RoleKept
<1> QED BY <1>2, <1>3, <1>4 DEF DirectoryInv, Init

-----------------------------------------------------------------------------
\* The four ways a step writes to the tables; all the other steps leave them.
Inserts(r, a) ==
  /\ accounts[a] = Absent /\ ~Clash(a, call[r].email)
  /\ accounts' = [accounts EXCEPT ![a] =
       [organization |-> CallerOrg(r), email |-> call[r].email, active |-> TRUE]]
  /\ roles' = [roles EXCEPT ![a] = call[r].roles]
  /\ Changed(r, a)
  /\ admins' = admins \cup HoldersOfAdmin(roles')
  /\ UNCHANGED cut

Writes(r) ==
  /\ \E row \in Account :
       /\ row.organization = accounts[call[r].target].organization
       /\ \/ row.email = accounts[call[r].target].email
          \/ ~Clash(call[r].target, row.email)
       /\ accounts' = [accounts EXCEPT ![call[r].target] = row]
  /\ Changed(r, call[r].target)
  /\ UNCHANGED <<roles, admins, cut>>

Deletes(r) ==
  /\ roles' = [roles EXCEPT ![call[r].target] = {}]
  /\ Changed(r, call[r].target)
  /\ pc' = [pc EXCEPT ![r] = "grant"]
  /\ UNCHANGED <<accounts, admins, cut>>

Grants(r) ==
  /\ roles' = [roles EXCEPT ![call[r].target] = @ \cup call[r].roles]
  /\ admins' = admins \cup HoldersOfAdmin(roles')
  /\ UNCHANGED <<accounts, by, cut>>

LEMMA InsertEffect ==
  ASSUME DirectoryTypeOK, NEW r \in Requests, WellPlaced(r), Insert(r)
  PROVE  UNCHANGED tables \/ \E a \in Accounts : Inserts(r, a)
<1>1. Known(call[r]) = call[r].roles
  BY DEF Insert, WellPlaced, AllKnown, Known
<1> QED BY <1>1 DEF Insert, Inserts, Unused

LEMMA WriteEffect ==
  ASSUME DirectoryTypeOK, NEW r \in Requests, WellPlaced(r),
         NEW email \in Emails \cup {Keep}, NEW active \in BOOLEAN \cup {Keep},
         email = Keep \/ ~Clash(call[r].target, email),
         accounts' = [accounts EXCEPT ![call[r].target] = WithData(@, email, active)],
         Changed(r, call[r].target), UNCHANGED <<roles, admins, cut>>,
         pc[r] \in PastTarget
  PROVE  Writes(r)
<1>1. call[r].target \in Accounts
  BY CallFields DEF DirectoryTypeOK
<1>2. accounts[call[r].target] \in Account
  BY <1>1 DEF DirectoryTypeOK, WellPlaced, InOrganization
<1> DEFINE row == WithData(accounts[call[r].target], email, active)
<1>3. /\ row \in Account /\ row.organization = accounts[call[r].target].organization
      /\ \/ row.email = accounts[call[r].target].email
         \/ ~Clash(call[r].target, row.email)
  BY <1>2, DirectoryAssumption DEF WithData, Account
<1>4. accounts' = [accounts EXCEPT ![call[r].target] = row]
  OBVIOUS
<1> HIDE DEF row
<1> QED BY <1>3, <1>4 DEF Writes

LEMMA TablesEffect ==
  ASSUME DirectoryTypeOK, NEW r \in Requests, WellPlaced(r), Step(r)
  PROVE  \/ UNCHANGED tables
         \/ \E a \in Accounts : pc[r] = "insert" /\ Inserts(r, a)
         \/ pc[r] \in {"data", "deactivate"} /\ Writes(r)
         \/ pc[r] = "delete" /\ Deletes(r)
         \/ pc[r] = "grant" /\ Grants(r)
<1>1. CASE \/ GuardUser(r) \/ GuardRoles(r) \/ List(r) \/ CheckAccess(r)
           \/ FindFirst(r, "find", "target") \/ FindFirst(r, "target", "admin")
           \/ FindFirst(r, "found", IF call[r].op = "removeUser" THEN "deactivate" ELSE "data")
           \/ CheckNew(r) \/ Reread(r)
  BY <1>1 DEF GuardUser, GuardRoles, List, CheckAccess, FindFirst, CheckNew, Reread
<1>2. CASE Insert(r)
  BY <1>2, InsertEffect DEF Insert
<1>3. call[r].email \in Emails \cup {Keep} /\ call[r].active \in BOOLEAN \cup {Keep}
  BY CallFields DEF DirectoryTypeOK
<1>4. CASE UpdateData(r)
  <2>1. CASE UNCHANGED tables
    BY <2>1
  <2>2. CASE ~UNCHANGED tables
    <3>1. /\ accounts' = [accounts EXCEPT ![call[r].target] =
               WithData(@, call[r].email, call[r].active)]
          /\ Changed(r, call[r].target) /\ UNCHANGED <<roles, admins, cut>>
          /\ pc[r] = "data"
          /\ call[r].email = Keep \/ ~Clash(call[r].target, call[r].email)
      BY <1>4, <2>2 DEF UpdateData, EmailClash
    <3> QED BY <1>3, <3>1, WriteEffect DEF PastTarget
  <2> QED BY <2>1, <2>2
<1>5. CASE Deactivate(r)
  <2>1. /\ accounts' = [accounts EXCEPT ![call[r].target] = WithData(@, Keep, FALSE)]
        /\ Changed(r, call[r].target) /\ UNCHANGED <<roles, admins, cut>>
        /\ pc[r] = "deactivate"
    BY <1>5 DEF Deactivate
  <2> QED BY <2>1, WriteEffect DEF PastTarget
<1>6. CASE DeleteRoles(r)
  BY <1>6 DEF DeleteRoles, Deletes, Remaining, GoTo
<1>7. CASE GrantRoles(r)
  <2>1. Known(call[r]) = call[r].roles
    BY <1>7 DEF GrantRoles, WellPlaced, AllKnown, Known
  <2> QED BY <1>7, <2>1 DEF GrantRoles, Grants
<1> QED BY <1>1, <1>2, <1>4, <1>5, <1>6, <1>7 DEF Step

LEMMA StepStays ==
  ASSUME DirectoryTypeOK, NEW r \in Requests, WellPlaced(r), Step(r)
  PROVE  Stays
<1>1. /\ call[r].target \in Accounts
      /\ accounts \in [Accounts -> Account \cup {Absent}]
  BY CallFields DEF DirectoryTypeOK
<1>2. CASE UNCHANGED accounts /\ admins \subseteq admins'
  BY <1>2 DEF Stays
<1>3. CASE Writes(r)
  BY <1>1, <1>3, DirectoryAssumption DEF Stays, Writes
<1>4. ASSUME NEW a \in Accounts, Inserts(r, a) PROVE Stays
  BY <1>1, <1>4 DEF Stays, Inserts
<1> QED BY <1>2, <1>3, <1>4, TablesEffect DEF tables, Deletes, Grants

-----------------------------------------------------------------------------
\* A step moves one request.
LEMMA StepMoves ==
  ASSUME DirectoryTypeOK, NEW r \in Requests, WellPlaced(r), Step(r)
  PROVE  /\ call' = call
         /\ pc' \in [Requests -> Points] /\ answer' \in [Requests -> Answers]
         /\ \A p \in Requests : p # r => pc'[p] = pc[p]
         /\ pc[r] \notin {"free", "answered"}
<1> USE DEF DirectoryTypeOK, GoTo, Answer, Points, Answers
<1>1. CASE GuardUser(r)
  BY <1>1 DEF GuardUser
<1>2. CASE GuardRoles(r)
  <2>1. call[r].op \in Guarded => FirstPoint[call[r].op] \in Points
    BY DEF FirstPoint, Guarded
  <2>2. call[r].op \in Guarded
    BY <1>2 DEF GuardRoles, WellPlaced
  <2> QED BY <1>2, <2>1, <2>2 DEF GuardRoles
<1>3. CASE List(r) \/ CheckAccess(r) \/ CheckNew(r) \/ Reread(r)
  BY <1>3 DEF List, CheckAccess, CheckNew, Reread
<1>4. CASE \/ FindFirst(r, "find", "target") \/ FindFirst(r, "target", "admin")
           \/ FindFirst(r, "found", IF call[r].op = "removeUser" THEN "deactivate" ELSE "data")
  BY <1>4 DEF FindFirst
<1>5. CASE Insert(r)
  BY <1>5 DEF Insert
<1>6. CASE UpdateData(r)
  BY <1>6 DEF UpdateData, AfterData
<1>7. CASE DeleteRoles(r) \/ GrantRoles(r) \/ Deactivate(r)
  BY <1>7 DEF DeleteRoles, GrantRoles, Deactivate
<1> QED BY <1>1, <1>2, <1>3, <1>4, <1>5, <1>6, <1>7 DEF Step

LEMMA StepType ==
  ASSUME DirectoryTypeOK, NEW r \in Requests, WellPlaced(r), Step(r)
  PROVE  DirectoryTypeOK'
<1>1. /\ accounts \in [Accounts -> Account \cup {Absent}]
      /\ roles \in [Accounts -> SUBSET Roles]
      /\ \A a \in Accounts : accounts[a] = Absent => roles[a] = {} /\ by[a] = {}
      /\ by \in [Accounts -> SUBSET Accounts]
      /\ admins \subseteq Accounts /\ cut \subseteq Accounts
      /\ call \in [Requests -> Calls]
      /\ OneEach(accounts)
  BY DEF DirectoryTypeOK, Unused
<1>2. /\ call[r].target \in Accounts /\ call[r].caller \in Accounts
      /\ call[r].email \in Emails \cup {Keep}
  BY <1>1, CallFields
<1>3. pc[r] \in PastTarget => accounts[call[r].target] # Absent
  BY DEF WellPlaced, InOrganization
<1> DEFINE Goal == /\ accounts' \in [Accounts -> Account \cup {Absent}] /\ OneEach(accounts')
                   /\ roles' \in [Accounts -> SUBSET Roles]
                   /\ \A a \in Accounts : accounts'[a] = Absent => roles'[a] = {} /\ by'[a] = {}
                   /\ by' \in [Accounts -> SUBSET Accounts]
                   /\ admins' \subseteq Accounts /\ cut' \subseteq Accounts
<1> SUFFICES Goal
  BY <1>1, StepMoves DEF DirectoryTypeOK, Unused
<1>4. CASE UNCHANGED tables
  BY <1>1, <1>4 DEF tables
<1>5. ASSUME NEW a \in Accounts, pc[r] = "insert", Inserts(r, a) PROVE Goal
  <2>1. accounts[call[r].caller] \in Account /\ call[r].email \in Emails
    BY <1>1, <1>2, <1>5 DEF WellPlaced, InProgress
  <2>2. [organization |-> CallerOrg(r), email |-> call[r].email, active |-> TRUE] \in Account
    BY <2>1 DEF Account, CallerOrg
  <2>3. call[r].roles \subseteq Roles
    BY <1>5 DEF WellPlaced, AllKnown
  <2>4. accounts' \in [Accounts -> Account \cup {Absent}] /\ accounts'[a] # Absent
    BY <1>1, <1>5, <2>2, DirectoryAssumption DEF Inserts
  <2>5. roles' \in [Accounts -> SUBSET Roles] /\ by' \in [Accounts -> SUBSET Accounts]
    BY <1>1, <1>2, <1>5, <2>3 DEF Inserts, Changed
  <2>6. ASSUME NEW b \in Accounts, accounts'[b] = Absent PROVE roles'[b] = {} /\ by'[b] = {}
    <3>1. b # a /\ accounts[b] = Absent
      BY <1>1, <1>5, <2>4, <2>6 DEF Inserts
    <3> QED BY <1>1, <1>5, <3>1 DEF Inserts, Changed
  <2>7. admins' \subseteq Accounts /\ cut' \subseteq Accounts
    BY <1>1, <1>5 DEF Inserts, HoldersOfAdmin
  <2>8. OneEach(accounts')
    BY <1>1, <1>5 DEF Inserts, OneEach, Clash
  <2> QED BY <2>4, <2>5, <2>6, <2>7, <2>8
<1>6. CASE pc[r] \in PastTarget /\ Writes(r)
  <2>1. PICK row \in Account :
          /\ accounts' = [accounts EXCEPT ![call[r].target] = row]
          /\ \/ row.email = accounts[call[r].target].email
             \/ ~Clash(call[r].target, row.email)
    BY <1>6 DEF Writes
  <2>2. accounts' \in [Accounts -> Account \cup {Absent}] /\ roles' = roles
    BY <1>1, <1>6, <2>1 DEF Writes
  <2>3. by' \in [Accounts -> SUBSET Accounts] /\ admins' = admins /\ cut' = cut
    BY <1>1, <1>2, <1>6 DEF Writes, Changed
  <2>4. ASSUME NEW b \in Accounts, accounts'[b] = Absent PROVE roles'[b] = {} /\ by'[b] = {}
    <3>1. b # call[r].target /\ accounts[b] = Absent
      BY <1>1, <1>2, <2>1, <2>4, DirectoryAssumption
    <3> QED BY <1>1, <1>6, <3>1 DEF Writes, Changed
  <2>5. OneEach(accounts')
    BY <1>1, <1>2, <1>3, <1>6, <2>1 DEF OneEach, Clash
  <2> QED BY <1>1, <2>2, <2>3, <2>4, <2>5
<1>7. CASE pc[r] \in PastTarget /\ Deletes(r)
  BY <1>1, <1>2, <1>3, <1>7 DEF Deletes, Changed
<1>8. CASE pc[r] = "grant" /\ Grants(r)
  <2>1. call[r].roles \subseteq Roles
    BY <1>8 DEF WellPlaced, AllKnown
  <2> QED BY <1>1, <1>2, <1>3, <1>8, <2>1 DEF Grants, HoldersOfAdmin, PastTarget
<1> QED BY <1>4, <1>5, <1>6, <1>7, <1>8, TablesEffect DEF PastTarget

\* Where a request has come to.
LEMMA StepPlaced ==
  ASSUME DirectoryInv, NEW r \in Requests, Step(r)
  PROVE  WellPlaced(r)'
<1>1. DirectoryTypeOK /\ WellPlaced(r) /\ HoldersOfAdmin(roles) \subseteq admins
  BY DEF DirectoryInv
<1>2. /\ Stays /\ call' = call /\ pc[r] \notin {"free", "answered"}
      /\ pc \in [Requests -> Points]
  BY <1>1, StepStays, StepMoves DEF DirectoryTypeOK
<1>3. call[r].caller \in Accounts /\ call[r].target \in Accounts
  BY <1>1, CallFields DEF DirectoryTypeOK
<1>4. /\ accounts'[call[r].caller] # Absent
      /\ InOrganization(r, call[r].target) => InOrganization(r, call[r].target)'
      /\ call[r].caller \in admins => call[r].caller \in admins'
  BY <1>1, <1>2, <1>3 DEF WellPlaced, InProgress, Stays, InOrganization, CallerOrg
<1> USE DEF WellPlaced, InProgress, PastTarget, PastGuard, GoTo, Answer, AllKnown
<1>5. CASE GuardUser(r)
  BY <1>1, <1>2, <1>4, <1>5 DEF GuardUser
<1>6. CASE GuardRoles(r)
  <2>1. call[r].op \in Guarded
    BY <1>1, <1>6 DEF GuardRoles
  <2>2. Admits(call[r].op, roles[call[r].caller]) => call[r].caller \in admins
    BY <1>1, <1>3, <2>1, OnlyAdmins DEF HoldersOfAdmin, DirectoryTypeOK
  <2>3. \/ call[r].op = "listUsers" /\ FirstPoint[call[r].op] = "list"
        \/ call[r].op = "createUser" /\ FirstPoint[call[r].op] = "exists"
        \/ call[r].op \in {"updateUser", "removeUser"} /\ FirstPoint[call[r].op] = "target"
    BY <2>1 DEF Guarded, FirstPoint
  <2> QED BY <1>1, <1>2, <1>4, <1>6, <2>1, <2>2, <2>3 DEF GuardRoles, OnTarget
<1>7. CASE List(r) \/ Reread(r)
  BY <1>1, <1>2, <1>4, <1>7 DEF List, Reread
<1>8. CASE FindFirst(r, "find", "target")
  BY <1>1, <1>2, <1>4, <1>8 DEF FindFirst, OnTarget
<1>9. CASE FindFirst(r, "target", "admin")
  BY <1>1, <1>2, <1>4, <1>9 DEF FindFirst
<1>10. CASE CheckAccess(r)
  BY <1>1, <1>2, <1>4, <1>10 DEF CheckAccess
<1>11. CASE FindFirst(r, "found", IF call[r].op = "removeUser" THEN "deactivate" ELSE "data")
  BY <1>1, <1>2, <1>4, <1>11 DEF FindFirst
<1>12. CASE CheckNew(r)
  BY <1>1, <1>2, <1>4, <1>12 DEF CheckNew
<1>13. CASE Insert(r) \/ Deactivate(r)
  BY <1>1, <1>2, <1>4, <1>13 DEF Insert, Deactivate
<1>14. CASE UpdateData(r)
  <2>1. /\ pc[r] = "data"
        /\ \/ pc' = [pc EXCEPT ![r] = "reread"]
           \/ pc' = [pc EXCEPT ![r] = "answered"]
           \/ pc' = [pc EXCEPT ![r] = "delete"] /\ call[r].roles # {} /\ AllKnown(call[r])
    BY <1>14 DEF UpdateData, AfterData
  <2> QED BY <1>1, <1>2, <1>4, <2>1
<1>15. CASE DeleteRoles(r)
  BY <1>1, <1>2, <1>4, <1>15 DEF DeleteRoles
<1>16. CASE GrantRoles(r)
  BY <1>1, <1>2, <1>4, <1>16 DEF GrantRoles
<1> QED BY <1>5, <1>6, <1>7, <1>8, <1>9, <1>10, <1>11, <1>12, <1>13, <1>14, <1>15, <1>16 DEF Step

\* Whoever changes an account has passed the guard and the target read.
LEMMA StepFromWithin ==
  ASSUME DirectoryInv, NEW r \in Requests, Step(r), NEW a \in Accounts
  PROVE  ChangedFromWithin(a)'
<1>1. DirectoryTypeOK /\ WellPlaced(r) /\ ChangedFromWithin(a)
  BY DEF DirectoryInv
<1>2. Stays
  BY <1>1, StepStays
<1>3. /\ call[r].caller \in Accounts /\ call[r].target \in Accounts
      /\ by \in [Accounts -> SUBSET Accounts]
      /\ accounts[a] = Absent => by[a] = {}
  BY <1>1, CallFields DEF DirectoryTypeOK, Unused
<1>4. ASSUME NEW c \in by[a]
      PROVE  /\ accounts'[c] # Absent /\ accounts'[c].organization = accounts'[a].organization
             /\ c \in admins'
  <2>1. accounts[a] # Absent /\ accounts[c] # Absent /\ c \in Accounts
    BY <1>1, <1>3 DEF ChangedFromWithin
  <2> QED BY <1>1, <1>2, <2>1 DEF ChangedFromWithin, Stays
<1>5. CASE by'[a] = by[a]
  BY <1>4, <1>5 DEF ChangedFromWithin
<1>6. ASSUME Changed(r, a),
             /\ accounts'[call[r].caller] # Absent
             /\ accounts'[call[r].caller].organization = accounts'[a].organization
             /\ call[r].caller \in admins'
      PROVE  ChangedFromWithin(a)'
  BY <1>3, <1>4, <1>6 DEF Changed, ChangedFromWithin
<1>7. /\ pc[r] \in PastTarget \cup {"insert"} => accounts[call[r].caller] # Absent
      /\ pc[r] \in PastGuard => call[r].caller \in admins
      /\ pc[r] \in PastTarget => /\ accounts[call[r].target] # Absent
                                 /\ accounts[call[r].target].organization = CallerOrg(r)
  BY <1>1 DEF WellPlaced, InProgress, InOrganization, PastTarget
<1>8. CASE /\ pc[r] \in PastTarget \cap PastGuard /\ call[r].target = a
           /\ Changed(r, call[r].target)
  BY <1>2, <1>3, <1>6, <1>7, <1>8 DEF Stays, CallerOrg
<1>9. CASE pc[r] = "insert" /\ Inserts(r, a)
  <2>1. accounts'[a].organization = CallerOrg(r)
    BY <1>1, <1>9 DEF Inserts, DirectoryTypeOK
  <2> QED BY <1>2, <1>3, <1>6, <1>7, <1>9, <2>1 DEF Stays, CallerOrg, PastGuard, Inserts
<1> QED BY <1>1, <1>3, <1>5, <1>8, <1>9, TablesEffect
    DEF tables, Inserts, Writes, Deletes, Grants, Changed, PastTarget, PastGuard

\* A role set is emptied on the way to "grant", and left there with the roles
\* asked for, or with those the primary key found.
LEMMA StepRoleKept ==
  ASSUME DirectoryInv, NEW r \in Requests, Step(r), NEW a \in Accounts
  PROVE  RoleKept(a)'
<1>1. DirectoryTypeOK /\ WellPlaced(r) /\ RoleKept(a)
  BY DEF DirectoryInv
<1>2. /\ call' = call /\ call[r].target \in Accounts /\ pc \in [Requests -> Points]
      /\ roles \in [Accounts -> SUBSET Roles]
      /\ accounts \in [Accounts -> Account \cup {Absent}]
      /\ \A p \in Requests : p # r => pc'[p] = pc[p]
  BY <1>1, StepMoves, CallFields DEF DirectoryTypeOK
<1>3. CASE pc[r] = "grant" /\ call[r].target = a
  <2>1. GrantRoles(r)
    BY <1>3 DEF Step, GuardUser, GuardRoles, List, FindFirst, CheckAccess, CheckNew,
       Insert, UpdateData, DeleteRoles, Reread, Deactivate
  <2>2. Known(call[r]) # {}
    BY <1>1, <1>3 DEF WellPlaced, AllKnown, Known
  <2>3. roles'[a] # {}
    BY <1>2, <1>3, <2>1, <2>2 DEF GrantRoles, tables
  <2> QED BY <2>3 DEF RoleKept
<1>4. CASE ~(pc[r] = "grant" /\ call[r].target = a)
  <2>1. ASSUME accounts[a] # Absent, roles[a] = {}, a \notin cut
        PROVE  \E p \in Requests : pc'[p] = "grant" /\ call'[p].target = a
    <3>1. PICK p \in Requests : pc[p] = "grant" /\ call[p].target = a
      BY <1>1, <2>1 DEF RoleKept
    <3>2. p # r
      BY <1>4, <3>1
    <3> QED BY <1>2, <3>1, <3>2
  <2>2. CASE UNCHANGED tables
    BY <2>1, <2>2 DEF tables, RoleKept
  <2>3. CASE pc[r] \in PastTarget /\ Writes(r)
    <3>1. accounts[a] = Absent => a # call[r].target
      BY <1>1, <2>3 DEF WellPlaced, InOrganization
    <3>2. UNCHANGED <<roles, cut>> /\ (accounts[a] = Absent => accounts'[a] = Absent)
      BY <1>2, <2>3, <3>1 DEF Writes
    <3> QED BY <2>1, <3>2 DEF RoleKept
  <2>4. ASSUME NEW b \in Accounts, pc[r] = "insert", Inserts(r, b) PROVE RoleKept(a)'
    <3>1. CASE b = a
      BY <1>1, <1>2, <2>4, <3>1 DEF Inserts, WellPlaced, RoleKept
    <3>2. CASE b # a
      BY <1>2, <2>1, <2>4, <3>2 DEF Inserts, RoleKept
    <3> QED BY <3>1, <3>2
  <2>5. CASE Deletes(r)
    <3>1. CASE call[r].target = a
      BY <1>2, <2>5, <3>1 DEF Deletes, RoleKept
    <3>2. CASE call[r].target # a
      BY <1>2, <2>1, <2>5, <3>2 DEF Deletes, RoleKept
    <3> QED BY <3>1, <3>2
  <2>6. CASE pc[r] = "grant" /\ Grants(r)
    BY <1>2, <1>4, <2>1, <2>6 DEF Grants, RoleKept
  <2> QED BY <1>1, <2>2, <2>3, <2>4, <2>5, <2>6, TablesEffect DEF PastTarget
<1> QED BY <1>3, <1>4

-----------------------------------------------------------------------------
LEMMA StepInv ==
  ASSUME DirectoryInv, NEW r \in Requests, Step(r)
  PROVE  DirectoryInv'
<1>1. DirectoryTypeOK /\ WellPlaced(r)
  BY DEF DirectoryInv
<1>2. /\ Stays /\ call' = call
      /\ \A p \in Requests : p # r => pc'[p] = pc[p]
  BY <1>1, StepStays, StepMoves
<1>3. HoldersOfAdmin(roles)' \subseteq admins'
  <2>1. HoldersOfAdmin(roles) \subseteq admins
    BY DEF DirectoryInv
  <2>2. CASE UNCHANGED <<roles, admins>>
    BY <2>1, <2>2
  <2>3. CASE Deletes(r)
    <3>1. HoldersOfAdmin(roles') \subseteq HoldersOfAdmin(roles)
      BY <1>1, <2>3 DEF Deletes, HoldersOfAdmin, DirectoryTypeOK
    <3> QED BY <2>1, <2>3, <3>1 DEF Deletes
  <2>4. CASE admins' = admins \cup HoldersOfAdmin(roles')
    BY <2>4
  <2> QED BY <1>1, <2>2, <2>3, <2>4, TablesEffect DEF tables, Writes, Inserts, Grants
<1>4. ASSUME NEW p \in Requests PROVE WellPlaced(p)'
  <2>1. CASE p = r
    BY <2>1, StepPlaced
  <2>2. CASE p # r
    <3>1. WellPlaced(p) /\ pc'[p] = pc[p]
      BY <1>2, <2>2 DEF DirectoryInv
    <3>2. call[p].caller \in Accounts /\ call[p].target \in Accounts
      BY <1>1, CallFields DEF DirectoryTypeOK
    <3> QED BY <1>2, <3>1, <3>2
        DEF WellPlaced, Stays, InProgress, InOrganization, CallerOrg, AllKnown, PastTarget
  <2> QED BY <2>1, <2>2
<1>5. DirectoryTypeOK'
  BY <1>1, StepType
<1>6. ASSUME NEW a \in Accounts PROVE ChangedFromWithin(a)' /\ RoleKept(a)'
  BY StepFromWithin, StepRoleKept
<1>7. \A a \in Accounts : InitialAccounts[a] # Absent => accounts'[a] # Absent
  BY <1>2 DEF DirectoryInv, Stays
<1> QED BY <1>3, <1>4, <1>5, <1>6, <1>7 DEF DirectoryInv

LEMMA DirectoryNext == DirectoryInv /\ [Next]_vars => DirectoryInv'
<1> SUFFICES ASSUME DirectoryInv, [Next]_vars PROVE DirectoryInv'
  OBVIOUS
<1>1. DirectoryTypeOK
  BY DEF DirectoryInv
<1>2. ASSUME NEW r \in Requests, NEW c \in Offered, Submit(r, c) PROVE DirectoryInv'
  <2>1. /\ UNCHANGED tables /\ pc[r] \in {"free", "answered"}
        /\ pc' = [pc EXCEPT ![r] = IF c.op = "readUser" THEN "find" ELSE "user1"]
        /\ call' = [call EXCEPT ![r] = c]
        /\ answer' = [answer EXCEPT ![r] = "none"]
    BY <1>2 DEF Submit, InProgress
  <2>2. /\ c \in Calls /\ c.op \in Guarded \cup {"readUser"} /\ c.caller \in Accounts
        /\ InitialAccounts[c.caller] # Absent
        /\ c.op = "createUser" => c.email # Keep /\ c.roles # {}
    BY CallFields, DirectoryAssumption
  <2>3. accounts[c.caller] # Absent
    BY <2>2 DEF DirectoryInv
  <2>4. DirectoryTypeOK'
    BY <1>1, <2>1, <2>2 DEF DirectoryTypeOK, tables, Points, Answers, Unused
  <2>5. WellPlaced(r)'
    <3>1. call'[r] = c /\ pc'[r] = IF c.op = "readUser" THEN "find" ELSE "user1"
      BY <1>1, <2>1 DEF DirectoryTypeOK
    <3> QED BY <2>1, <2>2, <2>3, <3>1
        DEF WellPlaced, InProgress, tables, PastTarget, PastGuard
  <2>6. ASSUME NEW p \in Requests, p # r PROVE WellPlaced(p)'
    <3>1. WellPlaced(p) /\ pc'[p] = pc[p] /\ call'[p] = call[p]
      BY <1>1, <2>1, <2>6 DEF DirectoryInv, DirectoryTypeOK
    <3> QED BY <2>1, <3>1
        DEF WellPlaced, InProgress, InOrganization, CallerOrg, AllKnown, tables
  <2>7. ASSUME NEW a \in Accounts PROVE ChangedFromWithin(a)' /\ RoleKept(a)'
    <3>1. ChangedFromWithin(a) /\ RoleKept(a)
      BY DEF DirectoryInv
    <3>2. ChangedFromWithin(a)'
      BY <2>1, <3>1 DEF ChangedFromWithin, tables
    <3>3. \A p \in Requests : pc[p] = "grant" => pc'[p] = "grant" /\ call'[p] = call[p]
      BY <1>1, <2>1 DEF DirectoryTypeOK
    <3> QED BY <2>1, <3>1, <3>2, <3>3 DEF RoleKept, tables
  <2> QED BY <2>1, <2>4, <2>5, <2>6, <2>7 DEF DirectoryInv, tables
<1>3. CASE Restart
  <2>1. /\ UNCHANGED <<accounts, roles, by, admins, call, answer>>
        /\ pc' = [r \in Requests |-> IF InProgress(r) THEN "free" ELSE pc[r]]
        /\ cut' = cut \cup {call[r].target : r \in {q \in Requests : pc[q] = "grant"}}
    BY <1>3 DEF Restart
  <2>2. DirectoryTypeOK'
    <3>1. \A r \in Requests : call[r].target \in Accounts
      BY <1>1, CallFields DEF DirectoryTypeOK
    <3> QED BY <1>1, <2>1, <3>1 DEF DirectoryTypeOK, Points, Unused
  <2>3. ASSUME NEW p \in Requests PROVE WellPlaced(p)'
    <3>1. WellPlaced(p) /\ pc'[p] \in {"free", "answered"}
      BY <2>1 DEF DirectoryInv, InProgress
    <3> QED BY <2>1, <3>1 DEF WellPlaced, InProgress, PastTarget, PastGuard
  <2>4. ASSUME NEW a \in Accounts PROVE ChangedFromWithin(a)' /\ RoleKept(a)'
    <3>1. ChangedFromWithin(a) /\ RoleKept(a)
      BY DEF DirectoryInv
    <3>2. ChangedFromWithin(a)'
      BY <2>1, <3>1 DEF ChangedFromWithin
    <3>3. (\E r \in Requests : pc[r] = "grant" /\ call[r].target = a) => a \in cut'
      BY <2>1
    <3> QED BY <2>1, <3>1, <3>2, <3>3 DEF RoleKept
  <2> QED BY <2>1, <2>2, <2>3, <2>4 DEF DirectoryInv
<1>4. CASE UNCHANGED vars
  BY <1>4 DEF vars, tables, DirectoryInv, DirectoryTypeOK, Unused, HoldersOfAdmin, WellPlaced,
     InProgress, InOrganization, CallerOrg, ChangedFromWithin, RoleKept
<1> QED BY <1>2, <1>3, <1>4, StepInv DEF Next

LEMMA DirectoryAlways == Spec => []DirectoryInv
  BY DirectoryInit, DirectoryNext, PTL DEF Spec

-----------------------------------------------------------------------------
\* DirectoryTypeOK of UserDirectory: every variable keeps to its domain, no row
\* is half filled, no id without a row has roles, only seeded roles are granted.
THEOREM DirectoryTypeCorrect == Spec => []DirectoryTypeOK
<1>1. DirectoryInv => DirectoryTypeOK
  BY DEF DirectoryInv
<1> QED BY <1>1, DirectoryAlways, PTL

\* ChangedByAdmins of UserDirectory: whoever created, changed or deactivated an
\* account was of its organization and has held ADMIN, for any overlap of
\* requests that demote or deactivate each other's callers.
THEOREM AdministeredFromWithin == Spec => []ChangedByAdmins
<1>1. DirectoryInv => ChangedByAdmins
  BY DEF DirectoryInv, ChangedFromWithin, ChangedByAdmins
<1> QED BY <1>1, DirectoryAlways, PTL

\* RolelessOnlyIfCut of UserDirectory: any number of overlapping rewrites leave
\* an account with a role, unless a restart cut one of them in two.
THEOREM RolelessAfterCutOnly == Spec => []RolelessOnlyIfCut
<1>1. DirectoryInv => RolelessOnlyIfCut
  BY DEF DirectoryInv, RoleKept, RolelessOnlyIfCut, Rewriting
<1> QED BY <1>1, DirectoryAlways, PTL
=============================================================================
