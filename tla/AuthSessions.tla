---------------------------- MODULE AuthSessions ----------------------------
(***************************************************************************)
(* AuthService: register, login, refresh, logout, forgot, reset and change *)
(* password, each a chain of database statements with other requests, a    *)
(* deactivation, an expiry or a restart in between.                        *)
(*                                                                         *)
(* A refresh token is known by the session id (sid) it carries: one token  *)
(* is signed per session, and the signature makes any other worthless.     *)
(* Hence the bcrypt comparison of refresh and logout always succeeds once  *)
(* the session is found: the stored hash is that of the only token with    *)
(* this sid.  The branch under "reuse detection" is never taken.           *)
(*                                                                         *)
(* A statement takes effect at one instant, but a transaction of reset or  *)
(* change does not: at PostgreSQL's READ COMMITTED its DELETE only sees    *)
(* the rows committed when that statement began, and everything becomes    *)
(* visible at COMMIT.                                                      *)
(*                                                                         *)
(* The login lock is a component of its own (LoginAttempts); here it may   *)
(* refuse any login.  Time is the choice to let a row expire.              *)
(***************************************************************************)
EXTENDS Naturals, FiniteSets

CONSTANTS
  Users, Passwords, Sessions, ResetTokens, Requests,
  NoPassword, NoSession, NoUser, NoCall,
  Unused, Deleted,      \* a row id not used yet, and one whose row is gone
  Registered,           \* the users that exist at the start, and
  InitialPassword,      \* their passwords
  Offered,              \* the calls clients make
  Administered,         \* the users administrators deactivate and activate
  MaxUpdates            \* bound on the password updates clients ask for

Calls ==
  [op : {"register", "login"}, user : Users, password : Passwords]
  \cup [op : {"refresh", "logout"}, session : Sessions]
  \cup [op : {"forgot"}, user : Users]
  \cup [op : {"reset"}, token : ResetTokens, password : Passwords]
  \cup [op : {"change"}, user : Users, current : Passwords, password : Passwords]

SessionRow == [user : Users, revoked : BOOLEAN, expired : BOOLEAN,
               replacedBy : Sessions \cup {NoSession}]
TokenRow == [user : Users, used : BOOLEAN, expired : BOOLEAN]

ASSUME AuthSentinels ==
  /\ NoPassword \notin Passwords /\ NoSession \notin Sessions
  /\ NoUser \notin Users /\ NoCall \notin Calls
  /\ Unused \notin SessionRow \cup TokenRow
  /\ Deleted \notin SessionRow /\ Deleted # Unused

ASSUME AuthInstance ==
  /\ Registered \subseteq Users
  /\ InitialPassword \in [Registered -> Passwords]
  /\ Offered \subseteq Calls /\ Administered \subseteq Users
  /\ IsFiniteSet(Sessions) /\ IsFiniteSet(ResetTokens) /\ IsFiniteSet(Requests)
  /\ MaxUpdates \in Nat

VARIABLES
  password,   \* User.password, NoPassword before registration
  active,     \* User.isActive
  sessions,   \* table AuthSession
  tokens,     \* table PasswordResetToken
  pc, call,
  holder,     \* the user a request works for
  doomed,     \* the rows the DELETE of an open transaction saw
  answer,
  \* History, read by no step:
  epoch,      \* how often each password was set
  bornIn,     \* the epoch in which a session was opened
  verifiedIn, \* the epoch of the password check it goes back to
  verifying,  \* the same for the session a request is about to open
  origin,     \* the session a session was refreshed from
  overlaps,   \* was it, or one it comes from, opened during a transaction?
  resets      \* how often a reset token set a password

users   == <<password, active, epoch>>
history == <<bornIn, verifiedIn, origin, overlaps>>
opened  == <<sessions, history>>
resetting == <<tokens, resets>>
flow    == <<pc, answer>>
locals  == <<call, holder, verifying, doomed>>

vars == <<users, opened, resetting, flow, locals>>

Points == {"free", "lock", "find", "create", "session", "insert", "load", "rotate",
           "loadout", "revoke", "lookup", "issue", "token", "check",
           "begin", "commit", "answered"}

Answers == {"none", "ok", "unauthorized", "forbidden", "locked", "error"}

HastyFirstPoint ==
  [register |-> "create", login |-> "lock", refresh |-> "rotate",
   logout |-> "loadout", forgot |-> "lookup", reset |-> "token", change |-> "check"]

FirstPoint == [register |-> "create", login |-> "lock", refresh |-> "load",
               logout |-> "loadout", forgot |-> "lookup", reset |-> "token",
               change |-> "check"]

InProgress(r) == pc[r] \notin {"free", "answered"}
Exists(s) == sessions[s] \notin {Unused, Deleted}

Init ==
  /\ password = [u \in Users |->
       IF u \in Registered THEN InitialPassword[u] ELSE NoPassword]
  /\ active = [u \in Users |-> TRUE]
  /\ sessions = [s \in Sessions |-> Unused]
  /\ tokens = [t \in ResetTokens |-> Unused]
  /\ pc = [r \in Requests |-> "free"]
  /\ call = [r \in Requests |-> NoCall]
  /\ holder = [r \in Requests |-> NoUser]
  /\ answer = [r \in Requests |-> "none"]
  /\ epoch = [u \in Users |-> IF u \in Registered THEN 1 ELSE 0]
  /\ bornIn = [s \in Sessions |-> 0]
  /\ verifiedIn = [s \in Sessions |-> 0]
  /\ verifying = [r \in Requests |-> 0]
  /\ origin = [s \in Sessions |-> NoSession]
  /\ overlaps = [s \in Sessions |-> FALSE]
  /\ doomed = [r \in Requests |-> {}]
  /\ resets = [t \in ResetTokens |-> 0]

-----------------------------------------------------------------------------
\* As in CashMovements, an uncommented definition that precedes its namesake is
\* a plausible mistake some property has to notice; nothing uses it.

GoTo(r, point) ==
  /\ pc' = [pc EXCEPT ![r] = point]
  /\ UNCHANGED answer

Answer(r, a) ==
  /\ pc' = [pc EXCEPT ![r] = "answered"]
  /\ answer' = [answer EXCEPT ![r] = a]

\* The request has established whom it works for.
Hold(r, u, verified) ==
  /\ holder' = [holder EXCEPT ![r] = u]
  /\ verifying' = [verifying EXCEPT ![r] = verified]
  /\ UNCHANGED <<call, doomed>>

\* Bounds: row ids are left for what the request may insert, and so many
\* password updates.
Opening(r) == InProgress(r) /\ call[r].op \in {"register", "login", "refresh"}
HasSessionIds ==
  Cardinality({s \in Sessions : sessions[s] = Unused})
    > Cardinality({r \in Requests : Opening(r)})
HasTokenIds ==
  Cardinality({t \in ResetTokens : tokens[t] = Unused})
    > Cardinality({r \in Requests : InProgress(r) /\ call[r].op = "forgot"})

\* A refresh token was handed out for a session that is or was in the table,
\* a reset token was mailed, an access token belongs to a registered user.
Possible(c) ==
  /\ c.op \in {"register", "login", "refresh"} => HasSessionIds
  /\ c.op \in {"refresh", "logout"} => sessions[c.session] # Unused
  /\ c.op = "forgot" => HasTokenIds
  /\ c.op = "reset" => tokens[c.token] # Unused
  /\ c.op = "change" => password[c.user] # NoPassword
  /\ c.op \in {"reset", "change"} => \A u \in Users : epoch[u] <= MaxUpdates

Submit(r, c) ==
  /\ ~InProgress(r)
  /\ Possible(c)
  /\ pc' = [pc EXCEPT ![r] = FirstPoint[c.op]]
  /\ call' = [call EXCEPT ![r] = c]
  /\ holder' = [holder EXCEPT ![r] = NoUser]
  /\ verifying' = [verifying EXCEPT ![r] = 0]
  /\ doomed' = [doomed EXCEPT ![r] = {}]
  /\ answer' = [answer EXCEPT ![r] = "none"]
  /\ UNCHANGED <<users, opened, resetting>>

-----------------------------------------------------------------------------
\* register: user.create, refused by the unique email if it is taken; then
\* createSession as for login.  Without the default organization, which is
\* looked up before, there is no account either, but the same error.
CreateUser(r) ==
  /\ pc[r] = "create"
  /\ LET u == call[r].user
     IN \/ /\ password[u] = NoPassword
           /\ password' = [password EXCEPT ![u] = call[r].password]
           /\ epoch' = [epoch EXCEPT ![u] = 1]
           /\ Hold(r, u, 1)
           /\ GoTo(r, "session")
        \/ /\ Answer(r, "error")
           /\ UNCHANGED <<password, epoch, locals>>
  /\ UNCHANGED <<active, opened, resetting>>

\* login: assertNotLocked.
AssertNotLocked(r) ==
  /\ pc[r] = "lock"
  /\ GoTo(r, "find") \/ Answer(r, "locked")
  /\ UNCHANGED <<users, opened, resetting, locals>>

\* login: findUnique and the comparison with the password it returned.  After
\* a failure the lock, asked again, may answer in place of the 401.
FindUser(r) ==
  /\ pc[r] = "find"
  /\ LET u == call[r].user
         valid == password[u] = call[r].password /\ active[u]
     IN \/ valid /\ Hold(r, u, epoch[u]) /\ GoTo(r, "session")
        \/ ~valid /\ Answer(r, "unauthorized") /\ UNCHANGED locals
        \/ ~valid /\ Answer(r, "locked") /\ UNCHANGED locals
  /\ UNCHANGED <<users, opened, resetting>>

\* createSession: the user is read again.
CheckActive(r) ==
  /\ pc[r] = "session"
  /\ \/ active[holder[r]] /\ GoTo(r, "insert")
     \/ ~active[holder[r]] /\ Answer(r, "unauthorized")
  /\ UNCHANGED <<users, opened, resetting, locals>>

\* createSession: what it stores in replacedById is the session it replaces.
Predecessor(r) == IF call[r].op = "refresh" THEN call[r].session ELSE NoSession

\* The foreign key of replacedById.
NoForeignKey(p) == TRUE
LinkAllowed(p) == p # NoSession => Exists(p)

\* Requests with an open transaction on the password of u.
Replacing(u) == {r \in Requests : pc[r] = "commit" /\ holder[r] = u}

\* The rows its DELETE has locked: an update of one, or the foreign key check
\* of a row that refers to one, waits for the COMMIT.
RowLocked(s) == \E r \in Requests : pc[r] = "commit" /\ s \in doomed[r]

\* createSession: authSession.create.
InsertSession(r) ==
  /\ pc[r] = "insert"
  /\ ~RowLocked(Predecessor(r))
  /\ LET p == Predecessor(r)
         u == holder[r]
     IN \/ /\ LinkAllowed(p)
           /\ \E s \in Sessions :
                /\ sessions[s] = Unused
                /\ sessions' = [sessions EXCEPT ![s] =
                     [user |-> u, revoked |-> FALSE, expired |-> FALSE,
                      replacedBy |-> p]]
                /\ bornIn' = [bornIn EXCEPT ![s] = epoch[u]]
                /\ verifiedIn' = [verifiedIn EXCEPT ![s] = verifying[r]]
                /\ origin' = [origin EXCEPT ![s] = p]
                /\ overlaps' = [overlaps EXCEPT ![s] =
                     Replacing(u) # {} \/ (p # NoSession /\ overlaps[p])]
           /\ Answer(r, "ok")
        \/ ~LinkAllowed(p) /\ Answer(r, "error") /\ UNCHANGED opened
  /\ UNCHANGED <<users, resetting, locals>>

\* refresh: findUnique with the user, and the checks that follow it.
LoadSession(r) ==
  /\ pc[r] = "load"
  /\ LET s == call[r].session
         usable == /\ Exists(s)
                   /\ active[sessions[s].user]
                   /\ ~sessions[s].revoked
                   /\ ~sessions[s].expired
     IN \/ usable /\ Hold(r, sessions[s].user, verifiedIn[s]) /\ GoTo(r, "rotate")
        \/ ~usable /\ Answer(r, "unauthorized") /\ UNCHANGED locals
  /\ UNCHANGED <<users, opened, resetting>>

NotRevoked(row) == row
Revoked(row) == [row EXCEPT !.revoked = TRUE]

\* The update by id of refresh and logout, an error when the row is gone.
RevokeRow(r, next) ==
  LET s == call[r].session
  IN /\ ~RowLocked(s)
     /\ \/ Exists(s) /\ sessions' = [sessions EXCEPT ![s] = Revoked(@)] /\ next
        \/ ~Exists(s) /\ Answer(r, "error") /\ UNCHANGED sessions
     /\ UNCHANGED <<users, history, resetting, locals>>

Rotate(r) == pc[r] = "rotate" /\ RevokeRow(r, GoTo(r, "session"))

\* logout answers 200 whatever it finds.
LoadToLogout(r) ==
  /\ pc[r] = "loadout"
  /\ LET s == call[r].session
         live == Exists(s) /\ ~sessions[s].revoked
     IN \/ live /\ GoTo(r, "revoke")
        \/ ~live /\ Answer(r, "ok")
  /\ UNCHANGED <<users, opened, resetting, locals>>

Logout(r) == pc[r] = "revoke" /\ RevokeRow(r, Answer(r, "ok"))

-----------------------------------------------------------------------------
\* forgotPassword answers 200 whether or not the user exists.
LookupUser(r) ==
  /\ pc[r] = "lookup"
  /\ \/ password[call[r].user] # NoPassword /\ GoTo(r, "issue")
     \/ password[call[r].user] = NoPassword /\ Answer(r, "ok")
  /\ UNCHANGED <<users, opened, resetting, locals>>

IssueToken(r) ==
  /\ pc[r] = "issue"
  /\ \E t \in ResetTokens :
       /\ tokens[t] = Unused
       /\ tokens' = [tokens EXCEPT ![t] =
            [user |-> call[r].user, used |-> FALSE, expired |-> FALSE]]
  /\ Answer(r, "ok")
  /\ UNCHANGED <<users, opened, resets, locals>>

\* resetPassword: findUnique and the check of the token.
CheckToken(r) ==
  /\ pc[r] = "token"
  /\ LET row == tokens[call[r].token]
         usable == ~row.used /\ ~row.expired
     IN \/ usable /\ Hold(r, row.user, 0) /\ GoTo(r, "begin")
        \/ ~usable /\ Answer(r, "forbidden") /\ UNCHANGED locals
  /\ UNCHANGED <<users, opened, resetting>>

DoomedNone(u) == {}
DoomedRows(u) == {s \in Sessions : Exists(s) /\ sessions[s].user = u}

\* The transaction of reset and change: update of the user, whose row stays
\* locked against other such transactions, and authSession.deleteMany.
BeginReplace(r) ==
  /\ pc[r] = "begin"
  /\ Replacing(holder[r]) = {}
  /\ doomed' = [doomed EXCEPT ![r] = DoomedRows(holder[r])]
  /\ GoTo(r, "commit")
  /\ UNCHANGED <<users, opened, resetting, call, holder, verifying>>

NotUsedUp(row) == row
UsedUp(row) == [row EXCEPT !.used = TRUE]

\* ON DELETE SET NULL of replacedById.
WithoutLinks(row, gone) ==
  IF row.replacedBy \in gone THEN [row EXCEPT !.replacedBy = NoSession] ELSE row

\* COMMIT.  A reset has marked its token, without asking again if it is used.
CommitReplace(r) ==
  /\ pc[r] = "commit"
  /\ password' = [password EXCEPT ![holder[r]] = call[r].password]
  /\ epoch' = [epoch EXCEPT ![holder[r]] = @ + 1]
  /\ sessions' = [s \in Sessions |->
       IF ~Exists(s) THEN sessions[s]
       ELSE IF s \in doomed[r] THEN Deleted
       ELSE WithoutLinks(sessions[s], doomed[r])]
  /\ \/ /\ call[r].op = "reset"
        /\ tokens' = [tokens EXCEPT ![call[r].token] = UsedUp(@)]
        /\ resets' = [resets EXCEPT ![call[r].token] = @ + 1]
     \/ call[r].op = "change" /\ UNCHANGED resetting
  /\ Answer(r, "ok")
  /\ UNCHANGED <<active, history, locals>>

\* changePassword: findUnique and the comparison.
CheckPassword(r) ==
  /\ pc[r] = "check"
  /\ LET u == call[r].user
         valid == password[u] = call[r].current
     IN \/ valid /\ Hold(r, u, 0) /\ GoTo(r, "begin")
        \/ ~valid /\ Answer(r, "forbidden") /\ UNCHANGED locals
  /\ UNCHANGED <<users, opened, resetting>>

Step(r) ==
  \/ CreateUser(r) \/ AssertNotLocked(r) \/ FindUser(r)
  \/ CheckActive(r) \/ InsertSession(r)
  \/ LoadSession(r) \/ Rotate(r) \/ LoadToLogout(r) \/ Logout(r)
  \/ LookupUser(r) \/ IssueToken(r)
  \/ CheckToken(r) \/ CheckPassword(r) \/ BeginReplace(r) \/ CommitReplace(r)

-----------------------------------------------------------------------------
\* UsersService deactivates a user, or activates it again.
SetActive(u) ==
  /\ password[u] # NoPassword
  /\ active' = [active EXCEPT ![u] = ~@]
  /\ UNCHANGED <<password, epoch, opened, resetting, flow, locals>>

ExpireSession(s) ==
  /\ Exists(s)
  /\ ~sessions[s].expired
  /\ sessions' = [sessions EXCEPT ![s] = [@ EXCEPT !.expired = TRUE]]
  /\ UNCHANGED <<users, history, resetting, flow, locals>>

ExpireToken(t) ==
  /\ tokens[t] # Unused
  /\ ~tokens[t].expired
  /\ tokens' = [tokens EXCEPT ![t] = [@ EXCEPT !.expired = TRUE]]
  /\ UNCHANGED <<users, opened, resets, flow, locals>>

\* The process stops: requests in progress are lost between two statements.
Restart ==
  /\ \E r \in Requests : InProgress(r)
  /\ pc' = [r \in Requests |-> IF InProgress(r) THEN "free" ELSE pc[r]]
  /\ UNCHANGED <<users, opened, resetting, locals, answer>>

Next ==
  \/ \E r \in Requests : Step(r) \/ \E c \in Offered : Submit(r, c)
  \/ \E u \in Administered : SetActive(u)
  \/ \E s \in Sessions : ExpireSession(s)
  \/ \E t \in ResetTokens : ExpireToken(t)
  \/ Restart

Fairness == \A r \in Requests : WF_vars(Step(r))

Spec == Init /\ [][Next]_vars /\ Fairness

-----------------------------------------------------------------------------
\* Properties.

\* Every variable keeps to its domain; a request that opens a session or sets
\* a password knows for whom.
AuthTypeOK ==
  /\ password \in [Users -> Passwords \cup {NoPassword}]
  /\ active \in [Users -> BOOLEAN]
  /\ epoch \in [Users -> Nat]
  /\ sessions \in [Sessions -> SessionRow \cup {Unused, Deleted}]
  /\ bornIn \in [Sessions -> Nat]
  /\ verifiedIn \in [Sessions -> Nat]
  /\ origin \in [Sessions -> Sessions \cup {NoSession}]
  /\ overlaps \in [Sessions -> BOOLEAN]
  /\ doomed \in [Requests -> SUBSET Sessions]
  /\ tokens \in [ResetTokens -> TokenRow \cup {Unused}]
  /\ resets \in [ResetTokens -> Nat]
  /\ pc \in [Requests -> Points]
  /\ call \in [Requests -> Calls \cup {NoCall}]
  /\ holder \in [Requests -> Users \cup {NoUser}]
  /\ verifying \in [Requests -> Nat]
  /\ answer \in [Requests -> Answers]
  /\ \A r \in Requests :
       pc[r] \in {"session", "insert", "begin", "commit"} => holder[r] \in Users

\* The rotation chain in the table: replacedById names a session of the same
\* user that is still stored and is revoked, whatever ran in between.
LinkIsRevoked ==
  \A s \in Sessions : Exists(s) /\ sessions[s].replacedBy # NoSession =>
    LET p == sessions[s].replacedBy
    IN Exists(p) /\ sessions[p].user = sessions[s].user /\ sessions[p].revoked

\* A refresh in progress while the password is replaced opens no session: a
\* refreshed session is born in the same password epoch as the session it was
\* refreshed from.  No statement of refresh looks at the password; the missing
\* row and the foreign key see to it.  The one exception is a login's row,
\* inserted while the transaction is open, and what is refreshed from it.
RefreshStaysInEpoch ==
  \A s \in Sessions : origin[s] # NoSession /\ ~overlaps[s]
    => bornIn[s] = bornIn[origin[s]]

\* Sessions are opened once, revoked for good, and deleted exactly when their
\* user's password is set: all of the user's at once, but for rows inserted
\* while the transaction was open.
Lifecycle ==
  INSTANCE SessionLifecycle WITH
    Nobody <- NoUser,
    owner  <- [s \in Sessions |-> IF Exists(s) THEN sessions[s].user ELSE NoUser],
    late   <- {s \in Sessions : overlaps[s]},
    status <- [s \in Sessions |->
                 CASE sessions[s] = Unused  -> "unused"
                   [] sessions[s] = Deleted -> "gone"
                   [] OTHER -> IF sessions[s].revoked THEN "revoked" ELSE "live"]

SessionLifecycleSpec == Lifecycle!Spec

\* A session is refreshed at most once ("session rotation" is one step).
RotationOnce ==
  \A s, t \in Sessions : origin[s] = origin[t] /\ origin[s] # NoSession => s = t

\* A reset token sets the password at most once.
ResetTokenOnce == \A t \in ResetTokens : resets[t] <= 1

\* Setting a password forces a new login: no session that can still be
\* refreshed goes back to a check of an earlier password.
ForcedRelogin ==
  \A s \in Sessions : Exists(s) /\ ~sessions[s].revoked
    => verifiedIn[s] = epoch[sessions[s].user]

\* Presenting a token that was rotated away revokes the user's sessions.
ReuseRevokesSessions ==
  [][\A r \in Requests :
       pc[r] = "load" /\ pc'[r] # "load" /\ (\E s \in Sessions : origin[s] = call[r].session)
         /\ Exists(call[r].session)
         => \A s \in Sessions :
              Exists(s) /\ sessions[s].user = sessions[call[r].session].user
                => sessions'[s].revoked]_vars
=============================================================================
