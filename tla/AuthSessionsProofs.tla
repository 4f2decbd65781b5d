------------------------- MODULE AuthSessionsProofs -------------------------
(***************************************************************************)
(* Theorems about AuthSessions, for any number of users, sessions, reset   *)
(* tokens and requests in progress.                                        *)
(***************************************************************************)
EXTENDS AuthSessions, TLAPS

\* The points at which a request has established whom it works for.
Working == {"rotate", "session", "insert", "begin", "commit"}

\* Which operations come by each point.
OpAt(point) ==
  CASE point = "create"                -> {"register"}
    [] point \in {"lock", "find"}      -> {"login"}
    [] point \in {"load", "rotate"}    -> {"refresh"}
    [] point \in {"loadout", "revoke"} -> {"logout"}
    [] point \in {"lookup", "issue"}   -> {"forgot"}
    [] point = "token"                 -> {"reset"}
    [] point = "check"                 -> {"change"}
    [] point \in {"session", "insert"} -> {"register", "login", "refresh"}
    [] point \in {"begin", "commit"}   -> {"reset", "change"}

\* What a request may rely on at each of its program points.  A session that
\* is refreshed is the holder's, and revoked once it has been rotated: if it
\* is still stored.
WellPlaced(r) ==
  InProgress(r) =>
    /\ call[r] \in Calls /\ call[r].op \in OpAt(pc[r])
    /\ call[r].op \in {"refresh", "logout"} => sessions[call[r].session] # Unused
    /\ call[r].op = "reset" => tokens[call[r].token] # Unused
    /\ pc[r] = "issue" => password[call[r].user] # NoPassword
    /\ pc[r] \in Working => holder[r] \in Users /\ password[holder[r]] # NoPassword
    /\ pc[r] \in Working /\ call[r].op = "refresh" /\ Exists(call[r].session) =>
         /\ sessions[call[r].session].user = holder[r]
         /\ pc[r] # "rotate" => sessions[call[r].session].revoked

\* Sessions and reset tokens are those of registered users.
Owned ==
  /\ \A s \in Sessions : Exists(s) => password[sessions[s].user] # NoPassword
  /\ \A t \in ResetTokens : tokens[t] # Unused => password[tokens[t].user] # NoPassword

Placed == AuthTypeOK /\ Owned /\ \A r \in Requests : WellPlaced(r)

\* What no step takes back.
Stays ==
  /\ \A u \in Users : password[u] # NoPassword => password'[u] # NoPassword
  /\ \A t \in ResetTokens : tokens[t] # Unused =>
       /\ tokens'[t] # Unused /\ tokens'[t].user = tokens[t].user
       /\ tokens[t].used => tokens'[t].used
  /\ \A s \in Sessions : sessions[s] # Unused =>
       /\ sessions'[s] # Unused
       /\ sessions'[s] # Deleted =>
            /\ sessions[s] # Deleted /\ sessions'[s].user = sessions[s].user
            /\ sessions[s].revoked => sessions'[s].revoked

LEMMA CallShape ==
  ASSUME NEW c \in Calls
  PROVE  /\ c.op \in {"register", "login", "refresh", "logout", "forgot", "reset", "change"}
         /\ c.op \in {"register", "login", "forgot", "change"} => c.user \in Users
         /\ c.op \in {"register", "login", "reset", "change"} => c.password \in Passwords
         /\ c.op \in {"refresh", "logout"} => c.session \in Sessions
         /\ c.op = "reset" => c.token \in ResetTokens
  BY DEF Calls

LEMMA PlacedInit == Init => Placed
<1> SUFFICES ASSUME Init PROVE Placed
  OBVIOUS
<1>1. AuthTypeOK
  BY AuthSentinels, AuthInstance DEF Init, AuthTypeOK, Points, Answers
<1>2. Owned
  BY DEF Init, Owned, Exists
<1> QED BY <1>1, <1>2 DEF Init, Placed, WellPlaced, InProgress

-----------------------------------------------------------------------------
\* The ways a step writes to the tables.
Inserts(r, s) ==
  LET p == Predecessor(r)
      u == holder[r]
  IN /\ LinkAllowed(p) /\ sessions[s] = Unused
     /\ sessions' = [sessions EXCEPT ![s] =
          [user |-> u, revoked |-> FALSE, expired |-> FALSE, replacedBy |-> p]]
     /\ bornIn' = [bornIn EXCEPT ![s] = epoch[u]]
     /\ verifiedIn' = [verifiedIn EXCEPT ![s] = verifying[r]]
     /\ origin' = [origin EXCEPT ![s] = p]
     /\ overlaps' = [overlaps EXCEPT ![s] = Replacing(u) # {} \/ (p # NoSession /\ overlaps[p])]
     /\ UNCHANGED <<password, active, epoch, tokens, resets>>

\* A row is revoked or expires.
Marks(s) ==
  /\ Exists(s)
  /\ \E row \in SessionRow :
       /\ row.user = sessions[s].user /\ row.replacedBy = sessions[s].replacedBy
       /\ sessions[s].revoked => row.revoked
       /\ sessions' = [sessions EXCEPT ![s] = row]
  /\ UNCHANGED <<password, active, epoch, history, tokens, resets>>

\* A reset token is mailed, or expires.
SetsToken(t) ==
  /\ \E row \in TokenRow :
       /\ password[row.user] # NoPassword
       /\ tokens[t] # Unused => row.user = tokens[t].user /\ row.used = tokens[t].used
       /\ tokens[t] = Unused => ~row.used
       /\ tokens' = [tokens EXCEPT ![t] = row]
  /\ UNCHANGED <<password, active, epoch, opened, resets>>

Registers(r) ==
  LET u == call[r].user
  IN /\ u \in Users /\ call[r].password \in Passwords
     /\ password[u] = NoPassword
     /\ password' = [password EXCEPT ![u] = call[r].password]
     /\ epoch' = [epoch EXCEPT ![u] = 1]
     /\ UNCHANGED <<active, opened, tokens, resets>>

NoTables == UNCHANGED <<password, epoch, opened, tokens, resets>>

LEMMA MarksRow ==
  ASSUME AuthTypeOK, NEW s \in Sessions, Exists(s),
         \/ sessions' = [sessions EXCEPT ![s] = Revoked(@)]
         \/ sessions' = [sessions EXCEPT ![s] = [@ EXCEPT !.expired = TRUE]],
         UNCHANGED <<users, history, resetting>>
  PROVE  Marks(s)
<1>1. sessions[s] \in SessionRow
  BY DEF AuthTypeOK, Exists
<1>2. CASE sessions' = [sessions EXCEPT ![s] = Revoked(@)]
  <2> DEFINE row == Revoked(sessions[s])
  <2>1. /\ row \in SessionRow /\ row.user = sessions[s].user
        /\ row.replacedBy = sessions[s].replacedBy /\ row.revoked
    BY <1>1 DEF Revoked, SessionRow
  <2> QED BY <1>2, <2>1 DEF Marks, users, resetting
<1>3. CASE sessions' = [sessions EXCEPT ![s] = [@ EXCEPT !.expired = TRUE]]
  <2> DEFINE row == [sessions[s] EXCEPT !.expired = TRUE]
  <2>1. /\ row \in SessionRow /\ row.user = sessions[s].user
        /\ row.replacedBy = sessions[s].replacedBy /\ row.revoked = sessions[s].revoked
    BY <1>1 DEF SessionRow
  <2> QED BY <1>3, <2>1 DEF Marks, users, resetting
<1> QED BY <1>2, <1>3

LEMMA StepEffect ==
  ASSUME Placed, NEW r \in Requests, Step(r)
  PROVE  \/ NoTables /\ UNCHANGED active
         \/ pc[r] = "create" /\ Registers(r)
         \/ \E s \in Sessions : pc[r] = "insert" /\ Inserts(r, s)
         \/ \E s \in Sessions : pc[r] \in {"rotate", "revoke"} /\ Marks(s)
         \/ \E t \in ResetTokens : pc[r] = "issue" /\ SetsToken(t)
         \/ CommitReplace(r)
<1>1. AuthTypeOK /\ WellPlaced(r)
  BY DEF Placed
<1>2. CASE \/ AssertNotLocked(r) \/ FindUser(r) \/ CheckActive(r) \/ LoadSession(r)
           \/ LoadToLogout(r) \/ LookupUser(r) \/ CheckToken(r) \/ CheckPassword(r)
           \/ BeginReplace(r)
  BY <1>2 DEF AssertNotLocked, FindUser, CheckActive, LoadSession, LoadToLogout,
     LookupUser, CheckToken, CheckPassword, BeginReplace, NoTables, users, resetting
<1>3. CASE CreateUser(r)
  <2>1. call[r].user \in Users /\ call[r].password \in Passwords
    BY <1>1, <1>3, CallShape DEF CreateUser, WellPlaced, InProgress, OpAt
  <2> QED BY <1>3, <2>1 DEF CreateUser, Registers, NoTables, resetting
<1>4. CASE InsertSession(r)
  BY <1>4 DEF InsertSession, Inserts, NoTables, users, resetting, opened, history
<1>5. CASE Rotate(r) \/ Logout(r)
  <2>1. call[r].session \in Sessions
    BY <1>1, <1>5, CallShape DEF Rotate, Logout, WellPlaced, InProgress, OpAt
  <2>2. CASE Exists(call[r].session)
    BY <1>1, <1>5, <2>1, <2>2, MarksRow DEF Rotate, Logout, RevokeRow
  <2>3. CASE ~Exists(call[r].session)
    BY <1>5, <2>3 DEF Rotate, Logout, RevokeRow, NoTables, users, opened, resetting
  <2> QED BY <2>2, <2>3
<1>6. CASE IssueToken(r)
  <2>1. call[r].user \in Users /\ password[call[r].user] # NoPassword
    BY <1>1, <1>6, CallShape DEF IssueToken, WellPlaced, InProgress, OpAt
  <2> DEFINE row == [user |-> call[r].user, used |-> FALSE, expired |-> FALSE]
  <2>2. row \in TokenRow /\ row.user = call[r].user /\ ~row.used
    BY <2>1 DEF TokenRow
  <2>3. PICK t \in ResetTokens :
          tokens[t] = Unused /\ tokens' = [tokens EXCEPT ![t] = row]
    BY <1>6 DEF IssueToken
  <2>4. pc[r] = "issue" /\ UNCHANGED <<password, active, epoch, opened, resets>>
    BY <1>6 DEF IssueToken, users
  <2> HIDE DEF row
  <2> QED BY <2>1, <2>2, <2>3, <2>4 DEF SetsToken
<1> QED BY <1>2, <1>3, <1>4, <1>5, <1>6 DEF Step

\* What a COMMIT does to the row of one session.
LEMMA CommitRows ==
  ASSUME Placed, NEW r \in Requests, CommitReplace(r), NEW s \in Sessions
  PROVE  /\ ~Exists(s) => sessions'[s] = sessions[s]
         /\ Exists(s) /\ s \in doomed[r] => sessions'[s] = Deleted
         /\ Exists(s) /\ s \notin doomed[r] =>
              /\ sessions'[s] \in SessionRow
              /\ sessions'[s].user = sessions[s].user
              /\ sessions'[s].revoked = sessions[s].revoked
              /\ sessions'[s].replacedBy =
                   IF sessions[s].replacedBy \in doomed[r] THEN NoSession
                   ELSE sessions[s].replacedBy
<1>1. sessions'[s] = IF ~Exists(s) THEN sessions[s]
                     ELSE IF s \in doomed[r] THEN Deleted
                     ELSE WithoutLinks(sessions[s], doomed[r])
  BY DEF CommitReplace
<1>2. Exists(s) => sessions[s] \in SessionRow
  BY DEF Placed, AuthTypeOK, Exists
<1> QED BY <1>1, <1>2 DEF WithoutLinks, SessionRow

\* ... and to the other tables: the holder's password, and the token of a reset.
LEMMA CommitTables ==
  ASSUME Placed, NEW r \in Requests, CommitReplace(r)
  PROVE  /\ pc[r] = "commit" /\ holder[r] \in Users /\ call[r].password \in Passwords
         /\ call[r] \in Calls /\ call[r].op \in {"reset", "change"}
         /\ password[holder[r]] # NoPassword
         /\ password' = [password EXCEPT ![holder[r]] = call[r].password]
         /\ epoch' = [epoch EXCEPT ![holder[r]] = @ + 1]
         /\ UNCHANGED <<active, history, locals>>
         /\ \/ /\ call[r].op = "reset" /\ call[r].token \in ResetTokens
               /\ tokens[call[r].token] \in TokenRow
               /\ \E row \in TokenRow :
                    /\ row.user = tokens[call[r].token].user /\ row.used
                    /\ tokens' = [tokens EXCEPT ![call[r].token] = row]
               /\ resets' = [resets EXCEPT ![call[r].token] = @ + 1]
            \/ call[r].op = "change" /\ UNCHANGED <<tokens, resets>>
<1>1. AuthTypeOK /\ WellPlaced(r) /\ pc[r] = "commit"
  BY DEF Placed, CommitReplace
<1>2. /\ call[r] \in Calls /\ call[r].op \in {"reset", "change"} /\ holder[r] \in Users
      /\ password[holder[r]] # NoPassword
      /\ call[r].op = "reset" => tokens[call[r].token] # Unused
  BY <1>1 DEF WellPlaced, InProgress, OpAt, Working
<1>3. /\ call[r].password \in Passwords
      /\ call[r].op = "reset" => call[r].token \in ResetTokens
  BY <1>2, CallShape
<1>4. CASE call[r].op = "reset"
  <2> DEFINE row == UsedUp(tokens[call[r].token])
  <2>1. tokens[call[r].token] \in TokenRow
    BY <1>1, <1>2, <1>3, <1>4 DEF AuthTypeOK
  <2>2. row \in TokenRow /\ row.user = tokens[call[r].token].user /\ row.used
    BY <2>1 DEF UsedUp, TokenRow
  <2>3. /\ tokens' = [tokens EXCEPT ![call[r].token] = row]
        /\ resets' = [resets EXCEPT ![call[r].token] = @ + 1]
    BY <1>4 DEF CommitReplace
  <2> HIDE DEF row
  <2> QED BY <1>1, <1>2, <1>3, <1>4, <2>1, <2>2, <2>3 DEF CommitReplace
<1>5. CASE call[r].op = "change"
  BY <1>1, <1>2, <1>3, <1>5 DEF CommitReplace, resetting
<1> QED BY <1>2, <1>4, <1>5

-----------------------------------------------------------------------------
\* A step of a request concerns that request only.
LEMMA StepMoves ==
  ASSUME Placed, NEW r \in Requests, Step(r)
  PROVE  /\ call' = call /\ InProgress(r)
         /\ pc' \in [Requests -> Points] /\ answer' \in [Requests -> Answers]
         /\ holder' \in [Requests -> Users \cup {NoUser}]
         /\ verifying' \in [Requests -> Nat]
         /\ doomed' \in [Requests -> SUBSET Sessions]
         /\ pc'[r] \in Working => holder'[r] \in Users
         /\ \A p \in Requests : p # r =>
              /\ pc'[p] = pc[p] /\ holder'[p] = holder[p]
              /\ verifying'[p] = verifying[p] /\ doomed'[p] = doomed[p]
<1>1. AuthTypeOK /\ WellPlaced(r)
  BY DEF Placed
<1>2. /\ pc \in [Requests -> Points] /\ answer \in [Requests -> Answers]
      /\ holder \in [Requests -> Users \cup {NoUser}] /\ verifying \in [Requests -> Nat]
      /\ doomed \in [Requests -> SUBSET Sessions]
      /\ epoch \in [Users -> Nat] /\ verifiedIn \in [Sessions -> Nat]
  BY <1>1 DEF AuthTypeOK
<1>3. pc[r] \in Working => holder[r] \in Users
  BY <1>1 DEF WellPlaced, InProgress, Working
<1> USE DEF GoTo, Answer, Hold, Points, Answers, InProgress, Working, locals
<1>4. CASE CreateUser(r)
  <2>1. call[r].user \in Users
    BY <1>1, <1>4, CallShape DEF CreateUser, WellPlaced, OpAt
  <2> QED BY <1>2, <1>4, <2>1 DEF CreateUser
<1>5. CASE FindUser(r)
  <2>1. call[r].user \in Users
    BY <1>1, <1>5, CallShape DEF FindUser, WellPlaced, OpAt
  <2>2. epoch[call[r].user] \in Nat
    BY <1>2, <2>1
  <2> QED BY <1>2, <1>5, <2>1, <2>2 DEF FindUser
<1>6. CASE LoadSession(r)
  <2>1. call[r].session \in Sessions
    BY <1>1, <1>6, CallShape DEF LoadSession, WellPlaced, OpAt
  <2>2. /\ verifiedIn[call[r].session] \in Nat
        /\ Exists(call[r].session) => sessions[call[r].session].user \in Users
    BY <1>1, <1>2, <2>1 DEF AuthTypeOK, Exists, SessionRow
  <2> QED BY <1>2, <1>6, <2>2 DEF LoadSession
<1>7. CASE CheckToken(r)
  <2>1. call[r].token \in ResetTokens /\ tokens[call[r].token] # Unused
    BY <1>1, <1>7, CallShape DEF CheckToken, WellPlaced, OpAt
  <2>2. tokens[call[r].token].user \in Users
    BY <1>1, <2>1 DEF AuthTypeOK, TokenRow
  <2> QED BY <1>2, <1>7, <2>2 DEF CheckToken
<1>8. CASE CheckPassword(r)
  <2>1. call[r].user \in Users
    BY <1>1, <1>8, CallShape DEF CheckPassword, WellPlaced, OpAt
  <2> QED BY <1>2, <1>8, <2>1 DEF CheckPassword
<1>9. CASE AssertNotLocked(r) \/ CheckActive(r) \/ LoadToLogout(r) \/ LookupUser(r)
  BY <1>2, <1>3, <1>9 DEF AssertNotLocked, CheckActive, LoadToLogout, LookupUser
<1>10. CASE InsertSession(r) \/ IssueToken(r) \/ CommitReplace(r)
  BY <1>2, <1>10 DEF InsertSession, IssueToken, CommitReplace
<1>11. CASE Rotate(r) \/ Logout(r)
  BY <1>2, <1>3, <1>11 DEF Rotate, Logout, RevokeRow
<1>12. CASE BeginReplace(r)
  BY <1>2, <1>3, <1>12 DEF BeginReplace, DoomedRows
<1> QED BY <1>4, <1>5, <1>6, <1>7, <1>8, <1>9, <1>10, <1>11, <1>12 DEF Step

LEMMA StepType ==
  ASSUME Placed, NEW r \in Requests, Step(r)
  PROVE  AuthTypeOK'
<1>1. /\ password \in [Users -> Passwords \cup {NoPassword}]
      /\ epoch \in [Users -> Nat]
      /\ sessions \in [Sessions -> SessionRow \cup {Unused, Deleted}]
      /\ bornIn \in [Sessions -> Nat] /\ verifiedIn \in [Sessions -> Nat]
      /\ origin \in [Sessions -> Sessions \cup {NoSession}]
      /\ overlaps \in [Sessions -> BOOLEAN]
      /\ tokens \in [ResetTokens -> TokenRow \cup {Unused}]
      /\ resets \in [ResetTokens -> Nat]
      /\ active \in [Users -> BOOLEAN] /\ verifying \in [Requests -> Nat]
      /\ WellPlaced(r)
  BY DEF Placed, AuthTypeOK
<1> DEFINE Goal ==
      /\ password' \in [Users -> Passwords \cup {NoPassword}]
      /\ epoch' \in [Users -> Nat]
      /\ sessions' \in [Sessions -> SessionRow \cup {Unused, Deleted}]
      /\ bornIn' \in [Sessions -> Nat] /\ verifiedIn' \in [Sessions -> Nat]
      /\ origin' \in [Sessions -> Sessions \cup {NoSession}]
      /\ overlaps' \in [Sessions -> BOOLEAN]
      /\ tokens' \in [ResetTokens -> TokenRow \cup {Unused}]
      /\ resets' \in [ResetTokens -> Nat]
      /\ active' \in [Users -> BOOLEAN]
<1> SUFFICES Goal
  <2>1. call' \in [Requests -> Calls \cup {NoCall}]
    BY StepMoves DEF Placed, AuthTypeOK
  <2>2. \A p \in Requests :
          pc'[p] \in {"session", "insert", "begin", "commit"} => holder'[p] \in Users
    BY StepMoves DEF Placed, AuthTypeOK, Working
  <2> QED BY <2>1, <2>2, StepMoves DEF AuthTypeOK
<1>2. CASE NoTables /\ UNCHANGED active
  BY <1>1, <1>2 DEF NoTables, opened, history
<1>3. CASE Registers(r)
  BY <1>1, <1>3 DEF Registers, opened, history
<1>4. ASSUME NEW s \in Sessions, pc[r] = "insert", Inserts(r, s) PROVE Goal
  <2>1. holder[r] \in Users /\ Predecessor(r) \in Sessions \cup {NoSession}
    BY <1>1, <1>4, CallShape DEF WellPlaced, InProgress, Working, Predecessor
  <2> DEFINE row == [user |-> holder[r], revoked |-> FALSE, expired |-> FALSE,
                     replacedBy |-> Predecessor(r)]
  <2>2. row \in SessionRow
    BY <2>1 DEF SessionRow
  <2>3. sessions' = [sessions EXCEPT ![s] = row]
    BY <1>4 DEF Inserts
  <2> HIDE DEF row
  <2>4. sessions' \in [Sessions -> SessionRow \cup {Unused, Deleted}]
    BY <1>1, <2>2, <2>3
  <2>5. /\ bornIn' \in [Sessions -> Nat] /\ verifiedIn' \in [Sessions -> Nat]
        /\ origin' \in [Sessions -> Sessions \cup {NoSession}]
    BY <1>1, <1>4, <2>1 DEF Inserts
  <2>6. overlaps' \in [Sessions -> BOOLEAN]
    <3>1. PICK b \in BOOLEAN : overlaps' = [overlaps EXCEPT ![s] = b]
      <4>1. (Replacing(holder[r]) # {} \/ (Predecessor(r) # NoSession /\ overlaps[Predecessor(r)]))
              \in BOOLEAN
        BY ZenonT(10)
      <4> QED BY <1>4, <4>1 DEF Inserts
    <3> QED BY <1>1, <3>1
  <2> QED BY <1>1, <1>4, <2>4, <2>5, <2>6 DEF Inserts
<1>5. ASSUME NEW s \in Sessions, Marks(s) PROVE Goal
  BY <1>1, <1>5 DEF Marks, history
<1>6. ASSUME NEW t \in ResetTokens, SetsToken(t) PROVE Goal
  BY <1>1, <1>6 DEF SetsToken, opened, history
<1>7. CASE CommitReplace(r)
  <2>1. sessions' \in [Sessions -> SessionRow \cup {Unused, Deleted}]
    <3>1. \A s \in Sessions : sessions'[s] \in SessionRow \cup {Unused, Deleted}
      BY <1>1, <1>7, CommitRows
    <3>2. sessions' = [s \in Sessions |-> sessions'[s]]
      BY <1>7 DEF CommitReplace
    <3> QED BY <3>1, <3>2
  <2>2. tokens' \in [ResetTokens -> TokenRow \cup {Unused}] /\ resets' \in [ResetTokens -> Nat]
    BY <1>1, <1>7, CommitTables
  <2>3. password' \in [Users -> Passwords \cup {NoPassword}] /\ epoch' \in [Users -> Nat]
    BY <1>1, <1>7, CommitTables
  <2>4. UNCHANGED <<active, bornIn, verifiedIn, origin, overlaps>>
    BY <1>7 DEF CommitReplace, history
  <2> QED BY <1>1, <2>1, <2>2, <2>3, <2>4
<1> QED BY <1>2, <1>3, <1>4, <1>5, <1>6, <1>7, StepEffect

LEMMA MarksStay ==
  ASSUME AuthTypeOK, NEW s \in Sessions, Marks(s)
  PROVE  Stays
<1>1. PICK row \in SessionRow :
        /\ row.user = sessions[s].user
        /\ sessions[s].revoked => row.revoked
        /\ sessions' = [sessions EXCEPT ![s] = row]
  BY DEF Marks
<1>2. UNCHANGED <<password, tokens>> /\ sessions[s] \notin {Unused, Deleted}
  BY DEF Marks, Exists
<1>3. row \notin {Unused, Deleted}
  BY AuthSentinels
<1> QED BY <1>1, <1>2, <1>3 DEF Stays, AuthTypeOK

LEMMA TokenStays ==
  ASSUME AuthTypeOK, NEW t \in ResetTokens, SetsToken(t)
  PROVE  Stays
<1>1. PICK row \in TokenRow :
        /\ tokens[t] # Unused => row.user = tokens[t].user /\ row.used = tokens[t].used
        /\ tokens' = [tokens EXCEPT ![t] = row]
  BY DEF SetsToken
<1>2. UNCHANGED <<password, sessions>>
  BY DEF SetsToken, opened
<1>3. row # Unused
  BY AuthSentinels
<1> QED BY <1>1, <1>2, <1>3 DEF Stays, AuthTypeOK

LEMMA StepStays ==
  ASSUME Placed, NEW r \in Requests, Step(r)
  PROVE  Stays
<1>1. AuthTypeOK
  BY DEF Placed
<1>2. CASE NoTables
  BY <1>2 DEF NoTables, opened, Stays
<1>3. CASE Registers(r)
  BY <1>1, <1>3, AuthSentinels DEF Registers, opened, Stays, AuthTypeOK
<1>4. ASSUME NEW s \in Sessions, Inserts(r, s) PROVE Stays
  <2>1. \A x \in Sessions : x # s => sessions'[x] = sessions[x]
    BY <1>1, <1>4 DEF Inserts, AuthTypeOK
  <2> QED BY <1>4, <2>1 DEF Inserts, Stays
<1>5. CASE CommitReplace(r)
  <2>1. \A s \in Sessions : sessions[s] # Unused =>
       /\ sessions'[s] # Unused
       /\ sessions'[s] # Deleted =>
            /\ sessions[s] # Deleted /\ sessions'[s].user = sessions[s].user
            /\ sessions[s].revoked => sessions'[s].revoked
    BY <1>5, CommitRows, AuthSentinels DEF Exists
  <2>2. \A u \in Users : password[u] # NoPassword => password'[u] # NoPassword
    BY <1>1, <1>5, CommitTables, AuthSentinels DEF AuthTypeOK
  <2>3. \A t \in ResetTokens : tokens[t] # Unused =>
          /\ tokens'[t] # Unused /\ tokens'[t].user = tokens[t].user
          /\ tokens[t].used => tokens'[t].used
    <3>1. CASE UNCHANGED tokens
      BY <3>1
    <3>2. CASE ~UNCHANGED tokens
      <4>1. PICK row \in TokenRow :
              /\ row.user = tokens[call[r].token].user /\ row.used
              /\ tokens' = [tokens EXCEPT ![call[r].token] = row]
        BY <1>5, <3>2, CommitTables
      <4>2. row # Unused /\ call[r].token \in ResetTokens
        BY <1>5, <3>2, CommitTables, AuthSentinels
      <4> QED BY <1>1, <4>1, <4>2 DEF AuthTypeOK
    <3> QED BY <3>1, <3>2
  <2> QED BY <2>1, <2>2, <2>3 DEF Stays
<1> QED BY <1>2, <1>3, <1>4, <1>5, MarksStay, TokenStays, StepEffect, <1>1

\* Sessions and tokens go to registered users only.
LEMMA StepOwned ==
  ASSUME Placed, NEW r \in Requests, Step(r)
  PROVE  Owned'
<1>1. AuthTypeOK /\ WellPlaced(r) /\ Owned /\ Stays /\ AuthTypeOK'
  BY StepStays, StepType DEF Placed
<1>2. ASSUME NEW s \in Sessions, Exists(s)', sessions[s] # Unused
      PROVE  password'[sessions'[s].user] # NoPassword
  <2>1. Exists(s) /\ sessions'[s].user = sessions[s].user
    BY <1>1, <1>2 DEF Stays, Exists
  <2>2. sessions[s].user \in Users
    BY <1>1, <2>1 DEF AuthTypeOK, Exists, SessionRow
  <2> QED BY <1>1, <2>1, <2>2 DEF Owned, Stays
<1>3. ASSUME NEW t \in ResetTokens, tokens[t] # Unused
      PROVE  password'[tokens'[t].user] # NoPassword
  <2>1. tokens'[t].user = tokens[t].user /\ tokens[t].user \in Users
    BY <1>1, <1>3 DEF AuthTypeOK, TokenRow, Stays
  <2> QED BY <1>1, <1>3, <2>1 DEF Owned, Stays
<1>4. ASSUME NEW x \in Sessions, pc[r] = "insert", Inserts(r, x) PROVE Owned'
  <2>1. password'[holder[r]] # NoPassword
    BY <1>1, <1>4 DEF WellPlaced, InProgress, Working, Inserts
  <2>2. sessions'[x].user = holder[r]
    BY <1>1, <1>4 DEF AuthTypeOK, Inserts
  <2>3. \A s \in Sessions : s # x => sessions'[s] = sessions[s]
    BY <1>1, <1>4 DEF AuthTypeOK, Inserts
  <2>4. UNCHANGED <<tokens, password>>
    BY <1>4 DEF Inserts
  <2>5. \A s \in Sessions : Exists(s)' => password'[sessions'[s].user] # NoPassword
    BY <1>2, <2>1, <2>2, <2>3 DEF Exists
  <2> QED BY <1>3, <2>4, <2>5 DEF Owned
<1>5. ASSUME NEW t \in ResetTokens, SetsToken(t) PROVE Owned'
  <2>1. PICK row \in TokenRow :
          password[row.user] # NoPassword /\ tokens' = [tokens EXCEPT ![t] = row]
    BY <1>5 DEF SetsToken
  <2>2. UNCHANGED <<password, sessions>>
    BY <1>5 DEF SetsToken, opened
  <2> QED BY <1>1, <2>1, <2>2 DEF Owned, AuthTypeOK, Exists
<1>6. ASSUME \A s \in Sessions : Exists(s)' => sessions[s] # Unused,
             \A t \in ResetTokens : tokens'[t] # Unused => tokens[t] # Unused
      PROVE  Owned'
  BY <1>2, <1>3, <1>6 DEF Owned
<1>7. CASE NoTables \/ Registers(r)
  BY <1>6, <1>7 DEF NoTables, Registers, opened, Exists
<1>8. ASSUME NEW s \in Sessions, Marks(s) PROVE Owned'
  BY <1>1, <1>6, <1>8 DEF Marks, Exists, AuthTypeOK
<1>9. CASE CommitReplace(r)
  <2>1. \A s \in Sessions : Exists(s)' => sessions[s] # Unused
    BY <1>9, CommitRows DEF Exists
  <2>2. ASSUME NEW t \in ResetTokens, tokens[t] = Unused PROVE tokens'[t] = Unused
    <3>1. t = call[r].token => call[r].op # "reset"
      BY <1>9, <2>2, CommitTables, AuthSentinels
    <3>2. CASE ~UNCHANGED tokens
      <4>1. PICK row \in TokenRow : tokens' = [tokens EXCEPT ![call[r].token] = row]
        BY <1>9, <3>2, CommitTables
      <4>2. t # call[r].token
        BY <1>9, <3>1, <3>2, CommitTables
      <4> QED BY <1>1, <2>2, <4>1, <4>2 DEF AuthTypeOK
    <3> QED BY <2>2, <3>2
  <2> QED BY <1>6, <2>1, <2>2
<1> QED BY <1>4, <1>5, <1>7, <1>8, <1>9, StepEffect

\* A request that does not move keeps its place whatever the tables go through.
LEMMA PlaceStays ==
  ASSUME AuthTypeOK, Stays, NEW p \in Requests, WellPlaced(p),
         call'[p] = call[p], holder'[p] = holder[p], pc'[p] = pc[p]
  PROVE  WellPlaced(p)'
<1> SUFFICES ASSUME InProgress(p)
             PROVE  WellPlaced(p)'
  BY DEF WellPlaced, InProgress
<1>1. /\ call[p].op \in {"refresh", "logout"} => call[p].session \in Sessions
      /\ call[p].op = "reset" => call[p].token \in ResetTokens
      /\ pc[p] = "issue" => call[p].user \in Users
  BY CallShape DEF WellPlaced, OpAt
<1>2. /\ call[p].op \in {"refresh", "logout"} => sessions'[call[p].session] # Unused
      /\ call[p].op = "reset" => tokens'[call[p].token] # Unused
      /\ pc[p] = "issue" => password'[call[p].user] # NoPassword
      /\ pc[p] \in Working => holder[p] \in Users /\ password'[holder[p]] # NoPassword
  BY <1>1 DEF WellPlaced, Stays
<1>3. pc[p] \in Working /\ call[p].op = "refresh" /\ Exists(call[p].session)' =>
        /\ sessions'[call[p].session].user = holder[p]
        /\ pc[p] # "rotate" => sessions'[call[p].session].revoked
  BY <1>1 DEF WellPlaced, Stays, Exists
<1> QED BY <1>2, <1>3 DEF WellPlaced, InProgress

LEMMA StepPlaced ==
  ASSUME Placed, NEW r \in Requests, Step(r)
  PROVE  WellPlaced(r)'
<1>1. AuthTypeOK /\ WellPlaced(r) /\ Owned /\ Stays /\ InProgress(r) /\ call' = call
  BY StepStays, StepMoves DEF Placed
<1>2. /\ call[r] \in Calls /\ call[r].op \in OpAt(pc[r])
      /\ call[r].op \in {"refresh", "logout"} =>
           /\ call[r].session \in Sessions
           /\ sessions[call[r].session] # Unused /\ sessions'[call[r].session] # Unused
      /\ call[r].op = "reset" =>
           /\ call[r].token \in ResetTokens
           /\ tokens[call[r].token] # Unused /\ tokens'[call[r].token] # Unused
      /\ call[r].op \in {"register", "login", "forgot", "change"} => call[r].user \in Users
  BY <1>1, CallShape DEF WellPlaced, Stays
<1>3. /\ pc \in [Requests -> Points] /\ holder \in [Requests -> Users \cup {NoUser}]
      /\ pc[r] \in Working => holder[r] \in Users /\ password'[holder[r]] # NoPassword
  BY <1>1 DEF WellPlaced, Stays, AuthTypeOK
<1>4. ASSUME NEW point \in Working, pc'[r] = point, call[r].op \in OpAt(point),
             holder'[r] \in Users, password'[holder'[r]] # NoPassword,
             call[r].op = "refresh" /\ Exists(call[r].session)' =>
               /\ sessions'[call[r].session].user = holder'[r]
               /\ point # "rotate" => sessions'[call[r].session].revoked
      PROVE  WellPlaced(r)'
  BY <1>1, <1>2, <1>4 DEF WellPlaced, Working
<1>5. ASSUME pc'[r] \notin Working, pc'[r] # "issue", pc'[r] # "answered" => call[r].op \in OpAt(pc'[r])
      PROVE  WellPlaced(r)'
  BY <1>1, <1>2, <1>5 DEF WellPlaced, InProgress
<1>6. CASE pc'[r] = "answered"
  BY <1>6 DEF WellPlaced, InProgress
<1> USE DEF GoTo, Answer, Hold
<1>7. CASE CreateUser(r)
  <2>1. CASE pc'[r] = "session"
    <3>1. call[r].op = "register"
      BY <1>2, <1>7 DEF CreateUser, OpAt
    <3>2. holder'[r] = call[r].user /\ password'[call[r].user] = call[r].password
      BY <1>1, <1>2, <1>3, <1>7, <2>1, <3>1 DEF CreateUser, AuthTypeOK
    <3>3. call[r].password # NoPassword
      BY <1>2, <3>1, CallShape, AuthSentinels
    <3> QED BY <1>2, <1>4, <2>1, <3>1, <3>2, <3>3 DEF Working, OpAt
  <2> QED BY <1>3, <1>6, <1>7, <2>1 DEF CreateUser
<1>8. CASE AssertNotLocked(r)
  BY <1>2, <1>3, <1>5, <1>6, <1>8 DEF AssertNotLocked, OpAt, Working
<1>9. CASE FindUser(r)
  <2>1. CASE pc'[r] = "session"
    <3>1. call[r].op = "login" /\ holder'[r] = call[r].user
      BY <1>2, <1>3, <1>9, <2>1 DEF FindUser, OpAt
    <3>2. password[call[r].user] # NoPassword
      BY <1>2, <1>3, <1>9, <2>1, <3>1, CallShape, AuthSentinels DEF FindUser
    <3>3. password'[call[r].user] # NoPassword
      BY <1>1, <1>2, <3>1, <3>2 DEF Stays
    <3> QED BY <1>2, <1>4, <2>1, <3>1, <3>3 DEF Working, OpAt
  <2> QED BY <1>3, <1>6, <1>9, <2>1 DEF FindUser
<1>10. CASE CheckActive(r)
  <2>1. CASE pc'[r] = "insert"
    <3>1. pc[r] = "session" /\ UNCHANGED <<sessions, holder>>
      BY <1>10 DEF CheckActive, opened, locals
    <3>2. call[r].op \in OpAt("insert")
      BY <1>2, <3>1 DEF OpAt
    <3>3. call[r].op = "refresh" /\ Exists(call[r].session) =>
            /\ sessions[call[r].session].user = holder[r]
            /\ sessions[call[r].session].revoked
      BY <1>1, <3>1 DEF WellPlaced, Working
    <3>4. call[r].op = "refresh" /\ Exists(call[r].session)' =>
            /\ sessions'[call[r].session].user = holder'[r]
            /\ sessions'[call[r].session].revoked
      BY <1>1, <3>1, <3>3 DEF Exists
    <3>5. holder'[r] \in Users /\ password'[holder'[r]] # NoPassword
      BY <1>3, <3>1 DEF Working
    <3> QED BY <1>4, <2>1, <3>2, <3>4, <3>5 DEF Working
  <2> QED BY <1>3, <1>6, <1>10, <2>1 DEF CheckActive
<1>11. CASE InsertSession(r) \/ IssueToken(r) \/ Logout(r) \/ CommitReplace(r)
  BY <1>3, <1>6, <1>11 DEF InsertSession, IssueToken, Logout, RevokeRow, CommitReplace
<1>12. CASE LoadSession(r)
  <2>1. CASE pc'[r] = "rotate"
    <3>1. /\ call[r].op = "refresh" /\ Exists(call[r].session)
          /\ holder'[r] = sessions[call[r].session].user /\ UNCHANGED <<sessions, password>>
      BY <1>2, <1>3, <1>12, <2>1 DEF LoadSession, OpAt, opened, users
    <3>2. /\ sessions[call[r].session].user \in Users
          /\ password[sessions[call[r].session].user] # NoPassword
      BY <1>1, <1>2, <3>1 DEF AuthTypeOK, Exists, SessionRow, Owned
    <3> QED BY <1>4, <2>1, <3>1, <3>2 DEF Working, OpAt
  <2> QED BY <1>3, <1>6, <1>12, <2>1 DEF LoadSession
<1>13. CASE Rotate(r)
  <2>1. CASE pc'[r] = "session"
    <3>1. /\ call[r].op = "refresh" /\ pc[r] = "rotate" /\ Exists(call[r].session)
          /\ sessions' = [sessions EXCEPT ![call[r].session] = Revoked(@)]
          /\ UNCHANGED holder
      BY <1>2, <1>3, <1>13, <2>1 DEF Rotate, RevokeRow, OpAt, locals
    <3>2. sessions[call[r].session] \in SessionRow
      BY <1>1, <1>2, <3>1 DEF AuthTypeOK, Exists
    <3>3. Revoked(sessions[call[r].session]).user = sessions[call[r].session].user
          /\ Revoked(sessions[call[r].session]).revoked
      BY <3>2 DEF Revoked, SessionRow
    <3>4. sessions'[call[r].session] = Revoked(sessions[call[r].session])
      BY <1>1, <1>2, <3>1 DEF AuthTypeOK
    <3>5. sessions[call[r].session].user = holder[r]
      BY <1>1, <3>1 DEF WellPlaced, Working
    <3> QED BY <1>3, <1>4, <2>1, <3>1, <3>3, <3>4, <3>5 DEF Working, OpAt
  <2> QED BY <1>3, <1>6, <1>13, <2>1 DEF Rotate, RevokeRow
<1>14. CASE LoadToLogout(r)
  BY <1>2, <1>3, <1>5, <1>6, <1>14 DEF LoadToLogout, OpAt, Working
<1>15. CASE LookupUser(r)
  <2>1. CASE pc'[r] = "issue"
    <3>1. call[r].op = "forgot" /\ password'[call[r].user] # NoPassword
      BY <1>2, <1>3, <1>15, <2>1 DEF LookupUser, OpAt, users
    <3> QED BY <1>1, <1>2, <2>1, <3>1 DEF WellPlaced, OpAt, Working
  <2> QED BY <1>3, <1>6, <1>15, <2>1 DEF LookupUser
<1>16. CASE CheckToken(r)
  <2>1. CASE pc'[r] = "begin"
    <3>1. call[r].op = "reset" /\ holder'[r] = tokens[call[r].token].user
      BY <1>2, <1>3, <1>16, <2>1 DEF CheckToken, OpAt
    <3>2. /\ tokens[call[r].token].user \in Users
          /\ password[tokens[call[r].token].user] # NoPassword
      BY <1>1, <1>2, <3>1 DEF AuthTypeOK, TokenRow, Owned
    <3> QED BY <1>1, <1>4, <2>1, <3>1, <3>2 DEF Working, OpAt, Stays
  <2> QED BY <1>3, <1>6, <1>16, <2>1 DEF CheckToken
<1>17. CASE CheckPassword(r)
  <2>1. CASE pc'[r] = "begin"
    <3>1. call[r].op = "change" /\ holder'[r] = call[r].user
      BY <1>2, <1>3, <1>17, <2>1 DEF CheckPassword, OpAt
    <3>2. password[call[r].user] # NoPassword
      <4>1. call[r].current \in Passwords /\ password[call[r].user] = call[r].current
        BY <1>2, <1>3, <1>17, <2>1, <3>1 DEF CheckPassword, Calls
      <4> QED BY <4>1, AuthSentinels
    <3> QED BY <1>1, <1>2, <1>4, <2>1, <3>1, <3>2 DEF Working, OpAt, Stays
  <2> QED BY <1>3, <1>6, <1>17, <2>1 DEF CheckPassword
<1>18. CASE BeginReplace(r)
  <2>1. pc[r] = "begin" /\ pc'[r] = "commit" /\ UNCHANGED holder
    BY <1>3, <1>18 DEF BeginReplace
  <2>2. call[r].op \in OpAt("commit")
    BY <1>2, <2>1 DEF OpAt
  <2> QED BY <1>2, <1>3, <1>4, <2>1, <2>2 DEF Working, OpAt
<1> QED BY <1>7, <1>8, <1>9, <1>10, <1>11, <1>12, <1>13, <1>14, <1>15, <1>16, <1>17, <1>18
    DEF Step

\* A new call is one the client could make; it has established nothing yet.
LEMMA SubmitPlaced ==
  ASSUME Placed, NEW r \in Requests, NEW c \in Offered, Submit(r, c)
  PROVE  Placed'
<1>1. /\ AuthTypeOK /\ Owned /\ c \in Calls /\ Possible(c)
      /\ pc' = [pc EXCEPT ![r] = FirstPoint[c.op]] /\ call' = [call EXCEPT ![r] = c]
      /\ holder' = [holder EXCEPT ![r] = NoUser] /\ verifying' = [verifying EXCEPT ![r] = 0]
      /\ doomed' = [doomed EXCEPT ![r] = {}] /\ answer' = [answer EXCEPT ![r] = "none"]
      /\ UNCHANGED <<users, opened, resetting>>
  BY AuthInstance DEF Submit, Placed
<1>2. c.op \in {"register", "login", "refresh", "logout", "forgot", "reset", "change"}
  BY <1>1, CallShape
<1>3. /\ FirstPoint[c.op] \in Points \ (Working \cup {"issue"})
      /\ c.op \in OpAt(FirstPoint[c.op])
  BY <1>2 DEF FirstPoint, Points, OpAt, Working
<1>4. AuthTypeOK'
  <2>1. UNCHANGED <<password, active, epoch, sessions, bornIn, verifiedIn, origin, overlaps,
                    tokens, resets>>
    BY <1>1 DEF users, opened, history, resetting
  <2>2. /\ pc' \in [Requests -> Points] /\ call' \in [Requests -> Calls \cup {NoCall}]
        /\ holder' \in [Requests -> Users \cup {NoUser}] /\ verifying' \in [Requests -> Nat]
        /\ doomed' \in [Requests -> SUBSET Sessions] /\ answer' \in [Requests -> Answers]
    BY <1>1, <1>3 DEF AuthTypeOK, Answers
  <2>3. \A p \in Requests :
          pc'[p] \in {"session", "insert", "begin", "commit"} => holder'[p] \in Users
    BY <1>1, <1>3 DEF AuthTypeOK, Working
  <2> QED BY <1>1, <2>1, <2>2, <2>3 DEF AuthTypeOK
<1>5. Owned' /\ Stays
  BY <1>1 DEF Owned, Stays, users, opened, resetting, Exists
<1>6. WellPlaced(r)'
  <2>1. pc'[r] = FirstPoint[c.op] /\ call'[r] = c
    BY <1>1 DEF AuthTypeOK
  <2>2. /\ c.op \in {"refresh", "logout"} => sessions'[c.session] # Unused
        /\ c.op = "reset" => tokens'[c.token] # Unused
    BY <1>1 DEF Possible, opened, resetting
  <2> QED BY <1>1, <1>3, <2>1, <2>2 DEF WellPlaced
<1>7. ASSUME NEW p \in Requests, p # r PROVE WellPlaced(p)'
  BY <1>1, <1>5, <1>7, PlaceStays DEF Placed, AuthTypeOK
<1> QED BY <1>4, <1>5, <1>6, <1>7 DEF Placed

\* What goes on besides the requests keeps them placed.
LEMMA OutsidePlaced ==
  ASSUME Placed, Stays, Owned', AuthTypeOK', UNCHANGED <<call, holder>>,
         \A p \in Requests : pc'[p] \in {pc[p], "free"}
  PROVE  Placed'
<1> SUFFICES ASSUME NEW p \in Requests PROVE WellPlaced(p)'
  BY DEF Placed
<1>1. CASE pc'[p] = pc[p]
  BY <1>1, PlaceStays DEF Placed
<1>2. CASE pc'[p] = "free"
  BY <1>2 DEF WellPlaced, InProgress
<1> QED BY <1>1, <1>2

LEMMA PlacedNext == Placed /\ [Next]_vars => Placed'
<1> SUFFICES ASSUME Placed, [Next]_vars PROVE Placed'
  OBVIOUS
<1>1. AuthTypeOK /\ Owned
  BY DEF Placed
<1>2. ASSUME NEW r \in Requests, Step(r) PROVE Placed'
  <2>1. AuthTypeOK' /\ Owned' /\ Stays
    BY <1>2, StepType, StepOwned, StepStays
  <2>2. ASSUME NEW p \in Requests, p # r PROVE WellPlaced(p)'
    BY <1>2, <2>1, <2>2, PlaceStays, StepMoves DEF Placed
  <2> QED BY <1>2, <2>1, <2>2, StepPlaced DEF Placed
<1>3. ASSUME NEW u \in Administered, SetActive(u) PROVE Placed'
  <2>1. /\ UNCHANGED <<password, epoch, sessions, bornIn, verifiedIn, origin, overlaps,
                       tokens, resets, pc, answer, call, holder, verifying, doomed>>
        /\ active' \in [Users -> BOOLEAN]
    BY <1>1, <1>3, AuthInstance
    DEF SetActive, AuthTypeOK, opened, history, resetting, flow, locals
  <2>2. AuthTypeOK' /\ Owned' /\ Stays
    BY <1>1, <2>1 DEF AuthTypeOK, Owned, Stays, Exists
  <2> QED BY <2>1, <2>2, OutsidePlaced
<1>4. ASSUME NEW s \in Sessions, ExpireSession(s) PROVE Placed'
  <2>1. Marks(s)
    BY <1>1, <1>4, MarksRow DEF ExpireSession
  <2>2. UNCHANGED <<password, epoch, active, bornIn, verifiedIn, origin, overlaps,
                    tokens, resets, pc, answer, call, holder, verifying, doomed>>
    BY <1>4 DEF ExpireSession, users, history, resetting, flow, locals
  <2>3. PICK row \in SessionRow :
          row.user = sessions[s].user /\ sessions' = [sessions EXCEPT ![s] = row]
    BY <2>1 DEF Marks
  <2>4. AuthTypeOK'
    BY <1>1, <2>2, <2>3 DEF AuthTypeOK
  <2>5. Owned'
    BY <1>1, <1>4, <2>2, <2>3 DEF AuthTypeOK, Owned, Exists, ExpireSession
  <2>6. Stays
    BY <1>1, <2>1, MarksStay
  <2> QED BY <2>2, <2>4, <2>5, <2>6, OutsidePlaced
<1>5. ASSUME NEW t \in ResetTokens, ExpireToken(t) PROVE Placed'
  <2>1. SetsToken(t) /\ UNCHANGED <<pc, answer, call, holder, verifying, doomed>>
    <3>1. tokens[t] \in TokenRow
      BY <1>1, <1>5 DEF AuthTypeOK, ExpireToken
    <3> DEFINE row == [tokens[t] EXCEPT !.expired = TRUE]
    <3>2. row \in TokenRow /\ row.user = tokens[t].user /\ row.used = tokens[t].used
      BY <3>1 DEF TokenRow
    <3>3. tokens' = [tokens EXCEPT ![t] = row] /\ tokens[t] # Unused
      BY <1>5 DEF ExpireToken
    <3>4. password[tokens[t].user] # NoPassword
      BY <1>1, <3>3 DEF Owned
    <3>5. UNCHANGED <<password, active, epoch, opened, resets, pc, answer, call, holder,
                      verifying, doomed>>
      BY <1>5 DEF ExpireToken, users, flow, locals
    <3> HIDE DEF row
    <3> QED BY <3>2, <3>3, <3>4, <3>5 DEF SetsToken
  <2>2. PICK row \in TokenRow :
          password[row.user] # NoPassword /\ tokens' = [tokens EXCEPT ![t] = row]
    BY <2>1 DEF SetsToken
  <2>3. UNCHANGED <<password, active, epoch, sessions, bornIn, verifiedIn, origin, overlaps, resets>>
    BY <2>1 DEF SetsToken, opened, history
  <2>4. AuthTypeOK'
    BY <1>1, <2>1, <2>2, <2>3 DEF AuthTypeOK
  <2>5. Owned'
    BY <1>1, <2>2, <2>3 DEF AuthTypeOK, Owned, Exists
  <2>6. Stays
    BY <1>1, <2>1, TokenStays
  <2> QED BY <2>1, <2>4, <2>5, <2>6, OutsidePlaced
<1>6. CASE Restart \/ UNCHANGED vars
  <2>1. /\ UNCHANGED <<password, active, epoch, sessions, bornIn, verifiedIn, origin, overlaps,
                       tokens, resets, answer, call, holder, verifying, doomed>>
        /\ \A p \in Requests : pc'[p] \in {pc[p], "free"}
    BY <1>6 DEF Restart, vars, users, opened, history, resetting, flow, locals
  <2>2. pc' \in [Requests -> Points]
    BY <1>1, <1>6 DEF Restart, vars, flow, AuthTypeOK, Points
  <2>3. AuthTypeOK' /\ Owned' /\ Stays
    BY <1>1, <2>1, <2>2 DEF AuthTypeOK, Owned, Stays, Exists
  <2> QED BY <2>1, <2>3, OutsidePlaced
<1> QED BY <1>2, <1>3, <1>4, <1>5, <1>6, SubmitPlaced DEF Next

LEMMA PlacedAlways == Spec => []Placed
  BY PlacedInit, PlacedNext, PTL DEF Spec

\* AuthTypeOK of AuthSessions: every variable keeps to its domain, and whoever
\* opens a session or sets a password has established for whom.
THEOREM AuthTypeCorrect == Spec => []AuthTypeOK
<1>1. Placed => AuthTypeOK
  BY DEF Placed
<1> QED BY <1>1, PlacedAlways, PTL

-----------------------------------------------------------------------------
\* Every step, by what it does to users, sessions and tokens.
LEMMA NextEffect ==
  ASSUME Placed, [Next]_vars
  PROVE  \/ NoTables
         \/ \E r \in Requests : Step(r) /\ pc[r] = "create" /\ Registers(r)
         \/ \E r \in Requests, s \in Sessions : Step(r) /\ pc[r] = "insert" /\ Inserts(r, s)
         \/ \E s \in Sessions : Marks(s)
         \/ \E t \in ResetTokens : SetsToken(t)
         \/ \E r \in Requests : Step(r) /\ CommitReplace(r)
<1>1. AuthTypeOK /\ Owned
  BY DEF Placed
<1>2. ASSUME NEW r \in Requests, Step(r)
      PROVE  \/ NoTables
             \/ pc[r] = "create" /\ Registers(r)
             \/ \E s \in Sessions : pc[r] = "insert" /\ Inserts(r, s)
             \/ \E s \in Sessions : Marks(s)
             \/ \E t \in ResetTokens : SetsToken(t)
             \/ CommitReplace(r)
  BY <1>2, StepEffect
<1>3. ASSUME NEW r \in Requests, NEW c \in Offered, Submit(r, c) PROVE NoTables
  BY <1>3 DEF Submit, NoTables, users, resetting
<1>4. ASSUME NEW u \in Administered, SetActive(u) PROVE NoTables
  BY <1>4 DEF SetActive, NoTables, resetting
<1>5. ASSUME NEW s \in Sessions, ExpireSession(s) PROVE Marks(s)
  BY <1>1, <1>5, MarksRow DEF ExpireSession
<1>6. ASSUME NEW t \in ResetTokens, ExpireToken(t) PROVE SetsToken(t)
  <2>1. tokens[t] \in TokenRow
    BY <1>1, <1>6 DEF AuthTypeOK, ExpireToken
  <2> DEFINE row == [tokens[t] EXCEPT !.expired = TRUE]
  <2>2. row \in TokenRow /\ row.user = tokens[t].user /\ row.used = tokens[t].used
    BY <2>1 DEF TokenRow
  <2>3. tokens' = [tokens EXCEPT ![t] = row] /\ tokens[t] # Unused
    BY <1>6 DEF ExpireToken
  <2>4. password[tokens[t].user] # NoPassword
    BY <1>1, <2>3 DEF Owned
  <2>5. UNCHANGED <<password, active, epoch, opened, resets>>
    BY <1>6 DEF ExpireToken, users
  <2> HIDE DEF row
  <2> QED BY <2>2, <2>3, <2>4, <2>5 DEF SetsToken
<1>7. CASE Restart \/ UNCHANGED vars
  BY <1>7 DEF Restart, vars, users, resetting, NoTables
<1> QED BY <1>2, <1>3, <1>4, <1>5, <1>6, <1>7 DEF Next

\* How a request comes to have a transaction open.
LEMMA NextOpens ==
  ASSUME Placed, [Next]_vars, NEW p \in Requests, pc'[p] = "commit"
  PROVE  \/ pc[p] = "commit" /\ holder'[p] = holder[p] /\ doomed'[p] = doomed[p]
         \/ /\ doomed'[p] = DoomedRows(holder[p]) /\ holder'[p] = holder[p]
            /\ pc[p] = "begin" /\ Replacing(holder[p]) = {} /\ UNCHANGED <<sessions, overlaps>>
<1>1. AuthTypeOK
  BY DEF Placed
<1>2. CASE UNCHANGED <<holder, doomed>> /\ pc'[p] \in {pc[p], "free"}
  BY <1>2
<1>3. ASSUME Step(p)
      PROVE  /\ doomed'[p] = DoomedRows(holder[p]) /\ holder'[p] = holder[p]
             /\ pc[p] = "begin" /\ Replacing(holder[p]) = {} /\ UNCHANGED <<sessions, overlaps>>
  <2>1. BeginReplace(p)
    BY <1>1, <1>3 DEF AuthTypeOK, Step, CreateUser, AssertNotLocked, FindUser, CheckActive,
       InsertSession, LoadSession, Rotate, LoadToLogout, Logout, RevokeRow, LookupUser,
       IssueToken, CheckToken, CheckPassword, CommitReplace, GoTo, Answer
  <2> QED BY <1>1, <2>1 DEF BeginReplace, AuthTypeOK, opened, history
<1>4. ASSUME NEW r \in Requests, r # p, Step(r)
      PROVE  pc[p] = "commit" /\ holder'[p] = holder[p] /\ doomed'[p] = doomed[p]
  BY <1>4, StepMoves
<1>5. ASSUME NEW r \in Requests, NEW c \in Offered, Submit(r, c)
      PROVE  pc[p] = "commit" /\ holder'[p] = holder[p] /\ doomed'[p] = doomed[p]
  <2>1. FirstPoint[c.op] # "commit"
    BY CallShape, AuthInstance DEF FirstPoint
  <2>2. r # p
    BY <1>1, <1>5, <2>1 DEF Submit, AuthTypeOK
  <2> QED BY <1>1, <1>5, <2>2 DEF Submit, AuthTypeOK
<1>6. ASSUME NEW u \in Administered, SetActive(u)
      PROVE  UNCHANGED <<holder, doomed>> /\ pc'[p] \in {pc[p], "free"}
  BY <1>6 DEF SetActive, flow, locals
<1>7. ASSUME NEW s \in Sessions, ExpireSession(s)
      PROVE  UNCHANGED <<holder, doomed>> /\ pc'[p] \in {pc[p], "free"}
  BY <1>7 DEF ExpireSession, flow, locals
<1>8. ASSUME NEW t \in ResetTokens, ExpireToken(t)
      PROVE  UNCHANGED <<holder, doomed>> /\ pc'[p] \in {pc[p], "free"}
  BY <1>8 DEF ExpireToken, flow, locals
<1>9. CASE Restart \/ UNCHANGED vars
  BY <1>2, <1>9 DEF Restart, vars, flow, locals
<1> QED BY <1>2, <1>3, <1>4, <1>5, <1>6, <1>7, <1>8, <1>9 DEF Next

\* The rows an open transaction is about to delete are its user's, and all of
\* them but the late ones.
Sweeps(r) ==
  pc[r] = "commit" =>
    \A s \in Sessions :
      /\ s \in doomed[r] =>
           sessions[s] # Unused /\ (Exists(s) => sessions[s].user = holder[r])
      /\ Exists(s) /\ sessions[s].user = holder[r] /\ s \notin doomed[r] => overlaps[s]

\* LinkIsRevoked of one session.
Linked(s) ==
  Exists(s) /\ sessions[s].replacedBy # NoSession =>
    LET p == sessions[s].replacedBy
    IN Exists(p) /\ sessions[p].user = sessions[s].user /\ sessions[p].revoked

\* A stored session that is not late is of its user's present epoch.
Timely(s) ==
  /\ sessions[s] = Unused => ~overlaps[s] /\ origin[s] = NoSession
  /\ Exists(s) /\ ~overlaps[s] => bornIn[s] = epoch[sessions[s].user]
  /\ origin[s] # NoSession => sessions[origin[s]] # Unused
  /\ origin[s] # NoSession /\ ~overlaps[s] => bornIn[s] = bornIn[origin[s]]

ChainInv ==
  /\ Placed
  /\ \A u \in Users : password[u] = NoPassword => epoch[u] = 0
  /\ \A r \in Requests : Sweeps(r)
  /\ \A s \in Sessions : Linked(s) /\ Timely(s)

LEMMA ChainInit == Init => ChainInv
<1> SUFFICES ASSUME Init PROVE ChainInv
  OBVIOUS
<1>1. \A u \in Users : password[u] = NoPassword => epoch[u] = 0
  BY AuthSentinels, AuthInstance DEF Init
<1>2. ASSUME NEW s \in Sessions PROVE Linked(s) /\ Timely(s)
  BY DEF Init, Linked, Timely, Exists
<1> QED BY <1>1, <1>2, PlacedInit DEF Init, ChainInv, Sweeps

\* A session that is opened is new, of a registered user; one it replaces is
\* stored, of the same user, and revoked.
LEMMA InsertChain ==
  ASSUME ChainInv, NEW r \in Requests, NEW s \in Sessions, pc[r] = "insert", Inserts(r, s)
  PROVE  LET p == Predecessor(r)
         IN /\ sessions'[s] \in SessionRow /\ sessions'[s].user = holder[r]
            /\ ~sessions'[s].revoked /\ sessions'[s].replacedBy = p
            /\ holder[r] \in Users /\ password[holder[r]] # NoPassword
            /\ bornIn'[s] = epoch[holder[r]] /\ origin'[s] = p
            /\ p # NoSession =>
                 /\ p \in Sessions /\ p # s /\ Exists(p)
                 /\ sessions[p].user = holder[r] /\ sessions[p].revoked
            /\ ~overlaps'[s] => Replacing(holder[r]) = {} /\ (p # NoSession => ~overlaps[p])
            /\ \A x \in Sessions : x # s =>
                 /\ sessions'[x] = sessions[x] /\ bornIn'[x] = bornIn[x]
                 /\ origin'[x] = origin[x] /\ overlaps'[x] = overlaps[x]
<1>1. AuthTypeOK /\ WellPlaced(r)
  BY DEF ChainInv, Placed
<1>2. /\ holder[r] \in Users /\ password[holder[r]] # NoPassword
      /\ call[r] \in Calls
  BY <1>1 DEF WellPlaced, InProgress, Working
<1>3. Predecessor(r) # NoSession =>
        /\ call[r].op = "refresh" /\ Predecessor(r) = call[r].session
        /\ Predecessor(r) \in Sessions
  BY <1>2, CallShape DEF Predecessor
<1>4. Predecessor(r) \in Sessions \cup {NoSession}
  BY <1>3
<1> DEFINE p == Predecessor(r)
           row == [user |-> holder[r], revoked |-> FALSE, expired |-> FALSE, replacedBy |-> p]
<1>5. row \in SessionRow /\ row.user = holder[r] /\ ~row.revoked /\ row.replacedBy = p
  BY <1>2, <1>4 DEF SessionRow
<1>6. sessions' = [sessions EXCEPT ![s] = row] /\ sessions[s] = Unused
  BY DEF Inserts
<1> HIDE DEF row
<1>7. sessions'[s] = row
  BY <1>1, <1>6 DEF AuthTypeOK
<1>8. p # NoSession => /\ p # s /\ Exists(p)
                       /\ sessions[p].user = holder[r] /\ sessions[p].revoked
  BY <1>1, <1>3, <1>6 DEF Inserts, LinkAllowed, WellPlaced, InProgress, Working, Exists
<1>9. ~overlaps'[s] => Replacing(holder[r]) = {} /\ (p # NoSession => ~overlaps[p])
  BY <1>1 DEF Inserts, AuthTypeOK
<1>10. bornIn'[s] = epoch[holder[r]] /\ origin'[s] = p
  BY <1>1 DEF Inserts, AuthTypeOK
<1>11. \A x \in Sessions : x # s =>
         /\ sessions'[x] = sessions[x] /\ bornIn'[x] = bornIn[x]
         /\ origin'[x] = origin[x] /\ overlaps'[x] = overlaps[x]
  BY <1>1, <1>6 DEF Inserts, AuthTypeOK
<1> QED BY <1>2, <1>3, <1>5, <1>7, <1>8, <1>9, <1>10, <1>11

\* Rows that keep their user, link and revocation keep the chain.
LEMMA ChainKept ==
  ASSUME ChainInv, UNCHANGED history, NEW s \in Sessions,
         \A x \in Sessions :
           /\ sessions[x] # Unused => sessions'[x] # Unused
           /\ sessions[x] = Unused => sessions'[x] = Unused
           /\ Exists(x)' <=> Exists(x)
           /\ Exists(x) => /\ sessions'[x].user = sessions[x].user
                           /\ sessions'[x].replacedBy = sessions[x].replacedBy
                           /\ sessions[x].revoked => sessions'[x].revoked
                           /\ epoch'[sessions[x].user] = epoch[sessions[x].user]
  PROVE  Linked(s)' /\ Timely(s)'
<1>1. Linked(s) /\ Timely(s) /\ AuthTypeOK
  BY DEF ChainInv, Placed
<1>2. Exists(s) /\ sessions[s].replacedBy # NoSession => sessions[s].replacedBy \in Sessions
  BY <1>1 DEF AuthTypeOK, Exists, SessionRow
<1>3. Linked(s)'
  BY <1>1, <1>2 DEF Linked
<1>4. origin[s] # NoSession => origin[s] \in Sessions
  BY <1>1 DEF AuthTypeOK
<1>5. UNCHANGED <<origin, overlaps, bornIn>>
  BY DEF history
<1>6. Timely(s)'
  BY <1>1, <1>4, <1>5 DEF Timely
<1> QED BY <1>3, <1>6

LEMMA SweepsNext ==
  ASSUME ChainInv, [Next]_vars, NEW p \in Requests
  PROVE  Sweeps(p)'
<1>1. Placed /\ AuthTypeOK /\ Sweeps(p)
  BY DEF ChainInv, Placed
<1> SUFFICES ASSUME pc'[p] = "commit"
             PROVE  \A s \in Sessions :
                      /\ s \in doomed'[p] =>
                           /\ sessions'[s] # Unused
                           /\ Exists(s)' => sessions'[s].user = holder'[p]
                      /\ Exists(s)' /\ sessions'[s].user = holder'[p] /\ s \notin doomed'[p] =>
                           overlaps'[s]
  BY DEF Sweeps
<1>2. CASE /\ doomed'[p] = DoomedRows(holder[p]) /\ holder'[p] = holder[p]
           /\ UNCHANGED <<sessions, overlaps>>
  BY <1>2 DEF DoomedRows, Exists
<1>3. CASE pc[p] = "commit" /\ holder'[p] = holder[p] /\ doomed'[p] = doomed[p]
  <2>1. CASE UNCHANGED <<sessions, overlaps>>
    BY <1>1, <1>3, <2>1 DEF Sweeps, Exists
  <2>2. ASSUME NEW r \in Requests, NEW x \in Sessions, pc[r] = "insert", Inserts(r, x),
               NEW s \in Sessions
        PROVE  /\ s \in doomed[p] => /\ sessions'[s] # Unused
                                     /\ Exists(s)' => sessions'[s].user = holder[p]
               /\ Exists(s)' /\ sessions'[s].user = holder[p] /\ s \notin doomed[p] =>
                    overlaps'[s]
    <3>1. CASE s = x
      <4>1. s \notin doomed[p]
        BY <1>1, <1>3, <2>2, <3>1 DEF Sweeps, Inserts
      <4>2. holder[r] = holder[p] => Replacing(holder[r]) # {}
        BY <1>3 DEF Replacing
      <4>3. /\ sessions'[x].user = holder[r]
            /\ ~overlaps'[x] => Replacing(holder[r]) = {}
        BY <2>2, InsertChain
      <4> QED BY <3>1, <4>1, <4>2, <4>3
    <3>2. CASE s # x
      <4>1. sessions'[s] = sessions[s] /\ overlaps'[s] = overlaps[s]
        BY <2>2, <3>2, InsertChain
      <4> QED BY <1>1, <1>3, <4>1 DEF Sweeps, Exists
    <3> QED BY <3>1, <3>2
  <2>3. ASSUME NEW x \in Sessions, Marks(x)
        PROVE  \A s \in Sessions :
                 /\ s \in doomed[p] => /\ sessions'[s] # Unused
                                       /\ Exists(s)' => sessions'[s].user = holder[p]
                 /\ Exists(s)' /\ sessions'[s].user = holder[p] /\ s \notin doomed[p] =>
                      overlaps'[s]
    <3>1. PICK row \in SessionRow :
            row.user = sessions[x].user /\ sessions' = [sessions EXCEPT ![x] = row]
      BY <2>3 DEF Marks
    <3>2. row # Unused /\ Exists(x) /\ UNCHANGED overlaps
      BY <2>3, AuthSentinels DEF Marks, history
    <3> QED BY <1>1, <1>3, <3>1, <3>2 DEF Sweeps, Exists, AuthTypeOK
  <2>4. ASSUME NEW r \in Requests, CommitReplace(r), NEW s \in Sessions
        PROVE  /\ s \in doomed[p] => /\ sessions'[s] # Unused
                                     /\ Exists(s)' => sessions'[s].user = holder[p]
               /\ Exists(s)' /\ sessions'[s].user = holder[p] /\ s \notin doomed[p] =>
                    overlaps'[s]
    <3>1. UNCHANGED overlaps
      BY <2>4 DEF CommitReplace, history
    <3>2. /\ sessions[s] # Unused => sessions'[s] # Unused
          /\ Exists(s)' => Exists(s) /\ sessions'[s].user = sessions[s].user
      BY <1>1, <2>4, CommitRows, AuthSentinels DEF Exists
    <3> QED BY <1>1, <1>3, <3>1, <3>2 DEF Sweeps
  <2>5. CASE NoTables \/ (\E r \in Requests : Registers(r)) \/ (\E t \in ResetTokens : SetsToken(t))
    BY <2>1, <2>5 DEF NoTables, Registers, SetsToken, opened, history
  <2> QED BY <1>1, <1>3, <2>2, <2>3, <2>4, <2>5, NextEffect
<1> QED BY <1>1, <1>2, <1>3, NextOpens

LEMMA ChainStep ==
  ASSUME ChainInv, [Next]_vars, NEW s \in Sessions
  PROVE  Linked(s)' /\ Timely(s)'
<1>1. Placed /\ AuthTypeOK /\ Owned /\ Linked(s) /\ Timely(s)
  BY DEF ChainInv, Placed
<1>2. \A x \in Sessions : Exists(x) => sessions[x] \in SessionRow /\ sessions[x].user \in Users
  BY <1>1 DEF AuthTypeOK, Exists, SessionRow
<1>3. CASE UNCHANGED <<sessions, history, epoch>>
  BY <1>3, ChainKept DEF Exists
<1>4. ASSUME NEW r \in Requests, Registers(r) PROVE Linked(s)' /\ Timely(s)'
  <2>1. \A x \in Sessions : Exists(x) => sessions[x].user # call[r].user
    BY <1>1, <1>4 DEF Owned, Registers
  <2>2. \A x \in Sessions : Exists(x) => epoch'[sessions[x].user] = epoch[sessions[x].user]
    BY <1>1, <1>2, <1>4, <2>1 DEF Registers, AuthTypeOK
  <2> QED BY <1>4, <2>2, ChainKept DEF Registers, opened, Exists
<1>5. ASSUME NEW r \in Requests, NEW n \in Sessions, pc[r] = "insert", Inserts(r, n)
      PROVE  Linked(s)' /\ Timely(s)'
  <2> DEFINE p == Predecessor(r)
  <2>1. /\ sessions'[n] \in SessionRow /\ sessions'[n].user = holder[r]
        /\ sessions'[n].replacedBy = p
        /\ bornIn'[n] = epoch[holder[r]] /\ origin'[n] = p
        /\ p # NoSession =>
             /\ p \in Sessions /\ p # n /\ Exists(p)
             /\ sessions[p].user = holder[r] /\ sessions[p].revoked
        /\ ~overlaps'[n] => (p # NoSession => ~overlaps[p])
        /\ \A x \in Sessions : x # n =>
             /\ sessions'[x] = sessions[x] /\ bornIn'[x] = bornIn[x]
             /\ origin'[x] = origin[x] /\ overlaps'[x] = overlaps[x]
    BY <1>5, InsertChain
  <2>2. sessions[n] = Unused /\ UNCHANGED epoch
    BY <1>5 DEF Inserts
  <2>3. sessions'[n] # Unused
    BY <2>1, AuthSentinels
  <2> HIDE DEF p
  <2>4. CASE s = n
    <3>1. Linked(s)'
      BY <2>1, <2>4 DEF Linked, Exists
    <3>2. p # NoSession /\ ~overlaps[p] => bornIn[p] = epoch[holder[r]]
      BY <2>1 DEF ChainInv, Timely
    <3>3. p # NoSession => sessions'[p] # Unused /\ bornIn'[p] = bornIn[p]
      BY <2>1 DEF Exists
    <3>4. Timely(s)'
      BY <2>1, <2>2, <2>3, <2>4, <3>2, <3>3 DEF Timely
    <3> QED BY <3>1, <3>4
  <2>5. CASE s # n
    <3>1. /\ sessions'[s] = sessions[s] /\ bornIn'[s] = bornIn[s]
          /\ origin'[s] = origin[s] /\ overlaps'[s] = overlaps[s]
      BY <2>1, <2>5
    <3>2. Linked(s)'
      <4>1. Exists(s) /\ sessions[s].replacedBy # NoSession =>
              /\ sessions[s].replacedBy \in Sessions
              /\ Exists(sessions[s].replacedBy)
        BY <1>1, <1>2 DEF Linked, SessionRow
      <4>2. ASSUME NEW q \in Sessions, Exists(q) PROVE sessions'[q] = sessions[q]
        BY <2>1, <2>2, <4>2 DEF Exists
      <4> QED BY <1>1, <3>1, <4>1, <4>2 DEF Linked, Exists
    <3>3. Timely(s)'
      <4>1. origin[s] # NoSession => /\ origin[s] \in Sessions /\ origin[s] # n
                                     /\ sessions[origin[s]] # Unused
        BY <1>1, <2>2 DEF Timely, AuthTypeOK
      <4>2. origin[s] # NoSession => /\ sessions'[origin[s]] # Unused
                                     /\ bornIn'[origin[s]] = bornIn[origin[s]]
        BY <2>1, <4>1
      <4> QED BY <1>1, <2>2, <3>1, <4>2 DEF Timely, Exists
    <3> QED BY <3>2, <3>3
  <2> QED BY <2>4, <2>5
<1>6. ASSUME NEW n \in Sessions, Marks(n) PROVE Linked(s)' /\ Timely(s)'
  <2>1. PICK row \in SessionRow :
          /\ row.user = sessions[n].user /\ row.replacedBy = sessions[n].replacedBy
          /\ sessions[n].revoked => row.revoked
          /\ sessions' = [sessions EXCEPT ![n] = row]
    BY <1>6 DEF Marks
  <2>2. row \notin {Unused, Deleted} /\ Exists(n) /\ UNCHANGED <<history, epoch>>
    BY <1>6, AuthSentinels DEF Marks
  <2>3. \A x \in Sessions :
           /\ sessions[x] # Unused => sessions'[x] # Unused
           /\ sessions[x] = Unused => sessions'[x] = Unused
           /\ Exists(x)' <=> Exists(x)
           /\ Exists(x) => /\ sessions'[x].user = sessions[x].user
                           /\ sessions'[x].replacedBy = sessions[x].replacedBy
                           /\ sessions[x].revoked => sessions'[x].revoked
    BY <1>1, <2>1, <2>2 DEF Exists, AuthTypeOK
  <2> QED BY <2>2, <2>3, ChainKept
<1>7. ASSUME NEW r \in Requests, CommitReplace(r) PROVE Linked(s)' /\ Timely(s)'
  <2>1. \A x \in Sessions :
          /\ ~Exists(x) => sessions'[x] = sessions[x]
          /\ Exists(x) /\ x \in doomed[r] => sessions'[x] = Deleted
          /\ Exists(x) /\ x \notin doomed[r] =>
               /\ sessions'[x] \in SessionRow
               /\ sessions'[x].user = sessions[x].user
               /\ sessions'[x].revoked = sessions[x].revoked
               /\ sessions'[x].replacedBy =
                    IF sessions[x].replacedBy \in doomed[r] THEN NoSession
                    ELSE sessions[x].replacedBy
    BY <1>1, <1>7, CommitRows
  <2>2. /\ pc[r] = "commit" /\ holder[r] \in Users /\ Sweeps(r)
        /\ epoch' = [epoch EXCEPT ![holder[r]] = @ + 1]
        /\ UNCHANGED <<bornIn, origin, overlaps>>
    BY <1>1, <1>7, CommitTables DEF ChainInv, history
  <2>3. \A x \in Sessions : Exists(x)' <=> Exists(x) /\ x \notin doomed[r]
    BY <2>1, AuthSentinels DEF Exists
  <2>4. Linked(s)'
    <3> SUFFICES ASSUME Exists(s)', sessions'[s].replacedBy # NoSession
                 PROVE  \E p \in Sessions :
                          /\ p = sessions'[s].replacedBy /\ Exists(p)'
                          /\ sessions'[p].user = sessions'[s].user /\ sessions'[p].revoked
      BY DEF Linked, Exists
    <3>1. PICK p \in Sessions : p = sessions[s].replacedBy /\ p \notin doomed[r]
                                /\ sessions'[s].replacedBy = p /\ Exists(s)
                                /\ sessions'[s].user = sessions[s].user
      BY <1>2, <2>1, <2>3 DEF SessionRow
    <3>2. Exists(p) /\ sessions[p].user = sessions[s].user /\ sessions[p].revoked
      BY <1>1, <3>1 DEF Linked
    <3>3. Exists(p)' /\ sessions'[p].user = sessions[p].user /\ sessions'[p].revoked
      BY <2>1, <2>3, <3>1, <3>2
    <3> QED BY <3>1, <3>2, <3>3
  <2>5. Timely(s)'
    <3>1. sessions'[s] = Unused => sessions[s] = Unused
      BY <2>1, AuthSentinels
    <3>2. ASSUME Exists(s)', ~overlaps[s] PROVE bornIn[s] = epoch'[sessions'[s].user]
      <4>1. Exists(s) /\ s \notin doomed[r] /\ sessions'[s].user = sessions[s].user
        BY <2>1, <2>3, <3>2
      <4>2. sessions[s].user # holder[r]
        BY <2>2, <3>2, <4>1 DEF Sweeps
      <4> QED BY <1>1, <1>2, <2>2, <3>2, <4>1, <4>2 DEF Timely, AuthTypeOK
    <3>3. origin[s] # NoSession => sessions'[origin[s]] # Unused
      BY <1>1, <2>1, AuthSentinels DEF Timely, AuthTypeOK, Exists
    <3> QED BY <1>1, <2>2, <3>1, <3>2, <3>3 DEF Timely
  <2> QED BY <2>4, <2>5
<1>8. CASE NoTables \/ (\E t \in ResetTokens : SetsToken(t))
  BY <1>3, <1>8 DEF NoTables, SetsToken, opened
<1> QED BY <1>1, <1>4, <1>5, <1>6, <1>7, <1>8, NextEffect

LEMMA ChainNext == ChainInv /\ [Next]_vars => ChainInv'
<1> SUFFICES ASSUME ChainInv, [Next]_vars PROVE ChainInv'
  OBVIOUS
<1>1. Placed /\ AuthTypeOK /\ Placed'
  BY PlacedNext DEF ChainInv, Placed
<1>2. ASSUME NEW u \in Users, password'[u] = NoPassword PROVE epoch'[u] = 0
  <2>1. password[u] = NoPassword => epoch[u] = 0
    BY DEF ChainInv
  <2>2. CASE UNCHANGED <<password, epoch>>
    BY <1>2, <2>1, <2>2
  <2>3. ASSUME NEW r \in Requests, Registers(r) PROVE epoch'[u] = 0
    BY <1>1, <1>2, <2>1, <2>3, AuthSentinels DEF Registers, AuthTypeOK
  <2>4. ASSUME NEW r \in Requests, CommitReplace(r) PROVE epoch'[u] = 0
    BY <1>1, <1>2, <2>1, <2>4, AuthSentinels, CommitTables DEF AuthTypeOK
  <2> QED BY <1>1, <2>2, <2>3, <2>4, NextEffect DEF NoTables, Inserts, Marks, SetsToken
<1> QED BY <1>1, <1>2, SweepsNext, ChainStep DEF ChainInv

LEMMA ChainAlways == Spec => []ChainInv
  BY ChainInit, ChainNext, PTL DEF Spec

\* LinkIsRevoked of AuthSessions: replacedById names a revoked session of the
\* same user that is still stored, whatever resets, logouts, expiries and
\* restarts come between the two statements of a refresh.
THEOREM ChainIsRevoked == Spec => []LinkIsRevoked
<1>1. ChainInv => LinkIsRevoked
  BY DEF ChainInv, Linked, LinkIsRevoked
<1> QED BY <1>1, ChainAlways, PTL

\* RefreshStaysInEpoch of AuthSessions: a refresh does not carry a session over
\* a password update, but for the late ones.
THEOREM RefreshInEpoch == Spec => []RefreshStaysInEpoch
<1>1. ChainInv => RefreshStaysInEpoch
  BY DEF ChainInv, Timely, RefreshStaysInEpoch
<1> QED BY <1>1, ChainAlways, PTL

-----------------------------------------------------------------------------
\* The state of SessionLifecycle, as SessionLifecycleSpec maps it.
OwnerMap == [s \in Sessions |-> IF Exists(s) THEN sessions[s].user ELSE NoUser]
StatusOf(s) == CASE sessions[s] = Unused  -> "unused"
                 [] sessions[s] = Deleted -> "gone"
                 [] OTHER -> IF sessions[s].revoked THEN "revoked" ELSE "live"
StatusMap == [s \in Sessions |-> StatusOf(s)]
LateMap == {s \in Sessions : overlaps[s]}
LifecycleMap == <<OwnerMap, StatusMap, LateMap, epoch>>

\* The maps, one session at a time.
LEMMA MapsOf ==
  ASSUME NEW s \in Sessions
  PROVE  /\ OwnerMap[s] = IF Exists(s) THEN sessions[s].user ELSE NoUser
         /\ sessions[s] = Unused => StatusMap[s] = "unused"
         /\ sessions[s] = Deleted => StatusMap[s] = "gone"
         /\ Exists(s) => StatusMap[s] = IF sessions[s].revoked THEN "revoked" ELSE "live"
  BY AuthSentinels DEF OwnerMap, StatusMap, StatusOf, Exists

LEMMA MapsOfNext ==
  ASSUME NEW s \in Sessions
  PROVE  /\ OwnerMap'[s] = IF Exists(s)' THEN sessions'[s].user ELSE NoUser
         /\ sessions'[s] = Unused => StatusMap'[s] = "unused"
         /\ sessions'[s] = Deleted => StatusMap'[s] = "gone"
         /\ Exists(s)' => StatusMap'[s] = IF sessions'[s].revoked THEN "revoked" ELSE "live"
  BY AuthSentinels DEF OwnerMap, StatusMap, StatusOf, Exists

LEMMA MapsAreFunctions ==
  /\ OwnerMap = [s \in Sessions |-> OwnerMap[s]]
  /\ StatusMap = [s \in Sessions |-> StatusMap[s]]
  /\ OwnerMap' = [s \in Sessions |-> OwnerMap'[s]]
  /\ StatusMap' = [s \in Sessions |-> StatusMap'[s]]
  BY DEF OwnerMap, StatusMap

LEMMA LifecycleInit == Init => Lifecycle!Init
<1> SUFFICES ASSUME Init PROVE Lifecycle!Init
  OBVIOUS
<1>1. LateMap = {}
  BY DEF Init, LateMap
<1>3. /\ OwnerMap = [s \in Sessions |-> NoUser]
      /\ StatusMap = [s \in Sessions |-> "unused"]
  <2>1. \A s \in Sessions : sessions[s] = Unused /\ ~Exists(s)
    BY DEF Init, Exists
  <2> QED BY <2>1, MapsOf, MapsAreFunctions
<1>2. epoch \in [Users -> {0, 1}]
  BY DEF Init
<1> QED BY <1>1, <1>2, <1>3 DEF Lifecycle!Init, OwnerMap, StatusMap, StatusOf, LateMap

\* An insert opens a session.
LEMMA InsertOpens ==
  ASSUME ChainInv, NEW r \in Requests, NEW n \in Sessions, pc[r] = "insert", Inserts(r, n)
  PROVE  Lifecycle!Next
<1>0. PICK u \in Users : u = holder[r]
  BY InsertChain
<1>1. /\ sessions'[n] \in SessionRow /\ sessions'[n].user = u /\ ~sessions'[n].revoked
      /\ \A x \in Sessions : x # n =>
           /\ sessions'[x] = sessions[x] /\ overlaps'[x] = overlaps[x]
  BY <1>0, InsertChain
<1>2. sessions[n] = Unused /\ ~overlaps[n] /\ UNCHANGED epoch
  BY DEF Inserts, ChainInv, Timely
<1>3. Exists(n)'
  BY <1>1, AuthSentinels DEF Exists
<1>4. \A x \in Sessions : x # n => OwnerMap'[x] = OwnerMap[x] /\ StatusMap'[x] = StatusMap[x]
  BY <1>1 DEF OwnerMap, StatusMap, StatusOf, Exists
<1>5. OwnerMap'[n] = u /\ StatusMap'[n] = "live" /\ StatusMap[n] = "unused"
  BY <1>1, <1>2, <1>3, MapsOf, MapsOfNext
<1>6. /\ OwnerMap' = [OwnerMap EXCEPT ![n] = u]
      /\ StatusMap' = [StatusMap EXCEPT ![n] = "live"]
  BY <1>4, <1>5, MapsAreFunctions
<1>7. LateMap' \in {LateMap, LateMap \cup {n}}
  <2>1. CASE overlaps'[n]
    <3>1. LateMap' = LateMap \cup {n}
      BY <1>1, <2>1 DEF LateMap
    <3> QED BY <3>1
  <2>2. CASE ~overlaps'[n]
    <3>1. LateMap' = LateMap
      BY <1>1, <1>2, <2>2 DEF LateMap
    <3> QED BY <3>1
  <2> QED BY <2>1, <2>2
<1>8. Lifecycle!Open(n, u)
  BY <1>2, <1>5, <1>6, <1>7 DEF Lifecycle!Open, OwnerMap, StatusMap, StatusOf, LateMap
<1> QED BY <1>1, <1>8 DEF Lifecycle!Next

\* Marking a row revokes a live session, or changes nothing of its life.
LEMMA MarksRevoke ==
  ASSUME ChainInv, NEW n \in Sessions, Marks(n)
  PROVE  Lifecycle!Next \/ UNCHANGED LifecycleMap
<1>1. AuthTypeOK
  BY DEF ChainInv, Placed
<1>2. PICK row \in SessionRow :
        /\ row.user = sessions[n].user
        /\ sessions[n].revoked => row.revoked
        /\ sessions' = [sessions EXCEPT ![n] = row]
  BY DEF Marks
<1>3. Exists(n) /\ UNCHANGED <<overlaps, epoch>>
  BY DEF Marks, history
<1>4. sessions'[n] = row /\ Exists(n)'
  BY <1>1, <1>2, AuthSentinels DEF AuthTypeOK, Exists
<1>5. \A x \in Sessions : x # n => sessions'[x] = sessions[x]
  BY <1>1, <1>2 DEF AuthTypeOK
<1>6. \A x \in Sessions : x # n => OwnerMap'[x] = OwnerMap[x] /\ StatusMap'[x] = StatusMap[x]
  BY <1>5 DEF OwnerMap, StatusMap, StatusOf, Exists
<1>7. OwnerMap' = OwnerMap
  BY <1>2, <1>3, <1>4, <1>6, MapsOf, MapsOfNext, MapsAreFunctions
<1>8. LateMap' = LateMap
  BY <1>3 DEF LateMap
<1>9. CASE row.revoked /\ ~sessions[n].revoked
  <2>1. StatusMap[n] = "live" /\ StatusMap'[n] = "revoked"
    BY <1>3, <1>4, <1>9, MapsOf, MapsOfNext
  <2>2. StatusMap' = [StatusMap EXCEPT ![n] = "revoked"]
    BY <1>6, <2>1, MapsAreFunctions
  <2>3. Lifecycle!Revoke(n)
    BY <1>3, <1>7, <1>8, <2>1, <2>2 DEF Lifecycle!Revoke, OwnerMap, StatusMap, StatusOf, LateMap
  <2> QED BY <2>3 DEF Lifecycle!Next
<1>10. CASE ~(row.revoked /\ ~sessions[n].revoked)
  <2>1. StatusMap'[n] = StatusMap[n]
    BY <1>2, <1>3, <1>4, <1>10, MapsOf, MapsOfNext
  <2>2. StatusMap' = StatusMap
    BY <1>6, <2>1, MapsAreFunctions
  <2> QED BY <1>3, <1>7, <1>8, <2>2 DEF LifecycleMap
<1> QED BY <1>9, <1>10

\* The sessions of u end, but for those spared.
Ends(spared, u) ==
  /\ StatusMap' = [s \in Sessions |->
       IF OwnerMap[s] = u /\ s \notin spared THEN "gone" ELSE StatusMap[s]]
  /\ OwnerMap' = [s \in Sessions |->
       IF OwnerMap[s] = u /\ s \notin spared THEN NoUser ELSE OwnerMap[s]]

LEMMA SetsPassword ==
  ASSUME NEW u \in Users, NEW spared \in SUBSET LateMap, Ends(spared, u),
         epoch' = [epoch EXCEPT ![u] = @ + 1], LateMap' = LateMap
  PROVE  Lifecycle!Next
<1>1. Lifecycle!SetPassword(u)
  BY DEF Lifecycle!SetPassword, Ends, OwnerMap, StatusMap, StatusOf, LateMap
<1> QED BY <1>1 DEF Lifecycle!Next

\* Registration sets a password while there is no session to end.
LEMMA RegistersSet ==
  ASSUME ChainInv, NEW r \in Requests, Registers(r)
  PROVE  Lifecycle!Next
<1>1. AuthTypeOK /\ Owned
  BY DEF ChainInv, Placed
<1>2. PICK u \in Users :
        u = call[r].user /\ epoch[u] = 0 /\ password[u] = NoPassword
  BY DEF ChainInv, Registers
<1>3. epoch' = [epoch EXCEPT ![u] = @ + 1] /\ UNCHANGED <<sessions, overlaps>>
  BY <1>1, <1>2 DEF Registers, AuthTypeOK, opened, history
<1>4. \A s \in Sessions : OwnerMap[s] # u
  BY <1>1, <1>2, AuthSentinels DEF OwnerMap, Owned
<1>5. /\ OwnerMap' = OwnerMap /\ StatusMap' = StatusMap /\ LateMap' = LateMap
  BY <1>3 DEF OwnerMap, StatusMap, StatusOf, LateMap, Exists
<1>6. /\ StatusMap' = [s \in Sessions |-> IF OwnerMap[s] = u /\ s \notin {} THEN "gone" ELSE StatusMap[s]]
      /\ OwnerMap' = [s \in Sessions |-> IF OwnerMap[s] = u /\ s \notin {} THEN NoUser ELSE OwnerMap[s]]
  BY <1>4, <1>5, MapsAreFunctions
<1>7. Ends({}, u)
  BY <1>6 DEF Ends
<1>8. {} \in SUBSET LateMap
  OBVIOUS
<1> QED BY <1>2, <1>3, <1>5, <1>7, <1>8, SetsPassword

\* A COMMIT ends the holder's sessions, all but the late ones its DELETE did
\* not see.
LEMMA CommitSets ==
  ASSUME ChainInv, NEW r \in Requests, CommitReplace(r)
  PROVE  Lifecycle!Next
<1>1. Placed /\ AuthTypeOK
  BY DEF ChainInv, Placed
<1>2. PICK u \in Users :
        /\ u = holder[r] /\ Sweeps(r) /\ pc[r] = "commit"
        /\ epoch' = [epoch EXCEPT ![u] = @ + 1] /\ UNCHANGED overlaps
  BY <1>1, CommitTables DEF ChainInv, history
<1>3. PICK spared \in SUBSET LateMap :
        spared = {s \in Sessions : Exists(s) /\ sessions[s].user = u /\ s \notin doomed[r]}
  BY <1>2 DEF Sweeps, LateMap
<1>4. ASSUME NEW s \in Sessions
      PROVE  /\ OwnerMap[s] = u /\ s \notin spared =>
                  OwnerMap'[s] = NoUser /\ StatusMap'[s] = "gone"
             /\ ~(OwnerMap[s] = u /\ s \notin spared) =>
                  OwnerMap'[s] = OwnerMap[s] /\ StatusMap'[s] = StatusMap[s]
  <2>1. /\ ~Exists(s) => sessions'[s] = sessions[s]
        /\ Exists(s) /\ s \in doomed[r] => sessions'[s] = Deleted
        /\ Exists(s) /\ s \notin doomed[r] =>
             /\ sessions'[s] \in SessionRow /\ sessions'[s].user = sessions[s].user
             /\ sessions'[s].revoked = sessions[s].revoked
    BY <1>1, CommitRows
  <2>2. CASE ~Exists(s)
    <3>1. OwnerMap[s] # u
      BY <1>2, <2>2, MapsOf, AuthSentinels
    <3> QED BY <2>1, <2>2, <3>1 DEF OwnerMap, StatusMap, StatusOf, Exists
  <2>3. CASE Exists(s) /\ s \in doomed[r]
    <3>1. OwnerMap[s] = u /\ s \notin spared
      BY <1>2, <1>3, <2>3, MapsOf DEF Sweeps
    <3>2. ~Exists(s)' /\ sessions'[s] = Deleted
      BY <2>1, <2>3 DEF Exists
    <3> QED BY <3>1, <3>2, MapsOfNext
  <2>4. CASE Exists(s) /\ s \notin doomed[r]
    <3>1. ~(OwnerMap[s] = u /\ s \notin spared)
      BY <1>3, <2>4, MapsOf
    <3>2. Exists(s)'
      BY <2>1, <2>4, AuthSentinels DEF Exists
    <3> QED BY <2>1, <2>4, <3>1, <3>2, MapsOf, MapsOfNext
  <2> QED BY <2>2, <2>3, <2>4
<1>5. Ends(spared, u)
  BY <1>4, MapsAreFunctions DEF Ends
<1>6. LateMap' = LateMap
  BY <1>2 DEF LateMap
<1> QED BY <1>2, <1>5, <1>6, SetsPassword

\* SessionLifecycleSpec of AuthSessions, a refinement: whatever overlaps, a
\* session is opened once, revoked for good, and ends exactly when its user's
\* password is set, unless it was late.
THEOREM SessionsFollowLifecycle == Spec => SessionLifecycleSpec
<1>1. ASSUME ChainInv, [Next]_vars PROVE [Lifecycle!Next]_LifecycleMap
  <2>1. CASE NoTables \/ \E t \in ResetTokens : SetsToken(t)
    <3>1. UNCHANGED <<sessions, overlaps, epoch>>
      BY <2>1 DEF NoTables, SetsToken, opened, history
    <3> QED BY <3>1 DEF LifecycleMap, OwnerMap, StatusMap, StatusOf, LateMap, Exists
  <2>2. Placed
    BY <1>1 DEF ChainInv
  <2> QED BY <1>1, <2>1, <2>2, NextEffect, InsertOpens, MarksRevoke, RegistersSet, CommitSets
<1> QED BY <1>1, ChainInit, ChainNext, LifecycleInit, PTL
        DEF Spec, SessionLifecycleSpec, Lifecycle!Spec, Lifecycle!lifecycleVars,
            LifecycleMap, OwnerMap, StatusMap, StatusOf, LateMap

-----------------------------------------------------------------------------
(***************************************************************************)
(* What AuthService gives a client that sends one request at a time.  With *)
(* requests that overlap, two refreshes with one token open two sessions   *)
(* and a login overtakes a password change: the runs AuthRotationOnce and  *)
(* AuthForcedRelogin.                                                      *)
(***************************************************************************)
Serial == \A r, q \in Requests : r = q

Refreshing == {"rotate", "session", "insert"}

\* Between the load and the insert nothing else is refreshed, and the epoch of
\* the check that is being passed on stays the present one.
OwnRefresh(r) ==
  pc[r] \in Refreshing =>
    /\ verifying[r] = epoch[holder[r]]
    /\ call[r].op = "refresh" => \A s \in Sessions : origin[s] # call[r].session

\* A token that is being used has not been; a transaction sees every row.
OwnReset(r) ==
  /\ pc[r] \in {"begin", "commit"} /\ call[r].op = "reset" => ~tokens[call[r].token].used
  /\ pc[r] = "commit" =>
       \A s \in Sessions : Exists(s) /\ sessions[s].user = holder[r] => s \in doomed[r]

\* A session that can be refreshed is of the present epoch and was not yet.
Refreshable(s) ==
  Exists(s) /\ ~sessions[s].revoked =>
    /\ verifiedIn[s] = epoch[sessions[s].user]
    /\ \A x \in Sessions : origin[x] # s

Spent(t) == resets[t] <= 1 /\ (tokens[t] = Unused \/ ~tokens[t].used => resets[t] = 0)

SerialInv ==
  /\ ChainInv /\ RotationOnce
  /\ \A r \in Requests : OwnRefresh(r) /\ OwnReset(r)
  /\ \A s \in Sessions : Refreshable(s)
  /\ \A t \in ResetTokens : Spent(t)

LEMMA SerialInit == Init => SerialInv
<1> SUFFICES ASSUME Init PROVE SerialInv
  OBVIOUS
<1>1. RotationOnce
  BY DEF Init, RotationOnce
<1>2. ASSUME NEW r \in Requests PROVE OwnRefresh(r) /\ OwnReset(r)
  BY DEF Init, OwnRefresh, OwnReset, Refreshing
<1>3. ASSUME NEW s \in Sessions PROVE Refreshable(s)
  BY DEF Init, Refreshable, Exists
<1>4. ASSUME NEW t \in ResetTokens PROVE Spent(t)
  BY DEF Init, Spent
<1> QED BY <1>1, <1>2, <1>3, <1>4, ChainInit DEF SerialInv

\* How a request comes to be refreshing, or on its way from another check.
LEMMA NextRefreshes ==
  ASSUME Serial, SerialInv, [Next]_vars, NEW p \in Requests, pc'[p] \in Refreshing
  PROVE  /\ call'[p] = call[p]
         /\ \/ CreateUser(p) /\ call[p].op = "register"
            \/ FindUser(p) /\ call[p].op = "login"
            \/ LoadSession(p) /\ call[p].op = "refresh"
            \/ /\ pc[p] \in Refreshing /\ holder'[p] = holder[p] /\ verifying'[p] = verifying[p]
               /\ UNCHANGED <<epoch, history>>
<1>1. Placed /\ AuthTypeOK /\ WellPlaced(p)
  BY DEF SerialInv, ChainInv, Placed
<1> USE DEF Refreshing
<1>2. ASSUME NEW r \in Requests, Step(r)
      PROVE  /\ call'[p] = call[p]
             /\ \/ CreateUser(p) /\ call[p].op = "register"
                \/ FindUser(p) /\ call[p].op = "login"
                \/ LoadSession(p) /\ call[p].op = "refresh"
                \/ /\ pc[p] \in Refreshing /\ UNCHANGED <<holder, verifying>>
                   /\ UNCHANGED <<epoch, history>>
  <2>1. Step(p) /\ call' = call
    BY <1>1, <1>2, StepMoves DEF Serial
  <2>2. CASE \/ AssertNotLocked(p) \/ InsertSession(p) \/ LoadToLogout(p) \/ Logout(p)
             \/ LookupUser(p) \/ IssueToken(p) \/ CheckToken(p) \/ CheckPassword(p)
             \/ BeginReplace(p) \/ CommitReplace(p)
    BY <1>1, <2>2 DEF AuthTypeOK, AssertNotLocked, InsertSession, LoadToLogout, Logout,
       RevokeRow, LookupUser, IssueToken, CheckToken, CheckPassword, BeginReplace,
       CommitReplace, GoTo, Answer
  <2>3. CASE CheckActive(p) \/ Rotate(p)
    BY <2>1, <2>3 DEF CheckActive, Rotate, RevokeRow, locals, users, opened
  <2>4. CASE CreateUser(p) \/ FindUser(p) \/ LoadSession(p)
    BY <1>1, <2>1, <2>4 DEF CreateUser, FindUser, LoadSession, WellPlaced, InProgress, OpAt
  <2> QED BY <2>1, <2>2, <2>3, <2>4 DEF Step
<1>3. ASSUME NEW r \in Requests, NEW c \in Offered, Submit(r, c) PROVE FALSE
  <2>1. FirstPoint[c.op] \notin Refreshing
    BY CallShape, AuthInstance DEF FirstPoint
  <2> QED BY <1>1, <1>3, <2>1 DEF Submit, AuthTypeOK, Serial
<1>4. ASSUME NEW u \in Administered, SetActive(u)
      PROVE  UNCHANGED <<pc, call, holder, verifying, epoch, history>>
  BY <1>4 DEF SetActive, flow, locals, opened
<1>5. ASSUME NEW s \in Sessions, ExpireSession(s)
      PROVE  UNCHANGED <<pc, call, holder, verifying, epoch, history>>
  BY <1>5 DEF ExpireSession, flow, locals, users
<1>6. ASSUME NEW t \in ResetTokens, ExpireToken(t)
      PROVE  UNCHANGED <<pc, call, holder, verifying, epoch, history>>
  BY <1>6 DEF ExpireToken, flow, locals, users, opened
<1>7. CASE Restart \/ UNCHANGED vars
  <2>1. pc'[p] = pc[p] /\ UNCHANGED <<call, holder, verifying, epoch, history>>
    BY <1>7 DEF Restart, vars, flow, locals, users, opened
  <2> QED BY <2>1
<1> QED BY <1>2, <1>3, <1>4, <1>5, <1>6, <1>7 DEF Next

LEMMA OwnRefreshNext ==
  ASSUME Serial, SerialInv, [Next]_vars, NEW p \in Requests
  PROVE  OwnRefresh(p)'
<1>1. AuthTypeOK /\ WellPlaced(p) /\ OwnRefresh(p)
  BY DEF SerialInv, ChainInv, Placed
<1> SUFFICES ASSUME pc'[p] \in Refreshing
             PROVE  /\ verifying'[p] = epoch'[holder'[p]]
                    /\ call[p].op = "refresh" => \A s \in Sessions : origin'[s] # call[p].session
  BY NextRefreshes DEF OwnRefresh
<1>2. CASE CreateUser(p) /\ call[p].op = "register"
  <2>1. call[p].user \in Users
    BY <1>1, <1>2, CallShape DEF CreateUser, WellPlaced, InProgress
  <2>2. ~Answer(p, "error")
    BY <1>1 DEF Answer, AuthTypeOK, Refreshing
  <2>3. /\ epoch' = [epoch EXCEPT ![call[p].user] = 1]
        /\ holder' = [holder EXCEPT ![p] = call[p].user]
        /\ verifying' = [verifying EXCEPT ![p] = 1]
    BY <1>2, <2>2 DEF CreateUser, Hold
  <2> QED BY <1>1, <1>2, <2>1, <2>3 DEF AuthTypeOK
<1>3. CASE FindUser(p) /\ call[p].op = "login"
  <2>1. /\ holder' = [holder EXCEPT ![p] = call[p].user]
        /\ verifying' = [verifying EXCEPT ![p] = epoch[call[p].user]]
        /\ UNCHANGED epoch
    BY <1>1, <1>3 DEF FindUser, Hold, Answer, AuthTypeOK, Refreshing, users
  <2> QED BY <1>1, <1>3, <2>1 DEF AuthTypeOK
<1>4. CASE LoadSession(p) /\ call[p].op = "refresh"
  <2> DEFINE s == call[p].session
  <2>1. s \in Sessions
    BY <1>1, <1>4, CallShape DEF LoadSession, WellPlaced, InProgress
  <2>2. /\ Exists(s) /\ ~sessions[s].revoked
        /\ holder' = [holder EXCEPT ![p] = sessions[s].user]
        /\ verifying' = [verifying EXCEPT ![p] = verifiedIn[s]]
        /\ UNCHANGED <<epoch, origin>>
    BY <1>1, <1>4 DEF LoadSession, Hold, Answer, AuthTypeOK, Refreshing, users, opened, history
  <2>3. verifiedIn[s] = epoch[sessions[s].user] /\ \A x \in Sessions : origin[x] # s
    BY <2>1, <2>2 DEF SerialInv, Refreshable
  <2> QED BY <1>1, <2>2, <2>3 DEF AuthTypeOK
<1>5. CASE /\ pc[p] \in Refreshing /\ holder'[p] = holder[p] /\ verifying'[p] = verifying[p]
           /\ UNCHANGED <<epoch, history>>
  BY <1>1, <1>5 DEF OwnRefresh, history
<1> QED BY <1>2, <1>3, <1>4, <1>5, NextRefreshes

\* How a request comes to be about to use its token.
LEMMA NextResets ==
  ASSUME Serial, Placed, [Next]_vars, NEW p \in Requests, pc'[p] \in {"begin", "commit"}
  PROVE  /\ call'[p] = call[p] /\ call[p] \in Calls /\ ~CommitReplace(p) /\ pc[p] # "insert"
         /\ call[p].op = "reset" => tokens[call[p].token] # Unused
         /\ \/ pc[p] \in {"begin", "commit"}
            \/ CheckPassword(p) /\ call[p].op = "change"
            \/ CheckToken(p) /\ ~tokens[call[p].token].used
<1>1. AuthTypeOK /\ WellPlaced(p)
  BY DEF Placed
<1>2. ~CommitReplace(p)
  BY <1>1 DEF CommitReplace, Answer, AuthTypeOK
<1>3. ASSUME NEW r \in Requests, Step(r)
      PROVE  /\ call' = call
             /\ \/ pc[p] = "begin"
                \/ CheckPassword(p) /\ call[p].op = "change"
                \/ CheckToken(p) /\ ~tokens[call[p].token].used
  <2>1. Step(p) /\ call' = call
    BY <1>3, StepMoves DEF Serial
  <2>2. CheckToken(p) \/ CheckPassword(p) \/ BeginReplace(p)
    BY <1>1, <1>2, <2>1 DEF AuthTypeOK, Step, CreateUser, AssertNotLocked, FindUser, CheckActive,
       InsertSession, LoadSession, Rotate, LoadToLogout, Logout, RevokeRow, LookupUser,
       IssueToken, GoTo, Answer
  <2>3. CASE BeginReplace(p)
    BY <2>1, <2>3 DEF BeginReplace
  <2>4. CASE CheckPassword(p)
    BY <1>1, <2>1, <2>4 DEF CheckPassword, WellPlaced, InProgress, OpAt
  <2>5. CASE CheckToken(p)
    BY <1>1, <2>1, <2>5 DEF CheckToken, AuthTypeOK, Answer
  <2> QED BY <2>2, <2>3, <2>4, <2>5
<1>4. ASSUME NEW r \in Requests, NEW c \in Offered, Submit(r, c) PROVE FALSE
  <2>1. FirstPoint[c.op] \notin {"begin", "commit"}
    BY CallShape, AuthInstance DEF FirstPoint
  <2> QED BY <1>1, <1>4, <2>1 DEF Submit, AuthTypeOK, Serial
<1>5. ASSUME NEW u \in Administered, SetActive(u) PROVE UNCHANGED <<pc, call>>
  BY <1>5 DEF SetActive, flow, locals
<1>6. ASSUME NEW s \in Sessions, ExpireSession(s) PROVE UNCHANGED <<pc, call>>
  BY <1>6 DEF ExpireSession, flow, locals
<1>7. ASSUME NEW t \in ResetTokens, ExpireToken(t) PROVE UNCHANGED <<pc, call>>
  BY <1>7 DEF ExpireToken, flow, locals
<1>8. ASSUME Restart \/ UNCHANGED vars PROVE pc'[p] = pc[p] /\ UNCHANGED call
  BY <1>8 DEF Restart, vars, flow, locals
<1>9. /\ call'[p] = call[p]
      /\ \/ pc[p] \in {"begin", "commit"}
         \/ CheckPassword(p) /\ call[p].op = "change"
         \/ CheckToken(p) /\ ~tokens[call[p].token].used
  BY <1>3, <1>4, <1>5, <1>6, <1>7, <1>8 DEF Next
<1>10. pc[p] \in {"begin", "commit", "check", "token"}
  BY <1>9 DEF CheckPassword, CheckToken
<1> QED BY <1>1, <1>2, <1>9, <1>10 DEF WellPlaced, InProgress

LEMMA OwnResetNext ==
  ASSUME Serial, SerialInv, [Next]_vars, NEW p \in Requests
  PROVE  OwnReset(p)'
<1>1. Placed /\ AuthTypeOK /\ OwnReset(p) /\ ChainInv
  BY DEF SerialInv, ChainInv, Placed
<1>2. ASSUME pc'[p] \in {"begin", "commit"}, call'[p].op = "reset"
      PROVE  ~tokens'[call'[p].token].used
  <2>1. /\ call'[p] = call[p] /\ call[p].token \in ResetTokens
        /\ tokens[call[p].token] # Unused /\ ~CommitReplace(p)
    BY <1>1, <1>2, NextResets, CallShape
  <2>2. ~tokens[call[p].token].used
    BY <1>1, <1>2, <2>1, NextResets DEF OwnReset
  <2>3. CASE UNCHANGED tokens
    BY <2>1, <2>2, <2>3
  <2>4. ASSUME NEW t \in ResetTokens, SetsToken(t)
        PROVE  ~tokens'[call'[p].token].used
    <3>1. PICK row \in TokenRow :
            /\ tokens[t] # Unused => row.used = tokens[t].used
            /\ tokens' = [tokens EXCEPT ![t] = row]
      BY <2>4 DEF SetsToken
    <3> QED BY <1>1, <2>1, <2>2, <3>1 DEF AuthTypeOK
  <2>5. \A r \in Requests : ~CommitReplace(r)
    BY <2>1 DEF Serial
  <2> QED BY <1>1, <2>3, <2>4, <2>5, NextEffect DEF NoTables, Registers, Inserts, Marks
<1>3. ASSUME pc'[p] = "commit", NEW s \in Sessions, Exists(s)', sessions'[s].user = holder'[p]
      PROVE  s \in doomed'[p]
  <2>1. CASE /\ doomed'[p] = DoomedRows(holder[p]) /\ holder'[p] = holder[p]
             /\ UNCHANGED sessions
    BY <1>3, <2>1 DEF DoomedRows, Exists
  <2>2. CASE pc[p] = "commit" /\ holder'[p] = holder[p] /\ doomed'[p] = doomed[p]
    <3>1. Exists(s) /\ sessions'[s].user = sessions[s].user
      <4>1. CASE UNCHANGED sessions
        BY <1>3, <4>1 DEF Exists
      <4>2. ASSUME NEW x \in Sessions, Marks(x)
            PROVE  Exists(s) /\ sessions'[s].user = sessions[s].user
        <5>1. PICK row \in SessionRow :
                row.user = sessions[x].user /\ sessions' = [sessions EXCEPT ![x] = row]
          BY <4>2 DEF Marks
        <5> QED BY <1>1, <1>3, <4>2, <5>1 DEF Marks, Exists, AuthTypeOK
      <4>3. \A r \in Requests : ~CommitReplace(r) /\ pc[r] # "insert"
        BY <1>1, <1>3, NextResets DEF Serial
      <4> QED BY <1>1, <4>1, <4>2, <4>3, NextEffect DEF NoTables, Registers, SetsToken, opened
    <3> QED BY <1>1, <1>3, <2>2, <3>1 DEF OwnReset
  <2> QED BY <1>1, <1>3, <2>1, <2>2, NextOpens
<1> QED BY <1>2, <1>3 DEF OwnReset

LEMMA RefreshableNext ==
  ASSUME SerialInv, [Next]_vars, NEW s \in Sessions
  PROVE  Refreshable(s)'
<1>1. /\ Placed /\ AuthTypeOK /\ Owned /\ ChainInv /\ Refreshable(s)
      /\ \A x \in Sessions : Timely(x)
  BY DEF SerialInv, ChainInv, Placed
<1>2. Exists(s) => sessions[s].user \in Users
  BY <1>1 DEF AuthTypeOK, Exists, SessionRow
<1>3. ASSUME UNCHANGED <<verifiedIn, origin>>,
             Exists(s)' => /\ Exists(s) /\ sessions'[s].user = sessions[s].user
                           /\ sessions[s].revoked => sessions'[s].revoked
                           /\ epoch'[sessions[s].user] = epoch[sessions[s].user]
      PROVE  Refreshable(s)'
  BY <1>1, <1>3 DEF Refreshable
<1>4. CASE NoTables \/ (\E t \in ResetTokens : SetsToken(t))
  BY <1>3, <1>4 DEF NoTables, SetsToken, opened, history, Exists
<1>5. ASSUME NEW r \in Requests, Registers(r) PROVE Refreshable(s)'
  <2>1. Exists(s) => sessions[s].user # call[r].user
    BY <1>1, <1>5 DEF Owned, Registers
  <2>2. Exists(s) => epoch'[sessions[s].user] = epoch[sessions[s].user]
    BY <1>1, <1>2, <1>5, <2>1 DEF Registers, AuthTypeOK
  <2> QED BY <1>3, <1>5, <2>2 DEF Registers, opened, history, Exists
<1>6. ASSUME NEW n \in Sessions, Marks(n) PROVE Refreshable(s)'
  <2>1. PICK row \in SessionRow :
          /\ row.user = sessions[n].user /\ sessions[n].revoked => row.revoked
          /\ sessions' = [sessions EXCEPT ![n] = row]
    BY <1>6 DEF Marks
  <2>2. Exists(s)' => /\ Exists(s) /\ sessions'[s].user = sessions[s].user
                      /\ sessions[s].revoked => sessions'[s].revoked
    BY <1>1, <1>6, <2>1 DEF Marks, Exists, AuthTypeOK
  <2>3. UNCHANGED <<verifiedIn, origin, epoch>>
    BY <1>6 DEF Marks, history
  <2> QED BY <1>3, <2>2, <2>3
<1>7. ASSUME NEW r \in Requests, CommitReplace(r) PROVE Refreshable(s)'
  <2>1. /\ holder[r] \in Users /\ pc[r] = "commit"
        /\ epoch' = [epoch EXCEPT ![holder[r]] = @ + 1] /\ UNCHANGED <<verifiedIn, origin>>
    BY <1>1, <1>7, CommitTables DEF history
  <2>2. Exists(s)' => /\ Exists(s) /\ s \notin doomed[r]
                      /\ sessions'[s].user = sessions[s].user
                      /\ sessions'[s].revoked = sessions[s].revoked
    BY <1>1, <1>7, CommitRows DEF Exists
  <2>3. Exists(s)' => sessions[s].user # holder[r]
    BY <2>1, <2>2 DEF SerialInv, OwnReset
  <2>4. Exists(s)' => epoch'[sessions[s].user] = epoch[sessions[s].user]
    BY <1>1, <1>2, <2>1, <2>2, <2>3 DEF AuthTypeOK
  <2> QED BY <1>3, <2>1, <2>2, <2>4
<1>8. ASSUME NEW r \in Requests, NEW n \in Sessions, pc[r] = "insert", Inserts(r, n)
      PROVE  Refreshable(s)'
  <2> DEFINE p == Predecessor(r)
  <2>1. /\ sessions'[n].user = holder[r] /\ origin'[n] = p
        /\ p # NoSession => p # n /\ sessions[p].revoked
        /\ \A x \in Sessions : x # n =>
             sessions'[x] = sessions[x] /\ origin'[x] = origin[x]
    BY <1>1, <1>8, InsertChain
  <2>2. /\ sessions[n] = Unused /\ UNCHANGED epoch
        /\ verifiedIn' = [verifiedIn EXCEPT ![n] = verifying[r]]
    BY <1>8 DEF Inserts
  <2>3. verifying[r] = epoch[holder[r]]
    BY <1>8 DEF SerialInv, OwnRefresh, Refreshing
  <2> HIDE DEF p
  <2>4. CASE s = n
    <3>1. ASSUME NEW x \in Sessions PROVE origin'[x] # n
      <4>1. x # n => origin'[x] # n
        BY <1>1, <2>1, <2>2, AuthSentinels DEF Timely
      <4> QED BY <2>1, <4>1, AuthSentinels
    <3>2. verifiedIn'[n] = epoch'[sessions'[n].user]
      BY <1>1, <2>1, <2>2, <2>3 DEF AuthTypeOK
    <3> QED BY <2>4, <3>1, <3>2 DEF Refreshable
  <2>5. CASE s # n
    <3>1. sessions'[s] = sessions[s] /\ verifiedIn'[s] = verifiedIn[s]
      BY <1>1, <2>1, <2>2, <2>5 DEF AuthTypeOK
    <3>2. ASSUME ~sessions[s].revoked, Exists(s), NEW x \in Sessions PROVE origin'[x] # s
      BY <1>1, <2>1, <3>2, AuthSentinels DEF Refreshable
    <3> QED BY <1>1, <2>2, <3>1, <3>2 DEF Refreshable, Exists
  <2> QED BY <2>4, <2>5
<1> QED BY <1>1, <1>4, <1>5, <1>6, <1>7, <1>8, NextEffect

LEMMA RotationOnceNext == SerialInv /\ [Next]_vars => RotationOnce'
<1> SUFFICES ASSUME SerialInv, [Next]_vars PROVE RotationOnce'
  OBVIOUS
<1>1. Placed /\ AuthTypeOK /\ ChainInv /\ RotationOnce
  BY DEF SerialInv, ChainInv, Placed
<1>2. CASE UNCHANGED origin
  BY <1>1, <1>2 DEF RotationOnce
<1>3. ASSUME NEW r \in Requests, NEW n \in Sessions, pc[r] = "insert", Inserts(r, n)
      PROVE  RotationOnce'
  <2>1. /\ origin'[n] = Predecessor(r)
        /\ \A x \in Sessions : x # n => origin'[x] = origin[x]
    BY <1>1, <1>3, InsertChain
  <2>2. Predecessor(r) # NoSession => \A x \in Sessions : origin[x] # Predecessor(r)
    BY <1>3 DEF SerialInv, OwnRefresh, Refreshing, Predecessor
  <2> QED BY <1>1, <2>1, <2>2 DEF RotationOnce
<1>4. UNCHANGED origin \/ \E r \in Requests, n \in Sessions : pc[r] = "insert" /\ Inserts(r, n)
  BY <1>1, NextEffect, CommitTables
     DEF NoTables, Registers, Marks, SetsToken, opened, history
<1> QED BY <1>2, <1>3, <1>4

LEMMA SpentNext ==
  ASSUME SerialInv, [Next]_vars, NEW t \in ResetTokens
  PROVE  Spent(t)'
<1>1. Placed /\ AuthTypeOK /\ Spent(t)
  BY DEF SerialInv, ChainInv, Placed
<1>2. CASE UNCHANGED <<tokens, resets>>
  BY <1>1, <1>2 DEF Spent
<1>3. ASSUME NEW x \in ResetTokens, SetsToken(x) PROVE Spent(t)'
  <2>1. PICK row \in TokenRow :
          /\ tokens[x] # Unused => row.used = tokens[x].used
          /\ tokens' = [tokens EXCEPT ![x] = row]
    BY <1>3 DEF SetsToken
  <2>2. resets' = resets
    BY <1>3 DEF SetsToken
  <2>3. tokens'[t] = IF t = x THEN row ELSE tokens[t]
    BY <1>1, <2>1 DEF AuthTypeOK
  <2>4. CASE t = x
    <3>1. tokens[t] = Unused => resets[t] = 0
      BY <1>1 DEF Spent
    <3>2. tokens[t] # Unused /\ ~row.used => resets[t] = 0
      BY <1>1, <2>1, <2>4 DEF Spent
    <3> QED BY <1>1, <2>1, <2>2, <2>3, <2>4, <3>1, <3>2, AuthSentinels DEF Spent
  <2>5. CASE t # x
    BY <1>1, <2>2, <2>3, <2>5 DEF Spent
  <2> QED BY <2>4, <2>5
<1>4. ASSUME NEW r \in Requests, CommitReplace(r) PROVE Spent(t)'
  <2>1. pc[r] = "commit" /\ OwnReset(r)
    BY <1>4 DEF CommitReplace, SerialInv
  <2>2. CASE call[r].op = "reset" /\ call[r].token = t
    <3>1. ~tokens[t].used
      BY <2>1, <2>2 DEF OwnReset
    <3>2. PICK row \in TokenRow :
            /\ row.used /\ tokens' = [tokens EXCEPT ![t] = row]
            /\ resets' = [resets EXCEPT ![t] = @ + 1]
      BY <1>1, <1>4, <2>2, CommitTables
    <3> QED BY <1>1, <3>1, <3>2, AuthSentinels DEF Spent, AuthTypeOK
  <2>3. CASE call[r].op = "reset" /\ call[r].token # t
    <3>1. tokens'[t] = tokens[t] /\ resets'[t] = resets[t]
      BY <1>1, <1>4, <2>3, CommitTables DEF AuthTypeOK
    <3> QED BY <1>1, <3>1 DEF Spent
  <2> QED BY <1>1, <1>2, <1>4, <2>2, <2>3, CommitTables
<1> QED BY <1>1, <1>2, <1>3, <1>4, NextEffect DEF NoTables, Registers, Inserts, Marks

LEMMA SerialAlways == ASSUME Serial PROVE Spec => []SerialInv
<1>1. SerialInv /\ [Next]_vars => SerialInv'
  <2> SUFFICES ASSUME SerialInv, [Next]_vars PROVE SerialInv'
    OBVIOUS
  <2>1. ChainInv' /\ RotationOnce'
    BY ChainNext, RotationOnceNext DEF SerialInv
  <2>2. \A r \in Requests : OwnRefresh(r)' /\ OwnReset(r)'
    BY OwnRefreshNext, OwnResetNext
  <2>3. \A s \in Sessions : Refreshable(s)'
    BY RefreshableNext
  <2>4. \A t \in ResetTokens : Spent(t)'
    BY SpentNext
  <2> QED BY <2>1, <2>2, <2>3, <2>4 DEF SerialInv
<1> QED BY <1>1, SerialInit, PTL DEF Spec

\* RotationOnce of AuthSessions, one request at a time: a refresh token opens
\* one session.
THEOREM SerialRotation == ASSUME Serial PROVE Spec => []RotationOnce
<1>1. SerialInv => RotationOnce
  BY DEF SerialInv
<1> QED BY <1>1, SerialAlways, PTL

\* ResetTokenOnce of AuthSessions, one request at a time: a reset token sets
\* one password.
THEOREM SerialReset == ASSUME Serial PROVE Spec => []ResetTokenOnce
<1>1. SerialInv => ResetTokenOnce
  BY DEF SerialInv, Spent, ResetTokenOnce
<1> QED BY <1>1, SerialAlways, PTL

\* ForcedRelogin of AuthSessions, one request at a time, with expiries,
\* deactivations and restarts between its statements: what can be refreshed
\* goes back to a check of the present password.
THEOREM SerialRelogin == ASSUME Serial PROVE Spec => []ForcedRelogin
<1>1. SerialInv => ForcedRelogin
  BY DEF SerialInv, Refreshable, ForcedRelogin
<1> QED BY <1>1, SerialAlways, PTL
=============================================================================
