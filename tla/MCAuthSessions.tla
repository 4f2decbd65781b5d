--------------------------- MODULE MCAuthSessions ---------------------------
(***************************************************************************)
(* Instances of AuthSessions for TLC: ada is registered, bob may register. *)
(***************************************************************************)
EXTENDS AuthSessions, TLC

CONSTANTS ada, bob, p1, p2, s1, s2, s3, t1, r1, r2

MCInitialPassword == [u \in Registered |-> p1]

Logins(us, ps) == [op : {"login"}, user : us, password : ps]
Refreshes == [op : {"refresh"}, session : Sessions]
Logouts == [op : {"logout"}, session : Sessions]
Changes(us) == [op : {"change"}, user : us, current : {p1}, password : {p2}]
Forgets(us) == [op : {"forgot"}, user : us]
Resets(ps) == [op : {"reset"}, token : ResetTokens, password : ps]

\* Sessions of one user while the password is reset.
SessionCalls ==
  Logins({ada}, {p1}) \cup Refreshes \cup Logouts \cup Forgets({ada}) \cup Resets({p2})

\* The same while the user changes it.
ChangeCalls == Logins({ada}, {p1}) \cup Refreshes \cup Logouts \cup Changes({ada})

\* Nothing but refreshes revokes a session.
RotationCalls == Logins({ada}, {p1}) \cup Refreshes

\* Everything, with the registration of a second user.
EveryCall ==
  [op : {"register"}, user : {ada, bob}, password : {p1}]
  \cup Logins({ada}, {p1, p2}) \cup Logins({bob}, {p1})
  \cup Refreshes \cup Logouts \cup Changes({ada})
  \cup Forgets({ada, bob}) \cup Resets({p2})

Symmetric == Permutations(Requests) \cup Permutations(Sessions) \cup Permutations(ResetTokens)
=============================================================================
