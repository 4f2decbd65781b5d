-------------------------- MODULE SessionLifecycle --------------------------
(***************************************************************************)
(* What AuthService promises of refresh sessions.  A session is opened     *)
(* once, may be revoked for good, and disappears only when its user's      *)
(* password is replaced, together with every other session of that user.   *)
(* Only a session that was late, opened while a password was being         *)
(* replaced or refreshed from a late one, may be spared.                   *)
(***************************************************************************)
EXTENDS Naturals

CONSTANTS Users, Sessions, Nobody

VARIABLES
  owner,     \* user of each session there is
  status,    \* "unused", "live", "revoked" or "gone"
  late,      \* the sessions that were opened late
  epoch      \* how often each user's password was set

lifecycleVars == <<owner, status, late, epoch>>

Init ==
  /\ owner = [s \in Sessions |-> Nobody]
  /\ status = [s \in Sessions |-> "unused"]
  /\ late = {}
  /\ epoch \in [Users -> {0, 1}]

Open(s, u) ==
  /\ status[s] = "unused"
  /\ status' = [status EXCEPT ![s] = "live"]
  /\ owner' = [owner EXCEPT ![s] = u]
  /\ late' \in {late, late \cup {s}}
  /\ UNCHANGED epoch

Revoke(s) ==
  /\ status[s] = "live"
  /\ status' = [status EXCEPT ![s] = "revoked"]
  /\ UNCHANGED <<owner, late, epoch>>

\* Registration sets the first password, before there is any session.
SetPassword(u) ==
  /\ epoch' = [epoch EXCEPT ![u] = @ + 1]
  /\ \E spared \in SUBSET late :
       LET ends(s) == owner[s] = u /\ s \notin spared
       IN /\ status' = [s \in Sessions |-> IF ends(s) THEN "gone" ELSE status[s]]
          /\ owner' = [s \in Sessions |-> IF ends(s) THEN Nobody ELSE owner[s]]
  /\ UNCHANGED late

Next ==
  \/ \E s \in Sessions, u \in Users : Open(s, u)
  \/ \E s \in Sessions : Revoke(s)
  \/ \E u \in Users : SetPassword(u)

Spec == Init /\ [][Next]_lifecycleVars
=============================================================================
