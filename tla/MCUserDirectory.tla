--------------------------- MODULE MCUserDirectory ---------------------------
(***************************************************************************)
(* An instance of UserDirectory for TLC: two administrators and a manager  *)
(* of one organization, the administrator of another, one id in reserve.   *)
(***************************************************************************)
EXTENDS UserDirectory, TLC

CONSTANTS ana, ben, mia, oda, new, o1, o2, eA, eB, eM, eO, eN, r1, r2

Row(o, e) == [organization |-> o, email |-> e, active |-> TRUE]

MCInitialAccounts ==
  ana :> Row(o1, eA) @@ ben :> Row(o1, eB) @@ mia :> Row(o1, eM)
    @@ oda :> Row(o2, eO) @@ new :> Absent

MCInitialRoles ==
  ana :> {"ADMIN"} @@ ben :> {"ADMIN"} @@ mia :> {"MANAGER"}
    @@ oda :> {"ADMIN"} @@ new :> {}

Ask(op, caller, target, email, active, names) ==
  [op |-> op, caller |-> caller, target |-> target, email |-> email,
   active |-> active, roles |-> names]

Rewrite(caller, target, names) ==
  Ask("updateUser", caller, target, Keep, Keep, names)

\* Rewrites of one manager's roles that overlap, share a role or name none,
\* by administrators who may be demoted or deactivated meanwhile; and the other
\* operations, within and across organizations, with e-mails that clash.
DirectoryCalls ==
  {Rewrite(ana, mia, {"MANAGER"}), Rewrite(ben, mia, {"MANAGER", "USER"}),
   Rewrite(ana, mia, {"unknown"}), Rewrite(ana, ben, {"USER"}),
   Rewrite(oda, mia, {"ADMIN"}),
   Ask("createUser", ana, new, eN, Keep, {"USER"}),
   Ask("createUser", ben, new, eN, Keep, {"USER"}),
   Ask("updateUser", ben, mia, eN, FALSE, {}),
   Ask("removeUser", ana, ben, Keep, Keep, {}),
   Ask("listUsers", ana, ana, Keep, Keep, {}),
   Ask("readUser", mia, mia, Keep, Keep, {})}

RequestSymmetry == Permutations(Requests)
=============================================================================
