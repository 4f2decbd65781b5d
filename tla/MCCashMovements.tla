--------------------------- MODULE MCCashMovements ---------------------------
(***************************************************************************)
(* Instances of CashMovements for TLC.  Two organizations; branch b1 is of *)
(* the first, b2 and b3 of the first and the second.                       *)
(***************************************************************************)
EXTENDS CashMovements, TLC

CONSTANTS admin, manager, operator, foreign, org1, org2, b1, b2, b3,
          m1, m2, r1, r2

MCUserOrg == [u \in Users |-> IF u = foreign THEN org2 ELSE org1]

\* The administrator has no branch, the foreign one a branch of org1: the
\* foreign keys allow it.
MCUserBranch ==
  [u \in Users |-> CASE u = admin    -> NoBranch
                     [] u = manager  -> b2
                     [] u = operator -> b1
                     [] u = foreign  -> b1]

MCBranchOrg == [b \in Branches |-> IF b = b3 THEN org2 ELSE org1]

MCInitialRoles ==
  [u \in Users |-> CASE u = manager  -> {"MANAGER"}
                     [] u = operator -> {"OPERATOR"}
                     [] OTHER        -> {"ADMIN"}]

Creates(u, branches) ==
  [op : {"create"}, user : {u}, movement : {NoMovement}, branch : branches]
Lists(u, branches) ==
  [op : {"list"}, user : {u}, movement : {NoMovement}, branch : branches]
Decides(ops, users) ==
  [op : ops, user : users, movement : Movements, branch : {NoBranch}]

\* The manager is made an operator and a manager again; the operator never
\* gets another role.
Promotions == {<<manager, {"MANAGER"}>>, <<manager, {"OPERATOR"}>>}

\* Decisions on one movement by people of both organizations and all roles, and
\* listings of every branch and of another one by a manager who may be an
\* operator meanwhile.
DecisionCalls ==
  Creates(operator, {NoBranch}) \cup Creates(manager, {NoBranch})
  \cup Lists(manager, {NoBranch, b1})
  \cup Decides(Decisions, {manager}) \cup Decides({"approve"}, {admin})
  \cup Decides({"approve"}, {foreign}) \cup Decides({"deliver"}, {operator})

RequestSymmetry == Permutations(Requests)
=============================================================================
