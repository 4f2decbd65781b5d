--------------------------- MODULE MCCashflowStats ---------------------------
(***************************************************************************)
(* An instance of CashflowStats for TLC: the directory of MCCashMovements, *)
(* one income and one expense.                                             *)
(***************************************************************************)
EXTENDS CashflowStats

CONSTANTS admin, operator, foreign, org1, org2, b1, b2, b3, m1, m2

MCUserOrg == [u \in Users |-> IF u = foreign THEN org2 ELSE org1]

MCUserBranch ==
  [u \in Users |-> CASE u = admin -> NoBranch [] OTHER -> b1]

MCBranchOrg == [b \in Branches |-> IF b = b3 THEN org2 ELSE org1]

MCInitialRoles ==
  [u \in Users |-> IF u = operator THEN {"OPERATOR"} ELSE {"ADMIN"}]

SameRole == {<<operator, {"OPERATOR"}>>}

\* The administrator creates in the operator's branch and in the other one, and
\* asks for one of another organization; what is done to the movement then.
MovementCalls ==
  [op : {"create"}, user : {admin}, movement : {NoMovement}, branch : {b1, b2, b3}]
  \cup [op : Decisions, user : {admin}, movement : Movements, branch : {NoBranch}]

\* The whole organization and another one's branch, which is refused; an
\* operator's own branch and one that is not, refused unless the operator is
\* taken for none in the middle of a rewrite.
StatsQueries ==
  [user : {admin}, branch : {NoBranch, b3}]
  \cup [user : {operator}, branch : {NoBranch, b2}]
=============================================================================
