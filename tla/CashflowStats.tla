---------------------------- MODULE CashflowStats ----------------------------
(***************************************************************************)
(* GET /cashflow/stats beside the cash movement routes: readers of the     *)
(* table CashMovement while CashMovements goes on in it.                   *)
(*                                                                         *)
(*   free -> guard -> roles -> service -> branch -> figures -> answered    *)
(*                                |------------------^                     *)
(*                                                                         *)
(* The three figures of one answer are three statements without a          *)
(* transaction, sent together and executed in any order; whatever requests *)
(* do to the table in between is seen by some of them and not by others.   *)
(*                                                                         *)
(* Abstracted: a total is the set of movements that were summed up for it, *)
(* so it tells more than the sum; the balance is computed from the two;    *)
(* the date filter only narrows what is summed.                            *)
(***************************************************************************)
EXTENDS CashMovements

CONSTANTS
  Readers,      \* slots for the statistics requests in progress
  Queries       \* the questions clients ask

Questions == [user : Users, branch : Branches \cup {NoBranch}]

Figures == {"income", "expense", "pending"}

ASSUME StatsAssumption == Queries \subseteq Questions /\ Queries # {}

VARIABLES
  readerPc,     \* program point of each reader
  query,        \* what it asks
  within,       \* where.branchId, NoBranch when it is not set
  operatorRead, \* isOperator, as the service read it
  figures,      \* the figures whose statement has returned
  reply,        \* the response
  incomes,      \* the movements of type INCOME, the others are EXPENSE
  had           \* history: the statuses each movement had while figures were read

statsVars == <<readerPc, query, within, operatorRead, figures, reply, incomes, had>>
allVars == <<vars, statsVars>>

ReaderPoints == {"free", "guard", "roles", "service", "branch", "figures", "answered"}

Reading(q) == readerPc[q] \notin {"free", "answered"}

StatsInit ==
  /\ Init
  /\ readerPc = [q \in Readers |-> "free"]
  /\ query = [q \in Readers |-> CHOOSE c \in Queries : TRUE]
  /\ within = [q \in Readers |-> NoBranch]
  /\ operatorRead = [q \in Readers |-> FALSE]
  /\ figures = [q \in Readers |-> <<>>]
  /\ reply = [q \in Readers |-> "none"]
  /\ incomes \in SUBSET Movements
  /\ had = [q \in Readers |-> [m \in Movements |-> {}]]

-----------------------------------------------------------------------------
ReaderGoTo(q, point) ==
  /\ readerPc' = [readerPc EXCEPT ![q] = point]
  /\ UNCHANGED reply

Reply(q, a) ==
  /\ readerPc' = [readerPc EXCEPT ![q] = "answered"]
  /\ reply' = [reply EXCEPT ![q] = a]

Ask(q, c) ==
  /\ ~Reading(q)
  /\ readerPc' = [readerPc EXCEPT ![q] = "guard"]
  /\ query' = [query EXCEPT ![q] = c]
  /\ within' = [within EXCEPT ![q] = NoBranch]
  /\ operatorRead' = [operatorRead EXCEPT ![q] = FALSE]
  /\ figures' = [figures EXCEPT ![q] = <<>>]
  /\ reply' = [reply EXCEPT ![q] = "none"]
  /\ had' = [had EXCEPT ![q] = [m \in Movements |-> {}]]

\* PermissionsGuard, its two reads.
StatsGuardUser(q) ==
  /\ readerPc[q] = "guard"
  /\ IF active[query[q].user] THEN ReaderGoTo(q, "roles") ELSE Reply(q, "unauthorized")
  /\ UNCHANGED <<query, within, operatorRead, figures, had>>

StatsGuardRoles(q) ==
  /\ readerPc[q] = "roles"
  /\ IF Admits("stats", roles[query[q].user])
     THEN ReaderGoTo(q, "service") ELSE Reply(q, "forbidden")
  /\ UNCHANGED <<query, within, operatorRead, figures, had>>

StatsBranchAsked(c, isOperator) == c.branch

\* where.branchId: an operator's own branch, otherwise the one asked for, if any.
StatsBranch(c, isOperator) == IF isOperator THEN UserBranch[c.user] ELSE c.branch

\* getUserRoles; an operator needs a branch and may ask for no other, a branch
\* anyone else asks for is checked first.
StatsReadRoles(q) ==
  /\ readerPc[q] = "service"
  /\ LET c == query[q]
         isOperator == "OPERATOR" \in roles[c.user]
         home == UserBranch[c.user]
     IN /\ operatorRead' = [operatorRead EXCEPT ![q] = isOperator]
        /\ within' = [within EXCEPT ![q] = StatsBranch(c, isOperator)]
        /\ \/ isOperator /\ home # NoBranch /\ c.branch \in {NoBranch, home}
              /\ ReaderGoTo(q, "figures")
           \/ isOperator /\ (home = NoBranch \/ c.branch \notin {NoBranch, home})
              /\ Reply(q, "forbidden")
           \/ ~isOperator /\ c.branch = NoBranch /\ ReaderGoTo(q, "figures")
           \/ ~isOperator /\ c.branch # NoBranch /\ ReaderGoTo(q, "branch")
  /\ UNCHANGED <<query, figures, had>>

\* assertBranchInOrganization.
StatsCheckBranch(q) ==
  /\ readerPc[q] = "branch"
  /\ IF BranchOrg[within[q]] = UserOrg[query[q].user]
     THEN ReaderGoTo(q, "figures") ELSE Reply(q, "notFound")
  /\ UNCHANGED <<query, within, operatorRead, figures, had>>

StatusOf(row) == IF row = NoRow THEN "ABSENT" ELSE row.status

\* withOrganizationScope, and where.branchId when it was set.
Selected(q, row) ==
  /\ row # NoRow
  /\ row.organization = UserOrg[query[q].user]
  /\ within[q] \in {NoBranch, row.branch}

CountsSameType(figure, m) ==
  CASE figure = "income"  -> movements[m].status = "APPROVED" /\ m \in incomes
    [] figure = "expense" -> movements[m].status = "APPROVED" /\ m \in incomes
    [] figure = "pending" -> movements[m].status = "PENDING"

\* incomeWhere, expenseWhere and the where of the count.
Counts(figure, m) ==
  CASE figure = "income"  -> movements[m].status = "APPROVED" /\ m \in incomes
    [] figure = "expense" -> movements[m].status = "APPROVED" /\ m \notin incomes
    [] figure = "pending" -> movements[m].status = "PENDING"

\* One of the three statements; the last one to return resolves Promise.all.
ReadFigure(q, figure) ==
  /\ readerPc[q] = "figures"
  /\ LET known == DOMAIN figures[q]
     IN /\ figure \notin known
        /\ figures' = [figures EXCEPT ![q] = [f \in known \cup {figure} |->
             IF f = figure
             THEN {m \in Movements : Selected(q, movements[m]) /\ Counts(figure, m)}
             ELSE figures[q][f]]]
        /\ had' = [had EXCEPT ![q] =
             IF known = {} THEN [m \in Movements |-> {StatusOf(movements[m])}] ELSE @]
        /\ IF known \cup {figure} = Figures THEN Reply(q, "ok") ELSE ReaderGoTo(q, "figures")
  /\ UNCHANGED <<query, within, operatorRead>>

ReaderStep(q) ==
  \/ StatsGuardUser(q) \/ StatsGuardRoles(q) \/ StatsReadRoles(q) \/ StatsCheckBranch(q)
  \/ \E figure \in Figures : ReadFigure(q, figure)

-----------------------------------------------------------------------------
\* What the others do, as a reader between its first and its last figure may
\* come to see it.
Witness ==
  had' = [q \in Readers |->
            IF Reading(q) /\ DOMAIN figures[q] # {}
            THEN [m \in Movements |-> had[q][m] \cup {StatusOf(movements'[m])}]
            ELSE had[q]]

Beside ==
  /\ Witness
  /\ UNCHANGED <<readerPc, query, within, operatorRead, figures, reply, incomes>>

Others ==
  /\ (\E r \in Requests : Step(r) \/ \E c \in Offered : Submit(r, c)) \/ Administration
  /\ Beside

\* The process stops: requests and readers in progress are lost.
StopAll ==
  /\ (\E r \in Requests : InProgress(r)) \/ (\E q \in Readers : Reading(q))
  /\ pc' = [r \in Requests |-> IF InProgress(r) THEN "free" ELSE pc[r]]
  /\ readerPc' = [q \in Readers |-> IF Reading(q) THEN "free" ELSE readerPc[q]]
  /\ UNCHANGED <<tables, locals, answer>>
  /\ UNCHANGED <<query, within, operatorRead, figures, reply, incomes, had>>

StatsNext ==
  \/ /\ \E q \in Readers : ReaderStep(q) \/ \E c \in Queries : Ask(q, c)
     /\ UNCHANGED <<vars, incomes>>
  \/ Others
  \/ StopAll

StatsSpec == StatsInit /\ [][StatsNext]_allVars

-----------------------------------------------------------------------------
\* Properties.

Complete(q) == readerPc[q] = "answered" /\ reply[q] = "ok"

\* Each figure only has movements of the caller's organization, of the branch
\* asked for, and of the caller's own branch if the service took it for an
\* operator; also after the caller's roles have been rewritten.
FiguresInScope ==
  \A q \in Readers : \A f \in DOMAIN figures[q] : \A m \in figures[q][f] :
    /\ movements[m].organization = UserOrg[query[q].user]
    /\ query[q].branch \in {NoBranch, movements[m].branch}
    /\ operatorRead[q] => movements[m].branch = UserBranch[query[q].user]

\* The figures of one answer may show different moments, but only of movements
\* that changed while they were read: a movement that kept its status is in
\* the one figure that status and its type call for, and in no other; one that
\* changed is only in figures of a status it had meanwhile, so it is counted
\* as pending and in a total only if it was approved between the reads.
FiguresAreWitnessed ==
  \A q \in Readers : Complete(q) =>
    \A m \in Movements :
      LET statuses == had[q][m]
          shown == {f \in Figures : m \in figures[q][f]}
          total == IF m \in incomes THEN "income" ELSE "expense"
      IN /\ shown \cap {"income", "expense"} # {} =>
              "APPROVED" \in statuses /\ shown \subseteq {total, "pending"}
         /\ "pending" \in shown => "PENDING" \in statuses
         /\ Selected(q, movements[m]) =>
              /\ statuses = {"APPROVED"} => shown = {total}
              /\ statuses = {"PENDING"} => shown = {"pending"}
=============================================================================
