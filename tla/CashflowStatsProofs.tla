------------------------- MODULE CashflowStatsProofs -------------------------
(***************************************************************************)
(* Theorems about CashflowStats, for any number of readers and of cash     *)
(* movement requests beside them.                                          *)
(***************************************************************************)
EXTENDS CashflowStats, CashMovementsProofs

USE StatsAssumption

StatusNames == Statuses \cup {"ABSENT"}

\* What the figures of one reader may be: any subset of the three, each a set
\* of movements.
FigureSets == UNION {[known -> SUBSET Movements] : known \in SUBSET Figures}

StatsTypeOK ==
  /\ readerPc \in [Readers -> ReaderPoints]
  /\ query \in [Readers -> Questions]
  /\ within \in [Readers -> Branches \cup {NoBranch}]
  /\ operatorRead \in [Readers -> BOOLEAN]
  /\ figures \in [Readers -> FigureSets]
  /\ reply \in [Readers -> Answers]
  /\ had \in [Readers -> [Movements -> SUBSET StatusNames]]

\* The readers change nothing of CashMovements, and a stop of all is a restart
\* or, to CashMovements, nothing.
LEMMA BesideMovements ==
  ASSUME Placed, [StatsNext]_allVars
  PROVE  [Next]_vars
<1>1. pc \in [Requests -> Points]
  BY DEF Placed, TypeOK
<1>2. CASE UNCHANGED vars
  BY <1>2
<1>3. CASE Others
  BY <1>3 DEF Others, Next
<1>4. CASE StopAll
  <2>1. /\ pc' = [r \in Requests |-> IF InProgress(r) THEN "free" ELSE pc[r]]
        /\ UNCHANGED <<tables, locals, answer>>
    BY <1>4 DEF StopAll
  <2>2. CASE \E r \in Requests : InProgress(r)
    BY <2>1, <2>2 DEF Restart, Next
  <2>3. CASE ~ \E r \in Requests : InProgress(r)
    <3>1. pc' = pc
      BY <1>1, <2>1, <2>3
    <3> QED BY <2>1, <3>1 DEF vars, tables, locals
  <2> QED BY <2>2, <2>3
<1> QED BY <1>2, <1>3, <1>4 DEF StatsNext, allVars

\* Whatever CashMovements promises, it keeps with readers beside it.
THEOREM MovementsBesideReaders == StatsSpec => Init /\ [][Next]_vars
<1>1. StatsInit => Init /\ Placed
  BY PlacedInit DEF StatsInit
<1>2. Placed /\ [StatsNext]_allVars => Placed' /\ [Next]_vars
  BY BesideMovements, PlacedNext
<1> QED BY <1>1, <1>2, PTL DEF StatsSpec

LEMMA StatsTypeInit == StatsInit => StatsTypeOK
<1> SUFFICES ASSUME StatsInit PROVE StatsTypeOK
  OBVIOUS
<1>1. (CHOOSE c \in Queries : TRUE) \in Questions
  OBVIOUS
<1>2. <<>> \in FigureSets
  <2>1. <<>> = [f \in {} |-> {}]
    OBVIOUS
  <2>2. [f \in {} |-> {}] \in [{} -> SUBSET Movements]
    OBVIOUS
  <2> QED BY <2>1, <2>2 DEF FigureSets
<1> QED BY <1>1, <1>2 DEF StatsInit, StatsTypeOK, ReaderPoints, Answers

-----------------------------------------------------------------------------
\* The branch chosen for the statements, from the moment the service has read
\* the roles: as asked for, and for someone taken for an operator his own.
\* Before the statements there are no figures.
Chosen(q) ==
  /\ readerPc[q] \in {"guard", "roles", "service", "branch"} => DOMAIN figures[q] = {}
  /\ readerPc[q] = "branch" => ~operatorRead[q] /\ within[q] = query[q].branch
  /\ readerPc[q] = "figures" =>
       /\ query[q].branch # NoBranch => within[q] = query[q].branch
       /\ operatorRead[q] => within[q] = UserBranch[query[q].user] /\ within[q] # NoBranch

\* What FiguresInScope says of one reader, and that what was counted exists.
CountsItsOwn(q) ==
  \A f \in DOMAIN figures[q] : \A m \in figures[q][f] :
    /\ m \in Movements /\ movements[m] # NoRow
    /\ movements[m].organization = UserOrg[query[q].user]
    /\ query[q].branch \in {NoBranch, movements[m].branch}
    /\ operatorRead[q] => movements[m].branch = UserBranch[query[q].user]

FigureInv ==
  Placed /\ StatsTypeOK /\ \A q \in Readers : Chosen(q) /\ CountsItsOwn(q)

LEMMA FigureInit == StatsInit => FigureInv
<1> SUFFICES ASSUME StatsInit PROVE FigureInv
  OBVIOUS
<1>1. Placed
  BY PlacedInit DEF StatsInit
<1>2. ASSUME NEW q \in Readers PROVE Chosen(q) /\ CountsItsOwn(q)
  BY DEF StatsInit, Chosen, CountsItsOwn
<1> QED BY <1>1, <1>2, StatsTypeInit DEF FigureInv

\* What each step of a reader does to it; the others it leaves alone.
LEMMA ReadFigureEffect ==
  ASSUME StatsTypeOK, NEW q \in Readers, NEW figure \in Figures, ReadFigure(q, figure)
  PROVE  \E fs \in FigureSets :
           /\ figures' = [figures EXCEPT ![q] = fs]
           /\ figure \notin DOMAIN figures[q]
           /\ DOMAIN fs = DOMAIN figures[q] \cup {figure}
           /\ \A f \in DOMAIN figures[q] : fs[f] = figures[q][f]
           /\ fs[figure] = {m \in Movements : Selected(q, movements[m]) /\ Counts(figure, m)}
           /\ had' = [had EXCEPT ![q] =
                        IF DOMAIN figures[q] = {}
                        THEN [m \in Movements |-> {StatusOf(movements[m])}] ELSE @]
           /\ \/ readerPc' = [readerPc EXCEPT ![q] = "figures"] /\ reply' = reply
              \/ /\ DOMAIN fs = Figures
                 /\ readerPc' = [readerPc EXCEPT ![q] = "answered"]
                 /\ reply' = [reply EXCEPT ![q] = "ok"]
<1> DEFINE known == DOMAIN figures[q]
           counted == {m \in Movements : Selected(q, movements[m]) /\ Counts(figure, m)}
           fs == [f \in known \cup {figure} |-> IF f = figure THEN counted ELSE figures[q][f]]
<1>1. known \subseteq Figures /\ \A f \in known : figures[q][f] \subseteq Movements
  BY DEF StatsTypeOK, FigureSets
<1>2. fs \in [known \cup {figure} -> SUBSET Movements]
  BY <1>1
<1>3. fs \in FigureSets
  BY <1>1, <1>2 DEF FigureSets
<1>4. /\ figure \notin known
      /\ figures' = [figures EXCEPT ![q] = fs]
      /\ had' = [had EXCEPT ![q] =
                   IF known = {} THEN [m \in Movements |-> {StatusOf(movements[m])}] ELSE @]
      /\ IF known \cup {figure} = Figures THEN Reply(q, "ok") ELSE ReaderGoTo(q, "figures")
  BY DEF ReadFigure
<1>5. /\ DOMAIN fs = known \cup {figure}
      /\ \A f \in known : fs[f] = figures[q][f]
      /\ fs[figure] = counted
  BY <1>4
<1> HIDE DEF fs, counted
<1>6. /\ figures' = [figures EXCEPT ![q] = fs]
      /\ \A f \in known : fs[f] = figures[q][f]
      /\ fs[figure] = {m \in Movements : Selected(q, movements[m]) /\ Counts(figure, m)}
  BY <1>4, <1>5 DEF counted
<1> QED BY <1>3, <1>4, <1>5, <1>6 DEF Reply, ReaderGoTo

\* A figure only counts rows of the scope chosen.
LEMMA ReaderStepFigures ==
  ASSUME FigureInv, NEW q \in Readers, ReaderStep(q), UNCHANGED vars
  PROVE  StatsTypeOK' /\ Chosen(q)' /\ CountsItsOwn(q)'
<1>1. StatsTypeOK /\ Chosen(q) /\ CountsItsOwn(q) /\ Placed
  BY DEF FigureInv
<1>2. UNCHANGED <<movements, active, roles>>
  BY DEF vars
<1>3. query[q].user \in Users /\ query[q].branch \in Branches \cup {NoBranch}
  BY <1>1 DEF StatsTypeOK, Questions
<1>4. CASE StatsGuardUser(q) \/ StatsGuardRoles(q) \/ StatsCheckBranch(q)
  <2>1. /\ UNCHANGED <<query, within, operatorRead, figures, had>>
        /\ \/ readerPc' = [readerPc EXCEPT ![q] = "roles"] /\ reply' = reply
           \/ readerPc' = [readerPc EXCEPT ![q] = "service"] /\ reply' = reply
           \/ readerPc' = [readerPc EXCEPT ![q] = "figures"] /\ readerPc[q] = "branch" /\ reply' = reply
           \/ /\ readerPc' = [readerPc EXCEPT ![q] = "answered"]
              /\ \E a \in {"unauthorized", "forbidden", "notFound"} : reply' = [reply EXCEPT ![q] = a]
        /\ readerPc[q] \in {"guard", "roles", "branch"}
    BY <1>4 DEF StatsGuardUser, StatsGuardRoles, StatsCheckBranch, ReaderGoTo, Reply
  <2>2. StatsTypeOK'
    BY <1>1, <2>1 DEF StatsTypeOK, ReaderPoints, Answers
  <2>3. Chosen(q)'
    BY <1>1, <2>1 DEF Chosen, StatsTypeOK
  <2>4. CountsItsOwn(q)'
    BY <1>1, <1>2, <2>1 DEF CountsItsOwn
  <2> QED BY <2>2, <2>3, <2>4
<1>5. CASE StatsReadRoles(q)
  <2> DEFINE isOperator == "OPERATOR" \in roles[query[q].user]
             home == UserBranch[query[q].user]
  <2>1. /\ readerPc[q] = "service" /\ UNCHANGED <<query, figures, had>>
        /\ operatorRead' = [operatorRead EXCEPT ![q] = isOperator]
        /\ within' = [within EXCEPT ![q] = IF isOperator THEN home ELSE query[q].branch]
        /\ \/ /\ readerPc' = [readerPc EXCEPT ![q] = "figures"] /\ reply' = reply
              /\ \/ isOperator /\ home # NoBranch /\ query[q].branch \in {NoBranch, home}
                 \/ ~isOperator
           \/ readerPc' = [readerPc EXCEPT ![q] = "branch"] /\ reply' = reply /\ ~isOperator
           \/ /\ readerPc' = [readerPc EXCEPT ![q] = "answered"]
              /\ reply' = [reply EXCEPT ![q] = "forbidden"]
    BY <1>5 DEF StatsReadRoles, StatsBranch, ReaderGoTo, Reply
  <2>2. isOperator \in BOOLEAN /\ home \in Branches \cup {NoBranch}
    BY <1>3, DirectoryAssumption
  <2> HIDE DEF isOperator
  <2>3. StatsTypeOK'
    BY <1>1, <1>3, <2>1, <2>2 DEF StatsTypeOK, ReaderPoints, Answers
  <2>4. Chosen(q)'
    BY <1>1, <2>1 DEF Chosen, StatsTypeOK
  <2>5. CountsItsOwn(q)'
    BY <1>1, <2>1 DEF CountsItsOwn, Chosen
  <2> QED BY <2>3, <2>4, <2>5
<1>6. ASSUME NEW figure \in Figures, ReadFigure(q, figure)
      PROVE  StatsTypeOK' /\ Chosen(q)' /\ CountsItsOwn(q)'
  <2>1. PICK fs \in FigureSets :
          /\ figures' = [figures EXCEPT ![q] = fs]
          /\ figure \notin DOMAIN figures[q]
          /\ DOMAIN fs = DOMAIN figures[q] \cup {figure}
          /\ \A f \in DOMAIN figures[q] : fs[f] = figures[q][f]
          /\ fs[figure] = {m \in Movements : Selected(q, movements[m]) /\ Counts(figure, m)}
          /\ had' = [had EXCEPT ![q] =
                       IF DOMAIN figures[q] = {}
                       THEN [m \in Movements |-> {StatusOf(movements[m])}] ELSE @]
          /\ \/ readerPc' = [readerPc EXCEPT ![q] = "figures"] /\ reply' = reply
             \/ /\ DOMAIN fs = Figures
                /\ readerPc' = [readerPc EXCEPT ![q] = "answered"]
                /\ reply' = [reply EXCEPT ![q] = "ok"]
    BY <1>1, <1>6, ReadFigureEffect
  <2>2. UNCHANGED <<query, within, operatorRead>> /\ readerPc[q] = "figures"
    BY <1>6 DEF ReadFigure
  <2>3. \A m \in Movements : StatusOf(movements[m]) \in StatusNames
    BY <1>1 DEF Placed, TypeOK, StatusOf, StatusNames, Row
  <2>4. StatsTypeOK'
    <3>1. had' \in [Readers -> [Movements -> SUBSET StatusNames]]
      BY <1>1, <2>1, <2>3 DEF StatsTypeOK
    <3> QED BY <1>1, <2>1, <2>2, <3>1 DEF StatsTypeOK, ReaderPoints, Answers
  <2>5. Chosen(q)'
    BY <1>1, <2>1, <2>2 DEF Chosen, StatsTypeOK
  <2>6. figures'[q] = fs
    BY <1>1, <2>1 DEF StatsTypeOK
  <2>7. ASSUME NEW m \in Movements, Selected(q, movements[m])
        PROVE  /\ movements[m] # NoRow
               /\ movements[m].organization = UserOrg[query[q].user]
               /\ query[q].branch \in {NoBranch, movements[m].branch}
               /\ operatorRead[q] => movements[m].branch = UserBranch[query[q].user]
    BY <1>1, <2>2, <2>7 DEF Selected, Chosen
  <2>8. CountsItsOwn(q)'
    BY <1>1, <1>2, <2>1, <2>2, <2>6, <2>7 DEF CountsItsOwn
  <2> QED BY <2>4, <2>5, <2>8
<1> QED BY <1>4, <1>5, <1>6 DEF ReaderStep

\* A reader's step leaves every other reader as it is.
LEMMA ReaderStepAlone ==
  ASSUME StatsTypeOK, NEW q \in Readers, NEW p \in Readers, p # q,
         ReaderStep(q) \/ \E c \in Queries : Ask(q, c)
  PROVE  /\ readerPc'[p] = readerPc[p] /\ query'[p] = query[p] /\ within'[p] = within[p]
         /\ operatorRead'[p] = operatorRead[p] /\ figures'[p] = figures[p]
         /\ reply'[p] = reply[p] /\ had'[p] = had[p]
  BY DEF StatsTypeOK, ReaderStep, StatsGuardUser, StatsGuardRoles, StatsReadRoles,
         StatsCheckBranch, ReadFigure, ReaderGoTo, Reply, Ask

\* A new question starts without figures.
LEMMA AskFigures ==
  ASSUME FigureInv, NEW q \in Readers, NEW c \in Queries, Ask(q, c)
  PROVE  StatsTypeOK' /\ Chosen(q)' /\ CountsItsOwn(q)'
<1>1. StatsTypeOK
  BY DEF FigureInv
<1>2. <<>> \in FigureSets /\ DOMAIN <<>> = {}
  <2>1. <<>> = [f \in {} |-> {}] /\ [f \in {} |-> {}] \in [{} -> SUBSET Movements]
    OBVIOUS
  <2> QED BY <2>1 DEF FigureSets
<1>3. StatsTypeOK'
  BY <1>1, <1>2 DEF StatsTypeOK, Ask, ReaderPoints, Answers, StatusNames
<1>4. figures'[q] = <<>> /\ readerPc'[q] = "guard"
  BY <1>1 DEF StatsTypeOK, Ask
<1> QED BY <1>2, <1>3, <1>4 DEF Chosen, CountsItsOwn

\* What the others do keeps every counted row where it is.
LEMMA OthersFigures ==
  ASSUME FigureInv, [Next]_vars, NEW q \in Readers,
         UNCHANGED <<query, within, operatorRead, figures>>,
         readerPc'[q] \in {readerPc[q], "free"}
  PROVE  Chosen(q)' /\ CountsItsOwn(q)'
<1>1. Placed /\ Chosen(q) /\ CountsItsOwn(q)
  BY DEF FigureInv
<1>2. Chosen(q)'
  BY <1>1 DEF Chosen
<1>3. CountsItsOwn(q)'
  BY <1>1, FrozenNext DEF CountsItsOwn, Frozen
<1> QED BY <1>2, <1>3

LEMMA FigureNext == FigureInv /\ [StatsNext]_allVars => FigureInv'
<1> SUFFICES ASSUME FigureInv, [StatsNext]_allVars PROVE FigureInv'
  OBVIOUS
<1>1. Placed /\ StatsTypeOK /\ [Next]_vars /\ Placed'
  BY BesideMovements, PlacedNext DEF FigureInv
<1>2. ASSUME NEW q \in Readers, ReaderStep(q) \/ \E c \in Queries : Ask(q, c),
             UNCHANGED vars
      PROVE  FigureInv'
  <2>1. StatsTypeOK' /\ Chosen(q)' /\ CountsItsOwn(q)'
    BY <1>2, ReaderStepFigures, AskFigures
  <2>2. ASSUME NEW p \in Readers, p # q PROVE Chosen(p)' /\ CountsItsOwn(p)'
    <3>1. Chosen(p) /\ CountsItsOwn(p) /\ UNCHANGED movements
      BY <1>2 DEF FigureInv, vars
    <3>2. /\ readerPc'[p] = readerPc[p] /\ query'[p] = query[p] /\ within'[p] = within[p]
          /\ operatorRead'[p] = operatorRead[p] /\ figures'[p] = figures[p]
      BY <1>1, <1>2, <2>2, ReaderStepAlone
    <3> QED BY <3>1, <3>2 DEF Chosen, CountsItsOwn
  <2> QED BY <1>1, <2>1, <2>2 DEF FigureInv
<1>3. CASE Others
  <2>1. UNCHANGED <<readerPc, query, within, operatorRead, figures, reply>> /\ Witness
    BY <1>3 DEF Others, Beside
  <2>2. \A m \in Movements : StatusOf(movements'[m]) \in StatusNames
    BY <1>1 DEF Placed, TypeOK, StatusOf, StatusNames, Row
  <2>3. had' \in [Readers -> [Movements -> SUBSET StatusNames]]
    BY <1>1, <2>1, <2>2 DEF Witness, StatsTypeOK
  <2>4. StatsTypeOK'
    BY <1>1, <2>1, <2>3 DEF StatsTypeOK
  <2> QED BY <1>1, <2>1, <2>4, OthersFigures DEF FigureInv
<1>4. CASE StopAll
  <2>1. /\ UNCHANGED <<query, within, operatorRead, figures, reply, had>>
        /\ readerPc' = [q \in Readers |-> IF Reading(q) THEN "free" ELSE readerPc[q]]
    BY <1>4 DEF StopAll
  <2>2. StatsTypeOK'
    BY <1>1, <2>1 DEF StatsTypeOK, ReaderPoints
  <2> QED BY <1>1, <2>1, <2>2, OthersFigures DEF FigureInv
<1>5. CASE UNCHANGED allVars
  <2>1. UNCHANGED <<readerPc, query, within, operatorRead, figures, reply, had>>
    BY <1>5 DEF allVars, statsVars
  <2>2. StatsTypeOK'
    BY <1>1, <2>1 DEF StatsTypeOK
  <2> QED BY <1>1, <2>1, <2>2, OthersFigures DEF FigureInv
<1> QED BY <1>2, <1>3, <1>4, <1>5 DEF StatsNext

\* FiguresInScope of CashflowStats: whatever movements, roles and restarts do
\* between the reads, no figure counts a movement outside the reader's scope.
THEOREM FiguresScoped == StatsSpec => []FiguresInScope
<1>1. FigureInv => FiguresInScope
  BY DEF FigureInv, CountsItsOwn, FiguresInScope
<1> QED BY <1>1, FigureInit, FigureNext, PTL DEF StatsSpec

-----------------------------------------------------------------------------
\* The status a figure counts, and whether it is for movements of m's type.
Wanted(f) == IF f = "pending" THEN "PENDING" ELSE "APPROVED"
ForType(f, m) == f = "pending" \/ f = IF m \in incomes THEN "income" ELSE "expense"

\* What the statuses in had say of the rows, from the first figure on.
Watched(q, m) ==
  /\ Reading(q) /\ DOMAIN figures[q] # {} => StatusOf(movements[m]) \in had[q][m]
  /\ had[q][m] \subseteq {"ABSENT"} \/ movements[m] # NoRow

\* A figure has a movement only in a status it had, and lacks one that had the
\* figure's status all the time only if it is not of the reader's scope.
Read(q, m) ==
  \A f \in DOMAIN figures[q] :
    /\ m \in figures[q][f] => Wanted(f) \in had[q][m] /\ ForType(f, m)
    /\ m \notin figures[q][f] /\ had[q][m] = {Wanted(f)} /\ ForType(f, m) =>
         ~Selected(q, movements[m])

AllFigures(q) == Complete(q) => DOMAIN figures[q] = Figures

WitnessInv ==
  /\ FigureInv
  /\ \A q \in Readers : \A m \in Movements : AllFigures(q) /\ Watched(q, m) /\ Read(q, m)

LEMMA WitnessInit == StatsInit => WitnessInv
<1> SUFFICES ASSUME StatsInit PROVE WitnessInv
  OBVIOUS
<1>1. ASSUME NEW q \in Readers PROVE AllFigures(q)
  BY DEF StatsInit, AllFigures, Complete
<1>2. ASSUME NEW q \in Readers, NEW m \in Movements PROVE Watched(q, m) /\ Read(q, m)
  BY DEF StatsInit, Watched, Read, Reading
<1> QED BY <1>1, <1>2, FigureInit DEF WitnessInv

\* Which rows a figure counts, by the status of the row and the movement's type.
LEMMA CountsWanted ==
  ASSUME Placed, NEW m \in Movements, movements[m] # NoRow, NEW f \in Figures
  PROVE  Counts(f, m) <=> StatusOf(movements[m]) = Wanted(f) /\ ForType(f, m)
<1>1. CASE f = "income"
  BY <1>1 DEF Counts, StatusOf, Wanted, ForType
<1>2. CASE f = "expense"
  BY <1>2 DEF Counts, StatusOf, Wanted, ForType
<1>3. CASE f = "pending"
  BY <1>3 DEF Counts, StatusOf, Wanted, ForType
<1> QED BY <1>1, <1>2, <1>3 DEF Figures

LEMMA ReadFigureWitness ==
  ASSUME WitnessInv, NEW q \in Readers, NEW figure \in Figures, ReadFigure(q, figure),
         UNCHANGED <<vars, incomes>>, NEW m \in Movements
  PROVE  AllFigures(q)' /\ Watched(q, m)' /\ Read(q, m)'
<1>1. StatsTypeOK /\ Placed /\ AllFigures(q) /\ Watched(q, m) /\ Read(q, m)
  BY DEF WitnessInv, FigureInv
<1>2. UNCHANGED <<movements, query, within, incomes>> /\ readerPc[q] = "figures"
  BY DEF vars, tables, ReadFigure
<1>3. PICK fs \in FigureSets :
        /\ figures' = [figures EXCEPT ![q] = fs]
        /\ figure \notin DOMAIN figures[q]
        /\ DOMAIN fs = DOMAIN figures[q] \cup {figure}
        /\ \A f \in DOMAIN figures[q] : fs[f] = figures[q][f]
        /\ fs[figure] = {n \in Movements : Selected(q, movements[n]) /\ Counts(figure, n)}
        /\ had' = [had EXCEPT ![q] =
                     IF DOMAIN figures[q] = {}
                     THEN [n \in Movements |-> {StatusOf(movements[n])}] ELSE @]
        /\ \/ readerPc' = [readerPc EXCEPT ![q] = "figures"] /\ reply' = reply
           \/ /\ DOMAIN fs = Figures
              /\ readerPc' = [readerPc EXCEPT ![q] = "answered"]
              /\ reply' = [reply EXCEPT ![q] = "ok"]
  BY <1>1, ReadFigureEffect
<1>4. figures'[q] = fs
  BY <1>1, <1>3 DEF StatsTypeOK
<1>5. AllFigures(q)'
  BY <1>1, <1>3, <1>4 DEF AllFigures, Complete, StatsTypeOK
<1>6. /\ DOMAIN figures[q] = {} => had'[q][m] = {StatusOf(movements[m])}
      /\ DOMAIN figures[q] # {} => had'[q][m] = had[q][m]
  BY <1>1, <1>3 DEF StatsTypeOK
<1>7. StatusOf(movements[m]) \in had'[q][m]
  BY <1>1, <1>2, <1>6 DEF Watched, Reading
<1>8. Watched(q, m)'
  BY <1>1, <1>2, <1>6, <1>7 DEF Watched, StatusOf
<1>9. ASSUME NEW f \in DOMAIN fs
      PROVE  /\ m \in fs[f] => Wanted(f) \in had'[q][m] /\ ForType(f, m)
             /\ m \notin fs[f] /\ had'[q][m] = {Wanted(f)} /\ ForType(f, m) =>
                  ~Selected(q, movements[m])
  <2>1. CASE f = figure
    BY <1>3, <1>7, <1>1, <2>1, CountsWanted DEF Selected
  <2>2. CASE f # figure
    BY <1>1, <1>3, <1>6, <2>2 DEF Read
  <2> QED BY <2>1, <2>2
<1>10. Read(q, m)'
  <2>1. \A f : ForType(f, m)' <=> ForType(f, m)
    BY <1>2 DEF ForType
  <2>2. Selected(q, movements[m])' <=> Selected(q, movements[m])
    BY <1>2 DEF Selected
  <2> QED BY <1>4, <1>9, <2>1, <2>2 DEF Read
<1> QED BY <1>5, <1>8, <1>10

\* The steps without figures have nothing to witness; an answer without them
\* is not "ok".
LEMMA ReaderStepWitness ==
  ASSUME WitnessInv, NEW q \in Readers, NEW m \in Movements, UNCHANGED <<vars, incomes>>,
         ReaderStep(q) \/ \E c \in Queries : Ask(q, c)
  PROVE  AllFigures(q)' /\ Watched(q, m)' /\ Read(q, m)'
<1>1. StatsTypeOK /\ Watched(q, m) /\ Chosen(q)
  BY DEF WitnessInv, FigureInv
<1>2. UNCHANGED movements
  BY DEF vars, tables
<1>3. CASE \/ StatsGuardUser(q) \/ StatsGuardRoles(q) \/ StatsReadRoles(q)
           \/ StatsCheckBranch(q)
  <2>1. /\ UNCHANGED <<figures, had>>
        /\ readerPc[q] \in {"guard", "roles", "service", "branch"}
        /\ \/ readerPc'[q] # "answered"
           \/ reply'[q] \in {"unauthorized", "forbidden", "notFound"}
    BY <1>1, <1>3 DEF StatsGuardUser, StatsGuardRoles, StatsReadRoles, StatsCheckBranch,
                     ReaderGoTo, Reply, StatsTypeOK
  <2>2. DOMAIN figures'[q] = {}
    BY <1>1, <2>1 DEF Chosen
  <2> QED BY <1>1, <1>2, <2>1, <2>2 DEF AllFigures, Complete, Watched, Read
<1>4. ASSUME NEW c \in Queries, Ask(q, c)
      PROVE  AllFigures(q)' /\ Watched(q, m)' /\ Read(q, m)'
  <2>1. DOMAIN figures'[q] = {} /\ readerPc'[q] = "guard" /\ had'[q][m] = {}
    BY <1>1, <1>4 DEF StatsTypeOK, Ask
  <2> QED BY <2>1 DEF AllFigures, Complete, Watched, Read
<1> QED BY <1>3, <1>4, ReadFigureWitness DEF ReaderStep

\* What the others write is witnessed as it is written; rows stay in scope, or
\* out of it.
LEMMA OthersWitness ==
  ASSUME WitnessInv, [Next]_vars, NEW q \in Readers, NEW m \in Movements,
         UNCHANGED <<query, within, figures, reply, incomes>>,
         \/ /\ readerPc'[q] = readerPc[q]
            /\ had'[q][m] = IF Reading(q) /\ DOMAIN figures[q] # {}
                            THEN had[q][m] \cup {StatusOf(movements'[m])} ELSE had[q][m]
         \/ readerPc'[q] \in {readerPc[q], "free"} /\ ~Reading(q)' /\ had'[q][m] = had[q][m]
  PROVE  AllFigures(q)' /\ Watched(q, m)' /\ Read(q, m)'
<1>1. StatsTypeOK /\ Placed /\ AllFigures(q) /\ Watched(q, m) /\ Read(q, m)
  BY DEF WitnessInv, FigureInv
<1>2. AllFigures(q)'
  BY <1>1 DEF AllFigures, Complete
<1>3. movements[m] # NoRow => movements'[m] # NoRow
  BY <1>1, FrozenNext DEF Frozen
<1>4. Watched(q, m)'
  BY <1>1, <1>3 DEF Watched, Reading, StatusOf
<1>5. movements[m] # NoRow => (Selected(q, movements[m])' <=> Selected(q, movements[m]))
  BY <1>1, <1>3, FrozenNext DEF Frozen, Selected
<1>6. Read(q, m)'
  <2> SUFFICES ASSUME NEW f \in DOMAIN figures[q]
               PROVE  /\ m \in figures[q][f] => Wanted(f) \in had'[q][m] /\ ForType(f, m)
                      /\ m \notin figures[q][f] /\ had'[q][m] = {Wanted(f)} /\ ForType(f, m) =>
                           ~Selected(q, movements[m])'
    BY DEF Read, ForType
  <2>1. had[q][m] \subseteq had'[q][m]
    OBVIOUS
  <2>2. m \in figures[q][f] => Wanted(f) \in had'[q][m] /\ ForType(f, m)
    BY <1>1, <2>1 DEF Read
  <2>3. ASSUME m \notin figures[q][f], had'[q][m] = {Wanted(f)}, ForType(f, m)
        PROVE  ~Selected(q, movements[m])'
    <3>1. had[q][m] = {Wanted(f)}
      <4>1. CASE Reading(q)
        BY <1>1, <2>1, <2>3, <4>1 DEF Watched
      <4>2. CASE ~Reading(q)
        BY <2>3, <4>2
      <4> QED BY <4>1, <4>2
    <3>2. movements[m] # NoRow
      BY <1>1, <3>1 DEF Watched, Wanted
    <3> QED BY <1>1, <1>5, <2>3, <3>1, <3>2 DEF Read
  <2> QED BY <2>2, <2>3
<1> QED BY <1>2, <1>4, <1>6

LEMMA WitnessNext == WitnessInv /\ [StatsNext]_allVars => WitnessInv'
<1> SUFFICES ASSUME WitnessInv, [StatsNext]_allVars PROVE WitnessInv'
  OBVIOUS
<1>1. Placed /\ StatsTypeOK /\ FigureInv /\ FigureInv' /\ [Next]_vars
  BY FigureNext, BesideMovements DEF WitnessInv, FigureInv
<1> SUFFICES ASSUME NEW p \in Readers, NEW m \in Movements
             PROVE  AllFigures(p)' /\ Watched(p, m)' /\ Read(p, m)'
  BY <1>1 DEF WitnessInv
<1>2. ASSUME NEW q \in Readers, ReaderStep(q) \/ \E c \in Queries : Ask(q, c),
             UNCHANGED <<vars, incomes>>
      PROVE  AllFigures(p)' /\ Watched(p, m)' /\ Read(p, m)'
  <2>1. CASE p = q
    BY <1>2, <2>1, ReaderStepWitness
  <2>2. CASE p # q
    <3>1. AllFigures(p) /\ Watched(p, m) /\ Read(p, m) /\ UNCHANGED <<movements, incomes>>
      BY <1>2 DEF WitnessInv, vars, tables
    <3>2. /\ readerPc'[p] = readerPc[p] /\ query'[p] = query[p] /\ within'[p] = within[p]
          /\ figures'[p] = figures[p] /\ reply'[p] = reply[p] /\ had'[p] = had[p]
      BY <1>1, <1>2, <2>2, ReaderStepAlone
    <3> QED BY <3>1, <3>2 DEF AllFigures, Complete, Watched, Read, Reading, Selected, ForType
  <2> QED BY <2>1, <2>2
<1>3. CASE Others
  <2>1. UNCHANGED <<readerPc, query, within, operatorRead, figures, reply, incomes>> /\ Witness
    BY <1>3 DEF Others, Beside
  <2>2. had'[p][m] = IF Reading(p) /\ DOMAIN figures[p] # {}
                     THEN had[p][m] \cup {StatusOf(movements'[m])} ELSE had[p][m]
    BY <2>1 DEF Witness
  <2> QED BY <1>1, <2>1, <2>2, OthersWitness
<1>4. CASE StopAll
  <2>1. /\ UNCHANGED <<query, within, operatorRead, figures, reply, incomes, had>>
        /\ readerPc' = [q \in Readers |-> IF Reading(q) THEN "free" ELSE readerPc[q]]
    BY <1>4 DEF StopAll
  <2>2. readerPc'[p] \in {readerPc[p], "free"} /\ ~Reading(p)'
    BY <2>1 DEF Reading
  <2> QED BY <1>1, <2>1, <2>2, OthersWitness
<1>5. CASE UNCHANGED allVars
  <2>1. UNCHANGED <<readerPc, query, within, operatorRead, figures, reply, incomes, had, movements>>
    BY <1>5 DEF allVars, statsVars, vars, tables
  <2> QED BY <2>1 DEF WitnessInv, AllFigures, Complete, Watched, Read, Reading, Selected, ForType
<1> QED BY <1>2, <1>3, <1>4, <1>5 DEF StatsNext

\* FiguresAreWitnessed of CashflowStats: an answer may mix moments, but only of
\* movements whose status changed between its three statements.
THEOREM FiguresWitnessed == StatsSpec => []FiguresAreWitnessed
<1>1. ASSUME WitnessInv PROVE FiguresAreWitnessed
  <2> SUFFICES ASSUME NEW q \in Readers, Complete(q), NEW m \in Movements
               PROVE  LET statuses == had[q][m]
                          shown == {f \in Figures : m \in figures[q][f]}
                          total == IF m \in incomes THEN "income" ELSE "expense"
                      IN /\ shown \cap {"income", "expense"} # {} =>
                              "APPROVED" \in statuses /\ shown \subseteq {total, "pending"}
                         /\ "pending" \in shown => "PENDING" \in statuses
                         /\ Selected(q, movements[m]) =>
                              /\ statuses = {"APPROVED"} => shown = {total}
                              /\ statuses = {"PENDING"} => shown = {"pending"}
    BY DEF FiguresAreWitnessed
  <2>1. DOMAIN figures[q] = Figures /\ Read(q, m)
    BY <1>1 DEF WitnessInv, AllFigures
  <2>2. /\ m \in figures[q]["income"] => "APPROVED" \in had[q][m] /\ m \in incomes
        /\ m \in figures[q]["expense"] => "APPROVED" \in had[q][m] /\ m \notin incomes
        /\ m \in figures[q]["pending"] => "PENDING" \in had[q][m]
    BY <2>1 DEF Read, Wanted, ForType, Figures
  <2>3. Selected(q, movements[m]) =>
          /\ had[q][m] = {"APPROVED"} /\ m \in incomes => m \in figures[q]["income"]
          /\ had[q][m] = {"APPROVED"} /\ m \notin incomes => m \in figures[q]["expense"]
          /\ had[q][m] = {"PENDING"} => m \in figures[q]["pending"]
    BY <2>1 DEF Read, Wanted, ForType, Figures
  <2> QED BY <2>2, <2>3 DEF Figures
<1> QED BY <1>1, WitnessInit, WitnessNext, PTL DEF StatsSpec

\* LifecycleSpec beside readers: with requests that do not overlap, and
\* statistics that may overlap with them and with each other, every movement
\* takes the steps of its lifecycle.
THEOREM LifecycleBesideReaders ==
  ASSUME Serial
  PROVE  StatsSpec => LifecycleSpec
<1>1. StatsInit => SerialInv /\ Lifecycle!Init
  BY SerialInit, LifecycleInit DEF StatsInit
<1>2. SerialInv /\ [StatsNext]_allVars => SerialInv' /\ [Next]_vars
  BY SerialNext, BesideMovements DEF SerialInv
<1>3. SerialInv /\ [Next]_vars => [Lifecycle!Next]_StatusMap
  BY LifecycleStep
<1> QED BY <1>1, <1>2, <1>3, PTL DEF StatsSpec, LifecycleSpec, Lifecycle!Spec, StatusMap
=============================================================================
