------------------------ MODULE QueryPipelineProofs ------------------------
(***************************************************************************)
(* QueryPipeline's invariants and its refinement of SafeQuery, for any     *)
(* sets of requests, connections, statements and errors.                   *)
(*                                                                         *)
(* TypeOK is not inductive by itself: an error path returns conn[r] to the *)
(* pool, which is a connection only because r was at a stage that holds    *)
(* one.  PipelineInv adds what each stage knows (PurposeMatchesStage,      *)
(* HistoryMatchesStage, SqlMatchesStage).                                  *)
(*                                                                         *)
(* The actions have five shapes: a request moves to its next stage, turns  *)
(* to the pool, ends without a statement running, ends one, or turns to    *)
(* its repair.  There is one lemma for each shape.                         *)
(***************************************************************************)
EXTENDS QueryPipeline, TLAPS

\* The initial states satisfy the invariant.
LEMMA InitInv == Init => PipelineInv
<1>. USE PipelineAssumption
<1>. USE DEF poolVars, historyVars, localVars, dbVars, Attempt, Purpose, Stage,
          Lost, Results, Exceptions, Outcomes, Goto, Connect, Finish, Release,
          PipelineInv, TypeOK, PoolAccounting, OnlyApprovedSQLRuns,
          AnswerMatchesRuns, RunExceptions, PurposeMatchesStage,
          HistoryMatchesStage, SqlMatchesStage, Holding, InFlight
<1>1. QED
  BY DEF Init

\* A request that turns to the pool for its next connection.
LEMMA ConnectStep ==
  ASSUME PipelineInv, NEW r \in Request, NEW for \in Purpose,
         \/ pc[r] = "idle" /\ for = "policy"
         \/ pc[r] = "question" /\ for = "context"
         \/ /\ pc[r] = "validate" /\ for = "execute"
            /\ Approved(sql[r], snapshot[r]),
         Connect(r, for),
         UNCHANGED <<settings, dbVars, poolVars, attempt, localVars, outcome,
                     historyVars>>
  PROVE  PipelineInv'
<1>. USE PipelineAssumption
<1>. USE DEF poolVars, historyVars, localVars, dbVars, Attempt, Purpose, Stage,
          Lost, Results, Exceptions, Outcomes, Goto, Connect, Finish, Release,
          PipelineInv, TypeOK, PoolAccounting, OnlyApprovedSQLRuns,
          AnswerMatchesRuns, RunExceptions, PurposeMatchesStage,
          HistoryMatchesStage, SqlMatchesStage, Holding, InFlight
<1>1. TypeOK'
  OBVIOUS
<1>2. PoolAccounting'
  OBVIOUS
<1>3. OnlyApprovedSQLRuns'
  OBVIOUS
<1>4. AnswerMatchesRuns'
  OBVIOUS
<1>5. (\A q \in Request : PurposeMatchesStage(q))'
  OBVIOUS
<1>6. (\A q \in Request : HistoryMatchesStage(q))'
  OBVIOUS
<1>7. (\A q \in Request : SqlMatchesStage(q))'
  OBVIOUS
<1>8. QED
  BY <1>1, <1>2, <1>3, <1>4, <1>5, <1>6, <1>7

\* The connection of a request whose stage holds one goes back to the pool,
\* as the request leaves for a stage that holds none.
LEMMA ReleaseStep ==
  ASSUME TypeOK, PoolAccounting, NEW r \in Request, pc[r] \in Holding,
         NEW stage \in Stage \ Holding, Release(r), Goto(r, stage)
  PROVE  PoolAccounting'
<1>. USE DEF TypeOK, PoolAccounting, Release, Goto
<1>1. (\A q \in Request : conn[q] # None <=> pc[q] \in Holding)'
  OBVIOUS
<1>2. (\A q \in Request : conn[q] \notin free)'
  BY PipelineAssumption
<1>3. (\A q, p \in Request : q # p /\ conn[q] # None => conn[q] # conn[p])'
  OBVIOUS
<1>4. (\A c \in Connection : c \in free \/ \E q \in Request : conn[q] = c)'
  OBVIOUS
<1>5. QED
  BY <1>1, <1>2, <1>3, <1>4

\* A request that ends while it runs no statement.
LEMMA FinishStep ==
  ASSUME PipelineInv, NEW r \in Request,
         pc[r] \notin InFlight \cup {"answered"},
         NEW out \in Outcomes \ {"pending", "rows", "QueryTimeoutError",
                                 "QueryExecutionError",
                                 "QueryResultNormalizationError"},
         out = "declined" => attempt[r] = "initial",
         out = "QueryRepairError" => attempt[r] = "repair",
         Finish(r, out),
         IF pc[r] \in Holding THEN Release(r) ELSE UNCHANGED poolVars,
         UNCHANGED <<settings, dbVars, purpose, attempt, snapshot, historyVars>>
  PROVE  PipelineInv'
<1>0. PoolAccounting'
  <2>1. CASE pc[r] \in Holding
    BY <2>1, ReleaseStep DEF PipelineInv, Finish, Stage, Holding
  <2>2. CASE pc[r] \notin Holding
    BY <2>2 DEF PipelineInv, TypeOK, PoolAccounting, Finish, Goto, poolVars,
                Holding
  <2>3. QED
    BY <2>1, <2>2
<1>1. TypeOK'
  <2>1. CASE pc[r] \in Holding
    <3>1. conn[r] \in Connection /\ TypeOK
      BY <2>1 DEF PipelineInv, TypeOK, PoolAccounting
    <3>2. QED
      BY <2>1, <3>1
         DEF TypeOK, Finish, Goto, Release, Stage, dbVars, historyVars
  <2>2. CASE pc[r] \notin Holding
    BY <2>2
       DEF PipelineInv, TypeOK, Finish, Goto, Stage, dbVars, poolVars,
           historyVars
  <2>3. QED
    BY <2>1, <2>2
<1>. USE PipelineAssumption
<1>. USE DEF poolVars, historyVars, localVars, dbVars, Attempt, Purpose, Stage,
          Lost, Results, Exceptions, Outcomes, Goto, Connect, Finish, Release,
          PipelineInv, TypeOK, PoolAccounting, OnlyApprovedSQLRuns,
          AnswerMatchesRuns, RunExceptions, PurposeMatchesStage,
          HistoryMatchesStage, SqlMatchesStage, Holding, InFlight
<1>2. PoolAccounting'
  BY <1>0
<1>3. OnlyApprovedSQLRuns'
  OBVIOUS
<1>4. AnswerMatchesRuns'
  OBVIOUS
<1>5. (\A q \in Request : PurposeMatchesStage(q))'
  OBVIOUS
<1>6. (\A q \in Request : HistoryMatchesStage(q))'
  OBVIOUS
<1>7. (\A q \in Request : SqlMatchesStage(q))'
  OBVIOUS
<1>8. QED
  BY <1>1, <1>2, <1>3, <1>4, <1>5, <1>6, <1>7

\* A request that ends together with its statement.
LEMMA FinishRunStep ==
  ASSUME PipelineInv, NEW r \in Request, pc[r] \in InFlight,
         NEW state \in Results,
         NEW out \in {"rows"} \cup RunExceptions,
         out = "rows" => state = "rows",
         out = "QueryTimeoutError" => state = "57014",
         out = "QueryDatabaseError" => state = "08006",
         out = "QueryResultNormalizationError" => state = "unserializable",
         out = "QueryExecutionError" =>
           /\ state \in {"42P01", "42501", "57P01"} \cup StatementErrors
           /\ attempt[r] = "initial" => state \notin REPAIR_ELIGIBLE_SQLSTATES,
         Release(r),
         result' = [result EXCEPT ![r][attempt[r]] = state],
         Finish(r, out),
         UNCHANGED <<settings, dbVars, purpose, attempt, snapshot, ran>>
  PROVE  PipelineInv'
<1>. USE PipelineAssumption
<1>. USE DEF poolVars, historyVars, localVars, dbVars, Attempt, Purpose, Stage,
          Lost, Results, Exceptions, Outcomes, Goto, Connect, Finish, Release,
          PipelineInv, TypeOK, PoolAccounting, OnlyApprovedSQLRuns,
          AnswerMatchesRuns, RunExceptions, PurposeMatchesStage,
          HistoryMatchesStage, SqlMatchesStage, Holding, InFlight
<1>1. TypeOK'
  OBVIOUS
<1>2. PoolAccounting'
  OBVIOUS
<1>3. OnlyApprovedSQLRuns'
  OBVIOUS
<1>4. AnswerMatchesRuns'
  OBVIOUS
<1>5. (\A q \in Request : PurposeMatchesStage(q))'
  OBVIOUS
<1>6. (\A q \in Request : HistoryMatchesStage(q))'
  OBVIOUS
<1>7. (\A q \in Request : SqlMatchesStage(q))'
  OBVIOUS
<1>8. QED
  BY <1>1, <1>2, <1>3, <1>4, <1>5, <1>6, <1>7

\* A request whose first statement is to be repaired.
LEMMA RepairStep ==
  ASSUME PipelineInv, NEW r \in Request, pc[r] \in InFlight,
         attempt[r] = "initial",
         NEW state \in {"42P01"} \cup (StatementErrors \ {"42501"}),
         state \in REPAIR_ELIGIBLE_SQLSTATES,
         Release(r),
         result' = [result EXCEPT ![r]["initial"] = state],
         attempt' = [attempt EXCEPT ![r] = "repair"],
         Connect(r, "context"),
         sql' = [sql EXCEPT ![r] = None],
         UNCHANGED <<settings, dbVars, names, snapshot, ran, outcome>>
  PROVE  PipelineInv'
<1>. USE PipelineAssumption
<1>. USE DEF poolVars, historyVars, localVars, dbVars, Attempt, Purpose, Stage,
          Lost, Results, Exceptions, Outcomes, Goto, Connect, Finish, Release,
          PipelineInv, TypeOK, PoolAccounting, OnlyApprovedSQLRuns,
          AnswerMatchesRuns, RunExceptions, PurposeMatchesStage,
          HistoryMatchesStage, SqlMatchesStage, Holding, InFlight
<1>1. TypeOK'
  OBVIOUS
<1>2. PoolAccounting'
  OBVIOUS
<1>3. OnlyApprovedSQLRuns'
  OBVIOUS
<1>4. AnswerMatchesRuns'
  OBVIOUS
<1>5. (\A q \in Request : PurposeMatchesStage(q))'
  OBVIOUS
<1>6. (\A q \in Request : HistoryMatchesStage(q))'
  OBVIOUS
<1>7. (\A q \in Request : SqlMatchesStage(q))'
  OBVIOUS
<1>8. QED
  BY <1>1, <1>2, <1>3, <1>4, <1>5, <1>6, <1>7

\* What the classification of an error yields.
LEMMA ClassifiedType ==
  ASSUME NEW state \in Results \ {"rows"}
  PROVE  /\ Classified(state) \in RunExceptions
         /\ Classified(state) = "QueryTimeoutError" => state = "57014"
         /\ Classified(state) = "QueryDatabaseError" => state = "08006"
         /\ Classified(state) = "QueryResultNormalizationError" =>
              state = "unserializable"
         /\ Classified(state) = "QueryExecutionError" =>
              state \in {"42P01", "42501", "57P01"} \cup StatementErrors
  BY DEF Classified, RunExceptions, Results, Lost

\* A statement that fails, whichever way: the repair begins or the request
\* ends.
LEMMA RunFailsStep ==
  ASSUME PipelineInv, NEW r \in Request, pc[r] \in InFlight,
         NEW state \in Results \ {"rows"}, RunFails(r, state)
  PROVE  PipelineInv'
<1>. DEFINE Repairs == /\ Classified(state) = "QueryExecutionError"
                       /\ state \in REPAIR_ELIGIBLE_SQLSTATES
                       /\ attempt[r] = "initial"
<1>0. attempt[r] \in Attempt
  BY DEF PipelineInv, TypeOK
<1>1. CASE Repairs
  <2>1. state \in {"42P01"} \cup (StatementErrors \ {"42501"})
    BY <1>1, ClassifiedType DEF REPAIR_ELIGIBLE_SQLSTATES, Results, Lost
  <2>2. /\ Release(r)
        /\ result' = [result EXCEPT ![r]["initial"] = state]
        /\ attempt' = [attempt EXCEPT ![r] = "repair"]
        /\ Connect(r, "context")
        /\ sql' = [sql EXCEPT ![r] = None]
        /\ UNCHANGED <<settings, dbVars, names, snapshot, ran, outcome>>
    BY <1>1 DEF RunFails
  <2>3. QED
    BY <1>1, <2>1, <2>2, RepairStep
<1>2. CASE ~Repairs
  <2>1. /\ Release(r)
        /\ result' = [result EXCEPT ![r][attempt[r]] = state]
        /\ Finish(r, Classified(state))
        /\ UNCHANGED <<settings, dbVars, purpose, attempt, snapshot, ran>>
    BY <1>2 DEF RunFails
  <2>2. Classified(state) \in RunExceptions /\ Classified(state) # "rows"
    BY ClassifiedType DEF RunExceptions
  <2>3. QED
    BY <1>2, <2>1, <2>2, ClassifiedType, FinishRunStep
<1>3. QED
  BY <1>1, <1>2

\* A request that moves to its next stage, with the connection it has or
\* with the one it takes or gives back.
LEMMA MoveStep ==
  ASSUME PipelineInv, NEW r \in Request,
         \/ Checkout(r) \/ ListTables(r)
         \/ ReadColumns(r) /\ names[r] \subseteq schema
         \/ BuildPrompt(r) \/ ProviderGenerates(r)
         \/ BeginTransaction(r) \/ Send(r) \/ Plan(r) \/ Fetch(r)
  PROVE  PipelineInv'
<1>. USE PipelineAssumption
<1>. USE DEF At, poolVars, historyVars, localVars, dbVars,
          Attempt, Purpose, Stage,
          Lost, Results, Exceptions, Outcomes, Goto, Connect, Finish, Release,
          PipelineInv, TypeOK, PoolAccounting, OnlyApprovedSQLRuns,
          AnswerMatchesRuns, RunExceptions, PurposeMatchesStage,
          HistoryMatchesStage, SqlMatchesStage, Holding, InFlight
<1>1. CASE Checkout(r)
  <2>1. TypeOK'
    BY <1>1 DEF Checkout
  <2>2. PoolAccounting'
    <3>1. PICK c \in free : /\ free' = free \ {c}
                           /\ conn' = [conn EXCEPT ![r] = c]
      BY <1>1 DEF Checkout
    <3>2. /\ conn'[r] = c /\ c # None
          /\ pc'[r] \in Holding
          /\ \A q \in Request \ {r} : conn'[q] = conn[q] /\ pc'[q] = pc[q]
      BY <1>1, <3>1 DEF Checkout
    <3>3. \A q \in Request : conn[q] # c
      OBVIOUS
    <3>4. \A q \in Request : conn'[q] # None <=> pc'[q] \in Holding
      BY <3>2
    <3>5. \A q \in Request : conn'[q] \notin free'
      BY <3>1, <3>2
    <3>6. \A p, q \in Request : p # q /\ conn'[p] # None => conn'[p] # conn'[q]
      BY <3>2, <3>3
    <3>7. \A d \in Connection : d \in free' \/ \E q \in Request : conn'[q] = d
      <4>1. conn[r] = None
        BY <1>1 DEF Checkout
      <4>2. QED
        BY <3>1, <3>2, <4>1
    <3>8. QED
      BY <3>4, <3>5, <3>6, <3>7
  <2>3. OnlyApprovedSQLRuns'
    BY <1>1 DEF Checkout
  <2>4. AnswerMatchesRuns'
    BY <1>1 DEF Checkout
  <2>5. (\A q \in Request : PurposeMatchesStage(q))'
    BY <1>1 DEF Checkout
  <2>6. (\A q \in Request : HistoryMatchesStage(q))'
    BY <1>1 DEF Checkout
  <2>7. (\A q \in Request : SqlMatchesStage(q))'
    BY <1>1 DEF Checkout
  <2>8. QED
    BY <2>1, <2>2, <2>3, <2>4, <2>5, <2>6, <2>7
<1>2. CASE ListTables(r)
  BY <1>2 DEF ListTables
<1>3. CASE BuildPrompt(r)
  BY <1>3 DEF BuildPrompt
<1>4. CASE ProviderGenerates(r)
  BY <1>4 DEF ProviderGenerates
<1>5. CASE BeginTransaction(r)
  BY <1>5 DEF BeginTransaction
<1>6. CASE Send(r)
  BY <1>6 DEF Send, Approved, StructurallyAccepted, PolicyAccepts
<1>7. CASE Plan(r)
  BY <1>7 DEF Plan
<1>8. CASE Fetch(r)
  BY <1>8 DEF Fetch
<1>9. CASE ReadColumns(r) /\ names[r] \subseteq schema /\ purpose[r] = "policy"
  <2>0. /\ pc[r] = "columns"
        /\ Release(r)
        /\ names' = [names EXCEPT ![r] = {}]
        /\ snapshot' = [snapshot EXCEPT ![r] = names[r]]
        /\ Goto(r, "question")
        /\ UNCHANGED <<settings, dbVars, purpose, attempt, sql, ran, result,
                       outcome>>
    BY <1>9 DEF ReadColumns
  <2>1. TypeOK'
    BY <1>9, <2>0
  <2>2. PoolAccounting'
    BY <1>9, <2>0
  <2>3. OnlyApprovedSQLRuns'
    BY <1>9, <2>0
  <2>4. AnswerMatchesRuns'
    BY <1>9, <2>0
  <2>5. (\A q \in Request : PurposeMatchesStage(q))'
    BY <1>9, <2>0
  <2>6. (\A q \in Request : HistoryMatchesStage(q))'
    BY <1>9, <2>0
  <2>7. (\A q \in Request : SqlMatchesStage(q))'
    BY <1>9, <2>0
  <2>8. QED
    BY <2>1, <2>2, <2>3, <2>4, <2>5, <2>6, <2>7
<1>10. CASE ReadColumns(r) /\ names[r] \subseteq schema /\ purpose[r] # "policy"
  <2>0. /\ pc[r] = "columns"
        /\ Release(r)
        /\ names' = [names EXCEPT ![r] = {}]
        /\ Goto(r, "prompt")
        /\ UNCHANGED <<settings, dbVars, purpose, attempt, snapshot, sql, ran,
                       result, outcome>>
    BY <1>10 DEF ReadColumns
  <2>1. TypeOK'
    BY <1>10, <2>0
  <2>2. PoolAccounting'
    BY <1>10, <2>0
  <2>3. OnlyApprovedSQLRuns'
    BY <1>10, <2>0
  <2>4. AnswerMatchesRuns'
    BY <1>10, <2>0
  <2>5. (\A q \in Request : PurposeMatchesStage(q))'
    BY <1>10, <2>0
  <2>6. (\A q \in Request : HistoryMatchesStage(q))'
    BY <1>10, <2>0
  <2>7. (\A q \in Request : SqlMatchesStage(q))'
    BY <1>10, <2>0
  <2>8. QED
    BY <2>1, <2>2, <2>3, <2>4, <2>5, <2>6, <2>7
<1>11. QED
  BY <1>1, <1>2, <1>3, <1>4, <1>5, <1>6, <1>7, <1>8, <1>9, <1>10

\* A request that ends with an error, or declined, before or between its
\* statements.
LEMMA EndStep ==
  ASSUME PipelineInv, NEW r \in Request,
         \/ Compose(r) /\ settings # "ok"
         \/ PoolTimeout(r) \/ ConnectRefused(r)
         \/ ReadColumns(r) /\ ~(names[r] \subseteq schema)
         \/ IntrospectionFails(r)
         \/ ValidateQuestion(r) /\ Finish(r, "QuestionValidationError")
                                /\ UNCHANGED purpose
         \/ PromptFails(r)
         \/ ProviderDeclines(r) \/ ProviderFails(r) \/ ProviderTimeout(r)
         \/ Validate(r) /\ ~Approved(sql[r], snapshot[r])
         \/ BeginFails(r)
  PROVE  PipelineInv'
<1>. USE DEF At, Exceptions, Outcomes, Holding, InFlight
<1>0. /\ settings \in {"ok", "DatabaseConfigurationError",
                       "GroqConfigurationError"}
      /\ attempt[r] \in {"initial", "repair"}
  BY DEF PipelineInv, TypeOK, Attempt
<1>1. CASE Compose(r) /\ settings # "ok"
  BY <1>0, <1>1, FinishStep DEF Compose
<1>2. CASE PoolTimeout(r)
  BY <1>0, <1>2, FinishStep DEF PoolTimeout, NoConnection
<1>3. CASE ConnectRefused(r)
  BY <1>0, <1>3, FinishStep DEF ConnectRefused, NoConnection
<1>4. CASE ReadColumns(r) /\ ~(names[r] \subseteq schema)
  BY <1>0, <1>4, FinishStep DEF ReadColumns
<1>5. CASE IntrospectionFails(r)
  BY <1>0, <1>5, FinishStep DEF IntrospectionFails
<1>6. CASE ValidateQuestion(r) /\ Finish(r, "QuestionValidationError")
                             /\ UNCHANGED purpose
  BY <1>0, <1>6, FinishStep DEF ValidateQuestion
<1>7. CASE PromptFails(r)
  BY <1>0, <1>7, FinishStep DEF PromptFails
<1>8. CASE ProviderDeclines(r)
  BY <1>0, <1>8, FinishStep DEF ProviderDeclines
<1>9. CASE ProviderFails(r)
  <2>1. PICK exc \in ProviderErrors : Finish(r, exc)
    BY <1>9 DEF ProviderFails
  <2>2. exc \in Outcomes \ {"pending", "rows", "declined", "QueryTimeoutError",
                           "QueryExecutionError", "QueryRepairError",
                           "QueryResultNormalizationError"}
    BY PipelineAssumption
  <2>3. QED
    BY <1>9, <2>1, <2>2, FinishStep DEF ProviderFails
<1>10. CASE ProviderTimeout(r)
  BY <1>0, <1>10, FinishStep DEF ProviderTimeout
<1>11. CASE Validate(r) /\ ~Approved(sql[r], snapshot[r])
  BY <1>0, <1>11, FinishStep DEF Validate
<1>12. CASE BeginFails(r)
  BY <1>0, <1>12, FinishStep DEF BeginFails
<1>13. QED
  BY <1>1, <1>2, <1>3, <1>4, <1>5, <1>6, <1>7, <1>8, <1>9, <1>10, <1>11, <1>12

\* A statement that ends: with rows, or in one of the ways it can fail.
LEMMA RunStep ==
  ASSUME PipelineInv, NEW r \in Request,
         \/ UndefinedTable(r) \/ InsufficientPrivilege(r)
         \/ StatementError(r) \/ StatementTimeout(r) \/ ConnectionLost(r)
         \/ NormalizationFails(r) \/ Commit(r)
  PROVE  PipelineInv'
<1>. USE PipelineAssumption DEF At, Results, Lost, InFlight
<1>1. CASE UndefinedTable(r)
  BY <1>1, RunFailsStep DEF UndefinedTable
<1>2. CASE InsufficientPrivilege(r)
  BY <1>2, RunFailsStep DEF InsufficientPrivilege
<1>3. CASE StatementError(r)
  BY <1>3, RunFailsStep DEF StatementError
<1>4. CASE StatementTimeout(r)
  BY <1>4, RunFailsStep DEF StatementTimeout
<1>5. CASE ConnectionLost(r)
  BY <1>5, RunFailsStep DEF ConnectionLost
<1>6. CASE NormalizationFails(r)
  BY <1>6, RunFailsStep DEF NormalizationFails
<1>7. CASE Commit(r)
  BY <1>7, FinishRunStep DEF Commit, Outcomes
<1>8. QED
  BY <1>1, <1>2, <1>3, <1>4, <1>5, <1>6, <1>7

\* Every step of a request, its own and its peers', preserves the invariant.
LEMMA RequestStep ==
  ASSUME PipelineInv, NEW r \in Request, Serve(r) \/ Peer(r)
  PROVE  PipelineInv'
<1>1. CASE Compose(r) /\ settings = "ok"
  BY <1>1, ConnectStep DEF Compose, At, Purpose, localVars
<1>2. CASE ValidateQuestion(r) /\ Connect(r, "context")
                              /\ UNCHANGED <<outcome, sql, names>>
  BY <1>2, ConnectStep DEF ValidateQuestion, At, Purpose, localVars
<1>3. CASE Validate(r) /\ Approved(sql[r], snapshot[r])
  BY <1>3, ConnectStep DEF Validate, At, Purpose, localVars
<1>4. CASE ValidateQuestion(r)
  BY <1>2, <1>4, EndStep DEF ValidateQuestion
<1>5. QED
  BY <1>1, <1>3, <1>4, MoveStep, EndStep, RunStep DEF Serve, Peer

\* So does every migration or provisioning by the owner.
LEMMA OwnerStep == ASSUME PipelineInv, Owner PROVE PipelineInv'
<1>. USE PipelineAssumption
<1>. USE DEF poolVars, historyVars, localVars, dbVars, Attempt, Purpose, Stage,
          Lost, Results, Exceptions, Outcomes, Goto, Connect, Finish, Release,
          PipelineInv, TypeOK, PoolAccounting, OnlyApprovedSQLRuns,
          AnswerMatchesRuns, RunExceptions, PurposeMatchesStage,
          HistoryMatchesStage, SqlMatchesStage, Holding, InFlight
<1>1. CASE Upgrade
  BY <1>1 DEF Upgrade, controlVars
<1>2. CASE Downgrade
  <2>1. TypeOK'
    BY <1>2 DEF Downgrade, controlVars
  <2>2. PoolAccounting'
    BY <1>2 DEF Downgrade, controlVars
  <2>3. OnlyApprovedSQLRuns'
    BY <1>2 DEF Downgrade, controlVars
  <2>4. AnswerMatchesRuns'
    BY <1>2 DEF Downgrade, controlVars
  <2>5. (\A q \in Request : PurposeMatchesStage(q))'
    BY <1>2 DEF Downgrade, controlVars
  <2>6. (\A q \in Request : HistoryMatchesStage(q))'
    BY <1>2 DEF Downgrade, controlVars
  <2>7. (\A q \in Request : SqlMatchesStage(q))'
    BY <1>2 DEF Downgrade, controlVars
  <2>8. QED
    BY <2>1, <2>2, <2>3, <2>4, <2>5, <2>6, <2>7
<1>3. CASE Provision
  BY <1>3 DEF Provision, controlVars
<1>4. QED
  BY <1>1, <1>2, <1>3 DEF Owner

\* The inductive invariant of the pipeline holds of every reachable state.
THEOREM PipelineInvariant == Spec => []PipelineInv
<1>1. PipelineInv /\ [Next]_vars => PipelineInv'
  <2>. SUFFICES ASSUME PipelineInv, [Next]_vars PROVE PipelineInv'
    OBVIOUS
  <2>1. CASE UNCHANGED vars
  <3>. USE PipelineAssumption
  <3>. USE DEF poolVars, historyVars, localVars, dbVars, Attempt, Purpose, Stage,
            Lost, Results, Exceptions, Outcomes, Goto, Connect, Finish, Release,
            PipelineInv, TypeOK, PoolAccounting, OnlyApprovedSQLRuns,
            AnswerMatchesRuns, RunExceptions, PurposeMatchesStage,
            HistoryMatchesStage, SqlMatchesStage, Holding, InFlight
    <3>1. TypeOK'
      BY <2>1 DEF vars, controlVars
    <3>2. PoolAccounting'
      BY <2>1 DEF vars, controlVars
    <3>3. OnlyApprovedSQLRuns'
      BY <2>1 DEF vars, controlVars
    <3>4. AnswerMatchesRuns'
      BY <2>1 DEF vars, controlVars
    <3>5. (\A q \in Request : PurposeMatchesStage(q))'
      BY <2>1 DEF vars, controlVars
    <3>6. (\A q \in Request : HistoryMatchesStage(q))'
      BY <2>1 DEF vars, controlVars
    <3>7. (\A q \in Request : SqlMatchesStage(q))'
      BY <2>1 DEF vars, controlVars
    <3>8. QED
      BY <3>1, <3>2, <3>3, <3>4, <3>5, <3>6, <3>7
  <2>2. CASE Next
    BY <2>2, RequestStep, OwnerStep DEF Next
  <2>3. QED
    BY <2>1, <2>2
<1>2. QED
  BY InitInv, <1>1, PTL DEF Spec
-----------------------------------------------------------------------------
(***************************************************************************)
(* What follows from the invariant.                                        *)
(***************************************************************************)

\* Every variable keeps its type.
THEOREM TypeCorrect == Spec => []TypeOK
<1>1. PipelineInv => TypeOK
  BY DEF PipelineInv
<1>2. QED
  BY <1>1, PipelineInvariant, PTL

\* No statement reaches the database unapproved.
THEOREM ApprovalSafety == Spec => []OnlyApprovedSQLRuns
<1>1. PipelineInv => OnlyApprovedSQLRuns
  BY DEF PipelineInv
<1>2. QED
  BY <1>1, PipelineInvariant, PTL

\* A repair only ever follows a correctable error of the first statement.
THEOREM RepairSafety == Spec => []RepairFollowsCorrectableError
<1>1. PipelineInv => RepairFollowsCorrectableError
  BY DEF PipelineInv, TypeOK, Attempt, HistoryMatchesStage,
         RepairFollowsCorrectableError
<1>2. QED
  BY <1>1, PipelineInvariant, PTL

\* No connection is leaked, shared or held while its holder waits.
THEOREM PoolSafety == Spec => []PoolAccounting
<1>1. PipelineInv => PoolAccounting
  BY DEF PipelineInv
<1>2. QED
  BY <1>1, PipelineInvariant, PTL

\* The answers agree with what the database did.
THEOREM AnswerSafety == Spec => []AnswerMatchesRuns
<1>1. PipelineInv => AnswerMatchesRuns
  BY DEF PipelineInv
<1>2. QED
  BY <1>1, PipelineInvariant, PTL

\* Of all steps, only UndefinedTable reports a missing relation; and there
\* the policy's approval says that the schema has moved or is not granted.
THEOREM ResolutionSafety == Spec => ApprovedSQLResolves
<1>. DEFINE Moved(r, a) ==
       result[r][a] # "42P01" /\ result'[r][a] = "42P01"
         => schema # snapshot[r] \/ (schema # {} /\ ~granted)
<1>1. ASSUME PipelineInv, NEW q \in Request, NEW state \in Results \cup {None},
             NEW b \in Attempt,
             result' = [result EXCEPT ![q][b] = state], state # "42P01",
             NEW r \in Request, NEW a \in Attempt
      PROVE  Moved(r, a)
  BY <1>1 DEF PipelineInv, TypeOK, Attempt
<1>2. ASSUME PipelineInv, NEW q \in Request, UndefinedTable(q),
             NEW r \in Request, NEW a \in Attempt
      PROVE  Moved(r, a)
  <2>1. Refs[sql[q]] \subseteq snapshot[q] /\ snapshot[q] \subseteq Banking
    BY <1>2 DEF UndefinedTable, At, PipelineInv, SqlMatchesStage, InFlight,
                Approved, PolicyAccepts, TypeOK
  <2>2. schema # snapshot[q] \/ (schema # {} /\ ~granted)
    BY <1>2, <2>1 DEF UndefinedTable, Resolves, Readable, BankingRefs
  <2>3. result' = [result EXCEPT ![q][attempt[q]] = "42P01"]
    BY <1>2 DEF UndefinedTable, RunFails
  <2>4. QED
    BY <2>2, <2>3 DEF PipelineInv, TypeOK
<1>3. ASSUME PipelineInv, Next, NEW r \in Request, NEW a \in Attempt
      PROVE  Moved(r, a)
  <2>1. CASE result' = result
    BY <2>1
  <2>2. ASSUME NEW q \in Request, UndefinedTable(q) PROVE Moved(r, a)
    BY <1>2, <1>3, <2>2
  <2>3. ASSUME NEW q \in Request,
               \/ InsufficientPrivilege(q) \/ StatementError(q)
               \/ StatementTimeout(q) \/ ConnectionLost(q)
               \/ NormalizationFails(q) \/ Commit(q)
        PROVE  Moved(r, a)
    <3>1. attempt[q] \in Attempt
      BY <1>3 DEF PipelineInv, TypeOK
    <3>2. \E state \in Results :
            /\ state # "42P01"
            /\ result' = [result EXCEPT ![q][attempt[q]] = state]
      BY <2>3, PipelineAssumption
         DEF InsufficientPrivilege, StatementError, StatementTimeout,
             ConnectionLost, NormalizationFails, Commit, RunFails, Results,
             Lost
    <3>3. QED
      BY <1>1, <1>3, <3>1, <3>2
  <2>4. QED
    BY <1>3, <2>1, <2>2, <2>3
       DEF Next, Serve, Peer, Owner, historyVars, Checkout, PoolTimeout,
           ListTables, ReadColumns, ValidateQuestion, BuildPrompt,
           ProviderTimeout, Validate, BeginTransaction, Send, Compose,
           ConnectRefused, IntrospectionFails, PromptFails,
           ProviderGenerates, ProviderDeclines, ProviderFails, BeginFails,
           Plan, Fetch, Upgrade, Downgrade, Provision
<1>4. PipelineInv /\ [Next]_vars =>
        [\A r \in Request, a \in Attempt : Moved(r, a)]_vars
  BY <1>3
<1>5. QED
  BY <1>4, PipelineInvariant, PTL DEF Spec, ApprovedSQLResolves
-----------------------------------------------------------------------------
(***************************************************************************)
(* The refinement of SafeQuery.                                            *)
(***************************************************************************)

\* The statements a request may run depend on its policy's snapshot only.
LEMMA SameAllowed ==
  ASSUME snapshot' = snapshot
  PROVE  [r \in Request |-> {s \in ReadOnly \cap Analytical : Refs[s] \subseteq snapshot[r]}]'
           = [r \in Request |-> {s \in ReadOnly \cap Analytical : Refs[s] \subseteq snapshot[r]}]
  BY DEF Approved, StructurallyAccepted, PolicyAccepts

\* Outside a run no attempt is unfinished.
LEMMA NothingRunning ==
  ASSUME PipelineInv, NEW r \in Request, pc[r] \notin InFlight \cup {"answered"}
  PROVE  /\ \A a \in Attempt : ~Promise!Running(r, a)
         /\ attempt[r] = "initial" => Promise!Untouched(r)
         /\ attempt[r] = "repair" =>
              Promise!Correcting(r) /\ ran[r]["repair"] = None
         /\ Promise!Pending(r)
<1>. USE DEF PipelineInv, TypeOK, HistoryMatchesStage, Attempt
<1>1. \A a \in Attempt : ~Promise!Running(r, a)
  BY PipelineAssumption DEF Promise!Running, Results
<1>2. attempt[r] = "initial" => Promise!Untouched(r)
  BY DEF Promise!Untouched, Promise!Attempt
<1>3. attempt[r] = "repair" =>
        Promise!Correcting(r) /\ ran[r]["repair"] = None
  BY DEF Promise!Correcting, Results
<1>4. Promise!Pending(r)
  BY DEF Promise!Pending
<1>5. QED
  BY <1>1, <1>2, <1>3, <1>4

\* A statement in flight is the unfinished run of the current attempt.
LEMMA AttemptRunning ==
  ASSUME PipelineInv, NEW r \in Request, pc[r] \in InFlight
  PROVE  Promise!Running(r, attempt[r]) /\ Promise!Pending(r)
  BY DEF PipelineInv, HistoryMatchesStage, SqlMatchesStage, InFlight,
         Promise!Running, Promise!Pending

\* A step that leaves the history, the answers and the policies alone is a
\* stutter of SafeQuery.
LEMMA StutterStep ==
  ASSUME UNCHANGED <<ran, result, outcome, snapshot>>
  PROVE  UNCHANGED Promise!vars
  BY SameAllowed DEF Promise!vars

\* The end of a request between two statements answers it.
LEMMA FinishRefines ==
  ASSUME PipelineInv, NEW r \in Request,
         pc[r] \notin InFlight \cup {"answered"},
         NEW out \in (Exceptions \ {"QueryRepairError"})
                       \cup {"declined", "QueryRepairError"},
         out = "declined" => attempt[r] = "initial",
         out = "QueryRepairError" => attempt[r] = "repair",
         Finish(r, out),
         UNCHANGED <<snapshot, ran, result>>
  PROVE  Promise!Next
<1>1. Promise!AnswerWithoutRun(r)
  BY NothingRunning, SameAllowed
     DEF Promise!AnswerWithoutRun, Finish, Attempt, Promise!Attempt
<1>2. QED
  BY <1>1 DEF Promise!Next

\* The end of a statement together with its request answers it too.
LEMMA FinishRunRefines ==
  ASSUME PipelineInv, NEW r \in Request, pc[r] \in InFlight,
         NEW state \in Results, NEW out \in RunExceptions \cup {"rows"},
         out = "rows" <=> state = "rows",
         result' = [result EXCEPT ![r][attempt[r]] = state],
         Finish(r, out),
         UNCHANGED <<snapshot, ran>>
  PROVE  Promise!Next
<1>1. attempt[r] \in Promise!Attempt
  BY DEF PipelineInv, TypeOK, Attempt, Promise!Attempt
<1>2. CASE out = "rows"
  <2>1. Promise!AnswerRows(r, attempt[r])
    BY <1>2, AttemptRunning, SameAllowed DEF Promise!AnswerRows, Finish
  <2>2. QED
    BY <1>1, <2>1 DEF Promise!Next
<1>3. CASE out # "rows"
  <2>1. Promise!AnswerFailedRun(r, attempt[r])
    BY <1>3, AttemptRunning, SameAllowed DEF Promise!AnswerFailedRun, Finish
  <2>2. QED
    BY <1>1, <2>1 DEF Promise!Next
<1>4. QED
  BY <1>2, <1>3

\* A failed statement answers its request or calls for its correction.
LEMMA RunFailsRefines ==
  ASSUME PipelineInv, NEW r \in Request, pc[r] \in InFlight,
         NEW state \in Results \ {"rows"}, RunFails(r, state)
  PROVE  Promise!Next
<1>1. CASE /\ Classified(state) = "QueryExecutionError"
           /\ state \in REPAIR_ELIGIBLE_SQLSTATES
           /\ attempt[r] = "initial"
  <2>1. Promise!Correct(r)
    BY <1>1, AttemptRunning, SameAllowed
       DEF Promise!Correct, RunFails
  <2>2. QED
    BY <2>1 DEF Promise!Next
<1>2. CASE ~ /\ Classified(state) = "QueryExecutionError"
             /\ state \in REPAIR_ELIGIBLE_SQLSTATES
             /\ attempt[r] = "initial"
  BY <1>2, ClassifiedType, FinishRunRefines DEF RunFails, RunExceptions
<1>3. QED
  BY <1>1, <1>2

\* Handing a statement to the database runs it.
LEMMA SendRefines ==
  ASSUME PipelineInv, NEW r \in Request, Send(r)
  PROVE  Promise!Next
<1>1. /\ pc[r] = "send"
      /\ attempt[r] \in {"initial", "repair"}
  BY DEF Send, At, PipelineInv, TypeOK, Attempt
<1>2. /\ sql[r] \in ReadOnly \cap Analytical
      /\ Refs[sql[r]] \subseteq snapshot[r]
  BY <1>1 DEF PipelineInv, SqlMatchesStage, Approved, StructurallyAccepted,
              PolicyAccepts
<1>3. /\ IF attempt[r] = "initial" THEN Promise!Untouched(r)
           ELSE Promise!Correcting(r) /\ ran[r][attempt[r]] = None
      /\ Promise!Pending(r)
  BY <1>1, NothingRunning DEF InFlight
<1>4. Promise!Run(r, attempt[r])
  BY <1>2, <1>3, SameAllowed DEF Promise!Run, Send, localVars
<1>5. QED
  BY <1>1, <1>4 DEF Promise!Next, Promise!Attempt

\* Building the access policy fixes what the request may run.
LEMMA PolicyRefines ==
  ASSUME PipelineInv, NEW r \in Request, ReadColumns(r),
         names[r] \subseteq schema, purpose[r] = "policy"
  PROVE  Promise!Next
<1>1. /\ pc[r] = "columns"
      /\ attempt[r] = "initial"
      /\ snapshot' = [snapshot EXCEPT ![r] = names[r]]
      /\ snapshot \in [Request -> SUBSET Banking]
      /\ UNCHANGED <<ran, result, outcome>>
  BY DEF ReadColumns, At, PipelineInv, PurposeMatchesStage, historyVars, TypeOK
<1>2. Promise!Pending(r) /\ Promise!Untouched(r)
  BY <1>1, NothingRunning DEF InFlight
<1>. DEFINE Allowed(tables) ==
              {s \in ReadOnly \cap Analytical : Refs[s] \subseteq tables}
<1>3. [q \in Request |-> Allowed(snapshot[q])]'
        = [[q \in Request |-> Allowed(snapshot[q])]
             EXCEPT ![r] = Allowed(names[r])]
  BY <1>1
<1>4. Allowed(names[r]) \in SUBSET Statement
  BY PipelineAssumption
<1>5. Promise!FixPolicy(r)
  BY <1>1, <1>2, <1>3, <1>4 DEF Promise!FixPolicy
<1>6. QED
  BY <1>5 DEF Promise!Next

\* Whatever ends a request between its statements is an answer.
LEMMA EndRefines ==
  ASSUME PipelineInv, NEW r \in Request,
         \/ Compose(r) /\ settings # "ok"
         \/ PoolTimeout(r) \/ ConnectRefused(r)
         \/ ReadColumns(r) /\ ~(names[r] \subseteq schema)
         \/ IntrospectionFails(r)
         \/ ValidateQuestion(r) /\ Finish(r, "QuestionValidationError")
         \/ PromptFails(r)
         \/ ProviderDeclines(r) \/ ProviderFails(r) \/ ProviderTimeout(r)
         \/ Validate(r) /\ ~Approved(sql[r], snapshot[r])
         \/ BeginFails(r)
  PROVE  Promise!Next
<1>1. pc[r] \notin InFlight \cup {"answered"}
  BY DEF InFlight, At, Compose, PoolTimeout, ConnectRefused, ReadColumns,
         IntrospectionFails, ValidateQuestion, PromptFails, ProviderDeclines,
         ProviderFails, ProviderTimeout, Validate, BeginFails
<1>2. UNCHANGED <<snapshot, ran, result>>
  BY DEF historyVars, Compose, PoolTimeout, ConnectRefused, ReadColumns,
         IntrospectionFails, ValidateQuestion, PromptFails, ProviderDeclines,
         ProviderFails, ProviderTimeout, Validate, BeginFails, Finish
<1>3. \E out \in (Exceptions \ {"QueryRepairError"})
                   \cup {"declined", "QueryRepairError"} :
        /\ out = "declined" => attempt[r] = "initial"
        /\ out = "QueryRepairError" => attempt[r] = "repair"
        /\ Finish(r, out)
  <2>1. /\ settings \in {"ok", "DatabaseConfigurationError",
                         "GroqConfigurationError"}
        /\ attempt[r] \in {"initial", "repair"}
    BY DEF PipelineInv, TypeOK, Attempt
  <2>. USE <2>1, PipelineAssumption DEF Exceptions
  <2>2. CASE Compose(r) /\ settings # "ok"
    BY <2>2 DEF Compose
  <2>3. CASE PoolTimeout(r) \/ ConnectRefused(r)
    BY <2>3 DEF PoolTimeout, ConnectRefused, NoConnection
  <2>4. CASE ReadColumns(r) /\ ~(names[r] \subseteq schema)
    BY <2>4 DEF ReadColumns
  <2>5. CASE IntrospectionFails(r) \/ BeginFails(r)
    BY <2>5 DEF IntrospectionFails, BeginFails
  <2>6. CASE ValidateQuestion(r) /\ Finish(r, "QuestionValidationError")
    BY <2>6
  <2>7. CASE PromptFails(r)
    BY <2>7 DEF PromptFails
  <2>8. CASE ProviderDeclines(r)
    BY <2>8 DEF ProviderDeclines
  <2>9. CASE ProviderFails(r)
    BY <2>9 DEF ProviderFails
  <2>10. CASE ProviderTimeout(r)
    BY <2>10 DEF ProviderTimeout
  <2>11. CASE Validate(r) /\ ~Approved(sql[r], snapshot[r])
    BY <2>11 DEF Validate
  <2>12. QED
    BY <2>2, <2>3, <2>4, <2>5, <2>6, <2>7, <2>8, <2>9, <2>10, <2>11
<1>4. QED
  BY <1>1, <1>2, <1>3, FinishRefines

\* And whatever ends a statement ends its request or begins its repair.
LEMMA RunRefines ==
  ASSUME PipelineInv, NEW r \in Request,
         \/ UndefinedTable(r) \/ InsufficientPrivilege(r)
         \/ StatementError(r) \/ StatementTimeout(r) \/ ConnectionLost(r)
         \/ NormalizationFails(r) \/ Commit(r)
  PROVE  Promise!Next
<1>. USE PipelineAssumption DEF At, Results, Lost, InFlight
<1>1. CASE UndefinedTable(r) \/ InsufficientPrivilege(r)
  BY <1>1, RunFailsRefines DEF UndefinedTable, InsufficientPrivilege
<1>2. CASE StatementError(r)
  BY <1>2, RunFailsRefines DEF StatementError
<1>3. CASE StatementTimeout(r) \/ NormalizationFails(r)
  BY <1>3, RunFailsRefines DEF StatementTimeout, NormalizationFails
<1>4. CASE ConnectionLost(r)
  BY <1>4, RunFailsRefines DEF ConnectionLost
<1>5. CASE Commit(r)
  BY <1>5, FinishRunRefines DEF Commit
<1>6. QED
  BY <1>1, <1>2, <1>3, <1>4, <1>5

\* The pipeline implements SafeQuery: initial states map to initial states,
\* and every step to a step or a stutter.
THEOREM Refinement == Spec => ImplementsSafeQuery
<1>1. Init => Promise!Init
  BY PipelineAssumption DEF Init, Promise!Init, Attempt, Promise!Attempt
<1>2. ASSUME PipelineInv, NEW r \in Request, Serve(r) \/ Peer(r)
      PROVE  Promise!Next \/ UNCHANGED Promise!vars
  <2>1. CASE ReadColumns(r) /\ names[r] \subseteq schema
    <3>1. CASE purpose[r] = "policy"
      BY <1>2, <2>1, <3>1, PolicyRefines
    <3>2. CASE purpose[r] # "policy"
      BY <2>1, <3>2, StutterStep DEF ReadColumns, historyVars
    <3>3. QED
      BY <3>1, <3>2
  <2>2. CASE \/ Compose(r) /\ settings = "ok"
             \/ ValidateQuestion(r) /\ ~Finish(r, "QuestionValidationError")
             \/ Validate(r) /\ Approved(sql[r], snapshot[r])
             \/ Checkout(r) \/ ListTables(r) \/ BuildPrompt(r)
             \/ ProviderGenerates(r) \/ BeginTransaction(r) \/ Plan(r)
             \/ Fetch(r)
    BY <2>2, StutterStep
       DEF historyVars, localVars, Compose, ValidateQuestion, Validate,
           Checkout, ListTables, BuildPrompt, ProviderGenerates,
           BeginTransaction, Plan, Fetch
  <2>3. QED
    BY <1>2, <2>1, <2>2, EndRefines, RunRefines, SendRefines DEF Serve, Peer
<1>3. PipelineInv /\ [Next]_vars => [Promise!Next]_(Promise!vars)
  <2>. SUFFICES ASSUME PipelineInv, [Next]_vars
                PROVE  Promise!Next \/ UNCHANGED Promise!vars
    OBVIOUS
  <2>1. CASE \E r \in Request : Serve(r) \/ Peer(r)
    BY <1>2, <2>1
  <2>2. CASE Owner \/ UNCHANGED vars
    BY <2>2, StutterStep
       DEF Owner, Upgrade, Downgrade, Provision, vars, localVars, historyVars
  <2>3. QED
    BY <2>1, <2>2 DEF Next
<1>4. QED
  BY <1>1, <1>3, PipelineInvariant, PTL
     DEF Spec, ImplementsSafeQuery, Promise!Spec
=============================================================================
