--------------------------- MODULE QueryPipeline ---------------------------
(***************************************************************************)
(* The path of POST /api/v1/query: concurrent requests, each served by a   *)
(* thread of the FastAPI process, against the language-model provider, the *)
(* process-wide connection pool and the banking database.                  *)
(*                                                                         *)
(* A request introspects the schema for its access policy, introspects it  *)
(* again for the prompt, asks the provider for SQL, validates the SQL and  *)
(* runs it in a read-only transaction; one eligible database error is      *)
(* answered with one repair, which goes through all of it again except the *)
(* policy's introspection.  The owner of the database may meanwhile        *)
(* migrate the schema and provision the reader role.                       *)
(*                                                                         *)
(* A statement is a member of a set: what the two validators decide about  *)
(* it are the constants ReadOnly, Analytical and Refs.  The database's     *)
(* behaviour is what PostgreSQL may answer, by SQLSTATE.                   *)
(***************************************************************************)
EXTENDS Integers, FiniteSets

CONSTANTS
  Request,         \* the requests (each served once, by one thread)
  Connection,      \* the slots of the SQLAlchemy connection pool
  Statement,       \* the SQL texts the provider may generate
  ReadOnly,        \* those the structural validator accepts
  Analytical,      \* those that call approved functions only
  Relation,        \* the relations a statement may name
  Banking,         \* those the migration creates in the banking schema
  Refs,            \* the relations each statement refers to
  StatementErrors, \* SQLSTATEs of the statement's own run-time errors
  ProviderErrors,  \* the provider's failures other than its timeout
  None             \* no statement, no connection, no result

VARIABLES
  settings,  \* "ok", or the exception every request's composition raises
  schema,    \* the relations that exist in the banking schema
  granted,   \* the reader role has been provisioned on that schema
  free,      \* the pool's idle connections
  conn,      \* conn[r]: the connection r holds, or None
  pc,        \* pc[r]: where r's thread is
  purpose,   \* purpose[r]: what r's next connection is for
  attempt,   \* attempt[r]: the generation r is at
  names,     \* names[r]: the table names r's introspection has listed
  snapshot,  \* snapshot[r]: the relations of r's access policy
  sql,       \* sql[r]: the statement r is validating or running, or None
  ran,       \* ran[r][a]: the statement r sent to the database in attempt a
  result,    \* result[r][a]: how that statement ended
  outcome    \* outcome[r]: "pending", "rows", "declined" or an exception

dbVars      == <<schema, granted>>
poolVars    == <<free, conn>>
controlVars == <<pc, purpose, attempt>>
localVars   == <<names, snapshot, sql>>
historyVars == <<ran, result>>
vars == <<settings, dbVars, poolVars, controlVars, localVars, historyVars,
          outcome>>

Attempt == {"initial", "repair"}
Purpose == {"policy", "context", "execute"}
Stage == {"idle", "connect", "list", "columns", "question", "prompt",
          "provider", "validate", "begin", "send", "running", "fetch",
          "commit", "answered"}
Lost == {"08006", "57P01"}
Results == {"rows", "42P01", "42501", "57014", "unserializable"}
             \cup Lost \cup StatementErrors

ASSUME PipelineAssumption ==
  /\ ReadOnly \subseteq Statement
  /\ Analytical \subseteq Statement
  /\ Banking \subseteq Relation
  /\ Refs \in [Statement -> SUBSET Relation]
  /\ StatementErrors \cap
       {"rows", "42P01", "57014", "08006", "57P01", "unserializable"} = {}
  /\ ProviderErrors \subseteq
       {"GroqRateLimitError", "GroqUnavailableError", "GroqRequestError",
        "InvalidStructuredResponseError"}
  /\ None \notin Statement \cup Connection \cup Results

(***************************************************************************)
(* Exceptions and what the code makes of them.                             *)
(***************************************************************************)

\* Mutant: missing privileges are taken for a correctable error.
EligibleWithPrivileges ==
  {"21000", "22007", "22008", "22012", "22P02", "42501", "42601", "42703",
   "42803", "42804", "42846", "42883", "42P01", "42P10"}

REPAIR_ELIGIBLE_SQLSTATES ==
  {"21000", "22007", "22008", "22012", "22P02", "42601", "42703", "42803",
   "42804", "42846", "42883", "42P01", "42P10"}

\* Mutant: a canceled statement is not told from a rejected one.
ClassifiedWithoutTimeout(state) ==
  CASE state = "08006"          -> "QueryDatabaseError"
    [] state = "unserializable" -> "QueryResultNormalizationError"
    [] OTHER                    -> "QueryExecutionError"

\* The exception the executor raises once the statement has been sent.
Classified(state) ==
  CASE state = "57014"          -> "QueryTimeoutError"
    [] state = "08006"          -> "QueryDatabaseError"
    [] state = "unserializable" -> "QueryResultNormalizationError"
    [] OTHER                    -> "QueryExecutionError"

Exceptions ==
  {"DatabaseConfigurationError", "GroqConfigurationError",
   "SchemaIntrospectionError", "QuestionValidationError",
   "BankingContextError", "PromptResourceError", "GroqTimeoutError",
   "QuerySafetyError", "QueryRepairError", "QueryTimeoutError",
   "QueryDatabaseError", "QueryExecutionError",
   "QueryResultNormalizationError"} \cup ProviderErrors

Outcomes == {"pending", "rows", "declined"} \cup Exceptions

\* The error category of the HTTP response; an exception no handler names
\* becomes a bare 500 response without a category.
Category(exc) ==
  CASE exc = "QuestionValidationError"  -> "invalid_question"
    [] exc = "GroqTimeoutError"         -> "provider_timeout"
    [] exc = "GroqRateLimitError"       -> "provider_rate_limit"
    [] exc = "GroqUnavailableError"     -> "provider_unavailable"
    [] exc = "GroqRequestError"         -> "provider_request"
    [] exc = "GroqConfigurationError"   -> "provider_configuration"
    [] exc = "InvalidStructuredResponseError" -> "invalid_generation_protocol"
    [] exc = "QuerySafetyError"         -> "safety_rejection"
    [] exc = "QueryTimeoutError"        -> "database_timeout"
    [] exc = "QueryExecutionError"      -> "query_execution_error"
    [] exc = "QueryRepairError"         -> "query_repair_failed"
    [] exc \in {"QueryDatabaseError", "SchemaIntrospectionError"}
                                        -> "database_failure"
    [] exc \in {"BankingContextError", "PromptResourceError"}
                                        -> "context_failure"
    [] OTHER                            -> "none"

(***************************************************************************)
(* The validators' verdicts on a statement.                                *)
(***************************************************************************)

\* Mutant: mutations are let through.
AnyStructureAccepted(s) == TRUE

StructurallyAccepted(s) == s \in ReadOnly

\* Mutants: the functions, or the relations, are not looked at.
AnyFunctionAccepted(s, tables) == Refs[s] \subseteq tables
AnyTableAccepted(s, tables) == s \in Analytical

PolicyAccepts(s, tables) == s \in Analytical /\ Refs[s] \subseteq tables

Approved(s, tables) == StructurallyAccepted(s) /\ PolicyAccepts(s, tables)

(***************************************************************************)
(* What PostgreSQL makes of a statement's names: relations outside the     *)
(* banking schema always exist; those inside it do while it is migrated,   *)
(* and the reader may read them once it is provisioned.                    *)
(***************************************************************************)

BankingRefs(s) == Refs[s] \cap Banking

Readable(s) == BankingRefs(s) = {} \/ granted

Resolves(s) == BankingRefs(s) \subseteq schema

(***************************************************************************)
(* Pieces of the actions.                                                  *)
(***************************************************************************)

At(r, stage) == pc[r] = stage

Goto(r, stage) == pc' = [pc EXCEPT ![r] = stage]

\* Mutants: the connection is forgotten, or cleared before it is returned.
ReleaseForgotten(r) == conn' = [conn EXCEPT ![r] = None] /\ UNCHANGED free
ReleaseCleared(r) ==
  /\ conn' = [conn EXCEPT ![r] = None]
  /\ free' = free \cup {conn'[r]}

Release(r) ==
  /\ free' = free \cup {conn[r]}
  /\ conn' = [conn EXCEPT ![r] = None]

\* r's handler returns or raises: its locals are gone.
Finish(r, out) ==
  /\ Goto(r, "answered")
  /\ outcome' = [outcome EXCEPT ![r] = out]
  /\ sql' = [sql EXCEPT ![r] = None]
  /\ names' = [names EXCEPT ![r] = {}]

Connect(r, for) ==
  /\ Goto(r, "connect")
  /\ purpose' = [purpose EXCEPT ![r] = for]

Init ==
  /\ settings \in {"ok", "DatabaseConfigurationError",
                   "GroqConfigurationError"}
  /\ schema \in {{}, Banking}
  /\ granted \in BOOLEAN
  /\ granted => schema = Banking
  /\ free = Connection
  /\ conn = [r \in Request |-> None]
  /\ pc = [r \in Request |-> "idle"]
  /\ purpose = [r \in Request |-> "policy"]
  /\ attempt = [r \in Request |-> "initial"]
  /\ names = [r \in Request |-> {}]
  /\ snapshot = [r \in Request |-> {}]
  /\ sql = [r \in Request |-> None]
  /\ ran = [r \in Request |-> [a \in Attempt |-> None]]
  /\ result = [r \in Request |-> [a \in Attempt |-> None]]
  /\ outcome = [r \in Request |-> "pending"]

(***************************************************************************)
(* The request's dependencies: the engine, the provider client, and then   *)
(* the access policy's introspection.                                      *)
(***************************************************************************)

Compose(r) ==
  /\ At(r, "idle")
  /\ \/ /\ settings = "ok"
        /\ Connect(r, "policy")
        /\ UNCHANGED <<outcome, sql, names>>
     \/ /\ settings # "ok"
        /\ Finish(r, settings)
        /\ UNCHANGED purpose
  /\ UNCHANGED <<settings, dbVars, poolVars, attempt, snapshot, historyVars>>

(***************************************************************************)
(* The pool: engine.connect() takes an idle connection, or waits for one   *)
(* until the pool's timeout; opening or pinging it may fail.               *)
(***************************************************************************)

Checkout(r) ==
  /\ At(r, "connect")
  /\ \E c \in free :
       /\ free' = free \ {c}
       /\ conn' = [conn EXCEPT ![r] = c]
  /\ Goto(r, IF purpose[r] = "execute" THEN "begin" ELSE "list")
  /\ UNCHANGED <<settings, dbVars, purpose, attempt, localVars, historyVars,
                 outcome>>

NoConnection(r) ==
  Finish(r, IF purpose[r] = "execute" THEN "QueryDatabaseError"
                                      ELSE "SchemaIntrospectionError")

PoolTimeout(r) ==
  /\ At(r, "connect")
  /\ free = {}
  /\ NoConnection(r)
  /\ UNCHANGED <<settings, dbVars, poolVars, purpose, attempt, snapshot,
                 historyVars>>

ConnectRefused(r) ==
  /\ At(r, "connect")
  /\ free # {}
  /\ NoConnection(r)
  /\ UNCHANGED <<settings, dbVars, poolVars, purpose, attempt, snapshot,
                 historyVars>>

(***************************************************************************)
(* Introspection: the table names first, then the columns and keys of each *)
(* one, in separate catalog queries of one READ COMMITTED transaction.     *)
(***************************************************************************)

ListTables(r) ==
  /\ At(r, "list")
  /\ names' = [names EXCEPT ![r] = schema]
  /\ Goto(r, "columns")
  /\ UNCHANGED <<settings, dbVars, poolVars, purpose, attempt, snapshot, sql,
                 historyVars, outcome>>

ReadColumns(r) ==
  /\ At(r, "columns")
  /\ Release(r)
  /\ \/ /\ names[r] \subseteq schema
        /\ names' = [names EXCEPT ![r] = {}]
        /\ IF purpose[r] = "policy"
             THEN /\ snapshot' = [snapshot EXCEPT ![r] = names[r]]
                  /\ Goto(r, "question")
             ELSE /\ Goto(r, "prompt")
                  /\ UNCHANGED snapshot
        /\ UNCHANGED <<outcome, sql>>
     \/ /\ ~(names[r] \subseteq schema)    \* NoSuchTableError
        /\ Finish(r, "SchemaIntrospectionError")
        /\ UNCHANGED snapshot
  /\ UNCHANGED <<settings, dbVars, purpose, attempt, historyVars>>

IntrospectionFails(r) ==
  /\ pc[r] \in {"list", "columns"}
  /\ Release(r)
  /\ Finish(r, "SchemaIntrospectionError")
  /\ UNCHANGED <<settings, dbVars, purpose, attempt, snapshot, historyVars>>

(***************************************************************************)
(* Generation: the question, the context, the prompt, the provider call.   *)
(***************************************************************************)

ValidateQuestion(r) ==
  /\ At(r, "question")
  /\ \/ /\ Connect(r, "context")
        /\ UNCHANGED <<outcome, sql, names>>
     \/ /\ Finish(r, "QuestionValidationError")
        /\ UNCHANGED purpose
  /\ UNCHANGED <<settings, dbVars, poolVars, attempt, snapshot, historyVars>>

BuildPrompt(r) ==
  /\ At(r, "prompt")
  /\ Goto(r, "provider")
  /\ UNCHANGED <<settings, dbVars, poolVars, purpose, attempt, localVars,
                 historyVars, outcome>>

PromptFails(r) ==
  /\ At(r, "prompt")
  /\ \E exc \in {"BankingContextError", "PromptResourceError"} :
       Finish(r, exc)
  /\ UNCHANGED <<settings, dbVars, poolVars, purpose, attempt, snapshot,
                 historyVars>>

ProviderGenerates(r) ==
  /\ At(r, "provider")
  /\ \E s \in Statement : sql' = [sql EXCEPT ![r] = s]
  /\ Goto(r, "validate")
  /\ UNCHANGED <<settings, dbVars, poolVars, purpose, attempt, names,
                 snapshot, historyVars, outcome>>

\* The model answers "unanswerable" or "ambiguous", with no SQL.
ProviderDeclines(r) ==
  /\ At(r, "provider")
  /\ Finish(r, IF attempt[r] = "initial" THEN "declined"
                                         ELSE "QueryRepairError")
  /\ UNCHANGED <<settings, dbVars, poolVars, purpose, attempt, snapshot,
                 historyVars>>

ProviderFails(r) ==
  /\ At(r, "provider")
  /\ \E exc \in ProviderErrors : Finish(r, exc)
  /\ UNCHANGED <<settings, dbVars, poolVars, purpose, attempt, snapshot,
                 historyVars>>

\* Mutant: the provider client is built without a timeout.
ProviderWaitsForever(r) == FALSE

ProviderTimeout(r) ==
  /\ At(r, "provider")
  /\ Finish(r, "GroqTimeoutError")
  /\ UNCHANGED <<settings, dbVars, poolVars, purpose, attempt, snapshot,
                 historyVars>>

(***************************************************************************)
(* Validation of the generated statement, initial or repaired, against the *)
(* policy built when the request began.                                    *)
(***************************************************************************)

Validate(r) ==
  /\ At(r, "validate")
  /\ \/ /\ Approved(sql[r], snapshot[r])
        /\ Connect(r, "execute")
        /\ UNCHANGED <<outcome, sql, names>>
     \/ /\ ~Approved(sql[r], snapshot[r])
        /\ Finish(r, "QuerySafetyError")
        /\ UNCHANGED purpose
  /\ UNCHANGED <<settings, dbVars, poolVars, attempt, snapshot, historyVars>>

(***************************************************************************)
(* Execution.                                                              *)
(***************************************************************************)

\* SET TRANSACTION READ ONLY, statement_timeout and search_path.
BeginTransaction(r) ==
  /\ At(r, "begin")
  /\ Goto(r, "send")
  /\ UNCHANGED <<settings, dbVars, poolVars, purpose, attempt, localVars,
                 historyVars, outcome>>

BeginFails(r) ==
  /\ At(r, "begin")
  /\ Release(r)
  /\ Finish(r, "QueryDatabaseError")
  /\ UNCHANGED <<settings, dbVars, purpose, attempt, snapshot, historyVars>>

Send(r) ==
  /\ At(r, "send")
  /\ ran' = [ran EXCEPT ![r][attempt[r]] = sql[r]]
  /\ Goto(r, "running")
  /\ UNCHANGED <<settings, dbVars, poolVars, purpose, attempt, localVars,
                 result, outcome>>

\* r's statement ended with an error.  The connection goes back to the pool
\* and the exception is classified; the first eligible one starts the repair.
RunFails(r, state) ==
  /\ Release(r)
  /\ result' = [result EXCEPT ![r][attempt[r]] = state]
  /\ IF /\ Classified(state) = "QueryExecutionError"
        /\ state \in REPAIR_ELIGIBLE_SQLSTATES
        /\ attempt[r] = "initial"
       THEN /\ attempt' = [attempt EXCEPT ![r] = "repair"]
            /\ Connect(r, "context")
            /\ sql' = [sql EXCEPT ![r] = None]
            /\ UNCHANGED <<outcome, names>>
       ELSE /\ Finish(r, Classified(state))
            /\ UNCHANGED <<attempt, purpose>>
  /\ UNCHANGED <<settings, dbVars, snapshot, ran>>

\* The server finds the statement's relations and locks them.
Plan(r) ==
  /\ At(r, "running")
  /\ Resolves(sql[r])
  /\ Readable(sql[r])
  /\ Goto(r, "fetch")
  /\ UNCHANGED <<settings, dbVars, poolVars, purpose, attempt, localVars,
                 historyVars, outcome>>

\* A relation is missing; an unqualified name in a schema the reader may not
\* use is skipped by the search path and missing too.
UndefinedTable(r) ==
  /\ At(r, "running")
  /\ ~(Resolves(sql[r]) /\ Readable(sql[r]))
  /\ RunFails(r, "42P01")

InsufficientPrivilege(r) ==
  /\ At(r, "running")
  /\ Resolves(sql[r])
  /\ ~Readable(sql[r])
  /\ RunFails(r, "42501")

StatementError(r) ==
  /\ pc[r] \in {"running", "fetch"}
  /\ \E state \in StatementErrors : RunFails(r, state)

StatementTimeout(r) ==
  /\ pc[r] \in {"running", "fetch"}
  /\ RunFails(r, "57014")

\* The server goes away (08xxx or no SQLSTATE) or is shut down (57P01).
ConnectionLost(r) ==
  /\ pc[r] \in {"running", "fetch", "commit"}
  /\ \E state \in Lost : RunFails(r, state)

Fetch(r) ==
  /\ At(r, "fetch")
  /\ Goto(r, "commit")
  /\ UNCHANGED <<settings, dbVars, poolVars, purpose, attempt, localVars,
                 historyVars, outcome>>

\* A fetched value has no JSON form.
NormalizationFails(r) ==
  /\ At(r, "fetch")
  /\ RunFails(r, "unserializable")

Commit(r) ==
  /\ At(r, "commit")
  /\ Release(r)
  /\ result' = [result EXCEPT ![r][attempt[r]] = "rows"]
  /\ Finish(r, "rows")
  /\ UNCHANGED <<settings, dbVars, purpose, attempt, snapshot, ran>>

(***************************************************************************)
(* The owner of the database.  DROP waits for the locks of a statement     *)
(* that is reading the relations.                                          *)
(***************************************************************************)

Upgrade ==
  /\ schema = {}
  /\ schema' = Banking
  /\ UNCHANGED <<settings, granted, poolVars, controlVars, localVars,
                 historyVars, outcome>>

Downgrade ==
  /\ schema # {}
  /\ \A r \in Request :
       pc[r] \in {"fetch", "commit"} => BankingRefs(sql[r]) = {}
  /\ schema' = {}
  /\ granted' = FALSE
  /\ UNCHANGED <<settings, poolVars, controlVars, localVars, historyVars,
                 outcome>>

Provision ==
  /\ schema # {}
  /\ ~granted
  /\ granted' = TRUE
  /\ UNCHANGED <<settings, schema, poolVars, controlVars, localVars,
                 historyVars, outcome>>

Owner == Upgrade \/ Downgrade \/ Provision

(***************************************************************************)
(* Serve(r) is what r's own thread and the configured timeouts do; Peer(r) *)
(* is what the provider and the database may do to it instead.             *)
(***************************************************************************)

Serve(r) ==
  \/ Checkout(r) \/ PoolTimeout(r)
  \/ ListTables(r) \/ ReadColumns(r)
  \/ ValidateQuestion(r) \/ BuildPrompt(r) \/ ProviderTimeout(r)
  \/ Validate(r) \/ BeginTransaction(r) \/ Send(r)
  \/ StatementTimeout(r) \/ Commit(r)

Peer(r) ==
  \/ Compose(r)
  \/ ConnectRefused(r) \/ IntrospectionFails(r) \/ PromptFails(r)
  \/ ProviderGenerates(r) \/ ProviderDeclines(r) \/ ProviderFails(r)
  \/ BeginFails(r) \/ Plan(r) \/ UndefinedTable(r)
  \/ InsufficientPrivilege(r) \/ StatementError(r) \/ ConnectionLost(r)
  \/ Fetch(r) \/ NormalizationFails(r)

Next ==
  \/ \E r \in Request : Serve(r) \/ Peer(r)
  \/ Owner

Spec == Init /\ [][Next]_vars

FairSpec == Spec /\ \A r \in Request : WF_vars(Serve(r))
-----------------------------------------------------------------------------
(***************************************************************************)
(* Properties.                                                             *)
(***************************************************************************)

\* The type invariant: every variable has the values its comment names.
TypeOK ==
  /\ settings \in {"ok", "DatabaseConfigurationError",
                   "GroqConfigurationError"}
  /\ schema \in SUBSET Banking
  /\ granted \in BOOLEAN
  /\ free \in SUBSET Connection
  /\ conn \in [Request -> Connection \cup {None}]
  /\ pc \in [Request -> Stage]
  /\ purpose \in [Request -> Purpose]
  /\ attempt \in [Request -> Attempt]
  /\ names \in [Request -> SUBSET Banking]
  /\ snapshot \in [Request -> SUBSET Banking]
  /\ sql \in [Request -> Statement \cup {None}]
  /\ ran \in [Request -> [Attempt -> Statement \cup {None}]]
  /\ result \in [Request -> [Attempt -> Results \cup {None}]]
  /\ outcome \in [Request -> Outcomes]

\* Every statement the database is given, the repaired one included, passed
\* the structural validator and the request's own access policy
\* (SafeQueryService._validate_and_execute).
OnlyApprovedSQLRuns ==
  \A r \in Request, a \in Attempt :
    ran[r][a] # None =>
      /\ ran[r][a] \in ReadOnly \cap Analytical
      /\ Refs[ran[r][a]] \subseteq snapshot[r]

\* The repair exists only after the first statement reached the database and
\* failed there for a reason of its own: never after a safety rejection, a
\* timeout, missing privileges, a lost connection or rows that were fetched
\* (SafeQueryService.query and REPAIR_ELIGIBLE_SQLSTATES).
RepairFollowsCorrectableError ==
  \A r \in Request :
    /\ ran[r]["repair"] # None => attempt[r] = "repair"
    /\ attempt[r] = "repair" =>
         /\ ran[r]["initial"] # None
         /\ result[r]["initial"] \in {"42P01"} \cup (StatementErrors \ {"42501"})

Holding == {"list", "columns", "begin", "send", "running", "fetch", "commit"}

\* No error path leaks a connection, none is lent twice, and a thread that
\* waits for the pool or for the provider holds none, so that a small pool
\* cannot lock its users out (every "with engine.connect()" of the request).
PoolAccounting ==
  /\ \A r \in Request : conn[r] # None <=> pc[r] \in Holding
  /\ \A r \in Request : conn[r] \notin free
  /\ \A r, q \in Request : r # q /\ conn[r] # None => conn[r] # conn[q]
  /\ \A c \in Connection : c \in free \/ \E r \in Request : conn[r] = c

RunExceptions ==
  {"QueryTimeoutError", "QueryDatabaseError", "QueryExecutionError",
   "QueryResultNormalizationError"}

\* The answer a request is given tells what the database did for it: rows
\* come from the last statement; a timeout, a value without a JSON form and a
\* rejection by the database from a statement that ended so; a database
\* failure from a connection that was lost, or from a statement that was not
\* sent; and any other error, a failed introspection or generation or a
\* refusal, leaves the statement it was about unsent
\* (query_banking_data's handlers over the exceptions of the service).
AnswerMatchesRuns ==
  \A r \in Request :
    LET a == attempt[r] IN
    /\ outcome[r] = "rows" => result[r][a] = "rows"
    /\ outcome[r] = "declined" => ran[r]["initial"] = None
    /\ outcome[r] = "QueryRepairError" => a = "repair"
    /\ outcome[r] = "QueryTimeoutError" => result[r][a] = "57014"
    /\ outcome[r] = "QueryResultNormalizationError" =>
         result[r][a] = "unserializable"
    /\ outcome[r] = "QueryExecutionError" =>
         /\ ran[r][a] # None
         /\ result[r][a] \in {"42P01", "42501", "57P01"} \cup StatementErrors
         /\ a = "initial" => result[r][a] \notin REPAIR_ELIGIBLE_SQLSTATES
    /\ outcome[r] = "QueryDatabaseError" =>
         ran[r][a] = None \/ result[r][a] = "08006"
    /\ outcome[r] \notin {"pending", "rows"} \cup RunExceptions =>
         ran[r][a] = None

\* An approved statement is told "undefined table" only if the schema has
\* moved since the policy was built, or it was migrated again and the reader
\* not provisioned since: otherwise the policy would have refused the name
\* (BankingSQLAccessPolicy.from_engine and _validate_physical_tables).
ApprovedSQLResolves ==
  [][\A r \in Request, a \in Attempt :
       result[r][a] # "42P01" /\ result'[r][a] = "42P01"
         => schema # snapshot[r] \/ (schema # {} /\ ~granted)]_vars

\* A request that has arrived is answered, whatever the provider does and
\* however many requests share the pool: the pool's, the provider client's
\* and the statement's timeouts bound every wait.
EveryRequestAnswered ==
  \A r \in Request : pc[r] # "idle" ~> pc[r] = "answered"

Promise == INSTANCE SafeQuery WITH
  allowed <- [r \in Request |->
                {s \in ReadOnly \cap Analytical : Refs[s] \subseteq snapshot[r]}],
  Result <- Results,
  Correctable <- REPAIR_ELIGIBLE_SQLSTATES \cap Results,
  RunExceptions <- RunExceptions,
  OtherExceptions <- Exceptions \ {"QueryRepairError"}

\* The pipeline implements SafeQuery: at most two approved statements per
\* request, the second only after a correctable error, one final answer.
ImplementsSafeQuery == Promise!Spec

(***************************************************************************)
(* The inductive invariant behind the properties above.                    *)
(***************************************************************************)

InFlight == {"running", "fetch", "commit"}

\* What r's thread is connecting for at each stage.
PurposeMatchesStage(r) ==
  /\ pc[r] \in {"idle", "question"} => purpose[r] = "policy"
  /\ pc[r] \in {"list", "columns"} => purpose[r] # "execute"
  /\ pc[r] \in {"prompt", "provider", "validate"} => purpose[r] = "context"
  /\ pc[r] \in {"begin", "send"} \cup InFlight => purpose[r] = "execute"
  /\ purpose[r] = "policy" => attempt[r] = "initial"

\* What the history says of the current attempt and of the one before it.
HistoryMatchesStage(r) ==
  /\ outcome[r] = "pending" <=> pc[r] # "answered"
  /\ pc[r] \notin InFlight \cup {"answered"} =>
       ran[r][attempt[r]] = None /\ result[r][attempt[r]] = None
  /\ pc[r] \in InFlight =>
       ran[r][attempt[r]] = sql[r] /\ result[r][attempt[r]] = None
  /\ \A a \in Attempt : ran[r][a] = None => result[r][a] = None
  /\ attempt[r] = "initial" => ran[r]["repair"] = None
  /\ purpose[r] = "policy" => ran[r]["initial"] = None
  /\ attempt[r] = "repair" =>
       /\ ran[r]["initial"] # None
       /\ result[r]["initial"] \in REPAIR_ELIGIBLE_SQLSTATES
       /\ result[r]["initial"] \in {"42P01"} \cup (StatementErrors \ {"42501"})

\* The statement r is validating, and the one it was allowed to run.
SqlMatchesStage(r) ==
  /\ pc[r] = "validate" => sql[r] # None
  /\ (pc[r] = "connect" /\ purpose[r] = "execute")
       \/ pc[r] \in {"begin", "send"} \cup InFlight
         => sql[r] # None /\ Approved(sql[r], snapshot[r])

PipelineInv ==
  /\ TypeOK
  /\ PoolAccounting
  /\ OnlyApprovedSQLRuns
  /\ AnswerMatchesRuns
  /\ \A r \in Request : PurposeMatchesStage(r)
  /\ \A r \in Request : HistoryMatchesStage(r)
  /\ \A r \in Request : SqlMatchesStage(r)

(***************************************************************************)
(* What the repository says of the program and the code does not do.       *)
(***************************************************************************)

\* The screen for a safety rejection says that no query was executed
\* (frontend/ux.py); the rejected statement may be the repair of one that
\* was.
SafetyRejectionRanNothing ==
  \A r \in Request :
    Category(outcome[r]) = "safety_rejection" =>
      \A a \in Attempt : ran[r][a] = None

=============================================================================
