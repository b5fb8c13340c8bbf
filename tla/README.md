# Banking AI SQL Analyst: specifications

TLA+ modules, TLC models and TLAPS proofs of the program in `src/`: a service
that turns a question about a banking data set into SQL with a language model,
validates the SQL, runs it read-only in PostgreSQL and, once, has a failed
statement repaired; the command line that evaluates the language models; and
the commands that audit, clean, load and validate the data and provision the role
that reads it; and the page on which the questions are asked.

Contents: the system · the modules · the runs · fairness · the proofs ·
disagreements found · what is not modelled · the plan.

## The system

| Component | State it keeps | Operations | Hard behaviours |
|---|---|---|---|
| Query service (`query/service.py`, `ai/service.py`, `api/`) | per request: policy snapshot, attempt, SQL | compose, ask, validate, execute, repair once, answer | threads share a pool; the schema moves between snapshot and use; which exception ends up as which answer |
| Executor (`db/query_executor.py`) | a pooled connection, a read-only transaction | check out, set timeouts, run, fetch, normalise, commit | every failure has a stage; connections must come back; SQLSTATE classification |
| Introspection (`db/schema.py`) | none | list tables, read columns | two catalog reads, no snapshot |
| Validators (`safety/`) | the policy snapshot | accept or reject | the repaired statement must pass too |
| Provider client, prompts (`ai/`) | none | generate, repair | silence, rate limits, malformed answers |
| Engine and settings (`db/engine.py`, `core/config.py`, `main.py`) | a cached engine with its pool | create, dispose | `lru_cache` without a lock |
| Migration, reader role (`migrations/`, `banking_data/role_management.py`) | the schema, the reader's attributes and grants | upgrade, downgrade, provision | while requests are in flight; while others administer the same database |
| Evaluation (`evaluation/runner.py`, `persistence.py`, `__main__.py`) | an artifact file, two reports, a recorder | start, resume, run a case, append, report | kills, interruptions, two processes on one path |
| Reporting, model comparison | none (two artifacts as input) | count, check conditions, recommend | different denominators, near ties |
| Result comparison (`evaluation/comparison.py`) | none | compare two results | multisets with a tolerance |
| Cleaning (`banking_data/cleaning.py`) | the processed directory, a staging directory | hash, clean, verify, replace | raw files edited meanwhile; stops half-way through the replacement; rules that depend on each other's order |
| Loading (`banking_data/loading.py`) | the tables, one transaction | check, delete, verify files, insert, commit | several loaders, which wait for each other, also in circles; the directory replaced under them |
| Integrity (`banking_data/integrity.py`) | none | read and compare | reads are not one snapshot |
| Audit (`banking_data/audit.py`) | none | read and report | reads cells differently from the cleaning |
| Frontend (`frontend/`) | a browser session's answer, error, examples, recent questions | select, submit, render | a run of its script is superseded by the next event; its timeout is shorter than the backend's work |

The interactions: the frontend posts a question to the query route, which
composes a query service over the process-wide engine; the service calls the
provider client, the validators and the executor. The evaluation command builds
the same service in its own process and drives it case by case, with a second
executor for the reference SQL, whose result it compares. Cleaning and loading
meet in the directory of processed data only, loading and the query service in
the database only; the integrity command reads both. What makes each component correct is the list of its
properties under "The runs"; what endangers it is the list of hazards in
`PROJECT.json`, each at its line.

## The modules

```
SafeQuery            what a request is promised     <- refined by QueryPipeline
QueryPipeline        requests x pool x provider x database x owner
Reporting            the counts and rates of a summary
EvaluationRun        evaluation processes x one artifact x crashes (EXTENDS Reporting)
ModelComparison      two artifacts x the checkout, the recommendation (EXTENDS Reporting)
ResultComparison     two results, four ways to compare them
ProcessedDirectory   what readers of data/processed may rely on
Cleaning             the cleaning command x edits of the raw files; refines it
Loading              loaders x the database x ProcessedDirectory
Integrity            the integrity command x Loading (EXTENDS Loading)
RowCleaning          the rules of cleaning, what the audit says, what the tables take
ReaderRole           provisioning x others who administer the database
Application          the page's script x the backend process and its engine
*Proofs              the theorems about QueryPipeline, EvaluationRun (and
                     ResultComparison), ModelComparison, Cleaning,
                     RowCleaning, Integrity (and with it Loading),
                     ReaderRole, Application
MC*                  the instances for TLC
```

**QueryPipeline.** `pc[r]` is where the thread of request `r` is, and its stages
are the places where something else may happen in between: a wait for the pool,
each catalog read, the provider call, each statement of the transaction. `conn`
and `free` are the SQLAlchemy pool; `snapshot[r]` is the `BankingSQLAccessPolicy`
built by `get_safe_query_service`; `attempt[r]` tells `query` from
`_repair_once`; `ran` and `result` remember what each attempt sent and how it
ended; `outcome[r]` is the exception or result the route maps to a category.
`schema` and `granted` are changed by the owner's `Upgrade`, `Downgrade` and
`Provision`, each one transaction as in the code. The database answers a
statement by its SQLSTATE: `Plan` fails with 42P01 or 42501 when a name does not
resolve or is not readable, and any statement may fail with an error of its own,
its timeout, or a lost connection. A statement is a member of a set; the
validators' verdicts are constants of the statement (`ReadOnly`, `Analytical`,
`Refs`), the access policy's one also depends on the snapshot.

**SafeQuery** has only what a user of the service can rely on: statements from a
set fixed before the first runs, at most two of them, the second only after a
correctable error, and one answer that agrees with the last. `Promise` in
`QueryPipeline` is the refinement mapping: `allowed` is computed from the
snapshot, the other variables map to themselves.

**EvaluationRun.** A process is started to create or to resume an artifact;
`Open`/`Create` and `Load`/`Replace` are the two halves of
`EvaluationRunStore.create` and `append`, between which another process may
step. `RunCase` chooses one of the traces a case can have (what the generation,
the repair and the execution came to) and scores it as `run_case` does, through
the recorder that outlives the case. The cases a process has yet to run are the
set of their places in the benchmark, of which it takes the least (`NextCase`).
`Die` ends a process at any step.

**Reporting** has the sets behind each rate of `build_evaluation_summary`, and
`_ratio` and the median as `reporting.py` rounds them: a rate is a number of
millionths (`Whole` of them are 100 per cent), and the k-th sample in order is
the least that k samples do not exceed.

**ModelComparison.** Artifacts are made case by case, as EvaluationRun shows they
can be, while the checkout changes; `Compare` is `compare_model_runs`: the guards
are the `ModelComparisonError`s, which write nothing, and `Recommend` is
`_recommend`; a model without a median is
the slower one, as the code's infinity makes it. The two thresholds are constants, since with three cases a
difference of two points does not exist.

**ResultComparison.** A value has a kind, an amount and a written scale;
`Serialized` is what the executor makes of it, `Normalized` what the comparison
does. `Take` is one round of the loop in `_unordered_equal_with_tolerance`, and
`Unmatched` its list after each round, or `Absent` once a row has found none. The
initial states are all pairs of results, modes and tolerances. The specification
is called `ComparisonSpec`, so that the module can be read beside `EvaluationRun`,
whose `run_case` makes the call.

**ProcessedDirectory** is the contract between cleaning and loading: a complete
data set appears at once, disappears entry by entry, and every file in it comes
from one state of the raw files. The contents of a processed file are abstracted
to the versions of the raw files it depends on (its own and those its foreign
keys lead to, `_validate_identifiers`).

**Cleaning** hashes, reads and hashes again file by file while the raw files are
edited; `Remove`, `RemoveLast` and `MoveStage` are `shutil.rmtree` and the move.
`processed` is the abstract module's own variable, so the refinement mapping is
the identity.

**Loading.** A loader reads the manifest, checks for rows, deletes children
first, hashes and opens file after file, inserts parents first and commits.
PostgreSQL is modelled table by table under READ COMMITTED. `WaitsFor` has what a
statement waits for: a `DELETE` for the transactions that have deleted the same
rows, then, in the check of the foreign keys (`CheckReferences`, which locks the
rows of the tables that refer to this one), for those that have deleted these; an
`INSERT` for those that have inserted the same keys or have deleted the rows that
had them. When nobody is in its way any more, an `INSERT` whose keys are
committed fails (`InTheWay`), and so does a `DELETE` that would leave committed
rows without their parents (`LeftBehind`). Two data sets are taken to share keys
in every table, in files that may have their rows in another order: a file is
inserted in two parts, and `Lead` says which comes first. `Circle` is what
PostgreSQL's deadlock detection looks for, and `Die` includes what it does then.

**Integrity** adds one variable to `Loading`: `val`, the integrity command with
its place and its locals. The file checks of `_reconcile_files`, and those
statements of `_validate_database` and `_validate_reader` that others can make a
difference to, are actions, between which loaders and the cleaning command go on.
The history in `val` says whether the tables have matched the manifest at one
moment since the command began (`matched`) and whether all was in order
throughout (`agreed`). Of a row only its key is there, as in the code; the
approved lookup values, the numerical domains and NULLs are taken for granted,
since the tables' constraints and the data set decide them. `Abort` is an
exception from any statement or file.

**RowCleaning.** A cell is what it is read as, and whether it is written in the
form that the cleaning writes: that is what tells a copy from a conflict, a
normalised identifier from a broken one, and pandas' `NA` from a text.
A table specification has columns and at most one rule for each; `RowsOf` are the
rows `_read_source` lets pass.
`CleanTable` is `_clean_table` for the next of `TABLE_SPECS`; `Fatal` is what
raises `CleaningError`, `Rejected` what goes to the rejected file. `CleanAgain`
feeds the output to a second run. The initial states are all files of the
instance, under each of three specifications (dates that end the command, reject
the row, or become NULL). The audit's view of the same files (`AsAudited` and
what it reports) and the constraints of the tables (`DatasetLoads`) are operators
beside the command. A text without a rule is written as it was read; the ten
country spellings that `_normalize_countries` unifies have no column here.

**ReaderRole.** `provision_reader_role` is one transaction, but its statements
and the queries that verify the result each see what others have committed by
then. `acl` has the grants of the catalog; `own` those on rows the transaction
has changed, which are locked against others until it ends. PostgreSQL's grants
are modelled by grantee: the reader by the owner, the reader by someone else
(which the owner's `REVOKE` does not take away), everyone, or a group. Others
create, drop and give away tables, grant, and admit the reader to a group, at any
moment, up to `MaxChanges` times. `UPDATE` stands for the six privileges on a
table that `FORBIDDEN_TABLE_PRIVILEGES` lists. One sequence, which is there
throughout, stands for all of them. The refusal of a reader that is the owner
(`role_management.py:236`) is left out of `Begin`: the reader is not.

**Application.** Streamlit runs `main` for every event of a browser session, over
the state the session keeps. `script[s]` is the run: loading the examples,
showing the form, waiting for the answer, and between the two assignments to the
session's entries. An event during a run starts a new one, and the old run
writes no more: Streamlit stops it where it next touches the session state. The
backend takes the post in its own time: `LookUp` and `Build` are
`get_runtime_engine`, outside `lru_cache`'s lock; `Stop`, `Shutdown`, `Crash` and
`Boot` are the process. What the request comes to in between is the subject of
`QueryPipeline`, and is one step here (`Reply`).

## The runs

Each property has a mutant in `PROJECT.json`: a plausible slip in one definition
under which TLC finds the property violated.

**pipeline** (`MCQueryPipeline.cfg`, about 190 000 states). Two requests, one
connection, five statements (one per verdict: readable, without relations, a
catalog relation, an unapproved function, a mutation), two banking relations and
a system one, two errors of a statement, one correctable and one not, two
failures of the provider besides its timeout. Two requests and one connection are the smallest instance in which
requests interleave and the pool runs dry; a third request adds no new pairs of
steps. Shown: `OnlyApprovedSQLRuns`, `RepairFollowsCorrectableError`,
`PoolAccounting`, `AnswerMatchesRuns`, `ApprovedSQLResolves`,
`ImplementsSafeQuery`, and `EveryRequestAnswered` under fairness.

**evaluation** (about 2.0 million states). Three starts, in up to two processes
at once, with two configurations, of an answerable case and one to be declined;
a transient and a permanent failure of the provider. `MaxStarts` bounds the
starts: three allow a crash, an interrupted resume and a completed one, or two
that overlap and a third after them. Since starts are bounded the system stops in
the end, and deadlock is not checked. Shown: `ResultsDescribeTheirCase`,
`TransientFailuresAreRetried`, `CasesCountOnce` and `RatesAreBounded` always;
`NoCaseRunTwice`, `ReportsAreComplete` and `CompletedCasesRetained` as long as
processes do not overlap (`overlapped` is a history variable). With overlap an
update can be lost; nothing in the repository promises otherwise.

**model_comparison** (about 780 000 states). Three cases, one Romanian and one
hard, each right, right but slow (the hard one: and repaired), wrong, or failed
by the provider (not the hard one wrong, nor the first failed); two configurations with the same cases, two commits, two
paths. `EndToEndTie` is 40 points, so that one case of three is a near tie and
two are not. Shown: `ComparedRunsAreControlled` (except for runs resumed on
another commit, which nothing refuses), `LowerAccuracyOnlyForLatency`,
`NeverDominated`. The command ends after a comparison, so deadlock is not checked.
Two facts about the rule came out of writing the properties. With equal medians
in a near tie the first candidate is recommended although it is the less accurate
one, so `LowerAccuracyOnlyForLatency` says "not slower". And `NeverDominated`
needs its premise that the same queries were executed: a model that fails to
generate has the smaller denominator, and can be preferred to one that answers
the same case wrongly.

**comparison** (about 1.6 million states). All pairs of results of up to three
rows of one column, and of one row of two, over six values that are equal, one
tolerance apart or two, in every mode, with no tolerance, zero, and one. Three
rows are what it takes for the greedy search to go wrong. `MatchesAreSound`
holds without exception, `MatchesAreComplete` where closeness is transitive.
One comparison and the system stops: deadlock is not checked.

**cleaning** (about 4 800 states). Two files, one referring to the other; two
edits (`MaxEdits`), one for each round of hashes to miss; starts and crashes are
unbounded. An edit never restores old contents: hashes would not tell.
Shown: `PublishedFromOneRawState`, `FailureKeepsOutput`,
`ImplementsDirectory`.

**loading** (`MCIntegrity.cfg`, about 2.3 million states). Two loaders, each
with or without `--replace`, unboundedly often, over two tables, one of which
refers to the other, and two data sets that replace each other; and the
integrity command, again and again. `MaxBusy` bounds the loaders at work while
the command runs to one; without it running, both work at once. The data sets
differ in the values of one file and, at equal numbers, in the keys of the
other, so that a count cannot tell what the keys tell; and in the order of their
rows. Shown: `CommittedIsOneDataset` (unless a file is replaced between its hash
and its reading, history `swapped`), `OnlyReplaceOverwrites`, `DoomedLoadsFail`,
`CirclesHaveACause`; `PassedWasTrue` and `SoundFoundationPasses`.
`PassedWasTrue` needs its premise: with a loader of an earlier directory under
way, or the directory replaced meanwhile, the checks may pass one by one on
tables that never agreed as a whole. Loaders are interchangeable: symmetry.

Loaders can wait for each other in a circle, and PostgreSQL then fails one of
them: the code has no order of locks that would prevent it. `CirclesHaveACause`
says when. Either one of the loaders is *doomed*: rows were committed in a table
after it had passed that table over, so that by `DoomedLoadsFail` it cannot
succeed whoever waits for whom. The shortest way there: one loader with
`--replace` deletes from an empty table, another loads and commits, starts again
with `--replace` and deletes those rows, and each then waits for the other's
deletions, one at the check of its foreign keys. Or two loaders are *crossed*:
they insert the rows of one table, each of which has another order in its file;
this happens on the first table of the order only, since whoever is ahead there
is waited for with everything after it. So two loads that could both succeed
never end in a deadlock, unless one data set has the rows of the first table in
another order than the other. TLC reaches circles of both kinds, and neither
disjunct can be dropped.

**application** (about 1.1 million states). One session, three questions, three
posts (`MaxAsked`); two questions are remembered, each once. Sessions share
nothing but the backend; abandoned requests of one session already keep several
threads busy at once. Shown: `RecentQuestionsAreRemembered`,
`ErrorBesideAnswerIsOlder`, `PageShowsLastOutcome`, `CachedEngineIsDisposed`,
and `WaitingEnds` under fairness. Two things the properties had to be phrased
around: a run superseded between the two assignments leaves an answer next to
the error of an earlier question, and several threads that find the cache empty
each build an engine, of which `dispose_runtime_engine` disposes one.

**row_cleaning** (about 1.7 million states, of which 551 000 initial). A lookup
file and a file that refers to it, up to two rows each, whose cells deviate from
a sound row in one place, the first of the referring rows in two. Two rows are
what copies, conflicts and lost parents take; two deviations what the order of
the rules takes. Shown: `AcceptedAreTheSoundRows`, `CleaningIsIdempotent`,
`AcceptedDatasetLoads`, `AuditForesees`. The command ends, so deadlock is not
checked. The exceptions in the properties are what the code leaves open: a
datetime before the year 1000 is written in a form that neither the cleaning nor
the loader reads; an empty or repeated label and a number out of range pass the
cleaning and fail the load (out of range is beyond INTEGER, or beyond what the
column's NUMERIC precision and CHECK allow, which `bounds` gives for each
decimal column; the instance has one from -6 and one from 1, both up to 6);
identifiers with leading zeros look like different keys to the audit, and `NA`
is missing to it and a text to the cleaning.

**reader_role** (about 312 000 states). Two relations of the schema, two changes
by others (`MaxChanges`), provisioning unboundedly often. Two changes are what
it takes to prepare a privilege before the command and to add one while it
verifies. Shown: `ProvisionedIsBounded`, with exceptions for what the
transaction does not lock (a membership, a table created or given away while it
verifies), and `RefusedForCause`. What `REVOKE ... ON ALL SEQUENCES`
(`role_management.py:305-309`) does not see, a sequence created and granted
afterwards by others, is outside the model and of the same kind as those
exceptions. One more exception came out of the proof, and takes three changes:
the reader is admitted to a group that may read a table created after the `GRANT
SELECT ON ALL TABLES`; the verification finds the table readable, by the group's
grant. Relations are interchangeable: symmetry.

**safety_rejection, cleaning_replacement, equal_numbers** each end in the
violation of one property that states what a document, a docstring or a test
says; see "Disagreements found".

## Fairness

`FairSpec` of `QueryPipeline` is weak fairness of `Serve(r)` for each request:
the steps of the request's own thread, and the timeouts that bound its waits:
the pool's (SQLAlchemy's default), the provider client's (`groq_client.py`) and
the statement's (`SET LOCAL statement_timeout`). Nothing is assumed of what
others do (`Peer`: the provider's answer, the database's errors and results) or
of the owner. The catalog reads and the connection itself have no timeout in the
code; that they end is assumed as a step of the thread.

`FairSpec` of `Application` is weak fairness of `Script(s)`: Streamlit goes on
with a run that nothing supersedes, and its HTTP client's timeout
(`api_client.py:117`) ends the wait for the answer. Nothing is assumed of the
backend, which may never answer, nor of the user.

No liveness is claimed of the other modules. That a load ends, in particular, is
the database's promise and not the code's: it sets no `lock_timeout`, and a
circle of waiting loaders goes on until PostgreSQL fails one of them (`Die`).

## The proofs

Every theorem holds for all values of the constants that satisfy the assumptions
of its module. Each proof has the same outline: an inductive invariant, defined at
the end of the component's module and checked by TLC on the instance of its run;
a lemma that the initial states satisfy it, one lemma for each action that a step
preserves it, `NextInv` that puts the cases of the next-state relation together;
and the properties from it. Frame lemmas (`Still`, `OthersHold`, `BackendFrame`,
`SurroundingsStay` and others) say once what a step need not look at.

| Module | Theorem | States |
|---|---|---|
| `QueryPipelineProofs` | `TypeCorrect` | `Spec => []TypeOK` |
| | `ApprovalSafety` | `Spec => []OnlyApprovedSQLRuns` |
| | `RepairSafety` | `Spec => []RepairFollowsCorrectableError` |
| | `PoolSafety` | `Spec => []PoolAccounting` |
| | `AnswerSafety` | `Spec => []AnswerMatchesRuns` |
| | `ResolutionSafety` | `Spec => ApprovedSQLResolves` |
| | `Refinement` | `Spec => ImplementsSafeQuery` |
| `EvaluationRunProofs` | `TypeCorrect` | `Spec => []TypeOK` |
| | `OwnResults` | `Spec => []ResultsDescribeTheirCase` |
| | `NoTransientResult` | `Spec => []TransientFailuresAreRetried` |
| | `DistinctCases` | `Spec => []CasesCountOnce` |
| | `RatesOfParts` | `Spec => []RatesAreBounded` |
| | `NoRepeatedCase` | `Spec => []NoCaseRunTwice` |
| | `CompleteReports` | `Spec => []ReportsAreComplete` |
| | `NothingLost` | `Spec => CompletedCasesRetained` |
| | `MatchIsSound` | `ComparisonSpec => []MatchesAreSound` |
| | `MatchIsComplete` | `ComparisonSpec => []MatchesAreComplete` |
| `ModelComparisonProofs` | `ControlledRuns` | `Spec => []ComparedRunsAreControlled` |
| | `NoDominatedChoice` | `Spec => []NeverDominated` |
| | `LatencyDecides` | `Spec => []LowerAccuracyOnlyForLatency` |
| `CleaningProofs` | `CleanedAtOneMoment` | `Spec => []PublishedFromOneRawState` |
| | `FailureSafety` | `Spec => []FailureKeepsOutput` |
| | `DirectoryRefinement` | `Spec => ImplementsDirectory` |
| `RowCleaningProofs` | `AuditForeseesTheCleaning` | `Spec => []AuditForesees` |
| | `CleaningTwiceIsCleaningOnce` | `Spec => []CleaningIsIdempotent` |
| | `AcceptedLoads` | `Spec => []AcceptedDatasetLoads` |
| | `SoundRowsAreAccepted` | `Spec => []AcceptedAreTheSoundRows` |
| `IntegrityProofs` | `OneDataset` | `Spec => []CommittedIsOneDataset` |
| | `ReplacedOnRequest` | `Spec => OnlyReplaceOverwrites` |
| | `PassedOverIsFatal` | `Spec => DoomedLoadsFail` |
| | `CircleHasACause` | `Spec => []CirclesHaveACause` |
| | `PassedIsTrue` | `IntegritySpec => []PassedWasTrue` |
| | `SoundIsNotRefused` | `IntegritySpec => []SoundFoundationPasses` |
| | `LoadingGoesOn` | `IntegritySpec` implies `Spec` and Loading's four safety properties |
| `ReaderRoleProofs` | `BoundedRole` | `Spec => []ProvisionedIsBounded` |
| | `RefusalHasCause` | `Spec => []RefusedForCause` |
| `ApplicationProofs` | `TypeCorrect` | `Spec => []TypeOK` |
| | `RecentQuestions` | `Spec => []RecentQuestionsAreRemembered` |
| | `NoLaterError` | `Spec => []ErrorBesideAnswerIsOlder` |
| | `LastOutcome` | `Spec => []PageShowsLastOutcome` |
| | `EngineDisposed` | `Spec => []CachedEngineIsDisposed` |

**QueryPipeline.** The properties are not inductive by themselves: that only
approved statements run needs that what waits at `begin` or `send` was approved
(`SqlMatchesStage`); that the repair follows a correctable error, and that
answers agree with runs, need what the history says at each stage
(`HistoryMatchesStage`), and that in turn which generation a connection is for
(`PurposeMatchesStage`). `PipelineAssumption` only says what the sets are (an
approved statement is a statement, no SQLSTATE is named twice). The steps are
grouped by what they do, since most do the same thing to the invariant:
`ConnectStep`, `ReleaseStep`, `MoveStep`, `FinishStep`, `FinishRunStep`,
`RepairStep`, `RunFailsStep`; `RequestStep` and `OwnerStep` put the cases of
`Next` together. The refinement has one lemma per kind of step as well: most
stutter, `SendRefines`, `RunFailsRefines`, `FinishRefines` and `PolicyRefines`
map to an action of `SafeQuery`. `ResolutionSafety` needs no new invariant, only
that `Plan` sees the schema at the instant it fails.

**EvaluationRun.** `EvaluationInv` has two layers. Whatever overlaps, each result
that is persisted, pending or held in memory is sound (`SoundResult`, proved of
every trace of every case in `ResultIsSound`), and no run holds a case twice: a
process that replaces the artifact by what it loaded and one more result has
looked the case up in what it loaded (`StageHolds` at `replace`). While nothing
overlaps (`Alone`), the artifact has the first cases of the benchmark in their
order, and the process at work, of which there is one, has exactly the others to
run; the three properties about resuming follow from that order and are not
inductive without it. The assumptions: cases are selected once, the provider's
failures are among the six the code names, nothing is called `None`.

**ModelComparison.** The invariant ties each artifact to a prefix of its benchmark
and, once a comparison is written, the recommendation to the rule applied to the
artifacts, which nothing changes afterwards. The work is in the arithmetic: a
rate is a rounded quotient (`RoundedShare`), so that a tie of rates says only
that the shares differ by the threshold and the last digit (`TiedShares`), and
one more correct case is seen in the rate as long as there are no more than a
million cases (`RateIsStrict`); `ModelComparisonAssumption` has that bound, four
orders of magnitude above the benchmark's size. It also says that an executed query
has a latency, and what else `EvaluationRun`'s `SoundResult` says of a result.

**Cleaning.** What is read of a file lies between its two hashes, by version
(`ReadBetweenHashes`), and so does one state of all the raw files together, the
one between the two rounds (`MomentBetweenRounds`). When the hashes agree, what
was read is that state (`UnchangedIsOneState`). Versions only grow, which is where
the proof uses that an edit does not restore old contents. `OutputDirectory` says what
the directory is at each stage; the refinement follows, `MoveStage` being
`Publish` and the removals `RemoveEntry` and `RemoveDirectory`.

**Loading and Integrity.** `LoadingInv` says of a loader how far it is
(`Progress`), that what it has inserted is its manifest's (`LoadsOneDataset`,
while nothing was replaced between hash and reading), that nobody else has
deleted what it has deleted (`DeletedAlone`), and that into the tables and parts
of tables it has inserted nobody else inserts and nothing is committed there but
what it has deleted (`InsertedAlone`), so that a commit replaces all or nothing.
A doomed loader stays doomed because rows do not go away but for another data
set (`InsertedHasGivenWay`). That a circle has a cause is shown by a measure:
`Ahead` counts what a loader has before it. A loader that is not doomed waits
only for those that have less before them, unless it is crossed with them
(`WaitsForOneAhead`); so in a circle without doomed or crossed loaders, the one
with the least before it would wait for nobody. `IntegrityInv` adds the command:
`WhileStill` ties what loaders have in hand to the manifest the command read;
`MatchedSoFar` says that tables that have not matched as a whole since then have
not changed since the comparison began, so that what was compared one by one was
true together; `WhileAgreed` says the same of a foundation in order.
`TablesStayOrMatch` is the step at the heart of it: a commit, while the
directory stays, brings the tables to the manifest. `LoadingAssumption` says
that the load order names each table once and parents before what refers to
them, that there is a table, that no rows are what stands for an empty table,
and that a file begins with one of its two parts.

**ReaderRole.** The last statement that names a grant decides whether the reader
has it (`InEffect`): for what a statement names one by one that stays so because
the transaction has locked it, for the rest while no one else is at work
(`clean`). `VerifiedHolds` says of each stage of the verification what it has
established and what the locks preserve; what others may still change is in
`late`. `CleanIsPrivileged` is the other direction: with everything as the
statements left it, no query refuses. The proof goes through the thirteen
statements one by one only in lemmas about what they name. `MaxChanges` is any
number.

**Application.** A post is a place in `asked`; the invariant says that a script
that waits holds the newest place of its session, and that what the page shows is
of earlier ones (`WaitingHolds`), that the cached engine is the first the process
built (`EnginesHold`), and that unposted questions have room (`Bounded`, of the
bound only). `RecentQuestions` is its longest proof: `AddedPlaces` says where
each question of the list goes when one is added, `RememberedStep` finds the
posts the new list is of.

**RowCleaning.** The state says little, and the proofs are about what the rules
compute. `RowCleaningInv` has two facts. What has been cleaned was cleaned with
the keys that are there now (`KeptWereAccepted`): a table's reasons look at the
keys of its parents only, which came before it and do not change (`AcceptedStays`).
And what is cleaned in the second round is the work of the first
(`ProcessedFiles`): written in one form, references leading somewhere, keys
apart. From the second, no rule of the second round finds anything
(`ProcessedIsNotFatal`, `ProcessedStays`). A row of the output is the written form
of one kept row, in the order of the file, and of no other
(`PositionsAreABijection`, `KeptRows`, `KeysOfOutput`), so that counting its copies
is counting first copies (`WrittenAlike`). That only dates reject a row when
the audit reports nothing (`OnlyDatesReject`) is an induction over the chain of
parents, told as the first table in the order that has a counterexample.
`RowCleaningAssumption` is what `TABLE_SPECS` is like: parents come first, a
column has one rule, and the table that rejects rows for a date is the parent of
none. The last was found by the proof: were it a parent, its rejected rows would
take their children with them, of which the audit says nothing and which have no
date to be rejected for. In the code only the transactions reject, and nothing
refers to a transaction; the instance could not have shown it, with two tables.

**ResultComparison.** `ComparisonInv` says that a verdict is that of the results
at hand; the rest is about the search. What the first rows of the left have taken
and what they leave are the rows of the right, each once: `SearchIsSound` keeps a
one-to-one map from the places of both into the right, row by row
(`UnmatchedRowByRow`, `TakenRow`). `SearchIsComplete` keeps a pairing of the rows
that are left on both sides: when a row takes another one than its partner in
the pairing, the row that was meant to take that one gets the partner instead,
and closeness being transitive, it is close to it. Without a tolerance the
counts of equal rows are compared: two bags are the same if and only if the rows pair
off (`CountedAlikePairOff`, where the places of each row are paired off and the pairings
put together; `PairedAreCountedAlike`). `ComparisonAssumption` only says of what kind the
sets are: results with the columns they declare, values with amounts, and that
nothing is called `Absent`.

**Induction.** The library's induction theorems have an operator as a parameter and
cannot be used. Where a proof needs induction, it takes the least counterexample
(`LeastExists` and `MinIsLeast`, from the well-foundedness of the order of the
numbers), or the induction is the behaviour's own: an invariant of `Next`. For
the same reason `Positions` finds the k-th element by counting, and `Unmatched`
is a function on the numbers of rounds.

**Only model-checked**, and why:

- `EveryRequestAnswered` and `WaitingEnds`: liveness under fairness, which needs
  `ENABLED` of the fair actions, out of the prover's reach.
- The three properties that are violated, of course.

Every other property of a run, invariant, action property or refinement, is
stated by a theorem of the table.

## Disagreements found

- **safety_rejection**: the screen for a safety rejection says "No query was
  executed." (`frontend/ux.py:107`); when the repair is what was rejected, the
  first statement had run.
- **cleaning_replacement**: `clean_dataset` is said to be transactional at the
  level of the directory; it removes the old directory entry by entry before it
  moves the new one in place, and its `finally` removes the new one if that fails.
  If the marker goes first, every later run refuses the directory.
- **equal_numbers**: decimals are text by the time results are compared, so 1.00
  and 1 differ (`query_executor.py:198`).

Further facts the models show without a run of their own:

- A server that shuts down under a statement (57P01) is reported as a rejected
  query, since only SQLSTATEs 08xxx count as a failed connection
  (`query_executor.py:167`, `Classified`).
- With a tolerance the comparison of unordered rows may depend on their order
  (`comparison.py:131`, a greedy search; the premise `CloseIsTransitive` of
  `MatchesAreComplete`). The benchmark sets no tolerance today.
- The engines of threads that lose the race to fill the cache are not disposed at
  shutdown (`engine.py:66`, the 1 in `CachedEngineIsDisposed`).
- `_validate_reader` takes any database error for the denial of the update
  (`integrity.py:263`, the history `lost`).
- Dates before the year 1000, and unchecked labels and ranges
  (`cleaning.py:189`, `NoEarlyDate` and `Unchecked`).
- Two loaders can end in a deadlock of PostgreSQL, which the code reports as any
  other failed load (`loading.py:258`, `CirclesHaveACause`). Unless two
  data sets order their first rows differently, one of the loads in the circle
  could not have succeeded anyway; PostgreSQL may fail the other.

## What is not modelled

- The walk of the validators over the syntax tree, and the parser. What the walk
  meets is decided by sqlglot's parser and its classes; a model of it would
  either restate the validators' lists or invent sqlglot's trees. The verdicts
  are constants of a statement, and the pipeline depends on nothing else of them.
- The text of prompts and contexts, row values and the row limit, latencies
  other than what the recommendation compares.
- The order in which a `DELETE` meets the rows within one part of a table:
  `Loading` has it the same for all loaders. (Sequential scans that start where
  another one is, could differ.)
- A directory in which only `rejected/` is left: it counts as replaceable in
  `Cleaning`, and `cleaning.py:540` refuses it. A removal that is cut
  short may leave it so; no property depends on what a later run does then.
- The counts of the cleaning report, the country spellings, the audit's profiles
  of numbers, dates and texts.
- The stability summary, the p95, token counts and breakdowns of the reports:
  sums over finished artifacts that decide nothing.
- Rendering: reports, the frontend's tables and messages (one excepted). Which
  settings are valid. `smoke.py`, the health endpoint and the schema endpoint:
  no state of their own.

## The plan

All of it is done:

1. `QueryPipeline` with `SafeQuery`; `EvaluationRun`, `Reporting`,
   `ModelComparison`; `ResultComparison`; `ProcessedDirectory`, `Cleaning`,
   `Loading`; `Integrity`, `RowCleaning`, `ReaderRole`, `Application`.
2. The proofs of every safety property, action property and refinement of all
   modules.

What a change of the code calls for first: a new table in `TABLE_SPECS` or
another policy for a date must still satisfy `RowCleaningAssumption`; a tolerance
in the benchmark must keep the rows' closeness transitive, or
`MatchesAreComplete` says nothing of the case.
