---------------------------- MODULE EvaluationRun ----------------------------
(***************************************************************************)
(* python -m backend.app.evaluation: runner processes that score the       *)
(* selected benchmark cases one by one and persist each result in one      *)
(* artifact, a JSON file replaced as a whole.  A process may die at any    *)
(* step, stop at a transient failure of the provider and be started again, *)
(* to resume the artifact; nothing keeps two of them from running on the   *)
(* same path at once.                                                      *)
(*                                                                         *)
(* A generated query is told by the case it was generated for.  What the   *)
(* provider, the validators and the database make of a case is a trace.    *)
(***************************************************************************)
EXTENDS Reporting

CONSTANTS
  Runner,          \* the processes started on the artifact's path
  Config,          \* configuration fingerprints
  Selected,        \* the selected cases, in benchmark order
  Status,          \* the statuses a generation may have
  ProviderErrors,  \* the provider's failures
  DatabaseErrors,  \* the failures of an approved query that is not repaired
  MaxStarts        \* bound: how often the command is started; and None, as
                   \* Reporting has it, is also no artifact, result or SQL

VARIABLES
  artifact,    \* the file: None, or [config, cases]
  summary,     \* evaluation_summary.json: the cases it covers, or None
  report,      \* evaluation_report.md: the cases it covers, or None
  pc,          \* pc[p]: where process p is, or how it ended
  config,      \* config[p]: the fingerprint of p's configuration, or None
  todo,        \* todo[p]: the places in Selected of the cases p has yet to run
  recorder,    \* recorder[p]: what p's RecordingGenerationService recorded
  pending,     \* pending[p]: the result p is about to persist, or None
  run,         \* run[p]: the run p has loaded or written last, or None
  starts,      \* history: how often the command was started
  overlapped   \* history: two processes have been running at once

history == <<starts, overlapped>>
files  == <<artifact, summary, report>>
locals == <<config, todo, recorder, pending, run>>
vars   == <<files, pc, locals, history>>

Cases == ToSet(Selected)
TransientFailures ==
  {"GroqRateLimitError", "GroqTimeoutError", "GroqUnavailableError"}
PermanentFailures ==
  {"GroqConfigurationError", "GroqRequestError",
   "InvalidStructuredResponseError"}

ASSUME EvaluationAssumption ==
  /\ Selected \in Seq(Cases) \ {<<>>}
  /\ \A i, j \in DOMAIN Selected : Selected[i] = Selected[j] => i = j
  /\ "answerable" \in Status
  /\ MaxStarts \in Nat
  /\ Status \subseteq {"answerable", "ambiguous", "unanswerable"}
  /\ Expected \in [Cases -> Status]
  /\ ProviderErrors \subseteq TransientFailures \cup PermanentFailures
  /\ DatabaseErrors \subseteq {"timeout", "execution_error", "database_error"}
  /\ None \notin Status \cup Cases \cup TransientFailures \cup PermanentFailures

(***************************************************************************)
(* What may happen to a case.  The initial generation and the repair are   *)
(* a status, an error, or did not take place; "end" is how the query ended.*)
(***************************************************************************)

Executions ==
  {"match", "mismatch", "safety_rejected", "unserializable"} \cup DatabaseErrors

Ends == Executions \cup {"provider_error", "declined", "repair_error"}

\* A result, and an artifact.
Results ==
  [case : Cases, by : Config, status : Status \cup {None}, matched : BOOLEAN,
   sqlOf : Cases \cup {None},
   safety : {"not_applicable", "accepted", "rejected"}, attempted : BOOLEAN,
   used : BOOLEAN, outcome : Ends \cup {"not_applicable", "success"},
   correct : BOOLEAN,
   reason : Ends \cup ProviderErrors \cup {None, "status_mismatch"}]

Run == [config : Config, cases : Seq(Results)]

ASSUME NoneAssumption ==
  /\ None \notin Ends \cup {"status_mismatch"}
  /\ None \notin [case : Cases, status : Status]
  /\ None \notin Run

Trace(initial, repair, end) ==
  [initial |-> initial, repair |-> repair, end |-> end]

\* Expected statuses other than "answerable" are scored on the generation.
SemanticTraces ==
  {Trace(e, None, "provider_error") : e \in ProviderErrors}
    \cup {Trace(s, None, "declined") : s \in Status}

QueryTraces ==
  {Trace(e, None, "provider_error") : e \in ProviderErrors}
    \cup {Trace(s, None, "declined") : s \in Status \ {"answerable"}}
    \cup {Trace("answerable", None, x) : x \in Executions}
    \cup {Trace("answerable", e, "provider_error") : e \in ProviderErrors}
    \cup {Trace("answerable", s, "repair_error") :
            s \in Status \ {"answerable"}}
    \cup {Trace("answerable", "answerable", x) : x \in Executions}

Traces(c) ==
  IF Expected[c] = "answerable" THEN QueryTraces ELSE SemanticTraces

(***************************************************************************)
(* The recorder around the generation service.                             *)
(***************************************************************************)

Empty == [initial |-> None, repair |-> None, attempted |-> FALSE]

\* Mutant: what the last case left behind is kept.
NotReset(old) == old

Reset(old) == Empty

\* A generation is remembered when it returns, a repair when it is tried.
Recorded(old, c, trace) ==
  LET kept(value, status) ==
        IF status \in Status THEN [case |-> c, status |-> status] ELSE value
  IN [initial   |-> kept(old.initial, trace.initial),
      repair    |-> kept(old.repair, trace.repair),
      attempted |-> old.attempted \/ trace.repair # None]

(***************************************************************************)
(* The result of a case.                                                   *)
(***************************************************************************)

BaseFields(c, cfg, status) ==
  [case |-> c, by |-> cfg, status |-> status, matched |-> status = Expected[c],
   sqlOf |-> None, safety |-> "not_applicable", attempted |-> FALSE,
   used |-> FALSE, outcome |-> "not_applicable", correct |-> FALSE,
   reason |-> None]

Failure(c, cfg, rec, trace) ==
  LET status == IF rec.initial = None THEN None ELSE rec.initial.status
      latest == IF rec.repair = None THEN rec.initial ELSE rec.repair
  IN [BaseFields(c, cfg, status) EXCEPT
        !.sqlOf = IF latest = None \/ latest.status # "answerable"
                    THEN None ELSE latest.case,
        !.safety = CASE trace.end = "safety_rejected" -> "rejected"
                     [] trace.end # "safety_rejected"
                          /\ status = "answerable"    -> "accepted"
                     [] OTHER                         -> "not_applicable",
        !.attempted = rec.attempted,
        !.outcome = trace.end,
        !.reason = IF trace.end # "provider_error" THEN trace.end
                   ELSE IF trace.repair # None THEN trace.repair
                   ELSE trace.initial]

\* The generation was scored by its status alone: a declined question, or a
\* case whose SQL, if any, is not run.
Declined(c, cfg, rec) ==
  LET status == rec.initial.status
      matched == status = Expected[c]
  IN [BaseFields(c, cfg, status) EXCEPT
        !.sqlOf = IF status = "answerable" THEN rec.initial.case ELSE None,
        !.correct = matched,
        !.reason = IF matched THEN None ELSE "status_mismatch"]

\* Mutant: a repair is counted as used, not as attempted.
ComparedUntried(c, cfg, rec, trace) ==
  [BaseFields(c, cfg, "answerable") EXCEPT
     !.sqlOf = c,
     !.safety = "accepted",
     !.used = trace.repair = "answerable",
     !.outcome = "success",
     !.correct = trace.end = "match",
     !.reason = IF trace.end = "match" THEN None ELSE "mismatch"]

Compared(c, cfg, rec, trace) ==
  [BaseFields(c, cfg, "answerable") EXCEPT
     !.sqlOf = c,
     !.safety = "accepted",
     !.attempted = rec.attempted,
     !.used = trace.repair = "answerable",
     !.outcome = "success",
     !.correct = trace.end = "match",
     !.reason = IF trace.end = "match" THEN None ELSE "mismatch"]

Result(c, cfg, rec, trace) ==
  CASE trace.end = "declined"              -> Declined(c, cfg, rec)
    [] trace.end \in {"match", "mismatch"} -> Compared(c, cfg, rec, trace)
    [] OTHER                               -> Failure(c, cfg, rec, trace)

(***************************************************************************)
(* The processes.                                                          *)
(***************************************************************************)

\* How a process ends: reports written, a transient failure, any exception
\* or a kill, and among the exceptions the one for a case completed twice.
Ended == {"off", "reported", "interrupted", "failed", "duplicate"}

Goto(p, stage) == pc' = [pc EXCEPT ![p] = stage]

\* The process is gone, and what it held in memory with it.
End(p, how) ==
  /\ Goto(p, how)
  /\ config' = [config EXCEPT ![p] = None]
  /\ todo' = [todo EXCEPT ![p] = {}]
  /\ recorder' = [recorder EXCEPT ![p] = Empty]
  /\ pending' = [pending EXCEPT ![p] = None]
  /\ run' = [run EXCEPT ![p] = None]

Completed(evaluation) == {evaluation.cases[i].case : i \in DOMAIN evaluation.cases}

\* What tells one report from another.
Covered(evaluation) ==
  [config |-> evaluation.config,
   cases |-> [i \in DOMAIN evaluation.cases |-> evaluation.cases[i].case]]

\* Mutant: every case is run again.
AllOfThem(evaluation) == DOMAIN Selected

Remaining(evaluation) ==
  {i \in DOMAIN Selected : Selected[i] \notin Completed(evaluation)}

NewRun(p) == [config |-> config[p], cases |-> <<>>]

Init ==
  /\ artifact = None /\ summary = None /\ report = None
  /\ pc = [p \in Runner |-> "off"]
  /\ config = [p \in Runner |-> None]
  /\ todo = [p \in Runner |-> {}]
  /\ recorder = [p \in Runner |-> Empty]
  /\ pending = [p \in Runner |-> None]
  /\ run = [p \in Runner |-> None]
  /\ starts = 0
  /\ overlapped = FALSE

\* The command is started, to create an artifact or to resume one.
Start(p) ==
  /\ pc[p] \in Ended
  /\ starts < MaxStarts
  /\ starts' = starts + 1
  /\ \E c \in Config : config' = [config EXCEPT ![p] = c]
  /\ \/ Goto(p, "open")
     \/ Goto(p, "resume")
  /\ overlapped' = (overlapped \/ \E q \in Runner \ {p} : pc[q] \notin Ended)
  /\ UNCHANGED <<files, todo, recorder, pending, run>>

Exists == artifact # None

\* EvaluationRunStore.create: the file is looked for, then written.
Open(p) ==
  /\ pc[p] = "open"
  /\ \/ Exists /\ End(p, "failed")
     \/ ~Exists /\ Goto(p, "create") /\ UNCHANGED locals
  /\ UNCHANGED <<files, history>>

Create(p) ==
  /\ pc[p] = "create"
  /\ artifact' = NewRun(p)
  /\ run' = [run EXCEPT ![p] = NewRun(p)]
  /\ todo' = [todo EXCEPT ![p] = DOMAIN Selected]
  /\ Goto(p, "loop")
  /\ UNCHANGED <<summary, report, config, recorder, pending, history>>

\* Mutant: any artifact can be resumed.
AlwaysCompatible(p) == Exists

Compatible(p) == Exists /\ artifact.config = config[p]

\* EvaluationRunStore.resume.
Resume(p) ==
  /\ pc[p] = "resume"
  /\ \/ /\ Compatible(p)
        /\ run' = [run EXCEPT ![p] = artifact]
        /\ todo' = [todo EXCEPT ![p] = Remaining(artifact)]
        /\ Goto(p, "loop")
        /\ UNCHANGED <<config, recorder, pending>>
     \/ ~Compatible(p) /\ End(p, "failed")
  /\ UNCHANGED <<files, history>>

\* Mutant: a provider failure is a result like any other.
NothingTransient(result) == FALSE

Transient(result) == result.reason \in TransientFailures

\* The loop goes through the cases in benchmark order.
NextCase(p) == Selected[Min(todo[p])]

\* EvaluationRunner.run_case on the next case.  A value without a JSON form
\* raises an exception no handler names, and ends the process.
RunCase(p) ==
  /\ pc[p] = "loop" /\ todo[p] # {}
  /\ \E trace \in Traces(NextCase(p)) :
       LET c == NextCase(p)
           rec == Recorded(Reset(recorder[p]), c, trace)
           result == Result(c, config[p], rec, trace)
       IN \/ trace.end = "unserializable" /\ End(p, "failed")
          \/ /\ trace.end # "unserializable" /\ Transient(result)
             /\ End(p, "interrupted")
          \/ /\ trace.end # "unserializable" /\ ~Transient(result)
             /\ recorder' = [recorder EXCEPT ![p] = rec]
             /\ pending' = [pending EXCEPT ![p] = result]
             /\ Goto(p, "load")
             /\ UNCHANGED <<config, todo, run>>
  /\ UNCHANGED <<files, history>>

\* Mutant: a completed case is added again.
NeverDuplicate(p) == FALSE

Duplicate(p) == pending[p].case \in Completed(artifact)

\* EvaluationRunStore.append: the file is read, then replaced.
Load(p) ==
  /\ pc[p] = "load"
  /\ \/ Duplicate(p) /\ End(p, "duplicate")
     \/ /\ ~Duplicate(p)
        /\ run' = [run EXCEPT ![p] = artifact]
        /\ Goto(p, "replace")
        /\ UNCHANGED <<config, todo, recorder, pending>>
  /\ UNCHANGED <<files, history>>

Updated(p) == [run[p] EXCEPT !.cases = Append(@, pending[p])]

\* Mutant: the loop goes on with the run as it was before.
NotKept(p, updated) == UNCHANGED run
Keep(p, updated) == run' = [run EXCEPT ![p] = updated]

Replace(p) ==
  /\ pc[p] = "replace"
  /\ artifact' = Updated(p)
  /\ Keep(p, Updated(p))
  /\ pending' = [pending EXCEPT ![p] = None]
  /\ todo' = [todo EXCEPT ![p] = @ \ {Min(@)}]
  /\ Goto(p, "loop")
  /\ UNCHANGED <<summary, report, config, recorder, history>>

\* The loop is over: the two reports of the run in hand are written, and the
\* command returns 0.
WriteSummary(p) ==
  /\ pc[p] = "loop" /\ todo[p] = {}
  /\ summary' = Covered(run[p])
  /\ Goto(p, "report")
  /\ UNCHANGED <<artifact, report, locals, history>>

WriteReport(p) ==
  /\ pc[p] = "report"
  /\ report' = Covered(run[p])
  /\ End(p, "reported")
  /\ UNCHANGED <<artifact, summary, history>>

\* The process is killed, or an exception ends it at any step: an
\* unreachable database, a reference query that fails, a full disk.
Die(p) ==
  /\ pc[p] \notin Ended
  /\ End(p, "failed")
  /\ UNCHANGED <<files, history>>

Next ==
  \E p \in Runner :
    \/ Start(p) \/ Open(p) \/ Create(p) \/ Resume(p)
    \/ RunCase(p) \/ Load(p) \/ Replace(p)
    \/ WriteSummary(p) \/ WriteReport(p) \/ Die(p)

Spec == Init /\ [][Next]_vars
-----------------------------------------------------------------------------
(***************************************************************************)
(* Properties.                                                             *)
(***************************************************************************)

\* Every persisted result tells of its own case: the SQL and the status in
\* it were generated for that case, however the cases before it ended and
\* wherever its own generation failed (the recorder's reset in run_case).
ResultsDescribeTheirCase ==
  artifact # None =>
    \A i \in DOMAIN artifact.cases :
      LET x == artifact.cases[i] IN
      /\ x.sqlOf \in {None, x.case}
      /\ x.status = None <=> x.outcome = "provider_error" /\ ~x.attempted
      /\ x.attempted => x.status = "answerable"

\* No case is scored on a rate limit, a timeout or an outage of the
\* provider, in the initial generation or in the repair: the run stops
\* before the result is persisted, so that a resume tries the case again.
TransientFailuresAreRetried ==
  artifact # None =>
    \A i \in DOMAIN artifact.cases :
      artifact.cases[i].reason \notin TransientFailures

\* No case is counted twice, whatever processes were interrupted, resumed or
\* ran at once (the check in EvaluationRunStore.append).
CasesCountOnce ==
  artifact # None =>
    \A i, j \in DOMAIN artifact.cases :
      artifact.cases[i].case = artifact.cases[j].case => i = j

\* The rates of the summary are rates: what is counted above the line is
\* counted below it, and each incorrect case has one reason.
RatesAreBounded ==
  artifact # None =>
    LET cases == artifact.cases IN
    /\ RepairAttempts(cases) \subseteq AnswerableGeneratedSQL(cases)
    /\ RepairUsed(cases) \subseteq
         RepairAttempts(cases) \cap ExecutedAnswerable(cases)
    /\ ExecutedAnswerable(cases) \subseteq AnswerableSafetyAccepted(cases)
    /\ Correct(cases) = DOMAIN cases \ Failures(cases)

\* While processes do not overlap, results are only ever added, one at a
\* time, under the configuration the artifact was created for: no crash, no
\* interruption and no second start with other options loses one.
CompletedCasesRetained ==
  [][~overlapped /\ artifact # None =>
       /\ artifact'.config = artifact.config
       /\ IsPrefix(artifact.cases, artifact'.cases)
       /\ Len(artifact'.cases) <= Len(artifact.cases) + 1
       /\ \A i \in DOMAIN artifact'.cases :
            artifact'.cases[i].by = artifact'.config]_vars

\* While processes do not overlap, a resumed one never runs a case again
\* that was completed before it ("without repeating completed stable case
\* IDs", docs/evaluation.md).
NoCaseRunTwice ==
  ~overlapped =>
    \A p \in Runner :
      /\ pc[p] # "duplicate"
      /\ pending[p] # None =>
           pending[p].case \notin Completed(artifact)

\* When the command has returned 0 and processes did not overlap, both
\* reports are of the artifact as it is, and it has every selected case.
ReportsAreComplete ==
  \A p \in Runner :
    ~overlapped /\ pc[p] = "reported" =>
      /\ summary = Covered(artifact) /\ report = summary
      /\ summary.cases = Selected
-----------------------------------------------------------------------------
(***************************************************************************)
(* The inductive invariant behind the properties above.                    *)
(***************************************************************************)

Working == {"loop", "load", "replace", "report"}

TypeOK ==
  /\ artifact \in Run \cup {None}
  /\ pc \in [Runner -> Ended \cup {"open", "create", "resume"} \cup Working]
  /\ config \in [Runner -> Config \cup {None}]
  /\ todo \in [Runner -> SUBSET DOMAIN Selected]
  /\ pending \in [Runner -> Results \cup {None}]
  /\ run \in [Runner -> Run \cup {None}]
  /\ overlapped \in BOOLEAN

\* What a result that is persisted tells, whatever became of the case.
SoundResult(x) ==
  /\ x.sqlOf \in {None, x.case}
  /\ x.status = None <=> x.outcome = "provider_error" /\ ~x.attempted
  /\ x.attempted => x.status = "answerable" /\ Expected[x.case] = "answerable"
  /\ x.used => x.attempted /\ x.outcome = "success"
  /\ x.outcome = "success" => x.status = "answerable" /\ x.safety = "accepted"
  /\ x.correct <=> x.reason = None
  /\ x.reason \notin TransientFailures

SoundRun(evaluation) ==
  /\ evaluation \in Run
  /\ \A i \in DOMAIN evaluation.cases : SoundResult(evaluation.cases[i])
  /\ \A i, j \in DOMAIN evaluation.cases :
       evaluation.cases[i].case = evaluation.cases[j].case => i = j

RunsAreSound ==
  /\ artifact # None => SoundRun(artifact)
  /\ \A p \in Runner : run[p] # None => SoundRun(run[p])

\* What p has in hand at each of its stages.
StageHolds(p) ==
  /\ pc[p] \notin Ended => config[p] \in Config
  /\ pc[p] \in Working => SoundRun(artifact) /\ SoundRun(run[p])
  /\ IF pc[p] \in {"load", "replace"}
       THEN /\ todo[p] # {}
            /\ pending[p] \in Results /\ SoundResult(pending[p])
            /\ pending[p].case = NextCase(p)
            /\ pending[p].by = config[p]
       ELSE pending[p] = None
  /\ pc[p] = "replace" => pending[p].case \notin Completed(run[p])

\* While processes do not overlap, the artifact has the first cases of the
\* benchmark, and the process that is there has the others to run.
InOrder(evaluation) ==
  /\ Len(evaluation.cases) <= Len(Selected)
  /\ \A i \in DOMAIN evaluation.cases :
       /\ evaluation.cases[i].case = Selected[i]
       /\ evaluation.cases[i].by = evaluation.config

Unfinished(evaluation) == (Len(evaluation.cases) + 1)..Len(Selected)

AloneHolds(p) ==
  /\ \A q \in Runner \ {p} : pc[p] \in Ended \/ pc[q] \in Ended
  /\ pc[p] # "duplicate"
  /\ pc[p] = "create" => artifact = None
  /\ pc[p] \in Working => /\ run[p] = artifact
                          /\ config[p] = artifact.config
                          /\ todo[p] = Unfinished(artifact)
  /\ pc[p] \in {"report", "reported"} =>
       /\ artifact # None
       /\ Unfinished(artifact) = {}
       /\ summary = Covered(artifact)
  /\ pc[p] = "reported" => report = summary

Alone ==
  ~overlapped => /\ artifact # None => InOrder(artifact)
                 /\ \A p \in Runner : AloneHolds(p)

EvaluationInv ==
  /\ TypeOK
  /\ RunsAreSound
  /\ \A p \in Runner : StageHolds(p)
  /\ Alone
=============================================================================
