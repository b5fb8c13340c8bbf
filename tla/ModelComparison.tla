--------------------------- MODULE ModelComparison ---------------------------
(***************************************************************************)
(* python -m backend.app.evaluation.model_comparison: two artifacts of the *)
(* evaluation, one for each candidate model, are checked to be complete    *)
(* runs under the same conditions, and one model is recommended.  The      *)
(* artifacts are created and completed case by case, whatever the          *)
(* repository's checkout, which may change before a run is resumed.        *)
(*                                                                         *)
(* The conditions of a run are its benchmark, prompt, reasoning effort and *)
(* generation configuration.                                               *)
(***************************************************************************)
EXTENDS Reporting

CONSTANTS
  Candidates,     \* the two models, in the order of CANDIDATE_MODELS
  Path,           \* where artifacts are
  Commit,         \* the repository's commits
  Conditions,     \* the conditions a run may be made under
  Selected,       \* Selected[k]: the cases of a run under k, in order
  Romanian, Hard, \* the cases in Romanian; the hard ones
  Results,        \* Results[c]: the results case c may have
  EndToEndTie,    \* 2.0 points in the code; more, where the cases are few
  AccuracyTie     \* 0.5 points, for result and Romanian accuracy

VARIABLES
  artifact,    \* artifact[p]: None, or [model, conditions, commit, cases]
  ranOn,       \* history: ranOn[p]: the commits the cases of p were run on
  commit,      \* the commit that is checked out
  comparison   \* model_comparison.json: None, or [paths, inputs, recommended]

vars == <<artifact, ranOn, commit, comparison>>

Model == ToSet(Candidates)
Case == UNION {ToSet(Selected[k]) : k \in Conditions}

CaseResult == UNION {Results[c] : c \in Case}
Run == [model : Model, conditions : Conditions, commit : Commit,
        cases : Seq(CaseResult)]

ASSUME ModelComparisonAssumption ==
  /\ DOMAIN Candidates = {1, 2} /\ Candidates[1] # Candidates[2]
  /\ \A k \in Conditions :
       /\ Selected[k] \in Seq(DOMAIN Expected) \ {<<>>}
       /\ Len(Selected[k]) <= Whole  \* a case more changes a rate
       /\ \A i, j \in DOMAIN Selected[k] :
            Selected[k][i] = Selected[k][j] => i = j
  /\ \A c \in Case : \A x \in Results[c] :
       /\ x.case = c
       /\ x.matched <=> x.status = Expected[c]
       /\ x.outcome = "success" =>
            x.status = "answerable" /\ x.latency # None
       /\ x.correct \in BOOLEAN
       /\ x.correct => /\ x.matched
                       /\ Expected[c] = "answerable" => x.outcome = "success"
       /\ x.used => x.attempted
       /\ x.attempted => x.status = "answerable"
       /\ x.latency # None => x.latency \in Nat \ {0}
  /\ {EndToEndTie, AccuracyTie} \subseteq Nat
  /\ None \notin Int \cup Run

Init ==
  /\ artifact = [p \in Path |-> None]
  /\ ranOn = [p \in Path |-> {}]
  /\ commit \in Commit
  /\ comparison = None

(***************************************************************************)
(* The runs.                                                               *)
(***************************************************************************)

Checkout(c) ==
  /\ comparison = None
  /\ c # commit
  /\ commit' = c
  /\ UNCHANGED <<artifact, ranOn, comparison>>

NewRun(model, k) ==
  [model |-> model, conditions |-> k, commit |-> commit, cases |-> <<>>]

Create(p, model, k) ==
  /\ comparison = None
  /\ artifact[p] = None
  /\ artifact' = [artifact EXCEPT ![p] = NewRun(model, k)]
  /\ UNCHANGED <<ranOn, commit, comparison>>

\* The run's next case, in the process that created it or in one that has
\* resumed it; the fingerprint that is compared then has no commit in it.
RunCase(p) ==
  /\ comparison = None
  /\ artifact[p] # None
  /\ LET n == Len(artifact[p].cases)
         selected == Selected[artifact[p].conditions]
     IN /\ n < Len(selected)
        /\ \E x \in Results[selected[n + 1]] :
             artifact' = [artifact EXCEPT ![p].cases = Append(@, x)]
  /\ ranOn' = [ranOn EXCEPT ![p] = @ \cup {commit}]
  /\ UNCHANGED <<commit, comparison>>

(***************************************************************************)
(* The comparison.                                                         *)
(***************************************************************************)

OneOfEach(runs) == {runs[i].model : i \in DOMAIN runs} = Model

Complete(run) == Len(run.cases) = Len(Selected[run.conditions])

\* Mutant: only the cases and the commits are compared.
SameCases(first, second) ==
  /\ first.commit = second.commit
  /\ {first.cases[i].case : i \in DOMAIN first.cases} =
     {second.cases[i].case : i \in DOMAIN second.cases}

Controlled(first, second) ==
  /\ first.conditions = second.conditions
  /\ first.commit = second.commit
  /\ {first.cases[i].case : i \in DOMAIN first.cases} =
     {second.cases[i].case : i \in DOMAIN second.cases}

\* _recommendation_inputs, of the summary of a run's cases.
Inputs(cases) ==
  LET all == DOMAIN cases
      executed == ExecutedAnswerable(cases)
      In(group) == Where(cases, LAMBDA x : x.case \in group)
  IN [endToEnd   |-> Rate(Correct(cases), all),
      result     |-> Rate(Correct(cases), executed),
      romanian   |-> Rate(Correct(cases), In(Romanian)),
      hard       |-> Rate(Correct(cases), In(Hard)),
      status     |-> Rate(StatusMatched(cases), all),
      generation |-> Rate(Generated(cases), all),
      repair     |-> Rate(RepairAttempts(cases), AnswerableGeneratedSQL(cases)),
      latency    |-> Median(cases)]

Infinity == 1000000000
Descending(value) == IF value = None THEN -Infinity ELSE value
Ascending(value) == IF value = None THEN -Infinity ELSE -value

Score(a) ==
  <<Descending(a.endToEnd), Descending(a.result), Descending(a.romanian),
    Descending(a.hard), Descending(a.status), Descending(a.generation),
    Ascending(a.repair), Ascending(a.latency)>>

Below(s, t) ==
  \E i \in DOMAIN s : s[i] < t[i] /\ \A j \in 1..(i - 1) : s[j] = t[j]

Within(x, y, tie) ==
  x # None /\ y # None /\ x - y \in -tie..tie

\* Mutant: Romanian accuracy may differ.
TiedInResults(a, b) ==
  /\ Within(a.endToEnd, b.endToEnd, EndToEndTie)
  /\ Within(a.result, b.result, AccuracyTie)

Tied(a, b) ==
  /\ Within(a.endToEnd, b.endToEnd, EndToEndTie)
  /\ Within(a.result, b.result, AccuracyTie)
  /\ Within(a.romanian, b.romanian, AccuracyTie)

\* Mutant: the slower one is preferred.
Slower(a, b) ==
  b.latency # None /\ (a.latency = None \/ a.latency > b.latency)

Faster(a, b) ==
  a.latency # None /\ (b.latency = None \/ a.latency < b.latency)

\* _recommend: the first of the two, unless the second is better.
Recommend(inputs) ==
  LET a == inputs[Candidates[1]]
      b == inputs[Candidates[2]]
      second == IF Tied(a, b) THEN Faster(b, a) ELSE Below(Score(a), Score(b))
  IN IF second THEN Candidates[2] ELSE Candidates[1]

Accepted(runs) ==
  /\ \A i \in DOMAIN runs : runs[i] # None
  /\ OneOfEach(runs)
  /\ \A i \in DOMAIN runs : Complete(runs[i])
  /\ Controlled(runs[1], runs[2])

\* Runs that are not accepted are a ModelComparisonError: nothing is written.
Compare(p, q) ==
  LET runs == <<artifact[p], artifact[q]>>
      inputs == [m \in Model |->
                   Inputs((CHOOSE run \in ToSet(runs) : run.model = m).cases)]
  IN /\ comparison = None
     /\ Accepted(runs)
     /\ comparison' =
          [paths |-> [m \in Model |-> IF artifact[p].model = m THEN p ELSE q],
           inputs |-> inputs,
           recommended |-> Recommend(inputs)]
     /\ UNCHANGED <<artifact, ranOn, commit>>

Next ==
  \/ \E c \in Commit : Checkout(c)
  \/ \E p \in Path, model \in Model, k \in Conditions : Create(p, model, k)
  \/ \E p \in Path : RunCase(p)
  \/ \E p, q \in Path : Compare(p, q)

Spec == Init /\ [][Next]_vars
-----------------------------------------------------------------------------
(***************************************************************************)
(* Properties.                                                             *)
(***************************************************************************)

Compared == comparison # None

Winner == comparison.recommended
Loser == CHOOSE m \in Model : m # Winner
CasesOf(m) == artifact[comparison.paths[m]].cases

\* The two models have been compared on the same cases, each run once and
\* under the same conditions, and on the same commit, unless a run was
\* resumed on another one than it was created on, which nothing checks
\* (_validate_controlled_runs, and the fingerprint of a resume).
ComparedRunsAreControlled ==
  Compared =>
    LET runs == [m \in Model |-> artifact[comparison.paths[m]]]
        Stayed(m) == ranOn[comparison.paths[m]] \subseteq {runs[m].commit}
    IN /\ \A m \in Model :
            /\ runs[m].model = m
            /\ [i \in DOMAIN runs[m].cases |-> runs[m].cases[i].case] =
               Selected[runs[m].conditions]
       /\ runs[Winner].conditions = runs[Loser].conditions
       /\ Stayed(Winner) /\ Stayed(Loser) =>
            ranOn[comparison.paths[Winner]] = ranOn[comparison.paths[Loser]]

CorrectCases(m, group) ==
  {c \in group : \E i \in DOMAIN CasesOf(m) :
                   CasesOf(m)[i].case = c /\ CasesOf(m)[i].correct}
ExecutedCases(m) == {CasesOf(m)[i].case : i \in ExecutedAnswerable(CasesOf(m))}

\* Two shares differ by at most a tie, and the last digit they are rounded to.
SharesTied(x, n, y, d, tie) ==
  n # 0 /\ d # 0 /\ Whole * (x * d - y * n) \in -(tie + 1) * n * d..(tie + 1) * n * d

\* The model with fewer correct cases is recommended only for its latency,
\* when the difference is small and result and Romanian accuracy are tied
\* (the rule the text of the recommendation states); "for its latency" is
\* as far as that it is not slower: with equal medians the first candidate
\* is recommended, also when it is the less accurate one.
LowerAccuracyOnlyForLatency ==
  Compared /\ Cardinality(Correct(CasesOf(Winner)))
                < Cardinality(Correct(CasesOf(Loser))) =>
    LET n == Len(CasesOf(Winner))
        roman == {CasesOf(Winner)[i].case : i \in 1..n} \cap Romanian
        Share(m, group) == Cardinality(CorrectCases(m, group))
    IN /\ SharesTied(Share(Winner, Case), n, Share(Loser, Case), n, EndToEndTie)
       /\ SharesTied(Share(Winner, ExecutedCases(Winner)),
                     Cardinality(ExecutedCases(Winner)),
                     Share(Loser, ExecutedCases(Loser)),
                     Cardinality(ExecutedCases(Loser)), AccuracyTie)
       /\ SharesTied(Share(Winner, roman), Cardinality(roman),
                     Share(Loser, roman), Cardinality(roman), AccuracyTie)
       /\ Median(CasesOf(Winner)) # None
       /\ Median(CasesOf(Loser)) # None =>
            Median(CasesOf(Winner)) <= Median(CasesOf(Loser))

\* m is correct wherever l is, has the same queries executed, and is faster.
Dominates(m, l) ==
  /\ CorrectCases(l, Case) \subseteq CorrectCases(m, Case)
  /\ ExecutedCases(l) = ExecutedCases(m)
  /\ Median(CasesOf(m)) # None /\ Median(CasesOf(l)) # None
  /\ Median(CasesOf(m)) < Median(CasesOf(l))

\* A model is never recommended over one that dominates it, when a case in
\* Romanian was compared and a query executed: then every rate the rule
\* looks at before latency agrees with the cases (_recommend).
NeverDominated ==
  Compared /\ ExecutedCases(Winner) # {}
    /\ {CasesOf(Winner)[i].case : i \in DOMAIN CasesOf(Winner)} \cap Romanian # {}
      => ~Dominates(Loser, Winner)
-----------------------------------------------------------------------------
(***************************************************************************)
(* The inductive invariant ComparedRunsAreControlled rests on.             *)
(***************************************************************************)

\* The cases of a run are the first of those selected; while there is none,
\* and only then, the run has not been on any commit.
RunHolds(p) ==
  LET run == artifact[p]
  IN /\ ranOn[p] \subseteq Commit
     /\ run = None => ranOn[p] = {}
     /\ run # None =>
          /\ run \in Run
          /\ Len(run.cases) <= Len(Selected[run.conditions])
          /\ \A i \in DOMAIN run.cases :
               run.cases[i].case = Selected[run.conditions][i]
          /\ run.cases = <<>> <=> ranOn[p] = {}

\* What was compared is still there: one complete run of each model, and
\* any two of them controlled.
ComparisonHolds ==
  Compared =>
    LET path == comparison.paths
    IN /\ \A m \in Model :
            /\ path[m] \in Path
            /\ artifact[path[m]] # None
            /\ artifact[path[m]].model = m
            /\ Complete(artifact[path[m]])
       /\ \A m, l \in Model :
            /\ artifact[path[m]].conditions = artifact[path[l]].conditions
            /\ artifact[path[m]].commit = artifact[path[l]].commit
       /\ comparison.recommended =
            Recommend([m \in Model |-> Inputs(artifact[path[m]].cases)])

ModelComparisonInv ==
  /\ DOMAIN artifact = Path /\ DOMAIN ranOn = Path
  /\ commit \in Commit
  /\ \A p \in Path : RunHolds(p)
  /\ ComparisonHolds
=============================================================================
