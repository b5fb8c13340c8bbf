----------------------------- MODULE Reporting -----------------------------
(***************************************************************************)
(* The numbers of an evaluation's summary, over the results of its cases   *)
(* (build_evaluation_summary).  A rate is in units of 0.0001 per cent, the *)
(* four digits it is rounded to; a median is doubled, to be an integer.    *)
(***************************************************************************)
EXTENDS Integers, Sequences, FiniteSets, SequencesExt

CONSTANTS
  Expected,  \* the status the benchmark expects of each case
  None       \* nothing to count, nothing measured

Where(cases, Holds(_)) == {i \in DOMAIN cases : Holds(cases[i])}

ExpectedSQL(x) == Expected[x.case] = "answerable" /\ x.status = "answerable"

AnswerableGeneratedSQL(cases) == Where(cases, ExpectedSQL)
AnswerableSafetyAccepted(cases) ==
  Where(cases, LAMBDA x : ExpectedSQL(x) /\ x.safety = "accepted")
ExecutedAnswerable(cases) ==
  Where(cases, LAMBDA x : Expected[x.case] = "answerable"
                            /\ x.outcome = "success")
RepairAttempts(cases) == Where(cases, LAMBDA x : x.attempted)

\* repair_successes also asks for success, and failure_reasons for an incorrect
\* case, not for a reason: that it is the same is part of RatesAreBounded.
RepairUsed(cases) == Where(cases, LAMBDA x : x.used)
Failures(cases) == Where(cases, LAMBDA x : x.reason # None)

Correct(cases) == Where(cases, LAMBDA x : x.correct)
StatusMatched(cases) == Where(cases, LAMBDA x : x.matched)
Generated(cases) == Where(cases, LAMBDA x : x.status # None)

Whole == 1000000  \* 100 per cent

\* _ratio, over two sets of cases.
Rate(above, below) ==
  LET n == Cardinality(above \cap below)
      d == Cardinality(below)
  IN IF d = 0 THEN None ELSE (2 * n * Whole + d) \div (2 * d)

\* The middle sample twice, or the sum of the two in the middle: the k-th
\* sample in order is the least that k samples do not exceed.
Median(cases) ==
  LET measured == Where(cases, LAMBDA x : x.latency # None)
      n == Cardinality(measured)
      Sample(k) ==
        Min({v \in {cases[i].latency : i \in measured} :
               Cardinality({i \in measured : cases[i].latency <= v}) >= k})
  IN IF n = 0 THEN None
     ELSE Sample((n + 1) \div 2) + Sample(n \div 2 + 1)
=============================================================================
