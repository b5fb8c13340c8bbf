--------------------------- MODULE MCEvaluationRun ---------------------------
(***************************************************************************)
(* An instance of EvaluationRun for TLC: an answerable case, then one that *)
(* is expected to be declined; a transient failure and a permanent one.    *)
(***************************************************************************)
EXTENDS EvaluationRun, TLC

MCSelected == <<"top_customers", "weather">>
MCExpected == [top_customers |-> "answerable", weather |-> "unanswerable"]

\* Processes are interchangeable, and so are configurations.
Symmetry == Permutations(Runner) \cup Permutations(Config)
=============================================================================
