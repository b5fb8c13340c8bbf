-------------------------- MODULE MCModelComparison --------------------------
(***************************************************************************)
(* An instance of ModelComparison for TLC: three cases, the second in      *)
(* Romanian, the third hard; right, wrong and failed results, one repaired.*)
(***************************************************************************)
EXTENDS ModelComparison

MCSelected == [k \in {"medium", "high"} |-> <<"accounts", "clienti", "ranking">>]
MCExpected == [c \in {"accounts", "clienti", "ranking"} |-> "answerable"]

Result(c, correct, repaired, latency) ==
  [case |-> c, status |-> "answerable", matched |-> TRUE,
   safety |-> "accepted", outcome |-> "success", correct |-> correct,
   attempted |-> repaired, used |-> repaired, latency |-> latency,
   reason |-> IF correct THEN None ELSE "mismatch"]

Failed(c) ==
  [case |-> c, status |-> None, matched |-> FALSE,
   safety |-> "not_applicable", outcome |-> "provider_error",
   correct |-> FALSE, attempted |-> FALSE, used |-> FALSE, latency |-> None,
   reason |-> "GroqRequestError"]

MCResults ==
  [c \in DOMAIN MCExpected |->
     {Result(c, TRUE, FALSE, 1), Result(c, TRUE, c = "ranking", 2)}
       \cup (IF c = "ranking" THEN {} ELSE {Result(c, FALSE, FALSE, 1)})
       \cup (IF c = "accounts" THEN {} ELSE {Failed(c)})]

MCCandidates == <<"openai/gpt-oss-20b", "openai/gpt-oss-120b">>

\* Paths are interchangeable, and so are commits.
Symmetry == Permutations(Path) \cup Permutations(Commit)
=============================================================================
