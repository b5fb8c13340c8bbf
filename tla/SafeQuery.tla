----------------------------- MODULE SafeQuery -----------------------------
(***************************************************************************)
(* What the query service promises for each request, whatever the          *)
(* provider, the pool, the database and the owner do meanwhile:            *)
(*   - only statements of a set fixed before the first one runs reach the  *)
(*     database;                                                           *)
(*   - at most two do, the second only after the first ended with a        *)
(*     correctable error;                                                  *)
(*   - the request is answered at most once, and the answer agrees with    *)
(*     how the last statement ended, or with none having run.              *)
(***************************************************************************)
CONSTANTS
  Request, Statement,
  Result,         \* the ways a statement ends, "rows" among them
  Correctable,    \* the results after which a second statement may run
  RunExceptions,  \* the exceptions that report a statement's end
  OtherExceptions,\* those raised while no statement is running
  None

VARIABLES
  allowed,  \* allowed[r]: the statements r may run
  ran,      \* ran[r][a]: the statement r ran in attempt a, or None
  result,   \* result[r][a]: how it ended, or None
  outcome   \* outcome[r]: the answer, or "pending"

vars == <<allowed, ran, result, outcome>>

Attempt == {"initial", "repair"}

Pending(r) == outcome[r] = "pending"

Running(r, a) == ran[r][a] # None /\ result[r][a] = None

Untouched(r) == ran[r] = [a \in Attempt |-> None]

Correcting(r) == result[r]["initial"] \in Correctable

Init ==
  /\ allowed \in [Request -> SUBSET Statement]
  /\ ran = [r \in Request |-> [a \in Attempt |-> None]]
  /\ result = [r \in Request |-> [a \in Attempt |-> None]]
  /\ outcome = [r \in Request |-> "pending"]

FixPolicy(r) ==
  /\ Pending(r)
  /\ Untouched(r)
  /\ \E S \in SUBSET Statement : allowed' = [allowed EXCEPT ![r] = S]
  /\ UNCHANGED <<ran, result, outcome>>

Run(r, a) ==
  /\ Pending(r)
  /\ IF a = "initial" THEN Untouched(r)
                      ELSE Correcting(r) /\ ran[r][a] = None
  /\ \E s \in allowed[r] : ran' = [ran EXCEPT ![r][a] = s]
  /\ UNCHANGED <<allowed, result, outcome>>

Correct(r) ==
  /\ Pending(r)
  /\ Running(r, "initial")
  /\ \E res \in Correctable :
       result' = [result EXCEPT ![r]["initial"] = res]
  /\ UNCHANGED <<allowed, ran, outcome>>

AnswerRows(r, a) ==
  /\ Pending(r)
  /\ Running(r, a)
  /\ result' = [result EXCEPT ![r][a] = "rows"]
  /\ outcome' = [outcome EXCEPT ![r] = "rows"]
  /\ UNCHANGED <<allowed, ran>>

AnswerFailedRun(r, a) ==
  /\ Pending(r)
  /\ Running(r, a)
  /\ \E res \in Result \ {"rows"}, exc \in RunExceptions :
       /\ result' = [result EXCEPT ![r][a] = res]
       /\ outcome' = [outcome EXCEPT ![r] = exc]
  /\ UNCHANGED <<allowed, ran>>

AnswerWithoutRun(r) ==
  /\ Pending(r)
  /\ \A a \in Attempt : ~Running(r, a)
  /\ \E out \in OtherExceptions \cup {"declined", "QueryRepairError"} :
       /\ out = "declined" => Untouched(r)
       /\ out = "QueryRepairError" => Correcting(r)
       /\ outcome' = [outcome EXCEPT ![r] = out]
  /\ UNCHANGED <<allowed, ran, result>>

Next ==
  \E r \in Request :
    \/ FixPolicy(r) \/ Correct(r) \/ AnswerWithoutRun(r)
    \/ \E a \in Attempt : Run(r, a) \/ AnswerRows(r, a) \/ AnswerFailedRun(r, a)

Spec == Init /\ [][Next]_vars
=============================================================================
