-------------------------- MODULE ResultComparison --------------------------
(***************************************************************************)
(* compare_query_results on two results of the executor, as run_case calls *)
(* it: the rows of the generated query and those of the trusted reference, *)
(* each value serialized by the executor and normalized by the comparison. *)
(*                                                                         *)
(* A database value has a kind, an amount in units of the smallest scale,  *)
(* and, where it is written out, the scale it is written with.  A text is  *)
(* one that reads like a number: 1.00 is not 1.0 then.                     *)
(***************************************************************************)
EXTENDS Integers, Sequences, FiniteSets, SequencesExt

CONSTANTS
  Value,         \* database values: [kind, units, scale]
  QueryResults,  \* the results a query may have: [columns, rows]
  Modes,         \* comparison modes
  Tolerances,    \* numeric tolerances, Absent among them
  Absent         \* Python's None: no tolerance, no row left to match, no verdict

VARIABLES
  generated,  \* the generated query's result
  reference,  \* the reference query's result
  mode,       \* the case's comparison mode
  tolerance,  \* the case's numeric tolerance, or Absent
  verdict     \* the reason of the ResultComparison, or Absent

comparisonVars == <<generated, reference, mode, tolerance, verdict>>

(***************************************************************************)
(* From the database to the comparison.                                    *)
(***************************************************************************)

\* The executor keeps integers and floats and writes decimals out as text.
Serialized(v) ==
  CASE v.kind \in {"numeric", "text"} -> [type |-> "str", units |-> v.units,
                                          scale |-> v.scale]
    [] v.kind = "bigint"              -> [type |-> "int", units |-> v.units,
                                          scale |-> 0]
    [] v.kind = "double"              -> [type |-> "float", units |-> v.units,
                                          scale |-> 0]
    [] OTHER                          -> [type |-> "None", units |-> 0,
                                          scale |-> 0]

\* The comparison's type tag; the scale of a number is lost, a text's not.
Normalized(v) ==
  [tag |-> CASE v.type \in {"int", "float"} -> "number"
             [] v.type = "str"              -> "string"
             [] OTHER                       -> "null",
   units |-> v.units,
   scale |-> v.scale]

RowsOf(result) ==
  [i \in DOMAIN result.rows |->
     [j \in DOMAIN result.rows[i] |->
        Normalized(Serialized(result.rows[i][j]))]]

Cells == {Normalized(Serialized(v)) : v \in Value}

ASSUME ComparisonAssumption ==
  /\ \A v \in Value : v.units \in Int
  /\ \A result \in QueryResults :
       /\ result.columns \in Nat
       /\ result.rows \in Seq([1..result.columns -> Value])
  /\ Modes \subseteq {"scalar", "ordered_rows", "unordered_rows"}
  /\ Tolerances \subseteq Nat \cup {Absent}
  /\ Absent \notin {"matched", "result_mismatch"}
  /\ Absent \notin Seq(Seq(Cells))

(***************************************************************************)
(* The comparison.                                                         *)
(***************************************************************************)

Distance(x, y) == IF x.units < y.units THEN y.units - x.units
                                       ELSE x.units - y.units

\* Mutant: a difference of just the tolerance is too much.
ValuesCloser(x, y, tol) ==
  \/ x = y
  \/ /\ tol # Absent /\ x.tag = "number" /\ y.tag = "number"
     /\ Distance(x, y) < tol

ValuesEqual(x, y, tol) ==
  \/ x = y
  \/ /\ tol # Absent /\ x.tag = "number" /\ y.tag = "number"
     /\ Distance(x, y) <= tol

RowsEqual(left, right, tol) ==
  /\ Len(left) = Len(right)
  /\ \A i \in DOMAIN left : ValuesEqual(left[i], right[i], tol)

OrderedEqual(left, right, tol) ==
  /\ Len(left) = Len(right)
  /\ \A i \in DOMAIN left : RowsEqual(left[i], right[i], tol)

Counter(rows) ==
  [row \in ToSet(rows) |-> Cardinality({i \in DOMAIN rows : rows[i] = row})]

\* Mutant: a row that is matched stays among the unmatched ones.
StillThere(unmatched, match) == unmatched

Popped(unmatched, match) == RemoveAt(unmatched, match)

\* A row takes the first of the unmatched rows that is equal to it.
Take(unmatched, row, tol) ==
  LET match == IF unmatched = Absent THEN 0
               ELSE SelectInSeq(unmatched, LAMBDA r : RowsEqual(row, r, tol))
  IN IF match = 0 THEN Absent ELSE Popped(unmatched, match)

\* What the first i rows of the left leave of the right.
Unmatched(left, right, tol) ==
  LET after[i \in 0..Len(left)] ==
        IF i = 0 THEN right ELSE Take(after[i - 1], left[i], tol)
  IN after

UnorderedEqualWithTolerance(left, right, tol) ==
  /\ Len(left) = Len(right)
  /\ Unmatched(left, right, tol)[Len(left)] # Absent

Matched(left, right) ==
  CASE mode = "scalar"       -> ValuesEqual(left[1][1], right[1][1], tolerance)
    [] mode = "ordered_rows" -> OrderedEqual(left, right, tolerance)
    [] mode = "unordered_rows" /\ tolerance = Absent ->
         Counter(left) = Counter(right)
    [] OTHER -> UnorderedEqualWithTolerance(left, right, tolerance)

ScalarShape(left, right) ==
  Len(left) = 1 /\ Len(right) = 1 /\ generated.columns = 1

Comparison ==
  LET left == RowsOf(generated)
      right == RowsOf(reference)
  IN IF generated.columns # reference.columns THEN "column_count_mismatch"
     ELSE IF mode = "scalar" /\ ~ScalarShape(left, right)
            THEN "scalar_shape_mismatch"
     ELSE IF Matched(left, right) THEN "matched" ELSE "result_mismatch"

ComparisonInit ==
  /\ generated \in QueryResults
  /\ reference \in QueryResults
  /\ mode \in Modes
  /\ tolerance \in Tolerances
  /\ verdict = Absent

Compare ==
  /\ verdict = Absent
  /\ verdict' = Comparison
  /\ UNCHANGED <<generated, reference, mode, tolerance>>

ComparisonSpec == ComparisonInit /\ [][Compare]_comparisonVars
-----------------------------------------------------------------------------
(***************************************************************************)
(* Properties.                                                             *)
(***************************************************************************)

Pairings(n) == {p \in [1..n -> 1..n] : \A i, j \in 1..n : p[i] = p[j] => i = j}

Close(x, y) ==
  \/ x = y
  \/ /\ tolerance # Absent /\ {x.tag, y.tag} = {"number"}
     /\ x.units - y.units \in -tolerance..tolerance

RowsClose(left, right) == \A i \in DOMAIN left : Close(left[i], right[i])

\* The two results, of one width, are the same rows, each within the
\* tolerance, in some order; in the given order, unless the mode is
\* "unordered_rows".
SameRows(left, right) ==
  /\ Len(left) = Len(right)
  /\ \E p \in Pairings(Len(left)) :
       /\ \A i \in DOMAIN left : RowsClose(left[i], right[p[i]])
       /\ mode # "unordered_rows" => \A i \in DOMAIN left : p[i] = i

\* Closeness is an equivalence on the rows at hand.
CloseIsTransitive(rows) ==
  \A x, y, z \in rows :
    RowsClose(x, y) /\ RowsClose(y, z) => RowsClose(x, z)

\* A match is one: the rows pair off one to one, duplicates included, each
\* pair within the tolerance, in the order the mode asks for, and the shapes
\* agree (the greedy search of _unordered_equal_with_tolerance takes no row
\* twice).
MatchesAreSound ==
  verdict = "matched" =>
    /\ generated.columns = reference.columns
    /\ mode = "scalar" => Len(generated.rows) = 1 /\ generated.columns = 1
    /\ SameRows(RowsOf(generated), RowsOf(reference))

\* And every result that pairs off so is a match, although the search never
\* takes back a choice, as long as closeness is transitive among the rows:
\* the values are the same or farther apart than twice the tolerance.
MatchesAreComplete ==
  LET left == RowsOf(generated)
      right == RowsOf(reference)
  IN verdict = "result_mismatch"
       /\ CloseIsTransitive(ToSet(left) \cup ToSet(right))
         => ~SameRows(left, right)

\* The inductive invariant: a verdict is that of the results at hand.
ComparisonInv ==
  /\ generated \in QueryResults /\ reference \in QueryResults
  /\ mode \in Modes /\ tolerance \in Tolerances
  /\ verdict \in {Absent, Comparison}

Numeric == {"bigint", "numeric", "double"}

\* tests/test_evaluation_harness.py:95 says that scalar comparison uses exact
\* numeric values: equal numbers match, whatever their SQL types.
EqualNumbersMatch ==
  LET x == generated.rows[1][1]
      y == reference.rows[1][1]
  IN verdict = "result_mismatch" /\ mode = "scalar"
       /\ {x.kind, y.kind} \subseteq Numeric => x.units # y.units
=============================================================================
