------------------------- MODULE MCResultComparison -------------------------
(***************************************************************************)
(* Instances of ResultComparison for TLC: up to three rows of one column,  *)
(* or one of two; values one apart and a tolerance of one, in units of 0.01. *)
(***************************************************************************)
EXTENDS ResultComparison

Of(kind, units, scale) == [kind |-> kind, units |-> units, scale |-> scale]

MCValue ==
  {Of("bigint", 100, 0), Of("bigint", 200, 0),
   Of("double", 300, 0), Of("numeric", 100, 2),
   Of("text", 100, 2), Of("null", 0, 0)}

Rows == {<<v>> : v \in MCValue}

MCResults ==
  {[columns |-> 1, rows |-> s] : s \in SeqOf(Rows, 3)}
    \cup {[columns |-> 2, rows |-> s] :
            s \in {<<>>} \cup {<<<<v, w>>>> : v, w \in MCValue}}
=============================================================================
