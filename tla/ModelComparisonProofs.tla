----------------------- MODULE ModelComparisonProofs -----------------------
(***************************************************************************)
(* ModelComparison's properties, for any paths, commits, conditions,       *)
(* cases and results.                                                      *)
(***************************************************************************)
EXTENDS ModelComparison, FiniteSetsExt, TLAPS, SequenceTheorems,
        FiniteSetTheorems, WellFoundedInduction

\* The minimum of a set of numbers is one of its elements, and the least.
LEMMA MinIsLeast ==
  ASSUME NEW S \in SUBSET Nat, S # {}
  PROVE  Min(S) \in S /\ \A i \in S : Min(S) <= i
<1>. DEFINE R == {ss \in Nat \X Nat : ss[1] < ss[2]}
<1>1. IsWellFoundedOn(R, Nat)
  BY NatLessThanWellFounded DEF OpToRel
<1>2. \A i, j \in Nat : i < j => <<i, j>> \in R
  OBVIOUS
<1>. HIDE DEF R
<1>3. PICK least \in S : \A i \in S : <<i, least>> \notin R
  BY <1>1, WFMin
<1>4. \A i \in S : ~(i < least)
  BY <1>2, <1>3
<1>5. least \in Nat /\ \A i \in S : i \in Nat
  OBVIOUS
<1>6. \A i \in S : least <= i
  BY <1>4, <1>5
<1>7. QED
  BY <1>6 DEF Min

\* A finite set has a greatest element: of the sets of what is above an
\* element of S, the smallest is empty.
LEMMA GreatestExists ==
  ASSUME NEW S \in SUBSET Nat, IsFiniteSet(S), S # {}
  PROVE  \E greatest \in S : \A i \in S : i <= greatest
<1>. DEFINE Above(n) == {i \in S : i > n}
            Tails == {Above(n) : n \in S}
<1>1. ASSUME NEW n \in S
      PROVE  IsFiniteSet(Above(n))
  BY FS_Subset
<1>2. Tails \subseteq FiniteSubsetsOf(S) /\ Tails # {}
  BY <1>1 DEF FiniteSubsetsOf
<1>3. PICK X \in Tails : \A Y \in Tails : <<Y, X>> \notin StrictSubsetOrdering(S)
  BY <1>2, FS_StrictSubsetOrderingWellFounded, WFMin
<1>4. PICK greatest \in S : X = Above(greatest)
  BY <1>3
<1>5. ASSUME NEW i \in S, i > greatest
      PROVE  FALSE
  <2>1. Above(i) \subseteq Above(greatest) /\ i \in Above(greatest)
        /\ i \notin Above(i)
    <3>1. i \in Nat /\ greatest \in Nat /\ \A j \in S : j \in Nat
      OBVIOUS
    <3>2. \A j \in S : j > i => j > greatest
      BY <1>5, <3>1
    <3>3. ~(i > i)
      BY <3>1
    <3>4. QED
      BY <1>5, <3>2, <3>3
  <2>2. <<Above(i), Above(greatest)>> \in StrictSubsetOrdering(S)
    BY <2>1 DEF StrictSubsetOrdering
  <2>3. QED
    BY <1>3, <1>4, <2>2
<1>6. QED
  BY <1>5
\* The two models.
LEMMA TwoModels ==
  Model = {Candidates[1], Candidates[2]} /\ Candidates[1] # Candidates[2]
BY ModelComparisonAssumption DEF Model, ToSet

\* The cases that are selected.
LEMMA SelectedCases ==
  ASSUME NEW k \in Conditions
  PROVE  /\ Len(Selected[k]) \in Nat \ {0}
         /\ DOMAIN Selected[k] = 1..Len(Selected[k])
         /\ \A i \in DOMAIN Selected[k] : Selected[k][i] \in Case
         /\ \A i, j \in DOMAIN Selected[k] :
              Selected[k][i] = Selected[k][j] => i = j
<1>1. Selected[k] \in Seq(DOMAIN Expected) /\ Selected[k] # <<>>
  BY ModelComparisonAssumption
<1>2. \A i \in DOMAIN Selected[k] : Selected[k][i] \in Case
  BY DEF Case, ToSet
<1>3. Len(Selected[k]) # 0
  BY <1>1
<1>4. QED
  BY <1>1, <1>2, <1>3, ModelComparisonAssumption

\* The cases of a run.
LEMMA CasesOfRun ==
  ASSUME NEW run \in Run
  PROVE  /\ run.cases \in Seq(CaseResult)
         /\ Len(run.cases) \in Nat
         /\ DOMAIN run.cases = 1..Len(run.cases)
         /\ \A i \in DOMAIN run.cases : run.cases[i] \in CaseResult
BY DEF Run

-----------------------------------------------------------------------------

LEMMA InitInv == Init => ModelComparisonInv
BY DEF Init, ModelComparisonInv, RunHolds, ComparisonHolds, Compared

\* A run that a step leaves alone.
LEMMA OthersHold ==
  ASSUME NEW p, RunHolds(p), artifact'[p] = artifact[p], ranOn'[p] = ranOn[p]
  PROVE  RunHolds(p)'
BY DEF RunHolds

LEMMA CheckoutStep ==
  ASSUME ModelComparisonInv, NEW c \in Commit, Checkout(c)
  PROVE  ModelComparisonInv'
<1>1. \A p \in Path : RunHolds(p)'
  BY OthersHold DEF ModelComparisonInv, Checkout
<1>2. ComparisonHolds'
  BY DEF Checkout, ComparisonHolds, Compared
<1>3. QED
  BY <1>1, <1>2 DEF ModelComparisonInv, Checkout

LEMMA CreateStep ==
  ASSUME ModelComparisonInv,
         NEW p \in Path, NEW model \in Model, NEW k \in Conditions,
         Create(p, model, k)
  PROVE  ModelComparisonInv'
<1>1. ASSUME NEW q \in Path
      PROVE  RunHolds(q)'
  <2>1. CASE q = p
    <3>1. artifact'[p] = NewRun(model, k) /\ ranOn' = ranOn /\ ranOn[p] = {}
      BY DEF ModelComparisonInv, Create, RunHolds
    <3>2. NewRun(model, k) \in Run
      BY DEF ModelComparisonInv, NewRun, Run
    <3>3. /\ NewRun(model, k).cases = <<>>
          /\ NewRun(model, k).conditions = k
      BY DEF NewRun
    <3>4. Len(NewRun(model, k).cases) <= Len(Selected[k])
      BY <3>3, SelectedCases
    <3>5. QED
      BY <2>1, <3>1, <3>2, <3>3, <3>4 DEF RunHolds
  <2>2. CASE q # p
    BY <2>2, OthersHold DEF ModelComparisonInv, Create
  <2>3. QED
    BY <2>1, <2>2
<1>2. ComparisonHolds'
  BY DEF Create, ComparisonHolds, Compared
<1>3. QED
  BY <1>1, <1>2 DEF ModelComparisonInv, Create

\* The one field of a run that changes.
LEMMA CasesField ==
  ASSUME NEW model, NEW k, NEW c, NEW old, NEW new, NEW base, NEW x,
         base = [model |-> model, conditions |-> k, commit |-> c, cases |-> old],
         x = [base EXCEPT !.cases = new]
  PROVE  x = [model |-> model, conditions |-> k, commit |-> c, cases |-> new]
OBVIOUS

LEMMA RunCaseStep ==
  ASSUME ModelComparisonInv, NEW p \in Path, RunCase(p)
  PROVE  ModelComparisonInv'
<1>. DEFINE run == artifact[p]
            old == run.cases
            n == Len(old)
            selected == Selected[run.conditions]
<1>1. /\ run \in Run /\ n < Len(selected)
      /\ \A i \in DOMAIN old : old[i].case = selected[i]
  BY DEF ModelComparisonInv, RunCase, RunHolds
<1>2. PICK x \in Results[selected[n + 1]] :
        artifact' = [artifact EXCEPT ![p] = [run EXCEPT !.cases = Append(old, x)]]
  BY DEF RunCase
<1>3. PICK new : new = Append(old, x)
  OBVIOUS
<1>4. run.conditions \in Conditions
  BY <1>1 DEF Run
<1>5. n \in Nat /\ old \in Seq(CaseResult) /\ DOMAIN old = 1..n
  BY <1>1, CasesOfRun
<1>6. selected[n + 1] \in Case
  BY <1>1, <1>4, <1>5, SelectedCases
<1>7. x \in CaseResult /\ x.case = selected[n + 1]
  BY <1>6, ModelComparisonAssumption DEF CaseResult
<1>8. /\ new \in Seq(CaseResult) /\ Len(new) = n + 1 /\ DOMAIN new = 1..(n + 1)
      /\ \A i \in 1..n : new[i] = old[i]
      /\ new[n + 1] = x /\ new # <<>>
  BY <1>3, <1>5, <1>7
<1>9. artifact'[p] = [model |-> run.model, conditions |-> run.conditions,
                      commit |-> run.commit, cases |-> new]
  <2>1. run = [model |-> run.model, conditions |-> run.conditions,
               commit |-> run.commit, cases |-> old]
    BY <1>1 DEF Run
  <2>2. artifact'[p] = [run EXCEPT !.cases = new]
    BY <1>2, <1>3 DEF ModelComparisonInv
  <2>3. QED
    BY <2>1, <2>2, CasesField, Zenon
<1>10. artifact'[p] \in Run
  BY <1>1, <1>8, <1>9 DEF Run
<1>11. ranOn'[p] = ranOn[p] \cup {commit} /\ ranOn[p] \cup {commit} \subseteq Commit
  BY DEF ModelComparisonInv, RunCase, RunHolds
<1>12. \A i \in DOMAIN new : new[i].case = selected[i]
  <2>. HIDE DEF run, old, n, selected
  <2>1. \A i \in 1..n : new[i].case = selected[i]
    BY <1>1, <1>5, <1>8
  <2>2. new[n + 1].case = selected[n + 1]
    BY <1>7, <1>8
  <2>3. 1..(n + 1) = (1..n) \cup {n + 1}
    BY <1>5
  <2>4. QED
    BY <1>8, <2>1, <2>2, <2>3
<1>13. n + 1 <= Len(selected)
  BY <1>1, <1>4, <1>5, SelectedCases
<1>14. artifact'[p].cases = new /\ artifact'[p].conditions = run.conditions
  BY <1>9
<1>15. artifact'[p] # None
  BY <1>10, ModelComparisonAssumption
<1>. HIDE DEF run, old, n, selected
<1>16. RunHolds(p)'
  <2>1. ranOn'[p] # {} /\ ranOn'[p] \subseteq Commit
    BY <1>11
  <2>2. Len(artifact'[p].cases) <= Len(Selected[artifact'[p].conditions])
    BY <1>8, <1>13, <1>14 DEF selected
  <2>3. \A i \in DOMAIN artifact'[p].cases :
          artifact'[p].cases[i].case = Selected[artifact'[p].conditions][i]
    BY <1>12, <1>14 DEF selected
  <2>4. artifact'[p].cases # <<>>
    BY <1>8, <1>14
  <2>5. QED
    BY <1>10, <1>15, <2>1, <2>2, <2>3, <2>4, Zenon DEF RunHolds
<1>17. ASSUME NEW q \in Path
      PROVE  RunHolds(q)'
  <2>1. CASE q # p
    BY <2>1, OthersHold DEF ModelComparisonInv, RunCase
  <2>2. QED
    BY <1>16, <2>1
<1>18. ComparisonHolds'
  BY DEF RunCase, ComparisonHolds, Compared
<1>19. QED
  BY <1>17, <1>18 DEF ModelComparisonInv, RunCase

\* The two runs are of one model each; the other has the other model.
LEMMA CompareStep ==
  ASSUME ModelComparisonInv, NEW p \in Path, NEW q \in Path, Compare(p, q)
  PROVE  ModelComparisonInv'
<1>. DEFINE runs == <<artifact[p], artifact[q]>>
            path == [m \in Model |-> IF artifact[p].model = m THEN p ELSE q]
            chosen(m) == CHOOSE run \in ToSet(runs) : run.model = m
            inputs == [m \in Model |-> Inputs(chosen(m).cases)]
<1>1. /\ UNCHANGED <<artifact, ranOn, commit>>
      /\ Accepted(runs)
      /\ comparison' = [paths |-> path, inputs |-> inputs,
                        recommended |-> Recommend(inputs)]
  BY DEF Compare
<1>2. \A r \in Path : RunHolds(r)'
  BY <1>1, OthersHold DEF ModelComparisonInv
<1>3. /\ artifact[p] # None /\ artifact[q] # None
      /\ Complete(artifact[p]) /\ Complete(artifact[q])
      /\ {artifact[p].model, artifact[q].model} = Model
      /\ Controlled(artifact[p], artifact[q])
  <2>1. DOMAIN runs = {1, 2} /\ runs[1] = artifact[p] /\ runs[2] = artifact[q]
    OBVIOUS
  <2>. HIDE DEF runs
  <2>2. QED
    BY <1>1, <2>1 DEF Accepted, OneOfEach
<1>4. artifact[p].model # artifact[q].model
  BY <1>3, TwoModels
<1>5. ASSUME NEW m \in Model
      PROVE  path[m] \in {p, q} /\ artifact[path[m]].model = m
  BY <1>3
<1>6. ASSUME NEW m \in Model
      PROVE  chosen(m) = artifact[path[m]]
  <2>1. ToSet(runs) = {artifact[p], artifact[q]}
    BY DEF ToSet
  <2>. HIDE DEF runs
  <2>2. artifact[path[m]] \in ToSet(runs) /\ artifact[path[m]].model = m
    BY <1>5, <2>1
  <2>. HIDE DEF path
  <2>3. \A run \in ToSet(runs) : run.model = m => run = artifact[path[m]]
    BY <1>4, <1>5, <2>1, <2>2
  <2>4. QED
    BY <2>2, <2>3
<1>7. inputs = [m \in Model |-> Inputs(artifact[path[m]].cases)]
  <2>. HIDE DEF chosen, path
  <2>1. QED
    BY <1>6
<1>. HIDE DEF path, inputs, runs
<1>8. comparison'.paths = path /\ comparison'.recommended = Recommend(inputs)
  BY <1>1
<1>9. /\ \A m \in Model :
           /\ path[m] \in Path
           /\ artifact[path[m]] # None
           /\ artifact[path[m]].model = m
           /\ Complete(artifact[path[m]])
      /\ \A m, l \in Model :
           /\ artifact[path[m]].conditions = artifact[path[l]].conditions
           /\ artifact[path[m]].commit = artifact[path[l]].commit
  BY <1>3, <1>5 DEF Controlled
<1>10. ComparisonHolds'
  <2>1. artifact' = artifact
    BY <1>1
  <2>2. QED
    BY <1>7, <1>8, <1>9, <2>1, Zenon DEF ComparisonHolds, Complete
<1>11. QED
  BY <1>1, <1>2, <1>10 DEF ModelComparisonInv

LEMMA NextInv == ModelComparisonInv /\ [Next]_vars => ModelComparisonInv'
<1>. SUFFICES ASSUME ModelComparisonInv, [Next]_vars PROVE ModelComparisonInv'
  OBVIOUS
<1>1. CASE UNCHANGED vars
  <2>1. \A p \in Path : RunHolds(p)'
    BY <1>1, OthersHold DEF ModelComparisonInv, vars
  <2>2. ComparisonHolds'
    BY <1>1 DEF ModelComparisonInv, ComparisonHolds, Compared, vars
  <2>3. QED
    BY <1>1, <2>1, <2>2 DEF ModelComparisonInv, vars
<1>2. CASE Next
  BY <1>2, CheckoutStep, CreateStep, RunCaseStep, CompareStep, Zenon DEF Next
<1>3. QED
  BY <1>1, <1>2

LEMMA ModelComparisonInvariant == Spec => []ModelComparisonInv
BY InitInv, NextInv, PTL DEF Spec

-----------------------------------------------------------------------------

\* The model that was not recommended.
LEMMA WinnerAndLoser ==
  ASSUME ModelComparisonInv, Compared
  PROVE  /\ Winner \in Model /\ Loser \in Model /\ Winner # Loser
         /\ Model = {Winner, Loser}
<1>1. Winner \in Model
  BY TwoModels DEF ModelComparisonInv, ComparisonHolds, Winner, Recommend
<1>2. QED
  BY <1>1, TwoModels DEF Loser

\* A complete run of the conditions' cases, in their order.
LEMMA ComparedRun ==
  ASSUME ModelComparisonInv, Compared, NEW m \in Model
  PROVE  LET run == artifact[comparison.paths[m]] IN
         /\ run \in Run /\ run.model = m /\ run.conditions \in Conditions
         /\ DOMAIN run.cases = DOMAIN Selected[run.conditions]
         /\ \A i \in DOMAIN run.cases :
              run.cases[i].case = Selected[run.conditions][i]
         /\ run.cases # <<>>
         /\ ranOn[comparison.paths[m]] # {}
<1>. DEFINE p == comparison.paths[m]
            run == artifact[p]
<1>1. p \in Path /\ run # None /\ run.model = m /\ Complete(run)
  BY DEF ModelComparisonInv, ComparisonHolds
<1>2. RunHolds(p)
  BY <1>1 DEF ModelComparisonInv
<1>. HIDE DEF p
<1>3. /\ run \in Run
      /\ \A i \in DOMAIN run.cases : run.cases[i].case = Selected[run.conditions][i]
      /\ run.cases = <<>> <=> ranOn[p] = {}
  BY <1>1, <1>2 DEF RunHolds
<1>4. run.conditions \in Conditions
  BY <1>3 DEF Run
<1>5. DOMAIN run.cases = DOMAIN Selected[run.conditions]
  BY <1>1, <1>3, <1>4, CasesOfRun, SelectedCases DEF Complete
<1>6. run.cases # <<>>
  BY <1>1, <1>4, SelectedCases DEF Complete
<1>7. QED
  BY <1>1, <1>3, <1>4, <1>5, <1>6 DEF p

\* The models that are compared have run the same cases, each once, under the
\* same conditions; on the same commit, unless a run was resumed on another.
THEOREM ControlledRuns == Spec => []ComparedRunsAreControlled
<1>1. ASSUME ModelComparisonInv, Compared
      PROVE  ComparedRunsAreControlled
  <2>. DEFINE run(m) == artifact[comparison.paths[m]]
              on(m) == ranOn[comparison.paths[m]]
  <2>1. ASSUME NEW m \in Model
        PROVE  /\ run(m).model = m
               /\ [i \in DOMAIN run(m).cases |-> run(m).cases[i].case] =
                  Selected[run(m).conditions]
    <3>. DEFINE selected == Selected[run(m).conditions]
    <3>1. /\ run(m).model = m /\ run(m).conditions \in Conditions
          /\ DOMAIN run(m).cases = DOMAIN selected
          /\ \A i \in DOMAIN run(m).cases : run(m).cases[i].case = selected[i]
      BY <1>1, ComparedRun
    <3>2. selected = [i \in DOMAIN selected |-> selected[i]]
      <4>1. selected \in Seq(DOMAIN Expected)
        BY <3>1, ModelComparisonAssumption
      <4>. HIDE DEF selected
      <4>2. QED
        BY <4>1
    <3>. HIDE DEF run, selected
    <3>3. [i \in DOMAIN run(m).cases |-> run(m).cases[i].case] =
            [i \in DOMAIN selected |-> selected[i]]
      BY <3>1
    <3>4. QED
      BY <3>1, <3>2, <3>3, Zenon DEF selected
  <2>2. /\ run(Winner).conditions = run(Loser).conditions
        /\ run(Winner).commit = run(Loser).commit
    BY <1>1, WinnerAndLoser DEF ModelComparisonInv, ComparisonHolds
  <2>3. on(Winner) # {} /\ on(Loser) # {}
    BY <1>1, WinnerAndLoser, ComparedRun
  <2>4. on(Winner) \subseteq {run(Winner).commit} /\ on(Loser) \subseteq {run(Loser).commit}
          => on(Winner) = on(Loser)
    <3>. HIDE DEF on, run
    <3>1. QED
      BY <2>2, <2>3
  <2>. DEFINE runs == [m \in Model |-> run(m)]
  <2>5. Winner \in Model /\ Loser \in Model /\ \A m \in Model : runs[m] = run(m)
    BY <1>1, WinnerAndLoser
  <2>. HIDE DEF runs
  <2>6. \A m \in Model :
          /\ runs[m].model = m
          /\ [i \in DOMAIN runs[m].cases |-> runs[m].cases[i].case] =
             Selected[runs[m].conditions]
    <3>1. TAKE m \in Model
    <3>2. runs[m] = run(m)
      BY <2>5
    <3>. HIDE DEF run
    <3>3. QED
      BY <2>1, <3>2, Zenon
  <2>7. /\ runs[Winner].conditions = runs[Loser].conditions
        /\ runs[Winner].commit = run(Winner).commit
        /\ runs[Loser].commit = run(Loser).commit
    <3>. HIDE DEF run
    <3>1. QED
      BY <2>2, <2>5
  <2>8. QED
    BY <2>4, <2>6, <2>7, Zenon DEF ComparedRunsAreControlled, runs
<1>2. ModelComparisonInv => ComparedRunsAreControlled
  BY <1>1 DEF ComparedRunsAreControlled
<1>3. QED
  BY <1>2, ModelComparisonInvariant, PTL

-----------------------------------------------------------------------------
(***************************************************************************)
(* The rates and the medians, and the rounding.                            *)
(***************************************************************************)

LEMMA WholeType == Whole \in Nat \ {0}
BY SMT DEF Whole

\* A quotient is rounded down.
LEMMA Quotient ==
  ASSUME NEW a \in Nat, NEW d \in Nat \ {0}
  PROVE  /\ a \div d \in Nat
         /\ d * (a \div d) <= a
         /\ a < d * (a \div d) + d
OBVIOUS

\* A product grows with its factors.
LEMMA Products ==
  ASSUME NEW p \in Int, NEW q \in Int, NEW d \in Nat, p <= q
  PROVE  d * p <= d * q
OBVIOUS

\* More is at least as much in the quotient, and a divisor more is more.
LEMMA QuotientGrows ==
  ASSUME NEW a \in Nat, NEW b \in Nat, NEW d \in Nat \ {0}
  PROVE  /\ a <= b => a \div d <= b \div d
         /\ a + d <= b => a \div d < b \div d
<1>. DEFINE p == a \div d
            q == b \div d
<1>1. /\ p \in Nat /\ d * p <= a /\ a < d * p + d
      /\ q \in Nat /\ d * q <= b /\ b < d * q + d
  BY Quotient
<1>. HIDE DEF p, q
<1>2. ASSUME a <= b PROVE p <= q
  <2>1. SUFFICES ASSUME q + 1 <= p PROVE FALSE
    BY <1>1
  <2>2. d * (q + 1) <= d * p
    BY <1>1, <2>1, Products
  <2>3. d * (q + 1) = d * q + d
    BY <1>1
  <2>4. QED
    BY <1>1, <1>2, <2>2, <2>3
<1>3. ASSUME a + d <= b PROVE p < q
  <2>1. SUFFICES ASSUME q <= p PROVE FALSE
    BY <1>1
  <2>2. d * q <= d * p
    BY <1>1, <2>1, Products
  <2>3. QED
    BY <1>1, <1>3, <2>2
<1>4. QED
  BY <1>2, <1>3 DEF p, q

\* A rounded rate is within half of its last digit of the share.
LEMMA RoundedShare ==
  ASSUME NEW x \in Nat, NEW n \in Nat \ {0}, NEW d \in Nat \ {0}, NEW r,
         r = (2 * x * Whole + n) \div (2 * n)
  PROVE  /\ r \in Nat
         /\ 2 * ((n * d) * r) - n * d <= 2 * (Whole * (x * d))
         /\ 2 * (Whole * (x * d)) <= 2 * ((n * d) * r) + n * d
<1>1. /\ 2 * x * Whole + n \in Nat /\ 2 * n \in Nat \ {0}
      /\ x * Whole \in Nat /\ 2 * x * Whole = 2 * (x * Whole)
  BY WholeType
<1>2. /\ r \in Nat
      /\ (2 * n) * r <= 2 * x * Whole + n
      /\ 2 * x * Whole + n < (2 * n) * r + 2 * n
  BY <1>1, Quotient
<1>3. (2 * n) * r = 2 * (n * r)
  BY <1>2
<1>4. n * r \in Nat
  BY <1>2
<1>5. 2 * (n * r) - n <= 2 * (x * Whole) /\ 2 * (x * Whole) <= 2 * (n * r) + n
  BY <1>1, <1>2, <1>3, <1>4
<1>6. /\ d * (2 * (n * r) - n) <= d * (2 * (x * Whole))
      /\ d * (2 * (x * Whole)) <= d * (2 * (n * r) + n)
  BY <1>1, <1>4, <1>5, Products
<1>7. /\ d * (2 * (n * r) - n) = 2 * ((n * d) * r) - n * d
      /\ d * (2 * (n * r) + n) = 2 * ((n * d) * r) + n * d
  BY <1>2
<1>8. d * (2 * (x * Whole)) = 2 * (Whole * (x * d))
  <2>1. Whole \in Int
    BY WholeType
  <2>2. QED
    BY <2>1
<1>9. QED
  BY <1>2, <1>6, <1>7, <1>8

\* When two rounded rates are tied, so are the shares.
LEMMA TiedShares ==
  ASSUME NEW x \in Nat, NEW n \in Nat \ {0}, NEW y \in Nat, NEW d \in Nat \ {0},
         NEW tie \in Nat, NEW r, NEW s,
         r = (2 * x * Whole + n) \div (2 * n),
         s = (2 * y * Whole + d) \div (2 * d),
         r - s \in -tie..tie
  PROVE  SharesTied(x, n, y, d, tie)
<1>. DEFINE whole == n * d
            first == Whole * (x * d)
            second == Whole * (y * n)
<1>1. /\ whole \in Nat /\ first \in Int /\ second \in Int
  BY WholeType
<1>2. /\ r \in Nat
      /\ 2 * (whole * r) - whole <= 2 * first
      /\ 2 * first <= 2 * (whole * r) + whole
  BY RoundedShare
<1>3. /\ s \in Nat
      /\ 2 * (whole * s) - whole <= 2 * second
      /\ 2 * second <= 2 * (whole * s) + whole
  <2>1. n * d = d * n
    OBVIOUS
  <2>2. QED
    BY <2>1, RoundedShare
<1>4. -tie <= r - s /\ r - s <= tie
  BY <1>2, <1>3
<1>5. Whole * (x * d - y * n) = first - second
  BY WholeType
<1>. HIDE DEF whole, first, second
<1>6. /\ whole * (-tie) <= whole * (r - s)
      /\ whole * (r - s) <= whole * tie
  BY <1>1, <1>2, <1>3, <1>4, Products
<1>7. /\ whole * (-tie) = -(whole * tie)
      /\ whole * (r - s) = whole * r - whole * s
      /\ whole * r \in Int /\ whole * s \in Int /\ whole * tie \in Int
  BY <1>1, <1>2, <1>3
<1>8. /\ -(whole * tie + whole) <= first - second
      /\ first - second <= whole * tie + whole
  BY <1>1, <1>2, <1>3, <1>6, <1>7
<1>9. whole * tie + whole = (tie + 1) * n * d
  BY DEF whole
<1>10. -(tie + 1) * n * d = -((tie + 1) * n * d)
  OBVIOUS
<1>11. QED
  BY <1>1, <1>5, <1>8, <1>9, <1>10 DEF SharesTied

\* A rate is a number, unless there is nothing to count; of more cases of the
\* same ones it is not less.
LEMMA RateType ==
  ASSUME NEW above, NEW below, IsFiniteSet(below)
  PROVE  /\ below = {} => Rate(above, below) = None
         /\ below # {} =>
              /\ Cardinality(below) \in Nat \ {0}
              /\ Cardinality(above \cap below) \in Nat
              /\ Rate(above, below) =
                   (2 * Cardinality(above \cap below) * Whole + Cardinality(below))
                     \div (2 * Cardinality(below))
              /\ Rate(above, below) \in Nat
<1>. DEFINE n == Cardinality(above \cap below)
            d == Cardinality(below)
<1>1. d \in Nat /\ (d = 0 <=> below = {})
  BY FS_CardinalityType, FS_EmptySet
<1>2. n \in Nat
  <2>1. IsFiniteSet(above \cap below)
    BY FS_Subset
  <2>2. QED
    BY <2>1, FS_CardinalityType
<1>3. Rate(above, below) = IF d = 0 THEN None ELSE (2 * n * Whole + d) \div (2 * d)
  BY DEF Rate
<1>. HIDE DEF n, d
<1>4. d # 0 => 2 * n * Whole + d \in Nat /\ 2 * d \in Nat \ {0}
  BY <1>1, <1>2, WholeType
<1>5. d # 0 => (2 * n * Whole + d) \div (2 * d) \in Nat
  BY <1>4, Quotient
<1>6. QED
  BY <1>1, <1>2, <1>3, <1>5 DEF n, d

LEMMA RateGrows ==
  ASSUME NEW less, NEW more, NEW below, IsFiniteSet(below), below # {},
         less \cap below \subseteq more
  PROVE  Rate(less, below) <= Rate(more, below)
<1>. DEFINE x == Cardinality(less \cap below)
            y == Cardinality(more \cap below)
            d == Cardinality(below)
<1>1. x <= y
  <2>1. IsFiniteSet(more \cap below)
    BY FS_Subset
  <2>2. less \cap below \in SUBSET (more \cap below)
    OBVIOUS
  <2>3. QED
    BY <2>1, <2>2, FS_Subset
<1>2. /\ d \in Nat \ {0} /\ x \in Nat /\ y \in Nat
      /\ Rate(less, below) = (2 * x * Whole + d) \div (2 * d)
      /\ Rate(more, below) = (2 * y * Whole + d) \div (2 * d)
  BY RateType
<1>. HIDE DEF x, y, d
<1>3. 2 * x * Whole = (2 * Whole) * x /\ 2 * y * Whole = (2 * Whole) * y
      /\ 2 * Whole \in Nat
  BY <1>2, WholeType
<1>4. (2 * Whole) * x <= (2 * Whole) * y
  BY <1>1, <1>2, <1>3, Products
<1>5. /\ 2 * x * Whole + d \in Nat /\ 2 * y * Whole + d \in Nat
      /\ 2 * d \in Nat \ {0} /\ 2 * x * Whole + d <= 2 * y * Whole + d
  <2>1. (2 * Whole) * x \in Nat /\ (2 * Whole) * y \in Nat
    BY <1>2, <1>3
  <2>2. QED
    BY <1>2, <1>3, <1>4, <2>1
<1>6. QED
  BY <1>2, <1>5, QuotientGrows

\* One case more changes a rate, of as many cases as Whole or less.
LEMMA RateIsStrict ==
  ASSUME NEW less, NEW more, NEW below, IsFiniteSet(below),
         Cardinality(below) <= Whole,
         Cardinality(less \cap below) < Cardinality(more \cap below)
  PROVE  Rate(less, below) < Rate(more, below)
<1>. DEFINE x == Cardinality(less \cap below)
            y == Cardinality(more \cap below)
            d == Cardinality(below)
<1>1. below # {}
  <2>1. below = {} => less \cap below = {} /\ more \cap below = {}
    OBVIOUS
  <2>2. QED
    BY <2>1, FS_EmptySet
<1>2. /\ d \in Nat \ {0} /\ x \in Nat /\ y \in Nat
      /\ Rate(less, below) = (2 * x * Whole + d) \div (2 * d)
      /\ Rate(more, below) = (2 * y * Whole + d) \div (2 * d)
  BY <1>1, RateType
<1>3. x + 1 <= y /\ d <= Whole
  BY <1>2
<1>. HIDE DEF x, y, d
<1>4. 2 * x * Whole = (2 * Whole) * x /\ 2 * y * Whole = (2 * Whole) * y
      /\ 2 * Whole \in Nat
  BY <1>2, WholeType
<1>5. (2 * Whole) * (x + 1) <= (2 * Whole) * y
  BY <1>2, <1>3, <1>4, Products
<1>6. (2 * Whole) * (x + 1) = (2 * Whole) * x + 2 * Whole
  BY <1>2, WholeType
<1>7. (2 * Whole) * x \in Nat /\ (2 * Whole) * y \in Nat
  BY <1>2, <1>4
<1>8. /\ 2 * x * Whole + d \in Nat /\ 2 * y * Whole + d \in Nat
      /\ 2 * d \in Nat \ {0}
      /\ (2 * x * Whole + d) + 2 * d <= 2 * y * Whole + d
  BY <1>2, <1>3, <1>4, <1>5, <1>6, <1>7, WholeType
<1>9. QED
  BY <1>2, <1>8, QuotientGrows

\* What a result is.
LEMMA ResultFields ==
  ASSUME NEW x \in CaseResult
  PROVE  /\ x.correct \in BOOLEAN
         /\ x.outcome = "success" => x.latency # None
         /\ x.latency # None => x.latency \in Nat
BY ModelComparisonAssumption DEF CaseResult

\* A median is a number, unless nothing was measured.
LEMMA MedianType ==
  ASSUME NEW cases \in Seq(CaseResult),
         \E i \in DOMAIN cases : cases[i].latency # None
  PROVE  Median(cases) \in Nat
<1>. DEFINE measured == {i \in DOMAIN cases : cases[i].latency # None}
            times == {cases[i].latency : i \in measured}
            UpTo(v) == {i \in measured : cases[i].latency <= v}
            Samples(k) == {v \in times : Cardinality(UpTo(v)) >= k}
            n == Cardinality(measured)
<1>1. IsFiniteSet(measured)
  <2>1. DOMAIN cases = 1..Len(cases) /\ Len(cases) \in Nat
    OBVIOUS
  <2>2. IsFiniteSet(DOMAIN cases)
    BY <2>1, FS_Interval
  <2>3. QED
    BY <2>2, FS_Subset
<1>2. n \in Nat \ {0}
  BY <1>1, FS_CardinalityType, FS_EmptySet
<1>3. times \subseteq Nat /\ times # {}
  BY ResultFields
<1>4. IsFiniteSet(times)
  <2>1. PICK f : f = [i \in measured |-> cases[i].latency]
    OBVIOUS
  <2>2. f \in Surjection(measured, times)
    BY <2>1 DEF Surjection
  <2>. HIDE DEF measured, times
  <2>3. QED
    BY <1>1, <2>2, FS_Surjection
<1>5. PICK greatest \in times : \A v \in times : v <= greatest
  BY <1>3, <1>4, GreatestExists
<1>6. UpTo(greatest) = measured
  BY <1>5
<1>7. ASSUME NEW k \in 1..n
      PROVE  Min(Samples(k)) \in Nat
  <2>1. greatest \in Samples(k)
    <3>1. Cardinality(UpTo(greatest)) = n
      BY <1>6
    <3>. HIDE DEF UpTo, times, n
    <3>2. QED
      BY <1>2, <3>1
  <2>2. Samples(k) \in SUBSET Nat
    BY <1>3
  <2>. HIDE DEF Samples
  <2>3. QED
    BY <2>1, <2>2, MinIsLeast
<1>8. Median(cases) = IF n = 0 THEN None
                      ELSE Min(Samples((n + 1) \div 2)) + Min(Samples(n \div 2 + 1))
  BY DEF Median, Where
<1>. HIDE DEF n, Samples
<1>9. (n + 1) \div 2 \in 1..n /\ n \div 2 + 1 \in 1..n
  BY <1>2
<1>10. QED
  BY <1>2, <1>7, <1>8, <1>9

-----------------------------------------------------------------------------
(***************************************************************************)
(* The recommendation.                                                     *)
(***************************************************************************)

Measured == Nat \cup {None}
Input == [endToEnd : Measured, result : Measured, romanian : Measured,
          hard : Measured, status : Measured, generation : Measured,
          repair : Measured, latency : Measured]

InGroup(cases, group) == {i \in DOMAIN cases : cases[i].case \in group}

\* The places in a sequence, and any of them, are finite.
LEMMA PlacesAreFinite ==
  ASSUME NEW cases \in Seq(CaseResult), NEW S \in SUBSET DOMAIN cases
  PROVE  IsFiniteSet(S)
<1>1. DOMAIN cases = 1..Len(cases) /\ Len(cases) \in Nat
  OBVIOUS
<1>2. IsFiniteSet(DOMAIN cases)
  BY <1>1, FS_Interval
<1>3. QED
  BY <1>2, FS_Subset

\* What the rule looks at first.
LEMMA InputFields ==
  ASSUME NEW cases
  PROVE  LET a == Inputs(cases) IN
         /\ a.endToEnd = Rate(Correct(cases), DOMAIN cases)
         /\ a.result = Rate(Correct(cases), ExecutedAnswerable(cases))
         /\ a.romanian = Rate(Correct(cases), InGroup(cases, Romanian))
         /\ a.latency = Median(cases)
BY DEF Inputs, InGroup, Where

LEMMA InputType ==
  ASSUME NEW cases \in Seq(CaseResult)
  PROVE  Inputs(cases) \in Input
<1>1. ASSUME NEW above, NEW below \in SUBSET DOMAIN cases
      PROVE  Rate(above, below) \in Measured
  BY PlacesAreFinite, RateType DEF Measured
<1>2. Median(cases) \in Measured
  <2>1. CASE \E i \in DOMAIN cases : cases[i].latency # None
    BY <2>1, MedianType DEF Measured
  <2>2. CASE \A i \in DOMAIN cases : cases[i].latency = None
    <3>1. {i \in DOMAIN cases : cases[i].latency # None} = {}
      BY <2>2
    <3>2. Cardinality({i \in DOMAIN cases : cases[i].latency # None}) = 0
      BY <3>1, FS_EmptySet
    <3>3. QED
      BY <3>2 DEF Median, Where, Measured
  <2>3. QED
    BY <2>1, <2>2
<1>3. /\ ExecutedAnswerable(cases) \in SUBSET DOMAIN cases
      /\ AnswerableGeneratedSQL(cases) \in SUBSET DOMAIN cases
      /\ InGroup(cases, Romanian) \in SUBSET DOMAIN cases
      /\ InGroup(cases, Hard) \in SUBSET DOMAIN cases
      /\ DOMAIN cases \in SUBSET DOMAIN cases
  BY DEF ExecutedAnswerable, AnswerableGeneratedSQL, InGroup, Where
<1>4. Inputs(cases) =
        [endToEnd |-> Rate(Correct(cases), DOMAIN cases),
         result |-> Rate(Correct(cases), ExecutedAnswerable(cases)),
         romanian |-> Rate(Correct(cases), InGroup(cases, Romanian)),
         hard |-> Rate(Correct(cases), InGroup(cases, Hard)),
         status |-> Rate(StatusMatched(cases), DOMAIN cases),
         generation |-> Rate(Generated(cases), DOMAIN cases),
         repair |-> Rate(RepairAttempts(cases), AnswerableGeneratedSQL(cases)),
         latency |-> Median(cases)]
  BY DEF Inputs, InGroup, Where
<1>5. QED
  BY <1>1, <1>2, <1>3, <1>4 DEF Input

LEMMA ScoreType ==
  ASSUME NEW a \in Input
  PROVE  /\ DOMAIN Score(a) = 1..8
         /\ \A i \in 1..8 : Score(a)[i] \in Int
         /\ a.endToEnd # None => Score(a)[1] = a.endToEnd
         /\ a.result # None => Score(a)[2] = a.result
         /\ a.romanian # None => Score(a)[3] = a.romanian
<1>1. Infinity \in Int
  BY SMT DEF Infinity
<1>2. \A value \in Measured : /\ Descending(value) \in Int
                              /\ Ascending(value) \in Int
                              /\ value # None => Descending(value) = value
  BY <1>1 DEF Measured, Descending, Ascending
<1>3. /\ a.endToEnd \in Measured /\ a.result \in Measured
      /\ a.romanian \in Measured /\ a.hard \in Measured
      /\ a.status \in Measured /\ a.generation \in Measured
      /\ a.repair \in Measured /\ a.latency \in Measured
  BY DEF Input
<1>4. QED
  BY <1>2, <1>3 DEF Score

LEMMA BelowIsAsymmetric ==
  ASSUME NEW s, NEW t, DOMAIN s = 1..8, DOMAIN t = 1..8,
         \A i \in 1..8 : s[i] \in Int /\ t[i] \in Int,
         Below(s, t)
  PROVE  ~Below(t, s)
<1>1. PICK i \in 1..8 : s[i] < t[i] /\ \A j \in 1..(i - 1) : s[j] = t[j]
  BY DEF Below
<1>2. SUFFICES ASSUME NEW k \in 1..8, t[k] < s[k],
                      \A j \in 1..(k - 1) : t[j] = s[j]
               PROVE  FALSE
  BY DEF Below
<1>3. i < k => FALSE
  BY <1>1, <1>2
<1>4. k < i => FALSE
  BY <1>1, <1>2
<1>5. i = k => FALSE
  BY <1>1, <1>2
<1>6. QED
  BY <1>3, <1>4, <1>5

\* What _recommend says of the two, whichever of them comes first: the other
\* model is not faster when they are tied, and has no higher score when not.
LEMMA Recommendation ==
  ASSUME ModelComparisonInv, Compared
  PROVE  LET a == Inputs(CasesOf(Winner))
             b == Inputs(CasesOf(Loser))
         IN /\ a \in Input /\ b \in Input
            /\ Tied(a, b) => ~Faster(b, a)
            /\ ~Tied(a, b) => ~Below(Score(a), Score(b))
<1>. DEFINE inputs == [m \in Model |-> Inputs(CasesOf(m))]
            a == Inputs(CasesOf(Winner))
            b == Inputs(CasesOf(Loser))
<1>1. Winner = Recommend(inputs)
  BY DEF ModelComparisonInv, ComparisonHolds, Winner, CasesOf
<1>2. \A m \in Model : inputs[m] = Inputs(CasesOf(m))
  OBVIOUS
<1>3. \A m \in Model : CasesOf(m) \in Seq(CaseResult)
  BY ComparedRun, CasesOfRun DEF CasesOf
<1>4. a \in Input /\ b \in Input
  BY <1>3, WinnerAndLoser, InputType
<1>5. inputs[Winner] = a /\ inputs[Loser] = b
  BY <1>2, WinnerAndLoser
<1>. HIDE DEF inputs, a, b
<1>6. Tied(a, b) <=> Tied(b, a)
  <2>1. ASSUME NEW x \in Measured, NEW y \in Measured, NEW tie \in Nat
        PROVE  Within(x, y, tie) <=> Within(y, x, tie)
    BY DEF Within, Measured
  <2>2. EndToEndTie \in Nat /\ AccuracyTie \in Nat
    BY ModelComparisonAssumption
  <2>3. QED
    BY <1>4, <2>1, <2>2 DEF Tied, Input
<1>7. Faster(a, b) => ~Faster(b, a)
  BY <1>4 DEF Faster, Input, Measured
<1>8. Below(Score(b), Score(a)) => ~Below(Score(a), Score(b))
  BY <1>4, ScoreType, BelowIsAsymmetric
<1>9. CASE Winner = Candidates[1] /\ Loser = Candidates[2]
  BY <1>1, <1>4, <1>5, <1>9, TwoModels DEF Recommend, a, b
<1>10. CASE Winner = Candidates[2] /\ Loser = Candidates[1]
  BY <1>1, <1>4, <1>5, <1>6, <1>7, <1>8, <1>10, TwoModels DEF Recommend, a, b
<1>11. QED
  BY <1>9, <1>10, WinnerAndLoser, TwoModels

-----------------------------------------------------------------------------
(***************************************************************************)
(* Cases and places: a set of cases counts as the places they have.        *)
(***************************************************************************)

NamesOf(cases, S) == {cases[i].case : i \in S}

\* The two runs have the same case at the same place.
LEMMA Aligned ==
  ASSUME ModelComparisonInv, Compared
  PROVE  \E k \in Conditions : \A m \in Model :
           /\ CasesOf(m) \in Seq(CaseResult)
           /\ DOMAIN CasesOf(m) = 1..Len(Selected[k])
           /\ \A i \in DOMAIN CasesOf(m) : CasesOf(m)[i].case = Selected[k][i]
<1>. DEFINE run(m) == artifact[comparison.paths[m]]
<1>1. PICK k : k = run(Winner).conditions
  OBVIOUS
<1>2. \A m \in Model : run(m).conditions = k
  BY <1>1, WinnerAndLoser DEF ModelComparisonInv, ComparisonHolds
<1>3. \A m \in Model :
        /\ run(m) \in Run /\ k \in Conditions
        /\ DOMAIN run(m).cases = DOMAIN Selected[k]
        /\ \A i \in DOMAIN run(m).cases : run(m).cases[i].case = Selected[k][i]
  BY <1>2, ComparedRun
<1>4. k \in Conditions
  BY <1>3, WinnerAndLoser
<1>5. DOMAIN Selected[k] = 1..Len(Selected[k])
  BY <1>4, SelectedCases
<1>6. QED
  BY <1>3, <1>4, <1>5, CasesOfRun DEF CasesOf

\* No two places of a run have the same case.
LEMMA CountOfNames ==
  ASSUME NEW k \in Conditions, NEW cases \in Seq(CaseResult),
         DOMAIN cases = DOMAIN Selected[k],
         \A i \in DOMAIN cases : cases[i].case = Selected[k][i],
         NEW S \in SUBSET DOMAIN cases
  PROVE  Cardinality(NamesOf(cases, S)) = Cardinality(S)
<1>1. \A i, j \in DOMAIN cases : cases[i].case = cases[j].case => i = j
  BY SelectedCases
<1>2. PICK f : f = [i \in S |-> cases[i].case]
  OBVIOUS
<1>3. f \in Bijection(S, NamesOf(cases, S))
  BY <1>1, <1>2 DEF Bijection, Injection, Surjection, IsInjective, NamesOf
<1>4. ExistsBijection(S, NamesOf(cases, S))
  BY <1>3 DEF ExistsBijection
<1>5. QED
  BY <1>4, PlacesAreFinite, FS_Bijection

\* The correct cases of a group are the places counted for its rate.
LEMMA CountOfCorrect ==
  ASSUME ModelComparisonInv, Compared, NEW m \in Model, NEW group
  PROVE  Cardinality(CorrectCases(m, group)) =
           Cardinality(Correct(CasesOf(m)) \cap InGroup(CasesOf(m), group))
<1>. DEFINE cases == CasesOf(m)
            S == Correct(cases) \cap InGroup(cases, group)
<1>1. PICK k \in Conditions :
        /\ cases \in Seq(CaseResult)
        /\ DOMAIN cases = 1..Len(Selected[k])
        /\ \A i \in DOMAIN cases : cases[i].case = Selected[k][i]
  BY Aligned
<1>2. CorrectCases(m, group) = NamesOf(cases, S)
  BY DEF CorrectCases, NamesOf, Correct, InGroup, Where
<1>3. S \in SUBSET DOMAIN cases
  BY DEF InGroup
<1>4. DOMAIN cases = DOMAIN Selected[k]
  BY <1>1, SelectedCases
<1>. HIDE DEF cases, S
<1>5. QED
  BY <1>1, <1>2, <1>3, <1>4, CountOfNames DEF cases, S

\* The cases whose queries were executed are the places counted for it.
LEMMA CountOfExecuted ==
  ASSUME ModelComparisonInv, Compared, NEW m \in Model
  PROVE  LET executed == ExecutedAnswerable(CasesOf(m)) IN
         /\ executed \in SUBSET DOMAIN CasesOf(m)
         /\ Cardinality(ExecutedCases(m)) = Cardinality(executed)
         /\ InGroup(CasesOf(m), ExecutedCases(m)) = executed
<1>. DEFINE cases == CasesOf(m)
            S == ExecutedAnswerable(cases)
<1>1. PICK k \in Conditions :
        /\ cases \in Seq(CaseResult)
        /\ DOMAIN cases = 1..Len(Selected[k])
        /\ \A i \in DOMAIN cases : cases[i].case = Selected[k][i]
  BY Aligned
<1>2. ExecutedCases(m) = NamesOf(cases, S)
  BY DEF ExecutedCases, NamesOf
<1>3. S \in SUBSET DOMAIN cases
  BY DEF ExecutedAnswerable, Where
<1>4. DOMAIN cases = DOMAIN Selected[k]
  BY <1>1, SelectedCases
<1>5. \A i, j \in DOMAIN cases : cases[i].case = cases[j].case => i = j
  BY <1>1, <1>4, SelectedCases
<1>. HIDE DEF cases, S
<1>6. InGroup(cases, NamesOf(cases, S)) = S
  BY <1>3, <1>5 DEF InGroup, NamesOf
<1>7. QED
  BY <1>1, <1>2, <1>3, <1>4, <1>6, CountOfNames DEF cases, S

-----------------------------------------------------------------------------

\* What the two runs share: their places, and what is at each.
LEMMA SamePlaces ==
  ASSUME ModelComparisonInv, Compared
  PROVE  LET cw == CasesOf(Winner)
             cl == CasesOf(Loser)
         IN /\ cw \in Seq(CaseResult) /\ cl \in Seq(CaseResult)
            /\ DOMAIN cl = DOMAIN cw /\ DOMAIN cw = 1..Len(cw)
            /\ DOMAIN cw # {}
            /\ Cardinality(DOMAIN cw) = Len(cw) /\ Len(cl) = Len(cw)
            /\ Len(cw) \in Nat \ {0} /\ Len(cw) <= Whole
            /\ \A i \in DOMAIN cw : cl[i].case = cw[i].case /\ cw[i].case \in Case
            /\ \A i, j \in DOMAIN cw : cw[i].case = cw[j].case => i = j
            /\ \A group : InGroup(cl, group) = InGroup(cw, group)
<1>. DEFINE cw == CasesOf(Winner)
            cl == CasesOf(Loser)
<1>1. PICK k \in Conditions : \A m \in Model :
        /\ CasesOf(m) \in Seq(CaseResult)
        /\ DOMAIN CasesOf(m) = 1..Len(Selected[k])
        /\ \A i \in DOMAIN CasesOf(m) : CasesOf(m)[i].case = Selected[k][i]
  BY Aligned
<1>2. /\ cw \in Seq(CaseResult) /\ DOMAIN cw = 1..Len(Selected[k])
      /\ \A i \in DOMAIN cw : cw[i].case = Selected[k][i]
      /\ cl \in Seq(CaseResult) /\ DOMAIN cl = 1..Len(Selected[k])
      /\ \A i \in DOMAIN cl : cl[i].case = Selected[k][i]
  BY <1>1, WinnerAndLoser
<1>3. /\ Len(Selected[k]) \in Nat \ {0} /\ Len(Selected[k]) <= Whole
      /\ DOMAIN Selected[k] = 1..Len(Selected[k])
      /\ \A i \in DOMAIN Selected[k] : Selected[k][i] \in Case
      /\ \A i, j \in DOMAIN Selected[k] : Selected[k][i] = Selected[k][j] => i = j
  BY SelectedCases, ModelComparisonAssumption
<1>. HIDE DEF cw, cl
<1>4. Len(cw) = Len(Selected[k]) /\ Len(cl) = Len(Selected[k])
  BY <1>2, <1>3
<1>5. Cardinality(DOMAIN cw) = Len(cw)
  <2>1. \A n \in Nat \ {0} : Cardinality(1..n) = n
    BY FS_Interval
  <2>2. QED
    BY <1>2, <1>3, <1>4, <2>1
<1>6. DOMAIN cw # {}
  BY <1>2, <1>3
<1>7. \A i \in DOMAIN cw : cl[i].case = cw[i].case /\ cw[i].case \in Case
  BY <1>2, <1>3
<1>8. \A i, j \in DOMAIN cw : cw[i].case = cw[j].case => i = j
  BY <1>2, <1>3
<1>9. \A group : InGroup(cl, group) = InGroup(cw, group)
  BY <1>2, <1>7 DEF InGroup
<1>10. QED
  BY <1>2, <1>3, <1>4, <1>5, <1>6, <1>7, <1>8, <1>9 DEF cw, cl

\* A model is not recommended over one that is right wherever it is, whose
\* queries are executed for the same cases, and which is faster.
THEOREM NoDominatedChoice == Spec => []NeverDominated
<1>1. ASSUME ModelComparisonInv, Compared, ExecutedCases(Winner) # {},
             {CasesOf(Winner)[i].case : i \in DOMAIN CasesOf(Winner)}
               \cap Romanian # {},
             Dominates(Loser, Winner)
      PROVE  FALSE
  <2>. DEFINE cw == CasesOf(Winner)
              cl == CasesOf(Loser)
              a == Inputs(cw)
              b == Inputs(cl)
  <2>1. /\ cw \in Seq(CaseResult) /\ DOMAIN cl = DOMAIN cw /\ DOMAIN cw # {}
        /\ \A i \in DOMAIN cw : cl[i].case = cw[i].case /\ cw[i].case \in Case
        /\ \A i, j \in DOMAIN cw : cw[i].case = cw[j].case => i = j
        /\ \A group : InGroup(cl, group) = InGroup(cw, group)
    BY <1>1, SamePlaces
  <2>2. Correct(cw) \subseteq Correct(cl)
    <3>1. ASSUME NEW i \in DOMAIN cw, cw[i].correct
          PROVE  cl[i].correct
      <4>1. cw[i].case \in CorrectCases(Winner, Case)
        BY <2>1, <3>1 DEF CorrectCases
      <4>2. cw[i].case \in CorrectCases(Loser, Case)
        BY <1>1, <4>1 DEF Dominates
      <4>3. PICK j \in DOMAIN cl : cl[j].case = cw[i].case /\ cl[j].correct
        BY <4>2 DEF CorrectCases
      <4>4. j = i
        BY <2>1, <4>3
      <4>5. QED
        BY <4>3, <4>4
    <3>2. QED
      BY <2>1, <3>1 DEF Correct, Where
  <2>3. /\ ExecutedAnswerable(cw) = ExecutedAnswerable(cl)
        /\ ExecutedAnswerable(cw) \in SUBSET DOMAIN cw
        /\ ExecutedAnswerable(cw) # {}
    <3>1. ExecutedCases(Loser) = ExecutedCases(Winner)
      BY <1>1 DEF Dominates
    <3>2. InGroup(cw, ExecutedCases(Winner)) = ExecutedAnswerable(cw)
          /\ InGroup(cl, ExecutedCases(Loser)) = ExecutedAnswerable(cl)
          /\ ExecutedAnswerable(cw) \in SUBSET DOMAIN cw
      BY <1>1, WinnerAndLoser, CountOfExecuted
    <3>3. ExecutedAnswerable(cw) # {}
      BY <1>1 DEF ExecutedCases
    <3>4. QED
      BY <2>1, <3>1, <3>2, <3>3
  <2>4. /\ InGroup(cl, Romanian) = InGroup(cw, Romanian)
        /\ InGroup(cw, Romanian) \in SUBSET DOMAIN cw
        /\ InGroup(cw, Romanian) # {}
    BY <1>1, <2>1 DEF InGroup
  <2>5. /\ a.endToEnd = Rate(Correct(cw), DOMAIN cw)
        /\ b.endToEnd = Rate(Correct(cl), DOMAIN cw)
        /\ a.result = Rate(Correct(cw), ExecutedAnswerable(cw))
        /\ b.result = Rate(Correct(cl), ExecutedAnswerable(cw))
        /\ a.romanian = Rate(Correct(cw), InGroup(cw, Romanian))
        /\ b.romanian = Rate(Correct(cl), InGroup(cw, Romanian))
        /\ a.latency = Median(cw) /\ b.latency = Median(cl)
    BY <2>1, <2>3, <2>4, InputFields
  <2>6. a \in Input /\ b \in Input
        /\ (Tied(a, b) => ~Faster(b, a))
        /\ (~Tied(a, b) => ~Below(Score(a), Score(b)))
    BY <1>1, Recommendation
  <2>7. b.latency # None /\ a.latency # None /\ b.latency < a.latency
    BY <1>1, <2>5 DEF Dominates
  <2>. HIDE DEF cw, cl, a, b
  <2>8. ASSUME NEW below \in SUBSET DOMAIN cw, below # {}
        PROVE  /\ Rate(Correct(cw), below) \in Nat
               /\ Rate(Correct(cl), below) \in Nat
               /\ Rate(Correct(cw), below) <= Rate(Correct(cl), below)
    <3>1. IsFiniteSet(below)
      BY <2>1, PlacesAreFinite
    <3>2. Correct(cw) \cap below \subseteq Correct(cl)
      BY <2>2
    <3>3. QED
      BY <2>8, <3>1, <3>2, RateType, RateGrows
  <2>9. /\ a.endToEnd \in Nat /\ b.endToEnd \in Nat /\ a.endToEnd <= b.endToEnd
        /\ a.result \in Nat /\ b.result \in Nat /\ a.result <= b.result
        /\ a.romanian \in Nat /\ b.romanian \in Nat /\ a.romanian <= b.romanian
    BY <2>1, <2>3, <2>4, <2>5, <2>8
  <2>10. ~Tied(a, b)
    BY <2>6, <2>7 DEF Faster
  <2>11. \A x \in Nat : x # None
    BY ModelComparisonAssumption
  <2>12. ~ /\ a.endToEnd = b.endToEnd /\ a.result = b.result
           /\ a.romanian = b.romanian
    <3>1. \A x \in Nat, tie \in Nat : Within(x, x, tie)
      BY <2>11 DEF Within
    <3>2. EndToEndTie \in Nat /\ AccuracyTie \in Nat
      BY ModelComparisonAssumption
    <3>3. QED
      BY <2>9, <2>10, <3>1, <3>2 DEF Tied
  <2>13. /\ DOMAIN Score(a) = 1..8
         /\ Score(a)[1] = a.endToEnd /\ Score(b)[1] = b.endToEnd
         /\ Score(a)[2] = a.result /\ Score(b)[2] = b.result
         /\ Score(a)[3] = a.romanian /\ Score(b)[3] = b.romanian
    BY <2>6, <2>9, <2>11, ScoreType
  <2>14. Below(Score(a), Score(b))
    <3>1. CASE a.endToEnd < b.endToEnd
      <4>1. \A j \in 1..(1 - 1) : Score(a)[j] = Score(b)[j]
        OBVIOUS
      <4>2. QED
        BY <2>13, <3>1, <4>1 DEF Below
    <3>2. CASE a.endToEnd = b.endToEnd /\ a.result < b.result
      <4>1. \A j \in 1..(2 - 1) : Score(a)[j] = Score(b)[j]
        BY <2>13, <3>2
      <4>2. QED
        BY <2>13, <3>2, <4>1 DEF Below
    <3>3. CASE /\ a.endToEnd = b.endToEnd /\ a.result = b.result
               /\ a.romanian < b.romanian
      <4>1. \A j \in 1..(3 - 1) : j = 1 \/ j = 2
        OBVIOUS
      <4>2. \A j \in 1..(3 - 1) : Score(a)[j] = Score(b)[j]
        BY <2>13, <3>3, <4>1
      <4>3. QED
        BY <2>13, <3>3, <4>2 DEF Below
    <3>4. QED
      BY <2>9, <2>12, <3>1, <3>2, <3>3
  <2>15. QED
    BY <2>6, <2>10, <2>14
<1>2. ModelComparisonInv => NeverDominated
  BY <1>1 DEF NeverDominated
<1>3. QED
  BY <1>2, ModelComparisonInvariant, PTL

\* The model with fewer correct cases is recommended only when the shares the
\* rule looks at are tied, and it is then not the slower one.
THEOREM LatencyDecides == Spec => []LowerAccuracyOnlyForLatency
<1>1. ASSUME ModelComparisonInv, Compared,
             Cardinality(Correct(CasesOf(Winner)))
               < Cardinality(Correct(CasesOf(Loser)))
      PROVE  LowerAccuracyOnlyForLatency
  <2>. DEFINE cw == CasesOf(Winner)
              cl == CasesOf(Loser)
              a == Inputs(cw)
              b == Inputs(cl)
              n == Len(cw)
              roman == {cw[i].case : i \in 1..n} \cap Romanian
              Share(m, group) == Cardinality(CorrectCases(m, group))
  <2>1. /\ cw \in Seq(CaseResult) /\ cl \in Seq(CaseResult)
        /\ DOMAIN cl = DOMAIN cw /\ DOMAIN cw # {} /\ DOMAIN cw = 1..n
        /\ Cardinality(DOMAIN cw) = n /\ n \in Nat \ {0} /\ n <= Whole
        /\ \A i \in DOMAIN cw : cl[i].case = cw[i].case /\ cw[i].case \in Case
        /\ \A group : InGroup(cl, group) = InGroup(cw, group)
    BY <1>1, SamePlaces
  <2>2. /\ a.endToEnd = Rate(Correct(cw), DOMAIN cw)
        /\ b.endToEnd = Rate(Correct(cl), DOMAIN cw)
        /\ a.result = Rate(Correct(cw), ExecutedAnswerable(cw))
        /\ b.result = Rate(Correct(cl), ExecutedAnswerable(cl))
        /\ a.romanian = Rate(Correct(cw), InGroup(cw, Romanian))
        /\ b.romanian = Rate(Correct(cl), InGroup(cw, Romanian))
        /\ a.latency = Median(cw) /\ b.latency = Median(cl)
    BY <2>1, InputFields
  <2>3. a \in Input /\ b \in Input
        /\ (Tied(a, b) => ~Faster(b, a))
        /\ (~Tied(a, b) => ~Below(Score(a), Score(b)))
    BY <1>1, Recommendation
  <2>4. /\ Share(Winner, Case) = Cardinality(Correct(cw) \cap DOMAIN cw)
        /\ Share(Loser, Case) = Cardinality(Correct(cl) \cap DOMAIN cw)
        /\ Correct(cw) \cap DOMAIN cw = Correct(cw)
        /\ Correct(cl) \cap DOMAIN cw = Correct(cl)
    <3>1. InGroup(cw, Case) = DOMAIN cw /\ InGroup(cl, Case) = DOMAIN cw
      BY <2>1 DEF InGroup
    <3>2. Correct(cw) \subseteq DOMAIN cw /\ Correct(cl) \subseteq DOMAIN cw
      BY <2>1 DEF Correct, Where
    <3>3. /\ Share(Winner, Case) = Cardinality(Correct(cw) \cap InGroup(cw, Case))
          /\ Share(Loser, Case) = Cardinality(Correct(cl) \cap InGroup(cl, Case))
      BY <1>1, WinnerAndLoser, CountOfCorrect
    <3>4. QED
      BY <3>1, <3>2, <3>3
  <2>5. /\ ExecutedAnswerable(cw) \in SUBSET DOMAIN cw
        /\ Cardinality(ExecutedCases(Winner)) = Cardinality(ExecutedAnswerable(cw))
        /\ Share(Winner, ExecutedCases(Winner)) =
             Cardinality(Correct(cw) \cap ExecutedAnswerable(cw))
        /\ ExecutedAnswerable(cl) \in SUBSET DOMAIN cl
        /\ Cardinality(ExecutedCases(Loser)) = Cardinality(ExecutedAnswerable(cl))
        /\ Share(Loser, ExecutedCases(Loser)) =
             Cardinality(Correct(cl) \cap ExecutedAnswerable(cl))
    BY <1>1, WinnerAndLoser, CountOfExecuted, CountOfCorrect
  <2>6. /\ InGroup(cw, Romanian) \in SUBSET DOMAIN cw
        /\ Cardinality(roman) = Cardinality(InGroup(cw, Romanian))
        /\ Share(Winner, roman) = Cardinality(Correct(cw) \cap InGroup(cw, Romanian))
        /\ Share(Loser, roman) = Cardinality(Correct(cl) \cap InGroup(cw, Romanian))
    <3>1. InGroup(cw, roman) = InGroup(cw, Romanian)
      BY <2>1 DEF InGroup
    <3>2. roman = NamesOf(cw, InGroup(cw, Romanian))
      BY <2>1 DEF InGroup, NamesOf
    <3>3. InGroup(cw, Romanian) \in SUBSET DOMAIN cw
      BY DEF InGroup
    <3>4. Cardinality(roman) = Cardinality(InGroup(cw, Romanian))
      <4>1. PICK k \in Conditions :
              /\ cw \in Seq(CaseResult)
              /\ DOMAIN cw = 1..Len(Selected[k])
              /\ \A i \in DOMAIN cw : cw[i].case = Selected[k][i]
        BY <1>1, WinnerAndLoser, Aligned
      <4>2. DOMAIN cw = DOMAIN Selected[k]
        BY <4>1, SelectedCases
      <4>. HIDE DEF cw, roman
      <4>3. QED
        BY <3>2, <3>3, <4>1, <4>2, CountOfNames
    <3>5. /\ Share(Winner, roman) = Cardinality(Correct(cw) \cap InGroup(cw, roman))
          /\ Share(Loser, roman) = Cardinality(Correct(cl) \cap InGroup(cl, roman))
      BY <1>1, WinnerAndLoser, CountOfCorrect
    <3>. HIDE DEF roman
    <3>6. QED
      BY <2>1, <3>1, <3>3, <3>4, <3>5
  <2>7. Cardinality(Correct(cw)) < Cardinality(Correct(cl))
    BY <1>1
  <2>8. a.latency # None /\ b.latency # None => (b.latency >= a.latency <=> ~Faster(b, a))
    BY <2>3 DEF Faster, Input, Measured
  <2>. HIDE DEF cw, cl, a, b, n, roman, Share
  <2>9. \A x \in Nat : x # None
    BY ModelComparisonAssumption
  <2>10. Tied(a, b)
    <3>1. IsFiniteSet(DOMAIN cw)
      BY <2>1, PlacesAreFinite
    <3>2. a.endToEnd < b.endToEnd
      BY <2>1, <2>2, <2>4, <2>7, <3>1, RateIsStrict
    <3>3. a.endToEnd \in Nat /\ b.endToEnd \in Nat
      <4>1. Rate(Correct(cw), DOMAIN cw) \in Nat
        BY <2>1, <3>1, RateType
      <4>2. Rate(Correct(cl), DOMAIN cw) \in Nat
        BY <2>1, <3>1, RateType
      <4>3. QED
        BY <2>2, <4>1, <4>2
    <3>4. /\ DOMAIN Score(a) = 1..8
          /\ Score(a)[1] = a.endToEnd /\ Score(b)[1] = b.endToEnd
      BY <2>3, <2>9, <3>3, ScoreType
    <3>5. \A j \in 1..(1 - 1) : Score(a)[j] = Score(b)[j]
      OBVIOUS
    <3>6. Below(Score(a), Score(b))
      BY <3>2, <3>4, <3>5 DEF Below
    <3>7. QED
      BY <2>3, <3>6
  <2>11. ASSUME NEW above, NEW below, NEW others, NEW among, NEW tie \in Nat,
                IsFiniteSet(below), IsFiniteSet(among),
                Within(Rate(above, below), Rate(others, among), tie)
         PROVE  SharesTied(Cardinality(above \cap below), Cardinality(below),
                           Cardinality(others \cap among), Cardinality(among), tie)
    <3>1. below # {} /\ among # {}
      BY <2>11, RateType DEF Within
    <3>2. Rate(above, below) - Rate(others, among) \in -tie..tie
      BY <2>11 DEF Within
    <3>3. QED
      BY <2>11, <3>1, <3>2, RateType, TiedShares
  <2>12. EndToEndTie \in Nat /\ AccuracyTie \in Nat
    BY ModelComparisonAssumption
  <2>13. /\ IsFiniteSet(DOMAIN cw) /\ IsFiniteSet(ExecutedAnswerable(cw))
         /\ IsFiniteSet(ExecutedAnswerable(cl)) /\ IsFiniteSet(InGroup(cw, Romanian))
    BY <2>1, <2>5, <2>6, PlacesAreFinite
  <2>14. SharesTied(Share(Winner, Case), n, Share(Loser, Case), n, EndToEndTie)
    <3>1. SharesTied(Cardinality(Correct(cw) \cap DOMAIN cw), Cardinality(DOMAIN cw),
                     Cardinality(Correct(cl) \cap DOMAIN cw), Cardinality(DOMAIN cw),
                     EndToEndTie)
      BY <2>2, <2>10, <2>11, <2>12, <2>13 DEF Tied
    <3>2. QED
      BY <2>1, <2>4, <3>1
  <2>15. SharesTied(Share(Winner, ExecutedCases(Winner)),
                    Cardinality(ExecutedCases(Winner)),
                    Share(Loser, ExecutedCases(Loser)),
                    Cardinality(ExecutedCases(Loser)), AccuracyTie)
    BY <2>2, <2>5, <2>10, <2>11, <2>12, <2>13 DEF Tied
  <2>16. SharesTied(Share(Winner, roman), Cardinality(roman),
                    Share(Loser, roman), Cardinality(roman), AccuracyTie)
    BY <2>2, <2>6, <2>10, <2>11, <2>12, <2>13 DEF Tied
  <2>17. a.latency # None
    <3>1. a.result # None
      BY <2>10 DEF Tied, Within
    <3>2. ExecutedAnswerable(cw) # {}
      BY <2>2, <2>13, <3>1, RateType
    <3>3. PICK i \in DOMAIN cw : cw[i].outcome = "success"
      BY <3>2 DEF ExecutedAnswerable, Where
    <3>4. cw[i].latency # None
      BY <2>1, <3>3, ResultFields
    <3>5. QED
      BY <2>1, <2>2, <2>9, <3>4, MedianType
  <2>18. Median(cw) # None /\ (Median(cl) # None => Median(cw) <= Median(cl))
    <3>1. b.latency # None => a.latency <= b.latency
      BY <2>3, <2>8, <2>10, <2>17 DEF Input, Measured
    <3>2. QED
      BY <2>2, <2>17, <3>1
  <2>19. QED
    BY <2>14, <2>15, <2>16, <2>18
       DEF LowerAccuracyOnlyForLatency, cw, cl, n, roman, Share
<1>2. ModelComparisonInv => LowerAccuracyOnlyForLatency
  BY <1>1 DEF LowerAccuracyOnlyForLatency
<1>3. QED
  BY <1>2, ModelComparisonInvariant, PTL
=============================================================================
