-------------------------- MODULE RowCleaningProofs --------------------------
(***************************************************************************)
(* RowCleaning's properties, for any files and rows, and for any table     *)
(* specifications that are like TABLE_SPECS.                               *)
(***************************************************************************)
EXTENDS RowCleaning, TLAPS, FiniteSetTheorems, FunctionTheorems,
        WellFoundedInduction

(***************************************************************************)
(* Positions.                                                              *)
(***************************************************************************)

\* A set of numbers has a least one.
LEMMA LeastExists ==
  ASSUME NEW S \in SUBSET Nat, S # {}
  PROVE  \E least \in S : \A i \in S : least <= i
<1>. DEFINE R == {ss \in Nat \X Nat : ss[1] < ss[2]}
<1>1. IsWellFoundedOn(R, Nat)
  BY NatLessThanWellFounded DEF OpToRel
<1>2. \A i, j \in Nat : i < j => <<i, j>> \in R
  OBVIOUS
<1>. HIDE DEF R
<1>3. PICK least \in S : \A i \in S : <<i, least>> \notin R
  BY <1>1, WFMin
<1>4. \A i \in S : ~(i < least)
  BY <1>2, <1>3
<1>5. least \in Nat /\ \A i \in S : i \in Nat
  OBVIOUS
<1>6. QED
  BY <1>4, <1>5

\* Of every set of equal rows one is kept, the first.
LEMMA FirstCopyExists ==
  ASSUME NEW rows, DOMAIN rows = 1..Len(rows), Len(rows) \in Nat,
         NEW i \in DOMAIN rows
  PROVE  \E j \in FirstCopies(rows) : rows[j] = rows[i]
<1>. DEFINE Copies == {j \in DOMAIN rows : rows[j] = rows[i]}
<1>1. Copies \in SUBSET Nat /\ Copies # {}
  OBVIOUS
<1>. HIDE DEF Copies
<1>2. PICK first \in Copies : \A j \in Copies : first <= j
  BY <1>1, LeastExists
<1>. USE DEF Copies
<1>3. first \in FirstCopies(rows)
  BY <1>2 DEF FirstCopies
<1>4. QED
  BY <1>2, <1>3

LEMMA FirstCopiesDiffer ==
  ASSUME NEW rows, DOMAIN rows = 1..Len(rows), Len(rows) \in Nat,
         NEW i \in FirstCopies(rows), NEW j \in FirstCopies(rows),
         rows[i] = rows[j]
  PROVE  i = j
BY DEF FirstCopies

\* The place of an element in the order of its set tells it from the others,
\* and every place is taken.
LEMMA PlacesAreTaken ==
  ASSUME NEW S \in SUBSET Nat, IsFiniteSet(S)
  PROVE  LET Place(i) == Cardinality({j \in S : j <= i}) IN
         /\ \A i, j \in S : Place(i) = Place(j) => i = j
         /\ \A k \in 1..Cardinality(S) : \E i \in S : Place(i) = k
         /\ \A i \in S : Place(i) \in 1..Cardinality(S)
<1>. DEFINE UpTo(i) == {j \in S : j <= i}
            Place(i) == Cardinality(UpTo(i))
            place == [i \in S |-> Place(i)]
<1>1. ASSUME NEW i \in S
      PROVE  /\ IsFiniteSet(UpTo(i)) /\ i \in UpTo(i)
             /\ Place(i) \in 1..Cardinality(S)
  <2>1. UpTo(i) \in SUBSET S /\ i \in UpTo(i)
    OBVIOUS
  <2>2. IsFiniteSet(UpTo(i)) /\ Cardinality(UpTo(i)) <= Cardinality(S)
    BY <2>1, FS_Subset
  <2>3. Cardinality(UpTo(i)) \in Nat /\ Cardinality(UpTo(i)) # 0
    BY <2>1, <2>2, FS_CardinalityType, FS_EmptySet
  <2>4. Cardinality(S) \in Nat
    BY FS_CardinalityType
  <2>5. QED
    BY <2>1, <2>2, <2>3, <2>4
<1>2. ASSUME NEW i \in S, NEW j \in S, i < j
      PROVE  Place(i) # Place(j)
  <2>1. i \in Nat /\ j \in Nat /\ \A k \in S : k \in Nat
    OBVIOUS
  <2>2. UpTo(i) \in SUBSET UpTo(j)
    <3>1. ASSUME NEW k \in S, k <= i
          PROVE  k <= j
      BY <1>2, <2>1, <3>1
    <3>2. QED
      BY <3>1
  <2>3. j \in UpTo(j) /\ j \notin UpTo(i)
    <3>1. j <= j /\ ~(j <= i)
      BY <1>2, <2>1
    <3>2. QED
      BY <3>1
  <2>4. Cardinality(UpTo(j)) = Cardinality(UpTo(i)) => UpTo(j) = UpTo(i)
    BY <1>1, <2>2, FS_Subset
  <2>5. QED
    BY <2>3, <2>4
<1>3. \A i, j \in S : Place(i) = Place(j) => i = j
  <2>1. TAKE i, j \in S
  <2>2. i < j \/ j < i \/ i = j
    OBVIOUS
  <2>3. QED
    BY <1>2, <2>2
<1>4. place \in Injection(S, 1..Cardinality(S))
  <2>. HIDE DEF Place
  <2>1. place \in [S -> 1..Cardinality(S)]
    BY <1>1
  <2>2. QED
    BY <1>3, <2>1, Fun_IsInj
<1>5. place \in Surjection(S, 1..Cardinality(S))
  <2>1. Cardinality(S) \in Nat
    BY FS_CardinalityType
  <2>2. IsFiniteSet(1..Cardinality(S)) /\ Cardinality(1..Cardinality(S)) = Cardinality(S)
    BY <2>1, FS_Interval
  <2>. HIDE DEF place
  <2>3. QED
    BY <1>4, <2>2, FS_Injection
<1>6. \A k \in 1..Cardinality(S) : \E i \in S : Place(i) = k
  <2>. HIDE DEF Place
  <2>1. QED
    BY <1>5 DEF Surjection
<1>7. QED
  BY <1>1, <1>3, <1>6

\* The sequence of a finite set of numbers has each of them once.
LEMMA PositionsAreABijection ==
  ASSUME NEW S \in SUBSET Nat, IsFiniteSet(S)
  PROVE  /\ Cardinality(S) \in Nat
         /\ Positions(S) \in [1..Cardinality(S) -> S]
         /\ DOMAIN Positions(S) = 1..Cardinality(S)
         /\ \A k, l \in 1..Cardinality(S) : Positions(S)[k] = Positions(S)[l] => k = l
         /\ \A i \in S : \E k \in 1..Cardinality(S) : Positions(S)[k] = i
<1>. DEFINE Place(i) == Cardinality({j \in S : j <= i})
<1>1. /\ \A i, j \in S : Place(i) = Place(j) => i = j
      /\ \A k \in 1..Cardinality(S) : \E i \in S : Place(i) = k
      /\ \A i \in S : Place(i) \in 1..Cardinality(S)
  BY PlacesAreTaken
<1>2. Positions(S) = [k \in 1..Cardinality(S) |-> CHOOSE i \in S : Place(i) = k]
  BY DEF Positions
<1>. HIDE DEF Place
<1>3. \A k \in 1..Cardinality(S) : Positions(S)[k] \in S /\ Place(Positions(S)[k]) = k
  BY <1>1, <1>2
<1>4. \A i \in S : Positions(S)[Place(i)] = i
  BY <1>1, <1>3
<1>5. Cardinality(S) \in Nat
  BY FS_CardinalityType
<1>6. QED
  BY <1>1, <1>2, <1>3, <1>4, <1>5

\* Of all positions, the k-th is k.
LEMMA PositionsOfAll ==
  ASSUME NEW m \in Nat
  PROVE  Positions(1..m) = [k \in 1..m |-> k] /\ Cardinality(1..m) = m
<1>1. Cardinality(1..m) = m
  BY FS_Interval
<1>2. ASSUME NEW i \in 1..m
      PROVE  Cardinality({j \in 1..m : j <= i}) = i
  <2>1. {j \in 1..m : j <= i} = 1..i
    OBVIOUS
  <2>2. Cardinality(1..i) = i
    <3>1. i \in Int /\ 1 \in Int /\ ~(1 > i) /\ i - 1 + 1 = i
      OBVIOUS
    <3>2. QED
      BY <3>1, FS_Interval
  <2>3. QED
    BY <2>1, <2>2
<1>3. \A k \in 1..m : (CHOOSE i \in 1..m : Cardinality({j \in 1..m : j <= i}) = k) = k
  BY <1>2
<1>4. QED
  BY <1>1, <1>3 DEF Positions
-----------------------------------------------------------------------------
(***************************************************************************)
(* Tables and cells.                                                       *)
(***************************************************************************)

\* Every file has its place in the order.
LEMMA PlacesInOrder ==
  /\ Len(Order) \in Nat /\ DOMAIN Order = 1..Len(Order)
  /\ \A i \in DOMAIN Order : Order[i] \in File
  /\ \A f \in File : \E i \in DOMAIN Order : Order[i] = f
  /\ \A i, j \in DOMAIN Order : Order[i] = Order[j] => i = j
BY RowCleaningAssumption DEF ToSet

\* A column has one rule, and the tables it refers to come earlier.
LEMMA RulesOfTable ==
  ASSUME schema \in Schemas, NEW j \in DOMAIN Order
  PROVE  LET f == Order[j] IN
         /\ Identifiers(f) \cup Decimals(f) \cup Dates(f) \subseteq Table(f).columns
         /\ Table(f).labels \subseteq Table(f).columns
         /\ (Identifiers(f) \cup Decimals(f)) \cap Dates(f) = {}
         /\ \A c \in Foreign(f) : \E i \in 1..(j - 1) :
              /\ Table(f).foreign[c] = Order[i]
              /\ \A d \in Dates(Order[i]) : Table(Order[i]).dates[d].policy # "reject"
<1>. DEFINE t == schema[Order[j]]
            rules == {t.key} \cup DOMAIN t.foreign \cup t.decimals
<1>1. /\ rules \cup DOMAIN t.dates \cup t.labels \subseteq t.columns
      /\ rules \cap DOMAIN t.dates = {}
      /\ \A c \in DOMAIN t.foreign : \E i \in 1..(j - 1) :
           /\ t.foreign[c] = Order[i]
           /\ \A d \in DOMAIN schema[Order[i]].dates :
                schema[Order[i]].dates[d].policy # "reject"
  BY RowCleaningAssumption, Zenon
<1>2. QED
  BY <1>1 DEF Table, Foreign, Dates, Decimals, Identifiers

LEMMA RulesOfFile ==
  ASSUME schema \in Schemas, NEW f \in File
  PROVE  /\ Identifiers(f) \cup Decimals(f) \cup Dates(f) \subseteq Table(f).columns
         /\ Table(f).key \in Identifiers(f)
         /\ Foreign(f) \subseteq Identifiers(f)
         /\ Table(f).labels \subseteq Table(f).columns
         /\ (Identifiers(f) \cup Decimals(f)) \cap Dates(f) = {}
         /\ \A c \in Foreign(f) : Table(f).foreign[c] \in File
<1>1. PICK j \in DOMAIN Order : Order[j] = f
  BY PlacesInOrder
<1>2. /\ Identifiers(f) \cup Decimals(f) \cup Dates(f) \subseteq Table(f).columns
      /\ Table(f).labels \subseteq Table(f).columns
      /\ (Identifiers(f) \cup Decimals(f)) \cap Dates(f) = {}
      /\ \A c \in Foreign(f) : \E i \in 1..(j - 1) : Table(f).foreign[c] = Order[i]
  BY <1>1, RulesOfTable
<1>3. \A i \in 1..(j - 1) : Order[i] \in File
  BY PlacesInOrder
<1>4. QED
  BY <1>2, <1>3 DEF Identifiers

\* The forms of a cell, and what they are read as.
LEMMA FormsOfCells ==
  /\ Empty \in Cells /\ Token \in Cells /\ ShortYear \in Cells
  /\ \A v \in Int \cup {None} : Plain(v) \in Cells
  /\ Parsed(Empty) = None /\ Parsed(Token) = None /\ Parsed(ShortYear) = None
  /\ \A v : Parsed(Plain(v)) = v /\ Plain(v) # Empty /\ Plain(v) # Token
  /\ \A v : v # None => Plain(v) # ShortYear
  /\ Empty # ShortYear /\ Empty # Token
  /\ Empty.null /\ Token.null /\ ~ShortYear.null /\ ~Token.plain
  /\ \A v : ~Plain(v).null
BY DEF Cells, Empty, Token, ShortYear, Plain, Cell, Parsed

LEMMA ReadCell ==
  ASSUME NEW x \in Cells
  PROVE  /\ Parsed(x) \in Int \cup {None}
         /\ x.null => x = Empty \/ x = Token
         /\ x.null => Parsed(x) = None
         /\ ~x.null /\ x.plain /\ x # ShortYear => x = Plain(Parsed(x)) /\ Parsed(x) # None
         /\ Parsed(x) # None /\ x.plain => x = Plain(Parsed(x))
<1>1. CASE x = Empty \/ x = Token
  BY <1>1 DEF Empty, Token, Parsed
<1>2. CASE x \in [value : Int \cup {None}, plain : BOOLEAN, null : {FALSE}]
  <2>1. x = [value |-> x.value, plain |-> x.plain, null |-> FALSE]
        /\ x.value \in Int \cup {None} /\ x.plain \in BOOLEAN /\ ~x.null
    BY <1>2
  <2>2. x.plain => x = Plain(x.value)
    BY <2>1 DEF Plain, Cell
  <2>3. QED
    BY <2>1, <2>2 DEF Parsed, ShortYear, Plain
<1>3. QED
  BY <1>1, <1>2 DEF Cells

LEMMA RowFacts ==
  ASSUME NEW f \in File, NEW row \in RowsOf(Table(f))
  PROVE  /\ row = [c \in Table(f).columns |-> row[c]]
         /\ DOMAIN row = Table(f).columns
         /\ \A c \in Table(f).columns : row[c] \in Cells
         /\ \A c \in Table(f).columns \ Dates(f) : row[c] # ShortYear
BY DEF RowsOf, Dates

\* Writing a row rewrites each cell by its rule; what can be read stays what
\* it is, except for a date before the year 1000.
LEMMA WrittenCells ==
  ASSUME schema \in Schemas, NEW f \in File, NEW row \in RowsOf(Table(f))
  PROVE  LET written == WrittenRow(f, row) IN
         /\ DOMAIN written = Table(f).columns
         /\ \A c \in Identifiers(f) \cup Decimals(f) :
              /\ written[c] = WrittenValue(row[c])
              /\ Parsed(written[c]) = Parsed(row[c])
              /\ written[c] \in Cells /\ written[c] # ShortYear
              /\ Parsed(row[c]) # None => written[c] = Plain(Parsed(row[c]))
         /\ \A c \in Dates(f) :
              /\ written[c] = WrittenDate(Table(f).dates[c], row[c])
              /\ written[c] \in Cells
         /\ \A c \in Table(f).columns \ (Identifiers(f) \cup Decimals(f) \cup Dates(f)) :
              written[c] = row[c]
         /\ Key(f, written) = Key(f, row)
<1>. DEFINE written == WrittenRow(f, row)
            rules == Identifiers(f) \cup Decimals(f)
<1>1. /\ rules \cup Dates(f) \subseteq Table(f).columns /\ rules \cap Dates(f) = {}
      /\ Table(f).key \in Identifiers(f)
  BY RulesOfFile
<1>2. DOMAIN row = Table(f).columns /\ \A c \in Table(f).columns : row[c] \in Cells
  BY RowFacts
<1>3. /\ DOMAIN written = Table(f).columns
      /\ \A c \in rules : written[c] = WrittenValue(row[c])
      /\ \A c \in Dates(f) : written[c] = WrittenDate(Table(f).dates[c], row[c])
      /\ \A c \in Table(f).columns \ (rules \cup Dates(f)) : written[c] = row[c]
  <2>. HIDE DEF rules
  <2>1. written = [c \in Table(f).columns |->
                     CASE c \in Dates(f) -> WrittenDate(Table(f).dates[c], row[c])
                       [] c \in rules -> WrittenValue(row[c])
                       [] OTHER -> row[c]]
    BY <1>2, Zenon DEF WrittenRow, rules
  <2>. HIDE DEF written
  <2>2. QED
    BY <1>1, <2>1
<1>. HIDE DEF written
<1>4. ASSUME NEW c \in rules
      PROVE  /\ Parsed(written[c]) = Parsed(row[c])
             /\ written[c] \in Cells /\ written[c] # ShortYear
             /\ Parsed(row[c]) # None => written[c] = Plain(Parsed(row[c]))
  <2>1. row[c] \in Cells
    BY <1>1, <1>2
  <2>2. Parsed(row[c]) \in Int \cup {None}
    BY <2>1, ReadCell
  <2>3. QED
    BY <1>3, <2>2, FormsOfCells DEF WrittenValue
<1>5. ASSUME NEW c \in Dates(f)
      PROVE  written[c] \in Cells
  <2>1. Parsed(row[c]) \in Int \cup {None}
    BY <1>1, <1>2, ReadCell
  <2>2. QED
    BY <1>3, <2>1, FormsOfCells DEF WrittenDate
<1>6. Key(f, written) = Key(f, row)
  BY <1>1, <1>4 DEF Key
<1>7. QED
  BY <1>3, <1>4, <1>5, <1>6 DEF written

LEMMA WrittenIsARow ==
  ASSUME schema \in Schemas, NEW f \in File, NEW row \in RowsOf(Table(f))
  PROVE  WrittenRow(f, row) \in RowsOf(Table(f))
<1>. DEFINE written == WrittenRow(f, row)
            rules == Identifiers(f) \cup Decimals(f)
<1>1. /\ DOMAIN written = Table(f).columns
      /\ \A c \in rules : written[c] \in Cells /\ written[c] # ShortYear
      /\ \A c \in Dates(f) : written[c] \in Cells
      /\ \A c \in Table(f).columns \ (rules \cup Dates(f)) : written[c] = row[c]
  BY WrittenCells
<1>2. \A c \in Table(f).columns : row[c] \in Cells /\ (c \notin Dates(f) => row[c] # ShortYear)
  BY RowFacts
<1>3. written = [c \in DOMAIN row |-> written[c]]
  BY DEF WrittenRow
<1>4. DOMAIN row = Table(f).columns
  BY RowFacts
<1>. HIDE DEF written, rules
<1>5. written \in [Table(f).columns -> Cells]
  BY <1>1, <1>2, <1>3, <1>4
<1>6. QED
  BY <1>1, <1>2, <1>5 DEF RowsOf, Dates, written
-----------------------------------------------------------------------------
(***************************************************************************)
(* What is kept, and its file.                                             *)
(***************************************************************************)

LEMMA TableRows ==
  ASSUME TypeOK, NEW f \in File
  PROVE  /\ schema \in Schemas
         /\ tables[f] \in Seq(RowsOf(Table(f)))
         /\ Len(tables[f]) \in Nat /\ DOMAIN tables[f] = 1..Len(tables[f])
         /\ \A i \in DOMAIN tables[f] : tables[f][i] \in RowsOf(Table(f))
BY DEF TypeOK

\* The output has each kept row, written, in one place.
LEMMA OutputRows ==
  ASSUME TypeOK, NEW f \in File, kept[f] \subseteq DOMAIN tables[f]
  PROVE  LET P == Positions(kept[f]) IN
         /\ Cardinality(kept[f]) \in Nat
         /\ DOMAIN Output(f) = 1..Cardinality(kept[f])
         /\ Output(f) \in Seq(RowsOf(Table(f)))
         /\ \A k \in DOMAIN Output(f) :
              P[k] \in kept[f] /\ Output(f)[k] = WrittenRow(f, tables[f][P[k]])
         /\ \A k, l \in DOMAIN Output(f) : P[k] = P[l] => k = l
         /\ \A i \in kept[f] : \E k \in DOMAIN Output(f) : P[k] = i
<1>. DEFINE P == Positions(kept[f])
            N == Cardinality(kept[f])
<1>1. kept[f] \in SUBSET Nat /\ IsFiniteSet(kept[f])
  <2>1. IsFiniteSet(1..Len(tables[f])) /\ 1..Len(tables[f]) \subseteq Nat
    BY TableRows, FS_Interval
  <2>2. QED
    BY <2>1, TableRows, FS_Subset
<1>2. /\ N \in Nat /\ P \in [1..N -> kept[f]] /\ DOMAIN P = 1..N
      /\ \A k, l \in 1..N : P[k] = P[l] => k = l
      /\ \A i \in kept[f] : \E k \in 1..N : P[k] = i
  BY <1>1, PositionsAreABijection
<1>3. Output(f) = [k \in DOMAIN P |-> WrittenRow(f, tables[f][P[k]])]
  BY DEF Output
<1>. HIDE DEF P, N
<1>4. \A k \in 1..N : WrittenRow(f, tables[f][P[k]]) \in RowsOf(Table(f))
  BY <1>2, TableRows, WrittenIsARow
<1>5. Output(f) \in [1..N -> RowsOf(Table(f))]
  BY <1>2, <1>3, <1>4
<1>6. Output(f) \in Seq(RowsOf(Table(f)))
  BY <1>2, <1>5
<1>7. QED
  BY <1>2, <1>3, <1>5, <1>6 DEF P, N

\* The keys of the accepted rows are those of the output.
LEMMA KeysOfOutput ==
  ASSUME TypeOK, NEW f \in File, kept[f] \subseteq DOMAIN tables[f]
  PROVE  AcceptedKeys[f] = {Key(f, row) : row \in Range(Output(f))}
<1>. DEFINE P == Positions(kept[f])
<1>1. /\ \A k \in DOMAIN Output(f) :
           P[k] \in kept[f] /\ Output(f)[k] = WrittenRow(f, tables[f][P[k]])
      /\ \A i \in kept[f] : \E k \in DOMAIN Output(f) : P[k] = i
  BY OutputRows
<1>2. \A i \in kept[f] : Key(f, WrittenRow(f, tables[f][i])) = Key(f, tables[f][i])
  BY TableRows, WrittenCells
<1>3. AcceptedKeys[f] = {Key(f, tables[f][i]) : i \in kept[f]}
  BY DEF AcceptedKeys
<1>. HIDE DEF P
<1>4. ASSUME NEW row \in Range(Output(f))
      PROVE  Key(f, row) \in AcceptedKeys[f]
  <2>1. PICK k \in DOMAIN Output(f) : row = Output(f)[k]
    BY <1>4 DEF Range
  <2>2. QED
    BY <1>1, <1>2, <1>3, <2>1
<1>5. ASSUME NEW i \in kept[f]
      PROVE  \E row \in Range(Output(f)) : Key(f, row) = Key(f, tables[f][i])
  <2>1. PICK k \in DOMAIN Output(f) : P[k] = i
    BY <1>1
  <2>2. Output(f)[k] \in Range(Output(f))
    BY DEF Range
  <2>3. QED
    BY <1>1, <1>2, <2>1, <2>2
<1>6. QED
  BY <1>3, <1>4, <1>5

\* A rejection depends on the keys of the parents only, and so does whether
\* the command ends.
LEMMA AcceptedStays ==
  ASSUME NEW f \in File, schema' = schema, tables' = tables,
         \A c \in Foreign(f) :
           AcceptedKeys'[Table(f).foreign[c]] = AcceptedKeys[Table(f).foreign[c]]
  PROVE  /\ Accepted(f)' = Accepted(f)
         /\ Fatal(f, tables[f], AcceptedKeys)' <=> Fatal(f, tables[f], AcceptedKeys)
<1>. USE DEF Table, Foreign, Dates, Decimals, Key
<1>1. \A row : HasReasons(f, row, AcceptedKeys)' <=> HasReasons(f, row, AcceptedKeys)
  BY DEF HasReasons, LeadsNowhere
<1>2. Rejected(f, tables[f], AcceptedKeys)' = Rejected(f, tables[f], AcceptedKeys)
  BY <1>1 DEF Rejected
<1>3. Conflict(f, tables[f])' <=> Conflict(f, tables[f])
  BY DEF Conflict
<1>4. \A row : (BadDate(f, row)' <=> BadDate(f, row))
               /\ (BadDecimal(f, row)' <=> BadDecimal(f, row))
  BY DEF BadDate, BadDecimal
<1>5. QED
  BY <1>2, <1>3, <1>4 DEF Accepted, Fatal

\* A file that has been cleaned: what was kept of it.
LEMMA KeptRows ==
  ASSUME RowCleaningInv, NEW f \in File, NEW i \in kept[f]
  PROVE  /\ kept[f] = Accepted(f) /\ ~Fatal(f, tables[f], AcceptedKeys)
         /\ i \in FirstCopies(tables[f]) /\ i \in DOMAIN tables[f]
         /\ Key(f, tables[f][i]) # None
         /\ \A c \in Foreign(f) : ~LeadsNowhere(tables[f][i][c],
                                                AcceptedKeys[Table(f).foreign[c]])
         /\ \A c \in Dates(f) :
              /\ Table(f).dates[c].policy = "reject" => Parsed(tables[f][i][c]) # None
              /\ Table(f).dates[c].policy = "error"
                   => tables[f][i][c] = Empty \/ Parsed(tables[f][i][c]) # None
         /\ \A c \in Decimals(f) : Parsed(tables[f][i][c]) # None
<1>1. PICK j \in DOMAIN Order : Order[j] = f
  BY PlacesInOrder
<1>2. kept[f] = Accepted(f) /\ ~Fatal(f, tables[f], AcceptedKeys)
  BY <1>1 DEF RowCleaningInv, KeptWereAccepted
<1>3. i \in FirstCopies(tables[f]) /\ i \notin Rejected(f, tables[f], AcceptedKeys)
  BY <1>2 DEF Accepted
<1>4. i \in DOMAIN tables[f]
  BY <1>3 DEF FirstCopies
<1>5. ~HasReasons(f, tables[f][i], AcceptedKeys)
  BY <1>3 DEF Rejected
<1>6. ~BadDate(f, tables[f][i]) /\ ~BadDecimal(f, tables[f][i])
  BY <1>2, <1>3 DEF Fatal
<1>7. QED
  BY <1>2, <1>3, <1>4, <1>5, <1>6 DEF HasReasons, BadDate, BadDecimal

LEMMA KeptArePositions ==
  ASSUME RowCleaningInv, NEW f \in File
  PROVE  kept[f] \subseteq DOMAIN tables[f]
BY KeptRows

\* No two rows that are kept have the same key.
LEMMA KeptKeysDiffer ==
  ASSUME RowCleaningInv, NEW f \in File, NEW i \in kept[f], NEW j \in kept[f],
         Key(f, tables[f][i]) = Key(f, tables[f][j])
  PROVE  i = j
<1>1. ~Conflict(f, tables[f]) /\ Key(f, tables[f][i]) # None
      /\ i \in FirstCopies(tables[f]) /\ j \in FirstCopies(tables[f])
  BY KeptRows DEF Fatal
<1>2. QED
  BY <1>1 DEF Conflict

\* The row of a reference that was accepted is there.
LEMMA ParentIsKept ==
  ASSUME RowCleaningInv, NEW f \in File, NEW i \in kept[f], NEW c \in Foreign(f)
  PROVE  LET g == Table(f).foreign[c] IN
         /\ g \in File
         /\ Parsed(tables[f][i][c]) # None
         /\ \E k \in kept[g] : Key(g, tables[g][k]) = Parsed(tables[f][i][c])
<1>1. Table(f).foreign[c] \in File
  BY RulesOfFile DEF RowCleaningInv, TypeOK
<1>2. ~LeadsNowhere(tables[f][i][c], AcceptedKeys[Table(f).foreign[c]])
  BY KeptRows
<1>3. QED
  BY <1>1, <1>2 DEF LeadsNowhere, AcceptedKeys
-----------------------------------------------------------------------------
(***************************************************************************)
(* The invariant.                                                          *)
(***************************************************************************)

\* The output of a command that has not failed is in processed form.
LEMMA OutputIsProcessed ==
  ASSUME RowCleaningInv
  PROVE  ProcessedFiles([f \in File |-> Output(f)])
<1>. DEFINE files == [f \in File |-> Output(f)]
<1>1. ASSUME NEW f \in File, NEW k \in DOMAIN files[f]
      PROVE  ProcessedRow(f, files[f][k], files)
  <2>1. PICK i \in kept[f] : files[f][k] = WrittenRow(f, tables[f][i])
    BY <1>1, OutputRows, KeptArePositions DEF RowCleaningInv
  <2>2. tables[f][i] \in RowsOf(Table(f)) /\ schema \in Schemas
    BY KeptRows, TableRows DEF RowCleaningInv
  <2>. DEFINE row == tables[f][i]
              written == WrittenRow(f, row)
  <2>3. /\ \A c \in Identifiers(f) \cup Decimals(f) :
             /\ Parsed(written[c]) = Parsed(row[c])
             /\ Parsed(row[c]) # None => written[c] = Plain(Parsed(row[c]))
        /\ \A c \in Dates(f) : written[c] = WrittenDate(Table(f).dates[c], row[c])
    BY <2>2, WrittenCells
  <2>4. /\ Key(f, row) # None
        /\ \A c \in Dates(f) :
             Table(f).dates[c].policy = "reject" => Parsed(row[c]) # None
        /\ \A c \in Decimals(f) : Parsed(row[c]) # None
    BY KeptRows
  <2>5. \A c \in Foreign(f) :
          /\ Table(f).foreign[c] \in File
          /\ Parsed(row[c]) # None
          /\ \E j \in kept[Table(f).foreign[c]] :
               Key(Table(f).foreign[c], tables[Table(f).foreign[c]][j]) = Parsed(row[c])
    BY ParentIsKept
  <2>. HIDE DEF row, written
  <2>6. \A c \in Identifiers(f) \cup Decimals(f) :
          written[c] = Plain(Parsed(written[c])) /\ Parsed(written[c]) # None
    BY <2>3, <2>4, <2>5 DEF Identifiers, Key
  <2>7. ASSUME NEW c \in Dates(f)
        PROVE  ProcessedDate(Table(f).dates[c], written[c])
    BY <2>3, <2>4, FormsOfCells DEF ProcessedDate, WrittenDate
  <2>8. ASSUME NEW c \in Foreign(f)
        PROVE  \E parent \in Range(files[Table(f).foreign[c]]) :
                 Key(Table(f).foreign[c], parent) = Parsed(written[c])
    <3>. DEFINE g == Table(f).foreign[c]
    <3>1. g \in File /\ Parsed(written[c]) = Parsed(row[c])
          /\ \E j \in kept[g] : Key(g, tables[g][j]) = Parsed(row[c])
      BY <2>3, <2>5 DEF Identifiers
    <3>2. Parsed(written[c]) \in AcceptedKeys[g]
      BY <3>1 DEF AcceptedKeys
    <3>. HIDE DEF g
    <3>3. AcceptedKeys[g] = {Key(g, parent) : parent \in Range(Output(g))}
      BY <3>1, KeysOfOutput, KeptArePositions DEF RowCleaningInv
    <3>4. QED
      BY <3>1, <3>2, <3>3 DEF g
  <2>. HIDE DEF files
  <2>9. QED
    BY <2>1, <2>6, <2>7, <2>8 DEF ProcessedRow, written, row
<1>2. ASSUME NEW f \in File, NEW k \in DOMAIN files[f], NEW l \in DOMAIN files[f],
             Key(f, files[f][k]) = Key(f, files[f][l])
      PROVE  k = l
  <2>. DEFINE P == Positions(kept[f])
  <2>1. /\ P[k] \in kept[f] /\ files[f][k] = WrittenRow(f, tables[f][P[k]])
        /\ P[l] \in kept[f] /\ files[f][l] = WrittenRow(f, tables[f][P[l]])
        /\ P[k] = P[l] => k = l
    BY <1>2, OutputRows, KeptArePositions DEF RowCleaningInv
  <2>. HIDE DEF P
  <2>2. \A i \in kept[f] : Key(f, WrittenRow(f, tables[f][i])) = Key(f, tables[f][i])
    <3>1. \A i \in kept[f] : tables[f][i] \in RowsOf(Table(f)) /\ schema \in Schemas
      BY KeptRows, TableRows DEF RowCleaningInv
    <3>2. QED
      BY <3>1, WrittenCells
  <2>3. P[k] = P[l]
    BY <1>2, <2>1, <2>2, KeptKeysDiffer
  <2>4. QED
    BY <2>1, <2>3
<1>3. QED
  BY <1>1, <1>2, Zenon DEF ProcessedFiles

\* Of files in processed form, no early date among them, nothing ends the
\* command.
LEMMA ProcessedIsNotFatal ==
  ASSUME TypeOK, ProcessedFiles(tables), NoEarlyDate, NEW f \in File, NEW keys
  PROVE  ~Fatal(f, tables[f], keys)
<1>1. \A i \in DOMAIN tables[f] : ProcessedRow(f, tables[f][i], tables)
  BY DEF ProcessedFiles
<1>2. FirstCopies(tables[f]) \subseteq DOMAIN tables[f]
  BY DEF FirstCopies
<1>3. ~Conflict(f, tables[f])
  BY <1>2 DEF Conflict, ProcessedFiles
<1>4. ASSUME NEW i \in DOMAIN tables[f]
      PROVE  ~BadDate(f, tables[f][i])
  <2>1. \A c \in Dates(f) : ProcessedDate(Table(f).dates[c], tables[f][i][c])
                            /\ tables[f][i][c] # ShortYear
    BY <1>1 DEF ProcessedRow, NoEarlyDate
  <2>2. QED
    BY <2>1 DEF BadDate, ProcessedDate
<1>5. ASSUME NEW i \in DOMAIN tables[f]
      PROVE  ~BadDecimal(f, tables[f][i])
  BY <1>1 DEF BadDecimal, ProcessedRow
<1>6. QED
  BY <1>2, <1>3, <1>4, <1>5 DEF Fatal

LEMMA InitInv == Init => RowCleaningInv
<1>. SUFFICES ASSUME Init PROVE RowCleaningInv
  OBVIOUS
<1>1. schema \in Schemas /\ tables \in Raw
  BY DEF Init
<1>2. DOMAIN tables = File /\ \A f \in File : tables[f] \in Seq(RowsOf(Table(f)))
  BY <1>1, RowCleaningAssumption DEF Table
<1>3. TypeOK
  BY <1>1, <1>2, PlacesInOrder DEF Init, TypeOK
<1>4. KeptWereAccepted
  BY PlacesInOrder DEF Init, KeptWereAccepted
<1>5. QED
  BY <1>3, <1>4 DEF Init, RowCleaningInv

LEMMA CleanTableStep ==
  ASSUME RowCleaningInv, CleanTable
  PROVE  RowCleaningInv'
<1>. DEFINE f == Order[n]
<1>1. /\ at = "cleaning" /\ n \in DOMAIN Order /\ f \in File
      /\ schema' = schema /\ tables' = tables /\ round' = round
  BY PlacesInOrder DEF CleanTable, RowCleaningInv, TypeOK
<1>2. round = 2 => ProcessedFiles(tables)'
  BY <1>1 DEF RowCleaningInv, ProcessedFiles, ProcessedRow, ProcessedDate,
              Table, Identifiers, Decimals, Dates, Foreign, Key
<1>3. NoEarlyDate' <=> NoEarlyDate
  BY <1>1 DEF NoEarlyDate, Dates, Table
<1>4. CASE Fatal(f, tables[f], AcceptedKeys) /\ at' = "failed" /\ UNCHANGED <<n, kept>>
  <2>1. TypeOK'
    BY <1>1, <1>4 DEF RowCleaningInv, TypeOK, Table
  <2>2. AcceptedKeys' = AcceptedKeys
    BY <1>1, <1>4 DEF AcceptedKeys, Key, Table
  <2>3. KeptWereAccepted'
    <3>1. \A g \in File : /\ Accepted(g)' = Accepted(g)
                          /\ Fatal(g, tables[g], AcceptedKeys)'
                               <=> Fatal(g, tables[g], AcceptedKeys)
      BY <1>1, <2>2, AcceptedStays
    <3>2. QED
      BY <1>4, <3>1, PlacesInOrder DEF RowCleaningInv, KeptWereAccepted
  <2>4. ~(round = 2 /\ NoEarlyDate)
    BY <1>1, <1>4, ProcessedIsNotFatal DEF RowCleaningInv
  <2>5. QED
    BY <1>1, <1>2, <1>3, <1>4, <2>1, <2>3, <2>4 DEF RowCleaningInv
<1>5. CASE /\ ~Fatal(f, tables[f], AcceptedKeys)
           /\ kept' = [kept EXCEPT ![f] = Accepted(f)]
           /\ n' = n + 1 /\ at' = at
  <2>1. TypeOK'
    BY <1>1, <1>5, PlacesInOrder DEF RowCleaningInv, TypeOK, Table
  <2>2. /\ kept'[f] = Accepted(f)
        /\ \A g \in File \ {f} : kept'[g] = kept[g]
    BY <1>1, <1>5 DEF RowCleaningInv, TypeOK
  <2>3. \A g \in File \ {f} : AcceptedKeys'[g] = AcceptedKeys[g]
    BY <1>1, <2>2 DEF AcceptedKeys, Key, Table
  <2>4. ASSUME NEW i \in DOMAIN Order, i < n + 1
        PROVE  /\ Accepted(Order[i])' = Accepted(Order[i])
               /\ Fatal(Order[i], tables[Order[i]], AcceptedKeys)'
                    <=> Fatal(Order[i], tables[Order[i]], AcceptedKeys)
    <3>1. \A k \in 1..(i - 1) : Order[k] \in File \ {f}
      BY <1>1, <2>4, PlacesInOrder
    <3>2. \A c \in Foreign(Order[i]) :
            \E k \in 1..(i - 1) : Table(Order[i]).foreign[c] = Order[k]
      BY RulesOfTable DEF RowCleaningInv, TypeOK
    <3>3. \A c \in Foreign(Order[i]) :
            AcceptedKeys'[Table(Order[i]).foreign[c]]
              = AcceptedKeys[Table(Order[i]).foreign[c]]
      BY <2>3, <3>1, <3>2
    <3>4. QED
      BY <1>1, <3>3, PlacesInOrder, AcceptedStays
  <2>5. KeptWereAccepted'
    <3>1. ASSUME NEW i \in DOMAIN Order, i < n + 1
          PROVE  kept'[Order[i]] = Accepted(Order[i])'
                 /\ ~Fatal(Order[i], tables[Order[i]], AcceptedKeys)'
      <4>1. CASE i = n
        <5>1. Order[i] = f
          BY <4>1
        <5>2. kept'[f] = Accepted(f) /\ ~Fatal(f, tables[f], AcceptedKeys)
          BY <1>5, <2>2
        <5>. HIDE DEF f
        <5>3. QED
          BY <2>4, <3>1, <5>1, <5>2
      <4>2. CASE i # n
        <5>1. i < n /\ Order[i] \in File \ {f}
          BY <1>1, <3>1, <4>2, PlacesInOrder
        <5>2. kept[Order[i]] = Accepted(Order[i])
              /\ ~Fatal(Order[i], tables[Order[i]], AcceptedKeys)
          BY <5>1 DEF RowCleaningInv, KeptWereAccepted
        <5>3. QED
          BY <2>2, <2>4, <3>1, <5>1, <5>2
      <4>3. QED
        BY <4>1, <4>2
    <3>2. ASSUME NEW i \in DOMAIN Order, ~(i < n + 1)
          PROVE  kept'[Order[i]] = {}
      <4>1. ~(i < n) /\ Order[i] \in File \ {f}
        BY <1>1, <3>2, PlacesInOrder
      <4>2. QED
        BY <2>2, <4>1 DEF RowCleaningInv, KeptWereAccepted
    <3>3. QED
      BY <1>5, <3>1, <3>2 DEF KeptWereAccepted
  <2>6. QED
    BY <1>1, <1>2, <1>5, <2>1, <2>5 DEF RowCleaningInv
<1>6. QED
  BY <1>4, <1>5 DEF CleanTable, Accepted

LEMMA CheckRelationshipsStep ==
  ASSUME RowCleaningInv, CheckRelationships
  PROVE  RowCleaningInv'
<1>1. UNCHANGED <<schema, tables, n, kept, round>> /\ n = Len(Order) + 1
  BY PlacesInOrder DEF CheckRelationships, RowCleaningInv, TypeOK
<1>2. ASSUME NEW f \in File, NEW i \in kept[f]
      PROVE  ~Orphan(f, tables[f][i])
  BY KeptRows DEF Orphan
<1>3. at' = "cleaned"
  BY <1>2 DEF CheckRelationships
<1>4. TypeOK'
  BY <1>1, <1>3 DEF RowCleaningInv, TypeOK, Table
<1>5. AcceptedKeys' = AcceptedKeys
  BY <1>1 DEF AcceptedKeys, Key, Table
<1>6. \A f \in File : /\ Accepted(f)' = Accepted(f)
                      /\ Fatal(f, tables[f], AcceptedKeys)'
                           <=> Fatal(f, tables[f], AcceptedKeys)
  BY <1>1, <1>5, AcceptedStays
<1>7. KeptWereAccepted'
  BY <1>1, <1>6, PlacesInOrder DEF RowCleaningInv, KeptWereAccepted
<1>8. round = 2 => ProcessedFiles(tables)'
  BY <1>1 DEF RowCleaningInv, ProcessedFiles, ProcessedRow, ProcessedDate,
              Table, Identifiers, Decimals, Dates, Foreign, Key
<1>9. QED
  BY <1>1, <1>3, <1>4, <1>7, <1>8 DEF RowCleaningInv

LEMMA CleanAgainStep ==
  ASSUME RowCleaningInv, CleanAgain
  PROVE  RowCleaningInv'
<1>. DEFINE files == [f \in File |-> Output(f)]
<1>1. /\ schema' = schema /\ tables' = files /\ kept' = [f \in File |-> {}]
      /\ n' = 1 /\ at' = "cleaning" /\ round' = 2
  BY DEF CleanAgain
<1>2. ProcessedFiles(files)
  BY OutputIsProcessed
<1>3. \A f \in File : files[f] \in Seq(RowsOf(Table(f)))
  BY OutputRows, KeptArePositions DEF RowCleaningInv
<1>4. DOMAIN files = File
  OBVIOUS
<1>. HIDE DEF files
<1>5. TypeOK'
  BY <1>1, <1>3, <1>4, PlacesInOrder DEF RowCleaningInv, TypeOK, Table
<1>6. KeptWereAccepted'
  BY <1>1, PlacesInOrder DEF KeptWereAccepted
<1>7. ProcessedFiles(tables)'
  BY <1>1, <1>2 DEF ProcessedFiles, ProcessedRow, ProcessedDate,
                    Table, Identifiers, Decimals, Dates, Foreign, Key
<1>8. QED
  BY <1>1, <1>5, <1>6, <1>7 DEF RowCleaningInv

LEMMA NextInv ==
  ASSUME RowCleaningInv, [Next]_vars
  PROVE  RowCleaningInv'
<1>1. CASE CleanTable
  BY <1>1, CleanTableStep
<1>2. CASE CheckRelationships
  BY <1>2, CheckRelationshipsStep
<1>3. CASE CleanAgain
  BY <1>3, CleanAgainStep
<1>4. CASE UNCHANGED vars
  <2>1. AcceptedKeys' = AcceptedKeys
    BY <1>4 DEF vars, AcceptedKeys, Key, Table
  <2>2. \A f \in File : /\ Accepted(f)' = Accepted(f)
                        /\ Fatal(f, tables[f], AcceptedKeys)'
                             <=> Fatal(f, tables[f], AcceptedKeys)
    BY <1>4, <2>1, AcceptedStays DEF vars
  <2>3. KeptWereAccepted'
    BY <1>4, <2>2, PlacesInOrder DEF vars, RowCleaningInv, KeptWereAccepted
  <2>4. round = 2 => ProcessedFiles(tables)'
    BY <1>4 DEF vars, RowCleaningInv, ProcessedFiles, ProcessedRow, ProcessedDate,
                Table, Identifiers, Decimals, Dates, Foreign, Key
  <2>5. QED
    BY <1>4, <2>3, <2>4
    DEF vars, RowCleaningInv, TypeOK, NoEarlyDate, Table, Dates
<1>5. QED
  BY <1>1, <1>2, <1>3, <1>4 DEF Next

LEMMA RowCleaningInvariant == Spec => []RowCleaningInv
<1>1. Init => RowCleaningInv
  BY InitInv
<1>2. RowCleaningInv /\ [Next]_vars => RowCleaningInv'
  BY NextInv
<1>3. QED
  BY <1>1, <1>2, PTL DEF Spec
-----------------------------------------------------------------------------
(***************************************************************************)
(* The properties.                                                         *)
(***************************************************************************)

\* When every row has a key and every reference leads to a row, only a date
\* can have a row rejected.  By a least counterexample: a table of which a
\* reference leads to a rejected row comes after the table of that row.
LEMMA OnlyDatesReject ==
  ASSUME RowCleaningInv, at = "cleaned",
         \A f \in File : \A i \in DOMAIN tables[f] :
           /\ Key(f, tables[f][i]) # None
           /\ \A c \in Foreign(f) :
                LET g == Table(f).foreign[c] IN
                /\ Parsed(tables[f][i][c]) # None
                /\ \E k \in DOMAIN tables[g] :
                     Key(g, tables[g][k]) = Parsed(tables[f][i][c]),
         NEW f \in File, NEW i \in FirstCopies(tables[f]) \ kept[f]
  PROVE  \E c \in Dates(f) :
           Table(f).dates[c].policy = "reject" /\ Parsed(tables[f][i][c]) = None
<1>. DEFINE Lost(g, k) ==
              /\ k \in FirstCopies(tables[g]) \ kept[g]
              /\ \A c \in Dates(g) :
                   Table(g).dates[c].policy = "reject" => Parsed(tables[g][k][c]) # None
            Losers == {j \in DOMAIN Order : \E k : Lost(Order[j], k)}
<1>1. SUFFICES Losers = {}
  BY PlacesInOrder
<1>2. SUFFICES ASSUME Losers # {} PROVE FALSE
  OBVIOUS
<1>3. Losers \in SUBSET Nat
  BY PlacesInOrder
<1>. HIDE DEF Losers
<1>4. PICK j \in Losers : \A l \in Losers : j <= l
  BY <1>2, <1>3, LeastExists
<1>5. PICK k : Lost(Order[j], k)
  BY DEF Losers
<1>. DEFINE g == Order[j]
<1>6. j \in DOMAIN Order /\ g \in File
  BY PlacesInOrder DEF Losers
<1>7. kept[g] = Accepted(g)
  BY <1>6, PlacesInOrder DEF RowCleaningInv, KeptWereAccepted
<1>8. k \in DOMAIN tables[g] /\ HasReasons(g, tables[g][k], AcceptedKeys)
  BY <1>5, <1>7 DEF Accepted, Rejected, FirstCopies
<1>9. PICK c \in Foreign(g) :
        LeadsNowhere(tables[g][k][c], AcceptedKeys[Table(g).foreign[c]])
  BY <1>5, <1>6, <1>8 DEF HasReasons
<1>10. PICK l \in 1..(j - 1) :
         /\ Table(g).foreign[c] = Order[l]
         /\ \A d \in Dates(Order[l]) : Table(Order[l]).dates[d].policy # "reject"
  <2>1. schema \in Schemas
    BY DEF RowCleaningInv, TypeOK
  <2>2. \A d \in Foreign(g) : \E l \in 1..(j - 1) :
          /\ Table(g).foreign[d] = Order[l]
          /\ \A e \in Dates(Order[l]) : Table(Order[l]).dates[e].policy # "reject"
    BY <1>6, <2>1, RulesOfTable
  <2>3. QED
    BY <1>9, <2>2, Zenon
<1>. DEFINE h == Order[l]
<1>11. l \in DOMAIN Order /\ h \in File /\ l \notin Losers
  BY <1>3, <1>4, <1>6, <1>10, PlacesInOrder
<1>12. PICK m \in DOMAIN tables[h] : Key(h, tables[h][m]) = Parsed(tables[g][k][c])
  BY <1>6, <1>8, <1>9, <1>10
<1>13. PICK first \in FirstCopies(tables[h]) : tables[h][first] = tables[h][m]
  BY <1>11, <1>12, FirstCopyExists, TableRows DEF RowCleaningInv
<1>14. first \in kept[h]
  BY <1>10, <1>11, <1>13 DEF Losers
<1>15. Parsed(tables[g][k][c]) \in AcceptedKeys[h]
  BY <1>11, <1>12, <1>13, <1>14 DEF AcceptedKeys
<1>16. Parsed(tables[g][k][c]) # None
  BY <1>6, <1>8, <1>9
<1>17. QED
  BY <1>9, <1>10, <1>15, <1>16 DEF LeadsNowhere

\* A cell of an identifier, written in plain form.
LEMMA PlainIdentifiers ==
  ASSUME TypeOK, PlainTexts, NEW f \in File, NEW i \in DOMAIN tables[f],
         NEW c \in Identifiers(f)
  PROVE  LET x == tables[f][i][c] IN
         /\ Missing(x) <=> Parsed(x) = None
         /\ Parsed(x) # None => x = Plain(Parsed(x))
<1>. DEFINE x == tables[f][i][c]
<1>1. /\ tables[f][i] \in RowsOf(Table(f)) /\ c \in Table(f).columns \ Dates(f)
      /\ tables[f][i] \in Range(tables[f])
  BY TableRows, RulesOfFile DEF Range
<1>2. x \in Cells /\ x # ShortYear /\ c \in DOMAIN tables[f][i]
  BY <1>1, RowFacts
<1>3. x.plain \/ x = Token
  BY <1>1, <1>2 DEF PlainTexts
<1>4. QED
  BY <1>2, <1>3, ReadCell, FormsOfCells DEF Missing

\* No row that the audit reports is accepted.
LEMMA NoneReportedIsKept ==
  ASSUME RowCleaningInv, PlainTexts, NEW f \in File, NEW i \in kept[f]
  PROVE  ~IdentifierReported(f, tables[f][i])
<1>. USE DEF RowCleaningInv
<1>1. i \in DOMAIN tables[f] /\ Key(f, tables[f][i]) # None
  BY KeptRows
<1>2. Table(f).key \in Identifiers(f) /\ Foreign(f) \subseteq Identifiers(f)
  BY DEF Identifiers
<1>3. ~Missing(tables[f][i][Table(f).key])
  BY <1>1, <1>2, PlainIdentifiers DEF Key
<1>4. ASSUME NEW c \in Foreign(f)
      PROVE  ~Missing(tables[f][i][c]) /\ ~OrphanReported(f, tables[f][i], c)
  <2>. DEFINE g == Table(f).foreign[c]
  <2>1. g \in File /\ Parsed(tables[f][i][c]) # None
    BY ParentIsKept
  <2>2. PICK k \in kept[g] : Key(g, tables[g][k]) = Parsed(tables[f][i][c])
    BY ParentIsKept
  <2>3. k \in DOMAIN tables[g] /\ Table(g).key \in Identifiers(g)
    BY <2>1, KeptRows DEF Identifiers
  <2>4. tables[g][k][Table(g).key] = tables[f][i][c]
    BY <1>1, <1>2, <2>1, <2>2, <2>3, PlainIdentifiers DEF Key
  <2>5. ~Missing(tables[f][i][c])
    BY <1>1, <1>2, <2>1, PlainIdentifiers
  <2>6. QED
    BY <2>3, <2>4, <2>5 DEF OrphanReported
<1>5. QED
  BY <1>3, <1>4 DEF IdentifierReported

\* When nothing is reported no two rows conflict.
LEMMA NothingReportedNoConflict ==
  ASSUME RowCleaningInv, PlainTexts, NothingReported, NEW f \in File
  PROVE  ~Conflict(f, tables[f])
<1>. USE DEF RowCleaningInv
<1>1. SUFFICES ASSUME NEW i \in FirstCopies(tables[f]),
                      NEW j \in FirstCopies(tables[f]), i # j,
                      Key(f, tables[f][i]) # None,
                      Key(f, tables[f][i]) = Key(f, tables[f][j])
               PROVE  FALSE
  BY DEF Conflict
<1>2. i \in DOMAIN tables[f] /\ j \in DOMAIN tables[f]
  BY DEF FirstCopies
<1>3. tables[f][i] # tables[f][j]
  BY <1>1, FirstCopiesDiffer, TableRows
<1>4. ASSUME NEW k \in DOMAIN tables[f]
      PROVE  AsAudited(tables[f][k]) = tables[f][k]
  <2>. DEFINE row == tables[f][k]
  <2>1. row \in RowsOf(Table(f)) /\ row \in Range(tables[f])
    BY TableRows DEF Range
  <2>2. /\ DOMAIN row = Table(f).columns /\ row = [c \in Table(f).columns |-> row[c]]
        /\ \A c \in Table(f).columns : row[c] \in Cells
    BY <2>1, RowFacts
  <2>3. ~IdentifierReported(f, row)
    BY <2>1 DEF NothingReported
  <2>4. \A c \in Identifiers(f) : ~Missing(row[c])
    BY <2>3 DEF IdentifierReported, Identifiers
  <2>5. \A c \in DOMAIN row : c \notin Identifiers(f) => row[c] # Token
    BY <2>1 DEF PlainTexts
  <2>. HIDE DEF row
  <2>6. \A c \in Table(f).columns : Missing(row[c]) => row[c] = Empty
    BY <2>2, <2>4, <2>5, ReadCell DEF Missing
  <2>7. AsAudited(row) = [c \in Table(f).columns |-> row[c]]
    BY <2>2, <2>6 DEF AsAudited
  <2>8. QED
    BY <2>2, <2>7 DEF row
<1>5. Table(f).key \in Identifiers(f)
  BY DEF Identifiers
<1>6. /\ ~Missing(tables[f][i][Table(f).key])
      /\ tables[f][i][Table(f).key] = tables[f][j][Table(f).key]
  BY <1>1, <1>2, <1>5, PlainIdentifiers DEF Key
<1>7. ConflictReported(f)
  BY <1>2, <1>3, <1>4, <1>6 DEF ConflictReported
<1>8. QED
  BY <1>7 DEF NothingReported

\* What the audit reports of identifiers is what the cleaning rejects: no
\* reported row is accepted, and without a report only dates reject a row.
THEOREM AuditForeseesTheCleaning == Spec => []AuditForesees
<1>1. ASSUME RowCleaningInv, PlainTexts, at = "cleaned", NothingReported,
             NEW f \in File, NEW i \in FirstCopies(tables[f]) \ kept[f]
      PROVE  \E c \in Dates(f) : Parsed(tables[f][i][c]) = None
  <2>. USE DEF RowCleaningInv
  <2>1. ASSUME NEW g \in File, NEW k \in DOMAIN tables[g]
        PROVE  /\ Key(g, tables[g][k]) # None
               /\ \A c \in Foreign(g) :
                    LET h == Table(g).foreign[c] IN
                    /\ Parsed(tables[g][k][c]) # None
                    /\ \E l \in DOMAIN tables[h] :
                         Key(h, tables[h][l]) = Parsed(tables[g][k][c])
    <3>1. ~IdentifierReported(g, tables[g][k])
      BY <1>1 DEF NothingReported, Range
    <3>2. Table(g).key \in Identifiers(g) /\ Foreign(g) \subseteq Identifiers(g)
      BY DEF Identifiers
    <3>3. Key(g, tables[g][k]) # None
      BY <1>1, <3>1, <3>2, PlainIdentifiers DEF IdentifierReported, Key
    <3>4. ASSUME NEW c \in Foreign(g)
          PROVE  LET h == Table(g).foreign[c] IN
                 /\ Parsed(tables[g][k][c]) # None
                 /\ \E l \in DOMAIN tables[h] :
                      Key(h, tables[h][l]) = Parsed(tables[g][k][c])
      <4>1. Parsed(tables[g][k][c]) # None
        BY <1>1, <3>1, <3>2, PlainIdentifiers DEF IdentifierReported
      <4>2. ~Missing(tables[g][k][c]) /\ ~OrphanReported(g, tables[g][k], c)
        BY <3>1 DEF IdentifierReported
      <4>3. QED
        BY <4>1, <4>2 DEF OrphanReported, Key
    <3>5. QED
      BY <3>3, <3>4
  <2>2. QED
    BY <1>1, <2>1, OnlyDatesReject
<1>2. RowCleaningInv => AuditForesees
  BY <1>1, NoneReportedIsKept, NothingReportedNoConflict DEF AuditForesees
<1>3. QED
  BY <1>2, RowCleaningInvariant, PTL

\* A file that was cleaned before holds no equal rows, and is written as it is.
LEMMA ProcessedStays ==
  ASSUME TypeOK, ProcessedFiles(tables), NoEarlyDate, NEW f \in File
  PROVE  /\ FirstCopies(tables[f]) = DOMAIN tables[f]
         /\ \A i \in DOMAIN tables[f] : WrittenRow(f, tables[f][i]) = tables[f][i]
<1>1. ASSUME NEW i \in DOMAIN tables[f]
      PROVE  WrittenRow(f, tables[f][i]) = tables[f][i]
  <2>. DEFINE row == tables[f][i]
              written == WrittenRow(f, row)
  <2>1. row \in RowsOf(Table(f)) /\ schema \in Schemas
    BY TableRows
  <2>2. /\ DOMAIN row = Table(f).columns
        /\ row = [c \in Table(f).columns |-> row[c]]
    BY <2>1, RowFacts
  <2>3. written = [c \in DOMAIN row |-> written[c]]
    BY DEF WrittenRow
  <2>4. /\ \A c \in Identifiers(f) \cup Decimals(f) :
             Parsed(row[c]) # None => written[c] = Plain(Parsed(row[c]))
        /\ \A c \in Dates(f) : written[c] = WrittenDate(Table(f).dates[c], row[c])
        /\ \A c \in Table(f).columns \ (Identifiers(f) \cup Decimals(f) \cup Dates(f)) :
             written[c] = row[c]
    BY <2>1, WrittenCells
  <2>5. ProcessedRow(f, row, tables)
    BY DEF ProcessedFiles
  <2>6. \A c \in Dates(f) : Parsed(row[c]) # Early /\ row[c] # ShortYear
    BY DEF NoEarlyDate
  <2>. HIDE DEF row, written
  <2>7. \A c \in Identifiers(f) \cup Decimals(f) : written[c] = row[c]
    BY <2>4, <2>5 DEF ProcessedRow
  <2>8. ASSUME NEW c \in Dates(f)
        PROVE  written[c] = row[c]
    <3>1. ProcessedDate(Table(f).dates[c], row[c])
      BY <2>5 DEF ProcessedRow
    <3>2. QED
      BY <2>4, <2>6, <3>1, FormsOfCells DEF ProcessedDate, WrittenDate
  <2>9. \A c \in Table(f).columns : written[c] = row[c]
    BY <2>4, <2>7, <2>8
  <2>10. written = row
    BY <2>2, <2>3, <2>9
  <2>11. QED
    BY <2>10 DEF written, row
<1>2. ASSUME NEW i \in DOMAIN tables[f], NEW j \in 1..(i - 1)
      PROVE  tables[f][j] # tables[f][i]
  <2>1. j \in DOMAIN tables[f] /\ i # j
    BY TableRows
  <2>2. QED
    BY <2>1 DEF ProcessedFiles
<1>3. QED
  BY <1>1, <1>2 DEF FirstCopies

\* Cleaning what has been cleaned changes nothing.
THEOREM CleaningTwiceIsCleaningOnce == Spec => []CleaningIsIdempotent
<1>1. ASSUME RowCleaningInv, round = 2, NoEarlyDate, at = "cleaned", NEW f \in File
      PROVE  Output(f) = tables[f]
  <2>. USE DEF RowCleaningInv
  <2>1. ProcessedFiles(tables)
    BY <1>1
  <2>2. ASSUME NEW g \in File, NEW i \in DOMAIN tables[g]
        PROVE  /\ Key(g, tables[g][i]) # None
               /\ \A c \in Foreign(g) :
                    LET h == Table(g).foreign[c] IN
                    /\ Parsed(tables[g][i][c]) # None
                    /\ \E k \in DOMAIN tables[h] :
                         Key(h, tables[h][k]) = Parsed(tables[g][i][c])
    <3>1. ProcessedRow(g, tables[g][i], tables)
      BY <2>1 DEF ProcessedFiles
    <3>2. QED
      BY <3>1 DEF ProcessedRow, Identifiers, Key, Range
  <2>3. ASSUME NEW i \in DOMAIN tables[f], NEW c \in Dates(f),
               Table(f).dates[c].policy = "reject"
        PROVE  Parsed(tables[f][i][c]) # None
    <3>1. ProcessedDate(Table(f).dates[c], tables[f][i][c])
      BY <2>1 DEF ProcessedFiles, ProcessedRow
    <3>2. tables[f][i][c] # ShortYear
      BY <1>1 DEF NoEarlyDate
    <3>3. QED
      BY <2>3, <3>1, <3>2 DEF ProcessedDate
  <2>4. /\ FirstCopies(tables[f]) = DOMAIN tables[f]
        /\ \A i \in DOMAIN tables[f] : WrittenRow(f, tables[f][i]) = tables[f][i]
    BY <1>1, <2>1, ProcessedStays
  <2>5. kept[f] = DOMAIN tables[f]
    <3>1. kept[f] \subseteq DOMAIN tables[f]
      BY <1>1, KeptArePositions
    <3>2. ASSUME NEW i \in FirstCopies(tables[f]) \ kept[f]
          PROVE  FALSE
      <4>1. \E c \in Dates(f) :
              Table(f).dates[c].policy = "reject" /\ Parsed(tables[f][i][c]) = None
        BY <1>1, <2>2, OnlyDatesReject
      <4>2. QED
        BY <2>3, <2>4, <4>1
    <3>3. QED
      BY <2>4, <3>1, <3>2
  <2>6. Len(tables[f]) \in Nat /\ DOMAIN tables[f] = 1..Len(tables[f])
        /\ tables[f] \in Seq(RowsOf(Table(f)))
    BY <1>1, TableRows
  <2>7. Positions(kept[f]) = [k \in 1..Len(tables[f]) |-> k]
    BY <2>5, <2>6, PositionsOfAll
  <2>8. Output(f) = [k \in 1..Len(tables[f]) |-> WrittenRow(f, tables[f][k])]
    BY <2>7 DEF Output
  <2>9. tables[f] = [k \in 1..Len(tables[f]) |-> tables[f][k]]
    BY <2>6
  <2>10. QED
    BY <2>4, <2>6, <2>8, <2>9
<1>2. RowCleaningInv => CleaningIsIdempotent
  BY <1>1 DEF CleaningIsIdempotent, RowCleaningInv
<1>3. QED
  BY <1>2, RowCleaningInvariant, PTL

\* What the cleaning accepts loads, unless for a reason no rule looks at.
THEOREM AcceptedLoads == Spec => []AcceptedDatasetLoads
<1>1. ASSUME RowCleaningInv, NoEarlyDate, ~Unchecked, NEW f \in File
      PROVE  /\ \A row \in Range(Output(f)) : RowLoads(f, row)
             /\ \A c \in {Table(f).key} \cup Table(f).labels : Unique(f, c)
  <2>. DEFINE files == [g \in File |-> Output(g)]
  <2>1. ProcessedFiles(files)
    BY <1>1, OutputIsProcessed
  <2>2. ASSUME NEW row \in Range(Output(f))
        PROVE  RowLoads(f, row)
    <3>1. PICK k \in DOMAIN Output(f) : row = Output(f)[k]
      BY DEF Range
    <3>2. ProcessedRow(f, row, files)
      BY <2>1, <3>1 DEF ProcessedFiles
    <3>3. PICK i \in kept[f] : row = WrittenRow(f, tables[f][i])
      BY <1>1, <3>1, OutputRows, KeptArePositions DEF RowCleaningInv
    <3>4. i \in DOMAIN tables[f] /\ tables[f][i] \in RowsOf(Table(f)) /\ schema \in Schemas
      BY <1>1, KeptRows, TableRows DEF RowCleaningInv
    <3>5. \A c \in Dates(f) : row[c] = WrittenDate(Table(f).dates[c], tables[f][i][c])
      BY <3>3, <3>4, WrittenCells
    <3>6. \A c \in Dates(f) : row[c] # ShortYear
      BY <1>1, <3>4, <3>5, FormsOfCells DEF WrittenDate, NoEarlyDate
    <3>7. \A c \in Dates(f) :
            /\ row[c] = Empty \/ Parsed(row[c]) # None
            /\ Table(f).dates[c].policy = "reject" => row[c] # Empty
      BY <3>2, <3>6, FormsOfCells DEF ProcessedRow, ProcessedDate
    <3>8. \A c \in Identifiers(f) \cup Decimals(f) :
            row[c] # Empty /\ Parsed(row[c]) # None
      BY <3>2, FormsOfCells DEF ProcessedRow
    <3>9. InRange(f, row) /\ \A c \in Table(f).labels : row[c] # Empty
      BY <1>1 DEF Unchecked
    <3>10. ASSUME NEW c \in Foreign(f)
           PROVE  \E parent \in Range(Output(Table(f).foreign[c])) :
                    Key(Table(f).foreign[c], parent) = Parsed(row[c])
      <4>1. Table(f).foreign[c] \in File
        BY <3>4, RulesOfFile
      <4>2. QED
        BY <3>2, <4>1 DEF ProcessedRow
    <3>11. QED
      BY <3>7, <3>8, <3>9, <3>10 DEF RowLoads, Required
  <2>3. Unique(f, Table(f).key)
    BY <2>1 DEF ProcessedFiles, Unique, Key
  <2>4. \A c \in Table(f).labels : Unique(f, c)
    BY <1>1 DEF Unchecked
  <2>5. QED
    BY <2>2, <2>3, <2>4
<1>2. RowCleaningInv => AcceptedDatasetLoads
  BY <1>1 DEF AcceptedDatasetLoads, DatasetLoads
<1>3. QED
  BY <1>2, RowCleaningInvariant, PTL

\* Two raw rows that are written alike have the same fate.
LEMMA WrittenAlike ==
  ASSUME RowCleaningInv, NEW f \in File, NEW i \in kept[f],
         NEW row \in RowsOf(Table(f)),
         WrittenRow(f, row) = WrittenRow(f, tables[f][i])
  PROVE  ~HasReasons(f, row, AcceptedKeys)
<1>. USE DEF RowCleaningInv
<1>. DEFINE other == tables[f][i]
<1>1. other \in RowsOf(Table(f)) /\ schema \in Schemas
  BY KeptRows, TableRows
<1>2. /\ Key(f, other) # None
      /\ \A c \in Foreign(f) :
           ~LeadsNowhere(other[c], AcceptedKeys[Table(f).foreign[c]])
      /\ \A c \in Dates(f) :
           Table(f).dates[c].policy = "reject" => Parsed(other[c]) # None
  BY KeptRows
<1>3. \A c \in Identifiers(f) : Parsed(row[c]) = Parsed(other[c])
  <2>1. /\ \A c \in Identifiers(f) : Parsed(WrittenRow(f, row)[c]) = Parsed(row[c])
        /\ \A c \in Identifiers(f) : Parsed(WrittenRow(f, other)[c]) = Parsed(other[c])
    BY <1>1, WrittenCells
  <2>2. QED
    BY <2>1
<1>4. \A c \in Dates(f) : WrittenDate(Table(f).dates[c], row[c])
                            = WrittenDate(Table(f).dates[c], other[c])
  <2>1. /\ \A c \in Dates(f) :
             WrittenRow(f, row)[c] = WrittenDate(Table(f).dates[c], row[c])
        /\ \A c \in Dates(f) :
             WrittenRow(f, other)[c] = WrittenDate(Table(f).dates[c], other[c])
    BY <1>1, WrittenCells
  <2>2. QED
    BY <2>1
<1>. HIDE DEF other
<1>5. \A c \in Dates(f) : Parsed(row[c]) = None => Parsed(other[c]) = None
  BY <1>4, FormsOfCells DEF WrittenDate
<1>6. QED
  BY <1>2, <1>3, <1>5 DEF HasReasons, LeadsNowhere, Key, Identifiers

\* The processed files hold exactly the sound rows, each once.
THEOREM SoundRowsAreAccepted == Spec => []AcceptedAreTheSoundRows
<1>. DEFINE Sound(f, row) ==
              /\ Key(f, row) # None
              /\ \A c \in Foreign(f) :
                   \E parent \in Range(Output(Table(f).foreign[c])) :
                     Key(Table(f).foreign[c], parent) = Parsed(row[c])
              /\ \A c \in Dates(f) :
                   Table(f).dates[c].policy = "reject" => Parsed(row[c]) # None
            Copies(f, row) == {k \in DOMAIN Output(f) : Output(f)[k] = WrittenRow(f, row)}
<1>1. ASSUME RowCleaningInv, NEW f \in File, NEW row
      PROVE  Sound(f, row) <=> ~HasReasons(f, row, AcceptedKeys)
  <2>1. ASSUME NEW c \in Foreign(f)
        PROVE  (\E parent \in Range(Output(Table(f).foreign[c])) :
                  Key(Table(f).foreign[c], parent) = Parsed(row[c]))
               <=> ~LeadsNowhere(row[c], AcceptedKeys[Table(f).foreign[c]])
    <3>. DEFINE g == Table(f).foreign[c]
    <3>1. g \in File
      BY <1>1, RulesOfFile DEF RowCleaningInv, TypeOK
    <3>. HIDE DEF g
    <3>2. AcceptedKeys[g] = {Key(g, parent) : parent \in Range(Output(g))}
      BY <1>1, <3>1, KeysOfOutput, KeptArePositions DEF RowCleaningInv
    <3>3. None \notin AcceptedKeys[g]
      BY <1>1, <3>1, KeptRows DEF AcceptedKeys
    <3>4. (\E parent \in Range(Output(g)) : Key(g, parent) = Parsed(row[c]))
          <=> ~LeadsNowhere(row[c], AcceptedKeys[g])
      BY <3>2, <3>3 DEF LeadsNowhere
    <3>5. QED
      BY <3>4 DEF g
  <2>2. QED
    BY <2>1 DEF HasReasons
<1>2. ASSUME RowCleaningInv, at = "cleaned", NEW f \in File, NEW row \in Range(tables[f])
      PROVE  Cardinality(Copies(f, row)) = IF Sound(f, row) THEN 1 ELSE 0
  <2>1. PICK i \in DOMAIN tables[f] : tables[f][i] = row
    BY <1>2 DEF Range
  <2>2. PICK first \in FirstCopies(tables[f]) : tables[f][first] = row
    BY <1>2, <2>1, FirstCopyExists, TableRows DEF RowCleaningInv
  <2>3. row \in RowsOf(Table(f))
    BY <1>2, <2>1, TableRows DEF RowCleaningInv
  <2>4. kept[f] = Accepted(f)
    <3>1. PICK j \in DOMAIN Order : Order[j] = f
      BY PlacesInOrder
    <3>2. QED
      BY <1>2, <3>1, PlacesInOrder DEF RowCleaningInv, KeptWereAccepted
  <2>5. /\ \A k \in DOMAIN Output(f) : \E j \in kept[f] :
             Output(f)[k] = WrittenRow(f, tables[f][j])
        /\ \A j \in kept[f] : \E k \in DOMAIN Output(f) :
             Output(f)[k] = WrittenRow(f, tables[f][j])
    BY <1>2, OutputRows, KeptArePositions DEF RowCleaningInv
  <2>6. CASE Sound(f, row)
    <3>1. first \in kept[f]
      BY <1>1, <1>2, <2>2, <2>4, <2>6 DEF Accepted, Rejected
    <3>2. PICK k \in Copies(f, row) : TRUE
      BY <2>2, <2>5, <3>1
    <3>3. \A l \in Copies(f, row) : l = k
      <4>1. ProcessedFiles([g \in File |-> Output(g)])
        BY <1>2, OutputIsProcessed
      <4>2. \A l, m \in DOMAIN Output(f) : Output(f)[l] = Output(f)[m] => l = m
        BY <4>1 DEF ProcessedFiles
      <4>3. QED
        BY <3>2, <4>2
    <3>. HIDE DEF Copies
    <3>4. Copies(f, row) = {k}
      BY <3>2, <3>3
    <3>5. QED
      BY <2>6, <3>4, FS_Singleton
  <2>7. CASE ~Sound(f, row)
    <3>1. Copies(f, row) = {}
      <4>1. SUFFICES ASSUME NEW k \in DOMAIN Output(f),
                            Output(f)[k] = WrittenRow(f, row)
                     PROVE  FALSE
        OBVIOUS
      <4>2. PICK j \in kept[f] : WrittenRow(f, row) = WrittenRow(f, tables[f][j])
        BY <2>5, <4>1
      <4>3. ~HasReasons(f, row, AcceptedKeys)
        BY <1>2, <2>3, <4>2, WrittenAlike
      <4>. HIDE DEF Sound
      <4>4. QED
        BY <1>1, <1>2, <2>7, <4>3
    <3>. HIDE DEF Copies
    <3>2. QED
      BY <2>7, <3>1, FS_EmptySet
  <2>8. QED
    BY <2>6, <2>7
<1>3. RowCleaningInv => AcceptedAreTheSoundRows
  BY <1>2 DEF AcceptedAreTheSoundRows
<1>4. QED
  BY <1>3, RowCleaningInvariant, PTL
=============================================================================
