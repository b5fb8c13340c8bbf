----------------------------- MODULE RowCleaning -----------------------------
(***************************************************************************)
(* The rules by which clean_dataset takes the rows of the raw files into   *)
(* the processed ones: exact copies are dropped, a row whose identifiers   *)
(* lead nowhere is rejected with its reasons, every cell is rewritten in   *)
(* one form, and what no rule covers ends the command.  Next to them, what *)
(* the audit reports of the same rows and what the tables accept.          *)
(*                                                                         *)
(* Of a cell only matters what it is read as and whether it is written in  *)
(* the form the cleaning writes.                                           *)
(***************************************************************************)
EXTENDS Integers, SequencesExt

CONSTANTS
  File,     \* the source files
  Order,    \* the files in the order of TABLE_SPECS, parents first
  Schemas,  \* the table specifications tried: functions on File
  Raw,      \* the raw files tried: for every file a sequence of rows
  Early,    \* a date before the year 1000
  Largest,  \* the largest value of an INTEGER column
  None      \* not readable, no value

VARIABLES
  schema,  \* TABLE_SPECS
  tables,  \* the rows that are read, by file
  n,       \* the position in Order of the table that is next
  at,      \* cleaning, cleaned or failed
  kept,    \* kept[f]: the positions of the accepted rows
  round    \* 2 when it is the output of a first run that is cleaned

vars == <<schema, tables, n, at, kept, round>>

\* Cells: empty, a token that pandas may take for NULL ("NA"), a text that
\* cannot be read, a value in the written form or in another one, a date
\* before the year 1000 as strftime writes it, which is not read either.
Cell(value, plain) == [value |-> value, plain |-> plain, null |-> FALSE]
Empty == [value |-> None, plain |-> TRUE, null |-> TRUE]
Token == [value |-> None, plain |-> FALSE, null |-> TRUE]
Unreadable == Cell(None, FALSE)
ShortYear == Cell(None, TRUE)
Plain(value) == Cell(value, TRUE)
Padded(value) == Cell(value, FALSE)

Cells ==
  {Empty, Token} \cup [value : Int \cup {None}, plain : BOOLEAN, null : {FALSE}]

\* The rows that _read_source lets pass: the columns are those of the table.
RowsOf(table) ==
  {row \in [table.columns -> Cells] :
     \A c \in table.columns \ DOMAIN table.dates : row[c] # ShortYear}

\* What TABLE_SPECS is like: parents come first, a column has one rule, and
\* the table that rejects a row for its date (the transactions) is the parent
\* of none.  The bounds of an amount are the tables', in units of its last
\* digit: of its NUMERIC type and of the CHECK constraint, if it has one.
ASSUME RowCleaningAssumption ==
  /\ Order \in Seq(File) /\ ToSet(Order) = File
  /\ \A i, j \in DOMAIN Order : Order[i] = Order[j] => i = j
  /\ None \notin Int /\ Early \in Int
  /\ \A specs \in Schemas : \A j \in DOMAIN Order :
       LET t == specs[Order[j]]
           rules == {t.key} \cup DOMAIN t.foreign \cup t.decimals
       IN /\ rules \cup DOMAIN t.dates \cup t.labels \subseteq t.columns
          /\ DOMAIN t.bounds = t.decimals
          /\ rules \cap DOMAIN t.dates = {}
          /\ \A c \in DOMAIN t.foreign : \E i \in 1..(j - 1) :
               /\ t.foreign[c] = Order[i]
               /\ \A d \in DOMAIN specs[Order[i]].dates :
                    specs[Order[i]].dates[d].policy # "reject"
  /\ \A specs \in Schemas : \A files \in Raw :
       /\ DOMAIN files = File
       /\ \A f \in File : files[f] \in Seq(RowsOf(specs[f]))

\* _parse_identifier, _parse_date, Decimal: keep_default_na=False leaves only
\* the empty cell without a text.
Parsed(cell) == cell.value

Table(f) == schema[f]
Foreign(f) == DOMAIN Table(f).foreign
Dates(f) == DOMAIN Table(f).dates
Decimals(f) == Table(f).decimals
Identifiers(f) == {Table(f).key} \cup Foreign(f)
Key(f, row) == Parsed(row[Table(f).key])
-----------------------------------------------------------------------------
(***************************************************************************)
(* One table.                                                              *)
(***************************************************************************)

\* The first of every set of equal rows.
FirstCopies(rows) ==
  {i \in DOMAIN rows : \A j \in 1..(i - 1) : rows[j] # rows[i]}

\* Mutant: keys conflict when they are written alike.
ConflictAsWritten(f, rows) ==
  \E i, j \in FirstCopies(rows) :
    i # j /\ Key(f, rows[i]) # None
          /\ rows[i][Table(f).key] = rows[j][Table(f).key]

\* Two rows that are not copies have the same key, rejected rows included.
Conflict(f, rows) ==
  \E i, j \in FirstCopies(rows) :
    i # j /\ Key(f, rows[i]) # None /\ Key(f, rows[i]) = Key(f, rows[j])

\* Mutant: a reference is looked up as it is written.
LeadsNowhereAsWritten(cell, keys) ==
  ~cell.plain \/ Parsed(cell) = None \/ Parsed(cell) \notin keys

LeadsNowhere(cell, keys) == Parsed(cell) = None \/ Parsed(cell) \notin keys

\* Mutant: a missing reference is not a reason.
OnlyWrongReferences(f, row, keys) ==
  \/ Key(f, row) = None
  \/ \E c \in Foreign(f) :
       row[c] # Empty /\ LeadsNowhere(row[c], keys[Table(f).foreign[c]])
  \/ \E c \in Dates(f) :
       Table(f).dates[c].policy = "reject" /\ Parsed(row[c]) = None

\* The reasons of _validate_identifiers and _normalize_dates.
HasReasons(f, row, keys) ==
  \/ Key(f, row) = None
  \/ \E c \in Foreign(f) : LeadsNowhere(row[c], keys[Table(f).foreign[c]])
  \/ \E c \in Dates(f) :
       Table(f).dates[c].policy = "reject" /\ Parsed(row[c]) = None

Rejected(f, rows, keys) ==
  {i \in FirstCopies(rows) : HasReasons(f, rows[i], keys)}

\* Mutant: an empty amount is passed on.
UnreadableDecimal(f, row) ==
  \E c \in Decimals(f) : row[c] # Empty /\ Parsed(row[c]) = None

\* A required number that is missing or cannot be written exactly.
BadDecimal(f, row) == \E c \in Decimals(f) : Parsed(row[c]) = None

BadDate(f, row) ==
  \E c \in Dates(f) : /\ Table(f).dates[c].policy = "error"
                      /\ row[c] # Empty /\ Parsed(row[c]) = None

\* What ends the command: the numbers of rejected rows are not looked at.
Fatal(f, rows, keys) ==
  \/ Conflict(f, rows)
  \/ \E i \in FirstCopies(rows) : BadDate(f, rows[i])
  \/ \E i \in FirstCopies(rows) \ Rejected(f, rows, keys) :
       BadDecimal(f, rows[i])

\* strftime writes a year before 1000 with less than four digits, which no
\* format of _parse_date matches; date.isoformat does not.
WrittenDate(date, cell) ==
  IF Parsed(cell) = None THEN Empty
  ELSE IF Parsed(cell) = Early /\ date.kind = "datetime" THEN ShortYear
  ELSE Plain(Parsed(cell))

WrittenValue(cell) ==
  IF Parsed(cell) = None THEN Empty ELSE Plain(Parsed(cell))

\* A text is written as it was read.
WrittenRow(f, row) ==
  [c \in DOMAIN row |->
     CASE c \in Dates(f) -> WrittenDate(Table(f).dates[c], row[c])
       [] c \in Identifiers(f) \cup Decimals(f) -> WrittenValue(row[c])
       [] OTHER -> row[c]]

\* The elements of a set of positions in their order.
Positions(set) ==
  [k \in 1..Cardinality(set) |->
     CHOOSE i \in set : Cardinality({j \in set : j <= i}) = k]

\* The processed file.
Output(f) ==
  LET positions == Positions(kept[f]) IN
  [i \in DOMAIN positions |-> WrittenRow(f, tables[f][positions[i]])]

AcceptedKeys == [f \in File |-> {Key(f, tables[f][i]) : i \in kept[f]}]
-----------------------------------------------------------------------------
(***************************************************************************)
(* The command.                                                            *)
(***************************************************************************)

Init ==
  /\ schema \in Schemas
  /\ tables \in Raw
  /\ n = 1 /\ at = "cleaning" /\ round = 1
  /\ kept = [f \in File |-> {}]

\* _clean_table
CleanTable ==
  LET f == Order[n]
      rows == tables[f]
  IN
  /\ at = "cleaning" /\ n <= Len(Order)
  /\ \/ /\ Fatal(f, rows, AcceptedKeys)
        /\ at' = "failed"
        /\ UNCHANGED <<n, kept>>
     \/ /\ ~Fatal(f, rows, AcceptedKeys)
        /\ kept' = [kept EXCEPT
             ![f] = FirstCopies(rows) \ Rejected(f, rows, AcceptedKeys)]
        /\ n' = n + 1
        /\ UNCHANGED at
  /\ UNCHANGED <<schema, tables, round>>

\* _relationship_summary: no accepted row leads nowhere.
Orphan(f, row) ==
  \E c \in Foreign(f) :
    LeadsNowhere(row[c], AcceptedKeys[Table(f).foreign[c]])

CheckRelationships ==
  /\ at = "cleaning" /\ n > Len(Order)
  /\ at' = IF \E f \in File : \E i \in kept[f] : Orphan(f, tables[f][i])
             THEN "failed" ELSE "cleaned"
  /\ UNCHANGED <<schema, tables, n, kept, round>>

\* The processed files are cleaned in their turn.
CleanAgain ==
  /\ at = "cleaned" /\ round = 1
  /\ tables' = [f \in File |-> Output(f)]
  /\ n' = 1 /\ at' = "cleaning" /\ round' = 2
  /\ kept' = [f \in File |-> {}]
  /\ UNCHANGED schema

Next == CleanTable \/ CheckRelationships \/ CleanAgain

Spec == Init /\ [][Next]_vars
-----------------------------------------------------------------------------
(***************************************************************************)
(* What the audit reports, on the texts as they are (audit.py).            *)
(***************************************************************************)

\* _missing_profile: pandas' own tokens for NULL are read as missing here.
Missing(cell) == cell.null

AsAudited(row) ==
  [c \in DOMAIN row |-> IF Missing(row[c]) THEN Empty ELSE row[c]]

\* _duplicate_profile: different rows with the same text for a key.
ConflictReported(f) ==
  \E i, j \in DOMAIN tables[f] :
    LET k == Table(f).key IN
    /\ AsAudited(tables[f][i]) # AsAudited(tables[f][j])
    /\ ~Missing(tables[f][i][k]) /\ tables[f][i][k] = tables[f][j][k]

\* _relationship_profile
OrphanReported(f, row, c) ==
  LET g == Table(f).foreign[c] IN
  /\ ~Missing(row[c])
  /\ \A i \in DOMAIN tables[g] : tables[g][i][Table(g).key] # row[c]

IdentifierReported(f, row) ==
  \/ Missing(row[Table(f).key])
  \/ \E c \in Foreign(f) : Missing(row[c]) \/ OrphanReported(f, row, c)
-----------------------------------------------------------------------------
(***************************************************************************)
(* What the loader's parsers and the tables accept (loading.py,            *)
(* migrations/versions/20260831_01).                                       *)
(***************************************************************************)

\* Keys, references, amounts and labels are NOT NULL, and the date without
\* which the cleaning rejects a row.
Required(f) ==
  Identifiers(f) \cup Decimals(f) \cup Table(f).labels
    \cup {c \in Dates(f) : Table(f).dates[c].policy = "reject"}

\* INTEGER, NUMERIC(14, 2), NUMERIC(7, 4); amounts above 0, and an interest
\* rate between 0 and 1.
InRange(f, row) ==
  /\ \A c \in Identifiers(f) : Parsed(row[c]) # None => Parsed(row[c]) <= Largest
  /\ \A c \in Decimals(f) :
       Parsed(row[c]) # None =>
         Parsed(row[c]) \in Table(f).bounds[c].least .. Table(f).bounds[c].most

RowLoads(f, row) ==
  /\ \A c \in Required(f) : row[c] # Empty
  /\ \A c \in Dates(f) : row[c] = Empty \/ Parsed(row[c]) # None
  /\ \A c \in Identifiers(f) \cup Decimals(f) : Parsed(row[c]) # None
  /\ InRange(f, row)
  /\ \A c \in Foreign(f) :
       LET g == Table(f).foreign[c] IN
       \E parent \in Range(Output(g)) : Key(g, parent) = Parsed(row[c])

\* A column has no value twice.
Unique(f, c) ==
  \A i, j \in DOMAIN Output(f) :
    i # j => Parsed(Output(f)[i][c]) # Parsed(Output(f)[j][c])

DatasetLoads ==
  \A f \in File :
    /\ \A row \in Range(Output(f)) : RowLoads(f, row)
    /\ \A c \in {Table(f).key} \cup Table(f).labels : Unique(f, c)
-----------------------------------------------------------------------------
(***************************************************************************)
(* Properties.                                                             *)
(***************************************************************************)

NoEarlyDate ==
  \A f \in File : \A i \in DOMAIN tables[f] : \A c \in Dates(f) :
    Parsed(tables[f][i][c]) # Early /\ tables[f][i][c] # ShortYear

\* The processed files hold exactly the rows without a fault of their own
\* whose parents are there too, each once and whatever the order of the raw
\* rows; a row is lost for no other reason than one it or a parent has.
AcceptedAreTheSoundRows ==
  at = "cleaned" =>
    \A f \in File : \A row \in Range(tables[f]) :
      LET written == WrittenRow(f, row)
          sound == /\ Key(f, row) # None
                   /\ \A c \in Foreign(f) :
                        \E parent \in Range(Output(Table(f).foreign[c])) :
                          Key(Table(f).foreign[c], parent) = Parsed(row[c])
                   /\ \A c \in Dates(f) : Table(f).dates[c].policy = "reject"
                                            => Parsed(row[c]) # None
          copies == {i \in DOMAIN Output(f) : Output(f)[i] = written}
      IN  Cardinality(copies) = IF sound THEN 1 ELSE 0

\* Cleaning what has been cleaned changes nothing: nothing is rejected, no
\* row is dropped as a copy and no rule is missing, although rows that
\* differed may have become alike (_canonical_date before 1000 excepted).
CleaningIsIdempotent ==
  round = 2 /\ NoEarlyDate =>
    /\ at # "failed"
    /\ at = "cleaned" => \A f \in File : Output(f) = tables[f]

\* What no rule of the cleaning looks at, and the load may fail over.
Unchecked ==
  \E f \in File :
    \/ \E row \in Range(Output(f)) :
         \/ ~InRange(f, row)
         \/ \E c \in Table(f).labels : row[c] = Empty
    \/ \E c \in Table(f).labels : ~Unique(f, c)

\* What the cleaning accepts, the loader and the tables accept: keys are
\* unique, references lead somewhere, what is required is there and can be
\* read.  Only labels that are empty or not unique, numbers out of range and
\* a date before the year 1000 are left for the load to find out.
AcceptedDatasetLoads ==
  at = "cleaned" /\ NoEarlyDate /\ ~Unchecked => DatasetLoads

\* Identifiers are written in one form, and no other text is a token.
PlainTexts ==
  \A f \in File : \A row \in Range(tables[f]) : \A c \in DOMAIN row :
    IF c \in Identifiers(f) THEN row[c].plain \/ row[c] = Token
                            ELSE row[c] # Token

NothingReported ==
  \A f \in File : /\ ~ConflictReported(f)
                  /\ \A row \in Range(tables[f]) : ~IdentifierReported(f, row)

\* With identifiers in plain form and no token elsewhere, the audit foresees
\* the cleaning: no row it reports for a missing key or reference, or for an
\* orphan, is accepted; and when it reports none of these and no conflict,
\* the keys do not end the command and a row is rejected for a date only.
AuditForesees ==
  PlainTexts /\ at # "cleaning" =>
    /\ \A f \in File : \A i \in kept[f] : ~IdentifierReported(f, tables[f][i])
    /\ NothingReported =>
         \A f \in File :
           /\ ~Conflict(f, tables[f])
           /\ at = "cleaned" =>
                \A i \in FirstCopies(tables[f]) \ kept[f] :
                  \E c \in Dates(f) : Parsed(tables[f][i][c]) = None
-----------------------------------------------------------------------------
(***************************************************************************)
(* The inductive invariant.  What has been cleaned was cleaned with the    *)
(* keys that are there now, since its parents came before; and what is     *)
(* cleaned in the second round is the work of the first.                   *)
(***************************************************************************)

TypeOK ==
  /\ schema \in Schemas
  /\ DOMAIN tables = File
  /\ \A f \in File : tables[f] \in Seq(RowsOf(Table(f)))
  /\ n \in 1..Len(Order) + 1
  /\ at \in {"cleaning", "cleaned", "failed"}
  /\ DOMAIN kept = File
  /\ round \in {1, 2}

Accepted(f) == FirstCopies(tables[f]) \ Rejected(f, tables[f], AcceptedKeys)

KeptWereAccepted ==
  \A i \in DOMAIN Order :
    LET f == Order[i] IN
    IF i < n THEN kept[f] = Accepted(f) /\ ~Fatal(f, tables[f], AcceptedKeys)
             ELSE kept[f] = {}

\* A cell of a date that is kept: what could not be read is empty.
ProcessedDate(date, cell) ==
  \/ cell = ShortYear
  \/ cell = Plain(Parsed(cell)) /\ Parsed(cell) # None
  \/ cell = Empty /\ date.policy # "reject"

\* A row of a processed file, and the files together.
ProcessedRow(f, row, files) ==
  /\ \A c \in Identifiers(f) \cup Decimals(f) :
       row[c] = Plain(Parsed(row[c])) /\ Parsed(row[c]) # None
  /\ \A c \in Dates(f) : ProcessedDate(Table(f).dates[c], row[c])
  /\ \A c \in Foreign(f) :
       LET g == Table(f).foreign[c] IN
       \E parent \in Range(files[g]) : Key(g, parent) = Parsed(row[c])

ProcessedFiles(files) ==
  \A f \in File :
    /\ \A i \in DOMAIN files[f] : ProcessedRow(f, files[f][i], files)
    /\ \A i, j \in DOMAIN files[f] :
         Key(f, files[f][i]) = Key(f, files[f][j]) => i = j

RowCleaningInv ==
  /\ TypeOK
  /\ KeptWereAccepted
  /\ at = "cleaned" => n = Len(Order) + 1
  /\ round = 2 => ProcessedFiles(tables)
  /\ round = 2 /\ NoEarlyDate => at # "failed"
=============================================================================
