------------------------------- MODULE Loading -------------------------------
(***************************************************************************)
(* python -m banking_data.loading: load_processed_data takes the dataset   *)
(* of the processed directory into the banking tables, in one transaction. *)
(* Loaders may run at once, with and without --replace, while the cleaning *)
(* command replaces the directory (ProcessedDirectory), and any of them    *)
(* may stop at any step.                                                   *)
(*                                                                         *)
(* PostgreSQL runs the transactions READ COMMITTED.  Two datasets share    *)
(* keys in every table: the rows of one are in the way of the other's.     *)
(* They are inserted in the order of the file, which may be another in the *)
(* other dataset; two parts stand for them.  A DELETE visits the rows of a *)
(* table in the order in which they are stored, the same for all.          *)
(***************************************************************************)
EXTENDS ProcessedDirectory

CONSTANTS
  Loader,  \* the processes that load
  Order,   \* the files in the order of LOAD_SPECS, parents first
  Parents, \* Parents[f]: the tables the foreign keys of f's table name
  Lead     \* Lead[c]: the part of the keys that a file with contents c has first

VARIABLES
  db,        \* db[f]: the committed rows of f's table, or None
  pc,        \* pc[l]: where loader l is, or how it ended
  replace,   \* replace[l]: l was started with --replace
  manifest,  \* manifest[l]: the hashes l has read, or None
  at,        \* at[l]: the position in Order of the table l is at
  opened,    \* opened[l]: what l found in the file it hashed, then opened
  seen,      \* seen[l]: the rows l's DELETE has in its snapshot, or None
  deleted,   \* deleted[l]: the tables whose rows l's transaction deleted
  inserted,  \* inserted[l]: the rows l's transaction inserted
  swapped    \* history: a file was replaced between its hash and its reading

txVars == <<seen, deleted, inserted>>
locals == <<replace, manifest, at, opened>>
vars   == <<processed, db, pc, locals, txVars, swapped>>

Part == {1, 2}
Content == {Cleaned(f, raw) : f \in File, raw \in RawState}

ASSUME LoadingAssumption ==
  /\ Order \in Seq(File) /\ Order # <<>>
  /\ {Order[i] : i \in DOMAIN Order} = File
  /\ \A i, j \in DOMAIN Order : Order[i] = Order[j] => i = j
  /\ Parents \in [File -> SUBSET File]
  /\ \A i, j \in DOMAIN Order : Order[i] \in Parents[Order[j]] => i < j
  /\ None \notin Content
  /\ Lead \in [Content -> Part]

Stopped == {"idle", "committed", "failed", "refused"}
Deleting == {"delete", "deleting", "references"}
InHand    == {"open", "insert", "inserting"}  \* with rows of a file
Inserting == {"hash", "commit"} \cup InHand

AtWork == {l \in Loader : pc[l] \notin Stopped}

Goto(l, stage) == pc' = [pc EXCEPT ![l] = stage]

\* Mutant: with --replace the tables are filled in the reversed order too.
TableReversed(l) ==
  Order[IF replace[l] /\ pc[l] \in Inserting
          THEN Len(Order) + 1 - at[l] ELSE at[l]]

Table(l) == Order[at[l]]
NoRows == [f \in File |-> None]

Init ==
  /\ processed = None
  /\ db = NoRows
  /\ pc = [l \in Loader |-> "idle"]
  /\ replace = [l \in Loader |-> FALSE]
  /\ manifest = [l \in Loader |-> None]
  /\ at = [l \in Loader |-> 1]
  /\ opened = [l \in Loader |-> None]
  /\ seen = [l \in Loader |-> None]
  /\ deleted = [l \in Loader |-> {}]
  /\ inserted = [l \in Loader |-> NoRows]
  /\ swapped = FALSE

\* The cleaning command at work.
Clean ==
  /\ DirectoryNext
  /\ UNCHANGED <<db, pc, locals, txVars, swapped>>

\* The loader ends, and its transaction with it.
Forget(l) ==
  /\ replace' = [replace EXCEPT ![l] = FALSE]
  /\ manifest' = [manifest EXCEPT ![l] = None]
  /\ at' = [at EXCEPT ![l] = 1]
  /\ opened' = [opened EXCEPT ![l] = None]
  /\ deleted' = [deleted EXCEPT ![l] = {}]
  /\ inserted' = [inserted EXCEPT ![l] = NoRows]

Rollback(l, how) ==
  /\ Goto(l, how)
  /\ Forget(l)
  /\ seen' = [seen EXCEPT ![l] = None]
  /\ UNCHANGED db

\* The manifest is read; without one there is nothing to load.
Start(l) ==
  /\ pc[l] \in Stopped
  /\ \/ /\ SummaryOf(processed) # None
        /\ \E flag \in BOOLEAN : replace' = [replace EXCEPT ![l] = flag]
        /\ manifest' =
             [manifest EXCEPT
                ![l] = [f \in File |-> processed.summary[f].processed]]
        /\ Goto(l, "check")
        /\ UNCHANGED <<db, at, opened, txVars>>
     \/ /\ SummaryOf(processed) = None
        /\ Rollback(l, "failed")
  /\ UNCHANGED <<processed, swapped>>

NonEmpty == {f \in File : db[f] # None}

\* Mutant: the tables are emptied without --replace as well.
AlwaysDelete(l) == TRUE

DeletesFirst(l) == replace[l]

Refused(l) == NonEmpty # {} /\ ~replace[l]

\* The transaction begins with the check for empty tables.
Check(l) ==
  /\ pc[l] = "check"
  /\ \/ Refused(l) /\ Rollback(l, "refused")
     \/ /\ ~Refused(l)
        /\ IF DeletesFirst(l)
             THEN Goto(l, "delete") /\ at' = [at EXCEPT ![l] = Len(Order)]
             ELSE Goto(l, "hash") /\ UNCHANGED at
        /\ UNCHANGED <<db, replace, manifest, opened, txVars>>
  /\ UNCHANGED <<processed, swapped>>

Children(f) == {g \in File : f \in Parents[g]}

\* What l's transaction has inserted into f's table: all, or the first part.
InsertedParts(l, f) ==
  {part \in Part :
     \/ inserted[l][f] # None
     \/ pc[l] = "inserting" /\ Table(l) = f /\ part = Lead[opened[l]]}

\* The part of the rows in hand that l inserts next.
NextPart(l) ==
  IF pc[l] = "insert" THEN Lead[opened[l]] ELSE 3 - Lead[opened[l]]

\* The transactions whose end l's statement waits for.  A DELETE waits for
\* those that have deleted the same rows; the check of the foreign keys that
\* ends it, which locks the rows that refer to them, for those that have
\* deleted these; an INSERT for those that have inserted the same keys, or
\* have deleted the rows that had them.
WaitsFor(l) ==
  {q \in Loader \ {l} :
     \/ pc[l] = "deleting" /\ seen[l] # None /\ Table(l) \in deleted[q]
     \/ pc[l] = "references" /\ Children(Table(l)) \cap deleted[q] # {}
     \/ /\ pc[l] \in {"insert", "inserting"}
        /\ \/ NextPart(l) \in InsertedParts(q, Table(l))
           \/ Table(l) \in deleted[q]}

\* DELETE: its snapshot is taken, then the rows it has seen are deleted.
SnapshotRows(l) ==
  /\ pc[l] = "delete"
  /\ seen' = [seen EXCEPT ![l] = db[Table(l)]]
  /\ Goto(l, "deleting")
  /\ UNCHANGED <<processed, db, locals, deleted, inserted, swapped>>

MoreToDelete(l) == at[l] > 1

\* On to the table before it in the load order.
NextDelete(l) ==
  IF MoreToDelete(l)
    THEN Goto(l, "delete") /\ at' = [at EXCEPT ![l] = @ - 1]
    ELSE Goto(l, "hash") /\ UNCHANGED at

Delete(l) ==
  /\ pc[l] = "deleting"
  /\ WaitsFor(l) = {}
  /\ \/ /\ seen[l] = None
        /\ NextDelete(l)
        /\ UNCHANGED <<seen, deleted>>
     \/ /\ seen[l] # None
        /\ deleted' = [deleted EXCEPT ![l] = @ \cup {Table(l)}]
        /\ seen' = [seen EXCEPT ![l] = None]
        /\ Goto(l, "references")
        /\ UNCHANGED at
  /\ UNCHANGED <<processed, db, replace, manifest, opened, inserted, swapped>>

\* Committed rows, deleted by nobody, that refer to rows l has deleted.
LeftBehind(l) ==
  \E g \in Children(Table(l)) :
    db[g] # None /\ \A q \in Loader : g \notin deleted[q]

\* The foreign keys are checked one after the other, in any order: l may
\* fail before it has to wait.
CheckReferences(l) ==
  /\ pc[l] = "references"
  /\ \/ LeftBehind(l) /\ Rollback(l, "failed")      \* foreign_key_violation
     \/ /\ ~LeftBehind(l) /\ WaitsFor(l) = {}
        /\ NextDelete(l)
        /\ UNCHANGED <<db, replace, manifest, opened, txVars>>
  /\ UNCHANGED <<processed, swapped>>

\* Mutant: the file is taken as it is.
AnyFile(l) == Table(l) \in FilesOf(processed)

HashMatches(l) ==
  /\ Table(l) \in FilesOf(processed)
  /\ processed.files[Table(l)] = manifest[l][Table(l)]

\* _validated_rows: the file is hashed, then opened again to be read.
Hash(l) ==
  /\ pc[l] = "hash"
  /\ \/ /\ HashMatches(l)
        /\ opened' = [opened EXCEPT ![l] = processed.files[Table(l)]]
        /\ Goto(l, "open")
        /\ UNCHANGED <<db, replace, manifest, at, txVars>>
     \/ ~HashMatches(l) /\ Rollback(l, "failed")
  /\ UNCHANGED <<processed, swapped>>

Open(l) ==
  /\ pc[l] = "open"
  /\ \/ /\ Table(l) \in FilesOf(processed)
        /\ opened' = [opened EXCEPT ![l] = processed.files[Table(l)]]
        /\ swapped' = (swapped \/ opened'[l] # opened[l])
        /\ Goto(l, "insert")
        /\ UNCHANGED <<db, replace, manifest, at, txVars>>
     \/ /\ Table(l) \notin FilesOf(processed)
        /\ Rollback(l, "failed")
        /\ UNCHANGED swapped
  /\ UNCHANGED processed

\* Mutant: INSERT ... ON CONFLICT DO NOTHING.
NeverInTheWay(l) == FALSE

\* A plain INSERT fails when its keys are there.
InTheWay(l) == db[Table(l)] # None /\ Table(l) \notin deleted[l]

\* The first part of the rows, or the rest.
Insert(l) ==
  /\ pc[l] \in {"insert", "inserting"}
  /\ WaitsFor(l) = {}
  /\ \/ InTheWay(l) /\ Rollback(l, "failed")              \* unique_violation
     \/ /\ ~InTheWay(l) /\ pc[l] = "insert"
        /\ Goto(l, "inserting")
        /\ UNCHANGED <<db, locals, txVars>>
     \/ /\ ~InTheWay(l) /\ pc[l] = "inserting"
        /\ inserted' = [inserted EXCEPT ![l][Table(l)] = opened[l]]
        /\ opened' = [opened EXCEPT ![l] = None]
        /\ IF at[l] < Len(Order)
             THEN Goto(l, "hash") /\ at' = [at EXCEPT ![l] = @ + 1]
             ELSE Goto(l, "commit") /\ UNCHANGED at
        /\ UNCHANGED <<db, replace, manifest, seen, deleted>>
  /\ UNCHANGED <<processed, swapped>>

\* The rows of a transaction, over those that were there.
Written(l) ==
  [f \in File |->
     IF inserted[l][f] # None THEN inserted[l][f]
     ELSE IF f \in deleted[l] THEN None ELSE db[f]]

\* A DELETE that waited for l does not see the rows l has inserted.
Commit(l) ==
  /\ pc[l] = "commit"
  /\ db' = Written(l)
  /\ seen' = [q \in Loader |->
                IF q # l /\ pc[q] = "deleting" /\ Table(q) \in deleted[l]
                  THEN None ELSE seen[q]]
  /\ Goto(l, "committed")
  /\ Forget(l)
  /\ UNCHANGED <<processed, swapped>>

\* The process is killed, a row cannot be parsed, the row count is not the
\* manifest's, or the database fails a statement or the commit: also with
\* deadlock_detected, to break a circle of transactions that wait.
Die(l) ==
  /\ pc[l] \notin Stopped
  /\ Rollback(l, "failed")
  /\ UNCHANGED <<processed, swapped>>

Load(l) ==
  \/ Check(l) \/ SnapshotRows(l) \/ Delete(l) \/ CheckReferences(l)
  \/ Hash(l) \/ Open(l) \/ Insert(l) \/ Commit(l)

Next == Clean \/ \E l \in Loader : Start(l) \/ Load(l) \/ Die(l)

Spec == Init /\ [][Next]_vars

\* Loaders that wait for each other.
Circle(loaders) ==
  loaders # {} /\ \A l \in loaders : WaitsFor(l) \cap loaders # {}

-----------------------------------------------------------------------------
(***************************************************************************)
(* Properties.                                                             *)
(***************************************************************************)

\* The tables are all empty or hold one dataset, every table of it cleaned
\* from the same raw files: whatever loaders run at once, stop half-way or
\* find the directory being replaced under them, no mixture is committed,
\* as long as no file changes between its hash and its reading ("one
\* transaction", docs/data_loading.md:16; the manifest's hashes).
CommittedIsOneDataset ==
  ~swapped =>
    db = NoRows \/ \E raw \in RawState : \A f \in File : db[f] = Cleaned(f, raw)

\* A committed dataset gives way to another only for a loader started with
\* --replace, also when it was committed after that loader had found the
\* tables empty ("The safe rerun default", docs/data_loading.md:19).
OnlyReplaceOverwrites ==
  [][NonEmpty # {} /\ db' # db =>
       \E l \in Loader : pc[l] = "commit" /\ replace[l] /\ db' = inserted[l]]_vars

\* The tables l's transaction does not come back to to delete their rows.
PassedOver(l) ==
  {Order[i] : i \in {j \in DOMAIN Order :
     pc[l] \in Inserting \/ (pc[l] \in Deleting /\ j > at[l])}}

\* There are rows in one of them that were committed after l had looked.
Doomed(l) == \E f \in PassedOver(l) : db[f] # None /\ f \notin deleted[l]

\* A load that has passed over a table before rows were committed there can
\* only fail, with or without --replace: it neither adds to these rows nor
\* overwrites them unseen (the emptiness check locks nothing, and --replace
\* deletes what a statement's snapshot has).
DoomedLoadsFail ==
  [][\A l \in Loader : Doomed(l) => Doomed(l)' \/ pc'[l] = "failed"]_vars

\* They are inserting rows that are not in the same order in their files.
Crossed(l, q) ==
  /\ pc[l] = "inserting" /\ pc[q] = "inserting" /\ Table(l) = Table(q)
  /\ NextPart(l) # NextPart(q)

\* Loaders may wait for each other in a circle, until PostgreSQL fails one of
\* them with deadlock_detected, but only if one of them is doomed anyway, or
\* two of them are inserting files of two datasets whose rows come in another
\* order: loads of one dataset that could all succeed are never in a circle,
\* although some delete in the reversed and all insert in the forward order
\* of LOAD_SPECS.
CirclesHaveACause ==
  \A loaders \in SUBSET AtWork :
    Circle(loaders) =>
      \/ \E l \in loaders : Doomed(l)
      \/ \E l, q \in loaders : Crossed(l, q)

-----------------------------------------------------------------------------
(***************************************************************************)
(* The inductive invariant the safety properties rest on.                  *)
(***************************************************************************)

Stages == {"check"} \cup Deleting \cup Inserting
MaybeRows == Content \cup {None}

LoadingTypeOK ==
  /\ db \in [File -> MaybeRows]
  /\ pc \in [Loader -> Stopped \cup Stages]
  /\ replace \in [Loader -> BOOLEAN]
  /\ manifest \in [Loader -> [File -> Content] \cup {None}]
  /\ at \in [Loader -> DOMAIN Order]
  /\ opened \in [Loader -> MaybeRows]
  /\ seen \in [Loader -> MaybeRows]
  /\ deleted \in [Loader -> SUBSET File]
  /\ inserted \in [Loader -> [File -> MaybeRows]]
  /\ swapped \in BOOLEAN

\* What is in the directory is of one dataset.
DirectoryHolds ==
  processed # None =>
    /\ processed = [files |-> processed.files, summary |-> processed.summary]
    /\ \E raw \in RawState :
         /\ processed.summary \in {None, Dataset(raw, raw).summary}
         /\ DOMAIN processed.files \subseteq File
         /\ \A f \in DOMAIN processed.files : processed.files[f] = Cleaned(f, raw)

\* A loader deletes backwards from the last table, and only with --replace,
\* then inserts forwards from the first.
Progress(l) ==
  /\ pc[l] \in Stopped \cup {"check"} => at[l] = 1 /\ deleted[l] = {}
  /\ pc[l] \in Stopped \cup {"check"} \cup Deleting => inserted[l] = NoRows
  /\ pc[l] \in Deleting =>
       /\ replace[l]
       /\ \A i \in DOMAIN Order : Order[i] \in deleted[l] =>
            i > at[l] \/ (i = at[l] /\ pc[l] = "references")
  /\ pc[l] \in {"hash"} \cup InHand =>
       \A i \in DOMAIN Order : inserted[l][Order[i]] # None <=> i < at[l]
  /\ pc[l] = "commit" => \A f \in File : inserted[l][f] # None
  /\ pc[l] \in InHand => opened[l] # None
  /\ deleted[l] # {} => replace[l]

\* What a loader has deleted is there, and nobody else has deleted it; so are
\* the rows its DELETE has seen.
DeletedAlone(l) ==
  /\ \A f \in deleted[l] :
       db[f] # None /\ \A q \in Loader \ {l} : f \notin deleted[q]
  /\ pc[l] = "deleting" /\ seen[l] # None => db[Table(l)] # None

\* Nobody else has inserted what a loader has inserted, and what is committed
\* in that table is what it deleted.
InsertedAlone(l) ==
  \A f \in File :
    /\ InsertedParts(l, f) # {} => db[f] = None \/ f \in deleted[l]
    /\ \A q \in Loader \ {l} : InsertedParts(l, f) \cap InsertedParts(q, f) = {}

\* What a loader works with is the dataset of the manifest it read.
LoadsOneDataset(l) ==
  /\ pc[l] \notin Stopped =>
       \E raw \in RawState : manifest[l] = [f \in File |-> Cleaned(f, raw)]
  /\ pc[l] = "open" \/ (pc[l] \in InHand /\ ~swapped) =>
       opened[l] = manifest[l][Table(l)]
  /\ ~swapped => \A f \in File :
       inserted[l][f] # None => inserted[l][f] = manifest[l][f]

LoadingInv ==
  /\ LoadingTypeOK /\ DirectoryHolds /\ CommittedIsOneDataset
  /\ \A l \in Loader : /\ Progress(l) /\ DeletedAlone(l)
                       /\ InsertedAlone(l) /\ LoadsOneDataset(l)
=============================================================================
