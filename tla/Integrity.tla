------------------------------ MODULE Integrity ------------------------------
(***************************************************************************)
(* python -m banking_data.integrity next to the loaders and the cleaning   *)
(* command: validate_data_foundation reads the manifest, compares it with  *)
(* the raw and the processed files one after the other, then the tables    *)
(* with the manifest and the files, each in a statement with a snapshot of *)
(* its own, and last tries what the reader may do.                         *)
(*                                                                         *)
(* Of a row only its key is compared.  That the committed tables satisfy   *)
(* their constraints, and have the approved values, is taken for granted.  *)
(***************************************************************************)
EXTENDS Loading, FiniteSets

CONSTANTS
  KeysOf,  \* KeysOf[f][c]: the primary keys of f's rows with contents c
  Joined,  \* the table whose rows the reader joins with their parents
  MaxBusy  \* bound: the loaders at work while the command runs

VARIABLE val  \* the command: where it is, its locals, its surroundings

allVars == <<vars, val>>

ASSUME IntegrityAssumption ==
  /\ Joined \in File
  /\ \A f \in File : \A raw \in RawState :
       IsFiniteSet(KeysOf[f][Cleaned(f, raw)])

Idle == [at |-> "idle"]
Ended == {"idle", "passed", "failed", "aborted"}

Keys(f, c) == IF c = None THEN {} ELSE KeysOf[f][c]
Rows(f, c) == Cardinality(Keys(f, c))

\* The tables have exactly the keys of the manifest's files.
Matches(summary, tables) ==
  \A f \in File : Keys(f, tables[f]) = Keys(f, summary[f].processed)

NextStage(stage) == val' = [val EXCEPT !.at = stage]
Passed == NextStage("passed")
Failed == NextStage("failed")

\* The file, then the table, that the command is at.
Current == Order[val.at_file]

\* The next of the files, from the first stage of a file again, or the stage
\* that follows.
NextFile(stage, following) ==
  IF val.at_file < Len(Order)
    THEN val' = [val EXCEPT !.at = stage, !.at_file = @ + 1]
    ELSE val' = [val EXCEPT !.at = following, !.at_file = 1, !.keys = {}]
-----------------------------------------------------------------------------
\* _load_summary.  History: still, no loader was at work and the directory
\* has not changed since; matched, the tables have had the keys of the
\* manifest at a moment since (or it is not known, without still); agreed,
\* the tables, the directory and, as far as it has been found out, the raw
\* files and the reader were in order; lost, an error was no denial.
Begin ==
  /\ val.at \in Ended
  /\ Cardinality(AtWork) <= MaxBusy
  /\ LET summary == SummaryOf(processed)
         still == AtWork = {}
     IN
     IF summary = None
       THEN val' = [at |-> "aborted"]
       ELSE val' =
         [at |-> "raw", at_file |-> 1, summary |-> summary,
          rows |-> [f \in File |-> 0], keys |-> {}, granted |-> {},
          still |-> still,
          matched |-> still => Matches(summary, db),
          agreed |-> still /\ Matches(summary, db) /\ FilesOf(processed) = File,
          lost |-> FALSE]

\* _reconcile_files: the hash and the rows of the raw file, which may have
\* been edited at any time, then those of the processed one.
CheckRaw ==
  /\ val.at = "raw"
  /\ \E raw \in RawState :
       IF raw[Current] = val.summary[Current].source
         THEN NextStage("processed")
         ELSE val' = [val EXCEPT !.at = "failed", !.agreed = FALSE]

CheckProcessed ==
  /\ val.at = "processed"
  /\ IF /\ Current \in FilesOf(processed)
        /\ processed.files[Current] = val.summary[Current].processed
       THEN NextFile("raw", "count") ELSE Failed

\* _validate_database, one statement after the other.
CountRows ==
  LET count == Rows(Current, db[Current]) IN
  /\ val.at = "count"
  /\ IF count = Rows(Current, val.summary[Current].processed)
       THEN val' = [val EXCEPT !.at = "keys", !.rows[Current] = count]
       ELSE Failed

ReadKeys ==
  /\ val.at = "keys"
  /\ val' = [val EXCEPT !.at = "compare", !.keys = Keys(Current, db[Current])]

\* Mutant: the keys are counted, not compared.
SameNumber ==
  Current \in FilesOf(processed) /\
    Cardinality(val.keys) = Rows(Current, processed.files[Current])

\* The processed file is read again for its keys.
SameKeys ==
  Current \in FilesOf(processed) /\
    val.keys = Keys(Current, processed.files[Current])

CompareKeys ==
  /\ val.at = "compare"
  /\ IF SameKeys THEN NextFile("count", "joins") ELSE Failed

HasParents(f) == Basis[f] # {f}

\* Mutant: the joins are expected to have as many rows as the parents.
AsManyAsParents ==
  \A f \in File : HasParents(f) =>
    \A g \in Basis[f] \ {f} : Rows(f, db[f]) = val.rows[g]

\* A join of a table with its parents has all the rows counted before.
NoRowsLost ==
  \A f \in File : HasParents(f) => Rows(f, db[f]) = val.rows[f]

CheckJoins ==
  /\ val.at = "joins"
  /\ IF NoRowsLost THEN NextStage("reader") ELSE Failed

\* _validate_reader: a join as the reader (its count is compared at the very
\* end), the reader's privileges on accounts and an UPDATE of addresses.  The
\* reader has been granted nothing, or by mistake a right to change a table.
ReaderJoins ==
  /\ val.at = "reader"
  /\ IF Rows(Joined, db[Joined]) = val.rows[Joined]
       THEN NextStage("privileges") ELSE Failed

NoMutationPrivileges(granted) == "accounts" \notin granted

ReaderPrivileges ==
  /\ val.at = "privileges"
  /\ \E granted \in SUBSET {"accounts", "addresses"} :
       val' = [val EXCEPT
         !.at = IF NoMutationPrivileges(granted) THEN "update" ELSE "failed",
         !.granted = granted, !.agreed = @ /\ granted = {}]

\* Any error of the database counts as the denial.
ReaderUpdates ==
  /\ val.at = "update"
  /\ \/ IF "addresses" \in val.granted THEN Failed ELSE Passed
     \/ val' = [val EXCEPT !.at = "passed", !.lost = TRUE]

\* An error in any other statement, or with a file, ends the command.
Abort ==
  /\ val.at \notin Ended
  /\ NextStage("aborted")

Command ==
  /\ \/ Begin \/ CheckRaw \/ CheckProcessed \/ CountRows \/ ReadKeys
     \/ CompareKeys \/ CheckJoins \/ ReaderJoins \/ ReaderPrivileges
     \/ ReaderUpdates \/ Abort
  /\ UNCHANGED vars

\* The others go on; what the command found is of its moment.
Others ==
  /\ Next
  /\ IF val.at \in Ended
       THEN val' = Idle
       ELSE /\ Cardinality(AtWork') <= MaxBusy
            /\ LET still == val.still /\ processed' = processed IN
               val' = [val EXCEPT
                 !.still = still, !.agreed = @ /\ still,
                 !.matched = still => @ \/ Matches(val.summary, db')]

IntegrityInit == Init /\ val = Idle
IntegrityNext == Command \/ Others
IntegritySpec == IntegrityInit /\ [][IntegrityNext]_allVars
-----------------------------------------------------------------------------
(***************************************************************************)
(* Properties.                                                             *)
(***************************************************************************)

\* A validation that passed was right: at one moment since it began, all the
\* tables together had the keys of the manifest it read, although it looked
\* at one after the other and loads may have been committed in between.
\* That needs the directory to stay as it was, and no load of an earlier
\* directory to be under way.  And the reader could not change what was
\* probed, unless its UPDATE ended in an error that was no denial.
PassedWasTrue ==
  val.at = "passed" =>
    /\ val.matched
    /\ ~val.lost => val.granted = {}

\* A foundation in order is not refused: when the tables, the files and the
\* reader agree as the command begins, it does not fail, also when the same
\* directory is loaded again with --replace while it runs.
SoundFoundationPasses ==
  val.at = "failed" => ~val.agreed
-----------------------------------------------------------------------------
(***************************************************************************)
(* The inductive invariant both rest on.                                   *)
(***************************************************************************)

Reading == {"raw", "processed"}
Comparing == {"count", "keys", "compare"}
Probing == {"joins", "reader", "privileges", "update"}

\* The command has nothing, or all its variables.
ValShape ==
  \/ val = Idle \/ val = [at |-> "aborted"]
  \/ /\ val = [at |-> val.at, at_file |-> val.at_file, summary |-> val.summary,
                rows |-> val.rows, keys |-> val.keys, granted |-> val.granted,
                still |-> val.still, matched |-> val.matched,
                agreed |-> val.agreed, lost |-> val.lost]
     /\ val.at \in Reading \cup Comparing \cup Probing \cup Ended
     /\ val.at_file \in DOMAIN Order
     /\ val.rows = [f \in File |-> val.rows[f]]
     /\ {val.still, val.matched, val.agreed, val.lost} \subseteq BOOLEAN

\* While the directory has not changed, the loaders, who all began later, load
\* what the command compares with.
WhileStill ==
  val.at \notin Ended /\ val.still =>
    /\ SummaryOf(processed) # None
    /\ SummaryOf(processed) = val.summary
    /\ \A l \in AtWork :
         /\ \A f \in File :
              inserted[l][f] # None => inserted[l][f] = val.summary[f].processed
         /\ pc[l] \in InHand =>
              opened[l] = val.summary[Table(l)].processed

KeysMatch(f) == Keys(f, db[f]) = Keys(f, val.summary[f].processed)

\* Unless they have matched since the command began, the tables have not
\* changed since it began to compare them.
MatchedSoFar ==
  /\ val.at \notin Ended /\ (val.still => Matches(val.summary, db)) => val.matched
  /\ val.at \in Comparing /\ ~val.matched =>
       /\ \A i \in 1..val.at_file - 1 : KeysMatch(Order[i])
       /\ val.at = "compare" => val.keys = Keys(Current, db[Current])
  /\ val.at \in Probing => val.matched

\* What has been counted is what the manifest's files have.
CountedSoFar ==
  /\ val.at \in Comparing =>
       \A i \in 1..val.at_file :
         i < val.at_file \/ val.at # "count" =>
           val.rows[Order[i]] = Rows(Order[i], val.summary[Order[i]].processed)
  /\ val.at \in Probing =>
       \A f \in File : val.rows[f] = Rows(f, val.summary[f].processed)

WhileAgreed ==
  val.at \notin Ended /\ val.agreed =>
    /\ val.still /\ FilesOf(processed) = File /\ Matches(val.summary, db)
    /\ val.at = "compare" => val.keys = Keys(Current, db[Current])
    /\ val.granted = {}

ReaderProbed ==
  val.at \notin Ended =>
    /\ ~val.lost
    /\ val.granted \subseteq IF val.at = "update" THEN {"addresses"} ELSE {}

IntegrityInv ==
  /\ LoadingInv
  /\ ValShape /\ WhileStill /\ MatchedSoFar /\ CountedSoFar /\ WhileAgreed
  /\ ReaderProbed /\ PassedWasTrue /\ SoundFoundationPasses
=============================================================================
