------------------------------ MODULE Cleaning ------------------------------
(***************************************************************************)
(* python -m banking_data.cleaning: clean_dataset reads the raw CSV files  *)
(* one by one, builds the processed dataset in a staging directory of its  *)
(* own, checks that the raw files have not changed, removes the previous   *)
(* dataset and moves the new one in its place.  The raw files may be       *)
(* edited meanwhile, and the command may stop at any step and be started   *)
(* again.                                                                  *)
(*                                                                         *)
(* The contents of a raw file are a version, its hash is the version; an   *)
(* edit gives it contents it never had.                                    *)
(***************************************************************************)
EXTENDS ProcessedDirectory, FiniteSets

CONSTANTS
  Order,     \* the files in the order of TABLE_SPECS
  Unclean,   \* the <<file, version>> the cleaning contract refuses
  MaxEdits   \* bound: how often the raw files are edited

VARIABLES
  raw,      \* raw[f]: the version of the raw file f
  states,   \* history: the states the raw files have been in
  pc,       \* where the command is, or how it ended
  at,       \* the position in Order of the file it is at
  before,   \* before[f]: f's hash before the cleaning
  read,     \* read[f]: the version of f that was cleaned
  source,   \* source[f]: f's hash for the manifest
  after,    \* after[f]: f's hash after the cleaning
  found,    \* history: the processed directory when the command started
  cut       \* history: a removal was cut short

rawVars == <<raw, states>>
locals  == <<at, before, read, source, after>>
vars    == <<processed, rawVars, pc, locals, found, cut>>

\* TABLE_SPECS is not empty, and the states the edits lead to are states
\* that readers count with.
ASSUME CleaningAssumption ==
  /\ Order \in Seq(File) \ {<<>>}
  /\ {Order[i] : i \in DOMAIN Order} = File
  /\ MaxEdits \in Nat
  /\ [File -> 1..MaxEdits + 1] \subseteq RawState

Stopped == {"idle", "done", "failed", "refused"}
NoHashes == [f \in File |-> 0]

Init ==
  /\ processed = None
  /\ raw = [f \in File |-> 1]
  /\ states = {raw}
  /\ pc = "idle"
  /\ at = 1
  /\ before = NoHashes /\ read = NoHashes
  /\ source = NoHashes /\ after = NoHashes
  /\ found = None
  /\ cut = FALSE

Edit(f) ==
  /\ Cardinality(states) <= MaxEdits
  /\ raw' = [raw EXCEPT ![f] = @ + 1]
  /\ states' = states \cup {raw'}
  /\ UNCHANGED <<processed, pc, locals, found, cut>>

\* The command ends; its staging directory is removed, or never looked at
\* again.
End(how) ==
  /\ pc' = how
  /\ at' = 1
  /\ before' = NoHashes /\ read' = NoHashes
  /\ source' = NoHashes /\ after' = NoHashes

\* After the file at hand comes the next one, or the next stage.
Advance(again, next) ==
  IF at < Len(Order)
    THEN pc' = again /\ at' = at + 1
    ELSE pc' = next /\ at' = 1

\* The output directory is absent, empty, or recognised by its marker.  (One
\* in which only the subdirectory of the rejected rows is left is refused too;
\* here a directory has no entries but the marker and the processed files.)
Replaceable == FilesOf(processed) = {} \/ SummaryOf(processed) # None

Start ==
  /\ pc \in Stopped
  /\ found' = processed
  /\ \/ Replaceable /\ pc' = "before" /\ UNCHANGED locals
     \/ ~Replaceable /\ End("refused")
  /\ UNCHANGED <<processed, rawVars, cut>>

HashBefore ==
  /\ pc = "before"
  /\ before' = [before EXCEPT ![Order[at]] = raw[Order[at]]]
  /\ Advance("before", "read")
  /\ UNCHANGED <<processed, rawVars, read, source, after, found, cut>>

\* _clean_table: the file is read and cleaned, then read again for its hash.
ReadSource ==
  /\ pc = "read"
  /\ \/ /\ <<Order[at], raw[Order[at]]>> \in Unclean    \* CleaningError
        /\ End("failed")
     \/ /\ <<Order[at], raw[Order[at]]>> \notin Unclean
        /\ read' = [read EXCEPT ![Order[at]] = raw[Order[at]]]
        /\ pc' = "source"
        /\ UNCHANGED <<at, before, source, after>>
  /\ UNCHANGED <<processed, rawVars, found, cut>>

HashSource ==
  /\ pc = "source"
  /\ source' = [source EXCEPT ![Order[at]] = raw[Order[at]]]
  /\ Advance("read", "after")
  /\ UNCHANGED <<processed, rawVars, before, read, after, found, cut>>

HashAfter ==
  /\ pc = "after"
  /\ after' = [after EXCEPT ![Order[at]] = raw[Order[at]]]
  /\ Advance("after", "verify")
  /\ UNCHANGED <<processed, rawVars, before, read, source, found, cut>>

\* Mutants: the hashes are not compared; only the manifest's are.
NeverChanged == TRUE
SourceUnchanged == source = after

Unchanged == before = after

\* Mutant: the old dataset goes before the raw files are compared.
RemoveFirst == pc \in {"verify", "remove"}

Removing == pc = "remove"

Verify ==
  /\ pc = "verify"
  /\ \/ /\ Unchanged
        /\ pc' = IF processed = None THEN "publish" ELSE "remove"
        /\ UNCHANGED locals
     \/ ~Unchanged /\ End("failed")                      \* AssertionError
  /\ UNCHANGED <<processed, rawVars, found, cut>>

\* shutil.rmtree takes the entries one by one.
Remove ==
  /\ Removing
  /\ RemoveEntry
  /\ UNCHANGED <<rawVars, pc, locals, found, cut>>

RemoveLast ==
  /\ pc = "remove"
  /\ RemoveDirectory
  /\ pc' = "publish"
  /\ UNCHANGED <<rawVars, locals, found, cut>>

MoveStage ==
  /\ pc = "publish"
  /\ processed' = Dataset(read, source)
  /\ End("done")
  /\ UNCHANGED <<rawVars, found, cut>>

\* The command is killed, or the file system fails it.
Die ==
  /\ pc \notin Stopped
  /\ End("failed")
  /\ cut' = (cut \/ pc \in {"remove", "publish"})
  /\ UNCHANGED <<processed, rawVars, found>>

Next ==
  \/ \E f \in File : Edit(f)
  \/ Start \/ HashBefore \/ ReadSource \/ HashSource \/ HashAfter
  \/ Verify \/ Remove \/ RemoveLast \/ MoveStage \/ Die

Spec == Init /\ [][Next]_vars
-----------------------------------------------------------------------------
(***************************************************************************)
(* Properties.                                                             *)
(***************************************************************************)

Complete(d) == FilesOf(d) = File /\ SummaryOf(d) # None

\* A dataset that is there as a whole was cleaned from raw files that were
\* there together at one moment, and its manifest has their hashes: a row
\* is never accepted for a key of another version of the file it refers to,
\* whenever the raw files are edited (the two rounds of hashes in
\* clean_dataset).
PublishedFromOneRawState ==
  Complete(processed) =>
    \E state \in states : processed = Dataset(state, state)

\* A run that fails, for the raw files, the file system or a kill, leaves
\* the processed directory as it found it, unless it was stopped while it
\* was replacing it; and what a run finds is then a whole dataset or none
\* (the staging directory and the order of clean_dataset's last steps).
FailureKeepsOutput ==
  /\ pc \in {"failed", "refused"} /\ ~cut => processed = found
  /\ pc \in Stopped /\ ~cut => processed = None \/ Complete(processed)
  /\ pc = "refused" => cut

\* What readers of the processed directory rely on.
ImplementsDirectory == DirectorySpec

-----------------------------------------------------------------------------
(***************************************************************************)
(* The inductive invariant behind the properties above.                    *)
(***************************************************************************)

Version == [File -> Nat]

\* The raw files only get versions they never had: no earlier state is
\* ahead of this one.
RawHistory ==
  /\ raw \in [File -> 1..MaxEdits + 1]
  /\ IsFiniteSet(states) /\ Cardinality(states) <= MaxEdits + 1
  /\ raw \in states
  /\ \A state \in states :
       /\ state \in [File -> 1..MaxEdits + 1]
       /\ \A f \in File : state[f] <= raw[f]
  /\ \A f \in File : raw[f] <= Cardinality(states)

\* The files of the stage that the command has been through.
Passed == {Order[i] : i \in 1..(at - 1)}

HasSource == IF pc \in {"read", "source"} THEN Passed ELSE File
HasRead == IF pc = "source" THEN Passed \cup {Order[at]} ELSE HasSource
HashedAfter == IF pc = "after" THEN Passed ELSE File

\* What is read of a file was there between its two hashes.
ReadBetweenHashes ==
  /\ at \in DOMAIN Order
  /\ before \in Version /\ read \in Version
  /\ source \in Version /\ after \in Version
  /\ \A f \in File : before[f] <= raw[f]
  /\ pc \in {"read", "source", "after", "verify"} =>
       /\ \A f \in HasRead : before[f] <= read[f]
       /\ \A f \in HasSource : before[f] <= source[f]
  /\ \A f \in File : read[f] <= raw[f] /\ source[f] <= raw[f]
  /\ pc \in {"after", "verify"} =>
       \A f \in HashedAfter : read[f] <= after[f] /\ source[f] <= after[f]

\* When the last file had its first hash and none had its second, the raw
\* files were all there together: state is what they were then.
MomentBetweenRounds ==
  pc \in {"read", "source", "after", "verify"} =>
    \E state \in states :
      /\ \A f \in File : before[f] <= state[f]
      /\ pc \in {"after", "verify"} =>
           \A f \in HashedAfter : state[f] <= after[f]

\* What passed the comparison is a state the raw files were in.
VerifiedState ==
  pc \in {"remove", "publish"} => read \in states /\ source = read

\* What is in the output directory, while it is whole, replaced or absent.
OutputDirectory ==
  /\ processed = None \/ /\ DOMAIN processed.files \subseteq File
                         /\ processed =
                              [files   |-> processed.files,
                               summary |-> processed.summary]
  /\ pc = "publish" => processed = None
  /\ pc \notin Stopped \cup {"remove", "publish"} => processed = found
  /\ pc \notin {"remove", "publish"} /\ ~cut =>
       processed = None \/ Complete(processed)

CleaningInv ==
  /\ pc \in Stopped
       \cup {"before", "read", "source", "after", "verify", "remove", "publish"}
  /\ cut \in BOOLEAN
  /\ RawHistory
  /\ ReadBetweenHashes
  /\ MomentBetweenRounds
  /\ VerifiedState
  /\ OutputDirectory
  /\ PublishedFromOneRawState
  /\ FailureKeepsOutput
-----------------------------------------------------------------------------

\* The docstring of clean_dataset promises a transaction at the level of
\* the directory, and docs/data_cleaning.md:12 that the output "is replaced
\* only after a complete successful run".
FailedRunReplacesNothing == pc = "failed" => processed = found
=============================================================================
