------------------------- MODULE ProcessedDirectory -------------------------
(***************************************************************************)
(* What the directory of processed data promises to those who read it.  A  *)
(* dataset appears as a whole, with the manifest that describes it, and    *)
(* every file of it is cleaned from one state of the raw files; before the *)
(* next one appears, it disappears file by file, in any order.  A reader   *)
(* that does not look at the directory at one instant may see any of that. *)
(***************************************************************************)
EXTENDS Integers, Sequences

CONSTANTS
  File,      \* the source files; a processed file has its source's name
  Basis,     \* Basis[f]: f and the files its foreign keys lead to
  RawState,  \* the states of the raw files, by version
  None       \* no directory, no manifest

VARIABLE processed  \* None, or the directory's [files, summary]

ASSUME DirectoryAssumption ==
  /\ Basis \in [File -> SUBSET File]
  /\ \A f \in File : f \in Basis[f]
  /\ RawState \subseteq [File -> Nat]
  /\ None \notin [File -> [source    : Nat,
                           processed : UNION {[b -> Nat] : b \in SUBSET File}]]

\* The accepted rows of f: its own, less those whose keys lead nowhere.
Cleaned(f, raw) == [g \in Basis[f] |-> raw[g]]

\* A complete dataset; the manifest has the hashes of every source and of
\* the processed file.
Dataset(raw, source) ==
  [files   |-> [f \in File |-> Cleaned(f, raw)],
   summary |-> [f \in File |->
                  [source |-> source[f], processed |-> Cleaned(f, raw)]]]

\* What a reader finds in the directory, if it is there.
FilesOf(d) == IF d = None THEN {} ELSE DOMAIN d.files
SummaryOf(d) == IF d = None THEN None ELSE d.summary

Publish ==
  /\ processed = None
  /\ \E raw \in RawState : processed' = Dataset(raw, raw)

\* What is left of a directory when one of its entries is removed.
WithoutOne(d) ==
  {[d EXCEPT !.files = [g \in DOMAIN d.files \ {f} |-> d.files[g]]] :
     f \in DOMAIN d.files}
    \cup {[d EXCEPT !.summary = None]}

RemoveEntry ==
  /\ processed # None
  /\ processed' \in WithoutOne(processed)

RemoveDirectory ==
  /\ processed # None
  /\ FilesOf(processed) = {} /\ SummaryOf(processed) = None
  /\ processed' = None

DirectoryNext == Publish \/ RemoveEntry \/ RemoveDirectory

DirectorySpec == processed = None /\ [][DirectoryNext]_processed
=============================================================================
