----------------------------- MODULE MCReaderRole -----------------------------
(***************************************************************************)
(* An instance of ReaderRole for TLC.                                      *)
(***************************************************************************)
EXTENDS ReaderRole, TLC

\* The tables are interchangeable.
Symmetry == Permutations(Relation)
=============================================================================
