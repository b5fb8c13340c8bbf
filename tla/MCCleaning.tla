----------------------------- MODULE MCCleaning -----------------------------
(***************************************************************************)
(* An instance of Cleaning for TLC: a table that refers to another one,    *)
(* raw files that are edited twice, and one content the contract refuses.  *)
(***************************************************************************)
EXTENDS Cleaning

MCFile == {"customers", "accounts"}
MCOrder == <<"customers", "accounts">>
MCBasis ==
  [f \in MCFile |-> IF f = "accounts" THEN MCFile ELSE {"customers"}]
MCRawState == [MCFile -> 1..3]
MCUnclean == {<<"accounts", 3>>}
=============================================================================
