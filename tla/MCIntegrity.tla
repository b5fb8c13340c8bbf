----------------------------- MODULE MCIntegrity -----------------------------
(***************************************************************************)
(* An instance of Integrity, and with it of Loading, for TLC: a table that *)
(* refers to another one, and two states of the raw files.  They differ in *)
(* the values of the customers but not in their keys, and in the keys of   *)
(* the accounts but not in their number.                                   *)
(***************************************************************************)
EXTENDS Integrity, TLC

MCFile == {"customers", "accounts"}
MCOrder == <<"customers", "accounts">>
MCParents == [f \in MCFile |-> IF f = "accounts" THEN {"customers"} ELSE {}]
MCBasis == [f \in MCFile |-> {f} \cup MCParents[f]]
MCRawState == {[f \in MCFile |-> 1], [f \in MCFile |-> 2]}

MCContents(f) == {[g \in MCBasis[f] |-> raw[g]] : raw \in MCRawState}
\* The customers come in another order in the second of their raw files.
MCLead ==
  [c \in UNION {MCContents(f) : f \in MCFile} |->
     IF DOMAIN c = {"customers"} THEN c["customers"] ELSE 1]

MCKeysOf ==
  [f \in MCFile |-> [c \in MCContents(f) |->
     IF f = "accounts" /\ c[f] = 2 THEN {1, 3, 4} ELSE
     IF f = "accounts" THEN {1, 2, 4} ELSE {1, 2}]]

\* Loaders are interchangeable.
Symmetry == Permutations(Loader)
=============================================================================
