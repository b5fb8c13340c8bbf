--------------------------- MODULE IntegrityProofs ---------------------------
(***************************************************************************)
(* Loading's and Integrity's properties, for any files, foreign keys, raw  *)
(* states and number of loaders.                                           *)
(***************************************************************************)
EXTENDS Integrity, FiniteSetsExt, TLAPS, FiniteSetTheorems,
        WellFoundedInduction

\* The minimum of a set of numbers is one of its elements, and the least.
LEMMA MinIsLeast ==
  ASSUME NEW S \in SUBSET Nat, S # {}
  PROVE  Min(S) \in S /\ \A i \in S : Min(S) <= i
<1>. DEFINE R == {ss \in Nat \X Nat : ss[1] < ss[2]}
<1>1. IsWellFoundedOn(R, Nat)
  BY NatLessThanWellFounded DEF OpToRel
<1>2. \A i, j \in Nat : i < j => <<i, j>> \in R
  OBVIOUS
<1>. HIDE DEF R
<1>3. PICK least \in S : \A i \in S : <<i, least>> \notin R
  BY <1>1, WFMin
<1>4. \A i \in S : ~(i < least)
  BY <1>2, <1>3
<1>5. least \in Nat /\ \A i \in S : i \in Nat
  OBVIOUS
<1>6. \A i \in S : least <= i
  BY <1>4, <1>5
<1>7. QED
  BY <1>6 DEF Min

\* What the constants are.
LEMMA Constants ==
  /\ Len(Order) \in Nat \ {0} /\ DOMAIN Order = 1..Len(Order)
  /\ \A i \in DOMAIN Order : Order[i] \in File
  /\ \A f \in File : \E i \in DOMAIN Order : f = Order[i]
  /\ \A i, j \in DOMAIN Order : Order[i] = Order[j] => i = j
  /\ \A i, j \in DOMAIN Order : Order[i] \in Parents[Order[j]] => i < j
  /\ None \notin Content
  /\ \A c \in Content : Lead[c] \in Part
<1>1. /\ Order \in Seq(File) /\ Order # <<>>
      /\ {Order[i] : i \in DOMAIN Order} = File
      /\ \A i, j \in DOMAIN Order : Order[i] = Order[j] => i = j
      /\ \A i, j \in DOMAIN Order : Order[i] \in Parents[Order[j]] => i < j
      /\ None \notin Content
      /\ Lead \in [Content -> Part]
  BY LoadingAssumption
<1>2. Len(Order) \in Nat \ {0} /\ DOMAIN Order = 1..Len(Order)
  BY <1>1
<1>3. \A c \in Content : Lead[c] \in Part
  BY <1>1
<1>4. \A f \in File : f \in {Order[i] : i \in DOMAIN Order}
  BY <1>1
<1>5. QED
  BY <1>1, <1>2, <1>3, <1>4

\* A manifest is none of the things that stand for its absence.
LEMMA DatasetsAreThere ==
  ASSUME NEW raw \in RawState
  PROVE  /\ Dataset(raw, raw).summary # None
         /\ DOMAIN Dataset(raw, raw).files = File
         /\ \A f \in File :
              /\ Dataset(raw, raw).files[f] = Cleaned(f, raw)
              /\ Dataset(raw, raw).summary[f].processed = Cleaned(f, raw)
<1>1. ASSUME NEW f \in File
      PROVE  [source |-> raw[f], processed |-> Cleaned(f, raw)] \in
               [source    : Nat,
                processed : UNION {[b -> Nat] : b \in SUBSET File}]
  <2>1. raw \in [File -> Nat] /\ Basis[f] \in SUBSET File
    BY DirectoryAssumption
  <2>2. Cleaned(f, raw) \in [Basis[f] -> Nat]
    BY <2>1 DEF Cleaned
  <2>3. QED
    BY <2>1, <2>2
<1>2. Dataset(raw, raw).summary # None
  BY <1>1, DirectoryAssumption DEF Dataset
<1>3. QED
  BY <1>2 DEF Dataset

LEMMA NoRowsType ==
  /\ NoRows \in [File -> MaybeRows]
  /\ \A f \in File : NoRows[f] = None
BY DEF NoRows, MaybeRows

-----------------------------------------------------------------------------
(***************************************************************************)
(* The loaders.                                                            *)
(***************************************************************************)

LEMMA LoadingInitInv == Init => LoadingInv
<1>. SUFFICES ASSUME Init PROVE LoadingInv
  OBVIOUS
<1>. USE Constants, NoRowsType DEF Init
<1>1. LoadingTypeOK
  <2>1. 1 \in DOMAIN Order /\ None \in MaybeRows
    BY DEF MaybeRows
  <2>2. replace \in [Loader -> BOOLEAN] /\ swapped \in BOOLEAN
    BY Zenon
  <2>3. QED
    BY <2>1, <2>2 DEF LoadingTypeOK, Stopped
<1>2. DirectoryHolds /\ CommittedIsOneDataset
  BY DEF DirectoryHolds, CommittedIsOneDataset
<1>3. \A l \in Loader : /\ Progress(l) /\ DeletedAlone(l)
                       /\ InsertedAlone(l) /\ LoadsOneDataset(l)
  BY DEF Progress, DeletedAlone, InsertedAlone, InsertedParts, LoadsOneDataset,
         Stopped, Deleting, InHand
<1>4. QED
  BY <1>1, <1>2, <1>3 DEF LoadingInv

\* What the directory is left with is still of one dataset.
LEMMA DirectoryStep ==
  ASSUME DirectoryHolds, DirectoryNext
  PROVE  DirectoryHolds'
<1>1. CASE Publish
  <2>1. PICK raw \in RawState : processed' = Dataset(raw, raw)
    BY <1>1 DEF Publish
  <2>2. processed' = [files |-> processed'.files, summary |-> processed'.summary]
    BY <2>1 DEF Dataset
  <2>3. QED
    BY <2>1, <2>2, DatasetsAreThere DEF DirectoryHolds
<1>2. CASE RemoveEntry
  <2>. DEFINE files == processed.files
              summary == processed.summary
  <2>1. processed # None /\ processed' \in WithoutOne(processed)
    BY <1>2 DEF RemoveEntry
  <2>2. processed = [files |-> files, summary |-> summary]
    BY <2>1 DEF DirectoryHolds
  <2>3. PICK raw \in RawState :
          /\ summary \in {None, Dataset(raw, raw).summary}
          /\ DOMAIN files \subseteq File
          /\ \A f \in DOMAIN files : files[f] = Cleaned(f, raw)
    BY <2>1 DEF DirectoryHolds
  <2>. HIDE DEF files, summary
  <2>4. CASE processed' = [processed EXCEPT !.summary = None]
    <3>1. processed' = [files |-> files, summary |-> None]
      BY <2>2, <2>4
    <3>2. QED
      BY <2>3, <3>1 DEF DirectoryHolds
  <2>5. ASSUME NEW f \in DOMAIN files,
               processed' = [processed EXCEPT !.files =
                 [g \in DOMAIN processed.files \ {f} |-> processed.files[g]]]
        PROVE  DirectoryHolds'
    <3>1. processed' = [files |-> [g \in DOMAIN files \ {f} |-> files[g]],
                        summary |-> summary]
      BY <2>2, <2>5
    <3>2. QED
      BY <2>3, <3>1 DEF DirectoryHolds
  <2>6. QED
    BY <2>1, <2>4, <2>5 DEF WithoutOne, files
<1>3. CASE RemoveDirectory
  BY <1>3 DEF RemoveDirectory, DirectoryHolds
<1>4. QED
  BY <1>1, <1>2, <1>3 DEF DirectoryNext

LEMMA CleanStep ==
  ASSUME LoadingInv, Clean
  PROVE  LoadingInv'
<1>. USE DEF LoadingInv, Clean, locals, txVars
<1>1. DirectoryHolds'
  BY DirectoryStep
<1>2. LoadingTypeOK' /\ CommittedIsOneDataset'
  BY DEF LoadingTypeOK, CommittedIsOneDataset
<1>3. \A l \in Loader : /\ Progress(l)' /\ DeletedAlone(l)'
                       /\ InsertedAlone(l)' /\ LoadsOneDataset(l)'
  BY DEF Progress, DeletedAlone, InsertedAlone, InsertedParts, LoadsOneDataset,
         Table
<1>4. QED
  BY <1>1, <1>2, <1>3

\* The step of one loader leaves the others alone.
OthersStay(l) ==
  \A q \in Loader \ {l} :
    /\ pc'[q] = pc[q] /\ replace'[q] = replace[q] /\ manifest'[q] = manifest[q]
    /\ at'[q] = at[q] /\ opened'[q] = opened[q]
    /\ deleted'[q] = deleted[q] /\ inserted'[q] = inserted[q]
    /\ seen'[q] \in {seen[q], None}

\* What it leaves alone are the tables they have inserted into, too.
LEMMA OthersKeepParts ==
  ASSUME NEW l \in Loader, OthersStay(l)
  PROVE  \A q \in Loader \ {l} :
           /\ Table(q)' = Table(q)
           /\ \A f \in File : InsertedParts(q, f)' = InsertedParts(q, f)
BY DEF OthersStay, InsertedParts, Table

LEMMA LoaderStep ==
  ASSUME LoadingInv, NEW l \in Loader, OthersStay(l),
         UNCHANGED <<processed, db>>, swapped => swapped',
         LoadingTypeOK', Progress(l)', DeletedAlone(l)', InsertedAlone(l)',
         LoadsOneDataset(l)'
  PROVE  LoadingInv'
<1>1. DirectoryHolds' /\ CommittedIsOneDataset'
  BY DEF LoadingInv, DirectoryHolds, CommittedIsOneDataset
<1>2. ASSUME NEW q \in Loader \ {l}
      PROVE  /\ Progress(q)' /\ DeletedAlone(q)'
             /\ InsertedAlone(q)' /\ LoadsOneDataset(q)'
  <2>1. Progress(q) /\ DeletedAlone(q) /\ InsertedAlone(q) /\ LoadsOneDataset(q)
    BY DEF LoadingInv
  <2>2. Progress(q)'
    BY <2>1 DEF OthersStay, Progress
  <2>3. DeletedAlone(q)'
    <3>1. deleted'[q] = deleted[q] /\ pc'[q] = pc[q] /\ Table(q)' = Table(q)
          /\ seen'[q] \in {seen[q], None} /\ deleted'[q] \subseteq File
      BY OthersKeepParts DEF OthersStay, LoadingTypeOK
    <3>2. ASSUME NEW f \in deleted[q], NEW other \in Loader \ {q}
          PROVE  f \notin deleted'[other]
      BY <2>1, <3>1, <3>2 DEF DeletedAlone, OthersStay
    <3>3. QED
      BY <2>1, <3>1, <3>2 DEF DeletedAlone
  <2>4. InsertedAlone(q)'
    <3>1. ASSUME NEW f \in File, NEW other \in Loader \ {q}
          PROVE  InsertedParts(q, f)' \cap InsertedParts(other, f)' = {}
      <4>1. CASE other = l
        BY <4>1 DEF InsertedAlone
      <4>2. CASE other # l
        BY <2>1, <4>2, OthersKeepParts DEF InsertedAlone
      <4>3. QED
        BY <4>1, <4>2
    <3>2. ASSUME NEW f \in File, InsertedParts(q, f)' # {}
          PROVE  db'[f] = None \/ f \in deleted'[q]
      BY <2>1, <3>2, OthersKeepParts DEF InsertedAlone, OthersStay
    <3>3. QED
      BY <3>1, <3>2 DEF InsertedAlone
  <2>5. LoadsOneDataset(q)'
    BY <2>1 DEF OthersStay, LoadsOneDataset, Table
  <2>6. QED
    BY <2>2, <2>3, <2>4, <2>5
<1>3. QED
  BY <1>1, <1>2 DEF LoadingInv

\* So with the steps that insert nothing.
LEMMA QuietStep ==
  ASSUME LoadingInv, NEW l \in Loader, OthersStay(l),
         UNCHANGED <<processed, db>>, swapped => swapped',
         LoadingTypeOK', Progress(l)', DeletedAlone(l)', LoadsOneDataset(l)',
         inserted'[l] = inserted[l], pc'[l] # "inserting",
         deleted[l] \subseteq deleted'[l]
  PROVE  LoadingInv'
<1>1. \A f \in File : InsertedParts(l, f)' \subseteq InsertedParts(l, f)
  BY DEF InsertedParts
<1>2. InsertedAlone(l)
  BY DEF LoadingInv
<1>3. ASSUME NEW f \in File, NEW q \in Loader \ {l}
      PROVE  InsertedParts(l, f)' \cap InsertedParts(q, f)' = {}
  BY <1>1, <1>2, OthersKeepParts DEF InsertedAlone
<1>4. ASSUME NEW f \in File, InsertedParts(l, f)' # {}
      PROVE  db'[f] = None \/ f \in deleted'[l]
  BY <1>1, <1>2, <1>4 DEF InsertedAlone
<1>5. InsertedAlone(l)'
  BY <1>3, <1>4 DEF InsertedAlone
<1>6. QED
  BY <1>5, LoaderStep

\* A loader that ends leaves no trace.
LEMMA RollbackStep ==
  ASSUME LoadingInv, NEW l \in Loader, NEW how \in Stopped, Rollback(l, how),
         UNCHANGED processed, swapped => swapped', swapped' \in BOOLEAN
  PROVE  LoadingInv'
<1>. USE Constants, NoRowsType DEF Rollback, Forget, Goto
<1>1. LoadingTypeOK
  BY DEF LoadingInv
<1>2. LoadingTypeOK'
  BY <1>1 DEF LoadingTypeOK, MaybeRows
<1>3. /\ pc'[l] = how /\ replace'[l] = FALSE /\ manifest'[l] = None /\ at'[l] = 1
      /\ opened'[l] = None /\ deleted'[l] = {} /\ inserted'[l] = NoRows
  BY <1>1 DEF LoadingTypeOK
<1>4. OthersStay(l)
  BY <1>1 DEF LoadingTypeOK, OthersStay
<1>5. how \notin Stages
  BY DEF Stopped, Stages, Deleting, Inserting, InHand
<1>. HIDE DEF Rollback, Forget, Goto
<1>6. Progress(l)' /\ DeletedAlone(l)' /\ LoadsOneDataset(l)'
  BY <1>3, <1>5
     DEF Progress, DeletedAlone, LoadsOneDataset, Stages, Deleting, Inserting,
         InHand
<1>7. InsertedAlone(l)'
  <2>1. \A f \in File : InsertedParts(l, f)' = {}
    BY <1>3, <1>5 DEF InsertedParts, Stages, Inserting, InHand
  <2>2. QED
    BY <2>1 DEF InsertedAlone
<1>8. UNCHANGED db
  BY DEF Rollback
<1>9. QED
  BY <1>2, <1>4, <1>6, <1>7, <1>8, LoaderStep

LEMMA StartStep ==
  ASSUME LoadingInv, NEW l \in Loader, Start(l)
  PROVE  LoadingInv'
<1>1. CASE Rollback(l, "failed")
  <2>1. UNCHANGED <<processed, swapped>> /\ swapped \in BOOLEAN
    BY DEF Start, LoadingInv, LoadingTypeOK
  <2>2. QED
    BY <1>1, <2>1, RollbackStep DEF Stopped
<1>. USE DEF Deleting, Inserting, InHand
<1>2. CASE SummaryOf(processed) # None /\ ~Rollback(l, "failed")
  <2>1. PICK flag \in BOOLEAN : replace' = [replace EXCEPT ![l] = flag]
    BY <1>2 DEF Start
  <2>2. /\ pc[l] \in Stopped /\ pc' = [pc EXCEPT ![l] = "check"]
        /\ manifest' = [manifest EXCEPT
             ![l] = [f \in File |-> processed.summary[f].processed]]
        /\ UNCHANGED <<processed, db, at, opened, seen, deleted, inserted, swapped>>
    BY <1>2 DEF Start, Goto, txVars
  <2>3. PICK raw \in RawState : processed.summary = Dataset(raw, raw).summary
    BY <1>2 DEF LoadingInv, DirectoryHolds, SummaryOf
  <2>4. [f \in File |-> processed.summary[f].processed]
          = [f \in File |-> Cleaned(f, raw)]
    BY <2>3, DatasetsAreThere
  <2>5. LoadingTypeOK
    BY DEF LoadingInv
  <2>6. [f \in File |-> Cleaned(f, raw)] \in [File -> Content]
    BY DEF Content
  <2>7. /\ pc'[l] = "check" /\ manifest'[l] = [f \in File |-> Cleaned(f, raw)]
        /\ at'[l] = at[l] /\ opened'[l] = opened[l]
        /\ deleted'[l] = deleted[l] /\ inserted'[l] = inserted[l]
    BY <2>2, <2>4, <2>5 DEF LoadingTypeOK
  <2>8. LoadingTypeOK'
    BY <2>1, <2>2, <2>4, <2>5, <2>6 DEF LoadingTypeOK, Stages
  <2>9. OthersStay(l)
    BY <2>1, <2>2, <2>5 DEF OthersStay, LoadingTypeOK
  <2>10. at[l] = 1 /\ deleted[l] = {} /\ inserted[l] = NoRows
    BY <2>2 DEF LoadingInv, Progress
  <2>11. Progress(l)' /\ DeletedAlone(l)' /\ LoadsOneDataset(l)'
    BY <2>7, <2>10, NoRowsType DEF Progress, DeletedAlone, LoadsOneDataset, Stopped
  <2>12. QED
    BY <2>2, <2>7, <2>8, <2>9, <2>11, QuietStep
<1>3. QED
  BY <1>1, <1>2 DEF Start

LEMMA CheckStep ==
  ASSUME LoadingInv, NEW l \in Loader, Check(l)
  PROVE  LoadingInv'
<1>. USE Constants DEF Deleting, Inserting, InHand
<1>0. /\ LoadingTypeOK /\ Progress(l) /\ DeletedAlone(l)
      /\ InsertedAlone(l) /\ LoadsOneDataset(l)
  BY DEF LoadingInv
<1>1. CASE Rollback(l, "refused")
  <2>1. UNCHANGED <<processed, swapped>> /\ swapped \in BOOLEAN
    BY <1>0 DEF Check, LoadingTypeOK
  <2>2. QED
    BY <1>1, <2>1, RollbackStep DEF Stopped
<1>2. CASE ~Rollback(l, "refused")
  <2>1. /\ pc[l] = "check"
        /\ UNCHANGED <<processed, db, replace, manifest, opened, seen, deleted,
                       inserted, swapped>>
        /\ \/ /\ pc' = [pc EXCEPT ![l] = "delete"] /\ replace[l]
              /\ at' = [at EXCEPT ![l] = Len(Order)]
           \/ pc' = [pc EXCEPT ![l] = "hash"] /\ UNCHANGED at
    BY <1>2 DEF Check, Goto, txVars, DeletesFirst
  <2>2. at[l] = 1 /\ deleted[l] = {} /\ inserted[l] = NoRows
    BY <1>0, <2>1 DEF Progress
  <2>3. /\ \/ pc'[l] = "delete" /\ replace'[l] /\ at'[l] = Len(Order)
           \/ pc'[l] = "hash" /\ at'[l] = 1
        /\ deleted'[l] = {} /\ inserted'[l] = NoRows
    BY <1>0, <2>1, <2>2 DEF LoadingTypeOK
  <2>4. LoadingTypeOK'
    <3>1. \E stage \in Stages : pc' = [pc EXCEPT ![l] = stage]
      BY <2>1 DEF Stages
    <3>2. \E i \in DOMAIN Order : at' = [at EXCEPT ![l] = i]
      <4>1. CASE at' = [at EXCEPT ![l] = Len(Order)]
        <5>1. Len(Order) \in DOMAIN Order
          OBVIOUS
        <5>2. QED
          BY <4>1, <5>1, Zenon
      <4>2. CASE UNCHANGED at
        <5>1. at' = [at EXCEPT ![l] = at[l]]
          BY <1>0, <4>2 DEF LoadingTypeOK
        <5>2. QED
          BY <1>0, <5>1 DEF LoadingTypeOK
      <4>3. QED
        BY <2>1, <4>1, <4>2
    <3>3. QED
      BY <1>0, <2>1, <3>1, <3>2 DEF LoadingTypeOK
  <2>5. OthersStay(l)
    BY <1>0, <2>1 DEF OthersStay, LoadingTypeOK
  <2>6. Progress(l)' /\ DeletedAlone(l)'
    BY <2>3, NoRowsType DEF Progress, DeletedAlone, Stopped
  <2>7. LoadsOneDataset(l)'
    BY <1>0, <2>1, <2>3, NoRowsType DEF LoadsOneDataset, Stopped
  <2>8. QED
    BY <2>1, <2>2, <2>3, <2>4, <2>5, <2>6, <2>7, QuietStep
<1>3. QED
  BY <1>1, <1>2

LEMMA SnapshotRowsStep ==
  ASSUME LoadingInv, NEW l \in Loader, SnapshotRows(l)
  PROVE  LoadingInv'
<1>. USE Constants DEF Deleting, Inserting, InHand
<1>0. /\ LoadingTypeOK /\ Progress(l) /\ DeletedAlone(l)
      /\ InsertedAlone(l) /\ LoadsOneDataset(l)
  BY DEF LoadingInv
<1>1. /\ pc[l] = "delete" /\ pc' = [pc EXCEPT ![l] = "deleting"]
      /\ seen' = [seen EXCEPT ![l] = db[Table(l)]]
      /\ UNCHANGED <<processed, db, replace, manifest, at, opened, deleted,
                     inserted, swapped>>
  BY DEF SnapshotRows, Goto, locals
<1>2. pc'[l] = "deleting"
  BY <1>0, <1>1 DEF LoadingTypeOK
<1>3. Table(l) \in File
  BY <1>0 DEF LoadingTypeOK, Table
<1>4. LoadingTypeOK'
  BY <1>0, <1>1, <1>3 DEF LoadingTypeOK, Stages
<1>5. OthersStay(l)
  BY <1>0, <1>1 DEF OthersStay, LoadingTypeOK
<1>6. Progress(l)' /\ LoadsOneDataset(l)'
  BY <1>0, <1>1, <1>2 DEF Progress, LoadsOneDataset, Stopped
<1>7. DeletedAlone(l)'
  <2>1. seen'[l] = db[Table(l)] /\ Table(l)' = Table(l)
    BY <1>0, <1>1 DEF LoadingTypeOK, Table
  <2>2. QED
    BY <1>0, <1>1, <2>1 DEF DeletedAlone
<1>8. QED
  BY <1>0, <1>1, <1>2, <1>4, <1>5, <1>6, <1>7, QuietStep

\* From one table to the one before it, or to the first file.
LEMMA NextDeleteStep ==
  ASSUME LoadingInv, NEW l \in Loader, pc[l] \in {"deleting", "references"},
         NextDelete(l),
         UNCHANGED <<processed, db, replace, manifest, opened, seen, deleted,
                     inserted, swapped>>
  PROVE  LoadingInv'
<1>. USE Constants DEF Deleting, Inserting, InHand
<1>0. /\ LoadingTypeOK /\ Progress(l) /\ DeletedAlone(l)
      /\ InsertedAlone(l) /\ LoadsOneDataset(l)
  BY DEF LoadingInv
<1>1. IF at[l] > 1
        THEN pc' = [pc EXCEPT ![l] = "delete"] /\ at' = [at EXCEPT ![l] = @ - 1]
        ELSE pc' = [pc EXCEPT ![l] = "hash"] /\ UNCHANGED at
  BY DEF NextDelete, Goto, MoreToDelete
<1>2. at[l] \in DOMAIN Order /\ inserted[l] = NoRows
  BY <1>0 DEF LoadingTypeOK, Progress
<1>3. \/ at[l] > 1 /\ pc'[l] = "delete" /\ at'[l] = at[l] - 1
      \/ at[l] = 1 /\ pc'[l] = "hash" /\ at'[l] = at[l]
  BY <1>0, <1>1, <1>2 DEF LoadingTypeOK
<1>4. LoadingTypeOK'
  <2>1. pc' \in [Loader -> Stopped \cup Stages]
    <3>1. \E stage \in Stages : pc' = [pc EXCEPT ![l] = stage]
      BY <1>1 DEF Stages
    <3>2. QED
      BY <1>0, <3>1 DEF LoadingTypeOK
  <2>2. at' \in [Loader -> DOMAIN Order]
    <3>1. at[l] > 1 => at[l] - 1 \in DOMAIN Order
      BY <1>2
    <3>2. CASE at[l] > 1
      BY <1>0, <1>1, <3>1, <3>2 DEF LoadingTypeOK
    <3>3. CASE ~(at[l] > 1)
      BY <1>0, <1>1, <3>3 DEF LoadingTypeOK
    <3>4. QED
      BY <3>2, <3>3
  <2>3. QED
    BY <1>0, <2>1, <2>2 DEF LoadingTypeOK
<1>5. OthersStay(l)
  BY <1>0, <1>1 DEF OthersStay, LoadingTypeOK
<1>6. Progress(l)'
  <2>1. \A i \in DOMAIN Order : Order[i] \in deleted[l] => i >= at[l]
    BY <1>0, <1>2 DEF Progress
  <2>2. pc'[l] = "delete" =>
          \A i \in DOMAIN Order : Order[i] \in deleted'[l] => i > at'[l]
    BY <1>2, <1>3, <2>1
  <2>3. replace'[l]
    BY <1>0 DEF Progress
  <2>4. QED
    BY <1>2, <1>3, <2>2, <2>3, NoRowsType DEF Progress, Stopped
<1>7. DeletedAlone(l)'
  BY <1>0, <1>3, <1>5 DEF DeletedAlone, OthersStay
<1>8. LoadsOneDataset(l)'
  BY <1>0, <1>2, <1>3, NoRowsType DEF LoadsOneDataset, Stopped
<1>9. QED
  BY <1>3, <1>4, <1>5, <1>6, <1>7, <1>8, QuietStep

LEMMA DeleteStep ==
  ASSUME LoadingInv, NEW l \in Loader, Delete(l)
  PROVE  LoadingInv'
<1>. USE Constants DEF Deleting, Inserting, InHand
<1>0. /\ LoadingTypeOK /\ Progress(l) /\ DeletedAlone(l)
      /\ InsertedAlone(l) /\ LoadsOneDataset(l)
  BY DEF LoadingInv
<1>1. CASE seen[l] = None
  BY <1>1, NextDeleteStep DEF Delete
<1>2. CASE seen[l] # None
  <2>1. /\ pc[l] = "deleting" /\ WaitsFor(l) = {}
        /\ deleted' = [deleted EXCEPT ![l] = @ \cup {Table(l)}]
        /\ seen' = [seen EXCEPT ![l] = None]
        /\ pc' = [pc EXCEPT ![l] = "references"]
        /\ UNCHANGED <<processed, db, replace, manifest, at, opened, inserted,
                       swapped>>
    BY <1>2 DEF Delete, Goto
  <2>2. /\ at[l] \in DOMAIN Order /\ Table(l) \in File /\ Table(l) = Order[at[l]]
        /\ inserted[l] = NoRows
    BY <1>0, <2>1 DEF LoadingTypeOK, Table, Progress
  <2>3. /\ pc'[l] = "references" /\ deleted'[l] = deleted[l] \cup {Table(l)}
    BY <1>0, <2>1 DEF LoadingTypeOK
  <2>4. LoadingTypeOK'
    <3>1. deleted' \in [Loader -> SUBSET File]
      BY <1>0, <2>1, <2>2 DEF LoadingTypeOK
    <3>2. QED
      BY <1>0, <2>1, <3>1 DEF LoadingTypeOK, MaybeRows, Stages
  <2>5. OthersStay(l)
    BY <1>0, <2>1 DEF OthersStay, LoadingTypeOK
  <2>6. Progress(l)'
    <3>1. \A i \in DOMAIN Order : Order[i] \in deleted'[l] => i >= at[l]
      BY <1>0, <2>1, <2>2, <2>3 DEF Progress
    <3>2. QED
      BY <1>0, <2>1, <2>2, <2>3, <3>1, NoRowsType DEF Progress, Stopped
  <2>7. DeletedAlone(l)'
    <3>1. db[Table(l)] # None /\ \A q \in Loader \ {l} : Table(l) \notin deleted[q]
      BY <1>0, <1>2, <2>1 DEF DeletedAlone, WaitsFor
    <3>2. QED
      BY <1>0, <2>1, <2>3, <2>5, <3>1 DEF DeletedAlone, OthersStay
  <2>8. LoadsOneDataset(l)'
    BY <1>0, <2>1, <2>2, <2>3, NoRowsType DEF LoadsOneDataset, Stopped
  <2>9. QED
    BY <2>1, <2>3, <2>4, <2>5, <2>6, <2>7, <2>8, QuietStep
<1>3. QED
  BY <1>1, <1>2

LEMMA CheckReferencesStep ==
  ASSUME LoadingInv, NEW l \in Loader, CheckReferences(l)
  PROVE  LoadingInv'
<1>1. CASE Rollback(l, "failed")
  <2>1. UNCHANGED <<processed, swapped>> /\ swapped \in BOOLEAN
    BY DEF CheckReferences, LoadingInv, LoadingTypeOK
  <2>2. QED
    BY <1>1, <2>1, RollbackStep DEF Stopped
<1>2. CASE ~Rollback(l, "failed")
  BY <1>2, NextDeleteStep DEF CheckReferences, txVars
<1>3. QED
  BY <1>1, <1>2

\* What a loader finds in a file is rows.
LEMMA FilesHaveRows ==
  ASSUME DirectoryHolds, NEW f \in FilesOf(processed)
  PROVE  f \in File /\ processed.files[f] \in Content
BY DEF DirectoryHolds, FilesOf, Content

LEMMA HashStep ==
  ASSUME LoadingInv, NEW l \in Loader, Hash(l)
  PROVE  LoadingInv'
<1>. USE Constants DEF Deleting, Inserting, InHand
<1>0. /\ LoadingTypeOK /\ Progress(l) /\ DeletedAlone(l)
      /\ InsertedAlone(l) /\ LoadsOneDataset(l)
  BY DEF LoadingInv
<1>1. CASE Rollback(l, "failed")
  <2>1. UNCHANGED <<processed, swapped>> /\ swapped \in BOOLEAN
    BY <1>0 DEF Hash, LoadingTypeOK
  <2>2. QED
    BY <1>1, <2>1, RollbackStep DEF Stopped
<1>2. CASE ~Rollback(l, "failed")
  <2>1. /\ pc[l] = "hash" /\ pc' = [pc EXCEPT ![l] = "open"]
        /\ Table(l) \in FilesOf(processed)
        /\ processed.files[Table(l)] = manifest[l][Table(l)]
        /\ opened' = [opened EXCEPT ![l] = processed.files[Table(l)]]
        /\ UNCHANGED <<processed, db, replace, manifest, at, seen, deleted,
                       inserted, swapped>>
    BY <1>2 DEF Hash, Goto, HashMatches, txVars
  <2>2. processed.files[Table(l)] \in Content
    BY <2>1, FilesHaveRows DEF LoadingInv
  <2>3. pc'[l] = "open" /\ opened'[l] = manifest[l][Table(l)] /\ opened'[l] # None
    BY <1>0, <2>1, <2>2 DEF LoadingTypeOK
  <2>4. LoadingTypeOK'
    <3>1. pc' \in [Loader -> Stopped \cup Stages]
      BY <1>0, <2>1 DEF LoadingTypeOK, Stages
    <3>2. opened' \in [Loader -> MaybeRows]
      BY <1>0, <2>1, <2>2 DEF LoadingTypeOK, MaybeRows
    <3>3. QED
      BY <1>0, <2>1, <3>1, <3>2 DEF LoadingTypeOK
  <2>5. OthersStay(l)
    BY <1>0, <2>1 DEF OthersStay, LoadingTypeOK
  <2>6. Progress(l)' /\ DeletedAlone(l)'
    BY <1>0, <2>1, <2>3 DEF Progress, DeletedAlone, Stopped
  <2>7. LoadsOneDataset(l)'
    BY <1>0, <2>1, <2>3 DEF LoadsOneDataset, Stopped, Table
  <2>8. QED
    BY <2>1, <2>3, <2>4, <2>5, <2>6, <2>7, QuietStep
<1>3. QED
  BY <1>1, <1>2

LEMMA OpenStep ==
  ASSUME LoadingInv, NEW l \in Loader, Open(l)
  PROVE  LoadingInv'
<1>. USE Constants DEF Deleting, Inserting, InHand
<1>0. /\ LoadingTypeOK /\ Progress(l) /\ DeletedAlone(l)
      /\ InsertedAlone(l) /\ LoadsOneDataset(l)
  BY DEF LoadingInv
<1>1. CASE Rollback(l, "failed") /\ UNCHANGED swapped
  <2>1. UNCHANGED <<processed, swapped>> /\ swapped \in BOOLEAN
    BY <1>0, <1>1 DEF Open, LoadingTypeOK
  <2>2. QED
    BY <1>1, <2>1, RollbackStep DEF Stopped
<1>2. CASE ~(Rollback(l, "failed") /\ UNCHANGED swapped)
  <2>1. /\ pc[l] = "open" /\ pc' = [pc EXCEPT ![l] = "insert"]
        /\ Table(l) \in FilesOf(processed)
        /\ opened' = [opened EXCEPT ![l] = processed.files[Table(l)]]
        /\ UNCHANGED <<processed, db, replace, manifest, at, seen, deleted,
                       inserted>>
    BY <1>2 DEF Open, Goto, txVars
  <2>2. swapped' = (swapped \/ opened'[l] # opened[l])
    BY <1>2 DEF Open
  <2>3. processed.files[Table(l)] \in Content
    BY <2>1, FilesHaveRows DEF LoadingInv
  <2>4. pc'[l] = "insert" /\ opened'[l] # None
    BY <1>0, <2>1, <2>3 DEF LoadingTypeOK
  <2>5. swapped' \in BOOLEAN /\ (swapped => swapped')
        /\ (~swapped' => opened'[l] = opened[l])
    BY <2>2, Zenon
  <2>6. LoadingTypeOK'
    <3>1. pc' \in [Loader -> Stopped \cup Stages]
      BY <1>0, <2>1 DEF LoadingTypeOK, Stages
    <3>2. opened' \in [Loader -> MaybeRows]
      BY <1>0, <2>1, <2>3 DEF LoadingTypeOK, MaybeRows
    <3>3. QED
      BY <1>0, <2>1, <2>5, <3>1, <3>2 DEF LoadingTypeOK
  <2>7. OthersStay(l)
    BY <1>0, <2>1 DEF OthersStay, LoadingTypeOK
  <2>8. Progress(l)' /\ DeletedAlone(l)'
    BY <1>0, <2>1, <2>4 DEF Progress, DeletedAlone, Stopped
  <2>9. LoadsOneDataset(l)'
    BY <1>0, <2>1, <2>4, <2>5 DEF LoadsOneDataset, Stopped, Table
  <2>10. QED
    BY <2>1, <2>4, <2>5, <2>6, <2>7, <2>8, <2>9, QuietStep
<1>3. QED
  BY <1>1, <1>2

LEMMA InsertStep ==
  ASSUME LoadingInv, NEW l \in Loader, Insert(l)
  PROVE  LoadingInv'
<1>. USE Constants DEF Deleting, Inserting, InHand
<1>0. /\ LoadingTypeOK /\ Progress(l) /\ DeletedAlone(l)
      /\ InsertedAlone(l) /\ LoadsOneDataset(l)
  BY DEF LoadingInv
<1>1. CASE Rollback(l, "failed")
  <2>1. UNCHANGED <<processed, swapped>> /\ swapped \in BOOLEAN
    BY <1>0 DEF Insert, LoadingTypeOK
  <2>2. QED
    BY <1>1, <2>1, RollbackStep DEF Stopped
<1>2. CASE ~Rollback(l, "failed") /\ pc[l] = "insert"
  <2>1. /\ WaitsFor(l) = {} /\ ~InTheWay(l)
        /\ pc' = [pc EXCEPT ![l] = "inserting"]
        /\ UNCHANGED <<processed, db, replace, manifest, at, opened, seen, deleted,
                       inserted, swapped>>
    BY <1>2 DEF Insert, Goto, locals, txVars
  <2>2. pc'[l] = "inserting" /\ Table(l) \in File /\ Table(l)' = Table(l)
    BY <1>0, <2>1 DEF LoadingTypeOK, Table
  <2>3. LoadingTypeOK'
    BY <1>0, <2>1 DEF LoadingTypeOK, Stages
  <2>4. OthersStay(l)
    BY <1>0, <2>1 DEF LoadingTypeOK, OthersStay
  <2>5. Progress(l)' /\ DeletedAlone(l)' /\ LoadsOneDataset(l)'
    BY <1>0, <1>2, <2>1, <2>2
       DEF Progress, DeletedAlone, LoadsOneDataset, Stopped, Table
  <2>6. \A f \in File : f # Table(l) => InsertedParts(l, f)' = InsertedParts(l, f)
    BY <1>2, <2>1, <2>2 DEF InsertedParts
  <2>7. InsertedParts(l, Table(l))' \subseteq {NextPart(l)}
    <3>1. inserted'[l][Table(l)] = None
      BY <1>0, <1>2, <2>1 DEF Progress, LoadingTypeOK, Table
    <3>2. NextPart(l) = Lead[opened'[l]]
      BY <1>2, <2>1 DEF NextPart
    <3>3. QED
      BY <2>2, <3>1, <3>2 DEF InsertedParts
  <2>8. \A q \in Loader \ {l} : NextPart(l) \notin InsertedParts(q, Table(l))
    BY <1>2, <2>1 DEF WaitsFor
  <2>9. InsertedAlone(l)'
    <3>1. ASSUME NEW f \in File, NEW q \in Loader \ {l}
          PROVE  InsertedParts(l, f)' \cap InsertedParts(q, f)' = {}
      <4>1. InsertedParts(q, f)' = InsertedParts(q, f)
        BY <2>4, OthersKeepParts
      <4>2. CASE f = Table(l)
        <5>1. InsertedParts(l, Table(l))' = InsertedParts(l, f)'
          BY <2>2, <4>2 DEF InsertedParts
        <5>2. QED
          BY <2>7, <2>8, <4>1, <4>2, <5>1
      <4>3. CASE f # Table(l)
        BY <1>0, <2>6, <4>1, <4>3 DEF InsertedAlone
      <4>4. QED
        BY <4>2, <4>3
    <3>2. ASSUME NEW f \in File, InsertedParts(l, f)' # {}
          PROVE  db'[f] = None \/ f \in deleted'[l]
      BY <1>0, <2>1, <2>6, <3>2 DEF InsertedAlone, InTheWay
    <3>3. QED
      BY <3>1, <3>2 DEF InsertedAlone
  <2>10. QED
    BY <2>1, <2>3, <2>4, <2>5, <2>9, LoaderStep
<1>3. CASE ~Rollback(l, "failed") /\ pc[l] = "inserting"
  <2>1. /\ pc[l] = "inserting" /\ WaitsFor(l) = {} /\ ~InTheWay(l)
        /\ inserted' = [inserted EXCEPT ![l][Table(l)] = opened[l]]
        /\ opened' = [opened EXCEPT ![l] = None]
        /\ UNCHANGED <<processed, db, replace, manifest, seen, deleted, swapped>>
    BY <1>3 DEF Insert
  <2>2. \/ /\ at[l] < Len(Order) /\ pc' = [pc EXCEPT ![l] = "hash"]
           /\ at' = [at EXCEPT ![l] = @ + 1]
        \/ /\ ~(at[l] < Len(Order)) /\ pc' = [pc EXCEPT ![l] = "commit"]
           /\ UNCHANGED at
    BY <1>3 DEF Insert, Goto
  <2>3. /\ at[l] \in DOMAIN Order /\ Table(l) \in File /\ Table(l) = Order[at[l]]
        /\ opened[l] \in MaybeRows /\ opened[l] # None
        /\ inserted[l] \in [File -> MaybeRows]
        /\ \A i \in DOMAIN Order : inserted[l][Order[i]] # None <=> i < at[l]
    BY <1>0, <2>1 DEF LoadingTypeOK, Table, Progress
  <2>4. /\ inserted'[l][Table(l)] = opened[l]
        /\ \A f \in File : f # Table(l) => inserted'[l][f] = inserted[l][f]
    BY <1>0, <2>1, <2>3 DEF LoadingTypeOK
  <2>5. \/ at[l] < Len(Order) /\ pc'[l] = "hash" /\ at'[l] = at[l] + 1
        \/ at[l] = Len(Order) /\ pc'[l] = "commit" /\ at'[l] = at[l]
    BY <1>0, <2>2, <2>3 DEF LoadingTypeOK
  <2>6. LoadingTypeOK'
    <3>1. \E stage \in Stages : pc' = [pc EXCEPT ![l] = stage]
      BY <2>2 DEF Stages
    <3>2. at' \in [Loader -> DOMAIN Order]
      <4>1. at[l] < Len(Order) => at[l] + 1 \in DOMAIN Order
        BY <2>3
      <4>2. CASE at[l] < Len(Order) /\ at' = [at EXCEPT ![l] = @ + 1]
        BY <1>0, <4>1, <4>2 DEF LoadingTypeOK
      <4>3. CASE UNCHANGED at
        BY <1>0, <4>3 DEF LoadingTypeOK
      <4>4. QED
        BY <2>2, <4>2, <4>3
    <3>3. inserted' \in [Loader -> [File -> MaybeRows]]
      BY <1>0, <2>1, <2>3 DEF LoadingTypeOK
    <3>4. opened' \in [Loader -> MaybeRows]
      BY <1>0, <2>1 DEF LoadingTypeOK, MaybeRows
    <3>5. QED
      BY <1>0, <2>1, <3>1, <3>2, <3>3, <3>4 DEF LoadingTypeOK
  <2>7. OthersStay(l)
    <3>1. \A q \in Loader \ {l} : pc'[q] = pc[q] /\ at'[q] = at[q]
      BY <1>0, <2>2 DEF LoadingTypeOK
    <3>2. \A q \in Loader \ {l} : opened'[q] = opened[q] /\ inserted'[q] = inserted[q]
      BY <1>0, <2>1 DEF LoadingTypeOK
    <3>3. QED
      BY <2>1, <3>1, <3>2 DEF OthersStay
  <2>8. \A i \in DOMAIN Order : inserted'[l][Order[i]] # None <=> i <= at[l]
    BY <2>3, <2>4
  <2>9. Progress(l)'
    <3>1. CASE pc'[l] = "hash"
      <4>1. \A i \in DOMAIN Order : inserted'[l][Order[i]] # None <=> i < at'[l]
        BY <2>3, <2>5, <2>8, <3>1
      <4>2. QED
        BY <1>0, <2>1, <3>1, <4>1 DEF Progress, Stopped
    <3>2. CASE pc'[l] = "commit"
      <4>1. \A f \in File : inserted'[l][f] # None
        BY <2>3, <2>5, <2>8, <3>2
      <4>2. QED
        BY <1>0, <2>1, <3>2, <4>1 DEF Progress, Stopped
    <3>3. QED
      BY <2>5, <3>1, <3>2
  <2>10. LoadsOneDataset(l)'
    BY <1>0, <2>1, <2>3, <2>4, <2>5 DEF LoadsOneDataset, Stopped
  <2>11. DeletedAlone(l)'
    BY <1>0, <2>1, <2>5, <2>7 DEF DeletedAlone, OthersStay
  <2>12. \A f \in File : f # Table(l) =>
           InsertedParts(l, f)' \subseteq InsertedParts(l, f)
    BY <2>4, <2>5 DEF InsertedParts
  <2>13. \A q \in Loader \ {l} : InsertedParts(q, Table(l)) = {}
    <3>1. inserted[l][Table(l)] = None
      BY <2>3
    <3>2. Lead[opened[l]] \in Part
      BY <2>3 DEF MaybeRows
    <3>3. Lead[opened[l]] \in InsertedParts(l, Table(l))
      BY <2>1, <3>2 DEF InsertedParts
    <3>4. NextPart(l) = 3 - Lead[opened[l]]
      BY <2>1 DEF NextPart
    <3>5. ASSUME NEW q \in Loader \ {l}
          PROVE  InsertedParts(q, Table(l)) = {}
      <4>1. NextPart(l) \notin InsertedParts(q, Table(l))
        BY <2>1 DEF WaitsFor
      <4>2. Lead[opened[l]] \notin InsertedParts(q, Table(l))
        BY <1>0, <2>3, <3>3 DEF InsertedAlone
      <4>3. InsertedParts(q, Table(l)) \subseteq {1, 2}
        BY DEF InsertedParts, Part
      <4>4. QED
        BY <3>2, <3>4, <4>1, <4>2, <4>3 DEF Part
    <3>6. QED
      BY <3>5
  <2>14. InsertedAlone(l)'
    <3>1. ASSUME NEW f \in File, NEW q \in Loader \ {l}
          PROVE  InsertedParts(l, f)' \cap InsertedParts(q, f)' = {}
      BY <1>0, <2>7, <2>12, <2>13, OthersKeepParts DEF InsertedAlone
    <3>2. ASSUME NEW f \in File, InsertedParts(l, f)' # {}
          PROVE  db'[f] = None \/ f \in deleted'[l]
      BY <1>0, <2>1, <2>12, <3>2 DEF InsertedAlone, InTheWay
    <3>3. QED
      BY <3>1, <3>2 DEF InsertedAlone
  <2>15. QED
    BY <2>1, <2>6, <2>7, <2>9, <2>10, <2>11, <2>14, LoaderStep
<1>4. QED
  BY <1>1, <1>2, <1>3 DEF Insert

\* What a transaction that has come to its end has written.
LEMMA WrittenIsInserted ==
  ASSUME LoadingInv, NEW l \in Loader, pc[l] = "commit"
  PROVE  /\ Written(l) = inserted[l]
         /\ \A f \in File : inserted[l][f] # None
<1>1. \A f \in File : inserted[l][f] # None
  BY DEF LoadingInv, Progress
<1>2. inserted[l] \in [File -> MaybeRows]
  BY DEF LoadingInv, LoadingTypeOK
<1>3. QED
  BY <1>1, <1>2 DEF Written

\* Where a loader has inserted, nothing is committed but what it deleted.
LEMMA InsertedHasGivenWay ==
  ASSUME LoadingInv, NEW l \in Loader, NEW f \in File, inserted[l][f] # None
  PROVE  db[f] = None \/ f \in deleted[l]
<1>1. 1 \in InsertedParts(l, f)
  BY DEF InsertedParts, Part
<1>2. QED
  BY <1>1 DEF LoadingInv, InsertedAlone

LEMMA CommitStep ==
  ASSUME LoadingInv, NEW l \in Loader, Commit(l)
  PROVE  LoadingInv'
<1>. USE Constants, NoRowsType DEF Deleting, Inserting, InHand
<1>1. LoadingTypeOK /\ Progress(l) /\ InsertedAlone(l) /\ LoadsOneDataset(l)
  BY DEF LoadingInv
<1>2. /\ pc[l] = "commit" /\ pc' = [pc EXCEPT ![l] = "committed"]
      /\ db' = inserted[l] /\ \A f \in File : inserted[l][f] # None
      /\ replace' = [replace EXCEPT ![l] = FALSE]
      /\ manifest' = [manifest EXCEPT ![l] = None]
      /\ at' = [at EXCEPT ![l] = 1]
      /\ opened' = [opened EXCEPT ![l] = None]
      /\ deleted' = [deleted EXCEPT ![l] = {}]
      /\ inserted' = [inserted EXCEPT ![l] = NoRows]
      /\ UNCHANGED <<processed, swapped>>
  BY WrittenIsInserted DEF Commit, Goto, Forget
<1>3. /\ pc'[l] = "committed" /\ replace'[l] = FALSE /\ manifest'[l] = None
      /\ at'[l] = 1 /\ opened'[l] = None /\ deleted'[l] = {}
      /\ inserted'[l] = NoRows
  BY <1>1, <1>2 DEF LoadingTypeOK
<1>4. OthersStay(l)
  <2>1. \A q \in Loader : seen'[q] \in {seen[q], None}
    BY DEF Commit
  <2>2. QED
    BY <1>1, <1>2, <2>1 DEF LoadingTypeOK, OthersStay
<1>5. LoadingTypeOK'
  <2>1. seen' \in [Loader -> MaybeRows]
    BY <1>1 DEF Commit, LoadingTypeOK, MaybeRows
  <2>2. db' \in [File -> MaybeRows]
    BY <1>1, <1>2 DEF LoadingTypeOK
  <2>3. pc' \in [Loader -> Stopped \cup Stages]
    BY <1>1, <1>2 DEF LoadingTypeOK, Stopped
  <2>4. opened' \in [Loader -> MaybeRows]
    BY <1>1, <1>2 DEF LoadingTypeOK, MaybeRows
  <2>5. inserted' \in [Loader -> [File -> MaybeRows]]
    BY <1>1, <1>2 DEF LoadingTypeOK
  <2>6. /\ replace' \in [Loader -> BOOLEAN] /\ at' \in [Loader -> DOMAIN Order]
        /\ deleted' \in [Loader -> SUBSET File]
    BY <1>1, <1>2 DEF LoadingTypeOK
  <2>7. manifest' \in [Loader -> [File -> Content] \cup {None}]
    BY <1>1, <1>2 DEF LoadingTypeOK
  <2>8. QED
    BY <1>1, <1>2, <2>1, <2>2, <2>3, <2>4, <2>5, <2>6, <2>7 DEF LoadingTypeOK
<1>6. DirectoryHolds'
  BY <1>2 DEF LoadingInv, DirectoryHolds
<1>7. CommittedIsOneDataset'
  <2>1. SUFFICES ASSUME ~swapped
                 PROVE  \E raw \in RawState : \A f \in File : db'[f] = Cleaned(f, raw)
    BY <1>2 DEF CommittedIsOneDataset
  <2>2. PICK raw \in RawState : manifest[l] = [f \in File |-> Cleaned(f, raw)]
    BY <1>1, <1>2 DEF LoadsOneDataset, Stopped
  <2>3. \A f \in File : inserted[l][f] = manifest[l][f]
    BY <1>1, <1>2, <2>1 DEF LoadsOneDataset
  <2>4. QED
    BY <1>2, <2>2, <2>3
<1>8. \A f \in File : InsertedParts(l, f)' = {}
  BY <1>3 DEF InsertedParts
<1>9. ASSUME NEW q \in Loader
      PROVE  /\ Progress(q)' /\ DeletedAlone(q)'
             /\ InsertedAlone(q)' /\ LoadsOneDataset(q)'
  <2>1. CASE q = l
    BY <1>3, <1>8, <2>1
       DEF Progress, DeletedAlone, InsertedAlone, LoadsOneDataset, Stopped
  <2>2. CASE q # l
    <3>1. Progress(q) /\ DeletedAlone(q) /\ InsertedAlone(q) /\ LoadsOneDataset(q)
      BY DEF LoadingInv
    <3>2. Progress(q)' /\ LoadsOneDataset(q)'
      BY <1>2, <1>4, <2>2, <3>1 DEF OthersStay, Progress, LoadsOneDataset, Table
    <3>3. DeletedAlone(q)'
      <4>1. deleted'[q] = deleted[q] /\ at'[q] \in DOMAIN Order /\ Table(q)' \in File
            /\ deleted'[q] \subseteq File
        BY <1>4, <1>5, <2>2 DEF OthersStay, LoadingTypeOK, Table
      <4>2. ASSUME NEW f \in deleted[q], NEW other \in Loader \ {q}
            PROVE  f \notin deleted'[other]
        BY <1>3, <1>4, <3>1, <4>2 DEF DeletedAlone, OthersStay
      <4>3. \A f \in File : db'[f] # None
        BY <1>2
      <4>4. QED
        BY <4>1, <4>2, <4>3 DEF DeletedAlone
    <3>4. \A f \in File : InsertedParts(q, f)' = {}
      <4>1. ASSUME NEW f \in File
            PROVE  InsertedParts(q, f) = {}
        <5>1. InsertedParts(l, f) = Part
          BY <1>2 DEF InsertedParts
        <5>2. InsertedParts(q, f) \subseteq Part
          BY DEF InsertedParts
        <5>3. InsertedParts(l, f) \cap InsertedParts(q, f) = {}
          BY <1>1, <2>2 DEF InsertedAlone
        <5>4. QED
          BY <5>1, <5>2, <5>3
      <4>2. QED
        BY <1>4, <2>2, <4>1, OthersKeepParts
    <3>5. InsertedAlone(q)'
      BY <3>4 DEF InsertedAlone
    <3>6. QED
      BY <3>2, <3>3, <3>5
  <2>3. QED
    BY <2>1, <2>2
<1>10. QED
  BY <1>5, <1>6, <1>7, <1>9 DEF LoadingInv

LEMMA DieStep ==
  ASSUME LoadingInv, NEW l \in Loader, Die(l)
  PROVE  LoadingInv'
<1>1. swapped \in BOOLEAN
  BY DEF LoadingInv, LoadingTypeOK
<1>2. QED
  BY <1>1, RollbackStep DEF Die, Stopped

LEMMA LoadingNextInv == LoadingInv /\ [Next]_vars => LoadingInv'
<1>1. ASSUME LoadingInv, UNCHANGED vars
      PROVE  LoadingInv'
  <2>. USE <1>1 DEF vars, locals, txVars, LoadingInv
  <2>1. LoadingTypeOK' /\ DirectoryHolds' /\ CommittedIsOneDataset'
    BY DEF LoadingTypeOK, DirectoryHolds, CommittedIsOneDataset
  <2>2. ASSUME NEW l \in Loader
        PROVE  /\ Progress(l)' /\ DeletedAlone(l)'
               /\ InsertedAlone(l)' /\ LoadsOneDataset(l)'
    <3>1. UNCHANGED Table(l)
      BY DEF Table
    <3>2. \A q \in Loader, f \in File : UNCHANGED InsertedParts(q, f)
      BY DEF InsertedParts, Table
    <3>3. QED
      BY <3>1, <3>2 DEF Progress, DeletedAlone, InsertedAlone, LoadsOneDataset
  <2>3. QED
    BY <2>1, <2>2
<1>2. ASSUME LoadingInv, Next
      PROVE  LoadingInv'
  BY <1>2, CleanStep, StartStep, CheckStep, SnapshotRowsStep, DeleteStep,
     CheckReferencesStep, HashStep, OpenStep, InsertStep, CommitStep, DieStep
     DEF Next, Load
<1>3. QED
  BY <1>1, <1>2

LEMMA LoadingInvariant == Spec => []LoadingInv
BY LoadingInitInv, LoadingNextInv, PTL DEF Spec

\* The committed tables are all empty or of one dataset, whatever loaders run,
\* wait and fail at once over a directory that is being replaced, as long as
\* no file changes between its hash and its reading (load_processed_data).
THEOREM OneDataset == Spec => []CommittedIsOneDataset
<1>1. LoadingInv => CommittedIsOneDataset
  BY DEF LoadingInv
<1>2. QED
  BY <1>1, LoadingInvariant, PTL

\* A committed dataset gives way only to one that a loader with --replace
\* commits as a whole (TargetNotEmptyError, and the unique keys for a loader
\* that found the tables empty too early).
THEOREM ReplacedOnRequest == Spec => OnlyReplaceOverwrites
<1>1. LoadingInv /\ [Next]_vars =>
        [NonEmpty # {} /\ db' # db =>
           \E l \in Loader : pc[l] = "commit" /\ replace[l] /\ db' = inserted[l]]_vars
  <2>1. SUFFICES ASSUME LoadingInv, Next, NonEmpty # {}, db' # db
                 PROVE  \E l \in Loader :
                          pc[l] = "commit" /\ replace[l] /\ db' = inserted[l]
    BY DEF vars
  <2>2. PICK l \in Loader : Commit(l)
    BY <2>1
       DEF Next, Load, Clean, Start, Check, SnapshotRows, Delete, CheckReferences, Hash,
           Open, Insert, Die, Rollback, txVars, locals
  <2>3. /\ pc[l] = "commit" /\ db' = inserted[l]
        /\ \A f \in File : inserted[l][f] # None
    BY <2>1, <2>2, WrittenIsInserted DEF Commit
  <2>4. PICK f \in File : db[f] # None
    BY <2>1 DEF NonEmpty
  <2>5. f \in deleted[l]
    BY <2>1, <2>3, <2>4, InsertedHasGivenWay DEF NonEmpty
  <2>6. replace[l]
    BY <2>1, <2>5 DEF LoadingInv, Progress
  <2>7. QED
    BY <2>3, <2>6
<1>2. QED
  BY <1>1, LoadingInvariant, PTL DEF Spec, OnlyReplaceOverwrites

StepOf(q) == Start(q) \/ Load(q) \/ Die(q)

\* A loader's step is its own.
LEMMA StepsOfOne ==
  ASSUME LoadingTypeOK, NEW q \in Loader, StepOf(q)
  PROVE  OthersStay(q)
<1>. USE DEF LoadingTypeOK, OthersStay, Goto
<1>1. ASSUME NEW how, Rollback(q, how)
      PROVE  OthersStay(q)
  BY <1>1 DEF Rollback, Forget
<1>2. CASE Start(q)
  BY <1>1, <1>2 DEF Start, txVars
<1>3. CASE Check(q)
  BY <1>1, <1>3 DEF Check, txVars
<1>4. CASE SnapshotRows(q)
  BY <1>4 DEF SnapshotRows, locals
<1>5. CASE Delete(q) \/ CheckReferences(q)
  BY <1>1, <1>5 DEF Delete, CheckReferences, NextDelete, txVars
<1>6. CASE Hash(q)
  BY <1>1, <1>6 DEF Hash, txVars
<1>7. CASE Open(q)
  BY <1>1, <1>7 DEF Open, txVars
<1>8. CASE Insert(q)
  BY <1>1, <1>8 DEF Insert, locals, txVars
<1>9. CASE Commit(q)
  BY <1>9 DEF Commit, Forget
<1>10. CASE Die(q)
  BY <1>1, <1>10 DEF Die
<1>11. QED
  BY <1>2, <1>3, <1>4, <1>5, <1>6, <1>7, <1>8, <1>9, <1>10
     DEF StepOf, Load

\* A load that has passed over a table before rows were committed there fails
\* in the end: these rows stay until someone deletes them, and it does not
\* (loading.py: the emptiness check, the DELETEs, the plain INSERTs).
THEOREM PassedOverIsFatal == Spec => DoomedLoadsFail
<1>1. ASSUME LoadingInv, Next, NEW l \in Loader, Doomed(l)
      PROVE  Doomed(l)' \/ pc'[l] = "failed"
  <2>. USE Constants DEF Deleting, Inserting, InHand
  <2>1. /\ LoadingTypeOK /\ LoadingTypeOK'
        /\ pc[l] \notin Stopped \cup {"check"} /\ at[l] \in 1..Len(Order)
    BY <1>1, LoadingNextInv
       DEF LoadingInv, LoadingTypeOK, Doomed, PassedOver, Stopped
  <2>2. PICK i \in DOMAIN Order :
          /\ db[Order[i]] # None /\ Order[i] \notin deleted[l]
          /\ pc[l] \in Inserting \/ (pc[l] \in Deleting /\ i > at[l])
    BY <1>1 DEF Doomed, PassedOver
  <2>3. ASSUME db'[Order[i]] # None, Order[i] \notin deleted'[l],
               pc'[l] \in Inserting \/ (pc'[l] \in Deleting /\ i > at'[l])
        PROVE  Doomed(l)'
    BY <2>3 DEF Doomed, PassedOver
  <2>4. ASSUME Clean
        PROVE  Doomed(l)'
    BY <2>2, <2>3, <2>4 DEF Clean, locals, txVars
  <2>5. db'[Order[i]] # None
    <3>1. CASE UNCHANGED db
      BY <2>2, <3>1
    <3>2. CASE ~UNCHANGED db
      <4>1. PICK q \in Loader : Commit(q)
        BY <1>1, <3>2
           DEF Next, Load, Clean, Start, Check, SnapshotRows, Delete, CheckReferences,
               Hash, Open, Insert, Die, Rollback, txVars, locals
      <4>2. QED
        BY <1>1, <4>1, WrittenIsInserted DEF Commit
    <3>3. QED
      BY <3>1, <3>2
  <2>6. ASSUME NEW q \in Loader \ {l}, OthersStay(q)
        PROVE  Doomed(l)'
    BY <2>2, <2>3, <2>5, <2>6 DEF OthersStay
  <2>7. ASSUME NEW how, Rollback(l, how)
        PROVE  pc'[l] = how
    BY <2>1, <2>7 DEF Rollback, Goto, LoadingTypeOK
  <2>8. CASE Start(l) \/ Check(l)
    BY <2>1, <2>8 DEF Start, Check
  <2>9. CASE SnapshotRows(l)
    BY <2>1, <2>2, <2>3, <2>5, <2>9
       DEF SnapshotRows, Goto, locals, LoadingTypeOK
  <2>10. ASSUME NextDelete(l), pc[l] \in Deleting, UNCHANGED deleted
         PROVE  Doomed(l)'
    <3>1. pc'[l] \in {"delete", "hash"} /\ at'[l] \in {at[l], at[l] - 1}
      BY <2>1, <2>10 DEF NextDelete, Goto, LoadingTypeOK
    <3>2. QED
      BY <2>1, <2>2, <2>3, <2>5, <2>10, <3>1
  <2>11. CASE Delete(l)
    <3>1. CASE NextDelete(l) /\ UNCHANGED deleted
      BY <2>10, <2>11, <3>1 DEF Delete
    <3>2. CASE ~(NextDelete(l) /\ UNCHANGED deleted)
      <4>1. /\ pc[l] = "deleting" /\ pc'[l] = "references" /\ at'[l] = at[l]
            /\ deleted'[l] = deleted[l] \cup {Order[at[l]]}
        BY <2>1, <2>11, <3>2 DEF Delete, Goto, LoadingTypeOK, Table
      <4>2. i > at[l]
        BY <2>2, <4>1
      <4>3. Order[i] # Order[at[l]]
        BY <2>1, <4>2
      <4>4. QED
        BY <2>2, <2>3, <2>5, <4>1, <4>2, <4>3
    <3>3. QED
      BY <3>1, <3>2
  <2>12. CASE CheckReferences(l)
    BY <2>7, <2>10, <2>12 DEF CheckReferences, txVars
  <2>13. ASSUME UNCHANGED deleted, pc[l] \in Inserting, pc'[l] \in Inserting
         PROVE  Doomed(l)'
    BY <2>2, <2>3, <2>5, <2>13
  <2>14. CASE Hash(l) \/ Open(l)
    BY <2>1, <2>7, <2>13, <2>14 DEF Hash, Open, Goto, txVars, LoadingTypeOK
  <2>15. CASE Insert(l)
    BY <2>1, <2>7, <2>13, <2>15 DEF Insert, Goto, txVars, LoadingTypeOK
  <2>16. CASE Commit(l)
    <3>1. inserted[l][Order[i]] # None
      BY <1>1, <2>16, WrittenIsInserted DEF Commit
    <3>2. QED
      BY <1>1, <2>2, <3>1, InsertedHasGivenWay
  <2>17. CASE Die(l)
    BY <2>7, <2>17 DEF Die
  <2>18. ASSUME NEW q \in Loader, StepOf(q)
         PROVE  OthersStay(q)
    BY <2>1, <2>18, StepsOfOne
  <2>19. QED
    BY <1>1, <2>4, <2>6, <2>8, <2>9, <2>11, <2>12, <2>14, <2>15, <2>16, <2>17,
       <2>18
       DEF Next, Load, StepOf
<1>2. ASSUME UNCHANGED vars, NEW l \in Loader, Doomed(l)
      PROVE  Doomed(l)'
  BY <1>2 DEF vars, locals, txVars, Doomed, PassedOver
<1>3. LoadingInv /\ [Next]_vars =>
        [\A l \in Loader : Doomed(l) => Doomed(l)' \/ pc'[l] = "failed"]_vars
  BY <1>1
<1>4. QED
  BY <1>3, LoadingInvariant, PTL DEF Spec, DoomedLoadsFail

\* How much a loader at work has before it: with the deletions to come all of
\* the insertions, and after the last of them the commit.  Each deletion and
\* each insertion has two steps.
Ahead(l) ==
  IF pc[l] \in {"check", "delete", "deleting"} THEN 2 * Len(Order) + 2 * at[l] + 1
  ELSE IF pc[l] = "references" THEN 2 * Len(Order) + 2 * at[l]
  ELSE IF pc[l] = "inserting"  THEN 2 * (Len(Order) - at[l]) + 1
  ELSE IF pc[l] = "commit"     THEN 0
  ELSE 2 * (Len(Order) - at[l]) + 2

LEMMA AheadIsNatural ==
  ASSUME NEW l, Len(Order) \in Nat, at[l] \in Nat, at[l] <= Len(Order)
  PROVE  /\ Ahead(l) \in Nat
         /\ pc[l] \in {"insert", "inserting"} =>
              Ahead(l) >= 2 * (Len(Order) - at[l]) + 1
         /\ pc[l] \in {"hash", "open", "insert", "inserting"} =>
              Ahead(l) <= 2 * (Len(Order) - at[l]) + 2
<1>. DEFINE left == Len(Order) - at[l]
<1>1. left \in Nat
  OBVIOUS
<1>2. Ahead(l) =
        IF pc[l] \in {"check", "delete", "deleting"}
          THEN 2 * Len(Order) + 2 * at[l] + 1
        ELSE IF pc[l] = "references" THEN 2 * Len(Order) + 2 * at[l]
        ELSE IF pc[l] = "inserting"  THEN 2 * left + 1
        ELSE IF pc[l] = "commit" THEN 0 ELSE 2 * left + 2
  BY DEF Ahead
<1>. HIDE DEF left
<1>3. Ahead(l) \in Nat
  BY <1>1, <1>2
<1>4. pc[l] \in {"insert", "inserting"} => Ahead(l) >= 2 * left + 1
  BY <1>1, <1>2
<1>5. pc[l] \in {"hash", "open", "insert", "inserting"} => Ahead(l) <= 2 * left + 2
  BY <1>1, <1>2
<1>6. QED
  BY <1>3, <1>4, <1>5 DEF left

\* A loader that is not doomed and not crossed waits only for those that have
\* less before them.
LEMMA WaitsForOneAhead ==
  ASSUME LoadingInv, NEW l \in AtWork, ~Doomed(l),
         NEW q \in WaitsFor(l), ~Crossed(l, q)
  PROVE  Ahead(q) < Ahead(l)
<1>. USE Constants DEF Deleting, Inserting, InHand
<1>1. ASSUME NEW k \in Loader
      PROVE  /\ at[k] \in 1..Len(Order) /\ pc[k] \in Stopped \cup Stages
             /\ Table(k) = Order[at[k]] /\ Table(k) \in File
             /\ Progress(k) /\ DeletedAlone(k) /\ InsertedAlone(k)
  BY DEF LoadingInv, LoadingTypeOK, Table
<1>2. l \in Loader /\ q \in Loader \ {l}
  BY DEF AtWork, WaitsFor
<1>3. ASSUME NEW f \in deleted[q]
      PROVE  db[f] # None /\ f \notin deleted[l] /\ f \notin PassedOver(l)
  <2>1. db[f] # None /\ f \notin deleted[l]
    BY <1>1, <1>2 DEF DeletedAlone
  <2>2. QED
    BY <2>1 DEF Doomed
<1>4. CASE pc[l] = "deleting" /\ Table(l) \in deleted[q]
  <2>1. pc[q] \in Stages \ {"check"}
    BY <1>1, <1>2, <1>4 DEF Progress
  <2>2. CASE pc[q] \in Deleting
    <3>1. at[l] > at[q] \/ (at[l] = at[q] /\ pc[q] = "references")
      BY <1>1, <1>2, <1>4, <2>2 DEF Progress
    <3>2. QED
      BY <1>1, <1>2, <1>4, <2>2, <3>1 DEF Ahead
  <2>3. CASE pc[q] \in Inserting
    BY <1>1, <1>2, <1>4, <2>3 DEF Ahead
  <2>4. QED
    BY <2>1, <2>2, <2>3 DEF Stages
<1>5. CASE pc[l] = "references" /\ Children(Table(l)) \cap deleted[q] # {}
  <2>1. PICK g \in Children(Table(l)) : g \in deleted[q]
    BY <1>5
  <2>2. PICK i \in DOMAIN Order : g = Order[i]
    BY <2>1 DEF Children
  <2>3. i > at[l]
    BY <1>1, <1>2, <2>1, <2>2 DEF Children
  <2>4. g \in PassedOver(l)
    BY <1>5, <2>2, <2>3 DEF PassedOver
  <2>5. QED
    BY <1>3, <2>1, <2>4
<1>6. CASE pc[l] \in {"insert", "inserting"} /\ Table(l) \in deleted[q]
  <2>1. Table(l) \in PassedOver(l)
    BY <1>1, <1>2, <1>6 DEF PassedOver
  <2>2. QED
    BY <1>3, <1>6, <2>1
<1>7. CASE /\ pc[l] \in {"insert", "inserting"}
           /\ NextPart(l) \in InsertedParts(q, Table(l))
  <2>1. CASE inserted[q][Table(l)] # None
    <3>1. pc[q] \in Inserting
      BY <1>1, <1>2, <2>1, NoRowsType DEF Progress, Stages
    <3>2. pc[q] # "commit" => at[l] < at[q]
      BY <1>1, <1>2, <2>1, <3>1 DEF Progress
    <3>3. at[l] \in Nat /\ at[q] \in Nat /\ Len(Order) \in Nat
          /\ at[l] <= Len(Order) /\ at[q] <= Len(Order)
      BY <1>1, <1>2
    <3>4. /\ Ahead(l) \in Nat /\ Ahead(q) \in Nat
          /\ Ahead(l) >= 2 * (Len(Order) - at[l]) + 1
          /\ pc[q] # "commit" => Ahead(q) <= 2 * (Len(Order) - at[q]) + 2
      BY <1>7, <3>1, <3>3, AheadIsNatural
    <3>5. pc[q] = "commit" => Ahead(q) = 0
      BY DEF Ahead
    <3>6. QED
      BY <3>2, <3>3, <3>4, <3>5
  <2>2. CASE inserted[q][Table(l)] = None
    <3>1. /\ pc[q] = "inserting" /\ Table(q) = Table(l)
          /\ NextPart(l) = Lead[opened[q]]
      BY <1>7, <2>2 DEF InsertedParts
    <3>2. at[q] = at[l]
      BY <1>1, <1>2, <3>1
    <3>3. pc[l] # "inserting"
      <4>1. opened[q] \in Content
        BY <1>1, <1>2, <3>1 DEF LoadingInv, LoadingTypeOK, MaybeRows, Progress
      <4>2. NextPart(q) # NextPart(l)
        BY <3>1, <4>1 DEF NextPart, Part
      <4>3. QED
        BY <3>1, <4>2 DEF Crossed
    <3>4. QED
      BY <1>1, <1>2, <1>7, <3>1, <3>2, <3>3 DEF Ahead
  <2>3. QED
    BY <2>1, <2>2
<1>8. QED
  BY <1>4, <1>5, <1>6, <1>7 DEF WaitsFor

\* In a circle of loaders that wait for each other there is one that can only
\* fail, or two that insert rows in different orders: if there were neither,
\* the one that has the least before it would wait for nobody (LOAD_SPECS are
\* deleted in the reversed order by all, and inserted in the order).
THEOREM CircleHasACause == Spec => []CirclesHaveACause
<1>1. ASSUME LoadingInv
      PROVE  CirclesHaveACause
  <2>1. SUFFICES ASSUME NEW loaders \in SUBSET AtWork, Circle(loaders),
                        \A l \in loaders : ~Doomed(l),
                        \A l, q \in loaders : ~Crossed(l, q)
                 PROVE  FALSE
    BY DEF CirclesHaveACause
  <2>2. ASSUME NEW l \in loaders
        PROVE  Ahead(l) \in Nat
    <3>1. at[l] \in 1..Len(Order) /\ Len(Order) \in Nat
      BY <1>1, Constants DEF LoadingInv, LoadingTypeOK, AtWork
    <3>2. QED
      BY <3>1, AheadIsNatural
  <2>. DEFINE aheads == {Ahead(l) : l \in loaders}
  <2>3. aheads \in SUBSET Nat /\ aheads # {}
    BY <2>1, <2>2 DEF Circle
  <2>4. Min(aheads) \in aheads /\ \A n \in aheads : Min(aheads) <= n
    <3>. HIDE DEF aheads
    <3>1. QED
      BY <2>3, MinIsLeast
  <2>5. PICK l \in loaders : \A q \in loaders : Ahead(l) <= Ahead(q)
    BY <2>4
  <2>6. PICK q \in WaitsFor(l) : q \in loaders
    BY <2>1 DEF Circle
  <2>7. Ahead(q) < Ahead(l)
    BY <1>1, <2>1, <2>6, WaitsForOneAhead
  <2>8. QED
    BY <2>2, <2>5, <2>6, <2>7
<1>2. QED
  BY <1>1, LoadingInvariant, PTL
-----------------------------------------------------------------------------
(***************************************************************************)
(* The command.                                                            *)
(***************************************************************************)

\* The loaders do among the others what they do alone.
LEMMA LoadersAmongOthers == [IntegrityNext]_allVars => [Next]_vars
BY DEF IntegrityNext, Command, Others, allVars

\* A record with all of the command's variables.
Full(v) ==
  v = [at |-> v.at, at_file |-> v.at_file, summary |-> v.summary,
       rows |-> v.rows, keys |-> v.keys, granted |-> v.granted,
       still |-> v.still, matched |-> v.matched, agreed |-> v.agreed,
       lost |-> v.lost]

Working == Reading \cup Comparing \cup Probing

LEMMA WorkingShape ==
  ASSUME ValShape, val.at \notin Ended
  PROVE  /\ Full(val) /\ val.at \in Working /\ val.at_file \in DOMAIN Order
         /\ val.rows = [f \in File |-> val.rows[f]]
         /\ {val.still, val.matched, val.agreed, val.lost} \subseteq BOOLEAN
         /\ Current \in File
<1>1. val # Idle /\ val # [at |-> "aborted"]
  BY DEF Idle, Ended
<1>2. QED
  BY <1>1, Constants DEF ValShape, Full, Working, Current

\* What the stage's changes leave alone.
Unaffected ==
  UNCHANGED <<val.summary, val.rows, val.granted, val.still, val.matched,
              val.agreed, val.lost>>

LEMMA NextStageFields ==
  ASSUME Full(val), NEW stage, NextStage(stage)
  PROVE  /\ Full(val') /\ val'.at = stage /\ Unaffected
         /\ UNCHANGED <<val.at_file, val.keys>>
BY DEF Full, NextStage, Unaffected

LEMMA NextFileFields ==
  ASSUME Full(val), NEW stage, NEW following, NextFile(stage, following)
  PROVE  /\ Full(val') /\ Unaffected
         /\ \/ /\ val.at_file < Len(Order) /\ val'.at = stage
               /\ val'.at_file = val.at_file + 1
            \/ /\ ~(val.at_file < Len(Order)) /\ val'.at = following
               /\ val'.at_file = 1
<1>1. CASE val.at_file < Len(Order)
  BY <1>1 DEF Full, NextFile, Unaffected
<1>2. CASE ~(val.at_file < Len(Order))
  BY <1>2 DEF Full, NextFile, Unaffected
<1>3. QED
  BY <1>1, <1>2

\* A file in the directory is the one its manifest describes.
LEMMA FilesAreDescribed ==
  ASSUME DirectoryHolds, SummaryOf(processed) # None,
         NEW f \in FilesOf(processed)
  PROVE  processed.files[f] = SummaryOf(processed)[f].processed
<1>1. processed # None /\ f \in DOMAIN processed.files
  BY DEF FilesOf
<1>2. PICK raw \in RawState :
        /\ processed.summary \in {None, Dataset(raw, raw).summary}
        /\ f \in File /\ processed.files[f] = Cleaned(f, raw)
  BY <1>1 DEF DirectoryHolds
<1>3. SummaryOf(processed) = Dataset(raw, raw).summary
  BY <1>1, <1>2 DEF SummaryOf
<1>4. QED
  BY <1>2, <1>3, DatasetsAreThere

\* A step of the command, which changes nothing but what it knows.
LEMMA CommandKeeps ==
  ASSUME IntegrityInv, UNCHANGED vars
  PROVE  /\ LoadingInv'
         /\ \A summary : Matches(summary, db)' <=> Matches(summary, db)
BY LoadingNextInv DEF IntegrityInv, Matches, vars

LEMMA SurroundingsStay ==
  ASSUME WhileStill, UNCHANGED vars, val.at \notin Ended,
         UNCHANGED <<val.still, val.summary>>
  PROVE  WhileStill'
BY DEF WhileStill, vars, locals, txVars, SummaryOf, AtWork, Table

LEMMA EndStep ==
  ASSUME IntegrityInv, UNCHANGED vars, Full(val'),
         val'.at \in {"passed", "failed", "aborted"},
         val'.at_file \in DOMAIN Order,
         val'.rows = [f \in File |-> val'.rows[f]],
         {val'.still, val'.matched, val'.agreed, val'.lost} \subseteq BOOLEAN,
         val'.at = "passed" =>
           val'.matched /\ (~val'.lost => val'.granted = {}),
         val'.at = "failed" => ~val'.agreed
  PROVE  IntegrityInv'
<1>1. ValShape'
  BY DEF ValShape, Full, Ended, vars
<1>2. val'.at \in Ended /\ val'.at \notin Comparing \cup Probing
  BY DEF Ended, Comparing, Probing
<1>3. /\ WhileStill' /\ MatchedSoFar' /\ CountedSoFar' /\ WhileAgreed'
      /\ ReaderProbed'
  BY <1>2 DEF WhileStill, MatchedSoFar, CountedSoFar, WhileAgreed, ReaderProbed
<1>4. PassedWasTrue' /\ SoundFoundationPasses'
  BY DEF PassedWasTrue, SoundFoundationPasses
<1>5. QED
  BY <1>1, <1>3, <1>4, CommandKeeps DEF IntegrityInv

LEMMA AdvanceStep ==
  ASSUME IntegrityInv, UNCHANGED vars, val.at \notin Ended, Full(val'),
         val'.at \in Working, val'.at_file \in DOMAIN Order,
         val'.rows = [f \in File |-> val'.rows[f]], val'.agreed \in BOOLEAN,
         UNCHANGED <<val.summary, val.still, val.matched, val.lost>>,
         MatchedSoFar', CountedSoFar', WhileAgreed', ReaderProbed'
  PROVE  IntegrityInv'
<1>1. {val'.still, val'.matched, val'.agreed, val'.lost} \subseteq BOOLEAN
  BY WorkingShape DEF IntegrityInv
<1>2. ValShape'
  BY <1>1 DEF ValShape, Full, Working, vars
<1>3. WhileStill'
  BY SurroundingsStay DEF IntegrityInv
<1>4. PassedWasTrue' /\ SoundFoundationPasses'
  BY DEF PassedWasTrue, SoundFoundationPasses, Working, Reading, Comparing, Probing
<1>5. QED
  BY <1>2, <1>3, <1>4, CommandKeeps DEF IntegrityInv

LEMMA IntegrityInitInv == IntegrityInit => IntegrityInv
<1>. SUFFICES ASSUME IntegrityInit PROVE IntegrityInv
  OBVIOUS
<1>1. LoadingInv
  BY LoadingInitInv DEF IntegrityInit
<1>2. val = Idle /\ val.at = "idle"
  BY DEF IntegrityInit, Idle
<1>3. QED
  BY <1>1, <1>2
     DEF IntegrityInv, ValShape, WhileStill, MatchedSoFar, CountedSoFar,
         WhileAgreed, ReaderProbed, PassedWasTrue, SoundFoundationPasses, Ended,
         Comparing, Probing

LEMMA BeginStep ==
  ASSUME IntegrityInv, Begin, UNCHANGED vars
  PROVE  IntegrityInv'
<1>. DEFINE summary == SummaryOf(processed)
            still == AtWork = {}
            matched == still => Matches(summary, db)
            agreed == still /\ Matches(summary, db) /\ FilesOf(processed) = File
<1>1. CASE summary = None
  <2>1. val' = [at |-> "aborted"] /\ val'.at = "aborted"
    BY <1>1 DEF Begin
  <2>2. QED
    BY <2>1, CommandKeeps
       DEF IntegrityInv, ValShape, WhileStill, MatchedSoFar, CountedSoFar,
           WhileAgreed, ReaderProbed, PassedWasTrue, SoundFoundationPasses, Ended,
           Comparing, Probing
<1>2. CASE summary # None
  <2>1. val' = [at |-> "raw", at_file |-> 1, summary |-> summary,
                rows |-> [f \in File |-> 0], keys |-> {}, granted |-> {},
                still |-> still, matched |-> matched, agreed |-> agreed,
                lost |-> FALSE]
    BY <1>2, Zenon DEF Begin
  <2>2. still \in BOOLEAN /\ matched \in BOOLEAN /\ agreed \in BOOLEAN
        /\ FALSE \in BOOLEAN
    BY Zenon
  <2>3. agreed => still /\ Matches(summary, db) /\ FilesOf(processed) = File
    BY Zenon
  <2>4. (still => Matches(summary, db)) => matched
    BY Zenon
  <2>5. still => \A l \in Loader : l \notin AtWork
    BY Zenon
  <2>6. /\ UNCHANGED <<processed, db, pc>>
        /\ SummaryOf(processed)' = summary /\ AtWork' = AtWork
        /\ FilesOf(processed)' = FilesOf(processed)
        /\ \A s : Matches(s, db)' <=> Matches(s, db)
    BY CommandKeeps DEF vars, SummaryOf, AtWork, FilesOf
  <2>. HIDE DEF summary, still, matched, agreed
  <2>7. /\ val'.at = "raw" /\ val'.at_file = 1 /\ val'.summary = summary
        /\ val'.rows = [f \in File |-> 0] /\ val'.granted = {}
        /\ val'.still = still /\ val'.matched = matched /\ val'.agreed = agreed
        /\ val'.lost = FALSE /\ Full(val')
    BY <2>1 DEF Full
  <2>8. ValShape'
    <3>1. 1 \in DOMAIN Order /\ UNCHANGED Order
      BY Constants
    <3>2. {val'.still, val'.matched, val'.agreed, val'.lost} \subseteq BOOLEAN
      BY <2>2, <2>7
    <3>3. QED
      BY <2>7, <3>1, <3>2 DEF ValShape, Full, Reading
  <2>9. WhileStill'
    BY <1>2, <2>5, <2>6, <2>7 DEF WhileStill, AtWork
  <2>10. MatchedSoFar' /\ CountedSoFar' /\ WhileAgreed' /\ ReaderProbed'
    BY <2>3, <2>4, <2>6, <2>7
       DEF MatchedSoFar, CountedSoFar, WhileAgreed, ReaderProbed, Comparing,
           Probing, Ended
  <2>11. PassedWasTrue' /\ SoundFoundationPasses'
    BY <2>7 DEF PassedWasTrue, SoundFoundationPasses
  <2>12. QED
    BY <2>8, <2>9, <2>10, <2>11, CommandKeeps DEF IntegrityInv
<1>3. QED
  BY <1>1, <1>2

\* A check that fails, an error, or the end.
LEMMA StopStep ==
  ASSUME IntegrityInv, UNCHANGED vars, val.at \notin Ended,
         NEW how \in {"passed", "failed", "aborted"}, NextStage(how),
         how = "passed" => val.matched /\ (~val.lost => val.granted = {}),
         how = "failed" => ~val.agreed
  PROVE  IntegrityInv'
<1>1. Full(val) /\ val.at_file \in DOMAIN Order
      /\ val.rows = [f \in File |-> val.rows[f]]
      /\ {val.still, val.matched, val.agreed, val.lost} \subseteq BOOLEAN
  BY WorkingShape DEF IntegrityInv
<1>2. Full(val') /\ val'.at = how /\ Unaffected /\ UNCHANGED val.at_file
  BY <1>1, NextStageFields
<1>3. QED
  BY <1>1, <1>2, EndStep DEF Unaffected

\* What WhileAgreed says of a moment of the comparison.
LEMMA AgreedFiles ==
  ASSUME IntegrityInv, val.at \notin Ended, val.agreed
  PROVE  \A f \in File :
           /\ f \in FilesOf(processed)
           /\ processed.files[f] = val.summary[f].processed
           /\ KeysMatch(f)
           /\ Rows(f, db[f]) = Rows(f, val.summary[f].processed)
<1>1. val.still /\ FilesOf(processed) = File /\ Matches(val.summary, db)
  BY DEF IntegrityInv, WhileAgreed
<1>2. SummaryOf(processed) # None /\ SummaryOf(processed) = val.summary
  BY <1>1 DEF IntegrityInv, WhileStill
<1>3. \A f \in File : KeysMatch(f)
  BY <1>1 DEF Matches, KeysMatch
<1>4. \A f \in File : processed.files[f] = val.summary[f].processed
  BY <1>1, <1>2, FilesAreDescribed DEF IntegrityInv, LoadingInv
<1>5. QED
  BY <1>1, <1>3, <1>4 DEF KeysMatch, Rows

\* The facts of a step that goes on, with the tables as they were.
LEMMA StillTheSame ==
  ASSUME IntegrityInv, UNCHANGED vars, UNCHANGED val.summary
  PROVE  /\ UNCHANGED <<processed, db, FilesOf(processed)>>
         /\ Matches(val.summary, db)' <=> Matches(val.summary, db)
         /\ \A f : /\ KeysMatch(f)' <=> KeysMatch(f)
                   /\ Keys(f, db[f])' = Keys(f, db[f])
                   /\ Rows(f, val.summary[f].processed)'
                        = Rows(f, val.summary[f].processed)
<1>1. UNCHANGED <<processed, db>>
  BY DEF vars
<1>2. QED
  BY <1>1 DEF FilesOf, Matches, KeysMatch, Keys, Rows

LEMMA CheckRawStep ==
  ASSUME IntegrityInv, CheckRaw, UNCHANGED vars
  PROVE  IntegrityInv'
<1>1. val.at = "raw" /\ val.at \notin Ended
  BY DEF CheckRaw, Ended
<1>2. Full(val) /\ val.at_file \in DOMAIN Order
      /\ val.rows = [f \in File |-> val.rows[f]]
      /\ {val.still, val.matched, val.agreed, val.lost} \subseteq BOOLEAN
  BY <1>1, WorkingShape DEF IntegrityInv
<1>3. CASE NextStage("processed")
  <2>1. Full(val') /\ val'.at = "processed" /\ Unaffected
        /\ UNCHANGED <<val.at_file, val.keys>>
    BY <1>2, <1>3, NextStageFields
  <2>2. MatchedSoFar' /\ CountedSoFar' /\ WhileAgreed' /\ ReaderProbed'
    BY <1>1, <1>2, <2>1, StillTheSame
       DEF IntegrityInv, MatchedSoFar, CountedSoFar, WhileAgreed, ReaderProbed,
           Unaffected, Comparing, Probing, Ended
  <2>3. val'.at \in Working
    BY <2>1 DEF Working, Reading
  <2>4. QED
    BY <1>1, <1>2, <2>1, <2>2, <2>3, AdvanceStep DEF Unaffected
<1>4. CASE val' = [val EXCEPT !.at = "failed", !.agreed = FALSE]
  <2>1. /\ Full(val') /\ val'.at = "failed" /\ val'.agreed = FALSE
        /\ UNCHANGED <<val.at_file, val.rows, val.still, val.matched, val.lost>>
    BY <1>2, <1>4 DEF Full
  <2>2. QED
    BY <1>2, <2>1, EndStep
<1>5. QED
  BY <1>3, <1>4 DEF CheckRaw

LEMMA CheckProcessedStep ==
  ASSUME IntegrityInv, CheckProcessed, UNCHANGED vars
  PROVE  IntegrityInv'
<1>. USE Constants
<1>1. val.at = "processed" /\ val.at \notin Ended
  BY DEF CheckProcessed, Ended
<1>2. Full(val) /\ val.at_file \in DOMAIN Order /\ Current \in File
      /\ val.rows = [f \in File |-> val.rows[f]]
      /\ {val.still, val.matched, val.agreed, val.lost} \subseteq BOOLEAN
  BY <1>1, WorkingShape DEF IntegrityInv
<1>3. CASE NextFile("raw", "count")
  <2>1. Full(val') /\ val'.at \in {"raw", "count"} /\ Unaffected
        /\ val'.at_file \in DOMAIN Order /\ (val'.at = "count" => val'.at_file = 1)
    BY <1>2, <1>3, NextFileFields
  <2>2. MatchedSoFar'
    <3>1. \A i \in 1..1 - 1 : FALSE
      OBVIOUS
    <3>2. QED
      BY <1>1, <2>1, <3>1, StillTheSame
         DEF IntegrityInv, MatchedSoFar, Unaffected, Comparing, Probing, Ended
  <2>3. CountedSoFar'
    BY <2>1 DEF CountedSoFar, Comparing, Probing
  <2>4. WhileAgreed' /\ ReaderProbed'
    BY <1>1, <2>1, StillTheSame
       DEF IntegrityInv, WhileAgreed, ReaderProbed, Unaffected, Ended
  <2>5. val'.at \in Working
    BY <2>1 DEF Working, Reading, Comparing
  <2>6. QED
    BY <1>1, <1>2, <2>1, <2>2, <2>3, <2>4, <2>5, AdvanceStep DEF Unaffected
<1>4. CASE Failed /\ ~(/\ Current \in FilesOf(processed)
                      /\ processed.files[Current] = val.summary[Current].processed)
  <2>1. ~val.agreed
    BY <1>1, <1>2, <1>4, AgreedFiles
  <2>2. QED
    BY <1>1, <1>4, <2>1, StopStep DEF Failed
<1>5. QED
  BY <1>3, <1>4 DEF CheckProcessed

LEMMA CountRowsStep ==
  ASSUME IntegrityInv, CountRows, UNCHANGED vars
  PROVE  IntegrityInv'
<1>. USE Constants
<1>. DEFINE count == Rows(Current, db[Current])
<1>1. val.at = "count" /\ val.at \notin Ended
  BY DEF CountRows, Ended
<1>2. Full(val) /\ val.at_file \in DOMAIN Order /\ Current \in File
      /\ val.rows = [f \in File |-> val.rows[f]]
      /\ {val.still, val.matched, val.agreed, val.lost} \subseteq BOOLEAN
  BY <1>1, WorkingShape DEF IntegrityInv
<1>3. CASE count # Rows(Current, val.summary[Current].processed)
  BY <1>1, <1>2, <1>3, AgreedFiles, StopStep DEF CountRows, Failed
<1>4. CASE count = Rows(Current, val.summary[Current].processed)
  <2>1. val' = [val EXCEPT !.at = "keys", !.rows[Current] = count]
    BY <1>4 DEF CountRows
  <2>. HIDE DEF count
  <2>2. /\ Full(val') /\ val'.at = "keys"
        /\ val'.rows = [val.rows EXCEPT ![Current] = count]
        /\ UNCHANGED <<val.at_file, val.summary, val.keys, val.granted, val.still,
                       val.matched, val.agreed, val.lost>>
    BY <1>2, <2>1 DEF Full
  <2>3. /\ val'.rows = [f \in File |-> val'.rows[f]]
        /\ val'.rows[Current] = count
        /\ \A f \in File : f # Current => val'.rows[f] = val.rows[f]
    BY <1>2, <2>2
  <2>4. MatchedSoFar'
    BY <1>1, <2>2, StillTheSame
       DEF IntegrityInv, MatchedSoFar, Comparing, Probing, Ended
  <2>5. CountedSoFar'
    <3>1. SUFFICES ASSUME NEW i \in 1..val.at_file
                   PROVE  val'.rows[Order[i]]
                            = Rows(Order[i], val.summary[Order[i]].processed)
      BY <2>2, StillTheSame DEF CountedSoFar, Probing
    <3>2. CASE Order[i] = Current
      BY <1>4, <2>3, <3>2
    <3>3. CASE Order[i] # Current
      <4>1. i \in DOMAIN Order /\ i < val.at_file
        BY <1>2, <3>3 DEF Current
      <4>2. val.rows[Order[i]] = Rows(Order[i], val.summary[Order[i]].processed)
        BY <1>1, <4>1 DEF IntegrityInv, CountedSoFar, Comparing
      <4>3. QED
        BY <2>3, <3>3, <4>1, <4>2
    <3>4. QED
      BY <3>2, <3>3
  <2>6. WhileAgreed' /\ ReaderProbed'
    BY <1>1, <2>2, StillTheSame DEF IntegrityInv, WhileAgreed, ReaderProbed, Ended
  <2>7. val'.at \in Working
    BY <2>2 DEF Working, Comparing
  <2>8. QED
    BY <1>1, <1>2, <2>2, <2>3, <2>4, <2>5, <2>6, <2>7, AdvanceStep
<1>5. QED
  BY <1>3, <1>4

LEMMA ReadKeysStep ==
  ASSUME IntegrityInv, ReadKeys, UNCHANGED vars
  PROVE  IntegrityInv'
<1>. USE Constants
<1>1. val.at = "keys" /\ val.at \notin Ended
  BY DEF ReadKeys, Ended
<1>2. Full(val) /\ val.at_file \in DOMAIN Order /\ Current \in File
      /\ val.rows = [f \in File |-> val.rows[f]]
      /\ {val.still, val.matched, val.agreed, val.lost} \subseteq BOOLEAN
  BY <1>1, WorkingShape DEF IntegrityInv
<1>3. /\ Full(val') /\ val'.at = "compare" /\ val'.keys = Keys(Current, db[Current])
      /\ Unaffected /\ UNCHANGED val.at_file
  BY <1>2 DEF ReadKeys, Full, Unaffected
<1>4. UNCHANGED Current
  BY <1>3 DEF Current
<1>5. val'.keys = Keys(Current, db[Current])'
  BY <1>3, <1>4, StillTheSame DEF Unaffected, Keys
<1>6. MatchedSoFar'
  BY <1>1, <1>3, <1>5, StillTheSame
     DEF IntegrityInv, MatchedSoFar, Unaffected, Comparing, Probing, Ended
<1>7. CountedSoFar'
  BY <1>1, <1>3, StillTheSame
     DEF IntegrityInv, CountedSoFar, Unaffected, Comparing, Probing
<1>8. WhileAgreed' /\ ReaderProbed'
  BY <1>1, <1>3, <1>5, StillTheSame
     DEF IntegrityInv, WhileAgreed, ReaderProbed, Unaffected, Ended
<1>9. val'.at \in Working
  BY <1>3 DEF Working, Comparing
<1>10. QED
  BY <1>1, <1>2, <1>3, <1>6, <1>7, <1>8, <1>9, AdvanceStep DEF Unaffected

LEMMA CompareKeysStep ==
  ASSUME IntegrityInv, CompareKeys, UNCHANGED vars
  PROVE  IntegrityInv'
<1>. USE Constants
<1>1. val.at = "compare" /\ val.at \notin Ended /\ val.at \in Comparing
  BY DEF CompareKeys, Ended, Comparing
<1>2. Full(val) /\ val.at_file \in DOMAIN Order /\ Current \in File
      /\ val.rows = [f \in File |-> val.rows[f]]
      /\ {val.still, val.matched, val.agreed, val.lost} \subseteq BOOLEAN
  BY <1>1, WorkingShape DEF IntegrityInv
<1>3. CASE ~SameKeys
  <2>1. val.agreed => SameKeys
    BY <1>1, <1>2, AgreedFiles DEF IntegrityInv, WhileAgreed, SameKeys, KeysMatch
  <2>2. QED
    BY <1>1, <1>3, <2>1, StopStep DEF CompareKeys, Failed
<1>4. CASE SameKeys
  <2>1. /\ Full(val') /\ Unaffected
        /\ \/ /\ val.at_file < Len(Order) /\ val'.at = "count"
              /\ val'.at_file = val.at_file + 1
           \/ /\ val.at_file = Len(Order) /\ val'.at = "joins"
              /\ val'.at_file = 1
    BY <1>2, <1>4, NextFileFields DEF CompareKeys
  <2>2. ~val.matched => \A i \in 1..val.at_file : KeysMatch(Order[i])
    <3>1. SUFFICES ASSUME ~val.matched
                   PROVE  \A i \in 1..val.at_file : KeysMatch(Order[i])
      OBVIOUS
    <3>2. val.still
      BY <1>1, <3>1 DEF IntegrityInv, MatchedSoFar
    <3>3. SummaryOf(processed) # None /\ SummaryOf(processed) = val.summary
      BY <1>1, <3>2 DEF IntegrityInv, WhileStill
    <3>4. processed.files[Current] = val.summary[Current].processed
      BY <1>4, <3>3, FilesAreDescribed DEF IntegrityInv, LoadingInv, SameKeys
    <3>5. KeysMatch(Current)
      BY <1>1, <1>4, <3>1, <3>4 DEF IntegrityInv, MatchedSoFar, SameKeys, KeysMatch
    <3>6. \A i \in 1..val.at_file - 1 : KeysMatch(Order[i])
      BY <1>1, <3>1 DEF IntegrityInv, MatchedSoFar
    <3>7. \A i \in 1..val.at_file : i \in 1..val.at_file - 1 \/ i = val.at_file
      BY <1>2
    <3>8. QED
      BY <3>5, <3>6, <3>7 DEF Current
  <2>3. val.at_file = Len(Order) => val.matched
    <3>1. SUFFICES ASSUME val.at_file = Len(Order), ~val.matched
                   PROVE  FALSE
      BY <1>2
    <3>2. Matches(val.summary, db)
      BY <2>2, <3>1 DEF Matches, KeysMatch
    <3>3. QED
      BY <1>1, <3>1, <3>2 DEF IntegrityInv, MatchedSoFar
  <2>4. MatchedSoFar'
    <3>1. val'.at # "compare"
      BY <2>1
    <3>2. (val.still => Matches(val.summary, db)) => val.matched
      BY <1>1 DEF IntegrityInv, MatchedSoFar
    <3>3. val'.at = "count" => val'.at_file - 1 = val.at_file
      BY <1>2, <2>1
    <3>4. QED
      BY <2>1, <2>2, <2>3, <3>1, <3>2, <3>3, StillTheSame
         DEF MatchedSoFar, Unaffected, Comparing, Probing
  <2>5. CountedSoFar'
    <3>1. \A i \in 1..val.at_file :
            val.rows[Order[i]] = Rows(Order[i], val.summary[Order[i]].processed)
      BY <1>1 DEF IntegrityInv, CountedSoFar
    <3>2. CASE val'.at = "count"
      <4>1. \A i \in 1..val'.at_file : i < val'.at_file => i \in 1..val.at_file
        BY <1>2, <2>1, <3>2
      <4>2. QED
        BY <2>1, <3>1, <3>2, <4>1, StillTheSame
           DEF CountedSoFar, Unaffected, Comparing, Probing
    <3>3. CASE val'.at = "joins"
      <4>1. \A f \in File : val.rows[f] = Rows(f, val.summary[f].processed)
        BY <2>1, <3>1, <3>3
      <4>2. QED
        BY <2>1, <3>3, <4>1, StillTheSame
           DEF CountedSoFar, Unaffected, Comparing, Probing
    <3>4. QED
      BY <2>1, <3>2, <3>3
  <2>6. WhileAgreed' /\ ReaderProbed'
    BY <1>1, <2>1, StillTheSame
       DEF IntegrityInv, WhileAgreed, ReaderProbed, Unaffected, Ended
  <2>7. val'.at \in Working /\ val'.at_file \in DOMAIN Order
    BY <1>2, <2>1 DEF Working, Comparing, Probing
  <2>8. QED
    BY <1>1, <1>2, <2>1, <2>4, <2>5, <2>6, <2>7, AdvanceStep DEF Unaffected
<1>5. QED
  BY <1>3, <1>4

\* A step from a probe to the next.
LEMMA ProbeStep ==
  ASSUME IntegrityInv, UNCHANGED vars, val.at \in {"joins", "reader"},
         NEW next \in {"reader", "privileges"}, NextStage(next)
  PROVE  IntegrityInv'
<1>1. val.at \notin Ended /\ val.at \in Probing
  BY DEF Ended, Probing
<1>2. Full(val) /\ val.at_file \in DOMAIN Order
      /\ val.rows = [f \in File |-> val.rows[f]]
      /\ {val.still, val.matched, val.agreed, val.lost} \subseteq BOOLEAN
  BY <1>1, WorkingShape DEF IntegrityInv
<1>3. Full(val') /\ val'.at = next /\ Unaffected
      /\ UNCHANGED <<val.at_file, val.keys>>
  BY <1>2, NextStageFields
<1>4. MatchedSoFar' /\ CountedSoFar'
  BY <1>1, <1>3, StillTheSame
     DEF IntegrityInv, MatchedSoFar, CountedSoFar, Unaffected, Comparing, Probing
<1>5. WhileAgreed' /\ ReaderProbed'
  BY <1>1, <1>3, StillTheSame
     DEF IntegrityInv, WhileAgreed, ReaderProbed, Unaffected, Ended
<1>6. val'.at \in Working
  BY <1>3 DEF Working, Probing
<1>7. QED
  BY <1>1, <1>2, <1>3, <1>4, <1>5, <1>6, AdvanceStep DEF Unaffected

\* In a foundation in order every table has the rows that were counted.
LEMMA AgreedRows ==
  ASSUME IntegrityInv, val.at \in Probing, val.agreed
  PROVE  \A f \in File : Rows(f, db[f]) = val.rows[f]
<1>1. val.at \notin Ended
  BY DEF Probing, Ended
<1>2. QED
  BY <1>1, AgreedFiles DEF IntegrityInv, CountedSoFar

LEMMA CheckJoinsStep ==
  ASSUME IntegrityInv, CheckJoins \/ ReaderJoins, UNCHANGED vars
  PROVE  IntegrityInv'
<1>1. val.at \in {"joins", "reader"} /\ val.at \notin Ended /\ val.at \in Probing
  BY DEF CheckJoins, ReaderJoins, Ended, Probing
<1>2. CASE NextStage("reader") \/ NextStage("privileges")
  BY <1>1, <1>2, ProbeStep
<1>3. CASE /\ Failed
           /\ ~NoRowsLost \/ Rows(Joined, db[Joined]) # val.rows[Joined]
  <2>1. ~val.agreed
    BY <1>1, <1>3, AgreedRows, IntegrityAssumption DEF NoRowsLost
  <2>2. QED
    BY <1>1, <1>3, <2>1, StopStep DEF Failed
<1>4. QED
  BY <1>2, <1>3 DEF CheckJoins, ReaderJoins

LEMMA ReaderPrivilegesStep ==
  ASSUME IntegrityInv, ReaderPrivileges, UNCHANGED vars
  PROVE  IntegrityInv'
<1>1. val.at = "privileges" /\ val.at \notin Ended /\ val.at \in Probing
  BY DEF ReaderPrivileges, Ended, Probing
<1>2. Full(val) /\ val.at_file \in DOMAIN Order
      /\ val.rows = [f \in File |-> val.rows[f]]
      /\ {val.still, val.matched, val.agreed, val.lost} \subseteq BOOLEAN
  BY <1>1, WorkingShape DEF IntegrityInv
<1>3. PICK granted \in SUBSET {"accounts", "addresses"} :
        val' = [val EXCEPT
          !.at = IF NoMutationPrivileges(granted) THEN "update" ELSE "failed",
          !.granted = granted, !.agreed = @ /\ granted = {}]
  BY DEF ReaderPrivileges
<1>. DEFINE stage == IF NoMutationPrivileges(granted) THEN "update" ELSE "failed"
            agreed == val.agreed /\ granted = {}
<1>4. agreed \in BOOLEAN /\ (agreed => val.agreed /\ granted = {})
  BY Zenon
<1>5. \/ stage = "update" /\ "accounts" \notin granted
      \/ stage = "failed" /\ "accounts" \in granted
  BY DEF NoMutationPrivileges
<1>6. val' = [val EXCEPT !.at = stage, !.granted = granted, !.agreed = agreed]
  BY <1>3
<1>. HIDE DEF stage, agreed
<1>7. /\ Full(val') /\ val'.at = stage /\ val'.granted = granted
      /\ val'.agreed = agreed
      /\ UNCHANGED <<val.at_file, val.summary, val.rows, val.still, val.matched,
                     val.lost>>
  BY <1>2, <1>6 DEF Full
<1>8. CASE stage = "failed"
  <2>1. ~agreed
    BY <1>4, <1>5, <1>8
  <2>2. QED
    BY <1>2, <1>4, <1>7, <1>8, <2>1, EndStep
<1>9. CASE stage = "update"
  <2>1. granted \subseteq {"addresses"}
    BY <1>5, <1>9
  <2>2. MatchedSoFar' /\ CountedSoFar'
    BY <1>1, <1>7, <1>9, StillTheSame
       DEF IntegrityInv, MatchedSoFar, CountedSoFar, Comparing, Probing
  <2>3. WhileAgreed'
    BY <1>1, <1>4, <1>7, <1>9, StillTheSame DEF IntegrityInv, WhileAgreed
  <2>4. ReaderProbed'
    BY <1>1, <1>7, <1>9, <2>1 DEF IntegrityInv, ReaderProbed
  <2>5. val'.at \in Working
    BY <1>7, <1>9 DEF Working, Probing
  <2>6. QED
    BY <1>1, <1>2, <1>4, <1>7, <2>2, <2>3, <2>4, <2>5, AdvanceStep
<1>10. QED
  BY <1>5, <1>8, <1>9

LEMMA ReaderUpdatesStep ==
  ASSUME IntegrityInv, ReaderUpdates, UNCHANGED vars
  PROVE  IntegrityInv'
<1>1. val.at = "update" /\ val.at \notin Ended /\ val.at \in Probing
  BY DEF ReaderUpdates, Ended, Probing
<1>2. Full(val) /\ val.at_file \in DOMAIN Order
      /\ val.rows = [f \in File |-> val.rows[f]]
      /\ {val.still, val.matched, val.agreed, val.lost} \subseteq BOOLEAN
  BY <1>1, WorkingShape DEF IntegrityInv
<1>3. val.matched /\ val.granted \subseteq {"addresses"}
      /\ (val.agreed => val.granted = {})
  BY <1>1 DEF IntegrityInv, MatchedSoFar, ReaderProbed, WhileAgreed
<1>4. CASE Failed /\ "addresses" \in val.granted
  BY <1>1, <1>3, <1>4, StopStep DEF Failed
<1>5. CASE Passed /\ "addresses" \notin val.granted
  BY <1>1, <1>3, <1>5, StopStep DEF Passed
<1>6. CASE val' = [val EXCEPT !.at = "passed", !.lost = TRUE]
  <2>1. /\ Full(val') /\ val'.at = "passed" /\ val'.lost = TRUE
        /\ UNCHANGED <<val.at_file, val.rows, val.still, val.matched, val.agreed>>
    BY <1>2, <1>6 DEF Full
  <2>2. QED
    BY <1>2, <1>3, <2>1, EndStep
<1>7. QED
  BY <1>4, <1>5, <1>6 DEF ReaderUpdates

LEMMA CommandStep ==
  ASSUME IntegrityInv, Command
  PROVE  IntegrityInv'
<1>1. ASSUME Abort, UNCHANGED vars
      PROVE  IntegrityInv'
  BY <1>1, StopStep DEF Abort
<1>2. QED
  BY <1>1, BeginStep, CheckRawStep, CheckProcessedStep, CountRowsStep,
     ReadKeysStep, CompareKeysStep, CheckJoinsStep, ReaderPrivilegesStep,
     ReaderUpdatesStep
     DEF Command

\* What a loader has taken from the directory is what the manifest describes.
Takes(l, summary) ==
  /\ \A f \in File : inserted[l][f] # None => inserted[l][f] = summary[f].processed
  /\ pc[l] \in InHand => opened[l] = summary[Table(l)].processed

\* The loaders go on taking from a directory that does not change.
LEMMA LoadersTakeOn ==
  ASSUME LoadingInv, Next, UNCHANGED processed, SummaryOf(processed) # None,
         NEW l \in AtWork', l \in AtWork => Takes(l, SummaryOf(processed))
  PROVE  Takes(l, SummaryOf(processed))'
<1>. USE Constants DEF InHand
<1>. DEFINE summary == SummaryOf(processed)
<1>1. UNCHANGED summary
  BY DEF SummaryOf
<1>2. LoadingTypeOK /\ LoadingTypeOK' /\ DirectoryHolds /\ Progress(l) /\ l \in Loader
      /\ (l \in AtWork <=> pc[l] \notin Stopped) /\ pc'[l] \notin Stopped
  BY LoadingNextInv DEF LoadingInv, AtWork
<1>3. \A f \in FilesOf(processed) : processed.files[f] = summary[f].processed
  BY <1>2, FilesAreDescribed
<1>. HIDE DEF summary
<1>4. ASSUME UNCHANGED <<pc, at, opened, inserted>>
      PROVE  Takes(l, summary)'
  <2>1. UNCHANGED Table(l)
    BY <1>4 DEF Table
  <2>2. QED
    BY <1>1, <1>2, <1>4, <2>1 DEF Takes, summary
<1>5. ASSUME NEW q \in Loader \ {l}, OthersStay(q)
      PROVE  Takes(l, summary)'
  <2>1. pc'[l] = pc[l] /\ at'[l] = at[l] /\ opened'[l] = opened[l]
        /\ inserted'[l] = inserted[l]
    BY <1>2, <1>5 DEF OthersStay
  <2>2. UNCHANGED Table(l)
    BY <2>1 DEF Table
  <2>3. QED
    BY <1>1, <1>2, <2>1, <2>2 DEF Takes, summary
<1>6. ASSUME NEW how \in Stopped, Rollback(l, how)
      PROVE  FALSE
  BY <1>2, <1>6 DEF Rollback, Goto, LoadingTypeOK
<1>7. CASE Start(l)
  <2>1. pc'[l] = "check" /\ inserted'[l] = NoRows
    BY <1>2, <1>6, <1>7 DEF Start, Goto, Progress, txVars, LoadingTypeOK, Stopped
  <2>2. QED
    BY <2>1, NoRowsType DEF Takes
<1>8. CASE Check(l)
  <2>1. pc'[l] \in {"delete", "hash"} /\ UNCHANGED inserted
    BY <1>2, <1>6, <1>8 DEF Check, Goto, txVars, LoadingTypeOK, Stopped
  <2>2. pc[l] = "check"
    BY <1>8 DEF Check
  <2>3. QED
    BY <1>1, <1>2, <2>1, <2>2 DEF Takes, summary, Stopped
<1>9. CASE SnapshotRows(l) \/ Delete(l) \/ CheckReferences(l)
  <2>1. /\ pc'[l] \in {"delete", "deleting", "references", "hash"}
        /\ UNCHANGED inserted
    BY <1>2, <1>6, <1>9
       DEF SnapshotRows, Delete, CheckReferences, NextDelete, Goto, locals, txVars,
           LoadingTypeOK, Stopped
  <2>2. pc[l] \in {"delete", "deleting", "references"}
    BY <1>9 DEF SnapshotRows, Delete, CheckReferences
  <2>3. QED
    BY <1>1, <1>2, <2>1, <2>2 DEF Takes, summary, Stopped
<1>10. CASE Hash(l) \/ Open(l)
  <2>1. /\ Table(l) \in FilesOf(processed)
        /\ opened' = [opened EXCEPT ![l] = processed.files[Table(l)]]
        /\ UNCHANGED <<at, inserted>>
    BY <1>6, <1>10 DEF Hash, Open, HashMatches, txVars, Stopped
  <2>2. opened'[l] = summary[Table(l)].processed /\ UNCHANGED Table(l)
    BY <1>2, <1>3, <2>1 DEF Table, LoadingTypeOK
  <2>3. pc[l] \in {"hash", "open"}
    BY <1>10 DEF Hash, Open
  <2>4. QED
    BY <1>1, <1>2, <2>1, <2>2, <2>3 DEF Takes, summary, Stopped
<1>11. CASE Insert(l)
  <2>1. CASE pc[l] = "insert"
    <3>1. UNCHANGED <<at, opened, inserted>>
      BY <1>6, <1>11, <2>1 DEF Insert, locals, txVars, Stopped
    <3>2. UNCHANGED Table(l)
      BY <3>1 DEF Table
    <3>3. QED
      BY <1>1, <1>2, <2>1, <3>1, <3>2 DEF Takes, summary, Stopped
  <2>2. CASE pc[l] = "inserting"
    <3>1. /\ pc'[l] \in {"hash", "commit"}
          /\ inserted' = [inserted EXCEPT ![l][Table(l)] = opened[l]]
      BY <1>2, <1>6, <1>11, <2>2 DEF Insert, Goto, LoadingTypeOK, Stopped
    <3>2. Table(l) \in File
      BY <1>2 DEF Table, LoadingTypeOK
    <3>3. /\ inserted'[l][Table(l)] = opened[l]
          /\ \A f \in File : f # Table(l) => inserted'[l][f] = inserted[l][f]
      BY <1>2, <3>1, <3>2 DEF LoadingTypeOK
    <3>4. QED
      BY <1>1, <1>2, <2>2, <3>1, <3>2, <3>3 DEF Takes, summary, Stopped
  <2>3. QED
    BY <1>11, <2>1, <2>2 DEF Insert
<1>12. CASE Commit(l) \/ Die(l)
  BY <1>2, <1>6, <1>12 DEF Commit, Die, Goto, LoadingTypeOK, Stopped
<1>13. ASSUME NEW q \in Loader, StepOf(q)
       PROVE  OthersStay(q)
  BY <1>2, <1>13, StepsOfOne DEF LoadingInv
<1>14. QED
  BY <1>4, <1>5, <1>7, <1>8, <1>9, <1>10, <1>11, <1>12, <1>13
     DEF Next, Load, StepOf, Clean, locals, txVars, summary

\* While the directory has not changed, no load can make the tables differ
\* from what the command compares them with.
LEMMA TablesStayOrMatch ==
  ASSUME IntegrityInv, Next, val.at \notin Ended, val.still
  PROVE  db' = db \/ Matches(val.summary, db')
<1>1. SUFFICES ASSUME db' # db
               PROVE  Matches(val.summary, db')
  OBVIOUS
<1>2. PICK l \in Loader : Commit(l)
  BY <1>1
     DEF Next, Load, Clean, Start, Check, SnapshotRows, Delete, CheckReferences, Hash,
         Open, Insert, Die, Rollback, txVars, locals
<1>3. /\ pc[l] = "commit" /\ db' = inserted[l]
      /\ \A f \in File : inserted[l][f] # None
  BY <1>2, WrittenIsInserted DEF Commit, IntegrityInv
<1>4. l \in AtWork
  BY <1>3 DEF AtWork, Stopped
<1>5. \A f \in File : db'[f] = val.summary[f].processed
  BY <1>3, <1>4 DEF IntegrityInv, WhileStill
<1>6. QED
  BY <1>5 DEF Matches

LEMMA OthersStep ==
  ASSUME IntegrityInv, Others
  PROVE  IntegrityInv'
<1>1. LoadingInv' /\ Next
  BY LoadingNextInv DEF Others, IntegrityInv
<1>2. CASE val.at \in Ended
  <2>1. val' = Idle /\ val'.at = "idle"
    BY <1>2 DEF Others, Idle
  <2>2. QED
    BY <1>1, <2>1
       DEF IntegrityInv, ValShape, WhileStill, MatchedSoFar, CountedSoFar,
           WhileAgreed, ReaderProbed, PassedWasTrue, SoundFoundationPasses, Ended,
           Comparing, Probing
<1>3. CASE val.at \notin Ended
  <2>. DEFINE still == val.still /\ processed' = processed
              agreed == val.agreed /\ still
              matched == still => val.matched \/ Matches(val.summary, db')
  <2>1. val' = [val EXCEPT !.still = still, !.agreed = agreed, !.matched = matched]
    BY <1>3, Zenon DEF Others
  <2>2. still \in BOOLEAN /\ agreed \in BOOLEAN /\ matched \in BOOLEAN
    BY Zenon
  <2>3. /\ still => val.still /\ processed' = processed
        /\ agreed => val.agreed /\ still
        /\ ~still => matched
        /\ still => (matched <=> val.matched \/ Matches(val.summary, db'))
    BY Zenon
  <2>. HIDE DEF still, agreed, matched
  <2>4. Full(val) /\ val.at_file \in DOMAIN Order /\ val.at \in Working
        /\ val.rows = [f \in File |-> val.rows[f]] /\ Current \in File
        /\ {val.still, val.matched, val.agreed, val.lost} \subseteq BOOLEAN
    BY <1>3, WorkingShape DEF IntegrityInv
  <2>5. /\ Full(val') /\ val'.still = still /\ val'.agreed = agreed
        /\ val'.matched = matched
        /\ UNCHANGED <<val.at, val.at_file, val.summary, val.rows, val.keys,
                       val.granted, val.lost>>
    BY <2>1, <2>4 DEF Full
  <2>6. \A s : Matches(s, db)' <=> Matches(s, db')
    BY DEF Matches
  <2>7. ValShape'
    BY <2>2, <2>4, <2>5 DEF ValShape, Full, Working
  <2>8. WhileStill'
    <3>1. SUFFICES ASSUME still
                   PROVE  /\ SummaryOf(processed)' # None
                          /\ SummaryOf(processed)' = val.summary
                          /\ \A l \in AtWork' : Takes(l, val.summary)'
      BY <1>3, <2>5 DEF WhileStill, Takes
    <3>2. /\ UNCHANGED processed /\ val.still
          /\ SummaryOf(processed) # None /\ SummaryOf(processed) = val.summary
          /\ \A l \in AtWork : Takes(l, val.summary)
      BY <1>3, <2>3, <3>1 DEF IntegrityInv, WhileStill, Takes
    <3>3. SummaryOf(processed)' = val.summary
      BY <3>2 DEF SummaryOf
    <3>4. \A l \in AtWork' : Takes(l, SummaryOf(processed))'
      BY <1>1, <3>2, LoadersTakeOn DEF IntegrityInv
    <3>5. QED
      BY <2>5, <3>2, <3>3, <3>4 DEF Takes
  <2>9. still => db' = db \/ Matches(val.summary, db')
    BY <1>1, <1>3, <2>3, TablesStayOrMatch
  <2>10. MatchedSoFar'
    <3>1. (still => Matches(val.summary, db')) => matched
      BY <2>3
    <3>2. ~matched => ~val.matched /\ db' = db
      BY <2>3, <2>9
    <3>3. val.matched => matched
      BY <2>3
    <3>4. MatchedSoFar
      BY DEF IntegrityInv
    <3>5. db' = db => /\ \A f : KeysMatch(f)' <=> KeysMatch(f)
                      /\ Keys(Current, db[Current])' = Keys(Current, db[Current])
      BY <2>5 DEF KeysMatch, Keys, Current
    <3>6. QED
      BY <2>5, <2>6, <3>1, <3>2, <3>3, <3>4, <3>5
         DEF MatchedSoFar, Comparing, Probing, Ended
  <2>11. CountedSoFar'
    <3>1. CountedSoFar
      BY DEF IntegrityInv
    <3>2. QED
      BY <2>5, <3>1 DEF CountedSoFar, Rows, Keys
  <2>12. WhileAgreed'
    <3>1. SUFFICES ASSUME agreed
                   PROVE  /\ still /\ FilesOf(processed)' = File
                          /\ Matches(val.summary, db')
                          /\ val.at = "compare" =>
                               val.keys = Keys(Current, db'[Current])
                          /\ val.granted = {}
      <4>1. UNCHANGED Current
        BY <2>5 DEF Current
      <4>2. QED
        BY <2>5, <2>6, <3>1, <4>1 DEF WhileAgreed, Keys
    <3>2. /\ still /\ processed' = processed
          /\ FilesOf(processed) = File /\ Matches(val.summary, db)
          /\ val.at = "compare" => val.keys = Keys(Current, db[Current])
          /\ val.granted = {}
      BY <1>3, <2>3, <3>1 DEF IntegrityInv, WhileAgreed
    <3>3. Matches(val.summary, db')
      BY <2>9, <3>2
    <3>4. Keys(Current, db'[Current]) = Keys(Current, db[Current])
      BY <2>4, <3>2, <3>3 DEF Matches
    <3>5. FilesOf(processed)' = File
      BY <3>2 DEF FilesOf
    <3>6. QED
      BY <3>2, <3>3, <3>4, <3>5
  <2>13. ReaderProbed'
    BY <1>3, <2>5 DEF IntegrityInv, ReaderProbed
  <2>14. PassedWasTrue' /\ SoundFoundationPasses'
    BY <1>3, <2>5 DEF PassedWasTrue, SoundFoundationPasses, Ended
  <2>15. QED
    BY <1>1, <2>7, <2>8, <2>10, <2>11, <2>12, <2>13, <2>14 DEF IntegrityInv
<1>4. QED
  BY <1>2, <1>3

LEMMA IntegrityNextInv == IntegrityInv /\ [IntegrityNext]_allVars => IntegrityInv'
<1>1. ASSUME IntegrityInv, UNCHANGED allVars
      PROVE  IntegrityInv'
  <2>1. UNCHANGED <<vars, val>>
    BY <1>1 DEF allVars
  <2>2. LoadingInv'
    BY <1>1, <2>1, LoadingNextInv DEF IntegrityInv
  <2>3. UNCHANGED <<processed, db, FilesOf(processed), Current>>
    BY <2>1 DEF vars, FilesOf, Current
  <2>4. (val.at \notin Ended => WhileStill') /\ (val.at \in Ended => WhileStill')
    BY <1>1, <2>1, SurroundingsStay DEF IntegrityInv, WhileStill
  <2>5. /\ ValShape' /\ MatchedSoFar' /\ CountedSoFar' /\ WhileAgreed'
        /\ ReaderProbed' /\ PassedWasTrue' /\ SoundFoundationPasses'
    BY <1>1, <2>1, <2>3
       DEF IntegrityInv, ValShape, MatchedSoFar, CountedSoFar, WhileAgreed,
           ReaderProbed, PassedWasTrue, SoundFoundationPasses, Matches, KeysMatch,
           Keys, Rows
  <2>6. QED
    BY <2>2, <2>4, <2>5 DEF IntegrityInv
<1>2. QED
  BY <1>1, CommandStep, OthersStep DEF IntegrityNext

LEMMA IntegrityInvariant == IntegritySpec => []IntegrityInv
BY IntegrityInitInv, IntegrityNextInv, PTL DEF IntegritySpec

\* A validation that passed was right: at a moment since it began the tables
\* had the keys of the manifest, and the reader could not change what was
\* probed (validate_data_foundation).
THEOREM PassedIsTrue == IntegritySpec => []PassedWasTrue
<1>1. IntegrityInv => PassedWasTrue
  BY DEF IntegrityInv
<1>2. QED
  BY <1>1, IntegrityInvariant, PTL

\* A foundation in order is not refused, also when the same directory is
\* loaded again meanwhile (validate_data_foundation).
THEOREM SoundIsNotRefused == IntegritySpec => []SoundFoundationPasses
<1>1. IntegrityInv => SoundFoundationPasses
  BY DEF IntegrityInv
<1>2. QED
  BY <1>1, IntegrityInvariant, PTL

\* What holds of the loaders holds of them next to the command.
THEOREM LoadingGoesOn ==
  IntegritySpec => Spec /\ []CommittedIsOneDataset /\ []CirclesHaveACause
                        /\ OnlyReplaceOverwrites /\ DoomedLoadsFail
<1>1. IntegrityInit => Init
  BY DEF IntegrityInit
<1>2. IntegritySpec => Spec
  BY <1>1, LoadersAmongOthers, PTL DEF IntegritySpec, Spec
<1>3. QED
  BY <1>2, OneDataset, CircleHasACause, ReplacedOnRequest, PassedOverIsFatal
=============================================================================
