--------------------------- MODULE CleaningProofs ---------------------------
(***************************************************************************)
(* Cleaning's properties and its refinement of ProcessedDirectory, for any *)
(* files, foreign keys and number of edits.                                *)
(*                                                                         *)
(* The two rounds of hashes need an argument about time: what is read of a *)
(* file lies between its two hashes (ReadBetweenHashes), and so does one   *)
(* state of all the raw files, the one between the rounds                  *)
(* (MomentBetweenRounds).  A version never comes back (RawHistory), so     *)
(* equal hashes leave room for that one state only.                        *)
(***************************************************************************)
EXTENDS Cleaning, TLAPS, FiniteSetTheorems

\* What the constants are.
LEMMA Constants ==
  /\ Order \in Seq(File) /\ Len(Order) \in Nat \ {0}
  /\ DOMAIN Order = 1..Len(Order)
  /\ \A i \in DOMAIN Order : Order[i] \in File
  /\ {Order[i] : i \in DOMAIN Order} = File
  /\ File # {}
  /\ MaxEdits \in Nat
<1>1. Order \in Seq(File) /\ Order # <<>> /\ MaxEdits \in Nat
      /\ {Order[i] : i \in DOMAIN Order} = File
  BY CleaningAssumption
<1>2. Len(Order) \in Nat \ {0} /\ DOMAIN Order = 1..Len(Order)
  BY <1>1
<1>3. QED
  BY <1>1, <1>2

\* The initial states satisfy the invariant.
LEMMA InitInv == Init => CleaningInv
<1>. SUFFICES ASSUME Init PROVE CleaningInv
  OBVIOUS
<1>. USE Constants DEF Init, NoHashes, Stopped
<1>1. RawHistory
  <2>1. IsFiniteSet(states) /\ Cardinality(states) = 1
    BY FS_Singleton
  <2>2. raw \in [File -> 1..MaxEdits + 1] /\ \A f \in File : raw[f] = 1
    OBVIOUS
  <2>3. raw \in states /\ \A state \in states : state = raw
    OBVIOUS
  <2>. HIDE DEF Init
  <2>4. QED
    BY <2>1, <2>2, <2>3 DEF RawHistory
<1>2. ReadBetweenHashes
  BY DEF ReadBetweenHashes, Version
<1>3. OutputDirectory
  BY DEF OutputDirectory
<1>4. PublishedFromOneRawState
  BY DEF PublishedFromOneRawState, Complete, FilesOf, SummaryOf
<1>5. QED
  BY <1>1, <1>2, <1>3, <1>4
     DEF CleaningInv, MomentBetweenRounds, VerifiedState, FailureKeepsOutput

LEMMA VersionsAreNumbers ==
  ASSUME NEW version \in [File -> 1..MaxEdits + 1], NEW f \in File
  PROVE  version[f] \in Nat
<1>1. MaxEdits \in Nat
  BY Constants
<1>2. QED
  BY <1>1

\* An edit: the new state is ahead of every earlier one.
LEMMA EditStep ==
  ASSUME CleaningInv, NEW f \in File, Edit(f)
  PROVE  CleaningInv'
<1>1. /\ raw \in [File -> 1..MaxEdits + 1]
      /\ Cardinality(states) <= MaxEdits
      /\ IsFiniteSet(states) /\ Cardinality(states) \in Nat
      /\ \A g \in File : raw[g] <= Cardinality(states)
      /\ raw' = [raw EXCEPT ![f] = raw[f] + 1] /\ states' = states \cup {raw'}
  BY FS_CardinalityType DEF CleaningInv, RawHistory, Edit
<1>2. /\ raw' \in [File -> 1..MaxEdits + 1] /\ raw'[f] = raw[f] + 1
      /\ \A g \in File : /\ raw[g] \in Nat /\ raw'[g] \in Nat
                        /\ raw[g] <= raw'[g]
                        /\ raw'[g] <= Cardinality(states) + 1
  <2>1. MaxEdits \in Nat
    BY Constants
  <2>2. \A g \in File : raw[g] \in Nat /\ 1 <= raw[g]
    BY <1>1, <2>1
  <2>3. /\ raw'[f] = raw[f] + 1
        /\ \A g \in File : raw'[g] = raw[g] \/ raw'[g] = raw[g] + 1
        /\ raw' = [g \in File |-> raw'[g]]
    BY <1>1
  <2>4. ASSUME NEW g \in File
        PROVE  /\ raw'[g] \in Nat /\ raw[g] <= raw'[g] /\ 1 <= raw'[g]
               /\ raw'[g] <= Cardinality(states) + 1 /\ raw'[g] <= MaxEdits + 1
    <3>1. /\ raw[g] \in Nat /\ 1 <= raw[g] /\ raw[g] <= Cardinality(states)
          /\ raw'[g] = raw[g] \/ raw'[g] = raw[g] + 1
          /\ Cardinality(states) \in Nat /\ Cardinality(states) <= MaxEdits
      BY <1>1, <2>2, <2>3
    <3>2. QED
      BY <2>1, <3>1
  <2>5. raw' \in [File -> 1..MaxEdits + 1]
    BY <2>1, <2>3, <2>4
  <2>6. QED
    BY <2>2, <2>3, <2>4, <2>5
<1>3. raw' \notin states
  <2>1. \A state \in states : state[f] <= raw[f]
    BY DEF CleaningInv, RawHistory
  <2>2. raw[f] \in Nat /\ ~(raw[f] + 1 <= raw[f])
    BY <1>2
  <2>3. QED
    BY <1>2, <2>1, <2>2
<1>4. IsFiniteSet(states') /\ Cardinality(states') = Cardinality(states) + 1
  BY <1>1, <1>3, FS_AddElement
<1>5. RawHistory'
  <2>1. ASSUME NEW state \in states, NEW g \in File
        PROVE  /\ state \in [File -> 1..MaxEdits + 1]
               /\ state[g] <= raw'[g]
    <3>1. state \in [File -> 1..MaxEdits + 1] /\ state[g] <= raw[g]
      BY DEF CleaningInv, RawHistory
    <3>2. state[g] \in Nat
      BY <3>1, VersionsAreNumbers
    <3>3. raw[g] \in Nat /\ raw'[g] \in Nat /\ raw[g] <= raw'[g]
      BY <1>2
    <3>4. QED
      BY <3>1, <3>2, <3>3
  <2>2. raw' \in states' /\ Cardinality(states') <= MaxEdits + 1
    <3>1. MaxEdits \in Nat
      BY Constants
    <3>2. QED
      BY <1>1, <1>4, <3>1
  <2>3. \A g \in File : raw'[g] <= raw'[g]
    BY <1>2
  <2>4. \A state \in states' :
          /\ state \in [File -> 1..MaxEdits + 1]
          /\ \A g \in File : state[g] <= raw'[g]
    BY <1>1, <1>2, <2>1, <2>3
  <2>5. \A g \in File : raw'[g] <= Cardinality(states')
    BY <1>2, <1>4
  <2>6. QED
    BY <1>2, <1>4, <2>2, <2>4, <2>5 DEF RawHistory
<1>. USE DEF CleaningInv, Edit, locals
<1>6. ReadBetweenHashes'
  <2>1. \A g \in File : raw[g] \in Nat /\ raw'[g] \in Nat /\ raw[g] <= raw'[g]
    BY <1>2
  <2>2. before \in Version /\ read \in Version /\ source \in Version
    BY DEF ReadBetweenHashes
  <2>3. ASSUME NEW g \in File
        PROVE  before[g] <= raw'[g] /\ read[g] <= raw'[g] /\ source[g] <= raw'[g]
    <3>1. before[g] <= raw[g] /\ read[g] <= raw[g] /\ source[g] <= raw[g]
      BY DEF ReadBetweenHashes
    <3>2. before[g] \in Nat /\ read[g] \in Nat /\ source[g] \in Nat
      BY <2>2 DEF Version
    <3>3. raw[g] \in Nat /\ raw'[g] \in Nat /\ raw[g] <= raw'[g]
      BY <2>1
    <3>. HIDE DEF Edit, CleaningInv
    <3>4. QED
      BY <3>1, <3>2, <3>3
  <2>4. UNCHANGED <<pc, at, before, read, source, after>>
    OBVIOUS
  <2>. HIDE DEF Edit
  <2>5. QED
    BY <2>2, <2>3, <2>4
       DEF ReadBetweenHashes, Version, HasRead, HasSource, HashedAfter, Passed
<1>7. MomentBetweenRounds'
  BY DEF MomentBetweenRounds, HashedAfter, Passed
<1>8. VerifiedState' /\ OutputDirectory'
  BY DEF VerifiedState, OutputDirectory, Complete, FilesOf, SummaryOf
<1>9. PublishedFromOneRawState' /\ FailureKeepsOutput'
  BY DEF PublishedFromOneRawState, FailureKeepsOutput, Complete, FilesOf,
         SummaryOf
<1>10. QED
  BY <1>5, <1>6, <1>7, <1>8, <1>9

\* Whatever leaves the raw files and the directory alone.
LEMMA Still ==
  ASSUME CleaningInv, UNCHANGED <<processed, rawVars>>
  PROVE  RawHistory' /\ PublishedFromOneRawState'
BY DEF CleaningInv, rawVars, RawHistory, PublishedFromOneRawState, Complete,
       FilesOf, SummaryOf

\* The command ends, and leaves the directory as it found it, or it was
\* stopped while it replaced it.
LEMMA EndStep ==
  ASSUME CleaningInv, NEW how \in {"failed", "refused"}, End(how),
         UNCHANGED <<processed, rawVars, found>>,
         cut' \in BOOLEAN, cut => cut', how = "refused" => cut',
         ~cut' => pc \notin {"remove", "publish"} \cup Stopped
  PROVE  CleaningInv'
<1>. USE Constants DEF CleaningInv, End, Stopped, rawVars
<1>1. RawHistory' /\ PublishedFromOneRawState'
  BY Still
<1>2. ReadBetweenHashes'
  <2>1. raw \in [File -> 1..MaxEdits + 1] /\ raw' = raw
    BY DEF RawHistory
  <2>2. NoHashes \in Version /\ \A f \in File : NoHashes[f] = 0
    BY DEF Version, NoHashes
  <2>3. QED
    BY <2>1, <2>2 DEF ReadBetweenHashes
<1>3. MomentBetweenRounds' /\ VerifiedState'
  BY DEF MomentBetweenRounds, VerifiedState
<1>4. OutputDirectory'
  BY DEF OutputDirectory, Complete, FilesOf, SummaryOf
<1>5. FailureKeepsOutput'
  BY DEF OutputDirectory, FailureKeepsOutput, Complete, FilesOf, SummaryOf
<1>6. QED
  BY <1>1, <1>2, <1>3, <1>4, <1>5

\* The command starts, or refuses a directory that is not its own.
LEMMA StartStep == CleaningInv /\ Start => CleaningInv'
<1>. SUFFICES ASSUME CleaningInv, Start PROVE CleaningInv'
  OBVIOUS
<1>. USE Constants DEF CleaningInv, Start, Stopped, rawVars
<1>1. RawHistory' /\ PublishedFromOneRawState'
  BY Still
<1>2. CASE Replaceable /\ pc' = "before" /\ UNCHANGED locals
  <2>1. ReadBetweenHashes' /\ MomentBetweenRounds' /\ VerifiedState'
    BY <1>2 DEF ReadBetweenHashes, MomentBetweenRounds, VerifiedState, locals
  <2>2. OutputDirectory' /\ FailureKeepsOutput'
    BY <1>2 DEF OutputDirectory, FailureKeepsOutput, Complete, FilesOf, SummaryOf
  <2>3. QED
    BY <1>1, <1>2, <2>1, <2>2
<1>3. CASE ~Replaceable /\ End("refused")
  <2>1. cut
    BY <1>3 DEF Replaceable, OutputDirectory, Complete, FilesOf
  <2>2. NoHashes \in Version /\ \A f \in File : NoHashes[f] = 0
    BY DEF Version, NoHashes
  <2>3. raw \in [File -> 1..MaxEdits + 1] /\ raw' = raw
    BY DEF RawHistory
  <2>4. ReadBetweenHashes'
    BY <1>3, <2>2, <2>3 DEF ReadBetweenHashes, End
  <2>5. MomentBetweenRounds' /\ VerifiedState'
    BY <1>3 DEF MomentBetweenRounds, VerifiedState, End
  <2>6. OutputDirectory' /\ FailureKeepsOutput'
    BY <1>3, <2>1
       DEF OutputDirectory, FailureKeepsOutput, Complete, FilesOf, SummaryOf, End
  <2>7. QED
    BY <1>1, <1>3, <2>4, <2>5, <2>6 DEF End
<1>4. QED
  BY <1>2, <1>3

\* Advance adds the file at hand to those the stage has been through; after
\* the last one, they are all of them.
LEMMA AdvancePassed ==
  ASSUME at \in DOMAIN Order, NEW again, NEW next, Advance(again, next)
  PROVE  /\ at' \in DOMAIN Order /\ Order[at] \in File
         /\ \/ pc' = again /\ Passed' = Passed \cup {Order[at]}
            \/ pc' = next /\ Passed \cup {Order[at]} = File
<1>. USE Constants DEF Advance, Passed
<1>1. CASE at < Len(Order)
  <2>1. 1..(at' - 1) = (1..(at - 1)) \cup {at}
    BY <1>1
  <2>2. QED
    BY <1>1, <2>1
<1>2. CASE ~(at < Len(Order))
  <2>1. DOMAIN Order = (1..(at - 1)) \cup {at}
    BY <1>2
  <2>2. QED
    BY <1>2, <2>1
<1>3. QED
  BY <1>1, <1>2

\* A step from stage to stage leaves the directory alone.
LEMMA StageStep ==
  ASSUME CleaningInv, pc \in {"before", "read", "source", "after"},
         pc' \in {"before", "read", "source", "after", "verify"},
         UNCHANGED <<processed, rawVars, found, cut>>,
         ReadBetweenHashes', MomentBetweenRounds'
  PROVE  CleaningInv'
<1>. USE DEF CleaningInv, Stopped
<1>1. RawHistory' /\ PublishedFromOneRawState'
  BY Still
<1>2. VerifiedState' /\ OutputDirectory' /\ FailureKeepsOutput'
  BY DEF VerifiedState, OutputDirectory, FailureKeepsOutput, Complete, FilesOf,
         SummaryOf
<1>3. QED
  BY <1>1, <1>2

\* A state of the raw files has a version for each of them.
LEMMA VersionsOfStates ==
  ASSUME CleaningInv
  PROVE  raw \in Version /\ raw \in states /\ states \subseteq Version
<1>1. 1..(MaxEdits + 1) \subseteq Nat
  BY Constants
<1>2. raw \in states /\ states \subseteq [File -> 1..MaxEdits + 1]
  BY DEF CleaningInv, RawHistory
<1>3. QED
  BY <1>1, <1>2 DEF Version

\* The first round of hashes; with its last hash comes the moment that
\* MomentBetweenRounds speaks of.
LEMMA HashBeforeStep == CleaningInv /\ HashBefore => CleaningInv'
<1>. SUFFICES ASSUME CleaningInv, HashBefore PROVE CleaningInv'
  OBVIOUS
<1>1. /\ at' \in DOMAIN Order /\ Order[at] \in File
      /\ \/ pc' = "before" /\ Passed' = Passed \cup {Order[at]}
         \/ pc' = "read" /\ Passed \cup {Order[at]} = File
  BY AdvancePassed DEF CleaningInv, ReadBetweenHashes, HashBefore
<1>2. /\ raw \in Version /\ raw \in states /\ before \in Version
      /\ \A f \in File : before[f] <= raw[f]
  BY VersionsOfStates DEF CleaningInv, ReadBetweenHashes
<1>3. before' \in Version /\ \A f \in File : before'[f] <= raw[f]
  BY <1>1, <1>2 DEF HashBefore, Version
<1>4. at' = 1 \/ pc' = "before"
  BY DEF HashBefore, Advance
<1>5. pc' = "read" => Passed' = {}
  BY <1>4 DEF Passed
<1>6. ReadBetweenHashes'
  BY <1>1, <1>3, <1>5
     DEF CleaningInv, HashBefore, ReadBetweenHashes, HasRead, HasSource, HashedAfter, rawVars
<1>7. MomentBetweenRounds'
  BY <1>1, <1>2, <1>3 DEF HashBefore, MomentBetweenRounds, rawVars
<1>8. QED
  BY <1>1, <1>6, <1>7, StageStep DEF HashBefore

\* A file is read and cleaned, or the cleaning contract refuses it.
LEMMA ReadSourceStep == CleaningInv /\ ReadSource => CleaningInv'
<1>. SUFFICES ASSUME CleaningInv, ReadSource PROVE CleaningInv'
  OBVIOUS
<1>1. CASE End("failed")
  BY <1>1, EndStep DEF ReadSource, CleaningInv, Stopped
<1>2. CASE /\ read' = [read EXCEPT ![Order[at]] = raw[Order[at]]]
           /\ pc' = "source"
           /\ UNCHANGED <<at, before, source, after>>
  <2>1. raw \in Version /\ read \in Version /\ before \in Version
        /\ source \in Version
        /\ \A f \in File : before[f] <= raw[f]
    BY VersionsOfStates DEF CleaningInv, ReadBetweenHashes
  <2>2. read' \in Version
        /\ \A f \in File : read'[f] = read[f] \/ read'[f] = raw[f]
    BY <1>2, <2>1, Constants DEF Version
  <2>3. \A f \in File : read[f] <= raw[f] /\ source[f] <= raw[f]
    BY DEF CleaningInv, ReadBetweenHashes
  <2>4. \A f \in File : read'[f] <= raw[f]
    BY <2>1, <2>2, <2>3 DEF Version
  <2>5. /\ \A f \in Passed \cup {Order[at]} : before[f] <= read'[f]
        /\ \A f \in Passed : before[f] <= source[f]
    <3>1. Order[at] \in File /\ Passed \subseteq File
      BY Constants DEF CleaningInv, ReadBetweenHashes, Passed
    <3>2. \A f \in Passed : before[f] <= read[f] /\ before[f] <= source[f]
      BY DEF CleaningInv, ReadBetweenHashes, HasRead, HasSource, ReadSource
    <3>3. read'[Order[at]] = raw[Order[at]]
      BY <1>2, <2>1, <3>1 DEF Version
    <3>4. QED
      BY <2>1, <2>2, <3>1, <3>2, <3>3
  <2>6. ReadBetweenHashes'
    BY <1>2, <2>1, <2>2, <2>3, <2>4, <2>5
       DEF CleaningInv, ReadSource, ReadBetweenHashes, HasRead, HasSource, HashedAfter,
           Passed, rawVars
  <2>7. MomentBetweenRounds'
    BY <1>2
       DEF CleaningInv, MomentBetweenRounds, ReadSource, rawVars
  <2>8. QED
    BY <1>2, <2>6, <2>7, StageStep DEF ReadSource
<1>3. QED
  BY <1>1, <1>2 DEF ReadSource

\* The file is read again for the manifest's hash.
LEMMA HashSourceStep == CleaningInv /\ HashSource => CleaningInv'
<1>. SUFFICES ASSUME CleaningInv, HashSource PROVE CleaningInv'
  OBVIOUS
<1>1. /\ at' \in DOMAIN Order /\ Order[at] \in File
      /\ \/ pc' = "read" /\ Passed' = Passed \cup {Order[at]}
         \/ pc' = "after" /\ Passed \cup {Order[at]} = File
  BY AdvancePassed DEF CleaningInv, ReadBetweenHashes, HashSource
<1>2. /\ raw \in Version /\ source \in Version /\ before \in Version
      /\ \A f \in File : before[f] <= raw[f]
      /\ \A f \in File : source[f] <= raw[f]
  BY VersionsOfStates DEF CleaningInv, ReadBetweenHashes
<1>3. source' \in Version /\ source'[Order[at]] = raw[Order[at]]
      /\ \A f \in File : source'[f] = source[f] \/ source'[f] = raw[f]
  BY <1>1, <1>2 DEF HashSource, Version
<1>4. \A f \in File : source'[f] <= raw[f]
  BY <1>2, <1>3 DEF Version
<1>5. Passed \subseteq File
  BY Constants DEF CleaningInv, ReadBetweenHashes, Passed
<1>6. /\ \A f \in Passed \cup {Order[at]} : before[f] <= read[f]
      /\ \A f \in Passed \cup {Order[at]} : before[f] <= source'[f]
  BY <1>1, <1>2, <1>3, <1>5
     DEF CleaningInv, ReadBetweenHashes, HasRead, HasSource, HashSource
<1>7. pc' = "after" => Passed' = {}
  BY DEF HashSource, Advance, Passed
<1>8. ReadBetweenHashes'
  BY <1>1, <1>3, <1>4, <1>6, <1>7
     DEF CleaningInv, ReadBetweenHashes, HashSource, HasRead, HasSource,
         HashedAfter, rawVars
<1>9. MomentBetweenRounds'
  BY <1>1, <1>7
     DEF CleaningInv, MomentBetweenRounds, HashSource, HashedAfter, rawVars
<1>10. QED
  BY <1>1, <1>8, <1>9, StageStep DEF HashSource

\* The second round of hashes.
LEMMA HashAfterStep == CleaningInv /\ HashAfter => CleaningInv'
<1>. SUFFICES ASSUME CleaningInv, HashAfter PROVE CleaningInv'
  OBVIOUS
<1>1. /\ at' \in DOMAIN Order /\ Order[at] \in File
      /\ \/ pc' = "after" /\ Passed' = Passed \cup {Order[at]}
         \/ pc' = "verify" /\ Passed \cup {Order[at]} = File
  BY AdvancePassed DEF CleaningInv, ReadBetweenHashes, HashAfter
<1>2. raw \in Version /\ after \in Version /\ Passed \subseteq File
      /\ \A f \in File : read[f] <= raw[f] /\ source[f] <= raw[f]
  BY VersionsOfStates, Constants DEF CleaningInv, ReadBetweenHashes, Passed
<1>3. after' \in Version /\ after'[Order[at]] = raw[Order[at]]
      /\ \A f \in File : f # Order[at] => after'[f] = after[f]
  BY <1>1, <1>2 DEF HashAfter, Version
<1>4. \A f \in Passed \cup {Order[at]} :
        read[f] <= after'[f] /\ source[f] <= after'[f]
  BY <1>1, <1>2, <1>3
     DEF CleaningInv, ReadBetweenHashes, HashedAfter, HashAfter
<1>5. ReadBetweenHashes'
  BY <1>1, <1>3, <1>4
     DEF CleaningInv, ReadBetweenHashes, HashAfter, HasRead, HasSource,
         HashedAfter, rawVars
<1>6. MomentBetweenRounds'
  <2>1. PICK state \in states :
          /\ \A f \in File : before[f] <= state[f]
          /\ \A f \in Passed : state[f] <= after[f]
    BY DEF CleaningInv, MomentBetweenRounds, HashAfter, HashedAfter
  <2>2. state[Order[at]] <= raw[Order[at]]
    BY <1>1 DEF CleaningInv, RawHistory
  <2>3. \A f \in Passed \cup {Order[at]} : state[f] <= after'[f]
    BY <1>2, <1>3, <2>1, <2>2
  <2>4. QED
    BY <1>1, <2>1, <2>3
       DEF MomentBetweenRounds, HashAfter, HashedAfter, rawVars
<1>7. QED
  BY <1>1, <1>5, <1>6, StageStep DEF HashAfter

\* Equal hashes leave room for the state between the rounds only.
LEMMA UnchangedIsOneState ==
  ASSUME CleaningInv, pc = "verify", Unchanged
  PROVE  read \in states /\ source = read
<1>1. PICK state \in states :
        /\ \A f \in File : before[f] <= state[f]
        /\ \A f \in File : state[f] <= after[f]
  BY DEF CleaningInv, MomentBetweenRounds, HashedAfter
<1>2. \A f \in File : /\ before[f] <= read[f] /\ read[f] <= after[f]
                      /\ before[f] <= source[f] /\ source[f] <= after[f]
  BY DEF CleaningInv, ReadBetweenHashes, HasRead, HasSource, HashedAfter
<1>3. /\ before \in Version /\ read \in Version /\ source \in Version
      /\ state \in Version /\ before = after
  BY VersionsOfStates DEF CleaningInv, ReadBetweenHashes, Unchanged
<1>4. ASSUME NEW f \in File
      PROVE  /\ read[f] = before[f] /\ source[f] = before[f]
             /\ state[f] = before[f]
  <2>1. /\ before[f] \in Nat /\ read[f] \in Nat /\ source[f] \in Nat
        /\ state[f] \in Nat /\ after[f] = before[f]
    BY <1>3 DEF Version
  <2>2. QED
    BY <1>1, <1>2, <2>1
<1>5. read = state /\ source = state
  BY <1>3, <1>4 DEF Version
<1>6. QED
  BY <1>5

\* The hashes are compared.
LEMMA VerifyStep == CleaningInv /\ Verify => CleaningInv'
<1>. SUFFICES ASSUME CleaningInv, Verify PROVE CleaningInv'
  OBVIOUS
<1>1. CASE End("failed")
  BY <1>1, EndStep DEF Verify, CleaningInv, Stopped
<1>2. CASE /\ Unchanged
           /\ pc' = IF processed = None THEN "publish" ELSE "remove"
           /\ UNCHANGED locals
  <2>1. RawHistory' /\ PublishedFromOneRawState'
    BY Still DEF Verify
  <2>2. VerifiedState'
    BY <1>2, UnchangedIsOneState DEF Verify, VerifiedState, locals, rawVars
  <2>3. ReadBetweenHashes' /\ MomentBetweenRounds'
    BY <1>2
       DEF CleaningInv, Verify, ReadBetweenHashes, MomentBetweenRounds, locals,
           rawVars
  <2>4. OutputDirectory' /\ FailureKeepsOutput'
    BY <1>2
       DEF CleaningInv, Verify, OutputDirectory, FailureKeepsOutput, Stopped
  <2>5. QED
    BY <1>2, <2>1, <2>2, <2>3, <2>4 DEF CleaningInv, Verify
<1>3. QED
  BY <1>1, <1>2 DEF Verify

\* What is left of a directory that loses an entry is not a whole dataset.
LEMMA RemovedIsIncomplete ==
  ASSUME OutputDirectory, RemoveEntry
  PROVE  /\ DOMAIN processed'.files \subseteq File
         /\ processed' = [files   |-> processed'.files,
                          summary |-> processed'.summary]
         /\ ~Complete(processed')
<1>1. /\ DOMAIN processed.files \subseteq File
      /\ processed = [files |-> processed.files, summary |-> processed.summary]
  BY DEF OutputDirectory, RemoveEntry
<1>2. CASE processed' = [processed EXCEPT !.summary = None]
  BY <1>1, <1>2, Constants DEF Complete, FilesOf, SummaryOf
<1>3. ASSUME NEW f \in DOMAIN processed.files,
             processed' = [processed EXCEPT !.files =
               [g \in DOMAIN processed.files \ {f} |-> processed.files[g]]]
      PROVE  /\ DOMAIN processed'.files \subseteq File
             /\ processed' = [files   |-> processed'.files,
                              summary |-> processed'.summary]
             /\ ~Complete(processed')
  <2>1. DOMAIN processed'.files = DOMAIN processed.files \ {f}
    BY <1>1, <1>3
  <2>2. processed' = [files |-> processed'.files, summary |-> processed'.summary]
    BY <1>1, <1>3
  <2>3. QED
    BY <1>1, <1>3, <2>1, <2>2, Constants DEF Complete, FilesOf
<1>4. QED
  BY <1>2, <1>3 DEF RemoveEntry, WithoutOne

\* The previous dataset goes entry by entry.
LEMMA RemoveStep == CleaningInv /\ (Remove \/ RemoveLast) => CleaningInv'
<1>. SUFFICES ASSUME CleaningInv, Remove \/ RemoveLast PROVE CleaningInv'
  OBVIOUS
<1>. USE DEF CleaningInv, Remove, RemoveLast, Removing, Stopped
<1>1. RawHistory'
  BY DEF RawHistory, rawVars
<1>2. ReadBetweenHashes' /\ MomentBetweenRounds' /\ VerifiedState'
  BY DEF ReadBetweenHashes, MomentBetweenRounds, VerifiedState, locals, rawVars
<1>3. CASE Remove
  <2>1. OutputDirectory' /\ PublishedFromOneRawState'
    BY <1>3, RemovedIsIncomplete DEF OutputDirectory, PublishedFromOneRawState
  <2>2. QED
    BY <1>1, <1>2, <1>3, <2>1 DEF FailureKeepsOutput
<1>4. CASE RemoveLast
  <2>1. OutputDirectory' /\ PublishedFromOneRawState'
    BY <1>4, Constants
       DEF OutputDirectory, PublishedFromOneRawState, RemoveDirectory, Complete,
           FilesOf
  <2>2. QED
    BY <1>1, <1>2, <1>4, <2>1 DEF FailureKeepsOutput
<1>5. QED
  BY <1>3, <1>4

\* The staging directory takes the place of the output directory.
LEMMA MoveStageStep == CleaningInv /\ MoveStage => CleaningInv'
<1>. SUFFICES ASSUME CleaningInv, MoveStage PROVE CleaningInv'
  OBVIOUS
<1>. USE DEF MoveStage, End, rawVars
<1>1. read \in states /\ source = read /\ processed' = Dataset(read, read)
  BY DEF CleaningInv, VerifiedState
<1>2. processed' = None \/ Complete(processed')
  <2>1. ASSUME NEW f \in File
        PROVE  [source |-> read[f], processed |-> Cleaned(f, read)] \in
                 [source    : Nat,
                  processed : UNION {[b -> Nat] : b \in SUBSET File}]
    <3>1. read \in Version /\ Basis[f] \in SUBSET File
      BY <1>1, VersionsOfStates, DirectoryAssumption
    <3>2. Cleaned(f, read) \in [Basis[f] -> Nat]
      BY <3>1 DEF Cleaned, Version
    <3>3. QED
      BY <3>1, <3>2 DEF Version
  <2>2. Dataset(read, read).summary # None
    BY <2>1, DirectoryAssumption DEF Dataset
  <2>3. DOMAIN Dataset(read, read).files = File
    BY DEF Dataset
  <2>4. QED
    BY <1>1, <2>2, <2>3 DEF Complete, FilesOf, SummaryOf
<1>3. RawHistory'
  BY DEF CleaningInv, RawHistory
<1>4. ReadBetweenHashes'
  BY Constants, VersionsOfStates
     DEF ReadBetweenHashes, NoHashes, Version, HasRead, HasSource, HashedAfter
<1>5. OutputDirectory'
  BY <1>1, <1>2 DEF OutputDirectory, Dataset, Stopped
<1>6. PublishedFromOneRawState' /\ FailureKeepsOutput'
  BY <1>1, <1>2 DEF PublishedFromOneRawState, FailureKeepsOutput, CleaningInv
<1>7. QED
  BY <1>3, <1>4, <1>5, <1>6
     DEF CleaningInv, MomentBetweenRounds, VerifiedState, Stopped

\* The command is killed.
LEMMA DieStep == CleaningInv /\ Die => CleaningInv'
<1>. SUFFICES ASSUME CleaningInv, Die PROVE CleaningInv'
  OBVIOUS
<1>1. /\ cut' \in BOOLEAN /\ cut => cut'
      /\ ~cut' => pc \notin {"remove", "publish"} \cup Stopped
  BY DEF CleaningInv, Die
<1>2. QED
  BY <1>1, EndStep DEF Die

\* Every step preserves the invariant.
LEMMA NextInv == CleaningInv /\ [Next]_vars => CleaningInv'
<1>. SUFFICES ASSUME CleaningInv, [Next]_vars PROVE CleaningInv'
  OBVIOUS
<1>1. CASE UNCHANGED vars
  BY <1>1
     DEF vars, locals, rawVars, CleaningInv, RawHistory, ReadBetweenHashes,
         HasRead, HasSource, HashedAfter, Passed, MomentBetweenRounds,
         VerifiedState, OutputDirectory, PublishedFromOneRawState,
         FailureKeepsOutput, Complete, FilesOf, SummaryOf
<1>2. CASE Next
  BY <1>2, EditStep, StartStep, HashBeforeStep, ReadSourceStep, HashSourceStep,
     HashAfterStep, VerifyStep, RemoveStep, MoveStageStep, DieStep DEF Next
<1>3. QED
  BY <1>1, <1>2

LEMMA CleaningInvariant == Spec => []CleaningInv
<1>1. QED
  BY InitInv, NextInv, PTL DEF Spec

\* A dataset that is there as a whole was cleaned from raw files that were
\* there together at one moment, and its manifest has their hashes
\* (clean_dataset's two rounds of hashes).
THEOREM CleanedAtOneMoment == Spec => []PublishedFromOneRawState
<1>1. CleaningInv => PublishedFromOneRawState
  BY DEF CleaningInv
<1>2. QED
  BY <1>1, CleaningInvariant, PTL

\* A run that fails leaves the processed directory as it found it, unless it
\* was stopped while it was replacing it.
THEOREM FailureSafety == Spec => []FailureKeepsOutput
<1>1. CleaningInv => FailureKeepsOutput
  BY DEF CleaningInv
<1>2. QED
  BY <1>1, CleaningInvariant, PTL

\* Every step of the command is one of the directory's, or leaves it alone.
THEOREM DirectoryRefinement == Spec => ImplementsDirectory
<1>1. Init => processed = None
  BY DEF Init
<1>2. CleaningInv /\ [Next]_vars => [DirectoryNext]_processed
  <2>. SUFFICES ASSUME CleaningInv, Next, processed' # processed
                PROVE  DirectoryNext
    BY DEF vars
  <2>1. CASE MoveStage
    <3>1. processed = None /\ read \in states /\ source = read
      BY <2>1 DEF CleaningInv, OutputDirectory, VerifiedState, MoveStage
    <3>2. read \in RawState
      BY <3>1, CleaningAssumption DEF CleaningInv, RawHistory
    <3>3. QED
      BY <2>1, <3>1, <3>2 DEF MoveStage, DirectoryNext, Publish
  <2>2. CASE Remove \/ RemoveLast
    BY <2>2 DEF Remove, RemoveLast, DirectoryNext
  <2>3. QED
    BY <2>1, <2>2
       DEF Next, Edit, Start, HashBefore, ReadSource, HashSource, HashAfter,
           Verify, Die
<1>3. QED
  BY <1>1, <1>2, CleaningInvariant, PTL
     DEF Spec, ImplementsDirectory, DirectorySpec
=============================================================================
