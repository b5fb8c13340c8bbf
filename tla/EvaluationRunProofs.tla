------------------------ MODULE EvaluationRunProofs ------------------------
(***************************************************************************)
(* EvaluationRun's properties, for any processes, configurations, cases    *)
(* and failures; and, at the end, ResultComparison's, for any results, by  *)
(* which a process tells whether a case is correct.                        *)
(***************************************************************************)
EXTENDS EvaluationRun, ResultComparison, TLAPS, SequenceTheorems,
        FiniteSetTheorems, FunctionTheorems, WellFoundedInduction

\* The minimum of a set of numbers is one of its elements, and the least.
LEMMA MinIsLeast ==
  ASSUME NEW S \in SUBSET Nat, S # {}
  PROVE  Min(S) \in S /\ \A i \in S : Min(S) <= i
<1>. DEFINE R == {ss \in Nat \X Nat : ss[1] < ss[2]}
<1>1. IsWellFoundedOn(R, Nat)
  BY NatLessThanWellFounded DEF OpToRel
<1>2. \A i, j \in Nat : i < j => <<i, j>> \in R
  OBVIOUS
<1>. HIDE DEF R
<1>3. PICK least \in S : \A i \in S : <<i, least>> \notin R
  BY <1>1, WFMin
<1>4. \A i \in S : ~(i < least)
  BY <1>2, <1>3
<1>5. least \in Nat /\ \A i \in S : i \in Nat
  OBVIOUS
<1>6. \A i \in S : least <= i
  BY <1>4, <1>5
<1>7. QED
  BY <1>6 DEF Min

\* What the constants are.
LEMMA Constants ==
  /\ "answerable" \in Status /\ None \notin Status
  /\ None \notin TransientFailures
  /\ \A e \in ProviderErrors : e \notin Status /\ e # None
  /\ \A x \in Ends \cup {"status_mismatch"} : x # None
  /\ \A x \in Ends : x \notin TransientFailures
  /\ \A c \in Cases : Expected[c] \in Status
  /\ \A x \in Executions \ {"match", "mismatch"} :
       x \notin {"provider_error", "declined"}
BY EvaluationAssumption, NoneAssumption
   DEF Ends, Executions, TransientFailures, PermanentFailures

\* The shapes of a trace.
LEMMA TraceShapes ==
  ASSUME NEW c \in Cases, NEW trace \in Traces(c)
  PROVE  \/ \E e \in ProviderErrors : trace = Trace(e, None, "provider_error")
         \/ \E s \in Status : trace = Trace(s, None, "declined")
         \/ /\ Expected[c] = "answerable"
            /\ \/ \E x \in Executions : trace = Trace("answerable", None, x)
               \/ \E e \in ProviderErrors :
                    trace = Trace("answerable", e, "provider_error")
               \/ \E s \in Status \ {"answerable"} :
                    trace = Trace("answerable", s, "repair_error")
               \/ \E x \in Executions :
                    trace = Trace("answerable", "answerable", x)
BY DEF Traces, QueryTraces, SemanticTraces

\* What the recorder has of the case.
LEMMA RecorderKnows ==
  ASSUME NEW c \in Cases, NEW trace \in Traces(c)
  PROVE  LET rec == Recorded(Empty, c, trace) IN
         /\ rec.initial = IF trace.initial \in Status
                            THEN [case |-> c, status |-> trace.initial] ELSE None
         /\ rec.repair = IF trace.repair \in Status
                           THEN [case |-> c, status |-> trace.repair] ELSE None
         /\ rec.attempted <=> trace.repair # None
         /\ rec.attempted \in BOOLEAN
         /\ rec.initial = None <=> trace.initial \notin Status
         /\ rec.repair = None <=> trace.repair \notin Status
<1>. DEFINE value(status) == [case |-> c, status |-> status]
<1>1. \A status \in Status : value(status) # None
  BY NoneAssumption
<1>2. QED
  BY <1>1, Constants DEF Recorded, Empty

\* The fields that a declined case changes of the base fields.
LEMMA DeclinedFields ==
  ASSUME NEW c, NEW cfg, NEW status, NEW matched, NEW na, NEW no,
         NEW sqlOf, NEW correct, NEW reason, NEW base, NEW x,
         base =
           [case |-> c, by |-> cfg, status |-> status, matched |-> matched,
            sqlOf |-> None, safety |-> na, attempted |-> no,
            used |-> no, outcome |-> na, correct |-> no,
            reason |-> None],
         x = [base EXCEPT !.sqlOf = sqlOf, !.correct = correct, !.reason = reason]
  PROVE  x =
           [case |-> c, by |-> cfg, status |-> status, matched |-> matched,
            sqlOf |-> sqlOf, safety |-> na, attempted |-> no,
            used |-> no, outcome |-> na, correct |-> correct,
            reason |-> reason]
OBVIOUS

\* The fields that a failed case changes.
LEMMA FailureFields ==
  ASSUME NEW c, NEW cfg, NEW status, NEW matched, NEW na, NEW no,
         NEW sqlOf, NEW safety, NEW attempted, NEW outcome, NEW reason, NEW base, NEW x,
         base =
           [case |-> c, by |-> cfg, status |-> status, matched |-> matched,
            sqlOf |-> None, safety |-> na, attempted |-> no,
            used |-> no, outcome |-> na, correct |-> no,
            reason |-> None],
         x = [base EXCEPT !.sqlOf = sqlOf, !.safety = safety,
                          !.attempted = attempted, !.outcome = outcome,
                          !.reason = reason]
  PROVE  x =
           [case |-> c, by |-> cfg, status |-> status, matched |-> matched,
            sqlOf |-> sqlOf, safety |-> safety, attempted |-> attempted,
            used |-> no, outcome |-> outcome, correct |-> no,
            reason |-> reason]
OBVIOUS

\* The fields that a case whose rows were compared changes.
LEMMA ComparedFields ==
  ASSUME NEW c, NEW cfg, NEW status, NEW matched, NEW na, NEW no,
         NEW sqlOf, NEW safety, NEW attempted, NEW used, NEW outcome,
         NEW correct, NEW reason, NEW base, NEW x,
         base =
           [case |-> c, by |-> cfg, status |-> status, matched |-> matched,
            sqlOf |-> None, safety |-> na, attempted |-> no,
            used |-> no, outcome |-> na, correct |-> no,
            reason |-> None],
         x = [base EXCEPT !.sqlOf = sqlOf, !.safety = safety,
                          !.attempted = attempted, !.used = used,
                          !.outcome = outcome, !.correct = correct,
                          !.reason = reason]
  PROVE  x =
           [case |-> c, by |-> cfg, status |-> status, matched |-> matched,
            sqlOf |-> sqlOf, safety |-> safety, attempted |-> attempted,
            used |-> used, outcome |-> outcome, correct |-> correct,
            reason |-> reason]
OBVIOUS

\* What the result of a case tells, whatever became of the case.
LEMMA ResultIsSound ==
  ASSUME NEW c \in Cases, NEW cfg \in Config, NEW trace \in Traces(c),
         trace.end # "unserializable",
         ~Transient(Result(c, cfg, Recorded(Empty, c, trace), trace))
  PROVE  LET result == Result(c, cfg, Recorded(Empty, c, trace), trace) IN
         /\ result \in Results /\ SoundResult(result)
         /\ result.case = c /\ result.by = cfg
<1>. DEFINE rec == Recorded(Empty, c, trace)
            result == Result(c, cfg, rec, trace)
<1>1. /\ trace.initial \in Status =>
           rec.initial = [case |-> c, status |-> trace.initial]
      /\ trace.repair \in Status =>
           rec.repair = [case |-> c, status |-> trace.repair]
      /\ rec.attempted <=> trace.repair # None
      /\ rec.attempted \in BOOLEAN
      /\ rec.initial = None <=> trace.initial \notin Status
      /\ rec.repair = None <=> trace.repair \notin Status
  BY RecorderKnows
<1>2. Expected[c] \in Status
  BY Constants
<1>. HIDE DEF rec
<1>. SUFFICES result \in Results /\ SoundResult(result)
              /\ result.case = c /\ result.by = cfg
  BY DEF rec
<1>3. CASE \E s \in Status : trace = Trace(s, None, "declined")
  <2>. DEFINE s == rec.initial.status
              base == BaseFields(c, cfg, s)
              sqlOf == IF s = "answerable" THEN rec.initial.case ELSE None
              matched == s = Expected[c]
              reason == IF matched THEN None ELSE "status_mismatch"
  <2>1. trace.end = "declined" /\ s \in Status /\ rec.initial.case = c
    BY <1>1, <1>3 DEF Trace
  <2>2. base = [case |-> c, by |-> cfg, status |-> s, matched |-> matched,
                sqlOf |-> None, safety |-> "not_applicable",
                attempted |-> FALSE, used |-> FALSE,
                outcome |-> "not_applicable", correct |-> FALSE,
                reason |-> None]
    BY DEF BaseFields
  <2>3. result =
          [base EXCEPT !.sqlOf = sqlOf, !.correct = matched, !.reason = reason]
    BY <2>1, Zenon DEF Result, Declined
  <2>4. sqlOf \in {None, c} /\ matched \in BOOLEAN
        /\ (matched <=> reason = None) /\ reason \in {None, "status_mismatch"}
        /\ s # None /\ "status_mismatch" \notin TransientFailures
    BY <2>1, Constants DEF TransientFailures
  <2>. HIDE DEF base, sqlOf, matched, reason, s, result
  <2>5. result = [case |-> c, by |-> cfg, status |-> s, matched |-> matched,
                  sqlOf |-> sqlOf, safety |-> "not_applicable",
                  attempted |-> FALSE, used |-> FALSE,
                  outcome |-> "not_applicable", correct |-> matched,
                  reason |-> reason]
    BY <2>2, <2>3, DeclinedFields, Zenon
  <2>6. result \in Results
    BY <2>1, <2>4, <2>5 DEF Results
  <2>7. SoundResult(result)
    BY <2>4, <2>5, Constants DEF SoundResult
  <2>8. QED
    BY <2>5, <2>6, <2>7
<1>4. CASE trace.end \in {"match", "mismatch"}
  <2>. DEFINE base == BaseFields(c, cfg, "answerable")
              used == trace.repair = "answerable"
              correct == trace.end = "match"
              reason == IF correct THEN None ELSE "mismatch"
              matched == "answerable" = Expected[c]
  <2>1. /\ trace.initial = "answerable" /\ Expected[c] = "answerable"
        /\ trace.repair \in {None, "answerable"}
    BY <1>4, TraceShapes, Constants DEF Trace, Executions
  <2>2. base = [case |-> c, by |-> cfg, status |-> "answerable",
                matched |-> matched, sqlOf |-> None,
                safety |-> "not_applicable", attempted |-> FALSE,
                used |-> FALSE, outcome |-> "not_applicable",
                correct |-> FALSE, reason |-> None]
    BY DEF BaseFields
  <2>3. result =
          [base EXCEPT
             !.sqlOf = c, !.safety = "accepted", !.attempted = rec.attempted,
             !.used = used, !.outcome = "success", !.correct = correct,
             !.reason = reason]
    <3>1. result = Compared(c, cfg, rec, trace)
      BY <1>4, Zenon DEF Result
    <3>2. QED
      BY <3>1, Zenon DEF Compared
  <2>4. /\ used \in BOOLEAN /\ (used => rec.attempted)
        /\ correct \in BOOLEAN /\ (correct <=> reason = None)
        /\ reason \in {None, "mismatch"} /\ matched \in BOOLEAN
        /\ "mismatch" \notin TransientFailures /\ "mismatch" \in Ends
        /\ "answerable" # None /\ "answerable" \in Status
    BY <1>1, <2>1, Constants DEF TransientFailures, Ends, Executions
  <2>. HIDE DEF base, used, correct, reason, matched, result
  <2>5. result = [case |-> c, by |-> cfg, status |-> "answerable",
                  matched |-> matched, sqlOf |-> c, safety |-> "accepted",
                  attempted |-> rec.attempted, used |-> used,
                  outcome |-> "success", correct |-> correct,
                  reason |-> reason]
    BY <2>2, <2>3, ComparedFields, Zenon
  <2>6. result \in Results
    BY <1>1, <2>4, <2>5 DEF Results
  <2>7. SoundResult(result)
    BY <2>1, <2>4, <2>5, Constants DEF SoundResult
  <2>8. QED
    BY <2>5, <2>6, <2>7
<1>5. CASE trace.end \notin {"match", "mismatch", "declined"}
  <2>. DEFINE status == IF rec.initial = None THEN None ELSE rec.initial.status
              base == BaseFields(c, cfg, status)
              latest == IF rec.repair = None THEN rec.initial ELSE rec.repair
              sqlOf == IF latest = None \/ latest.status # "answerable"
                         THEN None ELSE latest.case
              safety ==
                CASE trace.end = "safety_rejected" -> "rejected"
                  [] trace.end # "safety_rejected"
                       /\ status = "answerable"    -> "accepted"
                  [] OTHER                         -> "not_applicable"
              reason == IF trace.end # "provider_error" THEN trace.end
                        ELSE IF trace.repair # None THEN trace.repair
                        ELSE trace.initial
              matched == status = Expected[c]
  <2>1. base = [case |-> c, by |-> cfg, status |-> status,
                matched |-> matched, sqlOf |-> None,
                safety |-> "not_applicable", attempted |-> FALSE,
                used |-> FALSE, outcome |-> "not_applicable",
                correct |-> FALSE, reason |-> None]
    BY DEF BaseFields
  <2>2. result =
          [base EXCEPT
             !.sqlOf = sqlOf, !.safety = safety, !.attempted = rec.attempted,
             !.outcome = trace.end, !.reason = reason]
    <3>1. result = Failure(c, cfg, rec, trace)
      BY <1>5, Zenon DEF Result
    <3>2. QED
      BY <3>1, Zenon DEF Failure
  <2>3. /\ status \in Status \cup {None}
        /\ status = None <=> trace.end = "provider_error" /\ ~rec.attempted
        /\ rec.attempted => status = "answerable" /\ Expected[c] = "answerable"
        /\ trace.end \in Ends
    BY <1>1, <1>5, TraceShapes, Constants DEF Trace, Ends
  <2>4. sqlOf \in {None, c}
    BY <1>1
  <2>5. safety \in {"not_applicable", "accepted", "rejected"}
    BY Zenon
  <2>6. reason \in Ends \cup ProviderErrors /\ reason # None
    <3>1. CASE trace.end # "provider_error"
      <4>1. reason = trace.end
        BY <3>1, Zenon
      <4>2. QED
        BY <2>3, <4>1, Constants
    <3>2. CASE trace.end = "provider_error"
      <4>1. \/ trace.repair # None /\ trace.repair \in ProviderErrors
            \/ trace.repair = None /\ trace.initial \in ProviderErrors
        BY <1>5, <3>2, TraceShapes, Constants DEF Trace, Executions
      <4>2. QED
        BY <3>2, <4>1, Constants, Zenon
    <3>3. QED
      BY <3>1, <3>2
  <2>7. trace.end \notin {"success"} /\ matched \in BOOLEAN
    BY <2>3, EvaluationAssumption DEF Ends, Executions
  <2>. HIDE DEF base, status, sqlOf, safety, reason, matched, result
  <2>8. result = [case |-> c, by |-> cfg, status |-> status,
                  matched |-> matched, sqlOf |-> sqlOf, safety |-> safety,
                  attempted |-> rec.attempted, used |-> FALSE,
                  outcome |-> trace.end, correct |-> FALSE,
                  reason |-> reason]
    BY <2>1, <2>2, FailureFields, Zenon
  <2>9. result \in Results
    BY <1>1, <2>3, <2>4, <2>5, <2>6, <2>7, <2>8 DEF Results
  <2>10. reason \notin TransientFailures
    BY <2>8 DEF Transient, result, rec
  <2>11. SoundResult(result)
    BY <2>3, <2>4, <2>6, <2>7, <2>8, <2>10 DEF SoundResult
  <2>12. QED
    BY <2>8, <2>9, <2>11
<1>6. CASE trace.end = "declined"
  BY <1>3, <1>6, TraceShapes, EvaluationAssumption DEF Trace, Executions
<1>7. QED
  BY <1>4, <1>5, <1>6

-----------------------------------------------------------------------------

\* The initial states satisfy the invariant.
LEMMA InitInv == Init => EvaluationInv
<1>. SUFFICES ASSUME Init PROVE EvaluationInv
  OBVIOUS
<1>1. TypeOK
  BY DEF Init, TypeOK, Ended
<1>2. RunsAreSound /\ \A p \in Runner : StageHolds(p)
  BY DEF Init, RunsAreSound, StageHolds, Ended, Working
<1>3. Alone
  BY DEF Init, Alone, AloneHolds, Ended, Working
<1>4. QED
  BY <1>1, <1>2, <1>3 DEF EvaluationInv

\* Nothing that p does disturbs what another process has in hand.
LEMMA OthersHold ==
  ASSUME NEW q \in Runner, StageHolds(q),
         pc'[q] = pc[q], config'[q] = config[q], todo'[q] = todo[q],
         pending'[q] = pending[q], run'[q] = run[q],
         SoundRun(artifact) => SoundRun(artifact')
  PROVE  StageHolds(q)'
BY DEF StageHolds, NextCase, Working, Ended

\* A process ends, and leaves the files as they are.
LEMMA EndStep ==
  ASSUME EvaluationInv, NEW p \in Runner,
         NEW how \in {"failed", "interrupted", "duplicate"}, End(p, how),
         how = "duplicate" => overlapped, UNCHANGED <<files, history>>
  PROVE  EvaluationInv'
<1>. USE DEF EvaluationInv, End, Goto, files, history
<1>1. TypeOK'
  BY DEF TypeOK, Ended
<1>2. RunsAreSound'
  BY DEF RunsAreSound, TypeOK
<1>3. ASSUME NEW q \in Runner
      PROVE  StageHolds(q)'
  <2>1. CASE q = p
    BY <2>1 DEF StageHolds, TypeOK, Ended, Working
  <2>2. CASE q # p
    BY <2>2, OthersHold DEF TypeOK
  <2>3. QED
    BY <2>1, <2>2
<1>4. Alone'
  <2>. SUFFICES ASSUME ~overlapped
                PROVE  /\ artifact # None => InOrder(artifact)
                       /\ \A q \in Runner : AloneHolds(q)'
    BY DEF Alone, InOrder
  <2>1. ASSUME NEW q \in Runner
        PROVE  AloneHolds(q)'
    BY DEF Alone, AloneHolds, TypeOK, Ended, Working, Unfinished, Covered
  <2>2. QED
    BY <2>1 DEF Alone
<1>5. QED
  BY <1>1, <1>2, <1>3, <1>4

\* The command is started: it is alone, or overlapped tells.
LEMMA StartStep ==
  ASSUME EvaluationInv, NEW p \in Runner, Start(p)
  PROVE  EvaluationInv'
<1>. USE DEF EvaluationInv, Start, Goto, files
<1>1. TypeOK'
  BY DEF TypeOK, Ended
<1>2. RunsAreSound'
  BY DEF RunsAreSound
<1>3. ASSUME NEW q \in Runner
      PROVE  StageHolds(q)'
  <2>1. CASE q = p
    BY <2>1 DEF StageHolds, TypeOK, Ended, Working
  <2>2. CASE q # p
    BY <2>2, OthersHold DEF TypeOK
  <2>3. QED
    BY <2>1, <2>2
<1>4. Alone'
  <2>. SUFFICES ASSUME ~overlapped'
                PROVE  /\ artifact # None => InOrder(artifact)
                       /\ \A q \in Runner : AloneHolds(q)'
    BY DEF Alone, InOrder
  <2>1. ~overlapped /\ \A q \in Runner \ {p} : pc[q] \in Ended
    OBVIOUS
  <2>2. ASSUME NEW q \in Runner
        PROVE  AloneHolds(q)'
    BY <2>1 DEF Alone, AloneHolds, TypeOK, Ended, Working, Unfinished, Covered
  <2>3. QED
    BY <2>1, <2>2 DEF Alone
<1>5. QED
  BY <1>1, <1>2, <1>3, <1>4

\* The file is looked for; a process that is alone finds what it will find
\* when it writes.
LEMMA OpenStep ==
  ASSUME EvaluationInv, NEW p \in Runner, Open(p)
  PROVE  EvaluationInv'
<1>1. CASE End(p, "failed")
  BY <1>1, EndStep DEF Open
<1>2. CASE ~Exists /\ Goto(p, "create") /\ UNCHANGED locals
  <2>. USE <1>2 DEF EvaluationInv, Open, Goto, files, history, locals, Exists
  <2>1. TypeOK' /\ RunsAreSound'
    BY DEF TypeOK, RunsAreSound
  <2>2. ASSUME NEW q \in Runner
        PROVE  StageHolds(q)'
    BY DEF StageHolds, TypeOK, Ended, Working, NextCase, Completed
  <2>3. ASSUME NEW q \in Runner, ~overlapped
        PROVE  AloneHolds(q)'
    BY <2>3 DEF Alone, AloneHolds, TypeOK, Ended, Working, Unfinished, Covered
  <2>4. QED
    BY <2>1, <2>2, <2>3 DEF Alone, InOrder
<1>3. QED
  BY <1>1, <1>2 DEF Open

\* A run without results is sound.
LEMMA NewRunIsSound ==
  ASSUME EvaluationInv, NEW p \in Runner, pc[p] \notin Ended
  PROVE  SoundRun(NewRun(p)) /\ InOrder(NewRun(p)) /\ NewRun(p).cases = <<>>
         /\ NewRun(p).config = config[p]
<1>1. config[p] \in Config
  BY DEF EvaluationInv, StageHolds
<1>2. NewRun(p) \in Run
  BY <1>1 DEF NewRun, Run
<1>3. Len(Selected) \in Nat
  BY EvaluationAssumption
<1>4. QED
  BY <1>2, <1>3 DEF SoundRun, InOrder, NewRun

\* The artifact is created.
LEMMA CreateStep ==
  ASSUME EvaluationInv, NEW p \in Runner, Create(p)
  PROVE  EvaluationInv'
<1>. USE DEF EvaluationInv, Create, Goto, history
<1>1. SoundRun(NewRun(p)) /\ InOrder(NewRun(p)) /\ NewRun(p).cases = <<>>
      /\ NewRun(p).config = config[p] /\ NewRun(p) \in Run
  BY NewRunIsSound DEF Ended, SoundRun
<1>. HIDE DEF NewRun
<1>2. artifact' = NewRun(p)
  OBVIOUS
<1>3. TypeOK'
  BY <1>1 DEF TypeOK, Working
<1>4. RunsAreSound'
  BY <1>1 DEF RunsAreSound, TypeOK
<1>5. ASSUME NEW q \in Runner
      PROVE  StageHolds(q)'
  <2>1. CASE q = p
    BY <1>1, <2>1 DEF StageHolds, TypeOK, Ended, Working
  <2>2. CASE q # p
    BY <1>1, <2>2, OthersHold DEF TypeOK
  <2>3. QED
    BY <2>1, <2>2
<1>6. ASSUME NEW q \in Runner, ~overlapped
      PROVE  AloneHolds(q)'
  <2>1. Unfinished(NewRun(p)) = DOMAIN Selected
    BY <1>1, EvaluationAssumption DEF Unfinished
  <2>2. DOMAIN Selected # {}
    BY EvaluationAssumption
  <2>3. artifact = None /\ \A o \in Runner \ {p} : pc[o] \in Ended
    BY <1>6 DEF Alone, AloneHolds, Ended
  <2>4. pc[q] # "reported"
    BY <1>6, <2>3 DEF Alone, AloneHolds
  <2>5. QED
    BY <1>1, <1>2, <1>6, <2>1, <2>3, <2>4
       DEF Alone, AloneHolds, TypeOK, Ended, Working
<1>7. QED
  BY <1>1, <1>3, <1>4, <1>5, <1>6 DEF Alone

\* What Selected is.
LEMMA SelectedCases ==
  /\ Len(Selected) \in Nat /\ DOMAIN Selected = 1..Len(Selected)
  /\ \A i \in DOMAIN Selected : Selected[i] \in Cases
  /\ \A i, j \in DOMAIN Selected : Selected[i] = Selected[j] => i = j
<1>1. Selected \in Seq(Cases)
  BY EvaluationAssumption
<1>2. QED
  BY <1>1, EvaluationAssumption

\* What an artifact has of results.
LEMMA CasesOfRun ==
  ASSUME NEW evaluation \in Run
  PROVE  /\ evaluation.cases \in Seq(Results) /\ Len(evaluation.cases) \in Nat
         /\ DOMAIN evaluation.cases = 1..Len(evaluation.cases)
         /\ \A i \in DOMAIN evaluation.cases : evaluation.cases[i] \in Results
<1>1. evaluation.cases \in Seq(Results)
  BY DEF Run
<1>2. QED
  BY <1>1

\* An artifact that has the first cases of the benchmark lacks the others.
LEMMA RemainingIsUnfinished ==
  ASSUME NEW evaluation \in Run, InOrder(evaluation)
  PROVE  Remaining(evaluation) = Unfinished(evaluation)
<1>. DEFINE n == Len(evaluation.cases)
<1>1. n \in Nat /\ n <= Len(Selected)
      /\ DOMAIN evaluation.cases = 1..n
  BY CasesOfRun DEF InOrder
<1>2. Completed(evaluation) = {Selected[i] : i \in 1..n}
  BY <1>1 DEF Completed, InOrder
<1>3. ASSUME NEW i \in DOMAIN Selected
      PROVE  Selected[i] \in Completed(evaluation) <=> i <= n
  BY <1>1, <1>2, SelectedCases
<1>4. Unfinished(evaluation) = {i \in DOMAIN Selected : ~(i <= n)}
  BY <1>1, SelectedCases DEF Unfinished
<1>. HIDE DEF n
<1>5. QED
  BY <1>3, <1>4 DEF Remaining

\* An artifact is resumed, or refused.
LEMMA ResumeStep ==
  ASSUME EvaluationInv, NEW p \in Runner, Resume(p)
  PROVE  EvaluationInv'
<1>1. CASE End(p, "failed")
  BY <1>1, EndStep DEF Resume
<1>2. CASE /\ Compatible(p)
           /\ run' = [run EXCEPT ![p] = artifact]
           /\ todo' = [todo EXCEPT ![p] = Remaining(artifact)]
           /\ Goto(p, "loop")
           /\ UNCHANGED <<config, recorder, pending>>
  <2>. USE <1>2 DEF EvaluationInv, Resume, Goto, files, history, Compatible,
                    Exists
  <2>1. artifact \in Run /\ SoundRun(artifact) /\ pc[p] = "resume"
    BY DEF TypeOK, RunsAreSound
  <2>2. Remaining(artifact) \subseteq DOMAIN Selected
    BY DEF Remaining
  <2>3. TypeOK'
    BY <2>1, <2>2 DEF TypeOK, Working
  <2>4. RunsAreSound'
    BY <2>1 DEF RunsAreSound, TypeOK
  <2>5. ASSUME NEW q \in Runner
        PROVE  StageHolds(q)'
    <3>1. CASE q = p
      BY <2>1, <3>1 DEF StageHolds, TypeOK, Ended, Working
    <3>2. CASE q # p
      BY <3>2, OthersHold DEF TypeOK
    <3>3. QED
      BY <3>1, <3>2
  <2>6. ASSUME NEW q \in Runner, ~overlapped
        PROVE  AloneHolds(q)'
    <3>1. Remaining(artifact) = Unfinished(artifact)
      BY <2>1, <2>6, RemainingIsUnfinished DEF Alone
    <3>2. QED
      BY <2>1, <2>6, <3>1
         DEF Alone, AloneHolds, TypeOK, Ended, Working, Unfinished, Covered
  <2>7. QED
    BY <2>3, <2>4, <2>5, <2>6 DEF Alone, InOrder
<1>3. QED
  BY <1>1, <1>2 DEF Resume

\* A case is run: its result is sound, or the process ends without it.
LEMMA RunCaseStep ==
  ASSUME EvaluationInv, NEW p \in Runner, RunCase(p)
  PROVE  EvaluationInv'
<1>. USE DEF EvaluationInv
<1>1. PICK trace \in Traces(NextCase(p)) :
        LET c == NextCase(p)
            rec == Recorded(Reset(recorder[p]), c, trace)
            result == Result(c, config[p], rec, trace)
        IN \/ trace.end = "unserializable" /\ End(p, "failed")
           \/ /\ trace.end # "unserializable" /\ Transient(result)
              /\ End(p, "interrupted")
           \/ /\ trace.end # "unserializable" /\ ~Transient(result)
              /\ recorder' = [recorder EXCEPT ![p] = rec]
              /\ pending' = [pending EXCEPT ![p] = result]
              /\ Goto(p, "load")
              /\ UNCHANGED <<config, todo, run>>
  BY DEF RunCase
<1>. DEFINE c == NextCase(p)
            rec == Recorded(Empty, c, trace)
            result == Result(c, config[p], rec, trace)
<1>2. CASE End(p, "failed") \/ End(p, "interrupted")
  BY <1>2, EndStep DEF RunCase
<1>3. CASE /\ trace.end # "unserializable" /\ ~Transient(result)
           /\ recorder' = [recorder EXCEPT ![p] = rec]
           /\ pending' = [pending EXCEPT ![p] = result]
           /\ Goto(p, "load")
           /\ UNCHANGED <<config, todo, run>>
  <2>1. c \in Cases /\ config[p] \in Config
    <3>1. todo[p] \in SUBSET Nat /\ todo[p] # {} /\ todo[p] \subseteq DOMAIN Selected
      BY SelectedCases DEF TypeOK, RunCase
    <3>2. Min(todo[p]) \in DOMAIN Selected
      BY <3>1, MinIsLeast
    <3>3. QED
      BY <3>2, SelectedCases DEF NextCase, StageHolds, RunCase, Ended
  <2>2. /\ result \in Results /\ SoundResult(result)
        /\ result.case = c /\ result.by = config[p]
    BY <1>3, <2>1, ResultIsSound
  <2>3. pc[p] = "loop" /\ todo[p] # {} /\ UNCHANGED <<files, history>>
    BY DEF RunCase
  <2>. HIDE DEF result, rec
  <2>. USE <1>3 DEF Goto, files, history
  <2>4. TypeOK' /\ RunsAreSound'
    BY <2>2, <2>3 DEF TypeOK, RunsAreSound, Working
  <2>5. ASSUME NEW q \in Runner
        PROVE  StageHolds(q)'
    <3>1. CASE q = p
      BY <2>2, <2>3, <3>1 DEF StageHolds, TypeOK, Ended, Working, NextCase
    <3>2. CASE q # p
      BY <2>3, <3>2, OthersHold DEF TypeOK
    <3>3. QED
      BY <3>1, <3>2
  <2>6. ASSUME NEW q \in Runner, ~overlapped
        PROVE  AloneHolds(q)'
    BY <2>3, <2>6
       DEF Alone, AloneHolds, TypeOK, Ended, Working, Unfinished, Covered
  <2>7. QED
    BY <2>3, <2>4, <2>5, <2>6 DEF Alone, InOrder
<1>4. QED
  BY <1>1, <1>2, <1>3 DEF Reset

\* The next case of a process that is alone is the first the artifact lacks.
LEMMA NextCaseIsNew ==
  ASSUME NEW p \in Runner, artifact \in Run, InOrder(artifact),
         todo[p] = Unfinished(artifact), todo[p] # {}
  PROVE  /\ Min(todo[p]) = Len(artifact.cases) + 1
         /\ Min(todo[p]) \in DOMAIN Selected
         /\ NextCase(p) \notin Completed(artifact)
<1>. DEFINE n == Len(artifact.cases)
<1>1. n \in Nat /\ n < Len(Selected) /\ Len(Selected) \in Nat
      /\ todo[p] = (n + 1)..Len(Selected)
  BY CasesOfRun, SelectedCases DEF Unfinished
<1>2. /\ todo[p] \in SUBSET Nat /\ n + 1 \in todo[p]
      /\ \A i \in todo[p] : n + 1 <= i
  BY <1>1
<1>3. Min(todo[p]) = n + 1
  <2>1. Min(todo[p]) \in todo[p] /\ Min(todo[p]) <= n + 1
    BY <1>2, MinIsLeast
  <2>2. Min(todo[p]) \in Nat /\ n + 1 <= Min(todo[p])
    BY <1>2, <2>1
  <2>. HIDE DEF n
  <2>3. QED
    BY <1>1, <2>1, <2>2
<1>4. Min(todo[p]) \in Remaining(artifact)
  BY <1>2, <1>3, RemainingIsUnfinished
<1>5. QED
  BY <1>3, <1>4 DEF Remaining, NextCase

\* The artifact is read again, and looked through for the case.
LEMMA LoadStep ==
  ASSUME EvaluationInv, NEW p \in Runner, Load(p)
  PROVE  EvaluationInv'
<1>1. ASSUME ~overlapped
      PROVE  ~Duplicate(p)
  <2>1. /\ artifact \in Run /\ InOrder(artifact) /\ todo[p] # {}
        /\ todo[p] = Unfinished(artifact) /\ pending[p].case = NextCase(p)
    BY <1>1, NoneAssumption
       DEF EvaluationInv, Alone, AloneHolds, StageHolds, Load, Working, SoundRun
  <2>2. QED
    BY <2>1, NextCaseIsNew DEF Duplicate
<1>2. CASE Duplicate(p) /\ End(p, "duplicate")
  BY <1>1, <1>2, EndStep DEF Load
<1>3. CASE /\ ~Duplicate(p)
           /\ run' = [run EXCEPT ![p] = artifact]
           /\ Goto(p, "replace")
           /\ UNCHANGED <<config, todo, recorder, pending>>
  <2>. USE <1>3 DEF EvaluationInv, Load, Goto, files, history
  <2>1. SoundRun(artifact) /\ artifact \in Run
    BY DEF StageHolds, Working, SoundRun
  <2>2. TypeOK' /\ RunsAreSound'
    BY <2>1 DEF TypeOK, RunsAreSound, Working
  <2>3. ASSUME NEW q \in Runner
        PROVE  StageHolds(q)'
    <3>1. CASE q = p
      BY <2>1, <3>1
         DEF StageHolds, TypeOK, Ended, Working, NextCase, Duplicate, Completed
    <3>2. CASE q # p
      BY <3>2, OthersHold DEF TypeOK
    <3>3. QED
      BY <3>1, <3>2
  <2>4. ASSUME NEW q \in Runner, ~overlapped
        PROVE  AloneHolds(q)'
    BY <2>4
       DEF Alone, AloneHolds, TypeOK, Ended, Working, Unfinished, Covered
  <2>5. QED
    BY <2>2, <2>3, <2>4 DEF Alone, InOrder
<1>4. QED
  BY <1>2, <1>3 DEF Load

\* The one field of an artifact that changes.
LEMMA CasesField ==
  ASSUME NEW k, NEW old, NEW new, NEW base, NEW x,
         base = [config |-> k, cases |-> old],
         x = [base EXCEPT !.cases = new]
  PROVE  x = [config |-> k, cases |-> new]
OBVIOUS

\* An artifact that gets the result of a case it lacks is sound as well.
LEMMA UpdatedIsSound ==
  ASSUME EvaluationInv, NEW p \in Runner, pc[p] = "replace"
  PROVE  /\ SoundRun(Updated(p))
         /\ Updated(p).config = run[p].config
         /\ Updated(p).cases = Append(run[p].cases, pending[p])
         /\ Len(Updated(p).cases) = Len(run[p].cases) + 1
         /\ \A i \in DOMAIN run[p].cases : Updated(p).cases[i] = run[p].cases[i]
         /\ Updated(p).cases[Len(run[p].cases) + 1] = pending[p]
<1>. DEFINE old == run[p].cases
            new == Append(old, pending[p])
            n == Len(old)
<1>1. /\ run[p] \in Run /\ SoundRun(run[p]) /\ run[p].config \in Config
      /\ pending[p] \in Results /\ SoundResult(pending[p])
      /\ pending[p].case \notin Completed(run[p])
  BY DEF EvaluationInv, StageHolds, Working, SoundRun, Run
<1>2. old \in Seq(Results) /\ n \in Nat /\ DOMAIN old = 1..n
  BY <1>1, CasesOfRun
<1>3. /\ new \in Seq(Results) /\ Len(new) = n + 1 /\ DOMAIN new = 1..(n + 1)
      /\ \A i \in 1..n : new[i] = old[i]
      /\ new[n + 1] = pending[p]
  BY <1>1, <1>2
<1>. HIDE DEF new, old, n
<1>4. Updated(p) = [config |-> run[p].config, cases |-> new]
  <2>1. run[p] = [config |-> run[p].config, cases |-> old]
    BY <1>1 DEF Run, old
  <2>2. Updated(p) = [run[p] EXCEPT !.cases = new]
    BY DEF Updated, new, old
  <2>3. QED
    BY <2>1, <2>2, CasesField, Zenon
<1>5. Updated(p) \in Run
  BY <1>1, <1>3, <1>4 DEF Run
<1>6. \A i \in DOMAIN new : SoundResult(new[i])
  <2>1. \A i \in DOMAIN old : SoundResult(old[i])
    BY <1>1 DEF SoundRun, old
  <2>2. QED
    BY <1>1, <1>2, <1>3, <2>1
<1>7. ASSUME NEW i \in DOMAIN new, NEW j \in DOMAIN new,
             new[i].case = new[j].case
      PROVE  i = j
  <2>1. \A k, l \in DOMAIN old : old[k].case = old[l].case => k = l
    BY <1>1 DEF SoundRun, old
  <2>2. \A k \in DOMAIN old : old[k].case # pending[p].case
    BY <1>1 DEF Completed, old
  <2>3. QED
    BY <1>2, <1>3, <1>7, <2>1, <2>2
<1>8. SoundRun(Updated(p))
  BY <1>4, <1>5, <1>6, <1>7 DEF SoundRun
<1>9. QED
  BY <1>2, <1>3, <1>4, <1>8 DEF new, old, n

\* The artifact is replaced by the one read before and the result in hand.
LEMMA ReplaceStep ==
  ASSUME EvaluationInv, NEW p \in Runner, Replace(p)
  PROVE  EvaluationInv'
<1>. USE DEF EvaluationInv
<1>1. /\ pc[p] = "replace" /\ SoundRun(run[p]) /\ run[p] \in Run
      /\ pc' = [pc EXCEPT ![p] = "loop"]
      /\ run' = [run EXCEPT ![p] = Updated(p)]
      /\ artifact' = Updated(p)
      /\ pending' = [pending EXCEPT ![p] = None]
      /\ todo' = [todo EXCEPT ![p] = todo[p] \ {Min(todo[p])}]
      /\ UNCHANGED <<summary, report, config, history>>
  BY DEF Replace, Goto, Keep, StageHolds, Working, SoundRun
<1>2. /\ SoundRun(Updated(p)) /\ Updated(p) \in Run /\ Updated(p) # None
      /\ Updated(p).config = run[p].config
      /\ Len(Updated(p).cases) = Len(run[p].cases) + 1
      /\ \A i \in DOMAIN run[p].cases : Updated(p).cases[i] = run[p].cases[i]
      /\ Updated(p).cases[Len(run[p].cases) + 1] = pending[p]
  BY <1>1, UpdatedIsSound, NoneAssumption DEF SoundRun
<1>. HIDE DEF Updated
<1>3. TypeOK' /\ RunsAreSound'
  <2>1. TypeOK'
    BY <1>1, <1>2 DEF TypeOK, Working, history
  <2>2. RunsAreSound'
    BY <1>1, <1>2 DEF TypeOK, RunsAreSound
  <2>3. QED
    BY <2>1, <2>2
<1>4. ASSUME NEW q \in Runner
      PROVE  StageHolds(q)'
  <2>1. CASE q = p
    BY <1>1, <1>2, <2>1 DEF StageHolds, TypeOK, Ended, Working
  <2>2. CASE q # p
    BY <1>1, <1>2, <2>2, OthersHold DEF TypeOK
  <2>3. QED
    BY <2>1, <2>2
<1>5. ASSUME ~overlapped
      PROVE  /\ InOrder(Updated(p)) /\ config[p] = Updated(p).config
             /\ todo'[p] = Unfinished(Updated(p))
             /\ \A q \in Runner \ {p} : pc[q] \in Ended \ {"reported"}
  <2>. DEFINE n == Len(artifact.cases)
  <2>1. /\ run[p] = artifact /\ config[p] = artifact.config
        /\ todo[p] = Unfinished(artifact) /\ todo[p] # {}
        /\ InOrder(artifact) /\ artifact \in Run
        /\ pending[p].case = NextCase(p) /\ pending[p].by = config[p]
    BY <1>1, <1>5, NoneAssumption
       DEF Alone, AloneHolds, StageHolds, Working
  <2>2. /\ Min(todo[p]) = n + 1 /\ n + 1 \in DOMAIN Selected
        /\ NextCase(p) = Selected[n + 1]
    BY <2>1, NextCaseIsNew DEF NextCase
  <2>3. /\ n \in Nat /\ DOMAIN artifact.cases = 1..n /\ n + 1 <= Len(Selected)
        /\ Len(Updated(p).cases) = n + 1
        /\ DOMAIN Updated(p).cases = 1..(n + 1)
    BY <1>2, <2>1, <2>2, CasesOfRun, SelectedCases
  <2>4. InOrder(Updated(p))
    BY <1>2, <2>1, <2>2, <2>3 DEF InOrder
  <2>5. todo'[p] = Unfinished(Updated(p))
    <3>1. todo'[p] = ((n + 1)..Len(Selected)) \ {n + 1}
      BY <1>1, <2>1, <2>2 DEF TypeOK, Unfinished
    <3>2. QED
      BY <2>3, <3>1, SelectedCases DEF Unfinished
  <2>6. ASSUME NEW q \in Runner \ {p}
        PROVE  pc[q] \in Ended \ {"reported"}
    <3>1. pc[q] \in Ended
      BY <1>1, <1>5 DEF Alone, AloneHolds, Ended
    <3>2. CASE pc[q] = "reported"
      BY <1>5, <2>1, <3>2 DEF Alone, AloneHolds
    <3>3. QED
      BY <3>1, <3>2
  <2>7. QED
    BY <1>2, <2>1, <2>4, <2>5, <2>6
<1>6. ASSUME NEW q \in Runner, ~overlapped
      PROVE  AloneHolds(q)'
  <2>1. CASE q = p
    BY <1>1, <1>5, <1>6, <2>1 DEF AloneHolds, TypeOK, Ended, Working
  <2>2. CASE q # p
    BY <1>1, <1>5, <1>6, <2>2 DEF Alone, AloneHolds, TypeOK, Ended, Working
  <2>3. QED
    BY <2>1, <2>2
<1>7. QED
  BY <1>1, <1>3, <1>4, <1>5, <1>6 DEF Alone, history

\* The summary is written, of the run in hand.
LEMMA WriteSummaryStep ==
  ASSUME EvaluationInv, NEW p \in Runner, WriteSummary(p)
  PROVE  EvaluationInv'
<1>. USE DEF EvaluationInv, WriteSummary, Goto, locals, history
<1>1. TypeOK' /\ RunsAreSound'
  BY DEF TypeOK, RunsAreSound, Working
<1>2. ASSUME NEW q \in Runner
      PROVE  StageHolds(q)'
  BY DEF StageHolds, TypeOK, Ended, Working, NextCase, Completed
<1>3. ASSUME NEW q \in Runner, ~overlapped
      PROVE  AloneHolds(q)'
  <2>1. /\ run[p] = artifact /\ artifact # None
        /\ Unfinished(artifact) = {}
        /\ \A o \in Runner \ {p} : pc[o] \in Ended
    BY <1>3, NoneAssumption
       DEF Alone, AloneHolds, StageHolds, Working, SoundRun, Ended
  <2>2. pc[q] = "reported" => report = Covered(artifact)
    BY <1>3 DEF Alone, AloneHolds
  <2>3. CASE q = p
    BY <1>3, <2>1, <2>3
       DEF Alone, AloneHolds, TypeOK, Ended, Working, Unfinished, Covered
  <2>4. CASE q # p
    BY <1>3, <2>1, <2>2, <2>4
       DEF Alone, AloneHolds, TypeOK, Ended, Working, Unfinished, Covered
  <2>5. QED
    BY <2>3, <2>4
<1>4. QED
  BY <1>1, <1>2, <1>3 DEF Alone, InOrder

\* The report is written, of the same run, and the command is over.
LEMMA WriteReportStep ==
  ASSUME EvaluationInv, NEW p \in Runner, WriteReport(p)
  PROVE  EvaluationInv'
<1>. USE DEF EvaluationInv, WriteReport, End, Goto, history
<1>1. TypeOK'
  BY DEF TypeOK, Ended
<1>2. RunsAreSound'
  BY DEF RunsAreSound, TypeOK
<1>3. ASSUME NEW q \in Runner
      PROVE  StageHolds(q)'
  <2>1. CASE q = p
    BY <2>1 DEF StageHolds, TypeOK, Ended, Working
  <2>2. CASE q # p
    BY <2>2, OthersHold DEF TypeOK
  <2>3. QED
    BY <2>1, <2>2
<1>4. ASSUME NEW q \in Runner, ~overlapped
      PROVE  AloneHolds(q)'
  <2>1. /\ run[p] = artifact /\ artifact # None
        /\ Unfinished(artifact) = {} /\ summary = Covered(artifact)
        /\ \A o \in Runner \ {p} : pc[o] \in Ended
    BY <1>4, NoneAssumption
       DEF Alone, AloneHolds, StageHolds, Working, SoundRun, Ended
  <2>2. CASE q = p
    BY <1>4, <2>1, <2>2
       DEF Alone, AloneHolds, TypeOK, Ended, Working, Unfinished, Covered
  <2>3. CASE q # p
    BY <1>4, <2>1, <2>3
       DEF Alone, AloneHolds, TypeOK, Ended, Working, Unfinished, Covered
  <2>4. QED
    BY <2>2, <2>3
<1>5. QED
  BY <1>1, <1>2, <1>3, <1>4 DEF Alone, InOrder

\* Every step of every process preserves the invariant.
LEMMA NextInv == EvaluationInv /\ [Next]_vars => EvaluationInv'
<1>. SUFFICES ASSUME EvaluationInv, [Next]_vars PROVE EvaluationInv'
  OBVIOUS
<1>1. ASSUME NEW p \in Runner, Die(p)
      PROVE  EvaluationInv'
  BY <1>1, EndStep DEF Die
<1>2. CASE UNCHANGED vars
  <2>. USE <1>2 DEF vars, files, locals, history
  <2>1. TypeOK' /\ RunsAreSound'
    BY DEF EvaluationInv, TypeOK, RunsAreSound
  <2>2. \A p \in Runner : StageHolds(p)'
    BY DEF EvaluationInv, StageHolds, NextCase
  <2>3. Alone'
    BY DEF EvaluationInv, Alone, AloneHolds, InOrder
  <2>4. QED
    BY <2>1, <2>2, <2>3 DEF EvaluationInv
<1>3. CASE Next
  BY <1>1, <1>3, StartStep, OpenStep, CreateStep, ResumeStep, RunCaseStep,
     LoadStep, ReplaceStep, WriteSummaryStep, WriteReportStep, Zenon DEF Next
<1>4. QED
  BY <1>2, <1>3

LEMMA EvaluationInvariant == Spec => []EvaluationInv
BY InitInv, NextInv, PTL DEF Spec

-----------------------------------------------------------------------------

\* Every variable has its type: among them, the artifact is a run whose
\* results are of selected cases, and the places left are in the benchmark.
THEOREM TypeCorrect == Spec => []TypeOK
<1>1. EvaluationInv => TypeOK
  BY DEF EvaluationInv
<1>2. QED
  BY <1>1, EvaluationInvariant, PTL

\* The SQL, the status and the repair a persisted result tells of are of its
\* own case, however the cases before it ended (the reset of
\* RecordingGenerationService in EvaluationRunner.run_case).
THEOREM OwnResults == Spec => []ResultsDescribeTheirCase
<1>1. EvaluationInv => ResultsDescribeTheirCase
  BY DEF EvaluationInv, RunsAreSound, SoundRun, SoundResult,
         ResultsDescribeTheirCase
<1>2. QED
  BY <1>1, EvaluationInvariant, PTL

\* No persisted result is of a rate limit, a timeout or an outage of the
\* provider: the loop of main stops before it appends one.
THEOREM NoTransientResult == Spec => []TransientFailuresAreRetried
<1>1. EvaluationInv => TransientFailuresAreRetried
  BY DEF EvaluationInv, RunsAreSound, SoundRun, SoundResult,
         TransientFailuresAreRetried
<1>2. QED
  BY <1>1, EvaluationInvariant, PTL

\* However many processes run at once, are killed and are started again, the
\* artifact has no case twice: EvaluationRunStore.append writes what it has
\* read, and looks in that for the case.
THEOREM DistinctCases == Spec => []CasesCountOnce
<1>1. EvaluationInv => CasesCountOnce
  BY DEF EvaluationInv, RunsAreSound, SoundRun, CasesCountOnce
<1>2. QED
  BY <1>1, EvaluationInvariant, PTL

\* What build_evaluation_summary divides is a part of what it divides by.
THEOREM RatesOfParts == Spec => []RatesAreBounded
<1>1. ASSUME EvaluationInv, artifact # None
      PROVE  RatesAreBounded
  <2>1. \A i \in DOMAIN artifact.cases : SoundResult(artifact.cases[i])
    BY <1>1 DEF EvaluationInv, RunsAreSound, SoundRun
  <2>2. QED
    BY <2>1
       DEF SoundResult, RatesAreBounded, RepairAttempts, RepairUsed,
           AnswerableGeneratedSQL, AnswerableSafetyAccepted,
           ExecutedAnswerable, Correct, Failures, Where, ExpectedSQL
<1>2. EvaluationInv => RatesAreBounded
  BY <1>1 DEF RatesAreBounded
<1>3. QED
  BY <1>2, EvaluationInvariant, PTL

\* A process that is alone runs no case that the artifact has, and never
\* fails for having run one: what it resumes, it takes up where it stopped.
THEOREM NoRepeatedCase == Spec => []NoCaseRunTwice
<1>1. ASSUME EvaluationInv, ~overlapped, NEW p \in Runner, pending[p] # None
      PROVE  pending[p].case \notin Completed(artifact)
  <2>1. /\ artifact \in Run /\ InOrder(artifact) /\ todo[p] # {}
        /\ todo[p] = Unfinished(artifact) /\ pending[p].case = NextCase(p)
    BY <1>1, NoneAssumption
       DEF EvaluationInv, Alone, AloneHolds, StageHolds, Working, SoundRun
  <2>2. QED
    BY <2>1, NextCaseIsNew
<1>2. EvaluationInv => NoCaseRunTwice
  BY <1>1 DEF EvaluationInv, Alone, AloneHolds, NoCaseRunTwice
<1>3. QED
  BY <1>2, EvaluationInvariant, PTL

\* When the command has returned 0 and nothing ran beside it, both reports
\* are of the artifact that is there, which has every selected case.
THEOREM CompleteReports == Spec => []ReportsAreComplete
<1>1. ASSUME EvaluationInv, ~overlapped, NEW p \in Runner, pc[p] = "reported"
      PROVE  /\ summary = Covered(artifact) /\ report = summary
             /\ summary.cases = Selected
  <2>1. /\ artifact # None /\ Unfinished(artifact) = {}
        /\ summary = Covered(artifact) /\ report = summary
    BY <1>1 DEF EvaluationInv, Alone, AloneHolds
  <2>2. artifact \in Run /\ InOrder(artifact)
    BY <1>1, <2>1 DEF EvaluationInv, Alone, TypeOK
  <2>3. DOMAIN artifact.cases = DOMAIN Selected
    <3>1. /\ Len(artifact.cases) \in Nat /\ Len(Selected) \in Nat
          /\ Len(artifact.cases) <= Len(Selected)
          /\ DOMAIN artifact.cases = 1..Len(artifact.cases)
          /\ DOMAIN Selected = 1..Len(Selected)
      BY <2>2, CasesOfRun, SelectedCases DEF InOrder
    <3>2. (Len(artifact.cases) + 1)..Len(Selected) = {}
      BY <2>1 DEF Unfinished
    <3>3. \A n, m \in Nat : n <= m /\ (n + 1)..m = {} => n = m
      <4>1. \A n, m \in Nat : n <= m /\ n # m => m \in (n + 1)..m
        OBVIOUS
      <4>2. QED
        BY <4>1
    <3>4. QED
      BY <3>1, <3>2, <3>3
  <2>4. Selected = [i \in DOMAIN Selected |-> Selected[i]]
    BY EvaluationAssumption
  <2>5. Covered(artifact).cases = Selected
    BY <2>2, <2>3, <2>4 DEF Covered, InOrder
  <2>6. QED
    BY <2>1, <2>5
<1>2. EvaluationInv => ReportsAreComplete
  BY <1>1 DEF ReportsAreComplete
<1>3. QED
  BY <1>2, EvaluationInvariant, PTL

\* While processes do not overlap, no step drops or changes a result that is
\* in the artifact, adds more than one, or adds one of another configuration.
THEOREM NothingLost == Spec => CompletedCasesRetained
<1>1. ASSUME EvaluationInv, EvaluationInv', [Next]_vars,
             ~overlapped, artifact # None
      PROVE  /\ artifact'.config = artifact.config
             /\ IsPrefix(artifact.cases, artifact'.cases)
             /\ Len(artifact'.cases) <= Len(artifact.cases) + 1
             /\ \A i \in DOMAIN artifact'.cases :
                  artifact'.cases[i].by = artifact'.config
  <2>1. artifact \in Run /\ InOrder(artifact)
    BY <1>1 DEF EvaluationInv, Alone, TypeOK
  <2>2. /\ Len(artifact.cases) \in Nat
        /\ DOMAIN artifact.cases = 1..Len(artifact.cases)
        /\ artifact.cases \in Seq(Results)
    BY <2>1, CasesOfRun
  <2>3. CASE artifact' = artifact
    <3>1. IsPrefix(artifact.cases, artifact.cases)
      BY <2>2 DEF IsPrefix
    <3>2. QED
      BY <2>1, <2>2, <2>3, <3>1 DEF InOrder
  <2>4. CASE \E p \in Runner : Replace(p)
    <3>1. PICK p \in Runner : Replace(p)
      BY <2>4
    <3>2. /\ pc[p] = "replace" /\ run[p] = artifact /\ artifact' = Updated(p)
          /\ config[p] = artifact.config /\ pending[p].by = config[p]
      BY <1>1, <3>1
         DEF EvaluationInv, Alone, AloneHolds, StageHolds, Working, Replace
    <3>3. /\ artifact'.config = artifact.config
          /\ artifact'.cases = Append(artifact.cases, pending[p])
          /\ Len(artifact'.cases) = Len(artifact.cases) + 1
          /\ \A i \in DOMAIN artifact.cases :
               artifact'.cases[i] = artifact.cases[i]
          /\ artifact'.cases[Len(artifact.cases) + 1] = pending[p]
          /\ artifact'.cases \in Seq(Results)
      BY <1>1, <3>2, UpdatedIsSound, CasesOfRun DEF SoundRun
    <3>. DEFINE old == artifact.cases
                new == artifact'.cases
                n == Len(old)
    <3>4. /\ old \in Seq(Results) /\ n \in Nat /\ new \in Seq(Results)
          /\ Len(new) = n + 1 /\ DOMAIN new = 1..(n + 1)
          /\ \A i \in 1..n : new[i] = old[i]
      BY <2>2, <3>3
    <3>5. SubSeq(old, 1, n) = SubSeq(new, 1, n)
      <4>. HIDE DEF old, new, n
      <4>1. SubSeq(new, 1, n) = [i \in 1..n |-> new[i]]
        BY <3>4
      <4>2. SubSeq(old, 1, n) = [i \in 1..n |-> old[i]]
        BY <3>4 DEF n
      <4>3. QED
        BY <3>4, <4>1, <4>2
    <3>6. IsPrefix(old, new)
      BY <3>4, <3>5 DEF IsPrefix
    <3>7. ASSUME NEW i \in DOMAIN new
          PROVE  new[i].by = artifact'.config
      <4>1. CASE i \in 1..n
        BY <2>1, <2>2, <3>3, <4>1 DEF InOrder
      <4>2. CASE i = n + 1
        BY <3>2, <3>3, <4>2
      <4>3. QED
        BY <3>4, <4>1, <4>2
    <3>8. QED
      BY <3>3, <3>4, <3>6, <3>7
  <2>5. ASSUME NEW p \in Runner
        PROVE  ~Create(p)
    BY <1>1 DEF EvaluationInv, Alone, AloneHolds, Create
  <2>6. artifact' = artifact \/ \E p \in Runner : Replace(p)
    BY <1>1, <2>5
       DEF Next, Start, Open, Resume, RunCase, Load, WriteSummary, WriteReport,
           Die, vars, files
  <2>7. QED
    BY <2>3, <2>4, <2>6
<1>2. QED
  BY <1>1, EvaluationInvariant, PTL DEF Spec, CompletedCasesRetained
-----------------------------------------------------------------------------
(***************************************************************************)
(* The comparison of two results, by which a case is correct.              *)
(***************************************************************************)

\* The rows that are compared are as wide as their result.
LEMMA RowsOfResult ==
  ASSUME NEW result \in QueryResults
  PROVE  LET rows == RowsOf(result) IN
         /\ result.columns \in Nat
         /\ Len(result.rows) \in Nat
         /\ rows \in Seq([1..result.columns -> Cells])
         /\ Len(rows) = Len(result.rows)
         /\ DOMAIN rows = 1..Len(rows)
<1>1. result.columns \in Nat /\ result.rows \in Seq([1..result.columns -> Value])
  BY ComparisonAssumption
<1>. DEFINE N == Len(result.rows)
<1>2. /\ N \in Nat /\ DOMAIN result.rows = 1..N
      /\ \A i \in 1..N : result.rows[i] \in [1..result.columns -> Value]
  BY <1>1
<1>3. \A v \in Value : Normalized(Serialized(v)) \in Cells
  BY DEF Cells
<1>4. ASSUME NEW i \in 1..N
      PROVE  [j \in DOMAIN result.rows[i] |-> Normalized(Serialized(result.rows[i][j]))]
               \in [1..result.columns -> Cells]
  BY <1>2, <1>3
<1>5. RowsOf(result) \in [1..N -> [1..result.columns -> Cells]]
  BY <1>2, <1>4 DEF RowsOf
<1>6. N \in Nat /\ DOMAIN RowsOf(result) = 1..N
  BY <1>2, <1>5
<1>. HIDE DEF N
<1>7. RowsOf(result) \in Seq([1..result.columns -> Cells]) /\ Len(RowsOf(result)) = N
  BY <1>5, <1>6
<1>8. QED
  BY <1>1, <1>6, <1>7 DEF N

LEMMA CellsHaveUnits ==
  ASSUME NEW x \in Cells
  PROVE  x.units \in Int
<1>1. PICK v \in Value : x = Normalized(Serialized(v))
  BY DEF Cells
<1>2. v.units \in Int
  BY ComparisonAssumption
<1>3. QED
  BY <1>1, <1>2 DEF Normalized, Serialized

\* The comparison of two values is the closeness of the properties, which is
\* symmetric; so is that of rows of the same width.
LEMMA EqualIsClose ==
  ASSUME tolerance \in Nat \cup {Absent}, NEW x \in Cells, NEW y \in Cells
  PROVE  /\ ValuesEqual(x, y, tolerance) <=> Close(x, y)
         /\ Close(x, y) => Close(y, x)
<1>1. x.units \in Int /\ y.units \in Int
  BY CellsHaveUnits
<1>2. {x.tag, y.tag} = {"number"} <=> x.tag = "number" /\ y.tag = "number"
  OBVIOUS
<1>3. CASE tolerance = Absent
  BY <1>3 DEF ValuesEqual, Close
<1>4. CASE tolerance \in Nat
  <2>. DEFINE d == x.units - y.units
  <2>1. /\ Distance(x, y) <= tolerance <=> d \in -tolerance..tolerance
        /\ d \in -tolerance..tolerance => y.units - x.units \in -tolerance..tolerance
    BY <1>1, <1>4 DEF Distance
  <2>2. QED
    BY <1>2, <2>1 DEF ValuesEqual, Close
<1>5. QED
  BY <1>3, <1>4

LEMMA RowsEqualAreClose ==
  ASSUME tolerance \in Nat \cup {Absent}, NEW width \in Nat,
         NEW x \in [1..width -> Cells], NEW y \in [1..width -> Cells]
  PROVE  /\ RowsEqual(x, y, tolerance) <=> RowsClose(x, y)
         /\ RowsClose(x, y) => RowsClose(y, x)
<1>1. Len(x) = Len(y) /\ DOMAIN x = 1..width /\ DOMAIN y = 1..width
  OBVIOUS
<1>2. \A i \in 1..width : x[i] \in Cells /\ y[i] \in Cells
  OBVIOUS
<1>3. QED
  BY <1>1, <1>2, EqualIsClose DEF RowsEqual, RowsClose

\* Popping a row leaves the others in their order.
LEMMA PoppedRows ==
  ASSUME NEW S, NEW s \in Seq(S), NEW m \in 1..Len(s)
  PROVE  /\ Popped(s, m) \in Seq(S) /\ Len(Popped(s, m)) = Len(s) - 1
         /\ \A x \in 1..(Len(s) - 1) :
              Popped(s, m)[x] = s[IF x < m THEN x ELSE x + 1]
<1>. DEFINE front == SubSeq(s, 1, m - 1)
            back == SubSeq(s, m + 1, Len(s))
<1>1. m \in Nat /\ 1 <= m /\ m <= Len(s) /\ Len(s) \in Nat
      /\ m - 1 \in Nat /\ m + 1 \in Nat
  OBVIOUS
<1>2. front \in Seq(S) /\ Len(front) = m - 1 /\ \A x \in 1..(m - 1) : front[x] = s[x]
  BY <1>1, SubSeqProperties
<1>3. back \in Seq(S) /\ Len(back) = Len(s) - m
      /\ \A x \in 1..(Len(s) - m) : back[x] = s[m + x]
  BY <1>1, SubSeqProperties
<1>. HIDE DEF front, back
<1>4. /\ front \o back \in Seq(S) /\ Len(front \o back) = Len(front) + Len(back)
      /\ \A x \in 1..(Len(front) + Len(back)) :
           (front \o back)[x] = IF x <= Len(front) THEN front[x] ELSE back[x - Len(front)]
  BY <1>2, <1>3, ConcatProperties
<1>5. Popped(s, m) = front \o back
  BY DEF Popped, RemoveAt, front, back
<1>6. ASSUME NEW x \in 1..(Len(s) - 1)
      PROVE  Popped(s, m)[x] = s[IF x < m THEN x ELSE x + 1]
  <2>1. CASE x < m
    BY <1>1, <1>2, <1>3, <1>4, <1>5, <2>1
  <2>2. CASE ~(x < m)
    <3>1. x - (m - 1) \in 1..(Len(s) - m) /\ m + (x - (m - 1)) = x + 1
      BY <1>1, <2>2
    <3>2. (front \o back)[x] = back[x - (m - 1)]
      BY <1>1, <1>2, <1>3, <1>4, <2>2
    <3>3. QED
      BY <1>3, <1>5, <2>2, <3>1, <3>2
  <2>3. QED
    BY <2>1, <2>2
<1>7. Len(front) + Len(back) = Len(s) - 1
  BY <1>1, <1>2, <1>3
<1>8. Popped(s, m) \in Seq(S) /\ Len(Popped(s, m)) = Len(s) - 1
  BY <1>4, <1>5, <1>7
<1>9. QED
  BY <1>6, <1>8

\* A row takes an unmatched row that is equal to it, if there is one.
LEMMA TakenRow ==
  ASSUME NEW S, Absent \notin Seq(S), NEW unmatched \in Seq(S), NEW row, NEW tol
  PROVE  LET equal == {i \in DOMAIN unmatched : RowsEqual(row, unmatched[i], tol)} IN
         /\ equal = {} => Take(unmatched, row, tol) = Absent
         /\ equal # {} => \E m \in equal : Take(unmatched, row, tol) = Popped(unmatched, m)
<1>. DEFINE equal == {i \in 1..Len(unmatched) : RowsEqual(row, unmatched[i], tol)}
            match == SelectInSeq(unmatched, LAMBDA r : RowsEqual(row, r, tol))
<1>1. DOMAIN unmatched = 1..Len(unmatched) /\ Len(unmatched) \in Nat
  OBVIOUS
<1>2. match = IF equal # {} THEN Min(equal) ELSE 0
  BY DEF SelectInSeq
<1>3. Take(unmatched, row, tol) = IF match = 0 THEN Absent ELSE Popped(unmatched, match)
  BY DEF Take
<1>4. equal # {} => Min(equal) \in equal
  <2>1. equal \in SUBSET Nat
    BY <1>1
  <2>2. QED
    BY <2>1, MinIsLeast
<1>. HIDE DEF match
<1>5. equal # {} => match \in equal /\ match # 0
  BY <1>1, <1>2, <1>4
<1>6. QED
  BY <1>1, <1>2, <1>3, <1>5

\* What is left is taken row by row.
LEMMA UnmatchedRowByRow ==
  ASSUME NEW left, Len(left) \in Nat, NEW right, NEW tol
  PROVE  LET u == Unmatched(left, right, tol) IN
         /\ u[0] = right
         /\ \A i \in 1..Len(left) : u[i] = Take(u[i - 1], left[i], tol)
<1>. DEFINE n == Len(left)
            Runs(g, k) == /\ g[0] = right
                          /\ \A i \in 1..k : g[i] = Take(g[i - 1], left[i], tol)
            Missing(k) == ~\E g : Runs(g, k)
            Stuck == {k \in 0..n : Missing(k)}
<1>1. Stuck = {}
  <2>1. SUFFICES ASSUME Stuck # {} PROVE FALSE
    OBVIOUS
  <2>. HIDE DEF Missing
  <2>2. Stuck \in SUBSET Nat
    OBVIOUS
  <2>3. PICK k \in Stuck : \A l \in Stuck : k <= l
    BY <2>1, <2>2, MinIsLeast
  <2>4. k # 0
    <3>1. Runs([x \in {0} |-> right], 0)
      OBVIOUS
    <3>2. ~Missing(0)
      BY <3>1 DEF Missing
    <3>3. QED
      BY <2>3, <3>2
  <2>5. k \in 1..n /\ k - 1 \in 0..n /\ ~(k <= k - 1)
    BY <2>4
  <2>6. PICK g : Runs(g, k - 1)
    BY <2>3, <2>5 DEF Missing
  <2>. DEFINE h == [x \in 0..k |-> IF x < k THEN g[x] ELSE Take(g[k - 1], left[k], tol)]
  <2>7. Runs(h, k)
    <3>1. h[0] = right
      BY <2>5, <2>6
    <3>2. ASSUME NEW i \in 1..k
          PROVE  h[i] = Take(h[i - 1], left[i], tol)
      <4>1. h[i - 1] = g[i - 1]
        BY <2>5
      <4>2. CASE i = k
        BY <2>5, <4>1, <4>2
      <4>3. CASE i # k
        <5>1. i \in 1..(k - 1) /\ h[i] = g[i]
          BY <2>5, <4>3
        <5>2. QED
          BY <2>6, <4>1, <5>1
      <4>4. QED
        BY <4>2, <4>3
    <3>. HIDE DEF h
    <3>3. QED
      BY <3>1, <3>2
  <2>8. QED
    BY <2>7 DEF Missing
<1>2. PICK g : Runs(g, n)
  BY <1>1
<1>. DEFINE Step(a) == [i \in 0..n |-> IF i = 0 THEN right
                                       ELSE Take(a[i - 1], left[i], tol)]
            after == [i \in 0..n |-> g[i]]
<1>3. after = Step(after)
  <2>1. \A i \in 1..n : after[i - 1] = g[i - 1]
    OBVIOUS
  <2>2. \A i \in 0..n : after[i] = IF i = 0 THEN right
                                   ELSE Take(after[i - 1], left[i], tol)
    BY <1>2, <2>1
  <2>3. after = [i \in 0..n |-> after[i]]
    OBVIOUS
  <2>. HIDE DEF after
  <2>4. QED
    BY <2>2, <2>3
<1>. HIDE DEF after
<1>4. Unmatched(left, right, tol) = CHOOSE a : a = Step(a)
  BY DEF Unmatched
<1>5. Unmatched(left, right, tol) = Step(Unmatched(left, right, tol))
  BY <1>3, <1>4
<1>. DEFINE u == Unmatched(left, right, tol)
<1>. HIDE DEF u
<1>6. u = Step(u)
  BY <1>5 DEF u
<1>7. \A i \in 0..n : u[i] = IF i = 0 THEN right ELSE Take(u[i - 1], left[i], tol)
  <2>1. \A i \in 0..n : Step(u)[i] = IF i = 0 THEN right ELSE Take(u[i - 1], left[i], tol)
    OBVIOUS
  <2>2. QED
    BY <1>6, <2>1
<1>8. u[0] = right /\ \A i \in 1..n : u[i] = Take(u[i - 1], left[i], tol)
  BY <1>7
<1>9. QED
  BY <1>8 DEF u

\* A search that succeeds has found one row of the right for each of the left.
LEMMA SearchIsSound ==
  ASSUME NEW S, Absent \notin Seq(S), NEW left \in Seq(S), NEW right \in Seq(S),
         NEW tol, UnorderedEqualWithTolerance(left, right, tol)
  PROVE  /\ Len(left) = Len(right)
         /\ \E p \in Pairings(Len(left)) :
              \A i \in DOMAIN left : RowsEqual(left[i], right[p[i]], tol)
<1>. DEFINE n == Len(left)
            u == Unmatched(left, right, tol)
            Pairs(k, l, rest, t, r) ==
              /\ t \in [1..k -> 1..n] /\ r \in [1..l -> 1..n]
              /\ \A i \in 1..k : RowsEqual(left[i], right[t[i]], tol)
              /\ \A x \in 1..l : rest[x] = right[r[x]]
              /\ \A i, j \in 1..k : t[i] = t[j] => i = j
              /\ \A x, y \in 1..l : r[x] = r[y] => x = y
              /\ \A i \in 1..k, x \in 1..l : t[i] # r[x]
            Paired(k) ==
              /\ u[k] \in Seq(S) /\ Len(u[k]) = n - k
              /\ \E t, r : Pairs(k, n - k, u[k], t, r)
<1>1. n \in Nat /\ Len(right) = n /\ u[n] # Absent /\ DOMAIN left = 1..n
  BY DEF UnorderedEqualWithTolerance
<1>2. u[0] = right /\ \A i \in 1..n : u[i] = Take(u[i - 1], left[i], tol)
  BY <1>1, UnmatchedRowByRow
<1>. HIDE DEF u
<1>3. Paired(0)
  <2>. DEFINE r == [x \in 1..n |-> x]
              t == [x \in 1..0 |-> x]
  <2>1. Pairs(0, n, right, t, r)
    BY <1>1
  <2>2. u[0] \in Seq(S) /\ Len(u[0]) = n - 0 /\ n - 0 = n
    BY <1>1, <1>2
  <2>. HIDE DEF Pairs, t, r
  <2>3. QED
    BY <1>2, <2>1, <2>2
<1>4. ASSUME NEW k \in 1..n, Paired(k - 1), u[k] # Absent
      PROVE  Paired(k)
  <2>. DEFINE s == u[k - 1]
              l == n - k
  <2>1. /\ k \in Nat /\ k - 1 \in Nat /\ k - 1 + 1 = k
        /\ l \in Nat /\ n - (k - 1) = l + 1
    BY <1>1
  <2>. HIDE DEF Pairs
  <2>2. s \in Seq(S) /\ Len(s) = l + 1 /\ DOMAIN s = 1..(l + 1)
    <3>1. s \in Seq(S) /\ Len(s) = l + 1
      BY <1>4, <2>1
    <3>2. QED
      BY <2>1, <3>1
  <2>. HIDE DEF l
  <2>3. PICK t, r : Pairs(k - 1, l + 1, s, t, r)
    <3>1. \E t, r : Pairs(k - 1, n - (k - 1), s, t, r)
      BY <1>4
    <3>2. QED
      BY <2>1, <3>1
  <2>4. u[k] = Take(s, left[k], tol)
    BY <1>2
  <2>. HIDE DEF s
  <2>5. PICK m \in 1..(l + 1) :
          RowsEqual(left[k], s[m], tol) /\ u[k] = Popped(s, m)
    <3>1. CASE {i \in DOMAIN s : RowsEqual(left[k], s[i], tol)} = {}
      BY <1>4, <2>2, <2>4, <3>1, TakenRow
    <3>2. CASE {i \in DOMAIN s : RowsEqual(left[k], s[i], tol)} # {}
      BY <2>2, <2>4, <3>2, TakenRow
    <3>3. QED
      BY <3>1, <3>2
  <2>. DEFINE up(x) == IF x < m THEN x ELSE x + 1
              tt == [i \in 1..k |-> IF i < k THEN t[i] ELSE r[m]]
              rr == [x \in 1..l |-> r[up(x)]]
  <2>6. /\ u[k] \in Seq(S) /\ Len(u[k]) = l
        /\ \A x \in 1..l : u[k][x] = s[up(x)]
    <3>1. m \in 1..Len(s) /\ Len(s) - 1 = l
      BY <2>1, <2>2
    <3>2. QED
      BY <2>2, <2>5, <3>1, PoppedRows
  <2>7. /\ \A x \in 1..l : up(x) \in 1..(l + 1) /\ up(x) # m
        /\ \A x, y \in 1..l : up(x) = up(y) => x = y
    BY <2>1
  <2>8. \A x \in 1..l : rr[x] = r[up(x)]
    OBVIOUS
  <2>. HIDE DEF up
  <2>9. /\ \A i \in 1..k : i # k => i \in 1..(k - 1) /\ tt[i] = t[i]
        /\ tt[k] = r[m] /\ k \in 1..k
    BY <2>1
  <2>10. /\ t \in [1..(k - 1) -> 1..n] /\ r \in [1..(l + 1) -> 1..n]
         /\ \A i \in 1..(k - 1) : RowsEqual(left[i], right[t[i]], tol)
         /\ \A x \in 1..(l + 1) : s[x] = right[r[x]]
         /\ \A i, j \in 1..(k - 1) : t[i] = t[j] => i = j
         /\ \A x, y \in 1..(l + 1) : r[x] = r[y] => x = y
         /\ \A i \in 1..(k - 1), x \in 1..(l + 1) : t[i] # r[x]
    BY <2>3 DEF Pairs
  <2>11. tt \in [1..k -> 1..n] /\ rr \in [1..l -> 1..n]
    <3>1. \A i \in 1..k : tt[i] \in 1..n
      BY <2>9, <2>10
    <3>2. \A x \in 1..l : rr[x] \in 1..n
      BY <2>7, <2>8, <2>10
    <3>3. tt = [i \in 1..k |-> tt[i]] /\ rr = [x \in 1..l |-> rr[x]]
      OBVIOUS
    <3>. HIDE DEF tt, rr
    <3>4. QED
      BY <3>1, <3>2, <3>3
  <2>. HIDE DEF tt, rr
  <2>12. \A i \in 1..k : RowsEqual(left[i], right[tt[i]], tol)
    BY <2>5, <2>9, <2>10
  <2>13. \A x \in 1..l : u[k][x] = right[rr[x]]
    BY <2>6, <2>7, <2>8, <2>10
  <2>14. \A i, j \in 1..k : tt[i] = tt[j] => i = j
    <3>1. \A i \in 1..k : i # k => tt[i] # tt[k]
      BY <2>5, <2>9, <2>10
    <3>2. \A i, j \in 1..k : i # k /\ j # k /\ tt[i] = tt[j] => i = j
      BY <2>9, <2>10
    <3>3. QED
      BY <3>1, <3>2
  <2>15. \A x, y \in 1..l : rr[x] = rr[y] => x = y
    BY <2>7, <2>8, <2>10
  <2>16. \A i \in 1..k, x \in 1..l : tt[i] # rr[x]
    <3>1. \A i \in 1..k, x \in 1..l : i # k => tt[i] # rr[x]
      BY <2>7, <2>8, <2>9, <2>10
    <3>2. ASSUME NEW x \in 1..l
          PROVE  tt[k] # rr[x]
      <4>1. up(x) \in 1..(l + 1) /\ up(x) # m /\ rr[x] = r[up(x)] /\ tt[k] = r[m]
        BY <2>7, <2>8, <2>9
      <4>2. r[up(x)] # r[m]
        BY <2>5, <2>10, <4>1
      <4>3. QED
        BY <4>1, <4>2
    <3>3. QED
      BY <3>1, <3>2
  <2>17. Pairs(k, l, u[k], tt, rr)
    BY <2>11, <2>12, <2>13, <2>14, <2>15, <2>16 DEF Pairs
  <2>18. QED
    BY <2>6, <2>17 DEF l
<1>5. ASSUME NEW k \in 1..n, u[k - 1] = Absent
      PROVE  u[k] = Absent
  BY <1>2, <1>5 DEF Take
<1>. DEFINE Wrong == {k \in 0..n : u[k] # Absent /\ ~Paired(k)}
<1>. HIDE DEF Paired
<1>6. Wrong = {}
  <2>1. SUFFICES ASSUME Wrong # {} PROVE FALSE
    OBVIOUS
  <2>2. PICK k \in Wrong : \A i \in Wrong : k <= i
    <3>1. Wrong \in SUBSET Nat
      BY <1>1
    <3>2. QED
      BY <2>1, <3>1, MinIsLeast
  <2>3. k \in 1..n /\ k - 1 \in 0..n /\ ~(k <= k - 1)
    BY <1>1, <1>3, <2>2
  <2>4. u[k - 1] # Absent /\ Paired(k - 1)
    BY <1>5, <2>2, <2>3
  <2>5. QED
    BY <1>4, <2>2, <2>3, <2>4
<1>7. Paired(n)
  BY <1>1, <1>6
<1>8. PICK t : /\ t \in [1..n -> 1..n]
               /\ \A i \in 1..n : RowsEqual(left[i], right[t[i]], tol)
               /\ \A i, j \in 1..n : t[i] = t[j] => i = j
  BY <1>7 DEF Paired
<1>9. t \in Pairings(n)
  BY <1>8 DEF Pairings
<1>10. QED
  BY <1>1, <1>8, <1>9

\* And a search succeeds if there is a row of the right for each of the left,
\* whatever it takes first, when two rows can exchange what they are equal to.
LEMMA SearchIsComplete ==
  ASSUME NEW S, NEW T, Absent \notin Seq(T),
         NEW left \in Seq(S), NEW right \in Seq(T), NEW tol,
         Len(left) = Len(right), NEW p \in Pairings(Len(left)),
         \A i \in DOMAIN left : RowsEqual(left[i], right[p[i]], tol),
         \A a, b \in S, x, y \in T :
           RowsEqual(a, x, tol) /\ RowsEqual(b, x, tol) /\ RowsEqual(b, y, tol)
             => RowsEqual(a, y, tol)
  PROVE  UnorderedEqualWithTolerance(left, right, tol)
<1>. DEFINE n == Len(left)
            u == Unmatched(left, right, tol)
            Partners(k, l, rest, q) ==
              /\ q \in [(k + 1)..n -> 1..l]
              /\ \A i \in (k + 1)..n : RowsEqual(left[i], rest[q[i]], tol)
              /\ \A i, j \in (k + 1)..n : q[i] = q[j] => i = j
            Served(k) ==
              /\ u[k] \in Seq(T) /\ Len(u[k]) = n - k
              /\ \E q : Partners(k, n - k, u[k], q)
<1>1. n \in Nat /\ Len(right) = n /\ DOMAIN left = 1..n
      /\ \A i \in 1..n : left[i] \in S
  OBVIOUS
<1>2. u[0] = right /\ \A i \in 1..n : u[i] = Take(u[i - 1], left[i], tol)
  BY <1>1, UnmatchedRowByRow
<1>. HIDE DEF u
<1>3. Served(0)
  <2>1. /\ p \in [1..n -> 1..n]
        /\ \A i, j \in 1..n : p[i] = p[j] => i = j
    BY DEF Pairings
  <2>2. 0 + 1 = 1 /\ n - 0 = n
    BY <1>1
  <2>3. Partners(0, n, right, p)
    BY <1>1, <2>1, <2>2
  <2>. HIDE DEF Partners
  <2>4. QED
    BY <1>1, <1>2, <2>2, <2>3
<1>4. ASSUME NEW k \in 1..n, Served(k - 1)
      PROVE  Served(k)
  <2>. DEFINE s == u[k - 1]
              l == n - k
  <2>1. /\ k \in Nat /\ k - 1 + 1 = k
        /\ l \in Nat /\ n - (k - 1) = l + 1
    BY <1>1
  <2>. HIDE DEF Partners
  <2>2. s \in Seq(T) /\ Len(s) = l + 1 /\ DOMAIN s = 1..(l + 1)
    <3>1. s \in Seq(T) /\ Len(s) = l + 1
      BY <1>4, <2>1
    <3>2. QED
      BY <2>1, <3>1
  <2>. HIDE DEF l
  <2>3. PICK q : Partners(k - 1, l + 1, s, q)
    BY <1>4, <2>1
  <2>4. /\ q \in [k..n -> 1..(l + 1)]
        /\ \A i \in k..n : RowsEqual(left[i], s[q[i]], tol)
        /\ \A i, j \in k..n : q[i] = q[j] => i = j
    BY <2>1, <2>3 DEF Partners
  <2>5. u[k] = Take(s, left[k], tol)
    BY <1>2
  <2>. HIDE DEF s
  <2>6. k \in k..n /\ (\A i \in (k + 1)..n : i \in k..n /\ i # k /\ i \in 1..n)
    BY <1>1, <2>1
  <2>7. PICK m \in 1..(l + 1) :
          RowsEqual(left[k], s[m], tol) /\ u[k] = Popped(s, m)
    <3>1. q[k] \in {i \in DOMAIN s : RowsEqual(left[k], s[i], tol)}
      BY <2>2, <2>4, <2>6
    <3>2. QED
      BY <2>2, <2>5, <3>1, TakenRow
  <2>8. /\ u[k] \in Seq(T) /\ Len(u[k]) = l
        /\ \A x \in 1..l : u[k][x] = s[IF x < m THEN x ELSE x + 1]
    <3>1. m \in 1..Len(s) /\ Len(s) - 1 = l
      BY <2>1, <2>2
    <3>2. QED
      BY <2>2, <2>7, <3>1, PoppedRows
  <2>. DEFINE other(i) == IF q[i] = m THEN q[k] ELSE q[i]
              down(x) == IF x < m THEN x ELSE x - 1
              qq == [i \in (k + 1)..n |-> down(other(i))]
  <2>9. \A x \in 1..(l + 1) : x # m => down(x) \in 1..l /\ u[k][down(x)] = s[x]
    <3>1. ASSUME NEW x \in 1..(l + 1), x # m
          PROVE  down(x) \in 1..l
                 /\ (IF down(x) < m THEN down(x) ELSE down(x) + 1) = x
      BY <2>1, <3>1
    <3>. HIDE DEF down
    <3>2. QED
      BY <2>8, <3>1
  <2>10. \A x, y \in 1..(l + 1) : x # m /\ y # m /\ down(x) = down(y) => x = y
    BY <2>1
  <2>11. ASSUME NEW i \in (k + 1)..n
         PROVE  /\ other(i) \in 1..(l + 1) /\ other(i) # m
                /\ RowsEqual(left[i], s[other(i)], tol)
    <3>1. /\ q[i] \in 1..(l + 1) /\ q[k] \in 1..(l + 1) /\ q[i] # q[k]
          /\ RowsEqual(left[i], s[q[i]], tol) /\ RowsEqual(left[k], s[q[k]], tol)
      BY <2>4, <2>6
    <3>2. \A x \in 1..(l + 1) : s[x] \in T
      BY <2>2
    <3>3. left[i] \in S /\ left[k] \in S
      BY <1>1, <2>6
    <3>4. q[i] = m => RowsEqual(left[i], s[q[k]], tol)
      BY <2>7, <3>1, <3>2, <3>3
    <3>5. QED
      BY <3>1, <3>4
  <2>12. \A i, j \in (k + 1)..n : other(i) = other(j) => i = j
    BY <2>4, <2>6
  <2>13. \A i \in (k + 1)..n : qq[i] = down(other(i))
    OBVIOUS
  <2>. HIDE DEF down, other
  <2>14. qq \in [(k + 1)..n -> 1..l]
    BY <2>9, <2>11
  <2>. HIDE DEF qq
  <2>15. \A i \in (k + 1)..n : RowsEqual(left[i], u[k][qq[i]], tol)
    BY <2>9, <2>11, <2>13
  <2>16. \A i, j \in (k + 1)..n : qq[i] = qq[j] => i = j
    BY <2>10, <2>11, <2>12, <2>13
  <2>17. Partners(k, l, u[k], qq)
    BY <2>14, <2>15, <2>16 DEF Partners
  <2>18. QED
    BY <2>8, <2>17 DEF l
<1>. DEFINE Wrong == {k \in 0..n : ~Served(k)}
<1>. HIDE DEF Served
<1>5. Wrong = {}
  <2>1. SUFFICES ASSUME Wrong # {} PROVE FALSE
    OBVIOUS
  <2>2. PICK k \in Wrong : \A i \in Wrong : k <= i
    <3>1. Wrong \in SUBSET Nat
      BY <1>1
    <3>2. QED
      BY <2>1, <3>1, MinIsLeast
  <2>3. k \in 1..n /\ k - 1 \in 0..n /\ ~(k <= k - 1)
    BY <1>1, <1>3, <2>2
  <2>4. QED
    BY <1>4, <2>2, <2>3
<1>6. u[n] \in Seq(T)
  BY <1>1, <1>5 DEF Served
<1>7. QED
  BY <1>1, <1>6 DEF UnorderedEqualWithTolerance, u

\* Rows that are counted alike are the same rows.
LEMMA CountedAlike ==
  ASSUME NEW S, NEW left \in Seq(S), NEW right \in Seq(S),
         Counter(left) = Counter(right)
  PROVE  \E p \in Injection(DOMAIN left, DOMAIN right) :
           \A i \in DOMAIN left : right[p[i]] = left[i]
<1>. DEFINE At(rows, row) == {i \in DOMAIN rows : rows[i] = row}
<1>1. /\ Len(left) \in Nat /\ DOMAIN left = 1..Len(left)
      /\ Len(right) \in Nat /\ DOMAIN right = 1..Len(right)
  OBVIOUS
<1>2. \A row : IsFiniteSet(At(left, row)) /\ IsFiniteSet(At(right, row))
  <2>1. IsFiniteSet(DOMAIN left) /\ IsFiniteSet(DOMAIN right)
    BY <1>1, FS_Interval
  <2>2. QED
    BY <2>1, FS_Subset
<1>3. ASSUME NEW row \in ToSet(left)
      PROVE  \E f : f \in Bijection(At(left, row), At(right, row))
  <2>. DEFINE countl == [r \in ToSet(left) |-> Cardinality(At(left, r))]
              countr == [r \in ToSet(right) |-> Cardinality(At(right, r))]
  <2>1. countl = countr
    BY DEF Counter
  <2>2. row \in ToSet(right)
    <3>1. DOMAIN countl = ToSet(left) /\ DOMAIN countr = ToSet(right)
      OBVIOUS
    <3>. HIDE DEF countl, countr
    <3>2. QED
      BY <2>1, <3>1
  <2>3. countl[row] = Cardinality(At(left, row)) /\ countr[row] = Cardinality(At(right, row))
    BY <2>2
  <2>. HIDE DEF countl, countr, At
  <2>4. ExistsBijection(At(left, row), At(right, row))
    BY <1>2, <2>1, <2>3, FS_SameCardinalityBij
  <2>5. QED
    BY <2>4 DEF ExistsBijection
<1>. DEFINE b(row) == CHOOSE f : f \in Bijection(At(left, row), At(right, row))
            p == [i \in DOMAIN left |-> b(left[i])[i]]
<1>4. ASSUME NEW i \in DOMAIN left
      PROVE  left[i] \in ToSet(left) /\ i \in At(left, left[i])
             /\ b(left[i]) \in Bijection(At(left, left[i]), At(right, left[i]))
  <2>1. left[i] \in ToSet(left) /\ i \in At(left, left[i])
    BY DEF ToSet
  <2>. HIDE DEF At
  <2>2. QED
    BY <1>3, <2>1
<1>. HIDE DEF b
<1>5. ASSUME NEW i \in DOMAIN left
      PROVE  p[i] \in At(right, left[i])
  <2>1. b(left[i]) \in [At(left, left[i]) -> At(right, left[i])]
    BY <1>4 DEF Bijection, Injection
  <2>2. i \in At(left, left[i])
    BY <1>4
  <2>. HIDE DEF At
  <2>3. QED
    BY <2>1, <2>2
<1>6. ASSUME NEW i \in DOMAIN left, NEW j \in DOMAIN left, p[i] = p[j]
      PROVE  i = j
  <2>1. left[i] = left[j]
    BY <1>5, <1>6
  <2>2. IsInjective(b(left[i]))  /\ DOMAIN b(left[i]) = At(left, left[i])
    BY <1>4 DEF Bijection, Injection
  <2>3. i \in At(left, left[i]) /\ j \in At(left, left[i])
    BY <2>1
  <2>4. b(left[i])[i] = b(left[i])[j]
    BY <1>6, <2>1
  <2>. HIDE DEF At
  <2>5. QED
    BY <2>2, <2>3, <2>4 DEF IsInjective
<1>7. p \in [DOMAIN left -> DOMAIN right] /\ \A i \in DOMAIN left : right[p[i]] = left[i]
  BY <1>5
<1>. HIDE DEF p
<1>8. p \in Injection(DOMAIN left, DOMAIN right)
  BY <1>6, <1>7, Fun_IsInj
<1>9. QED
  BY <1>7, <1>8

\* So they pair off.
LEMMA CountedAlikePairOff ==
  ASSUME NEW S, NEW left \in Seq(S), NEW right \in Seq(S),
         Counter(left) = Counter(right)
  PROVE  /\ Len(left) = Len(right)
         /\ \E p \in Pairings(Len(left)) :
              \A i \in DOMAIN left : right[p[i]] = left[i]
<1>. DEFINE n == Len(left)
            m == Len(right)
<1>1. n \in Nat /\ m \in Nat /\ DOMAIN left = 1..n /\ DOMAIN right = 1..m
  OBVIOUS
<1>2. PICK p \in Injection(DOMAIN left, DOMAIN right) :
        \A i \in DOMAIN left : right[p[i]] = left[i]
  BY CountedAlike
<1>3. PICK q \in Injection(DOMAIN right, DOMAIN left) : TRUE
  BY CountedAlike
<1>. HIDE DEF n, m
<1>4. n = m
  <2>1. p \in Injection(1..n, 1..m) /\ q \in Injection(1..m, 1..n)
    BY <1>1
  <2>2. /\ IsFiniteSet(1..n) /\ Cardinality(1..n) = n
        /\ IsFiniteSet(1..m) /\ Cardinality(1..m) = m
    BY <1>1, FS_Interval
  <2>3. n <= m /\ m <= n
    BY <2>1, <2>2, FS_Injection
  <2>4. QED
    BY <1>1, <2>3
<1>5. p \in Pairings(n)
  <2>1. p \in [1..n -> 1..n] /\ \A i, j \in 1..n : p[i] = p[j] => i = j
    BY <1>1, <1>4 DEF Injection, IsInjective
  <2>2. QED
    BY <2>1 DEF Pairings
<1>6. QED
  BY <1>2, <1>4, <1>5 DEF n, m

\* The same rows, in another order, are counted alike.
LEMMA PairedAreCountedAlike ==
  ASSUME NEW S, NEW left \in Seq(S), NEW right \in Seq(S),
         Len(left) = Len(right), NEW p \in Pairings(Len(left)),
         \A i \in DOMAIN left : left[i] = right[p[i]]
  PROVE  Counter(left) = Counter(right)
<1>. DEFINE n == Len(left)
            At(rows, row) == {i \in DOMAIN rows : rows[i] = row}
<1>1. n \in Nat /\ DOMAIN left = 1..n /\ DOMAIN right = 1..n
  OBVIOUS
<1>2. p \in [1..n -> 1..n] /\ \A i, j \in 1..n : p[i] = p[j] => i = j
  BY DEF Pairings
<1>. HIDE DEF n
<1>3. IsFiniteSet(1..n)
  BY <1>1, FS_Interval
<1>4. \A j \in 1..n : \E i \in 1..n : p[i] = j
  <2>1. p \in Injection(1..n, 1..n)
    BY <1>2, Fun_IsInj
  <2>2. p \in Surjection(1..n, 1..n)
    BY <1>3, <2>1, FS_Injection
  <2>3. QED
    BY <2>2 DEF Surjection
<1>5. ToSet(left) = ToSet(right)
  <2>1. \A i \in 1..n : left[i] = right[p[i]] /\ p[i] \in 1..n
    BY <1>1, <1>2
  <2>2. \A j \in 1..n : \E i \in 1..n : right[j] = left[i]
    BY <1>4, <2>1
  <2>3. QED
    <3>1. ToSet(left) = {left[i] : i \in 1..n} /\ ToSet(right) = {right[i] : i \in 1..n}
      BY <1>1 DEF ToSet
    <3>2. ToSet(left) \subseteq ToSet(right)
      BY <2>1, <3>1
    <3>3. ToSet(right) \subseteq ToSet(left)
      BY <2>2, <3>1
    <3>4. QED
      BY <3>2, <3>3
<1>6. ASSUME NEW row
      PROVE  Cardinality(At(left, row)) = Cardinality(At(right, row))
  <2>. DEFINE f == [i \in At(left, row) |-> p[i]]
  <2>1. f \in [At(left, row) -> At(right, row)]
    BY <1>1, <1>2
  <2>2. \A i, j \in At(left, row) : f[i] = f[j] => i = j
    BY <1>1, <1>2
  <2>3. \A j \in At(right, row) : \E i \in At(left, row) : f[i] = j
    BY <1>1, <1>2, <1>4
  <2>4. IsFiniteSet(At(left, row))
    BY <1>1, <1>3, FS_Subset
  <2>. HIDE DEF f, At
  <2>5. f \in Bijection(At(left, row), At(right, row))
    BY <2>1, <2>2, <2>3, Fun_IsInj, Fun_IsSurj DEF Bijection
  <2>6. ExistsBijection(At(left, row), At(right, row))
    BY <2>5 DEF ExistsBijection
  <2>7. QED
    BY <2>4, <2>6, FS_Bijection
<1>7. QED
  BY <1>5, <1>6 DEF Counter

\* What is compared: the rows of both results, of one width.
LEMMA ComparedRows ==
  ASSUME ComparisonInv, generated.columns = reference.columns
  PROVE  LET left  == RowsOf(generated)
             right == RowsOf(reference)
             w     == generated.columns
         IN /\ w \in Nat
            /\ left \in Seq([1..w -> Cells]) /\ right \in Seq([1..w -> Cells])
            /\ Len(left) \in Nat /\ DOMAIN left = 1..Len(left)
            /\ Len(right) \in Nat /\ DOMAIN right = 1..Len(right)
            /\ Len(left) = Len(generated.rows)
            /\ \A i \in DOMAIN left : left[i] \in [1..w -> Cells]
            /\ \A i \in DOMAIN right : right[i] \in [1..w -> Cells]
            /\ tolerance \in Nat \cup {Absent}
            /\ mode \in {"scalar", "ordered_rows", "unordered_rows"}
            /\ Absent \notin Seq([1..w -> Cells])
<1>. DEFINE left == RowsOf(generated)
            right == RowsOf(reference)
            w == generated.columns
<1>1. /\ w \in Nat /\ Len(generated.rows) \in Nat
      /\ left \in Seq([1..w -> Cells]) /\ Len(left) = Len(generated.rows)
      /\ DOMAIN left = 1..Len(left)
  BY RowsOfResult DEF ComparisonInv
<1>2. /\ Len(reference.rows) \in Nat
      /\ right \in Seq([1..w -> Cells]) /\ Len(right) = Len(reference.rows)
      /\ DOMAIN right = 1..Len(right)
  <2>1. /\ Len(reference.rows) \in Nat
        /\ right \in Seq([1..reference.columns -> Cells])
        /\ Len(right) = Len(reference.rows) /\ DOMAIN right = 1..Len(right)
    BY RowsOfResult DEF ComparisonInv
  <2>2. QED
    BY <2>1
<1>3. Absent \notin Seq([1..w -> Cells])
  <2>1. \A row \in [1..w -> Cells] : row \in Seq(Cells)
    BY <1>1
  <2>2. \A rows \in Seq([1..w -> Cells]) : rows \in Seq(Seq(Cells))
    BY <2>1
  <2>3. QED
    BY <2>2, ComparisonAssumption
<1>. HIDE DEF left, right, w
<1>4. tolerance \in Nat \cup {Absent} /\ mode \in {"scalar", "ordered_rows", "unordered_rows"}
  BY ComparisonAssumption DEF ComparisonInv
<1>5. /\ \A i \in DOMAIN left : left[i] \in [1..w -> Cells]
      /\ \A i \in DOMAIN right : right[i] \in [1..w -> Cells]
  BY <1>1, <1>2
<1>6. QED
  BY <1>1, <1>2, <1>3, <1>4, <1>5 DEF left, right, w

LEMMA ElementsOfSequence ==
  ASSUME NEW S, NEW s \in Seq(S)
  PROVE  s \in Seq(ToSet(s))
<1>1. Len(s) \in Nat /\ s \in [1..Len(s) -> S]
  OBVIOUS
<1>2. \A i \in 1..Len(s) : s[i] \in ToSet(s)
  BY <1>1 DEF ToSet
<1>3. s = [i \in 1..Len(s) |-> s[i]]
  BY <1>1
<1>4. s \in [1..Len(s) -> ToSet(s)]
  BY <1>2, <1>3
<1>5. QED
  BY <1>1, <1>4

\* A pairing that changes no place.
LEMMA SamePlaces ==
  ASSUME NEW k \in Nat
  PROVE  [i \in 1..k |-> i] \in Pairings(k)
BY DEF Pairings

\* What matches is the same.
LEMMA MatchedIsSame ==
  ASSUME tolerance \in Nat \cup {Absent},
         mode \in {"scalar", "ordered_rows", "unordered_rows"},
         NEW w \in Nat, NEW S, S \subseteq [1..w -> Cells], Absent \notin Seq(S),
         NEW left \in Seq(S), NEW right \in Seq(S),
         mode = "scalar" => Len(left) = 1 /\ Len(right) = 1 /\ w = 1,
         Matched(left, right)
  PROVE  SameRows(left, right)
<1>1. /\ Len(left) \in Nat /\ DOMAIN left = 1..Len(left)
      /\ Len(right) \in Nat /\ DOMAIN right = 1..Len(right)
      /\ \A i \in DOMAIN left : left[i] \in S
      /\ \A i \in DOMAIN right : right[i] \in S
  OBVIOUS
<1>3. \A x, y \in S : RowsEqual(x, y, tolerance) <=> RowsClose(x, y)
  BY <1>1, RowsEqualAreClose
<1>4. CASE mode = "scalar"
  <2>1. Len(left) = 1 /\ Len(right) = 1 /\ w = 1
    BY <1>4
  <2>2. ValuesEqual(left[1][1], right[1][1], tolerance)
    BY <1>4 DEF Matched
  <2>3. left[1] \in S /\ right[1] \in S /\ left[1][1] \in Cells /\ right[1][1] \in Cells
        /\ DOMAIN left[1] = 1..1
    BY <1>1, <2>1
  <2>4. Close(left[1][1], right[1][1])
    BY <1>1, <2>2, <2>3, EqualIsClose
  <2>5. RowsClose(left[1], right[1])
    BY <2>3, <2>4 DEF RowsClose
  <2>6. \A i \in DOMAIN left : i = 1
    BY <1>1, <2>1
  <2>. DEFINE p == [i \in 1..Len(left) |-> i]
  <2>7. p \in Pairings(Len(left)) /\ \A i \in DOMAIN left : p[i] = i
    BY <1>1, SamePlaces
  <2>. HIDE DEF p
  <2>8. \A i \in DOMAIN left : RowsClose(left[i], right[p[i]])
    BY <2>5, <2>6, <2>7
  <2>9. QED
    BY <2>1, <2>7, <2>8 DEF SameRows
<1>5. CASE mode = "ordered_rows"
  <2>1. OrderedEqual(left, right, tolerance)
    BY <1>5 DEF Matched
  <2>2. Len(left) = Len(right) /\ \A i \in DOMAIN left : RowsClose(left[i], right[i])
    BY <1>1, <1>3, <2>1 DEF OrderedEqual
  <2>. DEFINE p == [i \in 1..Len(left) |-> i]
  <2>3. p \in Pairings(Len(left)) /\ \A i \in DOMAIN left : p[i] = i
    BY <1>1, SamePlaces
  <2>. HIDE DEF p
  <2>4. \A i \in DOMAIN left : RowsClose(left[i], right[p[i]])
    BY <2>2, <2>3
  <2>5. QED
    BY <2>2, <2>3, <2>4 DEF SameRows
<1>6. CASE mode = "unordered_rows" /\ tolerance = Absent
  <2>1. Counter(left) = Counter(right)
    BY <1>6 DEF Matched
  <2>2. Len(left) = Len(right)
    BY <2>1, CountedAlikePairOff
  <2>3. PICK p \in Pairings(Len(left)) : \A i \in DOMAIN left : right[p[i]] = left[i]
    BY <2>1, CountedAlikePairOff
  <2>4. \A i \in DOMAIN left : RowsClose(left[i], right[p[i]])
    BY <2>3 DEF RowsClose, Close
  <2>5. QED
    BY <1>6, <2>2, <2>4 DEF SameRows
<1>7. CASE mode = "unordered_rows" /\ tolerance # Absent
  <2>1. UnorderedEqualWithTolerance(left, right, tolerance)
    BY <1>7 DEF Matched
  <2>2. /\ Len(left) = Len(right)
        /\ \E p \in Pairings(Len(left)) :
             \A i \in DOMAIN left : RowsEqual(left[i], right[p[i]], tolerance)
    BY <1>1, <2>1, SearchIsSound
  <2>3. PICK p \in Pairings(Len(left)) :
          \A i \in DOMAIN left : RowsEqual(left[i], right[p[i]], tolerance)
    BY <2>2
  <2>4. \A i \in DOMAIN left : p[i] \in DOMAIN right
    BY <1>1, <2>2 DEF Pairings
  <2>5. \A i \in DOMAIN left : RowsClose(left[i], right[p[i]])
    BY <1>1, <1>3, <2>3, <2>4
  <2>6. QED
    BY <1>7, <2>2, <2>5 DEF SameRows
<1>8. QED
  BY <1>1, <1>4, <1>5, <1>6, <1>7

\* What is the same matches, if closeness is transitive.
LEMMA SameIsMatched ==
  ASSUME tolerance \in Nat \cup {Absent},
         mode \in {"scalar", "ordered_rows", "unordered_rows"},
         NEW w \in Nat, NEW S, S \subseteq [1..w -> Cells], Absent \notin Seq(S),
         NEW left \in Seq(S), NEW right \in Seq(S),
         mode = "scalar" => Len(left) = 1 /\ Len(right) = 1 /\ w = 1,
         CloseIsTransitive(ToSet(left) \cup ToSet(right)),
         SameRows(left, right)
  PROVE  Matched(left, right)
<1>1. /\ Len(left) \in Nat /\ DOMAIN left = 1..Len(left)
      /\ Len(right) \in Nat /\ DOMAIN right = 1..Len(right)
      /\ \A i \in DOMAIN left : left[i] \in S
      /\ \A i \in DOMAIN right : right[i] \in S
  OBVIOUS
<1>3. \A x, y \in S : /\ RowsEqual(x, y, tolerance) <=> RowsClose(x, y)
                      /\ RowsClose(x, y) => RowsClose(y, x)
  BY <1>1, RowsEqualAreClose
<1>4. PICK p \in Pairings(Len(left)) :
        /\ \A i \in DOMAIN left : RowsClose(left[i], right[p[i]])
        /\ mode # "unordered_rows" => \A i \in DOMAIN left : p[i] = i
  BY DEF SameRows
<1>5. Len(left) = Len(right)
  BY DEF SameRows
<1>6. \A i \in DOMAIN left : p[i] \in DOMAIN right /\ RowsEqual(left[i], right[p[i]], tolerance)
  <2>1. \A i \in DOMAIN left : p[i] \in DOMAIN right
    BY <1>1, <1>4, <1>5 DEF Pairings
  <2>2. QED
    BY <1>1, <1>3, <1>4, <2>1
<1>7. CASE mode = "scalar"
  <2>1. Len(left) = 1 /\ Len(right) = 1 /\ w = 1
    BY <1>7 
  <2>2. 1 \in DOMAIN left /\ RowsEqual(left[1], right[1], tolerance)
    BY <1>1, <1>4, <1>6, <1>7, <2>1
  <2>3. 1 \in DOMAIN left[1]
    BY <1>1, <2>1, <2>2
  <2>4. ValuesEqual(left[1][1], right[1][1], tolerance)
    BY <2>2, <2>3 DEF RowsEqual
  <2>5. QED
    BY <1>7, <2>4 DEF Matched
<1>8. CASE mode = "ordered_rows"
  <2>1. OrderedEqual(left, right, tolerance)
    BY <1>4, <1>5, <1>6, <1>8 DEF OrderedEqual
  <2>2. QED
    BY <1>8, <2>1 DEF Matched
<1>9. CASE mode = "unordered_rows" /\ tolerance = Absent
  <2>1. ASSUME NEW i \in DOMAIN left
        PROVE  left[i] = right[p[i]]
    <3>1. left[i] \in S /\ right[p[i]] \in S
      BY <1>1, <1>6
    <3>. DEFINE x == left[i]
                y == right[p[i]]
    <3>2. \A c \in 1..w : x[c] = y[c]
      BY <1>4, <1>9, <3>1 DEF RowsClose, Close
    <3>3. x = [c \in 1..w |-> x[c]] /\ y = [c \in 1..w |-> y[c]]
      BY <3>1
    <3>. HIDE DEF x, y
    <3>4. x = y
      BY <3>2, <3>3
    <3>5. QED
      BY <3>4 DEF x, y
  <2>2. Counter(left) = Counter(right)
    BY <1>1, <1>5, <2>1, PairedAreCountedAlike
  <2>3. QED
    BY <1>9, <2>2 DEF Matched
<1>10. CASE mode = "unordered_rows" /\ tolerance # Absent
  <2>. DEFINE L == ToSet(left)
              R == ToSet(right)
  <2>1. /\ \A i \in DOMAIN left : left[i] \in L
        /\ \A i \in DOMAIN right : right[i] \in R
        /\ \A x \in L \cup R : x \in S
    BY <1>1 DEF ToSet
  <2>2. left \in Seq(L) /\ right \in Seq(R)
    BY ElementsOfSequence
  <2>3. Absent \notin Seq(R)
    <3>. HIDE DEF R
    <3>1. \A s \in Seq(R) : s \in Seq(S)
      BY <2>1
    <3>2. QED
      BY <3>1
  <2>4. ASSUME NEW a \in L, NEW b \in L, NEW x \in R, NEW y \in R,
               RowsEqual(a, x, tolerance), RowsEqual(b, x, tolerance),
               RowsEqual(b, y, tolerance)
        PROVE  RowsEqual(a, y, tolerance)
    <3>1. a \in S /\ b \in S /\ x \in S /\ y \in S
      BY <2>1
    <3>2. RowsClose(a, x) /\ RowsClose(x, b) /\ RowsClose(b, y)
      BY <1>3, <2>4, <3>1
    <3>3. RowsClose(a, b)
      BY <3>2 DEF CloseIsTransitive
    <3>4. RowsClose(a, y)
      BY <3>2, <3>3 DEF CloseIsTransitive
    <3>5. QED
      BY <1>3, <3>1, <3>4
  <2>. HIDE DEF L, R
  <2>5. UnorderedEqualWithTolerance(left, right, tolerance)
    BY <1>4, <1>5, <1>6, <2>2, <2>3, <2>4, SearchIsComplete
  <2>6. QED
    BY <1>10, <2>5 DEF Matched
<1>11. QED
  BY <1>1, <1>7, <1>8, <1>9, <1>10

LEMMA ComparisonInvariant == ComparisonSpec => []ComparisonInv
<1>1. ComparisonInit => ComparisonInv
  BY DEF ComparisonInit, ComparisonInv
<1>2. ASSUME ComparisonInv, [Compare]_comparisonVars
      PROVE  ComparisonInv'
  <2>1. UNCHANGED <<generated, reference, mode, tolerance>>
    BY <1>2 DEF Compare, comparisonVars
  <2>2. Comparison' = Comparison
    BY <2>1 DEF Comparison, Matched, ScalarShape
  <2>3. verdict' \in {Absent, Comparison}
    BY <1>2 DEF ComparisonInv, Compare, comparisonVars
  <2>4. QED
    BY <1>2, <2>1, <2>2, <2>3 DEF ComparisonInv
<1>3. QED
  BY <1>1, <1>2, PTL DEF ComparisonSpec

\* A match is one: the rows of the two results pair off one to one, each pair
\* within the tolerance and in the order the mode asks for.
THEOREM MatchIsSound == ComparisonSpec => []MatchesAreSound
<1>1. ASSUME ComparisonInv, verdict = "matched"
      PROVE  /\ generated.columns = reference.columns
             /\ mode = "scalar" => Len(generated.rows) = 1 /\ generated.columns = 1
             /\ SameRows(RowsOf(generated), RowsOf(reference))
  <2>1. Comparison = "matched"
    BY <1>1, ComparisonAssumption DEF ComparisonInv
  <2>2. /\ generated.columns = reference.columns
        /\ mode = "scalar" => ScalarShape(RowsOf(generated), RowsOf(reference))
        /\ Matched(RowsOf(generated), RowsOf(reference))
    BY <2>1 DEF Comparison
  <2>. DEFINE left == RowsOf(generated)
              right == RowsOf(reference)
              w == generated.columns
  <2>3. /\ w \in Nat
        /\ left \in Seq([1..w -> Cells]) /\ right \in Seq([1..w -> Cells])
        /\ Len(left) = Len(generated.rows)
        /\ tolerance \in Nat \cup {Absent}
        /\ mode \in {"scalar", "ordered_rows", "unordered_rows"}
        /\ Absent \notin Seq([1..w -> Cells])
    BY <1>1, <2>2, ComparedRows
  <2>4. mode = "scalar" => Len(left) = 1 /\ Len(right) = 1 /\ w = 1
    BY <2>2 DEF ScalarShape
  <2>5. Matched(left, right)
    BY <2>2
  <2>. HIDE DEF left, right, w
  <2>6. SameRows(left, right)
    BY <2>3, <2>4, <2>5, MatchedIsSame
  <2>7. QED
    BY <2>2, <2>3, <2>4, <2>6 DEF left, right, w
<1>2. ComparisonInv => MatchesAreSound
  BY <1>1 DEF MatchesAreSound
<1>3. QED
  BY <1>2, ComparisonInvariant, PTL

\* A mismatch is one as well, where closeness is transitive: although the
\* search never takes back a choice, it misses no pairing.
THEOREM MatchIsComplete == ComparisonSpec => []MatchesAreComplete
<1>1. ASSUME ComparisonInv, verdict = "result_mismatch",
             CloseIsTransitive(ToSet(RowsOf(generated)) \cup ToSet(RowsOf(reference))),
             SameRows(RowsOf(generated), RowsOf(reference))
      PROVE  FALSE
  <2>1. Comparison = "result_mismatch"
    BY <1>1, ComparisonAssumption DEF ComparisonInv
  <2>2. /\ generated.columns = reference.columns
        /\ mode = "scalar" => ScalarShape(RowsOf(generated), RowsOf(reference))
        /\ ~Matched(RowsOf(generated), RowsOf(reference))
    BY <2>1 DEF Comparison
  <2>. DEFINE left == RowsOf(generated)
              right == RowsOf(reference)
              w == generated.columns
  <2>3. /\ w \in Nat
        /\ left \in Seq([1..w -> Cells]) /\ right \in Seq([1..w -> Cells])
        /\ tolerance \in Nat \cup {Absent}
        /\ mode \in {"scalar", "ordered_rows", "unordered_rows"}
        /\ Absent \notin Seq([1..w -> Cells])
    BY <1>1, <2>2, ComparedRows
  <2>4. /\ mode = "scalar" => Len(left) = 1 /\ Len(right) = 1 /\ w = 1
        /\ CloseIsTransitive(ToSet(left) \cup ToSet(right))
        /\ SameRows(left, right) /\ ~Matched(left, right)
    BY <1>1, <2>2 DEF ScalarShape
  <2>. HIDE DEF left, right, w
  <2>5. QED
    BY <2>3, <2>4, SameIsMatched
<1>2. ComparisonInv => MatchesAreComplete
  BY <1>1 DEF MatchesAreComplete
<1>3. QED
  BY <1>2, ComparisonInvariant, PTL
=============================================================================
