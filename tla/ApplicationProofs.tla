------------------------- MODULE ApplicationProofs -------------------------
(***************************************************************************)
(* Application's safety properties, for any sessions, questions and limit  *)
(* of recent questions.                                                    *)
(***************************************************************************)
EXTENDS Application, TLAPS, SequenceTheorems,
        FiniteSetTheorems, WellFoundedInduction

\* The minimum of a set of numbers is one of its elements, and the least.
LEMMA MinIsLeast ==
  ASSUME NEW S \in SUBSET Nat, S # {}
  PROVE  Min(S) \in S /\ \A i \in S : Min(S) <= i
<1>. DEFINE R == {ss \in Nat \X Nat : ss[1] < ss[2]}
<1>1. IsWellFoundedOn(R, Nat)
  BY NatLessThanWellFounded DEF OpToRel
<1>2. \A i, j \in Nat : i < j => <<i, j>> \in R
  OBVIOUS
<1>. HIDE DEF R
<1>3. PICK least \in S : \A i \in S : <<i, least>> \notin R
  BY <1>1, WFMin
<1>4. \A i \in S : ~(i < least)
  BY <1>2, <1>3
<1>5. least \in Nat /\ \A i \in S : i \in Nat
  OBVIOUS
<1>6. \A i \in S : least <= i
  BY <1>4, <1>5
<1>7. QED
  BY <1>6 DEF Min

\* Where the questions of a list go when one is added: what is before the
\* place it had moves up by one, and so does everything when it had none.
LEMMA AddedPlaces ==
  ASSUME NEW questions \in Seq(Question), NEW q \in Question,
         Len(questions) <= RecentLimit
  PROVE  \E k \in 1..(Len(questions) + 1) :
           LET added == AddRecent(questions, q)
               n == IF k <= Len(questions) THEN Len(questions)
                                           ELSE Len(questions) + 1
           IN /\ k <= Len(questions) => questions[k] = q
              /\ k > Len(questions) => \A i \in DOMAIN questions : questions[i] # q
              /\ added \in Seq(Question)
              /\ Len(added) = IF n < RecentLimit THEN n ELSE RecentLimit
              /\ \A i \in DOMAIN added :
                   added[i] = IF i = 1 THEN q
                              ELSE IF i <= k THEN questions[i - 1]
                              ELSE questions[i]
<1>. DEFINE places == {i \in 1..Len(questions) : questions[i] = q}
            remaining == RemoveFirst(questions, q)
            all == <<q>> \o remaining
            n == Len(questions)
<1>. RecentLimit \in Nat /\ RecentLimit >= 1 /\ n \in Nat
  BY ApplicationAssumption
<1>1. CASE places = {}
  <2>1. remaining = questions
    BY <1>1 DEF RemoveFirst
  <2>2. all \in Seq(Question) /\ Len(all) = n + 1
        /\ \A i \in 1..(n + 1) : all[i] = IF i = 1 THEN q ELSE questions[i - 1]
    BY <2>1
  <2>. HIDE DEF all
  <2>3. /\ AddRecent(questions, q) \in Seq(Question)
        /\ Len(AddRecent(questions, q)) =
             IF n + 1 < RecentLimit THEN n + 1 ELSE RecentLimit
        /\ \A i \in DOMAIN AddRecent(questions, q) :
             AddRecent(questions, q)[i] = all[i] /\ i \in 1..(n + 1)
    <3>. DEFINE m == IF n + 1 < RecentLimit THEN n + 1 ELSE RecentLimit
    <3>1. m \in 1..(n + 1) /\ AddRecent(questions, q) = SubSeq(all, 1, m)
      BY <2>2 DEF AddRecent, all
    <3>2. QED
      BY <2>2, <3>1
  <2>4. \A i \in DOMAIN questions : questions[i] # q
    BY <1>1
  <2>. DEFINE added == AddRecent(questions, q)
              k == n + 1
  <2>. HIDE DEF added
  <2>5. \A i \in DOMAIN added : added[i] = IF i = 1 THEN q
                                           ELSE IF i <= k THEN questions[i - 1]
                                           ELSE questions[i]
    BY <2>2, <2>3 DEF added
  <2>6. k \in 1..(n + 1) /\ ~(k <= n)
    OBVIOUS
  <2>7. QED
    BY <2>3, <2>4, <2>5, <2>6 DEF added
<1>2. CASE places # {}
  <2>. DEFINE k == Min(places)
  <2>1. k \in 1..n /\ questions[k] = q
    <3>1. places \in SUBSET Nat
      OBVIOUS
    <3>2. k \in places
      BY <1>2, <3>1, MinIsLeast
    <3>3. QED
      BY <3>2
  <2>2. remaining = SubSeq(questions, 1, k - 1) \o SubSeq(questions, k + 1, n)
    BY <1>2 DEF RemoveFirst, RemoveAt, SelectInSeq
  <2>. HIDE DEF k
  <2>3. /\ remaining \in Seq(Question) /\ Len(remaining) = n - 1
        /\ \A i \in 1..(n - 1) :
             remaining[i] = IF i < k THEN questions[i] ELSE questions[i + 1]
    <3>. DEFINE before == SubSeq(questions, 1, k - 1)
                after == SubSeq(questions, k + 1, n)
    <3>1. before \in Seq(Question) /\ Len(before) = k - 1
          /\ \A i \in 1..(k - 1) : before[i] = questions[i]
      BY <2>1
    <3>2. after \in Seq(Question) /\ Len(after) = n - k
          /\ \A i \in 1..(n - k) : after[i] = questions[i + k]
      BY <2>1
    <3>. HIDE DEF before, after
    <3>3. QED
      <4>1. remaining = before \o after
        BY <2>2 DEF before, after
      <4>. HIDE DEF remaining
      <4>2. remaining \in Seq(Question) /\ Len(remaining) = n - 1
        BY <2>1, <3>1, <3>2, <4>1
      <4>3. ASSUME NEW i \in 1..(n - 1)
            PROVE  remaining[i] = IF i < k THEN questions[i] ELSE questions[i + 1]
        <5>1. CASE i < k
          BY <2>1, <3>1, <3>2, <4>1, <5>1
        <5>2. CASE i >= k
          <6>1. i - (k - 1) \in 1..(n - k) /\ remaining[i] = after[i - (k - 1)]
            BY <2>1, <3>1, <3>2, <4>1, <5>2
          <6>2. QED
            BY <2>1, <3>2, <5>2, <6>1
        <5>3. QED
          BY <2>1, <5>1, <5>2
      <4>4. QED
        BY <4>2, <4>3
  <2>. HIDE DEF remaining
  <2>4. all \in Seq(Question) /\ Len(all) = n
        /\ \A i \in 1..n : all[i] = IF i = 1 THEN q
                                   ELSE IF i <= k THEN questions[i - 1]
                                   ELSE questions[i]
    BY <2>1, <2>3
  <2>. HIDE DEF all
  <2>5. /\ AddRecent(questions, q) \in Seq(Question)
        /\ Len(AddRecent(questions, q)) = n
        /\ \A i \in DOMAIN AddRecent(questions, q) :
             AddRecent(questions, q)[i] = all[i] /\ i \in 1..n
    <3>1. AddRecent(questions, q) = SubSeq(all, 1, n)
      BY <2>4 DEF AddRecent, all, remaining
    <3>2. QED
      BY <2>1, <2>4, <3>1
  <2>6. QED
    BY <2>1, <2>4, <2>5
<1>3. QED
  BY <1>1, <1>2
-----------------------------------------------------------------------------

\* What the type invariant says of the posts.
LEMMA Posts ==
  ASSUME TypeOK
  PROVE  /\ Len(asked) \in Nat /\ Asked = 1..Len(asked)
         /\ \A n \in Asked : asked[n] \in [session : Session, question : Question]
         /\ \A s \in Session : PostsOf(s) \subseteq Asked
         /\ MaxAsked \in Nat /\ RecentLimit \in Nat /\ RecentLimit >= 1
<1>. DEFINE Asking == [session : Session, question : Question]
<1>1. asked \in Seq(Asking)
  BY DEF TypeOK
<1>2. /\ Len(asked) \in Nat /\ Asked = 1..Len(asked)
      /\ \A n \in Asked : asked[n] \in Asking
  <2>. HIDE DEF Asking
  <2>1. QED
    BY <1>1 DEF Asked
<1>3. MaxAsked \in Nat /\ RecentLimit \in Nat /\ RecentLimit >= 1
  BY ApplicationAssumption
<1>4. QED
  BY <1>2, <1>3, Zenon DEF PostsOf

\* The scripts that have yet to post are finitely many.
LEMMA UnpostedCount ==
  ASSUME TypeOK
  PROVE  IsFiniteSet(Unposted) /\ Cardinality(Unposted) \in Nat
<1>1. IsFiniteSet(Session) /\ Unposted \subseteq Session
  BY ApplicationAssumption DEF Unposted
<1>2. IsFiniteSet(Unposted)
  BY <1>1, FS_Subset
<1>3. QED
  BY <1>2, FS_CardinalityType

\* No post has a number beyond the bound.
LEMMA PostsBounded ==
  ASSUME TypeOK, Bounded
  PROVE  Len(asked) <= MaxAsked /\ Asked \subseteq Post
<1>1. Len(asked) <= MaxAsked
  BY Posts, UnpostedCount DEF Bounded
<1>2. QED
  BY <1>1, Posts DEF Post

\* There is still room when nothing is posted and no run is added.
LEMMA BoundedFrame ==
  ASSUME TypeOK, Bounded, asked' = asked, Unposted' \subseteq Unposted
  PROVE  Bounded'
<1>1. /\ IsFiniteSet(Unposted) /\ Cardinality(Unposted') <= Cardinality(Unposted)
      /\ Cardinality(Unposted') \in Nat
  <2>1. IsFiniteSet(Unposted) /\ IsFiniteSet(Unposted')
    BY UnpostedCount, FS_Subset
  <2>2. QED
    BY <2>1, FS_Subset, FS_CardinalityType
<1>2. QED
  BY <1>1, Posts, UnpostedCount DEF Bounded

\* Nothing that is posted or remembered changes.
LEMMA RecentFrame ==
  ASSUME RecentQuestionsAreRemembered, UNCHANGED <<recent, asked>>
  PROVE  RecentQuestionsAreRemembered'
BY DEF RecentQuestionsAreRemembered, Remembered, Newest, PostsOf, Asked

\* Nothing that is posted, remembered or shown changes.
LEMMA PageFrame ==
  ASSUME ApplicationInv, UNCHANGED <<latest, error, recent, settled, asked>>
  PROVE  /\ RecentQuestionsAreRemembered'
         /\ ErrorBesideAnswerIsOlder'
         /\ PageShowsLastOutcome'
BY DEF ApplicationInv, RecentQuestionsAreRemembered, Remembered, Newest,
       PostsOf, ErrorBesideAnswerIsOlder, PageShowsLastOutcome, Asked

\* Nothing shown changes, and a script goes on, gives up, or gets its answer.
LEMMA SessionFrame ==
  ASSUME ApplicationInv, UNCHANGED <<latest, error, settled, asked>>,
         NEW s \in Session,
         \/ script'[s] = script[s]
         \/ script'[s].at \in {"idle", "examples", "form"}
         \/ /\ script[s].at = "ask" /\ script'[s].at = "write"
            /\ script'[s].post = script[s].post
            /\ script'[s].question = script[s].question
            /\ script'[s].outcome \in Outcome
  PROVE  SessionHolds(s)'
<1>1. SessionHolds(s)
  BY DEF ApplicationInv
<1>2. CASE script'[s] = script[s]
  BY <1>1, <1>2
     DEF SessionHolds, WaitingHolds, PostsOf, Asked, NewAnswer, Answered, Answer
<1>3. CASE script'[s].at \in {"idle", "examples", "form"}
  BY <1>1, <1>3 DEF SessionHolds, PostsOf, Asked
<1>4. CASE /\ script[s].at = "ask" /\ script'[s].at = "write"
           /\ script'[s].post = script[s].post
           /\ script'[s].question = script[s].question
           /\ script'[s].outcome \in Outcome
  BY <1>1, <1>4 DEF SessionHolds, WaitingHolds, PostsOf, Asked
<1>5. QED
  BY <1>2, <1>3, <1>4

\* A step of the backend alone.
LEMMA BackendFrame ==
  ASSUME ApplicationInv, UNCHANGED <<page, script, history>>
  PROVE  /\ Bounded'
         /\ \A s \in Session : SessionHolds(s)'
         /\ RecentQuestionsAreRemembered'
         /\ ErrorBesideAnswerIsOlder'
         /\ PageShowsLastOutcome'
<1>. USE DEF page, history
<1>1. Bounded'
  BY BoundedFrame DEF ApplicationInv, Unposted
<1>2. QED
  BY <1>1, PageFrame, SessionFrame

\* A call ends, for the script that waits for it.
LEMMA OutcomesStep ==
  ASSUME ApplicationInv, NEW n, NEW outcome \in Outcome,
         script' = Outcomes(n, outcome), UNCHANGED <<page, history>>
  PROVE  /\ script' \in [Session -> Scripts]
         /\ Bounded'
         /\ \A s \in Session : SessionHolds(s)'
         /\ RecentQuestionsAreRemembered'
         /\ ErrorBesideAnswerIsOlder'
         /\ PageShowsLastOutcome'
<1>. USE DEF page, history
<1>1. ASSUME NEW s \in Session
      PROVE  /\ script'[s] \in Scripts
             /\ \/ script'[s] = script[s]
                \/ /\ script[s].at = "ask" /\ script'[s].at = "write"
                   /\ script'[s].post = script[s].post
                   /\ script'[s].question = script[s].question
                   /\ script'[s].outcome \in Outcome
  <2>1. script[s] \in Scripts
    BY DEF ApplicationInv, TypeOK
  <2>2. CASE script[s].at = "ask" /\ script[s].post = n
    <3>1. script'[s] = [script[s] EXCEPT !.at = "write", !.outcome = outcome]
      BY <2>2 DEF Outcomes
    <3>2. QED
      BY <2>1, <2>2, <3>1 DEF Scripts
  <2>3. CASE ~(script[s].at = "ask" /\ script[s].post = n)
    BY <2>1, <2>3 DEF Outcomes
  <2>4. QED
    BY <2>2, <2>3
<1>2. script' \in [Session -> Scripts]
  BY <1>1 DEF Outcomes
<1>3. Bounded'
  <2>1. Unposted' \subseteq Unposted
    BY <1>1 DEF Unposted
  <2>2. QED
    BY <2>1, BoundedFrame DEF ApplicationInv
<1>4. QED
  BY <1>1, <1>2, <1>3, PageFrame, SessionFrame

\* A request is over.
LEMMA OverRequest ==
  ASSUME ApplicationInv, NEW n \in Asked, request' = Over(n),
         UNCHANGED <<asked, built>>
  PROVE  request' \in [Post -> Requests'] /\ RequestsHold'
<1>1. n \in Post
  BY PostsBounded DEF ApplicationInv
<1>2. QED
  BY <1>1 DEF ApplicationInv, TypeOK, RequestsHold, Over, Requests, Asked

-----------------------------------------------------------------------------

\* The initial states satisfy the invariant.
LEMMA InitInv == Init => ApplicationInv
<1>. SUFFICES ASSUME Init PROVE ApplicationInv
  OBVIOUS
<1>1. /\ \A s \in Session : script[s] =
           [at |-> "examples", question |-> None, post |-> 0, outcome |-> None]
      /\ DOMAIN script = Session /\ script = [s \in Session |-> script[s]]
  BY DEF Init, Idle
<1>2. TypeOK
  <2>1. script \in [Session -> Scripts]
    BY <1>1, ApplicationAssumption DEF Scripts
  <2>2. /\ \A s \in Session : Len(recent[s]) <= RecentLimit
        /\ recent \in [Session -> Seq(Question)]
    BY ApplicationAssumption DEF Init
  <2>3. request \in [Post -> Requests]
    BY DEF Init, Requests
  <2>4. asked \in Seq([session : Session, question : Question])
    BY DEF Init
  <2>5. /\ examples \in [Session -> BOOLEAN]
        /\ latest \in [Session -> Answers \cup {None}]
        /\ error \in [Session -> Problems \cup {None}]
        /\ settled \in [Session -> 0..MaxAsked]
    BY ApplicationAssumption DEF Init
  <2>6. /\ server \in {"up", "draining", "down"} /\ configured \in BOOLEAN
        /\ built \in Nat /\ cache \in 1..built \cup {None}
        /\ disposed \subseteq 1..built
    BY DEF Init
  <2>7. QED
    BY <2>1, <2>2, <2>3, <2>4, <2>5, <2>6 DEF TypeOK
<1>3. Bounded
  <2>1. Unposted = {}
    BY <1>1 DEF Unposted
  <2>2. QED
    BY <2>1, FS_EmptySet, ApplicationAssumption DEF Init, Bounded
<1>4. RequestsHold /\ EnginesHold
  BY DEF Init, RequestsHold, EnginesHold
<1>5. \A s \in Session : SessionHolds(s) /\ PostsOf(s) = {}
  BY <1>1 DEF Init, SessionHolds, PostsOf, Asked
<1>6. RecentQuestionsAreRemembered
  <2>1. \A s \in Session : recent[s] = << >>
    BY DEF Init
  <2>2. << >> \in [DOMAIN << >> -> {}]
    OBVIOUS
  <2>3. \A s \in Session : Remembered(s)
    BY <1>5, <2>1, <2>2 DEF Remembered
  <2>4. QED
    BY <1>2, <2>3 DEF RecentQuestionsAreRemembered, TypeOK
<1>7. ErrorBesideAnswerIsOlder /\ PageShowsLastOutcome
  BY DEF Init, ErrorBesideAnswerIsOlder, PageShowsLastOutcome
<1>8. QED
  BY <1>2, <1>3, <1>4, <1>5, <1>6, <1>7 DEF ApplicationInv

\* The steps of a request in the backend.
LEMMA RefuseStep ==
  ASSUME ApplicationInv, NEW n \in Asked, Refuse(n)
  PROVE  ApplicationInv'
<1>. USE DEF Refuse, engines, page, history
<1>1. request' \in [Post -> Requests'] /\ RequestsHold'
  BY OverRequest
<1>2. /\ script' \in [Session -> Scripts] /\ Bounded'
      /\ \A s \in Session : SessionHolds(s)'
      /\ RecentQuestionsAreRemembered'
      /\ ErrorBesideAnswerIsOlder'
      /\ PageShowsLastOutcome'
  BY OutcomesStep DEF Outcome, Failure
<1>3. TypeOK'
  BY <1>1, <1>2 DEF ApplicationInv, TypeOK, Scripts
<1>4. EnginesHold'
  BY DEF ApplicationInv, TypeOK, EnginesHold, Active, Asked, Over
<1>5. QED
  BY <1>1, <1>2, <1>3, <1>4 DEF ApplicationInv

LEMMA LookUpStep ==
  ASSUME ApplicationInv, NEW n \in Asked, LookUp(n)
  PROVE  ApplicationInv'
<1>. USE DEF LookUp, engines, page, history
<1>1. n \in Post
  BY PostsBounded DEF ApplicationInv
<1>2. request' \in [Post -> Requests'] /\ RequestsHold'
  BY <1>1 DEF ApplicationInv, TypeOK, RequestsHold, Requests, Asked
<1>3. TypeOK'
  BY <1>2 DEF ApplicationInv, TypeOK, Scripts
<1>4. EnginesHold'
  BY DEF ApplicationInv, EnginesHold
<1>5. QED
  BY <1>2, <1>3, <1>4, BackendFrame DEF ApplicationInv

LEMMA BuildStep ==
  ASSUME ApplicationInv, NEW n \in Asked, Build(n)
  PROVE  ApplicationInv'
<1>. USE DEF Build, page, history
<1>1. n \in Post /\ built \in Nat /\ server # "down"
  BY PostsBounded DEF ApplicationInv, TypeOK, EnginesHold, Active
<1>2. CASE /\ configured /\ UNCHANGED script
           /\ built' = built + 1
           /\ cache' = IF cache = None THEN built' ELSE cache
           /\ request' =
                [request EXCEPT ![n] = [at |-> "working", engine |-> built']]
  <2>1. 1..built \subseteq 1..built' /\ built' \in 1..built'
    BY <1>1, <1>2
  <2>2. Requests \subseteq Requests'
    BY <2>1 DEF Requests
  <2>3. [at |-> "working", engine |-> built'] \in Requests'
    BY <2>1 DEF Requests
  <2>4. request' \in [Post -> Requests'] /\ RequestsHold'
    <3>1. request \in [Post -> Requests]
      BY DEF ApplicationInv, TypeOK
    <3>2. request' \in [Post -> Requests']
      BY <1>1, <1>2, <2>2, <2>3, <3>1
    <3>3. RequestsHold'
      BY <1>1, <1>2, <3>1 DEF ApplicationInv, RequestsHold, Asked
    <3>4. QED
      BY <3>2, <3>3
  <2>5. TypeOK'
    BY <1>1, <1>2, <2>1, <2>4 DEF ApplicationInv, TypeOK, Scripts
  <2>6. EnginesHold'
    BY <1>1, <1>2, ApplicationAssumption DEF ApplicationInv, EnginesHold
  <2>7. QED
    BY <1>2, <2>4, <2>5, <2>6, BackendFrame DEF ApplicationInv
<1>3. CASE /\ request' = Over(n)
           /\ script' = Outcomes(n, "response")
           /\ UNCHANGED <<built, cache>>
  <2>1. request' \in [Post -> Requests'] /\ RequestsHold'
    BY <1>3, OverRequest
  <2>2. /\ script' \in [Session -> Scripts] /\ Bounded'
        /\ \A s \in Session : SessionHolds(s)'
        /\ RecentQuestionsAreRemembered'
        /\ ErrorBesideAnswerIsOlder'
        /\ PageShowsLastOutcome'
    BY <1>3, OutcomesStep DEF Outcome, Failure
  <2>3. TypeOK'
    BY <1>3, <2>1, <2>2 DEF ApplicationInv, TypeOK, Scripts
  <2>4. EnginesHold'
    BY <1>1, <1>3 DEF ApplicationInv, EnginesHold
  <2>5. QED
    BY <2>1, <2>2, <2>3, <2>4 DEF ApplicationInv
<1>. HIDE DEF page, history
<1>4. QED
  BY <1>2, <1>3, Zenon

LEMMA ReplyStep ==
  ASSUME ApplicationInv, NEW n \in Asked, Reply(n)
  PROVE  ApplicationInv'
<1>. USE DEF Reply, engines, page, history
<1>1. request' \in [Post -> Requests'] /\ RequestsHold'
  BY OverRequest
<1>2. /\ script' \in [Session -> Scripts] /\ Bounded'
      /\ \A s \in Session : SessionHolds(s)'
      /\ RecentQuestionsAreRemembered'
      /\ ErrorBesideAnswerIsOlder'
      /\ PageShowsLastOutcome'
  BY OutcomesStep DEF Outcome, Failure
<1>3. TypeOK'
  BY <1>1, <1>2 DEF ApplicationInv, TypeOK, Scripts
<1>4. EnginesHold'
  BY DEF ApplicationInv, TypeOK, EnginesHold, Active, Asked, Over
<1>5. QED
  BY <1>1, <1>2, <1>3, <1>4 DEF ApplicationInv

\* The steps of the backend process.
LEMMA ProcessStep ==
  ASSUME ApplicationInv, Stop \/ Shutdown \/ Crash \/ Boot
  PROVE  ApplicationInv'
<1>. USE DEF engines, page, history
<1>1. UNCHANGED <<page, script, history>>
  BY DEF Stop, Shutdown, Crash, Boot
<1>2. /\ request \in [Post -> Requests] /\ RequestsHold /\ built \in Nat
      /\ \A n \in Post : n \notin Active => request[n].engine = None
  BY DEF ApplicationInv, TypeOK, RequestsHold, Active
<1>3. CASE Stop
  <2>1. TypeOK' /\ RequestsHold' /\ EnginesHold'
    BY <1>2, <1>3
       DEF Stop, ApplicationInv, TypeOK, RequestsHold, EnginesHold, Asked,
           Requests, Scripts
  <2>2. QED
    BY <1>1, <2>1, BackendFrame DEF ApplicationInv
<1>4. CASE Shutdown
  <2>1. /\ server' = "down" /\ cache' = None /\ built' = built
        /\ Active' = {} /\ UNCHANGED <<request, asked>>
        /\ disposed' = IF cache # None THEN disposed \cup {cache} ELSE disposed
        /\ configured' = TRUE
    BY <1>4 DEF Shutdown, Dispose, Active, Asked
  <2>2. cache = IF built = 0 THEN None ELSE 1
    BY <1>4 DEF Shutdown, ApplicationInv, EnginesHold
  <2>3. EnginesHold'
    BY <1>2, <2>1, <2>2, ApplicationAssumption DEF EnginesHold
  <2>4. TypeOK' /\ RequestsHold'
    BY <1>1, <1>2, <2>1
       DEF ApplicationInv, TypeOK, RequestsHold, Asked, Requests, Scripts
  <2>5. QED
    BY <1>1, <2>3, <2>4, BackendFrame DEF ApplicationInv
<1>5. CASE Crash \/ Boot
  <2>1. /\ built' = 0 /\ disposed' = {} /\ cache' = None
        /\ configured' \in BOOLEAN
    BY <1>5 DEF Crash, Boot, NoEngines
  <2>2. ASSUME NEW n \in Post
        PROVE  /\ request'[n] \in Requests' /\ request'[n].engine = None
               /\ request'[n].at = "none" \/ n \in Asked
               /\ request'[n].at \notin {"building", "working"}
    <3>1. request[n] \in Requests
      BY <1>2
    <3>2. CASE Crash /\ n \in Active
      BY <2>1, <3>2 DEF Crash, Requests, Active
    <3>3. CASE n \notin Active /\ request'[n] = request[n]
      BY <1>2, <3>1, <3>3 DEF Requests, RequestsHold, Active
    <3>4. CASE Boot
      BY <3>3, <3>4 DEF Boot, ApplicationInv, EnginesHold
    <3>5. QED
      BY <1>5, <3>2, <3>3, <3>4 DEF Crash
  <2>3. request' \in [Post -> Requests'] /\ RequestsHold' /\ Active' = {}
    <3>1. DOMAIN request' = Post /\ request' = [n \in Post |-> request'[n]]
      BY <1>2, <1>5 DEF Crash, Boot
    <3>2. Asked' = Asked /\ Asked \subseteq Post
      BY <1>1, PostsBounded DEF Asked, ApplicationInv
    <3>3. QED
      BY <2>2, <3>1, <3>2 DEF RequestsHold, Active
  <2>4. TypeOK'
    BY <1>1, <1>5, <2>1, <2>3 DEF ApplicationInv, TypeOK, Crash, Boot, Scripts
  <2>5. EnginesHold'
    BY <1>5, <2>1, <2>3 DEF EnginesHold, Crash, Boot
  <2>6. QED
    BY <1>1, <2>3, <2>4, <2>5, BackendFrame DEF ApplicationInv
<1>6. QED
  BY <1>3, <1>4, <1>5

\* What only the page's scripts change leaves the backend as it is.
LEMMA RequestsFrame ==
  ASSUME ApplicationInv, UNCHANGED <<asked, request, server, engines>>
  PROVE  RequestsHold' /\ EnginesHold' /\ request' \in [Post -> Requests']
BY DEF ApplicationInv, TypeOK, RequestsHold, EnginesHold, engines, Active,
       Asked, Requests

\* The fields of a new run.
LEMMA RunFields ==
  ASSUME NEW off, NEW zero, NEW at, NEW q, NEW idle, NEW x,
         idle = [at |-> off, question |-> None, post |-> zero, outcome |-> None],
         x = [idle EXCEPT !.at = at, !.question = q]
  PROVE  x = [at |-> at, question |-> q, post |-> zero, outcome |-> None]
OBVIOUS

\* A new run of the script: the one before it is cut off where it is.
LEMMA RunScriptStep ==
  ASSUME ApplicationInv, NEW s \in Session, NEW q \in Question \cup {None},
         RunScript(s, q), UNCHANGED <<page, history, request, server, engines>>,
         q # None => Len(asked) + Cardinality(Unposted) < MaxAsked
  PROVE  ApplicationInv'
<1>. USE DEF page, history, engines
<1>1. /\ DOMAIN script = Session /\ DOMAIN script' = Session
      /\ \A o \in Session : script[o] \in Scripts
      /\ \A o \in Session \ {s} : script'[o] = script[o]
  BY DEF ApplicationInv, TypeOK, RunScript
<1>2. /\ script'[s] \in Scripts
      /\ script'[s].at \in {"examples", "form"} /\ script'[s].question = q
  <2>. DEFINE at == IF examples[s] THEN "form" ELSE "examples"
  <2>1. script'[s] = [at |-> at, question |-> q, post |-> 0, outcome |-> None]
    <3>1. /\ Idle = [at |-> "idle", question |-> None, post |-> 0, outcome |-> None]
          /\ script'[s] = [Idle EXCEPT !.at = at, !.question = q]
      BY <1>1 DEF RunScript, Idle
    <3>. HIDE DEF at
    <3>2. QED
      BY <3>1, RunFields, Zenon
  <2>2. MaxAsked \in Nat
    BY ApplicationAssumption
  <2>3. QED
    BY <2>1, <2>2 DEF Scripts
<1>3. TypeOK'
  <2>1. script' \in [Session -> Scripts]
    <3>1. script' = [o \in Session |-> script'[o]]
      BY <1>1 DEF RunScript, ApplicationInv, TypeOK
    <3>2. QED
      BY <1>1, <1>2, <3>1
  <2>2. QED
    BY <2>1, RequestsFrame DEF ApplicationInv, TypeOK, Scripts
<1>4. Bounded'
  <2>1. CASE q = None
    <3>1. Unposted' \subseteq Unposted
      BY <1>1, <1>2, <2>1 DEF Unposted
    <3>2. QED
      BY <3>1, BoundedFrame DEF ApplicationInv
  <2>2. CASE q # None
    <3>1. IsFiniteSet(Unposted) /\ Cardinality(Unposted) \in Nat
      BY UnpostedCount DEF ApplicationInv
    <3>2. Unposted' \subseteq Unposted \cup {s}
      BY <1>1, <1>2 DEF Unposted
    <3>3. /\ IsFiniteSet(Unposted \cup {s})
          /\ Cardinality(Unposted \cup {s}) <= Cardinality(Unposted) + 1
          /\ Cardinality(Unposted \cup {s}) \in Nat
      BY <3>1, FS_AddElement, FS_CardinalityType
    <3>4. /\ Cardinality(Unposted') <= Cardinality(Unposted \cup {s})
          /\ Cardinality(Unposted') \in Nat
      BY <3>2, <3>3, FS_Subset, FS_CardinalityType
    <3>5. Len(asked) \in Nat /\ MaxAsked \in Nat
      BY Posts DEF ApplicationInv
    <3>6. QED
      BY <2>2, <3>1, <3>3, <3>4, <3>5 DEF Bounded
  <2>3. QED
    BY <2>1, <2>2
<1>5. \A o \in Session : SessionHolds(o)'
  BY <1>1, <1>2, SessionFrame
<1>6. QED
  BY <1>3, <1>4, <1>5, RequestsFrame, PageFrame DEF ApplicationInv

LEMMA UserStep ==
  ASSUME ApplicationInv, NEW s \in Session, User(s)
  PROVE  ApplicationInv'
<1>1. CASE Select(s)
  BY <1>1, RunScriptStep DEF Select
<1>2. CASE \E q \in Question : Submit(s, q)
  BY <1>2, RunScriptStep DEF Submit
<1>3. QED
  BY <1>1, <1>2 DEF User

\* The script goes on to another of its steps.
LEMMA ScriptField ==
  ASSUME NEW x \in Scripts,
         NEW at \in {"idle", "examples", "form", "ask", "write", "second"},
         NEW y, y = [x EXCEPT !.at = at]
  PROVE  y \in Scripts /\ y.at = at /\ y.question = x.question
         /\ y.post = x.post /\ y.outcome = x.outcome
BY DEF Scripts

LEMMA LoadExamplesStep ==
  ASSUME ApplicationInv, NEW s \in Session, LoadExamples(s)
  PROVE  ApplicationInv'
<1>. USE DEF LoadExamples, page, history, engines
<1>1. /\ DOMAIN script = Session /\ DOMAIN script' = Session
      /\ \A o \in Session : script[o] \in Scripts
      /\ \A o \in Session \ {s} : script'[o] = script[o]
      /\ script'[s] = [script[s] EXCEPT !.at = "form"]
      /\ script' = [o \in Session |-> script'[o]]
  BY DEF ApplicationInv, TypeOK, Goto
<1>2. script'[s] \in Scripts /\ script'[s].at = "form"
      /\ script'[s].question = script[s].question
  BY <1>1, ScriptField
<1>3. TypeOK'
  <2>1. script' \in [Session -> Scripts]
    BY <1>1, <1>2
  <2>2. examples' \in [Session -> BOOLEAN]
    BY DEF ApplicationInv, TypeOK, ExamplesLoaded
  <2>3. QED
    BY <2>1, <2>2, RequestsFrame DEF ApplicationInv, TypeOK, Scripts
<1>4. Bounded'
  <2>1. Unposted' \subseteq Unposted
    BY <1>1, <1>2 DEF Unposted
  <2>2. QED
    BY <2>1, BoundedFrame DEF ApplicationInv
<1>5. \A o \in Session : SessionHolds(o)'
  BY <1>1, <1>2, SessionFrame
<1>6. QED
  BY <1>3, <1>4, <1>5, RequestsFrame, PageFrame DEF ApplicationInv

\* The client gives up, or loses the connection.
LEMMA NoAnswerStep ==
  ASSUME ApplicationInv, NEW s \in Session, ClientTimeout(s) \/ ConnectionLost(s)
  PROVE  ApplicationInv'
<1>. USE DEF ClientTimeout, ConnectionLost
<1>1. /\ UNCHANGED <<page, history, request, server, engines>>
      /\ \E n : \E outcome \in Outcome : script' = Outcomes(n, outcome)
  BY DEF Outcome, Failure
<1>2. /\ script' \in [Session -> Scripts] /\ Bounded'
      /\ \A o \in Session : SessionHolds(o)'
      /\ RecentQuestionsAreRemembered'
      /\ ErrorBesideAnswerIsOlder'
      /\ PageShowsLastOutcome'
  BY <1>1, OutcomesStep
<1>3. RequestsHold' /\ EnginesHold' /\ request' \in [Post -> Requests']
  BY <1>1, RequestsFrame DEF history
<1>4. TypeOK'
  BY <1>1, <1>2, <1>3
     DEF ApplicationInv, TypeOK, Scripts, page, history, engines
<1>5. QED
  BY <1>2, <1>3, <1>4 DEF ApplicationInv

\* What a question came to is stored, in two assignments.
LEMMA StoreStep ==
  ASSUME ApplicationInv, NEW s \in Session, Store(s)
  PROVE  ApplicationInv'
<1>. USE DEF page, history, engines
<1>. DEFINE n == script[s].post
<1>1. /\ script[s] \in Scripts /\ WaitingHolds(s) /\ n \in PostsOf(s)
      /\ script[s].outcome \in Outcome /\ n \in Post /\ n \in Nat
      /\ script[s].question \in Question
      /\ asked[n].question = script[s].question
  <2>1. script[s] \in Scripts /\ WaitingHolds(s)
    BY DEF ApplicationInv, TypeOK, SessionHolds, Store
  <2>2. n \in PostsOf(s) /\ script[s].outcome \in Outcome
        /\ asked[n].question = script[s].question
    BY <2>1 DEF WaitingHolds, Store
  <2>3. n \in Asked /\ Asked \subseteq Post /\ asked[n].question \in Question
    BY <2>2, Posts, PostsBounded DEF ApplicationInv, PostsOf
  <2>4. n \in Post /\ n \in Nat
    BY <2>2, <2>3, Posts DEF ApplicationInv, Post, PostsOf
  <2>5. QED
    BY <2>1, <2>2, <2>3, <2>4
<1>2. /\ NewAnswer(s) = IF Answered(s) THEN Answer(s) ELSE None
      /\ NewError(s) = IF Answered(s) THEN None ELSE Problem(s)
      /\ NewAnswer(s) \in Answers \cup {None} /\ NewError(s) \in Problems \cup {None}
      /\ Answer(s) # None /\ (~Answered(s) => Problem(s) # None)
      /\ Answer(s).post = n /\ Answer(s).question = script[s].question
      /\ Problem(s).post = n
  <2>1. Answer(s) \in Answers
    BY <1>1 DEF Answer, Answers
  <2>2. ~Answered(s) => Problem(s) \in Problems
    BY <1>1 DEF Problem, Problems, Answered, Outcome
  <2>3. /\ Answer(s).post = n /\ Answer(s).question = script[s].question
        /\ Problem(s).post = n
    BY DEF Answer, Problem
  <2>4. QED
    BY <2>1, <2>2, <2>3, ApplicationAssumption DEF NewAnswer, NewError
<1>. HIDE DEF n
<1>3. /\ DOMAIN script = Session /\ DOMAIN script' = Session
      /\ \A o \in Session : script[o] \in Scripts
      /\ \A o \in Session \ {s} : script'[o] = script[o]
      /\ \/ script'[s] = [script[s] EXCEPT !.at = "second"]
         \/ script'[s] = Idle
      /\ script' = [o \in Session |-> script'[o]]
  BY DEF ApplicationInv, TypeOK, Goto, Store
<1>4. Idle \in Scripts /\ Idle.at = "idle"
  BY ApplicationAssumption DEF Idle, Scripts
<1>5. script'[s] \in Scripts /\ script'[s].at \in {"second", "idle"}
      /\ script' \in [Session -> Scripts]
  BY <1>1, <1>3, <1>4, ScriptField
<1>6. /\ latest' \in [Session -> Answers \cup {None}]
      /\ error' \in [Session -> Problems \cup {None}]
      /\ settled' \in [Session -> 0..MaxAsked]
      /\ \A o \in Session \ {s} : /\ latest'[o] = latest[o]
                                 /\ error'[o] = error[o]
                                 /\ settled'[o] = settled[o]
      /\ UNCHANGED <<examples, recent, asked, request, server, engines>>
  <2>1. n \in 0..MaxAsked
    BY <1>1 DEF Post
  <2>2. QED
    BY <1>2, <2>1 DEF ApplicationInv, TypeOK, Store, n
<1>7. RequestsHold' /\ EnginesHold' /\ request' \in [Post -> Requests']
  BY <1>6, RequestsFrame
<1>8. TypeOK'
  BY <1>5, <1>6, <1>7 DEF ApplicationInv, TypeOK, Scripts
<1>9. Bounded'
  <2>1. Unposted' \subseteq Unposted
    BY <1>3, <1>5 DEF Unposted
  <2>2. QED
    BY <1>6, <2>1, BoundedFrame DEF ApplicationInv
<1>10. RecentQuestionsAreRemembered'
  BY <1>6, RecentFrame DEF ApplicationInv
<1>11. \A o \in Session : PostsOf(o)' = PostsOf(o)
  BY <1>6 DEF PostsOf, Asked
<1>12. ASSUME NEW o \in Session \ {s}
       PROVE  SessionHolds(o)'
  BY <1>3, <1>6, <1>11
     DEF ApplicationInv, SessionHolds, WaitingHolds, NewAnswer, Answered, Answer
<1>13. SUFFICES /\ SessionHolds(s)'
                /\ latest'[s] # None /\ error'[s] # None
                     => error'[s].post < latest'[s].post
                /\ settled'[s] # 0 /\ PostsOf(s) \subseteq 1..settled'[s] =>
                     \/ /\ error'[s] = None /\ latest'[s] # None
                        /\ latest'[s].post = settled'[s]
                        /\ latest'[s].question = asked[settled'[s]].question
                     \/ /\ latest'[s] = None /\ error'[s] # None
                        /\ error'[s].post = settled'[s]
  <2>1. ErrorBesideAnswerIsOlder'
    BY <1>6, <1>13 DEF ApplicationInv, ErrorBesideAnswerIsOlder
  <2>2. PageShowsLastOutcome'
    BY <1>6, <1>11, <1>13 DEF ApplicationInv, PageShowsLastOutcome
  <2>3. QED
    BY <1>7, <1>8, <1>9, <1>10, <1>12, <1>13, <2>1, <2>2 DEF ApplicationInv
<1>14. CASE script[s].at = "write"
  <2>1. /\ latest'[s] = NewAnswer(s) /\ error' = error /\ settled' = settled
        /\ script'[s] = [script[s] EXCEPT !.at = "second"]
    BY <1>14 DEF Store, Entry, Goto, ApplicationInv, TypeOK
  <2>2. /\ script'[s].at = "second" /\ script'[s].post = n
        /\ script'[s].question = script[s].question
        /\ script'[s].outcome = script[s].outcome
    BY <1>1, <2>1, ScriptField DEF n
  <2>3. NewAnswer(s)' = NewAnswer(s)
    BY <2>2 DEF NewAnswer, Answered, Answer, n
  <2>4. /\ PostsOf(s) \subseteq 1..n /\ settled[s] < n
        /\ error[s] # None => error[s].post < n
    BY <1>1 DEF WaitingHolds, n
  <2>5. SessionHolds(s)'
    BY <1>1, <1>2, <1>6, <1>11, <2>1, <2>2, <2>3, <2>4
       DEF ApplicationInv, SessionHolds, WaitingHolds
  <2>6. settled'[s] \in Nat /\ n \notin 1..settled'[s]
    BY <1>1, <2>1, <2>4, ApplicationAssumption DEF ApplicationInv, TypeOK
  <2>7. QED
    BY <1>1, <1>2, <2>1, <2>4, <2>5, <2>6
<1>15. CASE script[s].at = "second"
  <2>1. /\ error'[s] = NewError(s) /\ latest' = latest /\ settled'[s] = n
        /\ script'[s] = Idle
    BY <1>15 DEF Store, Entry, Goto, ApplicationInv, TypeOK, n
  <2>2. latest[s] = NewAnswer(s)
    BY <1>1, <1>15 DEF WaitingHolds
  <2>3. SessionHolds(s)'
    BY <1>1, <1>2, <1>4, <1>6, <1>11, <2>1, <2>2 DEF SessionHolds
  <2>4. QED
    BY <1>1, <1>2, <2>1, <2>2, <2>3
<1>16. QED
  BY <1>14, <1>15 DEF Store

\* A list with one element more.
LEMMA AppendedPlace ==
  ASSUME NEW S, NEW posts \in Seq(S), NEW post \in S, NEW n \in Nat,
         n = Len(posts) + 1
  PROVE  /\ Append(posts, post) \in Seq(S)
         /\ Len(Append(posts, post)) = n
         /\ DOMAIN Append(posts, post) = 1..n
         /\ Append(posts, post)[n] = post
         /\ \A m \in 1..(n - 1) : Append(posts, post)[m] = posts[m]
OBVIOUS

\* What there is of posts when one more is made.
LEMMA OneMorePost ==
  ASSUME ApplicationInv, NEW s \in Session, NEW q \in Question, NEW n \in Nat,
         n = Len(asked) + 1,
         asked' = Append(asked, [session |-> s, question |-> q])
  PROVE  /\ asked' \in Seq([session : Session, question : Question])
         /\ Len(asked') = n
         /\ Asked = 1..(n - 1) /\ Asked' = 1..n
         /\ asked'[n].session = s /\ asked'[n].question = q
         /\ \A m \in Asked : asked'[m] = asked[m]
<1>. DEFINE Asking == [session : Session, question : Question]
            post == [session |-> s, question |-> q]
<1>1. asked \in Seq(Asking) /\ post \in Asking
  BY DEF ApplicationInv, TypeOK
<1>2. post.session = s /\ post.question = q
  OBVIOUS
<1>3. Asked = 1..(n - 1)
  BY Posts DEF ApplicationInv
<1>. HIDE DEF Asking
<1>4. /\ Append(asked, post) \in Seq(Asking)
      /\ Len(Append(asked, post)) = n
      /\ DOMAIN Append(asked, post) = 1..n
      /\ Append(asked, post)[n] = post
      /\ \A m \in 1..(n - 1) : Append(asked, post)[m] = asked[m]
  <2>. HIDE DEF post
  <2>1. QED
    BY <1>1, AppendedPlace
<1>. HIDE DEF post
<1>5. asked' = Append(asked, post)
  BY DEF post
<1>6. QED
  BY <1>2, <1>3, <1>4, <1>5, Zenon DEF Asked, Asking

\* A list of recent questions that remembers the posts of a session still
\* does when the question of the next post is added to it.
LEMMA RememberedStep ==
  ASSUME ApplicationInv, NEW s \in Session, NEW q \in Question, NEW n \in Nat \ {0},
         Asked = 1..(n - 1), Asked' = 1..n,
         asked'[n].session = s, asked'[n].question = q,
         \A m \in Asked : asked'[m] = asked[m],
         recent' = [recent EXCEPT ![s] = AddRecent(recent[s], q)]
  PROVE  Remembered(s)'
<1>1. /\ PostsOf(s) \subseteq 1..(n - 1) /\ n \notin PostsOf(s)
      /\ PostsOf(s)' = PostsOf(s) \cup {n}
  <2>1. PostsOf(s) \subseteq 1..(n - 1)
    BY DEF PostsOf
  <2>2. \A m \in 1..(n - 1) : m # n
    OBVIOUS
  <2>3. \A m : m \in PostsOf(s)' <=> m \in PostsOf(s) \cup {n}
    <3>1. \A m : m \in Asked' <=> m \in Asked \/ m = n
      OBVIOUS
    <3>2. \A m : m \in PostsOf(s)' <=> m \in Asked' /\ asked'[m].session = s
      BY DEF PostsOf
    <3>3. QED
      BY <3>1, <3>2 DEF PostsOf
  <2>4. QED
    BY <2>1, <2>2, <2>3
<1>a. PICK old : old = recent[s]
  OBVIOUS
<1>b. PICK new : new = AddRecent(old, q)
  OBVIOUS
<1>2. old \in Seq(Question) /\ Len(old) <= RecentLimit /\ Len(old) \in Nat
      /\ RecentLimit \in Nat /\ RecentLimit >= 1 /\ DOMAIN old = 1..Len(old)
  BY <1>a, ApplicationAssumption DEF ApplicationInv, TypeOK
<1>3. PICK place \in [DOMAIN old -> PostsOf(s)] :
        /\ \A i \in DOMAIN old :
             Newest(s, place[i]) /\ asked[place[i]].question = old[i]
        /\ \A i, j \in DOMAIN old : i < j => place[i] > place[j]
        /\ \A m \in PostsOf(s) : Newest(s, m) =>
             \/ \E i \in DOMAIN old : place[i] = m
             \/ Len(old) = RecentLimit /\ m < place[RecentLimit]
  BY <1>a DEF ApplicationInv, RecentQuestionsAreRemembered, Remembered
<1>4. PICK k \in 1..(Len(old) + 1) :
        LET size == IF k <= Len(old) THEN Len(old) ELSE Len(old) + 1 IN
        /\ k <= Len(old) => old[k] = q
        /\ k > Len(old) => \A i \in DOMAIN old : old[i] # q
        /\ new \in Seq(Question)
        /\ Len(new) = IF size < RecentLimit THEN size ELSE RecentLimit
        /\ \A i \in DOMAIN new :
             new[i] = IF i = 1 THEN q
                      ELSE IF i <= k THEN old[i - 1] ELSE old[i]
  <2>1. \E k \in 1..(Len(old) + 1) :
          LET added == AddRecent(old, q)
              size == IF k <= Len(old) THEN Len(old) ELSE Len(old) + 1
          IN /\ k <= Len(old) => old[k] = q
             /\ k > Len(old) => \A i \in DOMAIN old : old[i] # q
             /\ added \in Seq(Question)
             /\ Len(added) = IF size < RecentLimit THEN size ELSE RecentLimit
             /\ \A i \in DOMAIN added :
                  added[i] = IF i = 1 THEN q
                             ELSE IF i <= k THEN old[i - 1] ELSE old[i]
    BY <1>2, AddedPlaces, ZenonT(40)
  <2>2. QED
    BY <1>b, <2>1
<1>d. /\ k <= Len(old) => Len(new) = Len(old)
      /\ k > Len(old) =>
           /\ k = Len(old) + 1
           /\ Len(old) < RecentLimit => Len(new) = Len(old) + 1
           /\ Len(old) = RecentLimit => Len(new) = RecentLimit
  <2>1. CASE k <= Len(old)
    <3>1. Len(new) = IF Len(old) < RecentLimit THEN Len(old) ELSE RecentLimit
      BY <1>4, <2>1
    <3>2. \A x, y \in Nat : x <= y => (IF x < y THEN x ELSE y) = x
      OBVIOUS
    <3>3. Len(new) = Len(old)
      BY <1>2, <3>1, <3>2
    <3>4. QED
      BY <2>1, <3>3
  <2>2. CASE ~(k <= Len(old))
    <3>1. Len(new) = IF Len(old) + 1 < RecentLimit THEN Len(old) + 1
                                                   ELSE RecentLimit
      BY <1>4, <2>2
    <3>2. k = Len(old) + 1
      BY <1>2, <2>2
    <3>3. \A x, y \in Nat : x < y => (IF x + 1 < y THEN x + 1 ELSE y) = x + 1
      OBVIOUS
    <3>4. \A x \in Nat : (IF x + 1 < x THEN x + 1 ELSE x) = x
      OBVIOUS
    <3>5. Len(old) < RecentLimit => Len(new) = Len(old) + 1
      BY <1>2, <3>1, <3>3
    <3>6. Len(old) = RecentLimit => Len(new) = RecentLimit
      BY <1>2, <3>1, <3>4
    <3>7. QED
      BY <2>2, <3>2, <3>5, <3>6
  <2>3. QED
    BY <2>1, <2>2
<1>5. recent'[s] = new
  BY <1>a, <1>b DEF ApplicationInv, TypeOK
\* The list had the question at k alone, if at all.
<1>6. \A i \in DOMAIN old : i # k => old[i] # q
  <2>1. ASSUME NEW i \in DOMAIN old, NEW j \in DOMAIN old, i < j, old[i] = old[j]
        PROVE  FALSE
    <3>1. place[i] > place[j] /\ Newest(s, place[j]) /\ place[i] \in PostsOf(s)
          /\ asked[place[i]].question = asked[place[j]].question
      BY <1>3, <2>1
    <3>2. QED
      BY <3>1 DEF Newest
  <2>2. QED
    BY <1>2, <1>4, <2>1
\* The posts that are the newest with their question.
<1>7. \A m \in PostsOf(s)' : Newest(s, m)' <=>
        m = n \/ (m \in PostsOf(s) /\ Newest(s, m) /\ asked[m].question # q)
  <2>1. ASSUME NEW m \in PostsOf(s)
        PROVE  /\ asked'[m].question = asked[m].question
               /\ m \in 1..(n - 1) /\ n > m
    BY <1>1, <2>1
  <2>2. QED
    BY <1>1, <2>1 DEF Newest
<1>8. /\ DOMAIN new = 1..Len(new) /\ Len(new) \in Nat /\ Len(new) >= 1
      /\ \A i \in DOMAIN new : i # 1 =>
           IF i <= k THEN i - 1 \in DOMAIN old /\ i - 1 < k
                     ELSE i \in DOMAIN old
  BY <1>2, <1>4
<1>c. PICK now : now = [i \in DOMAIN new |-> IF i = 1 THEN n
                          ELSE IF i <= k THEN place[i - 1] ELSE place[i]]
  OBVIOUS
<1>9. now \in [DOMAIN new -> PostsOf(s)']
  BY <1>1, <1>3, <1>8, <1>c
<1>10. ASSUME NEW i \in DOMAIN new
       PROVE  Newest(s, now[i])' /\ asked'[now[i]].question = new[i]
  <2>1. CASE i = 1
    BY <1>1, <1>4, <1>7, <1>c, <2>1
  <2>2. CASE i # 1 /\ i <= k
    <3>1. /\ i - 1 \in DOMAIN old /\ i - 1 # k
          /\ now[i] = place[i - 1] /\ new[i] = old[i - 1]
      BY <1>4, <1>8, <1>c, <2>2
    <3>2. QED
      BY <1>1, <1>3, <1>6, <1>7, <3>1
  <2>3. CASE i # 1 /\ ~(i <= k)
    <3>1. i \in DOMAIN old /\ i # k /\ now[i] = place[i] /\ new[i] = old[i]
      BY <1>4, <1>8, <1>c, <2>3
    <3>2. QED
      BY <1>1, <1>3, <1>6, <1>7, <3>1
  <2>4. QED
    BY <2>1, <2>2, <2>3
<1>11. ASSUME NEW i \in DOMAIN new, NEW j \in DOMAIN new, i < j
       PROVE  now[i] > now[j]
  <2>1. \A l \in DOMAIN old : place[l] \in Nat /\ n > place[l]
    BY <1>1, <1>3
  <2>2. j # 1 /\ i \in Nat /\ j \in Nat
    BY <1>8, <1>11
  <2>3. now[j] = IF j <= k THEN place[j - 1] ELSE place[j]
    BY <1>c, <2>2
  <2>4. CASE i = 1
    BY <1>8, <1>c, <2>1, <2>2, <2>3, <2>4
  <2>5. CASE i # 1 /\ j <= k
    <3>1. /\ now[i] = place[i - 1] /\ i - 1 < j - 1
          /\ i - 1 \in DOMAIN old /\ j - 1 \in DOMAIN old
      BY <1>8, <1>11, <1>c, <2>2, <2>5
    <3>2. QED
      BY <1>3, <2>3, <2>5, <3>1
  <2>6. CASE i # 1 /\ ~(j <= k)
    <3>1. \E l \in DOMAIN old : l < j /\ now[i] = place[l]
      BY <1>8, <1>11, <1>c, <2>2, <2>6
    <3>2. j \in DOMAIN old
      BY <1>8, <2>2, <2>6
    <3>3. QED
      BY <1>3, <2>3, <2>6, <3>1, <3>2
  <2>7. QED
    BY <2>4, <2>5, <2>6
<1>12. ASSUME NEW m \in PostsOf(s)', Newest(s, m)'
       PROVE  \/ \E i \in DOMAIN new : now[i] = m
              \/ Len(new) = RecentLimit /\ m < now[RecentLimit]
  <2>1. CASE m = n
    BY <1>8, <1>c, <2>1
  <2>2. CASE m \in PostsOf(s) /\ Newest(s, m) /\ asked[m].question # q
    <3>1. CASE \E i \in DOMAIN old : place[i] = m
      <4>1. PICK i \in DOMAIN old : place[i] = m
        BY <3>1
      <4>2. i # k
        BY <1>3, <1>4, <2>2, <4>1
      <4>3. CASE i > k
        <5>1. /\ i \in 1..Len(old) /\ i \in Nat /\ k \in Nat /\ k >= 1
              /\ k <= Len(old)
          BY <1>2, <4>1, <4>3
        <5>2. Len(new) = Len(old)
          BY <1>d, <5>1
        <5>3. i \in DOMAIN new
          BY <1>8, <5>1, <5>2
        <5>4. now[i] = place[i]
          BY <1>c, <4>3, <5>1, <5>3
        <5>5. QED
          BY <4>1, <5>3, <5>4
      <4>4. CASE i < k /\ i + 1 \in DOMAIN new
        <5>1. /\ i \in Nat /\ i >= 1 /\ k \in Nat
              /\ i + 1 # 1 /\ i + 1 <= k /\ (i + 1) - 1 = i
          <6>1. i \in Nat /\ i >= 1 /\ k \in Nat
            BY <1>2, <4>1
          <6>2. QED
            BY <4>4, <6>1
        <5>2. now[i + 1] = place[i]
          BY <1>c, <4>4, <5>1
        <5>3. QED
          BY <4>1, <4>4, <5>2
      <4>5. CASE i < k /\ i + 1 \notin DOMAIN new
        <5>1. Len(new) = RecentLimit /\ i = RecentLimit /\ RecentLimit \in DOMAIN new
          <6>1. i \in Nat /\ i >= 1 /\ i <= Len(old) /\ k \in Nat
            BY <1>2, <4>1
          <6>2. ~(i + 1 <= Len(new))
            BY <1>8, <4>5, <6>1
          <6>3. k > Len(old)
            <7>1. ASSUME k <= Len(old)
                  PROVE  FALSE
              <8>1. Len(new) = Len(old) /\ i + 1 <= k
                BY <1>d, <4>5, <6>1, <7>1
              <8>2. QED
                BY <1>2, <6>1, <6>2, <7>1, <8>1
            <7>2. QED
              BY <1>2, <6>1, <7>1
          <6>4. ~(Len(old) < RecentLimit)
            <7>1. ASSUME Len(old) < RecentLimit
                  PROVE  FALSE
              <8>1. ~(i + 1 <= Len(old) + 1)
                BY <1>d, <6>2, <6>3, <7>1, Zenon
              <8>2. QED
                BY <1>2, <6>1, <8>1
            <7>2. QED
              BY <7>1
          <6>5. Len(old) = RecentLimit /\ Len(new) = RecentLimit
            <7>1. \A x, y \in Nat : x <= y /\ ~(x < y) => x = y
              OBVIOUS
            <7>2. Len(old) = RecentLimit
              BY <1>2, <6>4, <7>1
            <7>3. QED
              BY <1>d, <6>3, <7>2, Zenon
          <6>6. i = RecentLimit
            BY <1>2, <6>1, <6>2, <6>5
          <6>7. QED
            BY <1>2, <1>8, <6>5, <6>6
        <5>2. now[RecentLimit] = IF RecentLimit = 1 THEN n ELSE place[RecentLimit - 1]
          BY <1>8, <1>c, <4>5, <5>1
        <5>3. m < now[RecentLimit]
          BY <1>1, <1>2, <1>3, <1>8, <2>2, <4>1, <5>1, <5>2
        <5>4. QED
          BY <5>1, <5>3
      <4>6. QED
        BY <1>2, <4>2, <4>3, <4>4, <4>5
    <3>2. CASE Len(old) = RecentLimit /\ m < place[RecentLimit]
      <4>1. /\ Len(new) = RecentLimit /\ RecentLimit \in DOMAIN new
            /\ RecentLimit \in DOMAIN old
        <5>1. Len(new) = RecentLimit
          BY <1>2, <1>d, <3>2
        <5>2. RecentLimit \in 1..RecentLimit
          BY <1>2
        <5>3. QED
          BY <1>2, <1>8, <3>2, <5>1, <5>2
      <4>2. CASE RecentLimit = 1
        BY <1>1, <1>c, <2>2, <4>1, <4>2
      <4>3. CASE RecentLimit # 1
        <5>1. /\ RecentLimit - 1 \in DOMAIN old
              /\ place[RecentLimit - 1] > place[RecentLimit]
              /\ place[RecentLimit - 1] \in Nat /\ place[RecentLimit] \in Nat
              /\ m \in Nat
          <6>1. RecentLimit - 1 \in DOMAIN old
            BY <1>2, <4>1, <4>3
          <6>2. \A l \in DOMAIN old : place[l] \in Nat
            BY <1>1, <1>3
          <6>3. m \in Nat
            BY <1>1, <2>2
          <6>4. place[RecentLimit - 1] > place[RecentLimit]
            <7>1. RecentLimit - 1 < RecentLimit
              BY <1>2
            <7>2. QED
              BY <1>3, <4>1, <6>1, <7>1
          <6>5. QED
            BY <4>1, <6>1, <6>2, <6>3, <6>4
        <5>2. now[RecentLimit] \in {place[RecentLimit - 1], place[RecentLimit]}
          BY <1>c, <4>1, <4>3
        <5>3. QED
          BY <3>2, <4>1, <5>1, <5>2
      <4>4. QED
        BY <4>2, <4>3
    <3>3. QED
      BY <1>3, <2>2, <3>1, <3>2
  <2>3. QED
    BY <1>7, <1>12, <2>1, <2>2
<1>13. QED
  BY <1>5, <1>9, <1>10, <1>11, <1>12 DEF Remembered

\* The fields of a script that has posted, and of a request that is sent.
LEMMA PostField ==
  ASSUME NEW x \in Scripts, NEW n \in 0..MaxAsked, NEW y, y = [x EXCEPT !.post = n]
  PROVE  y \in Scripts /\ y.at = x.at /\ y.post = n /\ y.question = x.question
BY DEF Scripts

LEMMA RequestField ==
  ASSUME NEW x \in Requests, NEW y, y = [x EXCEPT !.at = "sent"]
  PROVE  y \in Requests /\ y.at = "sent" /\ y.engine = x.engine
BY DEF Requests

\* A submitted question is remembered and posted, or there is none.
LEMMA SubmitFormStep ==
  ASSUME ApplicationInv, NEW s \in Session, SubmitForm(s)
  PROVE  ApplicationInv'
<1>. USE DEF page, history, engines
<1>1. CASE script[s].question = None
  <2>1. /\ script' = [script EXCEPT ![s] = Idle]
        /\ UNCHANGED <<page, asked, settled, request, server, engines>>
    BY <1>1 DEF SubmitForm
  <2>2. Idle \in Scripts /\ Idle.at = "idle"
    BY ApplicationAssumption DEF Idle, Scripts
  <2>3. /\ script' \in [Session -> Scripts] /\ script'[s].at = "idle"
        /\ \A o \in Session \ {s} : script'[o] = script[o]
    BY <2>1, <2>2 DEF ApplicationInv, TypeOK
  <2>4. TypeOK' /\ RequestsHold' /\ EnginesHold'
    BY <2>1, <2>3, RequestsFrame DEF ApplicationInv, TypeOK, Scripts
  <2>5. Bounded'
    <3>1. Unposted' \subseteq Unposted
      BY <2>3 DEF Unposted
    <3>2. QED
      BY <2>1, <3>1, BoundedFrame DEF ApplicationInv
  <2>6. \A o \in Session : SessionHolds(o)'
    BY <2>1, <2>3, SessionFrame
  <2>7. QED
    BY <2>1, <2>4, <2>5, <2>6, PageFrame DEF ApplicationInv
<1>2. CASE script[s].question # None
  <2>1. PICK q \in Question : q = script[s].question
    BY <1>2 DEF ApplicationInv, TypeOK, Scripts
  <2>2. PICK n \in Nat \ {0} : n = Len(asked) + 1
    BY Posts DEF ApplicationInv
  <2>3. /\ script[s].at = "form" /\ s \in Unposted
        /\ recent' = [recent EXCEPT ![s] = AddRecent(recent[s], q)]
        /\ request' = [request EXCEPT ![Len(asked')].at = "sent"]
        /\ script' = [script EXCEPT ![s].at = "ask", ![s].post = Len(asked')]
        /\ UNCHANGED <<examples, latest, error, settled, server, engines>>
    BY <1>2, <2>1 DEF SubmitForm, Unposted
  <2>4. /\ asked' \in Seq([session : Session, question : Question])
        /\ Len(asked') = n
        /\ Asked = 1..(n - 1) /\ Asked' = 1..n
        /\ asked'[n].session = s /\ asked'[n].question = q
        /\ \A m \in Asked : asked'[m] = asked[m]
    <3>1. asked' = Append(asked, [session |-> s, question |-> q])
      BY <1>2, <2>1 DEF SubmitForm
    <3>2. QED
      BY <2>2, <3>1, OneMorePost, Zenon
  \* The post has its place.
  <2>5. /\ IsFiniteSet(Unposted) /\ Cardinality(Unposted) \in Nat
        /\ Cardinality(Unposted \ {s}) = Cardinality(Unposted) - 1
        /\ Cardinality(Unposted \ {s}) \in Nat
    <3>1. IsFiniteSet(Unposted) /\ Cardinality(Unposted) \in Nat
      BY UnpostedCount DEF ApplicationInv
    <3>2. IsFiniteSet(Unposted \ {s})
          /\ Cardinality(Unposted \ {s}) = Cardinality(Unposted) - 1
      BY <2>3, <3>1, FS_RemoveElement
    <3>3. QED
      BY <3>1, <3>2, FS_CardinalityType
  <2>6. n \in Post /\ n \in 0..MaxAsked
    BY <2>2, <2>5, Posts DEF ApplicationInv, Bounded, Post
  <2>7. /\ DOMAIN script' = Session /\ script' = [o \in Session |-> script'[o]]
        /\ \A o \in Session : script[o] \in Scripts
        /\ \A o \in Session \ {s} : script'[o] = script[o]
        /\ script'[s] = [script[s] EXCEPT !.at = "ask", !.post = n]
    BY <2>3, <2>4 DEF ApplicationInv, TypeOK
  <2>8. /\ script'[s] \in Scripts /\ script'[s].at = "ask" /\ script'[s].post = n
        /\ script'[s].question = q
    <3>1. /\ script[s] \in Scripts
          /\ script'[s] = [script[s] EXCEPT !.at = "ask", !.post = n]
      BY <2>7
    <3>2. PICK x \in Scripts : x = script[s]
      BY <3>1
    <3>3. PICK y : y = script'[s]
      OBVIOUS
    <3>4. PICK z : z = [x EXCEPT !.at = "ask"] /\ y = [z EXCEPT !.post = n]
      BY <3>1, <3>2, <3>3
    <3>5. y \in Scripts /\ y.at = "ask" /\ y.post = n /\ y.question = x.question
      <4>1. /\ z \in Scripts /\ z.at = "ask" /\ z.question = x.question
        BY <3>4, ScriptField
      <4>2. n \in 0..MaxAsked /\ y = [z EXCEPT !.post = n]
        BY <2>6, <3>4
      <4>3. y \in Scripts /\ y.post = n /\ y.at = z.at /\ y.question = z.question
        BY <4>1, <4>2, PostField, Zenon
      <4>4. QED
        BY <4>1, <4>3
    <3>6. QED
      BY <2>1, <3>2, <3>3, <3>5
  <2>9. Bounded'
    <3>1. Unposted' = Unposted \ {s}
      <4>1. s \notin Unposted'
        BY <2>8 DEF Unposted
      <4>2. ASSUME NEW o \in Session \ {s}
            PROVE  o \in Unposted' <=> o \in Unposted
        BY <2>7 DEF Unposted
      <4>3. Unposted \subseteq Session /\ Unposted' \subseteq Session
        BY DEF Unposted
      <4>4. QED
        BY <4>1, <4>2, <4>3
    <3>2. Len(asked) \in Nat /\ MaxAsked \in Nat
      BY Posts DEF ApplicationInv
    <3>3. n + Cardinality(Unposted \ {s}) <= MaxAsked
      BY <2>2, <2>5, <3>2 DEF ApplicationInv, Bounded
    <3>4. QED
      BY <2>4, <3>1, <3>3 DEF Bounded
  <2>10. /\ request' \in [Post -> Requests'] /\ RequestsHold' /\ EnginesHold'
    <3>1. request \in [Post -> Requests] /\ Requests' = Requests
      BY <2>3 DEF ApplicationInv, TypeOK, Requests
    <3>2. /\ request[n].at = "none" /\ request[n].engine = None
          /\ request[n] \in Requests
      BY <2>4, <2>6, <3>1 DEF ApplicationInv, RequestsHold
    <3>3. /\ \A m \in Post \ {n} : request'[m] = request[m]
          /\ request'[n] = [request[n] EXCEPT !.at = "sent"]
          /\ request' = [m \in Post |-> request'[m]]
      BY <2>3, <2>4, <2>6, <3>1
    <3>4. /\ request'[n] \in Requests /\ request'[n].at = "sent"
          /\ request'[n].engine = None
      BY <3>2, <3>3, RequestField
    <3>5. request' \in [Post -> Requests']
      BY <3>1, <3>3, <3>4
    <3>6. RequestsHold'
      <4>1. n \in Asked' /\ Asked \subseteq Asked'
        BY <2>2, <2>4
      <4>2. ASSUME NEW m \in Post
            PROVE  /\ request'[m].at # "none" => m \in Asked'
                   /\ request'[m].at # "working" => request'[m].engine = None
        <5>1. CASE m = n
          BY <3>4, <4>1, <5>1
        <5>2. CASE m # n
          BY <3>3, <4>1, <5>2 DEF ApplicationInv, RequestsHold
        <5>3. QED
          BY <5>1, <5>2
      <4>3. QED
        BY <4>2 DEF RequestsHold
    <3>7. Active' = Active
      <4>1. Asked \subseteq Post /\ Asked' = Asked \cup {n} /\ n \notin Asked
        BY <2>2, <2>4, PostsBounded DEF ApplicationInv
      <4>2. QED
        BY <3>3, <3>4, <4>1 DEF Active
    <3>8. EnginesHold'
      BY <2>3, <3>7 DEF ApplicationInv, EnginesHold
    <3>9. QED
      BY <3>5, <3>6, <3>8
  <2>11. TypeOK'
    <3>1. script' \in [Session -> Scripts]
      BY <2>7, <2>8
    <3>2. /\ recent' \in [Session -> Seq(Question)]
          /\ \A o \in Session : Len(recent'[o]) <= RecentLimit
      <4>1. recent[s] \in Seq(Question) /\ Len(recent[s]) <= RecentLimit
        BY DEF ApplicationInv, TypeOK
      <4>2. AddRecent(recent[s], q) \in Seq(Question)
            /\ Len(AddRecent(recent[s], q)) <= RecentLimit
        <5>1. RecentLimit \in Nat /\ Len(recent[s]) \in Nat
          BY <4>1, ApplicationAssumption
        <5>2. /\ AddRecent(recent[s], q) \in Seq(Question)
              /\ \E size \in Nat : Len(AddRecent(recent[s], q)) =
                                    IF size < RecentLimit THEN size ELSE RecentLimit
          <6>1. PICK k \in 1..(Len(recent[s]) + 1) :
                  LET added == AddRecent(recent[s], q)
                      size == IF k <= Len(recent[s]) THEN Len(recent[s])
                                                     ELSE Len(recent[s]) + 1
                  IN /\ added \in Seq(Question)
                     /\ Len(added) = IF size < RecentLimit THEN size ELSE RecentLimit
            BY <4>1, AddedPlaces
          <6>2. CASE k <= Len(recent[s])
            BY <5>1, <6>1, <6>2
          <6>3. CASE ~(k <= Len(recent[s]))
            BY <5>1, <6>1, <6>3
          <6>4. QED
            BY <6>2, <6>3
        <5>3. QED
          BY <5>1, <5>2
      <4>3. QED
        BY <2>3, <4>2 DEF ApplicationInv, TypeOK
    <3>3. QED
      BY <2>3, <2>4, <2>10, <3>1, <3>2
         DEF ApplicationInv, TypeOK, Scripts
  <2>12. /\ PostsOf(s)' = PostsOf(s) \cup {n} /\ PostsOf(s) \subseteq 1..(n - 1)
         /\ \A o \in Session \ {s} : PostsOf(o)' = PostsOf(o)
         /\ \A o \in Session : \A m \in PostsOf(o) : m \in Asked
    <3>1. Asked' = Asked \cup {n} /\ n \notin Asked
      BY <2>2, <2>4
    <3>2. QED
      BY <2>4, <3>1 DEF PostsOf
  <2>13. ASSUME NEW o \in Session
         PROVE  SessionHolds(o)'
    <3>1. SessionHolds(o)
      BY DEF ApplicationInv
    <3>2. CASE o = s
      <4>1. \A m \in PostsOf(s) : m \in Nat /\ m < n
        BY <2>12
      <4>2. /\ n \in PostsOf(s)' /\ PostsOf(s)' \subseteq 1..n
            /\ settled[s] < n
        BY <2>12, <3>1, <3>2, <4>1 DEF SessionHolds
      <4>3. /\ latest'[s] = latest[s] /\ error'[s] = error[s]
            /\ settled'[s] = settled[s]
        BY <2>3
      <4>4. /\ latest[s] # None => latest[s].post \in PostsOf(s)
            /\ error[s] # None => error[s].post \in PostsOf(s)
            /\ settled[s] \in PostsOf(s) \cup {0}
        BY <3>1, <3>2 DEF SessionHolds
      <4>5. WaitingHolds(s)'
        <5>1. /\ error[s] # None => error[s].post < n
              /\ latest[s] # None => latest[s].post < n
          BY <4>1, <4>4
        <5>2. asked'[n].question = q
          BY <2>4
        <5>3. QED
          BY <2>8, <4>2, <4>3, <5>1, <5>2 DEF WaitingHolds
      <4>6. QED
        BY <2>12, <3>2, <4>3, <4>4, <4>5 DEF SessionHolds
    <3>3. CASE o # s
      <4>1. \A m \in PostsOf(o) : asked'[m] = asked[m]
        BY <2>4, <2>12
      <4>2. script'[o] = script[o] /\ NewAnswer(o)' = NewAnswer(o)
            /\ PostsOf(o)' = PostsOf(o)
        BY <2>7, <2>12, <3>3 DEF NewAnswer, Answered, Answer
      <4>3. QED
        BY <2>3, <3>1, <4>1, <4>2 DEF SessionHolds, WaitingHolds
    <3>4. QED
      BY <3>2, <3>3
  <2>14. ASSUME NEW o \in Session
         PROVE  Remembered(o)'
    <3>1. CASE o = s
      BY <2>1, <2>3, <2>4, <3>1, RememberedStep
    <3>2. CASE o # s
      <4>1. /\ PostsOf(o)' = PostsOf(o) /\ recent'[o] = recent[o]
            /\ \A m \in PostsOf(o) : asked'[m] = asked[m]
        BY <2>3, <2>4, <2>12, <3>2 DEF ApplicationInv, TypeOK
      <4>2. \A m \in PostsOf(o) : Newest(o, m)' <=> Newest(o, m)
        BY <4>1 DEF Newest
      <4>3. Remembered(o)
        BY DEF ApplicationInv, RecentQuestionsAreRemembered
      <4>4. QED
        BY <4>1, <4>2, <4>3 DEF Remembered
    <3>3. QED
      BY <3>1, <3>2
  <2>15. ErrorBesideAnswerIsOlder' /\ PageShowsLastOutcome'
    <3>1. ErrorBesideAnswerIsOlder'
      BY <2>3 DEF ApplicationInv, ErrorBesideAnswerIsOlder
    <3>2. ASSUME NEW o \in Session, settled'[o] # 0, PostsOf(o)' \subseteq 1..settled'[o]
          PROVE  \/ /\ error'[o] = None
                    /\ latest'[o] # None
                    /\ latest'[o].post = settled'[o]
                    /\ latest'[o].question = asked'[settled'[o]].question
                 \/ /\ latest'[o] = None
                    /\ error'[o] # None /\ error'[o].post = settled'[o]
      <4>1. settled[o] \in PostsOf(o)
        BY <2>3, <3>2 DEF ApplicationInv, SessionHolds
      <4>2. o # s
        BY <2>3, <2>12, <3>2, <4>1
      <4>3. PostsOf(o)' = PostsOf(o) /\ asked'[settled[o]] = asked[settled[o]]
        BY <2>4, <2>12, <4>1, <4>2
      <4>4. QED
        BY <2>3, <3>2, <4>3 DEF ApplicationInv, PageShowsLastOutcome
    <3>3. QED
      BY <3>1, <3>2 DEF PageShowsLastOutcome
  <2>16. RecentQuestionsAreRemembered'
    BY <2>11, <2>14 DEF TypeOK, RecentQuestionsAreRemembered
  <2>17. QED
    BY <2>9, <2>10, <2>11, <2>13, <2>15, <2>16 DEF ApplicationInv
<1>3. QED
  BY <1>1, <1>2

\* Every step preserves the invariant.
LEMMA NextInv == ApplicationInv /\ [Next]_vars => ApplicationInv'
<1>. SUFFICES ASSUME ApplicationInv, [Next]_vars PROVE ApplicationInv'
  OBVIOUS
<1>1. CASE UNCHANGED vars
  <2>. USE <1>1 DEF vars, page, history, engines
  <2>1. RequestsHold' /\ EnginesHold' /\ request' \in [Post -> Requests']
    BY RequestsFrame
  <2>2. TypeOK'
    BY <2>1 DEF ApplicationInv, TypeOK, Scripts
  <2>3. QED
    BY <2>1, <2>2, BackendFrame DEF ApplicationInv
<1>2. CASE Backend
  BY <1>2, ProcessStep, RefuseStep, LookUpStep, BuildStep, ReplyStep, Zenon
     DEF Backend
<1>3. ASSUME NEW s \in Session, User(s) \/ Script(s) \/ ConnectionLost(s)
      PROVE  ApplicationInv'
  BY <1>3, UserStep, LoadExamplesStep, SubmitFormStep, NoAnswerStep, StoreStep,
     Zenon DEF Script
<1>4. QED
  BY <1>1, <1>2, <1>3 DEF Next

LEMMA ApplicationInvariant == Spec => []ApplicationInv
BY InitInv, NextInv, PTL DEF Spec

-----------------------------------------------------------------------------

\* Every variable has the values its comment names: no question is posted
\* beyond the bound, and no engine is used that was not built.
THEOREM TypeCorrect == Spec => []TypeOK
<1>1. ApplicationInv => TypeOK
  BY DEF ApplicationInv
<1>2. QED
  BY <1>1, ApplicationInvariant, PTL

\* However many questions a session asks, and however its runs are cut off,
\* add_recent_question leaves the newest of them in the list, in order, each
\* once, and as many as the limit allows.
THEOREM RecentQuestions == Spec => []RecentQuestionsAreRemembered
<1>1. ApplicationInv => RecentQuestionsAreRemembered
  BY DEF ApplicationInv
<1>2. QED
  BY <1>1, ApplicationInvariant, PTL

\* The page never has an answer beside the failure of a later question, also
\* when the run is cut off between the two assignments.
THEOREM NoLaterError == Spec => []ErrorBesideAnswerIsOlder
<1>1. ApplicationInv => ErrorBesideAnswerIsOlder
  BY DEF ApplicationInv
<1>2. QED
  BY <1>1, ApplicationInvariant, PTL

\* The page shows what the last question came to, if that was waited for,
\* whatever abandoned requests of the session are answered meanwhile.
THEOREM LastOutcome == Spec => []PageShowsLastOutcome
<1>1. ApplicationInv => PageShowsLastOutcome
  BY DEF ApplicationInv
<1>2. QED
  BY <1>1, ApplicationInvariant, PTL

\* A process that ended in order has disposed of the engine that was cached,
\* however many threads built one at once: the cached one is the first.
THEOREM EngineDisposed == Spec => []CachedEngineIsDisposed
<1>1. ApplicationInv => CachedEngineIsDisposed
  BY DEF ApplicationInv, TypeOK, EnginesHold, CachedEngineIsDisposed
<1>2. QED
  BY <1>1, ApplicationInvariant, PTL
=============================================================================
