----------------------------- MODULE Application -----------------------------
(***************************************************************************)
(* The frontend (frontend/app.py) over the lifecycle of the backend        *)
(* (main.py, db/engine.py).  Streamlit runs the page's script once for     *)
(* every event of a browser session, on the state the session keeps        *)
(* between runs.  An event that arrives while the script runs supersedes   *)
(* the run: it stops where it next touches the session state or the page,  *)
(* at the latest after the call it is waiting for, and writes no more.     *)
(*                                                                         *)
(* The backend serves requests on threads, over one cached engine, and     *)
(* does not notice that a caller has given up.  What a request comes to    *)
(* there is the subject of QueryPipeline.                                  *)
(***************************************************************************)
EXTENDS Integers, SequencesExt

CONSTANTS
  Session,      \* the browser sessions
  Question,     \* the questions, without surrounding blanks
  RecentLimit,  \* RECENT_QUESTION_LIMIT
  MaxAsked,     \* bound: the questions posted in a behaviour
  None          \* nothing stored, nothing submitted, nothing cached

VARIABLES
  examples,    \* examples[s]: the example questions have been loaded
  latest,      \* latest[s]: None, or the answer on the page
  error,       \* error[s]: None, or the failure on the page
  recent,      \* recent[s]: the recent questions, newest first
  script,      \* script[s]: where the session's script is, and its locals
  settled,     \* history, settled[s]: the last post whose run was not cut off
  asked,       \* history: every question posted, by number
  request,     \* request[n]: where the backend is with post n
  server,      \* the backend process: up, draining or down
  configured,  \* the reader's database URL makes an engine
  cache,       \* the engine that get_runtime_engine's cache holds
  built,       \* the number of engines the process has created
  disposed     \* those of them that have been disposed

page    == <<examples, latest, error, recent>>
history == <<settled, asked>>
engines == <<configured, cache, built, disposed>>
vars    == <<page, script, history, request, server, engines>>

Post == 1..MaxAsked
Asked == DOMAIN asked

\* What a call comes to: an answer of any status, an error response with or
\* without a category, no response in time, no connection.
Failure == {"response", "backend_timeout", "backend_unavailable"}
Outcome == {"answer"} \cup Failure

\* What the page shows: an answer under its question, or a failure.
Answers == [question : Question, post : Post]
Problems == [post : Post, failure : Failure]

ASSUME ApplicationAssumption ==
  /\ IsFiniteSet(Session)
  /\ RecentLimit \in Nat \ {0}
  /\ MaxAsked \in Nat
  /\ None \notin Question \cup Nat \cup Outcome \cup Answers \cup Problems

Active == {n \in Asked : request[n].at \in {"building", "working"}}

Idle == [at |-> "idle", question |-> None, post |-> 0, outcome |-> None]

Goto(s, stage) == script' = [script EXCEPT ![s].at = stage]
-----------------------------------------------------------------------------
(***************************************************************************)
(* The script of a session.                                                *)
(***************************************************************************)

\* A new run; q is what was submitted, None unless Analyze was pressed on a
\* question that is not blank.
RunScript(s, q) ==
  script' = [script EXCEPT ![s] =
    [Idle EXCEPT !.at = IF examples[s] THEN "form" ELSE "examples",
                 !.question = q]]

Unposted == {s \in Session : script[s].at \in {"examples", "form"}
                               /\ script[s].question # None}

Submit(s, q) ==
  /\ Len(asked) + Cardinality(Unposted) < MaxAsked
  /\ RunScript(s, q)
  /\ UNCHANGED <<page, history, request, server, engines>>

\* A button with an example or a recent question fills in the form; pressing
\* Analyze on a blank form only warns.  Neither posts anything.
Select(s) ==
  /\ examples[s] \/ recent[s] # << >>
  /\ RunScript(s, None)
  /\ UNCHANGED <<page, history, request, server, engines>>

\* Whether the call for the examples may succeed: any response but a list
\* of examples is a failure, like none at all.
ExamplesLoaded == IF server = "up" THEN BOOLEAN ELSE {FALSE}

\* While there are no examples, every run asks for them; it goes on without
\* them when the call fails.
LoadExamples(s) ==
  /\ script[s].at = "examples"
  /\ \E loaded \in ExamplesLoaded : examples' = [examples EXCEPT ![s] = loaded]
  /\ Goto(s, "form")
  /\ UNCHANGED <<latest, error, recent, history, request, server, engines>>

\* Mutant: a question asked before is listed twice.
AddWithoutRemoving(questions, q) ==
  SubSeq(<<q>> \o questions, 1,
         IF Len(questions) < RecentLimit THEN Len(questions) + 1
                                         ELSE RecentLimit)

\* add_recent_question.  The list it is given has no question twice, so that
\* what remains is the list without the one place that has this question.
AddRecent(questions, q) ==
  LET all == <<q>> \o RemoveFirst(questions, q) IN
  SubSeq(all, 1, IF Len(all) < RecentLimit THEN Len(all) ELSE RecentLimit)

\* A submitted question is remembered, then posted: a run that is superseded
\* in between, where it opens its spinner, is one whose post stays "sent" and
\* is never taken.  A run without a question has only to show what the session
\* holds, which changes nothing.
SubmitForm(s) ==
  LET q == script[s].question IN
  /\ script[s].at = "form"
  /\ \/ /\ q = None
        /\ script' = [script EXCEPT ![s] = Idle]
        /\ UNCHANGED <<recent, asked, request>>
     \/ /\ q # None
        /\ recent' = [recent EXCEPT ![s] = AddRecent(@, q)]
        /\ asked' = Append(asked, [session |-> s, question |-> q])
        /\ request' = [request EXCEPT ![Len(asked')].at = "sent"]
        /\ script' = [script EXCEPT ![s].at = "ask", ![s].post = Len(asked')]
  /\ UNCHANGED <<examples, latest, error, settled, server, engines>>

\* The call ends for the script that waits for it, if one still does.
Outcomes(n, outcome) ==
  [s \in Session |->
     IF script[s].at = "ask" /\ script[s].post = n
       THEN [script[s] EXCEPT !.at = "write", !.outcome = outcome]
       ELSE script[s]]

\* Mutant: only the connection has a timeout.
GivesUpConnecting(s) ==
  script[s].at = "ask" /\ request[script[s].post].at = "sent"

GivesUp(s) == script[s].at = "ask"

\* The client's timeout, whatever the backend is doing.
ClientTimeout(s) ==
  /\ GivesUp(s)
  /\ script' = Outcomes(script[s].post, "backend_timeout")
  /\ UNCHANGED <<page, history, request, server, engines>>

\* The connection is lost with the backend process.
ConnectionLost(s) ==
  /\ script[s].at = "ask"
  /\ request[script[s].post].at = "over"
  /\ script' = Outcomes(script[s].post, "backend_unavailable")
  /\ UNCHANGED <<page, history, request, server, engines>>

\* Both entries are assigned, one after the other.
Answer(s) == [question |-> script[s].question, post |-> script[s].post]
Problem(s) == [post |-> script[s].post, failure |-> script[s].outcome]

Answered(s) == script[s].outcome = "answer"

\* Mutant: a failure is stored before the answer on the page is cleared.
FailureFirst(s) ==
  IF (script[s].at = "write") = Answered(s) THEN "latest_query"
                                            ELSE "latest_error"

Entry(s) ==
  IF script[s].at = "write" THEN "latest_query" ELSE "latest_error"

\* Mutant: an answer leaves the error of an earlier question in place.
ErrorStays(s) == IF Answered(s) THEN error[s] ELSE Problem(s)

NewError(s) == IF Answered(s) THEN None ELSE Problem(s)
NewAnswer(s) == IF Answered(s) THEN Answer(s) ELSE None

Store(s) ==
  /\ script[s].at \in {"write", "second"}
  /\ \/ /\ Entry(s) = "latest_query"
        /\ latest' = [latest EXCEPT ![s] = NewAnswer(s)]
        /\ UNCHANGED error
     \/ /\ Entry(s) = "latest_error"
        /\ error' = [error EXCEPT ![s] = NewError(s)]
        /\ UNCHANGED latest
  /\ IF script[s].at = "write"
       THEN Goto(s, "second") /\ UNCHANGED settled
       ELSE /\ script' = [script EXCEPT ![s] = Idle]
            /\ settled' = [settled EXCEPT ![s] = script[s].post]
  /\ UNCHANGED <<examples, recent, asked, request, server, engines>>

Script(s) ==
  \/ LoadExamples(s) \/ SubmitForm(s) \/ ClientTimeout(s)
  \/ Store(s)

User(s) == Select(s) \/ \E q \in Question : Submit(s, q)
-----------------------------------------------------------------------------
(***************************************************************************)
(* The backend.                                                            *)
(***************************************************************************)

Over(n) == [request EXCEPT ![n] = [at |-> "over", engine |-> None]]

\* Nobody listens.
Refuse(n) ==
  /\ request[n].at = "sent" /\ server # "up"
  /\ request' = Over(n)
  /\ script' = Outcomes(n, "backend_unavailable")
  /\ UNCHANGED <<page, history, server, engines>>

\* The request reaches a thread, and its get_runtime_engine: the cached
\* engine, or a call of its own.
LookUp(n) ==
  /\ request[n].at = "sent" /\ server = "up"
  /\ request' = [request EXCEPT ![n] =
       IF cache # None THEN [at |-> "working", engine |-> cache]
                       ELSE [at |-> "building", engine |-> None]]
  /\ UNCHANGED <<page, script, history, server, engines>>

\* create_runtime_engine, outside the lock of lru_cache: the result is kept
\* unless another thread's has been.  A configuration error is not cached,
\* and reaches the client as a response without a category.
Build(n) ==
  /\ request[n].at = "building"
  /\ \/ /\ configured
        /\ built' = built + 1
        /\ cache' = IF cache = None THEN built' ELSE cache
        /\ request' =
             [request EXCEPT ![n] = [at |-> "working", engine |-> built']]
        /\ UNCHANGED script
     \/ /\ ~configured
        /\ request' = Over(n)
        /\ script' = Outcomes(n, "response")
        /\ UNCHANGED <<built, cache>>
  /\ UNCHANGED <<page, history, server, configured, disposed>>

\* An answer, a failure with a category, or an exception the route does not
\* name; it is lost when the caller has given up.
Reply(n) ==
  /\ request[n].at = "working"
  /\ \E outcome \in {"answer", "response"} :
       script' = Outcomes(n, outcome)
  /\ request' = Over(n)
  /\ UNCHANGED <<page, history, server, engines>>

\* The process is asked to stop: it accepts nothing more.
Stop ==
  /\ server = "up"
  /\ server' = "draining"
  /\ UNCHANGED <<page, script, history, request, engines>>

\* Mutant: the cache is cleared first, and the engine that is disposed is
\* the one the next call creates.
ClearFirst ==
  IF cache # None
    THEN disposed' = disposed \cup {built + 1} /\ built' = built + 1
    ELSE UNCHANGED <<disposed, built>>

\* dispose_runtime_engine
Dispose ==
  /\ disposed' = IF cache # None THEN disposed \cup {cache} ELSE disposed
  /\ UNCHANGED built

\* With no request left the lifespan ends.
Shutdown ==
  /\ server = "draining"
  /\ Active = {}
  /\ server' = "down"
  /\ Dispose
  /\ cache' = None
  /\ configured' = TRUE
  /\ UNCHANGED <<page, script, history, request>>

\* The process is gone, its requests and engines with it.
NoEngines == built' = 0 /\ disposed' = {} /\ cache' = None

Crash ==
  /\ server # "down"
  /\ server' = "down"
  /\ request' = [n \in Post |->
       IF n \in Active THEN [at |-> "over", engine |-> None] ELSE request[n]]
  /\ configured' = TRUE
  /\ NoEngines
  /\ UNCHANGED <<page, script, history>>

\* A new process reads its settings once.
Boot ==
  /\ server = "down"
  /\ server' = "up"
  /\ configured' \in BOOLEAN
  /\ NoEngines
  /\ UNCHANGED <<page, script, history, request>>

Backend ==
  \/ Stop \/ Shutdown \/ Crash \/ Boot
  \/ \E n \in Asked : Refuse(n) \/ LookUp(n) \/ Build(n) \/ Reply(n)
-----------------------------------------------------------------------------
Init ==
  /\ examples = [s \in Session |-> FALSE]
  /\ latest = [s \in Session |-> None]
  /\ error = [s \in Session |-> None]
  /\ recent = [s \in Session |-> << >>]
  /\ script = [s \in Session |->
       [Idle EXCEPT !.at = "examples"]]
  /\ settled = [s \in Session |-> 0]
  /\ asked = << >>
  /\ request = [n \in Post |-> [at |-> "none", engine |-> None]]
  /\ server = "up"
  /\ configured \in BOOLEAN
  /\ cache = None /\ built = 0 /\ disposed = {}

Next ==
  \/ Backend
  \/ \E s \in Session : User(s) \/ Script(s) \/ ConnectionLost(s)

Spec == Init /\ [][Next]_vars

\* The script's own steps go on, its client's timeout among them.  Nothing is
\* assumed of the backend or of the user.
FairSpec == Spec /\ \A s \in Session : WF_vars(Script(s))
-----------------------------------------------------------------------------
(***************************************************************************)
(* Properties.                                                             *)
(***************************************************************************)

PostsOf(s) == {n \in Asked : asked[n].session = s}

Scripts ==
  [at : {"idle", "examples", "form", "ask", "write", "second"},
   question : Question \cup {None}, post : 0..MaxAsked,
   outcome : Outcome \cup {None}]

Requests ==
  [at : {"none", "sent", "building", "working", "over"},
   engine : 1..built \cup {None}]

\* The type invariant: every variable has the values its comment names.
TypeOK ==
  /\ examples \in [Session -> BOOLEAN]
  /\ latest \in [Session -> Answers \cup {None}]
  /\ error \in [Session -> Problems \cup {None}]
  /\ recent \in [Session -> Seq(Question)]
  /\ \A s \in Session : Len(recent[s]) <= RecentLimit
  /\ script \in [Session -> Scripts]
  /\ settled \in [Session -> 0..MaxAsked]
  /\ asked \in Seq([session : Session, question : Question])
  /\ request \in [Post -> Requests]
  /\ server \in {"up", "draining", "down"}
  /\ configured \in BOOLEAN
  /\ built \in Nat
  /\ cache \in 1..built \cup {None}
  /\ disposed \subseteq 1..built

\* The questions a session has asked, newest first and each once, whether or
\* not they were answered, are its recent questions, up to the limit; also
\* when the run that asked was superseded while it waited.
Newest(s, n) ==
  n \in PostsOf(s) /\ \A m \in PostsOf(s) : m > n => asked[m].question # asked[n].question

Remembered(s) ==
  \E place \in [DOMAIN recent[s] -> PostsOf(s)] :
    /\ \A i \in DOMAIN recent[s] :
         Newest(s, place[i]) /\ asked[place[i]].question = recent[s][i]
    /\ \A i, j \in DOMAIN recent[s] : i < j => place[i] > place[j]
    /\ \A n \in PostsOf(s) : Newest(s, n) =>
         \/ \E i \in DOMAIN recent[s] : place[i] = n
         \/ Len(recent[s]) = RecentLimit /\ n < place[RecentLimit]

RecentQuestionsAreRemembered ==
  \A s \in Session : Len(recent[s]) <= RecentLimit /\ Remembered(s)

\* The page never shows an answer with an error that came after it, however
\* runs are superseded between the two assignments: an error beside an
\* answer is what an earlier question came to.
ErrorBesideAnswerIsOlder ==
  \A s \in Session :
    latest[s] # None /\ error[s] # None => error[s].post < latest[s].post

\* When the last question of a session was waited for, the page shows what
\* it came to and nothing else: the answer under that very question, or the
\* failure, also when an abandoned request of the same session is answered
\* meanwhile.
PageShowsLastOutcome ==
  \A s \in Session :
    LET n == settled[s] IN
    n # 0 /\ PostsOf(s) \subseteq 1..n =>
      \/ /\ error[s] = None
         /\ latest[s] # None
         /\ latest[s].post = n /\ latest[s].question = asked[n].question
      \/ /\ latest[s] = None
         /\ error[s] # None /\ error[s].post = n

\* After a shutdown every engine has been disposed, but for those of threads
\* that lost the race to fill the cache: at most the first requests of a
\* process, which all found it empty (dispose_runtime_engine).
CachedEngineIsDisposed ==
  server = "down" /\ built > 0 => 1 \in disposed

\* A session that waits for a question's answer stops waiting: with the
\* answer, with an error, or because the user went on, even when the backend
\* never answers (the client's timeout, api_client.py:117).
WaitingEnds ==
  \A s \in Session : \A n \in Post :
    script[s].at = "ask" /\ script[s].post = n
      ~> ~(script[s].at = "ask" /\ script[s].post = n)
-----------------------------------------------------------------------------
(***************************************************************************)
(* The inductive invariant behind the safety properties.                   *)
(***************************************************************************)

\* There is room for every question that is on its way.
Bounded == Len(asked) + Cardinality(Unposted) <= MaxAsked

\* Only a request that is being worked on has an engine.
RequestsHold ==
  \A n \in Post :
    /\ request[n].at # "none" => n \in Asked
    /\ request[n].at # "working" => request[n].engine = None

\* The engine in the cache is the first that the process built, and was
\* disposed of when the process ended in order.
EnginesHold ==
  IF server = "down" THEN Active = {} /\ (built = 0 \/ 1 \in disposed)
                     ELSE cache = IF built = 0 THEN None ELSE 1

\* A script that posted a question is the last of its session to have done
\* so; what the page showed before is of an earlier one, or of none.
WaitingHolds(s) ==
  LET n == script[s].post IN
  /\ n \in PostsOf(s) /\ PostsOf(s) \subseteq 1..n
  /\ asked[n].question = script[s].question
  /\ settled[s] < n
  /\ script[s].at # "ask" => script[s].outcome \in Outcome
  /\ error[s] # None => error[s].post < n
  /\ IF script[s].at = "second"
       THEN latest[s] = NewAnswer(s)
       ELSE latest[s] # None => latest[s].post < n

SessionHolds(s) ==
  /\ settled[s] \in PostsOf(s) \cup {0}
  /\ latest[s] # None => latest[s].post \in PostsOf(s)
  /\ error[s] # None => error[s].post \in PostsOf(s)
  /\ script[s].at \in {"ask", "write", "second"} => WaitingHolds(s)

ApplicationInv ==
  /\ TypeOK
  /\ Bounded
  /\ RequestsHold
  /\ EnginesHold
  /\ \A s \in Session : SessionHolds(s)
  /\ RecentQuestionsAreRemembered
  /\ ErrorBesideAnswerIsOlder
  /\ PageShowsLastOutcome
=============================================================================
