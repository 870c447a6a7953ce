----------------------------- MODULE Synthesis -----------------------------
(***************************************************************************)
(* rag._synthesise: the answer of every search tool goes through one       *)
(* semaphore, one circuit breaker and the thread pool of the event loop,   *)
(* under the per-tool timeout of main._timed_tool.                         *)
(*                                                                         *)
(* Coroutines interleave at their awaits only: taking a free permit,       *)
(* joining the queue, or a whole resumption is one action.  The blocking   *)
(* Gemini call runs in a worker thread, which nothing can stop: a request  *)
(* that is given up leaves it running (`orphans`).                         *)
(***************************************************************************)
EXTENDS Naturals, Sequences, FiniteSets, SequencesExt

CONSTANTS
    Callers,   \* tool calls that can be in progress at once
    Permits,   \* _GEMINI_SEMAPHORE = asyncio.Semaphore(5)
    Workers,   \* threads of the default executor, min(32, cpus + 4)
    Trip,      \* _CIRCUIT_TRIP_THRESHOLD
    OpenFor    \* _CIRCUIT_OPEN_SECONDS, in ticks

ASSUME SynthesisAssumption ==
    /\ Permits \in Nat \ {0}
    /\ Workers \in Nat \ {0}
    /\ Trip \in Nat \ {0}
    /\ OpenFor \in Nat \ {0}
    /\ IsFiniteSet(Callers)

VARIABLES
    caller,    \* where each tool call stands
    free,      \* the semaphore's counter
    waiting,   \* the semaphore's queue
    job,       \* the thread pool job of each call, and its result
    queue,     \* jobs no worker has taken yet
    orphans,   \* running jobs whose caller has gone
    failures,  \* _gemini_consecutive_failures, counted up to Trip
    open       \* ticks until _gemini_circuit_open_until

vars == <<caller, free, waiting, job, queue, orphans, failures, open>>

-----------------------------------------------------------------------------
Outcomes == {"answered", "excerpts", "timedOut"}
TypeOK ==
    /\ caller \in [Callers -> {"idle", "waiting", "granted", "calling"} \cup Outcomes]
    /\ free \in 0..Permits
    /\ waiting \in Seq(Callers)
    /\ job \in [Callers -> {"none", "queued", "running", "text", "error"}]
    /\ queue \in Seq(Callers)
    /\ orphans \in 0..Workers
    /\ failures \in 0..Trip
    /\ open \in 0..OpenFor

Init ==
    /\ caller = [c \in Callers |-> "idle"]
    /\ free = Permits
    /\ waiting = <<>>
    /\ job = [c \in Callers |-> "none"]
    /\ queue = <<>>
    /\ orphans = 0
    /\ failures = 0
    /\ open = 0

-----------------------------------------------------------------------------
Running == {c \in Callers : job[c] = "running"}
Granted == {c \in Callers : caller[c] = "granted"}
Holders == {c \in Callers : caller[c] \in {"granted", "calling"}}

\* asyncio.to_thread: a worker takes the job, or it queues.
Submit(c) ==
    IF Cardinality(Running) + orphans < Workers
    THEN job' = [job EXCEPT ![c] = "running"] /\ UNCHANGED queue
    ELSE job' = [job EXCEPT ![c] = "queued"] /\ queue' = Append(queue, c)

\* The worker that ran c's job turns to the next one.
WorkerMovesOn(c, result) ==
    IF queue = <<>>
    THEN job' = [job EXCEPT ![c] = result] /\ UNCHANGED queue
    ELSE /\ job' = [job EXCEPT ![c] = result, ![Head(queue)] = "running"]
         /\ queue' = Tail(queue)

\* asyncio's Semaphore.release: the head of the queue is granted the permit, to
\* resume later; without one the counter goes up.
Release(c, outcome) ==
    IF waiting = <<>>
    THEN /\ caller' = [caller EXCEPT ![c] = outcome]
         /\ free' = free + 1
         /\ UNCHANGED waiting
    ELSE /\ caller' = [caller EXCEPT ![c] = outcome, ![Head(waiting)] = "granted"]
         /\ waiting' = Tail(waiting)
         /\ UNCHANGED free

-----------------------------------------------------------------------------
\* The breaker is closed and a permit is free.  A permit is not taken past
\* somebody who waits or was granted one but has not resumed.
TakePermit(c) ==
    /\ caller[c] = "idle"
    /\ open = 0
    /\ free > 0 /\ waiting = <<>> /\ Granted = {}
    /\ caller' = [caller EXCEPT ![c] = "calling"]
    /\ free' = free - 1
    /\ Submit(c)
    /\ UNCHANGED <<waiting, orphans, failures, open>>

JoinQueue(c) ==
    /\ caller[c] = "idle"
    /\ open = 0
    /\ ~(free > 0 /\ waiting = <<>> /\ Granted = {})
    /\ caller' = [caller EXCEPT ![c] = "waiting"]
    /\ waiting' = Append(waiting, c)
    /\ UNCHANGED <<free, job, queue, orphans, failures, open>>

CountFailure ==
    LET count == IF failures < Trip THEN failures + 1 ELSE Trip IN
    /\ failures' = count
    /\ open' = IF count = Trip THEN OpenFor ELSE open

\* Mutant: the check stands inside the try block.
RefusedCounted(c) ==
    /\ caller[c] = "idle"
    /\ open > 0
    /\ caller' = [caller EXCEPT ![c] = "excerpts"]
    /\ CountFailure
    /\ UNCHANGED <<free, waiting, job, queue, orphans>>

\* The breaker is open: raw excerpts, and no failure is counted.
Refused(c) ==
    /\ caller[c] = "idle"
    /\ open > 0
    /\ caller' = [caller EXCEPT ![c] = "excerpts"]
    /\ UNCHANGED <<free, waiting, job, queue, orphans, failures, open>>

\* Mutant: a resumed waiter does not pass on a second permit that came free.
ResumeAlone(c) ==
    /\ caller[c] = "granted"
    /\ caller' = [caller EXCEPT ![c] = "calling"]
    /\ Submit(c)
    /\ UNCHANGED <<free, waiting, orphans, failures, open>>

\* A granted waiter resumes: it wakes the next one when a permit is left, and
\* hands its prompt to a thread.  The breaker is not looked at again.
Resume(c) ==
    /\ caller[c] = "granted"
    /\ IF free > 0 /\ waiting # <<>>
       THEN /\ caller' = [caller EXCEPT ![c] = "calling", ![Head(waiting)] = "granted"]
            /\ waiting' = Tail(waiting)
            /\ free' = free - 1
       ELSE /\ caller' = [caller EXCEPT ![c] = "calling"]
            /\ UNCHANGED <<waiting, free>>
    /\ Submit(c)
    /\ UNCHANGED <<orphans, failures, open>>

\* _call_gemini_sync returns a text, or raises after its third attempt.
JobEnds(c) ==
    /\ job[c] = "running"
    /\ \E result \in {"text", "error"} : WorkerMovesOn(c, result)
    /\ UNCHANGED <<caller, free, waiting, orphans, failures, open>>

OrphanEnds ==
    /\ orphans > 0
    /\ orphans' = orphans - 1
    /\ IF queue = <<>>
       THEN UNCHANGED <<job, queue>>
       ELSE job' = [job EXCEPT ![Head(queue)] = "running"] /\ queue' = Tail(queue)
    /\ UNCHANGED <<caller, free, waiting, failures, open>>

Answered(c) ==
    /\ caller[c] = "calling" /\ job[c] = "text"
    /\ Release(c, "answered")
    /\ job' = [job EXCEPT ![c] = "none"]
    /\ failures' = 0
    /\ UNCHANGED <<queue, orphans, open>>

Failed(c) ==
    /\ caller[c] = "calling" /\ job[c] = "error"
    /\ Release(c, "excerpts")
    /\ job' = [job EXCEPT ![c] = "none"]
    /\ CountFailure
    /\ UNCHANGED <<queue, orphans>>

\* Mutant: the permit is released in a `finally` around acquire().
GiveUpWaitingReleases(c) ==
    /\ caller[c] = "waiting"
    /\ \E i \in 1..Len(waiting) : waiting[i] = c /\ waiting' = RemoveAt(waiting, i)
    /\ caller' = [caller EXCEPT ![c] = "timedOut"]
    /\ free' = free + 1
    /\ UNCHANGED <<job, queue, orphans, failures, open>>

\* asyncio.wait_for cancels the tool.  CancelledError is no Exception: no
\* failure is counted, and a result that is already there is dropped.
GiveUpWaiting(c) ==
    /\ caller[c] = "waiting"
    /\ \E i \in 1..Len(waiting) : waiting[i] = c /\ waiting' = RemoveAt(waiting, i)
    /\ caller' = [caller EXCEPT ![c] = "timedOut"]
    /\ UNCHANGED <<free, job, queue, orphans, failures, open>>

\* Mutant: a cancelled call puts its granted permit back and wakes nobody.
GiveUpGrantedSilently(c) ==
    /\ caller[c] = "granted"
    /\ caller' = [caller EXCEPT ![c] = "timedOut"]
    /\ free' = free + 1
    /\ UNCHANGED <<waiting, job, queue, orphans, failures, open>>

GiveUpGranted(c) ==
    /\ caller[c] = "granted"
    /\ Release(c, "timedOut")
    /\ UNCHANGED <<job, queue, orphans, failures, open>>

\* Mutant: acquire() and release() without `async with`.
GiveUpKeepsPermit(c) ==
    /\ caller[c] = "calling"
    /\ caller' = [caller EXCEPT ![c] = "timedOut"]
    /\ job' = [job EXCEPT ![c] = "none"]
    /\ orphans' = IF job[c] = "running" THEN orphans + 1 ELSE orphans
    /\ IF job[c] = "queued"
       THEN \E i \in 1..Len(queue) : queue[i] = c /\ queue' = RemoveAt(queue, i)
       ELSE UNCHANGED queue
    /\ UNCHANGED <<free, waiting, failures, open>>

GiveUpCalling(c) ==
    /\ caller[c] = "calling"
    /\ Release(c, "timedOut")
    /\ job' = [job EXCEPT ![c] = "none"]
    /\ orphans' = IF job[c] = "running" THEN orphans + 1 ELSE orphans
    /\ IF job[c] = "queued"
       THEN \E i \in 1..Len(queue) : queue[i] = c /\ queue' = RemoveAt(queue, i)
       ELSE UNCHANGED queue
    /\ UNCHANGED <<failures, open>>

\* The client asks again.
NextRequest(c) ==
    /\ caller[c] \in Outcomes
    /\ caller' = [caller EXCEPT ![c] = "idle"]
    /\ UNCHANGED <<free, waiting, job, queue, orphans, failures, open>>

Tick ==
    /\ open > 0
    /\ open' = open - 1
    /\ UNCHANGED <<caller, free, waiting, job, queue, orphans, failures>>

-----------------------------------------------------------------------------
Next ==
    \/ \E c \in Callers :
        \/ TakePermit(c) \/ JoinQueue(c) \/ Refused(c) \/ Resume(c)
        \/ JobEnds(c) \/ Answered(c) \/ Failed(c)
        \/ GiveUpWaiting(c) \/ GiveUpGranted(c) \/ GiveUpCalling(c)
        \/ NextRequest(c)
    \/ OrphanEnds
    \/ Tick

\* Time passes, the event loop resumes what is ready, and every Gemini call
\* ends, by its network timeout and attempts if not otherwise.  Nothing is
\* assumed of the tool timeout or of the clients.
Fairness ==
    /\ WF_vars(Tick)
    /\ WF_vars(OrphanEnds)
    /\ \A c \in Callers :
        /\ WF_vars(Resume(c))
        /\ WF_vars(JobEnds(c))
        /\ WF_vars(Answered(c) \/ Failed(c))

Spec == Init /\ [][Next]_vars /\ Fairness

-----------------------------------------------------------------------------
\* Every permit is free or with one call, however calls succeed, fail and are
\* cancelled around each other (rag.py:307).
PermitsConserved == free + Cardinality(Holders) = Permits

\* No free permit is forgotten while a call queues: somebody was granted one
\* and will wake the next.
NoLostWakeUp == free > 0 /\ waiting # <<>> => Granted # {}

\* "The Gemini semaphore does not cause deadlocks under concurrency"
\* (load_test.py:9): who queues gets through, also behind the threads of calls
\* that were given up.
NobodyQueuesForever == \A c \in Callers : caller[c] = "waiting" ~> caller[c] # "waiting"

\* An open circuit closes: the failures of calls let in before it opened push
\* the deadline back, but refused calls do not, and nobody else is let in.
CircuitCloses == open > 0 ~> open = 0

\* "asyncio.Semaphore limits concurrent Gemini calls to 5" (rag.py:5).
GeminiCallsLimited == Cardinality(Running) + orphans <= Permits
=============================================================================
