-------------------------- MODULE SynthesisProofs --------------------------
(***************************************************************************)
(* The safety of the synthesis guard for any callers, permits and threads: *)
(* its types, that permits are conserved, and that no wake-up is lost.     *)
(***************************************************************************)
EXTENDS Synthesis, FiniteSetTheorems, SequenceTheorems, TLAPS

-----------------------------------------------------------------------------
(***************************************************************************)
(* Queues without repetition.                                              *)
(***************************************************************************)
Lined(s, S) ==
    /\ s \in Seq(S)
    /\ \A i, j \in 1..Len(s) : i # j => s[i] # s[j]

\* A newcomer joins at the end.
LEMMA JoinLine ==
    ASSUME NEW S, NEW s, NEW c, Lined(s, S), c \notin S
    PROVE  Lined(Append(s, c), S \cup {c})
<1>1. \A i \in 1..Len(s) : s[i] \in S
  BY DEF Lined
<1> QED BY <1>1 DEF Lined

\* The head is served.
LEMMA ServeLine ==
    ASSUME NEW S, NEW s, Lined(s, S), s # <<>>
    PROVE  Head(s) \in S /\ Lined(Tail(s), S \ {Head(s)})
<1>1. /\ Head(s) = s[1] /\ Head(s) \in S
      /\ Len(Tail(s)) = Len(s) - 1
      /\ \A i \in 1..Len(Tail(s)) : Tail(s)[i] = s[i + 1]
  BY DEF Lined
<1>2. \A i \in 1..Len(Tail(s)) : Tail(s)[i] \in S \ {Head(s)}
  BY <1>1 DEF Lined
<1>3. Tail(s) \in Seq(S \ {Head(s)})
  <2>1. s \in Seq(S) /\ Len(s) \in Nat /\ Len(s) # 0
    BY DEF Lined
  <2>2. \A i \in 2..Len(s) : s[i] \in S \ {Head(s)}
    BY <1>1, <2>1 DEF Lined
  <2>3. SubSeq(s, 2, Len(s)) \in Seq(S \ {Head(s)})
    BY <2>1, <2>2, SubSeqProperties
  <2> QED BY <2>1, <2>3, TailIsSubSeq
<1>4. \A i, j \in 1..Len(Tail(s)) : i # j => Tail(s)[i] # Tail(s)[j]
  BY <1>1 DEF Lined
<1> QED BY <1>1, <1>3, <1>4 DEF Lined

\* Somebody leaves.
LEMMA LeaveLine ==
    ASSUME NEW S, NEW s, Lined(s, S), NEW k \in 1..Len(s)
    PROVE  Lined(RemoveAt(s, k), S \ {s[k]})
<1> DEFINE T == S \ {s[k]}
           before == SubSeq(s, 1, k - 1)
           after == SubSeq(s, k + 1, Len(s))
           r == RemoveAt(s, k)
           at(i) == IF i < k THEN i ELSE i + 1
<1>1. /\ Len(s) \in Nat /\ k \in Int
      /\ \A i \in 1..k - 1 : s[i] \in T
      /\ \A i \in k + 1..Len(s) : s[i] \in T
  BY DEF Lined
<1>2. /\ before \in Seq(T) /\ Len(before) = k - 1
      /\ \A i \in 1..k - 1 : before[i] = s[i]
  <2> HIDE DEF T
  <2> QED BY <1>1, SubSeqProperties
<1>3. /\ after \in Seq(T) /\ Len(after) = Len(s) - k
      /\ \A i \in 1..Len(s) - k : after[i] = s[k + i]
  <2> HIDE DEF T
  <2>1. k + 1 \in Int /\ Len(s) \in Int
    BY <1>1
  <2>2. /\ after \in Seq(T)
        /\ Len(after) = IF k + 1 <= Len(s) THEN Len(s) - (k + 1) + 1 ELSE 0
        /\ \A i \in 1..Len(s) - (k + 1) + 1 : after[i] = s[(k + 1) + i - 1]
    BY ONLY <1>1, <2>1, SubSeqProperties
  <2> QED BY <1>1, <2>2
<1>4. /\ r \in Seq(T) /\ Len(r) = Len(s) - 1
      /\ \A i \in 1..Len(s) - 1 : r[i] = s[at(i)]
  <2>1. r = before \o after
    BY DEF RemoveAt
  <2> HIDE DEF T, before, after, r
  <2>2. /\ r \in Seq(T) /\ Len(r) = Len(before) + Len(after)
        /\ \A i \in 1..Len(before) + Len(after) :
             r[i] = IF i <= Len(before) THEN before[i] ELSE after[i - Len(before)]
    BY <1>2, <1>3, <2>1, ConcatProperties
  <2> QED BY <1>1, <1>2, <1>3, <2>2
<1>5. \A i, j \in 1..Len(r) : i # j => r[i] # r[j]
  BY <1>4 DEF Lined
<1> QED BY <1>4, <1>5 DEF Lined

-----------------------------------------------------------------------------
(***************************************************************************)
(* The semaphore.  A permit changes hands without passing through the      *)
(* counter, so the two sides of PermitsConserved move together only if the *)
(* queue is exactly the calls that wait, each once.                        *)
(***************************************************************************)
Waiting == {c \in Callers : caller[c] = "waiting"}
Queued == {c \in Callers : job[c] = "queued"}

Places == {"idle", "waiting", "granted", "calling"} \cup Outcomes
Stages == {"none", "queued", "running", "text", "error"}

SemaphoreInv ==
    /\ caller \in [Callers -> Places]
    /\ free \in Nat
    /\ Lined(waiting, Waiting)
    /\ PermitsConserved
    /\ NoLostWakeUp

PoolInv ==
    /\ job \in [Callers -> Stages]
    /\ orphans \in Nat
    /\ Lined(queue, Queued)
    /\ Cardinality(Running) + orphans <= Workers

\* Only a call that holds a permit and has resumed has a job.
JobsHeld == \A c \in Callers : job[c] # "none" => caller[c] = "calling"

BreakerInv == failures \in 0..Trip /\ open \in 0..OpenFor

IInv == SemaphoreInv /\ PoolInv /\ JobsHeld /\ BreakerInv

LEMMA FiniteParts ==
    ASSUME NEW S, S \subseteq Callers
    PROVE  IsFiniteSet(S) /\ Cardinality(S) \in Nat
BY SynthesisAssumption, FS_Subset, FS_CardinalityType

\* A set that swaps a member for another keeps its size.
LEMMA Swap ==
    ASSUME NEW S, IsFiniteSet(S), NEW x \in S, NEW y, y \notin S
    PROVE  Cardinality((S \ {x}) \cup {y}) = Cardinality(S)
<1> DEFINE R == S \ {x}
<1>1. IsFiniteSet(R) /\ Cardinality(R) = Cardinality(S) - 1 /\ y \notin R
  BY FS_RemoveElement
<1>2. Cardinality(S) \in Nat
  BY FS_CardinalityType
<1> HIDE DEF R
<1>3. Cardinality(R \cup {y}) = Cardinality(R) + 1
  BY <1>1, FS_AddElement
<1> QED BY <1>1, <1>2, <1>3 DEF R

LEMMA LinedMembers ==
    ASSUME NEW S, NEW s, Lined(s, S), NEW T, S \subseteq T
    PROVE  s \in Seq(T)
BY SeqMonotonic DEF Lined

\* Release hands the permit of c to the head of the queue or to the counter.
LEMMA ReleaseKeeps ==
    ASSUME SemaphoreInv, NEW c \in Callers, caller[c] \in {"granted", "calling"},
           NEW o \in Outcomes, Release(c, o)
    PROVE  SemaphoreInv'
<1> USE DEF SemaphoreInv
<1>0. Cardinality(Holders) \in Nat /\ IsFiniteSet(Holders) /\ c \in Holders
  BY FiniteParts DEF Holders
<1>1. CASE waiting = <<>>
  <2>1. /\ caller' = [caller EXCEPT ![c] = o]
        /\ free' = free + 1 /\ waiting' = waiting
    BY <1>1 DEF Release
  <2>2. Waiting' = Waiting /\ Holders' = Holders \ {c}
    BY <2>1 DEF Waiting, Holders, Outcomes
  <2>3. Cardinality(Holders') = Cardinality(Holders) - 1
    BY <1>0, <2>2, FS_RemoveElement
  <2>4. caller' \in [Callers -> Places]
    BY <2>1 DEF Places
  <2> QED BY <1>0, <1>1, <2>1, <2>2, <2>3, <2>4 DEF PermitsConserved, NoLostWakeUp
<1>2. CASE waiting # <<>>
  <2> DEFINE h == Head(waiting)
  <2>1. /\ caller' = [caller EXCEPT ![c] = o, ![h] = "granted"]
        /\ waiting' = Tail(waiting) /\ free' = free
    BY <1>2 DEF Release
  <2>2. h \in Waiting /\ Lined(waiting', Waiting \ {h})
    BY <1>2, <2>1, ServeLine
  <2>3. h \in Callers /\ caller[h] = "waiting" /\ h # c /\ h \notin Holders
    BY <2>2 DEF Waiting, Holders
  <2> HIDE DEF h
  <2>4. Waiting' = Waiting \ {h} /\ Holders' = (Holders \ {c}) \cup {h}
    BY <2>1, <2>3 DEF Waiting, Holders, Outcomes
  <2>6. Cardinality(Holders') = Cardinality(Holders)
    BY <1>0, <2>3, <2>4, Swap
  <2>7. caller' \in [Callers -> Places]
    BY <2>1 DEF Places
  <2>8. Granted' # {}
    BY <2>1, <2>3 DEF Granted
  <2> QED BY <2>1, <2>2, <2>4, <2>6, <2>7, <2>8 DEF PermitsConserved, NoLostWakeUp
<1> QED BY <1>1, <1>2

-----------------------------------------------------------------------------
(***************************************************************************)
(* The threads.                                                            *)
(***************************************************************************)
LEMMA SubmitKeeps ==
    ASSUME PoolInv, NEW c \in Callers, job[c] = "none", Submit(c), UNCHANGED orphans
    PROVE  PoolInv' /\ \A d \in Callers \ {c} : job'[d] = job[d]
<1> USE DEF PoolInv
<1>0. Cardinality(Running) \in Nat /\ IsFiniteSet(Running) /\ c \notin Running /\ c \notin Queued
  BY FiniteParts DEF Running, Queued
<1>1. CASE Cardinality(Running) + orphans < Workers
  <2>1. job' = [job EXCEPT ![c] = "running"] /\ queue' = queue
    BY <1>1 DEF Submit
  <2>2. Running' = Running \cup {c} /\ Queued' = Queued
    BY <2>1, <1>0 DEF Running, Queued
  <2>3. Cardinality(Running') = Cardinality(Running) + 1
    BY <1>0, <2>2, FS_AddElement
  <2>4. job' \in [Callers -> Stages]
    BY <2>1 DEF Stages
  <2> QED BY <1>0, <1>1, <2>1, <2>2, <2>3, <2>4, SynthesisAssumption
<1>2. CASE ~(Cardinality(Running) + orphans < Workers)
  <2>1. job' = [job EXCEPT ![c] = "queued"] /\ queue' = Append(queue, c)
    BY <1>2 DEF Submit
  <2>2. Running' = Running /\ Queued' = Queued \cup {c}
    BY <2>1, <1>0 DEF Running, Queued
  <2>3. Lined(queue', Queued')
    BY <1>0, <2>1, <2>2, JoinLine
  <2>4. job' \in [Callers -> Stages]
    BY <2>1 DEF Stages
  <2> QED BY <2>1, <2>2, <2>3, <2>4
<1> QED BY <1>1, <1>2

LEMMA WorkerMovesOnKeeps ==
    ASSUME PoolInv, NEW c \in Callers, job[c] = "running",
           NEW r \in {"text", "error"}, WorkerMovesOn(c, r), UNCHANGED orphans
    PROVE  PoolInv' /\ \A d \in Callers : job'[d] # "none" => job[d] # "none"
<1> USE DEF PoolInv
<1>0. Cardinality(Running) \in Nat /\ IsFiniteSet(Running) /\ c \in Running
  BY FiniteParts DEF Running
<1>1. Cardinality(Running \ {c}) = Cardinality(Running) - 1 /\ IsFiniteSet(Running \ {c})
  BY <1>0, FS_RemoveElement
<1>2. CASE queue = <<>>
  <2>1. job' = [job EXCEPT ![c] = r] /\ queue' = queue
    BY <1>2 DEF WorkerMovesOn
  <2>2. Running' = Running \ {c} /\ Queued' = Queued
    BY <2>1 DEF Running, Queued
  <2>3. job' \in [Callers -> Stages]
    BY <2>1 DEF Stages
  <2> QED BY <1>0, <1>1, <2>1, <2>2, <2>3, SynthesisAssumption
<1>3. CASE queue # <<>>
  <2> DEFINE h == Head(queue)
  <2>1. job' = [job EXCEPT ![c] = r, ![h] = "running"] /\ queue' = Tail(queue)
    BY <1>3 DEF WorkerMovesOn
  <2>2. h \in Queued /\ Lined(queue', Queued \ {h})
    BY <1>3, <2>1, ServeLine
  <2>3. h \in Callers /\ job[h] = "queued" /\ h # c /\ h \notin Running
    BY <2>2 DEF Queued, Running
  <2> HIDE DEF h
  <2>4. Running' = (Running \ {c}) \cup {h} /\ Queued' = Queued \ {h}
    BY <2>1, <2>3 DEF Running, Queued
  <2>5. Cardinality(Running') = Cardinality(Running)
    BY <1>0, <2>3, <2>4, Swap
  <2>6. job' \in [Callers -> Stages]
    BY <2>1 DEF Stages
  <2> QED BY <2>1, <2>2, <2>3, <2>4, <2>5, <2>6
<1> QED BY <1>2, <1>3

LEMMA OrphanEndsKeeps ==
    ASSUME PoolInv, OrphanEnds
    PROVE  PoolInv' /\ \A d \in Callers : job'[d] # "none" => job[d] # "none"
<1> USE DEF PoolInv
<1>0. Cardinality(Running) \in Nat /\ IsFiniteSet(Running)
  BY FiniteParts DEF Running
<1>1. orphans > 0 /\ orphans' = orphans - 1
  BY DEF OrphanEnds
<1>2. CASE queue = <<>>
  <2>1. job' = job /\ queue' = queue
    BY <1>2 DEF OrphanEnds
  <2>2. Running' = Running /\ Queued' = Queued
    BY <2>1 DEF Running, Queued
  <2> QED BY <1>0, <1>1, <2>1, <2>2, SynthesisAssumption
<1>3. CASE queue # <<>>
  <2> DEFINE h == Head(queue)
  <2>1. job' = [job EXCEPT ![h] = "running"] /\ queue' = Tail(queue)
    BY <1>3 DEF OrphanEnds
  <2>2. h \in Queued /\ Lined(queue', Queued \ {h})
    BY <1>3, <2>1, ServeLine
  <2>3. h \in Callers /\ job[h] = "queued" /\ h \notin Running
    BY <2>2 DEF Queued, Running
  <2> HIDE DEF h
  <2>4. Running' = Running \cup {h} /\ Queued' = Queued \ {h}
    BY <2>1, <2>3 DEF Running, Queued
  <2>5. Cardinality(Running') = Cardinality(Running) + 1
    BY <1>0, <2>3, <2>4, FS_AddElement
  <2>6. job' \in [Callers -> Stages]
    BY <2>1 DEF Stages
  <2> QED BY <1>0, <1>1, <2>1, <2>2, <2>3, <2>4, <2>5, <2>6, SynthesisAssumption
<1> QED BY <1>2, <1>3

\* A call that goes takes its job with it, from the queue, from the results, or
\* by leaving its thread to finish alone.
LEMMA AbandonKeeps ==
    ASSUME PoolInv, NEW c \in Callers,
           job' = [job EXCEPT ![c] = "none"],
           orphans' = IF job[c] = "running" THEN orphans + 1 ELSE orphans,
           IF job[c] = "queued"
           THEN \E i \in 1..Len(queue) : queue[i] = c /\ queue' = RemoveAt(queue, i)
           ELSE UNCHANGED queue
    PROVE  PoolInv'
<1> USE DEF PoolInv
<1>0. Cardinality(Running) \in Nat /\ IsFiniteSet(Running)
  BY FiniteParts DEF Running
<1>1. job' \in [Callers -> Stages]
  BY DEF Stages
<1>2. Running' = Running \ {c} /\ Queued' = Queued \ {c}
  BY DEF Running, Queued
<1>3. Cardinality(Running') = IF c \in Running THEN Cardinality(Running) - 1 ELSE Cardinality(Running)
  BY <1>0, <1>2, FS_RemoveElement
<1>4. Cardinality(Running') + orphans' <= Workers /\ orphans' \in Nat
  BY <1>0, <1>3, SynthesisAssumption DEF Running
<1>5. Lined(queue', Queued')
  <2>1. CASE job[c] = "queued"
    <3>1. PICK i \in 1..Len(queue) : queue[i] = c /\ queue' = RemoveAt(queue, i)
      BY <2>1
    <3> QED BY <3>1, <1>2, LeaveLine
  <2>2. CASE job[c] # "queued"
    <3>1. queue' = queue /\ Queued' = Queued
      BY <2>2, <1>2 DEF Queued
    <3> QED BY <3>1
  <2> QED BY <2>1, <2>2
<1> QED BY <1>1, <1>4, <1>5

-----------------------------------------------------------------------------
(***************************************************************************)
(* The invariant is inductive.                                             *)
(***************************************************************************)
LEMMA InitIInv == Init => IInv
<1> SUFFICES ASSUME Init PROVE IInv
  OBVIOUS
<1> USE SynthesisAssumption DEF Init
<1>1. Holders = {} /\ Running = {} /\ Waiting = {} /\ Queued = {}
  BY DEF Holders, Running, Waiting, Queued
<1>2. Lined(<<>>, {})
  BY DEF Lined
<1>3. SemaphoreInv
  BY <1>1, <1>2, FS_EmptySet DEF SemaphoreInv, PermitsConserved, NoLostWakeUp, Places
<1>4. PoolInv
  BY <1>1, <1>2, FS_EmptySet DEF PoolInv, Stages
<1>5. JobsHeld /\ BreakerInv
  BY DEF JobsHeld, BreakerInv
<1> QED BY <1>3, <1>4, <1>5 DEF IInv

\* What an action does not name, it keeps.
LEMMA PoolStays ==
    ASSUME PoolInv, UNCHANGED <<job, queue, orphans>>
    PROVE  PoolInv'
BY DEF PoolInv, Queued, Running

LEMMA SemaphoreStays ==
    ASSUME SemaphoreInv, UNCHANGED <<caller, free, waiting>>
    PROVE  SemaphoreInv'
BY DEF SemaphoreInv, Waiting, PermitsConserved, Holders, NoLostWakeUp, Granted

LEMMA TakePermitKeeps ==
    ASSUME IInv, NEW c \in Callers, TakePermit(c)
    PROVE  IInv'
<1> USE DEF IInv
<1>1. caller' = [caller EXCEPT ![c] = "calling"] /\ caller[c] = "idle"
  BY DEF TakePermit
<1>2. job[c] = "none"
  BY <1>1 DEF JobsHeld
<1>3. PoolInv' /\ \A d \in Callers \ {c} : job'[d] = job[d]
  BY <1>2, SubmitKeeps DEF TakePermit
<1>4. JobsHeld'
  BY <1>1, <1>3 DEF JobsHeld, SemaphoreInv
<1>5. SemaphoreInv'
  <2>1. Cardinality(Holders) \in Nat /\ IsFiniteSet(Holders) /\ c \notin Holders
    BY <1>1, FiniteParts DEF Holders
  <2>2. Holders' = Holders \cup {c} /\ Waiting' = Waiting
    BY <1>1 DEF Holders, Waiting, SemaphoreInv
  <2>3. Cardinality(Holders') = Cardinality(Holders) + 1
    BY <2>1, <2>2, FS_AddElement
  <2>4. caller' \in [Callers -> Places]
    BY <1>1 DEF SemaphoreInv, Places
  <2>5. free > 0 /\ free' = free - 1 /\ waiting = <<>> /\ waiting' = waiting
    BY DEF TakePermit
  <2> QED BY <2>1, <2>2, <2>3, <2>4, <2>5 DEF SemaphoreInv, PermitsConserved, NoLostWakeUp
<1>6. BreakerInv'
  BY DEF TakePermit, BreakerInv
<1> QED BY <1>3, <1>4, <1>5, <1>6

LEMMA JoinQueueKeeps ==
    ASSUME IInv, NEW c \in Callers, JoinQueue(c)
    PROVE  IInv'
<1> USE DEF IInv
<1>1. /\ caller' = [caller EXCEPT ![c] = "waiting"] /\ caller[c] = "idle"
      /\ waiting' = Append(waiting, c) /\ free' = free /\ job' = job
  BY DEF JoinQueue
<1>2. PoolInv' /\ BreakerInv'
  BY PoolStays DEF JoinQueue, BreakerInv
<1>3. JobsHeld'
  BY <1>1 DEF JobsHeld, SemaphoreInv
<1>4. Waiting' = Waiting \cup {c} /\ c \notin Waiting /\ Holders' = Holders /\ Granted' = Granted
  BY <1>1 DEF Waiting, Holders, Granted, SemaphoreInv
<1>5. Lined(waiting', Waiting')
  BY <1>1, <1>4, JoinLine DEF SemaphoreInv
<1>6. NoLostWakeUp'
  BY <1>1, <1>4 DEF JoinQueue, NoLostWakeUp, SemaphoreInv
<1>7. caller' \in [Callers -> Places]
  BY <1>1 DEF SemaphoreInv, Places
<1> QED BY <1>1, <1>2, <1>3, <1>4, <1>5, <1>6, <1>7 DEF SemaphoreInv, PermitsConserved

LEMMA ResumeKeeps ==
    ASSUME IInv, NEW c \in Callers, Resume(c)
    PROVE  IInv'
<1> USE DEF IInv
<1>1. caller[c] = "granted"
  BY DEF Resume
<1>2. job[c] = "none"
  BY <1>1 DEF JobsHeld
<1>3. PoolInv' /\ \A d \in Callers \ {c} : job'[d] = job[d]
  BY <1>2, SubmitKeeps DEF Resume
<1>4. Cardinality(Holders) \in Nat /\ IsFiniteSet(Holders) /\ c \in Holders
  BY <1>1, FiniteParts DEF Holders
<1>5. CASE free > 0 /\ waiting # <<>>
  <2> DEFINE h == Head(waiting)
  <2>1. /\ caller' = [caller EXCEPT ![c] = "calling", ![h] = "granted"]
        /\ waiting' = Tail(waiting) /\ free' = free - 1
    BY <1>5 DEF Resume
  <2>2. h \in Waiting /\ Lined(waiting', Waiting \ {h})
    BY <1>5, <2>1, ServeLine DEF SemaphoreInv
  <2>3. h \in Callers /\ caller[h] = "waiting" /\ h # c /\ h \notin Holders
    BY <1>1, <2>2 DEF Waiting, Holders
  <2> HIDE DEF h
  <2>4. Waiting' = Waiting \ {h} /\ Holders' = Holders \cup {h} /\ Granted' # {}
    BY <1>1, <2>1, <2>3 DEF Waiting, Holders, Granted, SemaphoreInv
  <2>5. Cardinality(Holders') = Cardinality(Holders) + 1
    BY <1>4, <2>3, <2>4, FS_AddElement
  <2>6. caller' \in [Callers -> Places]
    BY <2>1 DEF SemaphoreInv, Places
  <2>7. SemaphoreInv'
    <3>1. free' \in Nat /\ PermitsConserved'
      BY <1>4, <1>5, <2>1, <2>5 DEF SemaphoreInv, PermitsConserved
    <3>2. Lined(waiting', Waiting')
      BY <2>2, <2>4
    <3> QED BY <2>4, <2>6, <3>1, <3>2 DEF SemaphoreInv, NoLostWakeUp
  <2>8. JobsHeld'
    BY <1>3, <2>1, <2>3 DEF JobsHeld, SemaphoreInv
  <2> QED BY <1>3, <2>7, <2>8 DEF Resume, BreakerInv
<1>6. CASE ~(free > 0 /\ waiting # <<>>)
  <2>1. /\ caller' = [caller EXCEPT ![c] = "calling"]
        /\ waiting' = waiting /\ free' = free
    BY <1>6 DEF Resume
  <2>2. Waiting' = Waiting /\ Holders' = Holders
    BY <1>1, <2>1 DEF Waiting, Holders, SemaphoreInv
  <2>3. caller' \in [Callers -> Places]
    BY <2>1 DEF SemaphoreInv, Places
  <2>4. SemaphoreInv'
    BY <1>6, <2>1, <2>2, <2>3 DEF SemaphoreInv, PermitsConserved, NoLostWakeUp
  <2>5. JobsHeld'
    BY <1>3, <2>1 DEF JobsHeld, SemaphoreInv
  <2> QED BY <1>3, <2>4, <2>5 DEF Resume, BreakerInv
<1> QED BY <1>5, <1>6

LEMMA JobEndsKeeps ==
    ASSUME IInv, NEW c \in Callers, JobEnds(c)
    PROVE  IInv'
<1> USE DEF IInv
<1>1. PICK r \in {"text", "error"} : WorkerMovesOn(c, r)
  BY DEF JobEnds
<1>2. PoolInv' /\ \A d \in Callers : job'[d] # "none" => job[d] # "none"
  BY <1>1, WorkerMovesOnKeeps DEF JobEnds
<1>3. SemaphoreInv' /\ BreakerInv'
  BY SemaphoreStays DEF JobEnds, BreakerInv
<1> QED BY <1>2, <1>3 DEF JobsHeld, JobEnds

LEMMA OrphanKeeps ==
    ASSUME IInv, OrphanEnds
    PROVE  IInv'
<1> USE DEF IInv
<1>1. PoolInv' /\ \A d \in Callers : job'[d] # "none" => job[d] # "none"
  BY OrphanEndsKeeps
<1>2. SemaphoreInv' /\ BreakerInv'
  BY SemaphoreStays DEF OrphanEnds, BreakerInv
<1> QED BY <1>1, <1>2 DEF JobsHeld, OrphanEnds

\* Who leaves after a release keeps no job, and the others keep theirs.
LEMMA ReleasedJobsHeld ==
    ASSUME IInv, NEW c \in Callers, NEW o \in Outcomes, Release(c, o),
           job' = [job EXCEPT ![c] = "none"]
    PROVE  JobsHeld'
<1> SUFFICES ASSUME NEW d \in Callers, job'[d] # "none" PROVE caller'[d] = "calling"
  BY DEF JobsHeld
<1>1. d # c /\ job[d] # "none" /\ caller[d] = "calling"
  BY DEF IInv, PoolInv, JobsHeld
<1>2. waiting # <<>> => Head(waiting) # d
  <2>1. waiting # <<>> => Head(waiting) \in Waiting
    BY ServeLine DEF IInv, SemaphoreInv
  <2> QED BY <1>1, <2>1 DEF Waiting
<1> QED BY <1>1, <1>2 DEF Release, IInv, SemaphoreInv

LEMMA CountFailureKeeps ==
    ASSUME BreakerInv, CountFailure
    PROVE  BreakerInv'
BY SynthesisAssumption DEF BreakerInv, CountFailure

LEMMA CallEndsKeeps ==
    ASSUME IInv, NEW c \in Callers, Answered(c) \/ Failed(c)
    PROVE  IInv'
<1> USE DEF IInv
<1>1. PICK o \in {"answered", "excerpts"} : Release(c, o)
  BY DEF Answered, Failed
<1>2. o \in Outcomes
  BY DEF Outcomes
<1>3. /\ caller[c] = "calling" /\ job[c] \in {"text", "error"}
      /\ job' = [job EXCEPT ![c] = "none"] /\ UNCHANGED <<queue, orphans>>
  BY DEF Answered, Failed
<1>4. SemaphoreInv'
  BY <1>1, <1>2, <1>3, ReleaseKeeps
<1>5. PoolInv'
  BY <1>3, AbandonKeeps
<1>6. JobsHeld'
  BY <1>1, <1>2, <1>3, ReleasedJobsHeld
<1>7. BreakerInv'
  BY CountFailureKeeps, SynthesisAssumption DEF Answered, Failed, BreakerInv
<1> QED BY <1>4, <1>5, <1>6, <1>7

LEMMA GiveUpWaitingKeeps ==
    ASSUME IInv, NEW c \in Callers, GiveUpWaiting(c)
    PROVE  IInv'
<1> USE DEF IInv
<1>1. PICK i \in 1..Len(waiting) : waiting[i] = c /\ waiting' = RemoveAt(waiting, i)
  BY DEF GiveUpWaiting
<1>2. caller' = [caller EXCEPT ![c] = "timedOut"] /\ caller[c] = "waiting" /\ free' = free
  BY DEF GiveUpWaiting
<1>3. /\ Waiting' = Waiting \ {c} /\ Holders' = Holders /\ Granted' = Granted
  BY <1>2 DEF Waiting, Holders, Granted, SemaphoreInv
<1>4. Lined(waiting', Waiting')
  BY <1>1, <1>3, LeaveLine DEF SemaphoreInv
<1>5. waiting # <<>>
  BY <1>1
<1>6. caller' \in [Callers -> Places]
  BY <1>2 DEF SemaphoreInv, Places, Outcomes
<1>7. SemaphoreInv'
  BY <1>2, <1>3, <1>4, <1>5, <1>6 DEF SemaphoreInv, PermitsConserved, NoLostWakeUp
<1>8. PoolInv' /\ BreakerInv'
  BY PoolStays DEF GiveUpWaiting, BreakerInv
<1>9. JobsHeld'
  BY <1>2 DEF JobsHeld, GiveUpWaiting, SemaphoreInv
<1> QED BY <1>7, <1>8, <1>9

LEMMA GiveUpGrantedKeeps ==
    ASSUME IInv, NEW c \in Callers, GiveUpGranted(c)
    PROVE  IInv'
<1> USE DEF IInv
<1>1. caller[c] = "granted" /\ Release(c, "timedOut") /\ job' = job /\ "timedOut" \in Outcomes
  BY DEF GiveUpGranted, Outcomes
<1>2. SemaphoreInv'
  BY <1>1, ReleaseKeeps
<1>3. PoolInv' /\ BreakerInv'
  BY PoolStays DEF GiveUpGranted, BreakerInv
<1>4. job' = [job EXCEPT ![c] = "none"]
  BY <1>1 DEF JobsHeld, PoolInv
<1> QED BY <1>1, <1>2, <1>3, <1>4, ReleasedJobsHeld

LEMMA GiveUpCallingKeeps ==
    ASSUME IInv, NEW c \in Callers, GiveUpCalling(c)
    PROVE  IInv'
<1> USE DEF IInv
<1>1. caller[c] = "calling" /\ Release(c, "timedOut") /\ "timedOut" \in Outcomes
  BY DEF GiveUpCalling, Outcomes
<1>2. job' = [job EXCEPT ![c] = "none"]
  BY DEF GiveUpCalling
<1>3. SemaphoreInv'
  BY <1>1, ReleaseKeeps
<1>4. PoolInv'
  BY AbandonKeeps DEF GiveUpCalling
<1>5. BreakerInv'
  BY DEF GiveUpCalling, BreakerInv
<1> QED BY <1>1, <1>2, <1>3, <1>4, <1>5, ReleasedJobsHeld

\* A call that comes or goes without touching the semaphore.
LEMMA AsideKeeps ==
    ASSUME IInv, NEW c \in Callers, Refused(c) \/ NextRequest(c)
    PROVE  IInv'
<1> USE DEF IInv
<1>1. PICK o \in {"excerpts", "idle"} : caller' = [caller EXCEPT ![c] = o]
  BY DEF Refused, NextRequest
<1>2. caller[c] \in {"idle"} \cup Outcomes
  BY DEF Refused, NextRequest
<1>3. UNCHANGED <<free, waiting, job, queue, orphans, failures, open>>
  BY DEF Refused, NextRequest
<1>4. Waiting' = Waiting /\ Holders' = Holders /\ Granted' = Granted
  BY <1>1, <1>2 DEF Waiting, Holders, Granted, SemaphoreInv, Outcomes
<1>5. caller' \in [Callers -> Places]
  BY <1>1 DEF SemaphoreInv, Places, Outcomes
<1>6. SemaphoreInv'
  BY <1>3, <1>4, <1>5 DEF SemaphoreInv, PermitsConserved, NoLostWakeUp
<1>7. PoolInv' /\ BreakerInv'
  BY <1>3, PoolStays DEF BreakerInv
<1>8. JobsHeld'
  BY <1>1, <1>2, <1>3 DEF JobsHeld, Outcomes, SemaphoreInv
<1> QED BY <1>6, <1>7, <1>8

LEMMA TickKeeps ==
    ASSUME IInv, Tick \/ UNCHANGED vars
    PROVE  IInv'
<1> USE DEF IInv
<1>1. UNCHANGED <<caller, free, waiting, job, queue, orphans>>
  BY DEF Tick, vars
<1>2. SemaphoreInv' /\ PoolInv' /\ JobsHeld'
  BY <1>1, SemaphoreStays, PoolStays DEF JobsHeld
<1>3. BreakerInv'
  BY SynthesisAssumption DEF BreakerInv, Tick, vars
<1> QED BY <1>2, <1>3

LEMMA NextIInv == IInv /\ [Next]_vars => IInv'
<1> SUFFICES ASSUME IInv, [Next]_vars PROVE IInv'
  OBVIOUS
<1>1. CASE \E c \in Callers : TakePermit(c)
  BY <1>1, TakePermitKeeps
<1>2. CASE \E c \in Callers : JoinQueue(c)
  BY <1>2, JoinQueueKeeps
<1>3. CASE \E c \in Callers : Refused(c) \/ NextRequest(c)
  BY <1>3, AsideKeeps
<1>4. CASE \E c \in Callers : Resume(c)
  BY <1>4, ResumeKeeps
<1>5. CASE \E c \in Callers : JobEnds(c)
  BY <1>5, JobEndsKeeps
<1>6. CASE \E c \in Callers : Answered(c) \/ Failed(c)
  BY <1>6, CallEndsKeeps
<1>7. CASE \E c \in Callers : GiveUpWaiting(c)
  BY <1>7, GiveUpWaitingKeeps
<1>8. CASE \E c \in Callers : GiveUpGranted(c)
  BY <1>8, GiveUpGrantedKeeps
<1>9. CASE \E c \in Callers : GiveUpCalling(c)
  BY <1>9, GiveUpCallingKeeps
<1>10. CASE OrphanEnds
  BY <1>10, OrphanKeeps
<1>11. CASE Tick \/ UNCHANGED vars
  BY <1>11, TickKeeps
<1> QED BY <1>1, <1>2, <1>3, <1>4, <1>5, <1>6, <1>7, <1>8, <1>9, <1>10, <1>11 DEF Next

LEMMA Inductive == Spec => []IInv
BY InitIInv, NextIInv, PTL DEF Spec

-----------------------------------------------------------------------------
\* Every variable keeps its type: in particular the semaphore never counts more
\* permits than it was made with, and the threads never exceed the pool.
THEOREM TypeCorrect == Spec => []TypeOK
<1>1. IInv => TypeOK
  <2> SUFFICES ASSUME IInv PROVE TypeOK
    OBVIOUS
  <2> USE SynthesisAssumption DEF IInv, SemaphoreInv, PoolInv, BreakerInv
  <2>1. waiting \in Seq(Callers) /\ queue \in Seq(Callers)
    BY LinedMembers DEF Waiting, Queued
  <2>2. Cardinality(Holders) \in Nat /\ Cardinality(Running) \in Nat
    BY FiniteParts DEF Holders, Running
  <2>3. free \in 0..Permits
    BY <2>2 DEF PermitsConserved
  <2>4. orphans \in 0..Workers
    BY <2>2
  <2> QED BY <2>1, <2>3, <2>4 DEF TypeOK, Places, Stages
<1> QED BY <1>1, Inductive, PTL

\* Permits are conserved whatever calls succeed, fail or are cancelled, and
\* wherever the cancellation finds them (rag.py:307, main.py's timeout).
THEOREM PermitsKept == Spec => []PermitsConserved
<1>1. IInv => PermitsConserved
  BY DEF IInv, SemaphoreInv
<1> QED BY <1>1, Inductive, PTL

\* No free permit is forgotten while a call queues for one.
THEOREM WakeUps == Spec => []NoLostWakeUp
<1>1. IInv => NoLostWakeUp
  BY DEF IInv, SemaphoreInv
<1> QED BY <1>1, Inductive, PTL

\* The job queue of the thread pool holds exactly the calls whose prompt no
\* thread has taken, each once, and only calls that hold a permit have a job.
THEOREM JobsOfHolders == Spec => [](JobsHeld /\ Lined(queue, Queued))
<1>1. IInv => JobsHeld /\ Lined(queue, Queued)
  BY DEF IInv, PoolInv
<1> QED BY <1>1, Inductive, PTL
=============================================================================
