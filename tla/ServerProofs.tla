---------------------------- MODULE ServerProofs ---------------------------
(***************************************************************************)
(* Proofs about two things the server's instances keep besides their       *)
(* tools: the calls they let through (RateLimiter) and the alert that      *)
(* their health checks gate (HealthAlert).                                 *)
(*                                                                         *)
(* In a deque, positions only ever fall, and a check was allowed at a      *)
(* position within the limit; its ages fall from left to right, so         *)
(* pruning drops exactly what is out of the window.  Redis: what it        *)
(* counted in the last window is no more than its counter, because the     *)
(* counter only goes a whole window after its last check.                  *)
(*                                                                         *)
(* The alert: a check that is about to write what the row already says     *)
(* read the row before it said so; there are no more of them, and of the   *)
(* alerts ordered since, than checkers.                                    *)
(***************************************************************************)
EXTENDS RateLimiter, HealthAlert, FiniteSetTheorems, SequenceTheorems, TLAPS

-----------------------------------------------------------------------------
(* The rate limiter *)

Sorted(s) == \A m, n \in DOMAIN s : m < n => s[m].age >= s[n].age

Ranked(s) == \A n \in DOMAIN s : s[n].how = "allowed" => n <= Limit

Young(s) == {n \in DOMAIN s : s[n].age < Window}

Allowed(s) == {n \in DOMAIN s : s[n].age < Window /\ s[n].how = "allowed"}

\* The checks an instance has in flight are bounded together.
InFlightOK ==
    /\ available \in [Instances -> {"unknown", "yes", "no"}]
    /\ client \in [Instances -> BOOLEAN]
    /\ pinging \in [Instances -> 0..MaxInFlight]
    /\ sending \in [Instances -> 0..MaxInFlight]
    /\ \A i \in Instances : pinging[i] + sending[i] <= MaxInFlight

MemoryInv == \A i \in Instances : Sorted(deque[i]) /\ Ranked(deque[i])

RedisInv == /\ \A n \in DOMAIN recent : recent[n].age + expires >= Window
            /\ Cardinality(Young(recent)) <= hits
            /\ Cardinality(Allowed(recent)) <= Limit

IInv == TypeOK /\ InFlightOK /\ MemoryInv /\ RedisInv /\ MemoryCountsTheWindow

-----------------------------------------------------------------------------
(* Sequences of checks *)

LEMMA UpTo ==
    ASSUME NEW n \in Nat
    PROVE  IsFiniteSet(1..n) /\ Cardinality(1..n) = n
<1>1. 1 \in Int /\ n \in Int
    OBVIOUS
<1>2. IsFiniteSet(1..n) /\ Cardinality(1..n) = IF 1 > n THEN 0 ELSE n - 1 + 1
    BY <1>1, FS_Interval
<1> QED
    BY <1>2

LEMMA PartFinite ==
    ASSUME NEW s \in Seq(Check), NEW T \in SUBSET (DOMAIN s)
    PROVE  /\ IsFiniteSet(T) /\ Cardinality(T) \in Nat
           /\ Cardinality(T) <= Len(s)
<1>1. DOMAIN s = 1..Len(s) /\ Len(s) \in Nat
    BY LenProperties
<1>2. IsFiniteSet(1..Len(s)) /\ Cardinality(1..Len(s)) = Len(s)
    BY <1>1, UpTo
<1>3. T \in SUBSET (1..Len(s))
    BY <1>1
<1>4. IsFiniteSet(T) /\ Cardinality(T) <= Len(s)
    BY <1>2, <1>3, FS_Subset
<1> QED
    BY <1>4, FS_CardinalityType

\* Appending.
LEMMA Appended ==
    ASSUME NEW s \in Seq(Check), NEW c \in Check
    PROVE  /\ Append(s, c) \in Seq(Check) /\ Len(Append(s, c)) = Len(s) + 1
           /\ DOMAIN Append(s, c) = 1..(Len(s) + 1)
           /\ \A n \in 1..Len(s) : Append(s, c)[n] = s[n]
           /\ Append(s, c)[Len(s) + 1] = c
<1>1. DOMAIN s = 1..Len(s) /\ Len(s) \in Nat
    BY LenProperties
<1> QED
    BY <1>1, LenProperties

\* The rest of a sequence, and what of it is of some kind.
LEMMA Suffix ==
    ASSUME NEW s \in Seq(Check), NEW k \in 0..Len(s)
    PROVE  LET t == SubSeq(s, k + 1, Len(s))
           IN  /\ t \in Seq(Check) /\ Len(t) = Len(s) - k
               /\ \A n \in 1..(Len(s) - k) : t[n] = s[n + k]
               /\ \A X : Cardinality({n \in DOMAIN t : t[n] \in X})
                            <= Cardinality({n \in DOMAIN s : s[n] \in X})
<1> DEFINE t == SubSeq(s, k + 1, Len(s))
<1>1. DOMAIN s = 1..Len(s) /\ Len(s) \in Nat /\ s \in [1..Len(s) -> Check]
    BY LenProperties
<1>2. \A i \in (k + 1)..Len(s) : s[i] \in Check
    BY <1>1
<1>3. /\ t \in Seq(Check) /\ Len(t) = Len(s) - k
      /\ \A n \in 1..(Len(s) - k) : t[n] = s[n + k]
    <2>1. k + 1 \in Int /\ Len(s) \in Int
        BY <1>1
    <2>2. /\ t \in Seq(Check)
          /\ Len(t) = IF k + 1 <= Len(s) THEN Len(s) - (k + 1) + 1 ELSE 0
          /\ \A i \in 1..(Len(s) - (k + 1) + 1) : t[i] = s[(k + 1) + i - 1]
        BY <1>2, <2>1, SubSeqProperties
    <2>3. \A n \in 1..(Len(s) - k) : /\ n \in 1..(Len(s) - (k + 1) + 1)
                                     /\ (k + 1) + n - 1 = n + k
        BY <1>1
    <2> HIDE DEF t
    <2>4. Len(t) = Len(s) - k
        <3>1. \A n \in Nat : \A i \in 0..n :
                  (IF i + 1 <= n THEN n - (i + 1) + 1 ELSE 0) = n - i
            OBVIOUS
        <3> QED
            BY <1>1, <2>2, <3>1
    <2>5. \A n \in 1..(Len(s) - k) : t[n] = s[n + k]
        BY <2>2, <2>3
    <2> QED
        BY <2>2, <2>4, <2>5
<1>4. DOMAIN t = 1..(Len(s) - k)
    BY <1>3, LenProperties
<1>5. ASSUME NEW X
      PROVE  Cardinality({n \in DOMAIN t : t[n] \in X})
                <= Cardinality({n \in DOMAIN s : s[n] \in X})
    <2> DEFINE T == {n \in DOMAIN t : t[n] \in X}
               S == {n \in DOMAIN s : s[n] \in X}
               f == [n \in T |-> n + k]
    <2>1. f \in [T -> S]
        <3>1. ASSUME NEW n \in T PROVE n + k \in S
            <4>1. n \in 1..(Len(s) - k) /\ t[n] \in X
                BY <1>4
            <4>2. n + k \in DOMAIN s
                BY <1>1, <4>1
            <4>3. s[n + k] \in X
                BY <1>3, <4>1
            <4> QED
                BY <4>2, <4>3
        <3> QED
            BY <3>1
    <2>2. \A a, b \in T : f[a] = f[b] => a = b
        BY <1>4
    <2>3. f \in Injection(T, S)
        BY <2>1, <2>2 DEF Injection, IsInjective
    <2>4. IsFiniteSet(S)
        BY PartFinite
    <2> HIDE DEF f, T, S
    <2>5. Cardinality(T) <= Cardinality(S)
        BY <2>3, <2>4, FS_Injection
    <2> QED
        BY <2>5 DEF T, S
<1> QED
    BY <1>3, <1>5

\* A finite set without a part of it.
LEMMA Without ==
    ASSUME NEW S, NEW T \in SUBSET S, IsFiniteSet(S)
    PROVE  Cardinality(S \ T) = Cardinality(S) - Cardinality(T)
<1>1. S \cap T = T
    OBVIOUS
<1>2. Cardinality(S \ T) = Cardinality(S) - Cardinality(S \cap T)
    BY FS_Difference, Zenon
<1> QED
    BY <1>1, <1>2, Zenon

\* _check_in_memory's pruning: a suffix, of a sorted deque what is in the window.
LEMMA PrunedFacts ==
    ASSUME NEW s \in Seq(Check)
    PROVE  \E k \in 0..Len(s) :
              /\ Pruned(s) = SubSeq(s, k + 1, Len(s))
              /\ Sorted(s) => Cardinality(InWindow(s)) = Len(s) - k
<1> DEFINE old == {n \in DOMAIN s : \A m \in 1..n : s[m].age > Window}
           k == Cardinality(old)
<1>1. DOMAIN s = 1..Len(s) /\ Len(s) \in Nat
    BY LenProperties
<1>2. k \in 0..Len(s) /\ IsFiniteSet(old)
    BY <1>1, PartFinite
<1>3. Pruned(s) = SubSeq(s, k + 1, Len(s))
    BY DEF Pruned
<1>4. ASSUME Sorted(s) PROVE Cardinality(InWindow(s)) = Len(s) - k
    <2>1. \A n \in DOMAIN s : s[n].age \in Nat
        <3>1. \A n \in DOMAIN s : s[n] \in Check
            BY <1>1, LenProperties
        <3> QED
            BY <3>1, RateLimiterAssumption DEF Check, RateLimiterAssumption
    <2>2. InWindow(s) = (1..Len(s)) \ old
        <3>1. ASSUME NEW n \in DOMAIN s, s[n].age > Window PROVE n \in old
            <4>1. \A m \in 1..n : m \in DOMAIN s /\ s[m].age >= s[n].age
                BY <1>1, <1>4, <2>1 DEF Sorted
            <4> QED
                BY <2>1, <3>1, <4>1, RateLimiterAssumption DEF RateLimiterAssumption
        <3>2. \A n \in old : ~(s[n].age <= Window)
            BY <1>1, <2>1, RateLimiterAssumption DEF RateLimiterAssumption
        <3> HIDE DEF old
        <3> QED
            BY <1>1, <2>1, <3>1, <3>2, RateLimiterAssumption
            DEF InWindow, RateLimiterAssumption
    <2>3. /\ IsFiniteSet(1..Len(s)) /\ Cardinality(1..Len(s)) = Len(s)
        BY <1>1, UpTo
    <2>4. old \in SUBSET (1..Len(s))
        BY <1>1
    <2> HIDE DEF old
    <2>5. Cardinality((1..Len(s)) \ old) = Cardinality(1..Len(s)) - Cardinality(old)
        <3> DEFINE all == 1..Len(s)
        <3>1. IsFiniteSet(all) /\ old \in SUBSET all
            BY <2>3, <2>4
        <3> HIDE DEF all
        <3>2. Cardinality(all \ old) = Cardinality(all) - Cardinality(old)
            BY <3>1, Without, Zenon
        <3> QED
            BY <3>2 DEF all
    <2> QED
        BY <2>2, <2>3, <2>5
<1> QED
    BY <1>2, <1>3, <1>4

\* Of a pruned sequence: type, length, order and positions.
LEMMA PrunedKeeps ==
    ASSUME NEW s \in Seq(Check)
    PROVE  /\ Pruned(s) \in Seq(Check) /\ Len(Pruned(s)) <= Len(s)
           /\ Sorted(s) => Sorted(Pruned(s))
                           /\ Cardinality(InWindow(s)) = Len(Pruned(s))
           /\ Ranked(s) => Ranked(Pruned(s))
           /\ \A n \in DOMAIN Pruned(s) : \E m \in DOMAIN s : Pruned(s)[n] = s[m]
           /\ \A X : Cardinality({n \in DOMAIN Pruned(s) : Pruned(s)[n] \in X})
                        <= Cardinality({n \in DOMAIN s : s[n] \in X})
<1>1. PICK k \in 0..Len(s) :
              /\ Pruned(s) = SubSeq(s, k + 1, Len(s))
              /\ Sorted(s) => Cardinality(InWindow(s)) = Len(s) - k
    BY PrunedFacts
<1> DEFINE t == Pruned(s)
<1>2. /\ t \in Seq(Check) /\ Len(t) = Len(s) - k
      /\ \A n \in 1..(Len(s) - k) : t[n] = s[n + k]
      /\ \A X : Cardinality({n \in DOMAIN t : t[n] \in X})
                   <= Cardinality({n \in DOMAIN s : s[n] \in X})
    BY <1>1, Suffix
<1>3. DOMAIN s = 1..Len(s) /\ Len(s) \in Nat /\ DOMAIN t = 1..(Len(s) - k)
    BY <1>2, LenProperties
<1> HIDE DEF t
<1>4. \A n \in DOMAIN t : n + k \in DOMAIN s /\ t[n] = s[n + k] /\ n <= n + k
    BY <1>2, <1>3
<1>5. Sorted(s) => Sorted(t)
    <2>1. \A m, n \in DOMAIN t : m < n => m + k < n + k
        BY <1>3
    <2> QED
        BY <1>4, <2>1 DEF Sorted
<1>6. Ranked(s) => Ranked(t)
    <2> SUFFICES ASSUME Ranked(s), NEW n \in DOMAIN t, t[n].how = "allowed"
                 PROVE  n <= Limit
        BY DEF Ranked
    <2>1. n + k <= Limit
        BY <1>4 DEF Ranked
    <2> QED
        BY <1>3, <2>1, RateLimiterAssumption DEF RateLimiterAssumption
<1>7. Len(t) <= Len(s)
    BY <1>2, <1>3
<1> QED
    BY <1>1, <1>2, <1>4, <1>5, <1>6, <1>7 DEF t

\* Time passes.
LEMMA OlderFacts ==
    ASSUME NEW s \in Seq(Check)
    PROVE  /\ Older(s) \in Seq(Check) /\ DOMAIN Older(s) = DOMAIN s
           /\ \A n \in DOMAIN s :
                 /\ Older(s)[n].how = s[n].how
                 /\ Older(s)[n].age = IF s[n].age <= Window THEN s[n].age + 1
                                      ELSE s[n].age
           /\ Sorted(s) => Sorted(Older(s))
           /\ Ranked(s) => Ranked(Older(s))
<1> DEFINE t == Older(s)
<1>1. DOMAIN s = 1..Len(s) /\ Len(s) \in Nat /\ \A n \in DOMAIN s : s[n] \in Check
    BY LenProperties
<1>2. DOMAIN t = DOMAIN s
    BY DEF Older
<1>3. \A n \in DOMAIN s :
         /\ t[n] \in Check /\ t[n].how = s[n].how
         /\ t[n].age = IF s[n].age <= Window THEN s[n].age + 1 ELSE s[n].age
    BY <1>1, RateLimiterAssumption DEF Older, Check, RateLimiterAssumption
<1>4. t \in Seq(Check)
    <2>1. t \in [1..Len(s) -> Check]
        BY <1>1, <1>3 DEF Older
    <2> QED
        BY <1>1, <2>1, SeqDef
<1> HIDE DEF t
<1>5. Sorted(s) => Sorted(t)
    <2> SUFFICES ASSUME Sorted(s), NEW m \in DOMAIN s, NEW n \in DOMAIN s, m < n
                 PROVE  t[m].age >= t[n].age
        BY <1>2 DEF Sorted
    <2>1. s[m].age >= s[n].age /\ s[m].age \in Nat /\ s[n].age \in Nat
          /\ s[m].age <= Window + 1
        BY <1>1, RateLimiterAssumption DEF Sorted, Check, RateLimiterAssumption
    <2> QED
        BY <1>3, <2>1, RateLimiterAssumption DEF RateLimiterAssumption
<1>6. Ranked(s) => Ranked(t)
    BY <1>2, <1>3 DEF Ranked
<1> QED
    BY <1>2, <1>3, <1>4, <1>5, <1>6 DEF t

\* A check appended where its verdict says.
LEMMA AppendKeeps ==
    ASSUME NEW s \in Seq(Check), NEW c \in Check, c.age = 0
    PROVE  /\ Sorted(s) => Sorted(Append(s, c))
           /\ Ranked(s) /\ (c.how = "allowed" => Len(s) + 1 <= Limit)
                => Ranked(Append(s, c))
<1> DEFINE t == Append(s, c)
<1>1. /\ Len(s) \in Nat /\ DOMAIN s = 1..Len(s) /\ DOMAIN t = 1..(Len(s) + 1)
      /\ \A n \in 1..Len(s) : t[n] = s[n]
      /\ t[Len(s) + 1] = c /\ \A n \in 1..(Len(s) + 1) : t[n] \in Check
    BY Appended, LenProperties
<1> HIDE DEF t
<1>2. Sorted(s) => Sorted(t)
    <2> SUFFICES ASSUME Sorted(s), NEW m \in DOMAIN t, NEW n \in DOMAIN t, m < n
                 PROVE  t[m].age >= t[n].age
        BY DEF Sorted
    <2>1. t[m].age \in Nat
        BY <1>1, RateLimiterAssumption DEF Check, RateLimiterAssumption
    <2>2. CASE n = Len(s) + 1
        BY <1>1, <2>1, <2>2
    <2>3. CASE n # Len(s) + 1
        BY <1>1, <2>3 DEF Sorted
    <2> QED
        BY <2>2, <2>3
<1>3. Ranked(s) /\ (c.how = "allowed" => Len(s) + 1 <= Limit) => Ranked(t)
    BY <1>1 DEF Ranked
<1> QED
    BY <1>2, <1>3 DEF t

-----------------------------------------------------------------------------
(* The checks *)

LEMMA VerdictFacts ==
    \A count : /\ Verdict(count) \in {"allowed", "refused"}
               /\ Verdict(count) = "allowed" => count <= Limit
BY DEF Verdict

\* _check_in_memory keeps the deques in order, and counts the window.
LEMMA InMemory ==
    ASSUME IInv, NEW i \in Instances, CheckInMemory(i)
    PROVE  /\ deque' \in [Instances -> Seq(Check)]
           /\ MemoryInv' /\ MemoryCountsTheWindow'
           /\ verdict' \in [by : {"nobody", "memory", "redis"}, allowed : BOOLEAN,
                            count : Nat, calls : Nat]
<1> DEFINE kept == Pruned(deque[i])
           count == Len(kept) + 1
           c == [age |-> 0, how |-> Verdict(count)]
           after == Append(kept, c)
<1>1. deque \in [Instances -> Seq(Check)] /\ deque[i] \in Seq(Check)
      /\ Sorted(deque[i]) /\ Ranked(deque[i])
    BY DEF IInv, TypeOK, MemoryInv
<1>2. /\ deque' = [deque EXCEPT ![i] = after]
      /\ verdict' = [by |-> "memory", allowed |-> count <= Limit, count |-> count,
                     calls |-> Cardinality(InWindow(deque[i])) + 1]
    BY DEF CheckInMemory
<1>3. kept \in Seq(Check) /\ Len(kept) \in Nat /\ Sorted(kept) /\ Ranked(kept)
      /\ Cardinality(InWindow(deque[i])) = Len(kept)
    BY <1>1, PrunedKeeps, LenProperties
<1>4. c \in Check /\ c.age = 0 /\ (c.how = "allowed" => Len(kept) + 1 <= Limit)
    BY VerdictFacts, RateLimiterAssumption DEF Check, RateLimiterAssumption
<1> HIDE DEF kept, c
<1>5. after \in Seq(Check) /\ Sorted(after) /\ Ranked(after)
    BY <1>3, <1>4, Appended, AppendKeeps
<1> HIDE DEF after
<1>6. deque' \in [Instances -> Seq(Check)]
    BY <1>1, <1>2, <1>5
<1>7. \A d \in Instances : deque'[d] = IF d = i THEN after ELSE deque[d]
    BY <1>1, <1>2
<1>8. MemoryInv'
    BY <1>5, <1>7 DEF IInv, MemoryInv, Sorted, Ranked
<1>9. MemoryCountsTheWindow'
    BY <1>2, <1>3 DEF MemoryCountsTheWindow
<1>10. (count <= Limit) \in BOOLEAN /\ count \in Nat
       /\ Cardinality(InWindow(deque[i])) + 1 \in Nat
    BY <1>3
<1> HIDE DEF count
<1>11. verdict' \in [by : {"nobody", "memory", "redis"}, allowed : BOOLEAN,
                     count : Nat, calls : Nat]
    BY <1>2, <1>10
<1> QED
    BY <1>6, <1>8, <1>9, <1>11

\* What Redis counts, it allows within the limit.
LEMMA AtRedis ==
    ASSUME IInv, NEW how \in {"allowed", "refused", "unchecked"}, Count(how),
           how = "allowed" => hits + 1 <= Limit
    PROVE  /\ hits' \in 0..MaxCalls /\ expires' \in 0..Window
           /\ recent' \in Seq(Check) /\ RedisInv'
<1> DEFINE c == [age |-> 0, how |-> how]
           l == Len(recent) + 1
<1>1. /\ recent \in Seq(Check) /\ hits \in 0..MaxCalls /\ RedisInv
      /\ Window \in Nat \ {0} /\ Limit \in Nat /\ MaxCalls \in Nat
    BY RateLimiterAssumption DEF IInv, TypeOK, RateLimiterAssumption
<1>2. /\ hits < MaxCalls /\ hits' = hits + 1 /\ expires' = Window
      /\ recent' = Append(recent, c)
    BY DEF Count
<1>3. c \in Check /\ c.age = 0 /\ c.how = how
    BY <1>1 DEF Check
<1> HIDE DEF c
<1>4. /\ Len(recent) \in Nat /\ DOMAIN recent = 1..Len(recent)
      /\ recent' \in Seq(Check) /\ DOMAIN recent' = 1..l
      /\ \A n \in 1..Len(recent) : recent'[n] = recent[n]
      /\ recent'[l] = c
      /\ \A n \in 1..l : recent'[n] \in Check
    BY <1>1, <1>2, <1>3, Appended, LenProperties
<1>5. l \notin DOMAIN recent /\ DOMAIN recent' = DOMAIN recent \cup {l}
    BY <1>4
<1>6. Young(recent)' = Young(recent) \cup {l}
    BY <1>1, <1>3, <1>4, <1>5 DEF Young
<1>7. Allowed(recent)' = IF how = "allowed" THEN Allowed(recent) \cup {l}
                         ELSE Allowed(recent)
    BY <1>1, <1>3, <1>4, <1>5 DEF Allowed
<1>8. /\ IsFiniteSet(Young(recent)) /\ IsFiniteSet(Allowed(recent))
      /\ Cardinality(Young(recent)) \in Nat /\ Cardinality(Allowed(recent)) \in Nat
      /\ Cardinality(Allowed(recent)) <= Cardinality(Young(recent))
      /\ l \notin Young(recent) /\ l \notin Allowed(recent)
    <2>1. /\ Young(recent) \in SUBSET (DOMAIN recent)
          /\ Allowed(recent) \in SUBSET (DOMAIN recent)
          /\ Allowed(recent) \in SUBSET Young(recent)
        BY DEF Young, Allowed
    <2> QED
        BY <1>1, <1>5, <2>1, PartFinite, FS_Subset
<1>9. Cardinality(Young(recent)') = Cardinality(Young(recent)) + 1
    BY <1>6, <1>8, FS_AddElement
<1>10. Cardinality(Allowed(recent)') <= Limit
    <2>1. CASE how = "allowed"
        <3>1. Cardinality(Allowed(recent)') = Cardinality(Allowed(recent)) + 1
            BY <1>7, <1>8, <2>1, FS_AddElement
        <3>2. Cardinality(Young(recent)) <= hits /\ hits + 1 <= Limit
            BY <1>1, <2>1 DEF RedisInv
        <3> QED
            BY <1>1, <1>8, <3>1, <3>2
    <2>2. CASE how # "allowed"
        BY <1>1, <1>7, <2>2 DEF RedisInv
    <2> QED
        BY <2>1, <2>2
<1>11. \A n \in DOMAIN recent' : recent'[n].age + expires' >= Window
    BY <1>1, <1>2, <1>4 DEF Check
<1>12. Cardinality(Young(recent)') <= hits'
    BY <1>1, <1>2, <1>8, <1>9 DEF RedisInv
<1>13. hits' \in 0..MaxCalls /\ expires' \in 0..Window
    BY <1>1, <1>2
<1> QED
    BY <1>4, <1>10, <1>11, <1>12, <1>13 DEF RedisInv

LEMMA TickInv ==
    ASSUME IInv, Tick
    PROVE  IInv'
<1>1. /\ deque \in [Instances -> Seq(Check)] /\ recent \in Seq(Check)
      /\ hits \in 0..MaxCalls /\ expires \in 0..Window
      /\ Window \in Nat \ {0} /\ Limit \in Nat /\ MaxCalls \in Nat
    BY RateLimiterAssumption DEF IInv, TypeOK, RateLimiterAssumption
<1>2. /\ deque' = [i \in Instances |-> Older(deque[i])]
      /\ \A i \in Instances : deque'[i] = Older(deque[i]) /\ deque[i] \in Seq(Check)
    BY <1>1 DEF Tick
<1>3. deque' \in [Instances -> Seq(Check)]
    BY <1>2, OlderFacts
<1>4. MemoryInv'
    BY <1>2, OlderFacts DEF IInv, MemoryInv, Sorted, Ranked
<1> DEFINE aged == Older(recent)
<1>5. aged \in Seq(Check) /\ recent' = Pruned(aged) /\ recent' \in Seq(Check)
    BY <1>1, OlderFacts, PrunedKeeps DEF Tick
<1>6. /\ expires' \in 0..Window /\ hits' \in 0..MaxCalls
      /\ expires' = (IF expires > 0 THEN expires - 1 ELSE 0)
      /\ hits' = (IF expires <= 1 THEN 0 ELSE hits)
    BY <1>1 DEF Tick
<1>7. DOMAIN aged = DOMAIN recent
      /\ \A n \in DOMAIN recent :
            /\ aged[n].how = recent[n].how /\ recent[n].age \in 0..(Window + 1)
            /\ aged[n].age = IF recent[n].age <= Window THEN recent[n].age + 1
                             ELSE recent[n].age
    <2>1. \A n \in DOMAIN recent : recent[n] \in Check
        BY <1>1, LenProperties
    <2> QED
        BY <1>1, <2>1, OlderFacts DEF Check
<1> HIDE DEF aged
<1>8. \A n \in DOMAIN aged : aged[n].age + expires' >= Window
    BY <1>1, <1>6, <1>7 DEF IInv, RedisInv
<1>9. \A n \in DOMAIN recent' : recent'[n].age + expires' >= Window
    BY <1>5, <1>8, PrunedKeeps
<1>10. /\ IsFiniteSet(Young(recent)) /\ IsFiniteSet(Allowed(recent))
       /\ Cardinality(Young(recent)) \in Nat /\ Cardinality(Allowed(recent)) \in Nat
    <2>1. /\ Young(recent) \in SUBSET (DOMAIN recent)
          /\ Allowed(recent) \in SUBSET (DOMAIN recent)
        BY DEF Young, Allowed
    <2> QED
        BY <1>1, <2>1, PartFinite
<1>11. Cardinality(Young(aged)) \in Nat /\ Cardinality(Allowed(aged)) \in Nat
       /\ Cardinality(Young(aged)) <= Cardinality(Young(recent))
       /\ Cardinality(Allowed(aged)) <= Cardinality(Allowed(recent))
    <2>1. Young(aged) \in SUBSET Young(recent)
          /\ Allowed(aged) \in SUBSET Allowed(recent)
        BY <1>1, <1>7 DEF Young, Allowed
    <2> QED
        BY <1>10, <2>1, FS_Subset, FS_CardinalityType
<1>12. Cardinality(Young(recent)') <= Cardinality(Young(aged))
    <2> DEFINE X == {c \in Check : c.age < Window}
    <2>1. Young(aged) = {n \in DOMAIN aged : aged[n] \in X}
        BY <1>5, LenProperties DEF Young
    <2>2. Young(recent)' = {n \in DOMAIN Pruned(aged) : Pruned(aged)[n] \in X}
        BY <1>5, LenProperties DEF Young
    <2> HIDE DEF X
    <2> QED
        BY <1>5, <2>1, <2>2, PrunedKeeps
<1>13. Cardinality(Allowed(recent)') <= Cardinality(Allowed(aged))
    <2> DEFINE X == {c \in Check : c.age < Window /\ c.how = "allowed"}
    <2>1. Allowed(aged) = {n \in DOMAIN aged : aged[n] \in X}
        BY <1>5, LenProperties DEF Allowed
    <2>2. Allowed(recent)' = {n \in DOMAIN Pruned(aged) : Pruned(aged)[n] \in X}
        BY <1>5, LenProperties DEF Allowed
    <2> HIDE DEF X
    <2> QED
        BY <1>5, <2>1, <2>2, PrunedKeeps
<1>14. Cardinality(Young(recent)') \in Nat /\ Cardinality(Allowed(recent)') \in Nat
    <2>1. /\ Young(recent)' \in SUBSET (DOMAIN recent')
          /\ Allowed(recent)' \in SUBSET (DOMAIN recent')
        BY DEF Young, Allowed
    <2> QED
        BY <1>5, <2>1, PartFinite
<1>15. Cardinality(Young(recent)') <= hits'
    <2>1. CASE expires <= 1
        <3>1. Young(recent)' = {}
            <4>1. expires' = 0
                BY <1>1, <1>6, <2>1
            <4>2. \A n \in DOMAIN recent' : recent'[n] \in Check
                BY <1>5, LenProperties
            <4>3. \A n \in DOMAIN recent' : recent'[n].age \in Nat
                BY <1>1, <4>2 DEF Check
            <4>4. \A n \in DOMAIN recent' : ~(recent'[n].age < Window)
                BY <1>1, <1>9, <4>1, <4>3
            <4> QED
                BY <4>4 DEF Young
        <3> QED
            BY <1>6, <2>1, <3>1, FS_EmptySet
    <2>2. CASE ~(expires <= 1)
        BY <1>1, <1>6, <1>10, <1>11, <1>12, <1>14, <2>2 DEF IInv, RedisInv
    <2> QED
        BY <2>1, <2>2
<1>16. Cardinality(Allowed(recent)') <= Limit
    BY <1>1, <1>10, <1>11, <1>13, <1>14 DEF IInv, RedisInv
<1>17. UNCHANGED <<available, client, pinging, sending, verdict>>
    BY DEF Tick
<1> QED
    BY <1>3, <1>4, <1>5, <1>6, <1>9, <1>15, <1>16, <1>17
    DEF IInv, TypeOK, InFlightOK, RedisInv, MemoryCountsTheWindow

-----------------------------------------------------------------------------
(* The invariant *)

LEMMA InitInv == Init => IInv
<1> SUFFICES ASSUME Init PROVE IInv
    OBVIOUS
<1>1. /\ <<>> \in Seq(Check) /\ DOMAIN <<>> = {}
      /\ Sorted(<<>>) /\ Ranked(<<>>) /\ Young(<<>>) = {} /\ Allowed(<<>>) = {}
    BY DEF Sorted, Ranked, Young, Allowed
<1>2. Window \in Nat \ {0} /\ Limit \in Nat /\ MaxCalls \in Nat /\ MaxInFlight \in Nat
    BY RateLimiterAssumption DEF RateLimiterAssumption
<1>3. recent = <<>> /\ hits = 0 /\ expires = 0
      /\ \A i \in Instances : deque[i] = <<>>
    BY DEF Init
<1>4. RedisInv
    <2>1. Cardinality(Young(recent)) = 0 /\ Cardinality(Allowed(recent)) = 0
        BY <1>1, <1>3, FS_EmptySet
    <2>2. DOMAIN recent = {}
        BY <1>1, <1>3
    <2> QED
        BY <1>2, <1>3, <2>1, <2>2 DEF RedisInv
<1>5. MemoryInv
    BY <1>1, <1>3 DEF MemoryInv
<1>6. MemoryCountsTheWindow
    BY DEF Init, MemoryCountsTheWindow
<1>7. TypeOK
    BY <1>1, <1>2 DEF Init, TypeOK
<1>8. InFlightOK
    BY <1>2 DEF Init, InFlightOK
<1> QED
    BY <1>4, <1>5, <1>6, <1>7, <1>8 DEF IInv

LEMMA CheckInv ==
    ASSUME IInv, NEW i \in Instances, InFlightOK',
           \/ CheckInMemory(i)
           \/ UNCHANGED <<deque, hits, expires, recent, verdict>>
    PROVE  IInv'
<1>1. CASE CheckInMemory(i)
    <2>1. UNCHANGED <<hits, expires, recent>>
        BY <1>1 DEF CheckInMemory
    <2>2. RedisInv'
        BY <2>1 DEF IInv, RedisInv, Young, Allowed
    <2> QED
        BY <1>1, <2>1, <2>2, InMemory DEF IInv, TypeOK, InFlightOK
<1>2. CASE UNCHANGED <<deque, hits, expires, recent, verdict>>
    <2>1. TypeOK'
        BY <1>2 DEF IInv, TypeOK, InFlightOK
    <2>2. MemoryInv'
        BY <1>2 DEF IInv, MemoryInv
    <2>3. RedisInv'
        BY <1>2 DEF IInv, RedisInv, Young, Allowed
    <2>4. MemoryCountsTheWindow'
        BY <1>2 DEF IInv, MemoryCountsTheWindow
    <2> QED
        BY <2>1, <2>2, <2>3, <2>4 DEF IInv
<1> QED
    BY <1>1, <1>2

LEMMA RedisStepInv ==
    ASSUME IInv, NEW i \in Instances, CheckRedis(i) \/ RedisFails(i)
    PROVE  IInv'
<1>1. InFlightOK' /\ UNCHANGED deque
    <2>1. /\ sending[i] > 0 /\ sending' = [sending EXCEPT ![i] = @ - 1]
          /\ UNCHANGED <<available, client, pinging, deque>>
        BY DEF CheckRedis, RedisFails
    <2>2. MaxInFlight \in Nat /\ InFlightOK
        BY RateLimiterAssumption DEF IInv, RateLimiterAssumption
    <2> QED
        BY <2>1, <2>2 DEF InFlightOK
<1>2. MemoryInv'
    BY <1>1 DEF IInv, MemoryInv
<1>3. MemoryCountsTheWindow' /\ verdict'.by # "memory"
    BY DEF CheckRedis, RedisFails, MemoryCountsTheWindow
<1>4. hits \in Nat /\ deque \in [Instances -> Seq(Check)]
    BY DEF IInv, TypeOK
<1>5. ASSUME NEW how \in {"allowed", "refused", "unchecked"}, Count(how),
             how = "allowed" => hits + 1 <= Limit
      PROVE  /\ hits' \in 0..MaxCalls /\ expires' \in 0..Window
             /\ recent' \in Seq(Check) /\ RedisInv'
    BY <1>5, AtRedis
<1>6. CASE CheckRedis(i)
    <2>1. Count(Verdict(hits + 1))
        BY <1>6 DEF CheckRedis
    <2>2. /\ hits' \in 0..MaxCalls /\ expires' \in 0..Window
          /\ recent' \in Seq(Check) /\ RedisInv'
        BY <1>5, <2>1, VerdictFacts
    <2>3. Cardinality(InWindow(recent')) \in Nat
        <3>1. InWindow(recent') \in SUBSET (DOMAIN recent')
            BY DEF InWindow
        <3> QED
            BY <2>2, <3>1, PartFinite
    <2>4. verdict' \in [by : {"nobody", "memory", "redis"}, allowed : BOOLEAN,
                        count : Nat, calls : Nat]
        BY <1>4, <1>6, <2>3 DEF CheckRedis
    <2> QED
        BY <1>1, <1>2, <1>3, <1>4, <2>2, <2>4 DEF IInv, TypeOK, InFlightOK
<1>7. CASE RedisFails(i)
    <2>1. /\ hits' \in 0..MaxCalls /\ expires' \in 0..Window
          /\ recent' \in Seq(Check) /\ RedisInv'
        <3>1. CASE Count("unchecked")
            BY <1>5, <3>1
        <3>2. CASE UNCHANGED <<hits, expires, recent>>
            BY <3>2 DEF IInv, TypeOK, RedisInv, Young, Allowed
        <3> QED
            BY <1>7, <3>1, <3>2 DEF RedisFails
    <2>2. verdict' \in [by : {"nobody", "memory", "redis"}, allowed : BOOLEAN,
                        count : Nat, calls : Nat]
        BY <1>7 DEF RedisFails
    <2> QED
        BY <1>1, <1>2, <1>3, <1>4, <2>1, <2>2 DEF IInv, TypeOK, InFlightOK
<1> QED
    BY <1>6, <1>7

LEMMA NextInv == IInv /\ [Next]_vars => IInv'
<1> SUFFICES ASSUME IInv, [Next]_vars PROVE IInv'
    OBVIOUS
<1>1. CASE Tick
    BY <1>1, TickInv
<1>2. ASSUME NEW i \in Instances, FirstCheck(i) \/ PingAnswers(i) \/ PingFails(i)
                                  \/ LaterCheck(i)
      PROVE  IInv'
    <2>1. /\ MaxInFlight \in Nat /\ InFlightOK
          /\ pinging[i] \in 0..MaxInFlight /\ sending[i] \in 0..MaxInFlight
        BY RateLimiterAssumption DEF IInv, TypeOK, InFlightOK, RateLimiterAssumption
    <2>2. CASE FirstCheck(i)
        BY <2>1, <2>2, CheckInv DEF FirstCheck, InFlightOK
    <2>3. CASE PingAnswers(i)
        BY <2>1, <2>3, CheckInv DEF PingAnswers, InFlightOK
    <2>4. CASE PingFails(i)
        BY <2>1, <2>4, CheckInv DEF PingFails, InFlightOK
    <2>5. CASE LaterCheck(i)
        BY <2>1, <2>5, CheckInv DEF LaterCheck, InFlightOK
    <2> QED
        BY <1>2, <2>2, <2>3, <2>4, <2>5
<1>3. ASSUME NEW i \in Instances, CheckRedis(i) \/ RedisFails(i)
      PROVE  IInv'
    BY <1>3, RedisStepInv
<1>4. CASE UNCHANGED vars
    BY <1>4 DEF vars, IInv, TypeOK, InFlightOK, MemoryInv, RedisInv, Young, Allowed,
        MemoryCountsTheWindow
<1> QED
    BY <1>1, <1>2, <1>3, <1>4 DEF Next

LEMMA Invariant == Spec => []IInv
BY InitInv, NextInv, PTL DEF Spec

\* Positions bound a deque, the counter bounds Redis.
LEMMA InvAllows == IInv => AllowedWithinLimit
<1> SUFFICES ASSUME IInv, NEW s \in {recent} \cup {deque[i] : i \in Instances}
             PROVE  Cardinality(Allowed(s)) <= Limit
    BY DEF AllowedWithinLimit, Allowed
<1>1. CASE s = recent
    BY <1>1 DEF IInv, RedisInv
<1>2. ASSUME NEW i \in Instances, s = deque[i]
      PROVE  Cardinality(Allowed(s)) <= Limit
    <2>1. s \in Seq(Check) /\ Ranked(s) /\ Limit \in Nat
        BY <1>2, RateLimiterAssumption
        DEF IInv, TypeOK, MemoryInv, RateLimiterAssumption
    <2>2. Allowed(s) \in SUBSET (1..Limit)
        BY <2>1, LenProperties DEF Allowed, Ranked
    <2>3. IsFiniteSet(1..Limit) /\ Cardinality(1..Limit) = Limit
        BY <2>1, UpTo
    <2> QED
        BY <2>2, <2>3, FS_Subset
<1> QED
    BY <1>1, <1>2

\* The limiter's variables stay in their types.
THEOREM LimiterTypeCorrect == Spec => []TypeOK
BY Invariant, PTL DEF IInv

\* No deque and no shared counter allows more than the limit in a window.
THEOREM LimiterKeepsTheLimit == Spec => []AllowedWithinLimit
BY Invariant, InvAllows, PTL

\* The deque's count is the number of calls in the last window.
THEOREM MemoryCountIsExact == Spec => []MemoryCountsTheWindow
BY Invariant, PTL DEF IInv

-----------------------------------------------------------------------------
(* The health alert *)

\* The checks that are about to write what the row already says: each of them
\* read it before it said so, and orders one more alert.
Late == {c \in Checkers : at[c] = "write" /\ overall[c] = stored}

AlertInv == AlertTypeOK /\ repeats + Cardinality(Late) <= Cardinality(Checkers)

LEMMA Counted ==
    /\ Cardinality(Checkers) \in Nat /\ Cardinality(Checkers) >= 1
    /\ \A S \in SUBSET Checkers :
        /\ IsFiniteSet(S) /\ Cardinality(S) \in Nat
        /\ Cardinality(S) <= Cardinality(Checkers)
        /\ \A c \in S : Cardinality(S \ {c}) = Cardinality(S) - 1
        /\ \A T \in SUBSET S : Cardinality(T) <= Cardinality(S)
<1>1. IsFiniteSet(Checkers) /\ Checkers # {}
  BY HealthAlertAssumption
<1>2. Cardinality(Checkers) \in Nat /\ Cardinality(Checkers) # 0
  BY <1>1, FS_CardinalityType, FS_EmptySet
<1>3. ASSUME NEW S \in SUBSET Checkers
      PROVE  /\ IsFiniteSet(S) /\ Cardinality(S) \in Nat
             /\ Cardinality(S) <= Cardinality(Checkers)
             /\ \A c \in S : Cardinality(S \ {c}) = Cardinality(S) - 1
             /\ \A T \in SUBSET S : Cardinality(T) <= Cardinality(S)
  <2>1. IsFiniteSet(S) /\ Cardinality(S) <= Cardinality(Checkers)
    BY <1>1, FS_Subset
  <2> QED
    BY <2>1, FS_Subset, FS_CardinalityType, FS_RemoveElement
<1> QED
  BY <1>2, <1>3

LEMMA InitAlert == AlertInit => AlertInv
<1> SUFFICES ASSUME AlertInit PROVE AlertInv
  OBVIOUS
<1>1. Late = {} /\ AlertTypeOK
  BY DEF AlertInit, Late, AlertTypeOK, Statuses
<1>2. Cardinality(Late) = 0
  BY <1>1, FS_EmptySet
<1> QED
  BY <1>1, <1>2, Counted DEF AlertInv, AlertInit

\* Steps that leave the row alone and bring nobody new to write what it says.
LEMMA FewerLate ==
    ASSUME AlertInv, Late' \subseteq Late, repeats' = repeats
    PROVE  repeats' + Cardinality(Late') <= Cardinality(Checkers)
<1>1. Late \in SUBSET Checkers /\ Late' \in SUBSET Late
  BY DEF Late
<1>2. Cardinality(Late') <= Cardinality(Late) /\ Cardinality(Late) \in Nat
      /\ Cardinality(Late') \in Nat
  BY <1>1, Counted
<1> QED
  BY <1>2, Counted DEF AlertInv, AlertTypeOK

\* A row that changes starts the count again.
LEMMA RowChanges ==
    ASSUME AlertInv, Late' \in SUBSET Checkers, repeats' = 0
    PROVE  repeats' + Cardinality(Late') <= Cardinality(Checkers)
<1>1. Cardinality(Late') <= Cardinality(Checkers) /\ Cardinality(Late') \in Nat
  BY Counted
<1> QED
  BY <1>1

LEMMA AlertStep == AlertInv /\ [AlertNext]_alertVars => AlertInv'
<1> SUFFICES ASSUME AlertInv, [AlertNext]_alertVars PROVE AlertInv'
  OBVIOUS
<1>0. AlertTypeOK
  BY DEF AlertInv
<1>1. ASSUME NEW c \in Checkers,
             \/ CheckPostgres(c) \/ CheckQdrant(c) \/ CheckMetadata(c)
             \/ ReturnWithoutPostgres(c) \/ ReadRow(c) \/ NoAlert(c)
             \/ Notify(c) \/ NotifyLost(c)
      PROVE  AlertInv'
  <2>0. pgOk' \in [Checkers -> BOOLEAN]
    <3>1. pgOk \in [Checkers -> BOOLEAN]
      BY <1>0 DEF AlertTypeOK
    <3>2. \E b \in BOOLEAN : pgOk' = [pgOk EXCEPT ![c] = b] \/ pgOk' = pgOk
      <4>1. ("postgres" \in up) \in BOOLEAN
        OBVIOUS
      <4> QED
        BY <1>1, <4>1, Zenon DEF CheckPostgres, CheckQdrant, CheckMetadata,
           ReturnWithoutPostgres, ReadRow, NoAlert, Notify, NotifyLost, Return
    <3> QED
      BY <3>1, <3>2
  <2>a. UNCHANGED world /\ stored' = stored /\ repeats' = repeats
    BY <1>1 DEF CheckPostgres, CheckQdrant, CheckMetadata, ReturnWithoutPostgres, ReadRow,
          NoAlert, Notify, NotifyLost, Find, world
  <2>b. told' \in [Checkers -> Statuses]
    BY <1>0, <1>1 DEF AlertTypeOK, Statuses, CheckPostgres, CheckQdrant, CheckMetadata,
          ReturnWithoutPostgres, ReadRow, NoAlert, Notify, NotifyLost, Find, Report
  <2>c. at' \in [Checkers -> {"idle", "qdrant", "metadata", "row", "write", "notify"}]
    BY <1>0, <1>1 DEF AlertTypeOK, CheckPostgres, CheckQdrant, CheckMetadata,
          ReturnWithoutPostgres, ReadRow, NoAlert, Notify, NotifyLost, Find, Return
  <2>d. overall' \in [Checkers -> Statuses]
    BY <1>0, <1>1 DEF AlertTypeOK, Statuses, CheckPostgres, CheckQdrant, CheckMetadata,
          ReturnWithoutPostgres, ReadRow, NoAlert, Notify, NotifyLost, Find, Return, Degrade
  <2>1. AlertTypeOK' /\ repeats' = repeats /\ stored' = stored
    BY <1>0, <2>0, <2>a, <2>b, <2>c, <2>d DEF AlertTypeOK, world
  <2>2. Late' \subseteq Late
    <3>1. \/ at'[c] # "write"
          \/ overall'[c] # stored'
      BY <1>0, <1>1 DEF AlertTypeOK, CheckPostgres, CheckQdrant, CheckMetadata,
            ReturnWithoutPostgres, ReadRow, NoAlert, Notify, NotifyLost, Find, Return
    <3>2. \A d \in Checkers \ {c} : at'[d] = at[d] /\ overall'[d] = overall[d]
      BY <1>0, <1>1 DEF AlertTypeOK, CheckPostgres, CheckQdrant, CheckMetadata,
            ReturnWithoutPostgres, ReadRow, NoAlert, Notify, NotifyLost, Find, Return
    <3> QED
      BY <2>1, <3>1, <3>2 DEF Late
  <2> QED
    BY <2>1, <2>2, FewerLate DEF AlertInv
<1>2. ASSUME NEW c \in Checkers, WriteRow(c)
      PROVE  AlertInv'
  <2>1. /\ at[c] = "write" /\ at' = [at EXCEPT ![c] = "notify"]
        /\ stored' = overall[c] /\ overall' = overall
        /\ repeats' = (IF stored = overall[c] THEN repeats ELSE 0) + 1
    BY <1>2 DEF WriteRow, Store
  <2>2. AlertTypeOK'
    BY <1>0, <1>2, <2>1 DEF AlertTypeOK, Statuses, WriteRow, world
  <2>3. CASE stored = overall[c]
    <3>1. Late' = Late \ {c} /\ c \in Late /\ Late \in SUBSET Checkers
      BY <1>0, <2>1, <2>3 DEF Late, AlertTypeOK
    <3>2. Cardinality(Late') = Cardinality(Late) - 1 /\ Cardinality(Late) \in Nat
      BY <3>1, Counted
    <3> QED
      BY <1>0, <2>1, <2>2, <2>3, <3>2, Counted DEF AlertInv, AlertTypeOK
  <2>4. CASE stored # overall[c]
    <3>1. Late' \in SUBSET (Checkers \ {c}) /\ Checkers \in SUBSET Checkers
      BY <1>0, <2>1 DEF Late, AlertTypeOK
    <3>2. Checkers \ {c} \in SUBSET Checkers
      OBVIOUS
    <3>3. /\ Cardinality(Late') <= Cardinality(Checkers \ {c})
          /\ Cardinality(Late') \in Nat
      BY <3>1, <3>2, Counted
    <3>4. Cardinality(Checkers \ {c}) = Cardinality(Checkers) - 1
      BY <3>1, Counted
    <3> QED
      BY <2>1, <2>2, <2>4, <3>3, <3>4, Counted DEF AlertInv
  <2> QED
    BY <2>3, <2>4
<1>3. ASSUME NEW c \in Checkers, WriteFails(c) \/ ResetRow(c)
      PROVE  AlertInv'
  <2>1. /\ at' = [at EXCEPT ![c] = "idle"] /\ overall' = [overall EXCEPT ![c] = "healthy"]
        /\ \/ stored' = stored /\ repeats' = repeats
           \/ repeats' = 0
    BY <1>0, <1>3 DEF WriteFails, ResetRow, Return, Store, AlertTypeOK
  <2>a. /\ pgOk' = [pgOk EXCEPT ![c] = FALSE] /\ UNCHANGED world
        /\ \E s \in Statuses : Report(c, s)
    BY <1>0, <1>3 DEF AlertTypeOK, Statuses, WriteFails, ResetRow, Return
  <2>b. told' \in [Checkers -> Statuses]
    BY <1>0, <2>a DEF AlertTypeOK, Statuses, Report
  <2>c. stored' \in Statuses /\ repeats' \in Nat
    BY <1>0, <1>3 DEF AlertTypeOK, Statuses, WriteFails, ResetRow, Store
  <2>d. pgOk' \in [Checkers -> BOOLEAN]
    BY <1>0, <2>a DEF AlertTypeOK
  <2>e. /\ at' \in [Checkers -> {"idle", "qdrant", "metadata", "row", "write", "notify"}]
        /\ overall' \in [Checkers -> Statuses]
    BY <1>0, <2>1 DEF AlertTypeOK, Statuses
  <2>2. AlertTypeOK'
    BY <1>0, <2>a, <2>b, <2>c, <2>d, <2>e DEF AlertTypeOK, world
  <2>3. CASE stored' = stored /\ repeats' = repeats
    <3>1. Late' \subseteq Late
      BY <1>0, <2>1, <2>3 DEF Late, AlertTypeOK
    <3> QED
      BY <2>2, <2>3, <3>1, FewerLate DEF AlertInv
  <2>4. CASE repeats' = 0
    <3>1. Late' \in SUBSET Checkers
      BY DEF Late
    <3> QED
      BY <2>2, <2>4, <3>1, RowChanges DEF AlertInv
  <2> QED
    BY <2>1, <2>3, <2>4
<1>4. ASSUME WorldChanges \/ UNCHANGED alertVars
      PROVE  AlertInv'
  <2>1. AlertTypeOK' /\ Late' = Late /\ repeats' = repeats
    BY <1>0, <1>4 DEF AlertTypeOK, WorldChanges, alertVars, Late
  <2> QED
    BY <2>1, FewerLate DEF AlertInv
<1> QED
  BY <1>1, <1>2, <1>3, <1>4 DEF AlertNext, CheckHealth

\* Every variable keeps its type.
THEOREM AlertTypeCorrect == AlertSpec => []AlertTypeOK
<1>1. AlertInv => AlertTypeOK
  BY DEF AlertInv
<1> QED
  BY <1>1, InitAlert, AlertStep, PTL DEF AlertSpec

\* However many checks overlap, one transition of the stored status is alerted
\* at most once by each of them.
THEOREM AlertsPerTransition == AlertSpec => []RepeatsBounded
<1>1. AlertInv => RepeatsBounded
  <2> SUFFICES ASSUME AlertInv PROVE RepeatsBounded
    OBVIOUS
  <2>1. Late \in SUBSET Checkers
    BY DEF Late
  <2>2. Cardinality(Late) \in Nat
    BY <2>1, Counted
  <2> QED
    BY <2>2, Counted DEF AlertInv, AlertTypeOK, RepeatsBounded
<1> QED
  BY <1>1, InitAlert, AlertStep, PTL DEF AlertSpec
=============================================================================
