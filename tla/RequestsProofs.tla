--------------------------- MODULE RequestsProofs ---------------------------
(***************************************************************************)
(* Proofs about Requests, for every number of calls, keys, connections and *)
(* ticks.                                                                  *)
(***************************************************************************)
EXTENDS Requests, FiniteSetTheorems, TLAPS

Holding == {"select", "update", "read"}

Weight(place) == IF place \in Holding THEN 1 ELSE 0

\* Connections are conserved only together with their types: free stays within
\* the pool because what comes back was out.
PoolInv == TypeOK /\ ConnectionsConserved

\* A step of a call that takes as many connections as its new place holds more
\* than its old one keeps the sum.
LEMMA MoveConserves ==
    ASSUME PoolInv, NEW c \in Calls, NEW to \in Places, NEW n \in Int,
           Move(c, to, n), n = Weight(to) - Weight(at[c]), n <= free, logs' = logs
    PROVE  at' \in [Calls -> Places] /\ free' \in 0..PoolSize /\ ConnectionsConserved'
<1>1. Holders \in SUBSET Calls /\ IsFiniteSet(Holders) /\ Cardinality(Holders) \in Nat
  <2>1. Holders \subseteq Calls
    BY DEF Holders
  <2>2. IsFiniteSet(Calls)
    BY RequestsAssumption
  <2>3. IsFiniteSet(Holders)
    BY <2>1, <2>2, FS_Subset
  <2> QED
    BY <2>1, <2>3, FS_CardinalityType
<1>2. at' = [at EXCEPT ![c] = to] /\ free' = free - n /\ at \in [Calls -> Places]
  BY DEF Move, PoolInv, TypeOK
<1>3. Cardinality(Holders') = Cardinality(Holders) + n /\ Cardinality(Holders') \in Nat
  <2>1. CASE to \in Holding /\ at[c] \in Holding
    <3>1. Holders' = Holders
      BY <2>1, <1>2 DEF Holders, Holding
    <3> QED
      BY <3>1, <2>1, <1>1 DEF Weight
  <2>2. CASE to \notin Holding /\ at[c] \notin Holding
    <3>1. Holders' = Holders
      BY <2>2, <1>2 DEF Holders, Holding
    <3> QED
      BY <3>1, <2>2, <1>1 DEF Weight
  <2>3. CASE to \in Holding /\ at[c] \notin Holding
    <3>1. Holders' = Holders \cup {c} /\ c \notin Holders
      BY <2>3, <1>2 DEF Holders, Holding
    <3>2. Cardinality(Holders') = Cardinality(Holders) + 1
      BY <3>1, <1>1, FS_AddElement
    <3> QED
      BY <3>2, <2>3, <1>1 DEF Weight
  <2>4. CASE to \notin Holding /\ at[c] \in Holding
    <3>1. Holders' = Holders \ {c} /\ c \in Holders
      BY <2>4, <1>2 DEF Holders, Holding
    <3>2. Cardinality(Holders') = Cardinality(Holders) - 1 /\ IsFiniteSet(Holders')
      BY <3>1, <1>1, FS_RemoveElement
    <3>3. Cardinality(Holders') \in Nat
      BY <3>2, FS_CardinalityType
    <3> QED
      BY <3>2, <3>3, <2>4, <1>1 DEF Weight
  <2> QED
    BY <2>1, <2>2, <2>3, <2>4
<1>4. at' \in [Calls -> Places]
  BY <1>2
<1>5. free \in Nat /\ PoolSize \in Nat /\ logs.holding \in Nat
  BY RequestsAssumption DEF PoolInv, TypeOK
<1>6. free + Cardinality(Holders) + logs.holding = PoolSize
  BY DEF PoolInv, ConnectionsConserved
<1>7. free' + Cardinality(Holders') + logs'.holding = PoolSize
  BY <1>1, <1>2, <1>3, <1>5, <1>6
<1>8. free' \in 0..PoolSize
  BY <1>1, <1>2, <1>3, <1>5, <1>7
<1> QED
  BY <1>4, <1>7, <1>8 DEF ConnectionsConserved

\* The new key goes beside fewer than CacheSize others.
LEMMA StoredBounded ==
    ASSUME TypeOK, NEW k \in Keys, Stored(k)
    PROVE  /\ cache' \in [Keys -> Time \cup {Absent}]
           /\ Cardinality({j \in Keys : cache'[j] # Absent}) <= CacheSize
<1> DEFINE kept == {j \in Keys \ {k} : cache[j] # Absent /\ clock <= cache[j] + Ttl}
<1>1. PICK keep \in SUBSET kept :
          /\ Cardinality(keep) < CacheSize
          /\ cache' = [j \in Keys |-> IF j = k THEN clock
                                      ELSE IF j \in keep THEN cache[j] ELSE Absent]
  BY DEF Stored
<1>2. clock \in Time /\ cache \in [Keys -> Time \cup {Absent}]
  BY DEF TypeOK
<1>3. cache' \in [Keys -> Time \cup {Absent}]
  BY <1>1, <1>2
<1>4. {j \in Keys : cache'[j] # Absent} \subseteq keep \cup {k}
  BY <1>1
<1>5. IsFiniteSet(keep) /\ IsFiniteSet(keep \cup {k}) /\ k \notin keep
  <2>1. keep \subseteq Keys /\ keep \cup {k} \subseteq Keys /\ k \notin keep
    BY <1>1
  <2> QED
    BY <2>1, RequestsAssumption, FS_Subset
<1>6. Cardinality(keep \cup {k}) = Cardinality(keep) + 1 /\ Cardinality(keep) \in Nat
  BY <1>5, FS_AddElement, FS_CardinalityType
<1>7. /\ Cardinality({j \in Keys : cache'[j] # Absent}) <= Cardinality(keep \cup {k})
      /\ Cardinality({j \in Keys : cache'[j] # Absent}) \in Nat
  BY <1>4, <1>5, FS_Subset, FS_CardinalityType
<1>8. CacheSize \in Nat
  BY RequestsAssumption
<1> QED
  BY <1>1, <1>3, <1>6, <1>7, <1>8

LEMMA InitPool == Init => PoolInv
<1> SUFFICES ASSUME Init PROVE PoolInv
  OBVIOUS
<1> USE RequestsAssumption
<1>1. Holders = {} /\ {k \in Keys : cache[k] # Absent} = {}
  BY DEF Init, Holders, Absent
<1>2. Cardinality(Holders) = 0 /\ Cardinality({k \in Keys : cache[k] # Absent}) = 0
  BY <1>1, FS_EmptySet
<1>3. ConnectionsConserved
  BY <1>2 DEF Init, ConnectionsConserved
<1>4. TypeOK
  BY <1>2 DEF Init, TypeOK, Time, Absent, Places, Outside
<1> QED
  BY <1>3, <1>4 DEF PoolInv

\* The steps of a call that leave the lookup's own state alone.
LEMMA CallStep ==
    ASSUME PoolInv, NEW c \in Calls,
           \/ Arrive(c) \/ Take(c) \/ SelectFindsNone(c) \/ LookupFails(c)
           \/ RateLimited(c) \/ StartTool(c) \/ WantRead(c) \/ ReadEnds(c) \/ Timeout(c)
    PROVE  PoolInv' /\ UNCHANGED Authentication
<1>1. PICK to \in Places, n \in Int :
          Move(c, to, n) /\ n = Weight(to) - Weight(at[c]) /\ n <= free
  <2>1. at[c] \in Places /\ free \in Nat
    BY RequestsAssumption DEF PoolInv, TypeOK
  <2>2. CASE Arrive(c)
    BY <2>1, <2>2 DEF Arrive, CachedKey, KeyExpiresUnderRead, UnknownKey, Weight, Holding,
                      Places, Outside, InAuth
  <2>3. CASE Take(c)
    BY <2>1, <2>3 DEF Take, Weight, Holding, Places, InAuth, InTool
  <2>4. CASE SelectFindsNone(c) \/ LookupFails(c)
    BY <2>1, <2>4 DEF SelectFindsNone, LookupFails, Weight, Holding, Places, Outside
  <2>5. CASE RateLimited(c) \/ StartTool(c) \/ WantRead(c) \/ ReadEnds(c)
    BY <2>1, <2>5 DEF RateLimited, StartTool, WantRead, ReadEnds, Weight, Holding, Places,
                      Outside, InTool
  <2>6. CASE Timeout(c)
    BY <2>1, <2>6 DEF Timeout, Held, Holders, Weight, Holding, Places, Outside, InTool
  <2> QED
    BY <2>2, <2>3, <2>4, <2>5, <2>6
<1>2. UNCHANGED <<Authentication, logs, pool>>
  BY DEF Arrive, CachedKey, KeyExpiresUnderRead, UnknownKey, Take, SelectFindsNone,
         LookupFails, RateLimited, StartTool, WantRead, ReadEnds, Timeout
<1>3. at' \in [Calls -> Places] /\ free' \in 0..PoolSize /\ ConnectionsConserved'
  BY <1>1, <1>2, MoveConserves
<1> QED
  BY <1>2, <1>3 DEF PoolInv, TypeOK, Authentication

LEMMA PoolStep == PoolInv /\ [Next]_vars => PoolInv'
<1> SUFFICES ASSUME PoolInv, [Next]_vars PROVE PoolInv'
  OBVIOUS
<1>0. TypeOK /\ ConnectionsConserved /\ PoolSize \in Nat /\ MaxClock \in Nat
  BY RequestsAssumption DEF PoolInv
<1>1. ASSUME NEW c \in Calls, SelectFinds(c)
      PROVE  PoolInv'
  <2>1. Move(c, "update", 0) /\ 0 = Weight("update") - Weight(at[c]) /\ 0 <= free
        /\ "update" \in Places /\ logs' = logs
    BY <1>0, <1>1 DEF SelectFinds, Weight, Holding, Places, InAuth, TypeOK
  <2>2. at' \in [Calls -> Places] /\ free' \in 0..PoolSize /\ ConnectionsConserved'
    BY <2>1, MoveConserves
  <2> QED
    BY <1>0, <1>1, <2>2 DEF PoolInv, TypeOK, SelectFinds, Elsewhere
<1>2. ASSUME NEW c \in Calls, Admit(c)
      PROVE  PoolInv'
  <2>1. Move(c, "admitted", -1) /\ -1 = Weight("admitted") - Weight(at[c]) /\ -1 <= free
        /\ "admitted" \in Places /\ logs' = logs
    BY <1>0, <1>2 DEF Admit, Weight, Holding, Places, TypeOK
  <2>2. at' \in [Calls -> Places] /\ free' \in 0..PoolSize /\ ConnectionsConserved'
    BY <2>1, MoveConserves
  <2>3. /\ cache' \in [Keys -> Time \cup {Absent}]
        /\ Cardinality({j \in Keys : cache'[j] # Absent}) <= CacheSize
    BY <1>0, <1>2, StoredBounded DEF Admit, TypeOK
  <2> QED
    BY <1>0, <1>2, <2>2, <2>3 DEF PoolInv, TypeOK, Admit, Elsewhere
<1>3. ASSUME NEW c \in Calls, FinishTool(c)
      PROVE  PoolInv'
  <2>1. Holders' = Holders /\ at' \in [Calls -> Places]
    BY <1>0, <1>3 DEF FinishTool, Move, Holders, TypeOK, Places, Outside
  <2>2. free' = free /\ logs' \in [waiting : Nat, holding : Nat] /\ logs'.holding = logs.holding
    BY <1>0, <1>3 DEF FinishTool, Move, TypeOK
  <2>3. ConnectionsConserved'
    BY <1>0, <2>1, <2>2 DEF ConnectionsConserved
  <2> QED
    BY <1>0, <1>3, <2>1, <2>2, <2>3 DEF PoolInv, TypeOK, FinishTool, Authentication
<1>4. ASSUME LogTakes \/ LogEnds \/ LogRefused
      PROVE  PoolInv'
  <2>1. Holders' = Holders /\ Holders \subseteq Calls
    BY <1>4 DEF LogTakes, LogEnds, LogRefused, Holders
  <2>2. Cardinality(Holders) \in Nat
    BY <2>1, RequestsAssumption, FS_Subset, FS_CardinalityType
  <2>3. /\ logs' \in [waiting : Nat, holding : Nat]
        /\ free' + logs'.holding = free + logs.holding
        /\ free' \in Nat
    BY <1>0, <1>4 DEF LogTakes, LogEnds, LogRefused, TypeOK
  <2>4. ConnectionsConserved' /\ free' \in 0..PoolSize
    BY <1>0, <2>1, <2>2, <2>3 DEF ConnectionsConserved, TypeOK
  <2> QED
    BY <1>0, <1>4, <2>3, <2>4 DEF PoolInv, TypeOK, LogTakes, LogEnds, LogRefused, Authentication
<1>5. ASSUME ClosePool \/ PoolClosed \/ UNCHANGED vars
      PROVE  PoolInv'
  BY <1>0, <1>5 DEF ClosePool, PoolClosed, vars, PoolInv, TypeOK, ConnectionsConserved, Holders,
                    Authentication
<1>6. ASSUME NEW k \in Keys, SetActive(k)
      PROVE  PoolInv'
  BY <1>0, <1>6 DEF SetActive, PoolInv, TypeOK, ConnectionsConserved, Holders
<1>7. ASSUME Tick
      PROVE  PoolInv'
  BY <1>0, <1>7 DEF Tick, PoolInv, TypeOK, ConnectionsConserved, Holders, Time
<1> QED
  BY <1>1, <1>2, <1>3, <1>4, <1>5, <1>6, <1>7, CallStep DEF Next, LookUp

\* Every variable keeps its type, and the cache its size.
THEOREM RequestsTypeCorrect == Spec => []TypeOK
<1>1. PoolInv => TypeOK
  BY DEF PoolInv
<1> QED
  BY <1>1, InitPool, PoolStep, PTL DEF Spec

\* No way a lookup, a read or a log task ends loses a connection or returns one
\* twice, whatever the number of calls.
THEOREM ConnectionsAreConserved == Spec => []ConnectionsConserved
<1>1. PoolInv => ConnectionsConserved
  BY DEF PoolInv
<1> QED
  BY <1>1, InitPool, PoolStep, PTL DEF Spec

-----------------------------------------------------------------------------
\* A key in the cache was active a lookup before it was stored, and a lookup
\* that found it active is not older than its statements may be.
LooksBack ==
    /\ \A k \in Keys : /\ lastActive[k] <= clock
                       /\ k \in active => lastActive[k] = clock
                       /\ cache[k] # Absent => cache[k] <= lastActive[k] + LookupLimit
    /\ \A c \in Calls : at[c] = "update" =>
            seen[c] <= lastActive[key[c]] /\ clock <= seen[c] + LookupLimit

AgeInv == TypeOK /\ LooksBack

LEMMA InitAge == Init => AgeInv
<1> SUFFICES ASSUME Init PROVE AgeInv
  OBVIOUS
<1>1. TypeOK
  BY InitPool DEF PoolInv
<1>2. LooksBack
  BY DEF Init, LooksBack
<1> QED
  BY <1>1, <1>2 DEF AgeInv

LEMMA AgeStep == AgeInv /\ PoolInv /\ PoolInv' /\ [Next]_vars => AgeInv'
<1> SUFFICES ASSUME AgeInv, PoolInv, PoolInv', [Next]_vars PROVE AgeInv'
  OBVIOUS
<1>0. /\ TypeOK /\ TypeOK' /\ LooksBack
      /\ MaxClock \in Nat /\ Ttl \in Nat /\ LookupLimit \in Nat
  BY RequestsAssumption DEF AgeInv, PoolInv
<1>t. /\ clock \in Nat /\ lastActive \in [Keys -> Nat] /\ seen \in [Calls -> Nat]
      /\ cache \in [Keys -> Int] /\ key \in [Calls -> Keys] /\ at \in [Calls -> Places]
  BY <1>0 DEF TypeOK, Time, Absent
<1>1. ASSUME NEW c \in Calls,
             \/ Arrive(c) \/ Take(c) \/ SelectFindsNone(c) \/ LookupFails(c)
             \/ RateLimited(c) \/ StartTool(c) \/ WantRead(c) \/ ReadEnds(c)
             \/ Timeout(c) \/ FinishTool(c)
      PROVE  LooksBack'
  <2>1. UNCHANGED Authentication
    BY <1>1, CallStep DEF AgeInv, FinishTool
  <2>2. \A d \in Calls : at'[d] = "update" => at[d] = "update"
    BY <1>1, <1>t DEF Arrive, CachedKey, KeyExpiresUnderRead, UnknownKey, Take, SelectFindsNone,
           LookupFails, RateLimited, StartTool, WantRead, ReadEnds, Timeout, FinishTool, Move
  <2> QED
    BY <1>0, <2>1, <2>2 DEF LooksBack, Authentication
<1>2. ASSUME NEW c \in Calls, SelectFinds(c)
      PROVE  LooksBack'
  <2>1. /\ seen' = [seen EXCEPT ![c] = clock] /\ at' = [at EXCEPT ![c] = "update"]
        /\ key[c] \in active /\ UNCHANGED <<clock, active, lastActive, key, cache>>
    BY <1>2 DEF SelectFinds, Move, Elsewhere
  <2> QED
    BY <1>0, <1>t, <2>1 DEF LooksBack
<1>3. ASSUME NEW c \in Calls, Admit(c)
      PROVE  LooksBack'
  <2>1. /\ at' = [at EXCEPT ![c] = "admitted"] /\ at[c] = "update"
        /\ UNCHANGED <<clock, active, lastActive, key, seen>>
        /\ Stored(key[c])
    BY <1>3 DEF Admit, Move, Elsewhere
  <2>2. clock <= lastActive[key[c]] + LookupLimit
    BY <1>0, <1>t, <2>1 DEF LooksBack
  <2>3. ASSUME NEW k \in Keys, cache'[k] # Absent
        PROVE  \/ k = key[c] /\ cache'[k] = clock
               \/ cache'[k] = cache[k]
    BY <2>1, <2>3, <1>t DEF Stored
  <2>4. \A k \in Keys : cache'[k] # Absent => cache'[k] <= lastActive[k] + LookupLimit
    BY <2>2, <2>3, <1>0, <1>t DEF LooksBack
  <2> QED
    BY <1>0, <1>t, <2>1, <2>4 DEF LooksBack
<1>4. ASSUME LogTakes \/ LogEnds \/ LogRefused \/ ClosePool \/ PoolClosed \/ UNCHANGED vars
      PROVE  LooksBack'
  BY <1>0, <1>4 DEF LogTakes, LogEnds, LogRefused, ClosePool, PoolClosed, vars, Authentication,
                    LooksBack
<1>5. ASSUME NEW k \in Keys, SetActive(k)
      PROVE  LooksBack'
  <2>1. /\ lastActive' = [lastActive EXCEPT ![k] = clock]
        /\ active' \subseteq active \cup {k}
        /\ UNCHANGED <<clock, cache, at, key, seen>>
    BY <1>5 DEF SetActive
  <2>2. \A j \in Keys : lastActive[j] <= lastActive'[j] /\ lastActive'[j] <= clock
    BY <2>1, <1>0, <1>t DEF LooksBack
  <2>3. \A j \in Keys : lastActive'[j] \in Nat
    BY <2>1, <1>t
  <2> QED
    BY <1>0, <1>t, <2>1, <2>2, <2>3 DEF LooksBack
<1>6. ASSUME Tick
      PROVE  LooksBack'
  <2>1. /\ clock' = clock + 1
        /\ lastActive' = [k \in Keys |-> IF k \in active THEN clock + 1 ELSE lastActive[k]]
        /\ \A c \in Calls : at[c] = "update" => clock < seen[c] + LookupLimit
        /\ UNCHANGED <<active, cache, at, key, seen>>
    BY <1>6 DEF Tick
  <2>2. \A j \in Keys : /\ lastActive[j] <= lastActive'[j] /\ lastActive'[j] <= clock'
                        /\ j \in active' => lastActive'[j] = clock'
    BY <2>1, <1>0, <1>t DEF LooksBack
  <2>3. \A j \in Keys : lastActive'[j] \in Nat
    BY <2>1, <1>t
  <2>4. \A k \in Keys : cache'[k] # Absent => cache'[k] <= lastActive'[k] + LookupLimit
    BY <1>0, <1>t, <2>1, <2>2, <2>3 DEF LooksBack
  <2>5. \A c \in Calls : at'[c] = "update" =>
            seen'[c] <= lastActive'[key'[c]] /\ clock' <= seen'[c] + LookupLimit
    BY <1>0, <1>t, <2>1, <2>2, <2>3 DEF LooksBack
  <2> QED
    BY <2>2, <2>4, <2>5 DEF LooksBack
<1> QED
  BY <1>0, <1>1, <1>2, <1>3, <1>4, <1>5, <1>6 DEF Next, LookUp, AgeInv

\* A key switched off is refused once the cache's ttl and the limit of a lookup
\* have passed, for every number of calls that bring it.
THEOREM DeactivationTakesEffect == Spec => DeactivatedStops
<1> DEFINE Bounded == \A c \in Calls : at[c] # "admitted" /\ at'[c] = "admitted" =>
                          clock <= lastActive[key[c]] + Ttl + LookupLimit
<1>1. ASSUME AgeInv, [Next]_vars
      PROVE  [Bounded]_vars
  <2>0. /\ TypeOK /\ LooksBack /\ Ttl \in Nat /\ LookupLimit \in Nat
        /\ clock \in Nat /\ lastActive \in [Keys -> Nat] /\ seen \in [Calls -> Nat]
        /\ cache \in [Keys -> Int] /\ key \in [Calls -> Keys] /\ at \in [Calls -> Places]
    BY <1>1, RequestsAssumption DEF AgeInv, TypeOK, Time, Absent
  <2>1. SUFFICES ASSUME NEW c \in Calls, at[c] # "admitted", at'[c] = "admitted", Next
                 PROVE  clock <= lastActive[key[c]] + Ttl + LookupLimit
    BY <1>1 DEF vars
  <2>2. CachedKey(c) \/ Admit(c)
    <3>1. ASSUME NEW d \in Calls, NEW to, NEW n, Move(d, to, n), to # "admitted"
          PROVE  FALSE
      BY <3>1, <2>0, <2>1 DEF Move
    <3>2. ASSUME NEW d \in Calls, NEW n, Move(d, "admitted", n)
          PROVE  d = c
      BY <3>2, <2>0, <2>1 DEF Move
    <3>3. ASSUME at' = at PROVE FALSE
      BY <3>3, <2>1
    <3>4. CASE \E d \in Calls : Arrive(d)
      BY <3>1, <3>2, <3>4 DEF Arrive, CachedKey, KeyExpiresUnderRead, UnknownKey
    <3>5. CASE \E d \in Calls : Take(d)
      BY <3>1, <3>5 DEF Take
    <3>6. CASE \E d \in Calls : LookUp(d)
      BY <3>1, <3>2, <3>6 DEF LookUp, SelectFinds, SelectFindsNone, LookupFails, Admit
    <3>7. CASE \E d \in Calls : RateLimited(d) \/ StartTool(d) \/ WantRead(d) \/ ReadEnds(d)
                                \/ Timeout(d) \/ FinishTool(d)
      BY <3>1, <3>7 DEF RateLimited, StartTool, WantRead, ReadEnds, Timeout, FinishTool
    <3>8. CASE LogTakes \/ LogEnds \/ LogRefused \/ ClosePool \/ PoolClosed
               \/ (\E k \in Keys : SetActive(k)) \/ Tick
      BY <3>3, <3>8 DEF LogTakes, LogEnds, LogRefused, ClosePool, PoolClosed, SetActive, Tick
    <3> QED
      BY <2>1, <3>4, <3>5, <3>6, <3>7, <3>8 DEF Next
  <2>3. CASE CachedKey(c)
    BY <2>0, <2>3 DEF CachedKey, Cached, LooksBack
  <2>4. CASE Admit(c)
    <3>1. at[c] = "update"
      BY <2>4 DEF Admit
    <3> QED
      BY <2>0, <3>1 DEF LooksBack
  <2> QED
    BY <2>2, <2>3, <2>4
<1>2. [][AgeInv /\ [Next]_vars]_vars => DeactivatedStops
  <2>1. AgeInv /\ [Next]_vars => [Bounded]_vars
    BY <1>1
  <2> QED
    BY <2>1, PTL DEF DeactivatedStops
<1> QED
  BY <1>2, InitAge, AgeStep, InitPool, PoolStep, PTL DEF Spec
=============================================================================
