------------------------------ MODULE Requests ------------------------------
(***************************************************************************)
(* One server process from a request to its reply: the API key (auth.py),  *)
(* the rate limit, the tool under its timeout and the detached log task    *)
(* (main.py), and the pool of database connections all of them take from   *)
(* (database.py; asyncpg's pool is external).  What a tool reads is in     *)
(* Replies, how calls are counted in RateLimiter.                          *)
(*                                                                         *)
(* Nothing bounds the wait for a connection.  A statement is bounded by    *)
(* command_timeout, and only a tool by a timeout of its own.               *)
(***************************************************************************)
EXTENDS Integers, FiniteSets

CONSTANTS
    Calls,        \* requests, each made once
    Keys,         \* API keys
    PoolSize,     \* db_pool_max_size
    CacheSize,    \* maxsize of _key_cache
    Ttl,          \* its ttl, in ticks
    LookupLimit,  \* ticks UPDATE and the reset on release may take: command_timeout
    MaxClock      \* bound on time

ASSUME RequestsAssumption ==
    /\ PoolSize \in Nat \ {0} /\ CacheSize \in Nat \ {0}
    /\ Ttl \in Nat /\ LookupLimit \in Nat /\ MaxClock \in Nat
    /\ IsFiniteSet(Calls) /\ IsFiniteSet(Keys)

VARIABLES
    clock,
    active,      \* the keys with is_active in api_keys
    lastActive,  \* for the properties: when each key was last active
    cache,       \* _key_cache: when each key was stored, or Absent
    at,          \* where each call stands
    key,         \* the key it brought
    seen,        \* when its SELECT found the key active
    free,        \* connections in the pool's queue
    logs,        \* _fire_log tasks waiting for a connection and holding one
    pool         \* the pool: open, closing or closed

vars == <<clock, active, lastActive, cache, at, key, seen, free, logs, pool>>

-----------------------------------------------------------------------------
Time == 0..MaxClock
Absent == -1

Outside == {"new", "done"}
InAuth  == {"wantLookup", "select", "update"}
InTool  == {"tool", "wantRead", "read"}
Places  == Outside \cup InAuth \cup InTool \cup {"admitted"}

\* A call has a connection while it is inside `async with acquire()`.
Holders == {c \in Calls : at[c] \in {"select", "update", "read"}}

TypeOK ==
    /\ clock \in Time
    /\ active \in SUBSET Keys
    /\ lastActive \in [Keys -> Time]
    /\ cache \in [Keys -> Time \cup {Absent}]
    /\ Cardinality({k \in Keys : cache[k] # Absent}) <= CacheSize
    /\ at \in [Calls -> Places]
    /\ key \in [Calls -> Keys]
    /\ seen \in [Calls -> Time]
    /\ free \in 0..PoolSize
    /\ logs \in [waiting : Nat, holding : Nat]
    /\ pool \in {"open", "closing", "closed"}

\* init_pool: the keys and the calls' keys are anybody's choice.
Init ==
    /\ clock = 0
    /\ active = Keys
    /\ lastActive = [k \in Keys |-> 0]
    /\ cache = [k \in Keys |-> Absent]
    /\ at = [c \in Calls |-> "new"]
    /\ key \in [Calls -> Keys]
    /\ seen = [c \in Calls |-> 0]
    /\ free = PoolSize
    /\ logs = [waiting |-> 0, holding |-> 0]
    /\ pool = "open"

-----------------------------------------------------------------------------
\* The call moves on; `taken` connections come from the pool, or return to it.
Move(c, to, taken) ==
    /\ at' = [at EXCEPT ![c] = to]
    /\ free' = free - taken

Held(c) == IF c \in Holders THEN 1 ELSE 0

Authentication == <<clock, active, lastActive, cache, key, seen>>
Elsewhere == <<clock, active, lastActive, key, pool>>

\* Mutant: a cache without a ttl.
CachedForEver(k) == cache[k] # Absent

\* Ticks are coarse: at the tick at which it expires an entry may still be there.
Cached(k) == cache[k] # Absent /\ clock <= cache[k] + Ttl
Expired(k) == cache[k] = Absent \/ clock >= cache[k] + Ttl

\* The fast path: no look at the database.
CachedKey(c) ==
    /\ at[c] = "new" /\ pool = "open"
    /\ Cached(key[c])
    /\ Move(c, "admitted", 0)
    /\ UNCHANGED <<Authentication, logs, pool>>

\* The entry expires between `in` and the subscript: a KeyError nobody handles.
KeyExpiresUnderRead(c) ==
    /\ at[c] = "new" /\ pool = "open"
    /\ Cached(key[c]) /\ Expired(key[c])
    /\ Move(c, "done", 0)
    /\ UNCHANGED <<Authentication, logs, pool>>

UnknownKey(c) ==
    /\ at[c] = "new" /\ pool = "open"
    /\ Expired(key[c])
    /\ Move(c, "wantLookup", 0)
    /\ UNCHANGED <<Authentication, logs, pool>>

\* acquire(), for the lookup and for a tool's read.
Take(c) ==
    /\ free > 0
    /\ \/ at[c] = "wantLookup" /\ Move(c, "select", 1)
       \/ at[c] = "wantRead" /\ Move(c, "read", 1)
    /\ UNCHANGED <<Authentication, logs, pool>>

SelectFinds(c) ==
    /\ at[c] = "select" /\ key[c] \in active
    /\ Move(c, "update", 0)
    /\ seen' = [seen EXCEPT ![c] = clock]
    /\ UNCHANGED <<Elsewhere, cache, logs>>

\* 401.
SelectFindsNone(c) ==
    /\ at[c] = "select" /\ key[c] \notin active
    /\ Move(c, "done", -1)
    /\ UNCHANGED <<Authentication, logs, pool>>

\* Mutant: the connection of a failed lookup is not given back.
LookupFailsHolding(c) ==
    /\ at[c] \in {"select", "update"}
    /\ Move(c, "done", 0)
    /\ UNCHANGED <<Authentication, logs, pool>>

\* 503, for any exception; an UPDATE that failed refuses the active key, too.
LookupFails(c) ==
    /\ at[c] \in {"select", "update"}
    /\ Move(c, "done", -1)
    /\ UNCHANGED <<Authentication, logs, pool>>

\* Mutant: the cache never evicts.
StoredUnbounded(k) == cache' = [cache EXCEPT ![k] = clock]

\* TTLCache.__setitem__: expired entries go first, then, when full, another.
Stored(k) ==
    LET kept == {j \in Keys \ {k} : cache[j] # Absent /\ clock <= cache[j] + Ttl}
    IN  \E keep \in SUBSET kept :
            /\ Cardinality(keep) < CacheSize
            /\ cache' = [j \in Keys |-> IF j = k THEN clock
                                        ELSE IF j \in keep THEN cache[j] ELSE Absent]

\* The key is stored after the connection is back: others looked it up meanwhile.
Admit(c) ==
    /\ at[c] = "update"
    /\ Move(c, "admitted", -1)
    /\ Stored(key[c])
    /\ UNCHANGED <<Elsewhere, seen, logs>>

-----------------------------------------------------------------------------
\* A tool's wrapper: the rate limit first, outside the timeout.
RateLimited(c) ==
    /\ at[c] = "admitted"
    /\ Move(c, "done", 0)
    /\ UNCHANGED <<Authentication, logs, pool>>

StartTool(c) ==
    /\ at[c] = "admitted"
    /\ Move(c, "tool", 0)
    /\ UNCHANGED <<Authentication, logs, pool>>

WantRead(c) ==
    /\ at[c] = "tool"
    /\ Move(c, "wantRead", 0)
    /\ UNCHANGED <<Authentication, logs, pool>>

ReadEnds(c) ==
    /\ at[c] = "read"
    /\ Move(c, "tool", -1)
    /\ UNCHANGED <<Authentication, logs, pool>>

\* Mutant: a cancelled read keeps its connection.
TimeoutKeeps(c) ==
    /\ at[c] \in InTool
    /\ Move(c, "done", 0)
    /\ UNCHANGED <<Authentication, logs, pool>>

\* wait_for cancels the tool wherever it awaits, and the wrapper raises: what
\* it held returns to the pool, and no log task is made.  An exception of the
\* tool's own ends it the same way.
Timeout(c) ==
    /\ at[c] \in InTool
    /\ Move(c, "done", -Held(c))
    /\ UNCHANGED <<Authentication, logs, pool>>

FinishTool(c) ==
    /\ at[c] = "tool"
    /\ Move(c, "done", 0)
    /\ logs' = [logs EXCEPT !.waiting = @ + 1]
    /\ UNCHANGED <<Authentication, pool>>

-----------------------------------------------------------------------------
\* _fire_log, on a connection of its own, after the reply or beside it.
LogTakes ==
    /\ logs.waiting > 0 /\ free > 0 /\ pool # "closed"
    /\ free' = free - 1
    /\ logs' = [waiting |-> logs.waiting - 1, holding |-> logs.holding + 1]
    /\ UNCHANGED <<Authentication, at, pool>>

\* Mutant: a failed insert keeps the connection.
LogEndsHolding ==
    /\ logs.holding > 0
    /\ logs' = [logs EXCEPT !.holding = @ - 1]
    /\ UNCHANGED <<Authentication, at, free, pool>>

\* log_invocation returns whether its insert worked or failed.
LogEnds ==
    /\ logs.holding > 0
    /\ free' = free + 1
    /\ logs' = [logs EXCEPT !.holding = @ - 1]
    /\ UNCHANGED <<Authentication, at, pool>>

\* A pool that closes or is gone refuses: the task warns and ends.
LogRefused ==
    /\ logs.waiting > 0 /\ pool # "open"
    /\ logs' = [logs EXCEPT !.waiting = @ - 1]
    /\ UNCHANGED <<Authentication, at, free, pool>>

\* The lifespan ends when no request is served any more; log tasks may run.
ClosePool ==
    /\ pool = "open"
    /\ \A c \in Calls : at[c] \in Outside
    /\ pool' = "closing"
    /\ UNCHANGED <<Authentication, at, free, logs>>

\* pool.close() waits for every connection that is out.
PoolClosed ==
    /\ pool = "closing"
    /\ Holders = {} /\ logs.holding = 0
    /\ free = PoolSize
    /\ pool' = "closed"
    /\ UNCHANGED <<Authentication, at, free, logs>>

-----------------------------------------------------------------------------
\* An operator switches a key off or on again in api_keys.
SetActive(k) ==
    /\ active' = IF k \in active THEN active \ {k} ELSE active \cup {k}
    /\ lastActive' = [lastActive EXCEPT ![k] = clock]
    /\ UNCHANGED <<clock, cache, at, key, seen, free, logs, pool>>

\* command_timeout ends a lookup's statements, so time waits for them.
Tick ==
    /\ clock < MaxClock
    /\ \A c \in Calls : at[c] = "update" => clock < seen[c] + LookupLimit
    /\ clock' = clock + 1
    /\ lastActive' = [k \in Keys |-> IF k \in active THEN clock + 1 ELSE lastActive[k]]
    /\ UNCHANGED <<active, cache, at, key, seen, free, logs, pool>>

LookUp(c) == SelectFinds(c) \/ SelectFindsNone(c) \/ LookupFails(c) \/ Admit(c)

Arrive(c) == CachedKey(c) \/ KeyExpiresUnderRead(c) \/ UnknownKey(c)

Next ==
    \/ \E c \in Calls :
        \/ Arrive(c) \/ Take(c) \/ LookUp(c)
        \/ RateLimited(c) \/ StartTool(c) \/ WantRead(c) \/ ReadEnds(c)
        \/ Timeout(c) \/ FinishTool(c)
    \/ LogTakes \/ LogEnds \/ LogRefused \/ ClosePool \/ PoolClosed
    \/ \E k \in Keys : SetActive(k)
    \/ Tick

\* Queues are served, statements end or time out, timers fire.  A tool may
\* read for ever, but for its timeout.
Fairness ==
    /\ \A c \in Calls :
        /\ WF_vars(Take(c)) /\ WF_vars(LookUp(c))
        /\ WF_vars(RateLimited(c) \/ StartTool(c))
        /\ WF_vars(Timeout(c))
    /\ WF_vars(LogTakes) /\ WF_vars(LogEnds) /\ WF_vars(PoolClosed)

Spec == Init /\ [][Next]_vars /\ Fairness

-----------------------------------------------------------------------------
\* Whichever way a lookup, a read or a log task ends, by its reply, an error
\* or the cancellation of the timeout, its connection is back in the pool once.
ConnectionsConserved == free + Cardinality(Holders) + logs.holding = PoolSize

\* A key that was switched off is let in for the cache's five minutes at most,
\* and the duration of a lookup that had found it active before: not for ever
\* by being used again and again, and not by a late store.
DeactivatedStops ==
    [][\A c \in Calls : at[c] # "admitted" /\ at'[c] = "admitted" =>
            clock <= lastActive[key[c]] + Ttl + LookupLimit]_vars

\* Nothing bounds the wait for a connection, and yet every request is answered.
EveryCallEnds == \A c \in Calls : at[c] # "new" ~> at[c] = "done"

\* The shutdown waits for the log tasks' connections, and does end.
ShutdownEnds == pool = "closing" ~> pool = "closed"
=============================================================================
