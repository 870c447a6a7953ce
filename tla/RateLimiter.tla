---------------------------- MODULE RateLimiter ----------------------------
(***************************************************************************)
(* mcp_server/rate_limiter.py, for one (caller, tool) key; main.py checks  *)
(* it before every tool call, always under the caller "anonymous".  Each   *)
(* server instance decides on its first call whether Redis counts for it   *)
(* or its own deque does; calls that arrive while the first ping is        *)
(* awaited decide for themselves.                                          *)
(***************************************************************************)
EXTENDS Naturals, Sequences, FiniteSets

CONSTANTS
    Instances,    \* server processes
    Limit,        \* rate_limit_per_caller_per_minute
    Window,       \* _WINDOW_SECONDS, in ticks
    MaxInFlight,  \* bound: checks an instance has awaiting Redis
    MaxCalls      \* bound: checks in a counter

ASSUME RateLimiterAssumption ==
    /\ Limit \in Nat /\ Window \in Nat \ {0}
    /\ MaxInFlight \in Nat /\ MaxCalls \in Nat

VARIABLES
    available,  \* _redis_available of each instance
    client,     \* whether its _redis is set
    pinging,    \* its checks awaiting the first ping
    sending,    \* its checks awaiting INCR and EXPIRE
    deque,      \* its _in_memory_counts[key], with the verdict on each check
    hits,       \* Redis: the counter,
    expires,    \*        ticks until it expires,
    recent,     \*        and, for the properties, the checks it counted
    verdict     \* the latest answer of check_rate_limit

vars == <<available, client, pinging, sending, deque, hits, expires, recent, verdict>>

-----------------------------------------------------------------------------
\* `how`: allowed or refused by the count, or let through without one.
Check == [age : 0..Window + 1, how : {"allowed", "refused", "unchecked"}]

TypeOK ==
    /\ available \in [Instances -> {"unknown", "yes", "no"}]
    /\ client \in [Instances -> BOOLEAN]
    /\ pinging \in [Instances -> 0..MaxInFlight]
    /\ sending \in [Instances -> 0..MaxInFlight]
    /\ deque \in [Instances -> Seq(Check)]
    /\ hits \in 0..MaxCalls
    /\ expires \in 0..Window
    /\ recent \in Seq(Check)
    /\ verdict \in [by : {"nobody", "memory", "redis"}, allowed : BOOLEAN,
                    count : Nat, calls : Nat]

\* Without a REDIS_URL the first call settles for memory, which is all it does.
Init ==
    /\ \E first \in {"unknown", "no"} : available = [i \in Instances |-> first]
    /\ client = [i \in Instances |-> FALSE]
    /\ pinging = [i \in Instances |-> 0]
    /\ sending = [i \in Instances |-> 0]
    /\ deque = [i \in Instances |-> <<>>]
    /\ hits = 0
    /\ expires = 0
    /\ recent = <<>>
    /\ verdict = [by |-> "nobody", allowed |-> TRUE, count |-> 0, calls |-> 0]

-----------------------------------------------------------------------------
InWindow(checks) == {n \in DOMAIN checks : checks[n].age <= Window}

Verdict(count) == IF count <= Limit THEN "allowed" ELSE "refused"

\* Mutant: the pruning compares with <=, and drops what is still in the window.
PrunedTooMuch(checks) == SelectSeq(checks, LAMBDA c : c.age < Window)

\* Time stamps older than the window are popped from the left, where the
\* oldest are.
Pruned(checks) ==
    LET old == {n \in DOMAIN checks : \A m \in 1..n : checks[m].age > Window}
    IN  SubSeq(checks, Cardinality(old) + 1, Len(checks))

\* _check_in_memory.
CheckInMemory(i) ==
    LET kept  == Pruned(deque[i])
        count == Len(kept) + 1
        after == Append(kept, [age |-> 0, how |-> Verdict(count)])
    IN  /\ Len(kept) < MaxCalls
        /\ deque' = [deque EXCEPT ![i] = after]
        /\ verdict' = [by |-> "memory", allowed |-> count <= Limit, count |-> count,
                       calls |-> Cardinality(InWindow(deque[i])) + 1]
        /\ UNCHANGED <<hits, expires, recent>>

\* Mutant: the expiry is extended by a window, not set to one.
CountExtends(how) ==
    /\ hits < MaxCalls
    /\ hits' = hits + 1
    /\ expires' = expires + Window
    /\ recent' = Append(recent, [age |-> 0, how |-> how])

\* The pipeline runs at Redis: every call, refused ones too, renews the expiry.
Count(how) ==
    /\ hits < MaxCalls
    /\ hits' = hits + 1
    /\ expires' = Window
    /\ recent' = Append(recent, [age |-> 0, how |-> how])

-----------------------------------------------------------------------------
\* The first calls of an instance make a client, and ping.
FirstCheck(i) ==
    /\ available[i] = "unknown"
    /\ pinging[i] + sending[i] < MaxInFlight
    /\ client' = [client EXCEPT ![i] = TRUE]
    /\ pinging' = [pinging EXCEPT ![i] = @ + 1]
    /\ UNCHANGED <<available, sending, deque, hits, expires, recent, verdict>>

\* Another call's failed ping may have dropped the client meanwhile.
PingAnswers(i) ==
    /\ pinging[i] > 0
    /\ pinging' = [pinging EXCEPT ![i] = @ - 1]
    /\ available' = [available EXCEPT ![i] = "yes"]
    /\ IF client[i]
       THEN /\ sending' = [sending EXCEPT ![i] = @ + 1]
            /\ UNCHANGED <<deque, hits, expires, recent, verdict>>
       ELSE CheckInMemory(i) /\ UNCHANGED sending
    /\ UNCHANGED client

\* Redis is never tried again.
PingFails(i) ==
    /\ pinging[i] > 0
    /\ pinging' = [pinging EXCEPT ![i] = @ - 1]
    /\ available' = [available EXCEPT ![i] = "no"]
    /\ client' = [client EXCEPT ![i] = FALSE]
    /\ CheckInMemory(i)
    /\ UNCHANGED sending

LaterCheck(i) ==
    /\ available[i] # "unknown"
    /\ pinging[i] + sending[i] < MaxInFlight
    /\ IF available[i] = "yes" /\ client[i]
       THEN /\ sending' = [sending EXCEPT ![i] = @ + 1]
            /\ UNCHANGED <<deque, hits, expires, recent, verdict>>
       ELSE CheckInMemory(i) /\ UNCHANGED sending
    /\ UNCHANGED <<available, client, pinging>>

\* _check_redis.
CheckRedis(i) ==
    /\ sending[i] > 0
    /\ sending' = [sending EXCEPT ![i] = @ - 1]
    /\ Count(Verdict(hits + 1))
    /\ verdict' = [by |-> "redis", allowed |-> hits + 1 <= Limit, count |-> hits + 1,
                   calls |-> Cardinality(InWindow(recent'))]
    /\ UNCHANGED <<available, client, pinging, deque>>

\* An error or a timeout lets the call through; Redis may have counted it.
RedisFails(i) ==
    /\ sending[i] > 0
    /\ sending' = [sending EXCEPT ![i] = @ - 1]
    /\ Count("unchecked") \/ UNCHANGED <<hits, expires, recent>>
    /\ verdict' = [by |-> "nobody", allowed |-> TRUE, count |-> 0, calls |-> 0]
    /\ UNCHANGED <<available, client, pinging, deque>>

Older(checks) == [n \in DOMAIN checks |->
                    [checks[n] EXCEPT !.age = IF @ <= Window THEN @ + 1 ELSE @]]

\* Mutant: the counter goes one tick early.
TickExpiresEarly ==
    /\ deque' = [i \in Instances |-> Older(deque[i])]
    /\ recent' = Pruned(Older(recent))
    /\ expires' = IF expires > 0 THEN expires - 1 ELSE 0
    /\ hits' = IF expires <= 2 THEN 0 ELSE hits
    /\ UNCHANGED <<available, client, pinging, sending, verdict>>

Tick ==
    /\ deque' = [i \in Instances |-> Older(deque[i])]
    /\ recent' = Pruned(Older(recent))
    /\ expires' = IF expires > 0 THEN expires - 1 ELSE 0
    /\ hits' = IF expires <= 1 THEN 0 ELSE hits
    /\ UNCHANGED <<available, client, pinging, sending, verdict>>

Next ==
    \/ \E i \in Instances :
        \/ FirstCheck(i) \/ PingAnswers(i) \/ PingFails(i) \/ LaterCheck(i)
        \/ CheckRedis(i) \/ RedisFails(i)
    \/ Tick

Spec == Init /\ [][Next]_vars

-----------------------------------------------------------------------------
\* Nobody allows more than the limit in a window: not a deque, and not Redis
\* for all instances that count there together.
AllowedWithinLimit ==
    \A checks \in {recent} \cup {deque[i] : i \in Instances} :
        Cardinality({n \in DOMAIN checks :
            checks[n].age < Window /\ checks[n].how = "allowed"}) <= Limit

\* The deque reports the calls of the last window, no more and no less.
MemoryCountsTheWindow == verdict.by = "memory" => verdict.count = verdict.calls

\* "Rate limit exceeded: {count} calls to '{tool_name}' in the last 60 seconds"
\* (main.py:69): who is refused made that many calls in the window.
RefusalCountsTheWindow == ~verdict.allowed => verdict.count <= verdict.calls
=============================================================================
