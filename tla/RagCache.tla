------------------------------ MODULE RagCache ------------------------------
(***************************************************************************)
(* rag.run_rag with its response cache, while ingestion runs replace what  *)
(* the index serves.  A search tool looks the query up, searches the index *)
(* and synthesises, with other tools and a cutover in between; whatever it *)
(* replies, an answer, raw excerpts after a failed synthesis, or "Not      *)
(* found", it also caches, for an hour.                                    *)
(*                                                                         *)
(* A reply is abstracted to its kind and the release of the index it was   *)
(* computed from.                                                          *)
(***************************************************************************)
EXTENDS Naturals

CONSTANTS
    Requests,    \* tool calls in progress at once
    Keys,        \* hashes of (query, section_filter, document_type_filter, top_k)
    Ttl,         \* ttl of _rag_cache (3600 s), in ticks
    Timeout,     \* mcp_tool_timeout_seconds, in ticks
    MaxRelease,  \* bound: cutovers in a behaviour
    OneProcess   \* TRUE: the cutover runs in the server's process

ASSUME RagCacheAssumption ==
    /\ Ttl \in Nat \ {0}
    /\ Timeout \in Nat
    /\ MaxRelease \in Nat
    /\ OneProcess \in BOOLEAN

VARIABLES
    release,   \* what the alias serves
    gone,      \* ticks since each release was last served, up to Horizon
    clearing,  \* a cutover has moved the alias and not yet called invalidate_rag_cache
    cleared,   \* the latest release whose cutover called it
    cache,     \* _rag_cache
    request,   \* the run_rag calls in progress
    replied    \* the latest reply, with how long its release was gone

cacheVars == <<release, gone, clearing, cleared, cache, request, replied>>

-----------------------------------------------------------------------------
Releases == 0..MaxRelease
Horizon  == Ttl + Timeout       \* the age at which gone stops counting
Kinds    == {"answer", "excerpts", "notFound"}

Idle  == [at |-> "idle"]
Empty == [kind |-> "none"]
Entry == [kind : Kinds, of : Releases, left : 1..Ttl]

CacheTypeOK ==
    /\ release \in Releases
    /\ gone \in [Releases -> 0..Horizon]
    /\ clearing \in BOOLEAN
    /\ cleared \in Releases
    /\ cache \in [Keys -> {Empty} \cup Entry]
    /\ request \in [Requests -> {Idle}
         \cup [at : {"searching"}, key : Keys, left : 0..Timeout]
         \cup [at : {"synthesising"}, key : Keys, of : Releases, left : 0..Timeout]]
    /\ replied \in {Empty} \cup [kind : Kinds, of : Releases, gone : 0..Horizon]

CacheInit ==
    /\ release = 0
    /\ gone = [v \in Releases |-> 0]
    /\ clearing = FALSE
    /\ cleared = 0
    /\ cache = [k \in Keys |-> Empty]
    /\ request = [r \in Requests |-> Idle]
    /\ replied = Empty

-----------------------------------------------------------------------------
Replies(kind, of) == replied' = [kind |-> kind, of |-> of, gone |-> gone[of]]

\* Mutant: a hit is stored again, which renews its hour.
HitRenews(r, k) ==
    /\ request[r] = Idle
    /\ cache[k] # Empty
    /\ Replies(cache[k].kind, cache[k].of)
    /\ cache' = [cache EXCEPT ![k].left = Ttl]
    /\ UNCHANGED <<release, gone, clearing, cleared, request>>

\* The lookup comes before the first await.
Hit(r, k) ==
    /\ request[r] = Idle
    /\ cache[k] # Empty
    /\ Replies(cache[k].kind, cache[k].of)
    /\ UNCHANGED <<release, gone, clearing, cleared, cache, request>>

Miss(r, k) ==
    /\ request[r] = Idle
    /\ cache[k] = Empty
    /\ request' = [request EXCEPT ![r] = [at |-> "searching", key |-> k, left |-> Timeout]]
    /\ UNCHANGED <<release, gone, clearing, cleared, cache, replied>>

Finish(r, kind, of) ==
    /\ cache' = [cache EXCEPT ![request[r].key] = [kind |-> kind, of |-> of, left |-> Ttl]]
    /\ Replies(kind, of)
    /\ request' = [request EXCEPT ![r] = Idle]

SearchFinds(r) ==
    /\ request[r].at = "searching"
    /\ request' = [request EXCEPT ![r] = [at   |-> "synthesising", key  |-> request[r].key,
                                          of   |-> release,        left |-> request[r].left]]
    /\ UNCHANGED <<release, gone, clearing, cleared, cache, replied>>

SearchFindsNothing(r) ==
    /\ request[r].at = "searching"
    /\ Finish(r, "notFound", release)
    /\ UNCHANGED <<release, gone, clearing, cleared>>

\* Synthesis answers, or fails and the excerpts stand in.
Synthesised(r) ==
    /\ request[r].at = "synthesising"
    /\ \E kind \in {"answer", "excerpts"} : Finish(r, kind, request[r].of)
    /\ UNCHANGED <<release, gone, clearing, cleared>>

\* The search raised, or the tool timed out.
Abandoned(r) ==
    /\ request[r] # Idle
    /\ request' = [request EXCEPT ![r] = Idle]
    /\ UNCHANGED <<release, gone, clearing, cleared, cache, replied>>

-----------------------------------------------------------------------------
\* cutover.execute_cutover, seen from here: the alias moves ...
Publish ==
    /\ release < MaxRelease
    /\ ~clearing
    /\ release' = release + 1
    /\ clearing' = TRUE
    /\ UNCHANGED <<gone, cleared, cache, request, replied>>

\* ... and after "complete" is recorded, invalidate_rag_cache clears the caches
\* of the process it is called in.
Invalidate ==
    /\ clearing
    /\ clearing' = FALSE
    /\ cleared' = release
    /\ cache' = IF OneProcess THEN [k \in Keys |-> Empty] ELSE cache
    /\ UNCHANGED <<release, gone, request, replied>>

\* The table swap failed, or it was execute_rollback: nothing is cleared.
EndsWithoutClearing ==
    /\ clearing
    /\ clearing' = FALSE
    /\ UNCHANGED <<release, gone, cleared, cache, request, replied>>

\* Mutant: expired entries stay (a plain dict with a time stamp, not a TTLCache).
TickKeepsExpired ==
    /\ \A r \in Requests : request[r] # Idle => request[r].left > 0
    /\ gone' = [v \in Releases |-> IF v < release /\ gone[v] < Horizon THEN gone[v] + 1 ELSE gone[v]]
    /\ cache' = [k \in Keys |-> IF cache[k] = Empty \/ cache[k].left = 0 THEN cache[k]
                                ELSE [cache[k] EXCEPT !.left = @ - 1]]
    /\ request' = [r \in Requests |-> IF request[r] = Idle THEN Idle
                                      ELSE [request[r] EXCEPT !.left = @ - 1]]
    /\ UNCHANGED <<release, clearing, cleared, replied>>

\* Time passes.  A request whose timeout is up has ended before.
Tick ==
    /\ \A r \in Requests : request[r] # Idle => request[r].left > 0
    /\ gone' = [v \in Releases |-> IF v < release /\ gone[v] < Horizon THEN gone[v] + 1 ELSE gone[v]]
    /\ cache' = [k \in Keys |-> IF cache[k] = Empty \/ cache[k].left = 1 THEN Empty
                                ELSE [cache[k] EXCEPT !.left = @ - 1]]
    /\ request' = [r \in Requests |-> IF request[r] = Idle THEN Idle
                                      ELSE [request[r] EXCEPT !.left = @ - 1]]
    /\ UNCHANGED <<release, clearing, cleared, replied>>

CacheNext ==
    \/ \E r \in Requests :
        \/ \E k \in Keys : Hit(r, k) \/ Miss(r, k)
        \/ SearchFinds(r) \/ SearchFindsNothing(r) \/ Synthesised(r) \/ Abandoned(r)
    \/ Publish \/ Invalidate \/ EndsWithoutClearing
    \/ Tick

CacheSpec == CacheInit /\ [][CacheNext]_cacheVars

-----------------------------------------------------------------------------
\* No reply is older than the cache's hour plus the tool timeout: that much,
\* and no more, a request that searched just before a cutover can keep the old
\* release alive, even when it refills the cache after the cutover cleared it.
StalenessBounded == replied # Empty => replied.gone < Ttl + Timeout

\* "Results are cached for 1 hour (invalidated on ingestion cutover)"
\* (rag.py:404): no result of an older release is in the cache after a cutover
\* has invalidated it.
InvalidatedOnCutover == \A k \in Keys : cache[k] # Empty => cache[k].of >= cleared
=============================================================================
