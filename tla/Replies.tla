------------------------------ MODULE Replies ------------------------------
(***************************************************************************)
(* What the fourteen tools (mcp_server/tools/) put into one reply while    *)
(* BlueGreen publishes, withdraws and restores releases.  Every statement  *)
(* of a tool commits on its own and a search runs after the connection was *)
(* given back, so a reply of several parts may straddle a cutover.         *)
(*                                                                         *)
(* A tool asks for up to three topics: what its first statement looks for, *)
(* what its second one does, and chunks of the index.  Which runs have     *)
(* them is anybody's choice.  Wording, ordering and row limits are left    *)
(* out; how run_rag chooses chunks is in Retrieval, its cache in RagCache: *)
(* here the cache is what may answer instead of the index.                 *)
(***************************************************************************)
EXTENDS Naturals, TLC

CONSTANTS
    Calls,      \* requests, each made once
    Runs,       \* ingestion runs
    Releases,   \* the sets of runs whose rows a store may hold together
    MaxMoves    \* bound on the steps of cutover, rollback and clean-up

ASSUME RepliesAssumption == MaxMoves \in Nat /\ Releases \subseteq SUBSET Runs

VARIABLES
    index, tables, retained,   \* as in BlueGreen
    moves,                     \* how often they moved
    has,                       \* the topics each run's rows hold
    cache,                     \* the index rows behind a reply in _rag_cache
    call                       \* tool, progress, reply; `seen` is a history

World == INSTANCE BlueGreen

vars == <<index, tables, retained, moves, has, cache, call>>

-----------------------------------------------------------------------------
Topics == {"first", "second", "chunks"}
Contents == {World!Absent}
            \cup {[there |-> TRUE, rows |-> R] : R \in Releases}
None == [cached |-> FALSE, rows |-> {}]
Moment == [tables : SUBSET Runs, index : SUBSET Runs]
Now == [tables |-> tables.rows, index |-> index.rows]

\* Tools that read once and reply, that go on only if the first statement
\* found something, and that end with run_rag.  niche_toolkit searches in
\* mode "full" only, which is a tool of its own here.
ReadOnce == {"accommodation_standards", "financial_concessions", "tax_rate",
             "latest_arrivals_report", "annual_report", "niche_categories",
             "niche_toolkit"}
Registration == {"registration_requirements", "registration_checklist"}
SearchOnly == {"strategic_plan", "tourism_act_provisions",
               "search_sltda_resources"}
Tools == ReadOnce \cup Registration \cup SearchOnly
         \cup {"tdl_information", "niche_toolkit_full", "investment_process"}

Idle == [tool |-> "none", at |-> "new", holds |-> {}, status |-> "none",
         seen |-> {}]

TypeOK ==
    /\ index \in Contents /\ tables \in Contents /\ retained \in Contents
    /\ moves \in 0..MaxMoves
    /\ has \in [Runs -> SUBSET Topics]
    /\ cache \in [cached : BOOLEAN, rows : SUBSET Runs]
    /\ call \in [Calls -> [tool : Tools \cup {"none"},
                           at : {"new", "first", "second", "search", "done"},
                           holds : SUBSET Topics,
                           status : {"none", "success", "not_found", "error"},
                           seen : SUBSET Moment]]

Init ==
    /\ index \in Contents /\ tables \in Contents /\ retained \in Contents
    /\ World!Init
    /\ moves = 0
    /\ has \in [Runs -> SUBSET Topics]
    /\ cache = None
    /\ call = [c \in Calls |-> Idle]

-----------------------------------------------------------------------------
(* The stores move *)

Move ==
    /\ moves < MaxMoves
    /\ moves' = moves + 1
    /\ index' \in Contents /\ tables' \in Contents /\ retained' \in Contents
    /\ World!Next
    /\ call' = [c \in Calls |->
                  IF call[c].at \in {"new", "done"} THEN call[c]
                  ELSE [call[c] EXCEPT !.seen = @ \cup {Now'}]]
    /\ UNCHANGED <<has, cache>>

\* The entry's ttl, or an eviction.
CacheForgets ==
    /\ cache.cached
    /\ cache' = None
    /\ UNCHANGED <<index, tables, retained, moves, has, call>>

-----------------------------------------------------------------------------
(* The tools *)

Unmoved == UNCHANGED <<index, tables, retained, moves, has>>

In(topic, rows) == \E r \in rows : topic \in has[r]
Found(topic, rows) == {t \in {topic} : In(t, rows)}

At(c, tools, place) == call[c].tool \in tools /\ call[c].at = place

\* The call has these topics and goes on.
GoOn(c, found, place) ==
    call' = [call EXCEPT ![c].holds = @ \cup found, ![c].at = place]

\* Mutant: the word the health check uses.
StatusOk(holds) == IF holds = {} THEN "not_found" ELSE "ok"

Status(holds) == IF holds = {} THEN "not_found" ELSE "success"

Reply(c, found, status) ==
    call' = [call EXCEPT ![c].holds = @ \cup found, ![c].at = "done",
                         ![c].status = status]

Start(c, tool) ==
    /\ call[c].at = "new"
    /\ call' = [call EXCEPT ![c].tool = tool, ![c].seen = {Now},
                ![c].at = IF tool \in SearchOnly THEN "search" ELSE "first"]
    /\ UNCHANGED cache /\ Unmoved

\* validate_tool_inputs raises on a missing or an overlong parameter,
\* assert_literal on an unknown value: before anything is read.
Rejected(c, tool) ==
    /\ call[c].at = "new"
    /\ call' = [call EXCEPT ![c] = [Idle EXCEPT !.tool = tool, !.at = "done",
                                                !.status = "error"]]
    /\ UNCHANGED cache /\ Unmoved

\* One statement, and its rows or not_found_envelope.
ReadsOnce(c, tool) ==
    /\ At(c, {tool}, "first")
    /\ LET found == Found("first", tables.rows)
       IN  Reply(c, found, Status(found))
    /\ UNCHANGED cache /\ Unmoved

AccommodationStandards(c) == ReadsOnce(c, "accommodation_standards")
FinancialConcessions(c)   == ReadsOnce(c, "financial_concessions")
TaxRate(c)                == ReadsOnce(c, "tax_rate")
LatestArrivals(c)         == ReadsOnce(c, "latest_arrivals_report")
AnnualReport(c)           == ReadsOnce(c, "annual_report")
NicheCategories(c)        == ReadsOnce(c, "niche_categories")
NicheToolkit(c)           == ReadsOnce(c, "niche_toolkit")

\* A first statement without which there is nothing more to do.
ReadsFirst(c, tools, place) ==
    /\ At(c, tools, "first")
    /\ LET found == Found("first", tables.rows)
       IN  IF found = {} THEN Reply(c, {}, "not_found")
           ELSE GoOn(c, found, place)
    /\ UNCHANGED cache /\ Unmoved

\* Mutant: no early return when the category is unknown.
CategoryUnchecked(c) ==
    /\ At(c, {"registration_requirements"}, "first")
    /\ GoOn(c, Found("first", tables.rows), "second")
    /\ UNCHANGED cache /\ Unmoved

ReadCategory(c) == ReadsFirst(c, {"registration_requirements"}, "second")
CategoryExists(c) == ReadsFirst(c, {"registration_checklist"}, "second")
ReadToolkit(c) == ReadsFirst(c, {"niche_toolkit_full"}, "search")

\* Mutant: the steps of the table kept for a rollback.
OldSteps(c) ==
    /\ At(c, {"registration_requirements"}, "second")
    /\ Reply(c, Found("second", retained.rows), "success")
    /\ UNCHANGED cache /\ Unmoved

\* The steps, possibly none of them: a success all the same.
ReadSteps(c) ==
    /\ At(c, {"registration_requirements"}, "second")
    /\ Reply(c, Found("second", tables.rows), "success")
    /\ UNCHANGED cache /\ Unmoved

ReadItems(c) ==
    /\ At(c, {"registration_checklist"}, "second")
    /\ Reply(c, Found("second", tables.rows), "success")
    /\ UNCHANGED cache /\ Unmoved

\* Levies and forms are read whatever the other gives.
ReadLevies(c) ==
    /\ At(c, {"tdl_information"}, "first")
    /\ GoOn(c, Found("first", tables.rows), "second")
    /\ UNCHANGED cache /\ Unmoved

ReadForms(c) ==
    /\ At(c, {"tdl_information"}, "second")
    /\ LET found == Found("second", tables.rows)
       IN  Reply(c, found, Status(call[c].holds \cup found))
    /\ UNCHANGED cache /\ Unmoved

\* Steps and forms on one connection, which is given back before run_rag.
ReadInvestSteps(c) ==
    /\ At(c, {"investment_process"}, "first")
    /\ GoOn(c, Found("first", tables.rows), "second")
    /\ UNCHANGED cache /\ Unmoved

ReadInvestForms(c) ==
    /\ At(c, {"investment_process"}, "second")
    /\ GoOn(c, Found("second", tables.rows), "search")
    /\ UNCHANGED cache /\ Unmoved

-----------------------------------------------------------------------------
(* run_rag, and what each tool makes of its result *)

\* From the cache or from the index.  What the cache holds is, for the call,
\* what the index holds at this moment.  (The store comes awaits later:
\* RagCache.)
RunRag(c, tool, AlwaysSucceeds) ==
    /\ At(c, {tool}, "search")
    /\ cache.cached \/ index.there
    /\ LET rows == IF cache.cached THEN cache.rows ELSE index.rows
           found == Found("chunks", rows)
       IN  /\ call' = [call EXCEPT
                ![c].holds = @ \cup found, ![c].at = "done",
                ![c].status = IF AlwaysSucceeds THEN "success" ELSE Status(found),
                ![c].seen = @ \cup {[tables |-> tables.rows, index |-> rows]}]
           /\ cache' = [cached |-> TRUE, rows |-> rows]
    /\ Unmoved

\* Mutant: a result without chunks counts as a success.
EmptySucceeds(c) == RunRag(c, "strategic_plan", TRUE)

StrategicPlan(c)    == RunRag(c, "strategic_plan", FALSE)
ActProvisions(c)    == RunRag(c, "tourism_act_provisions", FALSE)
SearchResources(c)  == RunRag(c, "search_sltda_resources", FALSE)
ToolkitGuidance(c)  == RunRag(c, "niche_toolkit_full", TRUE)
InvestorGuidance(c) == RunRag(c, "investment_process", TRUE)

\* Other clients' searches fill the cache, too.
OthersSearch ==
    /\ ~cache.cached
    /\ index.there
    /\ cache' = [cached |-> TRUE, rows |-> index.rows]
    /\ UNCHANGED <<index, tables, retained, moves, has, call>>

\* No collection behind the alias, an embedding or Qdrant error; or the tool's
\* timeout, at any of its awaits.  Nothing of what was read is returned.
Fails(c) ==
    /\ call[c].at \in {"first", "second", "search"}
    /\ call' = [call EXCEPT ![c].at = "done", ![c].status = "error",
                            ![c].holds = {}]
    /\ UNCHANGED cache /\ Unmoved

-----------------------------------------------------------------------------
Step(c) ==
    \/ \E tool \in Tools : Start(c, tool) \/ Rejected(c, tool)
    \/ AccommodationStandards(c) \/ FinancialConcessions(c) \/ TaxRate(c)
    \/ LatestArrivals(c) \/ AnnualReport(c) \/ NicheCategories(c)
    \/ NicheToolkit(c) \/ ReadToolkit(c)
    \/ ReadCategory(c) \/ ReadSteps(c) \/ CategoryExists(c) \/ ReadItems(c)
    \/ ReadLevies(c) \/ ReadForms(c)
    \/ ReadInvestSteps(c) \/ ReadInvestForms(c)
    \/ StrategicPlan(c) \/ ActProvisions(c) \/ SearchResources(c)
    \/ ToolkitGuidance(c) \/ InvestorGuidance(c)
    \/ Fails(c)

Next == Move \/ CacheForgets \/ OthersSearch \/ \E c \in Calls : Step(c)

Spec == Init /\ [][Next]_vars

-----------------------------------------------------------------------------
(* What a reply says about the stores *)

\* A tool's answer if nothing moves: what the stores hold of what it asks
\* for, unless they hold nothing of what it cannot do without.
Asked(tool) ==
    CASE tool \in ReadOnce -> {"first"}
      [] tool \in Registration -> {"first", "second"}
      [] tool = "tdl_information" -> {"first", "second"}
      [] tool = "niche_toolkit_full" -> {"first", "chunks"}
      [] tool \in SearchOnly -> {"chunks"}
      [] OTHER -> Topics

Needed(tool) ==
    CASE tool \in ReadOnce \cup Registration -> {"first"}
      [] tool = "niche_toolkit_full" -> {"first"}
      [] tool = "tdl_information" -> {"first", "second"}
      [] tool \in SearchOnly -> {"chunks"}
      [] OTHER -> {}

HeldAt(m) == {t \in Topics : In(t, IF t = "chunks" THEN m.index ELSE m.tables)}

Denied(tool, m) == Needed(tool) # {} /\ Needed(tool) \cap HeldAt(m) = {}

Answers(c, m) ==
    IF Denied(call[c].tool, m)
    THEN call[c].status = "not_found" /\ call[c].holds = {}
    ELSE /\ call[c].status = "success"
         /\ call[c].holds = Asked(call[c].tool) \cap HeldAt(m)

Answered(c) == call[c].at = "done" /\ call[c].status # "error"

\* A call during which no store moved, and that got no older search from the
\* cache, gives exactly the answer of the one state it ran in.
QuietCallsAgree ==
    \A c \in Calls : Answered(c) =>
        \A m \in call[c].seen : call[c].seen = {m} => Answers(c, m)

\* A tool of one statement or one search answers for one moment of its call,
\* whatever moves; and what any tool but tdl_information denies was missing
\* at one moment.  (tdl_information may miss the levies of one release and
\* the forms of another, and deny both.)
AnswersAMoment ==
    \A c \in Calls : Answered(c) =>
        /\ call[c].tool \in ReadOnce \cup SearchOnly =>
               \E m \in call[c].seen : Answers(c, m)
        /\ call[c].status = "not_found" /\ call[c].tool # "tdl_information" =>
               \E m \in call[c].seen : Denied(call[c].tool, m)

\* Whatever a reply holds, a store held at some moment of the call or the
\* cache did, and everything it holds was asked for.
PartsWereHeld ==
    \A c \in Calls :
        call[c].holds \subseteq
            Asked(call[c].tool) \cap UNION {HeldAt(m) : m \in call[c].seen}

Symmetry == Permutations(Runs)
=============================================================================
