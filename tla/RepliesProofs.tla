--------------------------- MODULE RepliesProofs ---------------------------
(***************************************************************************)
(* Proofs about Replies.  A call under way has seen the present moment;    *)
(* while it has seen only one, it holds of that moment what it has read so *)
(* far, and a tool that goes on only if its first statement found          *)
(* something holds that.  Nothing here uses what BlueGreen promises: the   *)
(* theorems hold however the stores move.                                  *)
(***************************************************************************)
EXTENDS Replies, TLAPS

\* What a tool has read when it is at this place.
ReadBefore(tool, at) ==
    CASE at = "second" -> {"first"}
      [] at = "search" /\ tool = "niche_toolkit_full" -> {"first"}
      [] at = "search" /\ tool = "investment_process" -> {"first", "second"}
      [] OTHER -> {}

\* The tools that come to this place.
At2 == Registration \cup {"tdl_information", "investment_process"}
At3 == SearchOnly \cup {"niche_toolkit_full", "investment_process"}
Reaches(at) == CASE at = "second" -> At2
                 [] at = "search" -> At3
                 [] OTHER -> Tools \ SearchOnly

\* What holds of a call k when the stores hold `now`.
UnderWay(k) == k.at \in {"first", "second", "search"}

Progress(k, now) ==
    /\ k.at = "new" => k.holds = {}
    /\ UnderWay(k) =>
        /\ now \in k.seen
        /\ k.tool \in Reaches(k.at)
        /\ k.holds \subseteq ReadBefore(k.tool, k.at)
        /\ k.seen = {now} => k.holds = ReadBefore(k.tool, k.at) \cap HeldAt(now)
        /\ k.at # "first" /\ k.tool \in Registration \cup {"niche_toolkit_full"} =>
               "first" \in k.holds

Parts(k) == k.holds \subseteq
                Asked(k.tool) \cap UNION {HeldAt(m) : m \in k.seen}

Agrees(k, m) ==
    IF Denied(k.tool, m)
    THEN k.status = "not_found" /\ k.holds = {}
    ELSE k.status = "success" /\ k.holds = Asked(k.tool) \cap HeldAt(m)

Given(k) == k.at = "done" /\ k.status # "error"

Quiet(k) == Given(k) => \A m \in k.seen : k.seen = {m} => Agrees(k, m)

OneMoment(k) ==
    Given(k) =>
        /\ k.tool \in ReadOnce \cup SearchOnly => \E m \in k.seen : Agrees(k, m)
        /\ k.status = "not_found" /\ k.tool # "tdl_information" =>
               \E m \in k.seen : Denied(k.tool, m)

RecordInv(k, now) == Progress(k, now) /\ Parts(k) /\ Quiet(k) /\ OneMoment(k)

CallInv(c) == RecordInv(call[c], Now)

IInv == TypeOK /\ \A c \in Calls : CallInv(c)

-----------------------------------------------------------------------------
(* The tools and what they ask for *)

LEMMA ToolFacts ==
    /\ \A t \in ReadOnce : /\ Asked(t) = {"first"} /\ Needed(t) = {"first"}
                           /\ t \notin Registration /\ t \notin SearchOnly
                           /\ t # "niche_toolkit_full" /\ t # "tdl_information"
                           /\ t # "investment_process"
    /\ \A t \in Registration :
           /\ Asked(t) = {"first", "second"} /\ Needed(t) = {"first"}
           /\ t \notin ReadOnce /\ t \notin SearchOnly
           /\ t # "niche_toolkit_full" /\ t # "tdl_information"
           /\ t # "investment_process"
    /\ \A t \in SearchOnly : /\ Asked(t) = {"chunks"} /\ Needed(t) = {"chunks"}
                             /\ t \notin ReadOnce /\ t \notin Registration
                             /\ t # "niche_toolkit_full" /\ t # "tdl_information"
                             /\ t # "investment_process"
    /\ Asked("tdl_information") = {"first", "second"}
    /\ Needed("tdl_information") = {"first", "second"}
    /\ Asked("niche_toolkit_full") = {"first", "chunks"}
    /\ Needed("niche_toolkit_full") = {"first"}
    /\ Asked("investment_process") = Topics
    /\ Needed("investment_process") = {}
    /\ Asked("none") = Topics
    /\ \A t \in {"tdl_information", "niche_toolkit_full", "investment_process", "none"} :
           t \notin ReadOnce \cup Registration \cup SearchOnly
BY DEF Asked, Needed, ReadOnce, Registration, SearchOnly

LEMMA PlaceFacts ==
    /\ \A t : ReadBefore(t, "first") = {} /\ ReadBefore(t, "second") = {"first"}
    /\ \A t \in SearchOnly : ReadBefore(t, "search") = {}
    /\ ReadBefore("niche_toolkit_full", "search") = {"first"}
    /\ ReadBefore("investment_process", "search") = {"first", "second"}
    /\ Reaches("first") = Tools \ SearchOnly
    /\ Reaches("second") = At2 /\ Reaches("search") = At3
BY DEF ReadBefore, Reaches, SearchOnly

\* A statement finds what the tables hold now, a search what its moment's
\* index holds.
LEMMA FindsNow ==
    /\ Found("first", tables.rows) = {"first"} \cap HeldAt(Now)
    /\ Found("second", tables.rows) = {"second"} \cap HeldAt(Now)
    /\ \A R : Found("chunks", R) =
                  {"chunks"} \cap HeldAt([tables |-> tables.rows, index |-> R])
    /\ \A R : {"first", "second"} \cap HeldAt([tables |-> tables.rows, index |-> R])
                  = {"first", "second"} \cap HeldAt(Now)
BY DEF Found, HeldAt, Now, Topics

LEMMA HeldIsTopics == \A m : HeldAt(m) \subseteq Topics
BY DEF HeldAt

LEMMA HeldStays ==
    ASSUME UNCHANGED has
    PROVE  \A m : HeldAt(m)' = HeldAt(m)
BY DEF HeldAt, In

-----------------------------------------------------------------------------
(* Types *)

LEMMA NowIsMoment ==
    ASSUME RepliesAssumption, index \in Contents, tables \in Contents
    PROVE  Now \in Moment
BY DEF RepliesAssumption, Contents, World!Absent, Now, Moment

LEMMA InitTypeOK == Init => TypeOK
<1> SUFFICES ASSUME Init PROVE TypeOK
    OBVIOUS
<1>1. MaxMoves \in Nat
    BY RepliesAssumption
<1>2. cache \in [cached : BOOLEAN, rows : SUBSET Runs]
    BY DEF Init, None
<1>3. Idle \in [tool : Tools \cup {"none"},
                at : {"new", "first", "second", "search", "done"},
                holds : SUBSET Topics,
                status : {"none", "success", "not_found", "error"},
                seen : SUBSET Moment]
    BY DEF Idle
<1> QED
    BY <1>1, <1>2, <1>3 DEF Init, TypeOK

\* What a step of a call writes into it.
CallType == [tool : Tools \cup {"none"},
             at : {"new", "first", "second", "search", "done"},
             holds : SUBSET Topics,
             status : {"none", "success", "not_found", "error"},
             seen : SUBSET Moment]

\* The steps, those alike taken together.
LEMMA StepKinds ==
    ASSUME NEW c \in Calls, Step(c)
    PROVE  \/ \E tool \in Tools : Start(c, tool) \/ Rejected(c, tool)
           \/ \E tool \in ReadOnce : ReadsOnce(c, tool)
           \/ ReadsFirst(c, {"registration_requirements"}, "second")
           \/ ReadsFirst(c, {"registration_checklist"}, "second")
           \/ ReadsFirst(c, {"niche_toolkit_full"}, "search")
           \/ ReadSteps(c) \/ ReadItems(c) \/ ReadLevies(c) \/ ReadForms(c)
           \/ ReadInvestSteps(c) \/ ReadInvestForms(c)
           \/ \E tool \in SearchOnly : RunRag(c, tool, FALSE)
           \/ RunRag(c, "niche_toolkit_full", TRUE)
           \/ RunRag(c, "investment_process", TRUE)
           \/ Fails(c)
<1>1. /\ AccommodationStandards(c) \/ FinancialConcessions(c) \/ TaxRate(c)
         \/ LatestArrivals(c) \/ AnnualReport(c) \/ NicheCategories(c)
         \/ NicheToolkit(c) => \E tool \in ReadOnce : ReadsOnce(c, tool)
      /\ StrategicPlan(c) \/ ActProvisions(c) \/ SearchResources(c)
         => \E tool \in SearchOnly : RunRag(c, tool, FALSE)
    BY DEF AccommodationStandards, FinancialConcessions, TaxRate, LatestArrivals,
        AnnualReport, NicheCategories, NicheToolkit, ReadOnce, StrategicPlan,
        ActProvisions, SearchResources, SearchOnly
<1> QED
    BY <1>1, Zenon DEF Step, ReadCategory, CategoryExists, ReadToolkit,
        ToolkitGuidance, InvestorGuidance

LEMMA StepTypeOK ==
    ASSUME TypeOK, NEW c \in Calls, Step(c)
    PROVE  TypeOK'
<1>1. /\ call \in [Calls -> CallType] /\ call[c] \in CallType
      /\ index \in Contents /\ tables \in Contents /\ Now \in Moment
      /\ cache \in [cached : BOOLEAN, rows : SUBSET Runs]
    BY RepliesAssumption, NowIsMoment DEF TypeOK, CallType
<1>2. \A t, R : Found(t, R) \subseteq {t}
    BY DEF Found
<1>3. \A H : Status(H) \in {"success", "not_found"}
    BY DEF Status
<1>4. ASSUME NEW H \in SUBSET Topics, NEW p \in {"first", "second", "search"},
             GoOn(c, H, p)
      PROVE  call' \in [Calls -> CallType]
    BY <1>1, <1>4 DEF GoOn, CallType
<1>5. ASSUME NEW H \in SUBSET Topics, NEW s \in {"success", "not_found", "error"},
             Reply(c, H, s)
      PROVE  call' \in [Calls -> CallType]
    BY <1>1, <1>5 DEF Reply, CallType
<1>6. Found("first", tables.rows) \in SUBSET Topics
      /\ Found("second", tables.rows) \in SUBSET Topics
    BY <1>2 DEF Topics
<1>7. ASSUME NEW tool \in Tools, Start(c, tool) \/ Rejected(c, tool)
      PROVE  call' \in [Calls -> CallType] /\ UNCHANGED cache /\ Unmoved
    <2>1. CASE Start(c, tool)
        BY <1>1, <2>1 DEF Start, CallType
    <2>2. CASE Rejected(c, tool)
        BY <1>1, <2>2 DEF Rejected, Idle, CallType
    <2> QED
        BY <1>7, <2>1, <2>2
<1>8. \A tool : ReadsOnce(c, tool)
        => call' \in [Calls -> CallType] /\ UNCHANGED cache /\ Unmoved
    BY <1>3, <1>5, <1>6 DEF ReadsOnce
<1>9. \A T : \A p \in {"second", "search"} : ReadsFirst(c, T, p)
        => call' \in [Calls -> CallType] /\ UNCHANGED cache /\ Unmoved
    BY <1>4, <1>5, <1>6 DEF ReadsFirst
<1>10. ReadSteps(c) \/ ReadItems(c) \/ ReadForms(c)
        => call' \in [Calls -> CallType] /\ UNCHANGED cache /\ Unmoved
    BY <1>3, <1>5, <1>6 DEF ReadSteps, ReadItems, ReadForms
<1>11. ReadLevies(c) \/ ReadInvestSteps(c) \/ ReadInvestForms(c)
        => call' \in [Calls -> CallType] /\ UNCHANGED cache /\ Unmoved
    BY <1>4, <1>6 DEF ReadLevies, ReadInvestSteps, ReadInvestForms
<1>12. ASSUME Fails(c)
       PROVE  call' \in [Calls -> CallType] /\ UNCHANGED cache /\ Unmoved
    BY <1>1, <1>12 DEF Fails, CallType
<1>13. ASSUME NEW tool, NEW b \in BOOLEAN, RunRag(c, tool, b)
       PROVE  /\ call' \in [Calls -> CallType]
              /\ cache' \in [cached : BOOLEAN, rows : SUBSET Runs]
              /\ Unmoved
    <2> DEFINE rows == IF cache.cached THEN cache.rows ELSE index.rows
               found == Found("chunks", rows)
               status == IF b THEN "success" ELSE Status(found)
    <2>1. rows \in SUBSET Runs /\ tables.rows \in SUBSET Runs
        BY <1>1, RepliesAssumption DEF Contents, World!Absent
    <2>2. [tables |-> tables.rows, index |-> rows] \in Moment
        BY <2>1 DEF Moment
    <2>3. found \in SUBSET Topics
        BY <1>2 DEF Topics
    <2>4. status \in {"success", "not_found"}
        BY <1>3
    <2>5. /\ call' = [call EXCEPT
                ![c].holds = @ \cup found, ![c].at = "done", ![c].status = status,
                ![c].seen = @ \cup {[tables |-> tables.rows, index |-> rows]}]
          /\ cache' = [cached |-> TRUE, rows |-> rows] /\ Unmoved
        BY <1>13 DEF RunRag
    <2> HIDE DEF rows, found, status
    <2> QED
        BY <1>1, <2>1, <2>2, <2>3, <2>4, <2>5 DEF CallType
<1> DEFINE Typed == /\ call' \in [Calls -> CallType]
                    /\ cache' \in [cached : BOOLEAN, rows : SUBSET Runs]
                    /\ Unmoved
<1> SUFFICES Typed
    BY DEF TypeOK, Unmoved, CallType, Contents, World!Absent
<1>14. UNCHANGED cache => cache' \in [cached : BOOLEAN, rows : SUBSET Runs]
    BY <1>1
<1>15. CASE \E tool \in Tools : Start(c, tool) \/ Rejected(c, tool)
    <2> PICK tool \in Tools : Start(c, tool) \/ Rejected(c, tool)
        BY <1>15
    <2> QED
        BY <1>7, <1>14
<1>16. CASE \E tool \in ReadOnce : ReadsOnce(c, tool)
    BY <1>16, <1>8, <1>14
<1>17. CASE \/ ReadsFirst(c, {"registration_requirements"}, "second")
            \/ ReadsFirst(c, {"registration_checklist"}, "second")
            \/ ReadsFirst(c, {"niche_toolkit_full"}, "search")
    BY <1>17, <1>9, <1>14
<1>18. CASE \E tool \in SearchOnly : RunRag(c, tool, FALSE)
    <2> PICK tool \in SearchOnly : RunRag(c, tool, FALSE)
        BY <1>18
    <2> QED
        BY <1>13
<1>19. CASE RunRag(c, "niche_toolkit_full", TRUE) \/ RunRag(c, "investment_process", TRUE)
    BY <1>19, <1>13
<1> QED
    BY <1>10, <1>11, <1>12, <1>14, <1>15, <1>16, <1>17, <1>18, <1>19, StepKinds

LEMMA NextTypeOK == TypeOK /\ [Next]_vars => TypeOK'
<1> SUFFICES ASSUME TypeOK, [Next]_vars PROVE TypeOK'
    OBVIOUS
<1>1. CASE Move
    <2>1. index' \in Contents /\ tables' \in Contents /\ retained' \in Contents
        BY <1>1 DEF Move
    <2>2. Contents' = Contents
        BY DEF Contents, World!Absent
    <2>3. Now' \in Moment
        BY <2>1, RepliesAssumption DEF Contents, World!Absent, Now, Moment
    <2>4. call' \in [Calls -> CallType]
        BY <1>1, <2>3 DEF Move, TypeOK, CallType
    <2>5. moves' \in 0..MaxMoves
        BY <1>1, RepliesAssumption DEF Move, TypeOK, RepliesAssumption
    <2> QED
        BY <1>1, <2>1, <2>2, <2>4, <2>5 DEF Move, TypeOK, CallType
<1>2. CASE CacheForgets
    BY <1>2 DEF CacheForgets, None, TypeOK, Contents, World!Absent
<1>3. CASE OthersSearch
    <2>1. index.rows \in SUBSET Runs
        BY RepliesAssumption DEF TypeOK, Contents, World!Absent
    <2> QED
        BY <1>3, <2>1 DEF OthersSearch, TypeOK, Contents, World!Absent
<1>4. CASE \E c \in Calls : Step(c)
    BY <1>4, StepTypeOK
<1>5. CASE UNCHANGED vars
    BY <1>5 DEF vars, TypeOK, Contents, World!Absent
<1> QED
    BY <1>1, <1>2, <1>3, <1>4, <1>5 DEF Next

\* Replies' variables stay in their types, whatever the tools and the stores do.
THEOREM RepliesTypeCorrect == Spec => []TypeOK
BY InitTypeOK, NextTypeOK, PTL DEF Spec

-----------------------------------------------------------------------------
(* The invariant *)

LEMMA InvGives == IInv => QuietCallsAgree /\ AnswersAMoment /\ PartsWereHeld
BY DEF IInv, CallInv, RecordInv, Parts, Agrees, Given, Quiet, OneMoment,
       QuietCallsAgree, AnswersAMoment, PartsWereHeld, Answers, Answered

LEMMA InitInv == Init => IInv
<1>1. \A now : RecordInv(Idle, now)
    BY DEF Idle, RecordInv, UnderWay, Progress, Parts, Given, Quiet, OneMoment
<1>2. Init => \A c \in Calls : CallInv(c)
    BY <1>1 DEF Init, CallInv
<1> QED
    BY <1>2, InitTypeOK DEF IInv

\* What is known of a call as a value is known of it in the next state.
LEMMA Carries ==
    ASSUME UNCHANGED has, NEW c, NEW k, NEW now,
           call'[c] = k, Now' = now, RecordInv(k, now)
    PROVE  CallInv(c)'
<1>1. \A m : HeldAt(m)' = HeldAt(m)
    BY HeldStays
<1>2. \A t, m : Denied(t, m)' = Denied(t, m)
    BY <1>1 DEF Denied
<1> QED
    BY <1>1, <1>2 DEF CallInv, RecordInv, UnderWay, Progress, Parts, Agrees,
        Given, Quiet, OneMoment

LEMMA StepUnmoved ==
    ASSUME NEW c \in Calls, Step(c)
    PROVE  Now' = Now /\ UNCHANGED has
<1>1. Unmoved
    BY StepKinds DEF Start, Rejected, ReadsOnce, ReadsFirst, ReadSteps,
        ReadItems, ReadLevies, ReadForms, ReadInvestSteps, ReadInvestForms,
        RunRag, Fails
<1> QED
    BY <1>1 DEF Unmoved, Now

LEMMA OthersKeep ==
    ASSUME IInv, NEW d \in Calls, call'[d] = call[d], Now' = Now, UNCHANGED has
    PROVE  CallInv(d)'
<1> PICK k, now : k = call[d] /\ now = Now
    OBVIOUS
<1>1. RecordInv(k, now)
    BY DEF IInv, CallInv
<1> QED
    BY <1>1, Carries

\* A moment more does not change what is known of a call.
LEMMA SeesMore ==
    ASSUME NEW k \in CallType, NEW now, NEW next, RecordInv(k, now), UnderWay(k)
    PROVE  RecordInv([k EXCEPT !.seen = @ \cup {next}], next)
<1> DEFINE j == [k EXCEPT !.seen = @ \cup {next}]
<1>1. /\ j.at = k.at /\ j.tool = k.tool /\ j.holds = k.holds /\ j.status = k.status
      /\ j.seen = k.seen \cup {next}
    BY DEF CallType
<1> HIDE DEF j
<1>2. Progress(j, next)
    <2>1. now \in k.seen
        BY DEF RecordInv, Progress
    <2>2. j.seen = {next} => next = now /\ k.seen = {now}
        BY <1>1, <2>1
    <2> QED
        BY <1>1, <2>2 DEF RecordInv, Progress, UnderWay
<1>3. Parts(j)
    BY <1>1 DEF RecordInv, Parts
<1>4. ~Given(j)
    BY <1>1 DEF UnderWay, Given
<1> QED
    BY <1>2, <1>3, <1>4 DEF RecordInv, Quiet, OneMoment, j

LEMMA MoveInv ==
    ASSUME IInv, Move, NEW c \in Calls
    PROVE  CallInv(c)'
<1>1. UNCHANGED has /\ call \in [Calls -> CallType]
      /\ call' = [d \in Calls |-> IF call[d].at \in {"new", "done"} THEN call[d]
                                  ELSE [call[d] EXCEPT !.seen = @ \cup {Now'}]]
    BY DEF Move, IInv, TypeOK, CallType
<1> PICK k, now, next : k = call[c] /\ now = Now /\ next = Now'
    OBVIOUS
<1>2. k \in CallType /\ RecordInv(k, now)
    BY <1>1 DEF IInv, CallInv
<1>3. CASE k.at \in {"new", "done"}
    <2>1. RecordInv(k, next)
        BY <1>2, <1>3 DEF RecordInv, Progress, UnderWay
    <2> QED
        BY <1>1, <1>3, <2>1, Carries
<1>4. CASE k.at \notin {"new", "done"}
    <2>1. RecordInv([k EXCEPT !.seen = @ \cup {next}], next)
        BY <1>2, <1>4, SeesMore DEF CallType, UnderWay
    <2>2. call'[c] = [k EXCEPT !.seen = @ \cup {next}]
        BY <1>1, <1>4
    <2> QED
        BY <1>1, <2>1, <2>2, Carries
<1> QED
    BY <1>3, <1>4

-----------------------------------------------------------------------------
(* The steps of a call *)

\* What the call that acts is, before and after.
LEMMA ActStart ==
    ASSUME IInv, NEW c \in Calls, NEW tool \in Tools,
           Start(c, tool) \/ Rejected(c, tool), Now' = Now, UNCHANGED has
    PROVE  CallInv(c)'
<1> PICK k, j, now : k = call[c] /\ j = call'[c] /\ now = Now
    OBVIOUS
<1>1. k \in CallType /\ RecordInv(k, now) /\ call \in [Calls -> CallType]
    BY DEF IInv, CallInv, TypeOK, CallType
<1>2. CASE Start(c, tool)
    <2>1. /\ k.at = "new" /\ j.tool = tool /\ j.seen = {now} /\ j.holds = k.holds
          /\ j.at = IF tool \in SearchOnly THEN "search" ELSE "first"
        BY <1>1, <1>2 DEF Start, CallType
    <2>2. j.holds = {}
        BY <1>1, <2>1 DEF RecordInv, Progress
    <2>3. Progress(j, now)
        BY <2>1, <2>2, ToolFacts, PlaceFacts DEF Progress, UnderWay, At3, SearchOnly
    <2>4. RecordInv(j, now)
        BY <2>1, <2>2, <2>3 DEF RecordInv, Parts, Given, Quiet, OneMoment
    <2> QED
        BY <2>4, Carries
<1>3. CASE Rejected(c, tool)
    <2>1. j.at = "done" /\ j.status = "error" /\ j.holds = {}
        BY <1>1, <1>3 DEF Rejected, Idle
    <2>2. RecordInv(j, now)
        BY <2>1 DEF RecordInv, Parts, Given, Quiet, OneMoment, Progress, UnderWay
    <2> QED
        BY <2>2, Carries
<1> QED
    BY <1>2, <1>3

LEMMA ActFails ==
    ASSUME IInv, NEW c \in Calls, Fails(c), Now' = Now, UNCHANGED has
    PROVE  CallInv(c)'
<1> PICK j, now : j = call'[c] /\ now = Now
    OBVIOUS
<1>1. call \in [Calls -> CallType]
    BY DEF IInv, TypeOK, CallType
<1>2. j.at = "done" /\ j.status = "error" /\ j.holds = {}
    BY <1>1 DEF Fails, CallType
<1>3. RecordInv(j, now)
    BY <1>2 DEF RecordInv, Parts, Given, Quiet, OneMoment, Progress, UnderWay
<1> QED
    BY <1>3, Carries

\* A reply or a further statement over what the tables hold now.
LEMMA AfterReply ==
    ASSUME NEW c \in Calls, call \in [Calls -> CallType],
           NEW found, NEW status, Reply(c, found, status)
    PROVE  /\ call'[c].at = "done" /\ call'[c].status = status
           /\ call'[c].holds = call[c].holds \cup found
           /\ call'[c].tool = call[c].tool /\ call'[c].seen = call[c].seen
BY DEF Reply, CallType

LEMMA AfterGoOn ==
    ASSUME NEW c \in Calls, call \in [Calls -> CallType],
           NEW found, NEW place, GoOn(c, found, place)
    PROVE  /\ call'[c].at = place
           /\ call'[c].holds = call[c].holds \cup found
           /\ call'[c].tool = call[c].tool /\ call'[c].seen = call[c].seen
BY DEF GoOn, CallType

\* A tool of one statement.
LEMMA ActReadsOnce ==
    ASSUME IInv, NEW c \in Calls, NEW tool \in ReadOnce, ReadsOnce(c, tool),
           Now' = Now, UNCHANGED has
    PROVE  CallInv(c)'
<1> PICK k, j, now, found : k = call[c] /\ j = call'[c] /\ now = Now
                            /\ found = {"first"} \cap HeldAt(now)
    OBVIOUS
<1>1. k \in CallType /\ RecordInv(k, now) /\ call \in [Calls -> CallType]
    BY DEF IInv, CallInv, TypeOK, CallType
<1>2. k.tool = tool /\ k.at = "first" /\ Reply(c, found, Status(found))
    BY FindsNow DEF ReadsOnce, At
<1>3. /\ j.at = "done" /\ j.status = Status(found) /\ j.holds = k.holds \cup found
      /\ j.tool = tool /\ j.seen = k.seen
    BY <1>1, <1>2, AfterReply
<1>4. k.holds = {} /\ now \in k.seen
    BY <1>1, <1>2, PlaceFacts DEF RecordInv, Progress, UnderWay
<1>5. Agrees(j, now)
    BY <1>3, <1>4, ToolFacts DEF Agrees, Denied, Status
<1>6. j.status = "not_found" => Denied(tool, now)
    BY <1>3, ToolFacts DEF Denied, Status
<1>7. Parts(j)
    BY <1>3, <1>4, ToolFacts DEF Parts
<1>8. RecordInv(j, now)
    BY <1>3, <1>4, <1>5, <1>6, <1>7
    DEF RecordInv, Given, Quiet, OneMoment, Progress, UnderWay
<1> QED
    BY <1>8, Carries

\* A first statement that may end the call.
LEMMA ActReadsFirst ==
    ASSUME IInv, NEW c \in Calls,
           NEW tool \in Registration \cup {"niche_toolkit_full"},
           NEW place \in {"second", "search"},
           ReadsFirst(c, {tool}, place), tool \in Reaches(place),
           ReadBefore(tool, place) = {"first"},
           Now' = Now, UNCHANGED has
    PROVE  CallInv(c)'
<1> PICK k, j, now, found : k = call[c] /\ j = call'[c] /\ now = Now
                            /\ found = {"first"} \cap HeldAt(now)
    OBVIOUS
<1>1. k \in CallType /\ RecordInv(k, now) /\ call \in [Calls -> CallType]
    BY DEF IInv, CallInv, TypeOK, CallType
<1>2. /\ k.tool = tool /\ k.at = "first"
      /\ IF found = {} THEN Reply(c, {}, "not_found") ELSE GoOn(c, found, place)
    BY FindsNow DEF ReadsFirst, At
<1>3. k.holds = {} /\ now \in k.seen
    BY <1>1, <1>2, PlaceFacts DEF RecordInv, Progress, UnderWay
<1>4. /\ tool \notin ReadOnce \cup SearchOnly /\ Needed(tool) = {"first"}
      /\ "first" \in Asked(tool)
    BY ToolFacts
<1>5. CASE found = {}
    <2>1. /\ j.at = "done" /\ j.status = "not_found" /\ j.holds = {}
          /\ j.tool = tool /\ j.seen = k.seen
        BY <1>1, <1>2, <1>3, <1>5, AfterReply
    <2>2. Denied(tool, now)
        BY <1>4, <1>5 DEF Denied
    <2>3. RecordInv(j, now)
        BY <1>3, <1>4, <2>1, <2>2
        DEF RecordInv, Parts, Given, Quiet, OneMoment, Progress, UnderWay, Agrees
    <2> QED
        BY <2>3, Carries
<1>6. CASE found # {}
    <2>1. /\ j.at = place /\ j.holds = found /\ j.tool = tool /\ j.seen = k.seen
        BY <1>1, <1>2, <1>3, <1>6, AfterGoOn
    <2>2. Progress(j, now)
        BY <1>3, <1>6, <2>1 DEF Progress, UnderWay
    <2>3. Parts(j)
        BY <1>3, <1>4, <2>1 DEF Parts
    <2>4. RecordInv(j, now)
        BY <2>1, <2>2, <2>3 DEF RecordInv, Given, Quiet, OneMoment
    <2> QED
        BY <2>4, Carries
<1> QED
    BY <1>5, <1>6

\* The second statement of a registration tool.
LEMMA ActReadsSecond ==
    ASSUME IInv, NEW c \in Calls, NEW tool \in Registration,
           At(c, {tool}, "second"),
           Reply(c, Found("second", tables.rows), "success"),
           Now' = Now, UNCHANGED has
    PROVE  CallInv(c)'
<1> PICK k, j, now, found : k = call[c] /\ j = call'[c] /\ now = Now
                            /\ found = {"second"} \cap HeldAt(now)
    OBVIOUS
<1>1. k \in CallType /\ RecordInv(k, now) /\ call \in [Calls -> CallType]
    BY DEF IInv, CallInv, TypeOK, CallType
<1>2. k.tool = tool /\ k.at = "second" /\ Reply(c, found, "success")
    BY FindsNow DEF At
<1>3. /\ j.at = "done" /\ j.status = "success" /\ j.holds = k.holds \cup found
      /\ j.tool = tool /\ j.seen = k.seen
    BY <1>1, <1>2, AfterReply
<1>4. /\ now \in k.seen /\ k.holds = {"first"}
      /\ k.seen = {now} => {"first"} = {"first"} \cap HeldAt(now)
      /\ Parts(k)
    BY <1>1, <1>2, PlaceFacts DEF RecordInv, Progress, UnderWay
<1>5. /\ tool \notin ReadOnce \cup SearchOnly
      /\ Asked(tool) = {"first", "second"} /\ Needed(tool) = {"first"}
    BY ToolFacts
<1>6. Quiet(j)
    <2>1. SUFFICES ASSUME k.seen = {now} PROVE Agrees(j, now)
        BY <1>3, <1>4 DEF Quiet
    <2> QED
        BY <1>3, <1>4, <1>5, <2>1 DEF Agrees, Denied
<1>7. Parts(j)
    BY <1>2, <1>3, <1>4, <1>5 DEF Parts
<1>8. RecordInv(j, now)
    BY <1>3, <1>5, <1>6, <1>7 DEF RecordInv, Given, OneMoment, Progress, UnderWay
<1> QED
    BY <1>8, Carries

\* A statement after which the call goes on whatever it found.
LEMMA ActGoesOn ==
    ASSUME IInv, NEW c \in Calls,
           NEW tool \in {"tdl_information", "investment_process"},
           NEW at \in {"first", "second"}, NEW topic \in {"first", "second"},
           NEW place \in {"second", "search"},
           At(c, {tool}, at), GoOn(c, Found(topic, tables.rows), place),
           tool \in Reaches(place),
           ReadBefore(tool, place) = ReadBefore(tool, at) \cup {topic},
           Now' = Now, UNCHANGED has
    PROVE  CallInv(c)'
<1> PICK k, j, now, found : k = call[c] /\ j = call'[c] /\ now = Now
                            /\ found = {topic} \cap HeldAt(now)
    OBVIOUS
<1>1. k \in CallType /\ RecordInv(k, now) /\ call \in [Calls -> CallType]
    BY DEF IInv, CallInv, TypeOK, CallType
<1>2. k.tool = tool /\ k.at = at /\ GoOn(c, found, place)
    BY FindsNow DEF At
<1>3. /\ j.at = place /\ j.holds = k.holds \cup found
      /\ j.tool = tool /\ j.seen = k.seen
    BY <1>1, <1>2, AfterGoOn
<1>4. /\ now \in k.seen /\ k.holds \subseteq ReadBefore(tool, at)
      /\ k.seen = {now} => k.holds = ReadBefore(tool, at) \cap HeldAt(now)
      /\ Parts(k)
    BY <1>1, <1>2 DEF RecordInv, Progress, UnderWay
<1>5. topic \in Asked(tool) /\ tool \notin Registration \cup {"niche_toolkit_full"}
    BY ToolFacts DEF Topics
<1>6. Progress(j, now)
    BY <1>3, <1>4, <1>5 DEF Progress, UnderWay
<1>7. Parts(j)
    BY <1>2, <1>3, <1>4, <1>5 DEF Parts
<1>8. RecordInv(j, now)
    BY <1>3, <1>6, <1>7 DEF RecordInv, Given, Quiet, OneMoment
<1> QED
    BY <1>8, Carries

LEMMA ActReadForms ==
    ASSUME IInv, NEW c \in Calls, ReadForms(c), Now' = Now, UNCHANGED has
    PROVE  CallInv(c)'
<1> PICK k, j, now, found : k = call[c] /\ j = call'[c] /\ now = Now
                            /\ found = {"second"} \cap HeldAt(now)
    OBVIOUS
<1>1. k \in CallType /\ RecordInv(k, now) /\ call \in [Calls -> CallType]
    BY DEF IInv, CallInv, TypeOK, CallType
<1>2. /\ k.tool = "tdl_information" /\ k.at = "second"
      /\ Reply(c, found, Status(k.holds \cup found))
    BY FindsNow DEF ReadForms, At
<1>3. /\ j.at = "done" /\ j.status = Status(k.holds \cup found)
      /\ j.holds = k.holds \cup found
      /\ j.tool = "tdl_information" /\ j.seen = k.seen
    BY <1>1, <1>2, AfterReply
<1>4. /\ now \in k.seen /\ k.holds \subseteq {"first"}
      /\ k.seen = {now} => k.holds = {"first"} \cap HeldAt(now)
      /\ Parts(k)
    BY <1>1, <1>2, PlaceFacts DEF RecordInv, Progress, UnderWay
<1>5. /\ "tdl_information" \notin ReadOnce \cup SearchOnly
      /\ Asked("tdl_information") = {"first", "second"}
      /\ Needed("tdl_information") = {"first", "second"}
    BY ToolFacts
<1>6. Quiet(j)
    <2>1. SUFFICES ASSUME k.seen = {now} PROVE Agrees(j, now)
        BY <1>3, <1>4 DEF Quiet
    <2> QED
        BY <1>3, <1>4, <1>5, <2>1 DEF Agrees, Denied, Status
<1>7. Parts(j)
    BY <1>2, <1>3, <1>4, <1>5 DEF Parts
<1>8. RecordInv(j, now)
    BY <1>3, <1>5, <1>6, <1>7 DEF RecordInv, Given, OneMoment, Progress, UnderWay
<1> QED
    BY <1>8, Carries

\* The search that ends a call, over the moment the cache or the index gives.
LEMMA ActRunRag ==
    ASSUME IInv, NEW c \in Calls, NEW always \in BOOLEAN, NEW tool \in At3,
           always => tool \notin SearchOnly, ~always => tool \in SearchOnly,
           RunRag(c, tool, always), Now' = Now, UNCHANGED has
    PROVE  CallInv(c)'
<1> PICK k, j, now, m, found, status :
        /\ k = call[c] /\ j = call'[c] /\ now = Now
        /\ m = [tables |-> tables.rows,
                index |-> IF cache.cached THEN cache.rows ELSE index.rows]
        /\ found = {"chunks"} \cap HeldAt(m)
        /\ status = IF always THEN "success" ELSE Status(found)
    OBVIOUS
<1>1. k \in CallType /\ RecordInv(k, now) /\ call \in [Calls -> CallType]
    BY DEF IInv, CallInv, TypeOK, CallType
<1>2. /\ k.tool = tool /\ k.at = "search"
      /\ call' = [call EXCEPT ![c].holds = @ \cup found, ![c].at = "done",
                              ![c].status = status, ![c].seen = @ \cup {m}]
    BY FindsNow DEF RunRag, At
<1>3. /\ j.at = "done" /\ j.status = status /\ j.holds = k.holds \cup found
      /\ j.tool = tool /\ j.seen = k.seen \cup {m}
    BY <1>1, <1>2 DEF CallType
<1>4. /\ now \in k.seen /\ k.holds \subseteq ReadBefore(tool, "search")
      /\ k.seen = {now} => k.holds = ReadBefore(tool, "search") \cap HeldAt(now)
      /\ tool = "niche_toolkit_full" => "first" \in k.holds
      /\ Parts(k)
    BY <1>1, <1>2 DEF RecordInv, Progress, UnderWay
<1>5. "chunks" \in Asked(tool)
    BY ToolFacts DEF At3, Topics
<1>6. Parts(j)
    <2>1. found \subseteq Asked(k.tool) \cap HeldAt(m) /\ j.tool = k.tool
        BY <1>2, <1>3, <1>5
    <2>2. Parts(k) /\ j.holds = k.holds \cup found /\ j.seen = k.seen \cup {m}
        BY <1>3, <1>4
    <2> SUFFICES ASSUME NEW x \in j.holds
                 PROVE  x \in Asked(j.tool) /\ \E n \in j.seen : x \in HeldAt(n)
        BY DEF Parts
    <2>3. CASE x \in found
        BY <2>1, <2>2, <2>3
    <2>4. CASE x \in k.holds
        BY <2>1, <2>2, <2>4 DEF Parts
    <2> QED
        BY <2>2, <2>3, <2>4
<1>7. CASE always
    <2>1. tool \in {"niche_toolkit_full", "investment_process"} /\ status = "success"
        BY <1>7 DEF At3
    <2>2. tool \notin ReadOnce \cup SearchOnly
        BY <2>1, ToolFacts
    <2>3. Quiet(j)
        <3>1. SUFFICES ASSUME j.seen = {m} PROVE Agrees(j, m)
            BY <1>3 DEF Quiet
        <3>2. m = now /\ k.seen = {now}
            BY <1>3, <1>4, <3>1
        <3>3. CASE tool = "niche_toolkit_full"
            BY <1>3, <1>4, <2>1, <3>2, <3>3, ToolFacts, PlaceFacts DEF Agrees, Denied
        <3>4. CASE tool = "investment_process"
            BY <1>3, <1>4, <2>1, <3>2, <3>4, ToolFacts, PlaceFacts
            DEF Agrees, Denied, Topics
        <3> QED
            BY <2>1, <3>3, <3>4
    <2>4. RecordInv(j, now)
        BY <1>3, <1>6, <2>1, <2>2, <2>3
        DEF RecordInv, Given, OneMoment, Progress, UnderWay
    <2> QED
        BY <2>4, Carries
<1>8. CASE ~always
    <2>1. tool \in SearchOnly /\ status = Status(found)
        BY <1>8
    <2>2. k.holds = {} /\ Asked(tool) = {"chunks"} /\ Needed(tool) = {"chunks"}
        BY <1>4, <2>1, ToolFacts, PlaceFacts
    <2>3. Agrees(j, m)
        BY <1>3, <2>1, <2>2 DEF Agrees, Denied, Status
    <2>4. status = "not_found" => Denied(tool, m)
        BY <2>1, <2>2 DEF Denied, Status
    <2>5. RecordInv(j, now)
        BY <1>3, <1>6, <2>3, <2>4
        DEF RecordInv, Given, Quiet, OneMoment, Progress, UnderWay
    <2> QED
        BY <2>5, Carries
<1> QED
    BY <1>7, <1>8

-----------------------------------------------------------------------------
(* All steps *)

LEMMA StepInv ==
    ASSUME IInv, NEW c \in Calls, Step(c)
    PROVE  CallInv(c)'
<1>1. Now' = Now /\ UNCHANGED has
    BY StepUnmoved
<1>2. CASE \E tool \in Tools : Start(c, tool) \/ Rejected(c, tool)
    BY <1>1, <1>2, ActStart
<1>3. CASE \E tool \in ReadOnce : ReadsOnce(c, tool)
    BY <1>1, <1>3, ActReadsOnce
<1>4. CASE ReadsFirst(c, {"registration_requirements"}, "second")
    BY <1>1, <1>4, ActReadsFirst, PlaceFacts DEF At2, Registration
<1>5. CASE ReadsFirst(c, {"registration_checklist"}, "second")
    BY <1>1, <1>5, ActReadsFirst, PlaceFacts DEF At2, Registration
<1>6. CASE ReadsFirst(c, {"niche_toolkit_full"}, "search")
    BY <1>1, <1>6, ActReadsFirst, PlaceFacts DEF At3
<1>7. CASE ReadSteps(c)
    BY <1>1, <1>7, ActReadsSecond DEF ReadSteps, Registration
<1>8. CASE ReadItems(c)
    BY <1>1, <1>8, ActReadsSecond DEF ReadItems, Registration
<1>9. CASE ReadLevies(c)
    BY <1>1, <1>9, ActGoesOn, PlaceFacts DEF ReadLevies, At2
<1>10. CASE ReadInvestSteps(c)
    BY <1>1, <1>10, ActGoesOn, PlaceFacts DEF ReadInvestSteps, At2
<1>11. CASE ReadInvestForms(c)
    BY <1>1, <1>11, ActGoesOn, PlaceFacts DEF ReadInvestForms, At3
<1>12. CASE ReadForms(c)
    BY <1>1, <1>12, ActReadForms
<1>13. CASE \E tool \in SearchOnly : RunRag(c, tool, FALSE)
    BY <1>1, <1>13, ActRunRag DEF At3
<1>14. CASE RunRag(c, "niche_toolkit_full", TRUE)
    BY <1>1, <1>14, ActRunRag DEF At3, SearchOnly
<1>15. CASE RunRag(c, "investment_process", TRUE)
    BY <1>1, <1>15, ActRunRag DEF At3, SearchOnly
<1>16. CASE Fails(c)
    BY <1>1, <1>16, ActFails
<1> QED
    BY <1>2, <1>3, <1>4, <1>5, <1>6, <1>7, <1>8, <1>9, <1>10, <1>11, <1>12,
       <1>13, <1>14, <1>15, <1>16, StepKinds

\* A step of one call leaves the others as they are.
LEMMA StepOthers ==
    ASSUME TypeOK, NEW c \in Calls, Step(c), NEW d \in Calls, d # c
    PROVE  call'[d] = call[d]
<1>1. call \in [Calls -> CallType]
    BY DEF TypeOK, CallType
<1>2. \A found, place : GoOn(c, found, place) => call'[d] = call[d]
    BY <1>1 DEF GoOn
<1>3. \A found, status : Reply(c, found, status) => call'[d] = call[d]
    BY <1>1 DEF Reply
<1>4. \A tool : Start(c, tool) \/ Rejected(c, tool) => call'[d] = call[d]
    BY <1>1 DEF Start, Rejected
<1>5. \A tool, always : RunRag(c, tool, always) => call'[d] = call[d]
    BY <1>1 DEF RunRag
<1>6. Fails(c) => call'[d] = call[d]
    BY <1>1 DEF Fails
<1>7. \A tool : ReadsOnce(c, tool) => call'[d] = call[d]
    BY <1>3 DEF ReadsOnce
<1>8. \A tools, place : ReadsFirst(c, tools, place) => call'[d] = call[d]
    BY <1>2, <1>3 DEF ReadsFirst
<1>9. (\/ ReadSteps(c) \/ ReadItems(c) \/ ReadLevies(c) \/ ReadForms(c)
       \/ ReadInvestSteps(c) \/ ReadInvestForms(c)) => call'[d] = call[d]
    BY <1>2, <1>3 DEF ReadSteps, ReadItems, ReadLevies, ReadForms,
        ReadInvestSteps, ReadInvestForms
<1>10. (\/ ReadsFirst(c, {"registration_requirements"}, "second")
        \/ ReadsFirst(c, {"registration_checklist"}, "second")
        \/ ReadsFirst(c, {"niche_toolkit_full"}, "search")) => call'[d] = call[d]
    BY <1>8
<1> QED
    BY <1>4, <1>5, <1>6, <1>7, <1>9, <1>10, StepKinds, Zenon

LEMMA NextInv == IInv /\ [Next]_vars => IInv'
<1> SUFFICES ASSUME IInv, [Next]_vars PROVE \A d \in Calls : CallInv(d)'
    BY NextTypeOK DEF IInv
<1> TAKE d \in Calls
<1>1. CASE Move
    BY <1>1, MoveInv
<1>2. CASE CacheForgets \/ OthersSearch \/ UNCHANGED vars
    <2>1. UNCHANGED <<has, call>> /\ Now' = Now
        BY <1>2 DEF CacheForgets, OthersSearch, vars, Now
    <2> QED
        BY <2>1, OthersKeep
<1>3. CASE \E c \in Calls : Step(c)
    <2> PICK c \in Calls : Step(c)
        BY <1>3
    <2>1. CASE d = c
        BY <2>1, StepInv
    <2>2. CASE d # c
        BY <2>2, StepOthers, StepUnmoved, OthersKeep DEF IInv
    <2> QED
        BY <2>1, <2>2
<1> QED
    BY <1>1, <1>2, <1>3 DEF Next

LEMMA Invariant == Spec => []IInv
BY InitInv, NextInv, PTL DEF Spec

\* A call during which nothing moved answers as the one state it ran in does.
THEOREM QuietCallsAreExact == Spec => []QuietCallsAgree
BY Invariant, InvGives, PTL

\* A tool of one statement or one search answers for one moment of its call,
\* and what a tool (but tdl_information) denies was missing at one moment.
THEOREM RepliesAnswerAMoment == Spec => []AnswersAMoment
BY Invariant, InvGives, PTL

\* A reply holds nothing that was not asked for and not there during the call.
THEOREM RepliesHoldWhatWasHeld == Spec => []PartsWereHeld
BY Invariant, InvGives, PTL
=============================================================================
