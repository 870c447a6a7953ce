----------------------------- MODULE Retrieval -----------------------------
(***************************************************************************)
(* run_rag (mcp_server/rag.py) from the question to the reply: which       *)
(* chunks are searched for, which of them survive the two rerankings, what *)
(* of them Gemini is given, and how sure the reply says it is.  The cache  *)
(* around it is in RagCache, the guard of the Gemini call in Synthesis.    *)
(*                                                                         *)
(* A chunk is a record of what the code looks at.  How similar it is to    *)
(* the expanded question is anybody's choice; scores and overlaps are in   *)
(* hundredths.  Of equals the code takes those Qdrant names first, which   *)
(* is any of them.                                                         *)
(***************************************************************************)
EXTENDS Integers, FiniteSets, FiniteSetsExt

CONSTANTS
    Chunks,         \* the index: [doc, at, section, family, overlap, chars, recent]
    Asks,           \* questions: [section, family, topK], "any" for no filter
    Scores,         \* the similarities there are
    MaxTopK,        \* the most chunks run_rag asks for: 7
    Threshold,      \* rag_similarity_threshold
    CoherentDocs,   \* _COHERENCE_DOC_THRESHOLD
    CoherentKeep,   \* chunks kept of the best document
    HybridKeep,     \* _HYBRID_KEEP
    CharLimit,      \* _MAX_CONTEXT_TOKENS * 4
    MinPart,        \* a cut chunk is given only if longer than this
    MaxSentences    \* bound on the sentences of an answer

\* The three best chunks of a document survive the reranking to four.
ASSUME RetrievalAssumption ==
    /\ IsFiniteSet(Chunks)
    /\ \A c \in Chunks : /\ c.doc \in Int /\ c.at \in Nat
                         /\ c.chars \in Nat /\ c.overlap \in 0..100
    /\ \A b, c \in Chunks : b.doc = c.doc /\ b.at = c.at => b = c
    /\ \A a \in Asks : a.topK \in Nat
    /\ MaxTopK \in Nat /\ Threshold \in Int /\ Scores \subseteq 0..100
    /\ CoherentDocs \in Nat /\ CoherentKeep \in Nat \ {0} /\ HybridKeep \in Nat
    /\ CoherentKeep <= HybridKeep
    /\ CharLimit \in Nat /\ MinPart \in Nat /\ MaxSentences \in Nat

VARIABLES
    score,      \* of every chunk, for the question
    ask,        \* the question
    stage,      \* how far run_rag is
    hits,       \* what the search found
    kept,       \* what the rerankings left
    context,    \* what Gemini is given: [chunk, chars]
    reply

vars == <<score, ask, stage, hits, kept, context, reply>>

-----------------------------------------------------------------------------
NoReply == [chunks |-> {}, confidence |-> "none", synthesised |-> FALSE,
            sentences |-> 0, grounded |-> 0]

TypeOK ==
    /\ score \in [Chunks -> Scores]
    /\ ask \in Asks
    /\ stage \in {"search", "cohere", "rerank", "assemble", "synthesise", "done"}
    /\ hits \subseteq Chunks /\ Cardinality(hits) <= MaxTopK
    /\ kept \subseteq hits
    /\ \A part \in context : part.chunk \in kept /\ part.chars \in Nat
    /\ reply.chunks \subseteq kept
    /\ reply.confidence \in {"none", "low", "medium", "high"}

Init ==
    /\ score \in [Chunks -> Scores]
    /\ ask \in Asks
    /\ stage = "search"
    /\ hits = {} /\ kept = {} /\ context = {}
    /\ reply = NoReply

-----------------------------------------------------------------------------
(* The search *)

Condition(key, wanted) == IF wanted = "any" THEN {} ELSE {<<key, wanted>>}

\* The conditions of the question, all of them required.
BaseFilter ==
    [must |-> Condition("section", ask.section) \cup Condition("family", ask.family),
     should |-> {}, must_not |-> {}]

\* Only the optional and the excluded conditions of the other filter are
\* taken over.  Nothing in the index is superseded: upsert_chunks writes FALSE.
SupersededFilter(extra) ==
    [must |-> {<<"superseded", FALSE>>},
     should |-> extra.should, must_not |-> extra.must_not]

Holds(condition, c) ==
    CASE condition[1] = "section" -> c.section = condition[2]
      [] condition[1] = "family" -> c.family = condition[2]
      [] OTHER -> condition[2] = FALSE

Passes(c, filter) ==
    /\ \A condition \in filter.must : Holds(condition, c)
    /\ \A condition \in filter.must_not : ~Holds(condition, c)
    /\ filter.should = {} \/ \E condition \in filter.should : Holds(condition, c)

Least(a, b) == IF a <= b THEN a ELSE b

\* The ways to take the k best of S.
Best(k, S, Value(_)) ==
    {T \in kSubset(Least(k, Cardinality(S)), S) :
        \A c \in T, d \in S \ T : Value(c) >= Value(d)}

Score(c) == score[c]

\* Mutant: the client's top_k is taken as it is.
SearchUncapped ==
    /\ stage = "search"
    /\ LET matches == {c \in Chunks : score[c] >= Threshold}
       IN  hits' \in Best(ask.topK, matches, Score)
    /\ hits' # {}
    /\ stage' = "cohere"
    /\ UNCHANGED <<score, ask, kept, context, reply>>

\* client.search, duplicates removed (points have different ids).
Search ==
    /\ stage = "search"
    /\ LET matches == {c \in Chunks : /\ score[c] >= Threshold
                                      /\ Passes(c, SupersededFilter(BaseFilter))}
       IN  hits' \in Best(Least(ask.topK, MaxTopK), matches, Score)
    /\ IF hits' = {}
       THEN /\ reply' = [NoReply EXCEPT !.confidence = "low"]
            /\ stage' = "done"
       ELSE stage' = "cohere" /\ UNCHANGED reply
    /\ UNCHANGED <<score, ask, kept, context>>

-----------------------------------------------------------------------------
(* The rerankings *)

Docs(S) == {c.doc : c \in S}

\* Mutant: the first chunks of any document that was hit.
CohereAny ==
    /\ stage = "cohere"
    /\ IF Cardinality(Docs(hits)) <= CoherentDocs THEN kept' = hits
       ELSE \E d \in Docs(hits) :
              kept' \in Best(CoherentKeep, {c \in hits : c.doc = d},
                             LAMBDA c : -c.at)
    /\ stage' = "rerank"
    /\ UNCHANGED <<score, ask, hits, context, reply>>

\* _coherence_rerank: hits of many documents are cut down to the first chunks
\* of the best one.
Cohere ==
    /\ stage = "cohere"
    /\ IF Cardinality(Docs(hits)) <= CoherentDocs THEN kept' = hits
       ELSE \E b \in hits :
              /\ \A c \in hits : score[b] >= score[c]
              /\ kept' \in Best(CoherentKeep, {c \in hits : c.doc = b.doc},
                                LAMBDA c : -c.at)
    /\ stage' = "rerank"
    /\ UNCHANGED <<score, ask, hits, context, reply>>

\* 0.8 score + 0.2 overlap + 0.05 for a document of the last thirty days.
Adjusted(c) == 8 * score[c] + 2 * c.overlap + (IF c.recent THEN 50 ELSE 0)

\* _hybrid_rerank
Rerank ==
    /\ stage = "rerank"
    /\ kept' \in Best(HybridKeep, kept, Adjusted)
    /\ stage' = "assemble"
    /\ UNCHANGED <<score, ask, hits, context, reply>>

-----------------------------------------------------------------------------
(* The context *)

Earlier(b, c) == b.doc < c.doc \/ (b.doc = c.doc /\ b.at < c.at)

Chars(S) == MapThenSumSet(LAMBDA c : c.chars, S)

\* Mutant: the chunk that does not fit is given whole.
AssembleWhole ==
    /\ stage = "assemble"
    /\ LET Fits(c) == Chars({b \in kept : Earlier(b, c)}) <= CharLimit
       IN  context' = {[chunk |-> c, chars |-> c.chars] : c \in {d \in kept : Fits(d)}}
    /\ stage' = "synthesise"
    /\ UNCHANGED <<score, ask, hits, kept, reply>>

\* _assemble_context: in document order, whole chunks as long as they fit; the
\* first that does not is cut to what remains, if that is worth it, and ends it.
\* (The separators between parts are not counted, nor are they here.)
Assemble ==
    /\ stage = "assemble"
    /\ LET Upto(c) == {b \in kept : b = c \/ Earlier(b, c)}
           whole == {c \in kept : Chars(Upto(c)) <= CharLimit}
           remaining == CharLimit - Chars(whole)
           cut == {c \in kept \ whole : /\ Upto(c) \ {c} \subseteq whole
                                        /\ remaining > MinPart}
       IN  context' = {[chunk |-> c, chars |-> c.chars] : c \in whole}
                      \cup {[chunk |-> c, chars |-> remaining] : c \in cut}
    /\ stage' = "synthesise"
    /\ UNCHANGED <<score, ask, hits, kept, reply>>

-----------------------------------------------------------------------------
(* The reply *)

TopScore == Max({score[c] : c \in kept})

\* _map_confidence
Confidence(top) ==
    CASE top > 85 -> "high"
      [] top >= 70 /\ top <= 85 -> "medium"
      [] OTHER -> "low"

Replied(confidence, synthesised, n, g) ==
    /\ reply' = [chunks |-> kept, confidence |-> confidence,
                 synthesised |-> synthesised, sentences |-> n, grounded |-> g]
    /\ stage' = "done"
    /\ UNCHANGED <<score, ask, hits, kept, context>>

\* Mutant: the check only adds its note.
GroundedNote(n, g) == Confidence(TopScore)

\* _grounding_check: of n sentences long enough to check, g share four words
\* in a row with a chunk; with less than half the confidence is low.
Grounded(n, g) == IF n > 0 /\ 2 * g < n THEN "low" ELSE Confidence(TopScore)

Answer ==
    /\ stage = "synthesise"
    /\ \E n \in 0..MaxSentences : \E g \in 0..n : Replied(Grounded(n, g), TRUE, n, g)

\* Any exception of _synthesise: the excerpts instead of an answer.
NoAnswer ==
    /\ stage = "synthesise"
    /\ Replied("low", FALSE, 0, 0)

Next == Search \/ Cohere \/ Rerank \/ Assemble \/ Answer \/ NoAnswer

Spec == Init /\ [][Next]_vars

-----------------------------------------------------------------------------
(* What must hold of it *)

\* The context is within the budget, and a kept chunk is missing or cut there
\* only because what comes before it in the documents has used the budget up.
ContextFits ==
    stage \in {"synthesise", "done"} /\ kept # {} =>
        /\ Chars(context) <= CharLimit
        /\ \A c \in kept :
             [chunk |-> c, chars |-> c.chars] \notin context =>
                 Chars({b \in kept : Earlier(b, c)}) + c.chars > CharLimit

\* A hit is not in the reply for a reason: hits came from too many documents
\* and it is not among the first chunks of a best one, or enough chunks in the
\* reply are ranked no lower.
NothingBetterDropped ==
    stage = "done" /\ hits # {} =>
        LET many == Cardinality(Docs(hits)) > CoherentDocs
            best == {c \in hits : \A d \in hits : score[c] >= score[d]}
        IN  \A c \in hits \ reply.chunks :
              IF many
              THEN /\ Docs(reply.chunks) \subseteq Docs(best)
                   /\ Cardinality(Docs(reply.chunks)) = 1
                   /\ c.doc \in Docs(reply.chunks) =>
                        /\ Cardinality(reply.chunks) = Least(CoherentKeep, HybridKeep)
                        /\ \A d \in reply.chunks : d.at < c.at
              ELSE /\ Cardinality(reply.chunks) = HybridKeep
                   /\ \A d \in reply.chunks : Adjusted(d) >= Adjusted(c)

\* "high" is said only of an answer Gemini gave, at least half of which is in
\* the excerpts, and only with an excerpt above 0.85 among those returned;
\* "medium" is not said below 0.70.
ConfidenceEarned ==
    reply.confidence \in {"medium", "high"} =>
        /\ reply.synthesised
        /\ 2 * reply.grounded >= reply.sentences
        /\ \E c \in reply.chunks :
             score[c] >= IF reply.confidence = "high" THEN 86 ELSE 70

\* "Limit to specific SLTDA section" (Production Plan): what a question with a
\* filter is answered from passes the filter.
FilterKept ==
    \A c \in reply.chunks :
        /\ ask.section \in {"any", c.section}
        /\ ask.family \in {"any", c.family}
=============================================================================
