------------------------------ MODULE Loading ------------------------------
(***************************************************************************)
(* What one ingestion run loads between its downloads and its cutover:     *)
(* _process_document for every document (pipeline.py), the statements of   *)
(* pg_sync, which commit one by one, then embedding, upsert, the count     *)
(* and the smoke tests.  Cutover has the same run seen from its stores.    *)
(*                                                                         *)
(* The callers' keyword arguments that the functions called do not have    *)
(* are read as those functions declare them, and an output table is known  *)
(* by the name the comparisons in pipeline.py give it.                     *)
(***************************************************************************)
EXTENDS Chunker, FiniteSets

CONSTANTS
    Documents,    \* how many documents changed
    Texts,        \* Texts[d]: what may be extracted from the d-th
    FailOneIn,    \* 1 / _ABORT_THRESHOLD
    BatchSize     \* BATCH_SIZE

ASSUME LoadingAssumption ==
    /\ Documents \in Nat \ {0} /\ FailOneIn \in Nat /\ BatchSize \in Nat \ {0}
    /\ \A d \in 1..Documents : \A t \in Texts[d] :
         IsText(t) /\ t.steps \in Nat

VARIABLES
    text,        \* what was extracted: a text, the table it is for, its key
                 \* there and the number of its steps
    doc,         \* the one being processed
    stage,       \* how far its processing, or the run, is
    documents,   \* documents_staging: documents with a row
    rows,        \* of the other staging tables: [table, key, doc, gazette]
    steps,       \* registration_steps_staging: [key, number, doc]
    loaded,      \* documents _process_document returned for
    chunks,      \* all_chunks; without duplicates once embedding has begun
    failures,    \* parse_failures
    embedded,    \* how many of them have their vector
    points       \* the staging collection

vars == <<text, doc, stage, documents, rows, steps, loaded, chunks,
          failures, embedded, points>>

-----------------------------------------------------------------------------
Docs == 1..Documents
Ended == {"published", "aborted"}
Nothing == [blocks |-> <<>>, strategy |-> "none", tables |-> 0,
            table |-> "none", key |-> "none", steps |-> 0]

\* document_id and chunk_index make the point's id.
Tagged(d, chunk) == [doc |-> d, index |-> chunk.index, table |-> chunk.table,
                     parts |-> chunk.parts]

\* Mutant: by index alone, as the checkpoint counts.
DedupByIndex(all) ==
    LET kept[n \in 0..Len(all)] ==
            IF n = 0 THEN <<>>
            ELSE IF \E j \in 1..(n - 1) : all[j].index = all[n].index THEN kept[n - 1]
            ELSE Append(kept[n - 1], all[n])
    IN  kept[Len(all)]

SamePoint(c, e) == c.doc = e.doc /\ c.index = e.index

\* _dedup_chunks: the first of each (document_id, chunk_index).
Dedup(all) ==
    LET kept[n \in 0..Len(all)] ==
            IF n = 0 THEN <<>>
            ELSE IF \E j \in 1..(n - 1) : SamePoint(all[j], all[n]) THEN kept[n - 1]
            ELSE Append(kept[n - 1], all[n])
    IN  kept[Len(all)]

TypeOK ==
    /\ doc \in 1..(Documents + 1)
    /\ stage \in {"extract", "delete", "insert", "rows", "extend", "start",
                  "embed", "upsert", "smoke"} \cup Ended
    /\ documents \subseteq Docs
    /\ \A r \in rows : r.doc \in documents /\ r.gazette \in 0..Documents
    /\ \A r \in steps : r.doc \in documents /\ r.number \in 1..text[r.doc].steps
    /\ loaded \subseteq documents
    /\ failures + Cardinality(loaded) <= Documents
    /\ embedded \in 0..Len(chunks)
    /\ {p.doc : p \in points} \subseteq documents

Init ==
    /\ text = [d \in Docs |-> Nothing]
    /\ doc = 1 /\ stage = "extract"
    /\ documents = {} /\ rows = {} /\ steps = {}
    /\ loaded = {} /\ chunks = <<>> /\ failures = 0
    /\ embedded = 0 /\ points = {}

-----------------------------------------------------------------------------
(* One document *)

Tables == <<documents, rows, steps>>
Index == <<embedded, points>>

\* The next document, or the end of the loop: too many failures abort the run.
GoTo(d, failed) ==
    /\ doc' = d
    /\ failures' = failed
    /\ stage' = IF d <= Documents THEN "extract"
                ELSE IF failed * FailOneIn > Documents THEN "aborted" ELSE "start"

\* An exception ends the document wherever it is; what was written stays.
Fails ==
    /\ doc \in Docs
    /\ stage \in {"extract", "delete", "insert", "rows", "extend"}
    /\ GoTo(doc + 1, failures + 1)
    /\ UNCHANGED <<text, loaded, chunks, Tables, Index>>

\* Identified, extracted, chunked; then sync_document.  validate_extraction
\* only tells: its result is not looked at.
SyncDocument ==
    /\ doc \in Docs /\ stage = "extract"
    /\ \E t \in Texts[doc] :
         /\ text' = [text EXCEPT ![doc] = t]
         /\ stage' = IF t.table = "steps" THEN "delete" ELSE "rows"
    /\ documents' = documents \cup {doc}
    /\ UNCHANGED <<doc, rows, steps, loaded, chunks, failures, Index>>

\* Mutant: the DELETE has no condition.
DeleteAll ==
    /\ doc \in Docs /\ stage = "delete"
    /\ text[doc].steps >= 2
    /\ steps' = {}
    /\ stage' = "insert"
    /\ UNCHANGED <<text, doc, documents, rows, loaded, chunks, failures, Index>>

\* sync_registration_steps: at least two, or a ValidationError (Fails); those
\* of any document under the same category and action are deleted.
DeleteSteps ==
    /\ doc \in Docs /\ stage = "delete"
    /\ text[doc].steps >= 2
    /\ steps' = {r \in steps : r.key # text[doc].key}
    /\ stage' = "insert"
    /\ UNCHANGED <<text, doc, documents, rows, loaded, chunks, failures, Index>>

\* Mutant: the loop runs once too often.
InsertOneMore ==
    /\ doc \in Docs /\ stage = "insert"
    /\ LET number == Cardinality({r \in steps : r.doc = doc}) + 1
       IN  /\ steps' = steps \cup {[key |-> text[doc].key, number |-> number,
                                    doc |-> doc]}
           /\ stage' = IF number > text[doc].steps THEN "extend" ELSE "insert"
    /\ UNCHANGED <<text, doc, documents, rows, loaded, chunks, failures, Index>>

\* One INSERT per step; the table is UNIQUE on key and number.
InsertStep ==
    /\ doc \in Docs /\ stage = "insert"
    /\ LET number == Cardinality({r \in steps : r.doc = doc}) + 1
       IN  /\ \A r \in steps : ~(r.key = text[doc].key /\ r.number = number)
           /\ steps' = steps \cup {[key |-> text[doc].key, number |-> number,
                                    doc |-> doc]}
           /\ stage' = IF number = text[doc].steps THEN "extend" ELSE "insert"
    /\ UNCHANGED <<text, doc, documents, rows, loaded, chunks, failures, Index>>

Row(d, gazette) ==
    [table |-> text[d].table, key |-> text[d].key, doc |-> d, gazette |-> gazette]

WriteRows(table, written) ==
    /\ doc \in Docs /\ stage = "rows" /\ text[doc].table = table
    /\ rows' = written
    /\ stage' = "extend"
    /\ UNCHANGED <<text, doc, documents, steps, loaded, chunks, failures, Index>>

\* What these delete first are rows of the document, whose id is new: none.
\* Rows that were written before an insert fails stay: Fails after this.
SyncConcessions == WriteRows("concessions", rows \cup {Row(doc, 0)})
SyncSections    == WriteRows("sections", rows \cup {Row(doc, 0)})

\* A toolkit_code is UNIQUE.
SyncToolkit ==
    /\ doc \in Docs /\ stage = "rows"
    /\ \A r \in rows : ~(r.table = "toolkit" /\ r.key = text[doc].key)
    /\ WriteRows("toolkit", rows \cup {Row(doc, 0)})

\* Mutant: the row refers to what the extractor named.
CategoriesUnchecked ==
    /\ doc \in Docs /\ stage = "rows"
    /\ \E gazette \in 0..Documents :
         WriteRows("categories", rows \cup {Row(doc, gazette)})

\* A gazette that has no row in documents_staging is NULL (0); a category that
\* is there already keeps its row, with this gazette.
SyncCategories ==
    /\ doc \in Docs /\ stage = "rows"
    /\ \E named \in 0..Documents :
        LET gazette == IF named \in documents THEN named ELSE 0
            there == {r \in rows : r.table = "categories" /\ r.key = text[doc].key}
        IN  WriteRows("categories",
                IF there = {} THEN rows \cup {Row(doc, gazette)}
                ELSE (rows \ there) \cup {[r EXCEPT !.gazette = gazette] : r \in there})

\* _process_document returns its chunks.
ExtendChunks ==
    /\ doc \in Docs /\ stage = "extend"
    /\ loaded' = loaded \cup {doc}
    /\ chunks' = chunks \o LET new == Chunks(text[doc])
                           IN  [i \in 1..Len(new) |-> Tagged(doc, new[i])]
    /\ GoTo(doc + 1, failures)
    /\ UNCHANGED <<text, Tables, Index>>

-----------------------------------------------------------------------------
(* The index *)

\* embed_chunks, which run_pipeline gives no checkpoint; with nothing to embed
\* it is done.
StartEmbedding ==
    /\ stage = "start"
    /\ chunks' = Dedup(chunks)
    /\ stage' = IF chunks = <<>> THEN "upsert" ELSE "embed"
    /\ UNCHANGED <<text, doc, Tables, loaded, failures, Index>>

\* A batch, after up to five attempts.
EmbedBatch ==
    /\ stage = "embed"
    /\ IF embedded + BatchSize < Len(chunks)
       THEN embedded' = embedded + BatchSize /\ UNCHANGED stage
       ELSE embedded' = Len(chunks) /\ stage' = "upsert"
    /\ UNCHANGED <<text, doc, Tables, loaded, chunks, failures, points>>

\* The fifth failure ends the run: nothing embedded is kept.
EmbedFails ==
    /\ stage = "embed"
    /\ stage' = "aborted"
    /\ UNCHANGED <<text, doc, Tables, loaded, chunks, failures, Index>>

\* upsert_chunks: a later point of the same id replaces an earlier one.  The
\* collection was empty; its count must be that of the vectors, within 5 %.
UpsertChunks ==
    /\ stage = "upsert"
    /\ LET pairs == SubSeq(chunks, 1, embedded)
           count == Cardinality(points')
       IN  /\ points' = {pairs[i] : i \in {i \in 1..Len(pairs) :
                             \A j \in (i + 1)..Len(pairs) :
                                 ~SamePoint(pairs[i], pairs[j])}}
           /\ stage' = IF (Len(pairs) - count) * 20 > Len(pairs) THEN "aborted"
                       ELSE "smoke"
    /\ UNCHANGED <<text, doc, Tables, loaded, chunks, failures, embedded>>

\* Qdrant refuses the points.
UpsertFails ==
    /\ stage = "upsert"
    /\ stage' = "aborted"
    /\ UNCHANGED <<text, doc, Tables, loaded, chunks, failures, Index>>

\* Documents and steps, any of them, or the run is aborted.
SmokeTests ==
    /\ stage = "smoke"
    /\ stage' = IF documents = {} \/ steps = {} THEN "aborted" ELSE "published"
    /\ UNCHANGED <<text, doc, Tables, loaded, chunks, failures, Index>>

Next == \/ SyncDocument \/ DeleteSteps \/ InsertStep
        \/ SyncConcessions \/ SyncSections \/ SyncToolkit \/ SyncCategories
        \/ ExtendChunks \/ Fails
        \/ StartEmbedding \/ EmbedBatch \/ EmbedFails \/ UpsertChunks \/ UpsertFails
        \/ SmokeTests

Spec == Init /\ [][Next]_vars

-----------------------------------------------------------------------------
(* What is loaded when the run publishes *)

PointsOf(d) == {p \in points : p.doc = d}

\* The points of every document that did not fail are its text: numbered from
\* 0, in order, nothing missing, every table there.  Nothing of another
\* document is in the index, and every document in it has its row.
TextIsIndexed ==
    stage = "published" =>
        /\ \A d \in loaded :
             LET n == Cardinality(PointsOf(d))
                 inOrder == [i \in 1..n |-> CHOOSE p \in PointsOf(d) : p.index = i - 1]
             IN  /\ {p.index : p \in PointsOf(d)} = 0..(n - 1)
                 /\ NothingMissing(text[d], inOrder)
        /\ {p.doc : p \in points} \subseteq loaded \cap documents

\* No list is torn apart, and chunks of paragraphs exceed the target by no more
\* than the rounding of each and the blank lines between them, one block and a
\* block carried over apart.
ChunksSound ==
    stage = "extend" => LET new == Chunks(text[doc])
                        IN  /\ ListsWhole(text[doc], new)
                            /\ SizesBounded(text[doc], new)

\* The steps published for a category and action are those of one document,
\* and of a document that did not fail all its steps or none: none only if a
\* later document took the key.  (Of one that failed they may be a few.)
StepsAreOneDocuments ==
    stage = "published" =>
        /\ \A r, q \in steps : r.key = q.key => r.doc = q.doc
        /\ \A d \in loaded : text[d].table = "steps" =>
             LET mine == {r.number : r \in {r \in steps : r.doc = d}}
             IN  \/ mine = 1..text[d].steps
                 \/ /\ mine = {}
                    /\ \E e \in documents : e > d /\ text[e].table = "steps"
                                             /\ text[e].key = text[d].key

\* A category refers to a document that is published with it, and there is
\* one row for every category and toolkit a document was read for.
RowsAreSound ==
    /\ \A r \in rows : r.gazette \in documents \cup {0}
    /\ \A d \in loaded : text[d].table # "steps" =>
         Cardinality({r \in rows : r.table = text[d].table /\ r.key = text[d].key
                            /\ (r.doc = d \/ r.table = "categories")}) = 1

\* What a run publishes in its tables is whole for every document that did not
\* fail, whatever failed before or between: pg_sync commits every statement.
TablesAreSound == StepsAreOneDocuments /\ RowsAreSound
=============================================================================
