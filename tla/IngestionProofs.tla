-------------------------- MODULE IngestionProofs --------------------------
(***************************************************************************)
(* Proofs about what one ingestion run loads (Loading), for any documents  *)
(* and texts, and about what the manifest records over the runs            *)
(* (ChangeDetection), for any documents and versions.                      *)
(*                                                                         *)
(* Loading: TextIsIndexed, TablesAreSound and ChunksSound speak of single  *)
(* moments of a run and are not inductive.  LoadingInv says what is there  *)
(* at each of them: a row is what its document makes it, and a category's  *)
(* is the only one; the steps of a document are its first ones up to a     *)
(* number; the chunks are those of the documents that were loaded, each    *)
(* once, and the collection holds nothing or all of them.                  *)
(***************************************************************************)
EXTENDS Loading, ChangeDetection, ChunkerProofs

-----------------------------------------------------------------------------
(* What a run has loaded so far *)

Loop == {"extract", "delete", "insert", "rows", "extend"}

\* The documents whose tables are written.
Finished == loaded \cup IF stage = "extend" THEN {doc} ELSE {}

\* The run reads its documents one by one.
ProgressInv ==
    /\ doc \in 1..(Documents + 1)
    /\ stage \in Loop \cup {"start", "embed", "upsert", "smoke"} \cup Ended
    /\ stage \in Loop <=> doc \in Docs
    /\ documents \subseteq 1..doc /\ documents \subseteq Docs
    /\ stage = "extract" => doc \notin documents
    /\ stage \in Loop \ {"extract"} => doc \in documents
    /\ loaded \subseteq documents /\ loaded \subseteq 1..(doc - 1)
    /\ failures \in Nat /\ failures + Cardinality(loaded) = doc - 1
    /\ DOMAIN text = Docs /\ text = [d \in Docs |-> text[d]]
    /\ \A d \in documents : text[d] \in Texts[d]
    /\ stage \in {"delete", "insert"} => text[doc].table = "steps"
    /\ stage = "rows" => text[doc].table # "steps"

\* A row is its document's, and a category's is the only one.
RowsInv ==
    /\ \A r \in rows : /\ r = Row(r.doc, r.gazette)
                       /\ r.doc \in documents /\ r.gazette \in documents \cup {0}
                       /\ r.doc = doc => stage = "extend"
    /\ \A r, q \in rows :
         \/ r.doc = q.doc
         \/ r.table = "categories" /\ q.table = "categories" /\ r.key = q.key
         => r = q
    /\ \A d \in Finished : text[d].table # "steps" =>
         \E r \in rows : /\ r.table = text[d].table /\ r.key = text[d].key
                         /\ r.doc = d \/ r.table = "categories"

\* The steps of a document, up to a number.
FirstSteps(d, m) == {[key |-> text[d].key, number |-> n, doc |-> d] : n \in 1..m}
StepsOf(d) == {r \in steps : r.doc = d}

StepsInv ==
    /\ \A r \in steps : /\ r \in FirstSteps(r.doc, text[r.doc].steps)
                        /\ r.doc \in documents /\ text[r.doc].table = "steps"
                        /\ r.doc = doc => stage \in {"insert", "extend"}
    /\ \A r, q \in steps : r.key = q.key => r.doc = q.doc
    /\ stage = "insert" =>
         /\ \A r \in steps : r.key = text[doc].key => r.doc = doc
         /\ \E m \in 0..(text[doc].steps - 1) : StepsOf(doc) = FirstSteps(doc, m)
    /\ \A d \in Finished : text[d].table = "steps" =>
         \/ StepsOf(d) = FirstSteps(d, text[d].steps)
         \/ /\ StepsOf(d) = {}
            /\ \E e \in documents : e > d /\ text[e].table = "steps"
                                     /\ text[e].key = text[d].key

\* The chunks of the documents that were loaded, each once.
Tags(d) == {Tagged(d, Chunks(text[d])[i]) : i \in 1..Len(Chunks(text[d]))}
Loaded  == UNION {Tags(d) : d \in loaded}

IndexInv ==
    /\ chunks \in Seq(Loaded) /\ ToSet(chunks) = Loaded
    /\ \A i, j \in 1..Len(chunks) : SamePoint(chunks[i], chunks[j]) => i = j
    /\ embedded \in 0..Len(chunks)
    /\ stage \in {"upsert", "smoke", "published"} => embedded = Len(chunks)
    /\ points \in {{}, Loaded}
    /\ stage \in Loop \cup {"start"} => points = {}
    /\ stage \in {"smoke", "published"} => points = Loaded

LoadingInv == ProgressInv /\ RowsInv /\ StepsInv /\ IndexInv

-----------------------------------------------------------------------------
(* Lemmas about what is loaded *)

\* What is extracted is a text.
LEMMA TextsAre ==
  ASSUME NEW d \in Docs, NEW t \in Texts[d]
  PROVE  IsText(t) /\ t.steps \in Nat
BY LoadingAssumption DEF Docs

\* As many steps as numbers.
LEMMA NumberOfSteps ==
  ASSUME NEW d, NEW m \in Nat
  PROVE  Cardinality(FirstSteps(d, m)) = m
<1> DEFINE Good == {n \in 0..m : /\ IsFiniteSet(FirstSteps(d, n))
                                 /\ Cardinality(FirstSteps(d, n)) = n}
<1>1. 0 \in Good
  <2>1. FirstSteps(d, 0) = {}
    BY DEF FirstSteps
  <2> QED BY <2>1, FS_EmptySet
<1>2. ASSUME NEW n \in 1..m, n - 1 \in Good PROVE n \in Good
  <2> DEFINE s == [key |-> text[d].key, number |-> n, doc |-> d]
             T == FirstSteps(d, n - 1)
  <2>1. FirstSteps(d, n) = T \cup {s}
    <3>1. 1..n = 1..(n - 1) \cup {n}
      OBVIOUS
    <3> QED BY <3>1 DEF FirstSteps
  <2>2. s \notin T
    <3>1. \A r \in T : r.number \in 1..(n - 1)
      BY DEF FirstSteps
    <3>2. s.number = n
      OBVIOUS
    <3> HIDE DEF s, T
    <3> QED BY <3>1, <3>2
  <2>3. IsFiniteSet(T) /\ Cardinality(T) = n - 1
    BY <1>2
  <2> HIDE DEF s, T
  <2>4. IsFiniteSet(T \cup {s}) /\ Cardinality(T \cup {s}) = (n - 1) + 1
    BY <2>2, <2>3, FS_AddElement
  <2> QED BY <2>1, <2>4
<1>3. \A n \in 0..m : n \in Good
  <2> HIDE DEF Good
  <2>1. \A n \in 1..m : n - 1 \in Good => n \in Good
    BY <1>2
  <2> QED BY <1>1, <2>1, UpTo, Zenon
<1> QED BY <1>3

\* What has no duplicates is kept.
LEMMA NoDuplicates ==
  ASSUME NEW S, NEW all \in Seq(S),
         \A i, j \in 1..Len(all) : SamePoint(all[i], all[j]) => i = j
  PROVE  Dedup(all) = all
<1> DEFINE N == Len(all)
           again(n) == \E j \in 1..(n - 1) : SamePoint(all[j], all[n])
           Is(f) == f = [n \in 0..N |-> IF n = 0 THEN <<>>
                                        ELSE IF again(n) THEN f[n - 1]
                                        ELSE Append(f[n - 1], all[n])]
           f == [n \in 0..N |-> SubSeq(all, 1, n)]
<1>1. N \in Nat /\ \A n \in 1..N : all[n] \in S
  BY LenProperties, ElementOfSeq
<1>2. \A n \in 1..N : ~again(n)
  <2>1. TAKE n \in 1..N
  <2>2. \A j \in 1..(n - 1) : j \in 1..N /\ j # n
    BY <1>1
  <2> QED BY <2>2
<1>3. Dedup(all) = (CHOOSE g : Is(g))[N]
  BY DEF Dedup
<1> HIDE DEF again
<1>4. SubSeq(all, 1, 0) = <<>>
  BY SubSeqEmpty
<1>5. \A n \in 1..N : SubSeq(all, 1, n) = Append(SubSeq(all, 1, n - 1), all[n])
  <2>1. TAKE n \in 1..N
  <2>2. 1 \in 1..Len(all) /\ n \in 1..Len(all)
    BY <1>1
  <2>3. SubSeq(all, 1, n) = SubSeq(all, 1, n - 1) \o <<all[n]>>
    BY <2>2, SubSeqRecursiveSecond
  <2>4. SubSeq(all, 1, n - 1) \in Seq(S)
    <3>1. \A i \in 1..(n - 1) : all[i] \in S
      BY <1>1
    <3> QED BY <3>1, SubSeqProperties
  <2> QED BY <1>1, <2>3, <2>4, AppendIsConcat
<1> HIDE DEF N
<1>6. Is(f)
  <2>1. ASSUME NEW n \in 0..N
        PROVE  f[n] = IF n = 0 THEN <<>> ELSE IF again(n) THEN f[n - 1]
                      ELSE Append(f[n - 1], all[n])
    <3>1. CASE n = 0
      BY <1>4, <3>1
    <3>2. CASE n # 0
      <4>1. n \in 1..N /\ n - 1 \in 0..N
        BY <1>1, <3>2
      <4>2. f[n] = SubSeq(all, 1, n) /\ f[n - 1] = SubSeq(all, 1, n - 1)
        BY <4>1
      <4> HIDE DEF f
      <4> QED BY <1>2, <1>5, <3>2, <4>1, <4>2
    <3> QED BY <3>1, <3>2
  <2>2. f = [n \in 0..N |-> f[n]]
    OBVIOUS
  <2> HIDE DEF f
  <2> QED BY <2>1, <2>2
<1> HIDE DEF f
<1> DEFINE kept == CHOOSE g : Is(g)
<1>7. Is(kept)
  BY <1>6
<1> HIDE DEF kept
<1>8. \A n \in 0..N : kept[n] = SubSeq(all, 1, n)
  <2> DEFINE Good == {n \in 0..N : kept[n] = SubSeq(all, 1, n)}
  <2>1. 0 \in Good
    BY <1>1, <1>4, <1>7
  <2>2. ASSUME NEW n \in 1..N, n - 1 \in Good PROVE n \in Good
    <3>1. n \in 0..N /\ n # 0
      BY <1>1
    <3>2. kept[n] = Append(kept[n - 1], all[n])
      BY <1>2, <1>7, <3>1
    <3> QED BY <1>5, <2>2, <3>1, <3>2
  <2>3. \A n \in 0..N : n \in Good
    <3> HIDE DEF Good
    <3>1. \A n \in 1..N : n - 1 \in Good => n \in Good
      BY <2>2
    <3> QED BY <1>1, <2>1, <3>1, UpTo, Zenon
  <2> QED BY <2>3
<1>9. kept[N] = all
  <2>1. N \in 0..N
    BY <1>1
  <2>2. SubSeq(all, 1, N) = all
    BY SubSeqFull DEF N
  <2> QED BY <1>8, <2>1, <2>2
<1> QED BY <1>3, <1>9 DEF kept

\* The chunks of a document have ids of their own.
LEMMA TagsApart ==
  ASSUME NEW d, NEW e, IsText(text[d]), IsText(text[e]),
         NEW i \in 1..Len(Chunks(text[d])), NEW j \in 1..Len(Chunks(text[e])),
         SamePoint(Tagged(d, Chunks(text[d])[i]), Tagged(e, Chunks(text[e])[j]))
  PROVE  d = e /\ i = j
<1>1. Chunks(text[d])[i].index = i - 1 /\ Chunks(text[e])[j].index = j - 1
      /\ Len(Chunks(text[d])) \in Nat /\ Len(Chunks(text[e])) \in Nat
  BY ChunksShape
<1>2. d = e /\ Chunks(text[d])[i].index = Chunks(text[e])[j].index
  BY DEF SamePoint, Tagged
<1> QED BY <1>1, <1>2

-----------------------------------------------------------------------------
(* The invariant holds initially *)

\* Nothing is loaded yet.
LEMMA LoadingInit == Init => LoadingInv
<1> SUFFICES ASSUME Init PROVE LoadingInv
  OBVIOUS
<1>1. /\ doc = 1 /\ stage = "extract" /\ documents = {} /\ rows = {} /\ steps = {}
      /\ loaded = {} /\ chunks = <<>> /\ failures = 0 /\ embedded = 0 /\ points = {}
      /\ text = [d \in Docs |-> Nothing]
  BY DEF Init
<1>2. Documents \in Nat /\ Documents > 0
  BY LoadingAssumption
<1>3. doc \in 1..(Documents + 1) /\ doc \in Docs
  BY <1>1, <1>2 DEF Docs
<1>4. Cardinality({}) = 0
  BY FS_EmptySet
<1>5. ProgressInv
  <2>1. DOMAIN text = Docs /\ text = [d \in Docs |-> text[d]]
    BY <1>1
  <2>2. failures \in Nat /\ failures + Cardinality(loaded) = doc - 1
    BY <1>1, <1>4
  <2> QED BY <1>1, <1>3, <2>1, <2>2 DEF ProgressInv, Loop
<1>6. Finished = {}
  BY <1>1 DEF Finished
<1>7. RowsInv
  BY <1>1, <1>6 DEF RowsInv
<1>8. StepsInv
  BY <1>1, <1>6 DEF StepsInv
<1>9. IndexInv
  <2>1. Loaded = {}
    BY <1>1 DEF Loaded
  <2>2. Len(chunks) = 0 /\ chunks \in Seq(Loaded) /\ ToSet(chunks) = {}
    BY <1>1 DEF ToSet
  <2>3. embedded \in 0..Len(chunks)
    BY <1>1, <2>2
  <2> QED BY <1>1, <2>1, <2>2, <2>3 DEF IndexInv
<1> QED BY <1>5, <1>7, <1>8, <1>9 DEF LoadingInv

-----------------------------------------------------------------------------
(* Every step keeps it *)

\* The steps that only move on.
GoesOn == /\ stage \notin Loop /\ UNCHANGED <<text, doc, Tables, loaded, failures>>
          /\ stage' \in {"start", "embed", "upsert", "smoke"} \cup Ended

Writes == SyncConcessions \/ SyncSections \/ SyncToolkit \/ SyncCategories

\* What a step that writes one row does.
WritesRow(written) ==
    /\ stage = "rows" /\ doc \in Docs
    /\ rows' = written
    /\ stage' = "extend"
    /\ UNCHANGED <<text, doc, documents, steps, loaded, chunks, failures, embedded, points>>

\* Every step is one of eight kinds.
LEMMA Steps ==
  ASSUME LoadingInv, [Next]_vars
  PROVE  \/ SyncDocument \/ DeleteSteps \/ InsertStep
         \/ Writes /\ \E w : WritesRow(w)
         \/ ExtendChunks \/ Fails \/ GoesOn \/ UNCHANGED vars
<1> USE DEF Tables, Index
<1>1. CASE Writes
  <2>1. \A table, w : WriteRows(table, w) => WritesRow(w)
    BY DEF WriteRows, WritesRow
  <2>2. \E table, w : WriteRows(table, w)
    BY <1>1 DEF Writes, SyncConcessions, SyncSections, SyncToolkit, SyncCategories
  <2> QED BY <1>1, <2>1, <2>2
<1>2. CASE StartEmbedding \/ EmbedBatch \/ EmbedFails \/ UpsertChunks \/ UpsertFails \/ SmokeTests
  <2> USE DEF GoesOn, Loop, Ended
  <2>1. CASE StartEmbedding
    BY <2>1 DEF StartEmbedding
  <2>2. CASE EmbedBatch
    BY <2>2 DEF EmbedBatch
  <2>3. CASE EmbedFails
    BY <2>3 DEF EmbedFails
  <2>4. CASE UpsertChunks
    BY <2>4 DEF UpsertChunks
  <2>5. CASE UpsertFails
    BY <2>5 DEF UpsertFails
  <2>6. CASE SmokeTests
    BY <2>6 DEF SmokeTests
  <2> QED BY <1>2, <2>1, <2>2, <2>3, <2>4, <2>5, <2>6
<1> QED BY <1>1, <1>2 DEF Next, Writes

\* The next document, or the end of the loop.
LEMMA GoingTo ==
  ASSUME NEW d \in 2..(Documents + 1), NEW n, GoTo(d, n)
  PROVE  /\ doc' = d /\ failures' = n
         /\ stage' \in {"extract", "aborted", "start"}
         /\ stage' = "extract" <=> d \in Docs
         /\ stage' \in Loop <=> d \in Docs
<1>1. Documents \in Nat
  BY LoadingAssumption
<1>2. d <= Documents <=> d \in Docs
  BY <1>1 DEF Docs
<1>3. stage' = IF d <= Documents THEN "extract"
               ELSE IF n * FailOneIn > Documents THEN "aborted" ELSE "start"
  BY DEF GoTo
<1> QED BY <1>2, <1>3 DEF GoTo, Loop

\* Bounds and types the steps need.
LEMMA ProgressFacts ==
  ASSUME ProgressInv
  PROVE  /\ Documents \in Nat /\ doc \in Nat /\ doc <= Documents + 1 /\ doc >= 1
         /\ Docs = 1..Documents
         /\ IsFiniteSet(loaded) /\ Cardinality(loaded) \in Nat /\ doc \notin loaded
         /\ \A d \in documents : IsText(text[d]) /\ text[d].steps \in Nat /\ d \in Docs /\ d <= doc
         /\ doc \in Docs => doc + 1 \in 2..(Documents + 1) /\ 1..doc \subseteq Docs
<1>1. Documents \in Nat
  BY LoadingAssumption
<1>2. doc \in Nat /\ doc <= Documents + 1 /\ doc >= 1
  BY <1>1 DEF ProgressInv
<1>3. IsFiniteSet(loaded) /\ Cardinality(loaded) \in Nat /\ doc \notin loaded
  <2>1. loaded \subseteq 1..(doc - 1)
    BY DEF ProgressInv
  <2>2. IsFiniteSet(1..(doc - 1))
    BY <1>2, FS_Interval
  <2>3. IsFiniteSet(loaded)
    BY <2>1, <2>2, FS_Subset
  <2>4. doc \notin 1..(doc - 1)
    BY <1>2
  <2> QED BY <2>1, <2>3, <2>4, FS_CardinalityType
<1>4. ASSUME NEW d \in documents
      PROVE  IsText(text[d]) /\ text[d].steps \in Nat /\ d \in Docs /\ d <= doc
  <2>1. d \in Docs /\ text[d] \in Texts[d] /\ d \in 1..doc
    BY DEF ProgressInv
  <2>2. d <= doc
    BY <1>2, <2>1
  <2> QED BY <2>1, <2>2, TextsAre
<1>5. doc \in Docs => doc + 1 \in 2..(Documents + 1) /\ 1..doc \subseteq Docs
  BY <1>1, <1>2 DEF Docs
<1> QED BY <1>1, <1>2, <1>3, <1>4, <1>5 DEF Docs

\* The documents are read one by one.
LEMMA ProgressStep == LoadingInv /\ [Next]_vars => ProgressInv'
<1> SUFFICES ASSUME LoadingInv, [Next]_vars PROVE ProgressInv'
  OBVIOUS
<1>1. ProgressInv
  BY DEF LoadingInv
<1>2. /\ doc \in 1..(Documents + 1)
      /\ stage \in Loop \cup {"start", "embed", "upsert", "smoke"} \cup Ended
      /\ stage \in Loop <=> doc \in Docs
      /\ documents \subseteq 1..doc /\ documents \subseteq Docs
      /\ stage = "extract" => doc \notin documents
      /\ stage \in Loop \ {"extract"} => doc \in documents
      /\ loaded \subseteq documents /\ loaded \subseteq 1..(doc - 1)
      /\ failures \in Nat /\ failures + Cardinality(loaded) = doc - 1
      /\ DOMAIN text = Docs /\ text = [d \in Docs |-> text[d]]
      /\ \A d \in documents : text[d] \in Texts[d]
      /\ stage \in {"delete", "insert"} => text[doc].table = "steps"
      /\ stage = "rows" => text[doc].table # "steps"
  BY <1>1 DEF ProgressInv
<1>3. /\ Documents \in Nat /\ doc \in Nat /\ doc <= Documents + 1
      /\ IsFiniteSet(loaded) /\ Cardinality(loaded) \in Nat /\ doc \notin loaded
      /\ doc \in Docs => doc + 1 \in 2..(Documents + 1) /\ 1..doc \subseteq Docs
  BY <1>1, ProgressFacts
<1>4. CASE SyncDocument
  <2>1. /\ doc \in Docs /\ stage = "extract"
        /\ documents' = documents \cup {doc} /\ UNCHANGED <<doc, loaded, failures>>
    BY <1>4 DEF SyncDocument
  <2>2. PICK t \in Texts[doc] : /\ text' = [text EXCEPT ![doc] = t]
                                /\ stage' = IF t.table = "steps" THEN "delete" ELSE "rows"
    BY <1>4 DEF SyncDocument
  <2>3. DOMAIN text' = Docs /\ text' = [d \in Docs |-> text'[d]] /\ text'[doc] = t
        /\ \A d \in documents : text'[d] = text[d]
    BY <1>2, <2>1, <2>2
  <2>4. doc \in 1..doc
    BY <1>2, <1>3
  <2>5. \A d \in documents' : text'[d] \in Texts[d]
    BY <1>2, <2>1, <2>2, <2>3
  <2>6. /\ stage' \in {"delete", "rows"}
        /\ stage' = "delete" => text'[doc].table = "steps"
        /\ stage' = "rows" => text'[doc].table # "steps"
    BY <2>2, <2>3
  <2> QED BY <1>2, <2>1, <2>3, <2>4, <2>5, <2>6 DEF ProgressInv, Loop
<1>5. CASE DeleteSteps \/ InsertStep \/ \E w : WritesRow(w)
  <2>1. /\ stage \in {"delete", "insert", "rows"} /\ stage' \in {"insert", "extend"}
        /\ stage' = "insert" => stage \in {"delete", "insert"}
        /\ UNCHANGED <<text, doc, documents, loaded, failures>>
    <3>1. CASE DeleteSteps
      BY <3>1 DEF DeleteSteps
    <3>2. CASE InsertStep
      BY <3>2 DEF InsertStep
    <3>3. CASE \E w : WritesRow(w)
      BY <3>3 DEF WritesRow
    <3> QED BY <1>5, <3>1, <3>2, <3>3
  <2> QED BY <1>2, <2>1 DEF ProgressInv, Loop
<1>6. CASE ExtendChunks \/ Fails
  <2>1. /\ doc \in Docs /\ UNCHANGED <<text, documents>>
        /\ \/ loaded' = loaded \cup {doc} /\ stage = "extend" /\ GoTo(doc + 1, failures)
           \/ loaded' = loaded /\ GoTo(doc + 1, failures + 1)
    <3>1. CASE ExtendChunks
      BY <3>1 DEF ExtendChunks, Tables
    <3>2. CASE Fails
      BY <3>2 DEF Fails, Tables
    <3> QED BY <1>6, <3>1, <3>2
  <2>2. /\ doc' = doc + 1 /\ stage' \in {"extract", "aborted", "start"}
        /\ stage' = "extract" <=> doc + 1 \in Docs
        /\ stage' \in Loop <=> doc + 1 \in Docs
        /\ \/ loaded' = loaded \cup {doc} /\ stage = "extend" /\ failures' = failures
           \/ loaded' = loaded /\ failures' = failures + 1
    <3>1. doc + 1 \in 2..(Documents + 1)
      BY <1>3, <2>1
    <3> QED BY <2>1, <3>1, GoingTo
  <2>3. failures' \in Nat /\ failures' + Cardinality(loaded') = doc' - 1
    <3>1. CASE loaded' = loaded \cup {doc} /\ failures' = failures
      <4>1. Cardinality(loaded \cup {doc}) = Cardinality(loaded) + 1
        BY <1>3, FS_AddElement
      <4> QED BY <1>2, <1>3, <2>2, <3>1, <4>1
    <3>2. CASE loaded' = loaded /\ failures' = failures + 1
      BY <1>2, <1>3, <2>2, <3>2
    <3> QED BY <2>2, <3>1, <3>2
  <2>4. /\ doc + 1 \in 1..(Documents + 1) /\ 1..doc \subseteq 1..(doc + 1)
        /\ doc + 1 \notin 1..doc /\ 1..(doc - 1) \subseteq 1..(doc + 1 - 1)
        /\ doc \in 1..(doc + 1 - 1)
    BY <1>2, <1>3, <2>1
  <2>5. loaded' \subseteq documents' /\ loaded' \subseteq 1..(doc' - 1)
    BY <1>2, <2>1, <2>2, <2>4 DEF Loop
  <2>6. stage' \in Loop => stage' = "extract"
    BY <2>2 DEF Loop
  <2>7. documents' \subseteq 1..doc' /\ doc' \notin documents' /\ documents' \subseteq Docs
    BY <1>2, <2>1, <2>2, <2>4
  <2>8. \A d \in documents' : text'[d] \in Texts[d]
    BY <1>2, <2>1
  <2>9. doc' \in 1..(Documents + 1) /\ (stage' \in Loop <=> doc' \in Docs)
    BY <2>2, <2>4
  <2>10. DOMAIN text' = Docs /\ text' = [d \in Docs |-> text'[d]]
    BY <1>2, <2>1
  <2>11. stage' \notin {"delete", "insert", "rows"} /\ stage' \notin Loop \ {"extract"}
         /\ stage' \in Loop \cup {"start", "embed", "upsert", "smoke"} \cup Ended
    BY <2>2 DEF Loop, Ended
  <2> QED BY <2>3, <2>5, <2>7, <2>8, <2>9, <2>10, <2>11 DEF ProgressInv
<1>7. CASE GoesOn
  <2>1. /\ stage \notin Loop /\ UNCHANGED <<text, doc, documents, loaded, failures>>
        /\ stage' \in {"start", "embed", "upsert", "smoke"} \cup Ended
    BY <1>7 DEF GoesOn, Tables
  <2> QED BY <1>2, <2>1 DEF ProgressInv, Loop, Ended
<1>8. CASE UNCHANGED vars
  <2>1. UNCHANGED <<text, doc, stage, documents, loaded, failures>>
    BY <1>8 DEF vars
  <2> QED BY <1>2, <2>1 DEF ProgressInv
<1> QED BY <1>4, <1>5, <1>6, <1>7, <1>8, Steps

\* A step that leaves the rows alone.
LEMMA RowsKept ==
  ASSUME RowsInv, rows' = rows, documents \subseteq documents',
         \A d \in documents : text'[d] = text[d],
         \A r \in rows : r.doc = doc' => stage' = "extend",
         \A d \in Finished' : text'[d].table # "steps" => d \in Finished,
         Finished \subseteq documents
  PROVE  RowsInv'
<1>1. ASSUME NEW r \in rows'
      PROVE  /\ r = Row(r.doc, r.gazette)'
             /\ r.doc \in documents' /\ r.gazette \in documents' \cup {0}
             /\ r.doc = doc' => stage' = "extend"
  <2>1. /\ r \in rows /\ r = Row(r.doc, r.gazette)
        /\ r.doc \in documents /\ r.gazette \in documents \cup {0}
    BY DEF RowsInv
  <2>2. text'[r.doc] = text[r.doc]
    BY <2>1
  <2>3. Row(r.doc, r.gazette)' = Row(r.doc, r.gazette)
    BY <2>2 DEF Row
  <2>4. r.doc \in documents' /\ r.gazette \in documents' \cup {0}
    BY <2>1
  <2> QED BY <2>1, <2>3, <2>4
<1>2. \A r, q \in rows' :
         \/ r.doc = q.doc
         \/ r.table = "categories" /\ q.table = "categories" /\ r.key = q.key
         => r = q
  BY DEF RowsInv
<1>3. ASSUME NEW d \in Finished', text'[d].table # "steps"
      PROVE  \E r \in rows' : /\ r.table = text'[d].table /\ r.key = text'[d].key
                              /\ r.doc = d \/ r.table = "categories"
  <2>1. d \in Finished /\ text'[d] = text[d]
    BY <1>3
  <2>2. \E r \in rows : /\ r.table = text[d].table /\ r.key = text[d].key
                        /\ r.doc = d \/ r.table = "categories"
    BY <1>3, <2>1 DEF RowsInv
  <2> QED BY <2>1, <2>2
<1> QED BY <1>1, <1>2, <1>3 DEF RowsInv

\* One row more.
LEMMA RowAdded ==
  ASSUME ProgressInv, RowsInv, NEW gazette \in documents \cup {0}, WritesRow(rows \cup {Row(doc, gazette)}),
         text[doc].table = "categories" =>
            \A r \in rows : ~(r.table = "categories" /\ r.key = text[doc].key)
  PROVE  RowsInv'
<1> DEFINE new == Row(doc, gazette)
<1>1. /\ stage = "rows" /\ rows' = rows \cup {new} /\ stage' = "extend"
      /\ text' = text /\ doc' = doc /\ documents' = documents /\ loaded' = loaded
      /\ doc \in documents
  BY DEF WritesRow, ProgressInv, Loop
<1>2. /\ new.table = text[doc].table /\ new.key = text[doc].key
      /\ new.doc = doc /\ new.gazette = gazette
  BY DEF Row
<1>3. \A r \in rows : r.doc # doc
  BY <1>1 DEF RowsInv
<1>4. Finished' = Finished \cup {doc}
  BY <1>1 DEF Finished
<1>11. new = Row(new.doc, new.gazette)
  BY <1>2
<1> HIDE DEF new
<1>5. \A r \in rows' : /\ r = Row(r.doc, r.gazette)'
                       /\ r.doc \in documents' /\ r.gazette \in documents' \cup {0}
                       /\ r.doc = doc' => stage' = "extend"
  <2>1. \A d, g : Row(d, g)' = Row(d, g)
    BY <1>1 DEF Row
  <2>2. ASSUME NEW r \in rows
        PROVE r = Row(r.doc, r.gazette) /\ r.doc \in documents /\ r.gazette \in documents \cup {0}
    BY DEF RowsInv
  <2>3. new.doc \in documents /\ new.gazette \in documents \cup {0}
    BY <1>1, <1>2
  <2> QED BY <1>1, <1>11, <2>1, <2>2, <2>3
<1>6. ASSUME NEW r \in rows', NEW q \in rows',
             \/ r.doc = q.doc
             \/ r.table = "categories" /\ q.table = "categories" /\ r.key = q.key
      PROVE  r = q
  <2>1. CASE r \in rows /\ q \in rows
    BY <1>6, <2>1 DEF RowsInv
  <2>2. CASE r = new /\ q \in rows
    BY <1>2, <1>3, <1>6, <2>2
  <2>3. CASE q = new /\ r \in rows
    BY <1>2, <1>3, <1>6, <2>3
  <2> QED BY <1>1, <2>1, <2>2, <2>3
<1>7. ASSUME NEW d \in Finished', text'[d].table # "steps"
      PROVE  \E r \in rows' : /\ r.table = text'[d].table /\ r.key = text'[d].key
                              /\ r.doc = d \/ r.table = "categories"
  <2>1. CASE d = doc
    BY <1>1, <1>2, <2>1
  <2>2. CASE d \in Finished
    <3>1. text[d].table # "steps"
      BY <1>1, <1>7
    <3>2. PICK r \in rows : /\ r.table = text[d].table /\ r.key = text[d].key
                            /\ r.doc = d \/ r.table = "categories"
      BY <2>2, <3>1 DEF RowsInv
    <3> QED BY <1>1, <3>2
  <2> QED BY <1>4, <2>1, <2>2
<1> QED BY <1>5, <1>6, <1>7 DEF RowsInv

\* A category that is there gets another gazette.
LEMMA CategoryChanged ==
  ASSUME ProgressInv, RowsInv, NEW gazette \in documents \cup {0}, NEW there, there # {},
         there = {r \in rows : r.table = "categories" /\ r.key = text[doc].key},
         text[doc].table = "categories",
         WritesRow((rows \ there) \cup {[r EXCEPT !.gazette = gazette] : r \in there})
  PROVE  RowsInv'
<1>1. /\ stage = "rows" /\ stage' = "extend"
      /\ rows' = (rows \ there) \cup {[r EXCEPT !.gazette = gazette] : r \in there}
      /\ text' = text /\ doc' = doc /\ documents' = documents /\ loaded' = loaded
      /\ doc \in documents
  BY DEF WritesRow, ProgressInv, Loop
<1>2. PICK old \in there : TRUE
  OBVIOUS
<1>3. /\ old \in rows /\ old.table = "categories" /\ old.key = text[doc].key
      /\ old = Row(old.doc, old.gazette) /\ old.doc \in documents
  BY <1>2 DEF RowsInv
<1>4. there = {old}
  <2>1. \A r \in there : r = old
    BY <1>3 DEF RowsInv
  <2> QED BY <1>2, <2>1
<1> DEFINE new == [old EXCEPT !.gazette = gazette]
<1>5. new = Row(old.doc, gazette)
  BY <1>3 DEF Row
<1>6. /\ new.table = text[old.doc].table /\ new.key = text[old.doc].key
      /\ new.doc = old.doc /\ new.gazette = gazette
      /\ old.table = text[old.doc].table /\ old.key = text[old.doc].key
  <2>1. /\ Row(old.doc, gazette).table = text[old.doc].table
        /\ Row(old.doc, gazette).key = text[old.doc].key
        /\ Row(old.doc, gazette).doc = old.doc /\ Row(old.doc, gazette).gazette = gazette
        /\ Row(old.doc, old.gazette).table = text[old.doc].table
        /\ Row(old.doc, old.gazette).key = text[old.doc].key
    BY DEF Row
  <2> HIDE DEF new
  <2> QED BY <1>3, <1>5, <2>1
<1>7. rows' = (rows \ {old}) \cup {new}
  BY <1>1, <1>4
<1> HIDE DEF new
<1>8. \A r \in rows : r.doc # doc
  BY <1>1 DEF RowsInv
<1>9. Finished' = Finished \cup {doc}
  BY <1>1 DEF Finished
<1>10. \A r \in rows' : /\ r = Row(r.doc, r.gazette)'
                        /\ r.doc \in documents' /\ r.gazette \in documents' \cup {0}
                        /\ r.doc = doc' => stage' = "extend"
  <2>1. \A d, g : Row(d, g)' = Row(d, g)
    BY <1>1 DEF Row
  <2>2. ASSUME NEW r \in rows
        PROVE r = Row(r.doc, r.gazette) /\ r.doc \in documents /\ r.gazette \in documents \cup {0}
    BY DEF RowsInv
  <2>3. new = Row(new.doc, new.gazette) /\ new.doc \in documents /\ new.gazette \in documents \cup {0}
    BY <1>3, <1>5, <1>6
  <2> QED BY <1>1, <1>7, <2>1, <2>2, <2>3
<1>11. ASSUME NEW r \in rows', NEW q \in rows',
              \/ r.doc = q.doc
              \/ r.table = "categories" /\ q.table = "categories" /\ r.key = q.key
       PROVE  r = q
  <2>1. CASE r \in rows /\ q \in rows
    BY <1>11, <2>1 DEF RowsInv
  <2>2. CASE r = new /\ q \in rows \ {old}
    <3>1. \/ old.doc = q.doc
          \/ old.table = "categories" /\ q.table = "categories" /\ old.key = q.key
      BY <1>6, <1>11, <2>2
    <3> QED BY <1>3, <2>2, <3>1 DEF RowsInv
  <2>3. CASE q = new /\ r \in rows \ {old}
    <3>1. \/ old.doc = r.doc
          \/ old.table = "categories" /\ r.table = "categories" /\ old.key = r.key
      BY <1>6, <1>11, <2>3
    <3> QED BY <1>3, <2>3, <3>1 DEF RowsInv
  <2> QED BY <1>7, <2>1, <2>2, <2>3
<1>12. ASSUME NEW d \in Finished', text'[d].table # "steps"
       PROVE  \E r \in rows' : /\ r.table = text'[d].table /\ r.key = text'[d].key
                               /\ r.doc = d \/ r.table = "categories"
  <2>1. new \in rows' /\ new.table = "categories" /\ new.key = text[doc].key
    BY <1>3, <1>6, <1>7
  <2>2. CASE d = doc
    BY <1>1, <2>1, <2>2
  <2>3. CASE d \in Finished
    <3>1. text[d].table # "steps"
      BY <1>1, <1>12
    <3>2. PICK r \in rows : /\ r.table = text[d].table /\ r.key = text[d].key
                            /\ r.doc = d \/ r.table = "categories"
      BY <2>3, <3>1 DEF RowsInv
    <3>3. CASE r = old
      BY <1>1, <1>3, <1>6, <1>7, <3>2, <3>3
    <3>4. CASE r # old
      BY <1>1, <1>7, <3>2, <3>4
    <3> QED BY <3>3, <3>4
  <2> QED BY <1>9, <2>2, <2>3
<1> QED BY <1>10, <1>11, <1>12 DEF RowsInv

\* Every row stays the row of its document.
LEMMA RowsStep == LoadingInv /\ [Next]_vars => RowsInv'
<1> SUFFICES ASSUME LoadingInv, [Next]_vars PROVE RowsInv'
  OBVIOUS
<1>1. ProgressInv /\ RowsInv
  BY DEF LoadingInv
<1>2. /\ stage \in Loop <=> doc \in Docs
      /\ documents \subseteq 1..doc /\ documents \subseteq Docs
      /\ stage = "extract" => doc \notin documents
      /\ stage \in Loop \ {"extract"} => doc \in documents
      /\ loaded \subseteq documents /\ loaded \subseteq 1..(doc - 1)
      /\ stage \in {"delete", "insert"} => text[doc].table = "steps"
      /\ DOMAIN text = Docs
  BY <1>1 DEF ProgressInv
<1>3. /\ Documents \in Nat /\ doc \in Nat
      /\ doc \in Docs => doc + 1 \in 2..(Documents + 1)
  BY <1>1, ProgressFacts
<1>4. Finished \subseteq documents /\ loaded \subseteq Finished
  BY <1>2 DEF Finished, Loop
<1>5. \A r \in rows : r.doc \in documents /\ (r.doc = doc => stage = "extend")
  BY <1>1 DEF RowsInv
<1>6. CASE SyncDocument
  <2>1. /\ doc \in Docs /\ stage = "extract" /\ rows' = rows /\ doc' = doc /\ loaded' = loaded
        /\ documents' = documents \cup {doc}
    BY <1>6 DEF SyncDocument
  <2>2. PICK t \in Texts[doc] : /\ text' = [text EXCEPT ![doc] = t]
                                /\ stage' = IF t.table = "steps" THEN "delete" ELSE "rows"
    BY <1>6 DEF SyncDocument
  <2>3. \A d \in documents : text'[d] = text[d]
    BY <1>2, <2>1, <2>2
  <2>4. Finished' \subseteq Finished
    BY <1>4, <2>1, <2>2 DEF Finished
  <2>5. \A r \in rows : r.doc # doc'
    BY <1>5, <2>1
  <2> QED BY <1>1, <1>4, <2>1, <2>3, <2>4, <2>5, RowsKept
<1>7. CASE DeleteSteps \/ InsertStep
  <2>1. /\ stage \in {"delete", "insert"} /\ rows' = rows /\ text' = text
        /\ documents' = documents /\ doc' = doc /\ loaded' = loaded
    <3>1. CASE DeleteSteps
      BY <3>1 DEF DeleteSteps
    <3>2. CASE InsertStep
      BY <3>2 DEF InsertStep
    <3> QED BY <1>7, <3>1, <3>2
  <2>2. \A d \in Finished' : text'[d].table # "steps" => d \in Finished
    BY <1>2, <1>4, <2>1 DEF Finished
  <2>3. \A r \in rows : r.doc # doc'
    BY <1>5, <2>1
  <2> QED BY <1>1, <1>4, <2>1, <2>2, <2>3, RowsKept
<1>8. CASE Writes
  <2>1. CASE SyncConcessions
    <3>1. text[doc].table = "concessions" /\ WritesRow(rows \cup {Row(doc, 0)})
      BY <2>1 DEF SyncConcessions, WriteRows, WritesRow, Index
    <3> QED BY <1>1, <3>1, RowAdded
  <2>2. CASE SyncSections
    <3>1. text[doc].table = "sections" /\ WritesRow(rows \cup {Row(doc, 0)})
      BY <2>2 DEF SyncSections, WriteRows, WritesRow, Index
    <3> QED BY <1>1, <3>1, RowAdded
  <2>3. CASE SyncToolkit
    <3>1. text[doc].table = "toolkit" /\ WritesRow(rows \cup {Row(doc, 0)})
      BY <2>3 DEF SyncToolkit, WriteRows, WritesRow, Index
    <3> QED BY <1>1, <3>1, RowAdded
  <2>4. CASE SyncCategories
    <3> DEFINE there == {r \in rows : r.table = "categories" /\ r.key = text[doc].key}
    <3>1. PICK named \in 0..Documents :
             WriteRows("categories",
                IF there = {} THEN rows \cup {Row(doc, IF named \in documents THEN named ELSE 0)}
                ELSE (rows \ there) \cup
                     {[r EXCEPT !.gazette = IF named \in documents THEN named ELSE 0] : r \in there})
      BY <2>4 DEF SyncCategories
    <3> DEFINE gazette == IF named \in documents THEN named ELSE 0
    <3>2. gazette \in documents \cup {0}
      OBVIOUS
    <3>3. /\ text[doc].table = "categories"
          /\ WritesRow(IF there = {} THEN rows \cup {Row(doc, gazette)}
                       ELSE (rows \ there) \cup {[r EXCEPT !.gazette = gazette] : r \in there})
      BY <3>1 DEF WriteRows, WritesRow, Index
    <3> HIDE DEF gazette
    <3>4. CASE there = {}
      <4>1. WritesRow(rows \cup {Row(doc, gazette)})
        BY <3>3, <3>4
      <4>2. \A r \in rows : ~(r.table = "categories" /\ r.key = text[doc].key)
        BY <3>4
      <4> QED BY <1>1, <3>2, <4>1, <4>2, RowAdded
    <3>5. CASE there # {}
      <4>1. there = {r \in rows : r.table = "categories" /\ r.key = text[doc].key}
        OBVIOUS
      <4> HIDE DEF there
      <4>2. WritesRow((rows \ there) \cup {[r EXCEPT !.gazette = gazette] : r \in there})
        BY <3>3, <3>5
      <4> QED BY <1>1, <3>2, <3>3, <3>5, <4>1, <4>2, CategoryChanged
    <3> QED BY <3>4, <3>5
  <2> QED BY <1>8, <2>1, <2>2, <2>3, <2>4 DEF Writes
<1>9. CASE ExtendChunks \/ Fails
  <2>1. /\ doc \in Docs /\ text' = text /\ documents' = documents /\ rows' = rows
        /\ \/ loaded' = loaded \cup {doc} /\ stage = "extend" /\ GoTo(doc + 1, failures)
           \/ loaded' = loaded /\ GoTo(doc + 1, failures + 1)
    <3>1. CASE ExtendChunks
      BY <3>1 DEF ExtendChunks, Tables
    <3>2. CASE Fails
      BY <3>2 DEF Fails, Tables
    <3> QED BY <1>9, <3>1, <3>2
  <2>2. /\ doc' = doc + 1 /\ stage' \in {"extract", "aborted", "start"}
        /\ \/ loaded' = loaded \cup {doc} /\ stage = "extend"
           \/ loaded' = loaded
    <3>1. doc + 1 \in 2..(Documents + 1)
      BY <1>3, <2>1
    <3> QED BY <2>1, <3>1, GoingTo
  <2>3. Finished' \subseteq Finished
    BY <2>2 DEF Finished
  <2>4. \A r \in rows : r.doc # doc'
    <3>1. doc + 1 \notin 1..doc
      BY <1>3
    <3> QED BY <1>2, <1>5, <2>2, <3>1
  <2> QED BY <1>1, <1>4, <2>1, <2>3, <2>4, RowsKept
<1>10. CASE GoesOn
  <2>1. /\ stage \notin Loop /\ text' = text /\ documents' = documents /\ rows' = rows
        /\ doc' = doc /\ loaded' = loaded /\ stage' # "extend"
    BY <1>10 DEF GoesOn, Tables, Ended
  <2>2. Finished' \subseteq Finished
    BY <2>1 DEF Finished
  <2>3. \A r \in rows : r.doc # doc'
    BY <1>2, <1>5, <2>1
  <2> QED BY <1>1, <1>4, <2>1, <2>2, <2>3, RowsKept
<1>11. CASE UNCHANGED vars
  <2>1. UNCHANGED <<text, doc, stage, documents, rows, loaded>>
    BY <1>11 DEF vars
  <2>2. Finished' = Finished
    BY <2>1 DEF Finished
  <2> QED BY <1>1, <1>4, <1>5, <2>1, <2>2, RowsKept
<1> QED BY <1>6, <1>7, <1>8, <1>9, <1>10, <1>11, Steps

\* A step that leaves the registration steps alone.
LEMMA StepsKept ==
  ASSUME StepsInv, steps' = steps, documents \subseteq documents',
         \A d \in documents : text'[d] = text[d],
         stage' = "insert" => stage = "insert" /\ doc' = doc /\ doc \in documents,
         \A r \in steps : r.doc = doc' => stage' \in {"insert", "extend"},
         \A d \in Finished' : text'[d].table = "steps" => d \in Finished,
         Finished \subseteq documents
  PROVE  StepsInv'
<1>1. \A d \in documents : \A m : FirstSteps(d, m)' = FirstSteps(d, m)
  BY DEF FirstSteps
<1>2. \A d : StepsOf(d)' = StepsOf(d)
  BY DEF StepsOf
<1>3. ASSUME NEW r \in steps'
      PROVE  /\ r \in FirstSteps(r.doc, text[r.doc].steps)'
             /\ r.doc \in documents' /\ text'[r.doc].table = "steps"
             /\ r.doc = doc' => stage' \in {"insert", "extend"}
  <2>1. /\ r \in steps /\ r \in FirstSteps(r.doc, text[r.doc].steps)
        /\ r.doc \in documents /\ text[r.doc].table = "steps"
    BY DEF StepsInv
  <2>2. text'[r.doc] = text[r.doc]
    BY <2>1
  <2>3. r \in FirstSteps(r.doc, text[r.doc].steps)'
    BY <2>1, <2>2 DEF FirstSteps
  <2> QED BY <2>1, <2>2, <2>3
<1>4. \A r, q \in steps' : r.key = q.key => r.doc = q.doc
  BY DEF StepsInv
<1>5. ASSUME stage' = "insert"
      PROVE  /\ \A r \in steps' : r.key = text'[doc'].key => r.doc = doc'
             /\ \E m \in 0..(text'[doc'].steps - 1) : StepsOf(doc)' = FirstSteps(doc, m)'
  <2>1. stage = "insert" /\ doc' = doc /\ doc \in documents /\ text'[doc'] = text[doc]
    BY <1>5
  <2>2. /\ \A r \in steps : r.key = text[doc].key => r.doc = doc
        /\ \E m \in 0..(text[doc].steps - 1) : StepsOf(doc) = FirstSteps(doc, m)
    BY <2>1 DEF StepsInv
  <2>3. PICK m \in 0..(text[doc].steps - 1) : StepsOf(doc) = FirstSteps(doc, m)
    BY <2>2
  <2>4. StepsOf(doc)' = StepsOf(doc)
    BY <2>1 DEF StepsOf
  <2>5. FirstSteps(doc, m)' = FirstSteps(doc, m)
    BY <2>1 DEF FirstSteps
  <2>6. m \in 0..(text'[doc'].steps - 1)
    BY <2>1
  <2>7. \A r \in steps' : r.key = text'[doc'].key => r.doc = doc'
    BY <2>1, <2>2
  <2> QED BY <2>3, <2>4, <2>5, <2>6, <2>7
<1>6. ASSUME NEW d \in Finished', text'[d].table = "steps"
      PROVE  \/ StepsOf(d)' = FirstSteps(d, text[d].steps)'
             \/ /\ StepsOf(d)' = {}
                /\ \E e \in documents' : e > d /\ text'[e].table = "steps"
                                         /\ text'[e].key = text'[d].key
  <2>1. d \in Finished /\ d \in documents /\ text'[d] = text[d]
    BY <1>6
  <2>2. \/ StepsOf(d) = FirstSteps(d, text[d].steps)
        \/ /\ StepsOf(d) = {}
           /\ \E e \in documents : e > d /\ text[e].table = "steps"
                                    /\ text[e].key = text[d].key
    BY <1>6, <2>1 DEF StepsInv
  <2>3. CASE StepsOf(d) = FirstSteps(d, text[d].steps)
    <3>1. StepsOf(d)' = StepsOf(d)
      BY DEF StepsOf
    <3>2. FirstSteps(d, text[d].steps)' = FirstSteps(d, text[d].steps)
      BY <2>1 DEF FirstSteps
    <3> QED BY <2>3, <3>1, <3>2
  <2>4. CASE /\ StepsOf(d) = {}
             /\ \E e \in documents : e > d /\ text[e].table = "steps"
                                    /\ text[e].key = text[d].key
    <3>1. StepsOf(d)' = {}
      BY <2>4 DEF StepsOf
    <3> QED BY <2>1, <2>4, <3>1
  <2> QED BY <2>2, <2>3, <2>4
<1> QED BY <1>3, <1>4, <1>5, <1>6 DEF StepsInv

\* The steps of the category and action are deleted.
LEMMA StepsDeleted ==
  ASSUME ProgressInv, StepsInv, DeleteSteps
  PROVE  StepsInv'
<1>1. /\ doc \in Docs /\ stage = "delete" /\ text[doc].steps >= 2
      /\ steps' = {r \in steps : r.key # text[doc].key}
      /\ stage' = "insert"
      /\ text' = text /\ doc' = doc /\ documents' = documents /\ loaded' = loaded
  BY DEF DeleteSteps
<1>2. /\ doc \in documents /\ loaded \subseteq documents /\ loaded \subseteq 1..(doc - 1)
      /\ text[doc].table = "steps"
  BY <1>1 DEF ProgressInv, Loop
<1>3. text[doc].steps \in Nat /\ doc \in Nat
  BY <1>2, ProgressFacts
<1>4. Finished' = loaded /\ Finished = loaded
  BY <1>1 DEF Finished
<1>5. \A d, m : FirstSteps(d, m)' = FirstSteps(d, m)
  BY <1>1 DEF FirstSteps
<1>6. \A r \in steps : /\ r \in FirstSteps(r.doc, text[r.doc].steps)
                       /\ r.key = text[r.doc].key
                       /\ r.doc \in documents /\ text[r.doc].table = "steps"
                       /\ r.doc # doc
  <2>1. \A r \in steps : /\ r \in FirstSteps(r.doc, text[r.doc].steps)
                         /\ r.doc \in documents /\ text[r.doc].table = "steps"
                         /\ r.doc # doc
    BY <1>1 DEF StepsInv
  <2>2. \A d, m : \A r \in FirstSteps(d, m) : r.key = text[d].key
    BY DEF FirstSteps
  <2> QED BY <2>1, <2>2
<1>7. ASSUME NEW r \in steps'
      PROVE  /\ r \in FirstSteps(r.doc, text[r.doc].steps)'
             /\ r.doc \in documents' /\ text'[r.doc].table = "steps"
             /\ r.doc = doc' => stage' \in {"insert", "extend"}
  <2>1. r \in steps
    BY <1>1
  <2>2. FirstSteps(r.doc, text[r.doc].steps)' = FirstSteps(r.doc, text[r.doc].steps)
    BY <1>1 DEF FirstSteps
  <2> QED BY <1>1, <1>6, <2>1, <2>2
<1>8. \A r, q \in steps' : r.key = q.key => r.doc = q.doc
  BY <1>1 DEF StepsInv
<1>9. /\ \A r \in steps' : r.key = text'[doc'].key => r.doc = doc'
      /\ \E m \in 0..(text'[doc'].steps - 1) : StepsOf(doc)' = FirstSteps(doc, m)'
  <2>1. StepsOf(doc)' = {}
    BY <1>1, <1>6 DEF StepsOf
  <2>2. FirstSteps(doc, 0)' = {}
    BY DEF FirstSteps
  <2>3. 0 \in 0..(text'[doc'].steps - 1)
    BY <1>1, <1>3
  <2>4. \A r \in steps' : r.key = text'[doc'].key => r.doc = doc'
    BY <1>1
  <2> QED BY <2>1, <2>2, <2>3, <2>4
<1>10. ASSUME NEW d \in loaded, text[d].table = "steps"
       PROVE  \/ StepsOf(d)' = FirstSteps(d, text[d].steps)
              \/ /\ StepsOf(d)' = {}
                 /\ \E e \in documents : e > d /\ text[e].table = "steps"
                                         /\ text[e].key = text[d].key
  <2>1. \/ StepsOf(d) = FirstSteps(d, text[d].steps)
        \/ /\ StepsOf(d) = {}
           /\ \E e \in documents : e > d /\ text[e].table = "steps"
                                    /\ text[e].key = text[d].key
    BY <1>4, <1>10 DEF StepsInv
  <2>2. d \in 1..(doc - 1)
    BY <1>2
  <2>3. doc > d
    BY <1>3, <2>2
  <2>4. CASE text[d].key = text[doc].key
    <3>1. StepsOf(d)' = {}
      BY <1>1, <1>6, <2>4 DEF StepsOf
    <3> QED BY <1>2, <2>3, <2>4, <3>1
  <2>5. CASE text[d].key # text[doc].key
    <3>1. StepsOf(d)' = StepsOf(d)
      <4>1. \A r \in steps : r.doc = d => r \in steps'
        BY <1>1, <1>6, <2>5
      <4> QED BY <1>1, <4>1 DEF StepsOf
    <3> QED BY <2>1, <3>1
  <2> QED BY <2>4, <2>5
<1>11. ASSUME NEW d \in Finished', text'[d].table = "steps"
       PROVE  \/ StepsOf(d)' = FirstSteps(d, text[d].steps)'
              \/ /\ StepsOf(d)' = {}
                 /\ \E e \in documents' : e > d /\ text'[e].table = "steps"
                                         /\ text'[e].key = text'[d].key
  <2>1. FirstSteps(d, text[d].steps)' = FirstSteps(d, text[d].steps)
    BY <1>1 DEF FirstSteps
  <2> QED BY <1>1, <1>4, <1>10, <1>11, <2>1
<1> QED BY <1>7, <1>8, <1>9, <1>11 DEF StepsInv

\* One step of the document more.
LEMMA StepInserted ==
  ASSUME ProgressInv, StepsInv, InsertStep
  PROVE  StepsInv'
<1> DEFINE number == Cardinality({r \in steps : r.doc = doc}) + 1
           s == [key |-> text[doc].key, number |-> number, doc |-> doc]
           limit == text[doc].steps
<1>1. /\ doc \in Docs /\ stage = "insert"
      /\ steps' = steps \cup {s}
      /\ stage' = IF number = limit THEN "extend" ELSE "insert"
      /\ text' = text /\ doc' = doc /\ documents' = documents /\ loaded' = loaded
  BY DEF InsertStep
<1>2. /\ doc \in documents /\ loaded \subseteq documents /\ doc \notin loaded
      /\ text[doc].table = "steps" /\ limit \in Nat
  <2>1. /\ doc \in documents /\ loaded \subseteq documents /\ text[doc].table = "steps"
    BY <1>1 DEF ProgressInv, Loop
  <2> QED BY <2>1, ProgressFacts
<1>3. PICK m \in 0..(limit - 1) : StepsOf(doc) = FirstSteps(doc, m)
  BY <1>1 DEF StepsInv
<1>4. m \in Nat /\ number = m + 1 /\ number \in 1..limit
  <2>1. m \in Nat /\ m + 1 \in 1..limit
    BY <1>2, <1>3
  <2>2. Cardinality(FirstSteps(doc, m)) = m
    BY <2>1, NumberOfSteps
  <2>3. {r \in steps : r.doc = doc} = FirstSteps(doc, m)
    BY <1>3 DEF StepsOf
  <2>4. number = m + 1
    BY <2>2, <2>3
  <2> HIDE DEF number, limit
  <2> QED BY <2>1, <2>4
<1>5. s.key = text[doc].key /\ s.number = number /\ s.doc = doc /\ s \in FirstSteps(doc, limit)
  <2>1. s.key = text[doc].key /\ s.number = number /\ s.doc = doc
    OBVIOUS
  <2> HIDE DEF number, limit
  <2>2. s \in FirstSteps(doc, limit)
    BY <1>4 DEF FirstSteps
  <2> QED BY <2>1, <2>2
<1>6. StepsOf(doc)' = FirstSteps(doc, m + 1)
  <2>1. 1..(m + 1) = 1..m \cup {m + 1}
    BY <1>4
  <2>2. s = [key |-> text[doc].key, number |-> m + 1, doc |-> doc]
    BY <1>4
  <2> HIDE DEF number, s
  <2>3. FirstSteps(doc, m + 1) = FirstSteps(doc, m) \cup {s}
    BY <2>1, <2>2 DEF FirstSteps
  <2>4. {r \in steps' : r.doc = doc} = {r \in steps : r.doc = doc} \cup {s}
    BY <1>1, <1>5
  <2> QED BY <1>1, <1>3, <2>3, <2>4 DEF StepsOf
<1> HIDE DEF number, s
<1>7. \A d, n : FirstSteps(d, n)' = FirstSteps(d, n)
  BY <1>1 DEF FirstSteps
<1>8. \A r \in steps : /\ r \in FirstSteps(r.doc, text[r.doc].steps)
                       /\ r.doc \in documents /\ text[r.doc].table = "steps"
                       /\ r.key = text[doc].key => r.doc = doc
  BY <1>1 DEF StepsInv
<1>9. ASSUME NEW r \in steps'
      PROVE  /\ r \in FirstSteps(r.doc, text[r.doc].steps)'
             /\ r.doc \in documents' /\ text'[r.doc].table = "steps"
             /\ r.doc = doc' => stage' \in {"insert", "extend"}
  <2>1. r \in FirstSteps(r.doc, text[r.doc].steps) /\ r.doc \in documents /\ text[r.doc].table = "steps"
    BY <1>1, <1>2, <1>5, <1>8
  <2>2. FirstSteps(r.doc, text[r.doc].steps)' = FirstSteps(r.doc, text[r.doc].steps)
    BY <1>1 DEF FirstSteps
  <2> QED BY <1>1, <2>1, <2>2
<1>10. ASSUME NEW r \in steps', NEW q \in steps', r.key = q.key PROVE r.doc = q.doc
  <2>1. CASE r \in steps /\ q \in steps
    BY <1>10, <2>1 DEF StepsInv
  <2>2. CASE r = s \/ q = s
    BY <1>1, <1>5, <1>8, <1>10, <2>2
  <2> QED BY <1>1, <2>1, <2>2
<1>11. ASSUME stage' = "insert"
       PROVE  /\ \A r \in steps' : r.key = text'[doc'].key => r.doc = doc'
              /\ \E n \in 0..(text'[doc'].steps - 1) : StepsOf(doc)' = FirstSteps(doc, n)'
  <2>1. \A r \in steps' : r.key = text'[doc'].key => r.doc = doc'
    BY <1>1, <1>5, <1>8
  <2>2. m + 1 \in 0..(limit - 1)
    <3>1. m + 1 # limit
      BY <1>1, <1>4, <1>11
    <3> HIDE DEF limit
    <3> QED BY <1>2, <1>4, <3>1
  <2>3. FirstSteps(doc, m + 1)' = FirstSteps(doc, m + 1)
    BY <1>1 DEF FirstSteps
  <2>4. StepsOf(doc)' = FirstSteps(doc, m + 1)'
    BY <1>6, <2>3
  <2>5. m + 1 \in 0..(text'[doc'].steps - 1)
    BY <1>1, <2>2
  <2> QED BY <2>1, <2>4, <2>5
<1>12. ASSUME NEW d \in Finished', text'[d].table = "steps"
       PROVE  \/ StepsOf(d)' = FirstSteps(d, text[d].steps)'
              \/ /\ StepsOf(d)' = {}
                 /\ \E e \in documents' : e > d /\ text'[e].table = "steps"
                                         /\ text'[e].key = text'[d].key
  <2>1. FirstSteps(d, text[d].steps)' = FirstSteps(d, text[d].steps)
    BY <1>1 DEF FirstSteps
  <2>2. CASE d \in loaded
    <3>1. \/ StepsOf(d) = FirstSteps(d, text[d].steps)
          \/ /\ StepsOf(d) = {}
             /\ \E e \in documents : e > d /\ text[e].table = "steps"
                                      /\ text[e].key = text[d].key
      BY <1>1, <1>12, <2>2 DEF StepsInv, Finished
    <3>2. StepsOf(d)' = StepsOf(d)
      <4>1. d # doc
        BY <1>2, <2>2
      <4> QED BY <1>1, <1>5, <4>1 DEF StepsOf
    <3> QED BY <1>1, <2>1, <3>1, <3>2
  <2>3. CASE d \notin loaded
    <3>1. d = doc /\ stage' = "extend"
      BY <1>1, <2>3 DEF Finished
    <3>2. m + 1 = limit
      BY <1>1, <1>4, <3>1
    <3>3. StepsOf(doc)' = {r \in steps' : r.doc = d} /\ StepsOf(d)' = {r \in steps' : r.doc = d}
      BY <1>1, <3>1 DEF StepsOf
    <3>4. StepsOf(d)' = FirstSteps(d, text[d].steps)
      BY <1>6, <3>1, <3>2, <3>3
    <3> QED BY <2>1, <3>4
  <2> QED BY <2>2, <2>3
<1> QED BY <1>9, <1>10, <1>11, <1>12 DEF StepsInv

\* The steps of a category stay those of one document.
LEMMA StepsStep == LoadingInv /\ [Next]_vars => StepsInv'
<1> SUFFICES ASSUME LoadingInv, [Next]_vars PROVE StepsInv'
  OBVIOUS
<1>1. ProgressInv /\ StepsInv
  BY DEF LoadingInv
<1>2. /\ stage \in Loop <=> doc \in Docs
      /\ documents \subseteq 1..doc /\ documents \subseteq Docs
      /\ stage = "extract" => doc \notin documents
      /\ stage \in Loop \ {"extract"} => doc \in documents
      /\ loaded \subseteq documents /\ loaded \subseteq 1..(doc - 1)
      /\ stage = "rows" => text[doc].table # "steps"
      /\ DOMAIN text = Docs
  BY <1>1 DEF ProgressInv
<1>3. /\ Documents \in Nat /\ doc \in Nat
      /\ doc \in Docs => doc + 1 \in 2..(Documents + 1)
  BY <1>1, ProgressFacts
<1>4. Finished \subseteq documents /\ loaded \subseteq Finished
  BY <1>2 DEF Finished, Loop
<1>5. \A r \in steps : r.doc \in documents /\ (r.doc = doc => stage \in {"insert", "extend"})
  BY <1>1 DEF StepsInv
<1>6. CASE SyncDocument
  <2>1. /\ doc \in Docs /\ stage = "extract" /\ steps' = steps /\ doc' = doc /\ loaded' = loaded
        /\ documents' = documents \cup {doc}
    BY <1>6 DEF SyncDocument
  <2>2. PICK t \in Texts[doc] : /\ text' = [text EXCEPT ![doc] = t]
                                /\ stage' = IF t.table = "steps" THEN "delete" ELSE "rows"
    BY <1>6 DEF SyncDocument
  <2>3. \A d \in documents : text'[d] = text[d]
    BY <1>2, <2>1, <2>2
  <2>4. Finished' \subseteq Finished /\ stage' # "insert"
    BY <1>4, <2>1, <2>2 DEF Finished
  <2>5. \A r \in steps : r.doc # doc'
    BY <1>5, <2>1
  <2> QED BY <1>1, <1>4, <2>1, <2>3, <2>4, <2>5, StepsKept
<1>7. CASE Writes /\ \E w : WritesRow(w)
  <2>1. /\ stage = "rows" /\ stage' = "extend" /\ steps' = steps /\ text' = text
        /\ documents' = documents /\ doc' = doc /\ loaded' = loaded
    BY <1>7 DEF WritesRow
  <2>2. \A d \in Finished' : text'[d].table = "steps" => d \in Finished
    BY <1>2, <1>4, <2>1 DEF Finished
  <2>3. \A r \in steps : r.doc # doc'
    BY <1>5, <2>1
  <2>4. stage' # "insert"
    BY <2>1
  <2> QED BY <1>1, <1>4, <2>1, <2>2, <2>3, <2>4, StepsKept
<1>8. CASE ExtendChunks \/ Fails
  <2>1. /\ doc \in Docs /\ text' = text /\ documents' = documents /\ steps' = steps
        /\ \/ loaded' = loaded \cup {doc} /\ stage = "extend" /\ GoTo(doc + 1, failures)
           \/ loaded' = loaded /\ GoTo(doc + 1, failures + 1)
    <3>1. CASE ExtendChunks
      BY <3>1 DEF ExtendChunks, Tables
    <3>2. CASE Fails
      BY <3>2 DEF Fails, Tables
    <3> QED BY <1>8, <3>1, <3>2
  <2>2. /\ doc' = doc + 1 /\ stage' \in {"extract", "aborted", "start"}
        /\ \/ loaded' = loaded \cup {doc} /\ stage = "extend"
           \/ loaded' = loaded
    <3>1. doc + 1 \in 2..(Documents + 1)
      BY <1>3, <2>1
    <3> QED BY <2>1, <3>1, GoingTo
  <2>3. Finished' \subseteq Finished /\ stage' # "insert"
    BY <2>2 DEF Finished
  <2>4. \A r \in steps : r.doc # doc'
    <3>1. doc + 1 \notin 1..doc
      BY <1>3
    <3> QED BY <1>2, <1>5, <2>2, <3>1
  <2> QED BY <1>1, <1>4, <2>1, <2>3, <2>4, StepsKept
<1>9. CASE GoesOn
  <2>1. /\ stage \notin Loop /\ text' = text /\ documents' = documents /\ steps' = steps
        /\ doc' = doc /\ loaded' = loaded /\ stage' # "extend" /\ stage' # "insert"
    BY <1>9 DEF GoesOn, Tables, Ended
  <2>2. Finished' \subseteq Finished
    BY <2>1 DEF Finished
  <2>3. \A r \in steps : r.doc # doc'
    BY <1>2, <1>5, <2>1
  <2> QED BY <1>1, <1>4, <2>1, <2>2, <2>3, StepsKept
<1>10. CASE UNCHANGED vars
  <2>1. UNCHANGED <<text, doc, stage, documents, steps, loaded>>
    BY <1>10 DEF vars
  <2>2. Finished' = Finished /\ (stage' = "insert" => doc \in documents)
    BY <1>2, <2>1 DEF Finished, Loop
  <2> QED BY <1>1, <1>4, <1>5, <2>1, <2>2, StepsKept
<1> QED BY <1>1, <1>6, <1>7, <1>8, <1>9, <1>10, StepsDeleted, StepInserted, Steps

\* What was loaded stays what it is.
LEMMA LoadedKept ==
  ASSUME \A d \in loaded : text'[d] = text[d], loaded' = loaded
  PROVE  Loaded' = Loaded
<1>1. \A d \in loaded : Tags(d)' = Tags(d)
  <2>1. TAKE d \in loaded
  <2>2. Tags(d)' = {Tagged(d, Chunks(text'[d])[i]) : i \in 1..Len(Chunks(text'[d]))}
    BY DEF Tags
  <2>3. text'[d] = text[d]
    OBVIOUS
  <2> QED BY <2>2, <2>3 DEF Tags
<1>2. Loaded' = UNION {Tags(d)' : d \in loaded}
  BY DEF Loaded
<1> QED BY <1>1, <1>2 DEF Loaded

\* Steps that leave the chunks alone keep the index.
LEMMA IndexKept ==
  ASSUME IndexInv, chunks' = chunks, embedded' = embedded, points' = points,
         \A d \in loaded : text'[d] = text[d], loaded' = loaded,
         \/ stage \in Loop /\ stage' \in Loop \cup {"aborted", "start"}
         \/ stage' = stage \/ stage' = "aborted"
         \/ stage = "smoke" /\ stage' = "published"
  PROVE  IndexInv'
<1>1. Loaded' = Loaded
  BY LoadedKept
<1>2. ToSet(chunks)' = ToSet(chunks)
  BY DEF ToSet
<1> HIDE DEF Loaded
<1>3. /\ chunks \in Seq(Loaded) /\ ToSet(chunks) = Loaded
      /\ \A i, j \in 1..Len(chunks) : SamePoint(chunks[i], chunks[j]) => i = j
      /\ embedded \in 0..Len(chunks)
      /\ stage \in {"upsert", "smoke", "published"} => embedded = Len(chunks)
      /\ points \in {{}, Loaded}
      /\ stage \in Loop \cup {"start"} => points = {}
      /\ stage \in {"smoke", "published"} => points = Loaded
  BY DEF IndexInv
<1>4. /\ stage' \in {"upsert", "smoke", "published"} => stage \in {"upsert", "smoke", "published"}
      /\ stage' \in Loop \cup {"start"} => stage \in Loop \cup {"start"}
      /\ stage' \in {"smoke", "published"} => stage \in {"smoke", "published"}
  BY DEF Loop
<1>5. \A i, j \in 1..Len(chunks') : SamePoint(chunks'[i], chunks'[j]) => i = j
  BY <1>3
<1>6. /\ chunks' \in Seq(Loaded') /\ ToSet(chunks)' = Loaded'
      /\ embedded' \in 0..Len(chunks')
      /\ points' \in {{}, Loaded'}
  BY <1>1, <1>2, <1>3
<1> QED BY <1>1, <1>2, <1>3, <1>4, <1>5, <1>6, Zenon DEF IndexInv

\* The chunks of a document are added.
LEMMA IndexExtended ==
  ASSUME ProgressInv, IndexInv, ExtendChunks
  PROVE  IndexInv'
<1> DEFINE C == Chunks(text[doc])
           new == [i \in 1..Len(C) |-> Tagged(doc, C[i])]
           M == Len(C)  N == Len(chunks)
<1>1. /\ doc \in Docs /\ stage = "extend" /\ text' = text
      /\ loaded' = loaded \cup {doc} /\ chunks' = chunks \o new
      /\ GoTo(doc + 1, failures) /\ embedded' = embedded /\ points' = points
  BY DEF ExtendChunks, Index
<1>2. /\ doc \in documents /\ loaded \subseteq documents /\ doc \notin loaded
      /\ doc + 1 \in 2..(Documents + 1)
      /\ \A d \in documents : IsText(text[d])
  <2>1. doc \in documents /\ loaded \subseteq documents
    BY <1>1 DEF ProgressInv, Loop
  <2> QED BY <1>1, <2>1, ProgressFacts
<1>3. stage' \in {"extract", "aborted", "start"}
  BY <1>1, <1>2, GoingTo
<1>4. /\ chunks \in Seq(Loaded) /\ ToSet(chunks) = Loaded
      /\ \A i, j \in 1..N : SamePoint(chunks[i], chunks[j]) => i = j
      /\ embedded \in 0..N /\ points = {}
  BY <1>1 DEF IndexInv, Loop
<1>5. M \in Nat /\ N \in Nat
  BY <1>2, <1>4, ChunksShape, LenProperties
<1> HIDE DEF C, M, N
<1>6. /\ Len(new) = M /\ DOMAIN new = 1..M
      /\ \A i \in 1..M : new[i] = Tagged(doc, C[i])
  BY <1>5 DEF M
<1>7. Tags(doc) = {new[i] : i \in 1..M}
  BY <1>6 DEF Tags, C, M
<1>8. Loaded' = Loaded \cup Tags(doc)
  <2>1. \A d : Tags(d)' = Tags(d)
    <3>1. TAKE d
    <3>2. Tags(d)' = {Tagged(d, Chunks(text'[d])[i]) : i \in 1..Len(Chunks(text'[d]))}
      BY DEF Tags
    <3> QED BY <1>1, <3>2 DEF Tags
  <2>2. Loaded' = UNION {Tags(d)' : d \in loaded'}
    BY DEF Loaded
  <2>3. Loaded' = UNION {Tags(d) : d \in loaded \cup {doc}}
    BY <1>1, <2>1, <2>2
  <2> QED BY <2>3 DEF Loaded
<1>9. chunks \in Seq(Loaded') /\ new \in Seq(Loaded')
  <2>1. Loaded \subseteq Loaded' /\ \A i \in 1..M : new[i] \in Loaded'
    BY <1>7, <1>8
  <2> DEFINE S == Loaded'
  <2>2. new = [i \in 1..M |-> new[i]]
    BY <1>6
  <2> HIDE DEF S, new, Loaded
  <2>3. new \in [1..M -> S]
    BY <2>1, <2>2 DEF S
  <2>4. new \in Seq(S)
    BY <1>5, <2>3
  <2>5. chunks \in Seq(S)
    BY <1>4, <2>1, SeqMonotonic DEF S
  <2> QED BY <2>4, <2>5 DEF S
<1> HIDE DEF new
<1>10. /\ chunks' \in Seq(Loaded') /\ Len(chunks') = N + M
       /\ \A i \in 1..(N + M) : chunks'[i] = IF i <= N THEN chunks[i] ELSE new[i - N]
  <2> DEFINE S == Loaded'
  <2>1. chunks \in Seq(S) /\ new \in Seq(S)
    BY <1>9
  <2> HIDE DEF S
  <2>2. /\ chunks \o new \in Seq(S) /\ Len(chunks \o new) = Len(chunks) + Len(new)
        /\ \A i \in 1..(Len(chunks) + Len(new)) :
             (chunks \o new)[i] = IF i <= Len(chunks) THEN chunks[i] ELSE new[i - Len(chunks)]
    BY <2>1, ConcatProperties
  <2> QED BY <1>1, <1>6, <2>2 DEF S, N
<1>11. ToSet(chunks)' = Loaded'
  <2> DEFINE S == Loaded'
  <2>1. chunks \in Seq(S) /\ new \in Seq(S)
    BY <1>9
  <2> HIDE DEF S
  <2>2. ToSet(chunks \o new) = ToSet(chunks) \cup ToSet(new)
    BY <2>1, ToSetConcat
  <2>3. ToSet(chunks)' = ToSet(chunks \o new)
    BY <1>1 DEF ToSet
  <2>4. ToSet(new) = Tags(doc)
    BY <1>6, <1>7 DEF ToSet
  <2> QED BY <1>4, <1>8, <2>2, <2>3, <2>4
<1>12. ASSUME NEW i \in 1..N, NEW j \in 1..M PROVE ~SamePoint(chunks[i], new[j]) /\ ~SamePoint(new[j], chunks[i])
  <2>1. chunks[i] \in Loaded
    BY <1>4, ElementOfSeq DEF N
  <2>2. PICK d \in loaded : chunks[i] \in Tags(d)
    BY <2>1 DEF Loaded
  <2>3. PICK k \in 1..Len(Chunks(text[d])) : chunks[i] = Tagged(d, Chunks(text[d])[k])
    BY <2>2 DEF Tags
  <2>4. new[j] = Tagged(doc, C[j])
    BY <1>6
  <2>5. d # doc
    BY <1>2
  <2>6. chunks[i].doc = d /\ new[j].doc = doc
    BY <2>3, <2>4 DEF Tagged
  <2> QED BY <2>5, <2>6 DEF SamePoint
<1>13. ASSUME NEW i \in 1..M, NEW j \in 1..M, SamePoint(new[i], new[j]) PROVE i = j
  <2>1. new[i] = Tagged(doc, Chunks(text[doc])[i]) /\ new[j] = Tagged(doc, Chunks(text[doc])[j])
    BY <1>6 DEF C
  <2>2. i \in 1..Len(Chunks(text[doc])) /\ j \in 1..Len(Chunks(text[doc]))
    BY DEF M, C
  <2>3. SamePoint(Tagged(doc, Chunks(text[doc])[i]), Tagged(doc, Chunks(text[doc])[j]))
    BY <1>13, <2>1
  <2> QED BY <1>2, <2>2, <2>3, TagsApart
<1>14. ASSUME NEW i \in 1..(N + M), NEW j \in 1..(N + M), SamePoint(chunks'[i], chunks'[j])
       PROVE  i = j
  <2>1. \A k \in 1..(N + M) : \/ k \in 1..N /\ chunks'[k] = chunks[k]
                              \/ k - N \in 1..M /\ chunks'[k] = new[k - N]
    <3>1. TAKE k \in 1..(N + M)
    <3>2. CASE k <= N
      BY <1>5, <1>10, <3>2
    <3>3. CASE ~(k <= N)
      BY <1>5, <1>10, <3>3
    <3> QED BY <3>2, <3>3
  <2>2. CASE i \in 1..N /\ chunks'[i] = chunks[i]
    <3>1. CASE j \in 1..N /\ chunks'[j] = chunks[j]
      BY <1>4, <1>14, <2>2, <3>1
    <3>2. CASE j - N \in 1..M /\ chunks'[j] = new[j - N]
      BY <1>12, <1>14, <2>2, <3>2
    <3> QED BY <2>1, <3>1, <3>2
  <2>3. CASE i - N \in 1..M /\ chunks'[i] = new[i - N]
    <3>1. CASE j \in 1..N /\ chunks'[j] = chunks[j]
      BY <1>12, <1>14, <2>3, <3>1
    <3>2. CASE j - N \in 1..M /\ chunks'[j] = new[j - N]
      <4>1. i - N = j - N
        BY <1>13, <1>14, <2>3, <3>2
      <4> QED BY <1>5, <4>1
    <3> QED BY <2>1, <3>1, <3>2
  <2> QED BY <2>1, <2>2, <2>3
<1>15. embedded' \in 0..Len(chunks')
  BY <1>1, <1>4, <1>5, <1>10
<1>16. points' = {}
  BY <1>1, <1>4
<1>17. stage' \notin {"upsert", "smoke", "published"}
  BY <1>3
<1>18. \A i, j \in 1..Len(chunks') : SamePoint(chunks'[i], chunks'[j]) => i = j
  BY <1>10, <1>14
<1> HIDE DEF Loaded
<1> QED BY <1>10, <1>11, <1>15, <1>16, <1>17, <1>18 DEF IndexInv

\* What is upserted is everything.
LEMMA IndexUpserted ==
  ASSUME IndexInv, UpsertChunks
  PROVE  IndexInv'
<1> DEFINE N == Len(chunks)  pairs == SubSeq(chunks, 1, embedded)
           lastOf == {i \in 1..Len(pairs) : \A j \in (i + 1)..Len(pairs) : ~SamePoint(pairs[i], pairs[j])}
<1>1. /\ stage = "upsert" /\ text' = text /\ loaded' = loaded /\ chunks' = chunks
      /\ embedded' = embedded /\ points' = {pairs[i] : i \in lastOf}
      /\ stage' \in {"aborted", "smoke"}
  BY DEF UpsertChunks, Tables
<1>2. /\ chunks \in Seq(Loaded) /\ ToSet(chunks) = Loaded
      /\ \A i, j \in 1..N : SamePoint(chunks[i], chunks[j]) => i = j
      /\ embedded \in 0..N /\ embedded = N
  BY <1>1 DEF IndexInv
<1>3. pairs = chunks /\ N \in Nat /\ DOMAIN chunks = 1..N
  BY <1>2, SubSeqFull, LenProperties
<1> HIDE DEF pairs
<1>4. points' = Loaded
  <2>1. lastOf = 1..N
    <3>1. \A i \in 1..N : \A j \in (i + 1)..N : j \in 1..N /\ j # i
      BY <1>3
    <3>2. \A i \in 1..N : \A j \in (i + 1)..N : ~SamePoint(chunks[i], chunks[j])
      BY <1>2, <3>1
    <3> QED BY <1>3, <3>2
  <2>2. points' = {chunks[i] : i \in 1..N}
    BY <1>1, <1>3, <2>1
  <2> QED BY <1>2, <1>3, <2>2 DEF ToSet
<1>5. Loaded' = Loaded
  BY <1>1, LoadedKept
<1> HIDE DEF Loaded, N
<1>6. ToSet(chunks)' = ToSet(chunks)
  BY <1>1 DEF ToSet
<1>7. \A i, j \in 1..Len(chunks') : SamePoint(chunks'[i], chunks'[j]) => i = j
  BY <1>1, <1>2 DEF N
<1>8. /\ chunks' \in Seq(Loaded') /\ ToSet(chunks)' = Loaded'
      /\ embedded' \in 0..Len(chunks') /\ embedded' = Len(chunks')
      /\ points' \in {{}, Loaded'} /\ points' = Loaded'
  BY <1>1, <1>2, <1>4, <1>5, <1>6 DEF N
<1>9. stage' \notin Loop \cup {"start"}
  BY <1>1 DEF Loop
<1> QED BY <1>7, <1>8, <1>9, Zenon DEF IndexInv

\* The chunks and the points stay those of the documents that were loaded.
LEMMA IndexStep == LoadingInv /\ [Next]_vars => IndexInv'
<1> SUFFICES ASSUME LoadingInv, [Next]_vars PROVE IndexInv'
  OBVIOUS
<1> USE DEF Tables, Index
<1>1. ProgressInv /\ IndexInv
  BY DEF LoadingInv
<1>2. /\ stage = "extract" => doc \notin documents
      /\ loaded \subseteq documents /\ DOMAIN text = Docs /\ documents \subseteq Docs
  BY <1>1 DEF ProgressInv
<1>3. /\ chunks \in Seq(Loaded) /\ ToSet(chunks) = Loaded
      /\ \A i, j \in 1..Len(chunks) : SamePoint(chunks[i], chunks[j]) => i = j
      /\ embedded \in 0..Len(chunks)
      /\ points \in {{}, Loaded}
      /\ stage = "start" => points = {}
      /\ Len(chunks) \in Nat
  BY <1>1, LenProperties DEF IndexInv
<1>4. CASE SyncDocument
  <2>1. /\ doc \in Docs /\ stage = "extract" /\ loaded' = loaded /\ chunks' = chunks
        /\ embedded' = embedded /\ points' = points
    BY <1>4 DEF SyncDocument
  <2>2. PICK t \in Texts[doc] : /\ text' = [text EXCEPT ![doc] = t]
                                /\ stage' = IF t.table = "steps" THEN "delete" ELSE "rows"
    BY <1>4 DEF SyncDocument
  <2>3. \A d \in loaded : text'[d] = text[d]
    BY <1>2, <2>1, <2>2
  <2>4. stage \in Loop /\ stage' \in Loop
    BY <2>1, <2>2 DEF Loop
  <2> QED BY <1>1, <2>1, <2>3, <2>4, IndexKept
<1>5. CASE DeleteSteps \/ InsertStep \/ \E w : WritesRow(w)
  <2>1. /\ stage \in Loop /\ stage' \in Loop /\ loaded' = loaded /\ chunks' = chunks
        /\ embedded' = embedded /\ points' = points /\ text' = text
    <3>1. CASE DeleteSteps
      BY <3>1 DEF DeleteSteps, Loop
    <3>2. CASE InsertStep
      BY <3>2 DEF InsertStep, Loop
    <3>3. CASE \E w : WritesRow(w)
      BY <3>3 DEF WritesRow, Loop
    <3> QED BY <1>5, <3>1, <3>2, <3>3
  <2> QED BY <1>1, <2>1, IndexKept
<1>6. CASE Fails
  <2>1. /\ doc \in Docs /\ stage \in Loop /\ GoTo(doc + 1, failures + 1)
        /\ loaded' = loaded /\ chunks' = chunks
        /\ embedded' = embedded /\ points' = points /\ text' = text
    BY <1>6 DEF Fails, Loop
  <2>2. stage' \in Loop \cup {"aborted", "start"}
    <3>1. doc + 1 \in 2..(Documents + 1)
      BY <1>1, <2>1, ProgressFacts
    <3> QED BY <2>1, <3>1, GoingTo DEF Loop
  <2> QED BY <1>1, <2>1, <2>2, IndexKept
<1>7. CASE StartEmbedding
  <2>1. /\ stage = "start" /\ chunks' = Dedup(chunks) /\ text' = text /\ loaded' = loaded
        /\ embedded' = embedded /\ points' = points
        /\ stage' = IF chunks = <<>> THEN "upsert" ELSE "embed"
    BY <1>7 DEF StartEmbedding
  <2>2. chunks' = chunks
    <3> DEFINE S == Loaded
    <3>1. chunks \in Seq(S)
      BY <1>3
    <3> HIDE DEF S
    <3>2. Dedup(chunks) = chunks
      BY <1>3, <3>1, NoDuplicates
    <3> QED BY <2>1, <3>2
  <2>3. Loaded' = Loaded
    BY <2>1, LoadedKept
  <2> HIDE DEF Loaded
  <2>4. ToSet(chunks)' = ToSet(chunks)
    BY <2>2 DEF ToSet
  <2>5. \A i, j \in 1..Len(chunks') : SamePoint(chunks'[i], chunks'[j]) => i = j
    BY <1>3, <2>2
  <2>6. stage' = "upsert" => embedded' = Len(chunks')
    BY <1>3, <2>1, <2>2
  <2>7. stage' \notin Loop \cup {"start"} /\ stage' \notin {"smoke", "published"}
    BY <2>1 DEF Loop
  <2>8. /\ chunks' \in Seq(Loaded') /\ ToSet(chunks)' = Loaded'
        /\ embedded' \in 0..Len(chunks') /\ points' \in {{}, Loaded'}
    BY <1>3, <2>1, <2>2, <2>3, <2>4
  <2> QED BY <2>5, <2>6, <2>7, <2>8 DEF IndexInv
<1>8. CASE EmbedBatch
  <2>1. /\ stage = "embed" /\ chunks' = chunks /\ text' = text /\ loaded' = loaded
        /\ points' = points
        /\ \/ embedded + BatchSize < Len(chunks) /\ embedded' = embedded + BatchSize /\ stage' = "embed"
           \/ embedded' = Len(chunks) /\ stage' = "upsert"
    BY <1>8 DEF EmbedBatch
  <2>2. BatchSize \in Nat
    BY LoadingAssumption
  <2>3. Loaded' = Loaded
    BY <2>1, LoadedKept
  <2> HIDE DEF Loaded
  <2>4. ToSet(chunks)' = ToSet(chunks)
    BY <2>1 DEF ToSet
  <2>5. \A i, j \in 1..Len(chunks') : SamePoint(chunks'[i], chunks'[j]) => i = j
    BY <1>3, <2>1
  <2>6. embedded' \in 0..Len(chunks') /\ (stage' = "upsert" => embedded' = Len(chunks'))
    BY <1>3, <2>1, <2>2
  <2>7. stage' \notin Loop \cup {"start"} /\ stage' \notin {"smoke", "published"}
    BY <2>1 DEF Loop
  <2>8. chunks' \in Seq(Loaded') /\ ToSet(chunks)' = Loaded' /\ points' \in {{}, Loaded'}
    BY <1>3, <2>1, <2>3, <2>4
  <2> QED BY <2>5, <2>6, <2>7, <2>8 DEF IndexInv
<1>9. CASE EmbedFails
  <2>1. /\ stage' = "aborted" /\ loaded' = loaded /\ chunks' = chunks
        /\ embedded' = embedded /\ points' = points /\ text' = text
    BY <1>9 DEF EmbedFails
  <2> QED BY <1>1, <2>1, IndexKept
<1>10. CASE UpsertFails
  <2>1. /\ stage' = "aborted" /\ loaded' = loaded /\ chunks' = chunks
        /\ embedded' = embedded /\ points' = points /\ text' = text
    BY <1>10 DEF UpsertFails
  <2> QED BY <1>1, <2>1, IndexKept
<1>11. CASE SmokeTests
  <2>1. /\ stage = "smoke" /\ stage' \in {"aborted", "published"} /\ loaded' = loaded
        /\ chunks' = chunks /\ embedded' = embedded /\ points' = points /\ text' = text
    BY <1>11 DEF SmokeTests
  <2> QED BY <1>1, <2>1, IndexKept
<1>12. CASE UNCHANGED vars
  <2>1. /\ stage' = stage /\ loaded' = loaded
        /\ chunks' = chunks /\ embedded' = embedded /\ points' = points /\ text' = text
    BY <1>12 DEF vars
  <2> QED BY <1>1, <2>1, IndexKept
<1>13. CASE SyncConcessions \/ SyncSections \/ SyncToolkit \/ SyncCategories
  <2>1. \A table, w : WriteRows(table, w) => WritesRow(w)
    BY DEF WriteRows, WritesRow
  <2>2. \E table, w : WriteRows(table, w)
    BY <1>13 DEF SyncConcessions, SyncSections, SyncToolkit, SyncCategories
  <2> QED BY <1>5, <2>1, <2>2
<1> QED BY <1>1, <1>4, <1>5, <1>6, <1>7, <1>8, <1>9, <1>10, <1>11, <1>12, <1>13,
           IndexExtended, IndexUpserted DEF Next

-----------------------------------------------------------------------------
(* What a run loads *)

\* What has been loaded, at every moment of a run, for any documents and texts.
THEOREM LoadingInvariant == Spec => []LoadingInv
<1>1. LoadingInv /\ [Next]_vars => LoadingInv'
  BY ProgressStep, RowsStep, StepsStep, IndexStep DEF LoadingInv
<1> QED BY <1>1, LoadingInit, PTL DEF Spec

\* The points are of the documents that were loaded.
LEMMA PointsAreLoaded ==
  ASSUME LoadingInv, NEW p \in points
  PROVE  p.doc \in loaded
<1>1. p \in Loaded
  BY DEF LoadingInv, IndexInv
<1>2. PICK d \in loaded : p \in Tags(d)
  BY <1>1 DEF Loaded
<1> QED BY <1>2 DEF Tags, Tagged

\* However many documents fail and wherever, nothing is counted twice and
\* every row, step and point is of a document with a row of its own
\* (pipeline.py:266, pg_sync.py).
THEOREM LoadingTypeCorrect == Spec => []TypeOK
<1>1. LoadingInv => TypeOK
  <2> SUFFICES ASSUME LoadingInv PROVE TypeOK
    OBVIOUS
  <2>1. /\ doc \in 1..(Documents + 1)
        /\ stage \in Loop \cup {"start", "embed", "upsert", "smoke"} \cup Ended
        /\ documents \subseteq Docs /\ loaded \subseteq documents
        /\ failures \in Nat /\ failures + Cardinality(loaded) = doc - 1
    BY DEF LoadingInv, ProgressInv
  <2>2. Documents \in Nat
    BY LoadingAssumption
  <2>3. failures + Cardinality(loaded) <= Documents
    BY <2>1, <2>2
  <2>4. \A r \in rows : r.doc \in documents /\ r.gazette \in 0..Documents
    <3>1. \A r \in rows : r.doc \in documents /\ r.gazette \in documents \cup {0}
      BY DEF LoadingInv, RowsInv
    <3>2. documents \cup {0} \subseteq 0..Documents
      <4>1. \A d \in Docs : d \in 0..Documents
        BY <2>2 DEF Docs
      <4>2. 0 \in 0..Documents
        BY <2>2
      <4> QED BY <2>1, <4>1, <4>2
    <3> QED BY <3>1, <3>2
  <2>5. ASSUME NEW r \in steps PROVE r.doc \in documents /\ r.number \in 1..text[r.doc].steps
    <3>1. r.doc \in documents /\ r \in FirstSteps(r.doc, text[r.doc].steps)
      BY DEF LoadingInv, StepsInv
    <3> QED BY <3>1 DEF FirstSteps
  <2>6. embedded \in 0..Len(chunks)
    BY DEF LoadingInv, IndexInv
  <2>7. {p.doc : p \in points} \subseteq documents
    BY <2>1, PointsAreLoaded
  <2>8. stage \in {"extract", "delete", "insert", "rows", "extend", "start",
                   "embed", "upsert", "smoke"} \cup Ended
    BY <2>1 DEF Loop
  <2> QED BY <2>1, <2>3, <2>4, <2>5, <2>6, <2>7, <2>8 DEF TypeOK
<1> QED BY <1>1, LoadingInvariant, PTL

-----------------------------------------------------------------------------
(* The tables *)

\* A published category and action has the steps of one document, all of them.
LEMMA StepsAreSound == LoadingInv => StepsAreOneDocuments
<1> SUFFICES ASSUME LoadingInv PROVE StepsAreOneDocuments
  OBVIOUS
<1>1. \A r, q \in steps : r.key = q.key => r.doc = q.doc
  BY DEF LoadingInv, StepsInv
<1>2. ASSUME NEW d \in loaded, text[d].table = "steps"
      PROVE  LET mine == {r.number : r \in {r \in steps : r.doc = d}}
             IN  \/ mine = 1..text[d].steps
                 \/ /\ mine = {}
                    /\ \E e \in documents : e > d /\ text[e].table = "steps"
                                             /\ text[e].key = text[d].key
  <2> DEFINE mine == {r.number : r \in StepsOf(d)}
  <2>1. \/ StepsOf(d) = FirstSteps(d, text[d].steps)
        \/ /\ StepsOf(d) = {}
           /\ \E e \in documents : e > d /\ text[e].table = "steps"
                                    /\ text[e].key = text[d].key
    BY <1>2 DEF LoadingInv, StepsInv, Finished
  <2>2. ASSUME StepsOf(d) = FirstSteps(d, text[d].steps) PROVE mine = 1..text[d].steps
    <3> DEFINE N == 1..text[d].steps
               step(n) == [key |-> text[d].key, number |-> n, doc |-> d]
    <3>1. StepsOf(d) = {step(n) : n \in N}
      BY <2>2 DEF FirstSteps
    <3>2. \A n \in N : step(n).number = n
      OBVIOUS
    <3> HIDE DEF N, step
    <3>3. mine = N
      BY <3>1, <3>2
    <3> QED BY <3>3 DEF N
  <2>3. mine = {r.number : r \in {r \in steps : r.doc = d}}
    BY DEF StepsOf
  <2> QED BY <2>1, <2>2, <2>3
<1> QED BY <1>1, <1>2 DEF StepsAreOneDocuments

\* One row for every category and toolkit that was read.
LEMMA OneRowEach == LoadingInv => RowsAreSound
<1> SUFFICES ASSUME LoadingInv PROVE RowsAreSound
  OBVIOUS
<1>1. /\ \A r \in rows : r.gazette \in documents \cup {0}
      /\ \A r, q \in rows :
           \/ r.doc = q.doc
           \/ r.table = "categories" /\ q.table = "categories" /\ r.key = q.key
           => r = q
  BY DEF LoadingInv, RowsInv
<1>2. ASSUME NEW d \in loaded, text[d].table # "steps"
      PROVE  Cardinality({r \in rows : r.table = text[d].table /\ r.key = text[d].key
                                /\ (r.doc = d \/ r.table = "categories")}) = 1
  <2> DEFINE R == {r \in rows : r.table = text[d].table /\ r.key = text[d].key
                                /\ (r.doc = d \/ r.table = "categories")}
  <2>1. \E r \in R : TRUE
    BY <1>2 DEF LoadingInv, RowsInv, Finished
  <2>2. \A r, q \in R : r = q
    BY <1>1
  <2>3. PICK r \in R : R = {r}
    BY <2>1, <2>2
  <2> HIDE DEF R
  <2>4. Cardinality(R) = 1
    BY <2>3, FS_Singleton
  <2> QED BY <2>4 DEF R
<1> QED BY <1>1, <1>2 DEF RowsAreSound

\* Every statement is committed by itself (pg_sync.py:30): whatever failed
\* before or between, what is published of a document that did not fail is
\* whole, and refers to nothing that is not published with it.
THEOREM TablesSound == Spec => []TablesAreSound
<1>1. LoadingInv => TablesAreSound
  BY StepsAreSound, OneRowEach DEF TablesAreSound
<1> QED BY <1>1, LoadingInvariant, PTL

-----------------------------------------------------------------------------
(* The chunks *)

\* No chunking of any text tears a list apart (chunker.py:102).  Where text is
\* split by paragraphs (chunker.py:73), a chunk of three blocks or more is within
\* the target as the loop estimates it, each block by itself and rounded down.
THEOREM ChunkingSound == Spec => []ChunksSound
<1>1. LoadingInv => ChunksSound
  <2> SUFFICES ASSUME LoadingInv, stage = "extend"
               PROVE  /\ ListsWhole(text[doc], Chunks(text[doc]))
                      /\ SizesBounded(text[doc], Chunks(text[doc]))
    BY DEF ChunksSound
  <2>1. ProgressInv /\ doc \in documents
    BY DEF LoadingInv, ProgressInv, Loop
  <2>2. IsText(text[doc])
    BY <2>1, ProgressFacts
  <2>3. \E tables, texts : ChunksAre(text[doc], Chunks(text[doc]), tables, texts)
    BY <2>2, ChunksShape
  <2> QED BY <2>2, <2>3, ListsAreWhole, SizesAreBounded
<1> QED BY <1>1, LoadingInvariant, PTL

\* The points of a document are as many as its chunks.
LEMMA NumberOfTags ==
  ASSUME NEW d, IsText(text[d])
  PROVE  Cardinality(Tags(d)) = Len(Chunks(text[d]))
<1> DEFINE M == Len(Chunks(text[d]))
           tag(i) == Tagged(d, Chunks(text[d])[i])
           First(n) == {tag(i) : i \in 1..n}
           Good == {n \in 0..M : IsFiniteSet(First(n)) /\ Cardinality(First(n)) = n}
<1>1. M \in Nat /\ \A i \in 1..M : tag(i).index = i - 1
  BY ChunksShape DEF Tagged
<1>2. Tags(d) = First(M)
  BY DEF Tags
<1> HIDE DEF M, tag
<1>3. 0 \in Good
  <2>1. First(0) = {}
    OBVIOUS
  <2> QED BY <1>1, <2>1, FS_EmptySet
<1>4. ASSUME NEW n \in 1..M, n - 1 \in Good PROVE n \in Good
  <2>1. n \in 0..M /\ n - 1 \in Nat /\ 1..n = 1..(n - 1) \cup {n}
    BY <1>1
  <2>2. First(n) = First(n - 1) \cup {tag(n)}
    BY <2>1
  <2>3. tag(n) \notin First(n - 1)
    <3>1. SUFFICES ASSUME NEW i \in 1..(n - 1), tag(i) = tag(n) PROVE FALSE
      OBVIOUS
    <3>2. i \in 1..M
      BY <1>1
    <3>3. tag(i).index = i - 1 /\ tag(n).index = n - 1
      BY <1>1, <3>2
    <3> QED BY <3>1, <3>3
  <2>4. IsFiniteSet(First(n - 1)) /\ Cardinality(First(n - 1)) = n - 1
    BY <1>4
  <2> HIDE DEF First
  <2>5. IsFiniteSet(First(n)) /\ Cardinality(First(n)) = (n - 1) + 1
    BY <2>2, <2>3, <2>4, FS_AddElement
  <2> QED BY <2>1, <2>5
<1>5. \A n \in 0..M : n \in Good
  <2> HIDE DEF Good
  <2>1. \A n \in 1..M : n - 1 \in Good => n \in Good
    BY <1>4
  <2> QED BY <1>1, <1>3, <2>1, UpTo, Zenon
<1>6. M \in Good
  BY <1>1, <1>5
<1> QED BY <1>2, <1>6 DEF M

\* What chunks are depends on their tables and parts only.
LEMMA SameChunks ==
  ASSUME NEW t, NEW cs, NEW tables, NEW texts, ChunksAre(t, cs, tables, texts),
         NEW es, Len(es) = Len(cs), DOMAIN es = 1..Len(es),
         \A i \in 1..Len(cs) : es[i].table = cs[i].table /\ es[i].parts = cs[i].parts
  PROVE  ChunksAre(t, es, tables, texts)
<1>1. tables \in Nat /\ Len(texts) \in Nat /\ Len(cs) = tables + Len(texts)
  BY LenProperties DEF ChunksAre
<1>2. /\ \A i \in 1..tables : i \in 1..Len(cs)
      /\ \A k \in 1..Len(texts) : tables + k \in 1..Len(cs)
  BY <1>1
<1>3. /\ \A i \in 1..tables : es[i].table = i /\ es[i].parts = <<>>
      /\ \A k \in 1..Len(texts) : es[tables + k].table = 0 /\ es[tables + k].parts = texts[k]
  BY <1>2 DEF ChunksAre
<1> QED BY <1>3 DEF ChunksAre

\* Whatever failed, what the published index has of a document that was
\* loaded is its text, with nothing missing and nothing of another document
\* (chunker.py, embedder.py:62, pipeline.py:338).
THEOREM EverythingIndexed == Spec => []TextIsIndexed
<1>1. LoadingInv => TextIsIndexed
  <2> SUFFICES ASSUME LoadingInv, stage = "published" PROVE TextIsIndexed
    BY DEF TextIsIndexed
  <2>1. points = Loaded /\ ProgressInv /\ loaded \subseteq documents
    BY DEF LoadingInv, IndexInv, ProgressInv
  <2>2. {p.doc : p \in points} \subseteq loaded \cap documents
    BY <2>1, PointsAreLoaded
  <2>3. ASSUME NEW d \in loaded
        PROVE  LET n == Cardinality(PointsOf(d))
                   inOrder == [i \in 1..n |-> CHOOSE p \in PointsOf(d) : p.index = i - 1]
               IN  /\ {p.index : p \in PointsOf(d)} = 0..(n - 1)
                   /\ NothingMissing(text[d], inOrder)
    <3> DEFINE cs == Chunks(text[d])
               n == Cardinality(PointsOf(d))
               tag(i) == Tagged(d, cs[i])
               point(i) == CHOOSE p \in PointsOf(d) : p.index = i - 1
               inOrder == [i \in 1..n |-> point(i)]
    <3>1. IsText(text[d])
      BY <2>1, <2>3, ProgressFacts
    <3>2. PointsOf(d) = Tags(d)
      <4>1. \A e \in loaded : \A p \in Tags(e) : p.doc = e
        BY DEF Tags, Tagged
      <4> QED BY <2>1, <2>3, <4>1 DEF PointsOf, Loaded
    <3>3. n = Len(cs) /\ n \in Nat
      BY <3>1, <3>2, NumberOfTags, ChunksShape
    <3>4. \A i \in 1..n : /\ tag(i).index = i - 1 /\ tag(i).table = cs[i].table
                          /\ tag(i).parts = cs[i].parts
      BY <3>1, <3>3, ChunksShape DEF Tagged
    <3>5. PointsOf(d) = {tag(i) : i \in 1..n}
      BY <3>2, <3>3 DEF Tags
    <3>6. \E tables, texts : ChunksAre(text[d], cs, tables, texts)
      BY <3>1, ChunksShape
    <3> HIDE DEF cs, n, tag
    <3>7. {p.index : p \in PointsOf(d)} = 0..(n - 1)
      <4>1. \A x \in 0..(n - 1) : x + 1 \in 1..n /\ tag(x + 1).index = x
        BY <3>3, <3>4
      <4>2. \A i \in 1..n : tag(i).index \in 0..(n - 1)
        BY <3>3, <3>4
      <4> QED BY <3>5, <4>1, <4>2
    <3>8. \A i \in 1..n : point(i) = tag(i)
      <4>1. TAKE i \in 1..n
      <4>2. tag(i) \in PointsOf(d) /\ tag(i).index = i - 1
        BY <3>4, <3>5
      <4>3. \A p \in PointsOf(d) : p.index = i - 1 => p = tag(i)
        <5>1. TAKE p \in PointsOf(d)
        <5>2. HAVE p.index = i - 1
        <5>3. PICK j \in 1..n : p = tag(j)
          BY <3>5
        <5>4. j - 1 = i - 1
          BY <3>4, <5>2, <5>3
        <5>5. j = i
          BY <3>3, <5>4
        <5> QED BY <5>3, <5>5
      <4> QED BY <4>2, <4>3
    <3>9. Len(inOrder) = n /\ DOMAIN inOrder = 1..n /\ \A i \in 1..n : inOrder[i] = tag(i)
      BY <3>3, <3>8
    <3> HIDE DEF inOrder
    <3>10. \E tables, texts : ChunksAre(text[d], inOrder, tables, texts)
      <4>1. PICK tables, texts : ChunksAre(text[d], cs, tables, texts)
        BY <3>6
      <4>2. Len(inOrder) = Len(cs) /\ DOMAIN inOrder = 1..Len(inOrder)
            /\ \A i \in 1..Len(cs) : inOrder[i].table = cs[i].table /\ inOrder[i].parts = cs[i].parts
        BY <3>3, <3>4, <3>9 DEF n, cs
      <4>3. ChunksAre(text[d], inOrder, tables, texts)
        BY <4>1, <4>2, SameChunks
      <4> QED BY <4>3
    <3>11. NothingMissing(text[d], inOrder)
      BY <3>1, <3>10, NothingIsMissing
    <3> QED BY <3>7, <3>11 DEF inOrder, n
  <2> QED BY <2>2, <2>3, Zenon DEF TextIsIndexed
<1> QED BY <1>1, LoadingInvariant, PTL

-----------------------------------------------------------------------------
(* The manifest *)

\* What a run that has not recorded yet is about to record: until the cutover
\* its unchanged documents are in the manifest, after it, or without it in a dry
\* run, everything is accounted for.
Accounted == ingested \cup tolerated

Recordable ==
    /\ at \in {"detected", "processed"} =>
         \A d \in Urls : results[d] # 0 /\ d \notin changed => manifest[d] = results[d]
    /\ at \in {"published", "rehearsed", "writing"} =>
         \A d \in Urls : results[d] # 0 => <<d, results[d]>> \in Accounted

DetectionInv == DetectionTypeOK /\ Recordable /\ RecordedWasHandled

-----------------------------------------------------------------------------
\* The type invariant holds initially and is kept by every step.
LEMMA TypeInit == DetectionInit => DetectionTypeOK
<1> SUFFICES ASSUME DetectionInit PROVE DetectionTypeOK
  OBVIOUS
<1>1. 0 \in Hashes /\ 1 \in 1..MaxVersion
  BY ChangeDetectionAssumption DEF Hashes
<1>2. None \in [Urls -> Hashes] /\ version \in [Urls -> 1..MaxVersion]
  BY <1>1 DEF DetectionInit, None
<1> QED BY <1>2 DEF DetectionInit, DetectionTypeOK

LEMMA TypeStep == DetectionTypeOK /\ [DetectionNext]_detectionVars => DetectionTypeOK'
<1> SUFFICES ASSUME DetectionTypeOK, [DetectionNext]_detectionVars PROVE DetectionTypeOK'
  OBVIOUS
<1> USE ChangeDetectionAssumption DEF DetectionTypeOK, Hashes, None
<1>1. ASSUME NEW d \in Urls, Updated(d) PROVE DetectionTypeOK'
  BY <1>1 DEF Updated, records, contents, history
<1>2. ASSUME NEW d \in Urls, Downloaded(d) PROVE DetectionTypeOK'
  BY <1>2 DEF Downloaded, site, records, contents, history
<1>3. ASSUME NEW d \in Urls, DownloadFailed(d) PROVE DetectionTypeOK'
  BY <1>3 DEF DownloadFailed, site, records, contents, history
<1>4. CASE ListChanges
  BY <1>4 DEF ListChanges, records, contents, history
<1>5. CASE Scrape
  BY <1>5 DEF Scrape, site, records, contents, history
<1>6. CASE DetectChanges
  BY <1>6 DEF DetectChanges, site, records, contents, history
<1>7. CASE Process
  BY <1>7 DEF Process, site, records, history
<1>8. \A ds \in SUBSET changed : Versions(ds) \subseteq Urls \X Hashes
  BY DEF Versions
<1>9. CASE Publish
  <2>1. /\ {d \in changed : staged[d] = results[d]} \in SUBSET changed
        /\ {d \in changed : staged[d] # results[d]} \in SUBSET changed
    OBVIOUS
  <2> QED BY <1>8, <1>9, <2>1 DEF Publish, site, records
<1>10. CASE SkipCutover
  BY <1>8, <1>10 DEF SkipCutover, site, records
<1>11. CASE OpenManifest
  BY <1>11 DEF OpenManifest, site, contents, history
<1>12. CASE WriteManifest
  BY <1>12 DEF WriteManifest, site, contents, history
<1>13. CASE RunStops
  BY <1>13 DEF RunStops, site, records, contents, history
<1>14. CASE UNCHANGED detectionVars
  BY <1>14 DEF detectionVars
<1> QED
  BY <1>1, <1>2, <1>3, <1>4, <1>5, <1>6, <1>7, <1>9, <1>10, <1>11, <1>12, <1>13, <1>14
  DEF DetectionNext

\* Whatever is downloaded, recorded or cut off, versions stay versions of the
\* documents.
THEOREM DetectionTypeCorrect == DetectionSpec => []DetectionTypeOK
BY TypeInit, TypeStep, PTL DEF DetectionSpec

-----------------------------------------------------------------------------
\* The inductive step, action by action; the site's own changes touch nothing
\* that Recordable and RecordedWasHandled speak of.
LEMMA RecordStep == DetectionInv /\ [DetectionNext]_detectionVars => Recordable' /\ RecordedWasHandled'
<1> SUFFICES ASSUME DetectionInv, [DetectionNext]_detectionVars PROVE Recordable' /\ RecordedWasHandled'
  OBVIOUS
<1> USE DEF DetectionInv, Recordable, RecordedWasHandled, Accounted
<1>1. ASSUME NEW d \in Urls, Updated(d) PROVE Recordable' /\ RecordedWasHandled'
  BY <1>1 DEF Updated, records, contents, history
<1>2. ASSUME NEW d \in Urls, Downloaded(d) PROVE Recordable' /\ RecordedWasHandled'
  BY <1>2 DEF Downloaded, records, contents, history
<1>3. ASSUME NEW d \in Urls, DownloadFailed(d) PROVE Recordable' /\ RecordedWasHandled'
  BY <1>3 DEF DownloadFailed, records, contents, history
<1>4. CASE ListChanges
  BY <1>4 DEF ListChanges, records, contents, history
<1>5. CASE Scrape
  BY <1>5 DEF Scrape, records, contents, history
<1>6. CASE DetectChanges
  BY <1>6 DEF DetectChanges, records, contents, history
<1>7. CASE Process
  BY <1>7 DEF Process, records, history
<1>8. ASSUME at = "processed", Accounted \cup Versions(changed) \subseteq Accounted'
      PROVE  \A d \in Urls : results[d] # 0 => <<d, results[d]>> \in Accounted'
  <2>1. SUFFICES ASSUME NEW d \in Urls, results[d] # 0 PROVE <<d, results[d]>> \in Accounted'
    OBVIOUS
  <2>2. CASE d \in changed
    BY <1>8, <2>2 DEF Versions
  <2>3. CASE d \notin changed
    <3>1. manifest[d] = results[d]
      BY <1>8, <2>1, <2>3
    <3> QED BY <1>8, <2>1, <3>1
  <2> QED BY <2>2, <2>3
<1>9. CASE Publish
  <2>1. Versions(changed) = Versions({d \in changed : staged[d] = results[d]})
                            \cup Versions({d \in changed : staged[d] # results[d]})
    BY DEF Versions
  <2>2. Accounted \cup Versions(changed) \subseteq Accounted'
    BY <1>9, <2>1 DEF Publish
  <2>3. at = "processed" /\ at' = "published" /\ UNCHANGED <<results, manifest>>
    BY <1>9 DEF Publish, records
  <2> QED BY <1>8, <2>2, <2>3
<1>10. CASE SkipCutover
  <2>1. Accounted \cup Versions(changed) \subseteq Accounted'
    BY <1>10 DEF SkipCutover
  <2>2. at = "processed" /\ at' = "rehearsed" /\ UNCHANGED <<results, manifest>>
    BY <1>10 DEF SkipCutover, records
  <2> QED BY <1>8, <2>1, <2>2
<1>11. CASE OpenManifest
  BY <1>11 DEF OpenManifest, contents, history
<1>12. CASE WriteManifest
  BY <1>12 DEF WriteManifest, contents, history
<1>13. CASE RunStops
  BY <1>13 DEF RunStops, records, contents, history
<1>14. CASE UNCHANGED detectionVars
  BY <1>14 DEF detectionVars
<1> QED
  BY <1>1, <1>2, <1>3, <1>4, <1>5, <1>6, <1>7, <1>9, <1>10, <1>11, <1>12, <1>13, <1>14
  DEF DetectionNext

\* Whatever stops and whatever the site does, a version that later runs will
\* skip as unchanged was in the live collection once, or failed to parse in, or
\* was only rehearsed by, a run that got to its manifest all the same
\* (change_detector.py:110, pipeline.py:278, 345, 359).
THEOREM Recorded == DetectionSpec => []RecordedWasHandled
<1>1. DetectionInit => DetectionInv
  BY TypeInit DEF DetectionInit, DetectionInv, Recordable, RecordedWasHandled, None
<1>2. DetectionInv /\ [DetectionNext]_detectionVars => DetectionInv'
  BY TypeStep, RecordStep DEF DetectionInv
<1>3. DetectionInv => RecordedWasHandled
  BY DEF DetectionInv
<1> QED BY <1>1, <1>2, <1>3, PTL DEF DetectionSpec
=============================================================================
