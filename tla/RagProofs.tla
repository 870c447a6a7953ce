----------------------------- MODULE RagProofs -----------------------------
(***************************************************************************)
(* rag.py: the four invariants of Retrieval, for any index, question,      *)
(* scores and limits, and, at the end, those of the cache in front of it   *)
(* (RagCache), for any time to live, timeout, calls and cutovers.          *)
(*                                                                         *)
(* Chars is a fold over a set.  That it is the sum, in whatever order, is  *)
(* proved here by induction on the size of the set; the induction is that  *)
(* of WFMin, which speaks of sets where the others speak of operators.     *)
(***************************************************************************)
EXTENDS Retrieval, RagCache, FiniteSetTheorems, TLAPS

-----------------------------------------------------------------------------
(* Induction *)

\* The least-number principle, for sets.
LEMMA LeastOf == ASSUME NEW T, T \subseteq Nat, T # {}
                 PROVE  \E m \in T : \A k \in T : m <= k
<1> DEFINE R == OpToRel(<, Nat)
<1>1. \E x \in T : \A y \in T : ~ (<<y, x>> \in R)
  BY NatLessThanWellFounded, WFMin, Zenon
<1>2. \A x, y \in Nat : x < y => <<x, y>> \in R
  <2>1. R = {ss \in Nat \X Nat : ss[1] < ss[2]}
    BY Zenon DEF OpToRel
  <2> HIDE DEF R
  <2>2. TAKE x, y \in Nat
  <2>3. HAVE x < y
  <2>4. <<x, y>> \in {ss \in Nat \X Nat : ss[1] < ss[2]}
    BY <2>3
  <2> QED BY <2>4, <2>1, Zenon
<1> HIDE DEF R
<1>3. PICK x \in T : \A y \in T : ~ (<<y, x>> \in R)
  BY <1>1, Zenon
<1>4. \A y \in T : ~(y < x)
  BY <1>2, <1>3
<1> QED BY <1>4

\* Induction on the size of finite sets: Good holds of them all if it holds of
\* each for which it holds of all smaller ones.
LEMMA BySize ==
  ASSUME NEW U, IsFiniteSet(U), NEW Good,
         \A S \in SUBSET U : (\A T \in SUBSET U : Cardinality(T) < Cardinality(S) => T \in Good)
                             => S \in Good
  PROVE  \A S \in SUBSET U : S \in Good
<1> DEFINE Bad == {S \in SUBSET U : S \notin Good}
           Sizes == {Cardinality(S) : S \in Bad}
<1>1. \A S \in SUBSET U : Cardinality(S) \in Nat
  BY FS_Subset, FS_CardinalityType
<1>2. SUFFICES ASSUME Bad # {} PROVE FALSE
  OBVIOUS
<1>3. Sizes \subseteq Nat /\ Sizes # {}
  BY <1>1, <1>2
<1>4. PICK m \in Sizes : \A k \in Sizes : m <= k
  BY <1>3, LeastOf, Zenon
<1>5. PICK S \in Bad : Cardinality(S) = m
  BY <1>4
<1>6. ASSUME NEW T \in SUBSET U, Cardinality(T) < Cardinality(S), T \notin Good PROVE FALSE
  <2>1. Cardinality(T) \in Sizes
    BY <1>6
  <2>2. m <= Cardinality(T)
    BY <1>4, <2>1
  <2>3. Cardinality(T) \in Nat /\ Cardinality(S) \in Nat
    BY <1>1
  <2> HIDE DEF Bad, Sizes
  <2> QED BY <1>5, <1>6, <2>2, <2>3
<1>7. S \in SUBSET U /\ S \notin Good
  OBVIOUS
<1> HIDE DEF Bad, Sizes
<1> QED BY <1>6, <1>7

-----------------------------------------------------------------------------
Pick(s) == CHOOSE x \in s : TRUE

\* g adds up S and everything in it as Chars does.
Adds(g, S) == g = [s \in SUBSET S |-> IF s = {} THEN 0
                                      ELSE Pick(s).chars + g[s \ {Pick(s)}]]

LEMMA CharsIs == ASSUME NEW S PROVE Chars(S) = (CHOOSE g : Adds(g, S))[S]
BY DEF Chars, MapThenSumSet, MapThenFoldSet, Adds, Pick

LEMMA PickIn == ASSUME NEW s, s # {} PROVE Pick(s) \in s
BY DEF Pick

LEMMA AddsAt ==
  ASSUME NEW S, NEW g, Adds(g, S), NEW s \in SUBSET S
  PROVE  g[s] = IF s = {} THEN 0 ELSE Pick(s).chars + g[s \ {Pick(s)}]
<1> DEFINE F == [t \in SUBSET S |-> IF t = {} THEN 0
                                      ELSE Pick(t).chars + g[t \ {Pick(t)}]]
<1>1. g = F BY Zenon DEF Adds
<1>2. F[s] = IF s = {} THEN 0 ELSE Pick(s).chars + g[s \ {Pick(s)}]
  OBVIOUS
<1> HIDE DEF F
<1> QED BY <1>1, <1>2

LEMMA Smaller ==
  ASSUME NEW S, IsFiniteSet(S), S # {}, NEW x \in S
  PROVE  /\ IsFiniteSet(S \ {x}) /\ Cardinality(S \ {x}) = Cardinality(S) - 1
         /\ Cardinality(S) \in Nat /\ Cardinality(S \ {x}) < Cardinality(S)
BY FS_RemoveElement, FS_CardinalityType

\* Two such functions agree where both are defined.
LEMMA AddsAgree ==
  ASSUME NEW S, NEW g, Adds(g, S), NEW T, NEW h, Adds(h, T), IsFiniteSet(S), T \subseteq S
  PROVE  \A s \in SUBSET T : g[s] = h[s]
<1> DEFINE Good == {s \in SUBSET T : g[s] = h[s]}
<1>1. IsFiniteSet(T)
  BY FS_Subset
<1>2. ASSUME NEW s \in SUBSET T,
             \A t \in SUBSET T : Cardinality(t) < Cardinality(s) => t \in Good
      PROVE  s \in Good
  <2>1. CASE s = {}
    BY <2>1, AddsAt
  <2>2. CASE s # {}
    <3>1. s \ {Pick(s)} \in Good
      BY <1>1, <1>2, <2>2, PickIn, Smaller, FS_Subset
    <3>2. /\ g[s] = Pick(s).chars + g[s \ {Pick(s)}]
          /\ h[s] = Pick(s).chars + h[s \ {Pick(s)}]
      BY <2>2, AddsAt
    <3> QED BY <3>1, <3>2
  <2> QED BY <2>1, <2>2
<1> HIDE DEF Good
<1>3. \A s \in SUBSET T : s \in Good
  BY <1>1, <1>2, BySize
<1> QED BY <1>3 DEF Good

\* There is one, for every finite set.
LEMMA AddsExists ==
  ASSUME NEW U, IsFiniteSet(U)
  PROVE  \A S \in SUBSET U : \E g : Adds(g, S)
<1> DEFINE Good == {S \in SUBSET U : \E g : Adds(g, S)}
           The(S) == CHOOSE g : Adds(g, S)
<1>1. ASSUME NEW S \in SUBSET U,
             \A T \in SUBSET U : Cardinality(T) < Cardinality(S) => T \in Good
      PROVE  S \in Good
  <2> IsFiniteSet(S)
    BY FS_Subset
  <2> DEFINE Below(s) == IF s = {} THEN 0
                         ELSE Pick(s).chars + The(s \ {Pick(s)})[s \ {Pick(s)}]
             g == [s \in SUBSET S |-> Below(s)]
  <2>1. ASSUME NEW s \in SUBSET S, s # S PROVE Adds(The(s), s)
    <3>1. Cardinality(s) < Cardinality(S)
      BY <2>1, FS_Subset, FS_CardinalityType
    <3>2. \E h : Adds(h, s)
      BY <1>1, <3>1
    <3> QED BY <3>2, Zenon
  <2>2. ASSUME NEW s \in SUBSET S, s # S, s # {}
        PROVE  The(s)[s] = Below(s)
    <3>1. Adds(The(s), s)
      BY <2>1, <2>2
    <3>2. s \ {Pick(s)} \subseteq S /\ s \ {Pick(s)} # S
      BY <2>2, PickIn
    <3>3. Adds(The(s \ {Pick(s)}), s \ {Pick(s)})
      BY <2>1, <3>2
    <3>4. IsFiniteSet(s)
      BY FS_Subset
    <3> HIDE DEF The
    <3>5. The(s)[s \ {Pick(s)}] = The(s \ {Pick(s)})[s \ {Pick(s)}]
      BY <3>1, <3>3, <3>4, AddsAgree
    <3>6. The(s)[s] = Pick(s).chars + The(s)[s \ {Pick(s)}]
      BY <2>2, <3>1, AddsAt
    <3> QED BY <2>2, <3>5, <3>6
  <2>3. ASSUME NEW s \in SUBSET S, s # {}
        PROVE  g[s] = Pick(s).chars + g[s \ {Pick(s)}]
    <3> DEFINE r == s \ {Pick(s)}
    <3>1. r \in SUBSET S /\ r # S
      BY <2>3, PickIn
    <3>2. g[r] = The(r)[r]
      <4>1. CASE r = {}
        <5>1. Adds(The(r), r)
          BY <2>1, <3>1
        <5> HIDE DEF The
        <5>2. The(r)[r] = 0
          BY <4>1, <5>1, AddsAt
        <5> QED BY <4>1, <5>2
      <4>2. CASE r # {}
        <5>1. The(r)[r] = Below(r)
          BY <2>2, <3>1, <4>2
        <5>2. g[r] = Below(r)
          BY <3>1
        <5> QED BY <5>1, <5>2
      <4> QED BY <4>1, <4>2
    <3> QED BY <2>3, <3>1, <3>2
  <2>4. Adds(g, S)
    <3>1. ASSUME NEW s \in SUBSET S
          PROVE  g[s] = IF s = {} THEN 0 ELSE Pick(s).chars + g[s \ {Pick(s)}]
      <4>1. s = {} => g[s] = 0
        OBVIOUS
      <4> HIDE DEF g
      <4> QED BY <2>3, <4>1
    <3> HIDE DEF Below, The
    <3>2. g = [s \in SUBSET S |-> g[s]]
      OBVIOUS
    <3> HIDE DEF g
    <3>3. [s \in SUBSET S |-> g[s]] = [s \in SUBSET S |-> IF s = {} THEN 0
                                      ELSE Pick(s).chars + g[s \ {Pick(s)}]]
      BY <3>1
    <3> QED BY <3>2, <3>3, Zenon DEF Adds
  <2> QED BY <2>4
<1> HIDE DEF Good
<1>2. \A S \in SUBSET U : S \in Good
  BY <1>1, BySize
<1> QED BY <1>2 DEF Good

\* What Chars computes.
LEMMA CharsEmpty == Chars({}) = 0
<1>1. Adds(CHOOSE g : Adds(g, {}), {})
  BY AddsExists, FS_EmptySet, Zenon
<1> QED BY <1>1, CharsIs, AddsAt

LEMMA CharsPick ==
  ASSUME NEW S, IsFiniteSet(S), S # {}
  PROVE  Chars(S) = Pick(S).chars + Chars(S \ {Pick(S)})
<1> DEFINE g == CHOOSE f : Adds(f, S)
           h == CHOOSE f : Adds(f, S \ {Pick(S)})
<1>1. Adds(g, S) /\ Adds(h, S \ {Pick(S)})
  <2>1. \E f : Adds(f, S)
    BY AddsExists
  <2>2. \E f : Adds(f, S \ {Pick(S)})
    BY AddsExists
  <2> QED BY <2>1, <2>2, Zenon
<1>2. Chars(S) = g[S] /\ Chars(S \ {Pick(S)}) = h[S \ {Pick(S)}]
  BY CharsIs
<1> HIDE DEF g, h
<1>3. g[S \ {Pick(S)}] = h[S \ {Pick(S)}]
  BY <1>1, AddsAgree
<1>4. g[S] = Pick(S).chars + g[S \ {Pick(S)}]
  BY <1>1, AddsAt
<1> QED BY <1>2, <1>3, <1>4

Sized(S) == IsFiniteSet(S) /\ \A x \in S : x.chars \in Nat

LEMMA CharsType == ASSUME NEW U, Sized(U) PROVE \A S \in SUBSET U : Chars(S) \in Nat
<1> DEFINE Good == {S \in SUBSET U : Chars(S) \in Nat}
<1>1. ASSUME NEW S \in SUBSET U,
             \A T \in SUBSET U : Cardinality(T) < Cardinality(S) => T \in Good
      PROVE  S \in Good
  <2>1. CASE S = {}
    BY <2>1, CharsEmpty
  <2>2. CASE S # {}
    <3>1. IsFiniteSet(S)
      BY FS_Subset DEF Sized
    <3>2. Pick(S) \in S /\ S \ {Pick(S)} \in Good
      BY <1>1, <2>2, <3>1, PickIn, Smaller
    <3>3. Pick(S).chars \in Nat /\ Chars(S \ {Pick(S)}) \in Nat
      BY <3>2 DEF Sized
    <3> QED BY <2>2, <3>1, <3>3, CharsPick
  <2> QED BY <2>1, <2>2
<1> HIDE DEF Good
<1>2. \A S \in SUBSET U : S \in Good
  BY <1>1, BySize DEF Sized
<1> QED BY <1>2 DEF Good

\* In whatever order they are added.
LEMMA CharsRemove ==
  ASSUME NEW U, Sized(U)
  PROVE  \A S \in SUBSET U : \A x \in S : Chars(S) = x.chars + Chars(S \ {x})
<1> DEFINE Good == {S \in SUBSET U : \A x \in S : Chars(S) = x.chars + Chars(S \ {x})}
<1>1. ASSUME NEW S \in SUBSET U,
             \A T \in SUBSET U : Cardinality(T) < Cardinality(S) => T \in Good
      PROVE  S \in Good
  <2>1. SUFFICES ASSUME NEW x \in S PROVE Chars(S) = x.chars + Chars(S \ {x})
    OBVIOUS
  <2>2. IsFiniteSet(S)
    BY FS_Subset DEF Sized
  <2> DEFINE y == Pick(S)
  <2>3. y \in S /\ Chars(S) = y.chars + Chars(S \ {y})
    BY <2>2, PickIn, CharsPick
  <2> HIDE DEF y
  <2>4. CASE x = y
    BY <2>3, <2>4
  <2>5. CASE x # y
    <3>1. S \ {y} \in Good /\ S \ {x} \in Good
      BY <1>1, <2>2, <2>3, Smaller
    <3>2. Chars(S \ {y}) = x.chars + Chars((S \ {y}) \ {x})
      BY <2>5, <3>1
    <3>3. Chars(S \ {x}) = y.chars + Chars((S \ {x}) \ {y})
      BY <2>3, <2>5, <3>1
    <3> DEFINE n == Chars((S \ {x}) \ {y})
    <3>4. Chars((S \ {y}) \ {x}) = n
      <4>1. (S \ {y}) \ {x} = (S \ {x}) \ {y}
        OBVIOUS
      <4> QED BY <4>1, Zenon
    <3>5. n \in Nat /\ x.chars \in Nat /\ y.chars \in Nat
      BY <2>3, CharsType DEF Sized
    <3>6. Chars(S \ {x}) = y.chars + n
      BY <3>3
    <3> HIDE DEF n
    <3>7. Chars(S) = y.chars + (x.chars + n)
      BY <2>3, <3>2, <3>4, Zenon
    <3> QED BY <3>5, <3>6, <3>7
  <2> QED BY <2>4, <2>5
<1> HIDE DEF Good
<1>2. \A S \in SUBSET U : S \in Good
  BY <1>1, BySize DEF Sized
<1> QED BY <1>2 DEF Good

LEMMA CharsAdd ==
  ASSUME NEW S, Sized(S), NEW x, x \notin S, x.chars \in Nat
  PROVE  Chars(S \cup {x}) = Chars(S) + x.chars
<1>1. Sized(S \cup {x})
  BY FS_AddElement DEF Sized
<1>2. Chars(S \cup {x}) = x.chars + Chars((S \cup {x}) \ {x})
  BY <1>1, CharsRemove
<1>3. (S \cup {x}) \ {x} = S
  OBVIOUS
<1>4. Chars(S) \in Nat
  BY CharsType
<1>5. Chars(S \cup {x}) = x.chars + Chars(S)
  BY <1>2, <1>3, Zenon
<1> QED BY <1>4, <1>5

LEMMA CharsMonotone ==
  ASSUME NEW U, Sized(U), NEW A \in SUBSET U
  PROVE  Chars(A) <= Chars(U)
<1> DEFINE Good == {S \in SUBSET U : A \subseteq S => Chars(A) <= Chars(S)}
<1>1. ASSUME NEW S \in SUBSET U,
             \A T \in SUBSET U : Cardinality(T) < Cardinality(S) => T \in Good
      PROVE  S \in Good
  <2>1. SUFFICES ASSUME A \subseteq S, A # S PROVE Chars(A) <= Chars(S)
    BY CharsType
  <2>2. PICK x \in S : x \notin A
    BY <2>1
  <2>3. IsFiniteSet(S)
    BY FS_Subset DEF Sized
  <2>4. Chars(A) <= Chars(S \ {x})
    BY <1>1, <2>1, <2>2, <2>3, Smaller
  <2>5. Chars(S) = x.chars + Chars(S \ {x})
    BY CharsRemove
  <2>6. Chars(A) \in Nat /\ Chars(S \ {x}) \in Nat /\ x.chars \in Nat
    BY CharsType DEF Sized
  <2> QED BY <2>4, <2>5, <2>6
<1> HIDE DEF Good
<1>2. \A S \in SUBSET U : S \in Good
  BY <1>1, BySize DEF Sized
<1> QED BY <1>2 DEF Good

\* Chunks that are given whole count what they count.
Part(c) == [chunk |-> c, chars |-> c.chars]

LEMMA CharsOfParts ==
  ASSUME NEW U, Sized(U)
  PROVE  \A S \in SUBSET U : /\ Sized({Part(c) : c \in S})
                             /\ Chars({Part(c) : c \in S}) = Chars(S)
<1> DEFINE Good == {S \in SUBSET U : /\ Sized({Part(c) : c \in S})
                                     /\ Chars({Part(c) : c \in S}) = Chars(S)}
<1>1. ASSUME NEW S \in SUBSET U,
             \A T \in SUBSET U : Cardinality(T) < Cardinality(S) => T \in Good
      PROVE  S \in Good
  <2>1. CASE S = {}
    <3>1. {Part(c) : c \in S} = {}
      BY <2>1
    <3> QED BY <2>1, <3>1, FS_EmptySet DEF Sized
  <2>2. CASE S # {}
    <3>1. PICK x \in S : TRUE
      BY <2>2
    <3>2. IsFiniteSet(S)
      BY FS_Subset DEF Sized
    <3> DEFINE R == {Part(c) : c \in S \ {x}}
    <3>3. Sized(R) /\ Chars(R) = Chars(S \ {x})
      BY <1>1, <3>1, <3>2, Smaller
    <3>4. {Part(c) : c \in S} = R \cup {Part(x)} /\ Part(x) \notin R
      BY DEF Part
    <3>5. Part(x).chars = x.chars /\ x.chars \in Nat
      BY DEF Part, Sized
    <3> HIDE DEF R
    <3>6. Sized(R \cup {Part(x)})
      BY <3>3, <3>5, FS_AddElement DEF Sized
    <3>7. Chars(R \cup {Part(x)}) = Chars(R) + x.chars
      BY <3>3, <3>4, <3>5, CharsAdd
    <3>8. Chars(S) = x.chars + Chars(S \ {x}) /\ Chars(S \ {x}) \in Nat
      BY CharsRemove, CharsType
    <3>9. Chars(R \cup {Part(x)}) = Chars(S)
      BY <3>3, <3>5, <3>7, <3>8
    <3> QED BY <3>4, <3>6, <3>9, Zenon
  <2> QED BY <2>1, <2>2
<1> HIDE DEF Good
<1>2. \A S \in SUBSET U : S \in Good
  BY <1>1, BySize DEF Sized
<1> QED BY <1>2 DEF Good

-----------------------------------------------------------------------------
(* The invariant *)

\* What is there at each stage, and what a reply is about.
Stages ==
    /\ stage \in {"search", "cohere"} => kept = {}
    /\ stage \in {"search", "cohere", "rerank", "assemble"} => context = {}
    /\ stage # "done" => reply = NoReply
    /\ stage \notin {"search", "done"} => hits # {}
    /\ stage \in {"rerank", "assemble", "synthesise"} => kept # {}
    /\ stage = "done" => reply.chunks = kept /\ (hits # {} => kept # {})

Many == Cardinality(Docs(hits)) > CoherentDocs
BestHits == {c \in hits : \A d \in hits : score[c] >= score[d]}

\* Why c was dropped when documents were many, and why when they were few.
OtherDocument(K, c) ==
    /\ Docs(K) \subseteq Docs(BestHits)
    /\ Cardinality(Docs(K)) = 1
    /\ c.doc \in Docs(K) => /\ Cardinality(K) = CoherentKeep
                            /\ \A d \in K : d.at < c.at

RankedLower(K, c) ==
    /\ Cardinality(K) = HybridKeep
    /\ \A d \in K : Adjusted(d) >= Adjusted(c)

Cohered ==
    stage = "rerank" =>
        IF Many THEN /\ Cardinality(kept) <= CoherentKeep
                     /\ \A c \in hits \ kept : OtherDocument(kept, c)
        ELSE kept = hits

Explained ==
    stage \in {"assemble", "synthesise", "done"} /\ hits # {} =>
        \A c \in hits \ kept : IF Many THEN OtherDocument(kept, c)
                               ELSE RankedLower(kept, c)

IInv == TypeOK /\ Stages /\ Cohered /\ Explained /\ ContextFits /\ ConfidenceEarned

LEMMA Finite ==
  ASSUME TypeOK
  PROVE  /\ IsFiniteSet(hits) /\ IsFiniteSet(kept) /\ kept \subseteq Chunks
         /\ Cardinality(hits) \in Nat /\ Cardinality(kept) \in Nat
BY RetrievalAssumption, FS_Subset, FS_CardinalityType DEF TypeOK

LEMMA ScoreType == ASSUME TypeOK, NEW c \in Chunks
                   PROVE  score[c] \in 0..100 /\ Adjusted(c) \in Int
<1>1. score[c] \in 0..100 /\ c.overlap \in 0..100
  BY RetrievalAssumption DEF TypeOK
<1>2. \A s \in 0..100, o \in 0..100, r \in {0, 50} : 8 * s + 2 * o + r \in Int
  OBVIOUS
<1>3. (IF c.recent THEN 50 ELSE 0) \in {0, 50}
  OBVIOUS
<1> QED BY <1>1, <1>2, <1>3, Zenon DEF Adjusted

LEMMA DocsFinite == ASSUME NEW S, IsFiniteSet(S)
                    PROVE  IsFiniteSet(Docs(S)) /\ Cardinality(Docs(S)) \in Nat
<1> DEFINE f == [c \in S |-> c.doc]
<1>1. f \in Surjection(S, Docs(S))
  BY DEF Surjection, Docs
<1> HIDE DEF f
<1>2. IsFiniteSet(Docs(S))
  BY <1>1, FS_Surjection
<1> QED BY <1>2, FS_CardinalityType

\* What taking the best of a finite set gives.
LEMMA LeastType == ASSUME NEW a \in Nat, NEW b \in Nat
                   PROVE  Least(a, b) \in Nat /\ Least(a, b) <= a /\ Least(a, b) <= b
                          /\ Least(a, b) \in {a, b}
BY DEF Least

LEMMA InitInv == Init => IInv
<1> SUFFICES ASSUME Init PROVE IInv
  OBVIOUS
<1> USE DEF Init, NoReply
<1>1. TypeOK
  BY RetrievalAssumption, FS_EmptySet DEF TypeOK
<1> QED BY <1>1 DEF IInv, Stages, Cohered, Explained, ContextFits, ConfidenceEarned

-----------------------------------------------------------------------------
LEMMA SearchStep == IInv /\ Search => IInv'
<1> SUFFICES ASSUME IInv, Search PROVE IInv'
  OBVIOUS
<1> USE DEF IInv
<1> DEFINE matches == {c \in Chunks : /\ score[c] >= Threshold
                                      /\ Passes(c, SupersededFilter(BaseFilter))}
<1>1. hits' \in Best(Least(ask.topK, MaxTopK), matches, Score)
  BY DEF Search
<1>2. hits' \in SUBSET matches /\ Cardinality(hits') = Least(Least(ask.topK, MaxTopK), Cardinality(matches))
  <2> HIDE DEF matches
  <2> QED BY <1>1 DEF Best, kSubset
<1>3. IsFiniteSet(matches) /\ Cardinality(matches) \in Nat
  BY RetrievalAssumption, FS_Subset, FS_CardinalityType
<1>4. ask.topK \in Nat /\ MaxTopK \in Nat
  BY RetrievalAssumption DEF TypeOK
<1>5. hits' \subseteq Chunks /\ Cardinality(hits') <= MaxTopK
  <2> HIDE DEF matches
  <2>1. Cardinality(hits') <= MaxTopK
    BY <1>2, <1>3, <1>4 DEF Least
  <2> QED BY <2>1, <1>2 DEF matches
<1>6. kept = {} /\ context = {} /\ reply = NoReply
  BY DEF Search, Stages
<1> HIDE DEF matches
<1>7. CASE hits' = {}
  <2>1. reply' = [NoReply EXCEPT !.confidence = "low"] /\ stage' = "done"
        /\ UNCHANGED <<score, ask, kept, context>>
    BY <1>7 DEF Search
  <2> QED BY <1>5, <1>6, <1>7, <2>1
          DEF TypeOK, Stages, Cohered, Explained, ContextFits, ConfidenceEarned, NoReply
<1>8. CASE hits' # {}
  <2>1. stage' = "cohere" /\ UNCHANGED <<score, ask, kept, context, reply>>
    BY <1>8 DEF Search
  <2> QED BY <1>5, <1>6, <1>8, <2>1
          DEF TypeOK, Stages, Cohered, Explained, ContextFits, ConfidenceEarned, NoReply
<1> QED BY <1>7, <1>8

LEMMA CohereStep == IInv /\ Cohere => IInv'
<1> SUFFICES ASSUME IInv, Cohere PROVE IInv'
  OBVIOUS
<1> USE DEF IInv
<1>1. stage = "cohere" /\ stage' = "rerank" /\ UNCHANGED <<score, ask, hits, context, reply>>
  BY DEF Cohere
<1>2. kept = {} /\ context = {} /\ reply = NoReply /\ hits # {}
  BY <1>1 DEF Stages
<1>3. SUFFICES /\ kept' \subseteq hits /\ kept' # {}
               /\ Cohered'
  BY <1>1, <1>2 DEF TypeOK, Stages, Explained, ContextFits, ConfidenceEarned, NoReply
<1>4. IsFiniteSet(hits) /\ Cardinality(hits) \in Nat /\ hits \subseteq Chunks
  BY Finite DEF TypeOK
<1>5. Many' <=> Many
  BY <1>1 DEF Many, Docs
<1>10. Many <=> ~(Cardinality(Docs(hits)) <= CoherentDocs)
  BY <1>4, DocsFinite, RetrievalAssumption DEF Many
<1>6. CASE ~Many
  <2>1. kept' = hits
    BY <1>6, <1>10, Zenon DEF Cohere
  <2> QED BY <1>1, <1>2, <1>5, <1>6, <2>1 DEF Cohered
<1>7. CASE Many
  <2>2. PICK b \in hits : /\ \A c \in hits : score[b] >= score[c]
                          /\ kept' \in Best(CoherentKeep, {c \in hits : c.doc = b.doc},
                                            LAMBDA c : -c.at)
    BY <1>7, <1>10, Zenon DEF Cohere
  <2> DEFINE same == {c \in hits : c.doc = b.doc}
  <2>3. /\ kept' \in SUBSET same /\ Cardinality(kept') = Least(CoherentKeep, Cardinality(same))
        /\ \A c \in kept', d \in same \ kept' : -c.at >= -d.at
    <3> HIDE DEF same
    <3>1. kept' \in Best(CoherentKeep, same, LAMBDA c : -c.at)
      BY <2>2 DEF same
    <3> QED BY <3>1 DEF Best, kSubset
  <2>4. IsFiniteSet(same) /\ Cardinality(same) \in Nat /\ Cardinality(same) # 0
    <3>1. IsFiniteSet(same)
      BY <1>4, FS_Subset
    <3>2. b \in same
      OBVIOUS
    <3> QED BY <3>1, <3>2, FS_CardinalityType, FS_EmptySet
  <2>5. IsFiniteSet(kept') /\ Cardinality(kept') # 0 /\ kept' # {}
        /\ Cardinality(kept') <= CoherentKeep
    BY <2>3, <2>4, RetrievalAssumption, FS_Subset, FS_EmptySet DEF Least
  <2>6. Docs(kept') = {b.doc} /\ b \in BestHits
    BY <2>2, <2>3, <2>5 DEF Docs, BestHits
  <2>7. ASSUME NEW c \in hits \ kept' PROVE OtherDocument(kept', c)
    <3>1. Cardinality(Docs(kept')) = 1 /\ Docs(kept') \subseteq Docs(BestHits)
      BY <2>6, FS_Singleton DEF Docs
    <3>2. ASSUME c.doc \in Docs(kept')
          PROVE  Cardinality(kept') = CoherentKeep /\ \A d \in kept' : d.at < c.at
      <4>1. c \in same \ kept'
        BY <2>6, <3>2
      <4>2. Cardinality(kept') # Cardinality(same)
        BY <2>3, <2>4, <4>1, FS_Subset
      <4>3. Cardinality(kept') = CoherentKeep
        BY <2>3, <4>2 DEF Least
      <4>4. ASSUME NEW d \in kept' PROVE d.at < c.at
        <5>1. d \in Chunks /\ c \in Chunks /\ d # c /\ d.doc = c.doc
          BY <1>4, <2>3, <4>1
        <5>2. d.at \in Nat /\ c.at \in Nat /\ d.at # c.at
          BY <5>1, RetrievalAssumption
        <5>3. -d.at >= -c.at
          BY <2>3, <4>1
        <5> QED BY <5>2, <5>3
      <4> QED BY <4>3, <4>4
    <3> QED BY <3>1, <3>2 DEF OtherDocument
  <2>8. \A c : OtherDocument(kept', c) => OtherDocument(kept, c)'
    BY <1>1 DEF OtherDocument, BestHits, Docs
  <2> QED BY <1>1, <1>5, <1>7, <2>3, <2>5, <2>7, <2>8 DEF Cohered
<1> QED BY <1>6, <1>7

LEMMA RerankStep == IInv /\ Rerank => IInv'
<1> SUFFICES ASSUME IInv, Rerank PROVE IInv'
  OBVIOUS
<1> USE DEF IInv
<1>1. stage = "rerank" /\ stage' = "assemble" /\ UNCHANGED <<score, ask, hits, context, reply>>
  BY DEF Rerank
<1>2. context = {} /\ reply = NoReply /\ hits # {} /\ kept # {}
  BY <1>1 DEF Stages
<1>3. SUFFICES kept' \subseteq kept /\ kept' # {} /\ Explained'
  BY <1>1, <1>2 DEF TypeOK, Stages, Cohered, ContextFits, ConfidenceEarned, NoReply
<1>4. /\ IsFiniteSet(hits) /\ hits \subseteq Chunks /\ IsFiniteSet(kept)
      /\ Cardinality(kept) \in Nat /\ Cardinality(kept) # 0
  BY <1>2, Finite, FS_EmptySet DEF TypeOK
<1>5. /\ kept' \in SUBSET kept /\ Cardinality(kept') = Least(HybridKeep, Cardinality(kept))
      /\ \A c \in kept', d \in kept \ kept' : Adjusted(c) >= Adjusted(d)
  <2>1. kept' \in Best(HybridKeep, kept, Adjusted)
    BY DEF Rerank
  <2> QED BY <2>1 DEF Best, kSubset
<1>6. kept' # {} /\ IsFiniteSet(kept')
  BY <1>4, <1>5, RetrievalAssumption, FS_Subset, FS_EmptySet DEF Least
<1>7. kept' # kept => Cardinality(kept') = HybridKeep
  BY <1>4, <1>5, FS_Subset DEF Least
<1>8. CASE Many
  <2>1. /\ Cardinality(kept) <= CoherentKeep
        /\ \A c \in hits \ kept : OtherDocument(kept, c)
    BY <1>1, <1>8 DEF Cohered
  <2>2. kept' = kept
    <3>1. Cardinality(kept') = Cardinality(kept)
      BY <1>4, <1>5, <2>1, RetrievalAssumption DEF Least
    <3> QED BY <1>4, <1>5, <3>1, FS_Subset
  <2>3. \A c : OtherDocument(kept, c) => OtherDocument(kept, c)'
    BY <1>1, <2>2 DEF OtherDocument, BestHits, Docs
  <2>4. Many'
    BY <1>1, <1>8 DEF Many, Docs
  <2> QED BY <1>1, <1>5, <1>6, <2>1, <2>2, <2>3, <2>4 DEF Explained
<1>9. CASE ~Many
  <2>1. kept = hits
    BY <1>1, <1>9 DEF Cohered
  <2>2. ASSUME NEW c \in hits \ kept' PROVE RankedLower(kept, c)'
    <3>1. Adjusted(c)' = Adjusted(c) /\ \A d : Adjusted(d)' = Adjusted(d)
      BY <1>1 DEF Adjusted
    <3>2. Cardinality(kept') = HybridKeep
      BY <1>7, <2>1
    <3> QED BY <1>5, <2>1, <3>1, <3>2 DEF RankedLower
  <2>3. ~Many'
    BY <1>1, <1>9 DEF Many, Docs
  <2> QED BY <1>1, <1>5, <1>6, <2>2, <2>3 DEF Explained
<1> QED BY <1>8, <1>9

-----------------------------------------------------------------------------
(* The context *)

\* The order of the documents is total on chunks.
LEMMA EarlierOrder ==
  /\ \A b, c \in Chunks : b = c \/ Earlier(b, c) \/ Earlier(c, b)
  /\ \A b, c, d \in Chunks : Earlier(b, c) /\ Earlier(c, d) => Earlier(b, d)
  /\ \A c \in Chunks : ~Earlier(c, c)
BY RetrievalAssumption DEF Earlier

\* Some chunk of a set comes last.
LEMMA LastOf ==
  ASSUME NEW S \in SUBSET Chunks, S # {}
  PROVE  \E c \in S : \A b \in S : b = c \/ Earlier(b, c)
<1>1. IsFiniteSet(S) /\ Cardinality(S) \in Nat
  BY RetrievalAssumption, FS_Subset, FS_CardinalityType
<1> DEFINE before(c) == {b \in S : Earlier(b, c)}
           after(c) == {b \in S : Earlier(c, b)}
           counts == {Cardinality(after(c)) : c \in S}
<1>2. \A c \in S : IsFiniteSet(after(c)) /\ Cardinality(after(c)) \in Nat
  BY <1>1, FS_Subset, FS_CardinalityType
<1>3. counts \subseteq Nat /\ counts # {}
  BY <1>2
<1>4. PICK m \in counts : \A k \in counts : m <= k
  BY <1>3, LeastOf, Zenon
<1>5. PICK c \in S : m = Cardinality(after(c))
  OBVIOUS
<1>6. ASSUME NEW b \in S, Earlier(c, b) PROVE FALSE
  <2>1. after(b) \subseteq after(c) /\ b \in after(c) /\ b \notin after(b)
    BY <1>6, EarlierOrder
  <2>2. Cardinality(after(b)) < Cardinality(after(c))
    <3>1. after(b) \in SUBSET after(c) /\ after(b) # after(c)
      BY <2>1
    <3> HIDE DEF after
    <3> QED BY <1>2, <3>1, FS_Subset
  <2>3. Cardinality(after(b)) \in counts
    OBVIOUS
  <2> HIDE DEF after, counts
  <2>4. m <= Cardinality(after(b))
    BY <1>4, <2>3
  <2> QED BY <1>2, <1>5, <2>2, <2>4
<1> QED BY <1>6, EarlierOrder

\* The chunks up to c, and those that fit whole.
Upto(c) == {b \in kept : b = c \/ Earlier(b, c)}
Whole == {c \in kept : Chars(Upto(c)) <= CharLimit}

LEMMA KeptSized == ASSUME TypeOK PROVE Sized(kept)
BY Finite, RetrievalAssumption DEF Sized

LEMMA WholeFits == ASSUME TypeOK PROVE Chars(Whole) \in Nat /\ Chars(Whole) <= CharLimit
<1>1. Sized(kept) /\ kept \subseteq Chunks
  BY KeptSized, Finite
<1>2. CASE Whole = {}
  BY <1>2, CharsEmpty, RetrievalAssumption
<1>3. CASE Whole # {}
  <2>1. PICK c \in Whole : \A b \in Whole : b = c \/ Earlier(b, c)
    BY <1>1, <1>3, LastOf DEF Whole
  <2>2. Whole \subseteq Upto(c) /\ Upto(c) \subseteq kept
    BY <2>1 DEF Whole, Upto
  <2>3. Sized(Upto(c))
    BY <1>1, <2>2, FS_Subset DEF Sized
  <2>4. Chars(Whole) <= Chars(Upto(c)) /\ Chars(Whole) \in Nat /\ Chars(Upto(c)) \in Nat
    BY <2>2, <2>3, CharsMonotone, CharsType
  <2>5. Chars(Upto(c)) <= CharLimit
    BY <2>1 DEF Whole
  <2> QED BY <2>4, <2>5, RetrievalAssumption
<1> QED BY <1>2, <1>3

LEMMA AssembleStep == IInv /\ Assemble => IInv'
<1> SUFFICES ASSUME IInv, Assemble PROVE IInv'
  OBVIOUS
<1> USE DEF IInv
<1> DEFINE remaining == CharLimit - Chars(Whole)
           cut == {c \in kept \ Whole : Upto(c) \ {c} \subseteq Whole /\ remaining > MinPart}
           given == {Part(c) : c \in Whole}
           partly == {[chunk |-> c, chars |-> remaining] : c \in cut}
<1>1. stage = "assemble" /\ stage' = "synthesise" /\ UNCHANGED <<score, ask, hits, kept, reply>>
  BY DEF Assemble
<1>2. context' = given \cup partly
  BY Zenon DEF Assemble, Whole, Upto, Part
<1>3. reply = NoReply /\ hits # {} /\ kept # {}
  BY <1>1 DEF Stages
<1>4. Sized(kept) /\ kept \subseteq Chunks /\ Whole \subseteq kept
  BY KeptSized, Finite DEF Whole
<1>5. Chars(Whole) \in Nat /\ remaining \in Nat
  BY WholeFits, RetrievalAssumption
<1>6. Sized(given) /\ Chars(given) = Chars(Whole)
  BY <1>4, CharsOfParts
<1>7. \A b, c \in cut : b = c
  <2>1. SUFFICES ASSUME NEW b \in cut, NEW c \in cut, Earlier(b, c) PROVE FALSE
    BY <1>4, EarlierOrder
  <2>2. b \in Upto(c) \ {c}
    BY <1>4, <2>1, EarlierOrder DEF Upto
  <2> QED BY <2>2
<1>8. \A x \in partly : x \notin given
  BY DEF Part
<1>9. Chars(context') <= CharLimit
  <2>1. CASE cut = {}
    <3>1. context' = given
      BY <1>2, <2>1
    <3> QED BY <1>6, <3>1, WholeFits
  <2>2. CASE cut # {}
    <3>1. PICK c \in cut : TRUE
      BY <2>2
    <3> DEFINE part == [chunk |-> c, chars |-> remaining]
    <3>2. partly = {part} /\ part \notin given /\ part.chars = remaining
      BY <1>7, <1>8, <3>1
    <3> HIDE DEF part, given, partly, cut
    <3>3. Chars(given \cup {part}) = Chars(given) + part.chars
      BY <1>5, <1>6, <3>2, CharsAdd
    <3>4. Chars(context') = Chars(Whole) + remaining
      BY <1>2, <1>6, <3>2, <3>3
    <3> QED BY <1>5, <3>4, RetrievalAssumption
  <2> QED BY <2>1, <2>2
<1>10. ASSUME NEW c \in kept, [chunk |-> c, chars |-> c.chars] \notin context'
       PROVE  Chars({b \in kept : Earlier(b, c)}) + c.chars > CharLimit
  <2>1. c \notin Whole
    BY <1>2, <1>10 DEF Part
  <2> DEFINE before == {b \in kept : Earlier(b, c)}
  <2>2. Upto(c) = before \cup {c} /\ c \notin before
    BY <1>4, EarlierOrder DEF Upto
  <2>3. Sized(before) /\ c.chars \in Nat /\ Chars(before) \in Nat
    BY <1>4, FS_Subset, CharsType DEF Sized
  <2> HIDE DEF before
  <2>4. Chars(before \cup {c}) = Chars(before) + c.chars
    BY <2>2, <2>3, CharsAdd
  <2>5. ~(Chars(Upto(c)) <= CharLimit)
    BY <2>1 DEF Whole
  <2>6. Chars(before) + c.chars > CharLimit
    BY <2>2, <2>3, <2>4, <2>5, RetrievalAssumption
  <2> QED BY <2>6 DEF before
<1>11. ContextFits'
  <2>1. \A c : {b \in kept : Earlier(b, c)}' = {b \in kept : Earlier(b, c)}
    BY <1>1
  <2> QED BY <1>1, <1>9, <1>10, <2>1 DEF ContextFits
<1>12. \A part \in context' : part.chunk \in kept /\ part.chars \in Nat
  BY <1>2, <1>4, <1>5 DEF Part, Sized
<1>13. TypeOK'
  BY <1>1, <1>3, <1>12 DEF TypeOK, NoReply
<1>14. Explained'
  <2>1. \A c : /\ OtherDocument(kept, c) => OtherDocument(kept, c)'
               /\ RankedLower(kept, c) => RankedLower(kept, c)'
    BY <1>1 DEF OtherDocument, RankedLower, BestHits, Docs, Adjusted
  <2>2. Many' <=> Many
    BY <1>1 DEF Many, Docs
  <2> QED BY <1>1, <2>1, <2>2 DEF Explained
<1> QED BY <1>1, <1>3, <1>11, <1>13, <1>14 DEF Stages, Cohered, ConfidenceEarned, NoReply

-----------------------------------------------------------------------------
(* The reply *)

LEMMA TopIsThere == ASSUME TypeOK, kept # {}
                    PROVE  TopScore \in 0..100 /\ \E c \in kept : score[c] = TopScore
<1> DEFINE S == {score[c] : c \in kept}
           below == {100 - s : s \in S}
<1>1. S \subseteq 0..100 /\ S # {}
  <2>1. \A c \in kept : score[c] \in 0..100
    BY Finite, ScoreType
  <2> QED BY <2>1
<1>2. below \subseteq Nat /\ below # {}
  BY <1>1
<1>3. PICK m \in below : \A k \in below : m <= k
  BY <1>2, LeastOf, Zenon
<1>4. PICK t \in S : m = 100 - t
  BY <1>3
<1>5. \A s \in S : t >= s
  <2>1. TAKE s \in S
  <2>2. m <= 100 - s
    BY <1>3
  <2>3. s \in 0..100 /\ t \in 0..100
    BY <1>1
  <2> HIDE DEF S, below
  <2> QED BY <1>4, <2>2, <2>3
<1> HIDE DEF S, below
<1>6. Max(S) \in S
  BY <1>5 DEF Max
<1> QED BY <1>1, <1>6 DEF S, TopScore

LEMMA ReplyStep ==
  ASSUME IInv, stage = "synthesise", NEW confidence \in {"low", "medium", "high"},
         NEW synthesised \in BOOLEAN, NEW n \in Nat, NEW g \in Nat,
         Replied(confidence, synthesised, n, g),
         confidence # "low" => synthesised /\ 2 * g >= n /\ confidence = Confidence(TopScore)
  PROVE  IInv'
<1> USE DEF IInv
<1>1. stage' = "done" /\ UNCHANGED <<score, ask, hits, kept, context>>
      /\ reply' = [chunks |-> kept, confidence |-> confidence,
                   synthesised |-> synthesised, sentences |-> n, grounded |-> g]
  BY DEF Replied
<1>2. hits # {} /\ kept # {}
  BY DEF Stages
<1>3. TypeOK'
  BY <1>1 DEF TypeOK
<1>4. ConfidenceEarned'
  <2>1. SUFFICES ASSUME confidence # "low"
                 PROVE  \E c \in kept : score[c] >= IF confidence = "high" THEN 86 ELSE 70
    BY <1>1 DEF ConfidenceEarned
  <2>2. PICK c \in kept : score[c] = TopScore /\ score[c] \in 0..100
    BY <1>2, TopIsThere
  <2> QED BY <2>1, <2>2 DEF Confidence
<1>5. ContextFits'
  BY <1>1 DEF ContextFits, Earlier
<1>6. Explained'
  <2>1. \A c : /\ OtherDocument(kept, c) => OtherDocument(kept, c)'
               /\ RankedLower(kept, c) => RankedLower(kept, c)'
    BY <1>1 DEF OtherDocument, RankedLower, BestHits, Docs, Adjusted
  <2>2. Many' <=> Many
    BY <1>1 DEF Many, Docs
  <2> QED BY <1>1, <2>1, <2>2 DEF Explained
<1> QED BY <1>1, <1>2, <1>3, <1>4, <1>5, <1>6 DEF Stages, Cohered

LEMMA AnswerStep == IInv /\ Answer => IInv'
<1> SUFFICES ASSUME IInv, Answer PROVE IInv'
  OBVIOUS
<1>1. stage = "synthesise"
  BY DEF Answer
<1>2. PICK n \in 0..MaxSentences : \E g \in 0..n : Replied(Grounded(n, g), TRUE, n, g)
  BY DEF Answer
<1>3. PICK g \in 0..n : Replied(Grounded(n, g), TRUE, n, g)
  BY <1>2
<1>4. n \in Nat /\ g \in Nat
  BY RetrievalAssumption
<1>5. Grounded(n, g) \in {"low", "medium", "high"}
  BY DEF Grounded, Confidence
<1>6. Grounded(n, g) # "low" => 2 * g >= n /\ Grounded(n, g) = Confidence(TopScore)
  BY <1>4 DEF Grounded
<1> QED BY <1>1, <1>3, <1>4, <1>5, <1>6, ReplyStep

LEMMA NoAnswerStep == IInv /\ NoAnswer => IInv'
<1> SUFFICES ASSUME IInv, NoAnswer PROVE IInv'
  OBVIOUS
<1>1. stage = "synthesise" /\ Replied("low", FALSE, 0, 0)
  BY DEF NoAnswer
<1> QED BY <1>1, ReplyStep

LEMMA StutterStep == IInv /\ UNCHANGED vars => IInv'
<1> SUFFICES ASSUME IInv, UNCHANGED vars PROVE IInv'
  OBVIOUS
<1> USE DEF IInv, vars
<1>1. TypeOK' /\ Stages' /\ ConfidenceEarned'
  BY DEF TypeOK, Stages, ConfidenceEarned
<1>2. Cohered' /\ Explained'
  <2>1. \A c : /\ OtherDocument(kept, c) => OtherDocument(kept, c)'
               /\ RankedLower(kept, c) => RankedLower(kept, c)'
    BY DEF OtherDocument, RankedLower, BestHits, Docs, Adjusted
  <2>2. Many' <=> Many
    BY DEF Many, Docs
  <2> QED BY <2>1, <2>2 DEF Cohered, Explained
<1>3. ContextFits'
  BY DEF ContextFits, Earlier
<1> QED BY <1>1, <1>2, <1>3

LEMMA Invariance == Spec => []IInv
<1>1. IInv /\ [Next]_vars => IInv'
  BY SearchStep, CohereStep, RerankStep, AssembleStep, AnswerStep, NoAnswerStep,
     StutterStep DEF Next
<1> QED BY InitInv, <1>1, PTL DEF Spec

\* Every stage of a search keeps to what it may hold: a reply names chunks that
\* were kept, which were hits, which are no more than the cap (rag.py:421).
THEOREM RetrievalTypeCorrect == Spec => []TypeOK
BY Invariance, PTL DEF IInv

\* Whatever the chunks and their sizes, the context Gemini is given is within
\* its budget and leaves out no more than it must (_assemble_context).
THEOREM ContextAlwaysFits == Spec => []ContextFits
BY Invariance, PTL DEF IInv

\* Whatever was found, a hit is missing from the reply only because it is of
\* another document than the best one's, or comes after chunks of the same that
\* were kept, be it the best hit itself (_coherence_rerank); or else because all
\* that were kept rank no lower (_hybrid_rerank).
THEOREM DroppedForAReason == Spec => []NothingBetterDropped
<1>1. IInv => NothingBetterDropped
  BY RetrievalAssumption
     DEF IInv, Stages, Explained, NothingBetterDropped, Many, BestHits,
         OtherDocument, RankedLower, Least
<1> QED BY <1>1, Invariance, PTL

\* However the search and Gemini go, "high" and "medium" are never said without
\* a synthesised answer, half of it grounded at least, and a chunk in the reply
\* that scores 0.86 or 0.70 at least (_map_confidence, _grounding_check).
THEOREM ConfidenceIsEarned == Spec => []ConfidenceEarned
BY Invariance, PTL DEF IInv

-----------------------------------------------------------------------------
(* The cache *)

\* A replaced release ages; what is computed from it has as much less time left
\* to be replied.
Ages ==
    /\ \A v \in Releases : v >= release => gone[v] = 0
    /\ \A r \in Requests : request[r].at = "synthesising" =>
         gone[request[r].of] + request[r].left <= Timeout
    /\ \A k \in Keys : cache[k] # Empty =>
         gone[cache[k].of] + cache[k].left <= Ttl + Timeout

CacheInv == CacheTypeOK /\ Ages /\ StalenessBounded

Searching    == [at : {"searching"}, key : Keys, left : 0..Timeout]
Synthesising == [at : {"synthesising"}, key : Keys, of : Releases, left : 0..Timeout]

LEMMA CacheBounds ==
    /\ Ttl \in Nat /\ Ttl > 0 /\ Timeout \in Nat /\ MaxRelease \in Nat
    /\ Horizon \in Nat /\ Horizon > 0
    /\ 0 \in Releases
BY RagCacheAssumption DEF Horizon, Releases

\* What a cached result and a request in progress look like.
LEMMA EntryShape ==
    ASSUME CacheTypeOK, NEW k \in Keys, cache[k] # Empty
    PROVE  /\ cache[k].kind \in Kinds /\ cache[k].of \in Releases /\ cache[k].left \in 1..Ttl
           /\ cache[k] \in Entry
<1>1. cache[k] \in Entry
  BY DEF CacheTypeOK
<1> QED BY <1>1 DEF Entry

LEMMA RequestShape ==
    ASSUME CacheTypeOK, NEW r \in Requests, request[r] # Idle
    PROVE  /\ request[r].key \in Keys /\ request[r].left \in 0..Timeout
           /\ request[r].at = "searching" => request[r] \in Searching
           /\ request[r].at = "synthesising" =>
                request[r] \in Synthesising /\ request[r].of \in Releases
           /\ request[r].at \in {"searching", "synthesising"}
<1>1. request[r] \in Searching \/ request[r] \in Synthesising
  BY DEF CacheTypeOK, Searching, Synthesising
<1>2. CASE request[r] \in Searching
  BY <1>2 DEF Searching
<1>3. CASE request[r] \in Synthesising
  BY <1>3 DEF Synthesising
<1> QED BY <1>1, <1>2, <1>3

LEMMA CacheStart == CacheInit => CacheInv
<1> SUFFICES ASSUME CacheInit PROVE CacheInv
  OBVIOUS
<1>1. gone \in [Releases -> 0..Horizon]
  BY CacheBounds DEF CacheInit
<1>2. CacheTypeOK
  BY <1>1, CacheBounds DEF CacheInit, CacheTypeOK
<1>3. \A r \in Requests : request[r].at # "synthesising"
  BY DEF CacheInit, Idle
<1>4. Ages
  BY <1>3 DEF CacheInit, Ages
<1> QED BY <1>2, <1>4 DEF CacheInit, CacheInv, StalenessBounded

LEMMA HitStep ==
    ASSUME CacheInv, NEW r \in Requests, NEW k \in Keys, Hit(r, k)
    PROVE  CacheInv'
<1>1. CacheTypeOK /\ Ages
  BY DEF CacheInv
<1>2. /\ cache[k].kind \in Kinds /\ cache[k].of \in Releases /\ cache[k].left \in 1..Ttl
      /\ cache[k] # Empty
  BY <1>1, EntryShape DEF Hit
<1>3. gone[cache[k].of] \in 0..Horizon /\ gone[cache[k].of] < Horizon
  BY <1>1, <1>2, CacheBounds DEF Ages, CacheTypeOK, Horizon
<1>4. replied' = [kind |-> cache[k].kind, of |-> cache[k].of, gone |-> gone[cache[k].of]]
  BY DEF Hit, Replies
<1>5. replied' \in [kind : Kinds, of : Releases, gone : 0..Horizon] /\ replied'.gone < Horizon
  BY <1>2, <1>3, <1>4
<1>6. CacheTypeOK'
  BY <1>1, <1>5 DEF Hit, CacheTypeOK
<1>7. Ages'
  BY <1>1 DEF Hit, Ages
<1> QED BY <1>5, <1>6, <1>7 DEF CacheInv, StalenessBounded, Horizon

\* The result of a search on the current release, or of a synthesis in time,
\* goes to the cache and to the caller.
LEMMA FinishStep ==
    ASSUME CacheInv, NEW r \in Requests, request[r] # Idle, NEW kind \in Kinds, NEW of \in Releases,
           gone[of] + request[r].left <= Timeout, Finish(r, kind, of),
           UNCHANGED <<release, gone, clearing, cleared>>
    PROVE  CacheInv'
<1>1. CacheTypeOK /\ Ages
  BY DEF CacheInv
<1> DEFINE key   == request[r].key
           entry == [kind |-> kind, of |-> of, left |-> Ttl]
<1>2. key \in Keys /\ request[r].left \in 0..Timeout /\ gone[of] \in 0..Horizon
  BY <1>1, RequestShape DEF CacheTypeOK
<1>3. gone[of] + Ttl <= Ttl + Timeout /\ gone[of] < Ttl + Timeout
  BY <1>2, CacheBounds DEF Horizon
<1>4. entry \in Entry
  BY CacheBounds DEF Entry
<1>5. /\ cache' = [cache EXCEPT ![key] = entry]
      /\ request' = [request EXCEPT ![r] = Idle]
      /\ replied' = [kind |-> kind, of |-> of, gone |-> gone[of]]
  BY DEF Finish, Replies
<1>6. replied' \in [kind : Kinds, of : Releases, gone : 0..Horizon] /\ replied'.gone = gone[of]
  BY <1>2, <1>5
<1>7. cache' \in [Keys -> {Empty} \cup Entry]
  BY <1>1, <1>4, <1>5 DEF CacheTypeOK
<1>8. CacheTypeOK'
  BY <1>1, <1>5, <1>6, <1>7 DEF CacheTypeOK
<1>9. ASSUME NEW k \in Keys, cache'[k] # Empty
      PROVE  gone'[cache'[k].of] + cache'[k].left <= Ttl + Timeout
  <2>1. CASE k = key
    <3>1. cache'[k] = entry
      BY <1>1, <1>2, <1>5, <2>1 DEF CacheTypeOK
    <3> QED BY <3>1, <1>3
  <2>2. CASE k # key
    <3>1. cache'[k] = cache[k]
      BY <1>1, <1>5, <2>2 DEF CacheTypeOK
    <3> QED BY <1>1, <1>9, <3>1 DEF Ages
  <2> QED BY <2>1, <2>2
<1>10. ASSUME NEW q \in Requests, request'[q].at = "synthesising"
       PROVE  gone'[request'[q].of] + request'[q].left <= Timeout
  <2>1. request'[q] = request[q]
    BY <1>1, <1>5, <1>10 DEF CacheTypeOK, Idle
  <2> QED BY <1>1, <1>10, <2>1 DEF Ages
<1>11. Ages'
  BY <1>1, <1>9, <1>10 DEF Ages
<1> QED BY <1>3, <1>6, <1>8, <1>11 DEF CacheInv, StalenessBounded

\* A request starts, goes on to the synthesis, or is abandoned.
LEMMA RequestStep ==
    ASSUME CacheInv, NEW r \in Requests, NEW next \in {Idle} \cup Searching \cup Synthesising,
           request' = [request EXCEPT ![r] = next],
           next.at = "synthesising" => gone[next.of] + next.left <= Timeout,
           UNCHANGED <<release, gone, clearing, cleared, cache, replied>>
    PROVE  CacheInv'
<1>1. CacheTypeOK /\ Ages /\ StalenessBounded
  BY DEF CacheInv
<1>2. CacheTypeOK'
  BY <1>1 DEF CacheTypeOK, Searching, Synthesising
<1>3. ASSUME NEW q \in Requests, request'[q].at = "synthesising"
      PROVE  gone'[request'[q].of] + request'[q].left <= Timeout
  <2>1. CASE q = r
    <3>1. request'[q] = next
      BY <1>1, <2>1 DEF CacheTypeOK
    <3> QED BY <1>3, <3>1
  <2>2. CASE q # r
    <3>1. request'[q] = request[q]
      BY <1>1, <2>2 DEF CacheTypeOK
    <3> QED BY <1>1, <1>3, <3>1 DEF Ages
  <2> QED BY <2>1, <2>2
<1>4. Ages'
  BY <1>1, <1>3 DEF Ages
<1> QED BY <1>1, <1>2, <1>4 DEF CacheInv, StalenessBounded

\* A tick takes from what is left exactly what it adds to the ages.
LEMMA TickStep ==
    ASSUME CacheInv, Tick
    PROVE  CacheInv'
<1>1. CacheTypeOK /\ Ages /\ StalenessBounded
  BY DEF CacheInv
<1>2. gone' \in [Releases -> 0..Horizon]
  <2>1. ASSUME NEW v \in Releases
        PROVE  (IF v < release /\ gone[v] < Horizon THEN gone[v] + 1 ELSE gone[v]) \in 0..Horizon
    BY <1>1, CacheBounds DEF CacheTypeOK
  <2> QED BY <2>1 DEF Tick
<1>3. ASSUME NEW v \in Releases
      PROVE  gone[v] \in 0..Horizon /\ gone'[v] <= gone[v] + 1 /\ (v >= release => gone'[v] = gone[v])
  BY <1>1, CacheBounds DEF Tick, CacheTypeOK, Releases
<1>4. ASSUME NEW k \in Keys
      PROVE  \/ cache'[k] = Empty
             \/ /\ cache'[k] \in Entry
                /\ cache[k] # Empty
                /\ cache'[k].of = cache[k].of
                /\ cache'[k].left = cache[k].left - 1
  <2>1. cache'[k] = IF cache[k] = Empty \/ cache[k].left = 1 THEN Empty
                    ELSE [cache[k] EXCEPT !.left = @ - 1]
    BY DEF Tick
  <2>2. CASE cache[k] # Empty /\ cache[k].left # 1
    <3>1. cache[k] \in Entry /\ cache[k].left \in 1..Ttl
      BY <1>1, <2>2, EntryShape
    <3>2. cache[k].left - 1 \in 1..Ttl
      BY <2>2, <3>1, CacheBounds
    <3> QED BY <2>1, <2>2, <3>1, <3>2 DEF Entry
  <2> QED BY <2>1, <2>2
<1>5. ASSUME NEW r \in Requests
      PROVE  \/ request'[r] = Idle
             \/ /\ request[r] # Idle
                /\ request'[r] \in Searching
                /\ request'[r].at = "searching"
             \/ /\ request[r] # Idle
                /\ request'[r] \in Synthesising
                /\ request[r].at = "synthesising"
                /\ request'[r].of = request[r].of
                /\ request'[r].left = request[r].left - 1
  <2>1. request'[r] = IF request[r] = Idle THEN Idle ELSE [request[r] EXCEPT !.left = @ - 1]
    BY DEF Tick
  <2>2. CASE request[r] # Idle
    <3>1. request[r].left - 1 \in 0..Timeout
      BY <1>1, <2>2, RequestShape, CacheBounds DEF Tick
    <3>2. CASE request[r].at = "searching"
      <4>1. request[r] \in Searching
        BY <1>1, <2>2, <3>2, RequestShape
      <4> QED BY <2>1, <2>2, <3>1, <4>1 DEF Searching
    <3>3. CASE request[r].at = "synthesising"
      <4>1. request[r] \in Synthesising
        BY <1>1, <2>2, <3>3, RequestShape
      <4> QED BY <2>1, <2>2, <3>1, <3>3, <4>1 DEF Synthesising
    <3> QED BY <1>1, <2>2, <3>2, <3>3, RequestShape
  <2> QED BY <2>1, <2>2
<1>6. CacheTypeOK'
  <2>1. cache' \in [Keys -> {Empty} \cup Entry]
    <3>1. cache' = [k \in Keys |-> cache'[k]]
      BY DEF Tick
    <3> QED BY <3>1, <1>4
  <2>2. request' \in [Requests -> {Idle} \cup Searching \cup Synthesising]
    <3>1. request' = [r \in Requests |-> request'[r]]
      BY DEF Tick
    <3> QED BY <3>1, <1>5
  <2> QED BY <1>1, <1>2, <2>1, <2>2 DEF CacheTypeOK, Tick, Searching, Synthesising
<1>7. Ages'
  <2>1. ASSUME NEW k \in Keys, cache'[k] # Empty
        PROVE  gone'[cache'[k].of] + cache'[k].left <= Ttl + Timeout
    <3>1. /\ cache[k] # Empty
          /\ cache'[k].of = cache[k].of
          /\ cache'[k].left = cache[k].left - 1
      BY <1>4, <2>1
    <3>2. cache[k].of \in Releases /\ cache[k].left \in 1..Ttl
      BY <1>1, <3>1, EntryShape
    <3>3. gone[cache[k].of] + cache[k].left <= Ttl + Timeout
      BY <1>1, <3>1 DEF Ages
    <3>4. gone'[cache[k].of] \in 0..Horizon
      BY <1>2, <3>2
    <3> QED BY <1>3, <3>1, <3>2, <3>3, <3>4, CacheBounds
  <2>2. ASSUME NEW r \in Requests, request'[r].at = "synthesising"
        PROVE  gone'[request'[r].of] + request'[r].left <= Timeout
    <3>1. /\ request[r] # Idle
          /\ request[r].at = "synthesising"
          /\ request'[r].of = request[r].of
          /\ request'[r].left = request[r].left - 1
      BY <1>5, <2>2 DEF Idle
    <3>2. request[r].of \in Releases /\ request[r].left \in 0..Timeout
      BY <1>1, <3>1, RequestShape
    <3>3. gone[request[r].of] + request[r].left <= Timeout
      BY <1>1, <3>1 DEF Ages
    <3>4. gone'[request[r].of] \in 0..Horizon
      BY <1>2, <3>2
    <3> QED BY <1>3, <3>1, <3>2, <3>3, <3>4, CacheBounds
  <2>3. \A v \in Releases : v >= release' => gone'[v] = 0
    BY <1>1, <1>3 DEF Ages, Tick
  <2> QED BY <2>1, <2>2, <2>3 DEF Ages
<1> QED BY <1>1, <1>6, <1>7 DEF CacheInv, StalenessBounded, Tick

LEMMA CacheStep == CacheInv /\ [CacheNext]_cacheVars => CacheInv'
<1> SUFFICES ASSUME CacheInv, [CacheNext]_cacheVars PROVE CacheInv'
  OBVIOUS
<1>1. CacheTypeOK /\ Ages /\ StalenessBounded
  BY DEF CacheInv
<1>2. ASSUME NEW r \in Requests, NEW k \in Keys, Hit(r, k) PROVE CacheInv'
  BY <1>2, HitStep
<1>3. ASSUME NEW r \in Requests, NEW k \in Keys, Miss(r, k) PROVE CacheInv'
  <2> DEFINE start == [at |-> "searching", key |-> k, left |-> Timeout]
  <2>1. start \in Searching /\ start.at # "synthesising"
    BY CacheBounds DEF Searching
  <2>2. request' = [request EXCEPT ![r] = start] /\ UNCHANGED <<release, gone, clearing, cleared, cache, replied>>
    BY <1>3 DEF Miss
  <2> HIDE DEF start
  <2> QED BY <2>1, <2>2, RequestStep
<1>4. ASSUME NEW r \in Requests, SearchFinds(r) PROVE CacheInv'
  <2> DEFINE found == [at   |-> "synthesising", key  |-> request[r].key,
                       of   |-> release,        left |-> request[r].left]
  <2>1. request[r] # Idle
    BY <1>4 DEF SearchFinds, Idle
  <2>2. release \in Releases /\ gone[release] = 0
    BY <1>1 DEF CacheTypeOK, Ages, Releases
  <2>3. request[r].key \in Keys /\ request[r].left \in 0..Timeout
    BY <1>1, <2>1, RequestShape
  <2>4. found \in Synthesising
    BY <2>2, <2>3 DEF Synthesising
  <2>5. gone[found.of] + found.left <= Timeout
    BY <2>2, <2>3, CacheBounds
  <2>6. request' = [request EXCEPT ![r] = found] /\ UNCHANGED <<release, gone, clearing, cleared, cache, replied>>
    BY <1>4 DEF SearchFinds
  <2> HIDE DEF found
  <2> QED BY <2>4, <2>5, <2>6, RequestStep
<1>5. ASSUME NEW r \in Requests, SearchFindsNothing(r) PROVE CacheInv'
  <2>1. request[r] # Idle
    BY <1>5 DEF SearchFindsNothing, Idle
  <2>2. release \in Releases /\ gone[release] = 0
    BY <1>1 DEF CacheTypeOK, Ages, Releases
  <2>3. gone[release] + request[r].left <= Timeout
    BY <1>1, <2>1, <2>2, RequestShape, CacheBounds
  <2> QED BY <1>5, <2>1, <2>2, <2>3, FinishStep DEF SearchFindsNothing, Kinds
<1>6. ASSUME NEW r \in Requests, Synthesised(r) PROVE CacheInv'
  <2>1. PICK kind \in {"answer", "excerpts"} : Finish(r, kind, request[r].of)
    BY <1>6 DEF Synthesised
  <2>2. request[r] # Idle /\ request[r].at = "synthesising"
    BY <1>6 DEF Synthesised, Idle
  <2>3. request[r].of \in Releases /\ kind \in Kinds
    BY <1>1, <2>2, RequestShape DEF Kinds
  <2>4. gone[request[r].of] + request[r].left <= Timeout
    BY <1>1, <2>2 DEF Ages
  <2> QED BY <1>6, <2>1, <2>2, <2>3, <2>4, FinishStep DEF Synthesised
<1>7. ASSUME NEW r \in Requests, Abandoned(r) PROVE CacheInv'
  <2>1. Idle.at # "synthesising"
    BY DEF Idle
  <2> QED BY <1>7, <2>1, RequestStep DEF Abandoned
<1>8. CASE Publish
  <2>1. CacheTypeOK'
    BY <1>1, <1>8, CacheBounds DEF Publish, CacheTypeOK, Releases
  <2>2. Ages'
    BY <1>1, <1>8 DEF Publish, CacheTypeOK, Releases, Ages
  <2> QED BY <1>1, <1>8, <2>1, <2>2 DEF Publish, CacheInv, StalenessBounded
<1>9. CASE Invalidate
  <2>1. cache' \in [Keys -> {Empty} \cup Entry] /\ \A k \in Keys : cache'[k] \in {Empty, cache[k]}
    BY <1>1, <1>9 DEF Invalidate, CacheTypeOK
  <2>2. CacheTypeOK'
    BY <1>1, <1>9, <2>1 DEF Invalidate, CacheTypeOK
  <2>3. Ages'
    BY <1>1, <1>9, <2>1 DEF Invalidate, Ages
  <2> QED BY <1>1, <1>9, <2>2, <2>3 DEF Invalidate, CacheInv, StalenessBounded
<1>10. CASE EndsWithoutClearing
  BY <1>1, <1>10 DEF EndsWithoutClearing, CacheInv, CacheTypeOK, Ages, StalenessBounded
<1>11. CASE Tick
  BY <1>11, TickStep
<1>12. CASE UNCHANGED cacheVars
  BY <1>1, <1>12 DEF cacheVars, CacheInv, CacheTypeOK, Ages, StalenessBounded
<1> QED BY <1>2, <1>3, <1>4, <1>5, <1>6, <1>7, <1>8, <1>9, <1>10, <1>11, <1>12 DEF CacheNext

\* No reply outlives its release by the cache's time to live and the timeout.
THEOREM Staleness == CacheSpec => []StalenessBounded
<1>1. CacheInv => StalenessBounded
  BY DEF CacheInv
<1> QED BY <1>1, CacheStart, CacheStep, PTL DEF CacheSpec

\* Entries, requests and replies are what the code can hold at any moment: no
\* entry outlives its ttl, no request its timeout.
THEOREM CacheTypeCorrect == CacheSpec => []CacheTypeOK
<1>1. CacheInv => CacheTypeOK
  BY DEF CacheInv
<1> QED BY <1>1, CacheStart, CacheStep, PTL DEF CacheSpec
=============================================================================
