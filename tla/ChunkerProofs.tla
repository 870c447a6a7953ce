--------------------------- MODULE ChunkerProofs ---------------------------
(***************************************************************************)
(* What the chunking strategies do to every text, however long, with any   *)
(* thresholds.                                                             *)
(*                                                                         *)
(* A recursive function is known by its values one step apart; that it     *)
(* has them, and what follows for all of its arguments, is induction, and  *)
(* that is the least number without a property (LeastOf, UpTo, Iteration). *)
(*                                                                         *)
(* Chunks cover a text if they are runs of positions, each beginning after *)
(* the last position of the one before or with it.  Segments without gap   *)
(* and overlap tile it; packing such segments covers it (PackCovers),      *)
(* tears none apart (PackWhole), and when they are single blocks a chunk   *)
(* of three or more is within the target by the estimates of its blocks,   *)
(* so by five characters a block beyond it (PackFits).  Every strategy     *)
(* packs segments that tile the text.                                      *)
(***************************************************************************)
EXTENDS Chunker, FiniteSetTheorems, SequenceTheorems, TLAPS

-----------------------------------------------------------------------------
(* Induction and recursion *)

\* The least-number principle, for sets.
LEMMA LeastOf == ASSUME NEW T, T \subseteq Nat, T # {}
                 PROVE  \E m \in T : \A k \in T : m <= k
<1> DEFINE R == OpToRel(<, Nat)
<1>1. \E x \in T : \A y \in T : ~ (<<y, x>> \in R)
  BY NatLessThanWellFounded, WFMin, Zenon
<1>2. \A x, y \in Nat : x < y => <<x, y>> \in R
  <2>1. R = {ss \in Nat \X Nat : ss[1] < ss[2]}
    BY Zenon DEF OpToRel
  <2> HIDE DEF R
  <2>2. TAKE x, y \in Nat
  <2>3. HAVE x < y
  <2>4. <<x, y>> \in {ss \in Nat \X Nat : ss[1] < ss[2]}
    BY <2>3
  <2> QED BY <2>4, <2>1, Zenon
<1> HIDE DEF R
<1>3. PICK x \in T : \A y \in T : ~ (<<y, x>> \in R)
  BY <1>1, Zenon
<1>4. \A y \in T : ~(y < x)
  BY <1>2, <1>3
<1> QED BY <1>4

\* What holds at 0, and at n + 1 if at n, holds up to any limit.
LEMMA UpTo ==
  ASSUME NEW N \in Nat, NEW Good, 0 \in Good,
         \A n \in 1..N : n - 1 \in Good => n \in Good
  PROVE  \A n \in 0..N : n \in Good
<1> DEFINE Bad == {n \in 0..N : n \notin Good}
<1>1. SUFFICES ASSUME Bad # {} PROVE FALSE
  OBVIOUS
<1>2. PICK m \in Bad : \A k \in Bad : m <= k
  <2>1. Bad \subseteq Nat
    OBVIOUS
  <2> HIDE DEF Bad
  <2> QED BY <1>1, <2>1, LeastOf, Zenon
<1>3. m \in 1..N /\ m - 1 \notin Bad
  BY <1>2
<1> QED BY <1>2, <1>3

\* A function may be defined by its first value and a step.
Iterates(f, N, base, step) ==
    f[0] = base /\ \A n \in 1..N : f[n] = step[n][f[n - 1]]

\* A value stepped N times from a base is a function of the steps taken.
LEMMA Iteration ==
  ASSUME NEW N \in Nat, NEW S, NEW base \in S, NEW step \in [1..N -> [S -> S]]
  PROVE  \E f \in [0..N -> S] : Iterates(f, N, base, step)
<1> DEFINE Reaches(m) == \E f \in [0..N -> S] :
                           Iterates(f, m, base, step)
           Good == {m \in 0..N : Reaches(m)}
<1>1. 0 \in Good
  <2> DEFINE g == [n \in 0..N |-> base]
  <2>3. g \in [0..N -> S] /\ g[0] = base
    OBVIOUS
  <2> HIDE DEF g
  <2>4. Iterates(g, 0, base, step)
    BY <2>3 DEF Iterates
  <2>2. Reaches(0)
    BY <2>3, <2>4
  <2> QED BY <2>2
<1>2. ASSUME NEW n \in 1..N, n - 1 \in Good PROVE n \in Good
  <2>1. PICK f \in [0..N -> S] : Iterates(f, n - 1, base, step)
    BY <1>2
  <2> DEFINE g == [f EXCEPT ![n] = step[n][f[n - 1]]]
  <2>2. g \in [0..N -> S]
    OBVIOUS
  <2>3. g[0] = base /\ g[n] = step[n][g[n - 1]]
    BY <2>1 DEF Iterates
  <2>4. ASSUME NEW k \in 1..(n - 1) PROVE g[k] = step[k][g[k - 1]]
    BY <2>1 DEF Iterates
  <2>5. \A k \in 1..n : g[k] = step[k][g[k - 1]]
    BY <2>3, <2>4
  <2> HIDE DEF g
  <2>6. Iterates(g, n, base, step)
    BY <2>3, <2>5 DEF Iterates
  <2> QED BY <2>2, <2>6
<1>3. N \in Good
  <2> HIDE DEF Good
  <2>1. \A n \in 1..N : n - 1 \in Good => n \in Good
    BY <1>2
  <2>2. \A n \in 0..N : n \in Good
    BY <1>1, <2>1, UpTo, Zenon
  <2> QED BY <2>2
<1> QED BY <1>3

-----------------------------------------------------------------------------
(* Runs of positions *)

IsRun(parts) == \E f, l \in Nat : f <= l /\ parts = Run(f, l)

\* What a run of positions is.
LEMMA RunIs ==
  ASSUME NEW f \in Nat, NEW l \in Int, f <= l + 1
  PROVE  /\ Run(f, l) \in Seq(Nat)
         /\ Len(Run(f, l)) = l - f + 1
         /\ \A i \in 1..(l - f + 1) : Run(f, l)[i] = f + i - 1
         /\ f <= l => IsRun(Run(f, l))
<1>1. l - f + 1 \in Nat
  OBVIOUS
<1>2. Run(f, l) = [i \in 1..(l - f + 1) |-> f + i - 1]
  BY DEF Run
<1>3. Run(f, l) \in Seq(Nat) /\ Len(Run(f, l)) = l - f + 1
  BY <1>1, <1>2
<1> QED BY <1>1, <1>2, <1>3 DEF IsRun

\* A run that is not empty, from its first to its last.
LEMMA RunBounds ==
  ASSUME NEW f \in Nat, NEW l \in Nat, f <= l
  PROVE  /\ Run(f, l) \in Seq(Nat) /\ IsRun(Run(f, l))
         /\ Run(f, l) # <<>> /\ Len(Run(f, l)) \in Nat \ {0}
         /\ Run(f, l)[1] = f /\ Last(Run(f, l)) = l
<1>1. l \in Int /\ f <= l + 1 /\ l - f + 1 \in Nat \ {0}
  OBVIOUS
<1>2. /\ Run(f, l) \in Seq(Nat) /\ IsRun(Run(f, l))
      /\ Len(Run(f, l)) = l - f + 1
      /\ \A i \in 1..(l - f + 1) : Run(f, l)[i] = f + i - 1
  BY <1>1, RunIs
<1>3. 1 \in 1..(l - f + 1) /\ l - f + 1 \in 1..(l - f + 1) /\ f + 1 - 1 = f /\ f + (l - f + 1) - 1 = l
  BY <1>1
<1>4. Run(f, l)[1] = f /\ Run(f, l)[l - f + 1] = l
  BY <1>2, <1>3
<1>5. Run(f, l) # <<>>
  BY <1>1, <1>2
<1> QED BY <1>1, <1>2, <1>4, <1>5 DEF Last

\* A run is cut at any of its blocks.
LEMMA RunConcat ==
  ASSUME NEW f \in Nat, NEW m \in Int, NEW l \in Int, f <= m + 1, m <= l
  PROVE  Run(f, m) \o Run(m + 1, l) = Run(f, l)
<1> DEFINE r == Run(f, m)  s == Run(m + 1, l)  t == Run(f, l)
<1>1. r \in Seq(Nat) /\ Len(r) = m - f + 1 /\ \A i \in 1..(m - f + 1) : r[i] = f + i - 1
  BY RunIs
<1>2. s \in Seq(Nat) /\ Len(s) = l - m /\ \A i \in 1..(l - m) : s[i] = m + i
  <2>1. m + 1 \in Nat /\ m + 1 <= l + 1 /\ l - (m + 1) + 1 = l - m
    OBVIOUS
  <2>2. s \in Seq(Nat) /\ Len(s) = l - (m + 1) + 1 /\ \A i \in 1..(l - (m + 1) + 1) : s[i] = (m + 1) + i - 1
    BY <2>1, RunIs
  <2> HIDE DEF s
  <2> QED BY <2>1, <2>2
<1>3. t \in Seq(Nat) /\ Len(t) = l - f + 1 /\ \A i \in 1..(l - f + 1) : t[i] = f + i - 1
  <2>1. f <= l + 1
    OBVIOUS
  <2> QED BY <2>1, RunIs
<1> HIDE DEF r, s, t
<1>4. /\ r \o s \in Seq(Nat) /\ Len(r \o s) = Len(r) + Len(s)
      /\ \A i \in 1..(Len(r) + Len(s)) : (r \o s)[i] = IF i <= Len(r) THEN r[i] ELSE s[i - Len(r)]
  BY <1>1, <1>2, ConcatProperties
<1>5. ASSUME NEW i \in 1..Len(t) PROVE (r \o s)[i] = t[i]
  <2>1. (r \o s)[i] = IF i <= Len(r) THEN r[i] ELSE s[i - Len(r)]
    <3>1. Len(t) = Len(r) + Len(s)
      BY <1>1, <1>2, <1>3
    <3> QED BY <1>4, <3>1
  <2>2. CASE i <= Len(r)
    BY <1>1, <1>3, <2>1, <2>2
  <2>3. CASE ~(i <= Len(r))
    <3>1. i - Len(r) \in 1..(l - m) /\ m + (i - Len(r)) = f + i - 1
      BY <1>1, <1>3, <2>3
    <3>2. s[i - Len(r)] = m + (i - Len(r))
      BY <1>2, <3>1
    <3>3. t[i] = f + i - 1
      BY <1>3
    <3>4. (r \o s)[i] = s[i - Len(r)]
      BY <2>1, <2>3
    <3> QED BY <3>1, <3>2, <3>3, <3>4, Zenon
  <2> QED BY <2>2, <2>3
<1>6. r \o s = t
  <2>1. Len(r \o s) = Len(t)
    BY <1>1, <1>2, <1>3, <1>4
  <2> QED BY <1>3, <1>4, <1>5, <2>1, SeqEqual
<1> QED BY <1>6 DEF r, s, t

\* A run is the run from its first to its last.
LEMMA RunShape ==
  ASSUME NEW p, IsRun(p)
  PROVE  /\ p \in Seq(Nat) /\ p # <<>> /\ Len(p) \in Nat \ {0}
         /\ p[1] \in Nat /\ Last(p) \in Nat /\ p[1] <= Last(p)
         /\ p = Run(p[1], Last(p))
<1>1. PICK f \in Nat, l \in Nat : f <= l /\ p = Run(f, l)
  BY DEF IsRun
<1>2. p \in Seq(Nat)
  BY <1>1, RunIs
<1>3. p # <<>> /\ Len(p) \in Nat \ {0} /\ p[1] = f /\ Last(p) = l
  BY <1>1, RunBounds
<1> QED BY <1>1, <1>2, <1>3

-----------------------------------------------------------------------------
(* Chunks that cover a text *)

Follows(texts) ==
    /\ texts \in Seq(Seq(Nat))
    /\ \A n \in 1..Len(texts) : IsRun(texts[n])
    /\ \A n \in 2..Len(texts) :
         /\ texts[n][1] \in {Last(texts[n - 1]), Last(texts[n - 1]) + 1}
         /\ Last(texts[n]) > Last(texts[n - 1])

\* From block a to block b.
Covers(texts, a, b) ==
    /\ Follows(texts) /\ Len(texts) > 0
    /\ texts[1][1] = a /\ Last(texts[Len(texts)]) = b

\* One chunk covers a text.
LEMMA CoversOne ==
  ASSUME NEW f \in Nat, NEW l \in Nat, f <= l
  PROVE  Covers(<<Run(f, l)>>, f, l)
<1> DEFINE r == Run(f, l)
<1>1. r \in Seq(Nat) /\ IsRun(r) /\ r[1] = f /\ Last(r) = l
  BY RunIs, RunBounds
<1> HIDE DEF r
<1>2. <<r>> \in Seq(Seq(Nat)) /\ Len(<<r>>) = 1 /\ <<r>>[1] = r
  BY <1>1
<1>3. Covers(<<r>>, f, l)
  <2>1. Last(<<r>>[Len(<<r>>)]) = l
    BY <1>1, <1>2
  <2> QED BY <1>1, <1>2, <2>1 DEF Covers, Follows
<1> QED BY <1>3 DEF r

\* A cover is continued by another that follows it.
LEMMA CoversConcat ==
  ASSUME NEW s, NEW t, NEW a \in Nat, NEW b \in Nat, NEW c \in Nat,
         Covers(s, a, b), Follows(t), Len(t) > 0,
         t[1][1] \in {b, b + 1}, Last(t[1]) > b, Last(t[Len(t)]) = c
  PROVE  Covers(s \o t, a, c)
<1> DEFINE u == s \o t  k == Len(s)  j == Len(t)
<1>1. /\ s \in Seq(Seq(Nat)) /\ t \in Seq(Seq(Nat)) /\ k \in Nat /\ j \in Nat /\ k > 0 /\ j > 0
      /\ \A n \in 1..k : IsRun(s[n])
      /\ \A n \in 2..k : /\ s[n][1] \in {Last(s[n - 1]), Last(s[n - 1]) + 1}
                         /\ Last(s[n]) > Last(s[n - 1])
      /\ \A n \in 1..j : IsRun(t[n])
      /\ \A n \in 2..j : /\ t[n][1] \in {Last(t[n - 1]), Last(t[n - 1]) + 1}
                         /\ Last(t[n]) > Last(t[n - 1])
      /\ s[1][1] = a /\ Last(s[k]) = b
  BY DEF Covers, Follows
<1>2. /\ u \in Seq(Seq(Nat)) /\ Len(u) = k + j
      /\ \A n \in 1..(k + j) : u[n] = IF n <= k THEN s[n] ELSE t[n - k]
  BY <1>1, ConcatProperties
<1>3. \A n \in 1..k : u[n] = s[n]
  BY <1>1, <1>2
<1>4. \A n \in (k + 1)..(k + j) : u[n] = t[n - k] /\ n - k \in 1..j
  BY <1>1, <1>2
<1>5. Last(t[j]) = c
  OBVIOUS
<1> HIDE DEF u, k, j
<1>6. ASSUME NEW n \in 1..(k + j) PROVE IsRun(u[n])
  <2>1. CASE n <= k
    BY <1>1, <1>3, <2>1
  <2>2. CASE n > k
    <3>1. n \in (k + 1)..(k + j)
      BY <1>1, <2>2
    <3> QED BY <1>1, <1>4, <3>1
  <2> QED BY <1>1, <2>1, <2>2
<1>7. ASSUME NEW n \in 2..(k + j)
      PROVE  /\ u[n][1] \in {Last(u[n - 1]), Last(u[n - 1]) + 1}
             /\ Last(u[n]) > Last(u[n - 1])
  <2>1. CASE n <= k
    <3>1. n \in 2..k /\ n \in 1..k /\ n - 1 \in 1..k
      BY <1>1, <2>1
    <3> QED BY <1>1, <1>3, <3>1
  <2>2. CASE n = k + 1
    <3>1. n \in (k + 1)..(k + j) /\ n - 1 \in 1..k /\ n - k = 1 /\ n - 1 = k
      BY <1>1, <2>2
    <3>2. u[n] = t[1] /\ u[n - 1] = s[k]
      BY <1>3, <1>4, <3>1
    <3> QED BY <1>1, <3>2
  <2>3. CASE n > k + 1
    <3>1. n \in Nat /\ n <= k + j
      BY <1>1
    <3>3. n \in (k + 1)..(k + j) /\ n - 1 \in (k + 1)..(k + j)
      BY <1>1, <2>3, <3>1
    <3>4. (n - 1) - k = (n - k) - 1 /\ n - k \in 2..j
      BY <1>1, <2>3, <3>1
    <3>2. u[n] = t[n - k] /\ u[n - 1] = t[(n - k) - 1]
      BY <1>4, <3>3, <3>4
    <3> QED BY <1>1, <3>2, <3>4
  <2> QED BY <1>1, <2>1, <2>2, <2>3
<1>8. u[1][1] = a
  <2>1. 1 \in 1..k
    BY <1>1
  <2> QED BY <1>1, <1>3, <2>1
<1>9. Last(u[Len(u)]) = c
  <2>1. k + j \in (k + 1)..(k + j) /\ (k + j) - k = j
    <3>1. k \in Nat /\ j \in Nat /\ j > 0
      BY <1>1
    <3> QED BY <3>1
  <2>2. u[k + j] = t[j]
    BY <1>4, <2>1
  <2> QED BY <1>2, <1>5, <2>2
<1>10. Covers(u, a, c)
  <2>1. Len(u) > 0
    BY <1>1, <1>2
  <2> QED BY <1>2, <1>6, <1>7, <1>8, <1>9, <2>1 DEF Covers, Follows
<1> QED BY <1>10 DEF u

\* One more chunk.
LEMMA CoversMore ==
  ASSUME NEW s, NEW a \in Nat, NEW b \in Nat, NEW f \in {b, b + 1}, NEW l \in Nat,
         Covers(s, a, b), l > b
  PROVE  Covers(Append(s, Run(f, l)), a, l)
<1> DEFINE r == Run(f, l)
<1>1. f \in Nat /\ f <= l
  OBVIOUS
<1>2. r \in Seq(Nat) /\ Covers(<<r>>, f, l)
  <2>1. r \in Seq(Nat)
    BY <1>1, RunBounds
  <2>2. Covers(<<r>>, f, l)
    BY <1>1, CoversOne
  <2> QED BY <2>1, <2>2
<1>3. r[1] = f /\ Last(r) = l
  BY <1>1, RunBounds
<1> HIDE DEF r
<1>4. Covers(s \o <<r>>, a, l)
  <2>1. Follows(<<r>>) /\ Len(<<r>>) = 1 /\ <<r>>[1] = r /\ <<r>>[Len(<<r>>)] = r
    BY <1>2 DEF Covers
  <2> QED BY <1>3, <2>1, CoversConcat
<1>5. s \o <<r>> = Append(s, r)
  BY <1>2, AppendIsConcat DEF Covers, Follows
<1> QED BY <1>4, <1>5 DEF r

\* The last chunk goes on.
LEMMA CoversFurther ==
  ASSUME NEW s \in Seq(Seq(Nat)), NEW p \in Seq(Nat), NEW a \in Nat, NEW b \in Nat, NEW c \in Nat,
         Covers(Append(s, p), a, b), c > b
  PROVE  Covers(Append(s, p \o Run(b + 1, c)), a, c)
<1> DEFINE u == Append(s, p)  q == p \o Run(b + 1, c)  v == Append(s, q)  k == Len(s)
<1>1. /\ u \in Seq(Seq(Nat)) /\ k \in Nat /\ Len(u) = k + 1 /\ u[k + 1] = p
      /\ \A n \in 1..k : u[n] = s[n]
  <2>1. /\ u \in Seq(Seq(Nat)) /\ Len(u) = k + 1 /\ u[k + 1] = p
        /\ \A n \in 1..k : u[n] = s[n]
    BY AppendProperties
  <2> QED BY <2>1
<1> HIDE DEF u
<1>2. /\ \A n \in 1..(k + 1) : IsRun(u[n])
      /\ \A n \in 2..(k + 1) : /\ u[n][1] \in {Last(u[n - 1]), Last(u[n - 1]) + 1}
                               /\ Last(u[n]) > Last(u[n - 1])
      /\ u[1][1] = a /\ Last(p) = b
  <2>1. Covers(u, a, b)
    BY DEF u
  <2> QED BY <1>1, <2>1 DEF Covers, Follows
<1>3. IsRun(p)
  <2>1. k + 1 \in 1..(k + 1)
    BY <1>1
  <2> QED BY <1>1, <1>2, <2>1
<1>4. p = Run(p[1], b) /\ p[1] \in Nat /\ p[1] <= b
  BY <1>2, <1>3, RunShape
<1>5. q = Run(p[1], c)
  <2>1. b \in Int /\ c \in Int /\ p[1] <= b + 1 /\ b <= c
    BY <1>4
  <2>2. Run(p[1], b) \o Run(b + 1, c) = Run(p[1], c)
    BY <1>4, <2>1, RunConcat
  <2> QED BY <1>4, <2>2
<1>6. q \in Seq(Nat) /\ IsRun(q) /\ q[1] = p[1] /\ Last(q) = c
  <2>1. p[1] <= c
    BY <1>4
  <2>2. /\ Run(p[1], c) \in Seq(Nat) /\ IsRun(Run(p[1], c))
        /\ Run(p[1], c)[1] = p[1] /\ Last(Run(p[1], c)) = c
    BY <1>4, <2>1, RunBounds
  <2> HIDE DEF q
  <2> QED BY <1>5, <2>2
<1> HIDE DEF q
<1>7. /\ v \in Seq(Seq(Nat)) /\ Len(v) = k + 1 /\ v[k + 1] = q
      /\ \A n \in 1..k : v[n] = s[n]
  <2>1. q \in Seq(Nat)
    BY <1>6
  <2> QED BY <2>1, AppendProperties
<1> HIDE DEF v, k
<1>8. ASSUME NEW n \in 1..(k + 1)
      PROVE  v[n][1] = u[n][1] /\ IsRun(v[n]) /\ IsRun(u[n])
  <2>1. CASE n = k + 1
    BY <1>1, <1>3, <1>6, <1>7, <2>1
  <2>2. CASE n \in 1..k
    BY <1>1, <1>2, <1>7, <2>2
  <2> QED BY <1>1, <2>1, <2>2
<1>9. ASSUME NEW n \in 2..(k + 1)
      PROVE  /\ v[n][1] \in {Last(v[n - 1]), Last(v[n - 1]) + 1}
             /\ Last(v[n]) > Last(v[n - 1])
  <2>1. n \in 1..(k + 1) /\ n - 1 \in 1..k
    BY <1>1
  <2>2. v[n - 1] = u[n - 1]
    BY <1>1, <1>7, <2>1
  <2>3. Last(v[n]) = Last(u[n]) \/ (Last(u[n]) = b /\ Last(v[n]) = c)
    <3>1. CASE n = k + 1
      BY <1>1, <1>2, <1>6, <1>7, <3>1
    <3>2. CASE n \in 1..k
      BY <1>1, <1>7, <3>2
    <3> QED BY <1>1, <3>1, <3>2
  <2>4. v[n][1] = u[n][1]
    BY <1>8, <2>1
  <2>5. IsRun(u[n]) /\ IsRun(u[n - 1])
    <3>1. n - 1 \in 1..(k + 1)
      BY <1>1, <2>1
    <3> QED BY <1>2, <2>1, <3>1
  <2>6. Last(u[n]) \in Nat /\ Last(u[n - 1]) \in Nat
    BY <2>5, RunShape
  <2>7. /\ u[n][1] \in {Last(u[n - 1]), Last(u[n - 1]) + 1}
        /\ Last(u[n]) > Last(u[n - 1])
    BY <1>2
  <2> QED BY <2>2, <2>3, <2>4, <2>6, <2>7
<1>10. v[1][1] = a
  <2>1. 1 \in 1..(k + 1)
    BY <1>1
  <2> QED BY <1>2, <1>8, <2>1
<1>11. Covers(v, a, c)
  <2>1. Len(v) > 0 /\ Last(v[Len(v)]) = c
    BY <1>1, <1>6, <1>7
  <2> QED BY <1>7, <1>8, <1>9, <1>10, <2>1 DEF Covers, Follows
<1> QED BY <1>11 DEF v, q

-----------------------------------------------------------------------------
(* Characters and tokens *)

Block == [kind : Kinds, chars : Nat \ {0}]

\* A block has its number of characters.
LEMMA BlockChars ==
  ASSUME NEW blocks \in Seq(Block), NEW i \in 1..Len(blocks)
  PROVE  blocks[i].chars \in Nat
<1>1. blocks[i] \in Block
  BY ElementOfSeq
<1> QED BY <1>1 DEF Block

\* What separates the n-th block of a segment from the one before.
Gap(blocks, s, item, n) ==
    IF n = 1 THEN 0 ELSE IF blocks[s[n]].kind = "numbered" THEN item ELSE BlankLine

\* The length of a segment, block by block.
LEMMA LengthSum ==
  ASSUME NEW blocks \in Seq(Block), NEW s \in Seq(1..Len(blocks)), NEW item \in Nat
  PROVE  \E sum \in [0..Len(s) -> Nat] :
           /\ sum[0] = 0 /\ Length(blocks, s, item) = sum[Len(s)]
           /\ \A n \in 1..Len(s) :
                sum[n] = sum[n - 1] + Gap(blocks, s, item, n) + blocks[s[n]].chars
<1> DEFINE N == Len(s)
           size == [n \in 1..N |-> Gap(blocks, s, item, n) + blocks[s[n]].chars]
           Is(f) == f = [n \in 0..N |->
                       IF n = 0 THEN 0
                       ELSE f[n - 1] + Gap(blocks, s, item, n) + blocks[s[n]].chars]
           step == [n \in 1..N |-> [m \in Nat |-> m + size[n]]]
<1>1. /\ N \in Nat /\ size \in [1..N -> Nat]
      /\ \A n \in 1..N : /\ Gap(blocks, s, item, n) \in Nat /\ blocks[s[n]].chars \in Nat
                         /\ size[n] = Gap(blocks, s, item, n) + blocks[s[n]].chars
  <2>1. N \in Nat
    BY LenProperties
  <2>2. ASSUME NEW n \in 1..N PROVE Gap(blocks, s, item, n) \in Nat /\ blocks[s[n]].chars \in Nat
    <3>1. s[n] \in 1..Len(blocks)
      BY ElementOfSeq
    <3>2. Gap(blocks, s, item, n) \in Nat
      BY DEF Gap, BlankLine
    <3> QED BY <3>1, <3>2, BlockChars
  <2> QED BY <2>1, <2>2
<1> HIDE DEF size, N
<1>2. step \in [1..N -> [Nat -> Nat]]
  BY <1>1
<1>3. PICK f \in [0..N -> Nat] : Iterates(f, N, 0, step)
  <2> HIDE DEF step
  <2> QED BY <1>1, <1>2, Iteration
<1>4. ASSUME NEW n \in 1..N PROVE f[n] = f[n - 1] + size[n]
  <2>1. f[n - 1] \in Nat
    BY <1>1
  <2> QED BY <1>3, <2>1 DEF Iterates
<1>5. Is(f)
  <2>1. f = [n \in 0..N |-> f[n]]
    BY <1>3
  <2>2. ASSUME NEW n \in 0..N
        PROVE  f[n] = IF n = 0 THEN 0
                      ELSE f[n - 1] + Gap(blocks, s, item, n) + blocks[s[n]].chars
    <3>1. CASE n = 0
      BY <1>3, <3>1 DEF Iterates
    <3>2. CASE n \in 1..N
      <4> DEFINE x == f[n - 1]  g == Gap(blocks, s, item, n)  c == blocks[s[n]].chars
      <4>6. n - 1 \in 0..N /\ n # 0
        <5>1. N \in Nat
          BY <1>1
        <5> QED BY <3>2, <5>1
      <4>3. x \in Nat
        BY <1>3, <4>6
      <4>4. f[n] = x + size[n]
        BY <1>4, <3>2
      <4>5. size[n] = g + c /\ g \in Nat /\ c \in Nat
        BY <1>1, <3>2
      <4> HIDE DEF x, g, c
      <4>1. f[n] = x + (g + c) /\ x \in Nat /\ g \in Nat /\ c \in Nat /\ n # 0
        BY <4>3, <4>4, <4>5, <4>6
      <4>2. f[n] = x + g + c
        BY <4>1
      <4> QED BY <4>1, <4>2 DEF x, g, c
    <3> QED BY <1>1, <3>1, <3>2
  <2> QED BY <2>1, <2>2
<1> DEFINE sum == CHOOSE g : Is(g)
<1>6. Is(sum)
  BY <1>5
<1>7. Length(blocks, s, item) = sum[N]
  BY DEF Length, Gap, N
<1> HIDE DEF sum
<1>8. sum[0] = 0
  BY <1>1, <1>6
<1>9. ASSUME NEW n \in 1..N
      PROVE  sum[n] = sum[n - 1] + Gap(blocks, s, item, n) + blocks[s[n]].chars
  <2>1. n \in 0..N /\ n # 0
    BY <1>1
  <2> QED BY <1>6, <2>1
<1>10. \A n \in 0..N : sum[n] \in Nat
  <2> DEFINE Good == {n \in 0..N : sum[n] \in Nat}
  <2>1. 0 \in Good
    BY <1>1, <1>8
  <2>2. ASSUME NEW n \in 1..N, n - 1 \in Good PROVE n \in Good
    <3>1. sum[n - 1] \in Nat /\ n \in 0..N
      BY <1>1, <2>2
    <3>2. Gap(blocks, s, item, n) \in Nat /\ blocks[s[n]].chars \in Nat
      BY <1>1
    <3> QED BY <1>9, <3>1, <3>2
  <2>3. \A n \in 0..N : n \in Good
    <3> HIDE DEF Good
    <3>1. \A n \in 1..N : n - 1 \in Good => n \in Good
      BY <2>2
    <3> QED BY <1>1, <2>1, <3>1, UpTo, Zenon
  <2> QED BY <2>3
<1>11. sum \in [0..N -> Nat]
  <2>1. sum = [n \in 0..N |-> sum[n]]
    BY <1>6
  <2> QED BY <2>1, <1>10
<1> QED BY <1>7, <1>8, <1>9, <1>11 DEF N

\* A segment has a number of characters.
LEMMA LengthNat ==
  ASSUME NEW blocks \in Seq(Block), NEW s \in Seq(1..Len(blocks)), NEW item \in Nat
  PROVE  Length(blocks, s, item) \in Nat
<1>1. PICK f \in [0..Len(s) -> Nat] : Length(blocks, s, item) = f[Len(s)]
  BY LengthSum
<1> QED BY <1>1

\* One more block adds its characters and at most a blank line.
LEMMA LengthMore ==
  ASSUME NEW blocks \in Seq(Block), NEW s \in Seq(1..Len(blocks)), NEW i \in 1..Len(blocks)
  PROVE  /\ Len(s \o <<i>>) = Len(s) + 1
         /\ Length(blocks, s \o <<i>>, BlankLine)
              <= Length(blocks, s, BlankLine) + BlankLine + blocks[i].chars
<1> DEFINE u == s \o <<i>>  N == Len(s)
<1>1. /\ u \in Seq(1..Len(blocks)) /\ Len(u) = N + 1 /\ u[N + 1] = i
      /\ \A n \in 1..N : u[n] = s[n]
      /\ N \in Nat /\ BlankLine \in Nat
  <2>1. u = Append(s, i)
    OBVIOUS
  <2>2. BlankLine \in Nat
    BY DEF BlankLine
  <2> HIDE DEF u
  <2> QED BY <2>1, <2>2
<1> HIDE DEF u, N
<1>2. PICK f \in [0..N -> Nat] :
           /\ f[0] = 0 /\ Length(blocks, s, BlankLine) = f[N]
           /\ \A n \in 1..N : f[n] = f[n - 1] + Gap(blocks, s, BlankLine, n) + blocks[s[n]].chars
  BY <1>1, LengthSum DEF N
<1>3. PICK h \in [0..(N + 1) -> Nat] :
           /\ h[0] = 0 /\ Length(blocks, u, BlankLine) = h[N + 1]
           /\ \A n \in 1..(N + 1) : h[n] = h[n - 1] + Gap(blocks, u, BlankLine, n) + blocks[u[n]].chars
  <2>1. \E h \in [0..Len(u) -> Nat] :
           /\ h[0] = 0 /\ Length(blocks, u, BlankLine) = h[Len(u)]
           /\ \A n \in 1..Len(u) : h[n] = h[n - 1] + Gap(blocks, u, BlankLine, n) + blocks[u[n]].chars
    BY <1>1, LengthSum
  <2> QED BY <1>1, <2>1
<1>4. h[N] = f[N]
  <2> DEFINE Good == {n \in 0..N : h[n] = f[n]}
  <2>1. 0 \in Good
    BY <1>1, <1>2, <1>3
  <2>2. ASSUME NEW n \in 1..N, n - 1 \in Good PROVE n \in Good
    <3>1. n \in 1..(N + 1) /\ n \in 0..N /\ u[n] = s[n]
      BY <1>1
    <3>2. Gap(blocks, u, BlankLine, n) = Gap(blocks, s, BlankLine, n)
      BY <3>1 DEF Gap
    <3>3. /\ h[n] = h[n - 1] + Gap(blocks, s, BlankLine, n) + blocks[s[n]].chars
          /\ f[n] = f[n - 1] + Gap(blocks, s, BlankLine, n) + blocks[s[n]].chars
      BY <1>2, <1>3, <3>1, <3>2
    <3> QED BY <2>2, <3>1, <3>3
  <2>3. \A n \in 0..N : n \in Good
    <3> HIDE DEF Good
    <3>1. \A n \in 1..N : n - 1 \in Good => n \in Good
      BY <2>2
    <3> QED BY <1>1, <2>1, <3>1, UpTo, Zenon
  <2>4. N \in 0..N
    BY <1>1
  <2> QED BY <2>3, <2>4
<1>5. h[N + 1] = f[N] + Gap(blocks, u, BlankLine, N + 1) + blocks[i].chars
  <2>1. N + 1 \in 1..(N + 1) /\ (N + 1) - 1 = N
    BY <1>1
  <2> QED BY <1>1, <1>3, <1>4, <2>1
<1>6. Gap(blocks, u, BlankLine, N + 1) \in Nat /\ Gap(blocks, u, BlankLine, N + 1) <= BlankLine
  BY <1>1 DEF Gap
<1>7. f[N] \in Nat /\ blocks[i].chars \in Nat
  <2>1. N \in 0..N
    BY <1>1
  <2> QED BY <2>1, <1>2, BlockChars
<1>8. Length(blocks, u, BlankLine) <= Length(blocks, s, BlankLine) + BlankLine + blocks[i].chars
  <2> DEFINE g == Gap(blocks, u, BlankLine, N + 1)  x == f[N]  c == blocks[i].chars  b == BlankLine
  <2>1. g \in Nat /\ x \in Nat /\ c \in Nat /\ b \in Nat /\ g <= b
    BY <1>1, <1>6, <1>7
  <2>2. Length(blocks, u, BlankLine) = x + g + c /\ Length(blocks, s, BlankLine) = x
    BY <1>2, <1>3, <1>5
  <2> HIDE DEF g, x, c, b
  <2>3. x + g + c <= x + b + c
    BY <2>1
  <2>4. Length(blocks, u, BlankLine) <= Length(blocks, s, BlankLine) + b + c
    BY <2>2, <2>3
  <2> QED BY <2>4 DEF b, c
<1>9. Len(u) = Len(s) + 1
  BY <1>1 DEF N
<1> QED BY <1>8, <1>9 DEF u

\* The characters of nothing, and of one block.
LEMMA LengthSmall ==
  ASSUME NEW blocks \in Seq(Block)
  PROVE  /\ Length(blocks, <<>>, BlankLine) = 0
         /\ \A i \in 1..Len(blocks) : Length(blocks, <<i>>, BlankLine) = blocks[i].chars
<1> DEFINE b == BlankLine
<1>0. b \in Nat
  BY DEF BlankLine
<1>1. Length(blocks, <<>>, b) = 0
  <2>1. <<>> \in Seq(1..Len(blocks)) /\ Len(<<>>) = 0
    OBVIOUS
  <2>2. PICK f \in [0..Len(<<>>) -> Nat] : f[0] = 0 /\ Length(blocks, <<>>, b) = f[Len(<<>>)]
    BY <1>0, <2>1, LengthSum
  <2> QED BY <2>1, <2>2
<1>2. ASSUME NEW i \in 1..Len(blocks) PROVE Length(blocks, <<i>>, b) = blocks[i].chars
  <2> DEFINE s == <<i>>
  <2>1. s \in Seq(1..Len(blocks)) /\ Len(s) = 1 /\ s[1] = i /\ blocks[i].chars \in Nat
    BY BlockChars
  <2> HIDE DEF s, b
  <2>2. PICK f \in [0..Len(s) -> Nat] :
           /\ f[0] = 0 /\ Length(blocks, s, b) = f[Len(s)]
           /\ \A n \in 1..Len(s) : f[n] = f[n - 1] + Gap(blocks, s, b, n) + blocks[s[n]].chars
    BY <1>0, <2>1, LengthSum
  <2>3. f[1] = f[0] + 0 + blocks[i].chars
    <3>1. 1 \in 1..Len(s) /\ 1 - 1 = 0
      BY <2>1
    <3>2. Gap(blocks, s, b, 1) = 0
      BY DEF Gap
    <3> QED BY <2>1, <2>2, <3>1, <3>2
  <2>4. Length(blocks, s, b) = blocks[i].chars
    BY <2>1, <2>2, <2>3
  <2> QED BY <2>4 DEF s
<1> QED BY <1>1, <1>2

\* The estimate is a quarter, of which at most three characters are lost.
LEMMA EstimateIs ==
  ASSUME NEW n \in Nat
  PROVE  Estimate(n) \in Nat /\ 4 * Estimate(n) <= n /\ n <= 4 * Estimate(n) + 3
BY DEF Estimate

\* A segment has a number of tokens.
LEMMA TokensNat ==
  ASSUME NEW blocks \in Seq(Block), NEW s \in Seq(1..Len(blocks))
  PROVE  Tokens(blocks, s) \in Nat
<1>1. Length(blocks, s, BlankLine) \in Nat
  BY LengthNat DEF BlankLine
<1> QED BY <1>1, EstimateIs DEF Tokens

\* What PackAll takes the segments to be.
Weights(blocks, segments) == [n \in 1..Len(segments) |-> Tokens(blocks, segments[n])]

LEMMA WeightsAre ==
  ASSUME NEW blocks \in Seq(Block), NEW segments, Len(segments) \in Nat,
         \A n \in 1..Len(segments) : segments[n] \in Seq(1..Len(blocks))
  PROVE  Weights(blocks, segments) \in [1..Len(segments) -> Nat]
BY TokensNat DEF Weights

-----------------------------------------------------------------------------
(* Pack *)

Acc   == [full : Seq(Seq(Nat)), current : Seq(Nat), tokens : Nat]
Start == [full |-> <<>>, current |-> <<>>, tokens |-> 0]

\* Collecting a segment leaves chunks and a current one.
LEMMA CollectAcc ==
  ASSUME NEW segments \in Seq(Seq(Nat)), NEW tokens \in [1..Len(segments) -> Nat], NEW carry, NEW n \in 1..Len(segments),
         NEW so \in Acc, n = 1 => so.current = <<>>
  PROVE  Collect(segments, tokens, carry, n, so) \in Acc
<1>1. segments[n] \in Seq(Nat) /\ (n # 1 => segments[n - 1] \in Seq(Nat))
  OBVIOUS
<1>2. so.current \in Seq(Nat) /\ so.full \in Seq(Seq(Nat)) /\ Append(so.full, so.current) \in Seq(Seq(Nat))
  BY AppendProperties DEF Acc
<1>3. so.current \o segments[n] \in Seq(Nat) /\ (n # 1 => segments[n - 1] \o segments[n] \in Seq(Nat))
      /\ <<>> \o segments[n] \in Seq(Nat)
  BY <1>1, <1>2
<1>4. /\ so.tokens \in Nat /\ tokens[n] \in Nat
      /\ n # 1 => tokens[n - 1] \in Nat
  <2>1. so.tokens \in Nat
    BY DEF Acc
  <2>2. Len(segments) \in Nat /\ (n # 1 => n - 1 \in 1..Len(segments))
    BY LenProperties
  <2> QED BY <2>1, <2>2
<1>5. CASE so.current = <<>> \/ so.tokens + tokens[n] <= MaxTokens
  <2>1. Collect(segments, tokens, carry, n, so) =
          [so EXCEPT !.current = so.current \o segments[n], !.tokens = so.tokens + tokens[n]]
    BY <1>5 DEF Collect
  <2>2. so.tokens + tokens[n] \in Nat
    BY <1>4
  <2> QED BY <1>3, <2>1, <2>2 DEF Acc
<1>6. CASE ~(so.current = <<>> \/ so.tokens + tokens[n] <= MaxTokens)
  <2> DEFINE again == tokens[n - 1] <= carry
  <2>1. Collect(segments, tokens, carry, n, so) =
          [full |-> Append(so.full, so.current),
           current |-> (IF again THEN segments[n - 1] ELSE <<>>) \o segments[n],
           tokens |-> (IF again THEN tokens[n - 1] ELSE 0) + tokens[n]]
    BY <1>6 DEF Collect
  <2>2. n # 1
    BY <1>6
  <2>3. (IF again THEN tokens[n - 1] ELSE 0) + tokens[n] \in Nat
    BY <1>4, <2>2
  <2>4. (IF again THEN segments[n - 1] ELSE <<>>) \o segments[n] \in Seq(Nat)
    BY <1>3, <2>2
  <2> HIDE DEF again
  <2> QED BY <1>2, <2>1, <2>3, <2>4 DEF Acc
<1> QED BY <1>5, <1>6

\* The loop, segment by segment.
Packs(after, segments, tokens, carry) ==
    /\ after[0] = Start
    /\ \A n \in 1..Len(segments) :
         after[n] = Collect(segments, tokens, carry, n, after[n - 1])
    /\ LET end == after[Len(segments)]
       IN  Pack(segments, tokens, carry) =
             IF end.current = <<>> THEN end.full ELSE Append(end.full, end.current)

\* Pack collects segment after segment: what it has at each.
LEMMA Packing ==
  ASSUME NEW segments \in Seq(Seq(Nat)), NEW tokens \in [1..Len(segments) -> Nat], NEW carry
  PROVE  \E after \in [0..Len(segments) -> Acc] : Packs(after, segments, tokens, carry)
<1> DEFINE N == Len(segments)
           C(n, so) == Collect(segments, tokens, carry, n, so)
           step == [n \in 1..N |-> [so \in Acc |-> IF C(n, so) \in Acc THEN C(n, so) ELSE Start]]
           Is(f) == f = [n \in 0..N |-> IF n = 0 THEN Start ELSE C(n, f[n - 1])]
<1>1. N \in Nat /\ Start \in Acc /\ Start.current = <<>>
  BY DEF Start, Acc
<1>2. \A n \in 1..N : \A so \in Acc : (n = 1 => so.current = <<>>) => C(n, so) \in Acc
  BY CollectAcc
<1> HIDE DEF C, N
<1>3. step \in [1..N -> [Acc -> Acc]]
  BY <1>1
<1>4. PICK f \in [0..N -> Acc] : Iterates(f, N, Start, step)
  <2> HIDE DEF step
  <2> QED BY <1>1, <1>3, Iteration
<1>5. ASSUME NEW n \in 1..N PROVE f[n] = C(n, f[n - 1])
  <2>1. f[n - 1] \in Acc /\ (n = 1 => f[n - 1] = Start)
    BY <1>1, <1>4 DEF Iterates
  <2>2. C(n, f[n - 1]) \in Acc
    BY <1>1, <1>2, <2>1
  <2>3. f[n] = step[n][f[n - 1]]
    BY <1>4 DEF Iterates
  <2> QED BY <2>1, <2>2, <2>3
<1>6. Is(f)
  <2>1. f = [n \in 0..N |-> f[n]]
    BY <1>4
  <2>2. ASSUME NEW n \in 0..N
        PROVE  f[n] = IF n = 0 THEN Start ELSE C(n, f[n - 1])
    <3>1. n = 0 \/ n \in 1..N
      BY <1>1
    <3> QED BY <1>1, <1>4, <1>5, <3>1 DEF Iterates
  <2> QED BY <2>1, <2>2
<1> DEFINE after == CHOOSE g : Is(g)
<1>7. Is(after)
  BY <1>6
<1>8. Pack(segments, tokens, carry) =
        LET end == after[N]
        IN  IF end.current = <<>> THEN end.full ELSE Append(end.full, end.current)
  BY DEF Pack, C, N, Start
<1> HIDE DEF after
<1>9. after[0] = Start
  BY <1>1, <1>7
<1>10. ASSUME NEW n \in 1..N PROVE after[n] = C(n, after[n - 1])
  <2>1. n \in 0..N /\ n # 0
    BY <1>1
  <2> QED BY <1>7, <2>1
<1>11. \A n \in 0..N : after[n] \in Acc
  <2> DEFINE Good == {n \in 0..N : after[n] \in Acc}
  <2>1. 0 \in Good
    BY <1>1, <1>9
  <2>2. ASSUME NEW n \in 1..N, n - 1 \in Good PROVE n \in Good
    <3>1. after[n - 1] \in Acc /\ (n = 1 => after[n - 1].current = <<>>) /\ n \in 0..N
      BY <1>1, <1>9, <2>2
    <3>2. C(n, after[n - 1]) \in Acc
      BY <1>2, <3>1
    <3> QED BY <1>10, <3>1, <3>2
  <2>3. \A n \in 0..N : n \in Good
    <3> HIDE DEF Good
    <3>1. \A n \in 1..N : n - 1 \in Good => n \in Good
      BY <2>2
    <3> QED BY <1>1, <2>1, <3>1, UpTo, Zenon
  <2> QED BY <2>3
<1>12. after \in [0..N -> Acc]
  <2>1. after = [n \in 0..N |-> after[n]]
    BY <1>7
  <2> QED BY <2>1, <1>11
<1>13. Packs(after, segments, tokens, carry)
  BY <1>8, <1>9, <1>10 DEF C, N, Packs
<1> QED BY <1>12, <1>13 DEF N

\* Segments that are the runs between cuts of the text.
Cuts(segments, cut) ==
    /\ segments \in Seq(Seq(Nat)) /\ Len(segments) > 0
    /\ cut \in [0..Len(segments) -> Nat]
    /\ \A n \in 1..Len(segments) : cut[n - 1] < cut[n] /\ segments[n] = Run(cut[n - 1] + 1, cut[n])

\* Only a single block is carried.
CarriesOne(segments, tokens, cut, carry) ==
    \A n \in 2..Len(segments) :
        tokens[n - 1] <= carry => cut[n - 1] = cut[n - 2] + 1

\* Packing segments that cut a text up covers the text.
LEMMA PackCovers ==
  ASSUME NEW segments, NEW tokens \in [1..Len(segments) -> Nat], NEW cut, NEW carry,
         Cuts(segments, cut), CarriesOne(segments, tokens, cut, carry)
  PROVE  Covers(Pack(segments, tokens, carry), cut[0] + 1, cut[Len(segments)])
<1> DEFINE N == Len(segments)  a == cut[0] + 1
<1>1. /\ segments \in Seq(Seq(Nat)) /\ N \in Nat /\ N > 0 /\ cut \in [0..N -> Nat]
      /\ \A n \in 1..N : cut[n - 1] < cut[n] /\ segments[n] = Run(cut[n - 1] + 1, cut[n])
  BY LenProperties DEF Cuts
<1>2. a \in Nat
  <2>1. 0 \in 0..N
    BY <1>1
  <2>2. cut[0] \in Nat
    BY <1>1, <2>1
  <2> QED BY <2>2
<1>3. PICK after \in [0..N -> Acc] : Packs(after, segments, tokens, carry)
  BY <1>1, Packing
<1> HIDE DEF N
<1> DEFINE Holds(n) == /\ after[n].current # <<>>
                       /\ Covers(Append(after[n].full, after[n].current), a, cut[n])
           Good == {n \in 0..N : n = 0 \/ Holds(n)}
<1>4. ASSUME NEW n \in 1..N, n - 1 \in Good PROVE n \in Good
  <2> DEFINE so == after[n - 1]  seg == segments[n]  c == cut[n]  b == cut[n - 1]
  <2>1. /\ n \in 0..N /\ n - 1 \in 0..N /\ b \in Nat /\ c \in Nat /\ b < c /\ seg = Run(b + 1, c)
        /\ after[n] = Collect(segments, tokens, carry, n, so)
        /\ so \in Acc
    <3>1. n \in 0..N /\ n - 1 \in 0..N
      BY <1>1
    <3> QED BY <1>1, <1>3, <3>1 DEF Packs, N
  <2>2. so.full \in Seq(Seq(Nat)) /\ so.current \in Seq(Nat)
    BY <2>1 DEF Acc
  <2>3. seg \in Seq(Nat) /\ seg # <<>> /\ Covers(<<seg>>, b + 1, c)
    <3>1. b + 1 \in Nat /\ b + 1 <= c
      BY <2>1
    <3>2. /\ Run(b + 1, c) \in Seq(Nat) /\ Run(b + 1, c) # <<>>
          /\ Covers(<<Run(b + 1, c)>>, b + 1, c)
      BY <2>1, <3>1, RunBounds, CoversOne
    <3> HIDE DEF seg
    <3> QED BY <2>1, <3>2
  <2> HIDE DEF so
  <2>4. CASE n = 1
    <3>1. so = Start /\ b + 1 = a
      BY <1>3, <2>4 DEF so, Packs
    <3>2. so.full = <<>> /\ so.current = <<>>
      BY <3>1 DEF Start
    <3>3. after[n].full = <<>> /\ after[n].current = seg
      <4>1. after[n] = [so EXCEPT !.current = so.current \o seg, !.tokens = so.tokens + tokens[n]]
        BY <2>1, <3>2 DEF Collect
      <4>2. so.current \o seg = seg
        BY <2>3, <3>2, ConcatEmptySeq
      <4> QED BY <2>1, <3>2, <4>1, <4>2 DEF Acc
    <3>4. Append(after[n].full, after[n].current) = <<seg>>
      BY <3>3
    <3> QED BY <2>1, <2>3, <3>1, <3>3, <3>4
  <2>5. CASE n # 1
    <3>1. so.current # <<>> /\ Covers(Append(so.full, so.current), a, b)
      BY <1>4, <2>1, <2>5 DEF so
    <3>2. CASE so.tokens + tokens[n] <= MaxTokens
      <4>1. after[n] = [so EXCEPT !.current = so.current \o seg, !.tokens = so.tokens + tokens[n]]
        BY <2>1, <3>2 DEF Collect
      <4>2. after[n].full = so.full /\ after[n].current = so.current \o seg
        BY <2>1, <4>1 DEF Acc
      <4>3. Covers(Append(so.full, so.current \o Run(b + 1, c)), a, c)
        BY <1>2, <2>1, <2>2, <3>1, CoversFurther
      <4>4. so.current \o seg # <<>>
        BY <2>2, <2>3, ConcatSimplifications
      <4> QED BY <2>1, <4>2, <4>3, <4>4
    <3>3. CASE ~(so.tokens + tokens[n] <= MaxTokens)
      <4> DEFINE carried == IF tokens[n - 1] <= carry
                            THEN segments[n - 1] ELSE <<>>
      <4>1. after[n] = [full |-> Append(so.full, so.current), current |-> carried \o seg,
              tokens |-> (IF tokens[n - 1] <= carry THEN tokens[n - 1] ELSE 0) + tokens[n]]
        BY <2>1, <3>1, <3>3 DEF Collect
      <4>2. \E f \in {b, b + 1} : carried \o seg = Run(f, c)
        <5>1. CASE tokens[n - 1] <= carry
          <6>1. n \in 2..N /\ n - 1 \in 1..N /\ (n - 1) - 1 = n - 2
            BY <1>1, <2>5
          <6>2. b = cut[n - 2] + 1 /\ segments[n - 1] = Run(cut[n - 2] + 1, b)
            BY <1>1, <5>1, <6>1 DEF CarriesOne, N
          <6>3. Run(b, b) \o Run(b + 1, c) = Run(b, c)
            <7>1. b \in Int /\ c \in Int /\ b <= b + 1 /\ b <= c
              BY <2>1
            <7> QED BY <2>1, <7>1, RunConcat
          <6> QED BY <2>1, <5>1, <6>2, <6>3
        <5>2. CASE ~(tokens[n - 1] <= carry)
          <6>1. carried \o seg = seg
            BY <2>3, <5>2, ConcatEmptySeq
          <6> QED BY <2>1, <6>1
        <5> QED BY <5>1, <5>2
      <4> HIDE DEF carried
      <4>3. PICK f \in {b, b + 1} : carried \o seg = Run(f, c)
        BY <4>2
      <4>4. after[n].full = Append(so.full, so.current) /\ after[n].current = Run(f, c)
        BY <4>1, <4>3
      <4>5. Covers(Append(Append(so.full, so.current), Run(f, c)), a, c)
        BY <1>2, <2>1, <3>1, CoversMore
      <4>6. Run(f, c) # <<>>
        <5>1. f \in Nat /\ f <= c
          BY <2>1
        <5> QED BY <2>1, <5>1, RunBounds
      <4> QED BY <2>1, <4>4, <4>5, <4>6
    <3> QED BY <3>2, <3>3
  <2> QED BY <2>4, <2>5
<1>5. Holds(N)
  <2>1. 0 \in Good
    BY <1>1
  <2>2. \A n \in 0..N : n \in Good
    <3> HIDE DEF Good
    <3>1. \A n \in 1..N : n - 1 \in Good => n \in Good
      BY <1>4
    <3> QED BY <1>1, <2>1, <3>1, UpTo, Zenon
  <2>3. N \in 0..N /\ N # 0
    BY <1>1
  <2> QED BY <2>2, <2>3
<1> QED BY <1>3, <1>5 DEF Packs, N

\* In one of the chunks.
Inside(s, texts) == \E i \in 1..Len(texts) : ToSet(s) \subseteq ToSet(texts[i])

\* A chunk that is appended takes nothing away, and holds what is in it.
LEMMA InsideMore ==
  ASSUME NEW s, NEW t \in Seq(Seq(Nat)), NEW p \in Seq(Nat)
  PROVE  /\ Inside(s, t) => Inside(s, Append(t, p))
         /\ ToSet(s) \subseteq ToSet(p) => Inside(s, Append(t, p))
<1> DEFINE u == Append(t, p)
<1>1. /\ Len(t) \in Nat /\ Len(u) = Len(t) + 1 /\ u[Len(t) + 1] = p
      /\ \A i \in 1..Len(t) : u[i] = t[i]
  BY AppendProperties
<1> HIDE DEF u
<1>2. Len(t) + 1 \in 1..Len(u) /\ \A i \in 1..Len(t) : i \in 1..Len(u)
  BY <1>1
<1>3. Inside(s, t) => Inside(s, u)
  BY <1>1, <1>2 DEF Inside
<1>4. ToSet(s) \subseteq ToSet(p) => Inside(s, u)
  BY <1>1, <1>2 DEF Inside
<1> QED BY <1>3, <1>4 DEF u

\* The positions of joined segments are those of both.
LEMMA ToSetConcat ==
  ASSUME NEW S, NEW p \in Seq(S), NEW q \in Seq(S)
  PROVE  ToSet(p \o q) = ToSet(p) \cup ToSet(q)
<1>1. /\ p \o q \in Seq(S) /\ Len(p \o q) = Len(p) + Len(q) /\ Len(p) \in Nat /\ Len(q) \in Nat
      /\ \A i \in 1..(Len(p) + Len(q)) : (p \o q)[i] = IF i <= Len(p) THEN p[i] ELSE q[i - Len(p)]
  BY ConcatProperties
<1>2. /\ DOMAIN p = 1..Len(p) /\ DOMAIN q = 1..Len(q) /\ DOMAIN (p \o q) = 1..(Len(p) + Len(q))
  BY <1>1, LenProperties
<1>3. ASSUME NEW x \in ToSet(p) PROVE x \in ToSet(p \o q)
  <2>1. PICK i \in 1..Len(p) : x = p[i]
    BY <1>2 DEF ToSet
  <2>2. i \in 1..(Len(p) + Len(q)) /\ i <= Len(p)
    BY <1>1
  <2>3. (p \o q)[i] = p[i]
    BY <1>1, <2>2
  <2> QED BY <1>2, <2>1, <2>2, <2>3 DEF ToSet
<1>4. ASSUME NEW x \in ToSet(q) PROVE x \in ToSet(p \o q)
  <2>1. PICK i \in 1..Len(q) : x = q[i]
    BY <1>2 DEF ToSet
  <2> DEFINE j == Len(p) + i
  <2>2. j \in 1..(Len(p) + Len(q)) /\ ~(j <= Len(p)) /\ j - Len(p) = i
    BY <1>1
  <2> HIDE DEF j
  <2>3. (p \o q)[j] = q[i]
    BY <1>1, <2>2
  <2> QED BY <1>2, <2>1, <2>2, <2>3 DEF ToSet
<1>5. ASSUME NEW x \in ToSet(p \o q) PROVE x \in ToSet(p) \cup ToSet(q)
  <2>1. PICK i \in 1..(Len(p) + Len(q)) : x = (p \o q)[i]
    BY <1>2 DEF ToSet
  <2>2. CASE i <= Len(p)
    <3>1. i \in 1..Len(p) /\ x = p[i]
      BY <1>1, <2>1, <2>2
    <3> QED BY <1>2, <3>1 DEF ToSet
  <2>3. CASE ~(i <= Len(p))
    <3>1. i - Len(p) \in 1..Len(q) /\ x = q[i - Len(p)]
      BY <1>1, <2>1, <2>3
    <3> QED BY <1>2, <3>1 DEF ToSet
  <2> QED BY <2>2, <2>3
<1> QED BY <1>3, <1>4, <1>5

\* Whatever is carried, a segment is in one chunk as a whole.
LEMMA PackWhole ==
  ASSUME NEW segments \in Seq(Seq(Nat)), NEW tokens \in [1..Len(segments) -> Nat], NEW carry,
         \A n \in 1..Len(segments) : segments[n] # <<>>,
         NEW k \in 1..Len(segments)
  PROVE  Inside(segments[k], Pack(segments, tokens, carry))
<1> DEFINE N == Len(segments)
<1>1. N \in Nat /\ \A n \in 1..N : segments[n] \in Seq(Nat) /\ segments[n] # <<>>
  BY LenProperties, ElementOfSeq
<1>2. PICK after \in [0..N -> Acc] : Packs(after, segments, tokens, carry)
  BY Packing
<1> HIDE DEF N
<1> DEFINE Sofar(n) == Append(after[n].full, after[n].current)
           Good == {n \in 0..N : /\ n > 0 => after[n].current # <<>>
                                 /\ k <= n => Inside(segments[k], Sofar(n))}
<1>3. ASSUME NEW n \in 1..N, n - 1 \in Good PROVE n \in Good
  <2> DEFINE so == after[n - 1]  seg == segments[n]
  <2>1. /\ n \in 0..N /\ n - 1 \in 0..N /\ seg \in Seq(Nat) /\ seg # <<>>
        /\ after[n] = Collect(segments, tokens, carry, n, so)
        /\ so \in Acc /\ after[n] \in Acc
        /\ n - 1 > 0 \/ so = Start
    <3>1. n \in 0..N /\ n - 1 \in 0..N /\ (n - 1 > 0 \/ n - 1 = 0)
      BY <1>1
    <3> QED BY <1>1, <1>2, <3>1 DEF Packs, N
  <2>2. /\ so.full \in Seq(Seq(Nat)) /\ so.current \in Seq(Nat)
        /\ after[n].full \in Seq(Seq(Nat)) /\ after[n].current \in Seq(Nat)
    BY <2>1 DEF Acc
  <2>3. k <= n - 1 => Inside(segments[k], Append(so.full, so.current))
    BY <1>3
  <2>4. k \in Nat /\ k > 0
    BY <1>1 DEF N
  <2> HIDE DEF so
  <2>5. CASE so.current = <<>> \/ so.tokens + tokens[n] <= MaxTokens
    <3>1. after[n] = [so EXCEPT !.current = so.current \o seg, !.tokens = so.tokens + tokens[n]]
      BY <2>1, <2>5 DEF Collect
    <3>2. after[n].full = so.full /\ after[n].current = so.current \o seg
      BY <2>1, <3>1 DEF Acc
    <3>3. after[n].current # <<>>
      BY <2>1, <2>2, <3>2, ConcatSimplifications
    <3>4. /\ ToSet(so.current) \subseteq ToSet(after[n].current)
          /\ ToSet(seg) \subseteq ToSet(after[n].current)
      BY <2>1, <2>2, <3>2, ToSetConcat
    <3>5. ASSUME k <= n - 1 PROVE Inside(segments[k], Sofar(n))
      <4> DEFINE t == so.full  p == so.current  q == after[n].current
      <4>1. Inside(segments[k], Append(t, p))
        BY <2>3, <3>5
      <4>2. t \in Seq(Seq(Nat)) /\ p \in Seq(Nat) /\ q \in Seq(Nat) /\ ToSet(p) \subseteq ToSet(q)
        BY <2>2, <3>4
      <4>3. after[n].full = t
        BY <3>2
      <4>8. Sofar(n) = Append(t, q)
        BY <4>3
      <4> HIDE DEF t, p, q, Sofar
      <4>4. /\ Len(t) \in Nat /\ Len(Append(t, p)) = Len(t) + 1 /\ Append(t, p)[Len(t) + 1] = p
            /\ \A i \in 1..Len(t) : Append(t, p)[i] = t[i]
        BY <4>2, AppendProperties
      <4>5. PICK i \in 1..(Len(t) + 1) : ToSet(segments[k]) \subseteq ToSet(Append(t, p)[i])
        BY <4>1, <4>4 DEF Inside
      <4>6. CASE i \in 1..Len(t)
        <5>1. Inside(segments[k], t)
          BY <4>4, <4>5, <4>6 DEF Inside
        <5>2. Inside(segments[k], Append(t, q))
          BY <4>2, <5>1, InsideMore
        <5> QED BY <4>8, <5>2
      <4>7. CASE i = Len(t) + 1
        <5>1. ToSet(segments[k]) \subseteq ToSet(q)
          BY <4>2, <4>4, <4>5, <4>7
        <5>2. Inside(segments[k], Append(t, q))
          BY <4>2, <5>1, InsideMore
        <5> QED BY <4>8, <5>2
      <4>9. i \in 1..Len(t) \/ i = Len(t) + 1
        <5>1. Len(t) \in Nat
          BY <4>4
        <5> QED BY <5>1
      <4> QED BY <4>6, <4>7, <4>9
    <3>6. Inside(seg, Sofar(n))
      BY <2>2, <3>4, InsideMore
    <3>7. k <= n - 1 \/ k = n \/ k > n
      BY <2>1, <2>4, <1>1
    <3>8. k <= n => Inside(segments[k], Sofar(n))
      BY <2>1, <2>4, <3>5, <3>6, <3>7
    <3> QED BY <2>1, <3>3, <3>8
  <2>6. CASE ~(so.current = <<>> \/ so.tokens + tokens[n] <= MaxTokens)
    <3> DEFINE carried == IF tokens[n - 1] <= carry
                          THEN segments[n - 1] ELSE <<>>
    <3>1. after[n] = [full |-> Append(so.full, so.current), current |-> carried \o seg,
              tokens |-> (IF tokens[n - 1] <= carry THEN tokens[n - 1] ELSE 0) + tokens[n]]
      BY <2>1, <2>6 DEF Collect
    <3>3. carried \in Seq(Nat)
      <4>1. n # 1
        BY <2>1, <2>6 DEF Start
      <4>2. n - 1 \in 1..N
        BY <1>1, <4>1
      <4> QED BY <1>1, <4>2
    <3> HIDE DEF carried, seg
    <3>2. after[n].full = Append(so.full, so.current) /\ after[n].current = carried \o seg
      BY <3>1
    <3>4. after[n].current # <<>>
      BY <2>1, <3>2, <3>3, ConcatSimplifications
    <3>5. ToSet(seg) \subseteq ToSet(after[n].current)
      BY <2>1, <3>2, <3>3, ToSetConcat
    <3>6. k <= n - 1 => Inside(segments[k], Sofar(n))
      BY <2>2, <2>3, <3>2, InsideMore
    <3>7. Inside(seg, Sofar(n))
      BY <2>2, <3>5, InsideMore
    <3>8. k <= n - 1 \/ k = n \/ k > n
      BY <2>1, <2>4, <1>1
    <3>9. k <= n => Inside(segments[k], Sofar(n))
      BY <2>1, <2>4, <3>6, <3>7, <3>8 DEF seg
    <3> QED BY <2>1, <3>4, <3>9
  <2> QED BY <2>5, <2>6
<1>4. \A n \in 0..N : n \in Good
  <2>1. 0 \in Good
    BY <1>1 DEF N
  <2> HIDE DEF Good
  <2>2. \A n \in 1..N : n - 1 \in Good => n \in Good
    BY <1>3
  <2> QED BY <1>1, <2>1, <2>2, UpTo, Zenon
<1>5. N \in 0..N /\ N > 0 /\ k <= N
  BY <1>1 DEF N
<1>6. after[N].current # <<>> /\ Inside(segments[k], Sofar(N))
  BY <1>4, <1>5
<1> QED BY <1>2, <1>6 DEF Packs, N

\* What a chunk packed from single blocks is.
Small(blocks) ==
    {p \in Seq(1..Len(blocks)) :
        \/ Fits(blocks, p)
        \/ Len(p) = 1
        \/ Len(p) = 2 /\ Estimate(blocks[p[1]].chars) <= Overlap}

\* A string measured block by block.
Measured(blocks, p, tokens) == Length(blocks, p, BlankLine) <= 4 * tokens + 5 * Len(p)

\* Nothing has no tokens.
LEMMA NoTokens ==
  ASSUME NEW blocks \in Seq(Block)
  PROVE  Tokens(blocks, <<>>) = 0
<1>1. Length(blocks, <<>>, BlankLine) = 0
  BY LengthSmall
<1> QED BY <1>1 DEF Tokens, Estimate

\* A string of few enough tokens is small.
LEMMA FewTokens ==
  ASSUME NEW blocks \in Seq(Block), NEW p \in Seq(1..Len(blocks)), Tokens(blocks, p) <= MaxTokens
  PROVE  p \in Small(blocks)
<1> DEFINE w == Length(blocks, p, BlankLine)  k == Len(p)
<1>1. w \in Nat /\ k \in Nat /\ MaxTokens \in Nat
  BY LengthNat, LenProperties, ChunkerAssumption DEF BlankLine
<1>2. Estimate(w) <= MaxTokens
  BY DEF Tokens
<1>3. k = 0 => w = 0
  <2>1. k = 0 => p = <<>>
    BY EmptySeq
  <2> QED BY <2>1, LengthSmall
<1> HIDE DEF w, k
<1>4. w <= 4 * Estimate(w) + 3 /\ Estimate(w) \in Nat
  BY <1>1, EstimateIs
<1> DEFINE e == Estimate(w)
<1>5. w <= 4 * e + 3 /\ e \in Nat /\ e <= MaxTokens
  BY <1>2, <1>4
<1> HIDE DEF e
<1>6. w <= 4 * MaxTokens + 5 * k
  BY <1>1, <1>3, <1>5
<1>7. Fits(blocks, p)
  BY <1>6 DEF Fits, BlankLine, w, k
<1> QED BY <1>7 DEF Small

\* One more block is measured by itself.
LEMMA MeasuredMore ==
  ASSUME NEW blocks \in Seq(Block), NEW p \in Seq(1..Len(blocks)), NEW t \in Nat,
         Measured(blocks, p, t), NEW i \in 1..Len(blocks)
  PROVE  /\ Tokens(blocks, <<i>>) = Estimate(blocks[i].chars)
         /\ Measured(blocks, p \o <<i>>, t + Tokens(blocks, <<i>>))
         /\ p \o <<i>> \in Seq(1..Len(blocks)) /\ Len(p \o <<i>>) = Len(p) + 1
<1> DEFINE u == p \o <<i>>  c == blocks[i].chars  x == Estimate(c)  m == Length(blocks, p, BlankLine)
           w == Length(blocks, u, BlankLine)  k == Len(p)
<1>1. c \in Nat
  BY BlockChars
<1>2. x \in Nat /\ c <= 4 * x + 3
  <2> HIDE DEF c
  <2> QED BY <1>1, EstimateIs
<1>3. Tokens(blocks, <<i>>) = x
  BY LengthSmall DEF Tokens
<1>4. Len(u) = k + 1 /\ w <= m + BlankLine + c /\ BlankLine = 2
  BY LengthMore DEF BlankLine
<1>5. m \in Nat /\ w \in Nat /\ k \in Nat /\ u \in Seq(1..Len(blocks))
  <2>1. u \in Seq(1..Len(blocks)) /\ BlankLine \in Nat /\ k \in Nat
    BY ConcatProperties, LenProperties DEF BlankLine
  <2> HIDE DEF u
  <2> QED BY <2>1, LengthNat
<1>6. m <= 4 * t + 5 * k
  BY DEF Measured
<1> HIDE DEF u, c, x, m, w, k
<1>7. w <= m + 2 + c
  BY <1>4
<1>8. w <= (4 * t + 5 * k) + 2 + (4 * x + 3)
  BY <1>1, <1>2, <1>5, <1>6, <1>7
<1>9. w <= 4 * (t + x) + 5 * (k + 1)
  BY <1>2, <1>5, <1>8
<1>10. Measured(blocks, u, t + x)
  BY <1>4, <1>9 DEF Measured, w
<1> QED BY <1>3, <1>4, <1>5, <1>10 DEF u, x, c, k

\* The segments of one block each.
LEMMA EachIs ==
  ASSUME NEW blocks \in Seq(Block), NEW segment \in Seq(1..Len(blocks))
  PROVE  /\ Each(segment) \in Seq(Seq(1..Len(blocks)))
         /\ Each(segment) \in Seq(Seq(Nat))
         /\ Len(Each(segment)) = Len(segment)
         /\ \A n \in 1..Len(segment) : Each(segment)[n] = <<segment[n]>>
<1>1. Len(segment) \in Nat /\ \A n \in 1..Len(segment) : segment[n] \in 1..Len(blocks)
  BY LenProperties, ElementOfSeq
<1>2. \A n \in 1..Len(segment) : <<segment[n]>> \in Seq(1..Len(blocks)) /\ <<segment[n]>> \in Seq(Nat)
  <2>1. TAKE n \in 1..Len(segment)
  <2>2. segment[n] \in 1..Len(blocks) /\ segment[n] \in Nat
    BY <1>1
  <2> QED BY <2>2
<1> QED BY <1>1, <1>2 DEF Each

\* Segments of one block each have numbers of tokens.
LEMMA EachWeights ==
  ASSUME NEW blocks \in Seq(Block), NEW segment \in Seq(1..Len(blocks))
  PROVE  /\ Weights(blocks, Each(segment)) \in [1..Len(segment) -> Nat]
         /\ \A n \in 1..Len(segment) :
              Weights(blocks, Each(segment))[n] = Tokens(blocks, <<segment[n]>>)
<1> DEFINE segments == Each(segment)
<1>1. /\ segments \in Seq(Seq(1..Len(blocks))) /\ Len(segments) = Len(segment) /\ Len(segments) \in Nat
      /\ \A n \in 1..Len(segments) : segments[n] = <<segment[n]>>
  BY EachIs, LenProperties
<1> HIDE DEF segments
<1>2. \A n \in 1..Len(segments) : segments[n] \in Seq(1..Len(blocks))
  BY <1>1
<1>3. Weights(blocks, segments) \in [1..Len(segments) -> Nat]
  BY <1>1, <1>2, WeightsAre
<1>4. \A n \in 1..Len(segments) : Weights(blocks, segments)[n] = Tokens(blocks, <<segment[n]>>)
  BY <1>1 DEF Weights
<1> QED BY <1>1, <1>3, <1>4 DEF segments

\* A chunk packed from single blocks is as small as they allow.
LEMMA PackFits ==
  ASSUME NEW blocks \in Seq(Block), NEW segment \in Seq(1..Len(blocks))
  PROVE  PackAll(blocks, Each(segment), Overlap) \in Seq(Small(blocks))
<1> DEFINE segments == Each(segment)  N == Len(segments)  L == Len(blocks)
           tokens == Weights(blocks, segments)
<1>1. /\ segments \in Seq(Seq(Nat)) /\ N \in Nat /\ L \in Nat /\ tokens \in [1..N -> Nat]
      /\ \A n \in 1..N : /\ segment[n] \in 1..L
                         /\ segments[n] = <<segment[n]>>
                         /\ tokens[n] = Tokens(blocks, <<segment[n]>>)
  <2>1. /\ segments \in Seq(Seq(Nat)) /\ N = Len(segment) /\ N \in Nat /\ L \in Nat
        /\ \A n \in 1..N : segment[n] \in 1..L /\ segments[n] = <<segment[n]>>
    BY EachIs, LenProperties, ElementOfSeq
  <2>2. /\ tokens \in [1..Len(segment) -> Nat]
        /\ \A n \in 1..Len(segment) : tokens[n] = Tokens(blocks, <<segment[n]>>)
    BY EachWeights
  <2> HIDE DEF segments, N, L, tokens
  <2> QED BY <2>1, <2>2
<1>2. PackAll(blocks, segments, Overlap) = Pack(segments, tokens, Overlap)
  BY DEF PackAll, Weights
<1> HIDE DEF tokens, segments
<1>3. PICK after \in [0..N -> Acc] : Packs(after, segments, tokens, Overlap)
  BY <1>1, Packing
<1>4. MaxTokens \in Nat /\ Overlap \in Nat
  BY ChunkerAssumption
<1> DEFINE Good == {n \in 0..N : /\ after[n].full \in Seq(Small(blocks))
                                 /\ after[n].current \in Small(blocks)
                                 /\ Measured(blocks, after[n].current, after[n].tokens)}
<1>5. 0 \in Good
  <2>1. after[0] = [full |-> <<>>, current |-> <<>>, tokens |-> 0]
    BY <1>3 DEF Packs, Start
  <2>2. after[0].full = <<>> /\ after[0].current = <<>> /\ after[0].tokens = 0
    BY <2>1
  <2>3. <<>> \in Small(blocks) /\ Measured(blocks, <<>>, 0)
    <3>1. Length(blocks, <<>>, BlankLine) = 0 /\ <<>> \in Seq(1..L) /\ Len(<<>>) = 0
      BY LengthSmall
    <3>2. Fits(blocks, <<>>) /\ Measured(blocks, <<>>, 0)
      BY <1>4, <3>1 DEF Fits, Measured, BlankLine
    <3> QED BY <3>1, <3>2 DEF Small
  <2>4. <<>> \in Seq(Small(blocks)) /\ 0 \in 0..N
    BY <1>1
  <2> QED BY <2>2, <2>3, <2>4, Zenon
<1>6. ASSUME NEW n \in 1..N, n - 1 \in Good PROVE n \in Good
  <2> DEFINE so == after[n - 1]  i == segment[n]  p == so.current  t == so.tokens  x == tokens[n]
  <2>1. /\ n \in 0..N /\ n - 1 \in 0..N
        /\ after[n] = Collect(segments, tokens, Overlap, n, so) /\ so \in Acc
        /\ so.full \in Seq(Small(blocks)) /\ p \in Small(blocks) /\ Measured(blocks, p, t)
        /\ n - 1 > 0 \/ so = Start
    <3>1. n \in 0..N /\ n - 1 \in 0..N /\ (n - 1 > 0 \/ n - 1 = 0)
      BY <1>1
    <3> QED BY <1>1, <1>3, <1>6, <3>1 DEF Packs, N
  <2>2. i \in 1..L /\ segments[n] = <<i>> /\ x = Tokens(blocks, <<i>>) /\ x \in Nat
    BY <1>1
  <2>3. p \in Seq(1..L) /\ Len(p) \in Nat /\ t \in Nat
    BY <2>1 DEF Small, Acc
  <2> HIDE DEF so, i, x
  <2>4. /\ Measured(blocks, p \o <<i>>, t + x)
        /\ p \o <<i>> \in Seq(1..L) /\ Len(p \o <<i>>) = Len(p) + 1
    BY <2>1, <2>2, <2>3, MeasuredMore
  <2>5. CASE so.current = <<>> \/ so.tokens + tokens[n] <= MaxTokens
    <3>1. after[n] = [so EXCEPT !.current = so.current \o <<i>>, !.tokens = so.tokens + tokens[n]]
      BY <2>1, <2>2, <2>5 DEF Collect
    <3>2. after[n].full = so.full /\ after[n].current = p \o <<i>> /\ after[n].tokens = t + x
      BY <2>1, <3>1 DEF Acc, x
    <3>3. p \o <<i>> \in Small(blocks)
      <4>1. CASE so.current = <<>>
        <5>1. Len(p \o <<i>>) = 1
          BY <2>4, <4>1
        <5> QED BY <2>4, <5>1 DEF Small
      <4>2. CASE so.tokens + tokens[n] <= MaxTokens
        <5>1. t + x <= MaxTokens
          BY <4>2 DEF x
        <5> DEFINE q == p \o <<i>>  w == Length(blocks, q, BlankLine)
        <5>2. w <= 4 * (t + x) + 5 * Len(q) /\ q \in Seq(1..L)
          BY <2>4 DEF Measured
        <5>3. Len(q) \in Nat /\ w \in Nat
          <6>1. BlankLine \in Nat
            BY DEF BlankLine
          <6> HIDE DEF q
          <6> QED BY <5>2, <6>1, LengthNat, LenProperties
        <5> DEFINE k == Len(q)
        <5>4. w <= 4 * (t + x) + 5 * k /\ k \in Nat
          BY <5>2, <5>3
        <5> HIDE DEF q, w, k, p, t
        <5>7. t \in Nat /\ x \in Nat /\ w \in Nat /\ MaxTokens \in Nat /\ t + x <= MaxTokens
          BY <1>4, <2>2, <2>3, <5>1, <5>3
        <5>8. w <= 4 * MaxTokens + 5 * k
          BY <5>4, <5>7
        <5>5. Fits(blocks, q)
          BY <5>4, <5>8 DEF Fits, BlankLine, w, k
        <5>6. q \in Small(blocks)
          BY <5>2, <5>5 DEF Small
        <5> QED BY <5>6 DEF q, p
      <4> QED BY <2>5, <4>1, <4>2
    <3> HIDE DEF p, t
    <3> QED BY <2>1, <2>4, <3>2, <3>3
  <2>6. CASE ~(so.current = <<>> \/ so.tokens + tokens[n] <= MaxTokens)
    <3> DEFINE carried == IF tokens[n - 1] <= Overlap THEN segments[n - 1] ELSE <<>>
               weight == IF tokens[n - 1] <= Overlap THEN tokens[n - 1] ELSE 0
    <3>1. after[n] = [full |-> Append(so.full, so.current), current |-> carried \o <<i>>,
                      tokens |-> weight + x]
      BY <2>1, <2>2, <2>6 DEF Collect, x
    <3>2. n - 1 \in 1..N
      <4>1. so # Start
        BY <2>6 DEF Start
      <4> QED BY <1>1, <2>1, <4>1
    <3> DEFINE j == segment[n - 1]
    <3>3. /\ j \in 1..L /\ segments[n - 1] = <<j>> /\ tokens[n - 1] = Tokens(blocks, <<j>>)
          /\ tokens[n - 1] \in Nat
      BY <1>1, <3>2
    <3> HIDE DEF j
    <3>4. /\ Measured(blocks, <<>>, 0) /\ <<>> \in Seq(1..L) /\ Len(<<>>) = 0
          /\ <<>> \o <<i>> = <<i>> /\ <<>> \o <<j>> = <<j>>
      <4>1. Length(blocks, <<>>, BlankLine) = 0
        BY LengthSmall
      <4> QED BY <2>2, <3>3, <4>1 DEF Measured
    <3>5. /\ Measured(blocks, <<i>>, 0 + x) /\ Measured(blocks, <<j>>, 0 + tokens[n - 1])
          /\ Tokens(blocks, <<j>>) = Estimate(blocks[j].chars)
          /\ <<j>> \in Seq(1..L)
      <4>1. /\ Measured(blocks, <<>> \o <<i>>, 0 + Tokens(blocks, <<i>>))
            /\ Measured(blocks, <<>> \o <<j>>, 0 + Tokens(blocks, <<j>>))
            /\ Tokens(blocks, <<j>>) = Estimate(blocks[j].chars)
        BY <2>2, <3>3, <3>4, 0 \in Nat, MeasuredMore
      <4> QED BY <2>2, <3>3, <3>4, <4>1
    <3>6. carried \o <<i>> \in Small(blocks) /\ Measured(blocks, carried \o <<i>>, weight + x)
      <4>1. CASE tokens[n - 1] <= Overlap
        <5> DEFINE q == <<j>> \o <<i>>
        <5>1. carried = <<j>> /\ weight = tokens[n - 1]
          BY <3>3, <4>1
        <5>2. Measured(blocks, <<j>>, tokens[n - 1])
          BY <3>3, <3>5
        <5>3. /\ Measured(blocks, q, tokens[n - 1] + x)
              /\ q \in Seq(1..L) /\ Len(q) = Len(<<j>>) + 1
          BY <2>2, <3>3, <3>5, <5>2, MeasuredMore
        <5>4. Len(q) = 2 /\ q[1] = j
          BY <2>2, <3>3, <5>3
        <5> HIDE DEF q
        <5>5. q \in Small(blocks)
          BY <3>3, <3>5, <4>1, <5>3, <5>4 DEF Small
        <5> HIDE DEF carried, weight
        <5> QED BY <5>1, <5>3, <5>5 DEF q
      <4>2. CASE ~(tokens[n - 1] <= Overlap)
        <5>1. carried = <<>> /\ weight = 0
          BY <4>2
        <5>2. <<i>> \in Seq(1..L) /\ Len(<<i>>) = 1
          BY <2>2
        <5>3. <<i>> \in Small(blocks)
          BY <5>2 DEF Small
        <5> HIDE DEF carried, weight
        <5> QED BY <3>4, <3>5, <5>1, <5>3
      <4> QED BY <4>1, <4>2
    <3> HIDE DEF carried, weight
    <3>7. /\ after[n].full = Append(so.full, so.current)
          /\ after[n].current = carried \o <<i>> /\ after[n].tokens = weight + x
      BY <3>1
    <3>8. Append(so.full, so.current) \in Seq(Small(blocks))
      BY <2>1, AppendProperties
    <3> QED BY <2>1, <3>6, <3>7, <3>8
  <2> QED BY <2>5, <2>6
<1>7. \A n \in 0..N : n \in Good
  <2> HIDE DEF Good
  <2>1. \A n \in 1..N : n - 1 \in Good => n \in Good
    BY <1>6
  <2> QED BY <1>1, <1>5, <2>1, UpTo, Zenon
<1>8. after[N].full \in Seq(Small(blocks)) /\ after[N].current \in Small(blocks)
  <2>1. N \in 0..N
    BY <1>1
  <2> QED BY <1>7, <2>1
<1>9. Append(after[N].full, after[N].current) \in Seq(Small(blocks))
  BY <1>8, AppendProperties
<1>10. Pack(segments, tokens, Overlap) \in Seq(Small(blocks))
  BY <1>3, <1>8, <1>9 DEF Packs, N
<1> QED BY <1>2, <1>10 DEF segments

\* A run of one position.
LEMMA RunOne ==
  ASSUME NEW n \in Nat
  PROVE  Run(n, n) = <<n>>
<1>1. /\ Run(n, n) \in Seq(Nat) /\ Len(Run(n, n)) = n - n + 1
      /\ \A i \in 1..(n - n + 1) : Run(n, n)[i] = n + i - 1
  <2>1. n \in Int /\ n <= n + 1
    OBVIOUS
  <2> QED BY <2>1, RunIs
<1> DEFINE r == Run(n, n)
<1>2. r \in Seq(Nat) /\ Len(r) = 1 /\ r[1] = n
  <2>1. 1 \in 1..(n - n + 1) /\ n - n + 1 = 1 /\ n + 1 - 1 = n
    OBVIOUS
  <2> QED BY <1>1, <2>1
<1> HIDE DEF r
<1>3. <<n>> \in Seq(Nat) /\ Len(<<n>>) = 1 /\ <<n>>[1] = n
  OBVIOUS
<1>4. r = <<n>>
  <2>1. Len(r) = Len(<<n>>) /\ \A i \in 1..Len(r) : r[i] = <<n>>[i]
    BY <1>2, <1>3
  <2> QED BY <1>2, <1>3, <2>1, SeqEqual
<1> QED BY <1>4 DEF r

\* Packed one by one, what is carried is one block.
LEMMA EachCovers ==
  ASSUME NEW carry, NEW a \in Nat \ {0}, NEW b \in Nat, a <= b,
         NEW tokens \in [1..(b - a + 1) -> Nat]
  PROVE  Covers(Pack(Each(Run(a, b)), tokens, carry), a, b)
<1> DEFINE r == Run(a, b)  N == b - a + 1  segments == Each(r)
           cut == [n \in 0..N |-> a - 1 + n]
<1>1. /\ r \in Seq(Nat) /\ Len(r) = N /\ N \in Nat /\ N > 0 /\ a - 1 \in Nat
      /\ \A n \in 1..N : r[n] = a + n - 1
  <2>1. b \in Int /\ a <= b + 1 /\ N \in Nat /\ N > 0 /\ a - 1 \in Nat /\ a \in Nat
    OBVIOUS
  <2>2. /\ Run(a, b) \in Seq(Nat) /\ Len(Run(a, b)) = b - a + 1
        /\ \A i \in 1..(b - a + 1) : Run(a, b)[i] = a + i - 1
    BY <2>1, RunIs
  <2> QED BY <2>1, <2>2
<1> HIDE DEF r
<1>2. segments = [n \in 1..N |-> <<r[n]>>]
  BY <1>1 DEF Each
<1>3. segments \in Seq(Seq(Nat)) /\ Len(segments) = N
  <2>1. \A n \in 1..N : <<r[n]>> \in Seq(Nat)
    <3>1. TAKE n \in 1..N
    <3>2. r[n] \in Nat
      BY <1>1
    <3> QED BY <3>2
  <2> QED BY <1>1, <1>2, <2>1
<1>4. \A n \in 0..N : cut[n] = a - 1 + n
  OBVIOUS
<1>5. cut \in [0..N -> Nat]
  BY <1>1
<1> HIDE DEF cut, segments
<1>6. ASSUME NEW n \in 1..N PROVE cut[n - 1] < cut[n] /\ segments[n] = Run(cut[n - 1] + 1, cut[n])
  <2>1. n \in 0..N /\ n - 1 \in 0..N /\ a + n - 1 \in Nat
    BY <1>1
  <2>2. cut[n] = a - 1 + n /\ cut[n - 1] = a - 1 + (n - 1)
    BY <1>4, <2>1
  <2>3. cut[n - 1] < cut[n] /\ cut[n - 1] + 1 = a + n - 1 /\ cut[n] = a + n - 1
    BY <1>1, <2>2
  <2>4. segments[n] = <<a + n - 1>>
    BY <1>1, <1>2
  <2>5. Run(a + n - 1, a + n - 1) = <<a + n - 1>>
    BY <2>1, RunOne
  <2> QED BY <2>3, <2>4, <2>5
<1>7. Cuts(segments, cut)
  <2> HIDE DEF N
  <2>1. \A n \in 1..N : cut[n - 1] < cut[n] /\ segments[n] = Run(cut[n - 1] + 1, cut[n])
    BY <1>6
  <2> QED BY <1>1, <1>3, <1>5, <2>1 DEF Cuts
<1>8. CarriesOne(segments, tokens, cut, carry)
  <2>1. ASSUME NEW n \in 2..N PROVE cut[n - 1] = cut[n - 2] + 1
    <3>1. n - 1 \in 0..N /\ n - 2 \in 0..N
      BY <1>1
    <3>2. cut[n - 1] = a - 1 + (n - 1) /\ cut[n - 2] = a - 1 + (n - 2)
      BY <1>4, <3>1
    <3> QED BY <3>2
  <2> HIDE DEF N
  <2> QED BY <1>3, <2>1 DEF CarriesOne
<1>9. cut[0] + 1 = a /\ cut[N] = b
  <2>1. 0 \in 0..N /\ N \in 0..N
    BY <1>1
  <2>2. cut[0] = a - 1 + 0 /\ cut[N] = a - 1 + N
    BY <1>4, <2>1
  <2> QED BY <2>2
<1>10. Covers(Pack(segments, tokens, carry), cut[0] + 1, cut[N])
  <2>1. tokens \in [1..N -> Nat]
    OBVIOUS
  <2> HIDE DEF N
  <2> QED BY <1>3, <1>7, <1>8, <2>1, PackCovers
<1> HIDE DEF N
<1>11. Covers(Pack(segments, tokens, carry), a, b)
  BY <1>9, <1>10
<1> QED BY <1>11 DEF segments, r

-----------------------------------------------------------------------------
(* Sections *)

\* Without overlap.
Tiles(texts, a, b) ==
    /\ Covers(texts, a, b)
    /\ \A n \in 2..Len(texts) : texts[n][1] = Last(texts[n - 1]) + 1

\* One more block begins a section of its own.
LEMMA TilesMore ==
  ASSUME NEW s, NEW a \in Nat, NEW b \in Nat, Tiles(s, a, b)
  PROVE  Tiles(Append(s, <<b + 1>>), a, b + 1)
<1> DEFINE u == Append(s, <<b + 1>>)
<1>1. Covers(u, a, b + 1)
  <2>1. b + 1 \in {b, b + 1} /\ b + 1 \in Nat /\ b + 1 > b /\ Covers(s, a, b)
    BY DEF Tiles
  <2>2. Covers(Append(s, Run(b + 1, b + 1)), a, b + 1)
    BY <2>1, CoversMore
  <2>3. Run(b + 1, b + 1) = <<b + 1>>
    BY <2>1, RunOne
  <2> QED BY <2>2, <2>3
<1>2. /\ s \in Seq(Seq(Nat)) /\ Len(s) \in Nat /\ Len(s) > 0 /\ Last(s[Len(s)]) = b
      /\ \A n \in 2..Len(s) : s[n][1] = Last(s[n - 1]) + 1
  BY LenProperties DEF Tiles, Covers, Follows
<1>3. /\ Len(u) = Len(s) + 1 /\ u[Len(s) + 1] = <<b + 1>>
      /\ \A n \in 1..Len(s) : u[n] = s[n]
  <2>1. <<b + 1>> \in Seq(Nat)
    OBVIOUS
  <2> QED BY <1>2, <2>1, AppendProperties
<1> HIDE DEF u
<1>4. ASSUME NEW n \in 2..Len(u) PROVE u[n][1] = Last(u[n - 1]) + 1
  <2>1. CASE n = Len(s) + 1
    <3>1. n - 1 = Len(s) /\ Len(s) \in 1..Len(s)
      BY <1>2, <2>1
    <3>2. u[n - 1] = s[Len(s)] /\ u[n] = <<b + 1>>
      BY <1>3, <2>1, <3>1
    <3> QED BY <1>2, <3>2
  <2>2. CASE n # Len(s) + 1
    <3>1. n \in 2..Len(s) /\ n \in 1..Len(s) /\ n - 1 \in 1..Len(s)
      BY <1>2, <1>3, <2>2
    <3>2. u[n - 1] = s[n - 1] /\ u[n] = s[n]
      BY <1>3, <3>1
    <3> QED BY <1>2, <3>1, <3>2
  <2> QED BY <2>1, <2>2
<1>5. Tiles(u, a, b + 1)
  BY <1>1, <1>4 DEF Tiles
<1> QED BY <1>5 DEF u

\* A sequence is its front and its last element.
LEMMA FrontLast ==
  ASSUME NEW S, NEW u \in Seq(S), Len(u) > 0
  PROVE  /\ Front(u) \in Seq(S) /\ Last(u) \in S /\ u = Append(Front(u), Last(u))
         /\ Len(Front(u)) = Len(u) - 1
         /\ \A n \in 1..(Len(u) - 1) : Front(u)[n] = u[n]
<1> DEFINE k == Len(u)  f == Front(u)
<1>1. k \in Nat /\ k > 0 /\ \A n \in 1..k : u[n] \in S
  BY LenProperties, ElementOfSeq
<1>2. f \in Seq(S) /\ Len(f) = k - 1 /\ \A n \in 1..(k - 1) : f[n] = u[n]
  <2>1. 1 \in Int /\ k - 1 \in Int /\ \A i \in 1..(k - 1) : u[i] \in S
    BY <1>1
  <2>2. /\ SubSeq(u, 1, k - 1) \in Seq(S)
        /\ Len(SubSeq(u, 1, k - 1)) = IF 1 <= k - 1 THEN (k - 1) - 1 + 1 ELSE 0
        /\ \A i \in 1..((k - 1) - 1 + 1) : SubSeq(u, 1, k - 1)[i] = u[1 + i - 1]
    BY <2>1, SubSeqProperties
  <2>3. f = SubSeq(u, 1, k - 1)
    BY DEF Front
  <2> HIDE DEF f
  <2>4. Len(f) = k - 1
    <3> DEFINE l == Len(SubSeq(u, 1, k - 1))
    <3>1. l = IF 1 <= k - 1 THEN (k - 1) - 1 + 1 ELSE 0
      BY <2>2
    <3> HIDE DEF l, k
    <3>2. l = k - 1
      BY <1>1, <3>1
    <3> QED BY <2>3, <3>2 DEF l
  <2>5. ASSUME NEW n \in 1..(k - 1) PROVE f[n] = u[n]
    <3>1. n \in 1..((k - 1) - 1 + 1) /\ 1 + n - 1 = n
      BY <1>1
    <3> QED BY <2>2, <2>3, <3>1
  <2> QED BY <2>2, <2>3, <2>4, <2>5
<1>3. Last(u) = u[k] /\ Last(u) \in S
  BY <1>1 DEF Last
<1> HIDE DEF f
<1>4. u = Append(f, Last(u))
  <2>1. /\ Append(f, Last(u)) \in Seq(S) /\ Len(Append(f, Last(u))) = Len(f) + 1
        /\ Append(f, Last(u))[Len(f) + 1] = Last(u)
        /\ \A n \in 1..Len(f) : Append(f, Last(u))[n] = f[n]
    BY <1>2, <1>3, AppendProperties
  <2> DEFINE v == Append(f, Last(u))
  <2>2. Len(v) = k /\ v[k] = u[k] /\ \A n \in 1..(k - 1) : v[n] = u[n]
    BY <1>1, <1>2, <1>3, <2>1
  <2>3. v \in Seq(S)
    BY <2>1
  <2> HIDE DEF v, k
  <2>4. \A n \in 1..k : v[n] = u[n]
    <3>1. TAKE n \in 1..k
    <3>2. n = k \/ n \in 1..(k - 1)
      BY <1>1
    <3> QED BY <2>2, <3>2
  <2>5. v = u
    BY <2>2, <2>3, <2>4, SeqEqual DEF k
  <2> QED BY <2>5 DEF v
<1> QED BY <1>2, <1>3, <1>4 DEF f

\* One more block goes into the last section.
LEMMA TilesFurther ==
  ASSUME NEW u, NEW a \in Nat, NEW b \in Nat, Tiles(u, a, b)
  PROVE  Tiles(Append(Front(u), Append(Last(u), b + 1)), a, b + 1)
<1> DEFINE s == Front(u)  p == Last(u)  q == p \o Run(b + 1, b + 1)  v == Append(s, q)  k == Len(u)
<1>1. /\ Covers(u, a, b) /\ u \in Seq(Seq(Nat)) /\ k \in Nat /\ k > 0
      /\ \A n \in 1..k : IsRun(u[n])
      /\ \A n \in 2..k : u[n][1] = Last(u[n - 1]) + 1
  BY LenProperties DEF Tiles, Covers, Follows
<1>2. /\ s \in Seq(Seq(Nat)) /\ p \in Seq(Nat) /\ u = Append(s, p) /\ Len(s) = k - 1
      /\ \A n \in 1..(k - 1) : s[n] = u[n]
  BY <1>1, FrontLast
<1>3. p = u[k]
  BY DEF Last
<1> HIDE DEF s, p, k
<1>4. Covers(v, a, b + 1)
  <2>1. b + 1 \in Nat /\ b + 1 > b
    OBVIOUS
  <2>2. Covers(Append(s, p), a, b)
    BY <1>1, <1>2
  <2> QED BY <1>2, <2>1, <2>2, CoversFurther
<1>5. q = Append(p, b + 1) /\ q \in Seq(Nat)
  <2>1. b + 1 \in Nat
    OBVIOUS
  <2>2. Run(b + 1, b + 1) = <<b + 1>>
    BY <2>1, RunOne
  <2>3. Append(p, b + 1) = p \o <<b + 1>>
    BY <1>2, <2>1, AppendIsConcat
  <2>4. Append(p, b + 1) \in Seq(Nat)
    BY <1>2, <2>1, AppendProperties
  <2> QED BY <2>2, <2>3, <2>4
<1>6. q[1] = p[1]
  <2>1. p # <<>> /\ Len(p) \in Nat \ {0}
    <3>1. k \in 1..k
      BY <1>1
    <3>2. IsRun(p)
      BY <1>1, <1>3, <3>1
    <3> QED BY <3>2, RunShape
  <2>2. \A n \in 1..Len(p) : Append(p, b + 1)[n] = p[n]
    <3>1. b + 1 \in Nat
      OBVIOUS
    <3> QED BY <1>2, <3>1, AppendProperties
  <2>3. 1 \in 1..Len(p)
    BY <2>1
  <2> QED BY <1>5, <2>2, <2>3
<1> HIDE DEF q
<1>7. /\ Len(v) = k /\ v[k] = q
      /\ \A n \in 1..(k - 1) : v[n] = u[n]
  <2>1. /\ Len(v) = Len(s) + 1 /\ v[Len(s) + 1] = q
        /\ \A n \in 1..Len(s) : v[n] = s[n]
    BY <1>2, <1>5, AppendProperties
  <2> HIDE DEF v
  <2>2. Len(s) + 1 = k /\ k - 1 = Len(s)
    BY <1>1, <1>2
  <2> QED BY <1>2, <2>1, <2>2
<1> HIDE DEF v
<1>8. ASSUME NEW n \in 2..Len(v) PROVE v[n][1] = Last(v[n - 1]) + 1
  <2>1. n \in 2..k /\ n - 1 \in 1..(k - 1)
    BY <1>1, <1>7
  <2>2. v[n - 1] = u[n - 1] /\ u[n][1] = Last(u[n - 1]) + 1
    BY <1>1, <1>7, <2>1
  <2>3. v[n][1] = u[n][1]
    <3>1. n = k \/ n \in 1..(k - 1)
      BY <1>1, <2>1
    <3> QED BY <1>3, <1>6, <1>7, <3>1
  <2> QED BY <2>2, <2>3
<1>9. Tiles(v, a, b + 1)
  BY <1>4, <1>8 DEF Tiles
<1> QED BY <1>5, <1>9 DEF v, s, p

\* The cuts of sections, and that packing sections covers the text.
LEMMA TilesPacked ==
  ASSUME NEW u, NEW a \in Nat \ {0}, NEW b \in Nat, Tiles(u, a, b),
         NEW tokens \in [1..Len(u) -> Nat]
  PROVE  Covers(Pack(u, tokens, NoCarry), a, b)
<1> DEFINE N == Len(u)
           cut == [n \in 0..N |-> IF n = 0 THEN a - 1 ELSE Last(u[n])]
<1>1. /\ u \in Seq(Seq(Nat)) /\ N \in Nat /\ N > 0 /\ u[1][1] = a /\ Last(u[N]) = b
      /\ \A n \in 1..N : IsRun(u[n])
      /\ \A n \in 2..N : /\ u[n][1] = Last(u[n - 1]) + 1
                         /\ Last(u[n]) > Last(u[n - 1])
  BY LenProperties DEF Tiles, Covers, Follows
<1> HIDE DEF N
<1>2. ASSUME NEW n \in 1..N
      PROVE /\ u[n] = Run(u[n][1], Last(u[n])) /\ u[n][1] \in Nat /\ Last(u[n]) \in Nat
            /\ u[n][1] <= Last(u[n])
  <2>1. IsRun(u[n])
    BY <1>1
  <2> QED BY <2>1, RunShape
<1>3. cut \in [0..N -> Nat]
  <2>1. \A n \in 0..N : n = 0 \/ n \in 1..N
    BY <1>1
  <2>2. a - 1 \in Nat
    OBVIOUS
  <2> QED BY <1>2, <2>1, <2>2
<1>4. cut[0] = a - 1 /\ \A n \in 1..N : cut[n] = Last(u[n])
  <2>1. 0 \in 0..N /\ \A n \in 1..N : n \in 0..N /\ n # 0
    BY <1>1
  <2> QED BY <2>1
<1> HIDE DEF cut
<1>5. ASSUME NEW n \in 1..N PROVE cut[n - 1] < cut[n] /\ u[n] = Run(cut[n - 1] + 1, cut[n])
  <2>1. CASE n = 1
    <3>1. cut[n - 1] = a - 1 /\ cut[n] = Last(u[n]) /\ u[n][1] = a
      BY <1>1, <1>4, <2>1
    <3>2. cut[n - 1] + 1 = a
      BY <3>1
    <3>3. /\ u[n] = Run(a, Last(u[n])) /\ Last(u[n]) \in Nat /\ a <= Last(u[n])
      BY <1>2, <3>1
    <3>4. cut[n - 1] < cut[n]
      BY <3>1, <3>3
    <3> QED BY <3>1, <3>2, <3>3, <3>4
  <2>2. CASE n # 1
    <3>1. n \in 2..N /\ n - 1 \in 1..N
      BY <1>1, <2>2
    <3>2. cut[n - 1] = Last(u[n - 1]) /\ cut[n] = Last(u[n])
      BY <1>4, <3>1
    <3>3. u[n][1] = Last(u[n - 1]) + 1 /\ Last(u[n]) > Last(u[n - 1])
      BY <1>1, <3>1
    <3>4. u[n] = Run(u[n][1], Last(u[n])) /\ Last(u[n]) \in Nat /\ Last(u[n - 1]) \in Nat
      BY <1>2, <3>1
    <3> QED BY <3>2, <3>3, <3>4
  <2> QED BY <2>1, <2>2
<1>6. Cuts(u, cut)
  BY <1>1, <1>3, <1>5 DEF Cuts, N
<1>7. CarriesOne(u, tokens, cut, NoCarry)
  <2>1. ASSUME NEW n \in 2..N PROVE ~(tokens[n - 1] <= NoCarry)
    <3>1. n - 1 \in 1..N
      BY <1>1
    <3>2. tokens[n - 1] \in Nat
      BY <3>1 DEF N
    <3> QED BY <3>2 DEF NoCarry
  <2> QED BY <2>1 DEF CarriesOne, N
<1>8. Covers(Pack(u, tokens, NoCarry), cut[0] + 1, cut[N])
  BY <1>6, <1>7, PackCovers DEF N
<1>9. cut[0] + 1 = a /\ cut[N] = b
  <2>1. N \in 1..N
    BY <1>1
  <2>2. cut[0] = a - 1 /\ cut[N] = Last(u[N])
    BY <1>4, <2>1
  <2> QED BY <1>1, <2>2
<1> QED BY <1>8, <1>9

\* Runs within a text are sequences of its positions.
LEMMA RunWithin ==
  ASSUME NEW f \in Nat \ {0}, NEW l \in Nat, NEW L \in Nat, l <= L, f <= l + 1
  PROVE  Run(f, l) \in Seq(1..L)
<1> DEFINE r == Run(f, l)
<1>1. /\ r \in Seq(Nat) /\ Len(r) = l - f + 1
      /\ \A i \in 1..(l - f + 1) : r[i] = f + i - 1
  <2>1. f \in Nat /\ l \in Int
    OBVIOUS
  <2> QED BY <2>1, RunIs
<1> HIDE DEF r
<1>2. \A i \in 1..Len(r) : r[i] \in 1..L
  BY <1>1
<1>3. r \in Seq(1..L)
  BY <1>1, <1>2
<1> QED BY <1>3 DEF r

\* Single blocks leave nothing out.
LEMMA EachPacked ==
  ASSUME NEW blocks \in Seq(Block), NEW carry, NEW a \in Nat \ {0}, NEW b \in Nat, a <= b,
         b <= Len(blocks)
  PROVE  Covers(PackAll(blocks, Each(Run(a, b)), carry), a, b)
<1> DEFINE r == Run(a, b)  tokens == Weights(blocks, Each(r))
<1>1. /\ Len(blocks) \in Nat /\ a \in Nat /\ b \in Int /\ a <= b + 1
  BY LenProperties
<1>2. r \in Seq(1..Len(blocks)) /\ Len(r) = b - a + 1
  BY <1>1, RunWithin, RunIs
<1>3. tokens \in [1..(b - a + 1) -> Nat]
  <2> HIDE DEF r
  <2>1. tokens \in [1..Len(r) -> Nat]
    BY <1>2, EachWeights
  <2> QED BY <1>2, <2>1
<1>4. PackAll(blocks, Each(r), carry) = Pack(Each(r), tokens, carry)
  BY DEF PackAll, Weights
<1> HIDE DEF tokens
<1>5. Covers(Pack(Each(r), tokens, carry), a, b)
  BY <1>3, EachCovers
<1> QED BY <1>4, <1>5

\* The chunks of a cover lie within its bounds.
LEMMA CoversWithin ==
  ASSUME NEW u, NEW a \in Nat \ {0}, NEW b \in Nat, Covers(u, a, b)
  PROVE  \A n \in 1..Len(u) : /\ a <= Last(u[n]) /\ Last(u[n]) <= b
                              /\ a <= u[n][1] /\ u[n][1] <= Last(u[n])
                              /\ u[n][1] \in Nat /\ Last(u[n]) \in Nat
                              /\ u[n] = Run(u[n][1], Last(u[n]))
<1> DEFINE N == Len(u)
<1>1. /\ u \in Seq(Seq(Nat)) /\ N \in Nat /\ N > 0 /\ u[1][1] = a /\ Last(u[N]) = b
      /\ \A n \in 1..N : IsRun(u[n])
      /\ \A n \in 2..N : /\ u[n][1] \in {Last(u[n - 1]), Last(u[n - 1]) + 1}
                         /\ Last(u[n]) > Last(u[n - 1])
  BY LenProperties DEF Covers, Follows
<1> HIDE DEF N
<1>2. ASSUME NEW n \in 1..N
      PROVE /\ u[n] = Run(u[n][1], Last(u[n])) /\ u[n][1] \in Nat /\ Last(u[n]) \in Nat
            /\ u[n][1] <= Last(u[n])
  <2>1. IsRun(u[n])
    BY <1>1
  <2> QED BY <2>1, RunShape
<1>3. \A n \in 1..N : a <= u[n][1]
  <2> DEFINE Good == {n \in 0..N : n > 0 => a <= u[n][1]}
  <2>1. 0 \in Good
    BY <1>1
  <2>2. ASSUME NEW n \in 1..N, n - 1 \in Good PROVE n \in Good
    <3>1. CASE n = 1
      BY <1>1, <3>1
    <3>2. CASE n # 1
      <4>1. n - 1 \in 1..N /\ n \in 2..N /\ n - 1 > 0
        BY <1>1, <3>2
      <4>2. a <= u[n - 1][1] /\ u[n - 1][1] <= Last(u[n - 1]) /\ u[n - 1][1] \in Nat /\ Last(u[n - 1]) \in Nat
        BY <1>2, <2>2, <4>1
      <4>3. u[n][1] \in {Last(u[n - 1]), Last(u[n - 1]) + 1}
        BY <1>1, <4>1
      <4>4. a <= u[n][1]
        BY <4>2, <4>3
      <4>5. n \in 0..N
        BY <1>1
      <4> QED BY <4>4, <4>5
    <3> QED BY <3>1, <3>2
  <2>3. \A n \in 0..N : n \in Good
    <3> HIDE DEF Good
    <3>1. \A n \in 1..N : n - 1 \in Good => n \in Good
      BY <2>2
    <3> QED BY <1>1, <2>1, <3>1, UpTo, Zenon
  <2>4. ASSUME NEW n \in 1..N PROVE a <= u[n][1]
    <3>1. n \in 0..N /\ n > 0
      BY <1>1
    <3> QED BY <2>3, <3>1
  <2> QED BY <2>4
<1>4. \A n \in 1..N : Last(u[n]) <= b
  <2> DEFINE Good == {n \in 0..N : n < N => Last(u[N - n]) <= b}
  <2>1. 0 \in Good
    BY <1>1
  <2>2. ASSUME NEW n \in 1..N, n - 1 \in Good PROVE n \in Good
    <3>1. n \in 0..N
      BY <1>1
    <3>2. CASE n < N
      <4>1. n - 1 < N /\ N - (n - 1) \in 2..N /\ N - (n - 1) \in 1..N /\ N - n \in 1..N /\ N - (n - 1) - 1 = N - n
        BY <1>1, <3>2
      <4>2. Last(u[N - (n - 1)]) <= b
        BY <2>2, <4>1
      <4>3. Last(u[N - (n - 1)]) > Last(u[N - n])
        BY <1>1, <4>1
      <4>4. Last(u[N - (n - 1)]) \in Nat /\ Last(u[N - n]) \in Nat
        BY <1>2, <4>1
      <4> QED BY <3>1, <4>2, <4>3, <4>4
    <3> QED BY <3>1, <3>2
  <2>3. \A n \in 0..N : n \in Good
    <3> HIDE DEF Good
    <3>1. \A n \in 1..N : n - 1 \in Good => n \in Good
      BY <2>2
    <3> QED BY <1>1, <2>1, <3>1, UpTo, Zenon
  <2>4. ASSUME NEW n \in 1..N PROVE Last(u[n]) <= b
    <3>1. N - n \in 0..N /\ N - n < N /\ N - (N - n) = n
      BY <1>1
    <3>2. Last(u[N - (N - n)]) <= b
      BY <2>3, <3>1
    <3> QED BY <3>1, <3>2
  <2> QED BY <2>4
<1>5. ASSUME NEW n \in 1..N PROVE a <= Last(u[n])
  <2>1. a <= u[n][1] /\ u[n][1] <= Last(u[n]) /\ u[n][1] \in Nat /\ Last(u[n]) \in Nat
    BY <1>2, <1>3
  <2> QED BY <2>1
<1> QED BY <1>2, <1>3, <1>4, <1>5 DEF N

\* The chunks of a cover are positions of the text.
LEMMA CoversSeq ==
  ASSUME NEW u, NEW a \in Nat \ {0}, NEW L \in Nat, Covers(u, a, L)
  PROVE  u \in Seq(Seq(1..L))
<1>1. u \in Seq(Seq(Nat)) /\ Len(u) \in Nat
  BY LenProperties DEF Covers, Follows
<1>2. ASSUME NEW n \in 1..Len(u) PROVE u[n] \in Seq(1..L)
  <2> DEFINE f == u[n][1]  l == Last(u[n])
  <2>1. a <= f /\ f <= l /\ f \in Nat /\ l \in Nat /\ l <= L /\ u[n] = Run(f, l)
    BY CoversWithin
  <2> HIDE DEF f, l
  <2>2. f \in Nat \ {0} /\ f <= l + 1
    BY <2>1
  <2>3. Run(f, l) \in Seq(1..L)
    BY <2>1, <2>2, RunWithin
  <2> QED BY <2>1, <2>3
<1> DEFINE S == Seq(1..L)
<1>3. u \in [1..Len(u) -> S]
  <2>1. u = [n \in 1..Len(u) |-> u[n]]
    BY <1>1
  <2>2. \A n \in 1..Len(u) : u[n] \in S
    BY <1>2
  <2> HIDE DEF S
  <2> QED BY <2>1, <2>2
<1> HIDE DEF S
<1>4. u \in Seq(S)
  <2>1. Len(u) \in Nat
    BY <1>1
  <2> HIDE <1>1
  <2> QED BY <2>1, <1>3
<1> QED BY <1>4 DEF S

\* A block begins a section or goes on with the last.
Section(blocks, kind, n, u) ==
    IF n = 1 \/ blocks[n].kind = kind THEN Append(u, <<n>>)
    ELSE Append(Front(u), Append(Last(u), n))

\* One more block keeps the sections without gap and overlap.
LEMMA SectionTiles ==
  ASSUME NEW blocks, NEW kind, NEW n \in Nat \ {0}, NEW u,
         IF n = 1 THEN u = <<>> ELSE Tiles(u, 1, n - 1)
  PROVE  Tiles(Section(blocks, kind, n, u), 1, n)
<1>1. CASE n = 1
  <2>1. Section(blocks, kind, n, u) = <<<<1>>>>
    BY <1>1 DEF Section
  <2>2. Run(1, 1) = <<1>> /\ Covers(<<Run(1, 1)>>, 1, 1)
    BY RunOne, CoversOne
  <2>3. Tiles(<<<<1>>>>, 1, 1)
    BY <2>2 DEF Tiles
  <2> QED BY <1>1, <2>1, <2>3
<1>2. CASE n # 1
  <2> DEFINE b == n - 1
  <2>1. b \in Nat /\ b + 1 = n /\ Tiles(u, 1, b) /\ 1 \in Nat
    BY <1>2
  <2> HIDE DEF b
  <2>2. Tiles(Append(u, <<b + 1>>), 1, b + 1)
    BY <2>1, TilesMore
  <2>3. Tiles(Append(Front(u), Append(Last(u), b + 1)), 1, b + 1)
    BY <2>1, TilesFurther
  <2> QED BY <1>2, <2>1, <2>2, <2>3 DEF Section
<1> QED BY <1>1, <1>2

\* The sections of a text are without gap and overlap.
LEMMA SectionsTile ==
  ASSUME NEW blocks \in Seq(Block), NEW kind, Len(blocks) > 0
  PROVE  Tiles(Sections(blocks, kind), 1, Len(blocks))
<1> DEFINE L == Len(blocks)  S == Seq(Seq(Nat))
           C(n, u) == Section(blocks, kind, n, u)
           step == [n \in 1..L |-> [u \in S |-> IF C(n, u) \in S THEN C(n, u) ELSE <<>>]]
           Is(f) == f = [n \in 0..L |-> IF n = 0 THEN <<>> ELSE C(n, f[n - 1])]
<1>1. L \in Nat /\ L > 0 /\ <<>> \in S
  BY LenProperties
<1>2. ASSUME NEW n \in 1..L, NEW u, IF n = 1 THEN u = <<>> ELSE Tiles(u, 1, n - 1)
      PROVE  Tiles(C(n, u), 1, n) /\ C(n, u) \in S
  <2>2. IF n = 1 THEN u = <<>> ELSE Tiles(u, 1, n - 1)
    BY <1>2
  <2>3. n \in Nat \ {0}
    BY <1>1
  <2>4. Tiles(C(n, u), 1, n)
    BY <2>2, <2>3, SectionTiles
  <2> QED BY <2>4 DEF Tiles, Covers, Follows
<1>3. Sections(blocks, kind) = (CHOOSE f : Is(f))[L]
  BY DEF Sections, Section
<1> HIDE DEF C, L, S
<1>4. step \in [1..L -> [S -> S]]
  BY <1>1
<1>5. PICK f \in [0..L -> S] : Iterates(f, L, <<>>, step)
  <2> HIDE DEF step
  <2> QED BY <1>1, <1>4, Iteration
<1>6. \A n \in 1..L : f[n] = C(n, f[n - 1]) /\ Tiles(f[n], 1, n)
  <2> DEFINE Good == {n \in 0..L : n > 0 => f[n] = C(n, f[n - 1]) /\ Tiles(f[n], 1, n)}
  <2>1. 0 \in Good
    BY <1>1
  <2>2. ASSUME NEW n \in 1..L, n - 1 \in Good PROVE n \in Good
    <3>1. n \in 0..L /\ n - 1 \in 0..L /\ (n # 1 => n - 1 > 0)
      BY <1>1
    <3>2. IF n = 1 THEN f[n - 1] = <<>> ELSE Tiles(f[n - 1], 1, n - 1)
      BY <1>5, <2>2, <3>1 DEF Iterates
    <3>3. Tiles(C(n, f[n - 1]), 1, n) /\ C(n, f[n - 1]) \in S
      BY <1>2, <3>2
    <3>4. f[n] = step[n][f[n - 1]] /\ f[n - 1] \in S
      BY <1>5, <3>1 DEF Iterates
    <3>5. f[n] = C(n, f[n - 1])
      BY <3>3, <3>4
    <3> QED BY <3>1, <3>3, <3>5
  <2>3. \A n \in 0..L : n \in Good
    <3> HIDE DEF Good
    <3>1. \A n \in 1..L : n - 1 \in Good => n \in Good
      BY <2>2
    <3> QED BY <1>1, <2>1, <3>1, UpTo, Zenon
  <2>4. TAKE n \in 1..L
  <2>5. n \in 0..L /\ n > 0
    BY <1>1
  <2> QED BY <2>3, <2>5
<1>7. Is(f)
  <2>1. f = [n \in 0..L |-> f[n]]
    BY <1>5
  <2>2. ASSUME NEW n \in 0..L PROVE f[n] = IF n = 0 THEN <<>> ELSE C(n, f[n - 1])
    <3>1. n = 0 \/ n \in 1..L
      BY <1>1
    <3> QED BY <1>1, <1>5, <1>6, <3>1 DEF Iterates
  <2> QED BY <2>1, <2>2
<1> DEFINE upTo == CHOOSE g : Is(g)
<1>8. Is(upTo)
  BY <1>7
<1> HIDE DEF upTo
<1>9. Tiles(upTo[L], 1, L)
  <2> DEFINE Good == {n \in 0..L : IF n = 0 THEN upTo[n] = <<>> ELSE Tiles(upTo[n], 1, n)}
  <2>1. 0 \in Good
    BY <1>1, <1>8
  <2>2. ASSUME NEW n \in 1..L, n - 1 \in Good PROVE n \in Good
    <3>1. n \in 0..L /\ n # 0 /\ (n = 1 <=> n - 1 = 0)
      BY <1>1
    <3>2. IF n = 1 THEN upTo[n - 1] = <<>> ELSE Tiles(upTo[n - 1], 1, n - 1)
      BY <2>2, <3>1
    <3>3. upTo[n] = C(n, upTo[n - 1])
      BY <1>8, <3>1
    <3>4. Tiles(C(n, upTo[n - 1]), 1, n)
      BY <1>2, <3>2
    <3> QED BY <3>1, <3>3, <3>4
  <2>3. \A n \in 0..L : n \in Good
    <3> HIDE DEF Good
    <3>1. \A n \in 1..L : n - 1 \in Good => n \in Good
      BY <2>2
    <3> QED BY <1>1, <2>1, <3>1, UpTo, Zenon
  <2>4. L \in 0..L /\ L # 0
    BY <1>1
  <2> QED BY <2>3, <2>4
<1> QED BY <1>3, <1>9 DEF upTo, L

-----------------------------------------------------------------------------
(* Sections, split and put together again *)

\* FlattenSeq joins the sequences from left to right.
LEMMA Flattening ==
  ASSUME NEW S, NEW seqs \in Seq(Seq(S)), Len(seqs) > 0
  PROVE  \E g \in [1..Len(seqs) -> Seq(S)] :
           /\ g[1] = seqs[1] /\ FlattenSeq(seqs) = g[Len(seqs)]
           /\ \A n \in 2..Len(seqs) : g[n] = g[n - 1] \o seqs[n]
<1> DEFINE N == Len(seqs)  T == Seq(S)
           step == [n \in 1..N |-> [x \in T |-> IF n = 1 THEN seqs[n] ELSE x \o seqs[n]]]
           Is(f) == f = [i \in 1..N |-> IF i = 1 THEN seqs[i] ELSE f[i - 1] \o seqs[i]]
<1>1. /\ N \in Nat /\ N > 0 /\ <<>> \in T /\ \A n \in 1..N : seqs[n] \in T
      /\ \A x, y \in T : x \o y \in T
  BY LenProperties, ElementOfSeq, ConcatProperties
<1>2. FlattenSeq(seqs) = (CHOOSE f : Is(f))[N]
  BY <1>1 DEF FlattenSeq
<1> HIDE DEF N, T
<1>3. step \in [1..N -> [T -> T]]
  BY <1>1
<1>4. PICK f \in [0..N -> T] : Iterates(f, N, <<>>, step)
  <2> HIDE DEF step
  <2> QED BY <1>1, <1>3, Iteration
<1>5. ASSUME NEW n \in 1..N PROVE f[n] = IF n = 1 THEN seqs[n] ELSE f[n - 1] \o seqs[n]
  <2>1. n - 1 \in 0..N
    BY <1>1
  <2>3. f[n] = step[n][f[n - 1]] /\ f[n - 1] \in T
    BY <1>4, <2>1 DEF Iterates
  <2> QED BY <2>3
<1> DEFINE g == [n \in 1..N |-> f[n]]
<1>6. Is(g)
  <2>1. ASSUME NEW n \in 1..N PROVE g[n] = IF n = 1 THEN seqs[n] ELSE g[n - 1] \o seqs[n]
    <3>1. g[n] = f[n] /\ (n # 1 => g[n - 1] = f[n - 1])
      BY <1>1
    <3> HIDE DEF g
    <3> QED BY <1>5, <3>1
  <2>2. g = [n \in 1..N |-> g[n]]
    OBVIOUS
  <2> HIDE DEF g
  <2> QED BY <2>1, <2>2
<1> HIDE DEF g
<1> DEFINE h == CHOOSE x : Is(x)
<1>7. Is(h)
  BY <1>6
<1> HIDE DEF h
<1>8. h[1] = seqs[1]
  <2>1. 1 \in 1..N
    BY <1>1
  <2> QED BY <1>7, <2>1
<1>9. ASSUME NEW n \in 2..N PROVE h[n] = h[n - 1] \o seqs[n]
  <2>1. n \in 1..N /\ n # 1
    BY <1>1
  <2> QED BY <1>7, <2>1
<1>10. \A n \in 1..N : h[n] \in T
  <2> DEFINE Good == {n \in 0..N : n > 0 => h[n] \in T}
  <2>1. 0 \in Good
    BY <1>1
  <2>2. ASSUME NEW n \in 1..N, n - 1 \in Good PROVE n \in Good
    <3>1. n \in 0..N
      BY <1>1
    <3>2. CASE n = 1
      BY <1>1, <1>8, <3>1, <3>2
    <3>3. CASE n # 1
      <4>1. n \in 2..N /\ n - 1 > 0
        BY <1>1, <3>3
      <4>2. h[n - 1] \in T /\ seqs[n] \in T
        BY <1>1, <2>2, <4>1
      <4>3. h[n] = h[n - 1] \o seqs[n]
        BY <1>9, <4>1
      <4>4. h[n] \in T
        BY <1>1, <4>2, <4>3
      <4> QED BY <3>1, <4>4
    <3> QED BY <3>2, <3>3
  <2>3. \A n \in 0..N : n \in Good
    <3> HIDE DEF Good
    <3>1. \A n \in 1..N : n - 1 \in Good => n \in Good
      BY <2>2
    <3> QED BY <1>1, <2>1, <3>1, UpTo, Zenon
  <2>4. TAKE n \in 1..N
  <2>5. n \in 0..N /\ n > 0
    BY <1>1
  <2> QED BY <2>3, <2>5
<1>11. h \in [1..N -> T]
  <2>1. h = [n \in 1..N |-> h[n]]
    BY <1>7
  <2> QED BY <1>10, <2>1
<1>12. FlattenSeq(seqs) = h[N]
  BY <1>2 DEF h
<1> QED BY <1>8, <1>9, <1>11, <1>12 DEF N, T

\* What covers each of the sections covers the text when put together.
LEMMA FlattenCovers ==
  ASSUME NEW u, NEW L \in Nat \ {0}, Tiles(u, 1, L), NEW seqs \in Seq(Seq(Seq(Nat))),
         Len(seqs) = Len(u),
         \A n \in 1..Len(u) : Covers(seqs[n], u[n][1], Last(u[n]))
  PROVE  Covers(FlattenSeq(seqs), 1, L)
<1> DEFINE N == Len(u)
<1>1. /\ N \in Nat /\ N > 0 /\ u[1][1] = 1 /\ Last(u[N]) = L
      /\ \A n \in 2..N : /\ u[n][1] = Last(u[n - 1]) + 1
                         /\ Last(u[n]) > Last(u[n - 1])
  BY LenProperties DEF Tiles, Covers, Follows
<1>2. \A n \in 1..N : u[n][1] \in Nat /\ Last(u[n]) \in Nat
  <2>1. Covers(u, 1, L) /\ 1 \in Nat \ {0} /\ L \in Nat
    BY DEF Tiles
  <2> QED BY <2>1, CoversWithin
<1>3. PICK g \in [1..N -> Seq(Seq(Nat))] :
           /\ g[1] = seqs[1] /\ FlattenSeq(seqs) = g[N]
           /\ \A n \in 2..N : g[n] = g[n - 1] \o seqs[n]
  <2> DEFINE S == Seq(Nat)
  <2>1. Len(seqs) = N /\ Len(seqs) > 0 /\ seqs \in Seq(Seq(S))
    BY <1>1
  <2> HIDE DEF N, S
  <2>2. \E g \in [1..Len(seqs) -> Seq(S)] :
           /\ g[1] = seqs[1] /\ FlattenSeq(seqs) = g[Len(seqs)]
           /\ \A n \in 2..Len(seqs) : g[n] = g[n - 1] \o seqs[n]
    BY <2>1, Flattening
  <2> QED BY <2>1, <2>2 DEF S
<1> HIDE DEF N
<1> DEFINE Good == {n \in 0..N : n > 0 => Covers(g[n], 1, Last(u[n]))}
<1>4. 0 \in Good
  BY <1>1
<1>5. ASSUME NEW n \in 1..N, n - 1 \in Good PROVE n \in Good
  <2>1. n \in 0..N
    BY <1>1
  <2>2. CASE n = 1
    BY <1>1, <1>3, <2>1, <2>2 DEF N
  <2>3. CASE n # 1
    <3> DEFINE b == Last(u[n - 1])  c == Last(u[n])  t == seqs[n]
    <3>1. n \in 2..N /\ n - 1 > 0 /\ n - 1 \in 1..N
      BY <1>1, <2>3
    <3>2. Covers(g[n - 1], 1, b) /\ g[n] = g[n - 1] \o t /\ b \in Nat /\ c \in Nat
      BY <1>2, <1>3, <1>5, <3>1
    <3>3. Covers(t, b + 1, c)
      BY <1>1, <3>1 DEF N
    <3> HIDE DEF t, b, c
    <3>4. Follows(t) /\ Len(t) > 0 /\ t[1][1] = b + 1 /\ Last(t[Len(t)]) = c /\ Len(t) \in Nat
      BY <3>3, LenProperties DEF Covers, Follows
    <3>5. Last(t[1]) > b
      <4>1. 1 \in 1..Len(t) /\ b + 1 \in Nat \ {0}
        BY <3>2, <3>4
      <4>2. b + 1 <= Last(t[1]) /\ Last(t[1]) \in Nat
        BY <3>2, <3>3, <4>1, CoversWithin
      <4> QED BY <3>2, <4>2
    <3>6. Covers(g[n - 1] \o t, 1, c)
      <4>1. t[1][1] \in {b, b + 1} /\ 1 \in Nat
        BY <3>4
      <4> QED BY <3>2, <3>4, <3>5, <4>1, CoversConcat
    <3> QED BY <2>1, <3>2, <3>6 DEF c
  <2> QED BY <2>2, <2>3
<1>6. \A n \in 0..N : n \in Good
  <2> HIDE DEF Good
  <2>1. \A n \in 1..N : n - 1 \in Good => n \in Good
    BY <1>5
  <2> QED BY <1>1, <1>4, <2>1, UpTo, Zenon
<1>7. Covers(g[N], 1, Last(u[N]))
  <2>1. N \in 0..N /\ N > 0
    BY <1>1
  <2> QED BY <1>6, <2>1
<1> QED BY <1>1, <1>3, <1>7

-----------------------------------------------------------------------------
(* The strategies *)

\* All positions of a text.
LEMMA AllIs ==
  ASSUME NEW blocks \in Seq(Block)
  PROVE  /\ Len(blocks) \in Nat /\ All(blocks) = Run(1, Len(blocks))
         /\ All(blocks) \in Seq(1..Len(blocks))
<1>1. Len(blocks) \in Nat /\ 1 \in Nat \ {0} /\ 1 <= Len(blocks) + 1
  BY LenProperties
<1>2. Run(1, Len(blocks)) \in Seq(1..Len(blocks))
  BY <1>1, RunWithin
<1> QED BY <1>1, <1>2 DEF All

\* Paragraphs leave nothing out.
LEMMA ParagraphsCover ==
  ASSUME NEW blocks \in Seq(Block), Len(blocks) > 0
  PROVE  Covers(Paragraphs(blocks), 1, Len(blocks))
<1> DEFINE L == Len(blocks)
<1>1. L \in Nat /\ All(blocks) = Run(1, L) /\ 1 \in Nat \ {0} /\ 1 <= L
  BY AllIs
<1> HIDE DEF L
<1>2. Covers(PackAll(blocks, Each(Run(1, L)), Overlap), 1, L)
  BY <1>1, EachPacked DEF L
<1> QED BY <1>1, <1>2 DEF Paragraphs, L

\* No chunk of paragraphs is too large.
LEMMA ParagraphsFit ==
  ASSUME NEW blocks \in Seq(Block)
  PROVE  Paragraphs(blocks) \in Seq(Small(blocks))
BY AllIs, PackFits DEF Paragraphs

\* A list, from its first item on, is one of the segments packed.
ListIs(blocks, first, u, tokens) ==
    /\ u \in Seq(Seq(1..Len(blocks))) /\ tokens \in [1..Len(u) -> Nat]
    /\ List(blocks) = Pack(u, tokens, NoCarry)
    /\ Tiles(u, 1, Len(blocks))
    /\ \E n \in 1..Len(u) : u[n] = Run(first, Len(blocks))
    /\ \A i \in 1..(first - 1) : blocks[i].kind # "numbered"

\* The list blocks, where there is a list.
LEMMA ListParts ==
  ASSUME NEW blocks \in Seq(Block), Has(blocks, "numbered")
  PROVE  \E first \in 1..Len(blocks) : \E u, tokens : ListIs(blocks, first, u, tokens)
<1> DEFINE L == Len(blocks)
           IsFirst(i) == /\ blocks[i].kind = "numbered"
                         /\ \A j \in 1..(i - 1) : blocks[j].kind # "numbered"
           first == CHOOSE i \in 1..L : IsFirst(i)
           before == Run(1, first - 1)
           list == Run(first, L)
           merged == Estimate(Length(blocks, list, 1))
           u == IF before = <<>> THEN <<list>> ELSE <<before, list>>
           tokens == IF before = <<>> THEN <<merged>> ELSE <<Tokens(blocks, before), merged>>
<1>1. L \in Nat
  BY LenProperties
<1>2. \E i \in 1..L : IsFirst(i)
  <2> DEFINE T == {i \in 1..L : blocks[i].kind = "numbered"}
  <2>1. T \subseteq Nat /\ T # {}
    BY DEF Has
  <2>2. PICK i \in T : \A k \in T : i <= k
    <3> HIDE DEF T
    <3> QED BY <2>1, LeastOf, Zenon
  <2>3. \A j \in 1..(i - 1) : j \notin T /\ j \in 1..L
    BY <1>1, <2>2
  <2> QED BY <2>2, <2>3
<1>3. first \in 1..L /\ IsFirst(first)
  <2> HIDE DEF IsFirst, L
  <2> QED BY <1>2
<1>4. List(blocks) = Pack(u, tokens, NoCarry)
  BY DEF List
<1> HIDE DEF first, L
<1>5. /\ list \in Seq(1..L) /\ list \in Seq(Nat) /\ IsRun(list) /\ list[1] = first /\ Last(list) = L
      /\ first \in Nat /\ first > 0 /\ first <= L /\ Covers(<<list>>, first, L)
  <2>1. /\ first \in Nat \ {0} /\ first \in Nat /\ first > 0 /\ first <= L /\ first <= L + 1 /\ L <= L
    BY <1>1, <1>3
  <2>2. Run(first, L) \in Seq(1..L)
    BY <1>1, <2>1, RunWithin
  <2>3. /\ Run(first, L) \in Seq(Nat) /\ IsRun(Run(first, L))
        /\ Run(first, L)[1] = first /\ Last(Run(first, L)) = L /\ Covers(<<Run(first, L)>>, first, L)
    BY <1>1, <2>1, RunBounds, CoversOne
  <2> QED BY <2>1, <2>2, <2>3
<1>8. merged \in Nat
  <2>1. Length(blocks, list, 1) \in Nat
    <3> HIDE DEF list
    <3> QED BY <1>5, LengthNat DEF L
  <2> HIDE DEF list
  <2> QED BY <2>1, EstimateIs
<1>6. CASE first = 1
  <2>1. before = <<>>
    <3>1. before = [i \in 1..(0 - 1 + 1) |-> 1 + i - 1]
      BY <1>6 DEF Run
    <3>2. 1..(0 - 1 + 1) = {}
      OBVIOUS
    <3>3. before = [i \in {} |-> 1 + i - 1] /\ <<>> = [i \in {} |-> 1 + i - 1]
      BY <3>1, <3>2
    <3> QED BY <3>3
  <2>2. u = <<list>> /\ tokens = <<merged>>
    BY <2>1
  <2> HIDE DEF u, list, merged, tokens
  <2>3. u \in Seq(Seq(1..L)) /\ Len(u) = 1 /\ u[1] = list
    BY <1>5, <2>2
  <2>4. Tiles(u, 1, L)
    BY <1>5, <1>6, <2>2, <2>3 DEF Tiles
  <2>5. 1 \in 1..Len(u) /\ tokens \in [1..Len(u) -> Nat]
    BY <1>8, <2>2, <2>3
  <2>6. ListIs(blocks, first, u, tokens)
    BY <1>3, <1>4, <2>3, <2>4, <2>5 DEF ListIs, L, list
  <2> QED BY <1>3, <2>6 DEF L
<1>7. CASE first # 1
  <2> DEFINE b == first - 1
  <2>1. b \in Nat /\ b > 0 /\ 1 <= b /\ b < L /\ b + 1 = first /\ b <= L /\ 1 <= b + 1 /\ 1 \in Nat \ {0}
    BY <1>1, <1>5, <1>7
  <2> HIDE DEF b
  <2>2. /\ before \in Seq(1..L) /\ before \in Seq(Nat) /\ IsRun(before) /\ before # <<>>
        /\ Covers(<<before>>, 1, b) /\ before[1] = 1 /\ Last(before) = b
    <3>1. Run(1, b) \in Seq(1..L)
      BY <1>1, <2>1, RunWithin
    <3>2. /\ Run(1, b) \in Seq(Nat) /\ IsRun(Run(1, b)) /\ Run(1, b) # <<>>
          /\ Run(1, b)[1] = 1 /\ Last(Run(1, b)) = b /\ Covers(<<Run(1, b)>>, 1, b)
      BY <1>1, <2>1, RunBounds, CoversOne
    <3> QED BY <3>1, <3>2 DEF b
  <2> HIDE DEF before, list
  <2>3. u = <<before, list>> /\ tokens = <<Tokens(blocks, before), merged>>
    BY <2>2
  <2>8. Tokens(blocks, before) \in Nat
    BY <2>2, TokensNat DEF L
  <2> HIDE DEF u, tokens, merged
  <2>4. u \in Seq(Seq(1..L)) /\ u \in Seq(Seq(Nat)) /\ Len(u) = 2 /\ u[1] = before /\ u[2] = list
    BY <1>5, <2>2, <2>3
  <2>5. Covers(u, 1, L)
    <3>1. Follows(u)
      BY <1>5, <2>1, <2>2, <2>4 DEF Follows
    <3> QED BY <1>5, <2>2, <2>4, <3>1 DEF Covers
  <2>6. Tiles(u, 1, L)
    BY <1>5, <2>1, <2>2, <2>4, <2>5 DEF Tiles
  <2>7. 2 \in 1..Len(u) /\ tokens \in [1..Len(u) -> Nat]
    BY <1>8, <2>3, <2>4, <2>8
  <2>9. ListIs(blocks, first, u, tokens)
    BY <1>3, <1>4, <2>4, <2>6, <2>7 DEF ListIs, L, list
  <2> QED BY <1>3, <2>9 DEF L
<1> QED BY <1>6, <1>7

\* Lists and what precedes them leave nothing out.
LEMMA ListCovers ==
  ASSUME NEW blocks \in Seq(Block), Len(blocks) > 0
  PROVE  Covers(List(blocks), 1, Len(blocks))
<1>1. CASE Has(blocks, "numbered")
  <2>1. PICK u, tokens : /\ tokens \in [1..Len(u) -> Nat] /\ Tiles(u, 1, Len(blocks))
                         /\ List(blocks) = Pack(u, tokens, NoCarry)
    BY <1>1, ListParts DEF ListIs
  <2>2. Len(blocks) \in Nat /\ 1 \in Nat \ {0}
    BY LenProperties
  <2>3. Covers(Pack(u, tokens, NoCarry), 1, Len(blocks))
    BY <2>1, <2>2, TilesPacked
  <2> QED BY <2>1, <2>3
<1>2. CASE ~Has(blocks, "numbered")
  BY <1>2, ParagraphsCover DEF List
<1> QED BY <1>1, <1>2

\* Two adjacent items are in one chunk.
LEMMA ListWhole ==
  ASSUME NEW blocks \in Seq(Block), NEW i \in 1..(Len(blocks) - 1),
         blocks[i].kind = "numbered", blocks[i + 1].kind = "numbered"
  PROVE  \E k \in 1..Len(List(blocks)) : {i, i + 1} \subseteq ToSet(List(blocks)[k])
<1> DEFINE L == Len(blocks)
<1>1. L \in Nat /\ i \in 1..L /\ i + 1 \in 1..L
  BY LenProperties
<1>2. Has(blocks, "numbered")
  BY <1>1 DEF Has
<1>10. PICK first \in 1..L : \E u, tokens : ListIs(blocks, first, u, tokens)
  BY <1>2, ListParts
<1>11. PICK u, tokens : ListIs(blocks, first, u, tokens)
  BY <1>10
<1>3. /\ u \in Seq(Seq(1..L)) /\ tokens \in [1..Len(u) -> Nat]
      /\ List(blocks) = Pack(u, tokens, NoCarry)
      /\ Tiles(u, 1, L)
      /\ \E n \in 1..Len(u) : u[n] = Run(first, L)
      /\ \A j \in 1..(first - 1) : blocks[j].kind # "numbered"
  BY <1>11 DEF ListIs
<1>4. PICK n \in 1..Len(u) : u[n] = Run(first, L)
  BY <1>3
<1>5. u \in Seq(Seq(Nat)) /\ \A m \in 1..Len(u) : u[m] # <<>>
  <2>1. u \in Seq(Seq(Nat)) /\ \A m \in 1..Len(u) : IsRun(u[m])
    BY <1>3 DEF Tiles, Covers, Follows
  <2> QED BY <2>1, RunShape
<1>6. Inside(u[n], List(blocks))
  BY <1>3, <1>5, PackWhole
<1>7. first <= i
  <2>1. i \notin 1..(first - 1)
    BY <1>3
  <2> QED BY <1>1, <2>1
<1>8. {i, i + 1} \subseteq ToSet(Run(first, L))
  <2> DEFINE r == Run(first, L)
  <2>1. r \in Seq(Nat) /\ Len(r) = L - first + 1 /\ \A j \in 1..(L - first + 1) : r[j] = first + j - 1
    <3>1. first \in Nat /\ L \in Int /\ first <= L + 1
      BY <1>1
    <3> QED BY <3>1, RunIs
  <2> HIDE DEF r
  <2>2. DOMAIN r = 1..(L - first + 1)
    BY <1>1, <2>1, LenProperties
  <2>3. ASSUME NEW j \in {i, i + 1} PROVE j \in ToSet(r)
    <3> DEFINE k == j - first + 1
    <3>1. k \in 1..(L - first + 1) /\ first + k - 1 = j
      BY <1>1, <1>7
    <3> HIDE DEF k
    <3>2. r[k] = j /\ k \in DOMAIN r
      BY <2>1, <2>2, <3>1
    <3> QED BY <3>2 DEF ToSet
  <2> QED BY <2>3 DEF r
<1>9. PICK k \in 1..Len(List(blocks)) : ToSet(u[n]) \subseteq ToSet(List(blocks)[k])
  BY <1>6 DEF Inside
<1> QED BY <1>4, <1>8, <1>9

\* Clauses leave nothing out.
LEMMA ClausesCover ==
  ASSUME NEW blocks \in Seq(Block), Len(blocks) > 0
  PROVE  Covers(Clauses(blocks), 1, Len(blocks))
<1>1. CASE Has(blocks, "numbered")
  <2> DEFINE u == Sections(blocks, "numbered")
  <2>1. Len(blocks) \in Nat /\ 1 \in Nat \ {0}
    BY LenProperties
  <2>2. Tiles(u, 1, Len(blocks))
    BY SectionsTile
  <2> HIDE DEF u
  <2>3. u \in Seq(Seq(1..Len(blocks)))
    BY <2>1, <2>2, CoversSeq DEF Tiles
  <2>5. Weights(blocks, u) \in [1..Len(u) -> Nat]
    <3>1. Len(u) \in Nat /\ \A n \in 1..Len(u) : u[n] \in Seq(1..Len(blocks))
      BY <2>3, LenProperties, ElementOfSeq
    <3> QED BY <3>1, WeightsAre
  <2>4. Covers(PackAll(blocks, u, NoCarry), 1, Len(blocks))
    BY <2>1, <2>2, <2>5, TilesPacked DEF PackAll, Weights
  <2> QED BY <1>1, <2>4 DEF Clauses, u
<1>2. CASE ~Has(blocks, "numbered")
  BY <1>2, ParagraphsCover DEF Clauses
<1> QED BY <1>1, <1>2

\* What a section becomes.
SectionSplit(blocks, section) ==
    IF Tokens(blocks, section) > MaxTokens THEN PackAll(blocks, Each(section), Overlap)
    ELSE <<section>>

\* A section by itself or split like paragraphs: whole, and not too large.
LEMMA SectionsSplit ==
  ASSUME NEW blocks \in Seq(Block), NEW f \in Nat \ {0}, NEW l \in Nat, f <= l, l <= Len(blocks)
  PROVE  /\ Covers(SectionSplit(blocks, Run(f, l)), f, l)
         /\ SectionSplit(blocks, Run(f, l)) \in Seq(Small(blocks))
<1> DEFINE s == Run(f, l)
<1>1. Len(blocks) \in Nat /\ f <= l + 1 /\ f \in Nat
  BY LenProperties
<1>2. s \in Seq(1..Len(blocks))
  BY <1>1, RunWithin
<1>3. Covers(PackAll(blocks, Each(s), Overlap), f, l) /\ Covers(<<s>>, f, l)
  BY <1>1, EachPacked, CoversOne
<1> HIDE DEF s
<1>4. PackAll(blocks, Each(s), Overlap) \in Seq(Small(blocks))
  BY <1>2, PackFits
<1>5. CASE Tokens(blocks, s) > MaxTokens
  BY <1>3, <1>4, <1>5 DEF SectionSplit, s
<1>6. CASE ~(Tokens(blocks, s) > MaxTokens)
  <2>1. Tokens(blocks, s) <= MaxTokens
    <3>1. Tokens(blocks, s) \in Nat /\ MaxTokens \in Nat
      BY <1>2, TokensNat, ChunkerAssumption
    <3> QED BY <1>6, <3>1
  <2>2. s \in Small(blocks)
    BY <1>2, <2>1, FewTokens
  <2> QED BY <1>3, <1>6, <2>2 DEF SectionSplit, s
<1> QED BY <1>5, <1>6

\* The sections one after the other, each split: whole, and not too large.
LEMMA HeadingsSplit ==
  ASSUME NEW blocks \in Seq(Block), Len(blocks) > 0, Has(blocks, "heading")
  PROVE  /\ Covers(Headings(blocks), 1, Len(blocks))
         /\ Headings(blocks) \in Seq(Small(blocks))
<1> DEFINE L == Len(blocks)  u == Sections(blocks, "heading")
           seqs == [s \in 1..Len(u) |-> SectionSplit(blocks, u[s])]
<1>1. L \in Nat \ {0} /\ Tiles(u, 1, L) /\ Covers(u, 1, L) /\ L \in Nat /\ 1 \in Nat \ {0}
  BY LenProperties, SectionsTile DEF Tiles
<1>2. Headings(blocks) = FlattenSeq(seqs)
  BY DEF Headings, SectionSplit
<1> HIDE DEF u, L
<1>3. Len(u) \in Nat /\ Len(u) > 0
  BY <1>1, LenProperties DEF Covers, Follows
<1>4. ASSUME NEW n \in 1..Len(u)
      PROVE  /\ Covers(SectionSplit(blocks, u[n]), u[n][1], Last(u[n]))
             /\ SectionSplit(blocks, u[n]) \in Seq(Small(blocks))
  <2> DEFINE f == u[n][1]  l == Last(u[n])
  <2>1. 1 <= f /\ f <= l /\ l <= L /\ f \in Nat /\ l \in Nat /\ u[n] = Run(f, l)
    BY <1>1, CoversWithin
  <2> HIDE DEF f, l
  <2>2. f \in Nat \ {0}
    BY <2>1
  <2>3. /\ Covers(SectionSplit(blocks, Run(f, l)), f, l)
        /\ SectionSplit(blocks, Run(f, l)) \in Seq(Small(blocks))
    BY <2>1, <2>2, SectionsSplit DEF L
  <2> QED BY <2>1, <2>3 DEF f, l
<1>5. Len(seqs) = Len(u) /\ \A n \in 1..Len(u) : seqs[n] = SectionSplit(blocks, u[n])
  BY <1>3
<1>6. seqs \in Seq(Seq(Seq(Nat)))
  <2> DEFINE S == Seq(Seq(Nat))
  <2>1. \A n \in 1..Len(u) : SectionSplit(blocks, u[n]) \in S
    BY <1>4 DEF Covers, Follows
  <2> HIDE DEF S
  <2>2. seqs \in Seq(S)
    BY <1>3, <2>1
  <2> QED BY <2>2 DEF S
<1>7. seqs \in Seq(Seq(Small(blocks)))
  <2> DEFINE S == Seq(Small(blocks))
  <2>1. \A n \in 1..Len(u) : SectionSplit(blocks, u[n]) \in S
    BY <1>4
  <2> HIDE DEF S
  <2>2. seqs \in Seq(S)
    BY <1>3, <2>1
  <2> QED BY <2>2 DEF S
<1> HIDE DEF seqs
<1>8. Covers(FlattenSeq(seqs), 1, L)
  BY <1>1, <1>4, <1>5, <1>6, FlattenCovers
<1>9. FlattenSeq(seqs) \in Seq(Small(blocks))
  <2> DEFINE S == Small(blocks)
  <2>1. seqs \in Seq(Seq(S)) /\ Len(seqs) > 0 /\ Len(seqs) \in 1..Len(seqs)
    BY <1>3, <1>5, <1>7
  <2> HIDE DEF S
  <2>2. PICK g \in [1..Len(seqs) -> Seq(S)] : FlattenSeq(seqs) = g[Len(seqs)]
    BY <2>1, Flattening
  <2> QED BY <2>1, <2>2 DEF S
<1> QED BY <1>2, <1>8, <1>9 DEF L

\* The same without headings.
LEMMA HeadingsCover ==
  ASSUME NEW blocks \in Seq(Block), Len(blocks) > 0
  PROVE  Covers(Headings(blocks), 1, Len(blocks)) /\ Headings(blocks) \in Seq(Small(blocks))
<1>1. CASE Has(blocks, "heading")
  BY <1>1, HeadingsSplit
<1>2. CASE ~Has(blocks, "heading")
  BY <1>2, ParagraphsCover, ParagraphsFit DEF Headings
<1> QED BY <1>1, <1>2

-----------------------------------------------------------------------------
(* chunk_document *)

\* The parts of a text.
LEMMA TextIs ==
  ASSUME NEW t, IsText(t)
  PROVE  t.blocks \in Seq(Block) /\ Len(t.blocks) \in Nat /\ t.tables \in Nat
         /\ t.strategy \in Strategies
<1>1. t.blocks \in Seq(Block)
  BY DEF IsText, Block
<1> QED BY <1>1, LenProperties DEF IsText

\* A short text is one chunk.
LEMMA AllChunk ==
  ASSUME NEW blocks \in Seq(Block), Tokens(blocks, All(blocks)) <= Short
  PROVE  /\ <<All(blocks)>> \in Seq(Small(blocks))
         /\ Len(blocks) > 0 => Covers(<<All(blocks)>>, 1, Len(blocks))
         /\ \A i \in 1..(Len(blocks) - 1) : {i, i + 1} \subseteq ToSet(All(blocks))
<1> DEFINE L == Len(blocks)  r == All(blocks)
<1>1. L \in Nat /\ r = Run(1, L) /\ r \in Seq(1..L)
  BY AllIs
<1> HIDE DEF r, L
<1>2. r \in Small(blocks)
  <2>1. Tokens(blocks, r) \in Nat /\ Short \in Nat /\ MaxTokens \in Nat /\ Short <= MaxTokens
    BY <1>1, TokensNat, ChunkerAssumption DEF L
  <2>2. Tokens(blocks, r) <= MaxTokens
    BY <2>1 DEF r
  <2> QED BY <1>1, <2>2, FewTokens DEF L
<1>3. L > 0 => Covers(<<r>>, 1, L)
  <2>1. L > 0 => 1 <= L /\ 1 \in Nat
    BY <1>1
  <2> QED BY <1>1, <2>1, CoversOne
<1>4. Len(r) = L /\ \A i \in 1..L : r[i] = i
  <2>1. 1 \in Nat /\ L \in Int /\ 1 <= L + 1 /\ L - 1 + 1 = L
    BY <1>1
  <2>2. Len(Run(1, L)) = L - 1 + 1 /\ \A i \in 1..(L - 1 + 1) : Run(1, L)[i] = 1 + i - 1
    BY <2>1, RunIs
  <2> QED BY <1>1, <2>1, <2>2
<1>5. ASSUME NEW i \in 1..L PROVE i \in ToSet(r)
  <2>1. i \in DOMAIN r /\ r[i] = i
    BY <1>1, <1>4, LenProperties
  <2> QED BY <2>1 DEF ToSet
<1>6. \A i \in 1..(L - 1) : {i, i + 1} \subseteq ToSet(r)
  <2>1. TAKE i \in 1..(L - 1)
  <2>2. i \in 1..L /\ i + 1 \in 1..L
    BY <1>1
  <2> QED BY <1>5, <2>2
<1> QED BY <1>2, <1>3, <1>6 DEF r, L

\* Whatever the strategy, nothing is left out.
LEMMA SplitCovers ==
  ASSUME NEW t, IsText(t), Len(t.blocks) > 0
  PROVE  Covers(Split(t), 1, Len(t.blocks))
<1>1. /\ t.blocks \in Seq(Block)
      /\ Covers(List(t.blocks), 1, Len(t.blocks))
      /\ Covers(Clauses(t.blocks), 1, Len(t.blocks))
      /\ Covers(Headings(t.blocks), 1, Len(t.blocks))
      /\ Covers(Paragraphs(t.blocks), 1, Len(t.blocks))
  BY TextIs, ListCovers, ClausesCover, HeadingsCover, ParagraphsCover
<1>2. Tokens(t.blocks, All(t.blocks)) <= Short => Covers(<<All(t.blocks)>>, 1, Len(t.blocks))
  BY <1>1, AllChunk
<1>3. Split(t) \in {List(t.blocks), Clauses(t.blocks), Headings(t.blocks), Paragraphs(t.blocks)}
      \/ (Tokens(t.blocks, All(t.blocks)) <= Short /\ Split(t) = <<All(t.blocks)>>)
  BY DEF Split
<1> QED BY <1>1, <1>2, <1>3

\* An empty text is one empty chunk.
LEMMA SplitNothing ==
  ASSUME NEW t, IsText(t), Len(t.blocks) = 0
  PROVE  Split(t) = <<<<>>>>
<1>1. t.blocks \in Seq(Block) /\ All(t.blocks) \in Seq(1..Len(t.blocks))
      /\ All(t.blocks) = Run(1, 0)
  BY TextIs, AllIs
<1>2. All(t.blocks) = <<>>
  <2>1. Run(1, 0) = [i \in 1..(0 - 1 + 1) |-> 1 + i - 1]
    BY DEF Run
  <2>2. 1..(0 - 1 + 1) = {}
    OBVIOUS
  <2>3. Run(1, 0) = [i \in {} |-> 1 + i - 1] /\ <<>> = [i \in {} |-> 1 + i - 1]
    BY <2>1, <2>2
  <2> QED BY <1>1, <2>3
<1>3. Tokens(t.blocks, All(t.blocks)) <= Short
  <2>1. Tokens(t.blocks, <<>>) = 0 /\ Short \in Nat
    BY <1>1, NoTokens, ChunkerAssumption
  <2> QED BY <1>2, <2>1
<1> QED BY <1>2, <1>3 DEF Split

\* Where paragraphs are split, no chunk is too large.
LEMMA SplitFits ==
  ASSUME NEW t, IsText(t),
         t.strategy \in {"paragraph_aware", "heading_aware", "table_per_chunk"}
  PROVE  Split(t) \in Seq(Small(t.blocks))
<1>1. t.blocks \in Seq(Block) /\ Len(t.blocks) \in Nat
  BY TextIs
<1>2. CASE Tokens(t.blocks, All(t.blocks)) <= Short
  BY <1>1, <1>2, AllChunk DEF Split
<1>3. CASE ~(Tokens(t.blocks, All(t.blocks)) <= Short)
  <2>1. Len(t.blocks) > 0
    <3>1. SUFFICES ASSUME Len(t.blocks) = 0 PROVE FALSE
      BY <1>1
    <3>2. Len(All(t.blocks)) = 0 /\ All(t.blocks) \in Seq(1..Len(t.blocks))
      <4>1. All(t.blocks) = Run(1, 0) /\ 1 \in Nat /\ 0 \in Int /\ 1 <= 0 + 1 /\ 0 - 1 + 1 = 0
        BY <1>1, <3>1, AllIs
      <4>2. Len(Run(1, 0)) = 0 - 1 + 1
        BY <4>1, RunIs
      <4> QED BY <1>1, <4>1, <4>2, AllIs
    <3>3. All(t.blocks) = <<>>
      BY <3>2, EmptySeq
    <3> QED BY <1>1, <1>3, <3>3, NoTokens, ChunkerAssumption
  <2>2. Paragraphs(t.blocks) \in Seq(Small(t.blocks)) /\ Headings(t.blocks) \in Seq(Small(t.blocks))
    BY <1>1, <2>1, ParagraphsFit, HeadingsCover
  <2>3. Split(t) \in {Headings(t.blocks), Paragraphs(t.blocks)}
    BY <1>3 DEF Split
  <2> QED BY <2>2, <2>3
<1> QED BY <1>2, <1>3

\* A list stays together.
LEMMA SplitWhole ==
  ASSUME NEW t, IsText(t), t.strategy = "list_aware",
         NEW i \in 1..(Len(t.blocks) - 1),
         t.blocks[i].kind = "numbered", t.blocks[i + 1].kind = "numbered"
  PROVE  \E k \in 1..Len(Split(t)) : {i, i + 1} \subseteq ToSet(Split(t)[k])
<1>1. t.blocks \in Seq(Block)
  BY TextIs
<1>2. CASE Tokens(t.blocks, All(t.blocks)) <= Short
  <2> DEFINE r == All(t.blocks)
  <2>1. {i, i + 1} \subseteq ToSet(r)
    BY <1>1, <1>2, AllChunk
  <2>2. Split(t) = <<r>>
    BY <1>2 DEF Split
  <2> HIDE DEF r
  <2>3. Len(<<r>>) = 1 /\ <<r>>[1] = r
    OBVIOUS
  <2> QED BY <2>1, <2>2, <2>3
<1>3. CASE ~(Tokens(t.blocks, All(t.blocks)) <= Short)
  <2>1. Split(t) = List(t.blocks)
    BY <1>3 DEF Split
  <2>2. \E k \in 1..Len(List(t.blocks)) : {i, i + 1} \subseteq ToSet(List(t.blocks)[k])
    BY <1>1, ListWhole
  <2> QED BY <2>1, <2>2
<1> QED BY <1>2, <1>3

\* Tables first, then the text.
ChunksAre(t, cs, tables, texts) ==
    /\ tables \in Nat /\ texts \in Seq(Seq(Nat))
    /\ t.strategy = "table_per_chunk" => tables = t.tables
    /\ Len(t.blocks) > 0 => Covers(texts, 1, Len(t.blocks))
    /\ Len(t.blocks) = 0 => \A k \in 1..Len(texts) : texts[k] = <<>>
    /\ texts = <<>> \/ texts = Split(t)
    /\ texts = <<>> => Len(t.blocks) = 0
    /\ Len(cs) = tables + Len(texts) /\ DOMAIN cs = 1..Len(cs)
    /\ \A i \in 1..tables : cs[i].table = i /\ cs[i].parts = <<>>
    /\ \A k \in 1..Len(texts) : cs[tables + k].table = 0 /\ cs[tables + k].parts = texts[k]

\* chunk_document: the tables, then the text, numbered from 0.
LEMMA ChunksShape ==
  ASSUME NEW t, IsText(t)
  PROVE  /\ \E tables, texts : ChunksAre(t, Chunks(t), tables, texts)
         /\ Len(Chunks(t)) \in Nat
         /\ \A i \in 1..Len(Chunks(t)) : Chunks(t)[i].index = i - 1
<1> DEFINE tables == IF t.strategy = "table_per_chunk" THEN t.tables ELSE 0
           texts == IF t.strategy = "table_per_chunk" /\ t.blocks = <<>>
                    THEN <<>> ELSE Split(t)
           N == tables + Len(texts)
           Chunk(i) == IF i <= tables THEN [index |-> i - 1, table |-> i, parts |-> <<>>]
                       ELSE [index |-> i - 1, table |-> 0, parts |-> texts[i - tables]]
           cs == [i \in 1..N |-> Chunk(i)]
<1>1. /\ t.blocks \in Seq(Block) /\ Len(t.blocks) \in Nat /\ t.tables \in Nat
      /\ Len(t.blocks) = 0 <=> t.blocks = <<>>
  BY TextIs, EmptySeq
<1>2. tables \in Nat
  BY <1>1
<1>3. /\ texts \in Seq(Seq(Nat))
      /\ Len(t.blocks) > 0 => Covers(texts, 1, Len(t.blocks)) /\ texts # <<>>
      /\ Len(t.blocks) = 0 => \A k \in 1..Len(texts) : texts[k] = <<>>
  <2>1. CASE Len(t.blocks) > 0
    <3>1. texts = Split(t)
      BY <1>1, <2>1
    <3> HIDE DEF texts
    <3>2. Covers(texts, 1, Len(t.blocks))
      BY <2>1, <3>1, SplitCovers
    <3>3. texts \in Seq(Seq(Nat)) /\ Len(texts) > 0
      BY <3>2 DEF Covers, Follows
    <3> QED BY <1>1, <2>1, <3>2, <3>3
  <2>2. CASE Len(t.blocks) = 0
    <3>1. Split(t) = <<<<>>>>
      BY <2>2, SplitNothing
    <3>2. texts = <<>> \/ texts = <<<<>>>>
      BY <3>1
    <3> HIDE DEF texts
    <3>3. texts \in Seq(Seq(Nat))
      <4>1. <<>> \in Seq(Nat) /\ <<>> \in Seq(Seq(Nat))
        OBVIOUS
      <4>2. <<<<>>>> \in Seq(Seq(Nat))
        BY <4>1
      <4> QED BY <3>2, <4>1, <4>2
    <3>4. \A k \in 1..Len(texts) : texts[k] = <<>>
      BY <3>2
    <3> QED BY <2>2, <3>3, <3>4
  <2> QED BY <1>1, <2>1, <2>2
<1>4. texts = <<>> \/ texts = Split(t)
  OBVIOUS
<1>5. Chunks(t) = cs
  BY DEF Chunks
<1>6. t.strategy = "table_per_chunk" => tables = t.tables
  OBVIOUS
<1> HIDE DEF tables, texts
<1>7. N \in Nat /\ Len(texts) \in Nat
  BY <1>2, <1>3, LenProperties
<1>8. Len(cs) = N /\ DOMAIN cs = 1..N /\ \A i \in 1..N : cs[i] = Chunk(i)
  BY <1>7
<1> HIDE DEF cs
<1>9. ASSUME NEW i \in 1..tables PROVE cs[i].table = i /\ cs[i].parts = <<>>
  <2>1. i \in 1..N /\ i <= tables
    BY <1>2, <1>7
  <2>2. Chunk(i) = [index |-> i - 1, table |-> i, parts |-> <<>>]
    BY <2>1
  <2> HIDE DEF N, Chunk
  <2> QED BY <1>8, <2>1, <2>2
<1>10. ASSUME NEW k \in 1..Len(texts)
       PROVE cs[tables + k].table = 0 /\ cs[tables + k].parts = texts[k]
  <2> DEFINE i == tables + k
  <2>1. i \in 1..N /\ ~(i <= tables) /\ i - tables = k
    BY <1>2, <1>7
  <2> HIDE DEF i
  <2>2. Chunk(i) = [index |-> i - 1, table |-> 0, parts |-> texts[i - tables]]
    BY <2>1
  <2> HIDE DEF N, Chunk
  <2>3. cs[i].table = 0 /\ cs[i].parts = texts[k]
    BY <1>8, <2>1, <2>2
  <2> QED BY <2>3 DEF i
<1>11. \A i \in 1..N : cs[i].index = i - 1
  <2>1. TAKE i \in 1..N
  <2>2. Chunk(i).index = i - 1
    BY <1>2
  <2> HIDE DEF N, Chunk
  <2> QED BY <1>8, <2>2
<1>12. ChunksAre(t, cs, tables, texts)
  <2>1. texts = <<>> => Len(t.blocks) = 0
    BY <1>1, <1>3
  <2>2. Len(cs) = tables + Len(texts) /\ DOMAIN cs = 1..Len(cs)
    BY <1>8
  <2> HIDE DEF N
  <2> QED BY <1>2, <1>3, <1>4, <1>6, <1>9, <1>10, <2>1, <2>2, Zenon DEF ChunksAre
<1> QED BY <1>5, <1>7, <1>8, <1>11, <1>12

\* Every chunk is a table's or one of the texts.
LEMMA ChunkIs ==
  ASSUME NEW t, NEW cs, NEW tables, NEW texts, ChunksAre(t, cs, tables, texts),
         NEW n \in 1..Len(cs)
  PROVE  \/ n \in 1..tables /\ cs[n].table = n /\ cs[n].parts = <<>>
         \/ \E k \in 1..Len(texts) : n = tables + k /\ cs[n].table = 0 /\ cs[n].parts = texts[k]
<1>1. tables \in Nat /\ Len(texts) \in Nat /\ Len(cs) = tables + Len(texts)
  BY LenProperties DEF ChunksAre
<1>2. CASE n <= tables
  <2>1. n \in 1..tables
    BY <1>1, <1>2
  <2> QED BY <2>1 DEF ChunksAre
<1>3. CASE ~(n <= tables)
  <2>1. n - tables \in 1..Len(texts) /\ n = tables + (n - tables)
    BY <1>1, <1>3
  <2>2. cs[tables + (n - tables)].table = 0 /\ cs[tables + (n - tables)].parts = texts[n - tables]
    BY <2>1 DEF ChunksAre
  <2> QED BY <2>1, <2>2
<1> QED BY <1>2, <1>3

\* So nothing of the text is missing, and no table.
LEMMA NothingIsMissing ==
  ASSUME NEW t, IsText(t), NEW cs, NEW tables, NEW texts, ChunksAre(t, cs, tables, texts)
  PROVE  NothingMissing(t, cs)
<1> DEFINE T == {n \in 1..Len(cs) : cs[n].table = 0 /\ cs[n].parts # <<>>}
           L == Len(t.blocks)  J == Len(texts)
<1>1. /\ tables \in Nat /\ texts \in Seq(Seq(Nat)) /\ J \in Nat /\ L \in Nat
      /\ Len(cs) = tables + J /\ DOMAIN cs = 1..Len(cs)
      /\ \A k \in 1..J : cs[tables + k].table = 0 /\ cs[tables + k].parts = texts[k]
  BY TextIs, LenProperties DEF ChunksAre
<1>2. ASSUME NEW n \in T
      PROVE  L > 0 /\ \E k \in 1..J : n = tables + k /\ cs[n].parts = texts[k]
  <2>1. PICK k \in 1..J : n = tables + k /\ cs[n].table = 0 /\ cs[n].parts = texts[k]
    BY <1>2, ChunkIs
  <2>2. L > 0
    <3>1. SUFFICES ASSUME L = 0 PROVE FALSE
      BY <1>1
    <3>2. texts[k] = <<>>
      BY <3>1, <2>1 DEF ChunksAre
    <3> QED BY <2>1, <3>2
  <2> QED BY <2>1, <2>2
<1>3. L > 0 => /\ Covers(texts, 1, L) /\ J > 0
               /\ \A k \in 1..J : /\ IsRun(texts[k]) /\ texts[k] # <<>>
                                  /\ tables + k \in T
  <2>1. SUFFICES ASSUME L > 0
                 PROVE  /\ Covers(texts, 1, L) /\ J > 0
                        /\ \A k \in 1..J : /\ IsRun(texts[k]) /\ texts[k] # <<>>
                                           /\ tables + k \in T
    OBVIOUS
  <2>2. Covers(texts, 1, L)
    BY <2>1 DEF ChunksAre
  <2>3. J > 0 /\ \A k \in 1..J : IsRun(texts[k])
    BY <2>2 DEF Covers, Follows
  <2>4. ASSUME NEW k \in 1..J PROVE texts[k] # <<>> /\ tables + k \in T
    <3>1. texts[k] # <<>>
      BY <2>3, RunShape
    <3>2. tables + k \in 1..Len(cs)
      BY <1>1
    <3> QED BY <1>1, <3>1, <3>2
  <2> QED BY <2>2, <2>3, <2>4
<1> HIDE DEF T, L, J
<1>4. ASSUME L > 0
      PROVE  \E n, m \in T : /\ T \subseteq n..m
                             /\ cs[n].parts[1] = 1 /\ Last(cs[m].parts) = L
  <2>1. 1 \in 1..J /\ J \in 1..J
    BY <1>1, <1>3, <1>4
  <2>2. tables + 1 \in T /\ tables + J \in T
    BY <1>3, <1>4, <2>1
  <2>3. cs[tables + 1].parts = texts[1] /\ cs[tables + J].parts = texts[J]
    BY <1>1, <2>1
  <2>4. texts[1][1] = 1 /\ Last(texts[J]) = L
    BY <1>3, <1>4 DEF Covers, J
  <2>5. T \subseteq (tables + 1)..(tables + J)
    <3>1. ASSUME NEW n \in T PROVE n \in (tables + 1)..(tables + J)
      <4>1. PICK k \in 1..J : n = tables + k
        BY <1>2
      <4> QED BY <1>1, <4>1
    <3> QED BY <3>1
  <2>6. cs[tables + 1].parts[1] = 1 /\ Last(cs[tables + J].parts) = L
    BY <2>3, <2>4
  <2> QED BY <2>2, <2>5, <2>6
<1>5. ASSUME NEW n \in T
      PROVE  \A i \in 1..(Len(cs[n].parts) - 1) : cs[n].parts[i + 1] = cs[n].parts[i] + 1
  <2>1. PICK k \in 1..J : cs[n].parts = texts[k]
    BY <1>2
  <2>2. IsRun(texts[k])
    BY <1>2, <1>3
  <2>3. PICK f \in Nat, l \in Nat : f <= l /\ texts[k] = Run(f, l)
    BY <2>2 DEF IsRun
  <2> DEFINE r == Run(f, l)
  <2>4. Len(r) = l - f + 1 /\ \A i \in 1..(l - f + 1) : r[i] = f + i - 1
    <3>1. l \in Int /\ f <= l + 1
      BY <2>3
    <3> QED BY <3>1, RunIs
  <2>5. cs[n].parts = r
    BY <2>1, <2>3
  <2> HIDE DEF r
  <2>6. ASSUME NEW i \in 1..(Len(r) - 1) PROVE r[i + 1] = r[i] + 1
    <3>1. i \in 1..(l - f + 1) /\ i + 1 \in 1..(l - f + 1)
      BY <2>3, <2>4
    <3>2. r[i] = f + i - 1 /\ r[i + 1] = f + (i + 1) - 1
      BY <2>4, <3>1
    <3> QED BY <3>2
  <2> QED BY <2>5, <2>6
<1>6. ASSUME NEW n \in T, NEW m \in T, m < n, (m + 1)..(n - 1) \cap T = {}
      PROVE  LET last == Last(cs[m].parts)
             IN  cs[n].parts[1] \in {last, last + 1} /\ Last(cs[n].parts) > last
  <2>1. PICK k \in 1..J : n = tables + k /\ cs[n].parts = texts[k]
    BY <1>2
  <2>2. PICK j \in 1..J : m = tables + j /\ cs[m].parts = texts[j]
    BY <1>2
  <2>3. L > 0
    BY <1>2
  <2>4. j = k - 1
    <3>1. j < k
      BY <1>1, <1>6, <2>1, <2>2
    <3>2. SUFFICES ASSUME j < k - 1 PROVE FALSE
      BY <3>1
    <3>3. j + 1 \in 1..J
      BY <1>1, <3>2
    <3>4. tables + (j + 1) \in T
      BY <1>3, <2>3, <3>3
    <3>5. tables + (j + 1) \in (m + 1)..(n - 1)
      BY <1>1, <2>1, <2>2, <3>2
    <3> QED BY <1>6, <3>4, <3>5
  <2>5. k \in 2..J
    BY <1>1, <2>4
  <2>6. /\ texts[k][1] \in {Last(texts[k - 1]), Last(texts[k - 1]) + 1}
        /\ Last(texts[k]) > Last(texts[k - 1])
    BY <1>3, <2>3, <2>5 DEF Covers, Follows, J
  <2> QED BY <2>1, <2>2, <2>4, <2>6
<1>7. t.strategy = "table_per_chunk" => {c.table : c \in ToSet(cs)} \ {0} = 1..t.tables
  <2>1. SUFFICES ASSUME t.strategy = "table_per_chunk"
                 PROVE  {c.table : c \in ToSet(cs)} \ {0} = 1..tables
    BY DEF ChunksAre
  <2>2. ToSet(cs) = {cs[n] : n \in 1..Len(cs)}
    BY <1>1 DEF ToSet
  <2>3. ASSUME NEW x \in 1..tables PROVE x \in {c.table : c \in ToSet(cs)} \ {0}
    <3>1. x \in 1..Len(cs) /\ x # 0
      BY <1>1
    <3>2. cs[x].table = x
      BY DEF ChunksAre
    <3> QED BY <2>2, <3>1, <3>2
  <2>4. ASSUME NEW x \in {c.table : c \in ToSet(cs)} \ {0} PROVE x \in 1..tables
    <3>1. PICK n \in 1..Len(cs) : x = cs[n].table
      BY <2>2
    <3> QED BY <3>1, <2>4, ChunkIs
  <2> QED BY <2>3, <2>4
<1> QED BY <1>4, <1>5, <1>6, <1>7 DEF NothingMissing, T, L

\* And no list is torn apart.
LEMMA ListsAreWhole ==
  ASSUME NEW t, IsText(t), NEW cs, NEW tables, NEW texts, ChunksAre(t, cs, tables, texts)
  PROVE  ListsWhole(t, cs)
<1>1. SUFFICES ASSUME t.strategy = "list_aware", NEW i \in 1..(Len(t.blocks) - 1),
                      t.blocks[i].kind = "numbered", t.blocks[i + 1].kind = "numbered"
               PROVE  \E c \in ToSet(cs) : {i, i + 1} \subseteq ToSet(c.parts)
  BY DEF ListsWhole
<1>2. /\ tables \in Nat /\ Len(texts) \in Nat /\ Len(t.blocks) \in Nat
      /\ Len(cs) = tables + Len(texts) /\ DOMAIN cs = 1..Len(cs)
      /\ \A k \in 1..Len(texts) : cs[tables + k].parts = texts[k]
      /\ texts = <<>> \/ texts = Split(t)
      /\ texts = <<>> => Len(t.blocks) = 0
  BY TextIs, LenProperties DEF ChunksAre
<1>3. texts = Split(t)
  BY <1>1, <1>2
<1>4. PICK k \in 1..Len(texts) : {i, i + 1} \subseteq ToSet(texts[k])
  BY <1>1, <1>3, SplitWhole
<1>5. tables + k \in DOMAIN cs
  BY <1>2
<1>6. cs[tables + k] \in ToSet(cs) /\ cs[tables + k].parts = texts[k]
  BY <1>2, <1>5 DEF ToSet
<1> QED BY <1>4, <1>6

\* And no chunk is larger than SizesBounded allows.
LEMMA SizesAreBounded ==
  ASSUME NEW t, IsText(t), NEW cs, NEW tables, NEW texts, ChunksAre(t, cs, tables, texts)
  PROVE  SizesBounded(t, cs)
<1>1. SUFFICES ASSUME t.strategy \in {"paragraph_aware", "heading_aware", "table_per_chunk"},
                      NEW c \in ToSet(cs)
               PROVE  \/ Fits(t.blocks, c.parts)
                      \/ Len(c.parts) = 1
                      \/ /\ Len(c.parts) = 2
                         /\ Estimate(t.blocks[c.parts[1]].chars) <= Overlap
  BY DEF SizesBounded
<1>2. PICK n \in 1..Len(cs) : c = cs[n]
  BY DEF ToSet, ChunksAre
<1>3. <<>> \in Small(t.blocks)
  <2>1. t.blocks \in Seq(Block) /\ <<>> \in Seq(1..Len(t.blocks))
    BY TextIs
  <2>2. Tokens(t.blocks, <<>>) <= MaxTokens
    BY <2>1, NoTokens, ChunkerAssumption
  <2> QED BY <2>1, <2>2, FewTokens
<1>4. ASSUME NEW k \in 1..Len(texts) PROVE texts[k] \in Small(t.blocks)
  <2>1. texts = Split(t)
    <3>1. texts # <<>>
      OBVIOUS
    <3> QED BY <3>1 DEF ChunksAre
  <2> DEFINE F == Small(t.blocks)
  <2>2. texts \in Seq(F)
    BY <1>1, <2>1, SplitFits
  <2> HIDE DEF F
  <2>3. texts[k] \in F
    BY <2>2
  <2> QED BY <2>3 DEF F
<1>5. c.parts \in Small(t.blocks)
  <2>1. c.parts = <<>> \/ \E k \in 1..Len(texts) : c.parts = texts[k]
    BY <1>2, ChunkIs
  <2> QED BY <1>3, <1>4, <2>1
<1> QED BY <1>5 DEF Small
=============================================================================
