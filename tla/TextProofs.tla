----------------------------- MODULE TextProofs -----------------------------
(***************************************************************************)
(* Proofs about Assembly.tla and Cleanup.tla for texts of any length and   *)
(* any limits.  Induction over positions is that of a set of numbers, which *)
(* holds because < is well-founded.                                        *)
(***************************************************************************)
EXTENDS Assembly, Cleanup, SequenceTheorems, WellFoundedInduction, TLAPS

-----------------------------------------------------------------------------
(* Induction, and the extremes of a set of numbers. *)

\* A non-empty set of numbers has a least element.
LEMMA LeastNumber ==
    ASSUME NEW S \in SUBSET Nat, S # {}
    PROVE  \E x \in S : \A y \in S : x <= y
  <1>1. PICK x \in S : \A y \in S : ~(<<y, x>> \in OpToRel(<, Nat))
    BY NatLessThanWellFounded, WFMin
  <1>2. \A y \in S : ~(y < x)
    BY <1>1 DEF OpToRel
  <1> QED
    BY <1>2

\* A set that holds 0, and k + 1 if it holds k, holds every number up to n.
LEMMA Upward ==
    ASSUME NEW n \in Nat, NEW S, 0 \in S, \A k \in 0 .. n - 1 : k \in S => k + 1 \in S
    PROVE  \A k \in 0 .. n : k \in S
  <1> SUFFICES ASSUME NEW m \in 0 .. n, m \notin S PROVE FALSE
    OBVIOUS
  <1> DEFINE T == {k \in 0 .. n : k \notin S}
  <1>0. T \in SUBSET Nat /\ T # {}
    OBVIOUS
  <1>1. PICK x \in T : \A y \in T : x <= y
    BY <1>0, LeastNumber
  <1>2. x # 0 /\ x - 1 \in 0 .. n - 1 /\ (x - 1) + 1 = x
    OBVIOUS
  <1>3. x - 1 \in S
    BY <1>1, <1>2
  <1> QED
    BY <1>2, <1>3

\* A set that holds n, and k if it holds what is from k + 1 to n, holds every
\* number from 1 to n.
LEMMA Downward ==
    ASSUME NEW n \in Nat, NEW S,
           \A k \in 1 .. n : (\A j \in k + 1 .. n : j \in S) => k \in S
    PROVE  \A k \in 1 .. n : k \in S
  <1> SUFFICES ASSUME NEW m \in 1 .. n, m \notin S PROVE FALSE
    OBVIOUS
  <1> DEFINE T == {d \in 0 .. n - 1 : n - d \notin S}
  <1>1. n - m \in T
    <2>1. n - m \in 0 .. n - 1 /\ n - (n - m) = m
      OBVIOUS
    <2> QED
      BY <2>1
  <1>2. PICK d \in T : \A e \in T : d <= e
    <2>1. T # {}
      BY <1>1
    <2>2. T \in SUBSET Nat
      OBVIOUS
    <2> QED
      BY <2>1, <2>2, LeastNumber
  <1>3. n - d \in 1 .. n
    OBVIOUS
  <1>4. ASSUME NEW j \in n - d + 1 .. n PROVE j \in S
    <2>1. n - j \in 0 .. n - 1 /\ ~(d <= n - j) /\ n - (n - j) = j
      OBVIOUS
    <2> QED
      BY <1>2, <2>1
  <1> QED
    BY <1>3, <1>4

\* The greatest of a set of numbers up to n.
LEMMA MaxFacts ==
    ASSUME NEW n \in Nat, NEW S \in SUBSET (0 .. n), S # {}
    PROVE  Max(S) \in S /\ \A y \in S : Max(S) >= y
  <1> DEFINE T == {d \in 0 .. n : n - d \in S}
  <1>1. T # {}
    <2>1. PICK x \in S : TRUE
      OBVIOUS
    <2>2. n - x \in 0 .. n /\ n - (n - x) = x
      OBVIOUS
    <2> QED
      BY <2>1, <2>2
  <1>2. PICK d \in T : \A e \in T : d <= e
    <2>1. T \in SUBSET Nat /\ T # {}
      BY <1>1
    <2> QED
      BY <2>1, LeastNumber
  <1>3. ASSUME NEW y \in S PROVE n - d >= y
    <2>1. n - y \in T
      <3>1. n - y \in 0 .. n /\ n - (n - y) = y
        OBVIOUS
      <3> QED
        BY <3>1
    <2>2. d <= n - y /\ d \in 0 .. n /\ y \in 0 .. n
      BY <1>2, <2>1
    <2> QED
      BY <2>2
  <1>4. \E x \in S : \A y \in S : x >= y
    BY <1>2, <1>3
  <1> QED
    BY <1>4 DEF Max

\* A set of numbers has its Min in it.
LEMMA MinIsLeast ==
    ASSUME NEW S \in SUBSET Nat, S # {}
    PROVE  Min(S) \in S /\ \A y \in S : Min(S) <= y
  BY LeastNumber DEF Min

\* The least of two numbers.
LEMMA MinFacts ==
    ASSUME NEW a \in Nat, NEW b \in Nat
    PROVE  /\ Min({a, b}) \in Nat /\ Min({a, b}) <= a /\ Min({a, b}) <= b
           /\ a <= b => Min({a, b}) = a
  <1>1. Min({a, b}) \in {a, b} /\ \A y \in {a, b} : Min({a, b}) <= y
    BY MinIsLeast
  <1> QED
    BY <1>1

\* The least of three numbers.
LEMMA MinOfThree ==
    ASSUME NEW a \in Nat, NEW b \in Nat, NEW c \in Nat
    PROVE  /\ Min({a, b, c}) \in {a, b, c} /\ Min({a, b, c}) \in Nat
           /\ Min({a, b, c}) <= a /\ Min({a, b, c}) <= b /\ Min({a, b, c}) <= c
  <1>1. Min({a, b, c}) \in {a, b, c} /\ \A y \in {a, b, c} : Min({a, b, c}) <= y
    BY MinIsLeast
  <1> QED
    BY <1>1

-----------------------------------------------------------------------------
(* Assembly. *)

\* What _word_overlap returns is an overlap, and no longer one is within the limit.
LEMMA OverlapFacts ==
    ASSUME NEW Words, NEW existing \in Seq(Words), NEW incoming \in Seq(Words),
           NEW n, n = WordOverlap(existing, incoming)
    PROVE  /\ n \in Nat /\ n <= Len(existing) /\ n <= Len(incoming) /\ n <= OverlapWords
           /\ Overlaps(existing, incoming, n)
           /\ \A m \in Nat :
                  /\ m <= Len(existing) /\ m <= Len(incoming) /\ m <= OverlapWords
                  /\ Overlaps(existing, incoming, m)
                  => m <= n
  <1> DEFINE upper == Min({Len(existing), Len(incoming), OverlapWords})
             S == {m \in 0 .. upper : Overlaps(existing, incoming, m)}
  <1>1. /\ upper \in {Len(existing), Len(incoming), OverlapWords}
        /\ upper <= Len(existing) /\ upper <= Len(incoming) /\ upper <= OverlapWords
        /\ upper \in Nat
    <2>1. Len(existing) \in Nat /\ Len(incoming) \in Nat /\ OverlapWords \in Nat
      BY OverlapWordsAssumption
    <2> QED
      BY <2>1, MinOfThree
  <1>2. n = Max(S)
    BY DEF WordOverlap
  <1> HIDE DEF upper
  <1>3. Overlaps(existing, incoming, 0)
    BY DEF Overlaps
  <1>4. S # {} /\ S \in SUBSET (0 .. upper)
    BY <1>1, <1>3
  <1>5. n \in S /\ \A m \in S : n >= m
    BY <1>1, <1>2, <1>4, MaxFacts
  <1>6. n \in 0 .. upper /\ Overlaps(existing, incoming, n)
    BY <1>5
  <1>7. ASSUME NEW m \in Nat, m <= Len(existing), m <= Len(incoming), m <= OverlapWords,
               Overlaps(existing, incoming, m)
        PROVE  m <= n
    <2>1. m \in 0 .. upper
      BY <1>1, <1>7
    <2>2. m \in S
      BY <1>7, <2>1
    <2> QED
      BY <1>1, <1>5, <1>6, <2>1, <2>2
  <1>8. n \in Nat /\ n <= Len(existing) /\ n <= Len(incoming) /\ n <= OverlapWords
    BY <1>1, <1>6, OverlapWordsAssumption
  <1> QED
    BY <1>6, <1>7, <1>8

\* What a chunk adds to the text: what is behind the overlap.
LEMMA JoinedFacts ==
    ASSUME NEW Words, NEW text \in Seq(Words), NEW incoming \in Seq(Words),
           NEW n, n = WordOverlap(text, incoming)
    PROVE  /\ Joined(text, incoming) \in Seq(Words)
           /\ Len(Joined(text, incoming)) = Len(text) + Len(incoming) - n
           /\ \A i \in 1 .. Len(text) : Joined(text, incoming)[i] = text[i]
           /\ \A i \in Len(text) + 1 .. Len(Joined(text, incoming)) :
                  Joined(text, incoming)[i] = incoming[i - Len(text) + n]
  <1> DEFINE rest == SubSeq(incoming, n + 1, Len(incoming))
  <1>1. n \in Nat /\ n <= Len(incoming) /\ Len(incoming) \in Nat /\ Len(text) \in Nat
    BY OverlapFacts
  <1>2. /\ rest \in Seq(Words) /\ Len(rest) = Len(incoming) - n
        /\ \A i \in 1 .. Len(incoming) - n : rest[i] = incoming[n + i]
    BY <1>1
  <1>3. Joined(text, incoming) = text \o rest
    BY DEF Joined
  <1> HIDE DEF rest
  <1>4. /\ text \o rest \in Seq(Words) /\ Len(text \o rest) = Len(text) + Len(rest)
        /\ \A i \in 1 .. Len(text) : (text \o rest)[i] = text[i]
        /\ \A i \in 1 .. Len(rest) : (text \o rest)[Len(text) + i] = rest[i]
    BY <1>2
  <1>5. ASSUME NEW i \in Len(text) + 1 .. Len(text \o rest)
        PROVE  (text \o rest)[i] = incoming[i - Len(text) + n]
    <2> DEFINE k == i - Len(text)
    <2>1. k \in 1 .. Len(rest) /\ i = Len(text) + k /\ i - Len(text) + n = n + k
      BY <1>1, <1>2, <1>4
    <2> HIDE DEF k
    <2>2. (text \o rest)[i] = rest[k]
      BY <1>4, <2>1
    <2>3. rest[k] = incoming[n + k]
      BY <1>2, <2>1
    <2> QED
      BY <2>1, <2>2, <2>3
  <1> QED
    BY <1>1, <1>2, <1>3, <1>4, <1>5

\* No word is lost: the words dropped are there.
LEMMA JoinedNorms ==
    ASSUME NEW Words, NEW text \in Seq(Words), NEW incoming \in Seq(Words)
    PROVE  NormSet(Joined(text, incoming)) = NormSet(text) \cup NormSet(incoming)
  <1> SUFFICES ASSUME NEW n, n = WordOverlap(text, incoming)
               PROVE  NormSet(Joined(text, incoming)) = NormSet(text) \cup NormSet(incoming)
    OBVIOUS
  <1> DEFINE joined == Joined(text, incoming)
  <1>1. /\ joined \in Seq(Words) /\ Len(joined) = Len(text) + Len(incoming) - n
        /\ \A i \in 1 .. Len(text) : joined[i] = text[i]
        /\ \A i \in Len(text) + 1 .. Len(joined) : joined[i] = incoming[i - Len(text) + n]
    BY JoinedFacts
  <1>2. /\ n \in Nat /\ n <= Len(text) /\ n <= Len(incoming)
        /\ Overlaps(text, incoming, n)
    BY OverlapFacts
  <1>3. Len(text) \in Nat /\ Len(incoming) \in Nat
    OBVIOUS
  <1> HIDE DEF joined
  <1>4. ASSUME NEW i \in 1 .. Len(joined) PROVE joined[i].norm \in NormSet(text) \cup NormSet(incoming)
    <2>1. CASE i <= Len(text)
      <3>1. i \in 1 .. Len(text)
        BY <1>1, <1>3, <2>1
      <3> QED
        BY <1>1, <3>1 DEF NormSet
    <2>2. CASE ~(i <= Len(text))
      <3> DEFINE j == i - Len(text) + n
      <3>1. j \in 1 .. Len(incoming) /\ i \in Len(text) + 1 .. Len(joined)
        BY <1>1, <1>2, <1>3, <2>2
      <3>2. joined[i] = incoming[j]
        BY <1>1, <3>1
      <3> HIDE DEF j
      <3> QED
        BY <3>1, <3>2 DEF NormSet
    <2> QED
      BY <2>1, <2>2
  <1>5. ASSUME NEW i \in 1 .. Len(text) PROVE text[i].norm \in NormSet(joined)
    <2>1. i \in 1 .. Len(joined)
      BY <1>1, <1>2, <1>3
    <2> QED
      BY <1>1, <2>1 DEF NormSet
  <1>6. ASSUME NEW i \in 1 .. Len(incoming) PROVE incoming[i].norm \in NormSet(joined)
    <2>1. CASE i <= n
      <3> DEFINE j == Len(text) - n + i
      <3>1. j \in 1 .. Len(text) /\ i \in 1 .. n
        BY <1>2, <1>3, <2>1
      <3>2. text[j].norm = incoming[i].norm
        BY <1>2, <3>1 DEF Overlaps
      <3> HIDE DEF j
      <3> QED
        BY <1>5, <3>1, <3>2
    <2>2. CASE ~(i <= n)
      <3> DEFINE j == Len(text) + i - n
      <3>1. /\ j \in Len(text) + 1 .. Len(joined) /\ j \in 1 .. Len(joined)
            /\ j - Len(text) + n = i
        BY <1>1, <1>2, <1>3, <2>2
      <3>2. joined[j] = incoming[i]
        BY <1>1, <3>1
      <3> HIDE DEF j
      <3> QED
        BY <3>1, <3>2 DEF NormSet
    <2> QED
      BY <2>1, <2>2
  <1>7. NormSet(joined) \subseteq NormSet(text) \cup NormSet(incoming)
    BY <1>4 DEF NormSet
  <1>8. NormSet(text) \subseteq NormSet(joined) /\ NormSet(incoming) \subseteq NormSet(joined)
    BY <1>5, <1>6 DEF NormSet
  <1> QED
    BY <1>7, <1>8 DEF joined

\* The text so far is the first words said, the chunk the last, and no more of them
\* than the limit are in both.
Fits(text, incoming, said) ==
    LET before == Len(said) - Len(incoming) IN
    /\ Len(incoming) <= Len(said)
    /\ before <= Len(text) /\ Len(text) <= Len(said)
    /\ Len(text) - before <= OverlapWords
    /\ \A i \in 1 .. Len(text) : text[i].norm = said[i].norm
    /\ \A i \in 1 .. Len(incoming) : incoming[i].norm = said[before + i].norm

\* No word is said twice.
NoRepeats(said) == \A i, j \in 1 .. Len(said) : said[i].norm = said[j].norm => i = j

\* Speech that repeats no word is put together as it was said.
LEMMA ExactJoin ==
    ASSUME NEW Words, NEW text \in Seq(Words), NEW incoming \in Seq(Words),
           NEW said, Len(said) \in Nat, NoRepeats(said), Fits(text, incoming, said)
    PROVE  /\ Len(Joined(text, incoming)) = Len(said)
           /\ \A i \in 1 .. Len(said) : Joined(text, incoming)[i].norm = said[i].norm
  <1> DEFINE n == Len(said)
  <1>0. /\ n \in Nat
        /\ \A i, j \in 1 .. n : said[i].norm = said[j].norm => i = j
        /\ Len(text) <= n /\ Len(incoming) <= n /\ n - Len(incoming) <= Len(text)
        /\ Len(text) - (n - Len(incoming)) <= OverlapWords
        /\ \A i \in 1 .. Len(text) : text[i].norm = said[i].norm
        /\ \A i \in 1 .. Len(incoming) : incoming[i].norm = said[n - Len(incoming) + i].norm
    BY DEF NoRepeats, Fits
  <1> HIDE DEF n
  <1> SUFFICES ASSUME NEW w, w = WordOverlap(text, incoming)
               PROVE  /\ Len(Joined(text, incoming)) = n
                      /\ \A i \in 1 .. n : Joined(text, incoming)[i].norm = said[i].norm
    BY DEF n
  <1> DEFINE start == n - Len(incoming)
             shared == Len(text) - start
  <1>1. /\ w \in Nat /\ w <= Len(text) /\ w <= Len(incoming)
        /\ Overlaps(text, incoming, w)
        /\ \A m \in Nat :
               /\ m <= Len(text) /\ m <= Len(incoming) /\ m <= OverlapWords
               /\ Overlaps(text, incoming, m)
               => m <= w
    BY OverlapFacts
  <1>2. /\ Len(text) \in Nat /\ Len(incoming) \in Nat /\ start \in Nat /\ shared \in Nat
        /\ shared <= Len(text) /\ shared <= Len(incoming) /\ shared <= OverlapWords
    BY <1>0
  <1>3. shared <= w
    <2>1. ASSUME NEW i \in 1 .. shared
          PROVE  text[Len(text) - shared + i].norm = incoming[i].norm
      <3>1. /\ Len(text) - shared + i \in 1 .. Len(text) /\ i \in 1 .. Len(incoming)
            /\ Len(text) - shared + i = n - Len(incoming) + i
        BY <1>0, <1>2
      <3> QED
        BY <1>0, <3>1
    <2>2. Overlaps(text, incoming, shared)
      BY <2>1 DEF Overlaps
    <2> HIDE DEF shared
    <2> QED
      BY <1>1, <1>2, <2>2
  <1>4. w <= shared
    <2>1. CASE w = 0
      BY <1>2, <2>1
    <2>2. CASE w # 0
      <3>1. /\ 1 \in 1 .. w /\ 1 \in 1 .. Len(incoming)
            /\ Len(text) - w + 1 \in 1 .. Len(text) /\ Len(text) - w + 1 \in 1 .. n
            /\ n - Len(incoming) + 1 \in 1 .. n
        BY <1>0, <1>1, <1>2, <2>2
      <3>2. text[Len(text) - w + 1].norm = incoming[1].norm
        BY <1>1, <3>1 DEF Overlaps
      <3>3. said[Len(text) - w + 1].norm = said[n - Len(incoming) + 1].norm
        BY <1>0, <3>1, <3>2
      <3>4. Len(text) - w + 1 = n - Len(incoming) + 1
        BY <1>0, <3>1, <3>3
      <3> QED
        BY <1>0, <1>1, <1>2, <3>4
    <2> QED
      BY <2>1, <2>2
  <1>5. w = shared
    BY <1>1, <1>2, <1>3, <1>4
  <1> DEFINE joined == Joined(text, incoming)
  <1>6. /\ Len(joined) = Len(text) + Len(incoming) - w
        /\ \A i \in 1 .. Len(text) : joined[i] = text[i]
        /\ \A i \in Len(text) + 1 .. Len(joined) : joined[i] = incoming[i - Len(text) + w]
    BY JoinedFacts
  <1> HIDE DEF joined
  <1>7. Len(joined) = n
    BY <1>0, <1>2, <1>5, <1>6
  <1>8. ASSUME NEW i \in 1 .. n PROVE joined[i].norm = said[i].norm
    <2>1. CASE i <= Len(text)
      <3>1. i \in 1 .. Len(text)
        BY <1>2, <2>1
      <3> QED
        BY <1>0, <1>6, <3>1
    <2>2. CASE ~(i <= Len(text))
      <3> DEFINE j == i - Len(text) + w
      <3>1. /\ i \in Len(text) + 1 .. Len(joined) /\ j \in 1 .. Len(incoming)
            /\ n - Len(incoming) + j = i
        BY <1>0, <1>1, <1>2, <1>5, <1>7, <2>2
      <3>2. joined[i] = incoming[j]
        BY <1>6, <3>1
      <3> HIDE DEF j
      <3> QED
        BY <1>0, <3>1, <3>2
    <2> QED
      BY <2>1, <2>2
  <1> QED
    BY <1>7, <1>8 DEF joined

\* The recursion in Assemble defines a function.
LEMMA AssembleRuns ==
    ASSUME NEW texts, Len(texts) \in Nat
    PROVE  \E f : /\ f = [i \in 0 .. Len(texts) |->
                            IF i = 0 THEN << >> ELSE Joined(f[i - 1], texts[i])]
                  /\ Assemble(texts) = f[Len(texts)]
  <1> DEFINE n == Len(texts)
             Run(f, k) == f = [i \in 0 .. k |-> IF i = 0 THEN << >> ELSE Joined(f[i - 1], texts[i])]
             S == {k \in 0 .. n : \E f : Run(f, k)}
  <1>1. 0 \in S
    <2> DEFINE f == [i \in 0 .. 0 |-> << >>]
    <2>1. Run(f, 0)
      OBVIOUS
    <2> HIDE DEF f
    <2> QED
      BY <2>1
  <1>2. ASSUME NEW k \in 0 .. n - 1, k \in S PROVE k + 1 \in S
    <2>1. PICK f : Run(f, k)
      BY <1>2
    <2> DEFINE g == [i \in 0 .. k + 1 |-> IF i <= k THEN f[i] ELSE Joined(f[k], texts[k + 1])]
               h == [i \in 0 .. k + 1 |-> IF i = 0 THEN << >> ELSE Joined(g[i - 1], texts[i])]
    <2>2. ASSUME NEW i \in 0 .. k + 1 PROVE g[i] = h[i]
      <3>1. CASE i = 0
        BY <2>1, <3>1
      <3>2. CASE i # 0 /\ i <= k
        <4>1. i \in 0 .. k /\ i - 1 \in 0 .. k + 1 /\ i - 1 <= k
          BY <3>2
        <4>2. f[i] = Joined(f[i - 1], texts[i])
          BY <2>1, <3>2, <4>1
        <4>3. g[i] = f[i] /\ g[i - 1] = f[i - 1]
          BY <4>1
        <4>4. h[i] = Joined(g[i - 1], texts[i])
          BY <3>2
        <4> QED
          BY <4>2, <4>3, <4>4
      <3>3. CASE ~(i <= k)
        <4>1. i = k + 1 /\ i - 1 = k /\ k \in 0 .. k + 1 /\ i # 0
          BY <3>3
        <4>2. g[i] = Joined(f[k], texts[i]) /\ g[k] = f[k]
          BY <3>3, <4>1
        <4>3. h[i] = Joined(g[k], texts[i])
          BY <4>1
        <4> QED
          BY <4>2, <4>3
      <3> QED
        BY <3>1, <3>2, <3>3
    <2>3. g = h
      BY <2>2
    <2>4. Run(g, k + 1)
      BY <2>3
    <2> HIDE DEF g, h, Run
    <2>5. k + 1 \in 0 .. n
      OBVIOUS
    <2> QED
      BY <2>4, <2>5
  <1>3. n \in S
    <2>1. \A k \in 0 .. n : k \in S
      <3> HIDE DEF S
      <3> QED
        BY <1>1, <1>2, Upward
    <2> QED
      BY <2>1
  <1>4. \E f : Run(f, n)
    BY <1>3
  <1> DEFINE assembled == CHOOSE f : Run(f, n)
  <1>5. Run(assembled, n)
    BY <1>4
  <1>6. Assemble(texts) = assembled[n]
    BY DEF Assemble
  <1> HIDE DEF assembled
  <1> QED
    BY <1>5, <1>6

\* It defines only one.
LEMMA AssembleIs ==
    ASSUME NEW texts, Len(texts) \in Nat, NEW g, g[0] = << >>,
           \A i \in 1 .. Len(texts) : g[i] = Joined(g[i - 1], texts[i])
    PROVE  Assemble(texts) = g[Len(texts)]
  <1>1. PICK f : /\ f = [i \in 0 .. Len(texts) |->
                            IF i = 0 THEN << >> ELSE Joined(f[i - 1], texts[i])]
                 /\ Assemble(texts) = f[Len(texts)]
    BY AssembleRuns
  <1> DEFINE S == {k \in 0 .. Len(texts) : f[k] = g[k]}
  <1>2. 0 \in S
    BY <1>1
  <1>3. ASSUME NEW k \in 0 .. Len(texts) - 1, k \in S PROVE k + 1 \in S
    <2>1. k + 1 \in 1 .. Len(texts) /\ k + 1 \in 0 .. Len(texts) /\ (k + 1) - 1 = k /\ k + 1 # 0
      OBVIOUS
    <2>2. f[k + 1] = Joined(f[k], texts[k + 1])
      BY <1>1, <2>1
    <2>3. g[k + 1] = Joined(g[k], texts[k + 1])
      BY <2>1
    <2> QED
      BY <1>3, <2>1, <2>2, <2>3
  <1>4. \A k \in 0 .. Len(texts) : k \in S
    <2> HIDE DEF S
    <2> QED
      BY <1>2, <1>3, Upward
  <1> QED
    BY <1>1, <1>4

\* A session without a chunk has no text, and each chunk is joined to the text of
\* those before it.
THEOREM AssembleSteps ==
    /\ Assemble(<< >>) = << >>
    /\ \A Words : \A texts \in Seq(Seq(Words)), incoming \in Seq(Words) :
           Assemble(Append(texts, incoming)) = Joined(Assemble(texts), incoming)
  <1>1. Assemble(<< >>) = << >>
    <2> DEFINE g == [i \in 0 .. 0 |-> << >>]
    <2>1. g[0] = << >> /\ Len(<< >>) = 0
      OBVIOUS
    <2> HIDE DEF g
    <2> QED
      BY <2>1, AssembleIs
  <1>2. ASSUME NEW Words, NEW texts \in Seq(Seq(Words)), NEW incoming \in Seq(Words)
        PROVE  Assemble(Append(texts, incoming)) = Joined(Assemble(texts), incoming)
    <2> DEFINE n == Len(texts)
               more == Append(texts, incoming)
    <2>1. /\ n \in Nat /\ Len(more) = n + 1
          /\ \A i \in 1 .. n : more[i] = texts[i]
          /\ more[n + 1] = incoming
      OBVIOUS
    <2>2. PICK f : /\ f = [i \in 0 .. n |-> IF i = 0 THEN << >> ELSE Joined(f[i - 1], texts[i])]
                   /\ Assemble(texts) = f[n]
      BY <2>1, AssembleRuns
    <2> DEFINE g == [i \in 0 .. n + 1 |-> IF i <= n THEN f[i] ELSE Joined(f[n], incoming)]
    <2> HIDE DEF n, more
    <2>3. g[0] = << >>
      BY <2>1, <2>2
    <2>4. ASSUME NEW i \in 1 .. n + 1 PROVE g[i] = Joined(g[i - 1], more[i])
      <3>1. CASE i <= n
        <4>1. /\ i \in 1 .. n /\ i \in 0 .. n /\ i # 0 /\ i - 1 \in 0 .. n + 1 /\ i - 1 <= n
              /\ i \in 0 .. n + 1
          BY <2>1, <3>1
        <4>2. f[i] = Joined(f[i - 1], texts[i])
          BY <2>2, <4>1
        <4>3. g[i] = f[i] /\ g[i - 1] = f[i - 1] /\ more[i] = texts[i]
          BY <2>1, <3>1, <4>1
        <4> QED
          BY <4>2, <4>3
      <3>2. CASE ~(i <= n)
        <4>1. i = n + 1 /\ i - 1 = n /\ n \in 0 .. n + 1 /\ i \in 0 .. n + 1
          BY <2>1, <3>2
        <4>2. g[i] = Joined(f[n], incoming) /\ g[n] = f[n] /\ more[i] = incoming
          BY <2>1, <3>2, <4>1
        <4> QED
          BY <4>1, <4>2
      <3> QED
        BY <3>1, <3>2
    <2>5. g[n + 1] = Joined(f[n], incoming)
      BY <2>1
    <2> HIDE DEF g
    <2>6. Assemble(more) = g[n + 1]
      BY <2>1, <2>3, <2>4, AssembleIs
    <2> QED
      BY <2>2, <2>5, <2>6 DEF more
  <1> QED
    BY <1>1, <1>2

\* No word of any chunk vanishes from the text, and none comes from elsewhere.
THEOREM AssembleKeepsWords ==
    \A Words : \A texts \in Seq(Seq(Words)) :
        /\ Assemble(texts) \in Seq(Words)
        /\ NormSet(Assemble(texts)) = UNION {NormSet(texts[i]) : i \in 1 .. Len(texts)}
  <1> SUFFICES ASSUME NEW Words, NEW texts \in Seq(Seq(Words))
               PROVE  /\ Assemble(texts) \in Seq(Words)
                      /\ NormSet(Assemble(texts)) = UNION {NormSet(texts[i]) : i \in 1 .. Len(texts)}
    OBVIOUS
  <1> DEFINE n == Len(texts)
             Upto(k) == UNION {NormSet(texts[i]) : i \in 1 .. k}
  <1>1. n \in Nat
    OBVIOUS
  <1>2. PICK f : /\ f = [i \in 0 .. n |-> IF i = 0 THEN << >> ELSE Joined(f[i - 1], texts[i])]
                 /\ Assemble(texts) = f[n]
    BY AssembleRuns
  <1> DEFINE S == {k \in 0 .. n : f[k] \in Seq(Words) /\ NormSet(f[k]) = Upto(k)}
  <1>3. 0 \in S
    <2>1. f[0] = << >>
      BY <1>1, <1>2
    <2>2. NormSet(<< >>) = {} /\ Upto(0) = {}
      BY DEF NormSet
    <2>3. << >> \in Seq(Words) /\ 0 \in 0 .. n
      BY <1>1
    <2> HIDE DEF Upto, n
    <2> QED
      BY <2>1, <2>2, <2>3
  <1>4. ASSUME NEW k \in 0 .. n - 1, k \in S PROVE k + 1 \in S
    <2>1. k + 1 \in 1 .. n /\ k + 1 \in 0 .. n /\ (k + 1) - 1 = k /\ k + 1 # 0 /\ k \in Nat
      BY <1>1
    <2>2. f[k + 1] = Joined(f[k], texts[k + 1])
      BY <1>2, <2>1
    <2>3. f[k] \in Seq(Words) /\ NormSet(f[k]) = Upto(k) /\ texts[k + 1] \in Seq(Words)
      BY <1>4, <2>1
    <2>4. f[k + 1] \in Seq(Words)
      BY <2>2, <2>3, JoinedFacts
    <2>5. NormSet(f[k + 1]) = Upto(k) \cup NormSet(texts[k + 1])
      BY <2>2, <2>3, JoinedNorms
    <2>6. Upto(k + 1) = Upto(k) \cup NormSet(texts[k + 1])
      <3>1. 1 .. k + 1 = (1 .. k) \cup {k + 1}
        BY <2>1
      <3> QED
        BY <3>1
    <2> HIDE DEF Upto
    <2> QED
      BY <2>1, <2>4, <2>5, <2>6
  <1>5. n \in S
    <2>1. \A k \in 0 .. n : k \in S
      <3> HIDE DEF S, n
      <3> QED
        BY <1>1, <1>3, <1>4, Upward
    <2>2. n \in 0 .. n
      BY <1>1
    <2> HIDE DEF S, n
    <2> QED
      BY <2>1, <2>2
  <1> QED
    BY <1>2, <1>5

-----------------------------------------------------------------------------
(* Clean-up. *)

\* The phrase and its repetition are within the text.
LEMMA WidthFacts ==
    ASSUME NEW Words, NEW tokens \in Seq(Words), NEW i \in 1 .. Len(tokens),
           NEW width, width = RepeatedWidth(tokens, i)
    PROVE  /\ width \in Nat /\ i + 2 * width <= Len(tokens) + 1
           /\ Repeats(tokens, i, width)
  <1> DEFINE half == (Len(tokens) - i + 1) \div 2
             max == Min({PhraseWords, half})
             S == {w \in 0 .. max : Repeats(tokens, i, w)}
  <1>1. half \in Nat /\ i + 2 * half <= Len(tokens) + 1 /\ Len(tokens) \in Nat
    OBVIOUS
  <1> HIDE DEF half
  <1>2. max \in Nat /\ max <= half
    BY <1>1, MinFacts, PhraseWordsAssumption
  <1>3. width = IF Max(S) = 1 /\ tokens[i].key \in Doubles THEN 0 ELSE Max(S)
    BY DEF RepeatedWidth, half
  <1> HIDE DEF max
  <1>4. Repeats(tokens, i, 0)
    BY DEF Repeats
  <1>5. S # {} /\ S \in SUBSET (0 .. max)
    BY <1>2, <1>4
  <1>6. Max(S) \in S
    BY <1>2, <1>5, MaxFacts
  <1>7. width \in 0 .. max /\ Repeats(tokens, i, width)
    BY <1>2, <1>3, <1>4, <1>6
  <1> QED
    BY <1>1, <1>2, <1>7

\* What is kept from a position on depends on later ones only.
LEMMA KeepLooksAhead ==
    ASSUME NEW Words, NEW tokens \in Seq(Words), NEW i \in 1 .. Len(tokens) + 1, NEW g, NEW h,
           \A j \in i + 1 .. Len(tokens) + 1 : g[j] = h[j]
    PROVE  Keep(tokens, g, i) = Keep(tokens, h, i)
  <1>1. Len(tokens) \in Nat
    OBVIOUS
  <1>2. CASE i > Len(tokens)
    BY <1>2 DEF Keep
  <1>3. CASE ~(i > Len(tokens))
    <2> DEFINE width == RepeatedWidth(tokens, i)
    <2>1. i \in 1 .. Len(tokens) /\ i + 1 \in i + 1 .. Len(tokens) + 1
      BY <1>1, <1>3
    <2>2. width \in Nat /\ i + 2 * width <= Len(tokens) + 1
      BY <2>1, WidthFacts
    <2> HIDE DEF width
    <2>3. width > 0 => i + 2 * width \in i + 1 .. Len(tokens) + 1
      BY <1>1, <2>2
    <2>4. g[i + 1] = h[i + 1] /\ (width > 0 => g[i + 2 * width] = h[i + 2 * width])
      BY <2>1, <2>3
    <2> QED
      BY <1>3, <2>4 DEF Keep, width
  <1> QED
    BY <1>2, <1>3

\* The recursion in SafeCleanup defines a function.
LEMMA CleanupRuns ==
    ASSUME NEW Words, NEW tokens \in Seq(Words)
    PROVE  \E kept : /\ kept = [i \in 1 .. Len(tokens) + 1 |-> Keep(tokens, kept, i)]
                     /\ SafeCleanup(tokens) = kept[1]
  <1> DEFINE n == Len(tokens) + 1
             Run(f, k) == f = [i \in k .. n |-> Keep(tokens, f, i)]
             S == {k \in 1 .. n : \E f : Run(f, k)}
  <1>1. n \in Nat /\ 1 \in 1 .. n
    OBVIOUS
  <1>2. ASSUME NEW k \in 1 .. n, \A j \in k + 1 .. n : j \in S PROVE k \in S
    <2>1. PICK f : k < n => Run(f, k + 1)
      <3>1. CASE k < n
        <4>1. k + 1 \in k + 1 .. n
          BY <1>1, <3>1
        <4> QED
          BY <1>2, <4>1
      <3> QED
        BY <3>1
    <2> DEFINE g == [i \in k .. n |-> IF i = k THEN Keep(tokens, f, k) ELSE f[i]]
               h == [i \in k .. n |-> Keep(tokens, g, i)]
    <2> HIDE DEF n
    <2>2. ASSUME NEW i \in k .. n PROVE g[i] = h[i]
      <3>1. \A j \in i + 1 .. n : g[j] = f[j]
        BY <1>1
      <3>2. i \in 1 .. Len(tokens) + 1
        BY <1>1 DEF n
      <3>3. Keep(tokens, g, i) = Keep(tokens, f, i)
        <4> HIDE DEF g
        <4> QED
          BY <3>1, <3>2, KeepLooksAhead DEF n
      <3>4. CASE i = k
        BY <3>3, <3>4
      <3>5. CASE i # k
        <4>1. k < n /\ i \in k + 1 .. n
          BY <1>1, <3>5
        <4>2. f[i] = Keep(tokens, f, i)
          BY <2>1, <4>1
        <4> QED
          BY <3>3, <3>5, <4>2
      <3> QED
        BY <3>4, <3>5
    <2>3. g = h
      BY <2>2
    <2>4. Run(g, k)
      BY <2>3
    <2> HIDE DEF g, h, Run
    <2> QED
      BY <2>4
  <1>3. 1 \in S
    <2>1. \A k \in 1 .. n : k \in S
      <3> HIDE DEF S, n
      <3> QED
        BY <1>1, <1>2, Downward
    <2> HIDE DEF S, n
    <2> QED
      BY <1>1, <2>1
  <1>4. \E f : Run(f, 1)
    BY <1>3
  <1> DEFINE kept == CHOOSE f : Run(f, 1)
  <1>5. Run(kept, 1)
    BY <1>4
  <1>6. SafeCleanup(tokens) = kept[1]
    BY DEF SafeCleanup
  <1> HIDE DEF kept
  <1> QED
    BY <1>5, <1>6

\* No two words have the same key.
DistinctKeys(tokens) ==
    \A i, j \in 1 .. Len(tokens) : tokens[i].key = tokens[j].key => i = j

\* The pass keeps the words up to last, of those before next, and goes on there:
\* what it leaves out is a hesitation, or has the key of a word it keeps.
LEMMA KeepStep ==
    ASSUME NEW Words, NEW tokens \in Seq(Words), NEW i \in 1 .. Len(tokens), NEW kept,
           \A j \in i + 1 .. Len(tokens) + 1 : kept[j] \in Seq(Words)
    PROVE  \E last \in i - 1 .. Len(tokens), next \in i + 1 .. Len(tokens) + 1 :
             /\ last < next
             /\ Keep(tokens, kept, i) = SubSeq(tokens, i, last) \o kept[next]
             /\ \A j \in i .. next - 1 :
                    IsFiller(tokens, j) \/ \E p \in i .. last : tokens[p].key = tokens[j].key
             /\ DistinctKeys(tokens) =>
                    \A j \in i .. next - 1 : IsFiller(tokens, j) <=> j > last
  <1> DEFINE Done(last, next) ==
               /\ last < next
               /\ Keep(tokens, kept, i) = SubSeq(tokens, i, last) \o kept[next]
               /\ \A j \in i .. next - 1 :
                      IsFiller(tokens, j) \/ \E p \in i .. last : tokens[p].key = tokens[j].key
               /\ DistinctKeys(tokens) =>
                      \A j \in i .. next - 1 : IsFiller(tokens, j) <=> j > last
             width == RepeatedWidth(tokens, i)
  <1>1. Len(tokens) \in Nat /\ i \in Nat /\ ~(i > Len(tokens))
    OBVIOUS
  <1>2. /\ i + 1 \in i + 1 .. Len(tokens) + 1
        /\ i - 1 \in i - 1 .. Len(tokens) /\ i \in i - 1 .. Len(tokens)
        /\ i .. (i + 1) - 1 = {i} /\ i .. i = {i} /\ i - 1 < i + 1 /\ i < i + 1
    BY <1>1
  <1>3. kept[i + 1] \in Seq(Words)
    BY <1>2
  <1>4. CASE IsFiller(tokens, i)
    <2>1. SubSeq(tokens, i, i - 1) = << >>
      BY <1>1
    <2>2. << >> \o kept[i + 1] = kept[i + 1]
      BY <1>3
    <2>3. Keep(tokens, kept, i) = kept[i + 1]
      BY <1>1, <1>4 DEF Keep
    <2>4. i > i - 1
      BY <1>1
    <2>5. Done(i - 1, i + 1)
      BY <1>2, <1>4, <2>1, <2>2, <2>3, <2>4
    <2> HIDE DEF Done
    <2>6. \E last \in i - 1 .. Len(tokens), next \in i + 1 .. Len(tokens) + 1 : Done(last, next)
      BY <1>2, <2>5
    <2> QED
      BY <2>6 DEF Done
  <1>5. CASE ~IsFiller(tokens, i) /\ ~(width > 0)
    <2>1. SubSeq(tokens, i, i) = <<tokens[i]>>
      <3>1. /\ SubSeq(tokens, i, i) \in Seq(Words) /\ Len(SubSeq(tokens, i, i)) = 1
            /\ SubSeq(tokens, i, i)[1] = tokens[i]
        BY <1>1
      <3>2. /\ <<tokens[i]>> \in Seq(Words) /\ Len(<<tokens[i]>>) = 1
            /\ <<tokens[i]>>[1] = tokens[i]
        OBVIOUS
      <3>3. \A k \in 1 .. Len(SubSeq(tokens, i, i)) : SubSeq(tokens, i, i)[k] = <<tokens[i]>>[k]
        BY <3>1, <3>2
      <3> QED
        BY <3>1, <3>2, <3>3, SeqEqual
    <2>2. Keep(tokens, kept, i) = <<tokens[i]>> \o kept[i + 1]
      BY <1>1, <1>5 DEF Keep
    <2>3. ~(i > i)
      BY <1>1
    <2>4. Done(i, i + 1)
      BY <1>2, <1>5, <2>1, <2>2, <2>3
    <2> HIDE DEF Done
    <2>5. \E last \in i - 1 .. Len(tokens), next \in i + 1 .. Len(tokens) + 1 : Done(last, next)
      BY <1>2, <2>4
    <2> QED
      BY <2>5 DEF Done
  <1>6. CASE ~IsFiller(tokens, i) /\ width > 0
    <2>1. width \in Nat /\ i + 2 * width <= Len(tokens) + 1 /\ Repeats(tokens, i, width)
      BY WidthFacts
    <2>2. Keep(tokens, kept, i) = SubSeq(tokens, i, i + width - 1) \o kept[i + 2 * width]
      BY <1>1, <1>6 DEF Keep
    <2> HIDE DEF width
    <2> DEFINE last == i + width - 1
               next == i + 2 * width
    <2>3. /\ last \in i - 1 .. Len(tokens) /\ next \in i + 1 .. Len(tokens) + 1 /\ last < next
      BY <1>1, <1>6, <2>1
    <2>4. ASSUME NEW j \in i .. next - 1
          PROVE  \E p \in i .. last : tokens[p].key = tokens[j].key
      <3>1. CASE j <= last
        <4>1. j \in i .. last
          BY <1>1, <2>1, <3>1
        <4> QED
          BY <4>1
      <3>2. CASE ~(j <= last)
        <4>1. j - width \in i .. i + width - 1 /\ (j - width) + width = j
          BY <1>1, <2>1, <3>2
        <4>2. tokens[j - width].key = tokens[j].key
          BY <2>1, <4>1 DEF Repeats
        <4> QED
          BY <4>1, <4>2
      <3> QED
        BY <3>1, <3>2
    <2>5. ~DistinctKeys(tokens)
      <3>1. /\ i \in i .. i + width - 1
            /\ i \in 1 .. Len(tokens) /\ i + width \in 1 .. Len(tokens) /\ i # i + width
        BY <1>1, <1>6, <2>1
      <3>2. tokens[i].key = tokens[i + width].key
        BY <2>1, <3>1 DEF Repeats
      <3> QED
        BY <3>1, <3>2 DEF DistinctKeys
    <2>6. Done(last, next)
      BY <2>2, <2>3, <2>4, <2>5
    <2> HIDE DEF Done, last, next
    <2>7. \E l \in i - 1 .. Len(tokens), n \in i + 1 .. Len(tokens) + 1 : Done(l, n)
      BY <2>3, <2>6
    <2> QED
      BY <2>7 DEF Done
  <1> QED
    BY <1>4, <1>5, <1>6

\* A part of a text, before words of which the places are known.
LEMMA SelectsMore ==
    ASSUME NEW Words, NEW tokens \in Seq(Words), NEW i \in 1 .. Len(tokens),
           NEW last \in i - 1 .. Len(tokens), NEW rest \in Seq(Words),
           NEW places \in SUBSET (last + 1 .. Len(tokens)), Selects(rest, places, tokens)
    PROVE  Selects(SubSeq(tokens, i, last) \o rest, (i .. last) \cup places, tokens)
  <1> DEFINE part == SubSeq(tokens, i, last)
             m == last - i + 1
             words == part \o rest
             all == (i .. last) \cup places
  <1>1. /\ part \in Seq(Words) /\ Len(part) = m /\ m \in Nat
        /\ \A k \in 1 .. m : part[k] = tokens[i + k - 1]
    OBVIOUS
  <1> HIDE DEF part
  <1>2. /\ words \in Seq(Words) /\ Len(words) = m + Len(rest) /\ Len(rest) \in Nat
        /\ \A k \in 1 .. m : words[k] = part[k]
        /\ \A k \in m + 1 .. m + Len(rest) : words[k] = rest[k - m]
    <2>1. /\ part \o rest \in Seq(Words) /\ Len(part \o rest) = Len(part) + Len(rest)
          /\ \A k \in 1 .. Len(part) + Len(rest) :
                 (part \o rest)[k] = IF k <= Len(part) THEN part[k] ELSE rest[k - Len(part)]
      BY <1>1, ConcatProperties
    <2> QED
      BY <1>1, <2>1
  <1> HIDE DEF words
  <1>3. PICK f \in [1 .. Len(rest) -> places] :
          /\ \A j, k \in 1 .. Len(rest) : j < k => f[j] < f[k]
          /\ \A p \in places : \E k \in 1 .. Len(rest) : f[k] = p
          /\ \A k \in 1 .. Len(rest) : rest[k] = tokens[f[k]]
    BY DEF Selects
  <1> DEFINE g == [k \in 1 .. Len(words) |-> IF k <= m THEN i + k - 1 ELSE f[k - m]]
  <1>4. ASSUME NEW k \in 1 .. Len(words)
        PROVE  \/ k <= m /\ k \in 1 .. m /\ i + k - 1 \in i .. last /\ g[k] = i + k - 1
               \/ ~(k <= m) /\ k - m \in 1 .. Len(rest) /\ f[k - m] \in places /\ g[k] = f[k - m]
    <2>1. CASE k <= m
      BY <1>1, <2>1
    <2>2. CASE ~(k <= m)
      <3>1. k - m \in 1 .. Len(rest)
        BY <1>1, <1>2, <2>2
      <3> QED
        BY <1>3, <2>2, <3>1
    <2> QED
      BY <2>1, <2>2
  <1> HIDE DEF m
  <1>5. g \in [1 .. Len(words) -> all]
    <2>1. \A k \in 1 .. Len(words) : g[k] \in all
      <3> HIDE DEF g
      <3> QED
        BY <1>4
    <2> QED
      BY <2>1
  <1>6. ASSUME NEW k \in 1 .. Len(words), NEW l \in 1 .. Len(words), k < l PROVE g[k] < g[l]
    <2> HIDE DEF g
    <2>1. CASE l <= m
      <3>1. k <= m
        BY <1>1, <1>6, <2>1
      <3> QED
        BY <1>1, <1>4, <1>6, <2>1, <3>1
    <2>2. CASE k <= m /\ ~(l <= m)
      <3>1. g[k] \in i .. last /\ g[l] \in last + 1 .. Len(tokens)
        BY <1>4, <2>2
      <3> QED
        BY <3>1
    <2>3. CASE ~(k <= m) /\ ~(l <= m)
      <3>1. k - m \in 1 .. Len(rest) /\ l - m \in 1 .. Len(rest) /\ g[k] = f[k - m] /\ g[l] = f[l - m]
        BY <1>4, <2>3
      <3>2. k - m < l - m
        BY <1>1, <1>6
      <3> QED
        BY <1>3, <3>1, <3>2
    <2> QED
      BY <2>1, <2>2, <2>3
  <1>7. ASSUME NEW p \in all PROVE \E k \in 1 .. Len(words) : g[k] = p
    <2>1. CASE p \in i .. last
      <3> DEFINE k == p - i + 1
      <3>1. k \in 1 .. Len(words) /\ k <= m /\ i + k - 1 = p
        BY <1>1, <1>2, <2>1 DEF m
      <3>2. g[k] = p
        BY <3>1
      <3> HIDE DEF g, k
      <3> QED
        BY <3>1, <3>2
    <2>2. CASE p \in places
      <3>1. PICK l \in 1 .. Len(rest) : f[l] = p
        BY <1>3, <2>2
      <3> DEFINE k == m + l
      <3>2. k \in 1 .. Len(words) /\ ~(k <= m) /\ k - m = l
        BY <1>1, <1>2, <3>1
      <3>3. g[k] = p
        BY <3>1, <3>2
      <3> HIDE DEF g, k
      <3> QED
        BY <3>2, <3>3
    <2> QED
      BY <2>1, <2>2
  <1>8. ASSUME NEW k \in 1 .. Len(words) PROVE words[k] = tokens[g[k]]
    <2> HIDE DEF g
    <2>1. CASE k <= m
      BY <1>1, <1>2, <1>4, <2>1
    <2>2. CASE ~(k <= m)
      <3>1. k - m \in 1 .. Len(rest) /\ g[k] = f[k - m] /\ k \in m + 1 .. m + Len(rest)
        BY <1>1, <1>2, <1>4, <2>2
      <3> QED
        BY <1>2, <1>3, <3>1
    <2> QED
      BY <2>1, <2>2
  <1> HIDE DEF g, all
  <1>9. Selects(words, all, tokens)
    BY <1>5, <1>6, <1>7, <1>8 DEF Selects
  <1> QED
    BY <1>9 DEF words, part, all

\* All that is shown of the pass, for what is kept from each position on.
LEMMA CleanupFacts ==
    ASSUME NEW Words, NEW tokens \in Seq(Words)
    PROVE  /\ SafeCleanup(tokens) \in Seq(Words)
           /\ \E places \in SUBSET (1 .. Len(tokens)) :
                  /\ Selects(SafeCleanup(tokens), places, tokens)
                  /\ DistinctKeys(tokens) =>
                         places = {j \in 1 .. Len(tokens) : ~IsFiller(tokens, j)}
           /\ \A j \in 1 .. Len(tokens) :
                  IsFiller(tokens, j) \/ tokens[j].key \in Keys(SafeCleanup(tokens))
  <1> DEFINE n == Len(tokens)
  <1>1. n \in Nat /\ n + 1 \in Nat /\ 1 \in 1 .. n + 1
    OBVIOUS
  <1>2. PICK kept : /\ kept = [i \in 1 .. n + 1 |-> Keep(tokens, kept, i)]
                    /\ SafeCleanup(tokens) = kept[1]
    BY CleanupRuns
  <1> DEFINE Chosen(k, places) ==
               /\ Selects(kept[k], places, tokens)
               /\ DistinctKeys(tokens) => places = {j \in k .. n : ~IsFiller(tokens, j)}
             Good(k) ==
               /\ kept[k] \in Seq(Words)
               /\ \E places \in SUBSET (k .. n) : Chosen(k, places)
               /\ \A j \in k .. n : IsFiller(tokens, j) \/ tokens[j].key \in Keys(kept[k])
             S == {k \in 1 .. n + 1 : Good(k)}
  <1>3. Good(n + 1)
    <2>1. kept[n + 1] = << >>
      <3>1. n + 1 \in 1 .. n + 1 /\ n + 1 > n
        BY <1>1
      <3> QED
        BY <1>2, <3>1 DEF Keep
    <2>2. n + 1 .. n = {} /\ Len(<< >>) = 0 /\ << >> \in Seq(Words)
      BY <1>1
    <2>3. Selects(<< >>, {}, tokens)
      <3> DEFINE f == [i \in {} |-> i]
      <3>1. 1 .. Len(<< >>) = {} /\ f \in [1 .. Len(<< >>) -> {}]
        BY <2>2
      <3> HIDE DEF f
      <3> QED
        BY <3>1 DEF Selects
    <2> HIDE DEF n
    <2>4. Chosen(n + 1, {})
      BY <2>1, <2>2, <2>3
    <2> HIDE DEF Chosen
    <2> QED
      BY <2>1, <2>2, <2>4
  <1>4. ASSUME NEW k \in 1 .. n, \A j \in k + 1 .. n + 1 : Good(j) PROVE Good(k)
    <2>1. kept[k] = Keep(tokens, kept, k)
      BY <1>1, <1>2
    <2>2. PICK last \in k - 1 .. n, next \in k + 1 .. n + 1 :
             /\ last < next
             /\ Keep(tokens, kept, k) = SubSeq(tokens, k, last) \o kept[next]
             /\ \A j \in k .. next - 1 :
                    IsFiller(tokens, j) \/ \E p \in k .. last : tokens[p].key = tokens[j].key
             /\ DistinctKeys(tokens) =>
                    \A j \in k .. next - 1 : IsFiller(tokens, j) <=> j > last
      <3>1. \A j \in k + 1 .. n + 1 : kept[j] \in Seq(Words)
        BY <1>4
      <3> QED
        BY <3>1, KeepStep
    <2>3. Good(next)
      BY <1>4
    <2>4. PICK places \in SUBSET (next .. n) : Chosen(next, places)
      BY <2>3
    <2> DEFINE part == SubSeq(tokens, k, last)
               all == (k .. last) \cup places
    <2>5. kept[k] = part \o kept[next]
      BY <2>1, <2>2
    <2>6. /\ part \in Seq(Words) /\ Len(part) = last - k + 1
          /\ \A p \in k .. last : p - k + 1 \in 1 .. Len(part) /\ part[p - k + 1] = tokens[p]
      <3>1. /\ part \in Seq(Words) /\ Len(part) = last - k + 1
            /\ \A q \in 1 .. last - k + 1 : part[q] = tokens[k + q - 1]
        OBVIOUS
      <3> HIDE DEF part
      <3>2. ASSUME NEW p \in k .. last PROVE p - k + 1 \in 1 .. Len(part) /\ part[p - k + 1] = tokens[p]
        <4>1. p - k + 1 \in 1 .. last - k + 1 /\ k + (p - k + 1) - 1 = p
          BY <1>1
        <4> QED
          BY <3>1, <4>1
      <3> QED
        BY <3>1, <3>2
    <2>7. Selects(kept[k], all, tokens)
      <3>1. places \in SUBSET (last + 1 .. Len(tokens))
        BY <1>1, <2>2
      <3>2. Selects(kept[next], places, tokens) /\ kept[next] \in Seq(Words)
        BY <2>3, <2>4
      <3> HIDE DEF Chosen, Good
      <3> QED
        BY <2>2, <2>5, <3>1, <3>2, SelectsMore
    <2> HIDE DEF part
    <2>8. /\ kept[k] \in Seq(Words)
          /\ \A q \in 1 .. Len(part) : q \in 1 .. Len(kept[k]) /\ kept[k][q] = part[q]
          /\ \A q \in 1 .. Len(kept[next]) :
                 Len(part) + q \in 1 .. Len(kept[k]) /\ kept[k][Len(part) + q] = kept[next][q]
      <3>1. kept[next] \in Seq(Words)
        BY <2>3
      <3> HIDE DEF Good
      <3>2. /\ part \o kept[next] \in Seq(Words)
            /\ Len(part \o kept[next]) = Len(part) + Len(kept[next])
            /\ \A q \in 1 .. Len(part) + Len(kept[next]) :
                   (part \o kept[next])[q] =
                       IF q <= Len(part) THEN part[q] ELSE kept[next][q - Len(part)]
        BY <2>6, <3>1, ConcatProperties
      <3>3. Len(part) \in Nat /\ Len(kept[next]) \in Nat
        BY <2>6, <3>1
      <3>4. ASSUME NEW q \in 1 .. Len(part)
            PROVE  q \in 1 .. Len(kept[k]) /\ kept[k][q] = part[q]
        BY <2>5, <3>2, <3>3
      <3>5. ASSUME NEW q \in 1 .. Len(kept[next])
            PROVE  Len(part) + q \in 1 .. Len(kept[k]) /\ kept[k][Len(part) + q] = kept[next][q]
        <4>1. /\ Len(part) + q \in 1 .. Len(part) + Len(kept[next])
              /\ ~(Len(part) + q <= Len(part)) /\ (Len(part) + q) - Len(part) = q
          BY <3>3
        <4> QED
          BY <2>5, <3>2, <4>1
      <3> QED
        BY <2>5, <3>2, <3>4, <3>5
    <2>9. ASSUME NEW j \in k .. n PROVE IsFiller(tokens, j) \/ tokens[j].key \in Keys(kept[k])
      <3>1. CASE j < next
        <4>1. j \in k .. next - 1
          BY <1>1, <3>1
        <4>2. CASE ~IsFiller(tokens, j)
          <5>1. PICK p \in k .. last : tokens[p].key = tokens[j].key
            BY <2>2, <4>1, <4>2
          <5>2. p - k + 1 \in 1 .. Len(kept[k]) /\ kept[k][p - k + 1] = tokens[p]
            BY <2>6, <2>8
          <5> QED
            BY <5>1, <5>2 DEF Keys
        <4> QED
          BY <4>2
      <3>2. CASE ~(j < next)
        <4>1. j \in next .. n
          BY <1>1, <3>2
        <4>2. CASE ~IsFiller(tokens, j)
          <5>1. PICK q \in 1 .. Len(kept[next]) : kept[next][q].key = tokens[j].key
            BY <2>3, <4>1, <4>2 DEF Keys
          <5> QED
            BY <2>8, <5>1 DEF Keys
        <4> QED
          BY <4>2
      <3> QED
        BY <3>1, <3>2
    <2>10. ASSUME DistinctKeys(tokens) PROVE all = {j \in k .. n : ~IsFiller(tokens, j)}
      <3>1. places = {j \in next .. n : ~IsFiller(tokens, j)}
        BY <2>4, <2>10
      <3>2. \A j \in k .. next - 1 : IsFiller(tokens, j) <=> j > last
        BY <2>2, <2>10
      <3>3. ASSUME NEW j \in k .. n PROVE j \in all <=> ~IsFiller(tokens, j)
        <4>1. CASE j < next
          <5>1. j \in k .. next - 1 /\ (j \in k .. last <=> ~(j > last)) /\ j \notin next .. n
            BY <1>1, <4>1
          <5> QED
            BY <3>1, <3>2, <5>1
        <4>2. CASE ~(j < next)
          <5>1. j \in next .. n /\ j \notin k .. last
            BY <1>1, <2>2, <4>2
          <5> QED
            BY <3>1, <5>1
        <4> QED
          BY <4>1, <4>2
      <3>4. all \subseteq k .. n
        BY <1>1
      <3> QED
        BY <3>3, <3>4
    <2>11. all \in SUBSET (k .. n)
      BY <1>1
    <2>12. Chosen(k, all)
      BY <2>7, <2>10
    <2> HIDE DEF Chosen, all
    <2> QED
      BY <2>8, <2>9, <2>11, <2>12
  <1>5. Good(1)
    <2>1. ASSUME NEW k \in 1 .. n + 1, \A j \in k + 1 .. n + 1 : j \in S PROVE k \in S
      <3>1. \A j \in k + 1 .. n + 1 : Good(j)
        BY <2>1
      <3> HIDE DEF Good
      <3>2. CASE k = n + 1
        BY <1>3, <3>2
      <3>3. CASE k # n + 1
        <4>1. k \in 1 .. n
          BY <1>1, <3>3
        <4> QED
          BY <1>4, <3>1, <4>1
      <3> QED
        BY <3>2, <3>3
    <2>2. \A k \in 1 .. n + 1 : k \in S
      <3> HIDE DEF S, n
      <3> QED
        BY <1>1, <2>1, Downward
    <2> HIDE DEF Good
    <2> QED
      BY <1>1, <2>2
  <1>6. PICK places \in SUBSET (1 .. n) : Chosen(1, places)
    BY <1>5
  <1> QED
    BY <1>2, <1>5, <1>6

\* Clean-up adds no word and changes no order: it keeps some of the words it is
\* given.
THEOREM CleanupSelects ==
    \A Words : \A tokens \in Seq(Words) :
        \E places \in SUBSET (1 .. Len(tokens)) : Selects(SafeCleanup(tokens), places, tokens)
  BY CleanupFacts

\* What it takes away is a hesitation, or a word that has the key of one it keeps.
THEOREM CleanupKeepsKeys ==
    \A Words : \A tokens \in Seq(Words) : \A i \in 1 .. Len(tokens) :
        IsFiller(tokens, i) \/ tokens[i].key \in Keys(SafeCleanup(tokens))
  BY CleanupFacts

\* Of a text without repetitions it keeps exactly what is no hesitation.
THEOREM CleanupDropsHesitations ==
    \A Words : \A tokens \in Seq(Words) :
        DistinctKeys(tokens) =>
            Selects(SafeCleanup(tokens), {i \in 1 .. Len(tokens) : ~IsFiller(tokens, i)}, tokens)
  BY CleanupFacts
=============================================================================
