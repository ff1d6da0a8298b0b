--------------------------- MODULE JsonBlockProofs ---------------------------
(***************************************************************************)
(* Proofs about JsonBlock, for texts of every length.                      *)
(*                                                                         *)
(* What the recursive functions Inside and Balanced contain is proved by   *)
(* induction from the end of the text, as an argument about the greatest   *)
(* position at which a fact fails.                                         *)
(***************************************************************************)
EXTENDS JsonBlock, WellFoundedInduction, TLAPS

-----------------------------------------------------------------------------
(* Induction.                                                              *)

\* A nonempty set of naturals has a least element.
LEMMA Least ==
    ASSUME NEW T \in SUBSET Nat, T # {}
    PROVE  \E x \in T : \A y \in T : x <= y
<1> DEFINE R == {ss \in Nat \X Nat : ss[1] < ss[2]}
<1>1. IsWellFoundedOn(R, Nat)
  BY NatLessThanWellFounded, Zenon DEF OpToRel
<1>2. PICK x \in T : \A y \in T : ~(<<y, x>> \in R)
  <2> HIDE DEF R
  <2> QED BY <1>1, WFMin, Zenon
<1>3. \A y \in T : ~(y < x)
  BY <1>2
<1> QED BY <1>3

\* A nonempty set of positions has a greatest element: the fact the inductions
\* from the end of a text are made from.
LEMMA Greatest ==
    ASSUME NEW n \in Nat, NEW T \in SUBSET (1..n), T # {}
    PROVE  \E x \in T : \A y \in T : y <= x
<1> DEFINE D == {n - x : x \in T}
<1>1. D \in SUBSET Nat /\ D # {}
  <2>1. \A x \in T : n - x \in Nat
    OBVIOUS
  <2> QED BY <2>1
<1>2. PICK d \in D : \A e \in D : d <= e
  <2> HIDE DEF D
  <2> QED BY <1>1, Least, Zenon
<1>3. PICK x \in T : d = n - x
  BY <1>2
<1>4. ASSUME NEW y \in T PROVE y <= x
  <2>1. x \in 1..n /\ y \in 1..n /\ n - y \in D
    OBVIOUS
  <2>2. n - x <= n - y
    BY <2>1, <1>2, <1>3
  <2> QED BY <2>1, <2>2
<1> QED BY <1>3, <1>4

\* Induction from the end: a set of positions that contains every position
\* all of whose later positions it contains has them all.
LEMMA FromTheEndInduction ==
    ASSUME NEW n \in Nat, NEW H,
           \A i \in 1..n : (\A j \in 1..n : j > i => j \in H) => i \in H
    PROVE  \A i \in 1..n : i \in H
<1> SUFFICES ASSUME (1..n) \ H # {} PROVE FALSE
  OBVIOUS
<1>1. PICK i \in (1..n) \ H : \A j \in (1..n) \ H : j <= i
  BY Greatest, Zenon
<1>2. \A j \in 1..n : j > i => j \in H
  BY <1>1
<1> QED BY <1>1, <1>2

\* F[f][i] is determined by the values of f after i.
FromTheEnd(n, V, F) ==
    /\ F \in [[1..n -> V] -> [1..n -> V]]
    /\ \A f, g \in [1..n -> V] : \A i \in 1..n :
          (\A j \in 1..n : j > i => f[j] = g[j]) => F[f][i] = F[g][i]

\* An equation f = F[f] has a solution if it determines f from the end.
LEMMA Solution ==
    ASSUME NEW n \in Nat, NEW V, V # {}, NEW F, FromTheEnd(n, V, F)
    PROVE  \E f \in [1..n -> V] : f = F[f]
<1> DEFINE U == {m \in 1..(n + 1) : \E f \in [1..n -> V] : \A i \in m..n : f[i] = F[f][i]}
<1>0. /\ F \in [[1..n -> V] -> [1..n -> V]]
      /\ \A f, g \in [1..n -> V] : \A i \in 1..n :
            (\A j \in 1..n : j > i => f[j] = g[j]) => F[f][i] = F[g][i]
  BY DEF FromTheEnd
<1>1. U \in SUBSET Nat /\ U # {}
  <2>1. PICK v \in V : TRUE
    OBVIOUS
  <2>2. [i \in 1..n |-> v] \in [1..n -> V]
    OBVIOUS
  <2>3. n + 1 \in 1..(n + 1) /\ (n + 1)..n = {}
    OBVIOUS
  <2>4. n + 1 \in U
    BY <2>2, <2>3
  <2>5. \A m \in 1..(n + 1) : m \in Nat
    OBVIOUS
  <2>6. U \subseteq 1..(n + 1)
    OBVIOUS
  <2> HIDE DEF U
  <2> QED BY <2>4, <2>5, <2>6
<1>2. PICK m \in U : \A k \in U : m <= k
  <2> HIDE DEF U
  <2> QED BY <1>1, Least, Zenon
<1>3. PICK f \in [1..n -> V] : \A i \in m..n : f[i] = F[f][i]
  BY <1>2
<1>4. ASSUME m > 1 PROVE FALSE
  <2> DEFINE a == m - 1
             g == [f EXCEPT ![a] = F[f][a]]
  <2>1. a \in 1..n /\ m \in 1..(n + 1)
    BY <1>4
  <2>2. F[f] \in [1..n -> V]
    BY <1>0
  <2>3. g \in [1..n -> V]
    BY <2>1, <2>2
  <2>4. \A j \in 1..n : j > a => f[j] = g[j]
    BY <2>1
  <2>5. ASSUME NEW i \in a..n PROVE g[i] = F[g][i]
    <3>1. i \in 1..n
      BY <2>1
    <3>2. F[f][i] = F[g][i]
      <4>1. \A j \in 1..n : j > i => f[j] = g[j]
        BY <2>4, <2>1
      <4> HIDE DEF g
      <4> QED BY <4>1, <3>1, <2>3, <1>0
    <3>3. CASE i = a
      BY <3>2, <3>3, <2>1
    <3>4. CASE i # a
      <4>1. i \in m..n
        BY <3>4, <2>1
      <4> QED BY <3>2, <3>4, <4>1, <1>3, <3>1
    <3> QED BY <3>3, <3>4
  <2>6. \E h \in [1..n -> V] : \A i \in a..n : h[i] = F[h][i]
    <3> HIDE DEF g, a
    <3> QED BY <2>3, <2>5
  <2>7. a \in U
    BY <2>1, <2>6
  <2>8. m <= a
    <3> HIDE DEF U, a
    <3> QED BY <2>7, <1>2
  <2> QED BY <2>8, <2>1
<1>5. m = 1
  BY <1>4, <1>1
<1>6. F[f] \in [1..n -> V] /\ f \in [1..n -> V] /\ \A i \in 1..n : f[i] = F[f][i]
  BY <1>5, <1>3, <1>0
<1>7. f = F[f]
  BY <1>6
<1> QED BY <1>7

-----------------------------------------------------------------------------
(* The recursive functions satisfy their equations.                        *)

\* A text is a sequence of characters.
LEMMA TextIsSeq ==
    ASSUME NEW w \in Text
    PROVE  w \in Seq(Char) /\ Len(w) \in 0..MaxLength
<1>1. PICK n \in 0..MaxLength : w \in [1..n -> Char]
  BY DEF Text
<1>2. n \in Nat /\ w \in Seq(Char) /\ Len(w) = n
  BY <1>1, LengthAssumption
<1> QED BY <1>2

\* And a sequence of characters that is not too long is a text.
LEMMA SeqIsText ==
    ASSUME NEW v \in Seq(Char), Len(v) <= MaxLength
    PROVE  v \in Text
<1>1. v \in [1..Len(v) -> Char] /\ Len(v) \in Nat
  OBVIOUS
<1>2. Len(v) \in 0..MaxLength
  BY <1>1, LengthAssumption
<1> QED BY <1>1, <1>2 DEF Text

\* InsideAt looks at its function only after the position.
LEMMA InsideAtCongruence ==
    ASSUME NEW w \in Seq(Char), NEW f, NEW g, NEW i \in Positions(w),
           \A j \in Positions(w) : j > i => f[j] = g[j]
    PROVE  InsideAt(w, f, i) = InsideAt(w, g, i)
<1>1. i <= Len(w) => f[i + 1] = g[i + 1]
  BY DEF Positions
<1>2. i < Len(w) => f[i + 2] = g[i + 2]
  BY DEF Positions
<1> QED BY <1>1, <1>2 DEF InsideAt, Positions

\* The same of BalancedAt.
LEMMA BalancedAtCongruence ==
    ASSUME NEW w \in Seq(Char), NEW f, NEW g, NEW i \in Positions(w),
           \A j \in Positions(w) : j > i => f[j] = g[j]
    PROVE  BalancedAt(w, f, i) = BalancedAt(w, g, i)
<1>1. i <= Len(w) => f[i + 1] = g[i + 1]
  BY DEF Positions
<1>2. \A j \in (i + 1)..Len(w) : f[j + 1] = g[j + 1] /\ i <= Len(w)
  BY DEF Positions
<1> QED BY <1>1, <1>2, Zenon DEF BalancedAt

\* Inside satisfies its equation.
LEMMA InsideDef ==
    ASSUME NEW w \in Seq(Char)
    PROVE  Inside(w) = [i \in Positions(w) |-> InsideAt(w, Inside(w), i)]
<1> DEFINE n == Len(w) + 1
           V == SUBSET (1..n)
           F == [f \in [1..n -> V] |-> [i \in 1..n |-> InsideAt(w, f, i)]]
<1>1. n \in Nat /\ Positions(w) = 1..n
  BY DEF Positions
<1>2. F \in [[1..n -> V] -> [1..n -> V]]
  <2>1. \A f, i : i \in 1..n => InsideAt(w, f, i) \in V
    BY <1>1 DEF InsideAt
  <2> QED BY <2>1
<1>3. \A f, g \in [1..n -> V] : \A i \in 1..n :
         (\A j \in 1..n : j > i => f[j] = g[j]) => F[f][i] = F[g][i]
  <2> HIDE DEF n, V
  <2> QED BY <1>1, InsideAtCongruence
<1>4. \E f \in [1..n -> V] : f = F[f]
  <2>1. {} \in V
    OBVIOUS
  <2>2. FromTheEnd(n, V, F)
    BY <1>2, <1>3, Zenon DEF FromTheEnd
  <2> HIDE DEF n, V, F
  <2> QED BY <1>1, <2>1, <2>2, Solution
<1>5. \E f : f = [i \in Positions(w) |-> InsideAt(w, f, i)]
  BY <1>1, <1>4
<1> QED BY <1>5 DEF Inside

\* Balanced satisfies its equation.
LEMMA BalancedDef ==
    ASSUME NEW w \in Seq(Char)
    PROVE  Balanced(w) = [i \in Positions(w) |-> BalancedAt(w, Balanced(w), i)]
<1> DEFINE n == Len(w) + 1
           V == SUBSET (1..n)
           F == [f \in [1..n -> V] |-> [i \in 1..n |-> BalancedAt(w, f, i)]]
<1>1. n \in Nat /\ Positions(w) = 1..n
  BY DEF Positions
<1>2. F \in [[1..n -> V] -> [1..n -> V]]
  <2>1. \A f, i : i \in 1..n => BalancedAt(w, f, i) \in V
    BY <1>1 DEF BalancedAt
  <2> QED BY <2>1
<1>3. \A f, g \in [1..n -> V] : \A i \in 1..n :
         (\A j \in 1..n : j > i => f[j] = g[j]) => F[f][i] = F[g][i]
  <2> HIDE DEF n, V
  <2> QED BY <1>1, BalancedAtCongruence
<1>4. \E f \in [1..n -> V] : f = F[f]
  <2>1. {} \in V
    OBVIOUS
  <2>2. FromTheEnd(n, V, F)
    BY <1>2, <1>3, Zenon DEF FromTheEnd
  <2> HIDE DEF n, V, F
  <2> QED BY <1>1, <2>1, <2>2, Solution
<1>5. \E f : f = [i \in Positions(w) |-> BalancedAt(w, f, i)]
  BY <1>1, <1>4
<1> QED BY <1>5 DEF Balanced

\* What the inside of a string literal may be, one character at a time.
LEMMA InsideCases ==
    ASSUME NEW w \in Seq(Char), NEW i \in Positions(w), NEW k
    PROVE  k \in Inside(w)[i] <=>
              /\ k \in i..(Len(w) + 1)
              /\ \/ k = i
                 \/ i <= Len(w) /\ w[i] \notin {"quote", "escape"} /\ k \in Inside(w)[i + 1]
                 \/ i <  Len(w) /\ w[i] = "escape" /\ k \in Inside(w)[i + 2]
<1>1. Inside(w)[i] = InsideAt(w, Inside(w), i)
  BY InsideDef
<1> QED BY <1>1 DEF InsideAt

\* The rules of the grammar of string literals, one by one.
LEMMA InsideRules ==
    ASSUME NEW w \in Seq(Char), NEW i \in Positions(w)
    PROVE  /\ i \in Inside(w)[i]
           /\ \A k \in Inside(w)[i] : k \in Positions(w) /\ i <= k
           /\ i <= Len(w) /\ w[i] \notin {"quote", "escape"} =>
                \A k \in Inside(w)[i + 1] : k \in Inside(w)[i]
           /\ i < Len(w) /\ w[i] = "escape" =>
                \A k \in Inside(w)[i + 2] : k \in Inside(w)[i]
<1>1. Len(w) \in Nat /\ i \in 1..(Len(w) + 1)
  BY DEF Positions
<1>2. i \in Inside(w)[i]
  BY <1>1, InsideCases
<1>3. ASSUME NEW k \in Inside(w)[i] PROVE k \in Positions(w) /\ i <= k
  <2>1. k \in i..(Len(w) + 1)
    BY InsideCases
  <2> QED BY <2>1, <1>1 DEF Positions
<1>4. ASSUME i <= Len(w), w[i] \notin {"quote", "escape"}, NEW k \in Inside(w)[i + 1]
      PROVE  k \in Inside(w)[i]
  <2>1. i + 1 \in Positions(w)
    BY <1>4, <1>1 DEF Positions
  <2>2. k \in (i + 1)..(Len(w) + 1)
    BY <2>1, InsideCases
  <2>3. k \in i..(Len(w) + 1)
    BY <2>2, <1>1
  <2> QED BY <2>3, <1>4, InsideCases
<1>5. ASSUME i < Len(w), w[i] = "escape", NEW k \in Inside(w)[i + 2]
      PROVE  k \in Inside(w)[i]
  <2>1. i + 2 \in Positions(w)
    BY <1>5, <1>1 DEF Positions
  <2>2. k \in (i + 2)..(Len(w) + 1)
    BY <2>1, InsideCases
  <2>3. k \in i..(Len(w) + 1)
    BY <2>2, <1>1
  <2> QED BY <2>3, <1>5, InsideCases
<1> QED BY <1>2, <1>3, <1>4, <1>5

\* What a balanced part of the text may be: empty, or it begins with a
\* character, a string literal or an object.
LEMMA BalancedCases ==
    ASSUME NEW w \in Seq(Char), NEW i \in Positions(w), NEW k
    PROVE  k \in Balanced(w)[i] <=>
              /\ k \in i..(Len(w) + 1)
              /\ \/ k = i
                 \/ i <= Len(w) /\ w[i] \in {"other", "escape"} /\ k \in Balanced(w)[i + 1]
                 \/ \E j \in (i + 1)..Len(w) :
                       /\ w[i] = "quote" /\ w[j] = "quote" /\ j \in Inside(w)[i + 1]
                       /\ k \in Balanced(w)[j + 1]
                 \/ \E j \in (i + 1)..Len(w) :
                       /\ w[i] = "open" /\ w[j] = "close" /\ j \in Balanced(w)[i + 1]
                       /\ k \in Balanced(w)[j + 1]
<1>1. Balanced(w)[i] = BalancedAt(w, Balanced(w), i)
  BY BalancedDef
<1> QED BY <1>1, Zenon DEF BalancedAt

-----------------------------------------------------------------------------
(* What the grammar says of strings.                                       *)

\* The inside of a string goes on with any character but a quote and a
\* backslash, and with a backslash and the character it escapes.
LEMMA InsideGoesOn ==
    ASSUME NEW w \in Seq(Char), NEW a \in Positions(w), NEW k \in Inside(w)[a]
    PROVE  /\ k <= Len(w) /\ w[k] \notin {"quote", "escape"} => k + 1 \in Inside(w)[a]
           /\ k < Len(w) /\ w[k] = "escape" => k + 2 \in Inside(w)[a]
<1> DEFINE n == Len(w) + 1
           Next1(i, j) == j <= Len(w) /\ w[j] \notin {"quote", "escape"} => j + 1 \in Inside(w)[i]
           Next2(i, j) == j < Len(w) /\ w[j] = "escape" => j + 2 \in Inside(w)[i]
           H == {i \in 1..n : \A j \in Inside(w)[i] : Next1(i, j) /\ Next2(i, j)}
<1>0. n \in Nat /\ Positions(w) = 1..n
  BY DEF Positions
<1>1. ASSUME NEW i \in 1..n, \A j \in 1..n : j > i => j \in H
      PROVE  i \in H
  <2> SUFFICES ASSUME NEW j \in Inside(w)[i] PROVE Next1(i, j) /\ Next2(i, j)
    OBVIOUS
  <2>1. j \in i..n
    BY <1>0, InsideCases
  <2>2. CASE j = i
    <3>1. i <= Len(w) => i + 1 \in Inside(w)[i + 1]
      BY <1>0, InsideRules
    <3>2. i < Len(w) => i + 2 \in Inside(w)[i + 2]
      BY <1>0, InsideRules
    <3>3. Next1(i, i)
      BY <3>1, <1>0, InsideRules
    <3>4. Next2(i, i)
      BY <3>2, <1>0, InsideRules
    <3> QED BY <3>3, <3>4, <2>2
  <2>3. CASE i <= Len(w) /\ w[i] \notin {"quote", "escape"} /\ j \in Inside(w)[i + 1]
    <3>1. i + 1 \in H
      BY <2>3, <1>1
    <3>2. Next1(i + 1, j) /\ Next2(i + 1, j)
      BY <3>1, <2>3
    <3>3. \A k1 \in Inside(w)[i + 1] : k1 \in Inside(w)[i]
      BY <2>3, <1>0, InsideRules
    <3> QED BY <3>2, <3>3
  <2>4. CASE i < Len(w) /\ w[i] = "escape" /\ j \in Inside(w)[i + 2]
    <3>1. i + 2 \in H
      BY <2>4, <1>1
    <3>2. Next1(i + 2, j) /\ Next2(i + 2, j)
      BY <3>1, <2>4
    <3>3. \A k1 \in Inside(w)[i + 2] : k1 \in Inside(w)[i]
      BY <2>4, <1>0, InsideRules
    <3> QED BY <3>2, <3>3
  <2>5. i \in Positions(w)
    BY <1>0
  <2>6. \/ j = i
        \/ i <= Len(w) /\ w[i] \notin {"quote", "escape"} /\ j \in Inside(w)[i + 1]
        \/ i <  Len(w) /\ w[i] = "escape" /\ j \in Inside(w)[i + 2]
    BY <2>5, InsideCases
  <2> QED BY <2>2, <2>3, <2>4, <2>6
<1>2. \A i \in 1..n : i \in H
  <2> HIDE DEF n, H
  <2> QED BY <1>0, <1>1, FromTheEndInduction
<1> QED BY <1>2, <1>0

\* A string ends at its first quote that is not escaped: the inside of a string
\* does not go past a quote at which it may end.
LEMMA StringEndsOnce ==
    ASSUME NEW w \in Seq(Char), NEW a \in Positions(w),
           NEW k \in Inside(w)[a], NEW l \in Inside(w)[a], k < l
    PROVE  w[k] # "quote"
<1> DEFINE n == Len(w) + 1
           Once(i) == \A x, y \in Inside(w)[i] : x < y => w[x] # "quote"
           H == {i \in 1..n : Once(i)}
<1>0. n \in Nat /\ Positions(w) = 1..n
  BY DEF Positions
<1>1. ASSUME NEW i \in 1..n, \A j \in 1..n : j > i => j \in H
      PROVE  i \in H
  <2> SUFFICES ASSUME NEW x \in Inside(w)[i], NEW y \in Inside(w)[i], x < y, w[x] = "quote"
               PROVE  FALSE
    OBVIOUS
  <2>1. x \in Positions(w) /\ i <= x /\ y \in Positions(w) /\ i <= y
    BY <1>0, InsideRules
  <2>2. y # i
    BY <2>1, <1>0
  <2>3. CASE i <= Len(w) /\ w[i] \notin {"quote", "escape"} /\ y \in Inside(w)[i + 1]
    <3>1. x \in Inside(w)[i + 1]
      BY <2>3, <1>0, InsideCases
    <3>2. i + 1 \in H
      BY <2>3, <1>1
    <3> QED BY <3>1, <3>2, <2>3
  <2>4. CASE i < Len(w) /\ w[i] = "escape" /\ y \in Inside(w)[i + 2]
    <3>1. x \in Inside(w)[i + 2]
      BY <2>4, <1>0, InsideCases
    <3>2. i + 2 \in H
      BY <2>4, <1>1
    <3> QED BY <3>1, <3>2, <2>4
  <2>5. i \in Positions(w)
    BY <1>0
  <2>6. \/ y = i
        \/ i <= Len(w) /\ w[i] \notin {"quote", "escape"} /\ y \in Inside(w)[i + 1]
        \/ i <  Len(w) /\ w[i] = "escape" /\ y \in Inside(w)[i + 2]
    BY <2>5, InsideCases
  <2> QED BY <2>2, <2>3, <2>4, <2>6
<1>2. \A i \in 1..n : i \in H
  <2> HIDE DEF n, H
  <2> QED BY <1>0, <1>1, FromTheEndInduction
<1> QED BY <1>2, <1>0

-----------------------------------------------------------------------------
(* What the grammar says of balanced parts.                                *)

\* The rules of the grammar of balanced parts, one by one.
LEMMA BalancedRules ==
    ASSUME NEW w \in Seq(Char), NEW i \in Positions(w)
    PROVE  /\ i \in Balanced(w)[i]
           /\ \A k \in Balanced(w)[i] : k \in Positions(w) /\ i <= k
           /\ i <= Len(w) /\ w[i] \in {"other", "escape"} =>
                \A k \in Balanced(w)[i + 1] : k \in Balanced(w)[i]
           /\ \A j \in (i + 1)..Len(w) :
                w[i] = "quote" /\ w[j] = "quote" /\ j \in Inside(w)[i + 1] =>
                  \A k \in Balanced(w)[j + 1] : k \in Balanced(w)[i]
           /\ \A j \in (i + 1)..Len(w) :
                w[i] = "open" /\ w[j] = "close" /\ j \in Balanced(w)[i + 1] =>
                  \A k \in Balanced(w)[j + 1] : k \in Balanced(w)[i]
<1>1. Len(w) \in Nat /\ i \in 1..(Len(w) + 1)
  BY DEF Positions
<1>2. i \in Balanced(w)[i]
  BY <1>1, BalancedCases
<1>3. \A l \in Positions(w) : \A k \in Balanced(w)[l] : k \in l..(Len(w) + 1)
  BY BalancedCases
<1>4. ASSUME NEW l \in Positions(w), i <= l, NEW k \in Balanced(w)[l]
      PROVE  k \in i..(Len(w) + 1)
  <2>1. k \in l..(Len(w) + 1) /\ l \in 1..(Len(w) + 1)
    BY <1>3 DEF Positions
  <2> QED BY <2>1, <1>1, <1>4
<1>5. ASSUME NEW k \in Balanced(w)[i] PROVE k \in Positions(w) /\ i <= k
  <2>1. k \in i..(Len(w) + 1)
    BY <1>3
  <2> QED BY <2>1, <1>1 DEF Positions
<1>6. ASSUME i <= Len(w), w[i] \in {"other", "escape"}, NEW k \in Balanced(w)[i + 1]
      PROVE  k \in Balanced(w)[i]
  <2>1. i + 1 \in Positions(w)
    BY <1>6, <1>1 DEF Positions
  <2>2. k \in i..(Len(w) + 1)
    BY <2>1, <1>4, <1>1
  <2> QED BY <2>2, <1>6, BalancedCases
<1>7. ASSUME NEW j \in (i + 1)..Len(w), w[i] = "quote", w[j] = "quote", j \in Inside(w)[i + 1],
             NEW k \in Balanced(w)[j + 1]
      PROVE  k \in Balanced(w)[i]
  <2>1. j + 1 \in Positions(w) /\ i <= j + 1
    BY <1>1 DEF Positions
  <2>2. k \in i..(Len(w) + 1)
    BY <2>1, <1>4
  <2> QED BY <2>2, <1>7, BalancedCases
<1>8. ASSUME NEW j \in (i + 1)..Len(w), w[i] = "open", w[j] = "close", j \in Balanced(w)[i + 1],
             NEW k \in Balanced(w)[j + 1]
      PROVE  k \in Balanced(w)[i]
  <2>1. j + 1 \in Positions(w) /\ i <= j + 1
    BY <1>1 DEF Positions
  <2>2. k \in i..(Len(w) + 1)
    BY <2>1, <1>4
  <2> QED BY <2>2, <1>8, BalancedCases
<1> QED BY <1>2, <1>5, <1>6, <1>7, <1>8

\* The grammar is deterministic: the first character of a balanced part says
\* by which rule it begins, and no balanced part begins with a closing brace.
LEMMA BalancedForms ==
    ASSUME NEW w \in Seq(Char), NEW i \in Positions(w), NEW k \in Balanced(w)[i], k # i
    PROVE  /\ w[i] # "close"
           /\ w[i] = "quote" =>
                \E j \in (i + 1)..Len(w) : /\ w[j] = "quote" /\ j \in Inside(w)[i + 1]
                                          /\ k \in Balanced(w)[j + 1]
           /\ w[i] = "open" =>
                \E j \in (i + 1)..Len(w) : /\ w[j] = "close" /\ j \in Balanced(w)[i + 1]
                                          /\ k \in Balanced(w)[j + 1]
<1>1. \/ i <= Len(w) /\ w[i] \in {"other", "escape"} /\ k \in Balanced(w)[i + 1]
      \/ \E j \in (i + 1)..Len(w) : /\ w[i] = "quote" /\ w[j] = "quote" /\ j \in Inside(w)[i + 1]
                                     /\ k \in Balanced(w)[j + 1]
      \/ \E j \in (i + 1)..Len(w) : /\ w[i] = "open" /\ w[j] = "close" /\ j \in Balanced(w)[i + 1]
                                     /\ k \in Balanced(w)[j + 1]
  BY BalancedCases
<1>2. CASE i <= Len(w) /\ w[i] \in {"other", "escape"} /\ k \in Balanced(w)[i + 1]
  BY <1>2
<1>3. CASE \E j \in (i + 1)..Len(w) : /\ w[i] = "quote" /\ w[j] = "quote" /\ j \in Inside(w)[i + 1]
                                      /\ k \in Balanced(w)[j + 1]
  <2>1. w[i] = "quote"
    BY <1>3
  <2>2. w[i] # "close" /\ w[i] # "open"
    BY <2>1
  <2> QED BY <1>3, <2>2, Zenon
<1>4. CASE \E j \in (i + 1)..Len(w) : /\ w[i] = "open" /\ w[j] = "close" /\ j \in Balanced(w)[i + 1]
                                      /\ k \in Balanced(w)[j + 1]
  <2>1. w[i] = "open"
    BY <1>4
  <2>2. w[i] # "close" /\ w[i] # "quote"
    BY <2>1
  <2> QED BY <1>4, <2>2, Zenon
<1> QED BY <1>1, <1>2, <1>3, <1>4, Zenon

\* Two balanced parts next to one another are one.
LEMMA BalancedJoin ==
    ASSUME NEW w \in Seq(Char), NEW a \in Positions(w),
           NEW q \in Balanced(w)[a], NEW k \in Balanced(w)[q]
    PROVE  k \in Balanced(w)[a]
<1> DEFINE n == Len(w) + 1
           Join(i) == \A x \in Balanced(w)[i] : \A y \in Balanced(w)[x] : y \in Balanced(w)[i]
           H == {i \in 1..n : Join(i)}
<1>0. n \in Nat /\ Positions(w) = 1..n
  BY DEF Positions
<1>1. ASSUME NEW i \in 1..n, \A j \in 1..n : j > i => j \in H
      PROVE  i \in H
  <2> SUFFICES ASSUME NEW x \in Balanced(w)[i], NEW y \in Balanced(w)[x]
               PROVE  y \in Balanced(w)[i]
    OBVIOUS
  <2>1. CASE x = i
    BY <2>1
  <2>2. CASE i <= Len(w) /\ w[i] \in {"other", "escape"} /\ x \in Balanced(w)[i + 1]
    <3>1. Join(i + 1)
      BY <2>2, <1>1
    <3>2. y \in Balanced(w)[i + 1]
      BY <3>1, <2>2
    <3> QED BY <3>2, <2>2, <1>0, BalancedRules
  <2>3. CASE \E j \in (i + 1)..Len(w) :
               /\ w[i] = "quote" /\ w[j] = "quote" /\ j \in Inside(w)[i + 1]
               /\ x \in Balanced(w)[j + 1]
    <3>1. PICK j \in (i + 1)..Len(w) :
               /\ w[i] = "quote" /\ w[j] = "quote" /\ j \in Inside(w)[i + 1]
               /\ x \in Balanced(w)[j + 1]
      BY <2>3
    <3>2. Join(j + 1)
      BY <1>1, <1>0
    <3>3. y \in Balanced(w)[j + 1]
      BY <3>1, <3>2
    <3> QED BY <3>1, <3>3, <1>0, BalancedRules
  <2>4. CASE \E j \in (i + 1)..Len(w) :
               /\ w[i] = "open" /\ w[j] = "close" /\ j \in Balanced(w)[i + 1]
               /\ x \in Balanced(w)[j + 1]
    <3>1. PICK j \in (i + 1)..Len(w) :
               /\ w[i] = "open" /\ w[j] = "close" /\ j \in Balanced(w)[i + 1]
               /\ x \in Balanced(w)[j + 1]
      BY <2>4
    <3>2. Join(j + 1)
      BY <1>1, <1>0
    <3>3. y \in Balanced(w)[j + 1]
      BY <3>1, <3>2
    <3> QED BY <3>1, <3>3, <1>0, BalancedRules
  <2>5. i \in Positions(w)
    BY <1>0
  <2> HIDE DEF n, H, Join
  <2>6. \/ x = i
        \/ i <= Len(w) /\ w[i] \in {"other", "escape"} /\ x \in Balanced(w)[i + 1]
        \/ \E j \in (i + 1)..Len(w) : /\ w[i] = "quote" /\ w[j] = "quote" /\ j \in Inside(w)[i + 1]
                                       /\ x \in Balanced(w)[j + 1]
        \/ \E j \in (i + 1)..Len(w) : /\ w[i] = "open" /\ w[j] = "close" /\ j \in Balanced(w)[i + 1]
                                       /\ x \in Balanced(w)[j + 1]
    BY <2>5, BalancedCases
  <2> QED BY <2>1, <2>2, <2>3, <2>4, <2>6
<1>2. \A i \in 1..n : i \in H
  <2> HIDE DEF n, H
  <2> QED BY <1>0, <1>1, FromTheEndInduction
<1> QED BY <1>2, <1>0

\* The rest of a balanced part is balanced: what begins at the same position
\* and ends later consists of what ended earlier and a balanced part.
LEMMA BalancedRest ==
    ASSUME NEW w \in Seq(Char), NEW a \in Positions(w),
           NEW q \in Balanced(w)[a], NEW k \in Balanced(w)[a], q <= k
    PROVE  k \in Balanced(w)[q]
<1> DEFINE n == Len(w) + 1
           Rest(i) == \A x, y \in Balanced(w)[i] : x <= y => y \in Balanced(w)[x]
           H == {i \in 1..n : Rest(i)}
<1>0. n \in Nat /\ Positions(w) = 1..n
  BY DEF Positions
<1>1. ASSUME NEW i \in 1..n, \A j \in 1..n : j > i => j \in H
      PROVE  i \in H
  <2> SUFFICES ASSUME NEW x \in Balanced(w)[i], NEW y \in Balanced(w)[i], x <= y, x # i
               PROVE  y \in Balanced(w)[x]
    OBVIOUS
  <2>1. x \in 1..n /\ i <= x /\ y \in 1..n /\ i <= y
    BY <1>0, BalancedRules
  <2>2. y # i
    BY <2>1, <1>0
  <2>3. CASE i <= Len(w) /\ w[i] \in {"other", "escape"} /\ x \in Balanced(w)[i + 1]
    <3>1. Rest(i + 1)
      BY <2>3, <1>1
    <3>2. y \in Balanced(w)[i + 1]
      BY <2>1, <2>2, <2>3, <1>0, BalancedCases
    <3> QED BY <3>1, <3>2, <2>3
  <2>4. CASE w[i] = "quote"
    <3>1. PICK j \in (i + 1)..Len(w) : /\ w[j] = "quote" /\ j \in Inside(w)[i + 1]
                                       /\ x \in Balanced(w)[j + 1]
      BY <2>4, <1>0, BalancedForms
    <3>2. PICK l \in (i + 1)..Len(w) : /\ w[l] = "quote" /\ l \in Inside(w)[i + 1]
                                       /\ y \in Balanced(w)[l + 1]
      BY <2>2, <2>4, <1>0, BalancedForms
    <3>3. i + 1 \in Positions(w)
      BY <1>0
    <3>4. ~(j < l) /\ ~(l < j)
      BY <3>1, <3>2, <3>3, StringEndsOnce
    <3>5. j = l
      BY <3>4, <1>0
    <3>6. Rest(j + 1)
      BY <1>1, <1>0
    <3> QED BY <3>1, <3>2, <3>5, <3>6
  <2>5. CASE w[i] = "open"
    <3>1. PICK j \in (i + 1)..Len(w) : /\ w[j] = "close" /\ j \in Balanced(w)[i + 1]
                                       /\ x \in Balanced(w)[j + 1]
      BY <2>5, <1>0, BalancedForms
    <3>2. PICK l \in (i + 1)..Len(w) : /\ w[l] = "close" /\ l \in Balanced(w)[i + 1]
                                       /\ y \in Balanced(w)[l + 1]
      BY <2>2, <2>5, <1>0, BalancedForms
    <3>3. Rest(i + 1)
      BY <1>1, <1>0
    <3>4. j <= l => l \in Balanced(w)[j]
      BY <3>1, <3>2, <3>3
    <3>5. l <= j => j \in Balanced(w)[l]
      BY <3>1, <3>2, <3>3
    <3>6. j \in Positions(w) /\ l \in Positions(w)
      BY <1>0
    <3>7. ~(j <= l /\ j # l) /\ ~(l <= j /\ j # l)
      BY <3>1, <3>2, <3>4, <3>5, <3>6, BalancedForms
    <3>8. j = l
      BY <3>7, <1>0
    <3>9. Rest(j + 1)
      BY <1>1, <1>0
    <3> QED BY <3>1, <3>2, <3>8, <3>9
  <2>6. i \in Positions(w) /\ x # i
    BY <1>0
  <2> HIDE DEF n, H, Rest
  <2>7. \/ i <= Len(w) /\ w[i] \in {"other", "escape"} /\ x \in Balanced(w)[i + 1]
        \/ w[i] = "quote"
        \/ w[i] = "open"
    BY <2>6, BalancedCases
  <2> QED BY <2>3, <2>4, <2>5, <2>7
<1>2. \A i \in 1..n : i \in H
  <2> HIDE DEF n, H
  <2> QED BY <1>0, <1>1, FromTheEndInduction
<1> QED BY <1>2, <1>0

-----------------------------------------------------------------------------
(* What the grammar says of a text that was cut off.                       *)

\* A beginning of a text is a text, with the same characters.
LEMMA PrefixFacts ==
    ASSUME NEW w \in Seq(Char), NEW n \in 0..Len(w)
    PROVE  /\ SubSeq(w, 1, n) \in Seq(Char)
           /\ Len(SubSeq(w, 1, n)) = n
           /\ \A i \in 1..n : SubSeq(w, 1, n)[i] = w[i]
<1>1. n \in Nat /\ n <= Len(w)
  OBVIOUS
<1> QED BY <1>1

\* What is the inside of a string in a beginning of a text is so in the text.
LEMMA PrefixInside ==
    ASSUME NEW w \in Seq(Char), NEW n \in 0..Len(w), NEW a \in 1..(n + 1),
           NEW k \in Inside(SubSeq(w, 1, n))[a]
    PROVE  k \in Inside(w)[a]
<1> DEFINE v == SubSeq(w, 1, n)
           Kept(i) == \A x \in Inside(v)[i] : x \in Inside(w)[i]
           H == {i \in 1..(n + 1) : Kept(i)}
<1>0. /\ n \in Nat /\ n + 1 \in Nat /\ n <= Len(w)
      /\ v \in Seq(Char) /\ Len(v) = n /\ \A i \in 1..n : v[i] = w[i]
      /\ Positions(v) = 1..(n + 1)
      /\ \A i \in 1..(n + 1) : i \in Positions(w)
  BY PrefixFacts DEF Positions
<1> HIDE DEF v
<1>1. ASSUME NEW i \in 1..(n + 1), \A j \in 1..(n + 1) : j > i => j \in H
      PROVE  i \in H
  <2> SUFFICES ASSUME NEW x \in Inside(v)[i] PROVE x \in Inside(w)[i]
    OBVIOUS
  <2>1. CASE x = i
    BY <2>1, <1>0, InsideRules
  <2>2. CASE i <= n /\ v[i] \notin {"quote", "escape"} /\ x \in Inside(v)[i + 1]
    <3>1. x \in Inside(w)[i + 1] /\ w[i] \notin {"quote", "escape"}
      BY <2>2, <1>0, <1>1
    <3> QED BY <3>1, <2>2, <1>0, InsideRules
  <2>3. CASE i < n /\ v[i] = "escape" /\ x \in Inside(v)[i + 2]
    <3>1. x \in Inside(w)[i + 2] /\ w[i] = "escape"
      BY <2>3, <1>0, <1>1
    <3> QED BY <3>1, <2>3, <1>0, InsideRules
  <2>4. \/ x = i
        \/ i <= Len(v) /\ v[i] \notin {"quote", "escape"} /\ x \in Inside(v)[i + 1]
        \/ i <  Len(v) /\ v[i] = "escape" /\ x \in Inside(v)[i + 2]
    BY <1>0, InsideCases
  <2> QED BY <2>1, <2>2, <2>3, <2>4, <1>0
<1>2. \A i \in 1..(n + 1) : i \in H
  <2> HIDE DEF H
  <2> QED BY <1>0, <1>1, FromTheEndInduction
<1> QED BY <1>2 DEF v

\* What is balanced in a beginning of a text is balanced in the text.
LEMMA PrefixBalanced ==
    ASSUME NEW w \in Seq(Char), NEW n \in 0..Len(w), NEW a \in 1..(n + 1),
           NEW k \in Balanced(SubSeq(w, 1, n))[a]
    PROVE  k \in Balanced(w)[a]
<1> DEFINE v == SubSeq(w, 1, n)
           Kept(i) == \A x \in Balanced(v)[i] : x \in Balanced(w)[i]
           H == {i \in 1..(n + 1) : Kept(i)}
<1>0. /\ n \in Nat /\ n + 1 \in Nat /\ n <= Len(w)
      /\ v \in Seq(Char) /\ Len(v) = n /\ \A i \in 1..n : v[i] = w[i]
      /\ Positions(v) = 1..(n + 1)
      /\ \A i \in 1..(n + 1) : i \in Positions(w)
      /\ \A i \in 1..(n + 1) : \A x \in Inside(v)[i] : x \in Inside(w)[i]
  BY PrefixFacts, PrefixInside DEF Positions
<1> HIDE DEF v
<1>1. ASSUME NEW i \in 1..(n + 1), \A j \in 1..(n + 1) : j > i => j \in H
      PROVE  i \in H
  <2> SUFFICES ASSUME NEW x \in Balanced(v)[i] PROVE x \in Balanced(w)[i]
    OBVIOUS
  <2>1. CASE x = i
    BY <2>1, <1>0, BalancedRules
  <2>2. CASE i <= n /\ v[i] \in {"other", "escape"} /\ x \in Balanced(v)[i + 1]
    <3>1. x \in Balanced(w)[i + 1] /\ w[i] \in {"other", "escape"}
      BY <2>2, <1>0, <1>1
    <3>2. i \in Positions(w) /\ i <= Len(w)
      BY <2>2, <1>0
    <3> QED BY <3>1, <3>2, BalancedRules
  <2>3. CASE \E j \in (i + 1)..n : /\ v[i] = "quote" /\ v[j] = "quote" /\ j \in Inside(v)[i + 1]
                                   /\ x \in Balanced(v)[j + 1]
    <3>1. PICK j \in (i + 1)..n : /\ v[i] = "quote" /\ v[j] = "quote" /\ j \in Inside(v)[i + 1]
                                  /\ x \in Balanced(v)[j + 1]
      BY <2>3
    <3>2. w[i] = "quote" /\ w[j] = "quote" /\ j \in Inside(w)[i + 1]
      BY <3>1, <1>0
    <3>3. x \in Balanced(w)[j + 1]
      BY <3>1, <1>0, <1>1
    <3>4. j \in (i + 1)..Len(w)
      BY <1>0
    <3> QED BY <3>2, <3>3, <3>4, <1>0, BalancedRules
  <2>4. CASE \E j \in (i + 1)..n : /\ v[i] = "open" /\ v[j] = "close" /\ j \in Balanced(v)[i + 1]
                                   /\ x \in Balanced(v)[j + 1]
    <3>1. PICK j \in (i + 1)..n : /\ v[i] = "open" /\ v[j] = "close" /\ j \in Balanced(v)[i + 1]
                                  /\ x \in Balanced(v)[j + 1]
      BY <2>4
    <3>2. w[i] = "open" /\ w[j] = "close" /\ j \in Balanced(w)[i + 1]
      BY <3>1, <1>0, <1>1
    <3>3. x \in Balanced(w)[j + 1]
      BY <3>1, <1>0, <1>1
    <3>4. j \in (i + 1)..Len(w)
      BY <1>0
    <3> QED BY <3>2, <3>3, <3>4, <1>0, BalancedRules
  <2>0. v \in Seq(Char) /\ i \in Positions(v)
    BY <1>0
  <2>5. \/ x = i
        \/ i <= Len(v) /\ v[i] \in {"other", "escape"} /\ x \in Balanced(v)[i + 1]
        \/ \E j \in (i + 1)..Len(v) : /\ v[i] = "quote" /\ v[j] = "quote" /\ j \in Inside(v)[i + 1]
                                       /\ x \in Balanced(v)[j + 1]
        \/ \E j \in (i + 1)..Len(v) : /\ v[i] = "open" /\ v[j] = "close" /\ j \in Balanced(v)[i + 1]
                                       /\ x \in Balanced(v)[j + 1]
    BY <2>0, BalancedCases
  <2>6. Len(v) = n
    BY <1>0
  <2> HIDE DEF H, Kept
  <2> QED BY <2>1, <2>2, <2>3, <2>4, <2>5, <2>6
<1>2. \A i \in 1..(n + 1) : i \in H
  <2> HIDE DEF H
  <2> QED BY <1>0, <1>1, FromTheEndInduction
<1> QED BY <1>2 DEF v

\* An object that a beginning of a text holds ends at the same place in the text.
LEMMA PrefixEnds ==
    ASSUME NEW w \in Seq(Char), NEW n \in 0..Len(w), NEW i \in 1..n,
           NEW k \in Ends(SubSeq(w, 1, n), i)
    PROVE  k \in Ends(w, i) /\ k <= n
<1> DEFINE v == SubSeq(w, 1, n)
<1>1. n \in Nat /\ n <= Len(w) /\ Len(v) = n /\ \A j \in 1..n : v[j] = w[j]
  BY PrefixFacts
<1>2. k \in (i + 1)..n /\ v[i] = "open" /\ v[k] = "close" /\ k \in Balanced(v)[i + 1]
  BY <1>1 DEF Ends
<1>3. k \in Balanced(w)[i + 1]
  BY <1>2, PrefixBalanced
<1>4. k \in (i + 1)..Len(w) /\ w[i] = "open" /\ w[k] = "close"
  BY <1>1, <1>2
<1> QED BY <1>2, <1>3, <1>4 DEF Ends

-----------------------------------------------------------------------------
(* The braces around a position.                                           *)

\* p[1], ..., p[n], at s or after it, are open braces around position q of w,
\* and none of them is closed before position i.
Nested(w, s, p, n, q, i) ==
    /\ n \in Nat /\ n > 0
    /\ s \in Nat /\ s > 0
    /\ i \in Positions(w)
    /\ p \in [1..n -> s..(i - 1)]
    /\ q \in (s + 1)..i
    /\ \A m \in 1..n : w[p[m]] = "open" /\ \A k \in Ends(w, p[m]) : k >= i
    /\ Around(w, p, n, q)

\* Only the innermost brace may be closed at i.
LEMMA InnermostCloses ==
    ASSUME NEW w \in Seq(Char), NEW s, NEW p, NEW n, NEW q, NEW i,
           Nested(w, s, p, n, q, i), NEW m \in 1..n, i \in Ends(w, p[m])
    PROVE  m = n /\ i \in Balanced(w)[q]
<1>1. /\ n \in Nat /\ s \in Nat /\ i \in Nat /\ i \in Positions(w)
      /\ \A l \in 1..n : /\ p[l] \in Nat /\ p[l] < i
                         /\ p[l] \in Positions(w) /\ p[l] + 1 \in Positions(w)
      /\ q <= i /\ q \in Positions(w)
  <2>1. /\ n \in Nat /\ s \in Nat /\ s > 0 /\ i \in 1..(Len(w) + 1) /\ Len(w) \in Nat
        /\ q \in (s + 1)..i
    BY DEF Nested, Positions
  <2>2. ASSUME NEW l \in 1..n PROVE p[l] \in s..(i - 1)
    BY DEF Nested
  <2> QED BY <2>1, <2>2 DEF Positions
<1>2. i \in Balanced(w)[p[m] + 1]
  BY DEF Ends
<1>3. ASSUME m < n PROVE FALSE
  <2>1. m \in 1..(n - 1) /\ m + 1 \in 1..n
    BY <1>1, <1>3
  <2>2. p[m + 1] \in Balanced(w)[p[m] + 1]
    BY <2>1 DEF Nested, Around
  <2>3. /\ p[m + 1] \in Positions(w) /\ p[m] + 1 \in Positions(w)
        /\ p[m + 1] \in Nat /\ p[m + 1] <= i /\ i # p[m + 1]
    BY <2>1, <1>1
  <2>4. i \in Balanced(w)[p[m + 1]]
    BY <2>2, <2>3, <1>2, BalancedRest
  <2>5. w[p[m + 1]] = "open" /\ \A k \in Ends(w, p[m + 1]) : k >= i
    BY <2>1 DEF Nested
  <2>6. PICK j \in (p[m + 1] + 1)..Len(w) :
            /\ w[j] = "close" /\ j \in Balanced(w)[p[m + 1] + 1] /\ i \in Balanced(w)[j + 1]
    BY <2>3, <2>4, <2>5, BalancedForms
  <2>7. j \in Ends(w, p[m + 1])
    BY <2>5, <2>6 DEF Ends
  <2>8. j + 1 \in Positions(w) /\ j \in Nat
    BY <2>3 DEF Positions
  <2>9. j + 1 <= i
    BY <2>6, <2>8, BalancedRules
  <2> QED BY <2>5, <2>7, <2>8, <2>9, <1>1 DEF Positions
<1>4. m = n
  BY <1>1, <1>3
<1>5. q \in Balanced(w)[p[n] + 1]
  BY DEF Nested, Around
<1>6. i \in Balanced(w)[q]
  BY <1>1, <1>2, <1>4, <1>5, BalancedRest
<1> QED BY <1>4, <1>6

\* Outside strings a character that is not a closing brace closes nothing.
LEMMA StaysOpen ==
    ASSUME NEW w \in Seq(Char), NEW s, NEW p, NEW n, NEW q, NEW i,
           Nested(w, s, p, n, q, i), i <= Len(w),
           \A m \in 1..n : i \notin Ends(w, p[m])
    PROVE  /\ p \in [1..n -> s..i]
           /\ i + 1 \in Positions(w)
           /\ \A m \in 1..n : w[p[m]] = "open" /\ \A k \in Ends(w, p[m]) : k >= i + 1
<1>1. i \in 1..Len(w) /\ i \in Nat /\ s \in Nat
  BY DEF Nested, Positions
<1>2. p \in [1..n -> s..i] /\ i + 1 \in Positions(w)
  BY <1>1 DEF Nested, Positions
<1>3. ASSUME NEW m \in 1..n, NEW k \in Ends(w, p[m]) PROVE k >= i + 1
  <2>1. k >= i /\ k # i
    BY <1>3 DEF Nested
  <2>2. k \in (p[m] + 1)..Len(w) /\ p[m] \in Nat
    BY <1>1, <1>2 DEF Ends
  <2> QED BY <2>1, <2>2, <1>1
<1> QED BY <1>2, <1>3 DEF Nested

\* Reading a character outside strings, from position i to i + 1.  One that is
\* neither a brace nor a quote changes nothing around it.
LEMMA ReadOrdinary ==
    ASSUME NEW w \in Seq(Char), NEW s, NEW p, NEW n, NEW i,
           Nested(w, s, p, n, i, i), i <= Len(w), w[i] \in {"other", "escape"}
    PROVE  Nested(w, s, p, n, i + 1, i + 1)
<1>1. \A m \in 1..n : i \notin Ends(w, p[m])
  BY DEF Ends
<1>2. /\ p \in [1..n -> s..i]
      /\ i + 1 \in Positions(w)
      /\ \A m \in 1..n : w[p[m]] = "open" /\ \A k \in Ends(w, p[m]) : k >= i + 1
  BY <1>1, StaysOpen
<1>3. /\ n \in Nat /\ n > 0 /\ s \in Nat /\ s > 0 /\ i \in Nat /\ s + 1 <= i
      /\ i \in Positions(w) /\ p[n] + 1 \in Positions(w)
  BY DEF Nested, Positions
<1>4. i + 1 \in Balanced(w)[i]
  <2>1. i + 1 \in Balanced(w)[i + 1]
    BY <1>2, BalancedRules
  <2> QED BY <2>1, <1>3, BalancedRules
<1>5. Around(w, p, n, i + 1)
  <2>1. i + 1 \in Balanced(w)[p[n] + 1]
    BY <1>3, <1>4, BalancedJoin DEF Nested, Around
  <2> QED BY <2>1 DEF Nested, Around
<1> QED BY <1>2, <1>3, <1>5 DEF Nested

\* An opening brace is one more around what follows.
LEMMA ReadOpen ==
    ASSUME NEW w \in Seq(Char), NEW s, NEW p, NEW n, NEW i,
           Nested(w, s, p, n, i, i), i <= Len(w), w[i] = "open"
    PROVE  Nested(w, s, [m \in 1..(n + 1) |-> IF m = n + 1 THEN i ELSE p[m]], n + 1, i + 1, i + 1)
<1> DEFINE r == [m \in 1..(n + 1) |-> IF m = n + 1 THEN i ELSE p[m]]
<1>1. \A m \in 1..n : i \notin Ends(w, p[m])
  BY DEF Ends
<1>2. /\ p \in [1..n -> s..i]
      /\ i + 1 \in Positions(w)
      /\ \A m \in 1..n : w[p[m]] = "open" /\ \A k \in Ends(w, p[m]) : k >= i + 1
  BY <1>1, StaysOpen
<1>3. /\ n \in Nat /\ n > 0 /\ s \in Nat /\ s > 0 /\ i \in Nat /\ s + 1 <= i
      /\ i \in Positions(w)
  BY DEF Nested, Positions
<1>4. \A k \in Ends(w, i) : k >= i + 1
  BY <1>3 DEF Ends
<1>5. /\ r \in [1..(n + 1) -> s..i]
      /\ r[n + 1] = i
      /\ \A m \in 1..n : r[m] = p[m]
      /\ \A m \in 1..(n + 1) : m = n + 1 \/ m \in 1..n
  BY <1>2, <1>3
<1>6. Around(w, r, n + 1, i + 1)
  <2>1. \A m \in 1..(n - 1) : r[m + 1] \in Balanced(w)[r[m] + 1]
    <3> SUFFICES ASSUME NEW m \in 1..(n - 1) PROVE r[m + 1] \in Balanced(w)[r[m] + 1]
      OBVIOUS
    <3>1. m \in 1..n /\ m + 1 \in 1..n
      BY <1>3
    <3>2. p[m + 1] \in Balanced(w)[p[m] + 1]
      BY DEF Nested, Around
    <3> HIDE DEF r
    <3> QED BY <3>1, <3>2, <1>5
  <2>2. r[n + 1] \in Balanced(w)[r[n] + 1]
    <3>1. n \in 1..n
      BY <1>3
    <3> HIDE DEF r
    <3> QED BY <3>1, <1>5 DEF Nested, Around
  <2>3. i + 1 \in Balanced(w)[i + 1]
    BY <1>2, BalancedRules
  <2>4. \A m \in 1..((n + 1) - 1) : m = n \/ m \in 1..(n - 1)
    BY <1>3
  <2> HIDE DEF r
  <2> QED BY <2>1, <2>2, <2>3, <2>4, <1>5 DEF Around
<1>7. \A m \in 1..(n + 1) : w[r[m]] = "open" /\ \A k \in Ends(w, r[m]) : k >= i + 1
  <2> HIDE DEF r
  <2> QED BY <1>2, <1>4, <1>5
<1> HIDE DEF r
<1>8. (i + 1) - 1 = i /\ n + 1 \in Nat /\ n + 1 > 0 /\ i + 1 \in (s + 1)..(i + 1)
  BY <1>3
<1>9. Nested(w, s, r, n + 1, i + 1, i + 1)
  BY <1>2, <1>3, <1>5, <1>6, <1>7, <1>8 DEF Nested
<1> QED BY <1>9 DEF r

\* A closing brace ends the innermost object: one brace less is around what
\* follows, or the outermost one is closed.
LEMMA ReadClose ==
    ASSUME NEW w \in Seq(Char), NEW s, NEW p, NEW n, NEW i,
           Nested(w, s, p, n, i, i), i <= Len(w), w[i] = "close"
    PROVE  /\ i \in Ends(w, p[n])
           /\ n > 1 => Nested(w, s, [m \in 1..(n - 1) |-> p[m]], n - 1, i + 1, i + 1)
<1>1. /\ n \in Nat /\ n > 0 /\ s \in Nat /\ s > 0 /\ i \in Nat /\ s + 1 <= i /\ i + 1 \in Positions(w)
      /\ i \in Positions(w) /\ i \in 1..Len(w)
      /\ \A m \in 1..n : p[m] \in s..(i - 1) /\ p[m] \in Positions(w) /\ p[m] + 1 \in Positions(w)
      /\ n \in 1..n
  BY DEF Nested, Positions
<1>2. i \in Ends(w, p[n])
  <2>1. i \in (p[n] + 1)..Len(w)
    BY <1>1
  <2>2. i \in Balanced(w)[p[n] + 1] /\ w[p[n]] = "open"
    BY <1>1 DEF Nested, Around
  <2> QED BY <2>1, <2>2 DEF Ends
<1>3. ASSUME n > 1 PROVE Nested(w, s, [m \in 1..(n - 1) |-> p[m]], n - 1, i + 1, i + 1)
  <2> DEFINE r == [m \in 1..(n - 1) |-> p[m]]
  <2>1. /\ n - 1 \in Nat /\ n - 1 > 0 /\ n - 1 \in 1..n /\ n - 1 \in 1..(n - 1)
        /\ r \in [1..(n - 1) -> s..i] /\ (i + 1) - 1 = i /\ i + 1 \in (s + 1)..(i + 1)
        /\ \A m \in 1..(n - 1) : r[m] = p[m] /\ m \in 1..n /\ m # n
    BY <1>1, <1>3
  <2>2. ASSUME NEW m \in 1..(n - 1)
        PROVE  w[r[m]] = "open" /\ \A k \in Ends(w, r[m]) : k >= i + 1
    <3>1. i \notin Ends(w, p[m])
      BY <2>1, InnermostCloses
    <3>2. w[p[m]] = "open" /\ \A k \in Ends(w, p[m]) : k >= i
      BY <2>1 DEF Nested
    <3>3. \A k \in Ends(w, p[m]) : k \in Nat
      BY <2>1, <1>1 DEF Ends
    <3>4. r[m] = p[m]
      BY <2>1
    <3> HIDE DEF r
    <3> QED BY <3>1, <3>2, <3>3, <3>4, <1>1
  <2>3. i + 1 \in Balanced(w)[p[n]]
    <3>1. i + 1 \in Balanced(w)[i + 1]
      BY <1>1, BalancedRules
    <3>2. i \in (p[n] + 1)..Len(w) /\ w[p[n]] = "open" /\ i \in Balanced(w)[p[n] + 1]
      BY <1>2 DEF Ends
    <3>3. p[n] \in Positions(w)
      BY <1>1
    <3> QED BY <3>1, <3>2, <3>3, BalancedRules
  <2>4. p[n] \in Balanced(w)[p[n - 1] + 1]
    <3>1. (n - 1) + 1 = n
      BY <1>1
    <3> QED BY <3>1, <2>1 DEF Nested, Around
  <2>5. i + 1 \in Balanced(w)[p[n - 1] + 1]
    BY <2>1, <2>3, <2>4, <1>1, BalancedJoin
  <2>6. Around(w, r, n - 1, i + 1)
    <3>1. ASSUME NEW m \in 1..((n - 1) - 1) PROVE r[m + 1] \in Balanced(w)[r[m] + 1]
      <4>1. m \in 1..(n - 1) /\ m + 1 \in 1..(n - 1)
        BY <1>1
      <4>2. p[m + 1] \in Balanced(w)[p[m] + 1]
        BY <4>1 DEF Nested, Around
      <4> QED BY <4>1, <4>2, <2>1
    <3>2. r[n - 1] = p[n - 1]
      BY <2>1
    <3> HIDE DEF r
    <3> QED BY <3>1, <3>2, <2>5 DEF Around
  <2> HIDE DEF r
  <2>7. Nested(w, s, r, n - 1, i + 1, i + 1)
    BY <2>1, <2>2, <2>6, <1>1 DEF Nested
  <2> QED BY <2>7 DEF r
<1> QED BY <1>2, <1>3

\* The first brace has nothing around it and is around what follows.
LEMMA ReadFirst ==
    ASSUME NEW w \in Seq(Char), NEW s \in 1..Len(w), w[s] = "open"
    PROVE  Nested(w, s, [m \in 1..1 |-> s], 1, s + 1, s + 1)
<1> DEFINE r == [m \in 1..1 |-> s]
<1>1. s \in Nat /\ s > 0 /\ s + 1 \in Positions(w) /\ (s + 1) - 1 = s
  BY DEF Positions
<1>2. r \in [1..1 -> s..s] /\ r[1] = s /\ \A m \in 1..1 : m = 1
  BY <1>1
<1>3. \A k \in Ends(w, s) : k >= s + 1
  BY <1>1 DEF Ends
<1>4. s + 1 \in Balanced(w)[s + 1]
  BY <1>1, BalancedRules
<1>5. Around(w, r, 1, s + 1)
  <2>1. 1..(1 - 1) = {}
    OBVIOUS
  <2> HIDE DEF r
  <2> QED BY <1>2, <1>4, <2>1 DEF Around
<1>6. s + 1 \in (s + 1)..(s + 1) /\ 1 \in Nat /\ 1 > 0
  BY <1>1
<1> HIDE DEF r
<1>7. Nested(w, s, r, 1, s + 1, s + 1)
  BY <1>1, <1>2, <1>3, <1>5, <1>6 DEF Nested
<1> QED BY <1>7 DEF r

\* A quote outside strings begins a string.
LEMMA ReadQuote ==
    ASSUME NEW w \in Seq(Char), NEW s, NEW p, NEW n, NEW i,
           Nested(w, s, p, n, i, i), i <= Len(w), w[i] = "quote"
    PROVE  Nested(w, s, p, n, i, i + 1) /\ InString(w, i, i + 1, FALSE)
<1>1. \A m \in 1..n : i \notin Ends(w, p[m])
  BY DEF Ends
<1>2. /\ p \in [1..n -> s..i]
      /\ i + 1 \in Positions(w)
      /\ \A m \in 1..n : w[p[m]] = "open" /\ \A k \in Ends(w, p[m]) : k >= i + 1
  BY <1>1, StaysOpen
<1>3. /\ n \in Nat /\ n > 0 /\ s \in Nat /\ s > 0 /\ i \in Nat
      /\ i \in (s + 1)..(i + 1) /\ (i + 1) - 1 = i /\ i < i + 1
  BY DEF Nested, Positions
<1>4. Nested(w, s, p, n, i, i + 1)
  BY <1>2, <1>3 DEF Nested
<1>5. i + 1 \in Inside(w)[i + 1]
  BY <1>2, InsideRules
<1>6. InString(w, i, i + 1, FALSE)
  BY <1>3, <1>5 DEF InString
<1> QED BY <1>4, <1>6

\* Nothing is closed inside a string.
LEMMA StringClosesNothing ==
    ASSUME NEW w \in Seq(Char), NEW s, NEW p, NEW n, NEW q, NEW i, NEW escaped \in BOOLEAN,
           Nested(w, s, p, n, q, i), i <= Len(w), InString(w, q, i, escaped)
    PROVE  \A m \in 1..n : i \notin Ends(w, p[m])
<1> SUFFICES ASSUME NEW m \in 1..n, i \in Ends(w, p[m]) PROVE FALSE
  OBVIOUS
<1>1. i \in Balanced(w)[q]
  BY InnermostCloses
<1>2. /\ i \in Nat /\ q \in Nat /\ q \in Positions(w) /\ i # q /\ q + 1 \in Positions(w)
      /\ w[q] = "quote"
  BY DEF Nested, InString, Positions
<1>3. PICK j \in (q + 1)..Len(w) : w[j] = "quote" /\ j \in Inside(w)[q + 1] /\ i \in Balanced(w)[j + 1]
  BY <1>1, <1>2, BalancedForms
<1>4. j \in Nat /\ j + 1 \in Positions(w)
  BY <1>2 DEF Positions
<1>5. j < i
  <2>1. j + 1 <= i
    BY <1>3, <1>4, BalancedRules
  <2> QED BY <2>1, <1>2, <1>4
<1>6. CASE ~escaped
  <2>1. i \in Inside(w)[q + 1]
    BY <1>6 DEF InString
  <2> QED BY <2>1, <1>2, <1>3, <1>5, StringEndsOnce
<1>7. CASE escaped
  <2>1. i - 1 \in Inside(w)[q + 1] /\ w[i - 1] = "escape"
    BY <1>7 DEF InString
  <2>2. j # i - 1
    BY <2>1, <1>3
  <2>3. j < i - 1
    BY <2>2, <1>2, <1>4, <1>5
  <2> QED BY <2>1, <2>3, <1>2, <1>3, StringEndsOnce
<1> QED BY <1>6, <1>7

\* Reading a character inside a string: an escaped one or an ordinary one
\* belongs to it, a backslash escapes the next, a quote ends it.
LEMMA ReadString ==
    ASSUME NEW w \in Seq(Char), NEW s, NEW p, NEW n, NEW q, NEW i, NEW escaped \in BOOLEAN,
           Nested(w, s, p, n, q, i), i <= Len(w), InString(w, q, i, escaped)
    PROVE  /\ escaped \/ w[i] \notin {"quote", "escape"} =>
                Nested(w, s, p, n, q, i + 1) /\ InString(w, q, i + 1, FALSE)
           /\ ~escaped /\ w[i] = "escape" =>
                Nested(w, s, p, n, q, i + 1) /\ InString(w, q, i + 1, TRUE)
           /\ ~escaped /\ w[i] = "quote" => Nested(w, s, p, n, i + 1, i + 1)
<1>1. /\ p \in [1..n -> s..i]
      /\ i + 1 \in Positions(w)
      /\ \A m \in 1..n : w[p[m]] = "open" /\ \A k \in Ends(w, p[m]) : k >= i + 1
  BY StringClosesNothing, StaysOpen
<1>2. /\ n \in Nat /\ n > 0 /\ s \in Nat /\ s > 0 /\ i \in Nat /\ q \in Nat /\ s + 1 <= q
      /\ q \in (s + 1)..(i + 1) /\ i + 1 \in (s + 1)..(i + 1) /\ (i + 1) - 1 = i
      /\ q < i /\ q < i + 1 /\ w[q] = "quote"
      /\ q \in Positions(w) /\ q + 1 \in Positions(w) /\ p[n] + 1 \in Positions(w)
  BY DEF Nested, InString, Positions
<1>3. Nested(w, s, p, n, q, i + 1)
  BY <1>1, <1>2 DEF Nested
<1>4. ASSUME escaped PROVE InString(w, q, i + 1, FALSE)
  <2>1. i - 1 \in Inside(w)[q + 1] /\ w[i - 1] = "escape"
    BY <1>4 DEF InString
  <2>2. i - 1 < Len(w) /\ (i - 1) + 2 = i + 1
    BY <1>2
  <2>3. i + 1 \in Inside(w)[q + 1]
    BY <2>1, <2>2, <1>2, InsideGoesOn
  <2> QED BY <2>3, <1>2 DEF InString
<1>5. ASSUME ~escaped, w[i] \notin {"quote", "escape"} PROVE InString(w, q, i + 1, FALSE)
  <2>1. i \in Inside(w)[q + 1]
    BY <1>5 DEF InString
  <2>2. i + 1 \in Inside(w)[q + 1]
    BY <2>1, <1>2, <1>5, InsideGoesOn
  <2> QED BY <2>2, <1>2 DEF InString
<1>6. ASSUME ~escaped, w[i] = "escape" PROVE InString(w, q, i + 1, TRUE)
  <2>1. i \in Inside(w)[q + 1]
    BY <1>6 DEF InString
  <2> QED BY <2>1, <1>2, <1>6 DEF InString
<1>7. ASSUME ~escaped, w[i] = "quote" PROVE Nested(w, s, p, n, i + 1, i + 1)
  <2>1. i \in Inside(w)[q + 1] /\ i \in (q + 1)..Len(w)
    BY <1>2, <1>7 DEF InString
  <2>2. i + 1 \in Balanced(w)[i + 1]
    BY <1>1, BalancedRules
  <2>3. i + 1 \in Balanced(w)[q]
    BY <2>1, <2>2, <1>2, <1>7, BalancedRules
  <2>4. i + 1 \in Balanced(w)[p[n] + 1]
    BY <2>3, <1>2, BalancedJoin DEF Nested, Around
  <2>5. Around(w, p, n, i + 1)
    BY <2>4 DEF Nested, Around
  <2> QED BY <2>5, <1>1, <1>2 DEF Nested
<1> QED BY <1>3, <1>4, <1>5, <1>6, <1>7

-----------------------------------------------------------------------------
(* The scanner.                                                            *)

\* Position i of w is inside depth braces that are open from s on, and inside a
\* string exactly if the flags say so.
OpenAt(w, s, d, i, string, escaped) ==
    \E p, q : /\ Nested(w, s, p, d, q, i)
              /\ p[1] = s
              /\ IF string THEN InString(w, q, i, escaped) ELSE q = i

\* PrefixIsOpen, for any text, position, depth and flags.
OpenPrefix(w, s, d, i, string, escaped) ==
    /\ d > 0
    /\ \E p \in [1..d -> {j \in s..(i - 1) : w[j] = "open" /\ \A k \in Ends(w, j) : k >= i}],
          q \in (s + 1)..i :
         /\ p[1] = s
         /\ IF string THEN InString(w, q, i, escaped) ELSE q = i
         /\ Around(w, p, d, q)

\* The two say the same.
LEMMA OpenAtIsPrefixIsOpen ==
    ASSUME NEW w \in Seq(Char), NEW s \in 1..Len(w), NEW d \in Nat, NEW i \in Positions(w),
           NEW string \in BOOLEAN, NEW escaped \in BOOLEAN
    PROVE  OpenAt(w, s, d, i, string, escaped) <=> OpenPrefix(w, s, d, i, string, escaped)
<1> DEFINE Braces == {j \in s..(i - 1) : w[j] = "open" /\ \A k \in Ends(w, j) : k >= i}
<1>1. s \in Nat /\ s > 0
  OBVIOUS
<1>2. ASSUME NEW p, NEW q, Nested(w, s, p, d, q, i)
      PROVE  p \in [1..d -> Braces] /\ q \in (s + 1)..i /\ d > 0 /\ Around(w, p, d, q)
  <2>1. p \in [1..d -> s..(i - 1)] /\ \A m \in 1..d : p[m] \in Braces
    BY <1>2 DEF Nested
  <2> HIDE DEF Braces
  <2> QED BY <2>1, <1>2 DEF Nested
<1>3. ASSUME NEW p \in [1..d -> Braces], NEW q \in (s + 1)..i, d > 0, Around(w, p, d, q)
      PROVE  Nested(w, s, p, d, q, i)
  <2>1. \A m \in 1..d : p[m] \in Braces
    OBVIOUS
  <2>2. \A m \in 1..d : p[m] \in s..(i - 1) /\ w[p[m]] = "open" /\ \A k \in Ends(w, p[m]) : k >= i
    BY <2>1
  <2>3. p \in [1..d -> s..(i - 1)]
    BY <2>2
  <2> QED BY <2>2, <2>3, <1>1, <1>3 DEF Nested
<1> HIDE DEF Braces
<1>4. OpenAt(w, s, d, i, string, escaped) <=>
        /\ d > 0
        /\ \E p \in [1..d -> Braces], q \in (s + 1)..i :
             /\ p[1] = s
             /\ IF string THEN InString(w, q, i, escaped) ELSE q = i
             /\ Around(w, p, d, q)
  BY <1>2, <1>3 DEF OpenAt
<1> QED BY <1>4, Zenon DEF Braces, OpenPrefix

\* The inductive invariant holds at first.
LEMMA InitInvariant == Init => IInv
<1> SUFFICES ASSUME Init PROVE IInv
  OBVIOUS
<1> USE LengthAssumption
<1>1. TypeOK
  <2>1. start \in 0..MaxLength /\ index \in 1..(MaxLength + 1) /\ depth \in 0..MaxLength
    BY DEF Init
  <2>2. in_string \in BOOLEAN /\ escape \in BOOLEAN
    BY DEF Init
  <2> QED BY <2>1, <2>2, Zenon DEF Init, TypeOK
<1>2. PrefixIsOpen
  BY DEF Init, PrefixIsOpen
<1> QED BY <1>1, <1>2 DEF Init, IInv

\* What every step while scanning relies on.
LEMMA Scanning ==
    ASSUME IInv, pc = "scan"
    PROVE  /\ raw \in Seq(Char) /\ Len(raw) \in Nat /\ Len(raw) <= MaxLength /\ MaxLength \in Nat
           /\ start \in 1..Len(raw) /\ raw[start] = "open"
           /\ index \in Positions(raw) /\ start <= index
           /\ depth \in Nat /\ in_string \in BOOLEAN /\ escape \in BOOLEAN
           /\ DOMAIN raw = 1..Len(raw)
           /\ index > start => depth > 0 /\ OpenAt(raw, start, depth, index, in_string, escape)
<1>1. raw \in Text
  BY DEF IInv, TypeOK
<1>2. /\ raw \in Seq(Char) /\ Len(raw) \in Nat /\ Len(raw) <= MaxLength /\ MaxLength \in Nat
      /\ DOMAIN raw = 1..Len(raw)
  BY <1>1, TextIsSeq, LengthAssumption
<1>3. start \in 1..Len(raw) /\ raw[start] = "open"
  BY <1>2 DEF IInv, Opens
<1>4. index \in Positions(raw) /\ start <= index
  BY <1>2, <1>3 DEF IInv, Positions
<1>5. depth \in Nat /\ in_string \in BOOLEAN /\ escape \in BOOLEAN
  BY <1>2 DEF IInv, TypeOK
<1>6. ASSUME index > start PROVE depth > 0 /\ OpenAt(raw, start, depth, index, in_string, escape)
  <2>1. PrefixIsOpen
    BY DEF IInv
  <2>2. OpenPrefix(raw, start, depth, index, in_string, escape)
    BY <2>1, <1>6, Zenon DEF PrefixIsOpen, Unclosed, OpenPrefix
  <2>3. depth > 0
    BY <2>2 DEF OpenPrefix
  <2> QED BY <2>2, <2>3, <1>2, <1>3, <1>4, <1>5, OpenAtIsPrefixIsOpen
<1> QED BY <1>2, <1>3, <1>4, <1>5, <1>6

\* A step that reads a character and goes on keeps the invariant if the prefix
\* is still open.
LEMMA ReadingOn ==
    ASSUME IInv, Reading, Advance, UNCHANGED <<raw, start, pc, block>>,
           depth' \in Nat, depth' <= depth + 1,
           in_string' \in BOOLEAN, escape' \in BOOLEAN, escape' => in_string',
           OpenAt(raw, start, depth', index + 1, in_string', escape')
    PROVE  IInv'
<1>1. /\ pc = "scan" /\ index \in 1..Len(raw) /\ index \in Nat
      /\ raw \in Seq(Char) /\ Len(raw) \in Nat /\ Len(raw) <= MaxLength /\ MaxLength \in Nat
      /\ start \in 1..Len(raw) /\ start \in Nat /\ start <= index
      /\ index + 1 \in Positions(raw)
  BY Scanning DEF Reading, Positions
<1>2. depth <= index - start /\ depth \in Nat
  BY <1>1 DEF IInv, TypeOK
<1>3. depth' <= (index + 1) - start /\ depth' \in 0..MaxLength
  BY <1>1, <1>2
<1>4. TypeOK'
  <2>1. index' \in 1..(MaxLength + 1)
    BY <1>1 DEF Advance
  <2> QED BY <2>1, <1>3 DEF IInv, TypeOK
<1>5. PrefixIsOpen'
  <2>1. OpenPrefix(raw, start, depth', index + 1, in_string', escape')
    BY <1>1, OpenAtIsPrefixIsOpen
  <2>2. OpenPrefix(raw', start', depth', index', in_string', escape')
    BY <2>1 DEF Advance
  <2> QED BY <2>2, Zenon DEF PrefixIsOpen, Unclosed, OpenPrefix
<1>6. /\ index' \in start'..(Len(raw') + 1)
      /\ depth' <= index' - start'
      /\ index' # start'
      /\ pc' = "scan"
      /\ block' = Null /\ start' \in Opens'
  BY <1>1, <1>3 DEF Advance, IInv, Opens
<1> QED BY <1>4, <1>5, <1>6 DEF IInv

\* Find puts the scan at the first brace.
LEMMA FindKeepsInvariant ==
    ASSUME IInv, Find PROVE IInv'
<1>1. raw \in Seq(Char) /\ Len(raw) \in Nat /\ Len(raw) <= MaxLength /\ DOMAIN raw = 1..Len(raw) /\ MaxLength \in Nat
  BY TextIsSeq, LengthAssumption DEF IInv, TypeOK
<1>2. Opens \in SUBSET Nat
  BY <1>1 DEF Opens
<1>3. CASE Opens = {}
  <2>1. pc' = "done" /\ UNCHANGED <<raw, start, index, depth, in_string, escape, block>>
    BY <1>3 DEF Find
  <2>2. TypeOK'
    BY <2>1 DEF IInv, TypeOK
  <2>3. PrefixIsOpen'
    BY <2>1 DEF PrefixIsOpen
  <2>4. Opens' = {} /\ block' = Null
    BY <1>3, <2>1 DEF Find, IInv, Opens
  <2>5. escape' => in_string'
    BY <2>1 DEF IInv
  <2> QED BY <2>1, <2>2, <2>3, <2>4, <2>5 DEF IInv
<1>4. CASE Opens # {}
  <2>1. PICK o \in Opens : \A j \in Opens : o <= j
    BY <1>2, <1>4, Least, Zenon
  <2>2. /\ pc' = "scan"
        /\ start' \in Opens /\ index' = start'
        /\ UNCHANGED <<raw, depth, in_string, escape, block>>
    BY <1>4, <2>1 DEF Find
  <2>3. start' \in 1..Len(raw) /\ start' \in Nat /\ Opens' = Opens
    BY <2>2, <1>1 DEF Opens
  <2>4. start' \in 0..MaxLength /\ index' \in 1..(MaxLength + 1)
    BY <2>2, <2>3, <1>1
  <2>5. TypeOK'
    BY <2>2, <2>4 DEF IInv, TypeOK
  <2>6. PrefixIsOpen'
    BY <2>2, <2>3 DEF PrefixIsOpen
  <2>7. depth = 0 /\ ~in_string /\ block = Null /\ (escape => in_string)
    BY DEF IInv, Find
  <2>8. index' \in start'..(Len(raw') + 1) /\ depth' <= index' - start'
    <3>1. raw' = raw /\ depth' = 0 /\ index' = start' /\ start' \in Nat /\ start' <= Len(raw)
      BY <2>2, <2>3, <2>7
    <3>2. \A a, n \in Nat : a <= n => a \in a..(n + 1) /\ 0 <= a - a
      OBVIOUS
    <3>3. start' \in start'..(Len(raw) + 1) /\ 0 <= start' - start'
      BY <3>1, <3>2, <1>1
    <3> QED BY <3>1, <3>3
  <2> QED BY <2>2, <2>3, <2>5, <2>6, <2>7, <2>8 DEF IInv
<1> QED BY <1>3, <1>4

\* Reading inside a string.
LEMMA ScanStringKeepsInvariant ==
    ASSUME IInv, ScanString PROVE IInv'
<1>1. pc = "scan" /\ in_string /\ index \in DOMAIN raw
  BY DEF ScanString, Reading
<1>2. /\ raw \in Seq(Char) /\ index \in 1..Len(raw) /\ index <= Len(raw)
      /\ depth \in Nat /\ in_string = TRUE /\ escape \in BOOLEAN
  BY <1>1, Scanning
<1>3. OpenAt(raw, start, depth, index, in_string, escape)
  <2>1. index # start
    BY <1>1 DEF IInv
  <2>2. index > start
    BY <2>1, <1>1, <1>2, Scanning
  <2> QED BY <2>2, <1>1, Scanning
<1>4. PICK p, q : /\ Nested(raw, start, p, depth, q, index) /\ p[1] = start
                  /\ InString(raw, q, index, escape)
  BY <1>2, <1>3 DEF OpenAt
<1>5. /\ escape \/ raw[index] \notin {"quote", "escape"} =>
            Nested(raw, start, p, depth, q, index + 1) /\ InString(raw, q, index + 1, FALSE)
      /\ ~escape /\ raw[index] = "escape" =>
            Nested(raw, start, p, depth, q, index + 1) /\ InString(raw, q, index + 1, TRUE)
      /\ ~escape /\ raw[index] = "quote" => Nested(raw, start, p, depth, index + 1, index + 1)
  BY <1>2, <1>4, ReadString
<1>6. in_string' \in BOOLEAN /\ escape' \in BOOLEAN /\ (escape' => in_string')
  BY <1>2 DEF ScanString
<1>7. OpenAt(raw, start, depth, index + 1, in_string', escape')
  <2>1. CASE escape \/ raw[index] \notin {"quote", "escape"}
    <3>1. in_string' = TRUE /\ escape' = FALSE
      BY <2>1, <1>2 DEF ScanString
    <3> QED BY <3>1, <2>1, <1>4, <1>5 DEF OpenAt
  <2>2. CASE ~escape /\ raw[index] = "escape"
    <3>1. in_string' = TRUE /\ escape' = TRUE
      BY <2>2, <1>2 DEF ScanString
    <3> QED BY <3>1, <2>2, <1>4, <1>5 DEF OpenAt
  <2>3. CASE ~escape /\ raw[index] = "quote"
    <3>1. in_string' = FALSE
      BY <2>3, <1>2 DEF ScanString
    <3> QED BY <3>1, <2>3, <1>4, <1>5 DEF OpenAt
  <2> QED BY <2>1, <2>2, <2>3
<1>8. depth' = depth /\ depth' <= depth + 1
  BY <1>2 DEF ScanString
<1>9. Reading /\ Advance /\ UNCHANGED <<raw, start, pc, block>>
  BY DEF ScanString
<1> QED BY <1>2, <1>6, <1>7, <1>8, <1>9, ReadingOn

\* Reading outside strings.
LEMMA ScanOutsideKeepsInvariant ==
    ASSUME IInv, ScanOutside PROVE IInv'
<1>1. pc = "scan" /\ ~in_string /\ index \in DOMAIN raw
  BY DEF ScanOutside, Reading
<1>2. /\ raw \in Seq(Char) /\ index \in 1..Len(raw) /\ index <= Len(raw) /\ start \in 1..Len(raw)
      /\ depth \in Nat /\ in_string = FALSE /\ escape = FALSE
      /\ raw[start] = "open" /\ start <= index
  <2>1. escape => in_string
    BY DEF IInv
  <2> QED BY <2>1, <1>1, Scanning
<1>3. in_string' \in BOOLEAN /\ escape' = FALSE /\ (in_string' <=> raw[index] = "quote")
  BY <1>2 DEF ScanOutside
<1>4. raw[index] \in Char
  BY <1>2
<1>5. /\ raw[index] = "open" => depth' = depth + 1
      /\ raw[index] = "close" => depth' = depth - 1
      /\ raw[index] \notin {"open", "close"} => depth' = depth
  BY DEF ScanOutside
<1>6. Reading /\ Advance /\ UNCHANGED <<raw, start, pc, block>>
  BY DEF ScanOutside
<1>7. escape' \in BOOLEAN /\ (escape' => in_string')
  BY <1>3
<1>8. CASE index = start
  <2>1. depth = 0 /\ raw[index] = "open"
    BY <1>8, <1>1, <1>2 DEF IInv
  <2>2. depth' = 1 /\ in_string' = FALSE
    BY <2>1, <1>3, <1>5
  <2> DEFINE r == [m \in 1..1 |-> start]
  <2>3. Nested(raw, start, r, 1, start + 1, start + 1)
    BY <1>2, ReadFirst
  <2>4. r[1] = start
    OBVIOUS
  <2> HIDE DEF r
  <2>5. OpenAt(raw, start, depth', index + 1, in_string', escape')
    BY <2>2, <2>3, <2>4, <1>8 DEF OpenAt
  <2>6. depth' \in Nat /\ depth' <= depth + 1
    BY <2>1, <2>2
  <2> QED BY <2>5, <2>6, <1>3, <1>6, <1>7, ReadingOn
<1>9. CASE index # start
  <2>1. OpenAt(raw, start, depth, index, in_string, escape) /\ depth > 0
    <3>1. index > start
      BY <1>9, <1>2
    <3> QED BY <3>1, <1>1, Scanning
  <2>2. PICK p : Nested(raw, start, p, depth, index, index) /\ p[1] = start
    BY <2>1, <1>2 DEF OpenAt
  <2>3. depth' \in Nat /\ depth' <= depth + 1
    <3>1. depth' \in {depth - 1, depth, depth + 1}
      BY <1>4, <1>5
    <3> QED BY <3>1, <2>1, <1>2
  <2>4. CASE raw[index] \in {"other", "escape"}
    <3>1. Nested(raw, start, p, depth, index + 1, index + 1)
      BY <2>2, <2>4, <1>2, ReadOrdinary
    <3>2. in_string' = FALSE /\ depth' = depth
      BY <2>4, <1>3, <1>5
    <3>3. OpenAt(raw, start, depth', index + 1, in_string', escape')
      BY <3>1, <3>2, <2>2 DEF OpenAt
    <3> QED BY <3>3, <2>3, <1>3, <1>6, <1>7, ReadingOn
  <2>5. CASE raw[index] = "open"
    <3> DEFINE r == [m \in 1..(depth + 1) |-> IF m = depth + 1 THEN index ELSE p[m]]
    <3>1. Nested(raw, start, r, depth + 1, index + 1, index + 1)
      BY <2>2, <2>5, <1>2, ReadOpen
    <3>2. in_string' = FALSE /\ depth' = depth + 1
      BY <2>5, <1>3, <1>5
    <3>3. r[1] = start
      BY <2>1, <2>2, <1>2
    <3> HIDE DEF r
    <3>4. OpenAt(raw, start, depth', index + 1, in_string', escape')
      BY <3>1, <3>2, <3>3 DEF OpenAt
    <3> QED BY <3>4, <2>3, <1>3, <1>6, <1>7, ReadingOn
  <2>6. CASE raw[index] = "close"
    <3> DEFINE r == [m \in 1..(depth - 1) |-> p[m]]
    <3>1. depth > 1
      <4>1. depth # 1
        BY <2>6, <1>1 DEF ScanOutside, Closing
      <4> QED BY <4>1, <2>1, <1>2
    <3>2. Nested(raw, start, r, depth - 1, index + 1, index + 1)
      BY <2>2, <2>6, <3>1, <1>2, ReadClose
    <3>3. in_string' = FALSE /\ depth' = depth - 1
      BY <2>6, <1>3, <1>5
    <3>4. r[1] = start
      BY <2>2, <3>1, <1>2
    <3> HIDE DEF r
    <3>5. OpenAt(raw, start, depth', index + 1, in_string', escape')
      BY <3>2, <3>3, <3>4 DEF OpenAt
    <3> QED BY <3>5, <2>3, <1>3, <1>6, <1>7, ReadingOn
  <2>7. CASE raw[index] = "quote"
    <3>1. Nested(raw, start, p, depth, index, index + 1) /\ InString(raw, index, index + 1, FALSE)
      BY <2>2, <2>7, <1>2, ReadQuote
    <3>2. in_string' = TRUE /\ depth' = depth
      BY <2>7, <1>3, <1>5
    <3>3. OpenAt(raw, start, depth', index + 1, in_string', escape')
      BY <3>1, <3>2, <2>2, <1>3 DEF OpenAt
    <3> QED BY <3>3, <2>3, <1>3, <1>6, <1>7, ReadingOn
  <2> QED BY <2>4, <2>5, <2>6, <2>7, <1>4 DEF Char
<1> QED BY <1>8, <1>9

\* The brace that makes the depth 0 closes the first brace, and is the first
\* that does.
LEMMA CloseBlockKeepsInvariant ==
    ASSUME IInv, CloseBlock PROVE IInv'
<1>1. /\ pc = "scan" /\ ~in_string /\ index \in DOMAIN raw /\ raw[index] = "close" /\ depth = 1
      /\ pc' = "done" /\ depth' = 0 /\ block' = SubSeq(raw, start, index)
      /\ UNCHANGED <<raw, start, index, in_string, escape>>
  BY DEF CloseBlock, Closing, Reading
<1>2. /\ raw \in Seq(Char) /\ index \in 1..Len(raw) /\ index <= Len(raw) /\ start \in 1..Len(raw)
      /\ Len(raw) \in Nat /\ Len(raw) <= MaxLength /\ MaxLength \in Nat
      /\ in_string = FALSE /\ start <= index /\ DOMAIN raw = 1..Len(raw)
  BY <1>1, Scanning
<1>3. OpenAt(raw, start, depth, index, in_string, escape)
  <2>1. index # start
    BY <1>1 DEF IInv
  <2>2. index > start
    BY <2>1, <1>2
  <2> QED BY <2>2, <1>1, Scanning
<1>4. PICK p : Nested(raw, start, p, 1, index, index) /\ p[1] = start
  BY <1>1, <1>2, <1>3 DEF OpenAt
<1>5. index \in Ends(raw, start)
  BY <1>1, <1>2, <1>4, ReadClose
<1>6. \A k \in Ends(raw, start) : index <= k
  <2>1. \A k \in Ends(raw, start) : k >= index /\ k \in Nat
    BY <1>2, <1>4 DEF Nested, Ends
  <2> QED BY <2>1, <1>2
<1>7. SubSeq(raw, start, index) \in Text
  <2>1. /\ SubSeq(raw, start, index) \in Seq(Char)
        /\ Len(SubSeq(raw, start, index)) = index - start + 1
    BY <1>2
  <2>2. index - start + 1 <= MaxLength
    BY <1>2
  <2> QED BY <2>1, <2>2, SeqIsText
<1>8. TypeOK'
  <2>1. 0 \in 0..MaxLength
    BY <1>2
  <2> QED BY <2>1, <1>1, <1>7 DEF IInv, TypeOK
<1>9. PrefixIsOpen' /\ (escape' => in_string')
  BY <1>1 DEF IInv, PrefixIsOpen
<1>10. start \in Opens
  BY <1>1 DEF IInv
<1>11. /\ start' \in Opens'
       /\ \E e \in Ends(raw', start') :
            block' = SubSeq(raw', start', e) /\ \A k \in Ends(raw', start') : e <= k
  BY <1>1, <1>5, <1>6, <1>10 DEF Opens
<1> QED BY <1>1, <1>8, <1>9, <1>11 DEF IInv

\* If the text ends first, no object begins at the first brace.
LEMMA EndOfTextKeepsInvariant ==
    ASSUME IInv, EndOfText PROVE IInv'
<1>1. /\ pc = "scan" /\ index \notin DOMAIN raw /\ pc' = "done"
      /\ UNCHANGED <<raw, start, index, depth, in_string, escape, block>>
  BY DEF EndOfText
<1>2. /\ raw \in Seq(Char) /\ Len(raw) \in Nat /\ index = Len(raw) + 1 /\ start \in 1..Len(raw)
      /\ depth \in Nat
  BY <1>1, Scanning DEF Positions
<1>3. OpenAt(raw, start, depth, index, in_string, escape) /\ depth > 0
  <2>1. index > start
    BY <1>2
  <2> QED BY <2>1, <1>1, Scanning
<1>4. PICK p, q : Nested(raw, start, p, depth, q, index) /\ p[1] = start
  BY <1>3 DEF OpenAt
<1>5. Ends(raw, start) = {}
  <2>1. 1 \in 1..depth
    BY <1>2, <1>3
  <2>2. \A k \in Ends(raw, start) : k >= index
    BY <2>1, <1>4 DEF Nested
  <2>3. \A k \in Ends(raw, start) : k \in Nat /\ k <= Len(raw)
    BY <1>2 DEF Ends
  <2> QED BY <2>2, <2>3, <1>2
<1>6. TypeOK' /\ PrefixIsOpen' /\ (escape' => in_string')
  BY <1>1 DEF IInv, TypeOK, PrefixIsOpen
<1>7. start' \in Opens' /\ Ends(raw', start') = {} /\ block' = Null
  BY <1>1, <1>5 DEF IInv, Opens
<1> QED BY <1>1, <1>6, <1>7 DEF IInv

\* What extract_json_block maintains, for texts of every length.
THEOREM ScannerInvariance == Spec => []IInv
<1>1. ASSUME IInv, [Next]_vars PROVE IInv'
  <2>1. CASE Find        BY <1>1, <2>1, FindKeepsInvariant
  <2>2. CASE ScanString  BY <1>1, <2>2, ScanStringKeepsInvariant
  <2>3. CASE ScanOutside BY <1>1, <2>3, ScanOutsideKeepsInvariant
  <2>4. CASE CloseBlock  BY <1>1, <2>4, CloseBlockKeepsInvariant
  <2>5. CASE EndOfText   BY <1>1, <2>5, EndOfTextKeepsInvariant
  <2>6. CASE UNCHANGED vars
    BY <1>1, <2>6 DEF vars, IInv, TypeOK, PrefixIsOpen, Unclosed, Opens
  <2> QED BY <1>1, <2>1, <2>2, <2>3, <2>4, <2>5, <2>6 DEF Next, Returned
<1> QED BY <1>1, InitInvariant, PTL DEF Spec

\* Every variable of the scanner stays in its domain.
THEOREM ScannerTypes == Spec => []TypeOK
<1>1. IInv => TypeOK
  BY DEF IInv
<1> QED BY <1>1, ScannerInvariance, PTL

\* While the scan goes on, the character to be read is inside exactly depth
\* braces, and inside a string exactly if in_string says so.
THEOREM PrefixStaysOpen == Spec => []PrefixIsOpen
<1>1. IInv => PrefixIsOpen
  BY DEF IInv
<1> QED BY <1>1, ScannerInvariance, PTL

\* The scanner returns the object that begins at the first brace, if one does.
THEOREM FirstObjectFound == Spec => []FindsFirstObject
<1>1. ASSUME IInv, pc = "done" PROVE FindsFirstObject
  <2>1. \/ Opens = {} /\ block = Null
        \/ start \in Opens /\ Ends(raw, start) = {} /\ block = Null
        \/ /\ start \in Opens
           /\ \E e \in Ends(raw, start) :
                block = SubSeq(raw, start, e) /\ \A k \in Ends(raw, start) : e <= k
    BY <1>1 DEF IInv
  <2> QED BY <2>1 DEF FindsFirstObject
<1>2. IInv => FindsFirstObject
  BY <1>1 DEF FindsFirstObject
<1> QED BY <1>2, ScannerInvariance, PTL

\* A text that ends before the end of what is returned would have given nothing.
THEOREM CutOffGivesNothing == Spec => []TruncatedGivesNothing
<1>1. ASSUME IInv, pc = "done", block # Null PROVE TruncatedGivesNothing
  <2>1. raw \in Seq(Char) /\ Len(raw) \in Nat /\ DOMAIN raw = 1..Len(raw)
    BY <1>1, TextIsSeq DEF IInv, TypeOK
  <2>2. PICK e \in Ends(raw, start) :
           block = SubSeq(raw, start, e) /\ \A k \in Ends(raw, start) : e <= k
    BY <1>1 DEF IInv
  <2>3. start \in 1..Len(raw)
    BY <1>1, <2>1 DEF IInv, Opens
  <2>4. e \in (start + 1)..Len(raw)
    BY DEF Ends
  <2>5. Len(block) = e - start + 1
    BY <2>1, <2>2, <2>3, <2>4
  <2>6. start + Len(block) - 2 = e - 1
    BY <2>3, <2>4, <2>5
  <2>7. ASSUME NEW n \in start..(e - 1), NEW k \in Ends(SubSeq(raw, 1, n), start)
        PROVE  FALSE
    <3>1. n \in 0..Len(raw) /\ start \in 1..n /\ n < e
      BY <2>3, <2>4
    <3>2. k \in Ends(raw, start) /\ k <= n
      BY <3>1, <2>1, PrefixEnds
    <3>3. e <= k /\ k \in Int
      BY <3>2, <2>2 DEF Ends
    <3> QED BY <3>1, <3>2, <3>3, <2>4
  <2> QED BY <2>6, <2>7 DEF TruncatedGivesNothing
<1>2. IInv => TruncatedGivesNothing
  BY <1>1 DEF TruncatedGivesNothing
<1> QED BY <1>2, ScannerInvariance, PTL
=============================================================================
