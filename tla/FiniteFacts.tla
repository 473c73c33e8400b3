------------------------------ MODULE FiniteFacts ------------------------------
(***************************************************************************)
(* Facts about numbers, sequences and sums over finite sets that the       *)
(* library does not state, for the proofs about several components.        *)
(***************************************************************************)
EXTENDS Integers, SequencesExt, SequenceTheorems, FiniteSetTheorems, NaturalsInduction,
        WellFoundedInduction, TLAPS

\* Of some numbers one is the least.
LEMMA LeastOf ==
  ASSUME NEW S \in SUBSET Nat, S # {}
  PROVE  \E x \in S : \A y \in S : x <= y
<1>1. PICK x \in S : \A y \in S : ~ (<<y, x>> \in OpToRel(<, Nat))
  BY NatLessThanWellFounded, WFMin
<1>2. \A y \in S : ~ (y < x)
  BY <1>1 DEF OpToRel
<1> QED
  BY <1>2

\* Of some positions one is the first, and one the last.
LEMMA FirstOf ==
  ASSUME NEW n \in Nat, NEW S, S \subseteq 1 .. n, S # {}
  PROVE  /\ (CHOOSE i \in S : \A k \in S : i <= k) \in S
         /\ \A k \in S : (CHOOSE i \in S : \A l \in S : i <= l) <= k
<1>1. S \in SUBSET Nat
  OBVIOUS
<1>2. PICK x \in S : \A y \in S : x <= y
  BY <1>1, LeastOf
<1> QED
  BY <1>2

LEMMA LastOf ==
  ASSUME NEW n \in Nat, NEW S, S \subseteq 1 .. n, S # {}
  PROVE  /\ (CHOOSE i \in S : \A k \in S : k <= i) \in S
         /\ \A k \in S : k <= (CHOOSE i \in S : \A l \in S : l <= i)
<1> DEFINE R == {n - i : i \in S}
<1>1. R \in SUBSET Nat /\ R # {}
  <2>1. \A i \in S : n - i \in Nat
    OBVIOUS
  <2> QED
    BY <2>1
<1>2. PICK x \in R : \A y \in R : ~ (<<y, x>> \in OpToRel(<, Nat))
  <2> HIDE DEF R
  <2> QED
    BY <1>1, NatLessThanWellFounded, WFMin
<1>3. \A y \in R : x <= y
  <2> HIDE DEF R
  <2>1. \A y \in R : ~ (y < x)
    BY <1>1, <1>2 DEF OpToRel
  <2>2. x \in Nat /\ \A y \in R : y \in Nat
    BY <1>1
  <2> QED
    BY <2>1, <2>2
<1>4. PICK i \in S : x = n - i
  OBVIOUS
<1>5. \A k \in S : k <= i
  <2> TAKE k \in S
  <2>1. n - i <= n - k
    BY <1>3, <1>4
  <2> QED
    BY <2>1
<1> QED
  BY <1>5

\* A recursion that doubles, and a function it is true of.
Double(f, n) == IF n = 0 THEN 1 ELSE 2 * f[n - 1]

LEMMA DoublingExists ==
  ASSUME NEW size \in Nat
  PROVE  \E f : f = [n \in 0 .. size |-> Double(f, n)]
<1> DEFINE Reaches(top) == \E f : f = [n \in 0 .. top |-> Double(f, n)]
           Missing == {top \in 0 .. size : ~Reaches(top)}
<1>1. SUFFICES ASSUME Missing # {}
               PROVE  FALSE
  <2>1. size \in 0 .. size
    OBVIOUS
  <2>2. Missing = {} => Reaches(size)
    BY <2>1
  <2> QED
    BY <2>2
<1>2. PICK top \in Missing : \A other \in Missing : top <= other
  <2>1. Missing \in SUBSET Nat
    OBVIOUS
  <2> HIDE DEF Missing
  <2> QED
    BY <1>1, <2>1, LeastOf
<1>3. top \in 0 .. size /\ ~Reaches(top)
  BY <1>2
<1>4. CASE top = 0
  <2>1. PICK f : f = [n \in 0 .. 0 |-> 1]
    OBVIOUS
  <2>2. \A n \in 0 .. 0 : n = 0
    OBVIOUS
  <2>3. \A n \in 0 .. 0 : Double(f, n) = 1
    BY <2>2 DEF Double
  <2>4. f = [n \in 0 .. 0 |-> Double(f, n)]
    BY <2>1, <2>3
  <2> QED
    BY <1>3, <1>4, <2>4
<1>5. CASE top # 0
  <2>1. top - 1 \in 0 .. size /\ top - 1 < top
    BY <1>3, <1>5
  <2>2. Reaches(top - 1)
    <3>1. top - 1 \notin Missing
      <4>1. ~(top <= top - 1)
        BY <1>3
      <4> HIDE DEF Missing
      <4> QED
        BY <1>2, <4>1
    <3> QED
      BY <2>1, <3>1
  <2>3. PICK short : short = [n \in 0 .. top - 1 |-> Double(short, n)]
    BY <2>2
  <2>4. PICK f : f = [n \in 0 .. top |-> Double(short, n)]
    OBVIOUS
  <2>5. \A n \in 0 .. top - 1 : f[n] = short[n]
    <3> TAKE n \in 0 .. top - 1
    <3>1. n \in 0 .. top
      BY <1>3
    <3> QED
      BY <2>3, <2>4, <3>1
  <2>6. \A n \in 0 .. top : Double(f, n) = Double(short, n)
    <3> TAKE n \in 0 .. top
    <3>1. n # 0 => n - 1 \in 0 .. top - 1
      BY <1>3
    <3> QED
      BY <2>5, <3>1 DEF Double
  <2>7. f = [n \in 0 .. top |-> Double(f, n)]
    BY <2>4, <2>6
  <2> QED
    BY <1>3, <2>7
<1> QED
  BY <1>4, <1>5

\* What such a recursion computes: numbers that double.
LEMMA DoublingIs ==
  ASSUME NEW size \in Nat, NEW p, p = CHOOSE f : f = [n \in 0 .. size |-> Double(f, n)]
  PROVE  /\ \A n \in 0 .. size : p[n] \in Nat /\ p[n] > 0
         /\ \A n \in 1 .. size : p[n] = 2 * p[n - 1]
<1>1. p = [n \in 0 .. size |-> Double(p, n)]
  BY DoublingExists
<1>2. \A n \in 0 .. size : p[n] = IF n = 0 THEN 1 ELSE 2 * p[n - 1]
  BY <1>1 DEF Double
<1>3. \A n \in 0 .. size : p[n] \in Nat /\ p[n] > 0
  <2> DEFINE Bad == {n \in 0 .. size : ~(p[n] \in Nat /\ p[n] > 0)}
  <2>1. SUFFICES ASSUME Bad # {} PROVE FALSE
    OBVIOUS
  <2>2. PICK n \in Bad : \A m \in Bad : n <= m
    <3>1. Bad \in SUBSET Nat
      OBVIOUS
    <3> HIDE DEF Bad
    <3> QED
      BY <2>1, <3>1, LeastOf
  <2>3. n # 0
    BY <2>2, <1>2
  <2>4. n - 1 \in 0 .. size /\ ~(n <= n - 1)
    BY <2>2, <2>3
  <2>5. n - 1 \notin Bad
    <3> HIDE DEF Bad
    <3> QED
      BY <2>2, <2>4
  <2>6. p[n - 1] \in Nat /\ p[n - 1] > 0
    BY <2>4, <2>5
  <2>7. p[n] = 2 * p[n - 1]
    BY <1>2, <2>2, <2>3
  <2>8. p[n] \in Nat /\ p[n] > 0
    BY <2>6, <2>7
  <2> QED
    BY <2>2, <2>8
<1> QED
  BY <1>2, <1>3

\* A sequence without one of its elements.
WithoutAt(new, S, s, i) ==
  /\ new \in Seq(S) /\ Len(new) = Len(s) - 1
  /\ \A l \in DOMAIN new :
       /\ (IF l < i THEN l ELSE l + 1) \in DOMAIN s
       /\ new[l] = s[IF l < i THEN l ELSE l + 1]
  /\ \A k \in DOMAIN s : k # i => \E l \in DOMAIN new : new[l] = s[k]
  /\ \A l \in DOMAIN new : \E k \in DOMAIN s : k # i /\ new[l] = s[k]

LEMMA RemoveAtProperties ==
  ASSUME NEW S, NEW s \in Seq(S), NEW i \in DOMAIN s
  PROVE  WithoutAt(RemoveAt(s, i), S, s, i)
<1> DEFINE n == Len(s)
           a == SubSeq(s, 1, i - 1)
           b == SubSeq(s, i + 1, n)
<1>1. n \in Nat /\ DOMAIN s = 1 .. n /\ i \in 1 .. n /\ \A k \in 1 .. n : s[k] \in S
  OBVIOUS
<1> HIDE DEF n
<1>2. a \in Seq(S) /\ Len(a) = i - 1 /\ \A k \in 1 .. i - 1 : a[k] = s[k]
  <2>1. \A k \in 1 .. i - 1 : s[k] \in S
    BY <1>1
  <2>2. /\ Len(a) = IF 1 <= i - 1 THEN i - 1 - 1 + 1 ELSE 0
        /\ \A k \in 1 .. i - 1 - 1 + 1 : a[k] = s[1 + k - 1]
        /\ a \in Seq(S)
    BY <1>1, <2>1, SubSeqProperties DEF n
  <2> QED
    BY <1>1, <2>2
<1>3. b \in Seq(S) /\ Len(b) = n - i /\ \A k \in 1 .. n - i : b[k] = s[i + k]
  <2>1. \A k \in i + 1 .. n : s[k] \in S
    BY <1>1
  <2>2. /\ Len(b) = IF i + 1 <= n THEN n - (i + 1) + 1 ELSE 0
        /\ \A k \in 1 .. n - (i + 1) + 1 : b[k] = s[(i + 1) + k - 1]
        /\ b \in Seq(S)
    BY <1>1, <2>1, SubSeqProperties DEF n
  <2> QED
    BY <1>1, <2>2
<1>4. RemoveAt(s, i) = a \o b
  BY DEF RemoveAt, n
<1> HIDE DEF a, b
<1>5. /\ a \o b \in Seq(S) /\ Len(a \o b) = Len(a) + Len(b)
      /\ \A k \in 1 .. Len(a) + Len(b) : (a \o b)[k] = IF k <= Len(a) THEN a[k] ELSE b[k - Len(a)]
  BY <1>2, <1>3, ConcatProperties
<1>6. Len(a) + Len(b) = n - 1 /\ n - 1 \in Nat
  <2>1. Len(a) = i - 1 /\ Len(b) = n - i
    BY <1>2, <1>3
  <2>2. i \in Nat /\ n \in Nat /\ 1 <= i /\ i <= n
    BY <1>1
  <2>3. (i - 1) + (n - i) = n - 1 /\ n - 1 \in Nat
    BY <2>2
  <2> QED
    BY <2>1, <2>3
<1>7. ASSUME NEW l \in 1 .. n - 1
      PROVE  /\ (IF l < i THEN l ELSE l + 1) \in 1 .. n
             /\ (a \o b)[l] = s[IF l < i THEN l ELSE l + 1]
  <2>1. CASE l < i
    <3>1. l \in 1 .. i - 1 /\ l <= i - 1
      BY <1>1, <2>1
    <3> QED
      BY <1>1, <1>2, <1>5, <1>6, <2>1, <3>1
  <2>2. CASE ~(l < i)
    <3>1. l - (i - 1) \in 1 .. n - i /\ i + (l - (i - 1)) = l + 1 /\ ~(l <= i - 1) /\ l + 1 \in 1 .. n
      BY <1>1, <2>2
    <3>2. (a \o b)[l] = b[l - (i - 1)]
      BY <1>2, <1>5, <1>6, <3>1
    <3>3. b[l - (i - 1)] = s[l + 1]
      BY <1>3, <3>1
    <3> QED
      BY <2>2, <3>1, <3>2, <3>3
  <2> QED
    BY <2>1, <2>2
<1>8. DOMAIN RemoveAt(s, i) = 1 .. n - 1 /\ Len(RemoveAt(s, i)) = n - 1 /\ RemoveAt(s, i) \in Seq(S)
  BY <1>4, <1>5, <1>6
<1>9. ASSUME NEW k \in DOMAIN s, k # i
      PROVE  \E l \in DOMAIN RemoveAt(s, i) : RemoveAt(s, i)[l] = s[k]
  <2>1. CASE k < i
    <3>1. k \in 1 .. n - 1
      BY <1>1, <2>1
    <3> QED
      BY <1>4, <1>7, <1>8, <2>1, <3>1
  <2>2. CASE k > i
    <3>1. k - 1 \in 1 .. n - 1 /\ ~(k - 1 < i) /\ (k - 1) + 1 = k
      BY <1>1, <2>2
    <3> QED
      BY <1>4, <1>7, <1>8, <3>1
  <2> QED
    BY <1>1, <1>9, <2>1, <2>2
<1>10. ASSUME NEW l \in 1 .. n - 1
       PROVE  \E k \in 1 .. n : k # i /\ (a \o b)[l] = s[k]
  <2>1. (IF l < i THEN l ELSE l + 1) # i
    BY <1>1
  <2> QED
    BY <1>7, <2>1
<1> QED
  BY <1>1, <1>4, <1>7, <1>8, <1>9, <1>10 DEF n, WithoutAt

\* A nonempty collection of subsets of a finite set has a smallest member.
LEMMA Smallest ==
  ASSUME NEW S, IsFiniteSet(S), NEW B \in SUBSET (SUBSET S), B # {}
  PROVE  \E T \in B : \A U \in SUBSET T : U # T => U \notin B
<1>1. IsWellFoundedOn(StrictSubsetOrdering(S), FiniteSubsetsOf(S))
  BY FS_StrictSubsetOrderingWellFounded
<1>2. B \subseteq FiniteSubsetsOf(S)
  BY FS_Subset DEF FiniteSubsetsOf
<1>3. PICK T \in B : \A U \in B : ~ (<<U, T>> \in StrictSubsetOrdering(S))
  BY <1>1, <1>2, WFMin
<1>4. \A U \in SUBSET T : U # T => U \notin B
  BY <1>3 DEF StrictSubsetOrdering
<1> QED BY <1>4

\* The recursion behind a sum: what is summed over each subset of S.
Computes(g, f, S) ==
  g = [s \in SUBSET S |-> IF s = {} THEN 0
                          ELSE f[CHOOSE x \in s : TRUE] + g[s \ {CHOOSE x \in s : TRUE}]]

\* Two such recursions agree on the sets both reach.
LEMMA OneValue ==
  ASSUME NEW f, NEW A, IsFiniteSet(A), NEW B, NEW g, NEW h,
         Computes(g, f, A), Computes(h, f, B), NEW t, t \subseteq A, t \subseteq B
  PROVE  g[t] = h[t]
<1>1. SUFFICES ASSUME g[t] # h[t] PROVE FALSE
  OBVIOUS
<1> DEFINE Bad == {s \in SUBSET t : g[s] # h[s]}
<1>2. IsFiniteSet(t) /\ t \in Bad /\ Bad \in SUBSET (SUBSET t)
  BY <1>1, FS_Subset
<1>3. PICK s \in Bad : \A u \in SUBSET s : u # s => u \notin Bad
  <2> HIDE DEF Bad
  <2> QED BY <1>2, Smallest
<1>4. s \in SUBSET A /\ s \in SUBSET B /\ g[s] # h[s]
  BY <1>3
<1>5. s # {}
  BY <1>4 DEF Computes
<1> DEFINE y == CHOOSE x \in s : TRUE
<1>6. y \in s
  BY <1>5
<1>7. g[s] = f[y] + g[s \ {y}]
  BY <1>4, <1>5 DEF Computes
<1>8. h[s] = f[y] + h[s \ {y}]
  BY <1>4, <1>5 DEF Computes
<1>9. g[s \ {y}] = h[s \ {y}]
  BY <1>3, <1>6
<1> QED BY <1>4, <1>7, <1>8, <1>9

LEMMA ValueExists ==
  ASSUME NEW f, NEW S, IsFiniteSet(S)
  PROVE  \E g : Computes(g, f, S)
<1>1. SUFFICES ASSUME ~ \E g : Computes(g, f, S) PROVE FALSE
  OBVIOUS
<1> DEFINE Bad == {s \in SUBSET S : ~ \E g : Computes(g, f, s)}
<1>2. S \in Bad /\ Bad \in SUBSET (SUBSET S)
  BY <1>1
<1>3. PICK s \in Bad : \A u \in SUBSET s : u # s => u \notin Bad
  <2> HIDE DEF Bad
  <2> QED BY <1>2, Smallest
<1>4. s \in SUBSET S /\ ~ \E g : Computes(g, f, s)
  BY <1>3
<1> DEFINE V(u) == CHOOSE g : Computes(g, f, u)
<1>5. ASSUME NEW u \in SUBSET s, u # s PROVE Computes(V(u), f, u)
  BY <1>3, <1>4, <1>5
<1> DEFINE y(u) == CHOOSE x \in u : TRUE
           val == [u \in SUBSET s |->
                     IF u = {} THEN 0
                     ELSE f[y(u)] + V(u \ {y(u)})[u \ {y(u)}]]
<1>6. ASSUME NEW u \in SUBSET s, u # {} PROVE val[u \ {y(u)}] = V(u \ {y(u)})[u \ {y(u)}]
  <2> DEFINE w == u \ {y(u)}
  <2>1. y(u) \in u
    BY <1>6
  <2>2. w \in SUBSET s /\ w # s
    BY <2>1
  <2>3. CASE w = {}
    <3>1. Computes(V(w), f, w)
      BY <2>2, <1>5
    <3>2. V(w)[w] = 0
      <4> HIDE DEF V, w
      <4> QED BY <3>1, <2>3 DEF Computes
    <3>3. val[w] = 0
      BY <2>2, <2>3
    <3> QED BY <3>2, <3>3
  <2>4. CASE w # {}
    <3> DEFINE z == y(w)
    <3>1. z \in w
      BY <2>4
    <3>2. w \ {z} \in SUBSET s /\ w \ {z} # s
      BY <2>2, <3>1
    <3>3. Computes(V(w), f, w) /\ Computes(V(w \ {z}), f, w \ {z})
      BY <2>2, <3>2, <1>5
    <3>4. val[w] = f[z] + V(w \ {z})[w \ {z}]
      BY <2>2, <2>4
    <3>5. V(w)[w] = f[z] + V(w)[w \ {z}]
      <4> HIDE DEF V, w
      <4> QED BY <3>3, <2>4 DEF Computes
    <3>6. IsFiniteSet(w)
      BY <2>2, <1>4, FS_Subset
    <3>7. V(w)[w \ {z}] = V(w \ {z})[w \ {z}]
      <4> HIDE DEF V, w, z
      <4> QED BY <3>3, <3>6, OneValue
    <3> QED BY <3>4, <3>5, <3>7
  <2> QED BY <2>3, <2>4
<1>7. Computes(val, f, s)
  <2> DEFINE Next(u) == IF u = {} THEN 0 ELSE f[y(u)] + val[u \ {y(u)}]
             Old(u) == IF u = {} THEN 0 ELSE f[y(u)] + V(u \ {y(u)})[u \ {y(u)}]
  <2>2. \A u \in SUBSET s : Old(u) = Next(u)
    <3> HIDE DEF val, V, y
    <3> QED BY <1>6
  <2>3. val = [u \in SUBSET s |-> Old(u)]
    OBVIOUS
  <2>4. [u \in SUBSET s |-> Old(u)] = [u \in SUBSET s |-> Next(u)]
    <3> HIDE DEF Old, Next, val
    <3> QED BY <2>2
  <2>1. val = [u \in SUBSET s |-> Next(u)]
    <3> HIDE DEF Old, val
    <3> QED BY <2>3, <2>4
  <2> HIDE DEF val
  <2> QED BY <2>1 DEF Computes
<1> QED BY <1>7, <1>4

\* A sum of integers, taken in any order.
LEMMA SumChosen ==
  ASSUME NEW f, NEW S, IsFiniteSet(S)
  PROVE  /\ S = {} => SumFunctionOnSet(f, S) = 0
         /\ S # {} => \E x \in S : SumFunctionOnSet(f, S) = f[x] + SumFunctionOnSet(f, S \ {x})
<1> DEFINE V(u) == CHOOSE g : Computes(g, f, u)
<1>1. \A u : SumFunctionOnSet(f, u) = V(u)[u]
  BY DEF SumFunctionOnSet, FoldFunctionOnSet, MapThenFoldSet, Computes
<1>2. \A u : IsFiniteSet(u) => Computes(V(u), f, u)
  BY ValueExists
<1>3. Computes(V(S), f, S)
  BY <1>2
<1> HIDE DEF V
<1>4. S = {} => V(S)[S] = 0
  BY <1>3 DEF Computes
<1>5. ASSUME S # {} PROVE \E x \in S : V(S)[S] = f[x] + V(S \ {x})[S \ {x}]
  <2>1. PICK x \in S : V(S)[S] = f[x] + V(S)[S \ {x}]
    BY <1>3, <1>5 DEF Computes
  <2>2. IsFiniteSet(S \ {x}) 
    BY FS_RemoveElement
  <2>3. Computes(V(S \ {x}), f, S \ {x})
    BY <2>2, <1>2
  <2>4. V(S)[S \ {x}] = V(S \ {x})[S \ {x}]
    BY <1>3, <2>3, OneValue
  <2> QED BY <2>1, <2>4
<1> QED BY <1>1, <1>4, <1>5

LEMMA SumIsInt ==
  ASSUME NEW f, NEW S, IsFiniteSet(S), \A x \in S : f[x] \in Int
  PROVE  SumFunctionOnSet(f, S) \in Int
<1> DEFINE Bad == {s \in SUBSET S : SumFunctionOnSet(f, s) \notin Int}
<1>1. SUFFICES ASSUME S \in Bad PROVE FALSE
  OBVIOUS
<1>2. PICK s \in Bad : \A u \in SUBSET s : u # s => u \notin Bad
  <2>1. Bad \in SUBSET (SUBSET S)
    OBVIOUS
  <2> HIDE DEF Bad
  <2> QED BY <1>1, <2>1, Smallest
<1>3. IsFiniteSet(s)
  BY <1>2, FS_Subset
<1>4. CASE s = {}
  <2>1. SumFunctionOnSet(f, s) = 0
    BY <1>4, <1>3, SumChosen
  <2> QED BY <1>2, <2>1
<1>5. CASE s # {}
  <2>1. PICK x \in s : SumFunctionOnSet(f, s) = f[x] + SumFunctionOnSet(f, s \ {x})
    BY <1>3, <1>5, SumChosen
  <2>2. SumFunctionOnSet(f, s \ {x}) \in Int
    BY <1>2
  <2>3. f[x] \in Int
    BY <1>2
  <2> QED BY <1>2, <2>1, <2>2, <2>3
<1> QED BY <1>4, <1>5

LEMMA SumRemove ==
  ASSUME NEW f, NEW S, IsFiniteSet(S), \A x \in S : f[x] \in Int, NEW a \in S
  PROVE  SumFunctionOnSet(f, S) = f[a] + SumFunctionOnSet(f, S \ {a})
<1> DEFINE T(s) == SumFunctionOnSet(f, s)
           Bad == {s \in SUBSET S : \E b \in s : T(s) # f[b] + T(s \ {b})}
<1>1. SUFFICES ASSUME S \in Bad PROVE FALSE
  OBVIOUS
<1>2. PICK s \in Bad : \A u \in SUBSET s : u # s => u \notin Bad
  <2>1. Bad \in SUBSET (SUBSET S)
    OBVIOUS
  <2> HIDE DEF Bad
  <2> QED BY <1>1, <2>1, Smallest
<1>3. PICK b \in s : T(s) # f[b] + T(s \ {b})
  BY <1>2
<1>4. s \in SUBSET S
  BY <1>2
<1>5. \A u \in SUBSET S : IsFiniteSet(u) /\ T(u) \in Int
  BY FS_Subset, SumIsInt
<1>6. PICK y \in s : T(s) = f[y] + T(s \ {y})
  BY <1>3, <1>4, <1>5, SumChosen
<1>7. y # b
  BY <1>3, <1>6
<1>8. ASSUME NEW c \in s, NEW d \in s, c # d
      PROVE  T(s \ {c}) = f[d] + T((s \ {c}) \ {d})
  <2>1. s \ {c} \in SUBSET s /\ s \ {c} # s /\ d \in s \ {c}
    BY <1>8
  <2>2. s \ {c} \notin Bad
    BY <1>2, <2>1
  <2> QED BY <1>4, <2>1, <2>2
<1>9. T(s \ {y}) = f[b] + T((s \ {y}) \ {b})
  BY <1>7, <1>8
<1>10. T(s \ {b}) = f[y] + T((s \ {b}) \ {y})
  BY <1>7, <1>8
<1>11. (s \ {b}) \ {y} = (s \ {y}) \ {b}
  OBVIOUS
<1> DEFINE rest == T((s \ {y}) \ {b})
<1>12. rest \in Int /\ f[b] \in Int /\ f[y] \in Int
  BY <1>3, <1>4, <1>5, <1>6
<1>13. T(s) = f[y] + (f[b] + rest) /\ T(s \ {b}) = f[y] + rest
  BY <1>6, <1>9, <1>10, <1>11
<1> HIDE DEF T, rest
<1> QED BY <1>3, <1>12, <1>13

\* What is zero adds nothing.
LEMMA SumSame ==
  ASSUME NEW S, IsFiniteSet(S), NEW f, NEW h, NEW K,
         \A x \in S : f[x] = (IF x \in K THEN h[x] ELSE 0),
         \A x \in S \cap K : h[x] \in Int
  PROVE  SumFunctionOnSet(f, S) = SumFunctionOnSet(h, S \cap K)
<1> DEFINE Bad == {s \in SUBSET S :
                     SumFunctionOnSet(f, s) # SumFunctionOnSet(h, s \cap K)}
<1>1. SUFFICES ASSUME S \in Bad PROVE FALSE
  OBVIOUS
<1>2. PICK s \in Bad : \A u \in SUBSET s : u # s => u \notin Bad
  <2>1. Bad \in SUBSET (SUBSET S)
    OBVIOUS
  <2> HIDE DEF Bad
  <2> QED BY <1>1, <2>1, Smallest
<1>3. s \in SUBSET S /\ SumFunctionOnSet(f, s) # SumFunctionOnSet(h, s \cap K)
  BY <1>2
<1>4. IsFiniteSet(s) /\ IsFiniteSet(s \cap K)
  BY <1>3, FS_Subset
<1>5. s # {}
  <2>1. SUFFICES ASSUME s = {} PROVE FALSE
    OBVIOUS
  <2>2. s \cap K = {}
    BY <2>1
  <2> QED BY <1>3, <1>4, <2>1, <2>2, SumChosen
<1>6. PICK y \in s : SumFunctionOnSet(f, s) = f[y] + SumFunctionOnSet(f, s \ {y})
  BY <1>4, <1>5, SumChosen
<1>7. SumFunctionOnSet(f, s \ {y}) = SumFunctionOnSet(h, (s \ {y}) \cap K)
  BY <1>2, <1>3, <1>6
<1>8. CASE y \in K
  <2>1. (s \ {y}) \cap K = (s \cap K) \ {y} /\ y \in s \cap K
    BY <1>6, <1>8
  <2>2. \A x \in s \cap K : h[x] \in Int
    BY <1>3
  <2>3. SumFunctionOnSet(h, s \cap K) = h[y] + SumFunctionOnSet(h, (s \cap K) \ {y})
    BY <1>4, <2>1, <2>2, SumRemove
  <2>4. f[y] = h[y]
    BY <1>3, <1>6, <1>8
  <2>5. SumFunctionOnSet(f, s) = h[y] + SumFunctionOnSet(h, (s \cap K) \ {y})
    BY <1>6, <1>7, <2>1, <2>4
  <2> QED BY <1>3, <2>3, <2>5
<1>9. CASE y \notin K
  <2>1. (s \ {y}) \cap K = s \cap K /\ f[y] = 0
    BY <1>3, <1>6, <1>9
  <2> DEFINE sum == SumFunctionOnSet(h, s \cap K)
  <2>2. sum \in Int
    BY <1>3, <1>4, SumIsInt
  <2>3. SumFunctionOnSet(f, s) = 0 + sum
    BY <1>6, <1>7, <2>1
  <2>4. 0 + sum = sum
    <3> HIDE DEF sum
    <3> QED BY <2>2
  <2> QED BY <1>3, <2>3, <2>4
<1> QED BY <1>8, <1>9

\* What a function makes of a finite set is finite, and as large when no two agree.
LEMMA FiniteImage ==
  ASSUME NEW f, NEW S, IsFiniteSet(S)
  PROVE  /\ IsFiniteSet({f[x] : x \in S})
         /\ (\A x, y \in S : f[x] = f[y] => x = y) => Cardinality({f[x] : x \in S}) = Cardinality(S)
<1> DEFINE T == {f[x] : x \in S}
           g == [x \in S |-> f[x]]
<1>1. g \in Surjection(S, T)
  BY DEF Surjection
<1>2. IsFiniteSet(T) /\ (Cardinality(T) = Cardinality(S) <=> g \in Injection(S, T))
  BY <1>1, FS_Surjection
<1>3. ASSUME \A x, y \in S : f[x] = f[y] => x = y PROVE g \in Injection(S, T)
  BY <1>3 DEF Injection, IsInjective
<1> QED
  BY <1>2, <1>3

\* A sum of twice the terms is twice the sum.
LEMMA SumDoubles ==
  ASSUME NEW f, NEW h, NEW S, IsFiniteSet(S), \A x \in S : h[x] \in Int /\ f[x] = 2 * h[x]
  PROVE  SumFunctionOnSet(f, S) = 2 * SumFunctionOnSet(h, S)
<1> DEFINE Bad == {s \in SUBSET S : SumFunctionOnSet(f, s) # 2 * SumFunctionOnSet(h, s)}
<1>1. SUFFICES ASSUME S \in Bad PROVE FALSE
  OBVIOUS
<1>2. PICK s \in Bad : \A u \in SUBSET s : u # s => u \notin Bad
  <2>1. Bad \in SUBSET (SUBSET S)
    OBVIOUS
  <2> HIDE DEF Bad
  <2> QED BY <1>1, <2>1, Smallest
<1>3. s \in SUBSET S /\ SumFunctionOnSet(f, s) # 2 * SumFunctionOnSet(h, s)
  BY <1>2
<1>4. IsFiniteSet(s)
  BY <1>3, FS_Subset
<1>5. s # {}
  <2>1. SUFFICES ASSUME s = {} PROVE FALSE
    OBVIOUS
  <2> QED BY <1>3, <1>4, <2>1, SumChosen
<1>6. PICK y \in s : SumFunctionOnSet(f, s) = f[y] + SumFunctionOnSet(f, s \ {y})
  BY <1>4, <1>5, SumChosen
<1>7. SumFunctionOnSet(f, s \ {y}) = 2 * SumFunctionOnSet(h, s \ {y})
  BY <1>2, <1>3, <1>6
<1>8. SumFunctionOnSet(h, s) = h[y] + SumFunctionOnSet(h, s \ {y})
  <2>1. \A x \in s : h[x] \in Int
    BY <1>3
  <2> QED BY <1>4, <2>1, SumRemove
<1> DEFINE rest == SumFunctionOnSet(h, s \ {y})
<1>9. rest \in Int /\ h[y] \in Int /\ f[y] = 2 * h[y]
  <2>1. IsFiniteSet(s \ {y}) /\ \A x \in s \ {y} : h[x] \in Int
    BY <1>3, <1>4, FS_RemoveElement
  <2> QED BY <1>3, <1>6, <2>1, SumIsInt
<1>10. SumFunctionOnSet(f, s) = 2 * h[y] + 2 * rest
  BY <1>6, <1>7, <1>9
<1>11. SumFunctionOnSet(h, s) = h[y] + rest
  BY <1>8
<1> HIDE DEF rest
<1>12. 2 * h[y] + 2 * rest = 2 * (h[y] + rest)
  BY <1>9
<1> QED BY <1>3, <1>10, <1>11, <1>12

LEMMA SumIsNat ==
  ASSUME NEW f, NEW S, IsFiniteSet(S), \A x \in S : f[x] \in Nat
  PROVE  SumFunctionOnSet(f, S) \in Nat
<1> DEFINE Bad == {s \in SUBSET S : SumFunctionOnSet(f, s) \notin Nat}
<1>1. SUFFICES ASSUME S \in Bad PROVE FALSE
  OBVIOUS
<1>2. PICK s \in Bad : \A u \in SUBSET s : u # s => u \notin Bad
  <2>1. Bad \in SUBSET (SUBSET S)
    OBVIOUS
  <2> HIDE DEF Bad
  <2> QED BY <1>1, <2>1, Smallest
<1>3. IsFiniteSet(s)
  BY <1>2, FS_Subset
<1>4. CASE s = {}
  <2>1. SumFunctionOnSet(f, s) = 0
    BY <1>4, <1>3, SumChosen
  <2> QED BY <1>2, <2>1
<1>5. CASE s # {}
  <2>1. PICK x \in s : SumFunctionOnSet(f, s) = f[x] + SumFunctionOnSet(f, s \ {x})
    BY <1>3, <1>5, SumChosen
  <2>2. SumFunctionOnSet(f, s \ {x}) \in Nat
    BY <1>2
  <2>3. f[x] \in Nat
    BY <1>2
  <2> QED BY <1>2, <2>1, <2>2, <2>3
<1> QED BY <1>4, <1>5

\* A sequence with one element more.
WithAt(new, S, s, i, e) ==
  /\ new \in Seq(S) /\ Len(new) = Len(s) + 1 /\ DOMAIN new = 1 .. Len(s) + 1
  /\ \A l \in 1 .. Len(s) + 1 :
       new[l] = IF l < i THEN s[l] ELSE IF l = i THEN e ELSE s[l - 1]

LEMMA InsertAtProperties ==
  ASSUME NEW S, NEW s \in Seq(S), NEW i \in 1 .. Len(s) + 1, NEW e \in S
  PROVE  WithAt(InsertAt(s, i, e), S, s, i, e)
<1> DEFINE n == Len(s)
           a == SubSeq(s, 1, i - 1)
           b == SubSeq(s, i, n)
           c == a \o <<e>>
<1>1. n \in Nat /\ DOMAIN s = 1 .. n /\ \A k \in 1 .. n : s[k] \in S
  OBVIOUS
<1>0. i \in 1 .. n + 1
  OBVIOUS
<1> HIDE DEF n
<1>2. a \in Seq(S) /\ Len(a) = i - 1 /\ \A k \in 1 .. i - 1 : a[k] = s[k]
  <2>1. \A k \in 1 .. i - 1 : s[k] \in S
    BY <1>0, <1>1
  <2>2. /\ Len(a) = IF 1 <= i - 1 THEN i - 1 - 1 + 1 ELSE 0
        /\ \A k \in 1 .. i - 1 - 1 + 1 : a[k] = s[1 + k - 1]
        /\ a \in Seq(S)
    BY <1>0, <1>1, <2>1, SubSeqProperties DEF n
  <2> QED
    BY <1>0, <1>1, <2>2
<1>3. b \in Seq(S) /\ Len(b) = n - i + 1 /\ \A k \in 1 .. n - i + 1 : b[k] = s[i + k - 1]
  <2>1. \A k \in i .. n : s[k] \in S
    BY <1>0, <1>1
  <2>2. /\ Len(b) = IF i <= n THEN n - i + 1 ELSE 0
        /\ \A k \in 1 .. n - i + 1 : b[k] = s[i + k - 1]
        /\ b \in Seq(S)
    BY <1>0, <1>1, <2>1, SubSeqProperties DEF n
  <2> QED
    BY <1>0, <1>1, <2>2
<1>4. InsertAt(s, i, e) = c \o b
  BY DEF InsertAt, n
<1>5. <<e>> \in Seq(S) /\ Len(<<e>>) = 1 /\ <<e>>[1] = e
  OBVIOUS
<1> DEFINE o == <<e>>
<1> HIDE DEF a, b, o
<1>6. /\ a \o o \in Seq(S) /\ Len(a \o o) = Len(a) + Len(o)
      /\ \A k \in 1 .. Len(a) + Len(o) : (a \o o)[k] = IF k <= Len(a) THEN a[k] ELSE o[k - Len(a)]
  BY <1>2, <1>5, ConcatProperties DEF o
<1>7. /\ c \in Seq(S) /\ Len(c) = i
      /\ \A k \in 1 .. i : c[k] = IF k < i THEN s[k] ELSE e
  <2>1. i \in Nat /\ 1 <= i
    BY <1>0, <1>1
  <2>2. Len(a) = i - 1 /\ Len(o) = 1 /\ o[1] = e
    BY <1>2, <1>5 DEF o
  <2>3. Len(a) + Len(o) = i
    BY <2>1, <2>2
  <2>4. ASSUME NEW k \in 1 .. i PROVE (a \o o)[k] = IF k < i THEN s[k] ELSE e
    <3>1. CASE k < i
      <4>1. k \in 1 .. i - 1 /\ k <= Len(a)
        BY <2>1, <2>2, <3>1
      <4>2. (a \o o)[k] = a[k]
        BY <1>6, <2>3, <4>1
      <4> QED
        BY <1>2, <3>1, <4>1, <4>2
    <3>2. CASE ~(k < i)
      <4>1. k - Len(a) = 1 /\ ~(k <= Len(a)) /\ k \in 1 .. Len(a) + Len(o)
        BY <2>1, <2>2, <3>2
      <4>2. (a \o o)[k] = o[k - Len(a)]
        BY <1>6, <4>1
      <4> QED
        BY <2>2, <3>2, <4>1, <4>2
    <3> QED
      BY <3>1, <3>2
  <2> QED
    BY <1>6, <2>3, <2>4 DEF o
<1> HIDE DEF c
<1>8. /\ c \o b \in Seq(S) /\ Len(c \o b) = Len(c) + Len(b)
      /\ \A k \in 1 .. Len(c) + Len(b) : (c \o b)[k] = IF k <= Len(c) THEN c[k] ELSE b[k - Len(c)]
  BY <1>3, <1>7, ConcatProperties
<1>9. Len(c) = i /\ Len(b) = n - i + 1 /\ Len(c) + Len(b) = n + 1
  <2>1. i \in Nat /\ n \in Nat
    BY <1>0, <1>1
  <2>2. Len(c) = i
    BY <1>7
  <2>3. Len(b) = n - i + 1
    BY <1>3
  <2> QED
    BY ONLY <2>1, <2>2, <2>3
<1>10. ASSUME NEW l \in 1 .. n + 1
       PROVE  (c \o b)[l] = IF l < i THEN s[l] ELSE IF l = i THEN e ELSE s[l - 1]
  <2>1. CASE l <= i
    <3>1. l \in 1 .. i
      BY <1>0, <1>1, <2>1
    <3>2. (c \o b)[l] = c[l]
      BY <1>8, <1>9, <2>1
    <3> QED
      BY <1>0, <1>1, <1>7, <2>1, <3>1, <3>2
  <2>2. CASE ~(l <= i)
    <3>1. l - i \in 1 .. n - i + 1 /\ i + (l - i) - 1 = l - 1 /\ ~(l < i) /\ l # i
      BY <1>0, <1>1, <2>2
    <3>2. (c \o b)[l] = b[l - i]
      BY <1>8, <1>9, <2>2
    <3> QED
      BY <1>3, <3>1, <3>2
  <2> QED
    BY <2>1, <2>2
<1>11. c \o b \in Seq(S) /\ Len(c \o b) = n + 1 /\ DOMAIN (c \o b) = 1 .. n + 1
  BY <1>1, <1>8, <1>9, LenProperties
<1> QED
  BY <1>4, <1>10, <1>11 DEF n, WithAt

\* A sequence that holds nothing twice has as many places as members.
LEMMA DistinctLen ==
  ASSUME NEW S, NEW s \in Seq(S), \A k, l \in DOMAIN s : s[k] = s[l] => k = l
  PROVE  Cardinality(ToSet(s)) = Len(s)
<1>1. Len(s) \in Nat /\ DOMAIN s = 1 .. Len(s)
  BY LenProperties
<1>2. IsFiniteSet(DOMAIN s) /\ Cardinality(DOMAIN s) = Len(s)
  BY <1>1, FS_Interval
<1>3. Cardinality({s[x] : x \in DOMAIN s}) = Cardinality(DOMAIN s)
  BY <1>2, FiniteImage
<1> QED
  BY <1>2, <1>3 DEF ToSet
===============================================================================
