----------------------------- MODULE RiskProofs -----------------------------
(***************************************************************************)
(* Proofs about the way of a risk: from the feeds into the database, from  *)
(* the database into a finding, from the finding to a score, an SLA and a  *)
(* gate, and from there into tickets, totals and the trend (VdbIngest,     *)
(* Scoring, PolicyMatrix, Rescoring, Console).                             *)
(*                                                                         *)
(* First come numbers and sums.  What a sum over a finite set is, is shown *)
(* by least counterexamples: a set of as few elements as possible whose    *)
(* sum is wrong.  Then what the scores and enrichment answer, and that     *)
(* they grow with their inputs; then the theorems about Rescoring.  The    *)
(* second half is two inductive invariants: VdbInv of the imports, and     *)
(* ConsoleInv, which contains it, of the console.                          *)
(***************************************************************************)
EXTENDS Console, Rescoring, FiniteSetTheorems, WellFoundedInduction, TLAPS

-----------------------------------------------------------------------------
(* Lemmas about numbers.                                                   *)

LEMMA LeastOf ==
  ASSUME NEW S \in SUBSET Nat, S # {}
  PROVE  Min(S) \in S /\ \A y \in S : Min(S) <= y
<1> DEFINE R == OpToRel(<, Nat)
<1>1. IsWellFoundedOn(R, Nat)
  BY NatLessThanWellFounded, Zenon
<1>2. \A x, y \in Nat : <<y, x>> \in R <=> y < x
  BY DEF OpToRel
<1> HIDE DEF R
<1>3. PICK x \in S : \A y \in S : ~(<<y, x>> \in R)
  BY <1>1, WFMin
<1>4. \A y \in S : x <= y
  <2>1. \A y \in S : y \in Nat /\ x \in Nat /\ ~(y < x)
    BY <1>2, <1>3
  <2> QED
    BY <2>1
<1> QED
  BY <1>4 DEF Min

LEMMA GreatestOf ==
  ASSUME NEW S \in SUBSET Int, NEW b \in Int, \A y \in S : y <= b, S # {}
  PROVE  Max(S) \in S /\ \A y \in S : Max(S) >= y
<1> DEFINE T == {b - x : x \in S}
<1>1. T \in SUBSET Nat /\ T # {}
  <2>1. \A x \in S : b - x \in Nat
    OBVIOUS
  <2> QED
    BY <2>1
<1> HIDE DEF T
<1>2. Min(T) \in T /\ \A y \in T : Min(T) <= y
  BY <1>1, LeastOf
<1>3. PICK x \in S : Min(T) = b - x
  BY <1>2 DEF T
<1>4. \A y \in S : b - x <= b - y
  BY <1>2, <1>3 DEF T
<1>5. \A y \in S : x >= y
  BY <1>3, <1>4
<1> QED
  BY <1>5 DEF Max

-----------------------------------------------------------------------------
(* Lemmas about sums.                                                      *)

AnyOf(s) == CHOOSE x \in s : TRUE

(* g gives the sum of w over every subset of D.                            *)
SumsUp(g, w, D) ==
  g = [s \in SUBSET D |-> IF s = {} THEN 0 ELSE w[AnyOf(s)] + g[s \ {AnyOf(s)}]]

LEMMA SumUnfold ==
  ASSUME NEW w
  PROVE  SumFunction(w) = (CHOOSE g : SumsUp(g, w, DOMAIN w))[DOMAIN w]
BY DEF SumFunction, SumFunctionOnSet, FoldFunctionOnSet, MapThenFoldSet, SumsUp, AnyOf

LEMMA OneLess ==
  ASSUME NEW s, IsFiniteSet(s), NEW x \in s
  PROVE  /\ IsFiniteSet(s \ {x}) /\ Cardinality(s) \in Nat /\ Cardinality(s) # 0
         /\ Cardinality(s \ {x}) = Cardinality(s) - 1
         /\ Cardinality(s \ {x}) \in Nat
  BY FS_RemoveElement, FS_CardinalityType, FS_EmptySet

(* There is such a g, by induction on the size of the subsets.             *)
LEMMA SumExists ==
  ASSUME NEW D, IsFiniteSet(D), NEW w \in [D -> Int]
  PROVE  \E g \in [SUBSET D -> Int] : SumsUp(g, w, D)
<1> DEFINE Upto(n) == {s \in SUBSET D : Cardinality(s) <= n}
           Good(g, n) == \A s \in Upto(n) : g[s] = IF s = {} THEN 0 ELSE w[AnyOf(s)] + g[s \ {AnyOf(s)}]
           Bad == {n \in Nat : \A g \in [Upto(n) -> Int] : ~Good(g, n)}
<1>1. /\ \A s \in SUBSET D : IsFiniteSet(s) /\ Cardinality(s) \in Nat
      /\ \A s \in SUBSET D : s # {} => AnyOf(s) \in s /\ w[AnyOf(s)] \in Int
      /\ \A s \in SUBSET D : s # {} => Cardinality(s \ {AnyOf(s)}) = Cardinality(s) - 1
  <2>1. \A s \in SUBSET D : IsFiniteSet(s) /\ Cardinality(s) \in Nat
    BY FS_Subset, FS_CardinalityType
  <2>2. \A s \in SUBSET D : s # {} => AnyOf(s) \in s
    BY DEF AnyOf
  <2> QED
    BY <2>1, <2>2, OneLess
<1>2. 0 \notin Bad
  <2> DEFINE g == [s \in Upto(0) |-> 0]
  <2>1. \A s \in Upto(0) : s = {}
    BY <1>1, FS_EmptySet
  <2>2. g \in [Upto(0) -> Int] /\ Good(g, 0)
    BY <2>1
  <2> QED
    BY <2>2
<1>3. ASSUME NEW n \in Nat, n \notin Bad
      PROVE  n + 1 \notin Bad
  <2>1. PICK g \in [Upto(n) -> Int] : Good(g, n)
    BY <1>3
  <2> DEFINE h == [s \in Upto(n + 1) |->
                     IF Cardinality(s) <= n THEN g[s] ELSE w[AnyOf(s)] + g[s \ {AnyOf(s)}]]
  <2>2. \A s \in Upto(n + 1) : ~(Cardinality(s) <= n) =>
          s # {} /\ s \ {AnyOf(s)} \in Upto(n)
    <3> SUFFICES ASSUME NEW s \in Upto(n + 1), ~(Cardinality(s) <= n)
                 PROVE  s # {} /\ s \ {AnyOf(s)} \in Upto(n)
      OBVIOUS
    <3>1. ASSUME s = {}
          PROVE  FALSE
      <4>1. Cardinality(s) = 0
        BY <3>1, FS_EmptySet
      <4> QED
        BY <4>1
    <3> QED
      BY <1>1, <3>1
  <2>3. h \in [Upto(n + 1) -> Int]
    <3> SUFFICES ASSUME NEW s \in Upto(n + 1)
                 PROVE  h[s] \in Int
      OBVIOUS
    <3>1. CASE Cardinality(s) <= n
      BY <3>1
    <3>2. CASE ~(Cardinality(s) <= n)
      <4>1. s # {} /\ g[s \ {AnyOf(s)}] \in Int
        BY <2>2, <3>2
      <4> QED
        BY <1>1, <3>2, <4>1
    <3> QED
      BY <3>1, <3>2
  <2>4. Good(h, n + 1)
    <3> SUFFICES ASSUME NEW s \in Upto(n + 1)
                 PROVE  h[s] = IF s = {} THEN 0 ELSE w[AnyOf(s)] + h[s \ {AnyOf(s)}]
      OBVIOUS
    <3>1. CASE s = {}
      BY <2>1, <3>1, FS_EmptySet
    <3>2. CASE s # {}
      <4>1. /\ s \ {AnyOf(s)} \in Upto(n) /\ s \ {AnyOf(s)} \in Upto(n + 1)
            /\ Cardinality(s \ {AnyOf(s)}) <= n
        BY <1>1, <3>2
      <4>2. h[s \ {AnyOf(s)}] = g[s \ {AnyOf(s)}]
        BY <4>1
      <4>3. CASE Cardinality(s) <= n
        BY <2>1, <3>2, <4>2, <4>3
      <4>4. CASE ~(Cardinality(s) <= n)
        BY <3>2, <4>2, <4>4
      <4> QED
        BY <4>3, <4>4
    <3> QED
      BY <3>1, <3>2
  <2> HIDE DEF h, Good
  <2> QED
    BY <2>3, <2>4
<1>4. Bad = {}
  <2> SUFFICES ASSUME Bad # {}
               PROVE  FALSE
    OBVIOUS
  <2> DEFINE m == Min(Bad)
  <2>1. m \in Bad /\ \A y \in Bad : m <= y
    <3>1. Bad \in SUBSET Nat
      OBVIOUS
    <3> HIDE DEF Bad
    <3> QED
      BY <3>1, LeastOf
  <2>2. m \in Nat /\ m # 0
    BY <1>2, <2>1
  <2> HIDE DEF m, Bad
  <2>3. m - 1 \in Nat /\ m - 1 \notin Bad
    BY <2>1, <2>2
  <2> QED
    BY <1>3, <2>1, <2>2, <2>3
<1>5. Cardinality(D) \in Nat /\ Upto(Cardinality(D)) = SUBSET D
  BY FS_Subset, FS_CardinalityType
<1>6. PICK g \in [SUBSET D -> Int] : Good(g, Cardinality(D))
  BY <1>4, <1>5
<1>7. SumsUp(g, w, D)
  BY <1>5, <1>6 DEF SumsUp
<1> QED
  BY <1>7

(* What the sum over a set is, whichever member is taken first.            *)
SumsAnyhow(g, w, D) ==
  /\ g[{}] = 0
  /\ \A s \in SUBSET D : g[s] \in Int
  /\ \A s \in SUBSET D : \A x \in s : g[s] = w[x] + g[s \ {x}]

LEMMA SumTakes ==
  ASSUME NEW D, IsFiniteSet(D), NEW w \in [D -> Int], NEW g, SumsUp(g, w, D)
  PROVE  SumsAnyhow(g, w, D)
<1> DEFINE Good(s) == g[s] \in Int /\ \A x \in s : g[s] = w[x] + g[s \ {x}]
           Bad == {n \in Nat : \E s \in SUBSET D : Cardinality(s) = n /\ ~Good(s)}
<1>1. /\ \A s \in SUBSET D : IsFiniteSet(s) /\ Cardinality(s) \in Nat
      /\ \A s \in SUBSET D : s # {} => AnyOf(s) \in s
      /\ \A s \in SUBSET D : \A x \in s : w[x] \in Int /\ Cardinality(s \ {x}) = Cardinality(s) - 1
  <2>1. \A s \in SUBSET D : IsFiniteSet(s) /\ Cardinality(s) \in Nat
    BY FS_Subset, FS_CardinalityType
  <2>2. \A s \in SUBSET D : s # {} => AnyOf(s) \in s
    BY DEF AnyOf
  <2>3. \A s \in SUBSET D : \A x \in s : Cardinality(s \ {x}) = Cardinality(s) - 1
    BY <2>1, OneLess
  <2> QED
    BY <2>1, <2>2, <2>3
<1>2. \A s \in SUBSET D : g[s] = IF s = {} THEN 0 ELSE w[AnyOf(s)] + g[s \ {AnyOf(s)}]
  <2> DEFINE f == [s \in SUBSET D |-> IF s = {} THEN 0 ELSE w[AnyOf(s)] + g[s \ {AnyOf(s)}]]
  <2>1. g = f
    BY DEF SumsUp
  <2>2. \A s \in SUBSET D : f[s] = IF s = {} THEN 0 ELSE w[AnyOf(s)] + g[s \ {AnyOf(s)}]
    OBVIOUS
  <2> HIDE DEF f
  <2> QED
    BY <2>1, <2>2
<1>3. ASSUME NEW m \in Bad, \A n \in Bad : m <= n
      PROVE  FALSE
  <2>1. PICK s \in SUBSET D : Cardinality(s) = m /\ ~Good(s)
    OBVIOUS
  <2>2. m \in Nat /\ \A n \in Nat : n < m => n \notin Bad
    BY <1>3
  <2>3. \A t \in SUBSET D : Cardinality(t) < m => Good(t)
    BY <1>1, <2>2
  <2> HIDE DEF Good, Bad
  <2>4. CASE s = {}
    <3>1. g[s] = 0
      BY <1>2, <2>4
    <3>2. Good(s)
      BY <2>4, <3>1 DEF Good
    <3> QED
      BY <2>1, <3>2
  <2>5. CASE s # {}
    <3> DEFINE c == AnyOf(s)
    <3>1. c \in s /\ g[s] = w[c] + g[s \ {c}] /\ s \ {c} \in SUBSET D /\ w[c] \in Int
      BY <1>1, <1>2, <2>5
    <3>2. Good(s \ {c})
      <4>1. Cardinality(s \ {c}) < m
        BY <1>1, <2>1, <3>1
      <4> QED
        BY <2>3, <3>1, <4>1
    <3> HIDE DEF c
    <3>3. ASSUME NEW x \in s
          PROVE  g[s] = w[x] + g[s \ {x}]
      <4>1. CASE x = c
        BY <3>1, <4>1
      <4>2. CASE x # c
        <5>1. x \in s \ {c} /\ c \in s \ {x} /\ (s \ {c}) \ {x} = (s \ {x}) \ {c}
          BY <3>1, <4>2
        <5>2. g[s \ {c}] = w[x] + g[(s \ {c}) \ {x}] /\ g[s \ {c}] \in Int
          BY <3>2, <5>1 DEF Good
        <5>3. Good(s \ {x}) /\ w[x] \in Int
          <6>1. Cardinality(s \ {x}) < m /\ s \ {x} \in SUBSET D /\ w[x] \in Int
            BY <1>1, <2>1
          <6> QED
            BY <2>3, <6>1
        <5>4. g[s \ {x}] = w[c] + g[(s \ {x}) \ {c}] /\ g[s \ {x}] \in Int
          BY <5>1, <5>3 DEF Good
        <5>5. g[(s \ {x}) \ {c}] \in Int
          <6>1. (s \ {x}) \ {c} \in SUBSET D /\ Cardinality((s \ {x}) \ {c}) < m
            <7>1. s \ {x} \in SUBSET D /\ Cardinality(s \ {x}) = m - 1
              BY <1>1, <2>1
            <7>2. Cardinality((s \ {x}) \ {c}) = Cardinality(s \ {x}) - 1
              BY <1>1, <5>1, <7>1
            <7> QED
              BY <2>2, <7>1, <7>2
          <6> QED
            BY <2>3, <6>1 DEF Good
        <5>6. PICK a \in Int, b \in Int, k \in Int :
                a = w[x] /\ b = w[c] /\ k = g[(s \ {x}) \ {c}]
          BY <3>1, <5>3, <5>5
        <5>7. g[s \ {c}] = a + k /\ g[s \ {x}] = b + k
          BY <5>1, <5>2, <5>4, <5>6
        <5>8. g[s] = b + (a + k) /\ b + (a + k) = a + (b + k)
          BY <3>1, <5>6, <5>7
        <5> QED
          BY <5>6, <5>7, <5>8
      <4> QED
        BY <4>1, <4>2
    <3>4. g[s] \in Int
      BY <3>1, <3>2 DEF Good
    <3> QED
      BY <2>1, <3>3, <3>4 DEF Good
  <2> QED
    BY <2>4, <2>5
<1>4. Bad = {}
  <2>1. Bad \in SUBSET Nat
    OBVIOUS
  <2> HIDE DEF Bad
  <2>2. Bad # {} => Min(Bad) \in Bad /\ \A n \in Bad : Min(Bad) <= n
    BY <2>1, LeastOf
  <2> QED
    BY <1>3, <2>2
<1>5. \A s \in SUBSET D : Good(s)
  BY <1>1, <1>4
<1>6. g[{}] = 0
  BY <1>2
<1> QED
  BY <1>5, <1>6 DEF SumsAnyhow

(* Sums over a set agree when the summands do.                             *)
LEMMA SumAgrees ==
  ASSUME NEW D, IsFiniteSet(D), NEW w \in [D -> Int], NEW g, SumsUp(g, w, D),
         NEW E, IsFiniteSet(E), NEW v \in [E -> Int], NEW h, SumsUp(h, v, E),
         NEW S, S \subseteq D, S \subseteq E, \A x \in S : w[x] = v[x]
  PROVE  g[S] = h[S]
<1> DEFINE Bad == {n \in Nat : \E s \in SUBSET S : Cardinality(s) = n /\ g[s] # h[s]}
<1>1. \A s \in SUBSET S : s \in SUBSET D /\ s \in SUBSET E /\ IsFiniteSet(s) /\ Cardinality(s) \in Nat
  BY FS_Subset, FS_CardinalityType
<1>2. ASSUME NEW m \in Bad, \A n \in Bad : m <= n
      PROVE  FALSE
  <2>1. PICK s \in SUBSET S : Cardinality(s) = m /\ g[s] # h[s]
    OBVIOUS
  <2>2. s # {}
    <3>1. g[{}] = 0 /\ h[{}] = 0
      BY SumTakes DEF SumsAnyhow
    <3> QED
      BY <2>1, <3>1
  <2>3. PICK x \in s : TRUE
    BY <2>2
  <2>4. g[s] = w[x] + g[s \ {x}] /\ h[s] = v[x] + h[s \ {x}] /\ w[x] = v[x]
    <3>1. s \in SUBSET D /\ s \in SUBSET E
      BY <1>1
    <3>2. SumsAnyhow(g, w, D) /\ SumsAnyhow(h, v, E)
      BY SumTakes
    <3> QED
      BY <3>1, <3>2 DEF SumsAnyhow
  <2>5. s \ {x} \in SUBSET S /\ Cardinality(s \ {x}) \in Nat /\ Cardinality(s \ {x}) < m
    BY <1>1, <2>1, OneLess
  <2>6. g[s \ {x}] = h[s \ {x}]
    <3>1. \A n \in Nat : n < m => n \notin Bad
      <4>1. m \in Nat
        OBVIOUS
      <4> HIDE DEF Bad
      <4>2. \A n \in Bad : m <= n
        BY <1>2
      <4>3. ASSUME NEW n \in Nat, n < m, n \in Bad
            PROVE  FALSE
        <5>1. m <= n
          BY <4>2, <4>3
        <5> QED
          BY <4>1, <4>3, <5>1
      <4> QED
        BY <4>3
    <3>2. Cardinality(s \ {x}) \notin Bad
      <4> HIDE DEF Bad
      <4> QED
        BY <2>5, <3>1
    <3> QED
      BY <2>5, <3>2
  <2> QED
    BY <2>1, <2>4, <2>6
<1>3. Bad = {}
  <2>1. Bad \in SUBSET Nat
    OBVIOUS
  <2> HIDE DEF Bad
  <2>2. Bad # {} => Min(Bad) \in Bad /\ \A n \in Bad : Min(Bad) <= n
    BY <2>1, LeastOf
  <2> QED
    BY <1>2, <2>2
<1>4. S \in SUBSET S /\ Cardinality(S) \in Nat
  BY <1>1
<1> QED
  BY <1>3, <1>4

LEMMA SumOfNone ==
  ASSUME NEW w, DOMAIN w = {}
  PROVE  SumFunction(w) = 0
<1>1. IsFiniteSet({})
  BY FS_EmptySet
<1>2. \E g : SumsUp(g, w, {})
  <2> DEFINE g == [s \in SUBSET {} |-> 0]
  <2>1. g = [s \in SUBSET {} |-> IF s = {} THEN 0 ELSE w[AnyOf(s)] + g[s \ {AnyOf(s)}]]
    OBVIOUS
  <2> QED
    BY <2>1 DEF SumsUp
<1>3. PICK g : g = (CHOOSE f : SumsUp(f, w, {})) /\ SumsUp(g, w, {})
  BY <1>2
<1>4. g[{}] = 0
  BY <1>3 DEF SumsUp
<1> QED
  BY <1>3, <1>4, SumUnfold

(* One summand more.                                                       *)
LEMMA SumAdds ==
  ASSUME NEW D, IsFiniteSet(D), NEW w \in [D -> Int], NEW x, x \notin D,
         NEW v \in [D \cup {x} -> Int], \A y \in D : v[y] = w[y]
  PROVE  /\ SumFunction(w) \in Int
         /\ SumFunction(v) = v[x] + SumFunction(w)
<1> DEFINE E == D \cup {x}
<1>1. IsFiniteSet(E) /\ DOMAIN w = D /\ DOMAIN v = E
  BY FS_AddElement
<1>2. PICK g : g = (CHOOSE f : SumsUp(f, w, D)) /\ SumsUp(g, w, D)
  BY SumExists
<1>3. PICK h : h = (CHOOSE f : SumsUp(f, v, E)) /\ SumsUp(h, v, E)
  <2> HIDE DEF E
  <2> QED
    BY <1>1, SumExists DEF E
<1>4. SumFunction(w) = g[D] /\ SumFunction(v) = h[E]
  BY <1>1, <1>2, <1>3, SumUnfold
<1>5. g[D] \in Int /\ h[E] = v[x] + h[E \ {x}]
  <2>1. SumsAnyhow(g, w, D)
    BY <1>2, SumTakes
  <2>2. SumsAnyhow(h, v, E)
    <3> HIDE DEF E
    <3> QED
      BY <1>1, <1>3, SumTakes DEF E
  <2> QED
    BY <2>1, <2>2 DEF SumsAnyhow
<1>6. E \ {x} = D
  OBVIOUS
<1>7. g[D] = h[D]
  BY <1>1, <1>2, <1>3, SumAgrees
<1> QED
  BY <1>4, <1>5, <1>6, <1>7

-----------------------------------------------------------------------------
(* Lemmas about scores.                                                    *)

LEMMA LesserOf ==
  ASSUME NEW a \in Int, NEW b \in Int
  PROVE  Min({a, b}) = IF a <= b THEN a ELSE b
BY DEF Min

LEMMA RoundedBounds ==
  ASSUME NEW n \in Nat, NEW d \in Nat, d # 0
  PROVE  /\ Rounded(n, d) \in Nat
         /\ (2 * d) * Rounded(n, d) <= 2 * n + d
         /\ 2 * n + d < (2 * d) * Rounded(n, d) + 2 * d
<1> DEFINE a == 2 * n + d
           b == 2 * d
<1>1. a \in Nat /\ b \in Nat /\ b > 0 /\ Rounded(n, d) = a \div b
  BY DEF Rounded
<1> HIDE DEF a, b
<1>2. a \div b \in Nat /\ b * (a \div b) <= a /\ a < b * (a \div b) + b
  BY <1>1
<1> QED
  BY <1>1, <1>2 DEF a, b

LEMMA RoundedToHundreds ==
  ASSUME NEW n \in Nat
  PROVE  /\ Rounded(n, 100) \in Nat
         /\ 200 * Rounded(n, 100) <= 2 * n + 100
         /\ 2 * n + 100 < 200 * Rounded(n, 100) + 200
<1>1. Rounded(n, 100) = (2 * n + 100) \div 200
  BY DEF Rounded
<1> QED
  BY <1>1

LEMMA RoundedGrows ==
  ASSUME NEW n \in Nat, NEW m \in Nat, n <= m
  PROVE  Rounded(n, 100) <= Rounded(m, 100)
<1>1. Rounded(n, 100) \in Nat /\ 200 * Rounded(n, 100) <= 2 * n + 100
  BY RoundedToHundreds
<1>2. Rounded(m, 100) \in Nat /\ 2 * m + 100 < 200 * Rounded(m, 100) + 200
  BY RoundedToHundreds
<1> QED
  BY <1>1, <1>2

LEMMA WeightType ==
  ASSUME NEW c \in Criticalities
  PROVE  CriticalityWeight(c) \in {8, 10, 12, 14}
BY DEF Criticalities, CriticalityWeight

(* The fields a score is made of, as enrichment finds or leaves them.      *)
Scorable(f) ==
  f.severity \in Severities /\ f.cvss \in Int /\ f.epss \in Int /\ f.kev \in BOOLEAN

(* The same, where the numbers are in scale.                               *)
Scaled(f) ==
  /\ f.severity \in Severities
  /\ f.cvss \in -1 .. 100 /\ f.epss \in -1 .. 100 /\ f.kev \in BOOLEAN

LEMMA BaseType ==
  ASSUME NEW f, Scaled(f), NEW exposed \in BOOLEAN
  PROVE  /\ Cvss(f) \in 0 .. 100 /\ Epss(f) \in 0 .. 100
         /\ BasePoints("cvss", f, exposed) = Cvss(f) * 50
         /\ BasePoints("epss", f, exposed) = Epss(f) * 30
         /\ BasePoints("kev", f, exposed) = IF f.kev THEN 2000 ELSE 0
         /\ BasePoints("exposure", f, exposed) = IF exposed THEN 1000 ELSE 0
         /\ BaseTotal(f, exposed) \in Nat
<1>1. Cvss(f) \in 0 .. 100
  BY DEF Scaled, Cvss, SeverityCvssFloor, Severities, NoScore
<1>2. Epss(f) \in 0 .. 100
  BY DEF Scaled, Epss, NoScore
<1>3. /\ BasePoints("cvss", f, exposed) = Cvss(f) * 50
      /\ BasePoints("epss", f, exposed) = Epss(f) * 30
      /\ BasePoints("kev", f, exposed) = IF f.kev THEN 2000 ELSE 0
      /\ BasePoints("exposure", f, exposed) = IF exposed THEN 1000 ELSE 0
  BY DEF BasePoints
<1>4. BaseTotal(f, exposed) \in Nat
  <2>1. PICK c \in 0 .. 100 : c = Cvss(f)
    BY <1>1
  <2>2. PICK e \in 0 .. 100 : e = Epss(f)
    BY <1>2
  <2>3. PICK k \in {0, 2000} : k = IF f.kev THEN 2000 ELSE 0
    OBVIOUS
  <2>4. PICK x \in {0, 1000} : x = IF exposed THEN 1000 ELSE 0
    OBVIOUS
  <2>5. BaseTotal(f, exposed) = c * 50 + e * 30 + k + x
    BY <1>3, <2>1, <2>2, <2>3, <2>4, SMT DEF BaseTotal
  <2>6. c * 50 + e * 30 + k + x \in Nat
    BY SMT
  <2> QED
    BY <2>5, <2>6, SMT
<1> QED
  BY <1>1, <1>2, <1>3, <1>4, SMT

LEMMA BaseIsNat ==
  ASSUME NEW f, Scaled(f), NEW exposed \in BOOLEAN
  PROVE  BaseTotal(f, exposed) \in Nat
BY BaseType, SMT

LEMMA CappedIs ==
  ASSUME NEW base \in Nat
  PROVE  Capped(base) = IF base <= 10000 THEN base ELSE 10000
<1>1. Min({base, 10000}) = IF base <= 10000 THEN base ELSE 10000
  BY LesserOf
<1> QED
  BY <1>1 DEF Capped

(* The points a score is rounded from.                                     *)
Points(f, crit, exposed) == Capped(BaseTotal(f, exposed)) * CriticalityWeight(crit)

Scores == 0 .. 1000
ToScore(points) == Min({Rounded(points, 100), 1000})

LEMMA ToScoreIs ==
  ASSUME NEW p \in Nat
  PROVE  /\ Rounded(p, 100) \in Nat
         /\ ToScore(p) = IF Rounded(p, 100) <= 1000 THEN Rounded(p, 100) ELSE 1000
         /\ ToScore(p) \in Scores
<1>1. PICK r \in Nat : r = Rounded(p, 100)
  BY RoundedToHundreds
<1>2. Min({r, 1000}) = IF r <= 1000 THEN r ELSE 1000
  BY LesserOf, SMT
<1> QED
  BY <1>1, <1>2, SMT DEF ToScore, Scores

LEMMA ScoreIs ==
  ASSUME NEW f, Scaled(f), NEW crit \in Criticalities, NEW exposed \in BOOLEAN
  PROVE  /\ Points(f, crit, exposed) \in Nat
         /\ Score(f, crit, exposed) = ToScore(Points(f, crit, exposed))
         /\ Score(f, crit, exposed) \in Scores
<1>1. Capped(BaseTotal(f, exposed)) \in Nat
  <2>1. BaseTotal(f, exposed) \in Nat
    BY BaseIsNat, Zenon
  <2> QED
    BY <2>1, CappedIs, SMT
<1>2. CriticalityWeight(crit) \in Nat
  BY WeightType, SMT
<1>3. Points(f, crit, exposed) \in Nat
  BY <1>1, <1>2, SMT DEF Points
<1>4. Score(f, crit, exposed) = ToScore(Points(f, crit, exposed))
  BY SMT DEF Score, Points, ToScore
<1>5. \A p \in Nat : ToScore(p) \in Scores
  BY ToScoreIs
<1>6. Score(f, crit, exposed) \in Scores
  BY <1>3, <1>4, <1>5
<1> QED
  BY <1>3, <1>4, <1>6

(* Nothing but the cap bounds a score: numbers out of scale take it below  *)
(* zero, if they are below zero themselves.                                *)
LEMMA AnyScoreIs ==
  ASSUME NEW f, Scorable(f), NEW crit \in Criticalities, NEW exposed \in BOOLEAN
  PROVE  /\ Score(f, crit, exposed) \in Int /\ Score(f, crit, exposed) <= 1000
         /\ Cvss(f) \in Int /\ Epss(f) \in Int
         /\ ~BelowZero(f) => Score(f, crit, exposed) >= 0
<1>1. PICK c \in Int : c = Cvss(f)
  BY DEF Scorable, Cvss, SeverityCvssFloor, Severities, NoScore
<1>2. PICK e \in Int : e = Epss(f)
  BY DEF Scorable, Epss
<1>3. PICK k \in {0, 2000} : k = IF f.kev THEN 2000 ELSE 0
  OBVIOUS
<1>4. PICK x \in {0, 1000} : x = IF exposed THEN 1000 ELSE 0
  OBVIOUS
<1>5. PICK b \in Int : b = BaseTotal(f, exposed) /\ (c >= 0 /\ e >= 0 => b >= 0)
  <2>1. BaseTotal(f, exposed) = c * 50 + e * 30 + k + x
    BY <1>1, <1>2, <1>3, <1>4, SMT DEF BaseTotal, BasePoints
  <2>2. c * 50 + e * 30 + k + x \in Int /\ (c >= 0 /\ e >= 0 => c * 50 + e * 30 + k + x >= 0)
    BY SMT
  <2> QED
    BY <2>1, <2>2, SMT
<1>6. PICK u \in Int : u = Capped(b) /\ (b >= 0 => u >= 0)
  <2>1. Capped(b) = IF b <= 10000 THEN b ELSE 10000
    BY LesserOf DEF Capped
  <2> QED
    BY <2>1
<1>7. PICK w \in {8, 10, 12, 14} : w = CriticalityWeight(crit)
  BY WeightType
<1>8. PICK p \in Int : p = u * w /\ (u >= 0 => p >= 0)
  <2>1. u * w \in Int /\ (u >= 0 => u * w >= 0)
    BY SMT
  <2> QED
    BY <2>1
<1>9. PICK r \in Int : r = Rounded(p, 100) /\ (p >= 0 => r >= 0)
  <2>1. Rounded(p, 100) = (2 * p + 100) \div 200
    BY DEF Rounded
  <2>2. (2 * p + 100) \div 200 \in Int /\ (p >= 0 => (2 * p + 100) \div 200 >= 0)
    BY SMT
  <2> QED
    BY <2>1, <2>2
<1>10. Score(f, crit, exposed) = Min({r, 1000})
  BY <1>5, <1>6, <1>7, <1>8, <1>9, SMT DEF Score
<1>11. Min({r, 1000}) = IF r <= 1000 THEN r ELSE 1000
  BY LesserOf, SMT
<1>12. ~BelowZero(f) => c >= 0 /\ e >= 0
  BY <1>1, <1>2 DEF BelowZero
<1> QED
  BY <1>1, <1>2, <1>5, <1>6, <1>8, <1>9, <1>10, <1>11, <1>12

(* The points of a report, before they are capped.                         *)
ReportPoints(f, crit) == BaseTotal(f, Unexposed) * CriticalityWeight(crit)
ReportCapped(f, crit) == Min({ReportPoints(f, crit), 100000})

LEMMA ReportIs ==
  ASSUME NEW f, Scaled(f), NEW crit \in Criticalities
  PROVE  /\ ReportPoints(f, crit) \in Nat
         /\ ReportCapped(f, crit) \in Nat
         /\ RiskScore(f, crit) = Rounded(ReportCapped(f, crit), 100)
         /\ RiskScore(f, crit) \in Scores
<1>1. ReportPoints(f, crit) \in Nat
  <2>1. BaseTotal(f, Unexposed) \in Nat
    <3>1. Unexposed \in BOOLEAN
      BY DEF Unexposed
    <3> QED
      BY <3>1, BaseIsNat, Zenon
  <2>2. CriticalityWeight(crit) \in Nat
    BY WeightType, SMT
  <2> QED
    BY <2>1, <2>2 DEF ReportPoints
<1>2. PICK q \in Nat : q = ReportCapped(f, crit) /\ q <= 100000
  <2>1. PICK p \in Nat : p = ReportPoints(f, crit)
    BY <1>1
  <2>2. Min({p, 100000}) = IF p <= 100000 THEN p ELSE 100000
    BY LesserOf, SMT
  <2> QED
    BY <2>1, <2>2, SMT DEF ReportCapped
<1>3. RiskScore(f, crit) = Rounded(q, 100)
  BY <1>2, SMT DEF RiskScore, ReportPoints, ReportCapped
<1>4. PICK r \in Nat : r = Rounded(q, 100) /\ 200 * r <= 2 * q + 100
  BY RoundedToHundreds, SMT
<1>5. r \in Scores
  BY <1>2, <1>4, SMT DEF Scores
<1> QED
  BY <1>1, <1>2, <1>3, <1>4, <1>5, SMT

LEMMA ProductGrows ==
  ASSUME NEW a \in Nat, NEW b \in Nat, a <= b, NEW u \in Nat, NEW v \in Nat, u <= v
  PROVE  a * u <= b * v
<1>1. a * u <= b * u
  <2>1. PICK c \in Nat : b = a + c
    <3>1. b - a \in Nat /\ b = a + (b - a)
      OBVIOUS
    <3> QED
      BY <3>1
  <2>2. b * u = a * u + c * u /\ c * u \in Nat /\ a * u \in Nat
    BY <2>1
  <2> QED
    BY <2>2
<1>2. b * u <= b * v
  <2>1. PICK c \in Nat : v = u + c
    <3>1. v - u \in Nat /\ v = u + (v - u)
      OBVIOUS
    <3> QED
      BY <3>1
  <2>2. b * v = b * u + b * c /\ b * c \in Nat /\ b * u \in Nat
    BY <2>1
  <2> QED
    BY <2>2
<1>3. a * u \in Nat /\ b * u \in Nat /\ b * v \in Nat
  OBVIOUS
<1> QED
  BY <1>1, <1>2, <1>3

(* What is worse in every respect has no fewer points.                     *)
LEMMA BaseGrows ==
  ASSUME NEW f, Scaled(f), NEW i \in BOOLEAN, NEW g, Scaled(g), NEW j \in BOOLEAN,
         Cvss(f) <= Cvss(g), Epss(f) <= Epss(g), f.kev => g.kev, i => j
  PROVE  BaseTotal(f, i) <= BaseTotal(g, j)
<1>1. PICK u \in 0 .. 100, p \in 0 .. 100 : u = Cvss(f) /\ p = Epss(f)
  BY BaseType, SMT
<1>2. PICK v \in 0 .. 100, q \in 0 .. 100 : v = Cvss(g) /\ q = Epss(g)
  BY BaseType, SMT
<1>3. PICK k \in {0, 2000}, l \in {0, 2000} :
        k = (IF f.kev THEN 2000 ELSE 0) /\ l = (IF g.kev THEN 2000 ELSE 0)
  BY SMT
<1>4. PICK x \in {0, 1000}, y \in {0, 1000} :
        x = (IF i THEN 1000 ELSE 0) /\ y = (IF j THEN 1000 ELSE 0)
  BY SMT
<1>5. BaseTotal(f, i) = u * 50 + p * 30 + k + x
  BY <1>1, <1>3, <1>4, BaseType, SMT DEF BaseTotal
<1>6. BaseTotal(g, j) = v * 50 + q * 30 + l + y
  BY <1>2, <1>3, <1>4, BaseType, SMT DEF BaseTotal
<1>7. u <= v /\ p <= q /\ k <= l /\ x <= y
  BY <1>1, <1>2, <1>3, <1>4, SMT
<1>8. /\ u * 50 + p * 30 + k + x \in Nat /\ v * 50 + q * 30 + l + y \in Nat
      /\ u * 50 + p * 30 + k + x <= v * 50 + q * 30 + l + y
  BY <1>7, SMT
<1> QED
  BY <1>5, <1>6, <1>8, SMT

LEMMA UnexposedBase ==
  ASSUME NEW f, Scaled(f), NEW i \in BOOLEAN, ~i
  PROVE  BaseTotal(f, i) <= 10000
<1>1. PICK u \in 0 .. 100, p \in 0 .. 100 : u = Cvss(f) /\ p = Epss(f)
  BY BaseType, SMT
<1>2. PICK k \in {0, 2000} : k = (IF f.kev THEN 2000 ELSE 0)
  BY SMT
<1>3. BaseTotal(f, i) = u * 50 + p * 30 + k
  BY <1>1, <1>2, BaseType, SMT DEF BaseTotal
<1>4. u * 50 + p * 30 + k <= 10000
  BY SMT
<1> QED
  BY <1>3, <1>4, SMT

LEMMA ScoreGrows ==
  ASSUME NEW f, Scaled(f), NEW c \in Criticalities, NEW i \in BOOLEAN,
         NEW g, Scaled(g), NEW d \in Criticalities, NEW j \in BOOLEAN,
         BaseTotal(f, i) <= BaseTotal(g, j), CriticalityWeight(c) <= CriticalityWeight(d)
  PROVE  Score(f, c, i) <= Score(g, d, j)
<1>1. BaseTotal(f, i) \in Nat /\ BaseTotal(g, j) \in Nat
  BY BaseIsNat, Zenon
<1>2. /\ Capped(BaseTotal(f, i)) \in Nat /\ Capped(BaseTotal(g, j)) \in Nat
      /\ Capped(BaseTotal(f, i)) <= Capped(BaseTotal(g, j))
  BY <1>1, CappedIs, SMT
<1>3. Points(f, c, i) <= Points(g, d, j)
  <2>1. CriticalityWeight(c) \in Nat /\ CriticalityWeight(d) \in Nat
    BY WeightType, SMT
  <2> QED
    BY <1>2, <2>1, ProductGrows, SMT DEF Points
<1>4. /\ Points(f, c, i) \in Nat /\ Points(g, d, j) \in Nat
      /\ Score(f, c, i) = ToScore(Points(f, c, i))
      /\ Score(g, d, j) = ToScore(Points(g, d, j))
  BY ScoreIs, Zenon
<1>5. Rounded(Points(f, c, i), 100) <= Rounded(Points(g, d, j), 100)
  BY <1>3, <1>4, RoundedGrows, SMT
<1> QED
  BY <1>4, <1>5, ToScoreIs, SMT

-----------------------------------------------------------------------------
(* Lemmas about enrichment.                                                *)

(* An entry whose numbers are in scale.                                    *)
ScaledEntry == [cvss : 0 .. 100, epss : 0 .. 100, kev : BOOLEAN]

LEMMA ScaleIs ==
  \A x \in 0 .. 100 : x \in Int /\ x <= 100 /\ x \in -1 .. 100 /\ x \in Numbers
BY DEF Numbers, NoScore

LEMMA NumbersAre ==
  ASSUME NEW e \in VdbEntry
  PROVE  /\ e.cvss \in Int /\ e.cvss # NoScore /\ e.epss \in Int /\ e.epss # NoScore
         /\ e.kev \in BOOLEAN /\ e # NoEntry
<1>1. /\ e.cvss \in Int /\ e.cvss # NoScore /\ e.epss \in Int /\ e.epss # NoScore
      /\ e.kev \in BOOLEAN
  BY DEF VdbEntry, Numbers
<1>2. NoEntry.cvss = NoScore
  BY DEF NoEntry
<1> QED
  BY <1>1, <1>2

(* Of finitely many places, one is the first with the highest number.      *)
LEMMA FirstOfHighest ==
  ASSUME NEW n \in Nat, NEW K \in SUBSET (1 .. n), K # {}, NEW v \in [K -> Int]
  PROVE  \E i \in K : \A j \in K : v[j] <= v[i] /\ (j < i => v[j] < v[i])
<1> DEFINE Upto(m) == {k \in K : k <= m}
           First(m, i) == i \in Upto(m) /\ \A j \in Upto(m) : v[j] <= v[i] /\ (j < i => v[j] < v[i])
           Bad == {m \in Nat : Upto(m) # {} /\ ~\E i : First(m, i)}
<1>1. ASSUME NEW m \in Nat, m \notin Bad
      PROVE  m + 1 \notin Bad
  <2> SUFFICES ASSUME Upto(m + 1) # {}
               PROVE  \E i : First(m + 1, i)
    OBVIOUS
  <2>1. \A k \in Upto(m + 1) : k \in Upto(m) \/ k = m + 1
    OBVIOUS
  <2>2. \A k \in Upto(m) : k \in Upto(m + 1) /\ k < m + 1
    OBVIOUS
  <2>3. CASE m + 1 \notin K
    <3>1. Upto(m + 1) = Upto(m)
      BY <2>1, <2>2, <2>3
    <3> QED
      BY <1>1, <3>1
  <2>4. CASE m + 1 \in K /\ Upto(m) = {}
    <3>1. \A j \in Upto(m + 1) : j = m + 1
      BY <2>1, <2>4
    <3>2. First(m + 1, m + 1)
      BY <2>4, <3>1
    <3> QED
      BY <3>2
  <2>5. CASE m + 1 \in K /\ Upto(m) # {}
    <3>1. PICK i : First(m, i)
      BY <1>1, <2>5
    <3>2. v[i] \in Int /\ v[m + 1] \in Int /\ i \in Nat /\ i < m + 1 /\ i \in Upto(m + 1)
      BY <2>2, <2>5, <3>1
    <3>3. CASE v[m + 1] <= v[i]
      <4>1. First(m + 1, i)
        BY <2>1, <3>1, <3>2, <3>3
      <4> QED
        BY <4>1
    <3>4. CASE v[i] < v[m + 1]
      <4>1. \A j \in Upto(m) : v[j] < v[m + 1]
        BY <3>1, <3>2, <3>4
      <4>2. First(m + 1, m + 1)
        BY <2>1, <2>5, <3>2, <4>1
      <4> QED
        BY <4>2
    <3> QED
      BY <3>2, <3>3, <3>4
  <2> QED
    BY <2>3, <2>4, <2>5
<1>2. 0 \notin Bad
  OBVIOUS
<1>3. Bad = {}
  <2> SUFFICES ASSUME Bad # {}
               PROVE  FALSE
    OBVIOUS
  <2>1. Bad \in SUBSET Nat
    OBVIOUS
  <2> HIDE DEF Bad
  <2>2. Min(Bad) \in Bad /\ \A m \in Bad : Min(Bad) <= m
    BY <2>1, LeastOf
  <2>3. PICK m \in Bad : \A l \in Bad : m <= l
    BY <2>2
  <2>4. m \in Nat /\ m # 0
    BY <1>2, <2>1, <2>3
  <2>5. m - 1 \in Nat /\ (m - 1) + 1 = m /\ ~(m <= m - 1)
    BY <2>4
  <2> QED
    BY <1>1, <2>3, <2>5
<1>4. Upto(n) = K
  <2>1. \A k \in 1 .. n : k <= n
    OBVIOUS
  <2> QED
    BY <2>1
<1> QED
  BY <1>3, <1>4

(* The CVE at place i of the list is the first with the highest score.     *)
Speaks(list, db, i) ==
  /\ i \in DOMAIN list /\ db[list[i]] # NoEntry
  /\ \A j \in DOMAIN list : db[list[j]] # NoEntry =>
       /\ db[list[j]].cvss <= db[list[i]].cvss
       /\ j < i => db[list[j]].cvss < db[list[i]].cvss

LEMMA SomeoneSpeaks ==
  ASSUME NEW ids, NEW list \in Seq(ids), NEW db \in [ids -> VdbEntry \cup {NoEntry}],
         NEW k \in DOMAIN list, db[list[k]] # NoEntry
  PROVE  \E i : Speaks(list, db, i)
<1> DEFINE known == {i \in DOMAIN list : db[list[i]] # NoEntry}
           v == [i \in known |-> db[list[i]].cvss]
<1>1. Len(list) \in Nat /\ known \in SUBSET (1 .. Len(list)) /\ known # {}
  OBVIOUS
<1>2. v \in [known -> Int]
  <2>1. \A i \in known : db[list[i]] \in VdbEntry
    OBVIOUS
  <2> HIDE DEF known
  <2> QED
    BY <2>1, NumbersAre
<1>3. PICK i \in known : \A j \in known : v[j] <= v[i] /\ (j < i => v[j] < v[i])
  <2> HIDE DEF known, v
  <2> QED
    BY <1>1, <1>2, FirstOfHighest
<1>4. Speaks(list, db, i)
  BY <1>3 DEF Speaks
<1> QED
  BY <1>4

LEMMA OneSpeaks ==
  ASSUME NEW ids, NEW list \in Seq(ids), NEW db \in [ids -> VdbEntry \cup {NoEntry}],
         NEW i, Speaks(list, db, i), NEW j, Speaks(list, db, j)
  PROVE  i = j
<1>1. /\ i \in DOMAIN list /\ j \in DOMAIN list /\ i \in Nat /\ j \in Nat
      /\ db[list[i]] \in VdbEntry /\ db[list[j]] \in VdbEntry
  BY DEF Speaks
<1>2. db[list[i]].cvss \in Int /\ db[list[j]].cvss \in Int
  BY <1>1, NumbersAre, Zenon
<1>3. /\ db[list[j]].cvss <= db[list[i]].cvss /\ (j < i => db[list[j]].cvss < db[list[i]].cvss)
      /\ db[list[i]].cvss <= db[list[j]].cvss /\ (i < j => db[list[i]].cvss < db[list[j]].cvss)
  BY <1>1 DEF Speaks
<1> QED
  BY <1>1, <1>2, <1>3

(* Which CVE enrichment takes its numbers from.                            *)
LEMMA BestIs ==
  ASSUME NEW ids, NEW list \in Seq(ids), NEW db \in [ids -> VdbEntry \cup {NoEntry}]
  PROVE  /\ (\A k \in DOMAIN list : db[list[k]] = NoEntry) => BestEntry(list, db) = "none"
         /\ \A i : Speaks(list, db, i) => BestEntry(list, db) = list[i]
<1> DEFINE known == {i \in DOMAIN list : db[list[i]] # NoEntry}
           First(i) == i \in known /\ \A j \in known :
             /\ db[list[j]].cvss <= db[list[i]].cvss
             /\ j < i => db[list[j]].cvss < db[list[i]].cvss
           Choice == CHOOSE i \in known : \A j \in known :
             /\ db[list[j]].cvss <= db[list[i]].cvss
             /\ j < i => db[list[j]].cvss < db[list[i]].cvss
<1>1. BestEntry(list, db) = IF known = {} THEN "none" ELSE list[Choice]
  BY DEF BestEntry
<1>2. \A i : Speaks(list, db, i) <=> First(i)
  BY DEF Speaks
<1>3. \A i : First(i) => First(Choice)
  OBVIOUS
<1> HIDE DEF Choice, First
<1>4. ASSUME NEW i, Speaks(list, db, i)
      PROVE  BestEntry(list, db) = list[i]
  <2>1. Speaks(list, db, Choice)
    BY <1>2, <1>3, <1>4
  <2>2. Choice = i
    BY <1>4, <2>1, OneSpeaks
  <2>3. i \in known
    BY <1>4 DEF Speaks
  <2> HIDE DEF known
  <2> QED
    BY <1>1, <2>2, <2>3
<1> QED
  BY <1>1, <1>4

LEMMA BestType ==
  ASSUME NEW ids, NEW list \in Seq(ids), NEW db \in [ids -> VdbEntry \cup {NoEntry}],
         BestEntry(list, db) # "none"
  PROVE  \E i : Speaks(list, db, i) /\ BestEntry(list, db) = list[i]
BY BestIs, SomeoneSpeaks

(* Only the entries of the CVEs of the list count.                         *)
LEMMA BestOfSame ==
  ASSUME NEW ids, NEW list \in Seq(ids),
         NEW db \in [ids -> VdbEntry \cup {NoEntry}], NEW eb \in [ids -> VdbEntry \cup {NoEntry}],
         \A k \in DOMAIN list : db[list[k]] = eb[list[k]]
  PROVE  BestEntry(list, db) = BestEntry(list, eb)
<1>1. \A i : Speaks(list, db, i) <=> Speaks(list, eb, i)
  BY DEF Speaks
<1>2. CASE \E k \in DOMAIN list : db[list[k]] # NoEntry
  <2>1. PICK i : Speaks(list, db, i)
    BY <1>2, SomeoneSpeaks
  <2> QED
    BY <1>1, <2>1, BestIs
<1>3. CASE ~(\E k \in DOMAIN list : db[list[k]] # NoEntry)
  BY <1>3, BestIs
<1> QED
  BY <1>2, <1>3

(* A finding as the plugins make it: nothing is known but the severity.    *)
Unscored(f) ==
  /\ f = [x \in DOMAIN f |-> f[x]]
  /\ {"severity", "cves", "cvss", "epss", "kev"} \subseteq DOMAIN f
  /\ f.severity \in Severities
  /\ f.cvss = NoScore /\ f.epss = NoScore /\ f.kev = FALSE

(* e has the numbers of the best entry of db, or those of severity s.      *)
NumbersOf(e, s, best, db) ==
  IF best = "none"
  THEN e.cvss = NoScore /\ e.epss = SeverityDefaultEpss(s) /\ e.kev = FALSE
  ELSE /\ best \in DOMAIN db /\ db[best] \in VdbEntry
       /\ e.cvss = db[best].cvss /\ e.epss = db[best].epss /\ e.kev = db[best].kev

LEMMA EnrichIs ==
  ASSUME NEW f, Unscored(f), NEW ids, f.cves \in Seq(ids),
         NEW db \in [ids -> VdbEntry \cup {NoEntry}]
  PROVE  /\ DOMAIN Enrich(f, db) = DOMAIN f
         /\ \A x \in DOMAIN f \ {"cvss", "epss", "kev"} : Enrich(f, db)[x] = f[x]
         /\ NumbersOf(Enrich(f, db), f.severity, BestEntry(f.cves, db), db)
         /\ Scorable(Enrich(f, db)) /\ Enrich(f, db).epss \in Numbers
         /\ db \in [ids -> ScaledEntry \cup {NoEntry}] => Scaled(Enrich(f, db))
<1> DEFINE e == Enrich(f, db)
           best == BestEntry(f.cves, db)
<1>1. best # "none" => best \in ids /\ db[best] \in VdbEntry
  <2>1. ASSUME best # "none"
        PROVE  \E i : Speaks(f.cves, db, i) /\ best = f.cves[i]
    BY <2>1, BestType
  <2>2. ASSUME NEW i, Speaks(f.cves, db, i), best = f.cves[i]
        PROVE  best \in ids /\ db[best] \in VdbEntry
    <3>1. i \in DOMAIN f.cves /\ db[f.cves[i]] # NoEntry
      BY <2>2 DEF Speaks
    <3> QED
      BY <2>2, <3>1
  <2> QED
    BY <2>1, <2>2
<1>2. SeverityDefaultEpss(f.severity) \in 0 .. 100
  BY DEF Unscored, Severities, SeverityDefaultEpss
<1>3. CASE best = "none"
  <2>1. e = [f EXCEPT !.epss = SeverityDefaultEpss(f.severity)]
    BY <1>3 DEF Enrich, Unscored
  <2> HIDE DEF e, best
  <2>2. /\ DOMAIN e = DOMAIN f
        /\ \A x \in DOMAIN f \ {"cvss", "epss", "kev"} : e[x] = f[x]
        /\ e.cvss = NoScore /\ e.kev = FALSE /\ e.epss = SeverityDefaultEpss(f.severity)
        /\ e.severity = f.severity
    BY <2>1 DEF Unscored
  <2>3. Scorable(e) /\ Scaled(e) /\ e.epss \in Numbers
    <3>1. NoScore \in -1 .. 100 /\ NoScore \in Int
      BY DEF NoScore
    <3>2. e.severity \in Severities
      BY <2>2 DEF Unscored
    <3>3. e.epss \in -1 .. 100 /\ e.epss \in Int /\ e.epss \in Numbers
      BY <1>2, <2>2, ScaleIs, Zenon
    <3> QED
      BY <2>2, <3>1, <3>2, <3>3, Zenon DEF Scorable, Scaled
  <2> QED
    BY <1>2, <1>3, <2>2, <2>3 DEF e, best, NumbersOf
<1>4. CASE best # "none"
  <2>1. e = [f EXCEPT !.cvss = db[best].cvss, !.epss = db[best].epss, !.kev = db[best].kev]
    BY <1>4 DEF Enrich
  <2> HIDE DEF e, best
  <2>2. /\ DOMAIN e = DOMAIN f
        /\ \A x \in DOMAIN f \ {"cvss", "epss", "kev"} : e[x] = f[x]
        /\ e.cvss = db[best].cvss /\ e.epss = db[best].epss /\ e.kev = db[best].kev
        /\ e.severity = f.severity
    BY <2>1 DEF Unscored
  <2>3. db[best].cvss \in Int /\ db[best].epss \in Int /\ db[best].epss \in Numbers /\ db[best].kev \in BOOLEAN
    BY <1>1, <1>4, NumbersAre DEF Numbers
  <2>4. Scorable(e) /\ e.epss \in Numbers
    BY <2>2, <2>3 DEF Unscored, Scorable
  <2>5. ASSUME db \in [ids -> ScaledEntry \cup {NoEntry}]
        PROVE  Scaled(e)
    <3>1. db[best] \in ScaledEntry
      BY <1>1, <1>4, <2>5, NumbersAre
    <3>2. db[best].cvss \in 0 .. 100 /\ db[best].epss \in 0 .. 100
      BY <3>1 DEF ScaledEntry
    <3>3. e.cvss \in -1 .. 100 /\ e.epss \in -1 .. 100
      BY <2>2, <3>2, ScaleIs, Zenon
    <3> QED
      BY <2>2, <2>3, <3>3 DEF Unscored, Scaled
  <2> QED
    BY <1>1, <1>4, <2>2, <2>4, <2>5 DEF e, best, NumbersOf
<1> QED
  BY <1>3, <1>4

-----------------------------------------------------------------------------
(* Lemmas about the policy matrix.                                         *)

LEMMA ResolveType ==
  ASSUME NEW k \in MatrixKeys
  PROVE  Resolve(k) \in Decisions
<1>1. k \in DOMAIN DefaultOverrides => DefaultOverrides[k] = Decision("safe_auto", FALSE)
  BY DEF DefaultOverrides
<1>2. ResolveRules(k) \in Decisions
  BY DEF ResolveRules, ResolveHighValue, ResolveOrdinary, Decision, Decisions, Modes, MatrixKeys
<1>3. Decision("safe_auto", FALSE) \in Decisions
  BY DEF Decision, Decisions, Modes
<1> QED
  BY <1>1, <1>2, <1>3 DEF Resolve, ResolveWith

(* How closed the gates of the shipped matrix are.                         *)
LEMMA GateIs ==
  ASSUME NEW c \in Criticalities, NEW s \in Severities, NEW x \in BOOLEAN
  PROVE  Closedness(Resolve(Key(c, s, x))) =
           IF c \in HighCrit \/ s \in {"informational", "critical"} THEN 2
           ELSE IF s = "low" /\ ~x THEN 0 ELSE 1
<1> DEFINE k == Key(c, s, x)
<1>1. k.criticality = c /\ k.severity = s /\ k.exploitLikely = x
  BY DEF Key
<1>2. k \in DOMAIN DefaultOverrides => c \in {"low", "medium"} /\ s = "low" /\ x = FALSE
  BY DEF DefaultOverrides, Key
<1>3. k \in DOMAIN DefaultOverrides => DefaultOverrides[k] = Decision("safe_auto", FALSE)
  BY DEF DefaultOverrides
<1> HIDE DEF k
<1>4. CASE k \in DOMAIN DefaultOverrides
  <2>1. Resolve(k) = Decision("safe_auto", FALSE)
    BY <1>3, <1>4 DEF Resolve, ResolveWith
  <2>2. Closedness(Decision("safe_auto", FALSE)) = 0
    BY DEF Closedness, AutoApplicable, Decision
  <2> QED
    BY <1>2, <1>4, <2>1, <2>2 DEF HighCrit, k
<1>5. CASE k \notin DOMAIN DefaultOverrides
  <2>1. Resolve(k) = ResolveRules(k)
    BY <1>5 DEF Resolve, ResolveWith
  <2>2. CASE c \in HighCrit
    BY <1>1, <2>1, <2>2 DEF ResolveRules, ResolveHighValue, Closedness, AutoApplicable, Decision, k
  <2>3. CASE c \notin HighCrit
    <3>1. Resolve(k) = ResolveOrdinary(k)
      BY <1>1, <2>1, <2>3 DEF ResolveRules
    <3> QED
      BY <1>1, <2>3, <3>1 DEF ResolveOrdinary, Closedness, AutoApplicable, Decision, Severities, k
  <2> QED
    BY <2>2, <2>3
<1> QED
  BY <1>4, <1>5

LEMMA GateGrows ==
  ASSUME NEW c \in Criticalities, NEW s \in Severities, NEW x \in BOOLEAN,
         NEW d \in Criticalities, NEW t \in Severities, NEW y \in BOOLEAN,
         CritRank(c) <= CritRank(d), SevRank(s) <= SevRank(t), x => y, s # "informational"
  PROVE  Closedness(Resolve(Key(c, s, x))) <= Closedness(Resolve(Key(d, t, y)))
<1>1. c \in HighCrit => d \in HighCrit
  BY DEF CritRank, Criticalities, HighCrit
<1>2. t # "informational" /\ (s = "critical" => t = "critical") /\ (t = "low" => s = "low")
  BY DEF SevRank, Severities
<1> QED
  BY <1>1, <1>2, GateIs

-----------------------------------------------------------------------------
(* A finding that gets worse.                                              *)

Plain(s, list) ==
  [severity |-> s, cves |-> list, cvss |-> NoScore, epss |-> NoScore, kev |-> FALSE]

LEMMA PlainIs ==
  ASSUME NEW s \in Severities, NEW list
  PROVE  Unscored(Plain(s, list)) /\ Plain(s, list).cves = list /\ Plain(s, list).severity = s
BY DEF Plain, Unscored

LEMMA EnrichPlain ==
  ASSUME NEW s \in Severities, NEW ids, NEW list \in Seq(ids),
         NEW db \in [ids -> VdbEntry \cup {NoEntry}]
  PROVE  /\ Enrich(Plain(s, list), db).severity = s
         /\ NumbersOf(Enrich(Plain(s, list), db), s, BestEntry(list, db), db)
         /\ Enrich(Plain(s, list), db).epss \in Numbers
         /\ db \in [ids -> ScaledEntry \cup {NoEntry}] => Scaled(Enrich(Plain(s, list), db))
<1>1. PICK f : f = Plain(s, list)
  OBVIOUS
<1>2. Unscored(f) /\ f.cves = list /\ f.severity = s
  BY <1>1, PlainIs
<1>3. "severity" \in DOMAIN f \ {"cvss", "epss", "kev"}
  BY <1>2 DEF Unscored
<1>4. f.cves \in Seq(ids)
  BY <1>2
<1>5. /\ Enrich(f, db)["severity"] = f["severity"]
      /\ NumbersOf(Enrich(f, db), f.severity, BestEntry(f.cves, db), db)
      /\ Enrich(f, db).epss \in Numbers
      /\ db \in [ids -> ScaledEntry \cup {NoEntry}] => Scaled(Enrich(f, db))
  BY <1>2, <1>3, <1>4, EnrichIs
<1> QED
  BY <1>1, <1>2, <1>5

(* No severity means less than a lower one where it counts.                *)
LEMMA SeverityGrows ==
  ASSUME NEW s \in Severities, NEW t \in Severities, SevRank(s) <= SevRank(t)
  PROVE  /\ SeverityCvssFloor(s) <= SeverityCvssFloor(t)
         /\ SeverityDefaultEpss(s) <= SeverityDefaultEpss(t)
BY DEF Severities, SevRank, SeverityCvssFloor, SeverityDefaultEpss

LEMMA EnrichGrows ==
  ASSUME NEW s \in Severities, NEW t \in Severities, SevRank(s) <= SevRank(t),
         NEW ids, NEW list \in Seq(ids),
         NEW db \in [ids -> VdbEntry \cup {NoEntry}], NEW eb \in [ids -> VdbEntry \cup {NoEntry}],
         BestEntry(list, db) = BestEntry(list, eb),
         \A c \in ids : db[c] # NoEntry =>
           db[c].cvss <= eb[c].cvss /\ db[c].epss <= eb[c].epss /\ (db[c].kev => eb[c].kev)
  PROVE  LET f == Enrich(Plain(s, list), db)
             g == Enrich(Plain(t, list), eb)
         IN Cvss(f) <= Cvss(g) /\ Epss(f) <= Epss(g) /\ (f.kev => g.kev)
<1> DEFINE f == Enrich(Plain(s, list), db)
           g == Enrich(Plain(t, list), eb)
           best == BestEntry(list, db)
<1>1. f.severity = s /\ f.epss \in Numbers /\ NumbersOf(f, s, best, db)
  BY EnrichPlain
<1>2. g.severity = t /\ g.epss \in Numbers /\ NumbersOf(g, t, best, eb)
  BY EnrichPlain
<1> HIDE DEF f, g, best
<1>3. f.epss # NoScore /\ g.epss # NoScore
  BY <1>1, <1>2 DEF Numbers
<1>4. CASE best = "none"
  <2>1. Cvss(f) = SeverityCvssFloor(s) /\ Cvss(g) = SeverityCvssFloor(t)
    BY <1>1, <1>2, <1>4 DEF Cvss, NumbersOf
  <2>2. Epss(f) = SeverityDefaultEpss(s) /\ Epss(g) = SeverityDefaultEpss(t)
    BY <1>1, <1>2, <1>3, <1>4 DEF Epss, NumbersOf
  <2> QED
    BY <1>1, <1>4, <2>1, <2>2, SeverityGrows DEF f, g, NumbersOf
<1>5. CASE best # "none"
  <2>1. \A x \in VdbEntry : x.cvss # NoScore /\ x # NoEntry
    BY NumbersAre
  <2>2. Cvss(f) = db[best].cvss /\ Cvss(g) = eb[best].cvss
    BY <1>1, <1>2, <1>5, <2>1 DEF Cvss, NumbersOf
  <2>3. Epss(f) = db[best].epss /\ Epss(g) = eb[best].epss
    BY <1>1, <1>2, <1>3, <1>5 DEF Epss, NumbersOf
  <2> QED
    BY <1>1, <1>2, <1>5, <2>1, <2>2, <2>3 DEF f, g, NumbersOf
<1> QED
  BY <1>4, <1>5

-----------------------------------------------------------------------------
(* The inputs of the risk pipeline.                                        *)

RescoringInv ==
  /\ severity \in Severities
  /\ cves \in Seq(CveIds)
  /\ vdb \in [CveIds -> Entry \cup {NoEntry}]
  /\ criticality \in Criticalities
  /\ internet \in BOOLEAN

LEMMA EntriesAreNumbers ==
  Entry \subseteq VdbEntry /\ Entry \subseteq ScaledEntry
<1>1. Entry \subseteq ScaledEntry
  BY RescoringConstantsAssumption DEF Entry, ScaledEntry
<1>2. ScaledEntry \subseteq VdbEntry
  BY ScaleIs DEF ScaledEntry, VdbEntry
<1> QED
  BY <1>1, <1>2

LEMMA EntryRaised ==
  ASSUME RescoringInv, NEW c \in CveIds, RaiseEntry(c)
  PROVE  \E e \in Entry :
           /\ vdb' = [vdb EXCEPT ![c] = e] /\ vdb[c] \in Entry
           /\ vdb[c].cvss <= e.cvss /\ vdb[c].epss <= e.epss /\ (vdb[c].kev => e.kev)
<1>1. /\ vdb[c] \in Entry
      /\ vdb[c] = [cvss |-> vdb[c].cvss, epss |-> vdb[c].epss, kev |-> vdb[c].kev]
      /\ vdb[c].cvss \in CvssValues /\ vdb[c].epss \in EpssValues /\ vdb[c].kev \in BOOLEAN
  BY DEF RescoringInv, RaiseEntry, Entry
<1>2. CvssValues \subseteq Int /\ EpssValues \subseteq Int
  BY RescoringConstantsAssumption, ScaleIs, Zenon
<1>3. ASSUME NEW v \in CvssValues, v > vdb[c].cvss, vdb' = [vdb EXCEPT ![c].cvss = v]
      PROVE  \E e \in Entry :
               /\ vdb' = [vdb EXCEPT ![c] = e]
               /\ vdb[c].cvss <= e.cvss /\ vdb[c].epss <= e.epss /\ (vdb[c].kev => e.kev)
  <2> DEFINE e == [cvss |-> v, epss |-> vdb[c].epss, kev |-> vdb[c].kev]
  <2>1. e \in Entry /\ [vdb[c] EXCEPT !.cvss = v] = e
    BY <1>1 DEF Entry
  <2>2. vdb' = [vdb EXCEPT ![c] = e]
    BY <1>3, <2>1
  <2>3. vdb[c].cvss <= e.cvss /\ vdb[c].epss <= e.epss /\ (vdb[c].kev => e.kev)
    BY <1>1, <1>2, <1>3
  <2> QED
    BY <2>1, <2>2, <2>3, Zenon
<1>4. ASSUME NEW v \in EpssValues, v > vdb[c].epss, vdb' = [vdb EXCEPT ![c].epss = v]
      PROVE  \E e \in Entry :
               /\ vdb' = [vdb EXCEPT ![c] = e]
               /\ vdb[c].cvss <= e.cvss /\ vdb[c].epss <= e.epss /\ (vdb[c].kev => e.kev)
  <2> DEFINE e == [cvss |-> vdb[c].cvss, epss |-> v, kev |-> vdb[c].kev]
  <2>1. e \in Entry /\ [vdb[c] EXCEPT !.epss = v] = e
    BY <1>1 DEF Entry
  <2>2. vdb' = [vdb EXCEPT ![c] = e]
    BY <1>4, <2>1
  <2>3. vdb[c].cvss <= e.cvss /\ vdb[c].epss <= e.epss /\ (vdb[c].kev => e.kev)
    BY <1>1, <1>2, <1>4
  <2> QED
    BY <2>1, <2>2, <2>3, Zenon
<1>5. ASSUME vdb' = [vdb EXCEPT ![c].kev = TRUE]
      PROVE  \E e \in Entry :
               /\ vdb' = [vdb EXCEPT ![c] = e]
               /\ vdb[c].cvss <= e.cvss /\ vdb[c].epss <= e.epss /\ (vdb[c].kev => e.kev)
  <2>1. PICK yes \in BOOLEAN : yes = TRUE
    OBVIOUS
  <2> DEFINE e == [cvss |-> vdb[c].cvss, epss |-> vdb[c].epss, kev |-> yes]
  <2>2. e \in Entry /\ [vdb[c] EXCEPT !.kev = yes] = e
    BY <1>1 DEF Entry
  <2>3. vdb' = [vdb EXCEPT ![c] = e]
    BY <1>5, <2>1, <2>2
  <2>4. e.cvss = vdb[c].cvss /\ e.epss = vdb[c].epss /\ e.kev = yes
    OBVIOUS
  <2> HIDE DEF e
  <2>5. vdb[c].cvss <= e.cvss /\ vdb[c].epss <= e.epss /\ (vdb[c].kev => e.kev)
    <3>1. e.kev
      BY <2>1, <2>4, Zenon
    <3>2. vdb[c].cvss <= vdb[c].cvss /\ vdb[c].epss <= vdb[c].epss
      <4>1. \A x \in Int : x <= x
        OBVIOUS
      <4> QED
        BY <1>1, <1>2, <4>1, Zenon
    <3> QED
      BY <2>4, <3>1, <3>2, Zenon
  <2> QED
    BY <2>2, <2>3, <2>5, Zenon
<1> QED
  BY <1>1, <1>3, <1>4, <1>5 DEF RaiseEntry

LEMMA WorsenKeepsInputs ==
  RescoringInv /\ [Worsen]_inputs => RescoringInv'
<1> SUFFICES ASSUME RescoringInv, [Worsen]_inputs
             PROVE  RescoringInv'
  OBVIOUS
<1>1. CASE RaiseCriticality
  BY <1>1 DEF RescoringInv, RaiseCriticality, Entry
<1>2. CASE RaiseSeverity
  BY <1>2 DEF RescoringInv, RaiseSeverity, Entry
<1>3. CASE BecomeExposed
  BY <1>3 DEF RescoringInv, BecomeExposed, Entry
<1>4. ASSUME NEW c \in CveIds, RaiseEntry(c)
      PROVE  RescoringInv'
  <2>1. PICK e \in Entry : vdb' = [vdb EXCEPT ![c] = e]
    BY <1>4, EntryRaised
  <2>2. vdb' \in [CveIds -> Entry' \cup {NoEntry}]
    BY <2>1 DEF RescoringInv, Entry
  <2> QED
    BY <1>4, <2>2 DEF RescoringInv, RaiseEntry
<1>5. CASE UNCHANGED inputs
  BY <1>5 DEF RescoringInv, inputs, Entry
<1> QED
  BY <1>1, <1>2, <1>3, <1>4, <1>5 DEF Worsen

LEMMA RescoringInductive ==
  RescoringSpec => []RescoringInv
<1>1. RescoringInit => RescoringInv
  BY RescoringConstantsAssumption DEF RescoringInit, RescoringInv
<1> QED
  BY <1>1, WorsenKeepsInputs, PTL DEF RescoringSpec

LEMMA FindingIs ==
  ASSUME RescoringInv
  PROVE  /\ vdb \in [CveIds -> VdbEntry \cup {NoEntry}]
         /\ Finding = Enrich(Plain(severity, cves), vdb)
         /\ Finding.severity = severity
         /\ Scaled(Finding)
<1>1. /\ vdb \in [CveIds -> VdbEntry \cup {NoEntry}]
      /\ vdb \in [CveIds -> ScaledEntry \cup {NoEntry}]
  BY EntriesAreNumbers DEF RescoringInv
<1>2. Finding = Enrich(Plain(severity, cves), vdb)
  BY DEF Finding, RawFinding, Plain
<1> QED
  BY <1>1, <1>2, EnrichPlain DEF RescoringInv

(* However severe, exposed or often listed a finding is, and whatever the  *)
(* feeds say of its CVEs, its scores lie within 0 .. 100 points and the    *)
(* matrix has a decision for it (scoring.py, models.py: risk_score,        *)
(* policy_matrix.py: resolve).                                             *)
THEOREM RescoringTyped ==
  RescoringSpec => []RescoringTypeOK
<1>1. ASSUME RescoringInv
      PROVE  RescoringTypeOK
  <2>1. Scaled(Finding) /\ criticality \in Criticalities /\ internet \in BOOLEAN
    BY <1>1, FindingIs DEF RescoringInv
  <2>2. KeyOf(Finding, criticality) \in MatrixKeys
    BY <2>1 DEF KeyOf, Key, MatrixKeys, ExploitLikely, Scaled
  <2>3. Gate \in Decisions
    BY <2>2, ResolveType DEF Gate
  <2>4. Risk \in Scores /\ RiskScore(Finding, criticality) \in Scores
    <3>1. Risk \in Scores
      BY <2>1, ScoreIs, Zenon DEF Risk
    <3>2. RiskScore(Finding, criticality) \in Scores
      BY <2>1, ReportIs, Zenon
    <3> QED
      BY <3>1, <3>2
  <2> QED
    BY <2>2, <2>3, <2>4, SMT DEF RescoringTypeOK, Scores
<1> QED
  BY <1>1, RescoringInductive, PTL

(* The reports sort by Finding.risk_score, tickets and SLA are set by      *)
(* ScoringModel.score: no report claims more than the ticket, and they     *)
(* agree on assets that are not exposed.                                   *)
THEOREM ReportsAgree ==
  RescoringSpec => []ReportAgreesWithTicket
<1>1. ASSUME RescoringInv
      PROVE  ReportAgreesWithTicket
  <2>1. Scaled(Finding) /\ criticality \in Criticalities /\ internet \in BOOLEAN
    BY <1>1, FindingIs DEF RescoringInv
  <2>2. Unexposed \in BOOLEAN /\ ~Unexposed
    BY DEF Unexposed
  <2>3. PICK a \in Nat, b \in Nat, w \in {8, 10, 12, 14} :
          /\ a = BaseTotal(Finding, Unexposed) /\ b = BaseTotal(Finding, internet)
          /\ w = CriticalityWeight(criticality)
    BY <2>1, <2>2, BaseIsNat, WeightType, Zenon
  <2>4. a <= b /\ a <= 10000 /\ (~internet => a = b)
    <3>1. Cvss(Finding) <= Cvss(Finding) /\ Epss(Finding) <= Epss(Finding)
      BY <2>1, BaseType, SMT
    <3>2. BaseTotal(Finding, Unexposed) <= BaseTotal(Finding, internet)
      BY <2>1, <2>2, <3>1, BaseGrows, Zenon
    <3>3. ~internet => internet = Unexposed
      BY <2>1, <2>2
    <3>4. a <= 10000
      BY <2>1, <2>2, <2>3, UnexposedBase, SMT
    <3> QED
      BY <2>3, <3>2, <3>3, <3>4, SMT
  <2>5. PICK p \in Nat : p = Points(Finding, criticality, internet) /\ p = Capped(b) * w
    <3>1. Points(Finding, criticality, internet) \in Nat
      BY <2>1, ScoreIs, Zenon
    <3>2. Points(Finding, criticality, internet) = Capped(b) * w
      BY <2>3, Zenon DEF Points
    <3> QED
      BY <3>1, <3>2, Zenon
  <2>6. PICK q \in Nat : q = Min({a * w, 100000}) /\ RiskScore(Finding, criticality) = Rounded(q, 100)
    BY <2>1, <2>3, ReportIs DEF ReportPoints, ReportCapped
  <2>7. PICK r \in Nat : r = Rounded(p, 100) /\ 200 * r <= 2 * p + 100 /\ 2 * p + 100 < 200 * r + 200
    BY RoundedToHundreds
  <2>8. PICK s \in Nat : s = Rounded(q, 100) /\ 200 * s <= 2 * q + 100 /\ 2 * q + 100 < 200 * s + 200
    BY RoundedToHundreds
  <2>9. Risk = IF r <= 1000 THEN r ELSE 1000
    <3>1. Risk = ToScore(p)
      BY <2>1, <2>5, ScoreIs, Zenon DEF Risk
    <3> QED
      BY <2>7, <3>1, ToScoreIs, SMT
  <2>10. p = (IF b <= 10000 THEN b ELSE 10000) * w
    BY <2>5, CappedIs
  <2>11. q = IF a * w <= 100000 THEN a * w ELSE 100000
    BY <2>6, LesserOf
  <2>12. s <= (IF r <= 1000 THEN r ELSE 1000) + 1
    <3>1. CASE w = 8
      BY <2>4, <2>7, <2>8, <2>10, <2>11, <3>1, SMT
    <3>2. CASE w = 10
      BY <2>4, <2>7, <2>8, <2>10, <2>11, <3>2, SMT
    <3>3. CASE w = 12
      BY <2>4, <2>7, <2>8, <2>10, <2>11, <3>3, SMT
    <3>4. CASE w = 14
      BY <2>4, <2>7, <2>8, <2>10, <2>11, <3>4, SMT
    <3> QED
      BY <3>1, <3>2, <3>3, <3>4
  <2>13. a = b => (IF r <= 1000 THEN r ELSE 1000) <= s + 1
    BY <2>7, <2>8, <2>10, <2>11, SMT
  <2> QED
    BY <2>4, <2>6, <2>8, <2>9, <2>12, <2>13, SMT DEF ReportAgreesWithTicket
<1> QED
  BY <1>1, RescoringInductive, PTL

(* Nothing that makes a finding worse opens a gate, lowers a score or      *)
(* lengthens an SLA, unless another CVE comes to speak for it              *)
(* (enrichment.py, scoring.py, policy_matrix.py, workflow.py).             *)
THEOREM EscalationNeverRewarded ==
  RescoringSpec => EscalationIsNeverRewarded
<1> DEFINE Step == SameCveCounts =>
             /\ severity # "informational" => Closedness(Gate') >= Closedness(Gate)
             /\ Risk' >= Risk /\ SlaHours(Risk') <= SlaHours(Risk)
<1>1. ASSUME RescoringInv, RescoringInv', Worsen, SameCveCounts
      PROVE  Step
  <2>1. /\ SevRank(severity) <= SevRank(severity') /\ CritRank(criticality) <= CritRank(criticality')
        /\ internet => internet'
        /\ cves' = cves
    <3>1. SevRank(severity) \in Int /\ CritRank(criticality) \in Int
      BY DEF SevRank, CritRank
    <3>2. SevRank(severity') \in Int /\ CritRank(criticality') \in Int
      BY DEF SevRank, CritRank
    <3> QED
      BY <1>1, <3>1, <3>2 DEF Worsen, RaiseCriticality, RaiseSeverity, BecomeExposed, RaiseEntry
  <2>2. \A c \in CveIds : vdb[c] # NoEntry =>
          /\ vdb[c].cvss <= vdb'[c].cvss /\ vdb[c].epss <= vdb'[c].epss
          /\ vdb[c].kev => vdb'[c].kev
    <3> SUFFICES ASSUME NEW c \in CveIds, vdb[c] # NoEntry
                 PROVE  /\ vdb[c].cvss <= vdb'[c].cvss /\ vdb[c].epss <= vdb'[c].epss
                        /\ vdb[c].kev => vdb'[c].kev
      OBVIOUS
    <3>1. vdb[c] \in Entry
      BY <1>1 DEF RescoringInv
    <3>2. vdb[c].cvss \in Int /\ vdb[c].epss \in Int
      <4>1. vdb[c].cvss \in 0 .. 100 /\ vdb[c].epss \in 0 .. 100
        BY <3>1, EntriesAreNumbers DEF ScaledEntry
      <4> QED
        BY <4>1, ScaleIs, Zenon
    <3>3. CASE vdb' = vdb
      BY <3>2, <3>3
    <3>4. ASSUME NEW d \in CveIds, RaiseEntry(d)
          PROVE  /\ vdb[c].cvss <= vdb'[c].cvss /\ vdb[c].epss <= vdb'[c].epss
                 /\ vdb[c].kev => vdb'[c].kev
      <4>1. PICK e \in Entry :
              /\ vdb' = [vdb EXCEPT ![d] = e]
              /\ vdb[d].cvss <= e.cvss /\ vdb[d].epss <= e.epss /\ (vdb[d].kev => e.kev)
        BY <1>1, <3>4, EntryRaised
      <4>2. vdb'[c] = IF c = d THEN e ELSE vdb[c]
        BY <1>1, <4>1 DEF RescoringInv
      <4> QED
        BY <3>2, <4>1, <4>2
    <3> QED
      BY <1>1, <3>3, <3>4 DEF Worsen, RaiseCriticality, RaiseSeverity, BecomeExposed
  <2>3. /\ Finding = Enrich(Plain(severity, cves), vdb) /\ Scaled(Finding)
        /\ Finding.severity = severity
        /\ vdb \in [CveIds -> VdbEntry \cup {NoEntry}]
    BY <1>1, FindingIs
  <2>4. /\ vdb' \in [CveIds -> VdbEntry \cup {NoEntry}]
        /\ Finding' = Enrich(Plain(severity', cves'), vdb') /\ Scaled(Finding')
        /\ Finding'.severity = severity'
    <3>1. /\ vdb' \in [CveIds -> VdbEntry \cup {NoEntry}]
          /\ vdb' \in [CveIds -> ScaledEntry \cup {NoEntry}]
      BY <1>1, EntriesAreNumbers DEF RescoringInv, Entry
    <3>2. Finding' = Enrich(Plain(severity', cves'), vdb')
      BY DEF Finding, RawFinding, Plain
    <3> QED
      BY <1>1, <3>1, <3>2, EnrichPlain DEF RescoringInv
  <2>5. /\ Cvss(Finding) <= Cvss(Finding') /\ Epss(Finding) <= Epss(Finding')
        /\ Finding.kev => Finding'.kev
    <3>1. BestEntry(cves, vdb) = BestEntry(cves', vdb')
      BY <1>1, <2>1 DEF SameCveCounts
    <3>2. severity \in Severities /\ severity' \in Severities /\ cves \in Seq(CveIds)
      BY <1>1 DEF RescoringInv
    <3> QED
      BY <2>1, <2>2, <2>3, <2>4, <3>1, <3>2, EnrichGrows
  <2>6. Risk <= Risk' /\ Risk \in Scores /\ Risk' \in Scores
    <3>1. criticality \in Criticalities /\ criticality' \in Criticalities
      BY <1>1 DEF RescoringInv
    <3>2. internet \in BOOLEAN /\ internet' \in BOOLEAN
      BY <1>1 DEF RescoringInv
    <3>3. CriticalityWeight(criticality) <= CriticalityWeight(criticality')
      BY <2>1, <3>1 DEF Criticalities, CritRank, CriticalityWeight
    <3>4. Score(Finding, criticality, internet) <= Score(Finding', criticality', internet')
      <4>1. BaseTotal(Finding, internet) <= BaseTotal(Finding', internet')
        BY <2>1, <2>3, <2>4, <2>5, <3>2, BaseGrows, Zenon
      <4> QED
        BY <2>3, <2>4, <3>1, <3>2, <3>3, <4>1, ScoreGrows, Zenon
    <3>5. /\ Score(Finding, criticality, internet) \in Scores
          /\ Score(Finding', criticality', internet') \in Scores
      BY <2>3, <2>4, <3>1, <3>2, ScoreIs, Zenon
    <3> QED
      BY <3>4, <3>5 DEF Risk
  <2>7. SlaHours(Risk') <= SlaHours(Risk)
    BY <2>6 DEF SlaHours, Scores
  <2>8. severity # "informational" => Closedness(Gate) <= Closedness(Gate')
    <3>1. /\ criticality \in Criticalities /\ criticality' \in Criticalities
          /\ severity \in Severities /\ severity' \in Severities
      BY <1>1 DEF RescoringInv
    <3>2. PICK x \in BOOLEAN : x = (Finding.kev \/ Epss(Finding) >= 30)
      OBVIOUS
    <3>3. PICK y \in BOOLEAN : y = (Finding'.kev \/ Epss(Finding') >= 30)
      OBVIOUS
    <3>4. Epss(Finding) \in 0 .. 100 /\ Epss(Finding') \in 0 .. 100
      BY <2>3, <2>4 DEF Scaled, Epss, NoScore
    <3>5. x => y
      <4>1. Epss(Finding) >= 30 => Epss(Finding') >= 30
        BY <2>5, <3>4
      <4> QED
        BY <2>5, <3>2, <3>3, <4>1, Zenon
    <3>6. Gate = Resolve(Key(criticality, severity, x))
      BY <2>3, <3>2 DEF Gate, KeyOf, ExploitLikely
    <3>7. Gate' = Resolve(Key(criticality', severity', y))
      BY <2>4, <3>3 DEF Gate, KeyOf, ExploitLikely
    <3> QED
      BY <2>1, <3>1, <3>5, <3>6, <3>7, GateGrows
  <2>9. severity # "informational" => Closedness(Gate') >= Closedness(Gate)
    BY <2>8 DEF Closedness
  <2> QED
    BY <2>6, <2>7, <2>9 DEF Scores
<1>2. ASSUME RescoringInv, RescoringInv', Worsen
      PROVE  Step
  BY <1>1, <1>2
<1>3. RescoringInv /\ RescoringInv' /\ [Worsen]_inputs => [Step]_inputs
  BY <1>2
<1> HIDE DEF Step
<1>4. RescoringInv /\ [Worsen]_inputs => [Step]_inputs
  BY <1>3, WorsenKeepsInputs
<1> QED
  BY <1>4, RescoringInductive, PTL DEF RescoringSpec, EscalationIsNeverRewarded, Step

-----------------------------------------------------------------------------
(* The breakdown of a score.                                               *)

LEMMA CancelFactor ==
  ASSUME NEW t \in Nat, t # 0, NEW x \in Nat, NEW y \in Nat
  PROVE  /\ t * x <= t * y => x <= y
         /\ t * x < t * y => x < y
<1>1. ASSUME x > y
      PROVE  t * y < t * x
  <2>1. PICK d \in Nat : x = y + 1 + d
    <3>1. x - y - 1 \in Nat /\ x = y + 1 + (x - y - 1)
      BY <1>1
    <3> QED
      BY <3>1
  <2>2. t * x = t * y + t + t * d /\ t * d \in Nat /\ t * y \in Nat
    BY <2>1
  <2> QED
    BY <2>2
<1>2. t * x \in Nat /\ t * y \in Nat
  OBVIOUS
<1>3. x = y => t * x = t * y
  OBVIOUS
<1> QED
  BY <1>1, <1>2, <1>3

(* What one factor contributes, of points p for a base of t.               *)
LEMMA ShareIs ==
  ASSUME NEW t \in Nat, t # 0, NEW p \in Nat, NEW b \in Nat
  PROVE  /\ Rounded(b * p, 10 * t) \in Nat
         /\ 20 * (t * Rounded(b * p, 10 * t)) <= 2 * (b * p) + 10 * t
         /\ 2 * (b * p) < 20 * (t * Rounded(b * p, 10 * t)) + 10 * t
<1>1. PICK n \in Nat : n = b * p
  OBVIOUS
<1>2. PICK d \in Nat : d = 10 * t /\ d # 0
  OBVIOUS
<1>3. PICK r \in Nat : r = Rounded(n, d) /\ (2 * d) * r <= 2 * n + d /\ 2 * n + d < (2 * d) * r + 2 * d
  BY <1>2, RoundedBounds
<1>4. (2 * d) * r = 20 * (t * r)
  BY <1>2
<1> QED
  BY <1>1, <1>2, <1>3, <1>4

(* Four shares of the whole add up to it, but for their rounding.          *)
LEMMA SharesAddUp ==
  ASSUME NEW t \in Nat, t # 0, NEW p \in Nat,
         NEW a \in Nat, NEW b \in Nat, NEW c \in Nat, NEW d \in Nat, t = a + b + c + d
  PROVE  LET sum == Rounded(a * p, 10 * t) + Rounded(b * p, 10 * t)
                      + Rounded(c * p, 10 * t) + Rounded(d * p, 10 * t)
         IN sum \in Nat /\ 10 * sum <= p + 20 /\ p < 10 * sum + 20
<1>1. PICK q \in Nat : q = Rounded(a * p, 10 * t) /\ 20 * (t * q) <= 2 * (a * p) + 10 * t
                       /\ 2 * (a * p) < 20 * (t * q) + 10 * t
  BY ShareIs
<1>2. PICK r \in Nat : r = Rounded(b * p, 10 * t) /\ 20 * (t * r) <= 2 * (b * p) + 10 * t
                       /\ 2 * (b * p) < 20 * (t * r) + 10 * t
  BY ShareIs
<1>3. PICK s \in Nat : s = Rounded(c * p, 10 * t) /\ 20 * (t * s) <= 2 * (c * p) + 10 * t
                       /\ 2 * (c * p) < 20 * (t * s) + 10 * t
  BY ShareIs
<1>4. PICK u \in Nat : u = Rounded(d * p, 10 * t) /\ 20 * (t * u) <= 2 * (d * p) + 10 * t
                       /\ 2 * (d * p) < 20 * (t * u) + 10 * t
  BY ShareIs
<1>5. a * p + b * p + c * p + d * p = t * p
  OBVIOUS
<1>6. PICK sum \in Nat : sum = q + r + s + u
  OBVIOUS
<1>7. t * q + t * r + t * s + t * u = t * sum
  BY <1>6
<1>8. /\ t * q \in Nat /\ t * r \in Nat /\ t * s \in Nat /\ t * u \in Nat /\ t * sum \in Nat
      /\ a * p \in Nat /\ b * p \in Nat /\ c * p \in Nat /\ d * p \in Nat /\ t * p \in Nat
  OBVIOUS
<1>9. 20 * (t * sum) <= 2 * (t * p) + 40 * t /\ 2 * (t * p) < 20 * (t * sum) + 40 * t
  BY <1>1, <1>2, <1>3, <1>4, <1>5, <1>7, <1>8
<1>10. t * (10 * sum) <= t * (p + 20) /\ t * p < t * (10 * sum + 20)
  <2>1. /\ t * (10 * sum) = 10 * (t * sum) /\ t * (p + 20) = t * p + 20 * t
        /\ t * (10 * sum + 20) = 10 * (t * sum) + 20 * t
    OBVIOUS
  <2> QED
    BY <1>8, <1>9, <2>1
<1>11. 10 * sum <= p + 20 /\ p < 10 * sum + 20
  <2>1. 10 * sum \in Nat /\ p + 20 \in Nat /\ 10 * sum + 20 \in Nat
    OBVIOUS
  <2> QED
    BY <1>10, <2>1, CancelFactor
<1> QED
  BY <1>1, <1>2, <1>3, <1>4, <1>6, <1>11

(* "Every score is explainable" (scoring.py:6): the contributions of the   *)
(* breakdown add up to the score within 0.07 points, whatever was rounded, *)
(* and to more only where the score itself was cut off at 100.             *)
THEOREM ScoreExplained ==
  RescoringSpec => []BreakdownExplainsTheScore
<1>1. ASSUME RescoringInv
      PROVE  BreakdownExplainsTheScore
  <2>1. Scaled(Finding) /\ criticality \in Criticalities /\ internet \in BOOLEAN
    BY <1>1, FindingIs DEF RescoringInv
  <2>2. PICK a \in Nat, b \in Nat, c \in Nat, d \in Nat, t \in Nat :
          /\ a = BasePoints("cvss", Finding, internet) /\ b = BasePoints("epss", Finding, internet)
          /\ c = BasePoints("kev", Finding, internet) /\ d = BasePoints("exposure", Finding, internet)
          /\ t = BaseTotal(Finding, internet) /\ t = a + b + c + d
    <3>1. /\ BasePoints("cvss", Finding, internet) \in Nat
          /\ BasePoints("epss", Finding, internet) \in Nat
          /\ BasePoints("kev", Finding, internet) \in Nat
          /\ BasePoints("exposure", Finding, internet) \in Nat
      BY <2>1, BaseType, SMT
    <3>2. BaseTotal(Finding, internet) \in Nat
      BY <2>1, BaseIsNat, Zenon
    <3> QED
      BY <3>1, <3>2 DEF BaseTotal
  <2>3. PICK w \in Nat : w = CriticalityWeight(criticality)
    BY <2>1, WeightType
  <2>4. PICK e \in Nat : e = Capped(t) /\ (t = 0 => e = 0)
    BY CappedIs
  <2>5. PICK p \in Nat : p = e * w /\ Risk = ToScore(p)
    <3>1. Points(Finding, criticality, internet) = e * w
      BY <2>2, <2>3, <2>4, Zenon DEF Points
    <3> QED
      BY <2>1, <3>1, ScoreIs, Zenon DEF Risk
  <2>6. PICK r \in Nat :
          /\ r = Rounded(p, 100) /\ 200 * r <= 2 * p + 100 /\ 2 * p + 100 < 200 * r + 200
    BY RoundedToHundreds
  <2>7. Risk = IF r <= 1000 THEN r ELSE 1000
    BY <2>5, <2>6, ToScoreIs, SMT
  <2>8. CASE t = 0
    <3>1. p = 0
      BY <2>3, <2>4, <2>5, <2>8
    <3>2. Risk = 0
      BY <2>6, <2>7, <3>1
    <3>3. Explained = 0
      BY <2>2, <2>8 DEF Explained, Contribution
    <3> QED
      BY <3>2, <3>3 DEF BreakdownExplainsTheScore
  <2>9. CASE t # 0
    <3>1. \A n \in Nat : (n * e) * w = n * p
      BY <2>5
    <3>2. /\ Contribution("cvss", Finding, criticality, internet) = Rounded((a * e) * w, 10 * t)
          /\ Contribution("epss", Finding, criticality, internet) = Rounded((b * e) * w, 10 * t)
          /\ Contribution("kev", Finding, criticality, internet) = Rounded((c * e) * w, 10 * t)
          /\ Contribution("exposure", Finding, criticality, internet) = Rounded((d * e) * w, 10 * t)
      BY <2>2, <2>3, <2>4, <2>9 DEF Contribution
    <3>3. Explained = Rounded(a * p, 10 * t) + Rounded(b * p, 10 * t)
                        + Rounded(c * p, 10 * t) + Rounded(d * p, 10 * t)
      BY <3>1, <3>2 DEF Explained
    <3>4. PICK sum \in Nat : sum = Explained /\ 10 * sum <= p + 20 /\ p < 10 * sum + 20
      <4>1. t = a + b + c + d
        BY <2>2
      <4>2. Explained \in Nat /\ 10 * Explained <= p + 20 /\ p < 10 * Explained + 20
        BY <2>9, <3>3, <4>1, SharesAddUp, Zenon
      <4> QED
        BY <4>2
    <3>5. PICK m \in Nat : m = Risk /\ m = IF r <= 1000 THEN r ELSE 1000
      BY <2>6, <2>7
    <3>6. sum >= m * 10 - 7 /\ (m < 1000 => sum <= m * 10 + 7)
      BY <2>6, <3>4, <3>5
    <3>7. sum >= Risk * 10 - 7 /\ (Risk < 1000 => sum <= Risk * 10 + 7)
      BY <3>5, <3>6
    <3> QED
      BY <3>4, <3>7 DEF BreakdownExplainsTheScore
  <2> QED
    BY <2>8, <2>9
<1> QED
  BY <1>1, RescoringInductive, PTL

-----------------------------------------------------------------------------
(* The inductive invariant of the vulnerability database.                  *)

(* A bundle with our signature gives its rows a date of its release.       *)
Bundles == {b \in Bundle : b.form = "whole" => DateOf(b.release, b.created) \in DatesOf(b.release)}
Loads == {<<>>} \cup {<<b>> : b \in Bundles}

ImportCalls ==
  [pc : {"idle", "export", "write", "verify", "load", "rows"},
   release : {0} \cup DOMAIN Releases, bundle : Loads, left : SUBSET DOMAIN CveOrder,
   verified : Loads, alone : BOOLEAN]

Rows == {NoRow} \cup [entry : VdbEntry, date : Nat, from : Forms]

(* The bundle a call has loaded.                                           *)
HasLoaded(call) ==
  \E b \in Bundles :
    call.bundle = <<b>> /\ b.release = call.release /\ (b.form # "whole" => call.left = {})

CallFits(call) ==
  /\ call.pc \in {"export", "write", "rows"} => call.release # 0
  /\ call.pc = "rows" => HasLoaded(call)

VdbTypes ==
  /\ file \in Bundles
  /\ rows \in [Cves -> Rows]
  /\ import \in [Importers -> ImportCalls]
  /\ \A i \in Importers : CallFits(import[i])
  /\ last \in {0} \cup DOMAIN Releases
  /\ swapped \in BOOLEAN

HasRow(n, c) == rows[c].entry = Entries[n][c] /\ rows[c].date \in DatesOf(n)

(* A row of a signed bundle is one of some release.                        *)
RowsAreReleased ==
  \A c \in Cves : rows[c].from = "whole" =>
    \E n \in DOMAIN Releases : c \in DOMAIN Entries[n] /\ HasRow(n, c)

(* What was verified was whole, and unless a file was swapped it is what   *)
(* was loaded.                                                             *)
OnlyWholeBundles ==
  /\ \A i \in Importers : import[i].pc = "load" =>
       \E b \in Bundles : b.form = "whole" /\ import[i].verified = <<b>>
  /\ ~swapped => /\ \A i \in Importers : import[i].pc = "rows" => Loaded(i).form = "whole"
                 /\ \A c \in Cves : rows[c].from \in {"nothing", "whole"}

(* An import that stands alone has left the rows it came past.             *)
ImportsProgress ==
  \A i \in Importers : import[i].pc = "rows" /\ ~Strange(i) =>
    /\ import[i].left \subseteq Payload[import[i].release]
    /\ \A k \in Payload[import[i].release] \ import[i].left :
         /\ CveOrder[k] # Releases[import[i].release].odd
         /\ import[i].alone => HasRow(import[i].release, CveOrder[k])

LastIsWhole ==
  last # 0 =>
    /\ Releases[last].odd = "none"
    /\ \A c \in DOMAIN Entries[last] : HasRow(last, c)

VdbInv ==
  VdbTypes /\ RowsAreReleased /\ OnlyWholeBundles /\ ImportsProgress /\ LastIsWhole


-----------------------------------------------------------------------------
(* Lemmas about feeds and bundles.                                         *)

LEMMA MemberOf ==
  ASSUME NEW S, NEW s \in Seq(S)
  PROVE  DOMAIN s \subseteq Nat /\ \A i \in DOMAIN s : s[i] \in S
OBVIOUS

LEMMA OrderIs ==
  DOMAIN CveOrder \subseteq Nat /\ \A k \in DOMAIN CveOrder : CveOrder[k] \in Cves
BY ReleasesAssumption, MemberOf, Zenon

LEMMA ReleaseIs ==
  ASSUME NEW n \in DOMAIN Releases
  PROVE  /\ n \in Nat /\ n # 0
         /\ Releases[n].kev \in Seq(Cves \cup {""})
         /\ Releases[n].epss \in Seq(Line) /\ Releases[n].cvss \in Seq(Line)
         /\ Releases[n].date \in Nat /\ Releases[n].created \in Nat
<1> DEFINE R == [kev : Seq(Cves \cup {""}), epss : Seq(Line), cvss : Seq(Line),
                 date : Nat, created : Nat, odd : Cves \cup {"none"}]
<1>1. Releases \in Seq(R)
  BY ReleasesAssumption
<1>2. Releases[n] \in R /\ n \in Nat /\ n # 0
  <2> HIDE DEF R
  <2> QED
    BY <1>1
<1> QED
  BY <1>2

LEMMA ParseScoresType ==
  ASSUME NEW feed \in Seq(Line)
  PROVE  /\ DOMAIN ParseScores(feed) \subseteq Cves
         /\ \A c \in DOMAIN ParseScores(feed) : ParseScores(feed)[c] \in Numbers
<1> DEFINE good == {i \in DOMAIN feed : feed[i].cve # "" /\ feed[i].number # NoScore}
           Of(c) == {i \in good : feed[i].cve = c}
           D == {feed[i].cve : i \in good}
<1>1. /\ ParseScores(feed) = [c \in D |-> feed[Max(Of(c))].number]
  BY DEF ParseScores
<1>2. \A i \in good : feed[i].cve \in Cves /\ feed[i].number \in Numbers
  <2>1. \A i \in DOMAIN feed : feed[i] \in Line
    BY MemberOf, Zenon
  <2>2. \A x \in Line : x.cve \in Cves \cup {""} /\ x.number \in Int
    BY DEF Line
  <2> QED
    BY <2>1, <2>2 DEF Numbers
<1>3. good \subseteq DOMAIN feed
  BY Zenon
<1> HIDE DEF good
<1>4. \A c \in D : Max(Of(c)) \in good
  <2> TAKE c \in D
  <2>1. Of(c) \in SUBSET Int /\ Of(c) # {} /\ \A i \in Of(c) : i <= Len(feed)
    BY <1>3
  <2>2. Len(feed) \in Int
    OBVIOUS
  <2>3. Max(Of(c)) \in Of(c)
    <3> HIDE DEF Of
    <3> QED
      BY <2>1, <2>2, GreatestOf, Zenon
  <2> QED
    BY <2>3
<1> HIDE DEF Of
<1>5. D \subseteq Cves
  BY <1>2
<1>6. \A c \in D : feed[Max(Of(c))].number \in Numbers
  BY <1>2, <1>4
<1> HIDE DEF D
<1> QED
  BY <1>1, <1>5, <1>6

(* What a release says of a CVE are numbers, in whatever scale.            *)
LEMMA EntriesType ==
  ASSUME NEW n \in DOMAIN Releases
  PROVE  /\ DOMAIN Entries[n] \subseteq Cves
         /\ \A c \in DOMAIN Entries[n] : Entries[n][c] \in VdbEntry
<1> DEFINE kev == ParseKev(Releases[n].kev)
           epss == ParseScores(Releases[n].epss)
           cvss == ParseScores(Releases[n].cvss)
           D == kev \cup DOMAIN epss \cup DOMAIN cvss
<1>1. Entries[n] = [c \in D |-> BuildEntry(c, kev, epss, cvss)]
  BY DEF Entries
<1>2. kev \subseteq Cves
  <2> DEFINE feed == Releases[n].kev
  <2>1. \A i \in DOMAIN feed : feed[i] \in Cves \cup {""}
    BY ReleaseIs, MemberOf, Zenon
  <2>2. kev = {feed[i] : i \in DOMAIN feed} \ {""}
    BY Zenon DEF ParseKev
  <2> HIDE DEF feed, kev
  <2> QED
    BY <2>1, <2>2, Zenon
<1>3. DOMAIN epss \subseteq Cves /\ \A c \in DOMAIN epss : epss[c] \in Numbers
  BY ReleaseIs, ParseScoresType
<1>4. DOMAIN cvss \subseteq Cves /\ \A c \in DOMAIN cvss : cvss[c] \in Numbers
  BY ReleaseIs, ParseScoresType
<1> HIDE DEF kev, epss, cvss
<1>5. \A c \in D : BuildEntry(c, kev, epss, cvss) \in VdbEntry
  BY <1>3, <1>4, ScaleIs DEF BuildEntry, VdbEntry
<1> HIDE DEF D
<1>6. D \subseteq Cves
  BY <1>2, <1>3, <1>4 DEF D
<1> QED
  BY <1>1, <1>5, <1>6

LEMMA PayloadIs ==
  ASSUME NEW n \in DOMAIN Releases
  PROVE  /\ Payload[n] = {k \in DOMAIN CveOrder : CveOrder[k] \in DOMAIN Entries[n]}
         /\ \A c \in DOMAIN Entries[n] : \E k \in Payload[n] : CveOrder[k] = c
<1>1. Payload[n] = {k \in DOMAIN CveOrder : CveOrder[k] \in DOMAIN Entries[n]}
  BY DEF Payload
<1>2. DOMAIN Entries[n] \subseteq {CveOrder[i] : i \in DOMAIN CveOrder}
  BY EntriesType DEF Cves
<1> QED
  BY <1>1, <1>2

LEMMA DatesAre ==
  ASSUME NEW n \in DOMAIN Releases
  PROVE  /\ DatesOf(n) \subseteq Nat
         /\ Releases[n].date # 0 => DatesOf(n) = {Releases[n].date}
         /\ \A form \in Forms : Exported(n, form) \in Bundles
<1>1. Releases[n].date \in Nat /\ Releases[n].created \in Nat
  BY ReleaseIs
<1>2. \A d \in Delivered : d.created \in Nat
  BY BundlesAssumption DEF Bundle
<1>3. DatesOf(n) \subseteq Nat
  BY <1>1, <1>2 DEF DatesOf
<1>4. Releases[n].date # 0 => DatesOf(n) = {Releases[n].date}
  BY DEF DatesOf
<1>5. DateOf(n, Releases[n].created) \in DatesOf(n)
  BY DEF DateOf, DatesOf
<1>6. ASSUME NEW form \in Forms
      PROVE  Exported(n, form) \in Bundles
  <2>1. Exported(n, form) \in Bundle
    BY <1>1 DEF Exported, Bundle
  <2>2. Exported(n, form).release = n /\ Exported(n, form).created = Releases[n].created
    BY DEF Exported
  <2> QED
    BY <1>5, <2>1, <2>2 DEF Bundles
<1> QED
  BY <1>3, <1>4, <1>6

LEMMA DeliveredAre ==
  Delivered \subseteq Bundles
<1> SUFFICES ASSUME NEW d \in Delivered
             PROVE  d \in Bundles
  OBVIOUS
<1>1. d \in Bundle
  BY BundlesAssumption
<1>2. d.form = "whole" => DateOf(d.release, d.created) \in DatesOf(d.release)
  BY DEF DateOf, DatesOf
<1> QED
  BY <1>1, <1>2 DEF Bundles

LEMMA BundleIs ==
  ASSUME NEW b \in Bundles
  PROVE  /\ b.release \in DOMAIN Releases /\ b.form \in Forms /\ b.created \in Nat
         /\ b.release # 0
BY ReleaseIs DEF Bundles, Bundle

LEMMA RowIs ==
  ASSUME NEW b \in Bundles, b.form = "whole", NEW c \in DOMAIN Entries[b.release]
  PROVE  /\ Row(b, c) \in Rows /\ Row(b, c).from = "whole"
         /\ Row(b, c).entry = Entries[b.release][c] /\ Row(b, c).date \in DatesOf(b.release)
<1>1. b.release \in DOMAIN Releases /\ b.form \in Forms
  BY BundleIs
<1>2. Entries[b.release][c] \in VdbEntry
  BY <1>1, EntriesType
<1>3. DateOf(b.release, b.created) \in DatesOf(b.release)
  BY DEF Bundles
<1>4. DatesOf(b.release) \subseteq Nat
  BY <1>1, DatesAre
<1> QED
  BY <1>1, <1>2, <1>3, <1>4 DEF Row, Rows

LEMMA LoadedIs ==
  ASSUME VdbInv, NEW i \in Importers, import[i].pc = "rows"
  PROVE  /\ Loaded(i) \in Bundles /\ import[i].bundle = <<Loaded(i)>>
         /\ Loaded(i).release = import[i].release
         /\ Strange(i) => import[i].left = {}
         /\ Strange(i) <=> Loaded(i).form # "whole"
<1>1. PICK b \in Bundles : /\ import[i].bundle = <<b>> /\ b.release = import[i].release
                           /\ b.form # "whole" => import[i].left = {}
  BY DEF VdbInv, VdbTypes, CallFits, HasLoaded
<1>2. Loaded(i) = b
  BY <1>1 DEF Loaded
<1> QED
  BY <1>1, <1>2 DEF Strange

(* The item an import comes to next is one of its bundle's.                *)
LEMMA ItemIs ==
  ASSUME VdbInv, NEW i \in Importers, HasItem(i)
  PROVE  /\ import[i].release \in DOMAIN Releases /\ ~Strange(i)
         /\ Min(import[i].left) \in import[i].left
         /\ import[i].left \subseteq Payload[import[i].release]
         /\ Item(i) = CveOrder[Min(import[i].left)]
         /\ Item(i) \in DOMAIN Entries[import[i].release] /\ Item(i) \in Cves
<1>1. /\ import[i].pc = "rows" /\ import[i].left # {} /\ import[i] \in ImportCalls
      /\ import[i].release # 0
  BY DEF HasItem, VdbInv, VdbTypes, CallFits
<1>2. import[i].release \in DOMAIN Releases /\ ~Strange(i)
  BY <1>1, LoadedIs DEF ImportCalls
<1>3. import[i].left \subseteq Payload[import[i].release] /\ import[i].left \in SUBSET Nat
  <2>1. import[i].left \in SUBSET DOMAIN CveOrder
    BY <1>1 DEF ImportCalls
  <2>2. DOMAIN CveOrder \subseteq Nat
    BY OrderIs
  <2> QED
    BY <1>1, <1>2, <2>1, <2>2 DEF VdbInv, ImportsProgress
<1>4. Min(import[i].left) \in import[i].left
  BY <1>1, <1>3, LeastOf
<1>5. Item(i) = CveOrder[Min(import[i].left)]
  BY DEF Item
<1>6. Item(i) \in DOMAIN Entries[import[i].release]
  BY <1>2, <1>3, <1>4, <1>5, PayloadIs
<1> QED
  BY <1>2, <1>3, <1>4, <1>5, <1>6, EntriesType

-----------------------------------------------------------------------------
(* The database keeps its invariant.                                       *)

LEMMA CallOf ==
  ASSUME VdbInv, NEW i \in Importers
  PROVE  /\ import[i] \in ImportCalls
         /\ import[i].pc \in {"export", "write", "rows"} => import[i].release \in DOMAIN Releases
<1>1. import[i] \in ImportCalls /\ (import[i].pc \in {"export", "write", "rows"} => import[i].release # 0)
  BY DEF VdbInv, VdbTypes, CallFits
<1> QED
  BY <1>1 DEF ImportCalls

LEMMA IdleIs ==
  Idle \in ImportCalls /\ Idle.pc = "idle" /\ CallFits(Idle)
BY DEF Idle, ImportCalls, Loads, CallFits

(* A call moves on, without an effect on the table.                        *)
LEMMA CallMoves ==
  ASSUME VdbInv, NEW i \in Importers, NEW call \in ImportCalls,
         call.pc # "rows", call.pc \in {"export", "write"} => call.release # 0,
         call.pc = "load" => \E b \in Bundles : b.form = "whole" /\ call.verified = <<b>>,
         import' = [import EXCEPT ![i] = call], file' \in Bundles, UNCHANGED <<rows, last, swapped>>
  PROVE  VdbInv'
<1>1. \A j \in Importers : import'[j] = IF j = i THEN call ELSE import[j]
  BY DEF VdbInv, VdbTypes
<1>2. import' \in [Importers -> ImportCalls]
  BY DEF VdbInv, VdbTypes
<1>3. VdbTypes'
  <2>1. \A j \in Importers : CallFits(import'[j])
    BY <1>1 DEF VdbInv, VdbTypes, CallFits
  <2> QED
    BY <1>2, <2>1 DEF VdbInv, VdbTypes
<1>4. RowsAreReleased'
  BY DEF VdbInv, RowsAreReleased, HasRow
<1>5. OnlyWholeBundles'
  <2>1. \A j \in Importers : import'[j].pc = "load" =>
          \E b \in Bundles : b.form = "whole" /\ import'[j].verified = <<b>>
    BY <1>1 DEF VdbInv, OnlyWholeBundles
  <2>2. swapped' \/ ((\A j \in Importers : import'[j].pc = "rows" => import'[j].bundle[1].form = "whole")
                      /\ \A c \in Cves : rows'[c].from \in {"nothing", "whole"})
    BY <1>1 DEF VdbInv, OnlyWholeBundles, Loaded
  <2> QED
    BY <2>1, <2>2 DEF OnlyWholeBundles, Loaded
<1>6. ImportsProgress'
  BY <1>1 DEF VdbInv, ImportsProgress, HasRow, Strange, Loaded
<1>7. LastIsWhole'
  BY DEF VdbInv, LastIsWhole, HasRow
<1> QED
  BY <1>3, <1>4, <1>5, <1>6, <1>7 DEF VdbInv

LEMMA CallGoes ==
  ASSUME VdbInv, NEW i \in Importers, NEW pc, Goto(i, pc)
  PROVE  import' = [import EXCEPT ![i] = [import[i] EXCEPT !.pc = pc]]
BY DEF Goto, VdbInv, VdbTypes

LEMMA CallLeaves ==
  ASSUME VdbInv, NEW i \in Importers, Leave(i), file' = file, UNCHANGED <<rows, last, swapped>>
  PROVE  VdbInv'
<1>1. file' \in Bundles
  BY DEF VdbInv, VdbTypes
<1> QED
  BY <1>1, CallMoves, IdleIs DEF Leave

LEMMA BeginImportKeeps ==
  ASSUME VdbInv, NEW i \in Importers, BeginImport(i)
  PROVE  VdbInv'
<1>1. file' \in Bundles /\ UNCHANGED <<rows, last, swapped>> /\ import[i] \in ImportCalls
  BY CallOf DEF BeginImport, VdbInv, VdbTypes
<1>2. CASE Goto(i, "verify")
  <2> DEFINE call == [import[i] EXCEPT !.pc = "verify"]
  <2>1. call \in ImportCalls /\ call.pc = "verify"
    BY <1>1 DEF ImportCalls
  <2>2. import' = [import EXCEPT ![i] = call]
    BY <1>2, CallGoes
  <2> HIDE DEF call
  <2> QED
    BY <1>1, <2>1, <2>2, CallMoves
<1>3. ASSUME NEW n \in DOMAIN Releases,
             import' = [import EXCEPT ![i].pc = "export", ![i].release = n]
      PROVE  VdbInv'
  <2> DEFINE call == [import[i] EXCEPT !.pc = "export", !.release = n]
  <2>1. call \in ImportCalls /\ call.pc = "export" /\ call.release = n /\ n # 0
    BY <1>1, ReleaseIs DEF ImportCalls
  <2>2. import' = [import EXCEPT ![i] = call]
    BY <1>3 DEF VdbInv, VdbTypes
  <2> HIDE DEF call
  <2> QED
    BY <1>1, <2>1, <2>2, CallMoves
<1> QED
  BY <1>2, <1>3 DEF BeginImport

LEMMA OpenBundleKeeps ==
  ASSUME VdbInv, NEW i \in Importers, OpenBundle(i)
  PROVE  VdbInv'
<1> DEFINE call == [import[i] EXCEPT !.pc = "write"]
<1>1. import[i] \in ImportCalls /\ import[i].release \in DOMAIN Releases /\ import[i].release # 0
  BY CallOf, ReleaseIs DEF OpenBundle
<1>2. call \in ImportCalls /\ call.pc = "write" /\ call.release # 0
  BY <1>1 DEF ImportCalls
<1>3. import' = [import EXCEPT ![i] = call]
  BY CallGoes DEF OpenBundle
<1>4. file' \in Bundles /\ UNCHANGED <<rows, last, swapped>>
  BY <1>1, DatesAre DEF OpenBundle, Forms
<1> HIDE DEF call
<1> QED
  BY <1>2, <1>3, <1>4, CallMoves

LEMMA WriteBundleKeeps ==
  ASSUME VdbInv, NEW i \in Importers, WriteBundle(i)
  PROVE  VdbInv'
<1> DEFINE call == [import[i] EXCEPT !.pc = "verify"]
<1>1. import[i] \in ImportCalls /\ import[i].release \in DOMAIN Releases
  BY CallOf DEF WriteBundle
<1>2. call \in ImportCalls /\ call.pc = "verify"
  BY <1>1 DEF ImportCalls
<1>3. import' = [import EXCEPT ![i] = call]
  BY CallGoes DEF WriteBundle
<1>4. file' \in Bundles /\ UNCHANGED <<rows, last, swapped>>
  BY <1>1, DatesAre DEF WriteBundle, Forms
<1> HIDE DEF call
<1> QED
  BY <1>2, <1>3, <1>4, CallMoves

LEMMA VerifyBundleKeeps ==
  ASSUME VdbInv, NEW i \in Importers, VerifyBundle(i)
  PROVE  VdbInv'
<1>1. file \in Bundles /\ file' \in Bundles /\ UNCHANGED <<file, rows, last, swapped>> /\ import[i] \in ImportCalls
  BY CallOf DEF VerifyBundle, VdbInv, VdbTypes
<1>2. CASE file.form = "whole"
  <2> DEFINE call == [import[i] EXCEPT !.pc = "load", !.verified = <<file>>]
  <2>1. call \in ImportCalls /\ call.pc = "load" /\ call.verified = <<file>>
    BY <1>1 DEF ImportCalls, Loads
  <2>2. import' = [import EXCEPT ![i] = call]
    BY <1>2 DEF VerifyBundle, VdbInv, VdbTypes
  <2> HIDE DEF call
  <2> QED
    BY <1>1, <1>2, <2>1, <2>2, CallMoves
<1>3. CASE file.form # "whole"
  BY <1>1, <1>3, CallLeaves DEF VerifyBundle
<1> QED
  BY <1>2, <1>3

LEMMA LoadBundleKeeps ==
  ASSUME VdbInv, NEW i \in Importers, LoadBundle(i)
  PROVE  VdbInv'
<1> DEFINE n == file.release
           items == IF file.form = "whole" THEN Payload[n] ELSE {}
           call == [pc |-> "rows", release |-> n, bundle |-> <<file>>,
                    left |-> items, verified |-> <<>>, alone |-> TRUE]
<1>1. /\ file \in Bundles /\ n \in DOMAIN Releases
      /\ UNCHANGED <<file, rows, last>>
      /\ swapped \in BOOLEAN /\ swapped' = (swapped \/ <<file>> # import[i].verified)
  BY BundleIs DEF LoadBundle, VdbInv, VdbTypes
<1>2. import' = [import EXCEPT ![i] = call] \/ import' = [import EXCEPT ![i] = Idle]
  BY DEF LoadBundle, Leave
<1>3. /\ call \in ImportCalls /\ call.pc = "rows" /\ call.release = n /\ call.bundle = <<file>>
      /\ file.form = "whole" => call.left = Payload[n]
      /\ CallFits(call)
  <2>1. items \in SUBSET DOMAIN CveOrder /\ (file.form # "whole" => items = {})
    BY <1>1, PayloadIs
  <2>2. n # 0
    BY <1>1, ReleaseIs
  <2>3. TRUE \in BOOLEAN
    OBVIOUS
  <2>4. <<file>> \in Loads /\ <<>> \in Loads
    BY <1>1 DEF Loads
  <2>5. file.form = "whole" => items = Payload[n]
    OBVIOUS
  <2> HIDE DEF items
  <2>6. call.bundle = <<file>> /\ file.release = call.release /\ (file.form # "whole" => call.left = {})
    BY <2>1
  <2>7. HasLoaded(call)
    BY <1>1, <2>6 DEF HasLoaded
  <2>8. CallFits(call)
    BY <2>2, <2>7 DEF CallFits
  <2> HIDE DEF n
  <2>9. call \in ImportCalls
    BY <1>1, <2>1, <2>3, <2>4 DEF ImportCalls
  <2> QED
    BY <2>5, <2>6, <2>8, <2>9
<1> HIDE DEF call
<1>4. PICK new \in {call, Idle} : import' = [import EXCEPT ![i] = new]
  BY <1>2
<1>5. \A j \in Importers : import'[j] = IF j = i THEN new ELSE import[j]
  BY <1>4 DEF VdbInv, VdbTypes
<1>6. VdbTypes'
  <2>1. import' \in [Importers -> ImportCalls]
    BY <1>3, <1>4, IdleIs DEF VdbInv, VdbTypes
  <2>2. \A j \in Importers : CallFits(import'[j])
    BY <1>3, <1>5, IdleIs DEF VdbInv, VdbTypes
  <2>3. swapped' \in BOOLEAN
    BY <1>1, Zenon
  <2> QED
    BY <1>1, <2>1, <2>2, <2>3 DEF VdbInv, VdbTypes
<1>7. RowsAreReleased' /\ LastIsWhole'
  BY <1>1 DEF VdbInv, RowsAreReleased, LastIsWhole, HasRow
<1>8. OnlyWholeBundles'
  <2>1. PICK b \in Bundles : b.form = "whole" /\ import[i].verified = <<b>>
    BY DEF LoadBundle, VdbInv, OnlyWholeBundles
  <2>2. ~swapped' => ~swapped /\ file = b
    <3>1. ~swapped' => ~swapped /\ <<file>> = <<b>>
      BY <1>1, <2>1, Zenon
    <3> QED
      BY <3>1
  <2>3. ~swapped' => call.bundle[1].form = "whole"
    BY <1>3, <2>1, <2>2
  <2>4. \A j \in Importers : import'[j].pc = "load" =>
          \E c \in Bundles : c.form = "whole" /\ import'[j].verified = <<c>>
    BY <1>3, <1>5, IdleIs DEF VdbInv, OnlyWholeBundles
  <2>5. ~swapped' => /\ \A j \in Importers : import'[j].pc = "rows" => import'[j].bundle[1].form = "whole"
                     /\ \A c \in Cves : rows'[c].from \in {"nothing", "whole"}
    BY <1>1, <1>3, <1>5, <2>2, <2>3, IdleIs DEF VdbInv, OnlyWholeBundles, Loaded
  <2> QED
    BY <2>4, <2>5 DEF OnlyWholeBundles, Loaded
<1>9. ImportsProgress'
  <2> SUFFICES ASSUME NEW j \in Importers, import'[j].pc = "rows",
                             import'[j].bundle[1].form = "whole"
               PROVE  /\ import'[j].left \subseteq Payload[import'[j].release]
                      /\ \A k \in Payload[import'[j].release] \ import'[j].left :
                           /\ CveOrder[k] # Releases[import'[j].release].odd
                           /\ import'[j].alone => HasRow(import[j].release, CveOrder[k])'
    BY DEF ImportsProgress, Strange, Loaded
  <2>1. CASE j = i
    BY <1>3, <1>5, <2>1, IdleIs
  <2>2. CASE j # i
    BY <1>1, <1>5, <2>2 DEF VdbInv, ImportsProgress, HasRow, Strange, Loaded
  <2> QED
    BY <2>1, <2>2
<1> QED
  BY <1>6, <1>7, <1>8, <1>9 DEF VdbInv

(* What a write does to the calls.                                         *)
LEMMA WrittenIs ==
  ASSUME VdbInv, NEW i \in Importers, NEW left, left \subseteq import[i].left, Written(i, left)
  PROVE  /\ import' \in [Importers -> ImportCalls]
         /\ \A j \in Importers :
              /\ import'[j].pc = import[j].pc /\ import'[j].release = import[j].release
              /\ import'[j].bundle = import[j].bundle /\ import'[j].verified = import[j].verified
              /\ CallFits(import'[j])
              /\ j # i => import'[j].left = import[j].left /\ import'[j].alone = FALSE
         /\ import'[i].left = left /\ import'[i].alone = import[i].alone
         /\ last' = 0 /\ UNCHANGED <<file, swapped>>
<1>1. /\ import' = [j \in Importers |->
           IF j = i THEN [import[j] EXCEPT !.left = left] ELSE [import[j] EXCEPT !.alone = FALSE]]
      /\ last' = 0 /\ UNCHANGED <<file, swapped>>
  BY DEF Written
<1>2. \A j \in Importers : import[j] \in ImportCalls /\ CallFits(import[j])
  BY CallOf DEF VdbInv, VdbTypes
<1>3. /\ import'[i] \in ImportCalls /\ import'[i].left = left /\ import'[i].alone = import[i].alone
      /\ import'[i].pc = import[i].pc /\ import'[i].release = import[i].release
      /\ import'[i].bundle = import[i].bundle /\ import'[i].verified = import[i].verified
  <2>1. import'[i] = [import[i] EXCEPT !.left = left]
    BY <1>1
  <2> QED
    BY <1>2, <2>1 DEF ImportCalls
<1>4. CallFits(import'[i])
  <2>1. HasLoaded(import[i]) => HasLoaded(import'[i])
    BY <1>3 DEF HasLoaded
  <2> QED
    BY <1>2, <1>3, <2>1 DEF CallFits
<1>5. ASSUME NEW j \in Importers, j # i
      PROVE  /\ import'[j] \in ImportCalls
             /\ import'[j].pc = import[j].pc /\ import'[j].release = import[j].release
             /\ import'[j].bundle = import[j].bundle /\ import'[j].verified = import[j].verified
             /\ import'[j].left = import[j].left /\ import'[j].alone = FALSE
             /\ CallFits(import'[j])
  <2>1. import'[j] = [import[j] EXCEPT !.alone = FALSE]
    BY <1>1, <1>5
  <2>2. PICK no \in BOOLEAN : no = FALSE
    OBVIOUS
  <2>3. import'[j] = [import[j] EXCEPT !.alone = no]
    BY <2>1, <2>2, Zenon
  <2>4. /\ import'[j] \in ImportCalls
        /\ import'[j].pc = import[j].pc /\ import'[j].release = import[j].release
        /\ import'[j].bundle = import[j].bundle /\ import'[j].verified = import[j].verified
        /\ import'[j].left = import[j].left /\ import'[j].alone = no
    BY <1>2, <2>3 DEF ImportCalls
  <2>5. CallFits(import'[j])
    BY <1>2, <2>4 DEF CallFits, HasLoaded
  <2> QED
    BY <2>2, <2>4, <2>5, Zenon
<1>6. import' \in [Importers -> ImportCalls]
  <2>1. \A j \in Importers : import'[j] \in ImportCalls
    BY <1>3, <1>5, Zenon
  <2> QED
    BY <1>1, <2>1, Zenon
<1> QED
  BY <1>1, <1>3, <1>4, <1>5, <1>6, Zenon

(* A write to one row keeps all of the invariant but, of the call that     *)
(* writes, its progress.                                                   *)
LEMMA WriteKeeps ==
  ASSUME VdbInv, NEW i \in Importers, import[i].pc = "rows",
         NEW left, left \subseteq import[i].left, Written(i, left),
         NEW c \in Cves, NEW row \in Rows, rows' = [rows EXCEPT ![c] = row],
         row.from = Loaded(i).form,
         row.from = "whole" => \E n \in DOMAIN Releases :
           c \in DOMAIN Entries[n] /\ row.entry = Entries[n][c] /\ row.date \in DatesOf(n)
  PROVE  /\ VdbTypes' /\ RowsAreReleased' /\ OnlyWholeBundles' /\ LastIsWhole'
         /\ rows'[c] = row /\ \A d \in Cves : d # c => rows'[d] = rows[d]
         /\ \A j \in Importers : j # i /\ import'[j].pc = "rows" /\ Strange(j)' = FALSE =>
              /\ import'[j].left \subseteq Payload[import'[j].release]
              /\ import'[j].alone = FALSE
              /\ \A k \in Payload[import'[j].release] \ import'[j].left :
                   CveOrder[k] # Releases[import'[j].release].odd
<1>1. /\ rows' \in [Cves -> Rows] /\ rows'[c] = row
      /\ \A d \in Cves : d # c => rows'[d] = rows[d]
  BY DEF VdbInv, VdbTypes
<1>2. /\ import' \in [Importers -> ImportCalls]
      /\ \A j \in Importers :
           /\ import'[j].pc = import[j].pc /\ import'[j].release = import[j].release
           /\ import'[j].bundle = import[j].bundle /\ import'[j].verified = import[j].verified
           /\ CallFits(import'[j])
           /\ j # i => import'[j].left = import[j].left /\ import'[j].alone = FALSE
      /\ last' = 0 /\ UNCHANGED <<file, swapped>>
  BY WrittenIs, Zenon
<1>3. VdbTypes'
  BY <1>1, <1>2 DEF VdbInv, VdbTypes
<1>4. RowsAreReleased'
  <2> SUFFICES ASSUME NEW d \in Cves, rows'[d].from = "whole"
               PROVE  \E n \in DOMAIN Releases : /\ d \in DOMAIN Entries[n]
                        /\ rows'[d].entry = Entries[n][d] /\ rows'[d].date \in DatesOf(n)
    BY DEF RowsAreReleased, HasRow
  <2>1. CASE d = c
    BY <1>1, <2>1
  <2>2. CASE d # c
    BY <1>1, <2>2 DEF VdbInv, RowsAreReleased, HasRow
  <2> QED
    BY <2>1, <2>2
<1>5. OnlyWholeBundles'
  <2>1. ~swapped => Loaded(i).form = "whole"
    BY DEF VdbInv, OnlyWholeBundles
  <2>2. ~swapped' => /\ \A j \in Importers : import'[j].pc = "rows" => import'[j].bundle[1].form = "whole"
                     /\ \A d \in Cves : rows'[d].from \in {"nothing", "whole"}
    BY <1>1, <1>2, <2>1 DEF VdbInv, OnlyWholeBundles, Loaded
  <2>3. \A j \in Importers : import'[j].pc = "load" =>
          \E b \in Bundles : b.form = "whole" /\ import'[j].verified = <<b>>
    BY <1>2 DEF VdbInv, OnlyWholeBundles
  <2> QED
    BY <2>2, <2>3 DEF OnlyWholeBundles, Loaded
<1>6. LastIsWhole'
  BY <1>2 DEF LastIsWhole
<1>7. ASSUME NEW j \in Importers, j # i, import'[j].pc = "rows", Strange(j)' = FALSE
      PROVE  /\ import'[j].left \subseteq Payload[import'[j].release]
             /\ import'[j].alone = FALSE
             /\ \A k \in Payload[import'[j].release] \ import'[j].left :
                  CveOrder[k] # Releases[import'[j].release].odd
  <2>1. import[j].pc = "rows" /\ ~Strange(j)
    BY <1>2, <1>7 DEF Strange, Loaded
  <2> QED
    BY <1>2, <1>7, <2>1 DEF VdbInv, ImportsProgress
<1> QED
  BY <1>1, <1>3, <1>4, <1>5, <1>6, <1>7

LEMMA UpsertRowKeeps ==
  ASSUME VdbInv, NEW i \in Importers, UpsertRow(i)
  PROVE  VdbInv'
<1> DEFINE n == import[i].release
           k == Min(import[i].left)
           item == Item(i)
           row == Row(Loaded(i), item)
<1>1. /\ HasItem(i) /\ Releases[n].odd # item /\ rows' = [rows EXCEPT ![item] = row]
      /\ Written(i, import[i].left \ {k}) /\ import[i].pc = "rows"
  BY DEF UpsertRow, PutRow, HasItem
<1>2. /\ n \in DOMAIN Releases /\ item \in DOMAIN Entries[n] /\ item \in Cves
      /\ k \in import[i].left /\ import[i].left \subseteq Payload[n] /\ item = CveOrder[k]
      /\ ~Strange(i)
  BY <1>1, ItemIs
<1>3. Loaded(i) \in Bundles /\ Loaded(i).release = n /\ Loaded(i).form = "whole"
  BY <1>1, <1>2, LoadedIs
<1>4. row \in Rows /\ row.from = "whole" /\ row.entry = Entries[n][item] /\ row.date \in DatesOf(n)
  BY <1>2, <1>3, RowIs
<1>5. /\ import'[i].left = import[i].left \ {k} /\ import'[i].alone = import[i].alone
      /\ import'[i].pc = import[i].pc /\ import'[i].release = n
  <2> DEFINE left == import[i].left \ {k}
  <2>1. left \subseteq import[i].left /\ Written(i, left)
    BY <1>1
  <2> HIDE DEF left
  <2>2. import'[i].left = left
    BY <2>1, WrittenIs, Zenon
  <2> QED
    BY <2>1, <2>2, WrittenIs, Zenon DEF left
<1> HIDE DEF k, item, row
<1>6. /\ VdbTypes' /\ RowsAreReleased' /\ OnlyWholeBundles' /\ LastIsWhole'
      /\ rows'[item] = row /\ \A d \in Cves : d # item => rows'[d] = rows[d]
      /\ \A j \in Importers : j # i /\ import'[j].pc = "rows" /\ Strange(j)' = FALSE =>
           /\ import'[j].left \subseteq Payload[import'[j].release]
           /\ import'[j].alone = FALSE
           /\ \A q \in Payload[import'[j].release] \ import'[j].left :
                CveOrder[q] # Releases[import'[j].release].odd
  <2>1. \E m \in DOMAIN Releases :
          item \in DOMAIN Entries[m] /\ row.entry = Entries[m][item] /\ row.date \in DatesOf(m)
    BY <1>2, <1>4
  <2>2. import[i].left \ {k} \subseteq import[i].left /\ row.from = Loaded(i).form
    BY <1>3, <1>4
  <2> QED
    BY <1>1, <1>2, <1>4, <2>1, <2>2, WriteKeeps, Zenon
<1>7. ImportsProgress'
  <2> SUFFICES ASSUME NEW j \in Importers, import'[j].pc = "rows", ~Strange(j)'
               PROVE  /\ import'[j].left \subseteq Payload[import'[j].release]
                      /\ \A q \in Payload[import'[j].release] \ import'[j].left :
                           /\ CveOrder[q] # Releases[import'[j].release].odd
                           /\ import'[j].alone => HasRow(import[j].release, CveOrder[q])'
    BY DEF ImportsProgress
  <2>1. CASE j # i
    BY <1>6, <2>1
  <2>2. CASE j = i
    <3>1. \A q \in Payload[n] \ import[i].left :
            CveOrder[q] # Releases[n].odd /\ (import[i].alone => HasRow(n, CveOrder[q]))
      BY <1>1, <1>2 DEF VdbInv, ImportsProgress
    <3>2. \A q \in Payload[n] \ import'[i].left : CveOrder[q] # Releases[n].odd
      BY <1>1, <1>2, <1>5, <3>1
    <3>3. ASSUME NEW q \in Payload[n] \ import'[i].left, import'[i].alone
          PROVE  rows'[CveOrder[q]].entry = Entries[n][CveOrder[q]]
                  /\ rows'[CveOrder[q]].date \in DatesOf(n)
      <4>1. CASE CveOrder[q] = item
        BY <1>4, <1>6, <4>1
      <4>2. CASE CveOrder[q] # item
        <5>1. CveOrder[q] \in Cves
          BY <1>2, OrderIs, PayloadIs
        <5>2. q \in Payload[n] \ import[i].left /\ import[i].alone
          BY <1>2, <1>5, <3>3, <4>2
        <5> QED
          BY <1>6, <3>1, <4>2, <5>1, <5>2 DEF HasRow
      <4> QED
        BY <4>1, <4>2
    <3>4. import'[i].left \subseteq Payload[n]
      BY <1>2, <1>5
    <3> QED
      BY <1>5, <2>2, <3>2, <3>3, <3>4 DEF HasRow
  <2> QED
    BY <2>1, <2>2
<1> QED
  BY <1>6, <1>7 DEF VdbInv

LEMMA UpsertStrangeRowKeeps ==
  ASSUME VdbInv, NEW i \in Importers, UpsertStrangeRow(i)
  PROVE  VdbInv'
<1>1. /\ import[i].pc = "rows" /\ Strange(i) /\ Written(i, {})
      /\ Loaded(i) \in Bundles /\ Loaded(i).form # "whole"
  BY LoadedIs DEF UpsertStrangeRow, Strange
<1>2. PICK c \in Cves, entry \in StrangeEntries, date \in StrangeDates :
        rows' = [rows EXCEPT ![c] = [entry |-> entry, date |-> date, from |-> Loaded(i).form]]
  BY DEF UpsertStrangeRow
<1> DEFINE row == [entry |-> entry, date |-> date, from |-> Loaded(i).form]
<1>3. row \in Rows /\ row.from = Loaded(i).form /\ row.from # "whole"
  BY <1>1, BundleIs, ReleasesAssumption DEF Rows
<1>4. rows' = [rows EXCEPT ![c] = row]
  BY <1>2
<1> HIDE DEF row
<1>5. {} \subseteq import[i].left
  OBVIOUS
<1>6. /\ VdbTypes' /\ RowsAreReleased' /\ OnlyWholeBundles' /\ LastIsWhole'
      /\ \A j \in Importers : j # i /\ import'[j].pc = "rows" /\ Strange(j)' = FALSE =>
           /\ import'[j].left \subseteq Payload[import'[j].release]
           /\ import'[j].alone = FALSE
           /\ \A q \in Payload[import'[j].release] \ import'[j].left :
                CveOrder[q] # Releases[import'[j].release].odd
  BY <1>1, <1>3, <1>4, <1>5, WriteKeeps, Zenon
<1>7. import'[i].bundle = import[i].bundle /\ import'[i].pc = "rows"
  BY <1>1, <1>5, WrittenIs, Zenon
<1>8. Strange(i)'
  BY <1>1, <1>7 DEF Strange, Loaded
<1>9. ImportsProgress'
  BY <1>6, <1>8 DEF ImportsProgress
<1> QED
  BY <1>6, <1>9 DEF VdbInv

LEMMA EndImportKeeps ==
  ASSUME VdbInv, NEW i \in Importers, EndImport(i)
  PROVE  VdbInv'
<1> DEFINE n == import[i].release
<1>1. /\ import[i].pc = "rows" /\ import[i].left = {} /\ n \in DOMAIN Releases
      /\ import[i].alone \in BOOLEAN
      /\ last' = (IF import[i].alone /\ ~Strange(i) THEN n ELSE last)
      /\ import' = [import EXCEPT ![i] = Idle] /\ UNCHANGED <<file, rows, swapped>>
  <2>1. import[i].alone \in BOOLEAN /\ import[i].pc = "rows"
    BY CallOf DEF EndImport, ImportCalls
  <2> QED
    BY <2>1, CallOf DEF EndImport, HasItem, Leave
<1>2. \A j \in Importers : import'[j] = IF j = i THEN Idle ELSE import[j]
  BY <1>1 DEF VdbInv, VdbTypes
<1>3. VdbTypes'
  <2>1. import' \in [Importers -> ImportCalls]
    BY <1>1, IdleIs DEF VdbInv, VdbTypes
  <2>2. \A j \in Importers : CallFits(import'[j])
    BY <1>2, IdleIs DEF VdbInv, VdbTypes
  <2>3. last' \in {0} \cup DOMAIN Releases
    BY <1>1 DEF VdbInv, VdbTypes
  <2> QED
    BY <1>1, <2>1, <2>2, <2>3 DEF VdbInv, VdbTypes
<1>4. RowsAreReleased'
  BY <1>1 DEF VdbInv, RowsAreReleased, HasRow
<1>5. OnlyWholeBundles'
  <2>1. \A j \in Importers : import'[j].pc = "load" =>
          \E b \in Bundles : b.form = "whole" /\ import'[j].verified = <<b>>
    BY <1>2, IdleIs DEF VdbInv, OnlyWholeBundles
  <2>2. ~swapped' => /\ \A j \in Importers : import'[j].pc = "rows" => import'[j].bundle[1].form = "whole"
                     /\ \A c \in Cves : rows'[c].from \in {"nothing", "whole"}
    BY <1>1, <1>2, IdleIs DEF VdbInv, OnlyWholeBundles, Loaded
  <2> QED
    BY <2>1, <2>2 DEF OnlyWholeBundles, Loaded
<1>6. ImportsProgress'
  BY <1>1, <1>2, IdleIs DEF VdbInv, ImportsProgress, HasRow, Strange, Loaded
<1>7. LastIsWhole'
  <2>1. CASE ~(import[i].alone /\ ~Strange(i))
    BY <1>1, <2>1 DEF VdbInv, LastIsWhole, HasRow
  <2>2. CASE import[i].alone /\ ~Strange(i)
    <3>1. \A k \in Payload[n] : CveOrder[k] # Releases[n].odd /\ HasRow(n, CveOrder[k])
      BY <1>1, <2>2 DEF VdbInv, ImportsProgress
    <3>2. \A c \in DOMAIN Entries[n] : c # Releases[n].odd /\ HasRow(n, c)
      BY <1>1, <3>1, PayloadIs
    <3>3. Releases[n].odd = "none"
      BY <1>1, <3>2, BundlesAssumption
    <3> QED
      BY <1>1, <2>2, <3>2, <3>3 DEF LastIsWhole, HasRow
  <2> QED
    BY <2>1, <2>2
<1> QED
  BY <1>3, <1>4, <1>5, <1>6, <1>7 DEF VdbInv

LEMMA DeliverKeeps ==
  ASSUME VdbInv, Deliver
  PROVE  VdbInv'
<1>1. file' \in Bundles /\ UNCHANGED <<rows, import, last, swapped>>
  BY DeliveredAre DEF Deliver
<1> QED
  BY <1>1 DEF VdbInv, VdbTypes, RowsAreReleased, OnlyWholeBundles, ImportsProgress, LastIsWhole,
     HasRow, Strange, Loaded

LEMMA DatabaseRests ==
  ASSUME VdbInv, UNCHANGED database
  PROVE  VdbInv'
BY DEF database, VdbInv, VdbTypes, RowsAreReleased, OnlyWholeBundles, ImportsProgress, LastIsWhole,
   HasRow, Strange, Loaded

LEMMA VdbKeeps ==
  ASSUME VdbInv, VdbNext
  PROVE  VdbInv'
<1>1. ASSUME NEW i \in Importers, BeginImport(i)
      PROVE  VdbInv'
  BY <1>1, BeginImportKeeps
<1>2. ASSUME NEW i \in Importers, ImportStep(i)
      PROVE  VdbInv'
  <2>1. CASE RefuseRow(i)
    BY <2>1, CallLeaves DEF RefuseRow
  <2> QED
    BY <1>2, <2>1, OpenBundleKeeps, WriteBundleKeeps, VerifyBundleKeeps, LoadBundleKeeps,
       UpsertRowKeeps, UpsertStrangeRowKeeps, EndImportKeeps DEF ImportStep
<1>3. ASSUME NEW i \in Importers, DieImporting(i)
      PROVE  VdbInv'
  BY <1>3, CallLeaves DEF DieImporting
<1> QED
  BY <1>1, <1>2, <1>3, DeliverKeeps DEF VdbNext

LEMMA VdbInitHolds ==
  ASSUME VdbInit
  PROVE  VdbInv
<1> DEFINE first == Exported(last, "whole")
<1>1. /\ file = Exported(1, "whole") /\ last = Installed
      /\ rows = [c \in Cves |->
           IF last # 0 /\ c \in DOMAIN Entries[last] THEN Row(first, c) ELSE NoRow]
      /\ import = [i \in Importers |-> Idle] /\ swapped = FALSE
  BY DEF VdbInit
<1>2. 1 \in DOMAIN Releases
  <2>1. \A S : \A s \in Seq(S) : s # <<>> => 1 \in DOMAIN s
    OBVIOUS
  <2> QED
    BY <2>1, ReleasesAssumption, Zenon
<1>3. last \in {0} \cup DOMAIN Releases /\ (last # 0 => Releases[last].odd = "none")
  <2>1. 0 \notin DOMAIN Releases
    BY ReleaseIs
  <2> QED
    BY <1>1, <2>1, BundlesAssumption
<1>4. \A c \in Cves : rows[c] =
        IF last # 0 /\ c \in DOMAIN Entries[last] THEN Row(first, c) ELSE NoRow
  BY <1>1
<1>5. NoRow \in Rows /\ NoRow.from = "nothing" /\ "whole" \in Forms
  BY DEF NoRow, Rows, Forms
<1>6. \A c \in Cves : c \in DOMAIN Entries[last] /\ last # 0 =>
        /\ Row(first, c) \in Rows /\ Row(first, c).from = "whole"
        /\ Row(first, c).entry = Entries[last][c]
        /\ Row(first, c).date \in DatesOf(last)
  <2>1. first.release = last /\ first.form = "whole"
    BY DEF Exported
  <2>2. last # 0 => first \in Bundles
    BY <1>3, <1>5, DatesAre
  <2> HIDE DEF first
  <2> QED
    BY <2>1, <2>2, RowIs
<1> HIDE DEF first
<1>7. VdbTypes
  <2>1. rows \in [Cves -> Rows]
    BY <1>1, <1>5, <1>6
  <2>2. swapped \in BOOLEAN
    BY <1>1, Zenon
  <2>3. file \in Bundles
    BY <1>1, <1>2, <1>5, DatesAre
  <2> QED
    BY <1>1, <1>3, <2>1, <2>2, <2>3, IdleIs DEF VdbTypes
<1>8. RowsAreReleased
  BY <1>3, <1>4, <1>5, <1>6 DEF RowsAreReleased, HasRow
<1>9. OnlyWholeBundles
  <2>1. \A c \in Cves : rows[c].from \in {"nothing", "whole"}
    BY <1>4, <1>5, <1>6
  <2> QED
    BY <1>1, <2>1, IdleIs DEF OnlyWholeBundles
<1>10. ImportsProgress
  BY <1>1, IdleIs DEF ImportsProgress
<1>11. LastIsWhole
  <2>1. ASSUME last # 0
        PROVE  \A c \in DOMAIN Entries[last] : HasRow(last, c)
    BY <1>3, <1>4, <1>6, <2>1, EntriesType DEF HasRow
  <2> QED
    BY <1>3, <2>1 DEF LastIsWhole
<1> QED
  BY <1>7, <1>8, <1>9, <1>10, <1>11 DEF VdbInv

-----------------------------------------------------------------------------
(* What the invariant says of the database.                                *)

LEMMA SomeBound ==
  ASSUME NEW n \in Nat, NEW s, \A i \in 1 .. n : s[i] \in Nat
  PROVE  \E b \in Nat : \A i \in 1 .. n : s[i] <= b
<1> DEFINE Bounded(m) == \E b \in Nat : \A i \in 1 .. m : s[i] <= b
           Bad == {m \in Nat : m <= n /\ ~Bounded(m)}
<1>1. Bounded(0)
  OBVIOUS
<1>2. ASSUME NEW m \in Nat, m + 1 <= n, Bounded(m)
      PROVE  Bounded(m + 1)
  <2>1. PICK b \in Nat : \A i \in 1 .. m : s[i] <= b
    BY <1>2
  <2>2. s[m + 1] \in Nat
    BY <1>2
  <2>3. \A i \in 1 .. m + 1 : s[i] <= b + s[m + 1]
    <3> SUFFICES ASSUME NEW i \in 1 .. m + 1
                 PROVE  s[i] <= b + s[m + 1]
      OBVIOUS
    <3>1. s[i] \in Nat
      BY <1>2
    <3>2. i = m + 1 \/ i \in 1 .. m
      OBVIOUS
    <3> QED
      BY <2>1, <2>2, <3>1, <3>2
  <2>4. b + s[m + 1] \in Nat
    BY <2>2
  <2> QED
    BY <2>3, <2>4
<1>3. Bad = {}
  <2> SUFFICES ASSUME Bad # {}
               PROVE  FALSE
    OBVIOUS
  <2> DEFINE m == Min(Bad)
  <2>1. m \in Bad /\ \A y \in Bad : m <= y
    <3>1. Bad \in SUBSET Nat
      OBVIOUS
    <3> HIDE DEF Bad
    <3> QED
      BY <3>1, LeastOf
  <2>2. m \in Nat /\ m <= n /\ ~Bounded(m)
    BY <2>1
  <2> HIDE DEF m
  <2>3. m # 0
    BY <1>1, <2>2
  <2>4. m - 1 \in Nat /\ m - 1 <= n /\ (m - 1) + 1 = m
    BY <2>2, <2>3
  <2>5. Bounded(m - 1)
    <3>1. m - 1 \notin Bad
      <4> HIDE DEF Bad
      <4> QED
        BY <2>1, <2>2, <2>4
    <3> QED
      BY <2>4, <3>1
  <2> HIDE DEF Bounded
  <2> QED
    BY <1>2, <2>2, <2>4, <2>5
<1> QED
  BY <1>3

(* The newest date there is in the table bounds every row's.               *)
LEMMA LatestIs ==
  ASSUME VdbInv, NEW c \in Cves
  PROVE  /\ LatestUpdate \in Nat /\ LatestUpdate >= rows[c].date
         /\ LatestUpdate \in {0} \cup {rows[d].date : d \in Cves}
<1> DEFINE T == {0} \cup {rows[d].date : d \in Cves}
<1>1. \A d \in Cves : rows[d].date \in Nat
  <2>1. \A d \in Cves : rows[d] \in Rows
    BY DEF VdbInv, VdbTypes
  <2> QED
    BY <2>1 DEF Rows, NoRow
<1>2. PICK b \in Nat : \A k \in DOMAIN CveOrder : rows[CveOrder[k]].date <= b
  <2>1. PICK n \in Nat : DOMAIN CveOrder = 1 .. n
    <3>1. \A S : \A s \in Seq(S) : Len(s) \in Nat /\ DOMAIN s = 1 .. Len(s)
      OBVIOUS
    <3> QED
      BY <3>1, ReleasesAssumption, Zenon
  <2> DEFINE s == [k \in 1 .. n |-> rows[CveOrder[k]].date]
  <2>2. \A k \in 1 .. n : s[k] \in Nat
    BY <1>1, <2>1, OrderIs
  <2>3. \A k \in 1 .. n : s[k] = rows[CveOrder[k]].date
    OBVIOUS
  <2> HIDE DEF s
  <2>4. PICK b \in Nat : \A k \in 1 .. n : s[k] <= b
    BY <2>2, SomeBound
  <2> QED
    BY <2>1, <2>3, <2>4
<1>3. \A d \in Cves : rows[d].date <= b
  BY <1>2 DEF Cves
<1>4. T \in SUBSET Int /\ T # {} /\ \A y \in T : y <= b
  BY <1>1, <1>2, <1>3
<1>5. T \subseteq Nat /\ rows[c].date \in T /\ LatestUpdate = Max(T)
  BY <1>1 DEF LatestUpdate
<1>7. T = {0} \cup {rows[d].date : d \in Cves}
  OBVIOUS
<1> HIDE DEF T
<1>6. Max(T) \in T /\ \A y \in T : Max(T) >= y
  <2>1. b \in Int
    OBVIOUS
  <2> QED
    BY <1>4, <2>1, GreatestOf, Zenon
<1> QED
  BY <1>5, <1>6, <1>7

LEMMA VdbInvMeans ==
  ASSUME VdbInv
  PROVE  VdbTypeOK /\ ImportFailsClosed /\ DatabaseIsTrue
<1>1. VdbTypeOK
  <2>1. \A c \in Cves : rows[c] # NoRow => rows[c].entry \in VdbEntry /\ rows[c].date \in Nat
    BY DEF VdbInv, VdbTypes, Rows
  <2>2. \A i \in Importers : import[i].pc \in {"idle", "export", "write", "verify", "load", "rows"}
    BY CallOf DEF ImportCalls
  <2>3. file \in Bundle /\ last \in {0} \cup DOMAIN Releases
    BY DEF VdbInv, VdbTypes, Bundles
  <2> QED
    BY <2>1, <2>2, <2>3 DEF VdbTypeOK
<1>2. ImportFailsClosed
  BY DEF VdbInv, OnlyWholeBundles, ImportFailsClosed
<1>3. ReturnedImportIsWhole
  BY DEF VdbInv, LastIsWhole, HasRow, ReturnedImportIsWhole
<1>4. \A c \in Cves : rows[c].from = "whole" =>
        \E n \in DOMAIN Releases :
          c \in DOMAIN Entries[n] /\ rows[c].entry = Entries[n][c] /\ rows[c].date \in DatesOf(n)
  BY DEF VdbInv, RowsAreReleased, HasRow
<1>5. ASSUME Cves = {}
      PROVE  LatestUpdate = 0
  <2>1. {0} \cup {rows[d].date : d \in Cves} = {0}
    BY <1>5
  <2>2. Max({0}) = 0
    BY DEF Max
  <2> QED
    BY <2>1, <2>2 DEF LatestUpdate
<1>6. ASSUME last # 0
      PROVE  LatestUpdate >= Releases[last].date
  <2>1. last \in DOMAIN Releases
    BY <1>6 DEF VdbInv, VdbTypes
  <2>2. Releases[last].date \in Nat
    BY <2>1, ReleaseIs
  <2>3. CASE DOMAIN Entries[last] # {} /\ Releases[last].date # 0
    <3>1. PICK c \in DOMAIN Entries[last] : rows[c].date \in DatesOf(last)
      BY <1>6, <2>3 DEF VdbInv, LastIsWhole, HasRow
    <3>2. rows[c].date = Releases[last].date
      BY <2>1, <2>3, <3>1, DatesAre
    <3> QED
      BY <2>1, <3>2, LatestIs, EntriesType
  <2>4. CASE Releases[last].date = 0
    BY <1>5, <2>4, LatestIs
  <2>5. DOMAIN Entries[last] = {} => Releases[last].date = 0
    BY <2>1, BundlesAssumption
  <2> QED
    BY <2>3, <2>4, <2>5
<1>7. ASSUME last # 0, {c \in Cves : rows[c] # NoRow} \subseteq DOMAIN Entries[last]
      PROVE  LatestUpdate \in {0} \cup DatesOf(last)
  <2>1. \A d \in Cves : rows[d].date \in {0} \cup DatesOf(last)
    <3> TAKE d \in Cves
    <3>1. CASE rows[d] = NoRow
      BY <3>1 DEF NoRow
    <3>2. CASE rows[d] # NoRow
      BY <1>7, <3>2 DEF VdbInv, LastIsWhole, HasRow
    <3> QED
      BY <3>1, <3>2
  <2>2. CASE Cves = {}
    BY <1>5, <2>2
  <2>3. CASE Cves # {}
    <3>1. LatestUpdate \in {0} \cup {rows[d].date : d \in Cves}
      BY <2>3, LatestIs
    <3> QED
      BY <2>1, <3>1
  <2> QED
    BY <2>2, <2>3
<1>8. ProvenanceIsTrue
  BY <1>4, <1>6, <1>7 DEF ProvenanceIsTrue
<1> QED
  BY <1>1, <1>2, <1>3, <1>8 DEF DatabaseIsTrue

LEMMA DatabaseType ==
  ASSUME VdbInv
  PROVE  Database \in [Cves -> VdbEntry \cup {NoEntry}]
<1>1. \A c \in Cves : rows[c] \in Rows
  BY DEF VdbInv, VdbTypes
<1>2. \A c \in Cves : Ingested[c] \in VdbEntry \cup {NoEntry}
  BY <1>1 DEF Ingested, Rows, NoRow
<1>3. \A c \in Cves : Builtin[c] \in VdbEntry \cup {NoEntry}
  BY ConsoleAssumption
<1>4. \A c \in Cves : Lookup(Ingested, Builtin, c) \in VdbEntry \cup {NoEntry}
  BY <1>2, <1>3 DEF Lookup
<1> QED
  BY <1>4 DEF Database

-----------------------------------------------------------------------------
(* The inductive invariant of the console.                                 *)

Databases == [Cves -> VdbEntry \cup {NoEntry}]

Scans(found) ==
  [pc : {"idle", "enrich", "ticket", "opened"}, no : Nat, asset : Assets,
   todo : SUBSET DOMAIN Problems, looked : Nat, read : Databases, seen : SUBSET Databases,
   ticketed : BOOLEAN, finding : SUBSET found, count : Nat]

Snaps == [pc : {"idle", "sum", "append"}, asset : Assets, total : Int, count : Nat]

ConsoleTypes ==
  /\ operations \in Nat /\ asset \in Assets /\ steady \in BOOLEAN
  /\ scan \in Scans(findings) /\ snap \in Snaps
  /\ snapshots \in Seq([total : Int, count : Nat, as : Assets])
  /\ IsFiniteSet(findings) /\ IsFiniteSet(tickets)

(* A finding has numbers to score it by, and its id says which problem of  *)
(* which scan it is.                                                       *)
FindingsAreFresh ==
  /\ \A f \in findings :
       /\ Scorable(f) /\ f.epss \in Numbers
       /\ f.scan \in 1 .. operations
       /\ \E k \in DOMAIN Problems : f.id = <<f.scan, k>>
  /\ \A f, g \in findings : f.id = g.id => f = g

TicketsHaveFindings ==
  /\ \A t \in tickets :
       /\ t.risk \in Int /\ t.risk <= 1000
       /\ \E f \in findings : f.id = t.finding /\ (~BelowZero(f) => t.risk >= 0)
  /\ \A t, u \in tickets : t.finding = u.finding => t = u

Running == scan.pc # "idle"
Mine == {f \in findings : f.scan = scan.no}
Remaining == IF scan.pc = "enrich" THEN scan.todo ELSE scan.todo \ {Current}
HasTicket(f) == \E t \in tickets : t.finding = f.id
Told(f) == Record("workflow.opened", f.id, 0) \in audit

(* The running scan has stored all it found but what remains, and has      *)
(* ticketed and told of all it stored but the finding at hand.             *)
ScanProgress ==
  Running =>
    /\ scan.no \in 1 .. operations
    /\ \A k \in Remaining : \A f \in findings : f.id # <<scan.no, k>>
    /\ Cardinality(Mine) + Cardinality(Remaining) = scan.count
    /\ scan.pc = "enrich" => scan.finding = {}
    /\ scan.pc # "enrich" =>
         /\ scan.ticketed /\ scan.todo # {}
         /\ \E f \in findings : scan.finding = {f} /\ f.id = <<scan.no, Current>>
    /\ \A f \in Mine \ scan.finding :
         IF scan.ticketed THEN HasTicket(f) /\ Told(f) ELSE ~HasTicket(f)
    /\ \A f \in scan.finding : HasTicket(f) <=> scan.pc = "opened"

CompletedAreOver ==
  \A r \in audit : r.action = "scan.completed" =>
    \E n \in 1 .. operations : r.subject = <<n>> /\ (Running => n # scan.no)

(* What was looked up is what some database seen meanwhile said.           *)
LookedUp ==
  scan.pc = "enrich" =>
    /\ Database \in scan.seen
    /\ scan.todo # {} => \A i \in 1 .. scan.looked : i \in DOMAIN Problem.cves =>
         \E d \in scan.seen : scan.read[Problem.cves[i]] = d[Problem.cves[i]]

SteadyIsTold == steady /\ Running => scan.asset = asset

(* No count is above the number of findings now, nor a total above what    *)
(* they come to, if none of their numbers is below zero.                   *)
SnapshotsGrow ==
  /\ Len(snapshots) > 0 =>
       LET row == snapshots[Len(snapshots)]
       IN /\ NothingBelowZero => row.total <= TotalRisk(findings, row.as)
          /\ row.count <= Cardinality(findings)
  /\ snap.pc = "append" =>
       /\ NothingBelowZero => snap.total <= TotalRisk(findings, snap.asset)
       /\ snap.count <= Cardinality(findings)
       /\ Len(snapshots) > 0 /\ snapshots[Len(snapshots)].as = snap.asset =>
            /\ NothingBelowZero => snapshots[Len(snapshots)].total <= snap.total
            /\ snapshots[Len(snapshots)].count <= snap.count

ConsoleInv ==
  /\ VdbInv /\ ConsoleTypes
  /\ FindingsAreFresh /\ TicketsHaveFindings /\ ScanProgress /\ CompletedAreOver
  /\ CompletedScanIsWhole /\ LookedUp /\ SteadyIsTold /\ TotalsAgree /\ SnapshotsGrow

-----------------------------------------------------------------------------
(* Lemmas about the console's operators.                                   *)

LEMMA SumIsInt ==
  ASSUME NEW D, IsFiniteSet(D), NEW w \in [D -> Int]
  PROVE  SumFunction(w) \in Int
<1>1. DOMAIN w = D
  OBVIOUS
<1>2. PICK g : g = (CHOOSE f : SumsUp(f, w, D)) /\ SumsUp(g, w, D)
  BY SumExists
<1>3. SumFunction(w) = g[D]
  BY <1>1, <1>2, SumUnfold
<1> QED
  BY <1>2, <1>3, SumTakes DEF SumsAnyhow

LEMMA AssetIs ==
  ASSUME NEW a \in Assets
  PROVE  a.criticality \in Criticalities /\ a.internet \in BOOLEAN
<1>1. \A o \in Objects : o.criticality \in Criticalities /\ o.internet \in BOOLEAN
  BY ConsoleAssumption
<1>2. CASE a = NoAsset
  <2>1. NoAsset.criticality = "medium" /\ NoAsset.internet = FALSE
    BY Zenon DEF NoAsset
  <2>2. "medium" \in Criticalities
    BY DEF Criticalities
  <2> QED
    BY <1>2, <2>1, <2>2, Zenon
<1>3. ASSUME NEW o \in Objects, a = Registered(o)
      PROVE  a.criticality \in Criticalities /\ a.internet \in BOOLEAN
  <2>1. a.criticality = o.criticality /\ a.internet = o.internet
    BY <1>3, Zenon DEF Registered
  <2> QED
    BY <1>1, <2>1, Zenon
<1> QED
  BY <1>2, <1>3 DEF Assets

LEMMA RiskType ==
  ASSUME NEW f, Scorable(f), NEW a \in Assets
  PROVE  RiskOf(f, a) \in Int /\ RiskOf(f, a) <= 1000 /\ (~BelowZero(f) => RiskOf(f, a) >= 0)
<1>1. a.criticality \in Criticalities /\ a.internet \in BOOLEAN
  BY AssetIs
<1>2. PICK c, i : c = a.criticality /\ i = a.internet
  OBVIOUS
<1>3. /\ Score(f, c, i) \in Int /\ Score(f, c, i) <= 1000
      /\ ~BelowZero(f) => Score(f, c, i) >= 0
  BY <1>1, <1>2, AnyScoreIs
<1>4. RiskOf(f, a) = Score(f, c, i)
  BY <1>2 DEF RiskOf
<1> QED
  BY <1>3, <1>4

(* The total of one finding more.                                          *)
LEMMA TotalOfMore ==
  ASSUME NEW fs, IsFiniteSet(fs), \A f \in fs : Scorable(f), NEW a \in Assets,
         NEW g, g \notin fs, Scorable(g)
  PROVE  /\ TotalRisk(fs, a) \in Int
         /\ TotalRisk(fs \cup {g}, a) = RiskOf(g, a) + TotalRisk(fs, a)
<1> DEFINE w == [f \in fs |-> RiskOf(f, a)]
           v == [f \in fs \cup {g} |-> RiskOf(f, a)]
<1>1. w \in [fs -> Int] /\ v \in [fs \cup {g} -> Int]
  BY RiskType
<1>2. (\A f \in fs : v[f] = w[f]) /\ v[g] = RiskOf(g, a)
  OBVIOUS
<1>3. TotalRisk(fs, a) = SumFunction(w) /\ TotalRisk(fs \cup {g}, a) = SumFunction(v)
  BY DEF TotalRisk
<1> HIDE DEF w, v
<1> QED
  BY <1>1, <1>2, <1>3, SumAdds, SMTT(30)

LEMMA TotalIsInt ==
  ASSUME NEW fs, IsFiniteSet(fs), \A f \in fs : Scorable(f), NEW a \in Assets
  PROVE  TotalRisk(fs, a) \in Int
<1> DEFINE w == [f \in fs |-> RiskOf(f, a)]
<1>1. w \in [fs -> Int]
  BY RiskType
<1>2. TotalRisk(fs, a) = SumFunction(w)
  BY DEF TotalRisk
<1> HIDE DEF w
<1> QED
  BY <1>1, <1>2, SumIsInt

LEMMA TotalOfNone ==
  ASSUME NEW a
  PROVE  TotalRisk({}, a) = 0
<1> DEFINE w == [f \in {} |-> RiskOf(f, a)]
<1>1. DOMAIN w = {} /\ TotalRisk({}, a) = SumFunction(w)
  BY DEF TotalRisk
<1> HIDE DEF w
<1> QED
  BY <1>1, SumOfNone

TicketSum(ts) == SumFunction([t \in ts |-> t.risk])

LEMMA TicketSumOfMore ==
  ASSUME NEW ts, IsFiniteSet(ts), \A t \in ts : t.risk \in Int,
         NEW u, u \notin ts, u.risk \in Int
  PROVE  TicketSum(ts) \in Int /\ TicketSum(ts \cup {u}) = u.risk + TicketSum(ts)
<1> DEFINE w == [t \in ts |-> t.risk]
           v == [t \in ts \cup {u} |-> t.risk]
<1>1. w \in [ts -> Int] /\ v \in [ts \cup {u} -> Int]
  OBVIOUS
<1>2. \A t \in ts : v[t] = w[t]
  OBVIOUS
<1>3. v[u] = u.risk
  OBVIOUS
<1>4. TicketSum(ts) = SumFunction(w) /\ TicketSum(ts \cup {u}) = SumFunction(v)
  BY DEF TicketSum
<1> HIDE DEF w, v
<1>5. ASSUME NEW p \in [ts -> Int], NEW q \in [ts \cup {u} -> Int], \A y \in ts : q[y] = p[y]
      PROVE  SumFunction(p) \in Int /\ SumFunction(q) = q[u] + SumFunction(p)
  BY ONLY IsFiniteSet(ts), u \notin ts, <1>5, SumAdds
<1>6. SumFunction(w) \in Int /\ SumFunction(v) = v[u] + SumFunction(w)
  BY <1>1, <1>2, <1>5, Zenon
<1> QED
  BY <1>3, <1>4, <1>6

LEMMA TicketSumOfNone ==
  TicketSum({}) = 0
<1> DEFINE w == [t \in {} |-> t.risk]
<1>1. DOMAIN w = {} /\ TicketSum({}) = SumFunction(w)
  BY DEF TicketSum
<1> HIDE DEF w
<1> QED
  BY <1>1, SumOfNone

Ticketed == {f \in findings : HasTicket(f)}

LEMMA AgreeIs ==
  TicketsAgreeWithTotal <=>
    /\ Cardinality(Ticketed) = Cardinality(tickets)
    /\ steady => TicketSum(tickets) = TotalRisk(Ticketed, asset)
BY DEF TicketsAgreeWithTotal, Ticketed, HasTicket, TicketSum

LEMMA ProblemIs ==
  ASSUME NEW k \in DOMAIN Problems
  PROVE  Problems[k].severity \in Severities /\ Problems[k].cves \in Seq(Cves) /\ k \in Nat
<1> DEFINE R == [severity : Severities, cves : Seq(Cves)]
<1>1. Problems \in Seq(R)
  BY ConsoleAssumption
<1>2. Problems[k] \in R /\ k \in Nat
  <2> HIDE DEF R
  <2> QED
    BY <1>1
<1> QED
  BY <1>2

LEMMA ProblemsFinite ==
  ASSUME NEW s \in SUBSET DOMAIN Problems
  PROVE  IsFiniteSet(s) /\ Cardinality(s) \in Nat
<1>1. PICK n \in Nat : DOMAIN Problems = 1 .. n
  <2>1. \A S : \A q \in Seq(S) : Len(q) \in Nat /\ DOMAIN q = 1 .. Len(q)
    OBVIOUS
  <2> QED
    BY <2>1, ConsoleAssumption, Zenon
<1>2. IsFiniteSet(1 .. n)
  BY FS_Interval
<1> QED
  BY <1>1, <1>2, FS_Subset, FS_CardinalityType

(* The finding a scan makes of the problem it is at.                       *)
LEMMA CurrentIs ==
  ASSUME NEW found, scan \in Scans(found), scan.todo # {}
  PROVE  /\ Current \in scan.todo /\ Current \in DOMAIN Problems
         /\ Problem.severity \in Severities /\ Problem.cves \in Seq(Cves)
         /\ Unscored(Raw) /\ Raw.cves = Problem.cves
         /\ {"id", "scan"} \subseteq DOMAIN Raw \ {"cvss", "epss", "kev"}
         /\ Raw.id = <<scan.no, Current>> /\ Raw.scan = scan.no
<1>1. scan.todo \in SUBSET DOMAIN Problems
  BY DEF Scans
<1>2. DOMAIN Problems \subseteq Nat
  BY ProblemIs
<1>3. Current \in scan.todo
  BY <1>1, <1>2, LeastOf DEF Current
<1>4. Problem.severity \in Severities /\ Problem.cves \in Seq(Cves)
  BY <1>1, <1>3, ProblemIs DEF Problem
<1>5. /\ Raw = [x \in DOMAIN Raw |-> Raw[x]]
      /\ DOMAIN Raw = {"id", "scan", "severity", "cves", "cvss", "epss", "kev"}
      /\ Raw.severity = Problem.severity /\ Raw.cves = Problem.cves
      /\ Raw.cvss = NoScore /\ Raw.epss = NoScore
      /\ Raw.id = FreshId /\ Raw.scan = scan.no
  BY DEF Raw
<1>6. Raw.kev = FALSE
  BY Zenon DEF Raw
<1>7. Unscored(Raw)
  BY <1>4, <1>5, <1>6 DEF Unscored
<1> QED
  BY <1>1, <1>3, <1>4, <1>5, <1>7 DEF FreshId

LEMMA StoredIs ==
  ASSUME NEW found, scan \in Scans(found), scan.todo # {}
  PROVE  LET f == Enrich(Raw, scan.read)
         IN Scorable(f) /\ f.epss \in Numbers /\ f.id = <<scan.no, Current>> /\ f.scan = scan.no
<1>1. scan.read \in [Cves -> VdbEntry \cup {NoEntry}]
  BY DEF Scans, Databases
<1>2. /\ Unscored(Raw) /\ Raw.cves \in Seq(Cves)
      /\ {"id", "scan"} \subseteq DOMAIN Raw \ {"cvss", "epss", "kev"}
      /\ Raw.id = <<scan.no, Current>> /\ Raw.scan = scan.no
  BY CurrentIs
<1>3. PICK f : f = Enrich(Raw, scan.read)
  OBVIOUS
<1>4. /\ Scorable(f) /\ f.epss \in Numbers
      /\ \A x \in DOMAIN Raw \ {"cvss", "epss", "kev"} : f[x] = Raw[x]
  <2>1. PICK raw : raw = Raw
    OBVIOUS
  <2>2. Unscored(raw) /\ raw.cves \in Seq(Cves) /\ f = Enrich(raw, scan.read)
    BY <1>2, <1>3, <2>1
  <2>3. /\ Scorable(f) /\ f.epss \in Numbers
        /\ \A x \in DOMAIN raw \ {"cvss", "epss", "kev"} : f[x] = raw[x]
    BY <1>1, <2>2, EnrichIs, Zenon
  <2> QED
    BY <2>1, <2>3
<1>5. f["id"] = Raw["id"] /\ f["scan"] = Raw["scan"]
  BY <1>2, <1>4
<1> QED
  BY <1>2, <1>3, <1>4, <1>5

(* What a scan is, field by field.                                         *)
LEMMA ScanOf ==
  ASSUME NEW found, NEW s, NEW r \in Scans(found), NEW others,
         s = [x \in DOMAIN r |-> s[x]],
         s.pc \in {"idle", "enrich", "ticket", "opened"}, s.no \in Nat, s.asset \in Assets,
         s.todo \in SUBSET DOMAIN Problems, s.looked \in Nat, s.read \in Databases,
         s.seen \in SUBSET Databases, s.ticketed \in BOOLEAN, s.finding \in SUBSET others,
         s.count \in Nat
  PROVE  s \in Scans(others)
BY DEF Scans

LEMMA ScanHas ==
  ASSUME NEW found, NEW s \in Scans(found)
  PROVE  /\ s.pc \in {"idle", "enrich", "ticket", "opened"} /\ s.no \in Nat /\ s.asset \in Assets
         /\ s.todo \in SUBSET DOMAIN Problems /\ s.looked \in Nat /\ s.read \in Databases
         /\ s.seen \in SUBSET Databases /\ s.ticketed \in BOOLEAN
         /\ s.finding \in SUBSET found /\ s.count \in Nat
BY DEF Scans

LEMMA NoScanIs ==
  ASSUME NEW found
  PROVE  NoScan \in Scans(found) /\ NoScan.pc = "idle"
<1>1. NoAsset \in Assets /\ [c \in Cves |-> NoEntry] \in Databases
  BY DEF Assets, Databases
<1>2. PICK no \in BOOLEAN : no = FALSE
  OBVIOUS
<1>3. NoScan = [pc |-> "idle", no |-> 0, asset |-> NoAsset, todo |-> {}, looked |-> 0,
                read |-> [c \in Cves |-> NoEntry], seen |-> {}, ticketed |-> no,
                finding |-> {}, count |-> 0]
  BY <1>2, Zenon DEF NoScan
<1> DEFINE none == [c \in Cves |-> NoEntry]
<1> HIDE DEF none
<1> QED
  BY <1>1, <1>3 DEF Scans, none

LEMMA NextProblemIs ==
  ASSUME VdbInv, NEW found, scan \in Scans(found), NEW others
  PROVE  LET s == NextProblem(scan)
         IN /\ s \in Scans(others)
            /\ s.pc = "enrich" /\ s.no = scan.no /\ s.asset = scan.asset
            /\ s.todo = scan.todo \ {Current} /\ s.looked = 0 /\ s.seen = {Database}
            /\ s.ticketed = scan.ticketed /\ s.finding = {} /\ s.count = scan.count
<1>1. Database \in Databases /\ [c \in Cves |-> NoEntry] \in Databases
  BY DatabaseType DEF Databases
<1> DEFINE none == [c \in Cves |-> NoEntry]
           seen == {Database}
           todo == scan.todo \ {Current}
<1>2. NextProblem(scan) = [scan EXCEPT !.pc = "enrich", !.todo = todo, !.looked = 0,
                             !.read = none, !.seen = seen, !.finding = {}]
  BY DEF NextProblem, Current
<1>3. none \in Databases /\ seen \in SUBSET Databases /\ todo \in SUBSET DOMAIN Problems
  BY <1>1, ScanHas
<1>4. DOMAIN scan = {"pc", "no", "asset", "todo", "looked", "read", "seen", "ticketed", "finding", "count"}
  BY DEF Scans
<1> HIDE DEF none, seen, todo
<1>5. PICK s : s = NextProblem(scan)
  OBVIOUS
<1>6. s = [x \in DOMAIN scan |-> s[x]]
  BY <1>2, <1>5
<1>7. /\ s.pc = "enrich" /\ s.no = scan.no /\ s.asset = scan.asset
      /\ s.todo = todo /\ s.looked = 0 /\ s.read = none /\ s.seen = seen
      /\ s.ticketed = scan.ticketed /\ s.finding = {} /\ s.count = scan.count
  BY <1>2, <1>4, <1>5
<1>8. s \in Scans(others)
  <2>1. s.pc \in {"idle", "enrich", "ticket", "opened"} /\ s.looked \in Nat /\ s.finding \in SUBSET others
    BY <1>7
  <2>2. /\ s.no \in Nat /\ s.asset \in Assets /\ s.ticketed \in BOOLEAN /\ s.count \in Nat
        /\ s.todo \in SUBSET DOMAIN Problems /\ s.read \in Databases /\ s.seen \in SUBSET Databases
    BY <1>3, <1>7, ScanHas, Zenon
  <2> QED
    BY <1>6, <2>1, <2>2, ScanOf, Zenon
<1> QED
  BY <1>5, <1>7, <1>8 DEF todo, seen

-----------------------------------------------------------------------------
(* What the invariant's parts do not look at may change.                   *)

Completed == {r \in audit : r.action = "scan.completed"}

LEMMA NoDatabaseMoves ==
  ASSUME UNCHANGED database
  PROVE  Database' = Database
BY DEF database, Database, Ingested, Lookup

LEMMA BelowZeroRests ==
  \A f : BelowZero(f)' <=> BelowZero(f)
BY DEF BelowZero, Cvss, Epss, SeverityCvssFloor

(* Findings are never changed, so what is below zero stays.                *)
LEMMA NothingBelowZeroWas ==
  ASSUME findings \subseteq findings'
  PROVE  NothingBelowZero' => NothingBelowZero
BY BelowZeroRests DEF NothingBelowZero

LEMMA TrendRests ==
  ASSUME TrendNeverFalls, UNCHANGED snapshots, findings \subseteq findings'
  PROVE  TrendNeverFalls'
BY NothingBelowZeroWas DEF TrendNeverFalls

LEMMA FreshRests ==
  ASSUME FindingsAreFresh, operations \in Nat, operations' \in Nat, operations <= operations',
         UNCHANGED findings
  PROVE  FindingsAreFresh'
<1>1. \A f \in findings : f.scan \in 1 .. operations => f.scan \in 1 .. operations'
  OBVIOUS
<1>2. \A f : Scorable(f)' <=> Scorable(f)
  BY DEF Scorable
<1> QED
  BY <1>1, <1>2 DEF FindingsAreFresh

LEMMA TicketsRest ==
  ASSUME TicketsHaveFindings, UNCHANGED <<findings, tickets>>
  PROVE  TicketsHaveFindings'
BY BelowZeroRests DEF TicketsHaveFindings

(* The log may grow, and the scan may look things up.                      *)
LEMMA ProgressRests ==
  ASSUME ScanProgress, UNCHANGED <<findings, tickets>>, audit \subseteq audit',
         operations \in Nat, operations' \in Nat, operations <= operations',
         scan'.pc = scan.pc, scan'.no = scan.no, scan'.todo = scan.todo,
         scan'.finding = scan.finding, scan'.count = scan.count, scan'.ticketed = scan.ticketed
  PROVE  ScanProgress'
<1>1. /\ Running' <=> Running
      /\ Mine' = Mine /\ Current' = Current /\ Remaining' = Remaining
  BY DEF Running, Mine, Current, Remaining
<1>2. \A f : (HasTicket(f)' <=> HasTicket(f)) /\ (Told(f) => Told(f)')
  BY DEF HasTicket, Told, Record
<1>3. scan.no \in 1 .. operations => scan.no \in 1 .. operations'
  OBVIOUS
<1> QED
  BY <1>1, <1>2, <1>3 DEF ScanProgress

LEMMA OverRests ==
  ASSUME CompletedAreOver, Completed' = Completed,
         operations \in Nat, operations' \in Nat, operations <= operations',
         Running' => Running /\ scan'.no = scan.no
  PROVE  CompletedAreOver'
<1>1. \A r \in audit' : r.action = "scan.completed" => r \in audit
  BY DEF Completed
<1>2. \A n \in 1 .. operations : n \in 1 .. operations'
  OBVIOUS
<1> QED
  BY <1>1, <1>2 DEF CompletedAreOver

LEMMA WholeRests ==
  ASSUME CompletedScanIsWhole, Completed' = Completed, audit \subseteq audit',
         UNCHANGED <<findings, tickets>>
  PROVE  CompletedScanIsWhole'
<1>1. \A r \in audit' : r.action = "scan.completed" => r \in audit
  BY DEF Completed
<1> QED
  BY <1>1 DEF CompletedScanIsWhole, Record

LEMMA LookedUpRests ==
  ASSUME LookedUp, UNCHANGED <<database, scan>>
  PROVE  LookedUp'
BY NoDatabaseMoves DEF LookedUp, Problem, Current

LEMMA AgreeRests ==
  ASSUME TotalsAgree, UNCHANGED <<findings, tickets, asset, steady, snapshots>>
  PROVE  TotalsAgree'
<1>1. TicketsAgreeWithTotal'
  BY DEF TotalsAgree, TicketsAgreeWithTotal, TotalRisk, RiskOf
<1> QED
  BY <1>1, TrendRests DEF TotalsAgree

LEMMA GrowthRests ==
  ASSUME SnapshotsGrow, UNCHANGED <<findings, snapshots, snap>>
  PROVE  SnapshotsGrow'
BY NothingBelowZeroWas DEF SnapshotsGrow, TotalRisk, RiskOf

LEMMA TablesRest ==
  ASSUME ConsoleInv, UNCHANGED <<tables, steady>>,
         operations' \in Nat, operations <= operations'
  PROVE  FindingsAreFresh' /\ TicketsHaveFindings' /\ CompletedScanIsWhole' /\ TotalsAgree'
<1>1. UNCHANGED <<asset, findings, tickets, audit, snapshots, steady>> /\ operations \in Nat
  BY DEF tables, ConsoleInv, ConsoleTypes
<1>2. Completed' = Completed /\ audit \subseteq audit'
  BY <1>1 DEF Completed
<1> QED
  BY <1>1, <1>2, FreshRests, TicketsRest, WholeRests, AgreeRests DEF ConsoleInv

-----------------------------------------------------------------------------
(* Every action keeps the invariant.  First those that leave the tables    *)
(* alone.                                                                  *)

LEMMA ConsoleRests ==
  ASSUME ConsoleInv, UNCHANGED vars
  PROVE  ConsoleInv'
<1>1. /\ UNCHANGED database /\ UNCHANGED <<tables, steady>> /\ UNCHANGED <<scan, snap, operations>>
      /\ UNCHANGED <<findings, tickets, audit, asset, snapshots>>
  BY DEF vars, vdbVars, database, tables
<1>2. operations \in Nat /\ operations' \in Nat /\ operations <= operations' /\ UNCHANGED operations
  BY <1>1 DEF ConsoleInv, ConsoleTypes
<1>3. VdbInv'
  BY <1>1, DatabaseRests DEF ConsoleInv
<1>4. ConsoleTypes'
  BY <1>1 DEF ConsoleInv, ConsoleTypes, Assets, Scans, Snaps, Databases
<1>5. FindingsAreFresh' /\ TicketsHaveFindings' /\ CompletedScanIsWhole' /\ TotalsAgree'
  BY <1>1, <1>2, TablesRest
<1>6. ScanProgress' /\ CompletedAreOver'
  <2>1. Completed' = Completed /\ audit \subseteq audit'
    BY <1>1 DEF Completed
  <2>2. Running' => Running
    BY <1>1 DEF Running
  <2> QED
    BY <1>1, <1>2, <2>1, <2>2, ProgressRests, OverRests DEF ConsoleInv
<1>7. LookedUp' /\ SteadyIsTold' /\ SnapshotsGrow'
  BY <1>1, LookedUpRests, GrowthRests DEF ConsoleInv, SteadyIsTold, Running
<1> QED
  BY <1>3, <1>4, <1>5, <1>6, <1>7 DEF ConsoleInv

LEMMA LookUpKeeps ==
  ASSUME ConsoleInv, LookUp
  PROVE  ConsoleInv'
<1> DEFINE cve == Problem.cves[scan.looked + 1]
<1>1. /\ UNCHANGED database /\ UNCHANGED <<tables, steady>> /\ UNCHANGED <<snap, operations>>
      /\ UNCHANGED <<findings, tickets, audit, asset, snapshots, steady>>
  BY DEF LookUp, vdbVars, database, tables
<1>2. operations \in Nat /\ operations' \in Nat /\ operations <= operations' /\ UNCHANGED operations
  BY <1>1 DEF ConsoleInv, ConsoleTypes
<1>3. VdbInv /\ scan \in Scans(findings) /\ LookedUp
  BY DEF ConsoleInv, ConsoleTypes
<1>4. scan.pc = "enrich" /\ scan.todo # {} /\ scan.looked < Len(Problem.cves)
  BY DEF LookUp, Looking
<1>5. scan' = [scan EXCEPT !.looked = @ + 1, !.read[cve] = Database[cve]]
  BY DEF LookUp
<1>6. Problem.cves \in Seq(Cves) /\ Current \in scan.todo
  BY <1>3, <1>4, CurrentIs
<1>7. Database \in Databases /\ Database' = Database
  BY <1>1, <1>3, DatabaseType, NoDatabaseMoves DEF Databases
<1>8. DOMAIN scan = {"pc", "no", "asset", "todo", "looked", "read", "seen", "ticketed", "finding", "count"}
  BY <1>3 DEF Scans
<1>9. /\ scan' = [x \in DOMAIN scan |-> scan'[x]]
      /\ scan'.pc = scan.pc /\ scan'.no = scan.no /\ scan'.asset = scan.asset
      /\ scan'.todo = scan.todo /\ scan'.looked = scan.looked + 1
      /\ scan'.read = [scan.read EXCEPT ![cve] = Database[cve]]
      /\ scan'.seen = scan.seen /\ scan'.ticketed = scan.ticketed
      /\ scan'.finding = scan.finding /\ scan'.count = scan.count
  <2> HIDE DEF cve
  <2> QED
    BY <1>5, <1>8
<1>10. scan'.read \in Databases /\ \A c \in Cves : scan'.read[c] = IF c = cve THEN Database[c] ELSE scan.read[c]
  <2>1. PICK d : d = Database /\ d \in [Cves -> VdbEntry \cup {NoEntry}]
    BY <1>7 DEF Databases
  <2>2. scan.read \in [Cves -> VdbEntry \cup {NoEntry}]
    BY <1>3, ScanHas DEF Databases
  <2>3. PICK r : r = scan'.read /\ r = [scan.read EXCEPT ![cve] = d[cve]]
    BY <1>9, <2>1
  <2> HIDE DEF cve
  <2>4. r \in [Cves -> VdbEntry \cup {NoEntry}]
    BY <2>1, <2>2, <2>3
  <2>5. \A c \in Cves : r[c] = IF c = cve THEN d[c] ELSE scan.read[c]
    BY <2>2, <2>3
  <2> QED
    BY <2>1, <2>3, <2>4, <2>5 DEF Databases
<1>11. scan' \in Scans(findings')
  <2>1. scan.looked \in Nat /\ scan.finding \in SUBSET findings'
    BY <1>1, <1>3, ScanHas
  <2>2. scan'.looked \in Nat /\ scan'.finding \in SUBSET findings'
    BY <1>9, <2>1
  <2>3. /\ scan'.pc \in {"idle", "enrich", "ticket", "opened"} /\ scan'.no \in Nat
        /\ scan'.asset \in Assets /\ scan'.todo \in SUBSET DOMAIN Problems
        /\ scan'.seen \in SUBSET Databases /\ scan'.ticketed \in BOOLEAN /\ scan'.count \in Nat
    BY <1>3, <1>9, ScanHas
  <2>4. scan' = [x \in DOMAIN scan |-> scan'[x]]
    BY <1>9
  <2> QED
    BY <1>3, <1>10, <2>2, <2>3, <2>4, ScanOf
<1>12. ConsoleTypes'
  BY <1>1, <1>2, <1>11 DEF ConsoleInv, ConsoleTypes, Snaps, Assets
<1>13. VdbInv'
  BY <1>1, <1>3, DatabaseRests
<1>14. FindingsAreFresh' /\ TicketsHaveFindings' /\ CompletedScanIsWhole' /\ TotalsAgree'
  BY <1>1, <1>2, TablesRest
<1>15. ScanProgress' /\ CompletedAreOver'
  <2>1. Completed' = Completed /\ audit \subseteq audit'
    BY <1>1 DEF Completed
  <2>2. Running' => Running /\ scan'.no = scan.no
    BY <1>9 DEF Running
  <2> QED
    BY <1>1, <1>2, <1>9, <2>1, <2>2, ProgressRests, OverRests DEF ConsoleInv
<1>16. LookedUp'
  <2>1. Problem' = Problem
    BY <1>9 DEF Problem, Current
  <2>2. Database' \in scan'.seen
    BY <1>3, <1>4, <1>7, <1>9 DEF LookedUp
  <2>3. ASSUME NEW i \in 1 .. scan.looked + 1, i \in DOMAIN Problem.cves
        PROVE  \E d \in scan.seen : scan'.read[Problem.cves[i]] = d[Problem.cves[i]]
    <3> DEFINE c == Problem.cves[i]
    <3>1. c \in Cves
      BY <1>6, <2>3
    <3>2. CASE c = cve
      <4>1. scan'.read[c] = Database[c]
        BY <1>10, <3>1, <3>2
      <4>2. Database \in scan.seen
        BY <1>3, <1>4 DEF LookedUp
      <4> QED
        BY <4>1, <4>2
    <3>3. CASE c # cve
      <4>1. scan'.read[c] = scan.read[c]
        BY <1>10, <3>1, <3>3
      <4>2. i # scan.looked + 1
        BY <3>3
      <4>3. i \in 1 .. scan.looked
        BY <1>3, <4>2, ScanHas
      <4>4. \E d \in scan.seen : scan.read[c] = d[c]
        BY <1>3, <1>4, <2>3, <4>3 DEF LookedUp
      <4> QED
        BY <4>1, <4>4
    <3> QED
      BY <3>2, <3>3
  <2> QED
    BY <1>9, <2>1, <2>2, <2>3 DEF LookedUp
<1>17. SteadyIsTold' /\ SnapshotsGrow'
  BY <1>1, <1>9, GrowthRests DEF ConsoleInv, SteadyIsTold, Running
<1> QED
  BY <1>12, <1>13, <1>14, <1>15, <1>16, <1>17 DEF ConsoleInv

LEMMA DieScanningKeeps ==
  ASSUME ConsoleInv, DieScanning
  PROVE  ConsoleInv'
<1>1. /\ UNCHANGED database /\ UNCHANGED <<tables, steady>> /\ UNCHANGED <<snap, operations>>
      /\ UNCHANGED <<findings, tickets, audit, asset, snapshots, steady>> /\ scan' = NoScan
  BY DEF DieScanning, vdbVars, database, tables
<1>2. operations \in Nat /\ operations' \in Nat /\ operations <= operations' /\ UNCHANGED operations
  BY <1>1 DEF ConsoleInv, ConsoleTypes
<1>3. scan' \in Scans(findings') /\ scan'.pc = "idle"
  BY <1>1, NoScanIs
<1>4. ConsoleTypes'
  BY <1>1, <1>2, <1>3 DEF ConsoleInv, ConsoleTypes, Snaps, Assets
<1>5. VdbInv'
  BY <1>1, DatabaseRests DEF ConsoleInv
<1>6. FindingsAreFresh' /\ TicketsHaveFindings' /\ CompletedScanIsWhole' /\ TotalsAgree'
  BY <1>1, <1>2, TablesRest
<1>7. ScanProgress' /\ LookedUp' /\ SteadyIsTold'
  BY <1>3 DEF ScanProgress, LookedUp, SteadyIsTold, Running
<1>8. CompletedAreOver'
  <2>1. Completed' = Completed /\ ~Running'
    BY <1>1, <1>3 DEF Completed, Running
  <2> QED
    BY <1>2, <2>1, OverRests DEF ConsoleInv
<1>9. SnapshotsGrow'
  BY <1>1, GrowthRests DEF ConsoleInv
<1> QED
  BY <1>4, <1>5, <1>6, <1>7, <1>8, <1>9 DEF ConsoleInv

LEMMA BesideTheSnapshot ==
  ASSUME ConsoleInv, UNCHANGED database, UNCHANGED <<asset, findings, tickets, audit, steady, scan>>,
         operations' \in Nat, operations <= operations'
  PROVE  /\ VdbInv' /\ FindingsAreFresh' /\ TicketsHaveFindings' /\ ScanProgress' /\ CompletedAreOver'
         /\ CompletedScanIsWhole' /\ LookedUp' /\ SteadyIsTold' /\ TicketsAgreeWithTotal'
         /\ (snap' \in Snaps /\ snapshots' \in Seq([total : Int, count : Nat, as : Assets]) =>
               ConsoleTypes')
<1>1. operations \in Nat /\ Completed' = Completed /\ audit \subseteq audit' /\ (Running' => Running)
  BY DEF ConsoleInv, ConsoleTypes, Completed, Running
<1>2. VdbInv'
  BY DatabaseRests DEF ConsoleInv
<1>3. FindingsAreFresh' /\ TicketsHaveFindings' /\ ScanProgress' /\ CompletedAreOver'
  BY <1>1, FreshRests, TicketsRest, ProgressRests, OverRests DEF ConsoleInv
<1>4. CompletedScanIsWhole' /\ LookedUp' /\ SteadyIsTold'
  BY <1>1, WholeRests, LookedUpRests DEF ConsoleInv, SteadyIsTold, Running
<1>5. TicketsAgreeWithTotal'
  BY DEF ConsoleInv, TotalsAgree, TicketsAgreeWithTotal, TotalRisk, RiskOf
<1>6. ASSUME snap' \in Snaps, snapshots' \in Seq([total : Int, count : Nat, as : Assets])
      PROVE  ConsoleTypes'
  BY <1>6 DEF ConsoleInv, ConsoleTypes, Assets, Snaps, Scans, Databases
<1> QED
  BY <1>2, <1>3, <1>4, <1>5, <1>6

LEMMA ListAssetsKeeps ==
  ASSUME ConsoleInv, ListAssets
  PROVE  ConsoleInv'
<1>1. /\ UNCHANGED database /\ UNCHANGED <<asset, findings, tickets, audit, steady, scan>>
      /\ UNCHANGED snapshots /\ operations' = operations + 1
      /\ snap' = [NoSnap EXCEPT !.pc = "sum", !.asset = asset]
  BY DEF ListAssets, tables, database, Begin
<1>2. operations' \in Nat /\ operations <= operations' /\ asset \in Assets
  BY <1>1 DEF ConsoleInv, ConsoleTypes
<1>3. snap' \in Snaps /\ snap'.pc = "sum"
  <2>1. snap' = [pc |-> "sum", asset |-> asset, total |-> 0, count |-> 0]
    BY <1>1 DEF NoSnap
  <2> QED
    BY <1>2, <2>1 DEF Snaps
<1>4. snapshots' \in Seq([total : Int, count : Nat, as : Assets])
  BY <1>1 DEF ConsoleInv, ConsoleTypes
<1>5. TrendNeverFalls' /\ SnapshotsGrow'
  BY <1>1, <1>3, TrendRests, NothingBelowZeroWas
  DEF ConsoleInv, TotalsAgree, SnapshotsGrow, TotalRisk, RiskOf
<1> QED
  BY <1>1, <1>2, <1>3, <1>4, <1>5, BesideTheSnapshot DEF ConsoleInv, TotalsAgree

LEMMA TotalNow ==
  ASSUME ConsoleInv, NEW a \in Assets
  PROVE  TotalRisk(findings, a) \in Int /\ Cardinality(findings) \in Nat
BY TotalIsInt, FS_CardinalityType DEF ConsoleInv, ConsoleTypes, FindingsAreFresh

LEMMA SumFindingsKeeps ==
  ASSUME ConsoleInv, SumFindings
  PROVE  ConsoleInv'
<1>1. /\ UNCHANGED database /\ UNCHANGED <<asset, findings, tickets, audit, steady, scan>>
      /\ UNCHANGED <<snapshots, operations>>
      /\ snap' = [snap EXCEPT !.pc = "append", !.total = TotalRisk(findings, snap.asset),
                              !.count = Cardinality(findings)]
  BY DEF SumFindings, tables, database, vdbVars
<1>2. operations' \in Nat /\ operations <= operations' /\ snap \in Snaps
  BY <1>1 DEF ConsoleInv, ConsoleTypes
<1>3. snap.asset \in Assets
  BY <1>2 DEF Snaps
<1>4. PICK total \in Int, count \in Nat :
        total = TotalRisk(findings, snap.asset) /\ count = Cardinality(findings)
  BY <1>3, TotalNow
<1>5. /\ snap' \in Snaps
      /\ snap'.pc = "append" /\ snap'.asset = snap.asset /\ snap'.total = total /\ snap'.count = count
  BY <1>1, <1>2, <1>4 DEF Snaps
<1>6. snapshots' \in Seq([total : Int, count : Nat, as : Assets])
  BY <1>1 DEF ConsoleInv, ConsoleTypes
<1>7. TrendNeverFalls'
  BY <1>1, TrendRests DEF ConsoleInv, TotalsAgree
<1>8. SnapshotsGrow'
  <2>1. \A a : TotalRisk(findings, a)' = TotalRisk(findings, a)
    BY <1>1 DEF TotalRisk, RiskOf
  <2>2. total <= total /\ count <= count
    OBVIOUS
  <2> QED
    BY <1>1, <1>4, <1>5, <2>1, <2>2, NothingBelowZeroWas DEF ConsoleInv, SnapshotsGrow
<1> QED
  BY <1>1, <1>2, <1>5, <1>6, <1>7, <1>8, BesideTheSnapshot DEF ConsoleInv, TotalsAgree

LEMMA DieRecordingKeeps ==
  ASSUME ConsoleInv, DieRecording
  PROVE  ConsoleInv'
<1>1. /\ UNCHANGED database /\ UNCHANGED <<asset, findings, tickets, audit, steady, scan>>
      /\ UNCHANGED <<snapshots, operations>> /\ snap' = NoSnap
  BY DEF DieRecording, tables, database, vdbVars
<1>2. operations' \in Nat /\ operations <= operations'
  BY <1>1 DEF ConsoleInv, ConsoleTypes
<1>3. snap' \in Snaps /\ snap'.pc = "idle"
  BY <1>1 DEF NoSnap, Snaps, Assets
<1>4. snapshots' \in Seq([total : Int, count : Nat, as : Assets])
  BY <1>1 DEF ConsoleInv, ConsoleTypes
<1>5. TrendNeverFalls' /\ SnapshotsGrow'
  BY <1>1, <1>3, TrendRests, NothingBelowZeroWas
  DEF ConsoleInv, TotalsAgree, SnapshotsGrow, TotalRisk, RiskOf
<1> QED
  BY <1>1, <1>2, <1>3, <1>4, <1>5, BesideTheSnapshot DEF ConsoleInv, TotalsAgree

LEMMA AppendSnapshotKeeps ==
  ASSUME ConsoleInv, AppendSnapshot
  PROVE  ConsoleInv'
<1> DEFINE row == [total |-> snap.total, count |-> snap.count, as |-> snap.asset]
           Snapshot == [total : Int, count : Nat, as : Assets]
<1>1. /\ UNCHANGED database /\ UNCHANGED <<asset, findings, tickets, audit, steady, scan>>
      /\ UNCHANGED operations /\ snap' = NoSnap /\ snapshots' = Append(snapshots, row)
  BY DEF AppendSnapshot, database, vdbVars
<1>2. operations' \in Nat /\ operations <= operations' /\ snap \in Snaps
  BY <1>1 DEF ConsoleInv, ConsoleTypes
<1>3. snap' \in Snaps /\ snap'.pc = "idle"
  BY <1>1 DEF NoSnap, Snaps, Assets
<1>4. row \in Snapshot /\ snapshots \in Seq(Snapshot)
  BY <1>2 DEF Snaps, ConsoleInv, ConsoleTypes
<1>5. row.total = snap.total /\ row.count = snap.count /\ row.as = snap.asset
  OBVIOUS
<1> HIDE DEF row, Snapshot
<1>6. PICK n \in Nat : n = Len(snapshots)
  BY <1>4
<1>7. /\ snapshots' \in Seq(Snapshot) /\ Len(snapshots') = n + 1 /\ snapshots'[n + 1] = row
      /\ \A k \in 1 .. n : snapshots'[k] = snapshots[k]
  BY <1>1, <1>4, <1>6
<1>8. /\ NothingBelowZero => snap.total <= TotalRisk(findings, snap.asset)
      /\ snap.count <= Cardinality(findings)
      /\ n > 0 /\ snapshots[n].as = snap.asset =>
           /\ NothingBelowZero => snapshots[n].total <= snap.total
           /\ snapshots[n].count <= snap.count
  BY <1>6 DEF AppendSnapshot, ConsoleInv, SnapshotsGrow
<1>9. TrendNeverFalls'
  <2> SUFFICES ASSUME NEW k \in 1 .. n, snapshots'[k].as = snapshots'[k + 1].as
               PROVE  /\ NothingBelowZero => snapshots'[k].total <= snapshots'[k + 1].total
                      /\ snapshots'[k].count <= snapshots'[k + 1].count
    <3>1. Len(snapshots') - 1 = n
      BY <1>6, <1>7
    <3>2. NothingBelowZero' => NothingBelowZero
      BY <1>1, NothingBelowZeroWas
    <3> QED
      BY <3>1, <3>2 DEF TrendNeverFalls
  <2>1. snapshots'[k] = snapshots[k]
    BY <1>7
  <2>2. CASE k = n
    BY <1>5, <1>7, <1>8, <2>1, <2>2
  <2>3. CASE k # n
    <3>1. k \in 1 .. Len(snapshots) - 1 /\ k + 1 \in 1 .. n
      BY <1>6, <2>3
    <3>2. snapshots'[k + 1] = snapshots[k + 1]
      BY <1>7, <3>1
    <3> QED
      BY <2>1, <3>1, <3>2 DEF ConsoleInv, TotalsAgree, TrendNeverFalls
  <2> QED
    BY <2>2, <2>3
<1>10. SnapshotsGrow'
  <2>1. \A a : TotalRisk(findings, a)' = TotalRisk(findings, a)
    BY <1>1 DEF TotalRisk, RiskOf
  <2>2. snapshots'[Len(snapshots')] = row
    BY <1>7
  <2>3. NothingBelowZero' => NothingBelowZero
    BY <1>1, NothingBelowZeroWas
  <2> QED
    BY <1>1, <1>3, <1>5, <1>8, <2>1, <2>2, <2>3 DEF SnapshotsGrow
<1> QED
  BY <1>1, <1>2, <1>3, <1>7, <1>9, <1>10, BesideTheSnapshot DEF ConsoleInv, TotalsAgree, Snapshot

LEMMA ImportsBegin ==
  ASSUME VdbNext, operations \in Nat
  PROVE  operations' \in Nat /\ operations <= operations'
<1>1. UNCHANGED operations \/ Begin
  BY DEF VdbNext, BeginImport, ImportStep, DieImporting, Deliver, OpenBundle, WriteBundle,
     VerifyBundle, LoadBundle, UpsertRow, PutRow, UpsertStrangeRow, RefuseRow, EndImport, Written
<1> QED
  BY <1>1 DEF Begin

LEMMA NextDatabaseType ==
  ASSUME VdbInv'
  PROVE  Database' \in Databases
<1>1. \A c \in Cves : rows'[c] \in Rows
  BY DEF VdbInv, VdbTypes
<1>2. \A c \in Cves : Ingested'[c] \in VdbEntry \cup {NoEntry}
  BY <1>1 DEF Ingested, Rows, NoRow
<1>3. \A c \in Cves : Builtin[c] \in VdbEntry \cup {NoEntry}
  BY ConsoleAssumption
<1>4. \A c \in Cves : Lookup(Ingested', Builtin, c) \in VdbEntry \cup {NoEntry}
  BY <1>2, <1>3 DEF Lookup
<1>5. Database' = [c \in Cves |-> Lookup(Ingested', Builtin, c)]
  BY DEF Database, Lookup
<1> QED
  BY <1>4, <1>5 DEF Databases

LEMMA ImporterMovesKeeps ==
  ASSUME ConsoleInv, ImporterMoves
  PROVE  ConsoleInv'
<1>1. /\ VdbNext /\ UNCHANGED <<tables, steady>> /\ UNCHANGED snap
      /\ UNCHANGED <<asset, findings, tickets, audit, snapshots, steady>>
      /\ scan' = IF scan.pc = "enrich" THEN [scan EXCEPT !.seen = @ \cup {Database'}] ELSE scan
  BY DEF ImporterMoves, tables
<1>2. VdbInv' /\ operations' \in Nat /\ operations <= operations' /\ operations \in Nat
  BY <1>1, VdbKeeps, ImportsBegin DEF ConsoleInv, ConsoleTypes
<1>3. PICK d : d = Database' /\ d \in Databases
  BY <1>2, NextDatabaseType
<1>4. PICK seen : seen = IF scan.pc = "enrich" THEN scan.seen \cup {d} ELSE scan.seen
  OBVIOUS
<1>5. scan \in Scans(findings)
  BY DEF ConsoleInv, ConsoleTypes
<1>6. /\ scan'.pc = scan.pc /\ scan'.no = scan.no /\ scan'.asset = scan.asset
      /\ scan'.todo = scan.todo /\ scan'.looked = scan.looked /\ scan'.read = scan.read
      /\ scan'.seen = seen /\ scan'.ticketed = scan.ticketed
      /\ scan'.finding = scan.finding /\ scan'.count = scan.count
      /\ scan' = [x \in DOMAIN scan |-> scan'[x]]
  <2>1. scan = [x \in DOMAIN scan |-> scan[x]] /\ "seen" \in DOMAIN scan
    BY <1>5 DEF Scans
  <2> QED
    BY <1>1, <1>3, <1>4, <2>1
<1>7. scan' \in Scans(findings')
  <2>1. seen \in SUBSET Databases
    BY <1>3, <1>4, <1>5, ScanHas
  <2>2. /\ scan'.pc \in {"idle", "enrich", "ticket", "opened"} /\ scan'.no \in Nat
        /\ scan'.asset \in Assets /\ scan'.todo \in SUBSET DOMAIN Problems
        /\ scan'.looked \in Nat /\ scan'.read \in Databases
        /\ scan'.ticketed \in BOOLEAN /\ scan'.count \in Nat
        /\ scan'.finding \in SUBSET findings'
    BY <1>1, <1>5, <1>6, ScanHas
  <2>3. scan' = [x \in DOMAIN scan |-> scan'[x]] /\ scan'.seen \in SUBSET Databases
    BY <1>6, <2>1
  <2> QED
    BY <1>5, <2>2, <2>3, ScanOf
<1>8. ConsoleTypes'
  BY <1>1, <1>2, <1>7 DEF ConsoleInv, ConsoleTypes, Snaps, Assets
<1>9. FindingsAreFresh' /\ TicketsHaveFindings' /\ CompletedScanIsWhole' /\ TotalsAgree'
  BY <1>1, <1>2, TablesRest
<1>10. ScanProgress' /\ CompletedAreOver'
  <2>1. Completed' = Completed /\ audit \subseteq audit'
    BY <1>1 DEF Completed
  <2>2. Running' => Running /\ scan'.no = scan.no
    BY <1>6 DEF Running
  <2> QED
    BY <1>1, <1>2, <1>6, <2>1, <2>2, ProgressRests, OverRests DEF ConsoleInv
<1>11. LookedUp'
  <2> SUFFICES ASSUME scan'.pc = "enrich"
               PROVE  LookedUp'
    BY DEF LookedUp
  <2>1. Problem' = Problem
    BY <1>6 DEF Problem, Current
  <2>2. Database' \in scan'.seen /\ scan.seen \subseteq scan'.seen /\ scan.pc = "enrich"
    BY <1>3, <1>4, <1>6
  <2>3. scan.todo # {} => \A i \in 1 .. scan.looked : i \in DOMAIN Problem.cves =>
          \E e \in scan'.seen : scan.read[Problem.cves[i]] = e[Problem.cves[i]]
    BY <2>2 DEF ConsoleInv, LookedUp
  <2> QED
    BY <1>6, <2>1, <2>2, <2>3 DEF LookedUp
<1>12. SteadyIsTold' /\ SnapshotsGrow'
  BY <1>1, <1>6, GrowthRests DEF ConsoleInv, SteadyIsTold, Running
<1> QED
  BY <1>2, <1>8, <1>9, <1>10, <1>11, <1>12 DEF ConsoleInv

-----------------------------------------------------------------------------
(* An asset is registered.                                                 *)

LEMMA AgreesThen ==
  ASSUME Cardinality(Ticketed') = Cardinality(tickets'),
         steady' => TicketSum(tickets') = TotalRisk(Ticketed', asset')
  PROVE  TicketsAgreeWithTotal'
BY DEF TicketsAgreeWithTotal, Ticketed, HasTicket, TicketSum, TotalRisk, RiskOf

LEMMA RegisterAssetKeeps ==
  ASSUME ConsoleInv, NEW o \in Objects, RegisterAsset(o)
  PROVE  ConsoleInv'
<1>1. /\ UNCHANGED database /\ UNCHANGED <<findings, tickets, snapshots, scan, snap>>
      /\ operations' = operations + 1 /\ asset' = Registered(o)
      /\ audit' \in {audit, audit \cup {Record("asset.registered", <<operations'>>, 0)}}
  BY DEF RegisterAsset, database, Begin
<1>2. steady' = (steady /\ (asset' = asset \/ (findings = {} /\ scan = NoScan)))
  BY DEF RegisterAsset
<1>3. /\ operations \in Nat /\ operations' \in Nat /\ operations <= operations'
      /\ steady \in BOOLEAN /\ asset' \in Assets
  BY <1>1 DEF ConsoleInv, ConsoleTypes, Assets
<1>4. Completed' = Completed /\ audit \subseteq audit' /\ (Running' => Running)
  <2>1. Record("asset.registered", <<operations'>>, 0).action # "scan.completed"
    BY DEF Record
  <2> QED
    BY <1>1, <2>1 DEF Completed, Running
<1>5. VdbInv'
  BY <1>1, DatabaseRests DEF ConsoleInv
<1>6. steady' \in BOOLEAN
  BY <1>2, Zenon
<1>7. ConsoleTypes'
  BY <1>1, <1>3, <1>6 DEF ConsoleInv, ConsoleTypes, Assets, Snaps, Scans, Databases
<1>8. FindingsAreFresh' /\ TicketsHaveFindings' /\ ScanProgress' /\ CompletedAreOver'
  BY <1>1, <1>3, <1>4, FreshRests, TicketsRest, ProgressRests, OverRests DEF ConsoleInv
<1>9. CompletedScanIsWhole' /\ LookedUp' /\ SnapshotsGrow'
  BY <1>1, <1>4, WholeRests, LookedUpRests, GrowthRests DEF ConsoleInv
<1>10. SteadyIsTold'
  <2> SUFFICES ASSUME steady', Running'
               PROVE  scan'.asset = asset'
    BY Zenon DEF SteadyIsTold
  <2>1. steady /\ (asset' = asset \/ scan = NoScan)
    BY <1>2, Zenon
  <2>2. Running /\ scan # NoScan
    BY <1>4, NoScanIs DEF Running
  <2>3. scan.asset = asset
    BY <2>1, <2>2, Zenon DEF ConsoleInv, SteadyIsTold
  <2> QED
    BY <1>1, <2>1, <2>2, <2>3, Zenon
<1>11. TotalsAgree'
  <2>1. TicketsAgreeWithTotal
    BY DEF ConsoleInv, TotalsAgree
  <2>2. Cardinality(Ticketed) = Cardinality(tickets) /\ Ticketed' = Ticketed
    BY <1>1, <2>1, AgreeIs DEF Ticketed, HasTicket
  <2>3. ASSUME steady'
        PROVE  TicketSum(tickets') = TotalRisk(Ticketed', asset')
    <3>1. steady /\ (asset' = asset \/ findings = {})
      BY <1>2, <2>3, Zenon
    <3>2. CASE asset' = asset
      BY <1>1, <2>1, <2>2, <3>1, <3>2, AgreeIs
    <3>3. CASE findings = {}
      <4>1. tickets = {} /\ Ticketed = {}
        BY <3>3 DEF ConsoleInv, TicketsHaveFindings, Ticketed
      <4> QED
        BY <1>1, <2>2, <4>1, TicketSumOfNone, TotalOfNone
    <3> QED
      BY <3>1, <3>2, <3>3
  <2>4. TicketsAgreeWithTotal'
    BY <1>1, <2>2, <2>3, AgreesThen
  <2>5. TrendNeverFalls'
    BY <1>1, TrendRests DEF ConsoleInv, TotalsAgree
  <2> QED
    BY <2>4, <2>5 DEF TotalsAgree
<1> QED
  BY <1>5, <1>7, <1>8, <1>9, <1>10, <1>11 DEF ConsoleInv

-----------------------------------------------------------------------------
(* A scan begins.                                                          *)

LEMMA BeginsWith ==
  ASSUME VdbInv, BeginScan, operations \in Nat
  PROVE  /\ \E found \in SUBSET DOMAIN Problems, o \in Objects :
              /\ steady' = (steady /\ Registered(o) = asset)
              /\ scan' \in Scans(findings')
              /\ scan'.pc = "enrich" /\ scan'.no = operations' /\ scan'.asset = Registered(o)
              /\ scan'.todo = found /\ scan'.looked = 0 /\ scan'.seen = {Database}
              /\ scan'.finding = {} /\ scan'.count = Cardinality(found)
         /\ operations' = operations + 1
         /\ UNCHANGED database /\ UNCHANGED <<asset, findings, tickets, audit, snapshots, snap>>
<1>1. /\ operations' = operations + 1
      /\ UNCHANGED database /\ UNCHANGED <<asset, findings, tickets, audit, snapshots, snap>>
  BY DEF BeginScan, Begin, tables, database
<1>2. PICK found \in SUBSET DOMAIN Problems, o \in Objects, t \in BOOLEAN :
       /\ steady' = (steady /\ Registered(o) = asset)
       /\ scan' = [NoScan EXCEPT !.pc = "enrich", !.no = operations', !.asset = Registered(o),
                     !.todo = found, !.seen = {Database}, !.ticketed = t,
                     !.count = Cardinality(found)]
  BY DEF BeginScan
<1>3. steady' = (steady /\ Registered(o) = asset)
  BY <1>2
<1>4. PICK seen, a, n : seen = {Database} /\ a = Registered(o) /\ n = Cardinality(found)
  OBVIOUS
<1>5. NoScan \in Scans({}) /\ NoScan.looked = 0 /\ NoScan.finding = {} /\ NoScan.read \in Databases
  BY NoScanIs, ScanHas DEF NoScan
<1>6. NoScan = [x \in DOMAIN NoScan |-> NoScan[x]]
      /\ DOMAIN NoScan = {"pc", "no", "asset", "todo", "looked", "read", "seen", "ticketed", "finding", "count"}
  BY <1>5 DEF Scans
<1>7. /\ scan' = [x \in DOMAIN NoScan |-> scan'[x]]
      /\ scan'.pc = "enrich" /\ scan'.no = operations' /\ scan'.asset = a
      /\ scan'.todo = found /\ scan'.looked = 0 /\ scan'.read = NoScan.read /\ scan'.seen = seen
      /\ scan'.ticketed = t /\ scan'.finding = {} /\ scan'.count = n
  BY <1>2, <1>4, <1>5, <1>6
<1>8. scan' \in Scans(findings')
  <2>1. a \in Assets /\ seen \in SUBSET Databases /\ n \in Nat /\ operations' \in Nat
    BY <1>1, <1>4, DatabaseType, ProblemsFinite DEF Assets, Databases
  <2>2. /\ scan'.pc \in {"idle", "enrich", "ticket", "opened"} /\ scan'.looked \in Nat
        /\ scan'.finding \in SUBSET findings'
    BY <1>7
  <2>3. /\ scan'.no \in Nat /\ scan'.asset \in Assets /\ scan'.todo \in SUBSET DOMAIN Problems
        /\ scan'.read \in Databases /\ scan'.seen \in SUBSET Databases /\ scan'.ticketed \in BOOLEAN
        /\ scan'.count \in Nat
    BY <1>5, <1>7, <2>1
  <2> QED
    BY <1>5, <1>7, <2>2, <2>3, ScanOf
<1> QED
  BY <1>1, <1>3, <1>4, <1>7, <1>8

LEMMA BeginScanKeeps ==
  ASSUME ConsoleInv, BeginScan
  PROVE  ConsoleInv'
<1>1. VdbInv /\ operations \in Nat /\ steady \in BOOLEAN /\ asset \in Assets
  BY DEF ConsoleInv, ConsoleTypes
<1>2. PICK found \in SUBSET DOMAIN Problems, o \in Objects :
        /\ steady' = (steady /\ Registered(o) = asset)
        /\ scan' \in Scans(findings')
        /\ scan'.pc = "enrich" /\ scan'.no = operations' /\ scan'.asset = Registered(o)
        /\ scan'.todo = found /\ scan'.looked = 0 /\ scan'.seen = {Database}
        /\ scan'.finding = {} /\ scan'.count = Cardinality(found)
  BY <1>1, BeginsWith
<1>3. /\ operations' = operations + 1
      /\ UNCHANGED database /\ UNCHANGED <<asset, findings, tickets, audit, snapshots, snap>>
  BY <1>1, BeginsWith
<1>4. operations' \in Nat /\ operations <= operations' /\ steady' \in BOOLEAN /\ (steady' => steady)
  <2>1. steady' \in BOOLEAN /\ (steady' => steady)
    BY <1>2, Zenon
  <2> QED
    BY <1>1, <1>3, <2>1
<1>5. VdbInv'
  BY <1>1, <1>3, DatabaseRests
<1>6. ConsoleTypes'
  BY <1>2, <1>3, <1>4 DEF ConsoleInv, ConsoleTypes, Assets, Snaps
<1>7. Completed' = Completed /\ audit \subseteq audit'
  BY <1>3 DEF Completed
<1>8. FindingsAreFresh' /\ TicketsHaveFindings' /\ CompletedScanIsWhole' /\ SnapshotsGrow'
  BY <1>1, <1>3, <1>4, <1>7, FreshRests, TicketsRest, WholeRests, GrowthRests DEF ConsoleInv
<1>9. \A f \in findings' : f.scan # scan'.no /\ \A k : f.id # <<scan'.no, k>>
  <2> SUFFICES ASSUME NEW f \in findings
               PROVE  f.scan # scan'.no /\ \A k : f.id # <<scan'.no, k>>
    BY <1>3
  <2>1. f.scan \in 1 .. operations /\ \E k \in DOMAIN Problems : f.id = <<f.scan, k>>
    BY DEF ConsoleInv, FindingsAreFresh
  <2>2. f.scan # scan'.no
    BY <1>1, <1>2, <1>3, <2>1
  <2> QED
    BY <2>1, <2>2
<1>10. ScanProgress'
  <2>1. Mine' = {} /\ Remaining' = found
    BY <1>2, <1>9 DEF Mine, Remaining
  <2>2. Cardinality(Mine') = 0
    BY <2>1, FS_EmptySet
  <2>3. Cardinality(Mine') + Cardinality(Remaining') = scan'.count
    BY <1>2, <2>1, <2>2, ProblemsFinite
  <2>4. scan'.no \in 1 .. operations'
    BY <1>1, <1>2, <1>3
  <2> QED
    BY <1>2, <1>9, <2>1, <2>3, <2>4 DEF ScanProgress
<1>11. CompletedAreOver'
  <2> SUFFICES ASSUME NEW r \in audit', r.action = "scan.completed"
               PROVE  \E n \in 1 .. operations' : r.subject = <<n>> /\ n # scan'.no
    BY DEF CompletedAreOver
  <2>1. PICK n \in 1 .. operations : r.subject = <<n>>
    BY <1>3 DEF ConsoleInv, CompletedAreOver
  <2>2. n \in 1 .. operations' /\ n # scan'.no
    BY <1>1, <1>2, <1>3
  <2> QED
    BY <2>1, <2>2
<1>12. LookedUp'
  BY <1>2, <1>3, NoDatabaseMoves DEF LookedUp
<1>13. SteadyIsTold'
  <2> SUFFICES ASSUME steady'
               PROVE  scan'.asset = asset'
    BY DEF SteadyIsTold
  <2>1. Registered(o) = asset
    BY <1>2, Zenon
  <2> QED
    BY <1>2, <1>3, <2>1, Zenon
<1>14. TotalsAgree'
  <2>1. TicketsAgreeWithTotal'
    BY <1>3, <1>4 DEF ConsoleInv, TotalsAgree, TicketsAgreeWithTotal, TotalRisk, RiskOf
  <2>2. TrendNeverFalls'
    BY <1>3, TrendRests DEF ConsoleInv, TotalsAgree
  <2> QED
    BY <2>1, <2>2 DEF TotalsAgree
<1> QED
  BY <1>5, <1>6, <1>8, <1>10, <1>11, <1>12, <1>13, <1>14 DEF ConsoleInv

-----------------------------------------------------------------------------
(* A finding is stored.                                                    *)

LEMMA MoreFindingsGrow ==
  ASSUME ConsoleInv, NEW f, Scorable(f), f \notin findings, findings' = findings \cup {f},
         UNCHANGED <<snapshots, snap>>
  PROVE  SnapshotsGrow'
<1>1. /\ snap \in Snaps /\ IsFiniteSet(findings) /\ \A g \in findings : Scorable(g)
      /\ snapshots \in Seq([total : Int, count : Nat, as : Assets])
  BY DEF ConsoleInv, ConsoleTypes, FindingsAreFresh
<1>2. ASSUME NEW a \in Assets, NEW n \in Int, n <= TotalRisk(findings, a), NothingBelowZero'
      PROVE  n <= TotalRisk(findings', a)
  <2>1. /\ TotalRisk(findings, a) \in Int
        /\ TotalRisk(findings', a) = RiskOf(f, a) + TotalRisk(findings, a)
    BY <1>1, TotalOfMore
  <2>2. ~BelowZero(f)
    BY <1>2, BelowZeroRests DEF NothingBelowZero
  <2>3. RiskOf(f, a) \in Int /\ RiskOf(f, a) >= 0
    BY <2>2, RiskType
  <2> QED
    BY <1>2, <2>1, <2>3
<1>3. ASSUME NEW n \in Nat, n <= Cardinality(findings)
      PROVE  n <= Cardinality(findings')
  <2>1. Cardinality(findings) \in Nat /\ Cardinality(findings \cup {f}) = Cardinality(findings) + 1
    BY <1>1, FS_AddElement, FS_CardinalityType
  <2>2. Cardinality(findings') = Cardinality(findings \cup {f})
    OBVIOUS
  <2> QED
    BY <1>3, <2>1, <2>2
<1>4. Len(snapshots) > 0 =>
        LET row == snapshots[Len(snapshots)]
        IN row.total \in Int /\ row.count \in Nat /\ row.as \in Assets
  <2> DEFINE Snapshot == [total : Int, count : Nat, as : Assets]
  <2>1. \A row \in Snapshot : row.total \in Int /\ row.count \in Nat /\ row.as \in Assets
    OBVIOUS
  <2>2. Len(snapshots) > 0 => snapshots[Len(snapshots)] \in Snapshot
    <3>1. snapshots \in Seq(Snapshot)
      BY <1>1
    <3> HIDE DEF Snapshot
    <3> QED
      BY <3>1
  <2> QED
    BY <2>1, <2>2
<1>5. snap.total \in Int /\ snap.count \in Nat /\ snap.asset \in Assets
  BY <1>1 DEF Snaps
<1>6. \A a : TotalRisk(findings, a)' = TotalRisk(findings', a)
  BY DEF TotalRisk, RiskOf
<1>7. NothingBelowZero' => NothingBelowZero
  BY NothingBelowZeroWas
<1> QED
  BY <1>2, <1>3, <1>4, <1>5, <1>6, <1>7 DEF ConsoleInv, SnapshotsGrow

LEMMA StoresOne ==
  ASSUME ConsoleInv, StoreFinding
  PROVE  /\ \E f :
              /\ f = Enrich(Raw, scan.read)
              /\ Scorable(f) /\ f.epss \in Numbers /\ f.id = <<scan.no, Current>> /\ f.scan = scan.no
              /\ f \notin findings /\ findings' = findings \cup {f}
              /\ \A g \in findings : g.id # f.id
              /\ scan.ticketed => scan'.pc = "ticket" /\ scan'.finding = {f} /\ scan'.todo = scan.todo
              /\ ~scan.ticketed =>
                   /\ scan'.pc = "enrich" /\ scan'.finding = {} /\ scan'.todo = scan.todo \ {Current}
                   /\ scan'.looked = 0 /\ scan'.seen = {Database}
         /\ scan' \in Scans(findings') /\ scan'.no = scan.no /\ scan'.asset = scan.asset
         /\ scan'.count = scan.count /\ scan'.ticketed = scan.ticketed
         /\ scan.pc = "enrich" /\ scan.todo # {}
         /\ UNCHANGED database
         /\ UNCHANGED <<asset, tickets, audit, snapshots, snap, steady, operations>>
<1>1. /\ scan.pc = "enrich" /\ scan.todo # {} /\ UNCHANGED database
      /\ UNCHANGED <<asset, tickets, audit, snapshots, snap, steady, operations>>
  BY DEF StoreFinding, vdbVars, database
<1>2. PICK f :
        /\ f = Enrich(Raw, scan.read)
        /\ findings' = {g \in findings : g.id # f.id} \cup {f}
        /\ scan' = IF scan.ticketed
                   THEN [scan EXCEPT !.pc = "ticket", !.finding = {f}]
                   ELSE NextProblem(scan)
  BY DEF StoreFinding
<1>3. scan \in Scans(findings) /\ VdbInv
  BY DEF ConsoleInv, ConsoleTypes
<1>4. Scorable(f) /\ f.epss \in Numbers /\ f.id = <<scan.no, Current>> /\ f.scan = scan.no
  BY <1>1, <1>2, <1>3, StoredIs
<1>5. \A g \in findings : g.id # f.id
  <2>1. Current \in Remaining
    BY <1>1, <1>3, CurrentIs DEF Remaining
  <2>2. Running
    BY <1>1 DEF Running
  <2> QED
    BY <1>4, <2>1, <2>2 DEF ConsoleInv, ScanProgress
<1>6. f \notin findings /\ findings' = findings \cup {f}
  BY <1>2, <1>5
<1>7. CASE scan.ticketed
  <2>1. PICK one : one = {f}
    OBVIOUS
  <2>2. scan' = [scan EXCEPT !.pc = "ticket", !.finding = one]
    BY <1>2, <1>7, <2>1
  <2>3. DOMAIN scan = {"pc", "no", "asset", "todo", "looked", "read", "seen", "ticketed", "finding", "count"}
    BY <1>3 DEF Scans
  <2>4. /\ scan' = [x \in DOMAIN scan |-> scan'[x]]
        /\ scan'.pc = "ticket" /\ scan'.no = scan.no /\ scan'.asset = scan.asset
        /\ scan'.todo = scan.todo /\ scan'.looked = scan.looked /\ scan'.read = scan.read
        /\ scan'.seen = scan.seen /\ scan'.ticketed = scan.ticketed
        /\ scan'.finding = one /\ scan'.count = scan.count
    BY <2>2, <2>3
  <2>5. scan' \in Scans(findings')
    <3>1. scan'.finding \in SUBSET findings'
      BY <1>6, <2>1, <2>4
    <3>2. /\ scan'.pc \in {"idle", "enrich", "ticket", "opened"} /\ scan'.no \in Nat
          /\ scan'.asset \in Assets /\ scan'.todo \in SUBSET DOMAIN Problems
          /\ scan'.looked \in Nat /\ scan'.read \in Databases /\ scan'.seen \in SUBSET Databases
          /\ scan'.ticketed \in BOOLEAN /\ scan'.count \in Nat
      BY <1>3, <2>4, ScanHas
    <3> QED
      BY <1>3, <2>4, <3>1, <3>2, ScanOf
  <2> QED
    BY <1>1, <1>2, <1>4, <1>5, <1>6, <1>7, <2>1, <2>4, <2>5
<1>8. CASE ~scan.ticketed
  <2>1. scan' = NextProblem(scan)
    BY <1>2, <1>8
  <2>2. /\ scan' \in Scans(findings')
        /\ scan'.pc = "enrich" /\ scan'.no = scan.no /\ scan'.asset = scan.asset
        /\ scan'.todo = scan.todo \ {Current} /\ scan'.looked = 0 /\ scan'.seen = {Database}
        /\ scan'.ticketed = scan.ticketed /\ scan'.finding = {} /\ scan'.count = scan.count
    BY <1>3, <2>1, NextProblemIs
  <2> QED
    BY <1>1, <1>2, <1>4, <1>5, <1>6, <1>8, <2>2
<1> QED
  BY <1>7, <1>8

LEMMA StoreFindingKeeps ==
  ASSUME ConsoleInv, StoreFinding
  PROVE  ConsoleInv'
<1>1. /\ scan' \in Scans(findings') /\ scan'.no = scan.no /\ scan'.asset = scan.asset
      /\ scan'.count = scan.count /\ scan'.ticketed = scan.ticketed
      /\ scan.pc = "enrich" /\ scan.todo # {}
      /\ UNCHANGED database
      /\ UNCHANGED <<asset, tickets, audit, snapshots, snap, steady, operations>>
  BY StoresOne
<1>2. PICK f :
        /\ f = Enrich(Raw, scan.read)
        /\ Scorable(f) /\ f.epss \in Numbers /\ f.id = <<scan.no, Current>> /\ f.scan = scan.no
        /\ f \notin findings /\ findings' = findings \cup {f}
        /\ \A g \in findings : g.id # f.id
        /\ scan.ticketed => scan'.pc = "ticket" /\ scan'.finding = {f} /\ scan'.todo = scan.todo
        /\ ~scan.ticketed =>
             /\ scan'.pc = "enrich" /\ scan'.finding = {} /\ scan'.todo = scan.todo \ {Current}
             /\ scan'.looked = 0 /\ scan'.seen = {Database}
  BY StoresOne
<1>3. /\ scan \in Scans(findings) /\ VdbInv /\ operations \in Nat
      /\ IsFiniteSet(findings) /\ IsFiniteSet(tickets) /\ scan.ticketed \in BOOLEAN
  BY ScanHas DEF ConsoleInv, ConsoleTypes
<1>4. Running /\ Running' /\ scan.finding = {} /\ scan.no \in 1 .. operations
  BY <1>1, <1>2, <1>3 DEF Running, ConsoleInv, ScanProgress
<1>5. \A t \in tickets : t.finding # f.id
  BY <1>2 DEF ConsoleInv, TicketsHaveFindings
<1>6. \A g : HasTicket(g)' <=> HasTicket(g)
  BY <1>1 DEF HasTicket
<1>7. ~HasTicket(f)
  BY <1>5 DEF HasTicket
<1>8. Completed' = Completed /\ audit \subseteq audit'
  BY <1>1 DEF Completed
<1>9. VdbInv'
  BY <1>1, <1>3, DatabaseRests
<1>10. ConsoleTypes'
  <2>1. IsFiniteSet(findings')
    BY <1>2, <1>3, FS_AddElement
  <2> QED
    BY <1>1, <2>1 DEF ConsoleInv, ConsoleTypes, Snaps, Assets
<1>11. FindingsAreFresh'
  <2>1. \A g : Scorable(g)' <=> Scorable(g)
    BY DEF Scorable
  <2>2. Current \in DOMAIN Problems
    BY <1>1, <1>3, CurrentIs
  <2>3. \A g \in findings' :
          /\ Scorable(g) /\ g.epss \in Numbers /\ g.scan \in 1 .. operations
          /\ \E k \in DOMAIN Problems : g.id = <<g.scan, k>>
    BY <1>2, <1>4, <2>2 DEF ConsoleInv, FindingsAreFresh
  <2>4. \A g, h \in findings' : g.id = h.id => g = h
    BY <1>2 DEF ConsoleInv, FindingsAreFresh
  <2> QED
    BY <1>1, <2>1, <2>3, <2>4 DEF FindingsAreFresh
<1>12. TicketsHaveFindings'
  BY <1>1, <1>2, BelowZeroRests DEF ConsoleInv, TicketsHaveFindings
<1>13. ScanProgress'
  <2>1. /\ Remaining' = scan.todo \ {Current} /\ Remaining = scan.todo
        /\ scan.ticketed => Current' = Current
    BY <1>1, <1>2, <1>3 DEF Remaining, Current
  <2>2. Current \in scan.todo /\ IsFiniteSet(scan.todo)
    BY <1>1, <1>3, CurrentIs, ScanHas, ProblemsFinite
  <2>3. Mine' = Mine \cup {f} /\ f \notin Mine /\ IsFiniteSet(Mine)
    BY <1>1, <1>2, <1>3, FS_Subset DEF Mine
  <2>4. Cardinality(Mine') + Cardinality(Remaining') = scan'.count
    <3>1. Cardinality(Mine) \in Nat /\ Cardinality(Mine \cup {f}) = Cardinality(Mine) + 1
      BY <2>3, FS_AddElement, FS_CardinalityType
    <3>2. /\ Cardinality(scan.todo) \in Nat
          /\ Cardinality(scan.todo \ {Current}) = Cardinality(scan.todo) - 1
      BY <2>2, FS_RemoveElement, FS_CardinalityType
    <3>3. Cardinality(Mine) + Cardinality(scan.todo) = scan.count
      BY <1>4, <2>1 DEF ConsoleInv, ScanProgress
    <3>4. Cardinality(Mine') = Cardinality(Mine \cup {f})
          /\ Cardinality(Remaining') = Cardinality(scan.todo \ {Current})
      BY <2>1, <2>3
    <3> QED
      BY <1>1, <3>1, <3>2, <3>3, <3>4
  <2>5. \A k \in Remaining' : \A g \in findings' : g.id # <<scan'.no, k>>
    <3> SUFFICES ASSUME NEW k \in scan.todo, k # Current, NEW g \in findings'
                 PROVE  g.id # <<scan.no, k>>
      BY <1>1, <2>1
    <3>1. CASE g = f
      BY <1>2, <3>1
    <3>2. CASE g \in findings
      BY <1>4, <2>1, <3>2 DEF ConsoleInv, ScanProgress
    <3> QED
      BY <1>2, <3>1, <3>2
  <2>6. \A g \in Mine' \ scan'.finding :
          IF scan'.ticketed THEN HasTicket(g)' /\ Told(g)' ELSE ~HasTicket(g)'
    <3>1. \A g \in Mine : IF scan.ticketed THEN HasTicket(g) /\ Told(g) ELSE ~HasTicket(g)
      BY <1>4 DEF ConsoleInv, ScanProgress
    <3>2. \A g : Told(g) => Told(g)'
      BY <1>1 DEF Told, Record
    <3>3. CASE scan.ticketed
      <4>1. Mine' \ scan'.finding \subseteq Mine
        BY <1>2, <2>3, <3>3
      <4> QED
        BY <1>1, <1>6, <3>1, <3>2, <3>3, <4>1
    <3>4. CASE ~scan.ticketed
      BY <1>1, <1>6, <1>7, <2>3, <3>1, <3>4
    <3> QED
      BY <3>3, <3>4
  <2>7. \A g \in scan'.finding : HasTicket(g)' <=> scan'.pc = "opened"
    BY <1>2, <1>6, <1>7
  <2>8. scan'.pc = "enrich" => scan'.finding = {}
    BY <1>2
  <2>9. scan'.pc # "enrich" =>
          /\ scan'.ticketed /\ scan'.todo # {}
          /\ \E g \in findings' : scan'.finding = {g} /\ g.id = <<scan'.no, Current'>>
    BY <1>1, <1>2, <2>1
  <2>10. scan'.no \in 1 .. operations'
    BY <1>1, <1>4
  <2> QED
    BY <2>4, <2>5, <2>6, <2>7, <2>8, <2>9, <2>10 DEF ScanProgress
<1>14. CompletedAreOver'
  BY <1>1, <1>3, <1>4, <1>8, OverRests DEF ConsoleInv
<1>15. CompletedScanIsWhole'
  <2> SUFFICES ASSUME NEW r \in audit, r.action = "scan.completed"
               PROVE  {g \in findings' : g.scan = r.subject[1]} = {g \in findings : g.scan = r.subject[1]}
    BY <1>1 DEF ConsoleInv, CompletedScanIsWhole, Record
  <2>1. PICK n \in 1 .. operations : r.subject = <<n>> /\ n # scan.no
    BY <1>4 DEF ConsoleInv, CompletedAreOver
  <2>2. r.subject[1] # f.scan
    BY <1>2, <2>1
  <2> QED
    BY <1>2, <2>2
<1>16. LookedUp'
  <2>1. scan'.pc = "enrich" => scan'.looked = 0 /\ scan'.seen = {Database}
    BY <1>2
  <2> QED
    BY <1>1, <2>1, NoDatabaseMoves DEF LookedUp
<1>17. SteadyIsTold'
  BY <1>1, <1>4 DEF ConsoleInv, SteadyIsTold
<1>18. TotalsAgree'
  <2>1. Ticketed' = Ticketed
    BY <1>2, <1>6, <1>7 DEF Ticketed
  <2>2. TicketsAgreeWithTotal'
    BY <1>1, <2>1, AgreeIs, AgreesThen DEF ConsoleInv, TotalsAgree
  <2>3. TrendNeverFalls'
    BY <1>1, <1>2, TrendRests DEF ConsoleInv, TotalsAgree
  <2> QED
    BY <2>2, <2>3 DEF TotalsAgree
<1>19. SnapshotsGrow'
  BY <1>1, <1>2, MoreFindingsGrow
<1> QED
  BY <1>9, <1>10, <1>11, <1>12, <1>13, <1>14, <1>15, <1>16, <1>17, <1>18, <1>19 DEF ConsoleInv

-----------------------------------------------------------------------------
(* A ticket is opened and told of, and the scan ends.                      *)

(* The finding at hand between its storing and the record of its ticket.   *)
LEMMA AtHand ==
  ASSUME ConsoleInv, scan.pc \in {"ticket", "opened"}
  PROVE  /\ \E f \in findings :
              /\ scan.finding = {f} /\ f.id = <<scan.no, Current>> /\ f.scan = scan.no
              /\ HasTicket(f) <=> scan.pc = "opened"
         /\ scan \in Scans(findings) /\ scan.todo # {} /\ scan.ticketed /\ Running
         /\ scan.no \in 1 .. operations
<1>1. Running /\ ScanProgress /\ FindingsAreFresh
  BY DEF Running, ConsoleInv
<1>2. PICK f \in findings : scan.finding = {f} /\ f.id = <<scan.no, Current>>
  BY <1>1 DEF ScanProgress
<1>3. f.scan = scan.no
  <2>1. PICK k \in DOMAIN Problems : f.id = <<f.scan, k>>
    BY <1>1 DEF FindingsAreFresh
  <2> QED
    BY <1>2, <2>1
<1>4. HasTicket(f) <=> scan.pc = "opened"
  BY <1>1, <1>2 DEF ScanProgress
<1>5. scan \in Scans(findings) /\ scan.todo # {} /\ scan.ticketed /\ scan.no \in 1 .. operations
  BY <1>1 DEF ScanProgress, ConsoleInv, ConsoleTypes
<1> QED
  BY <1>1, <1>2, <1>3, <1>4, <1>5

LEMMA OpensOne ==
  ASSUME ConsoleInv, OpenTicket
  PROVE  /\ scan.pc = "ticket"
         /\ \E f \in findings :
              /\ scan.finding = {f} /\ f.id = <<scan.no, Current>> /\ f.scan = scan.no
              /\ ~HasTicket(f)
              /\ LET new == [finding |-> f.id, risk |-> RiskOf(f, scan.asset)]
                 IN new \notin tickets /\ tickets' = tickets \cup {new}
         /\ scan' \in Scans(findings') /\ scan'.pc = "opened"
         /\ scan'.no = scan.no /\ scan'.asset = scan.asset /\ scan'.todo = scan.todo
         /\ scan'.finding = scan.finding
         /\ scan'.count = scan.count /\ scan'.ticketed = scan.ticketed
         /\ UNCHANGED database
         /\ UNCHANGED <<asset, findings, audit, snapshots, snap, steady, operations>>
<1>1. PICK f \in scan.finding : PutTicket(f, RiskOf(f, scan.asset))
  BY DEF OpenTicket
<1>2. /\ scan.pc = "ticket" /\ scan.finding = {f} /\ UNCHANGED database
      /\ scan' = [scan EXCEPT !.pc = "opened"]
      /\ UNCHANGED <<asset, findings, audit, snapshots, snap, steady, operations>>
  BY <1>1 DEF PutTicket, vdbVars, database
<1>3. /\ f \in findings /\ f.id = <<scan.no, Current>> /\ f.scan = scan.no /\ ~HasTicket(f)
      /\ scan \in Scans(findings)
  BY <1>2, AtHand
<1>4. tickets' = tickets \cup {[finding |-> f.id, risk |-> RiskOf(f, scan.asset)]}
  <2>1. tickets' = {t \in tickets : t.finding # f.id}
                     \cup {[finding |-> f.id, risk |-> RiskOf(f, scan.asset)]}
    BY <1>1 DEF PutTicket
  <2>2. \A t \in tickets : t.finding # f.id
    BY <1>3 DEF HasTicket
  <2> QED
    BY <2>1, <2>2
<1>5. [finding |-> f.id, risk |-> RiskOf(f, scan.asset)] \notin tickets
  BY <1>3 DEF HasTicket
<1>6. DOMAIN scan = {"pc", "no", "asset", "todo", "looked", "read", "seen", "ticketed", "finding", "count"}
  BY <1>3 DEF Scans
<1>7. /\ scan' = [x \in DOMAIN scan |-> scan'[x]]
      /\ scan'.pc = "opened" /\ scan'.no = scan.no /\ scan'.asset = scan.asset
      /\ scan'.todo = scan.todo /\ scan'.looked = scan.looked /\ scan'.read = scan.read
      /\ scan'.seen = scan.seen /\ scan'.ticketed = scan.ticketed
      /\ scan'.finding = scan.finding /\ scan'.count = scan.count
  BY <1>2, <1>6
<1>8. scan' \in Scans(findings')
  <2>1. /\ scan'.pc \in {"idle", "enrich", "ticket", "opened"} /\ scan'.no \in Nat
        /\ scan'.asset \in Assets /\ scan'.todo \in SUBSET DOMAIN Problems
        /\ scan'.looked \in Nat /\ scan'.read \in Databases /\ scan'.seen \in SUBSET Databases
        /\ scan'.ticketed \in BOOLEAN /\ scan'.count \in Nat /\ scan'.finding \in SUBSET findings'
    BY <1>2, <1>3, <1>7, ScanHas
  <2> QED
    BY <1>3, <1>7, <2>1, ScanOf
<1> QED
  BY <1>2, <1>3, <1>4, <1>5, <1>7, <1>8

LEMMA OpenTicketKeeps ==
  ASSUME ConsoleInv, OpenTicket
  PROVE  ConsoleInv'
<1>1. /\ scan.pc = "ticket" /\ scan' \in Scans(findings') /\ scan'.pc = "opened"
      /\ scan'.no = scan.no /\ scan'.asset = scan.asset /\ scan'.todo = scan.todo
      /\ scan'.finding = scan.finding
      /\ scan'.count = scan.count /\ scan'.ticketed = scan.ticketed
      /\ UNCHANGED database
      /\ UNCHANGED <<asset, findings, audit, snapshots, snap, steady, operations>>
  BY OpensOne
<1>2. PICK f \in findings :
        /\ scan.finding = {f} /\ f.id = <<scan.no, Current>> /\ f.scan = scan.no
        /\ ~HasTicket(f)
        /\ LET new == [finding |-> f.id, risk |-> RiskOf(f, scan.asset)]
           IN new \notin tickets /\ tickets' = tickets \cup {new}
  BY OpensOne
<1>3. PICK new : new = [finding |-> f.id, risk |-> RiskOf(f, scan.asset)]
  OBVIOUS
<1>4. /\ new \notin tickets /\ tickets' = tickets \cup {new}
      /\ new.finding = f.id /\ new.risk = RiskOf(f, scan.asset)
  BY <1>2, <1>3
<1>5. /\ scan \in Scans(findings) /\ scan.todo # {} /\ scan.ticketed /\ Running
      /\ scan.no \in 1 .. operations /\ operations \in Nat
      /\ IsFiniteSet(findings) /\ IsFiniteSet(tickets)
  BY <1>1, AtHand DEF ConsoleInv, ConsoleTypes
<1>6. /\ new.risk \in Int /\ new.risk <= 1000 /\ (~BelowZero(f) => new.risk >= 0)
      /\ scan.asset \in Assets
  <2>1. Scorable(f) /\ scan.asset \in Assets
    BY <1>5, ScanHas DEF ConsoleInv, FindingsAreFresh
  <2> QED
    BY <1>4, <2>1, RiskType
<1>7. \A g \in findings : HasTicket(g)' <=> HasTicket(g) \/ g = f
  <2>1. \A g \in findings : g.id = f.id => g = f
    BY DEF ConsoleInv, FindingsAreFresh
  <2> QED
    BY <1>4, <2>1 DEF HasTicket
<1>8. \A g : Told(g)' <=> Told(g)
  BY <1>1 DEF Told, Record
<1>9. Completed' = Completed /\ audit \subseteq audit' /\ (Running' => Running)
  BY <1>1, <1>5 DEF Completed
<1>10. VdbInv' /\ FindingsAreFresh' /\ CompletedAreOver' /\ SnapshotsGrow'
  BY <1>1, <1>5, <1>9, DatabaseRests, FreshRests, OverRests, GrowthRests DEF ConsoleInv
<1>11. ConsoleTypes'
  <2>1. IsFiniteSet(tickets')
    BY <1>4, <1>5, FS_AddElement
  <2> QED
    BY <1>1, <2>1 DEF ConsoleInv, ConsoleTypes, Snaps, Assets
<1>12. TicketsHaveFindings'
  <2>1. \A t \in tickets' :
          /\ t.risk \in Int /\ t.risk <= 1000
          /\ \E g \in findings : g.id = t.finding /\ (~BelowZero(g) => t.risk >= 0)
    BY <1>2, <1>4, <1>6 DEF ConsoleInv, TicketsHaveFindings
  <2>2. \A t \in tickets : t.finding # new.finding
    BY <1>2, <1>4 DEF HasTicket
  <2>3. \A t, u \in tickets' : t.finding = u.finding => t = u
    BY <1>4, <2>2 DEF ConsoleInv, TicketsHaveFindings
  <2> QED
    BY <1>1, <2>1, <2>3, BelowZeroRests DEF TicketsHaveFindings
<1>13. ScanProgress'
  <2>1. Mine' = Mine /\ Current' = Current /\ Remaining' = Remaining /\ Mine \subseteq findings
    BY <1>1 DEF Mine, Current, Remaining
  <2>2. \A g \in Mine \ scan.finding : HasTicket(g) /\ Told(g)
    BY <1>5 DEF ConsoleInv, ScanProgress
  <2>3. \A g \in Mine' \ scan'.finding : HasTicket(g)' /\ Told(g)'
    BY <1>1, <1>7, <1>8, <2>1, <2>2
  <2>4. \A g \in scan'.finding : HasTicket(g)' <=> scan'.pc = "opened"
    BY <1>1, <1>2, <1>7
  <2> QED
    BY <1>1, <1>5, <2>1, <2>3, <2>4 DEF ConsoleInv, ScanProgress
<1>14. CompletedScanIsWhole'
  <2>1. ASSUME NEW r \in audit, r.action = "scan.completed",
               NEW g \in findings, g.scan = r.subject[1]
        PROVE  HasTicket(g)' <=> HasTicket(g)
    <3>1. PICK n \in 1 .. operations : r.subject = <<n>> /\ n # scan.no
      BY <1>5, <2>1 DEF ConsoleInv, CompletedAreOver
    <3>2. g # f
      BY <1>2, <2>1, <3>1
    <3> QED
      BY <1>7, <3>2
  <2>2. ASSUME NEW r \in audit, r.action = "scan.completed"
        PROVE  {g \in {h \in findings : h.scan = r.subject[1]} : HasTicket(g)'}
                 = {g \in {h \in findings : h.scan = r.subject[1]} : HasTicket(g)}
    BY <2>1, <2>2
  <2> QED
    BY <1>1, <2>2 DEF ConsoleInv, CompletedScanIsWhole, HasTicket, Record
<1>15. LookedUp' /\ SteadyIsTold'
  BY <1>1, <1>9 DEF LookedUp, ConsoleInv, SteadyIsTold
<1>16. TotalsAgree'
  <2>1. Ticketed' = Ticketed \cup {f} /\ f \notin Ticketed
    BY <1>1, <1>2, <1>7 DEF Ticketed
  <2>2. /\ IsFiniteSet(Ticketed) /\ Ticketed \subseteq findings
        /\ \A g \in Ticketed : Scorable(g)
    BY <1>5, FS_Subset DEF Ticketed, ConsoleInv, FindingsAreFresh
  <2>3. Cardinality(Ticketed') = Cardinality(tickets')
    <3>1. Cardinality(Ticketed) \in Nat /\ Cardinality(tickets) \in Nat
      BY <1>5, <2>2, FS_CardinalityType
    <3>2. Cardinality(Ticketed \cup {f}) = Cardinality(Ticketed) + 1
      BY <2>1, <2>2, FS_AddElement
    <3>3. Cardinality(tickets \cup {new}) = Cardinality(tickets) + 1
      BY <1>4, <1>5, FS_AddElement
    <3>4. Cardinality(Ticketed) = Cardinality(tickets)
      BY AgreeIs DEF ConsoleInv, TotalsAgree
    <3> QED
      BY <1>4, <2>1, <3>1, <3>2, <3>3, <3>4
  <2>4. ASSUME steady'
        PROVE  TicketSum(tickets') = TotalRisk(Ticketed', asset')
    <3>1. steady /\ scan.asset = asset
      BY <1>1, <1>5, <2>4 DEF ConsoleInv, SteadyIsTold
    <3>2. TicketSum(tickets) = TotalRisk(Ticketed, asset)
      BY <3>1, AgreeIs DEF ConsoleInv, TotalsAgree
    <3>3. TotalRisk(Ticketed \cup {f}, asset) = RiskOf(f, asset) + TotalRisk(Ticketed, asset)
      <4>1. Scorable(f) /\ asset \in Assets
        BY <1>6, <3>1 DEF ConsoleInv, FindingsAreFresh
      <4> QED
        BY <2>1, <2>2, <4>1, TotalOfMore
    <3>4. TicketSum(tickets \cup {new}) = new.risk + TicketSum(tickets)
      <4>1. \A t \in tickets : t.risk \in Int
        BY DEF ConsoleInv, TicketsHaveFindings
      <4>2. new \notin tickets /\ new.risk \in Int
        BY <1>4, <1>6
      <4> QED
        BY <1>5, <4>1, <4>2, TicketSumOfMore
    <3> QED
      BY <1>1, <1>4, <2>1, <3>1, <3>2, <3>3, <3>4
  <2>5. TicketsAgreeWithTotal'
    BY <2>3, <2>4, AgreesThen
  <2>6. TrendNeverFalls'
    BY <1>1, TrendRests DEF ConsoleInv, TotalsAgree
  <2> QED
    BY <2>5, <2>6 DEF TotalsAgree
<1> QED
  BY <1>10, <1>11, <1>12, <1>13, <1>14, <1>15, <1>16 DEF ConsoleInv

LEMMA TellOpenedKeeps ==
  ASSUME ConsoleInv, TellOpened
  PROVE  ConsoleInv'
<1>1. /\ scan.pc = "opened" /\ UNCHANGED database
      /\ audit' = audit \cup {Record("workflow.opened", f.id, 0) : f \in scan.finding}
      /\ scan' = NextProblem(scan)
      /\ UNCHANGED <<asset, findings, tickets, snapshots, snap, steady, operations>>
  BY DEF TellOpened, vdbVars, database
<1>2. PICK f \in findings :
        scan.finding = {f} /\ f.id = <<scan.no, Current>> /\ f.scan = scan.no /\ HasTicket(f)
  BY <1>1, AtHand
<1>3. /\ scan \in Scans(findings) /\ scan.todo # {} /\ scan.ticketed /\ Running
      /\ scan.no \in 1 .. operations /\ operations \in Nat /\ VdbInv
  BY <1>1, AtHand DEF ConsoleInv, ConsoleTypes
<1>4. /\ scan' \in Scans(findings')
      /\ scan'.pc = "enrich" /\ scan'.no = scan.no /\ scan'.asset = scan.asset
      /\ scan'.todo = scan.todo \ {Current} /\ scan'.looked = 0 /\ scan'.seen = {Database}
      /\ scan'.ticketed = scan.ticketed /\ scan'.finding = {} /\ scan'.count = scan.count
  BY <1>1, <1>3, NextProblemIs
<1>5. audit' = audit \cup {Record("workflow.opened", f.id, 0)}
  BY <1>1, <1>2
<1>6. Completed' = Completed /\ audit \subseteq audit'
  <2>1. Record("workflow.opened", f.id, 0).action # "scan.completed"
    BY DEF Record
  <2> QED
    BY <1>5, <2>1 DEF Completed
<1>7. (\A g : HasTicket(g)' <=> HasTicket(g)) /\ (\A g : Told(g) => Told(g)') /\ Told(f)'
  BY <1>1, <1>5, <1>6 DEF HasTicket, Told, Record
<1>8. VdbInv' /\ FindingsAreFresh' /\ TicketsHaveFindings' /\ CompletedAreOver'
  BY <1>1, <1>3, <1>4, <1>6, DatabaseRests, FreshRests, TicketsRest, OverRests DEF ConsoleInv
<1>9. CompletedScanIsWhole' /\ TotalsAgree' /\ SnapshotsGrow'
  BY <1>1, <1>6, WholeRests, AgreeRests, GrowthRests DEF ConsoleInv
<1>10. ConsoleTypes'
  BY <1>1, <1>4 DEF ConsoleInv, ConsoleTypes, Snaps, Assets
<1>11. ScanProgress'
  <2>1. Mine' = Mine /\ Remaining' = Remaining /\ Mine \subseteq findings
    BY <1>1, <1>4 DEF Mine, Remaining
  <2>2. \A g \in Mine \ scan.finding : HasTicket(g) /\ Told(g)
    BY <1>3 DEF ConsoleInv, ScanProgress
  <2>3. \A g \in Mine' \ scan'.finding : HasTicket(g)' /\ Told(g)'
    BY <1>2, <1>7, <2>1, <2>2
  <2> QED
    BY <1>1, <1>3, <1>4, <2>1, <2>3 DEF ConsoleInv, ScanProgress
<1>12. LookedUp'
  BY <1>1, <1>4, NoDatabaseMoves DEF LookedUp
<1>13. SteadyIsTold'
  BY <1>1, <1>3, <1>4 DEF ConsoleInv, SteadyIsTold
<1> QED
  BY <1>8, <1>9, <1>10, <1>11, <1>12, <1>13 DEF ConsoleInv

LEMMA EndScanKeeps ==
  ASSUME ConsoleInv, EndScan
  PROVE  ConsoleInv'
<1> DEFINE end == Record("scan.completed", <<scan.no>>, scan.count)
<1>1. /\ scan.pc = "enrich" /\ scan.todo = {} /\ UNCHANGED database
      /\ audit' = audit \cup {end} /\ scan' = NoScan
      /\ UNCHANGED <<asset, findings, tickets, snapshots, snap, steady, operations>>
  BY DEF EndScan, TellCompleted, vdbVars, database
<1>2. end.action = "scan.completed" /\ end.subject = <<scan.no>> /\ end.count = scan.count
  BY DEF Record
<1> HIDE DEF end
<1>3. scan' \in Scans(findings') /\ scan'.pc = "idle" /\ ~Running'
  BY <1>1, NoScanIs DEF Running
<1>4. Running /\ ScanProgress /\ scan \in Scans(findings) /\ operations \in Nat
  BY <1>1 DEF Running, ConsoleInv, ConsoleTypes
<1>5. VdbInv' /\ FindingsAreFresh' /\ TicketsHaveFindings' /\ TotalsAgree' /\ SnapshotsGrow'
  BY <1>1, <1>4, DatabaseRests, FreshRests, TicketsRest, AgreeRests, GrowthRests DEF ConsoleInv
<1>6. ConsoleTypes'
  BY <1>1, <1>3 DEF ConsoleInv, ConsoleTypes, Snaps, Assets
<1>7. ScanProgress' /\ LookedUp' /\ SteadyIsTold'
  BY <1>3 DEF ScanProgress, LookedUp, SteadyIsTold, Running
<1>8. CompletedAreOver'
  <2>1. scan.no \in 1 .. operations
    BY <1>4 DEF ScanProgress
  <2> QED
    BY <1>1, <1>2, <1>3, <2>1 DEF ConsoleInv, CompletedAreOver
<1>9. /\ Cardinality(Mine) = scan.count
      /\ \A f \in Mine : IF scan.ticketed THEN HasTicket(f) /\ Told(f) ELSE ~HasTicket(f)
  <2>1. Remaining = {} /\ scan.finding = {}
    BY <1>1, <1>4 DEF Remaining, ScanProgress
  <2>2. Cardinality(Remaining) = 0 /\ Cardinality(Mine) \in Nat
    <3>1. IsFiniteSet(Mine)
      BY FS_Subset DEF Mine, ConsoleInv, ConsoleTypes
    <3> QED
      BY <2>1, <3>1, FS_EmptySet, FS_CardinalityType
  <2>3. Cardinality(Mine) + Cardinality(Remaining) = scan.count
    BY <1>4 DEF ScanProgress
  <2>4. \A f \in Mine : IF scan.ticketed THEN HasTicket(f) /\ Told(f) ELSE ~HasTicket(f)
    BY <1>4, <2>1 DEF ScanProgress
  <2> QED
    BY <2>2, <2>3, <2>4
<1>10. CompletedScanIsWhole'
  <2> DEFINE Whole(r) ==
        LET stored == {f \in findings : f.scan = r.subject[1]}
            ticketed == {f \in stored : HasTicket(f)}
        IN /\ Cardinality(stored) = r.count
           /\ ticketed \in {{}, stored}
           /\ \A f \in ticketed : Told(f)
  <2>1. ASSUME NEW r \in audit, r.action = "scan.completed"
        PROVE  Whole(r)
    BY <2>1 DEF ConsoleInv, CompletedScanIsWhole, HasTicket, Told
  <2>2. Whole(end)
    <3>1. {f \in findings : f.scan = end.subject[1]} = Mine
      BY <1>2 DEF Mine
    <3>2. CASE scan.ticketed
      <4>1. {f \in Mine : HasTicket(f)} = Mine /\ \A f \in Mine : Told(f)
        BY <1>9, <3>2
      <4> QED
        BY <1>2, <1>9, <3>1, <4>1
    <3>3. CASE ~scan.ticketed
      <4>1. {f \in Mine : HasTicket(f)} = {}
        BY <1>9, <3>3
      <4> QED
        BY <1>2, <1>9, <3>1, <4>1
    <3> QED
      BY <3>2, <3>3
  <2>3. (\A f : HasTicket(f)' <=> HasTicket(f)) /\ (\A f : Told(f) => Told(f)')
    BY <1>1 DEF HasTicket, Told, Record
  <2>4. \A r \in audit' : r.action = "scan.completed" => Whole(r)
    BY <1>1, <2>1, <2>2
  <2>5. ASSUME NEW r \in audit', r.action = "scan.completed"
        PROVE  LET stored == {f \in findings' : f.scan = r.subject[1]}
                   ticketed == {f \in stored : HasTicket(f)'}
               IN /\ Cardinality(stored) = r.count
                  /\ ticketed \in {{}, stored}
                  /\ \A f \in ticketed : Told(f)'
    <3>1. Whole(r)
      BY <2>4, <2>5
    <3>2. /\ {f \in findings' : f.scan = r.subject[1]} = {f \in findings : f.scan = r.subject[1]}
          /\ {f \in {g \in findings' : g.scan = r.subject[1]} : HasTicket(f)'}
               = {f \in {g \in findings : g.scan = r.subject[1]} : HasTicket(f)}
      BY <1>1, <2>3
    <3> QED
      BY <2>3, <3>1, <3>2
  <2> QED
    BY <2>5 DEF CompletedScanIsWhole, HasTicket, Told
<1> QED
  BY <1>5, <1>6, <1>7, <1>8, <1>10 DEF ConsoleInv

-----------------------------------------------------------------------------
(* The invariant holds at first, and every step keeps it.                  *)

LEMMA ConsoleInitHolds ==
  ASSUME Init
  PROVE  ConsoleInv
<1>1. /\ VdbInit /\ operations = 0 /\ asset \in Assets
      /\ findings = {} /\ tickets = {} /\ audit = {} /\ snapshots = <<>>
      /\ scan = NoScan /\ snap = NoSnap
  BY DEF Init, VdbInit
<1>2. steady \in BOOLEAN
  BY Zenon DEF Init
<1>3. VdbInv
  BY <1>1, VdbInitHolds
<1>4. scan \in Scans(findings) /\ scan.pc = "idle" /\ ~Running
  BY <1>1, NoScanIs DEF Running
<1>5. snap \in Snaps /\ snap.pc = "idle"
  BY <1>1 DEF NoSnap, Snaps, Assets
<1>6. IsFiniteSet(findings) /\ IsFiniteSet(tickets)
  BY <1>1, FS_EmptySet
<1>7. snapshots \in Seq([total : Int, count : Nat, as : Assets]) /\ Len(snapshots) = 0
  BY <1>1
<1>8. ConsoleTypes
  BY <1>1, <1>2, <1>4, <1>5, <1>6, <1>7 DEF ConsoleTypes, Assets
<1>9. FindingsAreFresh /\ TicketsHaveFindings /\ CompletedAreOver /\ CompletedScanIsWhole
  BY <1>1 DEF FindingsAreFresh, TicketsHaveFindings, CompletedAreOver, CompletedScanIsWhole
<1>10. ScanProgress /\ LookedUp /\ SteadyIsTold
  BY <1>4 DEF ScanProgress, LookedUp, SteadyIsTold, Running
<1>11. TotalsAgree
  <2>1. Ticketed = {} /\ Cardinality(Ticketed) = Cardinality(tickets)
    BY <1>1 DEF Ticketed
  <2>2. TicketSum(tickets) = TotalRisk(Ticketed, asset)
    BY <1>1, <2>1, TicketSumOfNone, TotalOfNone
  <2> QED
    BY <1>7, <2>1, <2>2, AgreeIs DEF TotalsAgree, TrendNeverFalls
<1>12. SnapshotsGrow
  BY <1>5, <1>7 DEF SnapshotsGrow
<1> QED
  BY <1>3, <1>8, <1>9, <1>10, <1>11, <1>12 DEF ConsoleInv

LEMMA ConsoleKeeps ==
  ASSUME ConsoleInv, [Next]_vars
  PROVE  ConsoleInv'
BY RegisterAssetKeeps, BeginScanKeeps, LookUpKeeps, StoreFindingKeeps, OpenTicketKeeps,
   TellOpenedKeeps, EndScanKeeps, DieScanningKeeps, ListAssetsKeeps, SumFindingsKeeps,
   AppendSnapshotKeeps, DieRecordingKeeps, ImporterMovesKeeps, ConsoleRests DEF Next

-----------------------------------------------------------------------------
(* What a finding is stored with is what the lookups gave.                 *)

LEMMA EnrichOfSame ==
  ASSUME NEW f, NEW ids, f.cves \in Seq(ids),
         NEW db \in [ids -> VdbEntry \cup {NoEntry}], NEW eb \in [ids -> VdbEntry \cup {NoEntry}],
         \A k \in DOMAIN f.cves : db[f.cves[k]] = eb[f.cves[k]]
  PROVE  Enrich(f, db) = Enrich(f, eb)
<1>1. PICK list \in Seq(ids) : list = f.cves
  OBVIOUS
<1>2. PICK best : best = BestEntry(list, db) /\ best = BestEntry(list, eb)
  BY <1>1, BestOfSame
<1>3. CASE best = "none"
  BY <1>1, <1>2, <1>3 DEF Enrich
<1>4. CASE best # "none"
  <2>1. db[best] = eb[best]
    <3>1. PICK k : Speaks(list, db, k) /\ best = list[k]
      <4>1. BestEntry(list, db) # "none"
        BY <1>2, <1>4
      <4>2. list \in Seq(ids)
        BY <1>1
      <4>3. \E k : Speaks(list, db, k) /\ BestEntry(list, db) = list[k]
        BY ONLY db \in [ids -> VdbEntry \cup {NoEntry}], <4>1, <4>2, BestType, Zenon
      <4> QED
        BY <1>2, <4>3
    <3>2. k \in DOMAIN list
      BY <3>1 DEF Speaks
    <3> QED
      BY <1>1, <3>1, <3>2
  <2> QED
    BY <1>1, <1>2, <1>4, <2>1 DEF Enrich
<1> QED
  BY <1>3, <1>4

LEMMA OnlyStoringAdds ==
  ASSUME [Next]_vars, ~StoreFinding
  PROVE  findings' = findings
<1>1. UNCHANGED findings \/ ~ UNCHANGED tables
  BY DEF tables
<1>2. CASE UNCHANGED vars
  BY <1>2 DEF vars, tables
<1>3. CASE \E o \in Objects : RegisterAsset(o)
  BY <1>3 DEF RegisterAsset
<1>4. CASE OpenTicket
  BY <1>4 DEF OpenTicket, PutTicket
<1>5. CASE TellOpened
  BY <1>5 DEF TellOpened
<1>6. CASE EndScan
  BY <1>6 DEF EndScan, TellCompleted
<1>7. CASE AppendSnapshot
  BY <1>7 DEF AppendSnapshot
<1>8. CASE BeginScan \/ LookUp \/ DieScanning \/ ListAssets \/ SumFindings \/ DieRecording \/ ImporterMoves
  <2>1. UNCHANGED tables
    BY <1>8, Zenon DEF BeginScan, LookUp, DieScanning, ListAssets, SumFindings, DieRecording, ImporterMoves
  <2> QED
    BY <1>1, <2>1
<1> QED
  BY <1>2, <1>3, <1>4, <1>5, <1>6, <1>7, <1>8, Zenon DEF Next

LEMMA StoredAsSeen ==
  ASSUME ConsoleInv, [Next]_vars, NEW f \in findings' \ findings
  PROVE  \E at \in [Cves -> scan.seen] : f = Enrich(Raw, [c \in Cves |-> at[c][c]])
<1>1. StoreFinding
  BY OnlyStoringAdds
<1>2. f = Enrich(Raw, scan.read) /\ scan.pc = "enrich" /\ scan.todo # {}
  BY <1>1, StoresOne
<1>3. /\ VdbInv /\ scan \in Scans(findings) /\ LookedUp
      /\ scan.looked \in Nat /\ scan.read \in Databases /\ scan.seen \in SUBSET Databases
  BY ScanHas DEF ConsoleInv, ConsoleTypes
<1>4. Raw.cves = Problem.cves /\ Problem.cves \in Seq(Cves)
  BY <1>2, <1>3, CurrentIs
<1>5. ~(scan.looked < Len(Problem.cves))
  BY <1>1, <1>2 DEF StoreFinding, Looking
<1>6. PICK list \in Seq(Cves) : list = Problem.cves
  BY <1>4
<1>7. \A k \in DOMAIN list : \E d \in scan.seen : scan.read[list[k]] = d[list[k]]
  <2> SUFFICES ASSUME NEW k \in DOMAIN list
               PROVE  \E d \in scan.seen : scan.read[list[k]] = d[list[k]]
    OBVIOUS
  <2>1. k \in 1 .. scan.looked
    BY <1>3, <1>5, <1>6
  <2> QED
    BY <1>2, <1>3, <1>6, <2>1 DEF LookedUp
<1>8. Database \in scan.seen
  BY <1>2, <1>3 DEF LookedUp
<1> DEFINE Gave(c, d) == d \in scan.seen /\ scan.read[c] = d[c]
           at == [c \in Cves |-> IF \E d : Gave(c, d) THEN CHOOSE d : Gave(c, d) ELSE Database]
           db == [c \in Cves |-> at[c][c]]
<1>9. \A c \in Cves : at[c] \in scan.seen /\ ((\E d : Gave(c, d)) => at[c][c] = scan.read[c])
  <2> SUFFICES ASSUME NEW c \in Cves
               PROVE  at[c] \in scan.seen /\ ((\E d : Gave(c, d)) => at[c][c] = scan.read[c])
    OBVIOUS
  <2>1. CASE \E d : Gave(c, d)
    <3> DEFINE e == CHOOSE d : Gave(c, d)
    <3>1. Gave(c, e)
      BY <2>1
    <3>2. at[c] = e
      BY <2>1
    <3> HIDE DEF e, at
    <3> QED
      BY <3>1, <3>2
  <2>2. CASE ~ \E d : Gave(c, d)
    <3>1. at[c] = Database
      BY <2>2
    <3> HIDE DEF at, Gave
    <3> QED
      BY <1>8, <2>2, <3>1
  <2> QED
    BY <2>1, <2>2
<1>10. \A k \in DOMAIN list : list[k] \in Cves /\ at[list[k]][list[k]] = scan.read[list[k]]
  <2> SUFFICES ASSUME NEW k \in DOMAIN list
               PROVE  list[k] \in Cves /\ at[list[k]][list[k]] = scan.read[list[k]]
    OBVIOUS
  <2>1. list[k] \in Cves
    BY <1>6, MemberOf
  <2>2. \E d : Gave(list[k], d)
    BY <1>7
  <2> HIDE DEF at, Gave
  <2> QED
    BY <1>9, <2>1, <2>2
<1>11. at \in [Cves -> scan.seen]
  <2>1. \A c \in Cves : at[c] \in scan.seen
    BY <1>9
  <2>2. at = [c \in Cves |-> at[c]]
    OBVIOUS
  <2> HIDE DEF at
  <2> QED
    BY <2>1, <2>2
<1> HIDE DEF at
<1>12. db \in Databases
  <2>1. \A c \in Cves : at[c][c] \in VdbEntry \cup {NoEntry}
    <3>1. \A c \in Cves : at[c] \in [Cves -> VdbEntry \cup {NoEntry}]
      BY <1>3, <1>11 DEF Databases
    <3> QED
      BY <3>1
  <2> QED
    BY <2>1 DEF Databases
<1>13. \A k \in DOMAIN list : scan.read[list[k]] = db[list[k]]
  BY <1>10
<1> HIDE DEF db
<1>14. Enrich(Raw, scan.read) = Enrich(Raw, db)
  <2>1. scan.read \in [Cves -> VdbEntry \cup {NoEntry}] /\ db \in [Cves -> VdbEntry \cup {NoEntry}]
    BY <1>3, <1>12 DEF Databases
  <2>2. Raw.cves \in Seq(Cves) /\ \A k \in DOMAIN Raw.cves : scan.read[Raw.cves[k]] = db[Raw.cves[k]]
    BY <1>4, <1>6, <1>13
  <2> QED
    BY <2>1, <2>2, EnrichOfSame
<1> QED
  BY <1>2, <1>11, <1>14 DEF db

-----------------------------------------------------------------------------
(* The theorems about the console and the database it reads.               *)

(* Whatever the processes do - import, deliver, scan, ticket, count, die   *)
(* between two statements - the invariant holds.                           *)
THEOREM ConsoleInductive ==
  Spec => []ConsoleInv
<1>1. Init => ConsoleInv
  BY ConsoleInitHolds
<1>2. ConsoleInv /\ [Next]_vars => ConsoleInv'
  BY ConsoleKeeps
<1> QED
  BY <1>1, <1>2, PTL DEF Spec

(* The tables keep their types whatever is imported meanwhile.  No number  *)
(* is asked whether it is in scale: a ticket's risk is capped at 100       *)
(* points, but is not below none only as long as no number of a finding is *)
(* (console.py, store.py, scoring.py).                                     *)
THEOREM ConsoleTyped ==
  Spec => []TypeOK
<1>1. ConsoleInv => TypeOK
  <2> SUFFICES ASSUME ConsoleInv
               PROVE  TypeOK
    OBVIOUS
  <2>1. VdbTypeOK
    BY VdbInvMeans DEF ConsoleInv
  <2>2. asset \in Assets
    BY DEF ConsoleInv, ConsoleTypes, Assets
  <2>3. \A f \in findings : f.scan \in 1 .. operations /\ f.cvss \in Int /\ f.epss \in Numbers
    BY DEF ConsoleInv, FindingsAreFresh, Scorable
  <2>4. \A t \in tickets : t.risk \in Int /\ t.risk <= 1000 /\ (NothingBelowZero => t.risk >= 0)
    BY DEF ConsoleInv, TicketsHaveFindings, NothingBelowZero
  <2>5. scan.pc \in {"idle", "enrich", "ticket", "opened"} /\ snap.pc \in {"idle", "sum", "append"}
    BY ScanHas DEF ConsoleInv, ConsoleTypes, Snaps
  <2> QED
    BY <2>1, <2>2, <2>3, <2>4, <2>5 DEF TypeOK
<1> QED
  BY <1>1, ConsoleInductive, PTL

(* The same of the database alone, whoever reads it.                       *)
THEOREM VdbInductive ==
  VdbSpec => []VdbInv
<1>1. VdbInit => VdbInv
  BY VdbInitHolds
<1>2. VdbInv /\ [VdbNext]_vdbVars => VdbInv'
  <2>1. ASSUME VdbInv, UNCHANGED vdbVars
        PROVE  VdbInv'
    <3>1. UNCHANGED database
      BY <2>1 DEF vdbVars, database
    <3> QED
      BY <2>1, <3>1, DatabaseRests
  <2> QED
    BY <2>1, VdbKeeps
<1> QED
  BY <1>1, <1>2, PTL DEF VdbSpec

(* ingest_offline fails closed: as long as no file is replaced between     *)
(* being verified and being loaded, no row is of an altered or a foreign   *)
(* bundle (ingest.py, vdb.py), with the console beside it or without.      *)
THEOREM FailsClosed ==
  (VdbSpec => []ImportFailsClosed) /\ (Spec => []ImportFailsClosed)
<1>1. VdbInv => ImportFailsClosed
  BY VdbInvMeans
<1>2. ConsoleInv => VdbInv
  BY DEF ConsoleInv
<1>3. VdbSpec => []ImportFailsClosed
  BY <1>1, VdbInductive, PTL
<1>4. Spec => []ImportFailsClosed
  BY <1>1, <1>2, ConsoleInductive, PTL
<1> QED
  BY <1>3, <1>4

(* Every row that says it is of a signed payload has the entry of a        *)
(* release and a date that release or its manifest gave, whatever else was *)
(* imported meanwhile; an import that returned alone left its release      *)
(* there whole, and the latest date is bounded by it.                      *)
THEOREM DatabaseIsReleased ==
  (VdbSpec => []DatabaseIsTrue) /\ (Spec => []DatabaseIsTrue)
<1>1. VdbInv => DatabaseIsTrue
  BY VdbInvMeans
<1>2. ConsoleInv => VdbInv
  BY DEF ConsoleInv
<1>3. VdbSpec => []DatabaseIsTrue
  BY <1>1, VdbInductive, PTL
<1>4. Spec => []DatabaseIsTrue
  BY <1>1, <1>2, ConsoleInductive, PTL
<1> QED
  BY <1>3, <1>4

(* A record scan.completed of scan_asset is written of a whole scan only:  *)
(* its count of findings is stored, all of them ticketed and told of or    *)
(* none.                                                                   *)
THEOREM CompletedIsWhole ==
  Spec => []CompletedScanIsWhole
<1>1. ConsoleInv => CompletedScanIsWhole
  BY DEF ConsoleInv
<1> QED
  BY <1>1, ConsoleInductive, PTL

(* open_ticket and record_risk_snapshot price findings the same, and the   *)
(* recorded totals never fall while the asset stays as it was registered.  *)
THEOREM TotalsAlwaysAgree ==
  Spec => []TotalsAgree
<1>1. ConsoleInv => TotalsAgree
  BY DEF ConsoleInv
<1> QED
  BY <1>1, ConsoleInductive, PTL

(* enrich() prices every stored finding by entries the database had while  *)
(* it was looking, whatever is imported between two lookups.               *)
THEOREM NumbersAreSeen ==
  Spec => NumbersAreOfTheDatabase
<1>1. ConsoleInv /\ [Next]_vars =>
        [\A f \in findings' \ findings : \E at \in [Cves -> scan.seen] :
           f = Enrich(Raw, [c \in Cves |-> at[c][c]])]_vars
  BY StoredAsSeen
<1> QED
  BY <1>1, ConsoleInductive, PTL DEF Spec, NumbersAreOfTheDatabase

=============================================================================
