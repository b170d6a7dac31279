------------------------------ MODULE Induction -------------------------------
(***************************************************************************)
(* Induction over the naturals and over finite sets, in the form that the  *)
(* proofs of the lessons use: the property is a set, and not an operator;  *)
(* and what it shows of sums over finite sets.                             *)
(***************************************************************************)
EXTENDS Integers, FiniteSetTheorems, WellFoundedInduction, TLAPS

LtNat == {ss \in Nat \X Nat : ss[1] < ss[2]}

\* The order of the naturals is well founded (library theorem, without its
\* operator parameter).
LEMMA LtNatWellFounded == IsWellFoundedOn(LtNat, Nat)
BY NatLessThanWellFounded, Zenon DEF OpToRel, LtNat

\* Induction over the naturals, for a property given as a set.
LEMMA SetInduction ==
  ASSUME NEW S, 0 \in S, \A n \in Nat : n \in S => n + 1 \in S
  PROVE  \A n \in Nat : n \in S
<1> DEFINE Missing == {n \in Nat : n \notin S}
<1>1. SUFFICES ASSUME Missing # {} PROVE FALSE
  OBVIOUS
<1>2. PICK m \in Missing : \A k \in Missing : ~ (<<k, m>> \in LtNat)
  <2>1. Missing \subseteq Nat
    OBVIOUS
  <2> HIDE DEF Missing
  <2> QED BY <1>1, <2>1, LtNatWellFounded, WFMin, Zenon
<1>3. m \in Nat /\ m # 0
  OBVIOUS
<1>4. m - 1 \in Missing
  BY <1>3
<1>5. <<m - 1, m>> \in LtNat
  BY <1>3 DEF LtNat
<1> QED BY <1>2, <1>4, <1>5

-----------------------------------------------------------------------------
(* Sums over finite sets, as MapThenSumSet of the community modules        *)
(* computes them: an element is chosen, and the rest is summed first.      *)

Chosen(s) == CHOOSE x \in s : TRUE

\* f has the sum of every set of T, where the subsets of a set of T are in T.
IsSum(f, weight, T) ==
  f = [s \in T |-> IF s = {} THEN 0 ELSE weight[Chosen(s)] + f[s \ {Chosen(s)}]]

\* f has the sum of every subset of S.
Sums(f, weight, S) ==
  \A s \in SUBSET S : f[s] = IF s = {} THEN 0 ELSE weight[Chosen(s)] + f[s \ {Chosen(s)}]

\* The sum of the weights of a finite set.
Total(weight, S) == (CHOOSE f : IsSum(f, weight, SUBSET S))[S]

\* A set without its chosen element has one element less.
LEMMA ChosenElement ==
  ASSUME NEW s, IsFiniteSet(s), s # {}
  PROVE  /\ Chosen(s) \in s
         /\ IsFiniteSet(s \ {Chosen(s)})
         /\ Cardinality(s) \in Nat /\ Cardinality(s \ {Chosen(s)}) = Cardinality(s) - 1
BY FS_RemoveElement, FS_CardinalityType DEF Chosen

\* The sums of all the subsets of a finite set exist.
LEMMA SumsExist ==
  ASSUME NEW weight, NEW S, IsFiniteSet(S)
  PROVE  \E f : IsSum(f, weight, SUBSET S)
<1> DEFINE Small(n) == {s \in SUBSET S : Cardinality(s) <= n}
           N == {n \in Nat : \E f : IsSum(f, weight, Small(n))}
<1>1. \A s \in SUBSET S : IsFiniteSet(s) /\ Cardinality(s) \in Nat /\ Cardinality(s) <= Cardinality(S)
  BY FS_Subset, FS_CardinalityType
<1>2. 0 \in N
  <2> DEFINE f == [s \in Small(0) |-> 0]
  <2>1. \A s \in Small(0) : s = {}
    BY <1>1, FS_EmptySet
  <2>2. IsSum(f, weight, Small(0))
    BY <2>1 DEF IsSum
  <2>3. \E h : IsSum(h, weight, Small(0))
    <3> HIDE DEF f, Small
    <3> QED BY <2>2, Zenon
  <2> HIDE DEF Small
  <2> QED BY <2>3
<1>3. ASSUME NEW n \in Nat, n \in N
      PROVE  n + 1 \in N
  <2>1. PICK f : IsSum(f, weight, Small(n))
    BY <1>3
  <2>2. \A s \in Small(n) : f[s] = IF s = {} THEN 0 ELSE weight[Chosen(s)] + f[s \ {Chosen(s)}]
    BY <2>1, Zenon DEF IsSum
  <2> DEFINE g == [s \in Small(n + 1) |->
                     IF s \in Small(n) THEN f[s] ELSE weight[Chosen(s)] + f[s \ {Chosen(s)}]]
  <2>3. ASSUME NEW s \in Small(n + 1), s # {}
        PROVE  s \ {Chosen(s)} \in Small(n)
    BY <1>1, <2>3, ChosenElement
  <2>4. ASSUME NEW s \in Small(n + 1)
        PROVE  g[s] = IF s = {} THEN 0 ELSE weight[Chosen(s)] + g[s \ {Chosen(s)}]
    <3>1. \A r \in Small(n) : r \in Small(n + 1) /\ g[r] = f[r]
      BY <1>1
    <3>2. s = {} => s \in Small(n)
      BY <1>1, FS_EmptySet
    <3>3. g[s] = IF s \in Small(n) THEN f[s] ELSE weight[Chosen(s)] + f[s \ {Chosen(s)}]
      OBVIOUS
    <3> HIDE DEF g, Small
    <3> QED BY <2>2, <2>3, <3>1, <3>2, <3>3
  <2>5. IsSum(g, weight, Small(n + 1))
    <3>1. g = [s \in Small(n + 1) |-> g[s]]
      OBVIOUS
    <3> HIDE DEF g, Small
    <3> QED BY <2>4, <3>1, Zenon DEF IsSum
  <2>6. \E h : IsSum(h, weight, Small(n + 1))
    <3> HIDE DEF g, Small
    <3> QED BY <2>5, Zenon
  <2>7. n + 1 \in Nat
    OBVIOUS
  <2> HIDE DEF Small
  <2> QED BY <2>6, <2>7, Zenon
<1>4. \A n \in Nat : n \in N
  <2> HIDE DEF N
  <2> QED BY <1>2, <1>3, SetInduction
<1>5. Small(Cardinality(S)) = SUBSET S
  BY <1>1
<1>6. Cardinality(S) \in Nat
  BY FS_CardinalityType
<1> QED BY <1>4, <1>5, <1>6

\* They are what their definition says.
LEMMA TotalIsSum ==
  ASSUME NEW weight, NEW S, IsFiniteSet(S)
  PROVE  \E f : Total(weight, S) = f[S] /\ Sums(f, weight, S)
<1>1. PICK f : /\ IsSum(f, weight, SUBSET S)
               /\ Total(weight, S) = f[S]
  BY SumsExist DEF Total
<1>2. Sums(f, weight, S)
  BY <1>1, Zenon DEF IsSum, Sums
<1> QED BY <1>1, <1>2

\* Induction over the subsets of a finite set.
LEMMA SubsetInduction ==
  ASSUME NEW S, IsFiniteSet(S), NEW P, {} \in P,
         \A s \in SUBSET S : s # {} /\ s \ {Chosen(s)} \in P => s \in P
  PROVE  \A s \in SUBSET S : s \in P
<1> DEFINE N == {n \in Nat : \A s \in SUBSET S : Cardinality(s) <= n => s \in P}
<1>1. \A s \in SUBSET S : IsFiniteSet(s) /\ Cardinality(s) \in Nat
  BY FS_Subset, FS_CardinalityType
<1>2. 0 \in N
  <2>1. \A s \in SUBSET S : Cardinality(s) <= 0 => s = {}
    BY <1>1, FS_EmptySet
  <2> QED BY <2>1
<1>3. ASSUME NEW n \in Nat, n \in N
      PROVE  n + 1 \in N
  <2>1. ASSUME NEW s \in SUBSET S, Cardinality(s) <= n + 1, s # {}
        PROVE  s \in P
    <3>1. s \ {Chosen(s)} \in SUBSET S /\ Cardinality(s \ {Chosen(s)}) <= n
      BY <1>1, <2>1, ChosenElement
    <3> QED BY <1>3, <2>1, <3>1
  <2>2. \A s \in SUBSET S : Cardinality(s) <= n + 1 => s \in P
    BY <2>1
  <2> QED BY <2>2
<1>4. \A n \in Nat : n \in N
  <2> HIDE DEF N
  <2> QED BY <1>2, <1>3, SetInduction
<1> QED BY <1>1, <1>4

\* Sums of equal weights are equal.
LEMMA SumsAgree ==
  ASSUME NEW S, IsFiniteSet(S), NEW f, NEW g, NEW v, NEW w, \A x \in S : v[x] = w[x],
         Sums(f, v, S),
         Sums(g, w, S)
  PROVE  \A s \in SUBSET S : f[s] = g[s]
<1> DEFINE P == {s \in SUBSET S : f[s] = g[s]}
<1>1. {} \in P
  BY DEF Sums
<1>2. ASSUME NEW s \in SUBSET S, s # {}, s \ {Chosen(s)} \in P
      PROVE  s \in P
  <2>1. Chosen(s) \in S
    BY <1>2 DEF Chosen
  <2> QED BY <1>2, <2>1 DEF Sums
<1>3. \A s \in SUBSET S : s \in P
  <2> HIDE DEF P
  <2> QED BY <1>1, <1>2, SubsetInduction
<1> QED BY <1>3

LEMMA TotalSameWeights ==
  ASSUME NEW S, IsFiniteSet(S), NEW v, NEW w, \A x \in S : v[x] = w[x]
  PROVE  Total(v, S) = Total(w, S)
<1>1. PICK f : Total(v, S) = f[S] /\ Sums(f, v, S)
  BY TotalIsSum
<1>2. PICK g : Total(w, S) = g[S] /\ Sums(g, w, S)
  BY TotalIsSum
<1>3. \A s \in SUBSET S : f[s] = g[s]
  BY <1>1, <1>2, SumsAgree
<1> QED BY <1>1, <1>2, <1>3

LEMMA TotalEmpty ==
  ASSUME NEW w
  PROVE  Total(w, {}) = 0
<1>1. PICK f : Total(w, {}) = f[{}] /\ Sums(f, w, {})
  BY TotalIsSum, FS_EmptySet
<1> QED BY <1>1 DEF Sums

LEMMA TotalChosen ==
  ASSUME NEW S, IsFiniteSet(S), S # {}, NEW w
  PROVE  Total(w, S) = w[Chosen(S)] + Total(w, S \ {Chosen(S)})
<1> DEFINE R == S \ {Chosen(S)}
<1>a. IsFiniteSet(R) /\ SUBSET R \subseteq SUBSET S
  BY FS_RemoveElement
<1>1. PICK f : Total(w, S) = f[S] /\ Sums(f, w, S)
  BY TotalIsSum
<1>2. PICK g : Total(w, R) = g[R] /\ Sums(g, w, R)
  BY <1>a, TotalIsSum
<1>3. f[R] = g[R]
  <2>1. Sums(f, w, R)
    BY <1>1, <1>a DEF Sums
  <2> HIDE DEF R
  <2> QED BY <1>2, <1>a, <2>1, SumsAgree
<1>4. f[S] = w[Chosen(S)] + f[R]
  BY <1>1 DEF Sums
<1> QED BY <1>1, <1>2, <1>3, <1>4

\* The sum of integers is an integer.
LEMMA TotalType ==
  ASSUME NEW S, IsFiniteSet(S), NEW w, \A x \in S : w[x] \in Int
  PROVE  Total(w, S) \in Int
<1> DEFINE P == {s \in SUBSET S : Total(w, s) \in Int}
<1>1. {} \in P
  BY TotalEmpty
<1>2. ASSUME NEW s \in SUBSET S, s # {}, s \ {Chosen(s)} \in P
      PROVE  s \in P
  <2>1. Chosen(s) \in S /\ IsFiniteSet(s)
    BY <1>2, FS_Subset DEF Chosen
  <2>2. Total(w, s) = w[Chosen(s)] + Total(w, s \ {Chosen(s)})
    BY <1>2, <2>1, TotalChosen
  <2> QED BY <1>2, <2>1, <2>2
<1>3. \A s \in SUBSET S : s \in P
  <2> HIDE DEF P
  <2> QED BY <1>1, <1>2, SubsetInduction
<1> QED BY <1>3

\* Any element may be summed first: the choice does not matter.
LEMMA TotalAnyElement ==
  ASSUME NEW S, IsFiniteSet(S), NEW w, \A x \in S : w[x] \in Int
  PROVE  \A x \in S : Total(w, S) = w[x] + Total(w, S \ {x})
<1> DEFINE P == {s \in SUBSET S : \A x \in s : Total(w, s) = w[x] + Total(w, s \ {x})}
           N == {n \in Nat : \A s \in SUBSET S : Cardinality(s) <= n => s \in P}
<1>1. \A s \in SUBSET S : IsFiniteSet(s) /\ Cardinality(s) \in Nat /\ Total(w, s) \in Int
  BY FS_Subset, FS_CardinalityType, TotalType
<1>2. 0 \in N
  BY <1>1, FS_EmptySet
<1>3. ASSUME NEW n \in Nat, n \in N
      PROVE  n + 1 \in N
  <2>1. SUFFICES ASSUME NEW s \in SUBSET S, Cardinality(s) <= n + 1, NEW x \in s
                 PROVE  Total(w, s) = w[x] + Total(w, s \ {x})
    OBVIOUS
  <2> DEFINE y == Chosen(s)
  <2>2. y \in s
    BY DEF Chosen
  <2>3. Total(w, s) = w[y] + Total(w, s \ {y})
    BY <1>1, <2>1, TotalChosen
  <2>4. \A z \in s : s \ {z} \in SUBSET S /\ Cardinality(s \ {z}) <= n
    BY <1>1, <2>1, FS_RemoveElement
  <2>5. \A z \in s : s \ {z} \in P
    BY <1>3, <2>4
  <2> HIDE DEF y
  <2>6. CASE x # y
    <3>1. Total(w, s \ {y}) = w[x] + Total(w, (s \ {y}) \ {x})
      BY <2>2, <2>5, <2>6
    <3>2. Total(w, s \ {x}) = w[y] + Total(w, (s \ {x}) \ {y})
      BY <2>2, <2>5, <2>6
    <3>3. (s \ {y}) \ {x} = (s \ {x}) \ {y}
      OBVIOUS
    <3>4. PICK rest \in Int, v \in Int, u \in Int :
            rest = Total(w, (s \ {x}) \ {y}) /\ v = w[x] /\ u = w[y]
      BY <1>1, <2>2
    <3>5. Total(w, s) = u + (v + rest) /\ Total(w, s \ {x}) = u + rest
      BY <2>3, <3>1, <3>2, <3>3, <3>4
    <3>6. u + (v + rest) = v + (u + rest)
      BY <3>4
    <3> QED BY <3>4, <3>5, <3>6
  <2> QED BY <2>3, <2>6
<1>4. \A n \in Nat : n \in N
  <2> HIDE DEF N
  <2> QED BY <1>2, <1>3, SetInduction
<1>5. S \in P
  BY <1>1, <1>4
<1> QED BY <1>5

\* A new element adds its weight.
LEMMA TotalAdds ==
  ASSUME NEW S, IsFiniteSet(S), NEW w, NEW x, x \notin S, \A y \in S \cup {x} : w[y] \in Int
  PROVE  Total(w, S \cup {x}) = Total(w, S) + w[x]
<1>1. IsFiniteSet(S \cup {x}) /\ (S \cup {x}) \ {x} = S
  BY FS_AddElement
<1>2. Total(w, S \cup {x}) = w[x] + Total(w, S)
  BY <1>1, TotalAnyElement
<1>3. Total(w, S) \in Int /\ w[x] \in Int
  BY TotalType
<1> QED BY <1>2, <1>3
==============================================================================
