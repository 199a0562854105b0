--------------------------------- MODULE Sums ---------------------------------
(***************************************************************************)
(* Facts about sums over finite sets, for the proofs about modules that    *)
(* add with the folds of the community modules.  Such a fold chooses the   *)
(* elements in an order of its own; the sum does not depend on it.         *)
(*                                                                         *)
(* Induction is by sets: what holds of every value is a set of them, and   *)
(* the least number or the smallest set outside of it is contradictory.    *)
(***************************************************************************)
EXTENDS Integers, FiniteSetTheorems, WellFoundedInduction, TLAPS

LEMMA LeastNatural ==
  ASSUME NEW S, S \subseteq Nat, S # {}
  PROVE  \E m \in S : \A n \in S : m <= n
<1> DEFINE less == {ss \in Nat \X Nat : ss[1] < ss[2]}
<1>1. IsWellFoundedOn(less, Nat)
  BY NatLessThanWellFounded DEF OpToRel
<1>2. PICK m \in S : \A n \in S : <<n, m>> \notin less
  BY <1>1, WFMin
<1>3. \A n \in S : ~(n < m)
  BY <1>2
<1> QED
  BY <1>3

LEMMA NaturalsOf ==
  ASSUME NEW G, 0 \in G, \A n \in Nat : n \in G => n + 1 \in G
  PROVE  Nat \subseteq G
<1> SUFFICES ASSUME Nat \ G # {} PROVE FALSE
  OBVIOUS
<1>1. PICK m \in Nat \ G : \A n \in Nat \ G : m <= n
  BY LeastNatural
<1>2. m - 1 \in Nat /\ m - 1 \in G /\ (m - 1) + 1 = m
  BY <1>1
<1> QED
  BY <1>1, <1>2

LEMMA SubsetsOf ==
  ASSUME NEW S, IsFiniteSet(S), NEW G, {} \in G,
         \A T \in SUBSET S : T # {} /\ (\A x \in T : T \ {x} \in G) => T \in G
  PROVE  SUBSET S \subseteq G
<1> DEFINE bad   == (SUBSET S) \ G
           sizes == {Cardinality(T) : T \in bad}
<1> SUFFICES ASSUME bad # {} PROVE FALSE
  OBVIOUS
<1>1. \A T \in SUBSET S : IsFiniteSet(T) /\ Cardinality(T) \in Nat
  BY FS_Subset, FS_CardinalityType
<1>2. sizes \subseteq Nat /\ sizes # {}
  BY <1>1
<1>3. PICK m \in sizes : \A n \in sizes : m <= n
  BY <1>2, LeastNatural
<1>4. PICK T \in bad : Cardinality(T) = m
  BY <1>3
<1>5. ASSUME NEW x \in T PROVE T \ {x} \in G
  <2>1. Cardinality(T \ {x}) = Cardinality(T) - 1 /\ T \ {x} \in SUBSET S
    BY <1>1, FS_RemoveElement
  <2>2. Cardinality(T \ {x}) \notin sizes
    BY <1>1, <1>3, <1>4, <2>1
  <2> QED
    BY <2>1, <2>2
<1> QED
  BY <1>4, <1>5

LEMMA GreatestNatural ==
  ASSUME NEW S, S \subseteq Nat, IsFiniteSet(S), S # {}
  PROVE  \E m \in S : \A n \in S : n <= m
<1> DEFINE G == {T \in SUBSET S : T # {} => \E m \in T : \A n \in T : n <= m}
<1>1. {} \in G
  OBVIOUS
<1>2. ASSUME NEW T \in SUBSET S, T # {}, \A x \in T : T \ {x} \in G
      PROVE  T \in G
  <2>1. PICK x \in T : TRUE
    BY <1>2
  <2>2. CASE T \ {x} = {}
    <3>1. T = {x}
      BY <2>1, <2>2
    <3> QED
      BY <3>1
  <2>3. CASE T \ {x} # {}
    <3>1. PICK m \in T \ {x} : \A n \in T \ {x} : n <= m
      BY <1>2, <2>1, <2>3
    <3>2. m \in Nat /\ x \in Nat
      BY <2>1, <3>1
    <3>3. CASE x <= m
      BY <3>1, <3>3
    <3>4. CASE m <= x
      <4>1. \A n \in T : n <= x
        BY <3>1, <3>2, <3>4
      <4> QED
        BY <2>1, <4>1
    <3> QED
      BY <3>2, <3>3, <3>4
  <2> QED
    BY <2>2, <2>3
<1> HIDE DEF G
<1>3. SUBSET S \subseteq G
  BY <1>1, <1>2, SubsetsOf
<1>4. S \in G
  BY <1>3
<1> QED
  BY <1>4 DEF G

-----------------------------------------------------------------------------
(* Folds.                                                                  *)

(* A fold starts with base, and takes its elements in the order in which   *)
(* pick gives them.                                                        *)
FoldStep(base, next, pick, g, s) ==
  IF s = {} THEN base ELSE next[<<pick[s], g[s \ {pick[s]}]>>]

IsFoldOf(g, base, next, pick, S) == g = [s \in SUBSET S |-> FoldStep(base, next, pick, g, s)]

FoldsUpTo(n, S, base, next, pick, g) ==
  /\ g = [s \in SUBSET S |-> g[s]]
  /\ \A s \in SUBSET S : Cardinality(s) <= n => g[s] = FoldStep(base, next, pick, g, s)

(* A fold is well defined. *)
LEMMA FoldExists ==
  ASSUME NEW S, IsFiniteSet(S), NEW base, NEW next, NEW pick,
         \A s \in SUBSET S : s # {} => pick[s] \in s
  PROVE  \E g : IsFoldOf(g, base, next, pick, S)
<1> DEFINE G == {n \in Nat : \E g : FoldsUpTo(n, S, base, next, pick, g)}
<1>1. \A s \in SUBSET S : IsFiniteSet(s) /\ Cardinality(s) \in Nat
                          /\ (Cardinality(s) = 0 <=> s = {})
  BY FS_Subset, FS_CardinalityType, FS_EmptySet
<1>2. 0 \in G
  <2>1. PICK g : g = [s \in SUBSET S |-> base]
    OBVIOUS
  <2>2. \A s \in SUBSET S : Cardinality(s) <= 0 => s = {}
    BY <1>1
  <2>3. FoldsUpTo(0, S, base, next, pick, g)
    BY <2>1, <2>2 DEF FoldsUpTo, FoldStep
  <2> QED
    BY <2>3
<1>3. ASSUME NEW n \in Nat, n \in G PROVE n + 1 \in G
  <2>1. PICK g : FoldsUpTo(n, S, base, next, pick, g)
    BY <1>3
  <2>2. PICK h : h = [s \in SUBSET S |-> FoldStep(base, next, pick, g, s)]
    OBVIOUS
  <2>3. \A s \in SUBSET S : Cardinality(s) <= n => h[s] = g[s]
    BY <2>1, <2>2 DEF FoldsUpTo
  <2>4. ASSUME NEW s \in SUBSET S, Cardinality(s) <= n + 1, s # {}
        PROVE  h[s \ {pick[s]}] = g[s \ {pick[s]}]
    <3>1. pick[s] \in s /\ s \ {pick[s]} \in SUBSET S
      BY <2>4
    <3>2. Cardinality(s \ {pick[s]}) = Cardinality(s) - 1
      BY <1>1, <3>1, FS_RemoveElement
    <3>3. Cardinality(s \ {pick[s]}) <= n
      BY <1>1, <2>4, <3>2
    <3> QED
      BY <3>1, <3>3, <2>3
  <2>5. ASSUME NEW s \in SUBSET S, Cardinality(s) <= n + 1
        PROVE  h[s] = FoldStep(base, next, pick, h, s)
    BY <2>2, <2>4, <2>5 DEF FoldStep
  <2>6. FoldsUpTo(n + 1, S, base, next, pick, h)
    BY <2>2, <2>5 DEF FoldsUpTo
  <2> QED
    BY <2>6
<1> HIDE DEF G
<1>4. Nat \subseteq G
  BY <1>2, <1>3, NaturalsOf
<1>5. Cardinality(S) \in G /\ \A s \in SUBSET S : Cardinality(s) <= Cardinality(S)
  BY <1>1, <1>4, FS_Subset
<1>6. PICK g : FoldsUpTo(Cardinality(S), S, base, next, pick, g)
  BY <1>5 DEF G
<1>7. IsFoldOf(g, base, next, pick, S)
  BY <1>5, <1>6 DEF FoldsUpTo, IsFoldOf
<1> QED
  BY <1>7

-----------------------------------------------------------------------------
(* Sums.                                                                   *)

(* The values of f are added in the order in which pick takes them. *)
AddPicked(f, pick, g, s) == IF s = {} THEN 0 ELSE g[s \ {pick[s]}] + f[pick[s]]

IsFold(g, f, pick, S) == g = [s \in SUBSET S |-> AddPicked(f, pick, g, s)]

LEMMA SumFoldExists ==
  ASSUME NEW S, IsFiniteSet(S), NEW f, \A x \in S : f[x] \in Nat, NEW pick,
         \A s \in SUBSET S : s # {} => pick[s] \in s
  PROVE  \E g : IsFold(g, f, pick, S)
<1>1. PICK next : next = [pair \in S \X Nat |-> pair[2] + f[pair[1]]]
  OBVIOUS
<1>2. \A x \in S : \A v \in Nat : next[<<x, v>>] = v + f[x]
  BY <1>1
<1>3. PICK g : IsFoldOf(g, 0, next, pick, S)
  <2>1. PICK base : base = 0
    OBVIOUS
  <2>2. PICK g : IsFoldOf(g, base, next, pick, S)
    BY FoldExists
  <2> QED
    BY <2>1, <2>2
<1>4. g = [s \in SUBSET S |-> g[s]] /\ \A s \in SUBSET S : g[s] = FoldStep(0, next, pick, g, s)
  BY <1>3 DEF IsFoldOf
<1> DEFINE G == {s \in SUBSET S : g[s] \in Nat}
<1>5. g[{}] = 0 /\ {} \in G
  <2>1. g[{}] = FoldStep(0, next, pick, g, {})
    BY <1>4
  <2>2. FoldStep(0, next, pick, g, {}) = 0
    BY DEF FoldStep
  <2> QED
    BY <2>1, <2>2
<1>6. ASSUME NEW T \in SUBSET S, T # {}, \A x \in T : T \ {x} \in G
      PROVE  T \in G
  <2>1. pick[T] \in T /\ g[T] = next[<<pick[T], g[T \ {pick[T]}]>>]
    BY <1>4, <1>6 DEF FoldStep
  <2>2. g[T \ {pick[T]}] \in Nat /\ f[pick[T]] \in Nat
    BY <1>6, <2>1
  <2>3. g[T] = g[T \ {pick[T]}] + f[pick[T]]
    BY <1>2, <2>1, <2>2
  <2> QED
    BY <2>2, <2>3
<1>7. SUBSET S \subseteq G
  <2> HIDE DEF G
  <2> QED
    BY <1>5, <1>6, SubsetsOf
<1>8. ASSUME NEW s \in SUBSET S PROVE g[s] = AddPicked(f, pick, g, s)
  <2>1. CASE s = {}
    BY <1>5, <2>1 DEF AddPicked
  <2>2. CASE s # {}
    <3>1. pick[s] \in s /\ pick[s] \in S /\ g[s \ {pick[s]}] \in Nat
      BY <1>7, <2>2
    <3>2. g[s] = next[<<pick[s], g[s \ {pick[s]}]>>]
      BY <1>4, <2>2 DEF FoldStep
    <3>3. g[s] = g[s \ {pick[s]}] + f[pick[s]]
      BY <1>2, <3>1, <3>2
    <3> QED
      BY <2>2, <3>3 DEF AddPicked
  <2> QED
    BY <2>1, <2>2
<1>9. IsFold(g, f, pick, S)
  BY <1>4, <1>8 DEF IsFold
<1> QED
  BY <1>9

(* g gives the sum of f over each subset of S. *)
IsSum(g, f, S) ==
  /\ \A T \in SUBSET S : g[T] \in Nat
  /\ g[{}] = 0
  /\ \A T \in SUBSET S : \A x \in T : g[T] = f[x] + g[T \ {x}]

(* The order in which a fold adds does not matter. *)
LEMMA FoldIsSum ==
  ASSUME NEW S, IsFiniteSet(S), NEW f, \A x \in S : f[x] \in Nat, NEW pick,
         \A s \in SUBSET S : s # {} => pick[s] \in s,
         NEW g, IsFold(g, f, pick, S)
  PROVE  IsSum(g, f, S)
<1> DEFINE G == {T \in SUBSET S : g[T] \in Nat}
           H == {T \in SUBSET S : \A x \in T : g[T] = f[x] + g[T \ {x}]}
<1>1. \A T \in SUBSET S : g[T] = AddPicked(f, pick, g, T)
  BY DEF IsFold
<1>2. g[{}] = 0
  BY <1>1 DEF AddPicked
<1>3. \A T \in SUBSET S : T # {} =>
        pick[T] \in T /\ g[T] = g[T \ {pick[T]}] + f[pick[T]]
  BY <1>1 DEF AddPicked
<1>4. SUBSET S \subseteq G
  <2>1. {} \in G
    BY <1>2
  <2>2. ASSUME NEW T \in SUBSET S, T # {}, \A x \in T : T \ {x} \in G
        PROVE  T \in G
    <3>1. pick[T] \in T /\ g[T] = g[T \ {pick[T]}] + f[pick[T]]
      BY <1>3, <2>2
    <3>2. g[T \ {pick[T]}] \in Nat /\ f[pick[T]] \in Nat
      BY <2>2, <3>1
    <3> QED
      BY <3>1, <3>2
  <2> HIDE DEF G
  <2> QED
    BY <2>1, <2>2, SubsetsOf
<1>5. SUBSET S \subseteq H
  <2>1. {} \in H
    OBVIOUS
  <2>2. ASSUME NEW T \in SUBSET S, T # {}, \A x \in T : T \ {x} \in H
        PROVE  T \in H
    <3>1. PICK p \in T : g[T] = f[p] + g[T \ {p}]
      <4>1. pick[T] \in T /\ g[T] = g[T \ {pick[T]}] + f[pick[T]]
        BY <1>3, <2>2
      <4>2. g[T \ {pick[T]}] \in Nat /\ f[pick[T]] \in Nat
        BY <1>4, <4>1
      <4>3. PICK p : p = pick[T]
        OBVIOUS
      <4>4. p \in T /\ g[T] = f[p] + g[T \ {p}]
        BY <4>1, <4>2, <4>3
      <4> QED
        BY <4>4
    <3>2. ASSUME NEW x \in T, x # p PROVE g[T] = f[x] + g[T \ {x}]
      <4>1. PICK U : U = T \ {p, x}
        OBVIOUS
      <4>2. (T \ {p}) \ {x} = U /\ (T \ {x}) \ {p} = U /\ U \in SUBSET S
        BY <4>1
      <4>3. g[T \ {p}] = f[x] + g[U]
        BY <2>2, <3>2, <4>2
      <4>4. g[T \ {x}] = f[p] + g[U]
        BY <2>2, <3>2, <4>2
      <4>5. g[U] \in Nat /\ f[x] \in Nat /\ f[p] \in Nat
        BY <1>4, <4>2
      <4> QED
        BY <3>1, <4>3, <4>4, <4>5
    <3> QED
      BY <3>1, <3>2
  <2> HIDE DEF H
  <2> QED
    BY <2>1, <2>2, SubsetsOf
<1> QED
  BY <1>2, <1>4, <1>5 DEF IsSum

LEMMA SumExists ==
  ASSUME NEW S, IsFiniteSet(S), NEW f, \A x \in S : f[x] \in Nat
  PROVE  \E g : IsSum(g, f, S)
<1>1. PICK pick : pick = [s \in SUBSET S |-> CHOOSE x \in s : TRUE]
  OBVIOUS
<1>2. \A s \in SUBSET S : s # {} => pick[s] \in s
  BY <1>1
<1>3. PICK g : IsFold(g, f, pick, S)
  BY <1>2, SumFoldExists
<1> QED
  BY <1>2, <1>3, FoldIsSum

(* Sums of the same values are the same. *)
LEMMA SumsAgree ==
  ASSUME NEW S, IsFiniteSet(S), NEW f, NEW h, \A x \in S : f[x] = h[x],
         NEW g, IsSum(g, f, S), NEW k, IsSum(k, h, S)
  PROVE  g[S] = k[S]
<1> DEFINE G == {T \in SUBSET S : g[T] = k[T]}
<1>1. {} \in G
  BY DEF IsSum
<1>2. ASSUME NEW T \in SUBSET S, T # {}, \A x \in T : T \ {x} \in G
      PROVE  T \in G
  <2>1. PICK x \in T : g[T] = f[x] + g[T \ {x}] /\ k[T] = h[x] + k[T \ {x}]
    BY <1>2 DEF IsSum
  <2> QED
    BY <1>2, <2>1
<1> HIDE DEF G
<1>3. S \in G
  BY <1>1, <1>2, SubsetsOf
<1> QED
  BY <1>3 DEF G

(* The sum of f over S. *)
Total(f, S) == (CHOOSE g : IsSum(g, f, S))[S]

LEMMA TotalIsSum ==
  ASSUME NEW S, IsFiniteSet(S), NEW f, NEW g, IsSum(g, f, S)
  PROVE  Total(f, S) = g[S]
<1>1. PICK k : k = CHOOSE h : IsSum(h, f, S)
  OBVIOUS
<1>2. IsSum(k, f, S)
  BY <1>1
<1>3. k[S] = g[S]
  BY <1>2, SumsAgree
<1> QED
  BY <1>1, <1>3 DEF Total

LEMMA TotalStep ==
  ASSUME NEW S, IsFiniteSet(S), NEW f, \A x \in S : f[x] \in Nat
  PROVE  /\ Total(f, S) \in Nat
         /\ S = {} => Total(f, S) = 0
         /\ \A x \in S : Total(f, S) = f[x] + Total(f, S \ {x})
<1>1. PICK g : IsSum(g, f, S)
  BY SumExists
<1>2. ASSUME NEW T \in SUBSET S PROVE Total(f, T) = g[T]
  <2>1. IsSum(g, f, T)
    BY <1>1 DEF IsSum
  <2>2. IsFiniteSet(T)
    BY FS_Subset
  <2> QED
    BY <2>1, <2>2, TotalIsSum
<1>3. \A x \in S : Total(f, S \ {x}) = g[S \ {x}]
  BY <1>2
<1>4. Total(f, S) = g[S]
  BY <1>2
<1>5. /\ g[S] \in Nat /\ g[{}] = 0
      /\ \A x \in S : g[S] = f[x] + g[S \ {x}]
  BY <1>1 DEF IsSum
<1> QED
  BY <1>3, <1>4, <1>5

(* More addends do not make a sum smaller. *)
LEMMA TotalGrows ==
  ASSUME NEW R, IsFiniteSet(R), NEW S \in SUBSET R, NEW f, NEW h,
         \A x \in R : h[x] \in Nat, \A x \in S : f[x] = h[x]
  PROVE  Total(f, S) <= Total(h, R)
<1> DEFINE G == {T \in SUBSET R : Total(f, T \cap S) <= Total(h, T)}
<1>1. ASSUME NEW T \in SUBSET R
      PROVE  /\ Total(f, T \cap S) \in Nat /\ Total(h, T) \in Nat
             /\ T = {} => Total(h, T) = 0 /\ Total(f, T \cap S) = 0
             /\ \A x \in T : Total(h, T) = h[x] + Total(h, T \ {x})
             /\ \A x \in T \cap S :
                  Total(f, T \cap S) = h[x] + Total(f, (T \cap S) \ {x})
  <2>1. IsFiniteSet(T) /\ IsFiniteSet(T \cap S)
    BY FS_Subset
  <2>2. /\ Total(f, T \cap S) \in Nat
        /\ T \cap S = {} => Total(f, T \cap S) = 0
        /\ \A x \in T \cap S : Total(f, T \cap S) = f[x] + Total(f, (T \cap S) \ {x})
    <3>1. \A x \in T \cap S : f[x] \in Nat
      OBVIOUS
    <3>2. PICK U : U = T \cap S
      OBVIOUS
    <3>3. /\ Total(f, U) \in Nat
          /\ U = {} => Total(f, U) = 0
          /\ \A x \in U : Total(f, U) = f[x] + Total(f, U \ {x})
      BY <2>1, <3>1, <3>2, TotalStep
    <3> QED
      BY <3>2, <3>3
  <2>3. /\ Total(h, T) \in Nat
        /\ T = {} => Total(h, T) = 0
        /\ \A x \in T : Total(h, T) = h[x] + Total(h, T \ {x})
    BY <2>1, TotalStep
  <2> QED
    BY <2>2, <2>3
<1>2. {} \in G
  BY <1>1
<1>3. ASSUME NEW T \in SUBSET R, T # {}, \A x \in T : T \ {x} \in G
      PROVE  T \in G
  <2>1. PICK x \in T : TRUE
    BY <1>3
  <2>2. T \ {x} \in SUBSET R /\ (T \ {x}) \cap S = (T \cap S) \ {x}
    OBVIOUS
  <2>3. Total(f, (T \ {x}) \cap S) <= Total(h, T \ {x})
    BY <1>3
  <2>4. Total(f, (T \cap S) \ {x}) <= Total(h, T \ {x})
    BY <2>2, <2>3
  <2>5. /\ Total(f, (T \cap S) \ {x}) \in Nat /\ Total(h, T \ {x}) \in Nat
        /\ h[x] \in Nat /\ Total(h, T) = h[x] + Total(h, T \ {x})
    BY <1>1, <2>2
  <2>6. CASE x \in S
    BY <1>1, <2>4, <2>5, <2>6
  <2>7. CASE x \notin S
    <3>1. (T \cap S) \ {x} = T \cap S
      BY <2>7
    <3> QED
      BY <1>1, <2>4, <2>5, <3>1
  <2> QED
    BY <2>6, <2>7
<1> HIDE DEF G
<1>4. R \in G
  BY <1>2, <1>3, SubsetsOf
<1>5. R \cap S = S
  OBVIOUS
<1> QED
  BY <1>4, <1>5 DEF G

(* Totals of a values and b are the total of k times a and b. *)
LEMMA TotalLinear ==
  ASSUME NEW S, IsFiniteSet(S), NEW k \in Nat, NEW a, NEW b, NEW f,
         \A x \in S : a[x] \in Nat /\ b[x] \in Nat /\ f[x] = k * a[x] + b[x]
  PROVE  Total(f, S) = k * Total(a, S) + Total(b, S)
<1> DEFINE G == {T \in SUBSET S : Total(f, T) = k * Total(a, T) + Total(b, T)}
<1>1. \A i, j \in Nat : i * j \in Nat /\ k * (i + j) = k * i + k * j
  OBVIOUS
<1>2. \A x \in S : f[x] \in Nat
  BY <1>1
<1>3. ASSUME NEW T \in SUBSET S
      PROVE  /\ Total(a, T) \in Nat /\ Total(b, T) \in Nat /\ Total(f, T) \in Nat
             /\ T = {} => Total(a, T) = 0 /\ Total(b, T) = 0 /\ Total(f, T) = 0
             /\ \A x \in T : /\ Total(a, T) = a[x] + Total(a, T \ {x})
                             /\ Total(b, T) = b[x] + Total(b, T \ {x})
                             /\ Total(f, T) = f[x] + Total(f, T \ {x})
  <2>1. IsFiniteSet(T)
    BY FS_Subset
  <2> QED
    BY <1>2, <2>1, TotalStep
<1>4. {} \in G
  BY <1>3
<1>5. ASSUME NEW T \in SUBSET S, T # {}, \A x \in T : T \ {x} \in G
      PROVE  T \in G
  <2>1. PICK x \in T : TRUE
    BY <1>5
  <2>2. PICK i, j : i = Total(a, T \ {x}) /\ j = Total(b, T \ {x})
    OBVIOUS
  <2>3. Total(f, T \ {x}) = k * i + j
    BY <1>5, <2>2
  <2>4. i \in Nat /\ j \in Nat /\ a[x] \in Nat /\ b[x] \in Nat
    BY <1>3, <2>2
  <2>5. /\ Total(a, T) = a[x] + i /\ Total(b, T) = b[x] + j
        /\ Total(f, T) = (k * a[x] + b[x]) + (k * i + j)
    BY <1>3, <2>2, <2>3
  <2>6. k * (a[x] + i) = k * a[x] + k * i /\ k * a[x] \in Nat /\ k * i \in Nat
    BY <1>1, <2>4
  <2>7. Total(f, T) = k * Total(a, T) + Total(b, T)
    BY <2>4, <2>5, <2>6
  <2> QED
    BY <2>7
<1> HIDE DEF G
<1>6. S \in G
  BY <1>4, <1>5, SubsetsOf
<1> QED
  BY <1>6 DEF G

(* A total does not depend on what its addends are called. *)
LEMMA TotalRenamed ==
  ASSUME NEW D, IsFiniteSet(D), NEW s, \A i, j \in D : s[i] = s[j] => i = j,
         NEW S, S = {s[i] : i \in D}, NEW w, \A x \in S : w[x] \in Nat,
         NEW f, \A i \in D : f[i] = w[s[i]]
  PROVE  Total(f, D) = Total(w, S)
<1> DEFINE Of(T) == {s[i] : i \in T}
           G == {T \in SUBSET D : IsFiniteSet(Of(T)) /\ Total(f, T) = Total(w, Of(T))}
<1>1. {} \in G
  <2>1. Of({}) = {} /\ IsFiniteSet({})
    BY FS_EmptySet
  <2>2. Total(f, {}) = 0 /\ Total(w, {}) = 0
    BY <2>1, TotalStep
  <2> QED
    BY <2>1, <2>2
<1>2. ASSUME NEW T \in SUBSET D, T # {}, \A i \in T : T \ {i} \in G
      PROVE  T \in G
  <2>1. PICK i \in T : TRUE
    BY <1>2
  <2>2. PICK R : R = Of(T \ {i})
    OBVIOUS
  <2>3. Of(T) = R \cup {s[i]} /\ s[i] \notin R
    BY <2>1, <2>2
  <2>4. IsFiniteSet(R) /\ Total(f, T \ {i}) = Total(w, R)
    BY <1>2, <2>2
  <2>5. IsFiniteSet(Of(T)) /\ IsFiniteSet(T)
    BY <2>3, <2>4, FS_AddElement, FS_Subset
  <2>6. Of(T) \subseteq S /\ Of(T) \ {s[i]} = R /\ s[i] \in Of(T)
    BY <2>3
  <2>7. Total(w, Of(T)) = w[s[i]] + Total(w, R)
    <3>1. PICK U : U = Of(T)
      OBVIOUS
    <3>2. IsFiniteSet(U) /\ (\A x \in U : w[x] \in Nat) /\ s[i] \in U /\ U \ {s[i]} = R
      BY <2>5, <2>6, <3>1
    <3>3. Total(w, U) = w[s[i]] + Total(w, U \ {s[i]})
      BY <3>2, TotalStep
    <3> QED
      BY <3>1, <3>2, <3>3
  <2>8. Total(f, T) = f[i] + Total(f, T \ {i})
    <3>1. \A j \in T : f[j] \in Nat
      OBVIOUS
    <3> QED
      BY <2>5, <3>1, TotalStep
  <2>9. Total(f, T) = Total(w, Of(T))
    BY <2>4, <2>7, <2>8
  <2> QED
    BY <2>5, <2>9
<1> HIDE DEF G
<1>3. D \in G
  BY <1>1, <1>2, SubsetsOf
<1> QED
  BY <1>3 DEF G

-----------------------------------------------------------------------------
(* Bounds.                                                                 *)

LEMMA Products ==
  ASSUME NEW d \in Nat, NEW i \in Nat, NEW j \in Nat, i <= j
  PROVE  d * i <= d * j /\ d * i \in Nat /\ d * j \in Nat
<1>1. PICK k \in Nat : j = i + k
  <2>1. j - i \in Nat /\ j = i + (j - i)
    OBVIOUS
  <2> QED
    BY <2>1
<1>2. d * j = d * i + d * k
  BY <1>1
<1>3. d * i \in Nat /\ d * k \in Nat
  OBVIOUS
<1> QED
  BY <1>2, <1>3

LEMMA Factors ==
  ASSUME NEW d \in Nat \ {0}, NEW i \in Nat, NEW j \in Nat, d * i < d * (j + 1)
  PROVE  i <= j
<1>1. SUFFICES ASSUME j + 1 <= i PROVE FALSE
  OBVIOUS
<1>2. d * (j + 1) <= d * i /\ d * (j + 1) \in Nat /\ d * i \in Nat
  BY <1>1, Products
<1> QED
  BY <1>2

(* Addends between two numbers. *)
LEMMA TotalBetween ==
  ASSUME NEW S, IsFiniteSet(S), NEW f, NEW lo \in Nat, NEW hi \in Nat,
         \A x \in S : f[x] \in Nat /\ lo <= f[x] /\ f[x] <= hi
  PROVE  lo * Cardinality(S) <= Total(f, S) /\ Total(f, S) <= hi * Cardinality(S)
<1> DEFINE G == {T \in SUBSET S : /\ lo * Cardinality(T) <= Total(f, T)
                                  /\ Total(f, T) <= hi * Cardinality(T)}
<1>1. ASSUME NEW T \in SUBSET S
      PROVE  /\ Total(f, T) \in Nat /\ Cardinality(T) \in Nat
             /\ T = {} => Total(f, T) = 0 /\ Cardinality(T) = 0
             /\ \A x \in T : /\ Total(f, T) = f[x] + Total(f, T \ {x})
                             /\ Cardinality(T) = Cardinality(T \ {x}) + 1
  <2>1. IsFiniteSet(T)
    <3>1. T \subseteq S
      OBVIOUS
    <3> QED
      BY <3>1, FS_Subset
  <2>2. Cardinality(T) \in Nat
    BY <2>1, FS_CardinalityType
  <2>3. \A x \in T : Cardinality(T \ {x}) = Cardinality(T) - 1
    <3>1. TAKE x \in T
    <3> QED
      BY <2>1, FS_RemoveElement
  <2>4. T = {} => Cardinality(T) = 0
    BY FS_EmptySet
  <2>5. /\ Total(f, T) \in Nat
        /\ T = {} => Total(f, T) = 0
        /\ \A x \in T : Total(f, T) = f[x] + Total(f, T \ {x})
    BY <2>1, TotalStep
  <2>6. ASSUME NEW x \in T PROVE Cardinality(T) = Cardinality(T \ {x}) + 1
    BY <2>2, <2>3
  <2> HIDE DEF G
  <2> QED
    BY <2>2, <2>4, <2>5, <2>6
<1>2. {} \in G
  <2>1. lo * 0 = 0 /\ hi * 0 = 0
    OBVIOUS
  <2> QED
    BY <1>1, <2>1
<1>3. ASSUME NEW T \in SUBSET S, T # {}, \A x \in T : T \ {x} \in G
      PROVE  T \in G
  <2>1. PICK x \in T : TRUE
    BY <1>3
  <2>2. PICK c, r : c = Cardinality(T \ {x}) /\ r = Total(f, T \ {x})
    OBVIOUS
  <2>3. c \in Nat /\ r \in Nat /\ lo * c <= r /\ r <= hi * c
    BY <1>1, <1>3, <2>2
  <2>4. /\ Cardinality(T) = c + 1 /\ Total(f, T) = f[x] + r
        /\ f[x] \in Nat /\ lo <= f[x] /\ f[x] <= hi
    BY <1>1, <2>2
  <2>5. lo * (c + 1) = lo * c + lo /\ hi * (c + 1) = hi * c + hi
        /\ lo * c \in Nat /\ hi * c \in Nat
    BY <2>3
  <2>6. lo * (c + 1) <= f[x] + r /\ f[x] + r <= hi * (c + 1)
    BY <2>3, <2>4, <2>5
  <2> QED
    BY <2>4, <2>6
<1> HIDE DEF G
<1>4. S \in G
  BY <1>2, <1>3, SubsetsOf
<1> QED
  BY <1>4 DEF G

(* An addend that exceeds the least value makes the total exceed its own. *)
LEMMA TotalExceeds ==
  ASSUME NEW S, IsFiniteSet(S), NEW f, NEW lo \in Nat, NEW hi \in Nat,
         \A y \in S : f[y] \in Nat /\ lo <= f[y] /\ f[y] <= hi,
         NEW x \in S, NEW k \in Nat, lo + k <= f[x]
  PROVE  lo * Cardinality(S) + k <= Total(f, S)
<1>1. PICK R, c : R = S \ {x} /\ c = Cardinality(R)
  OBVIOUS
<1>2. IsFiniteSet(R) /\ c \in Nat /\ Cardinality(S) = c + 1
  <2>1. R \subseteq S
    BY <1>1
  <2>2. IsFiniteSet(R)
    BY <2>1, FS_Subset
  <2>3. c \in Nat
    BY <1>1, <2>2, FS_CardinalityType
  <2>4. Cardinality(S) \in Nat
    BY FS_CardinalityType
  <2>5. Cardinality(S \ {x}) = Cardinality(S) - 1
    BY FS_RemoveElement
  <2> QED
    BY <1>1, <2>2, <2>3, <2>4, <2>5
<1>3. Total(f, S) = f[x] + Total(f, R)
  BY <1>1, TotalStep
<1>4. lo * c <= Total(f, R) /\ Total(f, R) \in Nat
  <2>1. \A y \in R : f[y] \in Nat /\ lo <= f[y] /\ f[y] <= hi
    BY <1>1
  <2> QED
    BY <1>1, <1>2, <2>1, TotalBetween, TotalStep
<1>5. lo * (c + 1) = lo * c + lo /\ lo * c \in Nat
  BY <1>2
<1>6. f[x] \in Nat /\ lo + k <= f[x]
  OBVIOUS
<1> QED
  BY <1>2, <1>3, <1>4, <1>5, <1>6

(* Addends that are multiples. *)
LEMMA TotalMultiple ==
  ASSUME NEW S, IsFiniteSet(S), NEW k \in Nat, NEW a, NEW f,
         \A x \in S : a[x] \in Nat /\ f[x] = k * a[x]
  PROVE  Total(f, S) = k * Total(a, S)
<1>1. PICK none, b : none = 0 /\ b = [x \in S |-> none]
  OBVIOUS
<1>2. none \in Nat /\ \A x \in S : b[x] \in Nat /\ none <= b[x] /\ b[x] <= none
  BY <1>1
<1>3. Total(b, S) = 0
  <2>1. none * Cardinality(S) <= Total(b, S) /\ Total(b, S) <= none * Cardinality(S)
    BY <1>2, TotalBetween
  <2>2. Total(b, S) \in Nat
    BY <1>2, TotalStep
  <2>3. Cardinality(S) \in Nat
    BY FS_CardinalityType
  <2> QED
    BY <1>1, <2>1, <2>2, <2>3
<1>4. \A x \in S : a[x] \in Nat /\ b[x] \in Nat /\ f[x] = k * a[x] + b[x]
  <2>1. TAKE x \in S
  <2>2. PICK i, j : i = a[x] /\ j = b[x] /\ i \in Nat /\ j = 0
    BY <1>1
  <2>3. k * i \in Nat /\ k * i = k * i + j
    BY <2>2
  <2> QED
    BY <2>2, <2>3
<1>5. Total(f, S) = k * Total(a, S) + Total(b, S)
  BY <1>4, TotalLinear
<1>6. k * Total(a, S) \in Nat
  <2>1. Total(a, S) \in Nat
    BY TotalStep
  <2> QED
    BY <2>1
<1> QED
  BY <1>3, <1>5, <1>6
=============================================================================
