---------------------------- MODULE FoldProofs ------------------------------
(***************************************************************************)
(* Facts about finite sums (SumFunctionOnSet), folds (FoldLeft) and other  *)
(* operators of the community modules on sequences, for the proofs about   *)
(* scores, weights and the programs of the task pool.  The induction       *)
(* theorems of the library take an operator that no installed prover can   *)
(* instantiate, so the inductions here are over a SET that holds the cases *)
(* proved, by a minimal counterexample of a well-founded order (WFMin).    *)
(***************************************************************************)
EXTENDS Pieces, FiniteSetTheorems, SequenceTheorems, TLAPS

(* A set of natural numbers that holds 0, and n + 1 if n, holds them all.  *)
LEMMA NatSetInduction ==
    ASSUME NEW T, 0 \in T, \A n \in Nat : n \in T => n + 1 \in T
    PROVE  Nat \subseteq T
<1> SUFFICES ASSUME Nat \ T # {} PROVE FALSE
  OBVIOUS
<1> DEFINE below == {p \in Nat \X Nat : p[1] < p[2]}
           missing == Nat \ T
<1>1. IsWellFoundedOn(below, Nat)
  BY NatLessThanWellFounded DEF OpToRel
<1>2. PICK n \in missing : \A m \in missing : ~ (<<m, n>> \in below)
  <2>1. missing \subseteq Nat /\ missing # {}
    OBVIOUS
  <2> HIDE DEF below, missing
  <2>. QED
    BY <1>1, <2>1, WFMin
<1>3. n \in Nat /\ n \notin T /\ n # 0 /\ n - 1 \in Nat
  OBVIOUS
<1>4. <<n - 1, n>> \in below
  BY <1>3
<1>5. n - 1 \in T
  <2> HIDE DEF below
  <2>. QED
    BY <1>2, <1>3, <1>4
<1>6. (n - 1) + 1 \in T
  BY <1>3, <1>5
<1>7. (n - 1) + 1 = n
  BY <1>3
<1>. QED
  BY <1>3, <1>6, <1>7

(* A set of subsets of S that holds each one as soon as it holds those     *)
(* with one element less holds them all.                                   *)
LEMMA SubsetInduction ==
    ASSUME NEW S, IsFiniteSet(S), NEW T,
           \A s \in SUBSET S : (\A x \in s : s \ {x} \in T) => s \in T
    PROVE  SUBSET S \subseteq T
<1> DEFINE bad == (SUBSET S) \ T
<1> SUFFICES ASSUME bad # {} PROVE FALSE
  OBVIOUS
<1>1. IsWellFoundedOn(StrictSubsetOrdering(S), FiniteSubsetsOf(S))
  BY FS_StrictSubsetOrderingWellFounded
<1>2. bad \subseteq FiniteSubsetsOf(S)
  BY FS_FiniteSubsetsOfFinite
<1>3. PICK s \in bad : \A r \in bad : ~ (<<r, s>> \in StrictSubsetOrdering(S))
  <2> HIDE DEF bad
  <2>. QED
    BY <1>1, <1>2, WFMin
<1>4. ASSUME NEW x \in s PROVE s \ {x} \in T
  <2>1. s \in SUBSET S /\ s \ {x} \in SUBSET S
    OBVIOUS
  <2>2. s \ {x} \subseteq s /\ s \ {x} # s
    OBVIOUS
  <2>3. <<s \ {x}, s>> \in StrictSubsetOrdering(S)
    BY <2>1, <2>2 DEF StrictSubsetOrdering
  <2>4. s \ {x} \notin bad
    BY <1>3, <2>3
  <2>. QED
    BY <2>1, <2>4
<1>. QED
  BY <1>4

-----------------------------------------------------------------------------
(* The fold that SumFunctionOnSet stands for.                              *)

(* One step of the fold.                                                   *)
SumStep(f, g, s) ==
    IF s = {} THEN 0
    ELSE LET x == CHOOSE x \in s : TRUE IN f[x] + g[s \ {x}]

(* g folds f over every subset of S.                                       *)
FoldsOver(f, g, S) == g = [s \in SUBSET S |-> SumStep(f, g, s)]

(* Such a fold exists: one that is right for sets of up to n elements      *)
(* makes one that is right for sets of n + 1.                              *)
LEMMA FoldExists ==
    ASSUME NEW f, NEW S, IsFiniteSet(S)
    PROVE  \E g : FoldsOver(f, g, S)
<1> DEFINE Right(g, n) == \A s \in SUBSET S : Cardinality(s) <= n => g[s] = SumStep(f, g, s)
           reached == {n \in Nat : \E g : Right(g, n)}
<1>1. \A s \in SUBSET S : IsFiniteSet(s) /\ Cardinality(s) \in Nat /\ Cardinality(s) <= Cardinality(S)
  BY FS_Subset, FS_CardinalityType
<1>2. 0 \in reached
  <2> DEFINE zero == [s \in SUBSET S |-> 0]
  <2>1. ASSUME NEW s \in SUBSET S, Cardinality(s) <= 0 PROVE zero[s] = SumStep(f, zero, s)
    BY <1>1, <2>1, FS_EmptySet DEF SumStep
  <2>2. Right(zero, 0)
    BY <2>1
  <2> HIDE DEF zero, Right
  <2>. QED
    BY <2>2
<1>3. ASSUME NEW n \in Nat, n \in reached PROVE n + 1 \in reached
  <2>1. PICK g : Right(g, n)
    BY <1>3
  <2> DEFINE next == [s \in SUBSET S |-> SumStep(f, g, s)]
  <2>2. ASSUME NEW s \in SUBSET S, Cardinality(s) <= n + 1
        PROVE  next[s] = SumStep(f, next, s)
    <3>1. CASE s = {}
      BY <3>1 DEF SumStep
    <3>2. CASE s # {}
      <4> DEFINE x == CHOOSE x \in s : TRUE
      <4>1. x \in s /\ s \ {x} \in SUBSET S
        BY <3>2
      <4>2. Cardinality(s \ {x}) <= n
        <5>1. IsFiniteSet(s) /\ Cardinality(s) \in Nat
          BY <1>1
        <5>2. Cardinality(s \ {x}) = Cardinality(s) - 1
          <6> HIDE DEF x
          <6>. QED
            BY <4>1, <5>1, FS_RemoveElement
        <5>. QED
          BY <2>2, <5>1, <5>2
      <4>3. next[s \ {x}] = g[s \ {x}]
        BY <2>1, <4>1, <4>2
      <4>4. next[s] = f[x] + g[s \ {x}]
        BY <3>2 DEF SumStep
      <4>5. SumStep(f, next, s) = f[x] + next[s \ {x}]
        <5> HIDE DEF next
        <5>. QED
          BY <3>2 DEF SumStep
      <4>. QED
        BY <4>3, <4>4, <4>5
    <3>. QED
      BY <3>1, <3>2
  <2>3. Right(next, n + 1)
    BY <2>2
  <2> HIDE DEF next, Right
  <2>. QED
    BY <2>3
<1>4. Cardinality(S) \in reached
  <2>1. Nat \subseteq reached
    <3> HIDE DEF reached
    <3>. QED
      BY <1>2, <1>3, NatSetInduction
  <2> HIDE DEF reached
  <2>. QED
    BY <2>1, FS_CardinalityType
<1>5. PICK g : Right(g, Cardinality(S))
  BY <1>4
<1>6. \A s \in SUBSET S : g[s] = SumStep(f, g, s)
  BY <1>1, <1>5
<1> DEFINE fold == [s \in SUBSET S |-> g[s]]
<1>7. ASSUME NEW s \in SUBSET S PROVE SumStep(f, g, s) = SumStep(f, fold, s)
  BY DEF SumStep
<1>8. fold = [s \in SUBSET S |-> SumStep(f, fold, s)]
  <2>1. \A s \in SUBSET S : fold[s] = SumStep(f, fold, s)
    BY <1>6, <1>7
  <2>2. fold = [s \in SUBSET S |-> fold[s]]
    OBVIOUS
  <2> HIDE DEF fold
  <2>. QED
    BY <2>1, <2>2
<1>. QED
  BY <1>8 DEF FoldsOver

(* Two folds agree on the sets both fold over.                             *)
LEMMA FoldUnique ==
    ASSUME NEW f, NEW S, IsFiniteSet(S), NEW g, FoldsOver(f, g, S),
           NEW R \in SUBSET S, NEW h, FoldsOver(f, h, R)
    PROVE  \A s \in SUBSET R : h[s] = g[s]
<1> DEFINE same == {s \in SUBSET R : h[s] = g[s]}
<1>1. ASSUME NEW s \in SUBSET R, \A x \in s : s \ {x} \in same PROVE s \in same
  <2>1. h[s] = SumStep(f, h, s) /\ g[s] = SumStep(f, g, s)
    BY DEF FoldsOver
  <2>2. CASE s = {}
    BY <2>1, <2>2 DEF SumStep
  <2>3. CASE s # {}
    <3>1. PICK x \in s : x = CHOOSE y \in s : TRUE
      BY <2>3
    <3>2. h[s \ {x}] = g[s \ {x}]
      BY <1>1
    <3>. QED
      BY <2>1, <2>3, <3>1, <3>2 DEF SumStep
  <2>. QED
    BY <2>2, <2>3
<1>2. IsFiniteSet(R)
  BY FS_Subset
<1>3. SUBSET R \subseteq same
  <2> HIDE DEF same
  <2>. QED
    BY <1>1, <1>2, SubsetInduction
<1>. QED
  BY <1>3

(* A sum is what the fold over its own set ends with.                      *)
LEMMA SumIsFold ==
    ASSUME NEW f, NEW S, IsFiniteSet(S)
    PROVE  \E g : FoldsOver(f, g, S) /\ SumFunctionOnSet(f, S) = g[S]
<1> DEFINE iter == CHOOSE iter : iter = [s \in SUBSET S |->
              IF s = {} THEN 0 ELSE LET x == CHOOSE x \in s : TRUE IN f[x] + iter[s \ {x}]]
<1>1. SumFunctionOnSet(f, S) = iter[S]
  BY DEF SumFunctionOnSet, FoldFunctionOnSet, MapThenFoldSet
<1>2. PICK g : FoldsOver(f, g, S)
  BY FoldExists
<1>3. g = [s \in SUBSET S |->
              IF s = {} THEN 0 ELSE LET x == CHOOSE x \in s : TRUE IN f[x] + g[s \ {x}]]
  BY <1>2 DEF FoldsOver, SumStep
<1>4. iter = [s \in SUBSET S |->
              IF s = {} THEN 0 ELSE LET x == CHOOSE x \in s : TRUE IN f[x] + iter[s \ {x}]]
  BY <1>3
<1>5. FoldsOver(f, iter, S)
  <2> HIDE DEF iter
  <2>. QED
    BY <1>4 DEF FoldsOver, SumStep
<1>. QED
  BY <1>1, <1>5

(* One fold gives the sums of all subsets.                                 *)
LEMMA SumsFold ==
    ASSUME NEW f, NEW S, IsFiniteSet(S)
    PROVE  \E g : FoldsOver(f, g, S) /\ \A s \in SUBSET S : SumFunctionOnSet(f, s) = g[s]
<1>1. PICK g : FoldsOver(f, g, S)
  BY FoldExists
<1>2. ASSUME NEW s \in SUBSET S PROVE SumFunctionOnSet(f, s) = g[s]
  <2>1. IsFiniteSet(s)
    BY FS_Subset
  <2>2. PICK h : FoldsOver(f, h, s) /\ SumFunctionOnSet(f, s) = h[s]
    BY <2>1, SumIsFold
  <2>3. \A r \in SUBSET s : h[r] = g[r]
    BY <1>1, <2>2, FoldUnique
  <2>. QED
    BY <2>2, <2>3
<1>. QED
  BY <1>1, <1>2

-----------------------------------------------------------------------------
(* Sums of integers.                                                       *)

LEMMA SumEmpty == ASSUME NEW f PROVE SumFunctionOnSet(f, {}) = 0
<1>1. IsFiniteSet({})
  BY FS_EmptySet
<1>2. PICK g : FoldsOver(f, g, {}) /\ SumFunctionOnSet(f, {}) = g[{}]
  BY <1>1, SumIsFold
<1>. QED
  BY <1>2 DEF FoldsOver, SumStep

(* A sum is one of its terms and the sum of the others.                    *)
LEMMA SumSome ==
    ASSUME NEW f, NEW S, IsFiniteSet(S), S # {}
    PROVE  \E x \in S : SumFunctionOnSet(f, S) = f[x] + SumFunctionOnSet(f, S \ {x})
<1>1. PICK g : FoldsOver(f, g, S) /\ \A s \in SUBSET S : SumFunctionOnSet(f, s) = g[s]
  BY SumsFold
<1>2. PICK x \in S : x = CHOOSE y \in S : TRUE
  OBVIOUS
<1>3. g[S] = f[x] + g[S \ {x}]
  BY <1>1, <1>2 DEF FoldsOver, SumStep
<1>. QED
  BY <1>1, <1>3

LEMMA SumType ==
    ASSUME NEW S, IsFiniteSet(S), NEW f, \A x \in S : f[x] \in Int
    PROVE  SumFunctionOnSet(f, S) \in Int
<1> DEFINE typed == {s \in SUBSET S : SumFunctionOnSet(f, s) \in Int}
<1>1. ASSUME NEW s \in SUBSET S, \A x \in s : s \ {x} \in typed PROVE s \in typed
  <2>1. CASE s = {}
    BY <2>1, SumEmpty
  <2>2. CASE s # {}
    <3>1. IsFiniteSet(s)
      BY FS_Subset
    <3>2. PICK x \in s : SumFunctionOnSet(f, s) = f[x] + SumFunctionOnSet(f, s \ {x})
      BY <2>2, <3>1, SumSome
    <3>. QED
      BY <1>1, <3>2
  <2>. QED
    BY <2>1, <2>2
<1>2. SUBSET S \subseteq typed
  <2> HIDE DEF typed
  <2>. QED
    BY <1>1, SubsetInduction
<1>. QED
  BY <1>2

(* Any term can be taken off, not only the one the fold happens to choose. *)
LEMMA SumRemove ==
    ASSUME NEW S, IsFiniteSet(S), NEW f, \A y \in S : f[y] \in Int, NEW x \in S
    PROVE  /\ SumFunctionOnSet(f, S) = f[x] + SumFunctionOnSet(f, S \ {x})
           /\ SumFunctionOnSet(f, S \ {x}) \in Int
<1> DEFINE any == {s \in SUBSET S :
              \A y \in s : SumFunctionOnSet(f, s) = f[y] + SumFunctionOnSet(f, s \ {y})}
<1>1. \A s \in SUBSET S : IsFiniteSet(s) /\ SumFunctionOnSet(f, s) \in Int
  BY FS_Subset, SumType
<1>2. ASSUME NEW s \in SUBSET S, \A y \in s : s \ {y} \in any PROVE s \in any
  <2> SUFFICES ASSUME NEW y \in s
               PROVE  SumFunctionOnSet(f, s) = f[y] + SumFunctionOnSet(f, s \ {y})
    OBVIOUS
  <2>1. PICK z \in s : SumFunctionOnSet(f, s) = f[z] + SumFunctionOnSet(f, s \ {z})
    BY <1>1, SumSome
  <2>2. CASE y = z
    BY <2>1, <2>2
  <2>3. CASE y # z
    <3>1. SumFunctionOnSet(f, s \ {z}) = f[y] + SumFunctionOnSet(f, (s \ {z}) \ {y})
      BY <1>2, <2>3
    <3>2. SumFunctionOnSet(f, s \ {y}) = f[z] + SumFunctionOnSet(f, (s \ {y}) \ {z})
      BY <1>2, <2>3
    <3> DEFINE rest == SumFunctionOnSet(f, (s \ {y}) \ {z})
    <3>3. (s \ {z}) \ {y} = (s \ {y}) \ {z}
      OBVIOUS
    <3>4. SumFunctionOnSet(f, (s \ {z}) \ {y}) = rest
      BY <3>3
    <3>5. f[y] \in Int /\ f[z] \in Int /\ rest \in Int
      BY <1>1
    <3>6. /\ SumFunctionOnSet(f, s) = f[z] + (f[y] + rest)
          /\ SumFunctionOnSet(f, s \ {y}) = f[z] + rest
      BY <2>1, <3>1, <3>2, <3>4
    <3> HIDE DEF rest
    <3>. QED
      BY <3>5, <3>6
  <2>. QED
    BY <2>2, <2>3
<1>3. SUBSET S \subseteq any
  <2> HIDE DEF any
  <2>. QED
    BY <1>2, SubsetInduction
<1>. QED
  BY <1>1, <1>3

(* A sum of nothing but c.                                                 *)
LEMMA SumConst ==
    ASSUME NEW S, IsFiniteSet(S), NEW c \in Int, NEW f, \A x \in S : f[x] = c
    PROVE  SumFunctionOnSet(f, S) = Cardinality(S) * c
<1> DEFINE good == {s \in SUBSET S : SumFunctionOnSet(f, s) = Cardinality(s) * c}
<1>1. ASSUME NEW s \in SUBSET S, \A x \in s : s \ {x} \in good PROVE s \in good
  <2>1. IsFiniteSet(s) /\ Cardinality(s) \in Nat
    BY FS_Subset, FS_CardinalityType
  <2>2. CASE s = {}
    BY <2>2, SumEmpty, FS_EmptySet
  <2>3. CASE s # {}
    <3>1. PICK x \in s : TRUE
      BY <2>3
    <3>2. SumFunctionOnSet(f, s) = c + SumFunctionOnSet(f, s \ {x})
      BY <2>1, SumRemove
    <3>3. Cardinality(s \ {x}) = Cardinality(s) - 1
      BY <2>1, FS_RemoveElement
    <3>4. SumFunctionOnSet(f, s \ {x}) = (Cardinality(s) - 1) * c
      BY <1>1, <3>3
    <3>. QED
      BY <2>1, <3>2, <3>4
  <2>. QED
    BY <2>2, <2>3
<1>2. SUBSET S \subseteq good
  <2> HIDE DEF good
  <2>. QED
    BY <1>1, SubsetInduction
<1>. QED
  BY <1>2

(* Sums are linear.                                                        *)
LEMMA SumLinear ==
    ASSUME NEW S, IsFiniteSet(S), NEW c \in Int, NEW f, NEW g, NEW h,
           \A x \in S : f[x] \in Int /\ g[x] \in Int /\ h[x] = f[x] + c * g[x]
    PROVE  SumFunctionOnSet(h, S) = SumFunctionOnSet(f, S) + c * SumFunctionOnSet(g, S)
<1> DEFINE F(s) == SumFunctionOnSet(f, s)
           G(s) == SumFunctionOnSet(g, s)
           H(s) == SumFunctionOnSet(h, s)
           good == {s \in SUBSET S : H(s) = F(s) + c * G(s)}
<1>1. ASSUME NEW s \in SUBSET S, \A x \in s : s \ {x} \in good PROVE s \in good
  <2>1. CASE s = {}
    BY <2>1, SumEmpty
  <2>2. CASE s # {}
    <3>1. PICK x \in s : TRUE
      BY <2>2
    <3>2. IsFiniteSet(s)
      BY FS_Subset
    <3>3. \A y \in s : h[y] \in Int
      OBVIOUS
    <3>4. /\ F(s) = f[x] + F(s \ {x}) /\ F(s \ {x}) \in Int
          /\ G(s) = g[x] + G(s \ {x}) /\ G(s \ {x}) \in Int
          /\ H(s) = h[x] + H(s \ {x})
      BY <3>2, <3>3, SumRemove
    <3>5. H(s \ {x}) = F(s \ {x}) + c * G(s \ {x})
      BY <1>1
    <3>6. h[x] = f[x] + c * g[x] /\ f[x] \in Int /\ g[x] \in Int
      OBVIOUS
    <3> HIDE DEF F, G, H
    <3>7. H(s) = F(s) + c * G(s)
      BY <3>4, <3>5, <3>6
    <3>. QED
      BY <3>7
  <2>. QED
    BY <2>1, <2>2
<1>2. SUBSET S \subseteq good
  <2> HIDE DEF good
  <2>. QED
    BY <1>1, SubsetInduction
<1>. QED
  BY <1>2

LEMMA SumTimes ==
    ASSUME NEW S, IsFiniteSet(S), NEW c \in Int, NEW g, NEW h,
           \A x \in S : g[x] \in Int /\ h[x] = c * g[x]
    PROVE  SumFunctionOnSet(h, S) = c * SumFunctionOnSet(g, S)
<1> DEFINE zero == [x \in S |-> 0]
<1>1. SumFunctionOnSet(zero, S) = Cardinality(S) * 0 /\ Cardinality(S) * 0 = 0
  BY SumConst, FS_CardinalityType
<1>2. \A x \in S : zero[x] \in Int /\ g[x] \in Int /\ h[x] = zero[x] + c * g[x]
  OBVIOUS
<1>3. c * SumFunctionOnSet(g, S) \in Int
  BY SumType
<1> HIDE DEF zero
<1>4. SumFunctionOnSet(h, S) = SumFunctionOnSet(zero, S) + c * SumFunctionOnSet(g, S)
  BY <1>2, SumLinear
<1>. QED
  BY <1>1, <1>3, <1>4

(* Sums are monotone in their terms.                                       *)
LEMMA SumLeq ==
    ASSUME NEW S, IsFiniteSet(S), NEW f, NEW g,
           \A x \in S : f[x] \in Int /\ g[x] \in Int /\ f[x] <= g[x]
    PROVE  SumFunctionOnSet(f, S) <= SumFunctionOnSet(g, S)
<1> DEFINE F(s) == SumFunctionOnSet(f, s)
           G(s) == SumFunctionOnSet(g, s)
           good == {s \in SUBSET S : F(s) <= G(s)}
<1>1. ASSUME NEW s \in SUBSET S, \A x \in s : s \ {x} \in good PROVE s \in good
  <2>1. CASE s = {}
    BY <2>1, SumEmpty
  <2>2. CASE s # {}
    <3>1. PICK x \in s : TRUE
      BY <2>2
    <3>2. IsFiniteSet(s)
      BY FS_Subset
    <3>3. /\ F(s) = f[x] + F(s \ {x}) /\ F(s \ {x}) \in Int
          /\ G(s) = g[x] + G(s \ {x}) /\ G(s \ {x}) \in Int
      BY <3>2, SumRemove
    <3>4. F(s \ {x}) <= G(s \ {x})
      BY <1>1
    <3>5. f[x] \in Int /\ g[x] \in Int /\ f[x] <= g[x]
      OBVIOUS
    <3> HIDE DEF F, G
    <3>6. F(s) <= G(s)
      BY <3>3, <3>4, <3>5
    <3>. QED
      BY <3>6
  <2>. QED
    BY <2>1, <2>2
<1>2. SUBSET S \subseteq good
  <2> HIDE DEF good
  <2>. QED
    BY <1>1, SubsetInduction
<1>. QED
  BY <1>2

(* Sums of the same terms are the same.                                    *)
LEMMA SumSame ==
    ASSUME NEW S, IsFiniteSet(S), NEW f, NEW g,
           \A x \in S : f[x] \in Int /\ g[x] = f[x]
    PROVE  SumFunctionOnSet(g, S) = SumFunctionOnSet(f, S)
<1>1. SumFunctionOnSet(f, S) \in Int /\ SumFunctionOnSet(g, S) \in Int
  BY SumType
<1>2. /\ SumFunctionOnSet(f, S) <= SumFunctionOnSet(g, S)
      /\ SumFunctionOnSet(g, S) <= SumFunctionOnSet(f, S)
  <2>1. \A x \in S : f[x] \in Int /\ g[x] \in Int /\ f[x] <= g[x] /\ g[x] <= f[x]
    OBVIOUS
  <2>. QED
    BY <2>1, SumLeq
<1>. QED
  BY <1>1, <1>2

(* Terms that are 0 do not count.                                          *)
LEMMA SumZeroOutside ==
    ASSUME NEW S, IsFiniteSet(S), NEW R \in SUBSET S, NEW f,
           \A x \in S : f[x] \in Int /\ (x \notin R => f[x] = 0)
    PROVE  SumFunctionOnSet(f, S) = SumFunctionOnSet(f, R)
<1> DEFINE F(s) == SumFunctionOnSet(f, s)
           good == {s \in SUBSET S : F(s) = F(s \intersect R)}
<1>1. ASSUME NEW s \in SUBSET S, \A x \in s : s \ {x} \in good PROVE s \in good
  <2>1. CASE s = {}
    <3>1. s \intersect R = s
      BY <2>1
    <3>. QED
      BY <3>1
  <2>2. CASE s # {}
    <3>1. PICK x \in s : TRUE
      BY <2>2
    <3>2. IsFiniteSet(s) /\ IsFiniteSet(s \intersect R)
      BY FS_Subset
    <3>3. /\ F(s) = f[x] + F(s \ {x}) /\ F(s \ {x}) \in Int
          /\ F(s \ {x}) = F((s \ {x}) \intersect R)
      BY <1>1, <3>2, SumRemove
    <3>4. CASE x \in R
      <4>1. (s \ {x}) \intersect R = (s \intersect R) \ {x}
        OBVIOUS
      <4>2. F((s \ {x}) \intersect R) = F((s \intersect R) \ {x})
        BY <4>1
      <4>3. F(s \intersect R) = f[x] + F((s \intersect R) \ {x})
        BY <3>2, <3>4, SumRemove
      <4>4. F(s) = F(s \intersect R)
        <5> HIDE DEF F
        <5>. QED
          BY <3>3, <4>2, <4>3
      <4>. QED
        BY <4>4
    <3>5. CASE x \notin R
      <4>1. (s \ {x}) \intersect R = s \intersect R
        BY <3>5
      <4>2. F((s \ {x}) \intersect R) = F(s \intersect R)
        BY <4>1
      <4>3. f[x] = 0
        BY <3>5
      <4>4. F(s) = F(s \intersect R)
        <5> HIDE DEF F
        <5>. QED
          BY <3>3, <4>2, <4>3
      <4>. QED
        BY <4>4
    <3>. QED
      BY <3>4, <3>5
  <2>. QED
    BY <2>1, <2>2
<1>2. SUBSET S \subseteq good
  <2> HIDE DEF good
  <2>. QED
    BY <1>1, SubsetInduction
<1>3. S \intersect R = R
  OBVIOUS
<1>. QED
  BY <1>2, <1>3

(* A sum of natural numbers is one, and no term is more than it.           *)
LEMMA SumNat ==
    ASSUME NEW S, IsFiniteSet(S), NEW f, \A x \in S : f[x] \in Nat
    PROVE  /\ SumFunctionOnSet(f, S) \in Nat
           /\ \A x \in S : f[x] <= SumFunctionOnSet(f, S)
<1> DEFINE zero == [x \in S |-> 0]
<1>1. ASSUME NEW R \in SUBSET S PROVE SumFunctionOnSet(f, R) \in Nat
  <2>1. IsFiniteSet(R) /\ Cardinality(R) \in Nat
    BY FS_Subset, FS_CardinalityType
  <2>2. SumFunctionOnSet(zero, R) = Cardinality(R) * 0
    BY <2>1, SumConst
  <2>3. SumFunctionOnSet(zero, R) <= SumFunctionOnSet(f, R)
    BY <2>1, SumLeq
  <2>4. SumFunctionOnSet(f, R) \in Int
    BY <2>1, SumType
  <2>. QED
    BY <2>1, <2>2, <2>3, <2>4
<1>2. ASSUME NEW x \in S PROVE f[x] <= SumFunctionOnSet(f, S)
  <2>1. SumFunctionOnSet(f, S) = f[x] + SumFunctionOnSet(f, S \ {x})
    BY SumRemove
  <2>2. SumFunctionOnSet(f, S \ {x}) \in Nat
    BY <1>1
  <2>. QED
    BY <2>1, <2>2
<1>. QED
  BY <1>1, <1>2

(* o[b] sums the f[t] of the t that b has a part in, times[t] counts f[t]  *)
(* once for each b with a part in it (H[t] are those b).                   *)
CountedTwice(B, T, f, H, o, times) ==
    /\ IsFiniteSet(B) /\ IsFiniteSet(T)
    /\ \A t \in T : f[t] \in Int /\ H[t] \subseteq B /\ times[t] = Cardinality(H[t]) * f[t]
    /\ \A b \in B : o[b] = SumFunctionOnSet(f, {t \in T : b \in H[t]})

(* Either way of counting gives one total.                                 *)
LEMMA SumSwap ==
    ASSUME NEW B, NEW T, NEW f, NEW H, NEW o, NEW times, CountedTwice(B, T, f, H, o, times)
    PROVE  SumFunctionOnSet(o, B) = SumFunctionOnSet(times, T)
<1>0. /\ IsFiniteSet(B) /\ IsFiniteSet(T)
      /\ \A t \in T : f[t] \in Int /\ H[t] \subseteq B /\ times[t] = Cardinality(H[t]) * f[t]
      /\ \A b \in B : o[b] = SumFunctionOnSet(f, {t \in T : b \in H[t]})
  BY DEF CountedTwice
<1> DEFINE O(s) == [b \in B |-> SumFunctionOnSet(f, {t \in s : b \in H[t]})]
           good == {s \in SUBSET T : SumFunctionOnSet(O(s), B) = SumFunctionOnSet(times, s)}
<1>1. \A t \in T : /\ IsFiniteSet(H[t]) /\ Cardinality(H[t]) \in Nat
                   /\ times[t] \in Int
  BY <1>0, FS_Subset, FS_CardinalityType
<1>2. ASSUME NEW s \in SUBSET T, NEW b \in B
      PROVE  IsFiniteSet({t \in s : b \in H[t]}) /\ O(s)[b] \in Int
  <2>1. IsFiniteSet({t \in s : b \in H[t]})
    BY <1>0, FS_Subset
  <2>. QED
    BY <1>0, <2>1, SumType
<1>3. ASSUME NEW s \in SUBSET T, \A x \in s : s \ {x} \in good PROVE s \in good
  <2>1. CASE s = {}
    <3>1. \A b \in B : {t \in s : b \in H[t]} = {}
      BY <2>1
    <3>2. \A b \in B : O(s)[b] = 0
      BY <3>1, SumEmpty
    <3>3. SumFunctionOnSet(O(s), B) = Cardinality(B) * 0
      <4> HIDE DEF O
      <4>. QED
        BY <1>0, <3>2, SumConst
    <3>4. Cardinality(B) * 0 = 0
      BY <1>0, FS_CardinalityType
    <3>5. SumFunctionOnSet(times, s) = 0
      BY <2>1, SumEmpty
    <3>. QED
      BY <3>3, <3>4, <3>5
  <2>2. CASE s # {}
    <3>1. PICK x \in s : TRUE
      BY <2>2
    <3> DEFINE part == [b \in B |-> IF b \in H[x] THEN 1 ELSE 0]
    <3>2. SumFunctionOnSet(part, B) = Cardinality(H[x])
      <4>1. SumFunctionOnSet(part, B) = SumFunctionOnSet(part, H[x])
        BY <1>0, SumZeroOutside
      <4>2. SumFunctionOnSet(part, H[x]) = Cardinality(H[x]) * 1
        BY <1>0, <1>1, SumConst
      <4>. QED
        BY <1>1, <4>1, <4>2
    <3>3. ASSUME NEW b \in B PROVE O(s)[b] = O(s \ {x})[b] + f[x] * part[b]
      <4> DEFINE mine == {t \in s : b \in H[t]}
      <4>1. {t \in s \ {x} : b \in H[t]} = mine \ {x}
        OBVIOUS
      <4>2. O(s \ {x})[b] = SumFunctionOnSet(f, mine \ {x}) /\ O(s)[b] = SumFunctionOnSet(f, mine)
        BY <4>1
      <4>3. CASE b \in H[x]
        <5>1. x \in mine
          BY <4>3
        <5>2. SumFunctionOnSet(f, mine) = f[x] + SumFunctionOnSet(f, mine \ {x})
          BY <1>0, <1>2, <5>1, SumRemove
        <5>3. SumFunctionOnSet(f, mine \ {x}) \in Int
          BY <1>0, <1>2, <5>1, SumRemove
        <5>4. part[b] = 1 /\ f[x] \in Int
          BY <1>0, <4>3
        <5> HIDE DEF O, part, mine
        <5>. QED
          BY <4>2, <5>2, <5>3, <5>4
      <4>4. CASE b \notin H[x]
        <5>1. mine \ {x} = mine
          BY <4>4
        <5>2. O(s)[b] = O(s \ {x})[b]
          BY <4>2, <5>1
        <5>3. part[b] = 0 /\ f[x] \in Int /\ O(s \ {x})[b] \in Int
          BY <1>0, <1>2, <4>4
        <5> HIDE DEF O, part
        <5>. QED
          BY <5>2, <5>3
      <4>. QED
        BY <4>3, <4>4
    <3>4. \A b \in B : O(s \ {x})[b] \in Int /\ part[b] \in Int
      <4>1. s \ {x} \in SUBSET T /\ \A b \in B : part[b] \in Int
        OBVIOUS
      <4> HIDE DEF O, part
      <4>. QED
        BY <1>2, <4>1
    <3>5. SumFunctionOnSet(O(s), B) = SumFunctionOnSet(O(s \ {x}), B) + f[x] * SumFunctionOnSet(part, B)
      <4> DEFINE before == O(s \ {x})
                 after == O(s)
      <4>1. f[x] \in Int
        BY <1>0
      <4>2. \A b \in B : /\ before[b] \in Int /\ part[b] \in Int
                         /\ after[b] = before[b] + f[x] * part[b]
        BY <3>3, <3>4
      <4> HIDE DEF before, after, part
      <4>3. SumFunctionOnSet(after, B) = SumFunctionOnSet(before, B) + f[x] * SumFunctionOnSet(part, B)
        BY <1>0, <4>1, <4>2, SumLinear
      <4>. QED
        BY <4>3 DEF before, after
    <3>6. SumFunctionOnSet(O(s \ {x}), B) = SumFunctionOnSet(times, s \ {x})
      BY <1>3
    <3>7. /\ SumFunctionOnSet(times, s) = times[x] + SumFunctionOnSet(times, s \ {x})
          /\ SumFunctionOnSet(times, s \ {x}) \in Int
      <4>1. IsFiniteSet(s)
        BY <1>0, FS_Subset
      <4>. QED
        BY <1>1, <4>1, SumRemove
    <3>8. times[x] = f[x] * Cardinality(H[x]) /\ times[x] \in Int
      BY <1>0, <1>1
    <3>9. SumFunctionOnSet(O(s), B) = SumFunctionOnSet(times, s)
      <4> HIDE DEF O, part
      <4>. QED
        BY <3>2, <3>5, <3>6, <3>7, <3>8
    <3>. QED
      BY <3>9
  <2>. QED
    BY <2>1, <2>2
<1>4. SUBSET T \subseteq good
  <2> HIDE DEF good
  <2>. QED
    BY <1>0, <1>3, SubsetInduction
<1>5. SumFunctionOnSet(O(T), B) = SumFunctionOnSet(times, T)
  BY <1>4
<1>6. \A b \in B : O(T)[b] \in Int /\ o[b] = O(T)[b]
  BY <1>0, <1>2
<1>7. SumFunctionOnSet(o, B) = SumFunctionOnSet(O(T), B)
  <2> HIDE DEF O
  <2>. QED
    BY <1>0, <1>6, SumSame
<1>. QED
  BY <1>5, <1>7

-----------------------------------------------------------------------------
(* Folds over sequences.                                                   *)

(* A set of sequences that holds the empty one, and one more element after *)
(* each that it holds, holds them all.                                     *)
LEMMA SeqSetInduction ==
    ASSUME NEW X, NEW T, << >> \in T,
           \A q \in Seq(X), b \in X : q \in T => Append(q, b) \in T
    PROVE  Seq(X) \subseteq T
<1> DEFINE done == {n \in Nat : \A q \in Seq(X) : Len(q) = n => q \in T}
<1>1. 0 \in done
  <2>1. ASSUME NEW q \in Seq(X), Len(q) = 0 PROVE q \in T
    <3>1. q = << >>
      BY <2>1
    <3>. QED
      BY <3>1
  <2>. QED
    BY <2>1
<1>2. ASSUME NEW n \in Nat, n \in done PROVE n + 1 \in done
  <2>1. ASSUME NEW q \in Seq(X), Len(q) = n + 1 PROVE q \in T
    <3>1. q # << >>
      BY <2>1
    <3>2. PICK p \in Seq(X), b \in X : q = Append(p, b)
      BY <3>1, SequenceEmptyOrAppend
    <3>3. Len(p) = n
      BY <2>1, <3>2
    <3>. QED
      BY <1>2, <3>2, <3>3
  <2>. QED
    BY <2>1
<1>3. Nat \subseteq done
  <2> HIDE DEF done
  <2>. QED
    BY <1>1, <1>2, NatSetInduction
<1>4. ASSUME NEW q \in Seq(X) PROVE q \in T
  <2>1. Len(q) \in Nat
    OBVIOUS
  <2>2. Len(q) \in done
    BY <1>3, <2>1
  <2>. QED
    BY <2>2
<1>. QED
  BY <1>4

(* The states of a program that starts in base and takes the step H for    *)
(* each element of a sequence, and the last of them.                       *)
IsRun(H, base, in, r) ==
    r = [k \in 0 .. Len(in) |-> IF k = 0 THEN base ELSE H[<<r[k - 1], in[k]>>]]

Folded(H, base, in) == (CHOOSE r : IsRun(H, base, in, r))[Len(in)]

(* The same of its first n steps.                                          *)
RunsTo(H, base, n, in, r) ==
    /\ r[0] = base
    /\ \A k \in 1 .. n : r[k] = H[<<r[k - 1], in[k]>>]

LEMMA RunsToExists ==
    ASSUME NEW H, NEW base, NEW in
    PROVE  \A n \in Nat : \E r : RunsTo(H, base, n, in, r)
<1> DEFINE T == {n \in Nat : \E r : RunsTo(H, base, n, in, r)}
<1>1. 0 \in T
  <2> DEFINE r == [k \in {0} |-> base]
  <2>1. RunsTo(H, base, 0, in, r)
    BY DEF RunsTo
  <2>. QED
    BY <2>1
<1>2. ASSUME NEW n \in Nat, n \in T PROVE n + 1 \in T
  <2>1. PICK r : RunsTo(H, base, n, in, r)
    BY <1>2
  <2> DEFINE s == [k \in 0 .. (n + 1) |-> IF k = n + 1 THEN H[<<r[n], in[n + 1]>>] ELSE r[k]]
  <2>2. s[n + 1] = H[<<r[n], in[n + 1]>>] /\ \A k \in 0 .. n : s[k] = r[k]
    OBVIOUS
  <2>3. ASSUME NEW k \in 1 .. (n + 1) PROVE s[k] = H[<<s[k - 1], in[k]>>]
    <3> HIDE DEF s
    <3>1. CASE k = n + 1
      <4>1. s[k - 1] = r[n]
        BY <2>2, <3>1
      <4>. QED
        BY <2>2, <3>1, <4>1
    <3>2. CASE k # n + 1
      <4>1. k \in 1 .. n /\ k - 1 \in 0 .. n /\ k \in 0 .. n
        BY <3>2
      <4>2. r[k] = H[<<r[k - 1], in[k]>>]
        BY <2>1, <4>1 DEF RunsTo
      <4>. QED
        BY <2>2, <4>1, <4>2
    <3>. QED
      BY <3>1, <3>2
  <2>4. s[0] = base
    BY <2>1, <2>2 DEF RunsTo
  <2>5. RunsTo(H, base, n + 1, in, s)
    <3> HIDE DEF s
    <3>. QED
      BY <2>3, <2>4 DEF RunsTo
  <2>. QED
    BY <2>5
<1>3. Nat \subseteq T
  <2> HIDE DEF T
  <2>. QED
    BY <1>1, <1>2, NatSetInduction
<1>. QED
  BY <1>3

LEMMA RunExists ==
    ASSUME NEW X, NEW H, NEW base, NEW in \in Seq(X)
    PROVE  \E r : IsRun(H, base, in, r)
<1> DEFINE n == Len(in)
<1>1. n \in Nat
  OBVIOUS
<1> HIDE DEF n
<1>2. PICK r : RunsTo(H, base, n, in, r)
  BY <1>1, RunsToExists
<1> DEFINE s == [k \in 0 .. n |-> r[k]]
<1>3. ASSUME NEW k \in 0 .. n
      PROVE  s[k] = IF k = 0 THEN base ELSE H[<<s[k - 1], in[k]>>]
  <2>1. CASE k = 0
    BY <1>1, <1>2, <2>1 DEF RunsTo
  <2>2. CASE k # 0
    <3>1. k \in 1 .. n /\ k - 1 \in 0 .. n
      BY <1>1, <2>2
    <3>2. s[k] = r[k] /\ s[k - 1] = r[k - 1]
      BY <3>1
    <3> HIDE DEF s
    <3>. QED
      BY <1>2, <2>2, <3>1, <3>2 DEF RunsTo
  <2>. QED
    BY <2>1, <2>2
<1>4. s = [k \in 0 .. n |-> IF k = 0 THEN base ELSE H[<<s[k - 1], in[k]>>]]
  <2>1. s = [k \in 0 .. n |-> s[k]]
    OBVIOUS
  <2> HIDE DEF s
  <2>. QED
    BY <1>3, <2>1
<1>5. IsRun(H, base, in, s)
  <2> HIDE DEF s
  <2>. QED
    BY <1>4 DEF IsRun, n
<1>. QED
  BY <1>5

(* What comes after makes no difference to a run.                          *)
LEMMA RunsAgree ==
    ASSUME NEW H, NEW base, NEW n \in Nat, NEW r, NEW s, NEW in,
           RunsTo(H, base, n, in, r), RunsTo(H, base, n, in, s)
    PROVE  \A k \in 0 .. n : r[k] = s[k]
<1> DEFINE T == {k \in Nat : k <= n => r[k] = s[k]}
<1>1. 0 \in T
  BY DEF RunsTo
<1>2. ASSUME NEW k \in Nat, k \in T PROVE k + 1 \in T
  <2>1. ASSUME k + 1 <= n PROVE r[k + 1] = s[k + 1]
    <3>1. k + 1 \in 1 .. n /\ k + 1 - 1 = k /\ k <= n
      BY <2>1
    <3>2. r[k + 1] = H[<<r[k], in[k + 1]>>] /\ s[k + 1] = H[<<s[k], in[k + 1]>>]
      BY <3>1 DEF RunsTo
    <3>. QED
      BY <1>2, <3>1, <3>2
  <2>. QED
    BY <2>1
<1>3. Nat \subseteq T
  <2> HIDE DEF T
  <2>. QED
    BY <1>1, <1>2, NatSetInduction
<1>. QED
  BY <1>3

(* A run that never ends.                                                  *)
IsEndlessRun(H, base, in, r) ==
    r = [k \in Nat |-> IF k = 0 THEN base ELSE H[<<r[k - 1], in[k]>>]]

LEMMA RunForEver ==
    ASSUME NEW H, NEW base, NEW in
    PROVE  \E r : IsEndlessRun(H, base, in, r)
<1> DEFINE R(n) == CHOOSE r : RunsTo(H, base, n, in, r)
           s == [k \in Nat |-> R(k)[k]]
<1>1. \A n \in Nat : RunsTo(H, base, n, in, R(n))
  BY RunsToExists
<1>2. ASSUME NEW k \in Nat
      PROVE  s[k] = IF k = 0 THEN base ELSE H[<<s[k - 1], in[k]>>]
  <2>1. s[k] = R(k)[k]
    OBVIOUS
  <2>2. RunsTo(H, base, k, in, R(k))
    BY <1>1
  <2>3. CASE k = 0
    <3> HIDE DEF R, s
    <3>. QED
      BY <2>1, <2>2, <2>3 DEF RunsTo
  <2>4. CASE k # 0
    <3> DEFINE m == k - 1
    <3>0. m \in Nat /\ k = m + 1
      BY <2>4
    <3>1. s[m] = R(m)[m]
      BY <3>0
    <3>2. RunsTo(H, base, m, in, R(m))
      BY <1>1, <3>0
    <3> HIDE DEF R, s, m
    <3>3. \A i \in 1 .. m : i \in 1 .. k
      BY <3>0
    <3>4. RunsTo(H, base, m, in, R(k))
      BY <2>2, <3>3 DEF RunsTo
    <3>5. R(m)[m] = R(k)[m]
      <4>1. m \in 0 .. m
        BY <3>0
      <4>2. \A i \in 0 .. m : R(m)[i] = R(k)[i]
        BY <3>0, <3>2, <3>4, RunsAgree
      <4>. QED
        BY <4>1, <4>2
    <3>6. k \in 1 .. k
      BY <3>0
    <3>7. R(k)[k] = H[<<R(k)[k - 1], in[k]>>]
      BY <2>2, <3>6 DEF RunsTo
    <3>. QED
      BY <2>1, <2>4, <3>1, <3>5, <3>7 DEF m
  <2>. QED
    BY <2>3, <2>4
<1>3. s = [k \in Nat |-> IF k = 0 THEN base ELSE H[<<s[k - 1], in[k]>>]]
  <2>1. s = [k \in Nat |-> s[k]]
    OBVIOUS
  <2> HIDE DEF s
  <2>. QED
    BY <1>2, <2>1
<1>4. IsEndlessRun(H, base, in, s)
  <2> HIDE DEF s
  <2>. QED
    BY <1>3 DEF IsEndlessRun
<1>. QED
  BY <1>4

LEMMA FoldedRun ==
    ASSUME NEW X, NEW H, NEW base, NEW in \in Seq(X)
    PROVE  \E r : RunsTo(H, base, Len(in), in, r) /\ Folded(H, base, in) = r[Len(in)]
<1> DEFINE r == CHOOSE r : IsRun(H, base, in, r)
<1>1. IsRun(H, base, in, r)
  BY RunExists
<1>2. Folded(H, base, in) = r[Len(in)]
  BY DEF Folded
<1>3. Len(in) \in Nat
  OBVIOUS
<1> HIDE DEF r
<1>4. \A k \in 0 .. Len(in) : r[k] = IF k = 0 THEN base ELSE H[<<r[k - 1], in[k]>>]
  BY <1>1 DEF IsRun
<1>5. 0 \in 0 .. Len(in) /\ \A k \in 1 .. Len(in) : k \in 0 .. Len(in) /\ k # 0
  BY <1>3
<1>6. RunsTo(H, base, Len(in), in, r)
  BY <1>4, <1>5 DEF RunsTo
<1>. QED
  BY <1>2, <1>6

LEMMA FoldedEmpty ==
    ASSUME NEW H, NEW base
    PROVE  Folded(H, base, << >>) = base
<1> DEFINE e == << >>
<1>0. PICK X : e \in Seq(X)
  OBVIOUS
<1>1. Len(e) = 0
  OBVIOUS
<1> HIDE DEF e
<1>2. PICK r : RunsTo(H, base, Len(e), e, r) /\ Folded(H, base, e) = r[Len(e)]
  BY <1>0, FoldedRun
<1>. QED
  BY <1>1, <1>2 DEF e, RunsTo

LEMMA FoldedAppend ==
    ASSUME NEW X, NEW H, NEW base, NEW q \in Seq(X), NEW b \in X
    PROVE  Folded(H, base, Append(q, b)) = H[<<Folded(H, base, q), b>>]
<1> DEFINE n == Len(q)
           p == Append(q, b)
<1>1. n \in Nat /\ p \in Seq(X) /\ Len(p) = n + 1 /\ p[n + 1] = b /\ \A k \in 1 .. n : p[k] = q[k]
  OBVIOUS
<1> HIDE DEF n, p
<1>2. PICK r : RunsTo(H, base, n, q, r) /\ Folded(H, base, q) = r[n]
  BY FoldedRun DEF n
<1>3. PICK s : RunsTo(H, base, n + 1, p, s) /\ Folded(H, base, p) = s[n + 1]
  BY <1>1, FoldedRun
<1>4. \A k \in 1 .. n : k \in 1 .. (n + 1)
  BY <1>1
<1>5. RunsTo(H, base, n, q, s)
  BY <1>1, <1>3, <1>4 DEF RunsTo
<1>6. \A k \in 0 .. n : r[k] = s[k]
  <2>1. n \in Nat
    BY <1>1
  <2>2. RunsTo(H, base, n, q, r) /\ RunsTo(H, base, n, q, s)
    BY <1>2, <1>5
  <2>. QED
    BY <2>1, <2>2, RunsAgree
<1>7. n \in 0 .. n /\ n + 1 \in 1 .. (n + 1) /\ n + 1 - 1 = n
  BY <1>1
<1>8. s[n + 1] = H[<<s[n], p[n + 1]>>]
  BY <1>3, <1>7 DEF RunsTo
<1>. QED
  BY <1>1, <1>2, <1>3, <1>6, <1>7, <1>8 DEF p

(* The run stays within the states that its steps stay within.             *)
LEMMA FoldedType ==
    ASSUME NEW X, NEW St, NEW H \in [St \X X -> St], NEW base \in St, NEW in \in Seq(X)
    PROVE  Folded(H, base, in) \in St
<1> DEFINE T == {q \in Seq(X) : Folded(H, base, q) \in St}
<1>1. << >> \in T
  BY FoldedEmpty
<1>2. ASSUME NEW q \in Seq(X), NEW b \in X, q \in T PROVE Append(q, b) \in T
  <2>1. Folded(H, base, Append(q, b)) = H[<<Folded(H, base, q), b>>]
    BY FoldedAppend
  <2>2. Append(q, b) \in Seq(X)
    OBVIOUS
  <2>. QED
    BY <1>2, <2>1, <2>2
<1>3. Seq(X) \subseteq T
  <2> HIDE DEF T
  <2>. QED
    BY <1>1, <1>2, SeqSetInduction
<1>. QED
  BY <1>3

-----------------------------------------------------------------------------
(* FoldLeft runs over sets of positions.                                   *)

LEMMA MaxInSet ==
    ASSUME NEW S, IsFiniteSet(S), S \subseteq Int, S # {}
    PROVE  Max(S) \in S /\ \A y \in S : y <= Max(S)
<1> DEFINE T == {s \in SUBSET S : s # {} => \E x \in s : \A y \in s : y <= x}
<1>1. ASSUME NEW s \in SUBSET S, \A x \in s : s \ {x} \in T PROVE s \in T
  <2> SUFFICES ASSUME s # {} PROVE \E x \in s : \A y \in s : y <= x
    OBVIOUS
  <2>1. PICK x \in s : TRUE
    OBVIOUS
  <2>2. CASE s \ {x} = {}
    BY <2>1, <2>2
  <2>3. CASE s \ {x} # {}
    <3>1. PICK z \in s \ {x} : \A y \in s \ {x} : y <= z
      BY <1>1, <2>3
    <3>. QED
      BY <2>1, <3>1
  <2>. QED
    BY <2>2, <2>3
<1>2. SUBSET S \subseteq T
  <2> HIDE DEF T
  <2>. QED
    BY <1>1, SubsetInduction
<1>3. \E x \in S : \A y \in S : x >= y
  <2>1. PICK x \in S : \A y \in S : y <= x
    BY <1>2
  <2>. QED
    BY <2>1
<1>4. Max(S) \in S /\ \A y \in S : Max(S) >= y
  BY <1>3 DEF Max
<1>. QED
  BY <1>4

(* g is the fold of in over every set of its positions.                    *)
SetRun(H, base, in, g) ==
    g = [S \in SUBSET (1 .. Len(in)) |->
            IF S = {} THEN base ELSE H[<<g[S \ {Max(S)}], in[Max(S)]>>]]

(* So it is if it stays within the states St.                              *)
TypedRun(H, St, base, in, g) ==
    SetRun(H, base, in, g) /\ \A S \in SUBSET (1 .. Len(in)) : g[S] \in St

Follows(X, St, H, base, in, g) ==
    /\ H \in [St \X X -> St] /\ base \in St /\ in \in Seq(X)
    /\ g[{}] = base
    /\ \A S \in SUBSET (1 .. Len(in)) :
          S # {} /\ g[S \ {Max(S)}] \in St => g[S] = H[<<g[S \ {Max(S)}], in[Max(S)]>>]

LEMMA SetRunExists ==
    ASSUME NEW X, NEW St, NEW H \in [St \X X -> St], NEW base \in St, NEW in \in Seq(X)
    PROVE  \E g : TypedRun(H, St, base, in, g)
<1> DEFINE P == 1 .. Len(in)
           Step(g, S) == IF S = {} THEN base ELSE H[<<g[S \ {Max(S)}], in[Max(S)]>>]
           Right(g, n) == \A S \in SUBSET P : Cardinality(S) <= n => g[S] = Step(g, S)
           reached == {n \in Nat : \E g : Right(g, n)}
<1>0. Len(in) \in Nat /\ IsFiniteSet(P) /\ P \subseteq Int
  BY FS_Interval
<1>1. \A S \in SUBSET P : IsFiniteSet(S) /\ Cardinality(S) \in Nat /\ Cardinality(S) <= Cardinality(P)
  <2> HIDE DEF P
  <2>. QED
    BY <1>0, FS_Subset, FS_CardinalityType
<1>2. \A S \in SUBSET P : S # {} => Max(S) \in S /\ Max(S) \in P /\ S \ {Max(S)} \in SUBSET P
  <2> SUFFICES ASSUME NEW S \in SUBSET P, S # {} PROVE Max(S) \in S
    OBVIOUS
  <2>1. IsFiniteSet(S) /\ S \subseteq Int
    BY <1>0, <1>1
  <2>. QED
    BY <2>1, MaxInSet
<1>3. 0 \in reached
  <2> DEFINE zero == [S \in SUBSET P |-> base]
  <2>1. ASSUME NEW S \in SUBSET P, Cardinality(S) <= 0 PROVE zero[S] = Step(zero, S)
    <3>1. S = {}
      BY <1>1, <2>1, FS_EmptySet
    <3>. QED
      BY <3>1
  <2>2. Right(zero, 0)
    BY <2>1
  <2> HIDE DEF zero, Right
  <2>. QED
    BY <2>2
<1>4. ASSUME NEW n \in Nat, n \in reached PROVE n + 1 \in reached
  <2>1. PICK g : Right(g, n)
    BY <1>4
  <2> DEFINE next == [S \in SUBSET P |-> Step(g, S)]
  <2>2. ASSUME NEW S \in SUBSET P, Cardinality(S) <= n + 1
        PROVE  next[S] = Step(next, S)
    <3>1. CASE S = {}
      BY <3>1
    <3>2. CASE S # {}
      <4> DEFINE m == Max(S)
      <4>1. m \in S /\ S \ {m} \in SUBSET P
        BY <1>2, <3>2
      <4>2. Cardinality(S \ {m}) <= n
        <5>1. IsFiniteSet(S) /\ Cardinality(S) \in Nat
          BY <1>1
        <5>2. Cardinality(S \ {m}) = Cardinality(S) - 1
          <6> HIDE DEF m
          <6>. QED
            BY <4>1, <5>1, FS_RemoveElement
        <5>. QED
          BY <2>2, <5>1, <5>2
      <4>3. next[S \ {m}] = g[S \ {m}]
        BY <2>1, <4>1, <4>2
      <4>4. next[S] = H[<<g[S \ {m}], in[m]>>]
        BY <3>2
      <4>5. Step(next, S) = H[<<next[S \ {m}], in[m]>>]
        <5> HIDE DEF next
        <5>. QED
          BY <3>2
      <4>. QED
        BY <4>3, <4>4, <4>5
    <3>. QED
      BY <3>1, <3>2
  <2>3. Right(next, n + 1)
    BY <2>2
  <2> HIDE DEF next, Right
  <2>. QED
    BY <2>3
<1>5. Cardinality(P) \in reached
  <2>1. Nat \subseteq reached
    <3> HIDE DEF reached
    <3>. QED
      BY <1>3, <1>4, NatSetInduction
  <2> HIDE DEF reached, P
  <2>. QED
    BY <1>0, <2>1, FS_CardinalityType
<1>6. PICK g : Right(g, Cardinality(P))
  BY <1>5
<1>7. \A S \in SUBSET P : g[S] = Step(g, S)
  BY <1>1, <1>6
<1> DEFINE fold == [S \in SUBSET P |-> g[S]]
<1>8. \A S \in SUBSET P : fold[S] = Step(fold, S)
  <2> SUFFICES ASSUME NEW S \in SUBSET P PROVE fold[S] = Step(fold, S)
    OBVIOUS
  <2>1. CASE S = {}
    BY <1>7, <2>1
  <2>2. CASE S # {}
    <3>1. S \ {Max(S)} \in SUBSET P
      BY <1>2, <2>2
    <3>2. fold[S \ {Max(S)}] = g[S \ {Max(S)}] /\ fold[S] = g[S]
      BY <3>1
    <3> HIDE DEF fold
    <3>. QED
      BY <1>7, <2>2, <3>2
  <2>. QED
    BY <2>1, <2>2
<1>9. fold = [S \in SUBSET P |-> Step(fold, S)]
  <2>1. fold = [S \in SUBSET P |-> fold[S]]
    OBVIOUS
  <2> HIDE DEF fold, Step
  <2>. QED
    BY <1>8, <2>1
<1>10. SetRun(H, base, in, fold)
  <2> HIDE DEF fold
  <2>. QED
    BY <1>9 DEF SetRun
<1>11. \A S \in SUBSET P : fold[S] \in St
  <2> DEFINE T == {S \in SUBSET P : fold[S] \in St}
  <2>1. ASSUME NEW S \in SUBSET P, \A x \in S : S \ {x} \in T PROVE S \in T
    <3>1. CASE S = {}
      BY <1>8, <3>1
    <3>2. CASE S # {}
      <4>1. Max(S) \in S /\ Max(S) \in P
        BY <1>2, <3>2
      <4>2. fold[S \ {Max(S)}] \in St /\ in[Max(S)] \in X
        <5>1. S \ {Max(S)} \in T
          BY <2>1, <4>1
        <5>2. in[Max(S)] \in X
          BY <4>1
        <5> HIDE DEF fold, P
        <5>. QED
          BY <5>1, <5>2
      <4>3. fold[S] = H[<<fold[S \ {Max(S)}], in[Max(S)]>>]
        BY <1>8, <3>2
      <4> HIDE DEF fold
      <4>. QED
        BY <4>2, <4>3
    <3>. QED
      BY <3>1, <3>2
  <2>2. SUBSET P \subseteq T
    <3> HIDE DEF T, P
    <3>. QED
      BY <1>0, <2>1, SubsetInduction
  <2>. QED
    BY <2>2
<1>. QED
  BY <1>10, <1>11 DEF TypedRun

(* A fold over the sets of positions is one over the prefixes.             *)
LEMMA SetRunFolds ==
    ASSUME NEW X, NEW St, NEW H, NEW base, NEW in, NEW g, Follows(X, St, H, base, in, g)
    PROVE  g[DOMAIN in] = Folded(H, base, in)
<1> SUFFICES ASSUME H \in [St \X X -> St], base \in St, in \in Seq(X)
             PROVE  g[DOMAIN in] = Folded(H, base, in)
  BY DEF Follows
<1>0. PICK r : RunsTo(H, base, Len(in), in, r) /\ Folded(H, base, in) = r[Len(in)]
  BY FoldedRun
<1> DEFINE n == Len(in)
           T == {k \in Nat : k <= n => g[1 .. k] = r[k] /\ r[k] \in St}
<1>1. n \in Nat /\ \A k \in 1 .. n : in[k] \in X
  OBVIOUS
<1> HIDE DEF n
<1>2. 0 \in T
  <2>1. 1 .. 0 = {}
    OBVIOUS
  <2>2. g[1 .. 0] = base
    BY <2>1 DEF Follows
  <2>. QED
    BY <1>0, <2>2 DEF RunsTo
<1>3. ASSUME NEW k \in Nat, k \in T PROVE k + 1 \in T
  <2> SUFFICES ASSUME k + 1 <= n PROVE g[1 .. k + 1] = r[k + 1] /\ r[k + 1] \in St
    OBVIOUS
  <2> DEFINE S == 1 .. (k + 1)
  <2>1. S \in SUBSET (1 .. n) /\ S # {} /\ k + 1 \in S /\ \A y \in S : y <= k + 1
    <3>1. k + 1 \in S /\ \A y \in S : y <= k + 1
      OBVIOUS
    <3>2. \A y \in S : y \in 1 .. n
      BY <1>1
    <3> HIDE DEF S
    <3>. QED
      BY <3>1, <3>2
  <2>2. Max(S) = k + 1
    <3>1. IsFiniteSet(S) /\ S \subseteq Int
      BY FS_Interval
    <3>2. Max(S) \in S /\ \A y \in S : y <= Max(S)
      <4> HIDE DEF S
      <4>. QED
        BY <2>1, <3>1, MaxInSet
    <3>. QED
      BY <2>1, <3>2
  <2>3. S \ {k + 1} = 1 .. k
    OBVIOUS
  <2>4. g[1 .. k] = r[k] /\ r[k] \in St
    BY <1>1, <1>3
  <2>5. r[k + 1] = H[<<r[k], in[k + 1]>>]
    <3>1. k + 1 \in 1 .. n /\ k + 1 - 1 = k
      BY <1>1
    <3>. QED
      BY <1>0, <3>1 DEF RunsTo, n
  <2>6. g[S] = H[<<g[1 .. k], in[k + 1]>>]
    <3> HIDE DEF S
    <3>. QED
      BY <2>1, <2>2, <2>3, <2>4 DEF n, Follows
  <2>7. in[k + 1] \in X
    BY <1>1
  <2>. QED
    BY <2>4, <2>5, <2>6, <2>7
<1>4. Nat \subseteq T
  <2> HIDE DEF T
  <2>. QED
    BY <1>2, <1>3, NatSetInduction
<1>5. DOMAIN in = 1 .. n
  BY DEF n
<1>. QED
  BY <1>0, <1>1, <1>4, <1>5 DEF n

(* The last of a set of positions.                                         *)
LEMMA LastPosition ==
    ASSUME NEW X, NEW in \in Seq(X)
    PROVE  /\ DOMAIN in = 1 .. Len(in) /\ Len(in) \in Nat
           /\ \A S \in SUBSET (1 .. Len(in)) :
                 S # {} => Max(S) \in S /\ in[Max(S)] \in X /\ S \ {Max(S)} \in SUBSET (1 .. Len(in))
<1>1. IsFiniteSet(1 .. Len(in)) /\ 1 .. Len(in) \subseteq Int
  BY FS_Interval
<1>2. ASSUME NEW S \in SUBSET (1 .. Len(in)), S # {} PROVE Max(S) \in S
  <2>1. IsFiniteSet(S) /\ S \subseteq Int
    BY <1>1, FS_Subset
  <2>. QED
    BY <1>2, <2>1, MaxInSet
<1>3. ASSUME NEW S \in SUBSET (1 .. Len(in)), S # {} PROVE in[Max(S)] \in X
  <2>1. Max(S) \in 1 .. Len(in)
    BY <1>2, <1>3
  <2>. QED
    BY <2>1
<1>4. DOMAIN in = 1 .. Len(in) /\ Len(in) \in Nat
  OBVIOUS
<1>. QED
  BY <1>2, <1>3, <1>4

(* One run after another.                                                  *)
LEMMA FoldedConcat ==
    ASSUME NEW X, NEW H, NEW base, NEW p \in Seq(X), NEW q \in Seq(X)
    PROVE  Folded(H, base, p \o q) = Folded(H, Folded(H, base, p), q)
<1> DEFINE T == {t \in Seq(X) : Folded(H, base, p \o t) = Folded(H, Folded(H, base, p), t)}
<1>1. << >> \in T
  <2>1. p \o << >> = p
    BY ConcatEmptySeq
  <2>2. << >> \in Seq(X)
    OBVIOUS
  <2>3. Folded(H, Folded(H, base, p), << >>) = Folded(H, base, p)
    BY FoldedEmpty
  <2>. QED
    BY <2>1, <2>2, <2>3
<1>2. ASSUME NEW t \in Seq(X), NEW b \in X, t \in T PROVE Append(t, b) \in T
  <2> DEFINE m == Folded(H, base, p)
             pt == p \o t
  <2>1. p \o Append(t, b) = Append(pt, b) /\ pt \in Seq(X) /\ Append(t, b) \in Seq(X)
    OBVIOUS
  <2> HIDE DEF m, pt
  <2>2. Folded(H, base, Append(pt, b)) = H[<<Folded(H, base, pt), b>>]
    BY <2>1, FoldedAppend
  <2>3. Folded(H, m, Append(t, b)) = H[<<Folded(H, m, t), b>>]
    BY FoldedAppend
  <2>4. Folded(H, base, pt) = Folded(H, m, t)
    BY <1>2 DEF m, pt
  <2>5. Folded(H, base, p \o Append(t, b)) = Folded(H, m, Append(t, b))
    BY <2>1, <2>2, <2>3, <2>4
  <2>. QED
    BY <2>1, <2>5 DEF m
<1>3. Seq(X) \subseteq T
  <2> HIDE DEF T
  <2>. QED
    BY <1>1, <1>2, SeqSetInduction
<1>. QED
  BY <1>3

(* FlattenSeq is a run of concatenations.                                  *)
LEMMA FlattenFolds ==
    ASSUME NEW X, NEW qs \in Seq(Seq(X))
    PROVE  FlattenSeq(qs) = Folded([p \in Seq(X) \X Seq(X) |-> p[1] \o p[2]], << >>, qs)
<1> DEFINE St == Seq(X)
           H == [p \in St \X St |-> p[1] \o p[2]]
           n == Len(qs)
           Law(f) == f = [i \in 1 .. n |-> IF i = 1 THEN qs[i] ELSE f[i - 1] \o qs[i]]
<1>1. H \in [St \X St -> St] /\ << >> \in St /\ n \in Nat /\ DOMAIN qs = 1 .. n
  OBVIOUS
<1>2. \A i \in 1 .. n : qs[i] \in St
  OBVIOUS
<1>3. /\ \A s, t \in St : H[<<s, t>>] = s \o t
      /\ \A t \in St : << >> \o t = t
  <2>1. \A s, t \in St : H[<<s, t>>] = s \o t
    OBVIOUS
  <2>2. \A t \in St : << >> \o t = t
    BY ConcatEmptySeq
  <2>. QED
    BY <2>1, <2>2
<1>4. PICK r : RunsTo(H, << >>, n, qs, r) /\ Folded(H, << >>, qs) = r[n]
  <2> HIDE DEF H
  <2>. QED
    BY FoldedRun
<1>5. CASE n = 0
  <2>1. qs = << >>
    BY <1>5
  <2>. QED
    BY <1>5, <2>1, FoldedEmpty DEF FlattenSeq
<1>6. CASE n # 0
  <2>1. FlattenSeq(qs) = (CHOOSE f : Law(f))[n]
    BY <1>6 DEF FlattenSeq
  <2> HIDE DEF H, St, n
  <2> DEFINE g == [i \in 1 .. n |-> r[i]]
             T == {k \in Nat : k <= n => r[k] \in St}
  <2>2. r[0] = << >> /\ \A k \in 1 .. n : r[k] = H[<<r[k - 1], qs[k]>>]
    BY <1>4 DEF RunsTo
  <2>3. 0 \in T
    BY <1>1, <2>2
  <2>4. ASSUME NEW k \in Nat, k \in T PROVE k + 1 \in T
    <3> SUFFICES ASSUME k + 1 <= n PROVE r[k + 1] \in St
      OBVIOUS
    <3>1. k + 1 \in 1 .. n /\ k + 1 - 1 = k /\ r[k] \in St
      BY <1>1, <2>4
    <3>2. r[k + 1] = H[<<r[k], qs[k + 1]>>] /\ qs[k + 1] \in St
      BY <1>2, <2>2, <3>1
    <3>3. H[<<r[k], qs[k + 1]>>] \in St
      BY <1>1, <3>1, <3>2
    <3>. QED
      BY <3>2, <3>3
  <2>5. Nat \subseteq T
    <3> HIDE DEF T
    <3>. QED
      BY <2>3, <2>4, NatSetInduction
  <2>6. \A i \in 1 .. n : r[i] = r[i - 1] \o qs[i]
    <3> SUFFICES ASSUME NEW i \in 1 .. n PROVE r[i] = r[i - 1] \o qs[i]
      OBVIOUS
    <3>1. i - 1 \in Nat /\ i - 1 <= n
      BY <1>1
    <3>2. r[i - 1] \in St /\ qs[i] \in St
      BY <1>2, <2>5, <3>1
    <3>. QED
      BY <1>3, <2>2, <3>2
  <2>7. \A i \in 1 .. n : g[i] = IF i = 1 THEN qs[i] ELSE g[i - 1] \o qs[i]
    <3> SUFFICES ASSUME NEW i \in 1 .. n PROVE g[i] = IF i = 1 THEN qs[i] ELSE g[i - 1] \o qs[i]
      OBVIOUS
    <3>1. CASE i = 1
      <4>1. r[0] \o qs[1] = qs[1]
        BY <1>2, <1>3, <2>2, <3>1
      <4>2. r[1] = r[0] \o qs[1]
        <5>1. 1 - 1 = 0
          OBVIOUS
        <5>2. r[1] = r[1 - 1] \o qs[1]
          BY <2>6, <3>1
        <5>. QED
          BY <5>1, <5>2
      <4>3. g[i] = r[i]
        OBVIOUS
      <4> HIDE DEF g
      <4>. QED
        BY <3>1, <4>1, <4>2, <4>3
    <3>2. CASE i # 1
      <4>1. i - 1 \in 1 .. n
        BY <1>1, <3>2
      <4>2. g[i] = r[i] /\ g[i - 1] = r[i - 1]
        BY <4>1
      <4> HIDE DEF g
      <4>. QED
        BY <2>6, <3>2, <4>2
    <3>. QED
      BY <3>1, <3>2
  <2>8. Law(g)
    <3>1. g = [i \in 1 .. n |-> g[i]]
      OBVIOUS
    <3> HIDE DEF g
    <3>. QED
      BY <2>7, <3>1
  <2>9. PICK f : Law(f) /\ FlattenSeq(qs) = f[n]
    <3> HIDE DEF Law, g
    <3>. QED
      BY <2>1, <2>8
  <2> HIDE DEF g
  <2> DEFINE U == {k \in Nat : k + 1 <= n => f[k + 1] = r[k + 1]}
  <2>10. \A i \in 1 .. n : f[i] = IF i = 1 THEN qs[i] ELSE f[i - 1] \o qs[i]
    <3>1. \A h : Law(h) => \A i \in 1 .. n : h[i] = IF i = 1 THEN qs[i] ELSE h[i - 1] \o qs[i]
      OBVIOUS
    <3> HIDE DEF Law
    <3>. QED
      BY <2>9, <3>1
  <2>11. 0 \in U
    <3> SUFFICES ASSUME 1 <= n PROVE f[1] = r[1]
      OBVIOUS
    <3>1. 1 \in 1 .. n /\ 1 - 1 = 0
      BY <1>1
    <3>2. f[1] = qs[1] /\ r[1] = << >> \o qs[1]
      BY <2>2, <2>6, <2>10, <3>1
    <3>. QED
      BY <1>2, <1>3, <3>1, <3>2
  <2>12. ASSUME NEW k \in Nat, k \in U PROVE k + 1 \in U
    <3> SUFFICES ASSUME (k + 1) + 1 <= n PROVE f[(k + 1) + 1] = r[(k + 1) + 1]
      OBVIOUS
    <3> DEFINE j == k + 2
    <3>1. j \in 1 .. n /\ j # 1 /\ j - 1 = k + 1 /\ (k + 1) + 1 = j /\ k + 1 <= n
      BY <1>1
    <3> HIDE DEF j
    <3>2. f[j] = f[j - 1] \o qs[j] /\ r[j] = r[j - 1] \o qs[j]
      BY <2>6, <2>10, <3>1
    <3>. QED
      BY <2>12, <3>1, <3>2
  <2>13. Nat \subseteq U
    <3> HIDE DEF U
    <3>. QED
      BY <2>11, <2>12, NatSetInduction
  <2>14. f[n] = r[n]
    <3>1. n - 1 \in Nat /\ (n - 1) + 1 = n
      BY <1>1, <1>6
    <3>2. n - 1 \in U
      BY <2>13, <3>1
    <3>. QED
      BY <3>1, <3>2
  <2>. QED
    BY <1>4, <2>9, <2>14 DEF H, St
<1>. QED
  BY <1>5, <1>6

LEMMA FlattenLaws ==
    ASSUME NEW X
    PROVE  /\ FlattenSeq(<< >>) = << >>
           /\ \A qs \in Seq(Seq(X)) : FlattenSeq(qs) \in Seq(X)
           /\ \A qs \in Seq(Seq(X)), s \in Seq(X) :
                 FlattenSeq(Append(qs, s)) = FlattenSeq(qs) \o s
<1> DEFINE St == Seq(X)
           H == [p \in St \X St |-> p[1] \o p[2]]
<1>1. H \in [St \X St -> St] /\ << >> \in St
  OBVIOUS
<1>2. \A s, t \in St : H[<<s, t>>] = s \o t
  OBVIOUS
<1>3. \A qs \in Seq(St) : FlattenSeq(qs) = Folded(H, << >>, qs)
  BY FlattenFolds
<1> HIDE DEF H, St
<1>4. FlattenSeq(<< >>) = << >>
  <2>1. << >> \in Seq(St)
    OBVIOUS
  <2>. QED
    BY <1>3, <2>1, FoldedEmpty
<1>5. \A qs \in Seq(St) : Folded(H, << >>, qs) \in St
  BY <1>1, FoldedType
<1>6. ASSUME NEW qs \in Seq(St), NEW s \in St
      PROVE  FlattenSeq(Append(qs, s)) = FlattenSeq(qs) \o s
  <2>1. Append(qs, s) \in Seq(St)
    OBVIOUS
  <2>2. Folded(H, << >>, Append(qs, s)) = H[<<Folded(H, << >>, qs), s>>]
    BY FoldedAppend
  <2>. QED
    BY <1>2, <1>3, <1>5, <2>1, <2>2
<1>. QED
  BY <1>3, <1>4, <1>5, <1>6 DEF St

(* What a function makes of each element.                                  *)
Images(g, q) == [k \in DOMAIN q |-> g[q[k]]]

Maps(X, Y, g) == g \in [X -> Y]

LEMMA PrefixAppends ==
    ASSUME NEW X, NEW f, NEW n \in Nat, \A i \in 1 .. (n + 1) : f[i] \in X
    PROVE  /\ [i \in 1 .. n |-> f[i]] \in Seq(X)
           /\ [i \in 1 .. (n + 1) |-> f[i]] = Append([i \in 1 .. n |-> f[i]], f[n + 1])
<1> DEFINE s == [i \in 1 .. n |-> f[i]]
           t == [i \in 1 .. (n + 1) |-> f[i]]
<1>1. s \in Seq(X) /\ t \in Seq(X) /\ Len(s) = n /\ Len(t) = n + 1
  OBVIOUS
<1>2. Append(s, f[n + 1]) \in Seq(X) /\ Len(Append(s, f[n + 1])) = n + 1
  <2>1. f[n + 1] \in X
    OBVIOUS
  <2> HIDE DEF s
  <2>. QED
    BY <1>1, <2>1
<1>3. ASSUME NEW i \in 1 .. (n + 1) PROVE t[i] = Append(s, f[n + 1])[i]
  <2>1. t[i] = f[i]
    OBVIOUS
  <2>2. i \in 1 .. n => s[i] = f[i]
    OBVIOUS
  <2> HIDE DEF s, t
  <2>. QED
    BY <1>1, <2>1, <2>2
<1>4. t = Append(s, f[n + 1])
  <2> HIDE DEF s, t
  <2>. QED
    BY <1>1, <1>2, <1>3, SeqEqual
<1>. QED
  BY <1>1, <1>4

LEMMA ImageLaws ==
    ASSUME NEW X, NEW Y, NEW g, Maps(X, Y, g)
    PROVE  /\ Images(g, << >>) = << >>
           /\ \A q \in Seq(X) : Images(g, q) \in Seq(Y) /\ Len(Images(g, q)) = Len(q)
           /\ \A q \in Seq(X), b \in X : Images(g, Append(q, b)) = Append(Images(g, q), g[b])
<1>0. g \in [X -> Y]
  BY DEF Maps
<1>1. Images(g, << >>) = << >>
  BY DEF Images
<1>2. ASSUME NEW q \in Seq(X) PROVE Images(g, q) \in Seq(Y) /\ Len(Images(g, q)) = Len(q)
  <2>1. DOMAIN q = 1 .. Len(q) /\ Len(q) \in Nat /\ \A k \in 1 .. Len(q) : q[k] \in X
    OBVIOUS
  <2>. QED
    BY <1>0, <2>1 DEF Images
<1>3. ASSUME NEW q \in Seq(X), NEW b \in X PROVE Images(g, Append(q, b)) = Append(Images(g, q), g[b])
  <2> DEFINE p == Append(q, b)
             n == Len(q)
             f == [k \in 1 .. (n + 1) |-> g[p[k]]]
  <2>1. /\ n \in Nat /\ DOMAIN q = 1 .. n /\ DOMAIN p = 1 .. (n + 1)
        /\ p[n + 1] = b /\ \A i \in 1 .. n : p[i] = q[i]
    OBVIOUS
  <2>2. \A i \in 1 .. (n + 1) : p[i] \in X
    OBVIOUS
  <2> HIDE DEF n, p
  <2>3. \A i \in 1 .. (n + 1) : f[i] \in Y /\ f[i] = g[p[i]]
    BY <1>0, <2>2
  <2>4. n + 1 \in 1 .. (n + 1) /\ \A i \in 1 .. n : i \in 1 .. (n + 1)
    BY <2>1
  <2> HIDE DEF f
  <2>5. [k \in 1 .. (n + 1) |-> f[k]] = Append([k \in 1 .. n |-> f[k]], f[n + 1])
    BY <2>1, <2>3, PrefixAppends
  <2>6. Images(g, q) = [k \in 1 .. n |-> f[k]]
    BY <2>1, <2>3, <2>4 DEF Images
  <2>7. Images(g, p) = [k \in 1 .. (n + 1) |-> f[k]]
    BY <2>1, <2>3 DEF Images
  <2>8. f[n + 1] = g[b]
    BY <2>1, <2>3, <2>4
  <2>. QED
    BY <2>5, <2>6, <2>7, <2>8 DEF p
<1>. QED
  BY <1>1, <1>2, <1>3

LEMMA FlatImageLaws ==
    ASSUME NEW X, NEW Y, NEW g, Maps(X, Seq(Y), g)
    PROVE  /\ FlattenSeq(Images(g, << >>)) = << >>
           /\ \A q \in Seq(X) : FlattenSeq(Images(g, q)) \in Seq(Y)
           /\ \A q \in Seq(X), b \in X :
                 FlattenSeq(Images(g, Append(q, b))) = FlattenSeq(Images(g, q)) \o g[b]
<1>1. /\ Images(g, << >>) = << >>
      /\ \A q \in Seq(X) : Images(g, q) \in Seq(Seq(Y))
      /\ \A q \in Seq(X), b \in X : Images(g, Append(q, b)) = Append(Images(g, q), g[b])
  <2> DEFINE Z == Seq(Y)
  <2> HIDE DEF Z
  <2>1. Maps(X, Z, g)
    BY DEF Z
  <2>2. /\ Images(g, << >>) = << >>
        /\ \A q \in Seq(X) : Images(g, q) \in Seq(Z)
        /\ \A q \in Seq(X), b \in X : Images(g, Append(q, b)) = Append(Images(g, q), g[b])
    BY <2>1, ImageLaws
  <2>. QED
    BY <2>2 DEF Z
<1>2. \A b \in X : g[b] \in Seq(Y)
  BY DEF Maps
<1>. QED
  BY <1>1, <1>2, FlattenLaws

-----------------------------------------------------------------------------
(* Joining sequences.                                                     *)

LEMMA Cat ==
    ASSUME NEW X, NEW a \in Seq(X), NEW b \in Seq(X)
    PROVE  /\ a \o b \in Seq(X) /\ Len(a \o b) = Len(a) + Len(b) /\ Len(a) \in Nat /\ Len(b) \in Nat
           /\ \A i \in 1 .. Len(a) : (a \o b)[i] = a[i]
           /\ \A i \in 1 .. Len(b) : (a \o b)[Len(a) + i] = b[i]
  OBVIOUS

LEMMA WithNothing ==
    ASSUME NEW X, NEW a \in Seq(X)
    PROVE  a \o << >> = a /\ << >> \o a = a /\ << >> \in Seq(X)
<1> DEFINE z == << >>
           l == a \o z
           r == z \o a
<1>1. z \in Seq(X) /\ Len(z) = 0
  OBVIOUS
<1> HIDE DEF z
<1>2. l \in Seq(X) /\ Len(l) = Len(a) /\ \A i \in 1 .. Len(a) : l[i] = a[i]
  BY <1>1
<1>3. r \in Seq(X) /\ Len(r) = Len(a) /\ \A i \in 1 .. Len(a) : r[i] = a[i]
  <2>1. \A i \in 1 .. Len(a) : r[Len(z) + i] = a[i]
    BY <1>1, Cat
  <2>. QED
    BY <1>1, <2>1
<1> HIDE DEF l, r
<1>4. l = a /\ r = a
  BY <1>2, <1>3, SeqEqual
<1>. QED
  BY <1>1, <1>4 DEF l, r, z

LEMMA Ends ==
    ASSUME NEW X, NEW a \in Seq(X), NEW b \in Seq(X)
    PROVE  /\ a # << >> => (a \o b)[1] = a[1] /\ a \o b # << >>
           /\ b # << >> => (a \o b)[Len(a \o b)] = b[Len(b)] /\ a \o b # << >>
<1> DEFINE s == a \o b
           m == Len(a)
           n == Len(b)
<1>1. s \in Seq(X) /\ Len(s) = m + n /\ m \in Nat /\ n \in Nat
      /\ (\A i \in 1 .. m : s[i] = a[i]) /\ \A i \in 1 .. n : s[m + i] = b[i]
  BY Cat
<1>2. a # << >> => m >= 1
  OBVIOUS
<1>3. b # << >> => n >= 1
  OBVIOUS
<1>4. s = << >> => Len(s) = 0
  OBVIOUS
<1> HIDE DEF s, m, n
<1>5. a # << >> => s[1] = a[1] /\ s # << >>
  BY <1>1, <1>2, <1>4
<1>6. b # << >> => s[Len(s)] = b[n] /\ s # << >>
  BY <1>1, <1>3, <1>4
<1>. QED
  BY <1>5, <1>6 DEF s, n

LEMMA Assoc ==
    ASSUME NEW X, NEW a \in Seq(X), NEW b \in Seq(X), NEW y \in Seq(X)
    PROVE  (a \o b) \o y = a \o (b \o y) /\ (a \o b) \o y \in Seq(X)
<1> DEFINE ab == a \o b
           bc == b \o y
           l == ab \o y
           r == a \o bc
           m == Len(a)
           n == Len(b)
           k == Len(y)
<1>1. m \in Nat /\ n \in Nat /\ k \in Nat
  OBVIOUS
<1>2. ab \in Seq(X) /\ Len(ab) = m + n /\ (\A i \in 1 .. m : ab[i] = a[i]) /\ \A i \in 1 .. n : ab[m + i] = b[i]
  OBVIOUS
<1>3. bc \in Seq(X) /\ Len(bc) = n + k /\ (\A i \in 1 .. n : bc[i] = b[i]) /\ \A i \in 1 .. k : bc[n + i] = y[i]
  OBVIOUS
<1> HIDE DEF ab, bc
<1>4. l \in Seq(X) /\ Len(l) = Len(ab) + Len(y) /\ (\A i \in 1 .. Len(ab) : l[i] = ab[i])
      /\ \A i \in 1 .. Len(y) : l[Len(ab) + i] = y[i]
  <2>1. ab \in Seq(X) /\ y \in Seq(X)
    BY <1>2
  <2>. QED
    BY <2>1
<1>5. r \in Seq(X) /\ Len(r) = Len(a) + Len(bc) /\ (\A i \in 1 .. Len(a) : r[i] = a[i])
      /\ \A i \in 1 .. Len(bc) : r[Len(a) + i] = bc[i]
  <2>1. bc \in Seq(X) /\ a \in Seq(X)
    BY <1>3
  <2>. QED
    BY <2>1
<1> HIDE DEF l, r, m, n, k
<1>6. Len(l) = m + n + k /\ Len(r) = m + n + k
  BY <1>1, <1>2, <1>3, <1>4, <1>5 DEF m, k
<1>7. \A i \in 1 .. Len(l) : l[i] = r[i]
  <2> SUFFICES ASSUME NEW i \in 1 .. (m + n + k) PROVE l[i] = r[i]
    BY <1>6
  <2>1. CASE i \in 1 .. m
    <3>1. i \in 1 .. Len(ab)
      BY <1>1, <1>2, <2>1
    <3>. QED
      BY <1>2, <1>4, <1>5, <2>1, <3>1 DEF m
  <2>2. CASE i \in m + 1 .. m + n
    <3> DEFINE j == i - m
    <3>1. j \in 1 .. n /\ i = m + j /\ i \in 1 .. Len(ab) /\ j \in 1 .. Len(bc)
      BY <1>1, <1>2, <1>3, <2>2
    <3> HIDE DEF j
    <3>2. l[i] = b[j]
      BY <1>2, <1>4, <3>1
    <3>3. r[m + j] = b[j]
      BY <1>3, <1>5, <3>1 DEF m
    <3>. QED
      BY <3>1, <3>2, <3>3
  <2>3. CASE i \in m + n + 1 .. m + n + k
    <3> DEFINE j == i - (m + n)
               h == n + j
    <3>0. Len(bc) = n + k
      BY <1>3 DEF k, n
    <3>1. j \in 1 .. k /\ i = m + n + j /\ h \in 1 .. Len(bc) /\ i = m + h
      BY <1>1, <3>0, <2>3
    <3>2. h = n + j
      OBVIOUS
    <3> HIDE DEF j, h
    <3>3. l[m + n + j] = y[j]
      BY <1>2, <1>4, <3>1 DEF k
    <3>4. r[m + h] = bc[h] /\ bc[n + j] = y[j]
      BY <1>3, <1>5, <3>1 DEF m
    <3>. QED
      BY <3>1, <3>2, <3>3, <3>4
  <2>. QED
    BY <1>1, <2>1, <2>2, <2>3
<1>8. l = r
  BY <1>4, <1>5, <1>6, <1>7, SeqEqual
<1>. QED
  BY <1>4, <1>8 DEF l, r, ab, bc

(* Regrouping.                                                             *)
Triple(X, a, b, y) == a \in Seq(X) /\ b \in Seq(X) /\ y \in Seq(X)

LEMMA Grouped ==
    ASSUME NEW X, NEW a, NEW b, NEW y, Triple(X, a, b, y)
    PROVE  (a \o b) \o y = a \o (b \o y)
<1>1. a \in Seq(X) /\ b \in Seq(X) /\ y \in Seq(X)
  BY DEF Triple
<1>. QED
  BY <1>1, Assoc

Texts(X, p, a, b, y) == p \in Seq(X) /\ a \in Seq(X) /\ b \in Seq(X) /\ y \in Seq(X)

LEMMA Regroup3 ==
    ASSUME NEW X, NEW p, NEW a, NEW b, NEW y, Texts(X, p, a, b, y)
    PROVE  ((p \o a) \o b) \o y = p \o ((a \o b) \o y) /\ (a \o b) \o y \in Seq(X)
<1> DEFINE ab == a \o b
<1>0. p \in Seq(X) /\ a \in Seq(X) /\ b \in Seq(X) /\ y \in Seq(X)
  BY DEF Texts
<1>01. Triple(X, p, a, b)
  BY <1>0 DEF Triple
<1>1. (p \o a) \o b = p \o ab
  BY <1>01, Grouped
<1>2. ab \in Seq(X)
  BY <1>0, Cat
<1>3. ab \o y \in Seq(X)
  BY <1>0, <1>2, Cat
<1> HIDE DEF ab
<1>30. Triple(X, p, ab, y)
  BY <1>0, <1>2 DEF Triple
<1>4. (p \o ab) \o y = p \o (ab \o y)
  BY <1>30, Grouped
<1>. QED
  BY <1>1, <1>3, <1>4 DEF ab

LEMMA Regroup4 ==
    ASSUME NEW X, NEW p, NEW o, NEW m, NEW n, NEW s, Texts(X, p, o, m, n), s \in Seq(X)
    PROVE  /\ (((p \o o) \o m) \o n) \o s = p \o (o \o ((m \o n) \o s))
           /\ o \o ((m \o n) \o s) \in Seq(X)
<1> DEFINE q == (o \o m) \o n
           v == (m \o n) \o s
           r == o \o v
           l == ((p \o o) \o m) \o n
<1>01. Texts(X, o, m, n, s)
  BY DEF Texts
<1>02. p \in Seq(X) /\ o \in Seq(X) /\ s \in Seq(X)
  BY DEF Texts
<1>1. l = p \o q /\ q \in Seq(X)
  BY Regroup3
<1>2. q \o s = r /\ v \in Seq(X)
  BY <1>01, Regroup3
<1>3. r \in Seq(X)
  <2> HIDE DEF v
  <2>. QED
    BY <1>02, <1>2, Cat
<1> HIDE DEF q, v, r, l
<1>4. (p \o q) \o s = p \o (q \o s)
  <2>1. Triple(X, p, q, s)
    BY <1>02, <1>1 DEF Triple
  <2>. QED
    BY <2>1, Grouped
<1>6. l \o s = p \o r
  BY <1>1, <1>2, <1>4
<1>. QED
  BY <1>3, <1>6 DEF l, r, v

(* One more element.                                                       *)
LEMMA AppendJoins ==
    ASSUME NEW X, NEW q \in Seq(X), NEW y \in X
    PROVE  Append(q, y) = q \o <<y>>
<1> DEFINE l == Append(q, y)
           e == <<y>>
           r == q \o e
<1>1. l \in Seq(X) /\ Len(l) = Len(q) + 1 /\ (\A i \in 1 .. Len(q) : l[i] = q[i]) /\ l[Len(q) + 1] = y
  OBVIOUS
<1>2. e \in Seq(X) /\ Len(e) = 1 /\ e[1] = y
  OBVIOUS
<1> HIDE DEF l, e
<1>3. r \in Seq(X) /\ Len(r) = Len(q) + 1 /\ (\A i \in 1 .. Len(q) : r[i] = q[i])
      /\ \A i \in 1 .. Len(e) : r[Len(q) + i] = e[i]
  <2>1. e \in Seq(X)
    BY <1>2
  <2>2. r \in Seq(X) /\ Len(r) = Len(q) + Len(e) /\ (\A i \in 1 .. Len(q) : r[i] = q[i])
        /\ \A i \in 1 .. Len(e) : r[Len(q) + i] = e[i]
    BY <2>1, Cat
  <2> HIDE DEF r
  <2>. QED
    BY <1>2, <2>2
<1> HIDE DEF r
<1>4. Len(q) \in Nat
  OBVIOUS
<1>5. r[Len(q) + 1] = y
  BY <1>2, <1>3
<1>6. \A i \in 1 .. Len(l) : l[i] = r[i]
  BY <1>1, <1>3, <1>4, <1>5
<1>. QED
  BY <1>1, <1>3, <1>6, SeqEqual DEF l, r, e

LEMMA ConcatAppend ==
    ASSUME NEW Y, NEW v \in Seq(Y), NEW d \in Seq(Y), NEW h \in Y
    PROVE  v \o Append(d, h) = Append(v \o d, h) /\ v \o d \in Seq(Y)
<1> DEFINE e == <<h>>
           cd == v \o d
<1>1. e \in Seq(Y) /\ cd \in Seq(Y)
  OBVIOUS
<1>2. Append(d, h) = d \o e
  BY AppendJoins
<1>3. Triple(Y, v, d, e)
  BY <1>1 DEF Triple
<1> HIDE DEF e
<1>4. (v \o d) \o e = v \o (d \o e)
  BY <1>3, Grouped
<1> HIDE DEF cd
<1>5. Append(cd, h) = cd \o <<h>>
  BY <1>1, AppendJoins
<1>. QED
  BY <1>1, <1>2, <1>4, <1>5 DEF cd, e

-----------------------------------------------------------------------------
(* The least and the greatest.                                             *)

LEMMA LeastOf ==
    ASSUME NEW S, S \subseteq Int, NEW m \in S, \A k \in S : m <= k
    PROVE  Min(S) = m
<1>1. Min(S) = CHOOSE x \in S : \A y \in S : x <= y
  BY DEF Min
<1>2. \A x \in S : (\A y \in S : x <= y) => x = m
  OBVIOUS
<1>. QED
  BY <1>1, <1>2

(* Texts that are split into characters.                                   *)
LEMMA GreatestOf ==
    ASSUME NEW S, S \subseteq Int, NEW m \in S, \A k \in S : k <= m
    PROVE  Max(S) = m
<1>1. Max(S) = CHOOSE x \in S : \A y \in S : x >= y
  BY DEF Max
<1>2. \A x \in S : (\A y \in S : x >= y) => x = m
  OBVIOUS
<1>3. \A y \in S : m >= y
  OBVIOUS
<1>. QED
  BY <1>1, <1>2, <1>3

-----------------------------------------------------------------------------
(* Powers of two, and division.                                            *)

(* Powers of two.                                                          *)
LEMMA Pow2Facts ==
    /\ Pow2[0] = 1
    /\ \A n \in Nat : Pow2[n] \in Nat \ {0} /\ Pow2[n + 1] = 2 * Pow2[n]
<1> DEFINE H == [p \in Nat \X {0} |-> 2 * p[1]]
           in == [k \in Nat |-> 0]
           Law(f) == f = [n \in Nat |-> IF n = 0 THEN 1 ELSE 2 * f[n - 1]]
<1>1. PICK r : IsEndlessRun(H, 1, in, r)
  <2> HIDE DEF H, in
  <2>. QED
    BY RunForEver
<1>2. r[0] = 1 /\ \A n \in Nat : n # 0 => r[n] = H[<<r[n - 1], in[n]>>]
  <2> HIDE DEF H, in
  <2>. QED
    BY <1>1 DEF IsEndlessRun
<1> DEFINE T == {n \in Nat : r[n] \in Nat}
<1>3. Nat \subseteq T
  <2>1. 0 \in T
    BY <1>2
  <2>2. ASSUME NEW n \in Nat, n \in T PROVE n + 1 \in T
    <3>1. r[n + 1] = H[<<r[n], in[n + 1]>>]
      <4> HIDE DEF H, in
      <4>. QED
        BY <1>2
    <3>2. in[n + 1] = 0 /\ r[n] \in Nat
      BY <2>2
    <3>3. r[n + 1] = 2 * r[n]
      BY <3>1, <3>2
    <3>. QED
      BY <3>2, <3>3
  <2> HIDE DEF T
  <2>. QED
    BY <2>1, <2>2, NatSetInduction
<1>4. \A n \in Nat : n # 0 => r[n] = 2 * r[n - 1]
  <2> SUFFICES ASSUME NEW n \in Nat, n # 0 PROVE r[n] = 2 * r[n - 1]
    OBVIOUS
  <2>1. r[n] = H[<<r[n - 1], in[n]>>]
    <3> HIDE DEF H, in
    <3>. QED
      BY <1>2
  <2>2. in[n] = 0 /\ r[n - 1] \in Nat
    BY <1>3
  <2>. QED
    BY <2>1, <2>2
<1>5. Law(r)
  <2>1. r = [n \in Nat |-> r[n]]
    <3> HIDE DEF H, in
    <3>. QED
      BY <1>1 DEF IsEndlessRun
  <2>. QED
    BY <1>2, <1>4, <2>1
<1>6. Pow2 = CHOOSE f : Law(f)
  BY DEF Pow2
<1>7. Law(Pow2)
  <2> HIDE DEF Law
  <2>. QED
    BY <1>5, <1>6
<1>8. Pow2[0] = 1 /\ \A n \in Nat : Pow2[n + 1] = 2 * Pow2[n]
  <2>1. ASSUME NEW n \in Nat PROVE Pow2[n] = IF n = 0 THEN 1 ELSE 2 * Pow2[n - 1]
    <3>1. \A f : Law(f) => f[n] = IF n = 0 THEN 1 ELSE 2 * f[n - 1]
      OBVIOUS
    <3> HIDE DEF Law
    <3>. QED
      BY <1>7, <3>1
  <2>. QED
    BY <2>1
<1> DEFINE U == {n \in Nat : Pow2[n] \in Nat \ {0}}
<1>9. Nat \subseteq U
  <2>1. 0 \in U
    BY <1>8
  <2>2. ASSUME NEW n \in Nat, n \in U PROVE n + 1 \in U
    BY <1>8, <2>2
  <2> HIDE DEF U
  <2>. QED
    BY <2>1, <2>2, NatSetInduction
<1>. QED
  BY <1>8, <1>9

LEMMA Pow2Sum ==
    ASSUME NEW m \in Nat, NEW n \in Nat
    PROVE  Pow2[m + n] = Pow2[m] * Pow2[n]
<1> DEFINE T == {k \in Nat : Pow2[m + k] = Pow2[m] * Pow2[k]}
<1>1. 0 \in T
  BY Pow2Facts
<1>2. ASSUME NEW k \in Nat, k \in T PROVE k + 1 \in T
  <2>1. Pow2[(m + k) + 1] = 2 * Pow2[m + k] /\ Pow2[k + 1] = 2 * Pow2[k]
    BY Pow2Facts
  <2>2. Pow2[m] \in Nat /\ Pow2[k] \in Nat
    BY Pow2Facts
  <2>3. Pow2[m] * (2 * Pow2[k]) = 2 * (Pow2[m] * Pow2[k])
    BY <2>2
  <2>4. (m + k) + 1 = m + (k + 1)
    OBVIOUS
  <2>5. Pow2[m + k] = Pow2[m] * Pow2[k]
    BY <1>2
  <2>. QED
    BY <2>1, <2>3, <2>4, <2>5
<1>3. Nat \subseteq T
  <2> HIDE DEF T
  <2>. QED
    BY <1>1, <1>2, NatSetInduction
<1>. QED
  BY <1>3

LEMMA Pow2Grows ==
    ASSUME NEW m \in Nat, NEW n \in Nat, m <= n
    PROVE  Pow2[m] <= Pow2[n]
<1>1. n - m \in Nat /\ m + (n - m) = n
  OBVIOUS
<1>2. Pow2[n] = Pow2[m] * Pow2[n - m]
  BY <1>1, Pow2Sum
<1>3. Pow2[m] \in Nat \ {0} /\ Pow2[n - m] \in Nat \ {0}
  BY <1>1, Pow2Facts
<1>. QED
  BY <1>2, <1>3

(* Division.                                                               *)
LEMMA Divided ==
    ASSUME NEW p \in Nat \ {0}, NEW q \in Nat, NEW r \in 0 .. (p - 1)
    PROVE  (p * q + r) \div p = q /\ (p * q + r) % p = r
<1> DEFINE a == p * q + r
           d == a \div p
           m == a % p
<1>1. p * q \in Nat /\ a \in Nat
  OBVIOUS
<1>2. d \in Nat /\ m \in 0 .. (p - 1) /\ a = p * d + m
  <2> HIDE DEF a
  <2>. QED
    BY <1>1
<1>3. p * d \in Nat
  BY <1>2
<1>4. d = q
  <2> HIDE DEF d, m
  <2>1. CASE d >= q + 1
    <3>1. p * d >= p * (q + 1)
      BY <1>2, <2>1
    <3>2. p * (q + 1) = p * q + p
      OBVIOUS
    <3>. QED
      BY <1>1, <1>2, <1>3, <3>1, <3>2
  <2>2. CASE q >= d + 1
    <3>1. p * q >= p * (d + 1)
      BY <1>2, <2>2
    <3>2. p * (d + 1) = p * d + p
      BY <1>2
    <3>. QED
      BY <1>1, <1>2, <1>3, <3>1, <3>2
  <2>. QED
    BY <1>2, <2>1, <2>2
<1>. QED
  BY <1>1, <1>2, <1>3, <1>4

LEMMA HalfDivided ==
    ASSUME NEW a \in Nat, NEW p \in Nat \ {0}
    PROVE  (a \div 2) \div p = a \div (2 * p)
<1> DEFINE q == a \div (2 * p)
           r == a % (2 * p)
<1>1. q \in Nat /\ r \in 0 .. (2 * p - 1) /\ a = (2 * p) * q + r
  <2> DEFINE t == 2 * p
  <2>1. t \in Nat \ {0}
    OBVIOUS
  <2> HIDE DEF t
  <2>2. a \div t \in Nat /\ a % t \in 0 .. (t - 1) /\ a = t * (a \div t) + (a % t)
    BY <2>1
  <2>. QED
    BY <2>2 DEF t
<1> HIDE DEF q, r
<1>2. (2 * p) * q = 2 * (p * q) /\ p * q \in Nat
  BY <1>1
<1>3. a \div 2 = p * q + r \div 2 /\ r \div 2 \in 0 .. (p - 1)
  BY <1>1, <1>2
<1>4. (p * q + r \div 2) \div p = q
  BY <1>1, <1>3, Divided
<1>. QED
  BY <1>3, <1>4 DEF q

LEMMA DividedHalf ==
    ASSUME NEW a \in Nat, NEW p \in Nat \ {0}
    PROVE  (a \div p) \div 2 = a \div (2 * p)
<1> DEFINE q == a \div p
           r == a % p
           h == q \div 2
           m == q % 2
<1>1. q \in Nat /\ r \in 0 .. (p - 1) /\ a = p * q + r
  OBVIOUS
<1>2. h \in Nat /\ m \in 0 .. 1 /\ q = 2 * h + m
  <2> HIDE DEF q
  <2>. QED
    BY <1>1
<1> HIDE DEF q, r, h, m
<1>3. p * q = (2 * p) * h + p * m
  BY <1>2
<1>4. p * m + r \in 0 .. (2 * p - 1)
  BY <1>1, <1>2
<1>5. a = (2 * p) * h + (p * m + r)
  <2>1. p * m \in Nat /\ (2 * p) * h \in Nat
    BY <1>2
  <2>. QED
    BY <1>1, <1>3, <2>1
<1> DEFINE t == 2 * p
           u == p * m + r
<1>6. t \in Nat \ {0} /\ u \in 0 .. (t - 1) /\ a = t * h + u
  BY <1>4, <1>5
<1> HIDE DEF t, u
<1>7. (t * h + u) \div t = h
  BY <1>2, <1>6, Divided
<1>. QED
  BY <1>6, <1>7 DEF t, h, q

-----------------------------------------------------------------------------
(* Sequences in pieces that end in an element of a set.                    *)

(* What Split has read.                                                    *)
SplitStates(X) == [done : Seq(Seq(X)), rest : Seq(X)]

LEMMA SplitStepType ==
    ASSUME NEW X, NEW E, NEW kept, NEW s \in SplitStates(X), NEW b \in X
    PROVE  SplitStep(E, kept, s, b) \in SplitStates(X)
<1>1. s.done \in Seq(Seq(X)) /\ s.rest \in Seq(X)
  BY DEF SplitStates
<1>2. Append(s.rest, b) \in Seq(X) /\ << >> \in Seq(X)
  BY <1>1
<1> DEFINE piece == IF b \in kept THEN Append(s.rest, b) ELSE s.rest
<1>3. piece \in Seq(X)
  BY <1>1, <1>2
<1>4. Append(s.done, piece) \in Seq(Seq(X))
  <2> HIDE DEF piece
  <2>. QED
    BY <1>1, <1>3
<1> HIDE DEF piece
<1>5. CASE b \in E
  <2>1. SplitStep(E, kept, s, b) = [done |-> Append(s.done, piece), rest |-> << >>]
    BY <1>5 DEF SplitStep, piece
  <2>. QED
    BY <2>1, <1>4, <1>2 DEF SplitStates
<1>6. CASE b \notin E
  <2>1. SplitStep(E, kept, s, b) = [s EXCEPT !.rest = Append(s.rest, b)]
    BY <1>6 DEF SplitStep
  <2>. QED
    BY <2>1, <1>2 DEF SplitStates
<1>. QED
  BY <1>5, <1>6

(* Split, one element after the other.                                     *)
LEMMA SplitLaws ==
    ASSUME NEW X, NEW E, NEW kept
    PROVE  /\ Split(E, kept, << >>) = [done |-> << >>, rest |-> << >>]
           /\ \A q \in Seq(X) : Split(E, kept, q) \in SplitStates(X)
           /\ \A q \in Seq(X), b \in X :
                 Split(E, kept, Append(q, b)) = SplitStep(E, kept, Split(E, kept, q), b)
<1> DEFINE St == SplitStates(X)
           base == [done |-> << >>, rest |-> << >>]
           op(s, b) == SplitStep(E, kept, s, b)
           H == [p \in St \X X |-> op(p[1], p[2])]
<1>1. base \in St
  BY DEF SplitStates
<1>2. \A s \in St, b \in X : op(s, b) \in St
  BY SplitStepType
<1>3. \A in \in Seq(X) : Split(E, kept, in) = Folded(H, base, in)
  <2> SUFFICES ASSUME NEW in \in Seq(X) PROVE Split(E, kept, in) = Folded(H, base, in)
    OBVIOUS
  <2> DEFINE Law(g) == g = [S \in SUBSET DOMAIN in |->
                              IF S = {} THEN base ELSE LET x == Max(S) IN op(g[S \ {x}], in[x])]
  <2>1. Split(E, kept, in) = (CHOOSE g : Law(g))[DOMAIN in]
    BY DEF FoldLeft, MapThenFoldSet, Split
  <2> HIDE DEF op, St, base
  <2>2. \A s \in St, b \in X : H[<<s, b>>] = op(s, b)
    OBVIOUS
  <2>3. H \in [St \X X -> St]
    BY <1>2
  <2> HIDE DEF H
  <2>4. ASSUME NEW g, TypedRun(H, St, base, in, g) PROVE Law(g)
    <3>1. \A S \in SUBSET (1 .. Len(in)) :
             S # {} => H[<<g[S \ {Max(S)}], in[Max(S)]>>] = op(g[S \ {Max(S)}], in[Max(S)])
      BY <2>2, <2>4, LastPosition DEF TypedRun
    <3>2. DOMAIN in = 1 .. Len(in)
      OBVIOUS
    <3>. QED
      BY <2>4, <3>1, <3>2 DEF SetRun, TypedRun
  <2>5. ASSUME NEW g, Law(g) PROVE Follows(X, St, H, base, in, g)
    <3>1. DOMAIN in = 1 .. Len(in)
      OBVIOUS
    <3>2. \A S \in SUBSET (1 .. Len(in)) : g[S] = IF S = {} THEN base ELSE op(g[S \ {Max(S)}], in[Max(S)])
      BY <2>5, <3>1
    <3> HIDE DEF Law
    <3>. QED
      BY <1>1, <2>2, <2>3, <3>2, LastPosition DEF Follows
  <2> HIDE DEF Law
  <2>6. PICK g : Law(g) /\ Split(E, kept, in) = g[DOMAIN in]
    BY <1>1, <2>1, <2>3, <2>4, SetRunExists
  <2>7. Follows(X, St, H, base, in, g)
    BY <2>5, <2>6
  <2>. QED
    BY <2>6, <2>7, SetRunFolds
<1> HIDE DEF op, St, base
<1>4. H \in [St \X X -> St] /\ \A s \in St, b \in X : H[<<s, b>>] = op(s, b)
  BY <1>2
<1> HIDE DEF H
<1>5. Folded(H, base, << >>) = base /\ << >> \in Seq(X)
  BY FoldedEmpty
<1>6. \A q \in Seq(X) : Folded(H, base, q) \in St
  BY <1>1, <1>4, FoldedType
<1>7. \A q \in Seq(X), b \in X : /\ Append(q, b) \in Seq(X)
                                /\ Folded(H, base, Append(q, b)) = H[<<Folded(H, base, q), b>>]
  BY FoldedAppend
<1>8. \A q \in Seq(X), b \in X : Split(E, kept, Append(q, b)) = op(Split(E, kept, q), b)
  BY <1>3, <1>4, <1>6, <1>7
<1>. QED
  BY <1>3, <1>5, <1>6, <1>8 DEF base, St, op

(* One more element of pieces that end in E.                               *)
Piecewise(X, E) ==
    /\ Complete(E, << >>) = << >> /\ Rest(E, << >>) = << >>
    /\ \A q \in Seq(X) : Complete(E, q) \in Seq(Seq(X)) /\ Rest(E, q) \in Seq(X)
    /\ \A q \in Seq(X), b \in X :
          /\ b \in E => /\ Complete(E, Append(q, b)) = Append(Complete(E, q), Rest(E, q))
                       /\ Rest(E, Append(q, b)) = << >>
          /\ b \notin E => /\ Complete(E, Append(q, b)) = Complete(E, q)
                          /\ Rest(E, Append(q, b)) = Append(Rest(E, q), b)

LEMMA PieceLaws == ASSUME NEW X, NEW E PROVE Piecewise(X, E)
<1>1. /\ Split(E, {}, << >>) = [done |-> << >>, rest |-> << >>]
      /\ \A q \in Seq(X) : Split(E, {}, q) \in SplitStates(X)
      /\ \A q \in Seq(X), b \in X :
            Split(E, {}, Append(q, b)) = SplitStep(E, {}, Split(E, {}, q), b)
  BY SplitLaws
<1>2. \A s \in SplitStates(X), b \in X :
         /\ b \in E => SplitStep(E, {}, s, b) = [done |-> Append(s.done, s.rest), rest |-> << >>]
         /\ b \notin E => SplitStep(E, {}, s, b) = [done |-> s.done, rest |-> Append(s.rest, b)]
  BY DEF SplitStep, SplitStates
<1>3. \A s \in SplitStates(X) : s.done \in Seq(Seq(X)) /\ s.rest \in Seq(X)
  BY DEF SplitStates
<1>4. ASSUME NEW q \in Seq(X), NEW b \in X
      PROVE  /\ b \in E => /\ Complete(E, Append(q, b)) = Append(Complete(E, q), Rest(E, q))
                          /\ Rest(E, Append(q, b)) = << >>
             /\ b \notin E => /\ Complete(E, Append(q, b)) = Complete(E, q)
                             /\ Rest(E, Append(q, b)) = Append(Rest(E, q), b)
  BY <1>1, <1>2 DEF Complete, Rest
<1>5. Complete(E, << >>) = << >> /\ Rest(E, << >>) = << >>
  BY <1>1 DEF Complete, Rest
<1>6. \A q \in Seq(X) : Complete(E, q) \in Seq(Seq(X)) /\ Rest(E, q) \in Seq(X)
  BY <1>1, <1>3 DEF Complete, Rest
<1>. QED
  BY <1>4, <1>5, <1>6 DEF Piecewise

-----------------------------------------------------------------------------
(* Sequences in chunks of one length.                                      *)

(* The smaller of two numbers.                                             *)
LEMMA MinOfTwo ==
    ASSUME NEW a \in Int, NEW b \in Int
    PROVE  Min({a, b}) = IF a <= b THEN a ELSE b
<1> DEFINE S == {a, b}
           m == IF a <= b THEN a ELSE b
<1>1. m \in S /\ \A y \in S : m <= y
  OBVIOUS
<1>2. \A x \in S : (\A y \in S : x <= y) => x = m
  OBVIOUS
<1>3. Min(S) = CHOOSE x \in S : \A y \in S : x <= y
  BY DEF Min
<1>. QED
  BY <1>1, <1>2, <1>3

(* The number of chunks.                                                   *)
LEMMA ChunkCount ==
    ASSUME NEW n \in Nat \ {0}, NEW a \in Nat, NEW m \in 1 .. n
    PROVE  /\ (n * a + n - 1) \div n = a
           /\ (n * a + m + n - 1) \div n = a + 1
<1>1. n - 1 \in 0 .. (n - 1) /\ m - 1 \in 0 .. (n - 1) /\ a + 1 \in Nat
  OBVIOUS
<1>2. (n * a + (n - 1)) \div n = a /\ (n * (a + 1) + (m - 1)) \div n = a + 1
  BY <1>1, Divided
<1>3. n * a \in Nat /\ n * (a + 1) = n * a + n
  OBVIOUS
<1> DEFINE na == n * a
<1>4. na + n - 1 = na + (n - 1) /\ na + m + n - 1 = (na + n) + (m - 1)
  <2>1. na \in Nat
    OBVIOUS
  <2> HIDE DEF na
  <2>. QED
    BY <2>1
<1>. QED
  BY <1>2, <1>3, <1>4

(* After a chunks of n elements, another one, which may be shorter.        *)
AnotherChunk(X, n, p, a, g) ==
    /\ n \in Nat \ {0} /\ a \in Nat /\ p \in Seq(X) /\ g \in Seq(X)
    /\ Len(p) = n * a /\ Len(g) \in 1 .. n

LEMMA OneMoreChunk ==
    ASSUME NEW X, NEW n, NEW p, NEW a, NEW g, AnotherChunk(X, n, p, a, g)
    PROVE  Chunks(p \o g, n) = Append(Chunks(p, n), g) /\ Len(Chunks(p, n)) = a
<1>. /\ n \in Nat \ {0} /\ a \in Nat /\ p \in Seq(X) /\ g \in Seq(X)
     /\ Len(p) = n * a /\ Len(g) \in 1 .. n
  BY DEF AnotherChunk
<1> DEFINE q == p \o g
           m == Len(g)
           na == n * a
           e(k) == SubSeq(p, (k - 1) * n + 1, Min({k * n, Len(p)}))
           d(k) == SubSeq(q, (k - 1) * n + 1, Min({k * n, Len(q)}))
<1>1. q \in Seq(X) /\ Len(q) = na + m /\ Len(p) = na /\ na \in Nat /\ m \in 1 .. n
  OBVIOUS
<1>2. (Len(p) + n - 1) \div n = a /\ (Len(q) + n - 1) \div n = a + 1
  <2>1. (na + n - 1) \div n = a /\ (na + m + n - 1) \div n = a + 1
    BY <1>1, ChunkCount
  <2> HIDE DEF na, m, q
  <2>. QED
    BY <1>1, <2>1
<1>3. /\ Chunks(p, n) = [k \in 1 .. a |-> SubSeq(p, (k - 1) * n + 1, Min({k * n, Len(p)}))]
      /\ Chunks(q, n) = [k \in 1 .. (a + 1) |-> SubSeq(q, (k - 1) * n + 1, Min({k * n, Len(q)}))]
  BY <1>2 DEF Chunks
<1>4. ASSUME NEW k \in 1 .. a
      PROVE  d(k) = e(k)
  <2> DEFINE from == (k - 1) * n + 1
             to == k * n
  <2>1. from \in Nat /\ from >= 1 /\ to \in Nat /\ to <= na
    <3>1. (k - 1) * n \in Nat /\ k * n \in Nat
      <4>1. k - 1 \in Nat /\ k \in Nat
        OBVIOUS
      <4>. QED
        BY <4>1
    <3>2. (a - k) * n \in Nat
      <4>1. a - k \in Nat
        OBVIOUS
      <4>. QED
        BY <4>1
    <3>3. a * n = k * n + (a - k) * n /\ a * n = na
      OBVIOUS
    <3>. QED
      BY <3>1, <3>2, <3>3
  <2> HIDE DEF from, to, na, q
  <2>2. Min({to, Len(q)}) = to /\ Min({to, Len(p)}) = to
    BY <1>1, <2>1, MinOfTwo
  <2>3. \A i \in from .. to : q[i] = p[i]
    BY <1>1, <2>1 DEF q
  <2>4. SubSeq(q, from, to) = SubSeq(p, from, to)
    BY <1>1, <2>1, <2>3
  <2>. QED
    BY <2>2, <2>4 DEF from, to
<1>5. d(a + 1) = g
  <2>1. ((a + 1) - 1) * n + 1 = na + 1 /\ (a + 1) * n = na + n
    OBVIOUS
  <2> DEFINE from == ((a + 1) - 1) * n + 1
             to == (a + 1) * n
  <2>4. d(a + 1) = SubSeq(q, na + 1, Min({na + n, Len(q)}))
    <3>1. d(a + 1) = SubSeq(q, from, Min({to, Len(q)}))
      OBVIOUS
    <3>2. from = na + 1 /\ to = na + n
      BY <2>1
    <3> HIDE DEF na, d, from, to, q
    <3>. QED
      BY <3>1, <3>2
  <2> HIDE DEF na, d
  <2>2. Min({na + n, Len(q)}) = na + m
    <3> HIDE DEF q, m
    <3>. QED
      BY <1>1, MinOfTwo
  <2>3. SubSeq(q, na + 1, na + m) = g
    <3>1. \A i \in 1 .. m : q[i + na] = g[i]
      BY <1>1
    <3>2. SubSeq(q, na + 1, na + m) = [i \in 1 .. m |-> q[i + na]]
      <4> HIDE DEF q, m
      <4>. QED
        BY <1>1
    <3>3. g = [i \in 1 .. m |-> g[i]]
      OBVIOUS
    <3>. QED
      BY <3>1, <3>2, <3>3
  <2>. QED
    BY <2>2, <2>3, <2>4
<1>. QED
  <2>3. Chunks(p, n) = [k \in 1 .. a |-> e(k)] /\ Chunks(q, n) = [k \in 1 .. (a + 1) |-> d(k)]
    BY <1>3
  <2> HIDE DEF e, d
  <2>4. Chunks(q, n) = Append([k \in 1 .. a |-> e(k)], g)
    BY <1>4, <1>5, <2>3
  <2>5. Len([k \in 1 .. a |-> e(k)]) = a
    OBVIOUS
  <2>. QED
    BY <2>3, <2>4, <2>5

(* What holds of the empty sequence and with every further chunk.          *)
LEMMA ChunkInduction ==
    ASSUME NEW X, NEW n \in Nat \ {0}, NEW T, << >> \in T,
           \A p, g \in Seq(X), a \in Nat :
              p \in T /\ Len(p) = n * a /\ Len(g) \in 1 .. n => p \o g \in T
    PROVE  Seq(X) \subseteq T
<1> DEFINE good == {a \in Nat : \A q \in Seq(X) : Len(q) <= n * a => q \in T}
<1>1. 0 \in good
  <2>1. \A q \in Seq(X) : Len(q) <= 0 => q = << >>
    OBVIOUS
  <2>2. n * 0 = 0
    OBVIOUS
  <2>. QED
    BY <2>1, <2>2
<1>2. ASSUME NEW a \in Nat, a \in good PROVE a + 1 \in good
  <2> DEFINE na == n * a
  <2>1. n * (a + 1) = na + n /\ na \in Nat
    OBVIOUS
  <2>2. \A q \in Seq(X) : Len(q) <= na => q \in T
    BY <1>2
  <2>3. \A p, g \in Seq(X) : p \in T /\ Len(p) = na /\ Len(g) \in 1 .. n => p \o g \in T
    OBVIOUS
  <2> HIDE DEF na
  <2>4. ASSUME NEW q \in Seq(X), Len(q) <= na + n PROVE q \in T
    <3>1. CASE Len(q) <= na
      BY <2>2, <3>1
    <3>2. CASE Len(q) > na
      <4> DEFINE p == SubSeq(q, 1, na)
                 g == SubSeq(q, na + 1, Len(q))
      <4>1. p \in Seq(X) /\ Len(p) = na
        BY <2>1, <3>2
      <4>2. g \in Seq(X) /\ Len(g) = Len(q) - na
        BY <2>1, <3>2
      <4>3. q = p \o g
        <5> DEFINE s == p \o g
        <5>1. /\ s \in Seq(X) /\ Len(s) = na + Len(g)
              /\ \A i \in 1 .. Len(s) : s[i] = IF i <= na THEN p[i] ELSE g[i - na]
          <6> HIDE DEF p, g
          <6>. QED
            BY <4>1, <4>2, ConcatProperties
        <5>2. Len(s) = Len(q) /\ Len(q) \in Nat
          <6> HIDE DEF p, g, s
          <6>. QED
            BY <2>1, <4>2, <5>1
        <5>3. \A i \in 1 .. Len(q) : i <= na => p[i] = q[i]
          BY <2>1, <3>2
        <5>4. \A i \in 1 .. Len(q) : i > na => g[i - na] = q[i]
          BY <2>1, <3>2
        <5> HIDE DEF p, g, s
        <5>5. \A i \in 1 .. Len(q) : s[i] = q[i]
          <6> SUFFICES ASSUME NEW i \in 1 .. Len(q) PROVE s[i] = q[i]
            OBVIOUS
          <6>1. s[i] = IF i <= na THEN p[i] ELSE g[i - na]
            BY <5>1, <5>2
          <6>2. i \in Int /\ na \in Int
            BY <2>1
          <6>. QED
            BY <5>3, <5>4, <6>1, <6>2
        <5>6. s = q
          BY <5>1, <5>2, <5>5, SeqEqual
        <5>. QED
          BY <5>6 DEF s
      <4>4. Len(g) \in 1 .. n
        BY <2>1, <2>4, <3>2, <4>2
      <4> HIDE DEF p, g
      <4>5. p \in T
        BY <2>1, <2>2, <4>1
      <4>. QED
        BY <2>3, <4>1, <4>2, <4>3, <4>4, <4>5
    <3>. QED
      BY <2>1, <3>1, <3>2
  <2>. QED
    BY <2>1, <2>4
<1>3. Nat \subseteq good
  <2> HIDE DEF good
  <2>. QED
    BY <1>1, <1>2, NatSetInduction
<1>4. ASSUME NEW q \in Seq(X) PROVE q \in T
  <2> DEFINE a == Len(q)
  <2>1. a \in Nat /\ a <= n * a
    <3>1. a \in Nat
      OBVIOUS
    <3> HIDE DEF a
    <3>2. (n - 1) * a \in Nat
      <4>1. n - 1 \in Nat
        OBVIOUS
      <4>. QED
        BY <3>1, <4>1
    <3>3. n * a = a + (n - 1) * a
      BY <3>1
    <3>4. n * a \in Nat
      BY <3>1
    <3>. QED
      BY <3>1, <3>2, <3>3, <3>4
  <2>2. a \in good
    BY <1>3, <2>1
  <2>. QED
    BY <2>1, <2>2
<1>. QED
  BY <1>4

(* The chunks of a sequence make it up.                                    *)
LEMMA ChunkLaws ==
    ASSUME NEW X, NEW n \in Nat \ {0}
    PROVE  /\ Chunks(<< >>, n) = << >>
           /\ \A q \in Seq(X) :
                 /\ Chunks(q, n) \in Seq({g \in Seq(X) : Len(g) \in 1 .. n})
                 /\ FlattenSeq(Chunks(q, n)) = q
<1> DEFINE G == {g \in Seq(X) : Len(g) \in 1 .. n}
           T == {q \in Seq(X) : Chunks(q, n) \in Seq(G) /\ FlattenSeq(Chunks(q, n)) = q}
<1>1. Chunks(<< >>, n) = << >>
  <2>1. (n * 0 + n - 1) \div n = 0 /\ n * 0 = 0
    <3>1. 0 \in Nat /\ 1 \in 1 .. n
      OBVIOUS
    <3>. QED
      BY <3>1, ChunkCount
  <2>2. Len(<< >>) + n - 1 = n * 0 + n - 1
    BY <2>1
  <2>3. 1 .. (Len(<< >>) + n - 1) \div n = {}
    BY <2>1, <2>2
  <2>. QED
    BY <2>3 DEF Chunks
<1>2. << >> \in T
  <2>1. FlattenSeq(<< >>) = << >> /\ << >> \in Seq(X) /\ << >> \in Seq(G)
    BY FlattenLaws
  <2>. QED
    BY <1>1, <2>1
<1>3. ASSUME NEW p \in Seq(X), NEW g \in Seq(X), NEW a \in Nat,
             p \in T, Len(p) = n * a, Len(g) \in 1 .. n
      PROVE  p \o g \in T
  <2>1. Chunks(p \o g, n) = Append(Chunks(p, n), g)
    <3>1. AnotherChunk(X, n, p, a, g)
      BY <1>3 DEF AnotherChunk
    <3>. QED
      BY <3>1, OneMoreChunk
  <2>2. g \in G /\ Chunks(p, n) \in Seq(G) /\ FlattenSeq(Chunks(p, n)) = p
    BY <1>3
  <2>3. Chunks(p, n) \in Seq(Seq(X))
    <3>1. G \subseteq Seq(X)
      OBVIOUS
    <3> HIDE DEF G
    <3>. QED
      BY <2>2, <3>1
  <2>4. FlattenSeq(Append(Chunks(p, n), g)) = p \o g
    BY <2>2, <2>3, FlattenLaws
  <2>5. Append(Chunks(p, n), g) \in Seq(G)
    <3> HIDE DEF G
    <3>. QED
      BY <2>2
  <2>6. p \o g \in Seq(X)
    OBVIOUS
  <2>. QED
    BY <2>1, <2>4, <2>5, <2>6
<1>4. Seq(X) \subseteq T
  <2> HIDE DEF T
  <2>. QED
    BY <1>2, <1>3, ChunkInduction
<1>. QED
  BY <1>1, <1>4

(* Pieces of n elements are the chunks of what they make up.               *)
LEMMA PiecesAreChunks ==
    ASSUME NEW X, NEW n \in Nat \ {0}, NEW qs \in Seq({g \in Seq(X) : Len(g) = n})
    PROVE  Chunks(FlattenSeq(qs), n) = qs /\ Len(FlattenSeq(qs)) = n * Len(qs)
<1> DEFINE G == {g \in Seq(X) : Len(g) = n}
           T == {r \in Seq(G) : Chunks(FlattenSeq(r), n) = r /\ Len(FlattenSeq(r)) = n * Len(r)}
<1>1. << >> \in T
  <2>1. FlattenSeq(<< >>) = << >> /\ << >> \in Seq(G)
    BY FlattenLaws
  <2>2. Chunks(<< >>, n) = << >> /\ Len(<< >>) = n * Len(<< >>)
    BY ChunkLaws
  <2>. QED
    BY <2>1, <2>2
<1>2. ASSUME NEW r \in Seq(G), NEW g \in G, r \in T PROVE Append(r, g) \in T
  <2> DEFINE p == FlattenSeq(r)
  <2>1. r \in Seq(Seq(X)) /\ g \in Seq(X) /\ Len(g) = n
    <3>1. G \subseteq Seq(X) /\ g \in Seq(X) /\ Len(g) = n
      OBVIOUS
    <3> HIDE DEF G
    <3>. QED
      BY <3>1
  <2>2. FlattenSeq(Append(r, g)) = p \o g /\ p \in Seq(X)
    BY <2>1, FlattenLaws
  <2>3. Len(p) = n * Len(r) /\ Len(r) \in Nat /\ Chunks(p, n) = r
    BY <1>2
  <2> HIDE DEF p, G
  <2>4. Chunks(p \o g, n) = Append(r, g)
    <3>1. Len(g) \in 1 .. n
      BY <2>1
    <3>2. AnotherChunk(X, n, p, Len(r), g)
      BY <2>1, <2>2, <2>3, <3>1 DEF AnotherChunk
    <3>. QED
      BY <2>3, <3>2, OneMoreChunk
  <2>5. Len(p \o g) = n * Len(r) + n
    <3>1. p \in Seq(X) /\ g \in Seq(X)
      BY <2>1, <2>2
    <3>2. Len(p \o g) = Len(p) + Len(g)
      BY <3>1, Cat
    <3>. QED
      BY <2>1, <2>3, <3>2
  <2>6. Len(Append(r, g)) = Len(r) + 1 /\ Append(r, g) \in Seq(G)
    OBVIOUS
  <2>7. n * (Len(r) + 1) = n * Len(r) + n
    BY <2>3
  <2>. QED
    BY <2>2, <2>4, <2>5, <2>6, <2>7
<1>3. qs \in T
  <2> HIDE DEF T, G
  <2>1. qs \in Seq(G)
    BY DEF G
  <2>. QED
    BY <1>1, <1>2, <2>1, SeqSetInduction
<1>. QED
  BY <1>3

(* Lines that fit are cut nowhere.                                         *)
LEMMA ShortChunks ==
    ASSUME NEW X, NEW n \in Nat \ {0}, NEW l \in Seq(X), Len(l) <= n
    PROVE  Chunks(l, n) = IF l = << >> THEN << >> ELSE <<l>>
<1>1. CASE l = << >>
  BY <1>1, ChunkLaws
<1>2. CASE l # << >>
  <2> DEFINE e == << >>
  <2>1. AnotherChunk(X, n, e, 0, l)
    BY <1>2 DEF AnotherChunk
  <2>3. Chunks(e, n) = << >>
    BY ChunkLaws
  <2>4. e \o l = l /\ Append(<< >>, l) = <<l>>
    OBVIOUS
  <2> HIDE DEF e
  <2>2. Chunks(e \o l, n) = Append(Chunks(e, n), l)
    BY <2>1, OneMoreChunk
  <2>. QED
    BY <1>2, <2>2, <2>3, <2>4
<1>. QED
  BY <1>1, <1>2

LEMMA AllChunks ==
    ASSUME NEW X, NEW n \in Nat \ {0}, NEW q \in Seq(X)
    PROVE  Chunks(q, n) \in Seq(Seq(X))
<1> DEFINE G == {g \in Seq(X) : Len(g) \in 1 .. n}
           S == Seq(X)
<1>1. Chunks(q, n) \in Seq(G)
  BY ChunkLaws
<1>2. G \subseteq S
  OBVIOUS
<1> HIDE DEF G, S
<1>3. Chunks(q, n) \in Seq(S)
  BY <1>1, <1>2
<1>. QED
  BY <1>3 DEF S

LEMMA ReverseType ==
    ASSUME NEW Y, NEW g \in Seq(Y)
    PROVE  Reverse(g) \in Seq(Y)
<1> DEFINE m == Len(g)
<1>1. m \in Nat /\ \A i \in 1 .. m : (m - i) + 1 \in 1 .. m
  OBVIOUS
<1>2. Reverse(g) = [i \in 1 .. m |-> g[(m - i) + 1]]
  BY DEF Reverse
<1>3. \A i \in 1 .. m : g[(m - i) + 1] \in Y
  BY <1>1
<1> HIDE DEF m
<1>. QED
  BY <1>1, <1>2, <1>3

LEMMA MirrorLaws ==
    ASSUME NEW Y
    PROVE  /\ FlattenSeq(Mapped(Reverse, << >>)) = << >>
           /\ \A qs \in Seq(Seq(Y)), g \in Seq(Y) :
                 FlattenSeq(Mapped(Reverse, Append(qs, g))) = FlattenSeq(Mapped(Reverse, qs)) \o Reverse(g)
<1> DEFINE X == Seq(Y)
           f == [g \in X |-> Reverse(g)]
<1>1. Maps(X, Seq(Y), f)
  BY ReverseType DEF Maps
<1>2. \A qs \in Seq(X) : Mapped(Reverse, qs) = Images(f, qs)
  <2> SUFFICES ASSUME NEW qs \in Seq(X) PROVE Mapped(Reverse, qs) = Images(f, qs)
    OBVIOUS
  <2>1. \A k \in DOMAIN qs : qs[k] \in X
    <3> HIDE DEF X
    <3>. QED
      OBVIOUS
  <2>2. \A k \in DOMAIN qs : Reverse(qs[k]) = f[qs[k]]
    BY <2>1
  <2> HIDE DEF f
  <2>. QED
    BY <2>2 DEF Mapped, Images
<1>3. \A g \in X : f[g] = Reverse(g)
  OBVIOUS
<1> HIDE DEF f, X
<1>4. << >> \in Seq(X) /\ \A qs \in Seq(X), g \in X : Append(qs, g) \in Seq(X)
  OBVIOUS
<1>5. /\ FlattenSeq(Images(f, << >>)) = << >>
      /\ \A qs \in Seq(X), g \in X : FlattenSeq(Images(f, Append(qs, g))) = FlattenSeq(Images(f, qs)) \o f[g]
  BY <1>1, FlatImageLaws
<1>6. /\ FlattenSeq(Mapped(Reverse, << >>)) = << >>
      /\ \A qs \in Seq(X), g \in X :
            FlattenSeq(Mapped(Reverse, Append(qs, g))) = FlattenSeq(Mapped(Reverse, qs)) \o Reverse(g)
  BY <1>2, <1>3, <1>4, <1>5
<1>. QED
  BY <1>6 DEF X

-----------------------------------------------------------------------------
(* Sequences of single elements.                                           *)

(* Every element on its own.                                               *)
Singles(q) == [k \in DOMAIN q |-> <<q[k]>>]

LEMMA SinglesAre ==
    ASSUME NEW X, NEW q \in Seq(X)
    PROVE  /\ Singles(q) \in Seq(Seq(X)) /\ Len(Singles(q)) = Len(q)
           /\ \A i \in 1 .. Len(q) : Singles(q)[i] = <<q[i]>>
<1> DEFINE n == Len(q)
           f == [k \in 1 .. n |-> <<q[k]>>]
           S == Seq(X)
<1>1. n \in Nat /\ DOMAIN q = 1 .. n /\ \A k \in 1 .. n : q[k] \in X
  OBVIOUS
<1>2. Singles(q) = f
  BY <1>1 DEF Singles
<1>3. \A k \in 1 .. n : <<q[k]>> \in S
  BY <1>1
<1> HIDE DEF n, S
<1>4. f \in Seq(S) /\ Len(f) = n /\ \A i \in 1 .. n : f[i] = <<q[i]>>
  BY <1>1, <1>3
<1>. QED
  BY <1>2, <1>4 DEF n, S

LEMMA SinglesJoined ==
    ASSUME NEW X, NEW p \in Seq(X), NEW g \in Seq(X)
    PROVE  Singles(p \o g) = Singles(p) \o Singles(g)
<1> DEFINE q == p \o g
           S == Seq(X)
           u == Singles(p)
           v == Singles(g)
           w == Singles(q)
<1>1. /\ q \in Seq(X) /\ Len(q) = Len(p) + Len(g) /\ Len(p) \in Nat /\ Len(g) \in Nat
      /\ \A i \in 1 .. Len(p) : q[i] = p[i]
      /\ \A i \in 1 .. Len(g) : q[Len(p) + i] = g[i]
  BY Cat
<1>2. /\ u \in Seq(S) /\ Len(u) = Len(p) /\ \A i \in 1 .. Len(p) : u[i] = <<p[i]>>
      /\ v \in Seq(S) /\ Len(v) = Len(g) /\ \A i \in 1 .. Len(g) : v[i] = <<g[i]>>
      /\ w \in Seq(S) /\ Len(w) = Len(q) /\ \A i \in 1 .. Len(q) : w[i] = <<q[i]>>
  <2> HIDE DEF q
  <2>. QED
    BY <1>1, SinglesAre
<1> HIDE DEF q, u, v, w, S
<1>3. /\ u \o v \in Seq(S) /\ Len(u \o v) = Len(u) + Len(v)
      /\ \A i \in 1 .. Len(u) : (u \o v)[i] = u[i]
      /\ \A i \in 1 .. Len(v) : (u \o v)[Len(u) + i] = v[i]
  <2>1. u \in Seq(S) /\ v \in Seq(S)
    BY <1>2
  <2>. QED
    BY <2>1, Cat
<1>4. ASSUME NEW i \in 1 .. Len(q) PROVE w[i] = (u \o v)[i]
  <2>1. CASE i <= Len(p)
    <3>1. i \in 1 .. Len(p)
      BY <1>1, <2>1
    <3>. QED
      BY <3>1, <1>1, <1>2, <1>3
  <2>2. CASE i > Len(p)
    <3> DEFINE j == i - Len(p)
    <3>1. j \in 1 .. Len(g) /\ i = Len(p) + j
      BY <1>1, <2>2
    <3> HIDE DEF j
    <3>. QED
      BY <3>1, <1>1, <1>2, <1>3
  <2>3. i \in Int /\ Len(p) \in Int
    BY <1>1
  <2>4. i <= Len(p) \/ i > Len(p)
    BY <2>3
  <2>. QED
    BY <2>1, <2>2, <2>4
<1>5. w = u \o v
  BY <1>1, <1>2, <1>3, <1>4, SeqEqual
<1>. QED
  BY <1>5 DEF q, u, v, w

LEMMA SinglesFlat ==
    ASSUME NEW X, NEW q \in Seq(X)
    PROVE  FlattenSeq(Singles(q)) = q
<1> DEFINE T == {r \in Seq(X) : FlattenSeq(Singles(r)) = r}
<1>1. << >> \in T
  <2>1. << >> \in Seq(X) /\ Singles(<< >>) = << >> /\ FlattenSeq(<< >>) = << >>
    BY FlattenLaws DEF Singles
  <2>. QED
    BY <2>1
<1>2. ASSUME NEW r \in Seq(X), NEW b \in X, r \in T PROVE Append(r, b) \in T
  <2> DEFINE e == <<b>>
             t == Append(r, b)
             d == <<e>>
  <2>1. e \in Seq(X) /\ t \in Seq(X) /\ t = r \o e /\ Singles(e) = d
    BY DEF Singles
  <2>2. Singles(t) = Singles(r) \o d
    <3>1. Singles(r \o e) = Singles(r) \o Singles(e)
      <4> HIDE DEF e
      <4>. QED
        BY <2>1, SinglesJoined
    <3>. QED
      BY <2>1, <3>1
  <2>3. Singles(r) \in Seq(Seq(X))
    BY SinglesAre
  <2>4. Singles(r) \o d = Append(Singles(r), e)
    <3> HIDE DEF e
    <3>. QED
      BY <2>1, <2>3
  <2> HIDE DEF e, t, d
  <2>5. FlattenSeq(Append(Singles(r), e)) = FlattenSeq(Singles(r)) \o e
    BY <2>1, <2>3, FlattenLaws
  <2>6. FlattenSeq(Singles(r)) = r
    BY <1>2
  <2>7. t \in T
    BY <2>1, <2>2, <2>4, <2>5, <2>6
  <2>. QED
    BY <2>7 DEF t
<1> HIDE DEF T
<1>3. q \in T
  BY <1>1, <1>2, SeqSetInduction
<1>. QED
  BY <1>3 DEF T

LEMMA SinglesReversed ==
    ASSUME NEW X, NEW g \in Seq(X)
    PROVE  Reverse(Singles(g)) = Singles(Reverse(g))
<1> DEFINE m == Len(g)
           u == Singles(g)
           r == Reverse(g)
<1>1. /\ m \in Nat /\ \A i \in 1 .. m : (m - i) + 1 \in 1 .. m
      /\ DOMAIN u = 1 .. m /\ Len(u) = m /\ \A i \in 1 .. m : u[i] = <<g[i]>>
  <2>1. u \in Seq(Seq(X)) /\ Len(u) = m /\ \A i \in 1 .. m : u[i] = <<g[i]>>
    BY SinglesAre
  <2> HIDE DEF u
  <2>. QED
    BY <2>1
<1>2. r = [i \in 1 .. m |-> g[(m - i) + 1]]
  BY DEF Reverse
<1>3. Reverse(u) = [i \in 1 .. m |-> u[(m - i) + 1]]
  <2> HIDE DEF u, m
  <2>. QED
    BY <1>1 DEF Reverse
<1>4. Singles(r) = [i \in 1 .. m |-> <<g[(m - i) + 1]>>]
  <2> HIDE DEF r, m
  <2>. QED
    BY <1>2 DEF Singles
<1> HIDE DEF u, r, m
<1>5. Reverse(u) = Singles(r)
  BY <1>1, <1>3, <1>4
<1>. QED
  BY <1>5 DEF u, r

-----------------------------------------------------------------------------
(* The parts of what is joined.                                            *)

Lacks(q, y) == \A k \in 1 .. Len(q) : q[k] # y

FirstOf(q, y) == LET I == {i \in 1 .. Len(q) : q[i] = y} IN IF I # {} THEN Min(I) ELSE 0

LEMMA FirstLacks ==
    ASSUME NEW q, NEW y, Lacks(q, y)
    PROVE  FirstOf(q, y) = 0
  BY DEF FirstOf, Lacks

(* Joined(X, a, t, b, s): s is a, then t, then b.                          *)
Joined(X, a, t, b, s) ==
    /\ a \in Seq(X) /\ t \in Seq(X) /\ b \in Seq(X) /\ s \in Seq(X)
    /\ s = (a \o t) \o b
    /\ Len(s) = Len(a) + Len(t) + Len(b)
    /\ \A i \in 1 .. Len(a) : s[i] = a[i]
    /\ \A i \in 1 .. Len(t) : s[Len(a) + i] = t[i]
    /\ \A i \in 1 .. Len(b) : s[Len(a) + Len(t) + i] = b[i]

LEMMA Joins ==
    ASSUME NEW X, NEW a \in Seq(X), NEW t \in Seq(X), NEW b \in Seq(X)
    PROVE  Joined(X, a, t, b, (a \o t) \o b)
<1> DEFINE u == a \o t
           s == u \o b
           m == Len(a)
           n == Len(t)
<1>1. u \in Seq(X) /\ Len(u) = Len(a) + Len(t) /\ (\A i \in 1 .. Len(a) : u[i] = a[i])
      /\ \A i \in 1 .. Len(t) : u[Len(a) + i] = t[i]
  OBVIOUS
<1>2. m \in Nat /\ n \in Nat
  OBVIOUS
<1> HIDE DEF u
<1>3. s \in Seq(X) /\ Len(s) = Len(u) + Len(b) /\ (\A i \in 1 .. Len(u) : s[i] = u[i])
      /\ \A i \in 1 .. Len(b) : s[Len(u) + i] = b[i]
  <2>1. u \in Seq(X) /\ b \in Seq(X)
    BY <1>1
  <2>. QED
    BY <2>1
<1> HIDE DEF s
<1>4. \A i \in 1 .. m : i \in 1 .. (m + n)
  BY <1>2
<1>5. \A i \in 1 .. n : m + i \in 1 .. (m + n)
  BY <1>2
<1>6. \A i \in 1 .. Len(a) : s[i] = a[i]
  BY <1>1, <1>3, <1>4
<1>7. \A i \in 1 .. Len(t) : s[Len(a) + i] = t[i]
  BY <1>1, <1>3, <1>5
<1>8. \A i \in 1 .. Len(b) : s[Len(a) + Len(t) + i] = b[i]
  BY <1>1, <1>3
<1>9. Len(s) = Len(a) + Len(t) + Len(b)
  BY <1>1, <1>3
<1>10. s = (a \o t) \o b
  BY DEF s, u
<1>. QED
  BY <1>3, <1>6, <1>7, <1>8, <1>9, <1>10 DEF Joined

(* The parts of what is joined.                                            *)
LEMMA PartsOfJoined ==
    ASSUME NEW X, NEW a, NEW t, NEW b, NEW s, Joined(X, a, t, b, s)
    PROVE  /\ SubSeq(s, 1, Len(a)) = a
           /\ SubSeq(s, Len(a) + 1, Len(a) + Len(t)) = t
           /\ SubSeq(s, Len(a) + Len(t) + 1, Len(s)) = b
           /\ Len(a) \in Nat /\ Len(t) \in Nat /\ Len(b) \in Nat
<1>0. /\ a \in Seq(X) /\ t \in Seq(X) /\ b \in Seq(X) /\ s \in Seq(X)
      /\ Len(s) = Len(a) + Len(t) + Len(b)
      /\ \A i \in 1 .. Len(a) : s[i] = a[i]
      /\ \A i \in 1 .. Len(t) : s[Len(a) + i] = t[i]
      /\ \A i \in 1 .. Len(b) : s[Len(a) + Len(t) + i] = b[i]
  BY DEF Joined
<1> DEFINE m == Len(a)
           n == Len(t)
           k == Len(b)
           l == Len(s)
<1>1. m \in Nat /\ n \in Nat /\ k \in Nat /\ l = m + n + k
  BY <1>0
<1>2. SubSeq(s, 1, m) = a
  <2> DEFINE p == SubSeq(s, 1, m)
  <2> HIDE DEF m, l
  <2>1. m <= l
    BY <1>1
  <2>2. p \in Seq(X) /\ Len(p) = m /\ \A i \in 1 .. m : p[i] = s[i]
    BY <1>0, <1>1, <2>1 DEF l
  <2> HIDE DEF p
  <2>3. \A i \in 1 .. Len(p) : p[i] = a[i]
    BY <1>0, <2>2 DEF m
  <2>4. p = a
    BY <1>0, <2>2, <2>3, SeqEqual DEF m
  <2>. QED
    BY <2>4 DEF p
<1>3. SubSeq(s, m + 1, m + n) = t
  <2> DEFINE p == SubSeq(s, m + 1, m + n)
             f == m + 1
             h == m + n
  <2>1. f \in Nat /\ f >= 1 /\ h \in Nat /\ h <= l /\ h - f + 1 = n /\ \A i \in 1 .. n : f + i - 1 = m + i
    BY <1>1
  <2>2. p = SubSeq(s, f, h)
    OBVIOUS
  <2> HIDE DEF m, n, l, p, f, h
  <2>3. p \in Seq(X) /\ Len(p) = n /\ \A i \in 1 .. n : p[i] = s[f + i - 1]
    BY <1>0, <1>1, <2>1, <2>2 DEF l
  <2>4. \A i \in 1 .. n : s[m + i] = t[i]
    BY <1>0 DEF m, n
  <2>5. \A i \in 1 .. Len(p) : p[i] = t[i]
    BY <2>1, <2>3, <2>4
  <2>6. p = t
    BY <1>0, <2>3, <2>5, SeqEqual DEF n
  <2>. QED
    BY <2>6 DEF p
<1>4. SubSeq(s, m + n + 1, l) = b
  <2> DEFINE f == m + n + 1
             p == SubSeq(s, f, l)
  <2>1. f \in Nat /\ f >= 1 /\ l \in Nat /\ l - f + 1 = k /\ \A i \in 1 .. k : f + i - 1 = m + n + i
    BY <1>1
  <2> HIDE DEF m, n, k, l, p, f
  <2>2. p \in Seq(X) /\ Len(p) = k /\ \A i \in 1 .. k : p[i] = s[f + i - 1]
    BY <1>0, <1>1, <2>1 DEF l, p
  <2>3. \A i \in 1 .. k : s[m + n + i] = b[i]
    BY <1>0 DEF m, n, k
  <2>4. \A i \in 1 .. Len(p) : p[i] = b[i]
    BY <2>1, <2>2, <2>3
  <2>5. p = b
    BY <1>0, <2>2, <2>4, SeqEqual DEF k
  <2>. QED
    BY <2>5 DEF p, f
<1>. QED
  BY <1>1, <1>2, <1>3, <1>4

(* The first y of what is joined around one.                               *)
Leads(X, a, y, b, s) == y \in X /\ Joined(X, a, <<y>>, b, s) /\ Lacks(a, y)

LEMMA FirstJoined ==
    ASSUME NEW X, NEW a, NEW y, NEW b, NEW s, Leads(X, a, y, b, s)
    PROVE  /\ FirstOf(s, y) = Len(a) + 1 /\ FirstOf(s, y) # 0
           /\ SubSeq(s, 1, FirstOf(s, y) - 1) = a
           /\ SubSeq(s, FirstOf(s, y) + 1, Len(s)) = b
<1> DEFINE t == <<y>>
           m == Len(a)
           n == m + 1
           I == {i \in 1 .. Len(s) : s[i] = y}
<1>00. y \in X /\ Joined(X, a, t, b, s) /\ Lacks(a, y)
  BY DEF Leads
<1>0. /\ a \in Seq(X) /\ b \in Seq(X) /\ s \in Seq(X)
      /\ Len(s) = Len(a) + Len(t) + Len(b)
      /\ \A i \in 1 .. Len(a) : s[i] = a[i]
      /\ \A i \in 1 .. Len(t) : s[Len(a) + i] = t[i]
  BY <1>00 DEF Joined
<1>1. Len(t) = 1 /\ t[1] = y /\ 1 \in 1 .. 1
  OBVIOUS
<1>2. m \in Nat /\ Len(b) \in Nat /\ n \in Nat
  BY <1>0
<1>3. s[n] = y /\ n \in 1 .. Len(s)
  BY <1>0, <1>1, <1>2
<1>4. \A i \in I : n <= i
  <2> SUFFICES ASSUME NEW i \in 1 .. Len(s), s[i] = y PROVE n <= i
    OBVIOUS
  <2>1. i \notin 1 .. m
    BY <1>00, <1>0 DEF Lacks
  <2>. QED
    BY <1>2, <2>1
<1>5. n \in I /\ I \subseteq Int
  BY <1>3
<1> HIDE DEF I, n
<1>6. Min(I) = n /\ I # {}
  BY <1>4, <1>5, LeastOf
<1>7. FirstOf(s, y) = n
  BY <1>6 DEF FirstOf, I
<1>8. n - 1 = m /\ n = m + 1 /\ n # 0
  BY <1>2 DEF n
<1>9. SubSeq(s, 1, m) = a /\ SubSeq(s, m + 1 + 1, Len(s)) = b
  <2> HIDE DEF t
  <2>1. Joined(X, a, t, b, s)
    BY <1>00
  <2>2. SubSeq(s, 1, Len(a)) = a /\ SubSeq(s, Len(a) + Len(t) + 1, Len(s)) = b
    BY <2>1, PartsOfJoined
  <2>. QED
    BY <1>1, <2>2
<1>. QED
  BY <1>7, <1>8, <1>9

LEMMA LacksJoined ==
    ASSUME NEW X, NEW a, NEW t, NEW b, NEW s, Joined(X, a, t, b, s), NEW y,
           Lacks(a, y), Lacks(t, y), Lacks(b, y)
    PROVE  Lacks(s, y)
<1>0. /\ a \in Seq(X) /\ t \in Seq(X) /\ b \in Seq(X) /\ s \in Seq(X)
      /\ Len(s) = Len(a) + Len(t) + Len(b)
      /\ \A i \in 1 .. Len(a) : s[i] = a[i]
      /\ \A i \in 1 .. Len(t) : s[Len(a) + i] = t[i]
      /\ \A i \in 1 .. Len(b) : s[Len(a) + Len(t) + i] = b[i]
  BY DEF Joined
<1> DEFINE m == Len(a)
           n == Len(t)
           k == Len(b)
           l == Len(s)
<1>1. m \in Nat /\ n \in Nat /\ k \in Nat /\ l = m + n + k /\ l \in Nat
  BY <1>0
<1> SUFFICES ASSUME NEW i \in 1 .. l PROVE s[i] # y
  BY DEF Lacks
<1>2. CASE i \in 1 .. m
  BY <1>0, <1>2 DEF Lacks
<1>3. CASE i \in (m + 1) .. (m + n)
  <2> DEFINE j == i - m
  <2>1. j \in 1 .. n /\ i = m + j
    BY <1>1, <1>3
  <2> HIDE DEF j
  <2>2. s[i] = t[j] /\ t[j] # y
    BY <1>0, <2>1 DEF Lacks
  <2>. QED
    BY <2>2
<1>4. CASE i \in (m + n + 1) .. l
  <2> DEFINE j == i - (m + n)
  <2>1. j \in 1 .. k /\ i = m + n + j
    BY <1>1, <1>4
  <2> HIDE DEF j
  <2>2. s[i] = b[j] /\ b[j] # y
    BY <1>0, <2>1 DEF Lacks
  <2>. QED
    BY <2>2
<1>. QED
  BY <1>1, <1>2, <1>3, <1>4

(* The least of some positions.                                            *)
LEMMA MinPosition ==
    ASSUME NEW S, S \subseteq Nat, S # {}
    PROVE  Min(S) \in S /\ \A y \in S : Min(S) <= y
<1> DEFINE below == {p \in Nat \X Nat : p[1] < p[2]}
<1>1. IsWellFoundedOn(below, Nat)
  BY NatLessThanWellFounded DEF OpToRel
<1>2. PICK n \in S : \A m \in S : ~ (<<m, n>> \in below)
  <2> HIDE DEF below
  <2>. QED
    BY <1>1, WFMin
<1>3. \A m \in S : n <= m
  <2> SUFFICES ASSUME NEW m \in S, m < n PROVE FALSE
    OBVIOUS
  <2>1. <<m, n>> \in below
    OBVIOUS
  <2> HIDE DEF below
  <2>. QED
    BY <1>2, <2>1
<1>4. S \subseteq Int
  OBVIOUS
<1>5. Min(S) = n
  BY <1>3, <1>4, LeastOf
<1>. QED
  BY <1>3, <1>5

LEMMA FirstType ==
    ASSUME NEW X, NEW q \in Seq(X), NEW z
    PROVE  FirstOf(q, z) \in 0 .. Len(q) /\ (FirstOf(q, z) # 0 => q[FirstOf(q, z)] = z)
<1> DEFINE I == {i \in 1 .. Len(q) : q[i] = z}
<1>1. FirstOf(q, z) = IF I # {} THEN Min(I) ELSE 0
  BY DEF FirstOf
<1>2. I \subseteq Nat /\ Len(q) \in Nat
  OBVIOUS
<1>3. \A i \in I : i \in 1 .. Len(q) /\ q[i] = z
  OBVIOUS
<1> HIDE DEF I
<1>4. I # {} => Min(I) \in I
  BY <1>2, MinPosition
<1>5. CASE I = {}
  <2>1. FirstOf(q, z) = 0
    BY <1>1, <1>5
  <2>. QED
    BY <1>2, <2>1
<1>6. CASE I # {}
  <2>1. FirstOf(q, z) \in 1 .. Len(q) /\ q[FirstOf(q, z)] = z
    BY <1>1, <1>3, <1>4, <1>6
  <2>. QED
    BY <1>2, <2>1
<1>. QED
  BY <1>5, <1>6

=============================================================================
