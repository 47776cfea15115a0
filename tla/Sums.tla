-------------------------------- MODULE Sums --------------------------------
(***************************************************************************)
(* Lemmas on SumFunctionOnSet, the sum of f[x] over the members x of a     *)
(* finite set, for the proofs about totals.  The library states induction  *)
(* over finite sets for an operator that no prover here can instantiate;   *)
(* these lemmas take a set of subsets in its place, from the fact that     *)
(* strict inclusion is well founded.                                       *)
(***************************************************************************)
EXTENDS Integers, FiniteSets, Functions, FiniteSetTheorems, TLAPS

\* Induction: a collection of subsets that has A whenever it has every strict
\* subset of A has every subset of a finite set.
LEMMA AllSubsets ==
  ASSUME NEW S, IsFiniteSet(S), NEW T,
         \A A \in SUBSET S : (\A B \in SUBSET A : B # A => B \in T) => A \in T
  PROVE  \A A \in SUBSET S : A \in T
<1> DEFINE Others == {A \in SUBSET S : A \notin T}
<1>1. IsWellFoundedOn(StrictSubsetOrdering(S), SUBSET S)
  BY FS_StrictSubsetOrderingWellFounded, FS_FiniteSubsetsOfFinite
<1>2. ASSUME Others # {}
      PROVE  FALSE
  <2> HIDE DEF Others
  <2>0. Others \subseteq SUBSET S
    BY DEF Others
  <2>1. PICK A \in Others : \A B \in Others : ~(<<B, A>> \in StrictSubsetOrdering(S))
    BY <1>1, <1>2, <2>0, WFMin
  <2>2. \A B \in SUBSET A : B # A => B \in T
    BY <2>0, <2>1 DEF StrictSubsetOrdering, Others
  <2> QED BY <2>1, <2>2 DEF Others
<1> QED BY <1>2

-----------------------------------------------------------------------------
(* The recursion behind the sum.                                           *)

Chosen(A) == CHOOSE x \in A : TRUE
Rest(A) == A \ {Chosen(A)}
Unfolds(g, f, S) ==
  g = [A \in SUBSET S |-> IF A = {} THEN 0 ELSE f[Chosen(A)] + g[Rest(A)]]

LEMMA ChosenIsMember ==
  ASSUME NEW A, A # {}
  PROVE  /\ Chosen(A) \in A
         /\ Rest(A) \in SUBSET A
         /\ Rest(A) # A
BY DEF Chosen, Rest

LEMMA SumIsUnfolded ==
  ASSUME NEW f, NEW S
  PROVE  SumFunctionOnSet(f, S) = (CHOOSE g : Unfolds(g, f, S))[S]
BY DEF SumFunctionOnSet, FoldFunctionOnSet, MapThenFoldSet, Unfolds, Chosen, Rest

\* A function that unfolds on S is the only one to do so on the subsets of S.
LEMMA UnfoldsOnce ==
  ASSUME NEW f, NEW S, IsFiniteSet(S), NEW g, NEW h,
         NEW R \in SUBSET S, Unfolds(g, f, S), Unfolds(h, f, R)
  PROVE  \A A \in SUBSET R : g[A] = h[A]
<1> DEFINE T == {A \in SUBSET R : g[A] = h[A]}
<1>1. IsFiniteSet(R)
  BY FS_Subset
<1>2. ASSUME NEW A \in SUBSET R, \A B \in SUBSET A : B # A => B \in T
      PROVE  A \in T
  <2>1. CASE A = {}
    <3>1. g[A] = 0 /\ h[A] = 0
      BY <2>1 DEF Unfolds
    <3> QED BY <3>1
  <2>2. CASE A # {}
    <3>1. Rest(A) \in SUBSET A /\ Rest(A) # A
      BY <2>2, ChosenIsMember
    <3>2. g[Rest(A)] = h[Rest(A)]
      BY <1>2, <3>1
    <3>3. g[A] = f[Chosen(A)] + g[Rest(A)]
      BY <2>2 DEF Unfolds
    <3>4. h[A] = f[Chosen(A)] + h[Rest(A)]
      BY <2>2 DEF Unfolds
    <3> QED BY <3>2, <3>3, <3>4
  <2> QED BY <2>1, <2>2
<1> HIDE DEF T
<1>3. \A A \in SUBSET R : A \in T
  BY <1>1, <1>2, AllSubsets
<1> QED BY <1>3 DEF T

LEMMA UnfoldsSomehow ==
  ASSUME NEW f, NEW S, IsFiniteSet(S)
  PROVE  \E g : Unfolds(g, f, S)
<1> DEFINE T == {A \in SUBSET S : \E g : Unfolds(g, f, A)}
           G(A) == CHOOSE g : Unfolds(g, f, A)
<1>1. ASSUME NEW A \in SUBSET S, \A B \in SUBSET A : B # A => B \in T
      PROVE  A \in T
  <2> DEFINE value(B) == IF B = {} THEN 0 ELSE f[Chosen(B)] + G(Rest(B))[Rest(B)]
             g == [B \in SUBSET A |-> value(B)]
  <2>1. ASSUME NEW B \in SUBSET A, B # {}
        PROVE  g[Rest(B)] = G(Rest(B))[Rest(B)]
    <3>1. Rest(B) \in SUBSET A /\ Rest(B) # A
      BY <2>1, ChosenIsMember
    <3>2. Unfolds(G(Rest(B)), f, Rest(B))
      BY <3>1, <1>1
    <3> DEFINE R == Rest(B)
    <3> HIDE DEF R, G
    <3>3. CASE R = {}
      <4>1. G(R)[R] = 0
        BY <3>2, <3>3 DEF Unfolds, R
      <4> QED BY <3>1, <3>3, <4>1 DEF R
    <3>4. CASE R # {}
      <4>1. G(R)[R] = f[Chosen(R)] + G(R)[Rest(R)]
        BY <3>2, <3>4 DEF Unfolds, R
      <4>2. Rest(R) \in SUBSET R /\ Rest(R) # A /\ Rest(R) \in SUBSET A
        BY <3>1, <3>4, ChosenIsMember DEF R
      <4>3. Unfolds(G(Rest(R)), f, Rest(R))
        BY <4>2, <1>1 DEF G
      <4>4. IsFiniteSet(R)
        BY <3>1, FS_Subset DEF R
      <4>5. G(R)[Rest(R)] = G(Rest(R))[Rest(R)]
        BY <3>2, <4>2, <4>3, <4>4, UnfoldsOnce DEF R
      <4>6. g[R] = f[Chosen(R)] + G(Rest(R))[Rest(R)]
        BY <3>1, <3>4 DEF R
      <4> QED BY <4>1, <4>5, <4>6 DEF R
    <3> QED BY <3>3, <3>4
  <2>2. ASSUME NEW B \in SUBSET A, B # {}
        PROVE  g[B] = f[Chosen(B)] + g[Rest(B)]
    <3>1. g[B] = f[Chosen(B)] + G(Rest(B))[Rest(B)]
      BY <2>2
    <3> QED BY <2>1, <2>2, <3>1
  <2>3. g[{}] = 0 /\ DOMAIN g = SUBSET A
    OBVIOUS
  <2>4. g = [B \in SUBSET A |-> g[B]]
    OBVIOUS
  <2> HIDE DEF g
  <2>5. Unfolds(g, f, A)
    BY <2>2, <2>3, <2>4 DEF Unfolds
  <2> QED BY <2>5
<1> HIDE DEF T
<1>2. S \in T
  BY <1>1, AllSubsets
<1> QED BY <1>2 DEF T

LEMMA SumUnfolds ==
  ASSUME NEW f, NEW S, IsFiniteSet(S), S # {}
  PROVE  SumFunctionOnSet(f, S) =
           f[Chosen(S)] + SumFunctionOnSet(f, Rest(S))
<1> DEFINE G(A) == CHOOSE g : Unfolds(g, f, A)
<1>1. Rest(S) \in SUBSET S /\ IsFiniteSet(Rest(S))
  BY ChosenIsMember, FS_Subset
<1>2. Unfolds(G(S), f, S) /\ Unfolds(G(Rest(S)), f, Rest(S))
  BY <1>1, UnfoldsSomehow
<1> HIDE DEF G
<1>3. G(S)[S] = f[Chosen(S)] + G(S)[Rest(S)]
  BY <1>2 DEF Unfolds
<1>4. G(S)[Rest(S)] = G(Rest(S))[Rest(S)]
  BY <1>1, <1>2, UnfoldsOnce
<1> QED BY <1>3, <1>4, SumIsUnfolded DEF G

-----------------------------------------------------------------------------
(* What the proofs use.                                                    *)

LEMMA SumEmpty == \A f : SumFunctionOnSet(f, {}) = 0
<1> TAKE f
<1> DEFINE G == CHOOSE g : Unfolds(g, f, {})
<1>1. Unfolds(G, f, {})
  BY UnfoldsSomehow, FS_EmptySet
<1> HIDE DEF G
<1>2. G[{}] = 0
  BY <1>1 DEF Unfolds
<1> QED BY <1>2, SumIsUnfolded DEF G

LEMMA SumType ==
  ASSUME NEW S, IsFiniteSet(S), NEW f, \A x \in S : f[x] \in Int
  PROVE  SumFunctionOnSet(f, S) \in Int
<1> DEFINE T == {A \in SUBSET S : SumFunctionOnSet(f, A) \in Int}
<1>1. ASSUME NEW A \in SUBSET S, \A B \in SUBSET A : B # A => B \in T
      PROVE  A \in T
  <2>1. CASE A = {}
    BY <2>1, SumEmpty
  <2>2. CASE A # {}
    <3>1. Rest(A) \in T /\ f[Chosen(A)] \in Int
      BY <1>1, <2>2, ChosenIsMember
    <3>2. SumFunctionOnSet(f, A) = f[Chosen(A)] + SumFunctionOnSet(f, Rest(A))
      BY <2>2, FS_Subset, SumUnfolds
    <3> QED BY <3>1, <3>2
  <2> QED BY <2>1, <2>2
<1> HIDE DEF T
<1>2. S \in T
  BY <1>1, AllSubsets
<1> QED BY <1>2 DEF T

LEMMA SumNat ==
  ASSUME NEW S, IsFiniteSet(S), NEW f, \A x \in S : f[x] \in Nat
  PROVE  SumFunctionOnSet(f, S) \in Nat
<1> DEFINE T == {A \in SUBSET S : SumFunctionOnSet(f, A) \in Nat}
<1>1. ASSUME NEW A \in SUBSET S, \A B \in SUBSET A : B # A => B \in T
      PROVE  A \in T
  <2>1. CASE A = {}
    BY <2>1, SumEmpty
  <2>2. CASE A # {}
    <3>1. Rest(A) \in T /\ f[Chosen(A)] \in Nat
      BY <1>1, <2>2, ChosenIsMember
    <3>2. SumFunctionOnSet(f, A) = f[Chosen(A)] + SumFunctionOnSet(f, Rest(A))
      BY <2>2, FS_Subset, SumUnfolds
    <3> QED BY <3>1, <3>2
  <2> QED BY <2>1, <2>2
<1> HIDE DEF T
<1>2. S \in T
  BY <1>1, AllSubsets
<1> QED BY <1>2 DEF T

\* Any member may be taken out of the sum, whichever the recursion chooses.
LEMMA SumTake ==
  ASSUME NEW S, IsFiniteSet(S), NEW f, \A x \in S : f[x] \in Int, NEW x \in S
  PROVE  SumFunctionOnSet(f, S) = f[x] + SumFunctionOnSet(f, S \ {x})
<1> DEFINE Sm(A) == SumFunctionOnSet(f, A)
           T == {A \in SUBSET S : \A y \in A : Sm(A) = f[y] + Sm(A \ {y})}
<1>1. \A A \in SUBSET S : IsFiniteSet(A) /\ Sm(A) \in Int
  BY FS_Subset, SumType
<1>2. \A A \in SUBSET S : A # {} => Sm(A) = f[Chosen(A)] + Sm(Rest(A))
  BY <1>1, SumUnfolds
<1> HIDE DEF Sm
<1>3. ASSUME NEW A \in SUBSET S, \A B \in SUBSET A : B # A => B \in T
      PROVE  A \in T
  <2> SUFFICES ASSUME NEW y \in A
               PROVE  Sm(A) = f[y] + Sm(A \ {y})
    OBVIOUS
  <2> DEFINE c == Chosen(A)
  <2>1. c \in A /\ Rest(A) = A \ {c}
    BY ChosenIsMember DEF Rest
  <2>2. Sm(A) = f[c] + Sm(A \ {c})
    BY <1>2, <2>1
  <2> HIDE DEF c
  <2>3. CASE y = c
    BY <2>2, <2>3
  <2>4. CASE y # c
    <3> DEFINE others == Sm((A \ {c}) \ {y})
    <3>1. Sm(A \ {c}) = f[y] + others
      BY <1>3, <2>1, <2>4
    <3>2. Sm(A \ {y}) = f[c] + Sm((A \ {y}) \ {c})
      BY <1>3, <2>1, <2>4
    <3>3. (A \ {y}) \ {c} = (A \ {c}) \ {y}
      OBVIOUS
    <3>4. Sm(A \ {y}) = f[c] + others
      BY <3>2, <3>3
    <3>5. others \in Int /\ f[c] \in Int /\ f[y] \in Int
      BY <1>1, <2>1
    <3> HIDE DEF others
    <3> QED BY <2>2, <3>1, <3>4, <3>5
  <2> QED BY <2>3, <2>4
<1> HIDE DEF T
<1>4. S \in T
  BY <1>3, AllSubsets
<1> QED BY <1>4 DEF T, Sm

LEMMA SumAdd ==
  ASSUME NEW S, IsFiniteSet(S), NEW f, NEW x, x \notin S,
         \A y \in S \cup {x} : f[y] \in Int
  PROVE  SumFunctionOnSet(f, S \cup {x}) = f[x] + SumFunctionOnSet(f, S)
<1>1. IsFiniteSet(S \cup {x}) /\ (S \cup {x}) \ {x} = S
  BY FS_AddElement
<1> QED BY <1>1, SumTake

\* Functions that agree on the set have the same sum.
LEMMA SumAgrees ==
  ASSUME NEW S, IsFiniteSet(S), NEW f, NEW g, \A x \in S : f[x] = g[x]
  PROVE  SumFunctionOnSet(f, S) = SumFunctionOnSet(g, S)
<1> DEFINE T == {A \in SUBSET S : SumFunctionOnSet(f, A) = SumFunctionOnSet(g, A)}
<1>1. ASSUME NEW A \in SUBSET S, \A B \in SUBSET A : B # A => B \in T
      PROVE  A \in T
  <2>1. CASE A = {}
    BY <2>1, SumEmpty
  <2>2. CASE A # {}
    <3>1. Rest(A) \in T /\ f[Chosen(A)] = g[Chosen(A)]
      BY <1>1, <2>2, ChosenIsMember
    <3>2. IsFiniteSet(A)
      BY FS_Subset
    <3> QED BY <2>2, <3>1, <3>2, SumUnfolds
  <2> QED BY <2>1, <2>2
<1> HIDE DEF T
<1>2. S \in T
  BY <1>1, AllSubsets
<1> QED BY <1>2 DEF T

LEMMA SumPlus ==
  ASSUME NEW S, IsFiniteSet(S), NEW f, NEW g, NEW h,
         \A x \in S : f[x] \in Int /\ g[x] \in Int /\ h[x] = f[x] + g[x]
  PROVE  SumFunctionOnSet(h, S) = SumFunctionOnSet(f, S) + SumFunctionOnSet(g, S)
<1> DEFINE Sm(k, A) == SumFunctionOnSet(k, A)
           T == {A \in SUBSET S : Sm(h, A) = Sm(f, A) + Sm(g, A)}
<1>1. \A A \in SUBSET S : IsFiniteSet(A) /\ Sm(f, A) \in Int /\ Sm(g, A) \in Int
  BY FS_Subset, SumType
<1>2. ASSUME NEW A \in SUBSET S, \A B \in SUBSET A : B # A => B \in T
      PROVE  A \in T
  <2>1. CASE A = {}
    BY <2>1, SumEmpty
  <2>2. CASE A # {}
    <3> DEFINE c == Chosen(A)
               R == Rest(A)
    <3>1. R \in T /\ c \in S /\ R \in SUBSET S
      BY <1>2, <2>2, ChosenIsMember
    <3>2. /\ Sm(h, A) = h[c] + Sm(h, R)
          /\ Sm(f, A) = f[c] + Sm(f, R)
          /\ Sm(g, A) = g[c] + Sm(g, R)
      BY <1>1, <2>2, SumUnfolds
    <3>3. Sm(h, R) = Sm(f, R) + Sm(g, R)
      BY <3>1
    <3>4. h[c] = f[c] + g[c] /\ f[c] \in Int /\ g[c] \in Int
      BY <3>1
    <3>5. Sm(f, R) \in Int /\ Sm(g, R) \in Int
      BY <1>1, <3>1
    <3> HIDE DEF Sm, c, R
    <3>6. Sm(h, A) = Sm(f, A) + Sm(g, A)
      BY <3>2, <3>3, <3>4, <3>5
    <3> QED BY <3>6
  <2> QED BY <2>1, <2>2
<1> HIDE DEF T, Sm
<1>3. S \in T
  BY <1>2, AllSubsets
<1> QED BY <1>3 DEF T, Sm

LEMMA SumScale ==
  ASSUME NEW S, IsFiniteSet(S), NEW k \in Int, NEW f, NEW h,
         \A x \in S : f[x] \in Int /\ h[x] = k * f[x]
  PROVE  SumFunctionOnSet(h, S) = k * SumFunctionOnSet(f, S)
<1> DEFINE Sm(g, A) == SumFunctionOnSet(g, A)
           T == {A \in SUBSET S : Sm(h, A) = k * Sm(f, A)}
<1>1. \A A \in SUBSET S : IsFiniteSet(A) /\ Sm(f, A) \in Int
  BY FS_Subset, SumType
<1>2. ASSUME NEW A \in SUBSET S, \A B \in SUBSET A : B # A => B \in T
      PROVE  A \in T
  <2>1. CASE A = {}
    <3>1. Sm(h, A) = 0 /\ Sm(f, A) = 0
      BY <2>1, SumEmpty
    <3> QED BY <3>1
  <2>2. CASE A # {}
    <3> DEFINE c == Chosen(A)
               R == Rest(A)
    <3>1. R \in T /\ c \in S /\ R \in SUBSET S
      BY <1>2, <2>2, ChosenIsMember
    <3>2. /\ Sm(h, A) = h[c] + Sm(h, R)
          /\ Sm(f, A) = f[c] + Sm(f, R)
      BY <1>1, <2>2, SumUnfolds
    <3>3. Sm(h, R) = k * Sm(f, R) /\ h[c] = k * f[c]
      BY <3>1
    <3>4. f[c] \in Int /\ Sm(f, R) \in Int
      BY <1>1, <3>1
    <3> HIDE DEF Sm, c, R
    <3>5. k * (f[c] + Sm(f, R)) = k * f[c] + k * Sm(f, R)
      BY <3>4
    <3>6. Sm(h, A) = k * Sm(f, A)
      BY <3>2, <3>3, <3>5
    <3> QED BY <3>6
  <2> QED BY <2>1, <2>2
<1> HIDE DEF T, Sm
<1>3. S \in T
  BY <1>2, AllSubsets
<1> QED BY <1>3 DEF T, Sm

LEMMA SumOfZeros ==
  ASSUME NEW S, IsFiniteSet(S), NEW f, \A x \in S : f[x] = 0
  PROVE  SumFunctionOnSet(f, S) = 0
<1>1. SumFunctionOnSet(f, S) = 0 * SumFunctionOnSet(f, S)
  BY SumScale
<1>2. SumFunctionOnSet(f, S) \in Int
  BY SumType
<1> QED BY <1>1, <1>2

\* One value changes, and the sum by as much.
LEMMA SumChange ==
  ASSUME NEW S, IsFiniteSet(S), NEW f, NEW g, NEW x \in S,
         \A y \in S : f[y] \in Int, g[x] \in Int,
         \A y \in S \ {x} : g[y] = f[y]
  PROVE  SumFunctionOnSet(g, S) = SumFunctionOnSet(f, S) + (g[x] - f[x])
<1> DEFINE others == SumFunctionOnSet(f, S \ {x})
<1>1. IsFiniteSet(S \ {x})
  BY FS_Subset
<1>2. SumFunctionOnSet(f, S) = f[x] + others
  BY SumTake
<1>3. SumFunctionOnSet(g, S) = g[x] + SumFunctionOnSet(g, S \ {x})
  BY SumTake
<1>4. SumFunctionOnSet(g, S \ {x}) = others
  BY <1>1, SumAgrees
<1>5. others \in Int
  BY <1>1, SumType
<1> HIDE DEF others
<1> QED BY <1>2, <1>3, <1>4, <1>5

\* Members where the function is zero need not be summed.
LEMMA SumSupport ==
  ASSUME NEW S, IsFiniteSet(S), NEW R \in SUBSET S, NEW f, NEW g,
         \A x \in R : f[x] \in Int /\ g[x] = f[x],
         \A x \in S \ R : g[x] = 0
  PROVE  SumFunctionOnSet(g, S) = SumFunctionOnSet(f, R)
<1> DEFINE Sm(h, A) == SumFunctionOnSet(h, A)
           T == {A \in SUBSET S : Sm(g, A) = Sm(f, A \cap R)}
<1>1. \A A \in SUBSET S : IsFiniteSet(A) /\ Sm(g, A) \in Int
  BY FS_Subset, SumType
<1>2. ASSUME NEW A \in SUBSET S, \A B \in SUBSET A : B # A => B \in T
      PROVE  A \in T
  <2>1. CASE A = {}
    <3>1. A \cap R = {}
      BY <2>1
    <3> QED BY <2>1, <3>1, SumEmpty
  <2>2. CASE A # {}
    <3> DEFINE c == Chosen(A)
    <3>1. c \in A /\ A \ {c} \in T /\ A \ {c} \in SUBSET S
      BY <1>2, <2>2, ChosenIsMember DEF Rest
    <3> HIDE DEF c, Sm
    <3>2. Sm(g, A) = g[c] + Sm(g, A \ {c})
      BY <1>1, <3>1, SumTake DEF Sm
    <3>3. Sm(g, A \ {c}) = Sm(f, (A \ {c}) \cap R)
      BY <3>1
    <3>4. ASSUME c \in R
          PROVE  Sm(g, A) = Sm(f, A \cap R)
      <4>1. (A \ {c}) \cap R = (A \cap R) \ {c}
        OBVIOUS
      <4>2. IsFiniteSet(A \cap R) /\ c \in A \cap R /\ \A x \in A \cap R : f[x] \in Int
        BY <3>1, <3>4, FS_Subset
      <4>3. Sm(f, A \cap R) = f[c] + Sm(f, (A \cap R) \ {c})
        BY <4>2, SumTake DEF Sm
      <4> QED BY <3>2, <3>3, <3>4, <4>1, <4>3
    <3>5. ASSUME c \notin R
          PROVE  Sm(g, A) = Sm(f, A \cap R)
      <4>1. (A \ {c}) \cap R = A \cap R
        BY <3>5
      <4>2. g[c] = 0 /\ Sm(g, A \ {c}) \in Int
        BY <1>1, <3>1, <3>5
      <4>3. Sm(g, A) = Sm(g, A \ {c})
        BY <3>2, <4>2
      <4> QED BY <3>3, <4>1, <4>3
    <3>6. Sm(g, A) = Sm(f, A \cap R)
      BY <3>4, <3>5
    <3> QED BY <3>6
  <2> QED BY <2>1, <2>2
<1> HIDE DEF T, Sm
<1>3. S \in T
  BY <1>2, AllSubsets
<1>4. S \cap R = R
  OBVIOUS
<1> QED BY <1>3, <1>4 DEF T, Sm

\* No member exceeds a sum of naturals.
LEMMA SumBounds ==
  ASSUME NEW S, IsFiniteSet(S), NEW f, \A y \in S : f[y] \in Nat, NEW x \in S
  PROVE  f[x] <= SumFunctionOnSet(f, S)
<1>1. SumFunctionOnSet(f, S) = f[x] + SumFunctionOnSet(f, S \ {x})
  BY SumTake
<1>2. SumFunctionOnSet(f, S \ {x}) \in Nat
  BY FS_Subset, SumNat
<1> QED BY <1>1, <1>2

\* A part sums to no more than the whole, by as much as any member outside.
LEMMA SumSubset ==
  ASSUME NEW S, IsFiniteSet(S), NEW R \in SUBSET S, NEW f, \A y \in S : f[y] \in Nat
  PROVE  /\ SumFunctionOnSet(f, R) \in Nat /\ SumFunctionOnSet(f, S) \in Nat
         /\ SumFunctionOnSet(f, R) <= SumFunctionOnSet(f, S)
         /\ \A x \in S \ R : SumFunctionOnSet(f, R) + f[x] <= SumFunctionOnSet(f, S)
<1> DEFINE g == [y \in S |-> IF y \in R THEN f[y] ELSE 0]
           h == [y \in S |-> IF y \in R THEN 0 ELSE f[y]]
           whole == SumFunctionOnSet(f, S)  part == SumFunctionOnSet(f, R)
           rest == SumFunctionOnSet(h, S)
<1>1. IsFiniteSet(R) /\ \A y \in R : f[y] \in Nat
  BY FS_Subset
<1>2. \A y \in S : g[y] \in Int /\ h[y] \in Int /\ h[y] \in Nat /\ f[y] = g[y] + h[y]
  OBVIOUS
<1>3. \A y \in R : f[y] \in Int /\ g[y] = f[y]
  OBVIOUS
<1>4. \A y \in S \ R : g[y] = 0 /\ h[y] = f[y]
  OBVIOUS
<1> HIDE DEF g, h
<1>5. whole \in Nat /\ part \in Nat /\ rest \in Nat
  BY <1>1, <1>2, SumNat
<1>6. SumFunctionOnSet(g, S) = part
  BY <1>3, <1>4, SumSupport
<1>7. whole = SumFunctionOnSet(g, S) + rest
  BY <1>2, SumPlus
<1>8. \A x \in S \ R : f[x] <= rest /\ f[x] \in Nat
  <2> SUFFICES ASSUME NEW x \in S \ R PROVE f[x] <= rest
    OBVIOUS
  <2>1. h[x] <= rest
    BY <1>2, SumBounds
  <2> QED BY <1>4, <2>1
<1> HIDE DEF whole, part, rest
<1>9. part <= whole
  BY <1>5, <1>6, <1>7
<1>10. \A x \in S \ R : part + f[x] <= whole
  BY <1>5, <1>6, <1>7, <1>8
<1> QED BY <1>5, <1>9, <1>10 DEF whole, part

\* A table m over X and Y, its transpose n, and the totals of both.
Tallied(X, Y, m, n, rows, cols) ==
  /\ \A x \in X, y \in Y : m[x][y] \in Int /\ n[y][x] = m[x][y]
  /\ \A x \in X : rows[x] = SumFunctionOnSet(m[x], Y)
  /\ \A y \in Y : cols[y] = SumFunctionOnSet(n[y], X)

\* A table may be summed by rows or by columns.
LEMMA SumExchange ==
  ASSUME NEW X, IsFiniteSet(X), NEW Y, IsFiniteSet(Y),
         NEW m, NEW n, NEW rows, NEW cols, Tallied(X, Y, m, n, rows, cols)
  PROVE  SumFunctionOnSet(rows, X) = SumFunctionOnSet(cols, Y)
<1> USE DEF Tallied
<1> DEFINE Sm(h, A) == SumFunctionOnSet(h, A)
           Part(A) == [y \in Y |-> Sm(n[y], A)]
           T == {A \in SUBSET X : Sm(rows, A) = Sm(Part(A), Y)}
<1>1. \A A \in SUBSET X : IsFiniteSet(A)
  BY FS_Subset
<1>2. ASSUME NEW A \in SUBSET X, NEW y \in Y
      PROVE  Sm(n[y], A) \in Int
  BY <1>1, SumType
<1>3. \A x \in X : rows[x] \in Int
  BY SumType
<1>4. ASSUME NEW A \in SUBSET X, \A B \in SUBSET A : B # A => B \in T
      PROVE  A \in T
  <2>1. CASE A = {}
    <3>1. \A y \in Y : Part(A)[y] = 0
      BY <2>1, SumEmpty
    <3>2. Sm(Part(A), Y) = 0
      BY <3>1, SumOfZeros
    <3> QED BY <2>1, <3>2, SumEmpty
  <2>2. CASE A # {}
    <3> DEFINE c == Chosen(A)
               R == A \ {c}
    <3>0. c \in A
      BY <2>2, ChosenIsMember
    <3>1. c \in A /\ R \in T /\ R \in SUBSET X
      BY <1>4, <2>2, ChosenIsMember DEF Rest
    <3>2. Sm(rows, A) = rows[c] + Sm(rows, R)
      <4>1. IsFiniteSet(A) /\ \A x \in A : rows[x] \in Int
        BY <1>1, <1>3
      <4> QED BY <3>0, <4>1, SumTake
    <3>3. Sm(rows, R) = Sm(Part(R), Y)
      BY <3>1
    <3>4. ASSUME NEW y \in Y
          PROVE  /\ Part(A)[y] = m[c][y] + Part(R)[y]
                 /\ m[c][y] \in Int
                 /\ Part(R)[y] \in Int
      <4> DEFINE f == n[y]
      <4>0. IsFiniteSet(A) /\ \A x \in A : f[x] \in Int
        BY <1>1
      <4>1. Sm(f, A) = f[c] + Sm(f, R)
        <5> HIDE DEF f
        <5> QED BY <3>0, <4>0, SumTake
      <4> QED BY <4>1, <3>1, <1>2
    <3> HIDE DEF c, R
    <3>5. Sm(Part(A), Y) = Sm(m[c], Y) + Sm(Part(R), Y)
      <4> HIDE DEF Part
      <4> QED BY <3>4, SumPlus
    <3>6. rows[c] = Sm(m[c], Y)
      BY <3>1
    <3> QED BY <3>2, <3>3, <3>5, <3>6
  <2> QED BY <2>1, <2>2
<1> HIDE DEF T
<1>5. X \in T
  BY <1>4, AllSubsets
<1>6. \A y \in Y : Part(X)[y] = cols[y]
  OBVIOUS
<1>7. Sm(Part(X), Y) = Sm(cols, Y)
  BY <1>6, SumAgrees
<1> QED BY <1>5, <1>7 DEF T
=============================================================================
