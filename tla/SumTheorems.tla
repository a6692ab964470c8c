---------------------------- MODULE SumTheorems ----------------------------
(***************************************************************************)
(* Facts about SumFunctionOnSet of the community module Functions, the sum *)
(* of the values a function has on a finite set.  It is a fold over the    *)
(* set, so its facts ask for an induction over data; SubsetInduction gives *)
(* it for a set of good subsets in place of a predicate.                   *)
(***************************************************************************)
EXTENDS Integers, FiniteSets, Functions, FiniteSetTheorems, WellFoundedInduction, TLAPS

(* Induction on the subsets of a finite set *)
LEMMA SubsetInduction ==
    ASSUME NEW S, IsFiniteSet(S), NEW G,
           {} \in G,
           \A s \in (SUBSET S) \ {{}} : (\A x \in s : s \ {x} \in G) => s \in G
    PROVE  SUBSET S \subseteq G
<1> SUFFICES ASSUME NEW bad \in SUBSET S, bad \notin G PROVE FALSE
  OBVIOUS
<1> DEFINE Sizes == {Cardinality(s) : s \in (SUBSET S) \ G}
<1>1. \A s \in SUBSET S : IsFiniteSet(s) /\ Cardinality(s) \in Nat
  BY FS_Subset, FS_CardinalityType
<1>2. Sizes \subseteq Nat /\ Sizes # {}
  BY <1>1
<1> HIDE DEF Sizes
<1>3. \E n \in Sizes : \A m \in Sizes : ~(<<m, n>> \in OpToRel(<, Nat))
  BY <1>2, NatLessThanWellFounded, WFMin
<1>4. \A m, n \in Sizes : <<m, n>> \in OpToRel(<, Nat) <=> m < n
  BY <1>2 DEF OpToRel
<1>5. PICK n \in Sizes : \A m \in Sizes : ~(m < n)
  BY <1>3, <1>4
<1>6. PICK s \in SUBSET S : s \notin G /\ n = Cardinality(s)
  BY <1>5 DEF Sizes
<1>7. ASSUME NEW x \in s PROVE s \ {x} \in G
  <2>1. IsFiniteSet(s) /\ Cardinality(s \ {x}) = Cardinality(s) - 1 /\ Cardinality(s) \in Nat
    BY <1>1, FS_RemoveElement
  <2>2. Cardinality(s \ {x}) < n
    BY <1>6, <2>1
  <2>3. Cardinality(s \ {x}) \notin Sizes
    BY <1>5, <2>2
  <2> QED
    BY <2>3 DEF Sizes
<1>8. s \in (SUBSET S) \ {{}}
  <2> SUFFICES s # {}
    OBVIOUS
  <2> SUFFICES ASSUME s = {} PROVE FALSE
    OBVIOUS
  <2> QED
    BY <1>6
<1>9. s \in G
  BY <1>7, <1>8
<1> QED
  BY <1>6, <1>9

-----------------------------------------------------------------------------
(* The recursion behind the fold: g is the sum of f over each subset of S *)
Pick(s) == CHOOSE x \in s : TRUE
IsSum(g, f, S) ==
    g = [s \in SUBSET S |-> IF s = {} THEN 0 ELSE f[Pick(s)] + g[s \ {Pick(s)}]]

LEMMA SumIsRecursive ==
    ASSUME NEW f, NEW S, NEW h, IsSum(h, f, S)
    PROVE  \E g : IsSum(g, f, S) /\ SumFunctionOnSet(f, S) = g[S]
<1> DEFINE g == CHOOSE g : IsSum(g, f, S)
<1>1. IsSum(g, f, S)
  OBVIOUS
<1>2. SumFunctionOnSet(f, S) = g[S]
  BY DEF SumFunctionOnSet, FoldFunctionOnSet, MapThenFoldSet, IsSum, Pick
<1> QED
  BY <1>1, <1>2

LEMMA IsSumGives ==
    ASSUME NEW g, NEW f, NEW S, IsSum(g, f, S)
    PROVE  /\ g[{}] = 0
           /\ \A s \in (SUBSET S) \ {{}} :
                 Pick(s) \in s /\ g[s] = f[Pick(s)] + g[s \ {Pick(s)}]
<1>1. \A s \in (SUBSET S) \ {{}} : Pick(s) \in s
  BY DEF Pick
<1>2. \A s \in SUBSET S : g[s] = IF s = {} THEN 0 ELSE f[Pick(s)] + g[s \ {Pick(s)}]
  BY DEF IsSum
<1> QED
  BY <1>1, <1>2

(* Two sums over overlapping sets agree where both are defined *)
LEMMA SumAgrees ==
    ASSUME NEW f, NEW S, NEW T \in SUBSET S, IsFiniteSet(S),
           NEW g, NEW h, IsSum(g, f, S), IsSum(h, f, T)
    PROVE  h[T] = g[T]
<1> DEFINE G == {s \in SUBSET T : h[s] = g[s]}
<1>1. IsFiniteSet(T)
  BY FS_Subset
<1>2. {} \in G
  BY IsSumGives
<1>3. ASSUME NEW s \in (SUBSET T) \ {{}}, \A x \in s : s \ {x} \in G
      PROVE  s \in G
  <2>1. Pick(s) \in s /\ h[s] = f[Pick(s)] + h[s \ {Pick(s)}]
    BY IsSumGives
  <2>2. g[s] = f[Pick(s)] + g[s \ {Pick(s)}]
    BY IsSumGives
  <2> QED
    BY <1>3, <2>1, <2>2
<1> HIDE DEF G
<1>4. SUBSET T \subseteq G
  BY <1>1, <1>2, <1>3, SubsetInduction
<1> QED
  BY <1>4 DEF G

(* The recursion has a solution over the subsets of at most n elements *)
Small(S, n) == {s \in SUBSET S : Cardinality(s) <= n}
SumUpTo(h, f, S, n) ==
    h = [s \in Small(S, n) |-> IF s = {} THEN 0 ELSE f[Pick(s)] + h[s \ {Pick(s)}]]

LEMMA SumExists ==
    ASSUME NEW S, IsFiniteSet(S), NEW f
    PROVE  \E g : IsSum(g, f, S)
<1>1. \A s \in SUBSET S : IsFiniteSet(s) /\ Cardinality(s) \in Nat
  BY FS_Subset, FS_CardinalityType
<1>2. ASSUME NEW n \in Nat, n # 0, \E h : SumUpTo(h, f, S, n - 1)
      PROVE  \E h : SumUpTo(h, f, S, n)
  <2>1. PICK h : SumUpTo(h, f, S, n - 1)
    BY <1>2
  <2> DEFINE g == [s \in Small(S, n) |-> IF s = {} THEN 0 ELSE f[Pick(s)] + h[s \ {Pick(s)}]]
  <2>2. ASSUME NEW s \in Small(S, n - 1) PROVE g[s] = h[s]
    <3>1. s \in Small(S, n)
      BY <1>1 DEF Small
    <3>2. h[s] = IF s = {} THEN 0 ELSE f[Pick(s)] + h[s \ {Pick(s)}]
      BY <2>1 DEF SumUpTo
    <3> QED
      BY <3>1, <3>2
  <2>3. ASSUME NEW s \in Small(S, n), s # {} PROVE s \ {Pick(s)} \in Small(S, n - 1)
    <3>1. Pick(s) \in s /\ IsFiniteSet(s) /\ Cardinality(s) \in Nat /\ Cardinality(s) <= n
      BY <1>1, <2>3 DEF Pick, Small
    <3>2. Cardinality(s \ {Pick(s)}) = Cardinality(s) - 1
      BY <3>1, FS_RemoveElement
    <3> QED
      BY <3>1, <3>2 DEF Small
  <2>4. ASSUME NEW s \in Small(S, n), s # {}
        PROVE  h[s \ {Pick(s)}] = g[s \ {Pick(s)}]
    BY <2>2, <2>3, <2>4
  <2>5. SumUpTo(g, f, S, n)
    BY <2>4 DEF SumUpTo
  <2> QED
    BY <2>5
<1>3. \E h : SumUpTo(h, f, S, 0)
  <2>1. \A s \in Small(S, 0) : s = {}
    BY <1>1, FS_EmptySet DEF Small
  <2>2. SumUpTo([s \in Small(S, 0) |-> 0], f, S, 0)
    BY <2>1 DEF SumUpTo
  <2> QED
    BY <2>2
<1> DEFINE Bad == {n \in Nat : ~\E h : SumUpTo(h, f, S, n)}
<1>4. Bad = {}
  <2> SUFFICES ASSUME Bad # {} PROVE FALSE
    OBVIOUS
  <2>1. \E n \in Bad : \A m \in Bad : ~(<<m, n>> \in OpToRel(<, Nat))
    BY NatLessThanWellFounded, WFMin
  <2>2. \A m, n \in Nat : <<m, n>> \in OpToRel(<, Nat) <=> m < n
    BY DEF OpToRel
  <2>3. PICK n \in Bad : \A m \in Bad : ~(m < n)
    BY <2>1, <2>2
  <2>4. n # 0
    BY <1>3
  <2>5. n - 1 \in Nat /\ n - 1 \notin Bad
    BY <2>3, <2>4
  <2> QED
    BY <1>2, <2>3, <2>4, <2>5
<1>5. PICK h : SumUpTo(h, f, S, Cardinality(S))
  BY <1>1, <1>4
<1>6. Small(S, Cardinality(S)) = SUBSET S
  BY FS_Subset DEF Small
<1> QED
  BY <1>5, <1>6 DEF SumUpTo, IsSum

-----------------------------------------------------------------------------
(* The sum of nothing is 0 *)
LEMMA SumEmpty ==
    ASSUME NEW f
    PROVE  SumFunctionOnSet(f, {}) = 0
<1>1. PICK g : IsSum(g, f, {}) /\ SumFunctionOnSet(f, {}) = g[{}]
  BY SumExists, FS_EmptySet, SumIsRecursive
<1> QED
  BY <1>1, IsSumGives

(* The sum of a set is that of one of its elements and of the rest; which   *)
(* one does not matter                                                      *)
LEMMA SumPicks ==
    ASSUME NEW f, NEW S, IsFiniteSet(S), S # {}
    PROVE  /\ Pick(S) \in S
           /\ SumFunctionOnSet(f, S) = f[Pick(S)] + SumFunctionOnSet(f, S \ {Pick(S)})
<1>1. PICK g : IsSum(g, f, S) /\ SumFunctionOnSet(f, S) = g[S]
  BY SumExists, SumIsRecursive
<1>2. Pick(S) \in S /\ g[S] = f[Pick(S)] + g[S \ {Pick(S)}]
  BY <1>1, IsSumGives
<1>3. IsFiniteSet(S \ {Pick(S)})
  BY FS_RemoveElement
<1>4. PICK h : IsSum(h, f, S \ {Pick(S)})
               /\ SumFunctionOnSet(f, S \ {Pick(S)}) = h[S \ {Pick(S)}]
  BY <1>3, SumExists, SumIsRecursive
<1>5. h[S \ {Pick(S)}] = g[S \ {Pick(S)}]
  BY <1>1, <1>4, SumAgrees
<1> QED
  BY <1>1, <1>2, <1>4, <1>5

LEMMA SumIsInt ==
    ASSUME NEW S, IsFiniteSet(S), NEW f, \A x \in S : f[x] \in Int
    PROVE  SumFunctionOnSet(f, S) \in Int
<1> DEFINE G == {s \in SUBSET S : SumFunctionOnSet(f, s) \in Int}
<1>1. {} \in G
  BY SumEmpty
<1>2. ASSUME NEW s \in (SUBSET S) \ {{}}, \A x \in s : s \ {x} \in G
      PROVE  s \in G
  <2>1. IsFiniteSet(s)
    BY FS_Subset
  <2>2. /\ Pick(s) \in s
        /\ SumFunctionOnSet(f, s) = f[Pick(s)] + SumFunctionOnSet(f, s \ {Pick(s)})
    BY <2>1, SumPicks
  <2> QED
    BY <1>2, <2>2
<1> HIDE DEF G
<1>3. SUBSET S \subseteq G
  BY <1>1, <1>2, SubsetInduction
<1> QED
  BY <1>3 DEF G

LEMMA SumRemove ==
    ASSUME NEW S, IsFiniteSet(S), NEW f, \A x \in S : f[x] \in Int, NEW y \in S
    PROVE  SumFunctionOnSet(f, S) = f[y] + SumFunctionOnSet(f, S \ {y})
<1> DEFINE G == {s \in SUBSET S : \A x \in s :
                    SumFunctionOnSet(f, s) = f[x] + SumFunctionOnSet(f, s \ {x})}
<1>1. {} \in G
  OBVIOUS
<1>2. ASSUME NEW s \in (SUBSET S) \ {{}}, \A x \in s : s \ {x} \in G
      PROVE  s \in G
  <2> SUFFICES ASSUME NEW x \in s
               PROVE  SumFunctionOnSet(f, s) = f[x] + SumFunctionOnSet(f, s \ {x})
    OBVIOUS
  <2>1. IsFiniteSet(s) /\ \A t \in SUBSET s : IsFiniteSet(t)
    BY FS_Subset
  <2>2. PICK p \in s : SumFunctionOnSet(f, s) = f[p] + SumFunctionOnSet(f, s \ {p})
    BY <2>1, SumPicks
  <2>3. CASE x = p
    BY <2>2, <2>3
  <2>4. CASE x # p
    <3>1. x \in s \ {p} /\ p \in s \ {x} /\ (s \ {p}) \ {x} = (s \ {x}) \ {p}
      BY <2>4
    <3>2. SumFunctionOnSet(f, s \ {p}) = f[x] + SumFunctionOnSet(f, (s \ {p}) \ {x})
      BY <1>2, <3>1
    <3>3. SumFunctionOnSet(f, s \ {x}) = f[p] + SumFunctionOnSet(f, (s \ {x}) \ {p})
      BY <1>2, <3>1
    <3>4. PICK rest \in Int : rest = SumFunctionOnSet(f, (s \ {p}) \ {x})
      BY <2>1, SumIsInt
    <3>5. SumFunctionOnSet(f, s) = f[p] + (f[x] + rest)
      BY <2>2, <3>2, <3>4
    <3>6. SumFunctionOnSet(f, s \ {x}) = f[p] + rest
      BY <3>1, <3>3, <3>4
    <3>7. f[x] \in Int /\ f[p] \in Int
      OBVIOUS
    <3> QED
      BY <3>5, <3>6, <3>7
  <2> QED
    BY <2>3, <2>4
<1> HIDE DEF G
<1>3. SUBSET S \subseteq G
  BY <1>1, <1>2, SubsetInduction
<1> QED
  BY <1>3 DEF G

(* The sum depends on the values on the set only, and grows with them *)
LEMMA SumEqual ==
    ASSUME NEW S, IsFiniteSet(S), NEW f, NEW g, \A x \in S : f[x] = g[x]
    PROVE  SumFunctionOnSet(f, S) = SumFunctionOnSet(g, S)
<1> DEFINE G == {s \in SUBSET S : SumFunctionOnSet(f, s) = SumFunctionOnSet(g, s)}
<1>1. {} \in G
  BY SumEmpty
<1>2. ASSUME NEW s \in (SUBSET S) \ {{}}, \A x \in s : s \ {x} \in G
      PROVE  s \in G
  <2>1. IsFiniteSet(s)
    BY FS_Subset
  <2>2. /\ Pick(s) \in s
        /\ SumFunctionOnSet(f, s) = f[Pick(s)] + SumFunctionOnSet(f, s \ {Pick(s)})
        /\ SumFunctionOnSet(g, s) = g[Pick(s)] + SumFunctionOnSet(g, s \ {Pick(s)})
    BY <2>1, SumPicks
  <2> QED
    BY <1>2, <2>2
<1> HIDE DEF G
<1>3. SUBSET S \subseteq G
  BY <1>1, <1>2, SubsetInduction
<1> QED
  BY <1>3 DEF G

LEMMA SumGrows ==
    ASSUME NEW S, IsFiniteSet(S), NEW f, NEW g,
           \A x \in S : f[x] \in Int /\ g[x] \in Int /\ f[x] <= g[x]
    PROVE  SumFunctionOnSet(f, S) <= SumFunctionOnSet(g, S)
<1> DEFINE G == {s \in SUBSET S : SumFunctionOnSet(f, s) <= SumFunctionOnSet(g, s)}
<1>1. {} \in G
  BY SumEmpty
<1>2. ASSUME NEW s \in (SUBSET S) \ {{}}, \A x \in s : s \ {x} \in G
      PROVE  s \in G
  <2>1. IsFiniteSet(s) /\ \A t \in SUBSET s : IsFiniteSet(t)
    BY FS_Subset
  <2>2. PICK p \in s :
          /\ SumFunctionOnSet(f, s) = f[p] + SumFunctionOnSet(f, s \ {p})
          /\ SumFunctionOnSet(g, s) = g[p] + SumFunctionOnSet(g, s \ {p})
    BY <2>1, SumPicks
  <2>3. SumFunctionOnSet(f, s \ {p}) <= SumFunctionOnSet(g, s \ {p})
    BY <1>2
  <2>4. SumFunctionOnSet(f, s \ {p}) \in Int /\ SumFunctionOnSet(g, s \ {p}) \in Int
    BY <2>1, SumIsInt
  <2> QED
    BY <2>2, <2>3, <2>4
<1> HIDE DEF G
<1>3. SUBSET S \subseteq G
  BY <1>1, <1>2, SubsetInduction
<1> QED
  BY <1>3 DEF G

(* The sum of two parts of a set *)
LEMMA SumSplits ==
    ASSUME NEW S, IsFiniteSet(S), NEW T, IsFiniteSet(T), S \cap T = {},
           NEW f, \A x \in S \cup T : f[x] \in Int
    PROVE  SumFunctionOnSet(f, S \cup T) = SumFunctionOnSet(f, S) + SumFunctionOnSet(f, T)
<1> DEFINE G == {s \in SUBSET S :
                    SumFunctionOnSet(f, s \cup T)
                        = SumFunctionOnSet(f, s) + SumFunctionOnSet(f, T)}
<1>0. SumFunctionOnSet(f, T) \in Int
  BY SumIsInt
<1>1. {} \in G
  BY <1>0, SumEmpty
<1>2. ASSUME NEW s \in (SUBSET S) \ {{}}, \A x \in s : s \ {x} \in G
      PROVE  s \in G
  <2>1. IsFiniteSet(s) /\ IsFiniteSet(s \cup T)
    BY FS_Subset, FS_Union
  <2>2. PICK p \in s : SumFunctionOnSet(f, s) = f[p] + SumFunctionOnSet(f, s \ {p})
    BY <2>1, SumPicks
  <2>3. SumFunctionOnSet(f, s \cup T) = f[p] + SumFunctionOnSet(f, (s \cup T) \ {p})
    BY <2>1, SumRemove
  <2>4. (s \cup T) \ {p} = (s \ {p}) \cup T
    OBVIOUS
  <2>5. SumFunctionOnSet(f, (s \ {p}) \cup T)
            = SumFunctionOnSet(f, s \ {p}) + SumFunctionOnSet(f, T)
    BY <1>2
  <2>6. PICK rest \in Int : rest = SumFunctionOnSet(f, s \ {p})
    BY FS_Subset, SumIsInt
  <2>7. PICK tail \in Int : tail = SumFunctionOnSet(f, T)
    BY <1>0
  <2>8. SumFunctionOnSet(f, s \cup T) = f[p] + (rest + tail)
    BY <2>3, <2>4, <2>5, <2>6, <2>7
  <2>9. SumFunctionOnSet(f, s) + SumFunctionOnSet(f, T) = (f[p] + rest) + tail
    BY <2>2, <2>6, <2>7
  <2>10. f[p] \in Int
    OBVIOUS
  <2>11. SumFunctionOnSet(f, s \cup T) = SumFunctionOnSet(f, s) + SumFunctionOnSet(f, T)
    BY <2>8, <2>9, <2>10
  <2> QED
    BY <2>11
<1> HIDE DEF G
<1>3. SUBSET S \subseteq G
  BY <1>1, <1>2, SubsetInduction
<1> QED
  BY <1>3 DEF G

(* Zeros add nothing; natural numbers add up to one, and no part of them to *)
(* more than the whole                                                      *)
LEMMA SumZero ==
    ASSUME NEW S, IsFiniteSet(S), NEW f, \A x \in S : f[x] = 0
    PROVE  SumFunctionOnSet(f, S) = 0
<1> DEFINE G == {s \in SUBSET S : SumFunctionOnSet(f, s) = 0}
<1>1. {} \in G
  BY SumEmpty
<1>2. ASSUME NEW s \in (SUBSET S) \ {{}}, \A x \in s : s \ {x} \in G
      PROVE  s \in G
  <2>1. IsFiniteSet(s)
    BY FS_Subset
  <2>2. /\ Pick(s) \in s
        /\ SumFunctionOnSet(f, s) = f[Pick(s)] + SumFunctionOnSet(f, s \ {Pick(s)})
    BY <2>1, SumPicks
  <2> QED
    BY <1>2, <2>2
<1> HIDE DEF G
<1>3. SUBSET S \subseteq G
  BY <1>1, <1>2, SubsetInduction
<1> QED
  BY <1>3 DEF G

LEMMA SumIsNat ==
    ASSUME NEW S, IsFiniteSet(S), NEW f, \A x \in S : f[x] \in Nat
    PROVE  SumFunctionOnSet(f, S) \in Nat
<1> DEFINE zero == [x \in S |-> 0]
<1>1. SumFunctionOnSet(zero, S) = 0
  BY SumZero
<1>2. SumFunctionOnSet(f, S) \in Int /\ \A x \in S : 0 <= f[x] /\ f[x] \in Int
  BY SumIsInt
<1>3. SumFunctionOnSet(zero, S) <= SumFunctionOnSet(f, S)
  BY <1>2, SumGrows
<1> QED
  BY <1>1, <1>2, <1>3

LEMMA SumOfPart ==
    ASSUME NEW S, IsFiniteSet(S), NEW T \in SUBSET S, NEW f, \A x \in S : f[x] \in Nat
    PROVE  SumFunctionOnSet(f, T) <= SumFunctionOnSet(f, S)
<1>1. IsFiniteSet(T) /\ IsFiniteSet(S \ T)
  BY FS_Subset
<1>2. SumFunctionOnSet(f, T) \in Nat /\ SumFunctionOnSet(f, S \ T) \in Nat
  BY <1>1, SumIsNat
<1>3. T \cap (S \ T) = {} /\ T \cup (S \ T) = S /\ \A x \in S : f[x] \in Int
  OBVIOUS
<1>4. SumFunctionOnSet(f, S) = SumFunctionOnSet(f, T) + SumFunctionOnSet(f, S \ T)
  BY <1>1, <1>3, SumSplits
<1> QED
  BY <1>2, <1>4

(* The sum of two functions is that of their sums *)
LEMMA SumAdds ==
    ASSUME NEW S, IsFiniteSet(S), NEW f, NEW g, NEW h,
           \A x \in S : f[x] \in Int /\ g[x] \in Int /\ h[x] = f[x] + g[x]
    PROVE  SumFunctionOnSet(h, S) = SumFunctionOnSet(f, S) + SumFunctionOnSet(g, S)
<1> DEFINE G == {s \in SUBSET S :
                    SumFunctionOnSet(h, s) = SumFunctionOnSet(f, s) + SumFunctionOnSet(g, s)}
<1>1. {} \in G
  BY SumEmpty
<1>2. ASSUME NEW s \in (SUBSET S) \ {{}}, \A x \in s : s \ {x} \in G
      PROVE  s \in G
  <2>1. IsFiniteSet(s) /\ \A t \in SUBSET s : IsFiniteSet(t)
    BY FS_Subset
  <2>2. PICK p \in s :
          /\ SumFunctionOnSet(f, s) = f[p] + SumFunctionOnSet(f, s \ {p})
          /\ SumFunctionOnSet(g, s) = g[p] + SumFunctionOnSet(g, s \ {p})
          /\ SumFunctionOnSet(h, s) = h[p] + SumFunctionOnSet(h, s \ {p})
    BY <2>1, SumPicks
  <2>3. SumFunctionOnSet(h, s \ {p})
            = SumFunctionOnSet(f, s \ {p}) + SumFunctionOnSet(g, s \ {p})
    BY <1>2
  <2>4. PICK rf \in Int, rg \in Int :
          rf = SumFunctionOnSet(f, s \ {p}) /\ rg = SumFunctionOnSet(g, s \ {p})
    BY <2>1, SumIsInt
  <2>5. SumFunctionOnSet(h, s) = (f[p] + g[p]) + (rf + rg)
    BY <2>2, <2>3, <2>4
  <2>6. f[p] \in Int /\ g[p] \in Int
    OBVIOUS
  <2>7. SumFunctionOnSet(h, s) = SumFunctionOnSet(f, s) + SumFunctionOnSet(g, s)
    BY <2>2, <2>4, <2>5, <2>6
  <2> QED
    BY <2>7
<1> HIDE DEF G
<1>3. SUBSET S \subseteq G
  BY <1>1, <1>2, SubsetInduction
<1> QED
  BY <1>3 DEF G

(* A set added up class by class: m gives the class of an element, and      *)
(* totals the sum of each class                                             *)
OfClass(S, m, c) == {x \in S : m[x] = c}
OfClasses(S, m, C) == {x \in S : m[x] \in C}

LEMMA SumByClass ==
    ASSUME NEW S, IsFiniteSet(S), NEW f, \A x \in S : f[x] \in Int,
           NEW m, NEW C, IsFiniteSet(C), NEW totals,
           \A c \in C : totals[c] = SumFunctionOnSet(f, OfClass(S, m, c))
    PROVE  SumFunctionOnSet(totals, C) = SumFunctionOnSet(f, OfClasses(S, m, C))
<1> DEFINE G == {s \in SUBSET C :
                    SumFunctionOnSet(totals, s) = SumFunctionOnSet(f, OfClasses(S, m, s))}
<1>1. {} \in G
  <2>1. OfClasses(S, m, {}) = {}
    BY DEF OfClasses
  <2> QED
    BY <2>1, SumEmpty
<1>2. ASSUME NEW s \in (SUBSET C) \ {{}}, \A x \in s : s \ {x} \in G
      PROVE  s \in G
  <2>1. IsFiniteSet(s)
    BY FS_Subset
  <2>2. PICK c \in s :
          SumFunctionOnSet(totals, s) = totals[c] + SumFunctionOnSet(totals, s \ {c})
    BY <2>1, SumPicks
  <2>3. SumFunctionOnSet(totals, s \ {c}) = SumFunctionOnSet(f, OfClasses(S, m, s \ {c}))
    BY <1>2
  <2>4. totals[c] = SumFunctionOnSet(f, OfClass(S, m, c))
    OBVIOUS
  <2> DEFINE one == OfClass(S, m, c)
             rest == OfClasses(S, m, s \ {c})
  <2>5. /\ IsFiniteSet(one) /\ IsFiniteSet(rest)
        /\ one \cap rest = {}
        /\ one \cup rest = OfClasses(S, m, s)
        /\ \A x \in one \cup rest : f[x] \in Int
    <3>1. one \in SUBSET S /\ rest \in SUBSET S
      BY DEF OfClass, OfClasses
    <3>2. IsFiniteSet(one) /\ IsFiniteSet(rest)
      BY <3>1, FS_Subset
    <3> QED
      BY <3>1, <3>2 DEF OfClass, OfClasses
  <2> HIDE DEF one, rest
  <2>6. SumFunctionOnSet(f, OfClasses(S, m, s))
            = SumFunctionOnSet(f, one) + SumFunctionOnSet(f, rest)
    <3>1. SumFunctionOnSet(f, one \cup rest)
              = SumFunctionOnSet(f, one) + SumFunctionOnSet(f, rest)
      BY <2>5, SumSplits
    <3> QED
      BY <2>5, <3>1
  <2>7. SumFunctionOnSet(totals, s) = SumFunctionOnSet(f, OfClasses(S, m, s))
    BY <2>2, <2>3, <2>4, <2>6 DEF one, rest
  <2> QED
    BY <2>7
<1> HIDE DEF G
<1>3. SUBSET C \subseteq G
  BY <1>1, <1>2, SubsetInduction
<1>4. C \in G
  BY <1>3
<1> QED
  BY <1>4 DEF G

(* Ones add up to the number of elements *)
LEMMA SumOfOnes ==
    ASSUME NEW S, IsFiniteSet(S), NEW f, \A x \in S : f[x] = 1
    PROVE  SumFunctionOnSet(f, S) = Cardinality(S)
<1> DEFINE G == {s \in SUBSET S : SumFunctionOnSet(f, s) = Cardinality(s)}
<1>1. {} \in G
  BY SumEmpty, FS_EmptySet
<1>2. ASSUME NEW s \in (SUBSET S) \ {{}}, \A x \in s : s \ {x} \in G
      PROVE  s \in G
  <2>1. IsFiniteSet(s)
    BY FS_Subset
  <2>2. PICK p \in s : SumFunctionOnSet(f, s) = f[p] + SumFunctionOnSet(f, s \ {p})
    BY <2>1, SumPicks
  <2>3. Cardinality(s \ {p}) = Cardinality(s) - 1 /\ Cardinality(s) \in Nat
    BY <2>1, FS_RemoveElement, FS_CardinalityType
  <2>4. SumFunctionOnSet(f, s \ {p}) = Cardinality(s \ {p}) /\ f[p] = 1
    BY <1>2
  <2>5. SumFunctionOnSet(f, s) = Cardinality(s)
    BY <2>2, <2>3, <2>4
  <2> QED
    BY <2>5
<1> HIDE DEF G
<1>3. SUBSET S \subseteq G
  BY <1>1, <1>2, SubsetInduction
<1>4. S \in G
  BY <1>3
<1> QED
  BY <1>4 DEF G

(* Elements counted class by class, the classes in T added up again *)
LEMMA ClassesAddUp ==
    ASSUME NEW S, IsFiniteSet(S), NEW m, NEW T, IsFiniteSet(T), NEW sizes,
           \A c \in T : sizes[c] = Cardinality(OfClass(S, m, c))
    PROVE  SumFunctionOnSet(sizes, T) = Cardinality(OfClasses(S, m, T))
<1> DEFINE one == [x \in S |-> 1]
<1>1. \A x \in S : one[x] = 1 /\ one[x] \in Int
  OBVIOUS
<1> HIDE DEF one
<1>2. ASSUME NEW c \in T PROVE sizes[c] = SumFunctionOnSet(one, OfClass(S, m, c))
  <2>1. OfClass(S, m, c) \in SUBSET S
    BY DEF OfClass
  <2>2. IsFiniteSet(OfClass(S, m, c)) /\ \A x \in OfClass(S, m, c) : one[x] = 1
    BY <1>1, <2>1, FS_Subset
  <2>3. SumFunctionOnSet(one, OfClass(S, m, c)) = Cardinality(OfClass(S, m, c))
    BY <2>2, SumOfOnes
  <2> QED
    BY <2>3
<1>3. SumFunctionOnSet(sizes, T) = SumFunctionOnSet(one, OfClasses(S, m, T))
  BY <1>1, <1>2, SumByClass
<1>4. OfClasses(S, m, T) \in SUBSET S
  BY DEF OfClasses
<1>5. IsFiniteSet(OfClasses(S, m, T)) /\ \A x \in OfClasses(S, m, T) : one[x] = 1
  BY <1>1, <1>4, FS_Subset
<1>6. SumFunctionOnSet(one, OfClasses(S, m, T)) = Cardinality(OfClasses(S, m, T))
  BY <1>5, SumOfOnes
<1> QED
  BY <1>3, <1>6
=============================================================================
