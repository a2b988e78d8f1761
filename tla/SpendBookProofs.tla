-------------------------- MODULE SpendBookProofs ---------------------------
(***************************************************************************)
(* Lemmas about sums over the rows of a ledger.  A sum is a fold over a    *)
(* finite set, defined by recursion on its subsets.  The induction is      *)
(* stated over a set of subsets, so that no operator has to be passed.     *)
(***************************************************************************)
EXTENDS SpendBook, FiniteSetTheorems, WellFoundedInduction, TLAPS

Chosen(s) == CHOOSE x \in s : TRUE
Rest(s) == s \ {Chosen(s)}

\* What holds of the empty set, and of a set if it holds without the element that
\* the fold takes first, holds of every subset of a finite set.
LEMMA SubsetInduction ==
    ASSUME NEW S, IsFiniteSet(S), NEW Q,
           {} \in Q,
           \A s \in SUBSET S : s # {} /\ Rest(s) \in Q => s \in Q
    PROVE  SUBSET S \subseteq Q
<1> DEFINE T == (SUBSET S) \ Q
<1> SUFFICES ASSUME T # {} PROVE FALSE
  OBVIOUS
<1>1. IsWellFoundedOn(StrictSubsetOrdering(S), SUBSET S)
  BY FS_StrictSubsetOrderingWellFounded, FS_FiniteSubsetsOfFinite
<1>2. PICK s \in T : \A t \in T : ~ (<<t, s>> \in StrictSubsetOrdering(S))
  <2>1. T \subseteq SUBSET S
    OBVIOUS
  <2> HIDE DEF T
  <2>2. QED
    BY <1>1, <2>1, WFMin
<1>3. s # {} /\ s \in SUBSET S /\ Chosen(s) \in s
  BY <1>2 DEF Chosen
<1>4. <<Rest(s), s>> \in StrictSubsetOrdering(S)
  BY <1>3 DEF StrictSubsetOrdering, Rest
<1>5. Rest(s) \in Q
  BY <1>2, <1>3, <1>4 DEF Rest
<1>6. QED
  BY <1>2, <1>3, <1>5

-----------------------------------------------------------------------------
\* The recursion that defines the sum of f, on a set D of subsets.
Sums(f, D, g) ==
    /\ g \in [D -> Nat]
    /\ \A s \in D : g[s] = IF s = {} THEN 0 ELSE f[Chosen(s)] + g[Rest(s)]

\* There is a function that satisfies it.
LEMMA SumsExist ==
    ASSUME NEW S, IsFiniteSet(S), NEW f \in [S -> Nat]
    PROVE  \E g : Sums(f, SUBSET S, g)
<1> DEFINE Upto(n) == {t \in SUBSET S : Cardinality(t) <= n}
           Q == {s \in SUBSET S : \E g : Sums(f, Upto(Cardinality(s)), g)}
<1>0. \A s \in SUBSET S : IsFiniteSet(s) /\ Cardinality(s) \in Nat
  BY FS_Subset, FS_CardinalityType
<1>1. {} \in Q
  <2>1. Upto(Cardinality({})) = {{}}
    <3>1. Cardinality({}) = 0 /\ \A s \in SUBSET S : Cardinality(s) = 0 <=> s = {}
      BY <1>0, FS_EmptySet
    <3>2. QED
      BY <1>0, <3>1
  <2>2. Sums(f, {{}}, [s \in {{}} |-> 0])
    BY DEF Sums
  <2>3. QED
    BY <2>1, <2>2
<1>2. ASSUME NEW s \in SUBSET S, s # {}, Rest(s) \in Q PROVE s \in Q
  <2> DEFINE n == Cardinality(s)
  <2>1. PICK g : Sums(f, Upto(Cardinality(Rest(s))), g)
    BY <1>2
  <2>2. \A t \in SUBSET S : t # {} =>
          /\ Chosen(t) \in t /\ Rest(t) \in SUBSET S
          /\ Cardinality(Rest(t)) = Cardinality(t) - 1
    <3> SUFFICES ASSUME NEW t \in SUBSET S, t # {}
                 PROVE  /\ Chosen(t) \in t /\ Rest(t) \in SUBSET S
                        /\ Cardinality(Rest(t)) = Cardinality(t) - 1
      OBVIOUS
    <3>1. Chosen(t) \in t
      BY DEF Chosen
    <3>2. QED
      BY <1>0, <3>1, FS_RemoveElement DEF Rest
  <2>3. Cardinality(Rest(s)) = n - 1 /\ n \in Nat
    BY <1>0, <1>2, <2>2
  <2> DEFINE h == [t \in Upto(n) |-> IF t = {} THEN 0 ELSE f[Chosen(t)] + g[Rest(t)]]
  <2>4. \A t \in Upto(n) : t # {} => Rest(t) \in Upto(n - 1) /\ Rest(t) \in Upto(n)
    BY <1>0, <2>2, <2>3
  <2>5. g \in [Upto(n - 1) -> Nat]
    BY <2>1, <2>3 DEF Sums
  <2>6. h \in [Upto(n) -> Nat]
    <3> SUFFICES ASSUME NEW t \in Upto(n), t # {} PROVE f[Chosen(t)] + g[Rest(t)] \in Nat
      OBVIOUS
    <3>1. Chosen(t) \in S /\ f[Chosen(t)] \in Nat
      BY <2>2
    <3>2. g[Rest(t)] \in Nat
      BY <2>4, <2>5
    <3>3. QED
      BY <3>1, <3>2
  <2>7. \A t \in Upto(n - 1) : h[t] = g[t]
    BY <1>0, <2>1, <2>3 DEF Sums
  <2>8. Sums(f, Upto(n), h)
    BY <2>4, <2>6, <2>7 DEF Sums
  <2>9. QED
    BY <2>8
<1>3. SUBSET S \subseteq Q
  <2> HIDE DEF Q
  <2>1. QED
    BY <1>1, <1>2, SubsetInduction
<1>4. PICK g : Sums(f, Upto(Cardinality(S)), g)
  BY <1>3
<1>5. Upto(Cardinality(S)) = SUBSET S
  BY FS_Subset
<1>6. QED
  BY <1>4, <1>5

\* The sum of f over S is the value at S of a function that satisfies it.
LEMMA SumIsRecursive ==
    ASSUME NEW S, IsFiniteSet(S), NEW f \in [S -> Nat]
    PROVE  \E g : Sums(f, SUBSET S, g) /\ SumFunction(f) = g[S]
<1> DEFINE Step(g) == [s \in SUBSET S |-> IF s = {} THEN 0 ELSE f[Chosen(s)] + g[Rest(s)]]
           g == CHOOSE g : g = Step(g)
<1>1. PICK h : Sums(f, SUBSET S, h)
  BY SumsExist
<1>2. h = Step(h)
  BY <1>1 DEF Sums
<1>3. g = Step(g)
  BY <1>2
<1>4. SumFunction(f) = g[S]
  BY DEF SumFunction, SumFunctionOnSet, FoldFunctionOnSet, MapThenFoldSet, Chosen, Rest
<1> HIDE DEF g
<1>5. \A s \in SUBSET S : g[s] = IF s = {} THEN 0 ELSE f[Chosen(s)] + g[Rest(s)]
  BY <1>3
<1> DEFINE Q == {s \in SUBSET S : g[s] \in Nat}
<1>6. {} \in Q
  BY <1>5
<1>7. \A s \in SUBSET S : s # {} /\ Rest(s) \in Q => s \in Q
  BY <1>5 DEF Chosen
<1>8. SUBSET S \subseteq Q
  <2> HIDE DEF Q
  <2>1. QED
    BY <1>6, <1>7, SubsetInduction
<1>9. g \in [SUBSET S -> Nat]
  BY <1>3, <1>8
<1>10. Sums(f, SUBSET S, g)
  BY <1>5, <1>9 DEF Sums
<1>11. QED
  BY <1>4, <1>10

-----------------------------------------------------------------------------
(* Laws of the sum.                                                         *)

LEMMA SumIsNatural ==
    ASSUME NEW S, IsFiniteSet(S), NEW f \in [S -> Nat]
    PROVE  SumFunction(f) \in Nat
<1>1. PICK g : Sums(f, SUBSET S, g) /\ SumFunction(f) = g[S]
  BY SumIsRecursive
<1>2. g[S] \in Nat
  BY <1>1 DEF Sums
<1>3. QED
  BY <1>1, <1>2

LEMMA SumAdds ==
    ASSUME NEW S, IsFiniteSet(S),
           NEW f \in [S -> Nat], NEW g \in [S -> Nat], NEW h \in [S -> Nat],
           \A x \in S : h[x] = f[x] + g[x]
    PROVE  SumFunction(h) = SumFunction(f) + SumFunction(g)
<1>1. PICK F : Sums(f, SUBSET S, F) /\ SumFunction(f) = F[S]
  BY SumIsRecursive
<1>2. PICK G : Sums(g, SUBSET S, G) /\ SumFunction(g) = G[S]
  BY SumIsRecursive
<1>3. PICK H : Sums(h, SUBSET S, H) /\ SumFunction(h) = H[S]
  BY SumIsRecursive
<1> DEFINE Q == {s \in SUBSET S : H[s] = F[s] + G[s]}
<1>4. {} \in Q
  <2>1. F[{}] = 0 /\ G[{}] = 0 /\ H[{}] = 0
    BY <1>1, <1>2, <1>3 DEF Sums
  <2>2. QED
    BY <2>1
<1>5. ASSUME NEW s \in SUBSET S, s # {}, Rest(s) \in Q PROVE s \in Q
  <2>1. Chosen(s) \in S /\ Rest(s) \in SUBSET S
    BY <1>5 DEF Chosen, Rest
  <2>2. /\ F[s] = f[Chosen(s)] + F[Rest(s)] /\ G[s] = g[Chosen(s)] + G[Rest(s)]
        /\ H[s] = h[Chosen(s)] + H[Rest(s)]
        /\ F[Rest(s)] \in Nat /\ G[Rest(s)] \in Nat /\ H[Rest(s)] \in Nat
        /\ f[Chosen(s)] \in Nat /\ g[Chosen(s)] \in Nat
    BY <1>1, <1>2, <1>3, <1>5, <2>1 DEF Sums
  <2>3. QED
    BY <1>5, <2>1, <2>2
<1>6. SUBSET S \subseteq Q
  <2> HIDE DEF Q
  <2>1. QED
    BY <1>4, <1>5, SubsetInduction
<1>7. QED
  BY <1>1, <1>2, <1>3, <1>6

\* A sum grows with its summands, at most by what they grow.
LEMMA SumGrows ==
    ASSUME NEW S, IsFiniteSet(S),
           NEW f \in [S -> Nat], NEW g \in [S -> Nat], NEW more \in [S -> Nat],
           \A x \in S : g[x] <= f[x] + more[x]
    PROVE  SumFunction(g) <= SumFunction(f) + SumFunction(more)
<1> DEFINE all == [x \in S |-> f[x] + more[x]]
           rest == [x \in S |-> all[x] - g[x]]
<1>1. all \in [S -> Nat] /\ \A x \in S : all[x] = f[x] + more[x]
  OBVIOUS
<1>2. rest \in [S -> Nat] /\ \A x \in S : all[x] = g[x] + rest[x]
  OBVIOUS
<1> HIDE DEF all, rest
<1>3. SumFunction(all) = SumFunction(f) + SumFunction(more)
  BY <1>1, SumAdds
<1>4. SumFunction(all) = SumFunction(g) + SumFunction(rest)
  BY <1>1, <1>2, SumAdds
<1>5. SumFunction(g) \in Nat /\ SumFunction(rest) \in Nat
  BY <1>2, SumIsNatural
<1>6. QED
  BY <1>3, <1>4, <1>5

\* One for each element of T sums up to how many they are.
LEMMA SumCounts ==
    ASSUME NEW S, IsFiniteSet(S), NEW T \in SUBSET S
    PROVE  SumFunction([x \in S |-> IF x \in T THEN 1 ELSE 0]) = Cardinality(T)
<1> DEFINE f == [x \in S |-> IF x \in T THEN 1 ELSE 0]
<1>1. PICK F : Sums(f, SUBSET S, F) /\ SumFunction(f) = F[S]
  BY SumIsRecursive
<1> DEFINE Q == {s \in SUBSET S : F[s] = Cardinality(s \cap T)}
<1>2. {} \in Q
  BY <1>1, FS_EmptySet DEF Sums
<1>3. ASSUME NEW s \in SUBSET S, s # {}, Rest(s) \in Q PROVE s \in Q
  <2> DEFINE x == Chosen(s)
             t == Rest(s) \cap T
  <2>1. x \in s /\ x \in S /\ Rest(s) \in SUBSET S /\ x \notin t
    BY <1>3 DEF Chosen, Rest
  <2>2. IsFiniteSet(t) /\ Cardinality(t) \in Nat
    BY <2>1, FS_Subset, FS_CardinalityType
  <2>3. F[s] = (IF x \in T THEN 1 ELSE 0) + Cardinality(t)
    BY <1>1, <1>3, <2>1 DEF Sums
  <2>4. CASE x \in T
    <3>1. s \cap T = t \cup {x}
      BY <2>1, <2>4 DEF Rest
    <3>2. Cardinality(s \cap T) = Cardinality(t) + 1
      BY <2>1, <2>2, <3>1, FS_AddElement
    <3>3. F[s] = Cardinality(t) + 1
      BY <2>2, <2>3, <2>4
    <3>4. QED
      BY <3>2, <3>3
  <2>5. CASE x \notin T
    <3>1. s \cap T = t
      BY <2>1, <2>5 DEF Rest
    <3>2. F[s] = Cardinality(t)
      BY <2>2, <2>3, <2>5
    <3>3. QED
      BY <3>1, <3>2
  <2>6. QED
    BY <2>4, <2>5
<1>4. SUBSET S \subseteq Q
  <2> HIDE DEF Q
  <2>1. QED
    BY <1>2, <1>3, SubsetInduction
<1>5. F[S] = Cardinality(S \cap T) /\ S \cap T = T
  BY <1>4
<1>6. QED
  BY <1>1, <1>5

\* A sum with one summand.
LEMMA SumOfOne ==
    ASSUME NEW S, IsFiniteSet(S), NEW x \in S, NEW e \in Nat
    PROVE  SumFunction([k \in S |-> IF k = x THEN e ELSE 0]) = e
<1> DEFINE f == [k \in S |-> IF k = x THEN e ELSE 0]
<1>1. PICK F : Sums(f, SUBSET S, F) /\ SumFunction(f) = F[S]
  BY SumIsRecursive
<1> DEFINE Q == {s \in SUBSET S : F[s] = IF x \in s THEN e ELSE 0}
<1>2. {} \in Q
  BY <1>1 DEF Sums
<1>3. ASSUME NEW s \in SUBSET S, s # {}, Rest(s) \in Q PROVE s \in Q
  <2>1. Chosen(s) \in s /\ Rest(s) \in SUBSET S
    BY <1>3 DEF Chosen, Rest
  <2>2. F[s] = (IF Chosen(s) = x THEN e ELSE 0) + (IF x \in Rest(s) THEN e ELSE 0)
    BY <1>1, <1>3, <2>1 DEF Sums
  <2>3. x \in Rest(s) <=> x \in s /\ x # Chosen(s)
    BY DEF Rest
  <2>4. QED
    BY <2>1, <2>2, <2>3
<1>4. SUBSET S \subseteq Q
  <2> HIDE DEF Q
  <2>1. QED
    BY <1>2, <1>3, SubsetInduction
<1>5. QED
  BY <1>1, <1>4

-----------------------------------------------------------------------------
(* Books.                                                                   *)

\* The part of what a row weighs that its reservation announced.
Announced(status, estimate, actual) ==
    CASE status = "RESERVED" -> estimate
      [] status = "SETTLED"  -> IF actual > estimate THEN estimate ELSE actual
      [] OTHER               -> 0
Promised(row, estimate, actual) ==
    SumFunction([k \in DOMAIN row |-> Announced(row[k], estimate[k], actual[k])])

LEMMA AnnouncedType ==
    ASSUME NEW status, NEW estimate \in Nat, NEW actual \in Nat
    PROVE  Announced(status, estimate, actual) \in Nat
BY DEF Announced

\* What is committed was announced, or overran.
LEMMA CommittedSplits ==
    ASSUME NEW K, IsFiniteSet(K), NEW row \in [K -> RowStatus],
           NEW estimate \in [K -> Nat], NEW actual \in [K -> Nat]
    PROVE  /\ Committed(row, estimate, actual) =
                  Promised(row, estimate, actual) + Overrun(row, estimate, actual)
           /\ Promised(row, estimate, actual) \in Nat
           /\ Overrun(row, estimate, actual) \in Nat
<1> DEFINE weight == [k \in K |-> Weight(row[k], estimate[k], actual[k])]
           told == [k \in K |-> Announced(row[k], estimate[k], actual[k])]
           over == [k \in K |-> IF row[k] = "SETTLED" /\ actual[k] > estimate[k]
                                THEN actual[k] - estimate[k] ELSE 0]
<1>1. weight \in [K -> Nat] /\ told \in [K -> Nat] /\ over \in [K -> Nat]
  BY DEF Weight, Announced
<1>2. \A k \in K : weight[k] = told[k] + over[k]
  BY DEF Weight, Announced
<1>3. /\ Committed(row, estimate, actual) = SumFunction(weight)
      /\ Promised(row, estimate, actual) = SumFunction(told)
      /\ Overrun(row, estimate, actual) = SumFunction(over)
  BY DEF Committed, Promised, Overrun
<1> HIDE DEF weight, told, over
<1>4. QED
  BY <1>1, <1>2, <1>3, SumAdds, SumIsNatural

\* Books that announce at most so much more in each row promise at most so much
\* more in all.
LEMMA PromisesGrow ==
    ASSUME NEW K, IsFiniteSet(K), NEW estimate \in [K -> Nat],
           NEW row \in [K -> RowStatus], NEW actual \in [K -> Nat],
           NEW next \in [K -> RowStatus], NEW now \in [K -> Nat],
           NEW more \in [K -> Nat],
           \A k \in K : Announced(next[k], estimate[k], now[k])
                           <= Announced(row[k], estimate[k], actual[k]) + more[k]
    PROVE  Promised(next, estimate, now)
               <= Promised(row, estimate, actual) + SumFunction(more)
<1> DEFINE f == [k \in K |-> Announced(row[k], estimate[k], actual[k])]
           g == [k \in K |-> Announced(next[k], estimate[k], now[k])]
<1>1. f \in [K -> Nat] /\ g \in [K -> Nat]
  BY DEF Announced
<1>2. \A k \in K : g[k] <= f[k] + more[k]
  OBVIOUS
<1>3. Promised(row, estimate, actual) = SumFunction(f)
      /\ Promised(next, estimate, now) = SumFunction(g)
  BY DEF Promised
<1> HIDE DEF f, g
<1>4. QED
  BY <1>1, <1>2, <1>3, SumGrows

\* Books of which no row announces more do not promise more.
LEMMA PromisesKept ==
    ASSUME NEW K, IsFiniteSet(K), NEW estimate \in [K -> Nat],
           NEW row \in [K -> RowStatus], NEW actual \in [K -> Nat],
           NEW next \in [K -> RowStatus], NEW now \in [K -> Nat],
           \A k \in K : Announced(next[k], estimate[k], now[k])
                           <= Announced(row[k], estimate[k], actual[k])
    PROVE  Promised(next, estimate, now) <= Promised(row, estimate, actual)
<1> DEFINE none == [k \in K |-> IF k \in {} THEN 1 ELSE 0]
<1>1. SumFunction(none) = 0
  BY SumCounts, FS_EmptySet
<1>2. \A k \in K : Announced(next[k], estimate[k], now[k])
                       <= Announced(row[k], estimate[k], actual[k]) + none[k]
  BY AnnouncedType
<1>3. none \in [K -> Nat]
  OBVIOUS
<1> HIDE DEF none
<1>4. Promised(next, estimate, now) <= Promised(row, estimate, actual) + 0
  BY <1>1, <1>2, <1>3, PromisesGrow
<1>5. Promised(row, estimate, actual) \in Nat
  BY CommittedSplits
<1>6. Promised(next, estimate, now) \in Nat
  BY CommittedSplits
<1>7. QED
  BY <1>4, <1>5, <1>6
=============================================================================
