---------------------------- MODULE BatchProofs ----------------------------
(***************************************************************************)
(* Proofs about the rows of a training batch.                              *)
(*                                                                         *)
(* ModeReward: RewardInv says where the answers that have arrived came     *)
(* from: at a position of the batch there is a value only once its         *)
(* response was scored, and then it is that of the same response.          *)
(*                                                                         *)
(* StepDataflow: StepInv says that the order names every row, that the     *)
(* states of the heap partition the rows into sets of equal size (from     *)
(* which the row counts of the ranks and the order of the batch follow),   *)
(* and on which order each column was computed.  BalanceInv adds the work  *)
(* of the sets; it needs sums over sets, a fold, whose laws are proved by  *)
(* taking a least counterexample.                                          *)
(***************************************************************************)
EXTENDS ModeReward, StepDataflow, FiniteSetTheorems, SequenceTheorems,
        WellFoundedInduction, TLAPS

-----------------------------------------------------------------------------
(* Finite sets and division.                                                *)

\* The elements of a finite set in an order: when below[i] are those before i, no two
\* have equally many before them, and each number below the size of the set is that
\* of one.
LEMMA RankOnto ==
    ASSUME NEW T, IsFiniteSet(T), NEW below \in [T -> SUBSET T],
           \A i \in T : i \notin below[i],
           \A i, k \in T : i # k => \/ i \in below[k] /\ below[i] \subseteq below[k]
                                    \/ k \in below[i] /\ below[k] \subseteq below[i]
    PROVE  /\ \A i, k \in T : Cardinality(below[i]) = Cardinality(below[k]) => i = k
           /\ \A j \in 1..Cardinality(T) : \E i \in T : Cardinality(below[i]) = j - 1
<1>1. \A i \in T : IsFiniteSet(below[i]) /\ Cardinality(below[i]) \in Nat
  BY FS_Subset, FS_CardinalityType
<1>2. PICK c \in Nat : c = Cardinality(T)
  BY FS_CardinalityType
<1>3. ASSUME NEW i \in T PROVE Cardinality(below[i]) < c
  <2>1. below[i] # T /\ Cardinality(below[i]) <= c
    BY <1>2, FS_Subset
  <2>2. Cardinality(below[i]) # c
    BY <1>2, <2>1, FS_Subset
  <2> QED BY <1>1, <1>2, <2>1, <2>2
<1>4. ASSUME NEW i \in T, NEW k \in T, i # k, i \in below[k], below[i] \subseteq below[k]
      PROVE  Cardinality(below[i]) # Cardinality(below[k])
  <2>1. below[i] # below[k]
    BY <1>4
  <2> QED BY <1>1, <1>4, <2>1, FS_Subset
<1>5. ASSUME NEW i \in T, NEW k \in T, i # k
      PROVE  Cardinality(below[i]) # Cardinality(below[k])
  BY <1>4, <1>5
<1> DEFINE rank == [i \in T |-> Cardinality(below[i])]
<1>6. rank \in Injection(T, 0..c - 1)
  <2>1. rank \in [T -> 0..c - 1]
    BY <1>1, <1>2, <1>3
  <2>2. \A i, k \in T : rank[i] = rank[k] => i = k
    BY <1>5
  <2> HIDE DEF rank
  <2> QED BY <2>1, <2>2 DEF Injection, IsInjective
<1>7. IsFiniteSet(0..c - 1) /\ Cardinality(0..c - 1) = c
  <2>1. 0 \in Int /\ c - 1 \in Int /\ (IF 0 > c - 1 THEN 0 ELSE c - 1 - 0 + 1) = c
    BY <1>2
  <2> QED BY <2>1, FS_Interval
<1>8. rank \in Surjection(T, 0..c - 1)
  BY <1>2, <1>6, <1>7, FS_Injection
<1>9. ASSUME NEW j \in 1..Cardinality(T) PROVE \E i \in T : Cardinality(below[i]) = j - 1
  <2>1. j - 1 \in 0..c - 1
    BY <1>2
  <2> QED BY <1>8, <2>1 DEF Surjection
<1> QED BY <1>5, <1>9

\* Every set of natural numbers has a least one: what stands in for induction below.
LEMMA LeastNumber ==
    ASSUME NEW T \in SUBSET Nat, T # {}
    PROVE  \E x \in T : \A y \in T : x <= y
<1>1. PICK x \in T : \A y \in T : <<y, x>> \notin OpToRel(<, Nat)
  BY NatLessThanWellFounded, WFMin, Zenon
<1>2. ASSUME NEW y \in T PROVE ~(y < x)
  <2>1. <<y, x>> \in Nat \X Nat
    OBVIOUS
  <2> QED BY <1>1, <2>1 DEF OpToRel
<1> QED BY <1>2

\* A finite set of numbers has a greatest one.
LEMMA GreatestNumber ==
    ASSUME NEW S \in SUBSET Int, IsFiniteSet(S), S # {}
    PROVE  \E d \in S : \A e \in S : e <= d
<1> DEFINE above(d) == {e \in S : e > d}
           counts == {Cardinality(above(d)) : d \in S}
<1>1. \A d \in S : IsFiniteSet(above(d)) /\ Cardinality(above(d)) \in Nat
  BY FS_Subset, FS_CardinalityType
<1>2. PICK d \in S : \A e \in S : Cardinality(above(d)) <= Cardinality(above(e))
  <2>1. counts \in SUBSET Nat /\ counts # {}
    BY <1>1
  <2>2. PICK x \in counts : \A y \in counts : x <= y
    BY <2>1, LeastNumber
  <2> QED BY <2>2
<1>3. ASSUME NEW e \in S, e > d PROVE FALSE
  <2>1. above(e) \subseteq above(d) /\ e \in above(d) /\ e \notin above(e)
    <3>1. \A x \in S : x > e => x > d
      BY <1>3
    <3>2. ~(e > e)
      OBVIOUS
    <3> QED BY <1>3, <3>1, <3>2
  <2>2. above(e) # above(d)
    BY <2>1
  <2>3. Cardinality(above(e)) <= Cardinality(above(d)) /\ Cardinality(above(e)) # Cardinality(above(d))
    BY <1>1, <2>1, <2>2, FS_Subset
  <2> QED BY <1>1, <1>2, <2>3
<1> QED BY <1>3

-----------------------------------------------------------------------------
(* Sums over a set: a fold, which takes away a chosen element at a time.    *)

Chosen(s) == CHOOSE x \in s : TRUE
SumsFrom(w, S, g) == g = [s \in SUBSET S |-> IF s = {} THEN 0 ELSE w[Chosen(s)] + g[s \ {Chosen(s)}]]

LEMMA SumIsChosen ==
    ASSUME NEW w, NEW S
    PROVE  SumFunctionOnSet(w, S) = (CHOOSE g : SumsFrom(w, S, g))[S]
BY DEF SumFunctionOnSet, FoldFunctionOnSet, MapThenFoldSet, SumsFrom, Chosen

LEMMA ChosenIn ==
    ASSUME NEW D, IsFiniteSet(D), NEW s \in SUBSET D
    PROVE  /\ IsFiniteSet(s) /\ Cardinality(s) \in Nat
           /\ Cardinality(s) = 0 <=> s = {}
           /\ s # {} => Chosen(s) \in s
           /\ \A x \in s : s \ {x} \in SUBSET D /\ Cardinality(s \ {x}) = Cardinality(s) - 1
<1>1. IsFiniteSet(s) /\ Cardinality(s) \in Nat
  BY FS_Subset, FS_CardinalityType
<1>2. Cardinality(s) = 0 <=> s = {}
  BY <1>1, FS_EmptySet
<1>3. s # {} => Chosen(s) \in s
  BY DEF Chosen
<1>4. \A x \in s : Cardinality(s \ {x}) = Cardinality(s) - 1
  BY <1>1, FS_RemoveElement
<1> QED BY <1>1, <1>2, <1>3, <1>4

\* Induction over the subsets of a finite set: of the sets in Bad one is smallest.
LEMMA SmallestSet ==
    ASSUME NEW D, IsFiniteSet(D), NEW Bad \in SUBSET (SUBSET D), Bad # {}
    PROVE  \E s \in Bad : \A x \in s : s \ {x} \notin Bad
<1> DEFINE counts == {Cardinality(s) : s \in Bad}
<1>1. counts \in SUBSET Nat /\ counts # {}
  BY ChosenIn
<1>2. PICK m \in counts : \A k \in counts : m <= k
  BY <1>1, LeastNumber
<1>3. PICK s \in Bad : Cardinality(s) = m
  BY <1>2
<1>4. ASSUME NEW x \in s, s \ {x} \in Bad PROVE FALSE
  <2>1. Cardinality(s \ {x}) = m - 1 /\ m \in Nat
    BY <1>3, ChosenIn
  <2>2. m - 1 \in counts
    BY <1>4, <2>1
  <2> QED BY <1>2, <2>1, <2>2
<1> QED BY <1>4

LEMMA SumsExist ==
    ASSUME NEW D, IsFiniteSet(D), NEW w \in [D -> Int]
    PROVE  \E g \in [SUBSET D -> Int] : SumsFrom(w, D, g)
<1> DEFINE value(g, s) == IF s = {} THEN 0 ELSE w[Chosen(s)] + g[s \ {Chosen(s)}]
           upto(m) == \E g \in [SUBSET D -> Int] : \A s \in SUBSET D : Cardinality(s) <= m => g[s] = value(g, s)
<1>1. \A s \in SUBSET D : /\ Cardinality(s) \in Nat /\ (Cardinality(s) = 0 <=> s = {})
                          /\ s # {} => /\ Chosen(s) \in D /\ s \ {Chosen(s)} \in SUBSET D
                                       /\ Cardinality(s \ {Chosen(s)}) = Cardinality(s) - 1
  BY ChosenIn
<1>2. ASSUME NEW g \in [SUBSET D -> Int], NEW s \in SUBSET D PROVE value(g, s) \in Int
  <2>1. CASE s = {}
    BY <2>1
  <2>2. CASE s # {}
    <3>1. w[Chosen(s)] \in Int /\ g[s \ {Chosen(s)}] \in Int
      BY <1>1, <2>2
    <3>2. \A a, b \in Int : a + b \in Int
      OBVIOUS
    <3> QED BY <2>2, <3>1, <3>2
  <2> QED BY <2>1, <2>2
<1>3. upto(0)
  <2>1. [s \in SUBSET D |-> 0] \in [SUBSET D -> Int]
    OBVIOUS
  <2>2. ASSUME NEW s \in SUBSET D, Cardinality(s) <= 0 PROVE s = {}
    <3>1. Cardinality(s) \in Nat
      BY <1>1
    <3>2. Cardinality(s) = 0
      BY <2>2, <3>1
    <3> QED BY <1>1, <3>2
  <2> QED BY <2>1, <2>2
<1>4. ASSUME NEW m \in Nat, upto(m) PROVE upto(m + 1)
  <2>1. PICK g \in [SUBSET D -> Int] : \A s \in SUBSET D : Cardinality(s) <= m => g[s] = value(g, s)
    BY <1>4
  <2> DEFINE h == [s \in SUBSET D |-> value(g, s)]
  <2>2. h \in [SUBSET D -> Int]
    BY <1>2
  <2>3. ASSUME NEW s \in SUBSET D, Cardinality(s) <= m + 1 PROVE h[s] = value(h, s)
    <3>1. CASE s = {}
      BY <3>1
    <3>2. CASE s # {}
      <4>1. s \ {Chosen(s)} \in SUBSET D /\ Cardinality(s \ {Chosen(s)}) <= m
        BY <1>1, <2>3, <3>2
      <4>2. h[s \ {Chosen(s)}] = g[s \ {Chosen(s)}]
        BY <2>1, <4>1
      <4> QED BY <3>2, <4>2
    <3> QED BY <3>1, <3>2
  <2> QED BY <2>2, <2>3
<1> HIDE DEF upto
<1>5. \A m \in Nat : upto(m)
  <2> SUFFICES ASSUME {m \in Nat : ~upto(m)} # {} PROVE FALSE
    OBVIOUS
  <2>1. PICK m \in {j \in Nat : ~upto(j)} : \A k \in {j \in Nat : ~upto(j)} : m <= k
    BY LeastNumber
  <2>2. m # 0
    BY <1>3, <2>1
  <2>3. m - 1 \in Nat /\ upto(m - 1) /\ m - 1 + 1 = m
    BY <2>1, <2>2
  <2> QED BY <1>4, <2>1, <2>3
<1>6. PICK g \in [SUBSET D -> Int] : \A s \in SUBSET D : g[s] = value(g, s)
  <2>1. Cardinality(D) \in Nat /\ \A s \in SUBSET D : Cardinality(s) <= Cardinality(D)
    BY FS_Subset, FS_CardinalityType
  <2>2. upto(Cardinality(D))
    BY <1>5, <2>1
  <2> QED BY <2>1, <2>2 DEF upto
<1>7. g = [s \in SUBSET D |-> value(g, s)]
  <2> HIDE DEF value
  <2> QED BY <1>6
<1> QED BY <1>7 DEF SumsFrom

\* There is one such function: two that follow the equation agree on ever larger sets.
LEMMA SumsAgree ==
    ASSUME NEW D, IsFiniteSet(D), NEW w, NEW g, NEW h, SumsFrom(w, D, g), SumsFrom(w, D, h),
           NEW T \in SUBSET D
    PROVE  g[T] = h[T]
<1> DEFINE Bad == {s \in SUBSET D : g[s] # h[s]}
<1>1. \A s \in SUBSET D : /\ g[s] = IF s = {} THEN 0 ELSE w[Chosen(s)] + g[s \ {Chosen(s)}]
                          /\ h[s] = IF s = {} THEN 0 ELSE w[Chosen(s)] + h[s \ {Chosen(s)}]
  BY DEF SumsFrom
<1>2. SUFFICES ASSUME Bad # {} PROVE FALSE
  OBVIOUS
<1>3. PICK s \in Bad : \A x \in s : s \ {x} \notin Bad
  BY <1>2, SmallestSet
<1>4. s # {} /\ Chosen(s) \in s
  BY <1>1, <1>3, ChosenIn
<1>5. g[s \ {Chosen(s)}] = h[s \ {Chosen(s)}]
  BY <1>3, <1>4
<1> QED BY <1>1, <1>3, <1>4, <1>5

\* A sum over a set is a number, and takes away the chosen element first.
LEMMA SumOfChosen ==
    ASSUME NEW D, IsFiniteSet(D), NEW w \in [D -> Int], NEW T \in SUBSET D
    PROVE  /\ SumFunctionOnSet(w, T) \in Int
           /\ T = {} => SumFunctionOnSet(w, T) = 0
           /\ T # {} => SumFunctionOnSet(w, T) = w[Chosen(T)] + SumFunctionOnSet(w, T \ {Chosen(T)})
<1>1. PICK g \in [SUBSET D -> Int] : SumsFrom(w, D, g)
  BY SumsExist
<1>2. \A s \in SUBSET D : g[s] = IF s = {} THEN 0 ELSE w[Chosen(s)] + g[s \ {Chosen(s)}]
  BY <1>1 DEF SumsFrom
<1>3. ASSUME NEW S \in SUBSET D PROVE SumFunctionOnSet(w, S) = g[S]
  <2> DEFINE h == [s \in SUBSET S |-> g[s]]
             c == CHOOSE f : SumsFrom(w, S, f)
  <2>1. SumsFrom(w, S, h)
    <3>1. ASSUME NEW s \in SUBSET S
          PROVE  g[s] = IF s = {} THEN 0 ELSE w[Chosen(s)] + h[s \ {Chosen(s)}]
      <4>1. s \in SUBSET D /\ h[s \ {Chosen(s)}] = g[s \ {Chosen(s)}]
        OBVIOUS
      <4> QED BY <1>2, <4>1
    <3> QED BY <3>1 DEF SumsFrom
  <2>2. SumsFrom(w, S, c)
    <3> HIDE DEF h
    <3> QED BY <2>1
  <2>3. h[S] = g[S]
    OBVIOUS
  <2>4. IsFiniteSet(S)
    BY FS_Subset
  <2> HIDE DEF h, c
  <2>5. c[S] = h[S]
    BY <2>1, <2>2, <2>4, SumsAgree
  <2> QED BY <2>3, <2>5, SumIsChosen DEF c
<1>4. \A s \in SUBSET D : s \ {Chosen(s)} \in SUBSET D
  OBVIOUS
<1> QED BY <1>2, <1>3, <1>4

\* It does not matter which element is taken away first.
LEMMA SumOfRest ==
    ASSUME NEW D, IsFiniteSet(D), NEW w \in [D -> Int], NEW T \in SUBSET D, NEW x \in T
    PROVE  SumFunctionOnSet(w, T) = w[x] + SumFunctionOnSet(w, T \ {x})
<1> DEFINE sum(s) == SumFunctionOnSet(w, s)
           Bad == {s \in SUBSET D : \E y \in s : sum(s) # w[y] + sum(s \ {y})}
<1>1. \A s \in SUBSET D : sum(s) \in Int /\ (s # {} => sum(s) = w[Chosen(s)] + sum(s \ {Chosen(s)}))
  BY SumOfChosen
<1> HIDE DEF sum
<1>2. SUFFICES ASSUME Bad # {} PROVE FALSE
  BY DEF sum
<1>3. PICK s \in Bad : \A z \in s : s \ {z} \notin Bad
  BY <1>2, SmallestSet
<1>4. PICK y \in s : sum(s) # w[y] + sum(s \ {y})
  BY <1>3
<1>5. PICK c \in s : sum(s) = w[c] + sum(s \ {c})
  <2>1. s # {} /\ Chosen(s) \in s
    BY <1>3, <1>4, ChosenIn
  <2> QED BY <1>1, <1>3, <2>1
<1>6. s \in SUBSET D /\ y # c
  BY <1>3, <1>4, <1>5
<1>7. sum(s \ {c}) = w[y] + sum((s \ {c}) \ {y})
  BY <1>3, <1>6
<1>8. sum(s \ {y}) = w[c] + sum((s \ {y}) \ {c})
  BY <1>3, <1>6
<1>9. (s \ {c}) \ {y} = (s \ {y}) \ {c}
  OBVIOUS
<1>10. PICK a \in Int, b \in Int, e \in Int : a = w[c] /\ b = w[y] /\ e = sum((s \ {c}) \ {y})
  BY <1>1, <1>6
<1>11. sum(s) = a + (b + e) /\ sum(s \ {y}) = a + e
  BY <1>5, <1>7, <1>8, <1>9, <1>10
<1> QED BY <1>4, <1>10, <1>11

LEMMA SumOfOne ==
    ASSUME NEW D, IsFiniteSet(D), NEW w \in [D -> Int], NEW x \in D
    PROVE  SumFunctionOnSet(w, {x}) = w[x]
<1>1. SumFunctionOnSet(w, {x}) = w[x] + SumFunctionOnSet(w, {x} \ {x})
  BY SumOfRest
<1>2. {x} \ {x} = {} /\ SumFunctionOnSet(w, {}) = 0 /\ w[x] \in Int
  BY SumOfChosen
<1> QED BY <1>1, <1>2

LEMMA SumOfUnion ==
    ASSUME NEW D, IsFiniteSet(D), NEW w \in [D -> Int],
           NEW A \in SUBSET D, NEW B \in SUBSET D, A \intersect B = {}
    PROVE  SumFunctionOnSet(w, A \union B) = SumFunctionOnSet(w, A) + SumFunctionOnSet(w, B)
<1> DEFINE sum(s) == SumFunctionOnSet(w, s)
           Bad == {s \in SUBSET D : s \intersect B = {} /\ sum(s \union B) # sum(s) + sum(B)}
<1>1. \A s \in SUBSET D : sum(s) \in Int
  BY SumOfChosen
<1>2. sum({}) = 0
  BY SumOfChosen
<1>3. ASSUME NEW s \in SUBSET D, NEW x \in s PROVE sum(s) = w[x] + sum(s \ {x}) /\ w[x] \in Int
  BY SumOfRest
<1> HIDE DEF sum
<1>4. SUFFICES ASSUME Bad # {} PROVE FALSE
  BY DEF sum
<1>5. PICK s \in Bad : \A z \in s : s \ {z} \notin Bad
  BY <1>4, SmallestSet
<1>6. s # {}
  <2> SUFFICES ASSUME s = {} PROVE FALSE
    OBVIOUS
  <2>1. s \union B = B /\ sum(B) \in Int
    BY <1>1
  <2> QED BY <1>2, <1>5, <2>1
<1>7. PICK x \in s : TRUE
  BY <1>6
<1>8. sum((s \ {x}) \union B) = sum(s \ {x}) + sum(B)
  BY <1>5, <1>7
<1>9. s \in SUBSET D /\ x \in s \union B /\ (s \union B) \ {x} = (s \ {x}) \union B
  BY <1>5, <1>7
<1>10. sum(s \union B) = w[x] + sum((s \ {x}) \union B)
  <2>1. s \union B \in SUBSET D
    BY <1>9
  <2> QED BY <1>3, <1>9, <2>1
<1>11. sum(s) = w[x] + sum(s \ {x})
  BY <1>3, <1>9
<1>12. PICK a \in Int, b \in Int, e \in Int : a = w[x] /\ b = sum(s \ {x}) /\ e = sum(B)
  BY <1>1, <1>3, <1>9
<1>13. sum(s \union B) = a + (b + e) /\ sum(s) = a + b
  BY <1>8, <1>10, <1>11, <1>12
<1> QED BY <1>5, <1>12, <1>13

-----------------------------------------------------------------------------
(* The rewards of ModeReward.                                               *)

LEMMA ItemsFinite == IsFiniteSet(Items) /\ Len(BatchPrompts) \in Nat /\ 0 \notin Items
<1>1. Len(BatchPrompts) \in Nat
  BY ModeRewardAssumption
<1> QED BY <1>1, FS_Interval DEF Items

\* The items to be scored are listed in their order.
LEMMA ScoredInOrder == skyreward_indices \in Seq(Items)
<1> DEFINE scored == {i \in Items : items[i].source = "text" /\ ~items[i].empty}
           below == [i \in scored |-> {k \in scored : k < i}]
<1>1. scored \subseteq Items /\ IsFiniteSet(scored) /\ Cardinality(scored) \in Nat
  BY ItemsFinite, FS_Subset, FS_CardinalityType
<1>2. \A i \in scored : i \in Int
  BY <1>1 DEF Items
<1> HIDE DEF scored
<1>3. below \in [scored -> SUBSET scored]
  OBVIOUS
<1>4. \A i \in scored : i \notin below[i]
  BY <1>2
<1>5. \A i, k \in scored : i # k => \/ i \in below[k] /\ below[i] \subseteq below[k]
                                    \/ k \in below[i] /\ below[k] \subseteq below[i]
  BY <1>2
<1>6. \A i \in scored : below[i] = {k \in scored : k < i}
  OBVIOUS
<1> HIDE DEF below
<1>7. \A j \in 1..Cardinality(scored) : \E i \in scored : Cardinality(below[i]) = j - 1
  BY <1>1, <1>3, <1>4, <1>5, RankOnto
<1>8. \A j \in 1..Cardinality(scored) : \E i \in scored : Cardinality({k \in scored : k < i}) = j - 1
  BY <1>6, <1>7
<1>9. skyreward_indices =
        [j \in 1..Cardinality(scored) |->
            CHOOSE i \in scored : Cardinality({k \in scored : k < i}) = j - 1]
  BY DEF skyreward_indices, scored
<1>10. \A j \in 1..Cardinality(scored) :
          (CHOOSE i \in scored : Cardinality({k \in scored : k < i}) = j - 1) \in Items
  BY <1>1, <1>8
<1> DEFINE pick(j) == CHOOSE i \in scored : Cardinality({k \in scored : k < i}) = j - 1
<1>11. skyreward_indices = [j \in 1..Cardinality(scored) |-> pick(j)]
  BY <1>9
<1>12. \A j \in 1..Cardinality(scored) : pick(j) \in Items
  BY <1>10
<1> HIDE DEF pick
<1> QED BY <1>1, <1>11, <1>12

\* The types, and what is known of the items' own numbers.
ItemsTyped ==
    /\ items \in [Items -> [source : Sources, empty : BOOLEAN]] /\ extra_infos \in BOOLEAN
    /\ prompted \subseteq Items

Scores ==
    /\ raw_scores \in Seq(Items) /\ Len(raw_scores) <= Len(skyreward_indices)
    /\ \A j \in 1..Len(raw_scores) : raw_scores[j] = skyreward_indices[j]

ByItem ==
    /\ DOMAIN skyreward_by_idx \subseteq Items
    /\ \A i \in DOMAIN skyreward_by_idx : skyreward_by_idx[i] = i
    /\ DOMAIN skyreward_by_idx # {} => extra_infos
    /\ DOMAIN distinct_by_index \subseteq Items /\ tasks \subseteq Items
    /\ \A i \in DOMAIN distinct_by_index :
         /\ distinct_by_index[i].distinct \in {0, i}
         /\ distinct_by_index[i].among \in SUBSET Items
         /\ distinct_by_index[i].distinct # 0 => distinct_by_index[i].among = Group(i)

\* The items an item is compared with, and a reward that is the item's own.
Compared(i) == IF i \in prompted THEN {j \in prompted : BatchPrompts[j] = BatchPrompts[i]} ELSE Items \ prompted
Own(i, reward) ==
    /\ reward \in Infos
    /\ {reward.quality, reward.math, reward.distinct} \subseteq {0, i}
    /\ reward.distinct # 0 => extra_infos /\ reward.quality = i /\ reward.among = Compared(i)

Rewarded ==
    /\ progress \in {"scoring", "distinct", "combining", "returned"}
    /\ progress \in {"scoring", "distinct"} => rewards = <<>>
    /\ rewards \in Seq(Infos) /\ Len(rewards) <= Len(BatchPrompts)
    /\ progress = "returned" => Len(rewards) = Len(BatchPrompts)
    /\ \A i \in 1..Len(rewards) : Own(i, rewards[i])

RewardInv == ItemsTyped /\ Scores /\ ByItem /\ Rewarded

LEMMA RewardInvInit == RewardInit => RewardInv
<1> SUFFICES ASSUME RewardInit PROVE RewardInv
  OBVIOUS
<1>1. ItemsTyped
  BY DEF RewardInit, ItemsTyped
<1>2. Scores
  <2>1. Len(skyreward_indices) \in Nat
    BY ScoredInOrder
  <2> QED BY <2>1 DEF RewardInit, Scores
<1>3. ByItem
  BY DEF RewardInit, ByItem, Nobody
<1>4. Rewarded
  BY ItemsFinite DEF RewardInit, Rewarded
<1> QED BY <1>1, <1>2, <1>3, <1>4 DEF RewardInv

\* What a step leaves alone keeps its part.
LEMMA ItemsKept ==
    ASSUME ItemsTyped, UNCHANGED givenVars
    PROVE  /\ ItemsTyped' /\ skyreward_indices' = skyreward_indices
           /\ UNCHANGED extra_infos /\ \A i : Group(i)' = Group(i)
BY DEF givenVars, ItemsTyped, skyreward_indices, Group, batch_prompts

LEMMA ScoresKept ==
    ASSUME Scores, UNCHANGED <<skyreward_indices, raw_scores>>
    PROVE  Scores'
BY DEF Scores

LEMMA ByItemKept ==
    ASSUME ByItem, UNCHANGED <<extra_infos, skyreward_by_idx, tasks, distinct_by_index>>,
           \A i : Group(i)' = Group(i)
    PROVE  ByItem'
BY DEF ByItem

LEMMA RewardedKept ==
    ASSUME Rewarded, UNCHANGED <<givenVars, rewards>>,
           progress' = progress \/ progress' \in {"distinct", "combining"}, progress # "returned",
           progress' = "distinct" => progress \in {"scoring", "distinct"}
    PROVE  Rewarded'
BY DEF Rewarded, Own, Compared, givenVars

LEMMA ZeroIsOwn == ASSUME NEW i PROVE Own(i, Zero)
BY DEF Own, Zero, Infos

\* The critical error: zero for every item.
LEMMA RewardCritical ==
    ASSUME RewardInv, CriticalError
    PROVE  RewardInv'
<1>1. ItemsTyped' /\ Scores' /\ ByItem'
  BY ItemsKept, ScoresKept, ByItemKept DEF RewardInv, CriticalError
<1>2. /\ rewards' = [i \in 1..Len(BatchPrompts) |-> Zero] /\ progress' = "returned"
      /\ Zero \in Infos /\ Len(BatchPrompts) \in Nat
  BY ItemsFinite DEF CriticalError, Zero, Infos, Items
<1>3. rewards' \in Seq(Infos) /\ Len(rewards') = Len(BatchPrompts)
  BY <1>2
<1>4. \A i \in 1..Len(rewards') : rewards'[i] = Zero
  BY <1>2, <1>3
<1>5. Rewarded'
  <2>1. ASSUME NEW i PROVE Own(i, Zero)'
    BY DEF Own, Zero, Infos
  <2> QED BY <1>2, <1>3, <1>4, <2>1 DEF Rewarded
<1> QED BY <1>1, <1>5 DEF RewardInv

\* A micro-batch of scores is the next part of the list of items.
LEMMA RewardScore ==
    ASSUME RewardInv, ScoreMicroBatch
    PROVE  RewardInv'
<1>1. ItemsTyped' /\ ByItem' /\ Rewarded' /\ skyreward_indices' = skyreward_indices
  BY ItemsKept, ByItemKept, RewardedKept DEF RewardInv, ScoreMicroBatch
<1>2. PICK sky \in Seq(Items), raw \in Seq(Items) : sky = skyreward_indices /\ raw = raw_scores
  BY ScoredInOrder DEF RewardInv, Scores
<1>3. /\ Len(raw) \in Nat /\ Len(sky) \in Nat /\ Len(raw) < Len(sky)
      /\ \A j \in 1..Len(raw) : raw[j] = sky[j]
  BY <1>2 DEF RewardInv, Scores, ScoreMicroBatch
<1>4. PICK last \in Len(raw) + 1..Len(sky) : raw_scores' = raw \o SubSeq(sky, Len(raw) + 1, last)
  <2> DEFINE end == IF Len(raw) + micro_batch_size < Len(sky) THEN Len(raw) + micro_batch_size ELSE Len(sky)
  <2>1. end \in Len(raw) + 1..Len(sky)
    BY <1>3, ModeRewardAssumption
  <2>2. raw_scores' = raw \o SubSeq(sky, Len(raw) + 1, end)
    BY <1>2 DEF ScoreMicroBatch
  <2> QED BY <2>1, <2>2
<1> DEFINE part == SubSeq(sky, Len(raw) + 1, last)
<1>5. /\ part \in Seq(Items) /\ Len(part) = last - Len(raw)
      /\ \A j \in 1..Len(part) : part[j] = sky[Len(raw) + j]
  BY <1>3
<1> HIDE DEF part
<1>6. /\ raw \o part \in Seq(Items) /\ Len(raw \o part) = last
      /\ \A j \in 1..last : (raw \o part)[j] = IF j <= Len(raw) THEN raw[j] ELSE part[j - Len(raw)]
  BY <1>3, <1>5
<1>7. \A j \in 1..last : (raw \o part)[j] = sky[j]
  BY <1>3, <1>5, <1>6
<1>8. Scores'
  BY <1>1, <1>2, <1>3, <1>4, <1>6, <1>7 DEF Scores, part
<1> QED BY <1>1, <1>8 DEF RewardInv

\* The scores come back to the items they are of.
LEMMA RewardScoresIn ==
    ASSUME RewardInv, ScoresIn
    PROVE  RewardInv'
<1>1. ItemsTyped' /\ Scores' /\ Rewarded' /\ (\A i : Group(i)' = Group(i))
  BY ItemsKept, ScoresKept, RewardedKept DEF RewardInv, ScoresIn, Submitted
<1>2. /\ raw_scores \in Seq(Items) /\ Len(raw_scores) = Len(skyreward_indices)
      /\ \A j \in DOMAIN raw_scores : raw_scores[j] = IndexOf(j) /\ IndexOf(j) \in Items
  BY ScoredInOrder DEF RewardInv, Scores, IndexOf, ScoresIn
<1> DEFINE scored == {IndexOf(j) : j \in DOMAIN raw_scores}
           score(i) == raw_scores[CHOOSE j \in DOMAIN raw_scores : IndexOf(j) = i]
<1>3. \A i \in scored : score(i) = i /\ i \in Items
  BY <1>2
<1>4. skyreward_by_idx' = [i \in scored |-> score(i)]
  BY DEF ScoresIn
<1> HIDE DEF scored, score
<1>5. DOMAIN skyreward_by_idx' \subseteq Items /\ \A i \in DOMAIN skyreward_by_idx' : skyreward_by_idx'[i] = i
  BY <1>3, <1>4
<1>6. extra_infos' /\ distinct_by_index' = distinct_by_index /\ tasks' \subseteq Items
  BY DEF ScoresIn, Submitted, givenVars
<1>7. ByItem'
  BY <1>1, <1>5, <1>6 DEF RewardInv, ByItem
<1> QED BY <1>1, <1>7 DEF RewardInv

LEMMA RewardNoScores ==
    ASSUME RewardInv, NoScores
    PROVE  RewardInv'
<1>1. ItemsTyped' /\ Scores' /\ Rewarded' /\ (\A i : Group(i)' = Group(i))
  BY ItemsKept, ScoresKept, RewardedKept DEF RewardInv, NoScores, Submitted
<1>2. UNCHANGED <<extra_infos, skyreward_by_idx, distinct_by_index>> /\ tasks' \subseteq Items
  BY DEF NoScores, Submitted, givenVars
<1>3. ByItem'
  BY <1>1, <1>2 DEF RewardInv, ByItem
<1> QED BY <1>1, <1>3 DEF RewardInv

\* A future has the number of its own item, whenever it completes.
LEMMA RewardFuture ==
    ASSUME RewardInv, NEW i \in Items, FutureDone(i)
    PROVE  RewardInv'
<1>1. ItemsTyped' /\ Scores' /\ Rewarded' /\ (\A j : Group(j)' = Group(j))
  <2>1. progress = "distinct" /\ UNCHANGED <<givenVars, progress, raw_scores, rewards>>
    BY DEF FutureDone
  <2>2. ItemsTyped' /\ skyreward_indices' = skyreward_indices /\ (\A j : Group(j)' = Group(j))
    BY <2>1, ItemsKept DEF RewardInv
  <2> QED BY <2>1, <2>2, ScoresKept, RewardedKept DEF RewardInv
<1>2. PICK result \in {[distinct |-> i, among |-> Group(i)], [distinct |-> 0, among |-> {}]} :
        distinct_by_index' = With(distinct_by_index, i, result)
  BY DEF FutureDone, FutureToIdx
<1>3. /\ result.distinct \in {0, i} /\ result.among \in SUBSET Items
      /\ result.distinct # 0 => result.among = Group(i)
  BY <1>2 DEF Group
<1>4. /\ DOMAIN distinct_by_index' = DOMAIN distinct_by_index \union {i}
      /\ distinct_by_index'[i] = result
      /\ \A j \in DOMAIN distinct_by_index : j # i => distinct_by_index'[j] = distinct_by_index[j]
  BY <1>2 DEF With
<1>5. UNCHANGED <<extra_infos, skyreward_by_idx>> /\ tasks' \subseteq tasks
  BY DEF FutureDone, givenVars
<1>6. ASSUME NEW j \in DOMAIN distinct_by_index'
      PROVE  /\ distinct_by_index'[j].distinct \in {0, j}
             /\ distinct_by_index'[j].among \in SUBSET Items
             /\ distinct_by_index'[j].distinct # 0 => distinct_by_index'[j].among = Group(j)'
  <2>1. CASE j = i
    BY <2>1, <1>1, <1>3, <1>4
  <2>2. CASE j # i
    BY <2>2, <1>1, <1>4, <1>6 DEF RewardInv, ByItem
  <2> QED BY <2>1, <2>2
<1>7. ByItem'
  BY <1>4, <1>5, <1>6 DEF RewardInv, ByItem
<1> QED BY <1>1, <1>7 DEF RewardInv

\* What is combined for an item comes from the item.
LEMMA CombinedIsOwn ==
    ASSUME ItemsTyped, ByItem, NEW i \in Items
    PROVE  Own(i, Combined(i))
<1>1. i # 0
  BY ItemsFinite
<1>2. CASE i \in DOMAIN skyreward_by_idx
  <2>1. skyreward_by_idx[i] = i /\ extra_infos
    BY <1>2 DEF ByItem
  <2>2. Group(i) = Compared(i)
    <3>1. \A j \in Items : BatchPrompts[j] # EmptyText
      BY ModeRewardAssumption DEF Items, EmptyText
    <3>2. prompted \subseteq Items
      BY DEF ItemsTyped
    <3> QED BY <3>1, <3>2 DEF Group, batch_prompts, Compared
  <2> DEFINE d == IF i \in DOMAIN distinct_by_index THEN distinct_by_index[i].distinct ELSE 0
             a == IF i \in DOMAIN distinct_by_index THEN distinct_by_index[i].among ELSE {}
  <2>3. d \in {0, i} /\ a \in SUBSET Items /\ (d # 0 => a = Group(i))
    BY DEF ByItem
  <2>4. Combined(i) = [quality |-> i, math |-> 0, distinct |-> d, among |-> a]
    BY <1>2, <2>1 DEF Combined
  <2> HIDE DEF d, a
  <2> QED BY <1>1, <2>1, <2>2, <2>3, <2>4 DEF Own, Infos
<1>3. CASE i \notin DOMAIN skyreward_by_idx
  <2>1. PICK m \in {0, i} : Combined(i) = [quality |-> 0, math |-> m, distinct |-> 0, among |-> {}]
    BY <1>3 DEF Combined, Zero
  <2> QED BY <2>1 DEF Own, Infos
<1> QED BY <1>2, <1>3

\* The next item gets its reward, or zero.
LEMMA RewardCombine ==
    ASSUME RewardInv, Combine
    PROVE  RewardInv'
<1>1. ItemsTyped' /\ Scores' /\ ByItem'
  BY ItemsKept, ScoresKept, ByItemKept DEF RewardInv, Combine
<1>2. /\ rewards \in Seq(Infos) /\ Len(rewards) \in Nat /\ Len(rewards) + 1 \in Items
      /\ progress = "combining" /\ progress' = "combining"
  BY DEF RewardInv, Rewarded, Combine, NextItem
<1>3. PICK reward : rewards' = Append(rewards, reward) /\ Own(Len(rewards) + 1, reward)
  BY <1>2, CombinedIsOwn, ZeroIsOwn DEF RewardInv, Combine, NextItem
<1>4. reward \in Infos
  BY <1>3 DEF Own
<1>5. /\ rewards' \in Seq(Infos) /\ Len(rewards') = Len(rewards) + 1
      /\ rewards'[Len(rewards) + 1] = reward
      /\ \A i \in 1..Len(rewards) : rewards'[i] = rewards[i]
  BY <1>2, <1>3, <1>4
<1>6. Len(rewards') <= Len(BatchPrompts)
  BY <1>2, <1>5 DEF Items
<1>7. ASSUME NEW i \in 1..Len(rewards') PROVE Own(i, rewards'[i])
  <2>1. CASE i = Len(rewards) + 1
    BY <2>1, <1>3, <1>5
  <2>2. CASE i # Len(rewards) + 1
    <3>1. i \in 1..Len(rewards)
      BY <2>2, <1>2, <1>5
    <3> QED BY <3>1, <1>5 DEF RewardInv, Rewarded
  <2> QED BY <2>1, <2>2
<1>8. Rewarded'
  BY <1>2, <1>5, <1>6, <1>7 DEF Rewarded, Own, Compared, Combine, givenVars
<1> QED BY <1>1, <1>8 DEF RewardInv

LEMMA RewardReturn ==
    ASSUME RewardInv, Return
    PROVE  RewardInv'
<1>1. ItemsTyped' /\ Scores' /\ ByItem'
  BY ItemsKept, ScoresKept, ByItemKept DEF RewardInv, Return
<1>2. rewards' = rewards /\ progress' = "returned" /\ progress = "combining" /\ Len(rewards) + 1 \notin Items
  BY DEF Return, NextItem
<1>3. Len(rewards) \in Nat /\ Len(rewards) <= Len(BatchPrompts)
  BY DEF RewardInv, Rewarded
<1>4. Len(rewards) = Len(BatchPrompts)
  BY <1>2, <1>3, ItemsFinite DEF Items
<1>5. Rewarded'
  BY <1>2, <1>4 DEF RewardInv, Rewarded, Own, Compared, Return, givenVars
<1> QED BY <1>1, <1>5 DEF RewardInv

LEMMA RewardInvNext == RewardInv /\ [RewardNext]_rewardVars => RewardInv'
<1> SUFFICES ASSUME RewardInv, [RewardNext]_rewardVars PROVE RewardInv'
  OBVIOUS
<1>1. CASE UNCHANGED rewardVars
  <2>1. ItemsTyped' /\ Scores' /\ ByItem'
    BY <1>1, ItemsKept, ScoresKept, ByItemKept DEF RewardInv, rewardVars
  <2>2. Rewarded'
    BY <1>1 DEF RewardInv, rewardVars, givenVars, Rewarded, Own, Compared
  <2> QED BY <2>1, <2>2 DEF RewardInv
<1>2. CASE PoolDone
  <2>1. ItemsTyped' /\ Scores' /\ ByItem' /\ Rewarded'
    BY <1>2, ItemsKept, ScoresKept, ByItemKept, RewardedKept DEF RewardInv, PoolDone
  <2> QED BY <2>1 DEF RewardInv
<1>3. CASE RewardStep
  BY <1>2, <1>3, RewardCritical, RewardScore, RewardScoresIn, RewardNoScores, RewardFuture, RewardCombine,
     RewardReturn DEF RewardStep, ScoringFails
<1> QED BY <1>1, <1>3 DEF RewardNext, RewardOver

\* hybrid_reward_function_batch: each item gets the reward computed from itself and the
\* responses to its own prompt, or, where infos name no prompt, from the items like it,
\* in whatever order the futures complete and whichever of them fail, for any batch,
\* any infos and any size of the micro-batches.
THEOREM RewardIsOwnCorrect == RewardSpec => []RewardIsOwn
<1>1. RewardInv => RewardIsOwn
  <2> SUFFICES ASSUME RewardInv PROVE RewardIsOwn
    OBVIOUS
  <2>1. DOMAIN rewards = 1..Len(rewards)
    BY DEF RewardInv, Rewarded
  <2> QED BY <2>1 DEF RewardInv, Rewarded, Own, Compared, RewardIsOwn
<1> QED BY RewardInvInit, RewardInvNext, <1>1, PTL DEF RewardSpec

\* The types of the reward function's variables, and that the scored items are items.
THEOREM RewardTypeCorrect == RewardSpec => []RewardTypeOK
<1>1. RewardInv => RewardTypeOK
  BY DEF RewardInv, ItemsTyped, Scores, ByItem, Rewarded, RewardTypeOK
<1> QED BY RewardInvInit, RewardInvNext, <1>1, PTL DEF RewardSpec

-----------------------------------------------------------------------------
(* The rows of StepDataflow.                                                *)

LEMMA Division ==
    ASSUME NEW a \in Nat, NEW m \in Nat \ {0}
    PROVE  a \div m \in Nat /\ a % m \in 0..m - 1 /\ a = m * (a \div m) + (a % m)
<1> DEFINE q == a \div m
           r == a % m
<1>1. q \in Int /\ r \in 0..m - 1 /\ a = m * q + r
  OBVIOUS
<1> HIDE DEF q, r
<1>2. CASE q < 0
  <2>1. PICK k \in Nat : k >= 1 /\ q = -k
    BY <1>1, <1>2
  <2>2. m * q = -(m * k) /\ m * k >= m
    BY <2>1
  <2> QED BY <1>1, <2>2
<1> QED BY <1>1, <1>2 DEF q, r

LEMMA DivisionIsUnique ==
    ASSUME NEW m \in Nat \ {0}, NEW a \in Nat, NEW b \in 0..m - 1
    PROVE  m * a + b \in Nat /\ (m * a + b) \div m = a /\ (m * a + b) % m = b
<1>1. PICK x \in Nat : x = m * a + b
  <2>1. m * a \in Nat
    OBVIOUS
  <2> QED BY <2>1
<1>2. PICK q \in Nat, r \in 0..m - 1 : x \div m = q /\ x % m = r /\ x = m * q + r
  BY <1>1, Division
<1>3. m * a + b = m * q + r
  BY <1>1, <1>2
<1>4. ~(q > a)
  <2> SUFFICES ASSUME q > a PROVE FALSE
    OBVIOUS
  <2>1. PICK d \in Nat : d >= 1 /\ q = a + d
    BY <1>2
  <2>2. m * q = m * a + m * d /\ m * d >= m
    BY <2>1
  <2> QED BY <1>3, <2>2
<1>5. ~(q < a)
  <2> SUFFICES ASSUME q < a PROVE FALSE
    OBVIOUS
  <2>1. PICK d \in Nat : d >= 1 /\ a = q + d
    BY <1>2
  <2>2. m * a = m * q + m * d /\ m * d >= m
    BY <2>1
  <2> QED BY <1>3, <2>2
<1>6. q = a /\ r = b
  BY <1>2, <1>3, <1>4, <1>5
<1> QED BY <1>1, <1>2, <1>6

RankSize == BatchSize \div world_size

LEMMA Sizes ==
    /\ BatchSize \in Nat \ {0} /\ world_size \in Nat \ {0} /\ RankSize \in Nat
    /\ BatchSize = world_size * RankSize
    /\ IsFiniteSet(Rows) /\ Cardinality(Rows) = BatchSize
<1>1. BatchSize \in Nat \ {0} /\ world_size \in Nat \ {0} /\ BatchSize % world_size = 0
  BY StepDataflowAssumption
<1>2. RankSize \in Nat /\ BatchSize = world_size * RankSize
  <2>1. RankSize \in Nat /\ BatchSize = world_size * RankSize + 0
    BY <1>1, Division DEF RankSize
  <2>2. world_size * RankSize \in Int
    BY <1>1, <2>1
  <2> QED BY <2>1, <2>2
<1>3. IsFiniteSet(1..BatchSize) /\ Cardinality(1..BatchSize) = BatchSize
  <2>1. 1 \in Int /\ BatchSize \in Int /\ (IF 1 > BatchSize THEN 0 ELSE BatchSize - 1 + 1) = BatchSize
    BY <1>1
  <2> QED BY <2>1, FS_Interval
<1> QED BY <1>1, <1>2, <1>3 DEF Rows

\* The rows of a set in the order of their workload: each has one place.
LEMMA SortedIsBijection ==
    ASSUME workload \in [Rows -> Nat], NEW S \in SUBSET Rows
    PROVE  /\ IsFiniteSet(S) /\ Cardinality(S) \in Nat
           /\ SortedRows(S) \in [1..Cardinality(S) -> S]
           /\ \A r \in S : \E j \in 1..Cardinality(S) : SortedRows(S)[j] = r
           /\ \A j, k \in 1..Cardinality(S) : SortedRows(S)[j] = SortedRows(S)[k] => j = k
           /\ \A j, k \in 1..Cardinality(S) :
                 j < k => workload[SortedRows(S)[j]] <= workload[SortedRows(S)[k]]
<1> DEFINE below == [r \in S |-> {q \in S : Before(q, r)}]
           c == Cardinality(S)
           place(j) == CHOOSE r \in S : Cardinality({q \in S : Before(q, r)}) = j - 1
<1>1. IsFiniteSet(S) /\ c \in Nat
  BY Sizes, FS_Subset, FS_CardinalityType
<1>2. \A r \in S : r \in Int /\ workload[r] \in Int
  BY DEF Rows
<1>3. below \in [S -> SUBSET S]
  OBVIOUS
<1>4. \A r \in S : r \notin below[r]
  BY <1>2 DEF Before
<1>5. \A i, k \in S : i # k => \/ i \in below[k] /\ below[i] \subseteq below[k]
                               \/ k \in below[i] /\ below[k] \subseteq below[i]
  <2> SUFFICES ASSUME NEW i \in S, NEW k \in S, i # k
               PROVE  \/ i \in below[k] /\ below[i] \subseteq below[k]
                      \/ k \in below[i] /\ below[k] \subseteq below[i]
    OBVIOUS
  <2>1. Before(i, k) \/ Before(k, i)
    BY <1>2 DEF Before
  <2>2. \A q \in S : Before(i, k) /\ Before(q, i) => Before(q, k)
    BY <1>2 DEF Before
  <2>3. \A q \in S : Before(k, i) /\ Before(q, k) => Before(q, i)
    BY <1>2 DEF Before
  <2> QED BY <2>1, <2>2, <2>3
<1>6. \A r \in S : below[r] = {q \in S : Before(q, r)}
  OBVIOUS
<1> HIDE DEF below, c
<1>7. /\ \A i, k \in S : Cardinality(below[i]) = Cardinality(below[k]) => i = k
      /\ \A j \in 1..c : \E i \in S : Cardinality(below[i]) = j - 1
  BY <1>1, <1>3, <1>4, <1>5, RankOnto DEF c
<1>8. ASSUME NEW j \in 1..c
      PROVE  place(j) \in S /\ Cardinality(below[place(j)]) = j - 1
  <2>1. \E r \in S : Cardinality({q \in S : Before(q, r)}) = j - 1
    BY <1>6, <1>7
  <2>2. place(j) \in S /\ Cardinality({q \in S : Before(q, place(j))}) = j - 1
    BY <2>1
  <2> HIDE DEF place
  <2> QED BY <1>6, <2>2
<1>9. SortedRows(S) = [j \in 1..c |-> place(j)]
  BY DEF SortedRows, c
<1> HIDE DEF place
<1>10. SortedRows(S) \in [1..c -> S]
  BY <1>8, <1>9
<1>11. ASSUME NEW r \in S PROVE \E j \in 1..c : SortedRows(S)[j] = r
  <2>1. IsFiniteSet(below[r]) /\ Cardinality(below[r]) \in Nat /\ Cardinality(below[r]) <= c
    BY <1>1, <1>3, FS_Subset, FS_CardinalityType DEF c
  <2>2. Cardinality(below[r]) # c
    BY <1>1, <1>3, <1>4, FS_Subset DEF c
  <2>3. PICK j \in 1..c : j - 1 = Cardinality(below[r])
    <3>1. PICK b \in Nat : b = Cardinality(below[r])
      BY <2>1
    <3>2. b + 1 \in 1..c /\ b + 1 - 1 = b
      BY <1>1, <2>1, <2>2, <3>1
    <3> QED BY <3>1, <3>2
  <2>4. place(j) = r
    BY <1>7, <1>8, <2>3
  <2> QED BY <1>9, <2>4
<1>12. ASSUME NEW j \in 1..c, NEW k \in 1..c, SortedRows(S)[j] = SortedRows(S)[k] PROVE j = k
  <2>1. place(j) = place(k)
    BY <1>9, <1>12
  <2>2. j - 1 = k - 1
    BY <1>8, <2>1
  <2> QED BY <1>1, <2>2
<1>13. ASSUME NEW j \in 1..c, NEW k \in 1..c, j < k
       PROVE  workload[SortedRows(S)[j]] <= workload[SortedRows(S)[k]]
  <2>1. PICK q \in S, r \in S : q = SortedRows(S)[j] /\ r = SortedRows(S)[k]
    BY <1>8, <1>9
  <2>2. Cardinality(below[q]) = j - 1 /\ Cardinality(below[r]) = k - 1
    BY <1>8, <1>9, <2>1
  <2>3. ASSUME workload[r] < workload[q] PROVE FALSE
    <3>1. below[r] \subseteq below[q]
      <4>1. \A x \in S : Before(x, r) => Before(x, q)
        BY <1>2, <2>3 DEF Before
      <4> QED BY <1>6, <4>1
    <3>2. Cardinality(below[r]) <= Cardinality(below[q])
      BY <1>1, <1>3, <3>1, FS_Subset
    <3> QED BY <1>1, <1>13, <2>2, <3>2
  <2> QED BY <1>2, <2>1, <2>3
<1> QED BY <1>1, <1>10, <1>11, <1>12, <1>13 DEF c

\* The zigzag lists every place once more, the odd ones upwards and the even ones back.
LEMMA ZigzagOnto ==
    ASSUME NEW c \in Nat, NEW p \in [1..c -> Rows]
    PROVE  /\ Zigzag(p) \in [1..c -> Rows]
           /\ \A j \in 1..c : \E i \in 1..c : Zigzag(p)[i] = p[j]
           /\ \A i \in 1..c : \E j \in 1..c : Zigzag(p)[i] = p[j]
<1>1. p \in Seq(Rows) /\ Len(p) = c
  OBVIOUS
<1> DEFINE odds == [i \in 1..(c + 1) \div 2 |-> p[2 * i - 1]]
           evens == [i \in 1..c \div 2 |-> p[2 * i]]
<1>2. PICK h \in Nat, l \in Nat :
        /\ h = (c + 1) \div 2 /\ l = c \div 2 /\ h + l = c
        /\ (c = 2 * l /\ h = l) \/ (c = 2 * l + 1 /\ h = l + 1)
  OBVIOUS
<1>3. odds \in Seq(Rows) /\ Len(odds) = h /\ \A i \in 1..h : odds[i] = p[2 * i - 1]
  BY <1>2
<1>4. evens \in Seq(Rows) /\ Len(evens) = l /\ \A i \in 1..l : evens[i] = p[2 * i]
  BY <1>2
<1>5. Zigzag(p) = odds \o Reverse(evens)
  BY <1>1 DEF Zigzag
<1> HIDE DEF odds, evens
<1>6. /\ Reverse(evens) \in Seq(Rows) /\ Len(Reverse(evens)) = l
      /\ \A i \in 1..l : Reverse(evens)[i] = evens[l - i + 1]
  BY <1>4 DEF Reverse
<1> DEFINE back == Reverse(evens)
<1> HIDE DEF back
<1>7. /\ odds \o back \in Seq(Rows) /\ Len(odds \o back) = c
      /\ \A i \in 1..h : (odds \o back)[i] = odds[i]
      /\ \A i \in 1..l : (odds \o back)[h + i] = back[i]
  <2>1. odds \in Seq(Rows) /\ back \in Seq(Rows) /\ Len(odds) = h /\ Len(back) = l
    BY <1>3, <1>6 DEF back
  <2>2. /\ odds \o back \in Seq(Rows) /\ Len(odds \o back) = h + l
        /\ \A i \in 1..h + l : (odds \o back)[i] = IF i <= h THEN odds[i] ELSE back[i - h]
    BY <2>1, ConcatProperties
  <2>3. \A i \in 1..h : i \in 1..h + l /\ i <= h
    BY <1>2
  <2>4. \A i \in 1..l : h + i \in 1..h + l /\ ~(h + i <= h) /\ h + i - h = i
    BY <1>2
  <2> QED BY <1>2, <2>2, <2>3, <2>4
<1>8. Zigzag(p) \in [1..c -> Rows]
  <2>1. \A z \in Seq(Rows) : Len(z) = c => z \in [1..c -> Rows]
    OBVIOUS
  <2> QED BY <1>5, <1>7, <2>1 DEF back
<1>9. ASSUME NEW j \in 1..c PROVE \E i \in 1..c : (odds \o back)[i] = p[j]
  <2>1. PICK m \in Nat : j = 2 * m \/ j = 2 * m - 1
    <3>1. j = 2 * ((j + 1) \div 2) \/ j = 2 * ((j + 1) \div 2) - 1
      OBVIOUS
    <3>2. (j + 1) \div 2 \in Nat
      OBVIOUS
    <3> QED BY <3>1, <3>2
  <2>2. CASE j = 2 * m - 1
    <3>1. m \in 1..h /\ m \in 1..c
      BY <1>2, <2>2
    <3> QED BY <1>3, <1>7, <2>2, <3>1
  <2>3. CASE j = 2 * m
    <3>1. m \in 1..l /\ l - m + 1 \in 1..l /\ h + (l - m + 1) \in 1..c /\ l - (l - m + 1) + 1 = m
      BY <1>2, <2>3
    <3>2. (odds \o back)[h + (l - m + 1)] = p[j]
      BY <1>4, <1>6, <1>7, <2>3, <3>1 DEF back
    <3> QED BY <3>1, <3>2
  <2> QED BY <2>1, <2>2, <2>3
<1>10. ASSUME NEW i \in 1..c PROVE \E j \in 1..c : (odds \o back)[i] = p[j]
  <2>1. CASE i \in 1..h
    <3>1. 2 * i - 1 \in 1..c
      BY <1>2, <2>1
    <3> QED BY <1>3, <1>7, <2>1, <3>1
  <2>2. CASE i \notin 1..h
    <3>1. PICK m \in 1..l : i = h + m
      <4>1. i - h \in 1..l /\ i = h + (i - h)
        BY <1>2, <2>2
      <4> QED BY <4>1
    <3>2. l - m + 1 \in 1..l /\ 2 * (l - m + 1) \in 1..c
      BY <1>2, <3>1
    <3>3. (odds \o back)[i] = p[2 * (l - m + 1)]
      BY <1>4, <1>6, <1>7, <3>1, <3>2 DEF back
    <3> QED BY <3>2, <3>3
  <2> QED BY <2>1, <2>2
<1> QED BY <1>5, <1>8, <1>9, <1>10 DEF back

-----------------------------------------------------------------------------
(* The heap: its sets are of equal size in each state, and partition the rows. *)

RankNumbers == 1..world_size
HeapStates == [RankNumbers -> SUBSET Rows]

EqualSizes(S) == \A s \in S : \A i, k \in RankNumbers : Cardinality(s[i]) = Cardinality(s[k])
ApartIn(S) ==
    \A s, t \in S : \A i, k \in RankNumbers : \A r \in Rows :
        r \in s[i] /\ r \in t[k] => s = t /\ i = k
AllIn(S) == \A r \in Rows : \E s \in S, i \in RankNumbers : r \in s[i]

Partition(S) == S \subseteq HeapStates /\ IsFiniteSet(S) /\ EqualSizes(S) /\ ApartIn(S) /\ AllIn(S)

\* Chunk c lists the places from c * world_size downwards.
LEMMA ChunkPlaces ==
    ASSUME NEW c \in 1..RankSize, NEW i \in 1..world_size
    PROVE  /\ c * world_size + 1 - i \in 1..BatchSize
           /\ (c * world_size - i) \div world_size = c - 1
           /\ (c * world_size - i) % world_size = world_size - i
           /\ c * world_size + 1 - i = c * world_size - i + 1
<1>1. PICK w \in Nat \ {0}, d \in Nat, b \in Nat : w = world_size /\ d = RankSize /\ b = BatchSize /\ b = w * d
  BY Sizes
<1>2. PICK a \in Nat : a = c - 1 /\ a + 1 <= d
  BY <1>1
<1>3. c * w - i = w * a + (w - i) /\ w - i \in 0..w - 1 /\ w * a \in Nat
  BY <1>1, <1>2
<1>4. (w * a + (w - i)) \div w = a /\ (w * a + (w - i)) % w = w - i
  BY <1>1, <1>2, <1>3, DivisionIsUnique
<1>5. PICK e \in Nat : d = a + 1 + e
  BY <1>1, <1>2
<1>6. b = w * a + w + w * e /\ w * e \in Nat
  BY <1>1, <1>2, <1>5
<1>7. c * w + 1 - i = w * a + (w - i) + 1
  BY <1>3
<1> QED BY <1>1, <1>2, <1>3, <1>4, <1>6, <1>7

\* The states that karmarkar_karp begins with: single rows, each in one of them.
LEMMA ChunksPartition ==
    ASSUME workload \in [Rows -> Nat]
    PROVE  Partition(Chunks)
<1> DEFINE sorted == SortedRows(Rows)
           chunk(c) == [i \in 1..world_size |-> {sorted[c * world_size + 1 - i]}]
<1>1. /\ sorted \in [1..BatchSize -> Rows]
      /\ \A r \in Rows : \E j \in 1..BatchSize : sorted[j] = r
      /\ \A j, k \in 1..BatchSize : sorted[j] = sorted[k] => j = k
  BY Sizes, SortedIsBijection
<1>2. Chunks = {chunk(c) : c \in 1..RankSize}
  BY DEF Chunks, RankSize
<1> HIDE DEF sorted
<1>3. PICK w \in Nat \ {0}, d \in Nat, b \in Nat : w = world_size /\ d = RankSize /\ b = BatchSize /\ b = w * d
  BY Sizes
<1>4. ASSUME NEW c \in 1..d, NEW i \in 1..w
      PROVE  /\ c * w + 1 - i \in 1..b
             /\ (c * w - i) \div w = c - 1 /\ (c * w - i) % w = w - i /\ c * w + 1 - i = c * w - i + 1
  BY <1>3, ChunkPlaces
<1>5. ASSUME NEW c \in 1..d
      PROVE  /\ chunk(c) \in HeapStates
             /\ \A i \in 1..w : chunk(c)[i] = {sorted[c * w + 1 - i]} /\ Cardinality(chunk(c)[i]) = 1
  <2>1. \A i \in 1..w : sorted[c * w + 1 - i] \in Rows
    BY <1>1, <1>3, <1>4
  <2>2. chunk(c) = [i \in 1..w |-> {sorted[c * w + 1 - i]}]
    BY <1>3
  <2> HIDE DEF chunk
  <2>3. chunk(c) \in HeapStates
    BY <1>3, <2>1, <2>2 DEF HeapStates, RankNumbers
  <2>4. ASSUME NEW i \in 1..w PROVE chunk(c)[i] = {sorted[c * w + 1 - i]} /\ Cardinality(chunk(c)[i]) = 1
    <3>1. chunk(c)[i] = {sorted[c * w + 1 - i]}
      BY <2>2
    <3> QED BY <3>1, FS_Singleton
  <2> QED BY <2>3, <2>4
<1> HIDE DEF chunk
<1>6. Chunks \subseteq HeapStates /\ EqualSizes(Chunks)
  BY <1>2, <1>3, <1>5 DEF EqualSizes, RankNumbers
<1>7. IsFiniteSet(Chunks)
  <2> DEFINE f == [c \in 1..d |-> chunk(c)]
  <2>1. f \in Surjection(1..d, Chunks)
    <3>1. f \in [1..d -> Chunks] /\ \A s \in Chunks : \E c \in 1..d : f[c] = s
      BY <1>2, <1>3
    <3> HIDE DEF f
    <3> QED BY <3>1 DEF Surjection
  <2>2. IsFiniteSet(1..d)
    BY <1>3, FS_Interval
  <2> HIDE DEF f
  <2> QED BY <2>1, <2>2, FS_Surjection
<1>8. ApartIn(Chunks)
  <2> SUFFICES ASSUME NEW c \in 1..d, NEW e \in 1..d, NEW i \in 1..w, NEW k \in 1..w, NEW r \in Rows,
                      r \in chunk(c)[i], r \in chunk(e)[k]
               PROVE  c = e /\ i = k
    BY <1>2, <1>3 DEF ApartIn, RankNumbers
  <2>1. sorted[c * w + 1 - i] = sorted[e * w + 1 - k]
    BY <1>5
  <2>2. c * w + 1 - i = e * w + 1 - k
    BY <1>1, <1>3, <1>4, <2>1
  <2>3. c * w - i = e * w - k
    <3>1. PICK x \in Int, y \in Int : x = c * w /\ y = e * w
      BY <1>3
    <3> QED BY <2>2, <3>1
  <2>4. c - 1 = e - 1 /\ w - i = w - k
    BY <1>4, <2>3
  <2> QED BY <1>3, <2>4
<1>9. AllIn(Chunks)
  <2> SUFFICES ASSUME NEW r \in Rows PROVE \E c \in 1..d, i \in 1..w : r \in chunk(c)[i]
    BY <1>2, <1>3 DEF AllIn, RankNumbers
  <2>1. PICK j \in 1..b : sorted[j] = r
    BY <1>1, <1>3
  <2>2. PICK x \in Nat : x = j - 1 /\ x < b
    BY <1>3
  <2>3. PICK q \in Nat, m \in 0..w - 1 : x = w * q + m
    <3>1. x \div w \in Nat /\ x % w \in 0..w - 1 /\ x = w * (x \div w) + (x % w)
      BY <2>2, Division
    <3> QED BY <3>1
  <2>4. q < d
    <3> SUFFICES ASSUME q >= d PROVE FALSE
      BY <1>3, <2>3
    <3>1. PICK e \in Nat : q = d + e
      BY <1>3, <2>3
    <3>2. w * q = w * d + w * e /\ w * e \in Nat
      BY <1>3, <3>1
    <3> QED BY <1>3, <2>2, <2>3, <3>2
  <2>5. q + 1 \in 1..d /\ w - m \in 1..w
    BY <1>3, <2>3, <2>4
  <2>6. (q + 1) * w + 1 - (w - m) = j
    <3>1. (q + 1) * w = w * q + w /\ w * q \in Nat
      BY <1>3, <2>3
    <3> QED BY <1>3, <2>2, <2>3, <3>1
  <2>7. r \in chunk(q + 1)[w - m]
    BY <1>5, <2>1, <2>5, <2>6
  <2> QED BY <2>5, <2>7
<1> QED BY <1>6, <1>7, <1>8, <1>9 DEF Partition

\* Merging two states gives each set of the one with one set of the other.
LEMMA MergeKeepsPartition ==
    ASSUME NEW S, Partition(S), NEW s0 \in S, NEW s1 \in S \ {s0},
           NEW merged \in Orderings([i \in 1..world_size |-> s0[i] \union s1[Partner(i)]])
    PROVE  Partition((S \ {s0, s1}) \union {merged})
<1> DEFINE u == [i \in RankNumbers |-> s0[i] \union s1[Partner(i)]]
           new == (S \ {s0, s1}) \union {merged}
<1>1. PICK p \in Bijection(RankNumbers, RankNumbers) : merged = [i \in RankNumbers |-> u[p[i]]]
  BY DEF Orderings, RankNumbers
<1>2. /\ \A i \in RankNumbers : p[i] \in RankNumbers
      /\ \A i, k \in RankNumbers : p[i] = p[k] => i = k
      /\ \A k \in RankNumbers : \E i \in RankNumbers : p[i] = k
  BY DEF Bijection, Injection, Surjection, IsInjective
<1>3. \A i \in RankNumbers : Partner(i) \in RankNumbers /\ Partner(Partner(i)) = i
  BY Sizes DEF Partner, RankNumbers
<1>4. s0 \in HeapStates /\ s1 \in HeapStates /\ s1 \in S /\ s0 # s1
  BY DEF Partition
<1>5. \A i \in RankNumbers : s0[i] \subseteq Rows /\ s1[i] \subseteq Rows
  BY <1>4 DEF HeapStates
<1>6. \A i \in RankNumbers : u[i] \subseteq Rows
  BY <1>3, <1>5
<1>7. merged \in HeapStates
  BY <1>1, <1>2, <1>6 DEF HeapStates
<1>8. ASSUME NEW r, NEW i \in RankNumbers
      PROVE  r \in merged[i] <=> r \in s0[p[i]] \/ r \in s1[Partner(p[i])]
  BY <1>1, <1>2
<1> HIDE DEF u
<1>9. \A i, k \in RankNumbers : Cardinality(merged[i]) = Cardinality(merged[k])
  <2>1. ASSUME NEW i \in RankNumbers
        PROVE  /\ Cardinality(s0[i]) = Cardinality(s0[1]) /\ Cardinality(s1[i]) = Cardinality(s1[1])
               /\ 1 \in RankNumbers
    BY <1>4, Sizes DEF Partition, EqualSizes, RankNumbers
  <2>2. ASSUME NEW i \in RankNumbers
        PROVE  Cardinality(merged[i]) = Cardinality(s0[1]) + Cardinality(s1[1]) - 0
    <3> DEFINE k == p[i]
               l == Partner(p[i])
    <3>1. k \in RankNumbers /\ l \in RankNumbers
      BY <1>2, <1>3
    <3>2. merged[i] = s0[k] \union s1[l]
      <4>1. merged[i] = u[k]
        BY <1>1
      <4> QED BY <3>1, <4>1 DEF u
    <3>3. s0[k] \intersect s1[l] = {}
      BY <1>4, <1>5, <3>1 DEF Partition, ApartIn
    <3>4. IsFiniteSet(s0[k]) /\ IsFiniteSet(s1[l])
      BY <1>5, <3>1, Sizes, FS_Subset
    <3>5. Cardinality(s0[k] \intersect s1[l]) = 0
      BY <3>3, FS_EmptySet
    <3>6. Cardinality(s0[k]) = Cardinality(s0[1]) /\ Cardinality(s1[l]) = Cardinality(s1[1])
      BY <2>1, <3>1
    <3> QED BY <3>2, <3>4, <3>5, <3>6, FS_Union
  <2> QED BY <2>2
<1>10. new \subseteq HeapStates /\ EqualSizes(new)
  BY <1>7, <1>9 DEF Partition, EqualSizes
<1>11. IsFiniteSet(new)
  <2>1. IsFiniteSet(S \ {s0, s1})
    BY FS_Subset DEF Partition
  <2>2. IsFiniteSet({merged})
    BY FS_Singleton
  <2> QED BY <2>1, <2>2, FS_Union
<1>12. ASSUME NEW t \in S, NEW i \in RankNumbers, NEW k \in RankNumbers, NEW r \in Rows, r \in t[k]
       PROVE  /\ r \in s0[i] => t = s0 /\ i = k
              /\ r \in s1[i] => t = s1 /\ i = k
  BY <1>4, <1>12 DEF Partition, ApartIn
<1>13. ApartIn(new)
  <2> SUFFICES ASSUME NEW s \in new, NEW t \in new, NEW i \in RankNumbers, NEW k \in RankNumbers,
                      NEW r \in Rows, r \in s[i], r \in t[k]
               PROVE  s = t /\ i = k
    BY DEF ApartIn
  <2>1. CASE s \in S \ {s0, s1} /\ t \in S \ {s0, s1}
    BY <2>1 DEF Partition, ApartIn
  <2>2. CASE s = merged /\ t \in S \ {s0, s1}
    BY <1>2, <1>3, <1>8, <1>12, <2>2
  <2>3. CASE s \in S \ {s0, s1} /\ t = merged
    BY <1>2, <1>3, <1>8, <1>12, <2>3
  <2>4. CASE s = merged /\ t = merged
    <3>1. p[i] \in RankNumbers /\ Partner(p[i]) \in RankNumbers
          /\ p[k] \in RankNumbers /\ Partner(p[k]) \in RankNumbers
      BY <1>2, <1>3
    <3>2. r \in s0[p[i]] \/ r \in s1[Partner(p[i])]
      BY <1>8, <2>4
    <3>3. r \in s0[p[k]] \/ r \in s1[Partner(p[k])]
      BY <1>8, <2>4
    <3>4. p[i] = p[k] \/ Partner(p[i]) = Partner(p[k])
      BY <1>4, <1>12, <3>1, <3>2, <3>3
    <3>5. p[i] = p[k]
      BY <1>3, <3>1, <3>4
    <3> QED BY <1>2, <2>4, <3>5
  <2> QED BY <2>1, <2>2, <2>3, <2>4
<1>14. AllIn(new)
  <2> SUFFICES ASSUME NEW r \in Rows PROVE \E s \in new, i \in RankNumbers : r \in s[i]
    BY DEF AllIn
  <2>1. PICK s \in S, i \in RankNumbers : r \in s[i]
    BY DEF Partition, AllIn
  <2>2. CASE s \in S \ {s0, s1}
    BY <2>1, <2>2
  <2>3. CASE s = s0
    <3>1. PICK k \in RankNumbers : p[k] = i
      BY <1>2
    <3> QED BY <1>8, <2>1, <2>3, <3>1
  <2>4. CASE s = s1
    <3>1. PICK k \in RankNumbers : p[k] = Partner(i)
      BY <1>2, <1>3
    <3> QED BY <1>3, <1>8, <2>1, <2>4, <3>1
  <2> QED BY <2>2, <2>3, <2>4
<1> QED BY <1>10, <1>11, <1>13, <1>14 DEF Partition

\* The state that is left gives each rank equally many rows.
LEMMA RanksOfEqualSize ==
    ASSUME workload \in [Rows -> Nat], NEW S, Partition(S), Cardinality(S) = 1, NEW s \in S
    PROVE  /\ \A i \in RankNumbers : s[i] \subseteq Rows /\ Cardinality(s[i]) = RankSize
           /\ \A r \in Rows : \E i \in RankNumbers : r \in s[i]
           /\ \A i, k \in RankNumbers : \A r \in Rows : r \in s[i] /\ r \in s[k] => i = k
<1>1. S = {s}
  <2>1. \E x : S = {x}
    BY FS_Singleton DEF Partition
  <2> QED BY <2>1
<1>2. \A i \in RankNumbers : s[i] \subseteq Rows
  BY DEF Partition, HeapStates
<1>3. \A r \in Rows : \E i \in RankNumbers : r \in s[i]
  BY <1>1 DEF Partition, AllIn
<1>4. \A i, k \in RankNumbers : \A r \in Rows : r \in s[i] /\ r \in s[k] => i = k
  BY DEF Partition, ApartIn
<1>5. PICK c \in Nat : \A i \in RankNumbers : Cardinality(s[i]) = c
  <2>1. 1 \in RankNumbers
    BY Sizes DEF RankNumbers
  <2>2. Cardinality(s[1]) \in Nat
    BY <1>2, <2>1, Sizes, FS_Subset, FS_CardinalityType
  <2>3. \A i \in RankNumbers : Cardinality(s[i]) = Cardinality(s[1])
    BY <2>1 DEF Partition, EqualSizes
  <2> QED BY <2>2, <2>3
<1> DEFINE places == RankNumbers \X (1..c)
           f == [x \in places |-> SortedRows(s[x[1]])[x[2]]]
<1>6. ASSUME NEW i \in RankNumbers
      PROVE  /\ SortedRows(s[i]) \in [1..c -> s[i]]
             /\ \A r \in s[i] : \E j \in 1..c : SortedRows(s[i])[j] = r
             /\ \A j, k \in 1..c : SortedRows(s[i])[j] = SortedRows(s[i])[k] => j = k
  <2>1. s[i] \in SUBSET Rows /\ Cardinality(s[i]) = c
    BY <1>2, <1>5
  <2> QED BY <2>1, SortedIsBijection
<1>7. ASSUME NEW i \in RankNumbers, NEW j \in 1..c
      PROVE  <<i, j>> \in places /\ f[<<i, j>>] = SortedRows(s[i])[j] /\ f[<<i, j>>] \in s[i]
  BY <1>6
<1>8. \A x \in places : \E i \in RankNumbers, j \in 1..c : x = <<i, j>>
  OBVIOUS
<1>9. f \in [places -> Rows]
  <2>1. \A x \in places : f[x] \in Rows
    BY <1>2, <1>7, <1>8
  <2> QED BY <2>1
<1> HIDE DEF f
<1>10. \A r \in Rows : \E x \in places : f[x] = r
  <2> SUFFICES ASSUME NEW r \in Rows PROVE \E x \in places : f[x] = r
    OBVIOUS
  <2>1. PICK i \in RankNumbers : r \in s[i]
    BY <1>3
  <2>2. PICK j \in 1..c : SortedRows(s[i])[j] = r
    BY <1>6, <2>1
  <2> QED BY <1>7, <2>2
<1>11. \A x, y \in places : f[x] = f[y] => x = y
  <2> SUFFICES ASSUME NEW i \in RankNumbers, NEW j \in 1..c, NEW k \in RankNumbers, NEW l \in 1..c,
                      f[<<i, j>>] = f[<<k, l>>]
               PROVE  i = k /\ j = l
    BY <1>8
  <2>1. i = k
    BY <1>2, <1>4, <1>7
  <2> QED BY <1>6, <1>7, <2>1
<1>12. IsFiniteSet(places) /\ Cardinality(places) = world_size * c
  <2>1. IsFiniteSet(RankNumbers) /\ Cardinality(RankNumbers) = world_size
    <3>1. 1 \in Int /\ world_size \in Int /\ (IF 1 > world_size THEN 0 ELSE world_size - 1 + 1) = world_size
      BY Sizes
    <3> QED BY <3>1, FS_Interval DEF RankNumbers
  <2>2. IsFiniteSet(1..c) /\ Cardinality(1..c) = c
    <3>1. 1 \in Int /\ c \in Int /\ (IF 1 > c THEN 0 ELSE c - 1 + 1) = c
      OBVIOUS
    <3> QED BY <3>1, FS_Interval
  <2> QED BY <2>1, <2>2, FS_Product
<1>13. f \in Bijection(places, Rows)
  <2> HIDE DEF places
  <2> QED BY <1>9, <1>10, <1>11 DEF Bijection, Injection, Surjection, IsInjective
<1>14. Cardinality(Rows) = world_size * c
  <2> HIDE DEF places
  <2> QED BY <1>12, <1>13, FS_Bijection DEF ExistsBijection
<1>15. c = RankSize
  <2>1. PICK w \in Nat \ {0}, d \in Nat : w = world_size /\ d = RankSize
    BY Sizes
  <2>2. w * c = w * d
    BY <1>14, <2>1, Sizes
  <2>3. ~(c < d)
    <3> SUFFICES ASSUME c < d PROVE FALSE
      OBVIOUS
    <3>1. PICK e \in Nat : d = c + 1 + e
      BY <2>1
    <3>2. w * d = w * c + w + w * e /\ w * e \in Nat /\ w * c \in Nat
      BY <2>1, <3>1
    <3> QED BY <2>1, <2>2, <3>2
  <2>4. ~(d < c)
    <3> SUFFICES ASSUME d < c PROVE FALSE
      OBVIOUS
    <3>1. PICK e \in Nat : c = d + 1 + e
      BY <2>1
    <3>2. w * c = w * d + w + w * e /\ w * e \in Nat /\ w * d \in Nat
      BY <2>1, <3>1
    <3> QED BY <2>1, <2>2, <3>2
  <2> QED BY <2>1, <2>3, <2>4
<1> QED BY <1>2, <1>3, <1>4, <1>5, <1>15

\* Reorder lists each row once more: row j of the zigzag of rank k at (k - 1) * size + j.
LEMMA ReorderIsOnto ==
    ASSUME workload \in [Rows -> Nat], NEW S, Partition(S), Cardinality(S) = 1, NEW s \in S
    PROVE  LET o == [i \in Rows |->
                       Zigzag(SortedRows(s[(i - 1) \div RankSize + 1]))[((i - 1) % RankSize) + 1]]
           IN  /\ o \in [Rows -> Rows] /\ \A r \in Rows : \E i \in Rows : o[i] = r
               /\ \A k \in RankNumbers :
                     {o[i] : i \in (k - 1) * RankSize + 1..k * RankSize} = s[k]
<1> DEFINE listed(k) == Zigzag(SortedRows(s[k]))
           o == [i \in Rows |-> listed((i - 1) \div RankSize + 1)[((i - 1) % RankSize) + 1]]
<1>1. PICK w \in Nat \ {0}, d \in Nat \ {0}, b \in Nat \ {0} :
        w = world_size /\ d = RankSize /\ b = BatchSize /\ b = w * d
  <2>1. RankSize # 0
    BY Sizes
  <2> QED BY <2>1, Sizes
<1>2. ASSUME NEW k \in 1..w
      PROVE  /\ listed(k) \in [1..d -> s[k]] /\ s[k] \subseteq Rows
             /\ \A r \in s[k] : \E j \in 1..d : listed(k)[j] = r
  <2>1. s[k] \in SUBSET Rows /\ Cardinality(s[k]) = d
    BY <1>1, RanksOfEqualSize DEF RankNumbers
  <2>2. /\ SortedRows(s[k]) \in [1..d -> s[k]]
        /\ \A r \in s[k] : \E j \in 1..d : SortedRows(s[k])[j] = r
    BY <2>1, SortedIsBijection
  <2>3. SortedRows(s[k]) \in [1..d -> Rows]
    BY <2>1, <2>2
  <2>4. /\ listed(k) \in [1..d -> Rows]
        /\ \A j \in 1..d : \E i \in 1..d : listed(k)[i] = SortedRows(s[k])[j]
        /\ \A i \in 1..d : \E j \in 1..d : listed(k)[i] = SortedRows(s[k])[j]
    BY <1>1, <2>3, ZigzagOnto
  <2> HIDE DEF listed
  <2>5. \A i \in 1..d : listed(k)[i] \in s[k]
    BY <2>2, <2>4
  <2>6. listed(k) \in [1..d -> s[k]]
    BY <2>4, <2>5
  <2>7. ASSUME NEW r \in s[k] PROVE \E j \in 1..d : listed(k)[j] = r
    <3>1. PICK j \in 1..d : SortedRows(s[k])[j] = r
      BY <2>2
    <3> QED BY <2>4, <3>1
  <2> QED BY <2>1, <2>6, <2>7
<1> HIDE DEF listed
<1>3. ASSUME NEW i \in Rows PROVE ((i - 1) \div d) + 1 \in 1..w /\ ((i - 1) % d) + 1 \in 1..d
  <2>1. PICK x \in Nat : x = i - 1 /\ x < b
    BY <1>1 DEF Rows
  <2>2. PICK q \in Nat, m \in 0..d - 1 : x \div d = q /\ x % d = m /\ x = d * q + m
    <3>1. x \div d \in Nat /\ x % d \in 0..d - 1 /\ x = d * (x \div d) + (x % d)
      BY <1>1, Division
    <3> QED BY <3>1
  <2>3. q < w
    <3> SUFFICES ASSUME q >= w PROVE FALSE
      BY <1>1, <2>2
    <3>1. PICK e \in Nat : q = w + e
      BY <1>1, <2>2
    <3>2. d * q = w * d + d * e /\ d * e \in Nat
      BY <1>1, <3>1
    <3> QED BY <1>1, <2>1, <2>2, <3>2
  <2> QED BY <1>1, <2>1, <2>2, <2>3
<1>4. o \in [Rows -> Rows]
  <2>1. \A i \in Rows : listed((i - 1) \div d + 1)[((i - 1) % d) + 1] \in Rows
    BY <1>2, <1>3
  <2> QED BY <1>1, <2>1
<1>5. ASSUME NEW k \in 1..w, NEW j \in 1..d
      PROVE  d * (k - 1) + j \in Rows /\ o[d * (k - 1) + j] = listed(k)[j]
  <2>1. PICK a \in Nat, c \in 0..d - 1 : a = k - 1 /\ c = j - 1 /\ a + 1 <= w
    BY <1>1
  <2>2. d * a + c \in Nat /\ (d * a + c) \div d = a /\ (d * a + c) % d = c
    BY <1>1, <2>1, DivisionIsUnique
  <2>3. PICK x \in Nat : x = d * a + c /\ x \div d = a /\ x % d = c
    BY <2>2
  <2>4. x + 1 \in Rows
    <3>1. PICK e \in Nat : w = a + 1 + e
      BY <1>1, <2>1
    <3>2. w * d = d * a + d + d * e /\ d * e \in Nat /\ d * a \in Nat
      BY <1>1, <2>1, <3>1
    <3> QED BY <1>1, <2>1, <2>3, <3>2 DEF Rows
  <2>5. x + 1 - 1 = x /\ a + 1 = k /\ c + 1 = j /\ x + 1 = d * (k - 1) + j
    <3>1. d * a \in Nat
      BY <1>1, <2>1
    <3> QED BY <1>1, <2>1, <2>3, <3>1
  <2>6. o[x + 1] = listed(a + 1)[c + 1]
    BY <1>1, <2>3, <2>4, <2>5
  <2> QED BY <2>4, <2>5, <2>6
<1>6. ASSUME NEW k \in 1..w, NEW i PROVE i \in (k - 1) * d + 1..k * d <=> \E j \in 1..d : i = d * (k - 1) + j
  <2>1. PICK m \in Nat : m = (k - 1) * d /\ m = d * (k - 1) /\ k * d = m + d
    <3>1. PICK a \in Nat : k = a + 1
      BY <1>1
    <3>2. (a + 1) * d = a * d + d /\ a * d = d * a /\ a * d \in Nat /\ a + 1 - 1 = a
      BY <1>1, <3>1
    <3> QED BY <1>1, <3>1, <3>2
  <2>2. i \in m + 1..m + d <=> \E j \in 1..d : i = m + j
    <3>1. i \in m + 1..m + d => i - m \in 1..d /\ i = m + (i - m)
      BY <1>1, <2>1
    <3>2. \A j \in 1..d : m + j \in m + 1..m + d
      BY <1>1, <2>1
    <3> QED BY <3>1, <3>2
  <2> QED BY <2>1, <2>2
<1> HIDE DEF o
<1>7. ASSUME NEW k \in 1..w PROVE {o[i] : i \in (k - 1) * d + 1..k * d} = s[k]
  <2>1. ASSUME NEW i \in (k - 1) * d + 1..k * d PROVE o[i] \in s[k]
    <3>1. PICK j \in 1..d : i = d * (k - 1) + j
      BY <1>6
    <3>2. o[i] = listed(k)[j]
      BY <1>5, <3>1
    <3>3. listed(k) \in [1..d -> s[k]]
      BY <1>2
    <3> QED BY <3>2, <3>3
  <2>2. ASSUME NEW r \in s[k] PROVE \E i \in (k - 1) * d + 1..k * d : o[i] = r
    <3>1. PICK j \in 1..d : listed(k)[j] = r
      BY <1>2
    <3>2. d * (k - 1) + j \in (k - 1) * d + 1..k * d
      BY <1>6
    <3> QED BY <1>5, <3>1, <3>2
  <2> QED BY <2>1, <2>2
<1>8. ASSUME NEW r \in Rows PROVE \E i \in Rows : o[i] = r
  <2>1. PICK k \in 1..w : r \in s[k]
    BY <1>1, RanksOfEqualSize DEF RankNumbers
  <2>2. PICK j \in 1..d : listed(k)[j] = r
    BY <1>2, <2>1
  <2> QED BY <1>5, <2>2
<1> QED BY <1>1, <1>4, <1>7, <1>8 DEF listed, o, RankNumbers

-----------------------------------------------------------------------------
(* The step: the order names every row, and each column is on the order its *)
(* values were computed from.                                               *)

DataInv ==
    /\ setting \in Settings
    /\ stage \in {"generated", "balancing", "rewarding", "adv", "done"}
    /\ workload \in [Rows -> Nat]
    /\ stage # "balancing" => states_pq = {}
    /\ stage = "balancing" => setting.balance_batch
    /\ states_pq # {} => Partition(states_pq)

Identity == [i \in Rows |-> i]
OrderInv ==
    /\ order \in [Rows -> Rows]
    /\ \A r \in Rows : \E i \in Rows : order[i] = r
    /\ stage \in {"generated", "balancing"} \/ ~setting.balance_batch => order = Identity
ColumnsInv ==
    /\ reward_tensor = <<>> \/ reward_tensor \in [Rows -> Rows]
    /\ token_level_scores = <<>> \/ token_level_scores \in [Rows -> Rows]
    /\ LaunchedEarly /\ stage # "generated" => reward_tensor = Identity
    /\ ~LaunchedEarly /\ stage \in {"adv", "done"} => reward_tensor = order
    /\ stage = "done" => token_level_scores = reward_tensor

StepInv == DataInv /\ OrderInv /\ ColumnsInv

LEMMA StepInvInit == DataflowInit => StepInv
<1> SUFFICES ASSUME DataflowInit PROVE StepInv
  OBVIOUS
<1>1. workload \in [Rows -> Nat]
  <2>1. PICK seqlen \in [Rows -> SeqLens] : workload = [r \in Rows |-> calculate_workload(seqlen[r])]
    BY DEF DataflowInit
  <2>2. ASSUME NEW r \in Rows PROVE calculate_workload(seqlen[r]) \in Nat
    <3>1. PICK x \in Nat : x = seqlen[r]
      BY StepDataflowAssumption
    <3>2. x * x \in Nat /\ 24576 * x \in Nat
      OBVIOUS
    <3> QED BY <3>1, <3>2 DEF calculate_workload
  <2> QED BY <2>1, <2>2
<1>2. DataInv
  BY <1>1 DEF DataflowInit, DataInv
<1>3. OrderInv
  <2>1. order = Identity
    BY DEF DataflowInit, Identity
  <2>2. Identity \in [Rows -> Rows] /\ \A r \in Rows : Identity[r] = r
    BY DEF Identity
  <2> QED BY <2>1, <2>2 DEF OrderInv
<1>4. ColumnsInv
  BY DEF DataflowInit, ColumnsInv
<1> QED BY <1>2, <1>3, <1>4 DEF StepInv

LEMMA StepInvKept == StepInv /\ DataflowNext => StepInv'
<1> SUFFICES ASSUME StepInv, DataflowNext PROVE StepInv'
  OBVIOUS
<1> USE DEF StepInv
<1>1. CASE Generated
  <2>1. DataInv'
    BY <1>1 DEF Generated, DataInv
  <2>2. OrderInv'
    BY <1>1 DEF Generated, OrderInv
  <2>3. ColumnsInv'
    BY <1>1 DEF Generated, OrderInv, ColumnsInv, LaunchedEarly
  <2> QED BY <2>1, <2>2, <2>3
<1>2. CASE StartBalance
  <2>1. Partition(Chunks)
    BY ChunksPartition DEF DataInv
  <2>2. DataInv'
    <3>1. Partition(states_pq')
      BY <1>2, <2>1 DEF StartBalance
    <3>2. Partition(states_pq)' <=> Partition(states_pq')
      BY DEF Partition, HeapStates, EqualSizes, ApartIn, AllIn
    <3> QED BY <1>2, <3>1, <3>2 DEF StartBalance, DataInv
  <2>3. OrderInv' /\ ColumnsInv'
    BY <1>2 DEF StartBalance, OrderInv, ColumnsInv, LaunchedEarly
  <2> QED BY <2>2, <2>3
<1>3. CASE Merge
  <2>1. PICK s0 \in LargestSpread(states_pq) :
          \E s1 \in LargestSpread(states_pq \ {s0}) :
          \E merged \in Orderings([i \in 1..world_size |-> s0[i] \union s1[Partner(i)]]) :
             states_pq' = (states_pq \ {s0, s1}) \union {merged}
    BY <1>3 DEF Merge
  <2>2. PICK s1 \in LargestSpread(states_pq \ {s0}) :
          \E merged \in Orderings([i \in 1..world_size |-> s0[i] \union s1[Partner(i)]]) :
             states_pq' = (states_pq \ {s0, s1}) \union {merged}
    BY <2>1
  <2>3. PICK merged \in Orderings([i \in 1..world_size |-> s0[i] \union s1[Partner(i)]]) :
             states_pq' = (states_pq \ {s0, s1}) \union {merged}
    BY <2>2
  <2>4. s0 \in states_pq /\ s1 \in states_pq \ {s0}
    BY <2>1, <2>2 DEF LargestSpread
  <2>5. Partition(states_pq)
    BY <2>4 DEF DataInv
  <2>6. Partition(states_pq')
    BY <2>3, <2>4, <2>5, MergeKeepsPartition
  <2>7. DataInv'
    BY <1>3, <2>6 DEF Merge, DataInv
  <2>8. OrderInv' /\ ColumnsInv'
    BY <1>3 DEF Merge, OrderInv, ColumnsInv, LaunchedEarly
  <2> QED BY <2>7, <2>8
<1>4. CASE Reorder
  <2>1. PICK s \in states_pq :
          order' = [i \in Rows |->
                      Zigzag(SortedRows(s[(i - 1) \div RankSize + 1]))[((i - 1) % RankSize) + 1]]
    BY <1>4 DEF Reorder, RankSize
  <2>2. Partition(states_pq) /\ Cardinality(states_pq) = 1 /\ workload \in [Rows -> Nat]
    BY <1>4, <2>1 DEF Reorder, DataInv
  <2>3. order' \in [Rows -> Rows] /\ \A r \in Rows : \E i \in Rows : order'[i] = r
    BY <2>1, <2>2, ReorderIsOnto
  <2>4. DataInv'
    BY <1>4 DEF Reorder, DataInv
  <2>5. OrderInv'
    BY <1>4, <2>3 DEF Reorder, DataInv, OrderInv
  <2>6. ColumnsInv'
    BY <1>4 DEF Reorder, ColumnsInv, LaunchedEarly
  <2> QED BY <2>4, <2>5, <2>6
<1>5. CASE ComputeReward
  <2>1. DataInv'
    BY <1>5 DEF ComputeReward, DataInv
  <2>2. OrderInv'
    BY <1>5 DEF ComputeReward, OrderInv
  <2>3. ColumnsInv'
    BY <1>5 DEF ComputeReward, OrderInv, ColumnsInv, LaunchedEarly
  <2> QED BY <2>1, <2>2, <2>3
<1>6. CASE SetScores
  <2>1. DataInv'
    BY <1>6 DEF SetScores, DataInv
  <2>2. OrderInv'
    BY <1>6 DEF SetScores, OrderInv
  <2>3. ColumnsInv'
    BY <1>6 DEF SetScores, ColumnsInv, LaunchedEarly
  <2> QED BY <2>1, <2>2, <2>3
<1>7. CASE StepOver
  BY <1>7 DEF StepOver, dataflowVars, DataInv, OrderInv, ColumnsInv, LaunchedEarly
<1> QED BY <1>1, <1>2, <1>3, <1>4, <1>5, <1>6, <1>7 DEF DataflowNext, DataflowStep

LEMMA StepInvStutter == StepInv /\ UNCHANGED dataflowVars => StepInv'
  BY DEF StepInv, dataflowVars, DataInv, OrderInv, ColumnsInv, LaunchedEarly

LEMMA StepInvAlways == DataflowSpec => []StepInv
<1>1. StepInv /\ [DataflowNext]_dataflowVars => StepInv'
  BY StepInvKept, StepInvStutter
<1> QED BY StepInvInit, <1>1, PTL DEF DataflowSpec

\* Balancing the batch over the ranks loses and repeats no row: as there are as many
\* positions as rows, an order that lists each row lists it once (_balance_batch).
EveryRowKept == {order[i] : i \in Rows} = Rows
THEOREM EveryRowKeptCorrect == DataflowSpec => []EveryRowKept
<1>1. StepInv => EveryRowKept
  BY DEF StepInv, OrderInv, EveryRowKept
<1> QED BY StepInvAlways, <1>1, PTL

\* Each row is trained with its own reward, compared with the rewards of the responses
\* to its prompt, in every setting but one (fit and compute_grpo_outcome_advantage).
THEOREM AdvantagesKeptUnlessEarlyCorrect == DataflowSpec => []AdvantagesKeptUnlessEarly
<1>1. StepInv => AdvantagesKeptUnlessEarly
  <2> SUFFICES ASSUME StepInv, ~(setting.pipelined /\ setting.launch_reward_fn_async /\ setting.balance_batch),
                      stage = "done", NEW i \in Rows
               PROVE  Advantage(i) = [score |-> order[i],
                                      group |-> {r \in Rows : repeat(r) = repeat(order[i])}]
    BY DEF AdvantagesKeptUnlessEarly, AdvantagesKept
  <2>1. order \in [Rows -> Rows] /\ \A r \in Rows : \E k \in Rows : order[k] = r
    BY DEF StepInv, OrderInv
  <2>2. token_level_scores = order
    <3>1. CASE LaunchedEarly
      BY <3>1 DEF StepInv, OrderInv, ColumnsInv, LaunchedEarly
    <3>2. CASE ~LaunchedEarly
      BY <3>2 DEF StepInv, ColumnsInv
    <3> QED BY <3>1, <3>2
  <2>3. {order[j] : j \in {k \in Rows : repeat(order[k]) = repeat(order[i])}}
          = {r \in Rows : repeat(r) = repeat(order[i])}
    BY <2>1
  <2> QED BY <2>2, <2>3 DEF Advantage
<1> QED BY StepInvAlways, <1>1, PTL

\* DataflowTypeOK always holds.
THEOREM DataflowTypeCorrect == DataflowSpec => []DataflowTypeOK
<1>1. StepInv => DataflowTypeOK
  <2> SUFFICES ASSUME StepInv PROVE DataflowTypeOK
    OBVIOUS
  <2>1. ASSUME NEW s \in states_pq PROVE s \in Seq(SUBSET Rows) /\ Len(s) = world_size
    <3>1. s \in [1..world_size -> SUBSET Rows]
      BY <2>1 DEF StepInv, DataInv, Partition, HeapStates, RankNumbers
    <3> QED BY <3>1, Sizes
  <2>2. \A f \in [Rows -> Rows] : f \in Seq(Rows) /\ Len(f) = BatchSize
    BY Sizes DEF Rows
  <2>3. <<>> \in Seq(Rows)
    OBVIOUS
  <2>4. order \in Seq(Rows) /\ Len(order) = BatchSize
    BY <2>2 DEF StepInv, OrderInv
  <2>5. reward_tensor \in Seq(Rows)
    BY <2>2, <2>3 DEF StepInv, ColumnsInv
  <2>6. token_level_scores \in Seq(Rows)
    BY <2>2, <2>3 DEF StepInv, ColumnsInv
  <2> QED BY <2>1, <2>4, <2>5, <2>6 DEF StepInv, DataInv, DataflowTypeOK
<1> QED BY StepInvAlways, <1>1, PTL

-----------------------------------------------------------------------------
(* The work of the ranks: merging keeps each state of the heap as even as   *)
(* the chunks were, and the last one becomes the order of the batch.        *)

LEMMA SumsOfRows ==
    ASSUME workload \in [Rows -> Nat]
    PROVE  /\ \A A \in SUBSET Rows : SumOf(A) \in Int
           /\ \A r \in Rows : SumOf({r}) = workload[r]
           /\ \A A, B \in SUBSET Rows : A \intersect B = {} => SumOf(A \union B) = SumOf(A) + SumOf(B)
<1>1. IsFiniteSet(Rows) /\ workload \in [Rows -> Int]
  BY Sizes
<1>2. \A A \in SUBSET Rows : SumOf(A) \in Int
  BY <1>1, SumOfChosen DEF SumOf
<1>3. \A r \in Rows : SumOf({r}) = workload[r]
  BY <1>1, SumOfOne DEF SumOf
<1>4. \A A, B \in SUBSET Rows : A \intersect B = {} => SumOf(A \union B) = SumOf(A) + SumOf(B)
  BY <1>1, SumOfUnion DEF SumOf
<1> QED BY <1>2, <1>3, <1>4

\* What the heap promises of the work of the sets of a state.
Even(s) == Decreasing(s) /\ Spread(s) <= WidestChunk

LEMMA ChunksEven ==
    ASSUME workload \in [Rows -> Nat]
    PROVE  WidestChunk \in Int /\ \A s \in Chunks : Even(s)
<1>1. Partition(Chunks)
  BY ChunksPartition
<1>2. \A s \in Chunks, i \in RankNumbers : s[i] \in SUBSET Rows
  BY <1>1 DEF Partition, HeapStates
<1>3. 1 \in RankNumbers /\ world_size \in RankNumbers /\ 1 \in Rows
  BY Sizes DEF RankNumbers, Rows
<1> DEFINE spreads == {Spread(s) : s \in Chunks}
<1>4. \A s \in Chunks : Spread(s) \in Int
  BY <1>2, <1>3, SumsOfRows DEF Spread
<1>5. IsFiniteSet(spreads) /\ spreads \in SUBSET Int /\ spreads # {}
  <2>1. IsFiniteSet(Chunks)
    BY <1>1 DEF Partition
  <2>2. IsFiniteSet(spreads)
    <3> DEFINE f == [s \in Chunks |-> Spread(s)]
    <3>1. f \in [Chunks -> spreads] /\ \A d \in spreads : \E s \in Chunks : f[s] = d
      OBVIOUS
    <3> HIDE DEF f, spreads
    <3>2. f \in Surjection(Chunks, spreads)
      BY <3>1 DEF Surjection
    <3> QED BY <2>1, <3>2, FS_Surjection
  <2>3. Chunks # {}
    BY <1>1, <1>3 DEF Partition, AllIn
  <2> QED BY <1>4, <2>2, <2>3
<1>6. WidestChunk \in spreads /\ \A s \in Chunks : Spread(s) <= WidestChunk
  <2>1. PICK d \in spreads : \A e \in spreads : e <= d
    BY <1>5, GreatestNumber
  <2>2. \A s \in Chunks : Spread(s) <= d
    BY <2>1
  <2> QED BY <2>2 DEF WidestChunk
<1>7. ASSUME NEW s \in Chunks, NEW i \in RankNumbers, NEW k \in RankNumbers, i < k
      PROVE  SumOf(s[i]) >= SumOf(s[k])
  <2> DEFINE sorted == SortedRows(Rows)
  <2>1. PICK c \in 1..RankSize : s = [j \in 1..world_size |-> {sorted[c * world_size + 1 - j]}]
    BY DEF Chunks, RankSize
  <2>2. /\ sorted \in [1..BatchSize -> Rows]
        /\ \A j, l \in 1..BatchSize : j < l => workload[sorted[j]] <= workload[sorted[l]]
    BY Sizes, SortedIsBijection
  <2> HIDE DEF sorted
  <2>3. PICK x \in 1..BatchSize, y \in 1..BatchSize :
          x = c * world_size + 1 - k /\ y = c * world_size + 1 - i /\ x < y
    <3>1. c * world_size + 1 - k \in 1..BatchSize /\ c * world_size + 1 - i \in 1..BatchSize
      BY ChunkPlaces DEF RankNumbers
    <3>2. PICK m \in Int : m = c * world_size
      BY Sizes
    <3> QED BY <1>7, <3>1, <3>2 DEF RankNumbers
  <2>4. s[i] = {sorted[y]} /\ s[k] = {sorted[x]} /\ sorted[x] \in Rows /\ sorted[y] \in Rows
    BY <2>1, <2>2, <2>3 DEF RankNumbers
  <2>5. SumOf(s[i]) = workload[sorted[y]] /\ SumOf(s[k]) = workload[sorted[x]]
    BY <2>4, SumsOfRows
  <2>6. workload[sorted[x]] <= workload[sorted[y]] /\ workload[sorted[x]] \in Int /\ workload[sorted[y]] \in Int
    BY <2>2, <2>3, <2>4
  <2> QED BY <2>5, <2>6
<1>8. \A s \in Chunks : Decreasing(s)
  BY <1>7 DEF Decreasing, RankNumbers
<1> QED BY <1>5, <1>6, <1>8 DEF Even

\* In an even state any two sets differ by no more than the first and the last.
LEMMA EvenSets ==
    ASSUME workload \in [Rows -> Nat], NEW s \in HeapStates, Even(s), WidestChunk \in Int,
           NEW i \in RankNumbers, NEW k \in RankNumbers
    PROVE  SumOf(s[i]) - SumOf(s[k]) <= WidestChunk
<1>1. 1 \in RankNumbers /\ world_size \in RankNumbers /\ 1 <= i /\ k <= world_size
  BY Sizes DEF RankNumbers
<1>2. \A j \in RankNumbers : SumOf(s[j]) \in Int
  BY SumsOfRows DEF HeapStates
<1>3. \A j, l \in RankNumbers : j < l => SumOf(s[j]) >= SumOf(s[l])
  BY DEF Even, Decreasing, RankNumbers
<1>4. SumOf(s[1]) >= SumOf(s[i]) /\ SumOf(s[k]) >= SumOf(s[world_size])
  <2>1. i \in Int /\ k \in Int /\ world_size \in Int
    BY Sizes DEF RankNumbers
  <2>2. (i = 1 \/ 1 < i) /\ (k = world_size \/ k < world_size)
    BY <1>1, <2>1
  <2>3. SumOf(s[1]) >= SumOf(s[i])
    BY <1>1, <1>2, <1>3, <2>2
  <2>4. SumOf(s[k]) >= SumOf(s[world_size])
    BY <1>1, <1>2, <1>3, <2>2
  <2> QED BY <2>3, <2>4
<1>5. SumOf(s[1]) - SumOf(s[world_size]) <= WidestChunk
  BY DEF Even, Spread
<1> QED BY <1>1, <1>2, <1>4, <1>5

\* The state that two even ones are merged to is even: where the sets of the one are
\* heavy those of the other are light.
LEMMA MergeKeepsEven ==
    ASSUME workload \in [Rows -> Nat], WidestChunk \in Int,
           NEW S, Partition(S), NEW s0 \in S, NEW s1 \in S \ {s0}, Even(s0), Even(s1),
           NEW merged \in Orderings([i \in 1..world_size |-> s0[i] \union s1[Partner(i)]])
    PROVE  Even(merged)
<1> DEFINE u == [i \in RankNumbers |-> s0[i] \union s1[Partner(i)]]
<1>1. PICK p \in Bijection(RankNumbers, RankNumbers) : merged = [i \in RankNumbers |-> u[p[i]]]
  BY DEF Orderings, RankNumbers
<1>2. Decreasing(merged)
  BY DEF Orderings
<1>3. 1 \in RankNumbers /\ world_size \in RankNumbers
  BY Sizes DEF RankNumbers
<1>4. PICK i \in RankNumbers, k \in RankNumbers : i = p[1] /\ k = p[world_size]
  BY <1>3 DEF Bijection, Injection
<1>5. /\ merged[1] = s0[i] \union s1[Partner(i)]
      /\ merged[world_size] = s0[k] \union s1[Partner(k)]
  BY <1>1, <1>3, <1>4
<1>6. s0 \in HeapStates /\ s1 \in HeapStates /\ s1 \in S /\ s0 # s1
  BY DEF Partition
<1>7. \A j \in RankNumbers : s0[j] \in SUBSET Rows /\ s1[j] \in SUBSET Rows
  BY <1>6 DEF HeapStates
<1>8. \A j, l \in RankNumbers : s0[j] \intersect s1[l] = {}
  BY <1>6, <1>7 DEF Partition, ApartIn
<1>9. \A j \in RankNumbers : Partner(j) \in RankNumbers
  BY Sizes DEF Partner, RankNumbers
<1>10. /\ SumOf(merged[1]) = SumOf(s0[i]) + SumOf(s1[Partner(i)])
       /\ SumOf(merged[world_size]) = SumOf(s0[k]) + SumOf(s1[Partner(k)])
  <2>1. ASSUME NEW j \in RankNumbers
        PROVE  SumOf(s0[j] \union s1[Partner(j)]) = SumOf(s0[j]) + SumOf(s1[Partner(j)])
    BY <1>7, <1>8, <1>9, SumsOfRows
  <2> QED BY <1>5, <2>1
<1> DEFINE a == SumOf(s0[i])
           b == SumOf(s0[k])
           c == SumOf(s1[Partner(i)])
           d == SumOf(s1[Partner(k)])
<1>11. a \in Int /\ b \in Int /\ c \in Int /\ d \in Int
  BY <1>7, <1>9, SumsOfRows
<1>12. a - b <= WidestChunk /\ c - d <= WidestChunk
  BY <1>6, <1>9, EvenSets
<1>13. (i = k \/ i < k \/ k < i) /\ (i < k => Partner(k) < Partner(i)) /\ (k < i => Partner(i) < Partner(k))
  BY Sizes DEF Partner, RankNumbers
<1>14. ASSUME NEW j \in RankNumbers, NEW l \in RankNumbers, j < l
       PROVE  SumOf(s0[j]) >= SumOf(s0[l]) /\ SumOf(s1[j]) >= SumOf(s1[l])
  BY <1>14 DEF Even, Decreasing, RankNumbers
<1>15. (i < k => c <= d) /\ (k < i => a <= b)
  <2>1. ASSUME i < k PROVE c <= d
    BY <1>9, <1>11, <1>13, <1>14, <2>1
  <2>2. ASSUME k < i PROVE a <= b
    BY <1>11, <1>14, <2>2
  <2> QED BY <2>1, <2>2
<1>16. Spread(merged) = (a + c) - (b + d)
  BY <1>10 DEF Spread
<1> HIDE DEF a, b, c, d
<1>17. i = k => a = b /\ c = d
  BY DEF a, b, c, d
<1>18. 0 <= WidestChunk
  <2>1. SumOf(s0[i]) - SumOf(s0[i]) <= WidestChunk
    BY <1>6, EvenSets
  <2> QED BY <1>11, <2>1 DEF a
<1>19. (a + c) - (b + d) <= WidestChunk
  BY <1>11, <1>12, <1>13, <1>15, <1>17, <1>18
<1> QED BY <1>2, <1>16, <1>19 DEF Even

\* The work of the ranks: that of the sets of the heap, then of the order made of them.
HeapEven == \A s \in states_pq : Even(s)
RanksEven ==
    stage = "rewarding" /\ setting.balance_batch =>
        \A k, l \in RankNumbers : SumOf(RowsOfRank(k)) - SumOf(RowsOfRank(l)) <= WidestChunk
BalanceInv == StepInv /\ HeapEven /\ RanksEven

LEMMA EvenKept ==
    ASSUME UNCHANGED workload
    PROVE  /\ WidestChunk' = WidestChunk
           /\ \A s : Even(s)' <=> Even(s)
           /\ \A rows : SumOf(rows)' = SumOf(rows)
<1>1. \A rows : SumOf(rows)' = SumOf(rows)
  BY DEF SumOf
<1>2. \A s : Spread(s)' = Spread(s)
  BY <1>1 DEF Spread
<1>3. \A s : Decreasing(s)' <=> Decreasing(s)
  BY <1>1 DEF Decreasing
<1>4. \A rows : SortedRows(rows)' = SortedRows(rows)
  BY DEF SortedRows, Before
<1>5. Chunks' = Chunks
  BY <1>4 DEF Chunks
<1>6. WidestChunk' = WidestChunk
  BY <1>2, <1>5 DEF WidestChunk
<1> QED BY <1>1, <1>2, <1>3, <1>6 DEF Even

LEMMA BalanceInvInit == DataflowInit => BalanceInv
  BY StepInvInit DEF DataflowInit, BalanceInv, HeapEven, RanksEven

\* A step that leaves the heap and the order alone and does not begin the rewards.
LEMMA BalanceKept ==
    ASSUME BalanceInv, StepInv', UNCHANGED <<workload, setting>>,
           states_pq' = states_pq \/ states_pq' = {},
           stage' = "rewarding" /\ setting.balance_batch => stage = "rewarding" /\ order' = order
    PROVE  BalanceInv'
<1>1. HeapEven'
  BY EvenKept DEF BalanceInv, HeapEven
<1>2. RanksEven'
  <2> SUFFICES ASSUME stage' = "rewarding", setting.balance_batch, NEW k \in RankNumbers, NEW l \in RankNumbers
               PROVE  (SumOf(RowsOfRank(k)) - SumOf(RowsOfRank(l)) <= WidestChunk)'
    BY DEF RanksEven
  <2>1. stage = "rewarding" /\ RowsOfRank(k)' = RowsOfRank(k) /\ RowsOfRank(l)' = RowsOfRank(l)
    BY DEF RowsOfRank
  <2>2. SumOf(RowsOfRank(k)) - SumOf(RowsOfRank(l)) <= WidestChunk
    BY <2>1 DEF BalanceInv, RanksEven
  <2>3. \A rows : SumOf(rows)' = SumOf(rows)
    BY EvenKept
  <2>4. WidestChunk' = WidestChunk
    BY EvenKept
  <2> QED BY <2>1, <2>2, <2>3, <2>4 DEF SumOf
<1> QED BY <1>1, <1>2 DEF BalanceInv

LEMMA BalanceInvKept == BalanceInv /\ DataflowNext => BalanceInv'
<1> SUFFICES ASSUME BalanceInv, DataflowNext PROVE BalanceInv'
  OBVIOUS
<1>1. StepInv /\ StepInv'
  BY StepInvKept DEF BalanceInv
<1>2. workload \in [Rows -> Nat]
  BY <1>1 DEF StepInv, DataInv
<1>3. WidestChunk \in Int /\ \A s \in Chunks : Even(s)
  BY <1>2, ChunksEven
<1>4. CASE Generated
  BY <1>1, <1>4, BalanceKept DEF Generated
<1>5. CASE StartBalance
  <2>1. HeapEven'
    BY <1>3, <1>5, EvenKept DEF StartBalance, HeapEven
  <2>2. RanksEven'
    BY <1>5 DEF StartBalance, RanksEven
  <2> QED BY <1>1, <2>1, <2>2 DEF BalanceInv
<1>6. CASE Merge
  <2>1. PICK s0 \in LargestSpread(states_pq) :
          \E s1 \in LargestSpread(states_pq \ {s0}) :
          \E merged \in Orderings([i \in 1..world_size |-> s0[i] \union s1[Partner(i)]]) :
             states_pq' = (states_pq \ {s0, s1}) \union {merged}
    BY <1>6 DEF Merge
  <2>2. PICK s1 \in LargestSpread(states_pq \ {s0}) :
          \E merged \in Orderings([i \in 1..world_size |-> s0[i] \union s1[Partner(i)]]) :
             states_pq' = (states_pq \ {s0, s1}) \union {merged}
    BY <2>1
  <2>3. PICK merged \in Orderings([i \in 1..world_size |-> s0[i] \union s1[Partner(i)]]) :
             states_pq' = (states_pq \ {s0, s1}) \union {merged}
    BY <2>2
  <2>4. s0 \in states_pq /\ s1 \in states_pq \ {s0}
    BY <2>1, <2>2 DEF LargestSpread
  <2>5. Partition(states_pq)
    BY <1>1, <2>4 DEF StepInv, DataInv
  <2>6. Even(s0) /\ Even(s1)
    BY <2>4 DEF BalanceInv, HeapEven
  <2>7. Even(merged)
    BY <1>2, <1>3, <2>3, <2>4, <2>5, <2>6, MergeKeepsEven
  <2>8. HeapEven'
    BY <1>6, <2>3, <2>7, EvenKept DEF Merge, BalanceInv, HeapEven
  <2>9. RanksEven'
    BY <1>6 DEF Merge, RanksEven
  <2> QED BY <1>1, <2>8, <2>9 DEF BalanceInv
<1>7. CASE Reorder
  <2>1. PICK s \in states_pq :
          order' = [i \in Rows |->
                      Zigzag(SortedRows(s[(i - 1) \div RankSize + 1]))[((i - 1) % RankSize) + 1]]
    BY <1>7 DEF Reorder, RankSize
  <2>2. Partition(states_pq) /\ Cardinality(states_pq) = 1 /\ s \in HeapStates /\ Even(s)
    BY <1>1, <1>7, <2>1 DEF Reorder, StepInv, DataInv, Partition, BalanceInv, HeapEven
  <2>3. \A k \in RankNumbers : {order'[i] : i \in (k - 1) * RankSize + 1..k * RankSize} = s[k]
    <3> DEFINE o == [i \in Rows |->
                       Zigzag(SortedRows(s[(i - 1) \div RankSize + 1]))[((i - 1) % RankSize) + 1]]
    <3>1. \A k \in RankNumbers : {o[i] : i \in (k - 1) * RankSize + 1..k * RankSize} = s[k]
      BY <1>2, <2>2, ReorderIsOnto
    <3>2. order' = o
      BY <2>1
    <3> HIDE DEF o
    <3> QED BY <3>1, <3>2
  <2>4. \A k \in RankNumbers : RowsOfRank(k)' = s[k]
    BY <2>3 DEF RowsOfRank, RankSize
  <2>5. \A k, l \in RankNumbers : SumOf(s[k]) - SumOf(s[l]) <= WidestChunk
    BY <1>2, <1>3, <2>2, EvenSets
  <2>6. UNCHANGED workload /\ states_pq' = {}
    BY <1>7 DEF Reorder
  <2>7. RanksEven'
    <3> SUFFICES ASSUME NEW k \in RankNumbers, NEW l \in RankNumbers
                 PROVE  (SumOf(RowsOfRank(k)) - SumOf(RowsOfRank(l)) <= WidestChunk)'
      BY DEF RanksEven
    <3>1. \A rows : SumOf(rows)' = SumOf(rows)
      BY <2>6, EvenKept
    <3>2. WidestChunk' = WidestChunk
      BY <2>6, EvenKept
    <3> QED BY <2>4, <2>5, <3>1, <3>2 DEF SumOf
  <2>8. HeapEven'
    BY <2>6 DEF HeapEven
  <2> QED BY <1>1, <2>7, <2>8 DEF BalanceInv
<1>8. CASE ComputeReward
  BY <1>1, <1>8, BalanceKept DEF ComputeReward
<1>9. CASE SetScores
  BY <1>1, <1>9, BalanceKept DEF SetScores
<1>10. CASE StepOver
  BY <1>1, <1>10, BalanceKept DEF StepOver, dataflowVars
<1> QED BY <1>4, <1>5, <1>6, <1>7, <1>8, <1>9, <1>10 DEF DataflowNext, DataflowStep

\* Balancing loses no row, and the work of two ranks differs by no more than that of the
\* first and the last of some world_size rows that are neighbours in length
\* (_balance_batch, karmarkar_karp with equal_size).
THEOREM RanksBalancedCorrect == DataflowSpec => []RanksBalanced
<1>1. BalanceInv /\ [DataflowNext]_dataflowVars => BalanceInv'
  <2>1. ASSUME BalanceInv, UNCHANGED dataflowVars PROVE BalanceInv'
    <3>1. StepInv'
      BY <2>1, StepInvStutter DEF BalanceInv
    <3> QED BY <2>1, <3>1, BalanceKept DEF dataflowVars
  <2> QED BY <2>1, BalanceInvKept
<1>2. BalanceInv => RanksBalanced
  <2> SUFFICES ASSUME BalanceInv, stage = "rewarding", setting.balance_batch PROVE RanksBalanced
    BY DEF RanksBalanced
  <2>1. {order[i] : i \in Rows} = Rows
    BY DEF BalanceInv, StepInv, OrderInv
  <2>2. \A k, l \in 1..world_size : SumOf(RowsOfRank(k)) - SumOf(RowsOfRank(l)) <= WidestChunk
    BY DEF BalanceInv, RanksEven, RankNumbers
  <2> QED BY <2>1, <2>2 DEF RanksBalanced
<1> QED BY BalanceInvInit, <1>1, <1>2, PTL DEF DataflowSpec
=============================================================================
