--------------------------- MODULE QueriesProofs ----------------------------
(***************************************************************************)
(* What the proofs about queries need: the sums of the community modules   *)
(* unfolded into what a sum is (they are defined by a recursive function   *)
(* whose existence has to be proved), and rows listed by ORDER BY.         *)
(* Induction is by a smallest counterexample: the set of sets, or numbers, *)
(* that violate a claim is called Bad and shown to be empty.               *)
(***************************************************************************)
EXTENDS Queries, SequencesExt, SequenceTheorems, FiniteSetTheorems, FunctionTheorems,
        WellFoundedInduction, TLAPS

\* The element that FoldFunctionOnSet() takes first.
Chosen(S) == CHOOSE x \in S : TRUE

\* sum is the recursive function of MapThenFoldSet() on the parts of S.
Sums(sum, f, S) ==
  sum = [s \in SUBSET S |-> IF s = {} THEN 0 ELSE f[Chosen(s)] + sum[s \ {Chosen(s)}]]

\* The sum is what that function says of the whole set.
LEMMA SumIs ==
  ASSUME NEW f, NEW S
  PROVE  SumFunctionOnSet(f, S) = (CHOOSE sum : Sums(sum, f, S))[S]
BY DEF SumFunctionOnSet, FoldFunctionOnSet, MapThenFoldSet, Sums, Chosen

----------------------------------------------------------------------------
(* Finite sets *)

\* The order of the naturals as a set of pairs.
LessThan == {p \in Nat \X Nat : p[1] < p[2]}

\* A set of naturals has a least element.
LEMMA Least ==
  ASSUME NEW S, S \subseteq Nat, S # {}
  PROVE  \E n \in S : \A m \in S : n <= m
<1>1. IsWellFoundedOn(LessThan, Nat)
  <2>1. LessThan = OpToRel(<, Nat)
    BY DEF LessThan, OpToRel
  <2> QED
    BY <2>1, NatLessThanWellFounded
<1>2. PICK n \in S : \A m \in S : ~(<<m, n>> \in LessThan)
  BY <1>1, WFMin, Zenon
<1>3. ASSUME NEW m \in S PROVE n <= m
  <2>1. /\ m \in Nat /\ n \in Nat
        /\ <<m, n>> \in Nat \X Nat
    OBVIOUS
  <2>2. ~(m < n)
    BY <1>2, <2>1 DEF LessThan
  <2> QED
    BY <2>1, <2>2
<1> QED
  BY <1>3

\* A bounded one has a greatest.
LEMMA Greatest ==
  ASSUME NEW n \in Nat, NEW S, S \subseteq 0 .. n, S # {}
  PROVE  Max(S) \in S /\ \A m \in S : m <= Max(S)
<1> DEFINE rest == {n - m : m \in S}
<1>1. S \subseteq Nat /\ \A m \in S : n - m \in Nat
  OBVIOUS
<1>2. rest \subseteq Nat /\ rest # {}
  BY <1>1
<1>3. PICK r \in rest : \A q \in rest : r <= q
  <2> HIDE DEF rest
  <2> QED
    BY <1>2, Least
<1>4. PICK x \in S : r = n - x
  OBVIOUS
<1>5. ASSUME NEW m \in S PROVE x >= m
  <2>1. n - x <= n - m
    BY <1>3, <1>4
  <2> HIDE DEF rest
  <2>2. x \in Int /\ m \in Int
    BY <1>1, <1>4
  <2> QED
    BY <2>1, <2>2
<1>6. Max(S) \in S /\ \A m \in S : Max(S) >= m
  <2>1. \E y \in S : \A m \in S : y >= m
    BY <1>5
  <2> HIDE DEF rest
  <2> QED
    BY <2>1 DEF Max
<1> QED
  BY <1>1, <1>6

\* Among finite sets there is one of the least size.
LEMMA Smallest ==
  ASSUME NEW C, C # {}, \A T \in C : IsFiniteSet(T)
  PROVE  \E T \in C : \A U \in C : Cardinality(T) <= Cardinality(U)
<1> DEFINE sizes == {Cardinality(T) : T \in C}
<1>1. sizes \subseteq Nat /\ sizes # {}
  BY FS_CardinalityType
<1>2. PICK n \in sizes : \A m \in sizes : n <= m
  <2> HIDE DEF sizes
  <2> QED
    BY <1>1, Least
<1> QED
  BY <1>2

\* A part of a finite set without one of its elements is smaller.
LEMMA Smaller ==
  ASSUME NEW S, IsFiniteSet(S), NEW x \in S
  PROVE  /\ IsFiniteSet(S \ {x})
         /\ Cardinality(S) \in Nat /\ Cardinality(S \ {x}) \in Nat
         /\ Cardinality(S \ {x}) < Cardinality(S)
<1>1. IsFiniteSet(S \ {x}) /\ Cardinality(S \ {x}) = Cardinality(S) - 1
  BY FS_RemoveElement
<1>2. Cardinality(S) \in Nat
  BY FS_CardinalityType
<1>3. Cardinality(S \ {x}) \in Nat
  BY <1>1, FS_CardinalityType
<1> QED
  BY <1>1, <1>2, <1>3

----------------------------------------------------------------------------
(* Sums over a set *)

\* Where two of the recursive functions are defined, they agree.
LEMMA SumsAgree ==
  ASSUME NEW f, NEW S, NEW T, IsFiniteSet(S), IsFiniteSet(T),
         NEW g, Sums(g, f, S), NEW h, Sums(h, f, T)
  PROVE  \A s \in SUBSET (S \cap T) : g[s] = h[s]
<1> DEFINE Bad == {s \in SUBSET (S \cap T) : g[s] # h[s]}
<1>1. ASSUME Bad # {} PROVE FALSE
  <2>1. \A s \in Bad : IsFiniteSet(s)
    BY FS_Subset
  <2>2. PICK s \in Bad : \A u \in Bad : Cardinality(s) <= Cardinality(u)
    <3> HIDE DEF Bad
    <3> QED
      BY <1>1, <2>1, Smallest
  <2>3. /\ g[s] = IF s = {} THEN 0 ELSE f[Chosen(s)] + g[s \ {Chosen(s)}]
        /\ h[s] = IF s = {} THEN 0 ELSE f[Chosen(s)] + h[s \ {Chosen(s)}]
    BY DEF Sums
  <2>4. s # {}
    BY <2>3
  <2>5. Chosen(s) \in s
    BY <2>4 DEF Chosen
  <2>6. s \ {Chosen(s)} \notin Bad
    BY <2>1, <2>2, <2>5, Smaller
  <2> QED
    BY <2>3, <2>4, <2>6
<1> QED
  BY <1>1

\* The recursive function exists.
LEMMA SumsExist ==
  ASSUME NEW f, NEW D, IsFiniteSet(D)
  PROVE  \E g : Sums(g, f, D)
<1> DEFINE Bad == {s \in SUBSET D : ~ \E g : Sums(g, f, s)}
<1>1. ASSUME Bad # {} PROVE FALSE
  <2>1. \A s \in SUBSET D : IsFiniteSet(s)
    BY FS_Subset
  <2>2. PICK T \in Bad : \A u \in Bad : Cardinality(T) <= Cardinality(u)
    <3> HIDE DEF Bad
    <3> QED
      BY <1>1, <2>1, Smallest DEF Bad
  <2> DEFINE part(s) == CHOOSE g : Sums(g, f, s)
             value(s) == part(s)[s]
             whole == [s \in SUBSET T |->
                         IF s = {} THEN 0 ELSE f[Chosen(s)] + value(s \ {Chosen(s)})]
  <2>3. ASSUME NEW s \in SUBSET T, s # T PROVE Sums(part(s), f, s)
    <3>1. PICK x \in T : x \notin s
      BY <2>3
    <3>2. s \in SUBSET (T \ {x}) /\ IsFiniteSet(T \ {x})
      BY <2>1, <3>1, Smaller
    <3>3. Cardinality(s) <= Cardinality(T \ {x}) /\ Cardinality(s) \in Nat
      BY <3>2, FS_Subset, FS_CardinalityType
    <3>4. s \notin Bad
      BY <2>1, <2>2, <3>3, Smaller
    <3> QED
      BY <3>4
  <2>4. ASSUME NEW s \in SUBSET T, s # {} PROVE value(s \ {Chosen(s)}) = whole[s \ {Chosen(s)}]
    <3> DEFINE u == s \ {Chosen(s)}
    <3>1. u \in SUBSET T /\ u # T
      BY <2>4 DEF Chosen
    <3>2. Sums(part(u), f, u)
      BY <2>3, <3>1
    <3>3. value(u) = IF u = {} THEN 0 ELSE f[Chosen(u)] + part(u)[u \ {Chosen(u)}]
      BY <3>2 DEF Sums
    <3>4. CASE u = {}
      BY <3>1, <3>3, <3>4
    <3>5. CASE u # {}
      <4> DEFINE v == u \ {Chosen(u)}
      <4>1. v \in SUBSET T /\ v # T /\ v \in SUBSET (u \cap v)
        BY <3>1
      <4>2. Sums(part(v), f, v)
        BY <2>3, <4>1
      <4>3. IsFiniteSet(u) /\ IsFiniteSet(v)
        BY <2>1, <3>1, <4>1
      <4> HIDE DEF u, v, part
      <4>4. part(u)[v] = part(v)[v]
        BY <3>2, <4>1, <4>2, <4>3, SumsAgree
      <4>5. whole[u] = f[Chosen(u)] + part(v)[v]
        BY <3>1, <3>5 DEF v
      <4> QED
        BY <3>3, <3>5, <4>4, <4>5 DEF u, v
    <3> QED
      BY <3>4, <3>5
  <2>5. whole = [s \in SUBSET T |->
                   IF s = {} THEN 0 ELSE f[Chosen(s)] + whole[s \ {Chosen(s)}]]
    <3>1. \A s \in SUBSET T :
            (IF s = {} THEN 0 ELSE f[Chosen(s)] + value(s \ {Chosen(s)}))
              = IF s = {} THEN 0 ELSE f[Chosen(s)] + whole[s \ {Chosen(s)}]
      <4> HIDE DEF value, whole
      <4> QED
        BY <2>4
    <3> HIDE DEF value
    <3> QED
      BY <3>1
  <2>6. Sums(whole, f, T)
    <3> HIDE DEF value
    <3> QED
      BY <2>5 DEF Sums
  <2> QED
    BY <2>6
<1> QED
  BY <1>1

\* A sum is one of its values added to the sum of the others.
LEMMA SumUnfolds ==
  ASSUME NEW f, NEW S, IsFiniteSet(S)
  PROVE  SumFunctionOnSet(f, S) =
           IF S = {} THEN 0 ELSE f[Chosen(S)] + SumFunctionOnSet(f, S \ {Chosen(S)})
<1> DEFINE rest == S \ {Chosen(S)}
           sum(T) == CHOOSE g : Sums(g, f, T)
<1>1. IsFiniteSet(rest)
  BY FS_Subset
<1>2. Sums(sum(S), f, S) /\ Sums(sum(rest), f, rest)
  BY <1>1, SumsExist
<1>3. sum(S)[S] = IF S = {} THEN 0 ELSE f[Chosen(S)] + sum(S)[rest]
  BY <1>2 DEF Sums
<1>4. sum(S)[rest] = sum(rest)[rest]
  <2> HIDE DEF sum
  <2>1. rest \in SUBSET (S \cap rest)
    OBVIOUS
  <2> HIDE DEF rest
  <2> QED
    BY <1>1, <1>2, <2>1, SumsAgree
<1> QED
  BY <1>3, <1>4, SumIs

\* A sum of naturals is a natural.
LEMMA SumType ==
  ASSUME NEW D, IsFiniteSet(D), NEW f \in [D -> Nat], NEW S \in SUBSET D
  PROVE  SumFunctionOnSet(f, S) \in Nat
<1> DEFINE Bad == {s \in SUBSET D : SumFunctionOnSet(f, s) \notin Nat}
<1>1. ASSUME Bad # {} PROVE FALSE
  <2>1. \A s \in Bad : IsFiniteSet(s)
    BY FS_Subset
  <2>2. PICK s \in Bad : \A u \in Bad : Cardinality(s) <= Cardinality(u)
    <3> HIDE DEF Bad
    <3> QED
      BY <1>1, <2>1, Smallest
  <2>3. SumFunctionOnSet(f, s) =
          IF s = {} THEN 0 ELSE f[Chosen(s)] + SumFunctionOnSet(f, s \ {Chosen(s)})
    BY <2>1, SumUnfolds
  <2>4. s # {}
    BY <2>3
  <2>5. Chosen(s) \in s
    BY <2>4 DEF Chosen
  <2>6. s \ {Chosen(s)} \notin Bad
    BY <2>1, <2>2, <2>5, Smaller
  <2> QED
    BY <2>3, <2>4, <2>5, <2>6
<1> QED
  BY <1>1

\* Any of the values may be taken first.
LEMMA SumAdds ==
  ASSUME NEW D, IsFiniteSet(D), NEW f \in [D -> Nat], NEW S \in SUBSET D, NEW x \in S
  PROVE  SumFunctionOnSet(f, S) = f[x] + SumFunctionOnSet(f, S \ {x})
<1> DEFINE Sum(s) == SumFunctionOnSet(f, s)
           Bad == {s \in SUBSET D : \E y \in s : Sum(s) # f[y] + Sum(s \ {y})}
<1>0. \A s \in SUBSET D : IsFiniteSet(s) /\ Sum(s) \in Nat
  <2>1. ASSUME NEW s \in SUBSET D PROVE IsFiniteSet(s) /\ Sum(s) \in Nat
    <3>1. IsFiniteSet(s)
      BY FS_Subset
    <3> QED
      BY <3>1, SumType
  <2> QED
    BY <2>1
<1>1. ASSUME Bad # {} PROVE FALSE
  <2>1. PICK s \in Bad : \A u \in Bad : Cardinality(s) <= Cardinality(u)
    <3>1. \A s \in Bad : IsFiniteSet(s)
      BY <1>0
    <3> HIDE DEF Bad
    <3> QED
      BY <1>1, <3>1, Smallest
  <2>2. PICK y \in s : Sum(s) # f[y] + Sum(s \ {y})
    OBVIOUS
  <2> DEFINE p == Chosen(s)
  <2>3. p \in s /\ IsFiniteSet(s)
    BY <1>0, <2>2 DEF Chosen
  <2>4. Sum(s) = f[p] + Sum(s \ {p})
    BY <2>2, <2>3, SumUnfolds
  <2> HIDE DEF p
  <2>5. p # y
    BY <2>2, <2>4
  <2>6. s \ {p} \notin Bad /\ s \ {y} \notin Bad
    <3> HIDE DEF Bad
    <3>1. \A z \in s : /\ Cardinality(s) \in Nat /\ Cardinality(s \ {z}) \in Nat
                       /\ Cardinality(s \ {z}) < Cardinality(s)
      BY <2>3, Smaller
    <3>2. \A z \in s : s \ {z} \notin Bad
      BY <2>1, <3>1
    <3> QED
      BY <2>2, <2>3, <3>2
  <2>7. s \ {p} \in SUBSET D /\ s \ {y} \in SUBSET D /\ y \in s \ {p} /\ p \in s \ {y}
    BY <2>2, <2>3, <2>5
  <2>8. /\ Sum(s \ {p}) = f[y] + Sum((s \ {p}) \ {y})
        /\ Sum(s \ {y}) = f[p] + Sum((s \ {y}) \ {p})
    BY <2>6, <2>7
  <2>9. (s \ {p}) \ {y} = (s \ {y}) \ {p} /\ (s \ {y}) \ {p} \in SUBSET D
    OBVIOUS
  <2>10. f[y] \in Nat /\ f[p] \in Nat /\ Sum((s \ {y}) \ {p}) \in Nat
    BY <1>0, <2>2, <2>3, <2>9
  <2> HIDE DEF Sum
  <2> QED
    BY <2>2, <2>4, <2>8, <2>9, <2>10
<1> QED
  BY <1>1

\* A sum depends on the values alone.
LEMMA SumSame ==
  ASSUME NEW S, IsFiniteSet(S), NEW f, NEW g, \A x \in S : f[x] = g[x]
  PROVE  SumFunctionOnSet(f, S) = SumFunctionOnSet(g, S)
<1> DEFINE Bad == {s \in SUBSET S : SumFunctionOnSet(f, s) # SumFunctionOnSet(g, s)}
<1>1. ASSUME Bad # {} PROVE FALSE
  <2>1. \A s \in Bad : IsFiniteSet(s)
    BY FS_Subset
  <2>2. PICK s \in Bad : \A u \in Bad : Cardinality(s) <= Cardinality(u)
    <3> HIDE DEF Bad
    <3> QED
      BY <1>1, <2>1, Smallest
  <2>3. /\ SumFunctionOnSet(f, s) =
             IF s = {} THEN 0 ELSE f[Chosen(s)] + SumFunctionOnSet(f, s \ {Chosen(s)})
        /\ SumFunctionOnSet(g, s) =
             IF s = {} THEN 0 ELSE g[Chosen(s)] + SumFunctionOnSet(g, s \ {Chosen(s)})
    BY <2>1, SumUnfolds
  <2>4. s # {}
    BY <2>3
  <2>5. Chosen(s) \in s
    BY <2>4 DEF Chosen
  <2>6. s \ {Chosen(s)} \notin Bad
    <3> HIDE DEF Bad
    <3> QED
      BY <2>1, <2>2, <2>5, Smaller
  <2> QED
    BY <2>3, <2>4, <2>5, <2>6
<1> QED
  BY <1>1

\* A sum of zeros is zero.
LEMMA SumOfZeros ==
  ASSUME NEW S, IsFiniteSet(S), NEW f, \A x \in S : f[x] = 0
  PROVE  SumFunctionOnSet(f, S) = 0
<1> DEFINE Bad == {s \in SUBSET S : SumFunctionOnSet(f, s) # 0}
<1>1. ASSUME Bad # {} PROVE FALSE
  <2>1. \A s \in Bad : IsFiniteSet(s)
    BY FS_Subset
  <2>2. PICK s \in Bad : \A u \in Bad : Cardinality(s) <= Cardinality(u)
    <3> HIDE DEF Bad
    <3> QED
      BY <1>1, <2>1, Smallest
  <2>3. SumFunctionOnSet(f, s) =
          IF s = {} THEN 0 ELSE f[Chosen(s)] + SumFunctionOnSet(f, s \ {Chosen(s)})
    BY <2>1, SumUnfolds
  <2>4. s # {}
    BY <2>3
  <2>5. Chosen(s) \in s
    BY <2>4 DEF Chosen
  <2>6. s \ {Chosen(s)} \notin Bad
    <3> HIDE DEF Bad
    <3> QED
      BY <2>1, <2>2, <2>5, Smaller
  <2> QED
    BY <2>3, <2>4, <2>5, <2>6
<1> QED
  BY <1>1

\* More rows have no smaller sum.
LEMMA SumGrows ==
  ASSUME NEW D, IsFiniteSet(D), NEW f \in [D -> Nat], NEW S \in SUBSET D, NEW T \in SUBSET S
  PROVE  SumFunctionOnSet(f, T) <= SumFunctionOnSet(f, S)
<1> DEFINE Bad == {s \in SUBSET S : T \subseteq s
                                    /\ ~(SumFunctionOnSet(f, T) <= SumFunctionOnSet(f, s))}
<1>0. \A s \in SUBSET S : IsFiniteSet(s) /\ SumFunctionOnSet(f, s) \in Nat
  BY FS_Subset, SumType
<1>1. ASSUME Bad # {} PROVE FALSE
  <2>1. PICK s \in Bad : \A u \in Bad : Cardinality(s) <= Cardinality(u)
    <3>1. \A s \in Bad : IsFiniteSet(s)
      BY <1>0
    <3> HIDE DEF Bad
    <3> QED
      BY <1>1, <3>1, Smallest
  <2>2. s # T
    BY <1>0
  <2>3. PICK x \in s : x \notin T
    BY <2>2
  <2>4. s \in SUBSET D /\ x \in D
    OBVIOUS
  <2>5. SumFunctionOnSet(f, s) = f[x] + SumFunctionOnSet(f, s \ {x})
    BY <2>4, SumAdds
  <2>6. s \ {x} \notin Bad
    <3>1. IsFiniteSet(s)
      BY <1>0
    <3> HIDE DEF Bad
    <3> QED
      BY <2>1, <3>1, Smaller
  <2>7. s \ {x} \in SUBSET S /\ T \in SUBSET S /\ T \subseteq s \ {x}
    BY <2>3
  <2>8. SumFunctionOnSet(f, T) <= SumFunctionOnSet(f, s \ {x})
    BY <2>6, <2>7
  <2>9. f[x] \in Nat /\ SumFunctionOnSet(f, T) \in Nat /\ SumFunctionOnSet(f, s \ {x}) \in Nat
    BY <1>0, <2>4, <2>7
  <2>10. ~(SumFunctionOnSet(f, T) <= SumFunctionOnSet(f, s))
    OBVIOUS
  <2> QED
    BY <2>5, <2>8, <2>9, <2>10
<1> QED
  BY <1>0, <1>1

\* A count is a sum of ones.
LEMMA CountIsSum ==
  ASSUME NEW D, IsFiniteSet(D), NEW f \in [D -> {0, 1}], NEW S \in SUBSET D
  PROVE  SumFunctionOnSet(f, S) = Cardinality({x \in S : f[x] = 1})
<1> DEFINE Ones(s) == {x \in s : f[x] = 1}
           Bad == {s \in SUBSET D : SumFunctionOnSet(f, s) # Cardinality(Ones(s))}
<1>0. \A s \in SUBSET D : /\ IsFiniteSet(s) /\ SumFunctionOnSet(f, s) \in Nat
                          /\ IsFiniteSet(Ones(s)) /\ Cardinality(Ones(s)) \in Nat
  <2>1. f \in [D -> Nat]
    OBVIOUS
  <2>2. \A s \in SUBSET D : Ones(s) \in SUBSET D
    OBVIOUS
  <2> HIDE DEF Ones
  <2> QED
    BY <2>1, <2>2, FS_Subset, FS_CardinalityType, SumType
<1>1. ASSUME Bad # {} PROVE FALSE
  <2>1. PICK s \in Bad : \A u \in Bad : Cardinality(s) <= Cardinality(u)
    <3>1. \A s \in Bad : IsFiniteSet(s)
      BY <1>0
    <3> HIDE DEF Bad
    <3> QED
      BY <1>1, <3>1, Smallest
  <2>2. SumFunctionOnSet(f, s) =
          IF s = {} THEN 0 ELSE f[Chosen(s)] + SumFunctionOnSet(f, s \ {Chosen(s)})
    BY <1>0, SumUnfolds
  <2>3. s # {}
    <3>1. Ones({}) = {} /\ Cardinality({}) = 0
      BY FS_EmptySet
    <3> QED
      BY <2>2, <3>1
  <2> DEFINE x == Chosen(s)
  <2>4. x \in s
    BY <2>3 DEF Chosen
  <2> HIDE DEF x
  <2>5. s \ {x} \notin Bad
    <3>1. IsFiniteSet(s)
      BY <1>0
    <3> HIDE DEF Bad
    <3> QED
      BY <2>1, <2>4, <3>1, Smaller
  <2>6. SumFunctionOnSet(f, s \ {x}) = Cardinality(Ones(s \ {x}))
    BY <2>5
  <2>7. Ones(s \ {x}) = Ones(s) \ {x} /\ (x \in Ones(s) <=> f[x] = 1) /\ f[x] \in {0, 1}
    BY <2>4
  <2>8. Cardinality(Ones(s) \ {x}) =
          IF f[x] = 1 THEN Cardinality(Ones(s)) - 1 ELSE Cardinality(Ones(s))
    <3>1. IsFiniteSet(Ones(s))
      BY <1>0
    <3> HIDE DEF Ones
    <3> QED
      BY <2>7, <3>1, FS_RemoveElement
  <2>9. SumFunctionOnSet(f, s) = f[x] + SumFunctionOnSet(f, s \ {x})
    BY <2>2, <2>3 DEF x
  <2>10. Cardinality(Ones(s)) \in Nat /\ SumFunctionOnSet(f, s) # Cardinality(Ones(s))
    BY <1>0
  <2> HIDE DEF Ones, Bad
  <2>11. SumFunctionOnSet(f, s \ {x}) =
           IF f[x] = 1 THEN Cardinality(Ones(s)) - 1 ELSE Cardinality(Ones(s))
    BY <2>6, <2>7, <2>8
  <2>12. CASE f[x] = 1
    BY <2>9, <2>10, <2>11, <2>12
  <2>13. CASE f[x] = 0
    BY <2>9, <2>10, <2>11, <2>13
  <2> QED
    BY <2>7, <2>12, <2>13
<1> QED
  BY <1>1

\* GROUP BY: the sum of the sums of the groups is the sum of all rows.
LEMMA SumOfGroups ==
  ASSUME NEW D, IsFiniteSet(D), NEW f \in [D -> Nat], NEW K, IsFiniteSet(K), NEW key \in [D -> K]
  PROVE  SumFunctionOnSet([k \in K |-> SumFunctionOnSet(f, {x \in D : key[x] = k})], K)
           = SumFunctionOnSet(f, D)
<1> DEFINE Sum(s) == SumFunctionOnSet(f, s)
           Group(s, k) == {x \in s : key[x] = k}
           sums(s) == [k \in K |-> Sum(Group(s, k))]
           Bad == {s \in SUBSET D : SumFunctionOnSet(sums(s), K) # Sum(s)}
<1>0. \A s \in SUBSET D :
        /\ IsFiniteSet(s) /\ Sum(s) \in Nat
        /\ \A k \in K : Group(s, k) \in SUBSET D
        /\ sums(s) \in [K -> Nat]
  <2>1. \A s \in SUBSET D : IsFiniteSet(s) /\ Sum(s) \in Nat
    BY FS_Subset, SumType
  <2>2. \A s \in SUBSET D : \A k \in K : Group(s, k) \in SUBSET D
    OBVIOUS
  <2> HIDE DEF Sum, Group
  <2> QED
    BY <2>1, <2>2
<1>1. ASSUME Bad # {} PROVE FALSE
  <2>1. PICK s \in Bad : \A u \in Bad : Cardinality(s) <= Cardinality(u)
    <3>1. \A s \in Bad : IsFiniteSet(s)
      BY <1>0
    <3> HIDE DEF Bad
    <3> QED
      BY <1>1, <3>1, Smallest
  <2>2. s \in SUBSET D /\ SumFunctionOnSet(sums(s), K) # Sum(s)
    OBVIOUS
  <2>3. s # {}
    <3>1. ASSUME s = {} PROVE FALSE
      <4>1. Sum({}) = 0
        BY FS_EmptySet, SumOfZeros
      <4>2. \A k \in K : Group({}, k) = {}
        OBVIOUS
      <4>3. \A k \in K : sums({})[k] = 0
        BY <4>1, <4>2
      <4> HIDE DEF sums
      <4>4. SumFunctionOnSet(sums({}), K) = 0
        BY <4>3, SumOfZeros
      <4> QED
        BY <2>2, <3>1, <4>1, <4>4
    <3> QED
      BY <3>1
  <2>4. PICK x \in s : TRUE
    BY <2>3
  <2> DEFINE r == s \ {x}
             a == key[x]
  <2>5. x \in D /\ a \in K /\ r \in SUBSET D /\ f[x] \in Nat
    BY <2>2, <2>4
  <2>6. SumFunctionOnSet(sums(r), K) = Sum(r)
    <3>1. r \notin Bad
      <4>1. IsFiniteSet(s)
        BY <1>0, <2>2
      <4>2. /\ Cardinality(s) \in Nat /\ Cardinality(r) \in Nat
            /\ Cardinality(r) < Cardinality(s)
        BY <2>4, <4>1, Smaller
      <4> HIDE DEF Bad, r
      <4> QED
        BY <2>1, <4>2
    <3> QED
      BY <2>5, <3>1
  <2>7. \A k \in K \ {a} : sums(s)[k] = sums(r)[k]
    <3>1. \A k \in K \ {a} : Group(s, k) = Group(r, k)
      OBVIOUS
    <3> HIDE DEF Group
    <3> QED
      BY <3>1
  <2>8. sums(s)[a] = f[x] + sums(r)[a]
    <3>1. x \in Group(s, a) /\ Group(s, a) \in SUBSET D /\ Group(r, a) = Group(s, a) \ {x}
      BY <2>2, <2>4
    <3> HIDE DEF Group, a, r
    <3>2. Sum(Group(s, a)) = f[x] + Sum(Group(s, a) \ {x})
      BY <3>1, SumAdds
    <3> QED
      BY <2>5, <3>1, <3>2
  <2>9. Sum(s) = f[x] + Sum(r)
    BY <2>2, <2>4, SumAdds
  <2>10. sums(s) \in [K -> Nat] /\ sums(r) \in [K -> Nat] /\ Sum(r) \in Nat
    BY <1>0, <2>2, <2>5
  <2> DEFINE others == K \ {a}
  <2> HIDE DEF sums, Sum, a, r
  <2>11. IsFiniteSet(others) /\ others \in SUBSET K
    BY FS_Subset
  <2>12. /\ SumFunctionOnSet(sums(s), K) = sums(s)[a] + SumFunctionOnSet(sums(s), others)
         /\ SumFunctionOnSet(sums(r), K) = sums(r)[a] + SumFunctionOnSet(sums(r), others)
    BY <2>5, <2>10, SumAdds
  <2>13. SumFunctionOnSet(sums(s), others) = SumFunctionOnSet(sums(r), others)
    <3> HIDE DEF others
    <3>1. \A k \in others : sums(s)[k] = sums(r)[k]
      BY <2>7 DEF others
    <3> QED
      BY <2>11, <3>1, SumSame
  <2>14. SumFunctionOnSet(sums(r), others) \in Nat /\ sums(r)[a] \in Nat
    <3> HIDE DEF others
    <3> QED
      BY <2>5, <2>10, <2>11, SumType
  <2> QED
    BY <2>2, <2>5, <2>6, <2>8, <2>9, <2>10, <2>12, <2>13, <2>14
<1> QED
  BY <1>1

----------------------------------------------------------------------------
(* Rows in order *)

StrictTotalOrder(S, before) ==
  /\ \A x \in S : <<x, x>> \notin before
  /\ \A x, y, z \in S : <<x, y>> \in before /\ <<y, z>> \in before => <<x, z>> \in before
  /\ \A x, y \in S : x = y \/ <<x, y>> \in before \/ <<y, x>> \in before

\* The rows before one row.
Ahead(S, before, x) == {y \in S : <<y, x>> \in before}

\* Every number of predecessors is that of one row.
LEMMA OneRowPerRank ==
  ASSUME NEW S, IsFiniteSet(S), NEW before, StrictTotalOrder(S, before)
  PROVE  LET rank == [x \in S |-> Cardinality(Ahead(S, before, x))]
             n == Cardinality(S) IN
         /\ n \in Nat
         /\ rank \in [S -> 0 .. (n - 1)]
         /\ \A x, y \in S : <<x, y>> \in before => rank[x] < rank[y]
         /\ \A k \in 0 .. (n - 1) : \E x \in S : rank[x] = k
<1> DEFINE n == Cardinality(S)
           rank == [x \in S |-> Cardinality(Ahead(S, before, x))]
<1>1. n \in Nat
  BY FS_CardinalityType
<1>2. ASSUME NEW x \in S
      PROVE  /\ Ahead(S, before, x) \in SUBSET S /\ IsFiniteSet(Ahead(S, before, x))
             /\ rank[x] \in Nat /\ rank[x] < n
  <2>1. Ahead(S, before, x) \in SUBSET S /\ x \notin Ahead(S, before, x)
    BY DEF Ahead, StrictTotalOrder
  <2>2. Ahead(S, before, x) \in SUBSET (S \ {x})
    BY <2>1
  <2>3. /\ IsFiniteSet(S \ {x}) /\ Cardinality(S \ {x}) \in Nat
        /\ Cardinality(S \ {x}) < Cardinality(S)
    BY Smaller
  <2>4. /\ IsFiniteSet(Ahead(S, before, x))
        /\ Cardinality(Ahead(S, before, x)) <= Cardinality(S \ {x})
        /\ Cardinality(Ahead(S, before, x)) \in Nat
    BY <2>2, <2>3, FS_Subset, FS_CardinalityType
  <2> QED
    BY <1>1, <2>1, <2>3, <2>4
<1>3. ASSUME NEW x \in S, NEW y \in S, <<x, y>> \in before PROVE rank[x] < rank[y]
  <2>1. x \in Ahead(S, before, y) /\ x \notin Ahead(S, before, x)
    BY <1>3 DEF Ahead, StrictTotalOrder
  <2>2. Ahead(S, before, x) \in SUBSET Ahead(S, before, y)
    BY <1>3 DEF Ahead, StrictTotalOrder
  <2> DEFINE A == Ahead(S, before, x)
             B == Ahead(S, before, y)
  <2>3. IsFiniteSet(A) /\ IsFiniteSet(B) /\ Cardinality(A) \in Nat /\ Cardinality(B) \in Nat
    BY <1>2
  <2>4. A \in SUBSET B /\ A # B
    BY <2>1, <2>2
  <2>5. Cardinality(A) <= Cardinality(B) /\ Cardinality(A) # Cardinality(B)
    <3> HIDE DEF A, B
    <3> QED
      BY <2>3, <2>4, FS_Subset
  <2>6. rank[x] = Cardinality(A) /\ rank[y] = Cardinality(B)
    OBVIOUS
  <2> HIDE DEF A, B, rank
  <2> QED
    BY <2>3, <2>5, <2>6
<1>4. rank \in [S -> 0 .. (n - 1)]
  <2>1. \A x \in S : rank[x] \in 0 .. (n - 1)
    <3> HIDE DEF rank, n
    <3> QED
      BY <1>1, <1>2
  <2> QED
    BY <2>1
<1>5. rank \in Injection(S, 0 .. (n - 1))
  <2>1. ASSUME NEW x \in S, NEW y \in S, rank[x] = rank[y] PROVE x = y
    <3>1. rank[x] \in Nat /\ rank[y] \in Nat
      BY <1>2
    <3> HIDE DEF rank
    <3>2. ~(rank[x] < rank[y]) /\ ~(rank[y] < rank[x])
      BY <2>1, <3>1
    <3>3. <<x, y>> \notin before /\ <<y, x>> \notin before
      BY <1>3, <3>2
    <3> QED
      BY <3>3 DEF StrictTotalOrder
  <2> HIDE DEF rank, n
  <2> QED
    BY <1>4, <2>1 DEF Injection, IsInjective
<1>6. rank \in Surjection(S, 0 .. (n - 1))
  <2>1. IsFiniteSet(0 .. (n - 1)) /\ Cardinality(0 .. (n - 1)) = n
    <3>1. 0 \in Int /\ n - 1 \in Int /\ (0 > n - 1 <=> n = 0) /\ n - 1 - 0 + 1 = n
      <4> HIDE DEF n
      <4> QED
        BY <1>1
    <3> HIDE DEF n
    <3> QED
      BY <1>1, <3>1, FS_Interval
  <2> HIDE DEF rank
  <2> QED
    BY <1>5, <2>1, FS_Injection
<1>7. \A k \in 0 .. (n - 1) : \E x \in S : rank[x] = k
  <2> HIDE DEF rank, n
  <2> QED
    BY <1>6 DEF Surjection
<1> HIDE DEF rank, n
<1>8. \A x, y \in S : <<x, y>> \in before => rank[x] < rank[y]
  BY <1>3
<1> QED
  BY <1>1, <1>4, <1>7, <1>8 DEF rank, n

\* The row at a place has as many rows before it as the place.
LEMMA OrderByRanks ==
  ASSUME NEW S, IsFiniteSet(S), NEW before, StrictTotalOrder(S, before),
         NEW i \in 1 .. Cardinality(S)
  PROVE  LET s == OrderBy(S, before) IN
         s[i] \in S /\ Cardinality(Ahead(S, before, s[i])) = i - 1
<1> DEFINE n == Cardinality(S)
           rank == [x \in S |-> Cardinality(Ahead(S, before, x))]
           s == OrderBy(S, before)
<1>0. /\ n \in Nat
      /\ rank \in [S -> 0 .. (n - 1)]
      /\ \A k \in 0 .. (n - 1) : \E x \in S : rank[x] = k
  BY OneRowPerRank
<1>1. s[i] = CHOOSE x \in S : Cardinality(Ahead(S, before, x)) = i - 1
  BY DEF OrderBy, Ahead
<1>2. i - 1 \in 0 .. (n - 1)
  <2>1. i \in 1 .. n
    OBVIOUS
  <2> HIDE DEF n
  <2> QED
    BY <1>0, <2>1
<1>3. \E x \in S : rank[x] = i - 1
  <2> HIDE DEF rank, n
  <2> QED
    BY <1>0, <1>2
<1>4. \E x \in S : Cardinality(Ahead(S, before, x)) = i - 1
  BY <1>3
<1> HIDE DEF n, s
<1>5. s[i] \in S /\ Cardinality(Ahead(S, before, s[i])) = i - 1
  BY <1>1, <1>4
<1> QED
  BY <1>5 DEF s

\* ORDER BY lists every row once, and each after those that come before it.
LEMMA OrderByLists ==
  ASSUME NEW S, IsFiniteSet(S), NEW before, StrictTotalOrder(S, before)
  PROVE  LET s == OrderBy(S, before)
             n == Cardinality(S) IN
         /\ n \in Nat /\ s \in Seq(S) /\ Len(s) = n /\ DOMAIN s = 1 .. n
         /\ \A i \in 1 .. n : s[i] \in S
         /\ \A i, j \in 1 .. n : i < j => <<s[i], s[j]>> \in before
         /\ \A x \in S : \E i \in 1 .. n : s[i] = x
<1> DEFINE n == Cardinality(S)
           rank == [x \in S |-> Cardinality(Ahead(S, before, x))]
           s == OrderBy(S, before)
<1>1. /\ n \in Nat
      /\ rank \in [S -> 0 .. (n - 1)]
      /\ \A x, y \in S : <<x, y>> \in before => rank[x] < rank[y]
      /\ \A k \in 0 .. (n - 1) : \E x \in S : rank[x] = k
  BY OneRowPerRank
<1>2. ASSUME NEW i \in 1 .. n PROVE s[i] \in S /\ rank[s[i]] = i - 1
  BY OrderByRanks
<1>3. DOMAIN s = 1 .. n
  BY DEF OrderBy
<1>4. s \in Seq(S) /\ Len(s) = n
  <2> DEFINE row(i) == CHOOSE x \in S : Cardinality({y \in S : <<y, x>> \in before}) = i - 1
  <2>1. s = [i \in 1 .. n |-> row(i)]
    BY DEF OrderBy
  <2> HIDE DEF s, n, rank, row
  <2>2. s \in [1 .. n -> S]
    BY <1>2, <2>1
  <2> QED
    BY <1>1, <2>2
<1> HIDE DEF s, n, rank
<1>5. ASSUME NEW i \in 1 .. n, NEW j \in 1 .. n, i < j PROVE <<s[i], s[j]>> \in before
  <2>1. s[i] \in S /\ s[j] \in S /\ rank[s[i]] = i - 1 /\ rank[s[j]] = j - 1
    BY <1>2
  <2>2. i \in Int /\ j \in Int
    BY <1>1
  <2>3. s[i] # s[j]
    BY <1>5, <2>1, <2>2
  <2>4. <<s[j], s[i]>> \notin before
    <3>1. <<s[j], s[i]>> \in before => j - 1 < i - 1
      BY <1>1, <2>1
    <3> QED
      BY <1>5, <2>2, <3>1
  <2> QED
    BY <2>1, <2>3, <2>4 DEF StrictTotalOrder
<1>6. ASSUME NEW x \in S PROVE \E i \in 1 .. n : s[i] = x
  <2> DEFINE i == rank[x] + 1
  <2>1. i \in 1 .. n /\ rank[x] = i - 1 /\ i \in Int
    BY <1>1
  <2>2. s[i] \in S /\ rank[s[i]] = rank[x]
    BY <1>2, <2>1
  <2> HIDE DEF i
  <2>3. s[i] = x
    <3>1. rank[x] \in Nat
      BY <1>1
    <3>2. ~(rank[x] < rank[x])
      BY <3>1
    <3> QED
      BY <1>1, <2>2, <3>2 DEF StrictTotalOrder
  <2> QED
    BY <2>1, <2>3
<1> QED
  BY <1>1, <1>2, <1>3, <1>4, <1>5, <1>6 DEF s, n

\* A row that comes after all the others is listed after them.
LEMMA OrderByGrows ==
  ASSUME NEW S, IsFiniteSet(S), NEW before, StrictTotalOrder(S, before),
         NEW q, q \notin S, NEW Q, \A x : x \in Q <=> x \in S \/ x = q,
         NEW after, StrictTotalOrder(Q, after),
         \A x, y \in S : <<x, y>> \in after <=> <<x, y>> \in before,
         \A x \in S : <<x, q>> \in after
  PROVE  OrderBy(Q, after) = Append(OrderBy(S, before), q)
<1> DEFINE n == Cardinality(S)
           s == OrderBy(S, before)
           u == OrderBy(Q, after)
<1>1. /\ n \in Nat /\ s \in Seq(S) /\ Len(s) = n
      /\ \A i \in 1 .. n : s[i] \in S /\ Cardinality(Ahead(S, before, s[i])) = i - 1
  BY OrderByLists, OrderByRanks
<1>2. IsFiniteSet(Q) /\ Cardinality(Q) = n + 1 /\ StrictTotalOrder(Q, after)
  <2>1. Q = S \cup {q}
    OBVIOUS
  <2>2. IsFiniteSet(S \cup {q}) /\ Cardinality(S \cup {q}) = n + 1
    BY FS_AddElement
  <2> QED
    BY <2>1, <2>2
<1> HIDE DEF n
<1>3. /\ u \in Seq(Q) /\ Len(u) = n + 1
      /\ \A i \in 1 .. n + 1 : u[i] \in Q /\ Cardinality(Ahead(Q, after, u[i])) = i - 1
  BY <1>2, OrderByLists, OrderByRanks
<1> HIDE DEF s, u
<1>4. ASSUME NEW x \in Q, NEW y \in Q,
             Cardinality(Ahead(Q, after, x)) = Cardinality(Ahead(Q, after, y))
      PROVE  x = y
  <2> DEFINE rank == [z \in Q |-> Cardinality(Ahead(Q, after, z))]
  <2>1. /\ rank \in [Q -> 0 .. (Cardinality(Q) - 1)]
        /\ \A v, w \in Q : <<v, w>> \in after => rank[v] < rank[w]
    <3> HIDE DEF rank
    <3>1. IsFiniteSet(Q) /\ StrictTotalOrder(Q, after)
      BY <1>2
    <3> QED
      BY <3>1, OneRowPerRank DEF rank
  <2>2. rank[x] = rank[y]
    BY <1>4
  <2> HIDE DEF rank
  <2>3. rank[x] \in Int /\ rank[y] \in Int
    BY <1>1, <1>2, <2>1
  <2>4. ~(rank[x] < rank[y]) /\ ~(rank[y] < rank[x])
    BY <2>2, <2>3
  <2>5. <<x, y>> \notin after /\ <<y, x>> \notin after
    BY <2>1, <2>4
  <2> QED
    BY <1>2, <2>5 DEF StrictTotalOrder
<1>5. ASSUME NEW i \in 1 .. n PROVE u[i] = s[i]
  <2>1. s[i] \in S /\ s[i] \in Q
    BY <1>1
  <2>2. <<q, s[i]>> \notin after
    BY <2>1 DEF StrictTotalOrder
  <2>3. Ahead(Q, after, s[i]) = Ahead(S, before, s[i])
    BY <2>1, <2>2 DEF Ahead
  <2>4. i \in 1 .. n + 1
    BY <1>1
  <2> QED
    BY <1>1, <1>3, <1>4, <2>1, <2>3, <2>4
<1>6. u[n + 1] = q
  <2>1. Ahead(Q, after, q) = S /\ q \in Q
    BY DEF Ahead, StrictTotalOrder
  <2>2. Cardinality(Ahead(Q, after, q)) = (n + 1) - 1 /\ n + 1 \in 1 .. n + 1
    BY <1>1, <2>1 DEF n
  <2> QED
    BY <1>3, <1>4, <2>1, <2>2
<1>7. s \in Seq(Q) /\ q \in Q
  BY <1>1, SeqMonotonic
<1>8. /\ Append(s, q) \in Seq(Q) /\ Len(Append(s, q)) = n + 1
      /\ \A i \in 1 .. n : Append(s, q)[i] = s[i]
      /\ Append(s, q)[n + 1] = q
  BY <1>1, <1>7, AppendProperties
<1>9. \A i \in 1 .. n + 1 : u[i] = Append(s, q)[i]
  <2>1. \A i \in 1 .. n + 1 : i \in 1 .. n \/ i = n + 1
    BY <1>1
  <2> QED
    BY <1>5, <1>6, <1>8, <2>1
<1>10. u = Append(s, q)
  BY <1>3, <1>8, <1>9, SeqEqual
<1> QED
  BY <1>10 DEF u, s

=============================================================================
