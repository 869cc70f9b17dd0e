---------------------------- MODULE SumTheorems -----------------------------
(***************************************************************************)
(* Sums of the values of a function over a finite set, as the community    *)
(* modules define them: by taking out one element after the other.         *)
(***************************************************************************)
EXTENDS RecursionTheorems, Functions, FiniteSetTheorems

\* The element that is taken out of a set.
Some(s) == CHOOSE x \in s : TRUE

\* h gives the sums of f over some sets, and over the subsets of S.
SumsOn(sets, h, f) ==
    h = [s \in sets |-> IF s = {} THEN 0 ELSE f[Some(s)] + h[s \ {Some(s)}]]
Sums(h, f, S) == SumsOn(SUBSET S, h, f)

\* The definition of a sum, without its folds.
LEMMA SumIs ==
    ASSUME NEW f, NEW S
    PROVE  SumFunctionOnSet(f, S) = (CHOOSE h : Sums(h, f, S))[S]
BY DEF SumFunctionOnSet, FoldFunctionOnSet, MapThenFoldSet, Some, Sums, SumsOn

\* One element less is one less in number.
LEMMA OneLess ==
    ASSUME NEW S, IsFiniteSet(S), NEW x \in S
    PROVE  /\ IsFiniteSet(S \ {x})
           /\ Cardinality(S) \in Nat \ {0}
           /\ Cardinality(S \ {x}) = Cardinality(S) - 1
BY FS_RemoveElement, FS_CardinalityType, FS_EmptySet

\* What holds of a set when it holds of each smaller one holds of every finite
\* set: P is the set of the subsets of S it holds of.
LEMMA SizeInduction ==
    ASSUME NEW S, IsFiniteSet(S), NEW P,
           \A s \in SUBSET S : (\A x \in s : s \ {x} \in P) => s \in P
    PROVE  SUBSET S \subseteq P
<1> DEFINE N == {n \in Nat : \A s \in SUBSET S : Cardinality(s) = n => s \in P}
<1>1. \A s \in SUBSET S : IsFiniteSet(s) /\ Cardinality(s) \in Nat
  BY FS_Subset, FS_CardinalityType
<1>2. 0 \in N
  <2>1. ASSUME NEW s \in SUBSET S, Cardinality(s) = 0 PROVE s \in P
    <3>1. s = {}
      BY <1>1, <2>1, FS_EmptySet
    <3> QED
      BY <3>1
  <2> QED
    BY <2>1
<1>3. ASSUME NEW n \in Nat, n \in N PROVE n + 1 \in N
  <2>1. ASSUME NEW s \in SUBSET S, Cardinality(s) = n + 1 PROVE s \in P
    <3>1. ASSUME NEW x \in s PROVE s \ {x} \in P
      <4>1. Cardinality(s \ {x}) = n
        BY <1>1, <2>1, OneLess
      <4> QED
        BY <1>3, <4>1
    <3> QED
      BY <3>1
  <2> QED
    BY <2>1
<1>4. Nat \subseteq N
  <2> HIDE DEF N
  <2> QED
    BY <1>2, <1>3, SetInduction
<1> QED
  BY <1>1, <1>4

\* Some function gives the sums over the subsets of a finite set.
LEMMA SumsExist == ASSUME NEW S, IsFiniteSet(S), NEW f PROVE \E h : Sums(h, f, S)
<1> DEFINE Small(n) == {s \in SUBSET S : Cardinality(s) <= n}
           Part(n, h) == SumsOn(Small(n), h, f)
           N == {n \in Nat : \E h : Part(n, h)}
<1>1. \A s \in SUBSET S : IsFiniteSet(s) /\ Cardinality(s) \in Nat
  BY FS_Subset, FS_CardinalityType
<1>2. \A s \in SUBSET S : s # {} =>
         Some(s) \in s /\ Cardinality(s \ {Some(s)}) = Cardinality(s) - 1
  BY <1>1, OneLess DEF Some
<1>3. 0 \in N
  <2> DEFINE h == [s \in Small(0) |-> 0]
  <2>1. \A s \in Small(0) : s = {}
    BY <1>1, FS_EmptySet
  <2>2. Part(0, h)
    BY <2>1 DEF SumsOn
  <2> QED
    BY <2>2
<1>4. ASSUME NEW n \in Nat, n \in N PROVE n + 1 \in N
  <2>1. PICK h : Part(n, h)
    BY <1>4
  <2> DEFINE value(s) == IF s = {} THEN 0 ELSE f[Some(s)] + h[s \ {Some(s)}]
             g == [s \in Small(n + 1) |-> value(s)]
  <2>2. ASSUME NEW s \in Small(n) PROVE s \in Small(n + 1) /\ g[s] = h[s]
    <3>1. s \in Small(n + 1)
      BY <1>1, <2>2
    <3>2. h[s] = value(s)
      BY <2>1, <2>2 DEF SumsOn
    <3> QED
      BY <3>1, <3>2
  <2>3. ASSUME NEW s \in Small(n + 1), s # {} PROVE s \ {Some(s)} \in Small(n)
    BY <1>1, <1>2, <2>3
  <2>4. ASSUME NEW s \in Small(n + 1)
        PROVE  g[s] = IF s = {} THEN 0 ELSE f[Some(s)] + g[s \ {Some(s)}]
    <3>1. CASE s = {}
      BY <3>1
    <3>2. CASE s # {}
      <4>1. g[s \ {Some(s)}] = h[s \ {Some(s)}]
        BY <2>2, <2>3, <3>2
      <4>2. g[s] = f[Some(s)] + h[s \ {Some(s)}]
        BY <3>2
      <4> QED
        BY <3>2, <4>1, <4>2
    <3> QED
      BY <3>1, <3>2
  <2>5. g = [s \in Small(n + 1) |-> g[s]]
    OBVIOUS
  <2>6. Part(n + 1, g)
    <3> HIDE DEF g
    <3> QED
      BY <2>4, <2>5 DEF SumsOn
  <2>7. n + 1 \in Nat
    OBVIOUS
  <2> HIDE DEF g, Small
  <2> QED
    BY <2>6, <2>7
<1>5. Nat \subseteq N
  <2> HIDE DEF N
  <2> QED
    BY <1>3, <1>4, SetInduction
<1>6. Cardinality(S) \in Nat
  BY <1>1
<1>7. PICK h : Part(Cardinality(S), h)
  BY <1>5, <1>6
<1>8. Small(Cardinality(S)) = SUBSET S
  BY FS_Subset
<1> QED
  BY <1>7, <1>8 DEF Sums

\* The sums do not depend on the set they are part of.
LEMMA SumsAgree ==
    ASSUME NEW S, IsFiniteSet(S), NEW T, S \subseteq T, NEW f, NEW h, NEW k,
           Sums(h, f, S), Sums(k, f, T)
    PROVE  h[S] = k[S]
<1> DEFINE P == {s \in SUBSET S : h[s] = k[s]}
<1>1. ASSUME NEW s \in SUBSET S, \A x \in s : s \ {x} \in P PROVE s \in P
  <2>1. h[s] = IF s = {} THEN 0 ELSE f[Some(s)] + h[s \ {Some(s)}]
    BY DEF Sums, SumsOn
  <2>2. k[s] = IF s = {} THEN 0 ELSE f[Some(s)] + k[s \ {Some(s)}]
    BY DEF Sums, SumsOn
  <2>3. s # {} => h[s \ {Some(s)}] = k[s \ {Some(s)}]
    BY <1>1 DEF Some
  <2> QED
    BY <2>1, <2>2, <2>3
<1>2. SUBSET S \subseteq P
  <2> HIDE DEF P
  <2> QED
    BY <1>1, SizeInduction
<1> QED
  BY <1>2

\* The sum over nothing, and over a set some element is taken out of.
LEMMA SumUnfolds ==
    ASSUME NEW S, IsFiniteSet(S), NEW f
    PROVE  SumFunctionOnSet(f, S) =
              IF S = {} THEN 0
              ELSE f[Some(S)] + SumFunctionOnSet(f, S \ {Some(S)})
<1> DEFINE h == CHOOSE h : Sums(h, f, S)
<1>1. Sums(h, f, S)
  BY SumsExist
<1>2. SumFunctionOnSet(f, S) = h[S]
  BY SumIs
<1>3. h[S] = IF S = {} THEN 0 ELSE f[Some(S)] + h[S \ {Some(S)}]
  <2> HIDE DEF h
  <2> QED
    BY <1>1 DEF Sums, SumsOn
<1>4. CASE S = {}
  BY <1>2, <1>3, <1>4
<1>5. CASE S # {}
  <2> DEFINE T == S \ {Some(S)}
             k == CHOOSE k : Sums(k, f, T)
  <2>1. IsFiniteSet(T)
    BY FS_Subset
  <2>2. Sums(k, f, T)
    BY <2>1, SumsExist
  <2>3. SumFunctionOnSet(f, T) = k[T]
    BY SumIs
  <2>4. k[T] = h[T]
    <3> HIDE DEF h, k
    <3> QED
      BY <1>1, <2>1, <2>2, SumsAgree
  <2> QED
    BY <1>2, <1>3, <1>5, <2>3, <2>4
<1> QED
  BY <1>4, <1>5
-----------------------------------------------------------------------------
\* Numbers have a sum.
LEMMA SumType ==
    ASSUME NEW S, IsFiniteSet(S), NEW f, \A x \in S : f[x] \in Int
    PROVE  SumFunctionOnSet(f, S) \in Int
<1> DEFINE sum(s) == SumFunctionOnSet(f, s)
           P == {s \in SUBSET S : sum(s) \in Int}
<1>1. ASSUME NEW s \in SUBSET S
      PROVE  sum(s) = IF s = {} THEN 0 ELSE f[Some(s)] + sum(s \ {Some(s)})
  BY FS_Subset, SumUnfolds
<1>2. ASSUME NEW s \in SUBSET S, \A x \in s : s \ {x} \in P PROVE s \in P
  <2> HIDE DEF sum
  <2>1. CASE s = {}
    <3>1. sum(s) = 0
      BY <1>1, <2>1
    <3> QED
      BY <3>1
  <2>2. CASE s # {}
    <3>1. PICK y \in s : y = Some(s)
      BY <2>2 DEF Some
    <3>2. f[y] \in Int /\ sum(s \ {y}) \in Int
      BY <1>2
    <3> QED
      BY <1>1, <2>2, <3>1, <3>2
  <2> QED
    BY <2>1, <2>2
<1>3. SUBSET S \subseteq P
  <2> HIDE DEF P
  <2> QED
    BY <1>2, SizeInduction
<1> QED
  BY <1>3

\* Any number can be taken out of a sum.
THEOREM SumTakesOut ==
    ASSUME NEW S, IsFiniteSet(S), NEW f, \A x \in S : f[x] \in Int, NEW e \in S
    PROVE  SumFunctionOnSet(f, S) = f[e] + SumFunctionOnSet(f, S \ {e})
<1> DEFINE sum(s) == SumFunctionOnSet(f, s)
           P == {s \in SUBSET S : \A x \in s : sum(s) = f[x] + sum(s \ {x})}
<1>1. ASSUME NEW s \in SUBSET S
      PROVE  sum(s) = IF s = {} THEN 0 ELSE f[Some(s)] + sum(s \ {Some(s)})
  BY FS_Subset, SumUnfolds
<1>2. \A s \in SUBSET S : sum(s) \in Int
  BY FS_Subset, SumType
<1>3. ASSUME NEW s \in SUBSET S, \A x \in s : s \ {x} \in P PROVE s \in P
  <2> HIDE DEF sum
  <2>1. ASSUME NEW x \in s PROVE sum(s) = f[x] + sum(s \ {x})
    <3>1. PICK y \in s : y = Some(s)
      BY DEF Some
    <3>2. sum(s) = f[y] + sum(s \ {y})
      BY <1>1, <3>1
    <3>3. CASE x = y
      BY <3>2, <3>3
    <3>4. CASE x # y
      <4>1. sum(s \ {y}) = f[x] + sum((s \ {y}) \ {x})
        BY <1>3, <3>4
      <4>2. sum(s \ {x}) = f[y] + sum((s \ {x}) \ {y})
        BY <1>3, <3>4
      <4>3. (s \ {x}) \ {y} = (s \ {y}) \ {x}
        OBVIOUS
      <4>4. f[x] \in Int /\ f[y] \in Int /\ sum((s \ {y}) \ {x}) \in Int
        BY <1>2
      <4>5. \A a, b, c \in Int : a + (b + c) = b + (a + c)
        OBVIOUS
      <4>6. f[y] + (f[x] + sum((s \ {y}) \ {x})) = f[x] + (f[y] + sum((s \ {y}) \ {x}))
        BY <4>4, <4>5
      <4> QED
        BY <3>2, <4>1, <4>2, <4>3, <4>6
    <3> QED
      BY <3>3, <3>4
  <2> QED
    BY <2>1
<1>4. SUBSET S \subseteq P
  <2> HIDE DEF P
  <2> QED
    BY <1>3, SizeInduction
<1> QED
  BY <1>4

\* A sum of one number more.
LEMMA SumOfOneMore ==
    ASSUME NEW S, IsFiniteSet(S), NEW e, e \notin S, NEW f,
           \A x \in S \union {e} : f[x] \in Int
    PROVE  SumFunctionOnSet(f, S \union {e}) = SumFunctionOnSet(f, S) + f[e]
<1>1. IsFiniteSet(S \union {e})
  BY FS_AddElement
<1>2. (S \union {e}) \ {e} = S
  OBVIOUS
<1>3. SumFunctionOnSet(f, S \union {e}) = f[e] + SumFunctionOnSet(f, S)
  BY <1>1, <1>2, SumTakesOut
<1>4. f[e] \in Int /\ SumFunctionOnSet(f, S) \in Int
  BY SumType
<1> QED
  BY <1>3, <1>4

\* The sum of no numbers.
LEMMA SumOfNone == ASSUME NEW f PROVE SumFunctionOnSet(f, {}) = 0
BY FS_EmptySet, SumUnfolds

\* One number after the other is enough to show that two sums stand in some
\* relation, given as the set of the subsets for which they do.
LEMMA SumInduction ==
    ASSUME NEW S, IsFiniteSet(S), NEW P, {} \in P,
           \A s \in SUBSET S : \A x \in S \ s : s \in P => s \union {x} \in P
    PROVE  S \in P
<1>1. ASSUME NEW s \in SUBSET S, \A x \in s : s \ {x} \in P PROVE s \in P
  <2>1. CASE s = {}
    BY <2>1
  <2>2. CASE s # {}
    <3>1. PICK x \in s : TRUE
      BY <2>2
    <3>2. s \ {x} \in SUBSET S /\ x \in S \ (s \ {x}) /\ (s \ {x}) \union {x} = s
      OBVIOUS
    <3> QED
      BY <1>1, <3>2
  <2> QED
    BY <2>1, <2>2
<1> QED
  BY <1>1, SizeInduction

\* Equal numbers have equal sums.
LEMMA SumOfEqual ==
    ASSUME NEW S, IsFiniteSet(S), NEW f, NEW g, \A x \in S : f[x] \in Int /\ f[x] = g[x]
    PROVE  SumFunctionOnSet(f, S) = SumFunctionOnSet(g, S)
<1> DEFINE P == {s \in SUBSET S : SumFunctionOnSet(f, s) = SumFunctionOnSet(g, s)}
<1>1. {} \in P
  BY SumOfNone
<1>2. ASSUME NEW s \in SUBSET S, NEW x \in S \ s, s \in P PROVE s \union {x} \in P
  <2>1. IsFiniteSet(s)
    BY FS_Subset
  <2>2. SumFunctionOnSet(f, s \union {x}) = SumFunctionOnSet(f, s) + f[x]
    BY <2>1, SumOfOneMore
  <2>3. SumFunctionOnSet(g, s \union {x}) = SumFunctionOnSet(g, s) + g[x]
    BY <2>1, SumOfOneMore
  <2> QED
    BY <1>2, <2>2, <2>3
<1> HIDE DEF P
<1>3. S \in P
  BY <1>1, <1>2, SumInduction
<1> QED
  BY <1>3 DEF P

\* The sum of sums.
LEMMA SumOfSums ==
    ASSUME NEW S, IsFiniteSet(S), NEW f, NEW g, NEW h,
           \A x \in S : f[x] \in Int /\ g[x] \in Int /\ h[x] = f[x] + g[x]
    PROVE  SumFunctionOnSet(h, S) = SumFunctionOnSet(f, S) + SumFunctionOnSet(g, S)
<1> DEFINE F(s) == SumFunctionOnSet(f, s)
           G(s) == SumFunctionOnSet(g, s)
           H(s) == SumFunctionOnSet(h, s)
           P == {s \in SUBSET S : H(s) = F(s) + G(s)}
<1>1. {} \in P
  BY SumOfNone
<1>2. ASSUME NEW s \in SUBSET S, NEW x \in S \ s, s \in P PROVE s \union {x} \in P
  <2>1. IsFiniteSet(s)
    BY FS_Subset
  <2>2. \A y \in S : h[y] \in Int
    OBVIOUS
  <2>3. F(s \union {x}) = F(s) + f[x] /\ F(s) \in Int
    BY <2>1, SumOfOneMore, SumType
  <2>4. G(s \union {x}) = G(s) + g[x] /\ G(s) \in Int
    BY <2>1, SumOfOneMore, SumType
  <2>5. H(s \union {x}) = H(s) + h[x]
    BY <2>1, <2>2, SumOfOneMore
  <2>6. f[x] \in Int /\ g[x] \in Int /\ h[x] = f[x] + g[x]
    OBVIOUS
  <2>7. H(s) = F(s) + G(s)
    BY <1>2
  <2> HIDE DEF F, G, H
  <2>8. H(s \union {x}) = F(s \union {x}) + G(s \union {x})
    BY <2>3, <2>4, <2>5, <2>6, <2>7
  <2> QED
    BY <2>8
<1> HIDE DEF P
<1>3. S \in P
  BY <1>1, <1>2, SumInduction
<1> QED
  BY <1>3 DEF P

\* The sum of naturals is positive exactly when one of them is.
LEMMA SumOfNaturals ==
    ASSUME NEW S, IsFiniteSet(S), NEW f, \A x \in S : f[x] \in Nat
    PROVE  /\ SumFunctionOnSet(f, S) \in Nat
           /\ SumFunctionOnSet(f, S) > 0 <=> \E x \in S : f[x] > 0
<1> DEFINE F(s) == SumFunctionOnSet(f, s)
           P == {s \in SUBSET S : F(s) \in Nat /\ (F(s) > 0 <=> \E x \in s : f[x] > 0)}
<1>1. {} \in P
  BY SumOfNone
<1>2. ASSUME NEW s \in SUBSET S, NEW x \in S \ s, s \in P PROVE s \union {x} \in P
  <2>1. IsFiniteSet(s)
    BY FS_Subset
  <2>2. F(s \union {x}) = F(s) + f[x]
    BY <2>1, SumOfOneMore
  <2>3. F(s) \in Nat /\ f[x] \in Nat /\ (F(s) > 0 <=> \E y \in s : f[y] > 0)
    BY <1>2
  <2> HIDE DEF F
  <2>4. F(s \union {x}) \in Nat /\ (F(s \union {x}) > 0 <=> F(s) > 0 \/ f[x] > 0)
    BY <2>2, <2>3
  <2>5. (\E y \in s \union {x} : f[y] > 0) <=> (\E y \in s : f[y] > 0) \/ f[x] > 0
    OBVIOUS
  <2> QED
    BY <2>3, <2>4, <2>5
<1> HIDE DEF P
<1>3. S \in P
  BY <1>1, <1>2, SumInduction
<1> QED
  BY <1>3 DEF P

\* Other names for the members of a finite set are as many, if they are distinct.
LEMMA NamesCounted ==
    ASSUME NEW S, IsFiniteSet(S), NEW name,
           \A x, y \in S : name[x] = name[y] => x = y
    PROVE  /\ IsFiniteSet({name[x] : x \in S})
           /\ Cardinality({name[x] : x \in S}) = Cardinality(S)
<1> DEFINE names(s) == {name[x] : x \in s}
           P == {s \in SUBSET S : IsFiniteSet(names(s))
                                     /\ Cardinality(names(s)) = Cardinality(s)}
<1>1. {} \in P
  <2>1. names({}) = {}
    OBVIOUS
  <2> QED
    BY <2>1, FS_EmptySet
<1>2. ASSUME NEW s \in SUBSET S, NEW x \in S \ s, s \in P PROVE s \union {x} \in P
  <2>1. names(s \union {x}) = names(s) \union {name[x]} /\ name[x] \notin names(s)
    OBVIOUS
  <2>2. IsFiniteSet(s) /\ Cardinality(s \union {x}) = Cardinality(s) + 1
    BY FS_Subset, FS_AddElement
  <2>3. IsFiniteSet(names(s)) /\ Cardinality(names(s)) = Cardinality(s)
    BY <1>2
  <2> HIDE DEF names
  <2>4. /\ IsFiniteSet(names(s) \union {name[x]})
        /\ Cardinality(names(s) \union {name[x]}) = Cardinality(names(s)) + 1
    BY <2>1, <2>3, FS_AddElement
  <2> QED
    BY <2>1, <2>2, <2>3, <2>4
<1> HIDE DEF P
<1>3. S \in P
  BY <1>1, <1>2, SumInduction
<1> QED
  BY <1>3 DEF P

\* The same numbers under other names.
THEOREM SumRenamed ==
    ASSUME NEW S, IsFiniteSet(S), NEW name, NEW f, NEW g,
           \A x, y \in S : name[x] = name[y] => x = y,
           \A x \in S : f[x] \in Int /\ g[name[x]] = f[x]
    PROVE  SumFunctionOnSet(g, {name[x] : x \in S}) = SumFunctionOnSet(f, S)
<1> DEFINE names(s) == {name[x] : x \in s}
           P == {s \in SUBSET S : SumFunctionOnSet(g, names(s)) = SumFunctionOnSet(f, s)}
<1>1. {} \in P
  <2>1. names({}) = {}
    OBVIOUS
  <2> QED
    BY <2>1, SumOfNone
<1>2. ASSUME NEW s \in SUBSET S, NEW x \in S \ s, s \in P PROVE s \union {x} \in P
  <2>1. IsFiniteSet(s) /\ IsFiniteSet(names(s))
    BY FS_Subset, NamesCounted
  <2>2. names(s \union {x}) = names(s) \union {name[x]} /\ name[x] \notin names(s)
    OBVIOUS
  <2>3. \A n \in names(s) \union {name[x]} : g[n] \in Int
    OBVIOUS
  <2>4. SumFunctionOnSet(f, s \union {x}) = SumFunctionOnSet(f, s) + f[x]
    BY <2>1, SumOfOneMore
  <2>5. SumFunctionOnSet(g, names(s)) = SumFunctionOnSet(f, s)
    BY <1>2
  <2> HIDE DEF names
  <2>6. SumFunctionOnSet(g, names(s \union {x})) = SumFunctionOnSet(g, names(s)) + g[name[x]]
    <3> DEFINE old == names(s)
               new == name[x]
    <3>1. IsFiniteSet(old) /\ new \notin old /\ \A n \in old \union {new} : g[n] \in Int
      BY <2>1, <2>2, <2>3
    <3> HIDE DEF old, new
    <3>2. SumFunctionOnSet(g, old \union {new}) = SumFunctionOnSet(g, old) + g[new]
      BY <3>1, SumOfOneMore
    <3> QED
      BY <2>2, <3>2 DEF old, new
  <2> QED
    BY <2>4, <2>5, <2>6
<1> HIDE DEF P
<1>3. S \in P
  BY <1>1, <1>2, SumInduction
<1> QED
  BY <1>3 DEF P

\* The members of S in part p.
InPart(S, part, p) == {x \in S : part[x] = p}

\* Counting part by part counts everything.
THEOREM SumOfParts ==
    ASSUME NEW S, IsFiniteSet(S), NEW Parts, IsFiniteSet(Parts),
           NEW part, \A x \in S : part[x] \in Parts,
           NEW count, \A p \in Parts : count[p] = Cardinality(InPart(S, part, p))
    PROVE  SumFunctionOnSet(count, Parts) = Cardinality(S)
<1> DEFINE counts(s) == [p \in Parts |-> Cardinality({x \in s : part[x] = p})]
           sum(s) == SumFunctionOnSet(counts(s), Parts)
           P == {s \in SUBSET S : sum(s) = Cardinality(s)}
<1>1. \A s \in SUBSET S : \A p \in Parts : counts(s)[p] \in Nat
  BY FS_Subset, FS_CardinalityType
<1>2. {} \in P
  <2>1. \A p \in Parts : counts({})[p] = 0
    <3>1. \A p : {x \in {} : part[x] = p} = {}
      OBVIOUS
    <3> QED
      BY <3>1, FS_EmptySet
  <2>2. sum({}) = 0
    <3>1. \A p \in Parts : counts({})[p] \in Nat
      BY <2>1
    <3> HIDE DEF counts
    <3>2. sum({}) \in Nat /\ ~(sum({}) > 0)
      BY <2>1, <3>1, SumOfNaturals
    <3> QED
      BY <3>2
  <2> QED
    BY <2>2, FS_EmptySet
<1>3. ASSUME NEW s \in SUBSET S, NEW x \in S \ s, s \in P PROVE s \union {x} \in P
  <2> DEFINE t == s \union {x}
             here == part[x]
             others == Parts \ {here}
  <2>1. IsFiniteSet(s) /\ IsFiniteSet(others) /\ here \in Parts
    BY FS_Subset
  <2>2. Cardinality(t) = Cardinality(s) + 1 /\ Cardinality(s) \in Nat
    BY <2>1, FS_AddElement, FS_CardinalityType
  <2>3. counts(t)[here] = counts(s)[here] + 1
    <3>1. {y \in t : part[y] = here} = {y \in s : part[y] = here} \union {x}
      OBVIOUS
    <3>2. IsFiniteSet({y \in s : part[y] = here}) /\ x \notin {y \in s : part[y] = here}
      BY <2>1, FS_Subset
    <3>3. Cardinality({y \in t : part[y] = here}) = Cardinality({y \in s : part[y] = here}) + 1
      BY <3>1, <3>2, FS_AddElement
    <3> QED
      BY <2>1, <3>3
  <2>4. \A p \in others : counts(t)[p] = counts(s)[p]
    <3>1. ASSUME NEW p \in others PROVE {y \in t : part[y] = p} = {y \in s : part[y] = p}
      OBVIOUS
    <3> QED
      BY <3>1
  <2>5. t \in SUBSET S
    OBVIOUS
  <2> HIDE DEF counts, t, here
  <2>6. sum(t) = counts(t)[here] + SumFunctionOnSet(counts(t), others)
    BY <1>1, <2>1, <2>5, SumTakesOut
  <2>7. sum(s) = counts(s)[here] + SumFunctionOnSet(counts(s), others)
    BY <1>1, <2>1, SumTakesOut
  <2>8. SumFunctionOnSet(counts(t), others) = SumFunctionOnSet(counts(s), others)
    BY <1>1, <2>1, <2>4, <2>5, SumOfEqual
  <2>9. SumFunctionOnSet(counts(s), others) \in Int /\ counts(s)[here] \in Nat
    BY <1>1, <2>1, SumType
  <2>10. sum(s) = Cardinality(s)
    BY <1>3
  <2> HIDE DEF sum, others
  <2>11. sum(t) = Cardinality(t)
    BY <2>2, <2>3, <2>6, <2>7, <2>8, <2>9, <2>10
  <2> QED
    BY <2>5, <2>11 DEF t
<1>4. S \in P
  <2> HIDE DEF P
  <2> QED
    BY <1>2, <1>3, SumInduction
<1>5. \A p \in Parts : count[p] \in Int /\ count[p] = counts(S)[p]
  BY <1>1 DEF InPart
<1>6. SumFunctionOnSet(count, Parts) = SumFunctionOnSet(counts(S), Parts)
  <2> HIDE DEF counts
  <2> QED
    BY <1>5, SumOfEqual
<1> QED
  BY <1>4, <1>6
=============================================================================
