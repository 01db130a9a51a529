------------------------------ MODULE DataFacts ------------------------------
(***************************************************************************)
(* Facts about the data of the models that several proofs need: sequences   *)
(* of rows that have no common type, least elements, sums over sets, and    *)
(* money (Money.tla).                                                       *)
(*                                                                         *)
(* Induction is by a least counterexample: a set of naturals that is not    *)
(* empty has a least element (Least), so a class of finite sets has one of  *)
(* the fewest elements (LeastSet), and what holds of that one because it    *)
(* holds of everything smaller has no counterexample.                       *)
(***************************************************************************)
EXTENDS Integers, Sequences, FiniteSets, Functions, SequenceTheorems, FiniteSetTheorems,
        WellFoundedInduction, TLAPS, Money

-----------------------------------------------------------------------------
(* Sequences: a row is added at the end, or one is changed. *)

IsSeq(s) == \E n \in Nat : s = [i \in 1..n |-> s[i]]

(* A sequence is one over its own elements, numbered from 1. *)
LEMMA SeqFacts ==
    ASSUME NEW s, IsSeq(s)
    PROVE  /\ s \in Seq(Range(s)) /\ Len(s) \in Nat
           /\ DOMAIN s = 1..Len(s) /\ s = [i \in 1..Len(s) |-> s[i]]
<1>1. PICK n \in Nat : s = [i \in 1..n |-> s[i]]
  BY DEF IsSeq
<1>2. s \in [1..n -> Range(s)]
  BY <1>1 DEF Range
<1>3. s \in Seq(Range(s))
  BY <1>2, SeqDef
<1> QED
  BY <1>1, <1>3, LenProperties

(* What is appended comes last, the rest stays where it is. *)
LEMMA AppendFacts ==
    ASSUME NEW s, IsSeq(s), NEW e
    PROVE  /\ IsSeq(Append(s, e))
           /\ DOMAIN Append(s, e) = 1..(Len(s) + 1)
           /\ Len(Append(s, e)) = Len(s) + 1
           /\ Append(s, e) = [i \in 1..(Len(s) + 1) |-> IF i = Len(s) + 1 THEN e ELSE s[i]]
<1> DEFINE S == Range(s) \cup {e}
<1>1. s \in Seq(S)
  BY SeqFacts, SeqMonotonic
<1>2. /\ Append(s, e) \in Seq(S) /\ Len(Append(s, e)) = Len(s) + 1
      /\ \A i \in 1..Len(s) : Append(s, e)[i] = s[i]
      /\ Append(s, e)[Len(s) + 1] = e
  BY <1>1, AppendProperties
<1>3. /\ DOMAIN Append(s, e) = 1..(Len(s) + 1)
      /\ Append(s, e) \in [1..(Len(s) + 1) -> S] /\ Len(s) \in Nat
  BY <1>1, <1>2, LenProperties, SeqFacts
<1>4. Append(s, e) = [i \in 1..(Len(s) + 1) |-> Append(s, e)[i]]
  BY <1>3
<1>5. \A i \in 1..(Len(s) + 1) : Append(s, e)[i] = IF i = Len(s) + 1 THEN e ELSE s[i]
  BY <1>2, <1>3
<1>6. Append(s, e) = [i \in 1..(Len(s) + 1) |-> IF i = Len(s) + 1 THEN e ELSE s[i]]
  BY <1>4, <1>5
<1>7. Len(s) + 1 \in Nat
  BY <1>3
<1>8. IsSeq(Append(s, e))
  BY <1>4, <1>7 DEF IsSeq
<1> QED
  BY <1>2, <1>3, <1>6, <1>8

(* A changed element changes neither length nor places. *)
LEMMA ExceptFacts ==
    ASSUME NEW s, IsSeq(s), NEW k \in DOMAIN s, NEW e
    PROVE  /\ IsSeq([s EXCEPT ![k] = e]) /\ Len([s EXCEPT ![k] = e]) = Len(s)
           /\ DOMAIN [s EXCEPT ![k] = e] = DOMAIN s
<1> DEFINE t == [s EXCEPT ![k] = e]
<1>1. Len(s) \in Nat /\ t = [i \in 1..Len(s) |-> t[i]]
  BY SeqFacts
<1>2. IsSeq(t)
  BY <1>1 DEF IsSeq
<1>3. DOMAIN t = 1..Len(t) /\ DOMAIN t = 1..Len(s) /\ Len(t) \in Nat
  BY <1>1, <1>2, SeqFacts
<1> QED
  BY <1>1, <1>2, <1>3, SeqFacts

(* What is made of the rows one by one is as long, grows with them, and      *)
(* changes where they do.                                                    *)
LEMMA ImageOfSeq ==
    ASSUME NEW rows, IsSeq(rows), NEW s, s = [i \in DOMAIN rows |-> s[i]]
    PROVE  IsSeq(s) /\ DOMAIN s = DOMAIN rows /\ Len(s) = Len(rows)
<1>1. Len(rows) \in Nat /\ DOMAIN rows = 1..Len(rows)
  BY SeqFacts
<1>2. IsSeq(s) /\ DOMAIN s = DOMAIN rows
  BY <1>1 DEF IsSeq
<1>3. DOMAIN s = 1..Len(s) /\ Len(s) \in Nat
  BY <1>2, SeqFacts
<1> QED
  BY <1>1, <1>2, <1>3

LEMMA ImageGrows ==
    ASSUME NEW rows, IsSeq(rows), NEW e, NEW more, more = Append(rows, e),
           NEW s, s = [i \in DOMAIN rows |-> s[i]], NEW t, t = [i \in DOMAIN more |-> t[i]],
           \A i \in DOMAIN rows : more[i] = rows[i] => t[i] = s[i]
    PROVE  /\ Len(t) = Len(s) + 1 /\ t = Append(s, t[Len(s) + 1])
           /\ Len(s) + 1 \in DOMAIN more /\ more[Len(s) + 1] = e
<1>1. IsSeq(s) /\ DOMAIN s = DOMAIN rows /\ Len(s) = Len(rows)
  BY ImageOfSeq
<1>2. PICK n \in Nat : n = Len(rows) /\ DOMAIN rows = 1..n
  BY SeqFacts
<1>3. DOMAIN more = 1..(n + 1) /\ \A i \in 1..(n + 1) : more[i] = IF i = n + 1 THEN e ELSE rows[i]
  BY <1>2, AppendFacts
<1>4. \A i \in 1..n : t[i] = s[i]
  <2> SUFFICES ASSUME NEW i \in 1..n PROVE more[i] = rows[i]
    BY <1>2
  <2>1. i \in 1..(n + 1) /\ i # n + 1
    OBVIOUS
  <2> QED
    BY <1>3, <2>1
<1>5. \A i \in 1..(n + 1) : i # n + 1 => i \in 1..n
  OBVIOUS
<1>6. PICK last : last = t[n + 1]
  OBVIOUS
<1>7. t = [i \in 1..(n + 1) |-> IF i = n + 1 THEN last ELSE s[i]]
  BY <1>3, <1>4, <1>5, <1>6
<1>8. Append(s, last) = [i \in 1..(n + 1) |-> IF i = n + 1 THEN last ELSE s[i]]
      /\ Len(Append(s, last)) = n + 1
  <2>1. IsSeq(s) /\ Len(s) = n
    BY <1>1, <1>2
  <2> QED
    BY <2>1, AppendFacts
<1>9. t = Append(s, last)
  BY <1>7, <1>8
<1> QED
  BY <1>1, <1>2, <1>3, <1>6, <1>8, <1>9

LEMMA ImageChanges ==
    ASSUME NEW rows, IsSeq(rows), NEW k \in DOMAIN rows, NEW e,
           NEW other, other = [rows EXCEPT ![k] = e],
           NEW s, s = [i \in DOMAIN rows |-> s[i]], NEW t, t = [i \in DOMAIN other |-> t[i]],
           \A i \in DOMAIN rows : other[i] = rows[i] => t[i] = s[i]
    PROVE  Len(t) = Len(s) /\ t = [s EXCEPT ![k] = t[k]] /\ k \in DOMAIN s
<1>1. IsSeq(s) /\ DOMAIN s = DOMAIN rows
  BY ImageOfSeq
<1>2. PICK new : new = t[k]
  OBVIOUS
<1>3. \A i \in DOMAIN rows : t[i] = IF i = k THEN new ELSE s[i]
  BY <1>2
<1>4. t = [s EXCEPT ![k] = new]
  BY <1>1, <1>3
<1> QED
  BY <1>1, <1>2, <1>4, ExceptFacts

-----------------------------------------------------------------------------
(* Least elements *)

(* A set of naturals that is not empty has a least element. *)
LEMMA Least ==
    ASSUME NEW T \in SUBSET Nat, T # {}
    PROVE  \E n \in T : \A m \in T : n <= m
<1> DEFINE R == {ss \in Nat \X Nat : ss[1] < ss[2]}
<1>1. R = OpToRel(<, Nat)
  BY DEF OpToRel
<1>2. IsWellFoundedOn(R, Nat)
  BY <1>1, NatLessThanWellFounded
<1>3. \A m, n \in Nat : <<m, n>> \in R <=> m < n
  OBVIOUS
<1> HIDE DEF R
<1>4. PICK n \in T : \A m \in T : ~ (<<m, n>> \in R)
  BY <1>2, WFMin
<1>5. \A m \in T : n \in Nat /\ m \in Nat /\ ~ (m < n)
  BY <1>3, <1>4
<1> QED
  BY <1>5

(* Among finite sets, one has the fewest elements. *)
LEMMA LeastSet ==
    ASSUME NEW C, C # {}, \A s \in C : IsFiniteSet(s)
    PROVE  \E s \in C : \A t \in C : Cardinality(s) <= Cardinality(t)
<1> DEFINE T == {Cardinality(s) : s \in C}
<1>1. T \in SUBSET Nat /\ T # {}
  BY FS_CardinalityType
<1>2. PICK n \in T : \A m \in T : n <= m
  BY <1>1, Least
<1> QED
  BY <1>2

(* A proper subset of a finite set is finite and has fewer elements. *)
LEMMA Smaller ==
    ASSUME NEW s, IsFiniteSet(s), NEW t \in SUBSET s, t # s
    PROVE  IsFiniteSet(t) /\ Cardinality(t) < Cardinality(s) /\ Cardinality(t) \in Nat /\ Cardinality(s) \in Nat
<1>1. IsFiniteSet(t) /\ Cardinality(t) <= Cardinality(s) /\ Cardinality(t) # Cardinality(s)
  BY FS_Subset
<1> QED
  BY <1>1, FS_CardinalityType

-----------------------------------------------------------------------------
(* Sums.  Sums(g, f, S) says that g is the function that the fold of        *)
(* SumFunctionOnSet recurs with: g[s] is the sum of f over each s in S.      *)
First(s) == CHOOSE x \in s : TRUE
Sums(g, f, S) ==
    g = [s \in SUBSET S |-> IF s = {} THEN 0 ELSE f[First(s)] + g[s \ {First(s)}]]

(* The fold is the value of such a function, if there is one. *)
LEMMA SumDef == \A f, S : SumFunctionOnSet(f, S) = (CHOOSE g : Sums(g, f, S))[S]
  BY DEF SumFunctionOnSet, FoldFunctionOnSet, MapThenFoldSet, Sums, First

(* What such a function says of one set. *)
LEMMA SumsAt ==
    ASSUME NEW g, NEW f, NEW S, Sums(g, f, S), NEW s \in SUBSET S
    PROVE  /\ g[s] = IF s = {} THEN 0 ELSE f[First(s)] + g[s \ {First(s)}]
           /\ s # {} => First(s) \in s
           /\ s \ {First(s)} \in SUBSET S
<1>1. s # {} => First(s) \in s
  BY DEF First
<1>2. g = [t \in SUBSET S |-> IF t = {} THEN 0 ELSE f[First(t)] + g[t \ {First(t)}]]
  BY DEF Sums
<1>3. g[s] = IF s = {} THEN 0 ELSE f[First(s)] + g[s \ {First(s)}]
  BY <1>2
<1> QED
  BY <1>1, <1>3

(* Two of them agree wherever both are defined. *)
LEMMA SumsAgree ==
    ASSUME NEW f, NEW S, NEW g, Sums(g, f, S), NEW T, NEW h, Sums(h, f, T),
           NEW u \in SUBSET (S \cap T), IsFiniteSet(u)
    PROVE  g[u] = h[u]
<1> DEFINE C == {s \in SUBSET u : g[s] # h[s]}
<1> SUFFICES ASSUME C # {} PROVE FALSE
  OBVIOUS
<1>1. \A s \in C : IsFiniteSet(s)
  BY FS_Subset
<1>2. PICK s \in C : \A t \in C : Cardinality(s) <= Cardinality(t)
  BY <1>1, LeastSet
<1>3. /\ g[s] = IF s = {} THEN 0 ELSE f[First(s)] + g[s \ {First(s)}]
      /\ s # {} => First(s) \in s
  <2>1. s \in SUBSET S
    OBVIOUS
  <2> QED
    BY <2>1, SumsAt
<1>4. h[s] = IF s = {} THEN 0 ELSE f[First(s)] + h[s \ {First(s)}]
  <2>1. s \in SUBSET T
    OBVIOUS
  <2> QED
    BY <2>1, SumsAt
<1>5. s # {} /\ s \ {First(s)} \in C
  BY <1>3, <1>4
<1>6. Cardinality(s \ {First(s)}) < Cardinality(s) /\ Cardinality(s) \in Nat
      /\ Cardinality(s \ {First(s)}) \in Nat
  BY <1>1, <1>3, <1>5, Smaller
<1> QED
  BY <1>2, <1>5, <1>6

(* There is one over every finite set: the sum of a set is made from those  *)
(* of its proper subsets.                                                    *)
LEMMA SumsExist ==
    ASSUME NEW f, NEW S, IsFiniteSet(S)
    PROVE  \E g : Sums(g, f, S)
<1> DEFINE C == {s \in SUBSET S : ~ \E g : Sums(g, f, s)}
           sum(u) == (CHOOSE g : Sums(g, f, u))[u]
<1> SUFFICES ASSUME C # {} PROVE FALSE
  OBVIOUS
<1>1. \A s \in C : IsFiniteSet(s)
  BY FS_Subset
<1>2. PICK s \in C : \A t \in C : Cardinality(s) <= Cardinality(t)
  BY <1>1, LeastSet
<1>3. IsFiniteSet(s) /\ ~ \E g : Sums(g, f, s)
  BY <1>1
<1> DEFINE g == [t \in SUBSET s |-> IF t = {} THEN 0 ELSE f[First(t)] + sum(t \ {First(t)})]
<1>4. ASSUME NEW t \in SUBSET s, t # s
      PROVE  \E h : Sums(h, f, t)
  <2>1. Cardinality(t) < Cardinality(s) /\ Cardinality(t) \in Nat /\ Cardinality(s) \in Nat
    BY <1>3, <1>4, Smaller
  <2>2. t \notin C
    BY <1>2, <2>1
  <2> QED
    BY <2>2
<1>5. ASSUME NEW t \in SUBSET s, t # s
      PROVE  g[t] = sum(t)
  <2> DEFINE h == CHOOSE h : Sums(h, f, t)
             u == t \ {First(t)}
  <2>1. Sums(h, f, t)
    BY <1>4, <1>5
  <2>2. h[t] = IF t = {} THEN 0 ELSE f[First(t)] + h[u]
    BY <2>1, SumsAt
  <2>3. ASSUME t # {} PROVE h[u] = sum(u)
    <3> DEFINE k == CHOOSE k : Sums(k, f, u)
    <3>1. u \in SUBSET s /\ u # s /\ u \in SUBSET (t \cap u) /\ IsFiniteSet(u)
      BY <1>3, <1>5, FS_Subset
    <3>2. Sums(k, f, u)
      BY <1>4, <3>1
    <3> HIDE DEF k, h, u
    <3>3. h[u] = k[u]
      BY <2>1, <3>1, <3>2, SumsAgree
    <3> QED
      BY <3>3 DEF k
  <2>4. g[t] = IF t = {} THEN 0 ELSE f[First(t)] + sum(u)
    OBVIOUS
  <2>5. sum(t) = h[t]
    OBVIOUS
  <2> QED
    BY <2>2, <2>3, <2>4, <2>5
<1>6. ASSUME NEW t \in SUBSET s, t # {}
      PROVE  g[t \ {First(t)}] = sum(t \ {First(t)})
  <2>1. First(t) \in t
    BY <1>6 DEF First
  <2> QED
    BY <1>5, <2>1
<1> HIDE DEF sum
<1>7. g = [t \in SUBSET s |-> IF t = {} THEN 0 ELSE f[First(t)] + g[t \ {First(t)}]]
  BY <1>6
<1> QED
  BY <1>3, <1>7 DEF Sums

(* So the sum can be taken apart at the element the fold chooses, ... *)
LEMMA SumFirst ==
    ASSUME NEW f, NEW S, IsFiniteSet(S)
    PROVE  /\ S = {} => SumFunctionOnSet(f, S) = 0
           /\ S # {} => /\ First(S) \in S
                        /\ SumFunctionOnSet(f, S) = f[First(S)] + SumFunctionOnSet(f, S \ {First(S)})
<1> DEFINE g == CHOOSE g : Sums(g, f, S)
           u == S \ {First(S)}
           h == CHOOSE h : Sums(h, f, u)
<1>1. Sums(g, f, S)
  BY SumsExist
<1>2. IsFiniteSet(u) /\ u \in SUBSET (S \cap u)
  BY FS_Subset
<1>3. Sums(h, f, u)
  BY <1>2, SumsExist
<1>4. SumFunctionOnSet(f, S) = g[S] /\ SumFunctionOnSet(f, u) = h[u]
  BY SumDef
<1> HIDE DEF g, h, u
<1>5. g[u] = h[u]
  BY <1>1, <1>2, <1>3, SumsAgree
<1>6. /\ g[S] = IF S = {} THEN 0 ELSE f[First(S)] + g[u]
      /\ S # {} => First(S) \in S
  BY <1>1, SumsAt DEF u
<1> QED
  BY <1>4, <1>5, <1>6 DEF u

(* ... is a number, ... *)
LEMMA SumInt ==
    ASSUME NEW f, NEW S, IsFiniteSet(S), \A x \in S : f[x] \in Int
    PROVE  SumFunctionOnSet(f, S) \in Int
<1> DEFINE C == {s \in SUBSET S : SumFunctionOnSet(f, s) \notin Int}
<1> SUFFICES ASSUME C # {} PROVE FALSE
  OBVIOUS
<1>1. \A s \in C : IsFiniteSet(s)
  BY FS_Subset
<1>2. PICK s \in C : \A t \in C : Cardinality(s) <= Cardinality(t)
  BY <1>1, LeastSet
<1> DEFINE u == s \ {First(s)}
<1>3. /\ s = {} => SumFunctionOnSet(f, s) = 0
      /\ s # {} => First(s) \in s /\ SumFunctionOnSet(f, s) = f[First(s)] + SumFunctionOnSet(f, u)
  BY <1>1, SumFirst
<1>4. s # {} /\ f[First(s)] \in Int /\ u \in SUBSET s /\ u # s
  BY <1>3
<1>5. u \in C
  BY <1>3, <1>4
<1>6. Cardinality(u) < Cardinality(s) /\ Cardinality(s) \in Nat /\ Cardinality(u) \in Nat
  BY <1>1, <1>4, Smaller
<1> QED
  BY <1>2, <1>5, <1>6

(* ... and can be taken apart at any element. *)
LEMMA SumTake ==
    ASSUME NEW f, NEW S, IsFiniteSet(S), \A x \in S : f[x] \in Int, NEW x \in S
    PROVE  SumFunctionOnSet(f, S) = f[x] + SumFunctionOnSet(f, S \ {x})
<1> DEFINE Sum(s) == SumFunctionOnSet(f, s)
           C == {s \in SUBSET S : \E y \in s : Sum(s) # f[y] + Sum(s \ {y})}
<1> SUFFICES ASSUME C # {} PROVE FALSE
  OBVIOUS
<1>0. \A s \in SUBSET S : IsFiniteSet(s) /\ Sum(s) \in Int
  <2>1. ASSUME NEW s \in SUBSET S PROVE IsFiniteSet(s) /\ Sum(s) \in Int
    <3>1. IsFiniteSet(s) /\ \A y \in s : f[y] \in Int
      BY FS_Subset
    <3> QED
      BY <3>1, SumInt
  <2> QED
    BY <2>1
<1>1. \A s \in C : IsFiniteSet(s)
  BY <1>0
<1>2. PICK s \in C : \A t \in C : Cardinality(s) <= Cardinality(t)
  BY <1>1, LeastSet
<1>3. PICK y \in s : Sum(s) # f[y] + Sum(s \ {y})
  OBVIOUS
<1> DEFINE z == First(s)
<1>4. z \in s /\ Sum(s) = f[z] + Sum(s \ {z})
  BY <1>1, SumFirst
<1>5. y # z
  BY <1>3, <1>4
<1>6. ASSUME NEW t \in SUBSET s, t # s, NEW w \in t
      PROVE  Sum(t) = f[w] + Sum(t \ {w})
  <2>1. Cardinality(t) < Cardinality(s) /\ Cardinality(s) \in Nat /\ Cardinality(t) \in Nat
    BY <1>1, <1>6, Smaller
  <2>2. t \notin C
    BY <1>2, <2>1
  <2> QED
    BY <2>2
<1>7. Sum(s \ {z}) = f[y] + Sum((s \ {z}) \ {y})
  BY <1>4, <1>5, <1>6
<1>8. Sum(s \ {y}) = f[z] + Sum((s \ {y}) \ {z})
  BY <1>4, <1>5, <1>6
<1>9. (s \ {z}) \ {y} = (s \ {y}) \ {z}
  OBVIOUS
<1>10. f[y] \in Int /\ f[z] \in Int /\ Sum((s \ {y}) \ {z}) \in Int
  BY <1>0, <1>4
<1>11. Sum(s) = f[z] + (f[y] + Sum((s \ {y}) \ {z}))
  BY <1>4, <1>7, <1>9
<1> HIDE DEF Sum, z
<1> QED
  BY <1>3, <1>8, <1>10, <1>11

(* A sum depends on the values over its set alone. *)
LEMMA SumSame ==
    ASSUME NEW f, NEW g, NEW S, IsFiniteSet(S), \A x \in S : f[x] = g[x]
    PROVE  SumFunctionOnSet(f, S) = SumFunctionOnSet(g, S)
<1> DEFINE F(s) == SumFunctionOnSet(f, s)
           G(s) == SumFunctionOnSet(g, s)
           C == {s \in SUBSET S : F(s) # G(s)}
<1> SUFFICES ASSUME C # {} PROVE FALSE
  OBVIOUS
<1>1. \A s \in C : IsFiniteSet(s)
  BY FS_Subset
<1>2. PICK s \in C : \A t \in C : Cardinality(s) <= Cardinality(t)
  BY <1>1, LeastSet
<1> DEFINE x == First(s)
           u == s \ {x}
<1>3. /\ s = {} => F(s) = 0 /\ G(s) = 0
      /\ s # {} => x \in s /\ F(s) = f[x] + F(u) /\ G(s) = g[x] + G(u)
  BY <1>1, SumFirst
<1>4. s # {} /\ u \in SUBSET s /\ u # s /\ f[x] = g[x]
  BY <1>3
<1>5. u \in C
  <2>1. F(s) # G(s) /\ u \in SUBSET S
    OBVIOUS
  <2> QED
    BY <1>3, <1>4, <2>1
<1>6. Cardinality(u) < Cardinality(s) /\ Cardinality(s) \in Nat /\ Cardinality(u) \in Nat
  BY <1>1, <1>4, Smaller
<1> QED
  BY <1>2, <1>5, <1>6

(* Two sets apart add up. *)
LEMMA SumUnion ==
    ASSUME NEW f, NEW S, NEW T, IsFiniteSet(S), IsFiniteSet(T), S \cap T = {},
           \A x \in S \cup T : f[x] \in Int
    PROVE  SumFunctionOnSet(f, S \cup T) = SumFunctionOnSet(f, S) + SumFunctionOnSet(f, T)
<1> DEFINE F(s) == SumFunctionOnSet(f, s)
           C == {s \in SUBSET S : F(s \cup T) # F(s) + F(T)}
<1> SUFFICES ASSUME C # {} PROVE FALSE
  OBVIOUS
<1>1. \A s \in SUBSET S : IsFiniteSet(s) /\ IsFiniteSet(s \cup T)
  BY FS_Subset, FS_Union
<1>2. \A s \in SUBSET S : F(s) \in Int /\ F(s \cup T) \in Int
  <2> TAKE s \in SUBSET S
  <2>1. \A x \in s \cup T : f[x] \in Int
    OBVIOUS
  <2> QED
    BY <1>1, <2>1, SumInt
<1>3. F(T) \in Int
  BY SumInt
<1>4. PICK s \in C : \A t \in C : Cardinality(s) <= Cardinality(t)
  <2>1. \A t \in C : IsFiniteSet(t)
    BY <1>1
  <2> QED
    BY <2>1, LeastSet
<1>5. s # {}
  <2> SUFFICES ASSUME s = {} PROVE FALSE
    OBVIOUS
  <2>1. F(s) = 0
    BY <1>1, SumFirst
  <2>2. s \cup T = T
    OBVIOUS
  <2> QED
    BY <1>3, <2>1, <2>2
<1>6. PICK x \in s : TRUE
  BY <1>5
<1> DEFINE u == s \ {x}
<1>7. F(s) = f[x] + F(u)
  <2>1. \A y \in s : f[y] \in Int
    OBVIOUS
  <2> QED
    BY <1>1, <2>1, SumTake
<1>8. F(s \cup T) = f[x] + F(u \cup T)
  <2>1. \A y \in s \cup T : f[y] \in Int
    OBVIOUS
  <2>2. (s \cup T) \ {x} = u \cup T
    OBVIOUS
  <2>3. F(s \cup T) = f[x] + F((s \cup T) \ {x})
    BY <1>1, <2>1, SumTake
  <2> QED
    BY <2>2, <2>3
<1>9. Cardinality(u) < Cardinality(s) /\ Cardinality(s) \in Nat /\ Cardinality(u) \in Nat
  BY <1>1, Smaller
<1>10. F(u \cup T) = F(u) + F(T)
  BY <1>4, <1>9
<1>11. f[x] \in Int /\ F(u) \in Int /\ F(s \cup T) # F(s) + F(T)
  BY <1>2
<1> HIDE DEF F, u
<1> QED
  BY <1>3, <1>7, <1>8, <1>10, <1>11

Images(h, S) == {h[x] : x \in S}

(* The sum over an image that h makes one to one. *)
LEMMA SumImage ==
    ASSUME NEW f, NEW g, NEW h, NEW S, IsFiniteSet(S),
           \A x, y \in S : h[x] = h[y] => x = y,
           \A x \in S : g[x] = f[h[x]] /\ g[x] \in Int
    PROVE  /\ SumFunctionOnSet(f, Images(h, S)) = SumFunctionOnSet(g, S)
           /\ IsFiniteSet(Images(h, S)) /\ Cardinality(Images(h, S)) = Cardinality(S)
<1> DEFINE Image(s) == {h[x] : x \in s}
           F(s) == SumFunctionOnSet(f, s)
           G(s) == SumFunctionOnSet(g, s)
           C == {s \in SUBSET S : F(Image(s)) # G(s)}
<1>1. \A s \in SUBSET S :
         IsFiniteSet(s) /\ IsFiniteSet(Image(s)) /\ Cardinality(Image(s)) = Cardinality(s)
  <2> TAKE s \in SUBSET S
  <2> DEFINE k == [x \in s |-> h[x]]
  <2>1. IsFiniteSet(s)
    BY FS_Subset
  <2>2. k \in Surjection(s, Image(s)) /\ k \in Injection(s, Image(s))
    BY DEF Surjection, Injection, IsInjective
  <2> QED
    BY <2>1, <2>2, FS_Surjection
<1>2. SUFFICES ASSUME C # {} PROVE FALSE
  BY <1>1 DEF Images
<1>3. PICK s \in C : \A t \in C : Cardinality(s) <= Cardinality(t)
  <2>1. \A t \in C : IsFiniteSet(t)
    BY <1>1
  <2> QED
    BY <1>2, <2>1, LeastSet
<1>4. s # {}
  <2> SUFFICES ASSUME s = {} PROVE FALSE
    OBVIOUS
  <2>1. F(Image(s)) = 0 /\ G(s) = 0
    <3>1. Image(s) = {} /\ IsFiniteSet(Image(s)) /\ IsFiniteSet(s)
      BY <1>1
    <3> QED
      BY <3>1, SumFirst
  <2> QED
    BY <2>1
<1>5. PICK x \in s : TRUE
  BY <1>4
<1> DEFINE u == s \ {x}
<1>6. G(s) = g[x] + G(u)
  BY <1>1, SumTake
<1>7. F(Image(s)) = f[h[x]] + F(Image(u))
  <2>1. \A y \in Image(s) : f[y] \in Int
    <3> TAKE y \in Image(s)
    <3>1. PICK z \in s : y = h[z]
      OBVIOUS
    <3> QED
      BY <3>1
  <2>2. Image(s) \ {h[x]} = Image(u) /\ h[x] \in Image(s) /\ IsFiniteSet(Image(s))
    BY <1>1
  <2>3. F(Image(s)) = f[h[x]] + F(Image(s) \ {h[x]})
    BY <2>1, <2>2, SumTake
  <2> QED
    BY <2>2, <2>3
<1>8. Cardinality(u) < Cardinality(s) /\ Cardinality(s) \in Nat /\ Cardinality(u) \in Nat
  BY <1>1, Smaller
<1>9. F(Image(u)) = G(u)
  BY <1>3, <1>8
<1>10. g[x] = f[h[x]] /\ F(Image(s)) # G(s)
  OBVIOUS
<1> HIDE DEF F, G, Image, u
<1> QED
  BY <1>6, <1>7, <1>9, <1>10

(* A sum of sums. *)
LEMMA SumPlus ==
    ASSUME NEW f, NEW g, NEW h, NEW S, IsFiniteSet(S),
           \A x \in S : f[x] \in Int /\ g[x] \in Int /\ h[x] = f[x] + g[x]
    PROVE  SumFunctionOnSet(h, S) = SumFunctionOnSet(f, S) + SumFunctionOnSet(g, S)
<1> DEFINE F(s) == SumFunctionOnSet(f, s)
           G(s) == SumFunctionOnSet(g, s)
           H(s) == SumFunctionOnSet(h, s)
           C == {s \in SUBSET S : H(s) # F(s) + G(s)}
<1> SUFFICES ASSUME C # {} PROVE FALSE
  OBVIOUS
<1>1. \A s \in SUBSET S : IsFiniteSet(s) /\ F(s) \in Int /\ G(s) \in Int
  BY FS_Subset, SumInt
<1>2. PICK s \in C : \A t \in C : Cardinality(s) <= Cardinality(t)
  <2>1. \A t \in C : IsFiniteSet(t)
    BY <1>1
  <2> QED
    BY <2>1, LeastSet
<1> DEFINE x == First(s)
           u == s \ {x}
<1>3. /\ s = {} => F(s) = 0 /\ G(s) = 0 /\ H(s) = 0
      /\ s # {} => x \in s /\ F(s) = f[x] + F(u) /\ G(s) = g[x] + G(u) /\ H(s) = h[x] + H(u)
  BY <1>1, SumFirst
<1>4. H(s) # F(s) + G(s) /\ IsFiniteSet(s)
  BY <1>1
<1>5. s # {} /\ u \in SUBSET S /\ u # s
  BY <1>3, <1>4
<1>6. Cardinality(u) < Cardinality(s) /\ Cardinality(s) \in Nat /\ Cardinality(u) \in Nat
  BY <1>4, <1>5, Smaller
<1>7. H(u) = F(u) + G(u)
  BY <1>2, <1>5, <1>6
<1>8. /\ f[x] \in Int /\ g[x] \in Int /\ h[x] = f[x] + g[x]
      /\ F(u) \in Int /\ G(u) \in Int
  BY <1>1, <1>3, <1>5
<1> HIDE DEF F, G, H, x, u
<1> QED
  BY <1>3, <1>4, <1>5, <1>7, <1>8

-----------------------------------------------------------------------------
(* What a function gives for the elements of a finite set, and zero, has a largest. *)
LEMMA LargestOf ==
    ASSUME NEW S, IsFiniteSet(S), NEW f, \A x \in S : f[x] \in Int
    PROVE  \E m \in {0} \cup {f[x] : x \in S} : \A n \in {0} \cup {f[x] : x \in S} : n <= m
<1> DEFINE T(s) == {0} \cup {f[x] : x \in s}
           C == {s \in SUBSET S : ~ \E m \in T(s) : \A n \in T(s) : n <= m}
<1> SUFFICES ASSUME C # {} PROVE FALSE
  OBVIOUS
<1>1. \A s \in C : IsFiniteSet(s)
  BY FS_Subset
<1>2. PICK s \in C : \A t \in C : Cardinality(s) <= Cardinality(t)
  <2> HIDE DEF C
  <2> QED
    BY <1>1, LeastSet
<1>3. PICK x \in s : TRUE
  OBVIOUS
<1>4. s \ {x} \notin C
  <2>1. Cardinality(s \ {x}) < Cardinality(s) /\ Cardinality(s \ {x}) \in Nat /\ Cardinality(s) \in Nat
    BY <1>1, <1>3, Smaller
  <2> HIDE DEF C
  <2> QED
    BY <1>2, <2>1
<1>5. PICK m \in T(s \ {x}) : \A n \in T(s \ {x}) : n <= m
  BY <1>4
<1>6. T(s) = T(s \ {x}) \cup {f[x]} /\ T(s) \in SUBSET Int /\ f[x] \in T(s) /\ m \in T(s)
  BY <1>3, <1>5
<1>7. s \in SUBSET S /\ ~ \E k \in T(s) : \A n \in T(s) : n <= k
  OBVIOUS
<1> HIDE DEF T, C
<1>8. CASE f[x] <= m
  BY <1>5, <1>6, <1>7, <1>8
<1>9. CASE m < f[x]
  BY <1>5, <1>6, <1>7, <1>9
<1> QED
  BY <1>6, <1>8, <1>9

-----------------------------------------------------------------------------
(* Money *)

(* What \div leaves is less than the divisor. *)
LEMMA Division ==
    ASSUME NEW n \in Int, NEW d \in Nat, d > 0
    PROVE  n \div d \in Int /\ d * (n \div d) <= n /\ n < d * (n \div d) + d
<1>1. n = d * (n \div d) + (n % d) /\ n % d \in 0..(d - 1) /\ n \div d \in Int
  OBVIOUS
<1> QED
  BY <1>1

(* What is rounded is at most half a unit off. *)
LEMMA RoundedFacts ==
    ASSUME NEW n \in Int, NEW d \in Nat, d > 0
    PROVE  /\ Rounded(n, d) \in Int
           /\ 2 * (n - d * Rounded(n, d)) <= d /\ - 2 * (n - d * Rounded(n, d)) <= d
<1>1. CASE n >= 0
  <2> DEFINE q == (2 * n + d) \div (2 * d)
  <2>1. Rounded(n, d) = q
    BY <1>1 DEF Rounded
  <2>2. q \in Int /\ (2 * d) * q <= 2 * n + d /\ 2 * n + d < (2 * d) * q + 2 * d
    <3>1. 2 * n + d \in Int /\ 2 * d \in Nat /\ 2 * d > 0
      OBVIOUS
    <3> QED
      BY <3>1, Division
  <2>3. (2 * d) * q = 2 * (d * q) /\ d * q \in Int
    BY <2>2
  <2> HIDE DEF q
  <2> QED
    BY <2>1, <2>2, <2>3
<1>2. CASE n < 0
  <2> DEFINE q == (d - 2 * n) \div (2 * d)
  <2>1. Rounded(n, d) = - q
    BY <1>2 DEF Rounded
  <2>2. q \in Int /\ (2 * d) * q <= d - 2 * n /\ d - 2 * n < (2 * d) * q + 2 * d
    <3>1. d - 2 * n \in Int /\ 2 * d \in Nat /\ 2 * d > 0
      OBVIOUS
    <3> QED
      BY <3>1, Division
  <2>3. (2 * d) * q = 2 * (d * q) /\ d * q \in Int /\ d * (- q) = - (d * q)
    BY <2>2
  <2> HIDE DEF q
  <2> QED
    BY <2>1, <2>2, <2>3
<1> QED
  BY <1>1, <1>2

LEMMA RoundedNat ==
    ASSUME NEW n \in Nat, NEW d \in Nat, d > 0
    PROVE  Rounded(n, d) \in Nat
<1> DEFINE q == (2 * n + d) \div (2 * d)
<1>1. q \in Int /\ 2 * n + d < (2 * d) * q + 2 * d
  <2>1. 2 * n + d \in Int /\ 2 * d \in Nat /\ 2 * d > 0
    OBVIOUS
  <2> QED
    BY <2>1, Division
<1>2. Rounded(n, d) = q
  BY DEF Rounded
<1> HIDE DEF q
<1>3. q >= 0
  <2> SUFFICES ASSUME q <= -1 PROVE FALSE
    BY <1>1
  <2>1. (2 * d) * q <= (2 * d) * (-1)
    BY <1>1
  <2> QED
    BY <1>1, <2>1
<1> QED
  BY <1>1, <1>2, <1>3

(* A sum of naturals is one. *)
LEMMA SumNat ==
    ASSUME NEW f, NEW S, IsFiniteSet(S), \A x \in S : f[x] \in Nat
    PROVE  SumFunctionOnSet(f, S) \in Nat
<1> DEFINE C == {s \in SUBSET S : SumFunctionOnSet(f, s) \notin Nat}
<1> SUFFICES ASSUME C # {} PROVE FALSE
  OBVIOUS
<1>1. \A s \in C : IsFiniteSet(s)
  BY FS_Subset
<1>2. PICK s \in C : \A t \in C : Cardinality(s) <= Cardinality(t)
  BY <1>1, LeastSet
<1> DEFINE u == s \ {First(s)}
<1>3. /\ s = {} => SumFunctionOnSet(f, s) = 0
      /\ s # {} => First(s) \in s /\ SumFunctionOnSet(f, s) = f[First(s)] + SumFunctionOnSet(f, u)
  BY <1>1, SumFirst
<1>4. s # {} /\ f[First(s)] \in Nat /\ u \in SUBSET s /\ u # s
  BY <1>3
<1>5. u \in C
  BY <1>3, <1>4
<1>6. Cardinality(u) < Cardinality(s) /\ Cardinality(s) \in Nat /\ Cardinality(u) \in Nat
  BY <1>1, <1>4, Smaller
<1> QED
  BY <1>2, <1>5, <1>6

(* The total of rows, of a part of them, and of one more. *)
LEMMA TotalFacts ==
    /\ TotalOf({}) = 0
    /\ \A S : IsFiniteSet(S) /\ (\A r \in S : r.amount \in Int) => TotalOf(S) \in Int
    /\ \A S : IsFiniteSet(S) /\ (\A r \in S : r.amount \in Nat) => TotalOf(S) \in Nat
<1>1. TotalOf({}) = 0
  <2>1. IsFiniteSet({})
    BY FS_EmptySet
  <2> QED
    BY <2>1, SumFirst DEF TotalOf
<1>2. ASSUME NEW S, IsFiniteSet(S), \A r \in S : r.amount \in Int PROVE TotalOf(S) \in Int
  BY <1>2, SumInt DEF TotalOf
<1>3. ASSUME NEW S, IsFiniteSet(S), \A r \in S : r.amount \in Nat PROVE TotalOf(S) \in Nat
  BY <1>3, SumNat DEF TotalOf
<1> QED
  BY <1>1, <1>2, <1>3

LEMMA TotalUnion ==
    ASSUME NEW S, NEW T, IsFiniteSet(S), IsFiniteSet(T), S \cap T = {},
           \A r \in S \cup T : r.amount \in Int
    PROVE  TotalOf(S \cup T) = TotalOf(S) + TotalOf(T) /\ IsFiniteSet(S \cup T)
<1> DEFINE f == [r \in S \cup T |-> r.amount]
           g == [r \in S |-> r.amount]
           h == [r \in T |-> r.amount]
<1>1. SumFunctionOnSet(f, S \cup T) = SumFunctionOnSet(f, S) + SumFunctionOnSet(f, T)
  BY SumUnion
<1>2. SumFunctionOnSet(f, S) = SumFunctionOnSet(g, S)
  BY SumSame
<1>3. SumFunctionOnSet(f, T) = SumFunctionOnSet(h, T)
  BY SumSame
<1> QED
  BY <1>1, <1>2, <1>3, FS_Union DEF TotalOf

LEMMA TotalPart ==
    ASSUME NEW S, NEW T \in SUBSET S, IsFiniteSet(S), \A r \in S : r.amount \in Nat
    PROVE  TotalOf(T) <= TotalOf(S) /\ TotalOf(T) \in Nat /\ TotalOf(S) \in Nat
<1>1. IsFiniteSet(T) /\ IsFiniteSet(S \ T)
  BY FS_Subset
<1>2. TotalOf(T) \in Nat /\ TotalOf(S \ T) \in Nat /\ TotalOf(S) \in Nat
  BY <1>1, TotalFacts
<1>3. TotalOf(T \cup (S \ T)) = TotalOf(T) + TotalOf(S \ T)
  BY <1>1, TotalUnion
<1>4. T \cup (S \ T) = S
  OBVIOUS
<1> QED
  BY <1>2, <1>3, <1>4

LEMMA TotalAdds ==
    ASSUME NEW S, NEW r, IsFiniteSet(S), r \notin S, r.amount \in Int, \A q \in S : q.amount \in Int
    PROVE  /\ TotalOf(S \cup {r}) = TotalOf(S) + r.amount
           /\ TotalOf(S) \in Int /\ IsFiniteSet(S \cup {r})
<1>1. IsFiniteSet({r}) /\ IsFiniteSet({})
  BY FS_Singleton, FS_EmptySet
<1>2. TotalOf(S \cup {r}) = TotalOf(S) + TotalOf({r}) /\ IsFiniteSet(S \cup {r})
  BY <1>1, TotalUnion
<1>3. TotalOf({r}) = r.amount
  <2> DEFINE f == [q \in {r} |-> q.amount]
  <2>1. f[r] = r.amount /\ {r} \ {r} = {} /\ r \in {r}
    OBVIOUS
  <2>2. SumFunctionOnSet(f, {r}) = f[r] + SumFunctionOnSet(f, {r} \ {r})
    BY <1>1, <2>1, SumTake
  <2>3. SumFunctionOnSet(f, {}) = 0
    BY <1>1, SumFirst
  <2> HIDE DEF f
  <2>4. SumFunctionOnSet(f, {r}) = r.amount
    BY <2>1, <2>2, <2>3
  <2> QED
    BY <2>4 DEF TotalOf, f
<1> QED
  BY <1>2, <1>3, TotalFacts
=============================================================================
