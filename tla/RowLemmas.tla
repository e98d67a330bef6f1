----------------------------- MODULE RowLemmas -----------------------------
(***************************************************************************)
(* Facts about the queries of Rows, for rows and places of any kind.  The  *)
(* places of a query are listed by an ascending enumeration; there is one, *)
(* and the query lists the rows along it.  What appending, overwriting and *)
(* deleting rows does to a query follows from that.                        *)
(***************************************************************************)
EXTENDS Rows, Integers, FiniteSetTheorems, FunctionTheorems, SequenceTheorems,
        WellFoundedInduction, TLAPS

(* A set of places has a first one as soon as it has any.                     *)
LEMMA LeastPlace ==
  ASSUME NEW T \in SUBSET Nat, NEW t \in T
  PROVE  \E n \in T : \A m \in T : n <= m
<1>1. IsWellFoundedOn(OpToRel(<, Nat), Nat)
  BY NatLessThanWellFounded
<1>2. PICK n \in T : \A m \in T : ~(<<m, n>> \in OpToRel(<, Nat))
  BY <1>1, WFMin
<1>3. \A m \in T : ~(m < n)
  BY <1>2 DEF OpToRel
<1>4. \A m \in T : n <= m
  <2>1. n \in Nat /\ \A m \in T : m \in Nat
    BY <1>2
  <2>. QED
    BY <1>3, <2>1
<1>. QED
  BY <1>4

(* f lists the n places in order, each once.                                  *)
Ascending(f, n, places) ==
  /\ f \in [1..n -> places]
  /\ \A k, l \in 1..n : k < l => f[k] < f[l]
  /\ \A p \in places : \E k \in 1..n : f[k] = p

(* Ranks count the places, and a later place has a higher rank.               *)
LEMMA RankBasics ==
  ASSUME NEW n \in Nat, NEW places \in SUBSET (1..n)
  PROVE  /\ IsFiniteSet(places) /\ Cardinality(places) \in Nat
         /\ \A i \in Int : Rank(i, places) \in Nat /\ Rank(i, places) <= Cardinality(places)
         /\ \A i, j \in places : i < j => Rank(i, places) < Rank(j, places)
<1>. \A p \in places : p \in Int
  OBVIOUS
<1>1. IsFiniteSet(1..n)
  BY FS_Interval
<1>2. IsFiniteSet(places) /\ Cardinality(places) \in Nat
  BY <1>1, FS_Subset, FS_CardinalityType
<1>3. ASSUME NEW i \in Int PROVE Rank(i, places) \in Nat /\ Rank(i, places) <= Cardinality(places)
  BY <1>2, FS_Subset, FS_CardinalityType DEF Rank
<1>4. ASSUME NEW i \in places, NEW j \in places, i < j  PROVE Rank(i, places) < Rank(j, places)
  <2> DEFINE A == {p \in places : p <= i}
             B == {p \in places : p <= j}
  <2>. i \in Int /\ j \in Int
    OBVIOUS
  <2>1. A \subseteq B
    <3>1. \A p \in places : p <= i => p <= j
      BY <1>4
    <3>. QED
      BY <3>1
  <2>5. j \in B /\ j \notin A
    BY <1>4
  <2>2. IsFiniteSet(B)
    BY <1>2, FS_Subset
  <2>3. Cardinality(A) <= Cardinality(B) /\ Cardinality(A) # Cardinality(B)
    BY <2>1, <2>2, <2>5, FS_Subset
  <2>4. Cardinality(A) \in Nat /\ Cardinality(B) \in Nat
    BY <2>1, <2>2, FS_Subset, FS_CardinalityType
  <2>. QED
    BY <2>3, <2>4 DEF Rank
<1>. QED
  BY <1>2, <1>3, <1>4

(* An ascending enumeration of the places is the one Those uses. *)
LEMMA ThoseUnique ==
  ASSUME NEW S, NEW rows \in Seq(S), NEW places, places \subseteq DOMAIN rows,
         NEW n \in Nat, NEW f, Ascending(f, n, places)
  PROVE  /\ Those(rows, places) \in Seq(S)
         /\ Len(Those(rows, places)) = n
         /\ \A k \in 1..n : Those(rows, places)[k] = rows[f[k]]
<1> DEFINE m == Len(rows)
<1>8. m \in Nat /\ DOMAIN rows = 1..m /\ \A i \in 1..m : rows[i] \in S
  BY LenProperties, ElementOfSeq
<1>9. places \in SUBSET (1..m)
  BY <1>8
<1> HIDE DEF m
<1>. \A p \in places : p \in Int
  BY <1>9
<1>1. f \in [1..n -> places] /\ \A k, l \in 1..n : k < l => f[k] < f[l]
  BY DEF Ascending
<1>. \A k \in 1..n : f[k] \in places /\ f[k] \in Int
  BY <1>1
<1>2. \A k, l \in 1..n : f[k] = f[l] => k = l
  <2>1. \A k \in 1..n : f[k] \in Int
    BY <1>1
  <2>2. ASSUME NEW k \in 1..n, NEW l \in 1..n, k # l PROVE f[k] # f[l]
    <3>1. CASE k < l
      BY <1>1, <2>1, <3>1
    <3>2. CASE l < k
      BY <1>1, <2>1, <3>2
    <3>. QED BY <2>2, <3>1, <3>2
  <2>. QED
    BY <2>2
<1>3. ASSUME NEW k \in 1..n  PROVE Rank(f[k], places) = k
  <2> DEFINE A == {p \in places : p <= f[k]}
             g == [i \in 1..k |-> f[i]]
  <2>1. \A i \in 1..k : i \in 1..n /\ f[i] \in A
    BY <1>1
  <2>2. ASSUME NEW p \in A  PROVE \E i \in 1..k : f[i] = p
    <3>1. PICK i \in 1..n : f[i] = p
      BY DEF Ascending
    <3>2. ~(k < i)
      BY <1>1, <3>1
    <3>. QED BY <3>1, <3>2
  <2>3. g \in Bijection(1..k, A)
    BY <1>2, <2>1, <2>2, Fun_IsBij
  <2>4. Cardinality(A) = k
    BY <2>3, FS_CountingElements DEF ExistsBijection
  <2>. QED BY <2>4 DEF Rank
<1>4. Cardinality(places) = n
  <2>1. f \in Bijection(1..n, places)
    BY <1>1, <1>2, Fun_IsBij DEF Ascending
  <2>. QED
    BY <2>1, FS_CountingElements DEF ExistsBijection
<1> DEFINE place(k) == CHOOSE i \in places : Rank(i, places) = k
<1>5. ASSUME NEW k \in 1..n  PROVE place(k) = f[k]
  <2>1. f[k] \in places /\ Rank(f[k], places) = k
    BY <1>1, <1>3
  <2>2. \A i \in places : Rank(i, places) = k => i = f[k]
    <3>1. SUFFICES ASSUME NEW i \in places, i # f[k] PROVE Rank(i, places) # k
      OBVIOUS
    <3>2. i < f[k] \/ f[k] < i
      BY <2>1, <3>1
    <3>3. /\ i < f[k] => Rank(i, places) < Rank(f[k], places)
          /\ f[k] < i => Rank(f[k], places) < Rank(i, places)
          /\ Rank(i, places) \in Nat
      BY <1>8, <1>9, <2>1, RankBasics
    <3>. QED BY <2>1, <3>2, <3>3
  <2>. QED BY <2>1, <2>2
<1>6. Those(rows, places) = [k \in 1..n |-> rows[place(k)]]
  BY <1>4 DEF Those
<1> HIDE DEF place
<1>7. \A k \in 1..n : place(k) \in 1..m
  BY <1>1, <1>5, <1>9
<1>10. Those(rows, places) \in Seq(S)
  BY <1>6, <1>7, <1>8
<1>11. Len(Those(rows, places)) = n /\ \A k \in 1..n : Those(rows, places)[k] = rows[place(k)]
  BY <1>6
<1>. QED
  BY <1>5, <1>10, <1>11

(* Every set of places has an ascending enumeration.                          *)
LEMMA AscendingExists ==
  ASSUME NEW m \in Nat, NEW places \in SUBSET (1..m)
  PROVE  \E f : Ascending(f, Cardinality(places), places)
<1> DEFINE n == Cardinality(places)
           r == [i \in places |-> Rank(i, places)]
<1>. \A p \in places : p \in Int
  OBVIOUS
<1>1. /\ IsFiniteSet(places) /\ n \in Nat
      /\ \A i \in places : Rank(i, places) \in Nat /\ Rank(i, places) <= n
      /\ \A i, j \in places : i < j => Rank(i, places) < Rank(j, places)
  BY RankBasics
<1> HIDE DEF n
<1>2. ASSUME NEW i \in places  PROVE Rank(i, places) \in 1..n
  <2> DEFINE A == {j \in places : j <= i}
  <2>1. i \in A /\ A \subseteq places
    OBVIOUS
  <2>2. IsFiniteSet(A)
    BY <1>1, <2>1, FS_Subset
  <2>3. Cardinality(A) # 0
    BY <2>1, <2>2, FS_EmptySet
  <2>4. Rank(i, places) # 0
    BY <2>3 DEF Rank
  <2>. QED
    BY <1>1, <2>4
<1>3. \A i, j \in places : Rank(i, places) = Rank(j, places) => i = j
  <2>1. SUFFICES ASSUME NEW i \in places, NEW j \in places, i # j
                 PROVE  Rank(i, places) # Rank(j, places)
    OBVIOUS
  <2>2. i < j \/ j < i
    BY <2>1
  <2>. QED
    BY <1>1, <2>2
<1>4. r \in Injection(places, 1..n)
  BY <1>2, <1>3, Fun_IsInj
<1>5. IsFiniteSet(1..n) /\ Cardinality(1..n) = n
  BY <1>1, FS_Interval
<1>6. r \in Surjection(places, 1..n)
  BY <1>4, <1>5, FS_Injection DEF n
<1>7. \A k \in 1..n : \E i \in places : Rank(i, places) = k
  <2> HIDE DEF r
  <2>1. \A k \in 1..n : \E i \in places : r[i] = k
    BY <1>6, Fun_SurjectionProperties
  <2>. QED
    BY <2>1 DEF r
<1> DEFINE place(k) == CHOOSE i \in places : Rank(i, places) = k
           f == [k \in 1..n |-> place(k)]
<1>8. \A k \in 1..n : place(k) \in places /\ Rank(place(k), places) = k
  BY <1>7
<1> HIDE DEF place
<1>9. f \in [1..n -> places]
  BY <1>8
<1>10. ASSUME NEW k \in 1..n, NEW l \in 1..n, k < l  PROVE f[k] < f[l]
  <2>1. f[k] \in places /\ f[l] \in places /\ Rank(f[k], places) = k /\ Rank(f[l], places) = l
    BY <1>8
  <2> HIDE DEF f
  <2>4. f[l] < f[k] => Rank(f[l], places) < Rank(f[k], places)
    BY <1>1, <2>1
  <2>2. ~(f[l] < f[k]) /\ f[l] # f[k]
    BY <1>10, <2>1, <2>4
  <2>3. f[k] \in Int /\ f[l] \in Int
    BY <2>1
  <2>. QED
    BY <2>2, <2>3
<1>11. ASSUME NEW p \in places  PROVE \E k \in 1..n : f[k] = p
  <2>1. Rank(p, places) \in 1..n
    BY <1>2
  <2>2. place(Rank(p, places)) = p
    BY <1>3, <1>8, <2>1
  <2>. QED
    BY <2>1, <2>2
<1>12. Ascending(f, n, places)
  BY <1>9, <1>10, <1>11 DEF Ascending
<1>. QED
  BY <1>12 DEF n

(* What a query returns: the rows at the places, each once and in order.      *)
LEMMA ThoseRows ==
  ASSUME NEW S, NEW rows \in Seq(S), NEW places, places \subseteq DOMAIN rows
  PROVE  \E f : /\ Ascending(f, Len(Those(rows, places)), places)
                /\ Those(rows, places) \in Seq(S)
                /\ \A k \in 1..Len(Those(rows, places)) : Those(rows, places)[k] = rows[f[k]]
<1>1. Len(rows) \in Nat /\ DOMAIN rows = 1..Len(rows) /\ \A i \in 1..Len(rows) : rows[i] \in S
  BY LenProperties, ElementOfSeq
<1> DEFINE n == Cardinality(places)
<1>2. PICK f : Ascending(f, n, places)
  BY <1>1, AscendingExists
<1>3. n \in Nat
  BY <1>1, RankBasics
<1> HIDE DEF n
<1>4. Those(rows, places) \in Seq(S) /\ Len(Those(rows, places)) = n
      /\ \A k \in 1..n : Those(rows, places)[k] = rows[f[k]]
  BY <1>2, <1>3, ThoseUnique
<1>. QED
  BY <1>2, <1>4

(* Deleting rows keeps the others, each once and in order.                    *)
LEMMA WithoutRows ==
  ASSUME NEW S, NEW rows \in Seq(S), NEW gone
  PROVE  /\ Without(rows, gone) \in Seq(S)
         /\ DOMAIN Without(rows, gone) = 1..Len(Without(rows, gone))
         /\ \E f : /\ f \in [DOMAIN Without(rows, gone) -> DOMAIN rows \ gone]
                   /\ \A k \in DOMAIN Without(rows, gone) : Without(rows, gone)[k] = rows[f[k]]
                   /\ \A k, l \in DOMAIN Without(rows, gone) : f[k] = f[l] => k = l
                   /\ \A i \in DOMAIN rows \ gone : \E k \in DOMAIN Without(rows, gone) : f[k] = i
<1> DEFINE new == Without(rows, gone)
           kept == DOMAIN rows \ gone
<1>7. kept \subseteq DOMAIN rows /\ new = Those(rows, kept)
  BY DEF Without
<1> HIDE DEF new, kept
<1>1. PICK f : /\ Ascending(f, Len(new), kept)
               /\ new \in Seq(S)
               /\ \A k \in 1..Len(new) : new[k] = rows[f[k]]
  BY <1>7, ThoseRows
<1>2. DOMAIN new = 1..Len(new) /\ DOMAIN rows = 1..Len(rows)
  BY <1>1, LenProperties
<1>3. f \in [1..Len(new) -> kept] /\ \A k \in 1..Len(new) : f[k] \in Int
  <2>1. f \in [1..Len(new) -> kept]
    BY <1>1 DEF Ascending
  <2>2. \A i \in kept : i \in Int
    BY <1>2, <1>7
  <2>. QED
    BY <2>1, <2>2
<1>4. ASSUME NEW k \in 1..Len(new), NEW l \in 1..Len(new), f[k] = f[l]  PROVE k = l
  <2>1. ~(f[k] < f[l]) /\ ~(f[l] < f[k])
    BY <1>3, <1>4
  <2>2. ~(k < l) /\ ~(l < k)
    BY <1>1, <2>1 DEF Ascending
  <2>. QED
    BY <2>2
<1>5. \A i \in kept : \E k \in 1..Len(new) : f[k] = i
  BY <1>1 DEF Ascending
<1>6. /\ f \in [DOMAIN new -> kept]
      /\ \A k \in DOMAIN new : new[k] = rows[f[k]]
      /\ \A k, l \in DOMAIN new : f[k] = f[l] => k = l
      /\ \A i \in kept : \E k \in DOMAIN new : f[k] = i
  BY <1>1, <1>2, <1>3, <1>4, <1>5
<1>. QED
  BY <1>1, <1>2, <1>6 DEF new, kept

-----------------------------------------------------------------------------
(* The places of the rows in Q, and that there is at most one.                *)
At(rows, Q) == {i \in DOMAIN rows : rows[i] \in Q}
AtMostOne(T) == \A i, j \in T : i = j

(* A set of places counted, in the terms of its elements.                     *)
LEMMA Counting ==
  ASSUME NEW S, NEW rows \in Seq(S), NEW T, T \subseteq DOMAIN rows
  PROVE  /\ IsFiniteSet(T) /\ Cardinality(T) \in Nat
         /\ Cardinality(T) = 0 <=> T = {}
         /\ Cardinality(T) = 1 <=> T # {} /\ AtMostOne(T)
         /\ Cardinality(T) <= 1 <=> AtMostOne(T)
<1>1. IsFiniteSet(T) /\ Cardinality(T) \in Nat
  <2>1. Len(rows) \in Nat /\ DOMAIN rows = 1..Len(rows)
    BY LenProperties
  <2>2. IsFiniteSet(DOMAIN rows)
    BY <2>1, FS_Interval
  <2>. QED
    BY <2>2, FS_Subset, FS_CardinalityType
<1>2. Cardinality(T) = 0 <=> T = {}
  BY <1>1, FS_EmptySet
<1>3. Cardinality(T) = 1 <=> \E x : T = {x}
  BY <1>1, FS_Singleton
<1>4. (\E x : T = {x}) <=> T # {} /\ AtMostOne(T)
  <2>1. ASSUME NEW x, T = {x}  PROVE T # {} /\ AtMostOne(T)
    BY <2>1 DEF AtMostOne
  <2>2. ASSUME NEW x \in T, AtMostOne(T)  PROVE T = {x}
    BY <2>2 DEF AtMostOne
  <2>. QED
    BY <2>1, <2>2
<1>5. AtMostOne({})
  BY DEF AtMostOne
<1>6. Cardinality(T) <= 1 <=> Cardinality(T) = 0 \/ Cardinality(T) = 1
  BY <1>1
<1>. QED
  BY <1>1, <1>2, <1>3, <1>4, <1>5, <1>6

(* A row is added at the end.                                                 *)
LEMMA AtAppend ==
  ASSUME NEW S, NEW rows \in Seq(S), NEW x \in S
  PROVE  /\ Append(rows, x) \in Seq(S)
         /\ Len(rows) + 1 \notin DOMAIN rows
         /\ \A Q : At(Append(rows, x), Q) =
                     IF x \in Q THEN At(rows, Q) \cup {Len(rows) + 1} ELSE At(rows, Q)
<1>1. /\ Len(rows) \in Nat /\ DOMAIN rows = 1..Len(rows)
      /\ Append(rows, x) \in Seq(S) /\ Len(Append(rows, x)) = Len(rows) + 1
      /\ \A i \in 1..Len(rows) : Append(rows, x)[i] = rows[i]
      /\ Append(rows, x)[Len(rows) + 1] = x
      /\ DOMAIN Append(rows, x) = 1..(Len(rows) + 1)
  BY AppendProperties, LenProperties
<1>2. \A i : i \in 1..(Len(rows) + 1) <=> i \in 1..Len(rows) \/ i = Len(rows) + 1
  BY <1>1
<1>. QED
  BY <1>1, <1>2 DEF At

(* One row is overwritten.                                                    *)
LEMMA AtOverwritten ==
  ASSUME NEW S, NEW rows \in Seq(S), NEW p \in DOMAIN rows, NEW x \in S, NEW new,
         new \in [DOMAIN rows -> S],
         \A i \in DOMAIN rows : new[i] = IF i = p THEN x ELSE rows[i]
  PROVE  /\ new \in Seq(S)
         /\ \A Q : At(new, Q) = (At(rows, Q) \ {p}) \cup (IF x \in Q THEN {p} ELSE {})
<1>1. /\ Len(rows) \in Nat /\ DOMAIN rows = 1..Len(rows)
  BY LenProperties
<1>2. new \in Seq(S)
  BY <1>1
<1>3. DOMAIN new = DOMAIN rows
  OBVIOUS
<1>. QED
  BY <1>2, <1>3 DEF At

(* Rows are deleted: where a kind of row is left, and that it stays unique.   *)
LEMMA AtWithout ==
  ASSUME NEW S, NEW rows \in Seq(S), NEW gone
  PROVE  /\ Without(rows, gone) \in Seq(S)
         /\ \A Q : At(Without(rows, gone), Q) = {} <=> At(rows, Q) \subseteq gone
         /\ \A Q : AtMostOne(At(rows, Q) \ gone) => AtMostOne(At(Without(rows, gone), Q))
<1> DEFINE new == Without(rows, gone)
<1>1. PICK f : /\ f \in [DOMAIN new -> DOMAIN rows \ gone]
               /\ \A k \in DOMAIN new : new[k] = rows[f[k]]
               /\ \A k, l \in DOMAIN new : f[k] = f[l] => k = l
               /\ \A i \in DOMAIN rows \ gone : \E k \in DOMAIN new : f[k] = i
  BY WithoutRows
<1>2. new \in Seq(S)
  BY WithoutRows
<1> HIDE DEF new
<1>3. ASSUME NEW Q  PROVE At(new, Q) = {} <=> At(rows, Q) \subseteq gone
  BY <1>1 DEF At
<1>4. ASSUME NEW Q, AtMostOne(At(rows, Q) \ gone)  PROVE AtMostOne(At(new, Q))
  <2>1. SUFFICES ASSUME NEW k \in At(new, Q), NEW l \in At(new, Q)  PROVE k = l
    BY DEF AtMostOne
  <2>2. f[k] \in At(rows, Q) \ gone /\ f[l] \in At(rows, Q) \ gone
    BY <1>1, <2>1 DEF At
  <2>. QED
    BY <1>1, <1>4, <2>1, <2>2 DEF At, AtMostOne
<1>. QED
  BY <1>2, <1>3, <1>4 DEF new

-----------------------------------------------------------------------------
(* Two lists with the same length and the same entries are one list.          *)
LEMMA SameRows ==
  ASSUME NEW S, NEW s \in Seq(S), NEW t \in Seq(S), Len(s) = Len(t),
         \A k \in 1..Len(s) : s[k] = t[k]
  PROVE  s = t
BY SeqEqual

(* A query reads only the rows at its places.                                 *)
LEMMA ThoseReadOnly ==
  ASSUME NEW S, NEW s \in Seq(S), NEW t \in Seq(S), NEW places,
         places \subseteq DOMAIN s, places \subseteq DOMAIN t,
         \A i \in places : s[i] = t[i]
  PROVE  Those(s, places) = Those(t, places)
<1> DEFINE n == Len(Those(s, places))
<1>1. PICK f : /\ Ascending(f, n, places)
               /\ Those(s, places) \in Seq(S)
               /\ \A k \in 1..n : Those(s, places)[k] = s[f[k]]
  BY ThoseRows
<1>2. n \in Nat
  BY <1>1, LenProperties
<1> HIDE DEF n
<1>3. /\ Those(t, places) \in Seq(S)
      /\ Len(Those(t, places)) = n
      /\ \A k \in 1..n : Those(t, places)[k] = t[f[k]]
  BY <1>1, <1>2, ThoseUnique
<1>4. \A k \in 1..n : f[k] \in places
  BY <1>1 DEF Ascending
<1>. QED
  BY <1>1, <1>3, <1>4, SameRows DEF n

(* f lists the n places of a query, and leads from the chosen entries of that
   list to the places in image.                                               *)
Selects(rows, places, n, f, chosen, image) ==
  /\ places \subseteq DOMAIN rows
  /\ n \in Nat /\ Ascending(f, n, places)
  /\ chosen \subseteq 1..n
  /\ \A k \in chosen : f[k] \in image
  /\ \A p \in image : \E k \in chosen : f[k] = p

(* A query of what a query returned is a query of the rows themselves.        *)
LEMMA ThoseOfThose ==
  ASSUME NEW S, NEW rows \in Seq(S), NEW places, NEW n, NEW f, NEW chosen, NEW image,
         Selects(rows, places, n, f, chosen, image)
  PROVE  Those(Those(rows, places), chosen) = Those(rows, image)
<1> DEFINE some == Those(rows, places)
           m == Len(Those(some, chosen))
<1>14. /\ places \subseteq DOMAIN rows /\ n \in Nat
       /\ Ascending(f, n, places) /\ chosen \subseteq 1..n
  BY DEF Selects
<1>1. /\ some \in Seq(S) /\ Len(some) = n
      /\ \A k \in 1..n : some[k] = rows[f[k]]
  BY <1>14, ThoseUnique
<1>2. DOMAIN some = 1..n
  BY <1>1, LenProperties
<1> HIDE DEF some
<1>13. chosen \subseteq DOMAIN some /\ some \in Seq(S)
  BY <1>1, <1>2, <1>14
<1>3. PICK g : /\ Ascending(g, m, chosen)
               /\ Those(some, chosen) \in Seq(S)
               /\ \A k \in 1..m : Those(some, chosen)[k] = some[g[k]]
  BY <1>13, ThoseRows
<1>4. m \in Nat
  BY <1>3, LenProperties
<1> HIDE DEF m
<1> DEFINE h == [k \in 1..m |-> f[g[k]]]
<1>5. \A k \in 1..m : g[k] \in chosen /\ g[k] \in 1..n
  BY <1>3, <1>14 DEF Ascending
<1>6. \A k \in 1..n : f[k] \in places
  BY <1>14 DEF Ascending
<1>7. Ascending(h, m, image)
  <2>1. h \in [1..m -> image]
    BY <1>5 DEF Selects
  <2>2. ASSUME NEW k \in 1..m, NEW l \in 1..m, k < l  PROVE h[k] < h[l]
    <3>1. g[k] < g[l]
      BY <1>3, <2>2 DEF Ascending
    <3>. QED
      BY <1>5, <1>14, <3>1 DEF Ascending
  <2>3. ASSUME NEW p \in image  PROVE \E k \in 1..m : h[k] = p
    <3>1. PICK i \in chosen : f[i] = p
      BY <2>3 DEF Selects
    <3>2. PICK k \in 1..m : g[k] = i
      BY <1>3 DEF Ascending
    <3>. QED
      BY <3>1, <3>2
  <2>. QED
    BY <2>1, <2>2, <2>3 DEF Ascending
<1>8. image \subseteq DOMAIN rows
  BY <1>6 DEF Selects
<1>11. \A k \in 1..m : h[k] = f[g[k]]
  OBVIOUS
<1> HIDE DEF h
<1>9. /\ Those(rows, image) \in Seq(S) /\ Len(Those(rows, image)) = m
      /\ \A k \in 1..m : Those(rows, image)[k] = rows[h[k]]
  BY <1>4, <1>7, <1>8, ThoseUnique
<1>10. \A k \in 1..m : Those(some, chosen)[k] = Those(rows, image)[k]
  BY <1>1, <1>3, <1>5, <1>9, <1>11
<1>12. Those(some, chosen) = Those(rows, image)
  BY <1>3, <1>9, <1>10, SameRows DEF m
<1>. QED
  BY <1>12 DEF some

(* Deleting rows deletes them from every query and reorders nothing.          *)
LEMMA ThoseWithout ==
  ASSUME NEW S, NEW rows \in Seq(S), NEW gone, NEW Q
  PROVE  /\ Those(Without(rows, gone), At(Without(rows, gone), Q))
              = Those(rows, At(rows, Q) \ gone)
         /\ {Without(rows, gone)[k] : k \in At(Without(rows, gone), Q)}
              = {rows[i] : i \in At(rows, Q) \ gone}
<1> DEFINE new == Without(rows, gone)
           kept == DOMAIN rows \ gone
           n == Len(new)
           chosen == At(new, Q)
<1>1. new = Those(rows, kept) /\ kept \subseteq DOMAIN rows
  BY DEF Without
<1> HIDE DEF new, kept
<1>2. PICK f : /\ Ascending(f, n, kept)
               /\ new \in Seq(S)
               /\ \A k \in 1..n : new[k] = rows[f[k]]
  BY <1>1, ThoseRows
<1>3. n \in Nat /\ DOMAIN new = 1..n
  BY <1>2, LenProperties
<1> HIDE DEF n
<1>4. chosen \subseteq 1..n
  BY <1>3 DEF At
<1>8. At(rows, Q) \subseteq DOMAIN rows
  BY DEF At
<1>5. /\ \A k \in chosen : f[k] \in At(rows, Q) \ gone
      /\ \A i \in At(rows, Q) \ gone : \E k \in chosen : f[k] = i
  <2>1. ASSUME NEW k \in chosen  PROVE f[k] \in At(rows, Q) \ gone
    BY <1>2, <1>3, <1>4 DEF At, Ascending, kept
  <2>2. ASSUME NEW i \in At(rows, Q) \ gone  PROVE \E k \in chosen : f[k] = i
    <3>1. PICK k \in 1..n : f[k] = i
      BY <1>2 DEF Ascending, kept, At
    <3>. QED
      BY <1>2, <1>3, <3>1 DEF At
  <2>. QED
    BY <2>1, <2>2
<1>6. Those(new, chosen) = Those(rows, At(rows, Q) \ gone)
  <2> DEFINE image == At(rows, Q) \ gone
  <2> HIDE DEF chosen, image
  <2>1. Selects(rows, kept, n, f, chosen, image)
    BY <1>1, <1>2, <1>3, <1>4, <1>5 DEF Selects, image
  <2>3. Those(Those(rows, kept), chosen) = Those(rows, image)
    BY <2>1, ThoseOfThose
  <2>. QED
    BY <1>1, <2>3 DEF image
<1>7. {new[k] : k \in chosen} = {rows[i] : i \in At(rows, Q) \ gone}
  <2> HIDE DEF chosen
  <2>1. \A k \in chosen : new[k] = rows[f[k]]
    BY <1>2, <1>4
  <2>. QED
    BY <1>5, <2>1
<1>. QED
  BY <1>6, <1>7 DEF new

(* A new row comes last in the queries it belongs to, and changes no other.   *)
LEMMA ThoseAppend ==
  ASSUME NEW S, NEW rows \in Seq(S), NEW x \in S, NEW Q
  PROVE  /\ x \in Q => Those(Append(rows, x), At(Append(rows, x), Q))
                         = Append(Those(rows, At(rows, Q)), x)
         /\ x \notin Q => Those(Append(rows, x), At(Append(rows, x), Q))
                            = Those(rows, At(rows, Q))
<1> DEFINE new == Append(rows, x)
           places == At(rows, Q)
           last == Len(rows) + 1
           n == Len(Those(rows, places))
<1>1. /\ Len(rows) \in Nat /\ DOMAIN rows = 1..Len(rows)
      /\ new \in Seq(S) /\ Len(new) = last
      /\ \A i \in 1..Len(rows) : new[i] = rows[i]
      /\ new[last] = x /\ DOMAIN new = 1..last
  BY AppendProperties, LenProperties
<1>2. /\ x \in Q => At(new, Q) = places \cup {last}
      /\ x \notin Q => At(new, Q) = places
  BY AtAppend
<1>3. places \subseteq 1..Len(rows) /\ 1..Len(rows) \subseteq DOMAIN new
  BY <1>1 DEF At
<1>8. places \subseteq DOMAIN rows /\ places \subseteq DOMAIN new /\ last \in DOMAIN new
  BY <1>1, <1>3
<1> HIDE DEF new, places, last
<1>4. PICK f : /\ Ascending(f, n, places)
               /\ Those(rows, places) \in Seq(S)
               /\ \A k \in 1..n : Those(rows, places)[k] = rows[f[k]]
  BY <1>8, ThoseRows
<1>5. n \in Nat
  BY <1>4, LenProperties
<1> HIDE DEF n
<1>6. CASE x \notin Q
  <2>1. Those(new, places) = Those(rows, places)
    BY <1>1, <1>3, ThoseReadOnly
  <2>. QED
    BY <1>2, <1>6, <2>1 DEF new, places
<1>7. CASE x \in Q
  <2> DEFINE h == [k \in 1..(n + 1) |-> IF k = n + 1 THEN last ELSE f[k]]
             all == places \cup {last}
  <2>1. \A k \in 1..n : f[k] \in places /\ f[k] \in 1..Len(rows)
    BY <1>3, <1>4 DEF Ascending
  <2>9. /\ \A k \in 1..(n + 1) : k \in 1..n \/ k = n + 1
        /\ \A k \in 1..n : k \in 1..(n + 1) /\ k # n + 1
        /\ n + 1 \in 1..(n + 1)
    BY <1>5
  <2>10. h[n + 1] = last /\ \A k \in 1..n : h[k] = f[k]
    BY <2>9
  <2>2. Ascending(h, n + 1, all)
    <3>1. h \in [1..(n + 1) -> all]
      BY <2>1, <2>9
    <3>2. ASSUME NEW k \in 1..(n + 1), NEW l \in 1..(n + 1), k < l  PROVE h[k] < h[l]
      <4> HIDE DEF h
      <4>1. k \in 1..n
        BY <1>5, <3>2
      <4>2. CASE l \in 1..n
        BY <1>4, <2>10, <3>2, <4>1, <4>2 DEF Ascending
      <4>3. CASE l = n + 1
        BY <1>1, <2>1, <2>10, <4>1, <4>3 DEF last
      <4>. QED
        BY <2>9, <4>2, <4>3
    <3>3. ASSUME NEW p \in all  PROVE \E k \in 1..(n + 1) : h[k] = p
      <4> HIDE DEF h
      <4>1. CASE p \in places
        <5>1. PICK k \in 1..n : f[k] = p
          BY <1>4, <4>1 DEF Ascending
        <5>. QED
          BY <2>9, <2>10, <5>1
      <4>2. CASE p = last
        BY <2>9, <2>10, <4>2
      <4>. QED
        BY <4>1, <4>2
    <3>. QED
      BY <3>1, <3>2, <3>3 DEF Ascending
  <2>3. all \subseteq DOMAIN new /\ n + 1 \in Nat
    BY <1>5, <1>8
  <2> HIDE DEF h, all
  <2>4. /\ Those(new, all) \in Seq(S) /\ Len(Those(new, all)) = n + 1
        /\ \A k \in 1..(n + 1) : Those(new, all)[k] = new[h[k]]
    BY <1>1, <2>2, <2>3, ThoseUnique
  <2>5. /\ Append(Those(rows, places), x) \in Seq(S)
        /\ Len(Append(Those(rows, places), x)) = n + 1
        /\ \A k \in 1..n : Append(Those(rows, places), x)[k] = Those(rows, places)[k]
        /\ Append(Those(rows, places), x)[n + 1] = x
    BY <1>4, AppendProperties DEF n
  <2>6. ASSUME NEW k \in 1..(n + 1)
        PROVE  Those(new, all)[k] = Append(Those(rows, places), x)[k]
    <3>1. CASE k \in 1..n
      BY <1>1, <1>4, <2>1, <2>4, <2>5, <2>10, <3>1
    <3>2. CASE k = n + 1
      BY <1>1, <2>4, <2>5, <2>10, <3>2
    <3>. QED
      BY <2>9, <3>1, <3>2
  <2>7. Those(new, all) = Append(Those(rows, places), x)
    BY <2>4, <2>5, <2>6, SameRows
  <2>. QED
    BY <1>2, <1>7, <2>7 DEF new, places, all
<1>. QED
  BY <1>6, <1>7 DEF new, places, last

(* Without its first row, a query is its tail.                                *)
LEMMA ThoseTail ==
  ASSUME NEW S, NEW rows \in Seq(S), NEW places, places \subseteq DOMAIN rows,
         NEW w \in places, \A i \in places : w <= i
  PROVE  /\ Those(rows, places) # <<>> /\ Head(Those(rows, places)) = rows[w]
         /\ Those(rows, places \ {w}) = Tail(Those(rows, places))
<1> DEFINE all == Those(rows, places)
           n == Len(all)
<1>1. PICK f : /\ Ascending(f, n, places)
               /\ all \in Seq(S)
               /\ \A k \in 1..n : all[k] = rows[f[k]]
  BY ThoseRows
<1>2. n \in Nat
  BY <1>1, LenProperties
<1>3. \A i \in places : i \in Nat
  BY LenProperties
<1> HIDE DEF all, n
<1>4. \A k \in 1..n : f[k] \in places /\ f[k] \in Nat
  BY <1>1, <1>3 DEF Ascending
<1>5. n # 0 /\ 1 \in 1..n /\ f[1] = w
  <2>1. PICK k \in 1..n : f[k] = w
    BY <1>1 DEF Ascending
  <2>2. 1 \in 1..n /\ w <= f[1]
    BY <1>2, <1>4, <2>1
  <2>3. 1 < k => f[1] < f[k]
    BY <1>1, <2>2 DEF Ascending
  <2>. QED
    BY <1>2, <1>3, <1>4, <2>1, <2>2, <2>3
<1>6. all # <<>> /\ Head(all) = rows[w]
  BY <1>1, <1>5, EmptySeq, HeadTailProperties DEF n
<1>7. /\ Tail(all) \in Seq(S) /\ Len(Tail(all)) = n - 1
      /\ \A k \in 1..(n - 1) : Tail(all)[k] = all[k + 1]
  BY <1>1, <1>6, HeadTailProperties DEF n
<1> DEFINE m == n - 1
           rest == places \ {w}
           h == [k \in 1..m |-> f[k + 1]]
<1>8. m \in Nat /\ \A k \in 1..m : k + 1 \in 1..n /\ k + 1 # 1
  BY <1>2, <1>5
<1>9. Ascending(h, m, rest)
  <2>1. \A k \in 1..m : f[k + 1] # w
    <3>1. SUFFICES ASSUME NEW k \in 1..m  PROVE f[1] < f[k + 1]
      BY <1>3, <1>5
    <3>2. k + 1 \in 1..n /\ 1 < k + 1
      BY <1>8
    <3>. QED
      BY <1>1, <1>5, <3>2 DEF Ascending
  <2>2. h \in [1..m -> rest]
    BY <1>4, <1>8, <2>1
  <2>3. ASSUME NEW k \in 1..m, NEW l \in 1..m, k < l  PROVE h[k] < h[l]
    <3>1. k + 1 < l + 1 /\ k + 1 \in 1..n /\ l + 1 \in 1..n
      BY <1>8, <2>3
    <3>. QED
      BY <1>1, <3>1 DEF Ascending
  <2>4. ASSUME NEW p \in rest  PROVE \E k \in 1..m : h[k] = p
    <3>1. PICK k \in 1..n : f[k] = p
      BY <1>1 DEF Ascending
    <3>2. k - 1 \in 1..m /\ (k - 1) + 1 = k
      BY <1>2, <1>5, <3>1
    <3>. QED
      BY <3>1, <3>2
  <2>. QED
    BY <2>2, <2>3, <2>4 DEF Ascending
<1>10. \A k \in 1..m : h[k] = f[k + 1]
  OBVIOUS
<1>14. rest \subseteq DOMAIN rows
  OBVIOUS
<1> HIDE DEF h, m, rest
<1>11. /\ Those(rows, rest) \in Seq(S)
       /\ Len(Those(rows, rest)) = m
       /\ \A k \in 1..m : Those(rows, rest)[k] = rows[h[k]]
  BY <1>8, <1>9, <1>14, ThoseUnique
<1>12. ASSUME NEW k \in 1..m  PROVE Those(rows, rest)[k] = Tail(all)[k]
  <2>1. Those(rows, rest)[k] = rows[f[k + 1]]
    BY <1>10, <1>11
  <2>2. Tail(all)[k] = all[k + 1] /\ k + 1 \in 1..n
    BY <1>7, <1>8 DEF m
  <2>. QED
    BY <1>1, <2>1, <2>2
<1>13. Those(rows, rest) = Tail(all)
  BY <1>7, <1>11, <1>12, SameRows DEF m
<1>. QED
  BY <1>6, <1>13 DEF all, rest

(* Dropping one row of a query is dropping its place.                         *)
LEMMA ThoseMinus ==
  ASSUME NEW S, NEW rows \in Seq(S), NEW places, places \subseteq DOMAIN rows, NEW i \in places
  PROVE  \E k \in DOMAIN Those(rows, places) :
           /\ Those(rows, places)[k] = rows[i]
           /\ Those(rows, places \ {i}) = Without(Those(rows, places), {k})
<1> DEFINE all == Those(rows, places)
           n == Len(all)
<1>1. PICK f : /\ Ascending(f, n, places)
               /\ all \in Seq(S)
               /\ \A k \in 1..n : all[k] = rows[f[k]]
  BY ThoseRows
<1>2. n \in Nat /\ DOMAIN all = 1..n
  BY <1>1, LenProperties
<1>7. \A k \in places : k \in Nat
  BY LenProperties
<1> HIDE DEF n
<1>3. PICK k \in 1..n : f[k] = i
  BY <1>1 DEF Ascending
<1> DEFINE chosen == 1..n \ {k}
<1>4. /\ \A l \in chosen : f[l] \in places \ {i}
      /\ \A p \in places \ {i} : \E l \in chosen : f[l] = p
  <2>1. ASSUME NEW l \in chosen  PROVE f[l] \in places /\ f[l] # i
    <3>1. f[l] \in places /\ (k < l \/ l < k)
      BY <1>1, <1>2 DEF Ascending
    <3>2. f[k] < f[l] \/ f[l] < f[k]
      BY <1>1, <3>1 DEF Ascending
    <3>. QED
      BY <1>3, <1>7, <3>1, <3>2
  <2>2. ASSUME NEW p \in places \ {i}  PROVE \E l \in chosen : f[l] = p
    <3>1. PICK l \in 1..n : f[l] = p
      BY <1>1 DEF Ascending
    <3>. QED
      BY <1>3, <3>1
  <2>. QED
    BY <2>1, <2>2
<1>5. Those(all, chosen) = Those(rows, places \ {i})
  <2> DEFINE image == places \ {i}
  <2>1. chosen \subseteq 1..n
    OBVIOUS
  <2>2. Selects(rows, places, n, f, chosen, image)
    BY <1>1, <1>2, <1>4, <2>1 DEF Selects
  <2> HIDE DEF chosen, image
  <2>4. Those(Those(rows, places), chosen) = Those(rows, image)
    BY <2>2, ThoseOfThose
  <2>. QED
    BY <2>4 DEF image
<1>6. Without(all, {k}) = Those(all, chosen)
  BY <1>2 DEF Without
<1>. QED
  BY <1>1, <1>2, <1>3, <1>4, <1>5, <1>6

=============================================================================
