----------------------------- MODULE PageProofs -----------------------------
(***************************************************************************)
(* Proofs about the pages, for any number of tabs, files, rows, workbooks  *)
(* and calls: what the dashboard, the lists, the pages of the tools and    *)
(* the Inspect page show belongs to what was asked for last, each of their *)
(* spinners has a call in flight, and the table of the Inspect page is     *)
(* what its controls make of the rows at hand.                             *)
(***************************************************************************)
EXTENDS FiniteSetTheorems, SequenceTheorems, MCPages, TLAPS

-----------------------------------------------------------------------------
(* Lists with members left out, added or moved.                            *)

PlaceIn(i, S, R) == Cardinality({j \in S : <<j, i>> \in R}) + 1

\* In a finite set with a strict order any two members of which compare, the
\* places of the members are 1, 2, 3, ... each once, and in the order.
LEMMA PlacesCount ==
    ASSUME NEW S, IsFiniteSet(S), NEW R,
           \A i \in S : <<i, i>> \notin R,
           \A i, j, k \in S : <<i, j>> \in R /\ <<j, k>> \in R => <<i, k>> \in R,
           \A i, j \in S : i # j => <<i, j>> \in R \/ <<j, i>> \in R
    PROVE  /\ \A i \in S : PlaceIn(i, S, R) \in 1..Cardinality(S)
           /\ \A i, j \in S : <<i, j>> \in R => PlaceIn(i, S, R) < PlaceIn(j, S, R)
           /\ \A k \in 1..Cardinality(S) : \E i \in S : PlaceIn(i, S, R) = k
<1> DEFINE L(i) == {j \in S : <<j, i>> \in R}
           n == Cardinality(S)
           P == [i \in S |-> PlaceIn(i, S, R)]
<1>1. n \in Nat
  BY FS_CardinalityType
<1>2. ASSUME NEW i \in S PROVE IsFiniteSet(L(i)) /\ Cardinality(L(i)) \in 0..(n - 1)
  <2>1. IsFiniteSet(S \ {i}) /\ Cardinality(S \ {i}) = n - 1
    BY FS_RemoveElement
  <2>2. L(i) \in SUBSET (S \ {i})
    OBVIOUS
  <2>3. IsFiniteSet(L(i)) /\ Cardinality(L(i)) <= Cardinality(S \ {i})
    <3> HIDE DEF L, n
    <3> QED BY <2>1, <2>2, FS_Subset
  <2>4. Cardinality(L(i)) \in Nat
    BY <2>3, FS_CardinalityType
  <2> HIDE DEF L, n
  <2> QED BY <1>1, <2>1, <2>3, <2>4
<1>3. \A i \in S : P[i] = Cardinality(L(i)) + 1 /\ P[i] = PlaceIn(i, S, R)
  BY DEF PlaceIn
<1>4. \A i \in S : P[i] \in 1..n
  <2> HIDE DEF L, n, P
  <2> QED BY <1>1, <1>2, <1>3
<1>5. ASSUME NEW i \in S, NEW j \in S, <<i, j>> \in R PROVE P[i] < P[j]
  <2>1. i \notin L(i) /\ L(i) \cup {i} \in SUBSET L(j)
    BY <1>5
  <2>2. Cardinality(L(i) \cup {i}) = Cardinality(L(i)) + 1
    BY <1>2, <2>1, FS_AddElement
  <2>3. Cardinality(L(i) \cup {i}) <= Cardinality(L(j))
    BY <1>2, <2>1, FS_Subset
  <2> HIDE DEF L, n, P
  <2> QED BY <1>1, <1>2, <1>3, <2>2, <2>3
<1>6. P \in Injection(S, 1..n)
  <2>1. P \in [S -> 1..n]
    BY <1>4
  <2>2. \A i, j \in S : P[i] = P[j] => i = j
    <3> SUFFICES ASSUME NEW i \in S, NEW j \in S, P[i] = P[j], i # j PROVE FALSE
      OBVIOUS
    <3>1. P[i] < P[j] \/ P[j] < P[i]
      BY <1>5
    <3> HIDE DEF n, P
    <3> QED BY <1>1, <1>4, <3>1
  <2> HIDE DEF n, P
  <2> QED BY <2>1, <2>2 DEF Injection, IsInjective
<1>7. P \in Surjection(S, 1..n)
  <2>1. IsFiniteSet(1..n) /\ Cardinality(1..n) = n
    <3> HIDE DEF n
    <3> QED BY <1>1, FS_Interval
  <2>2. Cardinality(S) = n
    OBVIOUS
  <2> HIDE DEF n, P
  <2> QED BY <1>6, <2>1, <2>2, FS_Injection
<1>8. \A k \in 1..n : \E i \in S : P[i] = k
  <2> HIDE DEF n, P
  <2> QED BY <1>7 DEF Surjection
<1> QED BY <1>3, <1>4, <1>5, <1>8

\* Filtering keeps the members in their order: each of what is left comes from a
\* place of its own, and all that should be left are.
LEMMA OnlyPlaces ==
    ASSUME NEW T, NEW s \in Seq(T), NEW S
    PROVE  /\ Only(s, S) \in Seq(T) /\ Len(Only(s, S)) <= Len(s)
           /\ \E at \in [DOMAIN Only(s, S) -> DOMAIN s] :
                 /\ \A k \in DOMAIN Only(s, S) : Only(s, S)[k] = s[at[k]] /\ s[at[k]] \in S
                 /\ \A k, l \in DOMAIN Only(s, S) : k < l => at[k] < at[l]
                 /\ \A i \in DOMAIN s : s[i] \in S => \E k \in DOMAIN Only(s, S) : at[k] = i
<1> DEFINE A == {i \in DOMAIN s : s[i] \in S}
           R == {p \in A \X A : p[1] < p[2]}
           n == Cardinality(A)
           count(i) == Cardinality({j \in A : j <= i})
           at == [k \in 1..n |-> CHOOSE i \in A : count(i) = k]
<1>1. Len(s) \in Nat /\ DOMAIN s = 1..Len(s) /\ A \in SUBSET (1..Len(s)) /\ \A i \in DOMAIN s : s[i] \in T
  BY LenProperties
<1>2. IsFiniteSet(1..Len(s)) /\ Cardinality(1..Len(s)) = Len(s)
  <2> DEFINE m == Len(s)
  <2>1. m \in Nat
    BY <1>1
  <2>2. IsFiniteSet(1..m) /\ Cardinality(1..m) = m
    <3> HIDE DEF m
    <3> QED BY <2>1, FS_Interval
  <2> QED BY <2>2
<1>3. IsFiniteSet(A) /\ n \in Nat /\ n <= Len(s)
  <2>1. IsFiniteSet(A) /\ Cardinality(A) <= Cardinality(1..Len(s))
    <3> HIDE DEF A
    <3> QED BY <1>1, <1>2, FS_Subset
  <2>2. n \in Nat
    BY <2>1, FS_CardinalityType
  <2> HIDE DEF A
  <2> QED BY <1>2, <2>1, <2>2
<1>4. \A i \in A : i \in Nat
  <2> HIDE DEF A
  <2> QED BY <1>1
<1>5. /\ \A i \in A : <<i, i>> \notin R
      /\ \A i, j, k \in A : <<i, j>> \in R /\ <<j, k>> \in R => <<i, k>> \in R
      /\ \A i, j \in A : i # j => <<i, j>> \in R \/ <<j, i>> \in R
  <2>1. \A i, j \in A : <<i, j>> \in R <=> i < j
    OBVIOUS
  <2> HIDE DEF A, R
  <2> QED BY <1>4, <2>1
<1>6. /\ \A i \in A : PlaceIn(i, A, R) \in 1..n
      /\ \A i, j \in A : <<i, j>> \in R => PlaceIn(i, A, R) < PlaceIn(j, A, R)
      /\ \A k \in 1..n : \E i \in A : PlaceIn(i, A, R) = k
  <2>1. /\ \A i \in A : PlaceIn(i, A, R) \in 1..Cardinality(A)
        /\ \A i, j \in A : <<i, j>> \in R => PlaceIn(i, A, R) < PlaceIn(j, A, R)
        /\ \A k \in 1..Cardinality(A) : \E i \in A : PlaceIn(i, A, R) = k
    <3>1. IsFiniteSet(A)
      BY <1>3
    <3>2. \A i \in A : <<i, i>> \notin R
      BY <1>5
    <3>3. \A i, j, k \in A : <<i, j>> \in R /\ <<j, k>> \in R => <<i, k>> \in R
      BY <1>5
    <3>4. \A i, j \in A : i # j => <<i, j>> \in R \/ <<j, i>> \in R
      BY <1>5
    <3> HIDE DEF A, R
    <3> QED BY <3>1, <3>2, <3>3, <3>4, PlacesCount, ZenonT(60)
  <2> HIDE DEF A, R
  <2> QED BY <2>1
<1>7. ASSUME NEW i \in A PROVE count(i) = PlaceIn(i, A, R)
  <2> DEFINE B == {j \in A : <<j, i>> \in R}
  <2>1. i \notin B /\ {j \in A : j <= i} = B \cup {i} /\ B \in SUBSET A
    <3>1. \A j \in A : <<j, i>> \in R <=> j < i
      OBVIOUS
    <3> HIDE DEF A, R
    <3> QED BY <1>4, <3>1
  <2>2. IsFiniteSet(B)
    <3> HIDE DEF A, B
    <3> QED BY <1>3, <2>1, FS_Subset
  <2>3. Cardinality(B \cup {i}) = Cardinality(B) + 1
    <3> HIDE DEF A, B
    <3> QED BY <2>1, <2>2, FS_AddElement
  <2> QED BY <2>1, <2>3 DEF PlaceIn
<1>8. \A k \in 1..n : at[k] \in A /\ count(at[k]) = k
  <2> HIDE DEF A, R, n, count
  <2> QED BY <1>6, <1>7
<1>9. Only(s, S) = [k \in 1..n |-> s[at[k]]]
  BY DEF Only
<1>10. Only(s, S) \in [1..n -> T] /\ DOMAIN Only(s, S) = 1..n /\ \A k \in 1..n : Only(s, S)[k] = s[at[k]]
  <2>1. \A k \in 1..n : s[at[k]] \in T
    <3> HIDE DEF A, n, at
    <3> QED BY <1>1, <1>8
  <2> HIDE DEF A, n, at
  <2> QED BY <1>9, <2>1
<1>11. Only(s, S) \in Seq(T) /\ Len(Only(s, S)) = n
  <2> HIDE DEF n
  <2> QED BY <1>3, <1>10
<1>12. at \in [DOMAIN Only(s, S) -> DOMAIN s]
  <2>1. \A k \in 1..n : at[k] \in DOMAIN s
    <3> HIDE DEF n, at
    <3> QED BY <1>8
  <2> QED BY <1>10, <2>1
<1>13. ASSUME NEW k \in 1..n, NEW l \in 1..n, k < l PROVE at[k] < at[l]
  <2>1. at[k] \in A /\ at[l] \in A /\ PlaceIn(at[k], A, R) = k /\ PlaceIn(at[l], A, R) = l
    <3> HIDE DEF A, R, n, count, at
    <3> QED BY <1>7, <1>8
  <2>2. ~(at[l] < at[k]) /\ at[l] # at[k]
    <3>1. at[l] < at[k] => <<at[l], at[k]>> \in R
      <4> HIDE DEF A, at
      <4> QED BY <2>1
    <3> HIDE DEF A, R, n, count, at
    <3> QED BY <1>3, <1>6, <1>13, <2>1, <3>1
  <2> HIDE DEF A, R, n, count, at
  <2> QED BY <1>4, <2>1, <2>2
<1>14. ASSUME NEW i \in DOMAIN s, s[i] \in S PROVE \E k \in 1..n : at[k] = i
  <2>1. i \in A /\ count(i) \in 1..n
    <3>1. i \in A
      BY <1>14
    <3> HIDE DEF A, R, n, count
    <3> QED BY <1>6, <1>7, <3>1
  <2> DEFINE k == count(i)
  <2>2. at[k] \in A /\ PlaceIn(at[k], A, R) = PlaceIn(i, A, R)
    <3> HIDE DEF A, R, n, count, at
    <3> QED BY <1>7, <1>8, <2>1
  <2>3. at[k] = i
    <3>1. at[k] < i => <<at[k], i>> \in R
      <4> HIDE DEF A, at, k
      <4> QED BY <2>1, <2>2
    <3>2. i < at[k] => <<i, at[k]>> \in R
      <4> HIDE DEF A, at, k
      <4> QED BY <2>1, <2>2
    <3>3. PlaceIn(i, A, R) \in Nat
      <4> HIDE DEF A, R, n, count, at, k
      <4> QED BY <1>3, <1>6, <2>1
    <3> HIDE DEF A, R, n, count, at, k
    <3> QED BY <1>4, <1>6, <2>1, <2>2, <3>1, <3>2, <3>3
  <2> HIDE DEF A, n, count, at
  <2> QED BY <2>1, <2>3
<1>15. \A k \in 1..n : s[at[k]] \in S
  <2>1. \A i \in A : s[i] \in S
    OBVIOUS
  <2> HIDE DEF A, n, at
  <2> QED BY <1>8, <2>1
<1>16. Only(s, S) \in Seq(T) /\ Len(Only(s, S)) <= Len(s)
  <2> HIDE DEF A, n
  <2> QED BY <1>3, <1>11
<1>17. /\ \A k \in DOMAIN Only(s, S) : Only(s, S)[k] = s[at[k]] /\ s[at[k]] \in S
       /\ \A k, l \in DOMAIN Only(s, S) : k < l => at[k] < at[l]
       /\ \A i \in DOMAIN s : s[i] \in S => \E k \in DOMAIN Only(s, S) : at[k] = i
  <2> HIDE DEF A, n, at
  <2> QED BY <1>10, <1>13, <1>14, <1>15
<1> HIDE DEF A, n, at
<1> QED BY <1>12, <1>16, <1>17

LEMMA OnlyKeeps ==
    ASSUME NEW T, NEW s \in Seq(T), NEW S
    PROVE  /\ Only(s, S) \in Seq(T)
           /\ ToSet(Only(s, S)) = ToSet(s) \cap S
           /\ IsInjective(s) => IsInjective(Only(s, S))
<1> DEFINE o == Only(s, S)
<1>1. o \in Seq(T)
  BY OnlyPlaces
<1>2. PICK at \in [DOMAIN o -> DOMAIN s] :
         /\ \A k \in DOMAIN o : o[k] = s[at[k]] /\ s[at[k]] \in S
         /\ \A k, l \in DOMAIN o : k < l => at[k] < at[l]
         /\ \A i \in DOMAIN s : s[i] \in S => \E k \in DOMAIN o : at[k] = i
  BY OnlyPlaces
<1>3. DOMAIN o \in SUBSET Nat /\ DOMAIN s \in SUBSET Nat
  BY <1>1, LenProperties
<1> HIDE DEF o
<1>4. ToSet(o) = ToSet(s) \cap S
  BY <1>2 DEF ToSet
<1>5. ASSUME IsInjective(s) PROVE IsInjective(o)
  <2> SUFFICES ASSUME NEW k \in DOMAIN o, NEW l \in DOMAIN o, o[k] = o[l], k # l PROVE FALSE
    BY DEF IsInjective
  <2>1. at[k] = at[l]
    BY <1>2, <1>5 DEF IsInjective
  <2>2. k \in Nat /\ l \in Nat /\ at[k] \in Nat
    BY <1>2, <1>3
  <2>3. k < l \/ l < k
    BY <2>2
  <2> QED BY <1>2, <2>1, <2>2, <2>3
<1> QED BY <1>1, <1>4, <1>5 DEF o

LEMMA WithoutKeeps ==
    ASSUME NEW T, NEW s \in Seq(T), NEW x
    PROVE  /\ Without(s, x) \in Seq(T)
           /\ ToSet(Without(s, x)) = ToSet(s) \ {x}
           /\ IsInjective(s) => IsInjective(Without(s, x))
BY OnlyKeeps DEF Without

LEMMA ContainsIsMember ==
    ASSUME NEW T, NEW s \in Seq(T), NEW x
    PROVE  Contains(s, x) <=> x \in ToSet(s)
BY LenProperties DEF Contains, ToSet

LEMMA MembersOf ==
    ASSUME NEW T, NEW s \in Seq(T)
    PROVE  /\ ToSet(s) \in SUBSET T /\ s \in Seq(ToSet(s))
           /\ \A U : ToSet(s) \subseteq U => s \in Seq(U)
<1>1. Len(s) \in Nat /\ s \in [1..Len(s) -> T]
  BY LenProperties
<1>2. ToSet(s) \in SUBSET T
  BY <1>1 DEF ToSet
<1>3. ASSUME NEW U, ToSet(s) \subseteq U PROVE s \in Seq(U)
  <2>1. s \in [1..Len(s) -> U]
    BY <1>1, <1>3 DEF ToSet
  <2> QED BY <1>1, <2>1, IsASeq
<1> QED BY <1>2, <1>3

LEMMA ConcatKeeps ==
    ASSUME NEW T, NEW s \in Seq(T), NEW t \in Seq(T)
    PROVE  /\ s \o t \in Seq(T)
           /\ ToSet(s \o t) = ToSet(s) \cup ToSet(t)
           /\ IsInjective(s) /\ IsInjective(t) /\ ToSet(s) \cap ToSet(t) = {} => IsInjective(s \o t)
<1> DEFINE c == s \o t
<1>1. /\ c \in Seq(T) /\ Len(c) = Len(s) + Len(t) /\ Len(s) \in Nat /\ Len(t) \in Nat
      /\ DOMAIN c = 1..Len(c) /\ DOMAIN s = 1..Len(s) /\ DOMAIN t = 1..Len(t)
  BY ConcatProperties, LenProperties
<1>2. \A i \in 1..Len(s) + Len(t) : c[i] = IF i <= Len(s) THEN s[i] ELSE t[i - Len(s)]
  BY ConcatProperties
<1> HIDE DEF c
<1>3. ToSet(c) = ToSet(s) \cup ToSet(t)
  <2>1. ASSUME NEW i \in DOMAIN c PROVE c[i] \in ToSet(s) \cup ToSet(t)
    <3>1. CASE i <= Len(s)
      BY <1>1, <1>2, <3>1 DEF ToSet
    <3>2. CASE ~(i <= Len(s))
      <4>1. i - Len(s) \in DOMAIN t /\ c[i] = t[i - Len(s)]
        BY <1>1, <1>2, <3>2
      <4> QED BY <4>1 DEF ToSet
    <3> QED BY <3>1, <3>2
  <2>2. ASSUME NEW i \in DOMAIN s PROVE s[i] \in ToSet(c)
    <3>1. i \in DOMAIN c /\ c[i] = s[i]
      BY <1>1, <1>2
    <3> QED BY <3>1 DEF ToSet
  <2>3. ASSUME NEW i \in DOMAIN t PROVE t[i] \in ToSet(c)
    <3>1. i + Len(s) \in DOMAIN c /\ c[i + Len(s)] = t[i]
      BY <1>1, <1>2
    <3> QED BY <3>1 DEF ToSet
  <2> QED BY <2>1, <2>2, <2>3 DEF ToSet
<1>4. ASSUME IsInjective(s), IsInjective(t), ToSet(s) \cap ToSet(t) = {} PROVE IsInjective(c)
  <2> SUFFICES ASSUME NEW i \in DOMAIN c, NEW j \in DOMAIN c, c[i] = c[j] PROVE i = j
    BY DEF IsInjective
  <2>1. CASE i <= Len(s) /\ j <= Len(s)
    <3>1. i \in DOMAIN s /\ j \in DOMAIN s /\ s[i] = s[j]
      BY <1>1, <1>2, <2>1
    <3> QED BY <1>4, <3>1 DEF IsInjective
  <2>2. CASE ~(i <= Len(s)) /\ ~(j <= Len(s))
    <3>1. i - Len(s) \in DOMAIN t /\ j - Len(s) \in DOMAIN t /\ t[i - Len(s)] = t[j - Len(s)]
      BY <1>1, <1>2, <2>2
    <3>2. i - Len(s) = j - Len(s)
      BY <1>4, <3>1 DEF IsInjective
    <3> QED BY <1>1, <3>2
  <2>3. CASE i <= Len(s) /\ ~(j <= Len(s))
    <3>1. i \in DOMAIN s /\ j - Len(s) \in DOMAIN t /\ s[i] = t[j - Len(s)]
      BY <1>1, <1>2, <2>3
    <3> QED BY <1>4, <3>1 DEF ToSet
  <2>4. CASE ~(i <= Len(s)) /\ j <= Len(s)
    <3>1. j \in DOMAIN s /\ i - Len(s) \in DOMAIN t /\ s[j] = t[i - Len(s)]
      BY <1>1, <1>2, <2>4
    <3> QED BY <1>4, <3>1 DEF ToSet
  <2> QED BY <2>1, <2>2, <2>3, <2>4
<1> QED BY <1>1, <1>3, <1>4 DEF c

LEMMA SubSeqKeeps ==
    ASSUME NEW T, NEW s \in Seq(T), NEW m \in 1..Len(s) + 1, NEW n \in m - 1 .. Len(s)
    PROVE  /\ SubSeq(s, m, n) \in Seq(T)
           /\ ToSet(SubSeq(s, m, n)) = {s[k] : k \in m..n}
           /\ IsInjective(s) => IsInjective(SubSeq(s, m, n))
<1> DEFINE u == SubSeq(s, m, n)
<1>1. Len(s) \in Nat /\ DOMAIN s = 1..Len(s)
  BY LenProperties
<1>2. u \in Seq(T) /\ Len(u) = n - m + 1 /\ \A i \in 1..n - m + 1 : u[i] = s[m + i - 1]
  BY <1>1, SubSeqProperties
<1>3. DOMAIN u = 1..n - m + 1
  BY <1>2, LenProperties
<1> HIDE DEF u
<1>4. ToSet(u) = {s[k] : k \in m..n}
  <2>1. ASSUME NEW i \in DOMAIN u PROVE u[i] \in {s[k] : k \in m..n}
    <3>1. m + i - 1 \in m..n /\ u[i] = s[m + i - 1]
      BY <1>1, <1>2, <1>3
    <3> QED BY <3>1
  <2>2. ASSUME NEW k \in m..n PROVE s[k] \in ToSet(u)
    <3>1. k - m + 1 \in DOMAIN u /\ u[k - m + 1] = s[k]
      BY <1>1, <1>2, <1>3
    <3> QED BY <3>1 DEF ToSet
  <2> QED BY <2>1, <2>2 DEF ToSet
<1>5. ASSUME IsInjective(s) PROVE IsInjective(u)
  <2> SUFFICES ASSUME NEW i \in DOMAIN u, NEW j \in DOMAIN u, u[i] = u[j] PROVE i = j
    BY DEF IsInjective
  <2>1. m + i - 1 \in DOMAIN s /\ u[i] = s[m + i - 1]
    BY <1>1, <1>2, <1>3
  <2>3. m + j - 1 \in DOMAIN s /\ u[j] = s[m + j - 1]
    BY <1>1, <1>2, <1>3
  <2>2. m + i - 1 = m + j - 1
    BY <1>5, <2>1, <2>3 DEF IsInjective
  <2> QED BY <1>1, <1>3, <2>2
<1> QED BY <1>2, <1>4, <1>5 DEF u

LEMMA SingleKeeps ==
    ASSUME NEW T, NEW x \in T
    PROVE  <<x>> \in Seq(T) /\ ToSet(<<x>>) = {x} /\ IsInjective(<<x>>)
BY DEF ToSet, IsInjective

LEMMA AppendKeeps ==
    ASSUME NEW T, NEW s \in Seq(T), NEW x \in T
    PROVE  /\ Append(s, x) \in Seq(T)
           /\ ToSet(Append(s, x)) = ToSet(s) \cup {x}
           /\ IsInjective(s) /\ x \notin ToSet(s) => IsInjective(Append(s, x))
<1> DEFINE o == <<x>>
<1>1. Append(s, x) = s \o o
  BY AppendIsConcat
<1>2. o \in Seq(T) /\ ToSet(o) = {x} /\ IsInjective(o)
  BY SingleKeeps
<1> HIDE DEF o
<1>3. /\ s \o o \in Seq(T) /\ ToSet(s \o o) = ToSet(s) \cup {x}
      /\ IsInjective(s) /\ x \notin ToSet(s) => IsInjective(s \o o)
  <2>1. ToSet(s) \cap ToSet(o) = {} <=> x \notin ToSet(s)
    BY <1>2
  <2> QED BY <1>2, <2>1, ConcatKeeps
<1> QED BY <1>1, <1>3

LEMMA RemoveAtKeeps ==
    ASSUME NEW T, NEW s \in Seq(T), NEW i \in DOMAIN s
    PROVE  /\ RemoveAt(s, i) \in Seq(T) /\ Len(RemoveAt(s, i)) = Len(s) - 1
           /\ ToSet(RemoveAt(s, i)) \subseteq ToSet(s)
           /\ IsInjective(s) => /\ IsInjective(RemoveAt(s, i))
                                /\ ToSet(RemoveAt(s, i)) = ToSet(s) \ {s[i]}
<1> DEFINE a == SubSeq(s, 1, i - 1)
           b == SubSeq(s, i + 1, Len(s))
<1>1. Len(s) \in Nat /\ DOMAIN s = 1..Len(s) /\ i \in 1..Len(s)
  BY LenProperties
<1>2. 1 \in 1..Len(s) + 1 /\ i - 1 \in 1 - 1 .. Len(s) /\ i + 1 \in 1..Len(s) + 1 /\ Len(s) \in i + 1 - 1 .. Len(s)
  BY <1>1
<1>3. a \in Seq(T) /\ ToSet(a) = {s[k] : k \in 1..i - 1} /\ (IsInjective(s) => IsInjective(a))
  BY <1>2, SubSeqKeeps
<1>4. b \in Seq(T) /\ ToSet(b) = {s[k] : k \in i + 1..Len(s)} /\ (IsInjective(s) => IsInjective(b))
  <2> DEFINE m == i + 1
  <2>1. m \in 1..Len(s) + 1 /\ Len(s) \in m - 1 .. Len(s)
    BY <1>2
  <2>2. /\ SubSeq(s, m, Len(s)) \in Seq(T) /\ ToSet(SubSeq(s, m, Len(s))) = {s[k] : k \in m..Len(s)}
        /\ (IsInjective(s) => IsInjective(SubSeq(s, m, Len(s))))
    <3> HIDE DEF m
    <3> QED BY <2>1, SubSeqKeeps
  <2> QED BY <2>2
<1>5. Len(a) = i - 1 /\ Len(b) = Len(s) - i
  BY <1>1, <1>2, SubSeqProperties
<1>6. RemoveAt(s, i) = a \o b
  BY DEF RemoveAt
<1> HIDE DEF a, b
<1>7. ToSet(s) = {s[k] : k \in 1..Len(s)}
  BY <1>1 DEF ToSet
<1>8. a \o b \in Seq(T) /\ ToSet(a \o b) = ToSet(a) \cup ToSet(b) /\ Len(a \o b) = Len(s) - 1
  <2>1. Len(a \o b) = Len(a) + Len(b)
    BY <1>3, <1>4, ConcatProperties
  <2>2. Len(a \o b) = Len(s) - 1
    BY <1>1, <1>5, <2>1
  <2> QED BY <1>3, <1>4, <2>2, ConcatKeeps
<1>9. ToSet(a) \cup ToSet(b) \subseteq ToSet(s)
  BY <1>1, <1>3, <1>4, <1>7
<1>10. ASSUME IsInjective(s)
       PROVE  ToSet(a) \cap ToSet(b) = {} /\ ToSet(a) \cup ToSet(b) = ToSet(s) \ {s[i]}
  <2>1. \A k, l \in 1..Len(s) : s[k] = s[l] => k = l
    BY <1>1, <1>10 DEF IsInjective
  <2>2. ToSet(a) \cap ToSet(b) = {}
    BY <1>1, <1>3, <1>4, <2>1
  <2>3. s[i] \notin ToSet(a) \cup ToSet(b)
    BY <1>1, <1>3, <1>4, <2>1
  <2>4. \A k \in 1..Len(s) : k = i \/ s[k] \in ToSet(a) \cup ToSet(b)
    BY <1>1, <1>3, <1>4
  <2> QED BY <1>7, <1>9, <2>2, <2>3, <2>4
<1>11. IsInjective(s) => IsInjective(a \o b)
  BY <1>3, <1>4, <1>10, ConcatKeeps
<1> QED BY <1>6, <1>8, <1>9, <1>10, <1>11

LEMMA InsertAtKeeps ==
    ASSUME NEW T, NEW s \in Seq(T), NEW i \in 1..Len(s) + 1, NEW x \in T,
           IsInjective(s), x \notin ToSet(s)
    PROVE  /\ InsertAt(s, i, x) \in Seq(T)
           /\ ToSet(InsertAt(s, i, x)) = ToSet(s) \cup {x}
           /\ IsInjective(InsertAt(s, i, x))
<1> DEFINE a == SubSeq(s, 1, i - 1)
           b == SubSeq(s, i, Len(s))
<1>1. Len(s) \in Nat /\ DOMAIN s = 1..Len(s)
  BY LenProperties
<1>2. 1 \in 1..Len(s) + 1 /\ i - 1 \in 1 - 1 .. Len(s) /\ Len(s) \in i - 1 .. Len(s)
  BY <1>1
<1>3. a \in Seq(T) /\ ToSet(a) = {s[k] : k \in 1..i - 1} /\ IsInjective(a)
  BY <1>2, SubSeqKeeps
<1>4. b \in Seq(T) /\ ToSet(b) = {s[k] : k \in i..Len(s)} /\ IsInjective(b)
  BY <1>2, SubSeqKeeps
<1>5. InsertAt(s, i, x) = (a \o <<x>>) \o b
  BY DEF InsertAt
<1> HIDE DEF a, b
<1>6. \A k, l \in 1..Len(s) : s[k] = s[l] => k = l
  BY <1>1 DEF IsInjective
<1>7. ToSet(s) = {s[k] : k \in 1..Len(s)}
  BY <1>1 DEF ToSet
<1>8. ToSet(a) \cap ToSet(b) = {} /\ ToSet(a) \cup ToSet(b) = ToSet(s)
  <2>1. ToSet(a) \cap ToSet(b) = {}
    BY <1>1, <1>3, <1>4, <1>6
  <2>2. \A k \in 1..Len(s) : s[k] \in ToSet(a) \cup ToSet(b)
    BY <1>1, <1>3, <1>4
  <2>3. ToSet(a) \cup ToSet(b) \subseteq ToSet(s)
    BY <1>1, <1>3, <1>4, <1>7
  <2> QED BY <1>7, <2>1, <2>2, <2>3
<1> DEFINE c == a \o <<x>>
<1>9. c \in Seq(T) /\ ToSet(c) = ToSet(a) \cup {x} /\ IsInjective(c)
  <2> DEFINE o == <<x>>
  <2>1. o \in Seq(T) /\ ToSet(o) = {x} /\ IsInjective(o)
    BY SingleKeeps
  <2>2. ToSet(a) \cap ToSet(o) = {}
    BY <1>8, <2>1
  <2> HIDE DEF o
  <2>3. a \o o \in Seq(T) /\ ToSet(a \o o) = ToSet(a) \cup {x} /\ IsInjective(a \o o)
    BY <1>3, <2>1, <2>2, ConcatKeeps
  <2> QED BY <2>3 DEF o
<1> HIDE DEF c
<1>10. c \o b \in Seq(T) /\ ToSet(c \o b) = ToSet(c) \cup ToSet(b) /\ IsInjective(c \o b)
  BY <1>4, <1>8, <1>9, ConcatKeeps
<1> QED BY <1>5, <1>8, <1>9, <1>10 DEF c

LEMMA ReverseKeeps ==
    ASSUME NEW T, NEW s \in Seq(T)
    PROVE  /\ Reverse(s) \in Seq(T)
           /\ ToSet(Reverse(s)) = ToSet(s)
           /\ IsInjective(s) => IsInjective(Reverse(s))
<1> DEFINE v == Reverse(s)
<1>1. Len(s) \in Nat /\ DOMAIN s = 1..Len(s) /\ s \in [1..Len(s) -> T]
  BY LenProperties
<1>2. v = [i \in 1..Len(s) |-> s[(Len(s) - i) + 1]]
  BY DEF Reverse
<1>3. v \in [1..Len(s) -> T]
  BY <1>1, <1>2
<1>4. v \in Seq(T) /\ DOMAIN v = 1..Len(s)
  BY <1>1, <1>3, IsASeq
<1> HIDE DEF v
<1>5. ToSet(v) = ToSet(s)
  <2>1. ASSUME NEW i \in DOMAIN v PROVE v[i] \in ToSet(s)
    <3>1. (Len(s) - i) + 1 \in DOMAIN s /\ v[i] = s[(Len(s) - i) + 1]
      BY <1>1, <1>2, <1>4
    <3> QED BY <3>1 DEF ToSet
  <2>2. ASSUME NEW k \in DOMAIN s PROVE s[k] \in ToSet(v)
    <3>1. (Len(s) - k) + 1 \in DOMAIN v /\ v[(Len(s) - k) + 1] = s[k]
      BY <1>1, <1>2, <1>4
    <3> QED BY <3>1 DEF ToSet
  <2> QED BY <2>1, <2>2 DEF ToSet
<1>6. ASSUME IsInjective(s) PROVE IsInjective(v)
  <2> SUFFICES ASSUME NEW i \in DOMAIN v, NEW j \in DOMAIN v, v[i] = v[j] PROVE i = j
    BY DEF IsInjective
  <2>1. /\ (Len(s) - i) + 1 \in DOMAIN s /\ (Len(s) - j) + 1 \in DOMAIN s
        /\ s[(Len(s) - i) + 1] = s[(Len(s) - j) + 1]
    BY <1>1, <1>2, <1>4
  <2>2. (Len(s) - i) + 1 = (Len(s) - j) + 1
    BY <1>6, <2>1 DEF IsInjective
  <2> QED BY <1>1, <1>4, <2>2
<1> QED BY <1>4, <1>5, <1>6 DEF v

-----------------------------------------------------------------------------
(* The dashboard.                                                          *)

\* The URL follows the tab clicked last; fetches are numbered in the order in
\* which they are made, and the last one for a trend is for the period chosen;
\* what is not loaded is being fetched, or has failed.
Navigation ==
    /\ activeTab \in Tabs /\ wanted \in Tabs /\ loaded \subseteq Tabs
    /\ going = NoTab => activeTab = wanted /\ pendingTab = NoTab
    /\ going # NoTab => going = wanted /\ pendingTab \in {NoTab, wanted} /\ pendingTab # activeTab
    /\ pendingTab = NoTab /\ going # NoTab => activeTab = wanted
Numbers ==
    /\ made \in Nat /\ trends \in 0..made /\ trend.n \in 0..made
    /\ \A c \in fetches : c.n \in 1..made /\ c.of \in (Tabs \ {"activity"}) \cup {"period"}
LatestTrend ==
    /\ trend.n = trends => trend.days = period
    /\ \A c \in fetches : c.of \in {"overview", "period"} /\ c.n = trends => c.days = period
Loads ==
    /\ activeTab # "activity" /\ ~failing =>
          activeTab \in loaded \/ \E c \in fetches : c.of = activeTab
    /\ loadingTab => \E c \in fetches : c.of # "period"
    /\ refreshing => fetches # {}

DashIInv == Navigation /\ Numbers /\ LatestTrend /\ Loads

LEMMA DashInitInv == DashInit => DashIInv
<1>1. SUFFICES ASSUME DashInit PROVE DashIInv
  OBVIOUS
<1>2. Navigation
  BY <1>1, DashboardAssumption DEF DashInit, Navigation
<1>3. Numbers
  BY <1>1 DEF DashInit, Numbers
<1>4. LatestTrend
  BY <1>1 DEF DashInit, LatestTrend
<1>5. Loads
  BY <1>1, DashboardAssumption DEF DashInit, Loads
<1> QED BY <1>2, <1>3, <1>4, <1>5 DEF DashIInv

\* What a fetch changes.
LEMMA FetchStep ==
    ASSUME Numbers, LatestTrend, trend' = trend,
           NEW of \in (Tabs \ {"activity"}) \cup {"period"}, Fetch(of, period'),
           of = "period" \/ period' = period
    PROVE  /\ Numbers' /\ LatestTrend'
           /\ \E c \in fetches' : c.of = of /\ fetches' = fetches \cup {c}
<1> DEFINE c == [n |-> made + 1, of |-> of, days |-> period']
<1>1. made' = made + 1 /\ fetches' = fetches \cup {c}
      /\ trends' = IF of \in {"overview", "period"} THEN made + 1 ELSE trends
  BY DEF Fetch
<1>2. c.n = made + 1 /\ c.of = of /\ c.days = period'
  OBVIOUS
<1> HIDE DEF c
<1>3. Numbers'
  BY <1>1, <1>2 DEF Numbers
<1>4. LatestTrend'
  <2>1. CASE of \in {"overview", "period"}
    BY <1>1, <1>2, <2>1 DEF Numbers, LatestTrend
  <2>2. CASE of \notin {"overview", "period"}
    BY <1>1, <1>2, <2>2 DEF Numbers, LatestTrend
  <2> QED BY <2>1, <2>2
<1> QED BY <1>1, <1>2, <1>3, <1>4

LEMMA LoadTabStep ==
    ASSUME Numbers, LatestTrend, Loads, UNCHANGED <<trend, period, loaded>>, activeTab' \in Tabs,
           NEW background \in BOOLEAN, LoadTab(activeTab', background)
    PROVE  Numbers' /\ LatestTrend' /\ Loads'
<1> DEFINE tab == activeTab'
<1>1. CASE tab = "activity"
  <2>1. loadingTab' = FALSE /\ UNCHANGED <<refreshing, fetches, made, trends>>
    BY <1>1 DEF LoadTab
  <2> QED BY <1>1, <2>1 DEF Numbers, LatestTrend, Loads
<1>2. CASE tab # "activity"
  <2>1. Fetch(tab, period')
    BY <1>2 DEF LoadTab
  <2>2. /\ Numbers' /\ LatestTrend'
        /\ \E c \in fetches' : c.of = tab /\ fetches' = fetches \cup {c}
    BY <1>2, <2>1, FetchStep
  <2>3. tab # "period"
    BY DashboardAssumption
  <2>4. Loads'
    BY <2>2, <2>3 DEF Loads
  <2> QED BY <2>2, <2>4
<1> QED BY <1>1, <1>2

LEMMA DashStep == DashIInv /\ [DashNext]_dashVars => DashIInv'
<1>1. SUFFICES ASSUME DashIInv, [DashNext]_dashVars PROVE DashIInv'
  OBVIOUS
<1>2. Navigation /\ Numbers /\ LatestTrend /\ Loads
  BY <1>1 DEF DashIInv
<1>3. ASSUME NEW tab \in Tabs, ClickTab(tab) PROVE DashIInv'
  <2>1. Navigation'
    BY <1>2, <1>3, DashboardAssumption DEF ClickTab, Navigation, visibleTab
  <2>2. Numbers' /\ LatestTrend' /\ Loads'
    BY <1>2, <1>3 DEF ClickTab, Numbers, LatestTrend, Loads
  <2> QED BY <2>1, <2>2 DEF DashIInv
<1>4. CASE UrlFollows
  <2>1. Navigation' /\ activeTab' \in Tabs
    BY <1>2, <1>4 DEF UrlFollows, Navigation
  <2>2. CASE going = activeTab
    <3>1. UNCHANGED <<activeTab, failing, loadingTab, refreshing, fetches, made, trends, trend, period, loaded>>
      BY <1>4, <2>2 DEF UrlFollows
    <3>2. Numbers' /\ LatestTrend' /\ Loads'
      BY <1>2, <3>1 DEF Numbers, LatestTrend, Loads
    <3> QED BY <2>1, <3>2 DEF DashIInv
  <2>3. CASE going # activeTab
    <3>1. LoadTab(activeTab', FALSE) /\ UNCHANGED <<trend, period, loaded>>
      BY <1>4, <2>3 DEF UrlFollows
    <3>2. Numbers' /\ LatestTrend' /\ Loads'
      BY <1>2, <2>1, <3>1, LoadTabStep
    <3> QED BY <2>1, <3>2 DEF DashIInv
  <2> QED BY <2>2, <2>3
<1>5. CASE RefreshTab
  <2>1. Navigation' /\ activeTab' \in Tabs
    BY <1>2, <1>5 DEF RefreshTab, Navigation
  <2>2. PICK background \in BOOLEAN :
           LoadTab(activeTab', background) /\ UNCHANGED <<trend, period, loaded>>
    BY <1>5 DEF RefreshTab
  <2>3. Numbers' /\ LatestTrend' /\ Loads'
    BY <1>2, <2>1, <2>2, LoadTabStep
  <2> QED BY <2>1, <2>3 DEF DashIInv
<1>6. ASSUME NEW days \in Periods, ChangePeriod(days) PROVE DashIInv'
  <2>1. Navigation'
    BY <1>2, <1>6 DEF ChangePeriod, Navigation
  <2>2. Fetch("period", period') /\ refreshing' = TRUE /\ UNCHANGED <<activeTab, loaded, failing, loadingTab, trend>>
    BY <1>6 DEF ChangePeriod
  <2>3. /\ Numbers' /\ LatestTrend'
        /\ \E c \in fetches' : c.of = "period" /\ fetches' = fetches \cup {c}
    BY <1>2, <2>2, FetchStep
  <2>4. Loads'
    BY <1>2, <2>2, <2>3 DEF Loads
  <2> QED BY <2>1, <2>3, <2>4 DEF DashIInv
<1>7. ASSUME NEW c \in fetches, TabComes(c) PROVE DashIInv'
  <2>1. /\ UNCHANGED <<activeTab, going, pendingTab, period, failing, made, trends, wanted>>
        /\ fetches' = fetches \ {c} /\ loaded' = loaded \cup ({c.of} \cap Tabs)
        /\ refreshing' = FALSE /\ loadingTab' = (c.of = "period" /\ loadingTab)
        /\ trend' = IF c.of \in {"overview", "period"} THEN [n |-> c.n, days |-> c.days] ELSE trend
    BY <1>7 DEF TabComes, Stops
  <2>2. Navigation'
    BY <1>2, <2>1 DEF Navigation
  <2>3. Numbers'
    BY <1>2, <2>1 DEF Numbers
  <2>4. LatestTrend'
    BY <1>2, <2>1 DEF LatestTrend
  <2>5. Loads'
    BY <1>2, <2>1 DEF Loads, Navigation
  <2> QED BY <2>2, <2>3, <2>4, <2>5 DEF DashIInv
<1>8. ASSUME NEW c \in fetches, TabFails(c) PROVE DashIInv'
  <2>1. /\ UNCHANGED <<activeTab, going, pendingTab, period, made, trends, trend, loaded, wanted>>
        /\ fetches' = fetches \ {c} /\ failing' = TRUE
        /\ refreshing' = FALSE /\ loadingTab' = (c.of = "period" /\ loadingTab)
    BY <1>8 DEF TabFails, Stops
  <2> QED BY <1>2, <2>1 DEF DashIInv, Navigation, Numbers, LatestTrend, Loads
<1>9. CASE UNCHANGED dashVars
  BY <1>2, <1>9 DEF dashVars, DashIInv, Navigation, Numbers, LatestTrend, Loads
<1> QED BY <1>1, <1>3, <1>4, <1>5, <1>6, <1>7, <1>8, <1>9 DEF DashNext

\* The tab on the screen is the one clicked last, it is loaded, and the trend is
\* that of the period chosen, in whatever order the calls of the tabs end.
THEOREM DashboardFollows == DashSpec => []DashInv
<1>1. DashIInv => DashInv
  BY DashboardAssumption DEF DashIInv, Navigation, Numbers, LatestTrend, Loads, DashInv,
     DashTypeOK, VisibleIsWanted, visibleTab, TrendIsOfThePeriod, TabIsLoaded
<1> QED BY <1>1, DashInitInv, DashStep, PTL DEF DashSpec

-----------------------------------------------------------------------------
(* The lists.                                                              *)

ListFields == {"n", "filter", "from", "page", "answered", "reply", "total", "changed"}
DeleteFields == {"n", "row", "phase", "alone"}

\* Lists are numbered in the order in which they are asked for, and the one
\* asked for last is of the filter in force.
Asked ==
    /\ asked \in Nat /\ source.n \in 0..asked /\ pageNo = source.page
    /\ \A l \in lists : DOMAIN l = ListFields /\ l.n \in 1..asked /\ (l.n = asked => l.filter = filter)
    /\ source.n = asked => source.filter = filter
\* A delete that was neither followed by a click on another row nor preceded by
\* an answer still has its row's button disabled.
Clicked ==
    /\ clicked \in Nat
    /\ \A d \in deletes : /\ DOMAIN d = DeleteFields /\ d.n \in 1..clicked
                          /\ d.alone \in BOOLEAN /\ (d.alone => pending = d.row)
    /\ DeletedOnce
Spins == loading \/ aside => lists # {} \/ ~ready

ListIInv == Asked /\ Clicked /\ Spins

LEMMA ListInitInv == ListInit => ListIInv
<1>1. SUFFICES ASSUME ListInit PROVE ListIInv
  OBVIOUS
<1>2. lists = (IF ready THEN {Request(1, filter, 0, 1)} ELSE {}) /\ asked = Cardinality(lists)
      /\ source = [n |-> 0, filter |-> Everything, page |-> 1] /\ pageNo = 1 /\ filter = Everything
  BY <1>1 DEF ListInit
<1>3. Asked
  <2>1. CASE ready
    <3> DEFINE l == Request(1, filter, 0, 1)
    <3>1. lists = {l}
      BY <1>2, <2>1
    <3>2. Cardinality({l}) = 1
      BY FS_Singleton
    <3>3. l.n = 1 /\ l.filter = filter /\ DOMAIN l = ListFields
      BY DEF Request, ListFields
    <3> HIDE DEF l
    <3> QED BY <1>2, <3>1, <3>2, <3>3 DEF Asked
  <2>2. CASE ~ready
    <3>1. lists = {} /\ asked = 0
      BY <1>2, <2>2, FS_EmptySet
    <3> QED BY <1>2, <3>1 DEF Asked
  <2> QED BY <2>1, <2>2
<1>4. Clicked
  BY <1>1 DEF ListInit, Clicked, DeletedOnce
<1>5. Spins
  BY <1>2 DEF Spins
<1> QED BY <1>3, <1>4, <1>5 DEF ListIInv

LEMMA AskStep ==
    ASSUME Asked, NEW from, NEW p, AskList(filter', from, p), UNCHANGED <<source, pageNo>>
    PROVE  Asked' /\ Spins'
<1> DEFINE l == Request(asked + 1, filter', from, p)
<1>1. l.n = asked + 1 /\ l.filter = filter' /\ DOMAIN l = ListFields
  BY DEF Request, ListFields
<1>2. asked' = asked + 1 /\ lists' = lists \cup {l}
  BY DEF AskList
<1> HIDE DEF l
<1> QED BY <1>1, <1>2 DEF Asked, Spins

LEMMA DeleteStep ==
    ASSUME Clicked, NEW d \in deletes, EndsDelete(d)
    PROVE  Clicked'
<1>1. clicked' = clicked /\ deletes' = {[e EXCEPT !.alone = FALSE] : e \in deletes \ {d}}
  BY DEF EndsDelete
<1>2. ASSUME NEW k \in deletes'
      PROVE  DOMAIN k = DeleteFields /\ k.alone = FALSE /\ \E e \in deletes : k.n = e.n
  <2>1. PICK e \in deletes : k = [e EXCEPT !.alone = FALSE]
    BY <1>1, <1>2
  <2>2. DOMAIN e = DeleteFields
    BY DEF Clicked
  <2> QED BY <2>1, <2>2 DEF DeleteFields
<1> QED BY <1>1, <1>2 DEF Clicked, DeletedOnce

LEMMA ListStep == ListIInv /\ [ListNext]_listVars => ListIInv'
<1>1. SUFFICES ASSUME ListIInv, [ListNext]_listVars PROVE ListIInv'
  OBVIOUS
<1>2. Asked /\ Clicked /\ Spins
  BY <1>1 DEF ListIInv
<1>3. ASSUME UNCHANGED deleting PROVE Clicked'
  BY <1>2, <1>3 DEF deleting, Clicked, DeletedOnce
<1>4. ASSUME UNCHANGED <<asked, source, pageNo, filter>>,
             \A l \in lists' : DOMAIN l = ListFields /\ \E k \in lists : l.n = k.n /\ l.filter = k.filter
      PROVE  Asked'
  BY <1>2, <1>4 DEF Asked
<1>5. ASSUME UNCHANGED <<loading, aside, ready>>, lists # {} => lists' # {} PROVE Spins'
  BY <1>2, <1>5 DEF Spins
<1>6. ASSUME UNCHANGED deleting, UNCHANGED screen, NEW from, NEW p, AskList(filter', from, p)
      PROVE  ListIInv'
  BY <1>2, <1>3, <1>6, AskStep DEF ListIInv, screen
<1>7. CASE SignedIn \/ RefreshList \/ LoadMoreRows \/ \E p \in 1..Len(Plan) : Turn(p)
  <2>1. UNCHANGED deleting /\ UNCHANGED screen /\ filter' = filter
    BY <1>7 DEF SignedIn, RefreshList, LoadMoreRows, Turn, boxes
  <2>2. \E from, p : AskList(filter', from, p)
    BY <1>7, <2>1 DEF SignedIn, RefreshList, LoadMoreRows, Turn, Load
  <2> QED BY <1>6, <2>1, <2>2
<1>8. ASSUME NEW f, FilterBy(f) PROVE ListIInv'
  <2>1. UNCHANGED deleting /\ UNCHANGED screen /\ AskList(filter', 0, 1)
    BY <1>8 DEF FilterBy, Load
  <2> QED BY <1>6, <2>1
<1>9. ASSUME NEW s \in Searches, TypeSearch(s) PROVE ListIInv'
  <2>1. UNCHANGED <<deleting, lists, asked, screen, filter, spinners, ready>>
    BY <1>9 DEF TypeSearch
  <2>2. \A l \in lists' : DOMAIN l = ListFields /\ \E k \in lists : l.n = k.n /\ l.filter = k.filter
    BY <1>2, <2>1 DEF Asked
  <2> QED BY <1>3, <1>4, <1>5, <2>1, <2>2 DEF ListIInv, screen, spinners
<1>10. ASSUME NEW l \in lists, AnswerList(l) PROVE ListIInv'
  <2>1. UNCHANGED <<deleting, asked, screen, filter, spinners, ready>>
    BY <1>10 DEF AnswerList, boxes
  <2>2. PICK total1, reply : lists' = (lists \ {l}) \cup
               {[l EXCEPT !.answered = TRUE, !.total = total1, !.reply = reply]}
    BY <1>10 DEF AnswerList
  <2>3. lists' # {}
    BY <2>2
  <2>4. \A k \in lists' : DOMAIN k = ListFields /\ \E e \in lists : k.n = e.n /\ k.filter = e.filter
    BY <1>2, <2>2 DEF Asked, ListFields
  <2> QED BY <1>3, <1>4, <1>5, <2>1, <2>3, <2>4 DEF ListIInv, screen, spinners
<1>11. ASSUME NEW l \in lists, ListArrives(l) PROVE ListIInv'
  <2>1. /\ UNCHANGED <<deleting, asked, filter, ready>> /\ lists' = lists \ {l}
        /\ pageNo' = l.page /\ source' = [n |-> l.n, filter |-> l.filter, page |-> l.page]
        /\ loading' = FALSE /\ aside' = FALSE
    BY <1>11 DEF ListArrives, boxes
  <2>2. Asked'
    BY <1>2, <2>1 DEF Asked
  <2>3. Spins'
    BY <2>1 DEF Spins
  <2> QED BY <1>3, <2>1, <2>2, <2>3 DEF ListIInv
<1>12. ASSUME NEW l \in lists, ListFails(l) PROVE ListIInv'
  <2>1. /\ UNCHANGED <<deleting, asked, filter, ready, screen>> /\ lists' = lists \ {l}
        /\ loading' = FALSE /\ aside' = FALSE
    BY <1>12 DEF ListFails, boxes
  <2>2. Spins'
    BY <2>1 DEF Spins
  <2>3. \A e \in lists' : DOMAIN e = ListFields /\ \E k \in lists : e.n = k.n /\ e.filter = k.filter
    BY <1>2, <2>1 DEF Asked
  <2> QED BY <1>3, <1>4, <2>1, <2>2, <2>3 DEF ListIInv, screen
<1>13. ASSUME RowsChange PROVE Asked' /\ Spins'
  <2>1. /\ lists' = {[l EXCEPT !.changed = l.answered] : l \in lists}
        /\ UNCHANGED <<ready, boxes, screen, spinners, asked>>
    BY <1>13 DEF RowsChange
  <2>2. \A l \in lists' : \E k \in lists : l = [k EXCEPT !.changed = k.answered]
    BY <2>1
  <2>3. ASSUME NEW k \in lists, NEW l, l = [k EXCEPT !.changed = k.answered]
        PROVE  DOMAIN l = ListFields /\ l.n = k.n /\ l.filter = k.filter
    BY <1>2, <2>3 DEF Asked, ListFields
  <2>4. \A l \in lists' : DOMAIN l = ListFields /\ \E k \in lists : l.n = k.n /\ l.filter = k.filter
    BY <2>2, <2>3
  <2>5. lists # {} => lists' # {}
    BY <2>1
  <2> QED BY <1>4, <1>5, <2>1, <2>4, <2>5 DEF screen, spinners, boxes
<1>14. CASE Record \/ \E r \in 1..logged : DeletedElsewhere(r)
  <2>1. RowsChange /\ UNCHANGED <<deletes, clicked, pending>>
    BY <1>14 DEF Record, DeletedElsewhere, RowsChange
  <2>2. Clicked'
    BY <1>2, <2>1 DEF Clicked, DeletedOnce
  <2> QED BY <1>13, <2>1, <2>2 DEF ListIInv
<1>15. ASSUME NEW r \in 1..logged, ClickDelete(r) PROVE ListIInv'
  <2> DEFINE new == [n |-> clicked + 1, row |-> r, phase |-> "sent", alone |-> TRUE]
             others == {[d EXCEPT !.alone = FALSE] : d \in {e \in deletes : e.row # r}}
             mine == {d \in deletes : d.row = r}
  <2>1. /\ pending # r /\ pending' = r /\ clicked' = clicked + 1
        /\ deletes' = others \cup mine \cup {new}
        /\ UNCHANGED <<ready, boxes, screen, loading, aside, lists, asked>>
    BY <1>15 DEF ClickDelete
  <2>2. \A d \in others : /\ DOMAIN d = DeleteFields /\ d.alone = FALSE
                          /\ \E e \in deletes : d.n = e.n /\ d.row = e.row /\ e.row # r
    <3>1. ASSUME NEW e \in deletes, e.row # r, NEW d, d = [e EXCEPT !.alone = FALSE]
          PROVE  DOMAIN d = DeleteFields /\ d.n = e.n /\ d.row = e.row /\ d.alone = FALSE
      BY <1>2, <3>1 DEF Clicked, DeleteFields
    <3> QED BY <3>1
  <2>3. \A d \in mine : d \in deletes /\ d.row = r /\ ~d.alone
    BY <1>2, <2>1 DEF Clicked
  <2>4. new.n = clicked + 1 /\ new.row = r /\ new.alone = TRUE /\ DOMAIN new = DeleteFields
    BY DEF DeleteFields
  <2> HIDE DEF others, mine, new
  <2>5. ASSUME NEW d \in deletes'
        PROVE  /\ DOMAIN d = DeleteFields /\ d.n \in 1..clicked'
               /\ d.alone \in BOOLEAN /\ (d.alone => d.n = clicked' /\ pending' = d.row)
    <3>1. CASE d \in others
      <4>1. d.n \in 1..clicked'
        BY <1>2, <2>1, <2>2, <3>1 DEF Clicked
      <4>2. DOMAIN d = DeleteFields /\ d.alone = FALSE
        BY <2>2, <3>1
      <4> QED BY <4>1, <4>2
    <3>2. CASE d \in mine
      BY <1>2, <2>1, <2>3, <3>2 DEF Clicked
    <3>3. CASE d = new
      <4>1. d.n \in 1..clicked' /\ d.n = clicked'
        BY <1>2, <2>1, <2>4, <3>3 DEF Clicked
      <4>2. DOMAIN d = DeleteFields /\ d.alone = TRUE /\ pending' = d.row
        BY <2>1, <2>4, <3>3
      <4> QED BY <4>1, <4>2
    <3> QED BY <2>1, <2>5, <3>1, <3>2, <3>3
  <2>6. clicked' \in Nat
    BY <1>2, <2>1 DEF Clicked
  <2>7. Clicked'
    BY <2>5, <2>6 DEF Clicked, DeletedOnce
  <2>8. Asked' /\ Spins'
    BY <1>2, <2>1 DEF Asked, Spins, screen, boxes
  <2> QED BY <2>7, <2>8 DEF ListIInv
<1>16. ASSUME NEW d \in deletes, ServeDelete(d) PROVE ListIInv'
  <2>1. PICK next : deletes' = (deletes \ {d}) \cup {[d EXCEPT !.phase = next]}
    BY <1>16 DEF ServeDelete
  <2>2. UNCHANGED <<clicked, pending>>
    BY <1>16 DEF ServeDelete, RowsChange
  <2>3. Clicked'
    <3> DEFINE e == [d EXCEPT !.phase = next]
    <3>1. DOMAIN e = DeleteFields /\ e.n = d.n /\ e.row = d.row /\ e.alone = d.alone
      BY <1>2 DEF Clicked, DeleteFields
    <3>2. deletes' = (deletes \ {d}) \cup {e}
      BY <2>1
    <3> HIDE DEF e
    <3> QED BY <1>2, <2>2, <3>1, <3>2 DEF Clicked, DeletedOnce
  <2>4. Asked' /\ Spins'
    <3>1. CASE RowsChange
      BY <1>13, <3>1
    <3>2. CASE UNCHANGED <<ready, boxes, screen, spinners, lists, asked>>
      BY <1>2, <3>2 DEF Asked, Spins, screen, boxes, spinners
    <3> QED BY <1>16, <3>1, <3>2 DEF ServeDelete
  <2> QED BY <2>3, <2>4 DEF ListIInv
<1>17. ASSUME NEW d \in deletes, DeleteConfirmed(d) \/ DeleteFails(d) PROVE ListIInv'
  <2>1. EndsDelete(d) /\ UNCHANGED <<pageNo, source>>
    BY <1>17 DEF DeleteConfirmed, DeleteFails, screen
  <2>2. Asked' /\ Spins'
    BY <1>2, <2>1 DEF EndsDelete, Asked, Spins, boxes
  <2> QED BY <1>2, <2>1, <2>2, DeleteStep DEF ListIInv
<1>18. CASE UNCHANGED listVars
  BY <1>2, <1>18 DEF listVars, ListIInv, Asked, Clicked, DeletedOnce, Spins, boxes, screen, spinners, deleting
<1> QED BY <1>1, <1>7, <1>8, <1>9, <1>10, <1>11, <1>12, <1>14, <1>15, <1>16, <1>17, <1>18
        DEF ListNext, ChooseStatus, ChooseTool, Debounced

\* Whatever order the answers come in, a list shows the filter in force and its
\* page number, and no button asks twice for the delete of a row.
THEOREM ListsShowTheirFilter == ListSpec => []ScreenInv
<1>1. ListIInv => ScreenInv
  BY DEF ListIInv, Asked, Clicked, ScreenInv, FilterIsShown, PageIsOfTheRows
<1> QED BY <1>1, ListInitInv, ListStep, PTL DEF ListSpec

Filters == [search : Searches, status : Statuses]

ListRows ==
    /\ listPage \in Views /\ ready \in BOOLEAN /\ logged \in Nat /\ filter \in Filters /\ typed \in Searches
    /\ items \in Seq(1..logged) /\ pageNo \in Nat \ {0}
    /\ \A l \in lists :
          /\ l.from \in Nat /\ l.page \in Nat \ {0} /\ l.filter \in Filters
          /\ l.reply \in Seq(1..logged) /\ Len(l.reply) <= PageSize
\* Rows are deleted on the history page only; the row whose button is disabled
\* is being deleted, and the rows whose delete is confirmed are gone.
Gone ==
    /\ pending = 0 \/ \E d \in deletes : d.row = pending
    /\ deletes # {} => listPage = "history"
    /\ confirmed \subseteq removed /\ \A d \in deletes : d.phase = "gone" => d.row \in removed
\* An answer is what the server would answer now, unless the rows were changed.
StillTrue == \A l \in lists : l.answered /\ ~l.changed => l.reply = Window(Listing(l.filter), l.from)
\* The rows of the activity are the first of the server's, further rows are
\* those after them, and a new filter has its list in flight.
Continuous ==
    listPage = "activity" /\ calm =>
        /\ Len(items) <= Len(Listing(source.filter))
        /\ \A i \in 1..Len(items) : items[i] = Listing(source.filter)[i]
        /\ ~more => items = Listing(source.filter)
        /\ \A l \in lists : l.from > 0 => l.from = Len(items)
        /\ filter # source.filter => \E l \in lists : l.from = 0 /\ l.filter # source.filter

RowsIInv == ListRows /\ Gone /\ StillTrue /\ Continuous

\* What the server lists: rows that are recorded and not deleted.
LEMMA ListingIsLive ==
    ASSUME logged \in Nat, NEW f
    PROVE  /\ Listing(f) \in Seq(1..logged)
           /\ ToSet(Listing(f)) = {r \in 1..logged : r \notin removed /\ Matches(f, r)}
<1> DEFINE n == logged
           up == [r \in 1..n |-> r]
           S == {r \in 1..logged : r \notin removed /\ Matches(f, r)}
<1>1. up \in Seq(1..n) /\ ToSet(up) = 1..n
  <2>1. n \in Nat
    OBVIOUS
  <2>2. up \in [1..n -> 1..n] /\ DOMAIN up = 1..n /\ \A r \in 1..n : up[r] = r
    OBVIOUS
  <2> HIDE DEF n, up
  <2> QED BY <2>1, <2>2 DEF ToSet
<1>2. Listing(f) = Only(Reverse(up), S)
  BY DEF Listing
<1>3. S \subseteq 1..n
  OBVIOUS
<1> HIDE DEF up, S
<1>4. Reverse(up) \in Seq(1..n) /\ ToSet(Reverse(up)) = 1..n
  <2> HIDE DEF n
  <2> QED BY <1>1, ReverseKeeps
<1>5. Only(Reverse(up), S) \in Seq(1..n) /\ ToSet(Only(Reverse(up), S)) = (1..n) \cap S
  <2> DEFINE v == Reverse(up)
  <2>1. v \in Seq(1..n) /\ ToSet(v) = 1..n
    BY <1>4
  <2> HIDE DEF v, n
  <2> DEFINE T == 1..n
             o == Only(v, S)
  <2>2. v \in Seq(T) /\ ToSet(v) = T
    BY <2>1
  <2>3. o \in Seq(T) /\ ToSet(o) = ToSet(v) \cap S
    <3> HIDE DEF T
    <3> QED BY <2>2, OnlyKeeps
  <2>4. o \in Seq(1..n) /\ ToSet(o) = (1..n) \cap S
    BY <2>2, <2>3
  <2> QED BY <2>4 DEF v
<1> QED BY <1>2, <1>3, <1>5 DEF S

\* LIMIT and OFFSET: the rows from a place on, and all of them when fewer than a
\* page are left.
LEMMA WindowIs ==
    ASSUME NEW T, NEW s \in Seq(T), NEW from \in Nat
    PROVE  /\ Window(s, from) \in Seq(T) /\ Len(Window(s, from)) <= PageSize
           /\ \A i \in 1..Len(Window(s, from)) :
                 from + i \in DOMAIN s /\ Window(s, from)[i] = s[from + i]
           /\ Len(Window(s, from)) < PageSize /\ from <= Len(s) => Len(Window(s, from)) = Len(s) - from
<1> DEFINE n == Len(s)
           m == IF from >= n THEN 0 ELSE IF n - from > PageSize THEN PageSize ELSE n - from
           K == {k \in 1..PageSize : from + k \in DOMAIN s}
           w == [i \in 1..m |-> s[from + i]]
<1>1. n \in Nat /\ DOMAIN s = 1..n /\ PageSize \in Nat
  BY LenProperties, ListPagesAssumption
<1>2. m \in Nat /\ m <= PageSize
  <2> HIDE DEF n
  <2> QED BY <1>1
<1>3. K = 1..m
  <2>1. \A k \in 1..PageSize : from + k \in 1..n <=> k \in 1..m
    <3>1. SUFFICES ASSUME NEW k \in 1..PageSize PROVE from + k \in 1..n <=> k <= m
      BY <1>2
    <3>2. k \in Nat \ {0} /\ k <= PageSize
      BY <1>1
    <3> HIDE DEF n
    <3>3. from + k \in 1..n <=> from + k <= n
      BY <1>1, <3>2
    <3> QED BY <1>1, <3>2, <3>3
  <2>2. 1..m \subseteq 1..PageSize
    <3> HIDE DEF m
    <3> QED BY <1>1, <1>2
  <2>3. DOMAIN s = 1..n
    BY <1>1
  <2>4. \A k \in 1..PageSize : from + k \in DOMAIN s <=> k \in 1..m
    BY <2>1, <2>3
  <2> DEFINE D == DOMAIN s
             M == 1..m
             P == 1..PageSize
  <2>5. M \subseteq P /\ \A k \in P : from + k \in D <=> k \in M
    BY <2>2, <2>4
  <2>6. K = {k \in P : from + k \in D}
    OBVIOUS
  <2> HIDE DEF D, M, P, K
  <2>7. K = M
    BY <2>5, <2>6
  <2> QED BY <2>7 DEF M
<1>4. Cardinality(K) = m
  <2> HIDE DEF m, K
  <2> QED BY <1>2, <1>3, FS_Interval
<1>5. Window(s, from) = w
  <2> HIDE DEF m
  <2> QED BY <1>4 DEF Window
<1>6. \A i \in 1..m : from + i \in DOMAIN s
  <2> HIDE DEF m
  <2> QED BY <1>3
<1>7. w \in [1..m -> T]
  <2>1. \A i \in 1..m : s[from + i] \in T
    <3> HIDE DEF m
    <3> QED BY <1>6, LenProperties
  <2> HIDE DEF m
  <2> QED BY <2>1
<1>8. w \in Seq(T) /\ Len(w) = m /\ \A i \in 1..m : w[i] = s[from + i]
  <2> HIDE DEF m
  <2> QED BY <1>2, <1>7
<1>9. m < PageSize /\ from <= n => m = n - from
  <2> HIDE DEF n
  <2> QED BY <1>1
<1> HIDE DEF m, w
<1> QED BY <1>2, <1>5, <1>6, <1>8, <1>9

\* A list that starts like another is a prefix of it.
LEMMA StartsLike ==
    ASSUME NEW T, NEW s \in Seq(T), NEW t \in Seq(T), Len(s) <= Len(t), \A i \in 1..Len(s) : s[i] = t[i]
    PROVE  IsPrefix(s, t)
<1> DEFINE n == Len(s)
           a == SubSeq(s, 1, n)
           b == SubSeq(t, 1, n)
<1>1. n \in Nat /\ Len(t) \in Nat /\ n <= Len(t) /\ \A i \in 1..n : s[i] \in T /\ t[i] \in T
  BY LenProperties
<1>2. a \in Seq(T) /\ Len(a) = n /\ \A i \in 1..n : a[i] = s[i]
  <2> HIDE DEF n
  <2>1. 1 \in Int /\ n \in Int /\ \A i \in 1..n : s[i] \in T
    BY <1>1
  <2>2. a \in Seq(T) /\ Len(a) = (IF 1 <= n THEN n - 1 + 1 ELSE 0) /\ \A i \in 1..n - 1 + 1 : a[i] = s[1 + i - 1]
    BY <2>1, SubSeqProperties
  <2> HIDE DEF a
  <2> QED BY <1>1, <2>2
<1>3. b \in Seq(T) /\ Len(b) = n /\ \A i \in 1..n : b[i] = t[i]
  <2> HIDE DEF n
  <2>1. 1 \in Int /\ n \in Int /\ \A i \in 1..n : t[i] \in T
    BY <1>1
  <2>2. b \in Seq(T) /\ Len(b) = (IF 1 <= n THEN n - 1 + 1 ELSE 0) /\ \A i \in 1..n - 1 + 1 : b[i] = t[1 + i - 1]
    BY <2>1, SubSeqProperties
  <2> HIDE DEF b
  <2> QED BY <1>1, <2>2
<1>4. a = b
  <2>1. \A i \in 1..Len(a) : a[i] = b[i]
    <3> HIDE DEF a, b
    <3> QED BY <1>2, <1>3
  <2> HIDE DEF a, b, n
  <2> QED BY <1>2, <1>3, <2>1, SeqEqual
<1> QED BY <1>1, <1>4 DEF IsPrefix

LEMMA RowsInitInv == ListInit => RowsIInv
<1>1. SUFFICES ASSUME ListInit PROVE RowsIInv
  OBVIOUS
<1>2. /\ listPage \in Views /\ ready \in BOOLEAN /\ logged = AtFirst /\ removed = {} /\ typed = ""
      /\ filter = Everything /\ items = <<>> /\ pageNo = 1 /\ pending = 0 /\ deletes = {} /\ confirmed = {}
      /\ calm = FALSE
  BY <1>1 DEF ListInit
<1>3. AtFirst \in Nat
  <2>1. AtFirst \in 0..Len(Plan)
    BY ListPagesAssumption
  <2> QED BY <2>1
<1>4. Everything \in Filters /\ "" \in Searches
  BY ListPagesAssumption DEF Everything, Filters, Statuses
<1>5. \A l \in lists : l = Request(1, Everything, 0, 1)
  BY <1>1 DEF ListInit
<1>6. /\ Request(1, Everything, 0, 1).from = 0 /\ Request(1, Everything, 0, 1).page = 1
      /\ Request(1, Everything, 0, 1).filter = Everything /\ Request(1, Everything, 0, 1).reply = <<>>
      /\ Request(1, Everything, 0, 1).answered = FALSE
  BY DEF Request
<1>7. <<>> \in Seq(1..logged) /\ Len(<<>>) <= PageSize
  <2>1. <<>> \in Seq(1..logged) /\ Len(<<>>) = 0
    BY EmptySeq
  <2>2. PageSize \in Nat
    BY ListPagesAssumption
  <2>3. 0 <= PageSize
    BY <2>2
  <2> QED BY <2>1, <2>3
<1>8. ListRows
  <2>1. \A l \in lists : /\ l.from \in Nat /\ l.page \in Nat \ {0} /\ l.filter \in Filters
                         /\ l.reply \in Seq(1..logged) /\ Len(l.reply) <= PageSize
    <3> DEFINE R == Request(1, Everything, 0, 1)
    <3>1. \A l \in lists : l = R
      BY <1>5
    <3>2. R.from \in Nat /\ R.page \in Nat \ {0}
      BY <1>6
    <3>3. R.filter \in Filters /\ R.reply \in Seq(1..logged) /\ Len(R.reply) <= PageSize
      BY <1>4, <1>6, <1>7
    <3> HIDE DEF R
    <3> QED BY <3>1, <3>2, <3>3
  <2>2. logged \in Nat
    BY <1>2, <1>3
  <2>4. pageNo \in Nat \ {0}
    <3>1. pageNo = 1
      BY <1>2
    <3> QED BY <3>1
  <2>3. items \in Seq(1..logged)
    BY <1>2, <1>7
  <2> QED BY <1>2, <1>4, <2>1, <2>2, <2>3, <2>4 DEF ListRows
<1>9. Gone
  BY <1>2 DEF Gone
<1>10. StillTrue
  BY <1>5, <1>6 DEF StillTrue
<1>11. Continuous
  BY <1>2 DEF Continuous
<1> QED BY <1>8, <1>9, <1>10, <1>11 DEF RowsIInv

\* What the server lists changes only with its rows.
LEMMA ListingStays ==
    ASSUME UNCHANGED server
    PROVE  \A f : Listing(f)' = Listing(f)
BY DEF server, Listing, Matches

\* A list is asked for: from its first row, or after the rows that are shown.
LEMMA AskRowsStep ==
    ASSUME RowsIInv, UNCHANGED <<listPage, server, screen, deleting, calm>>,
           typed' \in Searches, filter' \in Filters, ready' \in BOOLEAN,
           NEW from \in Nat, NEW p \in Nat \ {0}, AskList(filter', from, p),
           listPage = "activity" /\ from > 0 => from = Len(items),
           filter' # filter => from = 0
    PROVE  RowsIInv'
<1> DEFINE new == Request(asked + 1, filter', from, p)
<1>1. ListRows /\ Gone /\ StillTrue /\ Continuous
  BY DEF RowsIInv
<1>2. lists' = lists \cup {new}
  BY DEF AskList
<1>3. /\ new.from = from /\ new.page = p /\ new.filter = filter' /\ new.reply = <<>>
      /\ new.answered = FALSE
  BY DEF Request
<1>4. <<>> \in Seq(1..logged) /\ Len(<<>>) <= PageSize
  <2>1. <<>> \in Seq(1..logged) /\ Len(<<>>) = 0
    BY EmptySeq
  <2>2. PageSize \in Nat
    BY ListPagesAssumption
  <2>3. 0 <= PageSize
    BY <2>2
  <2> QED BY <2>1, <2>3
<1>5. UNCHANGED <<listPage, logged, removed, items, more, pageNo, source, pending, deletes, confirmed, calm>>
  BY DEF server, screen, deleting
<1>6. \A f : Listing(f)' = Listing(f)
  BY ListingStays
<1> HIDE DEF new
<1>7. ListRows'
  <2>1. \A l \in lists' : /\ l.from \in Nat /\ l.page \in Nat \ {0} /\ l.filter \in Filters
                          /\ l.reply \in Seq(1..logged) /\ Len(l.reply) <= PageSize
    BY <1>1, <1>2, <1>3, <1>4 DEF ListRows
  <2> QED BY <1>1, <1>5, <2>1 DEF ListRows
<1>8. Gone'
  BY <1>1, <1>5 DEF Gone
<1>9. StillTrue'
  <2>1. \A l \in lists' : l.answered /\ ~l.changed => l.reply = Window(Listing(l.filter), l.from)
    BY <1>1, <1>2, <1>3 DEF StillTrue
  <2> QED BY <1>6, <2>1 DEF StillTrue, Window
<1>10. Continuous'
  <2> DEFINE L == Listing(source.filter)
  <2>1. L' = L
    BY <1>5, <1>6
  <2>2. SUFFICES ASSUME listPage = "activity", calm
                 PROVE  /\ Len(items) <= Len(L) /\ \A i \in 1..Len(items) : items[i] = L[i]
                        /\ ~more => items = L
                        /\ \A l \in lists' : l.from > 0 => l.from = Len(items)
                        /\ filter' # source.filter => \E l \in lists' : l.from = 0 /\ l.filter # source.filter
    BY <1>5, <2>1 DEF Continuous
  <2>3. /\ Len(items) <= Len(L) /\ \A i \in 1..Len(items) : items[i] = L[i]
        /\ ~more => items = L
        /\ \A l \in lists : l.from > 0 => l.from = Len(items)
        /\ filter # source.filter => \E l \in lists : l.from = 0 /\ l.filter # source.filter
    BY <1>1, <2>2 DEF Continuous
  <2> HIDE DEF L
  <2>4. \A l \in lists' : l.from > 0 => l.from = Len(items)
    BY <1>2, <1>3, <2>2, <2>3
  <2>5. filter' # source.filter => \E l \in lists' : l.from = 0 /\ l.filter # source.filter
    BY <1>2, <1>3, <2>3
  <2> QED BY <2>3, <2>4, <2>5
<1> QED BY <1>7, <1>8, <1>9, <1>10 DEF RowsIInv

\* The rows change: what was answered before is no longer what the server lists.
LEMMA ChangeStep ==
    ASSUME ListIInv, RowsIInv, RowsChange, logged' \in Nat, logged' >= logged, Gone'
    PROVE  RowsIInv'
<1>1. Asked /\ ListRows
  BY DEF ListIInv, RowsIInv
<1>2. /\ lists' = {[l EXCEPT !.changed = l.answered] : l \in lists} /\ calm' = FALSE
      /\ UNCHANGED <<listPage, ready, typed, filter, items, pageNo>>
  BY DEF RowsChange, boxes, screen
<1>3. ASSUME NEW k \in lists, NEW l, l = [k EXCEPT !.changed = k.answered]
      PROVE  /\ l.from = k.from /\ l.page = k.page /\ l.filter = k.filter /\ l.reply = k.reply
             /\ l.answered = k.answered /\ l.changed = k.answered
  BY <1>1, <1>3 DEF Asked, ListFields
<1>4. \A l \in lists' : \E k \in lists : l = [k EXCEPT !.changed = k.answered]
  BY <1>2
<1>5. Seq(1..logged) \subseteq Seq(1..logged')
  <2>1. 1..logged \subseteq 1..logged'
    BY <1>1 DEF ListRows
  <2> QED BY <2>1, SeqMonotonic
<1>6. ListRows'
  <2>1. \A l \in lists' : /\ l.from \in Nat /\ l.page \in Nat \ {0} /\ l.filter \in Filters
                          /\ l.reply \in Seq(1..logged') /\ Len(l.reply) <= PageSize
    <3> SUFFICES ASSUME NEW l \in lists'
                 PROVE  /\ l.from \in Nat /\ l.page \in Nat \ {0} /\ l.filter \in Filters
                        /\ l.reply \in Seq(1..logged') /\ Len(l.reply) <= PageSize
      OBVIOUS
    <3>1. PICK k \in lists : l = [k EXCEPT !.changed = k.answered]
      BY <1>4
    <3>2. l.from = k.from /\ l.page = k.page /\ l.filter = k.filter /\ l.reply = k.reply
      BY <1>3, <3>1
    <3>3. /\ k.from \in Nat /\ k.page \in Nat \ {0} /\ k.filter \in Filters
          /\ k.reply \in Seq(1..logged) /\ Len(k.reply) <= PageSize
      BY <1>1 DEF ListRows
    <3>4. k.reply \in Seq(1..logged')
      BY <1>5, <3>3
    <3> QED BY <3>2, <3>3, <3>4
  <2>2. items \in Seq(1..logged')
    BY <1>1, <1>5 DEF ListRows
  <2> QED BY <1>1, <1>2, <2>1, <2>2 DEF ListRows
<1>7. StillTrue'
  BY <1>3, <1>4 DEF StillTrue
<1>8. Continuous'
  BY <1>2 DEF Continuous
<1> QED BY <1>6, <1>7, <1>8 DEF RowsIInv

\* The server answers with a page of what it lists.
LEMMA AnswerRowsStep ==
    ASSUME ListIInv, RowsIInv, NEW l \in lists, AnswerList(l)
    PROVE  RowsIInv'
<1> DEFINE all == Listing(l.filter)
           rows == Window(all, l.from)
           now == [l EXCEPT !.answered = TRUE, !.total = Len(all), !.reply = rows]
<1>1. Asked /\ ListRows /\ Gone /\ StillTrue /\ Continuous
  BY DEF ListIInv, RowsIInv
<1>2. lists' = (lists \ {l}) \cup {now}
  BY DEF AnswerList
<1>3. UNCHANGED <<listPage, server, ready, typed, filter, items, more, pageNo, source, pending, deletes, confirmed, calm>>
  BY DEF AnswerList, boxes, screen, deleting
<1>4. logged \in Nat /\ l.from \in Nat /\ l.page \in Nat \ {0} /\ l.filter \in Filters
  BY <1>1 DEF ListRows
<1>5. all \in Seq(1..logged)
  BY <1>4, ListingIsLive
<1>6. rows \in Seq(1..logged) /\ Len(rows) <= PageSize
  <2> DEFINE T == 1..logged
             from == l.from
             w == Window(all, from)
  <2>1. all \in Seq(T) /\ from \in Nat
    BY <1>4, <1>5
  <2> HIDE DEF all, T, from
  <2>2. w \in Seq(T) /\ Len(w) <= PageSize
    BY <2>1, WindowIs
  <2> QED BY <2>2 DEF T, from
<1>7. /\ now.from = l.from /\ now.page = l.page /\ now.filter = l.filter /\ now.reply = rows
      /\ now.answered = TRUE
  <2> HIDE DEF all, rows
  <2> QED BY <1>1 DEF Asked, ListFields
<1>8. \A f : Listing(f)' = Listing(f)
  BY <1>3, ListingStays
<1>9. rows = Window(Listing(l.filter), l.from)
  OBVIOUS
<1> HIDE DEF all, rows, now
<1>10. ListRows'
  <2>1. \A k \in lists' : /\ k.from \in Nat /\ k.page \in Nat \ {0} /\ k.filter \in Filters
                          /\ k.reply \in Seq(1..logged) /\ Len(k.reply) <= PageSize
    BY <1>1, <1>2, <1>4, <1>6, <1>7 DEF ListRows
  <2> QED BY <1>1, <1>3, <2>1 DEF ListRows, server
<1>11. Gone'
  BY <1>1, <1>3 DEF Gone, server
<1>12. StillTrue'
  <2>1. \A k \in lists' : k.answered /\ ~k.changed => k.reply = Window(Listing(k.filter), k.from)
    BY <1>1, <1>2, <1>7, <1>9 DEF StillTrue
  <2> QED BY <1>8, <2>1 DEF StillTrue, Window
<1>13. Continuous'
  <2> DEFINE L == Listing(source.filter)
  <2>1. L' = L
    BY <1>3, <1>8
  <2>2. SUFFICES ASSUME listPage = "activity", calm
                 PROVE  /\ Len(items) <= Len(L) /\ \A i \in 1..Len(items) : items[i] = L[i]
                        /\ ~more => items = L
                        /\ \A k \in lists' : k.from > 0 => k.from = Len(items)
                        /\ filter # source.filter => \E k \in lists' : k.from = 0 /\ k.filter # source.filter
    BY <1>3, <2>1 DEF Continuous
  <2>3. /\ Len(items) <= Len(L) /\ \A i \in 1..Len(items) : items[i] = L[i]
        /\ ~more => items = L
        /\ \A k \in lists : k.from > 0 => k.from = Len(items)
        /\ filter # source.filter => \E k \in lists : k.from = 0 /\ k.filter # source.filter
    BY <1>1, <2>2 DEF Continuous
  <2> HIDE DEF L
  <2>4. \A k \in lists' : k.from > 0 => k.from = Len(items)
    BY <1>2, <1>7, <2>3
  <2>5. filter # source.filter => \E k \in lists' : k.from = 0 /\ k.filter # source.filter
    BY <1>2, <1>7, <2>3
  <2> QED BY <2>3, <2>4, <2>5
<1> QED BY <1>10, <1>11, <1>12, <1>13 DEF RowsIInv

\* A list comes back: its rows take the place of those on the screen, or follow
\* them.
LEMMA ArriveRowsStep ==
    ASSUME ListIInv, RowsIInv, NEW l \in lists, ListArrives(l)
    PROVE  RowsIInv'
<1>1. Asked /\ ListRows /\ Gone /\ StillTrue /\ Continuous
  BY DEF ListIInv, RowsIInv
<1>2. /\ l.answered /\ lists' = lists \ {l} /\ more' = (Len(l.reply) = PageSize) /\ pageNo' = l.page
      /\ source' = [n |-> l.n, filter |-> l.filter, page |-> l.page]
      /\ calm' = (lists = {l} /\ ~l.changed /\ l.filter = filter /\ (l.from > 0 => calm))
  BY DEF ListArrives
<1>3. items' = IF l.from > 0 /\ listPage = "activity" THEN items \o l.reply ELSE l.reply
  BY DEF ListArrives
<1>4. UNCHANGED <<listPage, server, ready, typed, filter, pending, deletes, confirmed>>
  BY DEF ListArrives, boxes, deleting
<1>5. \A f : Listing(f)' = Listing(f)
  BY <1>4, ListingStays
<1>6. /\ logged \in Nat /\ items \in Seq(1..logged) /\ l.from \in Nat /\ l.page \in Nat \ {0}
      /\ l.filter \in Filters /\ l.reply \in Seq(1..logged) /\ Len(l.reply) <= PageSize
  BY <1>1 DEF ListRows
<1>7. ListRows'
  <2>1. \A k \in lists' : /\ k.from \in Nat /\ k.page \in Nat \ {0} /\ k.filter \in Filters
                          /\ k.reply \in Seq(1..logged) /\ Len(k.reply) <= PageSize
    BY <1>1, <1>2 DEF ListRows
  <2>2. items \o l.reply \in Seq(1..logged)
    <3> DEFINE T == 1..logged
               t == l.reply
    <3>1. items \in Seq(T) /\ t \in Seq(T)
      BY <1>6
    <3> HIDE DEF T, t
    <3>2. items \o t \in Seq(T)
      BY <3>1, ConcatProperties
    <3> QED BY <3>2 DEF T, t
  <2>3. items' \in Seq(1..logged)
    BY <1>3, <1>6, <2>2
  <2> QED BY <1>1, <1>2, <1>4, <1>6, <2>1, <2>3 DEF ListRows, server
<1>8. Gone'
  BY <1>1, <1>4 DEF Gone, server
<1>9. StillTrue'
  <2>1. \A k \in lists' : k.answered /\ ~k.changed => k.reply = Window(Listing(k.filter), k.from)
    BY <1>1, <1>2 DEF StillTrue
  <2> QED BY <1>5, <2>1 DEF StillTrue, Window
<1>10. Continuous'
  <2> DEFINE L == Listing(l.filter)
             t == l.reply
             from == l.from
             T == 1..logged
  <2>1. source'.filter = l.filter /\ Listing(source.filter)' = L
    BY <1>2, <1>5
  <2>2. SUFFICES ASSUME listPage = "activity", calm'
                 PROVE  /\ Len(items') <= Len(L) /\ \A i \in 1..Len(items') : items'[i] = L[i]
                        /\ ~more' => items' = L
                        /\ \A k \in lists' : k.from > 0 => k.from = Len(items')
                        /\ filter' # source'.filter => \E k \in lists' : k.from = 0 /\ k.filter # source'.filter
    BY <1>4, <2>1 DEF Continuous
  <2>3. lists = {l} /\ ~l.changed /\ l.filter = filter /\ (from > 0 => calm)
    BY <1>2, <2>2
  <2>4. lists' = {} /\ filter' = source'.filter
    BY <1>2, <1>4, <2>1, <2>3
  <2>5. t = Window(L, from)
    BY <1>1, <1>2, <2>3 DEF StillTrue
  <2>6. L \in Seq(T)
    BY <1>6, ListingIsLive
  <2>7. from \in Nat /\ t \in Seq(T) /\ items \in Seq(T)
    BY <1>6
  <2>8. CASE from = 0
    <3>1. items' = t
      BY <1>3, <2>8
    <3> HIDE DEF L, T, from
    <3>2. /\ Len(Window(L, from)) <= PageSize
          /\ \A i \in 1..Len(Window(L, from)) : from + i \in DOMAIN L /\ Window(L, from)[i] = L[from + i]
          /\ Len(Window(L, from)) < PageSize /\ from <= Len(L) => Len(Window(L, from)) = Len(L) - from
      BY <2>6, <2>7, WindowIs
    <3> HIDE DEF t
    <3>3. DOMAIN L = 1..Len(L) /\ Len(L) \in Nat /\ Len(t) \in Nat /\ PageSize \in Nat
      BY <2>6, <2>7, LenProperties, ListPagesAssumption
    <3>4. \A i \in 1..Len(t) : i \in 1..Len(L) /\ t[i] = L[i]
      <4>1. \A i \in 1..Len(t) : 0 + i \in DOMAIN L /\ t[i] = L[0 + i]
        BY <2>5, <2>8, <3>2
      <4>2. \A i \in 1..Len(t) : 0 + i = i
        BY <3>3
      <4> QED BY <3>3, <4>1, <4>2
    <3>5. Len(t) <= Len(L)
      BY <3>3, <3>4
    <3>6. Len(t) < PageSize => Len(t) = Len(L)
      <4>1. Len(t) < PageSize /\ 0 <= Len(L) => Len(t) = Len(L) - 0
        BY <2>5, <2>8, <3>2
      <4> QED BY <3>3, <4>1
    <3>7. ~more' => t = L
      <4>1. SUFFICES ASSUME ~more' PROVE t = L
        OBVIOUS
      <4>2. Len(t) # PageSize /\ Len(t) <= PageSize
        BY <1>2, <1>6, <4>1 DEF t
      <4>3. Len(t) = Len(L)
        BY <3>3, <3>6, <4>2
      <4> QED BY <2>6, <2>7, <3>4, <4>3, SeqEqual
    <3> QED BY <2>4, <3>1, <3>4, <3>5, <3>7
  <2>9. CASE from > 0
    <3> DEFINE n == Len(items)
    <3>1. items' = items \o t
      BY <1>3, <2>2, <2>9
    <3>2. calm
      BY <2>3, <2>9
    <3>3. \A k \in lists : k.from > 0 => k.from = n
      BY <1>1, <2>2, <3>2 DEF Continuous
    <3>4. from = n
      BY <2>9, <3>3
    <3>5. source.filter = filter
      <4>1. filter # source.filter => \E k \in lists : k.from = 0 /\ k.filter # source.filter
        BY <1>1, <2>2, <3>2 DEF Continuous
      <4>2. \A k \in lists : k.filter = filter
        BY <2>3
      <4>3. \A k \in lists : k.from = from
        BY <2>3
      <4>4. from # 0
        <5> HIDE DEF from
        <5> QED BY <2>7, <2>9
      <4> QED BY <4>1, <4>3, <4>4
    <3>6. n <= Len(L) /\ \A i \in 1..n : items[i] = L[i]
      BY <1>1, <2>2, <2>3, <3>2, <3>5 DEF Continuous
    <3> HIDE DEF L, T, from
    <3>7. /\ Len(Window(L, from)) <= PageSize
          /\ \A i \in 1..Len(Window(L, from)) : from + i \in DOMAIN L /\ Window(L, from)[i] = L[from + i]
          /\ Len(Window(L, from)) < PageSize /\ from <= Len(L) => Len(Window(L, from)) = Len(L) - from
      BY <2>6, <2>7, WindowIs
    <3> HIDE DEF t
    <3>8. DOMAIN L = 1..Len(L) /\ Len(L) \in Nat /\ Len(t) \in Nat /\ n \in Nat
      BY <2>6, <2>7, LenProperties
    <3> DEFINE u == items \o t
    <3>9. /\ u \in Seq(T) /\ Len(u) = n + Len(t)
          /\ \A i \in 1..n + Len(t) : u[i] = IF i <= n THEN items[i] ELSE t[i - n]
      BY <2>7, ConcatProperties
    <3> HIDE DEF n, u
    <3>10. \A i \in 1..Len(t) : n + i \in 1..Len(L) /\ t[i] = L[n + i]
      BY <2>5, <3>4, <3>7, <3>8
    <3>11. \A i \in 1..Len(u) : u[i] = L[i]
      <4> SUFFICES ASSUME NEW i \in 1..Len(u) PROVE u[i] = L[i]
        OBVIOUS
      <4>1. i \in 1..n + Len(t)
        BY <3>9
      <4>2. CASE i <= n
        <5>1. i \in 1..n
          BY <3>8, <4>1, <4>2
        <5> QED BY <3>6, <3>9, <4>1, <4>2, <5>1
      <4>3. CASE ~(i <= n)
        <5>1. i - n \in 1..Len(t) /\ n + (i - n) = i
          BY <3>8, <4>1, <4>3
        <5>2. t[i - n] = L[n + (i - n)]
          BY <3>10, <5>1
        <5>3. u[i] = t[i - n]
          BY <3>9, <4>1, <4>3
        <5> QED BY <5>1, <5>2, <5>3
      <4> QED BY <4>2, <4>3
    <3>12. Len(u) <= Len(L)
      <4>1. CASE Len(t) = 0
        BY <3>6, <3>8, <3>9, <4>1
      <4>2. CASE Len(t) # 0
        <5>1. Len(t) \in 1..Len(t)
          BY <3>8, <4>2
        <5>2. n + Len(t) \in 1..Len(L)
          BY <3>10, <5>1
        <5> QED BY <3>8, <3>9, <5>2
      <4> QED BY <4>1, <4>2
    <3>13. ~more' => u = L
      <4>1. SUFFICES ASSUME ~more' PROVE u = L
        OBVIOUS
      <4>2. Len(t) # PageSize /\ Len(t) <= PageSize
        BY <1>2, <1>6, <4>1 DEF t
      <4>3. PageSize \in Nat
        BY ListPagesAssumption
      <4>4. Len(t) < PageSize
        BY <3>8, <4>2, <4>3
      <4>5. Len(t) = Len(L) - n
        BY <2>5, <3>4, <3>6, <3>7, <4>4
      <4>6. Len(u) = Len(L)
        BY <3>8, <3>9, <4>5
      <4> QED BY <2>6, <3>9, <3>11, <4>6, SeqEqual
    <3> QED BY <2>4, <3>1, <3>11, <3>12, <3>13 DEF u
  <2>10. from = 0 \/ from > 0
    <3> HIDE DEF from
    <3> QED BY <2>7
  <2> QED BY <2>8, <2>9, <2>10
<1> QED BY <1>7, <1>8, <1>9, <1>10 DEF RowsIInv

\* A list fails: the rows stay as they are.
LEMMA FailRowsStep ==
    ASSUME ListIInv, RowsIInv, NEW l \in lists, ListFails(l)
    PROVE  RowsIInv'
<1>1. ListRows /\ Gone /\ StillTrue /\ Continuous
  BY DEF RowsIInv
<1>2. lists' = lists \ {l} /\ calm' = (calm /\ (l.from = 0 => l.filter = source.filter))
  BY DEF ListFails
<1>3. UNCHANGED <<listPage, server, ready, typed, filter, items, more, pageNo, source, pending, deletes, confirmed>>
  BY DEF ListFails, boxes, screen, deleting
<1>4. \A f : Listing(f)' = Listing(f)
  BY <1>3, ListingStays
<1>5. ListRows'
  BY <1>1, <1>2, <1>3 DEF ListRows, server
<1>6. Gone'
  BY <1>1, <1>3 DEF Gone, server
<1>7. StillTrue'
  <2>1. \A k \in lists' : k.answered /\ ~k.changed => k.reply = Window(Listing(k.filter), k.from)
    BY <1>1, <1>2 DEF StillTrue
  <2> QED BY <1>4, <2>1 DEF StillTrue, Window
<1>8. Continuous'
  <2> DEFINE L == Listing(source.filter)
  <2>1. L' = L
    BY <1>3, <1>4
  <2>2. SUFFICES ASSUME listPage = "activity", calm'
                 PROVE  /\ Len(items) <= Len(L) /\ \A i \in 1..Len(items) : items[i] = L[i]
                        /\ ~more => items = L
                        /\ \A k \in lists' : k.from > 0 => k.from = Len(items)
                        /\ filter # source.filter => \E k \in lists' : k.from = 0 /\ k.filter # source.filter
    BY <1>3, <2>1 DEF Continuous
  <2>3. calm /\ (l.from = 0 => l.filter = source.filter)
    BY <1>2, <2>2
  <2>4. /\ Len(items) <= Len(L) /\ \A i \in 1..Len(items) : items[i] = L[i]
        /\ ~more => items = L
        /\ \A k \in lists : k.from > 0 => k.from = Len(items)
        /\ filter # source.filter => \E k \in lists : k.from = 0 /\ k.filter # source.filter
    BY <1>1, <2>2, <2>3 DEF Continuous
  <2> HIDE DEF L
  <2>5. \A k \in lists' : k.from > 0 => k.from = Len(items)
    BY <1>2, <2>4
  <2>6. filter # source.filter => \E k \in lists' : k.from = 0 /\ k.filter # source.filter
    BY <1>2, <2>3, <2>4
  <2> QED BY <2>4, <2>5, <2>6
<1> QED BY <1>5, <1>6, <1>7, <1>8 DEF RowsIInv

\* What leaves the rows of the server, the lists in flight and the rows on the
\* screen alone leaves what is said of them.
LEMMA RowsStay ==
    ASSUME RowsIInv, UNCHANGED <<listPage, server, ready, boxes, screen, lists, calm>>, Gone'
    PROVE  RowsIInv'
<1>1. ListRows /\ Gone /\ StillTrue /\ Continuous
  BY DEF RowsIInv
<1>2. \A f : Listing(f)' = Listing(f)
  BY ListingStays
<1>3. ListRows'
  BY <1>1 DEF ListRows, server, boxes, screen
<1>4. StillTrue'
  BY <1>1, <1>2 DEF StillTrue, Window
<1>5. Continuous'
  BY <1>1, <1>2 DEF Continuous, boxes, screen
<1> QED BY <1>3, <1>4, <1>5 DEF RowsIInv

\* The end of a delete leaves the others as they are, but that their row's
\* button is enabled.
LEMMA EndDelete ==
    ASSUME ListIInv, RowsIInv, NEW d \in deletes, EndsDelete(d),
           \/ confirmed' = confirmed
           \/ d.phase = "gone" /\ confirmed' = confirmed \cup {d.row}
    PROVE  Gone'
<1>1. Gone /\ Clicked
  BY DEF RowsIInv, ListIInv
<1>2. deletes' = {[e EXCEPT !.alone = FALSE] : e \in deletes \ {d}} /\ pending' = 0
  BY DEF EndsDelete
<1>3. listPage' = listPage /\ removed' = removed
  BY DEF EndsDelete, server
<1>4. ASSUME NEW k \in deletes, NEW e, e = [k EXCEPT !.alone = FALSE]
      PROVE  e.phase = k.phase /\ e.row = k.row
  BY <1>1, <1>4 DEF Clicked, DeleteFields
<1>5. \A e \in deletes' : \E k \in deletes : e.phase = k.phase /\ e.row = k.row
  BY <1>2, <1>4
<1>6. confirmed' \subseteq removed'
  BY <1>1, <1>3 DEF Gone
<1> QED BY <1>1, <1>2, <1>3, <1>5, <1>6 DEF Gone

LEMMA RowsStep == ListIInv /\ RowsIInv /\ [ListNext]_listVars => RowsIInv'
<1>1. SUFFICES ASSUME ListIInv, RowsIInv, [ListNext]_listVars PROVE RowsIInv'
  OBVIOUS
<1>2. Asked /\ Clicked /\ ListRows /\ Gone
  BY <1>1 DEF ListIInv, RowsIInv
<1>3. /\ ready \in BOOLEAN /\ filter \in Filters /\ typed \in Searches /\ logged \in Nat
      /\ items \in Seq(1..logged) /\ Len(items) \in Nat /\ pageNo \in Nat \ {0} /\ PageSize \in Nat
  BY <1>2, LenProperties, ListPagesAssumption DEF ListRows
<1>4. CASE SignedIn \/ RefreshList
  <2>1. UNCHANGED <<listPage, server, boxes, screen, deleting, calm>> /\ ready' \in BOOLEAN
    BY <1>3, <1>4 DEF SignedIn, RefreshList
  <2>2. AskList(filter, 0, 1)
    BY <1>4 DEF SignedIn, RefreshList, Load
  <2>3. typed' = typed /\ filter' = filter
    BY <2>1 DEF boxes
  <2>4. 0 \in Nat /\ 1 \in Nat \ {0} /\ ~(0 > 0)
    OBVIOUS
  <2> QED BY <1>1, <1>3, <2>1, <2>2, <2>3, <2>4, AskRowsStep
<1>5. CASE LoadMoreRows
  <2> DEFINE n == Len(items)
  <2>1. UNCHANGED <<listPage, server, ready, boxes, screen, deleting, calm>> /\ AskList(filter, n, 1)
    BY <1>5 DEF LoadMoreRows
  <2>2. typed' = typed /\ filter' = filter /\ n \in Nat
    BY <1>3, <2>1 DEF boxes
  <2>3. 1 \in Nat \ {0}
    OBVIOUS
  <2>4. n = Len(items)
    OBVIOUS
  <2> HIDE DEF n
  <2> QED BY <1>1, <1>3, <2>1, <2>2, <2>3, <2>4, AskRowsStep
<1>6. ASSUME NEW p \in 1..Len(Plan), Turn(p) PROVE RowsIInv'
  <2> DEFINE from == PageSize * (p - 1)
  <2>1. UNCHANGED <<listPage, server, ready, boxes, screen, deleting, calm>> /\ AskList(filter, from, p)
    BY <1>6 DEF Turn
  <2>2. listPage = "users" /\ p >= 1 /\ p \in {pageNo - 1, pageNo + 1}
    BY <1>6 DEF Turn
  <2>3. typed' = typed /\ filter' = filter
    BY <2>1 DEF boxes
  <2>4. p \in Nat \ {0} /\ p - 1 \in Nat
    BY <1>3, <2>2
  <2>5. from \in Nat
    <3>1. \A m, k \in Nat : m * k \in Nat
      OBVIOUS
    <3> QED BY <1>3, <2>4, <3>1
  <2>6. listPage # "activity"
    BY <2>2
  <2> HIDE DEF from
  <2> QED BY <1>1, <1>3, <2>1, <2>3, <2>4, <2>5, <2>6, AskRowsStep
<1>7. ASSUME NEW f \in Filters, FilterBy(f), typed' \in Searches PROVE RowsIInv'
  <2>1. UNCHANGED <<listPage, server, ready, screen, deleting, calm>> /\ AskList(filter', 0, 1) /\ filter' = f
    BY <1>7 DEF FilterBy, Load
  <2>2. 0 \in Nat /\ 1 \in Nat \ {0} /\ ~(0 > 0)
    OBVIOUS
  <2> QED BY <1>1, <1>3, <1>7, <2>1, <2>2, AskRowsStep
<1>8. ASSUME NEW s \in Statuses, ChooseStatus(s) PROVE RowsIInv'
  <2>1. [filter EXCEPT !.status = s] \in Filters
    BY <1>3, <1>8 DEF Filters
  <2>2. FilterBy([filter EXCEPT !.status = s]) /\ typed' = typed
    BY <1>8 DEF ChooseStatus
  <2> QED BY <1>3, <1>7, <2>1, <2>2
<1>9. ASSUME NEW s \in Searches, ChooseTool(s) PROVE RowsIInv'
  <2>1. [filter EXCEPT !.search = s] \in Filters
    BY <1>3, <1>9 DEF Filters
  <2>2. FilterBy([filter EXCEPT !.search = s]) /\ typed' = s
    BY <1>9 DEF ChooseTool
  <2> QED BY <1>3, <1>7, <2>1, <2>2
<1>10. CASE Debounced
  <2>1. [filter EXCEPT !.search = typed] \in Filters
    BY <1>3, <1>10 DEF Filters
  <2>2. FilterBy([filter EXCEPT !.search = typed]) /\ typed' = typed
    BY <1>10 DEF Debounced
  <2> QED BY <1>3, <1>7, <2>1, <2>2
<1>11. ASSUME NEW s \in Searches, TypeSearch(s) PROVE RowsIInv'
  <2>1. /\ typed' = s
        /\ UNCHANGED <<listPage, server, ready, filter, screen, lists, deleting, calm>>
    BY <1>11 DEF TypeSearch
  <2>2. ListRows'
    BY <1>2, <2>1 DEF ListRows, server, screen
  <2>3. Gone'
    BY <1>2, <2>1 DEF Gone, server, deleting
  <2>4. \A f : Listing(f)' = Listing(f)
    BY <2>1, ListingStays
  <2>5. StillTrue'
    BY <1>1, <2>1, <2>4 DEF RowsIInv, StillTrue, Window
  <2>6. Continuous'
    BY <1>1, <2>1, <2>4 DEF RowsIInv, Continuous, screen
  <2> QED BY <2>2, <2>3, <2>5, <2>6 DEF RowsIInv
<1>12. ASSUME NEW l \in lists, AnswerList(l) \/ ListArrives(l) \/ ListFails(l) PROVE RowsIInv'
  BY <1>1, <1>12, AnswerRowsStep, ArriveRowsStep, FailRowsStep
<1>13. CASE Record
  <2>1. RowsChange /\ logged' = logged + 1 /\ UNCHANGED <<removed, deletes>>
    BY <1>13 DEF Record
  <2>2. UNCHANGED <<listPage, pending, confirmed>>
    BY <2>1 DEF RowsChange
  <2>3. Gone'
    BY <1>2, <2>1, <2>2 DEF Gone
  <2>4. logged' \in Nat /\ logged' >= logged
    BY <1>3, <2>1
  <2> QED BY <1>1, <2>1, <2>3, <2>4, ChangeStep
<1>14. ASSUME NEW r \in 1..logged, DeletedElsewhere(r) PROVE RowsIInv'
  <2>1. RowsChange /\ removed' = removed \cup {r} /\ UNCHANGED <<logged, deletes>>
    BY <1>14 DEF DeletedElsewhere
  <2>2. UNCHANGED <<listPage, pending, confirmed>>
    BY <2>1 DEF RowsChange
  <2>3. Gone'
    BY <1>2, <2>1, <2>2 DEF Gone
  <2>4. logged' \in Nat /\ logged' >= logged
    BY <1>3, <2>1
  <2> QED BY <1>1, <2>1, <2>3, <2>4, ChangeStep
<1>15. ASSUME NEW r \in 1..logged, ClickDelete(r) PROVE RowsIInv'
  <2> DEFINE new == [n |-> clicked + 1, row |-> r, phase |-> "sent", alone |-> TRUE]
             others == {[d EXCEPT !.alone = FALSE] : d \in {e \in deletes : e.row # r}}
             mine == {d \in deletes : d.row = r}
  <2>1. /\ listPage = "history" /\ pending' = r /\ deletes' = others \cup mine \cup {new}
        /\ UNCHANGED <<listPage, server, ready, boxes, screen, lists, confirmed, calm>>
    BY <1>15 DEF ClickDelete
  <2>2. \A e \in others : \E k \in deletes : e.phase = k.phase /\ e.row = k.row
    <3>1. ASSUME NEW k \in deletes, NEW e, e = [k EXCEPT !.alone = FALSE]
          PROVE  e.phase = k.phase /\ e.row = k.row
      BY <1>2, <3>1 DEF Clicked, DeleteFields
    <3> QED BY <3>1
  <2>3. \A e \in mine : e \in deletes
    OBVIOUS
  <2>4. new.row = r /\ new.phase = "sent"
    OBVIOUS
  <2> HIDE DEF new, others, mine
  <2>5. Gone'
    <3>1. \A e \in deletes' : e.phase = "gone" => e.row \in removed
      BY <1>2, <2>1, <2>2, <2>3, <2>4 DEF Gone
    <3>2. \E e \in deletes' : e.row = pending'
      BY <2>1, <2>4
    <3> QED BY <1>2, <2>1, <3>1, <3>2 DEF Gone, server
  <2> QED BY <1>1, <2>1, <2>5, RowsStay
<1>16. ASSUME NEW d \in deletes, ServeDelete(d) PROVE RowsIInv'
  <2> DEFINE next == IF d.row \in removed THEN "missing" ELSE "gone"
             served == [d EXCEPT !.phase = next]
  <2>1. deletes' = (deletes \ {d}) \cup {served} /\ removed' = removed \cup {d.row}
    BY <1>16 DEF ServeDelete
  <2>2. UNCHANGED <<listPage, pending, confirmed, logged>>
    BY <1>16 DEF ServeDelete, RowsChange
  <2>3. served.row = d.row
    BY <1>2 DEF Clicked, DeleteFields
  <2> HIDE DEF served
  <2>4. Gone'
    <3>1. pending = 0 \/ \E e \in deletes' : e.row = pending
      BY <1>2, <2>1, <2>3 DEF Gone
    <3>2. \A e \in deletes' : e.phase = "gone" => e.row \in removed'
      BY <1>2, <2>1, <2>3 DEF Gone
    <3>3. deletes' # {} => listPage = "history"
      BY <1>2, <2>1 DEF Gone
    <3> QED BY <1>2, <2>1, <2>2, <3>1, <3>2, <3>3 DEF Gone
  <2>5. CASE d.row \in removed
    <3>1. removed' = removed
      BY <2>1, <2>5
    <3>2. UNCHANGED <<listPage, logged, ready, boxes, screen, lists, calm>>
      BY <1>16, <2>5 DEF ServeDelete
    <3>3. UNCHANGED server
      BY <3>1, <3>2 DEF server
    <3> QED BY <1>1, <2>4, <3>2, <3>3, RowsStay
  <2>6. CASE d.row \notin removed
    <3>1. RowsChange
      BY <1>16, <2>6 DEF ServeDelete
    <3>2. logged' \in Nat /\ logged' >= logged
      BY <1>3, <2>2
    <3> QED BY <1>1, <2>4, <3>1, <3>2, ChangeStep
  <2> QED BY <2>5, <2>6
<1>17. ASSUME NEW d \in deletes, DeleteFails(d) PROVE RowsIInv'
  <2>1. EndsDelete(d) /\ UNCHANGED <<screen, confirmed>>
    BY <1>17 DEF DeleteFails
  <2>2. UNCHANGED <<listPage, server, ready, boxes, lists, calm>>
    BY <2>1 DEF EndsDelete
  <2>3. Gone'
    BY <1>1, <2>1, EndDelete
  <2> QED BY <1>1, <2>1, <2>2, <2>3, RowsStay
<1>18. ASSUME NEW d \in deletes, DeleteConfirmed(d) PROVE RowsIInv'
  <2> DEFINE x == d.row
             T == 1..logged
             left == Without(items, x)
  <2>1. /\ d.phase = "gone" /\ EndsDelete(d) /\ items' = left /\ confirmed' = confirmed \cup {x}
        /\ UNCHANGED <<more, pageNo, source>>
    BY <1>18 DEF DeleteConfirmed
  <2>2. UNCHANGED <<listPage, server, ready, boxes, lists, calm>>
    BY <2>1 DEF EndsDelete
  <2>3. Gone'
    BY <1>1, <2>1, EndDelete
  <2>4. left \in Seq(T)
    <3>1. items \in Seq(T)
      BY <1>3
    <3> HIDE DEF T, x
    <3> QED BY <3>1, WithoutKeeps
  <2>5. ListRows'
    BY <1>2, <2>1, <2>2, <2>4 DEF ListRows, server, boxes
  <2>6. \A f : Listing(f)' = Listing(f)
    BY <2>2, ListingStays
  <2>7. StillTrue'
    BY <1>1, <2>2, <2>6 DEF RowsIInv, StillTrue, Window
  <2>8. Continuous'
    BY <1>2, <2>2 DEF Gone, Continuous
  <2> QED BY <2>3, <2>5, <2>7, <2>8 DEF RowsIInv
<1>19. CASE UNCHANGED listVars
  <2>1. UNCHANGED <<listPage, server, ready, boxes, screen, lists, calm, deleting>>
    BY <1>19 DEF listVars
  <2>2. Gone'
    BY <1>2, <2>1 DEF Gone, server, deleting
  <2> QED BY <1>1, <2>1, <2>2, RowsStay
<1>20. CASE ListNext
  BY <1>4, <1>5, <1>6, <1>8, <1>9, <1>10, <1>11, <1>12, <1>13, <1>14, <1>15, <1>16, <1>17, <1>18, <1>20
     DEF ListNext
<1> QED BY <1>1, <1>19, <1>20

\* A list of the server's rows is what an answer to it holds.
LEMMA ReplyIsLive ==
    ASSUME ListIInv, RowsIInv, NEW l \in lists, l.answered, ~l.changed
    PROVE  ToSet(l.reply) \cap removed = {}
<1> DEFINE L == Listing(l.filter)
           T == 1..logged
           from == l.from
           t == l.reply
<1>1. ListRows /\ StillTrue
  BY DEF RowsIInv
<1>2. logged \in Nat /\ from \in Nat /\ t \in Seq(T)
  BY <1>1 DEF ListRows
<1>3. L \in Seq(T) /\ ToSet(L) \cap removed = {}
  <2>1. /\ L \in Seq(T)
        /\ ToSet(L) = {r \in 1..logged : r \notin removed /\ Matches(l.filter, r)}
    BY <1>2, ListingIsLive
  <2> HIDE DEF L, T
  <2> QED BY <2>1
<1>4. t = Window(L, from)
  BY <1>1 DEF StillTrue
<1> HIDE DEF L, T, from
<1>5. \A i \in 1..Len(Window(L, from)) : from + i \in DOMAIN L /\ Window(L, from)[i] = L[from + i]
  BY <1>2, <1>3, WindowIs
<1> HIDE DEF t
<1>6. \A i \in 1..Len(t) : from + i \in DOMAIN L /\ t[i] = L[from + i]
  BY <1>4, <1>5
<1>7. DOMAIN t = 1..Len(t)
  BY <1>2, LenProperties
<1>8. ToSet(t) \subseteq ToSet(L)
  <2> SUFFICES ASSUME NEW i \in DOMAIN t PROVE t[i] \in ToSet(L)
    BY DEF ToSet
  <2>1. from + i \in DOMAIN L /\ t[i] = L[from + i]
    BY <1>6, <1>7
  <2> QED BY <2>1 DEF ToSet
<1>9. ToSet(t) \cap removed = {}
  BY <1>3, <1>8
<1> QED BY <1>9 DEF t

LEMMA RowsShown == ListIInv /\ RowsIInv => ListInv
<1> SUFFICES ASSUME ListIInv, RowsIInv PROVE ListInv
  OBVIOUS
<1>1. Asked /\ ListRows /\ Gone /\ Continuous
  BY DEF ListIInv, RowsIInv
<1>2. logged \in Nat /\ items \in Seq(1..logged)
  BY <1>1 DEF ListRows
<1>3. ToSet(items) \subseteq 1..logged
  <2> DEFINE T == 1..logged
  <2>1. items \in Seq(T)
    BY <1>2
  <2> HIDE DEF T
  <2>2. ToSet(items) \subseteq T
    BY <2>1, MembersOf
  <2> QED BY <2>2 DEF T
<1>4. ListTypeOK
  BY <1>1, <1>3 DEF ListTypeOK, ListRows, Asked, Gone, Filters
<1>5. MoreIsContinuous
  <2> DEFINE L == Listing(source.filter)
             T == 1..logged
  <2>1. L \in Seq(T) /\ items \in Seq(T)
    BY <1>2, ListingIsLive
  <2>2. SUFFICES ASSUME listPage = "activity", calm PROVE IsPrefix(items, L) /\ (~more => items = L)
    BY DEF MoreIsContinuous
  <2>3. Len(items) <= Len(L) /\ (\A i \in 1..Len(items) : items[i] = L[i]) /\ (~more => items = L)
    BY <1>1, <2>2 DEF Continuous
  <2> HIDE DEF L, T
  <2> QED BY <2>1, <2>3, StartsLike
<1> QED BY <1>4, <1>5 DEF ListInv

\* Whatever is filtered, recorded, deleted and answered, in whatever order: the
\* rows of a list are rows of the server, a page at most at a time, and those of
\* the activity are the first of the server's, and all when no more are offered.
THEOREM RowsAreTheServers == ListSpec => []ListInv
<1>1. ListIInv /\ RowsIInv => ListInv
  BY RowsShown
<1>2. ListInit => ListIInv /\ RowsIInv
  BY ListInitInv, RowsInitInv
<1>3. (ListIInv /\ RowsIInv) /\ [ListNext]_listVars => (ListIInv /\ RowsIInv)'
  BY ListStep, RowsStep
<1> QED BY <1>1, <1>2, <1>3, PTL DEF ListSpec

\* A confirmed delete takes the row off; after that only an answer of before the
\* delete can bring it back, and none if the delete was answered first.
LEMMA StaysOffStep ==
    ASSUME ListIInv, RowsIInv, ListNext, NEW r \in confirmed', Contains(items', r)
    PROVE  \/ r \in confirmed /\ Contains(items, r)
           \/ \E l \in lists \ lists' : l.changed /\ Contains(l.reply, r)
<1>1. ListRows /\ Gone
  BY DEF RowsIInv
<1>2. logged \in Nat /\ items \in Seq(1..logged)
  BY <1>1 DEF ListRows
<1> DEFINE T == 1..logged
<1>3. items \in Seq(T) /\ \A l \in lists : l.reply \in Seq(T)
  BY <1>1 DEF ListRows
<1>4. ASSUME NEW s \in Seq(T) PROVE Contains(s, r) <=> r \in ToSet(s)
  <2> HIDE DEF T
  <2> QED BY ContainsIsMember
<1>5. CASE UNCHANGED <<items, confirmed>>
  BY <1>5
<1>6. ASSUME NEW l \in lists, ListArrives(l)
      PROVE  \/ r \in confirmed /\ Contains(items, r)
             \/ \E k \in lists \ lists' : k.changed /\ Contains(k.reply, r)
  <2> DEFINE t == l.reply
  <2>1. /\ l.answered /\ lists' = lists \ {l} /\ confirmed' = confirmed
        /\ items' = items \o t \/ items' = t
    BY <1>6 DEF ListArrives, deleting
  <2>2. r \in removed
    BY <1>1, <2>1 DEF Gone
  <2>3. items \in Seq(T) /\ t \in Seq(T)
    BY <1>3
  <2>4. r \in ToSet(items) \cup ToSet(t)
    <3> HIDE DEF T, t
    <3>1. items \o t \in Seq(T) /\ ToSet(items \o t) = ToSet(items) \cup ToSet(t)
      BY <2>3, ConcatKeeps
    <3>2. CASE items' = items \o t
      <4>1. Contains(items \o t, r)
        BY <3>2
      <4>2. r \in ToSet(items \o t)
        BY <1>4, <3>1, <4>1
      <4> QED BY <3>1, <4>2
    <3>3. CASE items' = t
      <4>1. Contains(t, r)
        BY <3>3
      <4> QED BY <1>4, <2>3, <4>1
    <3> QED BY <2>1, <3>2, <3>3
  <2>5. CASE r \in ToSet(items)
    BY <1>4, <2>1, <2>3, <2>5
  <2>6. CASE r \in ToSet(t)
    <3>1. l.changed
      BY <2>1, <2>2, <2>6, ReplyIsLive
    <3>2. Contains(t, r)
      BY <1>4, <2>3, <2>6
    <3> QED BY <2>1, <3>1, <3>2
  <2> QED BY <2>4, <2>5, <2>6
<1>7. ASSUME NEW d \in deletes, DeleteConfirmed(d) PROVE r \in confirmed /\ Contains(items, r)
  <2> DEFINE x == d.row
  <2>1. items' = Without(items, x) /\ confirmed' = confirmed \cup {x}
    BY <1>7 DEF DeleteConfirmed
  <2> HIDE DEF T, x
  <2>2. Without(items, x) \in Seq(T) /\ ToSet(Without(items, x)) = ToSet(items) \ {x}
    BY <1>3, WithoutKeeps
  <2>3. Contains(Without(items, x), r)
    BY <2>1
  <2>4. r \in ToSet(items) \ {x}
    BY <1>4, <2>2, <2>3
  <2> QED BY <1>3, <1>4, <2>1, <2>4
<1>8. CASE \/ SignedIn \/ Debounced \/ RefreshList \/ LoadMoreRows
           \/ \E s \in Statuses : ChooseStatus(s)
           \/ \E s \in Searches : ChooseTool(s) \/ TypeSearch(s)
           \/ \E p \in 1..Len(Plan) : Turn(p)
  <2>1. UNCHANGED <<items, confirmed>>
    BY <1>8 DEF SignedIn, Debounced, RefreshList, LoadMoreRows, ChooseStatus, ChooseTool, TypeSearch, Turn,
                FilterBy, screen, deleting
  <2> QED BY <1>5, <2>1
<1>9. CASE \/ \E l \in lists : AnswerList(l) \/ ListFails(l)
           \/ Record \/ \E k \in 1..logged : DeletedElsewhere(k) \/ ClickDelete(k)
           \/ \E d \in deletes : ServeDelete(d) \/ DeleteFails(d)
  <2>1. UNCHANGED <<items, confirmed>>
    BY <1>9 DEF AnswerList, ListFails, Record, DeletedElsewhere, RowsChange, ClickDelete, ServeDelete,
                DeleteFails, screen, deleting
  <2> QED BY <1>5, <2>1
<1> QED BY <1>6, <1>7, <1>8, <1>9 DEF ListNext

THEOREM ConfirmedDeletesStayOff == ListSpec => DeletedStaysOff
<1> DEFINE StaysOff ==
        \A r \in confirmed' : Contains(items', r) =>
            \/ r \in confirmed /\ Contains(items, r)
            \/ \E l \in lists \ lists' : l.changed /\ Contains(l.reply, r)
<1>1. ListInit => ListIInv /\ RowsIInv
  BY ListInitInv, RowsInitInv
<1>2. (ListIInv /\ RowsIInv) /\ [ListNext]_listVars => (ListIInv /\ RowsIInv)'
  BY ListStep, RowsStep
<1>3. (ListIInv /\ RowsIInv) /\ [ListNext]_listVars => [StaysOff]_listVars
  BY StaysOffStep
<1>4. ListSpec => [][StaysOff]_listVars
  <2> HIDE DEF StaysOff
  <2> QED BY <1>1, <1>2, <1>3, PTL DEF ListSpec
<1> QED BY <1>4 DEF DeletedStaysOff

-----------------------------------------------------------------------------
(* The pages of the tools.                                                 *)

\* What the slots, the runs and the results of a page have to do with what it
\* selects.
Shape(k) ==
    /\ k.runs = "dropped" => k.selects = "nothing" /\ k.slots = 1
    /\ k.selects \notin {"nothing", "files"} => k.runs = "asked" /\ k.slots = 1
    /\ k.selects = "files" => ~k.shows
    /\ k.ordered => k.selects \in {"sheets", "files"}
    /\ k.options # "none" => k.selects = "columns"
    /\ k.slots \in {0, 1, 2}

LEMMA PageShapes == \A k \in Kinds : Shape(k)
<1>1. \A k \in AllPages : Shape(k)
  <2>1. /\ Shape(MergeSheetsPage) /\ Shape(SplitWorkbookPage) /\ Shape(ConvertXlsxToCsvPage)
        /\ Shape(ConvertXlsxToJsonPage) /\ Shape(ConvertXlsxToSqlPage) /\ Shape(ConvertXlsxToXmlPage)
    BY DEF Shape, Preview, MergeSheetsPage, SplitWorkbookPage, ConvertXlsxToCsvPage,
       ConvertXlsxToJsonPage, ConvertXlsxToSqlPage, ConvertXlsxToXmlPage
  <2>2. /\ Shape(ConvertXlsxToPdfPage) /\ Shape(RemoveEmptyRowsPage) /\ Shape(PasswordProtectPage)
        /\ Shape(TrimSpacesPage) /\ Shape(FindReplacePage) /\ Shape(NormalizeCasePage)
    BY DEF Shape, Preview, ConvertXlsxToPdfPage, RemoveEmptyRowsPage, PasswordProtectPage,
       TrimSpacesPage, FindReplacePage, NormalizeCasePage
  <2>3. /\ Shape(RemoveDuplicatesPage) /\ Shape(SortRowsPage) /\ Shape(SplitColumnPage)
        /\ Shape(ValidateEmailsPage) /\ Shape(SplitSheetPage) /\ Shape(TransposeSheetPage)
    BY DEF Shape, Preview, RemoveDuplicatesPage, SortRowsPage, SplitColumnPage,
       ValidateEmailsPage, SplitSheetPage, TransposeSheetPage
  <2>4. /\ Shape(ConvertCsvToXlsxPage) /\ Shape(ConvertJsonToXlsxPage) /\ Shape(ConvertSqlToXlsxPage)
        /\ Shape(ConvertXmlToXlsxPage) /\ Shape(FreezeHeaderPage) /\ Shape(CompareWorkbooksPage)
    BY DEF Shape, Plain, Preview, ConvertCsvToXlsxPage, ConvertJsonToXlsxPage, ConvertSqlToXlsxPage,
       ConvertXmlToXlsxPage, FreezeHeaderPage, CompareWorkbooksPage
  <2>5. /\ Shape(AutoSizeColumnsPage) /\ Shape(RemovePasswordPage) /\ Shape(DetectBlanksPage)
        /\ Shape(ScanFormulaErrorsPage) /\ Shape(SummaryStatsPage) /\ Shape(AppendWorkbooksPage)
    BY DEF Shape, Plain, Preview, AutoSizeColumnsPage, RemovePasswordPage, DetectBlanksPage,
       ScanFormulaErrorsPage, SummaryStatsPage, AppendWorkbooksPage
  <2> QED BY <2>1, <2>2, <2>3, <2>4, <2>5 DEF AllPages
<1> QED BY <1>1, ToolPagesAssumption
\* Until a file is dropped while the page is busy, at most one call is in
\* flight; its spinner turns, and what it sent is the file that is picked.
Quiet ==
    "crossed" \notin past =>
        /\ \A c, d \in waiting : c = d
        /\ \A c \in waiting :
              /\ Spinner(c.kind) \in spinning
              /\ c.kind = "read" => c.form.files[1] = picked[1]
              /\ c.kind = "run" /\ page.shows => c.form.files = picked

PageIInv ==
    /\ page \in Kinds /\ DOMAIN picked = 1..page.slots
    /\ Quiet /\ PreviewIsOfTheFile /\ ResultIsOfTheFile /\ PageSpinnerIsBacked

LEMMA PageInitInv == PageInit => PageIInv
<1>1. SUFFICES ASSUME PageInit PROVE PageIInv
  OBVIOUS
<1>2. DOMAIN picked = 1..page.slots
  BY <1>1 DEF PageInit
<1> QED BY <1>1, <1>2 DEF PageInit, PageIInv, Quiet, PreviewIsOfTheFile, NoPreview, ResultIsOfTheFile, PageSpinnerIsBacked

\* What becomes of the calls when one of them is sent, or ends.
LEMMA SendStep ==
    ASSUME PageIInv, NEW kind, NEW form, Send(kind, form), page' = page,
           "crossed" \notin past' => waiting = {},
           kind = "read" => form.files[1] = picked'[1],
           kind = "run" /\ page.shows => form.files = picked'
    PROVE  Quiet' /\ PageSpinnerIsBacked' /\ \E c \in waiting' : c.kind = kind
<1> DEFINE new == [n |-> sent + 1, kind |-> kind, form |-> form]
<1>1. new.kind = kind /\ new.form = form
  OBVIOUS
<1>2. waiting' = waiting \cup {new} /\ spinning' = spinning \cup {Spinner(kind)}
  BY DEF Send
<1> HIDE DEF new
<1>3. Quiet'
  BY <1>1, <1>2 DEF Quiet, Spinner
<1>4. PageSpinnerIsBacked'
  BY <1>1, <1>2 DEF PageIInv, PageSpinnerIsBacked, Spinner
<1> QED BY <1>1, <1>2, <1>3, <1>4

LEMMA EndStep ==
    ASSUME PageIInv, NEW c \in waiting, waiting' = waiting \ {c},
           spinning' = spinning \ {Spinner(c.kind)}, page' = page, picked' = picked,
           "crossed" \in past => "crossed" \in past'
    PROVE  Quiet' /\ PageSpinnerIsBacked'
<1>1. Quiet'
  BY DEF PageIInv, Quiet, Spinner
<1>2. ASSUME NEW s \in spinning' PROVE \E d \in waiting' : Spinner(d.kind) = s
  BY <1>2 DEF PageIInv, PageSpinnerIsBacked
<1> QED BY <1>1, <1>2 DEF PageSpinnerIsBacked, Spinner

LEMMA PageStep == PageIInv /\ [PageNext]_pageVars => PageIInv'
<1>1. SUFFICES ASSUME PageIInv, [PageNext]_pageVars PROVE PageIInv'
  OBVIOUS
<1>2. /\ page \in Kinds /\ DOMAIN picked = 1..page.slots
      /\ Quiet /\ PreviewIsOfTheFile /\ ResultIsOfTheFile /\ PageSpinnerIsBacked
  BY <1>1 DEF PageIInv
<1>3. Shape(page)
  BY <1>2, PageShapes
<1>4. ASSUME UNCHANGED <<page, picked, shown, spinning, result, waiting>>, past \subseteq past'
      PROVE  PageIInv'
  BY <1>2, <1>4 DEF PageIInv, Quiet, Spinner, PreviewIsOfTheFile, Previews, NoPreview,
     ResultIsOfTheFile, PageSpinnerIsBacked
<1>5. ASSUME "crossed" \notin Crossing PROVE waiting = {} /\ "crossed" \notin past
  BY <1>5 DEF Crossing
<1>6. ASSUME NEW f \in Files, PickToPreview(f) PROVE PageIInv'
  <2>1. /\ page' = page /\ picked' = [picked EXCEPT ![1] = f] /\ result' = NoForm
        /\ Send("read", [files |-> <<f>>]) /\ past' = Crossing \ {"unread"} /\ Previews
    BY <1>6 DEF PickToPreview
  <2>2. page.clears => shown' = NoFile
    BY <1>6 DEF PickToPreview, Cleared
  <2>3. DOMAIN picked' = 1..page'.slots /\ picked'[1] = f
    BY <1>2, <1>3, <2>1 DEF Shape, Previews
  <2>4. "crossed" \notin past' => waiting = {}
    BY <1>5, <2>1
  <2>5. [files |-> <<f>>].files[1] = f
    OBVIOUS
  <2>6. Quiet' /\ PageSpinnerIsBacked' /\ \E c \in waiting' : c.kind = "read"
    BY <1>1, <2>1, <2>3, <2>4, <2>5, SendStep
  <2>7. PreviewIsOfTheFile'
    BY <2>1, <2>2, <2>6 DEF PreviewIsOfTheFile, NoPreview
  <2> QED BY <1>2, <2>1, <2>3, <2>6, <2>7 DEF PageIInv, ResultIsOfTheFile
<1>7. ASSUME NEW f \in Files, NEW slot \in DOMAIN picked, Hold(slot, f) PROVE PageIInv'
  <2>1. /\ UNCHANGED <<page, waiting, spinning>> /\ result' = NoForm /\ past' = Crossing
        /\ DOMAIN picked' = DOMAIN picked /\ page.selects = "nothing"
    BY <1>7 DEF Hold
  <2>2. PreviewIsOfTheFile'
    BY <2>1 DEF PreviewIsOfTheFile, Previews
  <2>3. Quiet' /\ PageSpinnerIsBacked'
    BY <1>2, <1>5, <2>1 DEF Quiet, PageSpinnerIsBacked, Spinner
  <2> QED BY <1>2, <2>1, <2>2, <2>3 DEF PageIInv, ResultIsOfTheFile
<1>8. ASSUME NEW f \in Files, RunDropped(f) PROVE PageIInv'
  <2>1. /\ page' = page /\ picked' = [picked EXCEPT ![1] = f] /\ result' = NoForm
        /\ Send("run", [files |-> <<f>>]) /\ past' = Crossing /\ page.runs = "dropped"
    BY <1>8 DEF RunDropped
  <2>2. page.slots = 1 /\ page.selects = "nothing"
    BY <1>3, <2>1 DEF Shape
  <2>3. picked' = <<f>> /\ DOMAIN picked' = 1..page'.slots
    BY <1>2, <2>1, <2>2
  <2>4. "crossed" \notin past' => waiting = {}
    BY <1>5, <2>1
  <2>5. [files |-> <<f>>].files = <<f>>
    OBVIOUS
  <2>6. Quiet' /\ PageSpinnerIsBacked'
    BY <1>1, <2>1, <2>3, <2>4, <2>5, SendStep
  <2>7. PreviewIsOfTheFile'
    BY <2>1, <2>2 DEF PreviewIsOfTheFile, Previews
  <2> QED BY <1>2, <2>1, <2>3, <2>6, <2>7 DEF PageIInv, ResultIsOfTheFile
<1>9. ASSUME NEW c \in waiting, NEW ok \in BOOLEAN, PreviewComes(c, ok) PROVE PageIInv'
  <2>1. /\ UNCHANGED <<page, picked, result>> /\ waiting' = waiting \ {c} /\ c.kind = "read"
        /\ spinning' = spinning \ {Spinner("read")} /\ past \subseteq past'
    BY <1>9 DEF PreviewComes
  <2>2. \/ shown' = c.form.files[1]
        \/ shown' = shown /\ "unread" \in past'
    BY <1>9 DEF PreviewComes
  <2>3. Quiet' /\ PageSpinnerIsBacked'
    BY <1>1, <2>1, EndStep
  <2>4. PreviewIsOfTheFile'
    BY <1>2, <2>1, <2>2 DEF PreviewIsOfTheFile, Previews, NoPreview, Quiet
  <2>5. ResultIsOfTheFile'
    BY <1>2, <2>1 DEF ResultIsOfTheFile
  <2> QED BY <1>2, <2>1, <2>3, <2>4, <2>5 DEF PageIInv
<1>10. ASSUME NEW c \in waiting, NEW ok \in BOOLEAN, RunEnds(c, ok) PROVE PageIInv'
  <2>1. /\ UNCHANGED <<page, picked, shown, past>> /\ waiting' = waiting \ {c} /\ c.kind = "run"
        /\ spinning' = spinning \ {"run"}
        /\ result' = IF ok /\ page.shows THEN c.form ELSE result
    BY <1>10 DEF RunEnds
  <2>2. Spinner(c.kind) = "run"
    BY <2>1 DEF Spinner
  <2>3. Quiet' /\ PageSpinnerIsBacked'
    BY <1>1, <2>1, <2>2, EndStep
  <2>4. PreviewIsOfTheFile'
    BY <1>2, <2>1 DEF PreviewIsOfTheFile, Previews, NoPreview
  <2>5. ResultIsOfTheFile'
    BY <1>2, <2>1 DEF ResultIsOfTheFile, Quiet
  <2> QED BY <1>2, <2>1, <2>3, <2>4, <2>5 DEF PageIInv
<1>11. ASSUME NEW i \in 1..3, ChooseSheet(i) PROVE PageIInv'
  BY <1>4, <1>11 DEF ChooseSheet
<1>12. ASSUME NEW ok \in BOOLEAN, HeadersCome(ok) PROVE PageIInv'
  BY <1>4, <1>12 DEF HeadersCome
<1>13. CASE SelectColumns
  <2>1. past \subseteq past' /\ \E s : Selected(s)
    BY <1>13 DEF SelectColumns, Lagging
  <2> QED BY <1>4, <2>1 DEF Selected
<1>14. CASE SelectKeys \/ SelectSheets \/ Reorder
  <2>1. past \subseteq past' /\ \E s : Selected(s)
    BY <1>14 DEF SelectKeys, SelectSheets, Reorder
  <2> QED BY <1>4, <2>1 DEF Selected
<1>15. CASE AddFiles \/ SetOptions
  BY <1>4, <1>15 DEF AddFiles, SetOptions
<1>16. CASE Run
  <2>1. /\ UNCHANGED <<page, picked, shown, result, past>> /\ Send("run", RunForm) /\ spinning = {}
    BY <1>16 DEF Run, CanRun
  <2>2. "crossed" \notin past' => waiting = {}
    BY <1>2, <2>1 DEF Quiet
  <2>3. page.shows => RunForm.files = picked'
    BY <1>3, <2>1 DEF Shape, RunForm
  <2>4. Quiet' /\ PageSpinnerIsBacked'
    BY <1>1, <2>1, <2>2, <2>3, SendStep
  <2>5. waiting \subseteq waiting'
    BY <2>1 DEF Send
  <2>6. PreviewIsOfTheFile'
    BY <1>2, <2>1, <2>5 DEF PreviewIsOfTheFile, Previews, NoPreview
  <2> QED BY <1>2, <2>1, <2>4, <2>6 DEF PageIInv, ResultIsOfTheFile
<1>17. CASE UNCHANGED pageVars
  BY <1>4, <1>17 DEF pageVars
<1> QED BY <1>1, <1>6, <1>7, <1>8, <1>9, <1>10, <1>11, <1>12, <1>13, <1>14, <1>15, <1>16, <1>17 DEF PageNext

\* One run is under way at a time, and the preview and the result on a page are
\* those of the file that is picked, unless it was dropped on a busy page.
THEOREM PagesFollowTheirFile == PageSpec => []PageFollowsFile
<1>1. ASSUME PageIInv PROVE PageFollowsFile
  <2> DEFINE runs == {c \in waiting : c.kind = "run"}
  <2>1. ASSUME "crossed" \notin past PROVE ~(Cardinality(runs) > 1)
    <3>1. CASE runs = {}
      <4>1. Cardinality(runs) = 0
        BY <3>1, FS_EmptySet
      <4> HIDE DEF runs
      <4> QED BY <4>1
    <3>2. CASE runs # {}
      <4>1. PICK c : c \in runs
        BY <3>2
      <4>2. runs = {c}
        BY <1>1, <2>1, <4>1 DEF PageIInv, Quiet
      <4>3. Cardinality(runs) = 1
        BY <4>2, FS_Singleton
      <4> HIDE DEF runs
      <4> QED BY <4>3
    <3> QED BY <3>1, <3>2
  <2> QED BY <1>1, <2>1 DEF PageIInv, PageFollowsFile, OneRunAtATime
<1> QED BY <1>1, PageInitInv, PageStep, PTL DEF PageSpec
\* The names of sheets and files can be ordered, and no list that is offered
\* has a name twice.
LEMMA OrderedNames ==
    /\ Collation \in Seq(STRING) /\ IsInjective(Collation) /\ Files \subseteq ToSet(Collation)
    /\ Files \subseteq STRING /\ NoFile \notin Files /\ IsFiniteSet(Files)
<1>1. Collation \in Seq(STRING) /\ IsInjective(Collation) /\ Files \subseteq ToSet(Collation) /\ NoFile \notin Files
  BY ToolPagesAssumption
<1>2. ToSet(Collation) \subseteq STRING
  BY <1>1, MembersOf
<1>3. IsFiniteSet(ToSet(Collation))
  <2> DEFINE m == Len(Collation)
  <2>1. m \in Nat /\ DOMAIN Collation = 1..m
    BY <1>1, LenProperties
  <2>2. IsFiniteSet(1..m)
    <3> HIDE DEF m
    <3> QED BY <2>1, FS_Interval
  <2> DEFINE f == [i \in 1..m |-> Collation[i]]
             D == 1..m
  <2>3. ToSet(Collation) = {f[i] : i \in D}
    BY <2>1 DEF ToSet
  <2>4. f \in Surjection(D, ToSet(Collation))
    BY <2>3 DEF Surjection
  <2> HIDE DEF f, m, D
  <2> QED BY <2>2, <2>4, FS_Surjection DEF D
<1>4. IsFiniteSet(Files)
  BY <1>1, <1>3, FS_Subset
<1> QED BY <1>1, <1>2, <1>4

LEMMA OfferedNames ==
    ASSUME NEW f \in Files
    PROVE  /\ SheetNames(f) \in Seq(STRING) /\ IsInjective(SheetNames(f)) /\ Len(SheetNames(f)) > 0
           /\ DOMAIN SheetNames(f) = DOMAIN Book[f]
           /\ \A k \in DOMAIN Book[f] : Book[f][k].name = SheetNames(f)[k]
           /\ \A i : Columns(f, i) \in Seq(STRING) /\ IsInjective(Columns(f, i))
<1>1. Book \in [Files -> Seq([name : ToSet(Collation), columns : Seq(STRING)])]
  BY ToolPagesAssumption
<1>2. Len(Book[f]) > 0 /\ IsInjective(SheetNames(f))
  BY ToolPagesAssumption
<1>3. \A i \in DOMAIN Book[f] : IsInjective(Columns(f, i))
  BY ToolPagesAssumption
<1>4. ToSet(Collation) \subseteq STRING
  <2>1. Collation \in Seq(STRING)
    BY ToolPagesAssumption
  <2> QED BY <2>1, MembersOf
<1> DEFINE b == Book[f]
           X == [name : ToSet(Collation), columns : Seq(STRING)]
<1>5. b \in Seq(X)
  BY <1>1
<1>6. Len(b) \in Nat /\ DOMAIN b = 1..Len(b) /\ \A i \in DOMAIN b : b[i] \in X
  <2> HIDE DEF b, X
  <2> QED BY <1>5, LenProperties
<1>7. \A i \in DOMAIN b : b[i].name \in STRING /\ b[i].columns \in Seq(STRING)
  BY <1>4, <1>6
<1>8. SheetNames(f) = [i \in 1..Len(b) |-> b[i].name]
  BY <1>6 DEF SheetNames
<1>9. SheetNames(f) \in [1..Len(b) -> STRING]
  <2> HIDE DEF b
  <2> QED BY <1>6, <1>7, <1>8
<1>10. SheetNames(f) \in Seq(STRING) /\ Len(SheetNames(f)) = Len(b) /\ DOMAIN SheetNames(f) = DOMAIN b
  <2> HIDE DEF b
  <2> QED BY <1>6, <1>9
<1>11. \A k \in DOMAIN b : b[k].name = SheetNames(f)[k]
  BY <1>6, <1>8
<1>12. ASSUME NEW i PROVE Columns(f, i) \in Seq(STRING) /\ IsInjective(Columns(f, i))
  <2>1. CASE i \in DOMAIN b
    BY <1>3, <1>7, <2>1 DEF Columns
  <2>2. CASE i \notin DOMAIN b
    <3>1. Columns(f, i) = <<>>
      BY <2>2 DEF Columns
    <3>2. <<>> \in Seq(STRING) /\ IsInjective(<<>>)
      BY DEF IsInjective
    <3> QED BY <3>1, <3>2
  <2> QED BY <2>1, <2>2
<1> QED BY <1>2, <1>10, <1>11, <1>12

\* What is selected is of the preview that is shown.
Current ==
    Previews /\ past \cap {"crossed", "lagged"} = {} =>
        IF NoPreview THEN chosen = <<>>
        ELSE ToSet(chosen) \subseteq
                 IF page.selects = "sheets" THEN ToSet(SheetNames(shown)) ELSE ToSet(Columns(shown, sheetNo))

\* A page that clears the preview shows none, and its first sheet, while it reads.
ClearedFirst ==
    "crossed" \notin past /\ page.clears =>
        \A c \in waiting : c.kind = "read" => NoPreview /\ sheetNo = 1

Lists ==
    /\ chosen \in Seq(STRING) /\ added \in Seq(STRING)
    /\ page.selects = "files" => ToSet(chosen) \subseteq Files
    /\ headers # <<>> => \E f \in Files, i \in 1..3 : headers = <<f, i>>
    /\ sent \in Nat
    /\ \A c \in waiting : c.kind = "read" => Previews /\ c.form.files[1] \in Files

ChoiceIInv == PageTypeOK /\ Lists /\ SelectedOnce /\ Current /\ ClearedFirst /\ SelectionIsListed

LEMMA ChoiceInitInv == PageInit => ChoiceIInv
<1>1. SUFFICES ASSUME PageInit PROVE ChoiceIInv
  OBVIOUS
<1>2. /\ page \in Kinds /\ picked = [i \in 1..page.slots |-> NoFile] /\ shown = NoFile /\ sheetNo = 1 /\ headers = <<>>
      /\ chosen = <<>> /\ added = <<>> /\ spinning = {} /\ waiting = {} /\ sent = 0 /\ past = {}
  BY <1>1 DEF PageInit
<1>3. PageTypeOK
  BY <1>2 DEF PageTypeOK
<1>4. ToSet(<<>>) = {} /\ IsInjective(<<>>) /\ <<>> \in Seq(STRING)
  BY DEF ToSet, IsInjective
<1>5. Lists /\ SelectedOnce /\ Current
  BY <1>2, <1>4 DEF Lists, SelectedOnce, Current, NoPreview
<1> QED BY <1>2, <1>3, <1>5 DEF ChoiceIInv, ClearedFirst, SelectionIsListed

\* What toggling does to a selection.
LEMMA ToggledKeeps ==
    ASSUME NEW s \in Seq(STRING), NEW x \in STRING
    PROVE  /\ Toggled(s, x) \in Seq(STRING)
           /\ ToSet(Toggled(s, x)) \subseteq ToSet(s) \cup {x}
           /\ IsInjective(s) => IsInjective(Toggled(s, x))
<1>1. Contains(s, x) <=> x \in ToSet(s)
  BY ContainsIsMember
<1>2. CASE Contains(s, x)
  <2>1. Toggled(s, x) = Without(s, x)
    BY <1>2 DEF Toggled
  <2>2. /\ Without(s, x) \in Seq(STRING) /\ ToSet(Without(s, x)) = ToSet(s) \ {x}
        /\ IsInjective(s) => IsInjective(Without(s, x))
    BY WithoutKeeps
  <2> QED BY <2>1, <2>2
<1>3. CASE ~Contains(s, x)
  <2>1. Toggled(s, x) = Append(s, x)
    BY <1>3 DEF Toggled
  <2>2. /\ Append(s, x) \in Seq(STRING) /\ ToSet(Append(s, x)) = ToSet(s) \cup {x}
        /\ IsInjective(s) /\ x \notin ToSet(s) => IsInjective(Append(s, x))
    BY AppendKeeps
  <2> QED BY <1>1, <1>3, <2>1, <2>2
<1> QED BY <1>2, <1>3

\* Moving a member to another place keeps the members.
LEMMA MovedKeeps ==
    ASSUME NEW T, NEW s \in Seq(T), NEW i \in DOMAIN s, NEW j \in DOMAIN s, IsInjective(s)
    PROVE  /\ Moved(s, i, j) \in Seq(T)
           /\ ToSet(Moved(s, i, j)) = ToSet(s)
           /\ IsInjective(Moved(s, i, j))
<1> DEFINE m == Moved(s, i, j)
<1>1. Len(s) \in Nat /\ DOMAIN s = 1..Len(s) /\ s \in [1..Len(s) -> T]
  BY LenProperties
<1>2. /\ m \in [1..Len(s) -> T]
      /\ \A k \in 1..Len(s) : m[k] = IF k = j THEN s[i] ELSE IF k = i THEN s[j] ELSE s[k]
  BY <1>1 DEF Moved
<1>3. m \in Seq(T) /\ DOMAIN m = DOMAIN s
  BY <1>1, <1>2
<1> HIDE DEF m
<1>4. ToSet(m) = ToSet(s)
  BY <1>1, <1>2, <1>3 DEF ToSet
<1>5. IsInjective(m)
  BY <1>1, <1>2, <1>3 DEF IsInjective
<1> QED BY <1>3, <1>4, <1>5 DEF m

LEMMA DroppedKeeps ==
    ASSUME NEW T, NEW s \in Seq(T), NEW i \in DOMAIN s, NEW j \in DOMAIN s, IsInjective(s)
    PROVE  /\ Dropped(s, i, j) \in Seq(T)
           /\ ToSet(Dropped(s, i, j)) = ToSet(s)
           /\ IsInjective(Dropped(s, i, j))
<1> DEFINE r == RemoveAt(s, i)
<1>1. Len(s) \in Nat /\ DOMAIN s = 1..Len(s) /\ s[i] \in T /\ s[i] \in ToSet(s)
  BY LenProperties DEF ToSet
<1>2. r \in Seq(T) /\ Len(r) = Len(s) - 1 /\ IsInjective(r) /\ ToSet(r) = ToSet(s) \ {s[i]}
  BY RemoveAtKeeps
<1>3. Dropped(s, i, j) = InsertAt(r, j, s[i])
  BY DEF Dropped
<1> HIDE DEF r
<1>4. j \in 1..Len(r) + 1 /\ s[i] \notin ToSet(r)
  BY <1>1, <1>2
<1>5. /\ InsertAt(r, j, s[i]) \in Seq(T)
      /\ ToSet(InsertAt(r, j, s[i])) = ToSet(r) \cup {s[i]} /\ IsInjective(InsertAt(r, j, s[i]))
  BY <1>1, <1>2, <1>4, InsertAtKeeps
<1> QED BY <1>1, <1>2, <1>3, <1>5

LEMMA InOrderKeeps ==
    ASSUME NEW T, NEW s, NEW all \in Seq(T), IsInjective(all)
    PROVE  /\ InOrderOf(s, all) \in Seq(T)
           /\ ToSet(InOrderOf(s, all)) \subseteq ToSet(s)
           /\ ToSet(s) \subseteq ToSet(all) => ToSet(InOrderOf(s, all)) = ToSet(s)
           /\ IsInjective(InOrderOf(s, all))
<1> DEFINE S == ToSet(s)
<1>1. /\ Only(all, S) \in Seq(T) /\ ToSet(Only(all, S)) = ToSet(all) \cap S
      /\ IsInjective(Only(all, S))
  <2> HIDE DEF S
  <2> QED BY OnlyKeeps
<1> QED BY <1>1 DEF InOrderOf

\* The files of one drop, each once.
LEMMA DropsAreLists ==
    ASSUME NEW s \in SetToAllKPermutations(Files)
    PROVE  s \in Seq(Files) /\ IsInjective(s)
<1>1. PICK S \in SUBSET Files : s \in SetToSeqs(S)
  BY DEF SetToAllKPermutations
<1>2. IsFiniteSet(S) /\ Cardinality(S) \in Nat
  BY <1>1, OrderedNames, FS_Subset, FS_CardinalityType
<1>3. /\ s \in [1..Cardinality(S) -> S]
      /\ \A i, j \in 1..Cardinality(S) : i # j => s[i] # s[j]
  BY <1>1 DEF SetToSeqs
<1>4. s \in Seq(S)
  BY <1>2, <1>3
<1>5. s \in Seq(Files)
  BY <1>1, <1>4, SeqMonotonic
<1> QED BY <1>3, <1>5 DEF IsInjective

LEMMA ChoiceStep == PageIInv /\ ChoiceIInv /\ [PageNext]_pageVars => ChoiceIInv'
<1>1. SUFFICES ASSUME PageIInv, ChoiceIInv, [PageNext]_pageVars PROVE ChoiceIInv'
  OBVIOUS
<1>2. PageTypeOK /\ Lists /\ SelectedOnce /\ Current /\ ClearedFirst /\ SelectionIsListed
  BY <1>1 DEF ChoiceIInv
<1>3. /\ page \in Kinds /\ picked \in [1..page.slots -> Files \cup {NoFile}] /\ Quiet
      /\ shown \in Files \cup {NoFile} /\ sheetNo \in 1..3 /\ spinning \subseteq {"read", "run"}
      /\ (\A c \in waiting : c.kind \in {"read", "run"} /\ c.n \in 1..sent)
      /\ past \subseteq {"crossed", "lagged", "unread"}
      /\ Shape(page) /\ sent \in Nat /\ chosen \in Seq(STRING) /\ added \in Seq(STRING)
  BY <1>1, <1>2, PageShapes DEF PageIInv, PageTypeOK, Lists
<1>4. NoFile \notin Files
  BY OrderedNames
<1>5. ToSet(<<>>) = {} /\ IsInjective(<<>>) /\ <<>> \in Seq(STRING)
  BY DEF ToSet, IsInjective
<1>sending. ASSUME NEW new, new.kind \in {"read", "run"}, new.n = sent + 1,
             waiting' = waiting \cup {new}, sent' = sent + 1
      PROVE  \A c \in waiting' : c.kind \in {"read", "run"} /\ c.n \in 1..sent'
  <2>1. \A c \in waiting : c.n \in 1..sent'
    BY <1>3, <1>sending
  <2>2. new.n \in 1..sent'
    BY <1>3, <1>sending
  <2> QED BY <1>3, <1>sending, <2>1, <2>2
\* What a change of the selection must keep.
<1>6. ASSUME UNCHANGED <<page, picked, shown, headers, spinning, waiting, sent>>,
             sheetNo' \in 1..3, sheetNo' # sheetNo => ~NoPreview,
             past \subseteq past', past' \subseteq {"crossed", "lagged", "unread"},
             chosen' \in Seq(STRING), added' \in Seq(STRING),
             page.selects = "files" => ToSet(chosen') \subseteq Files,
             SelectedOnce', Current'
      PROVE  ChoiceIInv'
  <2>1. PageTypeOK'
    BY <1>2, <1>6 DEF PageTypeOK
  <2>2. Lists'
    BY <1>2, <1>6 DEF Lists, Previews
  <2>3. ClearedFirst'
    BY <1>2, <1>6 DEF ClearedFirst, NoPreview
  <2>4. SelectionIsListed'
    BY <1>2, <1>6 DEF SelectionIsListed, Previews
  <2> QED BY <1>6, <2>1, <2>2, <2>3, <2>4 DEF ChoiceIInv
\* What selecting of a list that is offered keeps.
<1>7. ASSUME NEW s, Selected(s), s \in Seq(STRING), past \subseteq past',
             past' \subseteq {"crossed", "lagged", "unread"},
             page.selects = "files" => ToSet(s) = ToSet(chosen),
             page.selects # "keys" => IsInjective(s),
             Previews => ~NoPreview,
             Previews /\ past' \cap {"crossed", "lagged"} = {} =>
                 ToSet(s) \subseteq ToSet(chosen) \cup
                     IF page.selects = "sheets" THEN ToSet(SheetNames(shown)) ELSE ToSet(Columns(shown, sheetNo))
      PROVE  ChoiceIInv'
  <2>1. /\ chosen' = s
        /\ UNCHANGED <<page, picked, shown, sheetNo, headers, added, spinning, waiting, sent>>
    BY <1>7 DEF Selected
  <2>2. SelectedOnce'
    BY <1>2, <1>7, <2>1 DEF SelectedOnce
  <2>3. page.selects = "files" => ToSet(chosen') \subseteq Files
    BY <1>2, <1>7, <2>1 DEF Lists
  <2>4. Current'
    <3> SUFFICES ASSUME Previews, past' \cap {"crossed", "lagged"} = {}
                 PROVE  ToSet(s) \subseteq
                            IF page.selects = "sheets" THEN ToSet(SheetNames(shown)) ELSE ToSet(Columns(shown, sheetNo))
      BY <1>7, <2>1 DEF Current, Previews, NoPreview
    <3>1. past \cap {"crossed", "lagged"} = {} /\ ~NoPreview
      BY <1>7
    <3>2. ToSet(chosen) \subseteq
              IF page.selects = "sheets" THEN ToSet(SheetNames(shown)) ELSE ToSet(Columns(shown, sheetNo))
      BY <1>2, <3>1 DEF Current
    <3> QED BY <1>7, <3>2
  <2> QED BY <1>3, <1>6, <1>7, <2>1, <2>2, <2>3, <2>4
<1>8. ASSUME NEW f \in Files, PickToPreview(f) PROVE ChoiceIInv'
  <2> DEFINE form == [files |-> <<f>>]
             new == [n |-> sent + 1, kind |-> "read", form |-> form]
  <2>1. /\ page' = page /\ picked' = [picked EXCEPT ![1] = f] /\ added' = added /\ Previews
        /\ sent' = sent + 1 /\ waiting' = waiting \cup {new} /\ spinning' = spinning \cup {Spinner("read")}
        /\ past' = Crossing \ {"unread"}
    BY <1>8 DEF PickToPreview, Send
  <2>2. \/ page.clears /\ shown' = NoFile /\ sheetNo' = 1 /\ headers' = <<>> /\ chosen' = <<>>
        \/ ~page.clears /\ UNCHANGED <<shown, sheetNo, headers, chosen>>
    BY <1>8 DEF PickToPreview, Cleared
  <2>3. new.kind = "read" /\ new.n = sent + 1 /\ new.form.files[1] = f
    OBVIOUS
  <2>4. /\ past' \subseteq {"crossed", "lagged", "unread"}
        /\ past \cap {"crossed", "lagged"} \subseteq past'
        /\ "crossed" \notin past' => waiting = {}
    BY <1>3, <2>1 DEF Crossing
  <2>5. Spinner("read") \in {"read", "run"}
    BY DEF Spinner
  <2> HIDE DEF new
  <2>6. PageTypeOK'
    <3>1. \A c \in waiting' : c.kind \in {"read", "run"} /\ c.n \in 1..sent'
      BY <1>sending, <2>1, <2>3
    <3>2. shown' \in Files \cup {NoFile} /\ sheetNo' \in 1..3
      BY <1>3, <2>2
    <3>3. picked' \in [1..page'.slots -> Files \cup {NoFile}] /\ spinning' \subseteq {"read", "run"}
      BY <1>3, <2>1, <2>5
    <3> QED BY <1>3, <2>1, <2>4, <3>1, <3>2, <3>3 DEF PageTypeOK
  <2>7. page.selects # "files"
    BY <2>1 DEF Previews
  <2>8. Lists'
    <3>1. \A c \in waiting' : c.kind = "read" => Previews' /\ c.form.files[1] \in Files
      BY <1>2, <2>1, <2>3 DEF Lists, Previews
    <3>2. sent' \in Nat
      BY <1>3, <2>1
    <3>3. headers' # <<>> => \E g \in Files, i \in 1..3 : headers' = <<g, i>>
      BY <1>2, <2>2 DEF Lists
    <3>4. chosen' \in Seq(STRING) /\ added' \in Seq(STRING)
      BY <1>3, <1>5, <2>1, <2>2
    <3> QED BY <2>1, <2>7, <3>1, <3>2, <3>3, <3>4 DEF Lists
  <2>9. SelectedOnce'
    BY <1>2, <1>5, <2>1, <2>2, <2>7 DEF SelectedOnce
  <2>10. Current'
    <3>1. CASE page.clears
      BY <2>1, <2>2, <3>1 DEF Current, NoPreview
    <3>2. CASE ~page.clears
      BY <1>2, <2>1, <2>2, <2>4, <3>2 DEF Current, NoPreview, Previews
    <3> QED BY <3>1, <3>2
  <2>11. ClearedFirst'
    BY <2>1, <2>2 DEF ClearedFirst, NoPreview
  <2>12. SelectionIsListed'
    BY <1>2, <2>1, <2>3, <2>4 DEF SelectionIsListed, Previews
  <2> QED BY <2>6, <2>8, <2>9, <2>10, <2>11, <2>12 DEF ChoiceIInv
<1>9. ASSUME NEW f \in Files, NEW slot \in DOMAIN picked, Hold(slot, f) PROVE ChoiceIInv'
  <2>1. /\ page.selects = "nothing" /\ picked' = [picked EXCEPT ![slot] = f] /\ past' = Crossing
        /\ UNCHANGED <<page, shown, sheetNo, headers, chosen, added, spinning, waiting, sent>>
    BY <1>9 DEF Hold
  <2>2. past' \subseteq {"crossed", "lagged", "unread"} /\ past \subseteq past'
    BY <1>3, <2>1 DEF Crossing
  <2>3. PageTypeOK'
    BY <1>3, <2>1, <2>2 DEF PageTypeOK
  <2>4. Lists' /\ SelectedOnce'
    BY <1>2, <2>1 DEF Lists, SelectedOnce, Previews
  <2>5. Current' /\ ClearedFirst' /\ SelectionIsListed'
    BY <1>2, <2>1, <2>2 DEF Current, ClearedFirst, SelectionIsListed, Previews, NoPreview
  <2> QED BY <2>3, <2>4, <2>5 DEF ChoiceIInv
<1>10. ASSUME NEW f \in Files, RunDropped(f) PROVE ChoiceIInv'
  <2> DEFINE new == [n |-> sent + 1, kind |-> "run", form |-> [files |-> <<f>>]]
  <2>1. /\ page.runs = "dropped" /\ picked' = [picked EXCEPT ![1] = f] /\ past' = Crossing
        /\ sent' = sent + 1 /\ waiting' = waiting \cup {new} /\ spinning' = spinning \cup {Spinner("run")}
        /\ UNCHANGED <<page, shown, sheetNo, headers, chosen, added>>
    BY <1>10 DEF RunDropped, Send
  <2>2. past' \subseteq {"crossed", "lagged", "unread"} /\ past \subseteq past'
    BY <1>3, <2>1 DEF Crossing
  <2>3. page.selects = "nothing"
    BY <1>3, <2>1 DEF Shape
  <2>4. Spinner("run") \in {"read", "run"} /\ new.kind = "run" /\ new.n = sent + 1
    BY DEF Spinner
  <2> HIDE DEF new
  <2>5. PageTypeOK'
    <3>1. \A c \in waiting' : c.kind \in {"read", "run"} /\ c.n \in 1..sent'
      BY <1>sending, <2>1, <2>4
    <3>2. picked' \in [1..page'.slots -> Files \cup {NoFile}] /\ spinning' \subseteq {"read", "run"}
      BY <1>3, <2>1, <2>4
    <3> QED BY <1>3, <2>1, <2>2, <3>1, <3>2 DEF PageTypeOK
  <2>6. Lists'
    BY <1>2, <1>3, <2>1, <2>4 DEF Lists, Previews
  <2>7. SelectedOnce'
    BY <1>2, <2>1 DEF SelectedOnce
  <2>8. Current' /\ SelectionIsListed'
    BY <2>1, <2>3 DEF Current, SelectionIsListed, Previews
  <2>9. ClearedFirst'
    BY <1>2, <2>1, <2>2, <2>4 DEF ClearedFirst, NoPreview
  <2> QED BY <2>5, <2>6, <2>7, <2>8, <2>9 DEF ChoiceIInv
<1>11. ASSUME NEW c \in waiting, NEW ok \in BOOLEAN, PreviewComes(c, ok) PROVE ChoiceIInv'
  <2> DEFINE f == c.form.files[1]
  <2>1. /\ c.kind = "read" /\ waiting' = waiting \ {c} /\ spinning' \subseteq spinning
        /\ UNCHANGED <<page, picked, headers, added, sent>>
    BY <1>11 DEF PreviewComes
  <2>2. \/ /\ ok /\ shown' = f /\ chosen' = Initially(f, 1)
           /\ sheetNo' = (IF page.clears THEN sheetNo ELSE 1) /\ past' = past
        \/ ~ok /\ UNCHANGED <<shown, chosen, sheetNo>> /\ past' = past \cup {"unread"}
    BY <1>11 DEF PreviewComes
  <2>3. f \in Files /\ Previews
    BY <1>2, <2>1 DEF Lists
  <2> HIDE DEF f
  <2>4. past \subseteq past' /\ past' \subseteq {"crossed", "lagged", "unread"}
    BY <1>3, <2>2
  <2>5. /\ Initially(f, 1) \in Seq(STRING) /\ IsInjective(Initially(f, 1))
        /\ ToSet(Initially(f, 1)) \subseteq
               IF page.selects = "sheets" THEN ToSet(SheetNames(f)) ELSE ToSet(Columns(f, 1))
    <3>1. /\ SheetNames(f) \in Seq(STRING) /\ IsInjective(SheetNames(f)) /\ Len(SheetNames(f)) > 0
          /\ Columns(f, 1) \in Seq(STRING) /\ IsInjective(Columns(f, 1))
      BY <2>3, OfferedNames
    <3>2. SheetNames(f)[1] \in STRING /\ SheetNames(f)[1] \in ToSet(SheetNames(f))
      <4>1. 1 \in DOMAIN SheetNames(f) /\ \A i \in DOMAIN SheetNames(f) : SheetNames(f)[i] \in STRING
        BY <3>1, LenProperties
      <4> QED BY <4>1 DEF ToSet
    <3> DEFINE one == <<SheetNames(f)[1]>>
    <3>3. one \in Seq(STRING) /\ ToSet(one) \subseteq ToSet(SheetNames(f)) /\ IsInjective(one)
      <4>1. one \in Seq(STRING) /\ ToSet(one) = {SheetNames(f)[1]} /\ IsInjective(one)
        BY <3>2, SingleKeeps
      <4> QED BY <3>2, <4>1
    <3>4. \/ page.selects = "sheets" /\ Initially(f, 1) \in {SheetNames(f), one}
          \/ page.selects = "columns" /\ Initially(f, 1) = Columns(f, 1)
          \/ Initially(f, 1) = <<>>
      BY DEF Initially
    <3> HIDE DEF one
    <3> QED BY <1>5, <3>1, <3>3, <3>4
  <2>6. PageTypeOK'
    BY <1>3, <2>1, <2>2, <2>3, <2>4 DEF PageTypeOK
  <2>7. page.selects # "files"
    BY <2>3 DEF Previews
  <2>8. Lists' /\ SelectedOnce'
    BY <1>2, <2>1, <2>2, <2>5, <2>7 DEF Lists, SelectedOnce, Previews
  <2>9. Current'
    <3>1. CASE ok
      <4>1. SUFFICES ASSUME past' \cap {"crossed", "lagged"} = {} PROVE sheetNo' = 1
        BY <1>4, <2>1, <2>2, <2>3, <2>5, <3>1 DEF Current, NoPreview, Previews
      <4>2. "crossed" \notin past
        BY <2>4, <4>1
      <4> QED BY <1>2, <2>1, <2>2, <3>1, <4>2 DEF ClearedFirst
    <3>2. CASE ~ok
      BY <1>2, <2>1, <2>2, <3>2 DEF Current, NoPreview, Previews
    <3> QED BY <3>1, <3>2
  <2>10. ClearedFirst'
    <3>1. "crossed" \notin past' => waiting' = {}
      BY <1>3, <2>1, <2>4 DEF Quiet
    <3> QED BY <3>1 DEF ClearedFirst
  <2>11. SelectionIsListed'
    BY <1>2, <2>1, <2>4 DEF SelectionIsListed, Previews
  <2> QED BY <2>6, <2>8, <2>9, <2>10, <2>11 DEF ChoiceIInv
<1>12. ASSUME NEW c \in waiting, NEW ok \in BOOLEAN, RunEnds(c, ok) PROVE ChoiceIInv'
  <2>1. /\ waiting' = waiting \ {c} /\ spinning' \subseteq spinning
        /\ UNCHANGED <<page, picked, shown, sheetNo, headers, chosen, added, sent, past>>
    BY <1>12 DEF RunEnds
  <2>2. PageTypeOK' /\ Lists' /\ SelectedOnce'
    BY <1>2, <2>1 DEF PageTypeOK, Lists, SelectedOnce, Previews
  <2>3. Current'
    BY <1>2, <2>1 DEF Current, Previews, NoPreview
  <2>4. ClearedFirst'
    BY <1>2, <2>1 DEF ClearedFirst, NoPreview
  <2>5. SelectionIsListed'
    BY <1>2, <2>1 DEF SelectionIsListed, Previews
  <2> QED BY <2>2, <2>3, <2>4, <2>5 DEF ChoiceIInv
<1>13. ASSUME NEW i \in 1..3, ChooseSheet(i) PROVE ChoiceIInv'
  <2>1. /\ page.selects \in {"columns", "keys", "one"} /\ ~NoPreview /\ sheetNo' = i /\ chosen' = Initially(shown, i)
        /\ UNCHANGED <<page, picked, shown, headers, added, spinning, waiting, sent, past>>
    BY <1>13 DEF ChooseSheet
  <2>2. shown \in Files
    BY <1>3, <2>1 DEF NoPreview
  <2>3. Columns(shown, i) \in Seq(STRING) /\ IsInjective(Columns(shown, i))
    BY <2>2, OfferedNames
  <2>4. Initially(shown, i) \in {Columns(shown, i), <<>>}
    BY <2>1 DEF Initially
  <2>5. SelectedOnce'
    BY <1>2, <1>5, <2>1, <2>3, <2>4 DEF SelectedOnce
  <2>6. Current'
    BY <1>5, <2>1, <2>4 DEF Current, NoPreview
  <2>7. chosen' \in Seq(STRING) /\ page.selects # "files"
    BY <1>5, <2>1, <2>3, <2>4
  <2> QED BY <1>3, <1>6, <2>1, <2>5, <2>6, <2>7
<1>14. ASSUME NEW ok \in BOOLEAN, HeadersCome(ok) PROVE ChoiceIInv'
  <2>1. /\ ~NoPreview /\ headers' = (IF ok THEN <<shown, sheetNo>> ELSE <<>>)
        /\ UNCHANGED <<page, picked, shown, sheetNo, chosen, added, spinning, waiting, sent, past>>
    BY <1>14 DEF HeadersCome
  <2>2. shown \in Files
    BY <1>3, <2>1 DEF NoPreview
  <2>3. PageTypeOK' /\ SelectedOnce'
    BY <1>2, <2>1 DEF PageTypeOK, SelectedOnce
  <2>4. headers' # <<>> => \E f \in Files, i \in 1..3 : headers' = <<f, i>>
    BY <1>3, <2>1, <2>2
  <2>5. Lists'
    BY <1>2, <2>1, <2>4 DEF Lists, Previews
  <2>6. Current'
    BY <1>2, <2>1 DEF Current, Previews, NoPreview
  <2>7. ClearedFirst'
    BY <1>2, <2>1 DEF ClearedFirst, NoPreview
  <2>8. SelectionIsListed'
    BY <1>2, <2>1 DEF SelectionIsListed, Previews
  <2> QED BY <2>3, <2>5, <2>6, <2>7, <2>8 DEF ChoiceIInv
<1>15. CASE SelectColumns
  <2>1. page.selects = "columns" /\ ~NoPreview /\ past' = Lagging
    BY <1>15 DEF SelectColumns
  <2>2. shown \in Files
    BY <1>3, <2>1 DEF NoPreview
  <2>3. Listed \in Seq(STRING) /\ IsInjective(Listed)
    <3>1. CASE headers = <<>>
      BY <2>2, <3>1, OfferedNames DEF Listed
    <3>2. CASE headers # <<>>
      <4>1. PICK f \in Files, i \in 1..3 : headers = <<f, i>>
        BY <1>2, <3>2 DEF Lists
      <4>2. Listed = Columns(f, i)
        BY <4>1 DEF Listed
      <4> QED BY <4>2, OfferedNames
    <3> QED BY <3>1, <3>2
  <2>4. past \subseteq past' /\ past' \subseteq {"crossed", "lagged", "unread"}
    BY <1>3, <2>1 DEF Lagging
  <2>5. past' \cap {"crossed", "lagged"} = {} => Listed = Columns(shown, sheetNo)
    BY <2>1 DEF Lagging, Listed
  <2>6. \E s : /\ Selected(s) /\ s \in Seq(STRING) /\ IsInjective(s)
               /\ ToSet(s) \subseteq ToSet(chosen) \cup ToSet(Listed)
    <3>1. CASE \E k \in DOMAIN Listed : Selected(Toggled(chosen, Listed[k]))
      <4>1. PICK k \in DOMAIN Listed : Selected(Toggled(chosen, Listed[k]))
        BY <3>1
      <4>2. Listed[k] \in STRING /\ Listed[k] \in ToSet(Listed)
        BY <2>3, LenProperties DEF ToSet
      <4> DEFINE x == Listed[k]
      <4>3. x \in STRING /\ x \in ToSet(Listed) /\ Selected(Toggled(chosen, x))
        BY <4>1, <4>2
      <4> HIDE DEF x
      <4>4. IsInjective(chosen)
        BY <1>2, <2>1 DEF SelectedOnce
      <4>5. /\ Toggled(chosen, x) \in Seq(STRING) /\ IsInjective(Toggled(chosen, x))
            /\ ToSet(Toggled(chosen, x)) \subseteq ToSet(chosen) \cup {x}
        BY <1>3, <4>3, <4>4, ToggledKeeps
      <4> QED BY <4>3, <4>5
    <3>2. CASE Selected(Listed) \/ Selected(<<>>)
      BY <1>5, <2>3, <3>2
    <3> QED BY <1>15, <3>1, <3>2 DEF SelectColumns
  <2>7. PICK s : /\ Selected(s) /\ s \in Seq(STRING) /\ IsInjective(s)
                 /\ ToSet(s) \subseteq ToSet(chosen) \cup ToSet(Listed)
    BY <2>6
  <2>8. Previews /\ past' \cap {"crossed", "lagged"} = {} =>
            ToSet(s) \subseteq ToSet(chosen) \cup
                IF page.selects = "sheets" THEN ToSet(SheetNames(shown)) ELSE ToSet(Columns(shown, sheetNo))
    BY <2>1, <2>5, <2>7
  <2> QED BY <1>7, <2>1, <2>4, <2>7, <2>8
<1>16. CASE SelectKeys
  <2>1. page.selects = "keys" /\ ~NoPreview /\ past' = past
    BY <1>16 DEF SelectKeys
  <2>2. shown \in Files
    BY <1>3, <2>1 DEF NoPreview
  <2> DEFINE C == Columns(shown, sheetNo)
  <2>3. C \in Seq(STRING) /\ ToSet(C) \subseteq STRING
    BY <2>2, OfferedNames, MembersOf
  <2>4. Len(chosen) \in Nat /\ DOMAIN chosen = 1..Len(chosen) /\ \A i \in DOMAIN chosen : chosen[i] \in STRING
    BY <1>3, LenProperties
  <2> HIDE DEF C
  <2>5. \E s : Selected(s) /\ s \in Seq(STRING) /\ ToSet(s) \subseteq ToSet(chosen) \cup ToSet(C)
    <3>1. ASSUME NEW c \in ToSet(C), NEW k \in 1..page.most, k <= Len(chosen) + 1
          PROVE  LET s == [i \in 1..(IF k > Len(chosen) THEN k ELSE Len(chosen)) |-> IF i = k THEN c ELSE chosen[i]]
                 IN  s \in Seq(STRING) /\ ToSet(s) \subseteq ToSet(chosen) \cup ToSet(C)
      <4> DEFINE n == IF k > Len(chosen) THEN k ELSE Len(chosen)
                 s == [i \in 1..n |-> IF i = k THEN c ELSE chosen[i]]
      <4>1. k \in Nat /\ n \in Nat
        BY <2>4
      <4>2. \A i \in 1..n : i = k \/ i \in DOMAIN chosen
        BY <2>4, <3>1, <4>1
      <4> HIDE DEF n
      <4>3. \A i \in 1..n : s[i] \in STRING /\ s[i] \in ToSet(chosen) \cup ToSet(C)
        BY <2>3, <2>4, <4>2 DEF ToSet
      <4>4. s \in [1..n -> STRING] /\ DOMAIN s = 1..n
        BY <4>3
      <4>5. ToSet(s) \subseteq ToSet(chosen) \cup ToSet(C)
        <5> HIDE DEF s
        <5>1. ToSet(s) = {s[i] : i \in 1..n}
          BY <4>4 DEF ToSet
        <5> QED BY <4>3, <5>1
      <4>6. s \in Seq(STRING)
        <5> HIDE DEF s
        <5> QED BY <4>1, <4>4
      <4> QED BY <4>5, <4>6 DEF n
    <3>2. ASSUME NEW k \in DOMAIN chosen
          PROVE  RemoveAt(chosen, k) \in Seq(STRING) /\ ToSet(RemoveAt(chosen, k)) \subseteq ToSet(chosen)
      BY <1>3, RemoveAtKeeps
    <3> QED BY <1>16, <3>1, <3>2 DEF SelectKeys, C
  <2>6. PICK s : Selected(s) /\ s \in Seq(STRING) /\ ToSet(s) \subseteq ToSet(chosen) \cup ToSet(C)
    BY <2>5
  <2> QED BY <1>3, <1>7, <2>1, <2>6 DEF C
<1>17. CASE SelectSheets
  <2>1. page.selects = "sheets" /\ ~NoPreview /\ past' = past
    BY <1>17 DEF SelectSheets
  <2>2. shown \in Files
    BY <1>3, <2>1 DEF NoPreview
  <2> DEFINE N == SheetNames(shown)
  <2>3. /\ N \in Seq(STRING) /\ IsInjective(N) /\ DOMAIN N = DOMAIN Book[shown]
        /\ \A k \in DOMAIN Book[shown] : Book[shown][k].name = N[k]
    BY <2>2, OfferedNames
  <2> HIDE DEF N
  <2>4. \E s : /\ Selected(s) /\ s \in Seq(STRING) /\ IsInjective(s)
               /\ ToSet(s) \subseteq ToSet(chosen) \cup ToSet(N)
    <3>1. CASE \E k \in DOMAIN Book[shown] : Selected(Toggled(chosen, Book[shown][k].name))
      <4>1. PICK k \in DOMAIN N : Selected(Toggled(chosen, N[k]))
        BY <2>3, <3>1
      <4> DEFINE x == N[k]
      <4>2. x \in STRING /\ x \in ToSet(N) /\ Selected(Toggled(chosen, x))
        BY <2>3, <4>1, LenProperties DEF ToSet
      <4> HIDE DEF x
      <4>3. IsInjective(chosen)
        BY <1>2, <2>1 DEF SelectedOnce
      <4>4. /\ Toggled(chosen, x) \in Seq(STRING) /\ IsInjective(Toggled(chosen, x))
            /\ ToSet(Toggled(chosen, x)) \subseteq ToSet(chosen) \cup {x}
        BY <1>3, <4>2, <4>3, ToggledKeeps
      <4> QED BY <4>2, <4>4
    <3>2. CASE Selected(SheetNames(shown)) \/ Selected(<<>>)
      BY <1>5, <2>3, <3>2 DEF N
    <3> QED BY <1>17, <3>1, <3>2 DEF SelectSheets
  <2>5. PICK s : /\ Selected(s) /\ s \in Seq(STRING) /\ IsInjective(s)
                 /\ ToSet(s) \subseteq ToSet(chosen) \cup ToSet(N)
    BY <2>4
  <2> QED BY <1>3, <1>7, <2>1, <2>5 DEF N
<1>18. CASE AddFiles
  <2>1. /\ page.selects = "files"
        /\ UNCHANGED <<page, picked, shown, sheetNo, headers, spinning, waiting, sent, past>>
    BY <1>18 DEF AddFiles
  <2>2. /\ chosen' \in Seq(STRING) /\ added' \in Seq(STRING) /\ IsInjective(chosen') /\ IsInjective(added')
        /\ ToSet(chosen') = ToSet(added') /\ ToSet(chosen') \subseteq Files
    <3>1. CASE chosen' = <<>> /\ added' = <<>>
      BY <1>5, <3>1
    <3>2. ASSUME NEW s \in SetToAllKPermutations(Files), NEW new,
                 new = Only(s, Files \ ToSet(chosen)),
                 chosen' = chosen \o new, added' = added \o Only(new, Files \ ToSet(added))
          PROVE  /\ chosen' \in Seq(STRING) /\ added' \in Seq(STRING) /\ IsInjective(chosen') /\ IsInjective(added')
                 /\ ToSet(chosen') = ToSet(added') /\ ToSet(chosen') \subseteq Files
      <4>1. s \in Seq(STRING) /\ IsInjective(s)
        BY DropsAreLists, OrderedNames, SeqMonotonic
      <4>2. /\ IsInjective(chosen) /\ IsInjective(added) /\ ToSet(chosen) = ToSet(added)
            /\ ToSet(chosen) \subseteq Files
        BY <1>2, <2>1 DEF SelectedOnce, Lists
      <4> DEFINE S == Files \ ToSet(chosen)
      <4>3. new \in Seq(STRING) /\ IsInjective(new) /\ ToSet(new) \subseteq S
        <5>1. new = Only(s, S)
          BY <3>2
        <5> HIDE DEF S
        <5> QED BY <4>1, <5>1, OnlyKeeps
      <4> DEFINE U == Files \ ToSet(added)
                 o == Only(new, U)
      <4>4. o \in Seq(STRING) /\ IsInjective(o) /\ ToSet(o) = ToSet(new)
        <5>1. o \in Seq(STRING) /\ IsInjective(o) /\ ToSet(o) = ToSet(new) \cap U
          <6> HIDE DEF U
          <6> QED BY <4>3, OnlyKeeps
        <5>2. ToSet(new) \subseteq U
          BY <4>2, <4>3
        <5> QED BY <5>1, <5>2
      <4>5. added' = added \o o /\ ToSet(new) \cap ToSet(chosen) = {} /\ ToSet(new) \subseteq Files
        BY <3>2, <4>3
      <4> HIDE DEF o
      <4>6. chosen' \in Seq(STRING) /\ ToSet(chosen') = ToSet(chosen) \cup ToSet(new) /\ IsInjective(chosen')
        <5>1. chosen' = chosen \o new
          BY <3>2
        <5>2. /\ chosen \o new \in Seq(STRING) /\ ToSet(chosen \o new) = ToSet(chosen) \cup ToSet(new)
              /\ IsInjective(chosen \o new)
          BY <1>3, <4>2, <4>3, <4>5, ConcatKeeps
        <5> QED BY <5>1, <5>2
      <4>7. added' \in Seq(STRING) /\ ToSet(added') = ToSet(added) \cup ToSet(o) /\ IsInjective(added')
        BY <1>3, <4>2, <4>4, <4>5, ConcatKeeps
      <4> QED BY <4>2, <4>4, <4>5, <4>6, <4>7
    <3> QED BY <1>18, <3>1, <3>2 DEF AddFiles
  <2>3. SelectedOnce'
    BY <2>1, <2>2 DEF SelectedOnce
  <2>4. Current'
    BY <2>1 DEF Current, Previews
  <2> QED BY <1>3, <1>6, <2>1, <2>2, <2>3, <2>4
<1>19. CASE Reorder
  <2>1. page.ordered /\ (Previews => ~NoPreview) /\ past' = past /\ page.selects \in {"sheets", "files"}
    BY <1>3, <1>19 DEF Reorder, Shape
  <2>2. IsInjective(chosen)
    BY <1>2, <2>1 DEF SelectedOnce
  <2> DEFINE all == IF page.selects = "files" THEN added ELSE SheetNames(shown)
  <2>3. all \in Seq(STRING) /\ IsInjective(all) /\ (page.selects = "files" => ToSet(chosen) \subseteq ToSet(all))
    <3>1. CASE page.selects = "files"
      BY <1>2, <1>3, <3>1 DEF SelectedOnce
    <3>2. CASE page.selects = "sheets"
      <4>1. shown \in Files
        BY <1>3, <2>1, <3>2 DEF Previews, NoPreview
      <4> QED BY <3>2, <4>1, OfferedNames
    <3> QED BY <2>1, <3>1, <3>2
  <2>4. \A c \in {Collation, Reverse(Collation)} :
            c \in Seq(STRING) /\ IsInjective(c) /\ (page.selects = "files" => ToSet(chosen) \subseteq ToSet(c))
    <3>1. /\ Collation \in Seq(STRING) /\ IsInjective(Collation) /\ Files \subseteq ToSet(Collation)
          /\ Reverse(Collation) \in Seq(STRING) /\ IsInjective(Reverse(Collation))
          /\ ToSet(Reverse(Collation)) = ToSet(Collation)
      BY OrderedNames, ReverseKeeps
    <3>2. page.selects = "files" => ToSet(chosen) \subseteq Files
      BY <1>2 DEF Lists
    <3> QED BY <3>1, <3>2
  <2> HIDE DEF all
  <2>5. \E s : /\ Selected(s) /\ s \in Seq(STRING) /\ IsInjective(s) /\ ToSet(s) \subseteq ToSet(chosen)
               /\ page.selects = "files" => ToSet(s) = ToSet(chosen)
    <3>1. ASSUME NEW i \in DOMAIN chosen, NEW j \in DOMAIN chosen
          PROVE  /\ Moved(chosen, i, j) \in Seq(STRING) /\ IsInjective(Moved(chosen, i, j))
                 /\ ToSet(Moved(chosen, i, j)) = ToSet(chosen)
                 /\ Dropped(chosen, i, j) \in Seq(STRING) /\ IsInjective(Dropped(chosen, i, j))
                 /\ ToSet(Dropped(chosen, i, j)) = ToSet(chosen)
      BY <1>3, <2>2, MovedKeeps, DroppedKeeps
    <3>2. ASSUME NEW c \in Seq(STRING), IsInjective(c),
                 page.selects = "files" => ToSet(chosen) \subseteq ToSet(c)
          PROVE  /\ InOrderOf(chosen, c) \in Seq(STRING) /\ IsInjective(InOrderOf(chosen, c))
                 /\ ToSet(InOrderOf(chosen, c)) \subseteq ToSet(chosen)
                 /\ page.selects = "files" => ToSet(InOrderOf(chosen, c)) = ToSet(chosen)
      BY <3>2, InOrderKeeps
    <3>3. \/ \E i, j \in DOMAIN chosen : Selected(Moved(chosen, i, j)) \/ Selected(Dropped(chosen, i, j))
          \/ \E c \in {all, Collation, Reverse(Collation)} : Selected(InOrderOf(chosen, c))
      BY <1>19 DEF Reorder, all
    <3> QED BY <2>3, <2>4, <3>1, <3>2, <3>3
  <2>6. PICK s : /\ Selected(s) /\ s \in Seq(STRING) /\ IsInjective(s) /\ ToSet(s) \subseteq ToSet(chosen)
                 /\ page.selects = "files" => ToSet(s) = ToSet(chosen)
    BY <2>5
  <2> QED BY <1>3, <1>7, <2>1, <2>6
<1>20. CASE SetOptions
  <2>1. /\ page.options # "none" /\ ~NoPreview
        /\ UNCHANGED <<page, picked, shown, sheetNo, headers, added, spinning, waiting, sent, past>>
        /\ chosen' \in {chosen, Columns(shown, sheetNo)}
    BY <1>20 DEF SetOptions
  <2>2. page.selects = "columns" /\ shown \in Files
    BY <1>3, <2>1 DEF Shape, NoPreview
  <2>3. Columns(shown, sheetNo) \in Seq(STRING) /\ IsInjective(Columns(shown, sheetNo))
    BY <2>2, OfferedNames
  <2>4. SelectedOnce'
    BY <1>2, <2>1, <2>2, <2>3 DEF SelectedOnce
  <2>5. Current'
    BY <1>2, <2>1, <2>2 DEF Current, NoPreview, Previews
  <2>6. chosen' \in Seq(STRING)
    BY <1>3, <2>1, <2>3
  <2> QED BY <1>3, <1>6, <2>1, <2>2, <2>4, <2>5, <2>6
<1>21. CASE Run
  <2> DEFINE new == [n |-> sent + 1, kind |-> "run", form |-> RunForm]
  <2>1. /\ (Previews => ~NoPreview)
        /\ sent' = sent + 1 /\ waiting' = waiting \cup {new} /\ spinning' = spinning \cup {Spinner("run")}
        /\ UNCHANGED <<page, picked, shown, sheetNo, headers, chosen, added, past>>
    BY <1>21 DEF Run, CanRun, Send
  <2>2. new.kind = "run" /\ new.n = sent + 1 /\ new.form = RunForm /\ Spinner("run") \in {"read", "run"}
    BY DEF Spinner
  <2>3. RunForm.of = shown /\ RunForm.sheet = sheetNo /\ RunForm.names \in {<<>>, chosen}
    BY DEF RunForm
  <2> HIDE DEF new
  <2>4. PageTypeOK'
    <3>1. \A c \in waiting' : c.kind \in {"read", "run"} /\ c.n \in 1..sent'
      BY <1>sending, <2>1, <2>2
    <3> QED BY <1>3, <2>1, <2>2, <3>1 DEF PageTypeOK
  <2>5. Lists'
    BY <1>2, <1>3, <2>1, <2>2 DEF Lists, Previews
  <2>6. SelectedOnce'
    BY <1>2, <2>1 DEF SelectedOnce
  <2>7. Current'
    BY <1>2, <2>1 DEF Current, Previews, NoPreview
  <2>8. ClearedFirst'
    BY <1>2, <2>1, <2>2 DEF ClearedFirst, NoPreview
  <2>9. SelectionIsListed'
    <3>1. Previews /\ past \cap {"crossed", "lagged"} = {} =>
              ToSet(RunForm.names) \subseteq
                  IF page.selects = "sheets" THEN ToSet(SheetNames(shown)) ELSE ToSet(Columns(shown, sheetNo))
      BY <1>2, <1>5, <2>1, <2>3 DEF Current
    <3> QED BY <1>2, <2>1, <2>2, <2>3, <3>1 DEF SelectionIsListed, Previews
  <2> QED BY <2>4, <2>5, <2>6, <2>7, <2>8, <2>9 DEF ChoiceIInv
<1>22. CASE UNCHANGED pageVars
  <2>1. UNCHANGED <<page, picked, shown, sheetNo, headers, chosen, added, spinning, waiting, sent, past>>
    BY <1>22 DEF pageVars
  <2>2. SelectedOnce'
    BY <1>2, <2>1 DEF SelectedOnce
  <2>3. Current'
    BY <1>2, <2>1 DEF Current, Previews, NoPreview
  <2>4. page.selects = "files" => ToSet(chosen') \subseteq Files
    BY <1>2, <2>1 DEF Lists
  <2> QED BY <1>3, <1>6, <2>1, <2>2, <2>3, <2>4
<1> QED BY <1>1, <1>8, <1>9, <1>10, <1>11, <1>12, <1>13, <1>14, <1>15, <1>16, <1>17, <1>18, <1>19, <1>20, <1>21, <1>22
        DEF PageNext

\* What a page selects is in the preview it shows, once, and a run sends no
\* more than that.
THEOREM ChoicesAreOffered == PageSpec => []PageInv
<1> DEFINE I == PageIInv /\ ChoiceIInv
<1>1. I /\ [PageNext]_pageVars => I'
  BY PageStep, ChoiceStep
<1>2. PageInit => I
  BY PageInitInv, ChoiceInitInv
<1>3. I => PageInv
  BY DEF ChoiceIInv, PageInv
<1> HIDE DEF I
<1> QED BY <1>1, <1>2, <1>3, PTL DEF PageSpec

-----------------------------------------------------------------------------
(* The Inspect page.                                                       *)

LEMMA BagMore ==
    ASSUME NEW B, IsABag(B), NEW c
    PROVE  /\ IsABag(B (+) SetToBag({c}))
           /\ DOMAIN (B (+) SetToBag({c})) = DOMAIN B \cup {c}
  BY DEF IsABag, SetToBag, (+)

LEMMA BagLess ==
    ASSUME NEW B, IsABag(B), NEW c \in DOMAIN B
    PROVE  /\ IsABag(B (-) SetToBag({c}))
           /\ DOMAIN (B (-) SetToBag({c})) \subseteq DOMAIN B
           /\ DOMAIN B \ {c} \subseteq DOMAIN (B (-) SetToBag({c}))
  BY DEF IsABag, SetToBag, (-)

LEMMA BagOfOne ==
    ASSUME NEW c
    PROVE  /\ EmptyBag (+) SetToBag({c}) = SetToBag({c})
           /\ SetToBag({c}) (-) SetToBag({c}) = EmptyBag
           /\ SetToBag({c}) # EmptyBag /\ DOMAIN SetToBag({c}) = {c}
           /\ DOMAIN EmptyBag = {} /\ IsABag(EmptyBag)
<1>1. DOMAIN SetToBag({c}) = {c} /\ DOMAIN EmptyBag = {} /\ IsABag(EmptyBag)
  BY DEF SetToBag, EmptyBag, IsABag
<1>2. EmptyBag (+) SetToBag({c}) = SetToBag({c})
  BY DEF SetToBag, EmptyBag, (+)
<1>3. SetToBag({c}) (-) SetToBag({c}) = EmptyBag
  BY DEF SetToBag, EmptyBag, (-)
<1> QED BY <1>1, <1>2, <1>3
AllRows == Seq(Workbooks \X Sheets \X (Nat \ {0}))
AllViews ==
    [rows : AllRows, done : BOOLEAN, paging : BOOLEAN, all : BOOLEAN, loaded : BOOLEAN]
\* The rows are the first pages of a sheet.
Begin(rows, w, s) ==
    /\ Len(rows) <= Pages[w][s]
    /\ \A i \in DOMAIN rows : rows[i] = <<w, s, i>>

ViewerTypes ==
    /\ preview \in Workbooks \cup {None} /\ active \in Sheets
    /\ view \in AllViews
    /\ uploads \subseteq Workbooks /\ mixed \in BOOLEAN
    /\ IsABag(calls)
    /\ \A c \in DOMAIN calls : /\ c.book \in Workbooks /\ c.sheet \in Sheets /\ c.next \in Nat
                               /\ c.fn = "loadPage" /\ ~c.append => c.next = 0
                               /\ c.fn \in {"loadPage", "loadAllRows"}
\* In a view that holds no pages of an earlier one, the call in flight is the
\* only one, for the tab that is shown, and it brings the next page.
OneCall ==
    preview # None /\ ~mixed =>
        \/ calls = EmptyBag
        \/ \E c \in DOMAIN calls :
              /\ calls = SetToBag({c}) /\ OfThisTab(c)
              /\ c.fn = "loadPage" => view.paging
              /\ c.fn = "loadAllRows" => view.all
              /\ c.fn = "loadAllRows" \/ c.append => c.next = Len(view.rows)
TheBeginning ==
    preview # None /\ ~mixed =>
        /\ Begin(view.rows, preview, active)
        /\ view.done => Len(view.rows) = Pages[preview][active]

ViewerIInv == ViewerTypes /\ SpinnersAreBacked /\ OneCall /\ TheBeginning

LEMMA ViewerInitInv == Init => ViewerIInv
<1>1. SUFFICES ASSUME Init PROVE ViewerIInv
  OBVIOUS
<1>2. preview = None /\ active = 0 /\ view = Fresh /\ calls = EmptyBag /\ uploads = {} /\ mixed = FALSE
  BY <1>1 DEF Init
<1>3. DOMAIN calls = {} /\ IsABag(calls)
  BY <1>2, BagOfOne
<1>4. view \in AllViews /\ ~view.paging /\ ~view.all
  BY <1>2 DEF Fresh, AllViews, AllRows
<1> QED BY <1>2, <1>3, <1>4, ViewerAssumption
        DEF ViewerIInv, ViewerTypes, SpinnersAreBacked, OneCall, TheBeginning

\* The answer to a call is the page at its offset, or nothing past the last.
LEMMA Answer ==
    ASSUME NEW c, c.book \in Workbooks, c.sheet \in Sheets, c.next \in Nat
    PROVE  /\ Fetched(c) \in AllRows
           /\ Pages[c.book][c.sheet] \in Nat
           /\ c.next < Pages[c.book][c.sheet] =>
                 Len(Fetched(c)) = 1 /\ Fetched(c)[1] = <<c.book, c.sheet, c.next + 1>>
           /\ ~(c.next < Pages[c.book][c.sheet]) => Fetched(c) = <<>>
<1>1. Pages[c.book][c.sheet] \in Nat
  BY ViewerAssumption
<1> DEFINE p == <<c.book, c.sheet, c.next + 1>>
<1>2. p \in Workbooks \X Sheets \X (Nat \ {0})
  OBVIOUS
<1>3. Fetched(c) = IF c.next < Pages[c.book][c.sheet] THEN <<p>> ELSE <<>>
  BY DEF Fetched
<1> HIDE DEF p
<1>4. <<p>> \in AllRows /\ Len(<<p>>) = 1 /\ <<p>>[1] = p /\ <<>> \in AllRows
  BY <1>2 DEF AllRows
<1> QED BY <1>1, <1>3, <1>4 DEF p

\* Rows to which the next page is added are still the first pages.
LEMMA NextPage ==
    ASSUME NEW c, c.book \in Workbooks, c.sheet \in Sheets, c.next \in Nat,
           NEW rows \in AllRows, Begin(rows, c.book, c.sheet), c.next = Len(rows)
    PROVE  /\ Begin(rows \o Fetched(c), c.book, c.sheet)
           /\ LastPage(c) => Len(rows \o Fetched(c)) = Pages[c.book][c.sheet]
           /\ Fetched(c) # <<>> => Len(rows \o Fetched(c)) = c.next + 1
<1>1. /\ Fetched(c) \in AllRows
      /\ Pages[c.book][c.sheet] \in Nat
      /\ c.next < Pages[c.book][c.sheet] =>
            Len(Fetched(c)) = 1 /\ Fetched(c)[1] = <<c.book, c.sheet, c.next + 1>>
      /\ ~(c.next < Pages[c.book][c.sheet]) => Fetched(c) = <<>>
  BY Answer
<1>2. CASE c.next < Pages[c.book][c.sheet]
  <2> DEFINE f == Fetched(c)
  <2>1. Len(rows \o f) = c.next + 1 /\ DOMAIN (rows \o f) = 1..(c.next + 1)
    <3>1. rows \in AllRows /\ f \in AllRows /\ Len(f) = 1 /\ c.next = Len(rows)
      BY <1>1, <1>2
    <3>2. ASSUME NEW S, NEW r \in Seq(S), NEW q \in Seq(S)
          PROVE  Len(r \o q) = Len(r) + Len(q) /\ DOMAIN (r \o q) = 1..Len(r \o q)
      OBVIOUS
    <3> HIDE DEF f
    <3>3. Len(rows \o f) = Len(rows) + Len(f) /\ DOMAIN (rows \o f) = 1..Len(rows \o f)
      BY <3>1, <3>2 DEF AllRows
    <3> QED BY <3>1, <3>3
  <2>2. ASSUME NEW i \in 1..(c.next + 1) PROVE (rows \o f)[i] = <<c.book, c.sheet, i>>
    <3>1. CASE i = c.next + 1
      <4>1. (rows \o f)[i] = f[1]
        BY <1>1, <1>2, <3>1 DEF AllRows
      <4> QED BY <1>1, <1>2, <3>1, <4>1
    <3>2. CASE i # c.next + 1
      <4>1. i \in 1..Len(rows)
        BY <3>2
      <4>2. (rows \o f)[i] = rows[i] /\ i \in DOMAIN rows
        BY <1>1, <4>1 DEF AllRows
      <4> QED BY <4>2 DEF Begin
    <3> QED BY <3>1, <3>2
  <2>3. LastPage(c) => c.next + 1 >= Pages[c.book][c.sheet]
    BY <1>1, <1>2 DEF LastPage
  <2> HIDE DEF f
  <2>4. c.next + 1 <= Pages[c.book][c.sheet]
    BY <1>1, <1>2
  <2>5. Begin(rows \o f, c.book, c.sheet)
    BY <2>1, <2>2, <2>4 DEF Begin
  <2>6. c.next + 1 >= Pages[c.book][c.sheet] => c.next + 1 = Pages[c.book][c.sheet]
    BY <1>1, <2>4
  <2> QED BY <2>1, <2>3, <2>5, <2>6 DEF f
<1>3. CASE ~(c.next < Pages[c.book][c.sheet])
  <2>1. Fetched(c) = <<>> /\ rows \o Fetched(c) = rows
    BY <1>1, <1>3 DEF AllRows
  <2>2. Len(rows) = Pages[c.book][c.sheet]
    BY <1>1, <1>3 DEF Begin
  <2> QED BY <2>1, <2>2
<1> QED BY <1>2, <1>3
\* A call is sent.
LEMMA AskMore ==
    ASSUME ViewerTypes, NEW c, Ask(c), c.book \in Workbooks, c.sheet \in Sheets, c.next \in Nat,
           c.fn = "loadPage" /\ ~c.append => c.next = 0,
           c.fn \in {"loadPage", "loadAllRows"}
    PROVE  /\ IsABag(calls') /\ DOMAIN calls' = DOMAIN calls \cup {c}
           /\ \A d \in DOMAIN calls' : /\ d.book \in Workbooks /\ d.sheet \in Sheets /\ d.next \in Nat
                                       /\ d.fn = "loadPage" /\ ~d.append => d.next = 0
                                       /\ d.fn \in {"loadPage", "loadAllRows"}
           /\ calls = EmptyBag => calls' = SetToBag({c})
<1>1. calls' = calls (+) SetToBag({c})
  BY DEF Ask
<1>2. IsABag(calls') /\ DOMAIN calls' = DOMAIN calls \cup {c}
  BY <1>1, BagMore DEF ViewerTypes
<1>3. calls = EmptyBag => calls' = SetToBag({c})
  BY <1>1, BagOfOne
<1> QED BY <1>2, <1>3 DEF ViewerTypes

\* A call ends.
LEMMA AskLess ==
    ASSUME ViewerTypes, NEW c \in DOMAIN calls, NEW rest, rest = calls (-) SetToBag({c})
    PROVE  /\ IsABag(rest) /\ DOMAIN rest \subseteq DOMAIN calls
           /\ DOMAIN calls \ {c} \subseteq DOMAIN rest
           /\ \A d \in DOMAIN rest : /\ d.book \in Workbooks /\ d.sheet \in Sheets /\ d.next \in Nat
                                     /\ d.fn = "loadPage" /\ ~d.append => d.next = 0
                                     /\ d.fn \in {"loadPage", "loadAllRows"}
<1>1. IsABag(rest) /\ DOMAIN rest \subseteq DOMAIN calls /\ DOMAIN calls \ {c} \subseteq DOMAIN rest
  BY BagLess DEF ViewerTypes
<1> QED BY <1>1 DEF ViewerTypes

LEMMA OnlyCall ==
    ASSUME ViewerIInv, NEW c \in DOMAIN calls, preview # None, ~mixed
    PROVE  /\ calls (-) SetToBag({c}) = EmptyBag /\ OfThisTab(c)
           /\ c.fn = "loadPage" => view.paging
           /\ c.fn = "loadAllRows" => view.all
           /\ c.fn = "loadAllRows" \/ c.append => c.next = Len(view.rows)
<1>1. PICK d : /\ calls = SetToBag({d}) /\ OfThisTab(d)
               /\ d.fn = "loadPage" => view.paging
               /\ d.fn = "loadAllRows" => view.all
               /\ d.fn = "loadAllRows" \/ d.append => d.next = Len(view.rows)
  <2>1. calls # EmptyBag
    BY BagOfOne
  <2> QED BY <2>1 DEF ViewerIInv, OneCall
<1>2. DOMAIN SetToBag({d}) = {d} /\ SetToBag({d}) (-) SetToBag({d}) = EmptyBag
  BY BagOfOne
<1>3. c = d
  BY <1>1, <1>2
<1> QED BY <1>1, <1>2, <1>3

\* A tab or a workbook is opened.
LEMMA EnterStep ==
    ASSUME ViewerIInv, NEW w \in Workbooks, NEW s \in Sheets, NEW v, v = Fresh \/ v = view,
           Enter(w, s, v), preview' = w, active' = s,
           uploads' \subseteq Workbooks, mixed' \in BOOLEAN,
           ~mixed' => calls = EmptyBag /\ v = Fresh
    PROVE  ViewerIInv'
<1>1. ViewerTypes /\ SpinnersAreBacked
  BY DEF ViewerIInv
<1>2. v \in AllViews
  <2>1. Fresh \in AllViews
    BY DEF Fresh, AllViews, AllRows
  <2> QED BY <1>1, <2>1 DEF ViewerTypes
<1>3. CASE view.paging /\ view' = v /\ UNCHANGED calls
  <2>1. ViewerTypes'
    BY <1>1, <1>2, <1>3 DEF ViewerTypes
  <2>2. SpinnersAreBacked'
    BY <1>1, <1>3 DEF SpinnersAreBacked, Fresh, InFlight, BagToSet
  <2>3. mixed'
    BY <1>1, <1>3, BagOfOne DEF SpinnersAreBacked, InFlight, BagToSet
  <2> QED BY <2>1, <2>2, <2>3 DEF ViewerIInv, OneCall, TheBeginning
<1>4. CASE ~view.paging /\ view' = [v EXCEPT !.paging = TRUE] /\ Ask(PageCall(w, s, 0, FALSE))
  <2> DEFINE c == PageCall(w, s, 0, FALSE)
  <2>1. c.book = w /\ c.sheet = s /\ c.next = 0 /\ c.fn = "loadPage" /\ ~c.append
    BY DEF PageCall
  <2>2. Ask(c)
    BY <1>4
  <2> HIDE DEF c
  <2>3. /\ IsABag(calls') /\ DOMAIN calls' = DOMAIN calls \cup {c}
        /\ \A d \in DOMAIN calls' : /\ d.book \in Workbooks /\ d.sheet \in Sheets /\ d.next \in Nat
                                    /\ d.fn = "loadPage" /\ ~d.append => d.next = 0
                                    /\ d.fn \in {"loadPage", "loadAllRows"}
        /\ calls = EmptyBag => calls' = SetToBag({c})
    BY <1>1, <2>1, <2>2, AskMore
  <2>4. view' \in AllViews /\ view'.rows = v.rows /\ view'.done = v.done /\ view'.paging /\ view'.all = v.all
    BY <1>2, <1>4 DEF AllViews
  <2>5. ViewerTypes'
    BY <2>3, <2>4 DEF ViewerTypes
  <2>6. SpinnersAreBacked'
    BY <1>1, <2>1, <2>3, <2>4 DEF SpinnersAreBacked, Fresh, InFlight, BagToSet
  <2>7. OneCall'
    BY <2>1, <2>3, <2>4 DEF OneCall, OfThisTab
  <2>8. TheBeginning'
    <3>1. SUFFICES ASSUME ~mixed' PROVE Begin(view'.rows, w, s) /\ ~view'.done
      BY DEF TheBeginning
    <3>2. view'.rows = <<>> /\ ~view'.done
      BY <2>4, <3>1 DEF Fresh
    <3> QED BY <3>2, ViewerAssumption DEF Begin
  <2> QED BY <2>5, <2>6, <2>7, <2>8 DEF ViewerIInv
<1> QED BY <1>3, <1>4 DEF Enter
LEMMA ViewerStep == ViewerIInv /\ [Next]_vars => ViewerIInv'
<1>1. SUFFICES ASSUME ViewerIInv, [Next]_vars PROVE ViewerIInv'
  OBVIOUS
<1>2. ViewerTypes /\ SpinnersAreBacked /\ OneCall /\ TheBeginning
  BY <1>1 DEF ViewerIInv
<1>3. ASSUME NEW s \in Sheets, SelectTab(s) PROVE ViewerIInv'
  <2>1. /\ preview # None /\ preview' = preview /\ active' = s /\ Enter(preview, s, Fresh)
        /\ mixed' = (calls # EmptyBag) /\ uploads' = uploads
    BY <1>3 DEF SelectTab
  <2>2. preview \in Workbooks /\ uploads' \subseteq Workbooks /\ mixed' \in BOOLEAN
    BY <1>2, <2>1 DEF ViewerTypes
  <2>3. ~mixed' => calls = EmptyBag
    BY <2>1
  <2> QED BY <1>1, <2>1, <2>2, <2>3, EnterStep
<1>4. ASSUME NEW w \in Workbooks, ShowWorkbook(w) PROVE ViewerIInv'
  <2> DEFINE v == IF active # 0 THEN Fresh ELSE view
  <2>1. /\ preview' = w /\ active' = 0 /\ Enter(w, 0, v) /\ uploads' = uploads \ {w}
        /\ mixed' = (calls # EmptyBag \/ (active = 0 /\ view # Fresh))
    BY <1>4 DEF ShowWorkbook
  <2>2. 0 \in Sheets /\ uploads' \subseteq Workbooks /\ mixed' \in BOOLEAN
    BY <1>2, <2>1, ViewerAssumption DEF ViewerTypes
  <2>3. (v = Fresh \/ v = view) /\ (~mixed' => calls = EmptyBag /\ v = Fresh)
    BY <2>1
  <2> HIDE DEF v
  <2> QED BY <1>1, <2>1, <2>2, <2>3, EnterStep
<1>5. ASSUME NEW w \in Workbooks, ChooseFile(w) PROVE ViewerIInv'
  <2>1. UNCHANGED <<preview, active, view, calls, mixed>> /\ uploads' = uploads \cup {w}
    BY <1>5 DEF ChooseFile
  <2> QED BY <1>2, <2>1 DEF ViewerIInv, ViewerTypes, SpinnersAreBacked, InFlight, BagToSet,
          OneCall, OfThisTab, TheBeginning
<1>6. ASSUME NEW w \in Workbooks, UploadFails(w) PROVE ViewerIInv'
  <2>1. UNCHANGED <<active, view, calls, mixed>> /\ uploads' = uploads \ {w} /\ preview' = None
    BY <1>6 DEF UploadFails
  <2> QED BY <1>2, <2>1 DEF ViewerIInv, ViewerTypes, SpinnersAreBacked, InFlight, BagToSet,
          OneCall, TheBeginning
<1>7. ASSUME NEW c, Ask(c), c.book = preview, c.sheet = active, c.next = Len(view.rows),
             preview # None, view' \in AllViews, view'.rows = view.rows, view'.done = view.done,
             UNCHANGED <<preview, active, uploads, mixed>>,
             view.paging => view'.paging, view.all => view'.all,
             view'.paging => view.paging \/ c.fn = "loadPage",
             view'.all => view.all \/ c.fn = "loadAllRows",
             c.fn = "loadPage" => view'.paging /\ c.append, c.fn = "loadAllRows" => view'.all,
             calls # EmptyBag => mixed, c.fn \in {"loadPage", "loadAllRows"}
      PROVE  ViewerIInv'
  <2>1. c.book \in Workbooks /\ c.sheet \in Sheets /\ c.next \in Nat
    BY <1>2, <1>7 DEF ViewerTypes, AllViews, AllRows
  <2>2. /\ IsABag(calls') /\ DOMAIN calls' = DOMAIN calls \cup {c}
        /\ \A d \in DOMAIN calls' : /\ d.book \in Workbooks /\ d.sheet \in Sheets /\ d.next \in Nat
                                    /\ d.fn = "loadPage" /\ ~d.append => d.next = 0
                                    /\ d.fn \in {"loadPage", "loadAllRows"}
        /\ calls = EmptyBag => calls' = SetToBag({c})
    BY <1>2, <1>7, <2>1, AskMore
  <2>3. ViewerTypes'
    BY <1>2, <1>7, <2>2 DEF ViewerTypes
  <2>4. SpinnersAreBacked'
    BY <1>2, <1>7, <2>2 DEF SpinnersAreBacked, InFlight, BagToSet
  <2>5. OneCall'
    BY <1>7, <2>2 DEF OneCall, OfThisTab
  <2>6. TheBeginning'
    BY <1>2, <1>7 DEF TheBeginning
  <2> QED BY <2>3, <2>4, <2>5, <2>6 DEF ViewerIInv
<1>8. Enabled /\ ~mixed => calls = EmptyBag
  <2>1. SUFFICES ASSUME Enabled, ~mixed, calls # EmptyBag PROVE FALSE
    OBVIOUS
  <2>2. PICK d : /\ calls = SetToBag({d})
                 /\ d.fn = "loadPage" => view.paging
                 /\ d.fn = "loadAllRows" => view.all
    BY <1>2, <2>1 DEF OneCall, Enabled
  <2>3. d \in DOMAIN calls
    BY <2>2, BagOfOne
  <2>4. d.fn \in {"loadPage", "loadAllRows"}
    BY <1>2, <2>3 DEF ViewerTypes
  <2> QED BY <2>1, <2>2, <2>4 DEF Enabled
<1>9. CASE LoadMore
  <2> DEFINE c == PageCall(preview, active, Len(view.rows), TRUE)
  <2>1. c.fn = "loadPage" /\ c.book = preview /\ c.sheet = active /\ c.next = Len(view.rows) /\ c.append
    BY DEF PageCall
  <2>2. /\ Enabled /\ view' = [view EXCEPT !.paging = TRUE] /\ Ask(c)
        /\ UNCHANGED <<preview, active, uploads, mixed>>
    BY <1>9 DEF LoadMore
  <2> HIDE DEF c
  <2>3. /\ view' \in AllViews /\ view'.rows = view.rows /\ view'.done = view.done
        /\ view'.paging = TRUE /\ view'.all = view.all
    BY <1>2, <2>2 DEF ViewerTypes, AllViews
  <2>4. preview # None
    BY <2>2 DEF Enabled
  <2> QED BY <1>7, <1>8, <2>1, <2>2, <2>3, <2>4
<1>10. CASE LoadAll
  <2> DEFINE c == AllCall(preview, active, Len(view.rows), 1)
  <2>1. c.fn = "loadAllRows" /\ c.book = preview /\ c.sheet = active /\ c.next = Len(view.rows)
    BY DEF AllCall
  <2>2. /\ Enabled /\ view' = [view EXCEPT !.all = TRUE] /\ Ask(c)
        /\ UNCHANGED <<preview, active, uploads, mixed>>
    BY <1>10 DEF LoadAll
  <2> HIDE DEF c
  <2>3. /\ view' \in AllViews /\ view'.rows = view.rows /\ view'.done = view.done
        /\ view'.paging = view.paging /\ view'.all = TRUE
    BY <1>2, <2>2 DEF ViewerTypes, AllViews
  <2>4. preview # None
    BY <2>2 DEF Enabled
  <2> QED BY <1>7, <1>8, <2>1, <2>2, <2>3, <2>4
<1>11. ASSUME NEW c \in InFlight, CallFails(c) PROVE ViewerIInv'
  <2>1. /\ c \in DOMAIN calls /\ calls' = calls (-) SetToBag({c})
        /\ UNCHANGED <<preview, active, uploads, mixed>>
        /\ view' = IF c.fn = "loadPage" THEN [view EXCEPT !.paging = FALSE]
                   ELSE [view EXCEPT !.all = FALSE]
    BY <1>11 DEF CallFails, InFlight, BagToSet
  <2>2. /\ IsABag(calls') /\ DOMAIN calls' \subseteq DOMAIN calls
        /\ DOMAIN calls \ {c} \subseteq DOMAIN calls'
        /\ \A d \in DOMAIN calls' : /\ d.book \in Workbooks /\ d.sheet \in Sheets /\ d.next \in Nat
                                    /\ d.fn = "loadPage" /\ ~d.append => d.next = 0
                                    /\ d.fn \in {"loadPage", "loadAllRows"}
    BY <1>2, <2>1, AskLess
  <2>3. /\ view' \in AllViews /\ view'.rows = view.rows /\ view'.done = view.done
        /\ c.fn = "loadPage" => ~view'.paging /\ view'.all = view.all
        /\ c.fn # "loadPage" => ~view'.all /\ view'.paging = view.paging
    BY <1>2, <2>1 DEF ViewerTypes, AllViews
  <2>4. ViewerTypes'
    BY <1>2, <2>1, <2>2, <2>3 DEF ViewerTypes
  <2>5. SpinnersAreBacked'
    BY <1>2, <2>2, <2>3 DEF SpinnersAreBacked, InFlight, BagToSet
  <2>6. OneCall'
    BY <1>1, <2>1, OnlyCall DEF OneCall
  <2>7. TheBeginning'
    BY <1>2, <2>1, <2>3 DEF TheBeginning
  <2> QED BY <2>4, <2>5, <2>6, <2>7 DEF ViewerIInv
<1>12. ASSUME NEW c \in InFlight, PageArrives(c) PROVE ViewerIInv'
  <2>1. /\ c \in DOMAIN calls /\ c.fn = "loadPage" /\ calls' = calls (-) SetToBag({c})
        /\ UNCHANGED <<preview, active, uploads>>
        /\ mixed' = (mixed /\ ~(~c.append /\ OfThisTab(c) /\ calls' = EmptyBag))
        /\ view' = [view EXCEPT !.rows = IF c.append THEN @ \o Fetched(c) ELSE Fetched(c),
                                !.done = LastPage(c), !.loaded = TRUE, !.paging = FALSE]
    BY <1>12 DEF PageArrives, InFlight, BagToSet
  <2>2. /\ IsABag(calls') /\ DOMAIN calls' \subseteq DOMAIN calls
        /\ DOMAIN calls \ {c} \subseteq DOMAIN calls'
        /\ \A d \in DOMAIN calls' : /\ d.book \in Workbooks /\ d.sheet \in Sheets /\ d.next \in Nat
                                    /\ d.fn = "loadPage" /\ ~d.append => d.next = 0
                                    /\ d.fn \in {"loadPage", "loadAllRows"}
    BY <1>2, <2>1, AskLess
  <2>3. c.book \in Workbooks /\ c.sheet \in Sheets /\ c.next \in Nat /\ (~c.append => c.next = 0)
    BY <1>2, <2>1 DEF ViewerTypes
  <2>4. Fetched(c) \in AllRows /\ view.rows \in AllRows /\ view.rows \o Fetched(c) \in AllRows
    BY <1>2, <2>3, Answer DEF ViewerTypes, AllViews, AllRows
  <2>5. /\ view' \in AllViews /\ view'.done = LastPage(c) /\ ~view'.paging /\ view'.all = view.all
        /\ view'.rows = IF c.append THEN view.rows \o Fetched(c) ELSE Fetched(c)
    <3>1. LastPage(c) \in BOOLEAN
      BY DEF LastPage
    <3> QED BY <1>2, <2>1, <2>4, <3>1 DEF ViewerTypes, AllViews
  <2>6. mixed' \in BOOLEAN
    BY <1>2, <2>1 DEF ViewerTypes
  <2>7. ViewerTypes'
    BY <1>2, <2>1, <2>2, <2>5, <2>6 DEF ViewerTypes
  <2>8. SpinnersAreBacked'
    BY <1>2, <2>1, <2>2, <2>5 DEF SpinnersAreBacked, InFlight, BagToSet
  <2>9. preview # None /\ ~mixed' =>
            /\ OfThisTab(c) /\ calls' = EmptyBag
            /\ c.append => ~mixed /\ c.next = Len(view.rows)
    BY <1>1, <2>1, OnlyCall
  <2>10. OneCall'
    BY <2>1, <2>9 DEF OneCall
  <2>11. TheBeginning'
    <3>1. SUFFICES ASSUME preview # None, ~mixed'
          PROVE  /\ Begin(view'.rows, preview, active)
                 /\ view'.done => Len(view'.rows) = Pages[preview][active]
      BY <2>1 DEF TheBeginning
    <3>2. c.book = preview /\ c.sheet = active
      BY <2>9, <3>1 DEF OfThisTab
    <3>3. CASE c.append
      BY <1>2, <2>3, <2>4, <2>5, <2>9, <3>1, <3>2, <3>3, NextPage DEF TheBeginning
    <3>4. CASE ~c.append
      <4>1. <<>> \in AllRows /\ Begin(<<>>, preview, active) /\ Len(<<>>) = 0
        BY <2>3, <3>2, ViewerAssumption DEF AllRows, Begin
      <4>2. <<>> \o Fetched(c) = Fetched(c)
        BY <2>4 DEF AllRows
      <4> QED BY <2>3, <2>5, <3>2, <3>4, <4>1, <4>2, NextPage
    <3> QED BY <3>3, <3>4
  <2> QED BY <2>7, <2>8, <2>10, <2>11 DEF ViewerIInv
<1>13. ASSUME NEW c \in InFlight, AllArrives(c) PROVE ViewerIInv'
  <2> DEFINE last == LastPage(c) \/ Fetched(c) = <<>> \/ c.guard >= GuardLimit
             rest == calls (-) SetToBag({c})
             new == AllCall(c.book, c.sheet, c.next + 1, c.guard + 1)
  <2>1. /\ c \in DOMAIN calls /\ c.fn = "loadAllRows"
        /\ UNCHANGED <<preview, active, uploads, mixed>>
        /\ view' = [view EXCEPT !.rows = @ \o Fetched(c), !.done = LastPage(c),
                                !.loaded = TRUE, !.all = @ /\ ~last]
        /\ calls' = IF last THEN rest ELSE rest (+) SetToBag({new})
    BY <1>13 DEF AllArrives, InFlight, BagToSet
  <2>2. /\ IsABag(rest) /\ DOMAIN rest \subseteq DOMAIN calls
        /\ DOMAIN calls \ {c} \subseteq DOMAIN rest
        /\ \A d \in DOMAIN rest : /\ d.book \in Workbooks /\ d.sheet \in Sheets /\ d.next \in Nat
                                  /\ d.fn = "loadPage" /\ ~d.append => d.next = 0
                                  /\ d.fn \in {"loadPage", "loadAllRows"}
    BY <1>2, <2>1, AskLess
  <2>3. c.book \in Workbooks /\ c.sheet \in Sheets /\ c.next \in Nat
    BY <1>2, <2>1 DEF ViewerTypes
  <2>4. Fetched(c) \in AllRows /\ view.rows \in AllRows /\ view.rows \o Fetched(c) \in AllRows
    BY <1>2, <2>3, Answer DEF ViewerTypes, AllViews, AllRows
  <2>5. new.fn = "loadAllRows" /\ new.book = c.book /\ new.sheet = c.sheet /\ new.next = c.next + 1
    BY DEF AllCall
  <2>6. last \in BOOLEAN /\ LastPage(c) \in BOOLEAN /\ (~last => Fetched(c) # <<>>)
    BY DEF LastPage
  <2> HIDE DEF last, new
  <2>7. /\ view' \in AllViews /\ view'.done = LastPage(c) /\ view'.paging = view.paging
        /\ view'.all = (view.all /\ ~last) /\ view'.rows = view.rows \o Fetched(c)
    BY <1>2, <2>1, <2>4, <2>6 DEF ViewerTypes, AllViews
  <2>8. /\ IsABag(calls')
        /\ DOMAIN calls' = IF last THEN DOMAIN rest ELSE DOMAIN rest \cup {new}
    BY <2>1, <2>2, BagMore
  <2> HIDE DEF rest
  <2>9. ViewerTypes'
    <3>1. ASSUME NEW d \in DOMAIN calls'
          PROVE  /\ d.book \in Workbooks /\ d.sheet \in Sheets /\ d.next \in Nat
                 /\ d.fn = "loadPage" /\ ~d.append => d.next = 0
                 /\ d.fn \in {"loadPage", "loadAllRows"}
      <4>1. CASE d \in DOMAIN rest
        BY <2>2, <4>1
      <4>2. CASE d = new
        BY <2>3, <2>5, <4>2
      <4> QED BY <2>8, <3>1, <4>1, <4>2
    <3> QED BY <1>2, <2>1, <2>7, <2>8, <3>1 DEF ViewerTypes
  <2>10. SpinnersAreBacked'
    BY <1>2, <2>1, <2>2, <2>5, <2>7, <2>8 DEF SpinnersAreBacked, InFlight, BagToSet
  <2>11. preview # None /\ ~mixed =>
            /\ OfThisTab(c) /\ rest = EmptyBag /\ c.next = Len(view.rows) /\ view.all
            /\ Begin(view'.rows, preview, active)
            /\ LastPage(c) => Len(view'.rows) = Pages[preview][active]
            /\ ~last => Len(view'.rows) = c.next + 1
    <3>1. SUFFICES ASSUME preview # None, ~mixed
          PROVE  /\ OfThisTab(c) /\ rest = EmptyBag /\ c.next = Len(view.rows) /\ view.all
                 /\ Begin(view'.rows, preview, active)
                 /\ LastPage(c) => Len(view'.rows) = Pages[preview][active]
                 /\ ~last => Len(view'.rows) = c.next + 1
      OBVIOUS
    <3>2. OfThisTab(c) /\ rest = EmptyBag /\ c.next = Len(view.rows) /\ view.all
      BY <1>1, <2>1, <3>1, OnlyCall DEF rest
    <3>3. Begin(view.rows, c.book, c.sheet) /\ c.book = preview /\ c.sheet = active
      BY <1>2, <3>1, <3>2 DEF TheBeginning, OfThisTab
    <3>4. /\ Begin(view.rows \o Fetched(c), c.book, c.sheet)
          /\ LastPage(c) => Len(view.rows \o Fetched(c)) = Pages[c.book][c.sheet]
          /\ Fetched(c) # <<>> => Len(view.rows \o Fetched(c)) = c.next + 1
      BY <2>3, <2>4, <3>2, <3>3, NextPage
    <3> QED BY <2>6, <2>7, <3>2, <3>3, <3>4
  <2>12. OneCall'
    <3>1. SUFFICES ASSUME preview # None, ~mixed, ~last
          PROVE  /\ calls' = SetToBag({new}) /\ new.book = preview' /\ new.sheet = active'
                 /\ view'.all /\ new.next = Len(view'.rows)
      <4>1. preview # None /\ ~mixed /\ last => calls' = EmptyBag
        BY <2>1, <2>11
      <4>2. ~last => new \in DOMAIN calls'
        BY <2>8
      <4> QED BY <2>1, <2>5, <4>1, <4>2 DEF OneCall, OfThisTab
    <3>2. calls' = SetToBag({new})
      BY <2>1, <2>11, <3>1, BagOfOne
    <3> QED BY <2>1, <2>5, <2>7, <2>11, <3>1, <3>2 DEF OfThisTab
  <2>13. TheBeginning'
    BY <2>1, <2>7, <2>11 DEF TheBeginning
  <2> QED BY <2>9, <2>10, <2>12, <2>13 DEF ViewerIInv
<1>14. CASE UNCHANGED vars
  BY <1>2, <1>14 DEF vars, ViewerIInv, ViewerTypes, SpinnersAreBacked, InFlight, BagToSet,
     OneCall, OfThisTab, TheBeginning
<1> QED BY <1>1, <1>3, <1>4, <1>5, <1>6, <1>9, <1>10, <1>11, <1>12, <1>13, <1>14 DEF Next, Respond

\* The table of a sheet is its beginning, each page once and in order, and it is
\* said to be all only when it is, unless a response for another tab was in
\* flight when this one was opened.
THEOREM TheTableIsTheSheet == Spec => []ViewerInv
<1>1. ASSUME ViewerIInv PROVE ViewerInv
  <2>1. ViewerTypes /\ TheBeginning
    BY <1>1 DEF ViewerIInv
  <2>2. TypeOK
    BY <2>1 DEF ViewerTypes, TypeOK, AllViews, AllRows, InFlight, BagToSet
  <2>3. RowsAreAPrefix
    BY <2>1 DEF TheBeginning, RowsAreAPrefix, Begin
  <2> QED BY <2>2, <2>3 DEF ViewerInv
<1> QED BY <1>1, ViewerInitInv, ViewerStep, PTL DEF Spec

-----------------------------------------------------------------------------
(* The table of the Inspect page.                                          *)

\* What the comparator tells of a row: whether it is blank in the sort column,
\* and the rank of its text there.
Ranked(x) == IF sortDirection = "asc" THEN Rank[x.text] ELSE 0 - Rank[x.text]

LEMMA CellsRank ==
    ASSUME TableTypeOK, NEW i \in DOMAIN atHand, NEW c
    PROVE  CellAt(i, c).text \in Texts /\ Ranked(CellAt(i, c)) \in Int
<1>1. CellAt(i, c).text \in Texts
  <2>1. CASE c \in DOMAIN atHand[i]
    <3>1. atHand[i][c] \in CellsOf(atHand)
      BY <2>1 DEF CellsOf
    <3> QED BY <2>1, <3>1, TableViewAssumption DEF TableTypeOK, CellAt
  <2>2. CASE c \notin DOMAIN atHand[i]
    BY <2>2, TableViewAssumption DEF CellAt, Blank
  <2> QED BY <2>1, <2>2
<1>2. Rank[CellAt(i, c).text] \in Nat
  BY <1>1, TableViewAssumption
<1> QED BY <1>1, <1>2 DEF Ranked

\* Numbers compare as their texts do, so that the comparator is an order.
LEMMA OrderIsRank ==
    ASSUME TableTypeOK, NEW i \in DOMAIN atHand, NEW j \in DOMAIN atHand, NEW c
    PROVE  InOrder(CellAt(i, c), CellAt(j, c)) <=> Ranked(CellAt(i, c)) < Ranked(CellAt(j, c))
<1> DEFINE x == CellAt(i, c)
           y == CellAt(j, c)
<1>1. x.text \in Texts /\ y.text \in Texts /\ Rank[x.text] \in Nat /\ Rank[y.text] \in Nat
  BY CellsRank, TableViewAssumption
<1>2. x.kind = "number" /\ y.kind = "number" =>
          /\ x.num < y.num <=> Rank[x.text] < Rank[y.text]
          /\ y.num < x.num <=> Rank[y.text] < Rank[x.text]
  <2> SUFFICES ASSUME x.kind = "number", y.kind = "number"
      PROVE  /\ x.num < y.num <=> Rank[x.text] < Rank[y.text]
             /\ y.num < x.num <=> Rank[y.text] < Rank[x.text]
    OBVIOUS
  <2>1. c \in DOMAIN atHand[i] /\ c \in DOMAIN atHand[j]
    BY DEF CellAt, Blank
  <2>2. x \in CellsOf(atHand) /\ y \in CellsOf(atHand)
    BY <2>1 DEF CellsOf, CellAt
  <2> HIDE DEF x, y
  <2> QED BY <2>2, TableViewAssumption DEF TableTypeOK
<1>3. Smaller(x, y) <=> Rank[x.text] < Rank[y.text]
  <2> HIDE DEF x, y
  <2> QED BY <1>2 DEF Smaller
<1>4. Smaller(y, x) <=> Rank[y.text] < Rank[x.text]
  <2> HIDE DEF x, y
  <2> QED BY <1>2 DEF Smaller
<1>5. CASE sortDirection = "asc"
  <2> HIDE DEF x, y
  <2>1. InOrder(x, y) <=> Ranked(x) < Ranked(y)
    BY <1>3, <1>5 DEF InOrder, Ranked
  <2> QED BY <2>1 DEF x, y
<1>6. CASE sortDirection # "asc"
  <2> HIDE DEF x, y
  <2>1. InOrder(x, y) <=> Rank[y.text] < Rank[x.text]
    BY <1>4, <1>6 DEF InOrder
  <2>2. Ranked(x) = 0 - Rank[x.text] /\ Ranked(y) = 0 - Rank[y.text]
    BY <1>6 DEF Ranked
  <2>3. InOrder(x, y) <=> Ranked(x) < Ranked(y)
    BY <1>1, <2>1, <2>2
  <2> QED BY <2>3 DEF x, y
<1> QED BY <1>5, <1>6

\* The rows at hand are numbered from 1.
LEMMA GridShape ==
    ASSUME TableTypeOK
    PROVE  /\ Len(atHand) \in Nat /\ DOMAIN atHand = 1..Len(atHand)
           /\ IsFiniteSet(DOMAIN atHand) /\ Cardinality(DOMAIN atHand) = Len(atHand)
           /\ TableColumns \subseteq Nat \ {0}
<1>1. Len(atHand) \in Nat /\ DOMAIN atHand = 1..Len(atHand)
  BY TableViewAssumption DEF TableTypeOK
<1>2. IsFiniteSet(DOMAIN atHand) /\ Cardinality(DOMAIN atHand) = Len(atHand)
  <2>1. IsFiniteSet(1..Len(atHand)) /\ Cardinality(1..Len(atHand)) = Len(atHand)
    <3> DEFINE n == Len(atHand)
    <3>1. n \in Nat
      BY <1>1
    <3> HIDE DEF n
    <3>2. IsFiniteSet(1..n) /\ Cardinality(1..n) = n
      BY <3>1, FS_Interval
    <3> QED BY <3>2 DEF n
  <2> QED BY <1>1, <2>1
<1>3. ASSUME NEW i \in DOMAIN atHand PROVE DOMAIN atHand[i] \subseteq Nat \ {0}
  BY TableViewAssumption DEF TableTypeOK
<1>4. TableColumns \subseteq Nat \ {0}
  BY <1>3 DEF TableColumns
<1> QED BY <1>1, <1>2, <1>4

\* Of two rows one stands before the other, and not both.
LEMMA BeforeIsAnOrder ==
    ASSUME TableTypeOK
    PROVE  /\ \A i \in DOMAIN atHand : ~Before(i, i)
           /\ \A i, j, k \in DOMAIN atHand : Before(i, j) /\ Before(j, k) => Before(i, k)
           /\ \A i, j \in DOMAIN atHand : i # j => Before(i, j) \/ Before(j, i)
<1> DEFINE E(i) == IsEmptyCell(CellAt(i, sortColumnIndex))
           K(i) == Ranked(CellAt(i, sortColumnIndex))
<1>1. DOMAIN atHand \subseteq Nat
  BY GridShape
<1>2. \A i \in DOMAIN atHand : K(i) \in Int
  BY CellsRank
<1>3. \A i, j \in DOMAIN atHand :
         Before(i, j) <=>
            IF sortColumnIndex = NoColumn THEN i < j
            ELSE IF E(i) \/ E(j) THEN E(j) /\ (E(i) => i < j)
            ELSE K(i) < K(j) \/ (~(K(j) < K(i)) /\ i < j)
  BY OrderIsRank DEF Before
<1> HIDE DEF E, K
<1>4. \A i \in DOMAIN atHand : ~Before(i, i)
  BY <1>1, <1>2, <1>3
<1>5. ASSUME NEW i \in DOMAIN atHand, NEW j \in DOMAIN atHand, i # j PROVE Before(i, j) \/ Before(j, i)
  BY <1>1, <1>2, <1>3, <1>5
<1>6. ASSUME NEW i \in DOMAIN atHand, NEW j \in DOMAIN atHand, NEW k \in DOMAIN atHand,
             Before(i, j), Before(j, k)
      PROVE  Before(i, k)
  <2>1. i \in Nat /\ j \in Nat /\ k \in Nat /\ K(i) \in Int /\ K(j) \in Int /\ K(k) \in Int
    BY <1>1, <1>2
  <2>2. CASE sortColumnIndex = NoColumn
    BY <1>3, <1>6, <2>1, <2>2
  <2>3. CASE sortColumnIndex # NoColumn /\ E(k)
    BY <1>3, <1>6, <2>1, <2>3
  <2>4. CASE sortColumnIndex # NoColumn /\ ~E(k)
    BY <1>3, <1>6, <2>1, <2>4
  <2> QED BY <2>2, <2>3, <2>4
<1> QED BY <1>4, <1>5, <1>6

\* The table has the rows that are kept, each at its place.
LEMMA RowsHaveTheirPlaces ==
    ASSUME TableTypeOK
    PROVE  /\ IsFiniteSet(Kept) /\ Kept \subseteq DOMAIN atHand
           /\ DOMAIN TableRows = 1..Cardinality(Kept)
           /\ \A k \in DOMAIN TableRows : TableRows[k] \in Kept /\ Place(TableRows[k], Kept) = k
           /\ \A i \in Kept : Place(i, Kept) \in DOMAIN TableRows /\ TableRows[Place(i, Kept)] = i
           /\ \A i, j \in Kept : Before(i, j) => Place(i, Kept) < Place(j, Kept)
<1> DEFINE S == Kept
           R == {p \in S \X S : Before(p[1], p[2])}
<1>1. S \subseteq DOMAIN atHand
  BY DEF Kept
<1>2. IsFiniteSet(DOMAIN atHand) /\ DOMAIN atHand \subseteq Nat
  BY GridShape
<1>3. IsFiniteSet(S)
  BY <1>1, <1>2, FS_Subset
<1>4. \A i, j \in S : <<i, j>> \in R <=> Before(i, j)
  <2> HIDE DEF S
  <2> QED OBVIOUS
<1>5. /\ \A i \in S : PlaceIn(i, S, R) \in 1..Cardinality(S)
      /\ \A i, j \in S : <<i, j>> \in R => PlaceIn(i, S, R) < PlaceIn(j, S, R)
      /\ \A k \in 1..Cardinality(S) : \E i \in S : PlaceIn(i, S, R) = k
  <2> HIDE DEF R, S
  <2>1. \A i \in S : <<i, i>> \notin R
    BY <1>1, <1>4, BeforeIsAnOrder
  <2>2. \A i, j, k \in S : <<i, j>> \in R /\ <<j, k>> \in R => <<i, k>> \in R
    BY <1>1, <1>4, BeforeIsAnOrder
  <2>3. \A i, j \in S : i # j => <<i, j>> \in R \/ <<j, i>> \in R
    BY <1>1, <1>4, BeforeIsAnOrder
  <2> QED BY <1>3, <2>1, <2>2, <2>3, PlacesCount
<1>6. ASSUME NEW i \in S PROVE PlaceIn(i, S, R) = Place(i, S)
  <2> HIDE DEF R, S
  <2>1. {j \in S : <<j, i>> \in R} = {j \in S : Before(j, i)}
    BY <1>4
  <2> QED BY <2>1 DEF Place, PlaceIn
<1>7. Cardinality(S) \in Nat
  BY <1>3, FS_CardinalityType
<1>8. \A i, j \in S : Place(i, S) = Place(j, S) => i = j
  <2> SUFFICES ASSUME NEW i \in S, NEW j \in S, Place(i, S) = Place(j, S), i # j PROVE FALSE
    OBVIOUS
  <2>1. <<i, j>> \in R \/ <<j, i>> \in R
    <3> HIDE DEF R, S
    <3> QED BY <1>1, <1>4, BeforeIsAnOrder
  <2>2. Place(i, S) \in Nat /\ Place(j, S) \in Nat
    <3> HIDE DEF R, S
    <3> QED BY <1>5, <1>6, <1>7
  <2> HIDE DEF R, S
  <2> QED BY <1>5, <1>6, <2>1, <2>2
<1>9. TableRows = [k \in 1..Cardinality(S) |-> CHOOSE i \in S : Place(i, S) = k]
  BY DEF TableRows
<1> HIDE DEF R, S
<1>10. \A k \in 1..Cardinality(S) : TableRows[k] \in S /\ Place(TableRows[k], S) = k
  <2> SUFFICES ASSUME NEW k \in 1..Cardinality(S) PROVE TableRows[k] \in S /\ Place(TableRows[k], S) = k
    OBVIOUS
  <2>1. \E i \in S : Place(i, S) = k
    BY <1>5, <1>6
  <2>2. TableRows[k] = CHOOSE i \in S : Place(i, S) = k
    BY <1>9
  <2> QED BY <2>1, <2>2
<1>11. \A i \in S : Place(i, S) \in 1..Cardinality(S) /\ TableRows[Place(i, S)] = i
  <2> SUFFICES ASSUME NEW i \in S PROVE Place(i, S) \in 1..Cardinality(S) /\ TableRows[Place(i, S)] = i
    OBVIOUS
  <2>1. Place(i, S) \in 1..Cardinality(S)
    BY <1>5, <1>6
  <2> QED BY <1>6, <1>8, <1>10, <2>1
<1>12. DOMAIN TableRows = 1..Cardinality(S)
  BY <1>9
<1>13. \A i, j \in S : Before(i, j) => Place(i, S) < Place(j, S)
  BY <1>4, <1>5, <1>6
<1> QED BY <1>1, <1>3, <1>10, <1>11, <1>12, <1>13 DEF S

LEMMA MatchesAreShown ==
    ASSUME TableTypeOK PROVE EveryMatchOnce
<1> DEFINE rows == TableRows
           cell(k) == CellAt(rows[k], sortColumnIndex)
<1>1. {rows[k] : k \in DOMAIN rows} = Kept
  BY RowsHaveTheirPlaces
<1>2. ASSUME NEW k \in DOMAIN rows, NEW l \in DOMAIN rows, k < l
      PROVE  /\ rows[k] # rows[l]
             /\ IF sortColumnIndex = NoColumn THEN rows[k] < rows[l]
                ELSE IF IsEmptyCell(cell(k)) \/ IsEmptyCell(cell(l))
                THEN IsEmptyCell(cell(l)) /\ (IsEmptyCell(cell(k)) => rows[k] < rows[l])
                ELSE /\ ~InOrder(cell(l), cell(k))
                     /\ ~InOrder(cell(k), cell(l)) => rows[k] < rows[l]
  <2>1. /\ rows[k] \in Kept /\ rows[l] \in Kept
        /\ Place(rows[k], Kept) = k /\ Place(rows[l], Kept) = l
        /\ Kept \subseteq DOMAIN atHand
    BY RowsHaveTheirPlaces
  <2>2. k \in Nat /\ l \in Nat
    <3>1. DOMAIN rows = 1..Cardinality(Kept) /\ Cardinality(Kept) \in Nat
      BY RowsHaveTheirPlaces, FS_CardinalityType
    <3> QED BY <3>1
  <2>3. rows[k] # rows[l]
    BY <1>2, <2>1, <2>2
  <2>4. ~Before(rows[l], rows[k])
    <3> SUFFICES ASSUME Before(rows[l], rows[k]) PROVE FALSE
      OBVIOUS
    <3>1. Place(rows[l], Kept) < Place(rows[k], Kept)
      BY <2>1, RowsHaveTheirPlaces
    <3> QED BY <1>2, <2>1, <2>2, <3>1
  <2>5. Before(rows[k], rows[l])
    BY <2>1, <2>3, <2>4, BeforeIsAnOrder
  <2>6. ~(InOrder(cell(k), cell(l)) /\ InOrder(cell(l), cell(k)))
    <3>1. InOrder(cell(k), cell(l)) <=> Ranked(cell(k)) < Ranked(cell(l))
      BY <2>1, OrderIsRank
    <3>2. InOrder(cell(l), cell(k)) <=> Ranked(cell(l)) < Ranked(cell(k))
      BY <2>1, OrderIsRank
    <3>3. Ranked(cell(k)) \in Int /\ Ranked(cell(l)) \in Int
      BY <2>1, CellsRank
    <3> HIDE DEF cell
    <3> QED BY <3>1, <3>2, <3>3
  <2>7. IF sortColumnIndex = NoColumn THEN rows[k] < rows[l]
        ELSE IF IsEmptyCell(cell(k)) \/ IsEmptyCell(cell(l))
        THEN IsEmptyCell(cell(l)) /\ (IsEmptyCell(cell(k)) => rows[k] < rows[l])
        ELSE InOrder(cell(k), cell(l)) \/ (~InOrder(cell(l), cell(k)) /\ rows[k] < rows[l])
    <3> HIDE DEF rows
    <3> QED BY <2>5 DEF Before
  <2> HIDE DEF cell, rows
  <2> QED BY <2>3, <2>6, <2>7
<1> QED BY <1>1, <1>2 DEF EveryMatchOnce

\* What the reset brings back, it brings back whole.
LEMMA TheWayRowsCame ==
    ASSUME TableTypeOK PROVE ResetIsOffered
<1> SUFFICES ASSUME ~IsViewDirty
             PROVE  /\ TableRows = [k \in DOMAIN atHand |-> k]
                    /\ \A k \in DOMAIN atHand : RowHeight(k) = DefaultRowHeight /\ RowNumber(k) = k
                    /\ \A c \in TableColumns : ColumnWidth(c) = DefaultColumnWidth
  BY DEF ResetIsOffered
<1> DEFINE D == DOMAIN atHand
           n == Len(atHand)
<1>1. n \in Nat /\ D = 1..n /\ IsFiniteSet(D) /\ Cardinality(D) = n
  BY GridShape
<1>2. /\ Trimmed[globalQuery] = "" /\ sortColumnIndex = NoColumn /\ settings = {}
      /\ DOMAIN columnWidths = {} /\ DOMAIN rowHeights = {} /\ baseRowHeight = DefaultRowHeight
  BY DEF IsViewDirty
<1>3. Kept = D
  <2>1. \A i \in D : Matching(i)
    BY <1>2, TableViewAssumption DEF Matching, Comparable
  <2> QED BY <1>2, <2>1 DEF Kept
<1>4. ASSUME NEW i \in D PROVE Place(i, D) = i
  <2>1. i \in 1..n /\ i - 1 \in Int
    BY <1>1
  <2>2. {j \in D : Before(j, i)} = 1..(i - 1)
    <3>1. {j \in D : Before(j, i)} = {j \in D : j < i}
      BY <1>2 DEF Before
    <3> HIDE DEF D, n
    <3> QED BY <1>1, <2>1, <3>1
  <2>3. Cardinality(1..(i - 1)) = i - 1
    <3> HIDE DEF D, n
    <3> QED BY <2>1, FS_Interval
  <2> HIDE DEF D, n
  <2>4. i \in Nat
    BY <1>1, <2>1
  <2>5. Place(i, D) = Cardinality({j \in D : Before(j, i)}) + 1
    BY DEF Place
  <2>6. Place(i, D) = (i - 1) + 1
    BY <2>2, <2>3, <2>5
  <2> QED BY <2>4, <2>6
<1>5. DOMAIN TableRows = D /\ \A k \in D : TableRows[k] = k
  BY <1>1, <1>3, <1>4, RowsHaveTheirPlaces
<1>6. TableRows = [k \in D |-> k]
  <2>1. TableRows = [k \in DOMAIN TableRows |-> TableRows[k]]
    BY DEF TableRows
  <2> HIDE DEF D
  <2> QED BY <1>5, <2>1
<1>7. \A k \in D : RowHeight(k) = DefaultRowHeight /\ RowNumber(k) = k
  BY <1>2 DEF RowHeight, RowNumber
<1>8. \A c \in TableColumns : ColumnWidth(c) = DefaultColumnWidth
  BY <1>2 DEF ColumnWidth
<1> QED BY <1>6, <1>7, <1>8

LEMMA CountsAgree ==
    ASSUME TableTypeOK PROVE StatisticsAgree
<1> DEFINE D == DOMAIN atHand
           n == Len(atHand)
<1>1. n \in Nat /\ D = 1..n /\ IsFiniteSet(D) /\ Cardinality(D) = n
  BY GridShape
<1>2. ASSUME "hideEmptyRows" \in settings, Trimmed[globalQuery] = ""
      PROVE  Len(TableRows) = n - EmptyRows
  <2> DEFINE T == {i \in D : \A c \in TableColumns : IsEmptyCell(CellAt(i, c))}
  <2>1. \A i \in D : Matching(i)
    BY <1>2, TableViewAssumption DEF Matching, Comparable
  <2>2. Kept = D \ T
    BY <1>2, <2>1 DEF Kept
  <2>3. T \subseteq D /\ D \cap T = T
    OBVIOUS
  <2>4. Cardinality(Kept) = n - Cardinality(T)
    <3> HIDE DEF D, T, n
    <3>1. Cardinality(D \ T) = Cardinality(D) - Cardinality(D \cap T)
      BY <1>1, FS_Difference
    <3> QED BY <1>1, <2>2, <2>3, <3>1
  <2>5. Cardinality(Kept) \in Nat /\ DOMAIN TableRows = 1..Cardinality(Kept)
    BY RowsHaveTheirPlaces, FS_CardinalityType
  <2>6. TableRows \in [1..Cardinality(Kept) -> Kept]
    <3>1. \A k \in 1..Cardinality(Kept) : TableRows[k] \in Kept
      BY <2>5, RowsHaveTheirPlaces
    <3>2. TableRows = [k \in DOMAIN TableRows |-> TableRows[k]]
      BY DEF TableRows
    <3> QED BY <2>5, <3>1, <3>2
  <2>7. TableRows \in Seq(Kept)
    BY <2>5, <2>6, SeqDef
  <2>8. Len(TableRows) = Cardinality(Kept)
    <3>1. Len(TableRows) \in Nat /\ DOMAIN TableRows = 1..Len(TableRows)
      BY <2>7, LenProperties
    <3> QED BY <2>5, <3>1
  <2>9. EmptyRows = Cardinality(T)
    BY DEF EmptyRows
  <2> HIDE DEF n, T
  <2> QED BY <2>4, <2>8, <2>9
<1>3. ASSUME NEW c \in TableColumns
      PROVE  InferredType(c) = "empty" <=> EmptyCells(c) = n
  <2> DEFINE found == {CellAt(i, c).kind : i \in D} \ {"empty"}
             T == {i \in D : IsEmptyCell(CellAt(i, c))}
  <2>1. InferredType(c) = "empty" <=> found = {}
    <3>1. ASSUME found # {}, \E kind \in found : found = {kind}
          PROVE  (CHOOSE kind \in found : TRUE) # "empty"
      <4>1. (CHOOSE kind \in found : TRUE) \in found
        BY <3>1
      <4> QED BY <4>1
    <3>2. InferredType(c) = IF found = {} THEN "empty"
             ELSE IF \E kind \in found : found = {kind} THEN CHOOSE kind \in found : TRUE ELSE "mixed"
      BY DEF InferredType
    <3> HIDE DEF found
    <3> QED BY <3>1, <3>2
  <2>2. found = {} <=> T = D
    BY DEF IsEmptyCell
  <2>3. T = D <=> Cardinality(T) = n
    <3>1. T \in SUBSET D
      OBVIOUS
    <3> HIDE DEF T, D, n
    <3> QED BY <1>1, <3>1, FS_Subset
  <2>4. EmptyCells(c) = Cardinality(T)
    BY DEF EmptyCells
  <2> HIDE DEF T, D, n, found
  <2> QED BY <2>1, <2>2, <2>3, <2>4
<1>4. DuplicateRows = 0 <=>
          \A i, j \in D : i < j => \E c \in TableColumns : CellAt(i, c) # CellAt(j, c)
  <2> DEFINE f == [i \in D |-> [c \in TableColumns |-> CellAt(i, c)]]
             T == {f[i] : i \in D}
  <2>1. f \in Surjection(D, T)
    BY DEF Surjection
  <2>2. IsFiniteSet(T) /\ (Cardinality(T) = n <=> f \in Injection(D, T)) /\ Cardinality(T) \in Nat
    <3> HIDE DEF f, T, n, D
    <3> QED BY <1>1, <2>1, FS_Surjection, FS_CardinalityType
  <2>3. f \in Injection(D, T) <=> \A i, j \in D : f[i] = f[j] => i = j
    BY <2>1 DEF Injection, IsInjective, Surjection
  <2>4. \A i, j \in D : f[i] = f[j] <=> \A c \in TableColumns : CellAt(i, c) = CellAt(j, c)
    OBVIOUS
  <2>5. DuplicateRows = n - Cardinality(T)
    <3>1. T = {[c \in TableColumns |-> CellAt(i, c)] : i \in D}
      OBVIOUS
    <3> QED BY <3>1 DEF DuplicateRows
  <2> HIDE DEF f, T, n, D
  <2>6. DuplicateRows = 0 <=> \A i, j \in D : f[i] = f[j] => i = j
    BY <1>1, <2>2, <2>3, <2>5
  <2>7. (\A i, j \in D : f[i] = f[j] => i = j) <=> \A i, j \in D : i < j => f[i] # f[j]
    <3>1. \A i, j \in D : i # j => i < j \/ j < i
      BY <1>1
    <3>2. \A i, j \in D : ~(i < i) /\ (i < j => i # j)
      BY <1>1
    <3> QED BY <3>1, <3>2
  <2> QED BY <2>4, <2>6, <2>7
<1> QED BY <1>2, <1>3, <1>4 DEF StatisticsAgree

\* What a gesture remembers is in step with what is rendered, and a size that is
\* being changed is a number.
TableIInv == TableTypeOK /\ OneGesture /\ resizeState.startSize \in Int

\* The assumption on the constants, as the steps below need it.
LEMMA TableConstants ==
    /\ "" \in Texts /\ 0 \in TabIndices
    /\ Inks \subseteq Nat /\ Shifts \subseteq Int /\ Pointers \subseteq Nat
<1>1. "" \in Texts
  BY TableViewAssumption
<1>2. 0 \in TabIndices
  BY TableViewAssumption
<1>3. Inks \subseteq Nat
  BY TableViewAssumption
<1>4. Shifts \subseteq Int
  BY TableViewAssumption
<1>5. Pointers \subseteq Nat
  BY TableViewAssumption
<1> QED BY <1>1, <1>2, <1>3, <1>4, <1>5

LEMMA TableInitInv == TableInit => TableIInv
<1>1. SUFFICES ASSUME TableInit PROVE TableIInv
  OBVIOUS
<1>2. TableTypeOK
  <2>1. /\ opened \in BOOLEAN /\ sheetTab \in TabIndices /\ atHand \in Grids
        /\ globalQuery \in Texts /\ sortColumnIndex \in Nat /\ sortDirection \in {"asc", "desc"}
    BY <1>1, TableConstants DEF TableInit, NoColumn
  <2>2. settings \subseteq Switches /\ menus \subseteq {"stats", "decimal"}
    BY <1>1 DEF TableInit
  <2>3. decimalPlaces \in NoDecimals..10
    <3>1. NoDecimals \in NoDecimals..10
      BY DEF NoDecimals
    <3> QED BY <1>1, <3>1 DEF TableInit
  <2>4. DOMAIN columnWidths = {} /\ DOMAIN rowHeights = {}
    BY <1>1 DEF TableInit, NoSizes
  <2>5. rowDensity = "comfortable" /\ baseRowHeight = DefaultRowHeight
    BY <1>1 DEF TableInit
  <2> QED BY <2>1, <2>2, <2>3, <2>4, <2>5 DEF TableTypeOK
<1>3. OneGesture /\ resizeState.startSize \in Int
  <2>1. resizeState = NoHold /\ isResizing = FALSE /\ isPanningTable = FALSE /\ panPointer = NoPointer
    BY <1>1 DEF TableInit
  <2>2. NoHold.startSize = 0
    BY DEF NoHold
  <2> QED BY <2>1, <2>2 DEF OneGesture
<1> QED BY <1>2, <1>3 DEF TableIInv

\* Sizes stay between their limits.
LEMMA Clamped ==
    ASSUME NEW v \in Int, NEW min \in Nat, NEW max \in Nat, min <= max
    PROVE  Clamp(v, min, max) \in min..max
BY DEF Clamp

LEMMA SizedStays ==
    ASSUME NEW f, NEW k, NEW size, NEW S, size \in S, \A x \in DOMAIN f : f[x] \in S
    PROVE  \A x \in DOMAIN Sized(f, k, size) : Sized(f, k, size)[x] \in S
BY DEF Sized

\* The part of the type that a step may disturb.
Typed ==
    /\ opened \in BOOLEAN /\ sheetTab \in TabIndices /\ atHand \in Grids
    /\ globalQuery \in Texts /\ sortColumnIndex \in Nat /\ sortDirection \in {"asc", "desc"}
Sizes ==
    /\ \A c \in DOMAIN columnWidths : columnWidths[c] \in MinColumnWidth..MaxColumnWidth
    /\ \A k \in DOMAIN rowHeights : rowHeights[k] \in MinRowHeight..MaxRowHeight
    /\ <<rowDensity, baseRowHeight>> \in
          {<<"comfortable", DefaultRowHeight>>, <<"compact", CompactRowHeight>>}
Set ==
    /\ settings \subseteq Switches /\ menus \subseteq {"stats", "decimal"}
    /\ decimalPlaces \in NoDecimals..10
Held == OneGesture /\ resizeState.startSize \in Int

LEMMA TableStep == TableIInv /\ [TableNext]_tableVars => TableIInv'
<1>1. SUFFICES ASSUME TableIInv, [TableNext]_tableVars PROVE TableIInv'
  OBVIOUS
<1>2. Typed /\ Sizes /\ Set /\ Held
  BY <1>1 DEF TableIInv, TableTypeOK, Typed, Sizes, Set, Held
<1>3. Typed' /\ Sizes' /\ Set' /\ Held' => TableIInv'
  BY DEF TableIInv, TableTypeOK, Typed, Sizes, Set, Held
<1>4. UNCHANGED <<opened, sheetTab, atHand, rowsShown>> => Typed'
  BY <1>2 DEF Typed, rowsShown
<1>5. UNCHANGED sizes => Sizes'
  BY <1>2 DEF Sizes, sizes
<1>6. UNCHANGED <<settings, menus, decimalPlaces>> => Set'
  BY <1>2 DEF Set
<1>7. UNCHANGED gestures => Held'
  BY <1>2 DEF Held, OneGesture, gestures
<1>8. ResetOfTab => Held'
  <2>1. NoHold.startSize = 0
    BY DEF NoHold
  <2>2. SUFFICES ASSUME ResetOfTab PROVE Held'
    OBVIOUS
  <2>3. /\ resizeState' = NoHold /\ isResizing' = FALSE
        /\ isPanningTable' = isPanningTable /\ panPointer' = panPointer
    BY <2>2 DEF ResetOfTab
  <2>4. isPanningTable <=> panPointer # NoPointer
    BY <1>2 DEF Held, OneGesture
  <2>5. isPanningTable' <=> panPointer' # NoPointer
    BY <2>3, <2>4
  <2>6. resizeState'.startSize \in Int
    BY <2>1, <2>3
  <2>7. isResizing' <=> resizeState' # NoHold
    BY <2>3
  <2> QED BY <2>3, <2>5, <2>6, <2>7 DEF Held, OneGesture
<1>9. ASSUME NEW s \in TabIndices, ChooseSheetTab(s) PROVE TableIInv'
  <2>1. Typed'
    BY <1>2, <1>9, TableConstants DEF ChooseSheetTab, OnTable, ResetOfTab, Typed, NoColumn
  <2>2. Set'
    BY <1>2, <1>9 DEF ChooseSheetTab, ResetOfTab, Set
  <2> QED BY <1>3, <1>5, <1>8, <1>9, <2>1, <2>2 DEF ChooseSheetTab
<1>10. CASE WorkbookComes
  <2>1. Typed'
    <3>1. /\ opened' \in BOOLEAN /\ sheetTab' \in TabIndices /\ atHand' \in Grids
      BY <1>10, TableConstants DEF WorkbookComes
    <3>2. globalQuery' \in Texts /\ sortColumnIndex' \in Nat /\ sortDirection' \in {"asc", "desc"}
      <4>1. CASE sheetTab # 0
        <5>1. globalQuery' = "" /\ sortColumnIndex' = NoColumn /\ sortDirection' = "desc"
          BY <1>10, <4>1 DEF WorkbookComes, ResetOfTab
        <5>2. NoColumn \in Nat
          BY DEF NoColumn
        <5> QED BY <5>1, <5>2, TableConstants
      <4>2. CASE sheetTab = 0
        BY <1>2, <1>10, <4>2 DEF WorkbookComes, Typed, rowsShown
      <4> QED BY <4>1, <4>2
    <3> QED BY <3>1, <3>2 DEF Typed
  <2>2. Set'
    BY <1>2, <1>10 DEF WorkbookComes, ResetOfTab, Set
  <2> QED BY <1>3, <1>5, <1>7, <1>8, <1>10, <2>1, <2>2 DEF WorkbookComes
<1>11. CASE WorkbookFails \/ RowsCome
  <2>1. Typed'
    BY <1>2, <1>11 DEF WorkbookFails, RowsCome, Typed, rowsShown
  <2> QED BY <1>3, <1>5, <1>6, <1>7, <1>11, <2>1 DEF WorkbookFails, RowsCome
<1>12. ASSUME NEW q \in Texts, QuickSearch(q) PROVE TableIInv'
  <2>1. Typed'
    BY <1>2, <1>12 DEF QuickSearch, Typed
  <2> QED BY <1>3, <1>5, <1>6, <1>7, <1>12, <2>1 DEF QuickSearch
<1>13. ASSUME NEW c \in Nat, NEW d \in {"asc", "desc"}, SortedBy(c, d) PROVE TableIInv'
  <2>1. Typed'
    BY <1>2, <1>13 DEF SortedBy, Typed
  <2> QED BY <1>3, <1>5, <1>6, <1>7, <1>13, <2>1 DEF SortedBy
<1>14. CASE ClearSorting \/ \E c \in TableColumns : ToggleSort(c)
  <2>1. CASE ClearSorting
    BY <1>13, <2>1 DEF ClearSorting, NoColumn
  <2>2. ASSUME NEW c \in TableColumns, ToggleSort(c) PROVE TableIInv'
    <3>1. c \in Nat
      BY <1>1, GridShape DEF TableIInv
    <3>2. SortedBy(c, "desc") \/ SortedBy(c, "asc") \/ SortedBy(NoColumn, "desc")
      BY <2>2 DEF ToggleSort
    <3>3. NoColumn \in Nat
      BY DEF NoColumn
    <3> QED BY <1>13, <3>1, <3>2, <3>3
  <2> QED BY <1>14, <2>1, <2>2
<1>15. ASSUME NEW o \in Switches, Switch(o) PROVE TableIInv'
  <2>1. Set'
    BY <1>2, <1>15 DEF Switch, Set
  <2> QED BY <1>3, <1>4, <1>5, <1>7, <1>15, <2>1 DEF Switch
<1>16. CASE \/ ToggleCaseSensitiveSearch \/ ToggleHideEmptyRows \/ ToggleHighlightEmptyCells
            \/ ToggleZebraRows \/ ToggleStickyHeader \/ ToggleRowNumbers \/ ToggleFullWidthPreview
  BY <1>15, <1>16 DEF ToggleCaseSensitiveSearch, ToggleHideEmptyRows, ToggleHighlightEmptyCells,
     ToggleZebraRows, ToggleStickyHeader, ToggleRowNumbers, ToggleFullWidthPreview, Switches
<1>17. ASSUME NEW open, MenuIs(open), open \subseteq {"stats", "decimal"}, decimalPlaces' \in NoDecimals..10
       PROVE  TableIInv'
  <2>1. Set'
    BY <1>2, <1>17 DEF MenuIs, Set
  <2> QED BY <1>3, <1>4, <1>5, <1>7, <1>17, <2>1 DEF MenuIs
<1>18. CASE \/ \E m \in {"stats", "decimal"} : ToggleMenu(m)
            \/ PointerDownOutside \/ ChangeDecimals \/ NoMoreDecimals
  <2>1. menus \subseteq {"stats", "decimal"} /\ decimalPlaces \in NoDecimals..10
    BY <1>2 DEF Set
  <2>2. ASSUME NEW m \in {"stats", "decimal"}, ToggleMenu(m) PROVE TableIInv'
    <3>1. PICK open : MenuIs(open) /\ open \subseteq {"stats", "decimal"} /\ UNCHANGED decimalPlaces
      BY <2>1, <2>2 DEF ToggleMenu
    <3> QED BY <1>17, <2>1, <3>1
  <2>3. CASE PointerDownOutside
    <3>1. PICK open : MenuIs(open) /\ open \subseteq {"stats", "decimal"} /\ UNCHANGED decimalPlaces
      BY <2>1, <2>3 DEF PointerDownOutside
    <3> QED BY <1>17, <2>1, <3>1
  <2>4. CASE ChangeDecimals
    <3>1. decimalPlaces' \in NoDecimals..10
      BY <2>1, <2>4 DEF ChangeDecimals, NoDecimals
    <3>2. MenuIs(menus)
      BY <2>4 DEF ChangeDecimals
    <3> QED BY <1>17, <2>1, <3>1, <3>2
  <2>5. CASE NoMoreDecimals
    <3>1. PICK open : MenuIs(open) /\ open \subseteq {"stats", "decimal"} /\ decimalPlaces' = NoDecimals
      BY <2>1, <2>5 DEF NoMoreDecimals
    <3>2. decimalPlaces' \in NoDecimals..10
      BY <3>1 DEF NoDecimals
    <3> QED BY <1>17, <3>1, <3>2
  <2> QED BY <1>18, <2>2, <2>3, <2>4, <2>5
<1>19. ASSUME NEW v \in Int
       PROVE  /\ Clamp(v, MinColumnWidth, MaxColumnWidth) \in MinColumnWidth..MaxColumnWidth
              /\ Clamp(v, MinRowHeight, MaxRowHeight) \in MinRowHeight..MaxRowHeight
  <2>1. /\ MinColumnWidth \in Nat /\ MaxColumnWidth \in Nat /\ MinColumnWidth <= MaxColumnWidth
        /\ MinRowHeight \in Nat /\ MaxRowHeight \in Nat /\ MinRowHeight <= MaxRowHeight
    BY DEF MinColumnWidth, MaxColumnWidth, MinRowHeight, MaxRowHeight
  <2>2. Clamp(v, MinColumnWidth, MaxColumnWidth) \in MinColumnWidth..MaxColumnWidth
    BY <2>1, Clamped
  <2>3. Clamp(v, MinRowHeight, MaxRowHeight) \in MinRowHeight..MaxRowHeight
    BY <2>1, Clamped
  <2> QED BY <2>2, <2>3
<1>20. ASSUME NEW ink \in Inks, NEW c, AutofitColumnWidth(c, ink) PROVE TableIInv'
  <2>1. Clamp(ink + 28, MinColumnWidth, MaxColumnWidth) \in MinColumnWidth..MaxColumnWidth
    <3>1. ink + 28 \in Int
      <4>1. ink \in Nat
        BY TableConstants
      <4> QED BY <4>1
    <3> QED BY <1>19, <3>1
  <2>2. Sizes'
    <3>1. \A x \in DOMAIN columnWidths' : columnWidths'[x] \in MinColumnWidth..MaxColumnWidth
      BY <1>2, <1>20, <2>1, SizedStays DEF AutofitColumnWidth, Sizes
    <3> QED BY <1>2, <1>20, <3>1 DEF AutofitColumnWidth, Sizes
  <2> QED BY <1>3, <1>4, <1>6, <1>7, <1>20, <2>2 DEF AutofitColumnWidth
<1>21. ASSUME NEW ink \in Inks, ToggleColumnWidthMode(ink) PROVE TableIInv'
  <2>1. /\ Clamp(ink + 28, MinColumnWidth, MaxColumnWidth) \in MinColumnWidth..MaxColumnWidth
        /\ DefaultColumnWidth \in MinColumnWidth..MaxColumnWidth
    <3>1. ink + 28 \in Int
      <4>1. ink \in Nat
        BY TableConstants
      <4> QED BY <4>1
    <3>2. DefaultColumnWidth \in MinColumnWidth..MaxColumnWidth
      BY DEF DefaultColumnWidth, MinColumnWidth, MaxColumnWidth
    <3> QED BY <1>19, <3>1, <3>2
  <2>2. Sizes'
    <3>1. \A x \in DOMAIN columnWidths' : columnWidths'[x] \in MinColumnWidth..MaxColumnWidth
      BY <1>2, <1>21, <2>1 DEF ToggleColumnWidthMode, Sizes
    <3> QED BY <1>2, <1>21, <3>1 DEF ToggleColumnWidthMode, Sizes
  <2> QED BY <1>3, <1>4, <1>6, <1>7, <1>21, <2>2 DEF ToggleColumnWidthMode
<1>22. CASE ToggleRowDensity
  <2>1. Sizes'
    BY <1>2, <1>22 DEF ToggleRowDensity, Sizes
  <2> QED BY <1>3, <1>4, <1>6, <1>7, <1>22, <2>1 DEF ToggleRowDensity
<1>23. ASSUME NEW kind \in {"column", "row"}, NEW k, NEW p \in Pointers, NEW size \in Int, Grab(kind, k, p, size)
       PROVE  TableIInv'
  <2>1. Held'
    <3>1. resizeState' # NoHold /\ resizeState'.pointerId = p /\ resizeState'.startSize = size
      BY <1>23 DEF Grab, NoHold
    <3> QED BY <1>23, <3>1 DEF Grab, StopTablePan, Held, OneGesture
  <2> QED BY <1>3, <1>4, <1>5, <1>6, <1>23, <2>1 DEF Grab
<1>24. ASSUME NEW p \in Pointers, \/ \E c \in TableColumns : StartColumnResize(c, p)
                                  \/ \E k \in DOMAIN TableRows : StartRowResize(k, p)
       PROVE  TableIInv'
  <2>1. /\ \A c : ColumnWidth(c) \in Int
        /\ \A k : RowHeight(k) \in Int
    BY <1>2 DEF Sizes, ColumnWidth, RowHeight, DefaultColumnWidth, DefaultRowHeight, CompactRowHeight,
       MinColumnWidth, MaxColumnWidth, MinRowHeight, MaxRowHeight
  <2> QED BY <1>23, <1>24, <2>1 DEF StartColumnResize, StartRowResize
<1>25. ASSUME NEW p \in Pointers, NEW shift \in Shifts, MoveResize(p, shift) PROVE TableIInv'
  <2>1. resizeState.startSize + shift \in Int
    <3>1. shift \in Int
      BY TableConstants
    <3> QED BY <1>2, <3>1 DEF Held
  <2>2. Sizes'
    <3>1. UNCHANGED <<rowDensity, baseRowHeight>>
      BY <1>25 DEF MoveResize
    <3>2. CASE resizeState.kind = "column"
      BY <1>2, <1>19, <1>25, <2>1, <3>1, <3>2, SizedStays DEF MoveResize, Sizes
    <3>3. CASE resizeState.kind # "column"
      BY <1>2, <1>19, <1>25, <2>1, <3>1, <3>3, SizedStays DEF MoveResize, Sizes
    <3> QED BY <3>2, <3>3
  <2> QED BY <1>3, <1>4, <1>6, <1>7, <1>25, <2>2 DEF MoveResize
<1>26. ASSUME NEW p \in Pointers, EndResize(p) \/ StartTablePan(p) PROVE TableIInv'
  <2>1. NoHold.startSize = 0 /\ p # NoPointer
    <3>1. NoHold.startSize = 0
      BY DEF NoHold
    <3>2. p \in Nat
      BY TableConstants
    <3>3. p # NoPointer
      BY <3>2 DEF NoPointer
    <3> QED BY <3>1, <3>3
  <2>2. CASE EndResize(p)
    <3>1. Held'
      BY <1>2, <2>1, <2>2 DEF EndResize, Held, OneGesture
    <3> QED BY <1>3, <1>4, <1>5, <1>6, <2>2, <3>1 DEF EndResize
  <2>3. CASE StartTablePan(p)
    <3>1. Held'
      BY <1>2, <2>1, <2>3 DEF StartTablePan, Held, OneGesture
    <3> QED BY <1>3, <1>4, <1>5, <1>6, <2>3, <3>1 DEF StartTablePan
  <2> QED BY <1>26, <2>2, <2>3
<1>27. CASE EndTablePan
  <2>1. Held'
    BY <1>2, <1>27 DEF EndTablePan, StopTablePan, Held, OneGesture
  <2> QED BY <1>3, <1>4, <1>5, <1>6, <1>27, <2>1 DEF EndTablePan
<1>28. CASE ResetView
  <2>1. Typed' /\ Sizes' /\ Set'
    <3>1. Typed'
      BY <1>2, <1>28, TableConstants DEF ResetView, Typed, NoColumn
    <3>2. Sizes'
      <4>1. DOMAIN NoSizes = {}
        BY DEF NoSizes
      <4>2. columnWidths' = NoSizes /\ rowHeights' = NoSizes
        BY <1>28 DEF ResetView
      <4>3. rowDensity' = "comfortable" /\ baseRowHeight' = DefaultRowHeight
        BY <1>28 DEF ResetView
      <4> QED BY <4>1, <4>2, <4>3 DEF Sizes
    <3>3. Set'
      <4>1. NoDecimals \in NoDecimals..10
        BY DEF NoDecimals
      <4> QED BY <1>2, <1>28, <4>1 DEF ResetView, Set
    <3> QED BY <3>1, <3>2, <3>3
  <2> QED BY <1>3, <1>7, <1>28, <2>1 DEF ResetView
<1>29. CASE UNCHANGED tableVars
  BY <1>3, <1>4, <1>5, <1>6, <1>7, <1>29 DEF tableVars
<1> QED BY <1>1, <1>9, <1>10, <1>11, <1>12, <1>14, <1>16, <1>18, <1>20, <1>21, <1>22, <1>24, <1>25, <1>26,
           <1>27, <1>28, <1>29 DEF TableNext

\* The table shows what its controls say: every row that matches, once and in
\* order; nothing is left changed that the reset does not offer to bring back;
\* the statistics add up, and there is one gesture at a time.
THEOREM TableFollowsItsControls == TableSpec => []TableViewInv
<1>1. TableIInv => TableViewInv
  BY MatchesAreShown, TheWayRowsCame, CountsAgree DEF TableIInv, TableViewInv
<1> QED BY <1>1, TableInitInv, TableStep, PTL DEF TableSpec

-----------------------------------------------------------------------------
(* Every page.                                                             *)

\* No spinner of any page is left on: each has a request in flight that will
\* end it.
THEOREM NoSpinnerIsLeftOn == ClientSpec => []EverySpinnerIsBacked
<1> DEFINE I == ViewerIInv /\ PageIInv /\ ListIInv /\ DashIInv
<1>1. ClientInit => I
  BY ViewerInitInv, PageInitInv, ListInitInv, DashInitInv DEF ClientInit, PartsInit
<1>2. I /\ [ClientNext]_clientVars => I'
  <2>1. [ClientNext]_clientVars =>
            [Next]_vars /\ [PageNext]_pageVars /\ [ListNext]_listVars /\ [DashNext]_dashVars
    BY DEF ClientNext, clientVars
  <2>2. SUFFICES ASSUME I, [ClientNext]_clientVars PROVE I'
    OBVIOUS
  <2>3. ViewerIInv' /\ PageIInv' /\ ListIInv' /\ DashIInv'
    BY <2>1, <2>2, ViewerStep, PageStep, ListStep, DashStep
  <2> QED BY <2>3
<1>3. I => EverySpinnerIsBacked
  <2>1. ListIInv => ListSpinnerIsBacked
    BY DEF ListIInv, Spins, ListSpinnerIsBacked
  <2>2. DashIInv => DashSpinnerIsBacked
    BY DEF DashIInv, Loads, DashSpinnerIsBacked
  <2> QED BY <2>1, <2>2 DEF ViewerIInv, PageIInv, EverySpinnerIsBacked
<1> HIDE DEF I
<1> QED BY <1>1, <1>2, <1>3, PTL DEF ClientSpec

\* What is chosen on a page is in what it shows, and what is listed is what the
\* server lists, on whichever page is open.
THEOREM ChoicesAndRowsAreShown == ClientSpec => []ChoicesInv
<1> DEFINE I == PageIInv /\ ChoiceIInv /\ ListIInv /\ RowsIInv
<1>1. ClientInit => I
  BY PageInitInv, ChoiceInitInv, ListInitInv, RowsInitInv DEF ClientInit, PartsInit
<1>2. I /\ [ClientNext]_clientVars => I'
  <2>1. [ClientNext]_clientVars => [PageNext]_pageVars /\ [ListNext]_listVars
    BY DEF ClientNext, clientVars
  <2>2. SUFFICES ASSUME I, [ClientNext]_clientVars PROVE I'
    OBVIOUS
  <2>3. PageIInv' /\ ChoiceIInv' /\ ListIInv' /\ RowsIInv'
    BY <2>1, <2>2, PageStep, ChoiceStep, ListStep, RowsStep
  <2> QED BY <2>3
<1>3. I => ChoicesInv
  BY RowsShown DEF ChoiceIInv, PageInv, ChoicesInv
<1> HIDE DEF I
<1> QED BY <1>1, <1>2, <1>3, PTL DEF ClientSpec
=============================================================================
