-------------------------- MODULE InspectStoreProofs --------------------------
(***************************************************************************)
(* Proofs about InspectStore for any workbooks, sizes and budgets.  The    *)
(* times of the last uses order the tokens (UsesAreOrdered).  Eviction     *)
(* keeps a set that contains, with an entry, all entries used later; what  *)
(* makes the budgets hold is that a finite set so ordered has an oldest    *)
(* element, found with the well-foundedness of finite sets.                *)
(***************************************************************************)
EXTENDS InspectStore, FiniteSetTheorems, WellFoundedInduction, TLAPS

\* Of two tokens handed out one was used later, and later than that is later.
UsesAreOrdered ==
    /\ IsFiniteSet(uploaded)
    /\ newer = later
    /\ wiped \cap store = {}
    /\ \A t \in uploaded : t \notin later[t]
    /\ \A t, u \in uploaded : t # u => u \in later[t] \/ t \in later[u]
    /\ \A t, u, v \in uploaded : u \in later[t] /\ v \in later[u] => v \in later[t]

IInv == StoreInv /\ UsesAreOrdered

-----------------------------------------------------------------------------
(* The size of a set of workbooks is the sum of their sizes.               *)

BytesOf(S) == UNION {{t} \X (1..Size[t]) : t \in S}

\* The bytes of one workbook.
LEMMA BytesOfOne ==
  ASSUME NEW t \in Tokens
  PROVE  IsFiniteSet({t} \X (1..Size[t])) /\ Cardinality({t} \X (1..Size[t])) = Size[t]
<1>1. Size[t] \in Nat
  BY StoreAssumption
<1>2. IsFiniteSet(1..Size[t]) /\ Cardinality(1..Size[t]) = Size[t]
  BY <1>1, FS_Interval
<1>3. IsFiniteSet({t}) /\ Cardinality({t}) = 1
  BY FS_Singleton
<1>4. /\ IsFiniteSet({t} \X (1..Size[t]))
      /\ Cardinality({t} \X (1..Size[t])) = Cardinality({t}) * Cardinality(1..Size[t])
  BY <1>2, <1>3, FS_Product
<1>5. QED
  BY <1>1, <1>2, <1>3, <1>4

\* Finitely many workbooks have finitely many bytes.
LEMMA BytesOfFinite ==
  ASSUME NEW S \in SUBSET Tokens, IsFiniteSet(S)
  PROVE  IsFiniteSet(BytesOf(S)) /\ Bytes(S) \in Nat /\ Bytes(S) = Cardinality(BytesOf(S))
<1> DEFINE P == {{t} \X (1..Size[t]) : t \in S}
           f == [t \in S |-> {t} \X (1..Size[t])]
<1>1. f \in Surjection(S, P)
  <2>1. f \in [S -> P]
    OBVIOUS
  <2>2. \A p \in P : \E t \in S : f[t] = p
    OBVIOUS
  <2>3. QED
    BY <2>1, <2>2 DEF Surjection
<1>2. IsFiniteSet(P)
  BY <1>1, FS_Surjection
<1>3. \A p \in P : IsFiniteSet(p)
  BY BytesOfOne
<1>4. IsFiniteSet(UNION P)
  BY <1>2, <1>3, FS_UNION
<1>5. QED
  BY <1>4, FS_CardinalityType DEF Bytes, BytesOf

\* One more workbook adds its size.
LEMMA BytesAdd ==
  ASSUME NEW S \in SUBSET Tokens, IsFiniteSet(S), NEW t \in Tokens \ S
  PROVE  Bytes(S \cup {t}) = Bytes(S) + Size[t]
<1> DEFINE T == {t} \X (1..Size[t])
<1>1. BytesOf(S \cup {t}) = BytesOf(S) \cup T
  BY DEF BytesOf
<1>2. BytesOf(S) \cap T = {}
  <2> SUFFICES ASSUME NEW b \in BytesOf(S), b \in T PROVE FALSE
    OBVIOUS
  <2>1. PICK u \in S : b \in {u} \X (1..Size[u])
    BY DEF BytesOf
  <2>2. b[1] = u /\ b[1] = t
    BY <2>1
  <2>3. QED
    BY <2>2
<1>3. IsFiniteSet(BytesOf(S)) /\ Cardinality(BytesOf(S)) = Bytes(S) /\ Bytes(S) \in Nat
  BY BytesOfFinite
<1>4. IsFiniteSet(T) /\ Cardinality(T) = Size[t] /\ Size[t] \in Nat
  BY BytesOfOne, StoreAssumption
<1>5. Cardinality(BytesOf(S) \cup T) = Bytes(S) + Size[t] - Cardinality(BytesOf(S) \cap T)
  BY <1>3, <1>4, FS_Union
<1>6. Cardinality(BytesOf(S) \cap T) = 0
  BY <1>2, FS_EmptySet
<1>7. Bytes(S \cup {t}) = Cardinality(BytesOf(S \cup {t}))
  BY DEF Bytes, BytesOf
<1>8. Bytes(S \cup {t}) = Cardinality(BytesOf(S) \cup T)
  BY <1>1, <1>7
<1>9. Cardinality(BytesOf(S) \cup T) = Bytes(S) + Size[t]
  BY <1>3, <1>4, <1>5, <1>6
<1> HIDE DEF T
<1>10. QED
  BY <1>8, <1>9

\* More workbooks have no fewer bytes.
LEMMA BytesMonotonic ==
  ASSUME NEW S \in SUBSET Tokens, IsFiniteSet(S), NEW R \in SUBSET S
  PROVE  Bytes(R) <= Bytes(S) /\ Bytes(R) \in Nat /\ Bytes(S) \in Nat
<1>1. IsFiniteSet(R)
  BY FS_Subset
<1>2. BytesOf(R) \in SUBSET BytesOf(S)
  BY DEF BytesOf
<1>3. Cardinality(BytesOf(R)) <= Cardinality(BytesOf(S))
  BY <1>2, BytesOfFinite, FS_Subset
<1>4. QED
  BY <1>1, <1>3, BytesOfFinite

-----------------------------------------------------------------------------
(* The order of the uses.                                                  *)

\* Among finitely many tokens one was used before all others.
LEMMA OldestExists ==
  ASSUME TypeOK, UsesAreOrdered, NEW S \in SUBSET uploaded, S # {}
  PROVE  \E t \in S : \A u \in S : u # t => u \in later[t]
<1> DEFINE Older(t) == {u \in S : t \in later[u]}
           T == {Older(t) : t \in S}
<1>1. IsFiniteSet(S)
  BY FS_Subset DEF UsesAreOrdered
<1>2. T \subseteq FiniteSubsetsOf(S)
  <2> SUFFICES ASSUME NEW t \in S PROVE Older(t) \in FiniteSubsetsOf(S)
    OBVIOUS
  <2>1. Older(t) \in SUBSET S
    OBVIOUS
  <2>2. QED
    BY <1>1, <2>1, FS_Subset DEF FiniteSubsetsOf
<1>3. T # {}
  OBVIOUS
<1>4. IsWellFoundedOn(StrictSubsetOrdering(S), FiniteSubsetsOf(S))
  BY FS_StrictSubsetOrderingWellFounded
<1>5. \E X \in T : \A Y \in T : ~(<<Y, X>> \in StrictSubsetOrdering(S))
  BY <1>2, <1>3, <1>4, WFMin
<1>6. PICK t \in S : \A u \in S : ~(<<Older(u), Older(t)>> \in StrictSubsetOrdering(S))
  BY <1>5
<1>7. Older(t) = {}
  <2> SUFFICES ASSUME NEW u \in Older(t) PROVE FALSE
    OBVIOUS
  <2>1. Older(u) \subseteq Older(t) /\ u \notin Older(u)
    BY DEF UsesAreOrdered
  <2>2. <<Older(u), Older(t)>> \in StrictSubsetOrdering(S)
    BY <2>1 DEF StrictSubsetOrdering
  <2>3. QED
    BY <1>6, <2>2
<1>8. QED
  BY <1>7 DEF UsesAreOrdered

\* An answered request of t moves it last.
LEMMA UseKeepsOrder ==
  ASSUME TypeOK, UsesAreOrdered, NEW t \in Tokens, NEW S, Use(t, S), S \subseteq store,
         uploaded' = uploaded \cup {t}, wiped' = wiped, t \notin wiped, clock' = clock
  PROVE  UsesAreOrdered' /\ TypeOK'
<1>1. \A u \in Tokens : later'[u] = IF u = t \/ u \notin uploaded THEN {} ELSE later[u] \cup {t}
  BY DEF Use, MovedLast
<1>2. IsFiniteSet(uploaded')
  BY FS_AddElement DEF UsesAreOrdered
<1>3. newer' = later' /\ wiped' \cap store' = {}
  BY DEF Use, UsesAreOrdered
<1>4. uploaded' = uploaded \cup {t} /\ uploaded' \subseteq Tokens /\ \A u \in uploaded : t \in later[u] => t \in uploaded
  BY DEF TypeOK
<1>5. later'[t] = {} /\ \A u \in uploaded \ {t} : later'[u] = later[u] \cup {t}
  BY <1>1, <1>4
<1>6. /\ \A u \in uploaded' : u \notin later'[u]
      /\ \A u, v \in uploaded' : u # v => v \in later'[u] \/ u \in later'[v]
      /\ \A u, v, w \in uploaded' : v \in later'[u] /\ w \in later'[v] => w \in later'[u]
  <2>1. \A u \in uploaded' : u = t \/ (u \in uploaded \ {t} /\ later'[u] = later[u] \cup {t})
    BY <1>4, <1>5
  <2>2. \A u \in uploaded' : u \notin later'[u]
    BY <1>5, <2>1 DEF UsesAreOrdered
  <2>3. \A u, v \in uploaded' : u # v => v \in later'[u] \/ u \in later'[v]
    BY <1>5, <2>1 DEF UsesAreOrdered
  <2>4. \A u, v, w \in uploaded' : v \in later'[u] /\ w \in later'[v] => w \in later'[u]
    <3> SUFFICES ASSUME NEW u \in uploaded', NEW v \in uploaded', NEW w \in uploaded',
                        v \in later'[u], w \in later'[v]
                 PROVE  w \in later'[u]
      OBVIOUS
    <3>1. u \in uploaded \ {t} /\ v \in uploaded \ {t}
      BY <1>5, <2>1
    <3>2. later'[u] = later[u] \cup {t} /\ later'[v] = later[v] \cup {t}
      BY <1>5, <3>1
    <3>3. v \in later[u] /\ (w = t \/ (w \in uploaded /\ w \in later[v]))
      BY <1>4, <3>1, <3>2
    <3>4. QED
      BY <3>1, <3>2, <3>3 DEF UsesAreOrdered
  <2>5. QED
    BY <2>2, <2>3, <2>4
<1>7. UsesAreOrdered'
  BY <1>2, <1>3, <1>6 DEF UsesAreOrdered
<1>8. later' \in [Tokens -> SUBSET uploaded']
  BY <1>1 DEF Use, MovedLast, TypeOK
<1>9. QED
  BY <1>3, <1>7, <1>8, StoreAssumption DEF Use, MovedLast, TypeOK

-----------------------------------------------------------------------------
(* Eviction.                                                               *)

\* What eviction leaves has room for a new entry, or is nothing.
LEMMA EvictionMakesRoom ==
  ASSUME TypeOK, UsesAreOrdered, NEW S \in SUBSET store, NEW n \in Nat
  PROVE  /\ EvictFor(n, S) \subseteq S
         /\ EvictFor(n, S) = {} \/ ~TooFull(EvictFor(n, S), n)
<1> DEFINE W == EvictFor(n, S)
<1>1. W \subseteq S /\ S \subseteq uploaded /\ uploaded \subseteq Tokens
  BY DEF EvictFor, TypeOK
<1>2. ASSUME W # {} PROVE ~TooFull(W, n)
  <2>1. PICK t \in W : \A u \in W : u # t => u \in later[t]
    BY <1>1, <1>2, OldestExists
  <2> DEFINE V == {t} \cup (S \cap later[t])
  <2>2. W \in SUBSET V /\ V \in SUBSET S
    BY <1>1, <2>1
  <2>3. ~TooFull(V, n)
    BY <2>1 DEF EvictFor
  <2>4. IsFiniteSet(V) /\ V \in SUBSET Tokens
    BY <1>1, <2>2, FS_Subset DEF UsesAreOrdered
  <2>5. /\ Cardinality(W) <= Cardinality(V) /\ Cardinality(W) \in Nat /\ Cardinality(V) \in Nat
        /\ Bytes(W) <= Bytes(V) /\ Bytes(W) \in Nat /\ Bytes(V) \in Nat
    BY <2>2, <2>4, BytesMonotonic, FS_Subset, FS_CardinalityType
  <2>6. QED
    BY <2>3, <2>5, StoreAssumption DEF TooFull
<1>3. QED
  BY <1>1, <1>2

\* The budgets after an upload.
LEMMA UploadKeepsBudget ==
  ASSUME IInv, NEW t \in Tokens, StoreWorkbook(t)
  PROVE  WithinBudget'
<1> DEFINE W == EvictFor(Size[t], Unexpired)
<1>1. W \in SUBSET uploaded /\ t \notin W /\ (W = {} \/ ~TooFull(W, Size[t]))
  <2>1. Unexpired \in SUBSET store /\ Size[t] \in Nat
    BY StoreAssumption DEF Unexpired
  <2>2. QED
    BY <2>1, EvictionMakesRoom DEF IInv, StoreInv, TypeOK, StoreWorkbook
<1>2. store' = W \cup {t}
  BY DEF StoreWorkbook, Use
<1>3. IsFiniteSet(W) /\ W \in SUBSET Tokens
  BY <1>1, FS_Subset DEF IInv, StoreInv, TypeOK, UsesAreOrdered
<1>4. Cardinality(store') = Cardinality(W) + 1 /\ Cardinality(W) \in Nat
  BY <1>1, <1>2, <1>3, FS_AddElement, FS_CardinalityType
<1>5. Bytes(store') = Bytes(W) + Size[t] /\ Bytes(W) \in Nat /\ Size[t] \in Nat
  BY <1>1, <1>2, <1>3, BytesAdd, BytesOfFinite, StoreAssumption
<1>6. CASE W = {}
  <2>1. Cardinality(W) = 0
    BY <1>6, FS_EmptySet
  <2>2. QED
    BY <1>4, <2>1, StoreAssumption DEF WithinBudget, Bytes
<1>7. CASE ~TooFull(W, Size[t])
  <2>1. Cardinality(store') <= MaxStore /\ ~(Bytes(store') > MaxBytes)
    BY <1>4, <1>5, <1>7, StoreAssumption DEF TooFull
  <2>2. QED
    BY <2>1 DEF WithinBudget, Bytes
<1>8. QED
  BY <1>1, <1>6, <1>7

\* A smaller store keeps the budgets.
LEMMA FewerKeepBudget ==
  ASSUME IInv, store' \in SUBSET store, store' = store \/ Cardinality(store) # 1 \/ store' = {}
  PROVE  WithinBudget'
<1>1. store \in SUBSET Tokens /\ IsFiniteSet(store)
  BY FS_Subset DEF IInv, StoreInv, TypeOK, UsesAreOrdered
<1>2. /\ Cardinality(store') <= Cardinality(store)
      /\ Cardinality(store') \in Nat /\ Cardinality(store) \in Nat
      /\ Bytes(store') <= Bytes(store) /\ Bytes(store') \in Nat /\ Bytes(store) \in Nat
  BY <1>1, BytesMonotonic, FS_Subset, FS_CardinalityType
<1>3. CASE store' = {}
  <2>1. Bytes({}) = 0
    <3>1. BytesOf({}) = {}
      BY DEF BytesOf
    <3>2. QED
      BY <3>1, FS_EmptySet DEF Bytes, BytesOf
  <2>2. Bytes(store') = 0 /\ Cardinality(store') <= MaxStore
    BY <1>2, <1>3, <2>1, StoreAssumption DEF IInv, StoreInv, WithinBudget
  <2>3. QED
    BY <2>2, StoreAssumption DEF WithinBudget, Bytes
<1>4. CASE store' = store
  BY <1>4 DEF IInv, StoreInv, WithinBudget, Bytes
<1>5. CASE Cardinality(store) # 1
  <2>1. Cardinality(store') <= MaxStore /\ ~(Bytes(store') > MaxBytes)
    BY <1>2, <1>5, StoreAssumption DEF IInv, StoreInv, WithinBudget
  <2>2. QED
    BY <2>1 DEF WithinBudget, Bytes
<1>6. QED
  BY <1>3, <1>4, <1>5

-----------------------------------------------------------------------------
(* What a client may rely on.                                              *)

\* Rivals only grow, and a workbook that could be relied on no more cannot be
\* again, as long as it is not used.
LEMMA MoreRivals ==
  ASSUME TypeOK, UsesAreOrdered, NEW t \in uploaded, NEW u \in Tokens,
         newer'[t] \in SUBSET (newer[t] \cup {u}), newer[t] \subseteq newer'[t]
  PROVE  /\ Cardinality(newer[t] \cup {t}) <= Cardinality(newer'[t] \cup {t})
         /\ Bytes(newer[t] \cup {t}) <= Bytes(newer'[t] \cup {t})
         /\ Cardinality(newer[t] \cup {t}) \in Nat /\ Cardinality(newer'[t] \cup {t}) \in Nat
         /\ Bytes(newer[t] \cup {t}) \in Nat /\ Bytes(newer'[t] \cup {t}) \in Nat
<1>1. newer[t] \cup {t} \in SUBSET uploaded /\ uploaded \subseteq Tokens
  BY DEF TypeOK
<1>2. IsFiniteSet(newer[t] \cup {t})
  BY <1>1, FS_Subset DEF UsesAreOrdered
<1>3. IsFiniteSet((newer[t] \cup {t}) \cup {u})
  BY <1>2, FS_AddElement
<1>4. newer'[t] \cup {t} \in SUBSET ((newer[t] \cup {t}) \cup {u})
  OBVIOUS
<1>5. IsFiniteSet(newer'[t] \cup {t}) /\ newer'[t] \cup {t} \in SUBSET Tokens
  BY <1>1, <1>3, <1>4, FS_Subset
<1>6. newer[t] \cup {t} \in SUBSET (newer'[t] \cup {t})
  OBVIOUS
<1>7. QED
  BY <1>5, <1>6, BytesMonotonic, FS_Subset, FS_CardinalityType

\* A workbook that an upload evicts has no room beside those used since.
LEMMA EvictedHasNoRoom ==
  ASSUME IInv, NEW u \in Tokens, StoreWorkbook(u), NEW t \in store, ~Expired(t),
         t \notin store'
  PROVE  \/ Cardinality(newer'[t] \cup {t}) > MaxStore
         \/ Bytes(newer'[t] \cup {t}) > MaxBytes
<1> USE DEF IInv, StoreInv
<1> DEFINE V == {t} \cup (Unexpired \cap later[t])
           R == newer[t] \cup {t}
<1>1. t \in uploaded /\ t # u /\ u \notin uploaded /\ uploaded \subseteq Tokens
  BY DEF TypeOK, StoreWorkbook
<1>2. newer'[t] \cup {t} = R \cup {u}
  BY <1>1 DEF StoreWorkbook, Use, MovedLast
<1>3. TooFull(V, Size[u])
  BY DEF StoreWorkbook, Use, EvictFor, Unexpired
<1>4. V \in SUBSET R /\ R \in SUBSET uploaded /\ u \notin R
  BY <1>1 DEF UsesAreOrdered, TypeOK
<1>5. IsFiniteSet(R) /\ R \in SUBSET Tokens
  BY <1>1, <1>4, FS_Subset DEF UsesAreOrdered
<1>6. Cardinality(V) <= Cardinality(R) /\ Cardinality(V) \in Nat /\ Cardinality(R) \in Nat
  BY <1>4, <1>5, FS_Subset, FS_CardinalityType
<1>7. Bytes(V) <= Bytes(R) /\ Bytes(V) \in Nat /\ Bytes(R) \in Nat
  BY <1>4, <1>5, BytesMonotonic
<1>8. Cardinality(R \cup {u}) = Cardinality(R) + 1
  <2>1. u \notin R
    BY <1>4
  <2> HIDE DEF R
  <2>2. Cardinality(R \cup {u}) = IF u \in R THEN Cardinality(R) ELSE Cardinality(R) + 1
    BY <1>5, FS_AddElement
  <2>3. QED
    BY <2>1, <2>2
<1>9. Bytes(R \cup {u}) = Bytes(R) + Size[u]
  BY <1>4, <1>5, BytesAdd
<1>10. Cardinality(V) >= MaxStore \/ Bytes(V) + Size[u] > MaxBytes
  BY <1>3 DEF TooFull
<1> HIDE DEF V, R
<1>11. Cardinality(R \cup {u}) > MaxStore \/ Bytes(R \cup {u}) > MaxBytes
  BY <1>6, <1>7, <1>8, <1>9, <1>10, StoreAssumption
<1>12. QED
  BY <1>2, <1>11

\* A token that is answered for moves last; the others may be evicted.
LEMMA UseKeepsPromise ==
  ASSUME IInv, NEW u \in Tokens, NEW S, Use(u, S), S \subseteq store,
         uploaded' = uploaded \cup {u}, wiped' = wiped, clock' = clock, u \in store \/ u \notin uploaded,
         \A t \in store : t \notin store' /\ ~Expired(t) =>
            Cardinality(newer'[t] \cup {t}) > MaxStore \/ Bytes(newer'[t] \cup {t}) > MaxBytes
  PROVE  RecentlyUsedStays'
<1> USE DEF IInv, StoreInv
<1> SUFFICES ASSUME NEW t \in uploaded' \ wiped'
             PROVE  \/ t \in store'
                    \/ Expired(t)'
                    \/ Cardinality(newer'[t] \cup {t}) > MaxStore
                    \/ Bytes(newer'[t] \cup {t}) > MaxBytes
  BY DEF RecentlyUsedStays, Bytes
<1>1. CASE t = u
  BY <1>1 DEF Use
<1>2. CASE t # u
  <2>1. t \in uploaded \ wiped /\ t \in Tokens
    BY <1>2 DEF TypeOK
  <2>2. newer'[t] = newer[t] \cup {u} /\ (Expired(t) => Expired(t)')
    BY <1>2, <2>1 DEF Use, MovedLast, Expired, TypeOK
  <2>3. CASE t \in store
    BY <2>2, <2>3
  <2>4. CASE t \notin store /\ ~Expired(t)
    <3>1. Cardinality(newer[t] \cup {t}) > MaxStore \/ Bytes(newer[t] \cup {t}) > MaxBytes
      BY <2>1, <2>4 DEF RecentlyUsedStays
    <3>2. newer'[t] \in SUBSET (newer[t] \cup {u}) /\ newer[t] \subseteq newer'[t]
      BY <2>2
    <3>3. /\ Cardinality(newer[t] \cup {t}) <= Cardinality(newer'[t] \cup {t})
          /\ Bytes(newer[t] \cup {t}) <= Bytes(newer'[t] \cup {t})
          /\ Cardinality(newer[t] \cup {t}) \in Nat /\ Cardinality(newer'[t] \cup {t}) \in Nat
          /\ Bytes(newer[t] \cup {t}) \in Nat /\ Bytes(newer'[t] \cup {t}) \in Nat
      BY <2>1, <3>2, MoreRivals
    <3>4. MaxStore \in Nat /\ MaxBytes \in Nat
      BY StoreAssumption
    <3>5. QED
      BY <3>1, <3>3, <3>4
  <2>5. QED
    BY <2>2, <2>3, <2>4
<1>3. QED
  BY <1>1, <1>2

\* A step that answers for nobody keeps the promise as long as what leaves has
\* expired, or is wiped.
LEMMA NoUseKeepsPromise ==
  ASSUME IInv, UNCHANGED <<newer, stamp, uploaded>>, clock' \in Nat, clock <= clock',
         wiped \subseteq wiped',
         \A t \in store \ store' : Expired(t) \/ t \in wiped'
  PROVE  RecentlyUsedStays'
<1> USE DEF IInv, StoreInv
<1>1. \A t \in uploaded : Expired(t) => Expired(t)'
  BY StoreAssumption DEF Expired, TypeOK
<1>2. QED
  BY <1>1 DEF RecentlyUsedStays, Bytes

-----------------------------------------------------------------------------

\* Each operation of the store keeps the invariant.
LEMMA InvKept == IInv /\ [Next]_vars => IInv'
<1> SUFFICES ASSUME IInv, [Next]_vars PROVE IInv'
  OBVIOUS
<1> USE StoreAssumption
<1>1. ASSUME NEW t \in Tokens, StoreWorkbook(t) PROVE IInv'
  <2> DEFINE W == EvictFor(Size[t], Unexpired)
  <2>1. Use(t, W) /\ uploaded' = uploaded \cup {t} /\ clock' = clock /\ wiped' = wiped /\ t \notin uploaded
    BY <1>1 DEF StoreWorkbook
  <2>2. W \subseteq store /\ t \notin wiped
    BY <2>1 DEF EvictFor, Unexpired, IInv, StoreInv, TypeOK
  <2>3. TypeOK' /\ UsesAreOrdered'
    BY <2>1, <2>2, UseKeepsOrder DEF IInv, StoreInv
  <2>4. RecentlyUsedStays'
    <3>1. \A u \in store : u \notin store' /\ ~Expired(u) =>
             Cardinality(newer'[u] \cup {u}) > MaxStore \/ Bytes(newer'[u] \cup {u}) > MaxBytes
      BY <1>1, EvictedHasNoRoom
    <3>2. QED
      BY <2>1, <2>2, <3>1, UseKeepsPromise
  <2>5. WithinBudget'
    BY <1>1, UploadKeepsBudget
  <2>6. QED
    BY <2>3, <2>4, <2>5 DEF IInv, StoreInv
<1>2. ASSUME NEW t \in Tokens, LoadWorkbook(t) PROVE IInv'
  <2>1. /\ Use(t, store) /\ uploaded' = uploaded \cup {t} /\ clock' = clock /\ wiped' = wiped
        /\ t \in store /\ store' = store
    BY <1>2 DEF LoadWorkbook, Use, IInv, StoreInv, TypeOK
  <2>2. t \notin wiped
    BY <2>1 DEF IInv, UsesAreOrdered
  <2>3. TypeOK' /\ UsesAreOrdered'
    BY <2>1, <2>2, UseKeepsOrder DEF IInv, StoreInv
  <2>4. RecentlyUsedStays'
    BY <2>1, UseKeepsPromise
  <2>5. WithinBudget'
    BY <2>1, FewerKeepBudget
  <2>6. QED
    BY <2>3, <2>4, <2>5 DEF IInv, StoreInv
<1>3. ASSUME NEW t \in Tokens, LoadExpired(t) PROVE IInv'
  <2>1. /\ store' = store \ {t} /\ t \in store /\ Expired(t)
        /\ UNCHANGED <<later, stamp, clock, uploaded, newer, wiped>>
    BY <1>3 DEF LoadExpired
  <2>2. Cardinality(store) # 1 \/ store' = {}
    <3>1. IsFiniteSet(store)
      BY FS_Subset DEF IInv, StoreInv, TypeOK, UsesAreOrdered
    <3>2. Cardinality(store) = 1 => \E x : store = {x}
      BY <3>1, FS_Singleton
    <3>3. QED
      BY <2>1, <3>2
  <2>3. WithinBudget'
    BY <2>1, <2>2, FewerKeepBudget
  <2>4. RecentlyUsedStays'
    BY <2>1, NoUseKeepsPromise DEF IInv, StoreInv, TypeOK
  <2>5. TypeOK' /\ UsesAreOrdered'
    BY <2>1 DEF IInv, StoreInv, TypeOK, UsesAreOrdered
  <2>6. QED
    BY <2>3, <2>4, <2>5 DEF IInv, StoreInv
<1>4. CASE Restart
  <2>1. store' = {} /\ wiped' = uploaded /\ UNCHANGED <<later, stamp, clock, uploaded, newer>>
    BY <1>4 DEF Restart
  <2>2. WithinBudget'
    BY <2>1, FewerKeepBudget
  <2>3. RecentlyUsedStays'
    BY <2>1 DEF RecentlyUsedStays
  <2>4. TypeOK' /\ UsesAreOrdered'
    BY <2>1 DEF IInv, StoreInv, TypeOK, UsesAreOrdered
  <2>5. QED
    BY <2>2, <2>3, <2>4 DEF IInv, StoreInv
<1>5. CASE Tick
  <2>1. clock' = clock + 1 /\ clock < MaxTime /\ UNCHANGED <<store, later, stamp, uploaded, newer, wiped>>
    BY <1>5 DEF Tick
  <2>2. WithinBudget'
    BY <2>1, FewerKeepBudget
  <2>3. RecentlyUsedStays'
    BY <2>1, NoUseKeepsPromise DEF IInv, StoreInv, TypeOK
  <2>4. TypeOK' /\ UsesAreOrdered'
    BY <2>1 DEF IInv, StoreInv, TypeOK, UsesAreOrdered
  <2>5. QED
    BY <2>2, <2>3, <2>4 DEF IInv, StoreInv
<1>6. CASE UNCHANGED vars
  <2>1. UNCHANGED <<store, later, stamp, clock, uploaded, newer, wiped>>
    BY <1>6 DEF vars
  <2>2. RecentlyUsedStays'
    BY <2>1 DEF RecentlyUsedStays, Bytes, Expired, IInv, StoreInv
  <2>3. WithinBudget'
    BY <2>1, FewerKeepBudget
  <2>4. TypeOK' /\ UsesAreOrdered'
    BY <2>1 DEF IInv, StoreInv, TypeOK, UsesAreOrdered
  <2>5. QED
    BY <2>2, <2>3, <2>4 DEF IInv, StoreInv
<1>7. QED
  BY <1>1, <1>2, <1>3, <1>4, <1>5, <1>6 DEF Next, LoadUnknown

\* At first the store is empty.
LEMMA InvAtFirst == Init => IInv
<1> SUFFICES ASSUME Init PROVE IInv
  OBVIOUS
<1>1. IsFiniteSet({}) /\ Cardinality({}) = 0
  BY FS_EmptySet
<1>2. Bytes({}) = 0
  <2>1. BytesOf({}) = {}
    BY DEF BytesOf
  <2>2. QED
    BY <1>1, <2>1 DEF Bytes, BytesOf
<1>3. WithinBudget
  BY <1>1, <1>2, StoreAssumption DEF Init, WithinBudget
<1>4. TypeOK /\ UsesAreOrdered /\ RecentlyUsedStays
  BY <1>1, StoreAssumption DEF Init, TypeOK, UsesAreOrdered, RecentlyUsedStays
<1>5. QED
  BY <1>3, <1>4 DEF IInv, StoreInv

\* StoreInv: for any workbooks and budgets, whatever the order of uploads, page
\* requests, expiries and restarts, the store stays within both budgets and a
\* recently used workbook leaves it only for want of room.
THEOREM StoreCorrect == Spec => []StoreInv
<1>1. Init => IInv
  BY InvAtFirst
<1>2. IInv /\ [Next]_vars => IInv'
  BY InvKept
<1>3. IInv => StoreInv
  BY DEF IInv
<1>4. QED
  BY <1>1, <1>2, <1>3, PTL DEF Spec

\* DeadStaysDead: a token once refused is refused for ever, also while its
\* expired workbook is still in memory.
THEOREM DeadTokensStayDead == Spec => DeadStaysDead
<1>1. StoreInv /\ [Next]_vars => [\A t \in uploaded : ~Answerable(t) => ~Answerable(t)']_vars
  <2> SUFFICES ASSUME StoreInv, Next, NEW t \in uploaded, ~Answerable(t)
               PROVE  ~Answerable(t)'
    OBVIOUS
  <2>0. t \in Tokens /\ stamp[t] \in Nat /\ clock \in Nat
    BY StoreAssumption DEF StoreInv, TypeOK
  <2>1. ASSUME NEW u \in Tokens, StoreWorkbook(u) PROVE ~Answerable(t)'
    BY <2>0, <2>1 DEF StoreWorkbook, Use, EvictFor, Unexpired, Answerable, Expired, StoreInv, TypeOK
  <2>2. ASSUME NEW u \in Tokens, LoadWorkbook(u) PROVE ~Answerable(t)'
    BY <2>0, <2>2 DEF LoadWorkbook, Use, Answerable, Expired, StoreInv, TypeOK
  <2>3. ASSUME NEW u \in Tokens, LoadExpired(u) \/ LoadUnknown(u) PROVE ~Answerable(t)'
    BY <2>0, <2>3 DEF LoadExpired, LoadUnknown, vars, Answerable, Expired
  <2>4. CASE Restart
    BY <2>4 DEF Restart, Answerable
  <2>5. CASE Tick
    BY <2>0, <2>5, StoreAssumption DEF Tick, Answerable, Expired
  <2>6. QED
    BY <2>1, <2>2, <2>3, <2>4, <2>5 DEF Next
<1>2. QED
  BY <1>1, StoreCorrect, PTL DEF Spec, DeadStaysDead
=============================================================================
