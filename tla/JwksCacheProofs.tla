--------------------------- MODULE JwksCacheProofs ---------------------------
(***************************************************************************)
(* Proofs about JwksCache for any checks, keys and lifetimes.  The keys of *)
(* a fetch are those of some moment after the fetch began, and the key set *)
(* expires a lifetime after that; so what KeysAreDated says of the times at*)
(* which a key was published is enough to judge every verdict.             *)
(***************************************************************************)
EXTENDS JwksCache, SequenceTheorems, TLAPS

\* What is published is published now; what was fetched, or is kept, was
\* published, and the rest was not, at some time after its fetch began.
KeysAreDated ==
    /\ \A k \in Kids : IF k \in published THEN lastIn[k] = keyTime ELSE lastOut[k] = keyTime
    /\ \A c \in Checks : phase[c] \in {"asking", "loading"} =>
          fetchStart <= keyTime /\ keyTime <= fetchStart + FetchTime
    /\ \A c \in Checks : phase[c] = "loading" =>
          \A k \in Kids : IF k \in fetchAnswer THEN fetchStart <= lastIn[k]
                                               ELSE fetchStart <= lastOut[k]
    /\ \A k \in Kids : IF k \in keySet THEN keysExpire <= lastIn[k] + KeyTTL
                                       ELSE keysExpire <= lastOut[k] + KeyTTL

KeysInv == KeysTypeOK /\ KeysAreDated

\* Whoever fetches holds the lock, and is the only one to fetch.
LEMMA HolderFetches ==
  ASSUME KeysTypeOK, NEW c \in Checks, phase[c] \notin Over \cup {"queued"}
  PROVE  /\ lockQueue # <<>> /\ Head(lockQueue) = c /\ lockQueue[1] = c
         /\ \A d \in Checks : phase[d] \notin Over \cup {"queued"} => d = c
<1>1. ASSUME NEW d \in Checks, phase[d] \notin Over \cup {"queued"}
      PROVE  Len(lockQueue) >= 1 /\ lockQueue[1] = d
  BY <1>1 DEF KeysTypeOK
<1>2. lockQueue # <<>> /\ Head(lockQueue) = lockQueue[1]
  BY <1>1 DEF KeysTypeOK
<1>3. QED
  BY <1>1, <1>2

\* The lock changes hands: what the queue is when its head has left.
LEMMA LockPasses ==
  ASSUME KeysTypeOK, NEW c \in Checks, lockQueue # <<>>, lockQueue[1] = c,
         lockQueue' = Tail(lockQueue), NEW v \in Over, phase' = [phase EXCEPT ![c] = v]
  PROVE  /\ lockQueue' \in Seq(Checks)
         /\ phase' \in [Checks -> Over \cup {"queued", "asking", "loading"}]
         /\ \A i, j \in 1..Len(lockQueue') : lockQueue'[i] = lockQueue'[j] => i = j
         /\ \A d \in Checks : phase'[d] \in Over <=> \A i \in 1..Len(lockQueue') : lockQueue'[i] # d
         /\ \A i \in 2..Len(lockQueue') : phase'[lockQueue'[i]] = "queued"
         /\ \A d \in Checks : phase'[d] \notin {"asking", "loading"}
<1>1. /\ lockQueue' \in Seq(Checks) /\ Len(lockQueue') = Len(lockQueue) - 1
      /\ \A i \in 1..Len(lockQueue') : lockQueue'[i] = lockQueue[i + 1]
      /\ Len(lockQueue) \in Nat \ {0} /\ DOMAIN lockQueue = 1..Len(lockQueue)
  BY HeadTailProperties, LenProperties DEF KeysTypeOK
<1>2. phase' \in [Checks -> Over \cup {"queued", "asking", "loading"}]
  BY DEF KeysTypeOK
<1>3. \A i, j \in 1..Len(lockQueue') : lockQueue'[i] = lockQueue'[j] => i = j
  BY <1>1 DEF KeysTypeOK
<1>4. \A i \in 1..Len(lockQueue') : phase[lockQueue'[i]] = "queued" /\ lockQueue'[i] # c
  <2> SUFFICES ASSUME NEW i \in 1..Len(lockQueue')
               PROVE  phase[lockQueue'[i]] = "queued" /\ lockQueue'[i] # c
    OBVIOUS
  <2>1. lockQueue'[i] = lockQueue[i + 1] /\ i + 1 \in 2..Len(lockQueue) /\ 1 \in 1..Len(lockQueue)
    BY <1>1
  <2>2. QED
    BY <2>1 DEF KeysTypeOK
<1>5. ASSUME NEW d \in Checks, d # c
      PROVE  (\A i \in 1..Len(lockQueue') : lockQueue'[i] # d) <=>
             (\A i \in 1..Len(lockQueue) : lockQueue[i] # d)
  <2>1. ASSUME NEW i \in 1..Len(lockQueue), lockQueue[i] = d
        PROVE  \E j \in 1..Len(lockQueue') : lockQueue'[j] = d
    <3>1. i # 1 /\ i - 1 \in 1..Len(lockQueue') /\ lockQueue'[i - 1] = lockQueue[(i - 1) + 1]
      BY <1>1, <1>5, <2>1
    <3>2. QED
      BY <2>1, <3>1
  <2>2. ASSUME NEW i \in 1..Len(lockQueue'), lockQueue'[i] = d
        PROVE  \E j \in 1..Len(lockQueue) : lockQueue[j] = d
    BY <1>1, <2>2
  <2>3. QED
    BY <2>1, <2>2
<1>6. \A d \in Checks : phase'[d] \in Over <=> \A i \in 1..Len(lockQueue') : lockQueue'[i] # d
  BY <1>4, <1>5 DEF KeysTypeOK
<1>7. \A i \in 1..Len(lockQueue') : phase'[lockQueue'[i]] = "queued"
  BY <1>1, <1>4 DEF KeysTypeOK
<1>8. \A d \in Checks : phase'[d] \notin {"asking", "loading"}
  <2>1. \A d \in Checks : phase[d] \notin Over \cup {"queued"} => d = c
    BY HolderFetches DEF KeysTypeOK
  <2>2. QED
    BY <2>1 DEF KeysTypeOK, Over
<1>9. QED
  BY <1>1, <1>2, <1>3, <1>6, <1>7, <1>8

-----------------------------------------------------------------------------
(* Every variable keeps its shape, and whoever waits is in the queue once. *)

\* A step of a check keeps the type invariant.
LEMMA CheckKeepsTypes ==
  ASSUME KeysTypeOK, NEW c \in Checks, CheckStep(c) \/ \E k \in Kids \cup {NoKid} : StartCheck(c, k)
  PROVE  KeysTypeOK'
<1> USE JwksAssumption DEF KeysTypeOK
<1>1. ASSUME NEW k \in Kids \cup {NoKid}, StartCheck(c, k) PROVE KeysTypeOK'
  <2>1. ASSUME NEW v \in Over, lockQueue' = lockQueue, phase' = [phase EXCEPT ![c] = v]
        PROVE  KeysTypeOK'
    <3>1. \A d \in Checks : phase'[d] \in Over <=> phase[d] \in Over
      BY <1>1, <2>1 DEF StartCheck
    <3>2. \A i \in 2..Len(lockQueue) : i \in 1..Len(lockQueue) /\ lockQueue[i] # c
      BY <1>1 DEF StartCheck
    <3>3. \A i \in 2..Len(lockQueue') : phase'[lockQueue'[i]] = "queued"
      BY <2>1, <3>2
    <3>4. /\ phase' \in [Checks -> Over \cup {"queued", "asking", "loading"}]
          /\ kid' \in [Checks -> Kids \cup {NoKid}]
      BY <1>1, <2>1 DEF StartCheck
    <3>5. QED
      BY <1>1, <2>1, <3>1, <3>3, <3>4 DEF StartCheck
  <2>2. CASE lockQueue' = Append(lockQueue, c) /\ phase' = [phase EXCEPT ![c] = "queued"]
    <3>1. /\ lockQueue' \in Seq(Checks) /\ Len(lockQueue') = Len(lockQueue) + 1
          /\ \A i \in 1..Len(lockQueue) : lockQueue'[i] = lockQueue[i]
          /\ lockQueue'[Len(lockQueue) + 1] = c /\ Len(lockQueue) \in Nat
      BY <2>2, AppendProperties, LenProperties
    <3>2. phase[c] \in Over /\ \A i \in 1..Len(lockQueue) : lockQueue[i] # c
      BY <1>1 DEF StartCheck
    <3>3. \A i, j \in 1..Len(lockQueue') : lockQueue'[i] = lockQueue'[j] => i = j
      <4> SUFFICES ASSUME NEW i \in 1..Len(lockQueue'), NEW j \in 1..Len(lockQueue'),
                          lockQueue'[i] = lockQueue'[j]
                   PROVE  i = j
        OBVIOUS
      <4>1. /\ i \in 1..Len(lockQueue) \/ i = Len(lockQueue) + 1
            /\ j \in 1..Len(lockQueue) \/ j = Len(lockQueue) + 1
        BY <3>1
      <4>2. i \in 1..Len(lockQueue) /\ j \in 1..Len(lockQueue) => i = j
        BY <3>1
      <4>3. QED
        BY <3>1, <3>2, <4>1, <4>2
    <3>4. \A d \in Checks : phase'[d] \in Over <=> \A i \in 1..Len(lockQueue') : lockQueue'[i] # d
      <4> SUFFICES ASSUME NEW d \in Checks
                   PROVE  phase'[d] \in Over <=> \A i \in 1..Len(lockQueue') : lockQueue'[i] # d
        OBVIOUS
      <4>1. CASE d = c
        BY <2>2, <3>1, <4>1 DEF Over
      <4>2. CASE d # c
        <5>1. phase'[d] = phase[d]
          BY <2>2, <4>2
        <5>2. \A i \in 1..Len(lockQueue') : i \in 1..Len(lockQueue) \/ lockQueue'[i] = c
          BY <3>1
        <5>3. \A i \in 1..Len(lockQueue) : i \in 1..Len(lockQueue')
          BY <3>1
        <5>4. QED
          BY <3>1, <4>2, <5>1, <5>2, <5>3
      <4>3. QED
        BY <4>1, <4>2
    <3>5. \A i \in 2..Len(lockQueue') : phase'[lockQueue'[i]] = "queued"
      BY <2>2, <3>1, <3>2
    <3>6. /\ phase' \in [Checks -> Over \cup {"queued", "asking", "loading"}]
          /\ kid' \in [Checks -> Kids \cup {NoKid}]
      BY <1>1, <2>2 DEF StartCheck
    <3>7. QED
      BY <1>1, <3>1, <3>3, <3>4, <3>5, <3>6 DEF StartCheck
  <2>3. \A K : Looked(k, K) \in Over
    BY DEF Looked, Over
  <2>4. "401" \in Over
    BY DEF Over
  <2>5. QED
    BY <1>1, <2>1, <2>2, <2>3, <2>4 DEF StartCheck
<1>2. ASSUME TakeLock(c) PROVE KeysTypeOK'
  <2>1. lockQueue # <<>> /\ lockQueue[1] = c /\ phase[c] = "queued"
    BY <1>2 DEF TakeLock, Holds
  <2>2. CASE lockQueue' = Tail(lockQueue) /\ phase' = [phase EXCEPT ![c] = Looked(kid[c], keySet)]
    <3>1. Looked(kid[c], keySet) \in Over
      BY DEF Looked, Over
    <3>2. CacheIsValid /\ UNCHANGED <<published, keySet, keysExpire, keyTime, fetchStart,
                                      fetchAnswer, kid, lastIn, lastOut>>
      BY <1>2, <2>1, <2>2, <3>1 DEF TakeLock, Over
    <3>3. QED
      BY <2>1, <2>2, <3>1, <3>2, LockPasses
  <2>3. CASE lockQueue' = lockQueue /\ phase' = [phase EXCEPT ![c] = "asking"]
    <3>1. \A d \in Checks : phase'[d] \in Over <=> phase[d] \in Over
      BY <2>1, <2>3 DEF Over
    <3>2. \A i \in 2..Len(lockQueue) : lockQueue[i] # c
      <4> SUFFICES ASSUME NEW i \in 2..Len(lockQueue), lockQueue[i] = c PROVE FALSE
        OBVIOUS
      <4>1. Len(lockQueue) \in Nat /\ i \in 1..Len(lockQueue) /\ 1 \in 1..Len(lockQueue)
        BY LenProperties
      <4>2. QED
        BY <2>1, <4>1
    <3>3. \A i \in 2..Len(lockQueue') : phase'[lockQueue'[i]] = "queued"
      BY <2>3, <3>2
    <3>4. fetchStart' \in 0..MaxKeyTime /\ phase' \in [Checks -> Over \cup {"queued", "asking", "loading"}]
      BY <1>2, <2>3 DEF TakeLock
    <3>5. UNCHANGED <<published, keySet, keysExpire, keyTime, fetchAnswer, kid, lastIn, lastOut>>
      BY <1>2 DEF TakeLock
    <3>6. QED
      BY <2>3, <3>1, <3>3, <3>4, <3>5
  <2>4. QED
    BY <1>2, <2>2, <2>3 DEF TakeLock
<1>3. ASSUME Provide(c) PROVE KeysTypeOK'
  <2>1. lockQueue # <<>> /\ lockQueue[1] = c
    BY <1>3, HolderFetches DEF Provide, Over
  <2>2. \A i \in 2..Len(lockQueue) : lockQueue[i] # c
    BY <1>3 DEF Provide
  <2>3. QED
    BY <1>3, <2>1, <2>2 DEF Provide, Over
<1>4. ASSUME StoreKeys(c) PROVE KeysTypeOK'
  <2>1. lockQueue # <<>> /\ lockQueue[1] = c
    BY <1>4, HolderFetches DEF StoreKeys, Over
  <2>2. Looked(kid[c], fetchAnswer) \in Over
    BY DEF Looked, Over
  <2>3. /\ keySet' \subseteq Kids /\ keysExpire' \in 0..(MaxKeyTime + KeyTTL)
        /\ UNCHANGED <<published, keyTime, fetchStart, fetchAnswer, kid, lastIn, lastOut>>
    BY <1>4 DEF StoreKeys
  <2>4. QED
    BY <1>4, <2>1, <2>2, <2>3, LockPasses DEF StoreKeys
<1>5. ASSUME FetchFails(c) PROVE KeysTypeOK'
  <2>1. lockQueue # <<>> /\ lockQueue[1] = c
    BY <1>5, HolderFetches DEF FetchFails, Over
  <2>2. /\ "503" \in Over
        /\ UNCHANGED <<published, keySet, keysExpire, keyTime, fetchStart, fetchAnswer, kid, lastIn, lastOut>>
    BY <1>5 DEF FetchFails, Over
  <2>3. QED
    BY <1>5, <2>1, <2>2, LockPasses DEF FetchFails
<1>6. QED
  BY <1>1, <1>2, <1>3, <1>4, <1>5 DEF CheckStep

\* The lock queue and the phases of the checks stay in step.
LEMMA KeysTypesKept == KeysTypeOK /\ [KeysNext]_keyVars => KeysTypeOK'
<1> SUFFICES ASSUME KeysTypeOK, [KeysNext]_keyVars PROVE KeysTypeOK'
  OBVIOUS
<1> USE JwksAssumption
<1>1. CASE PassTime
  <2>1. /\ keyTime' \in 0..MaxKeyTime /\ keyTime < keyTime'
        /\ lastIn' \in [Kids -> (-KeyTTL)..keyTime'] /\ lastOut' \in [Kids -> (-KeyTTL)..keyTime']
    BY <1>1 DEF PassTime, KeysTypeOK
  <2>2. QED
    BY <1>1, <2>1 DEF PassTime, KeysTypeOK
<1>2. ASSUME NEW k \in Kids, Rotate(k) PROVE KeysTypeOK'
  <2>1. /\ published' \subseteq Kids /\ UNCHANGED keyTime
        /\ lastIn' \in [Kids -> (-KeyTTL)..keyTime] /\ lastOut' \in [Kids -> (-KeyTTL)..keyTime]
    BY <1>2 DEF Rotate, KeysTypeOK
  <2>2. QED
    BY <1>2, <2>1 DEF Rotate, KeysTypeOK
<1>3. CASE UNCHANGED keyVars
  BY <1>3 DEF keyVars, KeysTypeOK
<1>4. QED
  BY <1>1, <1>2, <1>3, CheckKeepsTypes DEF KeysNext

-----------------------------------------------------------------------------
(* The dates of the keys.                                                  *)

\* A step of a check keeps the dates in order.
LEMMA CheckKeepsDates ==
  ASSUME KeysInv, NEW c \in Checks, CheckStep(c) \/ \E k \in Kids \cup {NoKid} : StartCheck(c, k)
  PROVE  KeysAreDated'
<1> USE JwksAssumption DEF KeysInv
<1>1. ASSUME NEW k \in Kids \cup {NoKid}, StartCheck(c, k) PROVE KeysAreDated'
  <2>1. \A d \in Checks : /\ phase'[d] = "loading" => phase[d] = "loading"
                          /\ phase'[d] = "asking" => phase[d] = "asking"
    BY <1>1 DEF StartCheck, Looked, KeysTypeOK
  <2>2. QED
    BY <1>1, <2>1 DEF StartCheck, KeysAreDated
<1>2. ASSUME TakeLock(c) PROVE KeysAreDated'
  <2>1. \A d \in Checks : phase[d] \notin {"asking", "loading"}
    <3>1. lockQueue # <<>> /\ lockQueue[1] = c /\ phase[c] = "queued"
      BY <1>2 DEF TakeLock, Holds
    <3>2. QED
      BY <3>1, HolderFetches DEF Over
  <2>2. \A d \in Checks : phase'[d] # "loading"
    BY <1>2, <2>1 DEF TakeLock, Looked, KeysTypeOK
  <2>3. \A d \in Checks : phase'[d] = "asking" => fetchStart' = keyTime
    BY <1>2, <2>1 DEF TakeLock, Looked, KeysTypeOK
  <2>4. UNCHANGED <<published, keySet, keysExpire, keyTime, lastIn, lastOut>>
    BY <1>2 DEF TakeLock
  <2>5. QED
    BY <2>2, <2>3, <2>4 DEF KeysAreDated, KeysTypeOK
<1>3. ASSUME Provide(c) PROVE KeysAreDated'
  <2>1. phase[c] = "asking" /\ \A d \in Checks : phase'[d] \in {"asking", "loading"} => phase[d] \in {"asking", "loading"}
    BY <1>3 DEF Provide, KeysTypeOK
  <2>2. \A k \in Kids : IF k \in fetchAnswer' THEN fetchStart <= lastIn[k] ELSE fetchStart <= lastOut[k]
    BY <1>3, <2>1 DEF Provide, KeysAreDated
  <2>3. UNCHANGED <<published, keySet, keysExpire, keyTime, fetchStart, lastIn, lastOut>>
    BY <1>3 DEF Provide
  <2>4. QED
    BY <2>1, <2>2, <2>3 DEF KeysAreDated
<1>4. ASSUME StoreKeys(c) PROVE KeysAreDated'
  <2>1. \A d \in Checks : phase'[d] \notin {"asking", "loading"}
    BY <1>4, HolderFetches DEF StoreKeys, Looked, Over, KeysTypeOK
  <2>2. \A k \in Kids : IF k \in keySet' THEN keysExpire' <= lastIn[k] + KeyTTL
                                         ELSE keysExpire' <= lastOut[k] + KeyTTL
    BY <1>4 DEF StoreKeys, KeysAreDated, KeysTypeOK
  <2>3. UNCHANGED <<published, keyTime, lastIn, lastOut>>
    BY <1>4 DEF StoreKeys
  <2>4. QED
    BY <2>1, <2>2, <2>3 DEF KeysAreDated
<1>5. ASSUME FetchFails(c) PROVE KeysAreDated'
  <2>1. \A d \in Checks : phase'[d] \notin {"asking", "loading"}
    BY <1>5, HolderFetches DEF FetchFails, Over, KeysTypeOK
  <2>2. UNCHANGED <<published, keySet, keysExpire, keyTime, lastIn, lastOut>>
    BY <1>5 DEF FetchFails
  <2>3. QED
    BY <2>1, <2>2 DEF KeysAreDated
<1>6. QED
  BY <1>1, <1>2, <1>3, <1>4, <1>5 DEF CheckStep

\* Time and rotations keep the dates in order too.
LEMMA KeysInvKept == KeysInv /\ [KeysNext]_keyVars => KeysInv'
<1> SUFFICES ASSUME KeysInv, [KeysNext]_keyVars PROVE KeysAreDated'
  BY KeysTypesKept DEF KeysInv
<1> USE JwksAssumption DEF KeysInv
<1>1. CASE PassTime
  <2>1. \A k \in Kids : lastIn[k] <= lastIn'[k] /\ lastOut[k] <= lastOut'[k]
    BY <1>1 DEF PassTime, KeysTypeOK
  <2>2. \A k \in Kids : IF k \in published' THEN lastIn'[k] = keyTime' ELSE lastOut'[k] = keyTime'
    BY <1>1 DEF PassTime
  <2>3. \A c \in Checks : phase'[c] \in {"asking", "loading"} =>
           fetchStart' <= keyTime' /\ keyTime' <= fetchStart' + FetchTime
    BY <1>1 DEF PassTime, Fetching, KeysAreDated, KeysTypeOK
  <2>4. UNCHANGED <<keySet, keysExpire, fetchStart, fetchAnswer, phase>>
    BY <1>1 DEF PassTime
  <2>5. \A k \in Kids : /\ lastIn[k] \in Int /\ lastIn'[k] \in Int
                        /\ lastOut[k] \in Int /\ lastOut'[k] \in Int
    BY <1>1 DEF PassTime, KeysTypeOK
  <2>6. fetchStart \in Int /\ keysExpire \in Int
    BY DEF KeysTypeOK
  <2>7. \A c \in Checks : phase'[c] = "loading" =>
           \A k \in Kids : IF k \in fetchAnswer' THEN fetchStart' <= lastIn'[k]
                                                 ELSE fetchStart' <= lastOut'[k]
    BY <2>1, <2>4, <2>5, <2>6 DEF KeysAreDated
  <2>8. \A k \in Kids : IF k \in keySet' THEN keysExpire' <= lastIn'[k] + KeyTTL
                                         ELSE keysExpire' <= lastOut'[k] + KeyTTL
    BY <2>1, <2>4, <2>5, <2>6 DEF KeysAreDated
  <2>9. QED
    BY <2>2, <2>3, <2>7, <2>8 DEF KeysAreDated
<1>2. ASSUME NEW j \in Kids, Rotate(j) PROVE KeysAreDated'
  <2>1. \A k \in Kids : lastIn[k] <= lastIn'[k] /\ lastOut[k] <= lastOut'[k]
    BY <1>2 DEF Rotate, KeysTypeOK
  <2>2. \A k \in Kids : IF k \in published' THEN lastIn'[k] = keyTime ELSE lastOut'[k] = keyTime
    BY <1>2 DEF Rotate, KeysTypeOK, KeysAreDated
  <2>3. UNCHANGED <<keySet, keysExpire, keyTime, fetchStart, fetchAnswer, phase>>
    BY <1>2 DEF Rotate
  <2>4. \A k \in Kids : /\ lastIn[k] \in Int /\ lastIn'[k] \in Int
                        /\ lastOut[k] \in Int /\ lastOut'[k] \in Int
    BY <1>2 DEF Rotate, KeysTypeOK
  <2>5. fetchStart \in Int /\ keysExpire \in Int
    BY DEF KeysTypeOK
  <2>6. \A c \in Checks : phase[c] = "loading" =>
           \A k \in Kids : IF k \in fetchAnswer THEN fetchStart <= lastIn'[k]
                                                ELSE fetchStart <= lastOut'[k]
    BY <2>1, <2>4, <2>5 DEF KeysAreDated
  <2>7. \A k \in Kids : IF k \in keySet THEN keysExpire <= lastIn'[k] + KeyTTL
                                        ELSE keysExpire <= lastOut'[k] + KeyTTL
    BY <2>1, <2>4, <2>5 DEF KeysAreDated
  <2>8. QED
    BY <2>2, <2>3, <2>6, <2>7 DEF KeysAreDated
<1>3. CASE UNCHANGED keyVars
  BY <1>3 DEF keyVars, KeysAreDated
<1>4. QED
  BY <1>1, <1>2, <1>3, CheckKeepsDates DEF KeysNext

-----------------------------------------------------------------------------

\* The verdict of a step: which key set it was judged by, and how old that was.
LEMMA VerdictsAreDated ==
  ASSUME KeysInv, [KeysNext]_keyVars, NEW c \in Checks
  PROVE  /\ Decides(c, "valid") => Recently(lastIn, kid'[c])
         /\ Decides(c, "401") => kid'[c] = NoKid \/ Recently(lastOut, kid'[c])
<1> USE JwksAssumption DEF KeysInv
<1>0. \A k \in Kids : lastIn[k] \in Int /\ lastOut[k] \in Int
  BY DEF KeysTypeOK
<1>1. CacheIsValid => \A k \in Kids : IF k \in keySet THEN Recently(lastIn, k) ELSE Recently(lastOut, k)
  BY <1>0 DEF CacheIsValid, Recently, KeysAreDated, KeysTypeOK
<1>2. ASSUME NEW k \in Kids \cup {NoKid}, StartCheck(c, k)
      PROVE  /\ Decides(c, "valid") => Recently(lastIn, kid'[c])
             /\ Decides(c, "401") => kid'[c] = NoKid \/ Recently(lastOut, kid'[c])
  BY <1>1, <1>2 DEF StartCheck, Decides, Looked, KeysTypeOK
<1>3. ASSUME TakeLock(c)
      PROVE  /\ Decides(c, "valid") => Recently(lastIn, kid'[c])
             /\ Decides(c, "401") => kid'[c] = NoKid \/ Recently(lastOut, kid'[c])
  BY <1>1, <1>3 DEF TakeLock, Decides, Looked, KeysTypeOK
<1>4. ASSUME StoreKeys(c)
      PROVE  /\ Decides(c, "valid") => Recently(lastIn, kid'[c])
             /\ Decides(c, "401") => kid'[c] = NoKid \/ Recently(lastOut, kid'[c])
  <2>1. keyTime < fetchStart + KeyTTL
    BY <1>4 DEF StoreKeys, KeysAreDated, KeysTypeOK
  <2>2. \A k \in Kids : IF k \in fetchAnswer THEN Recently(lastIn, k) ELSE Recently(lastOut, k)
    BY <1>0, <1>4, <2>1 DEF StoreKeys, KeysAreDated, Recently, KeysTypeOK
  <2>3. QED
    BY <1>4, <2>2 DEF StoreKeys, Decides, Looked, KeysTypeOK
<1>5. ASSUME Provide(c) \/ FetchFails(c)
      PROVE  ~Decides(c, "valid") /\ ~Decides(c, "401")
  BY <1>5 DEF Provide, FetchFails, Decides, KeysTypeOK
<1>6. ASSUME NEW d \in Checks, d # c,
             CheckStep(d) \/ \E k \in Kids \cup {NoKid} : StartCheck(d, k)
      PROVE  phase'[c] = phase[c]
  BY <1>6 DEF CheckStep, StartCheck, TakeLock, Provide, StoreKeys, FetchFails, KeysTypeOK
<1>7. CASE PassTime \/ (\E k \in Kids : Rotate(k)) \/ UNCHANGED keyVars
  BY <1>7 DEF PassTime, Rotate, keyVars, Decides
<1>8. QED
  BY <1>2, <1>3, <1>4, <1>5, <1>6, <1>7 DEF KeysNext, CheckStep, Decides

\* Only the holder of the lock asks, when there is no valid key set.
LEMMA AskingIsNeeded ==
  ASSUME KeysInv, [KeysNext]_keyVars, NEW c \in Checks, Decides(c, "asking")
  PROVE  ~CacheIsValid /\ ~Fetching
<1> USE DEF KeysInv, Decides
<1>1. TakeLock(c)
  <2>1. ASSUME NEW d \in Checks, d # c,
               CheckStep(d) \/ \E k \in Kids \cup {NoKid} : StartCheck(d, k)
        PROVE  FALSE
    BY <2>1 DEF CheckStep, StartCheck, TakeLock, Provide, StoreKeys, FetchFails, KeysTypeOK
  <2>2. ~(PassTime \/ (\E k \in Kids : Rotate(k)) \/ UNCHANGED keyVars)
    BY DEF PassTime, Rotate, keyVars
  <2>3. ~(Provide(c) \/ StoreKeys(c) \/ FetchFails(c))
    BY DEF Provide, StoreKeys, FetchFails, Looked, KeysTypeOK
  <2>4. ~\E k \in Kids \cup {NoKid} : StartCheck(c, k)
    BY DEF StartCheck, Looked, KeysTypeOK
  <2>5. QED
    BY <2>1, <2>2, <2>3, <2>4 DEF KeysNext, CheckStep
<1>2. ~CacheIsValid
  BY <1>1 DEF TakeLock, Looked, KeysTypeOK
<1>3. phase[c] = "queued" /\ lockQueue[1] = c
  BY <1>1 DEF TakeLock, Holds
<1>4. ~Fetching
  BY <1>3, HolderFetches DEF Fetching, Over
<1>5. QED
  BY <1>2, <1>4

\* KeysKept: for any number of concurrent verifications, any keys and any times,
\* a token is accepted only under a key published less than a lifetime ago and
\* refused only under one that was not, and nobody fetches while a valid key
\* set is there or somebody else fetches.
THEOREM KeysAreKept == KeysSpec => KeysKept
<1>1. KeysInit => KeysInv
  BY JwksAssumption DEF KeysInit, KeysInv, KeysTypeOK, KeysAreDated, Over
<1>2. KeysInv /\ [KeysNext]_keyVars => KeysInv'
  BY KeysInvKept
<1>3. KeysInv /\ [KeysNext]_keyVars =>
         [\A c \in Checks : Decides(c, "valid") => Recently(lastIn, kid'[c])]_keyVars
  BY VerdictsAreDated
<1>4. KeysInv /\ [KeysNext]_keyVars =>
         [\A c \in Checks :
             Decides(c, "401") => kid'[c] = NoKid \/ Recently(lastOut, kid'[c])]_keyVars
  BY VerdictsAreDated
<1>5. KeysInv /\ [KeysNext]_keyVars =>
         [(\E c \in Checks : Decides(c, "asking")) => ~CacheIsValid /\ ~Fetching]_keyVars
  BY AskingIsNeeded
<1>6. KeysInv => KeysTypeOK
  BY DEF KeysInv
<1>7. QED
  BY <1>1, <1>2, <1>3, <1>4, <1>5, <1>6, PTL
     DEF KeysSpec, KeysKept, AcceptedKeysAreFresh, RefusedKeysAreNew, FetchesAreNeeded
=============================================================================
