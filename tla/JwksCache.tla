------------------------------ MODULE JwksCache ------------------------------
(***************************************************************************)
(* Verification of access tokens (core/security.py): every request that    *)
(* carries one looks its key up in a set that the process keeps for a time,*)
(* and that one request at a time fetches again from the identity provider.*)
(*                                                                         *)
(* The identity provider is external: it publishes new keys and withdraws  *)
(* old ones at any time, and answers a fetch with the keys of some moment  *)
(* between the question and the answer, or not at all.                     *)
(***************************************************************************)
EXTENDS Integers, Sequences, FiniteSets

CONSTANTS
    Checks,         \* verifications that may run at the same time
    Kids,           \* key identifiers
    NoKid,          \* the header of a token that names no key, or not ES256
    KeyTTL,         \* ttl_seconds
    FetchTime,      \* the timeout of the client that fetches
    MaxKeyTime      \* bound on the clock

ASSUME JwksAssumption ==
    /\ KeyTTL \in Nat /\ FetchTime \in Nat /\ MaxKeyTime \in Nat
    /\ FetchTime < KeyTTL
    /\ NoKid \notin Kids

VARIABLES
    published,      \* provider: the keys it publishes
    keySet,         \* _jwks
    keysExpire,     \* _expires_at; 0 as long as _jwks is None
    keyTime,        \* time.monotonic()
    lockQueue,      \* _lock: who holds it, then who waits for it
    fetchStart,     \* `now` of the request that fetches
    fetchAnswer,    \* the keys on their way back to it
    phase,          \* where each verification is, or how the last one ended
    kid,            \* the key that its token names
    lastIn,         \* history: last time before the present a key was published
    lastOut         \* history: ... and was not

keyVars == <<published, keySet, keysExpire, keyTime, lockQueue, fetchStart,
             fetchAnswer, phase, kid, lastIn, lastOut>>

Over == {"none", "valid", "401", "503"}

KeysTypeOK ==
    /\ published \subseteq Kids /\ keySet \subseteq Kids /\ fetchAnswer \subseteq Kids
    /\ keyTime \in 0..MaxKeyTime /\ keysExpire \in 0..(MaxKeyTime + KeyTTL)
    /\ lockQueue \in Seq(Checks)
    /\ fetchStart \in 0..MaxKeyTime
    /\ phase \in [Checks -> Over \cup {"queued", "asking", "loading"}]
    /\ kid \in [Checks -> Kids \cup {NoKid}]
    /\ lastIn \in [Kids -> (-KeyTTL)..keyTime] /\ lastOut \in [Kids -> (-KeyTTL)..keyTime]
    \* Those who are not done hold the lock or wait for it, once each, and only
    \* its holder fetches.
    /\ \A i, j \in 1..Len(lockQueue) : lockQueue[i] = lockQueue[j] => i = j
    /\ \A c \in Checks : phase[c] \in Over <=> \A i \in 1..Len(lockQueue) : lockQueue[i] # c
    /\ \A i \in 2..Len(lockQueue) : phase[lockQueue[i]] = "queued"

\* The keys at the start of the process have been what they are for long.
KeysInit ==
    /\ published \in SUBSET Kids
    /\ keySet = {} /\ keysExpire = 0 /\ keyTime = 0
    /\ lockQueue = <<>> /\ fetchStart = 0 /\ fetchAnswer = {}
    /\ phase = [c \in Checks |-> "none"]
    /\ kid = [c \in Checks |-> NoKid]
    /\ lastIn = [k \in Kids |-> IF k \in published THEN 0 ELSE -KeyTTL]
    /\ lastOut = [k \in Kids |-> IF k \in published THEN -KeyTTL ELSE 0]

-----------------------------------------------------------------------------

\* get_signing_key: the key of the token, among the keys it was given.
Looked(k, keys) == IF k \in keys THEN "valid" ELSE "401"

CacheIsValid == keyTime < keysExpire

\* verify_supabase_token, down to the lock: a token without a usable header is
\* refused at once; with a valid key set nothing is awaited.
StartCheck(c, k) ==
    /\ phase[c] \in Over
    /\ kid' = [kid EXCEPT ![c] = k]
    /\ \/ /\ k = NoKid
          /\ phase' = [phase EXCEPT ![c] = "401"]
          /\ UNCHANGED lockQueue
       \/ /\ k # NoKid /\ CacheIsValid
          /\ phase' = [phase EXCEPT ![c] = Looked(k, keySet)]
          /\ UNCHANGED lockQueue
       \/ /\ k # NoKid /\ ~CacheIsValid
          /\ phase' = [phase EXCEPT ![c] = "queued"]
          /\ lockQueue' = Append(lockQueue, c)
    /\ UNCHANGED <<published, keySet, keysExpire, keyTime, fetchStart, fetchAnswer,
                   lastIn, lastOut>>

Holds(c) == lockQueue # <<>> /\ Head(lockQueue) = c

\* get_jwks, with the lock: somebody else fetched in the meantime, or the fetch
\* starts.
TakeLock(c) ==
    /\ phase[c] = "queued" /\ Holds(c)
    /\ \/ /\ CacheIsValid
          /\ phase' = [phase EXCEPT ![c] = Looked(kid[c], keySet)]
          /\ lockQueue' = Tail(lockQueue)
          /\ UNCHANGED fetchStart
       \/ /\ ~CacheIsValid
          /\ phase' = [phase EXCEPT ![c] = "asking"]
          /\ fetchStart' = keyTime
          /\ UNCHANGED lockQueue
    /\ UNCHANGED <<published, keySet, keysExpire, keyTime, fetchAnswer, kid, lastIn, lastOut>>

\* The provider answers.
Provide(c) ==
    /\ phase[c] = "asking"
    /\ phase' = [phase EXCEPT ![c] = "loading"]
    /\ fetchAnswer' = published
    /\ UNCHANGED <<published, keySet, keysExpire, keyTime, lockQueue, fetchStart, kid,
                   lastIn, lastOut>>

\* Variant for a mutation: the lifetime counts from the arrival of the keys.
StoreKeysLate(c) ==
    /\ phase[c] = "loading"
    /\ keySet' = fetchAnswer
    /\ keysExpire' = keyTime + KeyTTL
    /\ phase' = [phase EXCEPT ![c] = Looked(kid[c], fetchAnswer)]
    /\ lockQueue' = Tail(lockQueue)
    /\ UNCHANGED <<published, keyTime, fetchStart, fetchAnswer, kid, lastIn, lastOut>>

\* get_jwks, after the fetch: the lifetime counts from before it.
StoreKeys(c) ==
    /\ phase[c] = "loading"
    /\ keySet' = fetchAnswer
    /\ keysExpire' = fetchStart + KeyTTL
    /\ phase' = [phase EXCEPT ![c] = Looked(kid[c], fetchAnswer)]
    /\ lockQueue' = Tail(lockQueue)
    /\ UNCHANGED <<published, keyTime, fetchStart, fetchAnswer, kid, lastIn, lastOut>>

\* Variant for a mutation: a failed fetch keeps the lock.
FetchFailsLocked(c) ==
    /\ phase[c] \in {"asking", "loading"}
    /\ phase' = [phase EXCEPT ![c] = "503"]
    /\ UNCHANGED <<published, keySet, keysExpire, keyTime, lockQueue, fetchStart,
                   fetchAnswer, kid, lastIn, lastOut>>

\* The fetch fails or times out: 503, and the next in the queue tries again.
FetchFails(c) ==
    /\ phase[c] \in {"asking", "loading"}
    /\ phase' = [phase EXCEPT ![c] = "503"]
    /\ lockQueue' = Tail(lockQueue)
    /\ UNCHANGED <<published, keySet, keysExpire, keyTime, fetchStart, fetchAnswer, kid,
                   lastIn, lastOut>>

-----------------------------------------------------------------------------

Fetching == \E c \in Checks : phase[c] \in {"asking", "loading"}

\* Time passes, no further than the timeout of a fetch under way.
PassTime ==
    /\ keyTime < MaxKeyTime
    /\ Fetching => keyTime < fetchStart + FetchTime
    /\ keyTime' = keyTime + 1
    /\ lastIn' = [k \in Kids |-> IF k \in published THEN keyTime + 1 ELSE lastIn[k]]
    /\ lastOut' = [k \in Kids |-> IF k \in published THEN lastOut[k] ELSE keyTime + 1]
    /\ UNCHANGED <<published, keySet, keysExpire, lockQueue, fetchStart, fetchAnswer, phase, kid>>

\* The provider publishes a key, or withdraws one.
Rotate(k) ==
    /\ published' = IF k \in published THEN published \ {k} ELSE published \cup {k}
    /\ lastIn' = [lastIn EXCEPT ![k] = keyTime]
    /\ lastOut' = [lastOut EXCEPT ![k] = keyTime]
    /\ UNCHANGED <<keySet, keysExpire, keyTime, lockQueue, fetchStart, fetchAnswer, phase, kid>>

CheckStep(c) ==
    TakeLock(c) \/ Provide(c) \/ StoreKeys(c) \/ FetchFails(c)

KeysNext ==
    \/ \E c \in Checks : CheckStep(c) \/ \E k \in Kids \cup {NoKid} : StartCheck(c, k)
    \/ PassTime
    \/ \E k \in Kids : Rotate(k)

\* The event loop resumes whoever gets the lock, and a fetch ends at its timeout
\* at the latest.
KeysFairness == \A c \in Checks : WF_keyVars(CheckStep(c))

KeysSpec == KeysInit /\ [][KeysNext]_keyVars /\ KeysFairness

-----------------------------------------------------------------------------

Decides(c, status) == phase[c] # status /\ phase'[c] = status
\* Published, or not, less than the lifetime ago.
Recently(when, k) == keyTime < when[k] + KeyTTL

\* However the fetches, expiries and rotations interleave, a token is accepted
\* only under a key that the provider published less than the lifetime of the
\* cache ago: a withdrawn key does not live on through a slow fetch.
AcceptedKeysAreFresh ==
    [][\A c \in Checks : Decides(c, "valid") => Recently(lastIn, kid'[c])]_keyVars

\* A token is refused for its key only if the provider did not publish the key
\* at some time within the lifetime of the cache: a new key is refused no longer
\* than that.
RefusedKeysAreNew ==
    [][\A c \in Checks :
          Decides(c, "401") => kid'[c] = NoKid \/ Recently(lastOut, kid'[c])]_keyVars

\* A fetch starts only when there is no valid key set and no other fetch: those
\* who waited while somebody fetched use the result.
FetchesAreNeeded ==
    [][(\E c \in Checks : Decides(c, "asking")) => ~CacheIsValid /\ ~Fetching]_keyVars

\* Nobody waits for ever, although each of those who wait may have to fetch and
\* fail after the other.
ChecksEnd == \A c \in Checks : phase[c] \notin Over ~> phase[c] \in Over

\* A token is judged by a key set that was fresh when it was judged, and the
\* keys are fetched only when they have to be.
KeysKept == []KeysTypeOK /\ AcceptedKeysAreFresh /\ RefusedKeysAreNew /\ FetchesAreNeeded
=============================================================================
