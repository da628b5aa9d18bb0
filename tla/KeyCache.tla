------------------------------ MODULE KeyCache ------------------------------
(***************************************************************************)
(* The verification keys of access tokens: the key set the issuer          *)
(* publishes and the gateway's cache of it (backend/libs/auth/src/jwks.rs).*)
(* Time is a tick; what a key's state depends on is kept as ages, so the   *)
(* state space is finite without a bound on the clock.                     *)
(***************************************************************************)
EXTENDS Integers

CONSTANTS
  Kids,          \* key ids
  CacheTtl,      \* ticks an entry lives after it was inserted (600 s)
  FetchTimeout   \* ticks a fetch may take (5 s)

ASSUME CacheTimes == CacheTtl \in Nat \ {0} /\ FetchTimeout \in Nat \ {0}

VARIABLES
  published,  \* the keys of the document served at jwks_url
  unlisted,   \* ticks since each key was last published (up to StaleBound + 1)
  cache       \* ticks each cached key has left; 0 when it is not cached

keyVars == <<published, unlisted, cache>>

StaleBound == CacheTtl + FetchTimeout

KeyTypeOK ==
  /\ published \subseteq Kids
  /\ unlisted \in [Kids -> 0..(StaleBound + 1)]
  /\ cache \in [Kids -> 0..CacheTtl]

KeyInit ==
  /\ published = Kids
  /\ unlisted = [k \in Kids |-> 0]
  /\ cache = [k \in Kids |-> 0]

\* The issuer withdraws a key, or publishes it again.
Rotate ==
  /\ \E k \in Kids :
       \/ k \in published /\ published' = published \ {k}
       \/ k \notin published /\ published' = published \cup {k}
  /\ unlisted' = [k \in Kids |-> IF k \in published' THEN 0 ELSE unlisted[k]]
  /\ UNCHANGED cache

Cached(k) == k \in Kids /\ cache[k] > 0

\* Mutant: the lifetime of an entry counts from the start of the fetch's timeout.
InsertLong(keys) ==
  cache' = [k \in Kids |-> IF k \in keys THEN StaleBound ELSE cache[k]]

\* refresh puts every key of the document it got into the cache.
Insert(keys) ==
  cache' = [k \in Kids |-> IF k \in keys THEN CacheTtl ELSE cache[k]]

\* Mutant: an entry that was used lives on (time to idle).
AgeKeysIdle ==
  /\ unlisted' = [k \in Kids |->
       IF k \in published \/ unlisted[k] > StaleBound THEN unlisted[k]
       ELSE unlisted[k] + 1]
  /\ UNCHANGED cache

\* A tick of the clock.
AgeKeys ==
  /\ unlisted' = [k \in Kids |->
       IF k \in published \/ unlisted[k] > StaleBound THEN unlisted[k]
       ELSE unlisted[k] + 1]
  /\ cache' = [k \in Kids |-> IF cache[k] > 0 THEN cache[k] - 1 ELSE 0]

\* However fetches overlap and answers overtake each other, a key that was
\* withdrawn is accepted for at most CacheTtl + FetchTimeout.
StaleKeyBound ==
  \A k \in Kids : Cached(k) => unlisted[k] <= (CacheTtl - cache[k]) + FetchTimeout
=============================================================================
