------------------------------- MODULE KeyCache -------------------------------
(***************************************************************************)
(* The signing keys of the access tokens: jwksCache and jwksPending of     *)
(* http/auth.mjs, in one instance of the server, against an auth service   *)
(* that replaces its key and may not answer.                               *)
(*                                                                         *)
(* A verification names the key its token was signed with, unless the      *)
(* token carries no kid.  The signature and the claims are taken to be     *)
(* good: a verification is refused when its key is not found, and only     *)
(* then.                                                                   *)
(***************************************************************************)
EXTENDS Naturals, FiniteSets

CONSTANTS
  Verifications,  \* api calls that can be verifying their token together
  MaxKeys,        \* bound: keys the auth service publishes, one after the other
  Ttl,            \* JWKS_TTL_MS
  ErrorTtl,       \* JWKS_ERROR_TTL_MS
  MaxTime,        \* bound: the clock
  NoCache

ASSUME KeyCacheAssumption ==
  /\ {MaxKeys, Ttl, ErrorTtl} \subseteq Nat \ {0} /\ MaxTime \in Nat
  /\ ErrorTtl <= Ttl
  /\ NoCache \notin Nat \cup [keys : SUBSET (1 .. MaxKeys), failed : BOOLEAN,
                               at : Nat]

VARIABLES
  time,
  publishes,  \* auth service: the keys of its jwks.json, the last one signing
  cache,      \* jwksCache: [keys, at, failed] or NoCache
  fetching,   \* jwksPending: a fetch, with the time it began, or NoCache
  verifies,   \* where a verification stands
  lastFetch   \* history: when a fetch last began

keyVars == <<time, publishes, cache, fetching, verifies, lastFetch>>

-----------------------------------------------------------------------------
KeyIds == 1 .. MaxKeys
Newer(keys) == {k \in KeyIds : \A o \in keys : k > o}
Signing == CHOOSE k \in publishes : \A o \in publishes : k >= o

\* A token is [key, kid]: kid says whether its header names the key.
Tokens == [key : KeyIds, kid : BOOLEAN]
Ended  == {"new", "accepted", "refused"}

KeyCacheInit ==
  /\ time = 0 /\ publishes = {1} /\ cache = NoCache /\ fetching = NoCache
  /\ verifies = [v \in Verifications |-> [at |-> "new"]]
  /\ lastFetch = NoCache

Later == /\ time < MaxTime /\ time' = time + 1
         /\ UNCHANGED <<publishes, cache, fetching, verifies, lastFetch>>

\* The auth service adds a key, and removes one it no longer signs with.
Publish ==
  /\ \E k \in Newer(publishes) : publishes' = publishes \cup {k}
  /\ UNCHANGED <<time, cache, fetching, verifies, lastFetch>>
Retire ==
  /\ \E k \in publishes \ {Signing} : publishes' = publishes \ {k}
  /\ UNCHANGED <<time, cache, fetching, verifies, lastFetch>>

-----------------------------------------------------------------------------
(* resolveJwkCandidates *)

\* findCandidates, for a token: its key, or every key for one without a kid.
Candidates(keys, token) == IF token.kid THEN keys \cap {token.key} ELSE keys

Answer(keys, token) ==
  IF token.key \in Candidates(keys, token) THEN "accepted" ELSE "refused"

Hit(token) == cache # NoCache /\ Candidates(cache.keys, token) # {}
TooSoon == cache # NoCache
             /\ time - cache.at < (IF cache.failed THEN ErrorTtl ELSE Ttl)

\* The cache is read, and a fetch begun or joined, without a pause.
Verify(v, token) ==
  /\ verifies[v].at \in Ended
  /\ token.key <= Signing
  /\ verifies' = [verifies EXCEPT ![v] =
       [token |-> token, began |-> time,
        at |-> IF Hit(token) THEN Answer(cache.keys, token)
               ELSE IF TooSoon THEN "refused" ELSE "waiting"]]
  /\ IF Hit(token) \/ TooSoon \/ fetching # NoCache
       THEN UNCHANGED <<fetching, lastFetch>>
       ELSE /\ fetching' = time /\ lastFetch' = time
  /\ UNCHANGED <<time, publishes, cache>>

Waiting == {v \in Verifications : verifies[v].at = "waiting"}

\* All who wait go on together; the cache gets the time the last of them came.
Settles(keys, failed) ==
  /\ fetching # NoCache
  /\ fetching' = NoCache
  /\ cache' = [keys |-> keys, failed |-> failed,
               at |-> CHOOSE t \in {verifies[v].began : v \in Waiting} :
                        \A v \in Waiting : t >= verifies[v].began]
  /\ verifies' = [v \in Verifications |->
       IF v \notin Waiting THEN verifies[v]
       ELSE [verifies[v] EXCEPT !.at = IF failed THEN "refused"
                                       ELSE Answer(keys, verifies[v].token)]]
  /\ UNCHANGED <<time, publishes, lastFetch>>

FetchSucceeds == Settles(publishes, FALSE)
\* A variant that caches the failure alone.
FetchFailsEmpty == Settles({}, TRUE)

FetchFails == Settles(IF cache = NoCache THEN {} ELSE cache.keys, TRUE)

KeyCacheNext ==
  \/ Later \/ Publish \/ Retire \/ FetchSucceeds \/ FetchFails
  \/ \E v \in Verifications, token \in Tokens : Verify(v, token)

KeyCacheSpec == KeyCacheInit /\ [][KeyCacheNext]_keyVars

-----------------------------------------------------------------------------
KeyCacheTypeOK ==
  /\ time \in 0 .. MaxTime /\ publishes \subseteq KeyIds
  /\ cache = NoCache \/ cache \in [keys : SUBSET KeyIds, failed : BOOLEAN,
                                   at : 0 .. MaxTime]
  /\ \A v \in Verifications :
       verifies[v].at \in Ended \cup {"waiting"}
  /\ (fetching = NoCache) = (Waiting = {})

\* An outage signs nobody out, and nobody piles on it: a key that is cached
\* stays until a fetch that succeeds finds it retired, and however many calls
\* miss the cache, whatever keys they name, fetches begin ErrorTtl apart.
OutageKeepsKeys ==
  [][/\ cache # NoCache => /\ cache' # NoCache
                           /\ cache.keys \cap publishes \subseteq cache'.keys
     /\ fetching = NoCache /\ fetching' # NoCache /\ lastFetch # NoCache
          => time - lastFetch >= ErrorTtl]_keyVars
=============================================================================
