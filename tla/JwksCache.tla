------------------------------ MODULE JwksCache -------------------------------
(****************************************************************************)
(* The signing keys of the identity provider as the API caches them         *)
(* (JwksCache and OidcVerifier of api/oidc.py): refreshed when the cached   *)
(* document is too old and, no sooner than a floor after the last one, when *)
(* a token names a key it does not have.  The lock is held over the fetch,  *)
(* so one token is looked up at a time.  Claims and signatures are left     *)
(* out: a token is the key it names.                                        *)
(****************************************************************************)
EXTENDS Integers

CONSTANTS
  SigningKeys,
  NoToken, NoDocument,
  JwksTtl,          \* ttl_seconds
  MinRefresh,       \* min_refresh_seconds
  LastJwksTick

ASSUME JwksAssumption ==
  /\ JwksTtl \in Nat \ {0}
  /\ MinRefresh \in Nat /\ MinRefresh <= JwksTtl
  /\ LastJwksTick \in Nat

VARIABLES
  jwksClock,
  published,      \* the keys in the provider's document
  turned,         \* key -> when it last came into or left the document (history)
  keyset,         \* the cached document, or NoDocument
  fetchedAt,      \* _fetched_at
  fetching        \* the token the lock is held for, and the document on its way

jwksVars == <<jwksClock, published, turned, keyset, fetchedAt, fetching>>

InitJwks ==
  /\ jwksClock = 0
  /\ published = {}
  /\ turned = [k \in SigningKeys |-> 0]
  /\ keyset = NoDocument
  /\ fetchedAt = 0
  /\ fetching = NoToken

\* signing_key: the cache has the key; or a young document, which does not,
\* refuses it; or the document is fetched again.
KeysetFresh == keyset # NoDocument /\ jwksClock - fetchedAt < JwksTtl
Trusted(k) == KeysetFresh /\ k \in keyset
Floored(k) == KeysetFresh /\ k \notin keyset /\ jwksClock - fetchedAt < MinRefresh

----------------------------------------------------------------------------
\* A token the cache answers for changes nothing; another one waits for a fetch.
VerifyToken(k) ==
  /\ fetching = NoToken
  /\ ~Trusted(k) /\ ~Floored(k)
  /\ fetching' = [key |-> k, now |-> jwksClock, document |-> NoDocument]
  /\ UNCHANGED <<jwksClock, published, turned, keyset, fetchedAt>>

\* The provider answers the fetch (external).
ProviderAnswers ==
  /\ fetching # NoToken /\ fetching.document = NoDocument
  /\ fetching' = [fetching EXCEPT !.document = published]
  /\ UNCHANGED <<jwksClock, published, turned, keyset, fetchedAt>>

\* _refresh: the document is dated from before the fetch.
FetchReturns ==
  /\ fetching # NoToken /\ fetching.document # NoDocument
  /\ keyset' = fetching.document
  /\ fetchedAt' = fetching.now
  /\ fetching' = NoToken
  /\ UNCHANGED <<jwksClock, published, turned>>

\* A failed fetch refuses the token and leaves the cache as it was.
FetchFails ==
  /\ fetching # NoToken
  /\ fetching' = NoToken
  /\ UNCHANGED <<jwksClock, published, turned, keyset, fetchedAt>>

\* The provider rotates its keys (external).
PublishKeys(ks) ==
  /\ ks # published
  /\ published' = ks
  /\ turned' = [k \in SigningKeys |-> IF (k \in ks) = (k \in published) THEN turned[k]
                                                                      ELSE jwksClock]
  /\ UNCHANGED <<jwksClock, keyset, fetchedAt, fetching>>

JwksTick ==
  /\ jwksClock < LastJwksTick
  /\ jwksClock' = jwksClock + 1
  /\ UNCHANGED <<published, turned, keyset, fetchedAt, fetching>>

NextJwks ==
  \/ \E k \in SigningKeys : VerifyToken(k)
  \/ ProviderAnswers
  \/ FetchReturns
  \/ FetchFails
  \/ \E ks \in SUBSET SigningKeys : PublishKeys(ks)
  \/ JwksTick

----------------------------------------------------------------------------
JwksTypeOK ==
  /\ jwksClock \in 0..LastJwksTick
  /\ published \subseteq SigningKeys
  /\ turned \in [SigningKeys -> 0..LastJwksTick]
  /\ keyset \in (SUBSET SigningKeys) \cup {NoDocument}
  /\ fetchedAt \in 0..jwksClock
  /\ fetching \in [key : SigningKeys, now : 0..jwksClock,
                   document : (SUBSET SigningKeys) \cup {NoDocument}] \cup {NoToken}

\* A withdrawn key verifies no token once the TTL is over.
WithdrawnKeysFade ==
  \A k \in SigningKeys : Trusted(k) =>
    k \in published \/ jwksClock - turned[k] < JwksTtl

\* A new key is refused unasked only within the floor of its publication.
RotationsAreSeen ==
  \A k \in published : Floored(k) => jwksClock - turned[k] < MinRefresh
===============================================================================
