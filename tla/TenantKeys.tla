----------------------------- MODULE TenantKeys -----------------------------
(***************************************************************************)
(* Signing keys of one tenant of the oid4vc authorization server: the      *)
(* admin service makes keys, changes their status, signs with them and     *)
(* publishes them; the tenant service keeps what the admin service         *)
(* publishes for a while and serves it to those who verify tokens.         *)
(***************************************************************************)
EXTENDS Naturals, FiniteSets

CONSTANTS
    Keys,      \* key identifiers
    Fetches,   \* concurrent fetches of the tenant service
    MaxTtl,    \* MAX_TTL_SECONDS, the longest life of a token
    Grace,     \* setting KEY_VERIFY_GRACE_TTL
    CacheTtl,  \* setting CONTEXT_CACHE_TTL
    Timeout,   \* the longest a fetch takes
    MaxTime,   \* bound: the clock
    MaxTokens, \* bound: tokens signed
    MaxUpdates \* bound: changes of status

VARIABLES
    now,      \* the clock of both services
    key,      \* rows of the keys
    signed,   \* tokens signed: key, time and expiry
    updates,  \* number of changes of status
    fetch,    \* fetches in progress
    cache     \* the tenant's context in the tenant service

vars == <<now, key, signed, updates, fetch, cache>>

Times  == 1..MaxTime
Never  == 0
NoKey  == [status |-> "none"]
Status == {"active", "retired", "revoked"}
Key    == [status : Status, not_before : Times, not_after : Times \cup {Never}, updated_at : Times]
Token  == [key : Keys, at : Times, exp : 1..(MaxTime + MaxTtl)]
NoFetch == [pc |-> "idle"]

Init ==
    /\ now = 1
    /\ key = [k \in Keys |-> NoKey]
    /\ signed = {} /\ updates = 0
    /\ fetch = [f \in Fetches |-> NoFetch]
    /\ cache = [at |-> Never, keys |-> {}, failed |-> FALSE]

\* A fetch that takes too long is given up by its client.
Tick ==
    /\ now < MaxTime
    /\ \A f \in Fetches : fetch[f].pc = "read" => now < fetch[f].at + Timeout
    /\ now' = now + 1
    /\ UNCHANGED <<key, signed, updates, fetch, cache>>

-----------------------------------------------------------------------------
Exists(k) == key[k].status # "none"

\* is_time_valid
TimeValid(r, t) == r.not_before <= t /\ (r.not_after = Never \/ t < r.not_after)

\* generate_keypair
GenerateKeypair(k) ==
    /\ ~Exists(k)
    /\ \E s \in {"active", "retired"}, nb \in now..(now + 1), na \in {Never, now + 2} :
          key' = [key EXCEPT ![k] = [status |-> s, not_before |-> nb,
                                     not_after |-> IF na > MaxTime THEN Never ELSE na,
                                     updated_at |-> now]]
    /\ \A r \in {key'[k]} : r.not_before \in Times
    /\ UNCHANGED <<now, signed, updates, fetch, cache>>

\* update_key_status
UpdateKeyStatus(k) ==
    /\ Exists(k) /\ updates < MaxUpdates
    /\ \E s \in Status : key' = [key EXCEPT ![k].status = s, ![k].updated_at = now]
    /\ updates' = updates + 1
    /\ UNCHANGED <<now, signed, fetch, cache>>

\* Bug: a key that was retired still signs.
NotRevoked(r) == r.status \in {"active", "retired"}
MaySign(r) == r.status = "active"
Usable(k) == MaySign(key[k]) /\ TimeValid(key[k], now)

\* A token does not outlive its key.
WithinKey(r, exp) == r.not_after = Never \/ exp <= r.not_after

\* sign_tenant_jwt.  Without a preferred key the latest that may sign is taken.
SignJwt(preferred) ==
    /\ Cardinality(signed) < MaxTokens
    /\ LET usable == {k \in Keys : Exists(k) /\ Usable(k)}
           latest == {k \in usable : \A l \in usable : key[l].not_before <= key[k].not_before}
       IN  \E k \in IF preferred \in usable THEN {preferred} ELSE latest,
              exp \in (now + 1)..(now + MaxTtl) :
              /\ WithinKey(key[k], exp)
              /\ signed' = signed \cup {[key |-> k, at |-> now, exp |-> exp]}
    /\ UNCHANGED <<now, key, updates, fetch, cache>>

-----------------------------------------------------------------------------
\* Bug: a retired key is published no more.
ActiveOnly(r, t) == r.status = "active" /\ TimeValid(r, t)
\* Bug: revoked keys are kept for the grace time, as retired ones are.
WithRevoked(r, t) == r.status = "active" \/ t < r.updated_at + Grace
\* get_tenant_jwks
Included(r, t) ==
    \/ r.status = "active" /\ (TimeValid(r, t) \/ (r.not_after # Never /\ t < r.not_after + Grace))
    \/ r.status = "retired" /\ t < r.updated_at + Grace
Jwks(t) == {k \in Keys : Exists(k) /\ Included(key[k], t)}

\* Bug: what was fetched is kept.
EverFresh(c) == c.at # Never
Fresh(c) == c.at # Never /\ now < c.at + CacheTtl

\* get_tenant_ctx when there is nothing fresh: the admin service answers ...
ReadJwks(f) ==
    /\ fetch[f] = NoFetch /\ ~Fresh(cache)
    /\ \E failed \in BOOLEAN :
          fetch' = [fetch EXCEPT ![f] =
                      [pc |-> "read", at |-> now, failed |-> failed,
                       keys |-> IF failed THEN {} ELSE Jwks(now)]]
    /\ UNCHANGED <<now, key, signed, updates, cache>>
\* ... and the answer is kept from when it comes.  A failure counts as no keys.
StoreCtx(f) ==
    /\ fetch[f].pc = "read"
    /\ cache' = [at |-> now, keys |-> fetch[f].keys, failed |-> fetch[f].failed]
    /\ fetch' = [fetch EXCEPT ![f] = NoFetch]
    /\ UNCHANGED <<now, key, signed, updates>>

Next ==
    \/ Tick
    \/ \E k \in Keys : GenerateKeypair(k) \/ UpdateKeyStatus(k) \/ SignJwt(k)
    \/ \E f \in Fetches : ReadJwks(f) \/ StoreCtx(f)
Spec == Init /\ [][Next]_vars

-----------------------------------------------------------------------------
\* Rows, tokens and the cache are of the kinds the code makes.
TypeOK ==
    /\ \A k \in Keys : key[k] = NoKey \/ key[k] \in Key
    /\ signed \subseteq Token
    /\ cache.at \in 0..now /\ cache.keys \subseteq Keys

Unexpired  == {t \in signed : now < t.exp}
Trusted(t) == key[t.key].status # "revoked"

\* A token that is not expired can be verified with what the admin service
\* publishes, also after its key was retired or has run out, unless the key
\* was revoked (internal_service.py:70).  This takes a grace that is no
\* shorter than the life of a token.
SignedIsPublished == \A t \in Unexpired : Trusted(t) => t.key \in Jwks(now)

\* And with what the tenant service keeps, once the cache has had time to turn
\* over since the token was signed and its key last changed, and unless a
\* failed read was kept (deps.py:81).
Settled(t) == now >= t + CacheTtl + Timeout
SignedIsServed ==
    \A t \in Unexpired :
        Trusted(t) /\ Fresh(cache) /\ ~cache.failed
            /\ Settled(t.at) /\ Settled(key[t.key].updated_at)
            => t.key \in cache.keys

\* A key that was revoked is not served for longer than that.
RevokedGone ==
    \A k \in Keys :
        Exists(k) /\ key[k].status = "revoked" /\ Settled(key[k].updated_at)
            => ~(Fresh(cache) /\ k \in cache.keys)

\* Whoever verifies has the keys it needs and none that was revoked.
KeysServed == SignedIsPublished /\ SignedIsServed /\ RevokedGone
=============================================================================
