---------------------------- MODULE ProviderKeys ----------------------------
(***************************************************************************)
(* The trust in one wallet provider, whose keys verify the attestations of *)
(* wallets: its row in the admin database, the cache of each worker        *)
(* process of the admin service, and the key set that the provider itself  *)
(* publishes at jwks_uri.                                                  *)
(*                                                                         *)
(* The handlers of one worker interleave where they await the database or  *)
(* the provider; what they do to the cache in between is one step.         *)
(***************************************************************************)
EXTENDS Naturals

CONSTANTS
    Workers,     \* processes of the admin service
    Tasks,       \* slots for concurrent requests, in each of them
    KeyIds,      \* key identifiers
    Ttl,         \* time to live of a cache entry
    Timeout,     \* the longest a handler waits for the database or the provider
    MaxTime,     \* bound: the clock
    MaxUpdates   \* bound: writes of the row, and changes of what is published

VARIABLES
    now,        \* the clock
    row,        \* the provider's row: is it there and active, and its key set
    since,      \* when the row was deactivated; 0 while it is active
    published,  \* the key set at jwks_uri
    updates,    \* changes so far
    cache,      \* the entry in each worker's cache
    task,       \* requests in progress
    trusted     \* the last key that was answered, by which entry

vars == <<now, row, since, published, updates, cache, task, trusted>>

NoEntry == [at |-> 0]
Idle    == [pc |-> "idle"]

Init ==
    /\ now = 1
    /\ \E uri \in BOOLEAN : row = [active |-> TRUE, jwks |-> KeyIds, uri |-> uri]
    /\ since = 0 /\ published = KeyIds /\ updates = 0
    /\ cache = [w \in Workers |-> NoEntry]
    /\ task = [t \in Workers \X Tasks |-> Idle]
    /\ trusted = [key |-> 0]

Tick ==
    /\ now < MaxTime
    /\ \A t \in Workers \X Tasks : task[t].pc # "idle" => now < task[t].at + Timeout
    /\ now' = now + 1
    /\ trusted' = [key |-> 0]
    /\ UNCHANGED <<row, since, published, updates, cache, task>>

\* put: the entry is new, whatever was there.
Put(w, jwks, uri) ==
    cache' = [cache EXCEPT ![w] = [at |-> now, jwks |-> jwks, uri |-> uri, refreshed |-> FALSE]]
Invalidate(w) == cache' = [cache EXCEPT ![w] = NoEntry]

-----------------------------------------------------------------------------
(***************************************************************************)
(* The administrator's writes, and the provider's own.                     *)
(***************************************************************************)
\* update: the row is committed and then the cache of the worker that served
\* it is put right.
StartUpdate(w, t) ==
    /\ task[<<w, t>>] = Idle /\ updates < MaxUpdates
    /\ \E active \in BOOLEAN, jwks \in SUBSET KeyIds :
          row' = [row EXCEPT !.active = active, !.jwks = jwks]
    /\ since' = IF row'.active THEN 0 ELSE IF row.active THEN now ELSE since
    /\ updates' = updates + 1
    /\ task' = [task EXCEPT ![<<w, t>>] = [pc |-> "refresh", at |-> now, row |-> row']]
    /\ UNCHANGED <<now, published, cache, trusted>>
FinishUpdate(w, t) ==
    /\ task[<<w, t>>].pc = "refresh"
    /\ LET r == task[<<w, t>>].row
       IN  IF r.active THEN Put(w, r.jwks, r.uri) ELSE Invalidate(w)
    /\ task' = [task EXCEPT ![<<w, t>>] = Idle]
    /\ UNCHANGED <<now, row, since, published, updates, trusted>>

\* delete: the cache is put right before the row goes.
StartDelete(w, t) ==
    /\ task[<<w, t>>] = Idle /\ row.active /\ updates < MaxUpdates
    /\ Invalidate(w)
    /\ updates' = updates + 1
    /\ task' = [task EXCEPT ![<<w, t>>] = [pc |-> "delete", at |-> now]]
    /\ UNCHANGED <<now, row, since, published, trusted>>
FinishDelete(w, t) ==
    /\ task[<<w, t>>].pc = "delete"
    /\ row' = [row EXCEPT !.active = FALSE]
    /\ since' = IF row.active THEN now ELSE since
    /\ task' = [task EXCEPT ![<<w, t>>] = Idle]
    /\ UNCHANGED <<now, published, updates, cache, trusted>>

Publish ==
    /\ updates < MaxUpdates
    /\ \E jwks \in SUBSET KeyIds : published' = jwks
    /\ updates' = updates + 1
    /\ UNCHANGED <<now, row, since, cache, task, trusted>>

-----------------------------------------------------------------------------
(***************************************************************************)
(* lookup_wallet_provider.                                                 *)
(***************************************************************************)
\* Bug: an entry is stale only when it is not there.
NeverStale(e) == e = NoEntry
\* is_stale
Stale(e) == e = NoEntry \/ now >= e.at + Ttl

\* get_key of a cached entry answers at once when it has the key.
Answer(w, k) == trusted' = [key |-> k, entry |-> cache[w]]

Lookup(w, t, k) ==
    /\ task[<<w, t>>] = Idle
    /\ IF Stale(cache[w])
       THEN /\ task' = [task EXCEPT ![<<w, t>>] = [pc |-> "revalidate", at |-> now, kid |-> k, row |-> row]]
            /\ UNCHANGED <<cache, trusted>>
       ELSE IF k \in cache[w].jwks
       THEN Answer(w, k) /\ UNCHANGED <<cache, task>>
       ELSE /\ cache[w].uri
            /\ task' = [task EXCEPT ![<<w, t>>] = [pc |-> "fetch", at |-> now, kid |-> k,
                                                   jwks |-> published, ok |-> TRUE]]
            /\ UNCHANGED <<cache, trusted>>
    /\ UNCHANGED <<now, row, since, published, updates>>

\* Bug: the row is put into the cache whether or not it is active.
AnyRow(r) == TRUE
Active(r) == r.active
\* _revalidate_provider: the row that was read is put or the entry dropped, and
\* the look-up starts over with it.
Revalidated(w, t) ==
    /\ task[<<w, t>>].pc = "revalidate"
    /\ LET r == task[<<w, t>>].row
       IN  IF Active(r)
           THEN /\ Put(w, r.jwks, r.uri)
                /\ IF task[<<w, t>>].kid \in r.jwks
                   THEN trusted' = [key |-> task[<<w, t>>].kid, entry |-> cache'[w]]
                   ELSE UNCHANGED trusted
           ELSE Invalidate(w) /\ UNCHANGED trusted
    /\ task' = [task EXCEPT ![<<w, t>>] = Idle]
    /\ UNCHANGED <<now, row, since, published, updates>>

\* The fetch after a miss: the entry is replaced, also when it has changed or
\* gone meanwhile, and is as good as new; or the fetch fails and nothing is.
Fetched(w, t) ==
    /\ task[<<w, t>>].pc = "fetch"
    /\ \/ /\ cache' = [cache EXCEPT ![w] = [at |-> now, jwks |-> task[<<w, t>>].jwks,
                                           uri |-> TRUE, refreshed |-> TRUE]]
          /\ IF task[<<w, t>>].kid \in task[<<w, t>>].jwks
             THEN trusted' = [key |-> task[<<w, t>>].kid, entry |-> cache'[w]]
             ELSE UNCHANGED trusted
       \/ UNCHANGED <<cache, trusted>>
    /\ task' = [task EXCEPT ![<<w, t>>] = Idle]
    /\ UNCHANGED <<now, row, since, published, updates>>

Next ==
    \/ Tick \/ Publish
    \/ \E w \in Workers, t \in Tasks :
          \/ StartUpdate(w, t) \/ FinishUpdate(w, t)
          \/ StartDelete(w, t) \/ FinishDelete(w, t)
          \/ \E k \in KeyIds : Lookup(w, t, k)
          \/ Revalidated(w, t) \/ Fetched(w, t)
Spec == Init /\ [][Next]_vars

-----------------------------------------------------------------------------
\* Entries and rows are of the kinds the code makes.
TypeOK ==
    /\ row.jwks \subseteq KeyIds /\ published \subseteq KeyIds /\ since \in 0..now
    /\ \A w \in Workers : cache[w] = NoEntry \/ (cache[w].at \in 1..now /\ cache[w].jwks \subseteq KeyIds)

\* A provider that is deactivated is not trusted by any worker for longer than
\* an entry lives and a handler waits (internal_service.py:106), unless its
\* entry was renewed from jwks_uri, which starts its life again.
Overdue == since # 0 /\ now > since + Ttl + Timeout
Deactivated == trusted'.key # 0 /\ trusted' # trusted /\ Overdue' => trusted'.entry.refreshed
DeactivationSeen == [][Deactivated]_vars
=============================================================================
