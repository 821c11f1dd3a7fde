------------------------------ MODULE MCOid4vc ------------------------------
(***************************************************************************)
(* The models of the oid4vc plugin and its authorization server in one     *)
(* run.  They share no state: a behaviour is one of one part, TokenService *)
(* with its own variables, the others with v1 to v8.  Unused variables     *)
(* stay {}.                                                                *)
(***************************************************************************)
EXTENDS TokenService

VARIABLES part, v1, v2, v3, v4, v5, v6, v7, v8

\* One request at a time, three exchanges: with the nonce endpoint and without.
Alone(endpoint) == INSTANCE Oid4vciExchange WITH
    Tasks <- {"t1"}, NonceEndpoint <- endpoint,
    MaxExchanges <- 3, MaxCodes <- 2, MaxNonces <- 2,
    rec <- v1, last <- v2, nonces <- v3, codes <- v4, tokens <- v5, made <- v6, task <- v7
\* Requests that overlap.
Together(endpoint) == INSTANCE Oid4vciExchange WITH
    Tasks <- {"t1", "t2"}, NonceEndpoint <- endpoint,
    MaxExchanges <- 2, MaxCodes <- 1, MaxNonces <- 2,
    rec <- v1, last <- v2, nonces <- v3, codes <- v4, tokens <- v5, made <- v6, task <- v7

\* One JWT, a proof of possession or an assertion, and two requests with it.
Jti(proofs) == INSTANCE JtiReplay WITH
    Proofs <- proofs, Assertions <- {"j"} \ proofs, Requests <- {"q1", "q2"},
    Skew <- 1, Leeway <- 1, MaxTime <- 5, MaxUses <- 3,
    now <- v1, claim <- v2, seen <- v3, task <- v4, uses <- v5
Signer == INSTANCE TenantKeys WITH
    Keys <- {"k1"}, Fetches <- {"f1"}, MaxTtl <- 3, Grace <- 3, CacheTtl <- 1,
    Timeout <- 1, MaxTime <- 6, MaxTokens <- 1, MaxUpdates <- 2,
    now <- v1, key <- v2, signed <- v3, updates <- v4, fetch <- v5, cache <- v6
Providers == INSTANCE ProviderKeys WITH
    Workers <- {"w1", "w2"}, Tasks <- {"t1"}, KeyIds <- {1}, Ttl <- 2, Timeout <- 1,
    MaxTime <- 6, MaxUpdates <- 2,
    now <- v1, row <- v2, since <- v3, published <- v4, updates <- v5, cache <- v6,
    task <- v7, trusted <- v8

\* One definition: a presentation definition that changes in one part, a query
\* beside identities that come and go in the other.
Vp(queries) == INSTANCE Oid4vp WITH
    Defs <- {"d"}, Queries <- queries, Names <- IF queries = {} THEN {} ELSE {"n1"}, Did <- "did:jwk",
    Tasks <- {"t1", "t2"}, MaxRequests <- 1, MaxVersion <- IF queries = {} THEN 2 ELSE 1,
    MaxNonces <- 2, MaxVerdicts <- 2,
    defs <- v1, x509 <- v2, reqs <- v3, pres <- v4, task <- v5, nonces <- v6,
    handed <- v7, verdicts <- v8

\* Credentials of up to three levels, lists of up to two elements.
Leaf(x)   == [kind |-> "leaf", of |-> x]
Object(f) == [kind |-> "object", of |-> f]
List(s)   == [kind |-> "list", of |-> s]
Leaves == {Leaf("v"), Leaf("w")}
Flat   == Leaves \cup {Object([a |-> x]) : x \in Leaves}
                 \cup {List(<<>>)} \cup {List(<<x, y>>) : x, y \in Leaves}
Components == {<<"key", "a">>, <<"key", "b">>, <<"index", 0>>, <<"index", 1>>, <<"all">>}
Path == INSTANCE ClaimsPath WITH
    Sources <- {Object([a |-> x, b |-> y]) : x \in Flat, y \in Leaves}
               \cup {Object([a |-> List(<<x, y>>)]) : x, y \in Flat},
    Paths <- UNION {[1..n -> Components] : n \in 1..3}, Depth <- 3,
    source <- v1, path <- v2, k <- v3, selected <- v4, raised <- v5

\* Alternatives of credentials, required and not, and alternatives of claims,
\* one of them with a claim that the query may not define.
Alternatives(o, r) == [options |-> o, required |-> r]
Query == INSTANCE Dcql WITH
    Creds <- <<"c1", "c2">>, Claims <- {"x", "y"},
    ClaimSets <- {<<>>, << <<"x">>, <<"y">> >>, << <<"x", "y">> >>},
    CredSets <- {<<>>,
                 <<Alternatives(<<{"c1"}, {"c2"}>>, TRUE)>>,
                 <<Alternatives(<<{"c1", "c2"}>>, TRUE)>>,
                 <<Alternatives(<<{"c1"}>>, FALSE), Alternatives(<<{"c2"}>>, TRUE)>>},
    query <- v1, token <- v2, k <- v3, verified <- v4, result <- v5

From6 == v6 = {} /\ v7 = {} /\ v8 = {}
From1 == v1 = {} /\ v2 = {} /\ v3 = {} /\ v4 = {} /\ v5 = {} /\ From6
others == <<v1, v2, v3, v4, v5, v6, v7, v8>>

AllInit ==
    /\ Init
    /\ \/ part = "tokens" /\ From1
       \/ part = "alone"    /\ \E e \in BOOLEAN : Alone(e)!Init /\ v8 = e
       \/ part = "together" /\ \E e \in BOOLEAN : Together(e)!Init /\ v8 = e
       \/ part = "proof"    /\ Jti({"j"})!Init /\ From6
       \/ part = "assert"   /\ Jti({})!Init /\ From6
       \/ part = "signer"   /\ Signer!Init /\ v7 = {} /\ v8 = {}
       \/ part = "provider" /\ Providers!Init
       \/ part = "pex"      /\ Vp({})!Init
       \/ part = "dcql"     /\ Vp({"d"})!Init
       \/ part = "path"     /\ Path!Init /\ From6
       \/ part = "query"    /\ Query!Init /\ From6
AllNext ==
    /\ UNCHANGED part
    /\ \/ part = "tokens" /\ Next /\ UNCHANGED others
       \/ /\ UNCHANGED vars
          /\ \/ part = "alone"    /\ UNCHANGED v8 /\ \E e \in BOOLEAN : v8 = e /\ Alone(e)!Next
             \/ part = "together" /\ UNCHANGED v8 /\ \E e \in BOOLEAN : v8 = e /\ Together(e)!Next
             \/ part = "proof"    /\ Jti({"j"})!Next /\ UNCHANGED <<v6, v7, v8>>
             \/ part = "assert"   /\ Jti({})!Next /\ UNCHANGED <<v6, v7, v8>>
             \/ part = "signer"   /\ Signer!Next /\ UNCHANGED <<v7, v8>>
             \/ part = "provider" /\ Providers!Next
             \/ part = "pex"      /\ Vp({})!Next
             \/ part = "dcql"     /\ Vp({"d"})!Next
             \/ part = "path"     /\ Path!Next /\ UNCHANGED <<v6, v7, v8>>
             \/ part = "query"    /\ Query!Next /\ UNCHANGED <<v6, v7, v8>>
AllSpec == AllInit /\ [][AllNext]_<<part, vars, others>>

Exchange(Alone1(_), Together1(_)) ==
    /\ part = "alone"    => \A e \in BOOLEAN : v8 = e => Alone1(e)
    /\ part = "together" => \A e \in BOOLEAN : v8 = e => Together1(e)

Types ==
    /\ part = "tokens"   => TypeOK
    /\ Exchange(LAMBDA e : Alone(e)!TypeOK, LAMBDA e : Together(e)!TypeOK)
    /\ part = "proof"    => Jti({"j"})!TypeOK
    /\ part = "assert"   => Jti({})!TypeOK
    /\ part = "signer"   => Signer!TypeOK
    /\ part = "provider" => Providers!TypeOK
    /\ part = "pex"      => Vp({})!TypeOK
    /\ part = "dcql"     => Vp({"d"})!TypeOK

\* What is recorded as issued was made, no exchange gives two credentials and
\* no two open ones share a refresh id; the last two for requests that do not
\* overlap (Oid4vciExchange; see the run exchange_once).
ExchangeOnce ==
    Exchange(LAMBDA e : Alone(e)!IssuedMeansMade /\ Alone(e)!OneCredential /\ Alone(e)!OneOpen,
             LAMBDA e : Together(e)!IssuedMeansMade)

\* Within the life of a row that a committed request left of it, a one-time JWT
\* is not accepted again, also by two requests at a time (JtiReplay,
\* jti_cache.py:46).  Introspection leaves no row.
SpacedUses ==
    /\ part = "proof"  => Jti({"j"})!SpacedUses
    /\ part = "assert" => Jti({})!SpacedUses

\* What was signed and has not expired verifies with the keys that are served,
\* and nothing does with a key that was revoked (TenantKeys).
KeysServed == part = "signer" => Signer!KeysServed

\* A wallet provider that was deactivated is not trusted any more by a worker
\* that reads its keys later than the cache keeps them (ProviderKeys).
DeactivationSeen == [][part = "provider" => Providers!Deactivated]_<<part, vars, others>>

\* A presentation request is fetched once, an honest answer is accepted unless
\* an early one took the nonce, and of two answers one is kept as a whole
\* (Oid4vp).
AnswersApart ==
    /\ part = "pex"  => Vp({})!AnswersApart
    /\ part = "dcql" => Vp({"d"})!AnswersApart

\* A claims path selects what its definition says, and a presentation of which
\* each part can be read is verified when it has what its query asks for, and not
\* otherwise (dcql.py:79, :416).
QueriesAnswered ==
    /\ part = "path"  => Path!SelectsDenoted
    /\ part = "query" => Query!VerdictIsAsked
=============================================================================
