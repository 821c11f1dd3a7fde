----------------------------- MODULE MCServices -----------------------------
(***************************************************************************)
(* The models of the inbound half of redis_events, with faults, of the     *)
(* ledger plugins webvh and cheqd, of rpc and of multitenant_provider in   *)
(* one run.  They share no state: a behaviour is one of one part, with one *)
(* of its instances: RedisInbound with its own variables, the others with  *)
(* v1 to v15, of which those that are not used stay {}.                    *)
(***************************************************************************)
EXTENDS RedisInbound, Sequences, TLC

VARIABLES part, with, v1, v2, v3, v4, v5, v6, v7, v8, v9, v10, v11, v12, v13, v14, v15

Responses == INSTANCE RedisDirectResponse WITH
    Relays <- {"r1", "r2"}, Txns <- {"x1", "x2"}, Copies <- {"m1", "m2"},
    txnMap <- v1, caller <- v2, relayOf <- v3, inbound <- v4, responses <- v5, sent <- v6

\* Who witnesses, at once or not, how many operations and calls, and whether
\* keys are rotated and things fail.
Log(p) == INSTANCE WebvhLog WITH
    Mode <- p.mode, AutoAttest <- p.auto, Requests <- 1..p.n, Tasks <- 1..p.tasks,
    Prerotation <- p.rotates, Faults <- p.faults,
    log <- v1, entry <- v2, keys <- v3, wallet <- v4, local <- v5, task <- v6,
    pending <- v7, held <- v8, toWitness <- v9, toController <- v10,
    attested <- v11, submitted <- v12, told <- v13, closed <- v14, result <- v15
Logs ==
    LET L(m, a, n, t, r, f) ==
            [mode |-> m, auto |-> a, n |-> n, tasks |-> t, rotates |-> r, faults |-> f]
    IN  {L("agent", FALSE, 2, 1, FALSE, TRUE), L("agent", TRUE, 3, 1, FALSE, TRUE),
         L("agent", FALSE, 2, 2, FALSE, FALSE), L("agent", TRUE, 2, 2, TRUE, TRUE),
         L("self", FALSE, 2, 2, TRUE, TRUE), L("self", TRUE, 3, 2, TRUE, FALSE),
         L("none", FALSE, 2, 2, TRUE, TRUE), L("none", FALSE, 2, 2, FALSE, FALSE)}

\* Calls and handlers, two at a time, for a schema, a definition or lists; one
\* at a time for a request that is refused and made again.
Object(p) == INSTANCE WebvhResource WITH
    Schemas <- p.schemas, Definitions <- p.defs, Lists <- p.lists, InitialList <- "l1",
    Mode <- p.mode, AutoAttest <- p.auto, Faults <- p.faults,
    Tasks <- 1..p.tasks, MaxRequests <- p.n,
    server <- v1, links <- v2, reqs <- v3, local <- v4, result <- v5, task <- v6,
    index <- v7, update <- v8
Objects ==
    LET O(s, d, l, m, a, f, n, t) ==
            [schemas |-> s, defs |-> d, lists |-> l, mode |-> m, auto |-> a, faults |-> f,
             n |-> n, tasks |-> t]
    IN  {O({"s1"}, {}, {}, "agent", FALSE, TRUE, 1, 2), O({"s1"}, {}, {}, "agent", FALSE, TRUE, 2, 1),
         O({}, {"d1"}, {}, "agent", TRUE, TRUE, 3, 2),
         O({}, {}, {"l1"}, "agent", TRUE, TRUE, 2, 2),
         O({"s1"}, {}, {"l1", "l2"}, "none", FALSE, TRUE, 0, 2),
         O({"s1"}, {}, {"l1"}, "self", TRUE, TRUE, 2, 2)}

\* A DID that is made up, or one of a document with its seed as well.
Did(p) == INSTANCE CheqdDid WITH
    Dids <- {"d1"}, Given <- p.given, Tasks <- 1..p.tasks, Faults <- TRUE,
    MaxKeys <- 2, MaxDocs <- p.tasks,
    ledger <- v1, bound <- v2, wallet <- v3, keys <- v4, docs <- v5, task <- v6, reported <- v7
DidKinds == {[given |-> {}, tasks |-> 2], [given |-> {"g1"}, tasks |-> 1]}

\* Versions of a schema, their definitions and lists; or calls that overlap.
Ledger(p) == INSTANCE CheqdRegistry WITH
    Names <- {"n"}, Versions <- {1, 2}, Tags <- IF p THEN {"a"} ELSE {"a", "b"},
    Tasks <- IF p THEN {1, 2} ELSE {1}, Faults <- p, MaxResources <- IF p THEN 3 ELSE 5,
    ledger <- v1, task <- v2, registered <- v3

\* Two requests with two answers; one, with faults; two at a time.
Rpc(p) == INSTANCE DidcommRpc WITH
    Conns <- {"c"}, Threads <- p.threads, Answers <- p.answers, Tasks <- 1..p.tasks,
    Faults <- p.faults, MaxRecords <- 2,
    sent <- v1, received <- v2, cached <- v3, toResponder <- v4, toRequester <- v5,
    task <- v6, given <- v7, refused <- v8
Rpcs == {[threads |-> {"x", "y"}, answers |-> {"a", "b"}, tasks |-> 1, faults |-> FALSE],
         [threads |-> {"x"}, answers |-> {"a", "b"}, tasks |-> 2, faults |-> TRUE],
         [threads |-> {"x", "y"}, answers |-> {"a"}, tasks |-> 2, faults |-> FALSE]}

\* Calls one at a time, of a wallet of each kind.
Token == INSTANCE MultiToken WITH
    Wallets <- {"a", "b"}, Older <- {"a"}, Managed <- {"b"}, Tasks <- {1}, Lifetime <- 2,
    MaxTime <- 4, MaxTokens <- 3,
    now <- v1, latest <- v2, records <- v3, default <- v4, issued <- v5, task <- v6

Rest9 == v9 = {} /\ v10 = {} /\ v11 = {} /\ v12 = {} /\ v13 = {} /\ v14 = {} /\ v15 = {}
Rest6 == v6 = {} /\ v7 = {} /\ v8 = {} /\ Rest9
from9 == <<v9, v10, v11, v12, v13, v14, v15>>
from7 == <<v7, v8, from9>>
others == <<v1, v2, v3, v4, v5, v6, from7>>

AllInit ==
    /\ Init
    /\ \/ /\ part = "inbound" /\ with = {}
          /\ v1 = {} /\ v2 = {} /\ v3 = {} /\ v4 = {} /\ v5 = {} /\ Rest6
       \/ part = "responses" /\ with = {} /\ Responses!Init /\ v7 = {} /\ v8 = {} /\ Rest9
       \/ part = "log"    /\ \E p \in Logs : with = p /\ Log(p)!Init
       \/ part = "object" /\ (\E p \in Objects : with = p /\ Object(p)!Init)
                          /\ Rest9
       \/ part = "did"    /\ (\E p \in DidKinds : with = p /\ Did(p)!Init) /\ v8 = {} /\ Rest9
       \/ part = "ledger" /\ (\E p \in BOOLEAN : with = p /\ Ledger(p)!Init)
                          /\ v4 = {} /\ v5 = {} /\ Rest6
       \/ part = "rpc"    /\ (\E p \in Rpcs : with = p /\ Rpc(p)!Init) /\ Rest9
       \/ part = "token"  /\ with = {} /\ Token!Init /\ v7 = {} /\ v8 = {} /\ Rest9
AllNext ==
    /\ UNCHANGED <<part, with>>
    /\ \/ part = "inbound" /\ Next /\ UNCHANGED others
       \/ /\ UNCHANGED vars
          /\ \/ part = "responses" /\ Responses!Next /\ UNCHANGED from7
             \/ part = "log"    /\ \E p \in Logs : with = p /\ Log(p)!Next
             \/ part = "object" /\ (\E p \in Objects : with = p /\ Object(p)!Next)
                                /\ UNCHANGED from9
             \/ part = "did"    /\ (\E p \in DidKinds : with = p /\ Did(p)!Next)
                                /\ UNCHANGED <<v8, from9>>
             \/ part = "ledger" /\ (\E p \in BOOLEAN : with = p /\ Ledger(p)!Next)
                                /\ UNCHANGED <<v4, v5, v6, from7>>
             \/ part = "rpc"    /\ (\E p \in Rpcs : with = p /\ Rpc(p)!Next) /\ UNCHANGED from9
             \/ part = "token"  /\ Token!Next /\ UNCHANGED from7
AllSpec == AllInit /\ [][AllNext]_<<part, with, vars, others>>

OfLog(P(_))    == part = "log"    => \A p \in Logs : with = p => P(p)
OfObject(P(_)) == part = "object" => \A p \in Objects : with = p => P(p)
OfDid(P(_))    == part = "did"    => \A p \in DidKinds : with = p => P(p)
OfLedger(P(_)) == part = "ledger" => \A p \in BOOLEAN : with = p => P(p)
OfRpc(P(_))    == part = "rpc"    => \A p \in Rpcs : with = p => P(p)

Types ==
    /\ part = "inbound" => TypeOK
    /\ OfLog(LAMBDA p : Log(p)!TypeOK)
    /\ OfObject(LAMBDA p : Object(p)!TypeOK)
    /\ OfDid(LAMBDA p : Did(p)!TypeOK)
    /\ OfLedger(LAMBDA p : Ledger(p)!TypeOK)
    /\ OfRpc(LAMBDA p : Rpc(p)!TypeOK)
    /\ part = "token" => Token!TypeOK

\* Who is answered gets the one answer that was given to the message: a caller
\* of a relay, of each copy of its message that was pushed (relay.py:75, :171),
\* and the requester of a remote call, whose record can be found as soon as its
\* request is out (rpc routes.py:214).
AnswersMatch ==
    /\ part = "responses" => Responses!AnsweredOnce
    /\ OfRpc(LAMBDA p : Rpc(p)!AnswerWasGiven /\ Rpc(p)!NoneRefused)

\* No log entry, AnonCreds object or status list of an endorsed webvh controller
\* reaches the server that its witness has not signed, whatever the order of
\* requests, answers and time-outs (log_entry/handlers.py:121,
\* attested_resource/handlers.py:141).  The registry definition's links are not
\* among them: registry.py:429 and :505 write them without the witness.
OnlyAttested ==
    /\ OfLog(LAMBDA p : Log(p)!SubmittedAttested)
    /\ OfObject(LAMBDA p : Object(p)!OnlyAttested)

\* What a caller of webvh is told is done is on the server, as is a log whose DID
\* is stored (manager.py:168).  Without an endorsement that is so of the objects
\* that are stored as finished and of the lists that are linked as well
\* (registry.py:429, :505); with one both come before the upload.
ReportedPublished ==
    /\ OfLog(LAMBDA p : Log(p)!SuccessIsPublished)
    /\ OfObject(LAMBDA p : Object(p)!FinishedUploaded)

\* A pending request is kept until it is answered (protocols/routes.py:78), the
\* answer is used however late (manager.py:168), and a call that is retried does
\* not make it again (registry.py:1085) unless the index has lost it to another
\* update (base_record.py:113, :165).
RequestsKept ==
    /\ OfLog(LAMBDA p : Log(p)!ApprovalKept /\ Log(p)!SignatureSubmitted)
    /\ OfObject(LAMBDA p : Object(p)!AskedOnce)

\* The wallet of a cheqd issuer and the ledger agree, whichever call of the
\* registrar fails: the key, the endpoint and the deactivation of a DID, the
\* objects that were registered, and of registrations that come one at a time
\* the list that is found for a registry (CheqdDid, CheqdRegistry).
LedgerAgrees ==
    /\ OfDid(LAMBDA p : Did(p)!Signable /\ Did(p)!EndpointPublished /\ Did(p)!FlagIsTrue)
    /\ OfLedger(LAMBDA p : Ledger(p)!RegisteredThere /\ (p \/ Ledger(p)!ListIsOwn))

\* A token that was issued and is not expired is accepted, when the calls for
\* tokens do not overlap (MultiToken!StaysValid).
StaysValid == part = "token" => Token!StaysValid

Symmetry == Permutations(Agents) \cup Permutations(Handlers)
=============================================================================
