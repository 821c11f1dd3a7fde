------------------------------ MODULE CheqdDid ------------------------------
(***************************************************************************)
(* The DID manager of the cheqd plugin.  An operation on the ledger takes  *)
(* two calls of the registrar: the first opens a job and returns what has  *)
(* to be signed, by the key whose kid it names, and the second submits the *)
(* signatures.  What the wallet knows of a DID is changed by calls of its  *)
(* own, before and after.                                                  *)
(***************************************************************************)
EXTENDS Naturals, Sequences

CONSTANTS
    Dids,     \* DIDs with an id that create makes up
    Given,    \* DIDs of documents that callers give, of the key of their seed
    Tasks,    \* slots for concurrent calls
    Faults,   \* the registrar may fail, and calls may be interrupted
    MaxKeys,  \* bound: keys created
    MaxDocs   \* bound: updates

VARIABLES
    ledger,   \* of each DID its key, its documents and whether it is deactivated
    bound,    \* keys assigned to the kid of each DID
    wallet,   \* the record of each DID
    keys,     \* keys created; key 0 is that of the seed
    docs,     \* updates made up
    task,     \* calls in progress
    reported  \* documents that calls returned

vars == <<ledger, bound, wallet, keys, docs, task, reported>>

All     == Dids \cup Given
Nothing == [key |-> "none"]
NoInfo  == [posted |-> "none"]
Idle    == [pc |-> "idle"]
SeedKey == 0

Init ==
    /\ ledger = [d \in All |-> Nothing]
    /\ bound = [d \in All |-> {}]
    /\ wallet = [d \in All |-> NoInfo]
    /\ keys = {} /\ docs = 0
    /\ task = [t \in Tasks |-> Idle] /\ reported = {}

Goto(t, pc) == task' = [task EXCEPT ![t].pc = pc]
Fail(t)     == task' = [task EXCEPT ![t] = Idle]
Active(d)   == ledger[d] # Nothing /\ ~ledger[d].off
Current(d)  == ledger[d].docs[Len(ledger[d].docs)]
Fresh       == 1..MaxKeys \ keys

-----------------------------------------------------------------------------
(* create *)

\* A document of its own has the new key; one that is given has that of the
\* seed, whether or not the seed comes with it.  A seed's key is made once.
Create(t, d, k) ==
    /\ task[t] = Idle /\ k \notin keys
    /\ IF d \in Dids THEN \A s \in Tasks : task[s] # Idle => task[s].did # d
                     ELSE TRUE
    /\ d \in Dids => k # SeedKey /\ ledger[d] = Nothing /\ bound[d] = {}
    /\ keys' = keys \cup {k}
    /\ task' = [task EXCEPT ![t] =
          [pc |-> "request", op |-> "create", did |-> d, key |-> k, info |-> NoInfo, by |-> {},
           doc |-> [key |-> IF d \in Given THEN SeedKey ELSE k, endpoint |-> 0]]]
    /\ UNCHANGED <<ledger, bound, wallet, docs, reported>>

\* Bug: the kid is assigned when the DID is stored.
AssignLate(t) ==
    /\ task[t].pc = "assign"
    /\ task' = [task EXCEPT ![t].pc = "submit", ![t].by = {task[t].key}]
    /\ UNCHANGED <<ledger, bound, wallet, keys, docs, reported>>
\* The kid of the signing request is assigned before anything is published.
Assign(t) ==
    /\ task[t].pc = "assign"
    /\ bound' = [bound EXCEPT ![task[t].did] = @ \cup {task[t].key}]
    /\ Goto(t, "sign")
    /\ UNCHANGED <<ledger, wallet, keys, docs, reported>>
\* create_public_did, and the kid once more.
StoreDid(t) ==
    /\ task[t].pc = "store"
    /\ wallet[task[t].did] = NoInfo
    /\ wallet' = [wallet EXCEPT ![task[t].did] = [posted |-> TRUE, off |-> FALSE, endpoint |-> 0]]
    /\ Goto(t, "assign again")
    /\ UNCHANGED <<ledger, bound, keys, docs, reported>>
StoredAlready(t) ==
    /\ task[t].pc = "store" /\ wallet[task[t].did] # NoInfo /\ Fail(t)
    /\ UNCHANGED <<ledger, bound, wallet, keys, docs, reported>>
AssignAgain(t) ==
    /\ task[t].pc = "assign again"
    /\ bound' = [bound EXCEPT ![task[t].did] = @ \cup {task[t].key}]
    /\ Goto(t, "return")
    /\ UNCHANGED <<ledger, wallet, keys, docs, reported>>

-----------------------------------------------------------------------------
(* update, deactivate and set_did_endpoint *)

\* Both resolve the DID first, which must be there and active.
Change(t, d, op, endpoint) ==
    /\ task[t] = Idle /\ Active(d)
    /\ op = "update" => docs < MaxDocs
    /\ docs' = IF op = "update" THEN docs + 1 ELSE docs
    /\ task' = [task EXCEPT ![t] =
          [pc |-> "request", op |-> op, did |-> d, info |-> NoInfo, by |-> {},
           doc |-> [key |-> ledger[d].key, endpoint |-> endpoint]]]
    /\ UNCHANGED <<ledger, bound, wallet, keys, reported>>

\* set_did_endpoint, of the endpoint or of another service, reads the record.
\* The document of a DID that was posted is resolved, changed and given to
\* update, which resolves it again.
SetEndpoint(t, d, op) ==
    /\ task[t] = Idle /\ wallet[d] # NoInfo /\ ~wallet[d].off /\ docs < MaxDocs
    /\ docs' = docs + 1
    /\ task' = [task EXCEPT ![t] =
          [pc |-> IF wallet[d].posted THEN "resolve" ELSE "write endpoint",
           op |-> op, did |-> d, info |-> wallet[d], by |-> {},
           doc |-> [key |-> ledger[d].key, endpoint |-> docs']]]
    /\ UNCHANGED <<ledger, bound, wallet, keys, reported>>
Resolve(t) ==
    /\ task[t].pc \in {"resolve", "resolve again"}
    /\ IF ~Active(task[t].did) THEN Fail(t)
       ELSE task' = [task EXCEPT
              ![t].pc = IF @ = "resolve" THEN "resolve again" ELSE "request",
              ![t].doc.endpoint = IF task[t].pc = "resolve" /\ task[t].op = "service"
                                  THEN Current(task[t].did) ELSE @]
    /\ UNCHANGED <<ledger, bound, wallet, keys, docs, reported>>

Published(t)  == Goto(t, CASE task[t].op = "create"     -> "store"
                           [] task[t].op = "update"     -> "return"
                           [] task[t].op = "deactivate" -> "read"
                           [] OTHER                     -> "write endpoint")

\* The record is replaced by the one that was read, with the new endpoint.
\* Of a DID that was never posted there is then no result to return.
WriteEndpoint(t) ==
    /\ task[t].pc = "write endpoint"
    /\ wallet' = [wallet EXCEPT ![task[t].did] =
          [task[t].info EXCEPT !.endpoint = IF task[t].op = "endpoint"
                                            THEN task[t].doc.endpoint ELSE @]]
    /\ IF task[t].info.posted THEN Goto(t, "return") ELSE Fail(t)
    /\ UNCHANGED <<ledger, bound, keys, docs, reported>>

\* deactivate reads the record, if there is one, and marks it.
ReadInfo(t) ==
    /\ task[t].pc = "read"
    /\ IF wallet[task[t].did] = NoInfo THEN Fail(t)
       ELSE task' = [task EXCEPT ![t].pc = "mark", ![t].info = wallet[task[t].did]]
    /\ UNCHANGED <<ledger, bound, wallet, keys, docs, reported>>
Mark(t) ==
    /\ task[t].pc = "mark"
    /\ wallet' = [wallet EXCEPT ![task[t].did] = [task[t].info EXCEPT !.off = TRUE]]
    /\ Goto(t, "return")
    /\ UNCHANGED <<ledger, bound, keys, docs, reported>>

Return(t) ==
    /\ task[t].pc = "return"
    /\ reported' = reported \cup {[did |-> task[t].did, op |-> task[t].op,
                                   endpoint |-> task[t].doc.endpoint]}
    /\ Fail(t)
    /\ UNCHANGED <<ledger, bound, wallet, keys, docs>>

-----------------------------------------------------------------------------
(* The two calls of the registrar *)

\* A job is opened, or the request refused: that to create what exists.
Request(t) ==
    /\ task[t].pc = "request"
    /\ IF task[t].op = "create" /\ ledger[task[t].did] # Nothing THEN Fail(t)
       ELSE Goto(t, IF task[t].op = "create" THEN "assign" ELSE "sign")
    /\ UNCHANGED <<ledger, bound, wallet, keys, docs, reported>>

\* sign_requests finds the one key of the kid.
Sign(t) ==
    /\ task[t].pc = "sign"
    /\ LET found == bound[task[t].did]
       IN  IF \E k \in found : found = {k}
           THEN task' = [task EXCEPT ![t].pc = "submit", ![t].by = found]
           ELSE Fail(t)
    /\ UNCHANGED <<ledger, bound, wallet, keys, docs, reported>>

\* The ledger takes what is signed by the key of the document.
Acceptable(t) ==
    /\ task[t].by = {task[t].doc.key}
    /\ IF task[t].op = "create" THEN ledger[task[t].did] = Nothing ELSE Active(task[t].did)
Applied(t) ==
    LET d == task[t].did
    IN  [ledger EXCEPT ![d] =
           CASE task[t].op = "create" -> [key |-> task[t].doc.key, docs |-> <<0>>, off |-> FALSE]
             [] task[t].op = "deactivate" -> [ledger[d] EXCEPT !.off = TRUE]
             [] OTHER -> [ledger[d] EXCEPT !.docs = Append(ledger[d].docs, task[t].doc.endpoint)]]

\* Bug: update, or deactivate, does not look at the state of the answer.
UpdatedAnyway(t) == IF task[t].op \in {"update", "endpoint", "service"} THEN Published(t) ELSE Fail(t)
MarkedAnyway(t)  == IF task[t].op = "deactivate" THEN Published(t) ELSE Fail(t)
\* A job that did not finish is an error.
Refused(t) == Fail(t)
Submit(t) ==
    /\ task[t].pc = "submit"
    /\ \/ Acceptable(t) /\ ledger' = Applied(t) /\ Published(t)
       \/ Acceptable(t) /\ Faults /\ ledger' = Applied(t) /\ Fail(t)  \* no answer comes
       \/ ~Acceptable(t) /\ Refused(t) /\ UNCHANGED ledger
       \/ Faults /\ Refused(t) /\ UNCHANGED ledger
    /\ UNCHANGED <<bound, wallet, keys, docs, reported>>

\* import_did stores a record with the metadata it is given: none.
Import(d) ==
    /\ wallet[d] = NoInfo
    /\ wallet' = [wallet EXCEPT ![d] = [posted |-> FALSE, off |-> FALSE, endpoint |-> 0]]
    /\ UNCHANGED <<ledger, bound, keys, docs, task, reported>>

\* Any await may fail or be cancelled: the call ends where it is.
Interrupt(t) ==
    /\ Faults /\ task[t] # Idle /\ Fail(t)
    /\ UNCHANGED <<ledger, bound, wallet, keys, docs, reported>>

Next ==
    \/ \E d \in All : Import(d)
    \/ \E t \in Tasks :
          \/ \E d \in All : \/ \E k \in 0..MaxKeys : Create(t, d, k)
                            \/ Change(t, d, "update", docs + 1) \/ Change(t, d, "deactivate", 0)
                            \/ \E op \in {"endpoint", "service"} : SetEndpoint(t, d, op)
          \/ Assign(t) \/ StoreDid(t) \/ StoredAlready(t) \/ AssignAgain(t)
          \/ Resolve(t) \/ WriteEndpoint(t) \/ ReadInfo(t) \/ Mark(t) \/ Return(t)
          \/ Request(t) \/ Sign(t) \/ Submit(t) \/ Interrupt(t)
Spec == Init /\ [][Next]_vars

-----------------------------------------------------------------------------
TypeOK ==
    /\ keys \subseteq 0..MaxKeys /\ docs \in 0..MaxDocs
    /\ \A d \in All : bound[d] \subseteq keys
    /\ \A d \in All : ledger[d] # Nothing => ledger[d].key \in keys /\ ledger[d].docs # <<>>

\* A DID that is on the ledger can be signed for by its one key, also when the
\* call that created it was interrupted or its answer lost (create).
Signable == \A d \in All : ledger[d] # Nothing => bound[d] = {ledger[d].key}

\* The endpoint that the wallet has of a posted DID was published, and so was
\* what calls reported: a refused update leaves the wallet as it was.
EndpointPublished ==
    LET Was(d, e) == ledger[d] # Nothing /\ \E i \in DOMAIN ledger[d].docs : ledger[d].docs[i] = e
    IN  /\ \A d \in All : wallet[d] # NoInfo /\ wallet[d].posted = TRUE
                          => Was(d, wallet[d].endpoint)
        /\ \A r \in reported : Was(r.did, r.endpoint)

\* A DID that the wallet has as deactivated, or that is reported so, is.
FlagIsTrue ==
    /\ \A d \in All : wallet[d] # NoInfo /\ wallet[d].off => ledger[d] # Nothing /\ ledger[d].off
    /\ \A r \in reported : r.op = "deactivate" => ledger[r.did].off
=============================================================================
