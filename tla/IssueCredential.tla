--------------------------- MODULE IssueCredential ---------------------------
(***************************************************************************)
(* The issue-credential v1.0 plugin: an issuer and a holder agent, joined  *)
(* by one ready connection, each with its exchange records, the messages   *)
(* between them and the requests being served.                             *)
(*                                                                         *)
(* A controller call (an admin route) or an automatic reply is a task: it  *)
(* reads its record, awaits a ledger, the issuer or the wallet, and comes  *)
(* back to write.  Between its steps every other task and every message    *)
(* handler of the same agent may run, so a task carries the copy of the    *)
(* record it read.  A database transaction is one step.                    *)
(*                                                                         *)
(* Messages stay in toIssuer/toHolder for ever and may be received any     *)
(* number of times in any order, or never: transports retry, reorder and   *)
(* drop them.                                                              *)
(***************************************************************************)
EXTENDS Naturals

CONSTANTS
    Ids,          \* ids of exchange records, the same set for both agents
    Threads,      \* message thread ids
    NoThread,     \* the thread of a record that has none
    ITasks,       \* slots for the issuer's concurrent tasks
    HTasks,       \* slots for the holder's concurrent tasks
    AutoOffer,    \* issuer setting debug.auto_respond_credential_proposal
    AutoRequest,  \* holder setting debug.auto_respond_credential_offer
    AutoStore,    \* holder setting debug.auto_store_credential
    AutoIssues,   \* values of auto_issue that the issuer's controller passes
    AutoRemoves,  \* values of auto_remove that the controllers pass
    Faults,       \* may a ledger, a library, the storage or the process fail?
    MaxCreds,     \* bound: credentials the issuer library creates
    MaxReqs       \* bound: requests the holder library creates

ASSUME IssueCredentialAssumption ==
    /\ NoThread \notin Threads
    /\ {AutoOffer, AutoRequest, AutoStore, Faults} \subseteq BOOLEAN
    /\ AutoIssues \subseteq BOOLEAN
    /\ AutoRemoves \subseteq BOOLEAN
    /\ MaxCreds \in Nat
    /\ MaxReqs \in Nat

VARIABLES
    irec,      \* the issuer's exchange records
    itask,     \* the issuer's tasks
    revRecs,   \* the issuer's IssuerCredRevRecords: record id and index
    revoked,   \* the indices the issuer has revoked
    created,   \* revocation indices handed out by the issuer library
    hrec,      \* the holder's exchange records
    htask,     \* the holder's tasks
    wallet,    \* the credentials in the holder's wallet
    requested, \* credential requests made by the holder library
    toIssuer,  \* messages sent to the issuer
    toHolder,  \* messages sent to the holder
    used       \* thread ids in use

ivars == <<irec, itask, revRecs, revoked, created>>
hvars == <<hrec, htask, wallet, requested>>
vars  == <<irec, itask, revRecs, revoked, created,
           hrec, htask, wallet, requested, toIssuer, toHolder, used>>

-----------------------------------------------------------------------------
(***************************************************************************)
(* Records.  "unborn" marks an id not yet used and "removed" an id whose   *)
(* record was deleted; every other state is a state of the code.           *)
(***************************************************************************)
IssuerStates == {"proposal_received", "offer_sent", "request_received",
                 "credential_issued", "credential_acked",
                 "credential_revoked", "abandoned"}
HolderStates == {"proposal_sent", "offer_received", "request_sent",
                 "credential_received", "credential_acked", "abandoned"}

\* A credential is known by its revocation index and the request it answers.
Reqs   == 0..MaxReqs
Cred   == [idx : 0..MaxCreds, req : Reqs]
NoCred == [idx |-> 0, req |-> 0]

IssuerRecord == [state : IssuerStates \cup {"unborn", "removed"},
                 thread : Threads \cup {NoThread}, req : Reqs, cred : Cred,
                 autoIssue : BOOLEAN, autoRemove : BOOLEAN]
HolderRecord == [state : HolderStates \cup {"unborn", "removed"},
                 thread : Threads \cup {NoThread}, req : Reqs,
                 raw : Cred, cred : Cred, autoRemove : BOOLEAN]

BlankIssuer == [state |-> "unborn", thread |-> NoThread, req |-> 0,
                cred |-> NoCred, autoIssue |-> FALSE, autoRemove |-> FALSE]
BlankHolder == [state |-> "unborn", thread |-> NoThread, req |-> 0,
                raw |-> NoCred, cred |-> NoCred, autoRemove |-> FALSE]
RemovedIssuer == [BlankIssuer EXCEPT !.state = "removed"]
\* Bug: a removed record is left in a state of its own.
DroppedHolder == [BlankHolder EXCEPT !.state = "deleted"]
RemovedHolder == [BlankHolder EXCEPT !.state = "removed"]

Live(r) == r.state \notin {"unborn", "removed"}

\* Bugs the checks must notice: a state check dropped, or widened by one state.
AnyOffer(r)      == Live(r)
IssuableTwice(r) == r.state \in {"request_received", "credential_issued"}
RequestableAny(r) == Live(r)

\* The states in which the manager lets an operation go on.
OpenOffer(r)   == r.state = "offer_sent"
Issuable(r)    == r.state = "request_received"
Requestable(r) == r.state = "offer_received"
Storable(r)    == r.state = "credential_received"

\* The wallet takes a credential that answers the request whose metadata the
\* record kept, and no other.
Answers(r) == r.raw.req = r.req

\* retrieve_by_connection_and_thread: a record is found when it is the only
\* one of that thread; two of them raise a StorageDuplicateError.
Matching(recs, t) == {i \in Ids : Live(recs[i]) /\ recs[i].thread = t}

-----------------------------------------------------------------------------
(***************************************************************************)
(* Tasks.  rec is the copy the task read, id the record's id, idx the      *)
(* revocation index of the credential it created, and acks whether the     *)
(* task goes on to acknowledge after a failure, as the handler of a        *)
(* credential does and the route that stores one does not.                 *)
(***************************************************************************)
IPcs == {"offer", "issuing", "issue", "error", "remove"}
HPcs == {"request", "store", "save", "ack", "error", "remove"}

Idle  == [pc |-> "idle"]
ITask == [pc : IPcs, id : Ids, rec : IssuerRecord, idx : 0..MaxCreds]
HTask == [pc : HPcs, id : Ids, rec : HolderRecord, acks : BOOLEAN]

ITaskAt(pc, i, r) == [pc |-> pc, id |-> i, rec |-> r, idx |-> 0]
HTaskAt(pc, i, r) == [pc |-> pc, id |-> i, rec |-> r, acks |-> FALSE]
HandlerAt(pc, i, r) == [pc |-> pc, id |-> i, rec |-> r, acks |-> TRUE]

-----------------------------------------------------------------------------
(***************************************************************************)
(* Messages.                                                               *)
(***************************************************************************)
Proposal(t)    == [type |-> "proposal", thread |-> t]
Offer(t)       == [type |-> "offer", thread |-> t]
Request(t, r)  == [type |-> "request", thread |-> t, req |-> r]
Issue(t, c)    == [type |-> "issue", thread |-> t, cred |-> c]
Ack(t)         == [type |-> "ack", thread |-> t]
Problem(t)     == [type |-> "problem", thread |-> t]

AnyThread == Threads \cup {NoThread}
ToIssuer == [type : {"proposal", "ack", "problem"}, thread : AnyThread]
            \cup [type : {"request"}, thread : AnyThread, req : Reqs]
ToHolder == [type : {"offer", "problem"}, thread : AnyThread]
            \cup [type : {"issue"}, thread : AnyThread, cred : Cred]

-----------------------------------------------------------------------------
Init ==
    /\ irec = [i \in Ids |-> BlankIssuer]
    /\ itask = [k \in ITasks |-> Idle]
    /\ revRecs = {}
    /\ revoked = {}
    /\ created = 0
    /\ hrec = [i \in Ids |-> BlankHolder]
    /\ htask = [k \in HTasks |-> Idle]
    /\ wallet = {}
    /\ requested = 0
    /\ toIssuer = {}
    /\ toHolder = {}
    /\ used = {}

(***************************************************************************)
(* Shorthands for what a step does to the tasks and the messages.          *)
(***************************************************************************)
ISet(k, task) == itask' = [itask EXCEPT ![k] = task]
HSet(k, task) == htask' = [htask EXCEPT ![k] = task]
IIdle(k) == itask[k] = Idle
HIdle(k) == htask[k] = Idle
Fresh(t) == t \in Threads \ used /\ used' = used \cup {t}

\* A handler that replies by itself goes on as a task, if the flag is set.
IContinue(flag, task) ==
    IF flag THEN \E k \in ITasks : IIdle(k) /\ ISet(k, task)
            ELSE UNCHANGED itask

\* Bug: the handler stops where the automatic reply should follow.
HPause(flag, task) == UNCHANGED htask

HContinue(flag, task) ==
    IF flag THEN \E k \in HTasks : HIdle(k) /\ HSet(k, task)
            ELSE UNCHANGED htask

-----------------------------------------------------------------------------
(***************************************************************************)
(* The issuer.                                                             *)
(***************************************************************************)

\* A new record, saved with the offer it makes.
NewOffer(i, t, ai, ar) ==
    /\ irec[i].state = "unborn"
    /\ Fresh(t)
    /\ irec' = [irec EXCEPT ![i] =
                  [BlankIssuer EXCEPT !.state = "offer_sent", !.thread = t,
                                      !.autoIssue = ai, !.autoRemove = ar]]
    /\ toHolder' = toHolder \cup {Offer(t)}
    /\ UNCHANGED <<itask, revRecs, revoked, created, hvars, toIssuer>>

\* POST /send-offer, with the auto_issue and the auto_remove the call passes.
SendFreeOffer(i, t, ai, ar) ==
    /\ ai \in AutoIssues
    /\ NewOffer(i, t, ai, ar)

\* POST /send: the whole flow is automated, so auto_issue is set.
Send(i, t, ar) == NewOffer(i, t, TRUE, ar)

\* receive_proposal: every proposal that arrives makes a record.
ReceiveProposal(m, i, ai, ar) ==
    /\ m.type = "proposal"
    /\ irec[i].state = "unborn"
    /\ LET r == [BlankIssuer EXCEPT !.state = "proposal_received",
                                    !.thread = m.thread,
                                    !.autoIssue = ai, !.autoRemove = ar]
       IN  /\ irec' = [irec EXCEPT ![i] = r]
           /\ IContinue(AutoOffer, ITaskAt("offer", i, r))
    /\ UNCHANGED <<revRecs, revoked, created, hvars, toIssuer, toHolder, used>>

\* POST /records/{id}/send-offer: the state is checked on the copy read here.
SendBoundOffer(k, i) ==
    /\ IIdle(k)
    /\ Live(irec[i])
    /\ ISet(k, ITaskAt(IF irec[i].state = "proposal_received"
                       THEN "offer" ELSE "error", i, irec[i]))
    /\ UNCHANGED <<irec, revRecs, revoked, created, hvars,
                   toIssuer, toHolder, used>>

\* create_offer, after the ledger: the offer starts a thread of its own and
\* the copy is written back, whatever the record has become meanwhile.  A
\* record that is gone cannot be updated: a StorageError.
CreateOffer(k, t) ==
    /\ itask[k].pc = "offer"
    /\ Fresh(t)
    /\ LET i == itask[k].id
           r == [itask[k].rec EXCEPT !.state = "offer_sent", !.thread = t]
       IN  IF Live(irec[i])
           THEN /\ irec' = [irec EXCEPT ![i] = r]
                /\ toHolder' = toHolder \cup {Offer(t)}
                /\ ISet(k, Idle)
           ELSE /\ ISet(k, ITaskAt("error", i, r))
                /\ UNCHANGED <<irec, toHolder>>
    /\ UNCHANGED <<revRecs, revoked, created, hvars, toIssuer>>

\* receive_request: only an offer that is still open takes the request.
ReceiveRequest(m, i) ==
    /\ m.type = "request"
    /\ Matching(irec, m.thread) = {i}
    /\ OpenOffer(irec[i])
    /\ LET r == [irec[i] EXCEPT !.state = "request_received", !.req = m.req]
       IN  /\ irec' = [irec EXCEPT ![i] = r]
           /\ IContinue(r.autoIssue, ITaskAt("issuing", i, r))
    /\ UNCHANGED <<revRecs, revoked, created, hvars, toIssuer, toHolder, used>>

\* A request whose thread has no record: the handler's own call of
\* problem_report_for_record raises a TypeError, and nothing is sent.
ReceiveUnknownRequest(m) ==
    /\ m.type = "request"
    /\ Matching(irec, m.thread) = {}
    /\ UNCHANGED vars

\* POST /records/{id}/issue: a record with a credential sends it again, in
\* any state; one that is not waiting to be issued is a protocol error.
IssueAgain(i) ==
    /\ Live(irec[i]) /\ irec[i].cred # NoCred
    /\ toHolder' = toHolder \cup {Issue(irec[i].thread, irec[i].cred)}
    /\ UNCHANGED <<ivars, hvars, toIssuer, used>>

StartIssue(k, i) ==
    /\ IIdle(k)
    /\ Live(irec[i]) /\ irec[i].cred = NoCred
    /\ ISet(k, ITaskAt(IF Issuable(irec[i]) THEN "issuing" ELSE "error",
                       i, irec[i]))
    /\ UNCHANGED <<irec, revRecs, revoked, created, hvars,
                   toIssuer, toHolder, used>>

\* issuer.create_credential takes a revocation index that is never given back.
CreateCredential(k) ==
    /\ itask[k].pc = "issuing"
    /\ created < MaxCreds
    /\ created' = created + 1
    /\ ISet(k, [itask[k] EXCEPT !.pc = "issue", !.idx = created + 1])
    /\ UNCHANGED <<irec, revRecs, revoked, hvars, toIssuer, toHolder, used>>

\* Bug: the credential is issued and its revocation record not saved.
NoRevRecord(i, c) == {}

CredRevRecord(i, c) == {[id |-> i, idx |-> c.idx]}

\* The transaction of issue_credential: the revocation record and the state
\* are written together, or the state has moved and both are rolled back.
CommitIssue(k) ==
    /\ itask[k].pc = "issue"
    /\ LET i == itask[k].id
           c == [idx |-> itask[k].idx, req |-> itask[k].rec.req]
       IN  IF Issuable(irec[i])
           THEN /\ irec' = [irec EXCEPT ![i].state = "credential_issued",
                                        ![i].cred = c]
                /\ revRecs' = revRecs \cup CredRevRecord(i, c)
                /\ toHolder' = toHolder \cup {Issue(irec[i].thread, c)}
                /\ ISet(k, Idle)
           ELSE /\ ISet(k, ITaskAt("error", i, itask[k].rec))
                /\ UNCHANGED <<irec, revRecs, toHolder>>
    /\ UNCHANGED <<revoked, created, hvars, toIssuer, used>>

\* receive_credential_ack: any state but "credential_acked" is overwritten;
\* the record is deleted later, in a session of its own.
ReceiveAck(m, i) ==
    /\ m.type = "ack"
    /\ Matching(irec, m.thread) = {i}
    /\ irec[i].state # "credential_acked"
    /\ irec' = [irec EXCEPT ![i].state = "credential_acked"]
    /\ IContinue(irec[i].autoRemove, ITaskAt("remove", i, irec'[i]))
    /\ UNCHANGED <<revRecs, revoked, created, hvars, toIssuer, toHolder, used>>

IssuerRemoveAcked(k) ==
    /\ itask[k].pc = "remove"
    /\ irec' = [irec EXCEPT ![itask[k].id] = RemovedIssuer]
    /\ ISet(k, Idle)
    /\ UNCHANGED <<revRecs, revoked, created, hvars, toIssuer, toHolder, used>>

\* receive_problem_report: any state is overwritten.
IssuerReceiveProblem(m, i) ==
    /\ m.type = "problem"
    /\ Matching(irec, m.thread) = {i}
    /\ irec' = [irec EXCEPT ![i].state = "abandoned"]
    /\ UNCHANGED <<itask, revRecs, revoked, created, hvars,
                   toIssuer, toHolder, used>>

\* cred_revoked: the credential's exchange record follows its revocation.
CredRevoked(e) ==
    /\ e \in revRecs /\ e.idx \notin revoked
    /\ revoked' = revoked \cup {e.idx}
    /\ irec' = IF Live(irec[e.id])
               THEN [irec EXCEPT ![e.id].state = "credential_revoked"]
               ELSE irec
    /\ UNCHANGED <<itask, revRecs, created, hvars, toIssuer, toHolder, used>>

\* A ledger, an issuer library, a registry or a storage error inside a task.
IssuerFault(k) ==
    /\ Faults
    /\ itask[k].pc \in {"offer", "issuing", "issue"}
    /\ ISet(k, [itask[k] EXCEPT !.pc = "error"])
    /\ UNCHANGED <<irec, revRecs, revoked, created, hvars,
                   toIssuer, toHolder, used>>

\* The process stops and starts: its tasks are gone, its records are not.
IssuerRestart ==
    /\ Faults
    /\ itask' = [k \in ITasks |-> Idle]
    /\ UNCHANGED <<irec, revRecs, revoked, created, hvars,
                   toIssuer, toHolder, used>>

\* POST /records/{id}/problem-report ends as a failed task does.
IssuerReportProblem(k, i) ==
    /\ IIdle(k)
    /\ Live(irec[i])
    /\ ISet(k, ITaskAt("error", i, irec[i]))
    /\ UNCHANGED <<irec, revRecs, revoked, created, hvars,
                   toIssuer, toHolder, used>>

\* save_error_state and the problem report: the task's copy overwrites the
\* record, which is then abandoned; a record that is gone stays gone, and a
\* storage error is swallowed.
IssuerSaveError(k) ==
    /\ itask[k].pc = "error"
    /\ LET i == itask[k].id
           r == [itask[k].rec EXCEPT !.state = "abandoned"]
       IN  /\ \/ irec' = IF Live(irec[i]) THEN [irec EXCEPT ![i] = r] ELSE irec
              \/ Faults /\ irec' = irec
           /\ toHolder' = toHolder \cup {Problem(r.thread)}
    /\ ISet(k, Idle)
    /\ UNCHANGED <<revRecs, revoked, created, hvars, toIssuer, used>>

\* DELETE /records/{id}.
IssuerRemove(i) ==
    /\ Live(irec[i])
    /\ irec' = [irec EXCEPT ![i] = RemovedIssuer]
    /\ UNCHANGED <<itask, revRecs, revoked, created, hvars,
                   toIssuer, toHolder, used>>

-----------------------------------------------------------------------------
(***************************************************************************)
(* The holder.                                                             *)
(***************************************************************************)

\* POST /send-proposal.
SendProposal(i, t, ar) ==
    /\ hrec[i].state = "unborn"
    /\ Fresh(t)
    /\ hrec' = [hrec EXCEPT ![i] =
                  [BlankHolder EXCEPT !.state = "proposal_sent", !.thread = t,
                                      !.autoRemove = ar]]
    /\ toIssuer' = toIssuer \cup {Proposal(t)}
    /\ UNCHANGED <<ivars, htask, wallet, requested, toHolder>>

\* receive_offer: the record of the offer's thread, if it still waits for an
\* offer, or a new record if the thread has none.
ReceiveOffer(m, i, ar) ==
    /\ m.type = "offer"
    /\ LET found == Matching(hrec, m.thread)
           r == IF found = {}
                THEN [BlankHolder EXCEPT !.state = "offer_received",
                                         !.thread = m.thread,
                                         !.autoRemove = ar]
                ELSE [hrec[i] EXCEPT !.state = "offer_received"]
       IN  /\ hrec[i].state =
                 (IF found = {} THEN "unborn" ELSE "proposal_sent")
           /\ found \subseteq {i}
           /\ hrec' = [hrec EXCEPT ![i] = r]
           /\ HContinue(AutoRequest, HTaskAt("request", i, r))
    /\ UNCHANGED <<ivars, wallet, requested, toIssuer, toHolder, used>>

\* POST /records/{id}/send-request, with the auto_remove the call passes.  A
\* request already made is sent again from the record.
RequestAgain(i) ==
    /\ hrec[i].state = "request_sent"
    /\ toIssuer' = toIssuer \cup {Request(hrec[i].thread, hrec[i].req)}
    /\ UNCHANGED <<ivars, hvars, toHolder, used>>

StartRequest(k, i, ar) ==
    /\ HIdle(k)
    /\ Live(hrec[i]) /\ hrec[i].state # "request_sent"
    /\ HSet(k, HTaskAt(IF Requestable(hrec[i]) THEN "request" ELSE "error", i,
                       [hrec[i] EXCEPT !.autoRemove = ar]))
    /\ UNCHANGED <<ivars, hrec, wallet, requested, toIssuer, toHolder, used>>

\* Bug: the metadata of the request is saved before the state is checked.
SaveRequestFirst(k, r) ==
    /\ htask[k].pc = "request"
    /\ r \in 1..(requested + 1) /\ r <= MaxReqs
    /\ requested' = IF r > requested THEN r ELSE requested
    /\ LET i == htask[k].id
           h == [hrec EXCEPT ![i].req = r]
       IN  IF Requestable(hrec[i])
           THEN /\ hrec' = [h EXCEPT ![i].state = "request_sent",
                                     ![i].autoRemove = htask[k].rec.autoRemove]
                /\ toIssuer' = toIssuer \cup {Request(hrec[i].thread, r)}
                /\ HSet(k, Idle)
           ELSE /\ hrec' = h
                /\ HSet(k, [htask[k] EXCEPT !.pc = "error"])
                /\ UNCHANGED toIssuer
    /\ UNCHANGED <<ivars, wallet, toHolder, used>>

\* create_request: the holder library makes a request, or the cache returns
\* one it made before for the same offer; then a transaction writes it, unless
\* the record has left "offer_received".
CreateRequest(k, r) ==
    /\ htask[k].pc = "request"
    /\ r \in 1..(requested + 1) /\ r <= MaxReqs
    /\ requested' = IF r > requested THEN r ELSE requested
    /\ LET i == htask[k].id
       IN  IF Requestable(hrec[i])
           THEN /\ hrec' = [hrec EXCEPT ![i].state = "request_sent",
                                ![i].req = r,
                                ![i].autoRemove = htask[k].rec.autoRemove]
                /\ toIssuer' = toIssuer \cup {Request(hrec[i].thread, r)}
                /\ HSet(k, Idle)
           ELSE /\ HSet(k, [htask[k] EXCEPT !.pc = "error"])
                /\ UNCHANGED <<hrec, toIssuer>>
    /\ UNCHANGED <<ivars, wallet, toHolder, used>>

\* receive_credential: only a record waiting for one takes it.
ReceiveCredential(m, i) ==
    /\ m.type = "issue"
    /\ Matching(hrec, m.thread) = {i}
    /\ hrec[i].state = "request_sent"
    /\ LET r == [hrec[i] EXCEPT !.state = "credential_received",
                                !.raw = m.cred]
       IN  /\ hrec' = [hrec EXCEPT ![i] = r]
           /\ HContinue(AutoStore, HandlerAt("store", i, r))
    /\ UNCHANGED <<ivars, wallet, requested, toIssuer, toHolder, used>>

\* POST /records/{id}/store.
StartStore(k, i) ==
    /\ HIdle(k)
    /\ Live(hrec[i])
    /\ HSet(k, HTaskAt(IF Storable(hrec[i]) THEN "store" ELSE "error",
                       i, hrec[i]))
    /\ UNCHANGED <<ivars, hrec, wallet, requested, toIssuer, toHolder, used>>

\* holder.store_credential, with the copy's credential and metadata.
StoreInWallet(k) ==
    /\ htask[k].pc = "store"
    /\ LET r == htask[k].rec
       IN  IF Answers(r)
           THEN /\ wallet' = wallet \cup {r.raw}
                /\ HSet(k, [htask[k] EXCEPT !.pc = "save"])
           ELSE /\ HSet(k, [htask[k] EXCEPT !.pc = "error"])
                /\ UNCHANGED wallet
    /\ UNCHANGED <<ivars, hrec, requested, toIssuer, toHolder, used>>

\* The transaction of store_credential: the state stays as it is.
SaveStored(k) ==
    /\ htask[k].pc = "save"
    /\ LET i == htask[k].id
       IN  IF Storable(hrec[i])
           THEN /\ hrec' = [hrec EXCEPT ![i].cred = htask[k].rec.raw]
                /\ HSet(k, HTaskAt("ack", i, hrec'[i]))
           ELSE /\ HSet(k, [htask[k] EXCEPT !.pc = "error"])
                /\ UNCHANGED hrec
    /\ UNCHANGED <<ivars, wallet, requested, toIssuer, toHolder, used>>

\* send_credential_ack: skipped if the record has moved on; the ack is sent
\* after the record is deleted, when it is to be deleted.
AckCredential(k) ==
    /\ htask[k].pc = "ack"
    /\ LET i == htask[k].id
       IN  IF Storable(hrec[i])
           THEN /\ hrec' = [hrec EXCEPT ![i].state = "credential_acked"]
                /\ IF hrec[i].autoRemove
                   THEN /\ HSet(k, [htask[k] EXCEPT !.pc = "remove", !.rec = hrec'[i]])
                        /\ UNCHANGED toIssuer
                   ELSE /\ HSet(k, Idle)
                        /\ toIssuer' = toIssuer \cup {Ack(hrec[i].thread)}
           ELSE /\ HSet(k, Idle)
                /\ UNCHANGED <<hrec, toIssuer>>
    /\ UNCHANGED <<ivars, wallet, requested, toHolder, used>>

HolderRemoveAcked(k) ==
    /\ htask[k].pc = "remove"
    /\ hrec' = [hrec EXCEPT ![htask[k].id] = RemovedHolder]
    /\ toIssuer' = toIssuer \cup {Ack(htask[k].rec.thread)}
    /\ HSet(k, Idle)
    /\ UNCHANGED <<ivars, wallet, requested, toHolder, used>>

\* receive_problem_report: any state is overwritten.
HolderReceiveProblem(m, i) ==
    /\ m.type = "problem"
    /\ Matching(hrec, m.thread) = {i}
    /\ hrec' = [hrec EXCEPT ![i].state = "abandoned"]
    /\ UNCHANGED <<ivars, htask, wallet, requested, toIssuer, toHolder, used>>

\* A holder library, tails file, storage or ledger error in a task.  A ledger
\* error is not among those the store paths catch: the task just ends.
HolderFault(k) ==
    /\ Faults
    /\ \/ /\ htask[k].pc \in {"request", "store", "save"}
          /\ HSet(k, [htask[k] EXCEPT !.pc = "error"])
       \/ htask[k].pc = "store" /\ HSet(k, Idle)
    /\ UNCHANGED <<ivars, hrec, wallet, requested, toIssuer, toHolder, used>>

\* Bug: the ack is owed as soon as the credential is there.
OwedEarly == {"store", "save", "ack", "remove"}

\* The holder owes an ack from when the credential is stored, or its handler
\* has reported that it is not and goes on all the same.
Owed == {"ack", "remove"}

\* A storage error in send_credential_ack: "holder still owes an ack: carry
\* on", so the ack goes out and the record stays as it is.
AckUnsaved(k) ==
    /\ Faults
    /\ htask[k].pc \in Owed
    /\ toIssuer' = toIssuer \cup {Ack(htask[k].rec.thread)}
    /\ HSet(k, Idle)
    /\ UNCHANGED <<ivars, hrec, wallet, requested, toHolder, used>>

\* The process stops and starts: its tasks are gone, its records are not.
HolderRestart ==
    /\ Faults
    /\ htask' = [k \in HTasks |-> Idle]
    /\ UNCHANGED <<ivars, hrec, wallet, requested, toIssuer, toHolder, used>>

\* POST /records/{id}/problem-report.
HolderReportProblem(k, i) ==
    /\ HIdle(k)
    /\ Live(hrec[i])
    /\ HSet(k, HTaskAt("error", i, hrec[i]))
    /\ UNCHANGED <<ivars, hrec, wallet, requested, toIssuer, toHolder, used>>

\* save_error_state and the problem report, as the issuer's.  The handler of a
\* credential does not return here but falls through to send_credential_ack,
\* which looks at the record again.
HolderSaveError(k) ==
    /\ htask[k].pc = "error"
    /\ LET i == htask[k].id
           r == [htask[k].rec EXCEPT !.state = "abandoned"]
       IN  /\ \/ hrec' = IF Live(hrec[i]) THEN [hrec EXCEPT ![i] = r] ELSE hrec
              \/ Faults /\ hrec' = hrec
           /\ toIssuer' = toIssuer \cup {Problem(r.thread)}
    /\ HSet(k, IF htask[k].acks THEN [htask[k] EXCEPT !.pc = "ack"] ELSE Idle)
    /\ UNCHANGED <<ivars, wallet, requested, toHolder, used>>

\* Bug: the stored credential is deleted with the record.
RemoveWithCredential(i) ==
    /\ Live(hrec[i])
    /\ hrec' = [hrec EXCEPT ![i] = RemovedHolder]
    /\ wallet' = wallet \ {hrec[i].cred}
    /\ UNCHANGED <<ivars, htask, requested, toIssuer, toHolder, used>>

\* DELETE /records/{id}.
HolderRemove(i) ==
    /\ Live(hrec[i])
    /\ hrec' = [hrec EXCEPT ![i] = RemovedHolder]
    /\ UNCHANGED <<ivars, htask, wallet, requested, toIssuer, toHolder, used>>

-----------------------------------------------------------------------------
\* Messages received, and tasks going on: what the agents do by themselves.
IssuerHandle ==
    \E m \in toIssuer, i \in Ids :
        \/ \E ai \in AutoIssues, ar \in AutoRemoves :
               ReceiveProposal(m, i, ai, ar)
        \/ ReceiveRequest(m, i)
        \/ ReceiveUnknownRequest(m)
        \/ ReceiveAck(m, i)
        \/ IssuerReceiveProblem(m, i)

HolderHandle ==
    \E m \in toHolder, i \in Ids :
        \/ \E ar \in AutoRemoves : ReceiveOffer(m, i, ar)
        \/ ReceiveCredential(m, i)
        \/ HolderReceiveProblem(m, i)

IssuerProceed(k) ==
    \/ \E t \in Threads : CreateOffer(k, t)
    \/ CreateCredential(k)
    \/ CommitIssue(k)
    \/ IssuerRemoveAcked(k)
    \/ IssuerSaveError(k)

HolderProceed(k) ==
    \/ \E r \in 1..MaxReqs : CreateRequest(k, r)
    \/ StoreInWallet(k)
    \/ SaveStored(k)
    \/ AckCredential(k)
    \/ HolderRemoveAcked(k)
    \/ HolderSaveError(k)

\* The controllers' calls.
IssuerControl ==
    \E i \in Ids :
        \/ \E t \in Threads, ar \in AutoRemoves :
               Send(i, t, ar) \/ \E ai \in AutoIssues : SendFreeOffer(i, t, ai, ar)
        \/ IssueAgain(i)
        \/ IssuerRemove(i)
        \/ \E k \in ITasks : \/ SendBoundOffer(k, i)
                             \/ StartIssue(k, i)
                             \/ IssuerReportProblem(k, i)

HolderControl ==
    \E i \in Ids :
        \/ \E t \in Threads, ar \in AutoRemoves : SendProposal(i, t, ar)
        \/ RequestAgain(i)
        \/ HolderRemove(i)
        \/ \E k \in HTasks : \/ \E ar \in AutoRemoves : StartRequest(k, i, ar)
                             \/ StartStore(k, i)
                             \/ HolderReportProblem(k, i)

Next ==
    \/ IssuerHandle \/ HolderHandle
    \/ \E k \in ITasks : IssuerProceed(k) \/ IssuerFault(k)
    \/ \E k \in HTasks : HolderProceed(k) \/ HolderFault(k) \/ AckUnsaved(k)
    \/ IssuerRestart \/ HolderRestart
    \/ IssuerControl \/ HolderControl
    \/ \E e \in revRecs : CredRevoked(e)

Spec == Init /\ [][Next]_vars

(***************************************************************************)
(* The automated flow: offers are sent, and from there on both agents only *)
(* react.  A handler that has started goes on, and a message that was sent *)
(* is received at last: the transport retries and nothing is lost.         *)
(***************************************************************************)
AutoNext ==
    \/ IssuerHandle \/ HolderHandle
    \/ \E k \in ITasks : IssuerProceed(k)
    \/ \E k \in HTasks : HolderProceed(k)
    \/ \E i \in Ids, t \in Threads, ar \in AutoRemoves : Send(i, t, ar)

IssuerReceives(t) ==
    \E m \in toIssuer, i \in Ids :
        m.thread = t /\ (ReceiveRequest(m, i) \/ ReceiveAck(m, i))
HolderReceives(t) ==
    \E m \in toHolder, i \in Ids :
        /\ m.thread = t
        /\ \/ \E ar \in AutoRemoves : ReceiveOffer(m, i, ar)
           \/ ReceiveCredential(m, i)

Fairness ==
    /\ \A t \in Threads : WF_vars(IssuerReceives(t)) /\ WF_vars(HolderReceives(t))
    /\ \A k \in ITasks : WF_vars(IssuerProceed(k))
    /\ \A k \in HTasks : WF_vars(HolderProceed(k))

AutoSpec == Init /\ [][AutoNext]_vars /\ Fairness

-----------------------------------------------------------------------------
(***************************************************************************)
(* Properties.                                                             *)
(***************************************************************************)

\* Every variable has its type.
TypeOK ==
    /\ irec \in [Ids -> IssuerRecord]
    /\ itask \in [ITasks -> ITask \cup {Idle}]
    /\ revRecs \subseteq [id : Ids, idx : 0..MaxCreds]
    /\ revoked \subseteq 0..MaxCreds
    /\ created \in 0..MaxCreds
    /\ hrec \in [Ids -> HolderRecord]
    /\ htask \in [HTasks -> HTask \cup {Idle}]
    /\ wallet \subseteq Cred
    /\ requested \in Reqs
    /\ toIssuer \subseteq ToIssuer
    /\ toHolder \subseteq ToHolder
    /\ used \subseteq Threads

\* However many calls of issue run at once, and however often the request
\* arrives, one thread yields one credential: issue_credential checks the
\* state again in its transaction, and a second call sends the first result.
OneCredentialPerThread ==
    \A m, n \in toHolder :
        /\ m.type = "issue" /\ n.type = "issue" /\ m.thread = n.thread
        => m.cred = n.cred

\* A credential leaves the issuer only with its IssuerCredRevRecord written,
\* so it can be revoked, and no index is recorded for two exchanges.
SentIsRevocable ==
    /\ \A m \in toHolder :
          m.type = "issue" => \E e \in revRecs : e.idx = m.cred.idx
    /\ \A d, e \in revRecs : d.idx = e.idx => d = e

\* A credential the holder's record names is in the wallet and answers the
\* request of that same record, whose metadata unblinds it.
StoredMatchesRequest ==
    \A i \in Ids :
        hrec[i].cred # NoCred =>
            hrec[i].cred \in wallet /\ hrec[i].cred.req = hrec[i].req

\* The issuer hears an acknowledgement, and calls the exchange acknowledged,
\* only when the credential it issued on that thread is in the wallet, or when
\* the holder has reported on that thread that it gave up.  The exception is
\* real: the handler of a credential that could not be stored reports it and
\* falls through to the ack, which goes out if the error could not be saved.
AckedStoredOrReported ==
    LET Known(t) == (\E c \in wallet : Issue(t, c) \in toHolder) \/ Problem(t) \in toIssuer
    IN  /\ \A t \in Threads : Ack(t) \in toIssuer => Known(t)
        /\ \A i \in Ids : irec[i].state = "credential_acked" => Known(irec[i].thread)

\* What the two agents promise each other, whatever happens in between.
Offered == {m.thread : m \in {n \in toHolder : n.type = "offer"}}
Issued  == {<<m.thread, m.cred>> : m \in {n \in toHolder : n.type = "issue"}}
Acked   == {m.thread : m \in {n \in toIssuer : n.type = "ack"}}
Reported == {t \in Threads : Problem(t) \in toIssuer}

Issuance == INSTANCE CredentialIssuance
                WITH Creds <- Cred, offered <- Offered, issued <- Issued,
                     stored <- wallet, reported <- Reported, acked <- Acked

\* The exchange implements the abstract issuance: every step of every task,
\* handler and fault is one of its steps or none.
ImplementsIssuance == Issuance!Spec

\* The holder's record only moves along the protocol or is abandoned, and an
\* abandoned exchange never revives: each transaction reads the state again.
HolderEdges ==
    {<<"unborn", "proposal_sent">>, <<"unborn", "offer_received">>,
     <<"proposal_sent", "offer_received">>,
     <<"offer_received", "request_sent">>,
     <<"request_sent", "credential_received">>,
     <<"credential_received", "credential_acked">>}
    \cup {<<s, "abandoned">> : s \in HolderStates}
    \cup {<<s, "removed">> : s \in HolderStates}
HolderOnlyForward ==
    [][\A i \in Ids : hrec'[i].state # hrec[i].state
                         => <<hrec[i].state, hrec'[i].state>> \in HolderEdges]_hrec

\* The issuer's record: create_offer writes without a second look, so
\* "offer_sent" can follow any state; an ack, a problem report and a
\* revocation overwrite any state.  But a request is taken only by an open
\* offer, a credential is issued only for a request and acknowledged only
\* once issued.
IssuerEdges ==
    {<<"unborn", "offer_sent">>, <<"unborn", "proposal_received">>,
     <<"offer_sent", "request_received">>,
     <<"request_received", "credential_issued">>,
     <<"credential_issued", "credential_acked">>,
     <<"credential_revoked", "credential_acked">>,
     <<"abandoned", "credential_acked">>}
    \cup {<<s, "offer_sent">> : s \in IssuerStates}
    \cup {<<s, "abandoned">> : s \in IssuerStates}
    \cup {<<s, "credential_revoked">> : s \in IssuerStates}
    \cup {<<s, "removed">> : s \in IssuerStates}
IssuerSteps ==
    [][\A i \in Ids : irec'[i].state # irec[i].state
                         => <<irec[i].state, irec'[i].state>> \in IssuerEdges]_irec

\* routes.py on /issue-credential/send: if both agents are configured for
\* automatic responses, the operation ultimately results in credential issue,
\* and here in the acknowledgement too.
AutoIssueCompletes ==
    \A i \in Ids : irec[i].state = "offer_sent"
                      ~> irec[i].state \in {"credential_acked", "removed"}
=============================================================================
