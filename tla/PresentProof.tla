---------------------------- MODULE PresentProof ----------------------------
(***************************************************************************)
(* The present-proof v1.0 plugin: a verifier and a prover agent with their *)
(* exchange records and the messages between them.                         *)
(*                                                                         *)
(* A handler or an admin route reads its record in one session, may await  *)
(* the ledger, the wallet or the verifier library, and writes the whole    *)
(* record in another session.  So a task carries the copy it read: what    *)
(* other tasks write meanwhile is overwritten.  Messages may be received   *)
(* in any order, any number of times, or never.                            *)
(***************************************************************************)
EXTENDS Naturals, FiniteSets

CONSTANTS
    Ids,          \* ids of exchange records, the same set for both agents
    Threads,      \* message thread ids
    NoThread,     \* the thread of a record that has none
    VTasks,       \* slots for the verifier's concurrent tasks
    PTasks,       \* slots for the prover's concurrent tasks
    Proposals,    \* may the prover propose?
    AutoRespond,  \* verifier setting debug.auto_respond_presentation_proposal
    AutoPresent,  \* prover setting debug.auto_respond_presentation_request
    Autos,        \* values of auto_verify, auto_present and auto_remove passed
    Faults,       \* may a ledger, the verifier library or the wallet fail?
    MaxNonce,     \* bound: requests the verifier makes
    MaxProofs     \* bound: presentations the prover sends

VARIABLES
    vrec,      \* the verifier's exchange records
    vtask,     \* the verifier's tasks
    prec,      \* the prover's exchange records
    ptask,     \* the prover's tasks
    nonce,     \* the last nonce that was generated
    toVerifier, toProver,  \* messages sent
    threads    \* thread ids in use

vvars == <<vrec, vtask, nonce>>
pvars == <<prec, ptask>>
vars  == <<vrec, vtask, prec, ptask, nonce, toVerifier, toProver, threads>>

-----------------------------------------------------------------------------
(***************************************************************************)
(* A request is known by its nonce.  A presentation answers one request;   *)
(* sound says that its cryptographic check succeeds and asProposed that    *)
(* its revealed values are those of the proposal.                          *)
(***************************************************************************)
Nonces   == 0..MaxNonce
Proof    == [for : Nonces, sound : BOOLEAN, asProposed : BOOLEAN]
NoProof  == [for |-> 0, sound |-> FALSE, asProposed |-> FALSE]

VerifierStates == {"proposal_received", "request_sent",
                   "presentation_received", "verified", "abandoned"}
ProverStates   == {"proposal_sent", "request_received", "presentation_sent",
                   "presentation_acked", "abandoned"}
Unused == {"unborn", "removed"}

\* auto: auto_verify of a verifier's record, auto_present of a prover's.
Record(states) == [state : states \cup Unused, thread : Threads \cup {NoThread},
                   req : Nonces, proof : Proof, verified : {"", "true", "false"},
                   proposed : BOOLEAN, auto : BOOLEAN, autoRemove : BOOLEAN]
Blank == [state |-> "unborn", thread |-> NoThread, req |-> 0, proof |-> NoProof,
          verified |-> "", proposed |-> FALSE, auto |-> FALSE,
          autoRemove |-> FALSE]
\* Bug: a removed record is left in a state of its own.
Dropped == [Blank EXCEPT !.state = "deleted"]
Gone == [Blank EXCEPT !.state = "removed"]
Live(r) == r.state \notin Unused

\* retrieve_by_tag_filter: found when it is the only one of its thread.
Matching(recs, t) == {i \in Ids : Live(recs[i]) /\ recs[i].thread = t}
\* Ids for a new record: of none, and of none that a task is about to save.
FreeIds(recs, tasks) ==
    {i \in Ids : recs[i].state = "unborn"
                 /\ \A k \in DOMAIN tasks : tasks[k].pc # "idle" => tasks[k].id # i}

\* What verify_presentation of the library says.
Proves(p, n) == p.sound /\ p.for = n
Verdict(p, n) == IF Proves(p, n) THEN "true" ELSE "false"

(***************************************************************************)
(* A task that waits holds its copy rec of record id.  "save" writes it    *)
(* and goes on at next.                                                    *)
(***************************************************************************)
Idle == [pc |-> "idle"]
At(pc, i, r)         == [pc |-> pc, id |-> i, rec |-> r, next |-> "idle"]
SaveThen(i, r, next) == [pc |-> "save", id |-> i, rec |-> r, next |-> next]
Task(pcs, states) == [pc : pcs, id : Ids, rec : Record(states), next : pcs \cup {"idle"}]

Proposal(t)        == [type |-> "proposal", thread |-> t]
Request(t, n)      == [type |-> "request", thread |-> t, req |-> n]
Presentation(t, p) == [type |-> "presentation", thread |-> t, proof |-> p]
Ack(t, v)          == [type |-> "ack", thread |-> t, verified |-> v]
Problem(t)         == [type |-> "problem", thread |-> t]

Presented == {m \in toVerifier : m.type = "presentation"}

VSet(k, task) == vtask' = [vtask EXCEPT ![k] = task]
PSet(k, task) == ptask' = [ptask EXCEPT ![k] = task]
ToProver(m)   == toProver' = toProver \cup {m}
ToVerifier(m) == toVerifier' = toVerifier \cup {m}

Init ==
    /\ vrec = [i \in Ids |-> Blank]
    /\ prec = [i \in Ids |-> Blank]
    /\ vtask = [k \in VTasks |-> Idle]
    /\ ptask = [k \in PTasks |-> Idle]
    /\ nonce = 0
    /\ toVerifier = {} /\ toProver = {} /\ threads = {}

-----------------------------------------------------------------------------
(***************************************************************************)
(* The verifier.                                                           *)
(***************************************************************************)
NextNonce == nonce + 1

\* create_exchange_for_request: a new record of a thread of its own.
ExchangeForRequest(i, t, auto, ar) ==
    /\ vrec[i].state = "unborn" /\ nonce < MaxNonce
    /\ t \in Threads \ threads /\ threads' = threads \cup {t}
    /\ nonce' = nonce + 1
    /\ vrec' = [vrec EXCEPT ![i] =
                  [Blank EXCEPT !.state = "request_sent", !.thread = t,
                     !.req = NextNonce, !.auto = auto, !.autoRemove = ar]]

\* POST /send-request: the record is saved, then the request is sent.
SendFreeRequest(i, t, auto, ar) ==
    /\ ExchangeForRequest(i, t, auto, ar)
    /\ ToProver(Request(t, NextNonce))
    /\ UNCHANGED <<vtask, pvars, toVerifier>>

\* POST /create-request: the caller hands the request over by itself, in an
\* out-of-band invitation or as it likes, or keeps it.
CreateRequest(i, t, auto, ar, handedOver) ==
    /\ ExchangeForRequest(i, t, auto, ar)
    /\ IF handedOver THEN ToProver(Request(t, NextNonce)) ELSE UNCHANGED toProver
    /\ UNCHANGED <<vtask, pvars, toVerifier>>

\* receive_proposal makes a record for every proposal; the handler then goes
\* on to the request when the setting says so.
Proposed(m, ar) ==
    [Blank EXCEPT !.state = "proposal_received", !.thread = m.thread,
                  !.proposed = TRUE, !.autoRemove = ar]
ReceiveProposal(k, m, i, ar) ==
    /\ m.type = "proposal" /\ vtask[k] = Idle
    /\ vrec[i].state = "unborn"
    /\ LET r == Proposed(m, ar)
       IN  /\ vrec' = [vrec EXCEPT ![i] = r]
           /\ VSet(k, IF AutoRespond THEN At("bind", i, r) ELSE Idle)
    /\ UNCHANGED <<pvars, nonce, toVerifier, toProver, threads>>

\* POST /records/{id}/send-request: the state is checked on the copy read here.
SendBoundRequest(k, i, auto, ar) ==
    /\ vtask[k] = Idle
    /\ vrec[i].state = "proposal_received"
    /\ VSet(k, At("bind", i, [vrec[i] EXCEPT !.auto = auto, !.autoRemove = ar]))
    /\ UNCHANGED <<vrec, nonce, pvars, toVerifier, toProver, threads>>

\* create_bound_request, after the ledger: the copy is written and the
\* request sent on the proposal's thread.
CreateBoundRequest(k) ==
    /\ vtask[k].pc = "bind" /\ nonce < MaxNonce
    /\ nonce' = nonce + 1
    /\ LET i == vtask[k].id
           r == [vtask[k].rec EXCEPT !.state = "request_sent", !.req = NextNonce]
       IN  IF Live(vrec[i])
           THEN /\ vrec' = [vrec EXCEPT ![i] = r]
                /\ ToProver(Request(r.thread, NextNonce))
                /\ VSet(k, Idle)
           ELSE /\ VSet(k, At("error", i, r))
                /\ UNCHANGED <<vrec, toProver>>
    /\ UNCHANGED <<pvars, toVerifier, threads>>

\* receive_presentation: the record is found whatever its state, and what it
\* had of an earlier presentation is replaced, except the verdict.  Revealed
\* values that are not those of the proposal abandon the exchange.
Received(r, p) ==
    IF r.proposed /\ ~p.asProposed
    THEN [r EXCEPT !.state = "abandoned"]
    ELSE [r EXCEPT !.state = "presentation_received", !.proof = p]
ReceivePresentation(k, m, i) ==
    /\ m.type = "presentation" /\ vtask[k] = Idle
    /\ Matching(vrec, m.thread) = {i}
    /\ LET r == Received(vrec[i], m.proof)
       IN  VSet(k, SaveThen(i, r, IF r.state # "abandoned" /\ r.auto
                                  THEN "verify" ELSE "idle"))
    /\ UNCHANGED <<vrec, nonce, pvars, toVerifier, toProver, threads>>

\* A handler's save.  A record that is gone cannot be updated: the handler
\* ends with the StorageError.
VerifierSave(k) ==
    /\ vtask[k].pc = "save"
    /\ LET i == vtask[k].id
           r == vtask[k].rec
       IN  IF Live(vrec[i])
           THEN /\ vrec' = [vrec EXCEPT ![i] = r]
                /\ VSet(k, IF vtask[k].next = "idle" THEN Idle
                           ELSE At(vtask[k].next, i, r))
           ELSE VSet(k, Idle) /\ UNCHANGED vrec
    /\ UNCHANGED <<nonce, pvars, toVerifier, toProver, threads>>

\* POST /records/{id}/verify-presentation
VerifyRoute(k, i) ==
    /\ vtask[k] = Idle
    /\ vrec[i].state = "presentation_received"
    /\ VSet(k, At("verify", i, vrec[i]))
    /\ UNCHANGED <<vrec, nonce, pvars, toVerifier, toProver, threads>>

\* Bug: the verdict is put into the record as it is when verification ends.
VerdictOnly(mine, now) ==
    [now EXCEPT !.state = "verified", !.verified = Verdict(mine.proof, mine.req)]
WithVerdict(mine, now) ==
    [mine EXCEPT !.state = "verified", !.verified = Verdict(mine.proof, mine.req)]

\* verify_presentation, after the ledger and the library: the copy is
\* written with the verdict on the presentation it holds.
VerifyPresentation(k) ==
    /\ vtask[k].pc = "verify"
    /\ LET i == vtask[k].id
           r == WithVerdict(vtask[k].rec, vrec[i])
       IN  IF Live(vrec[i])
           THEN /\ vrec' = [vrec EXCEPT ![i] = r]
                /\ VSet(k, At("ack", i, r))
           ELSE VSet(k, At("error", i, r)) /\ UNCHANGED vrec
    /\ UNCHANGED <<nonce, pvars, toVerifier, toProver, threads>>

\* send_presentation_ack: the result is that of the copy; then the record is
\* removed if it is to be.  Without a connection and an out-of-band record
\* the ack cannot be sent, and nothing is removed.
SendPresentationAck(k, reachable) ==
    /\ vtask[k].pc = "ack"
    /\ LET t == vtask[k]
       IN  IF reachable
           THEN /\ ToProver(Ack(t.rec.thread, t.rec.verified))
                /\ VSet(k, IF t.rec.autoRemove THEN [t EXCEPT !.pc = "remove"]
                           ELSE Idle)
           ELSE VSet(k, Idle) /\ UNCHANGED toProver
    /\ UNCHANGED <<vrec, nonce, pvars, toVerifier, threads>>

VerifierRemoveDone(k) ==
    /\ vtask[k].pc = "remove"
    /\ vrec' = [vrec EXCEPT ![vtask[k].id] = Gone]
    /\ VSet(k, Idle)
    /\ UNCHANGED <<nonce, pvars, toVerifier, toProver, threads>>

\* A ledger or library error while a task waits.
VerifierFails(k) ==
    /\ Faults
    /\ vtask[k].pc \in {"bind", "verify"}
    /\ VSet(k, [vtask[k] EXCEPT !.pc = "error"])
    /\ UNCHANGED <<vrec, nonce, pvars, toVerifier, toProver, threads>>

\* POST /records/{id}/problem-report: the same ending, chosen by the caller.
VerifierReportRoute(k, i) ==
    /\ vtask[k] = Idle /\ Live(vrec[i])
    /\ VSet(k, At("error", i, vrec[i]))
    /\ UNCHANGED <<vrec, nonce, pvars, toVerifier, toProver, threads>>

\* receive_problem_report and save_error_state
Abandoned(r) == [r EXCEPT !.state = "abandoned"]
ErrorState(r, copy) == IF Live(r) THEN Abandoned(copy) ELSE r

\* save_error_state with the copy; a storage error is swallowed.  Then the
\* other party is told.
VerifierReports(k) ==
    /\ vtask[k].pc = "error"
    /\ LET i == vtask[k].id
       IN  /\ vrec' = [vrec EXCEPT ![i] = ErrorState(@, vtask[k].rec)]
           /\ ToProver(Problem(vtask[k].rec.thread))
    /\ VSet(k, Idle)
    /\ UNCHANGED <<nonce, pvars, toVerifier, threads>>

\* receive_problem_report: any state is overwritten.
VerifierReceiveProblem(k, m, i) ==
    /\ m.type = "problem" /\ vtask[k] = Idle
    /\ Matching(vrec, m.thread) = {i}
    /\ VSet(k, SaveThen(i, Abandoned(vrec[i]), "idle"))
    /\ UNCHANGED <<vrec, nonce, pvars, toVerifier, toProver, threads>>

\* DELETE /records/{id}
VerifierRemove(i) ==
    /\ Live(vrec[i])
    /\ vrec' = [vrec EXCEPT ![i] = Gone]
    /\ UNCHANGED <<vtask, nonce, pvars, toVerifier, toProver, threads>>

-----------------------------------------------------------------------------
(***************************************************************************)
(* The prover.                                                             *)
(***************************************************************************)
\* create_exchange_for_proposal
ExchangeForProposal(t, auto, ar) ==
    [Blank EXCEPT !.state = "proposal_sent", !.thread = t,
                  !.proposed = TRUE, !.auto = auto, !.autoRemove = ar]

\* POST /send-proposal
SendProposal(i, t, auto, ar) ==
    /\ Proposals
    /\ prec[i].state = "unborn"
    /\ t \in Threads \ threads /\ threads' = threads \cup {t}
    /\ prec' = [prec EXCEPT ![i] = ExchangeForProposal(t, auto, ar)]
    /\ ToVerifier(Proposal(t))
    /\ UNCHANGED <<vvars, ptask, toProver>>

\* The request's handler finds the record the proposal made, in any state, or
\* makes one; the request replaces the one it had.
Unasked(m, ar) ==
    [Blank EXCEPT !.thread = m.thread, !.auto = AutoPresent, !.autoRemove = ar]
Taken(r, m) == [r EXCEPT !.state = "request_received", !.req = m.req]
ReceiveRequest(k, m, i, ar) ==
    /\ m.type = "request" /\ ptask[k] = Idle
    /\ \/ Matching(prec, m.thread) = {i}
       \/ Matching(prec, m.thread) = {} /\ i \in FreeIds(prec, ptask)
    /\ LET r == Taken(IF Live(prec[i]) THEN prec[i] ELSE Unasked(m, ar), m)
       IN  PSet(k, SaveThen(i, r, IF r.auto THEN "present" ELSE "idle"))
    /\ UNCHANGED <<prec, vvars, toVerifier, toProver, threads>>

\* A handler's save; a new record is inserted, one that is gone is not there
\* to be updated.
ProverSave(k) ==
    /\ ptask[k].pc = "save"
    /\ LET i == ptask[k].id
           r == ptask[k].rec
       IN  IF prec[i].state # "removed"
           THEN /\ prec' = [prec EXCEPT ![i] = r]
                /\ PSet(k, IF ptask[k].next = "idle" THEN Idle
                           ELSE At(ptask[k].next, i, r))
           ELSE PSet(k, Idle) /\ UNCHANGED prec
    /\ UNCHANGED <<vvars, toVerifier, toProver, threads>>

\* POST /records/{id}/send-presentation
SendPresentation(k, i, ar) ==
    /\ ptask[k] = Idle
    /\ prec[i].state = "request_received"
    /\ PSet(k, At("present", i, [prec[i] EXCEPT !.autoRemove = ar]))
    /\ UNCHANGED <<prec, vvars, toVerifier, toProver, threads>>

\* Automatic presentation ends when the wallet has no credentials that fit.
NothingToPresent(k) ==
    /\ ptask[k].pc = "present" /\ ptask[k].rec.auto
    /\ PSet(k, Idle)
    /\ UNCHANGED <<prec, vvars, toVerifier, toProver, threads>>

\* Bug: the presentation answers the request the record has by now.
ForNow(mine, now) == now.req
AnsweredRequest(mine, now) == mine.req

\* create_presentation: the proof is made for the request of the copy, the
\* copy is written, and the presentation is sent.
CreatePresentation(k, sound, asProposed) ==
    /\ ptask[k].pc = "present"
    /\ Cardinality(Presented) < MaxProofs
    /\ ptask[k].rec.proposed \/ asProposed     \* without a proposal it is idle
    /\ LET i == ptask[k].id
           p == [for |-> AnsweredRequest(ptask[k].rec, prec[i]),
                 sound |-> sound, asProposed |-> asProposed]
           r == [ptask[k].rec EXCEPT !.state = "presentation_sent", !.proof = p]
       IN  IF Live(prec[i])
           THEN /\ prec' = [prec EXCEPT ![i] = r]
                /\ ToVerifier(Presentation(r.thread, p))
                /\ PSet(k, Idle)
           ELSE /\ PSet(k, At("error", i, r))
                /\ UNCHANGED <<prec, toVerifier>>
    /\ UNCHANGED <<vvars, toProver, threads>>

\* Bug: an ack is taken for a success, whatever it says.
AckedAsTrue(r, m) == [r EXCEPT !.state = "presentation_acked", !.verified = "true"]
\* receive_presentation_ack: taken in any state.
Acked(r, m) == [r EXCEPT !.state = "presentation_acked", !.verified = m.verified]
ReceiveAck(k, m, i) ==
    /\ m.type = "ack" /\ ptask[k] = Idle
    /\ Matching(prec, m.thread) = {i}
    /\ LET r == Acked(prec[i], m)
       IN  PSet(k, SaveThen(i, r, IF r.autoRemove THEN "remove" ELSE "idle"))
    /\ UNCHANGED <<prec, vvars, toVerifier, toProver, threads>>

ProverRemoveDone(k) ==
    /\ ptask[k].pc = "remove"
    /\ prec' = [prec EXCEPT ![ptask[k].id] = Gone]
    /\ PSet(k, Idle)
    /\ UNCHANGED <<vvars, toVerifier, toProver, threads>>

\* GET /records/{id}/credentials: a wallet error abandons the exchange.
FetchCredentials(k, i) ==
    /\ Faults /\ ptask[k] = Idle
    /\ Live(prec[i]) /\ prec[i].req # 0
    /\ PSet(k, At("error", i, prec[i]))
    /\ UNCHANGED <<prec, vvars, toVerifier, toProver, threads>>

ProverFails(k) ==
    /\ Faults
    /\ ptask[k].pc = "present"
    /\ PSet(k, [ptask[k] EXCEPT !.pc = "error"])
    /\ UNCHANGED <<prec, vvars, toVerifier, toProver, threads>>

ProverReports(k) ==
    /\ ptask[k].pc = "error"
    /\ LET i == ptask[k].id
       IN  /\ prec' = [prec EXCEPT ![i] = ErrorState(@, ptask[k].rec)]
           /\ ToVerifier(Problem(ptask[k].rec.thread))
    /\ PSet(k, Idle)
    /\ UNCHANGED <<vvars, toProver, threads>>

ProverReceiveProblem(k, m, i) ==
    /\ m.type = "problem" /\ ptask[k] = Idle
    /\ Matching(prec, m.thread) = {i}
    /\ PSet(k, SaveThen(i, Abandoned(prec[i]), "idle"))
    /\ UNCHANGED <<prec, vvars, toVerifier, toProver, threads>>

-----------------------------------------------------------------------------
VerifierStep ==
    \/ \E i \in Ids, t \in Threads, auto, ar \in Autos :
          \/ SendFreeRequest(i, t, auto, ar)
          \/ \E h \in BOOLEAN : CreateRequest(i, t, auto, ar, h)
    \/ \E k \in VTasks, i \in Ids, auto, ar \in Autos : SendBoundRequest(k, i, auto, ar)
    \/ \E k \in VTasks, m \in toVerifier, i \in Ids :
          \/ \E ar \in Autos : ReceiveProposal(k, m, i, ar)
          \/ ReceivePresentation(k, m, i)
          \/ VerifierReceiveProblem(k, m, i)
    \/ \E k \in VTasks, i \in Ids : VerifyRoute(k, i) \/ VerifierReportRoute(k, i)
    \/ \E k \in VTasks :
          \/ CreateBoundRequest(k) \/ VerifierSave(k) \/ VerifyPresentation(k)
          \/ VerifierRemoveDone(k) \/ VerifierFails(k) \/ VerifierReports(k)
          \/ \E reachable \in BOOLEAN : SendPresentationAck(k, reachable)
    \/ \E i \in Ids : VerifierRemove(i)

ProverStep ==
    \/ \E i \in Ids, t \in Threads, auto, ar \in Autos : SendProposal(i, t, auto, ar)
    \/ \E k \in PTasks, m \in toProver, i \in Ids :
          \/ \E ar \in Autos : ReceiveRequest(k, m, i, ar)
          \/ ReceiveAck(k, m, i)
          \/ ProverReceiveProblem(k, m, i)
    \/ \E k \in PTasks, i \in Ids :
          FetchCredentials(k, i) \/ \E ar \in Autos : SendPresentation(k, i, ar)
    \/ \E k \in PTasks :
          \/ ProverSave(k) \/ NothingToPresent(k) \/ ProverRemoveDone(k)
          \/ ProverFails(k) \/ ProverReports(k)
          \/ \E sound, asProposed \in BOOLEAN : CreatePresentation(k, sound, asProposed)

Next == VerifierStep \/ ProverStep
Spec == Init /\ [][Next]_vars

-----------------------------------------------------------------------------
\* Records, tasks and messages are ones the code can make.
TypeOK ==
    /\ vrec \in [Ids -> Record(VerifierStates)]
    /\ prec \in [Ids -> Record(ProverStates)]
    /\ \A k \in VTasks : vtask[k] = Idle \/ vtask[k] \in
          Task({"bind", "save", "verify", "ack", "remove", "error"}, VerifierStates)
    /\ \A k \in PTasks : ptask[k] = Idle \/ ptask[k] \in
          Task({"save", "present", "remove", "error"}, ProverStates)
    /\ nonce \in Nonces
    /\ threads \subseteq Threads

\* A record in state "verified" has the verdict on the presentation it keeps,
\* for the request it keeps, although presentations are taken in any state and
\* verification ends long after it read the record (manager.py:355, :434).
VerdictOfKeptProof ==
    \A i \in Ids : vrec[i].state = "verified"
                      => vrec[i].verified = Verdict(vrec[i].proof, vrec[i].req)

\* While a prover waits for the ack, its record has the presentation of the
\* request it keeps, also when requests come twice (manager.py:296).
PresentedForRequest ==
    \A i \in Ids : prec[i].state = "presentation_sent" => prec[i].proof.for = prec[i].req

\* A prover whose record says that its presentation was found true has sent a
\* sound one on that thread, for a request that was made there, whatever was
\* repeated, replaced or verified from an older copy meanwhile (manager.py:443).
AckedIsProved ==
    \A i \in Ids : prec[i].verified = "true" =>
        \E m \in Presented : /\ m.thread = prec[i].thread /\ m.proof.sound
                             /\ Request(m.thread, m.proof.for) \in toProver

\* Presentation, request and verdict belong together at both agents.
ProofsMatch == VerdictOfKeptProof /\ PresentedForRequest /\ AckedIsProved
=============================================================================
