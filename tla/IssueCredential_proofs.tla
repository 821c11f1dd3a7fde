----------------------- MODULE IssueCredential_proofs -----------------------
(***************************************************************************)
(* Theorems about the issue-credential exchange, for any number of         *)
(* records, threads, tasks, credentials and requests: first the issuer,    *)
(* then both agents together: what an acknowledgement means, how the       *)
(* records move, and that the exchange implements CredentialIssuance.      *)
(***************************************************************************)
EXTENDS IssueCredential, TLAPS

USE DEF Reqs

-----------------------------------------------------------------------------
(***************************************************************************)
(* Types of what the steps build.                                          *)
(***************************************************************************)

\* The records and tasks a step writes have their types.
LEMMA BlankTypes ==
    /\ BlankIssuer \in IssuerRecord /\ RemovedIssuer \in IssuerRecord
    /\ BlankHolder \in HolderRecord /\ RemovedHolder \in HolderRecord
    /\ NoCred \in Cred
<1>1. NoCred \in Cred
  BY IssueCredentialAssumption DEF NoCred, Cred
<1>2. BlankIssuer \in IssuerRecord
  BY <1>1, IssueCredentialAssumption DEF BlankIssuer, IssuerRecord
<1>3. BlankHolder \in HolderRecord
  BY <1>1, IssueCredentialAssumption DEF BlankHolder, HolderRecord
<1>4. RemovedIssuer \in IssuerRecord
  BY <1>2 DEF RemovedIssuer, IssuerRecord
<1>5. RemovedHolder \in HolderRecord
  BY <1>3 DEF RemovedHolder, HolderRecord
<1> QED BY <1>1, <1>2, <1>3, <1>4, <1>5

\* A task that is not idle is a full task record.
LEMMA BusyTask ==
    ASSUME TypeOK
    PROVE  /\ \A k \in ITasks : itask[k].pc # "idle" => itask[k] \in ITask
           /\ \A k \in HTasks : htask[k].pc # "idle" => htask[k] \in HTask
BY DEF TypeOK, Idle

\* A new task built by ITaskAt, HTaskAt or HandlerAt has its type.
LEMMA TaskAtTypes ==
    /\ \A pc \in IPcs, i \in Ids, r \in IssuerRecord :
          ITaskAt(pc, i, r) \in ITask
    /\ \A pc \in HPcs, i \in Ids, r \in HolderRecord :
          HTaskAt(pc, i, r) \in HTask /\ HandlerAt(pc, i, r) \in HTask
BY IssueCredentialAssumption DEF ITaskAt, HTaskAt, HandlerAt, ITask, HTask

\* A record that takes another state is still a record.
LEMMA StateUpdateTypes ==
    /\ \A r \in IssuerRecord, st \in IssuerStates :
          [r EXCEPT !.state = st] \in IssuerRecord
    /\ \A r \in HolderRecord, st \in HolderStates :
          [r EXCEPT !.state = st] \in HolderRecord
    /\ \A r \in HolderRecord, c \in Cred : [r EXCEPT !.cred = c] \in HolderRecord
BY DEF IssuerRecord, HolderRecord

\* Putting a task in a slot, or going on by itself, keeps the tasks' type.
LEMMA SlotTypes ==
    ASSUME TypeOK
    PROVE  /\ \A k \in ITasks, x \in ITask \cup {Idle} :
                 ISet(k, x) => itask' \in [ITasks -> ITask \cup {Idle}]
           /\ \A k \in HTasks, x \in HTask \cup {Idle} :
                 HSet(k, x) => htask' \in [HTasks -> HTask \cup {Idle}]
           /\ \A flag \in BOOLEAN, x \in ITask :
                 IContinue(flag, x) => itask' \in [ITasks -> ITask \cup {Idle}]
           /\ \A flag \in BOOLEAN, x \in HTask :
                 HContinue(flag, x) => htask' \in [HTasks -> HTask \cup {Idle}]
BY DEF TypeOK, ISet, HSet, IContinue, HContinue

\* Messages have their types.
LEMMA MessageTypes ==
    /\ \A t \in AnyThread : /\ Proposal(t) \in ToIssuer /\ Ack(t) \in ToIssuer
                            /\ Problem(t) \in ToIssuer
                            /\ Offer(t) \in ToHolder /\ Problem(t) \in ToHolder
    /\ \A t \in AnyThread, r \in Reqs : Request(t, r) \in ToIssuer
    /\ \A t \in AnyThread, c \in Cred : Issue(t, c) \in ToHolder
    /\ Threads \subseteq AnyThread
BY DEF Proposal, Ack, Problem, Offer, Request, Issue, ToIssuer, ToHolder,
       AnyThread

-----------------------------------------------------------------------------
\* The steps of Next, gathered for the proofs that follow: each theorem about
\* a step goes through these four groups.
IssuerHandlerStep ==
    \E i \in Ids :
        \/ \E m \in toIssuer :
              \/ \E ai \in AutoIssues, ar \in AutoRemoves :
                     ReceiveProposal(m, i, ai, ar)
              \/ ReceiveRequest(m, i) \/ ReceiveUnknownRequest(m)
              \/ ReceiveAck(m, i) \/ IssuerReceiveProblem(m, i)
        \/ \E t \in Threads, ai \in BOOLEAN, ar \in AutoRemoves :
              NewOffer(i, t, ai, ar)
        \/ IssueAgain(i) \/ IssuerRemove(i)
        \/ \E k \in ITasks : \/ SendBoundOffer(k, i) \/ StartIssue(k, i)
                             \/ IssuerReportProblem(k, i)

IssuerTask(k) ==
    \/ \E t \in Threads : CreateOffer(k, t)
    \/ CreateCredential(k) \/ CommitIssue(k) \/ IssuerRemoveAcked(k)
    \/ IssuerSaveError(k) \/ IssuerFault(k)

HolderHandlerStep ==
    \E i \in Ids :
        \/ \E m \in toHolder : \/ \E ar \in AutoRemoves : ReceiveOffer(m, i, ar)
                               \/ ReceiveCredential(m, i)
                               \/ HolderReceiveProblem(m, i)
        \/ \E t \in Threads, ar \in AutoRemoves : SendProposal(i, t, ar)
        \/ RequestAgain(i) \/ HolderRemove(i)
        \/ \E k \in HTasks : \/ \E ar \in AutoRemoves : StartRequest(k, i, ar)
                             \/ StartStore(k, i) \/ HolderReportProblem(k, i)

HolderTask(k) ==
    \/ \E r \in 1..MaxReqs : CreateRequest(k, r)
    \/ StoreInWallet(k) \/ SaveStored(k) \/ AckCredential(k)
    \/ HolderRemoveAcked(k) \/ HolderSaveError(k) \/ HolderFault(k)
    \/ AckUnsaved(k)

LEMMA NextSteps ==
    ASSUME Next
    PROVE  \/ IssuerHandlerStep \/ IssuerRestart
           \/ HolderHandlerStep \/ HolderRestart
           \/ \E k \in ITasks : IssuerTask(k)
           \/ \E k \in HTasks : HolderTask(k)
           \/ \E e \in revRecs : CredRevoked(e)
<1>1. CASE IssuerHandle
  BY <1>1 DEF IssuerHandle, IssuerHandlerStep
<1>2. CASE IssuerControl
  BY <1>2, IssueCredentialAssumption
     DEF IssuerControl, IssuerHandlerStep, Send, SendFreeOffer
<1>3. CASE \E k \in ITasks : IssuerProceed(k) \/ IssuerFault(k)
  BY <1>3 DEF IssuerProceed, IssuerTask
<1>4. CASE HolderHandle \/ HolderControl
  BY <1>4 DEF HolderHandle, HolderControl, HolderHandlerStep
<1>5. CASE \E k \in HTasks : HolderProceed(k) \/ HolderFault(k) \/ AckUnsaved(k)
  BY <1>5 DEF HolderProceed, HolderTask
<1> QED BY <1>1, <1>2, <1>3, <1>4, <1>5 DEF Next

-----------------------------------------------------------------------------
(***************************************************************************)
(* Type correctness, one step per action.                                  *)
(***************************************************************************)
LEMMA InitTypeOK == Init => TypeOK
BY BlankTypes, IssueCredentialAssumption DEF Init, TypeOK

\* The issuer's handlers and calls keep the types.
LEMMA IssuerHandlersTypeOK ==
    ASSUME TypeOK, IssuerHandlerStep
    PROVE  TypeOK'
<1> USE IssueCredentialAssumption, BlankTypes, SlotTypes DEF Fresh
<1>1. ASSUME NEW i \in Ids, NEW t \in Threads, NEW a \in BOOLEAN,
              NEW ar \in AutoRemoves, NewOffer(i, t, a, ar)
       PROVE  TypeOK'
  <2> DEFINE r == [BlankIssuer EXCEPT !.state = "offer_sent", !.thread = t,
                                      !.autoIssue = a, !.autoRemove = ar]
  <2>2. r \in IssuerRecord
    BY DEF IssuerRecord, IssuerStates
  <2>3. irec' \in [Ids -> IssuerRecord]
    BY <1>1, <2>2 DEF NewOffer, TypeOK
  <2>4. toHolder' \subseteq ToHolder
    BY <1>1, MessageTypes DEF NewOffer, TypeOK
  <2> QED BY <1>1, <2>3, <2>4 DEF NewOffer, TypeOK, hvars
<1>2. ASSUME NEW i \in Ids, NEW m \in toIssuer,
              NEW ai \in AutoIssues, NEW ar \in AutoRemoves,
              ReceiveProposal(m, i, ai, ar)
       PROVE  TypeOK'
  <2> DEFINE r == [BlankIssuer EXCEPT !.state = "proposal_received",
                                      !.thread = m.thread,
                                      !.autoIssue = ai, !.autoRemove = ar]
  <2>1. m.thread \in AnyThread
    BY DEF TypeOK, ToIssuer
  <2>2. r \in IssuerRecord
    BY <2>1 DEF IssuerRecord, IssuerStates, AnyThread
  <2>3. ITaskAt("offer", i, r) \in ITask
    BY <2>2, TaskAtTypes DEF IPcs
  <2>4. itask' \in [ITasks -> ITask \cup {Idle}]
    BY <1>2, <2>3 DEF ReceiveProposal
  <2>5. irec' \in [Ids -> IssuerRecord]
    BY <1>2, <2>2 DEF ReceiveProposal, TypeOK
  <2> QED BY <1>2, <2>4, <2>5 DEF ReceiveProposal, TypeOK, hvars
<1>3. ASSUME NEW i \in Ids, NEW k \in ITasks,
              SendBoundOffer(k, i) \/ StartIssue(k, i) \/ IssuerReportProblem(k, i)
       PROVE  TypeOK'
  <2>1. \A pc \in IPcs : ITaskAt(pc, i, irec[i]) \in ITask
    BY TaskAtTypes DEF TypeOK
  <2>2. itask' \in [ITasks -> ITask \cup {Idle}]
    BY <1>3, <2>1 DEF SendBoundOffer, StartIssue, IssuerReportProblem, IPcs
  <2> QED BY <1>3, <2>2 DEF SendBoundOffer, StartIssue, IssuerReportProblem,
                            TypeOK, hvars
<1>4. ASSUME NEW i \in Ids, NEW m \in toIssuer,
              ReceiveRequest(m, i)
       PROVE  TypeOK'
  <2> DEFINE r == [irec[i] EXCEPT !.state = "request_received", !.req = m.req]
  <2>1. m.req \in Reqs
    BY <1>4 DEF ReceiveRequest, TypeOK, ToIssuer
  <2>2. r \in IssuerRecord /\ r.autoIssue \in BOOLEAN
    BY <2>1 DEF TypeOK, IssuerRecord, IssuerStates
  <2>3. ITaskAt("issuing", i, r) \in ITask
    BY <2>2, TaskAtTypes DEF IPcs
  <2>4. itask' \in [ITasks -> ITask \cup {Idle}]
    BY <1>4, <2>2, <2>3 DEF ReceiveRequest
  <2>5. irec' \in [Ids -> IssuerRecord]
    BY <1>4, <2>2 DEF ReceiveRequest, TypeOK
  <2> QED BY <1>4, <2>4, <2>5 DEF ReceiveRequest, TypeOK, hvars
<1>5. ASSUME NEW m \in toIssuer,
              ReceiveUnknownRequest(m)
       PROVE  TypeOK'
  BY <1>5 DEF ReceiveUnknownRequest, vars, TypeOK
<1>6. ASSUME NEW i \in Ids,
              IssueAgain(i)
       PROVE  TypeOK'
  BY <1>6, MessageTypes DEF IssueAgain, TypeOK, ivars, hvars, IssuerRecord,
                            AnyThread
<1>7. ASSUME NEW i \in Ids, NEW m \in toIssuer,
              ReceiveAck(m, i)
       PROVE  TypeOK'
  <2>1. irec' \in [Ids -> IssuerRecord]
    <3> DEFINE r == [irec[i] EXCEPT !.state = "credential_acked"]
    <3>1. irec \in [Ids -> IssuerRecord]
      BY DEF TypeOK
    <3>2. r \in IssuerRecord
      BY <3>1, StateUpdateTypes DEF IssuerStates
    <3>3. irec' = [irec EXCEPT ![i] = r]
      BY <1>7 DEF ReceiveAck
    <3> QED BY <3>1, <3>2, <3>3
  <2>2. ITaskAt("remove", i, irec'[i]) \in ITask
    BY <2>1, TaskAtTypes DEF IPcs
  <2>3. itask' \in [ITasks -> ITask \cup {Idle}]
    BY <1>7, <2>2 DEF ReceiveAck, TypeOK, IssuerRecord
  <2> QED BY <1>7, <2>1, <2>3 DEF ReceiveAck, TypeOK, hvars
<1>8. ASSUME NEW i \in Ids,
              IssuerRemove(i) \/ \E m \in toIssuer : IssuerReceiveProblem(m, i)
       PROVE  TypeOK'
  <2> DEFINE r == [irec[i] EXCEPT !.state = "abandoned"]
  <2>1. irec \in [Ids -> IssuerRecord]
    BY DEF TypeOK
  <2>2. r \in IssuerRecord
    BY <2>1, StateUpdateTypes DEF IssuerStates
  <2>3. \/ irec' = [irec EXCEPT ![i] = RemovedIssuer]
        \/ irec' = [irec EXCEPT ![i] = r]
    BY <1>8 DEF IssuerReceiveProblem, IssuerRemove
  <2>4. irec' \in [Ids -> IssuerRecord]
    BY <2>1, <2>2, <2>3
  <2> QED BY <1>8, <2>4 DEF IssuerReceiveProblem, IssuerRemove, TypeOK, hvars
<1> QED BY <1>1, <1>2, <1>3, <1>4, <1>5, <1>6, <1>7, <1>8 DEF IssuerHandlerStep

\* So do the steps of the issuer's tasks.
LEMMA IssuerTasksTypeOK ==
    ASSUME TypeOK, NEW k \in ITasks, IssuerTask(k)
    PROVE  TypeOK'
<1> USE IssueCredentialAssumption, BlankTypes, SlotTypes, MessageTypes
<1> DEFINE task == itask[k]
<1>1. task \in ITask
  BY BusyTask DEF IssuerTask, CreateOffer, CreateCredential, CommitIssue,
                  IssuerRemoveAcked, IssuerSaveError, IssuerFault
<1>2. task.id \in Ids /\ task.rec \in IssuerRecord /\ task.idx \in 0..MaxCreds
  BY <1>1 DEF ITask
<1>3. \A r \in IssuerRecord : ITaskAt("error", task.id, r) \in ITask
  BY <1>2, TaskAtTypes DEF IPcs
<1>4. ASSUME NEW t \in Threads, CreateOffer(k, t)
       PROVE  TypeOK'
  <2> DEFINE r == [task.rec EXCEPT !.state = "offer_sent", !.thread = t]
  <2>1. r \in IssuerRecord
    BY <1>2 DEF IssuerRecord, IssuerStates
  <2>2. irec' \in [Ids -> IssuerRecord]
    BY <1>2, <1>4, <2>1 DEF CreateOffer, TypeOK
  <2>3. itask' \in [ITasks -> ITask \cup {Idle}]
    BY <1>3, <1>4, <2>1 DEF CreateOffer
  <2>4. toHolder' \subseteq ToHolder
    BY <1>4 DEF CreateOffer, TypeOK
  <2> QED BY <1>4, <2>2, <2>3, <2>4 DEF CreateOffer, TypeOK, hvars, Fresh
<1>5. CASE CreateCredential(k)
  <2>1. created' \in 0..MaxCreds
    BY <1>5 DEF CreateCredential, TypeOK
  <2>2. [task EXCEPT !.pc = "issue", !.idx = created + 1] \in ITask
    BY <1>1, <1>5, <2>1 DEF CreateCredential, ITask, IPcs
  <2>3. itask' \in [ITasks -> ITask \cup {Idle}]
    BY <1>5, <2>2 DEF CreateCredential
  <2> QED BY <1>5, <2>1, <2>3 DEF CreateCredential, TypeOK, hvars
<1>6. CASE CommitIssue(k)
  <2> DEFINE c == [idx |-> task.idx, req |-> task.rec.req]
  <2>1. c \in Cred
    BY <1>2 DEF Cred, IssuerRecord
  <2> DEFINE r == [irec[task.id] EXCEPT !.state = "credential_issued", !.cred = c]
  <2>a. irec \in [Ids -> IssuerRecord]
    BY DEF TypeOK
  <2>b. r \in IssuerRecord
    BY <1>2, <2>1, <2>a DEF IssuerRecord, IssuerStates
  <2>c. irec' = irec \/ irec' = [irec EXCEPT ![task.id] = r]
    BY <1>6 DEF CommitIssue
  <2>2. irec' \in [Ids -> IssuerRecord]
    BY <1>2, <2>a, <2>b, <2>c
  <2>3. itask' \in [ITasks -> ITask \cup {Idle}]
    BY <1>2, <1>3, <1>6 DEF CommitIssue
  <2>4. irec[task.id].thread \in AnyThread
    BY <1>2 DEF TypeOK, IssuerRecord, AnyThread
  <2>5. toHolder' \subseteq ToHolder
    BY <1>6, <2>1, <2>4 DEF CommitIssue, TypeOK
  <2>6. revRecs' \subseteq [id : Ids, idx : 0..MaxCreds]
    BY <1>2, <1>6 DEF CommitIssue, CredRevRecord, TypeOK
  <2> QED BY <1>6, <2>2, <2>3, <2>5, <2>6 DEF CommitIssue, TypeOK, hvars
<1>7. CASE IssuerRemoveAcked(k)
  BY <1>2, <1>7 DEF IssuerRemoveAcked, TypeOK, hvars
<1>8. CASE IssuerSaveError(k)
  <2> DEFINE r == [task.rec EXCEPT !.state = "abandoned"]
  <2>1. r \in IssuerRecord /\ r.thread \in AnyThread
    BY <1>2 DEF IssuerRecord, IssuerStates, AnyThread
  <2>2. irec' \in [Ids -> IssuerRecord]
    BY <1>2, <1>8, <2>1 DEF IssuerSaveError, TypeOK
  <2>3. toHolder' \subseteq ToHolder
    BY <1>8, <2>1 DEF IssuerSaveError, TypeOK
  <2> QED BY <1>8, <2>2, <2>3 DEF IssuerSaveError, TypeOK, hvars
<1>9. CASE IssuerFault(k)
  <2>1. [task EXCEPT !.pc = "error"] \in ITask
    BY <1>1 DEF ITask, IPcs
  <2> QED BY <1>9, <2>1 DEF IssuerFault, TypeOK, hvars
<1> QED BY <1>4, <1>5, <1>6, <1>7, <1>8, <1>9 DEF IssuerTask

\* A revocation keeps the types.
LEMMA CredRevokedTypeOK ==
    ASSUME TypeOK, NEW e \in revRecs, CredRevoked(e)
    PROVE  TypeOK'
<1>1. e.id \in Ids /\ e.idx \in 0..MaxCreds
  BY DEF TypeOK
<1>2. irec' \in [Ids -> IssuerRecord]
  BY <1>1 DEF CredRevoked, TypeOK, IssuerRecord, IssuerStates
<1> QED BY <1>1, <1>2 DEF CredRevoked, TypeOK, hvars

\* The holder's handlers and calls keep the types.
LEMMA HolderHandlersTypeOK ==
    ASSUME TypeOK, HolderHandlerStep
    PROVE  TypeOK'
<1> USE IssueCredentialAssumption, BlankTypes, SlotTypes, MessageTypes
<1>1. ASSUME NEW i \in Ids, NEW t \in Threads, NEW ar \in AutoRemoves,
              SendProposal(i, t, ar)
       PROVE  TypeOK'
  <2> DEFINE r == [BlankHolder EXCEPT !.state = "proposal_sent", !.thread = t,
                                      !.autoRemove = ar]
  <2>1. r \in HolderRecord
    BY DEF HolderRecord, HolderStates
  <2>2. hrec' \in [Ids -> HolderRecord]
    BY <1>1, <2>1 DEF SendProposal, TypeOK
  <2>3. toIssuer' \subseteq ToIssuer
    BY <1>1 DEF SendProposal, TypeOK
  <2> QED BY <1>1, <2>2, <2>3 DEF SendProposal, TypeOK, ivars, Fresh
<1>2. ASSUME NEW i \in Ids, NEW m \in toHolder, NEW ar \in AutoRemoves,
              ReceiveOffer(m, i, ar)
       PROVE  TypeOK'
  <2> DEFINE found == Matching(hrec, m.thread)
             r == IF found = {}
                  THEN [BlankHolder EXCEPT !.state = "offer_received",
                                           !.thread = m.thread,
                                           !.autoRemove = ar]
                  ELSE [hrec[i] EXCEPT !.state = "offer_received"]
  <2>1. m.thread \in Threads \cup {NoThread}
    BY DEF TypeOK, ToHolder, AnyThread
  <2>2. [BlankHolder EXCEPT !.state = "offer_received", !.thread = m.thread,
                            !.autoRemove = ar] \in HolderRecord
    BY <2>1 DEF HolderRecord, HolderStates
  <2>3. [hrec[i] EXCEPT !.state = "offer_received"] \in HolderRecord
    BY DEF TypeOK, HolderRecord, HolderStates
  <2>4. r \in HolderRecord
    BY <2>2, <2>3
  <2>5. HTaskAt("request", i, r) \in HTask
    BY <2>4, TaskAtTypes DEF HPcs
  <2>6. /\ hrec' = [hrec EXCEPT ![i] = r]
        /\ HContinue(AutoRequest, HTaskAt("request", i, r))
    BY <1>2 DEF ReceiveOffer
  <2>7. hrec' \in [Ids -> HolderRecord]
    BY <2>4, <2>6 DEF TypeOK
  <2>8. htask' \in [HTasks -> HTask \cup {Idle}]
    BY <2>5, <2>6
  <2> QED BY <1>2, <2>7, <2>8 DEF ReceiveOffer, TypeOK, ivars
<1>3. ASSUME NEW i \in Ids,
              RequestAgain(i)
       PROVE  TypeOK'
  <2>1. hrec[i].thread \in AnyThread /\ hrec[i].req \in Reqs
    BY DEF TypeOK, HolderRecord, AnyThread
  <2> QED BY <1>3, <2>1 DEF RequestAgain, TypeOK, ivars, hvars
<1>4. ASSUME NEW i \in Ids, NEW k \in HTasks, NEW ar \in AutoRemoves,
              StartRequest(k, i, ar)
       PROVE  TypeOK'
  <2>1. [hrec[i] EXCEPT !.autoRemove = ar] \in HolderRecord
    BY DEF TypeOK, HolderRecord
  <2>2. \A pc \in HPcs : HTaskAt(pc, i, [hrec[i] EXCEPT !.autoRemove = ar]) \in HTask
    BY <2>1, TaskAtTypes
  <2>3. htask' \in [HTasks -> HTask \cup {Idle}]
    BY <1>4, <2>2 DEF StartRequest, HPcs
  <2> QED BY <1>4, <2>3 DEF StartRequest, TypeOK, ivars
<1>5. ASSUME NEW i \in Ids, NEW m \in toHolder,
              ReceiveCredential(m, i)
       PROVE  TypeOK'
  <2> DEFINE r == [hrec[i] EXCEPT !.state = "credential_received",
                                  !.raw = m.cred]
  <2>1. m.cred \in Cred
    BY <1>5 DEF ReceiveCredential, TypeOK, ToHolder
  <2>2. r \in HolderRecord
    BY <2>1 DEF TypeOK, HolderRecord, HolderStates
  <2>3. HandlerAt("store", i, r) \in HTask
    BY <2>2, TaskAtTypes DEF HPcs
  <2>4. htask' \in [HTasks -> HTask \cup {Idle}]
    BY <1>5, <2>3 DEF ReceiveCredential
  <2>5. hrec' \in [Ids -> HolderRecord]
    BY <1>5, <2>2 DEF ReceiveCredential, TypeOK
  <2> QED BY <1>5, <2>4, <2>5 DEF ReceiveCredential, TypeOK, ivars
<1>6. ASSUME NEW i \in Ids, NEW k \in HTasks,
              StartStore(k, i) \/ HolderReportProblem(k, i)
       PROVE  TypeOK'
  <2>1. \A pc \in HPcs : HTaskAt(pc, i, hrec[i]) \in HTask
    BY TaskAtTypes DEF TypeOK
  <2>2. htask' \in [HTasks -> HTask \cup {Idle}]
    BY <1>6, <2>1 DEF StartStore, HolderReportProblem, HPcs
  <2> QED BY <1>6, <2>2 DEF StartStore, HolderReportProblem, TypeOK, ivars
<1>7. ASSUME NEW i \in Ids,
              HolderRemove(i) \/ \E m \in toHolder : HolderReceiveProblem(m, i)
       PROVE  TypeOK'
  <2>1. [hrec[i] EXCEPT !.state = "abandoned"] \in HolderRecord
    BY DEF TypeOK, HolderRecord, HolderStates
  <2>2. hrec' \in [Ids -> HolderRecord]
    BY <1>7, <2>1 DEF HolderReceiveProblem, HolderRemove, TypeOK
  <2> QED BY <1>7, <2>2 DEF HolderReceiveProblem, HolderRemove, TypeOK, ivars
<1> QED BY <1>1, <1>2, <1>3, <1>4, <1>5, <1>6, <1>7 DEF HolderHandlerStep

\* So do the steps of the holder's tasks.
LEMMA HolderTasksTypeOK ==
    ASSUME TypeOK, NEW k \in HTasks, HolderTask(k)
    PROVE  TypeOK'
<1> USE IssueCredentialAssumption, BlankTypes, SlotTypes, MessageTypes
<1> DEFINE task == htask[k]
           i == task.id
<1>1. task \in HTask
  <2>1. task.pc # "idle"
    BY DEF HolderTask, CreateRequest, StoreInWallet, SaveStored,
           AckCredential, HolderRemoveAcked, HolderSaveError, HolderFault,
           AckUnsaved, Owed
  <2> QED BY <2>1, BusyTask
<1>2. i \in Ids /\ task.rec \in HolderRecord
  BY <1>1 DEF HTask
<1>3. \A pc \in HPcs : [task EXCEPT !.pc = pc] \in HTask
  BY <1>1 DEF HTask
<1>4. hrec[i] \in HolderRecord /\ hrec[i].thread \in AnyThread
      /\ task.rec.thread \in AnyThread
  BY <1>2 DEF TypeOK, HolderRecord, AnyThread
<1>5. ASSUME NEW q \in 1..MaxReqs, CreateRequest(k, q)
       PROVE  TypeOK'
  <2>1. requested' \in Reqs /\ q \in Reqs
    BY <1>5 DEF CreateRequest, TypeOK
  <2> DEFINE r == [hrec[i] EXCEPT !.state = "request_sent", !.req = q,
                                  !.autoRemove = task.rec.autoRemove]
  <2>5. r \in HolderRecord
    BY <1>2, <1>4, <2>1 DEF HolderRecord, HolderStates
  <2>2. hrec' \in [Ids -> HolderRecord]
    <3>1. CASE Requestable(hrec[i])
      <4>1. hrec' = [hrec EXCEPT ![i] = r]
        BY <1>2, <1>5, <3>1 DEF CreateRequest, TypeOK
      <4> QED BY <4>1, <2>5 DEF TypeOK
    <3>2. CASE ~Requestable(hrec[i])
      BY <1>5, <3>2 DEF CreateRequest, TypeOK
    <3> QED BY <3>1, <3>2
  <2>3. htask' \in [HTasks -> HTask \cup {Idle}]
    BY <1>3, <1>5 DEF CreateRequest, HPcs
  <2>4. toIssuer' \subseteq ToIssuer
    BY <1>4, <1>5, <2>1 DEF CreateRequest, TypeOK
  <2> QED BY <1>5, <2>1, <2>2, <2>3, <2>4 DEF CreateRequest, TypeOK, ivars
<1>6. CASE StoreInWallet(k)
  <2>1. htask' \in [HTasks -> HTask \cup {Idle}]
    BY <1>3, <1>6 DEF StoreInWallet, HPcs
  <2>2. wallet' \subseteq Cred
    BY <1>2, <1>6 DEF StoreInWallet, TypeOK, HolderRecord
  <2> QED BY <1>6, <2>1, <2>2 DEF StoreInWallet, TypeOK, ivars
<1>7. CASE SaveStored(k)
  <2>1. task.rec.raw \in Cred
    BY <1>2 DEF HolderRecord
  <2>2. hrec' \in [Ids -> HolderRecord]
    <3> DEFINE r == [hrec[i] EXCEPT !.cred = task.rec.raw]
    <3>1. hrec \in [Ids -> HolderRecord]
      BY DEF TypeOK
    <3>2. r \in HolderRecord
      BY <1>2, <2>1, <3>1, StateUpdateTypes
    <3>3. hrec' = hrec \/ hrec' = [hrec EXCEPT ![i] = r]
      BY <1>7 DEF SaveStored
    <3> QED BY <1>2, <3>1, <3>2, <3>3
  <2>3. HTaskAt("ack", i, hrec'[i]) \in HTask
    BY <1>2, <2>2, TaskAtTypes DEF HPcs
  <2>4. htask' \in [HTasks -> HTask \cup {Idle}]
    BY <1>3, <1>7, <2>3 DEF SaveStored, HPcs
  <2> QED BY <1>7, <2>2, <2>4 DEF SaveStored, TypeOK, ivars
<1>8. CASE AckCredential(k)
  <2>1. hrec' \in [Ids -> HolderRecord]
    <3> DEFINE r == [hrec[i] EXCEPT !.state = "credential_acked"]
    <3>1. hrec \in [Ids -> HolderRecord]
      BY DEF TypeOK
    <3>2. r \in HolderRecord
      BY <1>2, <3>1, StateUpdateTypes DEF HolderStates
    <3>3. hrec' = hrec \/ hrec' = [hrec EXCEPT ![i] = r]
      BY <1>8 DEF AckCredential
    <3> QED BY <1>2, <3>1, <3>2, <3>3
  <2>2. [task EXCEPT !.pc = "remove", !.rec = hrec'[i]] \in HTask
    BY <1>1, <1>2, <2>1 DEF HPcs, HTask
  <2>3. htask' \in [HTasks -> HTask \cup {Idle}]
    BY <1>8, <2>2 DEF AckCredential
  <2>4. toIssuer' \subseteq ToIssuer
    BY <1>4, <1>8 DEF AckCredential, TypeOK
  <2> QED BY <1>8, <2>1, <2>3, <2>4 DEF AckCredential, TypeOK, ivars
<1>9. CASE HolderRemoveAcked(k)
  BY <1>2, <1>4, <1>9 DEF HolderRemoveAcked, TypeOK, ivars
<1>10. CASE HolderSaveError(k)
  <2> DEFINE r == [task.rec EXCEPT !.state = "abandoned"]
  <2>1. r \in HolderRecord /\ r.thread \in AnyThread
    BY <1>2 DEF HolderRecord, HolderStates, AnyThread
  <2>2. hrec' \in [Ids -> HolderRecord]
    BY <1>2, <1>10, <2>1 DEF HolderSaveError, TypeOK
  <2>3. toIssuer' \subseteq ToIssuer
    BY <1>10, <2>1 DEF HolderSaveError, TypeOK
  <2>4. htask' \in [HTasks -> HTask \cup {Idle}]
    BY <1>3, <1>10 DEF HolderSaveError, HPcs
  <2> QED BY <1>10, <2>2, <2>3, <2>4 DEF HolderSaveError, TypeOK, ivars
<1>11. CASE HolderFault(k)
  <2>1. htask' \in [HTasks -> HTask \cup {Idle}]
    BY <1>3, <1>11 DEF HolderFault, HPcs
  <2> QED BY <1>11, <2>1 DEF HolderFault, TypeOK, ivars
<1>12. CASE AckUnsaved(k)
  BY <1>4, <1>12 DEF AckUnsaved, TypeOK, ivars
<1> QED BY <1>5, <1>6, <1>7, <1>8, <1>9, <1>10, <1>11, <1>12
     DEF HolderTask

\* Every step keeps the types.
LEMMA NextTypeOK == TypeOK /\ [Next]_vars => TypeOK'
<1> SUFFICES ASSUME TypeOK, [Next]_vars PROVE TypeOK'
  OBVIOUS
<1>1. CASE UNCHANGED vars
  BY <1>1 DEF vars, TypeOK
<1>2. CASE IssuerHandlerStep
  BY <1>2, IssuerHandlersTypeOK
<1>3. CASE \E k \in ITasks : IssuerTask(k)
  BY <1>3, IssuerTasksTypeOK
<1>4. CASE HolderHandlerStep
  BY <1>4, HolderHandlersTypeOK
<1>5. CASE \E k \in HTasks : HolderTask(k)
  BY <1>5, HolderTasksTypeOK
<1>6. CASE \E e \in revRecs : CredRevoked(e)
  BY <1>6, CredRevokedTypeOK
<1>7. CASE IssuerRestart \/ HolderRestart
  BY <1>7 DEF IssuerRestart, HolderRestart, TypeOK, ivars, hvars
<1> QED BY <1>1, <1>2, <1>3, <1>4, <1>5, <1>6, <1>7, NextSteps

\* Every variable keeps its type, whatever the sizes of the system.
THEOREM TypeCorrect == Spec => []TypeOK
<1>1. Init => TypeOK
  BY InitTypeOK
<1>2. TypeOK /\ [Next]_vars => TypeOK'
  BY NextTypeOK
<1> QED BY <1>1, <1>2, PTL DEF Spec

-----------------------------------------------------------------------------
(***************************************************************************)
(* One credential per thread, and a revocation record for each.            *)
(*                                                                         *)
(* OneCredentialPerThread is not inductive: a request taken by a record    *)
(* whose thread has its credential already would break it.  What excludes  *)
(* this is that an open record's thread is its own, since each offer       *)
(* starts a new one, and has seen no credential; that a record, or a copy  *)
(* of it in some task, names a credential only after it was sent on the    *)
(* record's thread; and that a copy about to become an offer names none.   *)
(***************************************************************************)
Open(r)     == r.state \in {"offer_sent", "request_received"}
CredSent(r) == r.cred # NoCred => Issue(r.thread, r.cred) \in toHolder

OpenUnsent ==
    \A i \in Ids : Open(irec[i]) =>
        /\ irec[i].thread \in used
        /\ \A m \in toHolder : m.type = "issue" => m.thread # irec[i].thread
OpenApart ==
    \A i, j \in Ids : i # j /\ Open(irec[i]) /\ Open(irec[j])
                          => irec[i].thread # irec[j].thread
SentUsed == \A m \in toHolder : m.type = "issue" => m.thread \in used
KnownSent ==
    /\ \A i \in Ids : CredSent(irec[i])
    /\ \A k \in ITasks : itask[k].pc # "idle" => CredSent(itask[k].rec)
OfferBlank ==
    /\ \A i \in Ids : irec[i].state = "proposal_received" => irec[i].cred = NoCred
    /\ \A k \in ITasks : itask[k].pc = "offer" => itask[k].rec.cred = NoCred

ThreadInv == /\ OpenUnsent /\ OpenApart /\ SentUsed /\ KnownSent /\ OfferBlank
             /\ OneCredentialPerThread

\* An index is in the hands of one task, or recorded for one exchange.
IndexInv ==
    /\ \A e \in revRecs : e.idx <= created
    /\ \A k \in ITasks : itask[k].pc = "issue" =>
          itask[k].idx <= created /\ \A e \in revRecs : e.idx # itask[k].idx
    /\ \A k, l \in ITasks : k # l /\ itask[k].pc = "issue" /\ itask[l].pc = "issue"
                               => itask[k].idx # itask[l].idx
    /\ SentIsRevocable

\* What a step of the holder's leaves alone.
LEMMA HolderFrame ==
    ASSUME \/ HolderHandlerStep \/ HolderRestart
           \/ \E k \in HTasks : HolderTask(k)
    PROVE  UNCHANGED <<irec, itask, revRecs, revoked, created, toHolder>>
           /\ used \subseteq used'
<1>1. CASE HolderHandlerStep
  <2>1. ASSUME NEW i \in Ids, NEW m \in toHolder,
               \/ \E ar \in AutoRemoves : ReceiveOffer(m, i, ar)
               \/ ReceiveCredential(m, i)
               \/ HolderReceiveProblem(m, i)
        PROVE  UNCHANGED <<ivars, toHolder, used>>
    BY <2>1 DEF ReceiveOffer, ReceiveCredential, HolderReceiveProblem
  <2>2. ASSUME NEW i \in Ids, NEW t \in Threads, NEW ar \in AutoRemoves,
               SendProposal(i, t, ar)
        PROVE  UNCHANGED <<ivars, toHolder>> /\ used \subseteq used'
    BY <2>2 DEF SendProposal, Fresh
  <2>3. ASSUME NEW i \in Ids, RequestAgain(i) \/ HolderRemove(i)
        PROVE  UNCHANGED <<ivars, toHolder, used>>
    BY <2>3 DEF RequestAgain, HolderRemove
  <2>4. ASSUME NEW i \in Ids, NEW k \in HTasks,
               \/ \E ar \in AutoRemoves : StartRequest(k, i, ar)
               \/ StartStore(k, i) \/ HolderReportProblem(k, i)
        PROVE  UNCHANGED <<ivars, toHolder, used>>
    BY <2>4 DEF StartRequest, StartStore, HolderReportProblem
  <2>5. UNCHANGED <<ivars, toHolder>> /\ used \subseteq used'
    BY <1>1, <2>1, <2>2, <2>3, <2>4 DEF HolderHandlerStep
  <2> QED BY <2>5 DEF ivars
<1>2. CASE HolderRestart
  BY <1>2 DEF HolderRestart, ivars
<1>3. CASE \E k \in HTasks : HolderTask(k)
  BY <1>3 DEF HolderTask, CreateRequest, StoreInWallet, SaveStored,
     AckCredential, HolderRemoveAcked, HolderSaveError, HolderFault,
     AckUnsaved, ivars
<1> QED BY <1>1, <1>2, <1>3

\* A step that sends no new credential and opens no record keeps ThreadInv,
\* if the copies it makes name only credentials that were sent.
LEMMA QuietStep ==
    ASSUME ThreadInv,
           toHolder \subseteq toHolder', used \subseteq used',
           \A m \in toHolder' : m.type = "issue" => m \in toHolder,
           \A i \in Ids :
              /\ Open(irec'[i]) => Open(irec[i]) /\ irec'[i].thread = irec[i].thread
              /\ irec'[i].state = "proposal_received" => irec'[i].cred = NoCred
              /\ \/ irec'[i].cred = NoCred
                 \/ irec'[i].cred = irec[i].cred /\ irec'[i].thread = irec[i].thread
                 \/ \E k \in ITasks : /\ itask[k].pc # "idle"
                                      /\ irec'[i].cred = itask[k].rec.cred
                                      /\ irec'[i].thread = itask[k].rec.thread,
           \A k \in ITasks :
              /\ itask'[k].pc = "offer" => itask'[k].rec.cred = NoCred
              /\ itask'[k].pc # "idle" =>
                   \/ itask[k].pc # "idle" /\ itask'[k].rec = itask[k].rec
                   \/ itask'[k].rec.cred = NoCred
                   \/ \E i \in Ids : /\ itask'[k].rec.cred = irec[i].cred
                                     /\ itask'[k].rec.thread = irec[i].thread
    PROVE  ThreadInv'
<1> USE DEF ThreadInv
<1>1. \A i \in Ids : CredSent(irec[i])'
  BY DEF KnownSent, CredSent
<1>2. \A k \in ITasks : itask'[k].pc # "idle" => CredSent(itask[k].rec)'
  BY DEF KnownSent, CredSent
<1>3. OpenUnsent' /\ OpenApart'
  BY DEF OpenUnsent, OpenApart, Open
<1>4. SentUsed' /\ OneCredentialPerThread'
  BY DEF SentUsed, OneCredentialPerThread
<1> QED BY <1>1, <1>2, <1>3, <1>4 DEF KnownSent, OfferBlank

\* An offer on a fresh thread keeps ThreadInv.
LEMMA OfferStep ==
    ASSUME TypeOK, ThreadInv, NEW i \in Ids, NEW t \in Threads, Fresh(t),
           NEW r \in IssuerRecord, r.state = "offer_sent", r.thread = t,
           r.cred = NoCred,
           irec' = [irec EXCEPT ![i] = r],
           toHolder' = toHolder \cup {Offer(t)},
           \A k \in ITasks : itask'[k] = itask[k] \/ itask'[k].pc = "idle"
    PROVE  ThreadInv'
<1> USE DEF ThreadInv
<1>1. irec'[i] = r /\ \A j \in Ids \ {i} : irec'[j] = irec[j]
  BY DEF TypeOK
<1>2. t \notin used /\ used' = used \cup {t}
  BY DEF Fresh
<1>3. \A m \in toHolder' : m.type = "issue" => m \in toHolder /\ m.thread # t
  BY <1>2 DEF Offer, SentUsed
<1>4. OpenUnsent'
  BY <1>1, <1>2, <1>3 DEF OpenUnsent
<1>5. OpenApart'
  BY <1>1, <1>2 DEF OpenApart, OpenUnsent
<1>6. SentUsed' /\ OneCredentialPerThread'
  BY <1>2, <1>3 DEF SentUsed, OneCredentialPerThread
<1>7. KnownSent'
  BY <1>1 DEF KnownSent, CredSent
<1>8. OfferBlank'
  BY <1>1 DEF OfferBlank
<1> QED BY <1>4, <1>5, <1>6, <1>7, <1>8

\* So does issuing on the thread of an open record.
LEMMA IssueStep ==
    ASSUME TypeOK, ThreadInv, NEW k \in ITasks, CommitIssue(k)
    PROVE  ThreadInv'
<1> USE DEF ThreadInv
<1>1. /\ itask[k] \in ITask
      /\ \E i \in Ids : i = itask[k].id
  BY BusyTask DEF CommitIssue, ITask
<1>5. PICK i \in Ids : i = itask[k].id
  BY <1>1
<1> DEFINE c == [idx |-> itask[k].idx, req |-> itask[k].rec.req]
           t == irec[i].thread
<1>2. used' = used
  BY DEF CommitIssue
<1>3. CASE Issuable(irec[i])
  <2>1. /\ irec' = [irec EXCEPT ![i].state = "credential_issued", ![i].cred = c]
        /\ toHolder' = toHolder \cup {Issue(t, c)}
        /\ itask' = [itask EXCEPT ![k] = Idle]
    BY <1>3, <1>5 DEF CommitIssue, ISet
  <2>2. /\ irec'[i].state = "credential_issued" /\ irec'[i].cred = c
        /\ irec'[i].thread = t
        /\ \A j \in Ids \ {i} : irec'[j] = irec[j]
    BY <1>1, <2>1 DEF TypeOK, IssuerRecord
  <2>3. \A l \in ITasks : itask'[l] = itask[l] \/ itask'[l].pc = "idle"
    BY <2>1 DEF TypeOK, Idle
  <2>4. Open(irec[i])
    BY <1>3 DEF Issuable, Open
  <2>5. t \in used /\ \A m \in toHolder : m.type = "issue" => m.thread # t
    BY <1>1, <2>4 DEF OpenUnsent
  <2>6. /\ Issue(t, c).type = "issue" /\ Issue(t, c).thread = t
        /\ Issue(t, c).cred = c
    BY DEF Issue
  <2>7. OpenUnsent'
    <3>1. ~Open(irec'[i])
      BY <2>2 DEF Open
    <3>2. ASSUME NEW j \in Ids \ {i}, Open(irec[j]) PROVE irec[j].thread # t
      BY <1>1, <2>4, <3>2 DEF OpenApart
    <3>3. ASSUME NEW j \in Ids \ {i}, Open(irec[j])
          PROVE  /\ irec[j].thread \in used
                 /\ \A m \in toHolder' : m.type = "issue" => m.thread # irec[j].thread
      BY <2>1, <2>6, <3>2, <3>3 DEF OpenUnsent
    <3> QED BY <1>2, <2>2, <3>1, <3>3 DEF OpenUnsent, Open
  <2>8. OpenApart'
    BY <2>2 DEF OpenApart, Open
  <2>9. SentUsed'
    BY <1>2, <2>1, <2>5, <2>6 DEF SentUsed
  <2>10. OneCredentialPerThread'
    BY <2>1, <2>5, <2>6 DEF OneCredentialPerThread
  <2>11. KnownSent'
    <3>3. Issue(irec'[i].thread, irec'[i].cred) \in toHolder'
      BY <2>1, <2>2
    <3>4. CredSent(irec[i])'
      BY <3>3 DEF CredSent
    <3>6. toHolder \subseteq toHolder' /\ \A j \in Ids : CredSent(irec[j])
      BY <2>1 DEF KnownSent
    <3>5. \A j \in Ids \ {i} : CredSent(irec[j])'
      BY <2>2, <3>6 DEF CredSent
    <3>1. \A j \in Ids : CredSent(irec[j])'
      BY <3>4, <3>5
    <3>2. \A l \in ITasks : itask'[l].pc # "idle" => CredSent(itask[l].rec)'
      BY <2>1, <2>3 DEF KnownSent, CredSent
    <3> QED BY <3>1, <3>2 DEF KnownSent
  <2>12. OfferBlank'
    BY <2>2, <2>3 DEF OfferBlank
  <2> QED BY <2>7, <2>8, <2>9, <2>10, <2>11, <2>12
<1>4. CASE ~Issuable(irec[i])
  <2>1. UNCHANGED <<irec, toHolder>>
        /\ itask' = [itask EXCEPT ![k] = ITaskAt("error", i, itask[k].rec)]
    BY <1>4, <1>5 DEF CommitIssue, ISet
  <2>2. /\ itask'[k] = ITaskAt("error", i, itask[k].rec)
        /\ \A l \in ITasks \ {k} : itask'[l] = itask[l]
    BY <2>1 DEF TypeOK
  <2>3. itask[k].pc # "idle" /\ itask'[k].pc = "error"
        /\ itask'[k].rec = itask[k].rec
    BY <2>2 DEF CommitIssue, ITaskAt
  <2>4. KnownSent' /\ OfferBlank'
    BY <2>1, <2>2, <2>3 DEF KnownSent, OfferBlank, CredSent
  <2> QED BY <1>2, <2>1, <2>4 DEF OpenUnsent, OpenApart, SentUsed,
                                  OneCredentialPerThread
<1> QED BY <1>3, <1>4

LEMMA InitThreadInv == Init => ThreadInv
BY DEF Init, ThreadInv, OpenUnsent, OpenApart, SentUsed, KnownSent, OfferBlank,
       OneCredentialPerThread, CredSent, Open, BlankIssuer, Idle, NoCred

\* The issuer's handlers and calls keep ThreadInv.
LEMMA IssuerHandlersThreadInv ==
    ASSUME TypeOK, ThreadInv, IssuerHandlerStep
    PROVE  ThreadInv'
<1>1. ASSUME NEW i \in Ids, NEW t \in Threads, NEW a \in BOOLEAN,
             NEW ar \in AutoRemoves, NewOffer(i, t, a, ar)
      PROVE  ThreadInv'
  <2> DEFINE r == [BlankIssuer EXCEPT !.state = "offer_sent", !.thread = t,
                                      !.autoIssue = a, !.autoRemove = ar]
  <2>1. /\ r \in IssuerRecord /\ r.state = "offer_sent" /\ r.thread = t
        /\ r.cred = NoCred
    BY BlankTypes, IssueCredentialAssumption
       DEF IssuerRecord, IssuerStates, BlankIssuer
  <2>2. irec' = [irec EXCEPT ![i] = r] /\ UNCHANGED itask
    BY <1>1 DEF NewOffer
  <2> HIDE DEF r
  <2> QED BY <1>1, <2>1, <2>2, OfferStep DEF NewOffer
<1>2. ASSUME NEW i \in Ids, NEW m \in toIssuer,
             NEW ai \in AutoIssues, NEW ar \in AutoRemoves,
             ReceiveProposal(m, i, ai, ar)
      PROVE  ThreadInv'
  <2> DEFINE r == [BlankIssuer EXCEPT !.state = "proposal_received",
                                      !.thread = m.thread,
                                      !.autoIssue = ai, !.autoRemove = ar]
  <2>1. r.cred = NoCred /\ ~Open(r)
    BY DEF BlankIssuer, Open
  <2>2. irec'[i] = r /\ \A j \in Ids \ {i} : irec'[j] = irec[j]
    BY <1>2 DEF ReceiveProposal, TypeOK
  <2>3. \A k \in ITasks : itask'[k] = itask[k]
                          \/ itask'[k] = ITaskAt("offer", i, r)
    BY <1>2 DEF ReceiveProposal, IContinue, ISet, TypeOK
  <2>4. ITaskAt("offer", i, r).rec = r
    BY DEF ITaskAt
  <2>5. UNCHANGED <<toHolder, used>>
    BY <1>2 DEF ReceiveProposal
  <2> HIDE DEF r
  <2> QED BY <2>1, <2>2, <2>3, <2>4, <2>5, QuietStep
          DEF ThreadInv, OfferBlank
<1>3. ASSUME NEW i \in Ids, NEW k \in ITasks,
             SendBoundOffer(k, i) \/ StartIssue(k, i) \/ IssuerReportProblem(k, i)
      PROVE  ThreadInv'
  <2>1. PICK pc \in IPcs : ISet(k, ITaskAt(pc, i, irec[i]))
                            /\ (pc = "offer" => irec[i].state = "proposal_received")
    BY <1>3 DEF SendBoundOffer, StartIssue, IssuerReportProblem, IPcs
  <2>2. /\ itask'[k].pc = pc /\ itask'[k].rec = irec[i]
        /\ \A l \in ITasks \ {k} : itask'[l] = itask[l]
    BY <2>1 DEF ISet, ITaskAt, TypeOK
  <2>3. UNCHANGED <<irec, toHolder, used>>
    BY <1>3 DEF SendBoundOffer, StartIssue, IssuerReportProblem
  <2> QED BY <2>1, <2>2, <2>3, QuietStep DEF ThreadInv, OfferBlank
<1>4. ASSUME NEW i \in Ids, NEW m \in toIssuer, ReceiveRequest(m, i)
      PROVE  ThreadInv'
  <2> DEFINE r == [irec[i] EXCEPT !.state = "request_received", !.req = m.req]
  <2>1. /\ r.cred = irec[i].cred /\ r.thread = irec[i].thread
        /\ r.state = "request_received" /\ Open(irec[i])
    BY <1>4 DEF ReceiveRequest, OpenOffer, Open, TypeOK, IssuerRecord
  <2>2. irec'[i] = r /\ \A j \in Ids \ {i} : irec'[j] = irec[j]
    BY <1>4 DEF ReceiveRequest, TypeOK
  <2>3. \A k \in ITasks : itask'[k] = itask[k]
                          \/ itask'[k] = ITaskAt("issuing", i, r)
    BY <1>4 DEF ReceiveRequest, IContinue, ISet, TypeOK
  <2>4. /\ ITaskAt("issuing", i, r).rec = r
        /\ ITaskAt("issuing", i, r).pc = "issuing"
    BY DEF ITaskAt
  <2>5. UNCHANGED <<toHolder, used>>
    BY <1>4 DEF ReceiveRequest
  <2> HIDE DEF r
  <2> QED BY <2>1, <2>2, <2>3, <2>4, <2>5, QuietStep DEF ThreadInv, OfferBlank
<1>5. ASSUME NEW m \in toIssuer, ReceiveUnknownRequest(m)
      PROVE  ThreadInv'
  BY <1>5, QuietStep DEF ReceiveUnknownRequest, vars, ThreadInv, OfferBlank
<1>6. ASSUME NEW i \in Ids, IssueAgain(i)
      PROVE  ThreadInv'
  <2>1. Issue(irec[i].thread, irec[i].cred) \in toHolder
    BY <1>6 DEF IssueAgain, ThreadInv, KnownSent, CredSent
  <2>2. UNCHANGED <<irec, itask, toHolder, used>>
    BY <1>6, <2>1 DEF IssueAgain, ivars
  <2> QED BY <2>2, QuietStep DEF ThreadInv, OfferBlank
<1>7. ASSUME NEW i \in Ids, NEW m \in toIssuer, ReceiveAck(m, i)
      PROVE  ThreadInv'
  <2>1. /\ irec'[i].state = "credential_acked"
        /\ irec'[i].thread = irec[i].thread /\ irec'[i].cred = irec[i].cred
        /\ \A j \in Ids \ {i} : irec'[j] = irec[j]
    BY <1>7 DEF ReceiveAck, TypeOK, IssuerRecord
  <2>2. \A k \in ITasks : itask'[k] = itask[k]
                          \/ itask'[k] = ITaskAt("remove", i, irec'[i])
    BY <1>7 DEF ReceiveAck, IContinue, ISet, TypeOK
  <2>3. /\ ITaskAt("remove", i, irec'[i]).rec = irec'[i]
        /\ ITaskAt("remove", i, irec'[i]).pc = "remove"
    BY DEF ITaskAt
  <2>4. UNCHANGED <<toHolder, used>>
    BY <1>7 DEF ReceiveAck
  <2> QED BY <2>1, <2>2, <2>3, <2>4, QuietStep DEF ThreadInv, OfferBlank, Open
<1>8. ASSUME NEW i \in Ids,
             IssuerRemove(i) \/ \E m \in toIssuer : IssuerReceiveProblem(m, i)
      PROVE  ThreadInv'
  <2>1. /\ irec'[i].state \in {"abandoned", "removed"}
        /\ \/ irec'[i].cred = NoCred
           \/ irec'[i].thread = irec[i].thread /\ irec'[i].cred = irec[i].cred
        /\ \A j \in Ids \ {i} : irec'[j] = irec[j]
    BY <1>8 DEF IssuerRemove, IssuerReceiveProblem, TypeOK, IssuerRecord,
                RemovedIssuer, BlankIssuer
  <2>2. UNCHANGED <<itask, toHolder, used>>
    BY <1>8 DEF IssuerRemove, IssuerReceiveProblem
  <2> QED BY <2>1, <2>2, QuietStep DEF ThreadInv, OfferBlank, Open
<1> QED BY <1>1, <1>2, <1>3, <1>4, <1>5, <1>6, <1>7, <1>8 DEF IssuerHandlerStep

\* So do the steps of its tasks.
LEMMA IssuerTasksThreadInv ==
    ASSUME TypeOK, ThreadInv, NEW k \in ITasks, IssuerTask(k)
    PROVE  ThreadInv'
<1>1. itask[k] \in ITask /\ itask[k].pc # "idle"
  BY BusyTask DEF IssuerTask, CreateOffer, CreateCredential, CommitIssue,
                  IssuerRemoveAcked, IssuerSaveError, IssuerFault
<1>2. PICK i \in Ids : i = itask[k].id
  BY <1>1 DEF ITask
<1>3. itask[k].rec \in IssuerRecord
  BY <1>1 DEF ITask
<1>4. ASSUME NEW t \in Threads, CreateOffer(k, t)
      PROVE  ThreadInv'
  <2> DEFINE r == [itask[k].rec EXCEPT !.state = "offer_sent", !.thread = t]
  <2>1. /\ r \in IssuerRecord /\ r.state = "offer_sent" /\ r.thread = t
        /\ r.cred = NoCred
    BY <1>3, <1>4 DEF CreateOffer, IssuerRecord, IssuerStates, ThreadInv,
                      OfferBlank
  <2>2. CASE Live(irec[i])
    <3>1. /\ irec' = [irec EXCEPT ![i] = r]
          /\ toHolder' = toHolder \cup {Offer(t)}
          /\ itask' = [itask EXCEPT ![k] = Idle]
          /\ Fresh(t)
      BY <1>2, <1>4, <2>2 DEF CreateOffer, ISet
    <3>2. \A l \in ITasks : itask'[l] = itask[l] \/ itask'[l].pc = "idle"
      BY <3>1 DEF TypeOK, Idle
    <3> HIDE DEF r
    <3> QED BY <2>1, <3>1, <3>2, OfferStep
  <2>3. CASE ~Live(irec[i])
    <3>1. /\ UNCHANGED <<irec, toHolder>> /\ used \subseteq used'
          /\ itask' = [itask EXCEPT ![k] = ITaskAt("error", i, r)]
      BY <1>2, <1>4, <2>3 DEF CreateOffer, ISet, Fresh
    <3>2. /\ itask'[k].pc = "error" /\ itask'[k].rec = r
          /\ \A l \in ITasks \ {k} : itask'[l] = itask[l]
      BY <3>1 DEF TypeOK, ITaskAt
    <3> HIDE DEF r
    <3> QED BY <2>1, <3>1, <3>2, QuietStep DEF ThreadInv, OfferBlank
  <2> QED BY <2>2, <2>3
<1>5. CASE CreateCredential(k) \/ IssuerFault(k)
  <2>1. /\ UNCHANGED <<irec, toHolder, used>>
        /\ itask'[k].pc \in {"issue", "error"} /\ itask'[k].rec = itask[k].rec
        /\ \A l \in ITasks \ {k} : itask'[l] = itask[l]
    <3> DEFINE to(pc, x) == [itask[k] EXCEPT !.pc = pc, !.idx = x]
               task == IF CreateCredential(k) THEN to("issue", created + 1)
                       ELSE [itask[k] EXCEPT !.pc = "error"]
    <3>3. task.pc \in {"issue", "error"} /\ task.rec = itask[k].rec
      BY <1>1 DEF ITask
    <3>1. itask' = [itask EXCEPT ![k] = task]
      BY <1>5 DEF CreateCredential, IssuerFault, ISet
    <3> HIDE DEF task
    <3>2. itask'[k] = task /\ \A l \in ITasks \ {k} : itask'[l] = itask[l]
      BY <3>1 DEF TypeOK
    <3> QED BY <1>5, <3>2, <3>3 DEF CreateCredential, IssuerFault
  <2> QED BY <1>1, <2>1, QuietStep DEF ThreadInv, OfferBlank
<1>6. CASE CommitIssue(k)
  BY <1>6, IssueStep
<1>7. CASE IssuerRemoveAcked(k)
  <2>1. /\ UNCHANGED <<toHolder, used>>
        /\ irec'[i] = RemovedIssuer /\ \A j \in Ids \ {i} : irec'[j] = irec[j]
        /\ itask'[k].pc = "idle" /\ \A l \in ITasks \ {k} : itask'[l] = itask[l]
    BY <1>2, <1>7 DEF IssuerRemoveAcked, ISet, TypeOK, Idle
  <2>2. RemovedIssuer.cred = NoCred /\ RemovedIssuer.state = "removed"
    BY DEF RemovedIssuer, BlankIssuer
  <2> QED BY <2>1, <2>2, QuietStep DEF ThreadInv, OfferBlank, Open
<1>8. CASE IssuerSaveError(k)
  <2> DEFINE r == [itask[k].rec EXCEPT !.state = "abandoned"]
  <2>1. /\ r.state = "abandoned" /\ r.cred = itask[k].rec.cred
        /\ r.thread = itask[k].rec.thread
    BY <1>3 DEF IssuerRecord
  <2>2. /\ toHolder' = toHolder \cup {Problem(r.thread)} /\ used' = used
        /\ irec'[i] \in {r, irec[i]} /\ \A j \in Ids \ {i} : irec'[j] = irec[j]
        /\ itask'[k].pc = "idle" /\ \A l \in ITasks \ {k} : itask'[l] = itask[l]
    BY <1>2, <1>8 DEF IssuerSaveError, ISet, TypeOK, Idle
  <2>3. Problem(r.thread).type = "problem"
    BY DEF Problem
  <2> HIDE DEF r
  <2> QED BY <1>1, <2>1, <2>2, <2>3, QuietStep DEF ThreadInv, OfferBlank, Open
<1> QED BY <1>4, <1>5, <1>6, <1>7, <1>8 DEF IssuerTask

LEMMA NextThreadInv == TypeOK /\ ThreadInv /\ [Next]_vars => ThreadInv'
<1> SUFFICES ASSUME TypeOK, ThreadInv, [Next]_vars PROVE ThreadInv'
  OBVIOUS
<1>1. CASE UNCHANGED vars
  BY <1>1, QuietStep DEF vars, ThreadInv, OfferBlank
<1>2. CASE IssuerHandlerStep
  BY <1>2, IssuerHandlersThreadInv
<1>3. CASE \E k \in ITasks : IssuerTask(k)
  BY <1>3, IssuerTasksThreadInv
<1>4. CASE \/ HolderHandlerStep \/ HolderRestart
           \/ \E k \in HTasks : HolderTask(k)
  <2>1. UNCHANGED <<irec, itask, toHolder>> /\ used \subseteq used'
    BY <1>4, HolderFrame
  <2> QED BY <2>1, QuietStep DEF ThreadInv, OfferBlank
<1>5. CASE \E e \in revRecs : CredRevoked(e)
  <2>1. /\ UNCHANGED <<itask, toHolder, used>>
        /\ \A i \in Ids : \/ irec'[i] = irec[i]
                           \/ /\ irec'[i].state = "credential_revoked"
                              /\ irec'[i].thread = irec[i].thread
                              /\ irec'[i].cred = irec[i].cred
    BY <1>5 DEF CredRevoked, TypeOK, IssuerRecord
  <2> QED BY <2>1, QuietStep DEF ThreadInv, OfferBlank, Open
<1>6. CASE IssuerRestart
  <2>1. /\ UNCHANGED <<irec, toHolder, used>>
        /\ \A k \in ITasks : itask'[k].pc = "idle"
    BY <1>6 DEF IssuerRestart, Idle
  <2> QED BY <2>1, QuietStep DEF ThreadInv, OfferBlank
<1> QED BY <1>1, <1>2, <1>3, <1>4, <1>5, <1>6, NextSteps

\* However often a request arrives and a controller calls, a thread yields
\* one credential.
THEOREM OneCredential == Spec => []OneCredentialPerThread
<1>1. Init => ThreadInv
  BY InitThreadInv
<1>2. TypeOK /\ ThreadInv /\ [Next]_vars => ThreadInv'
  BY NextThreadInv
<1>3. ThreadInv => OneCredentialPerThread
  BY DEF ThreadInv
<1> QED BY <1>1, <1>2, <1>3, TypeCorrect, PTL DEF Spec

-----------------------------------------------------------------------------
(***************************************************************************)
(* Revocation indices.                                                     *)
(***************************************************************************)
LEMMA InitIndexInv == Init => IndexInv
BY IssueCredentialAssumption DEF Init, IndexInv, SentIsRevocable, Idle

\* A step that takes no index and issues nothing keeps IndexInv.
LEMMA IndexFrame ==
    ASSUME IndexInv, UNCHANGED <<revRecs, created>>,
           \A m \in toHolder' : m.type = "issue" => m \in toHolder,
           \A k \in ITasks : itask'[k] = itask[k] \/ itask'[k].pc # "issue"
    PROVE  IndexInv'
BY DEF IndexInv, SentIsRevocable

\* Such are the steps of the issuer's handlers and calls.
LEMMA IssuerHandlersIndex ==
    ASSUME TypeOK, ThreadInv, IssuerHandlerStep
    PROVE  /\ UNCHANGED <<revRecs, created>>
           /\ \A m \in toHolder' : m.type = "issue" => m \in toHolder
           /\ \A k \in ITasks : itask'[k] = itask[k] \/ itask'[k].pc # "issue"
<1> DEFINE Goal ==
      /\ UNCHANGED <<revRecs, created>>
      /\ \A m \in toHolder' : m.type = "issue" => m \in toHolder
      /\ \A k \in ITasks : itask'[k] = itask[k] \/ itask'[k].pc # "issue"
<1>1. ASSUME NEW i \in Ids, NEW t \in Threads, NEW a \in BOOLEAN,
             NEW ar \in AutoRemoves, NewOffer(i, t, a, ar)
      PROVE  Goal
  BY <1>1 DEF NewOffer, Offer
<1>2. ASSUME NEW i \in Ids, NEW m \in toIssuer,
             NEW ai \in AutoIssues, NEW ar \in AutoRemoves,
             ReceiveProposal(m, i, ai, ar)
      PROVE  Goal
  BY <1>2 DEF ReceiveProposal, IContinue, ISet, ITaskAt, TypeOK
<1>3. ASSUME NEW i \in Ids, NEW k \in ITasks,
             SendBoundOffer(k, i) \/ StartIssue(k, i) \/ IssuerReportProblem(k, i)
      PROVE  Goal
  BY <1>3 DEF SendBoundOffer, StartIssue, IssuerReportProblem, ISet, ITaskAt,
              TypeOK
<1>4. ASSUME NEW i \in Ids, NEW m \in toIssuer,
             ReceiveRequest(m, i) \/ ReceiveAck(m, i) \/ IssuerReceiveProblem(m, i)
      PROVE  Goal
  BY <1>4 DEF ReceiveRequest, ReceiveAck, IssuerReceiveProblem, IContinue,
              ISet, ITaskAt, TypeOK
<1>5. ASSUME NEW m \in toIssuer, ReceiveUnknownRequest(m)
      PROVE  Goal
  BY <1>5 DEF ReceiveUnknownRequest, vars
<1>6. ASSUME NEW i \in Ids, IssueAgain(i) \/ IssuerRemove(i)
      PROVE  Goal
  BY <1>6 DEF IssueAgain, IssuerRemove, ivars, ThreadInv, KnownSent, CredSent
<1> QED BY <1>1, <1>2, <1>3, <1>4, <1>5, <1>6 DEF IssuerHandlerStep

LEMMA NextIndexInv == TypeOK /\ ThreadInv /\ IndexInv /\ [Next]_vars => IndexInv'
<1> SUFFICES ASSUME TypeOK, ThreadInv, IndexInv, [Next]_vars PROVE IndexInv'
  OBVIOUS
<1>1. CASE UNCHANGED vars
  BY <1>1, IndexFrame DEF vars
<1>2. CASE IssuerHandlerStep
  BY <1>2, IssuerHandlersIndex, IndexFrame
<1>3. ASSUME NEW k \in ITasks, CreateCredential(k)
      PROVE  IndexInv'
  <2>1. /\ created' = created + 1 /\ UNCHANGED <<revRecs, toHolder>>
        /\ itask' = [itask EXCEPT ![k] = [itask[k] EXCEPT !.pc = "issue",
                                                         !.idx = created + 1]]
    BY <1>3 DEF CreateCredential, ISet
  <2>2. itask[k] \in ITask
    BY <1>3, BusyTask DEF CreateCredential
  <2>3. /\ itask'[k].idx = created + 1
        /\ \A l \in ITasks \ {k} : itask'[l] = itask[l]
    BY <2>1, <2>2 DEF TypeOK, ITask
  <2>4. /\ created \in Nat /\ \A e \in revRecs : e.idx \in Nat
        /\ \A l \in ITasks : itask[l].pc = "issue" => itask[l].idx \in Nat
    <3>1. \A l \in ITasks : itask[l].pc = "issue" => itask[l] \in ITask
      BY BusyTask
    <3> QED BY <3>1, IssueCredentialAssumption DEF TypeOK, ITask
  <2>5. \A e \in revRecs' : e.idx <= created' /\ e.idx # created + 1
    BY <2>1, <2>4 DEF IndexInv
  <2>6. \A l \in ITasks \ {k} : itask[l].pc = "issue" =>
           /\ itask[l].idx <= created' /\ itask[l].idx # created + 1
    BY <2>1, <2>4 DEF IndexInv
  <2>7. SentIsRevocable'
    BY <2>1 DEF IndexInv, SentIsRevocable
  <2>8. created + 1 <= created'
    BY <2>1, <2>4
  <2> QED BY <2>1, <2>3, <2>5, <2>6, <2>7, <2>8 DEF IndexInv
<1>4. ASSUME NEW k \in ITasks, CommitIssue(k)
      PROVE  IndexInv'
  <2> DEFINE i == itask[k].id
             c == [idx |-> itask[k].idx, req |-> itask[k].rec.req]
             e == [id |-> i, idx |-> c.idx]
  <2>1. CASE Issuable(irec[i])
    <3>1. /\ revRecs' = revRecs \cup {e} /\ UNCHANGED created
          /\ toHolder' = toHolder \cup {Issue(irec[i].thread, c)}
          /\ itask' = [itask EXCEPT ![k] = Idle]
      BY <1>4, <2>1 DEF CommitIssue, CredRevRecord, ISet
    <3>2. /\ itask'[k].pc = "idle"
          /\ \A l \in ITasks \ {k} : itask'[l] = itask[l]
      BY <3>1 DEF TypeOK, Idle
    <3>3. /\ e.idx = itask[k].idx /\ itask[k].pc = "issue"
          /\ Issue(irec[i].thread, c).cred.idx = e.idx
      BY <1>4 DEF CommitIssue, Issue
    <3>4. /\ \A d \in revRecs : d.idx # e.idx
          /\ \A l \in ITasks \ {k} : itask[l].pc = "issue" => itask[l].idx # e.idx
          /\ e.idx <= created
      BY <3>3 DEF IndexInv
    <3> HIDE DEF e
    <3>5. SentIsRevocable'
      BY <3>1, <3>3, <3>4 DEF IndexInv, SentIsRevocable
    <3> QED BY <3>1, <3>2, <3>4, <3>5 DEF IndexInv
  <2>2. CASE ~Issuable(irec[i])
    <3>1. /\ UNCHANGED <<revRecs, created, toHolder>>
          /\ itask' = [itask EXCEPT ![k] = ITaskAt("error", i, itask[k].rec)]
      BY <1>4, <2>2 DEF CommitIssue, ISet
    <3>2. \A l \in ITasks : itask'[l] = itask[l] \/ itask'[l].pc # "issue"
      BY <3>1 DEF TypeOK, ITaskAt
    <3> QED BY <3>1, <3>2, IndexFrame
  <2> QED BY <2>1, <2>2
<1>5. ASSUME NEW k \in ITasks, NEW t \in Threads, CreateOffer(k, t)
      PROVE  IndexInv'
  <2>1. \A l \in ITasks : itask'[l] = itask[l] \/ itask'[l].pc # "issue"
    BY <1>5 DEF CreateOffer, ISet, ITaskAt, Idle, TypeOK
  <2> QED BY <1>5, <2>1, IndexFrame DEF CreateOffer, Offer
<1>9. ASSUME NEW k \in ITasks,
             IssuerRemoveAcked(k) \/ IssuerSaveError(k)
      PROVE  IndexInv'
  <2>1. \A l \in ITasks : itask'[l] = itask[l] \/ itask'[l].pc # "issue"
    BY <1>9 DEF IssuerRemoveAcked, IssuerSaveError, ISet, Idle, TypeOK
  <2> QED BY <1>9, <2>1, IndexFrame DEF IssuerRemoveAcked, IssuerSaveError,
                                        Problem
<1>10. ASSUME NEW k \in ITasks, IssuerFault(k)
       PROVE  IndexInv'
  <2>1. itask[k] \in ITask
    BY <1>10, BusyTask DEF IssuerFault
  <2>2. \A l \in ITasks : itask'[l] = itask[l] \/ itask'[l].pc # "issue"
    BY <1>10, <2>1 DEF IssuerFault, ISet, ITask, TypeOK
  <2> QED BY <1>10, <2>2, IndexFrame DEF IssuerFault
<1>6. CASE \/ HolderHandlerStep \/ HolderRestart
           \/ \E k \in HTasks : HolderTask(k)
  BY <1>6, HolderFrame, IndexFrame
<1>7. CASE \E e \in revRecs : CredRevoked(e)
  BY <1>7, IndexFrame DEF CredRevoked
<1>8. CASE IssuerRestart
  BY <1>8, IndexFrame DEF IssuerRestart, Idle
<1> QED BY <1>1, <1>2, <1>3, <1>4, <1>5, <1>6, <1>7, <1>8, <1>9, <1>10,
           NextSteps DEF IssuerTask

\* Every credential sent has its IssuerCredRevRecord, under an index no other
\* exchange has.
THEOREM Revocable == Spec => []SentIsRevocable
<1>1. Init => ThreadInv /\ IndexInv
  BY InitThreadInv, InitIndexInv
<1>2. TypeOK /\ ThreadInv /\ IndexInv /\ [Next]_vars => ThreadInv' /\ IndexInv'
  BY NextThreadInv, NextIndexInv
<1>3. IndexInv => SentIsRevocable
  BY DEF IndexInv
<1> QED BY <1>1, <1>2, <1>3, TypeCorrect, PTL DEF Spec

-----------------------------------------------------------------------------
(***************************************************************************)
(* The holder's half.  What is true of a record, and of the copy of one    *)
(* that a task holds while the record moves on.                            *)
(***************************************************************************)
KeptCred(r, w) == r.cred # NoCred => r.cred \in w /\ r.cred.req = r.req

Early   == {"unborn", "proposal_sent", "offer_received", "request_sent"}
Reached == {"credential_received", "credential_acked", "abandoned", "removed"}

\* Of a record r, when the wallet is w and the messages sent are n.
RecordOk(r, w, n) ==
    /\ KeptCred(r, w)
    /\ r.state \in Early => r.cred = NoCred
    /\ Storable(r) => Issue(r.thread, r.raw) \in n

\* What makes an ack due: a credential was issued, and it is in the wallet or
\* the holder has reported a problem.
Known(t, w, n, a) ==
    \E c : Issue(t, c) \in n /\ (c \in w \/ Problem(t) \in a)

\* A task that stores, or goes on to the ack whether or not it could.
Storing(x) == \/ x.pc \in {"store", "save", "ack"}
              \/ x.pc = "error" /\ x.acks

\* Of a task x whose record has become r, when the holder has sent a.  A task
\* that stores holds the credential and the request of the record, as long as
\* the record waits for it.
TaskOk(x, r, w, n, a) ==
    /\ KeptCred(x.rec, w)
    /\ r.state # "unborn"
    /\ x.pc = "request" => ~x.acks
    /\ Storing(x) \/ x.pc = "remove" => r.state \in Reached
    /\ Storing(x) /\ Storable(r) =>
          x.rec.req = r.req /\ x.rec.raw = r.raw /\ x.rec.thread = r.thread
    /\ Storing(x) => Issue(x.rec.thread, x.rec.raw) \in n
    /\ x.pc = "save" => x.rec.raw \in w /\ Answers(x.rec)
    /\ x.pc \in {"ack", "remove"} => Known(x.rec.thread, w, n, a)

RecordsOk == \A i \in Ids : RecordOk(hrec[i], wallet, toHolder)
TasksOk   == \A k \in HTasks : htask[k].pc # "idle" =>
                TaskOk(htask[k], hrec[htask[k].id], wallet, toHolder, toIssuer)
AcksOk    == \A m \in toIssuer : m.type = "ack" =>
                Known(m.thread, wallet, toHolder, toIssuer)
HolderInv == RecordsOk /\ TasksOk /\ AcksOk

\* A record that moves from r to s does so in a way that tasks with a copy of
\* it survive.
Onward(r, s) ==
    /\ s.state # "unborn"
    /\ r.state \in Reached => s.state \in Reached
    /\ Storable(s) => \/ r.state = "request_sent"
                      \/ /\ Storable(r)
                         /\ s.req = r.req /\ s.raw = r.raw /\ s.thread = r.thread

LEMMA InitHolderInv == Init => HolderInv
BY DEF Init, HolderInv, RecordsOk, TasksOk, AcksOk, RecordOk, KeptCred,
       BlankHolder, Storable, Idle

\* More in the wallet and more messages sent harm nothing.
LEMMA HolderGrows ==
    ASSUME NEW w, NEW v, w \subseteq v, NEW n, NEW p, n \subseteq p,
           NEW a, NEW b, a \subseteq b
    PROVE  /\ \A t : Known(t, w, n, a) => Known(t, v, p, b)
           /\ \A r : RecordOk(r, w, n) => RecordOk(r, v, p)
           /\ \A x, r : TaskOk(x, r, w, n, a) => TaskOk(x, r, v, p, b)
<1>1. \A t : Known(t, w, n, a) => Known(t, v, p, b)
  BY DEF Known
<1>2. \A r : KeptCred(r, w) => KeptCred(r, v)
  BY DEF KeptCred
<1> QED BY <1>1, <1>2 DEF RecordOk, TaskOk

\* What a step of the issuer's leaves alone.
LEMMA IssuerFrame ==
    ASSUME TypeOK, ThreadInv,
           \/ IssuerHandlerStep \/ IssuerRestart
           \/ \E k \in ITasks : IssuerTask(k)
           \/ \E e \in revRecs : CredRevoked(e)
    PROVE  UNCHANGED <<hrec, htask, wallet, requested, toIssuer>>
           /\ toHolder \subseteq toHolder'
<1>1. CASE IssuerHandlerStep
  <2>1. ASSUME NEW i \in Ids, NEW m \in toIssuer,
               \/ \E ai \in AutoIssues, ar \in AutoRemoves :
                     ReceiveProposal(m, i, ai, ar)
               \/ ReceiveRequest(m, i) \/ ReceiveUnknownRequest(m)
               \/ ReceiveAck(m, i) \/ IssuerReceiveProblem(m, i)
        PROVE  UNCHANGED <<hvars, toIssuer>> /\ toHolder \subseteq toHolder'
    BY <2>1 DEF ReceiveProposal, ReceiveRequest, ReceiveUnknownRequest,
                ReceiveAck, IssuerReceiveProblem, vars, hvars
  <2>2. ASSUME NEW i \in Ids,
               \/ \E t \in Threads, ai \in BOOLEAN, ar \in AutoRemoves :
                     NewOffer(i, t, ai, ar)
               \/ IssueAgain(i) \/ IssuerRemove(i)
        PROVE  UNCHANGED <<hvars, toIssuer>> /\ toHolder \subseteq toHolder'
    BY <2>2 DEF NewOffer, IssueAgain, IssuerRemove
  <2>3. ASSUME NEW i \in Ids, NEW k \in ITasks,
               SendBoundOffer(k, i) \/ StartIssue(k, i) \/ IssuerReportProblem(k, i)
        PROVE  UNCHANGED <<hvars, toIssuer>> /\ toHolder \subseteq toHolder'
    BY <2>3 DEF SendBoundOffer, StartIssue, IssuerReportProblem
  <2>4. UNCHANGED <<hvars, toIssuer>> /\ toHolder \subseteq toHolder'
    BY <1>1, <2>1, <2>2, <2>3 DEF IssuerHandlerStep
  <2> QED BY <2>4 DEF hvars
<1>2. CASE IssuerRestart \/ \E e \in revRecs : CredRevoked(e)
  BY <1>2 DEF IssuerRestart, CredRevoked, hvars
<1>3. CASE \E k \in ITasks : IssuerTask(k)
  BY <1>3 DEF IssuerTask, CreateOffer, CreateCredential, CommitIssue,
              IssuerRemoveAcked, IssuerSaveError, IssuerFault, hvars
<1> QED BY <1>1, <1>2, <1>3

\* A task survives a step in which its record moves onward.
LEMMA TaskSurvives ==
    ASSUME NEW x, NEW r, NEW s, NEW w, NEW n, NEW a,
           TaskOk(x, r, w, n, a), Onward(r, s)
    PROVE  TaskOk(x, s, w, n, a)
<1>1. Storing(x) => r.state # "request_sent"
  BY DEF TaskOk, Reached
<1> QED BY <1>1 DEF TaskOk, Onward

\* A step keeps HolderInv if it moves records onward, writes good records,
\* starts good tasks and acknowledges what was delivered.
LEMMA HolderKeeps ==
    ASSUME HolderInv, toHolder \subseteq toHolder', wallet \subseteq wallet',
           toIssuer \subseteq toIssuer',
           \A k \in HTasks : htask[k].pc # "idle" => htask[k].id \in Ids,
           \A i \in Ids : \/ hrec'[i] = hrec[i]
                          \/ /\ RecordOk(hrec'[i], wallet', toHolder')
                             /\ Onward(hrec[i], hrec'[i]),
           \A k \in HTasks :
              \/ htask'[k] = htask[k]
              \/ htask'[k].pc = "idle"
              \/ TaskOk(htask'[k], hrec'[htask'[k].id], wallet', toHolder', toIssuer'),
           \A m \in toIssuer' : m.type = "ack" =>
              m \in toIssuer \/ Known(m.thread, wallet', toHolder', toIssuer')
    PROVE  HolderInv'
<1>1. RecordsOk'
  BY HolderGrows DEF HolderInv, RecordsOk
<1>2. AcksOk'
  BY HolderGrows DEF HolderInv, AcksOk
<1>3. TasksOk'
  <2> SUFFICES ASSUME NEW k \in HTasks, htask'[k] = htask[k], htask[k].pc # "idle"
               PROVE  TaskOk(htask[k], hrec'[htask[k].id], wallet', toHolder', toIssuer')
    BY DEF TasksOk
  <2>1. TaskOk(htask[k], hrec[htask[k].id], wallet', toHolder', toIssuer')
    BY HolderGrows DEF HolderInv, TasksOk
  <2> QED BY <2>1, TaskSurvives
<1> QED BY <1>1, <1>2, <1>3 DEF HolderInv

\* A task that is not idle has its fields, and a record its own.
LEMMA HolderTypes ==
    ASSUME TypeOK
    PROVE  /\ hrec \in [Ids -> HolderRecord]
           /\ \A k \in HTasks : htask[k].pc # "idle" =>
                 htask[k] \in HTask /\ htask[k].id \in Ids
                 /\ htask[k].rec \in HolderRecord
           /\ \A m \in toHolder : m.type = "issue" => m = Issue(m.thread, m.cred)
           /\ \A m \in toIssuer : m.type = "ack" => m = Ack(m.thread)
<1>1. \A k \in HTasks : htask[k].pc # "idle" => htask[k] \in HTask
  BY BusyTask
<1>2. \A m \in ToHolder : m.type = "issue" => m = Issue(m.thread, m.cred)
  BY DEF ToHolder, Issue
<1>3. \A m \in ToIssuer : m.type = "ack" => m = Ack(m.thread)
  BY DEF ToIssuer, Ack
<1> QED BY <1>1, <1>2, <1>3 DEF TypeOK, HTask

\* A copy of a record in a task that has no duty yet.
LEMMA PlainTask ==
    ASSUME NEW i, NEW r, NEW s, NEW w, NEW n, NEW a,
           NEW pc \in {"request", "error"}, KeptCred(r, w), s.state # "unborn"
    PROVE  TaskOk(HTaskAt(pc, i, r), s, w, n, a)
BY DEF TaskOk, HTaskAt, Storing

\* A task that is left with an ack to send, for a record that has become r.
LEMMA AckDue ==
    ASSUME NEW y, NEW x, NEW r, NEW w, NEW n, NEW a,
           y.pc = "ack", y.rec = x.rec, KeptCred(x.rec, w),
           r.state # "unborn", r.state \in Reached,
           Storable(r) => /\ x.rec.req = r.req /\ x.rec.raw = r.raw
                          /\ x.rec.thread = r.thread,
           Issue(x.rec.thread, x.rec.raw) \in n, Known(x.rec.thread, w, n, a)
    PROVE  TaskOk(y, r, w, n, a)
BY DEF TaskOk

\* A step that puts a good task into a slot leaves the others as they are.
LEMMA TaskPut ==
    ASSUME TypeOK, NEW i, NEW x, x.id = i,
           \/ \E k \in HTasks : HSet(k, x)
           \/ \E flag : HContinue(flag, x),
           TaskOk(x, hrec'[i], wallet', toHolder', toIssuer')
    PROVE  \A k \in HTasks :
              \/ htask'[k] = htask[k]
              \/ TaskOk(htask'[k], hrec'[htask'[k].id], wallet', toHolder', toIssuer')
<1>1. \A k \in HTasks : htask'[k] = htask[k] \/ htask'[k] = x
  BY DEF HSet, HContinue, TypeOK
<1> QED BY <1>1

\* The record a new task works on is the one it is built for.
LEMMA TaskIds ==
    /\ \A pc, i, r : HTaskAt(pc, i, r).id = i
    /\ \A pc, i, r : HandlerAt(pc, i, r).id = i
BY DEF HTaskAt, HandlerAt

\* The holder's handlers and calls keep HolderInv.
LEMMA HolderHandlersInv ==
    ASSUME TypeOK, HolderInv, HolderHandlerStep
    PROVE  HolderInv'
<1> USE HolderTypes
<1>1. ASSUME NEW i \in Ids, NEW t \in Threads, NEW ar \in AutoRemoves,
             SendProposal(i, t, ar)
      PROVE  HolderInv'
  <2> DEFINE r == [BlankHolder EXCEPT !.state = "proposal_sent", !.thread = t,
                                      !.autoRemove = ar]
  <2>1. r.state = "proposal_sent" /\ r.cred = NoCred
    BY DEF BlankHolder
  <2>2. /\ hrec[i].state = "unborn" /\ hrec' = [hrec EXCEPT ![i] = r]
        /\ UNCHANGED <<htask, wallet, toHolder>>
        /\ toIssuer' = toIssuer \cup {Proposal(t)}
    BY <1>1 DEF SendProposal
  <2> HIDE DEF r
  <2>3. RecordOk(r, wallet', toHolder') /\ Onward(hrec[i], r)
    BY <2>1, <2>2 DEF RecordOk, KeptCred, Storable, Onward, Reached
  <2> QED BY <2>2, <2>3, HolderKeeps DEF Proposal
<1>2. ASSUME NEW i \in Ids, NEW m \in toHolder, NEW ar \in AutoRemoves,
             ReceiveOffer(m, i, ar)
      PROVE  HolderInv'
  <2> DEFINE found == Matching(hrec, m.thread)
             r == IF found = {}
                  THEN [BlankHolder EXCEPT !.state = "offer_received",
                                           !.thread = m.thread,
                                           !.autoRemove = ar]
                  ELSE [hrec[i] EXCEPT !.state = "offer_received"]
  <2>1. /\ hrec[i].state \in {"unborn", "proposal_sent"}
        /\ hrec' = [hrec EXCEPT ![i] = r]
        /\ HContinue(AutoRequest, HTaskAt("request", i, r))
        /\ UNCHANGED <<wallet, toIssuer, toHolder>>
    BY <1>2 DEF ReceiveOffer
  <2>2. hrec[i].cred = NoCred
    BY <2>1 DEF HolderInv, RecordsOk, RecordOk, Early
  <2>3. r.state = "offer_received" /\ r.cred = NoCred
    BY <2>2 DEF BlankHolder, HolderRecord
  <2> HIDE DEF r
  <2>4. RecordOk(r, wallet', toHolder') /\ Onward(hrec[i], r)
    BY <2>1, <2>3 DEF RecordOk, KeptCred, Storable, Onward, Reached
  <2>5. hrec'[i] = r
    BY <2>1
  <2>6. TaskOk(HTaskAt("request", i, r), hrec'[i], wallet', toHolder', toIssuer')
    BY <2>3, <2>5, PlainTask DEF KeptCred
  <2> QED BY <2>1, <2>4, <2>6, TaskPut, TaskIds, HolderKeeps
<1>3. ASSUME NEW i \in Ids, RequestAgain(i)
      PROVE  HolderInv'
  <2>1. UNCHANGED <<hrec, htask, wallet, toHolder>>
        /\ toIssuer' = toIssuer \cup {Request(hrec[i].thread, hrec[i].req)}
    BY <1>3 DEF RequestAgain, hvars
  <2> QED BY <2>1, HolderKeeps DEF Request
<1>4. ASSUME NEW i \in Ids, NEW k \in HTasks, NEW ar \in AutoRemoves,
             StartRequest(k, i, ar)
      PROVE  HolderInv'
  <2> DEFINE r == [hrec[i] EXCEPT !.autoRemove = ar]
  <2>1. UNCHANGED <<hrec, wallet, toIssuer, toHolder>> /\ Live(hrec[i])
    BY <1>4 DEF StartRequest
  <2>2. PICK pc \in {"request", "error"} : HSet(k, HTaskAt(pc, i, r))
    BY <1>4 DEF StartRequest
  <2>3. r.cred = hrec[i].cred /\ r.req = hrec[i].req
    BY DEF HolderRecord
  <2> HIDE DEF r
  <2>4. KeptCred(r, wallet)
    BY <2>3 DEF HolderInv, RecordsOk, RecordOk, KeptCred
  <2>5. TaskOk(HTaskAt(pc, i, r), hrec'[i], wallet', toHolder', toIssuer')
    BY <2>1, <2>4, PlainTask DEF Live
  <2> QED BY <2>1, <2>2, <2>5, TaskPut, TaskIds, HolderKeeps
<1>5. ASSUME NEW i \in Ids, NEW m \in toHolder, ReceiveCredential(m, i)
      PROVE  HolderInv'
  <2> DEFINE r == [hrec[i] EXCEPT !.state = "credential_received",
                                  !.raw = m.cred]
  <2>1. /\ hrec[i].state = "request_sent" /\ hrec[i].thread = m.thread
        /\ m.type = "issue"
        /\ hrec' = [hrec EXCEPT ![i] = r]
        /\ HContinue(AutoStore, HandlerAt("store", i, r))
        /\ UNCHANGED <<wallet, toIssuer, toHolder>>
    BY <1>5 DEF ReceiveCredential, Matching
  <2>2. hrec[i].cred = NoCred
    BY <2>1 DEF HolderInv, RecordsOk, RecordOk, Early
  <2>3. /\ r.state = "credential_received" /\ r.cred = NoCred
        /\ r.thread = m.thread /\ r.raw = m.cred
    BY <2>1, <2>2 DEF HolderRecord
  <2> HIDE DEF r
  <2>4. Issue(r.thread, r.raw) \in toHolder'
    BY <2>1, <2>3
  <2>5. RecordOk(r, wallet', toHolder') /\ Onward(hrec[i], r)
    BY <2>1, <2>3, <2>4 DEF RecordOk, KeptCred, Onward, Reached, Early
  <2>6. hrec'[i] = r
    BY <2>1
  <2>7. TaskOk(HandlerAt("store", i, r), r, wallet', toHolder', toIssuer')
    BY <2>1, <2>3, <2>4 DEF TaskOk, HandlerAt, Storing, KeptCred, Reached
  <2> QED BY <2>1, <2>5, <2>6, <2>7, TaskPut, TaskIds, HolderKeeps
<1>6. ASSUME NEW i \in Ids, NEW k \in HTasks,
             StartStore(k, i) \/ HolderReportProblem(k, i)
      PROVE  HolderInv'
  <2>1. UNCHANGED <<hrec, wallet, toIssuer, toHolder>> /\ Live(hrec[i])
    BY <1>6 DEF StartStore, HolderReportProblem
  <2>2. PICK pc \in {"store", "error"} :
           HSet(k, HTaskAt(pc, i, hrec[i])) /\ (pc = "store" => Storable(hrec[i]))
    BY <1>6 DEF StartStore, HolderReportProblem
  <2>3. RecordOk(hrec[i], wallet, toHolder)
    BY DEF HolderInv, RecordsOk
  <2>4. TaskOk(HTaskAt(pc, i, hrec[i]), hrec[i], wallet, toHolder, toIssuer)
    BY <2>1, <2>2, <2>3 DEF TaskOk, HTaskAt, Storing, RecordOk, Live, Storable, Reached
  <2> QED BY <2>1, <2>2, <2>4, TaskPut, TaskIds, HolderKeeps
<1>7. ASSUME NEW i \in Ids,
             HolderRemove(i) \/ \E m \in toHolder : HolderReceiveProblem(m, i)
      PROVE  HolderInv'
  <2>1. UNCHANGED <<htask, wallet, toIssuer, toHolder>>
    BY <1>7 DEF HolderRemove, HolderReceiveProblem
  <2>2. /\ hrec'[i].state \in {"abandoned", "removed"}
        /\ \/ hrec'[i].cred = NoCred
           \/ hrec'[i].cred = hrec[i].cred /\ hrec'[i].req = hrec[i].req
        /\ \A j \in Ids \ {i} : hrec'[j] = hrec[j]
    BY <1>7 DEF HolderRemove, HolderReceiveProblem, RemovedHolder, BlankHolder,
                HolderRecord
  <2>3. KeptCred(hrec[i], wallet)
    BY DEF HolderInv, RecordsOk, RecordOk
  <2>4. RecordOk(hrec'[i], wallet', toHolder') /\ Onward(hrec[i], hrec'[i])
    BY <2>1, <2>2, <2>3 DEF RecordOk, KeptCred, Storable, Onward, Reached, Early
  <2> QED BY <2>1, <2>2, <2>4, HolderKeeps
<1> QED BY <1>1, <1>2, <1>3, <1>4, <1>5, <1>6, <1>7 DEF HolderHandlerStep

\* So do the steps of its tasks.
LEMMA HolderTasksInv ==
    ASSUME TypeOK, HolderInv, NEW k \in HTasks, HolderTask(k)
    PROVE  HolderInv'
<1> USE HolderTypes
<1> DEFINE x == htask[k]
<1>1. x.pc # "idle"
  BY DEF HolderTask, CreateRequest, StoreInWallet, SaveStored, AckCredential,
         HolderRemoveAcked, HolderSaveError, HolderFault, AckUnsaved, Owed
<1>2. x \in HTask /\ x.rec \in HolderRecord
  BY <1>1
<1>3. PICK i \in Ids : i = x.id
  BY <1>1
<1>4. TaskOk(x, hrec[i], wallet, toHolder, toIssuer) /\ RecordOk(hrec[i], wallet, toHolder)
  BY <1>1, <1>3 DEF HolderInv, TasksOk, RecordsOk
<1>5. \A pc : /\ [x EXCEPT !.pc = pc].pc = pc /\ [x EXCEPT !.pc = pc].id = i
              /\ [x EXCEPT !.pc = pc].rec = x.rec
              /\ [x EXCEPT !.pc = pc].acks = x.acks
  BY <1>2, <1>3 DEF HTask
<1>6. \A y : HSet(k, y) => \A l \in HTasks : htask'[l] = IF l = k THEN y ELSE htask[l]
  BY DEF HSet, TypeOK
<1>7. Idle.pc = "idle"
  BY DEF Idle
<1>8. ASSUME NEW pc \in {"error"}, HSet(k, [x EXCEPT !.pc = pc]),
             x.pc \in {"request", "store", "save"},
             UNCHANGED <<hrec, wallet, toHolder, toIssuer>>
      PROVE  HolderInv'
  <2> DEFINE y == [x EXCEPT !.pc = pc]
  <2>1. TaskOk(y, hrec[i], wallet, toHolder, toIssuer) /\ y.id = i /\ HSet(k, y)
    BY <1>4, <1>5, <1>8 DEF TaskOk, Storing
  <2> HIDE DEF y
  <2> QED BY <1>6, <1>8, <2>1, HolderKeeps
<1>9. ASSUME NEW q \in 1..MaxReqs, CreateRequest(k, q)
      PROVE  HolderInv'
  <2> DEFINE r == [hrec[i] EXCEPT !.state = "request_sent", !.req = q,
                                  !.autoRemove = x.rec.autoRemove]
  <2>1. CASE Requestable(hrec[i])
    <3>1. /\ hrec' = [hrec EXCEPT ![i] = r]
          /\ toIssuer' = toIssuer \cup {Request(hrec[i].thread, q)}
          /\ HSet(k, Idle) /\ UNCHANGED <<wallet, toHolder>>
      BY <1>3, <1>9, <2>1 DEF CreateRequest
    <3>2. hrec[i].cred = NoCred /\ hrec[i].state = "offer_received"
      BY <1>4, <2>1 DEF RecordOk, Requestable, Early
    <3>3. r.state = "request_sent" /\ r.cred = NoCred
      BY <3>2 DEF HolderRecord
    <3> HIDE DEF r
    <3>4. RecordOk(r, wallet', toHolder') /\ Onward(hrec[i], r)
      BY <3>2, <3>3 DEF RecordOk, KeptCred, Storable, Onward, Reached
    <3> QED BY <1>6, <1>7, <3>1, <3>4, HolderKeeps DEF Request
  <2>2. CASE ~Requestable(hrec[i])
    BY <1>3, <1>8, <1>9, <2>2 DEF CreateRequest
  <2> QED BY <2>1, <2>2
<1>10. CASE StoreInWallet(k)
  <2>1. CASE Answers(x.rec)
    <3>1. /\ wallet' = wallet \cup {x.rec.raw} /\ x.pc = "store"
          /\ HSet(k, [x EXCEPT !.pc = "save"])
          /\ UNCHANGED <<hrec, toHolder, toIssuer>>
      BY <1>10, <2>1 DEF StoreInWallet
    <3>2. TaskOk(x, hrec[i], wallet', toHolder', toIssuer')
      BY <1>4, <3>1, HolderGrows
    <3> DEFINE y == [x EXCEPT !.pc = "save"]
    <3>3. TaskOk(y, hrec[i], wallet', toHolder', toIssuer') /\ y.id = i /\ HSet(k, y)
      BY <1>5, <2>1, <3>1, <3>2 DEF TaskOk, KeptCred, Storing
    <3> HIDE DEF y
    <3> QED BY <1>6, <3>1, <3>3, HolderKeeps
  <2>2. CASE ~Answers(x.rec)
    BY <1>8, <1>10, <2>2 DEF StoreInWallet
  <2> QED BY <2>1, <2>2
<1>11. CASE SaveStored(k)
  <2> DEFINE r == [hrec[i] EXCEPT !.cred = x.rec.raw]
  <2>1. CASE Storable(hrec[i])
    <3>1. /\ hrec' = [hrec EXCEPT ![i] = r] /\ x.pc = "save"
          /\ HSet(k, HTaskAt("ack", i, hrec'[i]))
          /\ UNCHANGED <<wallet, toHolder, toIssuer>>
      BY <1>3, <1>11, <2>1 DEF SaveStored
    <3>2. hrec'[i] = r
      BY <3>1
    <3>3. /\ r.state = hrec[i].state /\ r.cred = x.rec.raw /\ r.raw = hrec[i].raw
          /\ r.req = hrec[i].req /\ r.thread = hrec[i].thread
      BY DEF HolderRecord
    <3> HIDE DEF r
    <3>4. /\ x.rec.raw = hrec[i].raw /\ x.rec.raw.req = hrec[i].req
          /\ x.rec.raw \in wallet /\ Issue(hrec[i].thread, x.rec.raw) \in toHolder
      BY <1>4, <2>1, <3>1 DEF TaskOk, Storing, Answers
    <3>5. /\ KeptCred(r, wallet) /\ Storable(r) /\ r.raw \in wallet
          /\ Issue(r.thread, r.raw) \in toHolder
      BY <2>1, <3>3, <3>4 DEF KeptCred, Storable
    <3>6. RecordOk(r, wallet', toHolder') /\ Onward(hrec[i], r)
      BY <2>1, <3>1, <3>3, <3>5 DEF RecordOk, Onward, Storable, Reached, Early
    <3>7. TaskOk(HTaskAt("ack", i, r), r, wallet', toHolder', toIssuer')
      BY <3>1, <3>5 DEF TaskOk, HTaskAt, Storing, Known, Storable, Reached
    <3> QED BY <3>1, <3>2, <3>6, <3>7, TaskPut, TaskIds, HolderKeeps
  <2>2. CASE ~Storable(hrec[i])
    BY <1>3, <1>8, <1>11, <2>2 DEF SaveStored
  <2> QED BY <2>1, <2>2
<1>12. CASE AckCredential(k)
  <2> DEFINE r == [hrec[i] EXCEPT !.state = "credential_acked"]
  <2>1. CASE Storable(hrec[i])
    <3>1. /\ hrec' = [hrec EXCEPT ![i] = r] /\ x.pc = "ack"
          /\ HSet(k, [x EXCEPT !.pc = "remove", !.rec = hrec'[i]]) \/ HSet(k, Idle)
          /\ toIssuer \subseteq toIssuer'
          /\ toIssuer' \subseteq toIssuer \cup {Ack(hrec[i].thread)}
          /\ UNCHANGED <<wallet, toHolder>>
      BY <1>3, <1>12, <2>1 DEF AckCredential
    <3>2. hrec'[i] = r
      BY <3>1
    <3>3. /\ r.state = "credential_acked" /\ r.cred = hrec[i].cred
          /\ r.req = hrec[i].req /\ r.thread = hrec[i].thread
      BY DEF HolderRecord
    <3> HIDE DEF r
    <3>4. Known(hrec[i].thread, wallet', toHolder', toIssuer')
      BY <1>4, <2>1, <3>1, HolderGrows DEF TaskOk, Storing
    <3>5. RecordOk(r, wallet', toHolder') /\ Onward(hrec[i], r)
      BY <1>4, <3>1, <3>3 DEF RecordOk, KeptCred, Onward, Storable, Reached, Early
    <3> DEFINE y == [x EXCEPT !.pc = "remove", !.rec = r]
    <3>6. /\ y.id = i /\ TaskOk(y, r, wallet', toHolder', toIssuer')
          /\ HSet(k, y) \/ HSet(k, Idle)
      <4>1. y.pc = "remove" /\ y.rec = r /\ y.id = i
        BY <1>2, <1>3 DEF HTask
      <4>2. KeptCred(r, wallet')
        BY <1>4, <3>1, <3>3 DEF RecordOk, KeptCred
      <4>3. TaskOk(y, r, wallet', toHolder', toIssuer')
        BY <3>3, <3>4, <4>1, <4>2 DEF TaskOk, Storing, Storable, Reached
      <4> QED BY <3>1, <3>2, <4>1, <4>3
    <3> HIDE DEF y
    <3>7. \A m \in toIssuer' : m.type = "ack" =>
             m \in toIssuer \/ Known(m.thread, wallet', toHolder', toIssuer')
      BY <3>1, <3>4 DEF Ack
    <3>8. \A l \in HTasks :
              \/ htask'[l] = htask[l] \/ htask'[l].pc = "idle"
              \/ TaskOk(htask'[l], hrec'[htask'[l].id], wallet', toHolder', toIssuer')
      BY <1>6, <1>7, <3>2, <3>6
    <3> QED BY <3>1, <3>5, <3>7, <3>8, HolderKeeps
  <2>2. CASE ~Storable(hrec[i])
    BY <1>3, <1>6, <1>7, <1>12, <2>2, HolderKeeps DEF AckCredential
  <2> QED BY <2>1, <2>2
<1>13. CASE HolderRemoveAcked(k)
  <2>1. /\ hrec' = [hrec EXCEPT ![i] = RemovedHolder] /\ HSet(k, Idle)
        /\ toIssuer' = toIssuer \cup {Ack(x.rec.thread)} /\ x.pc = "remove"
        /\ UNCHANGED <<wallet, toHolder>>
    BY <1>3, <1>13 DEF HolderRemoveAcked
  <2>2. RecordOk(RemovedHolder, wallet', toHolder') /\ Onward(hrec[i], RemovedHolder)
    BY DEF RecordOk, KeptCred, Storable, Onward, Reached, Early, RemovedHolder,
           BlankHolder
  <2>3. Ack(x.rec.thread).thread = x.rec.thread
    BY DEF Ack
  <2>4. Known(x.rec.thread, wallet', toHolder', toIssuer')
    <3>1. Known(x.rec.thread, wallet, toHolder, toIssuer)
      BY <1>4, <2>1 DEF TaskOk
    <3> QED BY <2>1, <3>1, HolderGrows
  <2> QED BY <1>6, <1>7, <2>1, <2>2, <2>3, <2>4, HolderKeeps
<1>14. CASE HolderSaveError(k)
  <2> DEFINE r == [x.rec EXCEPT !.state = "abandoned"]
             y == [x EXCEPT !.pc = "ack"]
  <2>1. /\ hrec' = [hrec EXCEPT ![i] = r] \/ hrec' = hrec
        /\ IF x.acks THEN HSet(k, y) ELSE HSet(k, Idle)
        /\ toIssuer' = toIssuer \cup {Problem(r.thread)}
        /\ x.pc = "error" /\ UNCHANGED <<wallet, toHolder>>
    BY <1>3, <1>14 DEF HolderSaveError
  <2>2. /\ r.state = "abandoned" /\ r.cred = x.rec.cred /\ r.req = x.rec.req
        /\ r.thread = x.rec.thread
    BY <1>2 DEF HolderRecord
  <2>3. y.pc = "ack" /\ y.id = i /\ y.rec = x.rec
    BY <1>5
  <2> HIDE DEF r, y
  <2>4. RecordOk(r, wallet', toHolder') /\ Onward(hrec[i], r)
    BY <1>4, <2>1, <2>2 DEF TaskOk, RecordOk, KeptCred, Storable, Onward, Reached,
                            Early
  <2>5. hrec'[i] = r \/ hrec'[i] = hrec[i]
    BY <2>1
  <2>6. ASSUME x.acks
        PROVE  /\ hrec'[i].state \in Reached /\ hrec'[i].state # "unborn"
               /\ Storable(hrec'[i]) => /\ x.rec.req = hrec'[i].req
                                        /\ x.rec.raw = hrec'[i].raw
                                        /\ x.rec.thread = hrec'[i].thread
               /\ Issue(x.rec.thread, x.rec.raw) \in toHolder'
               /\ KeptCred(x.rec, wallet')
    BY <1>4, <2>1, <2>2, <2>5, <2>6 DEF TaskOk, Storing, Storable, Reached
  <2>a. x.acks => Known(x.rec.thread, wallet', toHolder', toIssuer')
    BY <2>1, <2>2, <2>6 DEF Known
  <2>7. x.acks => TaskOk(y, hrec'[i], wallet', toHolder', toIssuer')
    BY <2>3, <2>6, <2>a, AckDue
  <2>8. \A l \in HTasks :
            \/ htask'[l] = htask[l] \/ htask'[l].pc = "idle"
            \/ TaskOk(htask'[l], hrec'[htask'[l].id], wallet', toHolder', toIssuer')
    BY <1>6, <1>7, <2>1, <2>3, <2>7
  <2>9. \A m \in toIssuer' : m.type = "ack" => m \in toIssuer
    BY <2>1 DEF Problem
  <2> QED BY <2>1, <2>4, <2>8, <2>9, HolderKeeps
<1>15. CASE HolderFault(k)
  BY <1>6, <1>7, <1>8, <1>15, HolderKeeps DEF HolderFault
<1>16. CASE AckUnsaved(k)
  <2>1. /\ UNCHANGED <<hrec, wallet, toHolder>> /\ HSet(k, Idle)
        /\ toIssuer' = toIssuer \cup {Ack(x.rec.thread)}
        /\ x.pc \in {"ack", "remove"}
    BY <1>16 DEF AckUnsaved, Owed
  <2>2. Ack(x.rec.thread).thread = x.rec.thread
    BY DEF Ack
  <2>3. Known(x.rec.thread, wallet', toHolder', toIssuer')
    <3>1. Known(x.rec.thread, wallet, toHolder, toIssuer)
      BY <1>4, <2>1 DEF TaskOk
    <3> QED BY <2>1, <3>1, HolderGrows
  <2> QED BY <1>6, <1>7, <2>1, <2>2, <2>3, HolderKeeps
<1> QED BY <1>9, <1>10, <1>11, <1>12, <1>13, <1>14, <1>15, <1>16 DEF HolderTask

LEMMA NextHolderInv == TypeOK /\ ThreadInv /\ HolderInv /\ [Next]_vars => HolderInv'
<1> SUFFICES ASSUME TypeOK, ThreadInv, HolderInv, [Next]_vars PROVE HolderInv'
  OBVIOUS
<1>1. CASE UNCHANGED vars
  BY <1>1, HolderTypes, HolderKeeps DEF vars
<1>2. CASE HolderHandlerStep
  BY <1>2, HolderHandlersInv
<1>3. CASE \E k \in HTasks : HolderTask(k)
  BY <1>3, HolderTasksInv
<1>4. CASE HolderRestart
  <2>1. UNCHANGED <<hrec, wallet, toIssuer, toHolder>>
        /\ \A k \in HTasks : htask'[k].pc = "idle"
    BY <1>4 DEF HolderRestart, Idle
  <2> QED BY <2>1, HolderTypes, HolderKeeps
<1>5. CASE \/ IssuerHandlerStep \/ IssuerRestart
           \/ \E k \in ITasks : IssuerTask(k)
           \/ \E e \in revRecs : CredRevoked(e)
  BY <1>5, IssuerFrame, HolderTypes, HolderKeeps
<1> QED BY <1>1, <1>2, <1>3, <1>4, <1>5, NextSteps

\* A stored credential is in the wallet and answers its record's request.
THEOREM StoredMatches == Spec => []StoredMatchesRequest
<1>1. Init => HolderInv
  BY InitHolderInv
<1>2. TypeOK /\ ThreadInv /\ HolderInv /\ [Next]_vars => HolderInv'
  BY NextHolderInv
<1>3. HolderInv => StoredMatchesRequest
  BY DEF HolderInv, RecordsOk, RecordOk, KeptCred, StoredMatchesRequest
<1>4. Init => ThreadInv
  BY InitThreadInv
<1>5. TypeOK /\ ThreadInv /\ [Next]_vars => ThreadInv'
  BY NextThreadInv
<1> QED BY <1>1, <1>2, <1>3, <1>4, <1>5, TypeCorrect, PTL DEF Spec

-----------------------------------------------------------------------------
(***************************************************************************)
(* The issuer's half.  A credential is issued on a thread that was offered *)
(* and a proposal's thread never is, so an acknowledgement can only meet a *)
(* record that has issued.                                                 *)
(***************************************************************************)
OpenOffered == \A i \in Ids : Open(irec[i]) => Offer(irec[i].thread) \in toHolder
IssueOffered ==
    \A m \in toHolder : m.type = "issue" => Offer(m.thread) \in toHolder
OfferUsed == \A m \in toHolder : m.type = "offer" => m.thread \in used
ProposalApart ==
    \A m \in toIssuer : m.type = "proposal" =>
        m.thread \in used /\ Offer(m.thread) \notin toHolder
ProposalKnown ==
    \A i \in Ids : irec[i].state = "proposal_received" =>
        Proposal(irec[i].thread) \in toIssuer
AckedKnown ==
    \A i \in Ids : irec[i].state = "credential_acked" =>
        Known(irec[i].thread, wallet, toHolder, toIssuer)
TaskBorn ==
    \A k \in ITasks : itask[k].pc # "idle" => irec[itask[k].id].state # "unborn"

OfferInv == /\ OpenOffered /\ IssueOffered /\ OfferUsed /\ ProposalApart
            /\ ProposalKnown /\ AckedKnown /\ TaskBorn

\* What an issuer's step may make of a record, ...
MoveOk(r, s) ==
    /\ s.state # r.state => <<r.state, s.state>> \in IssuerEdges
    /\ s.state # "unborn"
    /\ Open(s) => \/ Open(r) /\ s.thread = r.thread
                  \/ Offer(s.thread) \in toHolder'
    /\ s.state = "proposal_received" => \/ s.state = r.state /\ s.thread = r.thread
                                        \/ Proposal(s.thread) \in toIssuer
    /\ s.state = "credential_acked" => Known(s.thread, wallet, toHolder, toIssuer)

\* ... send to the holder, and leave in a task.
SendOk(m) ==
    \/ m.type = "problem"
    \/ m.type = "offer" /\ m.thread \notin used /\ m.thread \in used'
    \/ /\ m.type = "issue" /\ Offer(m.thread) \in toHolder
       /\ \A n \in toHolder : n.type = "issue" => n.thread # m.thread
BornOk(k) == \/ itask'[k] = itask[k] \/ itask'[k].pc = "idle"
             \/ irec'[itask'[k].id].state # "unborn"

IssuerOk == /\ \A i \in Ids : irec'[i] = irec[i] \/ MoveOk(irec[i], irec'[i])
            /\ \/ toHolder' = toHolder
               \/ \E m : toHolder' = toHolder \cup {m} /\ SendOk(m)
            /\ \A k \in ITasks : BornOk(k)

LEMMA InitOfferInv == Init => OfferInv
BY DEF Init, OfferInv, OpenOffered, IssueOffered, OfferUsed, ProposalApart,
       ProposalKnown, AckedKnown, TaskBorn, Open, BlankIssuer, Idle

LEMMA EdgeFacts ==
    /\ \A s \in IssuerStates : /\ <<s, "offer_sent">> \in IssuerEdges
                               /\ <<s, "abandoned">> \in IssuerEdges
                               /\ <<s, "credential_revoked">> \in IssuerEdges
                               /\ <<s, "removed">> \in IssuerEdges
    /\ <<"unborn", "offer_sent">> \in IssuerEdges
    /\ <<"unborn", "proposal_received">> \in IssuerEdges
    /\ <<"offer_sent", "request_received">> \in IssuerEdges
    /\ <<"request_received", "credential_issued">> \in IssuerEdges
    /\ \A s \in {"credential_issued", "credential_revoked", "abandoned"} :
          <<s, "credential_acked">> \in IssuerEdges
BY DEF IssuerEdges

\* A record is in a state of the code, unborn or removed, and a task has one.
LEMMA IssuerTypes ==
    ASSUME TypeOK
    PROVE  /\ irec \in [Ids -> IssuerRecord]
           /\ \A i \in Ids : Live(irec[i]) => irec[i].state \in IssuerStates
           /\ \A k \in ITasks : itask[k].pc # "idle" =>
                 itask[k] \in ITask /\ itask[k].id \in Ids
                 /\ itask[k].rec \in IssuerRecord
           /\ \A m \in toIssuer : m.type = "proposal" => m = Proposal(m.thread)
<1>1. \A k \in ITasks : itask[k].pc # "idle" => itask[k] \in ITask
  BY BusyTask
<1>2. \A m \in ToIssuer : m.type = "proposal" => m = Proposal(m.thread)
  BY DEF ToIssuer, Proposal
<1>3. \A r \in IssuerRecord : Live(r) => r.state \in IssuerStates
  BY DEF IssuerRecord, Live
<1> QED BY <1>1, <1>2, <1>3 DEF TypeOK, ITask

\* A step of the issuer's that is as it should be keeps OfferInv.
LEMMA IssuerOkKeeps ==
    ASSUME TypeOK, OfferInv, IssuerOk, UNCHANGED <<wallet, toIssuer>>,
           toHolder \subseteq toHolder', used \subseteq used'
    PROVE  OfferInv'
<1> USE DEF OfferInv
<1>1. \A m \in toHolder' : m.type = "offer" \/ m.type = "issue" =>
         m \in toHolder \/ SendOk(m)
  BY DEF IssuerOk
<1>2. OpenOffered'
  BY DEF OpenOffered, IssuerOk, MoveOk
<1>3. IssueOffered'
  BY <1>1 DEF IssueOffered, SendOk
<1>4. OfferUsed'
  BY <1>1 DEF OfferUsed, SendOk
<1>5. ProposalApart'
  <2>1. \A t : Offer(t).type = "offer" /\ Offer(t).thread = t
    BY DEF Offer
  <2> QED BY <1>1, <2>1 DEF ProposalApart, SendOk
<1>6. ProposalKnown'
  BY DEF ProposalKnown, IssuerOk, MoveOk
<1>7. AckedKnown'
  <2>1. \A t : Known(t, wallet, toHolder, toIssuer) => Known(t, wallet', toHolder', toIssuer')
    BY HolderGrows
  <2>2. ASSUME NEW i \in Ids, irec'[i].state = "credential_acked"
        PROVE  Known(irec'[i].thread, wallet, toHolder, toIssuer)
    BY <2>2 DEF AckedKnown, IssuerOk, MoveOk
  <2> QED BY <2>1, <2>2 DEF AckedKnown
<1>8. TaskBorn'
  BY IssuerTypes DEF TaskBorn, IssuerOk, BornOk, MoveOk
<1> QED BY <1>2, <1>3, <1>4, <1>5, <1>6, <1>7, <1>8

\* The issuer's handlers and calls are as they should be.
LEMMA IssuerHandlersOk ==
    ASSUME TypeOK, ThreadInv, HolderInv, OfferInv, IssuerHandlerStep
    PROVE  IssuerOk /\ used \subseteq used'
<1> USE IssuerTypes, EdgeFacts
<1>0. /\ ~Open(BlankIssuer) /\ ~Open(RemovedIssuer)
      /\ RemovedIssuer.state = "removed" /\ Idle.pc = "idle"
  BY DEF Open, BlankIssuer, RemovedIssuer, Idle
<1>1. ASSUME NEW i \in Ids, NEW t \in Threads, NEW a \in BOOLEAN,
             NEW ar \in AutoRemoves, NewOffer(i, t, a, ar)
      PROVE  IssuerOk /\ used \subseteq used'
  <2> DEFINE r == [BlankIssuer EXCEPT !.state = "offer_sent", !.thread = t,
                                      !.autoIssue = a, !.autoRemove = ar]
  <2>1. r.state = "offer_sent" /\ r.thread = t
    BY DEF BlankIssuer
  <2>2. /\ irec[i].state = "unborn" /\ irec' = [irec EXCEPT ![i] = r]
        /\ toHolder' = toHolder \cup {Offer(t)} /\ Fresh(t) /\ UNCHANGED itask
    BY <1>1 DEF NewOffer
  <2> HIDE DEF r
  <2>3. MoveOk(irec[i], r) /\ SendOk(Offer(t))
    BY <2>1, <2>2 DEF MoveOk, SendOk, Offer, Fresh
  <2> QED BY <2>2, <2>3 DEF IssuerOk, BornOk, Fresh
<1>2. ASSUME NEW i \in Ids, NEW m \in toIssuer,
             NEW ai \in AutoIssues, NEW ar \in AutoRemoves,
             ReceiveProposal(m, i, ai, ar)
      PROVE  IssuerOk /\ used \subseteq used'
  <2> DEFINE r == [BlankIssuer EXCEPT !.state = "proposal_received",
                                      !.thread = m.thread,
                                      !.autoIssue = ai, !.autoRemove = ar]
  <2>1. r.state = "proposal_received" /\ r.thread = m.thread
    BY DEF BlankIssuer
  <2>2. /\ irec[i].state = "unborn" /\ irec' = [irec EXCEPT ![i] = r]
        /\ m.type = "proposal" /\ UNCHANGED <<toHolder, used>>
        /\ IContinue(AutoOffer, ITaskAt("offer", i, r))
    BY <1>2 DEF ReceiveProposal
  <2> HIDE DEF r
  <2>3. Proposal(r.thread) \in toIssuer
    BY <2>1, <2>2
  <2>4. MoveOk(irec[i], r)
    BY <2>1, <2>2, <2>3 DEF MoveOk, Open
  <2>5. \A k \in ITasks : itask'[k] = itask[k] \/ itask'[k].id = i
    BY <2>2 DEF IContinue, ISet, TypeOK, ITaskAt
  <2> QED BY <2>1, <2>2, <2>4, <2>5 DEF IssuerOk, BornOk
<1>3. ASSUME NEW i \in Ids, NEW k \in ITasks,
             SendBoundOffer(k, i) \/ StartIssue(k, i) \/ IssuerReportProblem(k, i)
      PROVE  IssuerOk /\ used \subseteq used'
  <2>1. Live(irec[i]) /\ UNCHANGED <<irec, toHolder, used>>
    BY <1>3 DEF SendBoundOffer, StartIssue, IssuerReportProblem
  <2>2. \A l \in ITasks : itask'[l] = itask[l] \/ itask'[l].id = i
    BY <1>3 DEF SendBoundOffer, StartIssue, IssuerReportProblem, ISet, TypeOK,
                ITaskAt
  <2> QED BY <2>1, <2>2 DEF IssuerOk, BornOk, Live
<1>4. ASSUME NEW i \in Ids, NEW m \in toIssuer, ReceiveRequest(m, i)
      PROVE  IssuerOk /\ used \subseteq used'
  <2> DEFINE r == [irec[i] EXCEPT !.state = "request_received", !.req = m.req]
  <2>1. r.state = "request_received" /\ r.thread = irec[i].thread
    BY DEF IssuerRecord
  <2>2. /\ irec[i].state = "offer_sent" /\ irec' = [irec EXCEPT ![i] = r]
        /\ UNCHANGED <<toHolder, used>>
    BY <1>4 DEF ReceiveRequest, OpenOffer
  <2>3. \A k \in ITasks : itask'[k] = itask[k] \/ itask'[k].id = i
    BY <1>4 DEF ReceiveRequest, IContinue, ISet, TypeOK, ITaskAt
  <2> HIDE DEF r
  <2>4. MoveOk(irec[i], r)
    BY <2>1, <2>2 DEF MoveOk, Open
  <2> QED BY <2>1, <2>2, <2>3, <2>4 DEF IssuerOk, BornOk
<1>5. ASSUME NEW m \in toIssuer, ReceiveUnknownRequest(m)
      PROVE  IssuerOk /\ used \subseteq used'
  BY <1>5 DEF ReceiveUnknownRequest, vars, IssuerOk, BornOk
<1>6. ASSUME NEW i \in Ids, IssueAgain(i)
      PROVE  IssuerOk /\ used \subseteq used'
  <2>1. Issue(irec[i].thread, irec[i].cred) \in toHolder
    BY <1>6 DEF IssueAgain, ThreadInv, KnownSent, CredSent
  <2>2. UNCHANGED <<irec, itask, toHolder, used>>
    BY <1>6, <2>1 DEF IssueAgain, ivars
  <2> QED BY <2>2 DEF IssuerOk, BornOk
<1>7. ASSUME NEW i \in Ids, NEW m \in toIssuer, ReceiveAck(m, i)
      PROVE  IssuerOk /\ used \subseteq used'
  <2> DEFINE r == [irec[i] EXCEPT !.state = "credential_acked"]
             t == irec[i].thread
  <2>1. /\ m.type = "ack" /\ m.thread = t /\ Live(irec[i])
        /\ irec[i].state # "credential_acked"
        /\ irec' = [irec EXCEPT ![i] = r] /\ UNCHANGED <<toHolder, used>>
    BY <1>7 DEF ReceiveAck, Matching
  <2>2. r.state = "credential_acked" /\ r.thread = t
    BY DEF IssuerRecord
  <2>3. \A k \in ITasks : itask'[k] = itask[k] \/ itask'[k].id = i
    BY <1>7 DEF ReceiveAck, IContinue, ISet, TypeOK, ITaskAt
  <2> HIDE DEF r
  <2>4. Known(t, wallet, toHolder, toIssuer)
    BY <2>1 DEF HolderInv, AcksOk
  <2>5. PICK c : Issue(t, c) \in toHolder
    BY <2>4 DEF Known
  <2>6. Issue(t, c).type = "issue" /\ Issue(t, c).thread = t
    BY DEF Issue
  <2>7. ~Open(irec[i])
    BY <2>5, <2>6 DEF ThreadInv, OpenUnsent
  <2>8. irec[i].state # "proposal_received"
    <3>1. Offer(t) \in toHolder
      BY <2>5, <2>6 DEF OfferInv, IssueOffered
    <3>2. Proposal(t).type = "proposal" /\ Proposal(t).thread = t
      BY DEF Proposal
    <3> QED BY <3>1, <3>2 DEF OfferInv, ProposalKnown, ProposalApart
  <2>9. irec[i].state \in {"credential_issued", "credential_revoked", "abandoned"}
    BY <2>1, <2>7, <2>8 DEF IssuerStates, Open
  <2>10. MoveOk(irec[i], r)
    BY <2>2, <2>4, <2>9 DEF MoveOk, Open
  <2> QED BY <2>1, <2>2, <2>3, <2>10 DEF IssuerOk, BornOk
<1>8. ASSUME NEW i \in Ids,
             IssuerRemove(i) \/ \E m \in toIssuer : IssuerReceiveProblem(m, i)
      PROVE  IssuerOk /\ used \subseteq used'
  <2>1. Live(irec[i]) /\ UNCHANGED <<itask, toHolder, used>>
    BY <1>8 DEF IssuerRemove, IssuerReceiveProblem, Matching
  <2>2. /\ irec'[i].state \in {"abandoned", "removed"}
        /\ \A j \in Ids \ {i} : irec'[j] = irec[j]
    BY <1>0, <1>8 DEF IssuerRemove, IssuerReceiveProblem, IssuerRecord
  <2>3. MoveOk(irec[i], irec'[i])
    BY <2>1, <2>2 DEF MoveOk, Open
  <2> QED BY <2>1, <2>2, <2>3 DEF IssuerOk, BornOk
<1> QED BY <1>1, <1>2, <1>3, <1>4, <1>5, <1>6, <1>7, <1>8 DEF IssuerHandlerStep

\* So are the steps of its tasks.
LEMMA IssuerTasksOk ==
    ASSUME TypeOK, ThreadInv, HolderInv, OfferInv, NEW k \in ITasks, IssuerTask(k)
    PROVE  IssuerOk /\ used \subseteq used'
<1> USE IssuerTypes, EdgeFacts
<1> DEFINE x == itask[k]
<1>1. x.pc # "idle"
  BY DEF IssuerTask, CreateOffer, CreateCredential, CommitIssue,
         IssuerRemoveAcked, IssuerSaveError, IssuerFault
<1>2. x \in ITask /\ x.rec \in IssuerRecord
  BY <1>1
<1>3. PICK i \in Ids : i = x.id
  BY <1>1
<1>4. irec[i].state # "unborn"
  BY <1>1, <1>3 DEF OfferInv, TaskBorn
<1>5. \A y : ISet(k, y) /\ (y.pc = "idle" \/ (y.id = i /\ irec'[i].state # "unborn"))
                => \A l \in ITasks : BornOk(l)
  BY DEF ISet, TypeOK, BornOk
<1>12. ISet(k, Idle) => \A l \in ITasks : BornOk(l)
  BY DEF ISet, TypeOK, BornOk, Idle
<1>6. /\ Idle.pc = "idle" /\ \A pc, r : ITaskAt(pc, i, r).id = i
      /\ \A t : Problem(t).type = "problem"
      /\ \A t : Offer(t).type = "offer" /\ Offer(t).thread = t
      /\ \A t, c : Issue(t, c).type = "issue" /\ Issue(t, c).thread = t
  BY DEF Idle, ITaskAt, Problem, Offer, Issue
<1>7. ASSUME NEW t \in Threads, CreateOffer(k, t)
      PROVE  IssuerOk /\ used \subseteq used'
  <2> DEFINE r == [x.rec EXCEPT !.state = "offer_sent", !.thread = t]
  <2>1. r.state = "offer_sent" /\ r.thread = t
    BY <1>2 DEF IssuerRecord
  <2>2. CASE Live(irec[i])
    <3>1. /\ irec' = [irec EXCEPT ![i] = r] /\ toHolder' = toHolder \cup {Offer(t)}
          /\ ISet(k, Idle) /\ Fresh(t)
      BY <1>3, <1>7, <2>2 DEF CreateOffer
    <3> HIDE DEF r
    <3>2. MoveOk(irec[i], r) /\ SendOk(Offer(t))
      BY <1>6, <2>1, <2>2, <3>1 DEF MoveOk, SendOk, Fresh
    <3>3. irec'[i] = r /\ \A j \in Ids \ {i} : irec'[j] = irec[j]
      BY <3>1
    <3>4. \A l \in ITasks : BornOk(l)
      BY <1>12, <3>1
    <3> QED BY <3>1, <3>2, <3>3, <3>4 DEF IssuerOk, Fresh
  <2>3. CASE ~Live(irec[i])
    <3>1. UNCHANGED <<irec, toHolder>> /\ ISet(k, ITaskAt("error", i, r)) /\ Fresh(t)
      BY <1>3, <1>7, <2>3 DEF CreateOffer
    <3> QED BY <1>4, <1>5, <1>6, <3>1 DEF IssuerOk, Fresh
  <2> QED BY <2>2, <2>3
<1>8. CASE CreateCredential(k) \/ IssuerFault(k)
  <2>1. UNCHANGED <<irec, toHolder, used>>
    BY <1>8 DEF CreateCredential, IssuerFault
  <2>2. PICK y : ISet(k, y) /\ y.id = i
    <3>1. CASE CreateCredential(k)
      <4> DEFINE y == [x EXCEPT !.pc = "issue", !.idx = created + 1]
      <4>1. ISet(k, y)
        BY <3>1 DEF CreateCredential
      <4>2. y.id = i
        BY <1>2, <1>3 DEF ITask
      <4> QED BY <4>1, <4>2
    <3>2. CASE IssuerFault(k)
      <4> DEFINE y == [x EXCEPT !.pc = "error"]
      <4>1. ISet(k, y)
        BY <3>2 DEF IssuerFault
      <4>2. y.id = i
        BY <1>2, <1>3 DEF ITask
      <4> QED BY <4>1, <4>2
    <3> QED BY <1>8, <3>1, <3>2
  <2> QED BY <1>4, <1>5, <2>1, <2>2 DEF IssuerOk
<1>9. CASE CommitIssue(k)
  <2> DEFINE c == [idx |-> x.idx, req |-> x.rec.req]
             t == irec[i].thread
  <2>1. CASE Issuable(irec[i])
    <3>1. /\ irec' = [irec EXCEPT ![i].state = "credential_issued", ![i].cred = c]
          /\ toHolder' = toHolder \cup {Issue(t, c)} /\ ISet(k, Idle)
          /\ UNCHANGED used
      BY <1>3, <1>9, <2>1 DEF CommitIssue
    <3>2. /\ irec'[i].state = "credential_issued"
          /\ \A j \in Ids \ {i} : irec'[j] = irec[j]
      BY <3>1 DEF IssuerRecord
    <3>3. /\ Offer(t) \in toHolder
          /\ \A n \in toHolder : n.type = "issue" => n.thread # t
      BY <2>1 DEF OfferInv, OpenOffered, Open, Issuable, ThreadInv, OpenUnsent
    <3>4. MoveOk(irec[i], irec'[i]) /\ SendOk(Issue(t, c))
      BY <1>6, <2>1, <3>2, <3>3 DEF MoveOk, SendOk, Issuable, Open
    <3> QED BY <1>5, <1>6, <3>1, <3>2, <3>4 DEF IssuerOk
  <2>2. CASE ~Issuable(irec[i])
    <3>1. UNCHANGED <<irec, toHolder, used>> /\ ISet(k, ITaskAt("error", i, x.rec))
      BY <1>3, <1>9, <2>2 DEF CommitIssue
    <3> QED BY <1>4, <1>5, <1>6, <3>1 DEF IssuerOk
  <2> QED BY <2>1, <2>2
<1>10. CASE IssuerRemoveAcked(k)
  <2>1. /\ irec' = [irec EXCEPT ![i] = RemovedIssuer] /\ ISet(k, Idle)
        /\ UNCHANGED <<toHolder, used>>
    BY <1>3, <1>10 DEF IssuerRemoveAcked
  <2>2. RemovedIssuer.state = "removed"
    BY DEF RemovedIssuer, BlankIssuer
  <2>3. MoveOk(irec[i], RemovedIssuer)
    BY <1>4, <2>2 DEF MoveOk, Open, Live
  <2>4. irec'[i] = RemovedIssuer /\ \A j \in Ids \ {i} : irec'[j] = irec[j]
    BY <2>1
  <2>5. \A l \in ITasks : BornOk(l)
    BY <1>12, <2>1
  <2> QED BY <2>1, <2>3, <2>4, <2>5 DEF IssuerOk
<1>11. CASE IssuerSaveError(k)
  <2> DEFINE r == [x.rec EXCEPT !.state = "abandoned"]
  <2>1. /\ \/ Live(irec[i]) /\ irec' = [irec EXCEPT ![i] = r]
           \/ irec' = irec
        /\ toHolder' = toHolder \cup {Problem(r.thread)} /\ ISet(k, Idle)
        /\ UNCHANGED used
    BY <1>3, <1>11 DEF IssuerSaveError
  <2>2. r.state = "abandoned"
    BY <1>2 DEF IssuerRecord
  <2> HIDE DEF r
  <2>3. Live(irec[i]) => MoveOk(irec[i], r)
    BY <2>2 DEF MoveOk, Open
  <2>4. SendOk(Problem(r.thread))
    BY <1>6 DEF SendOk
  <2>5. irec'[i] \in {r, irec[i]} /\ \A j \in Ids \ {i} : irec'[j] = irec[j]
    BY <2>1
  <2>6. \A l \in ITasks : BornOk(l)
    BY <1>12, <2>1
  <2>7. \A j \in Ids : irec'[j] = irec[j] \/ MoveOk(irec[j], irec'[j])
    BY <2>1, <2>3, <2>5
  <2> QED BY <2>1, <2>4, <2>6, <2>7 DEF IssuerOk
<1> QED BY <1>7, <1>8, <1>9, <1>10, <1>11 DEF IssuerTask

\* All the issuer's steps are as they should be.
LEMMA IssuerStepOk ==
    ASSUME TypeOK, ThreadInv, HolderInv, OfferInv,
           \/ IssuerHandlerStep \/ IssuerRestart
           \/ \E k \in ITasks : IssuerTask(k)
           \/ \E e \in revRecs : CredRevoked(e)
    PROVE  IssuerOk /\ used \subseteq used'
<1>1. CASE IssuerRestart
  BY <1>1 DEF IssuerRestart, IssuerOk, BornOk, Idle
<1>2. ASSUME NEW e \in revRecs, CredRevoked(e)
      PROVE  IssuerOk /\ used \subseteq used'
  <2>1. e.id \in Ids /\ UNCHANGED <<itask, toHolder, used>>
    BY <1>2 DEF TypeOK, CredRevoked
  <2>2. \/ irec' = irec
        \/ /\ Live(irec[e.id]) /\ irec'[e.id].state = "credential_revoked"
           /\ \A j \in Ids \ {e.id} : irec'[j] = irec[j]
    BY <1>2, <2>1, IssuerTypes DEF CredRevoked, IssuerRecord
  <2>3. irec' = irec \/ MoveOk(irec[e.id], irec'[e.id])
    BY <2>1, <2>2, IssuerTypes, EdgeFacts DEF MoveOk, Open
  <2> QED BY <2>1, <2>2, <2>3 DEF IssuerOk, BornOk
<1> QED BY <1>1, <1>2, IssuerHandlersOk, IssuerTasksOk

-----------------------------------------------------------------------------
(***************************************************************************)
(* What a step of the holder's sends, and where it moves a record.         *)
(***************************************************************************)
HolderMovesOk ==
    \A i \in Ids : hrec'[i].state # hrec[i].state =>
                      <<hrec[i].state, hrec'[i].state>> \in HolderEdges
OneSent ==
    \/ toIssuer' = toIssuer
    \/ \E m : /\ toIssuer' = toIssuer \cup {m}
              /\ m.type = "proposal" => m.thread \notin used /\ m.thread \in used'
HolderOk == /\ HolderMovesOk /\ OneSent /\ used \subseteq used'
            /\ wallet' = wallet \/ \E k \in HTasks : StoreInWallet(k)

LEMMA HolderEdgeFacts ==
    /\ \A s \in HolderStates : /\ <<s, "abandoned">> \in HolderEdges
                               /\ <<s, "removed">> \in HolderEdges
    /\ <<"unborn", "proposal_sent">> \in HolderEdges
    /\ <<"unborn", "offer_received">> \in HolderEdges
    /\ <<"proposal_sent", "offer_received">> \in HolderEdges
    /\ <<"offer_received", "request_sent">> \in HolderEdges
    /\ <<"request_sent", "credential_received">> \in HolderEdges
    /\ <<"credential_received", "credential_acked">> \in HolderEdges
BY DEF HolderEdges

LEMMA SentTypes ==
    /\ \A t : /\ Proposal(t).type = "proposal" /\ Proposal(t).thread = t
              /\ Ack(t).type = "ack" /\ Problem(t).type = "problem"
    /\ \A t, r : Request(t, r).type = "request"
BY DEF Proposal, Ack, Problem, Request

LEMMA HolderHandlersOk ==
    ASSUME TypeOK, HolderInv, HolderHandlerStep
    PROVE  HolderOk
<1> USE HolderTypes, HolderEdgeFacts, SentTypes DEF HolderOk, OneSent, HolderMovesOk
<1>1. ASSUME NEW i \in Ids, NEW t \in Threads, NEW ar \in AutoRemoves,
             SendProposal(i, t, ar)
      PROVE  HolderOk
  <2> DEFINE r == [BlankHolder EXCEPT !.state = "proposal_sent", !.thread = t,
                                      !.autoRemove = ar]
  <2>1. r.state = "proposal_sent"
    BY DEF BlankHolder
  <2>2. /\ hrec[i].state = "unborn" /\ hrec' = [hrec EXCEPT ![i] = r] /\ Fresh(t)
        /\ toIssuer' = toIssuer \cup {Proposal(t)} /\ UNCHANGED wallet
    BY <1>1 DEF SendProposal
  <2> HIDE DEF r
  <2> QED BY <2>1, <2>2 DEF Fresh
<1>2. ASSUME NEW i \in Ids, NEW m \in toHolder, NEW ar \in AutoRemoves,
             ReceiveOffer(m, i, ar)
      PROVE  HolderOk
  <2>1. hrec'[i].state = "offer_received" /\ \A j \in Ids \ {i} : hrec'[j] = hrec[j]
    BY <1>2 DEF ReceiveOffer, BlankHolder, HolderRecord
  <2>2. /\ hrec[i].state \in {"unborn", "proposal_sent"}
        /\ UNCHANGED <<toIssuer, wallet, used>>
    BY <1>2 DEF ReceiveOffer
  <2> QED BY <2>1, <2>2
<1>3. ASSUME NEW i \in Ids, RequestAgain(i)
      PROVE  HolderOk
  BY <1>3 DEF RequestAgain, hvars
<1>4. ASSUME NEW i \in Ids, NEW k \in HTasks,
             \/ \E ar \in AutoRemoves : StartRequest(k, i, ar)
             \/ StartStore(k, i) \/ HolderReportProblem(k, i)
      PROVE  HolderOk
  BY <1>4 DEF StartRequest, StartStore, HolderReportProblem
<1>5. ASSUME NEW i \in Ids, NEW m \in toHolder, ReceiveCredential(m, i)
      PROVE  HolderOk
  <2>1. /\ hrec[i].state = "request_sent" /\ hrec'[i].state = "credential_received"
        /\ \A j \in Ids \ {i} : hrec'[j] = hrec[j]
    BY <1>5 DEF ReceiveCredential, HolderRecord
  <2> QED BY <1>5, <2>1 DEF ReceiveCredential
<1>6. ASSUME NEW i \in Ids,
             HolderRemove(i) \/ \E m \in toHolder : HolderReceiveProblem(m, i)
      PROVE  HolderOk
  <2>1. Live(hrec[i]) /\ UNCHANGED <<toIssuer, wallet, used>>
    BY <1>6 DEF HolderRemove, HolderReceiveProblem, Matching
  <2>2. /\ hrec'[i].state \in {"abandoned", "removed"}
        /\ \A j \in Ids \ {i} : hrec'[j] = hrec[j]
    BY <1>6 DEF HolderRemove, HolderReceiveProblem, RemovedHolder, BlankHolder,
                HolderRecord
  <2>3. hrec[i].state \in HolderStates
    BY <2>1 DEF Live, HolderRecord
  <2> QED BY <2>1, <2>2, <2>3
<1> QED BY <1>1, <1>2, <1>3, <1>4, <1>5, <1>6 DEF HolderHandlerStep

LEMMA HolderTasksOk ==
    ASSUME TypeOK, HolderInv, NEW k \in HTasks, HolderTask(k)
    PROVE  HolderOk
<1> USE HolderTypes, HolderEdgeFacts, SentTypes DEF HolderOk, OneSent, HolderMovesOk
<1> DEFINE x == htask[k]
<1>1. x.pc # "idle"
  BY DEF HolderTask, CreateRequest, StoreInWallet, SaveStored, AckCredential,
         HolderRemoveAcked, HolderSaveError, HolderFault, AckUnsaved, Owed
<1>2. x \in HTask /\ x.rec \in HolderRecord
  BY <1>1
<1>3. PICK i \in Ids : i = x.id
  BY <1>1
<1>4. ASSUME NEW q \in 1..MaxReqs, CreateRequest(k, q)
      PROVE  HolderOk
  <2>1. \/ UNCHANGED <<hrec, toIssuer>>
        \/ /\ hrec[i].state = "offer_received" /\ hrec'[i].state = "request_sent"
           /\ \A j \in Ids \ {i} : hrec'[j] = hrec[j]
           /\ toIssuer' = toIssuer \cup {Request(hrec[i].thread, q)}
    <3>1. CASE UNCHANGED <<hrec, toIssuer>>
      BY <3>1
    <3>2. CASE ~UNCHANGED <<hrec, toIssuer>>
      <4>1. PICK auto : /\ hrec[i].state = "offer_received"
                        /\ hrec' = [hrec EXCEPT ![i].state = "request_sent", ![i].req = q,
                                                ![i].autoRemove = auto]
                        /\ toIssuer' = toIssuer \cup {Request(hrec[i].thread, q)}
        BY <1>3, <1>4, <3>2 DEF CreateRequest, Requestable
      <4>2. hrec[i] \in HolderRecord
        OBVIOUS
      <4>3. hrec'[i].state = "request_sent" /\ \A j \in Ids \ {i} : hrec'[j] = hrec[j]
        BY <4>1, <4>2 DEF HolderRecord
      <4> QED BY <4>1, <4>3
    <3> QED BY <3>1, <3>2
  <2>2. UNCHANGED <<wallet, used>>
    BY <1>4 DEF CreateRequest
  <2> QED BY <2>1, <2>2
<1>5. CASE StoreInWallet(k)
  BY <1>5 DEF StoreInWallet
<1>6. CASE SaveStored(k)
  <2>1. \A j \in Ids : hrec'[j].state = hrec[j].state
    BY <1>3, <1>6 DEF SaveStored, HolderRecord
  <2> QED BY <1>6, <2>1 DEF SaveStored
<1>7. CASE AckCredential(k)
  <2>1. \/ UNCHANGED <<hrec, toIssuer>>
        \/ /\ hrec[i].state = "credential_received"
           /\ hrec'[i].state = "credential_acked"
           /\ \A j \in Ids \ {i} : hrec'[j] = hrec[j]
    BY <1>3, <1>7 DEF AckCredential, Storable, HolderRecord
  <2>2. /\ toIssuer' = toIssuer \/ toIssuer' = toIssuer \cup {Ack(hrec[i].thread)}
        /\ UNCHANGED <<wallet, used>>
    BY <1>3, <1>7 DEF AckCredential
  <2> QED BY <2>1, <2>2
<1>8. CASE HolderRemoveAcked(k)
  <2>1. /\ hrec' = [hrec EXCEPT ![i] = RemovedHolder] /\ x.pc = "remove"
        /\ toIssuer' = toIssuer \cup {Ack(x.rec.thread)} /\ UNCHANGED <<wallet, used>>
    BY <1>3, <1>8 DEF HolderRemoveAcked
  <2>2. hrec[i].state \in HolderStates \cup {"removed"}
    BY <1>1, <1>3, <2>1 DEF HolderInv, TasksOk, TaskOk, HolderRecord
  <2>3. RemovedHolder.state = "removed"
    BY DEF RemovedHolder, BlankHolder
  <2> QED BY <2>1, <2>2, <2>3
<1>9. CASE HolderSaveError(k)
  <2> DEFINE r == [x.rec EXCEPT !.state = "abandoned"]
  <2>1. /\ \/ Live(hrec[i]) /\ hrec' = [hrec EXCEPT ![i] = r]
           \/ hrec' = hrec
        /\ toIssuer' = toIssuer \cup {Problem(r.thread)} /\ UNCHANGED <<wallet, used>>
    BY <1>3, <1>9 DEF HolderSaveError
  <2>2. r.state = "abandoned"
    BY <1>2 DEF HolderRecord
  <2> HIDE DEF r
  <2>3. Live(hrec[i]) => hrec[i].state \in HolderStates
    BY DEF Live, HolderRecord
  <2> QED BY <2>1, <2>2, <2>3
<1>10. CASE HolderFault(k)
  BY <1>10 DEF HolderFault
<1>11. CASE AckUnsaved(k)
  BY <1>11 DEF AckUnsaved
<1> QED BY <1>4, <1>5, <1>6, <1>7, <1>8, <1>9, <1>10, <1>11 DEF HolderTask

LEMMA HolderStepOk ==
    ASSUME TypeOK, HolderInv,
           \/ HolderHandlerStep \/ HolderRestart
           \/ \E k \in HTasks : HolderTask(k)
    PROVE  HolderOk
<1>1. CASE HolderRestart
  BY <1>1 DEF HolderRestart, HolderOk, OneSent, HolderMovesOk
<1> QED BY <1>1, HolderHandlersOk, HolderTasksOk

-----------------------------------------------------------------------------
\* Every step keeps OfferInv.
LEMMA NextOfferInv ==
    TypeOK /\ ThreadInv /\ HolderInv /\ OfferInv /\ [Next]_vars => OfferInv'
<1> SUFFICES ASSUME TypeOK, ThreadInv, HolderInv, OfferInv, [Next]_vars
             PROVE  OfferInv'
  OBVIOUS
<1>1. CASE UNCHANGED vars
  BY <1>1 DEF vars, OfferInv, OpenOffered, IssueOffered, OfferUsed, ProposalApart,
              ProposalKnown, AckedKnown, TaskBorn
<1>2. CASE \/ IssuerHandlerStep \/ IssuerRestart
           \/ \E k \in ITasks : IssuerTask(k)
           \/ \E e \in revRecs : CredRevoked(e)
  BY <1>2, IssuerFrame, IssuerStepOk, IssuerOkKeeps
<1>3. CASE \/ HolderHandlerStep \/ HolderRestart
           \/ \E k \in HTasks : HolderTask(k)
  <2>1. UNCHANGED <<irec, itask, toHolder>> /\ HolderOk
    BY <1>3, HolderFrame, HolderStepOk
  <2>2. wallet \subseteq wallet'
    BY <2>1 DEF HolderOk, StoreInWallet
  <2>3. AckedKnown'
    <3>1. toIssuer \subseteq toIssuer'
      BY <2>1 DEF HolderOk, OneSent
    <3> QED BY <2>1, <2>2, <3>1, HolderGrows DEF OfferInv, AckedKnown
  <2>4. ProposalApart'
    <3>1. \A t : Offer(t).type = "offer" /\ Offer(t).thread = t
      BY DEF Offer
    <3> QED BY <2>1, <3>1 DEF OfferInv, ProposalApart, OfferUsed, HolderOk, OneSent
  <2>5. ProposalKnown' /\ OfferUsed'
    BY <2>1 DEF OfferInv, ProposalKnown, OfferUsed, HolderOk, OneSent
  <2> QED BY <2>1, <2>3, <2>4, <2>5 DEF OfferInv, OpenOffered, IssueOffered, TaskBorn
<1> QED BY <1>1, <1>2, <1>3, NextSteps

\* The invariants together.
ExchangeInv == TypeOK /\ ThreadInv /\ HolderInv /\ OfferInv

LEMMA InitExchangeInv == Init => ExchangeInv
BY InitTypeOK, InitThreadInv, InitHolderInv, InitOfferInv DEF ExchangeInv

LEMMA NextExchangeInv == ExchangeInv /\ [Next]_vars => ExchangeInv'
BY NextTypeOK, NextThreadInv, NextHolderInv, NextOfferInv DEF ExchangeInv

LEMMA Exchange == Spec => []ExchangeInv
BY InitExchangeInv, NextExchangeInv, PTL DEF Spec

\* What the holder acknowledged, and what the issuer calls acknowledged, is in
\* the wallet, unless the holder has reported a problem on that thread.
THEOREM AckedStored == Spec => []AckedStoredOrReported
<1>1. ExchangeInv => AckedStoredOrReported
  <2> SUFFICES ASSUME ExchangeInv PROVE AckedStoredOrReported
    OBVIOUS
  <2>1. ASSUME NEW t \in Threads, Ack(t) \in toIssuer
        PROVE  (\E c \in wallet : Issue(t, c) \in toHolder) \/ Problem(t) \in toIssuer
    <3>1. Ack(t).type = "ack" /\ Ack(t).thread = t
      BY DEF Ack
    <3> QED BY <2>1, <3>1 DEF ExchangeInv, HolderInv, AcksOk, Known
  <2> QED BY <2>1 DEF ExchangeInv, OfferInv, AckedKnown, Known,
                      AckedStoredOrReported
<1> QED BY <1>1, Exchange, PTL

\* The holder's record moves along the protocol or is abandoned.
THEOREM HolderForward == Spec => HolderOnlyForward
<1>1. ExchangeInv /\ [Next]_vars =>
         [\A i \in Ids : hrec'[i].state # hrec[i].state
                            => <<hrec[i].state, hrec'[i].state>> \in HolderEdges]_hrec
  <2> SUFFICES ASSUME ExchangeInv, [Next]_vars
               PROVE  HolderMovesOk \/ UNCHANGED hrec
    BY DEF HolderMovesOk
  <2> QED BY NextSteps, HolderStepOk, IssuerFrame DEF ExchangeInv, HolderOk, vars
<1> QED BY <1>1, Exchange, PTL DEF Spec, HolderOnlyForward

\* The issuer's record: no credential but for a request, no acknowledgement but
\* for a credential.
THEOREM IssuerEdgesKept == Spec => IssuerSteps
<1>1. ExchangeInv /\ [Next]_vars =>
         [\A i \in Ids : irec'[i].state # irec[i].state
                            => <<irec[i].state, irec'[i].state>> \in IssuerEdges]_irec
  <2> SUFFICES ASSUME ExchangeInv, [Next]_vars, ~UNCHANGED irec
               PROVE  \A i \in Ids : irec'[i].state # irec[i].state
                            => <<irec[i].state, irec'[i].state>> \in IssuerEdges
    OBVIOUS
  <2>1. IssuerOk
    BY NextSteps, HolderFrame, IssuerStepOk DEF ExchangeInv, vars
  <2> QED BY <2>1 DEF IssuerOk, MoveOk
<1> QED BY <1>1, Exchange, PTL DEF Spec, IssuerSteps

-----------------------------------------------------------------------------
(***************************************************************************)
(* The refinement of CredentialIssuance.                                   *)
(***************************************************************************)
LEMMA InitIssuance == Init => Issuance!Init
BY DEF Init, Issuance!Init, Offered, Issued, Acked, Reported

\* An issuer's step offers a thread, issues on an offered one, or shows nothing.
LEMMA IssuerImplements ==
    ASSUME ExchangeInv, TypeOK', IssuerOk, UNCHANGED <<wallet, toIssuer>>
    PROVE  [Issuance!Next]_(Issuance!vars)
<1>1. Acked' = Acked /\ Reported' = Reported
  BY DEF Acked, Reported
<1>2. CASE toHolder' = toHolder
  BY <1>1, <1>2 DEF Issuance!vars, Offered, Issued
<1>3. ASSUME NEW m, toHolder' = toHolder \cup {m}, SendOk(m)
      PROVE  [Issuance!Next]_(Issuance!vars)
  <2>1. m \in ToHolder
    BY <1>3 DEF TypeOK
  <2>2. CASE m.type = "problem"
    <3>1. Offered' = Offered /\ Issued' = Issued
      BY <1>3, <2>2 DEF Offered, Issued
    <3> QED BY <1>1, <3>1 DEF Issuance!vars
  <2>3. CASE m.type = "offer" /\ m.thread \in used'
    <3>1. Offered' = Offered \cup {m.thread} /\ Issued' = Issued
      BY <1>3, <2>3 DEF Offered, Issued
    <3>2. m.thread \in Threads
      BY <2>3 DEF TypeOK
    <3> QED BY <1>1, <3>1, <3>2 DEF Issuance!Next, Issuance!Offer
  <2>4. CASE /\ m.type = "issue" /\ Offer(m.thread) \in toHolder
             /\ \A n \in toHolder : n.type = "issue" => n.thread # m.thread
    <3>1. Offered' = Offered /\ Issued' = Issued \cup {<<m.thread, m.cred>>}
      BY <1>3, <2>4 DEF Offered, Issued
    <3>2. Offer(m.thread).type = "offer" /\ Offer(m.thread).thread = m.thread
      BY DEF Offer
    <3>3. m.thread \in Threads /\ m.thread \in Offered
      BY <2>4, <3>2 DEF ExchangeInv, OfferInv, OfferUsed, TypeOK, Offered
    <3>4. m.cred \in Cred
      BY <2>1, <2>4 DEF ToHolder
    <3>5. \A p \in Issued : p[1] # m.thread
      BY <2>4 DEF Issued
    <3> QED BY <1>1, <3>1, <3>3, <3>4, <3>5 DEF Issuance!Next, Issuance!Issue
  <2> QED BY <1>3, <2>2, <2>3, <2>4 DEF SendOk
<1> QED BY <1>2, <1>3 DEF IssuerOk

\* A holder's step stores an issued credential, reports a problem, acknowledges
\* a thread that is stored or reported, or shows nothing.
LEMMA HolderImplements ==
    ASSUME ExchangeInv, HolderInv', TypeOK', HolderOk, UNCHANGED toHolder
    PROVE  [Issuance!Next]_(Issuance!vars)
<1>1. Offered' = Offered /\ Issued' = Issued
  BY DEF Offered, Issued
<1>2. ASSUME NEW t, NEW c, Issue(t, c) \in toHolder
      PROVE  t \in Threads /\ c \in Cred /\ <<t, c>> \in Issued
  <2>1. /\ Issue(t, c).type = "issue" /\ Issue(t, c).thread = t
        /\ Issue(t, c).cred = c
    BY DEF Issue
  <2>2. t \in Threads
    BY <1>2, <2>1 DEF ExchangeInv, ThreadInv, SentUsed, TypeOK
  <2>3. Issue(t, c) \in ToHolder
    BY <1>2 DEF ExchangeInv, TypeOK
  <2>4. c \in Cred
    BY <2>1, <2>3 DEF ToHolder
  <2>5. <<t, c>> \in Issued
    BY <1>2, <2>1 DEF Issued
  <2> QED BY <2>2, <2>4, <2>5
<1>3. ASSUME NEW k \in HTasks, StoreInWallet(k)
      PROVE  [Issuance!Next]_(Issuance!vars)
  <2> DEFINE r == htask[k].rec
  <2>1. /\ htask[k].pc = "store" /\ Acked' = Acked /\ Reported' = Reported
        /\ wallet' = wallet \/ wallet' = wallet \cup {r.raw}
    BY <1>3 DEF StoreInWallet, Acked, Reported
  <2>2. Issue(r.thread, r.raw) \in toHolder
    BY <2>1 DEF ExchangeInv, HolderInv, TasksOk, TaskOk, Storing
  <2> HIDE DEF r
  <2>3. r.thread \in Threads /\ r.raw \in Cred /\ <<r.thread, r.raw>> \in Issued
    BY <1>2, <2>2
  <2> QED BY <1>1, <2>1, <2>3 DEF Issuance!Next, Issuance!Store, Issuance!vars
<1>4. CASE wallet' = wallet
  <2>1. CASE toIssuer' = toIssuer
    BY <1>1, <1>4, <2>1 DEF Issuance!vars, Acked, Reported
  <2>2. ASSUME NEW m, toIssuer' = toIssuer \cup {m}, m.type = "ack"
        PROVE  [Issuance!Next]_(Issuance!vars)
    <3>1. Acked' = Acked \cup {m.thread}
          /\ Reported' = Reported
      <4>1. \A t : Problem(t).type = "problem"
        BY DEF Problem
      <4> QED BY <2>2, <4>1 DEF Acked, Reported
    <3>2. PICK c : /\ Issue(m.thread, c) \in toHolder
                   /\ c \in wallet \/ Problem(m.thread) \in toIssuer'
      BY <1>4, <2>2 DEF HolderInv, AcksOk, Known
    <3>3. /\ m.thread \in Threads /\ c \in Cred
          /\ <<m.thread, c>> \in Issued
      BY <1>2, <3>2
    <3>4. c \in wallet \/ m.thread \in Reported
      <4>1. Problem(m.thread).type = "problem"
        BY DEF Problem
      <4> QED BY <2>2, <3>2, <3>3, <4>1 DEF Reported
    <3> QED BY <1>1, <1>4, <3>1, <3>3, <3>4 DEF Issuance!Next, Issuance!Acknowledge
  <2>3. ASSUME NEW m, toIssuer' = toIssuer \cup {m}, m.type = "problem"
        PROVE  [Issuance!Next]_(Issuance!vars)
    <3>1. Acked' = Acked
      BY <2>3 DEF Acked
    <3>2. \/ Reported' = Reported
          \/ m.thread \in Threads /\ Reported' = Reported \cup {m.thread}
      <4>1. \A t : Problem(t) = m => t = m.thread
        BY DEF Problem
      <4> QED BY <2>3, <4>1 DEF Reported
    <3> QED BY <1>1, <1>4, <3>1, <3>2
            DEF Issuance!Next, Issuance!Report, Issuance!vars
  <2>4. ASSUME NEW m, toIssuer' = toIssuer \cup {m}, m.type \notin {"ack", "problem"}
        PROVE  [Issuance!Next]_(Issuance!vars)
    <3>1. Acked' = Acked /\ Reported' = Reported
      <4>1. \A t : Problem(t).type = "problem"
        BY DEF Problem
      <4> QED BY <2>4, <4>1 DEF Acked, Reported
    <3> QED BY <1>1, <1>4, <3>1 DEF Issuance!vars
  <2> QED BY <2>1, <2>2, <2>3, <2>4 DEF HolderOk, OneSent
<1> QED BY <1>3, <1>4 DEF HolderOk

\* The exchange implements the abstract issuance.
THEOREM Implements == Spec => ImplementsIssuance
<1>1. Init => Issuance!Init
  BY InitIssuance
<1>2. ExchangeInv /\ [Next]_vars => [Issuance!Next]_(Issuance!vars)
  <2> SUFFICES ASSUME ExchangeInv, [Next]_vars
               PROVE  [Issuance!Next]_(Issuance!vars)
    OBVIOUS
  <2>1. ExchangeInv'
    BY NextExchangeInv
  <2>2. CASE UNCHANGED vars
    BY <2>2 DEF vars, Issuance!vars, Offered, Issued, Acked, Reported
  <2>3. CASE \/ IssuerHandlerStep \/ IssuerRestart
             \/ \E k \in ITasks : IssuerTask(k)
             \/ \E e \in revRecs : CredRevoked(e)
    BY <2>1, <2>3, IssuerFrame, IssuerStepOk, IssuerImplements DEF ExchangeInv
  <2>4. CASE \/ HolderHandlerStep \/ HolderRestart
             \/ \E k \in HTasks : HolderTask(k)
    BY <2>1, <2>4, HolderFrame, HolderStepOk, HolderImplements DEF ExchangeInv
  <2> QED BY <2>2, <2>3, <2>4, NextSteps
<1> QED BY <1>1, <1>2, Exchange, PTL DEF Spec, ImplementsIssuance, Issuance!Spec
=============================================================================
