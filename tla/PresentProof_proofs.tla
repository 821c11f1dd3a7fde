------------------------ MODULE PresentProof_proofs ------------------------
(***************************************************************************)
(* Theorems about a verifier and a prover, for any number of exchanges,    *)
(* threads and concurrent tasks, every value of the settings, and messages *)
(* that come in any order, repeatedly or never; and about the verifier of  *)
(* presentations over HTTP (Oid4vp).                                       *)
(***************************************************************************)
EXTENDS PresentProof, TLAPS

-----------------------------------------------------------------------------
(***************************************************************************)
(* Types.                                                                  *)
(***************************************************************************)
\* The settings are Booleans.
Sensible == Autos \subseteq BOOLEAN /\ AutoPresent \in BOOLEAN /\ MaxNonce \in Nat

On     == Threads \cup {NoThread}
VRec   == Record(VerifierStates)
PRec   == Record(ProverStates)
VTask  == Task({"bind", "save", "verify", "ack", "remove", "error"}, VerifierStates)
PTask  == Task({"save", "present", "remove", "error"}, ProverStates)

Wished    == [type : {"proposal"}, thread : On]
Asked     == [type : {"request"}, thread : On, req : Nonces \ {0}]
Sent      == [type : {"presentation"}, thread : On, proof : Proof]
Told      == [type : {"ack"}, thread : On, verified : {"", "true", "false"}]
Reported  == [type : {"problem"}, thread : On]

Types ==
    /\ TypeOK
    /\ vtask \in [VTasks -> {Idle} \cup VTask] /\ ptask \in [PTasks -> {Idle} \cup PTask]
    /\ toVerifier \subseteq Wished \cup Sent \cup Reported
    /\ toProver \subseteq Asked \cup Told \cup Reported

-----------------------------------------------------------------------------
(***************************************************************************)
(* What is true of a record is true of every copy of it.  V and P: the     *)
(* messages to the verifier and to the prover.                             *)
(***************************************************************************)
\* A proof that the verifier has was presented on the record's thread.
VGood(r, V) ==
    /\ r.state = "verified" => r.verified = Verdict(r.proof, r.req)
    /\ r.proof.sound => Presentation(r.thread, r.proof) \in V
VTaskGood(t, V) == VGood(t.rec, V) /\ (t.pc = "ack" => t.rec.state = "verified") /\ t.next # "ack"

\* A sound presentation for a request of the thread was sent.
Answers(m, t, P) == m.type = "presentation" /\ m.thread = t /\ Request(t, m.proof.for) \in P
Proved(t, V, P)  == \E m \in V : Answers(m, t, P) /\ m.proof.sound

PGood(r, V, P) ==
    /\ r.req # 0 => Request(r.thread, r.req) \in P
    /\ r.state = "request_received" => r.req # 0
    /\ r.state = "presentation_sent" => r.proof.for = r.req
    /\ r.verified = "true" => Proved(r.thread, V, P)
PTaskGood(t, V, P) ==
    PGood(t.rec, V, P) /\ ("present" \in {t.pc, t.next} => t.rec.state = "request_received")

\* A presentation is of a request of its thread, and an ack is right.
SentGood(m, P)    == m.type = "presentation" => Answers(m, m.thread, P)
ToldGood(m, V, P) == m.type = "ack" /\ m.verified = "true" => Proved(m.thread, V, P)

VerifierInv ==
    /\ \A i \in Ids : VGood(vrec[i], toVerifier)
    /\ \A k \in VTasks : vtask[k] # Idle => VTaskGood(vtask[k], toVerifier)
ProverInv ==
    /\ \A i \in Ids : PGood(prec[i], toVerifier, toProver)
    /\ \A k \in PTasks : ptask[k] # Idle => PTaskGood(ptask[k], toVerifier, toProver)
MessageInv ==
    /\ \A m \in toVerifier : SentGood(m, toProver)
    /\ \A m \in toProver : ToldGood(m, toVerifier, toProver)

ProofInv == Types /\ VerifierInv /\ ProverInv /\ MessageInv

-----------------------------------------------------------------------------
(***************************************************************************)
(* Every step keeps the types.                                             *)
(***************************************************************************)
LEMMA Busy ==
    ASSUME Types
    PROVE  /\ \A k \in VTasks : vtask[k].pc # "idle" => vtask[k] \in VTask /\ vtask[k] # Idle
           /\ \A k \in PTasks : ptask[k].pc # "idle" => ptask[k] \in PTask /\ ptask[k] # Idle
           /\ \A m \in toVerifier : m.type = "proposal" => m \in Wished
           /\ \A m \in toVerifier : m.type = "presentation" => m \in Sent
           /\ \A m \in toVerifier : m.type = "problem" => m \in Reported
           /\ \A m \in toProver : m.type = "request" => m \in Asked
           /\ \A m \in toProver : m.type = "ack" => m \in Told
           /\ \A m \in toProver : m.type = "problem" => m \in Reported
<1>1. /\ \A k \in VTasks : vtask[k].pc # "idle" => vtask[k] \in VTask /\ vtask[k] # Idle
      /\ \A k \in PTasks : ptask[k].pc # "idle" => ptask[k] \in PTask /\ ptask[k] # Idle
  BY DEF Types, Idle
<1>2. /\ \A m \in Wished : m.type = "proposal"
      /\ \A m \in Sent : m.type = "presentation"
      /\ \A m \in Reported : m.type = "problem"
      /\ \A m \in Asked : m.type = "request"
      /\ \A m \in Told : m.type = "ack"
  BY DEF Wished, Sent, Asked, Told, Reported
<1>3. /\ \A m \in toVerifier : m \in Wished \/ m \in Sent \/ m \in Reported
      /\ \A m \in toProver : m \in Asked \/ m \in Told \/ m \in Reported
  BY DEF Types
<1> QED BY <1>1, <1>2, <1>3

LEMMA Blanks ==
    ASSUME Sensible
    PROVE  Blank \in VRec /\ Blank \in PRec /\ Gone \in VRec /\ Gone \in PRec
<1>1. 0 \in Nonces
  BY DEF Sensible, Nonces
<1>2. NoProof \in Proof
  BY <1>1 DEF NoProof, Proof
<1>3. Blank \in VRec /\ Blank \in PRec
  BY <1>1, <1>2 DEF Blank, VRec, PRec, Record, Unused
<1> QED BY <1>3 DEF Gone, VRec, PRec, Record, Unused

\* The steps of the verifier and what they leave alone.
LEMMA VerifierTypes ==
    ASSUME Sensible, Types, VerifierStep
    PROVE  Types'
<1>0. /\ \A i \in Ids : vrec[i] \in VRec
      /\ nonce < MaxNonce => nonce + 1 \in Nonces \ {0}
  BY DEF Types, TypeOK, VRec, Nonces, Sensible
<1>1. ASSUME NEW i \in Ids, NEW t \in Threads, NEW auto \in Autos, NEW ar \in Autos,
             ExchangeForRequest(i, t, auto, ar), UNCHANGED <<vtask, pvars, toVerifier>>,
             toProver' \subseteq toProver \cup {Request(t, NextNonce)}
      PROVE  Types'
  <2> DEFINE r == [Blank EXCEPT !.state = "request_sent", !.thread = t,
                     !.req = NextNonce, !.auto = auto, !.autoRemove = ar]
  <2>1. nonce + 1 \in Nonces \ {0}
    BY <1>0, <1>1 DEF ExchangeForRequest
  <2>2. r \in VRec
    BY <2>1, Blanks DEF VRec, Record, VerifierStates, Sensible, NextNonce
  <2>3. Request(t, NextNonce) \in Asked
    BY <2>1 DEF Request, Asked, On, NextNonce
  <2>4. /\ vrec' = [vrec EXCEPT ![i] = r] /\ nonce' = nonce + 1
        /\ threads' \subseteq Threads
    BY <1>1 DEF ExchangeForRequest, Types, TypeOK
  <2> HIDE DEF r
  <2> QED BY <1>1, <2>1, <2>2, <2>3, <2>4 DEF pvars, Types, TypeOK, VRec
<1>2. ASSUME NEW k \in VTasks, NEW m \in toVerifier, NEW i \in Ids, NEW ar \in Autos,
             ReceiveProposal(k, m, i, ar)
      PROVE  Types'
  <2> DEFINE r == Proposed(m, ar)
  <2>1. m \in Wished
    BY <1>2, Busy DEF ReceiveProposal
  <2>2. r \in VRec
    BY <2>1, Blanks DEF Proposed, Wished, On, VRec, Record, VerifierStates, Sensible
  <2>3. At("bind", i, r) \in VTask
    BY <2>2 DEF At, VTask, Task, VRec
  <2>4. /\ vrec' = [vrec EXCEPT ![i] = r]
        /\ vtask' \in {[vtask EXCEPT ![k] = At("bind", i, r)], [vtask EXCEPT ![k] = Idle]}
        /\ UNCHANGED <<pvars, nonce, toVerifier, toProver, threads>>
    BY <1>2 DEF ReceiveProposal, VSet
  <2> HIDE DEF r
  <2> QED BY <2>2, <2>3, <2>4 DEF pvars, Types, TypeOK, VRec, VTask
\* The steps that only set the task.
<1>3. ASSUME NEW k \in VTasks, NEW t \in {Idle} \cup VTask, VSet(k, t),
             UNCHANGED <<vrec, nonce, pvars, toVerifier, threads>>,
             toProver' \subseteq toProver \cup Told \cup Reported
      PROVE  Types'
  BY <1>3 DEF VSet, pvars, Types, TypeOK, VTask
<1>4. ASSUME NEW k \in VTasks, NEW i \in Ids, NEW auto \in Autos, NEW ar \in Autos,
             SendBoundRequest(k, i, auto, ar)
      PROVE  Types'
  <2>1. [vrec[i] EXCEPT !.auto = auto, !.autoRemove = ar] \in VRec
    BY <1>0 DEF VRec, Record, Sensible
  <2>2. At("bind", i, [vrec[i] EXCEPT !.auto = auto, !.autoRemove = ar]) \in VTask
    BY <2>1 DEF At, VTask, Task, VRec
  <2> QED BY <1>3, <1>4, <2>2 DEF SendBoundRequest
<1>5. ASSUME NEW k \in VTasks, CreateBoundRequest(k)
      PROVE  Types'
  <2>1. vtask[k] \in VTask /\ nonce + 1 \in Nonces \ {0}
    BY <1>0, <1>5, Busy DEF CreateBoundRequest
  <2>2. PICK i \in Ids, old \in VRec : i = vtask[k].id /\ old = vtask[k].rec
    BY <2>1 DEF VTask, Task, VRec
  <2>3. PICK r : r = [old EXCEPT !.state = "request_sent", !.req = NextNonce]
    OBVIOUS
  <2>4. r \in VRec
    BY <2>1, <2>3 DEF VRec, Record, VerifierStates, NextNonce
  <2>5. Request(r.thread, NextNonce) \in Asked
    BY <2>1, <2>4 DEF Request, Asked, On, NextNonce, VRec, Record
  <2>6. At("error", i, r) \in VTask
    BY <2>4 DEF At, VTask, Task, VRec
  <2>7. /\ vrec' \in {vrec, [vrec EXCEPT ![i] = r]} /\ nonce' = nonce + 1
        /\ vtask' \in {[vtask EXCEPT ![k] = At("error", i, r)], [vtask EXCEPT ![k] = Idle]}
        /\ toProver' \subseteq toProver \cup {Request(r.thread, NextNonce)}
        /\ UNCHANGED <<pvars, toVerifier, threads>>
    BY <1>5, <2>2, <2>3 DEF CreateBoundRequest, VSet, ToProver
  <2> QED BY <2>1, <2>4, <2>5, <2>6, <2>7 DEF pvars, Types, TypeOK, VRec, VTask
<1>6. ASSUME NEW k \in VTasks, NEW m \in toVerifier, NEW i \in Ids, ReceivePresentation(k, m, i)
      PROVE  Types'
  <2>1. m \in Sent
    BY <1>6, Busy DEF ReceivePresentation
  <2>2. PICK r : r = Received(vrec[i], m.proof)
    OBVIOUS
  <2>3. r \in VRec
    <3>1. PICK old \in VRec, p \in Proof : old = vrec[i] /\ p = m.proof
      BY <1>0, <2>1 DEF Sent
    <3>2. [old EXCEPT !.state = "abandoned"] \in VRec
      BY DEF VRec, Record, VerifierStates
    <3>3. [old EXCEPT !.state = "presentation_received", !.proof = p] \in VRec
      BY DEF VRec, Record, VerifierStates
    <3> QED BY <2>2, <3>1, <3>2, <3>3 DEF Received
  <2>4. SaveThen(i, r, "verify") \in VTask /\ SaveThen(i, r, "idle") \in VTask
    BY <2>3 DEF SaveThen, VTask, Task, VRec
  <2>5. VSet(k, SaveThen(i, r, "verify")) \/ VSet(k, SaveThen(i, r, "idle"))
    BY <1>6, <2>2 DEF ReceivePresentation
  <2> QED BY <1>3, <1>6, <2>4, <2>5 DEF ReceivePresentation
<1>7. ASSUME NEW k \in VTasks, VerifierSave(k)
      PROVE  Types'
  <2>1. vtask[k] \in VTask
    BY <1>7, Busy DEF VerifierSave
  <2>2. PICK i \in Ids, r \in VRec, n \in {"bind", "save", "verify", "ack", "remove", "error", "idle"} :
           i = vtask[k].id /\ r = vtask[k].rec /\ n = vtask[k].next
    BY <2>1 DEF VTask, Task, VRec
  <2>3. n # "idle" => At(n, i, r) \in VTask
    BY <2>2 DEF At, VTask, Task, VRec
  <2>4. /\ vrec' \in {vrec, [vrec EXCEPT ![i] = r]}
        /\ \/ vtask' = [vtask EXCEPT ![k] = Idle]
           \/ n # "idle" /\ vtask' = [vtask EXCEPT ![k] = At(n, i, r)]
        /\ UNCHANGED <<nonce, pvars, toVerifier, toProver, threads>>
    BY <1>7, <2>2 DEF VerifierSave, VSet
  <2> QED BY <2>2, <2>3, <2>4 DEF pvars, Types, TypeOK, VRec, VTask
<1>8. ASSUME NEW k \in VTasks, NEW i \in Ids, VerifyRoute(k, i) \/ VerifierReportRoute(k, i)
      PROVE  Types'
  <2>1. At("verify", i, vrec[i]) \in VTask /\ At("error", i, vrec[i]) \in VTask
    BY <1>0 DEF At, VTask, Task, VRec
  <2> QED BY <1>3, <1>8, <2>1 DEF VerifyRoute, VerifierReportRoute
<1>9. ASSUME NEW k \in VTasks, VerifyPresentation(k)
      PROVE  Types'
  <2>1. vtask[k] \in VTask
    BY <1>9, Busy DEF VerifyPresentation
  <2>2. PICK i \in Ids, old \in VRec : i = vtask[k].id /\ old = vtask[k].rec
    BY <2>1 DEF VTask, Task, VRec
  <2>3. PICK r : r = WithVerdict(old, vrec[i])
    OBVIOUS
  <2>4. r \in VRec
    BY <2>3 DEF WithVerdict, Verdict, VRec, Record, VerifierStates
  <2>5. At("ack", i, r) \in VTask /\ At("error", i, r) \in VTask
    BY <2>4 DEF At, VTask, Task, VRec
  <2>6. /\ vrec' \in {vrec, [vrec EXCEPT ![i] = r]}
        /\ vtask' \in {[vtask EXCEPT ![k] = At("ack", i, r)], [vtask EXCEPT ![k] = At("error", i, r)]}
        /\ UNCHANGED <<nonce, pvars, toVerifier, toProver, threads>>
    BY <1>9, <2>2, <2>3 DEF VerifyPresentation, VSet
  <2> QED BY <2>4, <2>5, <2>6 DEF pvars, Types, TypeOK, VRec, VTask
<1>10. ASSUME NEW k \in VTasks, NEW reachable \in BOOLEAN, SendPresentationAck(k, reachable)
       PROVE  Types'
  <2>1. vtask[k] \in VTask
    BY <1>10, Busy DEF SendPresentationAck
  <2>2. PICK t \in VTask : t = vtask[k]
    BY <2>1
  <2>3. [t EXCEPT !.pc = "remove"] \in VTask /\ Ack(t.rec.thread, t.rec.verified) \in Told
    BY DEF VTask, Task, Record, Ack, Told, On
  <2>4. /\ toProver' \subseteq toProver \cup {Ack(t.rec.thread, t.rec.verified)}
        /\ VSet(k, [t EXCEPT !.pc = "remove"]) \/ VSet(k, Idle)
    BY <1>10, <2>2 DEF SendPresentationAck, ToProver
  <2> QED BY <1>3, <1>10, <2>3, <2>4 DEF SendPresentationAck
<1>11. ASSUME NEW k \in VTasks, VerifierRemoveDone(k)
       PROVE  Types'
  BY <1>11, Blanks DEF VerifierRemoveDone, VSet, pvars, Types, TypeOK, VRec
<1>12. ASSUME NEW k \in VTasks, VerifierFails(k)
       PROVE  Types'
  <2>1. vtask[k] \in VTask
    BY <1>12, Busy DEF VerifierFails
  <2>2. [vtask[k] EXCEPT !.pc = "error"] \in VTask
    BY <2>1 DEF VTask, Task
  <2> QED BY <1>3, <1>12, <2>2 DEF VerifierFails
<1>13. ASSUME NEW k \in VTasks, VerifierReports(k)
       PROVE  Types'
  <2>1. vtask[k] \in VTask
    BY <1>13, Busy DEF VerifierReports
  <2>2. PICK i \in Ids, r \in VRec : i = vtask[k].id /\ r = vtask[k].rec
    BY <2>1 DEF VTask, Task, VRec
  <2>3. ErrorState(vrec[i], r) \in VRec /\ Problem(r.thread) \in Reported
    BY <1>0, <2>2 DEF ErrorState, Abandoned, Problem, Reported, On, VRec, Record, VerifierStates
  <2>4. /\ vrec' = [vrec EXCEPT ![i] = ErrorState(vrec[i], r)]
        /\ toProver' = toProver \cup {Problem(r.thread)} /\ vtask' = [vtask EXCEPT ![k] = Idle]
        /\ UNCHANGED <<nonce, pvars, toVerifier, threads>>
    BY <1>13, <2>2 DEF VerifierReports, VSet, ToProver
  <2> QED BY <2>3, <2>4 DEF pvars, Types, TypeOK, VRec
<1>14. ASSUME NEW k \in VTasks, NEW m \in toVerifier, NEW i \in Ids, VerifierReceiveProblem(k, m, i)
       PROVE  Types'
  <2>1. Abandoned(vrec[i]) \in VRec
    BY <1>0 DEF Abandoned, VRec, Record, VerifierStates
  <2>2. SaveThen(i, Abandoned(vrec[i]), "idle") \in VTask
    BY <2>1 DEF SaveThen, VTask, Task, VRec
  <2> QED BY <1>3, <1>14, <2>2 DEF VerifierReceiveProblem
<1>15. ASSUME NEW i \in Ids, VerifierRemove(i)
       PROVE  Types'
  BY <1>15, Blanks DEF VerifierRemove, pvars, Types, TypeOK, VRec
<1>16. ASSUME NEW i \in Ids, NEW t \in Threads, NEW auto \in Autos, NEW ar \in Autos, NEW h \in BOOLEAN,
              SendFreeRequest(i, t, auto, ar) \/ CreateRequest(i, t, auto, ar, h)
       PROVE  Types'
  BY <1>1, <1>16 DEF SendFreeRequest, CreateRequest, ToProver
<1> QED
  BY <1>2, <1>4, <1>5, <1>6, <1>7, <1>8, <1>9, <1>10, <1>11, <1>12, <1>13, <1>14, <1>15, <1>16
     DEF VerifierStep

LEMMA ProverTypes ==
    ASSUME Sensible, Types, ProverStep
    PROVE  Types'
<1>0. \A i \in Ids : prec[i] \in PRec
  BY DEF Types, TypeOK, PRec
\* The steps that only set the task, and those that save a record.
<1>1. ASSUME NEW k \in PTasks, NEW t \in {Idle} \cup PTask, PSet(k, t),
             UNCHANGED <<prec, vvars, toVerifier, toProver, threads>>
      PROVE  Types'
  BY <1>1 DEF PSet, vvars, Types, TypeOK, PTask
<1>2. ASSUME NEW k \in PTasks, NEW t \in {Idle} \cup PTask, PSet(k, t), NEW i \in Ids, NEW r \in PRec,
             prec' \in {prec, [prec EXCEPT ![i] = r]},
             toVerifier' \subseteq toVerifier \cup Sent \cup Reported,
             UNCHANGED <<vvars, toProver, threads>>
      PROVE  Types'
  BY <1>2 DEF PSet, vvars, Types, TypeOK, PTask, PRec
<1>3. ASSUME NEW i \in Ids, NEW t \in Threads, NEW auto \in Autos, NEW ar \in Autos,
             SendProposal(i, t, auto, ar)
      PROVE  Types'
  <2>1. ExchangeForProposal(t, auto, ar) \in PRec
    BY Blanks DEF ExchangeForProposal, PRec, Record, ProverStates, Sensible
  <2>2. Proposal(t) \in Wished
    BY DEF Proposal, Wished, On
  <2> QED BY <1>3, <2>1, <2>2 DEF SendProposal, ToVerifier, vvars, Types, TypeOK, PRec
<1>4. ASSUME NEW k \in PTasks, NEW m \in toProver, NEW i \in Ids, NEW ar \in Autos,
             ReceiveRequest(k, m, i, ar)
      PROVE  Types'
  <2>1. m \in Asked
    BY <1>4, Busy DEF ReceiveRequest
  <2>2. Unasked(m, ar) \in PRec
    BY <2>1, Blanks DEF Unasked, Asked, On, PRec, Record, Sensible
  <2>3. PICK old \in PRec : old = IF Live(prec[i]) THEN prec[i] ELSE Unasked(m, ar)
    BY <1>0, <2>2
  <2>4. PICK r : r = Taken(old, m)
    OBVIOUS
  <2>5. r \in PRec
    BY <2>1, <2>4 DEF Taken, Asked, PRec, Record, ProverStates
  <2>6. SaveThen(i, r, "present") \in PTask /\ SaveThen(i, r, "idle") \in PTask
    BY <2>5 DEF SaveThen, PTask, Task, PRec
  <2>7. PSet(k, SaveThen(i, r, "present")) \/ PSet(k, SaveThen(i, r, "idle"))
    BY <1>4, <2>3, <2>4 DEF ReceiveRequest
  <2> QED BY <1>1, <1>4, <2>6, <2>7 DEF ReceiveRequest
<1>5. ASSUME NEW k \in PTasks, ProverSave(k)
      PROVE  Types'
  <2>1. ptask[k] \in PTask
    BY <1>5, Busy DEF ProverSave
  <2>2. PICK i \in Ids, r \in PRec, n \in {"save", "present", "remove", "error", "idle"} :
           i = ptask[k].id /\ r = ptask[k].rec /\ n = ptask[k].next
    BY <2>1 DEF PTask, Task, PRec
  <2>3. n # "idle" => At(n, i, r) \in PTask
    BY <2>2 DEF At, PTask, Task, PRec
  <2>4. /\ prec' \in {prec, [prec EXCEPT ![i] = r]}
        /\ PSet(k, Idle) \/ (n # "idle" /\ PSet(k, At(n, i, r)))
        /\ UNCHANGED <<vvars, toVerifier, toProver, threads>>
    BY <1>5, <2>2 DEF ProverSave
  <2> QED BY <1>2, <2>2, <2>3, <2>4
<1>6. ASSUME NEW k \in PTasks, NEW i \in Ids, NEW ar \in Autos, SendPresentation(k, i, ar)
      PROVE  Types'
  <2>1. [prec[i] EXCEPT !.autoRemove = ar] \in PRec
    BY <1>0 DEF PRec, Record, Sensible
  <2>2. At("present", i, [prec[i] EXCEPT !.autoRemove = ar]) \in PTask
    BY <2>1 DEF At, PTask, Task, PRec
  <2> QED BY <1>1, <1>6, <2>2 DEF SendPresentation
<1>7. ASSUME NEW k \in PTasks, NothingToPresent(k)
      PROVE  Types'
  BY <1>1, <1>7 DEF NothingToPresent
<1>8. ASSUME NEW k \in PTasks, NEW sound \in BOOLEAN, NEW asProposed \in BOOLEAN,
             CreatePresentation(k, sound, asProposed)
      PROVE  Types'
  <2>1. ptask[k] \in PTask
    BY <1>8, Busy DEF CreatePresentation
  <2>2. PICK i \in Ids, old \in PRec : i = ptask[k].id /\ old = ptask[k].rec
    BY <2>1 DEF PTask, Task, PRec
  <2>3. PICK p, r : /\ p = [for |-> old.req, sound |-> sound, asProposed |-> asProposed]
                    /\ r = [old EXCEPT !.state = "presentation_sent", !.proof = p]
    OBVIOUS
  <2>4. p \in Proof
    BY <2>3 DEF Proof, PRec, Record
  <2>5. r \in PRec
    BY <2>3, <2>4 DEF PRec, Record, ProverStates
  <2>6. At("error", i, r) \in PTask /\ Presentation(r.thread, p) \in Sent
    BY <2>4, <2>5 DEF At, PTask, Task, PRec, Record, Presentation, Sent, On
  <2>7. /\ prec' \in {prec, [prec EXCEPT ![i] = r]}
        /\ PSet(k, Idle) \/ PSet(k, At("error", i, r))
        /\ toVerifier' \subseteq toVerifier \cup {Presentation(r.thread, p)}
        /\ UNCHANGED <<vvars, toProver, threads>>
    BY <1>8, <2>2, <2>3 DEF CreatePresentation, AnsweredRequest, ToVerifier
  <2> QED BY <1>2, <2>5, <2>6, <2>7
<1>9. ASSUME NEW k \in PTasks, NEW m \in toProver, NEW i \in Ids, ReceiveAck(k, m, i)
      PROVE  Types'
  <2>1. m \in Told
    BY <1>9, Busy DEF ReceiveAck
  <2>2. PICK r : r = Acked(prec[i], m)
    OBVIOUS
  <2>3. r \in PRec
    BY <1>0, <2>1, <2>2 DEF Acked, Told, PRec, Record, ProverStates
  <2>4. SaveThen(i, r, "remove") \in PTask /\ SaveThen(i, r, "idle") \in PTask
    BY <2>3 DEF SaveThen, PTask, Task, PRec
  <2>5. PSet(k, SaveThen(i, r, "remove")) \/ PSet(k, SaveThen(i, r, "idle"))
    BY <1>9, <2>2 DEF ReceiveAck
  <2> QED BY <1>1, <1>9, <2>4, <2>5 DEF ReceiveAck
<1>10. ASSUME NEW k \in PTasks, ProverRemoveDone(k)
       PROVE  Types'
  <2>1. ptask[k].id \in Ids
    BY <1>10, Busy DEF ProverRemoveDone, PTask, Task
  <2> QED BY <1>2, <1>10, <2>1, Blanks DEF ProverRemoveDone
<1>11. ASSUME NEW k \in PTasks, NEW i \in Ids, FetchCredentials(k, i)
       PROVE  Types'
  <2>1. At("error", i, prec[i]) \in PTask
    BY <1>0 DEF At, PTask, Task, PRec
  <2> QED BY <1>1, <1>11, <2>1 DEF FetchCredentials
<1>12. ASSUME NEW k \in PTasks, ProverFails(k)
       PROVE  Types'
  <2>1. [ptask[k] EXCEPT !.pc = "error"] \in PTask
    BY <1>12, Busy DEF ProverFails, PTask, Task
  <2> QED BY <1>1, <1>12, <2>1 DEF ProverFails
<1>13. ASSUME NEW k \in PTasks, ProverReports(k)
       PROVE  Types'
  <2>1. ptask[k] \in PTask
    BY <1>13, Busy DEF ProverReports
  <2>2. PICK i \in Ids, r \in PRec : i = ptask[k].id /\ r = ptask[k].rec
    BY <2>1 DEF PTask, Task, PRec
  <2>3. ErrorState(prec[i], r) \in PRec /\ Problem(r.thread) \in Reported
    BY <1>0, <2>2 DEF ErrorState, Abandoned, Problem, Reported, On, PRec, Record, ProverStates
  <2>4. /\ prec' = [prec EXCEPT ![i] = ErrorState(prec[i], r)]
        /\ toVerifier' = toVerifier \cup {Problem(r.thread)} /\ PSet(k, Idle)
        /\ UNCHANGED <<vvars, toProver, threads>>
    BY <1>13, <2>2 DEF ProverReports, ToVerifier
  <2> QED BY <1>2, <2>3, <2>4
<1>14. ASSUME NEW k \in PTasks, NEW m \in toProver, NEW i \in Ids, ProverReceiveProblem(k, m, i)
       PROVE  Types'
  <2>1. Abandoned(prec[i]) \in PRec
    BY <1>0 DEF Abandoned, PRec, Record, ProverStates
  <2>2. SaveThen(i, Abandoned(prec[i]), "idle") \in PTask
    BY <2>1 DEF SaveThen, PTask, Task, PRec
  <2> QED BY <1>1, <1>14, <2>2 DEF ProverReceiveProblem
<1> QED
  BY <1>3, <1>4, <1>5, <1>6, <1>7, <1>8, <1>9, <1>10, <1>11, <1>12, <1>13, <1>14 DEF ProverStep

-----------------------------------------------------------------------------
(***************************************************************************)
(* What was sent stays, so what was true of a copy stays true of it.       *)
(***************************************************************************)
LEMMA MessagesStay ==
    ASSUME Next
    PROVE  toVerifier \subseteq toVerifier' /\ toProver \subseteq toProver'
<1> USE DEF ToVerifier, ToProver
<1> DEFINE Stay == toVerifier \subseteq toVerifier' /\ toProver \subseteq toProver'
<1>1. ASSUME NEW i \in Ids, NEW t \in Threads, NEW auto, NEW ar,
             \/ SendFreeRequest(i, t, auto, ar)
             \/ \E h \in BOOLEAN : CreateRequest(i, t, auto, ar, h)
             \/ SendProposal(i, t, auto, ar)
      PROVE  Stay
  BY <1>1 DEF SendFreeRequest, CreateRequest, SendProposal
<1>2. ASSUME NEW k, NEW i \in Ids, NEW auto, NEW ar,
             \/ SendBoundRequest(k, i, auto, ar) \/ VerifyRoute(k, i)
             \/ VerifierReportRoute(k, i) \/ VerifierRemove(i)
             \/ FetchCredentials(k, i) \/ SendPresentation(k, i, ar)
      PROVE  Stay
  BY <1>2 DEF SendBoundRequest, VerifyRoute, VerifierReportRoute, VerifierRemove,
     FetchCredentials, SendPresentation
<1>3. ASSUME NEW k, NEW m, NEW i \in Ids, NEW ar,
             \/ ReceiveProposal(k, m, i, ar) \/ ReceivePresentation(k, m, i)
             \/ VerifierReceiveProblem(k, m, i)
             \/ ReceiveRequest(k, m, i, ar) \/ ReceiveAck(k, m, i) \/ ProverReceiveProblem(k, m, i)
      PROVE  Stay
  BY <1>3 DEF ReceiveProposal, ReceivePresentation, VerifierReceiveProblem,
     ReceiveRequest, ReceiveAck, ProverReceiveProblem
<1>4. ASSUME NEW k,
             \/ CreateBoundRequest(k) \/ VerifierSave(k) \/ VerifyPresentation(k)
             \/ VerifierRemoveDone(k) \/ VerifierFails(k) \/ VerifierReports(k)
             \/ \E reachable \in BOOLEAN : SendPresentationAck(k, reachable)
      PROVE  Stay
  BY <1>4 DEF CreateBoundRequest, VerifierSave, VerifyPresentation, VerifierRemoveDone,
     VerifierFails, VerifierReports, SendPresentationAck
<1>5. ASSUME NEW k,
             \/ ProverSave(k) \/ NothingToPresent(k) \/ ProverRemoveDone(k)
             \/ ProverFails(k) \/ ProverReports(k)
             \/ \E sound, asProposed \in BOOLEAN : CreatePresentation(k, sound, asProposed)
      PROVE  Stay
  BY <1>5 DEF ProverSave, NothingToPresent, ProverRemoveDone, ProverFails, ProverReports,
     CreatePresentation
<1>6. CASE VerifierStep
  BY <1>1, <1>2, <1>3, <1>4, <1>6 DEF VerifierStep
<1>7. CASE ProverStep
  BY <1>1, <1>2, <1>3, <1>5, <1>7 DEF ProverStep
<1> QED BY <1>6, <1>7 DEF Next

LEMMA GoodStays ==
    ASSUME NEW V, NEW P, NEW V2, NEW P2, V \subseteq V2, P \subseteq P2, NEW x
    PROVE  /\ VGood(x, V) => VGood(x, V2)
           /\ VTaskGood(x, V) => VTaskGood(x, V2)
           /\ PGood(x, V, P) => PGood(x, V2, P2)
           /\ PTaskGood(x, V, P) => PTaskGood(x, V2, P2)
           /\ SentGood(x, P) => SentGood(x, P2)
           /\ ToldGood(x, V, P) => ToldGood(x, V2, P2)
<1>1. \A t : Proved(t, V, P) => Proved(t, V2, P2)
  BY DEF Proved, Answers
<1> QED BY <1>1 DEF VGood, VTaskGood, PGood, PTaskGood, SentGood, ToldGood, Answers

\* The same for a step: each record, task and message it leaves is an old one or
\* right by itself.
LEMMA VerifierKeeps ==
    ASSUME VerifierInv, Next,
           \A i \in Ids : vrec'[i] = vrec[i] \/ VGood(vrec'[i], toVerifier'),
           \A k \in VTasks : \/ vtask'[k] \in {vtask[k], Idle}
                             \/ VTaskGood(vtask'[k], toVerifier')
    PROVE  VerifierInv'
<1>1. \A x : /\ VGood(x, toVerifier) => VGood(x, toVerifier')
             /\ VTaskGood(x, toVerifier) => VTaskGood(x, toVerifier')
  BY MessagesStay, GoodStays
<1>2. \A i \in Ids : VGood(vrec'[i], toVerifier')
  BY <1>1 DEF VerifierInv
<1>3. \A k \in VTasks : vtask'[k] # Idle => VTaskGood(vtask'[k], toVerifier')
  BY <1>1 DEF VerifierInv
<1> QED BY <1>2, <1>3 DEF VerifierInv

LEMMA ProverKeeps ==
    ASSUME ProverInv, Next,
           \A i \in Ids : prec'[i] = prec[i] \/ PGood(prec'[i], toVerifier', toProver'),
           \A k \in PTasks : \/ ptask'[k] \in {ptask[k], Idle}
                             \/ PTaskGood(ptask'[k], toVerifier', toProver')
    PROVE  ProverInv'
<1>1. \A x : /\ PGood(x, toVerifier, toProver) => PGood(x, toVerifier', toProver')
             /\ PTaskGood(x, toVerifier, toProver) => PTaskGood(x, toVerifier', toProver')
  BY MessagesStay, GoodStays
<1>2. \A i \in Ids : PGood(prec'[i], toVerifier', toProver')
  BY <1>1 DEF ProverInv
<1>3. \A k \in PTasks : ptask'[k] # Idle => PTaskGood(ptask'[k], toVerifier', toProver')
  BY <1>1 DEF ProverInv
<1> QED BY <1>2, <1>3 DEF ProverInv

LEMMA MessagesKeep ==
    ASSUME MessageInv, Next,
           \A m \in toVerifier' : m \in toVerifier \/ SentGood(m, toProver'),
           \A m \in toProver' : m \in toProver \/ ToldGood(m, toVerifier', toProver')
    PROVE  MessageInv'
<1>1. \A m : /\ SentGood(m, toProver) => SentGood(m, toProver')
             /\ ToldGood(m, toVerifier, toProver) => ToldGood(m, toVerifier', toProver')
  BY MessagesStay, GoodStays
<1>2. \A m \in toVerifier' : SentGood(m, toProver')
  BY <1>1 DEF MessageInv
<1>3. \A m \in toProver' : ToldGood(m, toVerifier', toProver')
  BY <1>1 DEF MessageInv
<1> QED BY <1>2, <1>3 DEF MessageInv

-----------------------------------------------------------------------------
(***************************************************************************)
(* The verifier: its steps leave what is right, and send only right acks.  *)
(***************************************************************************)
LEMMA VerifierStepInv ==
    ASSUME Sensible, ProofInv, VerifierStep
    PROVE  (VerifierInv /\ ProverInv /\ MessageInv)'
<1> DEFINE Recs  == \A j \in Ids : vrec'[j] = vrec[j] \/ VGood(vrec'[j], toVerifier')
           Tasks == \A l \in VTasks : \/ vtask'[l] \in {vtask[l], Idle}
                                      \/ VTaskGood(vtask'[l], toVerifier')
           Acks  == \A m \in toProver' : m \in toProver \/ ToldGood(m, toVerifier', toProver')
<1>0. /\ Types /\ VerifierInv /\ ProverInv /\ MessageInv /\ Next
      /\ \A i \in Ids : vrec[i] \in VRec /\ VGood(vrec[i], toVerifier)
      /\ \A k \in VTasks : vtask[k].pc # "idle" =>
            /\ vtask[k] \in VTask /\ vtask[k].rec \in VRec /\ vtask[k].id \in Ids
            /\ VTaskGood(vtask[k], toVerifier) /\ VGood(vtask[k].rec, toVerifier)
  <2>1. Types /\ VerifierInv /\ ProverInv /\ MessageInv /\ Next
    BY DEF ProofInv, Next
  <2>2. \A k \in VTasks : vtask[k].pc # "idle" => vtask[k] \in VTask /\ vtask[k] # Idle
    BY <2>1, Busy
  <2>3. \A t \in VTask : t.rec \in VRec /\ t.id \in Ids
    BY DEF VTask, Task, VRec
  <2>4. \A t : VTaskGood(t, toVerifier) => VGood(t.rec, toVerifier)
    BY DEF VTaskGood
  <2> QED BY <2>1, <2>2, <2>3, <2>4 DEF VerifierInv, Types, TypeOK, VRec
<1>1. ASSUME NEW k \in VTasks, NEW t, VSet(k, t), t = Idle \/ VTaskGood(t, toVerifier)
      PROVE  Tasks
  <2>1. VTaskGood(t, toVerifier) => VTaskGood(t, toVerifier')
    BY <1>0, MessagesStay, GoodStays
  <2> QED BY <1>0, <1>1, <2>1 DEF VSet, Types
<1>2. ASSUME NEW i \in Ids, NEW r, VGood(r, toVerifier),
             vrec' = vrec \/ vrec' = [vrec EXCEPT ![i] = r]
      PROVE  Recs
  <2>1. VGood(r, toVerifier')
    BY <1>0, <1>2, MessagesStay, GoodStays
  <2> QED BY <1>0, <1>2, <2>1 DEF Types, TypeOK
<1>3. /\ UNCHANGED vrec => Recs
      /\ UNCHANGED vtask => Tasks
      /\ UNCHANGED toProver => Acks
      /\ \A m : m.type # "ack" /\ toProver' = toProver \cup {m} => Acks
  BY DEF ToldGood
<1>4. ASSUME NEW r, NEW s, VGood(r, toVerifier), s.state # "verified", s.proof = r.proof,
             s.thread = r.thread
      PROVE  VGood(s, toVerifier)
  BY <1>4 DEF VGood
<1>5. VGood(Blank, toVerifier) /\ VGood(Gone, toVerifier)
  BY DEF VGood, Blank, Gone, NoProof
<1>6. ASSUME Recs, Tasks, Acks, UNCHANGED <<pvars, toVerifier>>
      PROVE  (VerifierInv /\ ProverInv /\ MessageInv)'
  <2>1. VerifierInv'
    BY <1>0, <1>6, VerifierKeeps
  <2>2. ProverInv'
    BY <1>0, <1>6, ProverKeeps DEF pvars
  <2>3. MessageInv'
    BY <1>0, <1>6, MessagesKeep
  <2> QED BY <2>1, <2>2, <2>3
<1> HIDE DEF Recs, Tasks, Acks
<1>7. ASSUME NEW i \in Ids, NEW t \in Threads, NEW auto \in Autos, NEW ar \in Autos,
             ExchangeForRequest(i, t, auto, ar), UNCHANGED <<vtask, pvars, toVerifier>>,
             toProver' \in {toProver, toProver \cup {Request(t, NextNonce)}}
      PROVE  (VerifierInv /\ ProverInv /\ MessageInv)'
  <2> DEFINE r == [Blank EXCEPT !.state = "request_sent", !.thread = t,
                     !.req = NextNonce, !.auto = auto, !.autoRemove = ar]
  <2>1. VGood(r, toVerifier)
    BY DEF VGood, Blank, NoProof
  <2>2. vrec' = [vrec EXCEPT ![i] = r]
    BY <1>7 DEF ExchangeForRequest
  <2> HIDE DEF r
  <2>3. Request(t, NextNonce).type # "ack"
    BY DEF Request
  <2> QED BY <1>2, <1>3, <1>6, <1>7, <2>1, <2>2, <2>3
<1>8. ASSUME NEW k \in VTasks, NEW m \in toVerifier, NEW i \in Ids, NEW ar \in Autos,
             ReceiveProposal(k, m, i, ar)
      PROVE  (VerifierInv /\ ProverInv /\ MessageInv)'
  <2>1. VGood(Proposed(m, ar), toVerifier)
    BY DEF VGood, Proposed, Blank, NoProof
  <2>2. VTaskGood(At("bind", i, Proposed(m, ar)), toVerifier)
    BY <2>1 DEF VTaskGood, At
  <2> QED BY <1>1, <1>2, <1>3, <1>6, <1>8, <2>1, <2>2 DEF ReceiveProposal
<1>9. ASSUME NEW k \in VTasks, NEW i \in Ids, NEW auto \in Autos, NEW ar \in Autos,
             SendBoundRequest(k, i, auto, ar)
      PROVE  (VerifierInv /\ ProverInv /\ MessageInv)'
  <2> DEFINE r == [vrec[i] EXCEPT !.auto = auto, !.autoRemove = ar]
  <2>1. r.state = "proposal_received" /\ r.proof = vrec[i].proof /\ r.thread = vrec[i].thread
    BY <1>0, <1>9 DEF SendBoundRequest, VRec, Record
  <2>2. VSet(k, At("bind", i, r)) /\ UNCHANGED <<vrec, pvars, toVerifier, toProver>>
    BY <1>9 DEF SendBoundRequest
  <2> HIDE DEF r
  <2>3. VGood(r, toVerifier)
    BY <1>0, <1>4, <2>1
  <2>4. VTaskGood(At("bind", i, r), toVerifier)
    BY <2>3 DEF VTaskGood, At
  <2> QED BY <1>1, <1>3, <1>6, <2>2, <2>4
<1>10. ASSUME NEW k \in VTasks, CreateBoundRequest(k)
       PROVE  (VerifierInv /\ ProverInv /\ MessageInv)'
  <2>1. PICK i \in Ids, old \in VRec : i = vtask[k].id /\ old = vtask[k].rec /\ VGood(old, toVerifier)
    BY <1>0, <1>10 DEF CreateBoundRequest
  <2>2. PICK r : r = [old EXCEPT !.state = "request_sent", !.req = NextNonce]
    OBVIOUS
  <2>3. r.state = "request_sent" /\ r.proof = old.proof /\ r.thread = old.thread
    BY <2>2 DEF VRec, Record
  <2>4. VGood(r, toVerifier)
    BY <1>4, <2>1, <2>3
  <2>5. VTaskGood(At("error", i, r), toVerifier)
    BY <2>4 DEF VTaskGood, At
  <2>6. /\ vrec' \in {vrec, [vrec EXCEPT ![i] = r]}
        /\ VSet(k, Idle) \/ VSet(k, At("error", i, r))
        /\ toProver' \in {toProver, toProver \cup {Request(r.thread, NextNonce)}}
        /\ UNCHANGED <<pvars, toVerifier>>
    BY <1>10, <2>1, <2>2 DEF CreateBoundRequest, ToProver
  <2>7. Request(r.thread, NextNonce).type # "ack"
    BY DEF Request
  <2> QED BY <1>1, <1>2, <1>3, <1>6, <2>4, <2>5, <2>6, <2>7
<1>11. ASSUME NEW k \in VTasks, NEW m \in toVerifier, NEW i \in Ids, ReceivePresentation(k, m, i)
       PROVE  (VerifierInv /\ ProverInv /\ MessageInv)'
  <2>1. m \in Sent /\ m.thread = vrec[i].thread
    BY <1>0, <1>11, Busy DEF ReceivePresentation, Matching
  <2>2. Presentation(m.thread, m.proof) = m
    BY <2>1 DEF Presentation, Sent
  <2>3. PICK r : r = Received(vrec[i], m.proof)
    OBVIOUS
  <2>4. /\ r.state \in {"abandoned", "presentation_received"} /\ r.thread = vrec[i].thread
        /\ r.proof = vrec[i].proof \/ r.proof = m.proof
    BY <1>0, <2>3 DEF Received, VRec, Record
  <2>5. VGood(r, toVerifier)
    BY <1>0, <2>1, <2>2, <2>4 DEF VGood
  <2>6. VTaskGood(SaveThen(i, r, "verify"), toVerifier) /\ VTaskGood(SaveThen(i, r, "idle"), toVerifier)
    BY <2>5 DEF VTaskGood, SaveThen
  <2>7. /\ VSet(k, SaveThen(i, r, "verify")) \/ VSet(k, SaveThen(i, r, "idle"))
        /\ UNCHANGED <<vrec, pvars, toVerifier, toProver>>
    BY <1>11, <2>3 DEF ReceivePresentation
  <2> QED BY <1>1, <1>3, <1>6, <2>6, <2>7
<1>12. ASSUME NEW k \in VTasks, VerifierSave(k)
       PROVE  (VerifierInv /\ ProverInv /\ MessageInv)'
  <2>a. PICK n : n = vtask[k].next
    OBVIOUS
  <2>1. PICK i \in Ids, r \in VRec : /\ i = vtask[k].id /\ r = vtask[k].rec
                                     /\ n # "ack" /\ VGood(r, toVerifier)
    BY <1>0, <1>12, <2>a DEF VerifierSave, VTaskGood
  <2>2. VTaskGood(At(n, i, r), toVerifier)
    BY <2>1 DEF VTaskGood, At
  <2>3. /\ vrec' \in {vrec, [vrec EXCEPT ![i] = r]}
        /\ VSet(k, Idle) \/ VSet(k, At(n, i, r))
        /\ UNCHANGED <<pvars, toVerifier, toProver>>
    BY <1>12, <2>a, <2>1 DEF VerifierSave
  <2> QED BY <1>1, <1>2, <1>3, <1>6, <2>1, <2>2, <2>3
<1>13. ASSUME NEW k \in VTasks, NEW i \in Ids, VerifyRoute(k, i) \/ VerifierReportRoute(k, i)
       PROVE  (VerifierInv /\ ProverInv /\ MessageInv)'
  <2>1. VTaskGood(At("verify", i, vrec[i]), toVerifier) /\ VTaskGood(At("error", i, vrec[i]), toVerifier)
    BY <1>0 DEF VTaskGood, At
  <2> QED BY <1>1, <1>3, <1>6, <1>13, <2>1 DEF VerifyRoute, VerifierReportRoute
<1>14. ASSUME NEW k \in VTasks, VerifyPresentation(k)
       PROVE  (VerifierInv /\ ProverInv /\ MessageInv)'
  <2>1. PICK i \in Ids, old \in VRec : i = vtask[k].id /\ old = vtask[k].rec /\ VGood(old, toVerifier)
    BY <1>0, <1>14 DEF VerifyPresentation
  <2>2. PICK r : r = WithVerdict(old, vrec[i])
    OBVIOUS
  <2>3. /\ r.state = "verified" /\ r.proof = old.proof /\ r.thread = old.thread
        /\ r.req = old.req /\ r.verified = Verdict(old.proof, old.req)
    BY <2>2 DEF WithVerdict, VRec, Record
  <2>4. VGood(r, toVerifier)
    BY <2>1, <2>3 DEF VGood
  <2>5. VTaskGood(At("ack", i, r), toVerifier) /\ VTaskGood(At("error", i, r), toVerifier)
    BY <2>3, <2>4 DEF VTaskGood, At
  <2>6. /\ vrec' \in {vrec, [vrec EXCEPT ![i] = r]}
        /\ VSet(k, At("ack", i, r)) \/ VSet(k, At("error", i, r))
        /\ UNCHANGED <<pvars, toVerifier, toProver>>
    BY <1>14, <2>1, <2>2 DEF VerifyPresentation
  <2> QED BY <1>1, <1>2, <1>3, <1>6, <2>4, <2>5, <2>6
<1>15. ASSUME NEW k \in VTasks, NEW reachable \in BOOLEAN, SendPresentationAck(k, reachable)
       PROVE  (VerifierInv /\ ProverInv /\ MessageInv)'
  <2>1. PICK t \in VTask : t = vtask[k] /\ VTaskGood(t, toVerifier) /\ t.pc = "ack"
    BY <1>0, <1>15 DEF SendPresentationAck
  <2>2. PICK r \in VRec : r = t.rec /\ VGood(r, toVerifier) /\ r.state = "verified"
    BY <2>1 DEF VTaskGood, VTask, Task, VRec
  <2>3. PICK a : a = Ack(r.thread, r.verified)
    OBVIOUS
  <2>4. ASSUME r.verified = "true"
        PROVE  Proved(r.thread, toVerifier, toProver)
    <3>1. r.proof.sound
      BY <2>2, <2>4 DEF VGood, Verdict, Proves
    <3>2. PICK m \in toVerifier : m = Presentation(r.thread, r.proof)
      BY <2>2, <3>1 DEF VGood
    <3>3. SentGood(m, toProver)
      BY <1>0 DEF MessageInv
    <3> QED BY <3>1, <3>2, <3>3 DEF Presentation, SentGood, Proved
  <2>5. ToldGood(a, toVerifier, toProver)
    BY <2>3, <2>4 DEF ToldGood, Ack
  <2>6. VTaskGood([t EXCEPT !.pc = "remove"], toVerifier)
    BY <2>1 DEF VTaskGood, VTask, Task
  <2>7. /\ toProver' \in {toProver, toProver \cup {a}}
        /\ VSet(k, [t EXCEPT !.pc = "remove"]) \/ VSet(k, Idle)
        /\ UNCHANGED <<vrec, pvars, toVerifier>>
    BY <1>15, <2>1, <2>2, <2>3 DEF SendPresentationAck, ToProver
  <2>8. ToldGood(a, toVerifier', toProver')
    BY <1>0, <2>5, MessagesStay, GoodStays
  <2>9. Acks
    BY <2>7, <2>8 DEF Acks
  <2> QED BY <1>1, <1>3, <1>6, <2>6, <2>7, <2>9
<1>16. ASSUME NEW k \in VTasks, VerifierRemoveDone(k)
       PROVE  (VerifierInv /\ ProverInv /\ MessageInv)'
  BY <1>0, <1>1, <1>2, <1>3, <1>5, <1>6, <1>16 DEF VerifierRemoveDone
<1>17. ASSUME NEW k \in VTasks, VerifierFails(k)
       PROVE  (VerifierInv /\ ProverInv /\ MessageInv)'
  <2>1. PICK t \in VTask : t = vtask[k] /\ VTaskGood(t, toVerifier)
    BY <1>0, <1>17 DEF VerifierFails
  <2>2. VTaskGood([t EXCEPT !.pc = "error"], toVerifier)
    BY <2>1 DEF VTaskGood, VTask, Task
  <2> QED BY <1>1, <1>3, <1>6, <1>17, <2>1, <2>2 DEF VerifierFails
<1>18. ASSUME NEW k \in VTasks, VerifierReports(k)
       PROVE  (VerifierInv /\ ProverInv /\ MessageInv)'
  <2>1. PICK i \in Ids, r \in VRec : i = vtask[k].id /\ r = vtask[k].rec /\ VGood(r, toVerifier)
    BY <1>0, <1>18 DEF VerifierReports
  <2>2. /\ Abandoned(r).state = "abandoned" /\ Abandoned(r).proof = r.proof
        /\ Abandoned(r).thread = r.thread
    BY DEF Abandoned, VRec, Record
  <2>3. VGood(ErrorState(vrec[i], r), toVerifier)
    BY <1>0, <1>4, <2>1, <2>2 DEF ErrorState
  <2>4. /\ vrec' = [vrec EXCEPT ![i] = ErrorState(vrec[i], r)]
        /\ toProver' = toProver \cup {Problem(r.thread)} /\ VSet(k, Idle)
        /\ UNCHANGED <<pvars, toVerifier>>
    BY <1>18, <2>1 DEF VerifierReports, ToProver
  <2>5. Problem(r.thread).type # "ack"
    BY DEF Problem
  <2> QED BY <1>1, <1>2, <1>3, <1>6, <2>3, <2>4, <2>5
<1>19. ASSUME NEW k \in VTasks, NEW m \in toVerifier, NEW i \in Ids, VerifierReceiveProblem(k, m, i)
       PROVE  (VerifierInv /\ ProverInv /\ MessageInv)'
  <2>1. /\ Abandoned(vrec[i]).state = "abandoned" /\ Abandoned(vrec[i]).proof = vrec[i].proof
        /\ Abandoned(vrec[i]).thread = vrec[i].thread
    BY <1>0 DEF Abandoned, VRec, Record
  <2>2. VTaskGood(SaveThen(i, Abandoned(vrec[i]), "idle"), toVerifier)
    BY <1>0, <1>4, <2>1 DEF VTaskGood, SaveThen
  <2> QED BY <1>1, <1>3, <1>6, <1>19, <2>2 DEF VerifierReceiveProblem
<1>20. ASSUME NEW i \in Ids, VerifierRemove(i)
       PROVE  (VerifierInv /\ ProverInv /\ MessageInv)'
  BY <1>2, <1>3, <1>5, <1>6, <1>20 DEF VerifierRemove
<1>21. ASSUME NEW i \in Ids, NEW t \in Threads, NEW auto \in Autos, NEW ar \in Autos, NEW h \in BOOLEAN,
              SendFreeRequest(i, t, auto, ar) \/ CreateRequest(i, t, auto, ar, h)
       PROVE  (VerifierInv /\ ProverInv /\ MessageInv)'
  BY <1>7, <1>21 DEF SendFreeRequest, CreateRequest, ToProver
<1> QED
  BY <1>8, <1>9, <1>10, <1>11, <1>12, <1>13, <1>14, <1>15, <1>16, <1>17, <1>18, <1>19, <1>20, <1>21
     DEF VerifierStep

-----------------------------------------------------------------------------
(***************************************************************************)
(* The prover: it answers the request of its copy, and believes only acks. *)
(***************************************************************************)
LEMMA ProverStepInv ==
    ASSUME Sensible, ProofInv, ProverStep
    PROVE  (VerifierInv /\ ProverInv /\ MessageInv)'
<1> DEFINE Recs  == \A j \in Ids : prec'[j] = prec[j] \/ PGood(prec'[j], toVerifier', toProver')
           Tasks == \A l \in PTasks : \/ ptask'[l] \in {ptask[l], Idle}
                                      \/ PTaskGood(ptask'[l], toVerifier', toProver')
           Said  == \A m \in toVerifier' : m \in toVerifier \/ SentGood(m, toProver')
           Right(r) == PGood(r, toVerifier, toProver)
           TaskRight(t) == PTaskGood(t, toVerifier, toProver)
<1>0. /\ Types /\ VerifierInv /\ ProverInv /\ MessageInv /\ Next
      /\ \A i \in Ids : prec[i] \in PRec /\ Right(prec[i])
      /\ \A k \in PTasks : ptask[k].pc # "idle" =>
            /\ ptask[k] \in PTask /\ ptask[k].rec \in PRec /\ ptask[k].id \in Ids
            /\ TaskRight(ptask[k]) /\ Right(ptask[k].rec)
  <2>1. Types /\ VerifierInv /\ ProverInv /\ MessageInv /\ Next
    BY DEF ProofInv, Next
  <2>2. \A k \in PTasks : ptask[k].pc # "idle" => ptask[k] \in PTask /\ ptask[k] # Idle
    BY <2>1, Busy
  <2>3. \A t \in PTask : t.rec \in PRec /\ t.id \in Ids
    BY DEF PTask, Task, PRec
  <2>4. \A t : TaskRight(t) => Right(t.rec)
    BY DEF PTaskGood
  <2> QED BY <2>1, <2>2, <2>3, <2>4 DEF ProverInv, Types, TypeOK, PRec
<1>1. ASSUME NEW k \in PTasks, NEW t, PSet(k, t), t = Idle \/ TaskRight(t)
      PROVE  Tasks
  <2>1. TaskRight(t) => PTaskGood(t, toVerifier', toProver')
    BY <1>0, MessagesStay, GoodStays
  <2> QED BY <1>0, <1>1, <2>1 DEF PSet, Types
<1>2. ASSUME NEW i \in Ids, NEW r, Right(r), prec' = prec \/ prec' = [prec EXCEPT ![i] = r]
      PROVE  Recs
  <2>1. PGood(r, toVerifier', toProver')
    BY <1>0, <1>2, MessagesStay, GoodStays
  <2> QED BY <1>0, <1>2, <2>1 DEF Types, TypeOK
<1>3. /\ UNCHANGED prec => Recs
      /\ UNCHANGED ptask => Tasks
      /\ UNCHANGED toVerifier => Said
      /\ \A m : m.type # "presentation" /\ toVerifier' = toVerifier \cup {m} => Said
  BY DEF SentGood
\* A copy that leaves the states in which it says something of a request.
<1>4. ASSUME NEW r, NEW s, Right(r), s.state \notin {"request_received", "presentation_sent"},
             s.req = r.req, s.thread = r.thread, s.verified = r.verified
      PROVE  Right(s)
  BY <1>4 DEF PGood
<1>5. Right(Blank) /\ Right(Gone)
  BY DEF PGood, Blank, Gone
<1>6. ASSUME Recs, Tasks, Said, UNCHANGED <<vvars, toProver>>
      PROVE  (VerifierInv /\ ProverInv /\ MessageInv)'
  <2>1. ProverInv'
    BY <1>0, <1>6, ProverKeeps
  <2>2. VerifierInv'
    BY <1>0, <1>6, VerifierKeeps DEF vvars
  <2>3. MessageInv'
    BY <1>0, <1>6, MessagesKeep
  <2> QED BY <2>1, <2>2, <2>3
<1> HIDE DEF Recs, Tasks, Said, Right, TaskRight
<1>7. ASSUME NEW i \in Ids, NEW t \in Threads, NEW auto \in Autos, NEW ar \in Autos,
             SendProposal(i, t, auto, ar)
      PROVE  (VerifierInv /\ ProverInv /\ MessageInv)'
  <2>1. Right(ExchangeForProposal(t, auto, ar))
    BY DEF Right, PGood, ExchangeForProposal, Blank
  <2>2. Proposal(t).type # "presentation"
    BY DEF Proposal
  <2> QED BY <1>2, <1>3, <1>6, <1>7, <2>1, <2>2 DEF SendProposal, ToVerifier
<1>8. ASSUME NEW k \in PTasks, NEW m \in toProver, NEW i \in Ids, NEW ar \in Autos,
             ReceiveRequest(k, m, i, ar)
      PROVE  (VerifierInv /\ ProverInv /\ MessageInv)'
  <2>1. m \in Asked
    BY <1>0, <1>8, Busy DEF ReceiveRequest
  <2>2. Unasked(m, ar) \in PRec
    BY <2>1, Blanks DEF Unasked, Asked, On, PRec, Record, Sensible
  <2>3. Right(Unasked(m, ar)) /\ Unasked(m, ar).thread = m.thread
    BY DEF Right, PGood, Unasked, Blank
  <2>4. PICK old \in PRec : /\ old = IF Live(prec[i]) THEN prec[i] ELSE Unasked(m, ar)
                            /\ Right(old) /\ old.thread = m.thread
    <3>1. CASE Live(prec[i])
      <4>1. prec[i].thread = m.thread
        BY <1>8, <3>1 DEF ReceiveRequest, Matching, FreeIds, Live, Unused
      <4> QED BY <1>0, <3>1, <4>1
    <3>2. CASE ~Live(prec[i])
      BY <2>2, <2>3, <3>2
    <3> QED BY <3>1, <3>2
  <2>5. PICK r : r = Taken(old, m)
    OBVIOUS
  <2>6. /\ r.state = "request_received" /\ r.req = m.req /\ m.req # 0
        /\ r.thread = m.thread /\ r.verified = old.verified
    BY <2>1, <2>4, <2>5 DEF Taken, Asked, PRec, Record
  <2>7. Request(m.thread, m.req) = m
    BY <2>1 DEF Request, Asked
  <2>8. Right(r)
    BY <2>4, <2>6, <2>7 DEF Right, PGood
  <2>9. TaskRight(SaveThen(i, r, "present")) /\ TaskRight(SaveThen(i, r, "idle"))
    BY <2>6, <2>8 DEF Right, TaskRight, PTaskGood, SaveThen
  <2>10. /\ PSet(k, SaveThen(i, r, "present")) \/ PSet(k, SaveThen(i, r, "idle"))
         /\ UNCHANGED <<prec, vvars, toVerifier, toProver>>
    BY <1>8, <2>4, <2>5 DEF ReceiveRequest
  <2> QED BY <1>1, <1>3, <1>6, <2>9, <2>10
<1>9. ASSUME NEW k \in PTasks, ProverSave(k)
      PROVE  (VerifierInv /\ ProverInv /\ MessageInv)'
  <2>1. PICK n : n = ptask[k].next
    OBVIOUS
  <2>2. PICK i \in Ids, r \in PRec : /\ i = ptask[k].id /\ r = ptask[k].rec /\ Right(r)
                                     /\ n = "present" => r.state = "request_received"
    BY <1>0, <1>9, <2>1 DEF ProverSave, TaskRight, PTaskGood
  <2>3. TaskRight(At(n, i, r))
    BY <2>2 DEF Right, TaskRight, PTaskGood, At
  <2>4. /\ prec' = prec \/ prec' = [prec EXCEPT ![i] = r]
        /\ PSet(k, Idle) \/ PSet(k, At(n, i, r))
        /\ UNCHANGED <<vvars, toVerifier, toProver>>
    BY <1>9, <2>1, <2>2 DEF ProverSave
  <2> QED BY <1>1, <1>2, <1>3, <1>6, <2>2, <2>3, <2>4
<1>10. ASSUME NEW k \in PTasks, NEW i \in Ids, NEW ar \in Autos, SendPresentation(k, i, ar)
       PROVE  (VerifierInv /\ ProverInv /\ MessageInv)'
  <2>1. PICK r : r = [prec[i] EXCEPT !.autoRemove = ar]
    OBVIOUS
  <2>2. /\ r.state = "request_received" /\ r.req = prec[i].req /\ r.thread = prec[i].thread
        /\ r.verified = prec[i].verified /\ r.proof = prec[i].proof /\ prec[i].state = r.state
    BY <1>0, <1>10, <2>1 DEF SendPresentation, PRec, Record
  <2>3. Right(r)
    BY <1>0, <2>2 DEF Right, PGood
  <2>4. TaskRight(At("present", i, r))
    BY <2>2, <2>3 DEF Right, TaskRight, PTaskGood, At
  <2> QED BY <1>1, <1>3, <1>6, <1>10, <2>1, <2>4 DEF SendPresentation
<1>11. ASSUME NEW k \in PTasks, NothingToPresent(k)
       PROVE  (VerifierInv /\ ProverInv /\ MessageInv)'
  BY <1>1, <1>3, <1>6, <1>11 DEF NothingToPresent
<1>12. ASSUME NEW k \in PTasks, NEW sound \in BOOLEAN, NEW asProposed \in BOOLEAN,
              CreatePresentation(k, sound, asProposed)
       PROVE  (VerifierInv /\ ProverInv /\ MessageInv)'
  <2>1. PICK i \in Ids, old \in PRec : /\ i = ptask[k].id /\ old = ptask[k].rec
                                       /\ Right(old) /\ old.req # 0
    BY <1>0, <1>12 DEF CreatePresentation, Right, TaskRight, PTaskGood, PGood
  <2>2. PICK p, r : /\ p = [for |-> old.req, sound |-> sound, asProposed |-> asProposed]
                    /\ r = [old EXCEPT !.state = "presentation_sent", !.proof = p]
    OBVIOUS
  <2>3. /\ r.state = "presentation_sent" /\ r.proof = p /\ p.for = old.req
        /\ r.req = old.req /\ r.thread = old.thread /\ r.verified = old.verified
    BY <2>2 DEF PRec, Record
  <2>4. Right(r)
    BY <2>1, <2>3 DEF Right, PGood
  <2>5. TaskRight(At("error", i, r))
    BY <2>4 DEF Right, TaskRight, PTaskGood, At
  <2>6. /\ prec' = prec \/ prec' = [prec EXCEPT ![i] = r]
        /\ PSet(k, Idle) \/ PSet(k, At("error", i, r))
        /\ toVerifier' \subseteq toVerifier \cup {Presentation(r.thread, p)}
        /\ UNCHANGED <<vvars, toProver>>
    BY <1>12, <2>1, <2>2 DEF CreatePresentation, AnsweredRequest, ToVerifier
  <2>7. SentGood(Presentation(r.thread, p), toProver)
    BY <2>1, <2>3 DEF Right, PGood, SentGood, Answers, Presentation
  <2>8. Said
    BY <2>6, <2>7 DEF Said
  <2> QED BY <1>1, <1>2, <1>6, <2>4, <2>5, <2>6, <2>8
<1>13. ASSUME NEW k \in PTasks, NEW m \in toProver, NEW i \in Ids, ReceiveAck(k, m, i)
       PROVE  (VerifierInv /\ ProverInv /\ MessageInv)'
  <2>1. /\ ToldGood(m, toVerifier, toProver) /\ m.type = "ack" /\ m.thread = prec[i].thread
    BY <1>0, <1>13 DEF ReceiveAck, Matching, MessageInv
  <2>2. PICK r : r = Acked(prec[i], m)
    OBVIOUS
  <2>3. /\ r.state = "presentation_acked" /\ r.req = prec[i].req /\ r.thread = prec[i].thread
        /\ r.verified = m.verified
    BY <1>0, <2>2 DEF Acked, PRec, Record
  <2>4. Right(r)
    BY <1>0, <2>1, <2>3 DEF Right, PGood, ToldGood
  <2>5. TaskRight(SaveThen(i, r, "remove")) /\ TaskRight(SaveThen(i, r, "idle"))
    BY <2>4 DEF Right, TaskRight, PTaskGood, SaveThen
  <2>6. /\ PSet(k, SaveThen(i, r, "remove")) \/ PSet(k, SaveThen(i, r, "idle"))
        /\ UNCHANGED <<prec, vvars, toVerifier, toProver>>
    BY <1>13, <2>2 DEF ReceiveAck
  <2> QED BY <1>1, <1>3, <1>6, <2>5, <2>6
<1>14. ASSUME NEW k \in PTasks, ProverRemoveDone(k)
       PROVE  (VerifierInv /\ ProverInv /\ MessageInv)'
  BY <1>0, <1>1, <1>2, <1>3, <1>5, <1>6, <1>14 DEF ProverRemoveDone
<1>15. ASSUME NEW k \in PTasks, NEW i \in Ids, FetchCredentials(k, i)
       PROVE  (VerifierInv /\ ProverInv /\ MessageInv)'
  <2>1. TaskRight(At("error", i, prec[i]))
    BY <1>0 DEF Right, TaskRight, PTaskGood, At
  <2> QED BY <1>1, <1>3, <1>6, <1>15, <2>1 DEF FetchCredentials
<1>16. ASSUME NEW k \in PTasks, ProverFails(k)
       PROVE  (VerifierInv /\ ProverInv /\ MessageInv)'
  <2>1. PICK t \in PTask : t = ptask[k] /\ TaskRight(t)
    BY <1>0, <1>16 DEF ProverFails
  <2>2. TaskRight([t EXCEPT !.pc = "error"])
    BY <2>1 DEF TaskRight, PTaskGood, PTask, Task
  <2> QED BY <1>1, <1>3, <1>6, <1>16, <2>1, <2>2 DEF ProverFails
<1>17. ASSUME NEW k \in PTasks, ProverReports(k)
       PROVE  (VerifierInv /\ ProverInv /\ MessageInv)'
  <2>1. PICK i \in Ids, r \in PRec : i = ptask[k].id /\ r = ptask[k].rec /\ Right(r)
    BY <1>0, <1>17 DEF ProverReports
  <2>2. /\ Abandoned(r).state = "abandoned" /\ Abandoned(r).req = r.req
        /\ Abandoned(r).thread = r.thread /\ Abandoned(r).verified = r.verified
    BY DEF Abandoned, PRec, Record
  <2>3. Right(ErrorState(prec[i], r))
    BY <1>0, <1>4, <2>1, <2>2 DEF ErrorState
  <2>4. /\ prec' = [prec EXCEPT ![i] = ErrorState(prec[i], r)]
        /\ toVerifier' = toVerifier \cup {Problem(r.thread)} /\ PSet(k, Idle)
        /\ UNCHANGED <<vvars, toProver>>
    BY <1>17, <2>1 DEF ProverReports, ToVerifier
  <2>5. Problem(r.thread).type # "presentation"
    BY DEF Problem
  <2> QED BY <1>1, <1>2, <1>3, <1>6, <2>3, <2>4, <2>5
<1>18. ASSUME NEW k \in PTasks, NEW m \in toProver, NEW i \in Ids, ProverReceiveProblem(k, m, i)
       PROVE  (VerifierInv /\ ProverInv /\ MessageInv)'
  <2>1. /\ Abandoned(prec[i]).state = "abandoned" /\ Abandoned(prec[i]).req = prec[i].req
        /\ Abandoned(prec[i]).thread = prec[i].thread
        /\ Abandoned(prec[i]).verified = prec[i].verified
    BY <1>0 DEF Abandoned, PRec, Record
  <2>2. Right(Abandoned(prec[i]))
    BY <1>0, <1>4, <2>1
  <2>3. TaskRight(SaveThen(i, Abandoned(prec[i]), "idle"))
    BY <2>2 DEF Right, TaskRight, PTaskGood, SaveThen
  <2> QED BY <1>1, <1>3, <1>6, <1>18, <2>3 DEF ProverReceiveProblem
<1> QED
  BY <1>7, <1>8, <1>9, <1>10, <1>11, <1>12, <1>13, <1>14, <1>15, <1>16, <1>17, <1>18 DEF ProverStep

-----------------------------------------------------------------------------
(***************************************************************************)
(* The invariant, and what it says of the exchanges.                       *)
(***************************************************************************)
LEMMA InitInv ==
    ASSUME Sensible, Init
    PROVE  ProofInv
<1>1. Types
  BY Blanks DEF Init, Types, TypeOK, Nonces, Sensible, VRec, PRec
<1>2. VerifierInv
  BY DEF Init, VerifierInv, VGood, Blank, NoProof
<1>3. ProverInv /\ MessageInv
  BY DEF Init, ProverInv, PGood, Blank, MessageInv
<1> QED BY <1>1, <1>2, <1>3 DEF ProofInv

LEMMA NextInv ==
    ASSUME Sensible, ProofInv, [Next]_vars
    PROVE  ProofInv'
<1>1. CASE VerifierStep
  BY <1>1, VerifierTypes, VerifierStepInv DEF ProofInv
<1>2. CASE ProverStep
  BY <1>2, ProverTypes, ProverStepInv DEF ProofInv
<1>3. CASE UNCHANGED vars
  BY <1>3 DEF vars, vvars, pvars, ProofInv, Types, TypeOK, VerifierInv, ProverInv, MessageInv
<1> QED BY <1>1, <1>2, <1>3 DEF Next

LEMMA Invariant ==
    ASSUME Sensible
    PROVE  Spec => []ProofInv
BY InitInv, NextInv, PTL DEF Spec

\* Whatever copies the handlers and routes write back, records, tasks and
\* messages are ones the two agents can make.
THEOREM TypeCorrect ==
    ASSUME Sensible
    PROVE  Spec => []TypeOK
<1>1. ProofInv => TypeOK
  BY DEF ProofInv, Types
<1> QED BY <1>1, Invariant, PTL

\* Presentation, request and verdict belong together at both agents, though a
\* presentation is taken in every state and verified from a copy, and a request
\* may come while the wallet answers another (manager.py:355, :434, :296); and
\* a prover is told "true" only of a sound presentation that it sent on that
\* thread for a request made there (manager.py:443).
THEOREM ProofsBelong ==
    ASSUME Sensible
    PROVE  Spec => []ProofsMatch
<1>1. ASSUME ProofInv
      PROVE  ProofsMatch
  <2>1. VerdictOfKeptProof
    BY <1>1 DEF ProofInv, VerifierInv, VGood, VerdictOfKeptProof
  <2>2. PresentedForRequest
    BY <1>1 DEF ProofInv, ProverInv, PGood, PresentedForRequest
  <2>3. ASSUME NEW i \in Ids, prec[i].verified = "true"
        PROVE  \E m \in Presented : /\ m.thread = prec[i].thread /\ m.proof.sound
                                    /\ Request(m.thread, m.proof.for) \in toProver
    <3>1. Proved(prec[i].thread, toVerifier, toProver)
      BY <1>1, <2>3 DEF ProofInv, ProverInv, PGood
    <3> QED BY <3>1 DEF Proved, Answers, Presented
  <2> QED BY <2>1, <2>2, <2>3 DEF ProofsMatch, AckedIsProved
<1> QED BY <1>1, Invariant, PTL

-----------------------------------------------------------------------------
(***************************************************************************)
(* Presentations over HTTP (Oid4vp), for any number of requests,           *)
(* definitions and concurrent calls, and whatever happens to definitions,  *)
(* records and the registered identity between the calls.                  *)
(***************************************************************************)
CONSTANTS Defs, Queries, Names, Did, Tasks, MaxRequests, MaxVersion, MaxNonces, MaxVerdicts
VARIABLES defs, x509, reqs, pres, task, nonces, handed, verdicts

Vp == INSTANCE Oid4vp

BoundsSet == MaxVersion \in Nat \ {0} /\ MaxNonces \in Nat

\* Request objects, answers to them, stored records, and calls in progress.
Client  == Names \cup {Did}
Object  == [nonce : Nat \ {0}, client : Client, version : Nat \ {0}]
Answer  == [for : Object \cup {Vp!Unasked}, format : Vp!Formats, good : BOOLEAN]
VpFull  == [state : {"request-created", "request-retrieved"} \cup Vp!Finals, def : Defs,
            nonce : Nat, client : Client, verified : BOOLEAN,
            by : SUBSET Answer, errors : SUBSET Answer]
VpGone  == [state : {"removed"}, def : Defs]
FetchTask  == [pc : {"consume", "prepare"}, id : Vp!Ids]
HandTask   == [pc : {"hand"}, id : Vp!Ids, version : Nat \ {0}, client : Client, copy : VpFull]
VerifyTask == [pc : {"verify"}, id : Vp!Ids, answer : Answer, copy : VpFull]
SaveTask   == [pc : {"save"}, id : Vp!Ids, copy : VpFull]
VpTask  == {Vp!Idle} \cup FetchTask \cup HandTask \cup VerifyTask \cup SaveTask

VpTypes ==
    /\ defs \in [Defs -> 0..MaxVersion] /\ x509 \subseteq Names /\ reqs \subseteq Vp!Ids
    /\ pres \in [Vp!Ids -> {Vp!NoRec} \cup VpGone \cup VpFull]
    /\ task \in [Tasks -> VpTask] /\ nonces \in 0..MaxNonces
    /\ handed \in [Vp!Ids -> SUBSET Object]

\* A record with a nonce, and any copy of it, has the nonce and the client id of
\* the request object that was handed out, and what it says of an answer is of
\* one to that or to none.
OfHanded(r, H) ==
    r.nonce # 0 => H # {} /\ \A h \in H : r.nonce = h.nonce /\ r.client = h.client
OfAnswer(r, H) ==
    r.state \in Vp!Finals =>
        /\ r.verified <=> r.state = "presentation-valid"
        /\ \A a \in r.by : a.for \in H \cup {Vp!Unasked} /\ (r.verified => a.good)
        /\ ~r.verified => r.errors = r.by
\* An early answer was verified, whose copy of the record has no nonce.
EarlyOne(i, W) == \E w \in W : w.id = i /\ Vp!Early(w)
RecordOk(p, i, Q, H, W) ==
    /\ p \in VpFull => /\ OfHanded(p, H) /\ OfAnswer(p, H)
                       /\ p.state = "request-retrieved" => p.nonce # 0
                       /\ p.nonce = 0 => H = {} \/ EarlyOne(i, W)
    /\ p = Vp!NoRec => i \notin Q /\ H = {}
    /\ H # {} => i \notin Q
    /\ \A g, h \in H : g = h

\* Whoever consumed a request is alone with it until it is handed out.  Whoever
\* has a copy without a nonce verifies an early answer, or one was verified.
Fetching(r, i) == r.pc \in {"prepare", "hand"} /\ r.id = i
CallOk(r, P, Q, H, W) ==
    /\ r.pc # "idle" => P[r.id] # Vp!NoRec
    /\ r.pc \in {"prepare", "hand"} => H[r.id] = {} /\ r.id \notin Q
    /\ r.pc = "hand" => /\ r.copy.client = r.client /\ r.copy.nonce # 0
                        /\ r.copy.state = "request-retrieved"
    /\ r.pc \in {"verify", "save"} => OfHanded(r.copy, H[r.id])
    /\ r.pc = "verify" => /\ r.answer.for \in H[r.id] \cup {Vp!Unasked}
                          /\ r.copy.nonce = 0 /\ r.answer.for # Vp!Unasked => EarlyOne(r.id, W)
    /\ r.pc = "save" => /\ r.copy.state \in Vp!Finals /\ OfAnswer(r.copy, H[r.id])
                        /\ r.copy.nonce = 0 => EarlyOne(r.id, W)
Alone(T) == \A s, t \in Tasks : \A i \in Vp!Ids : Fetching(T[s], i) /\ Fetching(T[t], i) => s = t

VpInv ==
    /\ VpTypes
    /\ \A i \in Vp!Ids : RecordOk(pres[i], i, reqs, handed[i], verdicts)
    /\ \A t \in Tasks : CallOk(task[t], pres, reqs, handed, verdicts)
    /\ Alone(task)
    /\ Vp!HonestAccepted

-----------------------------------------------------------------------------
LEMMA VpIdle ==
    /\ Vp!Idle \in VpTask /\ Vp!Idle.pc = "idle"
    /\ \A P, Q, H, W : CallOk(Vp!Idle, P, Q, H, W)
    /\ \A i : ~Fetching(Vp!Idle, i)
BY DEF Vp!Idle, VpTask, CallOk, Fetching

LEMMA VpRecords ==
    /\ Vp!NoRec.state = "none"
    /\ \A r \in VpGone : r.state = "removed" /\ r # Vp!NoRec
    /\ \A r \in VpFull : r.state \notin {"none", "removed"} /\ r # Vp!NoRec /\ r \notin VpGone
BY DEF Vp!NoRec, VpGone, VpFull, Vp!Finals

LEMMA VpStored ==
    ASSUME VpTypes, NEW i \in Vp!Ids, Vp!Stored(i)
    PROVE  pres[i] \in VpFull /\ pres[i] # Vp!NoRec
<1>1. pres[i] \in {Vp!NoRec} \cup VpGone \cup VpFull
  BY DEF VpTypes
<1>2. pres[i] \notin {Vp!NoRec} \cup VpGone
  BY VpRecords DEF Vp!Stored
<1> QED BY <1>1, <1>2, VpRecords

LEMMA VpKinds ==
    ASSUME NEW r \in VpTask
    PROVE  /\ r.pc \in {"consume", "prepare"} => r \in FetchTask
           /\ r.pc = "hand" => r \in HandTask
           /\ r.pc = "verify" => r \in VerifyTask
           /\ r.pc = "save" => r \in SaveTask
           /\ r.pc # "idle" => r.id \in Vp!Ids
<1>1. CASE r = Vp!Idle
  BY <1>1, VpIdle
<1>2. CASE r \in FetchTask
  BY <1>2 DEF FetchTask
<1>3. CASE r \in HandTask
  BY <1>3 DEF HandTask
<1>4. CASE r \in VerifyTask
  BY <1>4 DEF VerifyTask
<1>5. CASE r \in SaveTask
  BY <1>5 DEF SaveTask
<1> QED BY <1>1, <1>2, <1>3, <1>4, <1>5 DEF VpTask

LEMMA VpClient == ASSUME VpTypes PROVE Vp!ClientId \in Client
<1>1. CASE x509 = {}
  BY <1>1 DEF Vp!ClientId, Client
<1>2. CASE x509 # {}
  <2>1. (CHOOSE n \in x509 : TRUE) \in x509
    BY <1>2
  <2> QED BY <1>2, <2>1 DEF VpTypes, Vp!ClientId, Client
<1> QED BY <1>1, <1>2

LEMMA VpInit == ASSUME BoundsSet PROVE Vp!Init => VpInv
<1> SUFFICES ASSUME Vp!Init PROVE VpInv
  OBVIOUS
<1>1. /\ defs \in [Defs -> {0, 1}] /\ x509 = {} /\ reqs = {} /\ nonces = 0 /\ verdicts = {}
      /\ pres = [i \in Vp!Ids |-> Vp!NoRec] /\ handed = [i \in Vp!Ids |-> {}]
      /\ task = [t \in Tasks |-> Vp!Idle]
  BY DEF Vp!Init
<1>2. {0, 1} \subseteq 0..MaxVersion /\ 0 \in 0..MaxNonces
  BY DEF BoundsSet
<1>3. defs \in [Defs -> 0..MaxVersion]
  BY <1>1, <1>2
<1>4. VpTypes
  BY <1>1, <1>2, <1>3, VpIdle DEF VpTypes
<1>5. \A i \in Vp!Ids : RecordOk(pres[i], i, reqs, handed[i], verdicts)
  BY <1>1, VpRecords DEF RecordOk
<1>6. Alone(task)
  BY <1>1, VpIdle DEF Alone
<1> QED BY <1>1, <1>4, <1>5, <1>6, VpIdle DEF VpInv, Vp!HonestAccepted

\* A call is still as it should be, if what was there stays, what was handed out
\* and verified stays, and no request comes back.
LEMMA CallStays ==
    ASSUME NEW r \in VpTask, NEW P, NEW Q, NEW H, NEW W, CallOk(r, P, Q, H, W),
           NEW P2, NEW Q2, NEW H2, NEW W2, W \subseteq W2,
           r.pc # "idle" => P2[r.id] # Vp!NoRec,
           r.pc \in {"prepare", "hand"} => H2[r.id] = H[r.id],
           r.pc \in {"verify", "save"} => H2[r.id] = H[r.id] \/ H[r.id] = {},
           r.pc \in {"prepare", "hand"} /\ r.id \in Q2 => r.id \in Q
    PROVE  CallOk(r, P2, Q2, H2, W2)
<1>1. \A i : EarlyOne(i, W) => EarlyOne(i, W2)
  BY DEF EarlyOne
<1>2. r.pc \in {"verify", "save"} => OfHanded(r.copy, H2[r.id])
  BY DEF CallOk, OfHanded
<1>3. r.pc = "save" => OfAnswer(r.copy, H2[r.id])
  BY DEF CallOk, OfAnswer
<1>4. r.pc = "verify" => r.answer.for \in H2[r.id] \cup {Vp!Unasked}
  BY DEF CallOk
<1> QED BY <1>1, <1>2, <1>3, <1>4 DEF CallOk

\* One call goes on.
LEMMA VpGoesOn ==
    ASSUME VpInv, NEW t \in Tasks, NEW r, task' = [task EXCEPT ![t] = r], VpTypes',
           CallOk(r, pres', reqs', handed', verdicts'),
           \A i : Fetching(r, i) => \A s \in Tasks : s # t => ~Fetching(task[s], i),
           \A s \in Tasks : s # t => CallOk(task[s], pres', reqs', handed', verdicts'),
           \A i \in Vp!Ids : RecordOk(pres'[i], i, reqs', handed'[i], verdicts'),
           Vp!HonestAccepted'
    PROVE  VpInv'
<1>1. task'[t] = r /\ \A s \in Tasks : s # t => task'[s] = task[s]
  BY DEF VpInv, VpTypes
<1>2. \A s \in Tasks : CallOk(task'[s], pres', reqs', handed', verdicts')
  BY <1>1
<1>3. ASSUME NEW s \in Tasks, NEW u \in Tasks, NEW i \in Vp!Ids,
             Fetching(task'[s], i), Fetching(task'[u], i)
      PROVE  s = u
  <2>1. CASE s = t \/ u = t
    BY <1>1, <1>3, <2>1
  <2>2. CASE s # t /\ u # t
    BY <1>1, <1>3, <2>2 DEF VpInv, Alone
  <2> QED BY <2>1, <2>2
<1>4. Alone(task')
  BY <1>3 DEF Alone
<1> QED BY <1>2, <1>4 DEF VpInv

\* The same when only the call changes, or records are saved over each other.
LEMMA VpOthers ==
    ASSUME VpInv, NEW t \in Tasks,
           \A i \in Vp!Ids : pres[i] # Vp!NoRec => pres'[i] # Vp!NoRec,
           reqs' \subseteq reqs, UNCHANGED handed, verdicts \subseteq verdicts'
    PROVE  \A s \in Tasks : CallOk(task[s], pres', reqs', handed', verdicts')
<1> SUFFICES ASSUME NEW s \in Tasks PROVE CallOk(task[s], pres', reqs', handed', verdicts')
  OBVIOUS
<1>1. task[s] \in VpTask /\ CallOk(task[s], pres, reqs, handed, verdicts)
  BY DEF VpInv, VpTypes
<1>2. task[s].pc # "idle" => task[s].id \in Vp!Ids /\ pres[task[s].id] # Vp!NoRec
  BY <1>1, VpKinds DEF CallOk
<1> QED BY <1>1, <1>2, CallStays

\* What the controller does with definitions and the identity disturbs nothing.
LEMMA VpDefs ==
    ASSUME VpInv, UNCHANGED <<reqs, pres, task, nonces, handed, verdicts>>,
           defs' \in [Defs -> 0..MaxVersion], x509' \subseteq Names
    PROVE  VpInv'
<1>1. VpTypes'
  BY DEF VpInv, VpTypes
<1>2. Vp!HonestAccepted'
  BY DEF VpInv, Vp!HonestAccepted
<1>3. Alone(task')
  BY DEF VpInv
<1> QED BY <1>1, <1>2, <1>3 DEF VpInv

-----------------------------------------------------------------------------
(* The controller *)

LEMMA VpController ==
    ASSUME BoundsSet, VpInv,
           \/ \E d \in Defs : Vp!CreateDef(d) \/ Vp!UpdateDef(d) \/ Vp!RemoveDef(d)
           \/ Vp!DeleteX509 \/ \E n \in Names : Vp!RegisterX509(n)
    PROVE  VpInv'
<1>1. defs \in [Defs -> 0..MaxVersion] /\ x509 \subseteq Names
  BY DEF VpInv, VpTypes
<1>2. ASSUME NEW d \in Defs, Vp!CreateDef(d) \/ Vp!UpdateDef(d) \/ Vp!RemoveDef(d) PROVE VpInv'
  <2>1. \E n \in 0..MaxVersion : defs' = [defs EXCEPT ![d] = n]
    <3>0. 0 \in 0..MaxVersion /\ 1 \in 0..MaxVersion
      BY DEF BoundsSet
    <3>1. CASE Vp!CreateDef(d)
      BY <3>0, <3>1 DEF Vp!CreateDef
    <3>2. CASE Vp!UpdateDef(d)
      <4>1. defs[d] \in 1..(MaxVersion - 1) /\ defs' = [defs EXCEPT ![d] = defs[d] + 1]
        BY <3>2 DEF Vp!UpdateDef
      <4>2. defs[d] + 1 \in 0..MaxVersion
        BY <4>1 DEF BoundsSet
      <4> QED BY <4>1, <4>2
    <3>3. CASE Vp!RemoveDef(d)
      BY <3>0, <3>3 DEF Vp!RemoveDef
    <3> QED BY <1>2, <3>1, <3>2, <3>3
  <2>2. UNCHANGED <<x509, reqs, pres, task, nonces, handed, verdicts>>
    BY <1>2 DEF Vp!CreateDef, Vp!UpdateDef, Vp!RemoveDef
  <2>3. defs' \in [Defs -> 0..MaxVersion]
    BY <1>1, <2>1
  <2> QED BY <1>1, <2>2, <2>3, VpDefs
<1>3. ASSUME NEW n \in Names, Vp!RegisterX509(n) PROVE VpInv'
  BY <1>1, <1>3, VpDefs DEF Vp!RegisterX509
<1>4. CASE Vp!DeleteX509
  BY <1>1, <1>4, VpDefs DEF Vp!DeleteX509
<1> QED BY <1>2, <1>3, <1>4

LEMMA VpCreate ==
    ASSUME VpInv, NEW i \in Vp!Ids, NEW d \in Defs, Vp!CreateRequest(i, d) PROVE VpInv'
<1> DEFINE v == [state |-> "request-created", def |-> d, nonce |-> 0,
                 client |-> Vp!ClientId, verified |-> FALSE, by |-> {}, errors |-> {}]
<1>1. /\ pres[i] = Vp!NoRec /\ i \notin reqs
      /\ reqs' = reqs \cup {i} /\ pres' = [pres EXCEPT ![i] = v]
      /\ UNCHANGED <<defs, x509, task, nonces, handed, verdicts>>
  BY DEF Vp!CreateRequest
<1>2. VpTypes
  BY DEF VpInv
<1>3. v \in VpFull /\ v.state = "request-created" /\ v.nonce = 0
  BY <1>2, VpClient DEF VpFull
<1>4. v # Vp!NoRec
  BY <1>3, VpRecords
<1> HIDE DEF v
<1>5. pres'[i] = v /\ \A j \in Vp!Ids : j # i => pres'[j] = pres[j]
  BY <1>1, <1>2 DEF VpTypes
<1>6. handed[i] = {}
  BY <1>1 DEF VpInv, RecordOk
<1>7. VpTypes'
  BY <1>1, <1>2, <1>3 DEF VpTypes
<1>8. RecordOk(pres'[i], i, reqs', handed'[i], verdicts')
  BY <1>1, <1>3, <1>4, <1>5, <1>6 DEF RecordOk, OfHanded, OfAnswer, Vp!Finals
<1>9. ASSUME NEW j \in Vp!Ids PROVE RecordOk(pres'[j], j, reqs', handed'[j], verdicts')
  <2>1. CASE j # i
    <3>1. RecordOk(pres[j], j, reqs, handed[j], verdicts)
      BY DEF VpInv
    <3> QED BY <1>1, <1>5, <2>1, <3>1 DEF RecordOk
  <2> QED BY <1>8, <2>1
<1>10. ASSUME NEW s \in Tasks PROVE CallOk(task'[s], pres', reqs', handed', verdicts')
  <2>1. task[s] \in VpTask /\ CallOk(task[s], pres, reqs, handed, verdicts)
    BY <1>2 DEF VpInv, VpTypes
  <2>2. task[s].pc # "idle" => /\ task[s].id \in Vp!Ids /\ pres[task[s].id] # Vp!NoRec
                               /\ task[s].id # i
    BY <1>1, <2>1, VpKinds DEF CallOk
  <2> QED BY <1>1, <1>5, <2>1, <2>2, CallStays
<1>11. Vp!HonestAccepted'
  BY <1>1 DEF VpInv, Vp!HonestAccepted
<1>12. Alone(task')
  BY <1>1 DEF VpInv
<1> QED BY <1>7, <1>9, <1>10, <1>11, <1>12 DEF VpInv

LEMMA VpRemove ==
    ASSUME VpInv, NEW i \in Vp!Ids, Vp!RemovePresentation(i) PROVE VpInv'
<1> DEFINE v == [state |-> "removed", def |-> pres[i].def]
<1>1. /\ Vp!Stored(i) /\ pres' = [pres EXCEPT ![i] = v]
      /\ UNCHANGED <<defs, x509, reqs, task, nonces, handed, verdicts>>
  BY DEF Vp!RemovePresentation, Vp!Stored
<1>2. VpTypes
  BY DEF VpInv
<1>3. pres[i] \in VpFull
  BY <1>1, <1>2, VpStored
<1>4. v \in VpGone
  BY <1>3 DEF VpGone, VpFull
<1> HIDE DEF v
<1>5. pres'[i] = v /\ \A j \in Vp!Ids : j # i => pres'[j] = pres[j]
  BY <1>1, <1>2 DEF VpTypes
<1>6. v # Vp!NoRec /\ v \notin VpFull
  BY <1>4, VpRecords
<1>7. VpTypes'
  BY <1>1, <1>2, <1>4 DEF VpTypes
<1>8. \A j \in Vp!Ids : RecordOk(pres'[j], j, reqs', handed'[j], verdicts')
  BY <1>1, <1>5, <1>6 DEF VpInv, RecordOk
<1>9. \A j \in Vp!Ids : pres[j] # Vp!NoRec => pres'[j] # Vp!NoRec
  BY <1>5, <1>6
<1>10. \A s \in Tasks : CallOk(task'[s], pres', reqs', handed', verdicts')
  BY <1>1, <1>9, VpOthers
<1>11. Vp!HonestAccepted'
  BY <1>1 DEF VpInv, Vp!HonestAccepted
<1>12. Alone(task')
  BY <1>1 DEF VpInv
<1> QED BY <1>7, <1>8, <1>10, <1>11, <1>12 DEF VpInv

-----------------------------------------------------------------------------
(* The wallet fetches the request object *)

\* A call that changes nothing but itself, and takes no request for its own.
LEMMA VpCallOnly ==
    ASSUME VpInv, NEW t \in Tasks, NEW r \in VpTask, task' = [task EXCEPT ![t] = r],
           \A i : ~Fetching(r, i), CallOk(r, pres, reqs, handed, verdicts'),
           UNCHANGED <<defs, x509, reqs, pres, nonces, handed>>,
           verdicts \subseteq verdicts', Vp!HonestAccepted'
    PROVE  VpInv'
<1>1. VpTypes'
  BY DEF VpInv, VpTypes
<1>2. \A i \in Vp!Ids : RecordOk(pres'[i], i, reqs', handed'[i], verdicts')
  BY DEF VpInv, RecordOk, EarlyOne
<1>3. \A s \in Tasks : CallOk(task[s], pres', reqs', handed', verdicts')
  BY VpOthers
<1>4. CallOk(r, pres', reqs', handed', verdicts')
  OBVIOUS
<1> QED BY <1>1, <1>2, <1>3, <1>4, VpGoesOn

LEMMA VpFetch ==
    ASSUME VpInv, NEW t \in Tasks, NEW i \in Vp!Ids, Vp!Fetch(t, i) PROVE VpInv'
<1> DEFINE r == [pc |-> "consume", id |-> i]
<1>1. /\ i \in reqs /\ task' = [task EXCEPT ![t] = r]
      /\ UNCHANGED <<defs, x509, reqs, pres, nonces, handed, verdicts>>
  BY DEF Vp!Fetch
<1>2. r \in VpTask /\ r.pc = "consume" /\ r.id = i
  BY DEF VpTask, FetchTask
<1>3. pres[i] # Vp!NoRec
  BY <1>1 DEF VpInv, RecordOk
<1> HIDE DEF r
<1>4. CallOk(r, pres, reqs, handed, verdicts) /\ \A j : ~Fetching(r, j)
  BY <1>2, <1>3 DEF CallOk, Fetching
<1>5. Vp!HonestAccepted'
  BY <1>1 DEF VpInv, Vp!HonestAccepted
<1> QED BY <1>1, <1>2, <1>4, <1>5, VpCallOnly

LEMMA VpConsume == ASSUME VpInv, NEW t \in Tasks, Vp!Consume(t) PROVE VpInv'
<1> DEFINE i == task[t].id
           r == IF i \in reqs THEN [task[t] EXCEPT !.pc = "prepare"] ELSE Vp!Idle
<1>1. /\ task[t].pc = "consume" /\ task' = [task EXCEPT ![t] = r] /\ reqs' = reqs \ {i}
      /\ UNCHANGED <<defs, x509, pres, nonces, handed, verdicts>>
  BY DEF Vp!Consume, Vp!Removable
<1>2. task[t] \in FetchTask /\ i \in Vp!Ids /\ pres[i] # Vp!NoRec
  BY <1>1, VpKinds DEF VpInv, VpTypes, CallOk
<1>3. /\ r \in VpTask /\ (r.pc # "idle" => r.pc = "prepare" /\ r.id = i /\ i \in reqs)
  <2>1. CASE i \in reqs
    BY <1>2, <2>1 DEF VpTask, FetchTask
  <2>2. CASE i \notin reqs
    BY <2>2, VpIdle
  <2> QED BY <2>1, <2>2
<1>4. i \in reqs => handed[i] = {}
  BY <1>2 DEF VpInv, RecordOk
<1> HIDE DEF r, i
<1>5. VpTypes'
  BY <1>1, <1>3 DEF VpInv, VpTypes
<1>6. CallOk(r, pres', reqs', handed', verdicts')
  BY <1>1, <1>2, <1>3, <1>4 DEF CallOk
<1>7. \A j \in Vp!Ids : RecordOk(pres'[j], j, reqs', handed'[j], verdicts')
  <2> SUFFICES ASSUME NEW j \in Vp!Ids PROVE RecordOk(pres'[j], j, reqs', handed'[j], verdicts')
    OBVIOUS
  <2>1. RecordOk(pres[j], j, reqs, handed[j], verdicts) /\ (j \in reqs' => j \in reqs)
    BY <1>1 DEF VpInv
  <2> QED BY <1>1, <2>1 DEF RecordOk
<1>8. \A s \in Tasks : CallOk(task[s], pres', reqs', handed', verdicts')
  BY <1>1, VpOthers
<1>9. ASSUME NEW j, Fetching(r, j), NEW s \in Tasks PROVE ~Fetching(task[s], j)
  <2>1. j = i /\ i \in reqs
    BY <1>3, <1>9 DEF Fetching
  <2>2. CallOk(task[s], pres, reqs, handed, verdicts)
    BY DEF VpInv
  <2> QED BY <2>1, <2>2 DEF CallOk, Fetching
<1>10. Vp!HonestAccepted'
  BY <1>1 DEF VpInv, Vp!HonestAccepted
<1> QED BY <1>1, <1>5, <1>6, <1>7, <1>8, <1>9, <1>10, VpGoesOn

LEMMA VpPrepare == ASSUME BoundsSet, VpInv, NEW t \in Tasks, Vp!Prepare(t) PROVE VpInv'
<1> DEFINE i == task[t].id
<1>1. /\ task[t].pc = "prepare" /\ nonces < MaxNonces
      /\ UNCHANGED <<defs, x509, reqs, pres, handed, verdicts>>
  BY DEF Vp!Prepare
<1>2. i \in Vp!Ids /\ VpTypes
  BY <1>1, VpKinds DEF VpInv, VpTypes
<1>3. Vp!HonestAccepted'
  BY <1>1 DEF VpInv, Vp!HonestAccepted
<1>4. CASE task' = [task EXCEPT ![t] = Vp!Idle] /\ UNCHANGED nonces
  BY <1>1, <1>3, <1>4, VpIdle, VpCallOnly
<1>5. ASSUME NEW copy, NEW r, Vp!Stored(i), defs[pres[i].def] > 0,
             copy = [pres[i] EXCEPT !.state = "request-retrieved", !.nonce = nonces + 1,
                                    !.client = Vp!ClientId],
             r = [pc |-> "hand", id |-> i, version |-> defs[pres[i].def],
                  client |-> Vp!ClientId, copy |-> copy],
             nonces' = nonces + 1, task' = [task EXCEPT ![t] = r]
      PROVE  VpInv'
  <2>1. pres[i] \in VpFull /\ pres[i] # Vp!NoRec
    BY <1>2, <1>5, VpStored
  <2>2. nonces + 1 \in Nat \ {0} /\ nonces' \in 0..MaxNonces
    BY <1>1, <1>2, <1>5 DEF VpTypes, BoundsSet
  <2>3. defs[pres[i].def] \in Nat \ {0}
    <3>1. pres[i].def \in Defs
      BY <2>1 DEF VpFull
    <3>2. defs[pres[i].def] \in 0..MaxVersion
      BY <1>2, <3>1 DEF VpTypes
    <3> QED BY <1>5, <3>2 DEF BoundsSet
  <2>4. /\ copy \in VpFull /\ copy.state = "request-retrieved" /\ copy.nonce # 0
        /\ copy.client = Vp!ClientId
    BY <1>2, <1>5, <2>1, <2>2, VpClient DEF VpFull
  <2>5. /\ r \in VpTask /\ r.pc = "hand" /\ r.id = i /\ r.copy = copy /\ r.client = Vp!ClientId
    BY <1>2, <1>5, <2>3, <2>4, VpClient DEF VpTask, HandTask
  <2>6. VpTypes'
    BY <1>1, <1>2, <1>5, <2>2, <2>5 DEF VpTypes
  <2>7. handed[i] = {} /\ i \notin reqs
    BY <1>1 DEF VpInv, CallOk
  <2>8. CallOk(r, pres', reqs', handed', verdicts')
    BY <1>1, <2>1, <2>4, <2>5, <2>7 DEF CallOk
  <2>9. ASSUME NEW j, Fetching(r, j), NEW s \in Tasks, s # t PROVE ~Fetching(task[s], j)
    <3>1. Fetching(task[t], i) /\ j = i
      BY <1>1, <2>5, <2>9 DEF Fetching
    <3> QED BY <1>2, <2>9, <3>1 DEF VpInv, Alone
  <2>10. \A s \in Tasks : CallOk(task[s], pres', reqs', handed', verdicts')
    BY <1>1, VpOthers
  <2>11. \A j \in Vp!Ids : RecordOk(pres'[j], j, reqs', handed'[j], verdicts')
    BY <1>1 DEF VpInv
  <2> QED BY <1>3, <1>5, <2>6, <2>8, <2>9, <2>10, <2>11, VpGoesOn
<1> QED BY <1>4, <1>5 DEF Vp!Prepare, Vp!NewNonce, Vp!Effective

LEMMA VpHand == ASSUME VpInv, NEW t \in Tasks, Vp!Hand(t) PROVE VpInv'
<1> DEFINE i == task[t].id
           copy == task[t].copy
           h == [nonce |-> copy.nonce, client |-> task[t].client, version |-> task[t].version]
<1>1. /\ task[t].pc = "hand" /\ task' = [task EXCEPT ![t] = Vp!Idle]
      /\ UNCHANGED <<defs, x509, reqs, nonces, verdicts>>
  BY DEF Vp!Hand
<1>2. i \in Vp!Ids /\ VpTypes /\ task[t] \in HandTask
  BY <1>1, VpKinds DEF VpInv, VpTypes
<1>3. Vp!HonestAccepted'
  BY <1>1 DEF VpInv, Vp!HonestAccepted
<1>4. CASE ~Vp!Stored(i)
  <2>1. UNCHANGED <<pres, handed>>
    BY <1>4 DEF Vp!Hand
  <2> QED BY <1>1, <1>3, <2>1, VpIdle, VpCallOnly
<1>5. CASE Vp!Stored(i)
  <2>1. /\ pres' = [pres EXCEPT ![i] = copy]
        /\ handed' = [handed EXCEPT ![i] = @ \cup {h}]
    BY <1>5 DEF Vp!Hand
  <2>2. /\ copy \in VpFull /\ copy.client = task[t].client /\ copy.nonce # 0
        /\ copy.state = "request-retrieved" /\ handed[i] = {} /\ i \notin reqs
    BY <1>1, <1>2 DEF VpInv, CallOk, HandTask
  <2>3. h \in Object /\ h.nonce = copy.nonce /\ h.client = copy.client
    BY <1>2, <2>2 DEF HandTask, Object, VpFull
  <2> HIDE DEF h, copy
  <2>4. /\ pres'[i] = copy /\ \A j \in Vp!Ids : j # i => pres'[j] = pres[j]
        /\ handed'[i] = {h} /\ \A j \in Vp!Ids : j # i => handed'[j] = handed[j]
    BY <1>2, <2>1, <2>2 DEF VpTypes
  <2>5. VpTypes'
    BY <1>1, <1>2, <2>1, <2>2, <2>3, VpIdle DEF VpTypes
  <2>6. RecordOk(pres'[i], i, reqs', handed'[i], verdicts')
    BY <1>1, <2>2, <2>3, <2>4, VpRecords DEF RecordOk, OfHanded, OfAnswer, Vp!Finals
  <2>7. ASSUME NEW j \in Vp!Ids PROVE RecordOk(pres'[j], j, reqs', handed'[j], verdicts')
    <3>1. CASE j # i
      <4>1. RecordOk(pres[j], j, reqs, handed[j], verdicts)
        BY DEF VpInv
      <4> QED BY <1>1, <2>4, <3>1, <4>1
    <3> QED BY <2>6, <3>1
  <2>8. ASSUME NEW s \in Tasks, s # t PROVE CallOk(task[s], pres', reqs', handed', verdicts')
    <3>1. task[s] \in VpTask /\ CallOk(task[s], pres, reqs, handed, verdicts)
      BY DEF VpInv, VpTypes
    <3>2. Fetching(task[t], i)
      BY <1>1 DEF Fetching
    <3>3. ~Fetching(task[s], i)
      BY <1>2, <2>8, <3>2 DEF VpInv, Alone
    <3>4. task[s].pc \in {"prepare", "hand"} => task[s].id # i
      BY <3>3 DEF Fetching
    <3>5. task[s].pc # "idle" => task[s].id \in Vp!Ids /\ pres'[task[s].id] # Vp!NoRec
      <4>1. copy # Vp!NoRec
        BY <2>2, VpRecords
      <4> QED BY <2>4, <3>1, <4>1, VpKinds DEF CallOk
    <3>6. /\ task[s].pc \in {"prepare", "hand"} => handed'[task[s].id] = handed[task[s].id]
          /\ task[s].pc # "idle" => \/ handed'[task[s].id] = handed[task[s].id]
                                   \/ handed[task[s].id] = {}
      BY <2>2, <2>4, <3>4, <3>5
    <3> QED BY <1>1, <3>1, <3>5, <3>6, CallStays
  <2> QED BY <1>1, <1>3, <2>5, <2>7, <2>8, VpIdle, VpGoesOn
<1> QED BY <1>4, <1>5

-----------------------------------------------------------------------------
(* An answer is posted *)

LEMMA VpPost ==
    ASSUME VpInv, NEW t \in Tasks, NEW i \in Vp!Ids, Vp!Post(t, i) PROVE VpInv'
<1>1. /\ Vp!Stored(i) /\ UNCHANGED <<defs, x509, reqs, pres, nonces, handed, verdicts>>
  BY DEF Vp!Post
<1>2. PICK a \in Vp!Answers(i) :
         task' = [task EXCEPT ![t] = [pc |-> "verify", id |-> i, answer |-> a, copy |-> pres[i]]]
  BY DEF Vp!Post
<1>3. a \in Answer /\ a.for \in handed[i] \cup {Vp!Unasked}
  <2>1. handed[i] \subseteq Object
    BY DEF VpInv, VpTypes
  <2>2. /\ a \in [for : handed[i] \cup {Vp!Unasked}, format : Vp!Formats, good : BOOLEAN]
    BY <1>2 DEF Vp!Answers, Vp!Formats
  <2> QED BY <2>1, <2>2 DEF Answer
<1> DEFINE r == [pc |-> "verify", id |-> i, answer |-> a, copy |-> pres[i]]
<1>4. pres[i] \in VpFull /\ pres[i] # Vp!NoRec
  BY <1>1, VpStored DEF VpInv
<1>5. /\ r \in VpTask /\ r.pc = "verify" /\ r.id = i /\ r.answer = a /\ r.copy = pres[i]
  BY <1>3, <1>4 DEF VpTask, VerifyTask
<1>6. task' = [task EXCEPT ![t] = r]
  BY <1>2
<1> HIDE DEF r
<1>7. /\ OfHanded(pres[i], handed[i])
      /\ pres[i].nonce = 0 => handed[i] = {} \/ EarlyOne(i, verdicts)
  BY <1>4 DEF VpInv, RecordOk
<1>8. CallOk(r, pres, reqs, handed, verdicts) /\ \A j : ~Fetching(r, j)
  BY <1>3, <1>4, <1>5, <1>7 DEF CallOk, Fetching
<1>9. Vp!HonestAccepted'
  BY <1>1 DEF VpInv, Vp!HonestAccepted
<1> QED BY <1>1, <1>5, <1>6, <1>8, <1>9, VpCallOnly

LEMMA VpVerify == ASSUME BoundsSet, VpInv, NEW t \in Tasks, Vp!Verify(t) PROVE VpInv'
<1> DEFINE i == task[t].id
           rec == task[t].copy
           a == task[t].answer
           v == Vp!Verdict(rec, a)
           copy == [rec EXCEPT !.state = IF v = "valid" THEN "presentation-valid"
                                         ELSE "presentation-invalid",
                               !.verified = (v = "valid"), !.by = {a},
                               !.errors = IF v = "valid" THEN @ ELSE {a}]
           n == [id |-> i, answer |-> a, verdict |-> v, version |-> defs[rec.def],
                 nonce |-> rec.nonce]
           saving == [pc |-> "save", id |-> i, copy |-> copy]
           r == IF v = "not found" THEN Vp!Idle ELSE saving
<1>1. /\ task[t].pc = "verify" /\ task' = [task EXCEPT ![t] = r]
      /\ verdicts' = verdicts \cup {n}
      /\ UNCHANGED <<defs, x509, reqs, pres, nonces, handed>>
  BY DEF Vp!Verify
<1>2. task[t] \in VerifyTask /\ VpTypes /\ CallOk(task[t], pres, reqs, handed, verdicts)
  BY <1>1, VpKinds DEF VpInv, VpTypes
<1>3. /\ i \in Vp!Ids /\ rec \in VpFull /\ a \in Answer
      /\ pres[i] # Vp!NoRec /\ OfHanded(rec, handed[i])
      /\ a.for \in handed[i] \cup {Vp!Unasked}
      /\ rec.nonce = 0 /\ a.for # Vp!Unasked => EarlyOne(i, verdicts)
  BY <1>1, <1>2 DEF VerifyTask, CallOk
<1>4. /\ defs[rec.def] \in Nat /\ a.for.version \in Nat \ {0} /\ rec.nonce \in Nat
      /\ a.for # Vp!Unasked /\ rec.nonce # 0 =>
            a.for.nonce = rec.nonce /\ a.for.client = rec.client
      /\ a.format \in Vp!Formats
  <2>1. rec.def \in Defs
    BY <1>3 DEF VpFull
  <2>2. defs[rec.def] \in 0..MaxVersion
    BY <1>2, <2>1 DEF VpTypes
  <2>3. a.for \in Object \cup {Vp!Unasked} /\ a.format \in Vp!Formats
    BY <1>3 DEF Answer
  <2>4. a.for.version \in Nat \ {0}
    BY <2>3 DEF Object, Vp!Unasked
  <2>5. rec.nonce \in Nat
    BY <1>3 DEF VpFull
  <2>6. a.for # Vp!Unasked /\ rec.nonce # 0 =>
            a.for.nonce = rec.nonce /\ a.for.client = rec.client
    BY <1>3 DEF OfHanded
  <2> QED BY <2>2, <2>3, <2>4, <2>5, <2>6 DEF BoundsSet
<1> HIDE DEF i, rec, a
<1>5. ASSUME a.good, a.for # Vp!Unasked, defs[rec.def] = a.for.version,
             rec.nonce # 0 \/ a.format = "jwt_vc_json"
      PROVE  v = "valid"
  <2>1. Vp!Bound(rec, a)
    BY <1>4, <1>5 DEF Vp!Bound
  <2>2. defs[rec.def] > 0
    BY <1>4, <1>5
  <2> QED BY <1>5, <2>1, <2>2 DEF Vp!Verdict, Vp!Accepts
<1>6. v = "valid" => a.good
  <2>1. CASE defs[rec.def] > 0
    BY <2>1 DEF Vp!Verdict, Vp!Accepts
  <2>2. CASE ~(defs[rec.def] > 0)
    BY <2>2 DEF Vp!Verdict
  <2> QED BY <2>1, <2>2
<1> HIDE DEF v
<1>n. /\ n.id = i /\ n.answer = a /\ n.verdict = v /\ n.version = defs[rec.def]
      /\ n.nonce = rec.nonce
  OBVIOUS
<1> HIDE DEF n
<1>7. Vp!HonestAccepted'
  <2>1. /\ n.answer.good /\ n.answer.for # Vp!Unasked /\ n.version = n.answer.for.version
        => \/ n.verdict = "valid"
           \/ /\ n.nonce = 0 /\ n.answer.format # "jwt_vc_json" /\ EarlyOne(n.id, verdicts)
    BY <1>3, <1>5, <1>n
  <2>2. ASSUME NEW u \in verdicts',
               u.answer.good, u.answer.for # Vp!Unasked, u.version = u.answer.for.version
        PROVE  \/ u.verdict = "valid"
               \/ /\ u.nonce = 0 /\ u.answer.format # "jwt_vc_json"
                  /\ \E w \in verdicts : w.id = u.id /\ Vp!Early(w)
    <3>1. CASE u \in verdicts
      BY <2>2, <3>1 DEF VpInv, Vp!HonestAccepted
    <3>2. CASE u = n
      BY <2>1, <2>2, <3>2 DEF EarlyOne
    <3> QED BY <1>1, <3>1, <3>2
  <2>3. verdicts \subseteq verdicts'
    BY <1>1
  <2> QED BY <2>2, <2>3 DEF Vp!HonestAccepted
<1>e. rec.nonce = 0 => EarlyOne(i, verdicts')
  <2>1. CASE a.for = Vp!Unasked
    BY <1>1, <1>n, <2>1 DEF EarlyOne, Vp!Early
  <2>2. CASE a.for # Vp!Unasked
    BY <1>1, <1>3, <2>2 DEF EarlyOne
  <2> QED BY <2>1, <2>2
<1>8. /\ copy \in VpFull /\ copy.verified = (v = "valid") /\ copy.by = {a}
      /\ v # "valid" => copy.errors = {a}
      /\ copy.state = IF v = "valid" THEN "presentation-valid" ELSE "presentation-invalid"
      /\ copy.nonce = rec.nonce /\ copy.client = rec.client
  BY <1>3 DEF VpFull, Vp!Finals
<1> HIDE DEF copy
<1>9. OfHanded(copy, handed[i])
  BY <1>3, <1>8 DEF OfHanded
<1>10. OfAnswer(copy, handed[i])
  BY <1>3, <1>6, <1>8 DEF OfAnswer
<1>11. saving \in VpTask /\ saving.pc = "save" /\ saving.id = i /\ saving.copy = copy
  BY <1>3, <1>8 DEF VpTask, SaveTask
<1> HIDE DEF saving
<1>12. CallOk(saving, pres, reqs, handed, verdicts') /\ \A j : ~Fetching(saving, j)
  BY <1>3, <1>8, <1>9, <1>10, <1>11, <1>e DEF CallOk, Fetching, Vp!Finals
<1>13. r \in VpTask /\ CallOk(r, pres, reqs, handed, verdicts') /\ \A j : ~Fetching(r, j)
  BY <1>11, <1>12, VpIdle
<1> HIDE DEF r
<1> QED BY <1>1, <1>7, <1>13, VpCallOnly

LEMMA VpSave == ASSUME VpInv, NEW t \in Tasks, Vp!Save(t) PROVE VpInv'
<1> DEFINE i == task[t].id
           copy == task[t].copy
<1>1. /\ task[t].pc = "save" /\ task' = [task EXCEPT ![t] = Vp!Idle]
      /\ pres' = IF Vp!Stored(i) THEN [pres EXCEPT ![i] = copy] ELSE pres
      /\ UNCHANGED <<defs, x509, reqs, nonces, handed, verdicts>>
  BY DEF Vp!Save, Vp!Written
<1>2. task[t] \in SaveTask /\ VpTypes /\ CallOk(task[t], pres, reqs, handed, verdicts)
  BY <1>1, VpKinds DEF VpInv, VpTypes
<1>3. /\ i \in Vp!Ids /\ copy \in VpFull /\ copy # Vp!NoRec /\ copy.state \in Vp!Finals
      /\ OfHanded(copy, handed[i]) /\ OfAnswer(copy, handed[i])
      /\ copy.nonce = 0 => EarlyOne(i, verdicts)
  BY <1>1, <1>2, VpRecords DEF SaveTask, CallOk
<1> HIDE DEF i, copy
<1>4. Vp!HonestAccepted'
  BY <1>1 DEF VpInv, Vp!HonestAccepted
<1>5. pres' \in [Vp!Ids -> {Vp!NoRec} \cup VpGone \cup VpFull]
  BY <1>1, <1>2, <1>3 DEF VpTypes
<1>6. VpTypes'
  BY <1>1, <1>2, <1>5, VpIdle DEF VpTypes
<1>7. \A j \in Vp!Ids : pres'[j] = pres[j] \/ (j = i /\ pres'[j] = copy)
  BY <1>1, <1>2 DEF VpTypes
<1>8. ASSUME NEW j \in Vp!Ids PROVE RecordOk(pres'[j], j, reqs', handed'[j], verdicts')
  <2>1. RecordOk(pres[j], j, reqs, handed[j], verdicts)
    BY DEF VpInv
  <2>2. copy.state # "request-retrieved"
    BY <1>3 DEF Vp!Finals
  <2> QED BY <1>1, <1>3, <1>7, <2>1, <2>2 DEF RecordOk
<1>9. \A s \in Tasks : CallOk(task[s], pres', reqs', handed', verdicts')
  BY <1>1, <1>3, <1>7, VpOthers
<1> QED BY <1>1, <1>4, <1>6, <1>8, <1>9, VpIdle, VpGoesOn

LEMMA VpNext == ASSUME BoundsSet, VpInv, [Vp!Next]_Vp!vars PROVE VpInv'
<1>1. CASE UNCHANGED Vp!vars
  <2>1. UNCHANGED <<defs, x509, reqs, pres, task, nonces, handed, verdicts>>
    BY <1>1 DEF Vp!vars
  <2>2. defs \in [Defs -> 0..MaxVersion] /\ x509 \subseteq Names
    BY DEF VpInv, VpTypes
  <2> QED BY <2>1, <2>2, VpDefs
<1>2. ASSUME NEW i \in Vp!Ids, Vp!RemovePresentation(i) \/ \E d \in Defs : Vp!CreateRequest(i, d)
      PROVE  VpInv'
  BY <1>2, VpRemove, VpCreate
<1>3. ASSUME NEW t \in Tasks, NEW i \in Vp!Ids, Vp!Fetch(t, i) \/ Vp!Post(t, i) PROVE VpInv'
  BY <1>3, VpFetch, VpPost
<1>4. ASSUME NEW t \in Tasks, Vp!Consume(t) \/ Vp!Prepare(t) \/ Vp!Hand(t) PROVE VpInv'
  BY <1>4, VpConsume, VpPrepare, VpHand
<1>5. ASSUME NEW t \in Tasks, Vp!Verify(t) \/ Vp!Save(t) PROVE VpInv'
  BY <1>5, VpVerify, VpSave
<1> QED BY <1>1, <1>2, <1>3, <1>4, <1>5, VpController DEF Vp!Next

\* A request object is handed out once, an honest answer to it is accepted as
\* long as the definition is the same and no early answer took the nonce that
\* its format needs, and the verdict that is kept is of one answer, whichever
\* calls overlap (get_request, post_response).
THEOREM RequestsAnswered == ASSUME BoundsSet PROVE Vp!Spec => []Vp!AnswersApart
<1>1. ASSUME VpInv PROVE Vp!AnswersApart
  <2>1. Vp!RetrievedOnce
    BY <1>1 DEF VpInv, RecordOk, Vp!RetrievedOnce
  <2>2. ASSUME NEW i \in Vp!Ids, pres[i].state \in Vp!Finals
        PROVE  /\ pres[i].verified <=> pres[i].state = "presentation-valid"
               /\ \A a \in pres[i].by :
                     a.for \in handed[i] \cup {Vp!Unasked} /\ (pres[i].verified => a.good)
               /\ ~pres[i].verified => pres[i].errors = pres[i].by
    <3>1. Vp!Stored(i)
      BY <2>2 DEF Vp!Stored, Vp!Finals
    <3>2. pres[i] \in VpFull
      BY <1>1, <3>1, VpStored DEF VpInv
    <3> QED BY <1>1, <2>2, <3>2 DEF VpInv, RecordOk, OfAnswer
  <2>3. Vp!VerdictOfOneAnswer
    BY <2>2 DEF Vp!VerdictOfOneAnswer
  <2> QED BY <1>1, <2>1, <2>3 DEF VpInv, Vp!AnswersApart
<1>2. VpInv => Vp!AnswersApart
  BY <1>1
<1>3. VpInv /\ [Vp!Next]_(Vp!vars) => VpInv'
  BY VpNext
<1> QED BY <1>2, <1>3, VpInit, PTL DEF Vp!Spec

\* Records are in a state of OID4VPPresentation, and one of a retrieved request
\* has a nonce and no request any more.
THEOREM RequestsTyped == ASSUME BoundsSet PROVE Vp!Spec => []Vp!TypeOK
<1>1. ASSUME VpInv PROVE Vp!TypeOK
  <2>1. ASSUME NEW i \in Vp!Ids
        PROVE  pres[i].state \in
                 {"none", "removed", "request-created", "request-retrieved"} \cup Vp!Finals
    <3>1. pres[i] \in {Vp!NoRec} \cup VpGone \cup VpFull
      BY <1>1 DEF VpInv, VpTypes
    <3> QED BY <3>1 DEF Vp!NoRec, VpGone, VpFull
  <2>2. ASSUME NEW i \in Vp!Ids, pres[i].state = "request-retrieved"
        PROVE  i \notin reqs /\ pres[i].nonce > 0
    <3>1. pres[i] \in VpFull /\ RecordOk(pres[i], i, reqs, handed[i], verdicts)
      BY <1>1, <2>2, VpStored DEF VpInv, Vp!Stored
    <3>2. pres[i].nonce \in Nat \ {0}
      BY <2>2, <3>1 DEF RecordOk, VpFull
    <3>3. handed[i] # {}
      BY <3>1, <3>2 DEF RecordOk, OfHanded
    <3> QED BY <3>1, <3>2, <3>3 DEF RecordOk
  <2> QED BY <1>1, <2>1, <2>2 DEF VpInv, VpTypes, Vp!TypeOK
<1>2. VpInv => Vp!TypeOK
  BY <1>1
<1>3. VpInv /\ [Vp!Next]_(Vp!vars) => VpInv'
  BY VpNext
<1> QED BY <1>2, <1>3, VpInit, PTL DEF Vp!Spec
=============================================================================
