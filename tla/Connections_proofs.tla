------------------------- MODULE Connections_proofs -------------------------
(***************************************************************************)
(* Theorems about the connections of an inviter and its invitees, for any  *)
(* number of records, concurrent tasks and DIDs, for every kind of         *)
(* invitation, and for messages that come in any order, repeatedly or      *)
(* never; and, in the last part, about the remote procedure calls that go  *)
(* over such connections.                                                  *)
(***************************************************************************)
EXTENDS Connections, Sequences, TLAPS

-----------------------------------------------------------------------------
(***************************************************************************)
(* Types.                                                                  *)
(***************************************************************************)
\* The kinds of invitations, and the settings, are those the routes take.
Sensible == /\ Kinds \subseteq {"once", "multi", "public"} /\ Autos \subseteq BOOLEAN
            /\ MaxDid \in Nat

Refs     == Recs \cup {NoRec}
Asked    == [inv : Refs, request : Dids, did : Dids]
Answer   == [type : {"response"}, inv : Refs, request : Dids, to : Dids, did : Dids]
Report   == [type : {"problem"}, request : Dids]
ITask    == [pc : {"received", "respond"}, id : Recs, rec : InviterRecord, req : Asked]
Sending  == [pc : {"request"}, id : Conns, rec : InviteeRecord]
Taking   == [pc : {"accepted"}, id : Conns, rec : InviteeRecord, msg : Answer]

Types ==
    /\ TypeOK
    /\ attached \in [Recs -> SUBSET Asked]
    /\ itask \in [ITasks -> {Idle} \cup ITask]
    /\ ctask \in [ETasks -> {Idle} \cup Sending \cup Taking]
    /\ invitations \subseteq Recs
    /\ toInviter \subseteq Asked
    /\ toInvitee \subseteq Answer \cup Report

-----------------------------------------------------------------------------
(***************************************************************************)
(* The invitees.                                                           *)
(***************************************************************************)
\* The last request of a record, and a response, are of a request that was sent
\* with the DID they name.  R: the requests that were sent.
WasSent(n, did, R) == \E q \in R : q.request = n /\ q.did = did

\* A copy of a record: of an invitation that was made, and with its last request.
Copy(r, R, V) ==
    /\ Live(r) => r.from \in V
    /\ r.request # 0 => WasSent(r.request, r.my, R)

Says(m, inv, did, to) == m.type = "response" /\ m.inv = inv /\ m.did = did /\ m.to = to

\* A record in response has what some response said; a task that is about to
\* save one has its request's DID.  M: the messages to invitees.
Accepted(r, M) == r.state = "response" => \E m \in M : Says(m, r.from, r.their, r.my)
Accepting(t, M) ==
    t.pc = "accepted" => t.msg \in M /\ Says(t.msg, t.rec.from, t.msg.did, t.rec.my)

RequestInv ==
    /\ \A q \in toInviter : q.request \in 1..cdid /\ q.inv \in invitations
    /\ \A p, q \in toInviter : p.request = q.request => p = q
    /\ \A m \in toInvitee : m.type = "response" =>
          m.inv \in invitations /\ WasSent(m.request, m.to, toInviter)
InviteeInv ==
    /\ RequestInv
    /\ \A c \in Conns : Copy(crec[c], toInviter, invitations) /\ Accepted(crec[c], toInvitee)
    /\ \A k \in ETasks : ctask[k] # Idle =>
          Copy(ctask[k].rec, toInviter, invitations) /\ Live(ctask[k].rec)
          /\ Accepting(ctask[k], toInvitee)

-----------------------------------------------------------------------------
(***************************************************************************)
(* The inviter.                                                            *)
(***************************************************************************)
\* Requests are attached to records, and records made, of what was sent.
AttachedInv ==
    /\ \A i \in Recs : attached[i] \subseteq toInviter /\ (Live(irec[i]) => irec[i].from \in invitations)
    /\ \A k \in ITasks : itask[k] # Idle =>
          /\ itask[k].rec.from \in invitations
          /\ itask[k].pc = "received" => itask[k].req \in toInviter

(***************************************************************************)
(* As long as it has removed no record.                                    *)
(***************************************************************************)
NoneRemoved == \A i \in Recs : irec[i].state # "removed"
Born(i)     == irec[i].state # "unborn"
Multi(v)    == v \in Recs /\ irec[v].kind = "multi"

\* The record of an invitation has itself as its invitation.  One that is not
\* there yet is blank, and an invitation for several takes no request itself.
OwnInv(i) ==
    /\ irec[i].kind # "" => irec[i].from = i
    /\ ~Born(i) => irec[i] = BlankRec /\ attached[i] = {}
    /\ irec[i].kind = "multi" => irec[i].state = "invitation" /\ attached[i] = {}

\* The record that is made for a request to an invitation for several: it has a
\* DID, and the requester's from the one request that is attached to it.
Served(i)  == Born(i) /\ irec[i].kind = "" /\ Multi(irec[i].from)
Taken(i)   == \E q \in toInviter : attached[i] = {q} /\ irec[i].their = q.did
ServedInv(i) == Served(i) => irec[i].my # 0 /\ (attached[i] = {} \/ Taken(i))

\* A task is alone with a record that is not there yet, of a public invitation,
\* and with one that waits for its first request to be attached.
Alone(k) == \A l \in ITasks : itask[l] # Idle /\ itask[l].id = itask[k].id => l = k
TaskInv(k) ==
    itask[k] # Idle =>
        LET i == itask[k].id
            r == itask[k].rec
        IN  /\ r.kind = irec[i].kind /\ r.kind # "multi"
            /\ r.kind # "" => r.from = i
            /\ Born(i) => r.from = irec[i].from /\ Live(r)
            /\ ~Born(i) => Alone(k) /\ itask[k].pc = "received" /\ ~Multi(r.from)
            /\ itask[k].pc = "respond" => attached[i] # {}
            /\ Served(i) => /\ r.my = irec[i].my /\ r.their = irec[i].their
                            /\ itask[k].pc = "received" => Alone(k) /\ attached[i] = {}

\* A response of an invitation for several is of a record with its two DIDs.
Pairs(i, m) == Served(i) /\ attached[i] # {} /\ irec[i].my = m.did /\ irec[i].their = m.to
AnswerInv ==
    \A m \in toInvitee : m.type = "response" /\ Multi(m.inv) => \E i \in Recs : Pairs(i, m)

InviterInv ==
    /\ \A i \in Recs : OwnInv(i) /\ ServedInv(i)
    /\ \A k \in ITasks : TaskInv(k)
    /\ \A v \in invitations : Born(v)
    /\ AnswerInv

ConnInv == Types /\ InviteeInv /\ AttachedInv /\ (NoneRemoved => InviterInv)

-----------------------------------------------------------------------------
(***************************************************************************)
(* Every step keeps the types.                                             *)
(***************************************************************************)
LEMMA Busy ==
    ASSUME Types
    PROVE  /\ \A k \in ITasks : itask[k] # Idle => itask[k] \in ITask
           /\ \A k \in ITasks : itask[k].pc \in {"received", "respond"} => itask[k] # Idle
           /\ \A k \in ETasks : ctask[k].pc = "request" => ctask[k] \in Sending /\ ctask[k] # Idle
           /\ \A k \in ETasks : ctask[k].pc = "accepted" => ctask[k] \in Taking /\ ctask[k] # Idle
BY DEF Types, Idle, ITask, Sending, Taking

LEMMA Blanks ==
    ASSUME Sensible
    PROVE  /\ BlankRec \in InviterRecord /\ BlankConn \in InviteeRecord
           /\ [BlankRec EXCEPT !.state = "removed"] \in InviterRecord
           /\ [BlankConn EXCEPT !.state = "removed"] \in InviteeRecord
<1>1. 0 \in Dids
  BY DEF Sensible, Dids
<1>2. BlankRec \in InviterRecord
  BY <1>1 DEF BlankRec, InviterRecord, Unused
<1>3. BlankConn \in InviteeRecord
  BY <1>1 DEF BlankConn, InviteeRecord, Unused
<1>4. [BlankRec EXCEPT !.state = "removed"] \in InviterRecord
  BY <1>2 DEF InviterRecord, Unused
<1>5. [BlankConn EXCEPT !.state = "removed"] \in InviteeRecord
  BY <1>3 DEF InviteeRecord, Unused
<1> QED BY <1>2, <1>3, <1>4, <1>5

LEMMA TypesStep ==
    ASSUME Sensible, Types, [Next]_vars
    PROVE  Types'
<1>0. /\ \A i \in Recs : irec[i] \in InviterRecord /\ \A c \in Conns : crec[c] \in InviteeRecord
      /\ \A d \in Nat : d \in Dids <=> d <= MaxDid
      /\ \A d \in Dids : d < MaxDid => d + 1 \in Dids
      /\ idid \in Dids /\ cdid \in Dids /\ Dids \subseteq Nat
  BY DEF Types, TypeOK, Dids, Sensible
<1>1. ASSUME NEW i \in Recs, NEW kind \in Kinds, NEW auto \in Autos, CreateInvitation(i, kind, auto)
      PROVE  Types'
  <2>1. Waiting(i, kind, auto) \in InviterRecord
    BY Blanks DEF Waiting, InviterRecord, States, Sensible
  <2> QED BY <1>1, <2>1 DEF CreateInvitation, cvars, Types, TypeOK
<1>2. ASSUME NEW k \in ITasks, NEW m \in toInviter, NEW i \in Recs, FindOnce(k, m, i)
      PROVE  Types'
  <2>1. IAt("received", i, irec[i], m) \in ITask
    BY <1>0 DEF IAt, ITask, Types
  <2> QED BY <1>2, <2>1 DEF FindOnce, ISet, cvars, Types, TypeOK
<1>3. ASSUME NEW k \in ITasks, NEW m \in toInviter, NEW n \in Recs, FindPublic(k, m, n)
      PROVE  Types'
  <2>1. idid + 1 \in Dids /\ m.inv \in Refs
    BY <1>0, <1>3 DEF FindPublic, Types, Asked
  <2>2. [irec[n] EXCEPT !.from = m.inv, !.my = idid + 1] \in InviterRecord
    BY <1>0, <2>1 DEF InviterRecord, Refs
  <2>3. IAt("received", n, [irec[n] EXCEPT !.from = m.inv, !.my = idid + 1], m) \in ITask
    BY <2>2 DEF IAt, ITask, Types
  <2> QED BY <1>3, <2>1, <2>3 DEF FindPublic, ISet, cvars, Types, TypeOK
<1>4. ASSUME NEW k \in ITasks, NEW m \in toInviter, NEW i \in Recs, NEW n \in Recs,
             FindMulti(k, m, i, n)
      PROVE  Types'
  <2>1. idid + 1 \in Dids /\ m.inv \in Refs
    BY <1>0, <1>4 DEF FindMulti, Types, Asked
  <2>2. PerRequest(i, n, m) \in InviterRecord
    BY <1>0, <2>1, Blanks DEF PerRequest, InviterRecord, States, Refs
  <2>3. IAt("received", n, PerRequest(i, n, m), m) \in ITask
    BY <2>2 DEF IAt, ITask, Types
  <2> QED BY <1>4, <2>1, <2>2, <2>3 DEF FindMulti, ISet, cvars, Types, TypeOK
<1>5. ASSUME NEW m \in toInviter, NotInvited(m)
      PROVE  Types'
  <2>1. Problem(m.request) \in Report
    BY DEF Problem, Report, Types, Asked
  <2> QED BY <1>5, <2>1 DEF NotInvited, ivars, cvars, Types, TypeOK
<1>6. ASSUME NEW k \in ITasks, SaveRequest(k)
      PROVE  Types'
  <2>1. itask[k] \in ITask
    BY <1>6, Busy DEF SaveRequest
  <2> DEFINE i == itask[k].id
             r == [itask[k].rec EXCEPT !.state = "request", !.their = itask[k].req.did]
  <2>2. i \in Recs /\ r \in InviterRecord /\ itask[k].req \in Asked
    BY <2>1 DEF ITask, InviterRecord, States, Asked
  <2>3. IAt("respond", i, r, itask[k].req) \in ITask
    BY <2>2 DEF IAt, ITask
  <2> HIDE DEF i, r
  <2>4. irec' \in [Recs -> InviterRecord] /\ attached' \in [Recs -> SUBSET Asked]
    BY <1>6, <2>2 DEF SaveRequest, i, r, Types, TypeOK
  <2>5. itask' \in [ITasks -> {Idle} \cup ITask]
    BY <1>6, <2>3 DEF SaveRequest, ISet, i, r, Types
  <2> QED BY <1>6, <2>4, <2>5 DEF SaveRequest, cvars, Types, TypeOK
<1>7. ASSUME NEW k \in ITasks, CreateResponse(k)
      PROVE  Types'
  <2>1. itask[k] \in ITask
    BY <1>7, Busy DEF CreateResponse
  <2> DEFINE i == itask[k].id
             old == itask[k].rec
             my == IF old.my = 0 THEN idid + 1 ELSE old.my
             r == [old EXCEPT !.state = "response", !.my = my]
  <2>2. i \in Recs /\ old \in InviterRecord
    BY <2>1 DEF ITask
  <2>3. itask' \in [ITasks -> {Idle} \cup ITask]
    BY <1>7 DEF CreateResponse, ISet, Types
  <2>4. ASSUME NEW req \in AttachedTo(i), my <= MaxDid,
               toInvitee' = toInvitee \cup {Response(r.from, req.request, req.did, my)},
               irec' = [irec EXCEPT ![i] = r], idid' = IF old.my = 0 THEN my ELSE idid
        PROVE  Types'
    <3>1. my \in Dids
      <4>1. old.my \in Dids
        BY <2>2 DEF InviterRecord
      <4>2. old.my \in Nat /\ idid \in Nat
        BY <1>0, <4>1
      <4>3. my \in Nat
        BY <4>2
      <4> QED BY <1>0, <2>4, <4>3
    <3>2. r \in InviterRecord /\ r.from \in Refs
      BY <2>2, <3>1 DEF InviterRecord, States, Refs
    <3>3. req \in Asked
      BY <2>2 DEF AttachedTo, Types
    <3>4. Response(r.from, req.request, req.did, my) \in Answer
      BY <3>1, <3>2, <3>3 DEF Response, Answer, Asked
    <3>5. idid' \in Dids
      BY <1>0, <2>4, <3>1
    <3> HIDE DEF r, my, old, i
    <3> QED BY <1>7, <2>2, <2>3, <2>4, <3>2, <3>4, <3>5 DEF CreateResponse, cvars, Types, TypeOK
  <2>5. CASE UNCHANGED <<irec, idid, toInvitee>>
    BY <1>7, <2>3, <2>5 DEF CreateResponse, cvars, Types, TypeOK
  <2> QED BY <1>7, <2>4, <2>5 DEF CreateResponse
<1>8. ASSUME NEW k \in ITasks, NEW i \in Recs, AcceptRequest(k, i)
      PROVE  Types'
  <2>1. IAt("respond", i, irec[i], Request(NoRec, 0, 0)) \in ITask
    BY <1>0 DEF IAt, ITask, Request, Asked, Refs, Dids, Sensible
  <2> QED BY <1>8, <2>1 DEF AcceptRequest, ISet, cvars, Types, TypeOK
<1>9. ASSUME NEW i \in Recs, RemoveRecord(i)
      PROVE  Types'
  BY <1>9, Blanks DEF RemoveRecord, cvars, Types, TypeOK
<1>10. ASSUME NEW k \in ETasks, NEW c \in Conns, NEW i \in Recs, NEW auto \in Autos,
              ReceiveInvitation(k, c, i, auto)
       PROVE  Types'
  <2>1. Invited(i, auto) \in InviteeRecord
    BY Blanks DEF Invited, InviteeRecord, States, Sensible
  <2>2. CAt("request", c, Invited(i, auto)) \in Sending
    BY <2>1 DEF CAt, Sending
  <2> QED BY <1>10, <2>1, <2>2 DEF ReceiveInvitation, CSet, ivars, Types, TypeOK
<1>11. ASSUME NEW k \in ETasks, NEW c \in Conns, AcceptInvitation(k, c)
       PROVE  Types'
  <2>1. CAt("request", c, crec[c]) \in Sending
    BY <1>0 DEF CAt, Sending, Types, TypeOK
  <2> QED BY <1>11, <2>1 DEF AcceptInvitation, CSet, ivars, Types, TypeOK
<1>12. ASSUME NEW k \in ETasks, CreateRequest(k)
       PROVE  Types'
  <2>1. ctask[k] \in Sending /\ cdid + 1 \in Dids
    BY <1>0, <1>12, Busy DEF CreateRequest
  <2> DEFINE r == Requested(ctask[k].rec)
  <2>2. r \in InviteeRecord
    BY <2>1 DEF Requested, Sending, InviteeRecord, States
  <2>3. Request(r.from, r.request, r.my) \in Asked
    BY <2>2 DEF Request, Asked, InviteeRecord, Refs
  <2> HIDE DEF r
  <2>4. ctask' \in [ETasks -> {Idle} \cup Sending \cup Taking]
    BY <1>12 DEF CreateRequest, CSet, Types
  <2> QED BY <1>12, <2>1, <2>2, <2>3, <2>4 DEF CreateRequest, ivars, Types, TypeOK, r
<1>13. ASSUME NEW k \in ETasks, SaveResponse(k)
       PROVE  Types'
  <2>1. ctask[k] \in Taking
    BY <1>13, Busy DEF SaveResponse
  <2>2. \A now : WithTheirs(ctask[k].rec, now, ctask[k].msg) \in InviteeRecord
    BY <2>1 DEF WithTheirs, Taking, Answer, InviteeRecord, States
  <2>3. ctask' \in [ETasks -> {Idle} \cup Sending \cup Taking]
    BY <1>13 DEF SaveResponse, CSet, Types
  <2>4. crec' \in [Conns -> InviteeRecord]
    BY <1>13, <2>1, <2>2 DEF SaveResponse, Types, TypeOK
  <2> QED BY <1>13, <2>3, <2>4 DEF SaveResponse, ivars, Types, TypeOK
<1>14. ASSUME NEW m \in toInvitee, NEW c \in Conns, ReceiveProblem(m, c)
       PROVE  Types'
  <2>1. [crec[c] EXCEPT !.state = "abandoned"] \in InviteeRecord
    BY <1>0 DEF InviteeRecord, States, Types, TypeOK
  <2>2. crec' = [crec EXCEPT ![c] = [crec[c] EXCEPT !.state = "abandoned"]]
    BY <1>14 DEF ReceiveProblem
  <2> QED BY <1>14, <2>1, <2>2 DEF ReceiveProblem, ivars, Types, TypeOK
<1>15. ASSUME NEW k \in ETasks, NEW m \in toInvitee, NEW c \in Conns, AcceptResponse(k, m, c)
       PROVE  Types'
  <2>1. m \in Answer
    BY <1>15 DEF AcceptResponse, Types, Report
  <2>2. [pc |-> "accepted", id |-> c, rec |-> crec[c], msg |-> m] \in Taking
    BY <2>1 DEF Taking, Types, TypeOK
  <2> QED BY <1>15, <2>2 DEF AcceptResponse, CSet, ivars, Types, TypeOK
<1>16. ASSUME NEW c \in Conns, RemoveConn(c)
       PROVE  Types'
  BY <1>16, Blanks DEF RemoveConn, ivars, Types, TypeOK
<1>17. CASE UNCHANGED vars
  BY <1>17 DEF vars, Types, TypeOK
<1>18. ASSUME NEW m \in toInvitee, RefuseResponse(m)
       PROVE  Types'
  BY <1>17, <1>18 DEF RefuseResponse
<1> QED
  BY <1>1, <1>2, <1>3, <1>4, <1>5, <1>6, <1>7, <1>8, <1>9, <1>10, <1>11, <1>12, <1>13,
     <1>14, <1>15, <1>16, <1>17, <1>18 DEF Next, InviterStep, InviteeStep

-----------------------------------------------------------------------------
(***************************************************************************)
(* The invitees: a record in response has what a response said of it.      *)
(***************************************************************************)
\* What was sent stays so.
LEMMA CopyStays ==
    ASSUME NEW r, NEW R, NEW V, NEW R2, NEW V2, R \subseteq R2, V \subseteq V2, Copy(r, R, V)
    PROVE  Copy(r, R2, V2)
BY DEF Copy, WasSent

LEMMA AcceptedStays ==
    ASSUME NEW r, NEW t, NEW M, NEW M2, M \subseteq M2
    PROVE  (Accepted(r, M) => Accepted(r, M2)) /\ (Accepting(t, M) => Accepting(t, M2))
BY DEF Accepted, Accepting

\* The inviter adds invitations and messages, of invitations and requests that exist.
LEMMA InviteeOwn ==
    ASSUME InviteeInv, UNCHANGED cvars, toInviter' = toInviter,
           invitations \subseteq invitations', toInvitee \subseteq toInvitee',
           \A m \in toInvitee' : m.type = "response" => m \in toInvitee \/
               (m.inv \in invitations' /\ WasSent(m.request, m.to, toInviter))
    PROVE  InviteeInv'
<1>1. RequestInv'
  BY DEF InviteeInv, RequestInv, cvars
<1>2. \A c \in Conns : Copy(crec'[c], toInviter', invitations') /\ Accepted(crec'[c], toInvitee')
  BY CopyStays, AcceptedStays DEF InviteeInv, cvars
<1>3. \A k \in ETasks : ctask'[k] # Idle =>
         Copy(ctask'[k].rec, toInviter', invitations') /\ Live(ctask'[k].rec)
         /\ Accepting(ctask'[k], toInvitee')
  BY CopyStays, AcceptedStays DEF InviteeInv, cvars
<1> QED BY <1>1, <1>2, <1>3 DEF InviteeInv

\* An invitee's step that sends nothing writes a good record and a good task.
LEMMA InviteeQuiet ==
    ASSUME Types, InviteeInv, UNCHANGED <<cdid, invitations, toInviter, toInvitee>>,
           \A c \in Conns : crec'[c] = crec[c] \/
              (Copy(crec'[c], toInviter, invitations) /\ Accepted(crec'[c], toInvitee)),
           \A k \in ETasks : ctask'[k] \in {Idle, ctask[k]} \/
              (/\ Copy(ctask'[k].rec, toInviter, invitations) /\ Live(ctask'[k].rec)
               /\ Accepting(ctask'[k], toInvitee))
    PROVE  InviteeInv'
<1>1. RequestInv'
  BY DEF InviteeInv, RequestInv
<1>2. \A c \in Conns : Copy(crec'[c], toInviter, invitations) /\ Accepted(crec'[c], toInvitee)
  BY DEF InviteeInv
<1>3. \A k \in ETasks : ctask'[k] # Idle =>
         Copy(ctask'[k].rec, toInviter, invitations) /\ Live(ctask'[k].rec)
         /\ Accepting(ctask'[k], toInvitee)
  BY DEF InviteeInv
<1> QED BY <1>1, <1>2, <1>3 DEF InviteeInv

\* What an invitee's step leaves alone.
LEMMA InviteeLeaves ==
    ASSUME InviteeStep
    PROVE  /\ UNCHANGED <<irec, attached, itask, invitations, toInvitee>>
           /\ toInviter \subseteq toInviter'
BY DEF InviteeStep, ReceiveInvitation, AcceptInvitation, CreateRequest, SaveResponse,
   RefuseResponse, ReceiveProblem, AcceptResponse, RemoveConn, ivars, vars

LEMMA AttachedStep ==
    ASSUME Types, RequestInv, AttachedInv, Next
    PROVE  AttachedInv'
<1>0. /\ \A i \in Recs : irec[i] \in InviterRecord
      /\ \A m \in toInviter : m.inv \in invitations
  BY DEF Types, TypeOK, RequestInv
\* What a step may write.
<1> DEFINE GoodRec(r) == Live(r) => r.from \in invitations
           GoodTask(t) == t.rec.from \in invitations /\ (t.pc = "received" => t.req \in toInviter)
<1>w. ASSUME toInviter' = toInviter, invitations \subseteq invitations',
             \A i \in Recs : irec'[i] = irec[i] \/ (Live(irec'[i]) => irec'[i].from \in invitations'),
             \A i \in Recs : attached'[i] \subseteq toInviter,
             \A k \in ITasks : itask'[k] \in {Idle, itask[k]} \/ GoodTask(itask'[k])
      PROVE  AttachedInv'
  BY <1>w DEF AttachedInv
<1>1. ASSUME NEW i \in Recs, NEW kind \in Kinds, NEW auto \in Autos, CreateInvitation(i, kind, auto)
      PROVE  AttachedInv'
  <2>1. Waiting(i, kind, auto).from = i
    BY DEF Waiting, BlankRec
  <2>2. \A j \in Recs : irec'[j] = irec[j] \/ (j = i /\ irec'[j].from = i)
    BY <1>1, <2>1 DEF CreateInvitation, Types, TypeOK
  <2> QED BY <1>1, <1>w, <2>2 DEF CreateInvitation, AttachedInv
<1>2. ASSUME NEW k \in ITasks, NEW m \in toInviter, NEW i \in Recs, FindOnce(k, m, i)
      PROVE  AttachedInv'
  <2>1. GoodTask(IAt("received", i, irec[i], m))
    BY <1>2 DEF IAt, FindOnce, Invites, AttachedInv, Live, Unused
  <2>2. \A l \in ITasks : itask'[l] = itask[l] \/ GoodTask(itask'[l])
    BY <1>2, <2>1 DEF FindOnce, ISet, Types
  <2> QED BY <1>2, <1>w, <2>2 DEF FindOnce, AttachedInv
<1>3. ASSUME NEW k \in ITasks, NEW m \in toInviter, NEW n \in Recs, FindPublic(k, m, n)
      PROVE  AttachedInv'
  <2>1. GoodTask(IAt("received", n, [irec[n] EXCEPT !.from = m.inv, !.my = idid + 1], m))
    BY <1>0 DEF IAt, InviterRecord
  <2>2. \A l \in ITasks : itask'[l] = itask[l] \/ GoodTask(itask'[l])
    BY <1>3, <2>1 DEF FindPublic, ISet, Types
  <2> QED BY <1>3, <1>w, <2>2 DEF FindPublic, AttachedInv
<1>4. ASSUME NEW k \in ITasks, NEW m \in toInviter, NEW i \in Recs, NEW n \in Recs,
             FindMulti(k, m, i, n)
      PROVE  AttachedInv'
  <2>1. PerRequest(i, n, m).from = m.inv /\ m.inv \in invitations
    BY <1>0 DEF PerRequest, BlankRec
  <2>2. GoodTask(IAt("received", n, PerRequest(i, n, m), m))
    BY <2>1 DEF IAt
  <2>3. \A l \in ITasks : itask'[l] = itask[l] \/ GoodTask(itask'[l])
    BY <1>4, <2>2 DEF FindMulti, ISet, Types
  <2>4. \A j \in Recs : irec'[j] = irec[j] \/ irec'[j].from \in invitations
    BY <1>4, <2>1 DEF FindMulti, Types, TypeOK
  <2>5. UNCHANGED <<attached, invitations, toInviter>>
    BY <1>4 DEF FindMulti
  <2> QED BY <1>w, <2>3, <2>4, <2>5 DEF AttachedInv
<1>5. ASSUME NEW m \in toInviter, NotInvited(m)
      PROVE  AttachedInv'
  BY <1>5 DEF NotInvited, ivars, AttachedInv
<1>6. ASSUME NEW k \in ITasks, SaveRequest(k)
      PROVE  AttachedInv'
  <2>1. itask[k] \in ITask /\ itask[k] # Idle
    BY <1>6, Busy DEF SaveRequest
  <2> DEFINE i == itask[k].id
             r == [itask[k].rec EXCEPT !.state = "request", !.their = itask[k].req.did]
  <2>2. i \in Recs /\ r.from \in invitations /\ itask[k].req \in toInviter
    BY <1>6, <2>1 DEF ITask, InviterRecord, SaveRequest, AttachedInv
  <2>3. GoodTask(IAt("respond", i, r, itask[k].req))
    BY <2>2 DEF IAt
  <2> HIDE DEF i, r
  <2>4. \A l \in ITasks : itask'[l] \in {Idle, itask[l]} \/ GoodTask(itask'[l])
    BY <1>6, <2>3 DEF SaveRequest, ISet, Types, i, r
  <2>5. \A j \in Recs : irec'[j] = irec[j] \/ irec'[j].from \in invitations
    BY <1>6, <2>2 DEF SaveRequest, Types, TypeOK, i, r
  <2>6. \A j \in Recs : attached'[j] \subseteq toInviter
    BY <1>6, <2>2 DEF SaveRequest, Types, AttachedInv, i, r
  <2> QED BY <1>6, <1>w, <2>4, <2>5, <2>6 DEF SaveRequest
<1>7. ASSUME NEW k \in ITasks, CreateResponse(k)
      PROVE  AttachedInv'
  <2>1. itask[k] \in ITask /\ itask[k] # Idle
    BY <1>7, Busy DEF CreateResponse
  <2> DEFINE old == itask[k].rec
             my == IF old.my = 0 THEN idid + 1 ELSE old.my
             r == [old EXCEPT !.state = "response", !.my = my]
  <2>2. itask[k].id \in Recs /\ r.from \in invitations
    BY <2>1 DEF ITask, InviterRecord, AttachedInv
  <2>3. \A l \in ITasks : itask'[l] \in {Idle, itask[l]}
    BY <1>7 DEF CreateResponse, ISet, Types
  <2>4. irec' \in {irec, [irec EXCEPT ![itask[k].id] = r]}
    BY <1>7 DEF CreateResponse
  <2> HIDE DEF r
  <2>5. \A j \in Recs : irec'[j] = irec[j] \/ irec'[j].from \in invitations
    BY <2>2, <2>4 DEF Types, TypeOK
  <2> QED BY <1>7, <1>w, <2>3, <2>5 DEF CreateResponse, AttachedInv
<1>8. ASSUME NEW k \in ITasks, NEW i \in Recs, AcceptRequest(k, i)
      PROVE  AttachedInv'
  <2>1. GoodTask(IAt("respond", i, irec[i], Request(NoRec, 0, 0)))
    BY <1>8 DEF IAt, AcceptRequest, AttachedInv, Live, Unused
  <2>2. \A l \in ITasks : itask'[l] = itask[l] \/ GoodTask(itask'[l])
    BY <1>8, <2>1 DEF AcceptRequest, ISet, Types
  <2> QED BY <1>8, <1>w, <2>2 DEF AcceptRequest, AttachedInv
<1>9. ASSUME NEW i \in Recs, RemoveRecord(i)
      PROVE  AttachedInv'
  <2>1. ~Live([BlankRec EXCEPT !.state = "removed"])
    BY DEF BlankRec, Live, Unused
  <2>2. \A j \in Recs : irec'[j] = irec[j] \/ ~Live(irec'[j])
    BY <1>9, <2>1 DEF RemoveRecord, Types, TypeOK
  <2>3. \A j \in Recs : attached'[j] \subseteq toInviter
    BY <1>9 DEF RemoveRecord, Types, AttachedInv
  <2> QED BY <1>9, <1>w, <2>2, <2>3 DEF RemoveRecord
<1>10. CASE InviteeStep
  BY <1>10, InviteeLeaves DEF AttachedInv
<1> QED
  BY <1>1, <1>2, <1>3, <1>4, <1>5, <1>6, <1>7, <1>8, <1>9, <1>10 DEF Next, InviterStep

LEMMA InviteesStep ==
    ASSUME Sensible, Types, InviteeInv, AttachedInv, Next
    PROVE  InviteeInv'
<1>0. /\ \A c \in Conns : crec[c] \in InviteeRecord
      /\ \A c \in Conns : Copy(crec[c], toInviter, invitations) /\ Accepted(crec[c], toInvitee)
      /\ cdid \in Nat
  BY DEF Types, TypeOK, InviteeInv, Dids, Sensible
<1>o. ASSUME NEW m \in toInvitee', UNCHANGED cvars, toInviter' = toInviter,
             invitations' = invitations, toInvitee' = toInvitee \cup {m},
             m.type = "response" => m.inv \in invitations /\ WasSent(m.request, m.to, toInviter)
      PROVE  InviteeInv'
  BY <1>o, InviteeOwn
<1>1. ASSUME NEW i \in Recs, NEW kind \in Kinds, NEW auto \in Autos, CreateInvitation(i, kind, auto)
      PROVE  InviteeInv'
  BY <1>1, InviteeOwn DEF CreateInvitation
<1>2. ASSUME NEW k \in ITasks, NEW m \in toInviter, NEW i \in Recs, NEW n \in Recs,
             FindOnce(k, m, i) \/ FindPublic(k, m, i) \/ FindMulti(k, m, i, n)
      PROVE  InviteeInv'
  <2>1. UNCHANGED <<cvars, invitations, toInviter, toInvitee>>
    BY <1>2 DEF FindOnce, FindPublic, FindMulti
  <2> QED BY <2>1, InviteeOwn
<1>3. ASSUME NEW m \in toInviter, NotInvited(m)
      PROVE  InviteeInv'
  BY <1>3, <1>o DEF NotInvited, Problem
<1>4. ASSUME \/ \E k \in ITasks : SaveRequest(k)
             \/ \E k \in ITasks, i \in Recs : AcceptRequest(k, i)
             \/ \E i \in Recs : RemoveRecord(i)
      PROVE  InviteeInv'
  <2>1. UNCHANGED <<cvars, invitations, toInviter, toInvitee>>
    BY <1>4 DEF SaveRequest, AcceptRequest, RemoveRecord
  <2> QED BY <2>1, InviteeOwn
<1>5. ASSUME NEW k \in ITasks, CreateResponse(k)
      PROVE  InviteeInv'
  <2>1. itask[k] \in ITask /\ itask[k] # Idle
    BY <1>5, Busy DEF CreateResponse
  <2>2. UNCHANGED <<cvars, invitations, toInviter>>
    BY <1>5 DEF CreateResponse
  <2> DEFINE i == itask[k].id
             old == itask[k].rec
             my == IF old.my = 0 THEN idid + 1 ELSE old.my
             r == [old EXCEPT !.state = "response", !.my = my]
  <2>3. i \in Recs /\ r.from \in invitations
    BY <2>1 DEF ITask, InviterRecord, AttachedInv
  <2>4. ASSUME NEW req \in AttachedTo(i),
               toInvitee' = toInvitee \cup {Response(r.from, req.request, req.did, my)}
        PROVE  InviteeInv'
    <3>1. req \in toInviter
      BY <2>3 DEF AttachedTo, AttachedInv
    <3> DEFINE m == Response(r.from, req.request, req.did, my)
    <3>2. m.inv = r.from /\ m.request = req.request /\ m.to = req.did
      BY DEF Response
    <3>3. m.inv \in invitations /\ WasSent(m.request, m.to, toInviter)
      BY <2>3, <3>1, <3>2 DEF WasSent
    <3>4. toInvitee' = toInvitee \cup {m}
      BY <2>4
    <3> HIDE DEF m
    <3> QED BY <1>o, <2>2, <3>3, <3>4
  <2>5. CASE UNCHANGED toInvitee
    BY <2>2, <2>5, InviteeOwn
  <2> QED BY <1>5, <2>4, <2>5 DEF CreateResponse
<1>6. ASSUME NEW k \in ETasks, NEW c \in Conns, NEW i \in Recs, NEW auto \in Autos,
             ReceiveInvitation(k, c, i, auto)
      PROVE  InviteeInv'
  <2> DEFINE r == Invited(i, auto)
  <2>1. r.from = i /\ r.request = 0 /\ r.state = "invitation" /\ i \in invitations
    BY <1>6 DEF Invited, BlankConn, ReceiveInvitation
  <2>2. Copy(r, toInviter, invitations) /\ Accepted(r, toInvitee) /\ Live(r)
    BY <2>1 DEF Copy, Accepted, Live, Unused
  <2>3. CAt("request", c, r).rec = r /\ CAt("request", c, r).pc = "request"
    BY DEF CAt
  <2>4. /\ crec' = [crec EXCEPT ![c] = r]
        /\ ctask' = [ctask EXCEPT ![k] = IF auto THEN CAt("request", c, r) ELSE Idle]
        /\ UNCHANGED <<cdid, invitations, toInviter, toInvitee>>
    BY <1>6 DEF ReceiveInvitation, CSet
  <2> HIDE DEF r
  <2>5. \A d \in Conns : crec'[d] \in {crec[d], r}
    BY <2>4 DEF Types, TypeOK
  <2>6. \A l \in ETasks : ctask'[l] \in {Idle, ctask[l], CAt("request", c, r)}
    BY <2>4 DEF Types
  <2>7. Accepting(CAt("request", c, r), toInvitee)
    BY <2>3 DEF Accepting
  <2> QED BY <2>2, <2>3, <2>4, <2>5, <2>6, <2>7, InviteeQuiet
<1>7. ASSUME NEW k \in ETasks, NEW c \in Conns, AcceptInvitation(k, c)
      PROVE  InviteeInv'
  <2>1. /\ Live(crec[c]) /\ UNCHANGED <<crec, cdid, invitations, toInviter, toInvitee>>
        /\ ctask' = [ctask EXCEPT ![k] = CAt("request", c, crec[c])]
    BY <1>7 DEF AcceptInvitation, CSet
  <2>2. \A l \in ETasks : ctask'[l] \in {ctask[l], CAt("request", c, crec[c])}
    BY <2>1 DEF Types
  <2>3. CAt("request", c, crec[c]).rec = crec[c] /\ Accepting(CAt("request", c, crec[c]), toInvitee)
    BY DEF CAt, Accepting
  <2> QED BY <1>0, <2>1, <2>2, <2>3, InviteeQuiet
<1>8. ASSUME NEW k \in ETasks, CreateRequest(k)
      PROVE  InviteeInv'
  <2>1. ctask[k] \in Sending /\ ctask[k] # Idle
    BY <1>8, Busy DEF CreateRequest
  <2> DEFINE old == ctask[k].rec
             r == Requested(old)
             q == Request(r.from, r.request, r.my)
  <2>2. Copy(old, toInviter, invitations) /\ Live(old) /\ old \in InviteeRecord
    BY <2>1 DEF InviteeInv, Sending
  <2>3. /\ ctask' = [ctask EXCEPT ![k] = Idle] /\ UNCHANGED <<invitations, toInvitee>>
    BY <1>8 DEF CreateRequest, CSet
  <2>4. \A l \in ETasks : ctask'[l] \in {Idle, ctask[l]}
    BY <2>3 DEF Types
  <2>5. CASE UNCHANGED <<crec, toInviter, cdid>>
    BY <2>3, <2>4, <2>5, InviteeQuiet
  <2>6. CASE /\ crec' = [crec EXCEPT ![ctask[k].id] = r] /\ cdid' = cdid + 1
             /\ toInviter' = toInviter \cup {q}
    <3>1. r.from = old.from /\ r.request = cdid + 1 /\ r.state = "request"
      BY <2>2 DEF Requested, InviteeRecord
    <3>2. q.inv = old.from /\ q.request = cdid + 1 /\ q.did = r.my
      BY <3>1 DEF Request
    <3>3. old.from \in invitations
      BY <2>2 DEF Copy
    <3> HIDE DEF r, q
    <3>4. /\ \A p \in toInviter' : p.request \in 1..cdid' /\ p.inv \in invitations'
          /\ \A p \in toInviter : p.request # q.request
      <4>1. \A p \in toInviter : p.request \in 1..cdid /\ p.inv \in invitations
        BY DEF InviteeInv, RequestInv
      <4> QED BY <1>0, <2>3, <2>6, <3>2, <3>3, <4>1
    <3>5. \A p, s \in toInviter' : p.request = s.request => p = s
      BY <2>6, <3>4 DEF InviteeInv, RequestInv
    <3>6. \A m \in toInvitee' : m.type = "response" =>
             m.inv \in invitations' /\ WasSent(m.request, m.to, toInviter')
      BY <2>3, <2>6 DEF InviteeInv, RequestInv, WasSent
    <3>7. Copy(r, toInviter', invitations') /\ Accepted(r, toInvitee')
      BY <2>3, <2>6, <3>1, <3>2, <3>3 DEF Copy, Accepted, WasSent
    <3>8. \A d \in Conns : Copy(crec'[d], toInviter', invitations') /\ Accepted(crec'[d], toInvitee')
      <4>1. \A d \in Conns : crec'[d] \in {crec[d], r}
        BY <2>6 DEF Types, TypeOK
      <4>2. \A d \in Conns : Copy(crec[d], toInviter', invitations') /\ Accepted(crec[d], toInvitee')
        BY <1>0, <2>3, <2>6, CopyStays
      <4> QED BY <3>7, <4>1, <4>2
    <3>9. \A l \in ETasks : ctask'[l] # Idle =>
             Copy(ctask'[l].rec, toInviter', invitations') /\ Live(ctask'[l].rec)
             /\ Accepting(ctask'[l], toInvitee')
      BY <2>3, <2>4, <2>6, CopyStays DEF InviteeInv
    <3> QED BY <3>4, <3>5, <3>6, <3>8, <3>9 DEF InviteeInv, RequestInv
  <2> QED BY <1>8, <2>5, <2>6 DEF CreateRequest
<1>9. ASSUME NEW k \in ETasks, SaveResponse(k)
      PROVE  InviteeInv'
  <2>1. ctask[k] \in Taking /\ ctask[k] # Idle /\ ctask[k].pc = "accepted"
    BY <1>9, Busy DEF SaveResponse
  <2> DEFINE mine == ctask[k].rec
             m == ctask[k].msg
  <2>2. /\ Copy(mine, toInviter, invitations) /\ Live(mine)
        /\ m \in toInvitee /\ Says(m, mine.from, m.did, mine.my)
    BY <2>1 DEF InviteeInv, Accepting
  <2>3. mine \in InviteeRecord
    BY <2>1 DEF Taking
  <2> HIDE DEF mine, m
  <2>4. ASSUME NEW now
        PROVE  /\ Copy(WithTheirs(mine, now, m), toInviter, invitations)
               /\ Accepted(WithTheirs(mine, now, m), toInvitee)
    <3> DEFINE r == WithTheirs(mine, now, m)
    <3>1. /\ r.from = mine.from /\ r.request = mine.request /\ r.my = mine.my
          /\ r.their = m.did /\ r.state = "response"
      BY <2>3 DEF WithTheirs, InviteeRecord
    <3> HIDE DEF r
    <3>2. Copy(r, toInviter, invitations)
      BY <2>2, <3>1 DEF Copy
    <3>3. Accepted(r, toInvitee)
      BY <2>2, <3>1 DEF Accepted, Says
    <3> QED BY <3>2, <3>3 DEF r
  <2>5. \A d \in Conns : crec'[d] = crec[d] \/ \E now : crec'[d] = WithTheirs(mine, now, m)
    BY <1>9 DEF SaveResponse, Types, TypeOK, mine, m
  <2>6. \A l \in ETasks : ctask'[l] \in {Idle, ctask[l]}
    BY <1>9 DEF SaveResponse, CSet, Types
  <2>7. UNCHANGED <<cdid, invitations, toInviter, toInvitee>>
    BY <1>9 DEF SaveResponse
  <2> QED BY <2>4, <2>5, <2>6, <2>7, InviteeQuiet
<1>10. ASSUME NEW m \in toInvitee, NEW c \in Conns, ReceiveProblem(m, c)
       PROVE  InviteeInv'
  <2> DEFINE r == [crec[c] EXCEPT !.state = "abandoned"]
  <2>1. c \in OfRequest(m)
    BY <1>10 DEF ReceiveProblem
  <2>2. r.from = crec[c].from /\ r.request = crec[c].request /\ r.my = crec[c].my
        /\ r.state = "abandoned" /\ Live(crec[c])
    BY <1>0, <2>1 DEF InviteeRecord, OfRequest
  <2>3. crec' = [crec EXCEPT ![c] = r] /\ UNCHANGED <<ctask, cdid, invitations, toInviter, toInvitee>>
    BY <1>10 DEF ReceiveProblem
  <2> HIDE DEF r
  <2>4. Copy(r, toInviter, invitations) /\ Accepted(r, toInvitee)
    BY <1>0, <2>2 DEF Copy, Accepted
  <2>5. \A d \in Conns : crec'[d] \in {crec[d], r}
    BY <2>3 DEF Types, TypeOK
  <2> QED BY <2>3, <2>4, <2>5, InviteeQuiet
<1>11. ASSUME NEW k \in ETasks, NEW m \in toInvitee, NEW c \in Conns, AcceptResponse(k, m, c)
       PROVE  InviteeInv'
  <2>1. /\ m.type = "response" /\ crec[c].state \in {"request", "response"}
        /\ crec[c].from = m.inv /\ c \in OfRequest(m) \cup OfDids(m)
        /\ ctask' = [ctask EXCEPT ![k] = [pc |-> "accepted", id |-> c, rec |-> crec[c], msg |-> m]]
        /\ UNCHANGED <<crec, cdid, invitations, toInviter, toInvitee>>
    BY <1>11 DEF AcceptResponse, Answered, CSet
  <2>2. crec[c].my = m.to
    <3>1. CASE c \in OfDids(m)
      BY <3>1 DEF OfDids
    <3>2. CASE c \in OfRequest(m)
      <4>1. PICK p \in toInviter : p.request = m.request /\ p.did = m.to
        BY <2>1 DEF InviteeInv, RequestInv, WasSent
      <4>2. m.request # 0 /\ crec[c].request = m.request
        BY <3>2, <4>1 DEF OfRequest, InviteeInv, RequestInv
      <4>3. PICK q \in toInviter : q.request = m.request /\ q.did = crec[c].my
        BY <1>0, <4>2 DEF Copy, WasSent
      <4>4. p = q
        BY <4>1, <4>3 DEF InviteeInv, RequestInv
      <4> QED BY <4>1, <4>3, <4>4
    <3> QED BY <2>1, <3>1, <3>2
  <2>3. Live(crec[c])
    BY <2>1 DEF Live, Unused
  <2> DEFINE t == [pc |-> "accepted", id |-> c, rec |-> crec[c], msg |-> m]
  <2>4. t.rec = crec[c] /\ Accepting(t, toInvitee)
    BY <2>1, <2>2 DEF Accepting, Says
  <2>5. \A l \in ETasks : ctask'[l] \in {ctask[l], t}
    BY <2>1 DEF Types
  <2> HIDE DEF t
  <2> QED BY <1>0, <2>1, <2>3, <2>4, <2>5, InviteeQuiet
<1>12. ASSUME NEW c \in Conns, RemoveConn(c)
       PROVE  InviteeInv'
  <2> DEFINE r == [BlankConn EXCEPT !.state = "removed"]
  <2>1. ~Live(r) /\ r.request = 0 /\ r.state = "removed"
    BY DEF BlankConn, Live, Unused
  <2>2. Copy(r, toInviter, invitations) /\ Accepted(r, toInvitee)
    BY <2>1 DEF Copy, Accepted
  <2>3. \A d \in Conns : crec'[d] \in {crec[d], r}
    BY <1>12 DEF RemoveConn, Types, TypeOK
  <2> HIDE DEF r
  <2> QED BY <1>12, <2>2, <2>3, InviteeQuiet DEF RemoveConn
<1>13. ASSUME NEW m \in toInvitee, RefuseResponse(m)
       PROVE  InviteeInv'
  BY <1>13, InviteeOwn DEF RefuseResponse, vars, cvars
<1> QED
  BY <1>1, <1>2, <1>3, <1>4, <1>5, <1>6, <1>7, <1>8, <1>9, <1>10, <1>11, <1>12, <1>13
     DEF Next, InviterStep, InviteeStep

-----------------------------------------------------------------------------
(***************************************************************************)
(* The inviter: a record made for a request has the two DIDs of its        *)
(* response.                                                               *)
(***************************************************************************)
\* A record that was removed does not come back.
LEMMA RemovedStays ==
    ASSUME Types, Next, NoneRemoved'
    PROVE  NoneRemoved /\ \A i \in Recs : ~RemoveRecord(i)
<1>1. ASSUME NEW j \in Recs, irec[j].state = "removed"
      PROVE  irec'[j] = irec[j]
  <2>1. ~Live(irec[j])
    BY <1>1 DEF Live, Unused
  <2>2. CASE InviteeStep
    BY <2>2, InviteeLeaves
  <2>3. ASSUME NEW i \in Recs, RemoveRecord(i)
        PROVE  irec'[j] = irec[j]
    BY <2>1, <2>3 DEF RemoveRecord, Types, TypeOK
  <2>4. ASSUME NEW k \in ITasks, SaveRequest(k) \/ CreateResponse(k)
        PROVE  irec'[j] = irec[j]
    BY <1>1, <2>1, <2>4, Busy DEF SaveRequest, CreateResponse, Types, TypeOK, ITask
  <2>5. ASSUME NEW i \in Recs, NEW kind \in Kinds, NEW auto \in Autos, CreateInvitation(i, kind, auto)
        PROVE  irec'[j] = irec[j]
    BY <1>1, <2>5 DEF CreateInvitation, FreeRecs, Types, TypeOK
  <2>6. ASSUME NEW k \in ITasks, NEW m \in toInviter, NEW i \in Recs, NEW n \in Recs,
               FindMulti(k, m, i, n)
        PROVE  irec'[j] = irec[j]
    BY <1>1, <2>6 DEF FindMulti, FreeRecs, Types, TypeOK
  <2>7. ASSUME NEW m \in toInviter,
               NotInvited(m) \/ \E k \in ITasks, i \in Recs : FindOnce(k, m, i) \/ FindPublic(k, m, i)
        PROVE  irec'[j] = irec[j]
    BY <2>7 DEF FindOnce, FindPublic, NotInvited, ivars
  <2>8. ASSUME NEW k \in ITasks, NEW i \in Recs, AcceptRequest(k, i)
        PROVE  irec'[j] = irec[j]
    BY <2>8 DEF AcceptRequest
  <2> QED BY <2>2, <2>3, <2>4, <2>5, <2>6, <2>7, <2>8 DEF Next, InviterStep
<1>2. ASSUME NEW i \in Recs, RemoveRecord(i)
      PROVE  FALSE
  <2>1. irec'[i] = [BlankRec EXCEPT !.state = "removed"]
    BY <1>2 DEF RemoveRecord, Types, TypeOK
  <2>2. irec'[i].state = "removed"
    BY <2>1 DEF BlankRec
  <2> QED BY <2>2 DEF NoneRemoved
<1> QED BY <1>1, <1>2 DEF NoneRemoved

\* A step that writes one record i, and keeps its kind if it has one.
Touches(i) ==
    /\ \A j \in Recs : j # i => irec'[j] = irec[j] /\ attached'[j] = attached[j]
    /\ \A j \in Recs : Born(j) => irec'[j].kind = irec[j].kind /\ irec'[j].state # "unborn"
    /\ toInviter \subseteq toInviter'
    /\ \A l \in ITasks : itask'[l] \in {Idle, itask[l]} \/ itask'[l].id = i

\* What such a step leaves of the invariant: the invitations' kinds, ...
LEMMA KindsStay ==
    ASSUME InviterInv, invitations \subseteq Recs, NEW i \in Recs, Touches(i)
    PROVE  \A v \in invitations : v \in Recs /\ (Multi(v)' <=> Multi(v)) /\ irec'[v].state # "unborn"
BY DEF InviterInv, Touches, Multi

\* ... the other records, ...
LEMMA OthersStay ==
    ASSUME InviterInv, AttachedInv, NoneRemoved, invitations \subseteq Recs,
           NEW i \in Recs, Touches(i),
           NEW j \in Recs, j # i
    PROVE  OwnInv(j)' /\ ServedInv(j)' /\ (Served(j)' <=> Served(j))
<1>1. irec'[j] = irec[j] /\ attached'[j] = attached[j] /\ toInviter \subseteq toInviter'
  BY DEF Touches
<1>2. OwnInv(j) /\ ServedInv(j)
  BY DEF InviterInv
<1>3. Born(j) => irec[j].from \in invitations
  BY DEF AttachedInv, NoneRemoved, Live, Unused, Born
<1>4. Served(j)' <=> Served(j)
  BY <1>1, <1>3, KindsStay DEF Served, Born
<1>5. OwnInv(j)'
  BY <1>1, <1>2 DEF OwnInv, Born
<1>6. ServedInv(j)'
  BY <1>1, <1>2, <1>4 DEF ServedInv, Taken
<1> QED BY <1>4, <1>5, <1>6

\* ... and the other tasks.
LEMMA TasksStay ==
    ASSUME InviterInv, AttachedInv, NoneRemoved, invitations \subseteq Recs,
           NEW i \in Recs, Touches(i),
           NEW l \in ITasks, itask'[l] = itask[l], itask[l] # Idle => itask[l].id \in Recs \ {i}
    PROVE  TaskInv(l)'
<1> SUFFICES ASSUME itask[l] # Idle
             PROVE  TaskInv(l)'
  BY DEF TaskInv
<1> DEFINE j == itask[l].id
           r == itask[l].rec
<1>1. j \in Recs /\ j # i /\ TaskInv(l)
  BY DEF InviterInv
<1>2. irec'[j] = irec[j] /\ attached'[j] = attached[j]
  BY <1>1 DEF Touches
<1>3. Served(j)' <=> Served(j)
  BY <1>1, OthersStay
<1>4. Multi(r.from)' <=> Multi(r.from)
  BY KindsStay DEF AttachedInv
<1>5. Alone(l) => Alone(l)'
  BY <1>1 DEF Alone, Touches
<1> QED BY <1>1, <1>2, <1>3, <1>4, <1>5 DEF TaskInv, Born

\* The responses that were sent keep their pairs, if record i keeps those it is.
LEMMA AnswersStay ==
    ASSUME InviterInv, AttachedInv, RequestInv, NoneRemoved, invitations \subseteq Recs,
           NEW i \in Recs, Touches(i),
           \A m \in toInvitee : Pairs(i, m) => Pairs(i, m)'
    PROVE  \A m \in toInvitee : m.type = "response" /\ Multi(m.inv)' =>
              \E j \in Recs : Pairs(j, m)'
<1> SUFFICES ASSUME NEW m \in toInvitee, m.type = "response", Multi(m.inv)'
             PROVE  \E j \in Recs : Pairs(j, m)'
  OBVIOUS
<1>1. Multi(m.inv)
  BY KindsStay DEF RequestInv
<1>2. PICK j \in Recs : Pairs(j, m)
  BY <1>1 DEF InviterInv, AnswerInv
<1>3. CASE j = i
  BY <1>2, <1>3
<1>4. CASE j # i
  <2>1. irec'[j] = irec[j] /\ attached'[j] = attached[j]
    BY <1>4 DEF Touches
  <2>2. Served(j)' <=> Served(j)
    BY <1>4, OthersStay
  <2> QED BY <1>2, <2>1, <2>2 DEF Pairs
<1> QED BY <1>3, <1>4

\* A task is none the worse for what it does not read.
LEMMA SameTask ==
    ASSUME UNCHANGED <<irec, attached, itask>>, NEW l \in ITasks, TaskInv(l)
    PROVE  TaskInv(l)'
<1>1. /\ Alone(l)' <=> Alone(l)
      /\ Born(itask[l].id)' <=> Born(itask[l].id)
  BY DEF Alone, Born
<1>2. \A v : Multi(v)' <=> Multi(v)
  BY DEF Multi
<1>3. Served(itask[l].id)' <=> Served(itask[l].id)
  BY <1>1, <1>2 DEF Served
<1> QED BY <1>1, <1>2, <1>3 DEF TaskInv

\* A step of the inviter that only starts a task, with a copy of record i.
LEMMA StartStep ==
    ASSUME Types, AttachedInv, NoneRemoved, InviterInv,
           NEW k \in ITasks, NEW i \in Recs,
           UNCHANGED <<irec, attached, invitations, toInviter, toInvitee>>,
           \A l \in ITasks : l # k => itask'[l] = itask[l],
           itask[k] = Idle, itask'[k].id = i, TaskInv(k)',
           \A l \in ITasks : itask[l] # Idle /\ itask[l].id = i =>
               Born(i) /\ ~(Served(i) /\ itask[l].pc = "received")
    PROVE  InviterInv'
<1>1. \A v : Multi(v)' <=> Multi(v)
  BY DEF Multi
<1>2. \A j \in Recs : OwnInv(j)' /\ ServedInv(j)' /\ (Served(j)' <=> Served(j))
  BY <1>1 DEF InviterInv, OwnInv, ServedInv, Served, Taken, Born
<1>3. ASSUME NEW l \in ITasks, l # k
      PROVE  TaskInv(l)'
  <2>1. TaskInv(l) /\ itask'[l] = itask[l]
    BY <1>3 DEF InviterInv
  <2>2. CASE itask[l] = Idle
    BY <2>1, <2>2 DEF TaskInv
  <2>3. CASE itask[l] # Idle
    <3>1. PICK j \in Recs : j = itask[l].id
      BY <2>3, Busy DEF ITask
    <3>2. Alone(l) /\ j # i => Alone(l)'
      BY <2>1, <2>3, <3>1 DEF Alone
    <3>3. Served(j)' <=> Served(j)
      BY <1>2
    <3>4. itask'[l].id = j /\ itask'[l].rec = itask[l].rec /\ itask'[l].pc = itask[l].pc
      BY <2>1, <3>1
    <3> QED BY <1>1, <2>1, <2>3, <3>1, <3>2, <3>3, <3>4 DEF TaskInv, Born
  <2> QED BY <2>2, <2>3
<1>4. \A v \in invitations' : Born(v)'
  BY DEF InviterInv, Born
<1>5. AnswerInv'
  BY <1>1, <1>2 DEF InviterInv, AnswerInv, Pairs
<1> QED BY <1>2, <1>3, <1>4, <1>5 DEF InviterInv

LEMMA InviterStepInv ==
    ASSUME Sensible, Types, RequestInv, AttachedInv, NoneRemoved, InviterInv, Next, NoneRemoved'
    PROVE  InviterInv'
<1>0. /\ \A i \in Recs : irec[i] \in InviterRecord /\ OwnInv(i) /\ ServedInv(i)
      /\ \A k \in ITasks : TaskInv(k)
      /\ \A m \in toInviter : m.inv \in invitations
      /\ invitations \subseteq Recs /\ \A v \in invitations : Born(v)
      /\ \A i \in Recs : Born(i) => irec[i].from \in invitations
      /\ idid \in Nat
  BY DEF Types, TypeOK, InviterInv, RequestInv, AttachedInv, NoneRemoved, Born, Live, Unused,
     Dids, Sensible
<1>1. ASSUME NEW i \in Recs, NEW kind \in Kinds, NEW auto \in Autos, CreateInvitation(i, kind, auto)
      PROVE  InviterInv'
  <2> DEFINE r == Waiting(i, kind, auto)
  <2>1. /\ r.state = "invitation" /\ r.kind = kind /\ r.from = i
        /\ kind # ""
    BY DEF Waiting, BlankRec, Sensible
  <2> HIDE DEF r
  <2>2. /\ irec' = [irec EXCEPT ![i] = r] /\ invitations' = invitations \cup {i}
        /\ UNCHANGED <<attached, itask, toInviter, toInvitee>>
        /\ ~Born(i) /\ \A l \in ITasks : itask[l] # Idle => itask[l].id # i
    BY <1>1 DEF CreateInvitation, FreeRecs, Born, r
  <2>3. irec'[i] = r /\ \A j \in Recs : j # i => irec'[j] = irec[j]
    BY <2>2 DEF Types, TypeOK
  <2>4. Touches(i)
    BY <2>1, <2>2, <2>3 DEF Touches, Born
  <2>5. attached[i] = {}
    BY <1>0, <2>2 DEF OwnInv
  <2>6. OwnInv(i)' /\ ServedInv(i)'
    BY <2>1, <2>2, <2>3, <2>5 DEF OwnInv, ServedInv, Served, Born
  <2>7. \A j \in Recs : OwnInv(j)' /\ ServedInv(j)'
    BY <1>0, <2>4, <2>6, OthersStay
  <2>8. \A l \in ITasks : TaskInv(l)'
    BY <1>0, <2>2, <2>4, TasksStay, Busy DEF ITask
  <2>9. \A v \in invitations' : Born(v)'
    BY <1>0, <2>1, <2>2, <2>3 DEF Born
  <2>10. \A m \in toInvitee : Pairs(i, m) => Pairs(i, m)'
    BY <2>2 DEF Pairs, Served
  <2>11. AnswerInv'
    BY <1>0, <2>2, <2>4, <2>10, AnswersStay DEF AnswerInv
  <2> QED BY <2>7, <2>8, <2>9, <2>11 DEF InviterInv
<1>2. ASSUME NEW k \in ITasks, NEW m \in toInviter, NEW i \in Recs, FindOnce(k, m, i)
      PROVE  InviterInv'
  <2> DEFINE t == IAt("received", i, irec[i], m)
  <2>1. /\ itask' = [itask EXCEPT ![k] = t] /\ itask[k] = Idle
        /\ UNCHANGED <<irec, attached, invitations, toInviter, toInvitee>>
        /\ irec[i].kind = "once" /\ irec[i].state = "invitation"
    BY <1>2 DEF FindOnce, ISet, Invites
  <2>2. t.id = i /\ t.rec = irec[i] /\ t.pc = "received"
    BY DEF IAt
  <2> HIDE DEF t
  <2>3. itask'[k] = t /\ \A l \in ITasks : l # k => itask'[l] = itask[l]
    BY <2>1 DEF Types
  <2>4. Born(i) /\ ~Served(i) /\ Live(irec[i]) /\ irec[i].from = i
    BY <1>0, <2>1 DEF Born, Served, Live, Unused, OwnInv
  <2>5. TaskInv(k)'
    BY <2>1, <2>2, <2>3, <2>4 DEF TaskInv, Born, Served, Multi, Live
  <2> QED BY <2>1, <2>2, <2>3, <2>4, <2>5, StartStep
<1>3. ASSUME NEW k \in ITasks, NEW m \in toInviter, NEW n \in Recs, FindPublic(k, m, n)
      PROVE  InviterInv'
  <2> DEFINE r == [irec[n] EXCEPT !.from = m.inv, !.my = idid + 1]
             t == IAt("received", n, r, m)
  <2>1. /\ itask' = [itask EXCEPT ![k] = t] /\ itask[k] = Idle
        /\ UNCHANGED <<irec, attached, invitations, toInviter, toInvitee>>
        /\ m.inv \in Recs /\ irec[m.inv].kind = "public"
        /\ \/ irec[n].state = "invitation" /\ n = m.inv
           \/ n \in FreeRecs
    BY <1>3 DEF FindPublic, ISet, Invites
  <2>2. /\ t.id = n /\ t.rec = r /\ t.pc = "received"
        /\ r.from = m.inv /\ r.kind = irec[n].kind /\ r.state = irec[n].state
    BY <1>0 DEF IAt, InviterRecord
  <2> HIDE DEF r, t
  <2>3. itask'[k] = t /\ \A l \in ITasks : l # k => itask'[l] = itask[l]
    BY <2>1 DEF Types
  <2>4. CASE irec[n].state = "invitation" /\ n = m.inv
    <3>1. Born(n) /\ ~Served(n) /\ Live(r) /\ irec[n].from = n
      BY <1>0, <2>1, <2>2, <2>4 DEF Born, Served, Live, Unused, OwnInv
    <3>2. TaskInv(k)'
      BY <2>1, <2>2, <2>3, <2>4, <3>1 DEF TaskInv, Born, Served, Multi, Live
    <3> QED BY <2>1, <2>2, <2>3, <3>1, <3>2, StartStep
  <2>5. CASE n \in FreeRecs
    <3>1. ~Born(n) /\ irec[n].kind = "" /\ \A l \in ITasks : itask[l] # Idle => itask[l].id # n
      <4>1. ~Born(n) /\ \A l \in ITasks : itask[l] # Idle => itask[l].id # n
        BY <2>5 DEF FreeRecs, Born
      <4>2. irec[n] = BlankRec
        BY <1>0, <4>1 DEF OwnInv
      <4>3. BlankRec.kind = ""
        BY DEF BlankRec
      <4> QED BY <4>1, <4>2, <4>3
    <3>2. Alone(k)'
      BY <2>1, <2>2, <2>3, <3>1 DEF Alone
    <3>3. TaskInv(k)'
      BY <2>1, <2>2, <2>3, <3>1, <3>2 DEF TaskInv, Born, Served, Multi
    <3> QED BY <2>1, <2>2, <2>3, <3>1, <3>3, StartStep
  <2> QED BY <2>1, <2>4, <2>5
<1>4. ASSUME NEW k \in ITasks, NEW i \in Recs, AcceptRequest(k, i)
      PROVE  InviterInv'
  <2> DEFINE t == IAt("respond", i, irec[i], Request(NoRec, 0, 0))
  <2>1. /\ itask' = [itask EXCEPT ![k] = t] /\ itask[k] = Idle
        /\ UNCHANGED <<irec, attached, invitations, toInviter, toInvitee>>
        /\ attached[i] # {} /\ irec[i].state \in {"request", "response"}
    BY <1>4 DEF AcceptRequest, ISet
  <2>2. t.id = i /\ t.rec = irec[i] /\ t.pc = "respond"
    BY DEF IAt
  <2> HIDE DEF t
  <2>3. itask'[k] = t /\ \A l \in ITasks : l # k => itask'[l] = itask[l]
    BY <2>1 DEF Types
  <2>4. Born(i) /\ Live(irec[i]) /\ OwnInv(i)
    BY <1>0, <2>1 DEF Born, Live, Unused
  <2>5. TaskInv(k)'
    BY <2>1, <2>2, <2>3, <2>4 DEF TaskInv, Born, Served, Multi, Live, OwnInv
  <2>6. \A l \in ITasks : itask[l] # Idle /\ itask[l].id = i =>
           ~(Served(i) /\ itask[l].pc = "received")
    BY <1>0, <2>1 DEF TaskInv
  <2> QED BY <2>1, <2>2, <2>3, <2>4, <2>5, <2>6, StartStep
<1>5. ASSUME NEW k \in ITasks, NEW m \in toInviter, NEW i \in Recs, NEW n \in Recs,
             FindMulti(k, m, i, n)
      PROVE  InviterInv'
  <2> DEFINE r == PerRequest(i, n, m)
             t == IAt("received", n, r, m)
  <2>1. /\ r.state = "request" /\ r.kind = "" /\ r.from = m.inv /\ r.my = idid + 1 /\ r.their = 0
        /\ t.id = n /\ t.rec = r /\ t.pc = "received"
    BY DEF PerRequest, BlankRec, IAt
  <2> HIDE DEF r, t
  <2>2. /\ irec' = [irec EXCEPT ![n] = r] /\ itask' = [itask EXCEPT ![k] = t] /\ itask[k] = Idle
        /\ UNCHANGED <<attached, invitations, toInviter, toInvitee>>
        /\ ~Born(n) /\ \A l \in ITasks : itask[l] # Idle => itask[l].id # n
    BY <1>5 DEF FindMulti, FreeRecs, ISet, Born, r, t
  <2>3. irec'[n] = r /\ \A j \in Recs : j # n => irec'[j] = irec[j]
    BY <2>2 DEF Types, TypeOK
  <2>4. itask'[k] = t /\ \A l \in ITasks : l # k => itask'[l] = itask[l]
    BY <2>2 DEF Types
  <2>5. Touches(n)
    BY <2>1, <2>2, <2>3, <2>4 DEF Touches, Born
  <2>6. attached[n] = {}
    BY <1>0, <2>2 DEF OwnInv
  <2>7. OwnInv(n)' /\ ServedInv(n)'
    <3>1. irec'[n].state = "request" /\ irec'[n].kind = "" /\ irec'[n].my # 0 /\ attached'[n] = {}
      <4>1. idid + 1 # 0
        BY <1>0
      <4>2. attached'[n] = {}
        BY <2>2, <2>6
      <4> QED BY <2>1, <2>3, <4>1, <4>2
    <3> QED BY <3>1 DEF OwnInv, ServedInv, Born
  <2>8. \A j \in Recs : OwnInv(j)' /\ ServedInv(j)'
    BY <1>0, <2>5, <2>7, OthersStay
  <2>9. Alone(k)'
    BY <2>1, <2>2, <2>4 DEF Alone
  <2>10. TaskInv(k)'
    BY <2>1, <2>2, <2>3, <2>4, <2>6, <2>9 DEF TaskInv, Born, Live, Unused
  <2>11. \A l \in ITasks : TaskInv(l)'
    BY <1>0, <2>2, <2>4, <2>5, <2>10, TasksStay, Busy DEF ITask
  <2>12. \A v \in invitations' : Born(v)'
    BY <1>0, <2>2, <2>5, KindsStay DEF Born
  <2>13. \A a \in toInvitee : Pairs(n, a) => Pairs(n, a)'
    BY <2>2 DEF Pairs, Served
  <2>14. AnswerInv'
    BY <1>0, <2>2, <2>5, <2>13, AnswersStay DEF AnswerInv
  <2> QED BY <2>8, <2>11, <2>12, <2>14 DEF InviterInv
<1>6. ASSUME NEW m \in toInviter, NotInvited(m)
      PROVE  InviterInv'
  <2>1. /\ UNCHANGED <<irec, attached, itask, invitations, toInviter>>
        /\ toInvitee' = toInvitee \cup {Problem(m.request)} /\ Problem(m.request).type # "response"
    BY <1>6 DEF NotInvited, ivars, Problem
  <2>2. \A v : Multi(v)' <=> Multi(v)
    BY <2>1 DEF Multi
  <2>3. \A j \in Recs : OwnInv(j)' /\ ServedInv(j)' /\ (Served(j)' <=> Served(j))
    BY <1>0, <2>1, <2>2 DEF OwnInv, ServedInv, Served, Taken, Born
  <2>4. \A l \in ITasks : TaskInv(l)'
    BY <1>0, <2>1, SameTask
  <2>5. AnswerInv'
    BY <2>1, <2>2, <2>3 DEF InviterInv, AnswerInv, Pairs
  <2> QED BY <1>0, <2>1, <2>3, <2>4, <2>5 DEF InviterInv, Born
<1>9. CASE InviteeStep
  <2>1. UNCHANGED <<irec, attached, itask, invitations, toInvitee>> /\ toInviter \subseteq toInviter'
    BY <1>9, InviteeLeaves
  <2>2. \A v : Multi(v)' <=> Multi(v)
    BY <2>1 DEF Multi
  <2>3. \A j \in Recs : OwnInv(j)' /\ ServedInv(j)' /\ (Served(j)' <=> Served(j))
    BY <1>0, <2>1, <2>2 DEF OwnInv, ServedInv, Served, Taken, Born
  <2>4. \A l \in ITasks : TaskInv(l)'
    BY <1>0, <2>1, SameTask
  <2>5. AnswerInv'
    BY <2>1, <2>2, <2>3 DEF InviterInv, AnswerInv, Pairs
  <2> QED BY <1>0, <2>1, <2>3, <2>4, <2>5 DEF InviterInv, Born
<1>7. ASSUME NEW k \in ITasks, SaveRequest(k)
      PROVE  InviterInv'
  <2>1. itask[k] \in ITask /\ itask[k] # Idle /\ itask[k].pc = "received"
    BY <1>7, Busy DEF SaveRequest
  <2>a. PICK i \in Recs, old \in InviterRecord, req \in toInviter :
           i = itask[k].id /\ old = itask[k].rec /\ req = itask[k].req
    BY <2>1 DEF ITask, AttachedInv
  <2>b. PICK r, t : /\ r = [old EXCEPT !.state = "request", !.their = req.did]
                    /\ t = IAt("respond", i, r, req)
    OBVIOUS
  <2>2. /\ r.state = "request" /\ r.kind = old.kind /\ r.from = old.from
        /\ r.my = old.my /\ r.their = req.did
        /\ t.id = i /\ t.rec = r /\ t.pc = "respond"
        /\ old.from \in invitations
    BY <2>1, <2>a, <2>b DEF InviterRecord, IAt, AttachedInv
  <2>3. /\ irec' = [irec EXCEPT ![i] = r] /\ attached' = [attached EXCEPT ![i] = @ \cup {req}]
        /\ itask' \in {[itask EXCEPT ![k] = t], [itask EXCEPT ![k] = Idle]}
        /\ UNCHANGED <<invitations, toInviter, toInvitee>>
    BY <1>7, <2>a, <2>b DEF SaveRequest, ISet, NoneRemoved
  <2>4. /\ old.kind = irec[i].kind /\ old.kind # "multi" /\ (old.kind # "" => old.from = i)
        /\ Born(i) => old.from = irec[i].from
        /\ ~Born(i) => Alone(k) /\ ~Multi(old.from)
        /\ Served(i) => old.my = irec[i].my /\ Alone(k) /\ attached[i] = {}
    <3>1. TaskInv(k)
      BY <1>0
    <3> QED BY <2>1, <2>a, <3>1 DEF TaskInv
  <2>5. /\ irec'[i] = r /\ attached'[i] = attached[i] \cup {req}
        /\ \A j \in Recs : j # i => irec'[j] = irec[j] /\ attached'[j] = attached[j]
        /\ itask'[k] \in {t, Idle} /\ \A l \in ITasks : l # k => itask'[l] = itask[l]
    BY <2>2, <2>3 DEF Types, TypeOK
  <2>6. Touches(i)
    <3>1. \A j \in Recs : Born(j) => irec'[j].kind = irec[j].kind /\ irec'[j].state # "unborn"
      BY <2>2, <2>4, <2>5 DEF Born
    <3>2. \A l \in ITasks : itask'[l] \in {Idle, itask[l]} \/ itask'[l].id = i
      BY <2>2, <2>5
    <3> QED BY <2>3, <2>5, <3>1, <3>2 DEF Touches
  <2>7. Multi(old.from)' <=> Multi(old.from)
    BY <1>0, <2>2, <2>6, KindsStay
  <2>8. Born(i)' /\ (Served(i)' <=> Served(i))
    <3>1. irec'[i].state = "request" /\ irec'[i].kind = irec[i].kind /\ irec'[i].from = old.from
      BY <2>2, <2>4, <2>5
    <3>2. CASE Born(i)
      BY <2>4, <2>7, <3>1, <3>2 DEF Served, Born
    <3>3. CASE ~Born(i)
      BY <2>4, <2>7, <3>1, <3>3 DEF Served, Born
    <3> QED BY <3>2, <3>3
  <2>9. OwnInv(i)' /\ ServedInv(i)'
    <3>1. OwnInv(i)'
      BY <2>2, <2>4, <2>5, <2>8 DEF OwnInv
    <3>2. Served(i) => irec'[i].my # 0 /\ attached'[i] = {req} /\ irec'[i].their = req.did
      <4>1. irec'[i].my = old.my /\ irec'[i].their = req.did
        BY <2>2, <2>5
      <4>2. Served(i) => irec[i].my # 0
        BY <1>0 DEF ServedInv
      <4>3. attached[i] = {} => attached'[i] = {req}
        BY <2>5
      <4> QED BY <2>4, <4>1, <4>2, <4>3
    <3> QED BY <2>2, <2>3, <2>8, <3>1, <3>2 DEF ServedInv, Taken
  <2>10. \A j \in Recs : OwnInv(j)' /\ ServedInv(j)'
    BY <1>0, <2>2, <2>6, <2>9, OthersStay
  <2>11. ASSUME NEW l \in ITasks
         PROVE  TaskInv(l)'
    <3>1. CASE l = k
      <4>1. CASE itask'[k] = Idle
        BY <3>1, <4>1 DEF TaskInv
      <4>2. CASE itask'[k] = t
        <5>1. t.rec.kind = irec'[i].kind /\ t.rec.from = irec'[i].from /\ Live(t.rec)
          BY <2>2, <2>5 DEF Live, Unused
        <5>2. t.rec.my = irec'[i].my /\ t.rec.their = irec'[i].their
          BY <2>2, <2>5
        <5>3. attached'[i] # {} /\ Born(i)'
          BY <2>5, <2>8
        <5>4. t.rec.kind # "multi" /\ (t.rec.kind # "" => t.rec.from = i)
          BY <2>2, <2>4
        <5>5. itask'[l].id = i /\ itask'[l].rec = t.rec /\ itask'[l].pc = "respond"
          BY <2>2, <3>1, <4>2
        <5> QED BY <5>1, <5>2, <5>3, <5>4, <5>5 DEF TaskInv
      <4> QED BY <2>5, <4>1, <4>2
    <3>2. CASE l # k /\ (itask[l] = Idle \/ itask[l].id # i)
      BY <1>0, <2>2, <2>5, <2>6, <3>2, TasksStay, Busy DEF ITask
    <3>3. CASE l # k /\ itask[l] # Idle /\ itask[l].id = i
      <4>1. Born(i) /\ ~Served(i)
        BY <2>4, <2>a, <3>3 DEF Alone
      <4>2. TaskInv(l) /\ itask'[l] = itask[l]
        BY <1>0, <2>5, <3>3
      <4>3. irec'[i].kind = irec[i].kind /\ irec'[i].from = irec[i].from /\ attached'[i] # {}
        BY <2>2, <2>4, <2>5, <4>1
      <4>4. ~Served(i)' /\ Born(i)'
        BY <2>8, <4>1
      <4>5. LET q == itask[l].rec
            IN  q.kind = irec[i].kind /\ q.kind # "multi" /\ (q.kind # "" => q.from = i)
                /\ q.from = irec[i].from /\ Live(q)
        BY <3>3, <4>1, <4>2 DEF TaskInv
      <4>6. itask'[l].id = i /\ itask'[l].rec = itask[l].rec
        BY <3>3, <4>2
      <4> QED BY <4>3, <4>4, <4>5, <4>6 DEF TaskInv
    <3> QED BY <3>1, <3>2, <3>3
  <2>12. \A v \in invitations' : Born(v)'
    BY <1>0, <2>2, <2>3, <2>6, KindsStay DEF Born
  <2>13. \A a \in toInvitee : Pairs(i, a) => Pairs(i, a)'
    BY <2>4 DEF Pairs
  <2>14. AnswerInv'
    BY <1>0, <2>2, <2>3, <2>6, <2>13, AnswersStay DEF AnswerInv
  <2> QED BY <2>10, <2>11, <2>12, <2>14 DEF InviterInv
<1>8. ASSUME NEW k \in ITasks, CreateResponse(k)
      PROVE  InviterInv'
  <2>1. itask[k] \in ITask /\ itask[k] # Idle /\ itask[k].pc = "respond"
    BY <1>8, Busy DEF CreateResponse
  <2>a. PICK i \in Recs, old \in InviterRecord : i = itask[k].id /\ old = itask[k].rec
    BY <2>1 DEF ITask
  <2>b. PICK my, r : /\ my = IF old.my = 0 THEN idid + 1 ELSE old.my
                     /\ r = [old EXCEPT !.state = "response", !.my = my]
    OBVIOUS
  <2>2. /\ r.state = "response" /\ r.kind = old.kind /\ r.from = old.from
        /\ r.my = my /\ r.their = old.their
        /\ old.from \in invitations
    BY <2>1, <2>a, <2>b DEF InviterRecord, AttachedInv
  <2>3. /\ itask' = [itask EXCEPT ![k] = Idle]
        /\ UNCHANGED <<attached, invitations, toInviter>>
    BY <1>8 DEF CreateResponse, ISet
  <2>4. /\ old.kind = irec[i].kind /\ old.kind # "multi" /\ (old.kind # "" => old.from = i)
        /\ Born(i) /\ old.from = irec[i].from
        /\ attached[i] # {}
        /\ Served(i) => old.my = irec[i].my /\ old.their = irec[i].their
    BY <1>0, <2>1, <2>a DEF TaskInv
  <2>5. Served(i) => my = irec[i].my
    BY <1>0, <2>b, <2>4 DEF ServedInv
  <2>6. \/ UNCHANGED <<irec, toInvitee>>
        \/ /\ irec' = [irec EXCEPT ![i] = r]
           /\ \E req : /\ attached[i] = {req}
                       /\ toInvitee' = toInvitee \cup {Response(r.from, req.request, req.did, my)}
    BY <1>8, <2>a, <2>b DEF CreateResponse, AttachedTo
  <2>7. irec'[i] \in {irec[i], r} /\ \A j \in Recs : j # i => irec'[j] = irec[j]
    BY <2>2, <2>6 DEF Types, TypeOK
  <2>8. itask'[k] = Idle /\ \A l \in ITasks : l # k => itask'[l] = itask[l]
    BY <2>3 DEF Types
  <2>9. Touches(i)
    BY <2>2, <2>3, <2>4, <2>7, <2>8 DEF Touches, Born
  <2>10. Multi(old.from)' <=> Multi(old.from)
    BY <1>0, <2>2, <2>9, KindsStay
  <2>11. Born(i)' /\ (Served(i)' <=> Served(i))
    BY <2>2, <2>4, <2>7, <2>10 DEF Served, Born
  <2>12. /\ irec'[i].kind = irec[i].kind /\ irec'[i].from = irec[i].from
         /\ Served(i) => irec'[i].my = irec[i].my /\ irec'[i].their = irec[i].their
    BY <2>2, <2>4, <2>5, <2>7
  <2>13. OwnInv(i)' /\ ServedInv(i)'
    BY <1>0, <2>2, <2>3, <2>4, <2>11, <2>12 DEF OwnInv, ServedInv, Taken
  <2>14. \A j \in Recs : OwnInv(j)' /\ ServedInv(j)'
    BY <1>0, <2>2, <2>9, <2>13, OthersStay
  <2>15. ASSUME NEW l \in ITasks
         PROVE  TaskInv(l)'
    <3>1. CASE itask'[l] = Idle
      BY <3>1 DEF TaskInv
    <3>2. CASE l # k /\ itask[l] # Idle /\ itask[l].id # i
      BY <1>0, <2>2, <2>8, <2>9, <3>2, TasksStay, Busy DEF ITask
    <3>3. CASE l # k /\ itask[l] # Idle /\ itask[l].id = i
      <4>1. TaskInv(l) /\ itask'[l] = itask[l]
        BY <1>0, <2>8, <3>3
      <4>2. Alone(l) => FALSE
        BY <2>1, <2>a, <3>3 DEF Alone
      <4>3. LET q == itask[l].rec
            IN  /\ q.kind = irec[i].kind /\ q.kind # "multi" /\ (q.kind # "" => q.from = i)
                /\ q.from = irec[i].from /\ Live(q)
                /\ Served(i) => /\ q.my = irec[i].my /\ q.their = irec[i].their
                                /\ itask[l].pc # "received"
        BY <2>4, <3>3, <4>1, <4>2 DEF TaskInv
      <4>4. Born(i)' /\ (Served(i)' <=> Served(i)) /\ attached'[i] # {}
        BY <2>3, <2>4, <2>11
      <4>5. itask'[l].id = i /\ itask'[l].rec = itask[l].rec /\ itask'[l].pc = itask[l].pc
        BY <3>3, <4>1
      <4> QED BY <2>12, <4>3, <4>4, <4>5 DEF TaskInv
    <3> QED BY <2>8, <3>1, <3>2, <3>3
  <2>16. \A v \in invitations' : Born(v)'
    BY <1>0, <2>2, <2>3, <2>9, KindsStay DEF Born
  <2>17. \A a \in toInvitee : Pairs(i, a) => Pairs(i, a)'
    BY <2>3, <2>11, <2>12 DEF Pairs
  <2>18. \A a \in toInvitee : a.type = "response" /\ Multi(a.inv)' => \E j \in Recs : Pairs(j, a)'
    BY <1>0, <2>2, <2>9, <2>17, AnswersStay
  <2>19. AnswerInv'
    <3>1. CASE UNCHANGED toInvitee
      BY <2>18, <3>1 DEF AnswerInv
    <3>2. ASSUME NEW req, attached[i] = {req},
                 toInvitee' = toInvitee \cup {Response(r.from, req.request, req.did, my)},
                 irec' = [irec EXCEPT ![i] = r]
          PROVE  AnswerInv'
      <4> DEFINE a == Response(r.from, req.request, req.did, my)
      <4>1. a.inv = old.from /\ a.did = my /\ a.to = req.did
        BY <2>2 DEF Response
      <4>2. toInvitee' = toInvitee \cup {a}
        BY <3>2
      <4> HIDE DEF a
      <4>3. ASSUME Multi(a.inv)'
            PROVE  Pairs(i, a)'
        <5>1. Multi(old.from)
          BY <2>10, <4>1, <4>3
        <5>2. old.kind = ""
          BY <2>4, <5>1 DEF Multi
        <5>3. Served(i)
          BY <2>4, <5>1, <5>2 DEF Served
        <5>4. irec[i].their = req.did
          BY <1>0, <2>2, <2>4, <3>2, <5>3 DEF ServedInv, Taken
        <5> QED BY <2>3, <2>4, <2>5, <2>11, <2>12, <4>1, <5>3, <5>4 DEF Pairs
      <4> QED BY <2>2, <2>18, <4>2, <4>3 DEF AnswerInv
    <3> QED BY <2>6, <3>1, <3>2
  <2> QED BY <2>14, <2>15, <2>16, <2>19 DEF InviterInv
<1>10. \A i \in Recs : ~RemoveRecord(i)
  BY RemovedStays
<1> QED
  BY <1>1, <1>2, <1>3, <1>4, <1>5, <1>6, <1>7, <1>8, <1>9, <1>10 DEF Next, InviterStep

-----------------------------------------------------------------------------
(***************************************************************************)
(* The invariant, and what it says of the connections.                     *)
(***************************************************************************)
LEMMA InitInv ==
    ASSUME Sensible, Init
    PROVE  ConnInv
<1>1. 0 \in Dids /\ BlankRec \in InviterRecord /\ BlankConn \in InviteeRecord
  BY Blanks DEF Sensible, Dids
<1>2. Types
  BY <1>1 DEF Init, Types, TypeOK
<1>3. InviteeInv
  <2>1. BlankConn.state = "unborn" /\ BlankConn.request = 0
    BY DEF BlankConn
  <2>2. Copy(BlankConn, toInviter, invitations) /\ Accepted(BlankConn, toInvitee)
    BY <2>1 DEF Copy, Accepted, Live, Unused
  <2> QED BY <2>2 DEF Init, InviteeInv, RequestInv
<1>4. AttachedInv
  <2>1. ~Live(BlankRec)
    BY DEF BlankRec, Live, Unused
  <2> QED BY <2>1 DEF Init, AttachedInv
<1>5. InviterInv
  <2>1. BlankRec.kind = "" /\ BlankRec.state = "unborn"
    BY DEF BlankRec
  <2>2. \A i \in Recs : irec[i] = BlankRec /\ attached[i] = {}
    BY DEF Init
  <2>3. \A i \in Recs : OwnInv(i) /\ ServedInv(i)
    BY <2>1, <2>2 DEF OwnInv, ServedInv, Served, Born
  <2> QED BY <2>3 DEF Init, InviterInv, TaskInv, AnswerInv
<1> QED BY <1>2, <1>3, <1>4, <1>5 DEF ConnInv

LEMMA StutterInv ==
    ASSUME ConnInv, UNCHANGED vars
    PROVE  (InviteeInv /\ AttachedInv /\ (NoneRemoved => InviterInv))'
<1> USE DEF vars
<1>1. InviteeInv'
  BY DEF ConnInv, InviteeInv, RequestInv
<1>2. AttachedInv'
  BY DEF ConnInv, AttachedInv
<1>3. ASSUME NoneRemoved'
      PROVE  InviterInv'
  <2>1. InviterInv
    BY <1>3 DEF ConnInv, NoneRemoved
  <2>2. \A v : Multi(v)' <=> Multi(v)
    BY DEF Multi
  <2>3. \A i \in Recs : OwnInv(i)' /\ ServedInv(i)' /\ (Served(i)' <=> Served(i))
    BY <2>1, <2>2 DEF InviterInv, OwnInv, ServedInv, Served, Taken, Born
  <2>4. \A l \in ITasks : TaskInv(l)'
    BY <2>1, SameTask DEF InviterInv
  <2>5. AnswerInv'
    BY <2>1, <2>2, <2>3 DEF InviterInv, AnswerInv, Pairs
  <2> QED BY <2>1, <2>3, <2>4, <2>5 DEF InviterInv, Born
<1> QED BY <1>1, <1>2, <1>3

LEMMA NextInv ==
    ASSUME Sensible, ConnInv, [Next]_vars
    PROVE  ConnInv'
<1>1. Types'
  BY TypesStep DEF ConnInv
<1>2. CASE Next
  <2>1. InviteeInv'
    BY <1>2, InviteesStep DEF ConnInv
  <2>2. AttachedInv'
    BY <1>2, AttachedStep DEF ConnInv, InviteeInv
  <2>3. ASSUME NoneRemoved'
        PROVE  InviterInv'
    <3>1. NoneRemoved
      BY <1>2, <2>3, RemovedStays DEF ConnInv
    <3> QED BY <1>2, <2>3, <3>1, InviterStepInv DEF ConnInv, InviteeInv
  <2> QED BY <1>1, <2>1, <2>2, <2>3 DEF ConnInv
<1>3. CASE UNCHANGED vars
  BY <1>1, <1>3, StutterInv DEF ConnInv
<1> QED BY <1>2, <1>3

LEMMA Invariant ==
    ASSUME Sensible
    PROVE  Spec => []ConnInv
BY InitInv, NextInv, PTL DEF Spec

\* Whatever copies of records the routes and the handlers write back, in
\* whatever order, every record they leave is one the plugin can make.
THEOREM TypeCorrect ==
    ASSUME Sensible
    PROVE  Spec => []TypeOK
<1>1. ConnInv => TypeOK
  BY DEF ConnInv, Types
<1> QED BY <1>1, Invariant, PTL

\* An invitee that has accepted a response to a multi-use invitation is known to
\* the inviter by the two DIDs it uses, as long as the inviter has removed none
\* of its records: the record made for a request keeps its DID and its one
\* request through every save of a copy of it.
THEOREM MultiPaired ==
    ASSUME Sensible
    PROVE  Spec => []MultiUsePaired
<1>1. ASSUME ConnInv
      PROVE  MultiUsePaired
  <2> SUFFICES ASSUME NEW c \in Conns, crec[c].state = "response", OfMulti(crec[c].from),
                      NoneRemoved
               PROVE  Paired(c) # {}
    BY DEF MultiUsePaired, NoneRemoved
  <2>1. PICK m \in toInvitee : Says(m, crec[c].from, crec[c].their, crec[c].my)
    BY <1>1 DEF ConnInv, InviteeInv, Accepted
  <2>2. crec[c].from \in Recs
    BY <1>1 DEF ConnInv, InviteeInv, Copy, Live, Unused, Types
  <2>3. m.type = "response" /\ Multi(m.inv)
    BY <2>1, <2>2 DEF Says, Multi, OfMulti
  <2>4. PICK i \in Recs : Pairs(i, m)
    BY <1>1, <2>3 DEF ConnInv, InviterInv, AnswerInv
  <2> QED BY <2>1, <2>4 DEF Says, Pairs, Paired
<1> QED BY <1>1, Invariant, PTL

-----------------------------------------------------------------------------
(***************************************************************************)
(* Remote procedure calls over a connection (DidcommRpc), for any number   *)
(* of connections, threads, answers and concurrent handlers, and messages  *)
(* that come late, twice or not at all.                                    *)
(***************************************************************************)
CONSTANTS Threads, Answers, Tasks, Faults, MaxRecords
VARIABLES sent, received, cached, toResponder, toRequester, task, given, refused

Rp == INSTANCE DidcommRpc

ThreadAt == [conn : Conns, thread : Threads]
RpcRec   == [at : SUBSET ThreadAt, state : {"request", "completed"},
             answer : Answers \cup {Rp!None}]
CacheSet == SUBSET [key : ThreadAt, id : Nat]
CallTask == [pc : {"tag", "send"}, at : ThreadAt, id : Nat]
AnswerTask == [pc : {"answer", "respond"}, at : ThreadAt, id : Nat, answer : Answers]
CompleteTask == [pc : {"complete"}, id : Nat, answer : Answers]
RpcTask  == {Rp!Idle} \cup CallTask \cup AnswerTask \cup CompleteTask

RpcTypes ==
    /\ sent \in Seq(RpcRec) /\ received \in Seq(RpcRec)
    /\ cached \in [by : CacheSet, of : CacheSet]
    /\ task \in [Tasks -> RpcTask]
    /\ toResponder \subseteq ThreadAt
    /\ toRequester \subseteq ThreadAt \X Answers /\ given \subseteq ThreadAt \X Answers

\* A record of the requester has the tags of the request.
HasTags(at, S) == \E i \in DOMAIN S : S[i].at = {at}

\* No two records have the same tags; what is under way, and what the responder
\* has, is of a request that has a record; what is cached is the id of it.
Records(S, C) ==
    /\ \A i, j \in DOMAIN S : \A at : S[i].at = {at} /\ S[j].at = {at} => i = j
    /\ \A i \in DOMAIN S : S[i].at = {} \/ \E at \in ThreadAt : S[i].at = {at}
    /\ \A e \in C.by : e.id \in DOMAIN S /\ S[e.id].at = {e.key}
UnderWay(S, R, Q, A, G) ==
    /\ \A at \in Q : HasTags(at, S)
    /\ \A i \in DOMAIN R : \A at \in R[i].at : HasTags(at, S)
    /\ \A m \in A : HasTags(m[1], S) /\ m \in G
\* What was stored as an answer was given to the request of the record.
Given(S, G) ==
    \A i \in DOMAIN S : S[i].state = "completed" => \E at \in S[i].at : <<at, S[i].answer>> \in G

\* A call that is to tag its record is the only one of it, and of its thread.
TaskOf(r, S, G) ==
    /\ r.pc = "tag" => /\ r.id \in DOMAIN S /\ S[r.id].at = {}
                       /\ \A i \in DOMAIN S : \A x \in S[i].at : x.thread # r.at.thread
    /\ r.pc \in {"send", "answer", "respond"} => HasTags(r.at, S)
    /\ r.pc = "respond" => <<r.at, r.answer>> \in G
    /\ r.pc = "complete" => /\ r.id \in DOMAIN S
                            /\ \E at \in ThreadAt : S[r.id].at = {at} /\ <<at, r.answer>> \in G
Apart(r, q) == r.pc = "tag" /\ q.pc = "tag" => r.id # q.id /\ r.at.thread # q.at.thread

RpcInv ==
    /\ RpcTypes
    /\ Records(sent, cached)
    /\ UnderWay(sent, received, toResponder, toRequester, given)
    /\ Given(sent, given)
    /\ \A k \in Tasks : TaskOf(task[k], sent, given)
    /\ \A k, l \in Tasks : k # l => Apart(task[k], task[l])
    /\ refused = {}

-----------------------------------------------------------------------------
LEMMA RpcIdle ==
    /\ Rp!Idle \in RpcTask /\ Rp!Idle.pc = "idle"
    /\ \A S, G : TaskOf(Rp!Idle, S, G)
    /\ \A q : Apart(Rp!Idle, q) /\ Apart(q, Rp!Idle)
BY DEF Rp!Idle, RpcTask, TaskOf, Apart

LEMMA RpcKinds ==
    ASSUME NEW r \in RpcTask
    PROVE  /\ r.pc \in {"tag", "send"} => r \in CallTask
           /\ r.pc \in {"answer", "respond"} => r \in AnswerTask
           /\ r.pc = "complete" => r \in CompleteTask
<1>1. CASE r = Rp!Idle
  BY <1>1, RpcIdle
<1>2. CASE r \in CallTask
  BY <1>2 DEF CallTask
<1>3. CASE r \in AnswerTask
  BY <1>3 DEF AnswerTask
<1>4. CASE r \in CompleteTask
  BY <1>4 DEF CompleteTask
<1> QED BY <1>1, <1>2, <1>3, <1>4 DEF RpcTask

\* Records are added, and tags and answers that are there stay.
More(S, T) == \A i \in DOMAIN S : i \in DOMAIN T /\ (S[i].at # {} => T[i].at = S[i].at)

LEMMA TagsStay == ASSUME NEW S, NEW T, More(S, T), NEW at, HasTags(at, S) PROVE HasTags(at, T)
BY DEF More, HasTags

LEMMA TaskStays ==
    ASSUME NEW S, NEW T, More(S, T), NEW G, NEW H, G \subseteq H, NEW r, TaskOf(r, S, G),
           r.pc # "tag"
    PROVE  TaskOf(r, T, H)
<1>1. r.pc \in {"send", "answer", "respond"} => HasTags(r.at, T)
  BY TagsStay DEF TaskOf
<1>2. r.pc = "complete" => /\ r.id \in DOMAIN T
                           /\ \E at \in ThreadAt : T[r.id].at = {at} /\ <<at, r.answer>> \in H
  BY DEF TaskOf, More
<1> QED BY <1>1, <1>2 DEF TaskOf

LEMMA UnderWayStays ==
    ASSUME NEW S, NEW T, More(S, T), NEW R, NEW Q, NEW A, NEW G, UnderWay(S, R, Q, A, G)
    PROVE  UnderWay(T, R, Q, A, G)
BY TagsStay DEF UnderWay

LEMMA RpcInit == Rp!Init => RpcInv
<1> SUFFICES ASSUME Rp!Init PROVE RpcInv
  OBVIOUS
<1>1. /\ sent = <<>> /\ received = <<>> /\ cached = [by |-> {}, of |-> {}]
      /\ toResponder = {} /\ toRequester = {} /\ given = {} /\ refused = {}
      /\ task = [k \in Tasks |-> Rp!Idle]
  BY DEF Rp!Init
<1>2. RpcTypes
  BY <1>1, RpcIdle DEF RpcTypes, CacheSet
<1>3. /\ Records(sent, cached) /\ UnderWay(sent, received, toResponder, toRequester, given)
      /\ Given(sent, given)
  BY <1>1 DEF Records, UnderWay, Given
<1> QED BY <1>1, <1>2, <1>3, RpcIdle DEF RpcInv

\* A task goes on, while the tags of the requester's records stay.
SameTags(S, T) == DOMAIN T = DOMAIN S /\ \A i \in DOMAIN S : T[i].at = S[i].at

LEMMA RpcGoesOn ==
    ASSUME RpcInv, NEW k \in Tasks, NEW r, task' = [task EXCEPT ![k] = r], r.pc # "tag",
           SameTags(sent, sent'), given \subseteq given', UNCHANGED refused,
           RpcTypes', TaskOf(r, sent', given'), Records(sent', cached'),
           UnderWay(sent', received', toResponder', toRequester', given'), Given(sent', given')
    PROVE  RpcInv'
<1>1. /\ task'[k] = r
      /\ \A l \in Tasks : l # k => task'[l] = task[l]
  BY DEF RpcInv, RpcTypes
<1>2. ASSUME NEW l \in Tasks PROVE TaskOf(task'[l], sent', given')
  <2>1. CASE l = k
    BY <1>1, <2>1
  <2>2. CASE l # k
    <3>1. TaskOf(task[l], sent, given) /\ task'[l] = task[l]
      BY <1>1, <2>2 DEF RpcInv
    <3>2. CASE task[l].pc # "tag"
      <4>1. More(sent, sent')
        BY DEF SameTags, More
      <4> QED BY <3>1, <3>2, <4>1, TaskStays
    <3>3. CASE task[l].pc = "tag"
      BY <3>1, <3>3 DEF TaskOf, SameTags
    <3> QED BY <3>2, <3>3
  <2> QED BY <2>1, <2>2
<1>3. \A l, m \in Tasks : l # m => Apart(task'[l], task'[m])
  BY <1>1 DEF RpcInv, Apart
<1> QED BY <1>2, <1>3 DEF RpcInv

LEMMA RecordsStay ==
    ASSUME NEW S, NEW T, SameTags(S, T), NEW C, Records(S, C), NEW D,
           \A e \in D.by : e.id \in DOMAIN S /\ S[e.id].at = {e.key}
    PROVE  Records(T, D)
<1>1. ASSUME NEW i \in DOMAIN T, NEW j \in DOMAIN T, NEW at, T[i].at = {at}, T[j].at = {at}
      PROVE  i = j
  <2>1. i \in DOMAIN S /\ j \in DOMAIN S /\ S[i].at = {at} /\ S[j].at = {at}
    BY <1>1 DEF SameTags
  <2>2. \A k, l \in DOMAIN S : \A x : S[k].at = {x} /\ S[l].at = {x} => k = l
    BY DEF Records
  <2> QED BY <2>1, <2>2
<1>2. \A i, j \in DOMAIN T : \A at : T[i].at = {at} /\ T[j].at = {at} => i = j
  BY <1>1
<1>3. \A i \in DOMAIN T : T[i].at = {} \/ \E at \in ThreadAt : T[i].at = {at}
  BY DEF SameTags, Records
<1>4. \A e \in D.by : e.id \in DOMAIN T /\ T[e.id].at = {e.key}
  BY DEF SameTags
<1> QED BY <1>2, <1>3, <1>4 DEF Records

\* What holds of the requester's records while they stay.
LEMMA RpcSame ==
    ASSUME RpcInv, UNCHANGED sent, given \subseteq given'
    PROVE  /\ SameTags(sent, sent') /\ Given(sent', given')
           /\ cached'.by = cached.by => Records(sent', cached')
<1>1. Given(sent, given) /\ Records(sent, cached)
  BY DEF RpcInv
<1>2. Given(sent', given')
  BY <1>1 DEF Given
<1>3. SameTags(sent, sent')
  BY DEF SameTags
<1>4. ASSUME cached'.by = cached.by PROVE Records(sent', cached')
  <2>1. \A e \in cached'.by : e.id \in DOMAIN sent /\ sent[e.id].at = {e.key}
    BY <1>1, <1>4 DEF Records
  <2> QED BY <1>1, <1>3, <2>1, RecordsStay
<1> QED BY <1>2, <1>3, <1>4

\* Nothing of the requester's records changes, nor do tasks.
LEMMA RpcMessages ==
    ASSUME RpcInv, UNCHANGED <<sent, cached, task, given, refused>>,
           received' \in Seq(RpcRec),
           \A i \in DOMAIN received' : \A at \in received'[i].at : HasTags(at, sent),
           toResponder' \subseteq toResponder, toRequester' \subseteq toRequester
    PROVE  RpcInv'
<1>1. RpcTypes'
  BY DEF RpcInv, RpcTypes
<1>2. UnderWay(sent', received', toResponder', toRequester', given')
  BY DEF RpcInv, UnderWay
<1> QED BY <1>1, <1>2 DEF RpcInv

-----------------------------------------------------------------------------
(* The requester's call *)

LEMMA RpcStore ==
    ASSUME RpcInv, NEW k \in Tasks, NEW c \in Conns, NEW t \in Threads, Rp!Store(k, c, t)
    PROVE  RpcInv'
<1> DEFINE at == [conn |-> c, thread |-> t]
           id == Len(sent) + 1
           r  == [pc |-> "tag", at |-> at, id |-> id]
           v  == [at |-> {}, state |-> "request", answer |-> Rp!None]
<1>1. /\ task' = [task EXCEPT ![k] = r] /\ sent' = Append(sent, v)
      /\ UNCHANGED <<received, cached, toResponder, toRequester, given, refused>>
  BY DEF Rp!Store, Rp!Start, Rp!Thread, Rp!Record
<1>2. /\ \A i \in DOMAIN sent : \A x \in sent[i].at : x.thread # t
      /\ \A j \in Tasks : task[j].pc \in {"tag", "send"} => task[j].at.thread # t
  BY DEF Rp!Store
<1>3. v \in RpcRec /\ v.at = {} /\ v.state = "request"
  BY DEF RpcRec
<1>4. sent \in Seq(RpcRec) /\ id \in Nat
  BY DEF RpcInv, RpcTypes
<1> HIDE DEF v
<1>5. /\ sent' \in Seq(RpcRec) /\ DOMAIN sent' = DOMAIN sent \cup {id} /\ id \notin DOMAIN sent
      /\ sent'[id] = v /\ \A i \in DOMAIN sent : sent'[i] = sent[i]
  BY <1>1, <1>3, <1>4
<1>6. r \in RpcTask /\ r.pc = "tag" /\ r.id = id /\ r.at.thread = t
  BY <1>4 DEF RpcTask, CallTask, ThreadAt
<1> HIDE DEF r, id
<1>7. /\ task' \in [Tasks -> RpcTask] /\ task'[k] = r
      /\ \A l \in Tasks : l # k => task'[l] = task[l]
  BY <1>1, <1>6 DEF RpcInv, RpcTypes
<1>8. More(sent, sent')
  BY <1>5 DEF More
<1>9. RpcTypes'
  BY <1>1, <1>5, <1>7 DEF RpcInv, RpcTypes
<1>10. Records(sent', cached')
  <2>1. /\ \A i, j \in DOMAIN sent : \A x : sent[i].at = {x} /\ sent[j].at = {x} => i = j
        /\ \A i \in DOMAIN sent : sent[i].at = {} \/ \E x \in ThreadAt : sent[i].at = {x}
        /\ \A e \in cached.by : e.id \in DOMAIN sent /\ sent[e.id].at = {e.key}
    BY DEF RpcInv, Records
  <2>2. \A i \in DOMAIN sent' : \A x : sent'[i].at = {x} => i \in DOMAIN sent /\ sent[i].at = {x}
    BY <1>3, <1>5
  <2>3. \A i, j \in DOMAIN sent' : \A x : sent'[i].at = {x} /\ sent'[j].at = {x} => i = j
    BY <2>1, <2>2
  <2>4. \A i \in DOMAIN sent' : sent'[i].at = {} \/ \E x \in ThreadAt : sent'[i].at = {x}
    BY <1>3, <1>5, <2>1
  <2>5. \A e \in cached'.by : e.id \in DOMAIN sent' /\ sent'[e.id].at = {e.key}
    BY <1>1, <1>5, <2>1
  <2> QED BY <2>3, <2>4, <2>5 DEF Records
<1>11. Given(sent', given')
  BY <1>1, <1>3, <1>5 DEF RpcInv, Given
<1>12. UnderWay(sent', received', toResponder', toRequester', given')
  BY <1>1, <1>8, UnderWayStays DEF RpcInv
<1>13. ASSUME NEW l \in Tasks PROVE TaskOf(task'[l], sent', given')
  <2>1. CASE l = k
    BY <1>2, <1>3, <1>5, <1>6, <1>7, <2>1 DEF TaskOf
  <2>2. CASE l # k
    <3>1. TaskOf(task[l], sent, given) /\ task'[l] = task[l]
      BY <1>7, <2>2 DEF RpcInv
    <3>2. CASE task[l].pc # "tag"
      BY <1>1, <1>8, <3>1, <3>2, TaskStays
    <3>3. CASE task[l].pc = "tag"
      BY <1>3, <1>5, <3>1, <3>3 DEF TaskOf
    <3> QED BY <3>2, <3>3
  <2> QED BY <2>1, <2>2
<1>14. ASSUME NEW l \in Tasks, NEW m \in Tasks, l # m PROVE Apart(task'[l], task'[m])
  <2>1. \A j \in Tasks : task[j].pc = "tag" => task[j].id \in DOMAIN sent
    BY DEF RpcInv, TaskOf
  <2>2. CASE l # k /\ m # k
    BY <1>7, <1>14, <2>2 DEF RpcInv
  <2>3. CASE l = k
    BY <1>2, <1>5, <1>6, <1>7, <1>14, <2>1, <2>3 DEF Apart
  <2>4. CASE m = k
    BY <1>2, <1>5, <1>6, <1>7, <1>14, <2>1, <2>4 DEF Apart
  <2> QED BY <2>2, <2>3, <2>4
<1> QED BY <1>1, <1>9, <1>10, <1>11, <1>12, <1>13, <1>14 DEF RpcInv

LEMMA RpcTag == ASSUME RpcInv, NEW k \in Tasks, Rp!Tag(k) PROVE RpcInv'
<1> DEFINE id == task[k].id
           at == task[k].at
           r  == [task[k] EXCEPT !.pc = "send"]
           v  == [sent[id] EXCEPT !.at = {at}]
<1>1. /\ task[k].pc = "tag" /\ task' = [task EXCEPT ![k] = r]
      /\ sent' = [sent EXCEPT ![id] = v]
      /\ UNCHANGED <<received, cached, toResponder, toRequester, given, refused>>
  BY DEF Rp!Tag, Rp!Goto
<1>2. task[k] \in CallTask
  BY <1>1, RpcKinds DEF RpcInv, RpcTypes
<1>3. /\ id \in DOMAIN sent /\ sent[id].at = {} /\ sent \in Seq(RpcRec)
      /\ \A i \in DOMAIN sent : \A x \in sent[i].at : x.thread # at.thread
  BY <1>1 DEF RpcInv, RpcTypes, TaskOf
<1>4. at \in ThreadAt
  BY <1>2 DEF CallTask
<1>5. r \in RpcTask /\ r.pc = "send" /\ r.at = at
  BY <1>2 DEF RpcTask, CallTask
<1>6. sent[id] \in RpcRec
  BY <1>3
<1>7. v \in RpcRec /\ v.at = {at} /\ v.state = sent[id].state
  BY <1>4, <1>6 DEF RpcRec
<1> HIDE DEF v, r
<1>8. /\ sent' \in Seq(RpcRec) /\ DOMAIN sent' = DOMAIN sent /\ sent'[id] = v
      /\ \A i \in DOMAIN sent : i # id => sent'[i] = sent[i]
  BY <1>1, <1>3, <1>7
<1> HIDE DEF id, at
<1>9. /\ task' \in [Tasks -> RpcTask] /\ task'[k] = r
      /\ \A l \in Tasks : l # k => task'[l] = task[l]
  BY <1>1, <1>5 DEF RpcInv, RpcTypes
<1>10. More(sent, sent')
  BY <1>3, <1>8 DEF More
<1>11. RpcTypes'
  BY <1>1, <1>8, <1>9 DEF RpcInv, RpcTypes
<1>12. Records(sent', cached')
  <2>1. \A i \in DOMAIN sent : sent[i].at # {at}
    BY <1>3
  <2>2. \A i \in DOMAIN sent : \A x : sent'[i].at = {x} =>
           (i = id /\ x = at) \/ (i # id /\ sent[i].at = {x})
    BY <1>7, <1>8
  <2>3. \A i, j \in DOMAIN sent : \A x : sent[i].at = {x} /\ sent[j].at = {x} => i = j
    BY DEF RpcInv, Records
  <2>7. ASSUME NEW i \in DOMAIN sent', NEW j \in DOMAIN sent', NEW x,
               sent'[i].at = {x}, sent'[j].at = {x}
        PROVE  i = j
    <3>1. i \in DOMAIN sent /\ j \in DOMAIN sent
      BY <1>8
    <3>2. CASE x = at
      BY <2>1, <2>2, <2>7, <3>1, <3>2
    <3>3. CASE x # at
      BY <2>2, <2>3, <2>7, <3>1, <3>3
    <3> QED BY <3>2, <3>3
  <2>4. \A i \in DOMAIN sent' : sent'[i].at = {} \/ \E x \in ThreadAt : sent'[i].at = {x}
    BY <1>4, <1>7, <1>8 DEF RpcInv, Records
  <2>5. \A e \in cached.by : e.id \in DOMAIN sent /\ e.id # id /\ sent[e.id].at = {e.key}
    BY <1>3 DEF RpcInv, Records
  <2>6. \A e \in cached'.by : e.id \in DOMAIN sent' /\ sent'[e.id].at = {e.key}
    BY <1>1, <1>8, <2>5
  <2>8. \A i, j \in DOMAIN sent' : \A x : sent'[i].at = {x} /\ sent'[j].at = {x} => i = j
    BY <2>7
  <2> QED BY <2>4, <2>6, <2>8 DEF Records
<1>13. Given(sent', given')
  <2>1. sent[id].state # "completed"
    BY <1>3 DEF RpcInv, Given
  <2> QED BY <1>1, <1>7, <1>8, <2>1 DEF RpcInv, Given
<1>14. UnderWay(sent', received', toResponder', toRequester', given')
  BY <1>1, <1>10, UnderWayStays DEF RpcInv
<1>15. ASSUME NEW l \in Tasks PROVE TaskOf(task'[l], sent', given')
  <2>1. CASE l = k
    BY <1>3, <1>5, <1>7, <1>8, <1>9, <2>1 DEF TaskOf, HasTags
  <2>2. CASE l # k
    <3>1. TaskOf(task[l], sent, given) /\ task'[l] = task[l]
      BY <1>9, <2>2 DEF RpcInv
    <3>2. CASE task[l].pc # "tag"
      BY <1>1, <1>10, <3>1, <3>2, TaskStays
    <3>3. CASE task[l].pc = "tag"
      <4>1. task[l].id # id /\ task[l].at.thread # at.thread
        BY <1>1, <2>2, <3>3 DEF RpcInv, Apart, id, at
      <4>2. /\ task[l].id \in DOMAIN sent /\ sent[task[l].id].at = {}
            /\ \A i \in DOMAIN sent : \A x \in sent[i].at : x.thread # task[l].at.thread
        BY <3>1, <3>3 DEF TaskOf
      <4>3. /\ task[l].id \in DOMAIN sent' /\ sent'[task[l].id].at = {}
            /\ \A i \in DOMAIN sent' : \A x \in sent'[i].at : x.thread # task[l].at.thread
        BY <1>7, <1>8, <4>1, <4>2
      <4> QED BY <3>1, <3>3, <4>3 DEF TaskOf
    <3> QED BY <3>2, <3>3
  <2> QED BY <2>1, <2>2
<1>16. \A l, m \in Tasks : l # m => Apart(task'[l], task'[m])
  BY <1>5, <1>9 DEF RpcInv, Apart
<1> QED BY <1>1, <1>11, <1>12, <1>13, <1>14, <1>15, <1>16 DEF RpcInv

LEMMA RpcSendRequest == ASSUME RpcInv, NEW k \in Tasks, Rp!SendRequest(k) PROVE RpcInv'
<1>1. /\ task[k].pc = "send" /\ task' = [task EXCEPT ![k] = Rp!Idle]
      /\ toResponder' = toResponder \cup {task[k].at}
      /\ UNCHANGED <<sent, received, cached, toRequester, given, refused>>
  BY DEF Rp!SendRequest, Rp!End
<1>2. task[k].at \in ThreadAt
  BY <1>1, RpcKinds DEF RpcInv, RpcTypes, CallTask
<1>3. HasTags(task[k].at, sent)
  BY <1>1 DEF RpcInv, TaskOf
<1>4. RpcTypes'
  BY <1>1, <1>2, RpcIdle DEF RpcInv, RpcTypes
<1>5. UnderWay(sent', received', toResponder', toRequester', given')
  BY <1>1, <1>3 DEF RpcInv, UnderWay
<1> QED BY <1>1, <1>4, <1>5, RpcIdle, RpcSame, RpcGoesOn

-----------------------------------------------------------------------------
(* The responder's answer *)

LEMMA RpcReceiveRequest == ASSUME RpcInv, NEW m \in toResponder, Rp!ReceiveRequest(m) PROVE RpcInv'
<1> DEFINE v == [at |-> {m}, state |-> "request", answer |-> Rp!None]
<1>1. /\ received' = Append(received, v) /\ toResponder' \subseteq toResponder
      /\ UNCHANGED <<sent, cached, toRequester, task, given, refused>>
  BY DEF Rp!ReceiveRequest, Rp!Record
<1>2. m \in ThreadAt /\ HasTags(m, sent) /\ received \in Seq(RpcRec)
      /\ \A i \in DOMAIN received : \A at \in received[i].at : HasTags(at, sent)
  BY DEF RpcInv, RpcTypes, UnderWay
<1>3. v \in RpcRec /\ v.at = {m}
  BY <1>2 DEF RpcRec
<1> HIDE DEF v
<1>4. /\ received' \in Seq(RpcRec) /\ DOMAIN received' = DOMAIN received \cup {Len(received) + 1}
      /\ received'[Len(received) + 1] = v
      /\ \A i \in DOMAIN received : received'[i] = received[i]
  BY <1>1, <1>2, <1>3
<1>5. \A i \in DOMAIN received' : \A at \in received'[i].at : HasTags(at, sent)
  BY <1>2, <1>3, <1>4
<1> QED BY <1>1, <1>4, <1>5, RpcMessages

LEMMA RpcAnswered ==
    ASSUME NEW S \in Seq(RpcRec), NEW id, NEW a \in Answers
    PROVE  LET T == Rp!Answered(S, id, a) IN
           /\ T \in Seq(RpcRec) /\ SameTags(S, T)
           /\ \A i \in DOMAIN S : i # id => T[i] = S[i]
           /\ id \in DOMAIN S => T[id].state = "completed" /\ T[id].answer = a
<1> DEFINE v == [S[id] EXCEPT !.state = "completed", !.answer = a]
           T == Rp!Answered(S, id, a)
<1>1. T = [S EXCEPT ![id] = v]
  BY DEF Rp!Answered
<1>2. id \in DOMAIN S => /\ v \in RpcRec /\ v.at = S[id].at
                         /\ v.state = "completed" /\ v.answer = a
  <2>1. id \in DOMAIN S => S[id] \in RpcRec
    OBVIOUS
  <2> QED BY <2>1 DEF RpcRec
<1> HIDE DEF v, T
<1>3. DOMAIN T = DOMAIN S
  BY <1>1
<1>4. \A i \in DOMAIN S : T[i] = IF i = id THEN v ELSE S[i]
  BY <1>1
<1>5. T \in Seq(RpcRec)
  <2>1. CASE id \in DOMAIN S
    BY <1>1, <1>2, <2>1
  <2>2. CASE id \notin DOMAIN S
    <3>1. T = S
      BY <1>1, <2>2
    <3> QED BY <3>1
  <2> QED BY <2>1, <2>2
<1> QED BY <1>2, <1>3, <1>4, <1>5 DEF SameTags, T

\* The id of a record is a number.
LEMMA RpcFoundNat ==
    ASSUME RpcTypes, NEW side \in {"by", "of"}, NEW S \in Seq(RpcRec), NEW at,
           NEW id \in Rp!Found(side, S, at)
    PROVE  id \in Nat
<1>1. \A e \in cached[side] : e.id \in Nat
  BY DEF RpcTypes, CacheSet
<1>2. DOMAIN S \subseteq Nat
  OBVIOUS
<1> QED BY <1>1, <1>2 DEF Rp!Found

LEMMA RpcRespond ==
    ASSUME RpcInv, NEW k \in Tasks, NEW i \in DOMAIN received, NEW at \in received[i].at,
           NEW a \in Answers, Rp!Respond(k, at, a)
    PROVE  RpcInv'
<1>1. PICK id \in Rp!Found("of", received, at) :
          /\ task' = [task EXCEPT ![k] = [pc |-> "answer", at |-> at, id |-> id, answer |-> a]]
          /\ cached' = [cached EXCEPT !["of"] = @ \cup {[key |-> at, id |-> id]}]
          /\ UNCHANGED <<sent, received, toResponder, toRequester, given, refused>>
  BY DEF Rp!Respond, Rp!Start, Rp!Cache, Rp!Key
<1> DEFINE r == [pc |-> "answer", at |-> at, id |-> id, answer |-> a]
<1>2. received \in Seq(RpcRec) /\ RpcTypes
  BY DEF RpcInv, RpcTypes
<1>3. id \in Nat
  BY <1>1, <1>2, RpcFoundNat
<1>4. at \in ThreadAt
  <2>1. received[i] \in RpcRec
    BY <1>2
  <2> QED BY <2>1 DEF RpcRec
<1>5. HasTags(at, sent)
  BY DEF RpcInv, UnderWay
<1>6. r \in RpcTask /\ r.pc = "answer" /\ r.at = at
  BY <1>3, <1>4 DEF RpcTask, AnswerTask
<1>7. [key |-> at, id |-> id] \in [key : ThreadAt, id : Nat]
  BY <1>3, <1>4
<1>8. cached' \in [by : CacheSet, of : CacheSet] /\ cached'.by = cached.by
  BY <1>1, <1>2, <1>7 DEF RpcTypes, CacheSet
<1>9. task' = [task EXCEPT ![k] = r]
  BY <1>1
<1> HIDE DEF r
<1>10. RpcTypes'
  BY <1>1, <1>2, <1>6, <1>8, <1>9 DEF RpcTypes
<1>11. TaskOf(r, sent', given')
  BY <1>1, <1>5, <1>6 DEF TaskOf
<1>12. UnderWay(sent', received', toResponder', toRequester', given')
  BY <1>1 DEF RpcInv, UnderWay
<1> QED BY <1>1, <1>6, <1>8, <1>9, <1>10, <1>11, <1>12, RpcSame, RpcGoesOn

LEMMA RpcStoreAnswer == ASSUME RpcInv, NEW k \in Tasks, Rp!StoreAnswer(k) PROVE RpcInv'
<1> DEFINE r == [task[k] EXCEPT !.pc = "respond"]
           m == <<task[k].at, task[k].answer>>
<1>1. /\ task[k].pc = "answer" /\ task' = [task EXCEPT ![k] = r]
      /\ received' = Rp!Answered(received, task[k].id, task[k].answer)
      /\ given' = given \cup {m}
      /\ UNCHANGED <<sent, cached, toResponder, toRequester, refused>>
  BY DEF Rp!StoreAnswer, Rp!Goto
<1>2. task[k] \in AnswerTask /\ RpcTypes /\ received \in Seq(RpcRec)
  BY <1>1, RpcKinds DEF RpcInv, RpcTypes
<1>3. task[k].answer \in Answers /\ task[k].at \in ThreadAt
  BY <1>2 DEF AnswerTask
<1>4. received' \in Seq(RpcRec) /\ SameTags(received, received')
  BY <1>1, <1>2, <1>3, RpcAnswered
<1>5. r \in RpcTask /\ r.pc = "respond" /\ r.at = task[k].at /\ r.answer = task[k].answer
  BY <1>2 DEF RpcTask, AnswerTask
<1> HIDE DEF r
<1>6. RpcTypes'
  BY <1>1, <1>2, <1>3, <1>4, <1>5 DEF RpcTypes
<1>7. HasTags(task[k].at, sent)
  BY <1>1 DEF RpcInv, TaskOf
<1>8. TaskOf(r, sent', given')
  BY <1>1, <1>5, <1>7 DEF TaskOf
<1>9. UnderWay(sent', received', toResponder', toRequester', given')
  <2>1. UnderWay(sent, received, toResponder, toRequester, given)
    BY DEF RpcInv
  <2> QED BY <1>1, <1>4, <2>1 DEF UnderWay, SameTags
<1> QED BY <1>1, <1>5, <1>6, <1>8, <1>9, RpcSame, RpcGoesOn

LEMMA RpcSendResponse == ASSUME RpcInv, NEW k \in Tasks, Rp!SendResponse(k) PROVE RpcInv'
<1>1. /\ task[k].pc = "respond" /\ task' = [task EXCEPT ![k] = Rp!Idle]
      /\ toRequester' = toRequester \cup {<<task[k].at, task[k].answer>>}
      /\ UNCHANGED <<sent, received, cached, toResponder, given, refused>>
  BY DEF Rp!SendResponse, Rp!End
<1>2. task[k].at \in ThreadAt /\ task[k].answer \in Answers
  BY <1>1, RpcKinds DEF RpcInv, RpcTypes, AnswerTask
<1>3. HasTags(task[k].at, sent) /\ <<task[k].at, task[k].answer>> \in given
  BY <1>1 DEF RpcInv, TaskOf
<1>4. RpcTypes'
  BY <1>1, <1>2, RpcIdle DEF RpcInv, RpcTypes
<1>5. UnderWay(sent', received', toResponder', toRequester', given')
  BY <1>1, <1>3 DEF RpcInv, UnderWay
<1> QED BY <1>1, <1>4, <1>5, RpcIdle, RpcSame, RpcGoesOn

-----------------------------------------------------------------------------
(* The requester's answer *)

\* The record of a request that is out is found.
LEMMA RpcFound ==
    ASSUME RpcInv, NEW at, HasTags(at, sent)
    PROVE  \E i \in DOMAIN sent : sent[i].at = {at} /\ Rp!Found("by", sent, at) = {i}
<1> DEFINE hits == {e.id : e \in {x \in cached["by"] : x.key = at}}
           all  == {i \in DOMAIN sent : sent[i].at = {at}}
<1>1. PICK i \in DOMAIN sent : sent[i].at = {at}
  BY DEF HasTags
<1>2. all = {i}
  BY <1>1 DEF RpcInv, Records
<1>3. hits \subseteq {i}
  <2>1. \A e \in cached["by"] : e.id \in DOMAIN sent /\ sent[e.id].at = {e.key}
    BY DEF RpcInv, Records
  <2> QED BY <1>2, <2>1
<1>4. Rp!Found("by", sent, at)
        = IF hits # {} THEN hits ELSE IF \E j \in all : all = {j} THEN all ELSE {}
  BY DEF Rp!Found, Rp!Key
<1> HIDE DEF hits, all
<1> QED BY <1>1, <1>2, <1>3, <1>4

LEMMA RpcReceiveResponse ==
    ASSUME RpcInv, NEW k \in Tasks, NEW m \in toRequester, Rp!ReceiveResponse(k, m) PROVE RpcInv'
<1>1. HasTags(m[1], sent) /\ m \in given
  BY DEF RpcInv, UnderWay
<1>2. PICK i \in DOMAIN sent : sent[i].at = {m[1]} /\ Rp!Found("by", sent, m[1]) = {i}
  BY <1>1, RpcFound
<1> DEFINE r == [pc |-> "complete", id |-> i, answer |-> m[2]]
           e == [key |-> m[1], id |-> i]
<1>3. /\ task' = [task EXCEPT ![k] = r]
      /\ cached' = [cached EXCEPT !["by"] = @ \cup {e}]
      /\ toRequester' \subseteq toRequester
      /\ UNCHANGED <<sent, received, toResponder, given, refused>>
  BY <1>2 DEF Rp!ReceiveResponse, Rp!Start, Rp!Cache, Rp!Key
<1>4. m[1] \in ThreadAt /\ m[2] \in Answers /\ m = <<m[1], m[2]>> /\ i \in Nat /\ RpcTypes
  BY DEF RpcInv, RpcTypes
<1>5. r \in RpcTask /\ r.pc = "complete" /\ r.id = i /\ r.answer = m[2]
  BY <1>4 DEF RpcTask, CompleteTask
<1>6. e \in [key : ThreadAt, id : Nat] /\ e.key = m[1] /\ e.id = i
  BY <1>4
<1> HIDE DEF r, e
<1>7. cached' \in [by : CacheSet, of : CacheSet] /\ cached'.by = cached.by \cup {e}
  BY <1>3, <1>4, <1>6 DEF RpcTypes, CacheSet
<1>8. RpcTypes'
  BY <1>3, <1>4, <1>5, <1>7 DEF RpcTypes
<1>9. TaskOf(r, sent', given')
  BY <1>1, <1>2, <1>3, <1>4, <1>5 DEF TaskOf
<1>10. Records(sent', cached')
  <2>1. Records(sent, cached)
    BY DEF RpcInv
  <2>2. \A x \in cached'.by : x.id \in DOMAIN sent /\ sent[x.id].at = {x.key}
    BY <1>2, <1>6, <1>7, <2>1 DEF Records
  <2>3. SameTags(sent, sent')
    BY <1>3 DEF SameTags
  <2> QED BY <2>1, <2>2, <2>3, RecordsStay
<1>11. UnderWay(sent', received', toResponder', toRequester', given')
  BY <1>3 DEF RpcInv, UnderWay
<1> QED BY <1>3, <1>5, <1>8, <1>9, <1>10, <1>11, RpcSame, RpcGoesOn

LEMMA RpcComplete == ASSUME RpcInv, NEW k \in Tasks, Rp!Complete(k) PROVE RpcInv'
<1> DEFINE id == task[k].id
           a  == task[k].answer
<1>1. /\ task[k].pc = "complete" /\ task' = [task EXCEPT ![k] = Rp!Idle]
      /\ sent' = Rp!Answered(sent, id, a)
      /\ UNCHANGED <<received, cached, toResponder, toRequester, given, refused>>
  BY DEF Rp!Complete, Rp!End
<1>2. a \in Answers /\ RpcTypes /\ sent \in Seq(RpcRec)
  BY <1>1, RpcKinds DEF RpcInv, RpcTypes, CompleteTask
<1>3. id \in DOMAIN sent /\ \E at \in ThreadAt : sent[id].at = {at} /\ <<at, a>> \in given
  BY <1>1 DEF RpcInv, TaskOf
<1> HIDE DEF id, a
<1>4. /\ sent' \in Seq(RpcRec) /\ SameTags(sent, sent')
      /\ \A i \in DOMAIN sent : i # id => sent'[i] = sent[i]
      /\ sent'[id].state = "completed" /\ sent'[id].answer = a
  BY <1>1, <1>2, <1>3, RpcAnswered
<1>5. RpcTypes'
  BY <1>1, <1>2, <1>4, RpcIdle DEF RpcTypes
<1>6. Records(sent', cached')
  <2>1. Records(sent, cached)
    BY DEF RpcInv
  <2>2. \A e \in cached'.by : e.id \in DOMAIN sent /\ sent[e.id].at = {e.key}
    BY <1>1, <2>1 DEF Records
  <2> QED BY <1>4, <2>1, <2>2, RecordsStay
<1>7. UnderWay(sent', received', toResponder', toRequester', given')
  <2>1. More(sent, sent')
    BY <1>4 DEF More, SameTags
  <2> QED BY <1>1, <2>1, UnderWayStays DEF RpcInv
<1>8. Given(sent', given')
  <2>1. sent'[id].at = sent[id].at /\ DOMAIN sent' = DOMAIN sent
    BY <1>3, <1>4 DEF SameTags
  <2>2. Given(sent, given)
    BY DEF RpcInv
  <2> QED BY <1>1, <1>3, <1>4, <2>1, <2>2 DEF Given
<1> QED BY <1>1, <1>4, <1>5, <1>6, <1>7, <1>8, RpcIdle, RpcGoesOn

LEMMA RpcFaults ==
    ASSUME RpcInv, Rp!Lose \/ \E k \in Tasks : Rp!Break(k) PROVE RpcInv'
<1>1. CASE Rp!Lose
  <2>1. /\ toResponder' \subseteq toResponder /\ toRequester' \subseteq toRequester
        /\ UNCHANGED <<sent, received, cached, task, given, refused>>
    BY <1>1 DEF Rp!Lose
  <2>2. /\ received' \in Seq(RpcRec)
        /\ \A i \in DOMAIN received' : \A at \in received'[i].at : HasTags(at, sent)
    BY <2>1 DEF RpcInv, RpcTypes, UnderWay
  <2> QED BY <2>1, <2>2, RpcMessages
<1>2. ASSUME NEW k \in Tasks, Rp!Break(k) PROVE RpcInv'
  <2>1. /\ task' = [task EXCEPT ![k] = Rp!Idle]
        /\ UNCHANGED <<sent, received, cached, toResponder, toRequester, given, refused>>
    BY <1>2 DEF Rp!Break, Rp!End
  <2>2. RpcTypes'
    BY <2>1, RpcIdle DEF RpcInv, RpcTypes
  <2>3. UnderWay(sent', received', toResponder', toRequester', given')
    BY <2>1 DEF RpcInv, UnderWay
  <2> QED BY <2>1, <2>2, <2>3, RpcIdle, RpcSame, RpcGoesOn
<1> QED BY <1>1, <1>2

LEMMA RpcNext == ASSUME RpcInv, [Rp!Next]_Rp!vars PROVE RpcInv'
<1>1. CASE UNCHANGED Rp!vars
  <2>1. UNCHANGED <<sent, received, cached, toResponder, toRequester, task, given, refused>>
    BY <1>1 DEF Rp!vars
  <2>2. /\ received' \in Seq(RpcRec)
        /\ \A i \in DOMAIN received' : \A at \in received'[i].at : HasTags(at, sent)
    BY <2>1 DEF RpcInv, RpcTypes, UnderWay
  <2> QED BY <2>1, <2>2, RpcMessages
<1>2. ASSUME NEW k \in Tasks, NEW c \in Conns, NEW t \in Threads, Rp!Store(k, c, t) PROVE RpcInv'
  BY <1>2, RpcStore
<1>3. ASSUME NEW k \in Tasks, Rp!Tag(k) \/ Rp!SendRequest(k) PROVE RpcInv'
  BY <1>3, RpcTag, RpcSendRequest
<1>4. ASSUME NEW k \in Tasks, NEW i \in DOMAIN received, NEW at \in received[i].at,
             NEW a \in Answers, Rp!Respond(k, at, a)
      PROVE  RpcInv'
  BY <1>4, RpcRespond
<1>5. ASSUME NEW k \in Tasks, Rp!StoreAnswer(k) \/ Rp!SendResponse(k) PROVE RpcInv'
  BY <1>5, RpcStoreAnswer, RpcSendResponse
<1>6. ASSUME NEW k \in Tasks, NEW m \in toRequester, Rp!ReceiveResponse(k, m) PROVE RpcInv'
  BY <1>6, RpcReceiveResponse
<1>7. ASSUME NEW k \in Tasks, Rp!Complete(k) PROVE RpcInv'
  BY <1>7, RpcComplete
<1>8. ASSUME NEW m \in toResponder, Rp!ReceiveRequest(m) PROVE RpcInv'
  BY <1>8, RpcReceiveRequest
<1> QED BY <1>1, <1>2, <1>3, <1>4, <1>5, <1>6, <1>7, <1>8, RpcFaults DEF Rp!Next

\* The answer that the requester of a remote call has stored was given to that
\* very request, whatever is lost, comes late or comes twice, and its record can
\* be found as soon as the request is out (drpc_send_request, DRPCResponseHandler,
\* retrieve_by_connection_and_thread).
THEOREM CallsAnswered == Rp!Spec => [](Rp!AnswerWasGiven /\ Rp!NoneRefused)
<1>1. RpcInv => Rp!AnswerWasGiven /\ Rp!NoneRefused
  BY DEF RpcInv, Given, Rp!AnswerWasGiven, Rp!NoneRefused
<1> QED BY <1>1, RpcInit, RpcNext, PTL DEF Rp!Spec
=============================================================================
