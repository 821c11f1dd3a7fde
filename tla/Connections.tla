----------------------------- MODULE Connections -----------------------------
(***************************************************************************)
(* The connections plugin (RFC 160): an inviter and the agents it invites, *)
(* which the model keeps together as the invitees' records.                *)
(*                                                                         *)
(* A handler or a route reads a connection record in one session and       *)
(* writes the whole of it in a later one, after the wallet, the mediator   *)
(* and the storage of DID documents: a task carries the copy it read.      *)
(* Messages may be received in any order, any number of times, or never.   *)
(***************************************************************************)
EXTENDS Naturals, FiniteSets

CONSTANTS
    Recs,          \* ids of the inviter's connection records
    Conns,         \* ids of the invitees' connection records
    ITasks,        \* slots for the inviter's concurrent tasks
    ETasks,        \* slots for the invitees' concurrent tasks
    Kinds,         \* kinds of invitations made: "once", "multi", "public"
    Autos,         \* values of auto_accept, on both sides
    Removals,      \* may the controllers remove records?
    Unsolicited,   \* setting requests_through_public_did
    MaxInvitations, \* bound: invitations made
    MaxDid         \* bound: DIDs made for connections, on each side

VARIABLES
    irec,      \* the inviter's records
    attached,  \* the requests attached to each of them
    itask,
    crec,      \* the invitees' records
    ctask,
    idid, cdid,         \* the last DID made, on each side
    invitations,        \* invitations passed on outside of any connection
    toInviter, toInvitee

ivars == <<irec, attached, itask, idid>>
cvars == <<crec, ctask, cdid>>
vars  == <<irec, attached, itask, crec, ctask, idid, cdid,
           invitations, toInviter, toInvitee>>

-----------------------------------------------------------------------------
(***************************************************************************)
(* An invitation is known by its record, which stands for its key too.  A  *)
(* request is known by its number, which is its thread, and has the DID    *)
(* the requester made; 0 stands for no DID and no request.                 *)
(***************************************************************************)
NoRec == 0
Dids  == 0..MaxDid
States == {"invitation", "request", "response", "abandoned"}
Unused == {"unborn", "removed"}

\* from: the invitation a record was made for.
InviterRecord == [state : States \cup Unused, kind : {"", "once", "multi", "public"},
                  from : Recs \cup {NoRec}, auto : BOOLEAN,
                  my : Dids, their : Dids]
InviteeRecord == [state : States \cup Unused, from : Recs \cup {NoRec},
                  auto : BOOLEAN, my : Dids, their : Dids, request : Dids]
BlankRec  == [state |-> "unborn", kind |-> "", from |-> NoRec, auto |-> FALSE,
              my |-> 0, their |-> 0]
BlankConn == [state |-> "unborn", from |-> NoRec, auto |-> FALSE,
              my |-> 0, their |-> 0, request |-> 0]
Live(r) == r.state \notin Unused

Request(inv, n, did)    == [inv |-> inv, request |-> n, did |-> did]
Response(inv, n, to, d) == [type |-> "response", inv |-> inv, request |-> n,
                            to |-> to, did |-> d]
Problem(n)              == [type |-> "problem", request |-> n]

Idle == [pc |-> "idle"]
IAt(pc, i, r, req) == [pc |-> pc, id |-> i, rec |-> r, req |-> req]
CAt(pc, c, r)      == [pc |-> pc, id |-> c, rec |-> r]
ISet(k, t) == itask' = [itask EXCEPT ![k] = t]
CSet(k, t) == ctask' = [ctask EXCEPT ![k] = t]

\* Ids no record has and no task is about to save.
FreeRecs  == {i \in Recs : irec[i].state = "unborn"
                           /\ \A k \in ITasks : itask[k] # Idle => itask[k].id # i}
FreeConns == {c \in Conns : crec[c].state = "unborn"}

Init ==
    /\ irec = [i \in Recs |-> BlankRec]
    /\ attached = [i \in Recs |-> {}]
    /\ itask = [k \in ITasks |-> Idle]
    /\ crec = [c \in Conns |-> BlankConn]
    /\ ctask = [k \in ETasks |-> Idle]
    /\ idid = 0 /\ cdid = 0
    /\ invitations = {} /\ toInviter = {} /\ toInvitee = {}

-----------------------------------------------------------------------------
(***************************************************************************)
(* The inviter.                                                            *)
(***************************************************************************)
\* create_invitation: the record that waits for requests.
Waiting(i, kind, auto) ==
    [BlankRec EXCEPT !.state = "invitation", !.kind = kind, !.from = i, !.auto = auto]
CreateInvitation(i, kind, auto) ==
    /\ i \in FreeRecs /\ kind \in Kinds
    /\ Cardinality(invitations) < MaxInvitations
    /\ irec' = [irec EXCEPT ![i] = Waiting(i, kind, auto)]
    /\ invitations' = invitations \cup {i}
    /\ UNCHANGED <<attached, itask, cvars, idid, toInviter, toInvitee>>

\* retrieve_by_invitation_key: only a record that is still an invitation.
Invites(i, m) == irec[i].state = "invitation" /\ irec[i].from = m.inv

\* A multi-use invitation has a new record made for every request.
PerRequest(i, n, m) ==
    [BlankRec EXCEPT !.state = "request", !.from = m.inv, !.auto = irec[i].auto,
                     !.my = idid + 1]

\* receive_request, up to the save: a single-use invitation's own record.
FindOnce(k, m, i) ==
    /\ itask[k] = Idle
    /\ Invites(i, m) /\ irec[i].kind = "once"
    /\ ISet(k, IAt("received", i, irec[i], m))
    /\ UNCHANGED <<irec, attached, cvars, idid, invitations, toInviter, toInvitee>>

FindMulti(k, m, i, n) ==
    /\ itask[k] = Idle
    /\ Invites(i, m) /\ irec[i].kind = "multi"
    /\ n \in FreeRecs /\ idid < MaxDid
    /\ idid' = idid + 1
    /\ LET r == PerRequest(i, n, m)
       IN  /\ irec' = [irec EXCEPT ![n] = r]
           /\ ISet(k, IAt("received", n, r, m))
    /\ UNCHANGED <<attached, cvars, invitations, toInviter, toInvitee>>

\* A request to the public DID: the invitation's record, however often it is
\* to be used, or a new one if that is allowed.
FindPublic(k, m, n) ==
    /\ itask[k] = Idle
    /\ m.inv \in Recs /\ irec[m.inv].kind = "public"
    /\ idid < MaxDid /\ idid' = idid + 1
    /\ \/ Invites(m.inv, m) /\ n = m.inv
       \/ ~Invites(m.inv, m) /\ Unsolicited /\ n \in FreeRecs
    /\ LET r == [irec[n] EXCEPT !.from = m.inv, !.my = idid + 1]
       IN  ISet(k, IAt("received", n, r, m))
    /\ UNCHANGED <<irec, attached, cvars, invitations, toInviter, toInvitee>>

\* No invitation is found: the requester gets a problem report.
NotInvited(m) ==
    /\ m.inv \in Recs /\ irec[m.inv].kind # "public"
    /\ \A i \in Recs : ~Invites(i, m)
    /\ toInvitee' = toInvitee \cup {Problem(m.request)}
    /\ UNCHANGED <<ivars, cvars, invitations, toInviter>>

\* The save of the copy, with the request attached; the handler answers at
\* once if the record says so.
SaveRequest(k) ==
    /\ itask[k].pc = "received"
    /\ LET i == itask[k].id
           r == [itask[k].rec EXCEPT !.state = "request", !.their = itask[k].req.did]
       IN  IF irec[i].state # "removed"
           THEN /\ irec' = [irec EXCEPT ![i] = r]
                /\ attached' = [attached EXCEPT ![i] = @ \cup {itask[k].req}]
                /\ ISet(k, IF r.auto THEN IAt("respond", i, r, itask[k].req) ELSE Idle)
           ELSE ISet(k, Idle) /\ UNCHANGED <<irec, attached>>
    /\ UNCHANGED <<cvars, idid, invitations, toInviter, toInvitee>>

\* POST /connections/{id}/accept-request, and create_response's check.  The
\* caller was told of the record when its request was saved: the first save
\* of a multi-use invitation's new record makes no event.
AcceptRequest(k, i) ==
    /\ itask[k] = Idle /\ attached[i] # {}
    /\ irec[i].state \in {"request", "response"}
    /\ ISet(k, IAt("respond", i, irec[i], Request(NoRec, 0, 0)))
    /\ UNCHANGED <<irec, attached, cvars, idid, invitations, toInviter, toInvitee>>

\* retrieve_request finds the request when it is the only one attached.
AttachedTo(i) == attached[i]

\* create_response: a DID is made if the copy has none, the copy is written,
\* and the response goes out on the request's thread.
CreateResponse(k) ==
    /\ itask[k].pc = "respond"
    /\ LET i == itask[k].id
           old == itask[k].rec
           my == IF old.my = 0 THEN idid + 1 ELSE old.my
           r == [old EXCEPT !.state = "response", !.my = my]
       IN  \/ /\ Live(irec[i])
              /\ \E req \in AttachedTo(i) :
                    /\ AttachedTo(i) = {req} /\ my <= MaxDid
                    /\ toInvitee' = toInvitee \cup
                          {Response(r.from, req.request, req.did, my)}
              /\ irec' = [irec EXCEPT ![i] = r]
              /\ idid' = IF old.my = 0 THEN my ELSE idid
           \/ /\ ~Live(irec[i]) \/ Cardinality(AttachedTo(i)) # 1
              /\ UNCHANGED <<irec, idid, toInvitee>>
    /\ ISet(k, Idle)
    /\ UNCHANGED <<attached, cvars, invitations, toInviter>>

\* DELETE /connections/{id}
RemoveRecord(i) ==
    /\ Removals /\ Live(irec[i])
    /\ irec' = [irec EXCEPT ![i] = [BlankRec EXCEPT !.state = "removed"]]
    /\ attached' = [attached EXCEPT ![i] = {}]
    /\ UNCHANGED <<itask, idid, cvars, invitations, toInviter, toInvitee>>

-----------------------------------------------------------------------------
(***************************************************************************)
(* The invitees.                                                           *)
(***************************************************************************)
\* receive_invitation; it goes on to the request if told to.
Invited(i, auto) == [BlankConn EXCEPT !.state = "invitation", !.from = i, !.auto = auto]
ReceiveInvitation(k, c, i, auto) ==
    /\ i \in invitations /\ c \in FreeConns /\ ctask[k] = Idle
    /\ LET r == Invited(i, auto)
       IN  /\ crec' = [crec EXCEPT ![c] = r]
           /\ CSet(k, IF auto THEN CAt("request", c, r) ELSE Idle)
    /\ UNCHANGED <<ivars, cdid, invitations, toInviter, toInvitee>>

\* POST /connections/{id}/accept-invitation: taken in every state.
AcceptInvitation(k, c) ==
    /\ ctask[k] = Idle /\ Live(crec[c])
    /\ CSet(k, CAt("request", c, crec[c]))
    /\ UNCHANGED <<crec, ivars, cdid, invitations, toInviter, toInvitee>>

\* create_request: a DID is made if the copy has none; the copy is written
\* with a new request, and the request is sent.
Requested(r) == [r EXCEPT !.state = "request", !.request = cdid + 1,
                          !.my = IF r.my = 0 THEN cdid + 1 ELSE r.my]
CreateRequest(k) ==
    /\ ctask[k].pc = "request" /\ cdid < MaxDid
    /\ LET c == ctask[k].id
           r == Requested(ctask[k].rec)
       IN  IF Live(crec[c])
           THEN /\ crec' = [crec EXCEPT ![c] = r]
                /\ toInviter' = toInviter \cup {Request(r.from, r.request, r.my)}
                /\ cdid' = cdid + 1
           ELSE UNCHANGED <<crec, toInviter, cdid>>
    /\ CSet(k, Idle)
    /\ UNCHANGED <<ivars, invitations, toInvitee>>

\* The record of a response: of its request, or else of the two DIDs.
OfRequest(m) == {c \in Conns : Live(crec[c]) /\ crec[c].request = m.request}
OfDids(m)    == {c \in Conns : /\ Live(crec[c]) /\ crec[c].their = m.did
                               /\ crec[c].my = m.to}
Answered(m)  == IF OfRequest(m) # {} THEN OfRequest(m) ELSE OfDids(m)

\* Bug: the DID of the response is put into the record as it is by now.
TheirsOnly(mine, now, m) == [now EXCEPT !.state = "response", !.their = m.did]
WithTheirs(mine, now, m) == [mine EXCEPT !.state = "response", !.their = m.did]

\* accept_response, up to the save: it is signed with the invitation's key.
AcceptResponse(k, m, c) ==
    /\ m.type = "response" /\ ctask[k] = Idle
    /\ c \in Answered(m)
    /\ crec[c].state \in {"request", "response"} /\ crec[c].from = m.inv
    /\ CSet(k, [pc |-> "accepted", id |-> c, rec |-> crec[c], msg |-> m])
    /\ UNCHANGED <<crec, ivars, cdid, invitations, toInviter, toInvitee>>

\* A response nobody waits for: the inviter gets a problem report, which is
\* not of a request of its own.
RefuseResponse(m) ==
    /\ m.type = "response" /\ Answered(m) = {}
    /\ UNCHANGED vars

SaveResponse(k) ==
    /\ ctask[k].pc = "accepted"
    /\ LET c == ctask[k].id
       IN  crec' = IF Live(crec[c])
                   THEN [crec EXCEPT ![c] = WithTheirs(ctask[k].rec, @, ctask[k].msg)]
                   ELSE crec
    /\ CSet(k, Idle)
    /\ UNCHANGED <<ivars, cdid, invitations, toInviter, toInvitee>>

\* The problem report's handler: the record of the request is abandoned.
ReceiveProblem(m, c) ==
    /\ m.type = "problem" /\ OfRequest(m) = {c}
    /\ crec' = [crec EXCEPT ![c].state = "abandoned"]
    /\ UNCHANGED <<ivars, ctask, cdid, invitations, toInviter, toInvitee>>

RemoveConn(c) ==
    /\ Removals /\ Live(crec[c])
    /\ crec' = [crec EXCEPT ![c] = [BlankConn EXCEPT !.state = "removed"]]
    /\ UNCHANGED <<ivars, ctask, cdid, invitations, toInviter, toInvitee>>

-----------------------------------------------------------------------------
InviterStep ==
    \/ \E i \in Recs, kind \in Kinds, auto \in Autos : CreateInvitation(i, kind, auto)
    \/ \E k \in ITasks, m \in toInviter, i \in Recs :
          \/ FindOnce(k, m, i) \/ FindPublic(k, m, i)
          \/ \E n \in Recs : FindMulti(k, m, i, n)
    \/ \E m \in toInviter : NotInvited(m)
    \/ \E k \in ITasks : SaveRequest(k) \/ CreateResponse(k)
    \/ \E k \in ITasks, i \in Recs : AcceptRequest(k, i)
    \/ \E i \in Recs : RemoveRecord(i)
InviteeStep ==
    \/ \E k \in ETasks, c \in Conns, i \in Recs, auto \in Autos :
          ReceiveInvitation(k, c, i, auto)
    \/ \E k \in ETasks, c \in Conns : AcceptInvitation(k, c)
    \/ \E k \in ETasks : CreateRequest(k) \/ SaveResponse(k)
    \/ \E m \in toInvitee :
          \/ RefuseResponse(m)
          \/ \E c \in Conns : ReceiveProblem(m, c)
          \/ \E k \in ETasks, c \in Conns : AcceptResponse(k, m, c)
    \/ \E c \in Conns : RemoveConn(c)
Next == InviterStep \/ InviteeStep
Spec == Init /\ [][Next]_vars

-----------------------------------------------------------------------------
\* Records are ones the code can make.
TypeOK ==
    /\ irec \in [Recs -> InviterRecord]
    /\ crec \in [Conns -> InviteeRecord]
    /\ idid \in Dids /\ cdid \in Dids

\* The inviter's records that pair the DIDs of the invitee's record c.
Paired(c) == {i \in Recs : irec[i].my = crec[c].their /\ irec[i].their = crec[c].my}
OfMulti(i) == irec[i].kind = "multi"

\* An invitee that has accepted a response to a multi-use invitation is known
\* to the inviter by the two DIDs it uses, whatever requests were repeated or
\* served together; unless the inviter has removed a record.
MultiUsePaired ==
    \A c \in Conns :
        /\ crec[c].state = "response" /\ OfMulti(crec[c].from)
        /\ \A i \in Recs : irec[i].state # "removed"
        => Paired(c) # {}

\* A single-use invitation serves one request: no record of it has two
\* requests attached (manager.py:650 and its test refuse the second).
ServesOnce ==
    \A i \in Recs : irec[i].kind = "once" => Cardinality(attached[i]) <= 1
=============================================================================
