------------------------------ MODULE WebvhLog ------------------------------
(***************************************************************************)
(* The log of one did:webvh of the webvh plugin: the controller's calls    *)
(* make log entries, which a witness attests (an agent, or the controller  *)
(* itself) before they are submitted to the server.  A call waits a short  *)
(* time for the witness; the response may come later, and the controller   *)
(* keeps a pending record by which it is tracked.                          *)
(* The index of the pending records is left out: it only serves their      *)
(* listing.                                                                *)
(***************************************************************************)
EXTENDS Integers, Sequences

CONSTANTS
    Requests,    \* operations, each with the id of its witness request
    Tasks,       \* slots for concurrent calls, handlers and approvals
    Mode,        \* "none", "self" or "agent": who witnesses
    AutoAttest,  \* the witness attests without being asked to
    Prerotation, \* the DID names the hash of its next update key
    Faults       \* the server and the connections may fail

VARIABLES
    log,          \* the entries the server has published
    entry,        \* the signed entry of each request
    keys,         \* number of keys created
    wallet,       \* keys bound to the ids #updateKey and #nextKey; 0: none
    local,        \* the local DID and its scid mapping that were stored
    task,         \* calls in progress
    pending,      \* the controller's pending records
    held,         \* requests the witness agent has a pending record of
    toWitness, toController,  \* messages under way
    attested,     \* requests the witness has signed
    submitted,    \* requests that were sent to the server
    told,         \* requests the witness agent has sent its signature of
    closed,       \* requests whose record an approval has removed
    result        \* what each call returned

vars == <<log, entry, keys, wallet, local, task, pending, held, toWitness,
          toController, attested, submitted, told, closed, result>>
outside == <<held, toWitness, toController, attested, told, closed>>

Idle     == [pc |-> "idle"]
NoRecord == "none"
None     == [version |-> 0]
Last     == log[Len(log)]
Published == {log[i].req : i \in DOMAIN log}

Init ==
    /\ log = <<>> /\ entry = [r \in Requests |-> None]
    /\ keys = 0 /\ wallet = [update |-> 0, next |-> 0] /\ local = {}
    /\ task = [t \in Tasks |-> Idle]
    /\ pending = [r \in Requests |-> NoRecord] /\ held = {}
    /\ toWitness = {} /\ toController = {} /\ attested = {}
    /\ submitted = {} /\ told = {} /\ closed = {}
    /\ result = [r \in Requests |-> "none"]

Goto(t, pc) == task' = [task EXCEPT ![t].pc = pc]
\* A call that is done, or fails with an error.
Return(t, value) ==
    /\ result' = [result EXCEPT ![task[t].req] = value]
    /\ task' = [task EXCEPT ![t] = Idle]

-----------------------------------------------------------------------------
(* ControllerManager: making an entry *)

\* create binds fresh keys to the new DID; a DID is created once.
Create(t, r) ==
    /\ task[t] = Idle /\ \A q \in Requests : entry[q] = None
    /\ keys' = IF Prerotation THEN 2 ELSE 1
    /\ wallet' = [update |-> 1, next |-> keys' - 1 + IF Prerotation THEN 1 ELSE 0]
    /\ entry' = [entry EXCEPT ![r] = [version |-> 1, signer |-> 1, auth |-> 1,
                    next |-> wallet'.next, last |-> FALSE]]
    /\ task' = [task EXCEPT ![t] = [pc |-> "stream", req |-> r]]
    /\ UNCHANGED <<log, local, pending, outside, submitted, result>>

\* update, deactivate: the DID of the scid and its state at the server are
\* read; when it has a next key hash, the keys are rotated.
StartUpdate(t, r, last) ==
    /\ task[t] = Idle /\ "scid" \in local /\ entry[r] = None /\ result[r] = "none"
    /\ \A s \in Tasks : task[s] # Idle => task[s].req # r
    /\ task' = [task EXCEPT ![t] =
          [pc |-> IF Prerotation THEN "rotate" ELSE "sign", req |-> r, last |-> last,
           version |-> Len(log) + 1, auth |-> Last.auth, next |-> Last.next, prev |-> wallet]]
    /\ UNCHANGED <<log, entry, keys, wallet, local, pending, outside, submitted, result>>

\* _rotate_update_key: the previous keys are looked up, ...
FindKeys(t) ==
    /\ task[t].pc = "rotate"
    /\ IF wallet.update = 0 THEN Return(t, "error")
       ELSE /\ task' = [task EXCEPT ![t].pc = "unbind update", ![t].prev = wallet]
            /\ UNCHANGED result
    /\ UNCHANGED <<log, entry, keys, wallet, local, pending, outside, submitted>>
\* ... each is unbound from its id, and an id is bound that must be free, to a
\* key that was found.
Unbind(t, id, key, pc, then) ==
    /\ task[t].pc = pc
    /\ wallet' = IF wallet[id] = key THEN [wallet EXCEPT ![id] = 0] ELSE wallet
    /\ Goto(t, then)
    /\ UNCHANGED <<log, entry, keys, local, pending, outside, submitted, result>>
UnbindUpdate(t) == task[t].pc = "unbind update"
                   /\ Unbind(t, "update", task[t].prev.update, "unbind update", "bind update")
UnbindNext(t)   == task[t].pc = "unbind next"
                   /\ Unbind(t, "next", task[t].prev.next, "unbind next", "bind next")
BindUpdate(t) ==
    /\ task[t].pc = "bind update"
    /\ IF wallet.update # 0 \/ task[t].prev.next = 0
       THEN Return(t, "error") /\ UNCHANGED wallet
       ELSE /\ wallet' = [wallet EXCEPT !.update = task[t].prev.next]
            /\ Goto(t, "unbind next") /\ UNCHANGED result
    /\ UNCHANGED <<log, entry, keys, local, pending, outside, submitted>>
BindNext(t) ==
    /\ task[t].pc = "bind next"
    /\ IF wallet.next # 0 THEN Return(t, "error") /\ UNCHANGED <<keys, wallet>>
       ELSE /\ keys' = keys + 1
            /\ wallet' = [wallet EXCEPT !.next = keys']
            /\ task' = [task EXCEPT ![t].pc = "sign", ![t].next = keys']
            /\ UNCHANGED result
    /\ UNCHANGED <<log, entry, local, pending, outside, submitted>>

\* The entry names the update key that is bound now, save that of a
\* deactivation, which names none: what was authorised before stays so.
Sign(t) ==
    /\ task[t].pc = "sign"
    /\ IF wallet.update = 0 THEN Return(t, "error") /\ UNCHANGED entry
       ELSE /\ entry' = [entry EXCEPT ![task[t].req] =
                 [version |-> task[t].version, signer |-> wallet.update,
                  auth |-> IF Prerotation /\ ~task[t].last THEN wallet.update ELSE task[t].auth,
                  next |-> task[t].next, last |-> task[t].last]]
            /\ task' = [task EXCEPT ![t] = [pc |-> "stream", req |-> task[t].req]]
            /\ UNCHANGED result
    /\ UNCHANGED <<log, keys, wallet, local, pending, outside, submitted>>

-----------------------------------------------------------------------------
(* streamline_did_operation and _request_witness_signature *)

\* The entry must follow the state at the server, read again.  Without a
\* witness, or when the controller attests it itself, it is finished at once.
Streamline(t) ==
    /\ task[t].pc = "stream"
    /\ LET r == task[t].req
       IN  IF entry[r].version # Len(log) + 1
           THEN Return(t, "error") /\ UNCHANGED attested
           ELSE /\ attested' = attested \cup IF Mode = "self" /\ AutoAttest THEN {r} ELSE {}
                /\ task' = [task EXCEPT ![t] =
                     IF Mode = "none" \/ r \in attested'
                     THEN [pc |-> "submit", req |-> r, waits |-> FALSE]
                     ELSE [@ EXCEPT !.pc = "ask"]]
                /\ UNCHANGED result
    /\ UNCHANGED <<log, entry, keys, wallet, local, pending, held, toWitness,
                   toController, submitted, told, closed>>

\* witness_log_entry: the witness agent is asked; of a controller that is its
\* own witness the record is saved, as it is once more by the next step.
Ask(t) ==
    /\ task[t].pc = "ask"
    /\ LET r == task[t].req
       IN  \/ /\ Goto(t, "save") /\ UNCHANGED result
              /\ IF Mode = "agent" THEN toWitness' = toWitness \cup {r} /\ UNCHANGED pending
                 ELSE pending' = [pending EXCEPT ![r] = "pending"] /\ UNCHANGED toWitness
           \/ Faults /\ Return(t, "error") /\ UNCHANGED <<toWitness, pending>>
    /\ UNCHANGED <<log, entry, keys, wallet, local, held, toController, attested,
                   submitted, told, closed>>

SavePending(t) ==
    /\ task[t].pc = "save"
    /\ pending' = [pending EXCEPT ![task[t].req] = "pending"]
    /\ IF Mode = "self" THEN Return(t, "pending") ELSE Goto(t, "wait") /\ UNCHANGED result
    /\ UNCHANGED <<log, entry, keys, wallet, local, outside, submitted>>

\* The wait ends without an event: the record is read, ...
TimeOut(t) ==
    /\ task[t].pc = "wait"
    /\ IF pending[task[t].req] = NoRecord THEN Return(t, "unknown")
       ELSE Goto(t, "timed out") /\ UNCHANGED result
    /\ UNCHANGED <<log, entry, keys, wallet, local, pending, outside, submitted>>
\* ... and replaced; one that was removed meanwhile cannot be.
Replaced(r, state) == IF pending[r] = NoRecord THEN NoRecord ELSE state
MarkPending(t) ==
    /\ task[t].pc = "timed out"
    /\ pending' = [pending EXCEPT ![task[t].req] = Replaced(task[t].req, "pending")]
    /\ Return(t, "unknown")
    /\ UNCHANGED <<log, entry, keys, wallet, local, outside, submitted>>

\* _wait_for_log_entry, when the event of the published entry comes.
Wake(t) ==
    /\ task[t].pc = "woken"
    /\ pending' = [pending EXCEPT ![task[t].req] = NoRecord]
    /\ Return(t, "document")
    /\ UNCHANGED <<log, entry, keys, wallet, local, outside, submitted>>

-----------------------------------------------------------------------------
(* finish_did_operation *)

\* The server takes an entry that follows its last one and is signed by an
\* authorised key: the one whose hash was named, if keys are rotated.
Acceptable(e) ==
    /\ e.version = Len(log) + 1
    /\ log # <<>> => ~Last.last
    /\ IF log = <<>> THEN e.signer = e.auth
       ELSE IF Prerotation THEN e.signer = e.auth /\ e.auth = Last.next
       ELSE e.signer = Last.auth

\* Bug: a refused submission goes on like one that was accepted.
GoOn(t) == Goto(t, "local") /\ UNCHANGED result
\* A submission that fails is an error of the caller.
Fail(t) ==
    /\ task' = [task EXCEPT ![t] = Idle]
    /\ result' = IF task[t].waits THEN result
                 ELSE [result EXCEPT ![task[t].req] = "error"]

Submit(t) ==
    /\ task[t].pc = "submit"
    /\ LET r == task[t].req
           e == entry[r]
       IN  /\ submitted' = submitted \cup {r}
           /\ \/ /\ Acceptable(e)
                 /\ log' = Append(log, [req |-> r, auth |-> e.auth, next |-> e.next, last |-> e.last])
                 /\ Goto(t, "local") /\ UNCHANGED result
              \/ /\ Acceptable(e) /\ Faults  \* applied, and not answered
                 /\ log' = Append(log, [req |-> r, auth |-> e.auth, next |-> e.next, last |-> e.last])
                 /\ Fail(t)
              \/ /\ ~Acceptable(e) \/ Faults
                 /\ Fail(t) /\ UNCHANGED log
    /\ UNCHANGED <<entry, keys, wallet, local, pending, outside>>

\* The first entry stores the DID, ...
SaveLocal(t) ==
    /\ task[t].pc = "local"
    /\ IF entry[task[t].req].version = 1
       THEN local' = local \cup {"did"} /\ Goto(t, "map")
       ELSE Goto(t, "notify") /\ UNCHANGED local
    /\ UNCHANGED <<log, entry, keys, wallet, pending, outside, submitted, result>>
\* ... then its scid in the configuration.
AddScid(t) ==
    /\ task[t].pc = "map"
    /\ local' = local \cup {"scid"} /\ Goto(t, "notify")
    /\ UNCHANGED <<log, entry, keys, wallet, pending, outside, submitted, result>>

\* A response handler has a waiter to wake and the record to remove; the call
\* itself returns, and the approval of a self witness only removes.
Notify(t) ==
    /\ task[t].pc = "notify"
    /\ IF task[t].waits
       THEN /\ task' = [s \in Tasks |->
                 CASE s = t -> [task[t] EXCEPT !.pc = "remove"]
                   [] s # t /\ task[s].pc = "wait" /\ task[s].req = task[t].req /\ Mode = "agent"
                      -> [task[s] EXCEPT !.pc = "woken"]
                   [] OTHER -> task[s]]
            /\ UNCHANGED result
       ELSE Return(t, "document")
    /\ UNCHANGED <<log, entry, keys, wallet, local, pending, outside, submitted>>

Remove(t) ==
    /\ task[t].pc = "remove"
    /\ pending' = [pending EXCEPT ![task[t].req] = NoRecord]
    /\ closed' = IF Mode = "self" THEN closed \cup {task[t].req} ELSE closed
    /\ task' = [task EXCEPT ![t] = Idle]
    /\ UNCHANGED <<log, entry, keys, wallet, local, held, toWitness, toController, attested,
                   submitted, told, result>>

-----------------------------------------------------------------------------
(* The witness agent *)

Say(r, state) == toController' = toController \cup {[req |-> r, state |-> state]}

\* WitnessRequestHandler
ReceiveRequest(r) ==
    /\ r \in toWitness /\ toWitness' = toWitness \ {r}
    /\ IF AutoAttest
       THEN /\ attested' = attested \cup {r} /\ told' = told \cup {r}
            /\ Say(r, "attested") /\ UNCHANGED held
       ELSE /\ held' = held \cup {r} /\ Say(r, "pending") /\ UNCHANGED <<attested, told>>
    /\ UNCHANGED <<log, entry, keys, wallet, local, task, pending, submitted, closed, result>>

\* approve_pending_witness_request: the record is read and the entry signed; a
\* self witness then finishes the operation itself.
Approvable(r) == IF Mode = "agent" THEN r \in held ELSE Mode = "self" /\ pending[r] # NoRecord
Approve(t, r) ==
    /\ task[t] = Idle /\ Approvable(r)
    /\ attested' = attested \cup {r}
    /\ task' = [task EXCEPT ![t] =
          [pc |-> IF Mode = "agent" THEN "answer" ELSE "submit", req |-> r, waits |-> TRUE]]
    /\ UNCHANGED <<log, entry, keys, wallet, local, pending, held, toWitness, toController,
                   submitted, told, closed, result>>
\* Bug: the record is removed although the response was not sent.
DropUnsent(t) == [task EXCEPT ![t].pc = "release"]
\* The record stays when the response cannot be sent.
Unsent(t) == [task EXCEPT ![t] = Idle]
SendAnswer(t) ==
    /\ task[t].pc = "answer"
    /\ \/ /\ Say(task[t].req, "attested") /\ told' = told \cup {task[t].req}
          /\ Goto(t, "release")
       \/ Faults /\ task' = Unsent(t) /\ UNCHANGED <<toController, told>>
    /\ UNCHANGED <<log, entry, keys, wallet, local, pending, held, toWitness, attested,
                   submitted, closed, result>>
Release(t) ==
    /\ task[t].pc = "release"
    /\ held' = held \ {task[t].req} /\ closed' = closed \cup {task[t].req}
    /\ task' = [task EXCEPT ![t] = Idle]
    /\ UNCHANGED <<log, entry, keys, wallet, local, pending, toWitness, toController,
                   attested, submitted, told, result>>

\* reject_pending_witness_request: the controller is told, which may fail.
Reject(r) ==
    /\ r \in held /\ held' = held \ {r}
    /\ Say(r, "rejected") \/ (Faults /\ UNCHANGED toController)
    /\ UNCHANGED <<log, entry, keys, wallet, local, task, pending, toWitness, attested,
                   submitted, told, closed, result>>
\* A controller that removes its own record tells nobody.
Withdraw(r) ==
    /\ pending[r] # NoRecord
    /\ pending' = [pending EXCEPT ![r] = NoRecord]
    /\ UNCHANGED <<log, entry, keys, wallet, local, task, outside, submitted, result>>

-----------------------------------------------------------------------------
(* WitnessResponseHandler of the controller *)

ReceiveResponse(t, m) ==
    /\ task[t] = Idle /\ m \in toController
    /\ toController' = toController \ {m}
    /\ task' = [task EXCEPT ![t] = [pc |-> "note", req |-> m.req, state |-> m.state,
                                    waits |-> TRUE, found |-> pending[m.req] # NoRecord]]
    /\ UNCHANGED <<log, entry, keys, wallet, local, pending, held, toWitness, attested,
                   submitted, told, closed, result>>

\* Bug: a response that says pending is taken for an attestation.
AnyAnswer(state) == IF state = "rejected" THEN "remove" ELSE "submit"
\* A rejected request is removed.  Of one that is pending an event is sent,
\* with its arguments swapped (manager.py:639): the waiter is not woken.
Handling(state) == CASE state = "rejected" -> "remove"
                     [] state = "pending"  -> "idle"
                     [] state = "attested" -> "submit"
\* Bug: a response to a request that is not on record is left alone.
IfFound(t) == IF task[t].found THEN Handling(task[t].state) ELSE "idle"
\* It is handled with or without a record: the call may not have saved it yet.
Follows(t) == Handling(task[t].state)
\* The record takes the state of the response, if it was found and is there.
NoteState(t) ==
    /\ task[t].pc = "note"
    /\ LET r == task[t].req
           pc == Follows(t)
       IN  /\ pending' = IF task[t].found
                         THEN [pending EXCEPT ![r] = Replaced(r, task[t].state)] ELSE pending
           /\ task' = [task EXCEPT ![t] =
                 IF pc = "idle" THEN Idle ELSE [pc |-> pc, req |-> r, waits |-> TRUE]]
    /\ UNCHANGED <<log, entry, keys, wallet, local, outside, submitted, result>>

Next ==
    \/ \E t \in Tasks :
          \/ \E r \in Requests : Create(t, r) \/ Approve(t, r)
                                 \/ \E last \in BOOLEAN : StartUpdate(t, r, last)
          \/ FindKeys(t) \/ UnbindUpdate(t) \/ BindUpdate(t) \/ UnbindNext(t) \/ BindNext(t)
          \/ Sign(t) \/ Streamline(t) \/ Ask(t) \/ SavePending(t) \/ TimeOut(t)
          \/ MarkPending(t) \/ Wake(t) \/ Submit(t) \/ SaveLocal(t) \/ AddScid(t)
          \/ Notify(t) \/ Remove(t) \/ SendAnswer(t) \/ Release(t)
          \/ \E m \in toController : ReceiveResponse(t, m)
          \/ NoteState(t)
    \/ \E r \in Requests : ReceiveRequest(r) \/ Reject(r) \/ Withdraw(r)
Spec == Init /\ [][Next]_vars

-----------------------------------------------------------------------------
\* Records are in a state of WitnessingState, and the server's versions count.
TypeOK ==
    /\ wallet.update \in 0..keys /\ wallet.next \in 0..keys
    /\ \A r \in Requests : pending[r] \in {NoRecord, "pending", "attested", "rejected"}
    /\ \A i \in DOMAIN log : entry[log[i].req].version = i
    /\ attested \subseteq {r \in Requests : entry[r] # None} /\ local \subseteq {"did", "scid"}

\* Nothing reaches the server that the witness has not signed, whatever states
\* its responses report and however late they come (finish_did_operation).
SubmittedAttested == Mode # "none" => submitted \subseteq attested

\* A caller that is given the document has its entry in the log, and the local
\* DID and its scid are there for a published log only.
SuccessIsPublished ==
    /\ \A r \in Requests : result[r] = "document" => r \in Published
    /\ local # {} => log # <<>>

\* An approval is not lost: until the response is out, or a self witness's
\* entry is published, its record is there to be approved again.
ApprovalKept == closed \subseteq IF Mode = "self" THEN Published ELSE told

\* A signature that the witness sent is used, whether the call waits for it,
\* has timed out, or has yet to save the record of its request: the entry is
\* submitted, or the response is still to be handled.
SignatureSubmitted ==
    \A r \in told :
       \/ r \in submitted \/ [req |-> r, state |-> "attested"] \in toController
       \/ \E t \in Tasks : /\ task[t].pc \in {"note", "submit"} /\ task[t].req = r
                           /\ task[t].pc = "note" => task[t].state = "attested"
=============================================================================
