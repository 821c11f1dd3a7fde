---------------------------- MODULE WebvhResource ----------------------------
(***************************************************************************)
(* The AnonCreds objects of a did:webvh issuer: attested resources that    *)
(* are uploaded to the server, after a witness has signed them when the    *)
(* endorsement is on.  A registration that has to wait returns at once;    *)
(* the response of the witness completes it.  The status lists of a        *)
(* revocation registry are found by the links of its definition, which a   *)
(* list that is published is added to.                                     *)
(* A pending request has a record, and all records are listed by one       *)
(* index, which is read in one session and written whole in another: a     *)
(* retry looks a request up by the index, its response by its own id.      *)
(***************************************************************************)
EXTENDS Integers, Sequences

CONSTANTS
    Schemas, Definitions, \* objects to register (and their kinds)
    Lists, InitialList,   \* status lists of one registry, and its first
    Tasks,                \* slots for concurrent calls and handlers
    Mode,                 \* "none", "self" or "agent": who endorses
    AutoAttest,           \* the witness signs without being asked to
    Faults,               \* the server and the connections may fail
    MaxRequests           \* bound: requests to the witness

VARIABLES
    server,   \* resources uploaded
    links,    \* lists that the server's registry definition links to
    reqs,     \* requests to the witness and what has become of each
    local,    \* state of the issuer's own record of each object
    result,   \* what the last registration of each resource returned
    task,     \* calls and handlers in progress
    index,    \* ids of requests listed as pending
    update    \* the update of the index that each task is making

vars == <<server, links, reqs, local, result, task, index, update>>
listing == <<index, update>>

Objects   == Schemas \cup Definitions
Resources == Objects \cup Lists
Registry  == "registry"  \* the definition, which is on the server at first
Idle      == [pc |-> "idle"]
NoRecord  == "none"
NoUpdate  == [step |-> "none"]

Init ==
    /\ index = {} /\ update = [t \in Tasks |-> NoUpdate]
    /\ server = {Registry} /\ links = {} /\ reqs = <<>>
    /\ local = [o \in Objects |-> "none"]
    /\ result = [o \in Resources |-> "none"]
    /\ task = [t \in Tasks |-> Idle]

Goto(t, pc) == task' = [task EXCEPT ![t].pc = pc]
Fail(t, of) == task' = [task EXCEPT ![t] = Idle] /\ result' = [result EXCEPT ![of] = "error"]
Request(of, its, record, witness) ==
    [of |-> of, links |-> its, record |-> record, witness |-> witness,
     signed |-> FALSE, answers |-> {}, unlisted |-> FALSE]
Attested(of) == \E i \in DOMAIN reqs : reqs[i].of = of /\ reqs[i].signed

-----------------------------------------------------------------------------
(* The index of the pending records *)

\* save_pending_record and remove_pending_record, once the record is written.
ThenIndex(t, op, i) == update' = [update EXCEPT ![t] = [step |-> "read", op |-> op, id |-> i]]
                       /\ UNCHANGED index
ReadIndex(t) ==
    /\ update[t].step = "read"
    /\ LET id  == update[t].id
           ids == IF update[t].op = "add" THEN index \cup {id} ELSE index \ {id}
       IN  update' = [update EXCEPT ![t] =
              IF ids = index THEN NoUpdate ELSE [step |-> "write", ids |-> ids]]
    /\ UNCHANGED <<server, links, reqs, local, result, task, index>>
\* What was listed since the index was read is no longer (unlisted).
WriteIndex(t) ==
    /\ update[t].step = "write"
    /\ index' = update[t].ids /\ update' = [update EXCEPT ![t] = NoUpdate]
    /\ reqs' = [i \in DOMAIN reqs |-> [reqs[i] EXCEPT !.unlisted =
          @ \/ (reqs[i].record # NoRecord /\ i \in index \ update[t].ids)]]
    /\ UNCHANGED <<server, links, local, result, task>>

\* get_pending_records: without an index, every record is fetched.
Listed == {i \in DOMAIN reqs : reqs[i].record # NoRecord /\ (index = {} \/ i \in index)}

-----------------------------------------------------------------------------
(* register_* and update_revocation_list *)

\* _create_and_publish_resource: without endorsement the resource is uploaded
\* at once.  A call that failed or waits may be repeated.
Register(t, of) ==
    /\ task[t] = Idle /\ result[of] # "finished"
    /\ \A s \in Tasks : task[s] # Idle /\ "caller" \in DOMAIN task[s] => task[s].of # of
    /\ task' = [task EXCEPT ![t] =
          [pc |-> CASE Mode = "agent" -> "look"
                    [] Mode = "self" /\ ~AutoAttest -> "ask"
                    [] OTHER -> "upload",
           of |-> of, caller |-> "issuer", of2 |-> of, id |-> 0]]
    /\ UNCHANGED <<server, links, reqs, local, result>>
RegisterSchema(t, of)     == of \in Schemas /\ Register(t, of)
RegisterDefinition(t, of) == of \in Definitions /\ Register(t, of)
RegisterList(t, of)       == of = InitialList /\ Register(t, of)
UpdateList(t, of)         == of \in Lists \ {InitialList} /\ Register(t, of)

\* Bug: a pending request for the resource is not looked for.
SameNever(r, of) == FALSE
\* get_pending_record_for_resource: status lists are of one registry, and any
\* request for a list of it is taken for this one's.
Same(r, of) == r.of = of \/ (r.of \in Lists /\ of \in Lists)
Look(t) ==
    /\ task[t].pc = "look"
    /\ LET pending == {i \in Listed : Same(reqs[i], task[t].of)}
       IN  \/ pending = {} /\ Goto(t, "ask")
           \/ \E i \in pending : task' = [task EXCEPT ![t].pc = "wait", ![t].id = i,
                                                       ![t].of2 = reqs[i].of]
    /\ UNCHANGED <<server, links, reqs, local, result>>

\* witness_attested_resource: a controller that is its own witness saves the
\* record, which the next step does again.
Ask(t) ==
    /\ task[t].pc = "ask" /\ Len(reqs) < MaxRequests
    /\ \/ /\ IF Mode = "agent"
             THEN /\ reqs' = Append(reqs, Request(task[t].of, {}, NoRecord, "sent"))
                  /\ UNCHANGED listing
             ELSE /\ reqs' = Append(reqs, Request(task[t].of, {}, "pending", "done"))
                  /\ ThenIndex(t, "add", Len(reqs) + 1)
          /\ task' = [task EXCEPT ![t].pc = "save", ![t].id = Len(reqs) + 1]
          /\ UNCHANGED result
       \/ Faults /\ Fail(t, task[t].of) /\ UNCHANGED <<reqs, listing>>
    /\ UNCHANGED <<server, links, local>>

\* The record by which a later call finds the request, saved once it is sent.
SavePending(t) ==
    /\ task[t].pc = "save"
    /\ reqs' = [reqs EXCEPT ![task[t].id].record = "pending"]
    /\ Goto(t, "store wait") /\ ThenIndex(t, "add", task[t].id)
    /\ UNCHANGED <<server, links, local, result>>

\* Bug: what the server refuses counts as uploaded.
GoOn(t, of) == Goto(t, "store finished") /\ UNCHANGED result
Refused(t, of) == Fail(t, of)
Upload(t) ==
    /\ task[t].pc = "upload"
    /\ \/ /\ server' = server \cup {task[t].of}
          /\ Goto(t, IF task[t].of \in Lists THEN "resolve" ELSE "store finished")
          /\ UNCHANGED result
       \/ Faults /\ Refused(t, task[t].of) /\ UNCHANGED server
    /\ UNCHANGED <<links, reqs, local>>

\* The wait for a request that was found: two seconds, or its event.
TimeOut(t) ==
    /\ task[t].pc = "wait" /\ Fail(t, task[t].of)
    /\ UNCHANGED <<server, links, reqs, local>>
Wake(t) ==
    /\ task[t].pc = "woken"
    /\ reqs' = [reqs EXCEPT ![task[t].id].record = NoRecord]
    /\ Goto(t, IF task[t].of \in Lists THEN "resolve" ELSE "store finished")
    /\ ThenIndex(t, "remove", task[t].id)
    /\ UNCHANGED <<server, links, local, result>>

\* A list that is published is linked: the definition is read and replaced,
\* with the controller's proof only.  An update fails when there are no links.
Resolve(t) ==
    /\ task[t].pc = "resolve"
    /\ IF task[t].of # InitialList /\ links = {} THEN Fail(t, task[t].of)
       ELSE /\ task' = [task EXCEPT ![t] =
                 [pc |-> "link", caller |-> "issuer", of |-> task[t].of, of2 |-> task[t].of2,
                  links |-> IF task[t].of = InitialList THEN {} ELSE links]]
            /\ UNCHANGED result
    /\ UNCHANGED <<server, links, reqs, local>>
UpdateLinks(t) ==
    /\ task[t].pc = "link"
    /\ \/ /\ links' = task[t].links \cup {task[t].of2}
          /\ Goto(t, "store finished") /\ UNCHANGED result
       \/ Faults /\ Fail(t, task[t].of) /\ UNCHANGED links
    /\ UNCHANGED <<server, reqs, local>>

\* The issuer of the agent that made the call stores its record, once.
Store(t, state) ==
    /\ <<task[t].pc, state>> \in {<<"store wait", "wait">>, <<"store finished", "finished">>}
    /\ local' = IF task[t].of \in Objects /\ local[task[t].of] = "none"
                THEN [local EXCEPT ![task[t].of] = state] ELSE local
    /\ result' = [result EXCEPT ![task[t].of] = state]
    /\ task' = [task EXCEPT ![t] = Idle]
    /\ UNCHANGED <<server, links, reqs>>

-----------------------------------------------------------------------------
(* The witness agent *)

Answer(i, state, witness, signed) ==
    reqs' = [reqs EXCEPT ![i].answers = @ \cup {state}, ![i].witness = witness,
                         ![i].signed = @ \/ signed]
\* WitnessRequestHandler
ReceiveRequest(i) ==
    /\ reqs[i].witness = "sent"
    /\ IF AutoAttest THEN Answer(i, "attested", "done", TRUE)
       ELSE Answer(i, "pending", "held", FALSE)
    /\ UNCHANGED <<server, links, local, result, task>>
\* approve_pending_witness_request: signed, sent, then removed.
Approve(i) ==
    /\ reqs[i].witness \in {"held", "told"}
    /\ \/ Answer(i, "attested", "told", TRUE)
       \/ Faults /\ reqs' = [reqs EXCEPT ![i].signed = TRUE]
    /\ UNCHANGED <<server, links, local, result, task>>
Release(i) ==
    /\ reqs[i].witness = "told" /\ reqs' = [reqs EXCEPT ![i].witness = "done"]
    /\ UNCHANGED <<server, links, local, result, task>>
\* reject_pending_witness_request of the witness, and of the controller.
Reject(i) ==
    /\ reqs[i].witness = "held" /\ Answer(i, "rejected", "done", FALSE)
    /\ UNCHANGED <<server, links, local, result, task>>
Withdraw(t, i) ==
    /\ task[t] = Idle
    /\ reqs[i].record # NoRecord /\ reqs' = [reqs EXCEPT ![i].record = NoRecord]
    /\ ThenIndex(t, "remove", i)
    /\ UNCHANGED <<server, links, local, result, task>>

-----------------------------------------------------------------------------
(* WitnessResponseHandler of the controller *)

Receive(t, i, state) ==
    /\ task[t] = Idle /\ state \in reqs[i].answers
    /\ reqs' = [reqs EXCEPT ![i].answers = @ \ {state}]
    /\ task' = [task EXCEPT ![t] = [pc |-> "note", id |-> i, state |-> state,
                                    found |-> reqs[i].record # NoRecord]]
    /\ UNCHANGED <<server, links, local, result>>

\* Bug: a response that says pending completes the registration.
AnyAnswer(state) == IF state = "rejected" THEN "drop" ELSE "keep"
Handling(state) == CASE state = "rejected" -> "drop"
                     [] state = "pending"  -> "idle"
                     [] state = "attested" -> "keep"
NoteState(t) ==
    /\ task[t].pc = "note"
    /\ LET i == task[t].id
       IN  reqs' = [reqs EXCEPT ![i].record =
              IF task[t].found /\ @ # NoRecord THEN task[t].state ELSE @]
    /\ task' = [task EXCEPT ![t] =
          IF Handling(task[t].state) = "idle" THEN Idle
          ELSE [pc |-> Handling(task[t].state), id |-> task[t].id]]
    /\ UNCHANGED <<server, links, local, result>>

\* The issuer's record is finished; that of a schema is made if it is missing.
\* What is updated of the registry definition are its links alone.
WithFinished(of) ==
    IF of \in Schemas \/ (of \in Definitions /\ local[of] # "none")
    THEN [local EXCEPT ![of] = "finished"] ELSE local
\* store_attested_resource_after_attestation, before the resource is uploaded.
Keep(t) ==
    /\ task[t].pc = "keep"
    /\ LET of == reqs[task[t].id].of
       IN  /\ local' = WithFinished(of)
           /\ \/ of \in Lists /\ task' = [task EXCEPT ![t] =
                                [pc |-> "save link", id |-> @.id, links |-> links]]
              \/ (of \in Lists => Faults) /\ Goto(t, "publish")
    /\ UNCHANGED <<server, links, reqs, result>>
\* add_revocation_list_link: the definition with the link is another request,
\* which is recorded, ...
SaveLink(t) ==
    /\ task[t].pc = "save link" /\ Len(reqs) < MaxRequests
    /\ reqs' = Append(reqs, Request(Registry, task[t].links \cup {reqs[task[t].id].of},
                                    "pending", "unsent"))
    /\ task' = [task EXCEPT ![t] = [pc |-> "send link", id |-> @.id, link |-> Len(reqs) + 1]]
    /\ ThenIndex(t, "add", Len(reqs) + 1)
    /\ UNCHANGED <<server, links, local, result>>
\* ... then sent; a failure is only logged.
SendLink(t) ==
    /\ task[t].pc = "send link"
    /\ \/ reqs' = [reqs EXCEPT ![task[t].link].witness = "sent"]
       \/ Faults /\ UNCHANGED reqs
    /\ task' = [task EXCEPT ![t] = [pc |-> "publish", id |-> @.id]]
    /\ UNCHANGED <<server, links, local, result>>

\* upload_resource
Publish(t) ==
    /\ task[t].pc = "publish"
    /\ LET r == reqs[task[t].id]
       IN  \/ /\ server' = server \cup {r.of}
              /\ links' = IF r.of = Registry THEN r.links ELSE links
              /\ Goto(t, "notify")
           \/ /\ Faults /\ task' = [task EXCEPT ![t] = Idle]
              /\ UNCHANGED <<server, links>>
    /\ UNCHANGED <<reqs, local, result>>
Notify(t) ==
    /\ task[t].pc = "notify"
    /\ task' = [s \in Tasks |->
          CASE s = t -> [task[t] EXCEPT !.pc = "drop"]
            [] s # t /\ task[s].pc = "wait" /\ task[s].id = task[t].id
               -> [task[s] EXCEPT !.pc = "woken"]
            [] OTHER -> task[s]]
    /\ UNCHANGED <<server, links, reqs, local, result>>
Drop(t) ==
    /\ task[t].pc = "drop"
    /\ reqs' = [reqs EXCEPT ![task[t].id].record = NoRecord]
    /\ task' = [task EXCEPT ![t] = Idle] /\ ThenIndex(t, "remove", task[t].id)
    /\ UNCHANGED <<server, links, local, result>>

\* Steps that end in an update of the index, and those that leave it alone.
Indexing(t) ==
    \/ Ask(t) \/ SavePending(t) \/ Wake(t) \/ SaveLink(t) \/ Drop(t)
    \/ \E i \in DOMAIN reqs : Withdraw(t, i)
Plain(t) ==
    \/ \E of \in Resources : \/ RegisterSchema(t, of) \/ RegisterDefinition(t, of)
                             \/ RegisterList(t, of) \/ UpdateList(t, of)
    \/ Look(t) \/ Upload(t) \/ TimeOut(t) \/ Resolve(t) \/ UpdateLinks(t)
    \/ \E state \in {"wait", "finished"} : Store(t, state)
    \/ \E i \in DOMAIN reqs : \E state \in reqs[i].answers : Receive(t, i, state)
    \/ NoteState(t) \/ Keep(t) \/ SendLink(t) \/ Publish(t) \/ Notify(t)
\* A task goes on when its update of the index is done.
Next ==
    \/ \E t \in Tasks : \/ ReadIndex(t) \/ WriteIndex(t)
                        \/ update[t] = NoUpdate /\ Indexing(t)
                        \/ update[t] = NoUpdate /\ Plain(t) /\ UNCHANGED listing
    \/ /\ \E i \in DOMAIN reqs : ReceiveRequest(i) \/ Approve(i) \/ Release(i) \/ Reject(i)
       /\ UNCHANGED listing
Spec == Init /\ [][Next]_vars

-----------------------------------------------------------------------------
TypeOK ==
    /\ server \subseteq Resources \cup {Registry} /\ links \subseteq Lists
    /\ \A o \in Objects : local[o] \in {"none", "wait", "finished"}
    /\ \A i \in DOMAIN reqs : reqs[i].record \in {NoRecord, "pending", "attested", "rejected"}
    /\ index \subseteq DOMAIN reqs

\* Each object and status list that an endorsed issuer uploads, holds as
\* finished or links to has been signed by the witness, whatever the order of
\* its answers and of the calls.  The registry definition itself is not among
\* them: its links are also written without the witness (UpdateLinks).
OnlyAttested ==
    Mode = "agent" =>
        /\ \A of \in (server \cup links) \ {Registry} : Attested(of)
        /\ \A o \in Objects : local[o] = "finished" => Attested(o)

\* What a caller is told is finished is on the server: the object itself, and
\* for a list some list of the registry.  Without an endorsement the list itself
\* is, a list that is linked is there to be found, and what the issuer has as
\* finished is there too; with one, that is stored before the upload, and the
\* link is asked for before it, so that both stay when the upload fails.
FinishedUploaded ==
    /\ \A of \in Objects : result[of] = "finished" => of \in server
    /\ \A of \in Lists : result[of] = "finished" => \E l \in Lists : l \in server
    /\ Mode # "agent" =>
          /\ \A of \in Lists : result[of] = "finished" => of \in server
          /\ \A o \in Objects : local[o] = "finished" => o \in server
          /\ links \subseteq server

\* A registration that is retried does not ask again for what is still asked
\* for, unless the index was written by an update that had read it before the
\* request was listed (calls for one object come one at a time).
AskedOnce ==
    \A i, j \in DOMAIN reqs :
        /\ i # j /\ reqs[i].of = reqs[j].of /\ reqs[i].of # Registry
        /\ reqs[i].record # NoRecord /\ reqs[j].record # NoRecord
        => reqs[i].unlisted \/ reqs[j].unlisted
=============================================================================
