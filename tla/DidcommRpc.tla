----------------------------- MODULE DidcommRpc -----------------------------
(***************************************************************************)
(* The rpc plugin: one agent sends requests over its connections with      *)
(* another, whose controller answers them, once or more often.  Each keeps *)
(* a record per request, found by connection and thread, or by the id that *)
(* was cached the first time.  Requests and answers are not told apart     *)
(* further; messages may come late, twice or not at all.                   *)
(***************************************************************************)
EXTENDS Naturals, Sequences

CONSTANTS
    Conns,      \* connections that are ready
    Threads,    \* thread ids, each made up for one request
    Answers,    \* what a controller may answer
    Tasks,      \* slots for concurrent calls and handlers
    Faults,     \* messages are lost or delivered twice, calls break off
    MaxRecords  \* bound: records of each agent

VARIABLES
    sent,       \* records of the requester
    received,   \* records of the responder
    cached,     \* ids that each of them has cached
    toResponder, toRequester,  \* messages under way
    task,       \* calls and handlers in progress
    given,      \* answers the responder has stored, for which thread
    refused     \* answers for which the requester found no record

vars == <<sent, received, cached, toResponder, toRequester, task, given, refused>>

Idle == [pc |-> "idle"]
None == "none"

Init ==
    /\ sent = <<>> /\ received = <<>> /\ cached = [by |-> {}, of |-> {}]
    /\ toResponder = {} /\ toRequester = {}
    /\ task = [k \in Tasks |-> Idle]
    /\ given = {} /\ refused = {}

Start(k, new) == task[k] = Idle /\ task' = [task EXCEPT ![k] = new]
Goto(k, pc)   == task' = [task EXCEPT ![k].pc = pc]
End(k)        == task' = [task EXCEPT ![k] = Idle]
Thread(c, t)  == [conn |-> c, thread |-> t]
Record(at)    == [at |-> at, state |-> "request", answer |-> None]

-----------------------------------------------------------------------------
(* drpc_send_request *)

\* The record is stored before the message has an id, ...
Store(k, c, t) ==
    /\ Start(k, [pc |-> "tag", at |-> Thread(c, t), id |-> Len(sent) + 1])
    /\ Len(sent) < MaxRecords
    /\ \A i \in DOMAIN sent : \A x \in sent[i].at : x.thread # t
    /\ \A j \in Tasks : task[j].pc \in {"tag", "send"} => task[j].at.thread # t
    /\ sent' = Append(sent, Record({}))
    /\ UNCHANGED <<received, cached, toResponder, toRequester, given, refused>>
\* Bug: the record gets no tags.
Untagged(k) ==
    /\ task[k].pc = "tag" /\ Goto(k, "send")
    /\ UNCHANGED <<sent, received, cached, toResponder, toRequester, given, refused>>
\* ... and tagged with its thread before it is sent.
Tag(k) ==
    /\ task[k].pc = "tag" /\ Goto(k, "send")
    /\ sent' = [sent EXCEPT ![task[k].id].at = {task[k].at}]
    /\ UNCHANGED <<received, cached, toResponder, toRequester, given, refused>>
SendRequest(k) ==
    /\ task[k].pc = "send" /\ End(k)
    /\ toResponder' = toResponder \cup {task[k].at}
    /\ UNCHANGED <<sent, received, cached, toRequester, given, refused>>

\* DRPCRequestHandler adds a record, whatever is there.
ReceiveRequest(m) ==
    /\ Len(received) < MaxRecords
    /\ received' = Append(received, Record({m}))
    /\ toResponder' = toResponder \ {m} \/ (Faults /\ UNCHANGED toResponder)
    /\ UNCHANGED <<sent, cached, toRequester, task, given, refused>>

-----------------------------------------------------------------------------
(* retrieve_by_connection_and_thread *)

\* Bug: one id is cached per connection.
KeyOfConn(at) == at.conn
Key(at) == at
\* The id that is cached, or that of the only record with the tags.
Found(side, records, at) ==
    LET hits == {e.id : e \in {x \in cached[side] : x.key = Key(at)}}
        all  == {i \in DOMAIN records : records[i].at = {at}}
    IN  IF hits # {} THEN hits ELSE IF \E i \in all : all = {i} THEN all ELSE {}
Cache(side, at, id) ==
    cached' = [cached EXCEPT ![side] = @ \cup {[key |-> Key(at), id |-> id]}]
Answered(records, id, answer) ==
    [records EXCEPT ![id].state = "completed", ![id].answer = answer]

\* drpc_send_response: the record of what the controller answers is read, and
\* if there is one and no more, changed; the answer is sent then.
Respond(k, at, answer) ==
    \E id \in Found("of", received, at) :
        /\ Start(k, [pc |-> "answer", at |-> at, id |-> id, answer |-> answer])
        /\ Cache("of", at, id)
        /\ UNCHANGED <<sent, received, toResponder, toRequester, given, refused>>
StoreAnswer(k) ==
    /\ task[k].pc = "answer" /\ Goto(k, "respond")
    /\ received' = Answered(received, task[k].id, task[k].answer)
    /\ given' = given \cup {<<task[k].at, task[k].answer>>}
    /\ UNCHANGED <<sent, cached, toResponder, toRequester, refused>>
SendResponse(k) ==
    /\ task[k].pc = "respond" /\ End(k)
    /\ toRequester' = toRequester \cup {<<task[k].at, task[k].answer>>}
    /\ UNCHANGED <<sent, received, cached, toResponder, given, refused>>

\* DRPCResponseHandler: the same for the record of the request that was sent.
ReceiveResponse(k, m) ==
    LET ids == Found("by", sent, m[1])
    IN  /\ toRequester' = toRequester \ {m} \/ (Faults /\ UNCHANGED toRequester)
        /\ \/ \E id \in ids :
                 /\ Start(k, [pc |-> "complete", id |-> id, answer |-> m[2]])
                 /\ Cache("by", m[1], id) /\ UNCHANGED refused
           \/ ids = {} /\ refused' = refused \cup {m} /\ UNCHANGED <<task, cached>>
        /\ UNCHANGED <<sent, received, toResponder, given>>
Complete(k) ==
    /\ task[k].pc = "complete" /\ End(k)
    /\ sent' = Answered(sent, task[k].id, task[k].answer)
    /\ UNCHANGED <<received, cached, toResponder, toRequester, given, refused>>

Lose ==
    /\ Faults
    /\ \/ \E m \in toResponder : toResponder' = toResponder \ {m} /\ UNCHANGED toRequester
       \/ \E m \in toRequester : toRequester' = toRequester \ {m} /\ UNCHANGED toResponder
    /\ UNCHANGED <<sent, received, cached, task, given, refused>>
Break(k) ==
    /\ Faults /\ task[k] # Idle /\ End(k)
    /\ UNCHANGED <<sent, received, cached, toResponder, toRequester, given, refused>>

Next ==
    \/ \E k \in Tasks :
          \/ \E c \in Conns, t \in Threads : Store(k, c, t)
          \/ Tag(k) \/ SendRequest(k)
          \/ \E i \in DOMAIN received : \E at \in received[i].at, a \in Answers : Respond(k, at, a)
          \/ StoreAnswer(k) \/ SendResponse(k)
          \/ \E m \in toRequester : ReceiveResponse(k, m)
          \/ Complete(k) \/ Break(k)
    \/ \E m \in toResponder : ReceiveRequest(m)
    \/ Lose
Spec == Init /\ [][Next]_vars

-----------------------------------------------------------------------------
TypeOK ==
    /\ \A i \in DOMAIN sent : (sent[i].answer = None) = (sent[i].state = "request")
    /\ \A e \in cached.by : e.id \in DOMAIN sent
    /\ \A e \in cached.of : e.id \in DOMAIN received

\* The answer a requester has stored was given for that very request, also when
\* answers overtake each other and several requests share a connection.
AnswerWasGiven ==
    \A i \in DOMAIN sent : sent[i].state = "completed" =>
        \E at \in sent[i].at : <<at, sent[i].answer>> \in given

\* No answer comes before its record can be found (drpc_send_request).
NoneRefused == refused = {}
=============================================================================
