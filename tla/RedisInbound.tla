---------------------------- MODULE RedisInbound ----------------------------
(***************************************************************************)
(* The inbound half of the redis_events plugin: relays (and mediators in   *)
(* front of an outbound queue) put each message on the list of its         *)
(* recipient key, and every plugin instance takes messages from the lists  *)
(* of the keys assigned to it.  Who has which key is shared state in       *)
(* Redis, kept by process_payload_recip_key one command at a time: each    *)
(* step below is one command, and every handler and every instance may run *)
(* between two of them.                                                    *)
(*                                                                         *)
(* A hash entry that is absent and one that is empty or 0 are read alike,  *)
(* so keysOf and pending are total; registered holds the entries of        *)
(* uid_recip_keys_map.  The round robin of get_new_valid_uid is a choice.  *)
(* Messages are counted, not told apart.                                   *)
(***************************************************************************)
EXTENDS Naturals, FiniteSets

CONSTANTS
    Keys,         \* recipient keys
    Agents,       \* plugin instances (uids)
    NoAgent,      \* the route of a key that has none
    Handlers,     \* concurrent message handlers of the relays
    MaxFaults,    \* bound: commands that raise an error, instances that stop
    MaxMsgs,      \* bound: messages that arrive
    MaxPending    \* bound: a pending count, and the messages on one list

ASSUME RedisInboundAssumption ==
    /\ Keys # {}
    /\ NoAgent \notin Agents
    /\ MaxFaults \in Nat
    /\ MaxMsgs \in Nat
    /\ MaxPending \in Nat

VARIABLES
    route,       \* recip_key_uid_map
    registered,  \* the uids in uid_recip_keys_map
    keysOf,      \* uid_recip_keys_map: the keys of each uid
    pending,     \* uid_recip_key_pending_msg_count
    access,      \* uid_last_access_map: "never", "recent", or "old" (15 s)
    topic,       \* messages on the list of each key
    handler,     \* the message handlers
    agent,       \* the polling loop of each plugin instance
    arrived,     \* messages that arrived
    faults       \* commands that failed and instances that stopped, so far

redis == <<route, registered, keysOf, pending, access, topic>>
vars  == <<route, registered, keysOf, pending, access, topic,
           handler, agent, arrived, faults>>

Counts == 0..MaxPending

\* A handler: the message's key, the uid it will be counted for, and the local
\* variables of the three routines.
HPcs == {"idle", "lookup", "choose", "assign", "read", "add", "reset", "check",
         "list", "scan", "pick", "readOld", "readNew", "writeOld", "readCount",
         "dropCount", "reroute", "writeNew", "addCount", "prune", "drop",
         "count", "push"}
Handler == [pc : HPcs, key : Keys, uid : Agents \cup {NoAgent},
            old : Agents \cup {NoAgent}, new : Agents \cup {NoAgent},
            moved : Keys, todo : SUBSET Keys, mine : SUBSET Keys,
            theirs : SUBSET Keys, cnt : Counts]

\* An instance: the keys it still has to poll, and the message it handles.
APcs  == {"off", "poll", "pop", "touch", "count", "write", "process", "dead"}
Agent == [pc : APcs, batch : SUBSET Keys, key : Keys, cnt : Counts]

SomeKey == CHOOSE k \in Keys : TRUE
IdleHandler == [pc |-> "idle", key |-> SomeKey, uid |-> NoAgent,
                old |-> NoAgent, new |-> NoAgent, moved |-> SomeKey,
                todo |-> {}, mine |-> {}, theirs |-> {}, cnt |-> 0]
OffAgent == [pc |-> "off", batch |-> {}, key |-> SomeKey, cnt |-> 0]

Init ==
    /\ route = [k \in Keys |-> NoAgent]
    /\ registered = {}
    /\ keysOf = [a \in Agents |-> {}]
    /\ pending = [a \in Agents |-> [k \in Keys |-> 0]]
    /\ access = [a \in Agents |-> "never"]
    /\ topic = [k \in Keys |-> 0]
    /\ handler = [h \in Handlers |-> IdleHandler]
    /\ agent = [a \in Agents |-> OffAgent]
    /\ arrived = 0
    /\ faults = 0

\* A step of handler h from pc p, which leaves it as r.
HStep(h, p, r) ==
    /\ handler[h].pc = p
    /\ handler' = [handler EXCEPT ![h] = r]
    /\ UNCHANGED <<agent, arrived, faults>>

\* The same, for a command that only reads.
HRead(h, p, r) == HStep(h, p, r) /\ UNCHANGED redis

Fault == faults < MaxFaults /\ faults' = faults + 1

To(h, p) == [handler[h] EXCEPT !.pc = p]

SetKeys(a, K) ==
    /\ keysOf' = [keysOf EXCEPT ![a] = K]
    /\ registered' = registered \cup {a}
SetCount(a, k, n) ==
    /\ n <= MaxPending
    /\ pending' = [pending EXCEPT ![a][k] = n]

-----------------------------------------------------------------------------
(***************************************************************************)
(* process_payload_recip_key, with assign_recip_key_to_new_uid inlined.    *)
(***************************************************************************)
Receive(h, k) ==
    /\ handler[h].pc = "idle"
    /\ arrived < MaxMsgs
    /\ arrived' = arrived + 1
    /\ handler' = [handler EXCEPT ![h] = [IdleHandler EXCEPT !.pc = "lookup", !.key = k]]
    /\ UNCHANGED <<agent, redis, faults>>

Lookup(h) ==
    LET u == route[handler[h].key]
    IN  HRead(h, "lookup", IF u = NoAgent THEN To(h, "choose")
                           ELSE [To(h, "check") EXCEPT !.uid = u])

\* Bug: the key is listed without having been routed.
ChooseUnrouted(h, a) ==
    /\ a \in registered
    /\ HRead(h, "choose", [To(h, "read") EXCEPT !.new = a])

\* get_new_valid_uid waits until an instance is registered.
Choose(h, a) ==
    /\ a \in registered
    /\ HRead(h, "choose", [To(h, "assign") EXCEPT !.new = a])

Assign(h) ==
    /\ HStep(h, "assign", To(h, "read"))
    /\ route' = [route EXCEPT ![handler[h].key] = handler[h].new]
    /\ UNCHANGED <<registered, keysOf, pending, access, topic>>

ReadKeys(h) ==
    LET K == keysOf[handler[h].new]
    IN  HRead(h, "read", [To(h, IF handler[h].key \in K THEN "reset" ELSE "add")
                            EXCEPT !.mine = K])

AddKey(h) ==
    /\ HStep(h, "add", To(h, "reset"))
    /\ SetKeys(handler[h].new, handler[h].mine \cup {handler[h].key})
    /\ UNCHANGED <<route, pending, access, topic>>

ResetCount(h) ==
    /\ HStep(h, "reset", [To(h, "check") EXCEPT !.uid = handler[h].new])
    /\ SetCount(handler[h].new, handler[h].key, 0)
    /\ UNCHANGED <<route, registered, keysOf, access, topic>>

Stale(a) == access[a] # "recent"

Check(h) ==
    HRead(h, "check", To(h, IF Stale(handler[h].uid) THEN "list" ELSE "count"))

\* A stale uid is given up if one of its keys has a message pending.
ListKeys(h) ==
    LET K == keysOf[handler[h].uid]
    IN  HRead(h, "list", [To(h, "scan") EXCEPT !.old = handler[h].uid,
                                               !.mine = K, !.todo = K])

Scan(h, k) ==
    /\ k \in handler[h].todo
    /\ HRead(h, "scan", IF pending[handler[h].old][k] >= 1
                        THEN [To(h, "pick") EXCEPT !.todo = handler[h].mine]
                        ELSE [handler[h] EXCEPT !.todo = @ \ {k}])

ScanDone(h) ==
    /\ handler[h].todo = {}
    /\ HRead(h, "scan", To(h, "count"))

-----------------------------------------------------------------------------
(***************************************************************************)
(* reassign_recip_key_to_uid, for each key of the stale uid.               *)
(***************************************************************************)

\* The other uids, or the stale one itself if it is alone.
Candidates(a) == IF Cardinality(registered) > 1 THEN registered \ {a} ELSE registered

PickKey(h, k, a) ==
    /\ k \in handler[h].todo
    /\ a \in Candidates(handler[h].old)
    /\ HRead(h, "pick", [To(h, "readOld") EXCEPT !.moved = k, !.new = a])

PickDone(h) ==
    /\ handler[h].todo = {}
    /\ HRead(h, "pick", To(h, "prune"))

ReadOld(h) ==
    HRead(h, "readOld", [To(h, "readNew") EXCEPT !.mine = keysOf[handler[h].old]])
ReadNew(h) ==
    HRead(h, "readNew", [To(h, "writeOld") EXCEPT !.theirs = keysOf[handler[h].new]])

WriteOld(h) ==
    /\ HStep(h, "writeOld", To(h, "readCount"))
    /\ SetKeys(handler[h].old, handler[h].mine \ {handler[h].moved})
    /\ UNCHANGED <<route, pending, access, topic>>

ReadCount(h) ==
    HRead(h, "readCount", [To(h, "dropCount")
                             EXCEPT !.cnt = pending[handler[h].old][handler[h].moved]])

DropCount(h) ==
    /\ HStep(h, "dropCount", To(h, "reroute"))
    /\ SetCount(handler[h].old, handler[h].moved, 0)
    /\ UNCHANGED <<route, registered, keysOf, access, topic>>

Reroute(h) ==
    /\ HStep(h, "reroute", To(h, "writeNew"))
    /\ route' = [route EXCEPT ![handler[h].moved] = handler[h].new]
    /\ UNCHANGED <<registered, keysOf, pending, access, topic>>

\* Bug: the new uid's list is written without the key that moves to it.
WithoutMoved(h) == handler[h].theirs \ {handler[h].moved}
WithMoved(h) == handler[h].theirs \cup {handler[h].moved}

WriteNew(h) ==
    /\ HStep(h, "writeNew", To(h, "addCount"))
    /\ SetKeys(handler[h].new, WithMoved(h))
    /\ UNCHANGED <<route, pending, access, topic>>

AddCount(h) ==
    LET r == handler[h]
    IN  /\ HStep(h, "addCount",
                 [To(h, "pick") EXCEPT
                    !.todo = @ \ {r.moved},
                    !.uid = IF r.moved = r.key THEN r.new ELSE @])
        /\ SetCount(r.new, r.moved, pending[r.new][r.moved] + r.cnt)
        /\ UNCHANGED <<route, registered, keysOf, access, topic>>

\* A uid left without keys is deleted from uid_recip_keys_map.
Prune(h) ==
    HRead(h, "prune", To(h, IF keysOf[handler[h].old] = {} THEN "drop" ELSE "count"))

Drop(h) ==
    /\ HStep(h, "drop", To(h, "count"))
    /\ registered' = registered \ {handler[h].old}
    /\ keysOf' = [keysOf EXCEPT ![handler[h].old] = {}]
    /\ UNCHANGED <<route, pending, access, topic>>

Count(h) ==
    /\ HStep(h, "count", To(h, "push"))
    /\ LET r == handler[h] IN SetCount(r.uid, r.key, pending[r.uid][r.key] + 1)
    /\ UNCHANGED <<route, registered, keysOf, access, topic>>

\* rpush
Push(h) ==
    /\ topic[handler[h].key] < MaxPending
    /\ HStep(h, "push", IdleHandler)
    /\ topic' = [topic EXCEPT ![handler[h].key] = @ + 1]
    /\ UNCHANGED <<route, registered, keysOf, pending, access>>

\* A relay whose rpush raises an error, applied or not, starts over.
PushAgain(h) ==
    /\ Fault
    /\ handler[h].pc = "push"
    /\ handler' = [handler EXCEPT ![h] = To(h, "lookup")]
    /\ \/ UNCHANGED topic
       \/ /\ topic[handler[h].key] < MaxPending
          /\ topic' = [topic EXCEPT ![handler[h].key] = @ + 1]
    /\ UNCHANGED <<route, registered, keysOf, pending, access, agent, arrived>>

\* An error of any other command ends the handler, and so does one of rpush in
\* a mediator's outbound transport, which logs it.
HandlerFails(h) ==
    /\ Fault
    /\ handler[h].pc # "idle"
    /\ handler' = [handler EXCEPT ![h] = IdleHandler]
    /\ UNCHANGED <<redis, agent, arrived>>

Handle(h) ==
    \/ Lookup(h) \/ Assign(h) \/ ReadKeys(h) \/ AddKey(h) \/ ResetCount(h)
    \/ \E a \in Agents : Choose(h, a) \/ \E k \in Keys : PickKey(h, k, a)
    \/ Check(h) \/ ListKeys(h) \/ ScanDone(h) \/ \E k \in Keys : Scan(h, k)
    \/ PickDone(h) \/ ReadOld(h) \/ ReadNew(h) \/ WriteOld(h)
    \/ ReadCount(h) \/ DropCount(h) \/ Reroute(h) \/ WriteNew(h) \/ AddCount(h)
    \/ Prune(h) \/ Drop(h) \/ Count(h) \/ Push(h)

-----------------------------------------------------------------------------
(***************************************************************************)
(* The inbound transport of a plugin instance.                             *)
(***************************************************************************)
AStep(a, p, r) ==
    /\ agent[a].pc = p
    /\ agent' = [agent EXCEPT ![a] = r]
    /\ UNCHANGED <<handler, arrived, faults>>

\* The rest of the batch.
NextKey(a, B) == [OffAgent EXCEPT !.pc = IF B = {} THEN "poll" ELSE "pop", !.batch = B]

\* An instance registers once, when it starts.
Start(a) ==
    /\ AStep(a, "off", NextKey(a, {}))
    /\ SetKeys(a, {})
    /\ UNCHANGED <<route, pending, access, topic>>

Poll(a) ==
    /\ keysOf[a] # {}
    /\ AStep(a, "poll", NextKey(a, keysOf[a]))
    /\ UNCHANGED redis

\* Bug: blpop has no time-out and waits on an empty list.
PopWaits(a, k) == FALSE
PopNothing(a, k) ==
    /\ k \in agent[a].batch /\ topic[k] = 0
    /\ AStep(a, "pop", NextKey(a, agent[a].batch \ {k}))
    /\ UNCHANGED redis

Pop(a, k) ==
    /\ k \in agent[a].batch /\ topic[k] > 0
    /\ AStep(a, "pop", [agent[a] EXCEPT !.pc = "touch", !.key = k])
    /\ topic' = [topic EXCEPT ![k] = @ - 1]
    /\ UNCHANGED <<route, registered, keysOf, pending, access>>

Touch(a) ==
    /\ AStep(a, "touch", [agent[a] EXCEPT !.pc = "count"])
    /\ access' = [access EXCEPT ![a] = "recent"]
    /\ UNCHANGED <<route, registered, keysOf, pending, topic>>

\* Bug: a count of 0 is lowered too.
AlwaysLower(n) == "write"
AfterCount(n) == IF n >= 1 THEN "write" ELSE "process"

\* The count is read, and written back one lower by a second command.
ReadPending(a) ==
    LET n == pending[a][agent[a].key]
    IN  /\ AStep(a, "count", [agent[a] EXCEPT !.pc = AfterCount(n), !.cnt = n])
        /\ UNCHANGED redis

WritePending(a) ==
    /\ AStep(a, "write", [agent[a] EXCEPT !.pc = "process"])
    /\ SetCount(a, agent[a].key, agent[a].cnt - 1)
    /\ UNCHANGED <<route, registered, keysOf, access, topic>>

\* session.receive
Process(a) ==
    /\ AStep(a, "process", NextKey(a, agent[a].batch \ {agent[a].key}))
    /\ UNCHANGED redis

\* 15 seconds without a message.
Age(a) ==
    /\ access[a] = "recent"
    /\ access' = [access EXCEPT ![a] = "old"]
    /\ UNCHANGED <<route, registered, keysOf, pending, topic, handler, agent, arrived, faults>>

Die(a) ==
    /\ Fault
    /\ agent[a].pc \notin {"off", "dead"}
    /\ agent' = [agent EXCEPT ![a] = [OffAgent EXCEPT !.pc = "dead"]]
    /\ UNCHANGED <<redis, handler, arrived>>

Serve(a) ==
    \/ Poll(a) \/ \E k \in Keys : Pop(a, k) \/ PopNothing(a, k)
    \/ Touch(a) \/ ReadPending(a) \/ WritePending(a) \/ Process(a)

-----------------------------------------------------------------------------
CalmNext ==
    \/ \E h \in Handlers : Handle(h) \/ \E k \in Keys : Receive(h, k)
    \/ \E a \in Agents : Start(a) \/ Serve(a) \/ Age(a)
Next ==
    \/ CalmNext
    \/ \E h \in Handlers : PushAgain(h) \/ HandlerFails(h)
    \/ \E a \in Agents : Die(a)

Spec == Init /\ [][Next]_vars

\* A handler and a polling loop go on, and an instance is started at last.
Fairness ==
    /\ \A h \in Handlers : WF_vars(Handle(h))
    /\ \A a \in Agents : WF_vars(Serve(a)) /\ WF_vars(Start(a))

\* No command fails and no instance stops.
FairSpec == Init /\ [][CalmNext]_vars /\ Fairness

-----------------------------------------------------------------------------
(***************************************************************************)
(* Properties.                                                             *)
(***************************************************************************)

\* Every variable has its type.
TypeOK ==
    /\ route \in [Keys -> Agents \cup {NoAgent}]
    /\ registered \subseteq Agents
    /\ keysOf \in [Agents -> SUBSET Keys]
    /\ pending \in [Agents -> [Keys -> Counts]]
    /\ access \in [Agents -> {"never", "recent", "old"}]
    /\ topic \in [Keys -> Nat]
    /\ handler \in [Handlers -> Handler]
    /\ agent \in [Agents -> Agent]
    /\ arrived \in 0..MaxMsgs
    /\ faults \in 0..MaxFaults

\* No uid polls a key that was never routed: recip_key_uid_map is written
\* before any list, by every handler.
PolledIsRouted ==
    \A a \in Agents : \A k \in keysOf[a] : route[k] # NoAgent

\* The two maps are each other's inverse when no handler is between two
\* commands: the key of a routed message is polled by the uid it is counted
\* for, and by no other.
Quiet == \A h \in Handlers : handler[h].pc = "idle"
RoutingConsistent ==
    Quiet => \A k \in Keys :
                {a \in Agents : k \in keysOf[a]} =
                    IF route[k] = NoAgent THEN {} ELSE {route[k]}

\* A message that was put on a list is taken from it at last: its key is in
\* the list of an instance that polls, however often keys are reassigned.
AcceptedIsTaken == \A k \in Keys : topic[k] > 0 ~> topic[k] = 0
=============================================================================
