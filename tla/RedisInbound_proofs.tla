-------------------------- MODULE RedisInbound_proofs --------------------------
(***************************************************************************)
(* Theorems about the routing of inbound messages, for any number of keys, *)
(* plugin instances, messages and faults, and, unless a theorem says       *)
(* otherwise, any number of message handlers; and about the direct         *)
(* responses to a transport, for any number of relays and callers.         *)
(***************************************************************************)
EXTENDS RedisInbound, FiniteSetTheorems, TLAPS

-----------------------------------------------------------------------------
(***************************************************************************)
(* What a handler and an instance know.                                    *)
(***************************************************************************)
\* Where a handler has a new uid, a stale one, and the one it will count for.
HasNew == {"assign", "read", "add", "reset", "readOld", "readNew", "writeOld",
           "readCount", "dropCount", "reroute", "writeNew", "addCount"}
Moves  == {"readOld", "readNew", "writeOld", "readCount", "dropCount", "reroute",
           "writeNew", "addCount"}
HasOld == Moves \cup {"scan", "pick", "prune", "drop"}
HasUid == HasOld \cup {"check", "list", "count", "push"}

\* A handler's uids are there when it uses them.
Named(r) ==
    /\ r.pc \in HasNew => r.new \in Agents
    /\ r.pc \in HasOld => r.old \in Agents
    /\ r.pc \in HasUid => r.uid \in Agents

\* Every key a handler may put on a list was routed, K being the keys that are.
Knows(r, K) ==
    /\ r.mine \cup r.theirs \cup r.todo \subseteq K
    /\ r.pc \in {"read", "add", "reset"} => r.key \in K
    /\ r.pc \in Moves => r.moved \in K

\* An instance has a key in hand when it lowers its count, and lowers what it read.
Lowers(r) == r.pc = "write" => r.cnt >= 1

Routed == {k \in Keys : route[k] # NoAgent}

HandlersKnow == \A h \in Handlers : Named(handler[h]) /\ Knows(handler[h], Routed)
AgentsLower  == \A a \in Agents : Lowers(agent[a])

\* What is in Redis: every key that some uid polls was routed.
StoreInv ==
    /\ route \in [Keys -> Agents \cup {NoAgent}]
    /\ registered \subseteq Agents
    /\ keysOf \in [Agents -> SUBSET Keys]
    /\ pending \in [Agents -> [Keys -> Counts]]
    /\ access \in [Agents -> {"never", "recent", "old"}]
    /\ topic \in [Keys -> Nat]
    /\ \A a \in Agents : keysOf[a] \subseteq Routed

RouteInv ==
    /\ StoreInv
    /\ handler \in [Handlers -> Handler]
    /\ agent \in [Agents -> Agent]
    /\ arrived \in 0..MaxMsgs
    /\ faults \in 0..MaxFaults
    /\ HandlersKnow /\ AgentsLower

LEMMA RouteTypes == RouteInv => TypeOK /\ PolledIsRouted
<1>1. RouteInv => TypeOK
  BY DEF RouteInv, StoreInv, TypeOK
<1>2. RouteInv => PolledIsRouted
  BY DEF RouteInv, StoreInv, Routed, PolledIsRouted
<1> QED BY <1>1, <1>2

LEMMA IdleTypes ==
    /\ IdleHandler \in Handler /\ IdleHandler.pc = "idle"
    /\ OffAgent \in Agent /\ OffAgent.pc = "off"
    /\ IdleHandler.mine = {} /\ IdleHandler.theirs = {} /\ IdleHandler.todo = {}
    /\ SomeKey \in Keys /\ 0 \in Counts
<1>1. SomeKey \in Keys
  BY RedisInboundAssumption DEF SomeKey
<1>2. 0 \in Counts
  BY RedisInboundAssumption DEF Counts
<1> QED BY <1>1, <1>2 DEF IdleHandler, OffAgent, Handler, Agent, HPcs, APcs

LEMMA IdleKnows == \A K : Named(IdleHandler) /\ Knows(IdleHandler, K)
BY IdleTypes DEF Named, Knows, HasNew, HasOld, HasUid, Moves

\* The changes handlers make to their local variables.
LEMMA Changes ==
    ASSUME NEW r \in Handler
    PROVE  /\ \A a \in Agents \cup {NoAgent} : [r EXCEPT !.uid = a] \in Handler
           /\ \A a \in Agents \cup {NoAgent} : [r EXCEPT !.new = a] \in Handler
           /\ \A K \in SUBSET Keys : [r EXCEPT !.mine = K] \in Handler
           /\ \A K \in SUBSET Keys : [r EXCEPT !.theirs = K] \in Handler
           /\ \A K \in SUBSET Keys : [r EXCEPT !.todo = K] \in Handler
           /\ \A n \in Counts : [r EXCEPT !.cnt = n] \in Handler
           /\ \A k \in Keys, a \in Agents :
                 [r EXCEPT !.moved = k, !.new = a] \in Handler
           /\ \A a \in Agents \cup {NoAgent}, K \in SUBSET Keys :
                 [r EXCEPT !.old = a, !.mine = K, !.todo = K] \in Handler
           /\ \A K \in SUBSET Keys, a \in Agents \cup {NoAgent} :
                 [r EXCEPT !.todo = K, !.uid = a] \in Handler
BY DEF Handler

LEMMA InitRoute == Init => RouteInv
<1> SUFFICES ASSUME Init PROVE RouteInv
  OBVIOUS
<1>1. StoreInv
  BY IdleTypes DEF Init, StoreInv
<1>2. HandlersKnow /\ AgentsLower
  BY IdleKnows, IdleTypes DEF Init, HandlersKnow, AgentsLower, Lowers
<1>3. arrived \in 0..MaxMsgs /\ faults \in 0..MaxFaults
  BY RedisInboundAssumption DEF Init
<1> QED BY <1>1, <1>2, <1>3, IdleTypes DEF Init, RouteInv

-----------------------------------------------------------------------------
(***************************************************************************)
(* A step of one handler.                                                  *)
(***************************************************************************)
LEMMA HandlerStep ==
    ASSUME RouteInv, StoreInv', Routed \subseteq Routed',
           NEW h \in Handlers, NEW r \in Handler, Named(r), Knows(r, Routed'),
           handler' = [handler EXCEPT ![h] = r],
           UNCHANGED agent, arrived' \in 0..MaxMsgs, faults' \in 0..MaxFaults
    PROVE  RouteInv'
<1>1. handler \in [Handlers -> Handler] /\ HandlersKnow /\ AgentsLower
      /\ agent \in [Agents -> Agent]
  BY DEF RouteInv
<1>2. /\ handler' \in [Handlers -> Handler] /\ handler'[h] = r
      /\ \A g \in Handlers \ {h} : handler'[g] = handler[g]
  BY <1>1
<1>3. HandlersKnow'
  <2> SUFFICES ASSUME NEW g \in Handlers
               PROVE  Named(handler'[g]) /\ Knows(handler'[g], Routed')
    BY DEF HandlersKnow
  <2>1. CASE g = h
    BY <1>2, <2>1
  <2>2. CASE g # h
    BY <1>1, <1>2, <2>2 DEF HandlersKnow, Knows
  <2> QED BY <2>1, <2>2
<1>4. AgentsLower' /\ agent' \in [Agents -> Agent]
  BY <1>1 DEF AgentsLower
<1> QED BY <1>2, <1>3, <1>4 DEF RouteInv

LEMMA StoreStays ==
    ASSUME StoreInv, UNCHANGED redis
    PROVE  StoreInv' /\ Routed' = Routed
BY DEF StoreInv, redis, Routed

\* One that only reads.
LEMMA ReadStep ==
    ASSUME RouteInv, NEW h \in Handlers, NEW p, NEW r \in Handler,
           Named(r), Knows(r, Routed), HRead(h, p, r)
    PROVE  RouteInv'
<1>1. StoreInv /\ arrived \in 0..MaxMsgs /\ faults \in 0..MaxFaults
  BY DEF RouteInv
<1>2. StoreInv' /\ Routed' = Routed
  BY <1>1, StoreStays DEF HRead
<1>3. /\ handler' = [handler EXCEPT ![h] = r]
      /\ UNCHANGED <<agent, arrived, faults>>
  BY DEF HRead, HStep
<1> QED BY <1>1, <1>2, <1>3, HandlerStep

\* What is known of the handler that makes the step.
LEMMA Known ==
    ASSUME RouteInv, NEW h \in Handlers
    PROVE  /\ handler[h] \in Handler /\ TypeOK
           /\ Named(handler[h]) /\ Knows(handler[h], Routed)
           /\ handler[h].key \in Keys /\ handler[h].moved \in Keys
           /\ handler[h].cnt \in Counts /\ Routed \subseteq Keys
           /\ {handler[h].uid, handler[h].old, handler[h].new} \subseteq Agents \cup {NoAgent}
           /\ \A a \in Agents : keysOf[a] \subseteq Routed /\ keysOf[a] \subseteq Keys
<1>1. handler[h] \in Handler
  BY DEF RouteInv
<1>2. TypeOK
  BY RouteTypes
<1> QED BY <1>1, <1>2 DEF RouteInv, HandlersKnow, StoreInv, Handler, Routed

\* The commands that read.

LEMMA LookupRoute ==
    ASSUME RouteInv, NEW h \in Handlers, Lookup(h)
    PROVE  RouteInv'
<1> DEFINE r == IF route[handler[h].key] = NoAgent THEN To(h, "choose")
             ELSE [To(h, "check") EXCEPT !.uid = route[handler[h].key]]
<1>1. handler[h].pc = "lookup"
  BY DEF Lookup, HRead, HStep
<1>2. r \in Handler
  <2>1. To(h, "choose") \in Handler /\ To(h, "check") \in Handler
    <3>1. handler[h] \in Handler
      BY Known
    <3> QED BY <3>1 DEF To, Handler, HPcs
  <2>2. route[handler[h].key] \in Agents \cup {NoAgent}
    BY Known DEF TypeOK
  <2> QED BY <2>1, <2>2, Changes
<1>3. Named(r) /\ Knows(r, Routed)
  <2>1. /\ handler[h] \in Handler /\ Named(handler[h]) /\ Knows(handler[h], Routed)
        /\ \A a \in Agents : keysOf[a] \subseteq Routed
        /\ route[handler[h].key] \in Agents \cup {NoAgent}
    BY <1>1, Known DEF Knows, TypeOK
  <2> QED BY <1>1, <1>2, <2>1 DEF To, Handler, Named, Knows, HasNew, HasOld, HasUid, Moves
<1>4. HRead(h, "lookup", r)
  BY DEF Lookup
<1> QED BY <1>2, <1>3, <1>4, ReadStep

LEMMA ChooseRoute ==
    ASSUME RouteInv, NEW h \in Handlers, NEW a \in Agents, Choose(h, a)
    PROVE  RouteInv'
<1> DEFINE r == [To(h, "assign") EXCEPT !.new = a]
<1>1. handler[h].pc = "choose"
  BY DEF Choose, HRead, HStep
<1>2. r \in Handler
  <2>1. To(h, "assign") \in Handler
    <3>1. handler[h] \in Handler
      BY Known
    <3> QED BY <3>1 DEF To, Handler, HPcs
  <2> QED BY <2>1, Changes
<1>3. Named(r) /\ Knows(r, Routed)
  <2>1. /\ handler[h] \in Handler /\ Named(handler[h]) /\ Knows(handler[h], Routed)
        /\ \A b \in Agents : keysOf[b] \subseteq Routed
    BY <1>1, Known DEF Knows
  <2> QED BY <1>1, <1>2, <2>1 DEF To, Handler, Named, Knows, HasNew, HasOld, HasUid, Moves
<1>4. HRead(h, "choose", r)
  BY DEF Choose
<1> QED BY <1>2, <1>3, <1>4, ReadStep

LEMMA ReadKeysRoute ==
    ASSUME RouteInv, NEW h \in Handlers, ReadKeys(h)
    PROVE  RouteInv'
<1> DEFINE r == [To(h, IF handler[h].key \in keysOf[handler[h].new] THEN "reset" ELSE "add")
                EXCEPT !.mine = keysOf[handler[h].new]]
<1>1. handler[h].pc = "read"
  BY DEF ReadKeys, HRead, HStep
<1>2. r \in Handler
  <2>1. To(h, "reset") \in Handler /\ To(h, "add") \in Handler
    <3>1. handler[h] \in Handler
      BY Known
    <3> QED BY <3>1 DEF To, Handler, HPcs
  <2>2. handler[h].new \in Agents
    BY <1>1, Known DEF Named, HasNew
  <2> QED BY <2>1, <2>2, Known, Changes
<1>3. Named(r) /\ Knows(r, Routed)
  <2>1. /\ handler[h] \in Handler /\ Named(handler[h]) /\ Knows(handler[h], Routed)
        /\ \A a \in Agents : keysOf[a] \subseteq Routed
    BY <1>1, Known DEF Knows
  <2> QED BY <1>1, <1>2, <2>1 DEF To, Handler, Named, Knows, HasNew, HasOld, HasUid, Moves
<1>4. HRead(h, "read", r)
  BY DEF ReadKeys
<1> QED BY <1>2, <1>3, <1>4, ReadStep

LEMMA CheckRoute ==
    ASSUME RouteInv, NEW h \in Handlers, Check(h)
    PROVE  RouteInv'
<1> DEFINE r == To(h, IF Stale(handler[h].uid) THEN "list" ELSE "count")
<1>1. handler[h].pc = "check"
  BY DEF Check, HRead, HStep
<1>2. r \in Handler
  <2>1. handler[h] \in Handler
    BY Known
  <2> QED BY <2>1 DEF To, Handler, HPcs
<1>3. Named(r) /\ Knows(r, Routed)
  <2>1. /\ handler[h] \in Handler /\ Named(handler[h]) /\ Knows(handler[h], Routed)
        /\ \A a \in Agents : keysOf[a] \subseteq Routed
    BY <1>1, Known DEF Knows
  <2> QED BY <1>1, <1>2, <2>1 DEF To, Handler, Named, Knows, HasNew, HasOld, HasUid, Moves
<1>4. HRead(h, "check", r)
  BY DEF Check
<1> QED BY <1>2, <1>3, <1>4, ReadStep

LEMMA ListKeysRoute ==
    ASSUME RouteInv, NEW h \in Handlers, ListKeys(h)
    PROVE  RouteInv'
<1> DEFINE r == [To(h, "scan") EXCEPT !.old = handler[h].uid,
                !.mine = keysOf[handler[h].uid], !.todo = keysOf[handler[h].uid]]
<1>1. handler[h].pc = "list"
  BY DEF ListKeys, HRead, HStep
<1>2. r \in Handler
  <2>1. To(h, "scan") \in Handler
    <3>1. handler[h] \in Handler
      BY Known
    <3> QED BY <3>1 DEF To, Handler, HPcs
  <2>2. handler[h].uid \in Agents
    BY <1>1, Known DEF Named, HasUid
  <2> QED BY <2>1, <2>2, Known, Changes
<1>3. Named(r) /\ Knows(r, Routed)
  <2>1. /\ handler[h] \in Handler /\ Named(handler[h]) /\ Knows(handler[h], Routed)
        /\ \A a \in Agents : keysOf[a] \subseteq Routed
    BY <1>1, Known DEF Knows
  <2> QED BY <1>1, <1>2, <2>1 DEF To, Handler, Named, Knows, HasNew, HasOld, HasUid, Moves
<1>4. HRead(h, "list", r)
  BY DEF ListKeys
<1> QED BY <1>2, <1>3, <1>4, ReadStep

LEMMA ScanRoute ==
    ASSUME RouteInv, NEW h \in Handlers, NEW k \in Keys, Scan(h, k)
    PROVE  RouteInv'
<1> DEFINE r == IF pending[handler[h].old][k] >= 1
             THEN [To(h, "pick") EXCEPT !.todo = handler[h].mine]
             ELSE [handler[h] EXCEPT !.todo = @ \ {k}]
<1>1. handler[h].pc = "scan"
  BY DEF Scan, HRead, HStep
<1>2. r \in Handler
  <2>1. To(h, "pick") \in Handler
    <3>1. handler[h] \in Handler
      BY Known
    <3> QED BY <3>1 DEF To, Handler, HPcs
  <2>2. handler[h].mine \in SUBSET Keys /\ handler[h].todo \ {k} \in SUBSET Keys
    BY Known DEF Knows
  <2> QED BY <2>1, <2>2, Known, Changes
<1>3. Named(r) /\ Knows(r, Routed)
  <2>1. /\ handler[h] \in Handler /\ Named(handler[h]) /\ Knows(handler[h], Routed)
        /\ \A a \in Agents : keysOf[a] \subseteq Routed
    BY <1>1, Known DEF Knows
  <2> QED BY <1>1, <1>2, <2>1 DEF To, Handler, Named, Knows, HasNew, HasOld, HasUid, Moves
<1>4. HRead(h, "scan", r)
  BY DEF Scan
<1> QED BY <1>2, <1>3, <1>4, ReadStep

LEMMA ScanDoneRoute ==
    ASSUME RouteInv, NEW h \in Handlers, ScanDone(h)
    PROVE  RouteInv'
<1> DEFINE r == To(h, "count")
<1>1. handler[h].pc = "scan"
  BY DEF ScanDone, HRead, HStep
<1>2. r \in Handler
  <2>1. handler[h] \in Handler
    BY Known
  <2> QED BY <2>1 DEF To, Handler, HPcs
<1>3. Named(r) /\ Knows(r, Routed)
  <2>1. /\ handler[h] \in Handler /\ Named(handler[h]) /\ Knows(handler[h], Routed)
        /\ \A a \in Agents : keysOf[a] \subseteq Routed
    BY <1>1, Known DEF Knows
  <2> QED BY <1>1, <1>2, <2>1 DEF To, Handler, Named, Knows, HasNew, HasOld, HasUid, Moves
<1>4. HRead(h, "scan", r)
  BY DEF ScanDone
<1> QED BY <1>2, <1>3, <1>4, ReadStep

LEMMA PickKeyRoute ==
    ASSUME RouteInv, NEW h \in Handlers, NEW k \in Keys, NEW a \in Agents, PickKey(h, k, a)
    PROVE  RouteInv'
<1> DEFINE r == [To(h, "readOld") EXCEPT !.moved = k, !.new = a]
<1>1. handler[h].pc = "pick"
  BY DEF PickKey, HRead, HStep
<1>2. r \in Handler
  <2>1. To(h, "readOld") \in Handler
    <3>1. handler[h] \in Handler
      BY Known
    <3> QED BY <3>1 DEF To, Handler, HPcs
  <2> QED BY <2>1, Changes
<1>3. Named(r) /\ Knows(r, Routed)
  <2>1. /\ handler[h] \in Handler /\ Named(handler[h]) /\ Knows(handler[h], Routed)
        /\ \A b \in Agents : keysOf[b] \subseteq Routed
        /\ k \in handler[h].todo
    BY <1>1, Known DEF Knows, PickKey
  <2> QED BY <1>1, <1>2, <2>1 DEF To, Handler, Named, Knows, HasNew, HasOld, HasUid, Moves
<1>4. HRead(h, "pick", r)
  BY DEF PickKey
<1> QED BY <1>2, <1>3, <1>4, ReadStep

LEMMA PickDoneRoute ==
    ASSUME RouteInv, NEW h \in Handlers, PickDone(h)
    PROVE  RouteInv'
<1> DEFINE r == To(h, "prune")
<1>1. handler[h].pc = "pick"
  BY DEF PickDone, HRead, HStep
<1>2. r \in Handler
  <2>1. handler[h] \in Handler
    BY Known
  <2> QED BY <2>1 DEF To, Handler, HPcs
<1>3. Named(r) /\ Knows(r, Routed)
  <2>1. /\ handler[h] \in Handler /\ Named(handler[h]) /\ Knows(handler[h], Routed)
        /\ \A a \in Agents : keysOf[a] \subseteq Routed
    BY <1>1, Known DEF Knows
  <2> QED BY <1>1, <1>2, <2>1 DEF To, Handler, Named, Knows, HasNew, HasOld, HasUid, Moves
<1>4. HRead(h, "pick", r)
  BY DEF PickDone
<1> QED BY <1>2, <1>3, <1>4, ReadStep

LEMMA ReadOldRoute ==
    ASSUME RouteInv, NEW h \in Handlers, ReadOld(h)
    PROVE  RouteInv'
<1> DEFINE r == [To(h, "readNew") EXCEPT !.mine = keysOf[handler[h].old]]
<1>1. handler[h].pc = "readOld"
  BY DEF ReadOld, HRead, HStep
<1>2. r \in Handler
  <2>1. To(h, "readNew") \in Handler
    <3>1. handler[h] \in Handler
      BY Known
    <3> QED BY <3>1 DEF To, Handler, HPcs
  <2>2. handler[h].old \in Agents
    BY <1>1, Known DEF Named, HasOld, Moves
  <2> QED BY <2>1, <2>2, Known, Changes
<1>3. Named(r) /\ Knows(r, Routed)
  <2>1. /\ handler[h] \in Handler /\ Named(handler[h]) /\ Knows(handler[h], Routed)
        /\ \A a \in Agents : keysOf[a] \subseteq Routed
    BY <1>1, Known DEF Knows
  <2> QED BY <1>1, <1>2, <2>1 DEF To, Handler, Named, Knows, HasNew, HasOld, HasUid, Moves
<1>4. HRead(h, "readOld", r)
  BY DEF ReadOld
<1> QED BY <1>2, <1>3, <1>4, ReadStep

LEMMA ReadNewRoute ==
    ASSUME RouteInv, NEW h \in Handlers, ReadNew(h)
    PROVE  RouteInv'
<1> DEFINE r == [To(h, "writeOld") EXCEPT !.theirs = keysOf[handler[h].new]]
<1>1. handler[h].pc = "readNew"
  BY DEF ReadNew, HRead, HStep
<1>2. r \in Handler
  <2>1. To(h, "writeOld") \in Handler
    <3>1. handler[h] \in Handler
      BY Known
    <3> QED BY <3>1 DEF To, Handler, HPcs
  <2>2. handler[h].new \in Agents
    BY <1>1, Known DEF Named, HasNew
  <2> QED BY <2>1, <2>2, Known, Changes
<1>3. Named(r) /\ Knows(r, Routed)
  <2>1. /\ handler[h] \in Handler /\ Named(handler[h]) /\ Knows(handler[h], Routed)
        /\ \A a \in Agents : keysOf[a] \subseteq Routed
    BY <1>1, Known DEF Knows
  <2> QED BY <1>1, <1>2, <2>1 DEF To, Handler, Named, Knows, HasNew, HasOld, HasUid, Moves
<1>4. HRead(h, "readNew", r)
  BY DEF ReadNew
<1> QED BY <1>2, <1>3, <1>4, ReadStep

LEMMA ReadCountRoute ==
    ASSUME RouteInv, NEW h \in Handlers, ReadCount(h)
    PROVE  RouteInv'
<1> DEFINE r == [To(h, "dropCount")
                EXCEPT !.cnt = pending[handler[h].old][handler[h].moved]]
<1>1. handler[h].pc = "readCount"
  BY DEF ReadCount, HRead, HStep
<1>2. r \in Handler
  <2>1. To(h, "dropCount") \in Handler
    <3>1. handler[h] \in Handler
      BY Known
    <3> QED BY <3>1 DEF To, Handler, HPcs
  <2>2. handler[h].old \in Agents
    BY <1>1, Known DEF Named, HasOld, Moves
  <2>3. pending[handler[h].old][handler[h].moved] \in Counts
    BY <2>2, Known DEF TypeOK
  <2> QED BY <2>1, <2>3, Changes
<1>3. Named(r) /\ Knows(r, Routed)
  <2>1. /\ handler[h] \in Handler /\ Named(handler[h]) /\ Knows(handler[h], Routed)
        /\ \A a \in Agents : keysOf[a] \subseteq Routed
        /\ route[handler[h].key] \in Agents \cup {NoAgent}
    BY <1>1, Known DEF Knows, TypeOK
  <2> QED BY <1>1, <1>2, <2>1 DEF To, Handler, Named, Knows, HasNew, HasOld, HasUid, Moves
<1>4. HRead(h, "readCount", r)
  BY DEF ReadCount
<1> QED BY <1>2, <1>3, <1>4, ReadStep

LEMMA PruneRoute ==
    ASSUME RouteInv, NEW h \in Handlers, Prune(h)
    PROVE  RouteInv'
<1> DEFINE r == To(h, IF keysOf[handler[h].old] = {} THEN "drop" ELSE "count")
<1>1. handler[h].pc = "prune"
  BY DEF Prune, HRead, HStep
<1>2. r \in Handler
  <2>1. handler[h] \in Handler
    BY Known
  <2> QED BY <2>1 DEF To, Handler, HPcs
<1>3. Named(r) /\ Knows(r, Routed)
  <2>1. /\ handler[h] \in Handler /\ Named(handler[h]) /\ Knows(handler[h], Routed)
        /\ \A a \in Agents : keysOf[a] \subseteq Routed
    BY <1>1, Known DEF Knows
  <2> QED BY <1>1, <1>2, <2>1 DEF To, Handler, Named, Knows, HasNew, HasOld, HasUid, Moves
<1>4. HRead(h, "prune", r)
  BY DEF Prune
<1> QED BY <1>2, <1>3, <1>4, ReadStep

-----------------------------------------------------------------------------
(***************************************************************************)
(* The commands that write.                                                *)
(***************************************************************************)
LEMMA WriteStep ==
    ASSUME RouteInv, StoreInv', Routed \subseteq Routed', NEW h \in Handlers, NEW p,
           NEW r \in Handler, Named(r), Knows(r, Routed'), HStep(h, p, r)
    PROVE  RouteInv'
<1>1. arrived \in 0..MaxMsgs /\ faults \in 0..MaxFaults
  BY DEF RouteInv
<1>2. handler' = [handler EXCEPT ![h] = r] /\ UNCHANGED <<agent, arrived, faults>>
  BY DEF HStep
<1> QED BY <1>1, <1>2, HandlerStep

LEMMA KeysStore ==
    ASSUME StoreInv, NEW a \in Agents, NEW K \in SUBSET Routed, SetKeys(a, K),
           UNCHANGED <<route, pending, access, topic>>
    PROVE  StoreInv' /\ Routed' = Routed
<1>1. Routed' = Routed /\ Routed \subseteq Keys
  BY DEF Routed
<1>2. /\ keysOf' \in [Agents -> SUBSET Keys] /\ registered' \subseteq Agents
      /\ keysOf'[a] = K /\ \A b \in Agents \ {a} : keysOf'[b] = keysOf[b]
  BY <1>1 DEF StoreInv, SetKeys
<1> QED BY <1>1, <1>2 DEF StoreInv

LEMMA CountStore ==
    ASSUME StoreInv, NEW a \in Agents, NEW k \in Keys, NEW n \in Nat, SetCount(a, k, n),
           UNCHANGED <<route, registered, keysOf, access, topic>>
    PROVE  StoreInv' /\ Routed' = Routed
<1>1. n \in Counts
  BY RedisInboundAssumption DEF SetCount, Counts
<1>2. pending' \in [Agents -> [Keys -> Counts]]
  BY <1>1 DEF StoreInv, SetCount
<1>3. Routed' = Routed
  BY DEF Routed
<1> QED BY <1>2, <1>3 DEF StoreInv

LEMMA RouteStore ==
    ASSUME StoreInv, NEW k \in Keys, NEW a \in Agents,
           route' = [route EXCEPT ![k] = a],
           UNCHANGED <<registered, keysOf, pending, access, topic>>
    PROVE  StoreInv' /\ Routed' = Routed \cup {k}
<1>1. /\ route' \in [Keys -> Agents \cup {NoAgent}] /\ route'[k] = a
      /\ \A l \in Keys \ {k} : route'[l] = route[l]
  BY DEF StoreInv
<1>2. Routed' = Routed \cup {k}
  BY <1>1, RedisInboundAssumption DEF Routed
<1> QED BY <1>1, <1>2 DEF StoreInv

LEMMA TopicStore ==
    ASSUME StoreInv, topic' \in [Keys -> Nat],
           UNCHANGED <<route, registered, keysOf, pending, access>>
    PROVE  StoreInv' /\ Routed' = Routed
BY DEF StoreInv, Routed

LEMMA AssignRoute ==
    ASSUME RouteInv, NEW h \in Handlers, Assign(h)
    PROVE  RouteInv'
<1> DEFINE r == To(h, "read")
<1>1. handler[h].pc = "assign" /\ HStep(h, "assign", r)
  BY DEF Assign, HStep
<1>2. StoreInv' /\ Routed \subseteq Routed' /\ handler[h].key \in Routed'
  <2>1. handler[h].new \in Agents
    BY <1>1, Known DEF Named, HasNew
  <2>2. StoreInv /\ handler[h].key \in Keys
    BY Known DEF RouteInv
  <2>3. /\ route' = [route EXCEPT ![handler[h].key] = handler[h].new]
        /\ UNCHANGED <<registered, keysOf, pending, access, topic>>
    BY DEF Assign
  <2>4. StoreInv' /\ Routed' = Routed \cup {handler[h].key}
    BY <2>1, <2>2, <2>3, RouteStore
  <2> QED BY <2>4
<1>3. r \in Handler
  <2>1. handler[h] \in Handler
    BY Known
  <2> QED BY <2>1 DEF To, Handler, HPcs
<1>4. Named(r) /\ Knows(r, Routed')
  <2>1. /\ handler[h] \in Handler /\ Named(handler[h]) /\ Knows(handler[h], Routed')
        /\ \A a \in Agents : keysOf[a] \subseteq Routed'
    BY <1>1, <1>2, Known DEF Knows
  <2> QED BY <1>1, <1>2, <2>1 DEF To, Handler, Named, Knows, HasNew, HasOld, HasUid, Moves
<1> QED BY <1>1, <1>2, <1>3, <1>4, WriteStep

LEMMA AddKeyRoute ==
    ASSUME RouteInv, NEW h \in Handlers, AddKey(h)
    PROVE  RouteInv'
<1> DEFINE r == To(h, "reset")
<1>1. handler[h].pc = "add" /\ HStep(h, "add", r)
  BY DEF AddKey, HStep
<1>2. StoreInv' /\ Routed \subseteq Routed'
  <2>1. handler[h].new \in Agents
    BY <1>1, Known DEF Named, HasNew
  <2>2. handler[h].mine \cup {handler[h].key} \in SUBSET Routed
    BY <1>1, Known DEF Knows
  <2> QED BY <2>1, <2>2, KeysStore DEF AddKey, RouteInv
<1>3. r \in Handler
  <2>1. handler[h] \in Handler
    BY Known
  <2> QED BY <2>1 DEF To, Handler, HPcs
<1>4. Named(r) /\ Knows(r, Routed')
  <2>1. /\ handler[h] \in Handler /\ Named(handler[h]) /\ Knows(handler[h], Routed')
        /\ \A a \in Agents : keysOf[a] \subseteq Routed'
    BY <1>1, <1>2, Known DEF Knows
  <2> QED BY <1>1, <1>2, <2>1 DEF To, Handler, Named, Knows, HasNew, HasOld, HasUid, Moves
<1> QED BY <1>1, <1>2, <1>3, <1>4, WriteStep

LEMMA ResetCountRoute ==
    ASSUME RouteInv, NEW h \in Handlers, ResetCount(h)
    PROVE  RouteInv'
<1> DEFINE r == [To(h, "check") EXCEPT !.uid = handler[h].new]
<1>1. handler[h].pc = "reset" /\ HStep(h, "reset", r)
  BY DEF ResetCount, HStep
<1>2. StoreInv' /\ Routed \subseteq Routed'
  <2>1. handler[h].new \in Agents
    BY <1>1, Known DEF Named, HasNew
  <2> QED BY <2>1, Known, CountStore DEF ResetCount, RouteInv
<1>3. r \in Handler
  <2>1. To(h, "check") \in Handler
    <3>1. handler[h] \in Handler
      BY Known
    <3> QED BY <3>1 DEF To, Handler, HPcs
  <2> QED BY <2>1, Known, Changes
<1>4. Named(r) /\ Knows(r, Routed')
  <2>1. /\ handler[h] \in Handler /\ Named(handler[h]) /\ Knows(handler[h], Routed')
        /\ \A a \in Agents : keysOf[a] \subseteq Routed'
    BY <1>1, <1>2, Known DEF Knows
  <2> QED BY <1>1, <1>2, <2>1 DEF To, Handler, Named, Knows, HasNew, HasOld, HasUid, Moves
<1> QED BY <1>1, <1>2, <1>3, <1>4, WriteStep

LEMMA WriteOldRoute ==
    ASSUME RouteInv, NEW h \in Handlers, WriteOld(h)
    PROVE  RouteInv'
<1> DEFINE r == To(h, "readCount")
<1>1. handler[h].pc = "writeOld" /\ HStep(h, "writeOld", r)
  BY DEF WriteOld, HStep
<1>2. StoreInv' /\ Routed \subseteq Routed'
  <2>1. handler[h].old \in Agents
    BY <1>1, Known DEF Named, HasOld, Moves
  <2>2. handler[h].mine \ {handler[h].moved} \in SUBSET Routed
    BY Known DEF Knows
  <2> QED BY <2>1, <2>2, KeysStore DEF WriteOld, RouteInv
<1>3. r \in Handler
  <2>1. handler[h] \in Handler
    BY Known
  <2> QED BY <2>1 DEF To, Handler, HPcs
<1>4. Named(r) /\ Knows(r, Routed')
  <2>1. /\ handler[h] \in Handler /\ Named(handler[h]) /\ Knows(handler[h], Routed')
        /\ \A a \in Agents : keysOf[a] \subseteq Routed'
    BY <1>1, <1>2, Known DEF Knows
  <2> QED BY <1>1, <1>2, <2>1 DEF To, Handler, Named, Knows, HasNew, HasOld, HasUid, Moves
<1> QED BY <1>1, <1>2, <1>3, <1>4, WriteStep

LEMMA DropCountRoute ==
    ASSUME RouteInv, NEW h \in Handlers, DropCount(h)
    PROVE  RouteInv'
<1> DEFINE r == To(h, "reroute")
<1>1. handler[h].pc = "dropCount" /\ HStep(h, "dropCount", r)
  BY DEF DropCount, HStep
<1>2. StoreInv' /\ Routed \subseteq Routed'
  <2>1. handler[h].old \in Agents
    BY <1>1, Known DEF Named, HasOld, Moves
  <2> QED BY <2>1, Known, CountStore DEF DropCount, RouteInv
<1>3. r \in Handler
  <2>1. handler[h] \in Handler
    BY Known
  <2> QED BY <2>1 DEF To, Handler, HPcs
<1>4. Named(r) /\ Knows(r, Routed')
  <2>1. /\ handler[h] \in Handler /\ Named(handler[h]) /\ Knows(handler[h], Routed')
        /\ \A a \in Agents : keysOf[a] \subseteq Routed'
    BY <1>1, <1>2, Known DEF Knows
  <2> QED BY <1>1, <1>2, <2>1 DEF To, Handler, Named, Knows, HasNew, HasOld, HasUid, Moves
<1> QED BY <1>1, <1>2, <1>3, <1>4, WriteStep

LEMMA RerouteRoute ==
    ASSUME RouteInv, NEW h \in Handlers, Reroute(h)
    PROVE  RouteInv'
<1> DEFINE r == To(h, "writeNew")
<1>1. handler[h].pc = "reroute" /\ HStep(h, "reroute", r)
  BY DEF Reroute, HStep
<1>2. StoreInv' /\ Routed \subseteq Routed'
  <2>1. handler[h].new \in Agents
    BY <1>1, Known DEF Named, HasNew
  <2> QED BY <2>1, Known, RouteStore DEF Reroute, RouteInv
<1>3. r \in Handler
  <2>1. handler[h] \in Handler
    BY Known
  <2> QED BY <2>1 DEF To, Handler, HPcs
<1>4. Named(r) /\ Knows(r, Routed')
  <2>1. /\ handler[h] \in Handler /\ Named(handler[h]) /\ Knows(handler[h], Routed')
        /\ \A a \in Agents : keysOf[a] \subseteq Routed'
    BY <1>1, <1>2, Known DEF Knows
  <2> QED BY <1>1, <1>2, <2>1 DEF To, Handler, Named, Knows, HasNew, HasOld, HasUid, Moves
<1> QED BY <1>1, <1>2, <1>3, <1>4, WriteStep

LEMMA WriteNewRoute ==
    ASSUME RouteInv, NEW h \in Handlers, WriteNew(h)
    PROVE  RouteInv'
<1> DEFINE r == To(h, "addCount")
<1>1. handler[h].pc = "writeNew" /\ HStep(h, "writeNew", r)
  BY DEF WriteNew, HStep
<1>2. StoreInv' /\ Routed \subseteq Routed'
  <2>1. handler[h].new \in Agents
    BY <1>1, Known DEF Named, HasNew
  <2>2. WithMoved(h) \in SUBSET Routed
    BY <1>1, Known DEF Knows, WithMoved, Moves
  <2> QED BY <2>1, <2>2, KeysStore DEF WriteNew, RouteInv
<1>3. r \in Handler
  <2>1. handler[h] \in Handler
    BY Known
  <2> QED BY <2>1 DEF To, Handler, HPcs
<1>4. Named(r) /\ Knows(r, Routed')
  <2>1. /\ handler[h] \in Handler /\ Named(handler[h]) /\ Knows(handler[h], Routed')
        /\ \A a \in Agents : keysOf[a] \subseteq Routed'
    BY <1>1, <1>2, Known DEF Knows
  <2> QED BY <1>1, <1>2, <2>1 DEF To, Handler, Named, Knows, HasNew, HasOld, HasUid, Moves
<1> QED BY <1>1, <1>2, <1>3, <1>4, WriteStep

LEMMA AddCountRoute ==
    ASSUME RouteInv, NEW h \in Handlers, AddCount(h)
    PROVE  RouteInv'
<1> DEFINE r == [To(h, "pick") EXCEPT
                !.todo = @ \ {handler[h].moved},
                !.uid = IF handler[h].moved = handler[h].key THEN handler[h].new ELSE @]
<1>1. handler[h].pc = "addCount" /\ HStep(h, "addCount", r)
  BY DEF AddCount, HStep
<1>2. StoreInv' /\ Routed \subseteq Routed'
  <2>1. handler[h].new \in Agents
    BY <1>1, Known DEF Named, HasNew
  <2>2. pending[handler[h].new][handler[h].moved] + handler[h].cnt \in Nat
    BY <2>1, Known, RedisInboundAssumption DEF TypeOK, Counts
  <2> QED BY <2>1, <2>2, Known, CountStore DEF AddCount, RouteInv
<1>3. r \in Handler
  <2> DEFINE K == handler[h].todo \ {handler[h].moved}
             a == IF handler[h].moved = handler[h].key THEN handler[h].new ELSE handler[h].uid
  <2>1. /\ To(h, "pick") \in Handler /\ To(h, "pick").todo = handler[h].todo
        /\ To(h, "pick").uid = handler[h].uid
    <3>1. handler[h] \in Handler
      BY Known
    <3> QED BY <3>1 DEF To, Handler, HPcs
  <2>2. K \in SUBSET Keys /\ a \in Agents \cup {NoAgent}
    BY Known DEF Knows
  <2>3. r = [To(h, "pick") EXCEPT !.todo = K, !.uid = a]
    BY <2>1
  <2> HIDE DEF K, a
  <2>4. [To(h, "pick") EXCEPT !.todo = K, !.uid = a] \in Handler
    BY <2>1, <2>2, Changes
  <2> QED BY <2>3, <2>4
<1>4. Named(r) /\ Knows(r, Routed')
  <2>1. /\ handler[h] \in Handler /\ Named(handler[h]) /\ Knows(handler[h], Routed')
        /\ \A a \in Agents : keysOf[a] \subseteq Routed'
    BY <1>1, <1>2, Known DEF Knows
  <2> QED BY <1>1, <1>2, <2>1 DEF To, Handler, Named, Knows, HasNew, HasOld, HasUid, Moves
<1> QED BY <1>1, <1>2, <1>3, <1>4, WriteStep

LEMMA DropRoute ==
    ASSUME RouteInv, NEW h \in Handlers, Drop(h)
    PROVE  RouteInv'
<1> DEFINE r == To(h, "count")
<1>1. handler[h].pc = "drop" /\ HStep(h, "drop", r)
  BY DEF Drop, HStep
<1>2. StoreInv' /\ Routed \subseteq Routed'
  <2>1. handler[h].old \in Agents
    BY <1>1, Known DEF Named, HasOld, Moves
  <2>2. Routed' = Routed
    BY DEF Drop, Routed
  <2>3. /\ keysOf' \in [Agents -> SUBSET Keys] /\ registered' \subseteq Agents
        /\ \A b \in Agents : keysOf'[b] = keysOf[b] \/ keysOf'[b] = {}
    BY <2>1 DEF Drop, RouteInv, StoreInv
  <2> QED BY <2>2, <2>3 DEF Drop, RouteInv, StoreInv
<1>3. r \in Handler
  <2>1. handler[h] \in Handler
    BY Known
  <2> QED BY <2>1 DEF To, Handler, HPcs
<1>4. Named(r) /\ Knows(r, Routed')
  <2>1. /\ handler[h] \in Handler /\ Named(handler[h]) /\ Knows(handler[h], Routed')
        /\ \A a \in Agents : keysOf[a] \subseteq Routed'
    BY <1>1, <1>2, Known DEF Knows
  <2> QED BY <1>1, <1>2, <2>1 DEF To, Handler, Named, Knows, HasNew, HasOld, HasUid, Moves
<1> QED BY <1>1, <1>2, <1>3, <1>4, WriteStep

LEMMA CountRoute ==
    ASSUME RouteInv, NEW h \in Handlers, Count(h)
    PROVE  RouteInv'
<1> DEFINE r == To(h, "push")
<1>1. handler[h].pc = "count" /\ HStep(h, "count", r)
  BY DEF Count, HStep
<1>2. StoreInv' /\ Routed \subseteq Routed'
  <2>1. handler[h].uid \in Agents
    BY <1>1, Known DEF Named, HasUid
  <2>2. pending[handler[h].uid][handler[h].key] + 1 \in Nat
    BY <2>1, Known, RedisInboundAssumption DEF TypeOK, Counts
  <2> QED BY <2>1, <2>2, Known, CountStore DEF Count, RouteInv
<1>3. r \in Handler
  <2>1. handler[h] \in Handler
    BY Known
  <2> QED BY <2>1 DEF To, Handler, HPcs
<1>4. Named(r) /\ Knows(r, Routed')
  <2>1. /\ handler[h] \in Handler /\ Named(handler[h]) /\ Knows(handler[h], Routed')
        /\ \A a \in Agents : keysOf[a] \subseteq Routed'
    BY <1>1, <1>2, Known DEF Knows
  <2> QED BY <1>1, <1>2, <2>1 DEF To, Handler, Named, Knows, HasNew, HasOld, HasUid, Moves
<1> QED BY <1>1, <1>2, <1>3, <1>4, WriteStep

LEMMA PushRoute ==
    ASSUME RouteInv, NEW h \in Handlers, Push(h)
    PROVE  RouteInv'
<1> DEFINE r == IdleHandler
<1>1. handler[h].pc = "push" /\ HStep(h, "push", r)
  BY DEF Push, HStep
<1>2. StoreInv' /\ Routed \subseteq Routed'
  <2>1. topic' \in [Keys -> Nat]
    BY Known DEF Push, TypeOK
  <2> QED BY <2>1, TopicStore DEF Push, RouteInv
<1>3. r \in Handler
  BY IdleTypes
<1>4. Named(r) /\ Knows(r, Routed')
  BY IdleKnows
<1> QED BY <1>1, <1>2, <1>3, <1>4, WriteStep

-----------------------------------------------------------------------------
(***************************************************************************)
(* Messages that arrive, commands that fail, and the plugin instances.     *)
(***************************************************************************)
LEMMA ReceiveRoute ==
    ASSUME RouteInv, NEW h \in Handlers, NEW k \in Keys, Receive(h, k)
    PROVE  RouteInv'
<1> DEFINE r == [IdleHandler EXCEPT !.pc = "lookup", !.key = k]
<1>1. r \in Handler /\ r.pc = "lookup" /\ r.mine = {} /\ r.theirs = {} /\ r.todo = {}
  BY IdleTypes DEF Handler, HPcs
<1>2. \A K : Named(r) /\ Knows(r, K)
  BY <1>1 DEF Named, Knows, HasNew, HasOld, HasUid, Moves
<1>3. StoreInv /\ arrived \in 0..MaxMsgs /\ faults \in 0..MaxFaults
  BY DEF RouteInv
<1>4. StoreInv' /\ Routed' = Routed
  BY <1>3, StoreStays DEF Receive
<1>5. arrived' \in 0..MaxMsgs /\ faults' \in 0..MaxFaults
  BY <1>3, RedisInboundAssumption DEF Receive
<1>6. handler' = [handler EXCEPT ![h] = r] /\ UNCHANGED agent
  BY DEF Receive
<1> HIDE DEF r
<1> QED BY <1>1, <1>2, <1>4, <1>5, <1>6, HandlerStep

LEMMA FaultTypes ==
    ASSUME RouteInv, Fault
    PROVE  faults' \in 0..MaxFaults
BY RedisInboundAssumption DEF RouteInv, Fault

LEMMA PushAgainRoute ==
    ASSUME RouteInv, NEW h \in Handlers, PushAgain(h)
    PROVE  RouteInv'
<1>1. StoreInv /\ arrived' \in 0..MaxMsgs
  BY DEF RouteInv, PushAgain
<1>2. topic' \in [Keys -> Nat]
  BY <1>1 DEF PushAgain, StoreInv
<1>3. StoreInv' /\ Routed' = Routed
  BY <1>1, <1>2, TopicStore DEF PushAgain
<1>4. To(h, "lookup") \in Handler
  <2>1. handler[h] \in Handler
    BY Known
  <2> QED BY <2>1 DEF To, Handler, HPcs
<1>5. Named(To(h, "lookup")) /\ Knows(To(h, "lookup"), Routed)
  <2>1. handler[h] \in Handler /\ Knows(handler[h], Routed)
    BY Known
  <2> QED BY <2>1 DEF To, Handler, Named, Knows, HasNew, HasOld, HasUid, Moves
<1>6. faults' \in 0..MaxFaults
  BY FaultTypes DEF PushAgain
<1>7. handler' = [handler EXCEPT ![h] = To(h, "lookup")] /\ UNCHANGED agent
  BY DEF PushAgain
<1> QED BY <1>1, <1>3, <1>4, <1>5, <1>6, <1>7, HandlerStep

LEMMA HandlerFailsRoute ==
    ASSUME RouteInv, NEW h \in Handlers, HandlerFails(h)
    PROVE  RouteInv'
<1>1. StoreInv /\ arrived' \in 0..MaxMsgs
  BY DEF RouteInv, HandlerFails
<1>2. StoreInv' /\ Routed' = Routed
  BY <1>1, StoreStays DEF HandlerFails
<1>3. faults' \in 0..MaxFaults
  BY FaultTypes DEF HandlerFails
<1>4. handler' = [handler EXCEPT ![h] = IdleHandler] /\ UNCHANGED agent
  BY DEF HandlerFails
<1> QED BY <1>1, <1>2, <1>3, <1>4, IdleTypes, IdleKnows, HandlerStep

\* A step of one instance.
LEMMA InstanceStep ==
    ASSUME RouteInv, StoreInv', Routed' = Routed,
           NEW a \in Agents, NEW r \in Agent, Lowers(r),
           agent' = [agent EXCEPT ![a] = r],
           UNCHANGED <<handler, arrived>>, faults' \in 0..MaxFaults
    PROVE  RouteInv'
<1>1. /\ agent' \in [Agents -> Agent] /\ agent'[a] = r
      /\ \A b \in Agents \ {a} : agent'[b] = agent[b]
  BY DEF RouteInv
<1>2. AgentsLower'
  BY <1>1 DEF RouteInv, AgentsLower
<1>3. HandlersKnow'
  BY DEF RouteInv, HandlersKnow
<1> QED BY <1>1, <1>2, <1>3 DEF RouteInv

LEMMA NextKeyTypes ==
    ASSUME NEW a, NEW B \in SUBSET Keys
    PROVE  NextKey(a, B) \in Agent /\ Lowers(NextKey(a, B))
BY IdleTypes DEF NextKey, Agent, APcs, Lowers

LEMMA AgentTypes ==
    ASSUME RouteInv, NEW a \in Agents
    PROVE  /\ agent[a] \in Agent /\ Lowers(agent[a])
           /\ agent[a].batch \in SUBSET Keys /\ agent[a].key \in Keys
           /\ agent[a].cnt \in Counts /\ keysOf[a] \in SUBSET Keys
           /\ StoreInv /\ faults \in 0..MaxFaults /\ topic \in [Keys -> Nat]
<1>1. agent[a] \in Agent /\ StoreInv /\ faults \in 0..MaxFaults /\ Lowers(agent[a])
  BY DEF RouteInv, AgentsLower
<1> QED BY <1>1 DEF Agent, StoreInv

LEMMA StartRoute ==
    ASSUME RouteInv, NEW a \in Agents, Start(a)
    PROVE  RouteInv'
<1>1. StoreInv' /\ Routed' = Routed
  BY KeysStore DEF Start, RouteInv
<1> QED BY <1>1, NextKeyTypes, AgentTypes, InstanceStep DEF Start, AStep

LEMMA PollRoute ==
    ASSUME RouteInv, NEW a \in Agents, Poll(a)
    PROVE  RouteInv'
<1>1. StoreInv' /\ Routed' = Routed
  BY AgentTypes, StoreStays DEF Poll
<1> QED BY <1>1, NextKeyTypes, AgentTypes, InstanceStep DEF Poll, AStep

LEMMA PopNothingRoute ==
    ASSUME RouteInv, NEW a \in Agents, NEW k \in Keys, PopNothing(a, k)
    PROVE  RouteInv'
<1>1. StoreInv' /\ Routed' = Routed
  BY AgentTypes, StoreStays DEF PopNothing
<1>2. agent[a].batch \ {k} \in SUBSET Keys
  BY AgentTypes
<1> QED BY <1>1, <1>2, NextKeyTypes, AgentTypes, InstanceStep DEF PopNothing, AStep

LEMMA PopRoute ==
    ASSUME RouteInv, NEW a \in Agents, NEW k \in Keys, Pop(a, k)
    PROVE  RouteInv'
<1> DEFINE r == [agent[a] EXCEPT !.pc = "touch", !.key = k]
<1>1. r \in Agent /\ Lowers(r)
  BY AgentTypes DEF Agent, APcs, Lowers
<1>2. topic' \in [Keys -> Nat]
  BY AgentTypes DEF Pop
<1>3. StoreInv' /\ Routed' = Routed
  BY <1>2, AgentTypes, TopicStore DEF Pop
<1> QED BY <1>1, <1>3, AgentTypes, InstanceStep DEF Pop, AStep

LEMMA TouchRoute ==
    ASSUME RouteInv, NEW a \in Agents, Touch(a)
    PROVE  RouteInv'
<1> DEFINE r == [agent[a] EXCEPT !.pc = "count"]
<1>1. r \in Agent /\ Lowers(r)
  BY AgentTypes DEF Agent, APcs, Lowers
<1>2. StoreInv' /\ Routed' = Routed
  BY AgentTypes DEF Touch, StoreInv, Routed
<1> QED BY <1>1, <1>2, AgentTypes, InstanceStep DEF Touch, AStep

LEMMA ReadPendingRoute ==
    ASSUME RouteInv, NEW a \in Agents, ReadPending(a)
    PROVE  RouteInv'
<1>1. PICK n \in Counts : n = pending[a][agent[a].key]
  BY AgentTypes DEF StoreInv
<1> DEFINE r == [agent[a] EXCEPT !.pc = AfterCount(n), !.cnt = n]
<1>2. r \in Agent /\ Lowers(r)
  BY AgentTypes DEF Agent, APcs, Lowers, AfterCount
<1>3. StoreInv' /\ Routed' = Routed
  BY AgentTypes, StoreStays DEF ReadPending
<1>4. agent' = [agent EXCEPT ![a] = r] /\ UNCHANGED <<handler, arrived, faults>>
  BY <1>1 DEF ReadPending, AStep
<1> QED BY <1>2, <1>3, <1>4, AgentTypes, InstanceStep

LEMMA WritePendingRoute ==
    ASSUME RouteInv, NEW a \in Agents, WritePending(a)
    PROVE  RouteInv'
<1> DEFINE r == [agent[a] EXCEPT !.pc = "process"]
<1>1. r \in Agent /\ Lowers(r)
  BY AgentTypes DEF Agent, APcs, Lowers
<1>2. agent[a].pc = "write"
  BY DEF WritePending, AStep
<1>3. agent[a].cnt - 1 \in Nat
  BY <1>2, AgentTypes, RedisInboundAssumption DEF Lowers, Counts
<1>4. StoreInv' /\ Routed' = Routed
  BY <1>3, AgentTypes, CountStore DEF WritePending
<1> QED BY <1>1, <1>4, AgentTypes, InstanceStep DEF WritePending, AStep

LEMMA ProcessRoute ==
    ASSUME RouteInv, NEW a \in Agents, Process(a)
    PROVE  RouteInv'
<1>1. StoreInv' /\ Routed' = Routed
  BY AgentTypes, StoreStays DEF Process
<1>2. agent[a].batch \ {agent[a].key} \in SUBSET Keys
  BY AgentTypes
<1> QED BY <1>1, <1>2, NextKeyTypes, AgentTypes, InstanceStep DEF Process, AStep

LEMMA AgeRoute ==
    ASSUME RouteInv, NEW a \in Agents, Age(a)
    PROVE  RouteInv'
<1>1. StoreInv' /\ Routed' = Routed
  BY AgentTypes DEF Age, StoreInv, Routed
<1> QED BY <1>1 DEF Age, RouteInv, HandlersKnow, AgentsLower

LEMMA DieRoute ==
    ASSUME RouteInv, NEW a \in Agents, Die(a)
    PROVE  RouteInv'
<1> DEFINE r == [OffAgent EXCEPT !.pc = "dead"]
<1>1. r \in Agent /\ Lowers(r)
  BY IdleTypes DEF Agent, APcs, Lowers
<1>2. StoreInv' /\ Routed' = Routed
  BY AgentTypes, StoreStays DEF Die
<1>3. faults' \in 0..MaxFaults
  BY FaultTypes DEF Die
<1> QED BY <1>1, <1>2, <1>3, InstanceStep DEF Die

-----------------------------------------------------------------------------
LEMMA HandleRoute ==
    ASSUME RouteInv, NEW h \in Handlers, Handle(h)
    PROVE  RouteInv'
<1>1. CASE \/ Lookup(h) \/ ReadKeys(h) \/ Check(h) \/ ListKeys(h) \/ ScanDone(h)
           \/ PickDone(h) \/ ReadOld(h) \/ ReadNew(h) \/ ReadCount(h) \/ Prune(h)
  BY <1>1, LookupRoute, ReadKeysRoute, CheckRoute, ListKeysRoute, ScanDoneRoute,
     PickDoneRoute, ReadOldRoute, ReadNewRoute, ReadCountRoute, PruneRoute
<1>2. CASE \/ Assign(h) \/ AddKey(h) \/ ResetCount(h) \/ WriteOld(h) \/ DropCount(h)
           \/ Reroute(h) \/ WriteNew(h) \/ AddCount(h) \/ Drop(h) \/ Count(h) \/ Push(h)
  BY <1>2, AssignRoute, AddKeyRoute, ResetCountRoute, WriteOldRoute, DropCountRoute,
     RerouteRoute, WriteNewRoute, AddCountRoute, DropRoute, CountRoute, PushRoute
<1>3. ASSUME NEW k \in Keys, NEW a \in Agents, Choose(h, a) \/ PickKey(h, k, a)
      PROVE  RouteInv'
  BY <1>3, ChooseRoute, PickKeyRoute
<1>4. ASSUME NEW k \in Keys, Scan(h, k) PROVE RouteInv'
  BY <1>4, ScanRoute
<1>5. ASSUME NEW a \in Agents, Choose(h, a) PROVE RouteInv'
  BY <1>5, ChooseRoute
<1> QED BY <1>1, <1>2, <1>3, <1>4, <1>5 DEF Handle

LEMMA ServeRoute ==
    ASSUME RouteInv, NEW a \in Agents, Serve(a)
    PROVE  RouteInv'
BY PollRoute, PopRoute, PopNothingRoute, TouchRoute, ReadPendingRoute,
   WritePendingRoute, ProcessRoute DEF Serve

LEMMA NextRoute == RouteInv /\ [Next]_vars => RouteInv'
<1> SUFFICES ASSUME RouteInv, [Next]_vars PROVE RouteInv'
  OBVIOUS
<1>1. ASSUME NEW h \in Handlers, NEW k \in Keys,
             Handle(h) \/ Receive(h, k) \/ PushAgain(h) \/ HandlerFails(h)
      PROVE  RouteInv'
  BY <1>1, HandleRoute, ReceiveRoute, PushAgainRoute, HandlerFailsRoute
<1>2. ASSUME NEW a \in Agents, Start(a) \/ Serve(a) \/ Age(a) \/ Die(a)
      PROVE  RouteInv'
  BY <1>2, StartRoute, ServeRoute, AgeRoute, DieRoute
<1>3. CASE UNCHANGED vars
  <2>1. StoreInv' /\ Routed' = Routed
    BY <1>3, StoreStays DEF vars, redis, RouteInv
  <2> QED BY <1>3, <2>1 DEF vars, RouteInv, HandlersKnow, AgentsLower
<1>4. Keys # {}
  BY RedisInboundAssumption
<1> QED BY <1>1, <1>2, <1>3, <1>4 DEF Next, CalmNext

\* Every variable keeps its type, whatever fails or stops (utils.py, inbound.py).
THEOREM TypeCorrect == Spec => []TypeOK
<1>1. RouteInv => TypeOK
  BY RouteTypes
<1> QED BY <1>1, InitRoute, NextRoute, PTL DEF Spec

(***************************************************************************)
(* No uid polls a key that was never routed, however many handlers assign  *)
(* and move keys at once and wherever one of them fails: a key list is     *)
(* written only with keys that were read from one or that the handler has  *)
(* routed itself, and a route is never taken back                          *)
(* (assign_recip_key_to_new_uid, reassign_recip_key_to_uid).               *)
(***************************************************************************)
THEOREM ListedIsRouted == Spec => []PolledIsRouted
<1>1. RouteInv => PolledIsRouted
  BY RouteTypes
<1> QED BY <1>1, InitRoute, NextRoute, PTL DEF Spec

-----------------------------------------------------------------------------
(***************************************************************************)
(* One handler: the two maps agree but for the key it has in hand.  (With  *)
(* two, a list that one of them wrote is overwritten by the other's.)      *)
(***************************************************************************)
OneHandler == \E h : Handlers = {h}

\* The uids whose list has the key k, K being the lists and R the routes.
Owners(k, K)     == {a \in Agents : k \in K[a]}
Settled(k, K, R) == Owners(k, K) = IF R[k] = NoAgent THEN {} ELSE {R[k]}

Assigning == {"read", "add"}
Moving    == {"readCount", "dropCount", "reroute", "writeNew"}

\* What a handler knows of the two maps, and which key may be unsettled.
Fits(r, K, R) ==
    /\ \A k \in Keys : \/ Settled(k, K, R)
                       \/ r.pc \in Assigning /\ k = r.key
                       \/ r.pc \in Moving /\ k = r.moved
    /\ r.pc \in {"choose", "assign"} => R[r.key] = NoAgent
    /\ r.pc \in Assigning => Owners(r.key, K) = {} /\ R[r.key] = r.new
    /\ r.pc = "add" => r.mine = K[r.new]
    /\ r.pc = "scan" => r.mine = K[r.old]
    /\ r.pc \in {"scan", "pick", "readOld", "readNew", "writeOld"} =>
          r.todo \subseteq K[r.old]
    /\ r.pc \in {"readOld", "readNew", "writeOld"} => r.moved \in r.todo
    /\ r.pc \in {"readNew", "writeOld"} => r.mine = K[r.old]
    /\ r.pc = "writeOld" => r.theirs = K[r.new]
    /\ r.pc \in Moving => /\ Owners(r.moved, K) = {}
                          /\ K[r.new] = r.theirs \ {r.moved}
                          /\ R[r.moved] # NoAgent
    /\ r.pc \in Moving \cup {"addCount"} => r.todo \ {r.moved} \subseteq K[r.old]
    /\ r.pc = "writeNew" => R[r.moved] = r.new
    /\ r.pc = "drop" => K[r.old] = {}

\* An instance that has not started has no key, and none is on its way to it,
\* S being the instances that have.
Live(r, S) ==
    /\ r.pc \in HasNew => r.new \in S
    /\ r.pc \in HasOld => r.old \in S
    /\ r.pc \in HasUid => r.uid \in S

Started == {a \in Agents : agent[a].pc # "off"}

MapsLive(S) ==
    /\ registered \subseteq S
    /\ \A k \in Keys : route[k] \in S \cup {NoAgent}
    /\ \A a \in Agents \ S : keysOf[a] = {}

MapsFit == \A h \in Handlers : Fits(handler[h], keysOf, route) /\ Live(handler[h], Started)

SoleInv == MapsFit /\ MapsLive(Started)

LEMMA InitSole == Init => SoleInv
<1> SUFFICES ASSUME Init PROVE SoleInv
  OBVIOUS
<1>1. \A h \in Handlers : handler[h].pc = "idle"
  BY IdleTypes DEF Init
<1>2. \A k \in Keys : Settled(k, keysOf, route)
  BY DEF Init, Settled, Owners
<1>3. MapsFit
  BY <1>1, <1>2 DEF MapsFit, Fits, Live, Assigning, Moving, HasNew, HasOld, HasUid, Moves
<1> QED BY <1>3 DEF SoleInv, MapsLive, Init

\* A step of the handler.
LEMMA SoleStep ==
    ASSUME OneHandler, RouteInv, NEW h \in Handlers, NEW r \in Handler,
           handler' = [handler EXCEPT ![h] = r], UNCHANGED agent,
           Fits(r, keysOf', route'), Live(r, Started), MapsLive(Started)'
    PROVE  SoleInv'
<1>1. handler'[h] = r /\ Started' = Started
  BY DEF RouteInv, Started
<1>2. \A g \in Handlers : handler'[g] = r
  BY <1>1 DEF OneHandler
<1> QED BY <1>1, <1>2 DEF SoleInv, MapsFit

LEMMA SoleRead ==
    ASSUME OneHandler, RouteInv, SoleInv, NEW h \in Handlers, NEW p, NEW r \in Handler,
           HRead(h, p, r), Fits(r, keysOf, route), Live(r, Started)
    PROVE  SoleInv'
<1>1. /\ handler' = [handler EXCEPT ![h] = r]
      /\ UNCHANGED <<agent, registered, route, keysOf>>
  BY DEF HRead, HStep, redis
<1>2. MapsLive(Started)'
  BY <1>1 DEF SoleInv, MapsLive, Started
<1> QED BY <1>1, <1>2, SoleStep

LEMMA Fitting ==
    ASSUME SoleInv, NEW h \in Handlers
    PROVE  /\ Fits(handler[h], keysOf, route) /\ Live(handler[h], Started)
           /\ MapsLive(Started) /\ Started \subseteq Agents
BY DEF SoleInv, MapsFit, Started

\* The commands that read.

LEMMA LookupSole ==
    ASSUME OneHandler, RouteInv, SoleInv, NEW h \in Handlers, Lookup(h)
    PROVE  SoleInv'
<1> DEFINE r == IF route[handler[h].key] = NoAgent THEN To(h, "choose")
             ELSE [To(h, "check") EXCEPT !.uid = route[handler[h].key]]
<1>1. handler[h].pc = "lookup" /\ HRead(h, "lookup", r)
  BY DEF Lookup, HRead, HStep
<1>2. r \in Handler
  <2>1. To(h, "choose") \in Handler /\ To(h, "check") \in Handler
    <3>1. handler[h] \in Handler
      BY Known
    <3> QED BY <3>1 DEF To, Handler, HPcs
  <2>2. route[handler[h].key] \in Agents \cup {NoAgent}
    BY Known DEF TypeOK
  <2> QED BY <2>1, <2>2, Changes
<1>3. Fits(r, keysOf, route)
  <2>1. handler[h] \in Handler /\ Fits(handler[h], keysOf, route)
    BY Known, Fitting
  <2> QED BY <1>1, <2>1 DEF To, Handler, Fits, Assigning, Moving
<1>4. Live(r, Started)
  <2>1. handler[h] \in Handler /\ Live(handler[h], Started) /\ MapsLive(Started)
    BY Known, Fitting
  <2> QED BY <1>1, <2>1 DEF To, Handler, Live, HasNew, HasOld, HasUid, Moves, MapsLive
<1> QED BY <1>1, <1>2, <1>3, <1>4, SoleRead

LEMMA ChooseSole ==
    ASSUME OneHandler, RouteInv, SoleInv, NEW h \in Handlers, NEW a \in Agents, Choose(h, a)
    PROVE  SoleInv'
<1> DEFINE r == [To(h, "assign") EXCEPT !.new = a]
<1>1. handler[h].pc = "choose" /\ HRead(h, "choose", r)
  BY DEF Choose, HRead, HStep
<1>2. r \in Handler
  <2>1. To(h, "assign") \in Handler
    <3>1. handler[h] \in Handler
      BY Known
    <3> QED BY <3>1 DEF To, Handler, HPcs
  <2> QED BY <2>1, Changes
<1>3. Fits(r, keysOf, route)
  <2>1. handler[h] \in Handler /\ Fits(handler[h], keysOf, route)
    BY Known, Fitting
  <2> QED BY <1>1, <2>1 DEF To, Handler, Fits, Assigning, Moving
<1>4. Live(r, Started)
  <2>1. handler[h] \in Handler /\ Live(handler[h], Started) /\ MapsLive(Started)
    BY Known, Fitting
  <2> QED BY <1>1, <2>1 DEF To, Handler, Live, HasNew, HasOld, HasUid, Moves, MapsLive, Choose
<1> QED BY <1>1, <1>2, <1>3, <1>4, SoleRead

LEMMA ReadKeysSole ==
    ASSUME OneHandler, RouteInv, SoleInv, NEW h \in Handlers, ReadKeys(h)
    PROVE  SoleInv'
<1> DEFINE r == [To(h, IF handler[h].key \in keysOf[handler[h].new] THEN "reset" ELSE "add")
                EXCEPT !.mine = keysOf[handler[h].new]]
<1>1. handler[h].pc = "read" /\ HRead(h, "read", r)
  BY DEF ReadKeys, HRead, HStep
<1>2. r \in Handler
  <2>1. To(h, "reset") \in Handler /\ To(h, "add") \in Handler
    <3>1. handler[h] \in Handler
      BY Known
    <3> QED BY <3>1 DEF To, Handler, HPcs
  <2>2. handler[h].new \in Agents
    BY <1>1, Known DEF Named, HasNew
  <2> QED BY <2>1, <2>2, Known, Changes
<1>3. Fits(r, keysOf, route)
  <2>1. handler[h] \in Handler /\ Fits(handler[h], keysOf, route)
    BY Known, Fitting
  <2>2. handler[h].new \in Agents
    BY <1>1, Known DEF Named, HasNew
  <2>3. /\ handler[h].key \notin keysOf[handler[h].new]
        /\ route[handler[h].key] = handler[h].new
        /\ Owners(handler[h].key, keysOf) = {}
    BY <1>1, <2>1, <2>2 DEF Fits, Assigning, Owners
  <2>4. /\ r.pc = "add" /\ r.key = handler[h].key /\ r.new = handler[h].new
        /\ r.mine = keysOf[handler[h].new]
    BY <2>1, <2>3 DEF To, Handler
  <2>5. \A k \in Keys : Settled(k, keysOf, route) \/ k = handler[h].key
    BY <1>1, <2>1 DEF Fits, Moving, Assigning
  <2> HIDE DEF r
  <2> QED BY <2>3, <2>4, <2>5 DEF Fits, Assigning, Moving
<1>4. Live(r, Started)
  <2>1. handler[h] \in Handler /\ Live(handler[h], Started) /\ MapsLive(Started)
    BY Known, Fitting
  <2> QED BY <1>1, <2>1 DEF To, Handler, Live, HasNew, HasOld, HasUid, Moves, MapsLive
<1> QED BY <1>1, <1>2, <1>3, <1>4, SoleRead

LEMMA CheckSole ==
    ASSUME OneHandler, RouteInv, SoleInv, NEW h \in Handlers, Check(h)
    PROVE  SoleInv'
<1> DEFINE r == To(h, IF Stale(handler[h].uid) THEN "list" ELSE "count")
<1>1. handler[h].pc = "check" /\ HRead(h, "check", r)
  BY DEF Check, HRead, HStep
<1>2. r \in Handler
  <2>1. handler[h] \in Handler
    BY Known
  <2> QED BY <2>1 DEF To, Handler, HPcs
<1>3. Fits(r, keysOf, route)
  <2>1. handler[h] \in Handler /\ Fits(handler[h], keysOf, route)
    BY Known, Fitting
  <2> QED BY <1>1, <2>1 DEF To, Handler, Fits, Assigning, Moving
<1>4. Live(r, Started)
  <2>1. handler[h] \in Handler /\ Live(handler[h], Started) /\ MapsLive(Started)
    BY Known, Fitting
  <2> QED BY <1>1, <2>1 DEF To, Handler, Live, HasNew, HasOld, HasUid, Moves, MapsLive
<1> QED BY <1>1, <1>2, <1>3, <1>4, SoleRead

LEMMA ListKeysSole ==
    ASSUME OneHandler, RouteInv, SoleInv, NEW h \in Handlers, ListKeys(h)
    PROVE  SoleInv'
<1> DEFINE r == [To(h, "scan") EXCEPT !.old = handler[h].uid,
                !.mine = keysOf[handler[h].uid], !.todo = keysOf[handler[h].uid]]
<1>1. handler[h].pc = "list" /\ HRead(h, "list", r)
  BY DEF ListKeys, HRead, HStep
<1>2. r \in Handler
  <2>1. To(h, "scan") \in Handler
    <3>1. handler[h] \in Handler
      BY Known
    <3> QED BY <3>1 DEF To, Handler, HPcs
  <2>2. handler[h].uid \in Agents
    BY <1>1, Known DEF Named, HasUid
  <2> QED BY <2>1, <2>2, Known, Changes
<1>3. Fits(r, keysOf, route)
  <2>1. handler[h] \in Handler /\ Fits(handler[h], keysOf, route)
    BY Known, Fitting
  <2> QED BY <1>1, <2>1 DEF To, Handler, Fits, Assigning, Moving
<1>4. Live(r, Started)
  <2>1. handler[h] \in Handler /\ Live(handler[h], Started) /\ MapsLive(Started)
    BY Known, Fitting
  <2> QED BY <1>1, <2>1 DEF To, Handler, Live, HasNew, HasOld, HasUid, Moves, MapsLive
<1> QED BY <1>1, <1>2, <1>3, <1>4, SoleRead

LEMMA ScanSole ==
    ASSUME OneHandler, RouteInv, SoleInv, NEW h \in Handlers, NEW k \in Keys, Scan(h, k)
    PROVE  SoleInv'
<1> DEFINE r == IF pending[handler[h].old][k] >= 1
             THEN [To(h, "pick") EXCEPT !.todo = handler[h].mine]
             ELSE [handler[h] EXCEPT !.todo = @ \ {k}]
<1>1. handler[h].pc = "scan" /\ HRead(h, "scan", r)
  BY DEF Scan, HRead, HStep
<1>2. r \in Handler
  <2>1. To(h, "pick") \in Handler
    <3>1. handler[h] \in Handler
      BY Known
    <3> QED BY <3>1 DEF To, Handler, HPcs
  <2>2. handler[h].mine \in SUBSET Keys /\ handler[h].todo \ {k} \in SUBSET Keys
    BY Known DEF Knows
  <2> QED BY <2>1, <2>2, Known, Changes
<1>3. Fits(r, keysOf, route)
  <2>1. handler[h] \in Handler /\ Fits(handler[h], keysOf, route)
    BY Known, Fitting
  <2> QED BY <1>1, <2>1 DEF To, Handler, Fits, Assigning, Moving
<1>4. Live(r, Started)
  <2>1. handler[h] \in Handler /\ Live(handler[h], Started) /\ MapsLive(Started)
    BY Known, Fitting
  <2> QED BY <1>1, <2>1 DEF To, Handler, Live, HasNew, HasOld, HasUid, Moves, MapsLive
<1> QED BY <1>1, <1>2, <1>3, <1>4, SoleRead

LEMMA ScanDoneSole ==
    ASSUME OneHandler, RouteInv, SoleInv, NEW h \in Handlers, ScanDone(h)
    PROVE  SoleInv'
<1> DEFINE r == To(h, "count")
<1>1. handler[h].pc = "scan" /\ HRead(h, "scan", r)
  BY DEF ScanDone, HRead, HStep
<1>2. r \in Handler
  <2>1. handler[h] \in Handler
    BY Known
  <2> QED BY <2>1 DEF To, Handler, HPcs
<1>3. Fits(r, keysOf, route)
  <2>1. handler[h] \in Handler /\ Fits(handler[h], keysOf, route)
    BY Known, Fitting
  <2> QED BY <1>1, <2>1 DEF To, Handler, Fits, Assigning, Moving
<1>4. Live(r, Started)
  <2>1. handler[h] \in Handler /\ Live(handler[h], Started) /\ MapsLive(Started)
    BY Known, Fitting
  <2> QED BY <1>1, <2>1 DEF To, Handler, Live, HasNew, HasOld, HasUid, Moves, MapsLive
<1> QED BY <1>1, <1>2, <1>3, <1>4, SoleRead

LEMMA PickKeySole ==
    ASSUME OneHandler, RouteInv, SoleInv, NEW h \in Handlers, NEW k \in Keys, NEW a \in Agents, PickKey(h, k, a)
    PROVE  SoleInv'
<1> DEFINE r == [To(h, "readOld") EXCEPT !.moved = k, !.new = a]
<1>1. handler[h].pc = "pick" /\ HRead(h, "pick", r)
  BY DEF PickKey, HRead, HStep
<1>2. r \in Handler
  <2>1. To(h, "readOld") \in Handler
    <3>1. handler[h] \in Handler
      BY Known
    <3> QED BY <3>1 DEF To, Handler, HPcs
  <2> QED BY <2>1, Changes
<1>3. Fits(r, keysOf, route)
  <2>1. handler[h] \in Handler /\ Fits(handler[h], keysOf, route)
    BY Known, Fitting
  <2> QED BY <1>1, <2>1 DEF To, Handler, Fits, Assigning, Moving, PickKey
<1>4. Live(r, Started)
  <2>1. handler[h] \in Handler /\ Live(handler[h], Started) /\ MapsLive(Started)
    BY Known, Fitting
  <2> QED BY <1>1, <2>1 DEF To, Handler, Live, HasNew, HasOld, HasUid, Moves, MapsLive, PickKey, Candidates
<1> QED BY <1>1, <1>2, <1>3, <1>4, SoleRead

LEMMA PickDoneSole ==
    ASSUME OneHandler, RouteInv, SoleInv, NEW h \in Handlers, PickDone(h)
    PROVE  SoleInv'
<1> DEFINE r == To(h, "prune")
<1>1. handler[h].pc = "pick" /\ HRead(h, "pick", r)
  BY DEF PickDone, HRead, HStep
<1>2. r \in Handler
  <2>1. handler[h] \in Handler
    BY Known
  <2> QED BY <2>1 DEF To, Handler, HPcs
<1>3. Fits(r, keysOf, route)
  <2>1. handler[h] \in Handler /\ Fits(handler[h], keysOf, route)
    BY Known, Fitting
  <2> QED BY <1>1, <2>1 DEF To, Handler, Fits, Assigning, Moving
<1>4. Live(r, Started)
  <2>1. handler[h] \in Handler /\ Live(handler[h], Started) /\ MapsLive(Started)
    BY Known, Fitting
  <2> QED BY <1>1, <2>1 DEF To, Handler, Live, HasNew, HasOld, HasUid, Moves, MapsLive
<1> QED BY <1>1, <1>2, <1>3, <1>4, SoleRead

LEMMA ReadOldSole ==
    ASSUME OneHandler, RouteInv, SoleInv, NEW h \in Handlers, ReadOld(h)
    PROVE  SoleInv'
<1> DEFINE r == [To(h, "readNew") EXCEPT !.mine = keysOf[handler[h].old]]
<1>1. handler[h].pc = "readOld" /\ HRead(h, "readOld", r)
  BY DEF ReadOld, HRead, HStep
<1>2. r \in Handler
  <2>1. To(h, "readNew") \in Handler
    <3>1. handler[h] \in Handler
      BY Known
    <3> QED BY <3>1 DEF To, Handler, HPcs
  <2>2. handler[h].old \in Agents
    BY <1>1, Known DEF Named, HasOld, Moves
  <2> QED BY <2>1, <2>2, Known, Changes
<1>3. Fits(r, keysOf, route)
  <2>1. handler[h] \in Handler /\ Fits(handler[h], keysOf, route)
    BY Known, Fitting
  <2> QED BY <1>1, <2>1 DEF To, Handler, Fits, Assigning, Moving
<1>4. Live(r, Started)
  <2>1. handler[h] \in Handler /\ Live(handler[h], Started) /\ MapsLive(Started)
    BY Known, Fitting
  <2> QED BY <1>1, <2>1 DEF To, Handler, Live, HasNew, HasOld, HasUid, Moves, MapsLive
<1> QED BY <1>1, <1>2, <1>3, <1>4, SoleRead

LEMMA ReadNewSole ==
    ASSUME OneHandler, RouteInv, SoleInv, NEW h \in Handlers, ReadNew(h)
    PROVE  SoleInv'
<1> DEFINE r == [To(h, "writeOld") EXCEPT !.theirs = keysOf[handler[h].new]]
<1>1. handler[h].pc = "readNew" /\ HRead(h, "readNew", r)
  BY DEF ReadNew, HRead, HStep
<1>2. r \in Handler
  <2>1. To(h, "writeOld") \in Handler
    <3>1. handler[h] \in Handler
      BY Known
    <3> QED BY <3>1 DEF To, Handler, HPcs
  <2>2. handler[h].new \in Agents
    BY <1>1, Known DEF Named, HasNew
  <2> QED BY <2>1, <2>2, Known, Changes
<1>3. Fits(r, keysOf, route)
  <2>1. handler[h] \in Handler /\ Fits(handler[h], keysOf, route)
    BY Known, Fitting
  <2> QED BY <1>1, <2>1 DEF To, Handler, Fits, Assigning, Moving
<1>4. Live(r, Started)
  <2>1. handler[h] \in Handler /\ Live(handler[h], Started) /\ MapsLive(Started)
    BY Known, Fitting
  <2> QED BY <1>1, <2>1 DEF To, Handler, Live, HasNew, HasOld, HasUid, Moves, MapsLive
<1> QED BY <1>1, <1>2, <1>3, <1>4, SoleRead

LEMMA ReadCountSole ==
    ASSUME OneHandler, RouteInv, SoleInv, NEW h \in Handlers, ReadCount(h)
    PROVE  SoleInv'
<1> DEFINE r == [To(h, "dropCount")
                EXCEPT !.cnt = pending[handler[h].old][handler[h].moved]]
<1>1. handler[h].pc = "readCount" /\ HRead(h, "readCount", r)
  BY DEF ReadCount, HRead, HStep
<1>2. r \in Handler
  <2>1. To(h, "dropCount") \in Handler
    <3>1. handler[h] \in Handler
      BY Known
    <3> QED BY <3>1 DEF To, Handler, HPcs
  <2>2. handler[h].old \in Agents
    BY <1>1, Known DEF Named, HasOld, Moves
  <2>3. pending[handler[h].old][handler[h].moved] \in Counts
    BY <2>2, Known DEF TypeOK
  <2> QED BY <2>1, <2>3, Changes
<1>3. /\ r.pc = "dropCount" /\ r.key = handler[h].key /\ r.moved = handler[h].moved
      /\ r.new = handler[h].new /\ r.old = handler[h].old /\ r.uid = handler[h].uid
      /\ r.todo = handler[h].todo /\ r.theirs = handler[h].theirs
  <2>1. handler[h] \in Handler
    BY Known
  <2> QED BY <2>1 DEF To, Handler
<1> HIDE DEF r
<1>4. Fits(r, keysOf, route)
  BY <1>1, <1>3, Fitting DEF Fits, Assigning, Moving
<1>5. Live(r, Started)
  BY <1>1, <1>3, Fitting DEF Live, HasNew, HasOld, HasUid, Moves
<1> QED BY <1>1, <1>2, <1>3, <1>4, <1>5, SoleRead

LEMMA PruneSole ==
    ASSUME OneHandler, RouteInv, SoleInv, NEW h \in Handlers, Prune(h)
    PROVE  SoleInv'
<1> DEFINE r == To(h, IF keysOf[handler[h].old] = {} THEN "drop" ELSE "count")
<1>1. handler[h].pc = "prune" /\ HRead(h, "prune", r)
  BY DEF Prune, HRead, HStep
<1>2. r \in Handler
  <2>1. handler[h] \in Handler
    BY Known
  <2> QED BY <2>1 DEF To, Handler, HPcs
<1>3. Fits(r, keysOf, route)
  <2>1. handler[h] \in Handler /\ Fits(handler[h], keysOf, route)
    BY Known, Fitting
  <2> QED BY <1>1, <2>1 DEF To, Handler, Fits, Assigning, Moving
<1>4. Live(r, Started)
  <2>1. handler[h] \in Handler /\ Live(handler[h], Started) /\ MapsLive(Started)
    BY Known, Fitting
  <2> QED BY <1>1, <2>1 DEF To, Handler, Live, HasNew, HasOld, HasUid, Moves, MapsLive
<1> QED BY <1>1, <1>2, <1>3, <1>4, SoleRead

\* The commands that write.
LEMMA SoleWrite ==
    ASSUME OneHandler, RouteInv, NEW h \in Handlers, NEW p, NEW r \in Handler,
           HStep(h, p, r), Fits(r, keysOf', route'), Live(r, Started), MapsLive(Started)'
    PROVE  SoleInv'
BY SoleStep DEF HStep

LEMMA KeysLive ==
    ASSUME RouteInv, MapsLive(Started), NEW a \in Started, NEW K, SetKeys(a, K),
           UNCHANGED <<route, agent>>
    PROVE  MapsLive(Started)'
<1>1. keysOf \in [Agents -> SUBSET Keys] /\ Started' = Started /\ Started \subseteq Agents
  BY DEF RouteInv, StoreInv, Started
<1>2. \A b \in Agents \ {a} : keysOf'[b] = keysOf[b]
  BY <1>1 DEF SetKeys
<1> QED BY <1>1, <1>2 DEF MapsLive, SetKeys

LEMMA RouteLive ==
    ASSUME RouteInv, MapsLive(Started), NEW k \in Keys, NEW a \in Started,
           route' = [route EXCEPT ![k] = a], UNCHANGED <<registered, keysOf, agent>>
    PROVE  MapsLive(Started)'
<1>1. route \in [Keys -> Agents \cup {NoAgent}] /\ Started' = Started
  BY DEF RouteInv, StoreInv, Started
<1> QED BY <1>1 DEF MapsLive

LEMMA SameLive ==
    ASSUME MapsLive(Started), UNCHANGED <<route, registered, keysOf, agent>>
    PROVE  MapsLive(Started)'
BY DEF MapsLive, Started

LEMMA AssignSole ==
    ASSUME OneHandler, RouteInv, SoleInv, NEW h \in Handlers, Assign(h)
    PROVE  SoleInv'
<1> DEFINE r == To(h, "read")
<1>1. handler[h].pc = "assign" /\ HStep(h, "assign", r)
  BY DEF Assign, HStep
<1>2. r \in Handler
  <2>1. handler[h] \in Handler
    BY Known
  <2> QED BY <2>1 DEF To, Handler, HPcs
<1>3. Fits(r, keysOf', route')
  <2> DEFINE k == handler[h].key
  <2>1. k \in Keys /\ handler[h].new \in Agents
    BY <1>1, Known DEF Named, HasNew
  <2>2. route[k] = NoAgent /\ \A l \in Keys : Settled(l, keysOf, route)
    BY <1>1, Fitting DEF Fits, Assigning, Moving
  <2>3. Owners(k, keysOf) = {}
    BY <2>1, <2>2 DEF Settled
  <2>4. route'[k] = handler[h].new /\ keysOf' = keysOf
        /\ \A l \in Keys \ {k} : route'[l] = route[l]
    BY <2>1 DEF Assign, RouteInv, StoreInv
  <2>5. \A l \in Keys \ {k} : Settled(l, keysOf, route')
    BY <2>2, <2>4 DEF Settled
  <2>6. r.pc = "read" /\ r.key = k /\ r.new = handler[h].new
    <3>1. handler[h] \in Handler
      BY Known
    <3> QED BY <3>1 DEF To, Handler, HPcs
  <2> HIDE DEF k, r
  <2> QED BY <2>3, <2>4, <2>5, <2>6 DEF Fits, Assigning, Moving
<1>4. Live(r, Started)
  <2>1. handler[h] \in Handler /\ Live(handler[h], Started)
    BY Known, Fitting
  <2> QED BY <1>1, <2>1 DEF To, Handler, Live, HasNew, HasOld, HasUid, Moves
<1>5. MapsLive(Started)'
  <2>1. handler[h].new \in Started /\ MapsLive(Started) /\ handler[h].key \in Keys
    BY <1>1, Known, Fitting DEF Live, HasNew
  <2> QED BY <2>1, RouteLive DEF Assign, HStep
<1> QED BY <1>1, <1>2, <1>3, <1>4, <1>5, SoleWrite

LEMMA AddKeySole ==
    ASSUME OneHandler, RouteInv, SoleInv, NEW h \in Handlers, AddKey(h)
    PROVE  SoleInv'
<1> DEFINE r == To(h, "reset")
<1>1. handler[h].pc = "add" /\ HStep(h, "add", r)
  BY DEF AddKey, HStep
<1>2. r \in Handler
  <2>1. handler[h] \in Handler
    BY Known
  <2> QED BY <2>1 DEF To, Handler, HPcs
<1>3. Fits(r, keysOf', route')
  <2> DEFINE k == handler[h].key
             a == handler[h].new
  <2>1. k \in Keys /\ a \in Agents /\ keysOf \in [Agents -> SUBSET Keys]
    BY <1>1, Known DEF Named, HasNew, TypeOK
  <2>2. /\ Owners(k, keysOf) = {} /\ route[k] = a /\ handler[h].mine = keysOf[a]
        /\ \A l \in Keys \ {k} : Settled(l, keysOf, route)
    BY <1>1, Fitting DEF Fits, Assigning, Moving
  <2>3. keysOf' = [keysOf EXCEPT ![a] = keysOf[a] \cup {k}] /\ route' = route
    BY <2>2 DEF AddKey, SetKeys
  <2>4. r.pc = "reset"
    <3>1. handler[h] \in Handler
      BY Known
    <3> QED BY <3>1 DEF To, Handler, HPcs
  <2> HIDE DEF k, a, r
  <2>5. /\ Owners(k, keysOf') = {a}
        /\ \A l \in Keys \ {k} : Owners(l, keysOf') = Owners(l, keysOf)
    BY <2>1, <2>2, <2>3 DEF Owners
  <2>6. \A l \in Keys : Settled(l, keysOf', route')
    BY <2>1, <2>2, <2>3, <2>5, RedisInboundAssumption DEF Settled
  <2> QED BY <2>4, <2>6 DEF Fits, Assigning, Moving
<1>4. Live(r, Started)
  <2>1. handler[h] \in Handler /\ Live(handler[h], Started)
    BY Known, Fitting
  <2> QED BY <1>1, <2>1 DEF To, Handler, Live, HasNew, HasOld, HasUid, Moves
<1>5. MapsLive(Started)'
  <2>1. handler[h].new \in Started /\ MapsLive(Started)
    BY <1>1, Fitting DEF Live, HasNew
  <2> QED BY <2>1, KeysLive DEF AddKey, HStep
<1> QED BY <1>1, <1>2, <1>3, <1>4, <1>5, SoleWrite

LEMMA ResetCountSole ==
    ASSUME OneHandler, RouteInv, SoleInv, NEW h \in Handlers, ResetCount(h)
    PROVE  SoleInv'
<1> DEFINE r == [To(h, "check") EXCEPT !.uid = handler[h].new]
<1>1. handler[h].pc = "reset" /\ HStep(h, "reset", r)
  BY DEF ResetCount, HStep
<1>2. r \in Handler
  <2>1. To(h, "check") \in Handler
    <3>1. handler[h] \in Handler
      BY Known
    <3> QED BY <3>1 DEF To, Handler, HPcs
  <2> QED BY <2>1, Known, Changes
<1>3. Fits(r, keysOf', route')
  <2>1. UNCHANGED <<keysOf, route>>
    BY DEF ResetCount
  <2>2. Fits(r, keysOf, route)
    <3>1. handler[h] \in Handler /\ Fits(handler[h], keysOf, route)
      BY Known, Fitting
    <3> QED BY <1>1, <3>1 DEF To, Handler, Fits, Assigning, Moving, IdleHandler
  <2> QED BY <2>1, <2>2
<1>4. Live(r, Started)
  <2>1. handler[h] \in Handler /\ Live(handler[h], Started) /\ MapsLive(Started)
    BY Known, Fitting
  <2> QED BY <1>1, <2>1 DEF To, Handler, Live, HasNew, HasOld, HasUid, Moves, IdleHandler
<1>5. MapsLive(Started)'
  BY Fitting, SameLive DEF ResetCount, HStep
<1> QED BY <1>1, <1>2, <1>3, <1>4, <1>5, SoleWrite

LEMMA WriteOldSole ==
    ASSUME OneHandler, RouteInv, SoleInv, NEW h \in Handlers, WriteOld(h)
    PROVE  SoleInv'
<1> DEFINE r == To(h, "readCount")
<1>1. handler[h].pc = "writeOld" /\ HStep(h, "writeOld", r)
  BY DEF WriteOld, HStep
<1>2. r \in Handler
  <2>1. handler[h] \in Handler
    BY Known
  <2> QED BY <2>1 DEF To, Handler, HPcs
<1>3. Fits(r, keysOf', route')
  <2> DEFINE k == handler[h].moved
             a == handler[h].old
             b == handler[h].new
  <2>1. /\ k \in Keys /\ a \in Agents /\ b \in Agents
        /\ keysOf \in [Agents -> SUBSET Keys]
    BY <1>1, Known DEF Named, HasOld, HasNew, Moves, TypeOK
  <2>2. /\ \A l \in Keys : Settled(l, keysOf, route)
        /\ k \in handler[h].todo /\ handler[h].todo \subseteq keysOf[a]
        /\ handler[h].mine = keysOf[a] /\ handler[h].theirs = keysOf[b]
    BY <1>1, Fitting DEF Fits, Assigning, Moving
  <2>3. keysOf' = [keysOf EXCEPT ![a] = keysOf[a] \ {k}] /\ route' = route
    BY <2>2 DEF WriteOld, SetKeys
  <2>4. /\ r.pc = "readCount" /\ r.moved = k /\ r.old = a /\ r.new = b
        /\ r.todo = handler[h].todo /\ r.theirs = handler[h].theirs
    <3>1. handler[h] \in Handler
      BY Known
    <3> QED BY <3>1 DEF To, Handler, HPcs
  <2> HIDE DEF k, a, b, r
  <2>5. Owners(k, keysOf) = {a} /\ route[k] # NoAgent
    <3>1. a \in Owners(k, keysOf)
      BY <2>1, <2>2 DEF Owners
    <3> QED BY <2>1, <2>2, <3>1 DEF Settled
  <2>6. /\ Owners(k, keysOf') = {}
        /\ \A l \in Keys \ {k} : Owners(l, keysOf') = Owners(l, keysOf)
    BY <2>1, <2>3, <2>5 DEF Owners
  <2>7. \A l \in Keys \ {k} : Settled(l, keysOf', route')
    BY <2>2, <2>3, <2>6 DEF Settled
  <2>8. keysOf'[b] = keysOf[b] \ {k} /\ keysOf'[a] = keysOf[a] \ {k}
    <3>1. b # a => k \notin keysOf[b]
      BY <2>1, <2>5 DEF Owners
    <3> QED BY <2>1, <2>3, <3>1
  <2> QED BY <2>2, <2>3, <2>4, <2>5, <2>6, <2>7, <2>8 DEF Fits, Assigning, Moving
<1>4. Live(r, Started)
  <2>1. handler[h] \in Handler /\ Live(handler[h], Started)
    BY Known, Fitting
  <2> QED BY <1>1, <2>1 DEF To, Handler, Live, HasNew, HasOld, HasUid, Moves
<1>5. MapsLive(Started)'
  <2>1. handler[h].old \in Started /\ MapsLive(Started)
    BY <1>1, Fitting DEF Live, HasOld, Moves
  <2> QED BY <2>1, KeysLive DEF WriteOld, HStep
<1> QED BY <1>1, <1>2, <1>3, <1>4, <1>5, SoleWrite

LEMMA DropCountSole ==
    ASSUME OneHandler, RouteInv, SoleInv, NEW h \in Handlers, DropCount(h)
    PROVE  SoleInv'
<1> DEFINE r == To(h, "reroute")
<1>1. handler[h].pc = "dropCount" /\ HStep(h, "dropCount", r)
  BY DEF DropCount, HStep
<1>2. r \in Handler
  <2>1. handler[h] \in Handler
    BY Known
  <2> QED BY <2>1 DEF To, Handler, HPcs
<1>3. Fits(r, keysOf', route')
  <2>1. UNCHANGED <<keysOf, route>>
    BY DEF DropCount
  <2>2. /\ r.pc = "reroute" /\ r.moved = handler[h].moved /\ r.old = handler[h].old
        /\ r.new = handler[h].new /\ r.todo = handler[h].todo
        /\ r.theirs = handler[h].theirs
    <3>1. handler[h] \in Handler
      BY Known
    <3> QED BY <3>1 DEF To, Handler, HPcs
  <2> HIDE DEF r
  <2>3. Fits(r, keysOf, route)
    BY <1>1, <2>2, Fitting DEF Fits, Assigning, Moving
  <2> QED BY <2>1, <2>3
<1>4. Live(r, Started)
  <2>1. handler[h] \in Handler /\ Live(handler[h], Started) /\ MapsLive(Started)
    BY Known, Fitting
  <2> QED BY <1>1, <2>1 DEF To, Handler, Live, HasNew, HasOld, HasUid, Moves, IdleHandler
<1>5. MapsLive(Started)'
  BY Fitting, SameLive DEF DropCount, HStep
<1> QED BY <1>1, <1>2, <1>3, <1>4, <1>5, SoleWrite

LEMMA RerouteSole ==
    ASSUME OneHandler, RouteInv, SoleInv, NEW h \in Handlers, Reroute(h)
    PROVE  SoleInv'
<1> DEFINE r == To(h, "writeNew")
<1>1. handler[h].pc = "reroute" /\ HStep(h, "reroute", r)
  BY DEF Reroute, HStep
<1>2. r \in Handler
  <2>1. handler[h] \in Handler
    BY Known
  <2> QED BY <2>1 DEF To, Handler, HPcs
<1>3. Fits(r, keysOf', route')
  <2> DEFINE k == handler[h].moved
             b == handler[h].new
  <2>1. k \in Keys /\ b \in Agents
    BY <1>1, Known DEF Named, HasNew
  <2>2. /\ \A l \in Keys \ {k} : Settled(l, keysOf, route)
        /\ Owners(k, keysOf) = {}
        /\ keysOf[b] = handler[h].theirs \ {k}
        /\ handler[h].todo \ {k} \subseteq keysOf[handler[h].old]
    BY <1>1, Fitting DEF Fits, Assigning, Moving
  <2>3. /\ route'[k] = b /\ keysOf' = keysOf
        /\ \A l \in Keys \ {k} : route'[l] = route[l]
    BY <2>1 DEF Reroute, RouteInv, StoreInv
  <2>4. /\ r.pc = "writeNew" /\ r.moved = k /\ r.old = handler[h].old /\ r.new = b
        /\ r.todo = handler[h].todo /\ r.theirs = handler[h].theirs
    <3>1. handler[h] \in Handler
      BY Known
    <3> QED BY <3>1 DEF To, Handler, HPcs
  <2> HIDE DEF k, b, r
  <2>5. \A l \in Keys \ {k} : Settled(l, keysOf', route')
    BY <2>2, <2>3 DEF Settled
  <2>6. b # NoAgent
    BY <2>1, RedisInboundAssumption
  <2> QED BY <2>2, <2>3, <2>4, <2>5, <2>6 DEF Fits, Assigning, Moving
<1>4. Live(r, Started)
  <2>1. handler[h] \in Handler /\ Live(handler[h], Started)
    BY Known, Fitting
  <2> QED BY <1>1, <2>1 DEF To, Handler, Live, HasNew, HasOld, HasUid, Moves
<1>5. MapsLive(Started)'
  <2>1. handler[h].new \in Started /\ MapsLive(Started) /\ handler[h].moved \in Keys
    BY <1>1, Known, Fitting DEF Live, HasNew
  <2> QED BY <2>1, RouteLive DEF Reroute, HStep
<1> QED BY <1>1, <1>2, <1>3, <1>4, <1>5, SoleWrite

LEMMA WriteNewSole ==
    ASSUME OneHandler, RouteInv, SoleInv, NEW h \in Handlers, WriteNew(h)
    PROVE  SoleInv'
<1> DEFINE r == To(h, "addCount")
<1>1. handler[h].pc = "writeNew" /\ HStep(h, "writeNew", r)
  BY DEF WriteNew, HStep
<1>2. r \in Handler
  <2>1. handler[h] \in Handler
    BY Known
  <2> QED BY <2>1 DEF To, Handler, HPcs
<1>3. Fits(r, keysOf', route')
  <2> DEFINE k == handler[h].moved
             a == handler[h].old
             b == handler[h].new
  <2>1. /\ k \in Keys /\ a \in Agents /\ b \in Agents
        /\ keysOf \in [Agents -> SUBSET Keys]
    BY <1>1, Known DEF Named, HasOld, HasNew, Moves, TypeOK
  <2>2. /\ \A l \in Keys \ {k} : Settled(l, keysOf, route)
        /\ Owners(k, keysOf) = {} /\ route[k] = b
        /\ keysOf[b] = handler[h].theirs \ {k}
        /\ handler[h].todo \ {k} \subseteq keysOf[a]
    BY <1>1, Fitting DEF Fits, Assigning, Moving
  <2>3. WithMoved(h) = keysOf[b] \cup {k}
    BY <2>2 DEF WithMoved
  <2>4. keysOf' = [keysOf EXCEPT ![b] = keysOf[b] \cup {k}] /\ route' = route
    BY <2>3 DEF WriteNew, SetKeys
  <2>5. /\ r.pc = "addCount" /\ r.moved = k /\ r.old = a /\ r.todo = handler[h].todo
    <3>1. handler[h] \in Handler
      BY Known
    <3> QED BY <3>1 DEF To, Handler, HPcs
  <2> HIDE DEF k, a, b, r
  <2>6. /\ Owners(k, keysOf') = {b}
        /\ \A l \in Keys \ {k} : Owners(l, keysOf') = Owners(l, keysOf)
    BY <2>1, <2>2, <2>4 DEF Owners
  <2>7. \A l \in Keys : Settled(l, keysOf', route')
    BY <2>1, <2>2, <2>4, <2>6, RedisInboundAssumption DEF Settled
  <2>8. keysOf[a] \subseteq keysOf'[a]
    BY <2>1, <2>4
  <2> QED BY <2>2, <2>5, <2>7, <2>8 DEF Fits, Assigning, Moving
<1>4. Live(r, Started)
  <2>1. handler[h] \in Handler /\ Live(handler[h], Started)
    BY Known, Fitting
  <2> QED BY <1>1, <2>1 DEF To, Handler, Live, HasNew, HasOld, HasUid, Moves
<1>5. MapsLive(Started)'
  <2>1. handler[h].new \in Started /\ MapsLive(Started)
    BY <1>1, Fitting DEF Live, HasNew
  <2> QED BY <2>1, KeysLive DEF WriteNew, HStep
<1> QED BY <1>1, <1>2, <1>3, <1>4, <1>5, SoleWrite

LEMMA AddCountSole ==
    ASSUME OneHandler, RouteInv, SoleInv, NEW h \in Handlers, AddCount(h)
    PROVE  SoleInv'
<1> DEFINE r == [To(h, "pick") EXCEPT
                !.todo = @ \ {handler[h].moved},
                !.uid = IF handler[h].moved = handler[h].key THEN handler[h].new ELSE @]
<1>1. handler[h].pc = "addCount" /\ HStep(h, "addCount", r)
  BY DEF AddCount, HStep
<1>2. r \in Handler
  <2> DEFINE K == handler[h].todo \ {handler[h].moved}
             a == IF handler[h].moved = handler[h].key THEN handler[h].new ELSE handler[h].uid
  <2>1. /\ To(h, "pick") \in Handler /\ To(h, "pick").todo = handler[h].todo
        /\ To(h, "pick").uid = handler[h].uid
    <3>1. handler[h] \in Handler
      BY Known
    <3> QED BY <3>1 DEF To, Handler, HPcs
  <2>2. K \in SUBSET Keys /\ a \in Agents \cup {NoAgent}
    BY Known DEF Knows
  <2>3. r = [To(h, "pick") EXCEPT !.todo = K, !.uid = a]
    BY <2>1
  <2> HIDE DEF K, a
  <2>4. [To(h, "pick") EXCEPT !.todo = K, !.uid = a] \in Handler
    BY <2>1, <2>2, Changes
  <2> QED BY <2>3, <2>4
<1>3. Fits(r, keysOf', route')
  <2>1. UNCHANGED <<keysOf, route>>
    BY DEF AddCount
  <2>2. Fits(r, keysOf, route)
    <3>1. handler[h] \in Handler /\ Fits(handler[h], keysOf, route)
      BY Known, Fitting
    <3> QED BY <1>1, <3>1 DEF To, Handler, Fits, Assigning, Moving, IdleHandler
  <2> QED BY <2>1, <2>2
<1>4. Live(r, Started)
  <2>1. handler[h] \in Handler /\ Live(handler[h], Started) /\ MapsLive(Started)
    BY Known, Fitting
  <2> QED BY <1>1, <2>1 DEF To, Handler, Live, HasNew, HasOld, HasUid, Moves, IdleHandler
<1>5. MapsLive(Started)'
  BY Fitting, SameLive DEF AddCount, HStep
<1> QED BY <1>1, <1>2, <1>3, <1>4, <1>5, SoleWrite

LEMMA DropSole ==
    ASSUME OneHandler, RouteInv, SoleInv, NEW h \in Handlers, Drop(h)
    PROVE  SoleInv'
<1> DEFINE r == To(h, "count")
<1>1. handler[h].pc = "drop" /\ HStep(h, "drop", r)
  BY DEF Drop, HStep
<1>2. r \in Handler
  <2>1. handler[h] \in Handler
    BY Known
  <2> QED BY <2>1 DEF To, Handler, HPcs
<1>3. Fits(r, keysOf', route')
  <2>1. handler[h].old \in Agents /\ keysOf \in [Agents -> SUBSET Keys]
    BY <1>1, Known DEF Named, HasOld, TypeOK
  <2>2. keysOf[handler[h].old] = {}
    BY <1>1, Fitting DEF Fits
  <2>3. keysOf' = keysOf /\ route' = route
    BY <2>1, <2>2 DEF Drop
  <2>4. Fits(r, keysOf, route)
    <3>1. handler[h] \in Handler /\ Fits(handler[h], keysOf, route)
      BY Known, Fitting
    <3> QED BY <1>1, <3>1 DEF To, Handler, Fits, Assigning, Moving
  <2> QED BY <2>3, <2>4
<1>4. Live(r, Started)
  <2>1. handler[h] \in Handler /\ Live(handler[h], Started)
    BY Known, Fitting
  <2> QED BY <1>1, <2>1 DEF To, Handler, Live, HasNew, HasOld, HasUid, Moves
<1>5. MapsLive(Started)'
  <2>1. /\ keysOf' = [keysOf EXCEPT ![handler[h].old] = {}] /\ registered' \subseteq registered
        /\ UNCHANGED <<route, agent>> /\ keysOf \in [Agents -> SUBSET Keys]
    BY Known DEF Drop, HStep, TypeOK
  <2>2. \A a \in Agents : keysOf[a] = {} => keysOf'[a] = {}
    BY <2>1
  <2>3. Started' = Started /\ MapsLive(Started)
    BY <2>1, Fitting DEF Started
  <2> QED BY <2>1, <2>2, <2>3 DEF MapsLive
<1> QED BY <1>1, <1>2, <1>3, <1>4, <1>5, SoleWrite

LEMMA CountSole ==
    ASSUME OneHandler, RouteInv, SoleInv, NEW h \in Handlers, Count(h)
    PROVE  SoleInv'
<1> DEFINE r == To(h, "push")
<1>1. handler[h].pc = "count" /\ HStep(h, "count", r)
  BY DEF Count, HStep
<1>2. r \in Handler
  <2>1. handler[h] \in Handler
    BY Known
  <2> QED BY <2>1 DEF To, Handler, HPcs
<1>3. Fits(r, keysOf', route')
  <2>1. UNCHANGED <<keysOf, route>>
    BY DEF Count
  <2>2. Fits(r, keysOf, route)
    <3>1. handler[h] \in Handler /\ Fits(handler[h], keysOf, route)
      BY Known, Fitting
    <3> QED BY <1>1, <3>1 DEF To, Handler, Fits, Assigning, Moving, IdleHandler
  <2> QED BY <2>1, <2>2
<1>4. Live(r, Started)
  <2>1. handler[h] \in Handler /\ Live(handler[h], Started) /\ MapsLive(Started)
    BY Known, Fitting
  <2> QED BY <1>1, <2>1 DEF To, Handler, Live, HasNew, HasOld, HasUid, Moves, IdleHandler
<1>5. MapsLive(Started)'
  BY Fitting, SameLive DEF Count, HStep
<1> QED BY <1>1, <1>2, <1>3, <1>4, <1>5, SoleWrite

LEMMA PushSole ==
    ASSUME OneHandler, RouteInv, SoleInv, NEW h \in Handlers, Push(h)
    PROVE  SoleInv'
<1> DEFINE r == IdleHandler
<1>1. handler[h].pc = "push" /\ HStep(h, "push", r)
  BY DEF Push, HStep
<1>2. r \in Handler
  BY IdleTypes
<1>3. Fits(r, keysOf', route')
  <2>1. UNCHANGED <<keysOf, route>>
    BY DEF Push
  <2>2. Fits(r, keysOf, route)
    <3>1. handler[h] \in Handler /\ Fits(handler[h], keysOf, route)
      BY Known, Fitting
    <3> QED BY <1>1, <3>1 DEF To, Handler, Fits, Assigning, Moving, IdleHandler
  <2> QED BY <2>1, <2>2
<1>4. Live(r, Started)
  <2>1. handler[h] \in Handler /\ Live(handler[h], Started) /\ MapsLive(Started)
    BY Known, Fitting
  <2> QED BY <1>1, <2>1 DEF To, Handler, Live, HasNew, HasOld, HasUid, Moves, IdleHandler
<1>5. MapsLive(Started)'
  BY Fitting, SameLive DEF Push, HStep
<1> QED BY <1>1, <1>2, <1>3, <1>4, <1>5, SoleWrite

LEMMA ReceiveSole ==
    ASSUME OneHandler, RouteInv, SoleInv, NEW h \in Handlers, NEW k \in Keys, Receive(h, k)
    PROVE  SoleInv'
<1> DEFINE r == [IdleHandler EXCEPT !.pc = "lookup", !.key = k]
<1>1. r \in Handler /\ r.pc = "lookup"
  BY IdleTypes DEF Handler, HPcs
<1>2. /\ handler' = [handler EXCEPT ![h] = r] /\ handler[h].pc = "idle"
      /\ UNCHANGED <<agent, route, registered, keysOf>>
  BY DEF Receive, redis
<1> HIDE DEF r
<1>3. Fits(r, keysOf, route) /\ Live(r, Started)
  BY <1>1, <1>2, Fitting DEF Fits, Live, Assigning, Moving, HasNew, HasOld, HasUid, Moves
<1>4. MapsLive(Started)'
  BY <1>2, Fitting, SameLive
<1> QED BY <1>1, <1>2, <1>3, <1>4, SoleStep

\* Instances start and serve: none goes back to where it had not started.
LEMMA LiveGrows ==
    ASSUME NEW S, NEW T, S \subseteq T
    PROVE  \A r : Live(r, S) => Live(r, T)
BY DEF Live

LEMMA SoleInstance ==
    ASSUME SoleInv, UNCHANGED <<handler, route, registered, keysOf>>,
           Started \subseteq Started'
    PROVE  SoleInv'
<1>1. MapsFit'
  BY LiveGrows DEF SoleInv, MapsFit
<1>2. MapsLive(Started)'
  BY DEF SoleInv, MapsLive
<1> QED BY <1>1, <1>2 DEF SoleInv

LEMMA StartedGrows ==
    ASSUME RouteInv, NEW a \in Agents, NEW r, r.pc # "off",
           agent' = [agent EXCEPT ![a] = r]
    PROVE  Started' = Started \cup {a}
BY DEF RouteInv, Started

LEMMA NextKeyOn == ASSUME NEW a, NEW B PROVE NextKey(a, B).pc # "off"
BY DEF NextKey, OffAgent

LEMMA StartSole ==
    ASSUME RouteInv, SoleInv, NEW a \in Agents, Start(a)
    PROVE  SoleInv'
<1>1. /\ agent[a].pc = "off" /\ agent' = [agent EXCEPT ![a] = NextKey(a, {})]
      /\ SetKeys(a, {}) /\ UNCHANGED <<handler, route>>
  BY DEF Start, AStep
<1>2. Started' = Started \cup {a} /\ a \notin Started
  BY <1>1, StartedGrows, NextKeyOn DEF Started
<1>3. keysOf' = keysOf
  BY <1>1, <1>2 DEF SetKeys, SoleInv, MapsLive, RouteInv, StoreInv
<1>4. MapsFit'
  BY <1>1, <1>2, <1>3, LiveGrows DEF SoleInv, MapsFit
<1>5. MapsLive(Started)'
  BY <1>1, <1>2, <1>3 DEF SoleInv, MapsLive, SetKeys
<1> QED BY <1>4, <1>5 DEF SoleInv

LEMMA ServeSole ==
    ASSUME RouteInv, SoleInv, NEW a \in Agents, Serve(a)
    PROVE  SoleInv'
<1>1. UNCHANGED <<handler, route, registered, keysOf>>
  BY DEF Serve, Poll, Pop, PopNothing, Touch, ReadPending, WritePending, Process,
         AStep, redis
<1>2. ASSUME Poll(a) \/ Process(a) \/ \E k \in Keys : PopNothing(a, k)
      PROVE  Started \subseteq Started'
  BY <1>2, StartedGrows, NextKeyOn DEF Poll, Process, PopNothing, AStep
<1>3. ASSUME NEW r \in Agent, r.pc # "off", agent' = [agent EXCEPT ![a] = r]
      PROVE  Started \subseteq Started'
  BY <1>3, StartedGrows
<1>4. ASSUME NEW k \in Keys, Pop(a, k) PROVE Started \subseteq Started'
  <2> DEFINE r == [agent[a] EXCEPT !.pc = "touch", !.key = k]
  <2>1. r \in Agent /\ r.pc # "off"
    BY AgentTypes DEF Agent, APcs
  <2> QED BY <1>3, <1>4, <2>1 DEF Pop, AStep
<1>5. ASSUME Touch(a) PROVE Started \subseteq Started'
  <2> DEFINE r == [agent[a] EXCEPT !.pc = "count"]
  <2>1. r \in Agent /\ r.pc # "off"
    BY AgentTypes DEF Agent, APcs
  <2> QED BY <1>3, <1>5, <2>1 DEF Touch, AStep
<1>6. ASSUME ReadPending(a) PROVE Started \subseteq Started'
  <2>1. PICK n \in Counts : n = pending[a][agent[a].key]
    BY AgentTypes DEF StoreInv
  <2> DEFINE r == [agent[a] EXCEPT !.pc = AfterCount(n), !.cnt = n]
  <2>2. r \in Agent /\ r.pc # "off"
    BY AgentTypes DEF Agent, APcs, AfterCount
  <2>3. agent' = [agent EXCEPT ![a] = r]
    BY <1>6, <2>1 DEF ReadPending, AStep
  <2> QED BY <1>3, <2>2, <2>3
<1>7. ASSUME WritePending(a) PROVE Started \subseteq Started'
  <2> DEFINE r == [agent[a] EXCEPT !.pc = "process"]
  <2>1. r \in Agent /\ r.pc # "off"
    BY AgentTypes DEF Agent, APcs
  <2> QED BY <1>3, <1>7, <2>1 DEF WritePending, AStep
<1>8. Started \subseteq Started'
  BY <1>2, <1>4, <1>5, <1>6, <1>7 DEF Serve
<1> QED BY <1>1, <1>8, SoleInstance

LEMMA AgeSole ==
    ASSUME SoleInv, NEW a \in Agents, Age(a)
    PROVE  SoleInv'
BY SoleInstance DEF Age, Started

LEMMA HandleSole ==
    ASSUME OneHandler, RouteInv, SoleInv, NEW h \in Handlers, Handle(h)
    PROVE  SoleInv'
<1>1. CASE \/ Lookup(h) \/ ReadKeys(h) \/ Check(h) \/ ListKeys(h) \/ ScanDone(h)
           \/ PickDone(h) \/ ReadOld(h) \/ ReadNew(h) \/ ReadCount(h) \/ Prune(h)
  BY <1>1, LookupSole, ReadKeysSole, CheckSole, ListKeysSole, ScanDoneSole,
     PickDoneSole, ReadOldSole, ReadNewSole, ReadCountSole, PruneSole
<1>2. CASE \/ Assign(h) \/ AddKey(h) \/ ResetCount(h) \/ WriteOld(h) \/ DropCount(h)
           \/ Reroute(h) \/ WriteNew(h) \/ AddCount(h) \/ Drop(h) \/ Count(h) \/ Push(h)
  BY <1>2, AssignSole, AddKeySole, ResetCountSole, WriteOldSole, DropCountSole,
     RerouteSole, WriteNewSole, AddCountSole, DropSole, CountSole, PushSole
<1>3. ASSUME NEW k \in Keys, NEW a \in Agents, PickKey(h, k, a)
      PROVE  SoleInv'
  BY <1>3, PickKeySole
<1>4. ASSUME NEW k \in Keys, Scan(h, k) PROVE SoleInv'
  BY <1>4, ScanSole
<1>5. ASSUME NEW a \in Agents, Choose(h, a) PROVE SoleInv'
  BY <1>5, ChooseSole
<1> QED BY <1>1, <1>2, <1>3, <1>4, <1>5 DEF Handle

LEMMA CalmSole ==
    ASSUME OneHandler
    PROVE  RouteInv /\ SoleInv /\ [CalmNext]_vars => SoleInv'
<1> SUFFICES ASSUME RouteInv, SoleInv, [CalmNext]_vars PROVE SoleInv'
  OBVIOUS
<1>1. ASSUME NEW h \in Handlers, Handle(h) \/ \E k \in Keys : Receive(h, k)
      PROVE  SoleInv'
  BY <1>1, HandleSole, ReceiveSole
<1>2. ASSUME NEW a \in Agents, Start(a) \/ Serve(a) \/ Age(a)
      PROVE  SoleInv'
  BY <1>2, StartSole, ServeSole, AgeSole
<1>3. CASE UNCHANGED vars
  BY <1>3, SoleInstance DEF vars, Started
<1> QED BY <1>1, <1>2, <1>3 DEF CalmNext

(***************************************************************************)
(* With one handler, the routes and the key lists are each other's inverse *)
(* whenever it is between two messages, however many keys it moved and     *)
(* whatever the instances do meanwhile: the four commands that move a key  *)
(* take it from one list and put it on the other's                         *)
(* (reassign_recip_key_to_uid).  It is stated of runs without faults: a    *)
(* handler that fails between two of them leaves the key on no list.       *)
(***************************************************************************)
THEOREM OneOwner ==
    ASSUME OneHandler
    PROVE  FairSpec => []RoutingConsistent
<1>1. RouteInv /\ SoleInv => RoutingConsistent
  <2> SUFFICES ASSUME SoleInv, Quiet, NEW k \in Keys
               PROVE  Settled(k, keysOf, route)
    BY DEF RoutingConsistent, Settled, Owners
  <2>1. PICK h \in Handlers : handler[h].pc = "idle" /\ Fits(handler[h], keysOf, route)
    BY DEF OneHandler, Quiet, SoleInv, MapsFit
  <2> QED BY <2>1 DEF Fits, Assigning, Moving
<1>2. Init => RouteInv /\ SoleInv
  BY InitRoute, InitSole
<1>3. RouteInv /\ SoleInv /\ [CalmNext]_vars => (RouteInv /\ SoleInv)'
  BY CalmSole, NextRoute DEF Next
<1> QED BY <1>1, <1>2, <1>3, PTL DEF FairSpec

-----------------------------------------------------------------------------
(***************************************************************************)
(* Direct responses of the relays (RedisDirectResponse), for any number of *)
(* relays and transactions.                                                *)
(***************************************************************************)
CONSTANTS Relays, Txns, Copies
VARIABLES txnMap, caller, relayOf, sent, requests, responses

DR == INSTANCE RedisDirectResponse WITH inbound <- requests

\* No copy of a message is one of the relay's own notes.
CopiesApart == "none" \notin Copies /\ "request" \notin Copies

Notes == {"none", "request"} \cup Copies
Nowhere(t, m) == \A r \in Relays : txnMap[r][t] # m

\* A copy moves from its caller to the inbound list, to the list of responses,
\* to one relay.
PlacedCopy(t, m) ==
    /\ m \notin sent[t] => <<t, m>> \notin requests /\ <<t, m>> \notin responses /\ Nowhere(t, m)
    /\ <<t, m>> \in requests => <<t, m>> \notin responses /\ Nowhere(t, m)
    /\ <<t, m>> \in responses => Nowhere(t, m)
    /\ \A q, r \in Relays : txnMap[q][t] = m /\ txnMap[r][t] = m => q = r
Placed(t) ==
    /\ \A m \in Copies : PlacedCopy(t, m)
    /\ caller[t] = "away" => sent[t] = {}
    /\ caller[t] = "answered" => txnMap[relayOf[t]][t] \in Copies
DirectInv ==
    /\ txnMap \in [Relays -> [Txns -> Notes]]
    /\ caller \in [Txns -> {"away", "pushing", "waiting", "answered", "error"}]
    /\ relayOf \in [Txns -> Relays]
    /\ sent \in [Txns -> SUBSET Copies]
    /\ \A t \in Txns : Placed(t)

LEMMA DirectInit == CopiesApart /\ DR!Init => DirectInv
BY DEF DR!Init, DirectInv, Placed, PlacedCopy, Nowhere, Notes, CopiesApart

\* A relay's note of a transaction changes no other.
Noted(q, t, v) == txnMap' = [txnMap EXCEPT ![q][t] = v]

LEMMA NoteTaken ==
    ASSUME DirectInv, NEW q \in Relays, NEW t \in Txns, NEW v \in Notes, Noted(q, t, v)
    PROVE  /\ txnMap' \in [Relays -> [Txns -> Notes]]
           /\ txnMap'[q][t] = v
           /\ \A r \in Relays, u \in Txns : r # q \/ u # t => txnMap'[r][u] = txnMap[r][u]
<1>1. txnMap \in [Relays -> [Txns -> Notes]]
  BY DEF DirectInv
<1>2. [txnMap[q] EXCEPT ![t] = v] \in [Txns -> Notes]
  BY <1>1
<1>3. txnMap' = [txnMap EXCEPT ![q] = [txnMap[q] EXCEPT ![t] = v]]
  BY <1>1 DEF Noted
<1> QED BY <1>1, <1>2, <1>3

\* A copy of which nothing changes is where it was.
LEMMA StaysCopy ==
    ASSUME NEW u \in Txns, NEW m \in Copies, PlacedCopy(u, m),
           \A r \in Relays : txnMap'[r][u] = m => txnMap[r][u] = m,
           m \in sent'[u] <=> m \in sent[u],
           <<u, m>> \in requests' => <<u, m>> \in requests,
           <<u, m>> \in responses' => <<u, m>> \in responses
    PROVE  PlacedCopy(u, m)'
BY DEF PlacedCopy, Nowhere

\* So is a transaction.
LEMMA StaysPlaced ==
    ASSUME DirectInv, NEW u \in Txns, \A r \in Relays : txnMap'[r][u] = txnMap[r][u],
           caller'[u] = caller[u], relayOf'[u] = relayOf[u], sent'[u] = sent[u],
           \A m \in Copies : <<u, m>> \in requests' => <<u, m>> \in requests,
           \A m \in Copies : <<u, m>> \in responses' => <<u, m>> \in responses
    PROVE  Placed(u)'
<1>1. \A m \in Copies : PlacedCopy(u, m)'
  BY StaysCopy DEF DirectInv, Placed
<1>2. relayOf[u] \in Relays
  BY DEF DirectInv
<1> QED BY <1>1, <1>2 DEF DirectInv, Placed

LEMMA DirectNote ==
    ASSUME CopiesApart, DirectInv, NEW t \in Txns, DR!MessageHandler(t)
    PROVE  DirectInv'
<1>1. /\ caller[t] = "away" /\ caller' = [caller EXCEPT ![t] = "pushing"]
      /\ Noted(relayOf[t], t, "request") /\ UNCHANGED <<relayOf, sent, requests, responses>>
  BY DEF DR!MessageHandler, Noted
<1>2. relayOf[t] \in Relays /\ "request" \in Notes /\ "request" \notin Copies
  BY DEF DirectInv, Notes, CopiesApart
<1>3. /\ txnMap' \in [Relays -> [Txns -> Notes]] /\ txnMap'[relayOf[t]][t] = "request"
      /\ \A r \in Relays, u \in Txns : r # relayOf[t] \/ u # t => txnMap'[r][u] = txnMap[r][u]
  BY <1>1, <1>2, NoteTaken
<1>4. /\ caller'[t] = "pushing" /\ \A u \in Txns : u # t => caller'[u] = caller[u]
      /\ caller' \in [Txns -> {"away", "pushing", "waiting", "answered", "error"}]
  BY <1>1 DEF DirectInv
<1>5. ASSUME NEW m \in Copies PROVE PlacedCopy(t, m)'
  <2>1. PlacedCopy(t, m)
    BY DEF DirectInv, Placed
  <2>2. \A r \in Relays : txnMap'[r][t] = m => txnMap[r][t] = m
    BY <1>2, <1>3
  <2> QED BY <1>1, <2>1, <2>2, StaysCopy
<1>6. Placed(t)'
  BY <1>4, <1>5 DEF Placed
<1>7. \A u \in Txns : u # t => Placed(u)'
  BY <1>1, <1>3, <1>4, StaysPlaced
<1> QED BY <1>1, <1>3, <1>4, <1>6, <1>7 DEF DirectInv

LEMMA DirectPush ==
    ASSUME DirectInv, NEW t \in Txns, NEW m \in Copies, DR!Push(t, m)
    PROVE  DirectInv'
<1>1. /\ caller[t] = "pushing" /\ m \notin sent[t] /\ sent' = [sent EXCEPT ![t] = sent[t] \cup {m}]
      /\ requests' = requests \cup {<<t, m>>} /\ UNCHANGED <<txnMap, caller, relayOf, responses>>
  BY DEF DR!Push
<1>2. /\ sent' \in [Txns -> SUBSET Copies] /\ sent'[t] = sent[t] \cup {m}
      /\ \A u \in Txns : u # t => sent'[u] = sent[u]
  BY <1>1 DEF DirectInv
<1>3. \A n \in Copies : PlacedCopy(t, n)
  BY DEF DirectInv, Placed
<1>4. PlacedCopy(t, m)'
  BY <1>1, <1>2, <1>3 DEF PlacedCopy, Nowhere
<1>5. ASSUME NEW n \in Copies, n # m PROVE PlacedCopy(t, n)'
  BY <1>1, <1>2, <1>3, <1>5, StaysCopy
<1>6. Placed(t)'
  BY <1>1, <1>4, <1>5 DEF DirectInv, Placed
<1>7. ASSUME NEW u \in Txns, u # t PROVE Placed(u)'
  BY <1>1, <1>2, <1>7, StaysPlaced
<1> QED BY <1>1, <1>2, <1>6, <1>7 DEF DirectInv

\* The caller goes on, the copies stay.
LEMMA DirectCaller ==
    ASSUME DirectInv, NEW t \in Txns, NEW c \in {"waiting", "answered", "error"},
           c = "answered" => txnMap[relayOf[t]][t] \in Copies,
           caller' = [caller EXCEPT ![t] = c],
           UNCHANGED <<txnMap, relayOf, sent, requests, responses>>
    PROVE  DirectInv'
<1>1. /\ caller' \in [Txns -> {"away", "pushing", "waiting", "answered", "error"}]
      /\ caller'[t] = c /\ \A u \in Txns : u # t => caller'[u] = caller[u]
  BY DEF DirectInv
<1>2. \A m \in Copies : PlacedCopy(t, m)'
  BY StaysCopy DEF DirectInv, Placed
<1>3. Placed(t)'
  BY <1>1, <1>2 DEF Placed
<1>4. \A u \in Txns : u # t => Placed(u)'
  BY <1>1, StaysPlaced
<1> QED BY <1>1, <1>3, <1>4 DEF DirectInv

\* A copy goes from the inbound list to the responses, or is lost.
LEMMA DirectRespond ==
    ASSUME DirectInv, NEW t \in Txns, NEW m \in Copies, DR!Respond(t, m) \/ DR!Lose(t, m)
    PROVE  DirectInv'
<1>1. /\ requests' = requests \ {<<t, m>>} /\ UNCHANGED <<txnMap, caller, relayOf, sent>>
      /\ \/ <<t, m>> \in requests /\ responses' = responses \cup {<<t, m>>}
         \/ responses' = responses \ {<<t, m>>}
  BY DEF DR!Respond, DR!Lose
<1>2. \A n \in Copies : PlacedCopy(t, n)
  BY DEF DirectInv, Placed
<1>3. PlacedCopy(t, m)'
  BY <1>1, <1>2 DEF PlacedCopy, Nowhere
<1>4. ASSUME NEW n \in Copies, n # m PROVE PlacedCopy(t, n)'
  BY <1>1, <1>2, <1>4, StaysCopy
<1>5. Placed(t)'
  BY <1>1, <1>3, <1>4 DEF DirectInv, Placed
<1>6. ASSUME NEW u \in Txns, u # t PROVE Placed(u)'
  BY <1>1, <1>6, StaysPlaced
<1> QED BY <1>1, <1>5, <1>6 DEF DirectInv

LEMMA DirectProcess ==
    ASSUME DirectInv, NEW t \in Txns, NEW m \in Copies, NEW r \in Relays,
           DR!ProcessDirectResponse(r, t, m)
    PROVE  DirectInv'
<1>1. /\ <<t, m>> \in responses /\ responses' = responses \ {<<t, m>>} /\ Noted(r, t, m)
      /\ UNCHANGED <<caller, relayOf, sent, requests>>
  BY DEF DR!ProcessDirectResponse, Noted
<1>2. m \in Notes
  BY DEF Notes
<1>3. /\ txnMap' \in [Relays -> [Txns -> Notes]] /\ txnMap'[r][t] = m
      /\ \A q \in Relays, u \in Txns : q # r \/ u # t => txnMap'[q][u] = txnMap[q][u]
  BY <1>1, <1>2, NoteTaken
<1>4. \A n \in Copies : PlacedCopy(t, n)
  BY DEF DirectInv, Placed
<1>5. Nowhere(t, m) /\ m \in sent[t] /\ <<t, m>> \notin requests
  BY <1>1, <1>4 DEF PlacedCopy
<1>6. \A q \in Relays : txnMap'[q][t] = m => q = r
  BY <1>3, <1>5 DEF Nowhere
<1>7. PlacedCopy(t, m)'
  BY <1>1, <1>5, <1>6 DEF PlacedCopy
<1>8. ASSUME NEW n \in Copies, n # m PROVE PlacedCopy(t, n)'
  <2>1. \A q \in Relays : txnMap'[q][t] = n => txnMap[q][t] = n
    BY <1>3, <1>8
  <2> QED BY <1>1, <1>4, <2>1, <1>8, StaysCopy
<1>9. caller[t] = "answered" => txnMap'[relayOf[t]][t] \in Copies
  BY <1>3 DEF DirectInv, Placed
<1>10. Placed(t)'
  BY <1>1, <1>7, <1>8, <1>9 DEF DirectInv, Placed
<1>11. ASSUME NEW u \in Txns, u # t PROVE Placed(u)'
  BY <1>1, <1>3, <1>11, StaysPlaced
<1> QED BY <1>1, <1>3, <1>10, <1>11 DEF DirectInv

LEMMA DirectNext == CopiesApart /\ DirectInv /\ [DR!Next]_(DR!vars) => DirectInv'
<1> SUFFICES ASSUME CopiesApart, DirectInv, [DR!Next]_(DR!vars)
             PROVE  DirectInv'
  OBVIOUS
<1>1. ASSUME NEW t \in Txns, DR!Pushed(t) \/ DR!GetDirectResponse(t)
      PROVE  DirectInv'
  <2>1. CASE DR!Pushed(t)
    BY <2>1, DirectCaller DEF DR!Pushed
  <2>2. CASE DR!GetDirectResponse(t)
    <3>1. CASE txnMap[relayOf[t]][t] \in Copies
      BY <2>2, <3>1, DirectCaller DEF DR!GetDirectResponse
    <3>2. CASE txnMap[relayOf[t]][t] \notin Copies
      BY <2>2, <3>2, DirectCaller DEF DR!GetDirectResponse
    <3> QED BY <3>1, <3>2
  <2> QED BY <1>1, <2>1, <2>2
<1>2. CASE UNCHANGED DR!vars
  BY <1>2 DEF DR!vars, DirectInv, Placed, PlacedCopy, Nowhere
<1> QED BY <1>1, <1>2, DirectNote, DirectPush, DirectRespond, DirectProcess DEF DR!Next

\* Each copy of a message that a relay pushed has one response, kept by one
\* relay, whichever popped it: what a caller is answered from is nowhere else.
THEOREM AnsweredByOne == ASSUME CopiesApart PROVE DR!Spec => []DR!AnsweredOnce
<1>1. ASSUME DirectInv PROVE DR!AnsweredOnce
  <2>1. ASSUME NEW t \in Txns, NEW r \in Relays, txnMap[r][t] \in Copies
        PROVE  LET m == txnMap[r][t]
               IN  /\ m \in sent[t] /\ <<t, m>> \notin requests \cup responses
                   /\ \A q \in Relays : txnMap[q][t] = m => q = r
    <3>1. PlacedCopy(t, txnMap[r][t])
      BY <1>1, <2>1 DEF DirectInv, Placed
    <3> QED BY <2>1, <3>1 DEF PlacedCopy, Nowhere
  <2>2. \A t \in Txns : caller[t] = "answered" => txnMap[relayOf[t]][t] \in Copies
    BY <1>1 DEF DirectInv, Placed
  <2> QED BY <2>1, <2>2 DEF DR!AnsweredOnce
<1>2. DR!Init => DirectInv
  BY DirectInit
<1>3. DirectInv /\ [DR!Next]_(DR!vars) => DirectInv'
  BY DirectNext
<1> QED BY <1>1, <1>2, <1>3, PTL DEF DR!Spec
=============================================================================
