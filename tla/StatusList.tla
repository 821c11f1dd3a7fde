----------------------------- MODULE StatusList -----------------------------
(***************************************************************************)
(* The allocation of status list entries by the status_list plugin.  A     *)
(* definition has a current list and a spare one, both kept as shards; an  *)
(* assignment draws the next index of the current list's permutation in    *)
(* one transaction and marks it in a shard in another, so the definition   *)
(* may have moved to the next list in between.                             *)
(*                                                                         *)
(* A transaction that locks what it reads is one step.  The status update  *)
(* runs in a plain session, where for_update locks nothing: reading and    *)
(* saving the shard are two steps.                                         *)
(*                                                                         *)
(* The Feistel permutation is any permutation here, drawn with the seed;   *)
(* module Feistel checks that it is one.  A status is a value; module      *)
(* StatusBits has the bits.                                                *)
(***************************************************************************)
EXTENDS Naturals, FiniteSets

CONSTANTS
    Defs,       \* status list definitions of one wallet
    Creds,      \* credentials
    NoCred,     \* an assignment that no credential is bound to
    Tasks,      \* concurrent requests
    Statuses,   \* values of a status entry
    Valid,      \* the status of a new entry
    ListSize,   \* entries of a list
    ShardSize,  \* entries of a shard
    Retries,    \* draws of one assignment: 10 in the code
    Updates,    \* statuses are updated at "any time", "alone", or "never"
    Deletes,    \* are definitions deleted?
    MaxLists    \* bound: lists of the wallet

ASSUME StatusListAssumption ==
    /\ {ListSize, ShardSize, Retries} \subseteq Nat \ {0}
    /\ MaxLists \in Nat
    /\ NoCred \notin Creds
    /\ Valid \in Statuses
    /\ Updates \in {"any time", "alone", "never"}
    /\ Deletes \in BOOLEAN

VARIABLES
    count,   \* StatusListReg: the lists numbered so far
    def,     \* StatusListDef
    shards,  \* StatusListShard
    creds,   \* StatusListCred
    task,    \* what each request is doing
    given    \* the entries that assignments were told of

vars == <<count, def, shards, creds, task, given>>

Indices == 0..(ListSize - 1)
ShardCount == (ListSize + ShardSize - 1) \div ShardSize
Slots == 0..(ShardSize - 1)
Permutation == {p \in [Indices -> Indices] : \A i, j \in Indices : p[i] = p[j] => i = j}

Definition == [list : Nat, next : Nat, lists : SUBSET Nat, index : Indices,
               seed : Permutation]
New     == [state |-> "new"]
Deleted == [state |-> "deleted"]
IsDef(d) == def[d] \notin {New, Deleted}

ShardId == Defs \X Nat \X Nat
Shard   == [assigned : SUBSET Slots, status : [Slots -> Statuses]]
FreshShard == [assigned |-> {}, status |-> [s \in Slots |-> Valid]]

ShardOf(d, l, i) == <<d, l, i \div ShardSize>>
SlotOf(i) == i % ShardSize

Idle == [pc |-> "idle"]

Init ==
    /\ count = 0
    /\ def = [d \in Defs |-> New]
    /\ shards = [s \in {} |-> FreshShard]
    /\ creds = {}
    /\ task = [t \in Tasks |-> Idle]
    /\ given = {}

Do(t, r) == task' = [task EXCEPT ![t] = r]

\* Bug: the last shard is not made.
WithoutLast(S, d, l) ==
    [s \in DOMAIN S \cup {<<d, l, n>> : n \in 1..(ShardCount - 1)} |->
        IF s \in DOMAIN S THEN S[s] ELSE FreshShard]

\* create_next_status_list
WithList(S, d, l) ==
    [s \in DOMAIN S \cup {<<d, l, n>> : n \in 0..(ShardCount - 1)} |->
        IF s \in DOMAIN S THEN S[s] ELSE FreshShard]

\* Bug: the registry is not saved.
SameNumbers(k) == count + k <= MaxLists /\ UNCHANGED count

\* assign_status_list_number, k times.
Number(k) == count + k <= MaxLists /\ count' = count + k

-----------------------------------------------------------------------------
(***************************************************************************)
(* Definitions.                                                            *)
(***************************************************************************)

\* A definition starts with its current list and a spare one.
CreateDef(d, p) ==
    /\ def[d] = New
    /\ Number(2)
    /\ def' = [def EXCEPT ![d] = [list |-> count, next |-> count + 1,
                                  lists |-> {count, count + 1},
                                  index |-> 0, seed |-> p]]
    /\ shards' = WithList(WithList(shards, d, count), d, count + 1)
    /\ UNCHANGED <<creds, task, given>>

DeleteDef(d) ==
    /\ Deletes
    /\ IsDef(d)
    /\ def' = [def EXCEPT ![d] = Deleted]
    /\ shards' = [s \in {r \in DOMAIN shards : r[1] # d} |-> shards[s]]
    /\ creds' = {c \in creds : c.def # d}
    /\ UNCHANGED <<count, task, given>>

-----------------------------------------------------------------------------
(***************************************************************************)
(* Assignments.                                                            *)
(***************************************************************************)
Assigning(pc, c, D, d, n) == [pc |-> pc, cred |-> c, todo |-> D, def |-> d, tries |-> n]

\* assign_status_entries binds the credential to an entry of each definition;
\* the route of an entry takes one, and binds nothing.
Start(t, c, D) ==
    /\ task[t] = Idle
    /\ Updates = "alone" => \A u \in Tasks : task[u].pc # "save"
    /\ D # {}
    /\ IF c = NoCred THEN \E d \in Defs : D = {d}
                     ELSE D = {d \in Defs : IsDef(d)}
    /\ \E d \in D : Do(t, Assigning("draw", c, D, d, 0))
    /\ UNCHANGED <<count, def, shards, creds, given>>

NextIndex(r) == r.index + 1

\* Bug: the list is left one index too late.
AdvancedLate(r, p) ==
    IF NextIndex(r) > ListSize
    THEN [r EXCEPT !.list = r.next, !.index = 0, !.seed = p]
    ELSE [r EXCEPT !.index = NextIndex(r)]

\* The definition after a draw: the last index of a list moves it on.
Advanced(r, p) ==
    IF NextIndex(r) >= ListSize
    THEN [r EXCEPT !.list = r.next, !.index = 0, !.seed = p]
    ELSE [r EXCEPT !.index = NextIndex(r)]

\* generate_random_index: a draw, and a new spare list when the old one is
\* current.
Draw(t, p) ==
    /\ task[t].pc = "draw"
    /\ LET d == task[t].def
           r == Advanced(def[d], p)
       IN  /\ IsDef(d)
           /\ IF r.list = r.next
              THEN /\ Number(1)
                   /\ def' = [def EXCEPT ![d] =
                                [r EXCEPT !.next = count, !.lists = @ \cup {count}]]
                   /\ shards' = WithList(shards, d, count)
              ELSE /\ def' = [def EXCEPT ![d] = r]
                   /\ UNCHANGED <<count, shards>>
           /\ Do(t, [pc |-> "look", cred |-> task[t].cred, todo |-> task[t].todo,
                     def |-> d, tries |-> task[t].tries,
                     index |-> def[d].seed[def[d].index]])
    /\ UNCHANGED <<creds, given>>

\* assign_random_entry reads the definition again, without a lock.
Look(t) ==
    /\ task[t].pc = "look"
    /\ LET r == task[t]
       IN  /\ IsDef(r.def)
           /\ Do(t, [pc |-> "mark", cred |-> r.cred, todo |-> r.todo, def |-> r.def,
                     tries |-> r.tries, index |-> r.index, list |-> def[r.def].list])
    /\ UNCHANGED <<count, def, shards, creds, given>>

\* The request is answered, or goes on with the next definition.
Continue(t, D) ==
    IF D = {} THEN Do(t, Idle)
    ELSE \E d \in D : Do(t, Assigning("draw", task[t].cred, D, d, 0))

Target(t) == ShardOf(task[t].def, task[t].list, task[t].index)
Slot(t)   == SlotOf(task[t].index)

\* Bug: the mask is not looked at.
NeverTaken(t) == FALSE
Taken(t) == Slot(t) \in shards[Target(t)].assigned

\* The entry is marked in the locked shard.
Mark(t) ==
    /\ task[t].pc = "mark"
    /\ Target(t) \in DOMAIN shards
    /\ ~Taken(t)
    /\ shards' = [shards EXCEPT ![Target(t)].assigned = @ \cup {Slot(t)}]
    /\ given' = given \cup {<<task[t].def, task[t].list, task[t].index>>}
    /\ IF task[t].cred = NoCred THEN Do(t, Idle)
       ELSE Do(t, [task[t] EXCEPT !.pc = "bind"])
    /\ UNCHANGED <<count, def, creds>>

\* It was assigned before: another draw, or an error after the last one.
Again(t) ==
    /\ task[t].pc = "mark"
    /\ Target(t) \in DOMAIN shards
    /\ Taken(t)
    /\ LET r == task[t]
       IN  Do(t, IF r.tries + 1 >= Retries THEN [pc |-> "exhausted"]
                 ELSE Assigning("draw", r.cred, r.todo, r.def, r.tries + 1))
    /\ UNCHANGED <<count, def, shards, creds, given>>

\* The credential's record of its entry.
Bind(t) ==
    /\ task[t].pc = "bind"
    /\ creds' = creds \cup {[def |-> task[t].def, cred |-> task[t].cred,
                             list |-> task[t].list, index |-> task[t].index]}
    /\ Continue(t, task[t].todo \ {task[t].def})
    /\ UNCHANGED <<count, def, shards, given>>

\* A record that is not found is an error, and the request ends.
NotFound(t) ==
    /\ \/ task[t].pc \in {"draw", "look"} /\ ~IsDef(task[t].def)
       \/ task[t].pc = "mark" /\ Target(t) \notin DOMAIN shards
       \/ task[t].pc = "save" /\ task[t].shard \notin DOMAIN shards
    /\ Do(t, Idle)
    /\ UNCHANGED <<count, def, shards, creds, given>>

-----------------------------------------------------------------------------
(***************************************************************************)
(* Status updates.                                                         *)
(***************************************************************************)
RecordsOf(d, c) == {r \in creds : r.def = d /\ r.cred = c}

\* update_status_list_entry: there must be one record of the credential.
ReadShard(t, d, c, v) ==
    /\ Updates # "never"
    /\ task[t] = Idle
    /\ Updates = "alone" => \A u \in Tasks : task[u] = Idle
    /\ IsDef(d)
    /\ \E r \in creds :
          /\ RecordsOf(d, c) = {r}
          /\ LET s == ShardOf(d, r.list, r.index)
             IN  Do(t, [pc |-> "save", shard |-> s, slot |-> SlotOf(r.index),
                        value |-> v, copy |-> shards[s]])
    /\ UNCHANGED <<count, def, shards, creds, given>>

\* The whole shard is written back.
SaveShard(t) ==
    /\ task[t].pc = "save"
    /\ task[t].shard \in DOMAIN shards
    /\ shards' = [shards EXCEPT ![task[t].shard] =
                    [task[t].copy EXCEPT !.status[task[t].slot] = task[t].value]]
    /\ Do(t, Idle)
    /\ UNCHANGED <<count, def, creds, given>>

-----------------------------------------------------------------------------
Next ==
    \/ \E d \in Defs : DeleteDef(d) \/ \E p \in Permutation : CreateDef(d, p)
    \/ \E t \in Tasks :
          \/ \E c \in Creds \cup {NoCred}, D \in SUBSET Defs : Start(t, c, D)
          \/ \E p \in Permutation : Draw(t, p)
          \/ Look(t) \/ Mark(t) \/ Again(t) \/ Bind(t) \/ NotFound(t)
          \/ \E d \in Defs, c \in Creds, v \in Statuses : ReadShard(t, d, c, v)
          \/ SaveShard(t)

Spec == Init /\ [][Next]_vars

-----------------------------------------------------------------------------
(***************************************************************************)
(* Properties.                                                             *)
(***************************************************************************)
Request ==
    {Idle, [pc |-> "exhausted"]}
    \cup [pc : {"draw"}, cred : Creds \cup {NoCred}, todo : SUBSET Defs, def : Defs,
          tries : Nat]
    \cup [pc : {"look"}, cred : Creds \cup {NoCred}, todo : SUBSET Defs, def : Defs,
          tries : Nat, index : Indices]
    \cup [pc : {"mark"}, cred : Creds \cup {NoCred}, todo : SUBSET Defs, def : Defs,
          tries : Nat, index : Indices, list : Nat]
    \cup [pc : {"bind"}, cred : Creds, todo : SUBSET Defs, def : Defs,
          tries : Nat, index : Indices, list : Nat]
    \cup [pc : {"save"}, shard : ShardId, slot : Slots, value : Statuses, copy : Shard]

\* Every variable has its type.
TypeOK ==
    /\ count \in Nat
    /\ def \in [Defs -> {New, Deleted} \cup Definition]
    /\ DOMAIN shards \subseteq ShardId
    /\ shards \in [DOMAIN shards -> Shard]
    /\ creds \subseteq [def : Defs, cred : Creds, list : Nat, index : Indices]
    /\ task \in [Tasks -> Request]
    /\ given \subseteq Defs \X Nat \X Indices

\* No entry is handed out twice: no two credentials share a status, although
\* an index drawn from one list may be marked in the next one.  (If no
\* update overlaps an assignment; see UpdatesOwnEntry.)
EntryGivenOnce ==
    [][\A t \in Tasks :
          Mark(t) => <<task[t].def, task[t].list, task[t].index>> \notin given]_vars

\* The list a definition draws from and its spare are there, shard by shard,
\* and they differ: an assignment that rolls over, or that another one has
\* overtaken, finds the shard it marks.
SpareReady ==
    /\ \A d \in Defs : IsDef(d) =>
          /\ def[d].list # def[d].next
          /\ \A l \in {def[d].list, def[d].next}, i \in Indices :
                ShardOf(d, l, i) \in DOMAIN shards
    /\ \A t \in Tasks : task[t].pc = "mark" /\ IsDef(task[t].def)
                            => Target(t) \in DOMAIN shards

\* Two definitions of a wallet never share a list number, which is all that
\* tells the addresses of their published lists apart, and the next number is
\* a new one.
ListsApart ==
    \A d \in Defs : IsDef(d) =>
        /\ \A l \in def[d].lists : l < count
        /\ \A e \in Defs \ {d} : IsDef(e) => def[d].lists \cap def[e].lists = {}

\* The lists of the definitions are there when they are needed and are apart.
ListsInOrder == SpareReady /\ ListsApart

\* An update changes the entry of its credential and no other.
Changed == {x \in (DOMAIN shards \cap DOMAIN shards') \X Slots :
                \/ shards'[x[1]].status[x[2]] # shards[x[1]].status[x[2]]
                \/ (x[2] \in shards'[x[1]].assigned) # (x[2] \in shards[x[1]].assigned)}
UpdatesOwnEntry ==
    [][\A t \in Tasks : SaveShard(t) => Changed \subseteq {<<task[t].shard, task[t].slot>>}]_vars
=============================================================================
