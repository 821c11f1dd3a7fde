--------------------------- MODULE StatusList_proofs ---------------------------
(***************************************************************************)
(* Theorems about the allocation of status list entries, for any number of *)
(* definitions, credentials and requests, any size of lists and shards.    *)
(***************************************************************************)
EXTENDS StatusList, TLAPS

-----------------------------------------------------------------------------
(***************************************************************************)
(* The inductive invariant.                                                *)
(***************************************************************************)
\* The record r of the definition d is in order when c lists are numbered and
\* S are the shards: the list it draws from and the spare one differ, and all
\* its lists have their shards.
MadeOk(d, r, c, S) ==
    /\ {r.list, r.next} \subseteq r.lists
    /\ r.list # r.next
    /\ \A l \in r.lists : l < c
    /\ \A l \in r.lists, n \in 0..(ShardCount - 1) : <<d, l, n>> \in DOMAIN S

\* The definition was made, and if it is still there, l is one of its lists.
InLists(r, l)  == r # New /\ (r # Deleted => l \in r.lists)
Named(l, r, c) == l < c /\ InLists(r, l)

ListsMade      == \A d \in Defs : IsDef(d) => MadeOk(d, def[d], count, shards)
Apart          == \A d, e \in Defs :
                     IsDef(d) /\ IsDef(e) /\ d # e => def[d].lists \cap def[e].lists = {}
ShardsNumbered == \A s \in DOMAIN shards : s[2] < count
TasksNamed     == \A t \in Tasks : task[t].pc \in {"mark", "bind"} =>
                     Named(task[t].list, def[task[t].def], count)
CredsNamed     == \A r \in creds : Named(r.list, def[r.def], count)

ListInv == ListsMade /\ Apart /\ ShardsNumbered /\ TasksNamed /\ CredsNamed

-----------------------------------------------------------------------------
(***************************************************************************)
(* Arithmetic of shards: every index of a list falls into one of its       *)
(* shards.                                                                 *)
(***************************************************************************)
LEMMA Sizes == /\ ListSize \in Nat \ {0} /\ ShardSize \in Nat \ {0}
               /\ Retries \in Nat \ {0} /\ MaxLists \in Nat
BY StatusListAssumption

LEMMA DivMod ==
    ASSUME NEW i \in Nat
    PROVE  /\ i \div ShardSize \in Nat
           /\ i % ShardSize \in 0..(ShardSize - 1)
           /\ i = ShardSize * (i \div ShardSize) + (i % ShardSize)
BY Sizes, SMT

LEMMA TimesNat == ASSUME NEW a \in Nat, NEW b \in Nat PROVE a * b \in Nat
BY Z3

LEMMA TimesMonotone ==
    ASSUME NEW a \in Nat, NEW b \in Nat, NEW c \in Nat, b >= c
    PROVE  a * b >= a * c
<1>1. PICK k \in Nat : b = c + k
  BY b - c \in Nat, b = c + (b - c), SMT
<1>2. a * b = a * c + a * k
  BY <1>1, SMT
<1>3. a * k \in Nat /\ a * c \in Nat
  BY TimesNat
<1> QED BY <1>2, <1>3, SMT

LEMMA ShardOfIndex ==
    ASSUME NEW i \in Indices
    PROVE  i \div ShardSize \in 0..(ShardCount - 1) /\ SlotOf(i) \in Slots
<1>1. PICK n \in Nat : n = ListSize + ShardSize - 1
  BY Sizes
<1>2. /\ ShardCount \in Nat /\ n % ShardSize \in 0..(ShardSize - 1)
      /\ n = ShardSize * ShardCount + (n % ShardSize)
  BY <1>1, DivMod DEF ShardCount
<1>3. /\ i \div ShardSize \in Nat /\ i % ShardSize \in 0..(ShardSize - 1)
      /\ i = ShardSize * (i \div ShardSize) + (i % ShardSize)
  BY Sizes, DivMod DEF Indices
<1>4. ~ (ShardSize * (i \div ShardSize) >= ShardSize * ShardCount)
  <2> DEFINE a == ShardSize * ShardCount
             b == ShardSize * (i \div ShardSize)
             x == n % ShardSize
             y == i % ShardSize
  <2>1. /\ a \in Nat /\ b \in Nat
        /\ x \in 0..(ShardSize - 1) /\ y \in 0..(ShardSize - 1)
        /\ n = a + x /\ i = b + y
    BY Sizes, <1>2, <1>3, TimesNat
  <2> HIDE DEF a, b, x, y
  <2>2. ~ (b >= a)
    BY Sizes, <1>1, <2>1, SMT DEF Indices
  <2> QED BY <2>2 DEF a, b
<1>5. ~ (i \div ShardSize >= ShardCount)
  BY Sizes, <1>2, <1>3, <1>4, TimesMonotone
<1> QED BY <1>2, <1>3, <1>5, SMT DEF SlotOf, Slots

LEMMA ShardMade ==
    ASSUME NEW d, NEW r, NEW c, NEW S, MadeOk(d, r, c, S),
           NEW l \in r.lists, NEW i \in Indices
    PROVE  ShardOf(d, l, i) \in DOMAIN S
BY ShardOfIndex DEF ShardOf, MadeOk

\* What a new list adds to the shards.
LEMMA WithListAdds ==
    ASSUME NEW S, NEW d \in Defs, NEW l \in Nat
    PROVE  LET W == WithList(S, d, l)
           IN  /\ DOMAIN W = DOMAIN S \cup {<<d, l, n>> : n \in 0..(ShardCount - 1)}
               /\ \A s \in DOMAIN S : W[s] = S[s]
               /\ \A s \in DOMAIN W : s \in DOMAIN S \/ s[2] = l
               /\ DOMAIN S \subseteq ShardId /\ S \in [DOMAIN S -> Shard] =>
                     DOMAIN W \subseteq ShardId /\ W \in [DOMAIN W -> Shard]
<1> DEFINE W == WithList(S, d, l)
<1>1. /\ DOMAIN W = DOMAIN S \cup {<<d, l, n>> : n \in 0..(ShardCount - 1)}
      /\ \A s \in DOMAIN W : W[s] = IF s \in DOMAIN S THEN S[s] ELSE FreshShard
  BY DEF WithList
<1>2. W = [s \in DOMAIN W |-> W[s]]
  BY DEF WithList
<1>3. FreshShard \in Shard
  BY StatusListAssumption DEF FreshShard, Shard
<1>4. \A n \in 0..(ShardCount - 1) : <<d, l, n>> \in ShardId /\ <<d, l, n>>[2] = l
  <2> 0..(ShardCount - 1) \subseteq Nat
    BY SMT
  <2> QED BY DEF ShardId
<1> HIDE DEF W
<1>5. DOMAIN S \subseteq ShardId /\ S \in [DOMAIN S -> Shard] =>
                     DOMAIN W \subseteq ShardId /\ W \in [DOMAIN W -> Shard]
  BY <1>1, <1>2, <1>3, <1>4
<1> QED BY <1>1, <1>4, <1>5 DEF W

-----------------------------------------------------------------------------
(***************************************************************************)
(* Types.                                                                  *)
(***************************************************************************)
Idles == {Idle, [pc |-> "exhausted"]}

\* A request by what it is doing.
LEMMA RequestKinds ==
    ASSUME NEW x \in Request
    PROVE  /\ x.pc \in {"idle", "exhausted"} => x \in Idles
           /\ x.pc \in {"draw", "look", "mark", "bind"} =>
                 /\ x.cred \in Creds \cup {NoCred} /\ x.todo \subseteq Defs
                 /\ x.def \in Defs /\ x.tries \in Nat
           /\ x.pc \in {"look", "mark", "bind"} => x.index \in Indices
           /\ x.pc \in {"mark", "bind"} => x.list \in Nat
           /\ x.pc = "bind" => x.cred \in Creds
           /\ x.pc = "save" =>
                 /\ x.shard \in ShardId /\ x.slot \in Slots
                 /\ x.value \in Statuses /\ x.copy \in Shard
           /\ x.pc \in {"idle", "exhausted", "draw", "look", "mark", "bind", "save"}
BY DEF Request, Idle, Idles

LEMMA RequestMakes ==
    ASSUME NEW c \in Creds \cup {NoCred}, NEW D \in SUBSET Defs, NEW d \in Defs,
           NEW n \in Nat
    PROVE  /\ Assigning("draw", c, D, d, n) \in Request
           /\ \A i \in Indices :
                 [pc |-> "look", cred |-> c, todo |-> D, def |-> d, tries |-> n,
                  index |-> i] \in Request
           /\ \A i \in Indices, l \in Nat :
                 [pc |-> "mark", cred |-> c, todo |-> D, def |-> d, tries |-> n,
                  index |-> i, list |-> l] \in Request
BY DEF Request, Assigning

LEMMA IdleIsRequest == Idle \in Request /\ [pc |-> "exhausted"] \in Request
BY DEF Request

LEMMA DoTypes ==
    ASSUME task \in [Tasks -> Request], NEW t \in Tasks, NEW r \in Request, Do(t, r)
    PROVE  task' \in [Tasks -> Request] /\ task'[t] = r
           /\ \A u \in Tasks \ {t} : task'[u] = task[u]
BY DEF Do

LEMMA Defined ==
    ASSUME TypeOK, NEW d \in Defs
    PROVE  /\ IsDef(d) => def[d] \in Definition
           /\ def[d] \in Definition => IsDef(d) /\ def[d] # New /\ def[d] # Deleted
           /\ New # Deleted
BY DEF TypeOK, IsDef, New, Deleted, Definition

LEMMA DefinitionMade == \A r \in Definition : r # New /\ r # Deleted
BY DEF New, Deleted, Definition

\* The next index is one of the list's.
LEMMA AdvancedTypes ==
    ASSUME NEW r \in Definition, NEW p \in Permutation
    PROVE  LET q == Advanced(r, p)
           IN  /\ q \in Definition
               /\ q.next = r.next /\ q.lists = r.lists
               /\ q.list \in {r.list, r.next}
<1>1. r.list \in Nat /\ r.next \in Nat /\ r.index \in Nat /\ r.index < ListSize
  BY Sizes DEF Definition, Indices
<1>2. CASE NextIndex(r) >= ListSize
  <2>1. Advanced(r, p) = [r EXCEPT !.list = r.next, !.index = 0, !.seed = p]
    BY <1>2 DEF Advanced
  <2>2. 0 \in Indices
    BY Sizes DEF Indices
  <2> QED BY <1>1, <2>1, <2>2 DEF Definition
<1>3. CASE ~ (NextIndex(r) >= ListSize)
  <2>1. Advanced(r, p) = [r EXCEPT !.index = NextIndex(r)]
    BY <1>3 DEF Advanced
  <2>2. NextIndex(r) \in Indices
    BY <1>1, <1>3, Sizes DEF NextIndex, Indices
  <2> QED BY <1>1, <2>1, <2>2 DEF Definition
<1> QED BY <1>2, <1>3

-----------------------------------------------------------------------------
(***************************************************************************)
(* Every step keeps the types and the lists in order.                      *)
(***************************************************************************)
ListStep == TypeOK' /\ ListInv'

\* A step of one request that leaves the definitions alone.
LEMMA RequestStep ==
    ASSUME TypeOK, ListInv, UNCHANGED <<count, def>>, NEW t \in Tasks,
           NEW r \in Request, Do(t, r),
           r.pc \in {"mark", "bind"} => Named(r.list, def[r.def], count),
           DOMAIN shards' = DOMAIN shards, shards' \in [DOMAIN shards' -> Shard],
           creds' \subseteq [def : Defs, cred : Creds, list : Nat, index : Indices],
           \A c \in creds' : c \in creds \/ Named(c.list, def[c.def], count),
           given' \subseteq Defs \X Nat \X Indices
    PROVE  ListStep
<1>1. /\ task' \in [Tasks -> Request] /\ task'[t] = r
      /\ \A u \in Tasks \ {t} : task'[u] = task[u]
  BY DoTypes DEF TypeOK
<1>2. TypeOK'
  BY <1>1 DEF TypeOK
<1>3. ListsMade' /\ Apart'
  BY DEF ListInv, ListsMade, Apart, MadeOk, IsDef
<1>4. ShardsNumbered' /\ CredsNamed'
  BY DEF ListInv, ShardsNumbered, CredsNamed, Named, InLists
<1>5. TasksNamed'
  BY <1>1 DEF ListInv, TasksNamed, Named, InLists
<1> QED BY <1>2, <1>3, <1>4, <1>5 DEF ListStep, ListInv

\* The same, when only the request's own state changes.
LEMMA TaskStep ==
    ASSUME TypeOK, ListInv, UNCHANGED <<count, def, shards, creds, given>>,
           NEW t \in Tasks, NEW r \in Request, Do(t, r),
           r.pc \in {"mark", "bind"} => Named(r.list, def[r.def], count)
    PROVE  ListStep
BY RequestStep DEF TypeOK

LEMMA StartStep ==
    ASSUME TypeOK, ListInv, NEW t \in Tasks, NEW c \in Creds \cup {NoCred},
           NEW D \in SUBSET Defs, Start(t, c, D)
    PROVE  ListStep
<1>1. PICK d \in D : Do(t, Assigning("draw", c, D, d, 0))
  BY DEF Start
<1>2. Assigning("draw", c, D, d, 0) \in Request
  BY RequestMakes
<1>3. Assigning("draw", c, D, d, 0).pc = "draw"
  BY DEF Assigning
<1> QED BY <1>1, <1>2, <1>3, TaskStep DEF Start

LEMMA LookStep ==
    ASSUME TypeOK, ListInv, NEW t \in Tasks, Look(t)
    PROVE  ListStep
<1> DEFINE x == task[t]
           d == x.def
           r == [pc |-> "mark", cred |-> x.cred, todo |-> x.todo, def |-> d,
                 tries |-> x.tries, index |-> x.index, list |-> def[d].list]
<1>1. x \in Request /\ x.pc = "look" /\ IsDef(d) /\ Do(t, r)
      /\ UNCHANGED <<count, def, shards, creds, given>>
  BY DEF Look, TypeOK
<1>2. d \in Defs /\ def[d] \in Definition
  BY <1>1, RequestKinds, Defined
<1>3. def[d].list \in Nat
  BY <1>2 DEF Definition
<1>4. r \in Request
  BY <1>1, <1>3, RequestKinds, RequestMakes
<1>5. Named(def[d].list, def[d], count)
  BY <1>1, <1>2, Defined DEF ListInv, ListsMade, MadeOk, Named, InLists
<1>6. r.def = d /\ r.list = def[d].list
  OBVIOUS
<1> HIDE DEF r
<1> QED BY <1>1, <1>4, <1>5, <1>6, TaskStep

LEMMA MarkStep ==
    ASSUME TypeOK, ListInv, NEW t \in Tasks, Mark(t)
    PROVE  ListStep
<1> DEFINE x == task[t]
           e == <<x.def, x.list, x.index>>
           r == IF x.cred = NoCred THEN Idle ELSE [x EXCEPT !.pc = "bind"]
<1>1. /\ x \in Request /\ x.pc = "mark" /\ Target(t) \in DOMAIN shards /\ Do(t, r)
      /\ shards' = [shards EXCEPT ![Target(t)].assigned = @ \cup {Slot(t)}]
      /\ given' = given \cup {e} /\ UNCHANGED <<count, def, creds>>
  BY DEF Mark, TypeOK
<1>2. x.def \in Defs /\ x.index \in Indices /\ x.list \in Nat
  BY <1>1, RequestKinds
<1>3. r \in Request
  BY <1>1, IdleIsRequest DEF Request, Idle
<1>4. r.pc \in {"mark", "bind"} => r.list = x.list /\ r.def = x.def
  BY <1>1, <1>2 DEF Idle, Request
<1>5. Named(x.list, def[x.def], count)
  BY <1>1 DEF ListInv, TasksNamed
<1>6. DOMAIN shards' = DOMAIN shards /\ shards' \in [DOMAIN shards' -> Shard]
  <2>1. Slot(t) \in Slots
    BY <1>2, ShardOfIndex DEF Slot
  <2>2. shards[Target(t)] \in Shard
    BY <1>1 DEF TypeOK
  <2>3. [shards[Target(t)] EXCEPT !.assigned = @ \cup {Slot(t)}] \in Shard
    BY <2>1, <2>2 DEF Shard
  <2> QED BY <1>1, <2>3 DEF TypeOK
<1>7. given' \subseteq Defs \X Nat \X Indices
  BY <1>1, <1>2 DEF TypeOK
<1>8. creds' \subseteq [def : Defs, cred : Creds, list : Nat, index : Indices]
  BY <1>1 DEF TypeOK
<1> HIDE DEF r, e
<1> QED BY <1>1, <1>3, <1>4, <1>5, <1>6, <1>7, <1>8, RequestStep

LEMMA AgainStep ==
    ASSUME TypeOK, ListInv, NEW t \in Tasks, Again(t)
    PROVE  ListStep
<1> DEFINE x == task[t]
           r == IF x.tries + 1 >= Retries THEN [pc |-> "exhausted"]
                ELSE Assigning("draw", x.cred, x.todo, x.def, x.tries + 1)
<1>1. /\ x \in Request /\ x.pc = "mark" /\ Do(t, r)
      /\ UNCHANGED <<count, def, shards, creds, given>>
  BY DEF Again, TypeOK
<1>2. x.tries + 1 \in Nat
  BY <1>1, RequestKinds
<1>3. r \in Request
  BY <1>1, <1>2, RequestKinds, RequestMakes, IdleIsRequest
<1>4. r.pc \notin {"mark", "bind"}
  BY DEF Assigning
<1> HIDE DEF r
<1> QED BY <1>1, <1>3, <1>4, TaskStep

LEMMA BindStep ==
    ASSUME TypeOK, ListInv, NEW t \in Tasks, Bind(t)
    PROVE  ListStep
<1> DEFINE x == task[t]
           D == x.todo \ {x.def}
           c == [def |-> x.def, cred |-> x.cred, list |-> x.list, index |-> x.index]
<1>1. /\ x \in Request /\ x.pc = "bind" /\ Continue(t, D)
      /\ creds' = creds \cup {c} /\ UNCHANGED <<count, def, shards, given>>
  BY DEF Bind, TypeOK
<1>2. PICK r \in Request : Do(t, r) /\ r.pc \notin {"mark", "bind"}
  <2>1. CASE D = {}
    BY <1>1, <2>1, IdleIsRequest DEF Continue, Idle
  <2>2. CASE D # {}
    <3>1. PICK d \in D : Do(t, Assigning("draw", x.cred, D, d, 0))
      BY <1>1, <2>2 DEF Continue
    <3>2. Assigning("draw", x.cred, D, d, 0) \in Request
      BY <1>1, RequestKinds, RequestMakes
    <3> QED BY <3>1, <3>2 DEF Assigning
  <2> QED BY <2>1, <2>2
<1>3. c \in [def : Defs, cred : Creds, list : Nat, index : Indices]
  BY <1>1, RequestKinds
<1>4. Named(c.list, def[c.def], count)
  BY <1>1 DEF ListInv, TasksNamed
<1> HIDE DEF c
<1> QED BY <1>1, <1>2, <1>3, <1>4, RequestStep DEF TypeOK

LEMMA NotFoundStep ==
    ASSUME TypeOK, ListInv, NEW t \in Tasks, NotFound(t)
    PROVE  ListStep
BY TaskStep, IdleIsRequest DEF NotFound, Idle

\* The shard of a credential's entry is there while its definition is.
LEMMA ShardOfCred ==
    ASSUME TypeOK, ListInv, NEW r \in creds, IsDef(r.def)
    PROVE  ShardOf(r.def, r.list, r.index) \in DOMAIN shards
<1>1. r.def \in Defs /\ r.index \in Indices
  BY DEF TypeOK
<1>2. MadeOk(r.def, def[r.def], count, shards)
  BY <1>1 DEF ListInv, ListsMade
<1>3. r.list \in def[r.def].lists
  BY DEF ListInv, CredsNamed, Named, InLists, IsDef
<1> QED BY <1>1, <1>2, <1>3, ShardMade

LEMMA ReadShardStep ==
    ASSUME TypeOK, ListInv, NEW t \in Tasks, NEW d \in Defs, NEW c \in Creds,
           NEW v \in Statuses, ReadShard(t, d, c, v)
    PROVE  ListStep
<1>1. PICK r \in creds :
         /\ RecordsOf(d, c) = {r}
         /\ LET s == ShardOf(d, r.list, r.index)
            IN  Do(t, [pc |-> "save", shard |-> s, slot |-> SlotOf(r.index),
                       value |-> v, copy |-> shards[s]])
  BY DEF ReadShard
<1> DEFINE s == ShardOf(d, r.list, r.index)
           x == [pc |-> "save", shard |-> s, slot |-> SlotOf(r.index),
                 value |-> v, copy |-> shards[s]]
<1>2. r.def = d /\ r.index \in Indices
  <2>1. r \in RecordsOf(d, c)
    BY <1>1
  <2> QED BY <2>1 DEF RecordsOf, TypeOK
<1>3. s \in DOMAIN shards
  BY <1>2, ShardOfCred DEF ReadShard
<1>4. s \in ShardId /\ shards[s] \in Shard
  BY <1>3 DEF TypeOK
<1>5. SlotOf(r.index) \in Slots
  BY <1>2, ShardOfIndex
<1> HIDE DEF s
<1>6. x \in Request
  BY <1>4, <1>5 DEF Request
<1>7. x.pc = "save" /\ Do(t, x)
  BY <1>1 DEF s
<1> HIDE DEF x
<1> QED BY <1>6, <1>7, TaskStep DEF ReadShard

LEMMA SaveShardStep ==
    ASSUME TypeOK, ListInv, NEW t \in Tasks, SaveShard(t)
    PROVE  ListStep
<1> DEFINE x == task[t]
           r == [x.copy EXCEPT !.status[x.slot] = x.value]
<1>1. /\ x \in Request /\ x.pc = "save" /\ x.shard \in DOMAIN shards
      /\ shards' = [shards EXCEPT ![x.shard] = r]
      /\ Do(t, Idle) /\ UNCHANGED <<count, def, creds, given>>
  BY DEF SaveShard, TypeOK
<1>2. x.copy \in Shard /\ x.slot \in Slots /\ x.value \in Statuses
  BY <1>1, RequestKinds
<1>3. r \in Shard
  BY <1>2 DEF Shard
<1> HIDE DEF r
<1>4. DOMAIN shards' = DOMAIN shards /\ shards' \in [DOMAIN shards' -> Shard]
  BY <1>1, <1>3 DEF TypeOK
<1>5. Idle \in Request /\ Idle.pc = "idle"
  BY IdleIsRequest DEF Idle
<1> QED BY <1>1, <1>4, <1>5, RequestStep DEF TypeOK

\* A step that makes, moves on or deletes a definition.
LEMMA DefinitionStep ==
    ASSUME TypeOK, ListInv, NEW d \in Defs, NEW r \in Definition \cup {Deleted},
           def' = [def EXCEPT ![d] = r],
           count' \in Nat, count' >= count,
           def[d] = New \/ IsDef(d),
           IsDef(d) /\ r # Deleted => def[d].lists \subseteq r.lists,
           r # Deleted => /\ MadeOk(d, r, count', shards')
                          /\ \A l \in r.lists :
                                l >= count \/ (IsDef(d) /\ l \in def[d].lists),
           DOMAIN shards' \subseteq ShardId, shards' \in [DOMAIN shards' -> Shard],
           \A s \in DOMAIN shards : s \in DOMAIN shards' \/ (r = Deleted /\ s[1] = d),
           \A s \in DOMAIN shards' : s[2] < count',
           task' \in [Tasks -> Request],
           \A t \in Tasks : task'[t] = task[t] \/ task'[t].pc \notin {"mark", "bind"},
           creds' \subseteq creds, given' = given
    PROVE  ListStep
<1>1. count \in Nat /\ def \in [Defs -> {New, Deleted} \cup Definition]
  BY DEF TypeOK
<1>2. /\ def' \in [Defs -> {New, Deleted} \cup Definition] /\ def'[d] = r
      /\ \A e \in Defs \ {d} : def'[e] = def[e]
  BY <1>1
<1>3. TypeOK'
  BY <1>2 DEF TypeOK
<1>4. /\ r # New /\ (IsDef(d)' <=> r # Deleted)
      /\ \A e \in Defs \ {d} : IsDef(e)' <=> IsDef(e)
  BY <1>2, Defined, DefinitionMade DEF IsDef
<1>5. ASSUME NEW l \in Nat, NEW e \in Defs, Named(l, def[e], count), e # d \/ IsDef(d)
      PROVE  Named(l, def'[e], count')
  <2>1. l < count'
    <3>1. l < count BY <1>5 DEF Named
    <3> QED BY <3>1, <1>1
  <2>2. InLists(def'[e], l)
    BY <1>2, <1>4, <1>5 DEF Named, InLists, IsDef
  <2> QED BY <2>1, <2>2 DEF Named
<1>6. ListsMade'
  <2> SUFFICES ASSUME NEW e \in Defs, IsDef(e)'
               PROVE  MadeOk(e, def'[e], count', shards')
    BY DEF ListsMade
  <2>1. CASE e = d
    BY <2>1, <1>2, <1>4
  <2>2. CASE e # d
    <3>1. MadeOk(e, def[e], count, shards) /\ def'[e] = def[e]
      BY <2>2, <1>2, <1>4 DEF ListInv, ListsMade
    <3>2. \A l \in def[e].lists : l < count'
      <4>1. def[e].lists \subseteq Nat
        BY <2>2, <1>4, Defined DEF Definition
      <4> QED BY <3>1, <4>1, <1>1 DEF MadeOk
    <3>3. \A l \in def[e].lists, n \in 0..(ShardCount - 1) :
             <<e, l, n>> \in DOMAIN shards'
      <4>1. \A l, n : <<e, l, n>>[1] # d
        BY <2>2
      <4> QED BY <3>1, <4>1 DEF MadeOk
    <3> QED BY <3>1, <3>2, <3>3 DEF MadeOk
  <2> QED BY <2>1, <2>2
<1>7. Apart'
  <2>1. ASSUME NEW e \in Defs, e # d, IsDef(e)', r # Deleted
        PROVE  def[e].lists \cap r.lists = {}
    <3>1. IsDef(e) /\ \A l \in def[e].lists : l < count
      BY <2>1, <1>4 DEF ListInv, ListsMade, MadeOk
    <3>2. \A l \in def[e].lists : l \in Nat
      BY <3>1, Defined DEF Definition
    <3>3. IsDef(d) => def[e].lists \cap def[d].lists = {}
      BY <2>1, <3>1 DEF ListInv, Apart
    <3> QED BY <2>1, <3>1, <3>2, <3>3, <1>1
  <2>2. ASSUME NEW e \in Defs, NEW f \in Defs, e # f, e # d, f # d, IsDef(e)', IsDef(f)'
        PROVE  def[e].lists \cap def[f].lists = {}
    BY <2>2, <1>4 DEF ListInv, Apart
  <2> QED BY <2>1, <2>2, <1>2, <1>4 DEF Apart
<1>8. TasksNamed'
  <2> SUFFICES ASSUME NEW t \in Tasks, task'[t] = task[t], task[t].pc \in {"mark", "bind"}
               PROVE  Named(task[t].list, def'[task[t].def], count')
    BY DEF TasksNamed
  <2>1. Named(task[t].list, def[task[t].def], count)
    BY DEF ListInv, TasksNamed
  <2>2. task[t].def \in Defs /\ task[t].list \in Nat
    BY RequestKinds DEF TypeOK
  <2>3. task[t].def = d => IsDef(d)
    BY <2>1 DEF Named, InLists
  <2> QED BY <2>1, <2>2, <2>3, <1>5
<1>9. CredsNamed'
  <2> SUFFICES ASSUME NEW c \in creds
               PROVE  Named(c.list, def'[c.def], count')
    BY DEF CredsNamed
  <2>1. Named(c.list, def[c.def], count) /\ c.def \in Defs /\ c.list \in Nat
    BY DEF ListInv, CredsNamed, TypeOK
  <2>2. c.def = d => IsDef(d)
    BY <2>1 DEF Named, InLists
  <2> QED BY <2>1, <2>2, <1>5
<1> QED BY <1>3, <1>6, <1>7, <1>8, <1>9 DEF ListStep, ListInv, ShardsNumbered

LEMMA DeleteDefStep ==
    ASSUME TypeOK, ListInv, NEW d \in Defs, DeleteDef(d)
    PROVE  ListStep
<1>1. /\ DOMAIN shards' = {s \in DOMAIN shards : s[1] # d}
      /\ \A s \in DOMAIN shards' : shards'[s] = shards[s]
      /\ shards' = [s \in DOMAIN shards' |-> shards'[s]]
  BY DEF DeleteDef
<1>2. DOMAIN shards' \subseteq ShardId /\ shards' \in [DOMAIN shards' -> Shard]
  BY <1>1 DEF TypeOK
<1>3. count' \in Nat /\ count' >= count /\ task' \in [Tasks -> Request]
  BY DEF DeleteDef, TypeOK
<1>4. \A s \in DOMAIN shards' : s[2] < count'
  BY <1>1 DEF DeleteDef, ListInv, ShardsNumbered
<1> QED BY <1>1, <1>2, <1>3, <1>4, DefinitionStep DEF DeleteDef

LEMMA CreateDefStep ==
    ASSUME TypeOK, ListInv, NEW d \in Defs, NEW p \in Permutation, CreateDef(d, p)
    PROVE  ListStep
<1> DEFINE r == [list |-> count, next |-> count + 1, lists |-> {count, count + 1},
                 index |-> 0, seed |-> p]
           S == WithList(shards, d, count)
           T == WithList(S, d, count + 1)
<1>1. /\ count \in Nat /\ count' = count + 2 /\ def[d] = New
      /\ def' = [def EXCEPT ![d] = r] /\ shards' = T
      /\ UNCHANGED <<creds, task, given>>
  BY DEF CreateDef, Number, TypeOK
<1>2. r \in Definition
  <2>1. 0 \in Indices
    BY Sizes DEF Indices
  <2> QED BY <1>1, <2>1 DEF Definition
<1>3. /\ r.list = count /\ r.next = count + 1 /\ r.lists = {count, count + 1}
  OBVIOUS
<1>4. /\ DOMAIN S = DOMAIN shards \cup {<<d, count, n>> : n \in 0..(ShardCount - 1)}
      /\ \A s \in DOMAIN S : s \in DOMAIN shards \/ s[2] = count
      /\ DOMAIN S \subseteq ShardId /\ S \in [DOMAIN S -> Shard]
  BY <1>1, WithListAdds DEF TypeOK
<1> HIDE DEF S
<1>5. /\ DOMAIN T = DOMAIN S \cup {<<d, count + 1, n>> : n \in 0..(ShardCount - 1)}
      /\ \A s \in DOMAIN T : s \in DOMAIN S \/ s[2] = count + 1
      /\ DOMAIN T \subseteq ShardId /\ T \in [DOMAIN T -> Shard]
  <2>1. count + 1 \in Nat
    BY <1>1
  <2> HIDE DEF r
  <2> QED BY <2>1, <1>4, WithListAdds
<1> HIDE DEF T, r
<1>6. MadeOk(d, r, count', shards')
  BY <1>1, <1>3, <1>4, <1>5 DEF MadeOk
<1>7. \A s \in DOMAIN shards' : s[2] < count'
  <2>1. ASSUME NEW s \in DOMAIN T
        PROVE  s[2] < count + 2
    <3>1. CASE s \in DOMAIN shards
      <4>1. s[2] < count /\ s[2] \in Nat
        BY <3>1 DEF ListInv, ShardsNumbered, TypeOK, ShardId
      <4> QED BY <4>1, <1>1
    <3>2. CASE s[2] = count \/ s[2] = count + 1
      BY <3>2, <1>1
    <3> QED BY <3>1, <3>2, <1>4, <1>5
  <2> QED BY <2>1, <1>1
<1>8. /\ count' \in Nat /\ count' >= count /\ \A l \in r.lists : l >= count
      /\ ~ IsDef(d) /\ r # Deleted
  BY <1>1, <1>2, <1>3, DefinitionMade DEF IsDef
<1>9. task' \in [Tasks -> Request]
  BY <1>1 DEF TypeOK
<1> QED BY <1>1, <1>2, <1>4, <1>5, <1>6, <1>7, <1>8, <1>9, DefinitionStep

LEMMA DrawStep ==
    ASSUME TypeOK, ListInv, NEW t \in Tasks, NEW p \in Permutation, Draw(t, p)
    PROVE  ListStep
<1> DEFINE x == task[t]
           d == x.def
           r == Advanced(def[d], p)
           y == [pc |-> "look", cred |-> x.cred, todo |-> x.todo, def |-> d,
                 tries |-> x.tries, index |-> def[d].seed[def[d].index]]
<1>1. /\ x \in Request /\ x.pc = "draw" /\ IsDef(d) /\ Do(t, y)
      /\ UNCHANGED <<creds, given>> /\ count \in Nat
      /\ IF r.list = r.next
         THEN /\ Number(1)
              /\ def' = [def EXCEPT ![d] =
                           [r EXCEPT !.next = count, !.lists = @ \cup {count}]]
              /\ shards' = WithList(shards, d, count)
         ELSE /\ def' = [def EXCEPT ![d] = r]
              /\ UNCHANGED <<count, shards>>
  BY DEF Draw, TypeOK
<1>2. d \in Defs /\ def[d] \in Definition
  BY <1>1, RequestKinds, Defined
<1>3. def[d].seed[def[d].index] \in Indices
  BY <1>2 DEF Definition, Permutation
<1>4. y \in Request /\ y.pc = "look"
  BY <1>1, <1>2, <1>3, RequestKinds, RequestMakes
<1>5. /\ r \in Definition
      /\ r.next = def[d].next /\ r.lists = def[d].lists
      /\ r.list \in {def[d].list, def[d].next}
  BY <1>2, AdvancedTypes
<1>6. MadeOk(d, def[d], count, shards)
  BY <1>1, <1>2 DEF ListInv, ListsMade
<1> HIDE DEF r, y
<1>7. /\ task' \in [Tasks -> Request]
      /\ \A u \in Tasks : task'[u] = task[u] \/ task'[u].pc \notin {"mark", "bind"}
  BY <1>1, <1>4, DoTypes DEF TypeOK
<1>8. \A s \in DOMAIN shards : s[2] < count /\ s[2] \in Nat
  BY DEF ListInv, ShardsNumbered, TypeOK, ShardId
<1>9. CASE r.list # r.next
  <2>1. /\ UNCHANGED <<count, shards>> /\ def' = [def EXCEPT ![d] = r]
    BY <1>1, <1>9
  <2>2. MadeOk(d, r, count', shards')
    BY <2>1, <1>5, <1>6, <1>9 DEF MadeOk
  <2>3. count' \in Nat /\ count' >= count /\ r # Deleted
    BY <2>1, <1>1, <1>5, DefinitionMade
  <2>4. DOMAIN shards' \subseteq ShardId /\ shards' \in [DOMAIN shards' -> Shard]
    BY <2>1 DEF TypeOK
  <2> QED BY <1>1, <1>2, <1>5, <1>7, <1>8, <2>1, <2>2, <2>3, <2>4, DefinitionStep
<1>10. CASE r.list = r.next
  <2> DEFINE q == [r EXCEPT !.next = count, !.lists = @ \cup {count}]
             W == WithList(shards, d, count)
  <2>1. count' = count + 1 /\ def' = [def EXCEPT ![d] = q] /\ shards' = W
    BY <1>1, <1>10 DEF Number
  <2>2. q \in Definition
    BY <1>1, <1>5 DEF Definition
  <2>3. q.list = r.list /\ q.next = count /\ q.lists = r.lists \cup {count}
    BY <1>5 DEF Definition
  <2>4. /\ DOMAIN W = DOMAIN shards \cup {<<d, count, n>> : n \in 0..(ShardCount - 1)}
        /\ \A s \in DOMAIN W : s \in DOMAIN shards \/ s[2] = count
        /\ DOMAIN W \subseteq ShardId /\ W \in [DOMAIN W -> Shard]
    <3>1. count \in Nat /\ DOMAIN shards \subseteq ShardId
          /\ shards \in [DOMAIN shards -> Shard]
      BY <1>1 DEF TypeOK
    <3> HIDE DEF d, q
    <3> QED BY <3>1, <1>2, WithListAdds
  <2> HIDE DEF q, W
  <2>5. count' \in Nat /\ count' >= count /\ q # Deleted
    BY <2>1, <2>2, <1>1, DefinitionMade
  <2>6. \A l \in r.lists : l < count /\ l \in Nat
    BY <1>2, <1>5, <1>6 DEF MadeOk, Definition
  <2>7. q.list # q.next
    <3>1. r.list \in r.lists
      BY <1>5, <1>6 DEF MadeOk
    <3>2. q.list < q.next
      BY <2>3, <2>6, <3>1
    <3>3. q.list \in Nat /\ q.next \in Nat
      BY <2>3, <2>6, <3>1, <1>1 DEF TypeOK
    <3> QED BY <3>2, <3>3
  <2>8. MadeOk(d, q, count', shards')
    <3>1. \A l \in q.lists : l < count'
      BY <2>1, <2>3, <2>6, <1>1
    <3>2. {q.list, q.next} \subseteq q.lists
      BY <2>3, <1>5, <1>6 DEF MadeOk
    <3>3. \A l \in q.lists, n \in 0..(ShardCount - 1) : <<d, l, n>> \in DOMAIN W
      BY <2>3, <2>4, <1>5, <1>6 DEF MadeOk
    <3> QED BY <3>1, <3>2, <3>3, <2>1, <2>7 DEF MadeOk
  <2>9. \A s \in DOMAIN shards' : s[2] < count'
    BY <2>1, <2>4, <1>1, <1>8
  <2>10. \A l \in q.lists : l >= count \/ (IsDef(d) /\ l \in def[d].lists)
    BY <2>3, <1>1, <1>5
  <2>11. def[d].lists \subseteq q.lists
    BY <2>3, <1>5
  <2> QED BY <1>1, <1>2, <1>7, <2>1, <2>2, <2>4, <2>5, <2>8, <2>9, <2>10, <2>11,
             DefinitionStep
<1> QED BY <1>9, <1>10

LEMMA InitLists == Init => TypeOK /\ ListInv
<1> SUFFICES ASSUME Init
             PROVE  TypeOK /\ ListInv
  OBVIOUS
<1>1. DOMAIN shards = {}
  BY DEF Init
<1>2. \A d \in Defs : def[d] = New /\ ~ IsDef(d)
  BY DEF Init, IsDef
<1>3. TypeOK
  BY <1>1, IdleIsRequest DEF Init, TypeOK
<1>4. ListInv
  BY <1>1, <1>2 DEF Init, Idle, ListInv, ListsMade, Apart, ShardsNumbered, TasksNamed, CredsNamed
<1> QED BY <1>3, <1>4

LEMMA NextLists == TypeOK /\ ListInv /\ [Next]_vars => ListStep
<1> SUFFICES ASSUME TypeOK, ListInv, [Next]_vars
             PROVE  ListStep
  OBVIOUS
<1>1. ASSUME NEW t \in Tasks, NEW c \in Creds \cup {NoCred}, NEW D \in SUBSET Defs,
             Start(t, c, D)
      PROVE  ListStep
  BY <1>1, StartStep
<1>2. ASSUME NEW t \in Tasks,
             \/ \E p \in Permutation : Draw(t, p)
             \/ Look(t) \/ Mark(t) \/ Again(t) \/ Bind(t) \/ NotFound(t)
      PROVE  ListStep
  BY <1>2, DrawStep, LookStep, MarkStep, AgainStep, BindStep, NotFoundStep
<1>3. ASSUME NEW t \in Tasks,
             \/ \E d \in Defs, c \in Creds, v \in Statuses : ReadShard(t, d, c, v)
             \/ SaveShard(t)
      PROVE  ListStep
  BY <1>3, ReadShardStep, SaveShardStep
<1>4. ASSUME NEW d \in Defs, DeleteDef(d) \/ \E p \in Permutation : CreateDef(d, p)
      PROVE  ListStep
  BY <1>4, DeleteDefStep, CreateDefStep
<1>5. CASE UNCHANGED vars
  BY <1>5 DEF vars, ListStep, TypeOK, ListInv, ListsMade, Apart, ShardsNumbered,
              TasksNamed, CredsNamed, MadeOk, Named, InLists, IsDef
<1> QED BY <1>1, <1>2, <1>3, <1>4, <1>5 DEF Next

\* Every variable keeps its type, whatever updates overlap
\* (status_handler.py, feistel.py).
THEOREM TypeCorrect == Spec => []TypeOK
<1>1. Init => TypeOK /\ ListInv
  BY InitLists
<1>2. TypeOK /\ ListInv /\ [Next]_vars => (TypeOK /\ ListInv)'
  BY NextLists DEF ListStep
<1> QED BY <1>1, <1>2, PTL DEF Spec

\* The current and the spare list of a definition are there with all their
\* shards, no two definitions share a list, and a request that comes to mark
\* an entry finds its shard, although the definition has moved on since it
\* drew (status_handler.py, assign_random_entry).
THEOREM InOrder == Spec => []ListsInOrder
<1>1. TypeOK /\ ListInv => ListsInOrder
  <2> SUFFICES ASSUME TypeOK, ListInv
               PROVE  ListsInOrder
    OBVIOUS
  <2>1. ASSUME NEW d \in Defs, IsDef(d)
        PROVE  /\ def[d].list # def[d].next
               /\ \A l \in {def[d].list, def[d].next}, i \in Indices :
                     ShardOf(d, l, i) \in DOMAIN shards
    <3>1. MadeOk(d, def[d], count, shards)
      BY <2>1 DEF ListInv, ListsMade
    <3>2. {def[d].list, def[d].next} \subseteq def[d].lists /\ def[d].list # def[d].next
      BY <3>1 DEF MadeOk
    <3> QED BY <3>1, <3>2, ShardMade
  <2>2. ASSUME NEW t \in Tasks, task[t].pc = "mark", IsDef(task[t].def)
        PROVE  Target(t) \in DOMAIN shards
    <3>1. task[t].def \in Defs /\ task[t].index \in Indices
      BY <2>2, RequestKinds DEF TypeOK
    <3>2. task[t].list \in def[task[t].def].lists
      BY <2>2 DEF ListInv, TasksNamed, Named, InLists, IsDef
    <3>3. MadeOk(task[t].def, def[task[t].def], count, shards)
      BY <2>2, <3>1 DEF ListInv, ListsMade
    <3> QED BY <3>1, <3>2, <3>3, ShardMade DEF Target
  <2>3. ListsApart
    BY DEF ListInv, ListsMade, MadeOk, Apart, ListsApart
  <2> QED BY <2>1, <2>2, <2>3 DEF ListsInOrder, SpareReady
<1>2. Init => TypeOK /\ ListInv
  BY InitLists
<1>3. TypeOK /\ ListInv /\ [Next]_vars => (TypeOK /\ ListInv)'
  BY NextLists DEF ListStep
<1> QED BY <1>1, <1>2, <1>3, PTL DEF Spec

-----------------------------------------------------------------------------
(***************************************************************************)
(* Entries are given once, as long as no update overlaps an assignment.    *)
(***************************************************************************)
\* An entry that was given is marked in its shard, while that exists.
Marked(g, S) ==
    LET s == ShardOf(g[1], g[2], g[3])
    IN  s \in DOMAIN S => SlotOf(g[3]) \in S[s].assigned
GivenMarked == \A g \in given : g[2] < count /\ Marked(g, shards)

\* An update holds a copy of its shard that is still what the shard is.
CopyOk(x, c, S) == x.shard[2] < c /\ (x.shard \in DOMAIN S => x.copy = S[x.shard])
SavesAlone ==
    \A t \in Tasks : task[t].pc = "save" =>
        /\ Updates = "alone"
        /\ \A u \in Tasks \ {t} : task[u] = Idle
        /\ CopyOk(task[t], count, shards)

\* A credential is bound to an entry that was given, and to one that no other
\* credential is bound to or about to be bound to.
EntryOf(x) == <<x.def, x.list, x.index>>
Binders    == {t \in Tasks : task[t].pc = "bind"}
BoundGiven == /\ \A c \in creds : EntryOf(c) \in given
              /\ \A t \in Binders : EntryOf(task[t]) \in given
BoundApart == /\ \A c \in creds, t \in Binders : EntryOf(c) # EntryOf(task[t])
              /\ \A t, u \in Binders : EntryOf(task[t]) = EntryOf(task[u]) => t = u
OneEntryEach == \A c, e \in creds : EntryOf(c) = EntryOf(e) => c = e

MarkInv == /\ GivenMarked /\ SavesAlone
           /\ BoundGiven /\ BoundApart /\ OneEntryEach

LEMMA WithListKeeps ==
    ASSUME NEW S, NEW d \in Defs, NEW l \in Nat, NEW W, W = WithList(S, d, l)
    PROVE  /\ \A s \in DOMAIN S : s \in DOMAIN W /\ W[s] = S[s]
           /\ \A s \in DOMAIN W : s \in DOMAIN S \/ s[2] = l
<1>1. \A s \in DOMAIN S : s \in DOMAIN W /\ W[s] = S[s]
  BY DEF WithList
<1>2. \A s \in DOMAIN W : s \in DOMAIN S \/ s[2] = l
  BY DEF WithList
<1> QED BY <1>1, <1>2

LEMMA InitMarkInv == Init => MarkInv
BY DEF Init, Idle, MarkInv, GivenMarked, SavesAlone, BoundGiven, BoundApart,
       OneEntryEach, Binders

\* Given entries stay marked if shards only gain marks, or are new.
LEMMA GivenKeeps ==
    ASSUME TypeOK, GivenMarked, count' \in Nat, count' >= count, given' = given,
           \A s \in DOMAIN shards' :
              \/ s[2] >= count
              \/ s \in DOMAIN shards /\ shards[s].assigned \subseteq shards'[s].assigned
    PROVE  GivenMarked'
<1> SUFFICES ASSUME NEW g \in given
             PROVE  g[2] < count' /\ Marked(g, shards')
  BY DEF GivenMarked
<1>1. g[2] < count /\ g[2] \in Nat /\ count \in Nat /\ Marked(g, shards)
  BY DEF GivenMarked, TypeOK
<1>2. ShardOf(g[1], g[2], g[3])[2] = g[2]
  BY DEF ShardOf
<1>3. ~ (ShardOf(g[1], g[2], g[3])[2] >= count)
  BY <1>1, <1>2
<1>4. Marked(g, shards')
  BY <1>1, <1>3 DEF Marked
<1> QED BY <1>1, <1>4

\* Nobody comes to be bound, and no record of an entry is added.
LEMMA BoundKeeps ==
    ASSUME BoundGiven, BoundApart, OneEntryEach, given \subseteq given',
           creds' \subseteq creds,
           \A t \in Tasks : task'[t].pc = "bind" => task'[t] = task[t]
    PROVE  BoundGiven' /\ BoundApart' /\ OneEntryEach'
<1>1. \A t \in Binders' : t \in Binders /\ task'[t] = task[t]
  BY DEF Binders
<1>2. BoundGiven'
  BY <1>1 DEF BoundGiven
<1>3. BoundApart'
  BY <1>1 DEF BoundApart
<1> QED BY <1>2, <1>3 DEF OneEntryEach

\* A step of a request that was not saving and does not save now.
LEMMA SavesKeep ==
    ASSUME SavesAlone, NEW t \in Tasks, task[t] # Idle, task[t].pc # "save",
           task'[t].pc # "save", \A u \in Tasks \ {t} : task'[u] = task[u]
    PROVE  SavesAlone'
<1>1. \A u \in Tasks : task[u].pc # "save"
  BY DEF SavesAlone
<1> QED BY <1>1 DEF SavesAlone

\* A step of one request that changes neither shards nor entries.
LEMMA QuietStep ==
    ASSUME TypeOK, MarkInv, UNCHANGED <<count, shards, creds, given>>,
           NEW t \in Tasks, NEW r \in Request, Do(t, r), r.pc \notin {"bind", "save"},
           \/ task[t] # Idle
           \/ \A u \in Tasks : task[u].pc # "save"
    PROVE  MarkInv'
<1>1. task'[t] = r /\ \A u \in Tasks \ {t} : task'[u] = task[u]
  BY DoTypes DEF TypeOK
<1>2. GivenMarked'
  BY DEF MarkInv, GivenMarked
<1>3. SavesAlone'
  BY <1>1 DEF MarkInv, SavesAlone
<1>4. BoundGiven' /\ BoundApart' /\ OneEntryEach'
  BY <1>1, BoundKeeps DEF MarkInv
<1> QED BY <1>2, <1>3, <1>4 DEF MarkInv

LEMMA StartMarks ==
    ASSUME TypeOK, MarkInv, Updates # "any time", NEW t \in Tasks,
           NEW c \in Creds \cup {NoCred}, NEW D \in SUBSET Defs, Start(t, c, D)
    PROVE  MarkInv'
<1>1. PICK d \in D : Do(t, Assigning("draw", c, D, d, 0))
  BY DEF Start
<1>2. Assigning("draw", c, D, d, 0) \in Request
  BY RequestMakes
<1>3. Assigning("draw", c, D, d, 0).pc = "draw"
  BY DEF Assigning
<1>4. \A u \in Tasks : task[u].pc # "save"
  BY DEF Start, MarkInv, SavesAlone
<1> QED BY <1>1, <1>2, <1>3, <1>4, QuietStep DEF Start

LEMMA LookMarks ==
    ASSUME TypeOK, MarkInv, NEW t \in Tasks, Look(t), ListStep
    PROVE  MarkInv'
<1>1. PICK r : Do(t, r) /\ r.pc = "mark"
  BY DEF Look
<1>2. task'[t] = r
  BY <1>1 DEF Do, TypeOK
<1>3. r \in Request
  BY <1>2 DEF ListStep, TypeOK
<1>4. task[t] # Idle
  BY DEF Look, Idle
<1> QED BY <1>1, <1>3, <1>4, QuietStep DEF Look

LEMMA AgainMarks ==
    ASSUME TypeOK, MarkInv, NEW t \in Tasks, Again(t), ListStep
    PROVE  MarkInv'
<1>1. PICK r : Do(t, r) /\ r.pc \in {"exhausted", "draw"}
  BY DEF Again, Assigning
<1>2. task'[t] = r
  BY <1>1 DEF Do, TypeOK
<1>3. r \in Request
  BY <1>2 DEF ListStep, TypeOK
<1>4. task[t] # Idle
  BY DEF Again, Idle
<1> QED BY <1>1, <1>3, <1>4, QuietStep DEF Again

LEMMA NotFoundMarks ==
    ASSUME TypeOK, MarkInv, NEW t \in Tasks, NotFound(t)
    PROVE  MarkInv'
<1>1. task[t] # Idle /\ Idle.pc = "idle"
  BY DEF NotFound, Idle
<1> QED BY <1>1, IdleIsRequest, QuietStep DEF NotFound

\* The entry is not among those given, and now it is.
LEMMA MarkMarks ==
    ASSUME TypeOK, ListInv, MarkInv, NEW t \in Tasks, Mark(t)
    PROVE  MarkInv' /\ EntryOf(task[t]) \notin given
<1> DEFINE x == task[t]
           e == EntryOf(x)
           r == IF x.cred = NoCred THEN Idle ELSE [x EXCEPT !.pc = "bind"]
<1>1. /\ x \in Request /\ x.pc = "mark" /\ Target(t) \in DOMAIN shards /\ Do(t, r)
      /\ shards' = [shards EXCEPT ![Target(t)].assigned = @ \cup {Slot(t)}]
      /\ ~ Taken(t) /\ given' = given \cup {e} /\ UNCHANGED <<count, def, creds>>
  BY DEF Mark, EntryOf, TypeOK
<1>2. /\ x.def \in Defs /\ x.index \in Indices /\ x.list \in Nat
      /\ e = <<x.def, x.list, x.index>> /\ x # Idle
  BY <1>1, RequestKinds DEF EntryOf, Idle
<1>3. x.list < count
  BY <1>1 DEF ListInv, TasksNamed, Named
<1>4. e \notin given
  <2> SUFFICES ASSUME e \in given
               PROVE  FALSE
    OBVIOUS
  <2>1. Marked(e, shards)
    BY DEF MarkInv, GivenMarked
  <2> QED BY <1>1, <1>2, <2>1 DEF Marked, Taken, Target, Slot
<1>5. /\ DOMAIN shards' = DOMAIN shards
      /\ \A s \in DOMAIN shards : shards[s].assigned \subseteq shards'[s].assigned
      /\ Slot(t) \in shards'[Target(t)].assigned
  <2>1. shards[Target(t)] \in Shard /\ shards \in [DOMAIN shards -> Shard]
    BY <1>1 DEF TypeOK
  <2>2. shards'[Target(t)].assigned = shards[Target(t)].assigned \cup {Slot(t)}
    BY <1>1, <2>1 DEF Shard
  <2>3. \A s \in DOMAIN shards : s # Target(t) => shards'[s] = shards[s]
    BY <1>1
  <2> QED BY <1>1, <2>2, <2>3
<1>6. GivenMarked'
  <2>1. ASSUME NEW g \in given
        PROVE  g[2] < count /\ Marked(g, shards')
    BY <1>5 DEF MarkInv, GivenMarked, Marked
  <2>2. Marked(e, shards')
    BY <1>2, <1>5 DEF Marked, Target, Slot
  <2>3. e[2] < count
    BY <1>2, <1>3
  <2>4. count' = count /\ given' = given \cup {e}
    BY <1>1
  <2> HIDE DEF e
  <2> QED BY <2>1, <2>2, <2>3, <2>4 DEF GivenMarked
<1>7. /\ task'[t] = r /\ \A u \in Tasks \ {t} : task'[u] = task[u]
      /\ r.pc # "save"
  BY <1>1 DEF Do, TypeOK, Idle, Request
<1>8. r.pc = "bind" => EntryOf(r) = e
  BY <1>1, <1>2 DEF EntryOf, Idle, Request
<1> HIDE DEF r, e, x
<1>9. SavesAlone'
  BY <1>1, <1>2, <1>7, SavesKeep DEF MarkInv, x
<1>10. BoundGiven'
  BY <1>1, <1>7, <1>8 DEF MarkInv, BoundGiven, Binders
<1>11. BoundApart'
  BY <1>1, <1>4, <1>7, <1>8 DEF MarkInv, BoundGiven, BoundApart, Binders
<1>12. OneEntryEach'
  BY <1>1 DEF MarkInv, OneEntryEach
<1> QED BY <1>4, <1>6, <1>9, <1>10, <1>11, <1>12 DEF MarkInv, e, x

LEMMA BindMarks ==
    ASSUME TypeOK, MarkInv, NEW t \in Tasks, Bind(t), ListStep
    PROVE  MarkInv'
<1> DEFINE x == task[t]
           c == [def |-> x.def, cred |-> x.cred, list |-> x.list, index |-> x.index]
<1>1. /\ x.pc = "bind" /\ creds' = creds \cup {c}
      /\ UNCHANGED <<count, def, shards, given>>
  BY DEF Bind
<1>2. PICK r : Do(t, r) /\ r.pc \in {"idle", "draw"}
  <2> DEFINE D == x.todo \ {x.def}
  <2>1. Continue(t, D)
    BY DEF Bind
  <2>2. CASE D = {}
    BY <2>1, <2>2 DEF Continue, Idle
  <2>3. CASE D # {}
    <3>1. PICK d \in D : Do(t, Assigning("draw", x.cred, D, d, 0))
      BY <2>1, <2>3 DEF Continue
    <3> QED BY <3>1 DEF Assigning
  <2> QED BY <2>2, <2>3
<1>3. task'[t] = r /\ \A u \in Tasks \ {t} : task'[u] = task[u]
  BY <1>2 DEF Do, TypeOK
<1>4. EntryOf(c) = EntryOf(x) /\ t \in Binders /\ x # Idle
  BY <1>1 DEF EntryOf, Binders, Idle
<1> HIDE DEF c, x
<1>5. GivenMarked'
  BY <1>1 DEF MarkInv, GivenMarked
<1>6. SavesAlone'
  BY <1>1, <1>2, <1>3, <1>4, SavesKeep DEF MarkInv, x
<1>7. \A u \in Binders' : u \in Binders /\ u # t /\ task'[u] = task[u]
  BY <1>2, <1>3 DEF Binders
<1>8. BoundGiven'
  BY <1>1, <1>4, <1>7 DEF MarkInv, BoundGiven, x
<1>9. BoundApart'
  BY <1>1, <1>4, <1>7 DEF MarkInv, BoundApart, x
<1>10. OneEntryEach'
  BY <1>1, <1>4 DEF MarkInv, BoundApart, OneEntryEach, x
<1> QED BY <1>5, <1>6, <1>8, <1>9, <1>10 DEF MarkInv

LEMMA ReadShardMarks ==
    ASSUME TypeOK, ListInv, MarkInv, Updates # "any time", NEW t \in Tasks,
           NEW d \in Defs, NEW c \in Creds, NEW v \in Statuses, ReadShard(t, d, c, v)
    PROVE  MarkInv'
<1>1. PICK r \in creds :
         /\ RecordsOf(d, c) = {r}
         /\ LET s == ShardOf(d, r.list, r.index)
            IN  Do(t, [pc |-> "save", shard |-> s, slot |-> SlotOf(r.index),
                       value |-> v, copy |-> shards[s]])
  BY DEF ReadShard
<1> DEFINE s == ShardOf(d, r.list, r.index)
           x == [pc |-> "save", shard |-> s, slot |-> SlotOf(r.index),
                 value |-> v, copy |-> shards[s]]
<1>2. r \in RecordsOf(d, c)
  BY <1>1
<1>3. s[2] = r.list /\ r.list < count
  BY DEF ShardOf, ListInv, CredsNamed, Named
<1>4. CopyOk(x, count, shards) /\ x.pc = "save"
  BY <1>3 DEF CopyOk
<1>5. task'[t] = x /\ \A u \in Tasks \ {t} : task'[u] = task[u]
  BY <1>1 DEF Do, TypeOK
<1> HIDE DEF x
<1>6. Updates = "alone" /\ \A u \in Tasks : task[u] = Idle
  BY StatusListAssumption DEF ReadShard
<1>7. UNCHANGED <<count, def, shards, creds, given>>
  BY DEF ReadShard
<1>8. SavesAlone'
  BY <1>4, <1>5, <1>6, <1>7 DEF SavesAlone, Idle, CopyOk
<1>9. GivenMarked'
  BY <1>7 DEF MarkInv, GivenMarked
<1>10. BoundGiven' /\ BoundApart' /\ OneEntryEach'
  BY <1>4, <1>5, <1>7, BoundKeeps DEF MarkInv
<1> QED BY <1>8, <1>9, <1>10 DEF MarkInv

\* Saving the copy of a shard changes none of its marks.
LEMMA SaveShardMarks ==
    ASSUME TypeOK, MarkInv, NEW t \in Tasks, SaveShard(t)
    PROVE  MarkInv'
<1> DEFINE x == task[t]
           r == [x.copy EXCEPT !.status[x.slot] = x.value]
<1>1. /\ x \in Request /\ x.pc = "save" /\ x.shard \in DOMAIN shards
      /\ shards' = [shards EXCEPT ![x.shard] = r]
      /\ Do(t, Idle) /\ UNCHANGED <<count, def, creds, given>>
  BY DEF SaveShard, TypeOK
<1>2. task'[t] = Idle /\ \A u \in Tasks \ {t} : task'[u] = task[u]
  BY <1>1 DEF Do, TypeOK
<1>3. x.copy = shards[x.shard] /\ \A u \in Tasks \ {t} : task[u] = Idle
  BY <1>1 DEF MarkInv, SavesAlone, CopyOk
<1>4. r.assigned = x.copy.assigned
  BY <1>1, RequestKinds DEF Shard
<1> HIDE DEF r
<1>5. /\ DOMAIN shards' = DOMAIN shards
      /\ \A s \in DOMAIN shards : shards'[s].assigned = shards[s].assigned
  BY <1>1, <1>3, <1>4 DEF TypeOK
<1>6. GivenMarked'
  BY <1>1, <1>5 DEF MarkInv, GivenMarked, Marked
<1>7. SavesAlone'
  BY <1>2, <1>3 DEF SavesAlone, Idle
<1>8. BoundGiven' /\ BoundApart' /\ OneEntryEach'
  BY <1>1, <1>2, BoundKeeps DEF MarkInv, Idle
<1> QED BY <1>6, <1>7, <1>8 DEF MarkInv

\* A step that leaves the shards it does not add or delete alone.
LEMMA ShardsKept ==
    ASSUME TypeOK, MarkInv, count' \in Nat, count' >= count, given' = given,
           creds' \subseteq creds,
           \A s \in DOMAIN shards' :
              \/ s[2] >= count
              \/ s \in DOMAIN shards /\ shards'[s] = shards[s],
           \/ UNCHANGED task
           \/ \E t \in Tasks :
                 /\ task[t].pc = "draw" /\ task'[t].pc = "look"
                 /\ \A u \in Tasks \ {t} : task'[u] = task[u]
    PROVE  MarkInv'
<1>1. GivenMarked'
  BY GivenKeeps DEF MarkInv
<1>2. BoundGiven' /\ BoundApart' /\ OneEntryEach'
  BY BoundKeeps DEF MarkInv
<1>3. SavesAlone'
  <2>1. CASE UNCHANGED task
    <3> SUFFICES ASSUME NEW t \in Tasks, task[t].pc = "save"
                 PROVE  CopyOk(task[t], count', shards')
      BY <2>1 DEF MarkInv, SavesAlone
    <3> DEFINE s == task[t].shard
    <3>1. CopyOk(task[t], count, shards) /\ s \in ShardId
      BY RequestKinds DEF MarkInv, SavesAlone, TypeOK
    <3>2. s[2] < count /\ s[2] \in Nat /\ count \in Nat
      BY <3>1 DEF CopyOk, ShardId, TypeOK
    <3>3. s[2] < count' /\ ~ (s[2] >= count)
      BY <3>2
    <3> QED BY <3>1, <3>3 DEF CopyOk
  <2>2. CASE ~ UNCHANGED task
    BY <2>2, SavesKeep DEF MarkInv, Idle
  <2> QED BY <2>1, <2>2
<1> QED BY <1>1, <1>2, <1>3 DEF MarkInv

LEMMA DeleteDefMarks ==
    ASSUME TypeOK, MarkInv, NEW d \in Defs, DeleteDef(d)
    PROVE  MarkInv'
<1>1. \A s \in DOMAIN shards' : s \in DOMAIN shards /\ shards'[s] = shards[s]
  BY DEF DeleteDef
<1>2. count' \in Nat /\ count' >= count
  BY DEF DeleteDef, TypeOK
<1>3. creds' \subseteq creds /\ given' = given /\ UNCHANGED task
  BY DEF DeleteDef
<1> QED BY <1>1, <1>2, <1>3, ShardsKept

LEMMA CreateDefMarks ==
    ASSUME TypeOK, MarkInv, NEW d \in Defs, NEW p \in Permutation, CreateDef(d, p)
    PROVE  MarkInv'
<1> DEFINE S == WithList(shards, d, count)
<1>1. /\ count \in Nat /\ count' = count + 2 /\ shards' = WithList(S, d, count + 1)
      /\ UNCHANGED <<creds, task, given>>
  BY DEF CreateDef, Number, TypeOK
<1>2. /\ \A s \in DOMAIN shards : s \in DOMAIN S /\ S[s] = shards[s]
      /\ \A s \in DOMAIN S : s \in DOMAIN shards \/ s[2] = count
  BY <1>1, WithListKeeps
<1> HIDE DEF S
<1>3. /\ \A s \in DOMAIN S : shards'[s] = S[s]
      /\ \A s \in DOMAIN shards' : s \in DOMAIN S \/ s[2] = count + 1
  <2>1. PICK k \in Nat : k = count + 1
    BY <1>1
  <2>2. shards' = WithList(S, d, k)
    BY <1>1, <2>1
  <2>3. /\ \A s \in DOMAIN S : shards'[s] = S[s]
        /\ \A s \in DOMAIN shards' : s \in DOMAIN S \/ s[2] = k
    BY <2>2, WithListKeeps
  <2> QED BY <2>1, <2>3
<1>4. ASSUME NEW s \in DOMAIN shards'
      PROVE  s[2] >= count \/ (s \in DOMAIN shards /\ shards'[s] = shards[s])
  <2>1. CASE s[2] = count \/ s[2] = count + 1
    BY <2>1, <1>1
  <2>2. CASE s \in DOMAIN shards
    BY <2>2, <1>2, <1>3
  <2> QED BY <2>1, <2>2, <1>2, <1>3
<1>5. count' \in Nat /\ count' >= count
  BY <1>1
<1> QED BY <1>1, <1>4, <1>5, ShardsKept

LEMMA DrawMarks ==
    ASSUME TypeOK, MarkInv, NEW t \in Tasks, NEW p \in Permutation, Draw(t, p)
    PROVE  MarkInv'
<1>1. PICK r : Do(t, r) /\ r.pc = "look"
  BY DEF Draw
<1>2. task[t].pc = "draw" /\ task'[t].pc = "look"
      /\ \A u \in Tasks \ {t} : task'[u] = task[u]
  BY <1>1 DEF Draw, Do, TypeOK
<1>3. task[t].def \in Defs
  BY <1>2, RequestKinds DEF TypeOK
<1>4. count \in Nat /\ UNCHANGED <<creds, given>>
  BY DEF Draw, TypeOK
<1>5. \/ UNCHANGED <<count, shards>>
      \/ count' = count + 1 /\ shards' = WithList(shards, task[t].def, count)
  BY DEF Draw, Number
<1>6. count' \in Nat /\ count' >= count
  BY <1>4, <1>5
<1>7. \A s \in DOMAIN shards' :
         s[2] >= count \/ (s \in DOMAIN shards /\ shards'[s] = shards[s])
  <2>1. CASE UNCHANGED shards
    BY <2>1
  <2>2. CASE shards' = WithList(shards, task[t].def, count)
    <3>1. /\ \A s \in DOMAIN shards : shards'[s] = shards[s]
          /\ \A s \in DOMAIN shards' : s \in DOMAIN shards \/ s[2] = count
      BY <2>2, <1>3, <1>4, WithListKeeps
    <3>2. count >= count
      BY <1>4
    <3> QED BY <3>1, <3>2
  <2> QED BY <2>1, <2>2, <1>5
<1> QED BY <1>2, <1>4, <1>6, <1>7, ShardsKept

LEMMA NextMarks ==
    ASSUME Updates # "any time", TypeOK, ListInv, MarkInv, [Next]_vars
    PROVE  MarkInv'
<1>1. ListStep
  BY NextLists
<1>2. ASSUME NEW t \in Tasks, NEW c \in Creds \cup {NoCred}, NEW D \in SUBSET Defs,
             Start(t, c, D)
      PROVE  MarkInv'
  BY <1>2, StartMarks
<1>3. ASSUME NEW t \in Tasks,
             \/ \E p \in Permutation : Draw(t, p)
             \/ Look(t) \/ Mark(t) \/ Again(t) \/ Bind(t) \/ NotFound(t)
      PROVE  MarkInv'
  BY <1>1, <1>3, DrawMarks, LookMarks, MarkMarks, AgainMarks, BindMarks, NotFoundMarks
<1>4. ASSUME NEW t \in Tasks,
             \/ \E d \in Defs, c \in Creds, v \in Statuses : ReadShard(t, d, c, v)
             \/ SaveShard(t)
      PROVE  MarkInv'
  BY <1>4, ReadShardMarks, SaveShardMarks
<1>5. ASSUME NEW d \in Defs, DeleteDef(d) \/ \E p \in Permutation : CreateDef(d, p)
      PROVE  MarkInv'
  BY <1>5, DeleteDefMarks, CreateDefMarks
<1>6. CASE UNCHANGED vars
  BY <1>6 DEF vars, MarkInv, GivenMarked, SavesAlone, BoundGiven, BoundApart,
              OneEntryEach, Binders
<1> QED BY <1>2, <1>3, <1>4, <1>5, <1>6 DEF Next

\* If no status update overlaps an assignment, no entry is handed out twice,
\* although the definition may move on to another list between the draw of an
\* index and its marking (status_handler.py, assign_random_entry).  With
\* updates at any time a stale copy of a shard can wipe marks out.
THEOREM GivenOnce ==
    ASSUME Updates # "any time"
    PROVE  Spec => EntryGivenOnce
<1>1. Init => TypeOK /\ ListInv /\ MarkInv
  BY InitLists, InitMarkInv
<1>2. TypeOK /\ ListInv /\ MarkInv /\ [Next]_vars => (TypeOK /\ ListInv /\ MarkInv)'
  BY NextLists, NextMarks DEF ListStep
<1>3. TypeOK /\ ListInv /\ MarkInv /\ [Next]_vars =>
         [\A t \in Tasks :
             Mark(t) => <<task[t].def, task[t].list, task[t].index>> \notin given]_vars
  BY MarkMarks DEF EntryOf
<1> QED BY <1>1, <1>2, <1>3, PTL DEF Spec, EntryGivenOnce

\* Under the same condition, no two credentials are bound to one entry: each
\* has a status of its own (status_handler.py, assign_status_entries).
THEOREM EntriesApart ==
    ASSUME Updates # "any time"
    PROVE  Spec => []OneEntryEach
<1>1. Init => TypeOK /\ ListInv /\ MarkInv
  BY InitLists, InitMarkInv
<1>2. TypeOK /\ ListInv /\ MarkInv /\ [Next]_vars => (TypeOK /\ ListInv /\ MarkInv)'
  BY NextLists, NextMarks DEF ListStep
<1>3. MarkInv => OneEntryEach
  BY DEF MarkInv
<1> QED BY <1>1, <1>2, <1>3, PTL DEF Spec

LEMMA ChangedPairs ==
    ASSUME NEW y \in Changed
    PROVE  \E s \in DOMAIN shards, n \in Slots : y = <<s, n>>
<1>1. y \in (DOMAIN shards \cap DOMAIN shards') \X Slots
  BY Zenon DEF Changed
<1> QED BY <1>1

\* Under the same condition, an update changes the entry of its credential and
\* no other (status_handler.py, update_status_list_entry).
THEOREM OwnEntry ==
    ASSUME Updates # "any time"
    PROVE  Spec => UpdatesOwnEntry
<1>1. ASSUME TypeOK, MarkInv, NEW t \in Tasks, SaveShard(t)
      PROVE  Changed \subseteq {<<task[t].shard, task[t].slot>>}
  <2> DEFINE x == task[t]
             r == [x.copy EXCEPT !.status[x.slot] = x.value]
  <2>1. /\ x \in Request /\ x.pc = "save" /\ x.shard \in DOMAIN shards
        /\ shards' = [shards EXCEPT ![x.shard] = r]
    BY <1>1 DEF SaveShard, TypeOK
  <2>2. x.copy = shards[x.shard]
    BY <1>1, <2>1 DEF MarkInv, SavesAlone, CopyOk
  <2>3. /\ r.assigned = x.copy.assigned
        /\ \A n \in Slots \ {x.slot} : r.status[n] = x.copy.status[n]
    BY <2>1, RequestKinds DEF Shard
  <2> HIDE DEF r
  <2>4. /\ shards'[x.shard] = r
        /\ \A s \in DOMAIN shards \ {x.shard} : shards'[s] = shards[s]
    BY <1>1, <2>1 DEF TypeOK
  <2> SUFFICES ASSUME NEW y \in Changed
               PROVE  y = <<x.shard, x.slot>>
    OBVIOUS
  <2>5. PICK s \in DOMAIN shards, n \in Slots :
           /\ y = <<s, n>>
           /\ \/ shards'[s].status[n] # shards[s].status[n]
              \/ (n \in shards'[s].assigned) # (n \in shards[s].assigned)
    <3>1. PICK s \in DOMAIN shards, n \in Slots : y = <<s, n>>
      BY ChangedPairs
    <3>2. y[1] = s /\ y[2] = n
      BY <3>1
    <3>3. \/ shards'[y[1]].status[y[2]] # shards[y[1]].status[y[2]]
          \/ (y[2] \in shards'[y[1]].assigned) # (y[2] \in shards[y[1]].assigned)
      BY DEF Changed
    <3> QED BY <3>1, <3>2, <3>3
  <2>6. s = x.shard /\ n = x.slot
    BY <2>2, <2>3, <2>4, <2>5
  <2> QED BY <2>5, <2>6
<1>2. Init => TypeOK /\ ListInv /\ MarkInv
  BY InitLists, InitMarkInv
<1>3. TypeOK /\ ListInv /\ MarkInv /\ [Next]_vars => (TypeOK /\ ListInv /\ MarkInv)'
  BY NextLists, NextMarks DEF ListStep
<1>4. TypeOK /\ ListInv /\ MarkInv /\ [Next]_vars =>
         [\A t \in Tasks : SaveShard(t) =>
             Changed \subseteq {<<task[t].shard, task[t].slot>>}]_vars
  BY <1>1
<1> QED BY <1>2, <1>3, <1>4, PTL DEF Spec, UpdatesOwnEntry
================================================================================
