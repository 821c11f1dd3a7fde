---------------------------- MODULE CheqdRegistry ----------------------------
(***************************************************************************)
(* The AnonCreds objects of a did:cheqd issuer are resources linked to the *)
(* DID: each has a type, a name and an id of its own.  Objects refer to    *)
(* each other by id, and only the status lists of a revocation registry    *)
(* are found by name, as the latest of their name at a time.  Resources of *)
(* one type and name are versions of each other; the registrar refuses to  *)
(* create what is there and to update what is not.                         *)
(***************************************************************************)
EXTENDS Naturals, Sequences

CONSTANTS
    Names, Versions,  \* of schemas
    Tags,             \* of credential definitions and of registries
    Tasks,            \* slots for concurrent registrations
    Faults,           \* the registrar and the resolver may fail
    MaxResources      \* bound: resources on the ledger

VARIABLES
    ledger,     \* the resources of the DID, in the order of their creation
    task,       \* registrations in progress
    registered  \* what registrations returned

vars == <<ledger, task, registered>>

Idle == [pc |-> "idle"]
Resource(type, name, of, content) ==
    [type |-> type, name |-> name, of |-> of, content |-> content]
OfType(type) == {i \in DOMAIN ledger : ledger[i].type = type}
Exists(r)    == \E i \in OfType(r.type) : ledger[i].name = r.name

Init == ledger = <<>> /\ task = [t \in Tasks |-> Idle] /\ registered = {}

Fail(t) == task' = [task EXCEPT ![t] = Idle] /\ UNCHANGED registered
Start(t, op, r) ==
    /\ task[t] = Idle
    /\ task' = [task EXCEPT ![t] = [pc |-> "request", op |-> op, res |-> r]]
    /\ UNCHANGED <<ledger, registered>>

-----------------------------------------------------------------------------
\* register_schema looks whether a schema of the name is there, and then makes
\* this one the next version of it.
RegisterSchema(t, n, v) ==
    LET r == Resource("schema", <<n>>, 0, v)
    IN  Start(t, IF Exists(r) THEN "update" ELSE "create", r)

\* The name of a definition is made of those of the schema and the tag, that
\* of a registry of the definition's and its tag: of whatever version.
RegisterCredDef(t, i, tag) ==
    Start(t, "create", Resource("cred def", Append(ledger[i].name, tag), i, 0))
RegisterRegistry(t, i, tag) ==
    Start(t, "create", Resource("registry", Append(ledger[i].name, tag), i, 0))

\* Bug: the lists are named after the credential definition.
DefinitionName(i) == ledger[ledger[i].of].name
\* register_revocation_list and update_revocation_list: a list has the name of
\* its registry.
ListName(i) == ledger[i].name
PublishList(t, i, op) ==
    LET n == IF op = "create" THEN 0 ELSE Len(ledger)
    IN  Start(t, op, Resource("list", ListName(i), i, n))

-----------------------------------------------------------------------------
(* _create_and_publish_resource and _update_and_publish_resource *)

\* The first call of the registrar is answered by what is to be signed.
Request(t) ==
    /\ task[t].pc = "request"
    /\ IF (task[t].op = "create") = Exists(task[t].res) THEN Fail(t)
       ELSE task' = [task EXCEPT ![t].pc = "sign"] /\ UNCHANGED registered
    /\ UNCHANGED ledger
\* Signing, or either call, may fail.
Break(t) ==
    /\ Faults /\ task[t] # Idle /\ Fail(t)
    /\ UNCHANGED ledger
Sign(t) ==
    /\ task[t].pc = "sign"
    /\ task' = [task EXCEPT ![t].pc = "submit"]
    /\ UNCHANGED <<ledger, registered>>

Report(t, id) ==
    /\ task' = [task EXCEPT ![t] = Idle]
    /\ registered' = registered \cup {[id |-> id, res |-> task[t].res]}
\* Bug: the state of the answer is not looked at.
AnyState(t) == Report(t, Len(ledger) + 1)
\* An answer whose state is not "finished" is an error.
Refused(t) == Fail(t)
\* The second call submits the signatures.
Submit(t) ==
    /\ task[t].pc = "submit"
    /\ \/ /\ Len(ledger) < MaxResources
          /\ ledger' = Append(ledger, task[t].res)
          /\ Report(t, Len(ledger')) \/ (Faults /\ Fail(t))  \* no answer comes
       \/ Faults /\ Refused(t) /\ UNCHANGED ledger

Next ==
    \E t \in Tasks :
        \/ \E n \in Names, v \in Versions : RegisterSchema(t, n, v)
        \/ \E i \in OfType("schema"), g \in Tags : RegisterCredDef(t, i, g)
        \/ \E i \in OfType("cred def"), g \in Tags : RegisterRegistry(t, i, g)
        \/ \E i \in OfType("registry"), op \in {"create", "update"} : PublishList(t, i, op)
        \/ Request(t) \/ Sign(t) \/ Submit(t) \/ Break(t)
Spec == Init /\ [][Next]_vars

-----------------------------------------------------------------------------
\* get_revocation_list: the latest list of the registry's name at a time.
ListsAt(i, time) == {j \in OfType("list") : j <= time /\ ledger[j].name = ListName(i)}
Latest(S)        == CHOOSE j \in S : \A k \in S : k <= j

TypeOK ==
    /\ \A i \in DOMAIN ledger :
          ledger[i].type # "schema" => ledger[i].of \in 1..(i - 1)
    /\ \A r \in registered : r.id \in Nat

\* What is reported as registered is on the ledger under the id reported.
RegisteredThere ==
    \A r \in registered : r.id \in DOMAIN ledger /\ ledger[r.id] = r.res

\* The list that is found for a registry at any time is one of its own, also
\* when there are definitions of several versions of a schema, and tags recur.
ListIsOwn ==
    \A i \in OfType("registry") : \A time \in DOMAIN ledger :
        ListsAt(i, time) # {} => ledger[Latest(ListsAt(i, time))].of = i
=============================================================================
