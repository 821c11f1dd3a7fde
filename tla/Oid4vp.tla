------------------------------- MODULE Oid4vp -------------------------------
(***************************************************************************)
(* Presentations over HTTP of the oid4vc plugin: the controller makes a    *)
(* request for a definition (a presentation definition or a DCQL query);   *)
(* the wallet fetches the request object, once, and posts an answer made   *)
(* for the nonce and the client id that it found there.  The client id is  *)
(* the registered X.509 name, or the agent's did:jwk when there is none.   *)
(* Answers are taken at any time, also before the request was fetched, and *)
(* not every format of credentials binds them to the request.              *)
(***************************************************************************)
EXTENDS Integers, FiniteSets

CONSTANTS
    Defs,        \* identifiers of definitions
    Queries,     \* the definitions that are DCQL queries
    Names,       \* X.509 names that may be registered
    Did,         \* the did:jwk of the agent, the client id without a name
    Tasks,       \* slots for concurrent calls
    MaxRequests, MaxVersion, MaxNonces, MaxVerdicts  \* bounds

VARIABLES
    defs,       \* stored definitions: a version; 0 when there is none
    x509,       \* the registered identity
    reqs,       \* stored OID4VPRequest records, those not fetched yet
    pres,       \* stored OID4VPPresentation records
    task,       \* calls in progress
    nonces,     \* nonces drawn so far
    handed,     \* request objects that wallets were given, by request
    verdicts    \* answers that were verified, with the verdict and the
                \* nonce of the record that they were verified against

vars == <<defs, x509, reqs, pres, task, nonces, handed, verdicts>>

Ids      == 1..MaxRequests
NoRec    == [state |-> "none"]
Idle     == [pc |-> "idle"]
Finals   == {"presentation-valid", "presentation-invalid"}
ClientId == IF x509 = {} THEN Did ELSE CHOOSE n \in x509 : TRUE

Init ==
    /\ defs \in [Defs -> {0, 1}] /\ x509 = {}
    /\ reqs = {} /\ pres = [i \in Ids |-> NoRec]
    /\ task = [t \in Tasks |-> Idle] /\ nonces = 0
    /\ handed = [i \in Ids |-> {}] /\ verdicts = {}

-----------------------------------------------------------------------------
(* The controller *)

\* create_oid4vp_pres_def, create_dcql_query; records of a definition that was
\* removed are not made again, its identifier is gone.
CreateDef(d) ==
    /\ defs[d] = 0 /\ \A i \in Ids : pres[i] # NoRec => pres[i].def # d
    /\ \A t \in Tasks : task[t] = Idle
    /\ defs' = [defs EXCEPT ![d] = 1]
    /\ UNCHANGED <<x509, reqs, pres, task, nonces, handed, verdicts>>

\* update_oid4vp_pres_def: queries cannot be changed.
UpdateDef(d) ==
    /\ defs[d] \in 1..(MaxVersion - 1) /\ d \notin Queries
    /\ defs' = [defs EXCEPT ![d] = @ + 1]
    /\ UNCHANGED <<x509, reqs, pres, task, nonces, handed, verdicts>>

\* oid4vp_pres_def_remove, dcql_query_remove
RemoveDef(d) ==
    /\ defs[d] > 0
    /\ defs' = [defs EXCEPT ![d] = 0]
    /\ UNCHANGED <<x509, reqs, pres, task, nonces, handed, verdicts>>

\* register_x509_identity replaces an identity that is there.
RegisterX509(n) ==
    /\ x509' = {n}
    /\ UNCHANGED <<defs, reqs, pres, task, nonces, handed, verdicts>>

DeleteX509 ==
    /\ x509 # {} /\ x509' = {}
    /\ UNCHANGED <<defs, reqs, pres, task, nonces, handed, verdicts>>

\* create_oid4vp_request does not look whether the definition is there.
CreateRequest(i, d) ==
    /\ pres[i] = NoRec /\ i \notin reqs /\ \A j \in 1..(i - 1) : pres[j] # NoRec
    /\ reqs' = reqs \cup {i}
    /\ pres' = [pres EXCEPT ![i] =
                  [state |-> "request-created", def |-> d, nonce |-> 0,
                   client |-> ClientId, verified |-> FALSE, by |-> {}, errors |-> {}]]
    /\ UNCHANGED <<defs, x509, task, nonces, handed, verdicts>>

RemovePresentation(i) ==
    /\ pres[i].state \notin {"none", "removed"}
    /\ pres' = [pres EXCEPT ![i] = [state |-> "removed", def |-> pres[i].def]]
    /\ UNCHANGED <<defs, x509, reqs, task, nonces, handed, verdicts>>

Stored(i) == pres[i].state \notin {"none", "removed"}

-----------------------------------------------------------------------------
(* get_request: the wallet fetches the request object *)

Fetch(t, i) ==
    /\ task[t] = Idle /\ i \in reqs
    /\ task' = [task EXCEPT ![t] = [pc |-> "consume", id |-> i]]
    /\ UNCHANGED <<defs, x509, reqs, pres, nonces, handed, verdicts>>

\* Bug: a record that is gone already is no error.
StillThere(i) == TRUE
\* The removal of a record that another call removed fails, and the call too.
Removable(i) == i \in reqs

Consume(t) ==
    /\ task[t].pc = "consume"
    /\ task' = [task EXCEPT ![t] =
                  IF Removable(task[t].id) THEN [@ EXCEPT !.pc = "prepare"] ELSE Idle]
    /\ reqs' = reqs \ {task[t].id}
    /\ UNCHANGED <<defs, x509, pres, nonces, handed, verdicts>>

\* Bug: the client id of the time of creation goes into the record.
AtCreation(rec) == rec.client
\* The client id is that of the identity registered now.
Effective(rec) == ClientId

\* Bug: the request is handed out with the nonce that the record has.
OldNonce(rec) == rec.nonce
\* A nonce is drawn for every request object.
NewNonce(rec) == nonces + 1

\* The presentation, its definition and the identity are read: when a record
\* is not found the request, removed already, is lost.
Prepare(t) ==
    /\ task[t].pc = "prepare" /\ nonces < MaxNonces
    /\ LET i == task[t].id
       IN  IF Stored(i) /\ defs[pres[i].def] > 0
           THEN /\ nonces' = nonces + 1
                /\ task' = [task EXCEPT ![t] =
                     [pc |-> "hand", id |-> i, version |-> defs[pres[i].def],
                      client |-> ClientId,
                      copy |-> [pres[i] EXCEPT !.state = "request-retrieved",
                                               !.nonce = NewNonce(pres[i]),
                                               !.client = Effective(pres[i])]]]
           ELSE task' = [task EXCEPT ![t] = Idle] /\ UNCHANGED nonces
    /\ UNCHANGED <<defs, x509, reqs, pres, handed, verdicts>>

\* The record is saved and the signed request object returned.
Hand(t) ==
    /\ task[t].pc = "hand"
    /\ LET i == task[t].id
       IN  IF Stored(i)
           THEN /\ pres' = [pres EXCEPT ![i] = task[t].copy]
                /\ handed' = [handed EXCEPT ![i] = @ \cup
                     {[nonce |-> task[t].copy.nonce, client |-> task[t].client,
                       version |-> task[t].version]}]
           ELSE UNCHANGED <<pres, handed>>
    /\ task' = [task EXCEPT ![t] = Idle]
    /\ UNCHANGED <<defs, x509, reqs, nonces, verdicts>>

-----------------------------------------------------------------------------
(* post_response: an answer is posted, sound or not, made for a request     *)
(* object or for none                                                       *)

\* What a presentation that is of no request object was made for: it satisfies
\* the first version of a definition.
Unasked    == [nonce |-> 0, client |-> Did, version |-> 1]
Formats    == {"sd_jwt_vc", "mso_mdoc", "jwt_vc_json"}
Answers(i) == [for : handed[i] \cup {Unasked}, format : Formats, good : {TRUE}]
              \cup [for : handed[i], format : {"sd_jwt_vc"}, good : {FALSE}]

\* The record is read in any state; the answer is verified against this copy.
Post(t, i) ==
    /\ task[t] = Idle /\ Stored(i) /\ Cardinality(verdicts) < MaxVerdicts
    /\ \E a \in Answers(i) :
          task' = [task EXCEPT ![t] =
                     [pc |-> "verify", id |-> i, answer |-> a, copy |-> pres[i]]]
    /\ UNCHANGED <<defs, x509, reqs, pres, nonces, handed, verdicts>>

\* What a format asks of the binding to the request.  The key binding of an
\* sd_jwt_vc names the nonce and the client id of the record, and without a
\* nonce in the record it fails.  Of an mso_mdoc the nonce is only handed, as a
\* string, to the verification; that the device signed for it is not required.
\* The signature of a jwt_vc_json is all that is looked at.
Bound(rec, a) ==
    CASE a.format = "sd_jwt_vc" ->
            rec.nonce # 0 /\ a.for.nonce = rec.nonce /\ a.for.client = rec.client
      [] a.format = "mso_mdoc" -> rec.nonce # 0
      [] OTHER -> TRUE

\* The presentation is sound and bound as its format asks, and the definition or
\* query matches what was presented.
Accepts(rec, a, version) == a.good /\ Bound(rec, a) /\ a.for.version = version

\* A presentation that fails before the definition is read is invalid even
\* when the definition is gone; of a query the definition is read first.
Verdict(rec, a) ==
    CASE defs[rec.def] > 0 -> IF Accepts(rec, a, defs[rec.def]) THEN "valid" ELSE "invalid"
      [] OTHER -> IF rec.def \in Queries \/ Accepts(rec, a, a.for.version)
                  THEN "not found" ELSE "invalid"

Verify(t) ==
    /\ task[t].pc = "verify"
    /\ LET rec == task[t].copy
           a   == task[t].answer
           v   == Verdict(rec, a)
       IN  /\ task' = [task EXCEPT ![t] =
                 IF v = "not found" THEN Idle
                 ELSE [pc |-> "save", id |-> task[t].id,
                       copy |-> [rec EXCEPT !.state = IF v = "valid" THEN "presentation-valid"
                                                      ELSE "presentation-invalid",
                                            !.verified = (v = "valid"), !.by = {a},
                                            !.errors = IF v = "valid" THEN @ ELSE {a}]]]
           /\ verdicts' = verdicts \cup
                 {[id |-> task[t].id, answer |-> a, verdict |-> v,
                   version |-> defs[rec.def], nonce |-> rec.nonce]}
    /\ UNCHANGED <<defs, x509, reqs, pres, nonces, handed>>

\* Bug: only the state is written, into the record as it is stored now.
StateOnly(i, copy) == [pres[i] EXCEPT !.state = copy.state]
\* The whole copy is written.
Written(i, copy) == copy

Save(t) ==
    /\ task[t].pc = "save"
    /\ LET i == task[t].id
       IN  pres' = IF Stored(i) THEN [pres EXCEPT ![i] = Written(i, task[t].copy)] ELSE pres
    /\ task' = [task EXCEPT ![t] = Idle]
    /\ UNCHANGED <<defs, x509, reqs, nonces, handed, verdicts>>

Next ==
    \/ \E d \in Defs : CreateDef(d) \/ UpdateDef(d) \/ RemoveDef(d)
    \/ DeleteX509 \/ \E n \in Names : RegisterX509(n)
    \/ \E i \in Ids : RemovePresentation(i) \/ \E d \in Defs : CreateRequest(i, d)
    \/ \E t \in Tasks :
          \/ \E i \in Ids : Fetch(t, i) \/ Post(t, i)
          \/ Consume(t) \/ Prepare(t) \/ Hand(t) \/ Verify(t) \/ Save(t)
Spec == Init /\ [][Next]_vars

-----------------------------------------------------------------------------
\* Records have one of the states of OID4VPPresentation, and one that says that
\* its request was retrieved has a nonce and no request any more.
TypeOK ==
    /\ defs \in [Defs -> 0..MaxVersion] /\ reqs \subseteq Ids /\ nonces \in 0..MaxNonces
    /\ \A i \in Ids : pres[i].state \in
          {"none", "removed", "request-created", "request-retrieved"} \cup Finals
    /\ \A i \in Ids : pres[i].state = "request-retrieved" =>
          i \notin reqs /\ pres[i].nonce > 0

\* A request object is handed out once, however many calls ask for it together
\* (get_request removes the record before it answers).
RetrievedOnce ==
    \A i \in Ids : \A g, h \in handed[i] : g = h

\* An answer that was posted without a request object, and verified against a
\* record that had no nonce: its copy, written back late, takes the nonce away.
Early(v) == v.answer.for = Unasked /\ v.nonce = 0

\* A sound answer made for the request object that was handed out is accepted
\* as long as the definition is the same, although the identity was registered,
\* changed or deleted between the creation of the request, its retrieval and
\* the answer (verification.py:117).  It is refused only when the record has
\* no nonce any more, which takes an early answer, and its format needs one.
HonestAccepted ==
    \A v \in verdicts :
        /\ v.answer.good /\ v.answer.for # Unasked
        /\ v.version = v.answer.for.version
        => \/ v.verdict = "valid"
           \/ /\ v.nonce = 0 /\ v.answer.format # "jwt_vc_json"
              /\ \E w \in verdicts : w.id = v.id /\ Early(w)

\* The verdict and the state that are kept are those of one answer, and of one
\* that was made for this request or for none: of two that are verified together
\* one wins as a whole.  Its errors are those of that answer when it was
\* refused; beside a valid verdict those of an earlier one may stay.
VerdictOfOneAnswer ==
    \A i \in Ids : pres[i].state \in Finals =>
        /\ pres[i].verified <=> pres[i].state = "presentation-valid"
        /\ \A a \in pres[i].by :
              a.for \in handed[i] \cup {Unasked} /\ (pres[i].verified => a.good)
        /\ ~pres[i].verified => pres[i].errors = pres[i].by

\* A request is fetched once, an honest answer to it is accepted unless an
\* early one took its nonce, and what is kept of its answers is of one of them.
AnswersApart == RetrievedOnce /\ HonestAccepted /\ VerdictOfOneAnswer
=============================================================================
