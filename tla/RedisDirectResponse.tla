------------------------- MODULE RedisDirectResponse -------------------------
(***************************************************************************)
(* Direct responses of the redis_events relays: a message that asks for a  *)
(* return route is put on the inbound list with a transaction id, the      *)
(* plugin instance that handles it pushes its response onto one list that  *)
(* all relays (ws and http) pop from, and the relay that waits for the     *)
(* transaction answers its caller.                                         *)
(*                                                                         *)
(* The relay notes the caller's request in the very map in which it will   *)
(* look for the response.  A push that Redis did not answer is repeated: a *)
(* request may be on the list, and be handled, several times.              *)
(***************************************************************************)
CONSTANTS
    Relays, Txns,
    Copies     \* what the repeated pushes of one request leave on the list

VARIABLES
    txnMap,     \* direct_response_txn_request_map of each relay: "none", "request",
                \* or the copy that the response answers
    caller,     \* the caller of each transaction
    relayOf,    \* the relay each transaction came in by
    sent,       \* copies of each request that were pushed
    inbound,    \* copies on the inbound lists
    responses   \* responses on the direct response list, by copy

vars == <<txnMap, caller, relayOf, sent, inbound, responses>>

Init ==
    /\ txnMap = [r \in Relays |-> [t \in Txns |-> "none"]]
    /\ caller = [t \in Txns |-> "away"]
    /\ relayOf \in [Txns -> Relays]
    /\ sent = [t \in Txns |-> {}]
    /\ inbound = {}
    /\ responses = {}

\* message_handler notes the request.
MessageHandler(t) ==
    /\ caller[t] = "away"
    /\ txnMap' = [txnMap EXCEPT ![relayOf[t]][t] = "request"]
    /\ caller' = [caller EXCEPT ![t] = "pushing"]
    /\ UNCHANGED <<relayOf, sent, inbound, responses>>

\* Redis adds the message to the list: the relay does not know yet, an instance
\* may take it, and if the reply is lost the relay pushes again.
Push(t, m) ==
    /\ caller[t] = "pushing" /\ m \notin sent[t]
    /\ sent' = [sent EXCEPT ![t] = @ \cup {m}]
    /\ inbound' = inbound \cup {<<t, m>>}
    /\ UNCHANGED <<txnMap, caller, relayOf, responses>>

\* The reply to the last push comes.
Pushed(t) ==
    /\ caller[t] = "pushing" /\ sent[t] # {}
    /\ caller' = [caller EXCEPT ![t] = "waiting"]
    /\ UNCHANGED <<txnMap, relayOf, sent, inbound, responses>>

\* The instance handles the message and pushes its response, once.
Respond(t, m) ==
    /\ <<t, m>> \in inbound
    /\ inbound' = inbound \ {<<t, m>>}
    /\ responses' = responses \cup {<<t, m>>}
    /\ UNCHANGED <<txnMap, caller, relayOf, sent>>

\* A pop that Redis does not answer, of either list, an instance that cannot
\* handle the message or push the response, or that stops.
Lose(t, m) ==
    /\ <<t, m>> \in inbound \cup responses
    /\ inbound' = inbound \ {<<t, m>>}
    /\ responses' = responses \ {<<t, m>>}
    /\ UNCHANGED <<txnMap, caller, relayOf, sent>>

\* Bug: the response is read and left on the list.
PeekResponse(r, t, m) ==
    /\ <<t, m>> \in responses
    /\ txnMap' = [txnMap EXCEPT ![r][t] = m]
    /\ UNCHANGED <<caller, relayOf, sent, inbound, responses>>

\* process_direct_responses: whichever relay pops it keeps it.
ProcessDirectResponse(r, t, m) ==
    /\ <<t, m>> \in responses
    /\ responses' = responses \ {<<t, m>>}
    /\ txnMap' = [txnMap EXCEPT ![r][t] = m]
    /\ UNCHANGED <<caller, relayOf, sent, inbound>>

\* get_direct_responses returns what the map has for the transaction, which is
\* the request if the response is not there yet: looking for the "response" in
\* it is a KeyError, and the caller gets an error.
GetDirectResponse(t) ==
    /\ caller[t] = "waiting"
    /\ caller' = [caller EXCEPT ![t] =
                    IF txnMap[relayOf[t]][t] \in Copies THEN "answered" ELSE "error"]
    /\ UNCHANGED <<txnMap, relayOf, sent, inbound, responses>>

Next ==
    \E t \in Txns :
        \/ MessageHandler(t) \/ Pushed(t) \/ GetDirectResponse(t)
        \/ \E m \in Copies :
              \/ Push(t, m) \/ Respond(t, m) \/ Lose(t, m)
              \/ \E r \in Relays : ProcessDirectResponse(r, t, m)

Spec == Init /\ [][Next]_vars

-----------------------------------------------------------------------------
\* Each copy of a request that was pushed has one response, kept by one relay:
\* what a caller is answered from, no other relay and neither list still has.
\* (A request that is pushed twice has two, which two relays may keep; and a
\* caller whose response went to another relay gets an error.)
AnsweredOnce ==
    \A t \in Txns, r \in Relays :
        LET m == txnMap[r][t]
        IN  /\ m \in Copies => /\ m \in sent[t] /\ <<t, m>> \notin inbound \cup responses
                               /\ \A q \in Relays : txnMap[q][t] = m => q = r
            /\ caller[t] = "answered" /\ r = relayOf[t] => m \in Copies
=============================================================================
