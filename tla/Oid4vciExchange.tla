-------------------------- MODULE Oid4vciExchange --------------------------
(***************************************************************************)
(* Issuance of a credential over HTTP (OID4VCI) without an external        *)
(* authorization server: the exchange records that the controller makes    *)
(* and refreshes, and the wallet's requests for a token, a nonce, a        *)
(* credential and a notification.                                          *)
(*                                                                         *)
(* Requests are served concurrently by one event loop.  A handler reads    *)
(* the record in one session, works on its copy over further awaits and    *)
(* saves the whole copy; for_update takes no lock in a plain session.  So  *)
(* every read of a record and every save is a step of its own.             *)
(***************************************************************************)
EXTENDS Naturals, FiniteSets

CONSTANTS
    Tasks,          \* slots for concurrent requests
    NonceEndpoint,  \* setting enable_nonce_endpoint
    MaxExchanges,   \* bound: exchange records created
    MaxCodes,       \* bound: pre-authorised codes created
    MaxNonces       \* bound: nonces created

VARIABLES
    rec,     \* exchange records by number
    last,    \* number of exchange records created
    nonces,  \* c_nonces by number: fresh or used
    codes,   \* number of codes the wallet was offered; they are 1..codes
    tokens,  \* subjects (refresh_id) of the access tokens the wallet was given
    made,    \* number of credentials given out for each exchange
    task     \* requests being served

vars == <<rec, last, nonces, codes, tokens, made, task>>

Exchanges == 1..MaxExchanges
Absent    == [state |-> "absent"]
None      == 0
States    == {"created", "offer", "issued", "accepted", "failed", "deleted", "superceded"}
Record    == [state : States, refresh_id : Exchanges, code : 0..MaxCodes,
              token : BOOLEAN, nonce : 0..MaxNonces]
NewRecord(id) == [state |-> "created", refresh_id |-> id, code |-> None,
                  token |-> FALSE, nonce |-> None]

Exists(x) == rec[x] # Absent
Fresh     == {v \in 1..MaxNonces : nonces[v] = "none"}
Lowest(S) == CHOOSE v \in S : \A w \in S : v <= w

\* Bug: an exchange of any state is found by its refresh_id.
OfAnyState(x) == TRUE
\* The states in which an exchange is found by its refresh_id.
IsOpen(x) == rec[x].state \in {"created", "offer"}
\* More than one is an error of the storage, as none is.
Retrieved(id) == {x \in Exchanges : Exists(x) /\ rec[x].refresh_id = id /\ IsOpen(x)}
Found(id, x)  == Retrieved(id) = {x}

Idle == [pc |-> "idle"]
Begin(t, pc, x) ==
    /\ task[t] = Idle
    /\ task' = [task EXCEPT ![t] = [pc |-> pc, x |-> x, copy |-> rec[x], v |-> None]]
Goto(t, s) == task' = [task EXCEPT ![t] = s]
At(t, pc)  == task[t].pc = pc
Done(t)    == Goto(t, Idle)
\* save of a whole record; it fails when the record was deleted meanwhile.
Saved(x, r) == IF Exists(x) THEN [rec EXCEPT ![x] = r] ELSE rec

Init ==
    /\ rec = [x \in Exchanges |-> Absent] /\ last = 0
    /\ nonces = [v \in 1..MaxNonces |-> "none"]
    /\ codes = 0 /\ tokens = {} /\ made = [x \in Exchanges |-> 0]
    /\ task = [t \in Tasks |-> Idle]

-----------------------------------------------------------------------------
(***************************************************************************)
(* The controller's requests.                                              *)
(***************************************************************************)
ExchangeCreate ==
    /\ last < MaxExchanges
    /\ last' = last + 1
    /\ rec' = [rec EXCEPT ![last'] = NewRecord(last')]
    /\ UNCHANGED <<nonces, codes, tokens, made, task>>

\* get_cred_offer and its variants.  An offer that exists is given again.
StartOffer(t, x) ==
    /\ Exists(x) /\ rec[x].state = "created"
    /\ Begin(t, "offer", x)
    /\ UNCHANGED <<rec, last, nonces, codes, tokens, made>>
SaveOffer(t) ==
    /\ At(t, "offer") /\ codes < MaxCodes
    /\ codes' = codes + 1
    /\ rec' = Saved(task[t].x, [task[t].copy EXCEPT !.state = "offer", !.code = codes + 1])
    /\ Done(t)
    /\ UNCHANGED <<last, nonces, tokens, made>>

\* credential_refresh: the open exchange is superseded, and a new one made.
StartRefresh(t, id) ==
    /\ id <= last
    /\ \/ \E x \in Exchanges :
             /\ Found(id, x) /\ rec[x].state # "offer"
             /\ Begin(t, "supersede", x)
       \/ /\ Retrieved(id) = {}
          /\ task[t] = Idle
          /\ Goto(t, [pc |-> "renew", id |-> id])
    /\ UNCHANGED <<rec, last, nonces, codes, tokens, made>>

\* Bug: the old exchange is left as it is.
LeftOpen(r) == r
Superseded(r) == [r EXCEPT !.state = "superceded"]

\* A record deleted since it was read is taken as none: the new one is made.
Supersede(t) ==
    /\ At(t, "supersede")
    /\ rec' = Saved(task[t].x, Superseded(task[t].copy))
    /\ Goto(t, [pc |-> "renew", id |-> task[t].copy.refresh_id])
    /\ UNCHANGED <<last, nonces, codes, tokens, made>>
Renew(t) ==
    /\ At(t, "renew") /\ last < MaxExchanges
    /\ last' = last + 1
    /\ rec' = [rec EXCEPT ![last'] = NewRecord(task[t].id)]
    /\ Done(t)
    /\ UNCHANGED <<nonces, codes, tokens, made>>

ExchangeDelete(x) ==
    /\ Exists(x)
    /\ rec' = [rec EXCEPT ![x] = Absent]
    /\ UNCHANGED <<last, nonces, codes, tokens, made, task>>

-----------------------------------------------------------------------------
(***************************************************************************)
(* The wallet's requests.                                                  *)
(***************************************************************************)
\* Bug: a code is redeemed again.
Always(x) == TRUE
NotRedeemed(x) == ~rec[x].token

\* token: the code is looked up, and the pin is right.
StartToken(t, x) ==
    /\ Exists(x) /\ rec[x].code # None /\ NotRedeemed(x)
    /\ Begin(t, "token", x)
    /\ UNCHANGED <<rec, last, nonces, codes, tokens, made>>
\* The token is signed and saved.  With a nonce endpoint it is the answer ...
SaveToken(t) ==
    /\ At(t, "token")
    /\ LET x == task[t].x
           r == [task[t].copy EXCEPT !.token = TRUE]
       IN  /\ rec' = Saved(x, r)
           /\ IF ~Exists(x) THEN Done(t) /\ UNCHANGED tokens
              ELSE IF NonceEndpoint
              THEN Done(t) /\ tokens' = tokens \cup {r.refresh_id}
              ELSE Goto(t, [task[t] EXCEPT !.pc = "c_nonce", !.copy = r]) /\ UNCHANGED tokens
    /\ UNCHANGED <<last, nonces, codes, made>>
\* ... else a c_nonce goes with it, which is saved in the record.
SaveNonce(t) ==
    /\ At(t, "c_nonce") /\ Fresh # {}
    /\ LET x == task[t].x
           r == [task[t].copy EXCEPT !.nonce = Lowest(Fresh)]
       IN  /\ rec' = Saved(x, r)
           /\ nonces' = [nonces EXCEPT ![r.nonce] = "fresh"]
           /\ tokens' = IF Exists(x) THEN tokens \cup {r.refresh_id} ELSE tokens
    /\ Done(t)
    /\ UNCHANGED <<last, codes, made>>

GetNonce ==
    /\ NonceEndpoint /\ Fresh # {}
    /\ nonces' = [nonces EXCEPT ![Lowest(Fresh)] = "fresh"]
    /\ UNCHANGED <<rec, last, codes, tokens, made, task>>

\* issue_cred, with the proof of a nonce v, one the wallet knows.
StartCredential(t, id, x, v) ==
    /\ id \in tokens /\ Found(id, x) /\ nonces[v] # "none"
    /\ task[t] = Idle
    /\ \/ /\ NonceEndpoint /\ nonces[v] = "fresh"
          /\ Goto(t, [pc |-> "redeem", x |-> x, copy |-> rec[x], v |-> v])
       \/ /\ ~NonceEndpoint /\ rec[x].nonce = v
          /\ Goto(t, [pc |-> "issue", x |-> x, copy |-> rec[x], v |-> v])
    /\ UNCHANGED <<rec, last, nonces, codes, tokens, made>>
\* redeem_by_value: the nonce that was read is saved as used.
Redeem(t) ==
    /\ At(t, "redeem")
    /\ nonces' = [nonces EXCEPT ![task[t].v] = "used"]
    /\ Goto(t, [task[t] EXCEPT !.pc = "issue"])
    /\ UNCHANGED <<rec, last, codes, tokens, made>>

\* Bug: the exchange is saved as issued before the credential is made.
IssuedAtOnce(t) == Saved(task[t].x, [task[t].copy EXCEPT !.state = "issued"])
Untouched(t) == rec
\* The proof is verified and the credential made, or either fails.
Issue(t) ==
    /\ At(t, "issue")
    /\ rec' = Untouched(t)
    /\ \E success \in BOOLEAN :
          IF success THEN Goto(t, [task[t] EXCEPT !.pc = "issued"]) ELSE Done(t)
    /\ UNCHANGED <<last, nonces, codes, tokens, made>>
\* Bug: the exchange is saved as it was.
StillOpen(r) == r
AsIssued(r) == [r EXCEPT !.state = "issued"]
\* The exchange is saved and the credential returned.
SaveIssued(t) ==
    /\ At(t, "issued")
    /\ LET x == task[t].x
       IN  /\ rec' = Saved(x, AsIssued(task[t].copy))
           /\ made' = IF Exists(x) THEN [made EXCEPT ![x] = @ + 1] ELSE made
    /\ Done(t)
    /\ UNCHANGED <<last, nonces, codes, tokens>>

\* receive_notification, of a wallet that has the notification_id with its
\* credential.
StartNotification(t, x) ==
    /\ Exists(x) /\ made[x] > 0 /\ tokens # {}
    /\ Begin(t, "notify", x)
    /\ UNCHANGED <<rec, last, nonces, codes, tokens, made>>
SaveNotification(t) ==
    /\ At(t, "notify")
    /\ \E s \in {"accepted", "failed", "deleted"} :
          rec' = Saved(task[t].x, [task[t].copy EXCEPT !.state = s])
    /\ Done(t)
    /\ UNCHANGED <<last, nonces, codes, tokens, made>>

Next ==
    \/ ExchangeCreate \/ GetNonce
    \/ \E x \in Exchanges : ExchangeDelete(x)
    \/ \E t \in Tasks :
          \/ \E x \in Exchanges :
                \/ StartOffer(t, x) \/ StartRefresh(t, x)
                \/ StartToken(t, x) \/ StartNotification(t, x)
                \/ \E id \in Exchanges, v \in 1..MaxNonces : StartCredential(t, id, x, v)
          \/ SaveOffer(t) \/ Supersede(t) \/ Renew(t) \/ SaveToken(t) \/ SaveNonce(t)
          \/ Redeem(t) \/ Issue(t) \/ SaveIssued(t) \/ SaveNotification(t)
Spec == Init /\ [][Next]_vars

-----------------------------------------------------------------------------
\* Records and requests are of the kinds the code makes.
TypeOK ==
    /\ \A x \in Exchanges : rec[x] = Absent \/ rec[x] \in Record
    /\ \A v \in 1..MaxNonces : nonces[v] \in {"none", "fresh", "used"}
    /\ codes \in 0..MaxCodes /\ tokens \subseteq Exchanges
    /\ \A t \in Tasks : task[t] = Idle \/ At(t, "renew") \/ task[t].copy \in Record

\* An exchange is past its offer only when a credential was given out for it,
\* whatever fails and in whatever order requests save (credential.py:280-290).
IssuedMeansMade ==
    \A x \in Exchanges :
        rec[x].state \in {"issued", "accepted", "failed", "deleted"} => made[x] > 0

\* One exchange gives one credential: a token that is used again finds no open
\* exchange (credential.py:171), also after refreshes (exchange.py:271).
OneCredential == \A x \in Exchanges : made[x] <= 1

\* Never are two exchanges of one refresh_id open, or the wallet could have
\* neither: a look-up that finds two is an error (models/exchange.py:105).
OneOpen ==
    \A x, y \in Exchanges :
        Exists(x) /\ Exists(y) /\ IsOpen(x) /\ IsOpen(y)
            /\ rec[x].refresh_id = rec[y].refresh_id => x = y
=============================================================================
