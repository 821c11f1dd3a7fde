----------------------------- MODULE JtiReplay -----------------------------
(***************************************************************************)
(* One-time JWTs of the oid4vc authorization server: the proofs of         *)
(* possession of client attestations and the assertions with which clients *)
(* authenticate.  The identifier (jti) of each is written to a table in    *)
(* the transaction of the request that it came with, and the row is there  *)
(* only if that transaction is committed: a token request that is refused  *)
(* may commit it, an introspection that is answered does not.  An INSERT   *)
(* of an identifier that another transaction has written waits for it.     *)
(***************************************************************************)
EXTENDS Naturals, Sequences

CONSTANTS
    Proofs,      \* proofs of possession, each of a time of issue (iat)
    Assertions,  \* client assertions, each of a time of expiry (exp)
    Requests,    \* slots for concurrent requests
    Skew,        \* setting ATTESTATION_CLOCK_SKEW_SECONDS
    Leeway,      \* leeway of the validation of assertions
    MaxTime,     \* bound: the clock
    MaxUses      \* bound: transactions that a JWT passes in

VARIABLES
    now,      \* the server's clock
    claim,    \* the time of issue or expiry that each JWT claims
    seen,     \* committed rows of jti_seen: expiry of the row, by JWT; 0 for none
    task,     \* requests in progress
    uses      \* by JWT, the transactions in which it was taken for a new one: the
              \* time of the check and the expiry of the row left, 0 for no row

vars == <<now, claim, seen, task, uses>>

Jwts   == Proofs \cup Assertions
Idle   == [pc |-> "idle"]
Window == 2 * Skew

Init ==
    /\ now = 1
    /\ claim \in [Jwts -> 1..MaxTime]
    /\ seen = [j \in Jwts |-> 0]
    /\ task = [q \in Requests |-> Idle]
    /\ uses = [j \in Jwts |-> <<>>]

Tick ==
    /\ now < MaxTime
    /\ now' = now + 1
    /\ UNCHANGED <<claim, seen, task, uses>>

\* Bug: the rows of transactions in progress are not waited for.
NoWait(j) == TRUE
\* No other transaction has written the identifier.
Unlocked(j) == \A q \in Requests : ~(task[q].pc = "stored" /\ task[q].jwt = j)

\* Bug: a row that is there is replaced.
AnyRow(j, t) == TRUE
\* The conflict is updated only when the row is expired.
Replaceable(j, t) == seen[j] <= t

\* How long the row is to last.
Lasts(j, t) == IF j \in Proofs THEN t + Window ELSE claim[j]

\* The checks of the claims: the time of issue lies in the window, or the
\* assertion is not expired.
InTime(j, t) ==
    IF j \in Proofs THEN claim[j] <= t + Skew /\ claim[j] + Window >= t
    ELSE claim[j] + Leeway > t

\* validate_client_attestation of a proof takes the time before it stores the
\* identifier and checks the claims after; _decode_and_validate_jwt of an
\* assertion checks the claims first.
Start(q, j) ==
    /\ task[q] = Idle /\ (j \in Assertions => InTime(j, now))
    /\ task' = [task EXCEPT ![q] = [pc |-> "check", jwt |-> j, at |-> now, asof |-> now]]
    /\ UNCHANGED <<now, claim, seen, uses>>

\* check_and_store takes the time again, with no await since the request took
\* it (less than a window has gone by), and may wait for the row after that.
CheckAndStore(q) ==
    /\ task[q].pc = "check" /\ Unlocked(task[q].jwt)
    /\ \E t \in task[q].at..now :
          /\ t <= task[q].at + Window
          /\ task' = [task EXCEPT ![q] =
                         IF Replaceable(@.jwt, t) /\ (@.jwt \in Proofs => InTime(@.jwt, @.at))
                         THEN [@ EXCEPT !.pc = "stored", !.asof = t] ELSE Idle]
    /\ UNCHANGED <<now, claim, seen, uses>>

Used(j, t, expiry) == [uses EXCEPT ![j] = Append(@, [at |-> t, row |-> expiry])]

\* The transaction is committed, with the row: a token request or a grant that
\* is answered, also a token request that is refused after a wrong transaction
\* code or the reuse of a refresh token.
Commit(q) ==
    /\ task[q].pc = "stored" /\ Len(uses[task[q].jwt]) < MaxUses
    /\ LET j == task[q].jwt
           r == Lasts(j, task[q].at)
       IN  seen' = [seen EXCEPT ![j] = r] /\ uses' = Used(j, task[q].asof, r)
    /\ task' = [task EXCEPT ![q] = Idle]
    /\ UNCHANGED <<now, claim>>

\* The request is answered and its row is not kept: introspect never commits,
\* and ensure_subject of a grant rolls back when its subject is there already.
AnswerUnrecorded(q) ==
    /\ task[q].pc = "stored" /\ task[q].jwt \in Assertions
    /\ Len(uses[task[q].jwt]) < MaxUses
    /\ uses' = Used(task[q].jwt, task[q].asof, 0)
    /\ task' = [task EXCEPT ![q] = Idle]
    /\ UNCHANGED <<now, claim, seen>>

\* The request fails otherwise: get_db_session rolls the transaction back.
RollBack(q) ==
    /\ task[q].pc = "stored"
    /\ task' = [task EXCEPT ![q] = Idle]
    /\ UNCHANGED <<now, claim, seen, uses>>

Next ==
    \/ Tick
    \/ \E q \in Requests :
          \/ \E j \in Jwts : Start(q, j)
          \/ CheckAndStore(q) \/ Commit(q) \/ AnswerUnrecorded(q) \/ RollBack(q)
Spec == Init /\ [][Next]_vars

-----------------------------------------------------------------------------
\* Rows and checks are of times the clock has shown.
TypeOK ==
    /\ seen \in [Jwts -> 0..(MaxTime + Window)]
    /\ \A j \in Jwts : \A k \in DOMAIN uses[j] : uses[j][k].at \in 1..now

\* A JWT that a transaction left a row of is not taken for a new one before the
\* row expires, however many requests bring it at a time (jti_cache.py:46): not
\* by one that is answered, nor by a refused one that is committed.  It says
\* nothing of a request that left no row: an assertion that came with an
\* introspection passes again (introspect.py:20).
SpacedUses ==
    \A j \in Jwts : \A k, l \in DOMAIN uses[j] :
        k < l => uses[j][k].row <= uses[j][l].at
=============================================================================
