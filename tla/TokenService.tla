---------------------------- MODULE TokenService ----------------------------
(***************************************************************************)
(* The token service of one tenant of the oid4vc authorization server:     *)
(* pre-authorised codes, access and refresh tokens of one subject.         *)
(*                                                                         *)
(* A request is one database transaction of several statements, with a     *)
(* remote signer called in the middle.  The database is PostgreSQL in its  *)
(* default isolation: a statement sees what is committed when it starts,   *)
(* an UPDATE waits for the transaction that has changed a row it is to     *)
(* change, and an INSERT of a token shares a lock on the subject's row,    *)
(* which SELECT .. FOR UPDATE takes for itself alone.  What a transaction  *)
(* has written is in its request's state until it commits; the locks it    *)
(* holds follow from how far it is.                                        *)
(***************************************************************************)
EXTENDS Naturals, FiniteSets

CONSTANTS
    Codes,      \* pre-authorised codes
    Requests,   \* slots for concurrent requests
    MaxTries,   \* setting MAX_TX_CODE_ATTEMPTS
    MaxTokens   \* bound: token pairs issued

ASSUME TokenServiceAssumption ==
    /\ MaxTries \in Nat \ {0} /\ MaxTokens \in Nat
    /\ Codes \cap (1..MaxTokens) = {}

VARIABLES
    pac,       \* codes: have they been made and used, and the wrong tx_codes counted
    guesses,   \* the wrong tx_codes answered since, as the callers know
    token,     \* token pairs that were committed, by number
    task,      \* requests being served
    breached   \* refresh tokens whose reuse was answered with a revocation

vars == <<pac, guesses, token, task, breached>>

Tokens == 1..MaxTokens

\* A pair of an access and a refresh token.  from is the code or the refresh
\* token it was issued for, line the refresh tokens it descends from.
Pair    == [issued : BOOLEAN, from : Codes \cup Tokens, line : SUBSET Tokens,
            used : BOOLEAN, revoked : BOOLEAN, accessRevoked : BOOLEAN]
NoPair  == [issued |-> FALSE]
NewPair(from, line) ==
    [issued |-> TRUE, from |-> from, line |-> line,
     used |-> FALSE, revoked |-> FALSE, accessRevoked |-> FALSE]

Idle   == [pc |-> "idle"]
Free(q) == task[q] = Idle
SetTask(q, t) == task' = [task EXCEPT ![q] = t]
Done(q) == SetTask(q, Idle)

Init ==
    /\ pac = [c \in Codes |-> [made |-> FALSE, used |-> FALSE, tries |-> 0]]
    /\ guesses = [c \in Codes |-> 0]
    /\ token = [n \in Tokens |-> NoPair]
    /\ task = [q \in Requests |-> Idle]
    /\ breached = {}

-----------------------------------------------------------------------------
(***************************************************************************)
(* Locks of the transactions in progress.                                  *)
(***************************************************************************)
\* A redemption that has consumed its code has that row.
HasCode(q, c) ==
    /\ task[q].pc \in {"sign", "insert", "commit"} /\ task[q].kind = "code"
    /\ task[q].of = c
\* A rotation that has consumed its refresh token has that row.
HasRefresh(q, n) ==
    /\ task[q].pc \in {"sign", "insert", "commit"} /\ task[q].kind = "rotation"
    /\ task[q].of = n
\* Once it has inserted the new pair it has marked the old access token too.
HasAccess(q, n) == HasRefresh(q, n) /\ task[q].pc = "commit"
\* A transaction that has inserted tokens shares the subject's row ...
SharesSubject(q) == task[q].pc = "commit"
\* Bug: a revocation does not lock the subject's row.
NeverHas(q) == FALSE
\* ... and a revocation has it alone.
HasSubject(q) == task[q].pc \in {"revokeAccess", "revokeRefresh"}

CodeFree(c)     == \A q \in Requests : ~HasCode(q, c)
RefreshFree(n)  == \A q \in Requests : ~HasRefresh(q, n)
AccessFree(n)   == \A q \in Requests : ~HasAccess(q, n)

-----------------------------------------------------------------------------
\* create_pre_authorized_code, for the subject of this model.
CreateCode(c) ==
    /\ ~pac[c].made
    /\ pac' = [pac EXCEPT ![c].made = TRUE]
    /\ UNCHANGED <<guesses, token, task, breached>>

\* issue_by_pre_auth_code: the code is read; a code that is used or expired
\* is rejected, and then nothing happens.
StartRedeem(q, c, right) ==
    /\ Free(q) /\ pac[c].made /\ ~pac[c].used
    /\ SetTask(q, [pc |-> IF right THEN "consume" ELSE "wrong",
                   kind |-> "code", of |-> c, tries |-> pac[c].tries])
    /\ UNCHANGED <<pac, guesses, token, breached>>

\* Bug: the count that was read is written back with one more.
OneMoreOfRead(t, p) == t.tries + 1
OneMore(t, p) == p.tries + 1

\* increment_tx_code_attempts: the row is counted up in the database, and the
\* code is burnt at the limit.  A code that was used meanwhile is left alone.
WrongTxCode(q) ==
    /\ task[q].pc = "wrong" /\ CodeFree(task[q].of)
    /\ LET c == task[q].of
           n == OneMore(task[q], pac[c])
       IN  IF pac[c].used THEN UNCHANGED <<pac, guesses>>
           ELSE /\ pac' = [pac EXCEPT ![c].tries = n, ![c].used = n >= MaxTries]
                /\ guesses' = [guesses EXCEPT ![c] = @ + 1]
    /\ Done(q)
    /\ UNCHANGED <<token, breached>>

\* Bug: a code is consumed whether or not it was used.
ConsumeAny(p) == TRUE
Consumable(p) == ~p.used

\* consume_valid of the code: it waits for whoever has the row.
ConsumeCode(q) ==
    /\ task[q].pc = "consume" /\ task[q].kind = "code" /\ CodeFree(task[q].of)
    /\ IF Consumable(pac[task[q].of])
       THEN SetTask(q, [task[q] EXCEPT !.pc = "sign"]) ELSE Done(q)
    /\ UNCHANGED <<pac, guesses, token, breached>>

\* rotate_by_refresh_token and its consume_valid.  A token that cannot be
\* consumed because it was used before is met again: a breach.
StartRotate(q, n) ==
    /\ Free(q) /\ token[n].issued /\ RefreshFree(n)
    /\ IF ~token[n].used /\ ~token[n].revoked
       THEN SetTask(q, [pc |-> "sign", kind |-> "rotation", of |-> n])
       ELSE IF token[n].used
       THEN SetTask(q, [pc |-> "subject", kind |-> "reuse", of |-> n])
       ELSE UNCHANGED task
    /\ UNCHANGED <<pac, guesses, token, breached>>

\* A redemption or rotation that fails is rolled back: an expired token, a
\* key that does not match, a signer that still fails when asked again.
GiveUp(q) ==
    /\ task[q].pc \in {"consume", "sign"}
    /\ Done(q)
    /\ UNCHANGED <<pac, guesses, token, breached>>

Sign(q) ==
    /\ task[q].pc = "sign"
    /\ SetTask(q, [task[q] EXCEPT !.pc = "insert"])
    /\ UNCHANGED <<pac, guesses, token, breached>>

\* The new tokens are inserted, when nobody has the subject's row alone, and
\* the old access token is marked, when nobody else has it.
Insert(q) ==
    /\ task[q].pc = "insert"
    /\ \A p \in Requests : ~HasSubject(p)
    /\ \E n \in Tokens : ~token[n].issued
    /\ SetTask(q, [task[q] EXCEPT !.pc = "commit"])
    /\ UNCHANGED <<pac, guesses, token, breached>>

\* A number not in use; no other request commits in between.
NewToken == CHOOSE n \in Tokens : ~token[n].issued

\* Bug: the refresh token is not marked as used.
Unmarked(n) == token
Marked(n) == [token EXCEPT ![n].used = TRUE, ![n].accessRevoked = TRUE]

\* The commit of a redemption or a rotation.
Commit(q) ==
    /\ task[q].pc = "commit"
    /\ \E n \in Tokens : ~token[n].issued
    /\ LET t == task[q]
       IN  IF t.kind = "code"
           THEN /\ pac' = [pac EXCEPT ![t.of].used = TRUE]
                /\ token' = [token EXCEPT ![NewToken] = NewPair(t.of, {})]
           ELSE /\ token' = [Marked(t.of) EXCEPT ![NewToken] =
                               NewPair(t.of, token[t.of].line \cup {t.of})]
                /\ UNCHANGED pac
    /\ Done(q)
    /\ UNCHANGED <<guesses, breached>>

-----------------------------------------------------------------------------
(***************************************************************************)
(* The revocation of the subject's tokens.                                 *)
(***************************************************************************)
SubjectFree(q) == \A p \in Requests \ {q} : ~HasSubject(p) /\ ~SharesSubject(p)

\* SELECT .. FOR UPDATE of the subject.  The rows that the first UPDATE is to
\* change are those it sees when it starts.
LockSubject(q) ==
    /\ task[q].pc = "subject" /\ SubjectFree(q)
    /\ SetTask(q, [pc |-> "revokeAccess", kind |-> "reuse", of |-> task[q].of,
                   access |-> {n \in Tokens : token[n].issued}])
    /\ UNCHANGED <<pac, guesses, token, breached>>

Unrevoked == {n \in Tokens : token[n].issued /\ ~token[n].revoked}

\* The UPDATE of the access tokens, then the start of that of the refresh
\* tokens.  A row that another transaction has is waited for.
RevokeAccess(q) ==
    /\ task[q].pc = "revokeAccess"
    /\ \A n \in task[q].access : AccessFree(n)
    /\ SetTask(q, [pc |-> "revokeRefresh", kind |-> "reuse", of |-> task[q].of,
                   access |-> task[q].access, refresh |-> Unrevoked])
    /\ UNCHANGED <<pac, guesses, token, breached>>

\* The UPDATE of the refresh tokens ends and the revocation is committed.
RevokeRefresh(q) ==
    /\ task[q].pc = "revokeRefresh"
    /\ \A n \in task[q].refresh : RefreshFree(n)
    /\ token' = [n \in Tokens |->
                   IF ~token[n].issued THEN token[n]
                   ELSE [token[n] EXCEPT
                           !.accessRevoked = @ \/ n \in task[q].access,
                           !.revoked = @ \/ n \in task[q].refresh]]
    /\ breached' = breached \cup {task[q].of}
    /\ Done(q)
    /\ UNCHANGED <<pac, guesses>>

(***************************************************************************)
(* A revocation that waits for the refresh token of a rotation, which      *)
(* waits for the subject: the database ends one of the two, with an error. *)
(***************************************************************************)
Deadlocked(q, p) ==
    /\ task[q].pc = "revokeRefresh"
    /\ task[p].pc = "insert"
    /\ \E n \in task[q].refresh : HasRefresh(p, n)
BreakDeadlock(q, p, victim) ==
    /\ Deadlocked(q, p) /\ victim \in {q, p}
    /\ Done(victim)
    /\ UNCHANGED <<pac, guesses, token, breached>>

Next ==
    \/ \E c \in Codes : CreateCode(c)
    \/ \E q \in Requests, c \in Codes, right \in BOOLEAN : StartRedeem(q, c, right)
    \/ \E q \in Requests, n \in Tokens : StartRotate(q, n)
    \/ \E q \in Requests :
          \/ WrongTxCode(q) \/ ConsumeCode(q) \/ GiveUp(q) \/ Sign(q)
          \/ Insert(q) \/ Commit(q)
          \/ LockSubject(q) \/ RevokeAccess(q) \/ RevokeRefresh(q)
    \/ \E q, p \in Requests, victim \in Requests : BreakDeadlock(q, p, victim)
Spec == Init /\ [][Next]_vars

-----------------------------------------------------------------------------
\* The tables have rows the code can make.
TypeOK ==
    /\ pac \in [Codes -> [made : BOOLEAN, used : BOOLEAN, tries : 0..MaxTries]]
    /\ \A n \in Tokens : token[n] = NoPair \/ token[n] \in Pair
    /\ breached \subseteq Tokens

Issued == {n \in Tokens : token[n].issued}

\* A code and a refresh token give one pair of tokens each, however many
\* requests redeem them together (token_service.py:97, :171).
OnePairEach ==
    \A m, n \in Issued : token[m].from = token[n].from => m = n

\* Every wrong tx_code that was answered is counted, also when several are
\* tried together, until the code is used up (token_service.py:89).
GuessesCounted ==
    \A c \in Codes : ~pac[c].used => guesses[c] = pac[c].tries /\ guesses[c] < MaxTries

\* Once the reuse of a refresh token was answered with a revocation, nothing
\* that descends from it is good for anything, also what a rotation was about
\* to issue at that moment (token_service.py:182-190).
Usable(n) == ~token[n].accessRevoked \/ (~token[n].used /\ ~token[n].revoked)
FamilyRevoked == \A b \in breached, n \in Issued : b \in token[n].line => ~Usable(n)

\* A rotated token is never good again: neither half of the pair it was in.
RotatedAway == \A m, n \in Issued : token[m].from = n => ~Usable(n)

\* What a code is good for: one pair of tokens, or so many wrong guesses.
CodesOnce == OnePairEach /\ GuessesCounted

\* What was superseded, by a rotation or by a revocation, stays useless.
SupersededUseless == FamilyRevoked /\ RotatedAway
=============================================================================
