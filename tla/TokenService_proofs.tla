------------------------ MODULE TokenService_proofs ------------------------
(***************************************************************************)
(* Theorems about the token service, for any number of codes, requests,    *)
(* token pairs and guesses: a code and a refresh token give one pair, and  *)
(* after the reuse of a refresh token nothing of its family is usable.     *)
(* Then about the parts beside it: the keys of a tenant, the exchanges of  *)
(* issuance, the nonces of the nonce endpoint, the cached provider keys    *)
(* and the tokens of the multitenant provider.                             *)
(***************************************************************************)
EXTENDS TokenService, Sequences, WellFoundedInduction, SequenceTheorems, TLAPS

-----------------------------------------------------------------------------
(***************************************************************************)
(* The inductive invariant.                                                *)
(***************************************************************************)
\* A request redeems a code, rotates a refresh token, or answers a reuse.
CodeTask     == [pc : {"wrong", "consume", "sign", "insert", "commit"}, kind : {"code"},
                 of : Codes, tries : 0..MaxTries]
RotationTask == [pc : {"sign", "insert", "commit"}, kind : {"rotation"}, of : Tokens]
ReuseTask    == [pc : {"subject"}, kind : {"reuse"}, of : Tokens]
AccessTask   == [pc : {"revokeAccess"}, kind : {"reuse"}, of : Tokens,
                 access : SUBSET Tokens]
RefreshTask  == [pc : {"revokeRefresh"}, kind : {"reuse"}, of : Tokens,
                 access : SUBSET Tokens, refresh : SUBSET Tokens]
Task == {Idle} \cup CodeTask \cup RotationTask \cup ReuseTask \cup AccessTask \cup RefreshTask

Row == {NoPair} \cup {p \in Pair : p.issued}

TypeInv ==
    /\ pac \in [Codes -> [made : BOOLEAN, used : BOOLEAN, tries : 0..MaxTries]]
    /\ guesses \in [Codes -> Nat]
    /\ token \in [Tokens -> Row]
    /\ task \in [Requests -> Task]
    /\ breached \subseteq Tokens

\* A code that is being redeemed is not used, and by one request only.
CodeHeld ==
    \A q \in Requests, c \in Codes :
        HasCode(q, c) => ~pac[c].used /\ \A p \in Requests : HasCode(p, c) => p = q
\* A refresh token that is being rotated is good, and by one request only.
RefreshHeld ==
    \A q \in Requests, n \in Tokens :
        HasRefresh(q, n) =>
            /\ token[n].issued /\ ~token[n].used /\ ~token[n].revoked
            /\ \A p \in Requests : HasRefresh(p, n) => p = q

\* What a pair was issued for is used up.
FromUsed ==
    \A n \in Issued :
        \/ token[n].from \in Codes /\ pac[token[n].from].used
        \/ /\ token[n].from \in Issued /\ token[token[n].from].used
           /\ token[token[n].from].accessRevoked

\* A token whose reuse is or was answered is used.
ReusedUsed ==
    /\ \A q \in Requests :
          task[q].pc \in {"subject", "revokeAccess", "revokeRefresh"}
              => task[q].of \in Issued /\ token[task[q].of].used
    /\ \A b \in breached : b \in Issued /\ token[b].used

\* While a request has the subject's row nobody else does, nothing is
\* committed, and it will revoke all there is.
SubjectHeld ==
    \A q \in Requests : HasSubject(q) =>
        /\ task[q].access = Issued
        /\ task[q].pc = "revokeRefresh" => task[q].refresh = Unrevoked
        /\ \A p \in Requests \ {q} : ~HasSubject(p) /\ ~SharesSubject(p)

IInv ==
    /\ TypeInv /\ GuessesCounted
    /\ CodeHeld /\ RefreshHeld /\ FromUsed /\ OnePairEach
    /\ ReusedUsed /\ SubjectHeld /\ FamilyRevoked

USE DEF Tokens

\* The states of the requests that the invariant tells apart.
LEMMA TaskKinds ==
    ASSUME TypeInv, NEW q \in Requests
    PROVE  /\ task[q].pc = "idle" <=> task[q] = Idle
           /\ task[q].pc \in {"wrong", "consume"} => task[q] \in CodeTask
           /\ task[q].pc \in {"sign", "insert", "commit"} =>
                 (task[q] \in CodeTask /\ task[q].kind = "code")
                 \/ (task[q] \in RotationTask /\ task[q].kind = "rotation")
           /\ task[q].pc = "subject" => task[q] \in ReuseTask
           /\ task[q].pc = "revokeAccess" => task[q] \in AccessTask
           /\ task[q].pc = "revokeRefresh" => task[q] \in RefreshTask
<1>1. task[q] \in Task
  BY DEF TypeInv
<1> QED BY <1>1 DEF Task, Idle, CodeTask, RotationTask, ReuseTask, AccessTask, RefreshTask

\* Only the slot of the request changes.
LEMMA SlotTypes ==
    ASSUME TypeInv, NEW q \in Requests, NEW t \in Task, SetTask(q, t)
    PROVE  /\ task' \in [Requests -> Task]
           /\ task'[q] = t
           /\ \A p \in Requests \ {q} : task'[p] = task[p]
BY DEF TypeInv, SetTask

\* At the start nothing was issued, redeemed or revoked.
LEMMA InitInv == Init => IInv
<1> SUFFICES ASSUME Init PROVE IInv
  OBVIOUS
<1> USE TokenServiceAssumption
<1>1. TypeInv
  BY DEF Init, TypeInv, Row, Task, NoPair
<1>2. Issued = {}
  BY DEF Init, Issued, NoPair
<1>3. \A q \in Requests : task[q].pc = "idle"
  BY DEF Init, Idle
<1>4. GuessesCounted
  BY DEF Init, GuessesCounted
<1>5. CodeHeld /\ RefreshHeld
  BY <1>3 DEF CodeHeld, RefreshHeld, HasCode, HasRefresh
<1>6. ReusedUsed /\ SubjectHeld
  BY <1>3 DEF Init, ReusedUsed, SubjectHeld, HasSubject
<1>7. FromUsed /\ OnePairEach /\ FamilyRevoked
  BY <1>2 DEF FromUsed, OnePairEach, FamilyRevoked
<1> QED BY <1>1, <1>4, <1>5, <1>6, <1>7 DEF IInv

-----------------------------------------------------------------------------
(***************************************************************************)
(* Steps of one request.                                                   *)
(***************************************************************************)
\* What the other requests hold stays as it is.
LEMMA OthersHold ==
    ASSUME TypeInv, NEW q \in Requests, NEW t \in Task, SetTask(q, t),
           NEW p \in Requests \ {q}
    PROVE  /\ \A c \in Codes : HasCode(p, c)' <=> HasCode(p, c)
           /\ \A n \in Tokens : HasRefresh(p, n)' <=> HasRefresh(p, n)
           /\ HasSubject(p)' <=> HasSubject(p)
           /\ SharesSubject(p)' <=> SharesSubject(p)
           /\ task'[p] = task[p]
<1>1. task'[p] = task[p]
  BY SlotTypes
<1> QED BY <1>1 DEF HasCode, HasRefresh, HasSubject, SharesSubject

\* Without a change of the tables the facts about them stay.
LEMMA TablesKept ==
    ASSUME IInv, UNCHANGED <<pac, guesses, token, breached>>,
           task' \in [Requests -> Task]
    PROVE  /\ TypeInv' /\ GuessesCounted' /\ FromUsed' /\ OnePairEach' /\ FamilyRevoked'
           /\ Issued' = Issued /\ Unrevoked' = Unrevoked
<1>1. Issued' = Issued /\ Unrevoked' = Unrevoked
  BY DEF Issued, Unrevoked
<1>2. TypeInv'
  BY DEF IInv, TypeInv
<1>3. GuessesCounted' /\ OnePairEach' /\ FromUsed'
  BY <1>1 DEF IInv, GuessesCounted, OnePairEach, FromUsed
<1>4. FamilyRevoked'
  BY <1>1 DEF IInv, FamilyRevoked, Usable
<1> QED BY <1>1, <1>2, <1>3, <1>4

\* A request that takes no lock it did not have, and is no revocation, keeps
\* the invariant when the tables do not change.
LEMMA QuietStep ==
    ASSUME IInv, UNCHANGED <<pac, guesses, token, breached>>,
           NEW q \in Requests, NEW t \in {Idle} \cup CodeTask \cup RotationTask,
           SetTask(q, t), t.pc = "commit" => \A p \in Requests : ~HasSubject(p),
           \A c \in Codes : HasCode(q, c)' =>
               ~pac[c].used /\ \A p \in Requests \ {q} : ~HasCode(p, c),
           \A n \in Tokens : HasRefresh(q, n)' =>
               /\ token[n].issued /\ ~token[n].used /\ ~token[n].revoked
               /\ \A p \in Requests \ {q} : ~HasRefresh(p, n)
    PROVE  IInv'
<1>1. TypeInv
  BY DEF IInv
<1>2. t \in Task
  BY DEF Task
<1>3. task' \in [Requests -> Task] /\ task'[q] = t
  BY <1>1, <1>2, SlotTypes
<1>4. /\ TypeInv' /\ GuessesCounted' /\ FromUsed' /\ OnePairEach' /\ FamilyRevoked'
      /\ Issued' = Issued /\ Unrevoked' = Unrevoked
  BY <1>3, TablesKept
<1>5. \A p \in Requests \ {q} :
         /\ \A c \in Codes : HasCode(p, c)' <=> HasCode(p, c)
         /\ \A n \in Tokens : HasRefresh(p, n)' <=> HasRefresh(p, n)
         /\ HasSubject(p)' <=> HasSubject(p)
         /\ SharesSubject(p)' <=> SharesSubject(p)
         /\ task'[p] = task[p]
  BY <1>1, <1>2, OthersHold
<1>6. t.pc \in {"idle", "wrong", "consume", "sign", "insert", "commit"}
  BY DEF Idle, CodeTask, RotationTask
<1>7. ~HasSubject(q)' /\ (SharesSubject(q)' => \A p \in Requests : ~HasSubject(p))
  BY <1>3, <1>6 DEF HasSubject, SharesSubject
<1>8. CodeHeld'
  BY <1>5 DEF IInv, CodeHeld
<1>9. RefreshHeld'
  BY <1>5 DEF IInv, RefreshHeld
<1>10. ReusedUsed'
  BY <1>3, <1>4, <1>5, <1>6 DEF IInv, ReusedUsed
<1>11. SubjectHeld'
  BY <1>4, <1>5, <1>7 DEF IInv, SubjectHeld
<1> QED BY <1>4, <1>8, <1>9, <1>10, <1>11 DEF IInv

\* Reading a code takes no lock.
LEMMA StartRedeemStep ==
    ASSUME IInv, NEW q \in Requests, NEW c \in Codes, NEW right \in BOOLEAN,
           StartRedeem(q, c, right)
    PROVE  IInv'
<1> DEFINE t == [pc |-> IF right THEN "consume" ELSE "wrong",
                 kind |-> "code", of |-> c, tries |-> pac[c].tries]
<1>1. t \in CodeTask
  BY DEF IInv, TypeInv, CodeTask
<1>2. SetTask(q, t) /\ UNCHANGED <<pac, guesses, token, breached>>
  BY DEF StartRedeem
<1>3. task'[q] = t
  BY <1>1, <1>2, SlotTypes DEF IInv, Task
<1>4. t.pc \in {"consume", "wrong"}
  OBVIOUS
<1> HIDE DEF t
<1>5. \A d \in Codes : ~HasCode(q, d)'
  BY <1>3, <1>4 DEF HasCode
<1>6. \A n \in Tokens : ~HasRefresh(q, n)'
  BY <1>3, <1>4 DEF HasRefresh
<1> QED BY <1>1, <1>2, <1>4, <1>5, <1>6, QuietStep

\* A request that ends gives back what it held.
LEMMA DoneStep ==
    ASSUME IInv, UNCHANGED <<pac, guesses, token, breached>>,
           NEW q \in Requests, Done(q)
    PROVE  IInv'
<1>1. SetTask(q, Idle)
  BY DEF Done
<1>2. task'[q] = Idle
  BY <1>1, SlotTypes DEF IInv, Task
<1>3. Idle.pc = "idle"
  BY DEF Idle
<1>4. /\ \A c \in Codes : ~HasCode(q, c)'
      /\ \A n \in Tokens : ~HasRefresh(q, n)'
  BY <1>2, <1>3 DEF HasCode, HasRefresh
<1> QED BY <1>1, <1>3, <1>4, QuietStep

\* A code is taken only when it is free and not used.
LEMMA ConsumeCodeStep ==
    ASSUME IInv, NEW q \in Requests, ConsumeCode(q)
    PROVE  IInv'
<1>1. UNCHANGED <<pac, guesses, token, breached>>
  BY DEF ConsumeCode
<1>2. CASE ~Consumable(pac[task[q].of])
  BY <1>1, <1>2, DoneStep DEF ConsumeCode
<1>3. CASE Consumable(pac[task[q].of])
  <2> DEFINE t == [task[q] EXCEPT !.pc = "sign"]
  <2>1. task[q] \in CodeTask
    BY TaskKinds DEF IInv, ConsumeCode
  <2>2. t \in CodeTask /\ t.pc = "sign" /\ t.kind = "code" /\ t.of = task[q].of
        /\ t.of \in Codes
    BY <2>1 DEF CodeTask
  <2>3. SetTask(q, t)
    BY <1>3 DEF ConsumeCode
  <2> HIDE DEF t
  <2>4. task'[q] = t
    BY <2>2, <2>3, SlotTypes DEF IInv, Task
  <2>5. \A c \in Codes : HasCode(q, c)' =>
           ~pac[c].used /\ \A p \in Requests \ {q} : ~HasCode(p, c)
    BY <1>3, <2>2, <2>4 DEF ConsumeCode, HasCode, CodeFree, Consumable
  <2>6. \A n \in Tokens : ~HasRefresh(q, n)'
    BY <2>2, <2>4 DEF HasRefresh
  <2> QED BY <1>1, <2>2, <2>3, <2>5, <2>6, QuietStep
<1> QED BY <1>2, <1>3

\* A redemption or a rotation that goes on holds what it held.
LEMMA GoOnStep ==
    ASSUME IInv, UNCHANGED <<pac, guesses, token, breached>>, NEW q \in Requests,
           task[q].pc \in {"sign", "insert"}, NEW pc \in {"insert", "commit"},
           SetTask(q, [task[q] EXCEPT !.pc = pc]),
           pc = "commit" => \A p \in Requests : ~HasSubject(p)
    PROVE  IInv'
<1> DEFINE t == [task[q] EXCEPT !.pc = pc]
<1>1. (task[q] \in CodeTask /\ task[q].kind = "code")
      \/ (task[q] \in RotationTask /\ task[q].kind = "rotation")
  BY TaskKinds DEF IInv
<1>2. /\ t \in CodeTask \cup RotationTask /\ t.pc = pc
      /\ t.kind = task[q].kind /\ t.of = task[q].of
  BY <1>1 DEF CodeTask, RotationTask
<1> HIDE DEF t
<1>3. SetTask(q, t)
  BY DEF t
<1>4. task'[q] = t
  BY <1>2, <1>3, SlotTypes DEF IInv, Task
<1>5. \A c \in Codes : HasCode(q, c)' => HasCode(q, c)
  BY <1>2, <1>4 DEF HasCode
<1>6. \A n \in Tokens : HasRefresh(q, n)' => HasRefresh(q, n)
  BY <1>2, <1>4 DEF HasRefresh
<1>7. \A c \in Codes : HasCode(q, c)' =>
         ~pac[c].used /\ \A p \in Requests \ {q} : ~HasCode(p, c)
  BY <1>5 DEF IInv, CodeHeld
<1>8. \A n \in Tokens : HasRefresh(q, n)' =>
         /\ token[n].issued /\ ~token[n].used /\ ~token[n].revoked
         /\ \A p \in Requests \ {q} : ~HasRefresh(p, n)
  BY <1>6 DEF IInv, RefreshHeld
<1> QED BY <1>2, <1>3, <1>7, <1>8, QuietStep

\* A refresh token is taken only when it is free and good; one that was used
\* before is a reuse, which holds nothing yet.
LEMMA ReuseStep ==
    ASSUME IInv, UNCHANGED <<pac, guesses, token, breached>>, NEW q \in Requests,
           NEW t \in ReuseTask \cup AccessTask \cup RefreshTask, SetTask(q, t),
           t.of \in Issued, token[t.of].used, SubjectHeld'
    PROVE  IInv'
<1>1. TypeInv
  BY DEF IInv
<1>2. t \in Task
  BY DEF Task
<1>3. task' \in [Requests -> Task] /\ task'[q] = t
  BY <1>1, <1>2, SlotTypes
<1>4. /\ TypeInv' /\ GuessesCounted' /\ FromUsed' /\ OnePairEach' /\ FamilyRevoked'
      /\ Issued' = Issued /\ Unrevoked' = Unrevoked
  BY <1>3, TablesKept
<1>5. \A p \in Requests \ {q} :
         /\ \A c \in Codes : HasCode(p, c)' <=> HasCode(p, c)
         /\ \A n \in Tokens : HasRefresh(p, n)' <=> HasRefresh(p, n)
         /\ task'[p] = task[p]
  BY <1>1, <1>2, OthersHold
<1>6. t.pc \in {"subject", "revokeAccess", "revokeRefresh"}
  BY DEF ReuseTask, AccessTask, RefreshTask
<1>7. /\ \A c \in Codes : ~HasCode(q, c)'
      /\ \A n \in Tokens : ~HasRefresh(q, n)'
  BY <1>3, <1>6 DEF HasCode, HasRefresh
<1>8. CodeHeld'
  BY <1>5, <1>7 DEF IInv, CodeHeld
<1>9. RefreshHeld'
  BY <1>5, <1>7 DEF IInv, RefreshHeld
<1>10. ReusedUsed'
  BY <1>3, <1>4, <1>5 DEF IInv, ReusedUsed
<1> QED BY <1>4, <1>8, <1>9, <1>10 DEF IInv

LEMMA StartRotateStep ==
    ASSUME IInv, NEW q \in Requests, NEW n \in Tokens, StartRotate(q, n)
    PROVE  IInv'
<1>1. UNCHANGED <<pac, guesses, token, breached>> /\ token[n].issued /\ RefreshFree(n)
  BY DEF StartRotate
<1>2. CASE ~token[n].used /\ ~token[n].revoked
  <2> DEFINE t == [pc |-> "sign", kind |-> "rotation", of |-> n]
  <2>1. t \in RotationTask /\ t.pc = "sign" /\ t.kind = "rotation" /\ t.of = n
    BY DEF RotationTask
  <2>2. SetTask(q, t)
    BY <1>2 DEF StartRotate
  <2> HIDE DEF t
  <2>3. task'[q] = t
    BY <2>1, <2>2, SlotTypes DEF IInv, Task
  <2>4. \A c \in Codes : ~HasCode(q, c)'
    BY <2>1, <2>3 DEF HasCode
  <2>5. \A m \in Tokens : HasRefresh(q, m)' =>
           /\ token[m].issued /\ ~token[m].used /\ ~token[m].revoked
           /\ \A p \in Requests \ {q} : ~HasRefresh(p, m)
    BY <1>1, <1>2, <2>1, <2>3 DEF HasRefresh, RefreshFree
  <2> QED BY <1>1, <2>1, <2>2, <2>4, <2>5, QuietStep
<1>3. CASE token[n].used
  <2> DEFINE t == [pc |-> "subject", kind |-> "reuse", of |-> n]
  <2>1. t \in ReuseTask /\ t.pc = "subject" /\ t.of = n
    BY DEF ReuseTask
  <2>2. SetTask(q, t)
    BY <1>3 DEF StartRotate
  <2> HIDE DEF t
  <2>3. n \in Issued
    BY <1>1 DEF Issued
  <2>4. t \in Task /\ TypeInv
    BY <2>1 DEF Task, IInv
  <2>5. task'[q] = t
    BY <2>2, <2>4, SlotTypes
  <2>6. ~HasSubject(q)' /\ ~SharesSubject(q)'
    BY <2>1, <2>5 DEF HasSubject, SharesSubject
  <2>7. \A p \in Requests \ {q} :
           /\ HasSubject(p)' <=> HasSubject(p)
           /\ SharesSubject(p)' <=> SharesSubject(p)
           /\ task'[p] = task[p]
    BY <2>2, <2>4, OthersHold
  <2>8. Issued' = Issued /\ Unrevoked' = Unrevoked
    BY <1>1 DEF Issued, Unrevoked
  <2>9. SubjectHeld'
    BY <2>6, <2>7, <2>8 DEF IInv, SubjectHeld
  <2> QED BY <1>1, <1>3, <2>1, <2>2, <2>3, <2>9, ReuseStep
<1>4. CASE token[n].revoked /\ ~token[n].used
  <2>1. UNCHANGED task
    BY <1>4 DEF StartRotate
  <2>2. UNCHANGED vars
    BY <1>1, <2>1 DEF vars
  <2> QED BY <2>2 DEF vars, IInv, TypeInv, GuessesCounted, CodeHeld, RefreshHeld, FromUsed,
             OnePairEach, ReusedUsed, SubjectHeld, FamilyRevoked, Issued, Unrevoked, Usable,
             HasCode, HasRefresh, HasSubject, SharesSubject
<1> QED BY <1>2, <1>3, <1>4

\* The revocation takes the subject's row when nobody has it or shares it.
LEMMA LockSubjectStep ==
    ASSUME IInv, NEW q \in Requests, LockSubject(q)
    PROVE  IInv'
<1> DEFINE t == [pc |-> "revokeAccess", kind |-> "reuse", of |-> task[q].of,
                 access |-> {n \in Tokens : token[n].issued}]
<1>1. TypeInv /\ task[q].pc = "subject" /\ SubjectFree(q)
      /\ UNCHANGED <<pac, guesses, token, breached>>
  BY DEF IInv, LockSubject
<1>2. task[q].of \in Tokens
  BY <1>1, TaskKinds DEF ReuseTask
<1>3. /\ t \in AccessTask /\ t.pc = "revokeAccess" /\ t.of = task[q].of
      /\ t.access = Issued
  BY <1>2 DEF AccessTask, Issued
<1>4. SetTask(q, t)
  BY DEF LockSubject
<1> HIDE DEF t
<1>5. t \in Task
  BY <1>3 DEF Task
<1>6. task'[q] = t
  BY <1>1, <1>4, <1>5, SlotTypes
<1>7. \A p \in Requests \ {q} : ~HasSubject(p)' /\ ~SharesSubject(p)'
  BY <1>1, <1>4, <1>5, OthersHold DEF SubjectFree
<1>8. Issued' = Issued
  BY <1>1 DEF Issued
<1>9. SubjectHeld'
  BY <1>3, <1>6, <1>7, <1>8 DEF SubjectHeld
<1>10. t.of \in Issued /\ token[t.of].used
  BY <1>1, <1>3 DEF IInv, ReusedUsed
<1> QED BY <1>1, <1>3, <1>4, <1>9, <1>10, ReuseStep

LEMMA RevokeAccessStep ==
    ASSUME IInv, NEW q \in Requests, RevokeAccess(q)
    PROVE  IInv'
<1> DEFINE t == [pc |-> "revokeRefresh", kind |-> "reuse", of |-> task[q].of,
                 access |-> task[q].access, refresh |-> Unrevoked]
<1>1. TypeInv /\ task[q].pc = "revokeAccess" /\ HasSubject(q)
      /\ UNCHANGED <<pac, guesses, token, breached>>
  BY DEF IInv, RevokeAccess, HasSubject
<1>2. task[q].of \in Tokens /\ task[q].access \in SUBSET Tokens
  BY <1>1, TaskKinds DEF AccessTask
<1>3. /\ t \in RefreshTask /\ t.pc = "revokeRefresh" /\ t.of = task[q].of
      /\ t.access = task[q].access /\ t.refresh = Unrevoked
  BY <1>2 DEF RefreshTask, Unrevoked
<1>4. SetTask(q, t)
  BY DEF RevokeAccess
<1> HIDE DEF t
<1>5. t \in Task
  BY <1>3 DEF Task
<1>6. task'[q] = t
  BY <1>1, <1>4, <1>5, SlotTypes
<1>7. task[q].access = Issued /\ \A p \in Requests \ {q} : ~HasSubject(p) /\ ~SharesSubject(p)
  BY <1>1 DEF IInv, SubjectHeld
<1>8. \A p \in Requests \ {q} : ~HasSubject(p)' /\ ~SharesSubject(p)'
  BY <1>1, <1>4, <1>5, <1>7, OthersHold
<1>9. Issued' = Issued /\ Unrevoked' = Unrevoked
  BY <1>1 DEF Issued, Unrevoked
<1>10. SubjectHeld'
  BY <1>3, <1>6, <1>7, <1>8, <1>9 DEF SubjectHeld
<1>11. t.of \in Issued /\ token[t.of].used
  BY <1>1, <1>3 DEF IInv, ReusedUsed
<1> QED BY <1>1, <1>3, <1>4, <1>10, <1>11, ReuseStep

-----------------------------------------------------------------------------
(***************************************************************************)
(* Steps that change the tables.                                           *)
(***************************************************************************)
LEMMA CreateCodeStep ==
    ASSUME IInv, NEW c \in Codes, CreateCode(c)
    PROVE  IInv'
<1>1. UNCHANGED <<guesses, token, task, breached>> /\ pac' = [pac EXCEPT ![c].made = TRUE]
  BY DEF CreateCode
<1>2. pac \in [Codes -> [made : BOOLEAN, used : BOOLEAN, tries : 0..MaxTries]]
  BY DEF IInv, TypeInv
<1>3. /\ pac' \in [Codes -> [made : BOOLEAN, used : BOOLEAN, tries : 0..MaxTries]]
      /\ \A d \in Codes : pac'[d].used = pac[d].used /\ pac'[d].tries = pac[d].tries
  BY <1>1, <1>2
<1>4. TypeInv'
  BY <1>1, <1>3 DEF IInv, TypeInv
<1>5. GuessesCounted'
  BY <1>1, <1>3 DEF IInv, GuessesCounted
<1>6. CodeHeld' /\ RefreshHeld'
  BY <1>1, <1>3 DEF IInv, CodeHeld, RefreshHeld, HasCode, HasRefresh
<1>7. FromUsed'
  BY <1>1, <1>3 DEF IInv, FromUsed, Issued
<1>8. OnePairEach' /\ ReusedUsed' /\ FamilyRevoked'
  BY <1>1 DEF IInv, OnePairEach, ReusedUsed, FamilyRevoked, Issued, Usable
<1>9. SubjectHeld'
  BY <1>1 DEF IInv, SubjectHeld, HasSubject, SharesSubject, Issued, Unrevoked
<1> QED BY <1>4, <1>5, <1>6, <1>7, <1>8, <1>9 DEF IInv

\* A wrong guess is counted in the row, which nobody holds, and burns the code
\* at the limit.
LEMMA WrongTxCodeStep ==
    ASSUME IInv, NEW q \in Requests, WrongTxCode(q)
    PROVE  IInv'
<1> DEFINE c == task[q].of
<1>1. /\ TypeInv /\ task[q].pc = "wrong" /\ CodeFree(c) /\ Done(q)
      /\ UNCHANGED <<token, breached>>
  BY DEF IInv, WrongTxCode
<1>2. c \in Codes
  BY <1>1, TaskKinds DEF CodeTask
<1>3. CASE pac[c].used
  BY <1>1, <1>3, DoneStep DEF WrongTxCode
<1>4. CASE ~pac[c].used
  <2> DEFINE n == pac[c].tries + 1
             burnt == n >= MaxTries
  <2>1. /\ pac' = [pac EXCEPT ![c].tries = n, ![c].used = burnt]
        /\ guesses' = [guesses EXCEPT ![c] = @ + 1]
    BY <1>4 DEF WrongTxCode, OneMore
  <2>2. pac[c].tries \in 0..MaxTries /\ guesses[c] = pac[c].tries /\ pac[c].tries < MaxTries
    BY <1>1, <1>2, <1>4 DEF TypeInv, IInv, GuessesCounted
  <2>3. n \in 0..MaxTries /\ guesses[c] + 1 = n /\ burnt \in BOOLEAN
        /\ (~burnt => n < MaxTries)
    BY <2>2, TokenServiceAssumption
  <2> HIDE DEF n, burnt
  <2>4. /\ pac' \in [Codes -> [made : BOOLEAN, used : BOOLEAN, tries : 0..MaxTries]]
        /\ \A d \in Codes \ {c} : pac'[d] = pac[d]
        /\ pac'[c].tries = n /\ pac'[c].used = burnt
    <3>1. pac \in [Codes -> [made : BOOLEAN, used : BOOLEAN, tries : 0..MaxTries]]
      BY <1>1 DEF TypeInv
    <3> DEFINE p == [pac[c] EXCEPT !.tries = n, !.used = burnt]
    <3>2. p \in [made : BOOLEAN, used : BOOLEAN, tries : 0..MaxTries]
          /\ p.tries = n /\ p.used = burnt
      BY <1>2, <2>3, <3>1
    <3>3. pac' = [pac EXCEPT ![c] = p]
      BY <1>2, <2>1, <3>1
    <3> HIDE DEF p
    <3> QED BY <1>2, <3>1, <3>2, <3>3
  <2>5. /\ guesses' \in [Codes -> Nat] /\ guesses'[c] = n
        /\ \A d \in Codes \ {c} : guesses'[d] = guesses[d]
    BY <1>1, <1>2, <2>1, <2>3, TokenServiceAssumption DEF TypeInv
  <2>6. Idle \in Task /\ SetTask(q, Idle)
    BY <1>1 DEF Task, Done
  <2>7. task' \in [Requests -> Task] /\ task'[q] = Idle /\ task'[q].pc = "idle"
    BY <1>1, <2>6, SlotTypes DEF Idle
  <2>8. \A p \in Requests \ {q} :
           /\ \A d \in Codes : HasCode(p, d)' <=> HasCode(p, d)
           /\ \A m \in Tokens : HasRefresh(p, m)' <=> HasRefresh(p, m)
           /\ HasSubject(p)' <=> HasSubject(p)
           /\ SharesSubject(p)' <=> SharesSubject(p)
           /\ task'[p] = task[p]
    BY <1>1, <2>6, OthersHold
  <2>9. /\ \A d \in Codes : ~HasCode(q, d)'
        /\ \A m \in Tokens : ~HasRefresh(q, m)'
        /\ ~HasSubject(q)' /\ ~SharesSubject(q)'
    BY <2>7 DEF HasCode, HasRefresh, HasSubject, SharesSubject
  <2>10. TypeInv'
    BY <1>1, <2>4, <2>5, <2>7 DEF TypeInv
  <2>11. GuessesCounted'
    BY <2>3, <2>4, <2>5, TokenServiceAssumption DEF IInv, GuessesCounted
  <2>12. CodeHeld'
    BY <1>1, <2>4, <2>8, <2>9 DEF IInv, CodeHeld, CodeFree
  <2>13. RefreshHeld'
    BY <1>1, <2>8, <2>9 DEF IInv, RefreshHeld
  <2>14. \A d \in Codes : pac[d].used => pac'[d].used
    BY <1>4, <2>4
  <2>15. FromUsed'
    BY <1>1, <2>14 DEF IInv, FromUsed, Issued
  <2>16. OnePairEach' /\ FamilyRevoked'
    BY <1>1 DEF IInv, OnePairEach, FamilyRevoked, Issued, Usable
  <2>17. ReusedUsed'
    BY <1>1, <2>7, <2>8 DEF IInv, ReusedUsed, Issued
  <2>18. SubjectHeld'
    BY <1>1, <2>8, <2>9 DEF IInv, SubjectHeld, Issued, Unrevoked
  <2> QED BY <2>10, <2>11, <2>12, <2>13, <2>15, <2>16, <2>17, <2>18 DEF IInv
<1> QED BY <1>3, <1>4

\* A request that commits is the only one that changes the tables then: it
\* shares the subject's row, so no revocation has it.
LEMMA CommitAlone ==
    ASSUME IInv, NEW q \in Requests, Commit(q)
    PROVE  /\ \A p \in Requests : ~HasSubject(p) /\ ~HasSubject(p)'
           /\ task' \in [Requests -> Task]
           /\ task'[q] = Idle /\ task'[q].pc = "idle"
           /\ \A p \in Requests \ {q} :
                 /\ \A c \in Codes : HasCode(p, c)' <=> HasCode(p, c)
                 /\ \A n \in Tokens : HasRefresh(p, n)' <=> HasRefresh(p, n)
                 /\ task'[p] = task[p]
           /\ \A c \in Codes : ~HasCode(q, c)'
           /\ \A n \in Tokens : ~HasRefresh(q, n)'
<1>1. TypeInv /\ task[q].pc = "commit" /\ SetTask(q, Idle) /\ Idle \in Task
  BY DEF IInv, Commit, Done, Task
<1>2. task' \in [Requests -> Task] /\ task'[q] = Idle /\ task'[q].pc = "idle"
  BY <1>1, SlotTypes DEF Idle
<1>3. \A p \in Requests \ {q} :
         /\ \A c \in Codes : HasCode(p, c)' <=> HasCode(p, c)
         /\ \A n \in Tokens : HasRefresh(p, n)' <=> HasRefresh(p, n)
         /\ HasSubject(p)' <=> HasSubject(p)
         /\ task'[p] = task[p]
  BY <1>1, OthersHold
<1>4. SharesSubject(q) /\ ~HasSubject(q) /\ ~HasSubject(q)'
  BY <1>1, <1>2 DEF SharesSubject, HasSubject
<1>5. \A p \in Requests \ {q} : ~HasSubject(p)
  BY <1>4 DEF IInv, SubjectHeld
<1>6. /\ \A c \in Codes : ~HasCode(q, c)'
      /\ \A n \in Tokens : ~HasRefresh(q, n)'
  BY <1>2 DEF HasCode, HasRefresh
<1> QED BY <1>2, <1>3, <1>4, <1>5, <1>6

\* There is a number for the new pair.
LEMMA NewTokenFree ==
    ASSUME \E n \in Tokens : ~token[n].issued
    PROVE  NewToken \in Tokens /\ ~token[NewToken].issued
BY DEF NewToken

\* A pair that is issued for what gave none before, and is used up by it, is
\* the first of it.
LEMMA NewPairFirst ==
    ASSUME IInv, NEW of, NEW new, Issued' = Issued \cup {new}, token'[new].from = of,
           \/ of \in Codes /\ pac'[of].used
           \/ of \in Issued /\ token'[of].used /\ token'[of].accessRevoked,
           \A c \in Codes : pac[c].used => pac'[c].used,
           \A n \in Issued : /\ token[n].from # of /\ token'[n].from = token[n].from
                             /\ token[n].used => token'[n].used
                             /\ token[n].accessRevoked => token'[n].accessRevoked
    PROVE  FromUsed' /\ OnePairEach'
<1>1. FromUsed'
  <2> SUFFICES ASSUME NEW n \in Issued'
               PROVE  \/ token'[n].from \in Codes /\ pac'[token'[n].from].used
                      \/ /\ token'[n].from \in Issued' /\ token'[token'[n].from].used
                         /\ token'[token'[n].from].accessRevoked
    BY DEF FromUsed
  <2>1. CASE n = new
    BY <2>1
  <2>2. CASE n \in Issued
    BY <2>2 DEF IInv, FromUsed
  <2> QED BY <2>1, <2>2
<1>2. OnePairEach'
  <2> SUFFICES ASSUME NEW m \in Issued', NEW n \in Issued',
                      token'[m].from = token'[n].from
               PROVE  m = n
    BY DEF OnePairEach
  <2>1. CASE m \in Issued /\ n \in Issued
    BY <2>1 DEF IInv, OnePairEach
  <2>2. CASE m = new \/ n = new
    BY <2>2
  <2> QED BY <2>1, <2>2
<1> QED BY <1>1, <1>2

\* The pair of a redemption is the first of its code, which nobody has used.
LEMMA CommitCodeStep ==
    ASSUME IInv, NEW q \in Requests, Commit(q), task[q].kind = "code"
    PROVE  IInv'
<1> DEFINE c == task[q].of
           new == NewToken
<1>1. /\ TypeInv /\ task[q].pc = "commit"
      /\ new \in Tokens /\ ~token[new].issued /\ UNCHANGED <<guesses, breached>>
      /\ pac' = [pac EXCEPT ![c].used = TRUE]
      /\ token' = [token EXCEPT ![new] = NewPair(c, {})]
  BY NewTokenFree DEF IInv, Commit
<1>2. task[q] \in CodeTask
  BY <1>1, TaskKinds DEF RotationTask
<1>3. c \in Codes /\ HasCode(q, c)
  BY <1>1, <1>2 DEF CodeTask, HasCode
<1>4. ~pac[c].used /\ \A p \in Requests \ {q} : ~HasCode(p, c)
  BY <1>3 DEF IInv, CodeHeld
<1> HIDE DEF new, c
<1>5. /\ pac' \in [Codes -> [made : BOOLEAN, used : BOOLEAN, tries : 0..MaxTries]]
      /\ \A d \in Codes \ {c} : pac'[d] = pac[d]
      /\ pac'[c].used = TRUE
  BY <1>1, <1>3 DEF TypeInv
<1> DEFINE row == NewPair(c, {})
<1>6. /\ row \in Row /\ row.issued = TRUE /\ row.from = c /\ row.line = {}
  BY <1>3 DEF NewPair, Row, Pair
<1> HIDE DEF row
<1>7. /\ token' \in [Tokens -> Row] /\ token'[new] = row
      /\ \A n \in Tokens \ {new} : token'[n] = token[n]
  BY <1>1, <1>6 DEF TypeInv, row
<1>8. new \notin Issued /\ Issued' = Issued \cup {new} /\ Issued \subseteq Tokens
  BY <1>1, <1>6, <1>7 DEF Issued
<1>9. c \notin Tokens
  BY <1>3, TokenServiceAssumption
<1>10. TypeInv'
  BY <1>1, <1>5, <1>7, CommitAlone DEF TypeInv
<1>11. GuessesCounted'
  BY <1>1, <1>4, <1>5 DEF IInv, GuessesCounted
<1>12. CodeHeld'
  BY <1>4, <1>5, CommitAlone DEF IInv, CodeHeld
<1>13. \A p \in Requests, n \in Tokens : HasRefresh(p, n) => n # new
  BY <1>1 DEF IInv, RefreshHeld
<1>14. RefreshHeld'
  BY <1>7, <1>13, CommitAlone DEF IInv, RefreshHeld
<1>15. \A n \in Issued : token[n].from # c /\ token'[n] = token[n]
  BY <1>4, <1>7, <1>8, <1>9 DEF IInv, FromUsed
<1>16. \A d \in Codes : pac[d].used => pac'[d].used
  BY <1>5
<1>17. FromUsed' /\ OnePairEach'
  BY <1>3, <1>5, <1>6, <1>7, <1>8, <1>15, <1>16, NewPairFirst
<1>18. ReusedUsed'
  <2>1. \A n \in Issued : n \in Issued' /\ token'[n] = token[n]
    BY <1>7, <1>8
  <2>2. \A p \in Requests :
           task'[p].pc \in {"subject", "revokeAccess", "revokeRefresh"}
           => p # q /\ task'[p] = task[p]
    BY CommitAlone
  <2> QED BY <1>1, <2>1, <2>2 DEF IInv, ReusedUsed
<1>19. SubjectHeld'
  BY CommitAlone DEF SubjectHeld
<1>20. FamilyRevoked'
  BY <1>1, <1>6, <1>7, <1>8 DEF IInv, FamilyRevoked, Usable
<1> QED BY <1>10, <1>11, <1>12, <1>14, <1>15, <1>17, <1>18, <1>19, <1>20 DEF IInv

\* The pair of a rotation is the first of its refresh token, whose family was
\* not revoked: a token of a revoked family can be neither rotated nor used.
LEMMA CommitRotationStep ==
    ASSUME IInv, NEW q \in Requests, Commit(q), task[q].kind = "rotation"
    PROVE  IInv'
<1> DEFINE of == task[q].of
           new == NewToken
           row == NewPair(of, token[of].line \cup {of})
<1>1. /\ TypeInv /\ task[q].pc = "commit"
      /\ new \in Tokens /\ ~token[new].issued /\ UNCHANGED <<pac, guesses, breached>>
      /\ token' = [Marked(of) EXCEPT ![new] = row]
  BY NewTokenFree DEF IInv, Commit
<1>2. task[q] \in RotationTask
  BY <1>1, TaskKinds DEF CodeTask
<1>3. of \in Tokens /\ HasRefresh(q, of)
  BY <1>1, <1>2 DEF RotationTask, HasRefresh
<1>4. /\ token[of].issued /\ ~token[of].used /\ ~token[of].revoked
      /\ \A p \in Requests \ {q} : ~HasRefresh(p, of)
  BY <1>3 DEF IInv, RefreshHeld
<1>5. of \in Issued /\ token[of] \in Pair /\ of # new
  BY <1>1, <1>3, <1>4 DEF Issued, TypeInv, Row, NoPair
<1>6. /\ row \in Row /\ row.issued = TRUE /\ row.from = of
      /\ row.line = token[of].line \cup {of}
  BY <1>3, <1>5 DEF NewPair, Row, Pair
<1> DEFINE old == [token[of] EXCEPT !.used = TRUE, !.accessRevoked = TRUE]
<1>7. /\ old \in Row /\ old.issued = TRUE /\ old.used = TRUE /\ old.accessRevoked = TRUE
      /\ old.from = token[of].from /\ old.line = token[of].line
  BY <1>4, <1>5 DEF Row, Pair
<1>8. Marked(of) = [token EXCEPT ![of] = old]
  BY <1>1, <1>3 DEF Marked, TypeInv
<1> HIDE DEF of, new, row, old
<1>9. /\ token' \in [Tokens -> Row] /\ token'[new] = row /\ token'[of] = old
      /\ \A n \in Tokens \ {new, of} : token'[n] = token[n]
  BY <1>1, <1>3, <1>5, <1>6, <1>7, <1>8 DEF TypeInv
<1>10. new \notin Issued /\ Issued' = Issued \cup {new} /\ Issued \subseteq Tokens
  BY <1>1, <1>5, <1>6, <1>7, <1>9 DEF Issued
<1>11. of \notin Codes
  BY <1>3, TokenServiceAssumption
<1>12. TypeInv'
  BY <1>1, <1>9, CommitAlone DEF TypeInv
<1>13. GuessesCounted' /\ CodeHeld'
  BY <1>1, CommitAlone DEF IInv, GuessesCounted, CodeHeld
<1>14. \A p \in Requests \ {q}, n \in Tokens : HasRefresh(p, n) => n \notin {new, of}
  BY <1>1, <1>4 DEF IInv, RefreshHeld
<1>15. RefreshHeld'
  BY <1>9, <1>14, CommitAlone DEF IInv, RefreshHeld
<1>16. \A n \in Issued : /\ token'[n].from = token[n].from
                         /\ token'[n].line = token[n].line
                         /\ token'[n].revoked = token[n].revoked
                         /\ token[n].used => token'[n].used
                         /\ token[n].accessRevoked => token'[n].accessRevoked
  <2>1. old.revoked = token[of].revoked
    BY <1>5 DEF old, Pair
  <2> QED BY <1>7, <1>9, <1>10, <2>1
<1>17. \A n \in Issued : token[n].from # of
  BY <1>4, <1>11 DEF IInv, FromUsed
<1>18. FromUsed' /\ OnePairEach'
  BY <1>1, <1>5, <1>6, <1>7, <1>9, <1>10, <1>16, <1>17, NewPairFirst
<1>19. ReusedUsed'
  <2>1. \A p \in Requests :
           task'[p].pc \in {"subject", "revokeAccess", "revokeRefresh"}
           => p # q /\ task'[p] = task[p]
    BY CommitAlone
  <2> QED BY <1>1, <1>10, <1>16, <2>1 DEF IInv, ReusedUsed
<1>20. SubjectHeld'
  BY CommitAlone DEF SubjectHeld
<1>21. FamilyRevoked'
  <2> SUFFICES ASSUME NEW b \in breached, NEW n \in Issued', b \in token'[n].line
               PROVE  ~Usable(n)'
    BY <1>1 DEF FamilyRevoked
  <2>1. CASE n = new
    <3>1. b # of
      BY <1>4 DEF IInv, ReusedUsed
    <3>2. b \in token[of].line
      BY <1>6, <1>9, <2>1, <3>1
    <3>3. ~Usable(of)
      BY <1>5, <3>2 DEF IInv, FamilyRevoked
    <3> QED BY <1>4, <3>3 DEF Usable
  <2>2. CASE n \in Issued
    <3>1. ~Usable(n)
      BY <1>16, <2>2 DEF IInv, FamilyRevoked
    <3> QED BY <1>16, <2>2, <3>1 DEF Usable
  <2> QED BY <1>10, <2>1, <2>2
<1> QED BY <1>12, <1>13, <1>15, <1>18, <1>19, <1>20, <1>21 DEF IInv

\* The revocation ends when nobody rotates what it is to revoke, and that is
\* all there is: no token that was issued is usable then.
LEMMA RevokeRefreshStep ==
    ASSUME IInv, NEW q \in Requests, RevokeRefresh(q)
    PROVE  IInv'
<1>1. /\ TypeInv /\ task[q].pc = "revokeRefresh" /\ HasSubject(q)
      /\ UNCHANGED <<pac, guesses>> /\ SetTask(q, Idle) /\ Idle \in Task
      /\ breached' = breached \cup {task[q].of}
  BY DEF IInv, RevokeRefresh, Done, HasSubject, Task
<1>2. /\ task[q].access = Issued /\ task[q].refresh = Unrevoked
      /\ \A p \in Requests \ {q} : ~HasSubject(p) /\ ~SharesSubject(p)
  BY <1>1 DEF IInv, SubjectHeld
<1>3. task[q].of \in Issued /\ token[task[q].of].used
  BY <1>1 DEF IInv, ReusedUsed
<1>4. /\ task' \in [Requests -> Task] /\ task'[q] = Idle /\ task'[q].pc = "idle"
  BY <1>1, SlotTypes DEF Idle
<1>5. \A p \in Requests \ {q} :
         /\ \A c \in Codes : HasCode(p, c)' <=> HasCode(p, c)
         /\ \A n \in Tokens : HasRefresh(p, n)' <=> HasRefresh(p, n)
         /\ HasSubject(p)' <=> HasSubject(p)
         /\ task'[p] = task[p]
  BY <1>1, OthersHold
<1>6. /\ \A c \in Codes : ~HasCode(q, c)'
      /\ \A n \in Tokens : ~HasRefresh(q, n)'
      /\ ~HasSubject(q)'
  BY <1>4 DEF HasCode, HasRefresh, HasSubject
<1>7. \A p \in Requests, n \in Tokens : ~HasRefresh(p, n)
  BY <1>2 DEF IInv, RefreshHeld, RevokeRefresh, RefreshFree, Unrevoked
<1>8. \A n \in Tokens : ~token[n].issued => token'[n] = token[n]
  BY DEF RevokeRefresh
<1>9. \A n \in Issued :
         /\ token'[n] \in Row /\ token'[n].issued = TRUE
         /\ token'[n].from = token[n].from /\ token'[n].line = token[n].line
         /\ token'[n].used = token[n].used
         /\ token'[n].accessRevoked /\ token'[n].revoked
  <2> SUFFICES ASSUME NEW n \in Issued
               PROVE  /\ token'[n] \in Row /\ token'[n].issued = TRUE
                      /\ token'[n].from = token[n].from /\ token'[n].line = token[n].line
                      /\ token'[n].used = token[n].used
                      /\ token'[n].accessRevoked /\ token'[n].revoked
    OBVIOUS
  <2> DEFINE a == token[n].accessRevoked \/ n \in task[q].access
             r == token[n].revoked \/ n \in task[q].refresh
  <2>1. n \in Tokens /\ token[n].issued /\ token[n] \in Pair
    BY <1>1 DEF Issued, TypeInv, Row, NoPair
  <2>2. a = TRUE
    BY <1>2
  <2>3. r = TRUE
    BY <1>2, <2>1 DEF Unrevoked
  <2>4. token'[n] = [token[n] EXCEPT !.accessRevoked = a, !.revoked = r]
    BY <2>1 DEF RevokeRefresh
  <2> HIDE DEF a, r
  <2>5. token'[n] \in Pair
    BY <2>1, <2>2, <2>3, <2>4 DEF Pair
  <2>6. /\ token'[n].issued = TRUE /\ token'[n].used = token[n].used
        /\ token'[n].from = token[n].from /\ token'[n].line = token[n].line
        /\ token'[n].accessRevoked /\ token'[n].revoked
    BY <2>1, <2>2, <2>3, <2>4 DEF Pair
  <2> QED BY <2>5, <2>6 DEF Row
<1>10. Issued \subseteq Tokens /\ Issued' = Issued
  BY <1>8, <1>9 DEF Issued
<1>11. token' \in [Tokens -> Row]
  <2>1. \A n \in Tokens : token'[n] \in Row
    BY <1>1, <1>8, <1>9 DEF TypeInv, Issued
  <2>2. token' = [n \in Tokens |-> token'[n]]
    BY DEF RevokeRefresh
  <2> QED BY <2>1, <2>2
<1>12. TypeInv'
  BY <1>1, <1>3, <1>4, <1>10, <1>11 DEF TypeInv
<1>13. GuessesCounted' /\ CodeHeld'
  BY <1>1, <1>5, <1>6 DEF IInv, GuessesCounted, CodeHeld
<1>14. RefreshHeld'
  BY <1>5, <1>6, <1>7 DEF RefreshHeld
<1>15. FromUsed'
  BY <1>1, <1>9, <1>10 DEF IInv, FromUsed
<1>16. OnePairEach'
  BY <1>9, <1>10 DEF IInv, OnePairEach
<1>17. ReusedUsed'
  <2>1. \A p \in Requests :
           task'[p].pc \in {"subject", "revokeAccess", "revokeRefresh"}
           => p # q /\ task'[p] = task[p]
    BY <1>4, <1>5
  <2> QED BY <1>1, <1>3, <1>9, <1>10, <2>1 DEF IInv, ReusedUsed
<1>18. SubjectHeld'
  BY <1>2, <1>5, <1>6 DEF SubjectHeld
<1>19. FamilyRevoked'
  BY <1>9, <1>10 DEF FamilyRevoked, Usable
<1> QED BY <1>12, <1>13, <1>14, <1>15, <1>16, <1>17, <1>18, <1>19 DEF IInv

\* Without a step nothing changes.
LEMMA Stutter ==
    ASSUME IInv, UNCHANGED vars
    PROVE  IInv'
BY DEF vars, IInv, TypeInv, GuessesCounted, CodeHeld, RefreshHeld, FromUsed, OnePairEach,
       ReusedUsed, SubjectHeld, FamilyRevoked, Issued, Unrevoked, Usable, HasCode, HasRefresh,
       HasSubject, SharesSubject

\* Every step keeps the invariant.
LEMMA NextInv == IInv /\ [Next]_vars => IInv'
<1> SUFFICES ASSUME IInv, [Next]_vars PROVE IInv'
  OBVIOUS
<1>1. CASE \E c \in Codes : CreateCode(c)
  BY <1>1, CreateCodeStep
<1>2. CASE \E q \in Requests, c \in Codes, right \in BOOLEAN : StartRedeem(q, c, right)
  BY <1>2, StartRedeemStep
<1>3. CASE \E q \in Requests, n \in Tokens : StartRotate(q, n)
  BY <1>3, StartRotateStep
<1>4. ASSUME NEW q \in Requests, WrongTxCode(q) PROVE IInv'
  BY <1>4, WrongTxCodeStep
<1>5. ASSUME NEW q \in Requests, ConsumeCode(q) PROVE IInv'
  BY <1>5, ConsumeCodeStep
<1>6. ASSUME NEW q \in Requests, GiveUp(q) PROVE IInv'
  BY <1>6, DoneStep DEF GiveUp
<1>7. ASSUME NEW q \in Requests, Sign(q) PROVE IInv'
  BY <1>7, GoOnStep DEF Sign
<1>8. ASSUME NEW q \in Requests, Insert(q) PROVE IInv'
  BY <1>8, GoOnStep DEF Insert
<1>9. ASSUME NEW q \in Requests, Commit(q) PROVE IInv'
  <2>1. task[q].kind \in {"code", "rotation"}
    BY <1>9, TaskKinds DEF IInv, Commit
  <2> QED BY <1>9, <2>1, CommitCodeStep, CommitRotationStep
<1>10. ASSUME NEW q \in Requests, LockSubject(q) PROVE IInv'
  BY <1>10, LockSubjectStep
<1>11. ASSUME NEW q \in Requests, RevokeAccess(q) PROVE IInv'
  BY <1>11, RevokeAccessStep
<1>12. ASSUME NEW q \in Requests, RevokeRefresh(q) PROVE IInv'
  BY <1>12, RevokeRefreshStep
<1>13. CASE \E q, p \in Requests, victim \in Requests : BreakDeadlock(q, p, victim)
  BY <1>13, DoneStep DEF BreakDeadlock
<1>14. CASE UNCHANGED vars
  BY <1>14, Stutter
<1> QED BY <1>1, <1>2, <1>3, <1>4, <1>5, <1>6, <1>7, <1>8, <1>9, <1>10, <1>11, <1>12,
           <1>13, <1>14 DEF Next

LEMMA Invariance == Spec => []IInv
BY InitInv, NextInv, PTL DEF Spec

-----------------------------------------------------------------------------
(***************************************************************************)
(* The theorems.                                                           *)
(***************************************************************************)
\* The tables have rows the code can make.
THEOREM TypeCorrect == Spec => []TypeOK
<1>1. IInv => TypeOK
  BY DEF IInv, TypeInv, TypeOK, Row
<1> QED BY <1>1, Invariance, PTL

\* A code gives one pair of tokens or so many wrong guesses, and a refresh
\* token one pair, however many requests bring them together.
THEOREM OncePerCode == Spec => []CodesOnce
<1>1. IInv => CodesOnce
  BY DEF IInv, CodesOnce
<1> QED BY <1>1, Invariance, PTL

\* What was rotated away, and all that descends from a refresh token whose
\* reuse was answered, is of no use, also what was rotated meanwhile.
THEOREM Useless == Spec => []SupersededUseless
<1>1. IInv => RotatedAway
  <2> SUFFICES ASSUME IInv, NEW m \in Issued, NEW n \in Issued, token[m].from = n
               PROVE  ~Usable(n)
    BY DEF RotatedAway
  <2>1. n \notin Codes
    BY TokenServiceAssumption DEF Issued
  <2>2. token[n].used /\ token[n].accessRevoked
    BY <2>1 DEF IInv, FromUsed
  <2> QED BY <2>2 DEF Usable
<1>2. IInv => SupersededUseless
  BY <1>1 DEF IInv, SupersededUseless
<1> QED BY <1>2, Invariance, PTL

-----------------------------------------------------------------------------
(***************************************************************************)
(* The signing keys of a tenant (TenantKeys): the keys that verify what    *)
(* was signed, for any number of keys, tokens, fetches and changes.        *)
(***************************************************************************)
CONSTANTS Keys, Fetches, MaxTtl, Grace, CacheTtl, Timeout, MaxTime, MaxSigned, MaxUpdates
VARIABLES now, key, signed, updates, fetch, cache

K == INSTANCE TenantKeys WITH MaxTokens <- MaxSigned

\* The settings are times, and a key that was retired is published for as long
\* as what it signed may live.
GraceCovers ==
    /\ MaxTtl \in Nat /\ Grace \in Nat /\ CacheTtl \in Nat /\ Timeout \in Nat
    /\ MaxTime \in Nat \ {0}
    /\ MaxTtl <= Grace

KeyRow  == {K!NoKey} \cup K!Key
Reading == [pc : {"read"}, at : K!Times, failed : BOOLEAN, keys : SUBSET Keys]

KeyTypes ==
    /\ now \in K!Times
    /\ key \in [Keys -> KeyRow]
    /\ signed \subseteq K!Token
    /\ fetch \in [Fetches -> {K!NoFetch} \cup Reading]
    /\ cache \in [at : 0..now, keys : SUBSET Keys, failed : BOOLEAN]

\* What key r may verify of token t: it exists since before the token was
\* signed and outlives it, and if it does not sign any more it was changed
\* later than that.
Covers(r, t) ==
    /\ r # K!NoKey
    /\ r.not_before <= t.at
    /\ r.not_after = K!Never \/ t.exp <= r.not_after
    /\ r.status = "active" \/ t.at <= r.updated_at
TokensCovered ==
    /\ \A t \in signed : t.at <= now /\ t.exp <= t.at + MaxTtl /\ Covers(key[t.key], t)

\* A read of the keys holds no key revoked before it, and each that may verify
\* a token signed before it and has not changed since.
ReadIsTrue ==
    \A f \in Fetches :
        fetch[f] \in Reading =>
            /\ fetch[f].at <= now /\ now <= fetch[f].at + Timeout
            /\ \A k \in Keys :
                  key[k].status = "revoked" /\ key[k].updated_at < fetch[f].at
                     => k \notin fetch[f].keys
            /\ ~fetch[f].failed =>
                  \A t \in K!Unexpired :
                     K!Trusted(t) /\ t.at < fetch[f].at /\ key[t.key].updated_at < fetch[f].at
                        => t.key \in fetch[f].keys
\* And so does what is kept, of what happened Timeout before it was.
KeptIsTrue ==
    /\ \A k \in Keys :
          key[k].status = "revoked" /\ key[k].updated_at + Timeout < cache.at
             => k \notin cache.keys
    /\ ~cache.failed =>
          \A t \in K!Unexpired :
             K!Trusted(t) /\ t.at + Timeout < cache.at
                /\ key[t.key].updated_at + Timeout < cache.at
                => t.key \in cache.keys

KeyInv == KeyTypes /\ TokensCovered /\ ReadIsTrue /\ KeptIsTrue

LEMMA KeyFacts ==
    ASSUME GraceCovers, KeyInv
    PROVE  /\ now \in Nat
           /\ \A k \in Keys : key[k] = K!NoKey \/ key[k] \in K!Key
           /\ \A t \in signed : t \in K!Token /\ t.key \in Keys /\ t.at \in Nat /\ t.exp \in Nat
                                /\ key[t.key] \in K!Key
           /\ \A f \in Fetches : fetch[f] \in Reading => fetch[f].at \in Nat
           /\ cache.at \in Nat /\ cache.keys \subseteq Keys
<1>1. now \in Nat
  BY DEF KeyInv, KeyTypes, GraceCovers, K!Times
<1>2. \A k \in Keys : key[k] = K!NoKey \/ key[k] \in K!Key
  BY DEF KeyInv, KeyTypes, KeyRow
<1>3. ASSUME NEW t \in signed
      PROVE  t \in K!Token /\ t.key \in Keys /\ t.at \in Nat /\ t.exp \in Nat
             /\ key[t.key] \in K!Key
  <2>1. t \in K!Token
    BY DEF KeyInv, KeyTypes
  <2>2. t.key \in Keys /\ t.at \in Nat /\ t.exp \in Nat
    BY <2>1 DEF K!Token, K!Times, GraceCovers
  <2>3. key[t.key] # K!NoKey
    BY DEF KeyInv, TokensCovered, Covers
  <2> QED BY <1>2, <2>1, <2>2, <2>3
<1>4. ASSUME NEW f \in Fetches, fetch[f] \in Reading
      PROVE  fetch[f].at \in Nat
  BY <1>4 DEF Reading, K!Times, GraceCovers
<1>5. cache.at \in Nat /\ cache.keys \subseteq Keys
  BY <1>1 DEF KeyInv, KeyTypes
<1> QED BY <1>1, <1>2, <1>3, <1>4, <1>5

LEMMA KeyInit == GraceCovers /\ K!Init => KeyInv
<1> SUFFICES ASSUME GraceCovers, K!Init
             PROVE  KeyInv
  OBVIOUS
<1>1. KeyTypes
  BY DEF KeyTypes, KeyRow, K!Init, K!Times, K!Never, GraceCovers
<1>2. TokensCovered
  BY DEF TokensCovered, K!Init
<1>3. ReadIsTrue
  BY DEF ReadIsTrue, K!Init, Reading, K!NoFetch
<1>4. KeptIsTrue
  BY DEF KeptIsTrue, K!Init, K!Unexpired
<1> QED BY <1>1, <1>2, <1>3, <1>4 DEF KeyInv

\* What the admin service publishes verifies what is not expired.
LEMMA CoveredIncluded ==
    ASSUME GraceCovers, KeyInv, NEW t \in K!Unexpired, K!Trusted(t)
    PROVE  t.key \in K!Jwks(now)
<1> DEFINE r == key[t.key]
<1>1. t \in signed /\ now < t.exp
  BY DEF K!Unexpired
<1>2. /\ now \in Nat /\ t.key \in Keys /\ t.at \in Nat /\ t.exp \in Nat /\ r \in K!Key
  BY <1>1, KeyFacts
<1>3. t.at <= now /\ t.exp <= t.at + MaxTtl /\ Covers(r, t)
  BY <1>1 DEF KeyInv, TokensCovered
<1>4. /\ r.status \in {"active", "retired", "revoked"} /\ r.status # "revoked"
      /\ r.not_before \in Nat /\ r.not_after \in Nat /\ r.updated_at \in Nat
  BY <1>2 DEF K!Key, K!Status, K!Times, K!Never, K!Trusted, GraceCovers
<1>5. CASE r.status = "active"
  <2>1. K!TimeValid(r, now)
    BY <1>1, <1>2, <1>3, <1>4 DEF K!TimeValid, Covers
  <2> QED BY <1>2, <1>5, <2>1 DEF K!Jwks, K!Exists, K!Included
<1>6. CASE r.status = "retired"
  <2>1. now < r.updated_at + Grace
    BY <1>1, <1>2, <1>3, <1>4, <1>6 DEF Covers, GraceCovers
  <2> QED BY <1>2, <1>6, <2>1 DEF K!Jwks, K!Exists, K!Included
<1> QED BY <1>4, <1>5, <1>6

LEMMA RevokedExcluded ==
    ASSUME NEW k \in Keys, key[k].status = "revoked"
    PROVE  k \notin K!Jwks(now)
BY DEF K!Jwks, K!Included

-----------------------------------------------------------------------------
\* Time passes: no read is older than it may be.
LEMMA TickInv ==
    ASSUME GraceCovers, KeyInv, K!Tick
    PROVE  KeyInv'
<1> USE DEF KeyInv
<1>1. /\ now \in Nat /\ now' = now + 1 /\ now' \in K!Times /\ now' \in Nat
      /\ UNCHANGED <<key, signed, fetch, cache>>
  BY KeyFacts DEF K!Tick, K!Times, GraceCovers
<1>2. KeyTypes'
  <2>1. cache.at \in 0..now'
    BY <1>1 DEF KeyTypes
  <2>2. cache \in [at : 0..now', keys : SUBSET Keys, failed : BOOLEAN]
    BY <2>1 DEF KeyTypes
  <2> QED BY <1>1, <2>2 DEF KeyTypes
<1>3. TokensCovered'
  <2> SUFFICES ASSUME NEW t \in signed
               PROVE  t.at <= now' /\ t.exp <= t.at + MaxTtl /\ Covers(key[t.key], t)
    BY <1>1 DEF TokensCovered, Covers
  <2>1. t.at \in Nat
    BY KeyFacts
  <2> QED BY <1>1, <2>1 DEF TokensCovered
<1>4. \A t \in K!Unexpired' : t \in K!Unexpired
  <2> SUFFICES ASSUME NEW t \in signed, now + 1 < t.exp
               PROVE  now < t.exp
    BY <1>1 DEF K!Unexpired
  <2>1. t.exp \in Nat
    BY KeyFacts
  <2> QED BY <1>1, <2>1
<1>5. ReadIsTrue'
  <2> SUFFICES ASSUME NEW f \in Fetches, fetch[f] \in Reading
               PROVE  /\ fetch[f].at <= now' /\ now' <= fetch[f].at + Timeout
                      /\ \A k \in Keys :
                            key[k].status = "revoked" /\ key[k].updated_at < fetch[f].at
                               => k \notin fetch[f].keys
                      /\ ~fetch[f].failed =>
                            \A t \in K!Unexpired :
                               K!Trusted(t) /\ t.at < fetch[f].at
                                  /\ key[t.key].updated_at < fetch[f].at
                                  => t.key \in fetch[f].keys
    BY <1>1, <1>4 DEF ReadIsTrue, K!Trusted
  <2>1. fetch[f].at \in Nat /\ fetch[f].pc = "read"
    BY KeyFacts DEF Reading
  <2>2. now < fetch[f].at + Timeout
    BY <2>1 DEF K!Tick
  <2>3. fetch[f].at <= now' /\ now' <= fetch[f].at + Timeout
    BY <1>1, <2>1, <2>2 DEF ReadIsTrue, GraceCovers
  <2> QED BY <2>3 DEF ReadIsTrue
<1>6. KeptIsTrue'
  BY <1>1, <1>4 DEF KeptIsTrue, K!Trusted
<1> QED BY <1>2, <1>3, <1>5, <1>6

\* What is known of the tokens and the copies survives a step that leaves them
\* alone and changes of the keys none but k, of which nothing is known yet or
\* which is changed now.
LEMMA KeyChanges ==
    ASSUME GraceCovers, KeyInv, NEW k \in Keys, NEW r \in K!Key,
           key' = [key EXCEPT ![k] = r], UNCHANGED <<now, signed, fetch, cache>>,
           r.updated_at = now,
           key[k] # K!NoKey => r = [key[k] EXCEPT !.status = r.status, !.updated_at = now]
    PROVE  KeyInv'
<1> USE DEF KeyInv
<1>1. key \in [Keys -> KeyRow] /\ key' \in [Keys -> KeyRow]
      /\ key'[k] = r /\ \A l \in Keys : l # k => key'[l] = key[l]
  BY DEF KeyTypes, KeyRow
<1>2. KeyTypes'
  BY <1>1 DEF KeyTypes
<1>3. now \in Nat
  BY KeyFacts
<1>4. \A t \in K!Unexpired' : t \in K!Unexpired
  BY DEF K!Unexpired
<1>5. TokensCovered'
  <2> SUFFICES ASSUME NEW t \in signed
               PROVE  t.at <= now /\ t.exp <= t.at + MaxTtl /\ Covers(key'[t.key], t)
    BY DEF TokensCovered, Covers
  <2>1. t.at <= now /\ t.exp <= t.at + MaxTtl /\ Covers(key[t.key], t) /\ t.key \in Keys
    BY KeyFacts DEF TokensCovered
  <2>2. CASE t.key = k
    <3>1. r = [key[k] EXCEPT !.status = r.status, !.updated_at = now] /\ key[k] \in K!Key
      BY <2>2, KeyFacts DEF K!Key, K!NoKey
    <3>2. r.not_before = key[k].not_before /\ r.not_after = key[k].not_after
      BY <3>1 DEF K!Key
    <3>3. r # K!NoKey
      BY <1>1, <2>1, <2>2, <3>1 DEF K!Key, K!NoKey, K!Status, Covers
    <3> QED BY <1>1, <2>1, <2>2, <3>2, <3>3 DEF Covers
  <2>3. CASE t.key # k
    BY <1>1, <2>1, <2>3
  <2> QED BY <2>1, <2>2, <2>3
<1>6. ReadIsTrue'
  <2> SUFFICES ASSUME NEW f \in Fetches, fetch[f] \in Reading
               PROVE  /\ fetch[f].at <= now /\ now <= fetch[f].at + Timeout
                      /\ \A l \in Keys :
                            key'[l].status = "revoked" /\ key'[l].updated_at < fetch[f].at
                               => l \notin fetch[f].keys
                      /\ ~fetch[f].failed =>
                            \A t \in K!Unexpired :
                               key'[t.key].status # "revoked" /\ t.at < fetch[f].at
                                  /\ key'[t.key].updated_at < fetch[f].at
                                  => t.key \in fetch[f].keys
    BY <1>4 DEF ReadIsTrue, K!Trusted
  <2>1. fetch[f].at \in Nat /\ fetch[f].at <= now /\ now <= fetch[f].at + Timeout
    BY KeyFacts DEF ReadIsTrue
  <2>2. ~(now < fetch[f].at)
    BY <1>3, <2>1
  <2>3. ASSUME NEW l \in Keys, key'[l].status = "revoked", key'[l].updated_at < fetch[f].at
        PROVE  l \notin fetch[f].keys
    BY <1>1, <2>2, <2>3 DEF ReadIsTrue
  <2>4. ASSUME ~fetch[f].failed, NEW t \in K!Unexpired, key'[t.key].status # "revoked",
               t.at < fetch[f].at, key'[t.key].updated_at < fetch[f].at
        PROVE  t.key \in fetch[f].keys
    <3>1. t.key \in Keys
      BY KeyFacts DEF K!Unexpired
    <3>2. t.key # k
      BY <1>1, <2>2, <2>4
    <3>3. key'[t.key] = key[t.key]
      BY <1>1, <3>1, <3>2
    <3> QED BY <2>4, <3>3 DEF ReadIsTrue, K!Trusted
  <2> QED BY <2>1, <2>3, <2>4
<1>7. KeptIsTrue'
  <2>1. cache.at \in Nat /\ cache.at <= now
    BY <1>3 DEF KeyTypes
  <2>2. ~(now + Timeout < cache.at)
    BY <1>3, <2>1 DEF GraceCovers
  <2> SUFFICES /\ \A l \in Keys :
                     key'[l].status = "revoked" /\ key'[l].updated_at + Timeout < cache.at
                        => l \notin cache.keys
               /\ ~cache.failed =>
                     \A t \in K!Unexpired :
                        key'[t.key].status # "revoked" /\ t.at + Timeout < cache.at
                           /\ key'[t.key].updated_at + Timeout < cache.at
                           => t.key \in cache.keys
    BY <1>4 DEF KeptIsTrue, K!Trusted
  <2>3. ASSUME NEW l \in Keys, key'[l].status = "revoked",
               key'[l].updated_at + Timeout < cache.at
        PROVE  l \notin cache.keys
    BY <1>1, <2>2, <2>3 DEF KeptIsTrue
  <2>4. ASSUME ~cache.failed, NEW t \in K!Unexpired, key'[t.key].status # "revoked",
               t.at + Timeout < cache.at, key'[t.key].updated_at + Timeout < cache.at
        PROVE  t.key \in cache.keys
    <3>1. t.key \in Keys
      BY KeyFacts DEF K!Unexpired
    <3>2. t.key # k
      BY <1>1, <2>2, <2>4
    <3>3. key'[t.key] = key[t.key]
      BY <1>1, <3>1, <3>2
    <3> QED BY <2>4, <3>3 DEF KeptIsTrue, K!Trusted
  <2> QED BY <2>3, <2>4
<1> QED BY <1>2, <1>5, <1>6, <1>7

LEMMA GenerateInv ==
    ASSUME GraceCovers, KeyInv, NEW k \in Keys, K!GenerateKeypair(k)
    PROVE  KeyInv'
<1>1. key[k] = K!NoKey
  BY KeyFacts DEF K!GenerateKeypair, K!Exists, K!Key, K!Status
<1>2. PICK s \in {"active", "retired"}, nb \in now..(now + 1), na \in {K!Never, now + 2} :
         key' = [key EXCEPT ![k] = [status |-> s, not_before |-> nb,
                                    not_after |-> IF na > MaxTime THEN K!Never ELSE na,
                                    updated_at |-> now]]
  BY DEF K!GenerateKeypair
<1> DEFINE r == [status |-> s, not_before |-> nb,
                 not_after |-> IF na > MaxTime THEN K!Never ELSE na, updated_at |-> now]
<1>3. r \in K!Key
  <2>1. key'[k] = r
    BY <1>2 DEF KeyInv, KeyTypes
  <2>2. nb \in K!Times
    BY <2>1 DEF K!GenerateKeypair
  <2>3. now \in K!Times /\ now \in Nat
    BY KeyFacts DEF KeyInv, KeyTypes
  <2>4. r.not_after \in K!Times \cup {K!Never}
    BY <2>3 DEF K!Times, K!Never, GraceCovers
  <2> QED BY <2>2, <2>3, <2>4 DEF K!Key, K!Status
<1>4. UNCHANGED <<now, signed, fetch, cache>> /\ r.updated_at = now
  BY DEF K!GenerateKeypair
<1> HIDE DEF r
<1>5. key' = [key EXCEPT ![k] = r]
  BY <1>2 DEF r
<1> QED BY <1>1, <1>3, <1>4, <1>5, KeyChanges

LEMMA UpdateInv ==
    ASSUME GraceCovers, KeyInv, NEW k \in Keys, K!UpdateKeyStatus(k)
    PROVE  KeyInv'
<1>1. PICK s \in K!Status :
         key' = [key EXCEPT ![k].status = s, ![k].updated_at = now]
  BY DEF K!UpdateKeyStatus
<1> DEFINE r == [key[k] EXCEPT !.status = s, !.updated_at = now]
<1>2. key[k] \in K!Key
  BY KeyFacts DEF K!UpdateKeyStatus, K!Exists, K!NoKey
<1>3. r \in K!Key
  <2>1. now \in K!Times
    BY DEF KeyInv, KeyTypes
  <2> QED BY <1>2, <2>1 DEF K!Key
<1>4. /\ UNCHANGED <<now, signed, fetch, cache>>
      /\ r.updated_at = now /\ r = [key[k] EXCEPT !.status = r.status, !.updated_at = now]
  BY <1>2 DEF K!UpdateKeyStatus, K!Key
<1>5. key' = [key EXCEPT ![k] = r]
  BY <1>1 DEF KeyInv, KeyTypes
<1> HIDE DEF r
<1> QED BY <1>3, <1>4, <1>5, KeyChanges

\* A token is signed by an active key, now, and does not outlive it.
LEMMA SignInv ==
    ASSUME GraceCovers, KeyInv, NEW l \in Keys, K!SignJwt(l)
    PROVE  KeyInv'
<1> USE DEF KeyInv
<1>1. UNCHANGED <<now, key, fetch, cache>> /\ now \in K!Times /\ now \in Nat
  BY KeyFacts DEF K!SignJwt, KeyTypes
<1>2. PICK k \in Keys, exp \in (now + 1)..(now + MaxTtl) :
         /\ K!Exists(k) /\ K!Usable(k) /\ K!WithinKey(key[k], exp)
         /\ signed' = signed \cup {[key |-> k, at |-> now, exp |-> exp]}
  BY DEF K!SignJwt
<1> DEFINE n == [key |-> k, at |-> now, exp |-> exp]
<1>3. n \in K!Token /\ exp \in Nat /\ exp <= now + MaxTtl
  <2>1. exp \in 1..(MaxTime + MaxTtl) /\ exp \in Nat /\ exp <= now + MaxTtl
    BY <1>1 DEF K!Times, GraceCovers
  <2> QED BY <1>1, <2>1 DEF K!Token
<1>4. KeyTypes'
  BY <1>1, <1>2, <1>3 DEF KeyTypes
<1>5. TokensCovered'
  <2>1. key[k] # K!NoKey
    BY <1>2 DEF K!Exists, K!NoKey
  <2>2. Covers(key[k], n)
    BY <1>2, <2>1 DEF Covers, K!Usable, K!MaySign, K!TimeValid, K!WithinKey
  <2>3. n.at <= now /\ n.exp <= n.at + MaxTtl
    BY <1>1, <1>3
  <2> SUFFICES ASSUME NEW t \in signed \cup {n}
               PROVE  t.at <= now /\ t.exp <= t.at + MaxTtl /\ Covers(key[t.key], t)
    BY <1>1, <1>2 DEF TokensCovered, Covers
  <2> QED BY <2>2, <2>3 DEF TokensCovered
<1>6. \A t \in K!Unexpired' : t \in K!Unexpired \/ t = n
  BY <1>1, <1>2 DEF K!Unexpired
<1>7. ReadIsTrue'
  <2> SUFFICES ASSUME NEW f \in Fetches, fetch[f] \in Reading
               PROVE  /\ fetch[f].at <= now /\ now <= fetch[f].at + Timeout
                      /\ \A m \in Keys :
                            key[m].status = "revoked" /\ key[m].updated_at < fetch[f].at
                               => m \notin fetch[f].keys
                      /\ ~fetch[f].failed =>
                            \A t \in K!Unexpired' :
                               K!Trusted(t) /\ t.at < fetch[f].at
                                  /\ key[t.key].updated_at < fetch[f].at
                                  => t.key \in fetch[f].keys
    BY <1>1 DEF ReadIsTrue, K!Trusted
  <2>1. ~(now < fetch[f].at)
    BY <1>1, KeyFacts DEF ReadIsTrue
  <2>2. n.at = now
    OBVIOUS
  <2>3. ASSUME ~fetch[f].failed, NEW t \in K!Unexpired', K!Trusted(t), t.at < fetch[f].at,
               key[t.key].updated_at < fetch[f].at
        PROVE  t.key \in fetch[f].keys
    <3>1. t \in K!Unexpired
      BY <1>6, <2>1, <2>2, <2>3
    <3> QED BY <2>3, <3>1 DEF ReadIsTrue
  <2> QED BY <2>3 DEF ReadIsTrue
<1>8. KeptIsTrue'
  <2>1. ~(now + Timeout < cache.at)
    <3>1. cache.at \in Nat /\ cache.at <= now
      BY <1>1 DEF KeyTypes
    <3> QED BY <1>1, <3>1 DEF GraceCovers
  <2>2. n.at = now
    OBVIOUS
  <2>3. ASSUME ~cache.failed, NEW t \in K!Unexpired', K!Trusted(t),
               t.at + Timeout < cache.at, key[t.key].updated_at + Timeout < cache.at
        PROVE  t.key \in cache.keys
    <3>1. t \in K!Unexpired
      BY <1>6, <2>1, <2>2, <2>3
    <3> QED BY <2>3, <3>1 DEF KeptIsTrue
  <2> QED BY <1>1, <2>3 DEF KeptIsTrue, K!Trusted
<1> QED BY <1>4, <1>5, <1>7, <1>8

\* A read is true when it is made, or has failed and holds nothing.
LEMMA ReadInv ==
    ASSUME GraceCovers, KeyInv, NEW g \in Fetches, K!ReadJwks(g)
    PROVE  KeyInv'
<1> USE DEF KeyInv
<1>1. UNCHANGED <<now, key, signed, cache>> /\ now \in K!Times /\ now \in Nat
  BY KeyFacts DEF K!ReadJwks, KeyTypes
<1>2. PICK failed \in BOOLEAN :
         fetch' = [fetch EXCEPT ![g] =
                     [pc |-> "read", at |-> now, failed |-> failed,
                      keys |-> IF failed THEN {} ELSE K!Jwks(now)]]
  BY DEF K!ReadJwks
<1> DEFINE ks == IF failed THEN {} ELSE K!Jwks(now)
           r  == [pc |-> "read", at |-> now, failed |-> failed, keys |-> ks]
<1>3. r \in Reading /\ r.at = now /\ r.failed = failed /\ r.keys = ks
  <2>1. ks \in SUBSET Keys
    BY DEF K!Jwks
  <2> QED BY <1>1, <2>1 DEF Reading
<1>4. /\ \A k \in Keys : key[k].status = "revoked" => k \notin ks
      /\ ~failed => \A t \in K!Unexpired : K!Trusted(t) => t.key \in ks
  BY RevokedExcluded, CoveredIncluded
<1>5. fetch' = [fetch EXCEPT ![g] = r]
  BY <1>2
<1> HIDE DEF ks, r
<1>6. fetch'[g] = r /\ \A f \in Fetches : f # g => fetch'[f] = fetch[f]
  BY <1>5 DEF KeyTypes
<1>7. KeyTypes'
  BY <1>1, <1>3, <1>5 DEF KeyTypes
<1>8. TokensCovered'
  BY <1>1 DEF TokensCovered, Covers
<1>9. ReadIsTrue'
  <2> SUFFICES ASSUME NEW f \in Fetches, fetch'[f] \in Reading
               PROVE  /\ fetch'[f].at <= now /\ now <= fetch'[f].at + Timeout
                      /\ \A k \in Keys :
                            key[k].status = "revoked" /\ key[k].updated_at < fetch'[f].at
                               => k \notin fetch'[f].keys
                      /\ ~fetch'[f].failed =>
                            \A t \in K!Unexpired :
                               K!Trusted(t) /\ t.at < fetch'[f].at
                                  /\ key[t.key].updated_at < fetch'[f].at
                                  => t.key \in fetch'[f].keys
    BY <1>1 DEF ReadIsTrue, K!Unexpired, K!Trusted
  <2>1. CASE f = g
    <3>1. now <= now /\ now <= now + Timeout
      BY <1>1 DEF GraceCovers
    <3> QED BY <1>3, <1>4, <1>6, <2>1, <3>1
  <2>2. CASE f # g
    BY <1>6, <2>2 DEF ReadIsTrue
  <2> QED BY <2>1, <2>2
<1>10. KeptIsTrue'
  BY <1>1 DEF KeptIsTrue, K!Unexpired, K!Trusted
<1> QED BY <1>7, <1>8, <1>9, <1>10

\* What was read is kept, no later than Timeout after.
LEMMA StoreInv ==
    ASSUME GraceCovers, KeyInv, NEW g \in Fetches, K!StoreCtx(g)
    PROVE  KeyInv'
<1> USE DEF KeyInv
<1>1. UNCHANGED <<now, key, signed>> /\ now \in K!Times /\ now \in Nat
  BY KeyFacts DEF K!StoreCtx, KeyTypes
<1>2. /\ fetch' = [fetch EXCEPT ![g] = K!NoFetch]
      /\ cache' = [at |-> now, keys |-> fetch[g].keys, failed |-> fetch[g].failed]
  BY DEF K!StoreCtx
<1>3. fetch[g] \in Reading
  BY DEF K!StoreCtx, KeyTypes, K!NoFetch
<1>4. K!NoFetch \notin Reading
  BY DEF K!NoFetch, Reading
<1>5. KeyTypes'
  <2>1. cache' \in [at : 0..now, keys : SUBSET Keys, failed : BOOLEAN]
    BY <1>1, <1>2, <1>3 DEF Reading
  <2> QED BY <1>1, <1>2, <2>1 DEF KeyTypes
<1>6. TokensCovered'
  BY <1>1 DEF TokensCovered, Covers
<1>7. ReadIsTrue'
  <2>1. \A f \in Fetches : fetch'[f] \in Reading => fetch'[f] = fetch[f]
    BY <1>2, <1>4 DEF KeyTypes
  <2> QED BY <1>1, <2>1 DEF ReadIsTrue, K!Unexpired, K!Trusted
<1>8. KeptIsTrue'
  <2>1. /\ cache'.at = now /\ cache'.keys = fetch[g].keys /\ cache'.failed = fetch[g].failed
        /\ fetch[g].at \in Nat /\ now <= fetch[g].at + Timeout
    BY <1>2, <1>3, KeyFacts DEF ReadIsTrue
  <2>2. \A u \in Nat : u + Timeout < now => u < fetch[g].at
    BY <1>1, <2>1 DEF GraceCovers
  <2>3. ASSUME NEW k \in Keys, key[k].status = "revoked", key[k].updated_at + Timeout < now
        PROVE  k \notin fetch[g].keys
    <3>1. key[k] \in K!Key
      BY <2>3, KeyFacts DEF K!NoKey
    <3>2. key[k].updated_at \in Nat
      BY <3>1 DEF K!Key, K!Times
    <3> QED BY <1>3, <2>2, <2>3, <3>2 DEF ReadIsTrue
  <2>4. ASSUME ~fetch[g].failed, NEW t \in K!Unexpired, K!Trusted(t), t.at + Timeout < now,
               key[t.key].updated_at + Timeout < now
        PROVE  t.key \in fetch[g].keys
    <3>1. t.at \in Nat /\ key[t.key] \in K!Key
      BY KeyFacts DEF K!Unexpired
    <3>2. key[t.key].updated_at \in Nat
      BY <3>1 DEF K!Key, K!Times
    <3> QED BY <1>3, <2>2, <2>4, <3>1, <3>2 DEF ReadIsTrue
  <2> QED BY <1>1, <2>1, <2>3, <2>4 DEF KeptIsTrue, K!Unexpired, K!Trusted
<1> QED BY <1>5, <1>6, <1>7, <1>8

LEMMA KeyStutter ==
    ASSUME KeyInv, UNCHANGED K!vars
    PROVE  KeyInv'
BY DEF KeyInv, KeyTypes, TokensCovered, Covers, ReadIsTrue, KeptIsTrue, K!Unexpired, K!Trusted,
       K!vars

LEMMA KeyInvariance ==
    ASSUME GraceCovers
    PROVE  K!Spec => []KeyInv
<1>1. K!Init => KeyInv
  BY KeyInit
<1>2. KeyInv /\ [K!Next]_(K!vars) => KeyInv'
  <2> SUFFICES ASSUME KeyInv, [K!Next]_(K!vars)
               PROVE  KeyInv'
    OBVIOUS
  <2>1. CASE K!Tick
    BY <2>1, TickInv
  <2>2. ASSUME NEW k \in Keys, K!GenerateKeypair(k) \/ K!UpdateKeyStatus(k) \/ K!SignJwt(k)
        PROVE  KeyInv'
    BY <2>2, GenerateInv, UpdateInv, SignInv
  <2>3. ASSUME NEW f \in Fetches, K!ReadJwks(f) \/ K!StoreCtx(f)
        PROVE  KeyInv'
    BY <2>3, ReadInv, StoreInv
  <2>4. CASE UNCHANGED K!vars
    BY <2>4, KeyStutter
  <2> QED BY <2>1, <2>2, <2>3, <2>4 DEF K!Next
<1> QED BY <1>1, <1>2, PTL DEF K!Spec

\* Whoever verifies has the keys it needs: what was signed and has not expired
\* verifies with what the admin service publishes and, once the tenant service
\* has had time to turn its cache over, with what that serves; a key that was
\* revoked is gone by then.  If retired keys are published as long as a token
\* may live.
THEOREM Verifiable ==
    ASSUME GraceCovers
    PROVE  K!Spec => []K!KeysServed
<1>1. ASSUME KeyInv
      PROVE  K!KeysServed
  <2>1. K!SignedIsPublished
    BY <1>1, CoveredIncluded DEF K!SignedIsPublished
  <2>2. now \in Nat /\ cache.at \in Nat
    BY <1>1, KeyFacts
  <2>3. ASSUME NEW u \in Nat, K!Fresh(cache), K!Settled(u)
        PROVE  u + Timeout < cache.at
    BY <2>2, <2>3 DEF K!Fresh, K!Settled, GraceCovers
  <2>4. K!SignedIsServed
    <3> SUFFICES ASSUME NEW t \in K!Unexpired, K!Trusted(t), K!Fresh(cache), ~cache.failed,
                        K!Settled(t.at), K!Settled(key[t.key].updated_at)
                 PROVE  t.key \in cache.keys
      BY DEF K!SignedIsServed
    <3>1. t.at \in Nat /\ key[t.key] \in K!Key
      BY <1>1, KeyFacts DEF K!Unexpired
    <3>2. key[t.key].updated_at \in Nat
      BY <3>1 DEF K!Key, K!Times, GraceCovers
    <3> QED BY <1>1, <2>3, <3>1, <3>2 DEF KeyInv, KeptIsTrue
  <2>5. K!RevokedGone
    <3> SUFFICES ASSUME NEW k \in Keys, key[k].status = "revoked",
                        K!Settled(key[k].updated_at), K!Fresh(cache)
                 PROVE  k \notin cache.keys
      BY DEF K!RevokedGone
    <3>1. key[k] \in K!Key
      BY <1>1, KeyFacts DEF K!NoKey
    <3>2. key[k].updated_at \in Nat
      BY <3>1 DEF K!Key, K!Times, GraceCovers
    <3> QED BY <1>1, <2>3, <3>2 DEF KeyInv, KeptIsTrue
  <2> QED BY <2>1, <2>4, <2>5 DEF K!KeysServed
<1> QED BY <1>1, KeyInvariance, PTL

\* A key keeps its type, and the cache holds keys of the tenant that were read
\* in the past.
THEOREM KeysTyped == ASSUME GraceCovers PROVE K!Spec => []K!TypeOK
<1>1. ASSUME KeyInv PROVE K!TypeOK
  <2>1. \A k \in Keys : key[k] = K!NoKey \/ key[k] \in K!Key
    BY <1>1, KeyFacts
  <2> QED BY <1>1, <2>1 DEF KeyInv, KeyTypes, K!TypeOK
<1> QED BY <1>1, KeyInvariance, PTL

-----------------------------------------------------------------------------
(***************************************************************************)
(* Issuance over HTTP (Oid4vciExchange), for any number of exchanges,      *)
(* codes and nonces: what is recorded as issued was made, whatever number  *)
(* of requests overlap, and of requests that do not overlap an exchange    *)
(* gives one credential and is found by its refresh_id.                    *)
(***************************************************************************)
CONSTANTS Tasks, NonceEndpoint, MaxExchanges, MaxCodes, MaxNonces
VARIABLES rec, last, nonces, codes, tokens, made, work

Ex == INSTANCE Oid4vciExchange WITH task <- work

\* Records and requests, with any nonce that Lowest can be.
Chosen == {Ex!None} \cup {Ex!Lowest(S) : S \in SUBSET (1..MaxNonces)}
Rec == [state : Ex!States, refresh_id : Ex!Exchanges, code : Nat,
        token : BOOLEAN, nonce : Chosen]
Opens     == {"created", "offer"}
PastOffer == {"issued", "accepted", "failed", "deleted"}
CopyPcs   == {"offer", "supersede", "token", "c_nonce", "redeem", "issue", "issued", "notify"}
CopyWork  == [pc : CopyPcs, x : Ex!Exchanges, copy : Rec, v : Nat]
RenewWork == [pc : {"renew"}, id : Ex!Exchanges]
Work      == {Ex!Idle} \cup CopyWork \cup RenewWork

ExTypes ==
    /\ last \in 0..MaxExchanges /\ codes \in Nat
    /\ rec \in [Ex!Exchanges -> {Ex!Absent} \cup Rec]
    /\ made \in [Ex!Exchanges -> Nat]
    /\ work \in [Tasks -> Work]

\* A record, or a copy of one, is past its offer if a credential was made, and a
\* notification is of one that was.
Right(r, x)  == r.state \in PastOffer => made[x] > 0
RightWork(w) == w \in CopyWork => Right(w.copy, w.x) /\ (w.pc = "notify" => made[w.x] > 0)
MadeInv ==
    /\ ExTypes
    /\ \A x \in Ex!Exchanges : Right(rec[x], x)
    /\ \A t \in Tasks : RightWork(work[t])

LEMMA WorkKinds ==
    /\ \A w \in CopyWork : /\ w.pc \in CopyPcs /\ w.x \in Ex!Exchanges /\ w.copy \in Rec
                           /\ w.v \in Nat /\ w # Ex!Idle /\ w \notin RenewWork
    /\ \A w \in RenewWork : w.pc = "renew" /\ w.id \in Ex!Exchanges /\ w \notin CopyWork
    /\ \A w \in Work : w # Ex!Idle /\ w.pc # "renew" => w \in CopyWork
    /\ \A w \in Work : w.pc \in CopyPcs => w \in CopyWork
    /\ \A w \in Work : w.pc = "renew" => w \in RenewWork
    /\ Ex!Idle \notin CopyWork /\ Ex!Idle \notin RenewWork
    /\ Ex!Absent \notin Rec
<1>1. \A w \in CopyWork : /\ w.pc \in CopyPcs /\ w.x \in Ex!Exchanges /\ w.copy \in Rec
                          /\ w.v \in Nat /\ w.pc # "idle" /\ w.pc # "renew"
  BY DEF CopyWork, CopyPcs
<1>2. \A w \in RenewWork : w.pc = "renew" /\ w.id \in Ex!Exchanges
  BY DEF RenewWork
<1>3. Ex!Idle.pc = "idle"
  BY DEF Ex!Idle
<1>4. "renew" \notin CopyPcs /\ "idle" \notin CopyPcs
  BY DEF CopyPcs
<1>5. Ex!Absent \notin Rec
  BY DEF Ex!Absent, Rec, Ex!States
<1> QED BY <1>1, <1>2, <1>3, <1>4, <1>5 DEF Work

\* A step keeps MadeInv when what it writes is right.
LEMMA ExStep ==
    ASSUME MadeInv, last' \in 0..MaxExchanges, codes' \in Nat,
           made' \in [Ex!Exchanges -> Nat], \A x \in Ex!Exchanges : made'[x] >= made[x],
           rec' \in [Ex!Exchanges -> {Ex!Absent} \cup Rec],
           \A x \in Ex!Exchanges :
              rec'[x] = rec[x] \/ (rec'[x].state \in PastOffer => made'[x] > 0),
           work' \in [Tasks -> Work],
           \A t \in Tasks : work'[t] = work[t] \/ RightWork(work[t])'
    PROVE  MadeInv'
<1>1. \A x \in Ex!Exchanges : made[x] \in Nat /\ made'[x] \in Nat /\ made'[x] >= made[x]
  BY DEF MadeInv, ExTypes
<1>2. \A x \in Ex!Exchanges : made[x] > 0 => made'[x] > 0
  BY <1>1
<1>3. ExTypes'
  BY DEF ExTypes
<1>4. \A x \in Ex!Exchanges : Right(rec[x], x)'
  BY <1>2 DEF MadeInv, Right
<1>5. \A t \in Tasks : RightWork(work[t])'
  BY <1>2, WorkKinds DEF MadeInv, Right, RightWork
<1> QED BY <1>3, <1>4, <1>5 DEF MadeInv

\* The three ways to write the state: a request moves on and no record changes;
\* it saves a record of its exchange; a record is added or removed.
LEMMA MoveOn ==
    ASSUME MadeInv, NEW t \in Tasks, NEW w \in Work, RightWork(w),
           work' = [work EXCEPT ![t] = w], UNCHANGED <<rec, last, codes, made>>
    PROVE  MadeInv'
<1>1. work' \in [Tasks -> Work] /\ work'[t] = w /\ \A s \in Tasks : s # t => work'[s] = work[s]
  BY DEF MadeInv, ExTypes
<1>2. RightWork(work[t])'
  BY <1>1 DEF RightWork, Right
<1>3. \A x \in Ex!Exchanges : made[x] \in Nat
  BY DEF MadeInv, ExTypes
<1>4. \A x \in Ex!Exchanges : made'[x] >= made[x]
  BY <1>3
<1>5. \A s \in Tasks : work'[s] = work[s] \/ RightWork(work[s])'
  BY <1>1, <1>2
<1> QED BY <1>1, <1>4, <1>5, ExStep DEF MadeInv, ExTypes

LEMMA SavedRecord ==
    ASSUME MadeInv, NEW x \in Ex!Exchanges, NEW r \in Rec, rec' = Ex!Saved(x, r)
    PROVE  /\ rec' \in [Ex!Exchanges -> {Ex!Absent} \cup Rec]
           /\ rec'[x] = IF rec[x] = Ex!Absent THEN Ex!Absent ELSE r
           /\ \A y \in Ex!Exchanges : y # x => rec'[y] = rec[y]
BY DEF MadeInv, ExTypes, Ex!Saved, Ex!Exists

LEMMA SaveStep ==
    ASSUME MadeInv, NEW t \in Tasks, NEW w \in Work, NEW x \in Ex!Exchanges, NEW r \in Rec,
           Right(r, x), RightWork(w),
           rec' = Ex!Saved(x, r), work' = [work EXCEPT ![t] = w], codes' \in Nat,
           UNCHANGED <<last, made>>
    PROVE  MadeInv'
<1>1. work' \in [Tasks -> Work] /\ work'[t] = w /\ \A s \in Tasks : s # t => work'[s] = work[s]
  BY DEF MadeInv, ExTypes
<1>2. RightWork(work[t])'
  BY <1>1 DEF RightWork, Right
<1>3. \A y \in Ex!Exchanges : made[y] \in Nat
  BY DEF MadeInv, ExTypes
<1>4. \A y \in Ex!Exchanges : made'[y] >= made[y]
  BY <1>3
<1>5. \A s \in Tasks : work'[s] = work[s] \/ RightWork(work[s])'
  BY <1>1, <1>2
<1>6. \A y \in Ex!Exchanges :
         rec'[y] = rec[y] \/ (rec'[y].state \in PastOffer => made'[y] > 0)
  BY SavedRecord DEF Right
<1> QED BY <1>1, <1>4, <1>5, <1>6, SavedRecord, ExStep DEF MadeInv, ExTypes

LEMMA AddStep ==
    ASSUME MadeInv, NEW id \in Ex!Exchanges, last < MaxExchanges, MaxExchanges \in Nat,
           last' = last + 1, rec' = [rec EXCEPT ![last'] = Ex!NewRecord(id)],
           UNCHANGED <<codes, made>>,
           \/ UNCHANGED work
           \/ \E t \in Tasks : work' = [work EXCEPT ![t] = Ex!Idle]
    PROVE  /\ MadeInv'
           /\ last + 1 \in Ex!Exchanges
           /\ Ex!NewRecord(id) \in Rec
           /\ rec'[last + 1] = Ex!NewRecord(id)
           /\ \A y \in Ex!Exchanges : y # last + 1 => rec'[y] = rec[y]
<1>1. last \in Nat /\ last + 1 \in Ex!Exchanges /\ last' \in 0..MaxExchanges
  BY DEF MadeInv, ExTypes, Ex!Exchanges
<1>2. Ex!NewRecord(id) \in Rec /\ Ex!NewRecord(id).state = "created"
  <2>1. Ex!None \in Nat /\ Ex!None \in Chosen
    BY DEF Ex!None, Chosen
  <2> QED BY <2>1 DEF Ex!NewRecord, Rec, Ex!States
<1>3. /\ rec' \in [Ex!Exchanges -> {Ex!Absent} \cup Rec]
      /\ rec'[last + 1] = Ex!NewRecord(id)
      /\ \A y \in Ex!Exchanges : y # last + 1 => rec'[y] = rec[y]
  BY <1>1, <1>2 DEF MadeInv, ExTypes
<1>4. work' \in [Tasks -> Work] /\ \A s \in Tasks : work'[s] = work[s] \/ work'[s] = Ex!Idle
  BY DEF MadeInv, ExTypes, Work
<1>5. \A s \in Tasks : work'[s] = work[s] \/ RightWork(work[s])'
  BY <1>4, WorkKinds DEF RightWork
<1>6. \A y \in Ex!Exchanges : made'[y] >= made[y]
  <2>1. \A y \in Ex!Exchanges : made[y] \in Nat
    BY DEF MadeInv, ExTypes
  <2> QED BY <2>1
<1>7. \A y \in Ex!Exchanges :
         rec'[y] = rec[y] \/ (rec'[y].state \in PastOffer => made'[y] > 0)
  BY <1>2, <1>3 DEF PastOffer
<1>8. codes' \in Nat /\ made' \in [Ex!Exchanges -> Nat]
  BY DEF MadeInv, ExTypes
<1>9. MadeInv'
  BY <1>1, <1>3, <1>4, <1>5, <1>6, <1>7, <1>8, ExStep
<1> QED BY <1>1, <1>2, <1>3, <1>9

-----------------------------------------------------------------------------
LEMMA ExchangeCreateMade ==
    ASSUME MadeInv, MaxExchanges \in Nat, Ex!ExchangeCreate
    PROVE  MadeInv'
<1>1. last + 1 \in Ex!Exchanges
  BY DEF Ex!ExchangeCreate, MadeInv, ExTypes, Ex!Exchanges
<1> QED BY <1>1, AddStep DEF Ex!ExchangeCreate

LEMMA RenewMade ==
    ASSUME MadeInv, MaxExchanges \in Nat, NEW t \in Tasks, Ex!Renew(t)
    PROVE  MadeInv'
<1>1. work[t] \in RenewWork /\ work[t].id \in Ex!Exchanges
  BY WorkKinds DEF Ex!Renew, Ex!At, MadeInv, ExTypes
<1> QED BY <1>1, AddStep DEF Ex!Renew, Ex!Done, Ex!Goto

LEMMA DeleteMade ==
    ASSUME MadeInv, NEW x \in Ex!Exchanges, Ex!ExchangeDelete(x)
    PROVE  MadeInv'
<1>1. UNCHANGED <<last, codes, made, work>>
  BY DEF Ex!ExchangeDelete
<1>2. rec' \in [Ex!Exchanges -> {Ex!Absent} \cup Rec]
      /\ \A y \in Ex!Exchanges : rec'[y] = rec[y] \/ rec'[y] = Ex!Absent
  BY DEF Ex!ExchangeDelete, MadeInv, ExTypes
<1>3. Ex!Absent.state \notin PastOffer
  BY DEF Ex!Absent, PastOffer
<1>4. \A y \in Ex!Exchanges : made[y] \in Nat
  BY DEF MadeInv, ExTypes
<1>5. \A y \in Ex!Exchanges : made'[y] >= made[y]
  BY <1>1, <1>4
<1>6. \A y \in Ex!Exchanges :
         rec'[y] = rec[y] \/ (rec'[y].state \in PastOffer => made'[y] > 0)
  BY <1>2, <1>3
<1> QED BY <1>1, <1>2, <1>5, <1>6, ExStep DEF MadeInv, ExTypes

\* A request that starts copies a record, which is right.
LEMMA BeginWork ==
    ASSUME MadeInv, NEW x \in Ex!Exchanges, Ex!Exists(x), NEW pc \in CopyPcs, NEW v \in Nat,
           pc = "notify" => made[x] > 0
    PROVE  LET w == [pc |-> pc, x |-> x, copy |-> rec[x], v |-> v]
           IN  w \in CopyWork /\ w \in Work /\ RightWork(w)
<1> DEFINE w == [pc |-> pc, x |-> x, copy |-> rec[x], v |-> v]
<1>1. rec[x] \in Rec /\ Right(rec[x], x)
  BY DEF MadeInv, ExTypes, Ex!Exists
<1>2. w \in CopyWork
  BY <1>1 DEF CopyWork
<1> QED BY <1>1, <1>2 DEF Work, RightWork

LEMMA BeginMade ==
    ASSUME MadeInv, NEW t \in Tasks, NEW x \in Ex!Exchanges, Ex!Exists(x), NEW pc \in CopyPcs,
           pc = "notify" => made[x] > 0,
           Ex!Begin(t, pc, x), UNCHANGED <<rec, last, codes, made>>
    PROVE  MadeInv'
<1>1. Ex!None \in Nat
  BY DEF Ex!None
<1> QED BY <1>1, BeginWork, MoveOn DEF Ex!Begin

LEMMA StartsMade ==
    ASSUME MadeInv, NEW t \in Tasks, NEW x \in Ex!Exchanges,
           \/ Ex!StartOffer(t, x) \/ Ex!StartToken(t, x) \/ Ex!StartNotification(t, x)
    PROVE  MadeInv'
<1>1. CASE Ex!StartOffer(t, x)
  BY <1>1, BeginMade DEF Ex!StartOffer, CopyPcs
<1>2. CASE Ex!StartToken(t, x)
  BY <1>2, BeginMade DEF Ex!StartToken, CopyPcs
<1>3. CASE Ex!StartNotification(t, x)
  BY <1>3, BeginMade DEF Ex!StartNotification, CopyPcs
<1> QED BY <1>1, <1>2, <1>3

LEMMA StartRefreshMade ==
    ASSUME MadeInv, NEW t \in Tasks, NEW id \in Ex!Exchanges, Ex!StartRefresh(t, id)
    PROVE  MadeInv'
<1>1. UNCHANGED <<rec, last, codes, made>>
  BY DEF Ex!StartRefresh
<1>2. CASE \E x \in Ex!Exchanges : Ex!Found(id, x) /\ Ex!Begin(t, "supersede", x)
  <2>1. PICK x \in Ex!Exchanges : Ex!Found(id, x) /\ Ex!Begin(t, "supersede", x)
    BY <1>2
  <2>2. Ex!Exists(x)
    BY <2>1 DEF Ex!Found, Ex!Retrieved
  <2> QED BY <1>1, <2>1, <2>2, BeginMade DEF CopyPcs
<1>3. CASE Ex!Goto(t, [pc |-> "renew", id |-> id])
  <2> DEFINE w == [pc |-> "renew", id |-> id]
  <2>1. w \in RenewWork /\ w \in Work
    BY DEF RenewWork, Work
  <2>2. RightWork(w)
    BY <2>1, WorkKinds DEF RightWork
  <2> QED BY <1>1, <1>3, <2>1, <2>2, MoveOn DEF Ex!Goto
<1> QED BY <1>2, <1>3 DEF Ex!StartRefresh

LEMMA StartCredentialMade ==
    ASSUME MadeInv, NEW t \in Tasks, NEW x \in Ex!Exchanges, NEW id \in Ex!Exchanges,
           NEW v \in 1..MaxNonces, Ex!StartCredential(t, id, x, v)
    PROVE  MadeInv'
<1>1. UNCHANGED <<rec, last, codes, made>> /\ Ex!Exists(x) /\ v \in Nat
  BY DEF Ex!StartCredential, Ex!Found, Ex!Retrieved
<1>2. \E pc \in {"redeem", "issue"} :
         work' = [work EXCEPT ![t] = [pc |-> pc, x |-> x, copy |-> rec[x], v |-> v]]
  BY DEF Ex!StartCredential, Ex!Goto
<1>3. PICK pc \in {"redeem", "issue"} :
         work' = [work EXCEPT ![t] = [pc |-> pc, x |-> x, copy |-> rec[x], v |-> v]]
  BY <1>2
<1> DEFINE w == [pc |-> pc, x |-> x, copy |-> rec[x], v |-> v]
<1>4. pc \in CopyPcs /\ pc # "notify"
  BY DEF CopyPcs
<1>5. w \in Work /\ RightWork(w)
  BY <1>1, <1>4, BeginWork
<1> QED BY <1>1, <1>3, <1>5, MoveOn

LEMMA CopyOf ==
    ASSUME MadeInv, NEW t \in Tasks, work[t].pc \in CopyPcs
    PROVE  /\ work[t] \in CopyWork /\ work[t].x \in Ex!Exchanges /\ work[t].copy \in Rec
           /\ Right(work[t].copy, work[t].x)
           /\ work[t].pc = "notify" => made[work[t].x] > 0
BY WorkKinds DEF MadeInv, ExTypes, RightWork

LEMMA NoWork == Ex!Idle \in Work /\ RightWork(Ex!Idle)
BY WorkKinds DEF Work, RightWork

LEMMA GoesOn ==
    ASSUME MadeInv, NEW t \in Tasks, work[t].pc \in CopyPcs, NEW pc \in CopyPcs \ {"notify"},
           NEW r \in Rec, Right(r, work[t].x)
    PROVE  LET w == [work[t] EXCEPT !.pc = pc, !.copy = r]
           IN  w \in CopyWork /\ w \in Work /\ RightWork(w)
               /\ w.pc = pc /\ w.x = work[t].x /\ w.copy = r
<1> DEFINE w == [work[t] EXCEPT !.pc = pc, !.copy = r]
<1>1. work[t] \in CopyWork
  BY CopyOf
<1>2. w \in CopyWork /\ w.pc = pc /\ w.x = work[t].x /\ w.copy = r
  BY <1>1 DEF CopyWork
<1> QED BY <1>2 DEF Work, RightWork

LEMMA SaveOfferMade ==
    ASSUME MadeInv, NEW t \in Tasks, Ex!SaveOffer(t)
    PROVE  MadeInv'
<1>1. work[t].pc \in CopyPcs
  BY DEF Ex!SaveOffer, Ex!At, CopyPcs
<1> DEFINE r == [work[t].copy EXCEPT !.state = "offer", !.code = codes + 1]
<1>2. codes + 1 \in Nat
  BY DEF MadeInv, ExTypes
<1>3. r \in Rec /\ r.state = "offer"
  <2>1. work[t].copy \in Rec
    BY <1>1, CopyOf
  <2>2. "offer" \in Ex!States
    BY DEF Ex!States
  <2> QED BY <1>2, <2>1, <2>2 DEF Rec
<1>4. Right(r, work[t].x)
  BY <1>3 DEF Right, PastOffer
<1>5. /\ rec' = Ex!Saved(work[t].x, r) /\ work' = [work EXCEPT ![t] = Ex!Idle]
      /\ codes' = codes + 1 /\ UNCHANGED <<last, made>>
  BY DEF Ex!SaveOffer, Ex!Done, Ex!Goto
<1>6. codes' \in Nat
  BY <1>2, <1>5
<1> HIDE DEF r
<1> QED BY <1>1, <1>3, <1>4, <1>5, <1>6, CopyOf, NoWork, SaveStep

LEMMA SupersedeMade ==
    ASSUME MadeInv, NEW t \in Tasks, Ex!Supersede(t)
    PROVE  MadeInv'
<1>1. work[t].pc \in CopyPcs
  BY DEF Ex!Supersede, Ex!At, CopyPcs
<1> DEFINE r == Ex!Superseded(work[t].copy)
           n == [pc |-> "renew", id |-> work[t].copy.refresh_id]
<1>2. r \in Rec /\ r.state = "superceded"
  BY <1>1, CopyOf DEF Rec, Ex!States, Ex!Superseded
<1>3. Right(r, work[t].x)
  BY <1>2 DEF Right, PastOffer
<1>4. n \in RenewWork
  BY <1>1, CopyOf DEF RenewWork, Rec
<1>5. n \in Work /\ RightWork(n)
  BY <1>4, WorkKinds DEF Work, RightWork
<1>6. work' = [work EXCEPT ![t] = n]
  BY DEF Ex!Supersede, Ex!Goto
<1>7. rec' = Ex!Saved(work[t].x, r) /\ UNCHANGED <<last, codes, made>>
  BY DEF Ex!Supersede
<1>8. codes' \in Nat
  BY <1>7 DEF MadeInv, ExTypes
<1> HIDE DEF r, n
<1> QED BY <1>1, <1>2, <1>3, <1>5, <1>6, <1>7, <1>8, CopyOf, SaveStep

LEMMA SaveTokenMade ==
    ASSUME MadeInv, NEW t \in Tasks, Ex!SaveToken(t)
    PROVE  MadeInv'
<1>1. work[t].pc \in CopyPcs
  BY DEF Ex!SaveToken, Ex!At, CopyPcs
<1> DEFINE r == [work[t].copy EXCEPT !.token = TRUE]
           n == [work[t] EXCEPT !.pc = "c_nonce", !.copy = r]
<1>2. r \in Rec /\ r.state = work[t].copy.state
  BY <1>1, CopyOf DEF Rec
<1>3. Right(r, work[t].x)
  BY <1>1, <1>2, CopyOf DEF Right
<1>4. n \in Work /\ RightWork(n)
  BY <1>1, <1>2, <1>3, GoesOn DEF CopyPcs
<1>5. PICK w \in {n, Ex!Idle} : work' = [work EXCEPT ![t] = w]
  BY DEF Ex!SaveToken, Ex!Done, Ex!Goto
<1>6. rec' = Ex!Saved(work[t].x, r) /\ UNCHANGED <<last, codes, made>>
  BY DEF Ex!SaveToken
<1>7. codes' \in Nat
  BY <1>6 DEF MadeInv, ExTypes
<1>8. w \in Work /\ RightWork(w)
  BY <1>4, NoWork
<1> HIDE DEF r, n
<1> QED BY <1>1, <1>2, <1>3, <1>5, <1>6, <1>7, <1>8, CopyOf, SaveStep

LEMMA SaveNonceMade ==
    ASSUME MadeInv, NEW t \in Tasks, Ex!SaveNonce(t)
    PROVE  MadeInv'
<1>1. work[t].pc \in CopyPcs
  BY DEF Ex!SaveNonce, Ex!At, CopyPcs
<1> DEFINE r == [work[t].copy EXCEPT !.nonce = Ex!Lowest(Ex!Fresh)]
<1>2. Ex!Lowest(Ex!Fresh) \in Chosen
  BY DEF Chosen, Ex!Fresh
<1>3. r \in Rec /\ r.state = work[t].copy.state
  BY <1>1, <1>2, CopyOf DEF Rec
<1>4. Right(r, work[t].x)
  BY <1>1, <1>3, CopyOf DEF Right
<1>5. /\ rec' = Ex!Saved(work[t].x, r) /\ work' = [work EXCEPT ![t] = Ex!Idle]
      /\ UNCHANGED <<last, codes, made>>
  BY DEF Ex!SaveNonce, Ex!Done, Ex!Goto
<1>6. codes' \in Nat
  BY <1>5 DEF MadeInv, ExTypes
<1> HIDE DEF r
<1> QED BY <1>1, <1>3, <1>4, <1>5, <1>6, CopyOf, NoWork, SaveStep

LEMMA RedeemMade ==
    ASSUME MadeInv, NEW t \in Tasks, Ex!Redeem(t) \/ Ex!Issue(t)
    PROVE  MadeInv'
<1>1. work[t].pc \in CopyPcs /\ UNCHANGED <<rec, last, codes, made>>
  BY DEF Ex!Redeem, Ex!Issue, Ex!Untouched, Ex!At, CopyPcs
<1>2. \E pc \in {"issue", "issued"} : \E w \in {[work[t] EXCEPT !.pc = pc], Ex!Idle} :
         work' = [work EXCEPT ![t] = w]
  BY DEF Ex!Redeem, Ex!Issue, Ex!Done, Ex!Goto
<1>3. PICK pc \in {"issue", "issued"} : \E w \in {[work[t] EXCEPT !.pc = pc], Ex!Idle} :
         work' = [work EXCEPT ![t] = w]
  BY <1>2
<1> DEFINE n == [work[t] EXCEPT !.pc = pc]
<1>4. n \in Work /\ RightWork(n)
  <2>1. work[t] \in CopyWork /\ Right(work[t].copy, work[t].x)
    BY <1>1, CopyOf
  <2>2. n \in CopyWork /\ n.pc = pc /\ n.x = work[t].x /\ n.copy = work[t].copy
    BY <2>1 DEF CopyWork, CopyPcs
  <2> QED BY <2>1, <2>2 DEF Work, RightWork
<1> HIDE DEF n
<1>5. PICK w \in {n, Ex!Idle} : work' = [work EXCEPT ![t] = w]
  BY <1>3 DEF n
<1> QED BY <1>1, <1>4, <1>5, NoWork, MoveOn

LEMMA SaveIssuedMade ==
    ASSUME MadeInv, NEW t \in Tasks, Ex!SaveIssued(t)
    PROVE  MadeInv'
<1>1. work[t].pc \in CopyPcs
  BY DEF Ex!SaveIssued, Ex!At, CopyPcs
<1> DEFINE x == work[t].x
           r == Ex!AsIssued(work[t].copy)
<1>2. r \in Rec /\ x \in Ex!Exchanges
  BY <1>1, CopyOf DEF Rec, Ex!States, Ex!AsIssued
<1>3. /\ rec' = Ex!Saved(x, r) /\ work' = [work EXCEPT ![t] = Ex!Idle]
      /\ made' = IF rec[x] # Ex!Absent THEN [made EXCEPT ![x] = @ + 1] ELSE made
      /\ UNCHANGED <<last, codes>>
  BY DEF Ex!SaveIssued, Ex!Done, Ex!Goto, Ex!Exists
<1> HIDE DEF x, r
<1>4. \A y \in Ex!Exchanges : made[y] \in Nat
  BY DEF MadeInv, ExTypes
<1>5. /\ made' \in [Ex!Exchanges -> Nat]
      /\ \A y \in Ex!Exchanges : made'[y] >= made[y]
      /\ rec[x] # Ex!Absent => made'[x] > 0
  BY <1>2, <1>3, <1>4 DEF MadeInv, ExTypes
<1>6. \A y \in Ex!Exchanges :
         rec'[y] = rec[y] \/ (rec'[y].state \in PastOffer => made'[y] > 0)
  BY <1>2, <1>3, <1>5, SavedRecord
<1>7. work' \in [Tasks -> Work] /\ work'[t] = Ex!Idle
      /\ \A s \in Tasks : s # t => work'[s] = work[s]
  BY <1>3, NoWork DEF MadeInv, ExTypes
<1>8. \A s \in Tasks : work'[s] = work[s] \/ RightWork(work[s])'
  BY <1>7, WorkKinds DEF RightWork
<1> QED BY <1>2, <1>3, <1>5, <1>6, <1>7, <1>8, SavedRecord, ExStep DEF MadeInv, ExTypes

LEMMA SaveNotificationMade ==
    ASSUME MadeInv, NEW t \in Tasks, Ex!SaveNotification(t)
    PROVE  MadeInv'
<1>1. work[t].pc \in CopyPcs /\ work[t].pc = "notify"
  BY DEF Ex!SaveNotification, Ex!At, CopyPcs
<1>2. PICK s \in {"accepted", "failed", "deleted"} :
         rec' = Ex!Saved(work[t].x, [work[t].copy EXCEPT !.state = s])
  BY DEF Ex!SaveNotification
<1> DEFINE r == [work[t].copy EXCEPT !.state = s]
<1>3. r \in Rec
  BY <1>1, CopyOf DEF Rec, Ex!States
<1>4. Right(r, work[t].x)
  BY <1>1, CopyOf DEF Right
<1>5. work' = [work EXCEPT ![t] = Ex!Idle] /\ UNCHANGED <<last, codes, made>>
  BY DEF Ex!SaveNotification, Ex!Done, Ex!Goto
<1>6. codes' \in Nat
  BY <1>5 DEF MadeInv, ExTypes
<1> HIDE DEF r
<1>7. rec' = Ex!Saved(work[t].x, r)
  BY <1>2 DEF r
<1> QED BY <1>1, <1>3, <1>4, <1>5, <1>6, <1>7, CopyOf, NoWork, SaveStep

LEMMA SameMade ==
    ASSUME MadeInv, UNCHANGED <<rec, last, codes, made, work>>
    PROVE  MadeInv'
BY DEF MadeInv, ExTypes, Right, RightWork

LEMMA MadeNext ==
    ASSUME MadeInv, MaxExchanges \in Nat, [Ex!Next]_(Ex!vars)
    PROVE  MadeInv'
<1>1. CASE Ex!ExchangeCreate
  BY <1>1, ExchangeCreateMade
<1>2. CASE Ex!GetNonce
  BY <1>2, SameMade DEF Ex!GetNonce
<1>3. ASSUME NEW x \in Ex!Exchanges, Ex!ExchangeDelete(x)
      PROVE  MadeInv'
  BY <1>3, DeleteMade
<1>4. ASSUME NEW t \in Tasks, NEW x \in Ex!Exchanges,
             \/ Ex!StartOffer(t, x) \/ Ex!StartRefresh(t, x)
             \/ Ex!StartToken(t, x) \/ Ex!StartNotification(t, x)
             \/ \E id \in Ex!Exchanges, v \in 1..MaxNonces : Ex!StartCredential(t, id, x, v)
      PROVE  MadeInv'
  BY <1>4, StartsMade, StartRefreshMade, StartCredentialMade
<1>5. ASSUME NEW t \in Tasks,
             \/ Ex!SaveOffer(t) \/ Ex!Supersede(t) \/ Ex!Renew(t) \/ Ex!SaveToken(t)
             \/ Ex!SaveNonce(t) \/ Ex!Redeem(t) \/ Ex!Issue(t) \/ Ex!SaveIssued(t)
             \/ Ex!SaveNotification(t)
      PROVE  MadeInv'
  BY <1>5, SaveOfferMade, SupersedeMade, RenewMade, SaveTokenMade, SaveNonceMade, RedeemMade,
     SaveIssuedMade, SaveNotificationMade
<1>6. CASE UNCHANGED Ex!vars
  BY <1>6, SameMade DEF Ex!vars
<1> QED BY <1>1, <1>2, <1>3, <1>4, <1>5, <1>6 DEF Ex!Next

LEMMA MadeInit ==
    ASSUME MaxExchanges \in Nat, Ex!Init
    PROVE  MadeInv
<1>1. ExTypes
  BY DEF Ex!Init, ExTypes, Work
<1>2. \A t \in Tasks : RightWork(work[t])
  BY NoWork DEF Ex!Init
<1>3. \A x \in Ex!Exchanges : Right(rec[x], x)
  BY DEF Ex!Init, Ex!Absent, Right, PastOffer
<1> QED BY <1>1, <1>2, <1>3 DEF MadeInv

\* No exchange is recorded as issued, or as what the wallet said of it later,
\* of which no credential was given out, whatever fails and however many
\* requests save their copies of the record.
THEOREM IssuedWasMade ==
    ASSUME MaxExchanges \in Nat
    PROVE  Ex!Spec => []Ex!IssuedMeansMade
<1>1. MadeInv => Ex!IssuedMeansMade
  BY DEF MadeInv, Right, PastOffer, Ex!IssuedMeansMade
<1>2. Ex!Init => MadeInv
  BY MadeInit
<1>3. MadeInv /\ [Ex!Next]_(Ex!vars) => MadeInv'
  BY MadeNext
<1> QED BY <1>1, <1>2, <1>3, PTL DEF Ex!Spec

-----------------------------------------------------------------------------
\* Requests that do not overlap.
OneAtATime == \A s, t \in Tasks : s = t

\* The copy of the one request is the record, if that is still there, and what
\* it was started for still holds; a request that is to renew an exchange finds
\* none open, and one that supersedes an exchange no other, also when that was
\* deleted meanwhile.
AloneWork(w, R, n) ==
    /\ w \in CopyWork =>
          /\ R[w.x] = Ex!Absent \/ R[w.x] = w.copy
          /\ w.x <= n /\ w.copy.refresh_id <= n
          /\ w.pc = "offer" => w.copy.state = "created"
          /\ w.pc \in {"supersede", "redeem", "issue", "issued"} => w.copy.state \in Opens
          /\ w.pc = "supersede" =>
                \A x \in Ex!Exchanges :
                   x # w.x /\ R[x] # Ex!Absent /\ R[x].state \in Opens =>
                      R[x].refresh_id # w.copy.refresh_id
    /\ w \in RenewWork =>
          /\ w.id <= n
          /\ \A x \in Ex!Exchanges :
                R[x] # Ex!Absent /\ R[x].state \in Opens => R[x].refresh_id # w.id

\* Of an open exchange no credential was made, and its refresh_id is its alone.
OpensApart ==
    \A x, y \in Ex!Exchanges :
        /\ rec[x] # Ex!Absent /\ rec[x].state \in Opens
        /\ rec[y] # Ex!Absent /\ rec[y].state \in Opens
        /\ rec[x].refresh_id = rec[y].refresh_id
        => x = y
AloneInv ==
    /\ \A x \in Ex!Exchanges : x > last => rec[x] = Ex!Absent /\ made[x] = 0
    /\ \A x \in Ex!Exchanges : rec[x] # Ex!Absent => rec[x].refresh_id <= last
    /\ \A x \in Ex!Exchanges : rec[x] # Ex!Absent /\ rec[x].state \in Opens => made[x] = 0
    /\ \A x \in Ex!Exchanges : made[x] <= 1
    /\ OpensApart
    /\ \A t \in Tasks : AloneWork(work[t], rec, last)

LEMMA AloneMove ==
    ASSUME OneAtATime, MadeInv, AloneInv, NEW t \in Tasks, NEW w \in Work,
           AloneWork(w, rec, last),
           work' = [work EXCEPT ![t] = w], UNCHANGED <<rec, last, made>>
    PROVE  AloneInv'
<1>1. \A s \in Tasks : work'[s] = w
  BY DEF MadeInv, ExTypes, OneAtATime
<1>2. \A s \in Tasks : AloneWork(work'[s], rec', last')
  BY <1>1
<1> QED BY <1>2 DEF AloneInv, OpensApart

\* A save closes an exchange or leaves it open, and does not open one.
LEMMA AloneSave ==
    ASSUME OneAtATime, MadeInv, AloneInv, NEW t \in Tasks, NEW w \in Work, NEW r \in Rec,
           work[t] \in CopyWork, r.refresh_id = work[t].copy.refresh_id,
           r.state \in Opens => work[t].copy.state \in Opens,
           rec' = Ex!Saved(work[t].x, r), work' = [work EXCEPT ![t] = w], UNCHANGED last,
           AloneWork(w, rec', last),
           \/ UNCHANGED made
           \/ /\ r.state \notin Opens /\ made[work[t].x] = 0
              /\ made' = [made EXCEPT ![work[t].x] = 1]
    PROVE  AloneInv'
<1> DEFINE x == work[t].x
           c == work[t].copy
<1>1. /\ x \in Ex!Exchanges /\ x <= last /\ c.refresh_id <= last
      /\ rec[x] = Ex!Absent \/ rec[x] = c
  BY WorkKinds DEF AloneInv, AloneWork
<1>2. /\ rec[x] = Ex!Absent => rec'[x] = Ex!Absent
      /\ rec[x] # Ex!Absent => rec'[x] = r
      /\ \A y \in Ex!Exchanges : y # x => rec'[y] = rec[y]
  BY <1>1, SavedRecord
<1>3. \A y \in Ex!Exchanges : y # x => made'[y] = made[y]
  BY DEF MadeInv, ExTypes
<1>4. \A s \in Tasks : work'[s] = w
  BY DEF MadeInv, ExTypes, OneAtATime
<1>5. \A y \in Ex!Exchanges : rec'[y] # Ex!Absent /\ rec'[y].state \in Opens =>
         rec[y] # Ex!Absent /\ rec[y].state \in Opens /\ rec[y].refresh_id = rec'[y].refresh_id
  BY <1>1, <1>2
<1>6. \A y \in Ex!Exchanges : rec'[y] # Ex!Absent => rec'[y].refresh_id <= last
  BY <1>1, <1>2 DEF AloneInv
<1>7. ASSUME NEW y \in Ex!Exchanges, y > last
      PROVE  rec'[y] = Ex!Absent /\ made'[y] = 0
  <2>1. y # x
    <3>1. y \in Nat /\ x \in Nat /\ last \in Nat
      BY <1>1 DEF Ex!Exchanges, MadeInv, ExTypes
    <3> QED BY <1>1, <1>7, <3>1
  <2> QED BY <1>2, <1>3, <1>7, <2>1 DEF AloneInv
<1>8. made'[x] = made[x] \/ (made'[x] = 1 /\ r.state \notin Opens)
  BY <1>1 DEF MadeInv, ExTypes
<1>9. ASSUME NEW y \in Ex!Exchanges
      PROVE  /\ made'[y] <= 1
             /\ rec'[y] # Ex!Absent /\ rec'[y].state \in Opens => made'[y] = 0
  <2>1. made[y] <= 1 /\ (rec[y] # Ex!Absent /\ rec[y].state \in Opens => made[y] = 0)
    BY DEF AloneInv
  <2>2. CASE y = x
    BY <1>1, <1>2, <1>5, <1>8, <2>1, <2>2
  <2>3. CASE y # x
    BY <1>2, <1>3, <2>1, <2>3
  <2> QED BY <2>2, <2>3
<1>10. OpensApart'
  BY <1>5 DEF AloneInv, OpensApart
<1>11. \A s \in Tasks : AloneWork(work'[s], rec', last')
  BY <1>4
<1> QED BY <1>6, <1>7, <1>9, <1>10, <1>11 DEF AloneInv

LEMMA AloneAdd ==
    ASSUME MaxExchanges \in Nat, OneAtATime, MadeInv, AloneInv, NEW id \in Ex!Exchanges,
           last < MaxExchanges, last' = last + 1,
           rec' = [rec EXCEPT ![last'] = Ex!NewRecord(id)], UNCHANGED <<codes, made>>,
           \A x \in Ex!Exchanges :
              rec[x] # Ex!Absent /\ rec[x].state \in Opens => rec[x].refresh_id # id,
           \/ id = last + 1 /\ UNCHANGED work
           \/ id <= last /\ \E t \in Tasks : work' = [work EXCEPT ![t] = Ex!Idle]
    PROVE  AloneInv'
<1> DEFINE n == last + 1
           r == Ex!NewRecord(id)
<1>1. n \in Ex!Exchanges /\ rec'[n] = r /\ \A y \in Ex!Exchanges : y # n => rec'[y] = rec[y]
  BY AddStep
<1>2. last \in Nat /\ id <= n /\ \A y \in Ex!Exchanges : y \in Nat
  BY DEF MadeInv, ExTypes, Ex!Exchanges
<1>3. r.refresh_id = id /\ r.state = "created" /\ r # Ex!Absent
  BY DEF Ex!NewRecord, Ex!Absent
<1>4. made[n] = 0
  BY <1>1, <1>2 DEF AloneInv
<1>5. ASSUME NEW y \in Ex!Exchanges, y > last'
      PROVE  rec'[y] = Ex!Absent /\ made'[y] = 0
  <2>1. y # n /\ y > last
    BY <1>2, <1>5
  <2> QED BY <1>1, <2>1 DEF AloneInv
<1>6. ASSUME NEW y \in Ex!Exchanges, rec'[y] # Ex!Absent
      PROVE  rec'[y].refresh_id <= last'
  <2>1. CASE y = n
    BY <1>1, <1>2, <1>3, <2>1
  <2>2. CASE y # n
    <3>1. rec[y] \in Rec /\ rec[y].refresh_id <= last
      BY <1>1, <1>6, <2>2 DEF AloneInv, MadeInv, ExTypes
    <3>2. rec[y].refresh_id \in Nat
      BY <1>2, <3>1 DEF Rec
    <3> QED BY <1>1, <1>2, <2>2, <3>1, <3>2
  <2> QED BY <2>1, <2>2
<1>7. ASSUME NEW y \in Ex!Exchanges
      PROVE  /\ made'[y] <= 1
             /\ rec'[y] # Ex!Absent /\ rec'[y].state \in Opens => made'[y] = 0
  BY <1>1, <1>4 DEF AloneInv
<1>8. OpensApart'
  BY <1>1, <1>3 DEF AloneInv, OpensApart
<1>9. ASSUME NEW s \in Tasks
      PROVE  AloneWork(work'[s], rec', last')
  <2>1. CASE work'[s] = Ex!Idle
    BY <2>1, WorkKinds DEF AloneWork
  <2>2. CASE id = n /\ UNCHANGED work
    <3>1. AloneWork(work[s], rec, last)
      BY DEF AloneInv
    <3>2. ASSUME work[s] \in CopyWork
          PROVE  AloneWork(work[s], rec', last')
      <4> DEFINE w == work[s]
      <4>1. /\ w.x \in Ex!Exchanges /\ w.x <= last /\ w.x # n
            /\ w.copy.refresh_id \in Nat /\ w.copy.refresh_id <= last
        BY <1>2, <3>1, <3>2, WorkKinds DEF AloneWork, Rec
      <4>2. w.x <= last' /\ w.copy.refresh_id <= last'
        BY <1>2, <4>1
      <4>3. rec'[w.x] = rec[w.x]
        BY <1>1, <4>1
      <4>4. w.copy.refresh_id # id
        BY <1>2, <2>2, <4>1
      <4>5. w.pc = "supersede" =>
               \A x \in Ex!Exchanges :
                  x # w.x /\ rec'[x] # Ex!Absent /\ rec'[x].state \in Opens =>
                     rec'[x].refresh_id # w.copy.refresh_id
        BY <1>1, <1>3, <3>1, <3>2, <4>4 DEF AloneWork
      <4> QED BY <3>1, <3>2, <4>2, <4>3, <4>5, WorkKinds DEF AloneWork
    <3>3. ASSUME work[s] \in RenewWork
          PROVE  AloneWork(work[s], rec', last')
      <4> DEFINE w == work[s]
      <4>1. w.id \in Nat /\ w.id <= last
        BY <1>2, <3>1, <3>3, WorkKinds DEF AloneWork
      <4>2. w.id <= last' /\ w.id # id
        BY <1>2, <2>2, <4>1
      <4>3. \A x \in Ex!Exchanges :
               rec'[x] # Ex!Absent /\ rec'[x].state \in Opens => rec'[x].refresh_id # w.id
        BY <1>1, <1>3, <3>1, <3>3, <4>2 DEF AloneWork
      <4>4. w \notin CopyWork
        BY <3>3, WorkKinds
      <4> HIDE DEF w
      <4>5. AloneWork(w, rec', last')
        BY <4>2, <4>3, <4>4 DEF AloneWork
      <4> QED BY <4>5 DEF w
    <3>4. ASSUME work[s] \notin CopyWork, work[s] \notin RenewWork
          PROVE  AloneWork(work[s], rec', last')
      BY <3>4 DEF AloneWork
    <3> QED BY <2>2, <3>2, <3>3, <3>4
  <2>3. CASE \E t \in Tasks : work' = [work EXCEPT ![t] = Ex!Idle]
    <3>1. work'[s] = Ex!Idle
      BY <2>3 DEF MadeInv, ExTypes, OneAtATime
    <3> QED BY <2>1, <3>1
  <2> QED BY <2>2, <2>3
<1> QED BY <1>5, <1>6, <1>7, <1>8, <1>9 DEF AloneInv

LEMMA DeleteAlone ==
    ASSUME MadeInv, AloneInv, NEW x \in Ex!Exchanges, Ex!ExchangeDelete(x)
    PROVE  AloneInv'
<1>1. /\ \A y \in Ex!Exchanges : rec'[y] = rec[y] \/ rec'[y] = Ex!Absent
      /\ UNCHANGED <<last, made, work>>
  BY DEF Ex!ExchangeDelete, MadeInv, ExTypes
<1>2. \A w : AloneWork(w, rec, last) => AloneWork(w, rec', last')
  <2> SUFFICES ASSUME NEW w, AloneWork(w, rec, last)
               PROVE  AloneWork(w, rec', last)
    BY <1>1
  <2>1. w \in CopyWork => w.x \in Ex!Exchanges
    BY WorkKinds
  <2> QED BY <1>1, <2>1 DEF AloneWork
<1>3. OpensApart'
  BY <1>1 DEF AloneInv, OpensApart
<1> QED BY <1>1, <1>2, <1>3 DEF AloneInv

-----------------------------------------------------------------------------
LEMMA AloneRecord ==
    ASSUME MadeInv, AloneInv, NEW x \in Ex!Exchanges, rec[x] # Ex!Absent
    PROVE  x <= last /\ rec[x].refresh_id <= last /\ rec[x] \in Rec
<1>1. x \in Nat /\ last \in Nat
  BY DEF MadeInv, ExTypes, Ex!Exchanges
<1> QED BY <1>1 DEF AloneInv, MadeInv, ExTypes

LEMMA BeginAlone ==
    ASSUME OneAtATime, MadeInv, AloneInv, NEW t \in Tasks, NEW x \in Ex!Exchanges,
           rec[x] # Ex!Absent, NEW pc \in CopyPcs, NEW v \in Nat,
           pc = "notify" => made[x] > 0,
           pc = "offer" => rec[x].state = "created",
           pc \in {"supersede", "redeem", "issue", "issued"} => rec[x].state \in Opens,
           work' = [work EXCEPT ![t] = [pc |-> pc, x |-> x, copy |-> rec[x], v |-> v]],
           UNCHANGED <<rec, last, made>>
    PROVE  AloneInv'
<1> DEFINE w == [pc |-> pc, x |-> x, copy |-> rec[x], v |-> v]
<1>1. w \in CopyWork /\ w \in Work /\ w \notin RenewWork
  BY BeginWork, WorkKinds DEF Ex!Exists
<1>2. AloneWork(w, rec, last)
  BY <1>1, AloneRecord DEF AloneWork, AloneInv, OpensApart
<1> HIDE DEF w
<1>3. work' = [work EXCEPT ![t] = w]
  BY DEF w
<1> QED BY <1>1, <1>2, <1>3, AloneMove

LEMMA StartsAlone ==
    ASSUME OneAtATime, MadeInv, AloneInv, NEW t \in Tasks, NEW x \in Ex!Exchanges,
           \/ Ex!StartOffer(t, x) \/ Ex!StartToken(t, x) \/ Ex!StartNotification(t, x)
    PROVE  AloneInv'
<1>1. Ex!None \in Nat
  BY DEF Ex!None
<1>2. CASE Ex!StartOffer(t, x)
  BY <1>1, <1>2, BeginAlone DEF Ex!StartOffer, Ex!Begin, Ex!Exists, CopyPcs
<1>3. CASE Ex!StartToken(t, x)
  BY <1>1, <1>3, BeginAlone DEF Ex!StartToken, Ex!Begin, Ex!Exists, CopyPcs
<1>4. CASE Ex!StartNotification(t, x)
  BY <1>1, <1>4, BeginAlone DEF Ex!StartNotification, Ex!Begin, Ex!Exists, CopyPcs
<1> QED BY <1>2, <1>3, <1>4

LEMMA StartRefreshAlone ==
    ASSUME OneAtATime, MadeInv, AloneInv, NEW t \in Tasks, NEW id \in Ex!Exchanges,
           Ex!StartRefresh(t, id)
    PROVE  AloneInv'
<1>1. UNCHANGED <<rec, last, made>> /\ id <= last /\ Ex!None \in Nat
  BY DEF Ex!StartRefresh, Ex!None
<1>2. CASE \E x \in Ex!Exchanges : Ex!Found(id, x) /\ Ex!Begin(t, "supersede", x)
  <2>1. PICK x \in Ex!Exchanges : Ex!Found(id, x) /\ Ex!Begin(t, "supersede", x)
    BY <1>2
  <2>2. rec[x] # Ex!Absent /\ rec[x].state \in Opens
    BY <2>1 DEF Ex!Found, Ex!Retrieved, Ex!Exists, Ex!IsOpen, Opens
  <2> QED BY <1>1, <2>1, <2>2, BeginAlone DEF CopyPcs, Ex!Begin
<1>3. CASE Ex!Retrieved(id) = {} /\ Ex!Goto(t, [pc |-> "renew", id |-> id])
  <2> DEFINE w == [pc |-> "renew", id |-> id]
  <2>1. w \in RenewWork /\ w \in Work /\ w \notin CopyWork
    <3>1. w \in RenewWork
      BY DEF RenewWork
    <3> QED BY <3>1, WorkKinds DEF Work
  <2>2. \A x \in Ex!Exchanges :
           rec[x] # Ex!Absent /\ rec[x].state \in Opens => rec[x].refresh_id # id
    BY <1>3 DEF Ex!Retrieved, Ex!Exists, Ex!IsOpen, Opens
  <2>3. AloneWork(w, rec, last)
    BY <1>1, <2>1, <2>2 DEF AloneWork
  <2> QED BY <1>1, <1>3, <2>1, <2>3, AloneMove DEF Ex!Goto
<1> QED BY <1>2, <1>3 DEF Ex!StartRefresh

LEMMA StartCredentialAlone ==
    ASSUME OneAtATime, MadeInv, AloneInv, NEW t \in Tasks, NEW x \in Ex!Exchanges,
           NEW id \in Ex!Exchanges, NEW v \in 1..MaxNonces, Ex!StartCredential(t, id, x, v)
    PROVE  AloneInv'
<1>1. UNCHANGED <<rec, last, made>> /\ v \in Nat
  BY DEF Ex!StartCredential
<1>2. rec[x] # Ex!Absent /\ rec[x].state \in Opens
  BY DEF Ex!StartCredential, Ex!Found, Ex!Retrieved, Ex!Exists, Ex!IsOpen, Opens
<1>3. PICK pc \in {"redeem", "issue"} :
         work' = [work EXCEPT ![t] = [pc |-> pc, x |-> x, copy |-> rec[x], v |-> v]]
  BY DEF Ex!StartCredential, Ex!Goto
<1>4. pc \in CopyPcs /\ pc # "notify" /\ pc # "offer"
  BY DEF CopyPcs
<1> QED BY <1>1, <1>2, <1>3, <1>4, BeginAlone

LEMMA NoWorkAlone == \A R, n : AloneWork(Ex!Idle, R, n)
BY WorkKinds DEF AloneWork

LEMMA CopyAlone ==
    ASSUME MadeInv, AloneInv, NEW t \in Tasks, work[t].pc \in CopyPcs
    PROVE  LET x == work[t].x
               c == work[t].copy
           IN  /\ work[t] \in CopyWork /\ x \in Ex!Exchanges /\ c \in Rec
               /\ rec[x] = Ex!Absent \/ rec[x] = c
               /\ x <= last /\ c.refresh_id <= last
               /\ work[t].pc = "offer" => c.state = "created"
               /\ work[t].pc \in {"supersede", "redeem", "issue", "issued"} => c.state \in Opens
BY CopyOf DEF AloneInv, AloneWork

\* A save after which the request has ended.
LEMMA LastSaveAlone ==
    ASSUME OneAtATime, MadeInv, AloneInv, NEW t \in Tasks, work[t].pc \in CopyPcs, NEW r \in Rec,
           r.refresh_id = work[t].copy.refresh_id,
           r.state \in Opens => work[t].copy.state \in Opens,
           rec' = Ex!Saved(work[t].x, r), work' = [work EXCEPT ![t] = Ex!Idle],
           UNCHANGED <<last, made>>
    PROVE  AloneInv'
BY CopyAlone, NoWork, NoWorkAlone, AloneSave

LEMMA SaveOfferAlone ==
    ASSUME OneAtATime, MadeInv, AloneInv, NEW t \in Tasks, Ex!SaveOffer(t)
    PROVE  AloneInv'
<1>1. work[t].pc \in CopyPcs /\ work[t].pc = "offer"
  BY DEF Ex!SaveOffer, Ex!At, CopyPcs
<1> DEFINE r == [work[t].copy EXCEPT !.state = "offer", !.code = codes + 1]
<1>2. codes + 1 \in Nat /\ work[t].copy \in Rec /\ work[t].copy.state \in Opens
  BY <1>1, CopyAlone DEF MadeInv, ExTypes, Opens
<1>3. "offer" \in Ex!States
  BY DEF Ex!States
<1>4. r \in Rec /\ r.refresh_id = work[t].copy.refresh_id
  BY <1>2, <1>3 DEF Rec
<1>5. /\ rec' = Ex!Saved(work[t].x, r) /\ work' = [work EXCEPT ![t] = Ex!Idle]
      /\ UNCHANGED <<last, made>>
  BY DEF Ex!SaveOffer, Ex!Done, Ex!Goto
<1> HIDE DEF r
<1> QED BY <1>1, <1>2, <1>4, <1>5, LastSaveAlone

LEMMA SaveNonceAlone ==
    ASSUME OneAtATime, MadeInv, AloneInv, NEW t \in Tasks, Ex!SaveNonce(t)
    PROVE  AloneInv'
<1>1. work[t].pc \in CopyPcs
  BY DEF Ex!SaveNonce, Ex!At, CopyPcs
<1> DEFINE r == [work[t].copy EXCEPT !.nonce = Ex!Lowest(Ex!Fresh)]
<1>2. Ex!Lowest(Ex!Fresh) \in Chosen
  BY DEF Chosen, Ex!Fresh
<1>3. /\ r \in Rec /\ r.refresh_id = work[t].copy.refresh_id
      /\ r.state = work[t].copy.state
  BY <1>1, <1>2, CopyOf DEF Rec
<1>4. /\ rec' = Ex!Saved(work[t].x, r) /\ work' = [work EXCEPT ![t] = Ex!Idle]
      /\ UNCHANGED <<last, made>>
  BY DEF Ex!SaveNonce, Ex!Done, Ex!Goto
<1> HIDE DEF r
<1> QED BY <1>1, <1>3, <1>4, LastSaveAlone

LEMMA SaveNotificationAlone ==
    ASSUME OneAtATime, MadeInv, AloneInv, NEW t \in Tasks, Ex!SaveNotification(t)
    PROVE  AloneInv'
<1>1. work[t].pc \in CopyPcs
  BY DEF Ex!SaveNotification, Ex!At, CopyPcs
<1>2. PICK s \in {"accepted", "failed", "deleted"} :
         rec' = Ex!Saved(work[t].x, [work[t].copy EXCEPT !.state = s])
  BY DEF Ex!SaveNotification
<1> DEFINE r == [work[t].copy EXCEPT !.state = s]
<1>3. r \in Rec /\ r.refresh_id = work[t].copy.refresh_id /\ r.state = s
  BY <1>1, CopyOf DEF Rec, Ex!States
<1>4. s \notin Opens
  BY DEF Opens
<1>5. rec' = Ex!Saved(work[t].x, r)
  BY <1>2
<1>6. work' = [work EXCEPT ![t] = Ex!Idle] /\ UNCHANGED <<last, made>>
  BY DEF Ex!SaveNotification, Ex!Done, Ex!Goto
<1> HIDE DEF r
<1> QED BY <1>1, <1>3, <1>4, <1>5, <1>6, LastSaveAlone

\* The exchange is closed, or is gone, before the request goes on to make a new
\* one, and no other was open.
LEMMA SupersedeAlone ==
    ASSUME OneAtATime, MadeInv, AloneInv, NEW t \in Tasks, Ex!Supersede(t)
    PROVE  AloneInv'
<1> DEFINE x == work[t].x
           c == work[t].copy
           r == Ex!Superseded(c)
           n == [pc |-> "renew", id |-> c.refresh_id]
<1>1. /\ work[t] \in CopyWork /\ x \in Ex!Exchanges /\ c \in Rec /\ c.state \in Opens
      /\ rec[x] = Ex!Absent \/ rec[x] = c
      /\ c.refresh_id <= last
      /\ \A y \in Ex!Exchanges : y # x /\ rec[y] # Ex!Absent /\ rec[y].state \in Opens =>
            rec[y].refresh_id # c.refresh_id
  BY CopyAlone DEF Ex!Supersede, Ex!At, CopyPcs, AloneInv, AloneWork
<1>2. r \in Rec /\ r.state = "superceded" /\ r.refresh_id = c.refresh_id
  BY <1>1 DEF Rec, Ex!States, Ex!Superseded
<1>3. rec' = Ex!Saved(x, r) /\ UNCHANGED <<last, made>> /\ r.state \notin Opens
  BY <1>2 DEF Ex!Supersede, Opens
<1>4. n \in RenewWork /\ n \in Work /\ n \notin CopyWork /\ n.id = c.refresh_id
  <2>1. n \in RenewWork
    BY <1>1 DEF RenewWork, Rec
  <2> QED BY <2>1, WorkKinds DEF Work
<1>5. ASSUME NEW y \in Ex!Exchanges, rec'[y] # Ex!Absent, rec'[y].state \in Opens
      PROVE  rec'[y].refresh_id # n.id
  <2>1. /\ rec[x] = Ex!Absent => rec'[x] = Ex!Absent
        /\ rec[x] # Ex!Absent => rec'[x] = r
        /\ y # x => rec'[y] = rec[y]
    BY <1>1, <1>2, <1>3, SavedRecord
  <2>2. y # x
    BY <1>3, <1>5, <2>1
  <2> QED BY <1>1, <1>4, <1>5, <2>1, <2>2
<1>6. AloneWork(n, rec', last)
  BY <1>1, <1>4, <1>5 DEF AloneWork
<1>7. work' = [work EXCEPT ![t] = n]
  BY DEF Ex!Supersede, Ex!Goto
<1> HIDE DEF n, r
<1> QED BY <1>1, <1>2, <1>3, <1>4, <1>6, <1>7, AloneSave

LEMMA SaveTokenAlone ==
    ASSUME OneAtATime, MadeInv, AloneInv, NEW t \in Tasks, Ex!SaveToken(t)
    PROVE  AloneInv'
<1> DEFINE x == work[t].x
           c == work[t].copy
           r == [c EXCEPT !.token = TRUE]
           n == [work[t] EXCEPT !.pc = "c_nonce", !.copy = r]
<1>1. /\ work[t].pc \in CopyPcs
      /\ work[t] \in CopyWork /\ x \in Ex!Exchanges /\ c \in Rec
      /\ rec[x] = Ex!Absent \/ rec[x] = c
      /\ x <= last /\ c.refresh_id <= last
  BY CopyAlone DEF Ex!SaveToken, Ex!At, CopyPcs
<1>2. r \in Rec /\ r.state = c.state /\ r.refresh_id = c.refresh_id
  BY <1>1 DEF Rec
<1>3. rec' = Ex!Saved(x, r) /\ UNCHANGED <<last, made>>
  BY DEF Ex!SaveToken
<1>4. /\ n \in CopyWork /\ n \in Work /\ n \notin RenewWork
      /\ n.pc = "c_nonce" /\ n.x = x /\ n.copy = r
  <2>1. "c_nonce" \in CopyPcs
    BY DEF CopyPcs
  <2> HIDE DEF r
  <2>2. n \in CopyWork /\ n.pc = "c_nonce" /\ n.x = x /\ n.copy = r
    BY <1>1, <1>2, <2>1 DEF CopyWork
  <2> QED BY <2>2, WorkKinds DEF Work
<1>5. PICK w \in {n, Ex!Idle} : work' = [work EXCEPT ![t] = w]
  BY DEF Ex!SaveToken, Ex!Done, Ex!Goto
<1> HIDE DEF r, n
<1>6. rec'[x] = Ex!Absent \/ rec'[x] = r
  BY <1>1, <1>2, <1>3, SavedRecord
<1>7. AloneWork(n, rec', last)
  BY <1>1, <1>2, <1>4, <1>6 DEF AloneWork
<1>8. w \in Work /\ AloneWork(w, rec', last)
  BY <1>4, <1>7, NoWork, NoWorkAlone
<1> QED BY <1>1, <1>2, <1>3, <1>5, <1>8, AloneSave

LEMMA RedeemAlone ==
    ASSUME OneAtATime, MadeInv, AloneInv, NEW t \in Tasks, Ex!Redeem(t) \/ Ex!Issue(t)
    PROVE  AloneInv'
<1>1. /\ UNCHANGED <<rec, last, made>> /\ work[t].pc \in CopyPcs
      /\ work[t].pc \in {"redeem", "issue"}
  BY DEF Ex!Redeem, Ex!Issue, Ex!Untouched, Ex!At, CopyPcs
<1>2. PICK pc \in {"issue", "issued"} : \E w \in {[work[t] EXCEPT !.pc = pc], Ex!Idle} :
         work' = [work EXCEPT ![t] = w]
  BY DEF Ex!Redeem, Ex!Issue, Ex!Done, Ex!Goto
<1> DEFINE n == [work[t] EXCEPT !.pc = pc]
<1>3. /\ n \in CopyWork /\ n \in Work /\ n \notin RenewWork
      /\ n.pc = pc /\ n.x = work[t].x /\ n.copy = work[t].copy
  <2>1. work[t] \in CopyWork
    BY <1>1, CopyAlone
  <2>2. n \in CopyWork /\ n.pc = pc /\ n.x = work[t].x /\ n.copy = work[t].copy
    BY <2>1 DEF CopyWork, CopyPcs
  <2> QED BY <2>2, WorkKinds DEF Work
<1>4. AloneWork(n, rec, last)
  BY <1>1, <1>3, CopyAlone DEF AloneWork
<1> HIDE DEF n
<1>5. PICK w \in {n, Ex!Idle} : work' = [work EXCEPT ![t] = w]
  BY <1>2 DEF n
<1>6. w \in Work /\ AloneWork(w, rec, last)
  BY <1>3, <1>4, NoWork, NoWorkAlone
<1> QED BY <1>1, <1>5, <1>6, AloneMove

\* The one credential of an exchange: the record is as it was when it was open.
LEMMA SaveIssuedAlone ==
    ASSUME OneAtATime, MadeInv, AloneInv, NEW t \in Tasks, Ex!SaveIssued(t)
    PROVE  AloneInv'
<1> DEFINE x == work[t].x
           c == work[t].copy
           r == Ex!AsIssued(c)
<1>1. /\ work[t] \in CopyWork /\ x \in Ex!Exchanges /\ c \in Rec /\ c.state \in Opens
      /\ rec[x] = Ex!Absent \/ rec[x] = c
  BY CopyAlone DEF Ex!SaveIssued, Ex!At, CopyPcs
<1>2. r \in Rec /\ r.state \notin Opens /\ r.refresh_id = c.refresh_id
  BY <1>1 DEF Rec, Ex!States, Ex!AsIssued, Opens
<1>3. /\ rec' = Ex!Saved(x, r) /\ work' = [work EXCEPT ![t] = Ex!Idle] /\ UNCHANGED last
      /\ made' = IF rec[x] # Ex!Absent THEN [made EXCEPT ![x] = @ + 1] ELSE made
  BY DEF Ex!SaveIssued, Ex!Done, Ex!Goto, Ex!Exists
<1>4. rec[x] # Ex!Absent => made[x] = 0
  BY <1>1 DEF AloneInv
<1>5. \/ UNCHANGED made
      \/ made[x] = 0 /\ made' = [made EXCEPT ![x] = 1]
  <2>1. CASE rec[x] # Ex!Absent
    <3>1. made[x] + 1 = 1
      BY <1>4, <2>1
    <3> QED BY <1>3, <1>4, <2>1, <3>1
  <2>2. CASE rec[x] = Ex!Absent
    BY <1>3, <2>2
  <2> QED BY <2>1, <2>2
<1> HIDE DEF r
<1> QED BY <1>1, <1>2, <1>3, <1>5, NoWork, NoWorkAlone, AloneSave

LEMMA AddsAlone ==
    ASSUME MaxExchanges \in Nat, OneAtATime, MadeInv, AloneInv,
           Ex!ExchangeCreate \/ \E t \in Tasks : Ex!Renew(t)
    PROVE  AloneInv'
<1>1. CASE Ex!ExchangeCreate
  <2>1. last \in Nat /\ last + 1 \in Ex!Exchanges
    BY <1>1 DEF Ex!ExchangeCreate, MadeInv, ExTypes, Ex!Exchanges
  <2>2. ASSUME NEW x \in Ex!Exchanges, rec[x] # Ex!Absent
        PROVE  rec[x].refresh_id # last + 1
    <3>1. rec[x].refresh_id \in Nat /\ rec[x].refresh_id <= last
      BY <2>2, AloneRecord DEF Rec, Ex!Exchanges
    <3> QED BY <2>1, <3>1
  <2>3. UNCHANGED work /\ UNCHANGED <<codes, made>> /\ last < MaxExchanges /\ last' = last + 1
        /\ rec' = [rec EXCEPT ![last'] = Ex!NewRecord(last + 1)]
    BY <1>1 DEF Ex!ExchangeCreate
  <2> QED BY <2>1, <2>2, <2>3, AloneAdd
<1>2. ASSUME NEW t \in Tasks, Ex!Renew(t)
      PROVE  AloneInv'
  <2>1. work[t] \in RenewWork /\ work[t].id \in Ex!Exchanges
    BY <1>2, WorkKinds DEF Ex!Renew, Ex!At, MadeInv, ExTypes
  <2>2. AloneWork(work[t], rec, last)
    BY DEF AloneInv
  <2>3. /\ work[t].id <= last
        /\ \A x \in Ex!Exchanges :
              rec[x] # Ex!Absent /\ rec[x].state \in Opens => rec[x].refresh_id # work[t].id
    BY <2>1, <2>2 DEF AloneWork
  <2>4. /\ last < MaxExchanges /\ last' = last + 1 /\ UNCHANGED <<codes, made>>
        /\ rec' = [rec EXCEPT ![last'] = Ex!NewRecord(work[t].id)]
        /\ work' = [work EXCEPT ![t] = Ex!Idle]
    BY <1>2 DEF Ex!Renew, Ex!Done, Ex!Goto
  <2> QED BY <2>1, <2>3, <2>4, AloneAdd
<1> QED BY <1>1, <1>2

LEMMA SameAlone ==
    ASSUME AloneInv, UNCHANGED <<rec, last, made, work>>
    PROVE  AloneInv'
BY DEF AloneInv, OpensApart

LEMMA AloneNext ==
    ASSUME MaxExchanges \in Nat, OneAtATime, MadeInv, AloneInv, [Ex!Next]_(Ex!vars)
    PROVE  AloneInv'
<1>1. CASE Ex!ExchangeCreate
  BY <1>1, AddsAlone
<1>2. CASE Ex!GetNonce
  BY <1>2, SameAlone DEF Ex!GetNonce
<1>3. ASSUME NEW x \in Ex!Exchanges, Ex!ExchangeDelete(x)
      PROVE  AloneInv'
  BY <1>3, DeleteAlone
<1>4. ASSUME NEW t \in Tasks, NEW x \in Ex!Exchanges,
             \/ Ex!StartOffer(t, x) \/ Ex!StartRefresh(t, x)
             \/ Ex!StartToken(t, x) \/ Ex!StartNotification(t, x)
             \/ \E id \in Ex!Exchanges, v \in 1..MaxNonces : Ex!StartCredential(t, id, x, v)
      PROVE  AloneInv'
  BY <1>4, StartsAlone, StartRefreshAlone, StartCredentialAlone
<1>5. ASSUME NEW t \in Tasks,
             \/ Ex!SaveOffer(t) \/ Ex!Supersede(t) \/ Ex!Renew(t) \/ Ex!SaveToken(t)
             \/ Ex!SaveNonce(t) \/ Ex!Redeem(t) \/ Ex!Issue(t) \/ Ex!SaveIssued(t)
             \/ Ex!SaveNotification(t)
      PROVE  AloneInv'
  BY <1>5, SaveOfferAlone, SupersedeAlone, AddsAlone, SaveTokenAlone, SaveNonceAlone,
     RedeemAlone, SaveIssuedAlone, SaveNotificationAlone
<1>6. CASE UNCHANGED Ex!vars
  BY <1>6, SameAlone DEF Ex!vars
<1> QED BY <1>1, <1>2, <1>3, <1>4, <1>5, <1>6 DEF Ex!Next

LEMMA AloneStart ==
    ASSUME MaxExchanges \in Nat, Ex!Init
    PROVE  AloneInv
<1>1. \A x \in Ex!Exchanges : rec[x] = Ex!Absent /\ made[x] = 0
  BY DEF Ex!Init
<1>2. \A t \in Tasks : AloneWork(work[t], rec, last)
  BY NoWorkAlone DEF Ex!Init
<1> QED BY <1>1, <1>2 DEF AloneInv, OpensApart

\* When the requests of the wallets and the controller do not overlap, an
\* exchange gives one credential, also if it is refreshed, and a refresh_id
\* has one open exchange.  Requests that overlap violate both (they read the
\* record before the other saves it).
THEOREM OneEach ==
    ASSUME MaxExchanges \in Nat, OneAtATime
    PROVE  Ex!Spec => [](Ex!OneCredential /\ Ex!OneOpen)
<1>1. AloneInv => Ex!OneCredential /\ Ex!OneOpen
  BY DEF AloneInv, OpensApart, Opens, Ex!OneCredential, Ex!OneOpen, Ex!Exists, Ex!IsOpen
<1>2. Ex!Init => MadeInv /\ AloneInv
  BY MadeInit, AloneStart
<1>3. MadeInv /\ AloneInv /\ [Ex!Next]_(Ex!vars) => (MadeInv /\ AloneInv)'
  BY MadeNext, AloneNext
<1> QED BY <1>1, <1>2, <1>3, PTL DEF Ex!Spec

-----------------------------------------------------------------------------
(***************************************************************************)
(* One-time JWTs (JtiReplay), for any clocks, windows and lifetimes and    *)
(* any number of requests with the same JWT at once.                       *)
(***************************************************************************)
CONSTANTS Proofs, Assertions, Skew, Leeway, MaxUses
VARIABLES claim, seen, uses

Jti == INSTANCE JtiReplay

\* The clock and the tolerance of it are times.
ClockSet == Skew \in Nat /\ MaxTime \in Nat \ {0}

JtiTask == {Jti!Idle} \cup
           [pc : {"check", "stored"}, jwt : Jti!Jwts, at : 1..MaxTime, asof : 1..MaxTime]
\* A request reads the time twice, within a window.
InOrder(r) == r.at <= r.asof /\ r.asof <= now /\ r.asof <= r.at + Jti!Window
JtiUse == [at : 1..MaxTime, row : 0..(MaxTime + Jti!Window)]
JtiTypes ==
    /\ now \in 1..MaxTime
    /\ claim \in [Jti!Jwts -> 1..MaxTime]
    /\ seen \in [Jti!Jwts -> 0..(MaxTime + Jti!Window)]
    /\ task \in [Requests -> JtiTask]
    /\ \A q \in Requests : task[q] # Jti!Idle => InOrder(task[q])
    /\ uses \in [Jti!Jwts -> Seq(JtiUse)]
    /\ \A j \in Jti!Jwts : \A k \in DOMAIN uses[j] : uses[j][k].at <= now

\* The row of a JWT outlasts every row of it before, that of an assertion goes
\* no further than its life, and one request at a time holds it: the one that
\* found the row expired.
Holds(q, j) == task[q].pc = "stored" /\ task[q].jwt = j
Outlasted ==
    \A j \in Jti!Jwts : \A k \in DOMAIN uses[j] : uses[j][k].row <= seen[j]
JtiInv ==
    /\ JtiTypes /\ Outlasted
    /\ \A j \in Jti!Jwts : j \notin Proofs => seen[j] <= claim[j]
    /\ \A q \in Requests, j \in Jti!Jwts :
          Holds(q, j) => seen[j] <= task[q].asof /\ \A p \in Requests : Holds(p, j) => p = q
    /\ Jti!SpacedUses

LEMMA JtiNumbers ==
    ASSUME ClockSet
    PROVE  /\ Jti!Window \in Nat /\ 0..(MaxTime + Jti!Window) \subseteq Nat
           /\ 1..MaxTime \subseteq Nat \ {0}
BY DEF ClockSet, Jti!Window

LEMMA JtiTimes == ASSUME NEW S, NEW s \in Seq(S), NEW k \in DOMAIN s PROVE s[k] \in S
OBVIOUS

LEMMA JtiKnown ==
    ASSUME ClockSet, JtiInv, NEW q \in Requests, task[q].pc \in {"check", "stored"}
    PROVE  /\ task[q] \in [pc : {"check", "stored"}, jwt : Jti!Jwts, at : 1..MaxTime, asof : 1..MaxTime]
           /\ InOrder(task[q]) /\ task[q] # Jti!Idle
<1>1. Jti!Idle.pc = "idle"
  BY DEF Jti!Idle
<1>2. task[q] # Jti!Idle /\ task[q] \in JtiTask
  BY <1>1 DEF JtiInv, JtiTypes
<1> QED BY <1>2 DEF JtiInv, JtiTypes, JtiTask

\* The row that a request in the course of being answered writes lasts at least
\* as long as the expired one that it found.
LEMMA JtiLasts ==
    ASSUME ClockSet, JtiInv, NEW q \in Requests, NEW j \in Jti!Jwts, Holds(q, j)
    PROVE  /\ Jti!Lasts(j, task[q].at) \in 0..(MaxTime + Jti!Window)
           /\ seen[j] <= Jti!Lasts(j, task[q].at)
           /\ j \notin Proofs => Jti!Lasts(j, task[q].at) = claim[j]
<1>1. /\ task[q].at \in 1..MaxTime /\ task[q].asof \in 1..MaxTime
      /\ task[q].asof <= task[q].at + Jti!Window
  BY JtiKnown DEF Holds, InOrder
<1>2. seen[j] <= task[q].asof /\ seen[j] \in 0..(MaxTime + Jti!Window) /\ claim[j] \in 1..MaxTime
  BY DEF JtiInv, JtiTypes
<1>3. CASE j \in Proofs
  BY <1>1, <1>2, <1>3, JtiNumbers DEF ClockSet, Jti!Lasts
<1>4. CASE j \notin Proofs
  BY <1>2, <1>4, JtiNumbers DEF ClockSet, Jti!Lasts, JtiInv
<1> QED BY <1>3, <1>4

LEMMA JtiInit == ASSUME ClockSet, Jti!Init PROVE JtiInv
<1>1. /\ now = 1 /\ claim \in [Jti!Jwts -> 1..MaxTime] /\ seen = [j \in Jti!Jwts |-> 0]
      /\ task = [q \in Requests |-> Jti!Idle] /\ uses = [j \in Jti!Jwts |-> <<>>]
  BY DEF Jti!Init
<1>2. JtiTypes
  BY <1>1, JtiNumbers DEF JtiTypes, JtiTask, ClockSet
<1>3. \A q \in Requests, j \in Jti!Jwts : ~Holds(q, j)
  BY <1>1 DEF Holds, Jti!Idle
<1> QED BY <1>1, <1>2, <1>3 DEF JtiInv, Outlasted, Jti!SpacedUses

\* Rows and uses stay, the clock may go on, and nothing is held anew.
LEMMA JtiStays ==
    ASSUME ClockSet, JtiInv, UNCHANGED <<claim, seen, uses>>,
           now' \in 1..MaxTime, now <= now', task' \in [Requests -> JtiTask],
           \A q \in Requests : task'[q] # Jti!Idle => InOrder(task[q])',
           \A q \in Requests, j \in Jti!Jwts :
              Holds(q, j)' => Holds(q, j) /\ task'[q].asof = task[q].asof
    PROVE  JtiInv'
<1>1. now \in Nat /\ now' \in Nat
  BY JtiNumbers DEF JtiInv, JtiTypes
<1>2. ASSUME NEW j \in Jti!Jwts, NEW k \in DOMAIN uses[j]
      PROVE  uses[j][k].at \in Nat /\ uses[j][k].at <= now
  <2>1. uses[j] \in Seq(JtiUse) /\ uses[j][k].at <= now
    BY DEF JtiInv, JtiTypes
  <2>2. uses[j][k] \in JtiUse
    BY <2>1, JtiTimes
  <2> QED BY <2>1, <2>2, JtiNumbers DEF JtiUse
<1>3. \A j \in Jti!Jwts : \A k \in DOMAIN uses[j] : uses[j][k].at <= now'
  BY <1>1, <1>2
<1>4. JtiTypes'
  BY <1>3 DEF JtiInv, JtiTypes
<1>5. \A q \in Requests, j \in Jti!Jwts :
         Holds(q, j)' => /\ seen'[j] <= task'[q].asof
                         /\ \A p \in Requests : Holds(p, j)' => p = q
  BY DEF JtiInv
<1>6. /\ Jti!SpacedUses' /\ Outlasted'
      /\ \A j \in Jti!Jwts : j \notin Proofs => seen'[j] <= claim'[j]
  BY DEF JtiInv, Outlasted, Jti!SpacedUses
<1> QED BY <1>4, <1>5, <1>6 DEF JtiInv

LEMMA JtiTick == ASSUME ClockSet, JtiInv, Jti!Tick PROVE JtiInv'
<1>1. now' = now + 1 /\ now < MaxTime /\ UNCHANGED <<claim, seen, task, uses>>
  BY DEF Jti!Tick
<1>2. now \in Nat \ {0} /\ now' \in 1..MaxTime /\ now <= now'
  BY <1>1, JtiNumbers DEF JtiInv, JtiTypes, ClockSet
<1>3. ASSUME NEW q \in Requests, task[q] # Jti!Idle PROVE InOrder(task[q])'
  <2>1. InOrder(task[q]) /\ task[q].asof \in Nat
    BY <1>3, JtiNumbers DEF JtiInv, JtiTypes, JtiTask
  <2>2. task[q].asof <= now'
    BY <1>2, <2>1 DEF InOrder
  <2> QED BY <1>1, <2>1, <2>2 DEF InOrder
<1>4. task' \in [Requests -> JtiTask]
  BY <1>1 DEF JtiInv, JtiTypes
<1>5. \A q \in Requests, j \in Jti!Jwts : Holds(q, j)' => Holds(q, j) /\ task'[q].asof = task[q].asof
  BY <1>1 DEF Holds
<1>6. \A q \in Requests : task'[q] # Jti!Idle => InOrder(task[q])'
  BY <1>1, <1>3
<1> QED BY <1>1, <1>2, <1>4, <1>5, <1>6, JtiStays

\* A request begins or ends: it holds nothing then.
LEMMA JtiSet ==
    ASSUME ClockSet, JtiInv, UNCHANGED <<now, claim, seen, uses>>, NEW q \in Requests,
           NEW r \in JtiTask, r.pc # "stored", r # Jti!Idle => InOrder(r),
           task' = [task EXCEPT ![q] = r]
    PROVE  JtiInv'
<1>1. task' \in [Requests -> JtiTask] /\ task'[q] = r
      /\ \A p \in Requests : p # q => task'[p] = task[p]
  BY DEF JtiInv, JtiTypes
<1>2. now' \in 1..MaxTime /\ now <= now'
  BY JtiNumbers DEF JtiInv, JtiTypes
<1>3. \A p \in Requests : task'[p] # Jti!Idle => InOrder(task[p])'
  BY <1>1 DEF JtiInv, JtiTypes, InOrder
<1>4. \A p \in Requests, j \in Jti!Jwts : Holds(p, j)' => Holds(p, j) /\ task'[p].asof = task[p].asof
  BY <1>1 DEF Holds
<1> QED BY <1>1, <1>2, <1>3, <1>4, JtiStays

LEMMA JtiIdle == Jti!Idle \in JtiTask /\ Jti!Idle.pc = "idle"
BY DEF JtiTask, Jti!Idle

LEMMA JtiStart ==
    ASSUME ClockSet, JtiInv, NEW q \in Requests, NEW j \in Jti!Jwts, Jti!Start(q, j)
    PROVE  JtiInv'
<1> DEFINE r == [pc |-> "check", jwt |-> j, at |-> now, asof |-> now]
<1>1. task' = [task EXCEPT ![q] = r] /\ UNCHANGED <<now, claim, seen, uses>>
  BY DEF Jti!Start
<1>2. now \in 1..MaxTime /\ now \in Nat /\ Jti!Window \in Nat
  BY JtiNumbers DEF JtiInv, JtiTypes
<1>3. r \in JtiTask /\ r.pc # "stored" /\ InOrder(r)
  BY <1>2 DEF JtiTask, InOrder
<1> HIDE DEF r
<1> QED BY <1>1, <1>3, JtiSet

\* The row is free and expired: this request, and no other, holds it now.
LEMMA JtiCheck ==
    ASSUME ClockSet, JtiInv, NEW q \in Requests, Jti!CheckAndStore(q)
    PROVE  JtiInv'
<1> DEFINE j == task[q].jwt
           r(t) == [task[q] EXCEPT !.pc = "stored", !.asof = t]
<1>1. PICK t \in task[q].at..now :
         /\ task[q].pc = "check" /\ Jti!Unlocked(j) /\ UNCHANGED <<now, claim, seen, uses>>
         /\ t <= task[q].at + Jti!Window
         /\ task' = [task EXCEPT ![q] =
                       IF Jti!Replaceable(j, t) /\ (j \in Proofs => Jti!InTime(j, task[q].at))
                       THEN r(t) ELSE Jti!Idle]
  BY DEF Jti!CheckAndStore
<1>2. /\ task[q] \in [pc : {"check", "stored"}, jwt : Jti!Jwts, at : 1..MaxTime, asof : 1..MaxTime]
      /\ now \in 1..MaxTime
  BY <1>1, JtiKnown DEF JtiInv, JtiTypes
<1>3. CASE task' = [task EXCEPT ![q] = Jti!Idle]
  BY <1>1, <1>3, JtiIdle, JtiSet
<1>4. CASE Jti!Replaceable(j, t) /\ task' = [task EXCEPT ![q] = r(t)]
  <2>1. t \in 1..MaxTime /\ task[q].at <= t /\ t <= now
    BY <1>2, JtiNumbers DEF ClockSet
  <2>2. /\ r(t) \in JtiTask /\ r(t).pc = "stored" /\ r(t).jwt = j
        /\ r(t).asof = t /\ r(t).at = task[q].at
    BY <1>2, <2>1 DEF JtiTask
  <2> HIDE DEF r
  <2>3. /\ task' \in [Requests -> JtiTask] /\ task'[q] = r(t)
        /\ \A p \in Requests : p # q => task'[p] = task[p]
    BY <1>4, <2>2 DEF JtiInv, JtiTypes
  <2>4. InOrder(r(t))
    BY <1>1, <2>1, <2>2 DEF InOrder
  <2>5. \A p \in Requests : task'[p] # Jti!Idle => InOrder(task[p])'
    BY <1>1, <2>3, <2>4 DEF JtiInv, JtiTypes, InOrder
  <2>6. JtiTypes'
    BY <1>1, <2>3, <2>5 DEF JtiInv, JtiTypes
  <2>7. \A p \in Requests : ~Holds(p, j)
    BY <1>1 DEF Jti!Unlocked, Holds
  <2>8. seen[j] <= t
    BY <1>4 DEF Jti!Replaceable
  <2>9. /\ \A p \in Requests, i \in Jti!Jwts : Holds(p, i)' => (p = q /\ i = j) \/ (p # q /\ Holds(p, i))
    BY <2>2, <2>3 DEF Holds
  <2>10. ASSUME NEW p \in Requests, NEW i \in Jti!Jwts, Holds(p, i)'
         PROVE  seen'[i] <= task'[p].asof /\ \A s \in Requests : Holds(s, i)' => s = p
    <3>1. CASE i = j
      BY <1>1, <2>2, <2>3, <2>7, <2>8, <2>9, <2>10, <3>1
    <3>2. CASE i # j
      <4>1. Holds(p, i) /\ p # q
        BY <2>9, <2>10, <3>2
      <4>2. seen[i] <= task[p].asof /\ \A s \in Requests : Holds(s, i) => s = p
        BY <4>1 DEF JtiInv
      <4>3. \A s \in Requests : Holds(s, i)' => Holds(s, i)
        BY <2>9, <3>2
      <4> QED BY <1>1, <2>3, <4>1, <4>2, <4>3
    <3> QED BY <3>1, <3>2
  <2>11. /\ Jti!SpacedUses' /\ Outlasted'
         /\ \A i \in Jti!Jwts : i \notin Proofs => seen'[i] <= claim'[i]
    BY <1>1 DEF JtiInv, Outlasted, Jti!SpacedUses
  <2> QED BY <2>6, <2>10, <2>11 DEF JtiInv
<1> QED BY <1>1, <1>3, <1>4

\* The row of the JWT stays or is put off, and the request that held it is over:
\* it found the rows of all before it expired.
LEMMA JtiUsed ==
    ASSUME ClockSet, JtiInv, NEW q \in Requests, NEW j \in Jti!Jwts, Holds(q, j),
           NEW n \in 0..(MaxTime + Jti!Window), NEW r \in 0..(MaxTime + Jti!Window),
           seen[j] <= n, r <= n, j \notin Proofs => n <= claim[j],
           task' = [task EXCEPT ![q] = Jti!Idle], UNCHANGED <<now, claim>>,
           seen' = [seen EXCEPT ![j] = n], uses' = Jti!Used(j, task[q].asof, r)
    PROVE  JtiInv'
<1> DEFINE u == [at |-> task[q].asof, row |-> r]
<1>1. /\ task[q].asof \in 1..MaxTime /\ task[q].asof <= now /\ u \in JtiUse
  BY JtiKnown DEF Holds, InOrder, JtiUse
<1>2. seen[j] <= task[q].asof /\ \A p \in Requests : Holds(p, j) => p = q
  BY DEF JtiInv
<1>3. /\ seen' \in [Jti!Jwts -> 0..(MaxTime + Jti!Window)] /\ seen'[j] = n
      /\ \A i \in Jti!Jwts : i # j => seen'[i] = seen[i]
  BY DEF JtiInv, JtiTypes
<1>4. uses[j] \in Seq(JtiUse) /\ uses' = [uses EXCEPT ![j] = Append(uses[j], u)]
  BY DEF JtiInv, JtiTypes, Jti!Used
<1>5. u.at = task[q].asof /\ u.row = r
  OBVIOUS
<1> HIDE DEF u
<1>6. /\ Append(uses[j], u) \in Seq(JtiUse)
      /\ DOMAIN Append(uses[j], u) = DOMAIN uses[j] \cup {Len(uses[j]) + 1}
      /\ Append(uses[j], u)[Len(uses[j]) + 1] = u
      /\ \A k \in DOMAIN uses[j] :
            Append(uses[j], u)[k] = uses[j][k] /\ k < Len(uses[j]) + 1
  BY <1>1, <1>4
<1>7. /\ uses' \in [Jti!Jwts -> Seq(JtiUse)] /\ uses'[j] = Append(uses[j], u)
      /\ \A i \in Jti!Jwts : i # j => uses'[i] = uses[i]
  BY <1>4, <1>6 DEF JtiInv, JtiTypes
<1>8. /\ task' \in [Requests -> JtiTask] /\ task'[q] = Jti!Idle
      /\ \A p \in Requests : p # q => task'[p] = task[p]
  BY JtiIdle DEF JtiInv, JtiTypes
<1>9. ASSUME NEW k \in DOMAIN uses[j]
      PROVE  uses[j][k].row <= u.at /\ uses[j][k].row <= n
  <2>1. uses[j][k] \in JtiUse
    BY <1>4, JtiTimes
  <2>2. uses[j][k].row \in Nat /\ uses[j][k].row <= seen[j]
    BY <2>1, JtiNumbers DEF JtiUse, JtiInv, Outlasted
  <2>3. seen[j] \in Nat /\ task[q].asof \in Nat /\ n \in Nat
    BY <1>1, JtiNumbers DEF JtiInv, JtiTypes
  <2> QED BY <1>2, <1>5, <2>2, <2>3
<1>10. JtiTypes'
  <2>1. ASSUME NEW p \in Requests, task'[p] # Jti!Idle PROVE InOrder(task[p])'
    <3>1. p # q /\ task'[p] = task[p]
      BY <1>8, <2>1
    <3>2. InOrder(task[p])
      BY <2>1, <3>1 DEF JtiInv, JtiTypes
    <3> QED BY <3>1, <3>2 DEF InOrder
  <2>2. ASSUME NEW i \in Jti!Jwts, NEW k \in DOMAIN uses'[i] PROVE uses'[i][k].at <= now'
    <3>1. CASE i # j
      BY <1>7, <2>2, <3>1 DEF JtiInv, JtiTypes
    <3>2. CASE i = j /\ k = Len(uses[j]) + 1
      BY <1>1, <1>5, <1>6, <1>7, <3>2
    <3>3. CASE i = j /\ k \in DOMAIN uses[j]
      BY <1>6, <1>7, <3>3 DEF JtiInv, JtiTypes
    <3> QED BY <1>6, <1>7, <2>2, <3>1, <3>2, <3>3
  <2> QED BY <1>3, <1>7, <1>8, <2>1, <2>2 DEF JtiInv, JtiTypes
<1>11. ASSUME NEW i \in Jti!Jwts, NEW k \in DOMAIN uses'[i]
       PROVE  uses'[i][k].row <= seen'[i]
  <2>1. CASE i # j
    BY <1>3, <1>7, <1>11, <2>1 DEF JtiInv, Outlasted
  <2>2. CASE i = j /\ k = Len(uses[j]) + 1
    BY <1>3, <1>5, <1>6, <1>7, <2>2
  <2>3. CASE i = j /\ k \in DOMAIN uses[j]
    BY <1>3, <1>6, <1>7, <1>9, <2>3
  <2> QED BY <1>6, <1>7, <1>11, <2>1, <2>2, <2>3
<1>12. ASSUME NEW p \in Requests, NEW i \in Jti!Jwts, Holds(p, i)'
       PROVE  seen'[i] <= task'[p].asof /\ \A s \in Requests : Holds(s, i)' => s = p
  <2>1. p # q
    BY <1>8, <1>12, JtiIdle DEF Holds
  <2>2. Holds(p, i) /\ task'[p] = task[p]
    BY <1>8, <1>12, <2>1 DEF Holds
  <2>3. i # j
    BY <1>2, <2>1, <2>2
  <2>4. \A s \in Requests : Holds(s, i)' => Holds(s, i)
    BY <1>8, JtiIdle DEF Holds
  <2>5. seen[i] <= task[p].asof /\ \A s \in Requests : Holds(s, i) => s = p
    BY <2>2 DEF JtiInv
  <2> QED BY <1>3, <2>2, <2>3, <2>4, <2>5
<1>13. ASSUME NEW i \in Jti!Jwts, NEW k \in DOMAIN uses'[i], NEW l \in DOMAIN uses'[i], k < l
       PROVE  uses'[i][k].row <= uses'[i][l].at
  <2>1. CASE i # j
    BY <1>7, <1>13, <2>1 DEF JtiInv, Jti!SpacedUses
  <2>2. CASE i = j /\ l \in DOMAIN uses[j]
    <3>1. k \in DOMAIN uses[j]
      BY <1>4, <1>6, <1>7, <1>13, <2>2
    <3>2. uses[j][k].row <= uses[j][l].at
      BY <1>13, <2>2, <3>1 DEF JtiInv, Jti!SpacedUses
    <3> QED BY <1>6, <1>7, <2>2, <3>1, <3>2
  <2>3. CASE i = j /\ l = Len(uses[j]) + 1
    <3>1. k \in DOMAIN uses[j]
      BY <1>4, <1>6, <1>7, <1>13, <2>3
    <3> QED BY <1>6, <1>7, <1>9, <2>3, <3>1
  <2> QED BY <1>6, <1>7, <1>13, <2>1, <2>2, <2>3
<1>14. /\ Jti!SpacedUses' /\ Outlasted'
       /\ \A i \in Jti!Jwts : i \notin Proofs => seen'[i] <= claim'[i]
  BY <1>3, <1>11, <1>13 DEF Jti!SpacedUses, Outlasted, JtiInv
<1> QED BY <1>10, <1>12, <1>14 DEF JtiInv

LEMMA JtiCommit ==
    ASSUME ClockSet, JtiInv, NEW q \in Requests, Jti!Commit(q)
    PROVE  JtiInv'
<1> DEFINE j == task[q].jwt
           r == Jti!Lasts(j, task[q].at)
<1>1. /\ task[q].pc = "stored" /\ task' = [task EXCEPT ![q] = Jti!Idle]
      /\ seen' = [seen EXCEPT ![j] = r] /\ uses' = Jti!Used(j, task[q].asof, r)
      /\ UNCHANGED <<now, claim>>
  BY DEF Jti!Commit
<1>2. j \in Jti!Jwts /\ Holds(q, j)
  BY <1>1, JtiKnown DEF Holds
<1>3. /\ r \in 0..(MaxTime + Jti!Window) /\ seen[j] <= r
      /\ j \notin Proofs => r <= claim[j]
  BY <1>2, JtiLasts, JtiNumbers DEF JtiInv, JtiTypes
<1>4. r <= r
  BY <1>3, JtiNumbers
<1> HIDE DEF j, r
<1> QED BY <1>1, <1>2, <1>3, <1>4, JtiUsed

\* What is answered without a row leaves the old one, expired.
LEMMA JtiUnrecorded ==
    ASSUME ClockSet, JtiInv, NEW q \in Requests, Jti!AnswerUnrecorded(q)
    PROVE  JtiInv'
<1> DEFINE j == task[q].jwt
<1>1. /\ task[q].pc = "stored" /\ task' = [task EXCEPT ![q] = Jti!Idle]
      /\ uses' = Jti!Used(j, task[q].asof, 0) /\ UNCHANGED <<now, claim, seen>>
  BY DEF Jti!AnswerUnrecorded
<1>2. j \in Jti!Jwts /\ Holds(q, j)
  BY <1>1, JtiKnown DEF Holds
<1>3. /\ seen[j] \in 0..(MaxTime + Jti!Window) /\ 0 \in 0..(MaxTime + Jti!Window)
      /\ seen' = [seen EXCEPT ![j] = seen[j]]
  BY <1>1, <1>2, JtiNumbers DEF JtiInv, JtiTypes, ClockSet
<1>4. seen[j] <= seen[j] /\ 0 <= seen[j] /\ (j \notin Proofs => seen[j] <= claim[j])
  BY <1>2, <1>3, JtiNumbers DEF JtiInv
<1> HIDE DEF j
<1> QED BY <1>1, <1>2, <1>3, <1>4, JtiUsed

LEMMA JtiNext == ASSUME ClockSet, JtiInv, [Jti!Next]_(Jti!vars) PROVE JtiInv'
<1>1. ASSUME NEW q \in Requests, Jti!RollBack(q) PROVE JtiInv'
  <2>1. task' = [task EXCEPT ![q] = Jti!Idle] /\ UNCHANGED <<now, claim, seen, uses>>
    BY <1>1 DEF Jti!RollBack
  <2> QED BY <2>1, JtiIdle, JtiSet
<1>2. CASE UNCHANGED Jti!vars
  <2>1. UNCHANGED <<now, claim, seen, task, uses>>
    BY <1>2 DEF Jti!vars
  <2>2. now' \in 1..MaxTime /\ now <= now'
    BY <2>1, JtiNumbers DEF JtiInv, JtiTypes
  <2>3. \A q \in Requests : task'[q] # Jti!Idle => InOrder(task[q])'
    BY <2>1 DEF JtiInv, JtiTypes, InOrder
  <2>4. \A q \in Requests, j \in Jti!Jwts :
           Holds(q, j)' => Holds(q, j) /\ task'[q].asof = task[q].asof
    BY <2>1 DEF Holds
  <2>5. task' \in [Requests -> JtiTask]
    BY <2>1 DEF JtiInv, JtiTypes
  <2> QED BY <2>1, <2>2, <2>3, <2>4, <2>5, JtiStays
<1>3. CASE Jti!Next
  BY <1>1, <1>3, JtiTick, JtiStart, JtiCheck, JtiCommit, JtiUnrecorded DEF Jti!Next
<1> QED BY <1>2, <1>3

\* A JWT that a committed transaction left a row of is not taken for a new one
\* until the row expires, however the requests with it overlap and whichever of
\* them are rolled back or, like an introspection, answered without a row.
THEOREM UsesSpaced == ASSUME ClockSet PROVE Jti!Spec => []Jti!SpacedUses
<1>1. JtiInv => Jti!SpacedUses
  BY DEF JtiInv
<1>2. Jti!Init => JtiInv
  BY JtiInit
<1>3. JtiInv /\ [Jti!Next]_(Jti!vars) => JtiInv'
  BY JtiNext
<1> QED BY <1>1, <1>2, <1>3, PTL DEF Jti!Spec

\* A row outlives the window of the clock, and a JWT was used in the past.
THEOREM UsesTyped == ASSUME ClockSet PROVE Jti!Spec => []Jti!TypeOK
<1>1. ASSUME JtiInv PROVE Jti!TypeOK
  <2>1. ASSUME NEW j \in Jti!Jwts, NEW k \in DOMAIN uses[j] PROVE uses[j][k].at \in 1..now
    <3>1. uses[j] \in Seq(JtiUse) /\ uses[j][k].at <= now
      BY <1>1, <2>1 DEF JtiInv, JtiTypes
    <3>2. uses[j][k] \in JtiUse /\ now \in 1..MaxTime
      BY <1>1, <2>1, <3>1, JtiTimes DEF JtiInv, JtiTypes
    <3> QED BY <3>1, <3>2 DEF ClockSet, JtiUse
  <2> QED BY <1>1, <2>1 DEF JtiInv, JtiTypes, Jti!TypeOK
<1>2. Jti!Init => JtiInv
  BY JtiInit
<1>3. JtiInv /\ [Jti!Next]_(Jti!vars) => JtiInv'
  BY JtiNext
<1> QED BY <1>1, <1>2, <1>3, PTL DEF Jti!Spec

-----------------------------------------------------------------------------
(***************************************************************************)
(* The trust in a wallet provider (ProviderKeys), for any number of        *)
(* workers and requests, keys and times.                                   *)
(***************************************************************************)
CONSTANTS Workers, KeyIds, Ttl
VARIABLES row, since, published, trusted

Pv == INSTANCE ProviderKeys

TimesSet == Ttl \in Nat /\ Timeout \in Nat

Slots     == Workers \X Tasks
RowSet    == [active : BOOLEAN, jwks : SUBSET KeyIds, uri : BOOLEAN]
EntrySet  == [at : Nat, jwks : SUBSET KeyIds, uri : BOOLEAN, refreshed : BOOLEAN]
RowTask   == [pc : {"refresh"}, at : Nat, row : RowSet]
             \cup [pc : {"revalidate"}, at : Nat, kid : KeyIds, row : RowSet]
FetchTask == [pc : {"fetch"}, at : Nat, kid : KeyIds, jwks : SUBSET KeyIds, ok : {TRUE}]
DeleteTask == [pc : {"delete"}, at : Nat]
LookupTask == {Pv!Idle} \cup RowTask \cup FetchTask \cup DeleteTask

PvTypes ==
    /\ now \in Nat \ {0} /\ since \in 0..now
    /\ row \in RowSet /\ published \subseteq KeyIds
    /\ cache \in [Workers -> {Pv!NoEntry} \cup EntrySet]
    /\ task \in [Slots -> LookupTask]

\* An active row that a handler has read was not deactivated before; what it
\* makes of it comes within the time a handler waits.
Recent(r, n, s) ==
    r.pc # "idle" =>
        /\ r.at <= n /\ n <= r.at + Timeout
        /\ r.pc \in {"refresh", "revalidate"} /\ r.row.active /\ s # 0 => r.at <= s
\* An entry made from the row is no younger than that after a deactivation.
InTimeOf(e, n, s) ==
    e # Pv!NoEntry => e.at <= n /\ (~e.refreshed /\ s # 0 => e.at <= s + Timeout)
PvInv ==
    /\ PvTypes
    /\ row.active => since = 0
    /\ ~row.active => since # 0
    /\ \A s \in Slots : Recent(task[s], now, since)
    /\ \A w \in Workers : InTimeOf(cache[w], now, since)

LEMMA PvIdle ==
    /\ Pv!Idle \in LookupTask /\ Pv!Idle.pc = "idle"
    /\ \A n, s : Recent(Pv!Idle, n, s) /\ InTimeOf(Pv!NoEntry, n, s)
BY DEF Pv!Idle, LookupTask, Recent, InTimeOf

LEMMA PvKinds ==
    ASSUME NEW r \in LookupTask
    PROVE  /\ r.pc \in {"refresh", "revalidate"} => r \in RowTask /\ r.row \in RowSet /\ r.at \in Nat
           /\ r.pc = "fetch" => r \in FetchTask
           /\ r.pc # "idle" => r.at \in Nat /\ r # Pv!Idle
<1>1. CASE r = Pv!Idle
  BY <1>1, PvIdle
<1>2. CASE r \in RowTask
  BY <1>2, PvIdle DEF RowTask
<1>3. CASE r \in FetchTask
  BY <1>3, PvIdle DEF FetchTask
<1>4. CASE r \in DeleteTask
  BY <1>4, PvIdle DEF DeleteTask
<1> QED BY <1>1, <1>2, <1>3, <1>4 DEF LookupTask

LEMMA PvInit == Pv!Init => PvInv
<1> SUFFICES ASSUME Pv!Init PROVE PvInv
  OBVIOUS
<1>1. /\ now = 1 /\ since = 0 /\ published = KeyIds
      /\ cache = [w \in Workers |-> Pv!NoEntry] /\ task = [s \in Slots |-> Pv!Idle]
  BY DEF Pv!Init, Slots
<1>2. row \in RowSet /\ row.active = TRUE
  BY DEF Pv!Init, RowSet
<1>3. PvTypes
  BY <1>1, <1>2, PvIdle DEF PvTypes
<1> QED BY <1>1, <1>2, <1>3, PvIdle DEF PvInv

\* One handler goes on, and one entry may be new, while neither the clock nor
\* the row moves.
LEMMA PvGoesOn ==
    ASSUME PvInv, UNCHANGED <<now, row, since>>, published' \subseteq KeyIds,
           NEW s \in Slots, NEW r \in LookupTask, Recent(r, now, since),
           task' = [task EXCEPT ![s] = r],
           NEW w \in Workers, NEW e \in {Pv!NoEntry} \cup EntrySet, InTimeOf(e, now, since),
           cache' = cache \/ cache' = [cache EXCEPT ![w] = e]
    PROVE  PvInv'
<1>1. /\ task' \in [Slots -> LookupTask] /\ task'[s] = r
      /\ \A p \in Slots : p # s => task'[p] = task[p]
  BY DEF PvInv, PvTypes
<1>2. /\ cache' \in [Workers -> {Pv!NoEntry} \cup EntrySet]
      /\ \A v \in Workers : cache'[v] = cache[v] \/ cache'[v] = e
  BY DEF PvInv, PvTypes
<1>3. PvTypes'
  BY <1>1, <1>2 DEF PvInv, PvTypes
<1>4. \A p \in Slots : Recent(task'[p], now', since')
  BY <1>1 DEF PvInv
<1>5. \A v \in Workers : InTimeOf(cache'[v], now', since')
  BY <1>2 DEF PvInv
<1> QED BY <1>3, <1>4, <1>5 DEF PvInv

\* The row is written, at this time.
LEMMA PvWrites ==
    ASSUME PvInv, UNCHANGED now, row' \in RowSet, UNCHANGED <<published, cache>>,
           since' = IF row'.active THEN 0 ELSE IF row.active THEN now ELSE since,
           NEW s \in Slots, NEW r \in LookupTask, Recent(r, now, since'),
           task' = [task EXCEPT ![s] = r], TimesSet
    PROVE  PvInv'
<1>1. /\ task' \in [Slots -> LookupTask] /\ task'[s] = r
      /\ \A p \in Slots : p # s => task'[p] = task[p]
  BY DEF PvInv, PvTypes
<1>2. since' = 0 \/ since' = now \/ since' = since
  OBVIOUS
<1>3. now \in Nat \ {0} /\ since \in 0..now
  BY DEF PvInv, PvTypes
<1>4. since' \in 0..now' /\ (row'.active => since' = 0) /\ (~row'.active => since' # 0)
  BY <1>3 DEF PvInv
<1>5. PvTypes'
  BY <1>1, <1>4 DEF PvInv, PvTypes
<1>6. ASSUME NEW p \in Slots PROVE Recent(task'[p], now', since')
  <2>1. CASE p = s
    BY <1>1, <2>1
  <2>2. CASE p # s
    BY <1>1, <1>2, <2>2 DEF PvInv, Recent
  <2> QED BY <2>1, <2>2
<1>7. ASSUME NEW w \in Workers PROVE InTimeOf(cache'[w], now', since')
  <2>1. cache[w] = Pv!NoEntry \/ cache[w] \in EntrySet
    BY DEF PvInv, PvTypes
  <2>2. InTimeOf(cache[w], now, since)
    BY DEF PvInv
  <2>3. CASE cache[w] = Pv!NoEntry
    BY <2>3 DEF InTimeOf
  <2>4. CASE cache[w] # Pv!NoEntry
    <3>1. cache[w].at \in Nat /\ cache[w].at <= now
      BY <2>1, <2>2, <2>4 DEF EntrySet, InTimeOf
    <3>2. cache[w].at <= now + Timeout
      BY <1>3, <3>1 DEF TimesSet
    <3> QED BY <1>2, <2>2, <3>1, <3>2 DEF InTimeOf
  <2> QED BY <2>3, <2>4
<1> QED BY <1>4, <1>5, <1>6, <1>7 DEF PvInv

LEMMA PvTick == ASSUME PvInv, TimesSet, Pv!Tick PROVE PvInv'
<1>1. /\ now' = now + 1 /\ UNCHANGED <<row, since, published, cache, task>>
      /\ \A s \in Slots : task[s].pc # "idle" => now < task[s].at + Timeout
  BY DEF Pv!Tick, Slots
<1>2. now \in Nat /\ since \in 0..now
  BY DEF PvInv, PvTypes
<1>3. PvTypes'
  BY <1>1, <1>2 DEF PvInv, PvTypes
<1>4. ASSUME NEW s \in Slots PROVE Recent(task'[s], now', since')
  <2>1. task[s] \in LookupTask /\ Recent(task[s], now, since)
    BY DEF PvInv, PvTypes
  <2>2. task[s].pc # "idle" => task[s].at \in Nat
    BY <2>1, PvKinds
  <2> QED BY <1>1, <1>2, <2>1, <2>2 DEF Recent, TimesSet
<1>5. ASSUME NEW w \in Workers PROVE InTimeOf(cache'[w], now', since')
  <2>1. cache[w] = Pv!NoEntry \/ cache[w] \in EntrySet
    BY DEF PvInv, PvTypes
  <2>2. InTimeOf(cache[w], now, since)
    BY DEF PvInv
  <2> QED BY <1>1, <1>2, <2>1, <2>2 DEF InTimeOf, EntrySet
<1> QED BY <1>1, <1>3, <1>4, <1>5 DEF PvInv

LEMMA PvStartUpdate ==
    ASSUME PvInv, TimesSet, NEW w \in Workers, NEW t \in Tasks, Pv!StartUpdate(w, t)
    PROVE  PvInv' /\ UNCHANGED trusted
<1> DEFINE r == [pc |-> "refresh", at |-> now, row |-> row']
<1>1. /\ UNCHANGED <<now, published, cache, trusted>> /\ task' = [task EXCEPT ![<<w, t>>] = r]
      /\ since' = IF row'.active THEN 0 ELSE IF row.active THEN now ELSE since
      /\ \E active \in BOOLEAN, jwks \in SUBSET KeyIds :
            row' = [row EXCEPT !.active = active, !.jwks = jwks]
  BY DEF Pv!StartUpdate
<1>2. row' \in RowSet
  BY <1>1 DEF PvInv, PvTypes, RowSet
<1>3. now \in Nat
  BY DEF PvInv, PvTypes
<1>4. r \in LookupTask /\ r.pc = "refresh" /\ r.at = now /\ r.row = row'
  BY <1>2, <1>3 DEF LookupTask, RowTask
<1> HIDE DEF r
<1>5. Recent(r, now, since')
  BY <1>1, <1>3, <1>4 DEF Recent, TimesSet
<1>6. <<w, t>> \in Slots
  BY DEF Slots
<1> QED BY <1>1, <1>2, <1>4, <1>5, <1>6, PvWrites

\* Only the cache of a worker, and its handler, change.
LEMMA PvHandles ==
    ASSUME PvInv, UNCHANGED <<now, row, since, published>>, NEW w \in Workers, NEW t \in Tasks,
           NEW r \in LookupTask, Recent(r, now, since), task' = [task EXCEPT ![<<w, t>>] = r],
           NEW e \in {Pv!NoEntry} \cup EntrySet, InTimeOf(e, now, since),
           cache' = cache \/ cache' = [cache EXCEPT ![w] = e]
    PROVE  PvInv'
<1>1. <<w, t>> \in Slots /\ published' \subseteq KeyIds
  BY DEF Slots, PvInv, PvTypes
<1> QED BY <1>1, PvGoesOn

\* What a handler read is put into the cache while it is good.
LEMMA PvPut ==
    ASSUME PvInv, TimesSet, NEW s \in Slots, task[s].pc \in {"refresh", "revalidate"},
           task[s].row.active
    PROVE  LET r == task[s].row
               e == [at |-> now, jwks |-> r.jwks, uri |-> r.uri, refreshed |-> FALSE]
           IN  e \in EntrySet /\ e # Pv!NoEntry /\ InTimeOf(e, now, since)
<1> DEFINE r == task[s].row
           e == [at |-> now, jwks |-> r.jwks, uri |-> r.uri, refreshed |-> FALSE]
<1>1. task[s] \in LookupTask /\ Recent(task[s], now, since) /\ now \in Nat /\ since \in 0..now
  BY DEF PvInv, PvTypes
<1>2. r \in RowSet /\ task[s].at \in Nat
  BY <1>1, PvKinds
<1>3. e \in EntrySet /\ e.at = now
  BY <1>1, <1>2 DEF EntrySet, RowSet
<1>4. since # 0 => now <= since + Timeout
  BY <1>1, <1>2 DEF Recent, TimesSet
<1>5. e # Pv!NoEntry
  <2>1. e.refreshed = FALSE /\ "refreshed" \in DOMAIN e /\ "refreshed" \notin DOMAIN Pv!NoEntry
    BY DEF Pv!NoEntry
  <2> QED BY <2>1
<1> QED BY <1>1, <1>3, <1>4, <1>5 DEF InTimeOf

LEMMA PvFinishUpdate ==
    ASSUME PvInv, TimesSet, NEW w \in Workers, NEW t \in Tasks, Pv!FinishUpdate(w, t)
    PROVE  PvInv' /\ UNCHANGED trusted
<1> DEFINE r == task[<<w, t>>].row
           e == IF r.active
                THEN [at |-> now, jwks |-> r.jwks, uri |-> r.uri, refreshed |-> FALSE]
                ELSE Pv!NoEntry
<1>1. /\ task[<<w, t>>].pc = "refresh" /\ cache' = [cache EXCEPT ![w] = e]
      /\ task' = [task EXCEPT ![<<w, t>>] = Pv!Idle]
      /\ UNCHANGED <<now, row, since, published, trusted>>
  BY DEF Pv!FinishUpdate, Pv!Put, Pv!Invalidate
<1>2. <<w, t>> \in Slots
  BY DEF Slots
<1>3. e \in {Pv!NoEntry} \cup EntrySet /\ InTimeOf(e, now, since)
  BY <1>1, <1>2, PvPut, PvIdle
<1> HIDE DEF e
<1> QED BY <1>1, <1>3, PvIdle, PvHandles

LEMMA PvStartDelete ==
    ASSUME PvInv, TimesSet, NEW w \in Workers, NEW t \in Tasks, Pv!StartDelete(w, t)
    PROVE  PvInv' /\ UNCHANGED trusted
<1> DEFINE r == [pc |-> "delete", at |-> now]
<1>1. /\ cache' = [cache EXCEPT ![w] = Pv!NoEntry] /\ task' = [task EXCEPT ![<<w, t>>] = r]
      /\ UNCHANGED <<now, row, since, published, trusted>>
  BY DEF Pv!StartDelete, Pv!Invalidate
<1>2. now \in Nat
  BY DEF PvInv, PvTypes
<1>3. r \in LookupTask /\ Recent(r, now, since)
  BY <1>2 DEF LookupTask, DeleteTask, Recent, TimesSet
<1> HIDE DEF r
<1> QED BY <1>1, <1>3, PvIdle, PvHandles

LEMMA PvFinishDelete ==
    ASSUME PvInv, TimesSet, NEW w \in Workers, NEW t \in Tasks, Pv!FinishDelete(w, t)
    PROVE  PvInv' /\ UNCHANGED trusted
<1>1. /\ row' = [row EXCEPT !.active = FALSE] /\ since' = IF row.active THEN now ELSE since
      /\ task' = [task EXCEPT ![<<w, t>>] = Pv!Idle]
      /\ UNCHANGED <<now, published, cache, trusted>>
  BY DEF Pv!FinishDelete
<1>2. row' \in RowSet /\ row'.active = FALSE
  BY <1>1 DEF PvInv, PvTypes, RowSet
<1>3. <<w, t>> \in Slots
  BY DEF Slots
<1> QED BY <1>1, <1>2, <1>3, PvIdle, PvWrites

LEMMA PvPublish == ASSUME PvInv, Pv!Publish PROVE PvInv' /\ UNCHANGED trusted
<1>1. published' \subseteq KeyIds /\ UNCHANGED <<now, row, since, cache, task, trusted>>
  BY DEF Pv!Publish
<1> QED BY <1>1 DEF PvInv, PvTypes

\* A key that is answered from the cache comes of an entry that is not stale.
LEMMA PvLookup ==
    ASSUME PvInv, TimesSet, NEW w \in Workers, NEW t \in Tasks, NEW k \in KeyIds,
           Pv!Lookup(w, t, k)
    PROVE  PvInv' /\ Pv!Deactivated
<1>1. UNCHANGED <<now, row, since, published>> /\ now \in Nat /\ row \in RowSet
      /\ since \in 0..now /\ published \subseteq KeyIds
  BY DEF Pv!Lookup, PvInv, PvTypes
<1>2. CASE Pv!Stale(cache[w])
  <2> DEFINE r == [pc |-> "revalidate", at |-> now, kid |-> k, row |-> row]
  <2>1. task' = [task EXCEPT ![<<w, t>>] = r] /\ UNCHANGED <<cache, trusted>>
    BY <1>2 DEF Pv!Lookup
  <2>2. r \in LookupTask /\ r.pc = "revalidate" /\ r.at = now /\ r.row = row
    BY <1>1 DEF LookupTask, RowTask
  <2> HIDE DEF r
  <2>3. Recent(r, now, since)
    BY <1>1, <2>2 DEF Recent, TimesSet, PvInv
  <2> QED BY <1>1, <2>1, <2>2, <2>3, PvIdle, PvHandles DEF Pv!Deactivated
<1>3. CASE ~Pv!Stale(cache[w]) /\ k \in cache[w].jwks
  <2>1. trusted' = [key |-> k, entry |-> cache[w]] /\ UNCHANGED <<cache, task>>
    BY <1>3 DEF Pv!Lookup, Pv!Answer
  <2>2. PvInv'
    BY <1>1, <2>1 DEF PvInv, PvTypes
  <2>3. /\ cache[w] \in EntrySet /\ cache[w] # Pv!NoEntry /\ ~(now >= cache[w].at + Ttl)
        /\ InTimeOf(cache[w], now, since)
    BY <1>3 DEF Pv!Stale, PvInv, PvTypes
  <2>4. cache[w].at \in Nat /\ cache[w].refreshed \in BOOLEAN
    BY <2>3 DEF EntrySet
  <2>5. since # 0 /\ now > since + Ttl + Timeout => cache[w].refreshed
    BY <1>1, <2>3, <2>4 DEF InTimeOf, TimesSet
  <2>6. Pv!Overdue' => since # 0 /\ now > since + Ttl + Timeout
    BY <1>1 DEF Pv!Overdue
  <2> QED BY <2>1, <2>2, <2>5, <2>6 DEF Pv!Deactivated
<1>4. CASE ~Pv!Stale(cache[w]) /\ k \notin cache[w].jwks
  <2> DEFINE r == [pc |-> "fetch", at |-> now, kid |-> k, jwks |-> published, ok |-> TRUE]
  <2>1. task' = [task EXCEPT ![<<w, t>>] = r] /\ UNCHANGED <<cache, trusted>>
    BY <1>4 DEF Pv!Lookup
  <2>2. r \in LookupTask /\ Recent(r, now, since)
    BY <1>1 DEF LookupTask, FetchTask, Recent, TimesSet
  <2> HIDE DEF r
  <2> QED BY <1>1, <2>1, <2>2, PvIdle, PvHandles DEF Pv!Deactivated
<1> QED BY <1>2, <1>3, <1>4

LEMMA PvRevalidated ==
    ASSUME PvInv, TimesSet, NEW w \in Workers, NEW t \in Tasks, Pv!Revalidated(w, t)
    PROVE  PvInv' /\ Pv!Deactivated
<1> DEFINE r == task[<<w, t>>].row
           e == IF r.active
                THEN [at |-> now, jwks |-> r.jwks, uri |-> r.uri, refreshed |-> FALSE]
                ELSE Pv!NoEntry
<1>1. /\ task[<<w, t>>].pc = "revalidate" /\ cache' = [cache EXCEPT ![w] = e]
      /\ task' = [task EXCEPT ![<<w, t>>] = Pv!Idle]
      /\ UNCHANGED <<now, row, since, published>>
      /\ \/ UNCHANGED trusted
         \/ r.active /\ trusted'.entry = cache'[w]
  BY DEF Pv!Revalidated, Pv!Put, Pv!Invalidate, Pv!Active
<1>2. <<w, t>> \in Slots
  BY DEF Slots
<1>3. /\ e \in {Pv!NoEntry} \cup EntrySet /\ InTimeOf(e, now, since)
      /\ r.active => e # Pv!NoEntry /\ e.at = now /\ e.refreshed = FALSE
  BY <1>1, <1>2, PvPut, PvIdle
<1> HIDE DEF e
<1>4. PvInv'
  BY <1>1, <1>3, PvIdle, PvHandles
<1>5. r.active => ~Pv!Overdue'
  <2>1. now \in Nat /\ since \in 0..now
    BY DEF PvInv, PvTypes
  <2>2. r.active => since = 0 \/ now <= since + Timeout
    BY <1>3, <2>1 DEF InTimeOf
  <2> QED BY <1>1, <2>1, <2>2 DEF Pv!Overdue, TimesSet
<1> QED BY <1>1, <1>4, <1>5 DEF Pv!Deactivated

LEMMA PvFetched ==
    ASSUME PvInv, TimesSet, NEW w \in Workers, NEW t \in Tasks, Pv!Fetched(w, t)
    PROVE  PvInv' /\ Pv!Deactivated
<1> DEFINE e == [at |-> now, jwks |-> task[<<w, t>>].jwks, uri |-> TRUE, refreshed |-> TRUE]
<1>1. /\ task[<<w, t>>].pc = "fetch" /\ task' = [task EXCEPT ![<<w, t>>] = Pv!Idle]
      /\ UNCHANGED <<now, row, since, published>>
      /\ \/ UNCHANGED <<cache, trusted>>
         \/ /\ cache' = [cache EXCEPT ![w] = e]
            /\ UNCHANGED trusted \/ trusted'.entry = cache'[w]
  BY DEF Pv!Fetched
<1>2. <<w, t>> \in Slots /\ now \in Nat
  BY DEF Slots, PvInv, PvTypes
<1>3. task[<<w, t>>] \in FetchTask
  BY <1>1, <1>2, PvKinds DEF PvInv, PvTypes
<1>4. e \in EntrySet /\ e.at = now /\ e.refreshed = TRUE
  BY <1>2, <1>3 DEF EntrySet, FetchTask
<1> HIDE DEF e
<1>5. InTimeOf(e, now, since)
  BY <1>2, <1>4 DEF InTimeOf
<1>6. PvInv'
  BY <1>1, <1>4, <1>5, PvIdle, PvHandles
<1>7. cache' = [cache EXCEPT ![w] = e] => cache'[w] = e
  BY DEF PvInv, PvTypes
<1> QED BY <1>1, <1>4, <1>6, <1>7 DEF Pv!Deactivated

LEMMA PvNext ==
    ASSUME TimesSet, PvInv, [Pv!Next]_(Pv!vars)
    PROVE  PvInv' /\ [Pv!Deactivated]_(Pv!vars)
<1>1. CASE UNCHANGED Pv!vars
  BY <1>1 DEF Pv!vars, PvInv, PvTypes
<1>2. CASE Pv!Tick
  <2>1. trusted'.key = 0
    BY <1>2 DEF Pv!Tick
  <2> QED BY <1>2, <2>1, PvTick DEF Pv!Deactivated
<1>3. CASE Pv!Publish
  BY <1>3, PvPublish DEF Pv!Deactivated
<1>4. ASSUME NEW w \in Workers, NEW t \in Tasks,
             Pv!StartUpdate(w, t) \/ Pv!FinishUpdate(w, t) \/ Pv!StartDelete(w, t)
                \/ Pv!FinishDelete(w, t)
      PROVE  PvInv' /\ Pv!Deactivated
  <2>1. PvInv' /\ UNCHANGED trusted
    BY <1>4, PvStartUpdate, PvFinishUpdate, PvStartDelete, PvFinishDelete
  <2> QED BY <2>1 DEF Pv!Deactivated
<1> QED BY <1>1, <1>2, <1>3, <1>4, PvLookup, PvRevalidated, PvFetched DEF Pv!Next

\* A key of a provider that was deactivated is not answered later than an entry
\* lives and a handler waits, unless the entry was renewed from jwks_uri.
THEOREM ProviderForgotten == ASSUME TimesSet PROVE Pv!Spec => Pv!DeactivationSeen
<1>1. PvInv /\ [Pv!Next]_(Pv!vars) => PvInv' /\ [Pv!Deactivated]_(Pv!vars)
  BY PvNext
<1> QED BY <1>1, PvInit, PTL DEF Pv!Spec, Pv!DeactivationSeen
-----------------------------------------------------------------------------
(***************************************************************************)
(* The tokens of a wallet of the multitenant provider (MultiToken), for    *)
(* any number of wallets of each kind, tokens and times, when the calls    *)
(* for tokens do not overlap.                                              *)
(***************************************************************************)
CONSTANTS Wallets, Older, Managed, Lifetime
VARIABLES latest, records, default, issued

MT == INSTANCE MultiToken

WalletRec  == [iats : Seq(Nat), key : MT!WalletKeys]
CreateTask == [pc : {"create"}, op : {"wallet", "token"}, wallet : Wallets, key : MT!WalletKeys]
CheckTask  == [pc : {"check"}, op : {"token"}, wallet : Wallets, key : MT!WalletKeys,
               at : Nat, rec : WalletRec, own : BOOLEAN]
SaveTask   == [pc : {"save"}, op : {"token"}, wallet : Wallets, key : MT!WalletKeys,
               at : Nat, rec : WalletRec, own : BOOLEAN, iat : Nat]
DropTask   == [pc : {"drop"}, op : {"use"}, wallet : Wallets, rec : WalletRec, iat : Nat]
WalletTask == {MT!Idle} \cup CreateTask \cup CheckTask \cup SaveTask \cup DropTask
WalletTypes ==
    /\ now \in Nat /\ default \in Seq(Nat)
    /\ records \in [Wallets -> Seq(WalletRec)]
    /\ issued \subseteq [wallet : Wallets, iat : Nat, key : MT!WalletKeys]
    /\ task \in [Tasks -> WalletTask]

\* The wallet of a token has one record, and the record lists the token until
\* it expires.
Listed(k, R, n) ==
    /\ Len(R[k.wallet]) = 1 /\ k.key = R[k.wallet][1].key
    /\ n >= k.iat + Lifetime \/ k.iat \in MT!Range(R[k.wallet][1].iats)
\* A call under way has the one record of its wallet, or is to make it.
Holding(r, R, dflt, n) ==
    /\ r.pc = "create" => R[r.wallet] = <<>>
    /\ r.pc \in {"check", "save"} => R[r.wallet] = <<r.rec>> /\ r.at = 1
                                     /\ (~r.own => r.rec.iats = dflt)
    /\ r.pc = "save" => r.key = r.rec.key
    /\ r.pc = "drop" => /\ R[r.wallet] = <<r.rec>>
                        /\ r.iat \in MT!Range(r.rec.iats) /\ n >= r.iat + Lifetime
WalletInv ==
    /\ WalletTypes
    /\ \A w \in Wallets : Len(records[w]) <= 1
    /\ \A k \in issued : Listed(k, records, now)
    /\ \A t \in Tasks : task[t] # MT!Idle => Holding(task[t], records, default, now)

LEMMA MTLeastOf ==
    ASSUME NEW S \in SUBSET Nat, S # {}
    PROVE  \E m \in S : \A k \in S : m <= k
<1>1. PICK m \in S : \A k \in S : ~ (<<k, m>> \in OpToRel(<, Nat))
  BY NatLessThanWellFounded, WFMin
<1>2. \A k \in S : ~ (k < m)
  BY <1>1 DEF OpToRel
<1> QED BY <1>2

\* Removal takes out no value but the one it is given.
LEMMA RemovedKeeps ==
    ASSUME NEW list \in Seq(Nat), NEW iat \in MT!Range(list)
    PROVE  /\ MT!Removed(list, iat) \in Seq(Nat)
           /\ \A x \in MT!Range(list) : x # iat => x \in MT!Range(MT!Removed(list, iat))
<1> DEFINE first(i) == list[i] = iat /\ \A j \in 1..(i - 1) : list[j] # iat
           at == CHOOSE i \in DOMAIN list : first(i)
           S  == {i \in DOMAIN list : list[i] = iat}
           n  == Len(list)
           a  == SubSeq(list, 1, at - 1)
           b  == SubSeq(list, at + 1, n)
<1>1. n \in Nat /\ DOMAIN list = 1..n /\ \A i \in 1..n : list[i] \in Nat
  OBVIOUS
<1>2. S \in SUBSET Nat /\ S # {}
  BY <1>1 DEF MT!Range
<1>3. PICK m \in S : \A k \in S : m <= k
  BY <1>2, MTLeastOf
<1>4. m \in DOMAIN list /\ first(m)
  BY <1>1, <1>3
<1>5. at \in DOMAIN list /\ list[at] = iat
  BY <1>4
<1>6. MT!Removed(list, iat) = a \o b
  BY DEF MT!Removed
<1> HIDE DEF at, first, S
<1>7. at \in 1..n /\ at - 1 \in Nat /\ at + 1 \in Nat
  BY <1>1, <1>5
<1>8. /\ a \in Seq(Nat) /\ Len(a) = at - 1
      /\ \A i \in 1..(at - 1) : a[i] = list[i]
  BY <1>1, <1>7
<1>9. /\ b \in Seq(Nat) /\ Len(b) = n - at
      /\ \A i \in 1..(n - at) : b[i] = list[at + i]
  <2> HIDE DEF n
  <2>1. \A i \in (at + 1)..n : list[i] \in Nat
    BY <1>1, <1>7
  <2>2. /\ b \in Seq(Nat) /\ Len(b) = IF at + 1 <= n THEN n - (at + 1) + 1 ELSE 0
        /\ \A i \in 1..(n - (at + 1) + 1) : b[i] = list[(at + 1) + i - 1]
    BY <1>1, <1>7, <2>1, SubSeqProperties
  <2>3. n - (at + 1) + 1 = n - at /\ \A i \in Nat : (at + 1) + i - 1 = at + i
    BY <1>1, <1>7
  <2> QED BY <1>1, <1>7, <2>2, <2>3
<1> HIDE DEF a, b
<1> DEFINE c == a \o b
<1>10. /\ c \in Seq(Nat) /\ Len(c) = n - 1
       /\ \A i \in 1..(at - 1) : c[i] = list[i]
       /\ \A i \in 1..(n - at) : c[at - 1 + i] = list[at + i]
  <2> HIDE DEF n
  <2>1. /\ c \in Seq(Nat) /\ Len(c) = (at - 1) + (n - at)
        /\ \A i \in 1..((at - 1) + (n - at)) :
              c[i] = IF i <= at - 1 THEN a[i] ELSE b[i - (at - 1)]
    <3>1. /\ c \in Seq(Nat) /\ Len(c) = Len(a) + Len(b)
          /\ \A i \in 1..(Len(a) + Len(b)) :
                c[i] = IF i <= Len(a) THEN a[i] ELSE b[i - Len(a)]
      BY <1>8, <1>9, ConcatProperties
    <3> HIDE DEF c
    <3> QED BY <1>8, <1>9, <3>1
  <2> HIDE DEF c
  <2>2. (at - 1) + (n - at) = n - 1
    BY <1>1, <1>7
  <2>3. ASSUME NEW i \in 1..(at - 1) PROVE c[i] = list[i]
    BY <1>1, <1>7, <1>8, <2>1
  <2>4. ASSUME NEW i \in 1..(n - at) PROVE c[at - 1 + i] = list[at + i]
    <3> DEFINE j == at - 1 + i
    <3>1. j \in 1..((at - 1) + (n - at)) /\ ~(j <= at - 1) /\ j - (at - 1) = i
      BY <1>1, <1>7
    <3> HIDE DEF j
    <3>2. c[j] = b[i]
      BY <2>1, <3>1
    <3> QED BY <1>9, <3>2 DEF j
  <2> QED BY <2>1, <2>2, <2>3, <2>4
<1> HIDE DEF c, n
<1>11. DOMAIN c = 1..(n - 1)
  BY <1>10
<1>12. ASSUME NEW i \in 1..n, list[i] # iat PROVE \E j \in DOMAIN c : c[j] = list[i]
  <2>1. i # at
    BY <1>5, <1>12
  <2>2. CASE i < at
    <3>1. i \in 1..(at - 1) /\ i \in 1..(n - 1)
      BY <1>1, <1>7, <2>2
    <3> QED BY <1>10, <1>11, <3>1
  <2>3. CASE i > at
    <3> DEFINE k == i - at
    <3>1. k \in 1..(n - at) /\ at - 1 + k = i - 1 /\ at + k = i /\ i - 1 \in 1..(n - 1)
      BY <1>1, <1>7, <2>3
    <3> HIDE DEF k
    <3>2. c[at - 1 + k] = list[at + k]
      BY <1>10, <3>1
    <3> QED BY <1>11, <3>1, <3>2
  <2> QED BY <1>1, <1>7, <2>1, <2>2, <2>3
<1>13. ASSUME NEW x \in MT!Range(list), x # iat PROVE x \in MT!Range(c)
  <2>1. PICK i \in 1..n : x = list[i]
    BY <1>1, <1>13 DEF MT!Range, n
  <2>2. PICK j \in DOMAIN c : c[j] = x
    BY <1>12, <1>13, <2>1
  <2> QED BY <2>2 DEF MT!Range
<1>14. MT!Removed(list, iat) = c
  BY <1>6 DEF c
<1> QED BY <1>10, <1>13, <1>14

LEMMA WalletKinds ==
    /\ MT!Idle.pc = "idle" /\ MT!Idle \in WalletTask
    /\ \A r \in CreateTask : r.pc = "create" /\ r # MT!Idle
    /\ \A r \in CheckTask : r.pc = "check" /\ r # MT!Idle
    /\ \A r \in SaveTask : r.pc = "save" /\ r # MT!Idle
    /\ \A r \in DropTask : r.pc = "drop" /\ r # MT!Idle
<1>1. MT!Idle.pc = "idle" /\ MT!Idle \in WalletTask
  BY DEF MT!Idle, WalletTask
<1>2. /\ \A r \in CreateTask : r.pc = "create"
      /\ \A r \in CheckTask : r.pc = "check"
      /\ \A r \in SaveTask : r.pc = "save"
      /\ \A r \in DropTask : r.pc = "drop"
  BY DEF CreateTask, CheckTask, SaveTask, DropTask
<1> QED BY <1>1, <1>2

\* The only call t becomes r.
LEMMA WalletStep ==
    ASSUME OneAtATime, WalletInv, NEW t \in Tasks, NEW r \in WalletTask,
           task' = [task EXCEPT ![t] = r], UNCHANGED now,
           default' \in Seq(Nat), records' \in [Wallets -> Seq(WalletRec)],
           issued' \subseteq [wallet : Wallets, iat : Nat, key : MT!WalletKeys],
           \A w \in Wallets : Len(records'[w]) <= 1,
           \A k \in issued' : Listed(k, records', now),
           r # MT!Idle => Holding(r, records', default', now)
    PROVE  WalletInv'
<1>1. task \in [Tasks -> WalletTask] /\ now \in Nat
  BY DEF WalletInv, WalletTypes
<1>2. task' \in [Tasks -> WalletTask] /\ \A s \in Tasks : task'[s] = r
  BY <1>1 DEF OneAtATime
<1>3. WalletTypes'
  BY <1>1, <1>2 DEF WalletTypes
<1> QED BY <1>2, <1>3 DEF WalletInv

\* ... and nothing else changes.
LEMMA WalletMove ==
    ASSUME OneAtATime, WalletInv, NEW t \in Tasks, NEW r \in WalletTask,
           task' = [task EXCEPT ![t] = r], UNCHANGED <<now, records, default, issued>>,
           r # MT!Idle => Holding(r, records, default, now)
    PROVE  WalletInv'
<1>1. /\ default' \in Seq(Nat) /\ records' \in [Wallets -> Seq(WalletRec)]
      /\ issued' \subseteq [wallet : Wallets, iat : Nat, key : MT!WalletKeys]
      /\ \A w \in Wallets : Len(records'[w]) <= 1
      /\ \A k \in issued' : Listed(k, records', now)
  BY DEF WalletInv, WalletTypes
<1> QED BY <1>1, WalletStep

LEMMA WalletTick ==
    ASSUME WalletInv, Lifetime \in Nat, MT!Tick
    PROVE  WalletInv'
<1>1. /\ now \in Nat /\ now' = now + 1
      /\ UNCHANGED <<latest, records, default, issued, task>>
  BY DEF MT!Tick, WalletInv, WalletTypes
<1>2. WalletTypes'
  BY <1>1 DEF WalletInv, WalletTypes
<1>3. \A k \in issued : Listed(k, records, now')
  <2>1. \A k \in issued : k.iat \in Nat
    BY DEF WalletInv, WalletTypes
  <2>2. \A k \in issued : now >= k.iat + Lifetime => now' >= k.iat + Lifetime
    BY <1>1, <2>1
  <2> QED BY <2>2 DEF WalletInv, Listed
<1>4. ASSUME NEW t \in Tasks, task[t] # MT!Idle
      PROVE  Holding(task[t], records, default, now')
  <2>1. Holding(task[t], records, default, now) /\ task[t] \in WalletTask
    BY <1>4 DEF WalletInv, WalletTypes
  <2>2. task[t].pc = "drop" => task[t].iat \in Nat
    BY <1>4, <2>1, WalletKinds DEF WalletTask, DropTask
  <2> QED BY <1>1, <2>1, <2>2 DEF Holding
<1> QED BY <1>1, <1>2, <1>3, <1>4 DEF WalletInv

\* A call for a token starts with the one record of the wallet, or makes it.
LEMMA WalletStart ==
    ASSUME OneAtATime, WalletInv, NEW t \in Tasks, NEW w \in Wallets, NEW sent \in MT!WalletKeys,
           MT!CreateWallet(t, w) \/ MT!CreateToken(t, w, sent)
    PROVE  WalletInv'
<1>1. records[w] \in Seq(WalletRec) /\ UNCHANGED <<now, records, default, issued>>
  BY DEF WalletInv, WalletTypes, MT!CreateWallet, MT!CreateToken
<1>2. CASE MT!CreateWallet(t, w)
  <2> DEFINE r == [pc |-> "create", op |-> "wallet", wallet |-> w, key |-> "right"]
  <2>1. records[w] = <<>> /\ task' = [task EXCEPT ![t] = r]
    BY <1>2 DEF MT!CreateWallet
  <2>2. r \in CreateTask /\ r.wallet = w
    BY DEF CreateTask, MT!WalletKeys
  <2> HIDE DEF r
  <2>3. r \in WalletTask /\ r.pc = "create"
    BY <2>2, WalletKinds DEF WalletTask
  <2>4. Holding(r, records, default, now)
    BY <2>1, <2>2, <2>3 DEF Holding
  <2> QED BY <1>1, <2>1, <2>3, <2>4, WalletMove
<1>3. CASE MT!CreateToken(t, w, sent) /\ Len(records[w]) # 1
  <2> DEFINE r == [pc |-> "create", op |-> "token", wallet |-> w, key |-> sent]
  <2>1. task' = [task EXCEPT ![t] = r]
    BY <1>3 DEF MT!CreateToken
  <2>2. r \in CreateTask /\ r.wallet = w
    BY DEF CreateTask
  <2> HIDE DEF r
  <2>3. r \in WalletTask /\ r.pc = "create"
    BY <2>2, WalletKinds DEF WalletTask
  <2>4. records[w] = <<>>
    <3>1. Len(records[w]) \in Nat /\ Len(records[w]) <= 1
      BY <1>1 DEF WalletInv
    <3>2. Len(records[w]) = 0
      <4> DEFINE n == Len(records[w])
      <4>1. n \in Nat /\ n <= 1 /\ n # 1
        BY <1>3, <3>1
      <4> HIDE DEF n
      <4>2. n = 0
        BY <4>1
      <4> QED BY <4>2 DEF n
    <3> QED BY <1>1, <3>2
  <2>5. Holding(r, records, default, now)
    BY <2>2, <2>3, <2>4 DEF Holding
  <2> QED BY <1>1, <2>1, <2>3, <2>5, WalletMove
<1>4. CASE MT!CreateToken(t, w, sent) /\ Len(records[w]) = 1
  <2> DEFINE c == records[w][1]
             r == [pc |-> "check", op |-> "token", wallet |-> w, key |-> sent, at |-> 1,
                   rec |-> c, own |-> TRUE]
  <2>1. task' = [task EXCEPT ![t] = r]
    BY <1>4 DEF MT!CreateToken
  <2>2. c \in WalletRec /\ records[w] = <<c>>
    BY <1>1, <1>4
  <2> HIDE DEF c
  <2>3. r \in CheckTask /\ r.wallet = w /\ r.rec = c /\ r.at = 1 /\ r.own
    BY <2>2 DEF CheckTask
  <2> HIDE DEF r
  <2>4. r \in WalletTask /\ r.pc = "check"
    BY <2>3, WalletKinds DEF WalletTask
  <2>5. Holding(r, records, default, now)
    BY <2>2, <2>3, <2>4 DEF Holding
  <2> QED BY <1>1, <2>1, <2>4, <2>5, WalletMove
<1> QED BY <1>2, <1>3, <1>4

LEMMA WalletCreateRecord ==
    ASSUME OneAtATime, WalletInv, NEW t \in Tasks, MT!CreateRecord(t)
    PROVE  WalletInv'
<1> DEFINE q == task[t]
           w == q.wallet
           c == [iats |-> default, key |-> IF w \in Managed THEN "right" ELSE q.key]
           r == IF q.op = "wallet" THEN MT!Idle
                ELSE [pc |-> "check", op |-> "token", wallet |-> w, key |-> q.key,
                      at |-> Len(records[w]) + 1, rec |-> c, own |-> FALSE]
<1>1. /\ q.pc = "create" /\ records' = [records EXCEPT ![w] = Append(records[w], c)]
      /\ task' = [task EXCEPT ![t] = r] /\ UNCHANGED <<now, latest, default, issued>>
  BY DEF MT!CreateRecord, MT!Record
<1>2. q \in CreateTask
  BY <1>1, WalletKinds DEF WalletInv, WalletTypes, WalletTask
<1>3. w \in Wallets /\ q.key \in MT!WalletKeys /\ records[w] = <<>>
  BY <1>1, <1>2, WalletKinds DEF CreateTask, WalletInv, Holding
<1>4. c \in WalletRec /\ c.iats = default
  BY <1>3 DEF WalletRec, WalletInv, WalletTypes, MT!WalletKeys
<1> HIDE DEF c
<1>5. Append(records[w], c) = <<c>> /\ Len(records[w]) = 0
  BY <1>3
<1>6. /\ records' \in [Wallets -> Seq(WalletRec)] /\ records'[w] = <<c>>
      /\ \A v \in Wallets : v # w => records'[v] = records[v]
  <2>1. records' = [records EXCEPT ![w] = <<c>>]
    BY <1>1, <1>5
  <2>2. <<c>> \in Seq(WalletRec)
    BY <1>4
  <2> HIDE DEF w, q
  <2> QED BY <1>3, <2>1, <2>2 DEF WalletInv, WalletTypes
<1>7. \A k \in issued : k.wallet # w
  BY <1>5 DEF WalletInv, Listed
<1>8. \A k \in issued' : Listed(k, records', now)
  <2>1. \A k \in issued : k.wallet \in Wallets /\ Listed(k, records, now)
    BY DEF WalletInv, WalletTypes
  <2>2. \A k \in issued : records'[k.wallet] = records[k.wallet]
    BY <1>6, <1>7, <2>1
  <2>3. issued' = issued
    BY <1>1
  <2>4. ASSUME NEW k \in issued PROVE Listed(k, records', now)
    BY <2>1, <2>2 DEF Listed
  <2>5. \A k \in issued : Listed(k, records', now)
    BY <2>4
  <2> HIDE DEF w, r, q
  <2> QED BY <2>3, <2>5
<1>9. \A v \in Wallets : Len(records'[v]) <= 1
  <2>1. \A v \in Wallets : Len(records[v]) <= 1
    BY DEF WalletInv
  <2>2. Len(<<c>>) = 1
    OBVIOUS
  <2> HIDE DEF w, r, q
  <2>3. Len(records'[w]) <= 1
    BY <1>6, <2>2
  <2>4. ASSUME NEW v \in Wallets, v # w PROVE Len(records'[v]) <= 1
    BY <1>6, <2>1, <2>4
  <2> QED BY <2>3, <2>4
<1>10. r \in WalletTask /\ (r # MT!Idle => Holding(r, records', default', now))
  <2>1. CASE q.op = "wallet"
    BY <2>1, WalletKinds
  <2>2. CASE q.op # "wallet"
    <3> DEFINE s == [pc |-> "check", op |-> "token", wallet |-> w, key |-> q.key,
                     at |-> 1, rec |-> c, own |-> FALSE]
    <3>1. r = s
      BY <1>5, <2>2
    <3> HIDE DEF w
    <3>2. s \in CheckTask /\ s.wallet = w /\ s.rec = c /\ s.at = 1 /\ ~s.own
      BY <1>3, <1>4 DEF CheckTask
    <3> HIDE DEF s, r
    <3>3. s \in WalletTask /\ s.pc = "check"
      BY <3>2, WalletKinds DEF WalletTask
    <3>4. Holding(s, records', default', now)
      BY <1>1, <1>4, <1>6, <3>2, <3>3 DEF Holding
    <3> QED BY <3>1, <3>3, <3>4
  <2> QED BY <2>1, <2>2
<1>11. default' \in Seq(Nat) /\ issued' \subseteq [wallet : Wallets, iat : Nat, key : MT!WalletKeys]
  BY <1>1 DEF WalletInv, WalletTypes
<1> HIDE DEF r, w, q
<1> QED BY <1>1, <1>6, <1>8, <1>9, <1>10, <1>11, WalletStep

LEMMA WalletCheck ==
    ASSUME OneAtATime, WalletInv, NEW t \in Tasks, MT!Check(t)
    PROVE  WalletInv'
<1> DEFINE q == task[t]
           r == [pc |-> "save", op |-> "token", wallet |-> q.wallet, key |-> q.key,
                 at |-> q.at, rec |-> q.rec, own |-> q.own, iat |-> now]
<1>1. q.pc = "check" /\ UNCHANGED <<now, records, default, issued>>
  BY DEF MT!Check
<1>2. q \in CheckTask /\ now \in Nat
  BY <1>1, WalletKinds DEF WalletInv, WalletTypes, WalletTask
<1>3. Holding(q, records, default, now)
  BY <1>2, WalletKinds DEF WalletInv
<1>4. CASE MT!End(t)
  BY <1>1, <1>4, WalletKinds, WalletMove DEF MT!End
<1>5. CASE q.key = q.rec.key /\ task' = [task EXCEPT ![t] = r]
  <2> HIDE DEF q
  <2>1. /\ r \in SaveTask /\ r.wallet = q.wallet /\ r.rec = q.rec /\ r.at = q.at
        /\ r.own = q.own /\ r.key = q.key
    BY <1>2 DEF CheckTask, SaveTask
  <2> HIDE DEF r
  <2>2. r \in WalletTask /\ r.pc = "save"
    BY <2>1, WalletKinds DEF WalletTask
  <2>3. Holding(r, records, default, now)
    BY <1>1, <1>3, <1>5, <2>1, <2>2 DEF Holding
  <2> QED BY <1>1, <1>5, <2>2, <2>3, WalletMove
<1> QED BY <1>4, <1>5 DEF MT!Check

\* The one record of a wallet is replaced by one that lists more, or all but
\* what has expired.
LEMMA WalletSaved ==
    ASSUME WalletInv, NEW w \in Wallets, NEW c \in WalletRec, NEW d \in WalletRec,
           records[w] = <<c>>, records' = [records EXCEPT ![w][1] = d], c.key = d.key,
           \A x \in MT!Range(c.iats) : x \in MT!Range(d.iats) \/ now >= x + Lifetime
    PROVE  /\ records' \in [Wallets -> Seq(WalletRec)] /\ records'[w] = <<d>>
           /\ \A v \in Wallets : Len(records'[v]) <= 1
           /\ \A k \in issued : Listed(k, records', now)
<1>1. [records[w] EXCEPT ![1] = d] = <<d>>
  <2>1. [<<c>> EXCEPT ![1] = d] = <<d>>
    OBVIOUS
  <2> QED BY <2>1
<1>2. records' = [records EXCEPT ![w] = <<d>>]
  BY <1>1
<1>3. <<d>> \in Seq(WalletRec) /\ Len(<<d>>) = 1 /\ <<d>>[1] = d
  OBVIOUS
<1>4. /\ records' \in [Wallets -> Seq(WalletRec)] /\ records'[w] = <<d>>
      /\ \A v \in Wallets : v # w => records'[v] = records[v]
  BY <1>2, <1>3 DEF WalletInv, WalletTypes
<1>5. \A v \in Wallets : Len(records'[v]) <= 1
  BY <1>3, <1>4 DEF WalletInv
<1>6. ASSUME NEW k \in issued PROVE Listed(k, records', now)
  <2>1. k.wallet \in Wallets /\ Listed(k, records, now)
    BY DEF WalletInv, WalletTypes
  <2>2. CASE k.wallet # w
    BY <1>4, <2>1, <2>2 DEF Listed
  <2>3. CASE k.wallet = w
    <3>1. k.key = c.key /\ (now >= k.iat + Lifetime \/ k.iat \in MT!Range(c.iats))
      BY <2>1, <2>3 DEF Listed
    <3>2. k.key = d.key /\ (now >= k.iat + Lifetime \/ k.iat \in MT!Range(d.iats))
      BY <3>1
    <3> QED BY <1>3, <1>4, <2>3, <3>2 DEF Listed
  <2> QED BY <2>2, <2>3
<1> QED BY <1>4, <1>5, <1>6

LEMMA WalletSaveClaims ==
    ASSUME OneAtATime, WalletInv, NEW t \in Tasks, MT!SaveClaims(t)
    PROVE  WalletInv'
<1> DEFINE q == task[t]
           w == q.wallet
           old == IF q.own THEN q.rec.iats ELSE default
           list == Append(old, q.iat)
           d == [iats |-> list, key |-> q.rec.key]
           k == [wallet |-> w, iat |-> q.iat, key |-> q.key]
<1>1. /\ q.pc = "save" /\ task' = [task EXCEPT ![t] = MT!Idle]
      /\ records' = [records EXCEPT ![w][q.at] = d]
      /\ default' = (IF q.own THEN default ELSE list)
      /\ issued' = issued \cup {k} /\ UNCHANGED <<now, latest>>
  BY DEF MT!SaveClaims, MT!End, MT!Record
<1>2. q \in SaveTask
  BY <1>1, WalletKinds DEF WalletInv, WalletTypes, WalletTask
<1>3. /\ w \in Wallets /\ q.key \in MT!WalletKeys /\ q.rec \in WalletRec /\ q.iat \in Nat
      /\ q.own \in BOOLEAN
  BY <1>2 DEF SaveTask
<1>4. /\ records[w] = <<q.rec>> /\ q.at = 1 /\ (~q.own => q.rec.iats = default)
      /\ q.key = q.rec.key
  BY <1>1, <1>2, WalletKinds DEF WalletInv, Holding
<1>5. old \in Seq(Nat) /\ old = q.rec.iats
  BY <1>3, <1>4 DEF WalletRec
<1>6. k \in [wallet : Wallets, iat : Nat, key : MT!WalletKeys]
      /\ k.wallet = w /\ k.iat = q.iat /\ k.key = q.key
  BY <1>3
<1> HIDE DEF old, k, w, q
<1>7. list \in Seq(Nat) /\ Len(list) = Len(old) + 1 /\ list[Len(old) + 1] = q.iat
      /\ \A i \in 1..Len(old) : list[i] = old[i]
  BY <1>3, <1>5
<1> HIDE DEF list
<1>8. /\ DOMAIN list = 1..(Len(old) + 1) /\ DOMAIN old = 1..Len(old) /\ Len(old) \in Nat
  BY <1>5, <1>7
<1>9. q.iat \in MT!Range(list) /\ \A x \in MT!Range(old) : x \in MT!Range(list)
  BY <1>7, <1>8 DEF MT!Range
<1>10. d \in WalletRec /\ d.iats = list /\ d.key = q.rec.key
  BY <1>3, <1>7 DEF WalletRec
<1> HIDE DEF d
<1>11. records' = [records EXCEPT ![w][1] = d]
  BY <1>1, <1>4
<1>12. \A x \in MT!Range(q.rec.iats) : x \in MT!Range(d.iats) \/ now >= x + Lifetime
  BY <1>5, <1>9, <1>10
<1>13. /\ records' \in [Wallets -> Seq(WalletRec)] /\ records'[w] = <<d>>
       /\ \A v \in Wallets : Len(records'[v]) <= 1
       /\ \A x \in issued : Listed(x, records', now)
  BY <1>3, <1>4, <1>10, <1>11, <1>12, WalletSaved
<1>14. Listed(k, records', now)
  <2>1. Len(<<d>>) = 1 /\ <<d>>[1] = d
    OBVIOUS
  <2> QED BY <1>4, <1>6, <1>9, <1>10, <1>13, <2>1 DEF Listed
<1>15. default' \in Seq(Nat) /\ issued' \subseteq [wallet : Wallets, iat : Nat, key : MT!WalletKeys]
  BY <1>1, <1>3, <1>6, <1>7 DEF WalletInv, WalletTypes
<1>16. \A x \in issued' : Listed(x, records', now)
  BY <1>1, <1>13, <1>14
<1>17. MT!Idle \in WalletTask
  BY WalletKinds
<1>18. task' = [task EXCEPT ![t] = MT!Idle] /\ UNCHANGED now
  BY <1>1
<1> QED BY <1>13, <1>15, <1>16, <1>17, <1>18, WalletStep

\* Use of an expired token.
LEMMA WalletUse ==
    ASSUME OneAtATime, WalletInv, NEW t \in Tasks, NEW k \in issued, MT!UseExpired(t, k)
    PROVE  WalletInv'
<1> DEFINE w == k.wallet
           c == records[w][1]
           r == [pc |-> "drop", op |-> "use", wallet |-> w, rec |-> c, iat |-> k.iat]
<1>1. /\ now >= k.iat + Lifetime /\ Len(records[w]) = 1 /\ k.iat \in MT!Range(c.iats)
      /\ task' = [task EXCEPT ![t] = r] /\ UNCHANGED <<now, latest, records, default, issued>>
  BY DEF MT!UseExpired, MT!Expired
<1>2. w \in Wallets /\ k.iat \in Nat /\ records[w] \in Seq(WalletRec)
  BY DEF WalletInv, WalletTypes
<1>3. c \in WalletRec /\ records[w] = <<c>>
  BY <1>1, <1>2
<1> HIDE DEF c, w
<1>4. r \in DropTask /\ r.wallet = w /\ r.rec = c /\ r.iat = k.iat
  BY <1>2, <1>3 DEF DropTask
<1> HIDE DEF r
<1>5. r \in WalletTask /\ r.pc = "drop"
  BY <1>4, WalletKinds DEF WalletTask
<1>6. Holding(r, records, default, now)
  BY <1>1, <1>3, <1>4, <1>5 DEF Holding
<1> QED BY <1>1, <1>5, <1>6, WalletMove

LEMMA WalletDrop ==
    ASSUME OneAtATime, WalletInv, NEW t \in Tasks, MT!Drop(t)
    PROVE  WalletInv'
<1> DEFINE q == task[t]
           w == q.wallet
           c == q.rec
           list == MT!Removed(c.iats, q.iat)
           d == [c EXCEPT !.iats = list]
<1>1. /\ q.pc = "drop" /\ task' = [task EXCEPT ![t] = MT!Idle]
      /\ records' = [records EXCEPT ![w][1].iats = list]
      /\ UNCHANGED <<now, latest, default, issued>>
  BY DEF MT!Drop, MT!End
<1>2. q \in DropTask
  BY <1>1, WalletKinds DEF WalletInv, WalletTypes, WalletTask
<1>3. w \in Wallets /\ c \in WalletRec /\ q.iat \in Nat
  BY <1>2 DEF DropTask
<1>4. records[w] = <<c>> /\ q.iat \in MT!Range(c.iats) /\ now >= q.iat + Lifetime
  BY <1>1, <1>2, WalletKinds DEF WalletInv, Holding
<1> HIDE DEF w, c, q
<1>5. c.iats \in Seq(Nat)
  BY <1>3 DEF WalletRec
<1>6. /\ list \in Seq(Nat)
      /\ \A x \in MT!Range(c.iats) : x # q.iat => x \in MT!Range(list)
  BY <1>4, <1>5, RemovedKeeps
<1> HIDE DEF list
<1>7. d \in WalletRec /\ d.iats = list /\ d.key = c.key
  BY <1>3, <1>6 DEF WalletRec
<1>8. records' = [records EXCEPT ![w][1] = d]
  <2>1. records[w][1] = c
    BY <1>4
  <2>2. records' = [records EXCEPT ![w] = [records[w] EXCEPT ![1] = [records[w][1] EXCEPT !.iats = list]]]
    BY <1>1
  <2>3. records' = [records EXCEPT ![w] = [records[w] EXCEPT ![1] = d]]
    BY <2>1, <2>2
  <2> HIDE DEF d
  <2> QED BY <2>3
<1> HIDE DEF d
<1>9. \A x \in MT!Range(c.iats) : x \in MT!Range(d.iats) \/ now >= x + Lifetime
  BY <1>4, <1>6, <1>7
<1>10. /\ records' \in [Wallets -> Seq(WalletRec)] /\ records'[w] = <<d>>
       /\ \A v \in Wallets : Len(records'[v]) <= 1
       /\ \A k \in issued : Listed(k, records', now)
  BY <1>3, <1>4, <1>7, <1>8, <1>9, WalletSaved
<1>11. default' \in Seq(Nat) /\ issued' \subseteq [wallet : Wallets, iat : Nat, key : MT!WalletKeys]
  BY <1>1 DEF WalletInv, WalletTypes
<1>12. \A k \in issued' : Listed(k, records', now)
  BY <1>1, <1>10
<1>13. MT!Idle \in WalletTask
  BY WalletKinds
<1>14. task' = [task EXCEPT ![t] = MT!Idle] /\ UNCHANGED now
  BY <1>1
<1> QED BY <1>10, <1>11, <1>12, <1>13, <1>14, WalletStep

LEMMA WalletInit == MT!Init => WalletInv
<1>1. SUFFICES ASSUME MT!Init PROVE WalletInv
  OBVIOUS
<1>2. \A w \in Wallets : records[w] = <<>>
  BY <1>1 DEF MT!Init
<1>3. WalletTypes
  BY <1>1, WalletKinds DEF MT!Init, WalletTypes
<1> QED BY <1>1, <1>2, <1>3 DEF MT!Init, WalletInv

LEMMA WalletNext ==
    ASSUME OneAtATime, Lifetime \in Nat, WalletInv, [MT!Next]_(MT!vars)
    PROVE  WalletInv'
<1>1. CASE UNCHANGED MT!vars
  BY <1>1 DEF MT!vars, WalletInv, WalletTypes
<1>2. CASE MT!Tick
  BY <1>2, WalletTick
<1>3. ASSUME NEW t \in Tasks,
             \/ \E w \in Wallets : MT!CreateWallet(t, w)
             \/ \E w \in Wallets, sent \in MT!WalletKeys : MT!CreateToken(t, w, sent)
      PROVE  WalletInv'
  <2>1. MT!WalletKeys # {}
    BY DEF MT!WalletKeys
  <2> QED BY <1>3, <2>1, WalletStart
<1>4. ASSUME NEW t \in Tasks, MT!CreateRecord(t) \/ MT!Check(t) \/ MT!SaveClaims(t) PROVE WalletInv'
  BY <1>4, WalletCreateRecord, WalletCheck, WalletSaveClaims
<1>5. ASSUME NEW t \in Tasks, (\E k \in issued : MT!UseExpired(t, k)) \/ MT!Drop(t) PROVE WalletInv'
  BY <1>5, WalletUse, WalletDrop
<1> QED BY <1>1, <1>2, <1>3, <1>4, <1>5 DEF MT!Next

\* A token that was issued and has not expired is accepted, whatever tokens of
\* the wallet are issued, used or expire meanwhile, one call at a time
\* (get_profile_for_token, create_auth_token).
THEOREM TokenAccepted == ASSUME OneAtATime, Lifetime \in Nat PROVE MT!Spec => []MT!StaysValid
<1>1. WalletInv => MT!StaysValid
  BY DEF WalletInv, WalletTypes, Listed, MT!StaysValid, MT!Accepts, MT!Expired
<1>2. WalletInv /\ [MT!Next]_(MT!vars) => WalletInv'
  BY WalletNext
<1> QED BY <1>1, <1>2, WalletInit, PTL DEF MT!Spec
============================================================================
