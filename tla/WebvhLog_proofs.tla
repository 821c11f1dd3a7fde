--------------------------- MODULE WebvhLog_proofs ---------------------------
(***************************************************************************)
(* Theorems about the log of a did:webvh and its witness, for any number   *)
(* of operations and concurrent calls, whoever witnesses, with rotated     *)
(* keys or not, and with failures or not; and about the AnonCreds objects  *)
(* of a did:webvh issuer, which a witness attests in the same way, and of  *)
(* a did:cheqd issuer, which a registrar puts on the ledger.               *)
(***************************************************************************)
EXTENDS WebvhLog, WellFoundedInduction, TLAPS

-----------------------------------------------------------------------------
(***************************************************************************)
(* A call prepares an entry, waits for the witness, then finishes the      *)
(* operation, or a handler takes note of the witness's response.           *)
(***************************************************************************)
UpdatePc == {"rotate", "unbind update", "bind update", "unbind next", "bind next", "sign"}
CallPc   == {"stream", "ask", "save", "wait", "timed out", "woken"}
FinishPc == {"submit", "local", "map", "notify", "remove", "answer", "release"}
States   == {"pending", "attested", "rejected"}

Bound    == [update : Nat, next : Nat]
Updating == [pc : UpdatePc, req : Requests, last : BOOLEAN, version : Nat \ {0},
             auth : Nat, next : Nat, prev : Bound]
Calling  == [pc : CallPc, req : Requests]
Finishing == [pc : FinishPc, req : Requests, waits : BOOLEAN]
Noting   == [pc : {"note"}, req : Requests, state : States, waits : {TRUE}, found : BOOLEAN]
Task     == {Idle} \cup Updating \cup Calling \cup Finishing \cup Noting

Entry    == [version : Nat \ {0}, signer : Nat, auth : Nat, next : Nat, last : BOOLEAN]
Logged   == [req : Requests, auth : Nat, next : Nat, last : BOOLEAN]
Message  == [req : Requests, state : States]

Known == {r \in Requests : entry[r] # None}

Types ==
    /\ log \in Seq(Logged)
    /\ entry \in [Requests -> {None} \cup Entry]
    /\ keys \in Nat
    /\ wallet \in Bound
    /\ local \subseteq {"did", "scid"}
    /\ task \in [Tasks -> Task]
    /\ pending \in [Requests -> {NoRecord} \cup States]
    /\ held \subseteq Requests /\ toWitness \subseteq Requests
    /\ toController \subseteq Message
    /\ attested \subseteq Requests /\ told \subseteq Requests
    /\ result \in [Requests -> {"none", "error", "pending", "unknown", "document"}]

\* The wallet binds keys that were made, and puts back none but those.
KeysMade(r, k) == r.pc \in UpdatePc => r.prev.update <= k /\ r.prev.next <= k
KeysInv ==
    /\ wallet.update <= keys /\ wallet.next <= keys
    /\ \A t \in Tasks : KeysMade(task[t], keys)

\* A request is the operation of one call until its entry is signed; only then
\* can anybody ask for it, attest it or publish it, in the order of versions.
Made(r, K) ==
    /\ r.pc \in UpdatePc => r.req \notin K
    /\ r.pc \in CallPc \cup FinishPc \cup {"note"} => r.req \in K
EntryInv ==
    /\ \A t \in Tasks : Made(task[t], Known)
    /\ \A t, s \in Tasks : task[t].pc \in UpdatePc /\ task[s].pc \in UpdatePc
                           /\ task[t].req = task[s].req => t = s
    /\ held \cup toWitness \cup attested \subseteq Known
    /\ \A m \in toController : m.req \in Known
    /\ \A r \in Requests : pending[r] # NoRecord => r \in Known
    /\ \A i \in DOMAIN log : entry[log[i].req].version = i
    /\ (\E t \in Tasks : task[t].pc \in UpdatePc) \/ local # {} => log # <<>>

\* What is submitted or answered was attested, what is done was published, and
\* only an agent sends responses.  P, A and T: published, attested and told.
Justified(r, P, A, T) ==
    /\ r.pc \in {"submit", "answer"} /\ Mode # "none" => r.req \in A
    /\ r.pc = "note" => Mode = "agent" /\ (r.state = "attested" => r.req \in T)
    /\ r.pc \in {"answer", "release"} => Mode = "agent"
    /\ r.pc = "release" => r.req \in T
    /\ r.pc \in {"local", "map", "notify", "woken"} => r.req \in P
    /\ r.pc = "remove" /\ Mode = "self" => r.req \in P
WitnessInv ==
    /\ \A t \in Tasks : Justified(task[t], Published, attested, told)
    /\ told \subseteq attested
    /\ \A m \in toController : m.state = "attested" => m.req \in told
    /\ Mode # "agent" => held = {} /\ toWitness = {} /\ toController = {}
    /\ \A r \in Requests : result[r] = "document" => r \in Published

LogInv ==
    /\ Types /\ KeysInv /\ EntryInv /\ WitnessInv
    /\ SubmittedAttested /\ ApprovalKept

-----------------------------------------------------------------------------
(***************************************************************************)
(* Types.                                                                  *)
(***************************************************************************)

\* Where a call is says what it holds.
LEMMA Kinds ==
    ASSUME NEW r \in Task
    PROVE  /\ r.pc \in UpdatePc => r \in Updating
           /\ r.pc \in CallPc => r \in Calling
           /\ r.pc \in FinishPc => r \in Finishing
           /\ r.pc = "note" => r \in Noting
           /\ r.pc = "idle" => r = Idle
           /\ r.pc \in {"idle", "note"} \cup UpdatePc \cup CallPc \cup FinishPc
<1>1. CASE r = Idle
  BY <1>1 DEF Idle, UpdatePc, CallPc, FinishPc
<1>2. CASE r \in Updating
  BY <1>2 DEF Updating, UpdatePc, CallPc, FinishPc
<1>3. CASE r \in Calling
  BY <1>3 DEF Calling, UpdatePc, CallPc, FinishPc
<1>4. CASE r \in Finishing
  BY <1>4 DEF Finishing, UpdatePc, CallPc, FinishPc
<1>5. CASE r \in Noting
  BY <1>5 DEF Noting, UpdatePc, CallPc, FinishPc
<1> QED BY <1>1, <1>2, <1>3, <1>4, <1>5 DEF Task

LEMMA IdlePc == Idle.pc = "idle"
BY DEF Idle

\* A call that goes on to the next place of its kind keeps what it holds.
LEMMA Moves ==
    ASSUME NEW r \in Task, NEW pc
    PROVE  LET n == [r EXCEPT !.pc = pc]
           IN  /\ r.pc \in UpdatePc /\ pc \in UpdatePc =>
                     n \in Task /\ n.pc = pc /\ n.req = r.req /\ n.prev = r.prev
               /\ r.pc \in CallPc /\ pc \in CallPc => n \in Task /\ n.pc = pc /\ n.req = r.req
               /\ r.pc \in FinishPc /\ pc \in FinishPc => n \in Task /\ n.pc = pc /\ n.req = r.req
<1>1. CASE r.pc \in UpdatePc /\ pc \in UpdatePc
  <2>1. r \in Updating
    BY <1>1, Kinds
  <2>2. [r EXCEPT !.pc = pc] \in Updating
    BY <1>1, <2>1 DEF Updating
  <2> QED BY <1>1, <2>1, <2>2 DEF Task, Updating, UpdatePc, CallPc, FinishPc
<1>2. CASE r.pc \in CallPc /\ pc \in CallPc
  <2>1. r \in Calling
    BY <1>2, Kinds
  <2> QED BY <1>2, <2>1 DEF Task, Calling, UpdatePc, CallPc, FinishPc
<1>3. CASE r.pc \in FinishPc /\ pc \in FinishPc
  <2>1. r \in Finishing
    BY <1>3, Kinds
  <2> QED BY <1>3, <2>1 DEF Task, Finishing, UpdatePc, CallPc, FinishPc
<1> QED BY <1>1, <1>2, <1>3

\* The requests of a log with one more entry.
LEMMA Appended ==
    ASSUME NEW s \in Seq(Logged), NEW e \in Logged
    PROVE  /\ Append(s, e) \in Seq(Logged)
           /\ {Append(s, e)[i].req : i \in DOMAIN Append(s, e)}
                = {s[i].req : i \in DOMAIN s} \cup {e.req}
<1> DEFINE a == Append(s, e)
<1>1. a \in Seq(Logged) /\ Len(a) = Len(s) + 1 /\ Len(s) \in Nat
  OBVIOUS
<1>2. a[Len(s) + 1] = e /\ \A i \in 1..Len(s) : a[i] = s[i]
  OBVIOUS
<1>3. DOMAIN a = 1..Len(s) + 1 /\ DOMAIN s = 1..Len(s)
  BY <1>1
<1> HIDE DEF a
<1>4. DOMAIN a = DOMAIN s \cup {Len(s) + 1}
  BY <1>1, <1>3
<1> QED BY <1>1, <1>2, <1>3, <1>4 DEF a

\* A call that goes on, returns or stops leaves the other calls alone.
LEMMA Going ==
    ASSUME Types, NEW t \in Tasks, NEW pc, Goto(t, pc),
           \/ task[t].pc \in UpdatePc /\ pc \in UpdatePc
           \/ task[t].pc \in CallPc /\ pc \in CallPc
           \/ task[t].pc \in FinishPc /\ pc \in FinishPc
    PROVE  /\ task' \in [Tasks -> Task]
           /\ task'[t].pc = pc /\ task'[t].req = task[t].req
           /\ task[t].pc \in UpdatePc => task'[t].prev = task[t].prev
           /\ \A s \in Tasks : s # t => task'[s] = task[s]
<1>1. task[t] \in Task
  BY DEF Types
<1>2. task' = [task EXCEPT ![t] = [task[t] EXCEPT !.pc = pc]]
  BY DEF Goto
<1>3. [task[t] EXCEPT !.pc = pc] \in Task
  BY <1>1, Moves
<1> QED BY <1>1, <1>2, <1>3, Moves DEF Types

LEMMA Returning ==
    ASSUME Types, NEW t \in Tasks, NEW v \in {"error", "pending", "unknown", "document"},
           task[t].pc # "idle", Return(t, v)
    PROVE  /\ task' \in [Tasks -> Task] /\ task'[t] = Idle
           /\ \A s \in Tasks : s # t => task'[s] = task[s]
           /\ task[t].req \in Requests /\ result'[task[t].req] = v
           /\ result' \in [Requests -> {"none", "error", "pending", "unknown", "document"}]
           /\ \A r \in Requests : r # task[t].req => result'[r] = result[r]
<1>1. task[t] \in Task /\ Idle \in Task
  BY DEF Types, Task
<1>2. task[t].req \in Requests
  BY <1>1, Kinds DEF Updating, Calling, Finishing, Noting
<1> QED BY <1>1, <1>2 DEF Return, Types

\* Every step keeps the types; a log is there to be updated (EntryInv).
LEMMA TypesStep ==
    ASSUME Types, EntryInv, [Next]_vars
    PROVE  Types'
<1>0. \A t \in Tasks : task[t] \in Task
  BY DEF Types
<1>1. ASSUME NEW t \in Tasks, NEW r \in Requests, Create(t, r)
      PROVE  Types'
  <2>1. keys' \in Nat /\ wallet' \in Bound
    BY <1>1 DEF Create, Bound
  <2>2. entry' \in [Requests -> {None} \cup Entry]
    BY <1>1, <2>1 DEF Create, Types, Entry, Bound
  <2>3. task' \in [Tasks -> Task]
    BY <1>1 DEF Create, Types, Task, Calling, CallPc
  <2> QED BY <1>1, <2>1, <2>2, <2>3 DEF Create, Types, outside
<1>2. ASSUME NEW t \in Tasks, NEW r \in Requests, Approve(t, r)
      PROVE  Types'
  BY <1>2 DEF Approve, Types, Task, Finishing, FinishPc
<1>3. ASSUME NEW t \in Tasks, NEW r \in Requests, NEW last \in BOOLEAN, StartUpdate(t, r, last)
      PROVE  Types'
  <2>1. log # <<>>
    BY <1>3 DEF StartUpdate, EntryInv
  <2>2. Last \in Logged /\ Len(log) + 1 \in Nat \ {0}
    BY <2>1 DEF Last, Types
  <2>3. task' \in [Tasks -> Task]
    BY <1>3, <2>2 DEF StartUpdate, Types, Task, Updating, UpdatePc, Logged
  <2> QED BY <1>3, <2>3 DEF StartUpdate, Types, outside
<1>4. ASSUME NEW t \in Tasks, FindKeys(t)
      PROVE  Types'
  <2>1. CASE wallet.update = 0
    BY <1>4, <2>1, Returning DEF FindKeys, Types, outside
  <2>2. CASE wallet.update # 0
    <3>1. task[t] \in Updating
      BY <1>0, <1>4, Kinds DEF FindKeys, UpdatePc
    <3>2. task' = [task EXCEPT ![t] = [task[t] EXCEPT !.pc = "unbind update", !.prev = wallet]]
      BY <1>4, <2>2, <1>0, Zenon DEF FindKeys, Types
    <3>3. [task[t] EXCEPT !.pc = "unbind update", !.prev = wallet] \in Updating
      BY <3>1 DEF Updating, UpdatePc, Types
    <3>4. task' \in [Tasks -> Task]
      BY <3>2, <3>3 DEF Types, Task
    <3> QED BY <1>4, <2>2, <3>4 DEF FindKeys, Types, outside
  <2> QED BY <2>1, <2>2
<1>5. ASSUME NEW t \in Tasks, UnbindUpdate(t) \/ UnbindNext(t)
      PROVE  Types'
  <2>1. task' \in [Tasks -> Task]
    BY <1>5, Going DEF UnbindUpdate, UnbindNext, Unbind, UpdatePc
  <2>2. wallet' \in Bound
    <3>1. CASE UnbindUpdate(t)
      BY <3>1 DEF UnbindUpdate, Unbind, Types, Bound
    <3>2. CASE UnbindNext(t)
      BY <3>2 DEF UnbindNext, Unbind, Types, Bound
    <3> QED BY <1>5, <3>1, <3>2
  <2> QED BY <1>5, <2>1, <2>2 DEF UnbindUpdate, UnbindNext, Unbind, Types, outside
<1>6. ASSUME NEW t \in Tasks, BindUpdate(t)
      PROVE  Types'
  <2>1. task[t] \in Updating
    BY <1>0, <1>6, Kinds DEF BindUpdate, UpdatePc
  <2>2. CASE wallet.update # 0 \/ task[t].prev.next = 0
    BY <1>6, <2>2, Returning DEF BindUpdate, Types, outside
  <2>3. CASE ~(wallet.update # 0 \/ task[t].prev.next = 0)
    <3>1. task' \in [Tasks -> Task]
      BY <1>6, <2>3, Going DEF BindUpdate, UpdatePc
    <3> QED BY <1>6, <2>1, <2>3, <3>1 DEF BindUpdate, Types, Bound, Updating, outside
  <2> QED BY <2>2, <2>3
<1>7. ASSUME NEW t \in Tasks, BindNext(t)
      PROVE  Types'
  <2>1. task[t] \in Updating
    BY <1>0, <1>7, Kinds DEF BindNext, UpdatePc
  <2>2. CASE wallet.next # 0
    BY <1>7, <2>2, Returning DEF BindNext, Types, outside
  <2>3. CASE wallet.next = 0
    <3>1. keys' \in Nat /\ wallet' \in Bound
      <4>1. keys' = keys + 1
        BY <1>7, <2>3 DEF BindNext
      <4>2. wallet' = [wallet EXCEPT !.next = keys']
        BY <1>7, <2>3, Zenon DEF BindNext
      <4> QED BY <4>1, <4>2 DEF Types, Bound
    <3>2. task' = [task EXCEPT ![t] = [task[t] EXCEPT !.pc = "sign", !.next = keys']]
      BY <1>7, <2>3, <1>0, Zenon DEF BindNext, Types
    <3>3. [task[t] EXCEPT !.pc = "sign", !.next = keys'] \in Updating
      BY <2>1, <3>1 DEF Updating, UpdatePc
    <3>4. task' \in [Tasks -> Task]
      BY <3>2, <3>3 DEF Types, Task
    <3> QED BY <1>7, <2>3, <3>1, <3>4 DEF BindNext, Types, outside
  <2> QED BY <2>2, <2>3
<1>8. ASSUME NEW t \in Tasks, Sign(t)
      PROVE  Types'
  <2>1. task[t] \in Updating
    BY <1>0, <1>8, Kinds DEF Sign, UpdatePc
  <2>2. CASE wallet.update = 0
    BY <1>8, <2>2, Returning DEF Sign, Types, outside
  <2>3. CASE wallet.update # 0
    <3>1. entry' \in [Requests -> {None} \cup Entry]
      BY <1>8, <2>1, <2>3 DEF Sign, Types, Updating, Entry, Bound
    <3>2. task' \in [Tasks -> Task]
      <4>1. [pc |-> "stream", req |-> task[t].req] \in Task
        BY <2>1 DEF Updating, Task, Calling, CallPc
      <4> QED BY <1>8, <2>3, <4>1 DEF Sign, Types
    <3> QED BY <1>8, <2>3, <3>1, <3>2 DEF Sign, Types, outside
  <2> QED BY <2>2, <2>3
<1>9. ASSUME NEW t \in Tasks, Streamline(t)
      PROVE  Types'
  <2>1. task[t] \in Calling
    BY <1>0, <1>9, Kinds DEF Streamline, CallPc
  <2>2. CASE entry[task[t].req].version # Len(log) + 1
    BY <1>9, <2>2, Returning DEF Streamline, Types
  <2>3. CASE entry[task[t].req].version = Len(log) + 1
    <3>1. [pc |-> "submit", req |-> task[t].req, waits |-> FALSE] \in Task
      BY <2>1 DEF Task, Calling, Finishing, FinishPc
    <3>2. [task[t] EXCEPT !.pc = "ask"] \in Task
      BY <1>0, <1>9, Moves DEF Streamline, CallPc
    <3>3. task' \in [Tasks -> Task] /\ attested' \subseteq Requests
      BY <1>9, <2>1, <2>3, <3>1, <3>2 DEF Streamline, Types, Calling
    <3> QED BY <1>9, <2>3, <3>3 DEF Streamline, Types
  <2> QED BY <2>2, <2>3
<1>10. ASSUME NEW t \in Tasks, Ask(t)
       PROVE  Types'
  <2>1. task[t] \in Calling
    BY <1>0, <1>10, Kinds DEF Ask, CallPc
  <2>2. CASE Goto(t, "save")
    <3>1. task' \in [Tasks -> Task]
      BY <1>10, <2>2, Going DEF Ask, CallPc
    <3> QED BY <1>10, <2>1, <2>2, <3>1, Returning DEF Ask, Types, Calling, States
  <2>3. CASE Return(t, "error") /\ UNCHANGED <<toWitness, pending>>
    BY <1>10, <2>3, Returning DEF Ask, Types
  <2> QED BY <1>10, <2>2, <2>3 DEF Ask
<1>11. ASSUME NEW t \in Tasks, SavePending(t)
       PROVE  Types'
  <2>1. pending' \in [Requests -> {NoRecord} \cup States]
    BY <1>11 DEF SavePending, Types, States
  <2>2. CASE Mode = "self"
    BY <1>11, <2>1, <2>2, Returning DEF SavePending, Types, outside
  <2>3. CASE Mode # "self"
    <3>1. task' \in [Tasks -> Task]
      BY <1>11, <2>3, Going DEF SavePending, CallPc
    <3> QED BY <1>11, <2>1, <2>3, <3>1 DEF SavePending, Types, outside
  <2> QED BY <2>2, <2>3
<1>12. ASSUME NEW t \in Tasks, TimeOut(t)
       PROVE  Types'
  <2>1. CASE pending[task[t].req] = NoRecord
    BY <1>12, <2>1, Returning DEF TimeOut, Types, outside
  <2>2. CASE pending[task[t].req] # NoRecord
    <3>1. task' \in [Tasks -> Task]
      BY <1>12, <2>2, Going DEF TimeOut, CallPc
    <3> QED BY <1>12, <2>2, <3>1 DEF TimeOut, Types, outside
  <2> QED BY <2>1, <2>2
<1>13. ASSUME NEW t \in Tasks, MarkPending(t)
       PROVE  Types'
  <2>1. pending' \in [Requests -> {NoRecord} \cup States]
    BY <1>13 DEF MarkPending, Replaced, Types, States
  <2> QED BY <1>13, <2>1, Returning DEF MarkPending, Types, outside
<1>14. ASSUME NEW t \in Tasks, Wake(t)
       PROVE  Types'
  <2>1. pending' \in [Requests -> {NoRecord} \cup States]
    BY <1>14 DEF Wake, Types
  <2> QED BY <1>14, <2>1, Returning DEF Wake, Types, outside
<1>15. ASSUME NEW t \in Tasks, Submit(t)
       PROVE  Types'
  <2> DEFINE r == task[t].req
             e == [req |-> r, auth |-> entry[r].auth, next |-> entry[r].next, last |-> entry[r].last]
  <2>1. r \in Requests /\ entry[r] # None
    BY <1>0, <1>15, Kinds DEF Submit, FinishPc, Finishing, EntryInv, Made, Known
  <2>2. e \in Logged
    BY <2>1 DEF Types, Entry, Logged
  <2>3. log' \in Seq(Logged)
    <3>1. log' = Append(log, e) \/ log' = log
      BY <1>15 DEF Submit
    <3> QED BY <2>2, <3>1, Appended DEF Types
  <2>4. CASE Goto(t, "local") /\ UNCHANGED result
    <3>1. task' \in [Tasks -> Task]
      BY <1>15, <2>4, Going DEF Submit, FinishPc
    <3> QED BY <1>15, <2>3, <2>4, <3>1 DEF Submit, Types, outside
  <2>5. CASE Fail(t)
    <3>1. task' \in [Tasks -> Task]
      BY <2>5 DEF Fail, Types, Task
    <3>2. result' \in [Requests -> {"none", "error", "pending", "unknown", "document"}]
      BY <2>1, <2>5 DEF Fail, Types
    <3> QED BY <1>15, <2>3, <3>1, <3>2 DEF Submit, Types, outside
  <2> QED BY <1>15, <2>4, <2>5 DEF Submit
<1>16. ASSUME NEW t \in Tasks, SaveLocal(t)
       PROVE  Types'
  <2>1. task' \in [Tasks -> Task]
    BY <1>16, Going DEF SaveLocal, FinishPc
  <2> QED BY <1>16, <2>1 DEF SaveLocal, Types, outside
<1>17. ASSUME NEW t \in Tasks, AddScid(t)
       PROVE  Types'
  <2>1. task' \in [Tasks -> Task]
    BY <1>17, Going DEF AddScid, FinishPc
  <2> QED BY <1>17, <2>1 DEF AddScid, Types, outside
<1>18. ASSUME NEW t \in Tasks, Notify(t)
       PROVE  Types'
  <2>1. CASE task[t].waits
    <3>1. [task[t] EXCEPT !.pc = "remove"] \in Task
      BY <1>0, <1>18, Moves DEF Notify, FinishPc
    <3>2. \A s \in Tasks : task[s].pc = "wait" => [task[s] EXCEPT !.pc = "woken"] \in Task
      BY <1>0, Moves DEF CallPc
    <3>3. task' \in [Tasks -> Task]
      BY <1>0, <1>18, <2>1, <3>1, <3>2 DEF Notify
    <3> QED BY <1>18, <2>1, <3>3 DEF Notify, Types, outside
  <2>2. CASE ~task[t].waits
    BY <1>18, <2>2, Returning DEF Notify, Types, outside
  <2> QED BY <2>1, <2>2
<1>19. ASSUME NEW t \in Tasks, Remove(t) \/ Release(t)
       PROVE  Types'
  BY <1>19 DEF Remove, Release, Types, Task
<1>20. ASSUME NEW t \in Tasks, SendAnswer(t)
       PROVE  Types'
  <2>1. task[t].req \in Requests
    BY <1>0, <1>20, Kinds DEF SendAnswer, FinishPc, Finishing
  <2>2. CASE Goto(t, "release")
    <3>1. task' \in [Tasks -> Task]
      BY <1>20, <2>2, Going DEF SendAnswer, FinishPc
    <3> QED BY <1>20, <2>1, <3>1 DEF SendAnswer, Say, Types, Message, States
  <2>3. CASE task' = Unsent(t) /\ UNCHANGED <<toController, told>>
    BY <1>20, <2>3 DEF SendAnswer, Unsent, Types, Task
  <2> QED BY <1>20, <2>2, <2>3 DEF SendAnswer
<1>21. ASSUME NEW t \in Tasks, NEW m \in toController, ReceiveResponse(t, m)
       PROVE  Types'
  <2>1. m \in Message
    BY DEF Types
  <2>2. task' \in [Tasks -> Task]
    BY <1>21, <2>1 DEF ReceiveResponse, Types, Task, Noting, Message
  <2> QED BY <1>21, <2>2 DEF ReceiveResponse, Types
<1>22. ASSUME NEW t \in Tasks, NoteState(t)
       PROVE  Types'
  <2>1. task[t] \in Noting
    BY <1>0, <1>22, Kinds DEF NoteState, Follows
  <2>2. pending' \in [Requests -> {NoRecord} \cup States]
    BY <1>22, <2>1 DEF NoteState, Follows, Noting, Replaced, Types
  <2>3. task' \in [Tasks -> Task]
    BY <1>22, <2>1 DEF NoteState, Follows, Noting, Handling, States, Types, Task, Finishing, FinishPc
  <2> QED BY <1>22, <2>2, <2>3 DEF NoteState, Follows, Types, outside
<1>23. ASSUME NEW r \in Requests, ReceiveRequest(r)
       PROVE  Types'
  BY <1>23 DEF ReceiveRequest, Say, Types, Message, States
<1>24. ASSUME NEW r \in Requests, Reject(r) \/ Withdraw(r)
       PROVE  Types'
  <2>1. CASE Reject(r)
    BY <2>1 DEF Reject, Say, Types, Message, States
  <2>2. CASE Withdraw(r)
    BY <2>2 DEF Withdraw, Types, outside
  <2> QED BY <1>24, <2>1, <2>2
<1>25. CASE UNCHANGED vars
  BY <1>25 DEF vars, Types
<1> QED
  BY <1>1, <1>2, <1>3, <1>4, <1>5, <1>6, <1>7, <1>8, <1>9, <1>10, <1>11, <1>12, <1>13,
     <1>14, <1>15, <1>16, <1>17, <1>18, <1>19, <1>20, <1>21, <1>22, <1>23, <1>24, <1>25
     DEF Next

-----------------------------------------------------------------------------
(***************************************************************************)
(* The steps up to the signature of an entry, and those that follow it.    *)
(***************************************************************************)
Prepares ==
    \E t \in Tasks :
       \/ \E r \in Requests : Create(t, r) \/ \E last \in BOOLEAN : StartUpdate(t, r, last)
       \/ FindKeys(t) \/ UnbindUpdate(t) \/ BindUpdate(t) \/ UnbindNext(t) \/ BindNext(t)
       \/ Sign(t)
Completes ==
    \/ \E t \in Tasks :
          \/ \E r \in Requests : Approve(t, r)
          \/ Streamline(t) \/ Ask(t) \/ SavePending(t) \/ TimeOut(t)
          \/ MarkPending(t) \/ Wake(t) \/ Submit(t) \/ SaveLocal(t) \/ AddScid(t)
          \/ Notify(t) \/ Remove(t) \/ SendAnswer(t) \/ Release(t)
          \/ \E m \in toController : ReceiveResponse(t, m)
          \/ NoteState(t)
    \/ \E r \in Requests : ReceiveRequest(r) \/ Reject(r) \/ Withdraw(r)
LEMMA TwoParts == Next <=> Prepares \/ Completes
BY DEF Next, Prepares, Completes

\* What a step up to the signature leaves alone.
LEMMA Preparing ==
    ASSUME Types, Prepares
    PROVE  /\ UNCHANGED <<log, local, pending, outside, submitted>>
           /\ \A s \in Tasks : \/ task'[s] = task[s]
                              \/ task'[s].pc \in UpdatePc \cup {"stream", "idle"}
           /\ \A r \in Requests : result'[r] = "document" => result[r] = "document"
<1>0. \A t \in Tasks : task[t] \in Task
  BY DEF Types
<1> DEFINE Goal == /\ UNCHANGED <<log, local, pending, outside, submitted>>
                   /\ \A s \in Tasks : \/ task'[s] = task[s]
                                      \/ task'[s].pc \in UpdatePc \cup {"stream", "idle"}
                   /\ \A r \in Requests : result'[r] = "document" => result[r] = "document"
<1>r. ASSUME NEW t \in Tasks, task[t].pc # "idle", Return(t, "error"),
             UNCHANGED <<log, local, pending, outside, submitted>>
      PROVE  Goal
  <2>1. task'[t].pc = "idle" /\ \A s \in Tasks : s # t => task'[s] = task[s]
    BY <1>r, Returning DEF Idle
  <2>2. \A r \in Requests : result'[r] = "document" => result[r] = "document"
    BY <1>r, Returning
  <2> QED BY <1>r, <2>1, <2>2
<1>1. ASSUME NEW t \in Tasks, NEW r \in Requests, Create(t, r)
      PROVE  Goal
  BY <1>1 DEF Create, Types
<1>2. ASSUME NEW t \in Tasks, NEW r \in Requests, NEW last \in BOOLEAN, StartUpdate(t, r, last)
      PROVE  Goal
  BY <1>2 DEF StartUpdate, Types, UpdatePc
<1>3. ASSUME NEW t \in Tasks, FindKeys(t)
      PROVE  Goal
  <2>1. CASE Return(t, "error")
    BY <1>3, <1>r, <2>1 DEF FindKeys
  <2>2. CASE task' = [task EXCEPT ![t].pc = "unbind update", ![t].prev = wallet]
             /\ UNCHANGED result
    <3>1. task[t] \in Updating
      BY <1>0, <1>3, Kinds DEF FindKeys, UpdatePc
    <3>2. task'[t].pc = "unbind update" /\ \A s \in Tasks : s # t => task'[s] = task[s]
      BY <2>2, <3>1 DEF Types, Updating
    <3> QED BY <1>3, <2>2, <3>2 DEF FindKeys, UpdatePc
  <2> QED BY <1>3, <2>1, <2>2 DEF FindKeys
<1>4. ASSUME NEW t \in Tasks, UnbindUpdate(t) \/ UnbindNext(t)
      PROVE  Goal
  <2>1. PICK pc \in UpdatePc : Goto(t, pc)
    BY <1>4 DEF UnbindUpdate, UnbindNext, Unbind, UpdatePc
  <2>2. task[t].pc \in UpdatePc /\ UNCHANGED <<log, local, pending, outside, submitted, result>>
    BY <1>4 DEF UnbindUpdate, UnbindNext, Unbind, UpdatePc
  <2> QED BY <2>1, <2>2, Going
<1>5. ASSUME NEW t \in Tasks, BindUpdate(t)
      PROVE  Goal
  <2>1. CASE Return(t, "error")
    BY <1>5, <1>r, <2>1 DEF BindUpdate
  <2>2. CASE Goto(t, "unbind next") /\ UNCHANGED result
    <3>1. task[t].pc \in UpdatePc /\ "unbind next" \in UpdatePc
      BY <1>5 DEF BindUpdate, UpdatePc
    <3>2. /\ task'[t].pc = "unbind next"
          /\ \A x \in Tasks : x # t => task'[x] = task[x]
      BY <2>2, <3>1, Going
    <3> QED BY <1>5, <2>2, <3>1, <3>2 DEF BindUpdate
  <2> QED BY <1>5, <2>1, <2>2 DEF BindUpdate
<1>6. ASSUME NEW t \in Tasks, BindNext(t)
      PROVE  Goal
  <2>1. CASE Return(t, "error")
    BY <1>6, <1>r, <2>1 DEF BindNext
  <2>2. CASE task' = [task EXCEPT ![t].pc = "sign", ![t].next = keys'] /\ UNCHANGED result
    <3>1. task[t] \in Updating
      BY <1>0, <1>6, Kinds DEF BindNext, UpdatePc
    <3>2. task'[t].pc = "sign" /\ \A s \in Tasks : s # t => task'[s] = task[s]
      BY <2>2, <3>1 DEF Types, Updating
    <3> QED BY <1>6, <2>2, <3>2 DEF BindNext, UpdatePc
  <2> QED BY <1>6, <2>1, <2>2 DEF BindNext
<1>7. ASSUME NEW t \in Tasks, Sign(t)
      PROVE  Goal
  <2>1. CASE Return(t, "error")
    BY <1>7, <1>r, <2>1 DEF Sign
  <2>2. CASE task' = [task EXCEPT ![t] = [pc |-> "stream", req |-> task[t].req]]
             /\ UNCHANGED result
    BY <1>7, <2>2 DEF Sign, Types
  <2> QED BY <1>7, <2>1, <2>2 DEF Sign
<1> QED BY <1>1, <1>2, <1>3, <1>4, <1>5, <1>6, <1>7 DEF Prepares

\* What a step after the signature leaves alone: a call it touches is about an
\* entry that is made.
LEMMA Completing ==
    ASSUME Types, EntryInv, Completes
    PROVE  /\ UNCHANGED <<entry, keys, wallet>>
           /\ \A s \in Tasks :
                 \/ task'[s] = task[s]
                 \/ task'[s].pc = "idle"
                 \/ task'[s].pc \in CallPc \cup FinishPc \cup {"note"} /\ task'[s].req \in Known
<1>0. \A t \in Tasks : task[t] \in Task /\ Made(task[t], Known)
  BY DEF Types, EntryInv
<1> DEFINE Fine(s) == \/ task'[s] = task[s]
                      \/ task'[s].pc = "idle"
                      \/ /\ task'[s].pc \in CallPc \cup FinishPc \cup {"note"}
                         /\ task'[s].req \in Known
           Goal == UNCHANGED <<entry, keys, wallet>> /\ \A s \in Tasks : Fine(s)
<1>1. ASSUME NEW t \in Tasks, NEW pc \in CallPc \cup FinishPc, Goto(t, pc),
             \/ task[t].pc \in CallPc /\ pc \in CallPc
             \/ task[t].pc \in FinishPc /\ pc \in FinishPc
      PROVE  \A s \in Tasks : Fine(s)
  BY <1>0, <1>1, Going DEF Made
<1>2. ASSUME NEW t \in Tasks, NEW v \in {"error", "pending", "unknown", "document"},
             task[t].pc # "idle", Return(t, v)
      PROVE  \A s \in Tasks : Fine(s)
  BY <1>2, Returning DEF Idle
<1>3. ASSUME NEW t \in Tasks, task' = [task EXCEPT ![t] = Idle]
      PROVE  \A s \in Tasks : Fine(s)
  BY <1>3 DEF Idle, Types
<1>4. ASSUME NEW t \in Tasks, NEW r \in Requests, Approve(t, r)
      PROVE  Goal
  <2>1. r \in Known
    BY <1>4 DEF Approve, Approvable, EntryInv
  <2> QED BY <1>4, <2>1 DEF Approve, Types, FinishPc
<1>5. ASSUME NEW t \in Tasks, Streamline(t)
      PROVE  Goal
  <2>1. UNCHANGED <<entry, keys, wallet>> /\ task[t].pc = "stream"
    BY <1>5 DEF Streamline
  <2>2. task[t].req \in Known
    BY <1>0, <2>1 DEF Made, CallPc
  <2>3. CASE Return(t, "error")
    BY <1>2, <2>1, <2>3
  <2>4. CASE task' = [task EXCEPT ![t] = [pc |-> "submit", req |-> task[t].req, waits |-> FALSE]]
    BY <2>1, <2>2, <2>4 DEF Types, FinishPc
  <2>5. CASE Goto(t, "ask")
    BY <1>1, <2>1, <2>5 DEF CallPc
  <2> QED BY <1>5, <2>1, <2>3, <2>4, <2>5 DEF Streamline, Goto, Types
<1>6. ASSUME NEW t \in Tasks, Ask(t) \/ SavePending(t) \/ TimeOut(t) \/ MarkPending(t) \/ Wake(t)
      PROVE  Goal
  <2>1. UNCHANGED <<entry, keys, wallet>> /\ task[t].pc \in CallPc /\ task[t].pc # "idle"
    BY <1>6 DEF Ask, SavePending, TimeOut, MarkPending, Wake, CallPc
  <2>2. \/ \E v \in {"error", "pending", "unknown", "document"} : Return(t, v)
        \/ \E pc \in CallPc : Goto(t, pc)
    BY <1>6 DEF Ask, SavePending, TimeOut, MarkPending, Wake, CallPc
  <2> QED BY <1>1, <1>2, <2>1, <2>2
<1>7. ASSUME NEW t \in Tasks, Submit(t) \/ SaveLocal(t) \/ AddScid(t) \/ SendAnswer(t)
      PROVE  Goal
  <2>1. UNCHANGED <<entry, keys, wallet>> /\ task[t].pc \in FinishPc
    BY <1>7 DEF Submit, SaveLocal, AddScid, SendAnswer, FinishPc
  <2>2. \/ task' = [task EXCEPT ![t] = Idle]
        \/ \E pc \in FinishPc : Goto(t, pc)
    BY <1>7 DEF Submit, SaveLocal, AddScid, SendAnswer, Fail, Unsent, FinishPc
  <2> QED BY <1>1, <1>3, <2>1, <2>2
<1>8. ASSUME NEW t \in Tasks, Notify(t)
      PROVE  Goal
  <2>1. UNCHANGED <<entry, keys, wallet>> /\ task[t].pc = "notify"
    BY <1>8 DEF Notify
  <2>2. CASE Return(t, "document")
    BY <1>2, <2>1, <2>2
  <2>3. CASE task[t].waits
    <3>1. ASSUME NEW s \in Tasks
          PROVE  Fine(s)
      <4>1. CASE s = t
        <5>1. task'[s] = [task[t] EXCEPT !.pc = "remove"]
          BY <1>8, <2>3, <4>1 DEF Notify
        <5> QED BY <5>1, <1>0, <2>1, Moves DEF Made, FinishPc
      <4>2. CASE s # t /\ task[s].pc = "wait" /\ task[s].req = task[t].req /\ Mode = "agent"
        <5>1. task'[s] = [task[s] EXCEPT !.pc = "woken"]
          BY <1>8, <2>3, <4>2 DEF Notify
        <5>2. task[s].pc \in CallPc /\ "woken" \in CallPc
          BY <4>2 DEF CallPc
        <5>3. task'[s].pc = "woken" /\ task'[s].req = task[s].req
          BY <5>1, <5>2, <1>0, Moves
        <5>4. task[s].req \in Known
          BY <5>2, <1>0 DEF Made
        <5> QED BY <5>2, <5>3, <5>4
      <4>3. CASE s # t /\ ~(task[s].pc = "wait" /\ task[s].req = task[t].req /\ Mode = "agent")
        BY <1>8, <2>3, <4>3 DEF Notify
      <4> QED BY <4>1, <4>2, <4>3
    <3> QED BY <2>1, <3>1
  <2> QED BY <1>8, <2>2, <2>3 DEF Notify
<1>9. ASSUME NEW t \in Tasks, Remove(t) \/ Release(t)
      PROVE  Goal
  BY <1>3, <1>9 DEF Remove, Release
<1>10. ASSUME NEW t \in Tasks, NEW m \in toController, ReceiveResponse(t, m)
       PROVE  Goal
  <2>1. m.req \in Known
    BY DEF EntryInv
  <2> QED BY <1>10, <2>1 DEF ReceiveResponse, Types
<1>11. ASSUME NEW t \in Tasks, NoteState(t)
       PROVE  Goal
  <2>1. UNCHANGED <<entry, keys, wallet>> /\ task[t].pc = "note" /\ task[t] \in Noting
    BY <1>0, <1>11, Kinds DEF NoteState, Follows
  <2>2. task[t].req \in Known
    BY <1>0, <2>1 DEF Made
  <2>3. Handling(task[t].state) \in {"idle", "remove", "submit"}
    BY <2>1 DEF Noting, States, Handling
  <2> QED BY <1>3, <1>11, <2>1, <2>2, <2>3 DEF NoteState, Follows, Types, FinishPc, Idle
<1>12. ASSUME NEW r \in Requests, ReceiveRequest(r) \/ Reject(r) \/ Withdraw(r)
       PROVE  Goal
  BY <1>12 DEF ReceiveRequest, Reject, Withdraw
<1> QED
  BY <1>4, <1>5, <1>6, <1>7, <1>8, <1>9, <1>10, <1>11, <1>12 DEF Completes

-----------------------------------------------------------------------------
(***************************************************************************)
(* The keys of the wallet, and the entries.                                *)
(***************************************************************************)

\* When the DID is created nothing is under way and nothing was published.
LEMMA Fresh ==
    ASSUME Types, EntryInv, \A q \in Requests : entry[q] = None
    PROVE  Known = {} /\ log = <<>> /\ \A s \in Tasks : task[s] = Idle
<1>1. Known = {}
  BY DEF Known
<1>2. log = <<>>
  <2>1. SUFFICES ASSUME log # <<>> PROVE FALSE
    OBVIOUS
  <2>2. 1 \in DOMAIN log /\ log[1] \in Logged
    BY <2>1 DEF Types
  <2>3. entry[log[1].req].version = 1 /\ log[1].req \in Requests
    BY <2>2 DEF EntryInv, Logged
  <2> QED BY <2>3 DEF None
<1>3. \A s \in Tasks : task[s].pc \notin UpdatePc /\ task[s] \in Task /\ Made(task[s], Known)
  BY <1>2 DEF EntryInv, Types
<1> QED BY <1>1, <1>2, <1>3, Kinds DEF Made

LEMMA KeysStep ==
    ASSUME Types, KeysInv, EntryInv, Next
    PROVE  KeysInv'
<1>0. /\ \A t \in Tasks : task[t] \in Task
      /\ wallet.update \in Nat /\ wallet.next \in Nat /\ keys \in Nat
  BY DEF Types, Bound
<1> DEFINE Kept == \A s \in Tasks : task'[s] = task[s] \/ task'[s].pc \notin UpdatePc
<1>k. ASSUME Kept, UNCHANGED <<keys, wallet>>
      PROVE  KeysInv'
  BY <1>k DEF KeysInv, KeysMade
<1>r. ASSUME NEW t \in Tasks, task[t].pc # "idle", Return(t, "error")
      PROVE  Kept
  <2>1. task'[t].pc = "idle" /\ \A s \in Tasks : s # t => task'[s] = task[s]
    BY <1>r, Returning DEF Idle
  <2> QED BY <2>1 DEF UpdatePc
<1>1. ASSUME NEW t \in Tasks, NEW r \in Requests, Create(t, r)
      PROVE  KeysInv'
  <2>1. \A s \in Tasks : task[s] = Idle
    BY <1>1, Fresh DEF Create
  <2>2. \A s \in Tasks : task'[s].pc \notin UpdatePc
    <3>1. task' = [task EXCEPT ![t] = [pc |-> "stream", req |-> r]]
      BY <1>1 DEF Create
    <3>2. task'[t].pc = "stream" /\ \A s \in Tasks : s # t => task'[s] = Idle
      BY <2>1, <3>1 DEF Types
    <3> QED BY <3>2, IdlePc DEF UpdatePc
  <2>3. wallet'.update <= keys' /\ wallet'.next <= keys'
    BY <1>1 DEF Create
  <2> QED BY <2>2, <2>3 DEF KeysInv, KeysMade
<1>2. ASSUME NEW t \in Tasks, NEW r \in Requests, NEW last \in BOOLEAN, StartUpdate(t, r, last)
      PROVE  KeysInv'
  <2>1. UNCHANGED <<keys, wallet>> /\ task'[t].prev = wallet
    BY <1>2 DEF StartUpdate, Types
  <2>2. \A s \in Tasks : s # t => task'[s] = task[s]
    BY <1>2 DEF StartUpdate, Types
  <2> QED BY <2>1, <2>2 DEF KeysInv, KeysMade
<1>3. ASSUME NEW t \in Tasks, FindKeys(t)
      PROVE  KeysInv'
  <2>1. task[t] \in Updating /\ UNCHANGED <<keys, wallet>> /\ task[t].pc # "idle"
    BY <1>0, <1>3, Kinds DEF FindKeys, UpdatePc
  <2>2. CASE Return(t, "error")
    BY <1>k, <1>r, <2>1, <2>2
  <2>3. CASE task' = [task EXCEPT ![t].pc = "unbind update", ![t].prev = wallet]
    <3>1. task'[t].prev = wallet /\ \A s \in Tasks : s # t => task'[s] = task[s]
      BY <2>1, <2>3 DEF Types, Updating
    <3> QED BY <2>1, <3>1 DEF KeysInv, KeysMade
  <2> QED BY <1>3, <2>2, <2>3 DEF FindKeys
<1>4. ASSUME NEW t \in Tasks, UnbindUpdate(t) \/ UnbindNext(t)
      PROVE  KeysInv'
  <2>1. PICK pc \in UpdatePc : Goto(t, pc)
    BY <1>4 DEF UnbindUpdate, UnbindNext, Unbind, UpdatePc
  <2>2. task[t].pc \in UpdatePc /\ keys' = keys
    BY <1>4 DEF UnbindUpdate, UnbindNext, Unbind, UpdatePc
  <2>3. task'[t].prev = task[t].prev /\ \A s \in Tasks : s # t => task'[s] = task[s]
    BY <2>1, <2>2, Going
  <2>4. wallet'.update <= keys /\ wallet'.next <= keys
    <3>1. CASE UnbindUpdate(t)
      <4>1. wallet' = wallet \/ wallet' = [wallet EXCEPT !.update = 0]
        BY <3>1 DEF UnbindUpdate, Unbind
      <4> QED BY <4>1, <1>0 DEF Types, Bound, KeysInv
    <3>2. CASE UnbindNext(t)
      <4>1. wallet' = wallet \/ wallet' = [wallet EXCEPT !.next = 0]
        BY <3>2 DEF UnbindNext, Unbind
      <4> QED BY <4>1, <1>0 DEF Types, Bound, KeysInv
    <3> QED BY <1>4, <3>1, <3>2
  <2> QED BY <2>2, <2>3, <2>4 DEF KeysInv, KeysMade
<1>5. ASSUME NEW t \in Tasks, BindUpdate(t)
      PROVE  KeysInv'
  <2>1. task[t].pc = "bind update" /\ task[t].pc \in UpdatePc /\ keys' = keys
    BY <1>5 DEF BindUpdate, UpdatePc
  <2>2. CASE Return(t, "error") /\ UNCHANGED wallet
    BY <1>k, <1>r, <2>1, <2>2
  <2>3. CASE wallet' = [wallet EXCEPT !.update = task[t].prev.next] /\ Goto(t, "unbind next")
    <3>1. wallet'.update = task[t].prev.next /\ wallet'.next = wallet.next
      BY <2>3 DEF Types, Bound
    <3>2. task'[t].prev = task[t].prev /\ \A s \in Tasks : s # t => task'[s] = task[s]
      BY <2>1, <2>3, Going DEF UpdatePc
    <3> QED BY <2>1, <3>1, <3>2 DEF KeysInv, KeysMade
  <2> QED BY <1>5, <2>2, <2>3 DEF BindUpdate
<1>6. ASSUME NEW t \in Tasks, BindNext(t)
      PROVE  KeysInv'
  <2>1. task[t].pc = "bind next" /\ task[t] \in Updating
    BY <1>0, <1>6, Kinds DEF BindNext, UpdatePc
  <2>2. CASE Return(t, "error") /\ UNCHANGED <<keys, wallet>>
    BY <1>k, <1>r, <2>1, <2>2
  <2>3. CASE /\ keys' = keys + 1 /\ wallet' = [wallet EXCEPT !.next = keys']
             /\ task' = [task EXCEPT ![t].pc = "sign", ![t].next = keys']
    <3>1. wallet'.update = wallet.update /\ wallet'.next = keys + 1
      BY <2>3 DEF Types, Bound
    <3>2. task'[t].prev = task[t].prev /\ \A s \in Tasks : s # t => task'[s] = task[s]
      BY <2>1, <2>3 DEF Types, Updating
    <3>3. \A s \in Tasks : task'[s].pc \in UpdatePc =>
              /\ task[s].pc \in UpdatePc /\ task'[s].prev = task[s].prev
              /\ task[s].prev.update \in Nat /\ task[s].prev.next \in Nat
      BY <1>0, <2>1, <3>2, Kinds DEF Updating, Bound
    <3>4. wallet'.update <= keys' /\ wallet'.next <= keys'
      BY <1>0, <2>3, <3>1 DEF KeysInv
    <3>5. ASSUME NEW s \in Tasks
          PROVE  KeysMade(task'[s], keys')
      <4>1. KeysMade(task[s], keys)
        BY DEF KeysInv
      <4>2. keys' = keys + 1
        BY <2>3
      <4> QED BY <1>0, <3>3, <4>1, <4>2 DEF KeysMade
    <3> QED BY <3>4, <3>5 DEF KeysInv
  <2> QED BY <1>6, <2>2, <2>3, Zenon DEF BindNext
<1>7. ASSUME NEW t \in Tasks, Sign(t)
      PROVE  KeysInv'
  <2>1. CASE Return(t, "error")
    BY <1>7, <1>k, <1>r, <2>1 DEF Sign
  <2>2. CASE task' = [task EXCEPT ![t] = [pc |-> "stream", req |-> task[t].req]]
    <3>1. Kept
      BY <2>2 DEF Types, UpdatePc
    <3> QED BY <1>7, <1>k, <3>1 DEF Sign
  <2> QED BY <1>7, <2>1, <2>2 DEF Sign
<1>8. CASE Completes
  <2>1. Kept
    BY <1>8, Completing DEF UpdatePc, CallPc, FinishPc
  <2> QED BY <1>8, <1>k, <2>1, Completing
<1> QED
  BY <1>1, <1>2, <1>3, <1>4, <1>5, <1>6, <1>7, <1>8, TwoParts DEF Prepares

\* What a completing step asks, attests or records is about entries that are made.
LEMMA AroundStep ==
    ASSUME Types, EntryInv, Completes
    PROVE  /\ held' \cup toWitness' \cup attested' \subseteq Known
           /\ \A m \in toController' : m.req \in Known
           /\ \A r \in Requests : pending'[r] # NoRecord => r \in Known
<1>0. \A s \in Tasks : task[s].pc \in CallPc \cup FinishPc \cup {"note"} =>
                      task[s].req \in Known /\ task[s].req \in Requests
  BY DEF Types, EntryInv, Made, Known
<1> DEFINE Goal == /\ held' \cup toWitness' \cup attested' \subseteq Known
                   /\ \A m \in toController' : m.req \in Known
                   /\ \A r \in Requests : pending'[r] # NoRecord => r \in Known
<1>u. ASSUME UNCHANGED <<held, toWitness, attested, toController>>,
             NEW q \in Known, \A r \in Requests \ {q} : pending'[r] = pending[r]
      PROVE  Goal
  BY <1>u DEF EntryInv
<1>w. ASSUME UNCHANGED <<held, toWitness, attested, toController>>,
             NEW q \in Requests, pending' \in {pending, [pending EXCEPT ![q] = NoRecord]}
      PROVE  Goal
  BY <1>w DEF Types, EntryInv
<1>1. ASSUME NEW t \in Tasks, NEW r \in Requests, Approve(t, r)
      PROVE  Goal
  <2>1. r \in Known
    BY <1>1 DEF Approve, Approvable, EntryInv
  <2> QED BY <1>1, <2>1 DEF Approve, EntryInv
<1>2. ASSUME NEW t \in Tasks, Streamline(t)
      PROVE  Goal
  <2>1. task[t].req \in Known
    BY <1>0, <1>2 DEF Streamline, CallPc
  <2>2. attested' \subseteq attested \cup {task[t].req}
    BY <1>2 DEF Streamline
  <2> QED BY <1>2, <2>1, <2>2 DEF Streamline, EntryInv
<1>3. ASSUME NEW t \in Tasks, Ask(t)
      PROVE  Goal
  <2>1. task[t].req \in Known
    BY <1>0, <1>3 DEF Ask, CallPc
  <2>2. CASE toWitness' = toWitness \cup {task[t].req} /\ UNCHANGED pending
    BY <1>3, <2>1, <2>2 DEF Ask, EntryInv
  <2>3. CASE UNCHANGED toWitness /\ pending' \in {pending, [pending EXCEPT ![task[t].req] = "pending"]}
    <3>1. UNCHANGED <<held, toWitness, attested, toController>>
      BY <1>3, <2>3 DEF Ask
    <3>2. \A r \in Requests \ {task[t].req} : pending'[r] = pending[r]
      BY <2>3 DEF Types
    <3> QED BY <1>u, <2>1, <3>1, <3>2
  <2> QED BY <1>3, <2>2, <2>3 DEF Ask
<1>4. ASSUME NEW t \in Tasks, SavePending(t) \/ MarkPending(t)
      PROVE  Goal
  <2>1. task[t].req \in Known
    BY <1>0, <1>4 DEF SavePending, MarkPending, CallPc
  <2>2. UNCHANGED <<held, toWitness, attested, toController>>
    BY <1>4 DEF SavePending, MarkPending, outside
  <2>3. CASE SavePending(t)
    <3>1. \A r \in Requests \ {task[t].req} : pending'[r] = pending[r]
      BY <2>3 DEF SavePending, Types
    <3> QED BY <1>u, <2>1, <2>2, <3>1
  <2>4. CASE MarkPending(t)
    <3>1. \A r \in Requests \ {task[t].req} : pending'[r] = pending[r]
      BY <2>4 DEF MarkPending, Types
    <3> QED BY <1>u, <2>1, <2>2, <3>1
  <2> QED BY <1>4, <2>3, <2>4
<1>5. ASSUME NEW t \in Tasks, TimeOut(t) \/ Submit(t) \/ SaveLocal(t) \/ AddScid(t) \/ Notify(t)
      PROVE  Goal
  BY <1>5 DEF TimeOut, Submit, SaveLocal, AddScid, Notify, outside, EntryInv
<1>6. ASSUME NEW t \in Tasks, Wake(t) \/ Remove(t)
      PROVE  Goal
  <2>1. task[t].req \in Known
    BY <1>0, <1>6 DEF Wake, Remove, CallPc, FinishPc
  <2>2. UNCHANGED <<held, toWitness, attested, toController>>
    BY <1>6 DEF Wake, Remove, outside
  <2>3. CASE Wake(t)
    <3>1. \A r \in Requests \ {task[t].req} : pending'[r] = pending[r]
      BY <2>3 DEF Wake, Types
    <3> QED BY <1>u, <2>1, <2>2, <3>1
  <2>4. CASE Remove(t)
    <3>1. \A r \in Requests \ {task[t].req} : pending'[r] = pending[r]
      BY <2>4 DEF Remove, Types
    <3> QED BY <1>u, <2>1, <2>2, <3>1
  <2> QED BY <1>6, <2>3, <2>4
<1>7. ASSUME NEW t \in Tasks, SendAnswer(t)
      PROVE  Goal
  <2>1. task[t].req \in Known
    BY <1>0, <1>7 DEF SendAnswer, FinishPc
  <2>2. toController' \subseteq toController \cup {[req |-> task[t].req, state |-> "attested"]}
    BY <1>7 DEF SendAnswer, Say
  <2> QED BY <1>7, <2>1, <2>2 DEF SendAnswer, EntryInv
<1>8. ASSUME NEW t \in Tasks, Release(t)
      PROVE  Goal
  BY <1>8 DEF Release, EntryInv
<1>9. ASSUME NEW t \in Tasks, NEW m \in toController, ReceiveResponse(t, m)
      PROVE  Goal
  BY <1>9 DEF ReceiveResponse, EntryInv
<1>10. ASSUME NEW t \in Tasks, NoteState(t)
       PROVE  Goal
  <2>1. task[t].req \in Known
    BY <1>0, <1>10 DEF NoteState, Follows
  <2>2. UNCHANGED <<held, toWitness, attested, toController>>
    BY <1>10 DEF NoteState, Follows, outside
  <2>3. \A r \in Requests \ {task[t].req} : pending'[r] = pending[r]
    BY <1>10 DEF NoteState, Follows, Types
  <2> QED BY <1>u, <2>1, <2>2, <2>3
<1>11. ASSUME NEW r \in Requests, ReceiveRequest(r)
       PROVE  Goal
  <2>1. r \in Known
    BY <1>11 DEF ReceiveRequest, EntryInv
  <2> QED BY <1>11, <2>1 DEF ReceiveRequest, Say, EntryInv
<1>12. ASSUME NEW r \in Requests, Reject(r)
       PROVE  Goal
  <2>1. r \in Known
    BY <1>12 DEF Reject, EntryInv
  <2> QED BY <1>12, <2>1 DEF Reject, Say, EntryInv
<1>13. ASSUME NEW r \in Requests, Withdraw(r)
       PROVE  Goal
  BY <1>13, <1>w DEF Withdraw, outside
<1> QED
  BY <1>1, <1>2, <1>3, <1>4, <1>5, <1>6, <1>7, <1>8, <1>9, <1>10, <1>11, <1>12, <1>13
     DEF Completes

\* The server gives each entry the place its version names.
LEMMA OrderedStep ==
    ASSUME Types, EntryInv, WitnessInv, Completes
    PROVE  /\ \A i \in DOMAIN log' : entry[log'[i].req].version = i
           /\ log # <<>> => log' # <<>>
           /\ local' # {} => log' # <<>>
<1> DEFINE Goal == /\ \A i \in DOMAIN log' : entry[log'[i].req].version = i
                   /\ log # <<>> => log' # <<>>
                   /\ local' # {} => log' # <<>>
<1>u. ASSUME UNCHANGED <<log, local>> PROVE Goal
  BY <1>u DEF EntryInv
<1>1. ASSUME NEW t \in Tasks, Submit(t)
      PROVE  Goal
  <2> DEFINE r == task[t].req
             e == [req |-> r, auth |-> entry[r].auth, next |-> entry[r].next, last |-> entry[r].last]
  <2>1. local' = local
    BY <1>1 DEF Submit
  <2>2. CASE log' = log
    BY <1>u, <2>1, <2>2
  <2>3. CASE log' = Append(log, e) /\ Acceptable(entry[r])
    <3>1. Len(log') = Len(log) + 1 /\ DOMAIN log' = 1..(Len(log) + 1)
      BY <2>3 DEF Types
    <3>2. log'[Len(log) + 1].req = r /\ \A i \in 1..Len(log) : log'[i] = log[i]
      BY <2>3 DEF Types
    <3>3. entry[r].version = Len(log) + 1 /\ Len(log) \in Nat /\ DOMAIN log = 1..Len(log)
      BY <2>3 DEF Acceptable, Types
    <3>4. \A i \in DOMAIN log' : i \in DOMAIN log \/ i = Len(log) + 1
      BY <3>1, <3>3
    <3>5. \A i \in DOMAIN log' : entry[log'[i].req].version = i
      BY <3>2, <3>3, <3>4 DEF EntryInv
    <3>6. log' # <<>>
      BY <3>1, <3>3
    <3> QED BY <3>5, <3>6
  <2> QED BY <1>1, <2>2, <2>3 DEF Submit
<1>2. ASSUME NEW t \in Tasks, SaveLocal(t) \/ AddScid(t)
      PROVE  Goal
  <2>1. log' = log /\ task[t].pc \in {"local", "map"}
    BY <1>2 DEF SaveLocal, AddScid
  <2>2. task[t].req \in Published
    BY <2>1 DEF WitnessInv, Justified
  <2>3. log # <<>>
    BY <2>2 DEF Published
  <2> QED BY <2>1, <2>3 DEF EntryInv
<1>3. ASSUME NEW t \in Tasks,
             \/ \E r \in Requests : Approve(t, r)
             \/ Streamline(t) \/ Ask(t) \/ SavePending(t) \/ TimeOut(t) \/ MarkPending(t)
             \/ Wake(t) \/ Notify(t) \/ Remove(t) \/ SendAnswer(t) \/ Release(t)
             \/ \E m \in toController : ReceiveResponse(t, m)
             \/ NoteState(t)
      PROVE  UNCHANGED <<log, local>>
  BY <1>3 DEF Approve, Streamline, Ask, SavePending, TimeOut, MarkPending, Wake, Notify,
     Remove, SendAnswer, Release, ReceiveResponse, NoteState
<1>4. ASSUME NEW r \in Requests, ReceiveRequest(r) \/ Reject(r) \/ Withdraw(r)
      PROVE  UNCHANGED <<log, local>>
  BY <1>4 DEF ReceiveRequest, Reject, Withdraw
<1> QED BY <1>u, <1>1, <1>2, <1>3, <1>4 DEF Completes

LEMMA EntryStep ==
    ASSUME Types, EntryInv, WitnessInv, Next, Types'
    PROVE  EntryInv'
<1>0. /\ \A t \in Tasks : task[t] \in Task /\ Made(task[t], Known)
      /\ \A i \in DOMAIN log : log[i].req \in Known
  <2>1. \A i \in DOMAIN log : log[i] \in Logged /\ i > 0 /\ entry[log[i].req].version = i
    BY DEF Types, EntryInv
  <2> QED BY <2>1 DEF Types, EntryInv, Known, None, Logged
<1>1. ASSUME NEW t \in Tasks, NEW r \in Requests, Create(t, r)
      PROVE  EntryInv'
  <2>1. \A q \in Requests : entry[q] = None
    BY <1>1 DEF Create
  <2>2. Known = {} /\ log = <<>> /\ \A s \in Tasks : task[s] = Idle
    BY <2>1, Fresh
  <2>3. r \in Known'
    <3>1. entry'[r].version = 1
      BY <1>1 DEF Create, Types
    <3> QED BY <3>1 DEF Known, None
  <2>4. task' = [task EXCEPT ![t] = [pc |-> "stream", req |-> r]]
    BY <1>1 DEF Create
  <2>5. /\ task'[t].pc = "stream" /\ task'[t].req = r
        /\ \A s \in Tasks : s # t => task'[s] = Idle
    BY <2>2, <2>4 DEF Types
  <2>6. \A s \in Tasks : task'[s].pc \notin UpdatePc /\ Made(task'[s], Known')
    BY <2>3, <2>5, IdlePc DEF Made, UpdatePc, CallPc, FinishPc
  <2>7. /\ held = {} /\ toWitness = {} /\ attested = {} /\ toController = {} /\ local = {}
        /\ \A q \in Requests : pending[q] = NoRecord
    BY <2>2 DEF EntryInv
  <2>8. UNCHANGED <<log, local, pending, held, toWitness, attested, toController>>
    BY <1>1 DEF Create, outside
  <2> QED BY <2>2, <2>6, <2>7, <2>8 DEF EntryInv
<1>2. ASSUME NEW t \in Tasks, NEW r \in Requests, NEW last \in BOOLEAN, StartUpdate(t, r, last)
      PROVE  EntryInv'
  <2>1. UNCHANGED <<entry, log, local, pending, held, toWitness, attested, toController>>
    BY <1>2 DEF StartUpdate, outside
  <2>2. Known' = Known /\ r \notin Known /\ log # <<>>
    BY <1>2, <2>1 DEF StartUpdate, Known, EntryInv
  <2>3. /\ task'[t].pc \in UpdatePc /\ task'[t].req = r
        /\ \A s \in Tasks : s # t => task'[s] = task[s]
    BY <1>2 DEF StartUpdate, Types, UpdatePc
  <2>4. \A s \in Tasks : Made(task'[s], Known')
    BY <1>0, <2>2, <2>3 DEF Made, UpdatePc, CallPc, FinishPc
  <2>5. \A s \in Tasks : task[s].pc \in UpdatePc => task[s].req # r
    BY <1>2, IdlePc DEF StartUpdate, UpdatePc
  <2>6. \A a, b \in Tasks : task'[a].pc \in UpdatePc /\ task'[b].pc \in UpdatePc
                           /\ task'[a].req = task'[b].req => a = b
    BY <2>3, <2>5 DEF EntryInv
  <2> QED BY <2>1, <2>2, <2>4, <2>6 DEF EntryInv
<1>3. ASSUME NEW t \in Tasks, UNCHANGED <<entry, log, local, pending, held, toWitness, attested, toController>>,
             task[t].pc \in UpdatePc, task'[t].pc \in UpdatePc, task'[t].req = task[t].req,
             \A s \in Tasks : s # t => task'[s] = task[s]
      PROVE  EntryInv'
  <2>1. Known' = Known
    BY <1>3 DEF Known
  <2>2. \A s \in Tasks : Made(task'[s], Known')
    BY <1>0, <1>3, <2>1 DEF Made, UpdatePc, CallPc, FinishPc
  <2>3. \A a, b \in Tasks : task'[a].pc \in UpdatePc /\ task'[b].pc \in UpdatePc
                           /\ task'[a].req = task'[b].req => a = b
    BY <1>3 DEF EntryInv
  <2> QED BY <1>3, <2>1, <2>2, <2>3 DEF EntryInv
<1>4. ASSUME NEW t \in Tasks, task[t].pc # "idle", Return(t, "error"),
             UNCHANGED <<entry, log, local, pending, held, toWitness, attested, toController>>
      PROVE  EntryInv'
  <2>1. Known' = Known
    BY <1>4 DEF Known
  <2>2. task'[t].pc = "idle" /\ \A s \in Tasks : s # t => task'[s] = task[s]
    BY <1>4, Returning DEF Idle
  <2>3. \A s \in Tasks : Made(task'[s], Known')
    BY <1>0, <2>1, <2>2 DEF Made, UpdatePc, CallPc, FinishPc
  <2>4. "idle" \notin UpdatePc
    BY DEF UpdatePc
  <2> QED BY <1>4, <2>1, <2>2, <2>3, <2>4 DEF EntryInv
<1>5. ASSUME NEW t \in Tasks, FindKeys(t)
      PROVE  EntryInv'
  <2>1. task[t] \in Updating /\ task[t].pc = "rotate" /\ task[t].pc \in UpdatePc
        /\ UNCHANGED <<entry, log, local, pending, held, toWitness, attested, toController>>
    BY <1>0, <1>5, Kinds DEF FindKeys, UpdatePc, outside
  <2>2. CASE Return(t, "error")
    BY <1>4, <2>1, <2>2
  <2>3. CASE task' = [task EXCEPT ![t].pc = "unbind update", ![t].prev = wallet]
    <3>1. task'[t].pc = "unbind update" /\ task'[t].req = task[t].req
          /\ \A s \in Tasks : s # t => task'[s] = task[s]
      BY <2>1, <2>3 DEF Types, Updating
    <3>2. task'[t].pc \in UpdatePc
      BY <3>1 DEF UpdatePc
    <3> QED BY <1>3, <2>1, <3>1, <3>2
  <2> QED BY <1>5, <2>2, <2>3 DEF FindKeys
<1>6. ASSUME NEW t \in Tasks,
             UnbindUpdate(t) \/ UnbindNext(t) \/ BindUpdate(t)
      PROVE  EntryInv'
  <2>1. task[t].pc \in UpdatePc /\ task[t].pc # "idle"
        /\ UNCHANGED <<entry, log, local, pending, held, toWitness, attested, toController>>
    BY <1>6 DEF UnbindUpdate, UnbindNext, BindUpdate, Unbind, UpdatePc, outside
  <2>2. Return(t, "error") \/ \E pc \in UpdatePc : Goto(t, pc)
    BY <1>6 DEF UnbindUpdate, UnbindNext, BindUpdate, Unbind, UpdatePc
  <2>3. CASE Return(t, "error")
    BY <1>4, <2>1, <2>3
  <2>4. ASSUME NEW pc \in UpdatePc, Goto(t, pc) PROVE EntryInv'
    BY <1>3, <2>1, <2>4, Going
  <2> QED BY <2>2, <2>3, <2>4
<1>7. ASSUME NEW t \in Tasks, BindNext(t)
      PROVE  EntryInv'
  <2>1. task[t] \in Updating /\ task[t].pc = "bind next" /\ task[t].pc \in UpdatePc
        /\ UNCHANGED <<entry, log, local, pending, held, toWitness, attested, toController>>
    BY <1>0, <1>7, Kinds DEF BindNext, UpdatePc, outside
  <2>2. CASE Return(t, "error")
    BY <1>4, <2>1, <2>2
  <2>3. CASE task' = [task EXCEPT ![t].pc = "sign", ![t].next = keys']
    <3>1. task'[t].pc = "sign" /\ task'[t].req = task[t].req
          /\ \A s \in Tasks : s # t => task'[s] = task[s]
      BY <2>1, <2>3 DEF Types, Updating
    <3>2. task'[t].pc \in UpdatePc
      BY <3>1 DEF UpdatePc
    <3> QED BY <1>3, <2>1, <3>1, <3>2
  <2> QED BY <1>7, <2>2, <2>3 DEF BindNext
<1>8. ASSUME NEW t \in Tasks, Sign(t)
      PROVE  EntryInv'
  <2>1. task[t] \in Updating /\ task[t].pc = "sign" /\ task[t].pc \in UpdatePc
        /\ UNCHANGED <<log, local, pending, held, toWitness, attested, toController>>
    BY <1>0, <1>8, Kinds DEF Sign, UpdatePc, outside
  <2>2. CASE Return(t, "error") /\ UNCHANGED entry
    BY <1>4, <2>1, <2>2
  <2>3. CASE wallet.update # 0
    <3> DEFINE r == task[t].req
    <3>1. r \in Requests /\ r \notin Known
      BY <1>0, <2>1 DEF Updating, Made
    <3>2. entry'[r].version = task[t].version /\ \A q \in Requests : q # r => entry'[q] = entry[q]
      BY <1>8, <2>3, <3>1 DEF Sign, Types
    <3>3. Known' = Known \cup {r}
      BY <2>1, <3>1, <3>2 DEF Known, None, Updating
    <3>4. /\ task'[t].pc = "stream" /\ task'[t].req = r
          /\ \A s \in Tasks : s # t => task'[s] = task[s]
      BY <1>8, <2>3 DEF Sign, Types
    <3>5. \A s \in Tasks : Made(task'[s], Known')
      <4>1. Made(task'[t], Known')
        BY <3>3, <3>4 DEF Made, UpdatePc
      <4>2. ASSUME NEW s \in Tasks, s # t PROVE Made(task'[s], Known')
        <5>1. task[s].pc \in UpdatePc => task[s].req # r
          BY <2>1, <4>2 DEF EntryInv
        <5> QED BY <1>0, <3>3, <3>4, <4>2, <5>1 DEF Made
      <4> QED BY <4>1, <4>2
    <3>6. \A a \in Tasks : task'[a].pc \in UpdatePc => task'[a] = task[a]
      BY <3>4 DEF UpdatePc
    <3>7. \A i \in DOMAIN log : entry'[log[i].req].version = i
      BY <1>0, <3>1, <3>2 DEF EntryInv, Known
    <3>8. held' \cup toWitness' \cup attested' \subseteq Known' /\ \A m \in toController' : m.req \in Known'
      BY <2>1, <3>3 DEF EntryInv
    <3>9. \A q \in Requests : pending'[q] # NoRecord => q \in Known'
      BY <2>1, <3>3 DEF EntryInv
    <3>10. (\E a \in Tasks : task'[a].pc \in UpdatePc) \/ local' # {} => log' # <<>>
      BY <2>1, <3>6 DEF EntryInv
    <3>11. \A a, b \in Tasks : task'[a].pc \in UpdatePc /\ task'[b].pc \in UpdatePc
                              /\ task'[a].req = task'[b].req => a = b
      BY <3>6 DEF EntryInv
    <3> QED BY <2>1, <3>5, <3>7, <3>8, <3>9, <3>10, <3>11 DEF EntryInv
  <2> QED BY <1>8, <2>2, <2>3 DEF Sign
<1>9. CASE Completes
  <2>1. Known' = Known /\ entry' = entry
    BY <1>9, Completing DEF Known
  <2>2. \A s \in Tasks : Made(task'[s], Known')
    BY <1>0, <1>9, <2>1, Completing DEF Made, UpdatePc, CallPc, FinishPc
  <2>3. \A s \in Tasks : task'[s].pc \in UpdatePc => task'[s] = task[s]
    BY <1>9, Completing DEF UpdatePc, CallPc, FinishPc
  <2>4. \A s \in Tasks : task[s].pc \in CallPc \cup FinishPc \cup {"note"} =>
                        task[s].req \in Known
    BY <1>0 DEF Made
  <2> DEFINE Around == /\ held' \cup toWitness' \cup attested' \subseteq Known
                       /\ \A m \in toController' : m.req \in Known
                       /\ \A r \in Requests : pending'[r] # NoRecord => r \in Known
             Ordered == /\ \A i \in DOMAIN log' : entry[log'[i].req].version = i
                        /\ log # <<>> => log' # <<>>
                        /\ local' # {} => log' # <<>>
  <2>5. Around
    BY <1>9, AroundStep
  <2>6. Ordered
    BY <1>9, OrderedStep
  <2>7. (\E a \in Tasks : task'[a].pc \in UpdatePc) => log' # <<>>
    BY <2>3, <2>6 DEF EntryInv
  <2>8. \A a, b \in Tasks : task'[a].pc \in UpdatePc /\ task'[b].pc \in UpdatePc
                           /\ task'[a].req = task'[b].req => a = b
    BY <2>3 DEF EntryInv
  <2> QED BY <2>1, <2>2, <2>5, <2>6, <2>7, <2>8 DEF EntryInv
<1> QED
  BY <1>1, <1>2, <1>5, <1>6, <1>7, <1>8, <1>9, TwoParts DEF Prepares

-----------------------------------------------------------------------------
(***************************************************************************)
(* The witness: what was attested, told and published stays so.            *)
(***************************************************************************)
Promises == WitnessInv /\ SubmittedAttested /\ ApprovalKept

LEMMA Grows ==
    ASSUME NEW r, NEW P, NEW A, NEW T, NEW P2, NEW A2, NEW T2,
           P \subseteq P2, A \subseteq A2, T \subseteq T2, Justified(r, P, A, T)
    PROVE  Justified(r, P2, A2, T2)
BY DEF Justified

\* The published requests are those of the log.
LEMMA PublishedLog ==
    ASSUME UNCHANGED log
    PROVE  Published' = Published
BY DEF Published

\* One more entry of the log is one more published request.
LEMMA PublishedMore ==
    ASSUME Types, NEW e \in Logged, log' = Append(log, e)
    PROVE  Published' = Published \cup {e.req}
<1>1. log \in Seq(Logged)
  BY DEF Types
<1>2. /\ Published = {log[i].req : i \in DOMAIN log}
      /\ Published' = {log'[i].req : i \in DOMAIN log'}
  BY DEF Published
<1> QED BY <1>1, <1>2, Appended

LEMMA PreparesKeep ==
    ASSUME Types, Promises, Prepares
    PROVE  Promises'
<1>1. /\ UNCHANGED <<log, held, toWitness, toController, attested, told, closed, submitted>>
      /\ \A s \in Tasks : task'[s] = task[s] \/ task'[s].pc \in UpdatePc \cup {"stream", "idle"}
      /\ \A r \in Requests : result'[r] = "document" => result[r] = "document"
  BY Preparing DEF outside
<1>2. Published' = Published
  BY <1>1, PublishedLog
<1>3. \A s \in Tasks : Justified(task'[s], Published', attested', told')
  <2>1. SUFFICES ASSUME NEW s \in Tasks
                 PROVE  Justified(task'[s], Published, attested, told)
    BY <1>1, <1>2
  <2>2. CASE task'[s] = task[s]
    BY <2>2 DEF Promises, WitnessInv
  <2>3. CASE task'[s].pc \in UpdatePc \cup {"stream", "idle"}
    BY <2>3 DEF Justified, UpdatePc
  <2> QED BY <1>1, <2>2, <2>3
<1> QED BY <1>1, <1>2, <1>3 DEF Promises, WitnessInv, SubmittedAttested, ApprovalKept

LEMMA CompletesKeep ==
    ASSUME Types, EntryInv, Promises, Completes
    PROVE  Promises'
<1>0. /\ \A s \in Tasks : task[s] \in Task /\ Justified(task[s], Published, attested, told)
      /\ \A s \in Tasks : task[s].pc \in CallPc \cup FinishPc \cup {"note"} =>
                          task[s].req \in Requests
  BY DEF Types, Promises, WitnessInv, EntryInv, Made, Known
<1> DEFINE Larger == /\ Published \subseteq Published' /\ attested \subseteq attested'
                     /\ told \subseteq told'
           All == \A s \in Tasks : Justified(task'[s], Published', attested', told')
\* One call that goes on leaves the others justified.
<1>t. ASSUME NEW t \in Tasks, Larger, \A s \in Tasks : s # t => task'[s] = task[s],
             Justified(task'[t], Published', attested', told')
      PROVE  All
  <2>1. ASSUME NEW s \in Tasks, s # t
        PROVE  Justified(task'[s], Published', attested', told')
    <3>1. task'[s] = task[s]
      BY <1>t, <2>1
    <3> QED BY <1>0, <1>t, <3>1, Grows
  <2> QED BY <1>t, <2>1
<1>i. ASSUME NEW t \in Tasks, Larger, task' = [task EXCEPT ![t] = Idle]
      PROVE  All
  <2>1. task'[t] = Idle /\ \A s \in Tasks : s # t => task'[s] = task[s]
    BY <1>i DEF Types
  <2>2. Justified(Idle, Published', attested', told')
    BY IdlePc DEF Justified
  <2> QED BY <1>i, <1>t, <2>1, <2>2
<1>1. ASSUME NEW t \in Tasks, NEW r \in Requests, Approve(t, r)
      PROVE  Promises'
  <2>1. /\ UNCHANGED <<log, held, toWitness, toController, told, closed, submitted, result>>
        /\ attested' = attested \cup {r}
    BY <1>1 DEF Approve
  <2>2. Published' = Published
    BY <2>1, PublishedLog
  <2>3. /\ task'[t] = [pc |-> IF Mode = "agent" THEN "answer" ELSE "submit", req |-> r, waits |-> TRUE]
        /\ \A s \in Tasks : s # t => task'[s] = task[s]
    BY <1>1 DEF Approve, Types
  <2>4. Justified(task'[t], Published', attested', told')
    BY <2>1, <2>3 DEF Justified
  <2>5. All
    BY <1>t, <2>1, <2>2, <2>3, <2>4
  <2> QED BY <2>1, <2>2, <2>5 DEF Promises, WitnessInv, SubmittedAttested, ApprovalKept
<1>2. ASSUME NEW t \in Tasks, Streamline(t)
      PROVE  Promises'
  <2> DEFINE r == task[t].req
  <2>1. /\ UNCHANGED <<log, held, toWitness, toController, told, closed, submitted>>
        /\ attested \subseteq attested' /\ task[t].pc = "stream"
    BY <1>2 DEF Streamline
  <2>2. Published' = Published
    BY <2>1, PublishedLog
  <2>3. result' = result \/ result' = [result EXCEPT ![r] = "error"]
    BY <1>2 DEF Streamline, Return
  <2>4. All
    <3>1. CASE task' = [task EXCEPT ![t] = Idle]
      BY <1>i, <2>1, <2>2, <3>1
    <3>2. CASE /\ Mode = "none" \/ r \in attested'
               /\ task' = [task EXCEPT ![t] = [pc |-> "submit", req |-> r, waits |-> FALSE]]
      <4>1. /\ task'[t] = [pc |-> "submit", req |-> r, waits |-> FALSE]
            /\ \A s \in Tasks : s # t => task'[s] = task[s]
        BY <3>2 DEF Types
      <4>2. Justified(task'[t], Published', attested', told')
        BY <3>2, <4>1 DEF Justified
      <4> QED BY <1>t, <2>1, <2>2, <4>1, <4>2
    <3>3. CASE Goto(t, "ask")
      <4>1. task'[t].pc = "ask" /\ \A s \in Tasks : s # t => task'[s] = task[s]
        BY <2>1, <3>3, Going DEF CallPc
      <4>2. Justified(task'[t], Published', attested', told')
        BY <4>1 DEF Justified
      <4> QED BY <1>t, <2>1, <2>2, <4>1, <4>2
    <3> QED BY <1>2, <3>1, <3>2, <3>3 DEF Streamline, Return, Goto, Types
  <2>5. \A q \in Requests : result'[q] = "document" => result[q] = "document"
    BY <2>3 DEF Types
  <2> QED BY <2>1, <2>2, <2>4, <2>5 DEF Promises, WitnessInv, SubmittedAttested, ApprovalKept
<1>3. ASSUME NEW t \in Tasks, Ask(t) \/ SavePending(t) \/ TimeOut(t) \/ MarkPending(t)
      PROVE  Promises'
  <2>1. /\ UNCHANGED <<log, held, toController, attested, told, closed, submitted>>
        /\ toWitness' = toWitness \/ Mode = "agent"
        /\ task[t].pc \in CallPc
    BY <1>3 DEF Ask, SavePending, TimeOut, MarkPending, outside, CallPc
  <2>2. Published' = Published
    BY <2>1, PublishedLog
  <2>3. \/ \E v \in {"error", "pending", "unknown"} : Return(t, v)
        \/ \E pc \in {"save", "wait", "timed out"} : Goto(t, pc) /\ UNCHANGED result
    BY <1>3 DEF Ask, SavePending, TimeOut, MarkPending
  <2>4. All /\ \A q \in Requests : result'[q] = "document" => result[q] = "document"
    <3>1. ASSUME NEW v \in {"error", "pending", "unknown"}, Return(t, v)
          PROVE  All /\ \A q \in Requests : result'[q] = "document" => result[q] = "document"
      <4>1. All
        BY <1>i, <2>1, <2>2, <3>1 DEF Return
      <4>2. \A q \in Requests : result'[q] = "document" => result[q] = "document"
        BY <3>1 DEF Return, Types
      <4> QED BY <4>1, <4>2
    <3>2. ASSUME NEW pc \in {"save", "wait", "timed out"}, Goto(t, pc), UNCHANGED result
          PROVE  All
      <4>1. task'[t].pc = pc /\ \A s \in Tasks : s # t => task'[s] = task[s]
        BY <2>1, <3>2, Going DEF CallPc
      <4>2. Justified(task'[t], Published', attested', told')
        BY <4>1 DEF Justified
      <4> QED BY <1>t, <2>1, <2>2, <4>1, <4>2
    <3> QED BY <2>3, <3>1, <3>2
  <2> QED BY <2>1, <2>2, <2>4 DEF Promises, WitnessInv, SubmittedAttested, ApprovalKept
<1>4. ASSUME NEW t \in Tasks, Wake(t)
      PROVE  Promises'
  <2>1. /\ UNCHANGED <<log, held, toWitness, toController, attested, told, closed, submitted>>
        /\ task[t].pc = "woken" /\ Return(t, "document")
    BY <1>4 DEF Wake, outside
  <2>2. Published' = Published
    BY <2>1, PublishedLog
  <2>3. task[t].req \in Published
    BY <1>0, <2>1 DEF Justified
  <2>4. All
    BY <1>i, <2>1, <2>2 DEF Return
  <2>5. \A q \in Requests : result'[q] = "document" => q \in Published
    BY <2>1, <2>3 DEF Return, Types, Promises, WitnessInv
  <2> QED BY <2>1, <2>2, <2>4, <2>5 DEF Promises, WitnessInv, SubmittedAttested, ApprovalKept
<1>5. ASSUME NEW t \in Tasks, Submit(t)
      PROVE  Promises'
  <2> DEFINE r == task[t].req
             e == [req |-> r, auth |-> entry[r].auth, next |-> entry[r].next, last |-> entry[r].last]
  <2>1. /\ UNCHANGED <<held, toWitness, toController, attested, told, closed>>
        /\ submitted' = submitted \cup {r} /\ task[t].pc = "submit"
    BY <1>5 DEF Submit, outside
  <2>2. r \in Requests /\ entry[r] # None
    BY <1>0, <2>1 DEF FinishPc, EntryInv, Made, Known
  <2>3. e \in Logged /\ e.req = r
    BY <2>2 DEF Types, Entry, Logged
  <2>4. Mode # "none" => r \in attested
    BY <1>0, <2>1 DEF Justified
  <2>5. CASE log' = Append(log, e) /\ Goto(t, "local") /\ UNCHANGED result
    <3>1. Published' = Published \cup {r}
      BY <2>3, <2>5, PublishedMore
    <3>2. task'[t].pc = "local" /\ task'[t].req = r /\ \A s \in Tasks : s # t => task'[s] = task[s]
      BY <2>1, <2>5, Going DEF FinishPc
    <3>3. Justified(task'[t], Published', attested', told')
      BY <3>1, <3>2 DEF Justified
    <3>4. All
      BY <1>t, <2>1, <3>1, <3>2, <3>3
    <3> QED BY <2>1, <2>4, <2>5, <3>1, <3>4
            DEF Promises, WitnessInv, SubmittedAttested, ApprovalKept
  <2>6. CASE log' \in {log, Append(log, e)} /\ Fail(t)
    <3>1. Published \subseteq Published'
      <4>1. CASE log' = log
        BY <4>1, PublishedLog
      <4>2. CASE log' = Append(log, e)
        BY <2>3, <4>2, PublishedMore
      <4> QED BY <2>6, <4>1, <4>2
    <3>2. All
      BY <1>i, <2>1, <2>6, <3>1 DEF Fail
    <3>3. \A q \in Requests : result'[q] = "document" => result[q] = "document"
      BY <2>6 DEF Fail, Types
    <3> QED BY <2>1, <2>4, <3>1, <3>2, <3>3
            DEF Promises, WitnessInv, SubmittedAttested, ApprovalKept
  <2> QED BY <1>5, <2>5, <2>6 DEF Submit
<1>6. ASSUME NEW t \in Tasks, SaveLocal(t) \/ AddScid(t)
      PROVE  Promises'
  <2>1. /\ UNCHANGED <<log, held, toWitness, toController, attested, told, closed, submitted, result>>
        /\ task[t].pc \in {"local", "map"}
    BY <1>6 DEF SaveLocal, AddScid, outside
  <2>2. Published' = Published
    BY <2>1, PublishedLog
  <2>3. PICK pc \in {"map", "notify"} : Goto(t, pc)
    BY <1>6 DEF SaveLocal, AddScid
  <2>4. /\ task'[t].pc = pc /\ task'[t].req = task[t].req
        /\ \A s \in Tasks : s # t => task'[s] = task[s]
    BY <2>1, <2>3, Going DEF FinishPc
  <2>5. task[t].req \in Published
    BY <1>0, <2>1 DEF Justified
  <2>6. Justified(task'[t], Published', attested', told')
    BY <2>2, <2>4, <2>5 DEF Justified
  <2>7. All
    BY <1>t, <2>1, <2>2, <2>4, <2>6
  <2> QED BY <2>1, <2>2, <2>7 DEF Promises, WitnessInv, SubmittedAttested, ApprovalKept
<1>7. ASSUME NEW t \in Tasks, Notify(t)
      PROVE  Promises'
  <2>1. /\ UNCHANGED <<log, held, toWitness, toController, attested, told, closed, submitted>>
        /\ task[t].pc = "notify"
    BY <1>7 DEF Notify, outside
  <2>2. Published' = Published
    BY <2>1, PublishedLog
  <2>3. task[t].req \in Published
    BY <1>0, <2>1 DEF Justified
  <2>4. CASE Return(t, "document")
    <3>1. All
      BY <1>i, <2>1, <2>2, <2>4 DEF Return
    <3>2. \A q \in Requests : result'[q] = "document" => q \in Published
      BY <2>3, <2>4 DEF Return, Types, Promises, WitnessInv
    <3> QED BY <2>1, <2>2, <3>1, <3>2 DEF Promises, WitnessInv, SubmittedAttested, ApprovalKept
  <2>5. CASE task[t].waits /\ UNCHANGED result
    <3>1. ASSUME NEW s \in Tasks
          PROVE  Justified(task'[s], Published', attested', told')
      <4>1. CASE s = t
        <5>1. task'[s] = [task[t] EXCEPT !.pc = "remove"]
          BY <1>7, <2>5, <4>1 DEF Notify
        <5>2. task'[s].pc = "remove" /\ task'[s].req = task[t].req
          BY <5>1, <1>0, <2>1, Moves DEF FinishPc
        <5> QED BY <5>2, <2>2, <2>3 DEF Justified
      <4>2. CASE s # t /\ task[s].pc = "wait" /\ task[s].req = task[t].req /\ Mode = "agent"
        <5>1. task'[s] = [task[s] EXCEPT !.pc = "woken"]
          BY <1>7, <2>5, <4>2 DEF Notify
        <5>2. task[s].pc \in CallPc /\ "woken" \in CallPc
          BY <4>2 DEF CallPc
        <5>3. task'[s].pc = "woken" /\ task'[s].req = task[s].req
          BY <5>1, <5>2, <1>0, Moves
        <5> QED BY <5>3, <2>2, <2>3, <4>2 DEF Justified
      <4>3. CASE s # t /\ ~(task[s].pc = "wait" /\ task[s].req = task[t].req /\ Mode = "agent")
        <5>1. task'[s] = task[s]
          BY <1>7, <2>5, <4>3 DEF Notify
        <5> QED BY <5>1, <1>0, <2>1, <2>2
      <4> QED BY <4>1, <4>2, <4>3
    <3> QED BY <2>1, <2>2, <2>5, <3>1
            DEF Promises, WitnessInv, SubmittedAttested, ApprovalKept
  <2> QED BY <1>7, <2>4, <2>5 DEF Notify
<1>8. ASSUME NEW t \in Tasks, Remove(t)
      PROVE  Promises'
  <2>1. /\ UNCHANGED <<log, held, toWitness, toController, attested, told, submitted, result>>
        /\ task[t].pc = "remove" /\ task' = [task EXCEPT ![t] = Idle]
        /\ closed' = IF Mode = "self" THEN closed \cup {task[t].req} ELSE closed
    BY <1>8 DEF Remove
  <2>2. Published' = Published
    BY <2>1, PublishedLog
  <2>3. Mode = "self" => task[t].req \in Published
    BY <1>0, <2>1 DEF Justified
  <2>4. All
    BY <1>i, <2>1, <2>2
  <2> QED BY <2>1, <2>2, <2>3, <2>4 DEF Promises, WitnessInv, SubmittedAttested, ApprovalKept
<1>9. ASSUME NEW t \in Tasks, SendAnswer(t)
      PROVE  Promises'
  <2> DEFINE r == task[t].req
  <2>1. /\ UNCHANGED <<log, held, toWitness, attested, closed, submitted, result>>
        /\ task[t].pc = "answer"
    BY <1>9 DEF SendAnswer
  <2>2. Published' = Published
    BY <2>1, PublishedLog
  <2>3. Mode = "agent" /\ r \in attested
    BY <1>0, <2>1 DEF Justified
  <2>4. CASE /\ toController' = toController \cup {[req |-> r, state |-> "attested"]}
             /\ told' = told \cup {r} /\ Goto(t, "release")
    <3>1. task'[t].pc = "release" /\ task'[t].req = r /\ \A s \in Tasks : s # t => task'[s] = task[s]
      BY <2>1, <2>4, Going DEF FinishPc
    <3>2. Justified(task'[t], Published', attested', told')
      BY <2>3, <2>4, <3>1 DEF Justified
    <3>3. All
      BY <1>t, <2>1, <2>2, <2>4, <3>1, <3>2
    <3>4. told' \subseteq attested' /\ told \subseteq told'
      BY <2>1, <2>3, <2>4 DEF Promises, WitnessInv
    <3>5. \A m \in toController' : m.state = "attested" => m.req \in told'
      BY <2>4 DEF Promises, WitnessInv
    <3> QED BY <2>1, <2>2, <2>3, <3>3, <3>4, <3>5
            DEF Promises, WitnessInv, SubmittedAttested, ApprovalKept
  <2>5. CASE task' = Unsent(t) /\ UNCHANGED <<toController, told>>
    <3>1. All
      BY <1>i, <2>1, <2>2, <2>5 DEF Unsent
    <3> QED BY <2>1, <2>2, <2>5, <3>1 DEF Promises, WitnessInv, SubmittedAttested, ApprovalKept
  <2> QED BY <1>9, <2>4, <2>5 DEF SendAnswer, Say
<1>10. ASSUME NEW t \in Tasks, Release(t)
       PROVE  Promises'
  <2>1. /\ UNCHANGED <<log, toWitness, toController, attested, told, submitted, result>>
        /\ task[t].pc = "release" /\ task' = [task EXCEPT ![t] = Idle]
        /\ held' = held \ {task[t].req} /\ closed' = closed \cup {task[t].req}
    BY <1>10 DEF Release
  <2>2. Published' = Published
    BY <2>1, PublishedLog
  <2>3. Mode = "agent" /\ task[t].req \in told
    BY <1>0, <2>1 DEF Justified
  <2>4. All
    BY <1>i, <2>1, <2>2
  <2> QED BY <2>1, <2>2, <2>3, <2>4 DEF Promises, WitnessInv, SubmittedAttested, ApprovalKept
<1>11. ASSUME NEW t \in Tasks, NEW m \in toController, ReceiveResponse(t, m)
       PROVE  Promises'
  <2>1. /\ UNCHANGED <<log, held, toWitness, attested, told, closed, submitted, result>>
        /\ toController' = toController \ {m}
    BY <1>11 DEF ReceiveResponse
  <2>2. Published' = Published
    BY <2>1, PublishedLog
  <2>3. Mode = "agent" /\ (m.state = "attested" => m.req \in told)
    BY DEF Promises, WitnessInv
  <2>4. /\ task'[t] = [pc |-> "note", req |-> m.req, state |-> m.state,
                      waits |-> TRUE, found |-> pending[m.req] # NoRecord]
        /\ \A s \in Tasks : s # t => task'[s] = task[s]
    BY <1>11 DEF ReceiveResponse, Types
  <2>5. Justified(task'[t], Published', attested', told')
    BY <2>1, <2>3, <2>4 DEF Justified
  <2>6. All
    BY <1>t, <2>1, <2>2, <2>4, <2>5
  <2> QED BY <2>1, <2>2, <2>3, <2>6 DEF Promises, WitnessInv, SubmittedAttested, ApprovalKept
<1>12. ASSUME NEW t \in Tasks, NoteState(t)
       PROVE  Promises'
  <2> DEFINE r == task[t].req
             pc == Handling(task[t].state)
  <2>1. /\ UNCHANGED <<log, held, toWitness, toController, attested, told, closed, submitted, result>>
        /\ task[t].pc = "note"
        /\ task' = [task EXCEPT ![t] =
                       IF pc = "idle" THEN Idle ELSE [pc |-> pc, req |-> r, waits |-> TRUE]]
    BY <1>12 DEF NoteState, Follows, outside
  <2>2. Published' = Published
    BY <2>1, PublishedLog
  <2>3. Mode = "agent" /\ (task[t].state = "attested" => r \in attested)
    BY <1>0, <2>1 DEF Justified, Promises, WitnessInv
  <2>4. \/ pc = "idle" \/ pc = "remove" \/ (pc = "submit" /\ task[t].state = "attested")
    <3>1. task[t].state \in States
      BY <1>0, <2>1, Kinds DEF Noting
    <3> QED BY <3>1 DEF States, Handling
  <2>5. CASE pc = "idle"
    <3>1. All
      BY <1>i, <2>1, <2>2, <2>5
    <3> QED BY <2>1, <2>2, <3>1 DEF Promises, WitnessInv, SubmittedAttested, ApprovalKept
  <2>6. CASE pc # "idle"
    <3>1. /\ task'[t] = [pc |-> pc, req |-> r, waits |-> TRUE]
          /\ \A s \in Tasks : s # t => task'[s] = task[s]
      BY <2>1, <2>6 DEF Types
    <3>2. Justified(task'[t], Published', attested', told')
      BY <2>1, <2>3, <2>4, <2>6, <3>1 DEF Justified
    <3>3. All
      BY <1>t, <2>1, <2>2, <3>1, <3>2
    <3> QED BY <2>1, <2>2, <3>3 DEF Promises, WitnessInv, SubmittedAttested, ApprovalKept
  <2> QED BY <2>5, <2>6
<1>13. ASSUME NEW r \in Requests, ReceiveRequest(r)
       PROVE  Promises'
  <2>1. /\ UNCHANGED <<log, task, closed, submitted, result>>
        /\ toWitness' \subseteq toWitness
        /\ attested \subseteq attested' /\ told \subseteq told'
    BY <1>13 DEF ReceiveRequest
  <2>2. Published' = Published
    BY <2>1, PublishedLog
  <2>3. Mode = "agent"
    BY <1>13 DEF ReceiveRequest, Promises, WitnessInv
  <2>4. \A s \in Tasks : Justified(task[s], Published', attested', told')
    BY <1>0, <2>1, <2>2, Grows
  <2>5. /\ told' \subseteq attested'
        /\ \A m \in toController' : m.state = "attested" => m.req \in told'
    BY <1>13 DEF ReceiveRequest, Say, Promises, WitnessInv
  <2> QED BY <2>1, <2>2, <2>3, <2>4, <2>5
          DEF Promises, WitnessInv, SubmittedAttested, ApprovalKept
<1>14. ASSUME NEW r \in Requests, Reject(r)
       PROVE  Promises'
  <2>1. /\ UNCHANGED <<log, task, toWitness, attested, told, closed, submitted, result>>
        /\ held' = held \ {r}
        /\ toController' \subseteq toController \cup {[req |-> r, state |-> "rejected"]}
    BY <1>14 DEF Reject, Say
  <2>2. Published' = Published
    BY <2>1, PublishedLog
  <2>3. Mode = "agent"
    BY <1>14 DEF Reject, Promises, WitnessInv
  <2>4. \A m \in toController' : m.state = "attested" => m.req \in told
    BY <2>1 DEF Promises, WitnessInv
  <2> QED BY <1>0, <2>1, <2>2, <2>3, <2>4
          DEF Promises, WitnessInv, SubmittedAttested, ApprovalKept
<1>15. ASSUME NEW r \in Requests, Withdraw(r)
       PROVE  Promises'
  <2>1. UNCHANGED <<log, task, held, toWitness, toController, attested, told, closed, submitted, result>>
    BY <1>15 DEF Withdraw, outside
  <2>2. Published' = Published
    BY <2>1, PublishedLog
  <2> QED BY <2>1, <2>2 DEF Promises, WitnessInv, SubmittedAttested, ApprovalKept
<1> QED
  BY <1>1, <1>2, <1>3, <1>4, <1>5, <1>6, <1>7, <1>8, <1>9, <1>10, <1>11, <1>12, <1>13,
     <1>14, <1>15 DEF Completes

-----------------------------------------------------------------------------
(***************************************************************************)
(* The theorems.                                                           *)
(***************************************************************************)
LEMMA InitInv == Init => LogInv
<1> SUFFICES ASSUME Init PROVE LogInv
  OBVIOUS
<1>1. Types
  BY DEF Init, Types, Bound, Task
<1>0. \A t \in Tasks : task[t].pc = "idle"
  BY IdlePc DEF Init
<1>2. KeysInv
  <2>1. wallet.update <= keys /\ wallet.next <= keys
    BY DEF Init
  <2> QED BY <1>0, <2>1 DEF KeysInv, KeysMade, UpdatePc
<1>3. EntryInv
  <2>1. \A t \in Tasks : task[t].pc \notin UpdatePc /\ Made(task[t], Known)
    BY <1>0 DEF Made, UpdatePc, CallPc, FinishPc
  <2>2. /\ log = <<>> /\ local = {} /\ held = {} /\ toWitness = {} /\ attested = {}
        /\ toController = {} /\ \A r \in Requests : pending[r] = NoRecord
    BY DEF Init
  <2> QED BY <2>1, <2>2 DEF EntryInv
<1>4. WitnessInv
  BY <1>0 DEF Init, WitnessInv, Justified
<1>5. SubmittedAttested /\ ApprovalKept
  BY DEF Init, SubmittedAttested, ApprovalKept
<1> QED BY <1>1, <1>2, <1>3, <1>4, <1>5 DEF LogInv

LEMMA StutterInv == LogInv /\ UNCHANGED vars => LogInv'
<1> SUFFICES ASSUME LogInv, UNCHANGED vars PROVE LogInv'
  OBVIOUS
<1>1. Known' = Known /\ Published' = Published
  BY DEF vars, Known, Published
<1>2. Types'
  BY DEF LogInv, Types, vars
<1>3. KeysInv' /\ EntryInv'
  BY <1>1 DEF LogInv, KeysInv, EntryInv, vars
<1>4. WitnessInv' /\ SubmittedAttested' /\ ApprovalKept'
  BY <1>1 DEF LogInv, WitnessInv, SubmittedAttested, ApprovalKept, vars
<1> QED BY <1>2, <1>3, <1>4 DEF LogInv

LEMMA NextInv == LogInv /\ [Next]_vars => LogInv'
<1>1. ASSUME LogInv, Next PROVE LogInv'
  <2>1. Types /\ KeysInv /\ EntryInv /\ WitnessInv /\ Promises
    BY <1>1 DEF LogInv, Promises
  <2>2. Types'
    BY <1>1, <2>1, TypesStep
  <2>3. KeysInv'
    BY <1>1, <2>1, KeysStep
  <2>4. EntryInv'
    BY <1>1, <2>1, <2>2, EntryStep
  <2>5. Promises'
    BY <1>1, <2>1, TwoParts, PreparesKeep, CompletesKeep
  <2> QED BY <2>2, <2>3, <2>4, <2>5 DEF LogInv, Promises
<1> QED BY <1>1, StutterInv

LEMMA Invariant == Spec => []LogInv
BY InitInv, NextInv, PTL DEF Spec

\* The wallet binds keys that were made, records are in a state of the protocol,
\* the witness signs what was prepared, and the server's versions count.
THEOREM TypeCorrect == Spec => []TypeOK
<1>1. ASSUME LogInv PROVE TypeOK
  <2>1. wallet.update \in 0..keys /\ wallet.next \in 0..keys
    BY <1>1 DEF LogInv, Types, KeysInv, Bound
  <2>2. \A r \in Requests : pending[r] \in {NoRecord, "pending", "attested", "rejected"}
    BY <1>1 DEF LogInv, Types, States
  <2>3. /\ \A i \in DOMAIN log : entry[log[i].req].version = i
        /\ attested \subseteq {r \in Requests : entry[r] # None} /\ local \subseteq {"did", "scid"}
    BY <1>1 DEF LogInv, Types, EntryInv, Known
  <2> QED BY <2>1, <2>2, <2>3 DEF TypeOK
<1> QED BY <1>1, Invariant, PTL

\* Nothing reaches the server that the witness has not signed, whatever answers
\* come, in whatever order and however late (finish_did_operation).
THEOREM OnlySigned == Spec => []SubmittedAttested
<1>1. LogInv => SubmittedAttested
  BY DEF LogInv
<1> QED BY <1>1, Invariant, PTL

\* A caller that is given the document has its entry in the log, and a local
\* DID is stored for a published log only (manager.py:168).
THEOREM DocumentsPublished == Spec => []SuccessIsPublished
<1>1. LogInv => SuccessIsPublished
  BY DEF LogInv, WitnessInv, EntryInv, SuccessIsPublished
<1> QED BY <1>1, Invariant, PTL

\* The record of a request is given up by an approval only when the response is
\* out, or a self witness's entry is published.
THEOREM ApprovalsKept == Spec => []ApprovalKept
<1>1. LogInv => ApprovalKept
  BY DEF LogInv
<1> QED BY <1>1, Invariant, PTL

\* A call that has to note or to submit does so itself, and next.
LEMMA OthersWait ==
    ASSUME Types, Next, NEW s \in Tasks, task[s].pc \in {"note", "submit"}
    PROVE  task'[s] = task[s] \/ NoteState(s) \/ Submit(s)
<1>0. Prepares \/ Completes
  BY TwoParts
<1>1. ASSUME NEW t \in Tasks, task[t].pc \notin {"note", "submit"}, NEW x,
             task' = [task EXCEPT ![t] = x]
      PROVE  task'[s] = task[s]
  BY <1>1 DEF Types
<1>2. CASE Prepares
  <2>1. ASSUME NEW t \in Tasks, NEW r \in Requests, NEW last \in BOOLEAN,
               Create(t, r) \/ StartUpdate(t, r, last)
        PROVE  task'[s] = task[s]
    BY <2>1, <1>1, IdlePc DEF Create, StartUpdate
  <2>2. ASSUME NEW t \in Tasks, FindKeys(t) \/ UnbindUpdate(t) \/ UnbindNext(t)
        PROVE  task'[s] = task[s]
    BY <2>2, <1>1 DEF FindKeys, UnbindUpdate, UnbindNext, Unbind, Return, Goto
  <2>3. ASSUME NEW t \in Tasks, BindUpdate(t) \/ BindNext(t) \/ Sign(t)
        PROVE  task'[s] = task[s]
    BY <2>3, <1>1 DEF BindUpdate, BindNext, Sign, Return, Goto
  <2> QED BY <1>2, <2>1, <2>2, <2>3 DEF Prepares
<1>3. CASE Completes
  <2>1. ASSUME NEW t \in Tasks, NEW r \in Requests, Approve(t, r)
        PROVE  task'[s] = task[s]
    BY <2>1, <1>1, IdlePc DEF Approve
  <2>2. ASSUME NEW t \in Tasks, NEW m \in toController, ReceiveResponse(t, m)
        PROVE  task'[s] = task[s]
    BY <2>2, <1>1, IdlePc DEF ReceiveResponse
  <2>3. ASSUME NEW t \in Tasks, Streamline(t) \/ Ask(t) \/ SavePending(t) \/ TimeOut(t)
                                \/ MarkPending(t) \/ Wake(t)
        PROVE  task'[s] = task[s]
    BY <2>3, <1>1 DEF Streamline, Ask, SavePending, TimeOut, MarkPending, Wake, Return, Goto
  <2>4. ASSUME NEW t \in Tasks, SaveLocal(t) \/ AddScid(t) \/ Remove(t) \/ SendAnswer(t) \/ Release(t)
        PROVE  task'[s] = task[s]
    BY <2>4, <1>1 DEF SaveLocal, AddScid, Remove, SendAnswer, Release, Goto, Unsent
  <2>5. ASSUME NEW t \in Tasks, Notify(t)
        PROVE  task'[s] = task[s]
    <3>1. CASE task[t].waits
      BY <2>5, <3>1 DEF Notify
    <3>2. CASE ~task[t].waits
      BY <2>5, <3>2, <1>1 DEF Notify, Return
    <3> QED BY <3>1, <3>2
  <2>6. ASSUME NEW t \in Tasks, NoteState(t) \/ Submit(t), t # s
        PROVE  task'[s] = task[s]
    BY <2>6 DEF NoteState, Follows, Submit, Fail, Goto, Types
  <2>7. ASSUME NEW r \in Requests, ReceiveRequest(r) \/ Reject(r) \/ Withdraw(r)
        PROVE  task'[s] = task[s]
    BY <2>7 DEF ReceiveRequest, Reject, Withdraw
  <2> QED BY <1>3, <2>1, <2>2, <2>3, <2>4, <2>5, <2>6, <2>7 DEF Completes
<1> QED BY <1>0, <1>2, <1>3

\* What the witness sent is not lost by the other steps.
LEMMA SentStays ==
    ASSUME Types, Next
    PROVE  /\ submitted \subseteq submitted'
           /\ \/ toController \subseteq toController'
              \/ \E t \in Tasks : \E m \in toController : ReceiveResponse(t, m)
           /\ \A r \in told' : r \in told \/ [req |-> r, state |-> "attested"] \in toController'
<1> DEFINE Goal ==
             /\ submitted \subseteq submitted'
             /\ \/ toController \subseteq toController'
                \/ \E t \in Tasks : \E m \in toController : ReceiveResponse(t, m)
             /\ \A r \in told' : r \in told \/ [req |-> r, state |-> "attested"] \in toController'
<1>1. CASE Prepares
  BY <1>1, Preparing DEF outside
<1>2. CASE Completes
  <2>1. ASSUME NEW t \in Tasks,
               \/ \E r \in Requests : Approve(t, r)
               \/ Streamline(t) \/ Ask(t) \/ SavePending(t) \/ TimeOut(t) \/ MarkPending(t)
        PROVE  UNCHANGED <<submitted, toController, told>>
    BY <2>1 DEF Approve, Streamline, Ask, SavePending, TimeOut, MarkPending, outside
  <2>2. ASSUME NEW t \in Tasks,
               \/ Wake(t) \/ SaveLocal(t) \/ AddScid(t) \/ Notify(t) \/ Remove(t)
               \/ Release(t) \/ NoteState(t)
        PROVE  UNCHANGED <<submitted, toController, told>>
    BY <2>2 DEF Wake, SaveLocal, AddScid, Notify, Remove, Release, NoteState, outside
  <2>3. ASSUME NEW t \in Tasks, Submit(t)
        PROVE  Goal
    BY <2>3 DEF Submit, outside
  <2>4. ASSUME NEW t \in Tasks, SendAnswer(t)
        PROVE  Goal
    BY <2>4 DEF SendAnswer, Say
  <2>5. ASSUME NEW t \in Tasks, NEW m \in toController, ReceiveResponse(t, m)
        PROVE  Goal
    BY <2>5 DEF ReceiveResponse
  <2>6. ASSUME NEW r \in Requests, ReceiveRequest(r) \/ Reject(r) \/ Withdraw(r)
        PROVE  Goal
    BY <2>6 DEF ReceiveRequest, Reject, Withdraw, Say, outside
  <2> QED BY <1>2, <2>1, <2>2, <2>3, <2>4, <2>5, <2>6 DEF Completes
<1> QED BY <1>1, <1>2, TwoParts

\* A signature that the witness sent is used: its entry is submitted, or the
\* response is still to be handled, whether the call waits for it, has timed
\* out, or has yet to save the record of its request (manager.py:168).
THEOREM SignaturesSubmitted == Spec => []SignatureSubmitted
<1>1. Init => SignatureSubmitted
  BY DEF Init, SignatureSubmitted
<1>2. ASSUME LogInv, SignatureSubmitted, Next PROVE SignatureSubmitted'
  <2> DEFINE Bears(s, r) == /\ task[s].pc \in {"note", "submit"} /\ task[s].req = r
                            /\ task[s].pc = "note" => task[s].state = "attested"
             Used(r) == \/ r \in submitted \/ [req |-> r, state |-> "attested"] \in toController
                        \/ \E s \in Tasks : Bears(s, r)
  <2>0. Types /\ \A s \in Tasks : task[s] \in Task
    BY <1>2 DEF LogInv, Types
  <2>1. SUFFICES ASSUME NEW r \in told' PROVE Used(r)'
    BY DEF SignatureSubmitted
  <2>2. /\ submitted \subseteq submitted'
        /\ \/ toController \subseteq toController'
           \/ \E t \in Tasks : \E m \in toController : ReceiveResponse(t, m)
        /\ r \in told \/ [req |-> r, state |-> "attested"] \in toController'
    BY <1>2, <2>0, SentStays
  <2>3. SUFFICES ASSUME r \in told PROVE Used(r)'
    BY <2>2
  <2>4. Used(r)
    BY <1>2, <2>3 DEF SignatureSubmitted
  <2>5. CASE [req |-> r, state |-> "attested"] \in toController
    <3>1. ASSUME NEW t \in Tasks, NEW m \in toController, ReceiveResponse(t, m)
          PROVE  Used(r)'
      <4>1. CASE m = [req |-> r, state |-> "attested"]
        <5>1. task'[t].pc = "note" /\ task'[t].req = r /\ task'[t].state = "attested"
          BY <2>0, <3>1, <4>1 DEF ReceiveResponse, Types
        <5> QED BY <5>1
      <4>2. CASE m # [req |-> r, state |-> "attested"]
        BY <2>5, <3>1, <4>2 DEF ReceiveResponse
      <4> QED BY <4>1, <4>2
    <3> QED BY <2>2, <2>5, <3>1
  <2>6. ASSUME NEW s \in Tasks, Bears(s, r) PROVE Used(r)'
    <3>1. CASE task'[s] = task[s]
      BY <2>6, <3>1
    <3>2. CASE NoteState(s)
      <4>1. Handling(task[s].state) = "submit"
        BY <2>6, <3>2 DEF NoteState, Follows, Handling
      <4>2. task'[s] = [pc |-> "submit", req |-> r, waits |-> TRUE]
        BY <2>0, <2>6, <3>2, <4>1 DEF NoteState, Follows, Types
      <4> QED BY <4>2
    <3>3. CASE Submit(s)
      BY <2>6, <3>3 DEF Submit
    <3> QED BY <1>2, <2>0, <2>6, <3>1, <3>2, <3>3, OthersWait
  <2> QED BY <2>2, <2>4, <2>5, <2>6
<1>3. UNCHANGED vars /\ SignatureSubmitted => SignatureSubmitted'
  <2>1. SUFFICES ASSUME UNCHANGED vars, SignatureSubmitted PROVE SignatureSubmitted'
    OBVIOUS
  <2>2. UNCHANGED <<submitted, toController, task, told>>
    BY <2>1 DEF vars
  <2>3. ASSUME NEW r \in told'
        PROVE  \/ r \in submitted' \/ [req |-> r, state |-> "attested"] \in toController'
               \/ \E t \in Tasks : /\ task'[t].pc \in {"note", "submit"} /\ task'[t].req = r
                                   /\ task'[t].pc = "note" => task'[t].state = "attested"
    <3>1. r \in told
      BY <2>2, <2>3
    <3>2. \/ r \in submitted \/ [req |-> r, state |-> "attested"] \in toController
          \/ \E t \in Tasks : /\ task[t].pc \in {"note", "submit"} /\ task[t].req = r
                              /\ task[t].pc = "note" => task[t].state = "attested"
      BY <2>1, <3>1 DEF SignatureSubmitted
    <3> QED BY <2>2, <3>2
  <2> QED BY <2>3 DEF SignatureSubmitted
<1> QED BY <1>1, <1>2, <1>3, Invariant, PTL DEF Spec

-----------------------------------------------------------------------------
(***************************************************************************)
(* The AnonCreds objects of an issuer (WebvhResource): no object or list   *)
(* is on the server, linked or held as finished that the witness has not   *)
(* signed, for any number of objects, calls and requests.                  *)
(***************************************************************************)
CONSTANTS Schemas, Definitions, Lists, InitialList, MaxRequests
VARIABLES server, links, reqs, index, update

RS == INSTANCE WebvhResource

\* Status lists are objects of a kind of their own.
KindsApart == Lists \cap (RS!Objects \cup {RS!Registry}) = {}

RegisterPc == {"look", "ask", "save", "upload", "wait", "woken", "resolve",
               "store wait", "store finished"}
RegisterTask == [pc : RegisterPc, of : RS!Resources, caller : {"issuer"},
                 of2 : RS!Resources, id : Nat]
LinkTask    == [pc : {"link", "store finished"}, of : RS!Resources, caller : {"issuer"},
                of2 : RS!Resources, links : SUBSET Lists]
NoteTask    == [pc : {"note"}, id : Nat, state : States, found : BOOLEAN]
KeepTask    == [pc : {"keep", "publish", "notify", "drop"}, id : Nat]
SaveTask    == [pc : {"save link"}, id : Nat, links : SUBSET Lists]
SendTask    == [pc : {"send link"}, id : Nat, link : Nat]
ObjectTask  == {RS!Idle} \cup RegisterTask \cup LinkTask \cup NoteTask \cup KeepTask
                  \cup SaveTask \cup SendTask
WitnessReq  == [of : RS!Resources \cup {RS!Registry}, links : SUBSET Lists,
                record : {RS!NoRecord} \cup States,
                witness : {"sent", "held", "told", "done", "unsent"},
                signed : BOOLEAN, answers : SUBSET States, unlisted : BOOLEAN]

ObjectTypes ==
    /\ server \subseteq RS!Resources \cup {RS!Registry} /\ links \subseteq Lists
    /\ local \in [RS!Objects -> {"none", "wait", "finished"}]
    /\ reqs \in Seq(WitnessReq)
    /\ task \in [Tasks -> ObjectTask]

\* The witness has signed the object, when there is one to ask.
Ok(of, R) == Mode = "agent" => \E i \in DOMAIN R : R[i].of = of /\ R[i].signed
Alike(of, other) == of = other \/ {of, other} \subseteq Lists

\* The requests: what says attested was signed, and a definition is only
\* asked for with links that are good.
Trusted(R) ==
    \A i \in DOMAIN R : /\ "attested" \in R[i].answers => R[i].signed
                        /\ \A l \in R[i].links : Ok(l, R)

\* The calls: one that was woken or goes on to finish is about an object that
\* was signed, one that links is about a list that was.
CallJust(r, R) ==
    /\ r.pc = "upload" => Mode # "agent" /\ r.of2 = r.of
    /\ r.pc \in {"look", "ask"} => r.of2 = r.of
    /\ r.pc \in {"save", "wait", "woken"} => r.id \in DOMAIN R
    /\ r.pc = "wait" => R[r.id].of = r.of2
    /\ r.pc \in {"wait", "woken"} => Alike(r.of, r.of2)
    /\ r.pc \in {"woken", "resolve", "link"} => Ok(r.of2, R)
    /\ r.pc \in {"resolve", "link"} => r.of \in Lists /\ r.of2 \in Lists
    /\ r.pc = "link" => \A l \in r.links : Ok(l, R)
    /\ r.pc = "store finished" /\ r.of \in RS!Objects => Ok(r.of, R)
\* The handlers: one that keeps or publishes has the witness's signature.
HandlerJust(r, R) ==
    /\ r.pc \in {"note", "keep", "save link", "send link", "publish", "notify", "drop"}
         => r.id \in DOMAIN R
    /\ r.pc = "note" /\ r.state = "attested" => R[r.id].signed
    /\ r.pc \in {"keep", "save link", "send link", "publish", "notify"} => R[r.id].signed
    /\ r.pc = "save link" => R[r.id].of \in Lists /\ \A l \in r.links : Ok(l, R)
    /\ r.pc = "send link" => r.link \in DOMAIN R
Just(r, R) == CallJust(r, R) /\ HandlerJust(r, R)

ServedOk == \A of \in (server \cup links) \ {RS!Registry} : Ok(of, reqs)
HeldOk   == \A o \in RS!Objects : local[o] = "finished" => Ok(o, reqs)

ObjectInv ==
    /\ ObjectTypes /\ Trusted(reqs) /\ ServedOk /\ HeldOk
    /\ \A t \in Tasks : Just(task[t], reqs)

-----------------------------------------------------------------------------
LEMMA ObjectKinds ==
    ASSUME NEW r \in ObjectTask
    PROVE  /\ r.pc \in RegisterPc \ {"store finished"} => r \in RegisterTask
           /\ r.pc = "link" => r \in LinkTask
           /\ r.pc = "store finished" => r \in RegisterTask \/ r \in LinkTask
           /\ r.pc = "note" => r \in NoteTask
           /\ r.pc \in {"keep", "publish", "notify", "drop"} => r \in KeepTask
           /\ r.pc = "save link" => r \in SaveTask
           /\ r.pc = "send link" => r \in SendTask
<1>1. RS!Idle.pc = "idle"
  BY DEF RS!Idle
<1>2. CASE r = RS!Idle
  BY <1>1, <1>2 DEF RegisterPc
<1>3. CASE r \in RegisterTask
  BY <1>3 DEF RegisterTask, RegisterPc
<1>4. CASE r \in LinkTask
  BY <1>4 DEF LinkTask, RegisterPc
<1>5. CASE r \in NoteTask
  BY <1>5 DEF NoteTask, RegisterPc
<1>6. CASE r \in KeepTask
  BY <1>6 DEF KeepTask, RegisterPc
<1>7. CASE r \in SendTask
  BY <1>7 DEF SendTask, RegisterPc
<1>8. CASE r \in SaveTask
  BY <1>8 DEF SaveTask, RegisterPc
<1> QED BY <1>2, <1>3, <1>4, <1>5, <1>6, <1>7, <1>8 DEF ObjectTask

\* Requests are added, and what is signed stays signed.
Grown(R, S) ==
    \A i \in DOMAIN R : i \in DOMAIN S /\ S[i].of = R[i].of /\ (R[i].signed => S[i].signed)

LEMMA SameGrown == ASSUME NEW R PROVE Grown(R, R)
BY DEF Grown

LEMMA OkGrows ==
    ASSUME NEW R, NEW S, Grown(R, S), NEW of, Ok(of, R)
    PROVE  Ok(of, S)
BY DEF Grown, Ok

LEMMA JustGrows ==
    ASSUME NEW R, NEW S, Grown(R, S), NEW r, Just(r, R)
    PROVE  Just(r, S)
<1>1. CallJust(r, S)
  <2>1. CallJust(r, R)
    BY DEF Just
  <2>2. r.pc \in {"save", "wait", "woken"} => r.id \in DOMAIN S
    BY <2>1 DEF CallJust, Grown
  <2>3. r.pc = "wait" => S[r.id].of = r.of2
    BY <2>1 DEF CallJust, Grown
  <2>4. r.pc \in {"woken", "resolve", "link"} => Ok(r.of2, S)
    BY <2>1, OkGrows DEF CallJust
  <2>5. r.pc = "link" => \A l \in r.links : Ok(l, S)
    BY <2>1, OkGrows DEF CallJust
  <2>6. r.pc = "store finished" /\ r.of \in RS!Objects => Ok(r.of, S)
    BY <2>1, OkGrows DEF CallJust
  <2> QED BY <2>1, <2>2, <2>3, <2>4, <2>5, <2>6 DEF CallJust
<1>2. HandlerJust(r, S)
  <2>1. HandlerJust(r, R)
    BY DEF Just
  <2>2. r.pc = "save link" => \A l \in r.links : Ok(l, S)
    BY <2>1, OkGrows DEF HandlerJust
  <2> QED BY <2>1, <2>2 DEF HandlerJust, Grown
<1> QED BY <1>1, <1>2 DEF Just

\* One request changes: the object, its links and a signature stay.
LEMMA RequestChanged ==
    ASSUME reqs \in Seq(WitnessReq), Trusted(reqs), NEW i \in DOMAIN reqs, NEW v \in WitnessReq,
           v.of = reqs[i].of, v.links = reqs[i].links, reqs[i].signed => v.signed,
           "attested" \in v.answers => v.signed,
           reqs' = [reqs EXCEPT ![i] = v]
    PROVE  reqs' \in Seq(WitnessReq) /\ Grown(reqs, reqs') /\ Trusted(reqs')
<1>1. /\ reqs' \in Seq(WitnessReq) /\ DOMAIN reqs' = DOMAIN reqs /\ reqs'[i] = v
      /\ \A j \in DOMAIN reqs : j # i => reqs'[j] = reqs[j]
  OBVIOUS
<1>2. Grown(reqs, reqs')
  BY <1>1 DEF Grown
<1>3. ASSUME NEW j \in DOMAIN reqs'
      PROVE  /\ "attested" \in reqs'[j].answers => reqs'[j].signed
             /\ \A l \in reqs'[j].links : Ok(l, reqs')
  <2>1. "attested" \in reqs'[j].answers => reqs'[j].signed
    BY <1>1 DEF Trusted
  <2>2. reqs'[j].links = reqs[j].links
    BY <1>1
  <2>3. \A l \in reqs[j].links : Ok(l, reqs)
    BY <1>1 DEF Trusted
  <2> QED BY <1>2, <2>1, <2>2, <2>3, OkGrows
<1>4. Trusted(reqs')
  BY <1>3 DEF Trusted
<1> QED BY <1>1, <1>2, <1>4

\* A request is added that has no answer yet and good links.
LEMMA RequestAdded ==
    ASSUME reqs \in Seq(WitnessReq), Trusted(reqs), NEW v \in WitnessReq,
           v.answers = {}, \A l \in v.links : Ok(l, reqs), reqs' = Append(reqs, v)
    PROVE  /\ reqs' \in Seq(WitnessReq) /\ Grown(reqs, reqs') /\ Trusted(reqs')
           /\ Len(reqs) + 1 \in DOMAIN reqs'
<1>1. /\ reqs' \in Seq(WitnessReq) /\ DOMAIN reqs' = DOMAIN reqs \cup {Len(reqs) + 1}
      /\ Len(reqs) + 1 \notin DOMAIN reqs
      /\ reqs'[Len(reqs) + 1] = v /\ \A j \in DOMAIN reqs : reqs'[j] = reqs[j]
  OBVIOUS
<1>2. Grown(reqs, reqs')
  BY <1>1 DEF Grown
<1>3. ASSUME NEW j \in DOMAIN reqs'
      PROVE  /\ "attested" \in reqs'[j].answers => reqs'[j].signed
             /\ \A l \in reqs'[j].links : Ok(l, reqs')
  <2>1. CASE j = Len(reqs) + 1
    BY <1>1, <1>2, <2>1, OkGrows
  <2>2. CASE j \in DOMAIN reqs
    <3>1. \A l \in reqs[j].links : Ok(l, reqs)
      BY <2>2 DEF Trusted
    <3>2. "attested" \in reqs[j].answers => reqs[j].signed
      BY <2>2 DEF Trusted
    <3>3. reqs'[j] = reqs[j]
      BY <1>1, <2>2
    <3> QED BY <1>2, <3>1, <3>2, <3>3, OkGrows
  <2> QED BY <1>1, <2>1, <2>2
<1>4. Trusted(reqs')
  BY <1>3 DEF Trusted
<1> QED BY <1>1, <1>2, <1>4

-----------------------------------------------------------------------------
\* One task goes on, the requests grow, and what is served and held stays.
LEMMA TaskGoesOn ==
    ASSUME task \in [Tasks -> ObjectTask], \A s \in Tasks : Just(task[s], reqs),
           Grown(reqs, reqs'), NEW t \in Tasks, NEW r \in ObjectTask, Just(r, reqs'),
           task' = [task EXCEPT ![t] = r]
    PROVE  task' \in [Tasks -> ObjectTask] /\ \A s \in Tasks : Just(task'[s], reqs')
<1>1. task' \in [Tasks -> ObjectTask] /\ task'[t] = r
  OBVIOUS
<1>2. \A s \in Tasks : s # t => task'[s] = task[s]
  OBVIOUS
<1>3. \A s \in Tasks : s # t => Just(task'[s], reqs')
  BY <1>2, JustGrows
<1> QED BY <1>1, <1>3

LEMMA ServedStays ==
    ASSUME ObjectInv, Grown(reqs, reqs'), UNCHANGED <<server, links>>
    PROVE  ServedOk'
BY OkGrows DEF ObjectInv, ServedOk

LEMMA HeldStays ==
    ASSUME ObjectInv, Grown(reqs, reqs'), UNCHANGED local
    PROVE  HeldOk'
BY OkGrows DEF ObjectInv, HeldOk

LEMMA Advances ==
    ASSUME ObjectInv, reqs' \in Seq(WitnessReq), Grown(reqs, reqs'), Trusted(reqs'),
           UNCHANGED <<server, links, local>>,
           NEW t \in Tasks, NEW r \in ObjectTask, Just(r, reqs'), task' = [task EXCEPT ![t] = r]
    PROVE  ObjectInv'
<1>1. task' \in [Tasks -> ObjectTask] /\ \A s \in Tasks : Just(task'[s], reqs')
  BY TaskGoesOn DEF ObjectInv, ObjectTypes
<1>2. ObjectTypes'
  BY <1>1 DEF ObjectInv, ObjectTypes
<1> QED BY <1>1, <1>2, ServedStays, HeldStays DEF ObjectInv

LEMMA IdleJust == ASSUME NEW R PROVE RS!Idle \in ObjectTask /\ Just(RS!Idle, R)
BY DEF RS!Idle, ObjectTask, Just, CallJust, HandlerJust

\* Nothing but a task changes.
LEMMA OnlyTask ==
    ASSUME ObjectInv, UNCHANGED <<server, links, reqs, local>>,
           NEW t \in Tasks, NEW r \in ObjectTask, Just(r, reqs), task' = [task EXCEPT ![t] = r]
    PROVE  ObjectInv'
<1>1. reqs' = reqs /\ Grown(reqs, reqs')
  BY SameGrown
<1>2. reqs' \in Seq(WitnessReq) /\ Trusted(reqs')
  BY <1>1 DEF ObjectInv, ObjectTypes
<1>3. Just(r, reqs')
  BY <1>1
<1> QED BY <1>1, <1>2, <1>3, Advances

LEMMA FailKeeps ==
    ASSUME ObjectInv, NEW t \in Tasks, NEW of, RS!Fail(t, of),
           UNCHANGED <<server, links, reqs, local>>
    PROVE  ObjectInv'
<1>1. task' = [task EXCEPT ![t] = RS!Idle]
  BY DEF RS!Fail
<1> QED BY <1>1, IdleJust, OnlyTask

LEMMA TaskKnown ==
    ASSUME ObjectInv, NEW t \in Tasks
    PROVE  /\ task[t] \in ObjectTask /\ CallJust(task[t], reqs) /\ HandlerJust(task[t], reqs)
           /\ reqs \in Seq(WitnessReq) /\ Trusted(reqs)
BY DEF ObjectInv, ObjectTypes, Just

-----------------------------------------------------------------------------
LEMMA RegisterKeeps ==
    ASSUME ObjectInv, NEW t \in Tasks, NEW of \in RS!Resources, RS!Register(t, of)
    PROVE  ObjectInv'
<1> DEFINE pc == CASE Mode = "agent" -> "look"
                   [] Mode = "self" /\ ~AutoAttest -> "ask"
                   [] OTHER -> "upload"
           r == [pc |-> pc, of |-> of, caller |-> "issuer", of2 |-> of, id |-> 0]
<1>1. task' = [task EXCEPT ![t] = r] /\ UNCHANGED <<server, links, reqs, local>>
  BY DEF RS!Register
<1>2. pc \in {"look", "ask", "upload"} /\ (Mode = "agent" => pc = "look")
  OBVIOUS
<1> HIDE DEF pc
<1>3. r \in ObjectTask
  BY <1>2 DEF RegisterTask, RegisterPc, ObjectTask
<1>4. Just(r, reqs)
  BY <1>2 DEF Just, CallJust, HandlerJust
<1> HIDE DEF r
<1> QED BY <1>1, <1>3, <1>4, OnlyTask

\* A request that is found is for the object, or both are lists.
LEMMA LookKeeps ==
    ASSUME ObjectInv, NEW t \in Tasks, RS!Look(t)
    PROVE  ObjectInv'
<1>1. /\ task[t] \in RegisterTask /\ task[t].pc = "look" /\ task[t].of2 = task[t].of
      /\ UNCHANGED <<server, links, reqs, local>>
  BY TaskKnown, ObjectKinds DEF RS!Look, RegisterPc, CallJust
<1>2. CASE RS!Goto(t, "ask")
  <2> DEFINE r == [task[t] EXCEPT !.pc = "ask"]
  <2>1. task' = [task EXCEPT ![t] = r]
    BY <1>2 DEF RS!Goto
  <2>2. r \in RegisterTask /\ r.pc = "ask" /\ r.of2 = r.of
    BY <1>1 DEF RegisterTask, RegisterPc
  <2>3. Just(r, reqs)
    BY <2>2 DEF Just, CallJust, HandlerJust
  <2> HIDE DEF r
  <2> QED BY <1>1, <2>1, <2>2, <2>3, OnlyTask DEF ObjectTask
<1>3. ASSUME NEW i \in RS!Listed, RS!Same(reqs[i], task[t].of),
             task' = [task EXCEPT ![t].pc = "wait", ![t].id = i, ![t].of2 = reqs[i].of]
      PROVE  ObjectInv'
  <2> DEFINE r == [task[t] EXCEPT !.pc = "wait", !.id = i, !.of2 = reqs[i].of]
  <2>1. task' = [task EXCEPT ![t] = r]
    BY <1>3
  <2>2. reqs \in Seq(WitnessReq)
    BY TaskKnown
  <2>5. i \in DOMAIN reqs /\ RS!Same(reqs[i], task[t].of)
    BY <1>3 DEF RS!Listed
  <2>6. Alike(task[t].of, reqs[i].of) /\ reqs[i].of \in RS!Resources
    BY <1>1, <2>5 DEF RS!Same, Alike, RegisterTask, RS!Resources
  <2>7. i \in Nat
    BY <2>2, <2>5
  <2>8. /\ r \in RegisterTask /\ r.pc = "wait" /\ r.id = i /\ r.of2 = reqs[i].of
        /\ r.of = task[t].of
    BY <1>1, <2>6, <2>7 DEF RegisterTask, RegisterPc
  <2> HIDE DEF r
  <2>9. Just(r, reqs)
    BY <2>5, <2>6, <2>8 DEF Just, CallJust, HandlerJust
  <2> QED BY <1>1, <2>1, <2>8, <2>9, OnlyTask DEF ObjectTask
<1> QED BY <1>2, <1>3 DEF RS!Look

LEMMA AskKeeps ==
    ASSUME ObjectInv, NEW t \in Tasks, RS!Ask(t)
    PROVE  ObjectInv'
<1>1. /\ task[t] \in RegisterTask /\ task[t].pc = "ask"
      /\ UNCHANGED <<server, links, local>> /\ reqs \in Seq(WitnessReq) /\ Trusted(reqs)
  BY TaskKnown, ObjectKinds DEF RS!Ask, RegisterPc
<1>2. CASE RS!Fail(t, task[t].of) /\ UNCHANGED reqs
  BY <1>1, <1>2, FailKeeps
<1>3. ASSUME NEW v, v = IF Mode = "agent" THEN RS!Request(task[t].of, {}, RS!NoRecord, "sent")
                        ELSE RS!Request(task[t].of, {}, "pending", "done"),
             reqs' = Append(reqs, v),
             task' = [task EXCEPT ![t].pc = "save", ![t].id = Len(reqs) + 1]
      PROVE  ObjectInv'
  <2>1. v \in WitnessReq /\ v.answers = {} /\ v.links = {}
    BY <1>1, <1>3 DEF RS!Request, WitnessReq, RegisterTask, States
  <2>2. /\ reqs' \in Seq(WitnessReq) /\ Grown(reqs, reqs') /\ Trusted(reqs')
        /\ Len(reqs) + 1 \in DOMAIN reqs'
    BY <1>1, <1>3, <2>1, RequestAdded
  <2> DEFINE r == [task[t] EXCEPT !.pc = "save", !.id = Len(reqs) + 1]
  <2>3. task' = [task EXCEPT ![t] = r]
    BY <1>3
  <2>4. Len(reqs) + 1 \in Nat
    BY <1>1
  <2>5. r \in RegisterTask /\ r.pc = "save" /\ r.id = Len(reqs) + 1
    BY <1>1, <2>4 DEF RegisterTask, RegisterPc
  <2> HIDE DEF r
  <2>6. Just(r, reqs')
    BY <2>2, <2>5 DEF Just, CallJust, HandlerJust
  <2> QED BY <1>1, <2>2, <2>3, <2>5, <2>6, Advances DEF ObjectTask
<1> QED BY <1>2, <1>3 DEF RS!Ask

\* Of the request that a task is about, only the record changes.
LEMMA RecordSet ==
    ASSUME reqs \in Seq(WitnessReq), Trusted(reqs), NEW i \in DOMAIN reqs,
           NEW value \in {RS!NoRecord} \cup States,
           reqs' = [reqs EXCEPT ![i].record = value]
    PROVE  reqs' \in Seq(WitnessReq) /\ Grown(reqs, reqs') /\ Trusted(reqs')
<1> DEFINE v == [reqs[i] EXCEPT !.record = value]
<1>1. reqs[i] \in WitnessReq
  OBVIOUS
<1>2. /\ v \in WitnessReq /\ v.of = reqs[i].of /\ v.links = reqs[i].links
      /\ v.signed = reqs[i].signed /\ v.answers = reqs[i].answers
  BY <1>1 DEF WitnessReq
<1>3. "attested" \in reqs[i].answers => reqs[i].signed
  BY DEF Trusted
<1>4. reqs' = [reqs EXCEPT ![i] = v]
  OBVIOUS
<1> HIDE DEF v
<1> QED BY <1>2, <1>3, <1>4, RequestChanged

LEMMA SaveKeeps ==
    ASSUME ObjectInv, NEW t \in Tasks, RS!SavePending(t)
    PROVE  ObjectInv'
<1>1. /\ task[t] \in RegisterTask /\ task[t].id \in DOMAIN reqs
      /\ UNCHANGED <<server, links, local>> /\ reqs \in Seq(WitnessReq) /\ Trusted(reqs)
      /\ reqs' = [reqs EXCEPT ![task[t].id].record = "pending"]
  BY TaskKnown, ObjectKinds DEF RS!SavePending, RegisterPc, CallJust
<1>2. reqs' \in Seq(WitnessReq) /\ Grown(reqs, reqs') /\ Trusted(reqs')
  BY <1>1, RecordSet DEF States
<1> DEFINE r == [task[t] EXCEPT !.pc = "store wait"]
<1>3. task' = [task EXCEPT ![t] = r]
  BY DEF RS!SavePending, RS!Goto
<1>4. r \in RegisterTask /\ r.pc = "store wait"
  BY <1>1 DEF RegisterTask, RegisterPc
<1> HIDE DEF r
<1>5. Just(r, reqs')
  BY <1>4 DEF Just, CallJust, HandlerJust
<1> QED BY <1>1, <1>2, <1>3, <1>4, <1>5, Advances DEF ObjectTask

LEMMA UploadKeeps ==
    ASSUME ObjectInv, NEW t \in Tasks, RS!Upload(t)
    PROVE  ObjectInv'
<1>1. /\ task[t] \in RegisterTask /\ task[t].pc = "upload" /\ Mode # "agent"
      /\ task[t].of2 = task[t].of /\ task[t].of \in RS!Resources
      /\ UNCHANGED <<links, reqs, local>>
  BY TaskKnown, ObjectKinds DEF RS!Upload, RegisterPc, RegisterTask, CallJust
<1>2. \A of : Ok(of, reqs)
  BY <1>1 DEF Ok
<1>3. CASE RS!Refused(t, task[t].of) /\ UNCHANGED server
  BY <1>1, <1>3, FailKeeps DEF RS!Refused
<1>4. CASE /\ server' = server \cup {task[t].of}
           /\ RS!Goto(t, IF task[t].of \in Lists THEN "resolve" ELSE "store finished")
  <2> DEFINE pc == IF task[t].of \in Lists THEN "resolve" ELSE "store finished"
             r  == [task[t] EXCEPT !.pc = pc]
  <2>1. task' = [task EXCEPT ![t] = r]
    BY <1>4 DEF RS!Goto
  <2>2. pc \in {"resolve", "store finished"} /\ (pc = "resolve" => task[t].of \in Lists)
    OBVIOUS
  <2> HIDE DEF pc
  <2>3. /\ r \in RegisterTask /\ r.pc = pc /\ r.of = task[t].of /\ r.of2 = task[t].of
    BY <1>1, <2>2 DEF RegisterTask, RegisterPc
  <2> HIDE DEF r
  <2>4. Just(r, reqs)
    BY <1>2, <2>2, <2>3 DEF Just, CallJust, HandlerJust
  <2>5. reqs' = reqs /\ Grown(reqs, reqs')
    BY <1>1, SameGrown
  <2>6. Just(r, reqs')
    BY <2>4, <2>5
  <2>7. r \in ObjectTask
    BY <2>3 DEF ObjectTask
  <2>8. task' \in [Tasks -> ObjectTask] /\ \A s \in Tasks : Just(task'[s], reqs')
    BY <2>1, <2>5, <2>6, <2>7, TaskGoesOn DEF ObjectInv, ObjectTypes
  <2>9. ObjectTypes'
    BY <1>1, <1>4, <2>8 DEF ObjectInv, ObjectTypes
  <2>10. ServedOk' /\ HeldOk'
    BY <1>2, <2>5 DEF ServedOk, HeldOk
  <2> QED BY <2>5, <2>8, <2>9, <2>10 DEF ObjectInv
<1> QED BY <1>3, <1>4 DEF RS!Upload

LEMMA TimeOutKeeps ==
    ASSUME ObjectInv, NEW t \in Tasks, RS!TimeOut(t)
    PROVE  ObjectInv'
BY FailKeeps DEF RS!TimeOut

LEMMA WakeKeeps ==
    ASSUME ObjectInv, NEW t \in Tasks, RS!Wake(t)
    PROVE  ObjectInv'
<1>1. /\ task[t] \in RegisterTask /\ task[t].id \in DOMAIN reqs
      /\ Alike(task[t].of, task[t].of2) /\ Ok(task[t].of2, reqs)
      /\ UNCHANGED <<server, links, local>> /\ reqs \in Seq(WitnessReq) /\ Trusted(reqs)
      /\ reqs' = [reqs EXCEPT ![task[t].id].record = RS!NoRecord]
  BY TaskKnown, ObjectKinds DEF RS!Wake, RegisterPc, CallJust
<1>2. reqs' \in Seq(WitnessReq) /\ Grown(reqs, reqs') /\ Trusted(reqs')
  BY <1>1, RecordSet
<1>3. Ok(task[t].of2, reqs')
  BY <1>1, <1>2, OkGrows
<1> DEFINE pc == IF task[t].of \in Lists THEN "resolve" ELSE "store finished"
           r  == [task[t] EXCEPT !.pc = pc]
<1>4. task' = [task EXCEPT ![t] = r]
  BY DEF RS!Wake, RS!Goto
<1>5. \/ pc = "resolve" /\ task[t].of \in Lists /\ task[t].of2 \in Lists
      \/ pc = "store finished" /\ task[t].of2 = task[t].of
  BY <1>1 DEF Alike
<1> HIDE DEF pc
<1>6. r \in RegisterTask /\ r.pc = pc /\ r.of = task[t].of /\ r.of2 = task[t].of2
  BY <1>1, <1>5 DEF RegisterTask, RegisterPc
<1> HIDE DEF r
<1>7. Just(r, reqs')
  BY <1>3, <1>5, <1>6 DEF Just, CallJust, HandlerJust
<1> QED BY <1>1, <1>2, <1>4, <1>6, <1>7, Advances DEF ObjectTask

LEMMA LinksOk == ASSUME KindsApart, ObjectInv PROVE \A l \in links : Ok(l, reqs)
BY DEF KindsApart, ObjectInv, ObjectTypes, ServedOk

LEMMA ResolveKeeps ==
    ASSUME KindsApart, ObjectInv, NEW t \in Tasks, RS!Resolve(t)
    PROVE  ObjectInv'
<1> DEFINE its == IF task[t].of = InitialList THEN {} ELSE links
           r == [pc |-> "link", caller |-> "issuer", of |-> task[t].of, of2 |-> task[t].of2,
                 links |-> its]
<1>1. /\ task[t] \in RegisterTask /\ UNCHANGED <<server, links, reqs, local>>
      /\ Ok(task[t].of2, reqs) /\ task[t].of \in Lists /\ task[t].of2 \in Lists
  BY TaskKnown, ObjectKinds DEF RS!Resolve, RegisterPc, CallJust
<1>2. its \subseteq Lists /\ \A l \in its : Ok(l, reqs)
  BY LinksOk DEF ObjectInv, ObjectTypes
<1>3. CASE RS!Fail(t, task[t].of)
  BY <1>1, <1>3, FailKeeps
<1>4. CASE task' = [task EXCEPT ![t] = r]
  <2> HIDE DEF its
  <2>1. r \in LinkTask /\ r.pc = "link"
    BY <1>1, <1>2 DEF RegisterTask, LinkTask
  <2>2. Just(r, reqs)
    BY <1>1, <1>2 DEF Just, CallJust, HandlerJust
  <2> HIDE DEF r
  <2> QED BY <1>1, <1>4, <2>1, <2>2, OnlyTask DEF ObjectTask
<1> QED BY <1>3, <1>4 DEF RS!Resolve

LEMMA LinkKeeps ==
    ASSUME KindsApart, ObjectInv, NEW t \in Tasks, RS!UpdateLinks(t)
    PROVE  ObjectInv'
<1>1. /\ task[t] \in LinkTask /\ UNCHANGED <<server, reqs, local>>
      /\ Ok(task[t].of2, reqs) /\ task[t].of \in Lists /\ task[t].of2 \in Lists
      /\ \A l \in task[t].links : Ok(l, reqs)
  BY TaskKnown, ObjectKinds DEF RS!UpdateLinks, CallJust
<1>2. CASE RS!Fail(t, task[t].of) /\ UNCHANGED links
  BY <1>1, <1>2, FailKeeps
<1>3. CASE links' = task[t].links \cup {task[t].of2} /\ RS!Goto(t, "store finished")
  <2> DEFINE r == [task[t] EXCEPT !.pc = "store finished"]
  <2>1. task' = [task EXCEPT ![t] = r]
    BY <1>3 DEF RS!Goto
  <2>2. r \in LinkTask /\ r.pc = "store finished" /\ r.of = task[t].of
    BY <1>1 DEF LinkTask
  <2> HIDE DEF r
  <2>3. r.of \notin RS!Objects
    BY <1>1, <2>2 DEF KindsApart
  <2>4. reqs' = reqs /\ Grown(reqs, reqs')
    BY <1>1, SameGrown
  <2>5. Just(r, reqs')
    BY <2>2, <2>3 DEF Just, CallJust, HandlerJust
  <2>6. task' \in [Tasks -> ObjectTask] /\ \A s \in Tasks : Just(task'[s], reqs')
    BY <2>1, <2>2, <2>4, <2>5, TaskGoesOn DEF ObjectInv, ObjectTypes, ObjectTask
  <2>7. links' \subseteq Lists /\ \A l \in links' : Ok(l, reqs)
    BY <1>1, <1>3 DEF LinkTask
  <2>8. ObjectTypes'
    BY <1>1, <2>6, <2>7 DEF ObjectInv, ObjectTypes
  <2>9. ServedOk'
    BY <1>1, <2>7 DEF ObjectInv, ServedOk
  <2> QED BY <1>1, <2>4, <2>6, <2>8, <2>9, HeldStays DEF ObjectInv
<1> QED BY <1>2, <1>3 DEF RS!UpdateLinks

LEMMA StoreKeeps ==
    ASSUME ObjectInv, NEW t \in Tasks, NEW state \in {"wait", "finished"}, RS!Store(t, state)
    PROVE  ObjectInv'
<1>1. /\ task[t] \in ObjectTask /\ UNCHANGED <<server, links, reqs>>
      /\ state = "finished" => task[t].pc = "store finished"
      /\ task' = [task EXCEPT ![t] = RS!Idle]
      /\ local' = IF task[t].of \in RS!Objects /\ local[task[t].of] = "none"
                  THEN [local EXCEPT ![task[t].of] = state] ELSE local
  BY TaskKnown DEF RS!Store
<1>2. state = "finished" /\ task[t].of \in RS!Objects => Ok(task[t].of, reqs)
  BY <1>1, TaskKnown DEF CallJust
<1>3. reqs' = reqs /\ Grown(reqs, reqs')
  BY <1>1, SameGrown
<1>4. task' \in [Tasks -> ObjectTask] /\ \A s \in Tasks : Just(task'[s], reqs')
  BY <1>1, <1>3, IdleJust, TaskGoesOn DEF ObjectInv, ObjectTypes
<1>5. local' \in [RS!Objects -> {"none", "wait", "finished"}]
  BY <1>1 DEF ObjectInv, ObjectTypes
<1>6. \A o \in RS!Objects : local'[o] = "finished" =>
         local[o] = "finished" \/ (o = task[t].of /\ state = "finished")
  BY <1>1 DEF ObjectInv, ObjectTypes
<1>7. HeldOk'
  BY <1>2, <1>3, <1>6 DEF ObjectInv, HeldOk
<1>8. ObjectTypes'
  BY <1>1, <1>4, <1>5 DEF ObjectInv, ObjectTypes
<1> QED BY <1>1, <1>3, <1>4, <1>7, <1>8, ServedStays DEF ObjectInv

-----------------------------------------------------------------------------
LEMMA AnswerChanges ==
    ASSUME reqs \in Seq(WitnessReq), Trusted(reqs), NEW i \in DOMAIN reqs,
           NEW state \in States, NEW witness \in {"held", "told", "done"}, NEW signed \in BOOLEAN,
           state = "attested" => signed, RS!Answer(i, state, witness, signed)
    PROVE  reqs' \in Seq(WitnessReq) /\ Grown(reqs, reqs') /\ Trusted(reqs')
<1> DEFINE v == [reqs[i] EXCEPT !.answers = @ \cup {state}, !.witness = witness,
                                !.signed = @ \/ signed]
<1>1. reqs[i] \in WitnessReq
  OBVIOUS
<1>2. /\ v.of = reqs[i].of /\ v.links = reqs[i].links
      /\ v.signed = (reqs[i].signed \/ signed) /\ v.answers = reqs[i].answers \cup {state}
  BY <1>1 DEF WitnessReq
<1>3. v \in WitnessReq
  BY <1>1 DEF WitnessReq
<1>4. "attested" \in reqs[i].answers => reqs[i].signed
  BY DEF Trusted
<1>5. reqs' = [reqs EXCEPT ![i] = v]
  BY DEF RS!Answer
<1> HIDE DEF v
<1>6. (reqs[i].signed => v.signed) /\ ("attested" \in v.answers => v.signed)
  BY <1>2, <1>4
<1> QED BY <1>2, <1>3, <1>5, <1>6, RequestChanged

\* The witness, and the controller's withdrawal, change one request.
LEMMA WitnessKeeps ==
    ASSUME ObjectInv, NEW i \in DOMAIN reqs,
           RS!ReceiveRequest(i) \/ RS!Approve(i) \/ RS!Release(i) \/ RS!Reject(i)
              \/ \E t \in Tasks : RS!Withdraw(t, i)
    PROVE  ObjectInv'
<1>1. reqs \in Seq(WitnessReq) /\ Trusted(reqs) /\ reqs[i] \in WitnessReq
  BY DEF ObjectInv, ObjectTypes
<1>2. UNCHANGED <<server, links, local, task>>
  BY DEF RS!ReceiveRequest, RS!Approve, RS!Release, RS!Reject, RS!Withdraw
<1>3. "attested" \in reqs[i].answers => reqs[i].signed
  BY DEF ObjectInv, Trusted
<1>4. reqs' \in Seq(WitnessReq) /\ Grown(reqs, reqs') /\ Trusted(reqs')
  <2>1. CASE \/ RS!Answer(i, "attested", "done", TRUE)
             \/ RS!Answer(i, "pending", "held", FALSE)
             \/ RS!Answer(i, "attested", "told", TRUE)
             \/ RS!Answer(i, "rejected", "done", FALSE)
    BY <1>1, <2>1, AnswerChanges DEF States
  <2>2. CASE reqs' = [reqs EXCEPT ![i].signed = TRUE]
    <3> DEFINE v == [reqs[i] EXCEPT !.signed = TRUE]
    <3>1. /\ v \in WitnessReq /\ v.of = reqs[i].of /\ v.links = reqs[i].links /\ v.signed
      BY <1>1 DEF WitnessReq
    <3>2. reqs' = [reqs EXCEPT ![i] = v]
      BY <2>2
    <3> HIDE DEF v
    <3> QED BY <1>1, <3>1, <3>2, RequestChanged
  <2>3. CASE reqs' = [reqs EXCEPT ![i].witness = "done"]
    <3> DEFINE v == [reqs[i] EXCEPT !.witness = "done"]
    <3>1. /\ v \in WitnessReq /\ v.of = reqs[i].of /\ v.links = reqs[i].links
          /\ v.signed = reqs[i].signed /\ v.answers = reqs[i].answers
      BY <1>1 DEF WitnessReq
    <3>2. reqs' = [reqs EXCEPT ![i] = v]
      BY <2>3
    <3> HIDE DEF v
    <3> QED BY <1>1, <1>3, <3>1, <3>2, RequestChanged
  <2>4. CASE reqs' = [reqs EXCEPT ![i].record = RS!NoRecord]
    BY <1>1, <2>4, RecordSet
  <2> QED BY <2>1, <2>2, <2>3, <2>4
          DEF RS!ReceiveRequest, RS!Approve, RS!Release, RS!Reject, RS!Withdraw
<1>5. ObjectTypes'
  BY <1>2, <1>4 DEF ObjectInv, ObjectTypes
<1>6. \A s \in Tasks : Just(task'[s], reqs')
  BY <1>2, <1>4, JustGrows DEF ObjectInv
<1> QED BY <1>2, <1>4, <1>5, <1>6, ServedStays, HeldStays DEF ObjectInv

LEMMA ReceiveKeeps ==
    ASSUME ObjectInv, NEW t \in Tasks, NEW i \in DOMAIN reqs, NEW state \in reqs[i].answers,
           RS!Receive(t, i, state)
    PROVE  ObjectInv'
<1>1. /\ reqs \in Seq(WitnessReq) /\ Trusted(reqs) /\ reqs[i] \in WitnessReq
      /\ UNCHANGED <<server, links, local>>
  BY DEF ObjectInv, ObjectTypes, RS!Receive
<1>2. "attested" \in reqs[i].answers => reqs[i].signed
  BY DEF ObjectInv, Trusted
<1> DEFINE v == [reqs[i] EXCEPT !.answers = @ \ {state}]
           found == reqs[i].record # RS!NoRecord
           r == [pc |-> "note", id |-> i, state |-> state, found |-> found]
<1>3. /\ v \in WitnessReq /\ v.of = reqs[i].of /\ v.links = reqs[i].links
      /\ v.signed = reqs[i].signed /\ v.answers \subseteq reqs[i].answers
  BY <1>1 DEF WitnessReq
<1>4. reqs' = [reqs EXCEPT ![i] = v]
  BY DEF RS!Receive
<1> HIDE DEF v
<1>5. reqs' \in Seq(WitnessReq) /\ Grown(reqs, reqs') /\ Trusted(reqs')
  BY <1>1, <1>2, <1>3, <1>4, RequestChanged
<1>6. task' = [task EXCEPT ![t] = r]
  BY DEF RS!Receive
<1>7. state \in States /\ i \in Nat
  BY <1>1 DEF WitnessReq
<1>8. found \in BOOLEAN
  OBVIOUS
<1> HIDE DEF found
<1>9. r \in NoteTask /\ r.pc = "note" /\ r.id = i /\ r.state = state
  BY <1>7, <1>8 DEF NoteTask
<1> HIDE DEF r
<1>10. i \in DOMAIN reqs' /\ (state = "attested" => reqs'[i].signed)
  BY <1>2, <1>5 DEF Grown
<1>11. Just(r, reqs')
  BY <1>9, <1>10 DEF Just, CallJust, HandlerJust
<1> QED BY <1>1, <1>5, <1>6, <1>9, <1>11, Advances DEF ObjectTask

\* A handler that read the record takes note in it, unless it is gone.
LEMMA NoteKeeps ==
    ASSUME ObjectInv, NEW t \in Tasks, RS!NoteState(t)
    PROVE  ObjectInv'
<1>1. /\ task[t] \in NoteTask /\ task[t].id \in DOMAIN reqs
      /\ task[t].state = "attested" => reqs[task[t].id].signed
      /\ UNCHANGED <<server, links, local>> /\ reqs \in Seq(WitnessReq) /\ Trusted(reqs)
  BY TaskKnown, ObjectKinds DEF RS!NoteState, HandlerJust
<1> DEFINE i == task[t].id
           value == IF task[t].found /\ reqs[i].record # RS!NoRecord
                    THEN task[t].state ELSE reqs[i].record
<1>2. reqs' = [reqs EXCEPT ![i].record = value]
  BY DEF RS!NoteState
<1>3. value \in {RS!NoRecord} \cup States /\ i \in Nat
  <2>1. reqs[i] \in WitnessReq
    BY <1>1
  <2>2. reqs[i].record \in {RS!NoRecord} \cup States
    BY <2>1 DEF WitnessReq
  <2>3. task[t].state \in States /\ i \in Nat
    BY <1>1 DEF NoteTask
  <2> QED BY <2>2, <2>3
<1> HIDE DEF value
<1>4. reqs' \in Seq(WitnessReq) /\ Grown(reqs, reqs') /\ Trusted(reqs')
  BY <1>1, <1>2, <1>3, RecordSet
<1>5. task[t].state \in States
  BY <1>1 DEF NoteTask
<1>6. CASE task[t].state = "pending"
  <2>1. task' = [task EXCEPT ![t] = RS!Idle]
    BY <1>6 DEF RS!NoteState, RS!Handling
  <2> QED BY <1>1, <1>4, <2>1, IdleJust, Advances
<1>7. CASE task[t].state # "pending"
  <2> DEFINE pc == RS!Handling(task[t].state)
             r == [pc |-> pc, id |-> i]
  <2>1. /\ pc \in {"drop", "keep"} /\ (pc = "keep" => task[t].state = "attested")
    BY <1>5, <1>7 DEF RS!Handling, States
  <2>2. task' = [task EXCEPT ![t] = r]
    BY <2>1 DEF RS!NoteState
  <2> HIDE DEF pc
  <2>3. r \in KeepTask /\ r.pc = pc /\ r.id = i
    BY <1>3, <2>1 DEF KeepTask
  <2> HIDE DEF r
  <2>4. i \in DOMAIN reqs' /\ (task[t].state = "attested" => reqs'[i].signed)
    BY <1>1, <1>4 DEF Grown
  <2>5. Just(r, reqs')
    BY <2>1, <2>3, <2>4 DEF Just, CallJust, HandlerJust
  <2> QED BY <1>1, <1>4, <2>2, <2>3, <2>5, Advances DEF ObjectTask
<1> QED BY <1>6, <1>7

LEMMA KeepKeeps ==
    ASSUME KindsApart, ObjectInv, NEW t \in Tasks, RS!Keep(t)
    PROVE  ObjectInv'
<1> DEFINE i == task[t].id
           of == reqs[i].of
<1>1. /\ task[t] \in KeepTask /\ i \in DOMAIN reqs /\ reqs[i].signed
      /\ UNCHANGED <<server, links, reqs>> /\ local' = RS!WithFinished(of)
      /\ reqs \in Seq(WitnessReq)
  BY TaskKnown, ObjectKinds DEF RS!Keep, HandlerJust
<1>2. i \in Nat
  BY <1>1 DEF KeepTask
<1>3. \E r \in ObjectTask : Just(r, reqs) /\ task' = [task EXCEPT ![t] = r]
  <2>1. ASSUME of \in Lists, task' = [task EXCEPT ![t] =
                  [pc |-> "save link", id |-> @.id, links |-> links]]
        PROVE  \E r \in ObjectTask : Just(r, reqs) /\ task' = [task EXCEPT ![t] = r]
    <3> DEFINE r == [pc |-> "save link", id |-> i, links |-> links]
    <3>1. task' = [task EXCEPT ![t] = r]
      BY <2>1
    <3>2. r \in SaveTask /\ r.pc = "save link" /\ r.id = i /\ r.links = links
      BY <1>2 DEF SaveTask, ObjectInv, ObjectTypes
    <3> HIDE DEF r
    <3>3. Just(r, reqs)
      BY <1>1, <2>1, <3>2, LinksOk DEF Just, CallJust, HandlerJust
    <3> QED BY <3>1, <3>2, <3>3 DEF ObjectTask
  <2>2. ASSUME RS!Goto(t, "publish")
        PROVE  \E r \in ObjectTask : Just(r, reqs) /\ task' = [task EXCEPT ![t] = r]
    <3> DEFINE r == [task[t] EXCEPT !.pc = "publish"]
    <3>1. task' = [task EXCEPT ![t] = r]
      BY <2>2 DEF RS!Goto
    <3>2. r \in KeepTask /\ r.pc = "publish" /\ r.id = i
      BY <1>1 DEF KeepTask
    <3> HIDE DEF r
    <3>3. Just(r, reqs)
      BY <1>1, <3>2 DEF Just, CallJust, HandlerJust
    <3> QED BY <3>1, <3>2, <3>3 DEF ObjectTask
  <2> QED BY <2>1, <2>2 DEF RS!Keep
<1>4. reqs' = reqs /\ Grown(reqs, reqs')
  BY <1>1, SameGrown
<1>5. PICK r \in ObjectTask : Just(r, reqs) /\ task' = [task EXCEPT ![t] = r]
  BY <1>3
<1>6. task' \in [Tasks -> ObjectTask] /\ \A s \in Tasks : Just(task'[s], reqs')
  BY <1>4, <1>5, TaskGoesOn DEF ObjectInv, ObjectTypes
<1>7. /\ local' \in [RS!Objects -> {"none", "wait", "finished"}]
      /\ \A o \in RS!Objects : local'[o] = "finished" => local[o] = "finished" \/ o = of
  BY <1>1 DEF ObjectInv, ObjectTypes, RS!WithFinished
<1>8. Ok(of, reqs)
  BY <1>1 DEF Ok
<1>9. HeldOk'
  BY <1>4, <1>7, <1>8 DEF ObjectInv, HeldOk
<1>10. ObjectTypes'
  BY <1>1, <1>6, <1>7 DEF ObjectInv, ObjectTypes
<1> QED BY <1>1, <1>4, <1>6, <1>9, <1>10, ServedStays DEF ObjectInv

LEMMA SaveLinkKeeps ==
    ASSUME ObjectInv, NEW t \in Tasks, RS!SaveLink(t)
    PROVE  ObjectInv'
<1> DEFINE i == task[t].id
           of == reqs[i].of
           its == task[t].links \cup {of}
           v == RS!Request(RS!Registry, its, "pending", "unsent")
           r == [pc |-> "send link", id |-> i, link |-> Len(reqs) + 1]
<1>1. /\ task[t] \in SaveTask /\ i \in DOMAIN reqs /\ reqs[i].signed /\ of \in Lists
      /\ \A l \in task[t].links : Ok(l, reqs)
      /\ UNCHANGED <<server, links, local>> /\ reqs \in Seq(WitnessReq) /\ Trusted(reqs)
  BY TaskKnown, ObjectKinds DEF RS!SaveLink, HandlerJust
<1>2. its \subseteq Lists /\ \A l \in its : Ok(l, reqs)
  BY <1>1 DEF SaveTask, Ok
<1>3. reqs' = Append(reqs, v) /\ task' = [task EXCEPT ![t] = r]
  BY DEF RS!SaveLink
<1> HIDE DEF its
<1>4. v \in WitnessReq /\ v.answers = {} /\ v.links = its
  BY <1>2 DEF RS!Request, WitnessReq, States
<1> HIDE DEF v
<1>5. /\ reqs' \in Seq(WitnessReq) /\ Grown(reqs, reqs') /\ Trusted(reqs')
      /\ Len(reqs) + 1 \in DOMAIN reqs'
  BY <1>1, <1>2, <1>3, <1>4, RequestAdded
<1>6. Len(reqs) + 1 \in Nat
  BY <1>1
<1>7. r \in SendTask /\ r.pc = "send link" /\ r.id = i /\ r.link = Len(reqs) + 1
  BY <1>1, <1>6 DEF SaveTask, SendTask
<1> HIDE DEF r
<1>8. i \in DOMAIN reqs' /\ reqs'[i].signed
  BY <1>1, <1>5 DEF Grown
<1>9. Just(r, reqs')
  BY <1>5, <1>7, <1>8 DEF Just, CallJust, HandlerJust
<1> QED BY <1>1, <1>3, <1>5, <1>7, <1>9, Advances DEF ObjectTask

LEMMA SendLinkKeeps ==
    ASSUME ObjectInv, NEW t \in Tasks, RS!SendLink(t)
    PROVE  ObjectInv'
<1> DEFINE i == task[t].id
           k == task[t].link
           v == [reqs[k] EXCEPT !.witness = "sent"]
           r == [pc |-> "publish", id |-> i]
<1>1. /\ task[t] \in SendTask /\ i \in DOMAIN reqs /\ reqs[i].signed /\ k \in DOMAIN reqs
      /\ UNCHANGED <<server, links, local>> /\ reqs \in Seq(WitnessReq) /\ Trusted(reqs)
  BY TaskKnown, ObjectKinds DEF RS!SendLink, HandlerJust
<1>2. reqs' \in Seq(WitnessReq) /\ Grown(reqs, reqs') /\ Trusted(reqs')
  <2>1. reqs[k] \in WitnessReq /\ ("attested" \in reqs[k].answers => reqs[k].signed)
    <3>1. reqs \in Seq(WitnessReq) /\ k \in DOMAIN reqs
      BY <1>1
    <3> HIDE DEF k
    <3> QED BY <1>1, <3>1 DEF Trusted
  <2>2. CASE reqs' = [reqs EXCEPT ![k].witness = "sent"]
    <3>1. /\ v \in WitnessReq /\ v.of = reqs[k].of /\ v.links = reqs[k].links
          /\ v.signed = reqs[k].signed /\ v.answers = reqs[k].answers
      BY <2>1 DEF WitnessReq
    <3>2. reqs' = [reqs EXCEPT ![k] = v]
      BY <2>2
    <3>3. k \in DOMAIN reqs
      BY <1>1
    <3> HIDE DEF v, k
    <3> QED BY <1>1, <2>1, <3>1, <3>2, <3>3, RequestChanged
  <2>3. CASE UNCHANGED reqs
    BY <1>1, <2>3, SameGrown
  <2> QED BY <2>2, <2>3 DEF RS!SendLink
<1>3. task' = [task EXCEPT ![t] = r]
  BY DEF RS!SendLink
<1>4. r \in KeepTask /\ r.pc = "publish" /\ r.id = i
  BY <1>1 DEF SendTask, KeepTask
<1> HIDE DEF r
<1>5. i \in DOMAIN reqs' /\ reqs'[i].signed
  BY <1>1, <1>2 DEF Grown
<1>6. Just(r, reqs')
  BY <1>4, <1>5 DEF Just, CallJust, HandlerJust
<1> QED BY <1>1, <1>2, <1>3, <1>4, <1>6, Advances DEF ObjectTask

\* What a handler uploads was signed, and the links of a definition are of
\* lists that were.
LEMMA PublishKeeps ==
    ASSUME ObjectInv, NEW t \in Tasks, RS!Publish(t)
    PROVE  ObjectInv'
<1> DEFINE i == task[t].id
<1>1. /\ task[t] \in KeepTask /\ i \in DOMAIN reqs /\ reqs[i].signed
      /\ reqs[i] \in WitnessReq /\ UNCHANGED <<reqs, local>>
  <2>1. task[t].pc = "publish" /\ UNCHANGED <<reqs, local>>
    BY DEF RS!Publish
  <2>2. task[t] \in KeepTask
    BY <2>1, TaskKnown, ObjectKinds
  <2>3. i \in DOMAIN reqs /\ reqs[i].signed
    BY <2>1, TaskKnown DEF HandlerJust
  <2>4. reqs[i] \in WitnessReq
    BY <2>3, TaskKnown
  <2> QED BY <2>1, <2>2, <2>3, <2>4
<1>2. reqs' = reqs /\ Grown(reqs, reqs')
  BY <1>1, SameGrown
<1>3. CASE task' = [task EXCEPT ![t] = RS!Idle] /\ UNCHANGED <<server, links>>
  BY <1>1, <1>3, IdleJust, OnlyTask
<1>4. CASE /\ server' = server \cup {reqs[i].of}
           /\ links' = IF reqs[i].of = RS!Registry THEN reqs[i].links ELSE links
           /\ RS!Goto(t, "notify")
  <2> DEFINE r == [task[t] EXCEPT !.pc = "notify"]
  <2>1. task' = [task EXCEPT ![t] = r]
    BY <1>4 DEF RS!Goto
  <2>2. r \in KeepTask /\ r.pc = "notify" /\ r.id = i
    BY <1>1 DEF KeepTask
  <2> HIDE DEF r
  <2>3. Just(r, reqs')
    BY <1>1, <2>2 DEF Just, CallJust, HandlerJust
  <2>4. r \in ObjectTask
    BY <2>2 DEF ObjectTask
  <2>5. task' \in [Tasks -> ObjectTask] /\ \A s \in Tasks : Just(task'[s], reqs')
    BY <1>2, <2>1, <2>3, <2>4, TaskGoesOn DEF ObjectInv, ObjectTypes
  <2>6. Ok(reqs[i].of, reqs) /\ \A l \in reqs[i].links : Ok(l, reqs)
    BY <1>1 DEF Ok, ObjectInv, Trusted
  <2>7. /\ links' \subseteq links \cup reqs[i].links /\ links' \subseteq Lists
        /\ server' \subseteq RS!Resources \cup {RS!Registry}
    BY <1>1, <1>4 DEF ObjectInv, ObjectTypes, WitnessReq
  <2>8. ObjectTypes'
    BY <1>1, <2>5, <2>7 DEF ObjectInv, ObjectTypes
  <2>9. ServedOk'
    BY <1>2, <1>4, <2>6, <2>7 DEF ObjectInv, ServedOk
  <2> QED BY <1>1, <1>2, <2>5, <2>8, <2>9, HeldStays DEF ObjectInv
<1> QED BY <1>3, <1>4 DEF RS!Publish

\* A call that waits for a request of which the object is uploaded is woken.
LEMMA NotifyKeeps ==
    ASSUME ObjectInv, NEW t \in Tasks, RS!Notify(t)
    PROVE  ObjectInv'
<1> DEFINE i == task[t].id
           mine == [task[t] EXCEPT !.pc = "drop"]
           Woken(s) == [task[s] EXCEPT !.pc = "woken"]
<1>1. /\ task[t] \in KeepTask /\ i \in DOMAIN reqs /\ reqs[i].signed
      /\ UNCHANGED <<server, links, reqs, local>>
  BY TaskKnown, ObjectKinds DEF RS!Notify, HandlerJust
<1>2. /\ DOMAIN task' = Tasks /\ task'[t] = mine
      /\ \A s \in Tasks : s # t => task'[s] =
            IF task[s].pc = "wait" /\ task[s].id = i THEN Woken(s) ELSE task[s]
      /\ task' = [s \in Tasks |-> task'[s]]
  BY DEF RS!Notify
<1>3. mine \in ObjectTask /\ Just(mine, reqs)
  <2>1. mine \in KeepTask /\ mine.pc = "drop" /\ mine.id = i
    BY <1>1 DEF KeepTask
  <2> HIDE DEF mine
  <2> QED BY <1>1, <2>1 DEF ObjectTask, Just, CallJust, HandlerJust
<1>4. ASSUME NEW s \in Tasks, task[s].pc = "wait", task[s].id = i
      PROVE  Woken(s) \in ObjectTask /\ Just(Woken(s), reqs)
  <2>1. task[s] \in RegisterTask
    BY <1>4, TaskKnown, ObjectKinds DEF RegisterPc
  <2>2. reqs[i].of = task[s].of2 /\ Alike(task[s].of, task[s].of2)
    BY <1>4, TaskKnown DEF CallJust
  <2>3. Ok(task[s].of2, reqs)
    BY <1>1, <2>2 DEF Ok
  <2>4. /\ Woken(s) \in RegisterTask /\ Woken(s).pc = "woken" /\ Woken(s).id = i
        /\ Woken(s).of = task[s].of /\ Woken(s).of2 = task[s].of2
    BY <1>4, <2>1 DEF RegisterTask, RegisterPc
  <2> HIDE DEF Woken
  <2> QED BY <1>1, <2>2, <2>3, <2>4 DEF ObjectTask, Just, CallJust, HandlerJust
<1>5. \A s \in Tasks : task[s] \in ObjectTask /\ Just(task[s], reqs)
  BY DEF ObjectInv, ObjectTypes
<1> HIDE DEF mine, Woken
<1>6. \A s \in Tasks : task'[s] \in ObjectTask /\ Just(task'[s], reqs)
  BY <1>2, <1>3, <1>4, <1>5
<1>7. task' \in [Tasks -> ObjectTask]
  BY <1>2, <1>6
<1>8. ObjectTypes'
  BY <1>1, <1>7 DEF ObjectInv, ObjectTypes
<1>9. ServedOk' /\ HeldOk' /\ Trusted(reqs')
  BY <1>1 DEF ObjectInv, ServedOk, HeldOk
<1> QED BY <1>1, <1>6, <1>8, <1>9 DEF ObjectInv

LEMMA DropKeeps ==
    ASSUME ObjectInv, NEW t \in Tasks, RS!Drop(t)
    PROVE  ObjectInv'
<1>1. /\ task[t].id \in DOMAIN reqs /\ UNCHANGED <<server, links, local>>
      /\ reqs \in Seq(WitnessReq) /\ Trusted(reqs)
      /\ reqs' = [reqs EXCEPT ![task[t].id].record = RS!NoRecord]
      /\ task' = [task EXCEPT ![t] = RS!Idle]
  BY TaskKnown DEF RS!Drop, HandlerJust
<1>2. reqs' \in Seq(WitnessReq) /\ Grown(reqs, reqs') /\ Trusted(reqs')
  BY <1>1, RecordSet
<1> QED BY <1>1, <1>2, IdleJust, Advances

LEMMA ReadKeeps ==
    ASSUME ObjectInv, NEW t \in Tasks, RS!ReadIndex(t)
    PROVE  ObjectInv'
<1>1. UNCHANGED <<server, links, reqs, local, task>>
  BY DEF RS!ReadIndex
<1> QED BY <1>1 DEF ObjectInv, ObjectTypes, ServedOk, HeldOk

\* What an update of the index changes of the requests is who was listed.
LEMMA WriteKeeps ==
    ASSUME ObjectInv, NEW t \in Tasks, RS!WriteIndex(t)
    PROVE  ObjectInv'
<1> DEFINE Lost(i) == reqs[i].unlisted \/ (reqs[i].record # RS!NoRecord
                                            /\ i \in index \ update[t].ids)
           Left(i) == [reqs[i] EXCEPT !.unlisted = Lost(i)]
<1>1. /\ UNCHANGED <<server, links, local, task>> /\ reqs \in Seq(WitnessReq) /\ Trusted(reqs)
      /\ reqs' = [i \in DOMAIN reqs |-> Left(i)]
  BY DEF RS!WriteIndex, ObjectInv, ObjectTypes
<1>2. ASSUME NEW i \in DOMAIN reqs
      PROVE  /\ Left(i) \in WitnessReq /\ Left(i).of = reqs[i].of /\ Left(i).links = reqs[i].links
             /\ Left(i).signed = reqs[i].signed /\ Left(i).answers = reqs[i].answers
  <2>1. reqs[i] \in WitnessReq
    BY <1>1
  <2>2. Lost(i) \in BOOLEAN
    OBVIOUS
  <2> HIDE DEF Lost
  <2> QED BY <2>1, <2>2 DEF WitnessReq
<1> HIDE DEF Left
<1>3. reqs' \in Seq(WitnessReq) /\ DOMAIN reqs' = DOMAIN reqs /\ \A i \in DOMAIN reqs : reqs'[i] = Left(i)
  BY <1>1, <1>2
<1>4. Grown(reqs, reqs')
  BY <1>2, <1>3 DEF Grown
<1>5. Trusted(reqs')
  BY <1>1, <1>2, <1>3, <1>4, OkGrows DEF Trusted
<1>6. ObjectTypes'
  BY <1>1, <1>3 DEF ObjectInv, ObjectTypes
<1>7. \A s \in Tasks : Just(task'[s], reqs')
  BY <1>1, <1>4, JustGrows DEF ObjectInv
<1> QED BY <1>1, <1>4, <1>5, <1>6, <1>7, ServedStays, HeldStays DEF ObjectInv

-----------------------------------------------------------------------------
LEMMA ObjectInit == RS!Init => ObjectInv
<1> SUFFICES ASSUME RS!Init PROVE ObjectInv
  OBVIOUS
<1>1. /\ server = {RS!Registry} /\ links = {} /\ reqs = <<>>
      /\ local = [o \in RS!Objects |-> "none"] /\ task = [t \in Tasks |-> RS!Idle]
  BY DEF RS!Init
<1>2. ObjectTypes
  BY <1>1, IdleJust DEF ObjectTypes
<1>3. Trusted(reqs) /\ ServedOk /\ HeldOk
  BY <1>1 DEF Trusted, ServedOk, HeldOk
<1>4. \A t \in Tasks : Just(task[t], reqs)
  BY <1>1, IdleJust
<1> QED BY <1>2, <1>3, <1>4 DEF ObjectInv

LEMMA ObjectStutters == ASSUME ObjectInv, UNCHANGED RS!vars PROVE ObjectInv'
<1>1. UNCHANGED <<server, links, reqs, local, task>>
  BY DEF RS!vars
<1> QED BY <1>1 DEF ObjectInv, ObjectTypes, ServedOk, HeldOk

LEMMA ObjectNext == ASSUME KindsApart, ObjectInv, [RS!Next]_(RS!vars) PROVE ObjectInv'
<1>1. ASSUME NEW t \in Tasks, NEW of \in RS!Resources,
             RS!RegisterSchema(t, of) \/ RS!RegisterDefinition(t, of)
                \/ RS!RegisterList(t, of) \/ RS!UpdateList(t, of)
      PROVE  ObjectInv'
  <2>1. RS!Register(t, of)
    BY <1>1 DEF RS!RegisterSchema, RS!RegisterDefinition, RS!RegisterList, RS!UpdateList
  <2> QED BY <2>1, RegisterKeeps
<1>2. ASSUME NEW t \in Tasks,
             RS!Look(t) \/ RS!Ask(t) \/ RS!SavePending(t) \/ RS!Upload(t) \/ RS!TimeOut(t)
                \/ RS!Wake(t) \/ RS!Resolve(t) \/ RS!UpdateLinks(t)
      PROVE  ObjectInv'
  BY <1>2, LookKeeps, AskKeeps, SaveKeeps, UploadKeeps, TimeOutKeeps, WakeKeeps,
     ResolveKeeps, LinkKeeps
<1>3. ASSUME NEW t \in Tasks, NEW state \in {"wait", "finished"}, RS!Store(t, state)
      PROVE  ObjectInv'
  BY <1>3, StoreKeeps
<1>4. ASSUME NEW t \in Tasks, NEW i \in DOMAIN reqs, NEW state \in reqs[i].answers,
             RS!Receive(t, i, state)
      PROVE  ObjectInv'
  BY <1>4, ReceiveKeeps
<1>5. ASSUME NEW t \in Tasks,
             RS!NoteState(t) \/ RS!Keep(t) \/ RS!SaveLink(t) \/ RS!SendLink(t)
                \/ RS!Publish(t) \/ RS!Notify(t) \/ RS!Drop(t)
      PROVE  ObjectInv'
  BY <1>5, NoteKeeps, KeepKeeps, SaveLinkKeeps, SendLinkKeeps, PublishKeeps, NotifyKeeps,
     DropKeeps
<1>6. ASSUME NEW i \in DOMAIN reqs,
             RS!ReceiveRequest(i) \/ RS!Approve(i) \/ RS!Release(i) \/ RS!Reject(i)
                \/ \E t \in Tasks : RS!Withdraw(t, i)
      PROVE  ObjectInv'
  BY <1>6, WitnessKeeps
<1>7. CASE UNCHANGED RS!vars
  BY <1>7, ObjectStutters
<1>8. ASSUME NEW t \in Tasks, RS!ReadIndex(t) \/ RS!WriteIndex(t) PROVE ObjectInv'
  BY <1>8, ReadKeeps, WriteKeeps
<1>9. ASSUME NEW t \in Tasks, RS!Indexing(t) PROVE ObjectInv'
  BY <1>2, <1>5, <1>6, <1>9 DEF RS!Indexing
<1>10. ASSUME NEW t \in Tasks, RS!Plain(t) PROVE ObjectInv'
  BY <1>1, <1>2, <1>3, <1>4, <1>5, <1>10 DEF RS!Plain
<1>11. CASE RS!Next
  BY <1>6, <1>8, <1>9, <1>10, <1>11 DEF RS!Next
<1> QED BY <1>7, <1>11

-----------------------------------------------------------------------------
\* The index, and what each task has read of it, list requests that were made.
Updates == {RS!NoUpdate} \cup [step : {"read"}, op : {"add", "remove"}, id : Nat]
              \cup [step : {"write"}, ids : SUBSET Nat]
UpdateOk(u, R) == /\ u.step = "read" => u.id \in DOMAIN R
                  /\ u.step = "write" => u.ids \subseteq DOMAIN R
ListingOk == /\ index \subseteq DOMAIN reqs /\ update \in [Tasks -> Updates]
             /\ \A t \in Tasks : UpdateOk(update[t], reqs)

LEMMA UpdateKinds ==
    ASSUME NEW u \in Updates
    PROVE  /\ u.step = "read" => u \in [step : {"read"}, op : {"add", "remove"}, id : Nat]
           /\ u.step = "write" => u \in [step : {"write"}, ids : SUBSET Nat]
           /\ u.step \notin {"read", "write"} => u = RS!NoUpdate
<1>1. RS!NoUpdate.step = "none"
  BY DEF RS!NoUpdate
<1> QED BY <1>1 DEF Updates

\* Requests are not removed, and stay requests for what they were for.
Kept(R, S) == \A i \in DOMAIN R : i \in DOMAIN S /\ S[i].of = R[i].of
\* What a step of a task does to the index: it may start an update.
Starts(t) ==
    /\ index' = index /\ Kept(reqs, reqs')
    /\ \/ update' = update
       \/ \E op \in {"add", "remove"} : \E i \in DOMAIN reqs' :
             update' = [update EXCEPT ![t] = [step |-> "read", op |-> op, id |-> i]]

LEMMA AppendedKept ==
    ASSUME reqs \in Seq(WitnessReq), NEW v, reqs' = Append(reqs, v)
    PROVE  Kept(reqs, reqs') /\ Len(reqs) + 1 \in DOMAIN reqs'
BY DEF Kept

LEMMA ChangedKept ==
    ASSUME reqs \in Seq(WitnessReq), NEW i \in DOMAIN reqs, NEW v, v.of = reqs[i].of,
           reqs' = [reqs EXCEPT ![i] = v]
    PROVE  Kept(reqs, reqs')
BY DEF Kept

LEMMA RecordKept ==
    ASSUME reqs \in Seq(WitnessReq), NEW i \in DOMAIN reqs, NEW v,
           reqs' = [reqs EXCEPT ![i].record = v]
    PROVE  Kept(reqs, reqs')
<1> DEFINE q == [reqs[i] EXCEPT !.record = v]
<1>1. reqs[i] \in WitnessReq
  OBVIOUS
<1>2. q.of = reqs[i].of
  BY <1>1 DEF WitnessReq
<1>3. reqs' = [reqs EXCEPT ![i] = q]
  OBVIOUS
<1> HIDE DEF q
<1> QED BY <1>2, <1>3, ChangedKept

LEMMA IndexingStarts ==
    ASSUME ObjectInv, NEW t \in Tasks, RS!Indexing(t)
    PROVE  Starts(t)
<1>1. reqs \in Seq(WitnessReq) /\ HandlerJust(task[t], reqs) /\ CallJust(task[t], reqs)
  BY TaskKnown
<1>2. CASE RS!Ask(t)
  <2>1. CASE UNCHANGED <<reqs, RS!listing>>
    BY <2>1 DEF Starts, Kept, RS!listing
  <2>2. ASSUME NEW v, reqs' = Append(reqs, v),
               RS!ThenIndex(t, "add", Len(reqs) + 1) \/ UNCHANGED RS!listing
        PROVE  Starts(t)
    BY <1>1, <2>2, AppendedKept DEF Starts, RS!ThenIndex, RS!listing
  <2> QED BY <1>2, <2>1, <2>2 DEF RS!Ask
<1>3. CASE RS!SaveLink(t)
  <2>1. PICK v : reqs' = Append(reqs, v) /\ RS!ThenIndex(t, "add", Len(reqs) + 1)
    BY <1>3 DEF RS!SaveLink
  <2> QED BY <1>1, <2>1, AppendedKept DEF Starts, RS!ThenIndex
<1>4. ASSUME NEW i \in DOMAIN reqs, NEW v, reqs' = [reqs EXCEPT ![i].record = v],
             NEW op \in {"add", "remove"}, RS!ThenIndex(t, op, i)
      PROVE  Starts(t)
  <2>1. Kept(reqs, reqs') /\ i \in DOMAIN reqs'
    BY <1>1, <1>4, RecordKept
  <2> QED BY <1>4, <2>1 DEF Starts, RS!ThenIndex
<1>5. CASE RS!SavePending(t) \/ RS!Wake(t) \/ RS!Drop(t)
  <2>1. task[t].id \in DOMAIN reqs
    BY <1>1, <1>5 DEF RS!SavePending, RS!Wake, RS!Drop, CallJust, HandlerJust
  <2> QED BY <1>4, <1>5, <2>1 DEF RS!SavePending, RS!Wake, RS!Drop
<1>6. ASSUME NEW i \in DOMAIN reqs, RS!Withdraw(t, i) PROVE Starts(t)
  BY <1>4, <1>6 DEF RS!Withdraw
<1> QED BY <1>2, <1>3, <1>5, <1>6 DEF RS!Indexing

\* Of the steps that leave the index alone, none removes a request.
LEMMA PlainKept ==
    ASSUME ObjectInv, NEW t \in Tasks, RS!Plain(t)
    PROVE  Kept(reqs, reqs')
<1>1. reqs \in Seq(WitnessReq) /\ HandlerJust(task[t], reqs)
  BY TaskKnown
<1>2. UNCHANGED reqs => Kept(reqs, reqs')
  BY DEF Kept
<1>3. ASSUME NEW of, RS!Register(t, of) PROVE UNCHANGED reqs
  BY <1>3 DEF RS!Register
<1>4. ASSUME NEW i \in DOMAIN reqs, NEW state, RS!Receive(t, i, state) PROVE Kept(reqs, reqs')
  <2> DEFINE v == [reqs[i] EXCEPT !.answers = reqs[i].answers \ {state}]
  <2>1. reqs' = [reqs EXCEPT ![i] = v]
    BY <1>4 DEF RS!Receive
  <2>2. v.of = reqs[i].of
    BY <1>1 DEF WitnessReq
  <2> HIDE DEF v
  <2> QED BY <1>1, <2>1, <2>2, ChangedKept
<1>5. ASSUME RS!NoteState(t) PROVE Kept(reqs, reqs')
  <2> DEFINE i == task[t].id
  <2>1. PICK v : reqs' = [reqs EXCEPT ![i].record = v]
    BY <1>5 DEF RS!NoteState
  <2>2. i \in DOMAIN reqs
    BY <1>1, <1>5 DEF RS!NoteState, HandlerJust
  <2> QED BY <1>1, <2>1, <2>2, RecordKept
<1>6. ASSUME RS!SendLink(t) PROVE Kept(reqs, reqs')
  <2> DEFINE i == task[t].link
             v == [reqs[i] EXCEPT !.witness = "sent"]
  <2>1. i \in DOMAIN reqs
    BY <1>1, <1>6 DEF RS!SendLink, HandlerJust
  <2>2. UNCHANGED reqs \/ reqs' = [reqs EXCEPT ![i] = v]
    BY <1>6 DEF RS!SendLink
  <2> HIDE DEF i
  <2>3. v.of = reqs[i].of
    BY <1>1, <2>1 DEF WitnessReq
  <2> HIDE DEF v
  <2> QED BY <1>1, <1>2, <2>1, <2>2, <2>3, ChangedKept
<1>7. ASSUME \/ RS!Look(t) \/ RS!Upload(t) \/ RS!TimeOut(t) \/ RS!Resolve(t)
             \/ RS!UpdateLinks(t) \/ RS!Keep(t) \/ RS!Publish(t) \/ RS!Notify(t)
      PROVE  UNCHANGED reqs
  BY <1>7 DEF RS!Look, RS!Upload, RS!TimeOut, RS!Resolve, RS!UpdateLinks, RS!Keep, RS!Publish,
              RS!Notify
<1>8. ASSUME NEW state, RS!Store(t, state) PROVE UNCHANGED reqs
  BY <1>8 DEF RS!Store
<1> QED BY <1>2, <1>3, <1>4, <1>5, <1>6, <1>7, <1>8
        DEF RS!Plain, RS!RegisterSchema, RS!RegisterDefinition, RS!RegisterList, RS!UpdateList

LEMMA WitnessKept ==
    ASSUME ObjectInv, NEW i \in DOMAIN reqs,
           RS!ReceiveRequest(i) \/ RS!Approve(i) \/ RS!Release(i) \/ RS!Reject(i)
    PROVE  Kept(reqs, reqs')
<1>1. reqs \in Seq(WitnessReq) /\ reqs[i] \in WitnessReq
  BY DEF ObjectInv, ObjectTypes
<1>2. \E v : reqs' = [reqs EXCEPT ![i] = v] /\ v.of = reqs[i].of
  <2>1. ASSUME NEW state, NEW witness, NEW signed, RS!Answer(i, state, witness, signed)
        PROVE  \E v : reqs' = [reqs EXCEPT ![i] = v] /\ v.of = reqs[i].of
    <3> DEFINE v == [reqs[i] EXCEPT !.answers = @ \cup {state}, !.witness = witness,
                                    !.signed = @ \/ signed]
    <3>1. reqs' = [reqs EXCEPT ![i] = v]
      BY <2>1 DEF RS!Answer
    <3>2. v.of = reqs[i].of
      BY <1>1 DEF WitnessReq
    <3> HIDE DEF v
    <3> QED BY <3>1, <3>2
  <2>2. ASSUME reqs' = [reqs EXCEPT ![i].signed = TRUE] \/ reqs' = [reqs EXCEPT ![i].witness = "done"]
        PROVE  \E v : reqs' = [reqs EXCEPT ![i] = v] /\ v.of = reqs[i].of
    <3> DEFINE v == [reqs[i] EXCEPT !.signed = TRUE]
               w == [reqs[i] EXCEPT !.witness = "done"]
    <3>1. v.of = reqs[i].of /\ w.of = reqs[i].of
      BY <1>1 DEF WitnessReq
    <3>2. reqs' = [reqs EXCEPT ![i] = v] \/ reqs' = [reqs EXCEPT ![i] = w]
      BY <2>2
    <3> HIDE DEF v, w
    <3> QED BY <3>1, <3>2
  <2> QED BY <2>1, <2>2 DEF RS!ReceiveRequest, RS!Approve, RS!Release, RS!Reject
<1> QED BY <1>1, <1>2, ChangedKept

LEMMA WriteKept ==
    ASSUME ObjectInv, NEW t, RS!WriteIndex(t)
    PROVE  Kept(reqs, reqs') /\ DOMAIN reqs' = DOMAIN reqs
<1> DEFINE Lost(i) == reqs[i].unlisted \/ (reqs[i].record # RS!NoRecord
                                            /\ i \in index \ update[t].ids)
           Left(i) == [reqs[i] EXCEPT !.unlisted = Lost(i)]
<1>1. reqs' = [i \in DOMAIN reqs |-> Left(i)]
  BY DEF RS!WriteIndex
<1>2. ASSUME NEW i \in DOMAIN reqs PROVE Left(i).of = reqs[i].of
  <2>1. reqs[i] \in WitnessReq
    BY DEF ObjectInv, ObjectTypes
  <2> HIDE DEF Lost
  <2> QED BY <2>1 DEF WitnessReq
<1> HIDE DEF Left
<1> QED BY <1>1, <1>2 DEF Kept

LEMMA StartsKeeps ==
    ASSUME ListingOk, ObjectInv', NEW t \in Tasks, Starts(t)
    PROVE  ListingOk'
<1>1. reqs' \in Seq(WitnessReq)
  BY DEF ObjectInv, ObjectTypes
<1>2. DOMAIN reqs \subseteq DOMAIN reqs' /\ index' = index
  BY DEF Starts, Kept
<1>3. \A s \in Tasks : UpdateOk(update[s], reqs')
  BY <1>2 DEF ListingOk, UpdateOk
<1>4. CASE update' = update
  BY <1>2, <1>3, <1>4 DEF ListingOk
<1>5. ASSUME NEW op \in {"add", "remove"}, NEW i \in DOMAIN reqs',
             update' = [update EXCEPT ![t] = [step |-> "read", op |-> op, id |-> i]]
      PROVE  ListingOk'
  <2> DEFINE u == [step |-> "read", op |-> op, id |-> i]
  <2>1. i \in Nat
    BY <1>1
  <2>2. u \in Updates /\ UpdateOk(u, reqs')
    BY <2>1 DEF Updates, UpdateOk
  <2>3. update' = [update EXCEPT ![t] = u]
    BY <1>5
  <2> HIDE DEF u
  <2>4. update' \in [Tasks -> Updates] /\ \A s \in Tasks : UpdateOk(update'[s], reqs')
    BY <1>3, <2>2, <2>3 DEF ListingOk
  <2> QED BY <1>2, <2>4 DEF ListingOk
<1> QED BY <1>4, <1>5 DEF Starts

\* An update of the index is read, then written.
LEMMA ReadLists ==
    ASSUME ObjectInv, ListingOk, NEW t \in Tasks, RS!ReadIndex(t)
    PROVE  ListingOk'
<1> DEFINE id  == update[t].id
           ids == IF update[t].op = "add" THEN index \cup {id} ELSE index \ {id}
           u   == IF ids = index THEN RS!NoUpdate ELSE [step |-> "write", ids |-> ids]
<1>1. /\ update' = [update EXCEPT ![t] = u] /\ UNCHANGED <<reqs, index>>
      /\ update[t].step = "read"
  BY DEF RS!ReadIndex
<1>2. id \in DOMAIN reqs
  BY <1>1 DEF ListingOk, UpdateOk
<1>3. ids \subseteq DOMAIN reqs
  BY <1>2 DEF ListingOk
<1>4. DOMAIN reqs \subseteq Nat
  BY DEF ObjectInv, ObjectTypes
<1> HIDE DEF ids
<1>5. u \in Updates /\ UpdateOk(u, reqs)
  BY <1>3, <1>4 DEF Updates, UpdateOk, RS!NoUpdate
<1> HIDE DEF u
<1>6. update' \in [Tasks -> Updates] /\ \A s \in Tasks : UpdateOk(update'[s], reqs)
  BY <1>1, <1>5 DEF ListingOk
<1> QED BY <1>1, <1>6 DEF ListingOk

LEMMA WriteLists ==
    ASSUME ObjectInv, ListingOk, NEW t \in Tasks, RS!WriteIndex(t)
    PROVE  ListingOk'
<1>1. /\ update' = [update EXCEPT ![t] = RS!NoUpdate] /\ index' = update[t].ids
      /\ update[t].step = "write" /\ DOMAIN reqs' = DOMAIN reqs
  BY WriteKept DEF RS!WriteIndex
<1>2. index' \subseteq DOMAIN reqs'
  BY <1>1 DEF ListingOk, UpdateOk
<1>3. RS!NoUpdate \in Updates /\ UpdateOk(RS!NoUpdate, reqs')
  BY DEF Updates, UpdateOk, RS!NoUpdate
<1>4. \A s \in Tasks : UpdateOk(update[s], reqs')
  BY <1>1 DEF ListingOk, UpdateOk
<1>5. update' \in [Tasks -> Updates] /\ \A s \in Tasks : UpdateOk(update'[s], reqs')
  BY <1>1, <1>3, <1>4 DEF ListingOk
<1> QED BY <1>2, <1>5 DEF ListingOk

LEMMA ListingInit == RS!Init => ListingOk
BY DEF RS!Init, ListingOk, Updates, UpdateOk, RS!NoUpdate

LEMMA ListingNext ==
    ASSUME KindsApart, ObjectInv, ListingOk, [RS!Next]_(RS!vars)
    PROVE  ListingOk'
<1>1. ObjectInv'
  BY ObjectNext
<1>2. ASSUME NEW t \in Tasks, RS!ReadIndex(t) \/ RS!WriteIndex(t) PROVE ListingOk'
  BY <1>2, ReadLists, WriteLists
<1>3. ASSUME NEW t \in Tasks, RS!Indexing(t) PROVE ListingOk'
  BY <1>1, <1>3, IndexingStarts, StartsKeeps
<1>4. ASSUME Kept(reqs, reqs'), UNCHANGED RS!listing PROVE ListingOk'
  <2>1. DOMAIN reqs \subseteq DOMAIN reqs'
    BY <1>4 DEF Kept
  <2> QED BY <1>4, <2>1 DEF ListingOk, UpdateOk, RS!listing
<1>5. ASSUME NEW t \in Tasks, RS!Plain(t), UNCHANGED RS!listing PROVE ListingOk'
  BY <1>4, <1>5, PlainKept
<1>6. ASSUME NEW i \in DOMAIN reqs,
             RS!ReceiveRequest(i) \/ RS!Approve(i) \/ RS!Release(i) \/ RS!Reject(i),
             UNCHANGED RS!listing
      PROVE  ListingOk'
  BY <1>4, <1>6, WitnessKept
<1>7. CASE UNCHANGED RS!vars
  BY <1>4, <1>7 DEF RS!vars, RS!listing, Kept
<1>8. CASE RS!Next
  BY <1>2, <1>3, <1>5, <1>6, <1>8 DEF RS!Next
<1> QED BY <1>7, <1>8

\* Whatever the order of the witness's answers and of the calls, the objects and
\* status lists on the server, those the registry definition links to and the
\* records that say finished are of objects the witness has signed.  The registry
\* definition is not among them: its links are also written without the witness.
THEOREM ObjectsAttested == ASSUME KindsApart PROVE RS!Spec => []RS!OnlyAttested
<1>1. ObjectInv => RS!OnlyAttested
  <2> SUFFICES ASSUME ObjectInv, Mode = "agent"
               PROVE  /\ \A of \in (server \cup links) \ {RS!Registry} : RS!Attested(of)
                      /\ \A o \in RS!Objects : local[o] = "finished" => RS!Attested(o)
    BY DEF RS!OnlyAttested
  <2>1. \A of : Ok(of, reqs) => RS!Attested(of)
    BY DEF Ok, RS!Attested
  <2> QED BY <2>1 DEF ObjectInv, ServedOk, HeldOk
<1>2. ObjectInv /\ [RS!Next]_(RS!vars) => ObjectInv'
  BY ObjectNext
<1> QED BY <1>1, <1>2, ObjectInit, PTL DEF RS!Spec

\* The server's resources, links and records are of the kinds they should be,
\* and the index lists requests that were made.
THEOREM ObjectsTyped == ASSUME KindsApart PROVE RS!Spec => []RS!TypeOK
<1>1. ObjectInv /\ ListingOk => RS!TypeOK
  <2> SUFFICES ASSUME ObjectInv, ListingOk PROVE RS!TypeOK
    OBVIOUS
  <2>1. \A i \in DOMAIN reqs : reqs[i].record \in {RS!NoRecord, "pending", "attested", "rejected"}
    <3>1. \A i \in DOMAIN reqs : reqs[i] \in WitnessReq
      BY DEF ObjectInv, ObjectTypes
    <3> QED BY <3>1 DEF WitnessReq, States
  <2> QED BY <2>1 DEF ObjectInv, ObjectTypes, ListingOk, RS!TypeOK
<1>2. ObjectInv /\ ListingOk /\ [RS!Next]_(RS!vars) => ObjectInv' /\ ListingOk'
  BY ObjectNext, ListingNext
<1> QED BY <1>1, <1>2, ObjectInit, ListingInit, PTL DEF RS!Spec

-----------------------------------------------------------------------------
(***************************************************************************)
(* Without a witness to wait for: what is finished is on the server, and   *)
(* so are the lists that the definition links to.                          *)
(***************************************************************************)
PlainPc == {"ask", "save", "upload", "resolve", "link", "store wait", "store finished"}
PlainCall(r, S) ==
    /\ r.pc \in PlainPc /\ r.of \in RS!Resources /\ r.of2 = r.of
    /\ r.pc \in {"resolve", "link", "store finished"} => r.of \in S
    /\ r.pc = "link" => r.links \subseteq S
Results == [RS!Resources -> {"none", "error", "wait", "finished"}]
ResultsOk(res, S) ==
    res \in Results /\ \A of \in RS!Resources : res[of] = "finished" => of \in S
NoWitness(R) == \A i \in DOMAIN R : R[i].witness = "done" /\ R[i].answers = {}

HeldThere(loc, S) == \A o \in RS!Objects : loc[o] = "finished" => o \in S

PlainInv ==
    /\ ResultsOk(result, server) /\ links \subseteq server /\ NoWitness(reqs)
    /\ HeldThere(local, server)
    /\ \A t \in Tasks : task[t] = RS!Idle \/ PlainCall(task[t], server)

LEMMA PlainKinds ==
    ASSUME ObjectInv, PlainInv, NEW t \in Tasks
    PROVE  /\ task[t].pc # "idle" => PlainCall(task[t], server)
           /\ task[t].pc = "idle" \/ task[t].pc \in PlainPc
<1>1. RS!Idle.pc = "idle"
  BY DEF RS!Idle
<1>2. PlainCall(task[t], server) => task[t].pc \in PlainPc
  BY DEF PlainCall
<1> QED BY <1>1, <1>2 DEF PlainInv

\* The result of one registration is set.
LEMMA ResultSet ==
    ASSUME ResultsOk(result, server), NEW of \in RS!Resources,
           NEW v \in {"error", "wait", "finished"}, v = "finished" => of \in server,
           result' = [result EXCEPT ![of] = v]
    PROVE  ResultsOk(result', server)
BY DEF ResultsOk, Results

\* One call goes on.
LEMMA PlainStep ==
    ASSUME ObjectInv, PlainInv, NEW t \in Tasks, NEW r, r = RS!Idle \/ PlainCall(r, server'),
           task' = [task EXCEPT ![t] = r], server \subseteq server', links' \subseteq server',
           ResultsOk(result', server'), NoWitness(reqs'), HeldThere(local', server')
    PROVE  PlainInv'
<1>1. task'[t] = r /\ \A s \in Tasks : s # t => task'[s] = task[s]
  BY DEF ObjectInv, ObjectTypes
<1>2. \A s \in Tasks : PlainCall(task[s], server) => PlainCall(task[s], server')
  BY DEF PlainCall
<1>3. \A s \in Tasks : task'[s] = RS!Idle \/ PlainCall(task'[s], server')
  BY <1>1, <1>2 DEF PlainInv
<1> QED BY <1>3 DEF PlainInv

\* ... and nothing but the call and its result changes.
LEMMA PlainMove ==
    ASSUME ObjectInv, PlainInv, NEW t \in Tasks, NEW r, r = RS!Idle \/ PlainCall(r, server),
           task' = [task EXCEPT ![t] = r], UNCHANGED <<server, links, reqs, local>>,
           ResultsOk(result', server)
    PROVE  PlainInv'
<1>1. /\ links' \subseteq server' /\ NoWitness(reqs') /\ ResultsOk(result', server')
      /\ r = RS!Idle \/ PlainCall(r, server')
      /\ HeldThere(local', server')
  BY DEF PlainInv
<1> QED BY <1>1, PlainStep

LEMMA PlainFail ==
    ASSUME ObjectInv, PlainInv, NEW t \in Tasks, NEW of \in RS!Resources, RS!Fail(t, of),
           UNCHANGED <<server, links, reqs, local>>
    PROVE  PlainInv'
<1>1. task' = [task EXCEPT ![t] = RS!Idle] /\ result' = [result EXCEPT ![of] = "error"]
  BY DEF RS!Fail
<1>2. ResultsOk(result', server)
  BY <1>1, ResultSet DEF PlainInv
<1> QED BY <1>1, <1>2, PlainMove

LEMMA PlainRegister ==
    ASSUME Mode # "agent", ObjectInv, PlainInv, NEW t \in Tasks, NEW of \in RS!Resources,
           RS!Register(t, of)
    PROVE  PlainInv'
<1> DEFINE pc == CASE Mode = "agent" -> "look"
                   [] Mode = "self" /\ ~AutoAttest -> "ask"
                   [] OTHER -> "upload"
           r == [pc |-> pc, of |-> of, caller |-> "issuer", of2 |-> of, id |-> 0]
<1>1. task' = [task EXCEPT ![t] = r] /\ UNCHANGED <<server, links, reqs, local, result>>
  BY DEF RS!Register
<1>2. pc \in {"ask", "upload"}
  OBVIOUS
<1> HIDE DEF pc
<1>3. PlainCall(r, server)
  BY <1>2 DEF PlainCall, PlainPc
<1> HIDE DEF r
<1> QED BY <1>1, <1>3, PlainMove DEF PlainInv

LEMMA PlainAsk ==
    ASSUME Mode # "agent", ObjectInv, PlainInv, NEW t \in Tasks, RS!Ask(t)
    PROVE  PlainInv'
<1>1. /\ task[t] \in RegisterTask /\ PlainCall(task[t], server) /\ task[t].of \in RS!Resources
      /\ UNCHANGED <<server, links, local>> /\ reqs \in Seq(WitnessReq)
  <2>1. task[t].pc = "ask"
    BY DEF RS!Ask
  <2> QED BY <2>1, TaskKnown, ObjectKinds, PlainKinds DEF RS!Ask, RegisterPc, PlainCall
<1>2. CASE RS!Fail(t, task[t].of) /\ UNCHANGED reqs
  BY <1>1, <1>2, PlainFail
<1>3. ASSUME NEW v, v = RS!Request(task[t].of, {}, "pending", "done"),
             reqs' = Append(reqs, v), UNCHANGED result,
             task' = [task EXCEPT ![t].pc = "save", ![t].id = Len(reqs) + 1]
      PROVE  PlainInv'
  <2>1. v.witness = "done" /\ v.answers = {}
    BY <1>3 DEF RS!Request
  <2>2. DOMAIN reqs' = DOMAIN reqs \cup {Len(reqs) + 1} /\ Len(reqs) + 1 \notin DOMAIN reqs
        /\ reqs'[Len(reqs) + 1] = v /\ \A j \in DOMAIN reqs : reqs'[j] = reqs[j]
    BY <1>1, <1>3
  <2>3. NoWitness(reqs')
    BY <2>1, <2>2 DEF NoWitness, PlainInv
  <2> DEFINE r == [task[t] EXCEPT !.pc = "save", !.id = Len(reqs) + 1]
  <2>4. task' = [task EXCEPT ![t] = r]
    BY <1>3
  <2>5. r.pc = "save" /\ r.of = task[t].of /\ r.of2 = task[t].of2
    BY <1>1 DEF RegisterTask
  <2> HIDE DEF r
  <2>6. PlainCall(r, server)
    BY <1>1, <2>5 DEF PlainCall, PlainPc
  <2>7. /\ ResultsOk(result', server') /\ links' \subseteq server' /\ PlainCall(r, server')
        /\ HeldThere(local', server')
    BY <1>1, <1>3, <2>6 DEF PlainInv
  <2> QED BY <1>1, <2>3, <2>4, <2>7, PlainStep
<1> QED BY <1>2, <1>3 DEF RS!Ask

\* A record alone changes.
LEMMA RecordPlain ==
    ASSUME reqs \in Seq(WitnessReq), NoWitness(reqs), NEW i \in DOMAIN reqs, NEW v,
           reqs' = [reqs EXCEPT ![i].record = v]
    PROVE  NoWitness(reqs')
<1> DEFINE q == [reqs[i] EXCEPT !.record = v]
<1>1. reqs[i] \in WitnessReq
  OBVIOUS
<1>2. q.witness = reqs[i].witness /\ q.answers = reqs[i].answers
  BY <1>1 DEF WitnessReq
<1>3. reqs' = [reqs EXCEPT ![i] = q]
  OBVIOUS
<1> HIDE DEF q
<1>4. DOMAIN reqs' = DOMAIN reqs /\ reqs'[i] = q /\ \A j \in DOMAIN reqs : j # i => reqs'[j] = reqs[j]
  BY <1>3
<1> QED BY <1>2, <1>4 DEF NoWitness

LEMMA PlainSave ==
    ASSUME ObjectInv, PlainInv, NEW t \in Tasks, RS!SavePending(t)
    PROVE  PlainInv'
<1>1. /\ task[t] \in RegisterTask /\ task[t].id \in DOMAIN reqs /\ reqs \in Seq(WitnessReq)
      /\ UNCHANGED <<server, links, local, result>> /\ PlainCall(task[t], server)
      /\ reqs' = [reqs EXCEPT ![task[t].id].record = "pending"]
  <2>1. task[t].pc = "save"
    BY DEF RS!SavePending
  <2>2. task[t] \in RegisterTask /\ task[t].id \in DOMAIN reqs /\ reqs \in Seq(WitnessReq)
    BY <2>1, TaskKnown, ObjectKinds DEF RegisterPc, CallJust
  <2>3. PlainCall(task[t], server)
    BY <2>1, PlainKinds
  <2> QED BY <2>2, <2>3 DEF RS!SavePending
<1>2. NoWitness(reqs')
  BY <1>1, RecordPlain DEF PlainInv
<1> DEFINE r == [task[t] EXCEPT !.pc = "store wait"]
<1>3. task' = [task EXCEPT ![t] = r]
  BY DEF RS!SavePending, RS!Goto
<1>4. r.pc = "store wait" /\ r.of = task[t].of /\ r.of2 = task[t].of2
  BY <1>1 DEF RegisterTask
<1> HIDE DEF r
<1>5. PlainCall(r, server)
  BY <1>1, <1>4 DEF PlainCall, PlainPc
<1>6. /\ ResultsOk(result', server') /\ links' \subseteq server' /\ PlainCall(r, server')
      /\ HeldThere(local', server')
  BY <1>1, <1>5 DEF PlainInv
<1> QED BY <1>1, <1>2, <1>3, <1>6, PlainStep

LEMMA PlainUpload ==
    ASSUME ObjectInv, PlainInv, NEW t \in Tasks, RS!Upload(t)
    PROVE  PlainInv'
<1>1. /\ task[t] \in RegisterTask /\ PlainCall(task[t], server) /\ task[t].of \in RS!Resources
      /\ UNCHANGED <<links, reqs, local>>
  <2>1. task[t].pc = "upload"
    BY DEF RS!Upload
  <2> QED BY <2>1, TaskKnown, ObjectKinds, PlainKinds DEF RS!Upload, RegisterPc, PlainCall
<1>2. CASE RS!Refused(t, task[t].of) /\ UNCHANGED server
  BY <1>1, <1>2, PlainFail DEF RS!Refused
<1>3. CASE /\ server' = server \cup {task[t].of} /\ UNCHANGED result
           /\ RS!Goto(t, IF task[t].of \in Lists THEN "resolve" ELSE "store finished")
  <2> DEFINE pc == IF task[t].of \in Lists THEN "resolve" ELSE "store finished"
             r  == [task[t] EXCEPT !.pc = pc]
  <2>1. task' = [task EXCEPT ![t] = r]
    BY <1>3 DEF RS!Goto
  <2>2. pc \in {"resolve", "store finished"}
    OBVIOUS
  <2> HIDE DEF pc
  <2>3. r.pc = pc /\ r.of = task[t].of /\ r.of2 = task[t].of2
    BY <1>1 DEF RegisterTask
  <2> HIDE DEF r
  <2>4. PlainCall(r, server')
    BY <1>1, <1>3, <2>2, <2>3 DEF PlainCall, PlainPc
  <2>5. server \subseteq server' /\ links' \subseteq server'
    BY <1>1, <1>3 DEF PlainInv
  <2>6. ResultsOk(result', server') /\ NoWitness(reqs') /\ HeldThere(local', server')
    BY <1>1, <1>3, <2>5 DEF PlainInv, ResultsOk, HeldThere
  <2> QED BY <2>1, <2>4, <2>5, <2>6, PlainStep
<1> QED BY <1>2, <1>3 DEF RS!Upload

LEMMA PlainResolve ==
    ASSUME ObjectInv, PlainInv, NEW t \in Tasks, RS!Resolve(t)
    PROVE  PlainInv'
<1> DEFINE its == IF task[t].of = InitialList THEN {} ELSE links
           r == [pc |-> "link", caller |-> "issuer", of |-> task[t].of, of2 |-> task[t].of2,
                 links |-> its]
<1>1. /\ PlainCall(task[t], server) /\ task[t].pc = "resolve" /\ task[t].of \in RS!Resources
      /\ UNCHANGED <<server, links, reqs, local>>
  BY PlainKinds DEF RS!Resolve, PlainCall
<1>2. its \subseteq server
  BY DEF PlainInv
<1>3. CASE RS!Fail(t, task[t].of)
  BY <1>1, <1>3, PlainFail
<1>4. CASE task' = [task EXCEPT ![t] = r] /\ UNCHANGED result
  <2> HIDE DEF its
  <2>1. PlainCall(r, server)
    BY <1>1, <1>2 DEF PlainCall, PlainPc
  <2> HIDE DEF r
  <2> QED BY <1>1, <1>4, <2>1, PlainMove DEF PlainInv
<1> QED BY <1>3, <1>4 DEF RS!Resolve

LEMMA PlainLink ==
    ASSUME ObjectInv, PlainInv, NEW t \in Tasks, RS!UpdateLinks(t)
    PROVE  PlainInv'
<1>1. /\ task[t] \in LinkTask /\ PlainCall(task[t], server) /\ task[t].pc = "link"
      /\ task[t].of \in RS!Resources /\ UNCHANGED <<server, reqs, local>>
  <2>1. task[t].pc = "link"
    BY DEF RS!UpdateLinks
  <2> QED BY <2>1, TaskKnown, ObjectKinds, PlainKinds DEF RS!UpdateLinks, PlainCall
<1>2. CASE RS!Fail(t, task[t].of) /\ UNCHANGED links
  BY <1>1, <1>2, PlainFail
<1>3. CASE /\ links' = task[t].links \cup {task[t].of2} /\ UNCHANGED result
           /\ RS!Goto(t, "store finished")
  <2> DEFINE r == [task[t] EXCEPT !.pc = "store finished"]
  <2>1. task' = [task EXCEPT ![t] = r]
    BY <1>3 DEF RS!Goto
  <2>2. r.pc = "store finished" /\ r.of = task[t].of /\ r.of2 = task[t].of2
    BY <1>1 DEF LinkTask
  <2> HIDE DEF r
  <2>3. PlainCall(r, server')
    BY <1>1, <2>2 DEF PlainCall, PlainPc
  <2>4. links' \subseteq server'
    BY <1>1, <1>3 DEF PlainCall
  <2>5. ResultsOk(result', server') /\ NoWitness(reqs') /\ HeldThere(local', server')
    BY <1>1, <1>3 DEF PlainInv
  <2> QED BY <1>1, <2>1, <2>3, <2>4, <2>5, PlainStep
<1> QED BY <1>2, <1>3 DEF RS!UpdateLinks

LEMMA PlainStore ==
    ASSUME ObjectInv, PlainInv, NEW t \in Tasks, NEW state \in {"wait", "finished"},
           RS!Store(t, state)
    PROVE  PlainInv'
<1>1. /\ UNCHANGED <<server, links, reqs>> /\ task' = [task EXCEPT ![t] = RS!Idle]
      /\ result' = [result EXCEPT ![task[t].of] = state]
      /\ task[t].pc \in {"store wait", "store finished"}
      /\ state = "finished" => task[t].pc = "store finished"
      /\ local' = IF task[t].of \in RS!Objects /\ local[task[t].of] = "none"
                  THEN [local EXCEPT ![task[t].of] = state] ELSE local
  BY DEF RS!Store
<1>2. PlainCall(task[t], server)
  BY <1>1, PlainKinds
<1>3. task[t].of \in RS!Resources /\ (state = "finished" => task[t].of \in server)
  BY <1>1, <1>2 DEF PlainCall
<1>4. ResultsOk(result', server)
  BY <1>1, <1>3, ResultSet DEF PlainInv
<1>5. HeldThere(local', server)
  BY <1>1, <1>3 DEF PlainInv, HeldThere, ObjectInv, ObjectTypes
<1>6. /\ links' \subseteq server' /\ NoWitness(reqs') /\ ResultsOk(result', server')
      /\ HeldThere(local', server')
  BY <1>1, <1>4, <1>5 DEF PlainInv
<1> QED BY <1>1, <1>6, PlainStep

LEMMA PlainWithdraw ==
    ASSUME ObjectInv, PlainInv, NEW t \in Tasks, NEW i \in DOMAIN reqs, RS!Withdraw(t, i)
    PROVE  PlainInv'
<1>1. UNCHANGED <<server, links, local, result, task>>
      /\ reqs' = [reqs EXCEPT ![i].record = RS!NoRecord]
  BY DEF RS!Withdraw
<1>2. NoWitness(reqs')
  BY <1>1, RecordPlain DEF ObjectInv, ObjectTypes, PlainInv
<1> QED BY <1>1, <1>2 DEF PlainInv

LEMMA PlainInit == RS!Init => PlainInv
<1> SUFFICES ASSUME RS!Init PROVE PlainInv
  OBVIOUS
<1>1. /\ links = {} /\ reqs = <<>> /\ result = [o \in RS!Resources |-> "none"]
      /\ task = [t \in Tasks |-> RS!Idle] /\ local = [o \in RS!Objects |-> "none"]
  BY DEF RS!Init
<1>2. ResultsOk(result, server) /\ NoWitness(reqs) /\ HeldThere(local, server)
  BY <1>1 DEF ResultsOk, Results, NoWitness, HeldThere
<1> QED BY <1>1, <1>2 DEF PlainInv

LEMMA PlainWrite ==
    ASSUME ObjectInv, PlainInv, NEW t \in Tasks, RS!ReadIndex(t) \/ RS!WriteIndex(t)
    PROVE  PlainInv'
<1>1. UNCHANGED <<server, links, local, result, task>>
  BY DEF RS!ReadIndex, RS!WriteIndex
<1>2. CASE RS!ReadIndex(t)
  BY <1>1, <1>2 DEF RS!ReadIndex, PlainInv
<1>3. CASE RS!WriteIndex(t)
  <2> DEFINE Lost(i) == reqs[i].unlisted \/ (reqs[i].record # RS!NoRecord
                                              /\ i \in index \ update[t].ids)
             Left(i) == [reqs[i] EXCEPT !.unlisted = Lost(i)]
  <2>1. reqs' = [i \in DOMAIN reqs |-> Left(i)]
    BY <1>3 DEF RS!WriteIndex
  <2>2. ASSUME NEW i \in DOMAIN reqs
        PROVE  Left(i).witness = reqs[i].witness /\ Left(i).answers = reqs[i].answers
    <3>1. reqs[i] \in WitnessReq
      BY DEF ObjectInv, ObjectTypes
    <3> HIDE DEF Lost
    <3> QED BY <3>1 DEF WitnessReq
  <2> HIDE DEF Left
  <2>3. NoWitness(reqs')
    BY <2>1, <2>2 DEF PlainInv, NoWitness
  <2> QED BY <1>1, <2>3 DEF PlainInv
<1> QED BY <1>2, <1>3

LEMMA PlainNext ==
    ASSUME Mode # "agent", ObjectInv, PlainInv, [RS!Next]_(RS!vars)
    PROVE  PlainInv'
<1>1. ASSUME NEW t \in Tasks, NEW of \in RS!Resources,
             RS!RegisterSchema(t, of) \/ RS!RegisterDefinition(t, of)
                \/ RS!RegisterList(t, of) \/ RS!UpdateList(t, of)
      PROVE  PlainInv'
  <2>1. RS!Register(t, of)
    BY <1>1 DEF RS!RegisterSchema, RS!RegisterDefinition, RS!RegisterList, RS!UpdateList
  <2> QED BY <2>1, PlainRegister
<1>2. ASSUME NEW t \in Tasks,
             RS!Ask(t) \/ RS!SavePending(t) \/ RS!Upload(t) \/ RS!Resolve(t) \/ RS!UpdateLinks(t)
      PROVE  PlainInv'
  BY <1>2, PlainAsk, PlainSave, PlainUpload, PlainResolve, PlainLink
<1>3. ASSUME NEW t \in Tasks, NEW state \in {"wait", "finished"}, RS!Store(t, state)
      PROVE  PlainInv'
  BY <1>3, PlainStore
<1>4. ASSUME NEW t \in Tasks,
             RS!Look(t) \/ RS!TimeOut(t) \/ RS!Wake(t)
      PROVE  FALSE
  <2>1. task[t].pc \in {"look", "wait", "woken"}
    BY <1>4 DEF RS!Look, RS!TimeOut, RS!Wake
  <2> QED BY <2>1, PlainKinds DEF PlainPc
<1>5. ASSUME NEW t \in Tasks,
             RS!NoteState(t) \/ RS!Keep(t) \/ RS!SaveLink(t) \/ RS!SendLink(t)
                \/ RS!Publish(t) \/ RS!Notify(t) \/ RS!Drop(t)
      PROVE  FALSE
  <2>1. task[t].pc \in {"note", "keep", "save link", "send link", "publish", "notify", "drop"}
    BY <1>5 DEF RS!NoteState, RS!Keep, RS!SaveLink, RS!SendLink, RS!Publish, RS!Notify, RS!Drop
  <2> QED BY <2>1, PlainKinds DEF PlainPc
<1>6. ASSUME NEW i \in DOMAIN reqs
      PROVE  /\ reqs[i].answers = {}
             /\ ~RS!ReceiveRequest(i) /\ ~RS!Approve(i) /\ ~RS!Release(i) /\ ~RS!Reject(i)
  <2>1. reqs[i].witness = "done" /\ reqs[i].answers = {}
    BY DEF PlainInv, NoWitness
  <2> QED BY <2>1 DEF RS!ReceiveRequest, RS!Approve, RS!Release, RS!Reject
<1>7. ASSUME NEW t \in Tasks, NEW i \in DOMAIN reqs, RS!Withdraw(t, i) PROVE PlainInv'
  BY <1>7, PlainWithdraw
<1>8. CASE UNCHANGED RS!vars
  <2>1. UNCHANGED <<server, links, reqs, local, result, task>>
    BY <1>8 DEF RS!vars
  <2> QED BY <2>1 DEF PlainInv
<1>9. ASSUME NEW t \in Tasks, RS!ReadIndex(t) \/ RS!WriteIndex(t) PROVE PlainInv'
  BY <1>9, PlainWrite
<1>10. ASSUME NEW t \in Tasks, RS!Indexing(t) PROVE PlainInv'
  BY <1>2, <1>4, <1>5, <1>7, <1>10 DEF RS!Indexing
<1>11. ASSUME NEW t \in Tasks, RS!Plain(t) PROVE PlainInv'
  BY <1>1, <1>2, <1>3, <1>4, <1>5, <1>6, <1>11 DEF RS!Plain
<1>12. CASE RS!Next
  BY <1>6, <1>9, <1>10, <1>11, <1>12 DEF RS!Next
<1> QED BY <1>8, <1>12

-----------------------------------------------------------------------------
(***************************************************************************)
(* With a witness agent: a call that is woken finishes what a handler has  *)
(* uploaded, or a list of the registry that it has.                        *)
(***************************************************************************)
OnServer(of, S) == of \in S \/ (of \in Lists /\ \E l \in Lists : l \in S)
ResultsThere(res, S) ==
    res \in Results /\ \A of \in RS!Resources : res[of] = "finished" => OnServer(of, S)
WokenPc == {"woken", "resolve", "link"}
DoneCall(r, S, R) ==
    /\ r.pc \in WokenPc => r.of2 \in S
    /\ r.pc = "store finished" => OnServer(r.of, S)
    /\ r.pc = "notify" => R[r.id].of \in S
DoneInv == ResultsThere(result, server) /\ \A t \in Tasks : DoneCall(task[t], server, reqs)

\* One call or handler goes on, and nothing is removed.
LEMMA DoneStep ==
    ASSUME ObjectInv, DoneInv, Kept(reqs, reqs'), server \subseteq server', NEW t \in Tasks, NEW r,
           DoneCall(r, server', reqs'), task' = [task EXCEPT ![t] = r],
           ResultsThere(result', server')
    PROVE  DoneInv'
<1>1. task'[t] = r /\ \A s \in Tasks : s # t => task'[s] = task[s]
  BY DEF ObjectInv, ObjectTypes
<1>2. ASSUME NEW s \in Tasks PROVE DoneCall(task[s], server', reqs')
  <2>1. DoneCall(task[s], server, reqs)
    BY DEF DoneInv
  <2>2. task[s].pc = "notify" => task[s].id \in DOMAIN reqs
    BY TaskKnown DEF HandlerJust
  <2> QED BY <2>1, <2>2 DEF DoneCall, OnServer, Kept
<1>3. \A s \in Tasks : DoneCall(task'[s], server', reqs')
  BY <1>1, <1>2
<1> QED BY <1>3 DEF DoneInv

LEMMA ThereStays ==
    ASSUME DoneInv, server \subseteq server', UNCHANGED result
    PROVE  ResultsThere(result', server')
BY DEF DoneInv, ResultsThere, OnServer

LEMMA ResultThere ==
    ASSUME DoneInv, NEW of \in RS!Resources, NEW v \in {"error", "wait", "finished"},
           v = "finished" => OnServer(of, server), result' = [result EXCEPT ![of] = v],
           UNCHANGED server
    PROVE  ResultsThere(result', server')
BY DEF DoneInv, ResultsThere, Results

\* A call fails.
LEMMA DoneFail ==
    ASSUME ObjectInv, DoneInv, Kept(reqs, reqs'), NEW t \in Tasks, NEW of \in RS!Resources,
           RS!Fail(t, of), UNCHANGED server
    PROVE  DoneInv'
<1>1. task' = [task EXCEPT ![t] = RS!Idle] /\ result' = [result EXCEPT ![of] = "error"]
  BY DEF RS!Fail
<1>2. ResultsThere(result', server')
  BY <1>1, ResultThere
<1>3. DoneCall(RS!Idle, server', reqs')
  BY DEF DoneCall, WokenPc, RS!Idle
<1> QED BY <1>1, <1>2, <1>3, DoneStep

\* A task goes to where it says nothing of the server.
LEMMA DoneOn ==
    ASSUME ObjectInv, DoneInv, Kept(reqs, reqs'), NEW t \in Tasks, NEW r,
           r.pc \notin WokenPc \cup {"store finished", "notify"}, task' = [task EXCEPT ![t] = r],
           UNCHANGED <<server, result>>
    PROVE  DoneInv'
<1>1. DoneCall(r, server', reqs')
  BY DEF DoneCall
<1>2. ResultsThere(result', server')
  BY ThereStays
<1> QED BY <1>1, <1>2, DoneStep

LEMMA DoneGoto ==
    ASSUME ObjectInv, DoneInv, Kept(reqs, reqs'), NEW t \in Tasks, NEW pc, RS!Goto(t, pc),
           task[t] \in RegisterTask \cup KeepTask,
           pc \notin WokenPc \cup {"store finished", "notify"}, UNCHANGED <<server, result>>
    PROVE  DoneInv'
<1> DEFINE r == [task[t] EXCEPT !.pc = pc]
<1>1. task' = [task EXCEPT ![t] = r]
  BY DEF RS!Goto
<1>2. r.pc = pc
  BY DEF RegisterTask, KeepTask
<1> HIDE DEF r
<1> QED BY <1>1, <1>2, DoneOn

LEMMA DoneIdle ==
    ASSUME ObjectInv, DoneInv, Kept(reqs, reqs'), NEW t \in Tasks,
           task' = [task EXCEPT ![t] = RS!Idle], UNCHANGED <<server, result>>
    PROVE  DoneInv'
<1>1. RS!Idle.pc \notin WokenPc \cup {"store finished", "notify"}
  BY DEF RS!Idle, WokenPc
<1> QED BY <1>1, DoneOn

LEMMA DoneRegister ==
    ASSUME ObjectInv, DoneInv, Kept(reqs, reqs'), NEW t \in Tasks, NEW of \in RS!Resources,
           RS!Register(t, of)
    PROVE  DoneInv'
<1> DEFINE pc == CASE Mode = "agent" -> "look"
                   [] Mode = "self" /\ ~AutoAttest -> "ask"
                   [] OTHER -> "upload"
           r == [pc |-> pc, of |-> of, caller |-> "issuer", of2 |-> of, id |-> 0]
<1>1. task' = [task EXCEPT ![t] = r] /\ UNCHANGED <<server, result>>
  BY DEF RS!Register
<1>2. pc \notin WokenPc \cup {"store finished", "notify"}
  BY DEF WokenPc
<1> HIDE DEF pc
<1>3. r.pc = pc
  OBVIOUS
<1> HIDE DEF r
<1> QED BY <1>1, <1>2, <1>3, DoneOn

\* The calls before they are woken, and after they have finished.
LEMMA DoneCalls ==
    ASSUME Mode = "agent", ObjectInv, DoneInv, Kept(reqs, reqs'), NEW t \in Tasks,
           \/ RS!Look(t) \/ RS!Ask(t) \/ RS!SavePending(t) \/ RS!Upload(t) \/ RS!TimeOut(t)
           \/ \E state \in {"wait", "finished"} : RS!Store(t, state)
    PROVE  DoneInv'
<1>1. /\ task[t] \in ObjectTask /\ CallJust(task[t], reqs) /\ DoneCall(task[t], server, reqs)
  BY TaskKnown DEF DoneInv
<1>2. CASE RS!Look(t)
  <2>1. task[t] \in RegisterTask /\ UNCHANGED <<server, result>>
    BY <1>1, <1>2, ObjectKinds DEF RS!Look, RegisterPc
  <2>2. CASE RS!Goto(t, "ask")
    BY <2>1, <2>2, DoneGoto DEF WokenPc
  <2>3. ASSUME NEW i, task' = [task EXCEPT ![t].pc = "wait", ![t].id = i, ![t].of2 = reqs[i].of]
        PROVE  DoneInv'
    <3> DEFINE r == [task[t] EXCEPT !.pc = "wait", !.id = i, !.of2 = reqs[i].of]
    <3>1. task' = [task EXCEPT ![t] = r] /\ r.pc = "wait"
      BY <2>1, <2>3 DEF RegisterTask
    <3> HIDE DEF r
    <3> QED BY <2>1, <3>1, DoneOn DEF WokenPc
  <2> QED BY <1>2, <2>2, <2>3 DEF RS!Look
<1>3. CASE RS!Ask(t)
  <2>1. task[t] \in RegisterTask /\ task[t].of \in RS!Resources /\ UNCHANGED server
    BY <1>1, <1>3, ObjectKinds DEF RS!Ask, RegisterPc, RegisterTask
  <2>2. CASE RS!Fail(t, task[t].of)
    BY <2>1, <2>2, DoneFail
  <2>3. CASE task' = [task EXCEPT ![t].pc = "save", ![t].id = Len(reqs) + 1] /\ UNCHANGED result
    <3> DEFINE r == [task[t] EXCEPT !.pc = "save", !.id = Len(reqs) + 1]
    <3>1. task' = [task EXCEPT ![t] = r] /\ r.pc = "save"
      BY <2>1, <2>3 DEF RegisterTask
    <3> HIDE DEF r
    <3> QED BY <2>1, <2>3, <3>1, DoneOn DEF WokenPc
  <2> QED BY <1>3, <2>2, <2>3 DEF RS!Ask
<1>4. CASE RS!SavePending(t)
  <2>1. /\ task[t] \in RegisterTask /\ UNCHANGED <<server, result>> /\ RS!Goto(t, "store wait")
    BY <1>1, <1>4, ObjectKinds DEF RS!SavePending, RegisterPc
  <2> QED BY <2>1, DoneGoto DEF WokenPc
<1>5. ~RS!Upload(t)
  BY <1>1 DEF CallJust, RS!Upload
<1>6. CASE RS!TimeOut(t)
  <2>1. task[t] \in RegisterTask /\ task[t].of \in RS!Resources /\ UNCHANGED server
    BY <1>1, <1>6, ObjectKinds DEF RS!TimeOut, RegisterPc, RegisterTask
  <2> QED BY <1>6, <2>1, DoneFail DEF RS!TimeOut
<1>7. ASSUME NEW state \in {"wait", "finished"}, RS!Store(t, state) PROVE DoneInv'
  <2>1. /\ UNCHANGED server /\ task' = [task EXCEPT ![t] = RS!Idle]
        /\ result' = [result EXCEPT ![task[t].of] = state]
        /\ task[t].pc \in {"store wait", "store finished"}
        /\ state = "finished" => task[t].pc = "store finished"
    BY <1>7 DEF RS!Store
  <2>2. task[t].of \in RS!Resources
    <3>1. task[t] \in RegisterTask \cup LinkTask
      BY <1>1, <2>1, ObjectKinds DEF RegisterPc
    <3> QED BY <3>1 DEF RegisterTask, LinkTask
  <2>3. ResultsThere(result', server')
    BY <1>1, <2>1, <2>2, ResultThere DEF DoneCall
  <2>4. DoneCall(RS!Idle, server', reqs')
    BY DEF DoneCall, WokenPc, RS!Idle
  <2> QED BY <2>1, <2>3, <2>4, DoneStep
<1> QED BY <1>2, <1>3, <1>4, <1>5, <1>6, <1>7

\* A call that was woken: what it was woken for is there.
LEMMA DoneWoken ==
    ASSUME ObjectInv, DoneInv, Kept(reqs, reqs'), NEW t \in Tasks,
           RS!Wake(t) \/ RS!Resolve(t) \/ RS!UpdateLinks(t)
    PROVE  DoneInv'
<1>1. /\ task[t] \in ObjectTask /\ CallJust(task[t], reqs) /\ DoneCall(task[t], server, reqs)
  BY TaskKnown DEF DoneInv
<1>2. UNCHANGED server /\ task[t].of2 \in server
  BY <1>1 DEF RS!Wake, RS!Resolve, RS!UpdateLinks, DoneCall, WokenPc
<1>3. CASE RS!Wake(t)
  <2> DEFINE pc == IF task[t].of \in Lists THEN "resolve" ELSE "store finished"
             r  == [task[t] EXCEPT !.pc = pc]
  <2>1. /\ task[t] \in RegisterTask /\ task' = [task EXCEPT ![t] = r]
        /\ Alike(task[t].of, task[t].of2) /\ UNCHANGED result
    BY <1>1, <1>3, ObjectKinds DEF RS!Wake, RS!Goto, RegisterPc, CallJust
  <2>2. pc = "resolve" \/ (pc = "store finished" /\ task[t].of = task[t].of2)
    BY <2>1 DEF Alike
  <2> HIDE DEF pc
  <2>3. r.pc = pc /\ r.of = task[t].of /\ r.of2 = task[t].of2
    BY <2>1 DEF RegisterTask
  <2> HIDE DEF r
  <2>4. DoneCall(r, server', reqs')
    BY <1>2, <2>2, <2>3 DEF DoneCall, WokenPc, OnServer
  <2> QED BY <1>2, <2>1, <2>4, ThereStays, DoneStep
<1>4. CASE RS!Resolve(t)
  <2> DEFINE its == IF task[t].of = InitialList THEN {} ELSE links
             r == [pc |-> "link", caller |-> "issuer", of |-> task[t].of, of2 |-> task[t].of2,
                   links |-> its]
  <2>1. task[t].of \in RS!Resources
    BY <1>1, <1>4, ObjectKinds DEF RS!Resolve, RegisterPc, RegisterTask
  <2>2. CASE RS!Fail(t, task[t].of)
    BY <1>2, <2>1, <2>2, DoneFail
  <2>3. CASE task' = [task EXCEPT ![t] = r] /\ UNCHANGED result
    <3> HIDE DEF its
    <3>1. r.pc = "link" /\ r.of2 = task[t].of2
      OBVIOUS
    <3> HIDE DEF r
    <3>2. DoneCall(r, server', reqs')
      BY <1>2, <3>1 DEF DoneCall
    <3> QED BY <1>2, <2>3, <3>2, ThereStays, DoneStep
  <2> QED BY <1>4, <2>2, <2>3 DEF RS!Resolve
<1>5. CASE RS!UpdateLinks(t)
  <2>1. /\ task[t] \in LinkTask /\ task[t].of \in Lists /\ task[t].of2 \in Lists
        /\ task[t].of \in RS!Resources
    BY <1>1, <1>5, ObjectKinds DEF RS!UpdateLinks, CallJust, LinkTask
  <2>2. CASE RS!Fail(t, task[t].of)
    BY <1>2, <2>1, <2>2, DoneFail
  <2>3. CASE RS!Goto(t, "store finished") /\ UNCHANGED result
    <3> DEFINE r == [task[t] EXCEPT !.pc = "store finished"]
    <3>1. task' = [task EXCEPT ![t] = r] /\ r.pc = "store finished" /\ r.of = task[t].of
      BY <2>1, <2>3 DEF RS!Goto, LinkTask
    <3> HIDE DEF r
    <3>2. DoneCall(r, server', reqs')
      BY <1>2, <2>1, <3>1 DEF DoneCall, OnServer, WokenPc
    <3> QED BY <1>2, <2>3, <3>1, <3>2, ThereStays, DoneStep
  <2> QED BY <1>5, <2>2, <2>3 DEF RS!UpdateLinks
<1> QED BY <1>3, <1>4, <1>5

\* The handler of an answer: what it tells the calls of, it has uploaded.
LEMMA DoneHandler ==
    ASSUME ObjectInv, DoneInv, Kept(reqs, reqs'), NEW t \in Tasks,
           \/ \E i \in DOMAIN reqs : \E state \in reqs[i].answers : RS!Receive(t, i, state)
           \/ RS!NoteState(t) \/ RS!Keep(t) \/ RS!SaveLink(t) \/ RS!SendLink(t)
           \/ RS!Publish(t) \/ RS!Drop(t)
    PROVE  DoneInv'
<1>1. task[t] \in ObjectTask /\ HandlerJust(task[t], reqs)
  BY TaskKnown
<1>2. ASSUME NEW i, NEW state, RS!Receive(t, i, state) PROVE DoneInv'
  <2> DEFINE r == [pc |-> "note", id |-> i, state |-> state,
                   found |-> reqs[i].record # RS!NoRecord]
  <2>1. task' = [task EXCEPT ![t] = r] /\ UNCHANGED <<server, result>>
    BY <1>2 DEF RS!Receive
  <2>2. r.pc = "note"
    OBVIOUS
  <2> HIDE DEF r
  <2> QED BY <2>1, <2>2, DoneOn DEF WokenPc
<1>3. CASE RS!NoteState(t)
  <2>1. UNCHANGED <<server, result>> /\ task[t].state \in States
    BY <1>1, <1>3, ObjectKinds DEF RS!NoteState, NoteTask
  <2>2. CASE RS!Handling(task[t].state) = "idle"
    BY <1>3, <2>1, <2>2, DoneIdle DEF RS!NoteState
  <2>3. CASE RS!Handling(task[t].state) # "idle"
    <3>1. RS!Handling(task[t].state) \in {"drop", "keep"}
      BY <2>1, <2>3 DEF RS!Handling, States
    <3> DEFINE pc == RS!Handling(task[t].state)
               r == [pc |-> pc, id |-> task[t].id]
    <3>2. task' = [task EXCEPT ![t] = r]
      BY <1>3, <2>3 DEF RS!NoteState
    <3> HIDE DEF pc
    <3>3. r.pc = pc /\ pc \in {"drop", "keep"}
      BY <3>1 DEF pc
    <3> HIDE DEF r
    <3> QED BY <2>1, <3>2, <3>3, DoneOn DEF WokenPc
  <2> QED BY <2>2, <2>3
<1>4. CASE RS!Keep(t)
  <2>1. task[t] \in KeepTask /\ UNCHANGED <<server, result>>
    BY <1>1, <1>4, ObjectKinds DEF RS!Keep
  <2>2. CASE RS!Goto(t, "publish")
    BY <2>1, <2>2, DoneGoto DEF WokenPc
  <2>3. CASE task' = [task EXCEPT ![t] = [pc |-> "save link", id |-> @.id, links |-> links]]
    <3> DEFINE r == [pc |-> "save link", id |-> task[t].id, links |-> links]
    <3>1. task' = [task EXCEPT ![t] = r] /\ r.pc = "save link"
      BY <2>3
    <3> HIDE DEF r
    <3> QED BY <2>1, <3>1, DoneOn DEF WokenPc
  <2> QED BY <1>4, <2>2, <2>3 DEF RS!Keep
<1>5. CASE RS!SaveLink(t)
  <2> DEFINE r == [pc |-> "send link", id |-> task[t].id, link |-> Len(reqs) + 1]
  <2>1. task' = [task EXCEPT ![t] = r] /\ UNCHANGED <<server, result>>
    BY <1>5 DEF RS!SaveLink
  <2>2. r.pc = "send link"
    OBVIOUS
  <2> HIDE DEF r
  <2> QED BY <2>1, <2>2, DoneOn DEF WokenPc
<1>6. CASE RS!SendLink(t)
  <2> DEFINE r == [pc |-> "publish", id |-> task[t].id]
  <2>1. task' = [task EXCEPT ![t] = r] /\ UNCHANGED <<server, result>>
    BY <1>6 DEF RS!SendLink
  <2>2. r.pc = "publish"
    OBVIOUS
  <2> HIDE DEF r
  <2> QED BY <2>1, <2>2, DoneOn DEF WokenPc
<1>7. CASE RS!Publish(t)
  <2> DEFINE r == [task[t] EXCEPT !.pc = "notify"]
  <2>1. task[t] \in KeepTask /\ UNCHANGED <<reqs, result>>
    BY <1>1, <1>7, ObjectKinds DEF RS!Publish
  <2>2. CASE task' = [task EXCEPT ![t] = RS!Idle] /\ UNCHANGED server
    BY <2>1, <2>2, DoneIdle
  <2>3. CASE server' = server \cup {reqs[task[t].id].of} /\ RS!Goto(t, "notify")
    <3>1. task' = [task EXCEPT ![t] = r] /\ r.pc = "notify" /\ r.id = task[t].id
      BY <2>1, <2>3 DEF RS!Goto, KeepTask
    <3> HIDE DEF r
    <3>2. DoneCall(r, server', reqs')
      BY <2>1, <2>3, <3>1 DEF DoneCall, WokenPc
    <3> QED BY <2>1, <2>3, <3>1, <3>2, ThereStays, DoneStep
  <2> QED BY <1>7, <2>2, <2>3 DEF RS!Publish
<1>8. CASE RS!Drop(t)
  BY <1>8, DoneIdle DEF RS!Drop
<1> QED BY <1>2, <1>3, <1>4, <1>5, <1>6, <1>7, <1>8

LEMMA DoneNotify ==
    ASSUME ObjectInv, DoneInv, NEW t \in Tasks, RS!Notify(t)
    PROVE  DoneInv'
<1> DEFINE mine == [task[t] EXCEPT !.pc = "drop"]
           Woken(s) == [task[s] EXCEPT !.pc = "woken"]
<1>1. /\ task[t] \in KeepTask /\ UNCHANGED <<server, reqs, result>>
      /\ reqs[task[t].id].of \in server
  BY TaskKnown, ObjectKinds DEF RS!Notify, DoneInv, DoneCall
<1>2. /\ task'[t] = mine
      /\ \A s \in Tasks : s # t => \/ task[s].pc = "wait" /\ task[s].id = task[t].id
                                      /\ task'[s] = Woken(s)
                                   \/ task'[s] = task[s]
  BY DEF RS!Notify
<1>3. mine.pc = "drop"
  BY <1>1 DEF KeepTask
<1>4. ASSUME NEW s \in Tasks, task[s].pc = "wait", task[s].id = task[t].id
      PROVE  Woken(s).pc = "woken" /\ Woken(s).of2 \in server
  <2>1. task[s] \in RegisterTask
    BY <1>4, TaskKnown, ObjectKinds DEF RegisterPc
  <2>2. task[s].of2 = reqs[task[t].id].of
    BY <1>4, TaskKnown DEF CallJust
  <2> QED BY <1>1, <2>1, <2>2 DEF RegisterTask
<1> HIDE DEF mine, Woken
<1>5. \A s \in Tasks : DoneCall(task[s], server, reqs)
  BY DEF DoneInv
<1>6. DoneCall(mine, server, reqs)
  BY <1>3 DEF DoneCall, WokenPc
<1>7. \A s \in Tasks : task[s].pc = "wait" /\ task[s].id = task[t].id => DoneCall(Woken(s), server, reqs)
  BY <1>4 DEF DoneCall
<1>8. \A s \in Tasks : DoneCall(task'[s], server, reqs)
  BY <1>2, <1>5, <1>6, <1>7
<1> QED BY <1>1, <1>8 DEF DoneInv

LEMMA DoneStays ==
    ASSUME ObjectInv, DoneInv, Kept(reqs, reqs'), UNCHANGED <<server, result, task>>
    PROVE  DoneInv'
<1>1. ASSUME NEW s \in Tasks PROVE DoneCall(task[s], server, reqs')
  <2>1. DoneCall(task[s], server, reqs)
    BY DEF DoneInv
  <2>2. task[s].pc = "notify" => task[s].id \in DOMAIN reqs
    BY TaskKnown DEF HandlerJust
  <2> QED BY <2>1, <2>2 DEF DoneCall, Kept
<1> QED BY <1>1 DEF DoneInv

LEMMA DoneInit == RS!Init => DoneInv
<1> SUFFICES ASSUME RS!Init PROVE DoneInv
  OBVIOUS
<1>1. result = [o \in RS!Resources |-> "none"] /\ task = [t \in Tasks |-> RS!Idle]
  BY DEF RS!Init
<1>2. DoneCall(RS!Idle, server, reqs)
  BY DEF DoneCall, WokenPc, RS!Idle
<1> QED BY <1>1, <1>2 DEF DoneInv, ResultsThere, Results

LEMMA DoneNext ==
    ASSUME Mode = "agent", ObjectInv, DoneInv, [RS!Next]_(RS!vars)
    PROVE  DoneInv'
<1>1. ASSUME NEW t \in Tasks, RS!ReadIndex(t) \/ RS!WriteIndex(t) PROVE DoneInv'
  <2>1. UNCHANGED <<server, result, task>>
    BY <1>1 DEF RS!ReadIndex, RS!WriteIndex
  <2>2. Kept(reqs, reqs')
    BY <1>1, WriteKept DEF RS!ReadIndex, Kept
  <2> QED BY <2>1, <2>2, DoneStays
<1>2. ASSUME NEW t \in Tasks, NEW i \in DOMAIN reqs, RS!Withdraw(t, i), Kept(reqs, reqs')
      PROVE  DoneInv'
  BY <1>2, DoneStays DEF RS!Withdraw
<1>3. ASSUME NEW t \in Tasks, RS!Indexing(t) PROVE DoneInv'
  <2>1. Kept(reqs, reqs')
    BY <1>3, IndexingStarts DEF Starts
  <2> QED BY <1>2, <1>3, <2>1, DoneCalls, DoneWoken, DoneHandler DEF RS!Indexing
<1>4. ASSUME NEW t \in Tasks, RS!Plain(t) PROVE DoneInv'
  <2>1. Kept(reqs, reqs')
    BY <1>4, PlainKept
  <2>2. ASSUME NEW of \in RS!Resources,
               RS!RegisterSchema(t, of) \/ RS!RegisterDefinition(t, of)
                  \/ RS!RegisterList(t, of) \/ RS!UpdateList(t, of)
        PROVE  DoneInv'
    <3>1. RS!Register(t, of)
      BY <2>2 DEF RS!RegisterSchema, RS!RegisterDefinition, RS!RegisterList, RS!UpdateList
    <3> QED BY <2>1, <3>1, DoneRegister
  <2> QED BY <1>4, <2>1, <2>2, DoneCalls, DoneWoken, DoneHandler, DoneNotify DEF RS!Plain
<1>5. ASSUME NEW i \in DOMAIN reqs,
             RS!ReceiveRequest(i) \/ RS!Approve(i) \/ RS!Release(i) \/ RS!Reject(i)
      PROVE  DoneInv'
  <2>1. UNCHANGED <<server, result, task>>
    BY <1>5 DEF RS!ReceiveRequest, RS!Approve, RS!Release, RS!Reject
  <2> QED BY <1>5, <2>1, WitnessKept, DoneStays
<1>6. CASE UNCHANGED RS!vars
  <2>1. UNCHANGED <<server, result, task>> /\ Kept(reqs, reqs')
    BY <1>6 DEF RS!vars, Kept
  <2> QED BY <2>1, DoneStays
<1>7. CASE RS!Next
  BY <1>1, <1>3, <1>4, <1>5, <1>7 DEF RS!Next
<1> QED BY <1>6, <1>7

\* What a caller is told is finished is on the server (of a list, with a witness
\* agent, some list of its registry), whatever uploads fail and whichever calls
\* and answers overlap.  Without an endorsement to wait for, what the issuer has
\* as finished is there as well, and so is each list that is linked.
THEOREM FinishedThere == ASSUME KindsApart PROVE RS!Spec => []RS!FinishedUploaded
<1> DEFINE Inv == ObjectInv /\ (Mode # "agent" => PlainInv) /\ (Mode = "agent" => DoneInv)
<1>1. Inv => RS!FinishedUploaded
  <2> SUFFICES ASSUME Mode # "agent" => PlainInv, Mode = "agent" => DoneInv
               PROVE  RS!FinishedUploaded
    OBVIOUS
  <2>1. CASE Mode # "agent"
    BY <2>1 DEF PlainInv, ResultsOk, HeldThere, RS!FinishedUploaded, RS!Resources
  <2>2. CASE Mode = "agent"
    <3>1. \A of \in RS!Resources : result[of] = "finished" => OnServer(of, server)
      BY <2>2 DEF DoneInv, ResultsThere
    <3> QED BY <2>2, <3>1 DEF KindsApart, OnServer, RS!FinishedUploaded, RS!Resources
  <2> QED BY <2>1, <2>2
<1>2. RS!Init => Inv
  BY ObjectInit, PlainInit, DoneInit
<1>3. Inv /\ [RS!Next]_(RS!vars) => Inv'
  <2> SUFFICES ASSUME ObjectInv, Mode # "agent" => PlainInv, Mode = "agent" => DoneInv,
                      [RS!Next]_(RS!vars)
               PROVE  ObjectInv' /\ (Mode # "agent" => PlainInv') /\ (Mode = "agent" => DoneInv')
    OBVIOUS
  <2>1. ObjectInv'
    BY ObjectNext
  <2>2. Mode # "agent" => PlainInv'
    BY PlainNext
  <2>3. Mode = "agent" => DoneInv'
    BY DoneNext
  <2> QED BY <2>1, <2>2, <2>3
<1> QED BY <1>1, <1>2, <1>3, PTL DEF RS!Spec

-----------------------------------------------------------------------------
(***************************************************************************)
(* A registration that is retried asks the witness once.  A controller     *)
(* that is its own witness looks for no record, so it has to sign at once. *)
(***************************************************************************)
Looked  == Mode = "self" => AutoAttest
CallSet == RegisterTask \cup LinkTask

\* A request that is on record and that no stale update took off the index.
Firm(r) == r.record # RS!NoRecord /\ ~ r.unlisted
\* No request for the object is on record so but the call's own.
Unasked(of, own, R) ==
    of # RS!Registry => \A i \in DOMAIN R : R[i].of = of /\ i # own => ~ Firm(R[i])
OwnPc == {"save", "store wait"}
AskedCall(r, R) ==
    /\ r.pc \in {"look", "ask"} => Mode = "agent"
    /\ r.pc = "ask" => Unasked(r.of, 0, R)
    /\ r.pc \in OwnPc => r.id \in DOMAIN R /\ R[r.id].of = r.of
    /\ r.pc = "save" => Unasked(r.of, r.id, R)
\* Calls that overlap are of different objects.
Differ(T) == \A s, t \in Tasks : T[s] \in CallSet /\ T[t] \in CallSet /\ s # t => T[s].of # T[t].of

\* Such a request is in the index, or the call that made it is about to add it.
Adding(t, i) ==
    /\ task[t].pc = "store wait" /\ task[t].id = i
    /\ \/ update[t] = [step |-> "read", op |-> "add", id |-> i]
       \/ update[t].step = "write" /\ i \in update[t].ids
FirmListed ==
    \A i \in DOMAIN reqs : Firm(reqs[i]) /\ reqs[i].of # RS!Registry =>
                              i \in index \/ \E t \in Tasks : Adding(t, i)

AskedInv ==
    /\ RS!AskedOnce /\ Differ(task) /\ FirmListed
    /\ \A t \in Tasks : AskedCall(task[t], reqs)

\* The index stays, and a call that updates it waits.
Undisturbed ==
    /\ index' = index
    /\ \A s \in Tasks : update[s] # RS!NoUpdate =>
          update'[s] = update[s] /\ (task[s].pc = "store wait" => task'[s] = task[s])

\* Records are removed or lost, and requests are added that have none or are of
\* the registry's definition.
Later(R, S) ==
    /\ DOMAIN R \subseteq DOMAIN S
    /\ \A i \in DOMAIN R : S[i].of = R[i].of /\ (Firm(S[i]) => Firm(R[i]))
    /\ \A i \in DOMAIN S : i \in DOMAIN R \/ ~ Firm(S[i]) \/ S[i].of = RS!Registry

LEMMA SameLater == ASSUME NEW R PROVE Later(R, R)
BY DEF Later

LEMMA AskedLater ==
    ASSUME NEW R, NEW S, Later(R, S), NEW r, AskedCall(r, R)
    PROVE  AskedCall(r, S)
<1>1. \A of, own : Unasked(of, own, R) => Unasked(of, own, S)
  BY DEF Unasked, Later
<1> QED BY <1>1 DEF AskedCall, Later

LEMMA OnceLater ==
    ASSUME RS!AskedOnce, Later(reqs, reqs')
    PROVE  RS!AskedOnce'
BY DEF RS!AskedOnce, Later, Firm

LEMMA AddingKinds ==
    ASSUME NEW t, NEW i, Adding(t, i)
    PROVE  update[t] # RS!NoUpdate /\ (update[t].step = "write" => i \in update[t].ids)
<1>1. RS!NoUpdate.step = "none"
  BY DEF RS!NoUpdate
<1>2. CASE update[t] = [step |-> "read", op |-> "add", id |-> i]
  <2>1. update[t].step = "read"
    BY <1>2
  <2> QED BY <1>1, <2>1
<1>3. CASE update[t].step = "write" /\ i \in update[t].ids
  BY <1>1, <1>3
<1> QED BY <1>2, <1>3 DEF Adding

LEMMA ListedMoves ==
    ASSUME FirmListed, Later(reqs, reqs'), Undisturbed
    PROVE  FirmListed'
<1> SUFFICES ASSUME NEW i \in DOMAIN reqs', Firm(reqs'[i]), reqs'[i].of # RS!Registry
             PROVE  i \in index' \/ \E t \in Tasks : Adding(t, i)'
  BY DEF FirmListed
<1>1. i \in DOMAIN reqs /\ Firm(reqs[i]) /\ reqs[i].of # RS!Registry
  BY DEF Later
<1>2. ASSUME NEW t \in Tasks, Adding(t, i) PROVE Adding(t, i)'
  <2>1. update[t] # RS!NoUpdate
    BY <1>2, AddingKinds
  <2> QED BY <1>2, <2>1 DEF Adding, Undisturbed
<1> QED BY <1>1, <1>2 DEF FirmListed, Undisturbed

\* A step after which every call is of the object it was of.
LEMMA AskedMoves ==
    ASSUME Undisturbed, AskedInv, Later(reqs, reqs'),
           \A s \in Tasks : AskedCall(task'[s], reqs'),
           \A s \in Tasks : task'[s] \in CallSet => task[s] \in CallSet /\ task'[s].of = task[s].of
    PROVE  AskedInv'
<1>1. RS!AskedOnce'
  BY OnceLater DEF AskedInv
<1>2. Differ(task')
  BY DEF AskedInv, Differ
<1>3. FirmListed'
  BY ListedMoves DEF AskedInv
<1> QED BY <1>1, <1>2, <1>3 DEF AskedInv

LEMMA AskedStays == ASSUME Undisturbed, AskedInv, Later(reqs, reqs'), UNCHANGED task PROVE AskedInv'
<1>1. \A s \in Tasks : AskedCall(task'[s], reqs')
  BY AskedLater DEF AskedInv
<1> QED BY <1>1, AskedMoves

\* One call or handler goes on.
LEMMA AskedStep ==
    ASSUME Undisturbed, ObjectInv, AskedInv, Later(reqs, reqs'), NEW t \in Tasks, NEW r, AskedCall(r, reqs'),
           r \in CallSet => task[t] \in CallSet /\ r.of = task[t].of,
           task' = [task EXCEPT ![t] = r]
    PROVE  AskedInv'
<1>1. task'[t] = r /\ \A s \in Tasks : s # t => task'[s] = task[s]
  BY DEF ObjectInv, ObjectTypes
<1>2. \A s \in Tasks : AskedCall(task'[s], reqs')
  BY <1>1, AskedLater DEF AskedInv
<1> QED BY <1>1, <1>2, AskedMoves

\* ... to a place where it has nothing to do with requests.
LEMMA AskedOn ==
    ASSUME Undisturbed, ObjectInv, AskedInv, Later(reqs, reqs'), NEW t \in Tasks, NEW r,
           r.pc \notin {"look", "ask", "save", "store wait"},
           r \in CallSet => task[t] \in CallSet /\ r.of = task[t].of,
           task' = [task EXCEPT ![t] = r]
    PROVE  AskedInv'
<1>1. AskedCall(r, reqs')
  BY DEF AskedCall, OwnPc
<1> QED BY <1>1, AskedStep

LEMMA CallKinds ==
    ASSUME NEW r \in CallSet
    PROVE  r # RS!Idle /\ "caller" \in DOMAIN r
<1>1. RS!Idle.pc = "idle"
  BY DEF RS!Idle
<1>2. CASE r \in RegisterTask
  <2>1. r.pc # "idle"
    BY <1>2 DEF RegisterTask, RegisterPc
  <2>2. r = [pc |-> r.pc, of |-> r.of, caller |-> r.caller, of2 |-> r.of2, id |-> r.id]
    BY <1>2 DEF RegisterTask
  <2>3. "caller" \in DOMAIN r
    BY <2>2
  <2> QED BY <1>1, <2>1, <2>3
<1>3. CASE r \in LinkTask
  <2>1. r.pc # "idle"
    BY <1>3 DEF LinkTask
  <2>2. r = [pc |-> r.pc, of |-> r.of, caller |-> r.caller, of2 |-> r.of2, links |-> r.links]
    BY <1>3 DEF LinkTask
  <2>3. "caller" \in DOMAIN r
    BY <2>2
  <2> QED BY <1>1, <2>1, <2>3
<1> QED BY <1>2, <1>3 DEF CallSet

LEMMA AskedEnd ==
    ASSUME Undisturbed, ObjectInv, AskedInv, Later(reqs, reqs'), NEW t \in Tasks,
           task' = [task EXCEPT ![t] = RS!Idle]
    PROVE  AskedInv'
<1>1. RS!Idle.pc = "idle"
  BY DEF RS!Idle
<1>2. RS!Idle \notin CallSet
  BY CallKinds
<1> QED BY <1>1, <1>2, AskedOn

LEMMA HandlerKinds ==
    ASSUME NEW r, r \in NoteTask \/ r \in KeepTask \/ r \in SaveTask \/ r \in SendTask
    PROVE  r \notin CallSet
<1>1. r \notin RegisterTask
  BY DEF NoteTask, KeepTask, SaveTask, SendTask, RegisterTask, RegisterPc
<1>2. r \notin LinkTask
  BY DEF NoteTask, KeepTask, SaveTask, SendTask, LinkTask
<1> QED BY <1>1, <1>2 DEF CallSet

-----------------------------------------------------------------------------
LEMMA AskedRegister ==
    ASSUME Undisturbed, Looked, ObjectInv, AskedInv, NEW t \in Tasks, NEW of \in RS!Resources,
           RS!Register(t, of)
    PROVE  AskedInv'
<1> DEFINE pc == CASE Mode = "agent" -> "look"
                   [] Mode = "self" /\ ~AutoAttest -> "ask"
                   [] OTHER -> "upload"
           r == [pc |-> pc, of |-> of, caller |-> "issuer", of2 |-> of, id |-> 0]
<1>1. task' = [task EXCEPT ![t] = r] /\ UNCHANGED reqs
  BY DEF RS!Register
<1>2. \A s \in Tasks : task[s] # RS!Idle /\ "caller" \in DOMAIN task[s] => task[s].of # of
  BY DEF RS!Register
<1>3. pc \in {"look", "upload"} /\ (pc = "look" => Mode = "agent")
  BY DEF Looked
<1> HIDE DEF pc
<1>4. AskedCall(r, reqs)
  BY <1>3 DEF AskedCall, OwnPc
<1>5. task'[t] = r /\ \A s \in Tasks : s # t => task'[s] = task[s]
  BY <1>1 DEF ObjectInv, ObjectTypes
<1>6. r.of = of
  OBVIOUS
<1> HIDE DEF r
<1>7. \A s \in Tasks : AskedCall(task'[s], reqs)
  BY <1>4, <1>5 DEF AskedInv
<1>8. \A s \in Tasks : task[s] \in CallSet => task[s].of # of
  BY <1>2, CallKinds
<1>9. Differ(task')
  BY <1>5, <1>6, <1>8 DEF AskedInv, Differ
<1>10. RS!AskedOnce'
  BY <1>1, SameLater, OnceLater DEF AskedInv
<1>11. \A s \in Tasks : AskedCall(task'[s], reqs')
  BY <1>1, <1>7
<1>12. FirmListed'
  BY <1>1, SameLater, ListedMoves DEF AskedInv
<1> QED BY <1>9, <1>10, <1>11, <1>12 DEF AskedInv

\* A request that is on record and not lost is found, but by the call that is
\* adding it, which is of the same object.
LEMMA AskedLook ==
    ASSUME Undisturbed, ObjectInv, AskedInv, NEW t \in Tasks, RS!Look(t)
    PROVE  AskedInv'
<1>1. /\ task[t] \in RegisterTask /\ task[t].pc = "look" /\ reqs' = reqs /\ Later(reqs, reqs')
  BY TaskKnown, ObjectKinds, SameLater DEF RS!Look, RegisterPc
<1> DEFINE found == {i \in RS!Listed : RS!Same(reqs[i], task[t].of)}
<1>2. CASE found = {} /\ RS!Goto(t, "ask")
  <2> DEFINE r == [task[t] EXCEPT !.pc = "ask"]
  <2>1. task' = [task EXCEPT ![t] = r]
    BY <1>2 DEF RS!Goto
  <2>2. r.pc = "ask" /\ r.of = task[t].of
    BY <1>1 DEF RegisterTask
  <2> HIDE DEF r
  <2>3. Unasked(task[t].of, 0, reqs)
    <3> SUFFICES ASSUME NEW i \in DOMAIN reqs, reqs[i].of = task[t].of, Firm(reqs[i]),
                        task[t].of # RS!Registry
                 PROVE  FALSE
      BY DEF Unasked
    <3>1. CASE i \in index
      <4>1. i \in RS!Listed
        BY <3>1 DEF RS!Listed, Firm
      <4> QED BY <1>2, <4>1 DEF RS!Same
    <3>2. ASSUME NEW s \in Tasks, Adding(s, i) PROVE FALSE
      <4>1. task[s].pc = "store wait" /\ task[s].id = i
        BY <3>2 DEF Adding
      <4>2. task[s] \in RegisterTask /\ s # t
        BY <1>1, <4>1, TaskKnown, ObjectKinds DEF RegisterPc
      <4>3. reqs[i].of = task[s].of
        BY <4>1 DEF AskedInv, AskedCall, OwnPc
      <4> QED BY <1>1, <4>2, <4>3 DEF AskedInv, Differ, CallSet
    <3> QED BY <3>1, <3>2 DEF AskedInv, FirmListed
  <2>4. Mode = "agent"
    BY <1>1 DEF AskedInv, AskedCall
  <2>5. AskedCall(r, reqs')
    BY <1>1, <2>2, <2>3, <2>4 DEF AskedCall, OwnPc
  <2> QED BY <1>1, <2>1, <2>2, <2>5, AskedStep DEF CallSet
<1>3. ASSUME NEW i, task' = [task EXCEPT ![t].pc = "wait", ![t].id = i, ![t].of2 = reqs[i].of]
      PROVE  AskedInv'
  <2> DEFINE r == [task[t] EXCEPT !.pc = "wait", !.id = i, !.of2 = reqs[i].of]
  <2>1. task' = [task EXCEPT ![t] = r]
    BY <1>3
  <2>2. r.pc = "wait" /\ r.of = task[t].of
    BY <1>1 DEF RegisterTask
  <2> HIDE DEF r
  <2> QED BY <1>1, <2>1, <2>2, AskedOn DEF CallSet
<1> QED BY <1>2, <1>3 DEF RS!Look

LEMMA AskedAsk ==
    ASSUME Undisturbed, ObjectInv, AskedInv, NEW t \in Tasks, RS!Ask(t)
    PROVE  AskedInv'
<1>1. task[t] \in RegisterTask /\ task[t].pc = "ask" /\ reqs \in Seq(WitnessReq)
  BY TaskKnown, ObjectKinds DEF RS!Ask, RegisterPc
<1>2. Mode = "agent" /\ Unasked(task[t].of, 0, reqs)
  BY <1>1 DEF AskedInv, AskedCall
<1>3. CASE RS!Fail(t, task[t].of) /\ UNCHANGED reqs
  BY <1>3, SameLater, AskedEnd DEF RS!Fail
<1>4. ASSUME NEW v, v = RS!Request(task[t].of, {}, RS!NoRecord, "sent"),
             reqs' = Append(reqs, v),
             task' = [task EXCEPT ![t].pc = "save", ![t].id = Len(reqs) + 1]
      PROVE  AskedInv'
  <2>1. v.of = task[t].of /\ v.record = RS!NoRecord
    BY <1>4 DEF RS!Request
  <2>2. /\ DOMAIN reqs' = DOMAIN reqs \cup {Len(reqs) + 1} /\ reqs'[Len(reqs) + 1] = v
        /\ \A j \in DOMAIN reqs : reqs'[j] = reqs[j] /\ j # 0
    BY <1>1, <1>4
  <2>3. Later(reqs, reqs')
    BY <2>1, <2>2 DEF Later, Firm
  <2> DEFINE r == [task[t] EXCEPT !.pc = "save", !.id = Len(reqs) + 1]
  <2>4. task' = [task EXCEPT ![t] = r]
    BY <1>4
  <2>5. r.pc = "save" /\ r.of = task[t].of /\ r.id = Len(reqs) + 1
    BY <1>1 DEF RegisterTask
  <2> HIDE DEF r
  <2>6. Unasked(task[t].of, Len(reqs) + 1, reqs')
    BY <1>2, <2>2 DEF Unasked
  <2>7. AskedCall(r, reqs')
    BY <2>1, <2>2, <2>5, <2>6 DEF AskedCall, OwnPc
  <2> QED BY <1>1, <2>3, <2>4, <2>5, <2>7, AskedStep DEF CallSet
<1> QED BY <1>2, <1>3, <1>4 DEF RS!Ask

LEMMA AskedSave ==
    ASSUME Undisturbed, ObjectInv, ListingOk, AskedInv, NEW t \in Tasks, RS!SavePending(t)
    PROVE  AskedInv'
<1> DEFINE id == task[t].id
           r  == [task[t] EXCEPT !.pc = "store wait"]
<1>1. /\ task[t] \in RegisterTask /\ task[t].pc = "save" /\ reqs \in Seq(WitnessReq)
      /\ reqs' = [reqs EXCEPT ![id].record = "pending"] /\ task' = [task EXCEPT ![t] = r]
      /\ update' = [update EXCEPT ![t] = [step |-> "read", op |-> "add", id |-> id]]
  BY TaskKnown, ObjectKinds DEF RS!SavePending, RS!Goto, RS!ThenIndex, RegisterPc
<1>2. id \in DOMAIN reqs /\ reqs[id].of = task[t].of /\ Unasked(task[t].of, id, reqs)
  BY <1>1 DEF AskedInv, AskedCall, OwnPc
<1>3. /\ DOMAIN reqs' = DOMAIN reqs /\ reqs'[id].of = reqs[id].of
      /\ \A j \in DOMAIN reqs : j # id => reqs'[j] = reqs[j]
  <2>1. reqs[id] \in WitnessReq
    <3>1. reqs \in Seq(WitnessReq) /\ id \in DOMAIN reqs
      BY <1>1, <1>2
    <3> HIDE DEF id
    <3> QED BY <3>1
  <2> DEFINE v == [reqs[id] EXCEPT !.record = "pending"]
  <2>2. v.of = reqs[id].of
    BY <2>1 DEF WitnessReq
  <2>3. reqs' = [reqs EXCEPT ![id] = v]
    BY <1>1
  <2> HIDE DEF v, id
  <2> QED BY <1>2, <2>2, <2>3
<1>4. r.pc = "store wait" /\ r.of = task[t].of /\ r.id = id
  BY <1>1 DEF RegisterTask
<1> HIDE DEF r, id
<1>5. task'[t] = r /\ \A s \in Tasks : s # t => task'[s] = task[s]
  BY <1>1 DEF ObjectInv, ObjectTypes
<1>6. RS!AskedOnce'
  <2> SUFFICES ASSUME NEW i \in DOMAIN reqs, NEW j \in DOMAIN reqs, i # j,
                      reqs'[i].of = reqs'[j].of, reqs'[i].of # RS!Registry
               PROVE  ~ Firm(reqs'[i]) \/ ~ Firm(reqs'[j])
    BY <1>3 DEF RS!AskedOnce, Firm
  <2>1. reqs[i].of = reqs[j].of /\ reqs[i].of # RS!Registry
    BY <1>3
  <2>2. CASE i = id
    BY <1>2, <1>3, <2>1, <2>2 DEF Unasked
  <2>3. CASE j = id
    BY <1>2, <1>3, <2>1, <2>3 DEF Unasked
  <2>4. CASE i # id /\ j # id
    BY <1>3, <2>1, <2>4 DEF AskedInv, RS!AskedOnce, Firm
  <2> QED BY <2>2, <2>3, <2>4
<1>7. Differ(task')
  <2>1. \A s \in Tasks : task'[s] \in CallSet => task[s] \in CallSet /\ task'[s].of = task[s].of
    BY <1>1, <1>4, <1>5 DEF CallSet
  <2> QED BY <2>1 DEF AskedInv, Differ
<1>8. ASSUME NEW s \in Tasks, s # t PROVE AskedCall(task[s], reqs')
  <2>1. AskedCall(task[s], reqs)
    BY DEF AskedInv
  <2>2. CASE task[s].pc \in {"ask", "save"}
    <3>1. task[s] \in RegisterTask
      BY <2>2, TaskKnown, ObjectKinds DEF RegisterPc
    <3>2. task[s].of # task[t].of
      BY <1>1, <1>8, <3>1 DEF AskedInv, Differ, CallSet
    <3>3. \A own : Unasked(task[s].of, own, reqs) => Unasked(task[s].of, own, reqs')
      BY <1>2, <1>3, <3>2 DEF Unasked
    <3>4. task[s].pc \in OwnPc => reqs'[task[s].id].of = task[s].of
      BY <1>3, <2>1 DEF AskedCall
    <3> QED BY <1>3, <2>1, <3>3, <3>4 DEF AskedCall
  <2>3. CASE task[s].pc \notin {"ask", "save"}
    <3>1. task[s].pc \in OwnPc => reqs'[task[s].id].of = task[s].of
      BY <1>3, <2>1 DEF AskedCall
    <3> QED BY <1>3, <2>1, <2>3, <3>1 DEF AskedCall
  <2> QED BY <2>2, <2>3
<1>9. \A s \in Tasks : AskedCall(task'[s], reqs')
  <2>1. AskedCall(r, reqs')
    BY <1>2, <1>3, <1>4 DEF AskedCall, OwnPc
  <2> QED BY <1>5, <1>8, <2>1
<1>10. FirmListed'
  <2> SUFFICES ASSUME NEW i \in DOMAIN reqs', Firm(reqs'[i]), reqs'[i].of # RS!Registry
               PROVE  i \in index' \/ \E s \in Tasks : Adding(s, i)'
    BY DEF FirmListed
  <2>1. CASE i = id
    <3>1. update'[t] = [step |-> "read", op |-> "add", id |-> id]
      BY <1>1 DEF ListingOk
    <3>2. Adding(t, i)'
      BY <1>4, <1>5, <2>1, <3>1 DEF Adding
    <3> QED BY <3>2
  <2>2. CASE i # id
    <3>1. i \in DOMAIN reqs /\ Firm(reqs[i]) /\ reqs[i].of # RS!Registry
      BY <1>3, <2>2
    <3>2. ASSUME NEW s \in Tasks, Adding(s, i) PROVE Adding(s, i)'
      <4>1. update[s] # RS!NoUpdate
        BY <3>2, AddingKinds
      <4> QED BY <3>2, <4>1 DEF Adding, Undisturbed
    <3> QED BY <3>1, <3>2 DEF AskedInv, FirmListed, Undisturbed
  <2> QED BY <2>1, <2>2
<1> QED BY <1>6, <1>7, <1>9, <1>10 DEF AskedInv

LEMMA AskedUpload ==
    ASSUME Undisturbed, ObjectInv, AskedInv, NEW t \in Tasks, RS!Upload(t)
    PROVE  AskedInv'
<1>1. task[t] \in RegisterTask /\ reqs' = reqs /\ Later(reqs, reqs')
  BY TaskKnown, ObjectKinds, SameLater DEF RS!Upload, RegisterPc
<1>2. CASE RS!Refused(t, task[t].of)
  BY <1>1, <1>2, AskedEnd DEF RS!Refused, RS!Fail
<1>3. CASE RS!Goto(t, IF task[t].of \in Lists THEN "resolve" ELSE "store finished")
  <2> DEFINE pc == IF task[t].of \in Lists THEN "resolve" ELSE "store finished"
             r  == [task[t] EXCEPT !.pc = pc]
  <2>1. task' = [task EXCEPT ![t] = r]
    BY <1>3 DEF RS!Goto
  <2>2. pc \in {"resolve", "store finished"}
    OBVIOUS
  <2> HIDE DEF pc
  <2>3. r.pc = pc /\ r.of = task[t].of
    BY <1>1 DEF RegisterTask
  <2> HIDE DEF r
  <2> QED BY <1>1, <2>1, <2>2, <2>3, AskedOn DEF CallSet
<1> QED BY <1>2, <1>3 DEF RS!Upload

LEMMA AskedTimeOut ==
    ASSUME Undisturbed, ObjectInv, AskedInv, NEW t \in Tasks, RS!TimeOut(t)
    PROVE  AskedInv'
<1>1. task' = [task EXCEPT ![t] = RS!Idle] /\ Later(reqs, reqs')
  BY SameLater DEF RS!TimeOut, RS!Fail
<1> QED BY <1>1, AskedEnd

\* A request's record changes, but one that is gone stays away.
LEMMA RecordLater ==
    ASSUME reqs \in Seq(WitnessReq), NEW i \in DOMAIN reqs, NEW v,
           reqs[i].record = RS!NoRecord => v = RS!NoRecord,
           reqs' = [reqs EXCEPT ![i].record = v]
    PROVE  Later(reqs, reqs')
<1> DEFINE q == [reqs[i] EXCEPT !.record = v]
<1>1. reqs[i] \in WitnessReq
  OBVIOUS
<1>2. q.of = reqs[i].of /\ q.record = v /\ q.unlisted = reqs[i].unlisted
  BY <1>1 DEF WitnessReq
<1>3. reqs' = [reqs EXCEPT ![i] = q]
  OBVIOUS
<1> HIDE DEF q
<1>4. DOMAIN reqs' = DOMAIN reqs /\ reqs'[i] = q /\ \A j \in DOMAIN reqs : j # i => reqs'[j] = reqs[j]
  BY <1>3
<1> QED BY <1>2, <1>4 DEF Later, Firm

LEMMA AskedWake ==
    ASSUME Undisturbed, ObjectInv, AskedInv, NEW t \in Tasks, RS!Wake(t)
    PROVE  AskedInv'
<1>1. /\ task[t] \in RegisterTask /\ task[t].id \in DOMAIN reqs /\ reqs \in Seq(WitnessReq)
      /\ reqs' = [reqs EXCEPT ![task[t].id].record = RS!NoRecord]
  BY TaskKnown, ObjectKinds DEF RS!Wake, RegisterPc, CallJust
<1>2. Later(reqs, reqs')
  BY <1>1, RecordLater
<1> DEFINE pc == IF task[t].of \in Lists THEN "resolve" ELSE "store finished"
           r  == [task[t] EXCEPT !.pc = pc]
<1>3. task' = [task EXCEPT ![t] = r]
  BY DEF RS!Wake, RS!Goto
<1>4. pc \in {"resolve", "store finished"}
  OBVIOUS
<1> HIDE DEF pc
<1>5. r.pc = pc /\ r.of = task[t].of
  BY <1>1 DEF RegisterTask
<1> HIDE DEF r
<1>6. task[t] \in CallSet
  BY <1>1 DEF CallSet
<1> QED BY <1>2, <1>3, <1>4, <1>5, <1>6, AskedOn

LEMMA AskedResolve ==
    ASSUME Undisturbed, ObjectInv, AskedInv, NEW t \in Tasks, RS!Resolve(t)
    PROVE  AskedInv'
<1>1. task[t] \in RegisterTask /\ Later(reqs, reqs')
  BY TaskKnown, ObjectKinds, SameLater DEF RS!Resolve, RegisterPc
<1> DEFINE its == IF task[t].of = InitialList THEN {} ELSE links
           r == [pc |-> "link", caller |-> "issuer", of |-> task[t].of, of2 |-> task[t].of2,
                 links |-> its]
<1>2. CASE RS!Fail(t, task[t].of)
  BY <1>1, <1>2, AskedEnd DEF RS!Fail
<1>3. CASE task' = [task EXCEPT ![t] = r]
  <2> HIDE DEF its
  <2>1. r.pc = "link" /\ r.of = task[t].of /\ task[t] \in CallSet
    BY <1>1 DEF CallSet
  <2> HIDE DEF r
  <2> QED BY <1>1, <1>3, <2>1, AskedOn
<1> QED BY <1>2, <1>3 DEF RS!Resolve

LEMMA AskedLink ==
    ASSUME Undisturbed, ObjectInv, AskedInv, NEW t \in Tasks, RS!UpdateLinks(t)
    PROVE  AskedInv'
<1>1. task[t] \in LinkTask /\ Later(reqs, reqs')
  BY TaskKnown, ObjectKinds, SameLater DEF RS!UpdateLinks
<1>2. CASE RS!Fail(t, task[t].of)
  BY <1>1, <1>2, AskedEnd DEF RS!Fail
<1>3. CASE RS!Goto(t, "store finished")
  <2> DEFINE r == [task[t] EXCEPT !.pc = "store finished"]
  <2>1. task' = [task EXCEPT ![t] = r]
    BY <1>3 DEF RS!Goto
  <2>2. r.pc = "store finished" /\ r.of = task[t].of /\ task[t] \in CallSet
    BY <1>1 DEF LinkTask, CallSet
  <2> HIDE DEF r
  <2> QED BY <1>1, <2>1, <2>2, AskedOn
<1> QED BY <1>2, <1>3 DEF RS!UpdateLinks

LEMMA AskedStore ==
    ASSUME Undisturbed, ObjectInv, AskedInv, NEW t \in Tasks, NEW state \in {"wait", "finished"},
           RS!Store(t, state)
    PROVE  AskedInv'
<1>1. task' = [task EXCEPT ![t] = RS!Idle] /\ Later(reqs, reqs')
  BY SameLater DEF RS!Store
<1> QED BY <1>1, AskedEnd

\* A request's answers, signature or witness change.
LEMMA AnswerLater ==
    ASSUME reqs \in Seq(WitnessReq), NEW i \in DOMAIN reqs, NEW v,
           v.of = reqs[i].of, v.record = reqs[i].record, v.unlisted = reqs[i].unlisted,
           reqs' = [reqs EXCEPT ![i] = v]
    PROVE  Later(reqs, reqs')
<1>1. DOMAIN reqs' = DOMAIN reqs /\ reqs'[i] = v /\ \A j \in DOMAIN reqs : j # i => reqs'[j] = reqs[j]
  OBVIOUS
<1> QED BY <1>1 DEF Later, Firm

LEMMA AskedReceive ==
    ASSUME Undisturbed, ObjectInv, AskedInv, NEW t \in Tasks, NEW i \in DOMAIN reqs, NEW state \in reqs[i].answers,
           RS!Receive(t, i, state)
    PROVE  AskedInv'
<1> DEFINE v == [reqs[i] EXCEPT !.answers = reqs[i].answers \ {state}]
           r == [pc |-> "note", id |-> i, state |-> state, found |-> reqs[i].record # RS!NoRecord]
<1>1. reqs \in Seq(WitnessReq) /\ reqs[i] \in WitnessReq /\ i \in Nat
  <2>1. reqs \in Seq(WitnessReq)
    BY TaskKnown
  <2> QED BY <2>1
<1>2. v.of = reqs[i].of /\ v.record = reqs[i].record /\ v.unlisted = reqs[i].unlisted
  BY <1>1 DEF WitnessReq
<1>3. reqs' = [reqs EXCEPT ![i] = v] /\ task' = [task EXCEPT ![t] = r]
  BY DEF RS!Receive
<1>4. state \in States
  BY <1>1 DEF WitnessReq
<1> HIDE DEF v
<1>5. Later(reqs, reqs')
  BY <1>1, <1>2, <1>3, AnswerLater
<1>6. r \in NoteTask /\ r.pc = "note"
  BY <1>1, <1>4 DEF NoteTask
<1> HIDE DEF r
<1>7. r \notin CallSet
  BY <1>6, HandlerKinds
<1> QED BY <1>3, <1>5, <1>6, <1>7, AskedOn

LEMMA AskedNote ==
    ASSUME Undisturbed, ObjectInv, AskedInv, NEW t \in Tasks, RS!NoteState(t)
    PROVE  AskedInv'
<1>1. task[t] \in NoteTask /\ task[t].id \in DOMAIN reqs /\ reqs \in Seq(WitnessReq)
  BY TaskKnown, ObjectKinds DEF RS!NoteState, HandlerJust
<1> DEFINE i == task[t].id
           value == IF task[t].found /\ reqs[i].record # RS!NoRecord
                    THEN task[t].state ELSE reqs[i].record
<1>2. reqs' = [reqs EXCEPT ![i].record = value]
  BY DEF RS!NoteState
<1>3. reqs[i].record = RS!NoRecord => value = RS!NoRecord
  OBVIOUS
<1> HIDE DEF value
<1>4. Later(reqs, reqs')
  BY <1>1, <1>2, <1>3, RecordLater
<1>5. i \in Nat /\ task[t].state \in States
  BY <1>1 DEF NoteTask
<1>6. CASE RS!Handling(task[t].state) = "idle"
  <2>1. task' = [task EXCEPT ![t] = RS!Idle]
    BY <1>6 DEF RS!NoteState
  <2> QED BY <1>4, <2>1, AskedEnd
<1>7. CASE RS!Handling(task[t].state) # "idle"
  <2> DEFINE pc == RS!Handling(task[t].state)
             r == [pc |-> pc, id |-> i]
  <2>1. pc \in {"drop", "keep"}
    BY <1>5, <1>7 DEF RS!Handling, States
  <2>2. task' = [task EXCEPT ![t] = r]
    BY <1>7 DEF RS!NoteState
  <2> HIDE DEF pc
  <2>3. r \in KeepTask /\ r.pc = pc
    BY <1>5, <2>1 DEF KeepTask
  <2> HIDE DEF r
  <2>4. r \notin CallSet
    BY <2>3, HandlerKinds
  <2> QED BY <1>4, <2>1, <2>2, <2>3, <2>4, AskedOn
<1> QED BY <1>6, <1>7

\* A handler goes on with the same request.
LEMMA AskedHandler ==
    ASSUME Undisturbed, ObjectInv, AskedInv, Later(reqs, reqs'), NEW t \in Tasks,
           task[t] \in KeepTask, NEW pc \in {"publish", "notify", "drop"}, RS!Goto(t, pc)
    PROVE  AskedInv'
<1> DEFINE r == [task[t] EXCEPT !.pc = pc]
<1>1. task' = [task EXCEPT ![t] = r]
  BY DEF RS!Goto
<1>2. r \in KeepTask /\ r.pc = pc
  BY DEF KeepTask
<1> HIDE DEF r
<1>3. r \notin CallSet
  BY <1>2, HandlerKinds
<1> QED BY <1>1, <1>2, <1>3, AskedOn

LEMMA AskedKeep ==
    ASSUME Undisturbed, ObjectInv, AskedInv, NEW t \in Tasks, RS!Keep(t)
    PROVE  AskedInv'
<1>1. task[t] \in KeepTask /\ Later(reqs, reqs') /\ links \subseteq Lists
  BY TaskKnown, ObjectKinds, SameLater DEF RS!Keep, ObjectInv, ObjectTypes
<1>2. CASE RS!Goto(t, "publish")
  BY <1>1, <1>2, AskedHandler
<1>3. CASE task' = [task EXCEPT ![t] = [pc |-> "save link", id |-> task[t].id, links |-> links]]
  <2> DEFINE r == [pc |-> "save link", id |-> task[t].id, links |-> links]
  <2>1. r \in SaveTask /\ r.pc = "save link" /\ task' = [task EXCEPT ![t] = r]
    BY <1>1, <1>3 DEF SaveTask, KeepTask
  <2> HIDE DEF r
  <2>2. r \notin CallSet
    BY <2>1, HandlerKinds
  <2> QED BY <1>1, <2>1, <2>2, AskedOn
<1> QED BY <1>2, <1>3 DEF RS!Keep

LEMMA AskedSaveLink ==
    ASSUME Undisturbed, ObjectInv, AskedInv, NEW t \in Tasks, RS!SaveLink(t)
    PROVE  AskedInv'
<1> DEFINE its == task[t].links \cup {reqs[task[t].id].of}
           v == RS!Request(RS!Registry, its, "pending", "unsent")
           r == [pc |-> "send link", id |-> task[t].id, link |-> Len(reqs) + 1]
<1>1. /\ task[t] \in SaveTask /\ reqs \in Seq(WitnessReq)
      /\ reqs' = Append(reqs, v) /\ task' = [task EXCEPT ![t] = r]
  BY TaskKnown, ObjectKinds DEF RS!SaveLink
<1>2. v.of = RS!Registry
  BY DEF RS!Request
<1> HIDE DEF v, its
<1>3. reqs \in Seq(WitnessReq) /\ reqs' = Append(reqs, v)
  BY <1>1
<1>4. /\ DOMAIN reqs' = DOMAIN reqs \cup {Len(reqs) + 1} /\ reqs'[Len(reqs) + 1] = v
      /\ \A j \in DOMAIN reqs : reqs'[j] = reqs[j]
  BY <1>3
<1>5. Later(reqs, reqs')
  BY <1>2, <1>4 DEF Later
<1>6. Len(reqs) + 1 \in Nat
  BY <1>3
<1>7. r \in SendTask /\ r.pc = "send link"
  BY <1>1, <1>6 DEF SaveTask, SendTask
<1> HIDE DEF r
<1>8. r \notin CallSet
  BY <1>7, HandlerKinds
<1> QED BY <1>1, <1>5, <1>7, <1>8, AskedOn

LEMMA AskedSendLink ==
    ASSUME Undisturbed, ObjectInv, AskedInv, NEW t \in Tasks, RS!SendLink(t)
    PROVE  AskedInv'
<1> DEFINE k == task[t].link
           v == [reqs[k] EXCEPT !.witness = "sent"]
           r == [pc |-> "publish", id |-> task[t].id]
<1>1. /\ task[t] \in SendTask /\ k \in DOMAIN reqs /\ reqs \in Seq(WitnessReq)
      /\ task' = [task EXCEPT ![t] = r]
  BY TaskKnown, ObjectKinds DEF RS!SendLink, HandlerJust
<1>2. reqs' = [reqs EXCEPT ![k] = v] \/ reqs' = reqs
  BY DEF RS!SendLink
<1>3. r \in KeepTask /\ r.pc = "publish"
  BY <1>1 DEF SendTask, KeepTask
<1> HIDE DEF r, k
<1>4. v.of = reqs[k].of /\ v.record = reqs[k].record /\ v.unlisted = reqs[k].unlisted
  <2>1. reqs[k] \in WitnessReq
    BY <1>1
  <2> QED BY <2>1 DEF WitnessReq
<1> HIDE DEF v
<1>5. Later(reqs, reqs')
  BY <1>1, <1>2, <1>4, AnswerLater, SameLater
<1>6. r \notin CallSet
  BY <1>3, HandlerKinds
<1> QED BY <1>1, <1>3, <1>5, <1>6, AskedOn

LEMMA AskedPublish ==
    ASSUME Undisturbed, ObjectInv, AskedInv, NEW t \in Tasks, RS!Publish(t)
    PROVE  AskedInv'
<1>1. task[t] \in KeepTask /\ Later(reqs, reqs')
  BY TaskKnown, ObjectKinds, SameLater DEF RS!Publish
<1>2. RS!Goto(t, "notify") \/ task' = [task EXCEPT ![t] = RS!Idle]
  BY DEF RS!Publish
<1> QED BY <1>1, <1>2, AskedHandler, AskedEnd

LEMMA AskedNotify ==
    ASSUME Undisturbed, ObjectInv, AskedInv, NEW t \in Tasks, RS!Notify(t)
    PROVE  AskedInv'
<1> DEFINE mine == [task[t] EXCEPT !.pc = "drop"]
           Woken(s) == [task[s] EXCEPT !.pc = "woken"]
<1>1. task[t] \in KeepTask /\ Later(reqs, reqs')
  BY TaskKnown, ObjectKinds, SameLater DEF RS!Notify
<1>2. /\ task'[t] = mine
      /\ \A s \in Tasks : s # t => \/ task[s].pc = "wait" /\ task'[s] = Woken(s)
                                   \/ task'[s] = task[s]
  BY DEF RS!Notify
<1>3. mine.pc = "drop" /\ mine \notin CallSet
  <2>1. mine \in KeepTask /\ mine.pc = "drop"
    BY <1>1 DEF KeepTask
  <2> HIDE DEF mine
  <2> QED BY <2>1, HandlerKinds
<1>4. ASSUME NEW s \in Tasks, task[s].pc = "wait"
      PROVE  task[s] \in CallSet /\ Woken(s).of = task[s].of /\ Woken(s).pc = "woken"
  <2>1. task[s] \in RegisterTask
    BY <1>4, TaskKnown, ObjectKinds DEF RegisterPc
  <2> QED BY <2>1 DEF RegisterTask, CallSet
<1> HIDE DEF mine, Woken
<1>5. \A r : r.pc \notin {"look", "ask", "save", "store wait"} => AskedCall(r, reqs')
  BY DEF AskedCall, OwnPc
<1>6. \A s \in Tasks : AskedCall(task[s], reqs')
  BY <1>1, AskedLater DEF AskedInv
<1>7. \A s \in Tasks : AskedCall(task'[s], reqs')
  BY <1>2, <1>3, <1>4, <1>5, <1>6
<1>8. \A s \in Tasks : task'[s] \in CallSet => task[s] \in CallSet /\ task'[s].of = task[s].of
  BY <1>2, <1>3, <1>4
<1> QED BY <1>1, <1>7, <1>8, AskedMoves

LEMMA AskedDrop ==
    ASSUME Undisturbed, ObjectInv, AskedInv, NEW t \in Tasks, RS!Drop(t)
    PROVE  AskedInv'
<1>1. /\ task[t].id \in DOMAIN reqs /\ reqs \in Seq(WitnessReq)
      /\ reqs' = [reqs EXCEPT ![task[t].id].record = RS!NoRecord]
      /\ task' = [task EXCEPT ![t] = RS!Idle]
  BY TaskKnown DEF RS!Drop, HandlerJust
<1>2. Later(reqs, reqs')
  BY <1>1, RecordLater
<1> QED BY <1>1, <1>2, AskedEnd

LEMMA AskedWitness ==
    ASSUME Undisturbed, ObjectInv, AskedInv, NEW i \in DOMAIN reqs,
           RS!ReceiveRequest(i) \/ RS!Approve(i) \/ RS!Release(i) \/ RS!Reject(i)
              \/ \E t \in Tasks : RS!Withdraw(t, i)
    PROVE  AskedInv'
<1>1. reqs \in Seq(WitnessReq) /\ reqs[i] \in WitnessReq
  <2>1. reqs \in Seq(WitnessReq)
    BY DEF ObjectInv, ObjectTypes
  <2> QED BY <2>1
<1>2. UNCHANGED task
  BY DEF RS!ReceiveRequest, RS!Approve, RS!Release, RS!Reject, RS!Withdraw
<1>3. ASSUME NEW state, NEW witness, NEW signed, RS!Answer(i, state, witness, signed)
      PROVE  Later(reqs, reqs')
  <2> DEFINE v == [reqs[i] EXCEPT !.answers = reqs[i].answers \cup {state}, !.witness = witness,
                                  !.signed = reqs[i].signed \/ signed]
  <2>1. reqs' = [reqs EXCEPT ![i] = v]
    BY <1>1, <1>3 DEF RS!Answer
  <2>2. v.of = reqs[i].of /\ v.record = reqs[i].record /\ v.unlisted = reqs[i].unlisted
    BY <1>1 DEF WitnessReq
  <2> HIDE DEF v
  <2> QED BY <1>1, <2>1, <2>2, AnswerLater
<1>4. CASE reqs' = [reqs EXCEPT ![i].signed = TRUE]
  <2> DEFINE v == [reqs[i] EXCEPT !.signed = TRUE]
  <2>1. reqs' = [reqs EXCEPT ![i] = v]
    BY <1>4
  <2>2. v.of = reqs[i].of /\ v.record = reqs[i].record /\ v.unlisted = reqs[i].unlisted
    BY <1>1 DEF WitnessReq
  <2> HIDE DEF v
  <2>3. Later(reqs, reqs')
    BY <1>1, <2>1, <2>2, AnswerLater
  <2> QED BY <1>2, <2>3, AskedStays
<1>5. CASE reqs' = [reqs EXCEPT ![i].witness = "done"]
  <2> DEFINE v == [reqs[i] EXCEPT !.witness = "done"]
  <2>1. reqs' = [reqs EXCEPT ![i] = v]
    BY <1>5
  <2>2. v.of = reqs[i].of /\ v.record = reqs[i].record /\ v.unlisted = reqs[i].unlisted
    BY <1>1 DEF WitnessReq
  <2> HIDE DEF v
  <2>3. Later(reqs, reqs')
    BY <1>1, <2>1, <2>2, AnswerLater
  <2> QED BY <1>2, <2>3, AskedStays
<1>6. CASE reqs' = [reqs EXCEPT ![i].record = RS!NoRecord]
  <2>1. Later(reqs, reqs')
    BY <1>1, <1>6, RecordLater
  <2> QED BY <1>2, <2>1, AskedStays
<1>7. CASE RS!Answer(i, "attested", "done", TRUE) \/ RS!Answer(i, "pending", "held", FALSE)
             \/ RS!Answer(i, "attested", "told", TRUE) \/ RS!Answer(i, "rejected", "done", FALSE)
  <2>1. Later(reqs, reqs')
    BY <1>3, <1>7
  <2> QED BY <1>2, <2>1, AskedStays
<1> QED BY <1>4, <1>5, <1>6, <1>7 DEF RS!ReceiveRequest, RS!Approve, RS!Release, RS!Reject, RS!Withdraw

LEMMA AskedInit == RS!Init => AskedInv
<1> SUFFICES ASSUME RS!Init PROVE AskedInv
  OBVIOUS
<1>1. reqs = <<>> /\ task = [t \in Tasks |-> RS!Idle]
  BY DEF RS!Init
<1>2. RS!AskedOnce /\ FirmListed
  BY <1>1 DEF RS!AskedOnce, FirmListed
<1>3. Differ(task)
  BY <1>1, CallKinds DEF Differ
<1>4. AskedCall(RS!Idle, reqs)
  BY DEF RS!Idle, AskedCall, OwnPc
<1> QED BY <1>1, <1>2, <1>3, <1>4 DEF AskedInv

\* An update of the index is read: what is to be added will be.
LEMMA AskedRead ==
    ASSUME ObjectInv, ListingOk, AskedInv, NEW t \in Tasks, RS!ReadIndex(t)
    PROVE  AskedInv'
<1> DEFINE id  == update[t].id
           ids == IF update[t].op = "add" THEN index \cup {id} ELSE index \ {id}
           u   == IF ids = index THEN RS!NoUpdate ELSE [step |-> "write", ids |-> ids]
<1>1. /\ update' = [update EXCEPT ![t] = u] /\ UNCHANGED <<reqs, index, task>>
      /\ update[t].step = "read"
  BY DEF RS!ReadIndex
<1>2. ASSUME NEW s \in Tasks, NEW i, Adding(s, i) PROVE i \in index' \/ Adding(s, i)'
  <2>1. CASE s # t
    <3>1. update'[s] = update[s]
      BY <1>1, <2>1 DEF ListingOk
    <3> QED BY <1>1, <1>2, <3>1 DEF Adding
  <2>2. CASE s = t
    <3>1. update[t] = [step |-> "read", op |-> "add", id |-> i]
      BY <1>1, <1>2, <2>2 DEF Adding
    <3>2. i \in ids
      BY <3>1
    <3> HIDE DEF ids
    <3>3. update'[t] = u
      BY <1>1 DEF ListingOk
    <3>4. CASE ids = index
      BY <1>1, <3>2, <3>4
    <3>5. CASE ids # index
      <4>1. update'[t].step = "write" /\ i \in update'[t].ids
        BY <3>2, <3>3, <3>5
      <4> QED BY <1>1, <1>2, <2>2, <4>1 DEF Adding
    <3> QED BY <3>4, <3>5
  <2> QED BY <2>1, <2>2
<1> HIDE DEF u
<1>3. FirmListed'
  BY <1>1, <1>2 DEF AskedInv, FirmListed
<1> QED BY <1>1, <1>3 DEF AskedInv, RS!AskedOnce

\* ... and written: what was listed since is lost, and no longer firm.
LEMMA AskedWrite ==
    ASSUME ObjectInv, ListingOk, AskedInv, NEW t \in Tasks, RS!WriteIndex(t)
    PROVE  AskedInv'
<1> DEFINE Lost(i) == reqs[i].unlisted \/ (reqs[i].record # RS!NoRecord
                                            /\ i \in index \ update[t].ids)
           Left(i) == [reqs[i] EXCEPT !.unlisted = Lost(i)]
<1>1. /\ index' = update[t].ids /\ update[t].step = "write" /\ UNCHANGED task
      /\ update' = [update EXCEPT ![t] = RS!NoUpdate]
      /\ reqs' = [i \in DOMAIN reqs |-> Left(i)]
  BY DEF RS!WriteIndex
<1>2. ASSUME NEW i \in DOMAIN reqs
      PROVE  /\ Left(i).of = reqs[i].of /\ Left(i).record = reqs[i].record
             /\ Left(i).unlisted = Lost(i)
  <2>1. reqs[i] \in WitnessReq
    BY DEF ObjectInv, ObjectTypes
  <2> HIDE DEF Lost
  <2> QED BY <2>1 DEF WitnessReq
<1> HIDE DEF Left
<1>3. ASSUME NEW i \in DOMAIN reqs
      PROVE  reqs'[i].of = reqs[i].of /\ (Firm(reqs'[i]) => Firm(reqs[i]) /\ i \notin index \ index')
  BY <1>1, <1>2 DEF Firm
<1>4. DOMAIN reqs' = DOMAIN reqs
  BY <1>1
<1>5. Later(reqs, reqs')
  BY <1>3, <1>4 DEF Later
<1>6. FirmListed'
  <2> SUFFICES ASSUME NEW i \in DOMAIN reqs, Firm(reqs'[i]), reqs'[i].of # RS!Registry
               PROVE  i \in index' \/ \E s \in Tasks : Adding(s, i)'
    BY <1>4 DEF FirmListed
  <2>1. Firm(reqs[i]) /\ reqs[i].of # RS!Registry /\ (i \in index => i \in index')
    BY <1>3
  <2>2. ASSUME NEW s \in Tasks, Adding(s, i) PROVE i \in index' \/ Adding(s, i)'
    <3>1. CASE s = t
      BY <1>1, <2>2, <3>1, AddingKinds
    <3>2. CASE s # t
      <4>1. update'[s] = update[s]
        BY <1>1, <3>2 DEF ListingOk
      <4> QED BY <1>1, <2>2, <4>1 DEF Adding
    <3> QED BY <3>1, <3>2
  <2> QED BY <2>1, <2>2 DEF AskedInv, FirmListed
<1>7. \A s \in Tasks : AskedCall(task'[s], reqs')
  BY <1>1, <1>5, AskedLater DEF AskedInv
<1>8. RS!AskedOnce' /\ Differ(task')
  BY <1>1, <1>5, OnceLater DEF AskedInv
<1> QED BY <1>6, <1>7, <1>8 DEF AskedInv

\* A step of one task leaves the calls that update the index alone.
OthersKeep(t) == \A s \in Tasks : s # t /\ task[s].pc = "store wait" => task'[s] = task[s]

LEMMA IndexingOthers ==
    ASSUME ObjectInv, NEW t \in Tasks, RS!Indexing(t)
    PROVE  OthersKeep(t)
<1>1. task \in [Tasks -> ObjectTask]
  BY DEF ObjectInv, ObjectTypes
<1>2. CASE RS!Ask(t) \/ RS!SavePending(t) \/ RS!Wake(t)
  BY <1>1, <1>2 DEF RS!Ask, RS!SavePending, RS!Wake, RS!Fail, RS!Goto, OthersKeep
<1>3. CASE RS!SaveLink(t) \/ RS!Drop(t)
  BY <1>1, <1>3 DEF RS!SaveLink, RS!Drop, OthersKeep
<1>4. ASSUME NEW i, RS!Withdraw(t, i) PROVE OthersKeep(t)
  BY <1>4 DEF RS!Withdraw, OthersKeep
<1> QED BY <1>2, <1>3, <1>4 DEF RS!Indexing

LEMMA PlainOthers ==
    ASSUME ObjectInv, NEW t \in Tasks, RS!Plain(t)
    PROVE  OthersKeep(t)
<1>1. task \in [Tasks -> ObjectTask]
  BY DEF ObjectInv, ObjectTypes
<1>2. ASSUME NEW r, task' = [task EXCEPT ![t] = r] PROVE OthersKeep(t)
  BY <1>1, <1>2 DEF OthersKeep
<1>3. ASSUME NEW of, RS!Register(t, of) PROVE OthersKeep(t)
  BY <1>2, <1>3 DEF RS!Register
<1>4. CASE RS!Look(t) \/ RS!Upload(t) \/ RS!TimeOut(t)
  BY <1>1, <1>4 DEF RS!Look, RS!Upload, RS!Refused, RS!TimeOut, RS!Fail, RS!Goto, OthersKeep
<1>5. CASE RS!Resolve(t) \/ RS!UpdateLinks(t)
  BY <1>1, <1>5 DEF RS!Resolve, RS!UpdateLinks, RS!Fail, RS!Goto, OthersKeep
<1>6. ASSUME NEW state, RS!Store(t, state) PROVE OthersKeep(t)
  BY <1>2, <1>6 DEF RS!Store
<1>7. ASSUME NEW i, NEW state, RS!Receive(t, i, state) PROVE OthersKeep(t)
  BY <1>2, <1>7 DEF RS!Receive
<1>8. CASE RS!NoteState(t)
  BY <1>1, <1>8 DEF RS!NoteState, OthersKeep
<1>9. CASE RS!Keep(t) \/ RS!SendLink(t) \/ RS!Publish(t)
  BY <1>1, <1>9 DEF RS!Keep, RS!SendLink, RS!Publish, RS!Goto, OthersKeep
<1>10. CASE RS!Notify(t)
  BY <1>1, <1>10 DEF RS!Notify, OthersKeep
<1> QED BY <1>3, <1>4, <1>5, <1>6, <1>7, <1>8, <1>9, <1>10
        DEF RS!Plain, RS!RegisterSchema, RS!RegisterDefinition, RS!RegisterList, RS!UpdateList

LEMMA TaskDisturbs ==
    ASSUME ObjectInv, ListingOk, NEW t \in Tasks, update[t] = RS!NoUpdate,
           RS!Indexing(t) \/ (RS!Plain(t) /\ UNCHANGED RS!listing)
    PROVE  Undisturbed
<1>1. OthersKeep(t)
  BY IndexingOthers, PlainOthers
<1>2. index' = index /\ \A s \in Tasks : s # t => update'[s] = update[s]
  <2>1. CASE RS!Indexing(t)
    BY <2>1, IndexingStarts DEF Starts, ListingOk
  <2>2. CASE UNCHANGED RS!listing
    BY <2>2 DEF RS!listing
  <2> QED BY <2>1, <2>2
<1> QED BY <1>1, <1>2 DEF Undisturbed, OthersKeep

LEMMA AskedNext ==
    ASSUME Looked, ObjectInv, ListingOk, AskedInv, [RS!Next]_(RS!vars)
    PROVE  AskedInv'
<1>1. ASSUME NEW t \in Tasks, NEW of \in RS!Resources, Undisturbed,
             RS!RegisterSchema(t, of) \/ RS!RegisterDefinition(t, of)
                \/ RS!RegisterList(t, of) \/ RS!UpdateList(t, of)
      PROVE  AskedInv'
  <2>1. RS!Register(t, of)
    BY <1>1 DEF RS!RegisterSchema, RS!RegisterDefinition, RS!RegisterList, RS!UpdateList
  <2> QED BY <1>1, <2>1, AskedRegister
<1>2. ASSUME NEW t \in Tasks, Undisturbed,
             RS!Look(t) \/ RS!Ask(t) \/ RS!SavePending(t) \/ RS!Upload(t) \/ RS!TimeOut(t)
                \/ RS!Wake(t) \/ RS!Resolve(t) \/ RS!UpdateLinks(t)
      PROVE  AskedInv'
  BY <1>2, AskedLook, AskedAsk, AskedSave, AskedUpload, AskedTimeOut, AskedWake,
     AskedResolve, AskedLink
<1>3. ASSUME NEW t \in Tasks, NEW state \in {"wait", "finished"}, Undisturbed, RS!Store(t, state)
      PROVE  AskedInv'
  BY <1>3, AskedStore
<1>4. ASSUME NEW t \in Tasks, NEW i \in DOMAIN reqs, NEW state \in reqs[i].answers, Undisturbed,
             RS!Receive(t, i, state)
      PROVE  AskedInv'
  BY <1>4, AskedReceive
<1>5. ASSUME NEW t \in Tasks, Undisturbed,
             RS!NoteState(t) \/ RS!Keep(t) \/ RS!SaveLink(t) \/ RS!SendLink(t)
                \/ RS!Publish(t) \/ RS!Notify(t) \/ RS!Drop(t)
      PROVE  AskedInv'
  BY <1>5, AskedNote, AskedKeep, AskedSaveLink, AskedSendLink, AskedPublish, AskedNotify,
     AskedDrop
<1>6. ASSUME NEW i \in DOMAIN reqs, Undisturbed,
             RS!ReceiveRequest(i) \/ RS!Approve(i) \/ RS!Release(i) \/ RS!Reject(i)
                \/ \E t \in Tasks : RS!Withdraw(t, i)
      PROVE  AskedInv'
  BY <1>6, AskedWitness
<1>7. CASE UNCHANGED RS!vars
  <2>1. UNCHANGED task /\ Later(reqs, reqs') /\ Undisturbed
    BY <1>7, SameLater DEF RS!vars, Undisturbed
  <2> QED BY <2>1, AskedStays
<1>8. ASSUME NEW t \in Tasks, RS!ReadIndex(t) \/ RS!WriteIndex(t) PROVE AskedInv'
  BY <1>8, AskedRead, AskedWrite
<1>9. ASSUME NEW t \in Tasks, update[t] = RS!NoUpdate, RS!Indexing(t) PROVE AskedInv'
  <2>1. Undisturbed
    BY <1>9, TaskDisturbs
  <2> QED BY <1>2, <1>5, <1>6, <1>9, <2>1 DEF RS!Indexing
<1>10. ASSUME NEW t \in Tasks, update[t] = RS!NoUpdate, RS!Plain(t), UNCHANGED RS!listing
       PROVE  AskedInv'
  <2>1. Undisturbed
    BY <1>10, TaskDisturbs
  <2> QED BY <1>1, <1>2, <1>3, <1>4, <1>5, <1>10, <2>1 DEF RS!Plain
<1>11. ASSUME NEW i \in DOMAIN reqs, UNCHANGED RS!listing,
              RS!ReceiveRequest(i) \/ RS!Approve(i) \/ RS!Release(i) \/ RS!Reject(i)
       PROVE  AskedInv'
  <2>1. UNCHANGED task
    BY <1>11 DEF RS!ReceiveRequest, RS!Approve, RS!Release, RS!Reject
  <2>2. Undisturbed
    BY <1>11, <2>1 DEF Undisturbed, RS!listing
  <2> QED BY <1>6, <1>11, <2>2
<1>12. CASE RS!Next
  BY <1>8, <1>9, <1>10, <1>11, <1>12 DEF RS!Next
<1> QED BY <1>7, <1>12

\* Of two requests for one object that are on record, one was lost to an update of
\* the index that had read it before: but for that, a registration that is retried
\* waits for what it has asked for, whatever answers and time-outs come in between
\* (get_pending_record_for_resource, BasePendingRecord).
THEOREM ObjectsAskedOnce == ASSUME KindsApart, Looked PROVE RS!Spec => []RS!AskedOnce
<1>1. AskedInv => RS!AskedOnce
  BY DEF AskedInv
<1>2. RS!Init => ObjectInv /\ ListingOk /\ AskedInv
  BY ObjectInit, ListingInit, AskedInit
<1>3. ObjectInv /\ ListingOk /\ AskedInv /\ [RS!Next]_(RS!vars)
         => ObjectInv' /\ ListingOk' /\ AskedInv'
  BY ObjectNext, ListingNext, AskedNext
<1> QED BY <1>1, <1>2, <1>3, PTL DEF RS!Spec

-----------------------------------------------------------------------------
(***************************************************************************)
(* The AnonCreds objects of a did:cheqd issuer (CheqdRegistry), for any    *)
(* names, versions and tags, numbers of objects and concurrent calls, and  *)
(* answers of the registrar that fail or do not come.                      *)
(***************************************************************************)
CONSTANTS Names, Versions, Tags, MaxResources
VARIABLES ledger, registered

Reg == INSTANCE CheqdRegistry

Linked  == [type : {"schema", "cred def", "registry", "list"}, name : Seq(Names \cup Tags),
            of : Nat, content : Versions \cup Nat]
RegTask == {Reg!Idle}
           \cup [pc : {"request", "sign", "submit"}, op : {"create", "update"}, res : Linked]
RegTypes ==
    /\ ledger \in Seq(Linked) /\ task \in [Tasks -> RegTask]
    /\ registered \subseteq [id : Nat, res : Linked]

\* What an object refers to is there, and a list has the name of its registry.
Refers(r, L) ==
    /\ r.type # "schema" => r.of \in DOMAIN L
    /\ r.type = "list" => L[r.of].type = "registry" /\ L[r.of].name = r.name
RegInv ==
    /\ RegTypes
    /\ \A i \in DOMAIN ledger :
          Refers(ledger[i], ledger) /\ (ledger[i].type # "schema" => ledger[i].of < i)
    /\ \A t \in Tasks : task[t].pc # "idle" => Refers(task[t].res, ledger)
    /\ Reg!RegisteredThere

\* When calls do not overlap, no two registries have the same name: the one
\* that is to be created has a name that is free.
OneCall  == \A s, t \in Tasks : s = t
Named(L, n) == \E i \in DOMAIN L : L[i].type = "registry" /\ L[i].name = n
NamesInv ==
    /\ \A i, j \in DOMAIN ledger :
          /\ ledger[i].type = "registry" /\ ledger[j].type = "registry"
          /\ ledger[i].name = ledger[j].name
          => i = j
    /\ \A t \in Tasks : task[t].pc # "idle" /\ task[t].res.type = "registry" =>
          /\ task[t].op = "create"
          /\ task[t].pc \in {"sign", "submit"} => ~Named(ledger, task[t].res.name)

LEMMA RegKinds ==
    /\ Reg!Idle.pc = "idle" /\ Reg!Idle \in RegTask
    /\ \A r \in RegTask : r.pc # "idle" =>
          r \in [pc : {"request", "sign", "submit"}, op : {"create", "update"}, res : Linked]
BY DEF Reg!Idle, RegTask

\* An object refers to the same when another is added.
LEMMA RegAppended ==
    ASSUME NEW L \in Seq(Linked), NEW v \in Linked
    PROVE  /\ Append(L, v) \in Seq(Linked) /\ Len(Append(L, v)) = Len(L) + 1 /\ Len(L) \in Nat
           /\ DOMAIN Append(L, v) = DOMAIN L \cup {Len(L) + 1} /\ DOMAIN L = 1..Len(L)
           /\ Append(L, v)[Len(L) + 1] = v
           /\ \A i \in DOMAIN L : Append(L, v)[i] = L[i]
OBVIOUS

LEMMA RefersStays ==
    ASSUME NEW L, NEW M, DOMAIN L \subseteq DOMAIN M, \A i \in DOMAIN L : M[i] = L[i],
           NEW r \in Linked, Refers(r, L)
    PROVE  Refers(r, M)
BY DEF Refers, Linked

LEMMA RegInit == Reg!Init => RegInv /\ NamesInv
<1> SUFFICES ASSUME Reg!Init PROVE RegInv /\ NamesInv
  OBVIOUS
<1>1. ledger = <<>> /\ registered = {} /\ task = [t \in Tasks |-> Reg!Idle]
  BY DEF Reg!Init
<1>2. RegTypes
  BY <1>1, RegKinds DEF RegTypes
<1> QED BY <1>1, <1>2, RegKinds DEF RegInv, NamesInv, Reg!RegisteredThere

\* What a step does: a call goes on, or what it submits is added.
Free(r) == r.pc # "idle" /\ r.res.type = "registry" =>
               /\ r.op = "create"
               /\ r.pc \in {"sign", "submit"} => ~Named(ledger, r.res.name)
Goes(t, r) ==
    /\ r \in RegTask /\ task' = [task EXCEPT ![t] = r]
    /\ r.pc # "idle" => Refers(r.res, ledger)
    /\ NamesInv => Free(r)
    /\ UNCHANGED <<ledger, registered>>
Adds(t) ==
    /\ task[t].pc = "submit" /\ task' = [task EXCEPT ![t] = Reg!Idle]
    /\ ledger' = Append(ledger, task[t].res)
    /\ registered' \in {registered,
                        registered \cup {[id |-> Len(ledger) + 1, res |-> task[t].res]}}

LEMMA GoesIdle ==
    ASSUME NEW t, task' = [task EXCEPT ![t] = Reg!Idle], UNCHANGED <<ledger, registered>>
    PROVE  \E r : Goes(t, r)
<1>1. Goes(t, Reg!Idle)
  BY RegKinds DEF Goes, Free
<1> QED BY <1>1

LEMMA RegStarts ==
    ASSUME RegInv, NEW t, NEW op \in {"create", "update"}, NEW v \in Linked, Refers(v, ledger),
           v.type = "registry" => op = "create", Reg!Start(t, op, v)
    PROVE  \E r : Goes(t, r)
<1> DEFINE r == [pc |-> "request", op |-> op, res |-> v]
<1>1. task' = [task EXCEPT ![t] = r] /\ UNCHANGED <<ledger, registered>>
  BY DEF Reg!Start
<1>2. r \in RegTask /\ r.pc = "request" /\ r.op = op /\ r.res = v
  BY DEF RegTask
<1> HIDE DEF r
<1>3. Goes(t, r)
  BY <1>1, <1>2 DEF Goes, Free
<1> QED BY <1>3

LEMMA RegName ==
    ASSUME RegInv, NEW i \in DOMAIN ledger
    PROVE  /\ ledger[i] \in Linked /\ ledger[i].name \in Seq(Names \cup Tags) /\ i \in Nat
           /\ \A g \in Tags : Append(ledger[i].name, g) \in Seq(Names \cup Tags)
<1>1. ledger[i] \in Linked /\ i \in Nat
  BY DEF RegInv, RegTypes
<1>2. ledger[i].name \in Seq(Names \cup Tags)
  BY <1>1 DEF Linked
<1> QED BY <1>1, <1>2

Registers(t) ==
    \/ \E n \in Names, v \in Versions : Reg!RegisterSchema(t, n, v)
    \/ \E i \in Reg!OfType("schema"), g \in Tags : Reg!RegisterCredDef(t, i, g)
    \/ \E i \in Reg!OfType("cred def"), g \in Tags : Reg!RegisterRegistry(t, i, g)
    \/ \E i \in Reg!OfType("registry"), op \in {"create", "update"} : Reg!PublishList(t, i, op)

LEMMA RegRegister ==
    ASSUME RegInv, NEW t \in Tasks, Registers(t)
    PROVE  \E r : Goes(t, r)
<1>1. ASSUME NEW n \in Names, NEW v \in Versions, Reg!RegisterSchema(t, n, v)
      PROVE  \E r : Goes(t, r)
  <2> DEFINE s == Reg!Resource("schema", <<n>>, 0, v)
             op == IF Reg!Exists(s) THEN "update" ELSE "create"
  <2>1. Reg!Start(t, op, s)
    BY <1>1 DEF Reg!RegisterSchema
  <2>2. <<n>> \in Seq(Names \cup Tags)
    <3>1. n \in Names \cup Tags
      OBVIOUS
    <3> HIDE DEF s, op
    <3> QED BY <3>1
  <2>3. s \in Linked /\ s.type = "schema"
    BY <2>2 DEF Reg!Resource, Linked
  <2>4. op \in {"create", "update"}
    OBVIOUS
  <2> HIDE DEF s, op
  <2> QED BY <2>1, <2>3, <2>4, RegStarts DEF Refers
<1>2. ASSUME NEW i \in DOMAIN ledger, NEW g \in Tags, NEW type \in {"cred def", "registry"},
             Reg!Start(t, "create", Reg!Resource(type, Append(ledger[i].name, g), i, 0))
      PROVE  \E r : Goes(t, r)
  <2> DEFINE s == Reg!Resource(type, Append(ledger[i].name, g), i, 0)
  <2>1. s \in Linked /\ s.type = type /\ s.of = i
    BY RegName DEF Reg!Resource, Linked
  <2> HIDE DEF s
  <2>2. Refers(s, ledger)
    BY <2>1 DEF Refers
  <2>3. Reg!Start(t, "create", s)
    BY <1>2 DEF s
  <2> QED BY <2>1, <2>2, <2>3, RegStarts
<1>3. ASSUME NEW i \in Reg!OfType("registry"), NEW op \in {"create", "update"},
             Reg!PublishList(t, i, op)
      PROVE  \E r : Goes(t, r)
  <2> DEFINE n == IF op = "create" THEN 0 ELSE Len(ledger)
             s == Reg!Resource("list", ledger[i].name, i, n)
  <2>1. i \in DOMAIN ledger /\ ledger[i].type = "registry"
    BY DEF Reg!OfType
  <2>2. n \in Nat
    <3>1. ledger \in Seq(Linked)
      BY DEF RegInv, RegTypes
    <3>2. Len(ledger) \in Nat
      BY <3>1
    <3> QED BY <3>2
  <2>3. Reg!Start(t, op, s)
    BY <1>3 DEF Reg!PublishList, Reg!ListName
  <2> HIDE DEF n
  <2>4. s \in Linked /\ s.type = "list" /\ s.of = i /\ s.name = ledger[i].name
    BY <2>1, <2>2, RegName DEF Reg!Resource, Linked
  <2> HIDE DEF s
  <2>5. Refers(s, ledger)
    BY <2>1, <2>4 DEF Refers
  <2> QED BY <2>3, <2>4, <2>5, RegStarts
<1> QED BY <1>1, <1>2, <1>3 DEF Registers, Reg!RegisterCredDef, Reg!RegisterRegistry, Reg!OfType

LEMMA RegPublish ==
    ASSUME RegInv, NEW t \in Tasks,
           Reg!Request(t) \/ Reg!Sign(t) \/ Reg!Submit(t) \/ Reg!Break(t)
    PROVE  (\E r : Goes(t, r)) \/ Adds(t)
<1>1. ASSUME task[t].pc # "idle", NEW pc \in {"sign", "submit"},
             task' = [task EXCEPT ![t].pc = pc], UNCHANGED <<ledger, registered>>,
             NamesInv => Free([task[t] EXCEPT !.pc = pc])
      PROVE  \E r : Goes(t, r)
  <2> DEFINE r == [task[t] EXCEPT !.pc = pc]
  <2>1. r \in RegTask /\ r.res = task[t].res
    BY <1>1, RegKinds DEF RegInv, RegTypes, RegTask
  <2>2. task' = [task EXCEPT ![t] = r]
    BY <1>1
  <2>3. Refers(r.res, ledger)
    BY <1>1, <2>1 DEF RegInv
  <2>4. Goes(t, r)
    BY <1>1, <2>1, <2>2, <2>3 DEF Goes
  <2> QED BY <2>4
<1>2. ASSUME Reg!Request(t) PROVE \E r : Goes(t, r)
  <2>1. CASE (task[t].op = "create") = Reg!Exists(task[t].res)
    BY <1>2, <2>1, GoesIdle DEF Reg!Request, Reg!Fail
  <2>2. CASE (task[t].op = "create") # Reg!Exists(task[t].res)
    <3>1. /\ task[t].pc = "request" /\ task' = [task EXCEPT ![t].pc = "sign"]
          /\ UNCHANGED <<ledger, registered>>
      BY <1>2, <2>2 DEF Reg!Request
    <3>2. task[t] \in [pc : {"request", "sign", "submit"}, op : {"create", "update"}, res : Linked]
      BY <3>1, RegKinds DEF RegInv, RegTypes
    <3> DEFINE r == [task[t] EXCEPT !.pc = "sign"]
    <3>3. r.res = task[t].res /\ r.op = task[t].op
      BY <3>2
    <3>4. ASSUME NamesInv, task[t].res.type = "registry"
          PROVE  task[t].op = "create" /\ ~Named(ledger, task[t].res.name)
      <4>1. task[t].op = "create"
        BY <3>1, <3>4 DEF NamesInv
      <4>2. ~Reg!Exists(task[t].res)
        BY <2>2, <4>1
      <4> QED BY <3>4, <4>1, <4>2 DEF Reg!Exists, Reg!OfType, Named
    <3>5. NamesInv => Free(r)
      BY <3>3, <3>4 DEF Free
    <3> QED BY <1>1, <3>1, <3>5
  <2> QED BY <2>1, <2>2
<1>3. ASSUME Reg!Sign(t) PROVE \E r : Goes(t, r)
  <2>1. /\ task[t].pc = "sign" /\ task' = [task EXCEPT ![t].pc = "submit"]
        /\ UNCHANGED <<ledger, registered>>
    BY <1>3 DEF Reg!Sign
  <2>2. task[t] \in [pc : {"request", "sign", "submit"}, op : {"create", "update"}, res : Linked]
    BY <2>1, RegKinds DEF RegInv, RegTypes
  <2> DEFINE r == [task[t] EXCEPT !.pc = "submit"]
  <2>3. r.res = task[t].res /\ r.op = task[t].op
    BY <2>2
  <2>4. NamesInv => Free(r)
    BY <2>1, <2>3 DEF NamesInv, Free
  <2> QED BY <1>1, <2>1, <2>4
<1>4. CASE Reg!Submit(t)
  <2>1. CASE Reg!Fail(t) /\ UNCHANGED ledger
    BY <2>1, GoesIdle DEF Reg!Fail
  <2>2. CASE /\ ledger' = Append(ledger, task[t].res)
             /\ Reg!Report(t, Len(ledger')) \/ Reg!Fail(t)
    <3>1. task[t].res \in Linked
      BY <1>4, RegKinds DEF RegInv, RegTypes, Reg!Submit
    <3>2. Len(ledger') = Len(ledger) + 1
      BY <2>2, <3>1, RegAppended DEF RegInv, RegTypes
    <3> QED BY <1>4, <2>2, <3>2 DEF Adds, Reg!Submit, Reg!Report, Reg!Fail
  <2> QED BY <1>4, <2>1, <2>2 DEF Reg!Submit, Reg!Refused
<1>5. ASSUME Reg!Break(t) PROVE \E r : Goes(t, r)
  BY <1>5, GoesIdle DEF Reg!Break, Reg!Fail
<1> QED BY <1>2, <1>3, <1>4, <1>5

LEMMA RegStep ==
    ASSUME RegInv, [Reg!Next]_Reg!vars
    PROVE  \/ UNCHANGED <<ledger, task, registered>>
           \/ \E t \in Tasks : (\E r : Goes(t, r)) \/ Adds(t)
BY RegRegister, RegPublish DEF Registers, Reg!Next, Reg!vars

-----------------------------------------------------------------------------
LEMMA RegNext == ASSUME RegInv, [Reg!Next]_Reg!vars PROVE RegInv'
<1>1. CASE UNCHANGED <<ledger, task, registered>>
  BY <1>1 DEF RegInv, RegTypes, Reg!RegisteredThere
<1>2. ASSUME NEW t \in Tasks, NEW r, Goes(t, r) PROVE RegInv'
  <2>1. /\ r \in RegTask /\ task' = [task EXCEPT ![t] = r] /\ UNCHANGED <<ledger, registered>>
        /\ r.pc # "idle" => Refers(r.res, ledger)
    BY <1>2 DEF Goes
  <2>2. task'[t] = r /\ \A s \in Tasks : s # t => task'[s] = task[s]
    BY <2>1 DEF RegInv, RegTypes
  <2>3. RegTypes'
    BY <2>1 DEF RegInv, RegTypes
  <2>4. Reg!RegisteredThere'
    BY <2>1 DEF RegInv, Reg!RegisteredThere
  <2>5. \A s \in Tasks : task'[s].pc # "idle" => Refers(task'[s].res, ledger')
    BY <2>1, <2>2 DEF RegInv
  <2> QED BY <2>1, <2>3, <2>4, <2>5 DEF RegInv
<1>3. ASSUME NEW t \in Tasks, Adds(t) PROVE RegInv'
  <2> DEFINE v == task[t].res
             n == Len(ledger) + 1
  <2>1. /\ task[t].pc = "submit" /\ task' = [task EXCEPT ![t] = Reg!Idle]
        /\ ledger' = Append(ledger, v)
        /\ registered' \subseteq registered \cup {[id |-> n, res |-> v]}
    BY <1>3 DEF Adds
  <2>2. v \in Linked /\ Refers(v, ledger) /\ ledger \in Seq(Linked)
    BY <2>1, RegKinds DEF RegInv, RegTypes
  <2> HIDE DEF v
  <2>3. /\ ledger' \in Seq(Linked) /\ n \in Nat /\ DOMAIN ledger' = DOMAIN ledger \cup {n}
        /\ ledger'[n] = v /\ \A i \in DOMAIN ledger : ledger'[i] = ledger[i] /\ i < n
    BY <2>1, <2>2, RegAppended
  <2> HIDE DEF n
  <2>4. task'[t] = Reg!Idle /\ \A s \in Tasks : s # t => task'[s] = task[s]
    BY <2>1 DEF RegInv, RegTypes
  <2>5. RegTypes'
    BY <2>1, <2>2, <2>3, RegKinds DEF RegInv, RegTypes
  <2>6. \A x \in Linked : Refers(x, ledger) => Refers(x, ledger')
    BY <2>3, RefersStays
  <2>7. ASSUME NEW i \in DOMAIN ledger'
        PROVE  Refers(ledger'[i], ledger') /\ (ledger'[i].type # "schema" => ledger'[i].of < i)
    <3>1. CASE i \in DOMAIN ledger
      <4>1. ledger[i] \in Linked /\ ledger'[i] = ledger[i]
        BY <2>2, <2>3, <3>1
      <4> QED BY <2>6, <3>1, <4>1 DEF RegInv
    <3>2. CASE i = n
      BY <2>2, <2>3, <2>6, <3>2 DEF Refers
    <3> QED BY <2>3, <3>1, <3>2
  <2>8. ASSUME NEW s \in Tasks, task'[s].pc # "idle" PROVE Refers(task'[s].res, ledger')
    <3>1. task'[s] = task[s]
      BY <2>4, <2>8, RegKinds
    <3>2. task[s].res \in Linked /\ Refers(task[s].res, ledger)
      BY <2>8, <3>1, RegKinds DEF RegInv, RegTypes
    <3> QED BY <2>6, <3>1, <3>2
  <2>9. Reg!RegisteredThere'
    BY <2>1, <2>3 DEF RegInv, Reg!RegisteredThere
  <2> QED BY <2>5, <2>7, <2>8, <2>9 DEF RegInv
<1> QED BY <1>1, <1>2, <1>3, RegStep

LEMMA NamesNext == ASSUME OneCall, RegInv, NamesInv, [Reg!Next]_Reg!vars PROVE NamesInv'
<1>1. CASE UNCHANGED <<ledger, task, registered>>
  BY <1>1 DEF NamesInv, Named
<1>2. ASSUME NEW t \in Tasks, NEW r, Goes(t, r) PROVE NamesInv'
  <2>1. task' = [task EXCEPT ![t] = r] /\ UNCHANGED ledger /\ Free(r)
    BY <1>2 DEF Goes
  <2>2. \A s \in Tasks : task'[s] = r
    BY <2>1 DEF OneCall, RegInv, RegTypes
  <2> QED BY <2>1, <2>2 DEF NamesInv, Free, Named
<1>3. ASSUME NEW t \in Tasks, Adds(t) PROVE NamesInv'
  <2> DEFINE v == task[t].res
             n == Len(ledger) + 1
  <2>1. /\ task[t].pc = "submit" /\ task' = [task EXCEPT ![t] = Reg!Idle]
        /\ ledger' = Append(ledger, v)
    BY <1>3 DEF Adds
  <2>2. v \in Linked /\ ledger \in Seq(Linked)
    BY <2>1, RegKinds DEF RegInv, RegTypes
  <2>3. v.type = "registry" => ~Named(ledger, v.name)
    BY <2>1 DEF NamesInv
  <2> HIDE DEF v
  <2>4. /\ DOMAIN ledger' = DOMAIN ledger \cup {n} /\ ledger'[n] = v
        /\ \A i \in DOMAIN ledger : ledger'[i] = ledger[i]
    BY <2>1, <2>2, RegAppended
  <2> HIDE DEF n
  <2>5. \A s \in Tasks : task'[s].pc = "idle"
    BY <2>1, RegKinds DEF OneCall, RegInv, RegTypes
  <2>6. \A i, j \in DOMAIN ledger' :
          /\ ledger'[i].type = "registry" /\ ledger'[j].type = "registry"
          /\ ledger'[i].name = ledger'[j].name
          => i = j
    BY <2>3, <2>4 DEF NamesInv, Named
  <2> QED BY <2>5, <2>6 DEF NamesInv
<1> QED BY <1>1, <1>2, <1>3, RegStep

\* A set of numbers that is not empty has a least one.
LEMMA LeastOf ==
    ASSUME NEW S \in SUBSET Nat, S # {}
    PROVE  \E m \in S : \A k \in S : m <= k
<1>1. PICK m \in S : \A k \in S : ~ (<<k, m>> \in OpToRel(<, Nat))
  BY NatLessThanWellFounded, WFMin
<1>2. \A k \in S : ~ (k < m)
  BY <1>1 DEF OpToRel
<1> QED BY <1>2

\* A set of numbers up to a bound that is not empty has a largest one.
LEMMA LargestOf ==
    ASSUME NEW n \in Nat, NEW S \in SUBSET (0..n), S # {}
    PROVE  \E m \in S : \A k \in S : k <= m
<1> DEFINE T == {n - k : k \in S}
<1>1. T \in SUBSET Nat /\ T # {}
  <2>1. \A k \in S : n - k \in Nat
    OBVIOUS
  <2>2. PICK k \in S : TRUE
    OBVIOUS
  <2>3. n - k \in T
    OBVIOUS
  <2> QED BY <2>1, <2>3
<1> HIDE DEF T
<1>2. PICK l \in T : \A k \in T : l <= k
  BY <1>1, LeastOf
<1>3. PICK m \in S : l = n - m
  BY <1>2 DEF T
<1>4. \A k \in S : n - k \in T
  BY DEF T
<1> QED BY <1>2, <1>3, <1>4

\* What a caller is told is registered is on the ledger under the id reported,
\* whichever calls overlap and whichever answers fail or do not come.
THEOREM RegisteredStays == Reg!Spec => []Reg!RegisteredThere
<1>1. RegInv => Reg!RegisteredThere
  BY DEF RegInv
<1>2. Reg!Init => RegInv
  BY RegInit
<1>3. RegInv /\ [Reg!Next]_(Reg!vars) => RegInv'
  BY RegNext
<1> QED BY <1>1, <1>2, <1>3, PTL DEF Reg!Spec

\* A definition, a registry or a list refers to an object that was there before.
THEOREM ObjectsLinked == Reg!Spec => []Reg!TypeOK
<1>1. ASSUME RegInv PROVE Reg!TypeOK
  <2>1. ASSUME NEW i \in DOMAIN ledger, ledger[i].type # "schema"
        PROVE  ledger[i].of \in 1..(i - 1)
    <3>1. ledger[i].of \in DOMAIN ledger /\ ledger[i].of < i
      BY <1>1, <2>1 DEF RegInv, Refers
    <3>2. ledger \in Seq(Linked)
      BY <1>1 DEF RegInv, RegTypes
    <3> QED BY <3>1, <3>2
  <2>2. \A r \in registered : r.id \in Nat
    BY <1>1 DEF RegInv, RegTypes
  <2> QED BY <2>1, <2>2 DEF Reg!TypeOK
<1>2. Reg!Init => RegInv
  BY RegInit
<1>3. RegInv /\ [Reg!Next]_(Reg!vars) => RegInv'
  BY RegNext
<1> QED BY <1>1, <1>2, <1>3, PTL DEF Reg!Spec

\* When registrations come one at a time, the status list that is found for a
\* registry by its name, as the latest at any time, is one of its own
\* (get_revocation_list).
THEOREM OwnListFound == ASSUME OneCall PROVE Reg!Spec => []Reg!ListIsOwn
<1>1. ASSUME RegInv, NamesInv, NEW i \in Reg!OfType("registry"), NEW time \in DOMAIN ledger,
             Reg!ListsAt(i, time) # {}
      PROVE  ledger[Reg!Latest(Reg!ListsAt(i, time))].of = i
  <2> DEFINE S == Reg!ListsAt(i, time)
             m == Reg!Latest(S)
  <2>1. ledger \in Seq(Linked) /\ time \in Nat
    BY <1>1 DEF RegInv, RegTypes
  <2>2. \A j \in S : j \in DOMAIN ledger /\ ledger[j].type = "list" /\ ledger[j].name = ledger[i].name
    BY DEF Reg!ListsAt, Reg!OfType, Reg!ListName
  <2>3. S \in SUBSET (0..time)
    BY <2>1 DEF Reg!ListsAt, Reg!OfType
  <2>4. S # {}
    BY <1>1
  <2> HIDE DEF S
  <2>5. m \in S
    BY <2>1, <2>3, <2>4, LargestOf DEF Reg!Latest
  <2>6. Refers(ledger[m], ledger)
    BY <1>1, <2>2, <2>5 DEF RegInv
  <2>7. /\ i \in DOMAIN ledger /\ ledger[i].type = "registry"
    BY DEF Reg!OfType
  <2>8. /\ ledger[m].of \in DOMAIN ledger /\ ledger[ledger[m].of].type = "registry"
        /\ ledger[ledger[m].of].name = ledger[i].name
    BY <2>2, <2>5, <2>6 DEF Refers
  <2>9. ledger[m].of = i
    BY <1>1, <2>7, <2>8 DEF NamesInv
  <2> QED BY <2>9 DEF S
<1>2. RegInv /\ NamesInv => Reg!ListIsOwn
  BY <1>1 DEF Reg!ListIsOwn
<1>3. Reg!Init => RegInv /\ NamesInv
  BY RegInit
<1>4. RegInv /\ NamesInv /\ [Reg!Next]_(Reg!vars) => (RegInv /\ NamesInv)'
  BY RegNext, NamesNext
<1> QED BY <1>2, <1>3, <1>4, PTL DEF Reg!Spec

-----------------------------------------------------------------------------
(***************************************************************************)
(* The DIDs of cheqd (CheqdDid), for any number of DIDs, keys and calls    *)
(* that overlap, whichever of them fail or are interrupted.                *)
(***************************************************************************)
CONSTANTS Dids, Given, MaxKeys, MaxDocs
VARIABLES bound, docs, reported

CD == INSTANCE CheqdDid

\* Documents that callers give come one at a time, because each call may bring
\* a seed of its own; and their DIDs are not those that create makes up.
GivenAlone ==
    /\ Given = {} \/ \A s, t \in Tasks : s = t
    /\ MaxKeys \in Nat /\ MaxDocs \in Nat

Info     == [posted : BOOLEAN, off : BOOLEAN, endpoint : Nat]
OnLedger == [key : 0..MaxKeys, docs : Seq(Nat), off : BOOLEAN]
Doc      == [key : 0..MaxKeys, endpoint : Nat] \cup [key : {"none"}, endpoint : Nat]
CreatePc == {"request", "assign", "sign", "submit", "store", "assign again", "return"}
ChangePc == {"request", "sign", "submit", "return"}
MarkPc   == {"request", "sign", "submit", "read", "mark", "return"}
SetPc    == {"resolve", "resolve again", "request", "sign", "submit", "write endpoint", "return"}
Creation == [pc : CreatePc, op : {"create"}, did : CD!All, key : 0..MaxKeys,
             info : {CD!NoInfo}, by : SUBSET (0..MaxKeys), doc : Doc]
Updation == [pc : ChangePc, op : {"update"}, did : CD!All,
             info : {CD!NoInfo}, by : SUBSET (0..MaxKeys), doc : Doc]
Closing  == [pc : MarkPc, op : {"deactivate"}, did : CD!All,
             info : {CD!NoInfo} \cup Info, by : SUBSET (0..MaxKeys), doc : Doc]
Setting  == [pc : SetPc, op : {"endpoint", "service"}, did : CD!All,
             info : Info, by : SUBSET (0..MaxKeys), doc : Doc]
DidTask  == {CD!Idle} \cup Creation \cup Updation \cup Closing \cup Setting
Report   == [did : CD!All, op : {"create", "update", "deactivate", "endpoint", "service"},
             endpoint : Nat]
DidTypes ==
    /\ ledger \in [CD!All -> {CD!Nothing} \cup OnLedger]
    /\ bound \in [CD!All -> SUBSET (0..MaxKeys)]
    /\ wallet \in [CD!All -> {CD!NoInfo} \cup Info]
    /\ keys \subseteq 0..MaxKeys /\ docs \in 0..MaxDocs
    /\ task \in [Tasks -> DidTask]
    /\ reported \subseteq Report

\* What is known of the ledger L.
There(L, d)  == L[d] \in OnLedger
Was(L, d, e) == There(L, d) /\ \E i \in DOMAIN L[d].docs : L[d].docs[i] = e
Off(L, d)    == There(L, d) /\ L[d].off
\* A record of the wallet, or a copy of one, is of what was published.
True(n, d, L) == n # CD!NoInfo => (n.posted => Was(L, d, n.endpoint)) /\ (n.off => Off(L, d))
\* A call that creates a DID has bound its key by when it asks for the
\* signature, and the DID is not on the ledger before.
CreatePcs == {"assign", "sign", "submit"}
StorePcs  == {"store", "assign again", "return"}
Creates(r, L, B) ==
    /\ r.pc \in CreatePcs => L[r.did] = CD!Nothing
    /\ r.pc \in {"sign", "submit"} => r.key \in B[r.did]
    /\ r.pc = "submit" => r.by = B[r.did]
    /\ r.pc \in StorePcs => There(L, r.did) /\ L[r.did].key = r.key
    /\ r.doc.endpoint = 0
Started(r, L) ==
    /\ r.pc = "return" => Was(L, r.did, r.doc.endpoint)
    /\ r \in Closing => There(L, r.did) /\ r.doc.endpoint = 0
    /\ r \in Closing /\ r.pc \in {"read", "mark", "return"} => Off(L, r.did)
    /\ r \in Closing /\ r.pc = "mark" => r.info \in Info
    /\ r \in Setting /\ r.pc = "write endpoint" /\ r.info.posted
          => Was(L, r.did, r.doc.endpoint)
    /\ r \in Setting /\ r.pc \in SetPc \ {"write endpoint"} => r.info.posted
    /\ True(r.info, r.did, L)
DidInv ==
    /\ DidTypes
    /\ \A d \in CD!All : There(ledger, d) => bound[d] = {ledger[d].key} /\ Was(ledger, d, 0)
    /\ \A d \in CD!All : True(wallet[d], d, ledger)
    /\ \A t \in Tasks : task[t] # CD!Idle => Started(task[t], ledger)
    /\ \A t \in Tasks : task[t] \in Creation => Creates(task[t], ledger, bound)
    /\ \A s, t \in Tasks : task[s] \in Creation /\ task[t] \in Creation /\ task[s].did = task[t].did
                           => s = t
    /\ \A r \in reported : Was(ledger, r.did, r.endpoint) /\ (r.op = "deactivate" => Off(ledger, r.did))

LEMMA DidKinds ==
    /\ CD!Idle \notin Creation \cup Updation \cup Closing \cup Setting /\ CD!Idle.pc = "idle"
    /\ CD!Nothing \notin OnLedger /\ CD!NoInfo \notin Info
    /\ \A n \in Info : n # CD!NoInfo
    /\ \A r \in Creation : r.op = "create" /\ r.pc \in CreatePc /\ r # CD!Idle /\ r.pc # "idle"
    /\ \A r \in Updation : r.op = "update" /\ r.pc \in ChangePc /\ r # CD!Idle /\ r.pc # "idle"
    /\ \A r \in Closing : r.op = "deactivate" /\ r.pc \in MarkPc /\ r # CD!Idle /\ r.pc # "idle"
    /\ \A r \in Setting : /\ r.op \in {"endpoint", "service"} /\ r.pc \in SetPc
                          /\ r # CD!Idle /\ r.pc # "idle"
<1>1. CD!Idle \notin Creation \cup Updation \cup Closing \cup Setting /\ CD!Idle.pc = "idle"
  BY DEF CD!Idle, Creation, Updation, Closing, Setting, CreatePc, ChangePc, MarkPc, SetPc
<1>2. CD!Nothing \notin OnLedger
  BY DEF CD!Nothing, OnLedger
<1>3. CD!NoInfo \notin Info
  BY DEF CD!NoInfo, Info
<1>4. \A r \in Creation : r.op = "create" /\ r.pc \in CreatePc /\ r.pc # "idle"
  BY DEF Creation, CreatePc
<1>5. \A r \in Updation : r.op = "update" /\ r.pc \in ChangePc /\ r.pc # "idle"
  BY DEF Updation, ChangePc
<1>6. \A r \in Closing : r.op = "deactivate" /\ r.pc \in MarkPc /\ r.pc # "idle"
  BY DEF Closing, MarkPc
<1>7. \A r \in Setting : r.op \in {"endpoint", "service"} /\ r.pc \in SetPc /\ r.pc # "idle"
  BY DEF Setting, SetPc
<1> QED BY <1>1, <1>2, <1>3, <1>4, <1>5, <1>6, <1>7

\* The kinds of calls are told apart by their operation, and have these fields.
LEMMA DidFields ==
    ASSUME NEW r \in DidTask, r # CD!Idle
    PROVE  /\ r.did \in CD!All /\ r.by \in SUBSET (0..MaxKeys) /\ r.doc.endpoint \in Nat
           /\ r.info \in {CD!NoInfo} \cup Info
           /\ r.op = "create" <=> r \in Creation
           /\ r.op = "update" <=> r \in Updation
           /\ r.op = "deactivate" <=> r \in Closing
           /\ r.op \in {"endpoint", "service"} <=> r \in Setting
           /\ r.op \in {"create", "update", "deactivate", "endpoint", "service"}
<1>1. r \in Creation \/ r \in Updation \/ r \in Closing \/ r \in Setting
  BY DEF DidTask
<1>2. r.did \in CD!All /\ r.by \in SUBSET (0..MaxKeys) /\ r.info \in {CD!NoInfo} \cup Info
  BY <1>1 DEF Creation, Updation, Closing, Setting
<1>3. r.doc \in Doc
  BY <1>1 DEF Creation, Updation, Closing, Setting
<1>4. r.doc.endpoint \in Nat
  BY <1>3 DEF Doc
<1> QED BY <1>1, <1>2, <1>4, DidKinds

\* What is on the ledger stays there, and the ledger M is not behind L.
OnlyGrows(L, M) ==
    \A d \in CD!All :
       /\ There(L, d) => There(M, d) /\ M[d].key = L[d].key /\ (L[d].off => M[d].off)
       /\ \A e \in Nat : Was(L, d, e) => Was(M, d, e)

LEMMA DidGrows ==
    ASSUME NEW L, NEW M, OnlyGrows(L, M)
    PROVE  /\ \A d \in CD!All : \A e \in Nat : Was(L, d, e) => Was(M, d, e)
           /\ \A d \in CD!All : Off(L, d) => Off(M, d)
           /\ \A d \in CD!All : \A n \in {CD!NoInfo} \cup Info : True(n, d, L) => True(n, d, M)
           /\ \A r \in DidTask : r # CD!Idle /\ Started(r, L) => Started(r, M)
<1>1. \A d \in CD!All : \A e \in Nat : Was(L, d, e) => Was(M, d, e)
  BY DEF OnlyGrows
<1>2. \A d \in CD!All : Off(L, d) => Off(M, d)
  BY DEF OnlyGrows, Off
<1>3. \A d \in CD!All : There(L, d) => There(M, d)
  BY DEF OnlyGrows
<1>4. ASSUME NEW d \in CD!All, NEW n \in {CD!NoInfo} \cup Info, True(n, d, L) PROVE True(n, d, M)
  <2>1. n # CD!NoInfo => n.endpoint \in Nat
    BY DEF Info
  <2> QED BY <1>1, <1>2, <1>4, <2>1 DEF True
<1>5. ASSUME NEW r \in DidTask, r # CD!Idle, Started(r, L) PROVE Started(r, M)
  <2>1. /\ r.did \in CD!All /\ r.doc.endpoint \in Nat /\ r.info \in {CD!NoInfo} \cup Info
    BY <1>5, DidFields
  <2> QED BY <1>1, <1>2, <1>3, <1>4, <1>5, <2>1 DEF Started
<1> QED BY <1>1, <1>2, <1>4, <1>5

\* A step of a call t, which becomes r, has to show this.
LEMMA DidStep ==
    ASSUME DidInv, NEW t \in Tasks, NEW r \in DidTask, task' = [task EXCEPT ![t] = r],
           OnlyGrows(ledger, ledger'),
           ledger' \in [CD!All -> {CD!Nothing} \cup OnLedger],
           bound' \in [CD!All -> SUBSET (0..MaxKeys)],
           wallet' \in [CD!All -> {CD!NoInfo} \cup Info],
           keys' \subseteq 0..MaxKeys, docs' \in 0..MaxDocs, reported' \subseteq Report,
           \A d \in CD!All : There(ledger', d)
              => bound'[d] = {ledger'[d].key} /\ Was(ledger', d, 0),
           \A d \in CD!All : wallet'[d] = wallet[d] \/ True(wallet'[d], d, ledger'),
           r # CD!Idle => Started(r, ledger'),
           r \in Creation => Creates(r, ledger', bound'),
           r \in Creation => \/ task[t] \in Creation /\ task[t].did = r.did
                             \/ \A s \in Tasks : task[s] \in Creation /\ task[s].did = r.did => s = t,
           \A s \in Tasks : s # t /\ task[s] \in Creation => Creates(task[s], ledger', bound'),
           \A p \in reported' :
              \/ p \in reported
              \/ Was(ledger', p.did, p.endpoint) /\ (p.op = "deactivate" => Off(ledger', p.did))
    PROVE  DidInv'
<1>0. task \in [Tasks -> DidTask] /\ wallet \in [CD!All -> {CD!NoInfo} \cup Info]
  BY DEF DidInv, DidTypes
<1>1. task' \in [Tasks -> DidTask] /\ task'[t] = r /\ \A s \in Tasks : s # t => task'[s] = task[s]
  BY <1>0
<1>2. DidTypes'
  BY <1>1 DEF DidTypes
<1>3. \A d \in CD!All : True(wallet'[d], d, ledger')
  BY <1>0, DidGrows DEF DidInv
<1>4. \A s \in Tasks : task'[s] # CD!Idle => Started(task'[s], ledger')
  BY <1>0, <1>1, DidGrows DEF DidInv
<1>5. \A s \in Tasks : task'[s] \in Creation => Creates(task'[s], ledger', bound')
  BY <1>1
<1>6. ASSUME NEW q \in Tasks, NEW s \in Tasks, task'[q] \in Creation, task'[s] \in Creation,
             task'[q].did = task'[s].did
      PROVE  q = s
  BY <1>1, <1>6 DEF DidInv
<1>7. \A p \in reported' : Was(ledger', p.did, p.endpoint)
                           /\ (p.op = "deactivate" => Off(ledger', p.did))
  <2>1. \A p \in reported : p.did \in CD!All /\ p.endpoint \in Nat
    BY DEF DidInv, DidTypes, Report
  <2> QED BY <2>1, DidGrows DEF DidInv
<1> QED BY <1>2, <1>3, <1>4, <1>5, <1>6, <1>7 DEF DidInv

\* A step of a call that changes nothing else.
LEMMA DidMove ==
    ASSUME DidInv, NEW t \in Tasks, NEW r \in DidTask, task' = [task EXCEPT ![t] = r],
           UNCHANGED <<ledger, bound, wallet, reported>>,
           keys' \subseteq 0..MaxKeys, docs' \in 0..MaxDocs,
           r # CD!Idle => Started(r, ledger),
           r \in Creation => Creates(r, ledger, bound),
           r \in Creation => \/ task[t] \in Creation /\ task[t].did = r.did
                             \/ \A s \in Tasks : task[s] \in Creation /\ task[s].did = r.did => s = t
    PROVE  DidInv'
<1>1. OnlyGrows(ledger, ledger')
  BY DEF OnlyGrows
<1>2. /\ ledger' \in [CD!All -> {CD!Nothing} \cup OnLedger]
      /\ bound' \in [CD!All -> SUBSET (0..MaxKeys)]
      /\ wallet' \in [CD!All -> {CD!NoInfo} \cup Info] /\ reported' \subseteq Report
  BY DEF DidInv, DidTypes
<1>3. \A d \in CD!All : There(ledger', d) => bound'[d] = {ledger'[d].key} /\ Was(ledger', d, 0)
  BY DEF DidInv
<1>4. \A s \in Tasks : s # t /\ task[s] \in Creation => Creates(task[s], ledger', bound')
  BY DEF DidInv
<1>5. (r # CD!Idle => Started(r, ledger')) /\ (r \in Creation => Creates(r, ledger', bound'))
  OBVIOUS
<1> QED BY <1>1, <1>2, <1>3, <1>4, <1>5, DidStep

LEMMA DidNow ==
    ASSUME DidInv, NEW t \in Tasks, task[t] # CD!Idle
    PROVE  /\ task[t] \in DidTask /\ Started(task[t], ledger)
           /\ task[t].did \in CD!All /\ task[t].doc.endpoint \in Nat
           /\ task[t].info \in {CD!NoInfo} \cup Info
           /\ task[t] \in Creation => Creates(task[t], ledger, bound)
           /\ wallet[task[t].did] \in {CD!NoInfo} \cup Info
           /\ ledger[task[t].did] \in {CD!Nothing} \cup OnLedger
<1>1. task[t] \in DidTask
  BY DEF DidInv, DidTypes
<1>2. task[t].did \in CD!All /\ task[t].doc.endpoint \in Nat /\ task[t].info \in {CD!NoInfo} \cup Info
  BY <1>1, DidFields
<1> QED BY <1>1, <1>2 DEF DidInv, DidTypes

\* A call that ends, or is interrupted, leaves the others as they are.
LEMMA DidEnd ==
    ASSUME DidInv, NEW t \in Tasks, CD!Fail(t), UNCHANGED <<ledger, bound, wallet, keys, docs, reported>>
    PROVE  DidInv'
<1>1. CD!Idle \in DidTask /\ CD!Idle \notin Creation
  BY DidKinds DEF DidTask
<1>2. keys \subseteq 0..MaxKeys /\ docs \in 0..MaxDocs
  BY DEF DidInv, DidTypes
<1>3. keys' \subseteq 0..MaxKeys /\ docs' \in 0..MaxDocs
  BY <1>2
<1> QED BY <1>1, <1>3, DidMove DEF CD!Fail

\* Import stores a record that claims nothing.
LEMMA DidImport ==
    ASSUME DidInv, NEW d \in CD!All, CD!Import(d)
    PROVE  DidInv'
<1> DEFINE n == [posted |-> FALSE, off |-> FALSE, endpoint |-> 0]
<1>1. n \in Info /\ ~n.posted /\ ~n.off
  BY DEF Info
<1> HIDE DEF n
<1>2. /\ wallet' = [wallet EXCEPT ![d] = n]
      /\ UNCHANGED <<ledger, bound, keys, docs, task, reported>>
  BY DEF CD!Import, n
<1>3. wallet' \in [CD!All -> {CD!NoInfo} \cup Info]
  BY <1>1, <1>2 DEF DidInv, DidTypes
<1>4. \A e \in CD!All : True(wallet'[e], e, ledger')
  BY <1>1, <1>2 DEF DidInv, DidTypes, True
<1>5. DidTypes'
  BY <1>2, <1>3 DEF DidInv, DidTypes
<1> QED BY <1>2, <1>4, <1>5 DEF DidInv

LEMMA DidCreate ==
    ASSUME GivenAlone, DidInv, NEW t \in Tasks, NEW d \in CD!All, NEW k \in 0..MaxKeys,
           CD!Create(t, d, k)
    PROVE  DidInv'
<1> DEFINE x == [key |-> IF d \in Given THEN CD!SeedKey ELSE k, endpoint |-> 0]
           r == [pc |-> "request", op |-> "create", did |-> d, key |-> k, info |-> CD!NoInfo,
                 by |-> {}, doc |-> x]
<1>1. /\ task[t] = CD!Idle /\ task' = [task EXCEPT ![t] = r] /\ keys' = keys \cup {k}
      /\ UNCHANGED <<ledger, bound, wallet, docs, reported>>
  BY DEF CD!Create
<1>2. d \in Dids => \A s \in Tasks : task[s] # CD!Idle => task[s].did # d
  BY DEF CD!Create
<1>3. x \in Doc /\ x.endpoint = 0
  BY DEF Doc, CD!SeedKey, GivenAlone
<1> HIDE DEF x
<1>4. r \in Creation /\ r.pc = "request" /\ r.did = d /\ r.info = CD!NoInfo /\ r.doc = x
  BY <1>3 DEF Creation, CreatePc
<1> HIDE DEF r
<1>5. r \in DidTask /\ r \notin Closing /\ r \notin Setting
  BY <1>4, DidKinds DEF DidTask
<1>6. Started(r, ledger)
  BY <1>4, <1>5 DEF Started, True
<1>7. Creates(r, ledger, bound)
  BY <1>3, <1>4 DEF Creates, CreatePcs, StorePcs
<1>8. \A s \in Tasks : task[s] \in Creation /\ task[s].did = r.did => s = t
  BY <1>1, <1>2, <1>4, DidKinds DEF GivenAlone, CD!All
<1>9. keys' \subseteq 0..MaxKeys /\ docs' \in 0..MaxDocs
  BY <1>1 DEF DidInv, DidTypes
<1> QED BY <1>1, <1>5, <1>6, <1>7, <1>8, <1>9, DidMove

LEMMA DidChange ==
    ASSUME GivenAlone, DidInv, NEW t \in Tasks, NEW d \in CD!All,
           CD!Change(t, d, "update", docs + 1) \/ CD!Change(t, d, "deactivate", 0)
    PROVE  DidInv'
<1>1. docs \in Nat /\ MaxDocs \in Nat /\ docs <= MaxDocs /\ keys \subseteq 0..MaxKeys
  BY DEF DidInv, DidTypes, GivenAlone
<1>2. There(ledger, d) /\ ledger[d].key \in 0..MaxKeys
  <2>1. ledger[d] # CD!Nothing
    BY DEF CD!Change, CD!Active
  <2> QED BY <2>1 DEF DidInv, DidTypes, There, OnLedger
<1>3. \A op, e : CD!Change(t, d, op, e) =>
         /\ task' = [task EXCEPT ![t] =
              [pc |-> "request", op |-> op, did |-> d, info |-> CD!NoInfo, by |-> {},
               doc |-> [key |-> ledger[d].key, endpoint |-> e]]]
         /\ docs' = IF op = "update" THEN docs + 1 ELSE docs
         /\ (op = "update" => docs < MaxDocs)
         /\ UNCHANGED <<ledger, bound, wallet, keys, reported>>
  BY DEF CD!Change
<1>4. CASE CD!Change(t, d, "update", docs + 1)
  <2> DEFINE x == [key |-> ledger[d].key, endpoint |-> docs + 1]
             r == [pc |-> "request", op |-> "update", did |-> d, info |-> CD!NoInfo,
                   by |-> {}, doc |-> x]
  <2>1. /\ task' = [task EXCEPT ![t] = r] /\ docs' = docs + 1 /\ docs < MaxDocs
        /\ UNCHANGED <<ledger, bound, wallet, keys, reported>>
    BY <1>3, <1>4
  <2>2. x \in Doc
    BY <1>1, <1>2 DEF Doc
  <2> HIDE DEF x
  <2>3. r \in Updation /\ r.pc = "request" /\ r.info = CD!NoInfo
    BY <2>2 DEF Updation, ChangePc
  <2> HIDE DEF r
  <2>4. r \in DidTask /\ r \notin Closing /\ r \notin Setting /\ r \notin Creation
    BY <2>3, DidKinds DEF DidTask
  <2>5. Started(r, ledger)
    BY <2>3, <2>4 DEF Started, True
  <2>6. keys' \subseteq 0..MaxKeys /\ docs' \in 0..MaxDocs
    BY <1>1, <2>1
  <2> QED BY <2>1, <2>4, <2>5, <2>6, DidMove
<1>5. CASE CD!Change(t, d, "deactivate", 0)
  <2> DEFINE x == [key |-> ledger[d].key, endpoint |-> 0]
             r == [pc |-> "request", op |-> "deactivate", did |-> d, info |-> CD!NoInfo,
                   by |-> {}, doc |-> x]
  <2>1. task' = [task EXCEPT ![t] = r] /\ UNCHANGED <<ledger, bound, wallet, keys, docs, reported>>
    BY <1>3, <1>5
  <2>2. x \in Doc /\ x.endpoint = 0
    BY <1>2 DEF Doc
  <2> HIDE DEF x
  <2>3. r \in Closing /\ r.pc = "request" /\ r.info = CD!NoInfo /\ r.did = d /\ r.doc = x
    BY <2>2 DEF Closing, MarkPc
  <2> HIDE DEF r
  <2>4. r \in DidTask /\ r \notin Setting /\ r \notin Creation
    BY <2>3, DidKinds DEF DidTask
  <2>5. Started(r, ledger)
    BY <1>2, <2>2, <2>3, <2>4 DEF Started, True
  <2>6. keys' \subseteq 0..MaxKeys /\ docs' \in 0..MaxDocs
    BY <1>1, <2>1
  <2> QED BY <2>1, <2>4, <2>5, <2>6, DidMove
<1> QED BY <1>4, <1>5

\* Which calls are at which place, and what a call is at its next place.
LEMMA DidPlaces ==
    ASSUME NEW r \in DidTask
    PROVE  /\ r.pc # "idle" <=> r # CD!Idle
           /\ r.pc \in {"assign", "store", "assign again"} => r \in Creation
           /\ r.pc \in {"read", "mark"} => r \in Closing
           /\ r.pc \in {"resolve", "resolve again", "write endpoint"} => r \in Setting
<1>1. r = CD!Idle \/ r \in Creation \/ r \in Updation \/ r \in Closing \/ r \in Setting
  BY DEF DidTask
<1> QED BY <1>1, DidKinds DEF CreatePc, ChangePc, MarkPc, SetPc

Moved(r, p) == [r EXCEPT !.pc = p]
LEMMA DidMoved ==
    ASSUME NEW r \in DidTask, r # CD!Idle, NEW p,
           r \in Creation => p \in CreatePc, r \in Updation => p \in ChangePc,
           r \in Closing => p \in MarkPc, r \in Setting => p \in SetPc
    PROVE  /\ Moved(r, p) \in DidTask /\ Moved(r, p) # CD!Idle /\ Moved(r, p).pc = p
           /\ Moved(r, p).did = r.did /\ Moved(r, p).info = r.info
           /\ Moved(r, p).doc = r.doc /\ Moved(r, p).by = r.by
           /\ r \in Creation <=> Moved(r, p) \in Creation
           /\ r \in Creation => Moved(r, p).key = r.key
           /\ r \in Closing <=> Moved(r, p) \in Closing
           /\ r \in Setting <=> Moved(r, p) \in Setting
<1>1. CASE r \in Creation
  <2>1. /\ Moved(r, p) \in Creation /\ Moved(r, p).pc = p
        /\ Moved(r, p).did = r.did /\ Moved(r, p).info = r.info /\ Moved(r, p).key = r.key
        /\ Moved(r, p).doc = r.doc /\ Moved(r, p).by = r.by
    BY <1>1 DEF Moved, Creation
  <2> QED BY <1>1, <2>1, DidKinds DEF DidTask
<1>2. CASE r \in Updation
  <2>1. /\ Moved(r, p) \in Updation /\ Moved(r, p).pc = p
        /\ Moved(r, p).did = r.did /\ Moved(r, p).info = r.info
        /\ Moved(r, p).doc = r.doc /\ Moved(r, p).by = r.by
    BY <1>2 DEF Moved, Updation
  <2> QED BY <1>2, <2>1, DidKinds DEF DidTask
<1>3. CASE r \in Closing
  <2>1. /\ Moved(r, p) \in Closing /\ Moved(r, p).pc = p
        /\ Moved(r, p).did = r.did /\ Moved(r, p).info = r.info
        /\ Moved(r, p).doc = r.doc /\ Moved(r, p).by = r.by
    BY <1>3 DEF Moved, Closing
  <2> QED BY <1>3, <2>1, DidKinds DEF DidTask
<1>4. CASE r \in Setting
  <2>1. /\ Moved(r, p) \in Setting /\ Moved(r, p).pc = p
        /\ Moved(r, p).did = r.did /\ Moved(r, p).info = r.info
        /\ Moved(r, p).doc = r.doc /\ Moved(r, p).by = r.by
    BY <1>4 DEF Moved, Setting
  <2> QED BY <1>4, <2>1, DidKinds DEF DidTask
<1> QED BY <1>1, <1>2, <1>3, <1>4 DEF DidTask

LEMMA CreationMoved ==
    ASSUME NEW r \in Creation, NEW p \in CreatePc
    PROVE  LET m == Moved(r, p)
           IN  /\ m \in DidTask /\ m # CD!Idle /\ m.pc = p /\ m.did = r.did /\ m.info = r.info
               /\ m.doc = r.doc /\ m.by = r.by /\ m.key = r.key
               /\ m \in Creation /\ m \notin Closing /\ m \notin Setting
<1>1. r \notin Closing /\ r \notin Setting /\ r \notin Updation /\ r # CD!Idle /\ r \in DidTask
  BY DidKinds DEF DidTask
<1>2. Moved(r, p) \in Creation /\ Moved(r, p) \notin Closing /\ Moved(r, p) \notin Setting
  BY <1>1, DidMoved
<1>3. /\ Moved(r, p) \in DidTask /\ Moved(r, p) # CD!Idle /\ Moved(r, p).pc = p
      /\ Moved(r, p).did = r.did /\ Moved(r, p).info = r.info /\ Moved(r, p).doc = r.doc
      /\ Moved(r, p).by = r.by /\ Moved(r, p).key = r.key
  BY <1>1, DidMoved
<1> QED BY <1>2, <1>3

LEMMA SettingMoved ==
    ASSUME NEW r \in Setting, NEW p \in SetPc
    PROVE  LET m == Moved(r, p)
           IN  /\ m \in DidTask /\ m # CD!Idle /\ m.pc = p /\ m.did = r.did /\ m.info = r.info
               /\ m.doc = r.doc /\ m.by = r.by
               /\ m \in Setting /\ m \notin Creation /\ m \notin Closing
<1>1. /\ r \notin Creation /\ r \notin Closing /\ r \notin Updation
      /\ r # CD!Idle /\ r \in DidTask
  BY DidKinds DEF DidTask
<1>2. Moved(r, p) \in Setting /\ Moved(r, p) \notin Creation /\ Moved(r, p) \notin Closing
  BY <1>1, DidMoved
<1>3. /\ Moved(r, p) \in DidTask /\ Moved(r, p) # CD!Idle /\ Moved(r, p).pc = p
      /\ Moved(r, p).did = r.did /\ Moved(r, p).info = r.info /\ Moved(r, p).doc = r.doc
      /\ Moved(r, p).by = r.by
  BY <1>1, DidMoved
<1> QED BY <1>2, <1>3

LEMMA ClosingMoved ==
    ASSUME NEW r \in Closing, NEW p \in MarkPc
    PROVE  LET m == Moved(r, p)
           IN  /\ m \in DidTask /\ m # CD!Idle /\ m.pc = p /\ m.did = r.did /\ m.info = r.info
               /\ m.doc = r.doc /\ m.by = r.by
               /\ m \in Closing /\ m \notin Creation /\ m \notin Setting
<1>1. /\ r \notin Creation /\ r \notin Setting /\ r \notin Updation
      /\ r # CD!Idle /\ r \in DidTask
  BY DidKinds DEF DidTask
<1>2. Moved(r, p) \in Closing /\ Moved(r, p) \notin Creation /\ Moved(r, p) \notin Setting
  BY <1>1, DidMoved
<1>3. /\ Moved(r, p) \in DidTask /\ Moved(r, p) # CD!Idle /\ Moved(r, p).pc = p
      /\ Moved(r, p).did = r.did /\ Moved(r, p).info = r.info /\ Moved(r, p).doc = r.doc
      /\ Moved(r, p).by = r.by
  BY <1>1, DidMoved
<1> QED BY <1>2, <1>3

\* The registrar takes the request: nothing of the DID is on the ledger yet.
LEMMA DidRequest ==
    ASSUME DidInv, NEW t \in Tasks, CD!Request(t)
    PROVE  DidInv'
<1> DEFINE r == task[t]
           p == IF r.op = "create" THEN "assign" ELSE "sign"
<1>1. /\ r.pc = "request" /\ UNCHANGED <<ledger, bound, wallet, keys, docs, reported>>
      /\ IF r.op = "create" /\ ledger[r.did] # CD!Nothing THEN CD!Fail(t)
         ELSE task' = [task EXCEPT ![t] = Moved(r, p)]
  BY DEF CD!Request, CD!Goto, Moved
<1>2. CASE r.op = "create" /\ ledger[r.did] # CD!Nothing
  BY <1>1, <1>2, DidEnd
<1>3. CASE ~(r.op = "create" /\ ledger[r.did] # CD!Nothing)
  <2>1. r \in DidTask /\ r # CD!Idle
    BY <1>1, DidKinds DEF DidInv, DidTypes
  <2>2. /\ Started(r, ledger) /\ (r \in Creation => Creates(r, ledger, bound))
        /\ (r.op = "create" <=> r \in Creation)
    BY <2>1, DidNow, DidFields
  <2>3. task' = [task EXCEPT ![t] = Moved(r, p)]
    BY <1>1, <1>3
  <2>4. p \in {"assign", "sign"} /\ (r \in Creation => p = "assign") /\ (r \notin Creation => p = "sign")
    BY <2>2
  <2> HIDE DEF p, r
  <2>5. /\ r \in Creation => p \in CreatePc
        /\ r \in Updation => p \in ChangePc
        /\ r \in Closing => p \in MarkPc
        /\ r \in Setting => p \in SetPc
    BY <2>4, DidKinds DEF CreatePc, ChangePc, MarkPc, SetPc
  <2> DEFINE m == Moved(r, p)
  <2>6. /\ m \in DidTask /\ m # CD!Idle /\ m.pc = p /\ m.did = r.did /\ m.info = r.info
        /\ m.doc = r.doc /\ m.by = r.by
        /\ (r \in Creation <=> m \in Creation) /\ (r \in Closing <=> m \in Closing)
        /\ (r \in Setting <=> m \in Setting)
    BY <2>1, <2>5, DidMoved
  <2> HIDE DEF m
  <2>7. Started(m, ledger)
    BY <1>1, <2>2, <2>4, <2>6 DEF Started, SetPc, r
  <2>8. m \in Creation => Creates(m, ledger, bound)
    BY <1>3, <2>2, <2>4, <2>6 DEF Creates, CreatePcs, StorePcs, r
  <2>9. keys' \subseteq 0..MaxKeys /\ docs' \in 0..MaxDocs
    BY <1>1 DEF DidInv, DidTypes
  <2>10. task' = [task EXCEPT ![t] = m]
    BY <2>3 DEF m
  <2>11. m \in Creation => task[t] \in Creation /\ task[t].did = m.did
    BY <2>6 DEF r
  <2> QED BY <1>1, <2>6, <2>7, <2>8, <2>9, <2>10, <2>11, DidMove
<1> QED BY <1>2, <1>3

\* The kid gets its key when nothing of the DID is on the ledger.
LEMMA DidAssign ==
    ASSUME DidInv, NEW t \in Tasks, CD!Assign(t)
    PROVE  DidInv'
<1> DEFINE r == task[t]
           m == Moved(r, "sign")
<1>1. /\ r.pc = "assign" /\ UNCHANGED <<ledger, wallet, keys, docs, reported>>
      /\ task' = [task EXCEPT ![t] = Moved(r, "sign")]
      /\ bound' = [bound EXCEPT ![r.did] = @ \cup {r.key}]
  BY DEF CD!Assign, CD!Goto, Moved
<1>2. r \in DidTask /\ r \in Creation /\ r # CD!Idle
  BY <1>1, DidPlaces, DidKinds DEF DidInv, DidTypes
<1>3. /\ Started(r, ledger) /\ Creates(r, ledger, bound) /\ r.did \in CD!All
      /\ r.key \in 0..MaxKeys
  BY <1>2, DidNow DEF Creation
<1>5. /\ m \in DidTask /\ m # CD!Idle /\ m.pc = "sign" /\ m.did = r.did /\ m.info = r.info
      /\ m.doc = r.doc /\ m.by = r.by /\ m.key = r.key
      /\ m \in Creation /\ m \notin Closing /\ m \notin Setting
  BY <1>2, CreationMoved DEF CreatePc
<1> HIDE DEF m
<1>6. bound \in [CD!All -> SUBSET (0..MaxKeys)]
  BY DEF DidInv, DidTypes
<1>7. /\ bound' \in [CD!All -> SUBSET (0..MaxKeys)] /\ r.key \in bound'[r.did]
      /\ \A d \in CD!All : d # r.did => bound'[d] = bound[d]
  BY <1>1, <1>3, <1>6
<1>8. ledger[r.did] = CD!Nothing
  BY <1>1, <1>3 DEF Creates, CreatePcs
<1>9. ~There(ledger, r.did)
  BY <1>8, DidKinds DEF There
<1>10. \A d \in CD!All : There(ledger', d) => bound'[d] = {ledger'[d].key} /\ Was(ledger', d, 0)
  BY <1>1, <1>7, <1>9 DEF DidInv
<1>11. Started(m, ledger') /\ OnlyGrows(ledger, ledger')
  BY <1>1, <1>3, <1>5 DEF Started, OnlyGrows
<1>12. Creates(m, ledger', bound')
  BY <1>1, <1>3, <1>5, <1>7, <1>8 DEF Creates, CreatePcs, StorePcs
<1>13. \A s \in Tasks : s # t /\ task[s] \in Creation => Creates(task[s], ledger', bound')
  <2>1. SUFFICES ASSUME NEW s \in Tasks, s # t, task[s] \in Creation
                 PROVE  Creates(task[s], ledger', bound')
    OBVIOUS
  <2>2. task[s].did # r.did /\ task[s].did \in CD!All
    BY <1>2, <2>1, DidNow, DidKinds DEF DidInv
  <2>3. Creates(task[s], ledger, bound)
    BY <2>1 DEF DidInv
  <2> QED BY <1>1, <1>7, <2>2, <2>3 DEF Creates
<1>14. /\ ledger' \in [CD!All -> {CD!Nothing} \cup OnLedger]
       /\ wallet' \in [CD!All -> {CD!NoInfo} \cup Info]
       /\ keys' \subseteq 0..MaxKeys /\ docs' \in 0..MaxDocs /\ reported' \subseteq Report
  BY <1>1 DEF DidInv, DidTypes
<1>15. task' = [task EXCEPT ![t] = m] /\ task[t] \in Creation /\ task[t].did = m.did
  BY <1>1, <1>2, <1>5 DEF m
<1>16. UNCHANGED <<wallet, reported>>
  BY <1>1
<1> HIDE DEF r
<1> QED BY <1>5, <1>7, <1>10, <1>11, <1>12, <1>13, <1>14, <1>15, <1>16, DidStep

LEMMA DidAssignAgain ==
    ASSUME DidInv, NEW t \in Tasks, CD!AssignAgain(t)
    PROVE  DidInv'
<1> DEFINE r == task[t]
           m == Moved(r, "return")
<1>1. /\ r.pc = "assign again" /\ UNCHANGED <<ledger, wallet, keys, docs, reported>>
      /\ task' = [task EXCEPT ![t] = Moved(r, "return")]
      /\ bound' = [bound EXCEPT ![r.did] = @ \cup {r.key}]
  BY DEF CD!AssignAgain, CD!Goto, Moved
<1>2. r \in DidTask /\ r \in Creation /\ r # CD!Idle
  BY <1>1, DidPlaces, DidKinds DEF DidInv, DidTypes
<1>3. /\ Started(r, ledger) /\ Creates(r, ledger, bound) /\ r.did \in CD!All
  BY <1>2, DidNow
<1>4. There(ledger, r.did) /\ ledger[r.did].key = r.key /\ r.doc.endpoint = 0
  BY <1>1, <1>3 DEF Creates, StorePcs
<1>5. bound[r.did] = {r.key} /\ Was(ledger, r.did, 0)
  BY <1>3, <1>4 DEF DidInv
<1>6. bound' = bound
  BY <1>1, <1>5 DEF DidInv, DidTypes
<1>8. /\ m \in DidTask /\ m # CD!Idle /\ m.pc = "return" /\ m.did = r.did /\ m.info = r.info
      /\ m.doc = r.doc /\ m.by = r.by /\ m.key = r.key
      /\ m \in Creation /\ m \notin Closing /\ m \notin Setting
  BY <1>2, CreationMoved DEF CreatePc
<1> HIDE DEF m
<1>9. Started(m, ledger)
  BY <1>3, <1>4, <1>5, <1>8 DEF Started
<1>10. Creates(m, ledger, bound)
  BY <1>4, <1>8 DEF Creates, CreatePcs, StorePcs
<1>11. keys' \subseteq 0..MaxKeys /\ docs' \in 0..MaxDocs
  BY <1>1 DEF DidInv, DidTypes
<1>12. task' = [task EXCEPT ![t] = m] /\ task[t].did = m.did /\ task[t] \in Creation
  BY <1>1, <1>2, <1>8 DEF m
<1> HIDE DEF r
<1> QED BY <1>1, <1>6, <1>8, <1>9, <1>10, <1>11, <1>12, DidMove

\* The wallet's record of a DID of its own is of one that is on the ledger.
LEMMA DidStore ==
    ASSUME DidInv, NEW t \in Tasks, CD!StoreDid(t)
    PROVE  DidInv'
<1> DEFINE r == task[t]
           m == Moved(r, "assign again")
           n == [posted |-> TRUE, off |-> FALSE, endpoint |-> 0]
<1>0. n \in Info /\ n.endpoint = 0 /\ ~n.off
  BY DEF Info
<1> HIDE DEF n
<1>1. /\ r.pc = "store" /\ UNCHANGED <<ledger, bound, keys, docs, reported>>
      /\ task' = [task EXCEPT ![t] = Moved(r, "assign again")]
      /\ wallet' = [wallet EXCEPT ![r.did] = n]
  BY DEF CD!StoreDid, CD!Goto, Moved, n
<1>2. r \in DidTask /\ r \in Creation /\ r # CD!Idle
  BY <1>1, DidPlaces, DidKinds DEF DidInv, DidTypes
<1>3. /\ Started(r, ledger) /\ Creates(r, ledger, bound) /\ r.did \in CD!All
  BY <1>2, DidNow
<1>4. There(ledger, r.did) /\ ledger[r.did].key = r.key /\ r.doc.endpoint = 0
  BY <1>1, <1>3 DEF Creates, StorePcs
<1>5. Was(ledger, r.did, 0)
  BY <1>3, <1>4 DEF DidInv
<1>6. /\ wallet' \in [CD!All -> {CD!NoInfo} \cup Info]
      /\ \A d \in CD!All : wallet'[d] = wallet[d] \/ True(wallet'[d], d, ledger)
  BY <1>0, <1>1, <1>3, <1>5 DEF DidInv, DidTypes, True
<1>8. /\ m \in DidTask /\ m # CD!Idle /\ m.pc = "assign again" /\ m.did = r.did
      /\ m.info = r.info /\ m.doc = r.doc /\ m.by = r.by /\ m.key = r.key
      /\ m \in Creation /\ m \notin Closing /\ m \notin Setting
  BY <1>2, CreationMoved DEF CreatePc
<1> HIDE DEF m
<1>9. Started(m, ledger)
  BY <1>3, <1>8 DEF Started
<1>10. Creates(m, ledger, bound)
  BY <1>4, <1>8 DEF Creates, CreatePcs, StorePcs
<1>11. /\ keys' \subseteq 0..MaxKeys /\ docs' \in 0..MaxDocs
       /\ ledger' \in [CD!All -> {CD!Nothing} \cup OnLedger]
       /\ bound' \in [CD!All -> SUBSET (0..MaxKeys)] /\ reported' \subseteq Report
  BY <1>1 DEF DidInv, DidTypes
<1>12. task' = [task EXCEPT ![t] = m] /\ task[t].did = m.did /\ task[t] \in Creation
  BY <1>1, <1>2, <1>8 DEF m
<1>13. OnlyGrows(ledger, ledger')
  BY <1>1 DEF OnlyGrows
<1>14. /\ \A d \in CD!All : There(ledger', d) => bound'[d] = {ledger'[d].key} /\ Was(ledger', d, 0)
       /\ \A s \in Tasks : s # t /\ task[s] \in Creation => Creates(task[s], ledger', bound')
  BY <1>1 DEF DidInv
<1>15. /\ \A d \in CD!All : wallet'[d] = wallet[d] \/ True(wallet'[d], d, ledger')
       /\ Started(m, ledger') /\ Creates(m, ledger', bound')
  BY <1>1, <1>6, <1>9, <1>10
<1> HIDE DEF r
<1> QED BY <1>1, <1>6, <1>8, <1>11, <1>12, <1>13, <1>14, <1>15, DidStep

\* The endpoint of a DID is set from the wallet's record of it.
LEMMA DidSetEndpoint ==
    ASSUME GivenAlone, DidInv, NEW t \in Tasks, NEW d \in CD!All, NEW op \in {"endpoint", "service"},
           CD!SetEndpoint(t, d, op)
    PROVE  DidInv'
<1> DEFINE n == wallet[d]
           p == IF n.posted THEN "resolve" ELSE "write endpoint"
           x == [key |-> ledger[d].key, endpoint |-> docs + 1]
           r == [pc |-> p, op |-> op, did |-> d, info |-> n, by |-> {}, doc |-> x]
<1>1. /\ n # CD!NoInfo /\ docs < MaxDocs /\ docs' = docs + 1
      /\ task' = [task EXCEPT ![t] = r]
      /\ UNCHANGED <<ledger, bound, wallet, keys, reported>>
  BY DEF CD!SetEndpoint
<1>2. docs \in Nat /\ MaxDocs \in Nat /\ docs' \in 0..MaxDocs
  <2>1. docs \in 0..MaxDocs /\ MaxDocs \in Nat
    BY DEF DidInv, DidTypes, GivenAlone
  <2>2. docs < MaxDocs /\ docs' = docs + 1
    BY <1>1
  <2> QED BY <2>1, <2>2
<1>3. n \in Info /\ True(n, d, ledger)
  BY <1>1 DEF DidInv, DidTypes
<1>4. x \in Doc
  <2>1. ledger[d] \in {CD!Nothing} \cup OnLedger
    BY DEF DidInv, DidTypes
  <2>2. ledger[d].key \in 0..MaxKeys \/ ledger[d].key = "none"
    BY <2>1 DEF CD!Nothing, OnLedger
  <2> QED BY <1>2, <2>2 DEF Doc
<1> HIDE DEF x
<1>5. n.posted \in BOOLEAN
  BY <1>3 DEF Info
<1>6. p \in SetPc /\ (p = "write endpoint" => ~n.posted) /\ (p # "write endpoint" => n.posted)
      /\ p # "return"
  BY <1>5 DEF SetPc
<1> HIDE DEF p, n
<1>7. r \in Setting /\ r.pc = p /\ r.info = n /\ r.did = d
  BY <1>3, <1>4, <1>6 DEF Setting
<1> HIDE DEF r
<1>8. r \in DidTask /\ r \notin Closing /\ r \notin Creation
  BY <1>7, DidKinds DEF DidTask
<1>9. Started(r, ledger)
  BY <1>3, <1>6, <1>7, <1>8 DEF Started
<1>10. keys' \subseteq 0..MaxKeys
  BY <1>1 DEF DidInv, DidTypes
<1> QED BY <1>1, <1>2, <1>8, <1>9, <1>10, DidMove

LEMMA DidResolve ==
    ASSUME DidInv, NEW t \in Tasks, CD!Resolve(t)
    PROVE  DidInv'
<1> DEFINE r == task[t]
           q == IF r.pc = "resolve" THEN "resolve again" ELSE "request"
           e == IF r.pc = "resolve" /\ r.op = "service" THEN CD!Current(r.did) ELSE r.doc.endpoint
           x == [r.doc EXCEPT !.endpoint = e]
           m == [r EXCEPT !.pc = q, !.doc = x]
<1>1. /\ r.pc \in {"resolve", "resolve again"}
      /\ UNCHANGED <<ledger, bound, wallet, keys, docs, reported>>
  BY DEF CD!Resolve
<1>2. r \in DidTask /\ r \in Setting /\ r # CD!Idle
  BY <1>1, DidPlaces, DidKinds DEF DidInv, DidTypes
<1>3. CASE ~CD!Active(r.did)
  <2>1. CD!Fail(t)
    BY <1>3 DEF CD!Resolve
  <2> QED BY <1>1, <2>1, DidEnd
<1>4. CASE CD!Active(r.did)
  <2>1. task' = [task EXCEPT ![t] = m]
    <3>1. task \in [Tasks -> DidTask]
      BY DEF DidInv, DidTypes
    <3>2. task' = [task EXCEPT ![t].pc = IF @ = "resolve" THEN "resolve again" ELSE "request",
                               ![t].doc.endpoint = e]
      BY <1>4 DEF CD!Resolve
    <3> HIDE DEF e
    <3> QED BY <3>1, <3>2
  <2>2. Started(r, ledger) /\ r.did \in CD!All /\ r.doc.endpoint \in Nat
    BY <1>2, DidNow
  <2>3. There(ledger, r.did)
    BY <1>4, <2>2 DEF CD!Active, DidInv, DidTypes, There
  <2>4. CD!Current(r.did) \in Nat
    <3>1. Was(ledger, r.did, 0) /\ ledger[r.did].docs \in Seq(Nat)
      BY <2>2, <2>3 DEF DidInv, There, OnLedger
    <3>2. ledger[r.did].docs # <<>>
      BY <3>1 DEF Was
    <3> HIDE DEF r
    <3> QED BY <3>1, <3>2 DEF CD!Current
  <2>5. e \in Nat
    BY <2>2, <2>4
  <2> HIDE DEF e
  <2>6. r.doc \in Doc
    BY <1>2 DEF Setting
  <2>7. x \in Doc
    BY <2>5, <2>6 DEF Doc
  <2> HIDE DEF x
  <2>8. q \in {"resolve again", "request"}
    OBVIOUS
  <2> HIDE DEF q
  <2>9. m \in Setting /\ m.pc = q /\ m.did = r.did /\ m.info = r.info /\ m.doc = x
    BY <1>2, <2>7, <2>8 DEF Setting, SetPc
  <2>10. r.info.posted /\ True(r.info, r.did, ledger)
    BY <1>1, <1>2, <2>2 DEF Started, SetPc
  <2> HIDE DEF m
  <2>11. m \in DidTask /\ m \notin Closing /\ m \notin Creation
    BY <2>9, DidKinds DEF DidTask
  <2>12. Started(m, ledger)
    BY <2>8, <2>9, <2>10, <2>11 DEF Started
  <2>13. keys' \subseteq 0..MaxKeys /\ docs' \in 0..MaxDocs
    BY <1>1 DEF DidInv, DidTypes
  <2> QED BY <1>1, <2>1, <2>11, <2>12, <2>13, DidMove
<1> QED BY <1>3, <1>4

\* Nothing but the wallet is changed by a call that becomes m.
LEMMA DidWrite ==
    ASSUME DidInv, NEW t \in Tasks, NEW d \in CD!All, NEW n \in Info, NEW m \in DidTask,
           task' = [task EXCEPT ![t] = m], wallet' = [wallet EXCEPT ![d] = n],
           UNCHANGED <<ledger, bound, keys, docs, reported>>,
           True(n, d, ledger), m # CD!Idle => Started(m, ledger), m \notin Creation
    PROVE  DidInv'
<1>1. wallet \in [CD!All -> {CD!NoInfo} \cup Info]
  BY DEF DidInv, DidTypes
<1>2. /\ wallet' \in [CD!All -> {CD!NoInfo} \cup Info]
      /\ \A e \in CD!All : wallet'[e] = wallet[e] \/ True(wallet'[e], e, ledger')
  BY <1>1
<1>3. /\ keys' \subseteq 0..MaxKeys /\ docs' \in 0..MaxDocs
      /\ ledger' \in [CD!All -> {CD!Nothing} \cup OnLedger]
      /\ bound' \in [CD!All -> SUBSET (0..MaxKeys)] /\ reported' \subseteq Report
  BY DEF DidInv, DidTypes
<1>4. OnlyGrows(ledger, ledger') /\ (m # CD!Idle => Started(m, ledger'))
  BY DEF OnlyGrows
<1>5. /\ \A e \in CD!All : There(ledger', e) => bound'[e] = {ledger'[e].key} /\ Was(ledger', e, 0)
      /\ \A s \in Tasks : s # t /\ task[s] \in Creation => Creates(task[s], ledger', bound')
  BY DEF DidInv
<1>6. UNCHANGED reported
  OBVIOUS
<1> QED BY <1>2, <1>3, <1>4, <1>5, <1>6, DidStep

LEMMA DidWriteEndpoint ==
    ASSUME DidInv, NEW t \in Tasks, CD!WriteEndpoint(t)
    PROVE  DidInv'
<1> DEFINE r == task[t]
           e == IF r.op = "endpoint" THEN r.doc.endpoint ELSE r.info.endpoint
           n == [r.info EXCEPT !.endpoint = e]
           m == IF r.info.posted THEN Moved(r, "return") ELSE CD!Idle
<1>1. /\ r.pc = "write endpoint" /\ UNCHANGED <<ledger, bound, keys, docs, reported>>
      /\ wallet' = [wallet EXCEPT ![r.did] = n] /\ task' = [task EXCEPT ![t] = m]
  BY DEF CD!WriteEndpoint, CD!Goto, CD!Fail, Moved
<1>2. r \in DidTask /\ r \in Setting /\ r # CD!Idle
  BY <1>1, DidPlaces, DidKinds DEF DidInv, DidTypes
<1>3. Started(r, ledger) /\ r.did \in CD!All /\ r.doc.endpoint \in Nat
  BY <1>2, DidNow
<1>4. r.info \in Info /\ True(r.info, r.did, ledger)
      /\ (r.info.posted => Was(ledger, r.did, r.doc.endpoint))
  BY <1>1, <1>2, <1>3 DEF Started, Setting
<1>5. e \in Nat /\ (r.info.posted => Was(ledger, r.did, e))
  BY <1>3, <1>4, DidKinds DEF Info, True
<1> HIDE DEF e
<1>6. n \in Info /\ n.posted = r.info.posted /\ n.off = r.info.off /\ n.endpoint = e
  BY <1>4, <1>5 DEF Info
<1> HIDE DEF n
<1>7. True(n, r.did, ledger)
  BY <1>4, <1>5, <1>6, DidKinds DEF True
<1>8. m \in DidTask /\ m \notin Creation /\ (m # CD!Idle => Started(m, ledger))
  <2>1. CASE ~r.info.posted
    BY <2>1, DidKinds DEF DidTask
  <2>2. CASE r.info.posted
    <3> DEFINE w == Moved(r, "return")
    <3> HIDE DEF r
    <3>2. /\ w \in DidTask /\ w \notin Creation /\ w \notin Closing /\ w.pc = "return"
          /\ w.did = r.did /\ w.info = r.info /\ w.doc = r.doc
      BY <1>2, SettingMoved DEF SetPc
    <3> HIDE DEF w
    <3>3. Started(w, ledger)
      BY <1>4, <2>2, <3>2 DEF Started
    <3> QED BY <2>2, <3>2, <3>3 DEF w
  <2> QED BY <2>1, <2>2
<1> HIDE DEF m
<1> QED BY <1>1, <1>3, <1>6, <1>7, <1>8, DidWrite

\* deactivate reads the record of the wallet, and marks it.
LEMMA DidReadInfo ==
    ASSUME DidInv, NEW t \in Tasks, CD!ReadInfo(t)
    PROVE  DidInv'
<1> DEFINE r == task[t]
           m == [r EXCEPT !.pc = "mark", !.info = wallet[r.did]]
<1>1. r.pc = "read" /\ UNCHANGED <<ledger, bound, wallet, keys, docs, reported>>
  BY DEF CD!ReadInfo
<1>2. r \in DidTask /\ r \in Closing /\ r # CD!Idle
  BY <1>1, DidPlaces, DidKinds DEF DidInv, DidTypes
<1>3. /\ Started(r, ledger) /\ r.did \in CD!All /\ wallet[r.did] \in {CD!NoInfo} \cup Info
      /\ True(wallet[r.did], r.did, ledger)
  BY <1>2, DidNow DEF DidInv
<1>4. CASE wallet[r.did] = CD!NoInfo
  <2>1. CD!Fail(t)
    BY <1>4 DEF CD!ReadInfo
  <2> QED BY <1>1, <2>1, DidEnd
<1>5. CASE wallet[r.did] # CD!NoInfo
  <2>1. task' = [task EXCEPT ![t] = m]
    <3>1. task \in [Tasks -> DidTask]
      BY DEF DidInv, DidTypes
    <3>2. task' = [task EXCEPT ![t].pc = "mark", ![t].info = wallet[task[t].did]]
      BY <1>5 DEF CD!ReadInfo
    <3> QED BY <3>1, <3>2
  <2>2. wallet[r.did] \in Info
    BY <1>3, <1>5
  <2>3. /\ m \in Closing /\ m.pc = "mark" /\ m.did = r.did /\ m.info = wallet[r.did]
        /\ m.doc = r.doc
    BY <1>2, <2>2 DEF Closing, MarkPc
  <2> HIDE DEF m
  <2>4. m \in DidTask /\ m \notin Setting /\ m \notin Creation
    BY <2>3, DidKinds DEF DidTask
  <2>5. Off(ledger, r.did) /\ There(ledger, r.did) /\ r.doc.endpoint = 0
    BY <1>1, <1>2, <1>3 DEF Started
  <2>6. Started(m, ledger)
    BY <1>3, <2>2, <2>3, <2>4, <2>5 DEF Started
  <2>7. keys' \subseteq 0..MaxKeys /\ docs' \in 0..MaxDocs
    BY <1>1 DEF DidInv, DidTypes
  <2> QED BY <1>1, <2>1, <2>4, <2>6, <2>7, DidMove
<1> QED BY <1>4, <1>5

LEMMA DidMark ==
    ASSUME DidInv, NEW t \in Tasks, CD!Mark(t)
    PROVE  DidInv'
<1> DEFINE r == task[t]
           n == [r.info EXCEPT !.off = TRUE]
           m == Moved(r, "return")
<1>1. /\ r.pc = "mark" /\ UNCHANGED <<ledger, bound, keys, docs, reported>>
      /\ wallet' = [wallet EXCEPT ![r.did] = n] /\ task' = [task EXCEPT ![t] = m]
  BY DEF CD!Mark, CD!Goto, Moved
<1>2. r \in DidTask /\ r \in Closing /\ r # CD!Idle
  BY <1>1, DidPlaces, DidKinds DEF DidInv, DidTypes
<1>3. Started(r, ledger) /\ r.did \in CD!All
  BY <1>2, DidNow
<1>4. /\ r.info \in Info /\ True(r.info, r.did, ledger) /\ Off(ledger, r.did)
      /\ There(ledger, r.did) /\ r.doc.endpoint = 0
  BY <1>1, <1>2, <1>3 DEF Started
<1>5. Was(ledger, r.did, 0)
  BY <1>3, <1>4 DEF DidInv
<1>6. n \in Info /\ n.posted = r.info.posted /\ n.endpoint = r.info.endpoint
  BY <1>4 DEF Info
<1> HIDE DEF n
<1>7. True(n, r.did, ledger)
  BY <1>4, <1>6, DidKinds DEF True
<1>8. /\ m \in DidTask /\ m \in Closing /\ m \notin Creation /\ m \notin Setting /\ m.pc = "return"
      /\ m.did = r.did /\ m.info = r.info /\ m.doc = r.doc
  BY <1>2, ClosingMoved DEF MarkPc
<1> HIDE DEF m
<1>9. Started(m, ledger)
  BY <1>3, <1>4, <1>5, <1>8 DEF Started
<1> HIDE DEF r
<1> QED BY <1>1, <1>3, <1>6, <1>7, <1>8, <1>9, DidWrite

\* What is returned was published.
LEMMA DidReturn ==
    ASSUME DidInv, NEW t \in Tasks, CD!Return(t)
    PROVE  DidInv'
<1> DEFINE r == task[t]
           p == [did |-> r.did, op |-> r.op, endpoint |-> r.doc.endpoint]
<1>1. /\ r.pc = "return" /\ UNCHANGED <<ledger, bound, wallet, keys, docs>>
      /\ task' = [task EXCEPT ![t] = CD!Idle] /\ reported' = reported \cup {p}
  BY DEF CD!Return, CD!Fail
<1>2. r \in DidTask /\ r # CD!Idle
  BY <1>1, DidKinds DEF DidInv, DidTypes
<1>3. Started(r, ledger) /\ r.did \in CD!All /\ r.doc.endpoint \in Nat
  BY <1>2, DidNow
<1>4. /\ r.op = "deactivate" => r \in Closing
      /\ r.op \in {"create", "update", "deactivate", "endpoint", "service"}
  BY <1>2, DidFields
<1>5. /\ Was(ledger, r.did, r.doc.endpoint)
      /\ r.op = "deactivate" => Off(ledger, r.did)
  BY <1>1, <1>3, <1>4 DEF Started
<1> HIDE DEF r
<1>6. /\ p \in Report /\ Was(ledger, p.did, p.endpoint)
      /\ p.op = "deactivate" => Off(ledger, p.did)
  BY <1>3, <1>4, <1>5 DEF Report
<1> HIDE DEF p
<1>7. reported' \subseteq Report
  BY <1>1, <1>6 DEF DidInv, DidTypes
<1>8. \A q \in reported' : \/ q \in reported
                           \/ Was(ledger', q.did, q.endpoint)
                              /\ (q.op = "deactivate" => Off(ledger', q.did))
  BY <1>1, <1>6
<1>9. /\ keys' \subseteq 0..MaxKeys /\ docs' \in 0..MaxDocs
      /\ ledger' \in [CD!All -> {CD!Nothing} \cup OnLedger]
      /\ bound' \in [CD!All -> SUBSET (0..MaxKeys)]
      /\ wallet' \in [CD!All -> {CD!NoInfo} \cup Info]
  BY <1>1 DEF DidInv, DidTypes
<1>10. OnlyGrows(ledger, ledger') /\ \A e \in CD!All : wallet'[e] = wallet[e]
  BY <1>1 DEF OnlyGrows
<1>11. /\ \A e \in CD!All : There(ledger', e) => bound'[e] = {ledger'[e].key} /\ Was(ledger', e, 0)
       /\ \A s \in Tasks : s # t /\ task[s] \in Creation => Creates(task[s], ledger', bound')
  BY <1>1 DEF DidInv
<1>12. CD!Idle \in DidTask /\ CD!Idle \notin Creation
  BY DidKinds DEF DidTask
<1>13. task' = [task EXCEPT ![t] = CD!Idle]
  BY <1>1
<1> QED BY <1>7, <1>8, <1>9, <1>10, <1>11, <1>12, <1>13, DidStep

\* A signature is by the one key of the kid.
LEMMA DidSign ==
    ASSUME DidInv, NEW t \in Tasks, CD!Sign(t)
    PROVE  DidInv'
<1> DEFINE r == task[t]
           b == bound[r.did]
           m == [r EXCEPT !.pc = "submit", !.by = b]
<1>1. r.pc = "sign" /\ UNCHANGED <<ledger, bound, wallet, keys, docs, reported>>
  BY DEF CD!Sign
<1>2. r \in DidTask /\ r # CD!Idle
  BY <1>1, DidKinds DEF DidInv, DidTypes
<1>3. /\ Started(r, ledger) /\ r.did \in CD!All /\ (r \in Creation => Creates(r, ledger, bound))
      /\ b \in SUBSET (0..MaxKeys)
  BY <1>2, DidNow DEF DidInv, DidTypes
<1>4. CASE CD!Fail(t)
  BY <1>1, <1>4, DidEnd
<1>5. CASE task' = [task EXCEPT ![t].pc = "submit", ![t].by = b]
  <2>1. task' = [task EXCEPT ![t] = m]
    <3>1. task \in [Tasks -> DidTask]
      BY DEF DidInv, DidTypes
    <3> QED BY <1>5, <3>1
  <2> HIDE DEF b
  <2>2. /\ m.pc = "submit" /\ m.did = r.did /\ m.info = r.info /\ m.doc = r.doc /\ m.by = b
        /\ m \in DidTask /\ m # CD!Idle
        /\ (m \in Creation <=> r \in Creation) /\ (r \in Creation => m.key = r.key)
        /\ (m \in Closing <=> r \in Closing) /\ (m \in Setting <=> r \in Setting)
    <3> HIDE DEF r
    <3>1. CASE r \in Creation
      <4>1. /\ m \in Creation /\ m.pc = "submit" /\ m.did = r.did /\ m.info = r.info
            /\ m.doc = r.doc /\ m.by = b /\ m.key = r.key
        BY <1>3, <3>1 DEF Creation, CreatePc
      <4> QED BY <3>1, <4>1, DidKinds DEF DidTask
    <3>2. CASE r \in Updation
      <4>1. /\ m \in Updation /\ m.pc = "submit" /\ m.did = r.did /\ m.info = r.info
            /\ m.doc = r.doc /\ m.by = b
        BY <1>3, <3>2 DEF Updation, ChangePc
      <4> QED BY <3>2, <4>1, DidKinds DEF DidTask
    <3>3. CASE r \in Closing
      <4>1. /\ m \in Closing /\ m.pc = "submit" /\ m.did = r.did /\ m.info = r.info
            /\ m.doc = r.doc /\ m.by = b
        BY <1>3, <3>3 DEF Closing, MarkPc
      <4> QED BY <3>3, <4>1, DidKinds DEF DidTask
    <3>4. CASE r \in Setting
      <4>1. /\ m \in Setting /\ m.pc = "submit" /\ m.did = r.did /\ m.info = r.info
            /\ m.doc = r.doc /\ m.by = b
        BY <1>3, <3>4 DEF Setting, SetPc
      <4> QED BY <3>4, <4>1, DidKinds DEF DidTask
    <3> QED BY <1>2, <3>1, <3>2, <3>3, <3>4 DEF DidTask
  <2> HIDE DEF m
  <2>3. Started(m, ledger)
    BY <1>1, <1>3, <2>2 DEF Started, SetPc
  <2>4. m \in Creation => Creates(m, ledger, bound)
    BY <1>1, <1>3, <2>2 DEF Creates, CreatePcs, StorePcs, b
  <2>5. keys' \subseteq 0..MaxKeys /\ docs' \in 0..MaxDocs
    BY <1>1 DEF DidInv, DidTypes
  <2>6. m \in Creation => task[t] \in Creation /\ task[t].did = m.did
    BY <2>2
  <2> HIDE DEF r
  <2> QED BY <1>1, <2>1, <2>2, <2>3, <2>4, <2>5, <2>6, DidMove
<1> QED BY <1>4, <1>5 DEF CD!Sign

\* What the ledger has after it accepted the job of a call t.
LEMMA DidApplied ==
    ASSUME DidInv, NEW t \in Tasks, task[t].pc = "submit", CD!Acceptable(t), ledger' = CD!Applied(t)
    PROVE  /\ ledger' \in [CD!All -> {CD!Nothing} \cup OnLedger] /\ OnlyGrows(ledger, ledger')
           /\ \A d \in CD!All : There(ledger', d)
                 => bound[d] = {ledger'[d].key} /\ Was(ledger', d, 0)
           /\ \A s \in Tasks : s # t /\ task[s] \in Creation => Creates(task[s], ledger', bound)
           /\ There(ledger', task[t].did)
           /\ task[t] \in Creation => ledger'[task[t].did].key = task[t].key
           /\ task[t] \in Closing => Off(ledger', task[t].did)
           /\ task[t] \in Updation \cup Setting => Was(ledger', task[t].did, task[t].doc.endpoint)
<1> DEFINE r == task[t]
           d == r.did
           e == r.doc.endpoint
           new == CASE r.op = "create" -> [key |-> r.doc.key, docs |-> <<0>>, off |-> FALSE]
                    [] r.op = "deactivate" -> [ledger[d] EXCEPT !.off = TRUE]
                    [] OTHER -> [ledger[d] EXCEPT !.docs = Append(ledger[d].docs, e)]
<1>1. r \in DidTask /\ r # CD!Idle
  BY DidKinds DEF DidInv, DidTypes
<1>2. /\ d \in CD!All /\ e \in Nat /\ r.by \in SUBSET (0..MaxKeys)
      /\ (r.op = "create" <=> r \in Creation) /\ (r.op = "deactivate" <=> r \in Closing)
      /\ (r \in Updation \cup Setting => r.op # "create" /\ r.op # "deactivate")
  BY <1>1, DidFields
<1>3. Started(r, ledger) /\ (r \in Creation => Creates(r, ledger, bound))
  BY <1>1, DidNow
<1>4. r.by = {r.doc.key}
  BY DEF CD!Acceptable
<1>5. IF r.op = "create" THEN ledger[d] = CD!Nothing ELSE ledger[d] # CD!Nothing /\ ~ledger[d].off
  BY DEF CD!Acceptable, CD!Active
<1>6. ledger \in [CD!All -> {CD!Nothing} \cup OnLedger]
  BY DEF DidInv, DidTypes
<1>7. ledger' = [ledger EXCEPT ![d] = new]
  <2>1. CASE r.op = "create"
    BY <2>1 DEF CD!Applied
  <2>2. CASE r.op = "deactivate"
    BY <2>2 DEF CD!Applied
  <2>3. CASE r.op # "create" /\ r.op # "deactivate"
    BY <2>3 DEF CD!Applied
  <2> QED BY <2>1, <2>2, <2>3
<1> HIDE DEF d, e
<1>8. r \in Creation => r.by = bound[d] /\ r.key \in bound[d] /\ bound[d] = {r.doc.key}
  BY <1>3, <1>4 DEF Creates, d
<1>9. /\ new \in OnLedger
      /\ There(ledger, d) => new.key = ledger[d].key /\ (ledger[d].off => new.off)
      /\ \E i \in DOMAIN new.docs : new.docs[i] = 0
      /\ \A x \in Nat : Was(ledger, d, x) => \E i \in DOMAIN new.docs : new.docs[i] = x
      /\ r \in Creation => new.key = r.key
      /\ r \in Creation => bound[d] = {new.key}
      /\ r \in Closing => new.off
      /\ r \in Updation \cup Setting => \E i \in DOMAIN new.docs : new.docs[i] = e
  <2>1. CASE r \in Creation
    <3>1. new = [key |-> r.doc.key, docs |-> <<0>>, off |-> FALSE]
      BY <1>2, <2>1
    <3>2. r.doc.key \in 0..MaxKeys
      BY <1>2, <1>4
    <3>3. r.key = r.doc.key /\ bound[d] = {r.doc.key}
      BY <1>8, <2>1
    <3> HIDE DEF new
    <3>4. new \in OnLedger /\ new.key = r.doc.key /\ new.docs = <<0>>
      BY <3>1, <3>2 DEF OnLedger
    <3>5. 1 \in DOMAIN new.docs /\ new.docs[1] = 0
      BY <3>4
    <3>6. ~There(ledger, d)
      BY <1>2, <1>5, <2>1, DidKinds DEF There
    <3>7. r \notin Closing /\ r \notin Updation \cup Setting
      BY <2>1, DidKinds
    <3> HIDE DEF r
    <3> QED BY <3>3, <3>4, <3>5, <3>6, <3>7 DEF Was
  <2>2. CASE r \in Closing
    <3>1. new = [ledger[d] EXCEPT !.off = TRUE]
      BY <1>2, <2>2, DidKinds
    <3>2. There(ledger, d) /\ ledger[d] \in OnLedger
      BY <1>2, <1>5, <1>6, <2>2, DidKinds DEF There
    <3> HIDE DEF new
    <3>3. /\ new \in OnLedger /\ new.key = ledger[d].key /\ new.docs = ledger[d].docs /\ new.off
      BY <3>1, <3>2 DEF OnLedger
    <3>4. Was(ledger, d, 0)
      BY <1>2, <3>2 DEF DidInv
    <3>5. r \notin Creation /\ r \notin Updation \cup Setting
      BY <2>2, DidKinds
    <3> HIDE DEF r
    <3> QED BY <3>2, <3>3, <3>4, <3>5 DEF Was
  <2>3. CASE r \in Updation \cup Setting
    <3>1. new = [ledger[d] EXCEPT !.docs = Append(ledger[d].docs, e)]
      BY <1>2, <2>3
    <3>2. There(ledger, d) /\ ledger[d] \in OnLedger
      BY <1>2, <1>5, <1>6, <2>3, DidKinds DEF There
    <3> HIDE DEF new
    <3> DEFINE o == ledger[d].docs
               a == Append(o, e)
    <3>3. o \in Seq(Nat) /\ e \in Nat
      BY <1>2, <3>2 DEF OnLedger
    <3>a. new = [ledger[d] EXCEPT !.docs = a]
      BY <3>1
    <3> HIDE DEF o
    <3>b. a \in Seq(Nat) /\ Len(a) = Len(o) + 1 /\ a[Len(o) + 1] = e
          /\ \A i \in 1..Len(o) : a[i] = o[i]
      BY <3>3
    <3>c. DOMAIN a = 1..(Len(o) + 1) /\ DOMAIN o = 1..Len(o) /\ Len(o) \in Nat
      BY <3>3, <3>b
    <3> HIDE DEF a
    <3>4. /\ new \in OnLedger /\ new.key = ledger[d].key /\ new.off = ledger[d].off
          /\ new.docs = a
      BY <3>2, <3>a, <3>b DEF OnLedger
    <3>5. /\ Len(o) + 1 \in DOMAIN new.docs /\ new.docs[Len(o) + 1] = e
          /\ \A i \in DOMAIN o : i \in DOMAIN new.docs /\ new.docs[i] = o[i]
      BY <3>4, <3>b, <3>c
    <3>6. Was(ledger, d, 0)
      BY <1>2, <3>2 DEF DidInv
    <3>7. r \notin Creation /\ r \notin Closing
      BY <2>3, DidKinds
    <3>8. \A x \in Nat : Was(ledger, d, x) => \E i \in DOMAIN new.docs : new.docs[i] = x
      BY <3>5 DEF Was, o
    <3> HIDE DEF r
    <3> QED BY <3>2, <3>4, <3>5, <3>6, <3>7, <3>8
  <2> QED BY <1>1, <2>1, <2>2, <2>3 DEF DidTask
<1> HIDE DEF new
<1>10. /\ ledger' \in [CD!All -> {CD!Nothing} \cup OnLedger]
       /\ ledger'[d] = new /\ \A x \in CD!All : x # d => ledger'[x] = ledger[x]
  BY <1>2, <1>6, <1>7, <1>9
<1>11. There(ledger', d)
  BY <1>9, <1>10 DEF There
<1>12. OnlyGrows(ledger, ledger')
  BY <1>9, <1>10, <1>11 DEF OnlyGrows, Was, There
<1>13. r \notin Creation => There(ledger, d)
  BY <1>2, <1>5, <1>6 DEF There
<1>14. bound[d] = {new.key} /\ Was(ledger', d, 0)
  <2>1. r \notin Creation => bound[d] = {new.key}
    BY <1>2, <1>9, <1>13 DEF DidInv
  <2> QED BY <1>9, <1>10, <1>11, <2>1 DEF Was
<1>15. \A x \in CD!All : There(ledger', x) => bound[x] = {ledger'[x].key} /\ Was(ledger', x, 0)
  <2>1. SUFFICES ASSUME NEW x \in CD!All, There(ledger', x), x # d
                 PROVE  bound[x] = {ledger'[x].key} /\ Was(ledger', x, 0)
    BY <1>10, <1>14
  <2>2. There(ledger, x)
    BY <1>10, <2>1 DEF There
  <2>3. bound[x] = {ledger[x].key} /\ Was(ledger, x, 0)
    BY <2>2 DEF DidInv
  <2> QED BY <1>10, <2>1, <2>3 DEF Was
<1>16. ASSUME NEW s \in Tasks, s # t, task[s] \in Creation
       PROVE  Creates(task[s], ledger', bound)
  <2>1. Creates(task[s], ledger, bound) /\ task[s].did \in CD!All
    BY <1>16, DidNow, DidKinds DEF DidInv
  <2>2. CASE task[s].did # d
    BY <1>10, <2>1, <2>2 DEF Creates, There
  <2>3. CASE task[s].did = d
    <3>1. r \notin Creation
      BY <1>16, <2>3 DEF DidInv, d
    <3>2. There(ledger, d) /\ ledger[d] # CD!Nothing
      BY <1>13, <3>1, DidKinds DEF There
    <3>3. new.key = ledger[d].key
      BY <1>9, <3>2
    <3>4. task[s].pc \notin CreatePcs
      BY <2>1, <2>3, <3>2 DEF Creates
    <3> QED BY <1>10, <1>11, <2>1, <2>3, <3>3, <3>4 DEF Creates, CreatePcs
  <2> QED BY <2>2, <2>3
<1>17. /\ r \in Creation => ledger'[d].key = r.key
       /\ r \in Closing => Off(ledger', d)
       /\ r \in Updation \cup Setting => Was(ledger', d, e)
  BY <1>9, <1>10, <1>11 DEF Off, Was
<1> QED BY <1>10, <1>11, <1>12, <1>15, <1>16, <1>17 DEF d, e

LEMMA DidSubmit ==
    ASSUME DidInv, NEW t \in Tasks, CD!Submit(t)
    PROVE  DidInv'
<1> DEFINE r == task[t]
<1>1. r.pc = "submit" /\ UNCHANGED <<bound, wallet, keys, docs, reported>>
  BY DEF CD!Submit
<1>2. CASE CD!Fail(t) /\ UNCHANGED ledger
  BY <1>1, <1>2, DidEnd
<1>3. CASE CD!Acceptable(t) /\ ledger' = CD!Applied(t) /\ (CD!Published(t) \/ CD!Fail(t))
  <2> DEFINE p == CASE r.op = "create" -> "store" [] r.op = "update" -> "return"
                    [] r.op = "deactivate" -> "read" [] OTHER -> "write endpoint"
             m == Moved(r, p)
  <2>1. r \in DidTask /\ r # CD!Idle
    BY <1>1, DidKinds DEF DidInv, DidTypes
  <2>2. /\ Started(r, ledger) /\ (r \in Creation => Creates(r, ledger, bound)) /\ r.did \in CD!All
        /\ r.info \in {CD!NoInfo} \cup Info
    BY <2>1, DidNow
  <2>3. /\ ledger' \in [CD!All -> {CD!Nothing} \cup OnLedger] /\ OnlyGrows(ledger, ledger')
        /\ \A d \in CD!All : There(ledger', d)
                 => bound[d] = {ledger'[d].key} /\ Was(ledger', d, 0)
        /\ \A s \in Tasks : s # t /\ task[s] \in Creation => Creates(task[s], ledger', bound)
    BY <1>1, <1>3, DidApplied
  <2>4. /\ There(ledger', r.did)
        /\ r \in Creation => ledger'[r.did].key = r.key
        /\ r \in Closing => Off(ledger', r.did)
        /\ r \in Updation \cup Setting => Was(ledger', r.did, r.doc.endpoint)
    BY <1>1, <1>3, DidApplied
  <2>5. /\ keys' \subseteq 0..MaxKeys /\ docs' \in 0..MaxDocs
        /\ bound' \in [CD!All -> SUBSET (0..MaxKeys)]
        /\ wallet' \in [CD!All -> {CD!NoInfo} \cup Info] /\ reported' \subseteq Report
    BY <1>1 DEF DidInv, DidTypes
  <2>6. \A d \in CD!All : There(ledger', d) => bound'[d] = {ledger'[d].key} /\ Was(ledger', d, 0)
    BY <1>1, <2>3
  <2>7. \A s \in Tasks : s # t /\ task[s] \in Creation => Creates(task[s], ledger', bound')
    BY <1>1, <2>3
  <2>8. UNCHANGED <<wallet, reported>>
    BY <1>1
  <2>9. CASE CD!Fail(t)
    <3>1. CD!Idle \in DidTask /\ CD!Idle \notin Creation /\ task' = [task EXCEPT ![t] = CD!Idle]
      BY <2>9, DidKinds DEF DidTask, CD!Fail
    <3> HIDE DEF r, p, m
    <3> QED BY <2>3, <2>5, <2>6, <2>7, <2>8, <3>1, DidStep
  <2>10. CASE CD!Published(t)
    <3>1. task' = [task EXCEPT ![t] = m]
      BY <2>10 DEF CD!Published, CD!Goto, Moved
    <3>2. /\ r \in Creation => p = "store"
          /\ r \in Updation => p = "return"
          /\ r \in Closing => p = "read"
          /\ r \in Setting => p = "write endpoint"
      BY <2>1, DidFields
    <3> HIDE DEF p
    <3>3. /\ r \in Creation => p \in CreatePc
          /\ r \in Updation => p \in ChangePc
          /\ r \in Closing => p \in MarkPc
          /\ r \in Setting => p \in SetPc
      BY <3>2 DEF CreatePc, ChangePc, MarkPc, SetPc
    <3> HIDE DEF r
    <3>4. /\ m \in DidTask /\ m # CD!Idle /\ m.pc = p /\ m.did = r.did /\ m.info = r.info
          /\ m.doc = r.doc /\ (r \in Creation <=> m \in Creation)
      BY <2>1, <3>3, DidMoved
    <3>5. /\ r \in Creation => m.key = r.key
          /\ (r \in Closing <=> m \in Closing) /\ (r \in Setting <=> m \in Setting)
      BY <2>1, <3>3, DidMoved
    <3> HIDE DEF m
    <3>6. True(r.info, r.did, ledger')
      BY <2>2, <2>3, DidGrows DEF Started
    <3>7. Started(m, ledger')
      <4>1. r \in Creation \/ r \in Updation \/ r \in Closing \/ r \in Setting
        BY <2>1 DEF DidTask
      <4>2. CASE r \in Creation
        <5>1. m \notin Closing /\ m \notin Setting /\ m.pc = "store"
          BY <3>2, <3>4, <3>5, <4>2, DidKinds
        <5> QED BY <3>4, <3>6, <5>1 DEF Started
      <4>3. CASE r \in Updation
        <5>1. m \notin Closing /\ m \notin Setting
          BY <3>5, <4>3, DidKinds
        <5> QED BY <2>4, <3>4, <3>6, <4>3, <5>1 DEF Started
      <4>4. CASE r \in Closing
        <5>1. m \notin Setting /\ m.pc = "read" /\ r.doc.endpoint = 0
          BY <2>2, <3>2, <3>4, <3>5, <4>4, DidKinds DEF Started
        <5> QED BY <2>4, <3>4, <3>6, <4>4, <5>1 DEF Started
      <4>5. CASE r \in Setting
        <5>1. m \notin Closing /\ m.pc = "write endpoint"
          BY <3>2, <3>4, <3>5, <4>5, DidKinds
        <5> QED BY <2>4, <3>4, <3>6, <4>5, <5>1 DEF Started, SetPc
      <4> QED BY <4>1, <4>2, <4>3, <4>4, <4>5
    <3>8. m \in Creation => Creates(m, ledger', bound')
      BY <2>2, <2>4, <3>2, <3>4, <3>5 DEF Creates, CreatePcs, StorePcs
    <3>9. m \in Creation => task[t] \in Creation /\ task[t].did = m.did
      BY <3>4 DEF r
    <3> QED BY <2>3, <2>5, <2>6, <2>7, <2>8, <3>1, <3>4, <3>7, <3>8, <3>9, DidStep
  <2> QED BY <1>3, <2>9, <2>10
<1> QED BY <1>2, <1>3 DEF CD!Submit, CD!Refused

LEMMA DidInit == ASSUME GivenAlone PROVE CD!Init => DidInv
<1>1. CD!Init => DidTypes
  BY DEF CD!Init, DidTypes, GivenAlone, DidTask
<1>2. CD!Init => /\ \A d \in CD!All : ~There(ledger, d) /\ wallet[d] = CD!NoInfo
                 /\ \A t \in Tasks : task[t] = CD!Idle /\ task[t] \notin Creation
                 /\ reported = {}
  BY DidKinds DEF CD!Init, There
<1> QED BY <1>1, <1>2 DEF DidInv, True

LEMMA DidNext == ASSUME GivenAlone, DidInv, [CD!Next]_(CD!vars) PROVE DidInv'
<1>1. CASE UNCHANGED CD!vars
  BY <1>1 DEF CD!vars, DidInv, DidTypes
<1>2. ASSUME NEW d \in CD!All, CD!Import(d) PROVE DidInv'
  BY <1>2, DidImport
<1>3. ASSUME NEW t \in Tasks, NEW d \in CD!All,
             \/ \E k \in 0..MaxKeys : CD!Create(t, d, k)
             \/ CD!Change(t, d, "update", docs + 1) \/ CD!Change(t, d, "deactivate", 0)
             \/ \E op \in {"endpoint", "service"} : CD!SetEndpoint(t, d, op)
      PROVE  DidInv'
  BY <1>3, DidCreate, DidChange, DidSetEndpoint
<1>4. ASSUME NEW t \in Tasks, CD!Assign(t) \/ CD!StoreDid(t) \/ CD!AssignAgain(t) \/ CD!Resolve(t)
      PROVE  DidInv'
  BY <1>4, DidAssign, DidStore, DidAssignAgain, DidResolve
<1>5. ASSUME NEW t \in Tasks, CD!StoredAlready(t) \/ CD!Interrupt(t)
      PROVE  DidInv'
  BY <1>5, DidEnd DEF CD!StoredAlready, CD!Interrupt
<1>6. ASSUME NEW t \in Tasks, CD!WriteEndpoint(t) \/ CD!ReadInfo(t) \/ CD!Mark(t) \/ CD!Return(t)
      PROVE  DidInv'
  BY <1>6, DidWriteEndpoint, DidReadInfo, DidMark, DidReturn
<1>7. ASSUME NEW t \in Tasks, CD!Request(t) \/ CD!Sign(t) \/ CD!Submit(t)
      PROVE  DidInv'
  BY <1>7, DidRequest, DidSign, DidSubmit
<1> QED BY <1>1, <1>2, <1>3, <1>4, <1>5, <1>6, <1>7 DEF CD!Next

\* A DID that is on the ledger can be signed for by its one key, whichever call
\* fails or is interrupted, and wherever; a document that a caller gives needs
\* calls that do not overlap (create).
THEOREM KeyBound == ASSUME GivenAlone PROVE CD!Spec => []CD!Signable
<1>1. DidInv => CD!Signable
  BY DEF DidInv, DidTypes, There, CD!Signable
<1>2. DidInv /\ [CD!Next]_(CD!vars) => DidInv'
  BY DidNext
<1> QED BY <1>1, <1>2, DidInit, PTL DEF CD!Spec

\* The endpoint that the wallet has of a posted DID was published, and so was
\* what calls returned; and a DID that is marked, or returned, as deactivated
\* is deactivated on the ledger (set_did_endpoint, update, deactivate).
THEOREM WalletIsTrue == ASSUME GivenAlone PROVE CD!Spec => [](CD!EndpointPublished /\ CD!FlagIsTrue)
<1>1. ASSUME DidInv PROVE CD!EndpointPublished
  <2>1. \A d \in CD!All : wallet[d] # CD!NoInfo /\ wallet[d].posted = TRUE
           => Was(ledger, d, wallet[d].endpoint)
    BY <1>1 DEF DidInv, True
  <2>2. \A r \in reported : Was(ledger, r.did, r.endpoint)
    BY <1>1 DEF DidInv
  <2>3. \A d : There(ledger, d) => ledger[d] # CD!Nothing
    BY DidKinds DEF There
  <2> QED BY <2>1, <2>2, <2>3 DEF CD!EndpointPublished, Was
<1>2. ASSUME DidInv PROVE CD!FlagIsTrue
  <2>1. /\ \A d \in CD!All : wallet[d] # CD!NoInfo /\ wallet[d].off => Off(ledger, d)
        /\ \A r \in reported : r.op = "deactivate" => Off(ledger, r.did)
    BY <1>2 DEF DidInv, True
  <2>2. \A d : There(ledger, d) => ledger[d] # CD!Nothing
    BY DidKinds DEF There
  <2> QED BY <2>1, <2>2 DEF CD!FlagIsTrue, Off
<1>3. DidInv => CD!EndpointPublished /\ CD!FlagIsTrue
  BY <1>1, <1>2
<1>4. DidInv /\ [CD!Next]_(CD!vars) => DidInv'
  BY DidNext
<1> QED BY <1>3, <1>4, DidInit, PTL DEF CD!Spec
=============================================================================
