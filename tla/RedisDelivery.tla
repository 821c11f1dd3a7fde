---------------------------- MODULE RedisDelivery ----------------------------
(***************************************************************************)
(* The outbound half of the redis_events plugin: agents push messages onto *)
(* the outbound list, and deliverer processes pop them and post them to    *)
(* their endpoints.  A failed post goes to the retry set, a sorted set of  *)
(* the serialized messages, from which the sweep of some deliverer moves   *)
(* it back to the outbound list.                                           *)
(*                                                                         *)
(* Each Redis command is one step.  A command that raises a RedisError may *)
(* have been applied; the deliverer repeats it either way.                 *)
(*                                                                         *)
(* The outbound list is a bag: retries are put behind messages that came   *)
(* later, so no order is promised.  Scores are left out: a sweep may fetch *)
(* any of the waiting messages.                                            *)
(***************************************************************************)
EXTENDS Naturals, FiniteSets

CONSTANTS
    Msgs,         \* messages handed to the outbound transport
    Http,         \* those with an http or https endpoint
    Ws,           \* those with a ws endpoint
    Deliverers,   \* deliverer processes
    MaxRetries,   \* retries of one message: 5 in the code
    RedisFaults,  \* may a Redis command raise an error?
    MaxCopies,    \* bound: copies of one entry on the outbound list
    MaxPosts      \* bound: posts of one message

ASSUME RedisDeliveryAssumption ==
    /\ Http \subseteq Msgs
    /\ Ws \subseteq Msgs \ Http
    /\ MaxRetries \in Nat
    /\ MaxCopies \in Nat
    /\ MaxPosts \in Nat
    /\ RedisFaults \in BOOLEAN

VARIABLES
    offered,    \* messages handed to the outbound transport
    queued,     \* the outbound list: the copies of each entry
    retry,      \* the retry set
    up,         \* the deliverer processes that run
    delivery,   \* what the delivery loop of each deliverer holds
    sweep,      \* what the retry loop of each deliverer holds
    posts,      \* the posts made of each message
    delivered,  \* messages whose post was answered with success
    givenUp     \* messages dropped after the last retry

vars == <<offered, queued, retry, up, delivery, sweep, posts, delivered, givenUp>>

\* A serialized message: its content and how often it was retried.
Entry == [msg : Msgs, retries : 0..MaxRetries]
New(m) == [msg |-> m, retries |-> 0]
Again(e) == [e EXCEPT !.retries = @ + 1]

Idle == [pc |-> "idle"]
Posting(e)  == [pc |-> "post", entry |-> e]
Retrying(e) == [pc |-> "retry", entry |-> e]

\* The rows fetched and not yet dealt with, and those this process has
\* removed without being told so.
NotSweeping   == [pc |-> "idle", rows |-> {}, mine |-> {}]
Removing(R,S) == [pc |-> "remove", rows |-> R, mine |-> S]
Pushing(e, R, S) == [pc |-> "push", entry |-> e, rows |-> R, mine |-> S]

FetchSize == 10

Init ==
    /\ offered = {}
    /\ queued = [e \in Entry |-> 0]
    /\ retry = {}
    /\ up = Deliverers
    /\ delivery = [d \in Deliverers |-> Idle]
    /\ sweep = [d \in Deliverers |-> NotSweeping]
    /\ posts = [m \in Msgs |-> 0]
    /\ delivered = {}
    /\ givenUp = {}

Push(e) == queued[e] < MaxCopies /\ queued' = [queued EXCEPT ![e] = @ + 1]
Hold(d, h) == delivery' = [delivery EXCEPT ![d] = h]
Sweep(d, s) == sweep' = [sweep EXCEPT ![d] = s]

-----------------------------------------------------------------------------
\* handle_message of the outbound transport: an error of rpush is logged and
\* the message forgotten, unless Redis had taken it.
HandleMessage(m) ==
    /\ m \notin offered
    /\ offered' = offered \cup {m}
    /\ \/ Push(New(m))
       \/ RedisFaults /\ UNCHANGED queued
    /\ UNCHANGED <<retry, up, delivery, sweep, posts, delivered, givenUp>>

-----------------------------------------------------------------------------
(***************************************************************************)
(* The delivery loop.                                                      *)
(***************************************************************************)

\* blpop.  If its reply is lost, so is the message.
Pop(d, e) ==
    /\ d \in up /\ delivery[d] = Idle
    /\ queued[e] > 0
    /\ queued' = [queued EXCEPT ![e] = @ - 1]
    /\ \/ Hold(d, Posting(e))
       \/ RedisFaults /\ UNCHANGED delivery
    /\ UNCHANGED <<offered, retry, up, sweep, posts, delivered, givenUp>>

\* Bugs: one retry too few, or one too many.
MayRetryLess(e) == e.retries + 1 < MaxRetries
MayRetryMore(e) == e.retries <= MaxRetries
\* Bug: a retry of a message is not counted.
SameRetries(e) == Retrying(e)

MayRetry(e) == e.retries < MaxRetries
Retried(e)  == Retrying(Again(e))

Posted(m) == posts[m] < MaxPosts /\ posts' = [posts EXCEPT ![m] = @ + 1]

\* The post is answered with success, or the ws endpoint takes the message.
PostSucceeds(d) ==
    /\ d \in up /\ delivery[d].pc = "post"
    /\ LET m == delivery[d].entry.msg
       IN  /\ m \in Http \cup Ws
           /\ Posted(m)
           /\ delivered' = delivered \cup {m}
    /\ Hold(d, Idle)
    /\ UNCHANGED <<offered, queued, retry, up, sweep, givenUp>>

\* It fails or is not answered in time: retried, until the retries are used up.
PostFails(d) ==
    /\ d \in up /\ delivery[d].pc = "post"
    /\ LET e == delivery[d].entry
       IN  /\ e.msg \in Http
           /\ Posted(e.msg)
           /\ IF MayRetry(e)
              THEN Hold(d, Retried(e)) /\ UNCHANGED givenUp
              ELSE Hold(d, Idle) /\ givenUp' = givenUp \cup {e.msg}
    /\ UNCHANGED <<offered, queued, retry, up, sweep, delivered>>

\* The process ends: what its two loops hold is gone.
Stop(d) ==
    /\ up' = up \ {d}
    /\ Hold(d, Idle)
    /\ Sweep(d, NotSweeping)

\* A ws endpoint that cannot be reached raises an error that no one catches.
WsFails(d) ==
    /\ d \in up /\ delivery[d].pc = "post"
    /\ delivery[d].entry.msg \in Ws
    /\ Posted(delivery[d].entry.msg)
    /\ Stop(d)
    /\ UNCHANGED <<offered, queued, retry, delivered, givenUp>>

\* Any other scheme is logged and dropped.
DropUnsupported(d) ==
    /\ d \in up /\ delivery[d].pc = "post"
    /\ delivery[d].entry.msg \notin Http \cup Ws
    /\ Hold(d, Idle)
    /\ UNCHANGED <<offered, queued, retry, up, sweep, posts, delivered, givenUp>>

\* add_retry: zadd until it is acknowledged.
AddRetry(d) ==
    /\ d \in up /\ delivery[d].pc = "retry"
    /\ retry' = retry \cup {delivery[d].entry}
    /\ \/ Hold(d, Idle)
       \/ RedisFaults /\ UNCHANGED delivery
    /\ UNCHANGED <<offered, queued, up, sweep, posts, delivered, givenUp>>

-----------------------------------------------------------------------------
(***************************************************************************)
(* The retry loop.                                                         *)
(***************************************************************************)

\* zrangebyscore: some of the waiting messages, ten at most.
Fetch(d) ==
    /\ d \in up /\ sweep[d].pc = "idle"
    /\ \E R \in SUBSET retry \ {{}} :
          Cardinality(R) <= FetchSize /\ Sweep(d, Removing(R, {}))
    /\ UNCHANGED <<offered, queued, retry, up, delivery, posts, delivered, givenUp>>

\* Bug: the count that zrem returns is not looked at.
AlwaysRemoved(e) == TRUE
Removed(e) == e \in retry

\* zrem.  A count of 0 means that the entry is not there: it is skipped.
Remove(d, e) ==
    /\ d \in up /\ sweep[d].pc = "remove" /\ e \in sweep[d].rows
    /\ LET R == sweep[d].rows \ {e}
           S == sweep[d].mine
       IN  Sweep(d, IF Removed(e) THEN Pushing(e, R, S)
                    ELSE IF R = {} THEN NotSweeping ELSE Removing(R, S))
    /\ retry' = retry \ {e}
    /\ UNCHANGED <<offered, queued, up, delivery, posts, delivered, givenUp>>

\* zrem is applied and its reply lost: it will be tried again.
RemoveUnknowing(d, e) ==
    /\ RedisFaults
    /\ d \in up /\ sweep[d].pc = "remove" /\ e \in sweep[d].rows
    /\ e \in retry
    /\ retry' = retry \ {e}
    /\ Sweep(d, [sweep[d] EXCEPT !.mine = @ \cup {e}])
    /\ UNCHANGED <<offered, queued, up, delivery, posts, delivered, givenUp>>

\* rpush until it is acknowledged.
PushBack(d) ==
    /\ d \in up /\ sweep[d].pc = "push"
    /\ Push(sweep[d].entry)
    /\ LET R == sweep[d].rows
       IN  \/ Sweep(d, IF R = {} THEN NotSweeping ELSE Removing(R, sweep[d].mine))
           \/ RedisFaults /\ UNCHANGED sweep
    /\ UNCHANGED <<offered, retry, up, delivery, posts, delivered, givenUp>>

-----------------------------------------------------------------------------
Crash(d) ==
    /\ d \in up
    /\ Stop(d)
    /\ UNCHANGED <<offered, queued, retry, posts, delivered, givenUp>>

Restart(d) ==
    /\ d \notin up
    /\ up' = up \cup {d}
    /\ UNCHANGED <<offered, queued, retry, delivery, sweep, posts, delivered, givenUp>>

\* What a deliverer does with messages for http endpoints ...
HttpStep(d) ==
    \/ PostSucceeds(d) \/ PostFails(d) \/ AddRetry(d) \/ PushBack(d)
    \/ \E e \in Entry : Remove(d, e)
\* ... and with any.
Step(d) == HttpStep(d) \/ WsFails(d) \/ DropUnsupported(d)

CalmNext ==
    \/ \E m \in Msgs : HandleMessage(m)
    \/ \E d \in Deliverers :
          HttpStep(d) \/ Fetch(d) \/ \E e \in Entry : Pop(d, e)
Next ==
    \/ CalmNext
    \/ \E d \in Deliverers :
          \/ WsFails(d) \/ DropUnsupported(d) \/ Crash(d) \/ Restart(d)
          \/ \E e \in Entry : RemoveUnknowing(d, e)

Spec == Init /\ [][Next]_vars

(***************************************************************************)
(* A loop that has begun goes on.  The list is first in, first out and the *)
(* sweep starts with the lowest score, so no entry is passed over for ever.*)
(***************************************************************************)
FetchOf(d, e) == Fetch(d) /\ e \in sweep'[d].rows

Fairness ==
    /\ \A d \in Deliverers : WF_vars(HttpStep(d)) /\ WF_vars(Fetch(d))
    /\ \A e \in Entry : /\ SF_vars(\E d \in Deliverers : Pop(d, e))
                        /\ SF_vars(\E d \in Deliverers : FetchOf(d, e))

\* All messages are for http endpoints, and no process stops.
FairSpec == Init /\ [][CalmNext]_vars /\ Fairness

-----------------------------------------------------------------------------
(***************************************************************************)
(* Properties.                                                             *)
(***************************************************************************)

\* Every variable has its type.
TypeOK ==
    /\ offered \subseteq Msgs
    /\ queued \in [Entry -> Nat]
    /\ retry \subseteq Entry
    /\ up \subseteq Deliverers
    /\ delivery \in [Deliverers -> {Idle} \cup [pc : {"post", "retry"}, entry : Entry]]
    /\ sweep \in [Deliverers ->
                     [pc : {"idle", "remove"}, rows : SUBSET Entry, mine : SUBSET Entry]
                     \cup [pc : {"push"}, entry : Entry,
                           rows : SUBSET Entry, mine : SUBSET Entry]]
    /\ posts \in [Msgs -> Nat]
    /\ delivered \subseteq Msgs
    /\ givenUp \subseteq Msgs

\* A message is given up only after MaxRetries + 1 posts of it failed, and
\* never when fewer were made: whatever is lost, doubled or stopped, the
\* retries an entry carries were really made.
GivenUpAfterAllPosts == \A m \in givenUp : posts[m] > MaxRetries

\* While Redis answers and no process stops, a message that was taken is in
\* one place: on the list, in the retry set or in one loop of one deliverer,
\* until it is delivered or given up.  Two sweeps that fetch the same row
\* move it once.
Held(m) ==
    {<<"list", e>> : e \in {f \in Entry : f.msg = m /\ queued[f] > 0}}
    \cup {<<"retry", e>> : e \in {f \in retry : f.msg = m}}
    \cup {<<"delivery", d>> : d \in {c \in Deliverers :
                                 delivery[c].pc # "idle" /\ delivery[c].entry.msg = m}}
    \cup {<<"sweep", d>> : d \in {c \in Deliverers :
                                 sweep[c].pc = "push" /\ sweep[c].entry.msg = m}}
Finished == delivered \cup givenUp

OneCopy ==
    /\ \A e \in Entry : queued[e] <= 1
    /\ \A m \in offered : Cardinality(Held(m)) = IF m \in Finished THEN 0 ELSE 1

\* The deliverers together implement the dispatch of each message.
StateOf(m) == IF m \in delivered THEN "delivered"
              ELSE IF m \in givenUp THEN "given_up"
              ELSE IF m \in offered THEN "pending" ELSE "new"
Dispatch == INSTANCE MessageDispatch
                WITH MaxPosts <- MaxRetries + 1, state <- [m \in Msgs |-> StateOf(m)]
ImplementsDispatch == Dispatch!Spec
=============================================================================
