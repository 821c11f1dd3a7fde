-------------------------- MODULE RedisDelivery_proofs --------------------------
(***************************************************************************)
(* Theorems about the outbound delivery, for any number of messages and    *)
(* deliverer processes and any number of retries.                          *)
(***************************************************************************)
EXTENDS RedisDelivery, FiniteSetTheorems, TLAPS

-----------------------------------------------------------------------------
(***************************************************************************)
(* Types.                                                                  *)
(***************************************************************************)
Held1    == [pc : {"post", "retry"}, entry : Entry]
Sweeping == [pc : {"idle", "remove"}, rows : SUBSET Entry, mine : SUBSET Entry]
Moving   == [pc : {"push"}, entry : Entry, rows : SUBSET Entry, mine : SUBSET Entry]

LEMMA Entries ==
    /\ MaxRetries \in Nat
    /\ \A e \in Entry : e.msg \in Msgs /\ e.retries \in 0..MaxRetries
    /\ \A m \in Msgs : New(m) \in Entry /\ New(m).msg = m /\ New(m).retries = 0
    /\ \A e \in Entry : MayRetry(e) =>
          /\ Again(e) \in Entry /\ Again(e).msg = e.msg
          /\ Again(e).retries = e.retries + 1
BY RedisDeliveryAssumption DEF Entry, New, MayRetry, Again

LEMMA Holding ==
    ASSUME TypeOK, NEW d \in Deliverers
    PROVE  /\ delivery[d].pc \in {"idle", "post", "retry"}
           /\ delivery[d].pc = "idle" <=> delivery[d] = Idle
           /\ delivery[d].pc # "idle" => delivery[d].entry \in Entry
           /\ sweep[d].pc \in {"idle", "remove", "push"}
           /\ sweep[d].rows \subseteq Entry /\ sweep[d].mine \subseteq Entry
           /\ sweep[d].pc = "push" => sweep[d].entry \in Entry
BY DEF TypeOK, Idle

LEMMA HoldTypes ==
    ASSUME TypeOK, NEW d \in Deliverers, NEW h \in {Idle} \cup Held1, Hold(d, h)
    PROVE  /\ delivery' \in [Deliverers -> {Idle} \cup Held1]
           /\ delivery'[d] = h
           /\ \A c \in Deliverers \ {d} : delivery'[c] = delivery[c]
BY DEF TypeOK, Hold, Held1

LEMMA SweepTypes ==
    ASSUME TypeOK, NEW d \in Deliverers, NEW s \in Sweeping \cup Moving, Sweep(d, s)
    PROVE  /\ sweep' \in [Deliverers -> Sweeping \cup Moving]
           /\ sweep'[d] = s
           /\ \A c \in Deliverers \ {d} : sweep'[c] = sweep[c]
BY DEF TypeOK, Sweep, Sweeping, Moving

LEMMA HoldMakes ==
    ASSUME NEW e \in Entry
    PROVE  /\ Posting(e) \in Held1 /\ Posting(e).pc = "post" /\ Posting(e).entry = e
           /\ Retrying(e) \in Held1 /\ Retrying(e).pc = "retry" /\ Retrying(e).entry = e
BY DEF Posting, Retrying, Held1

LEMMA SweepMakes ==
    ASSUME NEW R \in SUBSET Entry, NEW S \in SUBSET Entry
    PROVE  /\ NotSweeping \in Sweeping /\ NotSweeping.pc = "idle"
           /\ Removing(R, S) \in Sweeping /\ Removing(R, S).pc = "remove"
           /\ \A e \in Entry : /\ Pushing(e, R, S) \in Moving
                               /\ Pushing(e, R, S).pc = "push"
                               /\ Pushing(e, R, S).entry = e
BY DEF NotSweeping, Removing, Pushing, Sweeping, Moving

LEMMA PushTypes ==
    ASSUME TypeOK, NEW e \in Entry, Push(e)
    PROVE  /\ queued' \in [Entry -> Nat] /\ queued'[e] = queued[e] + 1
           /\ \A f \in Entry \ {e} : queued'[f] = queued[f]
BY DEF TypeOK, Push

LEMMA PostedTypes ==
    ASSUME TypeOK, NEW m \in Msgs, Posted(m)
    PROVE  /\ posts' \in [Msgs -> Nat] /\ posts'[m] = posts[m] + 1
           /\ \A n \in Msgs \ {m} : posts'[n] = posts[n]
BY DEF TypeOK, Posted

-----------------------------------------------------------------------------
(***************************************************************************)
(* The retries an entry carries were made.                                 *)
(***************************************************************************)
\* The entry e is somewhere: on the list, in the retry set or in a loop.
Carried(e) ==
    \/ queued[e] > 0 \/ e \in retry
    \/ \E d \in Deliverers : delivery[d].pc # "idle" /\ delivery[d].entry = e
    \/ \E d \in Deliverers : sweep[d].pc = "push" /\ sweep[d].entry = e

RetriesMade == \A e \in Entry : Carried(e) => posts[e.msg] >= e.retries

SafeInv == TypeOK /\ RetriesMade /\ GivenUpAfterAllPosts

LEMMA InitSafe == Init => SafeInv
<1> SUFFICES ASSUME Init PROVE SafeInv
  OBVIOUS
<1>1. TypeOK
  BY DEF Init, TypeOK, Idle, NotSweeping
<1>2. \A e \in Entry : ~ Carried(e)
  BY DEF Init, Carried, Idle, NotSweeping
<1> QED BY <1>1, <1>2 DEF Init, SafeInv, RetriesMade, GivenUpAfterAllPosts

\* A step that brings no entry anywhere whose retries were not made.
LEMMA SafeKeeps ==
    ASSUME SafeInv, TypeOK', UNCHANGED posts,
           \A e \in Entry : Carried(e)' => Carried(e), givenUp' = givenUp
    PROVE  SafeInv'
BY DEF SafeInv, RetriesMade, GivenUpAfterAllPosts

\* A step that may post a message once more.
LEMMA SafePosts ==
    ASSUME SafeInv, TypeOK', NEW m \in Msgs, Posted(m),
           \A e \in Entry : Carried(e)' =>
                             Carried(e) \/ (e.msg = m /\ e.retries <= posts'[m]),
           \A n \in givenUp' : n \in givenUp \/ posts'[n] > MaxRetries
    PROVE  SafeInv'
<1>1. /\ posts' \in [Msgs -> Nat] /\ posts \in [Msgs -> Nat]
      /\ \A n \in Msgs : posts'[n] >= posts[n]
  BY PostedTypes DEF SafeInv, TypeOK
<1>2. \A e \in Entry : e.msg \in Msgs /\ e.retries \in Nat
  BY Entries
<1>3. RetriesMade'
  BY <1>1, <1>2 DEF SafeInv, RetriesMade
<1>4. givenUp \subseteq Msgs
  BY DEF SafeInv, TypeOK
<1>5. GivenUpAfterAllPosts'
  BY <1>1, <1>4, Entries DEF SafeInv, GivenUpAfterAllPosts
<1> QED BY <1>3, <1>5 DEF SafeInv

LEMMA HandleMessageSafe ==
    ASSUME SafeInv, NEW m \in Msgs, HandleMessage(m)
    PROVE  SafeInv'
<1>1. TypeOK /\ New(m) \in Entry
  BY Entries DEF SafeInv
<1>2. TypeOK'
  BY <1>1, PushTypes DEF HandleMessage, TypeOK
<1>3. \A e \in Entry \ {New(m)} : Carried(e)' => Carried(e)
  BY <1>1, PushTypes DEF HandleMessage, Carried
<1>4. New(m).retries = 0 /\ New(m).msg = m /\ posts'[m] \in Nat
  BY <1>2, Entries DEF TypeOK
<1>5. GivenUpAfterAllPosts'
  BY DEF HandleMessage, SafeInv, GivenUpAfterAllPosts
<1>6. RetriesMade'
  <2>1. posts' = posts
    BY DEF HandleMessage
  <2> QED BY <1>3, <1>4, <2>1 DEF SafeInv, RetriesMade
<1> QED BY <1>2, <1>5, <1>6 DEF SafeInv

LEMMA PopSafe ==
    ASSUME SafeInv, NEW d \in Deliverers, NEW e \in Entry, Pop(d, e)
    PROVE  SafeInv'
<1>1. TypeOK /\ UNCHANGED <<offered, retry, up, sweep, posts, delivered, givenUp>>
  BY DEF SafeInv, Pop
<1>2. /\ queued' \in [Entry -> Nat] /\ \A f \in Entry : queued'[f] > 0 => queued[f] > 0
      /\ queued[e] > 0
  BY <1>1 DEF Pop, TypeOK
<1>3. /\ delivery' \in [Deliverers -> {Idle} \cup Held1]
      /\ \A c \in Deliverers : delivery'[c] = delivery[c] \/ delivery'[c].entry = e
  <2>1. CASE Hold(d, Posting(e))
    BY <1>1, <2>1, HoldMakes, HoldTypes
  <2>2. CASE UNCHANGED delivery
    BY <1>1, <2>2 DEF TypeOK, Held1
  <2> QED BY <2>1, <2>2 DEF Pop
<1>4. TypeOK'
  BY <1>1, <1>2, <1>3 DEF TypeOK, Held1
<1>5. \A f \in Entry : Carried(f)' => Carried(f)
  BY <1>1, <1>2, <1>3 DEF Carried
<1> QED BY <1>1, <1>4, <1>5, SafeKeeps

\* A loop of a deliverer goes idle, or keeps its entry.
LEMMA HoldSafe ==
    ASSUME SafeInv, NEW d \in Deliverers, NEW h \in {Idle} \cup Held1,
           \/ Hold(d, h) /\ (h = Idle \/ Carried(h.entry))
           \/ UNCHANGED delivery,
           UNCHANGED <<offered, queued, sweep, posts, givenUp>>,
           retry' \subseteq Entry, \A e \in retry' : Carried(e),
           up' \subseteq Deliverers, delivered' \subseteq Msgs
    PROVE  SafeInv'
<1>1. TypeOK
  BY DEF SafeInv
<1>2. /\ delivery' \in [Deliverers -> {Idle} \cup Held1]
      /\ \A c \in Deliverers : \/ delivery'[c] = delivery[c] \/ delivery'[c] = Idle
                               \/ Carried(delivery'[c].entry)
  <2>1. CASE UNCHANGED delivery
    BY <1>1, <2>1 DEF TypeOK, Held1
  <2>2. CASE ~ UNCHANGED delivery
    BY <1>1, <2>2, HoldTypes
  <2> QED BY <2>1, <2>2
<1>3. TypeOK'
  BY <1>1, <1>2 DEF TypeOK, Held1
<1>4. ASSUME NEW f \in Entry, Carried(f)'
      PROVE  Carried(f)
  <2>1. Idle.pc = "idle"
    BY DEF Idle
  <2>3. CASE queued'[f] > 0 \/ f \in retry'
    BY <2>3 DEF Carried
  <2>4. CASE \E c \in Deliverers : delivery'[c].pc # "idle" /\ delivery'[c].entry = f
    <3>1. PICK c \in Deliverers : delivery'[c].pc # "idle" /\ delivery'[c].entry = f
      BY <2>4
    <3>2. CASE delivery'[c] = delivery[c]
      BY <3>1, <3>2 DEF Carried
    <3> QED BY <1>2, <2>1, <3>1, <3>2
  <2>5. CASE \E c \in Deliverers : sweep'[c].pc = "push" /\ sweep'[c].entry = f
    BY <2>5 DEF Carried
  <2> QED BY <1>4, <2>3, <2>4, <2>5 DEF Carried
<1> QED BY <1>3, <1>4, SafeKeeps

LEMMA CarriedWhere ==
    ASSUME TypeOK, NEW d \in Deliverers
    PROVE  /\ delivery[d].pc # "idle" => Carried(delivery[d].entry)
           /\ sweep[d].pc = "push" => Carried(sweep[d].entry)
           /\ \A e \in retry : Carried(e)
BY DEF Carried

LEMMA DropSafe ==
    ASSUME SafeInv, NEW d \in Deliverers, DropUnsupported(d)
    PROVE  SafeInv'
<1>1. /\ Hold(d, Idle) /\ TypeOK
      /\ UNCHANGED <<offered, queued, retry, up, sweep, posts, delivered, givenUp>>
  BY DEF SafeInv, DropUnsupported
<1>2. retry \subseteq Entry /\ up \subseteq Deliverers /\ delivered \subseteq Msgs
  BY <1>1 DEF TypeOK
<1> QED BY <1>1, <1>2, CarriedWhere, HoldSafe

LEMMA AddRetrySafe ==
    ASSUME SafeInv, NEW d \in Deliverers, AddRetry(d)
    PROVE  SafeInv'
<1> DEFINE e == delivery[d].entry
<1>1. /\ TypeOK /\ delivery[d].pc = "retry" /\ retry' = retry \cup {e}
      /\ Hold(d, Idle) \/ UNCHANGED delivery
      /\ UNCHANGED <<offered, queued, up, sweep, posts, delivered, givenUp>>
  BY DEF SafeInv, AddRetry
<1>2. e \in Entry /\ Carried(e)
  BY <1>1, Holding, CarriedWhere
<1>3. retry \subseteq Entry /\ up \subseteq Deliverers /\ delivered \subseteq Msgs
  BY <1>1 DEF TypeOK
<1>4. \A f \in retry' : f \in Entry /\ Carried(f)
  BY <1>1, <1>2, <1>3, CarriedWhere
<1> HIDE DEF e
<1> QED BY <1>1, <1>3, <1>4, HoldSafe

\* A post that ends what the delivery loop holds, or makes it a retry.
LEMMA PostSafe ==
    ASSUME SafeInv, NEW d \in Deliverers, delivery[d].pc = "post",
           Posted(delivery[d].entry.msg),
           \/ Hold(d, Idle)
           \/ MayRetry(delivery[d].entry) /\ Hold(d, Retried(delivery[d].entry)),
           UNCHANGED <<offered, queued, retry>>,
           sweep' \in [Deliverers -> Sweeping \cup Moving],
           \A c \in Deliverers : sweep'[c] = sweep[c] \/ sweep'[c] = NotSweeping,
           up' \subseteq up, delivered' \subseteq Msgs,
           \/ givenUp' = givenUp
           \/ /\ ~ MayRetry(delivery[d].entry)
              /\ givenUp' = givenUp \cup {delivery[d].entry.msg}
    PROVE  SafeInv'
<1> DEFINE e == delivery[d].entry
<1>1. TypeOK /\ e \in Entry /\ e.msg \in Msgs /\ e.retries \in 0..MaxRetries
  BY Holding, Entries DEF SafeInv
<1>2. posts[e.msg] >= e.retries /\ posts[e.msg] \in Nat
  BY <1>1, CarriedWhere DEF SafeInv, RetriesMade, TypeOK
<1>3. posts' \in [Msgs -> Nat] /\ posts'[e.msg] = posts[e.msg] + 1
  BY <1>1, PostedTypes
<1> HIDE DEF e
<1>4. PICK h \in {Idle} \cup Held1 :
         /\ Hold(d, h)
         /\ \/ h = Idle
            \/ h.entry \in Entry /\ h.entry.msg = e.msg /\ h.entry.retries = e.retries + 1
  <2>1. CASE Hold(d, Idle)
    BY <2>1
  <2>2. CASE MayRetry(e) /\ Hold(d, Retried(e))
    <3>1. /\ Again(e) \in Entry /\ Again(e).msg = e.msg
          /\ Again(e).retries = e.retries + 1
      BY <1>1, <2>2, Entries
    <3> QED BY <2>2, <3>1, HoldMakes DEF Retried
  <2> QED BY <2>1, <2>2 DEF e
<1>5. /\ delivery' \in [Deliverers -> {Idle} \cup Held1] /\ delivery'[d] = h
      /\ \A c \in Deliverers \ {d} : delivery'[c] = delivery[c]
  BY <1>1, <1>4, HoldTypes
<1>6. givenUp' \subseteq Msgs
  BY <1>1 DEF TypeOK, e
<1>7. TypeOK'
  BY <1>1, <1>3, <1>5, <1>6 DEF TypeOK, Held1, Sweeping, Moving
<1>8. ASSUME NEW f \in Entry, Carried(f)'
      PROVE  Carried(f) \/ (f.msg = e.msg /\ f.retries <= posts'[e.msg])
  <2> SUFFICES ASSUME ~ Carried(f)
               PROVE  f.msg = e.msg /\ f.retries <= posts'[e.msg]
    OBVIOUS
  <2>1. Idle.pc = "idle" /\ NotSweeping.pc = "idle"
    BY DEF Idle, NotSweeping
  <2>2. h # Idle => h.entry.msg = e.msg /\ h.entry.retries <= posts'[e.msg]
    BY <1>1, <1>2, <1>3, <1>4
  <2>3. ~ (queued'[f] > 0 \/ f \in retry')
    BY <1>8 DEF Carried
  <2>4. ~ \E c \in Deliverers : sweep'[c].pc = "push" /\ sweep'[c].entry = f
    BY <1>8, <2>1 DEF Carried
  <2>5. PICK c \in Deliverers : delivery'[c].pc # "idle" /\ delivery'[c].entry = f
    BY <1>8, <2>3, <2>4 DEF Carried
  <2>6. c = d
    BY <1>5, <1>8, <2>5 DEF Carried
  <2> QED BY <1>5, <2>1, <2>2, <2>5, <2>6
<1>9. \A n \in givenUp' : n \in givenUp \/ posts'[n] > MaxRetries
  <2>1. ~ MayRetry(e) => posts'[e.msg] > MaxRetries
    BY <1>1, <1>2, <1>3, Entries DEF MayRetry
  <2> QED BY <2>1 DEF e
<1>10. Posted(e.msg)
  BY DEF e
<1> QED BY <1>1, <1>7, <1>8, <1>9, <1>10, SafePosts

LEMMA PostSucceedsSafe ==
    ASSUME SafeInv, NEW d \in Deliverers, PostSucceeds(d)
    PROVE  SafeInv'
<1>1. TypeOK /\ delivery[d].pc = "post"
  BY DEF SafeInv, PostSucceeds
<1>2. delivery[d].entry.msg \in Msgs
  BY <1>1, Holding, Entries
<1>3. delivered' \subseteq Msgs /\ sweep' \in [Deliverers -> Sweeping \cup Moving]
  BY <1>1, <1>2 DEF PostSucceeds, TypeOK, Sweeping, Moving
<1> QED BY <1>1, <1>3, PostSafe DEF PostSucceeds

LEMMA PostFailsSafe ==
    ASSUME SafeInv, NEW d \in Deliverers, PostFails(d)
    PROVE  SafeInv'
<1>1. TypeOK /\ delivery[d].pc = "post"
  BY DEF SafeInv, PostFails
<1>2. delivered' \subseteq Msgs /\ sweep' \in [Deliverers -> Sweeping \cup Moving]
  BY <1>1 DEF PostFails, TypeOK, Sweeping, Moving
<1> QED BY <1>1, <1>2, PostSafe DEF PostFails

LEMMA StopTypes ==
    ASSUME TypeOK, NEW d \in Deliverers, Stop(d)
    PROVE  /\ Hold(d, Idle) /\ up' \subseteq up
           /\ sweep' \in [Deliverers -> Sweeping \cup Moving]
           /\ \A c \in Deliverers : sweep'[c] = sweep[c] \/ sweep'[c] = NotSweeping
BY SweepTypes, SweepMakes DEF Stop

LEMMA WsFailsSafe ==
    ASSUME SafeInv, NEW d \in Deliverers, WsFails(d)
    PROVE  SafeInv'
<1>1. TypeOK /\ delivered' \subseteq Msgs
  BY DEF SafeInv, WsFails, TypeOK
<1> QED BY <1>1, StopTypes, PostSafe DEF WsFails

\* The retry loop of a deliverer changes what it holds, or where it puts it.
LEMMA SweepSafe ==
    ASSUME SafeInv, NEW d \in Deliverers, NEW s \in Sweeping \cup Moving,
           \/ Sweep(d, s) /\ (s.pc = "push" => Carried(s.entry))
           \/ UNCHANGED sweep,
           UNCHANGED <<offered, up, delivery, posts, delivered, givenUp>>,
           retry' \subseteq retry, queued' \in [Entry -> Nat],
           \A e \in Entry : queued'[e] > 0 => Carried(e)
    PROVE  SafeInv'
<1>1. TypeOK
  BY DEF SafeInv
<1>2. /\ sweep' \in [Deliverers -> Sweeping \cup Moving]
      /\ \A c \in Deliverers : \/ sweep'[c] = sweep[c]
                               \/ sweep'[c].pc = "push" => Carried(sweep'[c].entry)
  <2>1. CASE UNCHANGED sweep
    BY <1>1, <2>1 DEF TypeOK, Sweeping, Moving
  <2>2. CASE ~ UNCHANGED sweep
    BY <1>1, <2>2, SweepTypes
  <2> QED BY <2>1, <2>2
<1>3. TypeOK'
  BY <1>1, <1>2 DEF TypeOK, Sweeping, Moving
<1>4. ASSUME NEW f \in Entry, Carried(f)'
      PROVE  Carried(f)
  <2>1. CASE queued'[f] > 0 \/ f \in retry'
    BY <2>1 DEF Carried
  <2>2. CASE \E c \in Deliverers : delivery'[c].pc # "idle" /\ delivery'[c].entry = f
    BY <2>2 DEF Carried
  <2>3. CASE \E c \in Deliverers : sweep'[c].pc = "push" /\ sweep'[c].entry = f
    <3>1. PICK c \in Deliverers : sweep'[c].pc = "push" /\ sweep'[c].entry = f
      BY <2>3
    <3>2. CASE sweep'[c] = sweep[c]
      BY <3>1, <3>2 DEF Carried
    <3> QED BY <1>2, <3>1, <3>2
  <2> QED BY <1>4, <2>1, <2>2, <2>3 DEF Carried
<1> QED BY <1>3, <1>4, SafeKeeps

LEMMA FetchSafe ==
    ASSUME SafeInv, NEW d \in Deliverers, Fetch(d)
    PROVE  SafeInv'
<1>1. PICK R \in SUBSET retry : Sweep(d, Removing(R, {}))
  BY DEF Fetch
<1>2. TypeOK /\ R \in SUBSET Entry /\ {} \in SUBSET Entry
  BY DEF SafeInv, TypeOK
<1>3. Removing(R, {}) \in Sweeping /\ Removing(R, {}).pc = "remove"
  BY <1>2, SweepMakes
<1>4. /\ UNCHANGED <<offered, queued, retry, up, delivery, posts, delivered, givenUp>>
      /\ queued \in [Entry -> Nat] /\ \A e \in Entry : queued[e] > 0 => Carried(e)
  BY <1>2 DEF Fetch, Carried, TypeOK
<1> QED BY <1>1, <1>3, <1>4, SweepSafe

LEMMA RemoveSafe ==
    ASSUME SafeInv, NEW d \in Deliverers, NEW e \in Entry, Remove(d, e)
    PROVE  SafeInv'
<1> DEFINE R == sweep[d].rows \ {e}
           S == sweep[d].mine
           s == IF Removed(e) THEN Pushing(e, R, S)
                ELSE IF R = {} THEN NotSweeping ELSE Removing(R, S)
<1>1. TypeOK /\ Sweep(d, s) /\ retry' = retry \ {e}
  BY DEF SafeInv, Remove
<1>2. R \in SUBSET Entry /\ S \in SUBSET Entry
  BY <1>1, Holding
<1>3. s \in Sweeping \cup Moving /\ (s.pc = "push" => Carried(s.entry))
  <2>1. CASE Removed(e)
    BY <1>2, <2>1, SweepMakes DEF Removed, Carried
  <2>2. CASE ~ Removed(e)
    BY <1>2, <2>2, SweepMakes
  <2> QED BY <2>1, <2>2
<1> HIDE DEF s
<1>4. /\ UNCHANGED <<offered, queued, up, delivery, posts, delivered, givenUp>>
      /\ queued \in [Entry -> Nat] /\ \A f \in Entry : queued[f] > 0 => Carried(f)
  BY <1>1 DEF Remove, Carried, TypeOK
<1> QED BY <1>1, <1>3, <1>4, SweepSafe

LEMMA RemoveUnknowingSafe ==
    ASSUME SafeInv, NEW d \in Deliverers, NEW e \in Entry, RemoveUnknowing(d, e)
    PROVE  SafeInv'
<1> DEFINE s == [sweep[d] EXCEPT !.mine = @ \cup {e}]
<1>1. /\ TypeOK /\ Sweep(d, s) /\ retry' = retry \ {e} /\ sweep[d].pc = "remove"
  BY DEF SafeInv, RemoveUnknowing
<1>2. s \in Sweeping /\ s.pc = "remove"
  BY <1>1 DEF TypeOK, Sweeping
<1> HIDE DEF s
<1>3. /\ UNCHANGED <<offered, queued, up, delivery, posts, delivered, givenUp>>
      /\ queued \in [Entry -> Nat] /\ \A f \in Entry : queued[f] > 0 => Carried(f)
  BY <1>1 DEF RemoveUnknowing, Carried, TypeOK
<1> QED BY <1>1, <1>2, <1>3, SweepSafe

LEMMA PushBackSafe ==
    ASSUME SafeInv, NEW d \in Deliverers, PushBack(d)
    PROVE  SafeInv'
<1> DEFINE R == sweep[d].rows
           S == sweep[d].mine
           s == IF R = {} THEN NotSweeping ELSE Removing(R, S)
           e == sweep[d].entry
<1>1. /\ TypeOK /\ sweep[d].pc = "push" /\ Push(e)
      /\ Sweep(d, s) \/ UNCHANGED sweep
      /\ UNCHANGED <<offered, retry, up, delivery, posts, delivered, givenUp>>
  BY DEF SafeInv, PushBack
<1>2. R \in SUBSET Entry /\ S \in SUBSET Entry /\ e \in Entry /\ Carried(e)
  BY <1>1, Holding, CarriedWhere
<1>3. s \in Sweeping /\ s.pc # "push"
  BY <1>2, SweepMakes
<1> HIDE DEF s, e
<1>4. /\ queued' \in [Entry -> Nat]
      /\ \A f \in Entry : queued'[f] > 0 => Carried(f)
  BY <1>1, <1>2, PushTypes DEF Carried
<1> QED BY <1>1, <1>3, <1>4, SweepSafe

LEMMA CrashSafe ==
    ASSUME SafeInv, NEW d \in Deliverers, Crash(d)
    PROVE  SafeInv'
<1>1. /\ TypeOK /\ Hold(d, Idle) /\ up' \subseteq up
      /\ sweep' \in [Deliverers -> Sweeping \cup Moving]
      /\ \A c \in Deliverers : sweep'[c] = sweep[c] \/ sweep'[c] = NotSweeping
      /\ UNCHANGED <<offered, queued, retry, posts, delivered, givenUp>>
  BY StopTypes DEF SafeInv, Crash
<1>2. /\ delivery' \in [Deliverers -> {Idle} \cup Held1]
      /\ \A c \in Deliverers : delivery'[c] = delivery[c] \/ delivery'[c] = Idle
  BY <1>1, HoldTypes
<1>3. TypeOK'
  BY <1>1, <1>2 DEF TypeOK, Held1, Sweeping, Moving
<1>4. \A f \in Entry : Carried(f)' => Carried(f)
  <2>1. Idle.pc = "idle" /\ NotSweeping.pc = "idle"
    BY DEF Idle, NotSweeping
  <2> QED BY <1>1, <1>2, <2>1 DEF Carried
<1> QED BY <1>1, <1>3, <1>4, SafeKeeps

LEMMA RestartSafe ==
    ASSUME SafeInv, NEW d \in Deliverers, Restart(d)
    PROVE  SafeInv'
<1>1. TypeOK'
  BY DEF SafeInv, Restart, TypeOK
<1>2. \A f \in Entry : Carried(f)' => Carried(f)
  BY DEF Restart, Carried
<1> QED BY <1>1, <1>2, SafeKeeps DEF Restart

LEMMA CalmSafe == SafeInv /\ CalmNext => SafeInv'
<1> SUFFICES ASSUME SafeInv, CalmNext PROVE SafeInv'
  OBVIOUS
<1>1. ASSUME NEW m \in Msgs, HandleMessage(m) PROVE SafeInv'
  BY <1>1, HandleMessageSafe
<1>2. ASSUME NEW d \in Deliverers,
             HttpStep(d) \/ Fetch(d) \/ \E e \in Entry : Pop(d, e)
      PROVE  SafeInv'
  BY <1>2, PostSucceedsSafe, PostFailsSafe, AddRetrySafe, PushBackSafe, RemoveSafe,
     FetchSafe, PopSafe DEF HttpStep
<1> QED BY <1>1, <1>2 DEF CalmNext

LEMMA NextSafe == SafeInv /\ [Next]_vars => SafeInv'
<1> SUFFICES ASSUME SafeInv, [Next]_vars PROVE SafeInv'
  OBVIOUS
<1>1. ASSUME NEW d \in Deliverers,
             \/ WsFails(d) \/ DropUnsupported(d) \/ Crash(d) \/ Restart(d)
             \/ \E e \in Entry : RemoveUnknowing(d, e)
      PROVE  SafeInv'
  BY <1>1, WsFailsSafe, DropSafe, CrashSafe, RestartSafe, RemoveUnknowingSafe
<1>2. CASE UNCHANGED vars
  BY <1>2 DEF vars, SafeInv, TypeOK, RetriesMade, Carried, GivenUpAfterAllPosts
<1> QED BY <1>1, <1>2, CalmSafe DEF Next

\* Every variable keeps its type, whatever is lost or stopped (deliver.py).
THEOREM TypeCorrect == Spec => []TypeOK
<1>1. SafeInv => TypeOK
  BY DEF SafeInv
<1> QED BY <1>1, InitSafe, NextSafe, PTL DEF Spec

\* No message is given up before the last of its posts failed: crashes, lost
\* replies and sweeps of several deliverers never make an entry carry more
\* retries than were made (deliver.py, process_delivery and process_retries).
THEOREM GivenUpLate == Spec => []GivenUpAfterAllPosts
<1>1. SafeInv => GivenUpAfterAllPosts
  BY DEF SafeInv
<1> QED BY <1>1, InitSafe, NextSafe, PTL DEF Spec

-----------------------------------------------------------------------------
(***************************************************************************)
(* While Redis answers and no process stops: one copy of every message.    *)
(***************************************************************************)
\* The places of a message: on the list, where the entries q are, in the retry
\* set r, with the deliverers h, and with their sweeps w.
OnList(m, q)    == {<<"list", e>> : e \in {f \in q : f.msg = m}}
InRetry(m, r)   == {<<"retry", e>> : e \in {f \in r : f.msg = m}}
AtLoop(m, h)    == {<<"delivery", d>> : d \in {c \in Deliverers :
                                          h[c].pc # "idle" /\ h[c].entry.msg = m}}
AtSweep(m, w)   == {<<"sweep", d>> : d \in {c \in Deliverers :
                                          w[c].pc = "push" /\ w[c].entry.msg = m}}
Listed == {e \in Entry : queued[e] > 0}

LEMMA HeldParts ==
    ASSUME NEW m
    PROVE  Held(m) = OnList(m, Listed) \cup InRetry(m, retry)
                     \cup AtLoop(m, delivery) \cup AtSweep(m, sweep)
BY DEF Held, OnList, InRetry, AtLoop, AtSweep, Listed

LEMMA HeldPartsNext ==
    ASSUME NEW m
    PROVE  Held(m)' = OnList(m, Listed') \cup InRetry(m, retry')
                      \cup AtLoop(m, delivery') \cup AtSweep(m, sweep')
BY DEF Held, OnList, InRetry, AtLoop, AtSweep, Listed

\* What is in each part.
LEMMA Places ==
    /\ \A m, q, x : x \in OnList(m, q) <=>
          \E e \in q : x = <<"list", e>> /\ e.msg = m
    /\ \A m, r, x : x \in InRetry(m, r) <=>
          \E e \in r : x = <<"retry", e>> /\ e.msg = m
    /\ \A m, h, x : x \in AtLoop(m, h) <=>
          \E d \in Deliverers :
             x = <<"delivery", d>> /\ h[d].pc # "idle" /\ h[d].entry.msg = m
    /\ \A m, w, x : x \in AtSweep(m, w) <=>
          \E d \in Deliverers :
             x = <<"sweep", d>> /\ w[d].pc = "push" /\ w[d].entry.msg = m
BY DEF OnList, InRetry, AtLoop, AtSweep

Pending == offered \ Finished

\* A message that is pending is in one place, and any other in none; an entry
\* carries the retries that were made, no more and no less.
OneInv ==
    /\ \A m \in Pending : \E x : Held(m) = {x}
    /\ \A m \in Msgs \ Pending : Held(m) = {}
    /\ Finished \subseteq offered
    /\ \A e \in Entry : queued[e] <= 1
    /\ \A e \in Entry : Carried(e) => posts[e.msg] = e.retries
    /\ \A m \in Msgs \ offered : posts[m] = 0

LEMMA InListed == /\ \A e \in Entry : e \in Listed <=> queued[e] > 0
                  /\ \A e \in Entry : e \in Listed' <=> queued'[e] > 0
BY DEF Listed

\* An entry that is carried is of a pending message.
LEMMA CarriedHeld ==
    ASSUME TypeOK, NEW e \in Entry, Carried(e)
    PROVE  /\ queued[e] > 0 => <<"list", e>> \in Held(e.msg)
           /\ e \in retry => <<"retry", e>> \in Held(e.msg)
           /\ \A d \in Deliverers :
                 /\ delivery[d].pc # "idle" /\ delivery[d].entry = e
                       => <<"delivery", d>> \in Held(e.msg)
                 /\ sweep[d].pc = "push" /\ sweep[d].entry = e
                       => <<"sweep", d>> \in Held(e.msg)
BY HeldParts, Places, InListed

LEMMA CarriedHeldNext ==
    ASSUME NEW e \in Entry, Carried(e)'
    PROVE  /\ queued'[e] > 0 => <<"list", e>> \in Held(e.msg)'
           /\ e \in retry' => <<"retry", e>> \in Held(e.msg)'
           /\ \A d \in Deliverers :
                 /\ delivery'[d].pc # "idle" /\ delivery'[d].entry = e
                       => <<"delivery", d>> \in Held(e.msg)'
                 /\ sweep'[d].pc = "push" /\ sweep'[d].entry = e
                       => <<"sweep", d>> \in Held(e.msg)'
BY HeldPartsNext, Places, InListed

\* A message that is in one place only is not in the other parts.
LEMMA OnePart ==
    ASSUME NEW m, NEW x, Held(m) = {x}
    PROVE  /\ x[1] # "list" => OnList(m, Listed) = {}
           /\ x[1] # "retry" => InRetry(m, retry) = {}
           /\ x[1] # "delivery" => AtLoop(m, delivery) = {}
           /\ x[1] # "sweep" => AtSweep(m, sweep) = {}
<1>1. /\ \A y \in OnList(m, Listed) : y[1] = "list" /\ y \in Held(m)
      /\ \A y \in InRetry(m, retry) : y[1] = "retry" /\ y \in Held(m)
      /\ \A y \in AtLoop(m, delivery) : y[1] = "delivery" /\ y \in Held(m)
      /\ \A y \in AtSweep(m, sweep) : y[1] = "sweep" /\ y \in Held(m)
  BY HeldParts, Places
<1> QED BY <1>1

\* How the parts move.
LEMMA LoopMoves ==
    ASSUME TypeOK, NEW d \in Deliverers, NEW h \in {Idle} \cup Held1, Hold(d, h), NEW n
    PROVE  AtLoop(n, delivery') =
              (AtLoop(n, delivery) \ {<<"delivery", d>>})
              \cup (IF h.pc # "idle" /\ h.entry.msg = n THEN {<<"delivery", d>>} ELSE {})
BY HoldTypes, Places

LEMMA SweepMoves ==
    ASSUME TypeOK, NEW d \in Deliverers, NEW s \in Sweeping \cup Moving, Sweep(d, s), NEW n
    PROVE  AtSweep(n, sweep') =
              (AtSweep(n, sweep) \ {<<"sweep", d>>})
              \cup (IF s.pc = "push" /\ s.entry.msg = n THEN {<<"sweep", d>>} ELSE {})
BY SweepTypes, Places

LEMMA ListedPush ==
    ASSUME TypeOK, NEW e \in Entry, Push(e)
    PROVE  Listed' = Listed \cup {e}
BY PushTypes DEF TypeOK, Listed

LEMMA ListGrows ==
    ASSUME NEW e, Listed' = Listed \cup {e}, NEW n
    PROVE  OnList(n, Listed') =
              OnList(n, Listed) \cup (IF e.msg = n THEN {<<"list", e>>} ELSE {})
BY Places

LEMMA ListShrinks ==
    ASSUME NEW e, Listed' = Listed \ {e}, NEW n
    PROVE  OnList(n, Listed') = OnList(n, Listed) \ {<<"list", e>>}
BY Places

LEMMA RetryGrows ==
    ASSUME NEW e, retry' = retry \cup {e}, NEW n
    PROVE  InRetry(n, retry') =
              InRetry(n, retry) \cup (IF e.msg = n THEN {<<"retry", e>>} ELSE {})
BY Places

LEMMA RetryShrinks ==
    ASSUME NEW e, retry' = retry \ {e}, NEW n
    PROVE  InRetry(n, retry') = InRetry(n, retry) \ {<<"retry", e>>}
BY Places

\* The place of a message, when it is known to be there.
LEMMA OnlyPlace ==
    ASSUME OneInv, NEW m \in Msgs, NEW x, x \in Held(m)
    PROVE  Held(m) = {x} /\ m \in Pending
BY DEF OneInv

\* A step that moves pending messages and makes no post keeps OneInv.
LEMMA MoveKeeps ==
    ASSUME TypeOK, OneInv,
           \A n \in Msgs : \/ Held(n)' = Held(n)
                           \/ n \in Pending /\ \E y : Held(n)' = {y},
           UNCHANGED <<offered, delivered, givenUp, posts>>,
           \A e \in Entry : queued'[e] <= 1,
           \A e \in Entry : Carried(e)' => Carried(e)
    PROVE  OneInv'
<1>1. Pending' = Pending /\ Finished' = Finished /\ Pending \subseteq Msgs
  BY DEF Pending, Finished, TypeOK
<1>2. \A n \in Pending' : \E x : Held(n)' = {x}
  BY <1>1 DEF OneInv
<1>3. \A n \in Msgs \ Pending' : Held(n)' = {}
  BY <1>1 DEF OneInv
<1> QED BY <1>1, <1>2, <1>3 DEF OneInv

\* A message that is taken is put on the list.
LEMMA HandleMessageOne ==
    ASSUME TypeOK, OneInv, ~ RedisFaults, NEW m \in Msgs, HandleMessage(m)
    PROVE  OneInv'
<1> DEFINE e == New(m)
<1>1. /\ e \in Entry /\ e.msg = m /\ e.retries = 0
      /\ m \notin offered /\ offered' = offered \cup {m} /\ Push(e)
      /\ UNCHANGED <<retry, up, delivery, sweep, posts, delivered, givenUp>>
  BY Entries DEF HandleMessage
<1> HIDE DEF e
<1>2. /\ Pending' = Pending \cup {m} /\ Finished' = Finished /\ m \notin Pending
      /\ m \notin Finished /\ Pending \subseteq Msgs
  BY <1>1 DEF Pending, Finished, OneInv, TypeOK
<1>3. \A n \in Msgs : Held(n)' = IF n = m THEN {<<"list", e>>} ELSE Held(n)
  <2>1. \A n : OnList(n, Listed') =
                 OnList(n, Listed) \cup (IF n = m THEN {<<"list", e>>} ELSE {})
    BY <1>1, ListedPush, ListGrows
  <2>2. Held(m) = {}
    BY <1>2 DEF OneInv
  <2> QED BY <1>1, <2>1, <2>2, HeldParts, HeldPartsNext
<1>4. queued[e] = 0
  <2>1. <<"list", e>> \notin Held(m)
    BY <1>2 DEF OneInv
  <2> QED BY <1>1, <2>1, HeldParts, Places, InListed DEF TypeOK
<1>5. \A f \in Entry : queued'[f] <= 1
  BY <1>1, <1>4, PushTypes DEF OneInv
<1>6. \A f \in Entry : Carried(f)' => posts'[f.msg] = f.retries
  <2>1. posts[m] = 0
    BY <1>1 DEF OneInv
  <2>2. \A f \in Entry : Carried(f)' => Carried(f) \/ f = e
    BY <1>1, PushTypes DEF Carried
  <2> QED BY <1>1, <2>1, <2>2 DEF OneInv
<1>7. \A n \in Pending' : \E x : Held(n)' = {x}
  BY <1>2, <1>3 DEF OneInv
<1>8. \A n \in Msgs \ Pending' : Held(n)' = {}
  BY <1>2, <1>3 DEF OneInv
<1>9. Finished' \subseteq offered' /\ \A n \in Msgs \ offered' : posts'[n] = 0
  BY <1>1, <1>2 DEF OneInv
<1> QED BY <1>5, <1>6, <1>7, <1>8, <1>9 DEF OneInv

LEMMA PopOne ==
    ASSUME TypeOK, OneInv, ~ RedisFaults, NEW d \in Deliverers, NEW e \in Entry, Pop(d, e)
    PROVE  OneInv'
<1> DEFINE m == e.msg
<1>1. /\ delivery[d] = Idle /\ queued[e] > 0 /\ queued' = [queued EXCEPT ![e] = @ - 1]
      /\ Hold(d, Posting(e))
      /\ UNCHANGED <<offered, retry, up, sweep, posts, delivered, givenUp>>
  BY DEF Pop
<1>2. m \in Msgs /\ <<"list", e>> \in Held(m)
  BY <1>1, Entries, CarriedHeld DEF Carried
<1>3. Held(m) = {<<"list", e>>} /\ m \in Pending
  BY <1>2, OnlyPlace
<1>4. \A n : AtLoop(n, delivery') =
        (AtLoop(n, delivery) \ {<<"delivery", d>>})
        \cup (IF n = m THEN {<<"delivery", d>>} ELSE {})
  BY <1>1, HoldMakes, LoopMoves
<1>5. \A n : OnList(n, Listed') = OnList(n, Listed) \ {<<"list", e>>}
  <2>1. Listed' = Listed \ {e}
    BY <1>1 DEF TypeOK, OneInv, Listed
  <2> QED BY <2>1, ListShrinks
<1>6. /\ \A n : <<"delivery", d>> \notin AtLoop(n, delivery)
      /\ \A n : n # m => <<"list", e>> \notin OnList(n, Listed)
  BY <1>1, Places DEF Idle
<1> HIDE DEF m
<1>7. \A n \in Msgs : Held(n)' = IF n = m THEN {<<"delivery", d>>} ELSE Held(n)
  <2>1. ASSUME NEW n \in Msgs, n # m
        PROVE  Held(n)' = Held(n)
    <3>1. OnList(n, Listed') = OnList(n, Listed)
      BY <1>5, <1>6, <2>1
    <3>2. AtLoop(n, delivery') = AtLoop(n, delivery)
      <4>1. AtLoop(n, delivery') = (AtLoop(n, delivery) \ {<<"delivery", d>>}) \cup {}
        BY <1>4, <2>1
      <4>2. <<"delivery", d>> \notin AtLoop(n, delivery)
        BY <1>6
      <4> QED BY <4>1, <4>2
    <3> QED BY <1>1, <3>1, <3>2, HeldParts, HeldPartsNext
  <2>2. Held(m)' = {<<"delivery", d>>}
    <3>1. /\ InRetry(m, retry) = {} /\ AtLoop(m, delivery) = {}
          /\ AtSweep(m, sweep) = {}
      <4>1. <<"list", e>>[1] = "list"
        OBVIOUS
      <4> QED BY <4>1, <1>3, OnePart
    <3>2. OnList(m, Listed) \subseteq {<<"list", e>>}
      BY <1>3, HeldParts
    <3> QED BY <1>1, <1>4, <1>5, <3>1, <3>2, HeldPartsNext
  <2> QED BY <2>1, <2>2
<1>8. \A f \in Entry : queued'[f] <= 1
  BY <1>1 DEF OneInv, TypeOK
<1>9. \A f \in Entry : Carried(f)' => Carried(f)
  <2>1. \A f \in Entry : queued'[f] > 0 => queued[f] > 0
    BY <1>1 DEF TypeOK
  <2>2. \A c \in Deliverers : delivery'[c] = delivery[c] \/ delivery'[c].entry = e
    BY <1>1, HoldMakes, HoldTypes
  <2> QED BY <1>1, <2>1, <2>2 DEF Carried
<1> QED BY <1>1, <1>3, <1>7, <1>8, <1>9, MoveKeeps

\* What a delivery loop holds is the only copy of its message.
LEMMA LoopHolds ==
    ASSUME TypeOK, OneInv, NEW d \in Deliverers, delivery[d].pc # "idle"
    PROVE  LET m == delivery[d].entry.msg
           IN  /\ m \in Pending /\ Held(m) = {<<"delivery", d>>}
               /\ OnList(m, Listed) = {} /\ InRetry(m, retry) = {}
               /\ AtSweep(m, sweep) = {} /\ AtLoop(m, delivery) = {<<"delivery", d>>}
               /\ \A n : n # m => <<"delivery", d>> \notin AtLoop(n, delivery)
<1> DEFINE e == delivery[d].entry
           m == e.msg
<1>1. e \in Entry /\ m \in Msgs /\ Carried(e)
  BY Holding, Entries, CarriedWhere
<1>2. <<"delivery", d>> \in Held(m)
  BY <1>1, CarriedHeld
<1>3. \A n : n # m => <<"delivery", d>> \notin AtLoop(n, delivery)
  BY Places
<1> HIDE DEF m
<1>4. m \in Pending /\ Held(m) = {<<"delivery", d>>}
  BY <1>1, <1>2, OnlyPlace
<1>5. <<"delivery", d>>[1] = "delivery"
  OBVIOUS
<1>6. /\ OnList(m, Listed) = {} /\ InRetry(m, retry) = {} /\ AtSweep(m, sweep) = {}
  BY <1>4, <1>5, OnePart
<1>7. AtLoop(m, delivery) = {<<"delivery", d>>}
  BY <1>4, <1>6, HeldParts
<1> QED BY <1>3, <1>4, <1>6, <1>7 DEF m

\* The same of a retry loop.
LEMMA SweepHolds ==
    ASSUME TypeOK, OneInv, NEW d \in Deliverers, sweep[d].pc = "push"
    PROVE  LET m == sweep[d].entry.msg
           IN  /\ m \in Pending /\ Held(m) = {<<"sweep", d>>}
               /\ OnList(m, Listed) = {} /\ InRetry(m, retry) = {}
               /\ AtSweep(m, sweep) = {<<"sweep", d>>} /\ AtLoop(m, delivery) = {}
               /\ \A n : n # m => <<"sweep", d>> \notin AtSweep(n, sweep)
<1> DEFINE e == sweep[d].entry
           m == e.msg
<1>1. e \in Entry /\ m \in Msgs /\ Carried(e)
  BY Holding, Entries, CarriedWhere
<1>2. <<"sweep", d>> \in Held(m)
  BY <1>1, CarriedHeld
<1>3. \A n : n # m => <<"sweep", d>> \notin AtSweep(n, sweep)
  BY Places
<1> HIDE DEF m
<1>4. m \in Pending /\ Held(m) = {<<"sweep", d>>}
  BY <1>1, <1>2, OnlyPlace
<1>5. <<"sweep", d>>[1] = "sweep"
  OBVIOUS
<1>6. /\ OnList(m, Listed) = {} /\ InRetry(m, retry) = {} /\ AtLoop(m, delivery) = {}
  BY <1>4, <1>5, OnePart
<1>7. AtSweep(m, sweep) = {<<"sweep", d>>}
  BY <1>4, <1>6, HeldParts
<1> QED BY <1>3, <1>4, <1>6, <1>7 DEF m

\* And of an entry of the retry set.
LEMMA RetryHolds ==
    ASSUME TypeOK, OneInv, NEW e \in retry
    PROVE  LET m == e.msg
           IN  /\ m \in Pending /\ Held(m) = {<<"retry", e>>}
               /\ OnList(m, Listed) = {} /\ InRetry(m, retry) = {<<"retry", e>>}
               /\ AtSweep(m, sweep) = {} /\ AtLoop(m, delivery) = {}
               /\ \A n : n # m => <<"retry", e>> \notin InRetry(n, retry)
<1> DEFINE m == e.msg
<1>1. e \in Entry /\ m \in Msgs /\ Carried(e)
  BY Entries, CarriedWhere DEF TypeOK, Carried
<1>2. <<"retry", e>> \in Held(m)
  BY <1>1, CarriedHeld
<1>3. \A n : n # m => <<"retry", e>> \notin InRetry(n, retry)
  BY Places
<1> HIDE DEF m
<1>4. m \in Pending /\ Held(m) = {<<"retry", e>>}
  BY <1>1, <1>2, OnlyPlace
<1>5. <<"retry", e>>[1] = "retry"
  OBVIOUS
<1>6. /\ OnList(m, Listed) = {} /\ AtSweep(m, sweep) = {} /\ AtLoop(m, delivery) = {}
  BY <1>4, <1>5, OnePart
<1>7. InRetry(m, retry) = {<<"retry", e>>}
  BY <1>4, <1>6, HeldParts
<1> QED BY <1>3, <1>4, <1>6, <1>7 DEF m

LEMMA AddRetryOne ==
    ASSUME TypeOK, OneInv, ~ RedisFaults, NEW d \in Deliverers, AddRetry(d)
    PROVE  OneInv'
<1>a. PICK e : e = delivery[d].entry
  OBVIOUS
<1>b. PICK m : m = e.msg
  OBVIOUS
<1>1. /\ delivery[d].pc = "retry" /\ retry' = retry \cup {e} /\ Hold(d, Idle)
      /\ UNCHANGED <<offered, queued, up, sweep, posts, delivered, givenUp>>
      /\ Listed' = Listed
  BY <1>a DEF AddRetry, Listed
<1>2. /\ m \in Pending /\ Held(m) = {<<"delivery", d>>}
      /\ OnList(m, Listed) = {} /\ InRetry(m, retry) = {}
      /\ AtSweep(m, sweep) = {} /\ AtLoop(m, delivery) = {<<"delivery", d>>}
      /\ \A n : n # m => <<"delivery", d>> \notin AtLoop(n, delivery)
  BY <1>1, <1>a, <1>b, LoopHolds
<1>3. \A n : AtLoop(n, delivery') = AtLoop(n, delivery) \ {<<"delivery", d>>}
  <2>1. Idle.pc = "idle"
    BY DEF Idle
  <2> QED BY <1>1, <2>1, LoopMoves
<1>4. \A n : InRetry(n, retry') =
                InRetry(n, retry) \cup (IF m = n THEN {<<"retry", e>>} ELSE {})
  BY <1>1, <1>b, RetryGrows
<1>5. e \in Entry /\ Carried(e)
  BY <1>1, <1>a, Holding, CarriedWhere
<1>6. Held(m)' = {<<"retry", e>>}
  <2>1. AtLoop(m, delivery') = {}
    BY <1>2, <1>3
  <2>2. InRetry(m, retry') = {<<"retry", e>>}
    BY <1>2, <1>4
  <2>3. OnList(m, Listed') = {} /\ AtSweep(m, sweep') = {}
    BY <1>1, <1>2
  <2>4. Held(m)' = OnList(m, Listed') \cup InRetry(m, retry')
                   \cup AtLoop(m, delivery') \cup AtSweep(m, sweep')
    BY HeldPartsNext
  <2> QED BY <2>1, <2>2, <2>3, <2>4
<1>7. \A n \in Msgs : n # m => Held(n)' = Held(n)
  <2> SUFFICES ASSUME NEW n \in Msgs, n # m PROVE Held(n)' = Held(n)
    OBVIOUS
  <2>1. AtLoop(n, delivery') = AtLoop(n, delivery)
    <3>1. <<"delivery", d>> \notin AtLoop(n, delivery)
      BY <1>2
    <3>2. AtLoop(n, delivery') = AtLoop(n, delivery) \ {<<"delivery", d>>}
      BY <1>3
    <3> QED BY <3>1, <3>2
  <2>2. InRetry(n, retry') = InRetry(n, retry)
    BY <1>4
  <2> QED BY <1>1, <2>1, <2>2, HeldParts, HeldPartsNext
<1>8. \A f \in Entry : Carried(f)' => Carried(f)
  <2>1. \A c \in Deliverers : delivery'[c] = delivery[c] \/ delivery'[c].pc = "idle"
    BY <1>1, HoldTypes DEF Idle
  <2> QED BY <1>1, <1>5, <2>1 DEF Carried
<1>9. \A f \in Entry : queued'[f] <= 1
  BY <1>1 DEF OneInv
<1>10. /\ \A n \in Msgs :
             Held(n)' = Held(n) \/ (n \in Pending /\ \E y : Held(n)' = {y})
       /\ UNCHANGED <<offered, delivered, givenUp, posts>>
  BY <1>1, <1>2, <1>6, <1>7
<1> QED BY <1>8, <1>9, <1>10, MoveKeeps

LEMMA FetchOne ==
    ASSUME TypeOK, OneInv, NEW d \in Deliverers, Fetch(d)
    PROVE  OneInv'
<1>1. PICK R \in SUBSET retry : Sweep(d, Removing(R, {}))
  BY DEF Fetch
<1>2. /\ sweep[d].pc = "idle" /\ UNCHANGED <<offered, queued, retry, up, delivery, posts, delivered, givenUp>>
      /\ Listed' = Listed
  BY DEF Fetch, Listed
<1>3. Removing(R, {}) \in Sweeping /\ Removing(R, {}).pc = "remove"
  <2>1. R \in SUBSET Entry /\ {} \in SUBSET Entry
    BY DEF TypeOK
  <2> QED BY <2>1, SweepMakes
<1>4. \A n : AtSweep(n, sweep') = AtSweep(n, sweep) \ {<<"sweep", d>>}
  BY <1>1, <1>3, SweepMoves
<1>5. \A n : <<"sweep", d>> \notin AtSweep(n, sweep)
  BY <1>2, Places
<1>6. \A n \in Msgs : Held(n)' = Held(n)
  BY <1>2, <1>4, <1>5, HeldParts, HeldPartsNext
<1>7. \A f \in Entry : Carried(f)' => Carried(f)
  <2>1. \A c \in Deliverers : sweep'[c] = sweep[c] \/ sweep'[c].pc # "push"
    BY <1>1, <1>3, SweepTypes
  <2> QED BY <1>2, <2>1 DEF Carried
<1>8. \A f \in Entry : queued'[f] <= 1
  BY <1>2 DEF OneInv
<1> QED BY <1>2, <1>6, <1>7, <1>8, MoveKeeps

LEMMA RemoveOne ==
    ASSUME TypeOK, OneInv, NEW d \in Deliverers, NEW e \in Entry, Remove(d, e)
    PROVE  OneInv'
<1> DEFINE R == sweep[d].rows \ {e}
           S == sweep[d].mine
           s == IF Removed(e) THEN Pushing(e, R, S)
                ELSE IF R = {} THEN NotSweeping ELSE Removing(R, S)
           m == e.msg
<1>1. /\ sweep[d].pc = "remove" /\ Sweep(d, s) /\ retry' = retry \ {e}
      /\ UNCHANGED <<offered, queued, up, delivery, posts, delivered, givenUp>>
      /\ Listed' = Listed
  BY DEF Remove, Listed
<1>2. R \in SUBSET Entry /\ S \in SUBSET Entry
  BY Holding
<1>3. /\ s \in Sweeping \cup Moving
      /\ e \in retry => s.pc = "push" /\ s.entry = e
      /\ e \notin retry => s.pc # "push"
  <2>1. CASE Removed(e)
    BY <1>2, <2>1, SweepMakes DEF Removed
  <2>2. CASE ~ Removed(e)
    BY <1>2, <2>2, SweepMakes DEF Removed
  <2> QED BY <2>1, <2>2
<1> HIDE DEF s, m
<1>4. \A n : AtSweep(n, sweep') =
              (AtSweep(n, sweep) \ {<<"sweep", d>>})
              \cup (IF s.pc = "push" /\ s.entry.msg = n THEN {<<"sweep", d>>} ELSE {})
  BY <1>1, <1>3, SweepMoves
<1>5. \A n : <<"sweep", d>> \notin AtSweep(n, sweep)
  BY <1>1, Places
<1>6. \A n : InRetry(n, retry') = InRetry(n, retry) \ {<<"retry", e>>}
  BY <1>1, RetryShrinks
<1>7. \A n \in Msgs : \/ Held(n)' = Held(n)
                      \/ n \in Pending /\ \E y : Held(n)' = {y}
  <2>1. CASE e \in retry
    <3>1. /\ m \in Pending /\ Held(m) = {<<"retry", e>>}
          /\ OnList(m, Listed) = {} /\ InRetry(m, retry) = {<<"retry", e>>}
          /\ AtSweep(m, sweep) = {} /\ AtLoop(m, delivery) = {}
          /\ \A n : n # m => <<"retry", e>> \notin InRetry(n, retry)
      BY <2>1, RetryHolds DEF m
    <3>2. Held(m)' = {<<"sweep", d>>}
      <4>1. AtSweep(m, sweep') = {<<"sweep", d>>}
        BY <1>3, <1>4, <2>1, <3>1 DEF m
      <4>2. InRetry(m, retry') = {}
        BY <1>6, <3>1
      <4>3. OnList(m, Listed') = {} /\ AtLoop(m, delivery') = {}
        BY <1>1, <3>1
      <4> QED BY <4>1, <4>2, <4>3, HeldPartsNext
    <3>3. ASSUME NEW n \in Msgs, n # m
          PROVE  Held(n)' = Held(n)
      <4>1. AtSweep(n, sweep') = AtSweep(n, sweep)
        <5>1. s.entry.msg # n
          BY <1>3, <2>1, <3>3 DEF m
        <5>2. AtSweep(n, sweep') = (AtSweep(n, sweep) \ {<<"sweep", d>>}) \cup {}
          BY <1>4, <5>1
        <5>3. <<"sweep", d>> \notin AtSweep(n, sweep)
          BY <1>5
        <5> QED BY <5>2, <5>3
      <4>2. InRetry(n, retry') = InRetry(n, retry)
        BY <1>6, <3>1, <3>3
      <4> QED BY <1>1, <4>1, <4>2, HeldParts, HeldPartsNext
    <3> QED BY <3>1, <3>2, <3>3
  <2>2. CASE e \notin retry
    <3> SUFFICES ASSUME NEW n \in Msgs PROVE Held(n)' = Held(n)
      OBVIOUS
    <3>1. retry' = retry
      BY <1>1, <2>2
    <3>2. AtSweep(n, sweep') = AtSweep(n, sweep)
      <4>1. AtSweep(n, sweep') = (AtSweep(n, sweep) \ {<<"sweep", d>>}) \cup {}
        BY <1>3, <1>4, <2>2
      <4>2. <<"sweep", d>> \notin AtSweep(n, sweep)
        BY <1>5
      <4> QED BY <4>1, <4>2
    <3> QED BY <1>1, <3>1, <3>2, HeldParts, HeldPartsNext
  <2> QED BY <2>1, <2>2
<1>8. \A f \in Entry : Carried(f)' => Carried(f)
  <2>1. \A c \in Deliverers :
           \/ sweep'[c] = sweep[c] \/ sweep'[c].pc # "push"
           \/ sweep'[c].entry = e /\ e \in retry
    BY <1>1, <1>3, SweepTypes
  <2>2. retry' \subseteq retry
    BY <1>1
  <2> QED BY <1>1, <2>1, <2>2 DEF Carried
<1>9. \A f \in Entry : queued'[f] <= 1
  BY <1>1 DEF OneInv
<1>10. UNCHANGED <<offered, delivered, givenUp, posts>>
  BY <1>1
<1> QED BY <1>7, <1>8, <1>9, <1>10, MoveKeeps

LEMMA PushBackOne ==
    ASSUME TypeOK, OneInv, ~ RedisFaults, NEW d \in Deliverers, PushBack(d)
    PROVE  OneInv'
<1> DEFINE R == sweep[d].rows
           S == sweep[d].mine
           s == IF R = {} THEN NotSweeping ELSE Removing(R, S)
<1>a. PICK e : e = sweep[d].entry
  OBVIOUS
<1>b. PICK m : m = e.msg
  OBVIOUS
<1>1. /\ sweep[d].pc = "push" /\ Push(e) /\ Sweep(d, s)
      /\ UNCHANGED <<offered, retry, up, delivery, posts, delivered, givenUp>>
  BY <1>a DEF PushBack
<1>2. R \in SUBSET Entry /\ S \in SUBSET Entry /\ e \in Entry /\ Carried(e)
  BY <1>1, <1>a, Holding, CarriedWhere
<1>3. s \in Sweeping /\ s.pc # "push"
  BY <1>2, SweepMakes
<1>4. /\ m \in Pending /\ Held(m) = {<<"sweep", d>>}
      /\ OnList(m, Listed) = {} /\ InRetry(m, retry) = {}
      /\ AtSweep(m, sweep) = {<<"sweep", d>>} /\ AtLoop(m, delivery) = {}
      /\ \A n : n # m => <<"sweep", d>> \notin AtSweep(n, sweep)
  BY <1>1, <1>a, <1>b, SweepHolds
<1>5. \A n : AtSweep(n, sweep') = AtSweep(n, sweep) \ {<<"sweep", d>>}
  BY <1>1, <1>3, SweepMoves
<1>6. \A n : OnList(n, Listed') =
                OnList(n, Listed) \cup (IF m = n THEN {<<"list", e>>} ELSE {})
  BY <1>1, <1>2, <1>b, ListedPush, ListGrows
<1>7. e \notin Listed
  <2>1. <<"list", e>> \notin OnList(m, Listed)
    BY <1>4
  <2> QED BY <2>1, <1>b, Places
<1> HIDE DEF s
<1>8. Held(m)' = {<<"list", e>>}
  <2>1. AtSweep(m, sweep') = {}
    BY <1>4, <1>5
  <2>2. OnList(m, Listed') = {<<"list", e>>}
    BY <1>4, <1>6
  <2>3. InRetry(m, retry') = {} /\ AtLoop(m, delivery') = {}
    BY <1>1, <1>4
  <2>4. Held(m)' = OnList(m, Listed') \cup InRetry(m, retry')
                   \cup AtLoop(m, delivery') \cup AtSweep(m, sweep')
    BY HeldPartsNext
  <2> QED BY <2>1, <2>2, <2>3, <2>4
<1>9. \A n \in Msgs : n # m => Held(n)' = Held(n)
  <2> SUFFICES ASSUME NEW n \in Msgs, n # m PROVE Held(n)' = Held(n)
    OBVIOUS
  <2>1. AtSweep(n, sweep') = AtSweep(n, sweep)
    BY <1>4, <1>5
  <2>2. OnList(n, Listed') = OnList(n, Listed)
    BY <1>6
  <2> QED BY <1>1, <2>1, <2>2, HeldParts, HeldPartsNext
<1>10. \A f \in Entry : Carried(f)' => Carried(f)
  <2>1. \A c \in Deliverers : sweep'[c] = sweep[c] \/ sweep'[c].pc # "push"
    BY <1>1, <1>3, SweepTypes
  <2>2. \A f \in Entry : queued'[f] > 0 => queued[f] > 0 \/ f = e
    BY <1>1, <1>2, PushTypes
  <2> QED BY <1>1, <1>2, <2>1, <2>2 DEF Carried
<1>11. \A f \in Entry : queued'[f] <= 1
  <2>1. queued[e] = 0
    BY <1>2, <1>7, InListed DEF TypeOK
  <2> QED BY <1>1, <1>2, <2>1, PushTypes DEF OneInv
<1>12. /\ \A n \in Msgs :
             Held(n)' = Held(n) \/ (n \in Pending /\ \E y : Held(n)' = {y})
       /\ UNCHANGED <<offered, delivered, givenUp, posts>>
  BY <1>1, <1>4, <1>8, <1>9
<1> QED BY <1>10, <1>11, <1>12, MoveKeeps

\* A post that ends the message: it is in no place any more.
LEMMA EndsOne ==
    ASSUME TypeOK, OneInv, NEW d \in Deliverers, delivery[d].pc = "post",
           NEW m \in Msgs, m = delivery[d].entry.msg, Posted(m), Hold(d, Idle),
           Finished' = Finished \cup {m},
           UNCHANGED <<offered, queued, retry, sweep>>
    PROVE  OneInv'
<1>1. /\ m \in Pending /\ Held(m) = {<<"delivery", d>>}
      /\ OnList(m, Listed) = {} /\ InRetry(m, retry) = {}
      /\ AtSweep(m, sweep) = {} /\ AtLoop(m, delivery) = {<<"delivery", d>>}
      /\ \A n : n # m => <<"delivery", d>> \notin AtLoop(n, delivery)
  BY LoopHolds
<1>2. \A n : AtLoop(n, delivery') = AtLoop(n, delivery) \ {<<"delivery", d>>}
  <2>1. Idle.pc = "idle"
    BY DEF Idle
  <2> QED BY <2>1, LoopMoves
<1>3. Pending' = Pending \ {m} /\ Finished' \subseteq offered' /\ Listed' = Listed
      /\ Pending \subseteq Msgs /\ Pending \subseteq offered
  BY <1>1 DEF Pending, OneInv, Listed, TypeOK
<1>4. Held(m)' = {}
  <2>1. AtLoop(m, delivery') = AtLoop(m, delivery) \ {<<"delivery", d>>}
    BY <1>2
  <2>2. AtLoop(m, delivery') = {}
    BY <1>1, <2>1
  <2> QED BY <1>1, <1>3, <2>2, HeldPartsNext
<1>5. \A n \in Msgs : n # m => Held(n)' = Held(n)
  <2> SUFFICES ASSUME NEW n \in Msgs, n # m PROVE Held(n)' = Held(n)
    OBVIOUS
  <2>1. AtLoop(n, delivery') = AtLoop(n, delivery) \ {<<"delivery", d>>}
    BY <1>2
  <2>2. <<"delivery", d>> \notin AtLoop(n, delivery)
    BY <1>1
  <2>3. AtLoop(n, delivery') = AtLoop(n, delivery)
    BY <2>1, <2>2
  <2> QED BY <1>3, <2>3, HeldParts, HeldPartsNext
<1>6. ASSUME NEW f \in Entry, Carried(f)'
      PROVE  posts'[f.msg] = f.retries
  <2>1. f.msg # m
    <3> SUFFICES ASSUME f.msg = m PROVE FALSE
      OBVIOUS
    <3> QED BY <1>4, <1>6, CarriedHeldNext DEF Carried
  <2>2. Carried(f)
    <3>1. \A c \in Deliverers : delivery'[c] = delivery[c] \/ delivery'[c].pc = "idle"
      BY HoldTypes DEF Idle
    <3> QED BY <1>6, <3>1 DEF Carried
  <2>3. posts'[f.msg] = posts[f.msg]
    BY <2>1, Entries, PostedTypes
  <2> QED BY <2>2, <2>3 DEF OneInv
<1>7. \A n \in Msgs \ offered' : posts'[n] = 0
  <2>1. m \in offered
    BY <1>1, <1>3
  <2> QED BY <2>1, PostedTypes DEF OneInv
<1>8. \A n \in Pending' : \E x : Held(n)' = {x}
  BY <1>3, <1>5 DEF OneInv
<1>9. \A n \in Msgs \ Pending' : Held(n)' = {}
  BY <1>3, <1>4, <1>5 DEF OneInv
<1>10. \A f \in Entry : queued'[f] <= 1
  BY DEF OneInv
<1> QED BY <1>3, <1>6, <1>7, <1>8, <1>9, <1>10 DEF OneInv

\* A post that fails and leaves a retry.
LEMMA RetryOne ==
    ASSUME TypeOK, OneInv, NEW d \in Deliverers, delivery[d].pc = "post",
           NEW e \in Entry, e = delivery[d].entry, Posted(e.msg), MayRetry(e),
           Hold(d, Retried(e)),
           UNCHANGED <<offered, queued, retry, sweep, delivered, givenUp>>
    PROVE  OneInv'
<1> DEFINE m == e.msg
<1>1. /\ m \in Pending /\ Held(m) = {<<"delivery", d>>}
      /\ AtLoop(m, delivery) = {<<"delivery", d>>}
      /\ \A n : n # m => <<"delivery", d>> \notin AtLoop(n, delivery)
  BY LoopHolds
<1>2. /\ m \in Msgs /\ Again(e) \in Entry /\ Again(e).msg = m
      /\ Again(e).retries = e.retries + 1
  BY Entries
<1>3. Retried(e) \in Held1 /\ Retried(e).pc = "retry" /\ Retried(e).entry = Again(e)
  BY <1>2, HoldMakes DEF Retried
<1>4. \A n : AtLoop(n, delivery') =
                (AtLoop(n, delivery) \ {<<"delivery", d>>})
                \cup (IF n = m THEN {<<"delivery", d>>} ELSE {})
  BY <1>2, <1>3, LoopMoves
<1>5. Pending' = Pending /\ Finished' = Finished /\ Listed' = Listed
      /\ Pending \subseteq Msgs /\ Pending \subseteq offered
  BY DEF Pending, Finished, Listed, TypeOK
<1> HIDE DEF m
<1>6. \A n \in Msgs : Held(n)' = Held(n)
  <2> SUFFICES ASSUME NEW n \in Msgs PROVE Held(n)' = Held(n)
    OBVIOUS
  <2>1. CASE n = m
    <3>1. AtLoop(m, delivery') = AtLoop(m, delivery)
      BY <1>1, <1>4
    <3> QED BY <1>5, <2>1, <3>1, HeldParts, HeldPartsNext
  <2>2. CASE n # m
    <3>1. AtLoop(n, delivery') = (AtLoop(n, delivery) \ {<<"delivery", d>>}) \cup {}
      BY <1>4, <2>2
    <3>2. <<"delivery", d>> \notin AtLoop(n, delivery)
      BY <1>1, <2>2
    <3> QED BY <1>5, <3>1, <3>2, HeldParts, HeldPartsNext
  <2> QED BY <2>1, <2>2
<1>7. delivery'[d] = Retried(e) /\ \A c \in Deliverers \ {d} : delivery'[c] = delivery[c]
  BY <1>3, HoldTypes
<1>8. posts'[m] = posts[m] + 1 /\ \A n \in Msgs \ {m} : posts'[n] = posts[n]
  BY <1>2, PostedTypes DEF m
<1>9. posts[m] = e.retries
  BY CarriedWhere DEF OneInv, m
<1>10. ASSUME NEW f \in Entry, Carried(f)'
       PROVE  posts'[f.msg] = f.retries
  <2>1. CASE f.msg = m
    <3>1. Held(f.msg)' = {<<"delivery", d>>}
      BY <1>1, <1>2, <1>6, <2>1
    <3>2. /\ ~ (queued'[f] > 0) /\ f \notin retry'
          /\ \A c \in Deliverers : ~ (sweep'[c].pc = "push" /\ sweep'[c].entry = f)
          /\ \A c \in Deliverers :
                delivery'[c].pc # "idle" /\ delivery'[c].entry = f => c = d
      BY <1>10, <3>1, CarriedHeldNext
    <3>3. delivery'[d].entry = f
      BY <1>10, <3>2 DEF Carried
    <3> QED BY <1>2, <1>3, <1>7, <1>8, <1>9, <3>3
  <2>2. CASE f.msg # m
    <3>1. Carried(f)
      BY <1>2, <1>3, <1>7, <1>10, <2>2 DEF Carried
    <3>2. posts'[f.msg] = posts[f.msg]
      BY <1>8, <2>2, Entries
    <3> QED BY <3>1, <3>2 DEF OneInv
  <2> QED BY <2>1, <2>2
<1>11. \A n \in Msgs \ offered' : posts'[n] = 0
  BY <1>1, <1>5, <1>8 DEF OneInv
<1>12. \A n \in Pending' : \E x : Held(n)' = {x}
  BY <1>5, <1>6 DEF OneInv
<1>13. \A n \in Msgs \ Pending' : Held(n)' = {}
  BY <1>5, <1>6 DEF OneInv
<1>14. (\A f \in Entry : queued'[f] <= 1) /\ Finished' \subseteq offered'
  BY <1>5 DEF OneInv
<1> QED BY <1>10, <1>11, <1>12, <1>13, <1>14 DEF OneInv

LEMMA PostSucceedsOne ==
    ASSUME TypeOK, OneInv, NEW d \in Deliverers, PostSucceeds(d)
    PROVE  OneInv'
<1>1. /\ delivery[d].pc = "post" /\ Hold(d, Idle)
      /\ UNCHANGED <<offered, queued, retry, up, sweep, givenUp>>
  BY DEF PostSucceeds
<1>2. PICK m \in Msgs : m = delivery[d].entry.msg
  BY <1>1, Holding, Entries
<1>3. Posted(m) /\ delivered' = delivered \cup {m}
  BY <1>2 DEF PostSucceeds
<1>4. Finished' = Finished \cup {m}
  BY <1>1, <1>3 DEF Finished
<1> QED BY <1>1, <1>2, <1>3, <1>4, EndsOne

LEMMA PostFailsOne ==
    ASSUME TypeOK, OneInv, NEW d \in Deliverers, PostFails(d)
    PROVE  OneInv'
<1>1. /\ delivery[d].pc = "post"
      /\ UNCHANGED <<offered, queued, retry, up, sweep, delivered>>
  BY DEF PostFails
<1>2. PICK e \in Entry : e = delivery[d].entry
  BY <1>1, Holding
<1>3. Posted(e.msg) /\ e.msg \in Msgs
  BY <1>2, Entries DEF PostFails
<1>4. CASE MayRetry(e)
  <2>1. Hold(d, Retried(e)) /\ UNCHANGED givenUp
    BY <1>2, <1>4 DEF PostFails
  <2> QED BY <1>1, <1>2, <1>3, <1>4, <2>1, RetryOne
<1>5. CASE ~ MayRetry(e)
  <2>1. Hold(d, Idle) /\ givenUp' = givenUp \cup {e.msg}
    BY <1>2, <1>5 DEF PostFails
  <2>2. Finished' = Finished \cup {e.msg}
    BY <1>1, <2>1 DEF Finished
  <2>3. PICK m \in Msgs : m = e.msg
    BY <1>3
  <2> QED BY <1>1, <1>2, <1>3, <2>1, <2>2, <2>3, EndsOne
<1> QED BY <1>4, <1>5

LEMMA InitOne == Init => OneInv
<1> SUFFICES ASSUME Init PROVE OneInv
  OBVIOUS
<1>1. Listed = {} /\ retry = {} /\ Pending = {} /\ Finished = {}
  BY DEF Init, Listed, Pending, Finished
<1>2. \A d \in Deliverers : delivery[d].pc = "idle" /\ sweep[d].pc = "idle"
  BY DEF Init, Idle, NotSweeping
<1>3. \A m : Held(m) = {}
  <2> SUFFICES ASSUME NEW m PROVE Held(m) = {}
    OBVIOUS
  <2>1. OnList(m, Listed) = {} /\ InRetry(m, retry) = {}
    BY <1>1, Places
  <2>2. AtLoop(m, delivery) = {} /\ AtSweep(m, sweep) = {}
    BY <1>2, Places
  <2> QED BY <2>1, <2>2, HeldParts
<1>4. \A e \in Entry : ~ Carried(e)
  BY <1>2 DEF Init, Carried
<1> QED BY <1>1, <1>3, <1>4 DEF Init, OneInv

LEMMA StutterOne ==
    ASSUME OneInv, UNCHANGED vars
    PROVE  OneInv'
<1>1. Pending' = Pending /\ Finished' = Finished
  BY DEF vars, Pending, Finished
<1>2. \A m : Held(m)' = Held(m)
  BY DEF vars, Held
<1>3. \A e \in Entry : Carried(e)' <=> Carried(e)
  BY DEF vars, Carried
<1> QED BY <1>1, <1>2, <1>3 DEF vars, OneInv

LEMMA CalmOne ==
    ASSUME ~ RedisFaults
    PROVE  TypeOK /\ OneInv /\ [CalmNext]_vars => OneInv'
<1> SUFFICES ASSUME TypeOK, OneInv, [CalmNext]_vars PROVE OneInv'
  OBVIOUS
<1>1. ASSUME NEW m \in Msgs, HandleMessage(m) PROVE OneInv'
  BY <1>1, HandleMessageOne
<1>2. ASSUME NEW d \in Deliverers, HttpStep(d) PROVE OneInv'
  BY <1>2, PostSucceedsOne, PostFailsOne, AddRetryOne, PushBackOne, RemoveOne
  DEF HttpStep
<1>3. ASSUME NEW d \in Deliverers, Fetch(d) PROVE OneInv'
  BY <1>3, FetchOne
<1>4. ASSUME NEW d \in Deliverers, NEW e \in Entry, Pop(d, e) PROVE OneInv'
  BY <1>4, PopOne
<1>5. CASE UNCHANGED vars
  BY <1>5, StutterOne
<1> QED BY <1>1, <1>2, <1>3, <1>4, <1>5 DEF CalmNext

\* What holds of every run in which no Redis command fails and no deliverer
\* stops.
CalmInv == SafeInv /\ OneInv

LEMMA CalmAlways ==
    ASSUME ~ RedisFaults
    PROVE  Init /\ [][CalmNext]_vars => []CalmInv
<1>1. Init => CalmInv
  BY InitSafe, InitOne DEF CalmInv
<1>2. CalmInv /\ [CalmNext]_vars => CalmInv'
  <2> SUFFICES ASSUME CalmInv, [CalmNext]_vars PROVE CalmInv'
    OBVIOUS
  <2>1. SafeInv /\ OneInv /\ TypeOK
    BY DEF CalmInv, SafeInv
  <2>2. SafeInv'
    BY <2>1, NextSafe DEF Next
  <2>3. OneInv'
    BY <2>1, CalmOne
  <2> QED BY <2>2, <2>3 DEF CalmInv
<1> QED BY <1>1, <1>2, PTL

LEMMA OneInvCopy == OneInv /\ TypeOK => OneCopy
<1> SUFFICES ASSUME OneInv, TypeOK PROVE OneCopy
  OBVIOUS
<1>1. ASSUME NEW m \in offered
      PROVE  Cardinality(Held(m)) = IF m \in Finished THEN 0 ELSE 1
  <2>1. CASE m \in Finished
    <3>1. Held(m) = {}
      BY <2>1 DEF OneInv, Pending, TypeOK
    <3> QED BY <2>1, <3>1, FS_EmptySet
  <2>2. CASE m \notin Finished
    <3>1. PICK x : Held(m) = {x}
      BY <2>2 DEF OneInv, Pending
    <3> QED BY <2>2, <3>1, FS_Singleton
  <2> QED BY <2>1, <2>2
<1> QED BY <1>1 DEF OneInv, OneCopy

(***************************************************************************)
(* While Redis answers and no process stops, a message that was taken is   *)
(* on the list, in the retry set or in one loop of one deliverer, once,    *)
(* until it is delivered or given up: no message is lost, and two sweeps   *)
(* that fetch the same row do not double it (process_retries, add_retry).  *)
(***************************************************************************)
THEOREM OnlyOneCopy ==
    ASSUME ~ RedisFaults
    PROVE  FairSpec => []OneCopy
<1>1. CalmInv => OneCopy
  BY OneInvCopy DEF CalmInv, SafeInv
<1> QED BY <1>1, CalmAlways, PTL DEF FairSpec

-----------------------------------------------------------------------------
(***************************************************************************)
(* The deliverers implement the dispatch of each message.                  *)
(***************************************************************************)
\* The state of each message, as MessageDispatch sees it.
States == [m \in Msgs |-> StateOf(m)]

LEMMA StateHolds ==
    ASSUME TypeOK, OneInv, NEW m \in Msgs
    PROVE  /\ m \notin offered => StateOf(m) = "new"
           /\ m \in Pending => StateOf(m) = "pending"
BY DEF StateOf, Pending, Finished, OneInv

\* A step that changes the state of no message but m.
LEMMA StateMoves ==
    ASSUME NEW m \in Msgs, NEW s,
           s = StateOf(m)',
           \A n \in Msgs \ {m} : StateOf(n)' = StateOf(n)
    PROVE  States' = [States EXCEPT ![m] = s]
BY DEF States

LEMMA InitDispatch == Init => Dispatch!Init
BY DEF Init, Dispatch!Init, StateOf

\* A message that is taken is accepted.
LEMMA AcceptDispatch ==
    ASSUME TypeOK, OneInv, NEW m \in Msgs, HandleMessage(m)
    PROVE  Dispatch!Accept(m)
<1>1. /\ m \notin offered /\ offered' = offered \cup {m}
      /\ UNCHANGED <<delivered, givenUp, posts>>
  BY DEF HandleMessage
<1>2. m \notin delivered /\ m \notin givenUp
  BY <1>1 DEF OneInv, Finished
<1>3. StateOf(m) = "new" /\ StateOf(m)' = "pending"
  BY <1>1, <1>2 DEF StateOf
<1>4. \A n \in Msgs \ {m} : StateOf(n)' = StateOf(n)
  BY <1>1 DEF StateOf
<1>5. States' = [States EXCEPT ![m] = "pending"] /\ States[m] = "new"
  BY <1>3, <1>4, StateMoves DEF States
<1> QED BY <1>1, <1>5 DEF Dispatch!Accept, States

\* A post of a pending message that leaves it in the state s.
LEMMA PostDispatch ==
    ASSUME TypeOK, OneInv, NEW m \in Pending, NEW s,
           Posted(m), UNCHANGED offered,
           s = StateOf(m)',
           \A n \in Msgs \ {m} : StateOf(n)' = StateOf(n),
           s \in {"delivered", IF posts[m] + 1 < MaxRetries + 1
                               THEN "pending" ELSE "given_up"}
    PROVE  Dispatch!Post(m)
<1>1. m \in Msgs
  BY DEF Pending, TypeOK
<1>2. posts'[m] = posts[m] + 1 /\ posts' = [posts EXCEPT ![m] = @ + 1]
  BY <1>1, PostedTypes DEF Posted
<1>3. States[m] = "pending" /\ States' = [States EXCEPT ![m] = s]
  BY <1>1, StateHolds, StateMoves DEF States
<1>4. s \in {"delivered", IF posts'[m] < MaxRetries + 1
                          THEN "pending" ELSE "given_up"}
  BY <1>2
<1> QED BY <1>2, <1>3, <1>4 DEF Dispatch!Post, States

LEMMA PostSucceedsDispatch ==
    ASSUME TypeOK, OneInv, NEW d \in Deliverers, PostSucceeds(d)
    PROVE  Dispatch!Next
<1>1. /\ delivery[d].pc = "post"
      /\ UNCHANGED <<offered, givenUp>>
  BY DEF PostSucceeds
<1>2. PICK m \in Msgs : m = delivery[d].entry.msg
  BY <1>1, Holding, Entries
<1>3. Posted(m) /\ delivered' = delivered \cup {m}
  BY <1>2 DEF PostSucceeds
<1>4. m \in Pending
  BY <1>1, <1>2, LoopHolds
<1>5. StateOf(m)' = "delivered" /\ \A n \in Msgs \ {m} : StateOf(n)' = StateOf(n)
  BY <1>1, <1>3 DEF StateOf
<1>6. Dispatch!Post(m)
  BY <1>1, <1>3, <1>4, <1>5, PostDispatch
<1> QED BY <1>2, <1>6 DEF Dispatch!Next

LEMMA PostFailsDispatch ==
    ASSUME TypeOK, OneInv, NEW d \in Deliverers, PostFails(d)
    PROVE  Dispatch!Next
<1>1. /\ delivery[d].pc = "post"
      /\ UNCHANGED <<offered, delivered>>
  BY DEF PostFails
<1>2. PICK e \in Entry : e = delivery[d].entry
  BY <1>1, Holding
<1>3. PICK m \in Msgs : m = e.msg
  BY <1>2, Entries
<1>4. Posted(m)
  BY <1>2, <1>3 DEF PostFails
<1>5. m \in Pending /\ posts[m] = e.retries
  BY <1>1, <1>2, <1>3, LoopHolds, CarriedWhere DEF OneInv
<1>6. m \notin delivered /\ m \notin givenUp /\ m \in offered
  BY <1>5 DEF Pending, Finished
<1>7. e.retries \in Nat /\ MaxRetries \in Nat
  BY <1>2, Entries
<1>8. CASE MayRetry(e)
  <2>1. UNCHANGED givenUp
    BY <1>2, <1>8 DEF PostFails
  <2>2. StateOf(m)' = "pending" /\ \A n \in Msgs \ {m} : StateOf(n)' = StateOf(n)
    BY <1>1, <1>6, <2>1 DEF StateOf
  <2>3. posts[m] + 1 < MaxRetries + 1
    BY <1>5, <1>7, <1>8 DEF MayRetry
  <2>4. Dispatch!Post(m)
    BY <1>1, <1>4, <1>5, <2>2, <2>3, PostDispatch
  <2> QED BY <1>3, <2>4 DEF Dispatch!Next
<1>9. CASE ~ MayRetry(e)
  <2>1. givenUp' = givenUp \cup {m}
    BY <1>2, <1>3, <1>9 DEF PostFails
  <2>2. StateOf(m)' = "given_up" /\ \A n \in Msgs \ {m} : StateOf(n)' = StateOf(n)
    BY <1>1, <1>6, <2>1 DEF StateOf
  <2>3. ~ (posts[m] + 1 < MaxRetries + 1)
    BY <1>5, <1>7, <1>9 DEF MayRetry
  <2>4. Dispatch!Post(m)
    BY <1>1, <1>4, <1>5, <2>2, <2>3, PostDispatch
  <2> QED BY <1>3, <2>4 DEF Dispatch!Next
<1> QED BY <1>8, <1>9

\* A step that neither takes nor posts a message.
LEMMA QuietDispatch ==
    ASSUME UNCHANGED <<offered, posts, delivered, givenUp>>
    PROVE  UNCHANGED Dispatch!vars
BY DEF Dispatch!vars, StateOf

LEMMA CalmDispatch ==
    CalmInv /\ [CalmNext]_vars => [Dispatch!Next]_(Dispatch!vars)
<1> SUFFICES ASSUME CalmInv, [CalmNext]_vars
             PROVE  [Dispatch!Next]_(Dispatch!vars)
  OBVIOUS
<1> USE DEF CalmInv, SafeInv
<1>1. ASSUME NEW m \in Msgs, HandleMessage(m) PROVE Dispatch!Next
  BY <1>1, AcceptDispatch DEF Dispatch!Next
<1>2. ASSUME NEW d \in Deliverers, PostSucceeds(d) \/ PostFails(d)
      PROVE  Dispatch!Next
  BY <1>2, PostSucceedsDispatch, PostFailsDispatch
<1>3. ASSUME NEW d \in Deliverers,
             \/ AddRetry(d) \/ PushBack(d) \/ Fetch(d)
             \/ \E e \in Entry : Remove(d, e) \/ Pop(d, e)
      PROVE  UNCHANGED Dispatch!vars
  <2>1. UNCHANGED <<offered, posts, delivered, givenUp>>
    BY <1>3 DEF AddRetry, PushBack, Fetch, Remove, Pop
  <2> QED BY <2>1, QuietDispatch
<1>4. CASE UNCHANGED vars
  BY <1>4, QuietDispatch DEF vars
<1> QED BY <1>1, <1>2, <1>3, <1>4 DEF CalmNext, HttpStep

(***************************************************************************)
(* The safety part of ImplementsDispatch: each message is posted until one *)
(* post succeeds, at most MaxRetries + 1 times, and given up only after    *)
(* the last (process_delivery).  That pending messages are posted, the     *)
(* fairness of MessageDispatch, is model-checked.                          *)
(***************************************************************************)
THEOREM DispatchSteps ==
    ASSUME ~ RedisFaults
    PROVE  FairSpec => Dispatch!Init /\ [][Dispatch!Next]_(Dispatch!vars)
<1> QED BY InitDispatch, CalmDispatch, CalmAlways, PTL DEF FairSpec
=============================================================================
