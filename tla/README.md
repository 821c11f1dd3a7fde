# ACA-Py plugins: TLA+ models, checks and proofs

This directory holds a verification development for the plugins of the
[acapy-plugins](../src) repository: TLA+ modules translated from the Python
source, TLC configurations that check them on small instances, and TLAPS proofs
of the properties that matter most. `PROJECT.json` is its index: which
definition stands for which lines, what every run checks, which mutation of the
model each property notices, where the code disagrees with what it says of
itself (`findings`), and every hazard the survey found (`hazards`).

Run a check with `tlc -config <X>.cfg <Module>`, a proof with `tlapm <Module>.tla`.

Contents: [1 Inventory](#1-inventory) - [2 Modules](#2-what-is-modelled) -
[3 Runs](#3-what-the-runs-check) - [4 Fairness](#4-fairness) -
[5 Proofs](#5-what-is-proved) - [6 Not modelled](#6-what-is-left-out-and-why) -
[7 Plan](#7-plan)

## 1 Inventory

The repository is a set of plugins of one host program, the ACA-Py agent
(written here "the agent"; an external dependency). The plugins share no code. Each
adds message handlers, admin routes and record types to the agent, and each
meets the same kinds of concurrency:

* one process runs many coroutines. Between two `await`s nothing else runs; at
  an `await` any handler or route may;
* records live in the agent's wallet database. A *transaction* that reads with
  `for_update` locks the record. A plain *session* locks nothing even when it
  reads with `for_update`, so a read and a save in it are two steps;
* messages between agents are repeated, reordered and lost;
* a controller (the program behind the admin API) may call anything at any time.

| Part | State it keeps | Operations | What makes it hard | What makes it correct |
|---|---|---|---|---|
| `issue_credential` | one exchange record per agent and thread; revocation records; the wallet | proposal, offer, request, issue, store, ack, problem report; routes and automatic replies | copies of a record held over ledger and library calls; repeated messages and calls; restarts | one credential per thread; what was sent can be revoked; an ack means stored |
| `redis_events`, outbound | Redis list of messages, retry set | queue, pop, post, retry, sweep | lost Redis replies, crashes, several deliverers | given up only after all posts; one copy of each message |
| `redis_events`, inbound | Redis maps: key to instance, instance to keys, pending counts, last access | relay a message, assign and reassign keys, poll | several commands per decision, several relays and instances | the maps agree; what was accepted is taken |
| `redis_events`, direct response | a map per relay, a Redis list | note the request, push, pop, answer | two relays, an answer slower or faster than its caller | answered once, and not with an error |
| `status_list` | definitions, lists as shards, credential bindings, a registry | create, assign, bind, update, publish, delete | an index drawn and marked in two transactions; updates without a lock; bit layout | no entry given twice; an update touches its own entry; the published list is the status |
| `present_proof` | one exchange record per agent | proposal, request, presentation, verification, ack, problem report | no state checks and no transactions at all; long awaits | a verdict belongs to the presentation; no return from an end state |
| `connections` | connection records, invitations, DIDs | invite, request, response, problem report | single-use invitation used twice; each write in a session of its own | one connection per single-use invitation; both sides complete together |
| `oid4vc`, issuance | exchange records, nonces | offer, token, nonce, credential, notification, refresh | check and use in different sessions | a code and a nonce are used once; one credential per exchange |
| `oid4vc`, presentation | presentation records, queries | request, response, evaluate a query | two responses for one request | a valid verdict is final; the query evaluation is right |
| `oid4vc`, authorization server | codes, access and refresh tokens, seen token ids, key sets | grant, token, rotate, revoke, introspect | database transactions that interleave and wait for each other's locks | a code and a refresh token are used once; a reuse revokes the family |
| `oid4vc`, credential formats | keys and trust anchors | sign, verify | library calls | (encodings) |
| `webvh` | DID log, keys bound to names, pending requests | create, update, witness, attest, watch | a time-out that races the witness's late answer; key rotation in unlocked steps | a log entry is submitted once; the bound update key is the one published |
| `cheqd`, `hedera` | wallet records of ledger objects | create, update, deactivate | an outside ledger between two local writes | wallet and ledger agree |
| `rpc` | request records | request, response | an answer before its request is tagged; repeated answers | a request is completed by its own answer |
| `cache_redis` | cached values in Redis | get, set, clear, flush, lock | several instances, expiry | a lock holder fills the cache once |
| `multitenant_provider` | a list of tokens per wallet | create token, check, clean up | two requests write one list | a token that was given out and has not expired is accepted |
| `firebase_push_notifications` | one record per connection | save token, send | record held over the push | one record per connection; the rate limit |
| `basicmessage_storage`, `connection_update`, `plugin_globals`, `lite_plugins`, tooling | - | single inserts, one field, scripts | nothing | - |

How the parts interact: all plugins use the agent's wallet, message dispatcher
and event bus. `status_list` is called by the issuers of `oid4vc` and by the
agent's credential issuers through events; `oid4vc` calls its authorization
server over HTTP and asks it about tokens; `redis_events` replaces the agent's
transports, so every DIDComm message of every other plugin may travel through
it; `cache_redis` and `redis_events` share a cluster client; `webvh` and
`cheqd` register AnonCreds objects for the issuers of `issue_credential`;
`firebase_push_notifications` is triggered by forwarded messages.

`PROJECT.json` lists each part under `components`, and under `hazards` the forty
places where it bites hardest, at their lines. [Section 6](#6-what-is-left-out-and-why)
has what else the survey and the models showed.

## 2 What is modelled

### issue_credential

`IssueCredential.tla` joins an issuer and a holder agent by one ready
connection. `irec`/`hrec` are their exchange records (`V10CredentialExchange`),
`revRecs`, `revoked` and `created` the issuer's revocation bookkeeping, `wallet`
the holder's credentials, `toIssuer`/`toHolder` the messages. A message is
never taken out of these sets: it may be received again, late, or never.

A controller's call or an automatic reply is a *task* (`itask`, `htask`): it
carries the copy of the record it read, a program counter, and what it has made.
Everything up to the next `await` of a ledger, a library or the database is one
step; a database transaction is one step. One action stands for one manager
operation or for the part of it between two awaits: `ReceiveProposal`,
`SendFreeOffer`/`SendBoundOffer`/`CreateOffer`, `ReceiveRequest`, `StartIssue`/
`CreateCredential`/`CommitIssue`/`IssueAgain`, `ReceiveAck`, `CredRevoked`,
`SendProposal`, `ReceiveOffer`, `StartRequest`/`CreateRequest`/`RequestAgain`,
`ReceiveCredential`, `StartStore`/`StoreInWallet`/`SaveStored`, `AckCredential`,
the two `SaveError`, the two `ReceiveProblem`, the removals; and `Fault`,
`Restart` and `AckUnsaved` for what goes wrong.

A credential is the pair of its revocation index and the request it answers; a
request is a number. Nothing else of a credential is told apart by a property.

`CredentialIssuance.tla` is the abstract specification: threads are offered,
yield at most one credential each, a stored credential was issued, an
acknowledged one was stored or a problem with it reported. `IssueCredential!ImplementsIssuance`
states the refinement. The second case is real. When the handler of a credential fails to store
it, it saves the error state, sends a problem report ("treat failure to store as mangled on
receipt hence protocol error", `handlers/credential_issue_handler.py:77`) and falls through to
`send_credential_ack` (:92), which reads the record again; `save_error_state` swallows a storage
error (`models/credential_exchange.py:228`), and then the record still waits for a credential and
the ack goes out. A task remembers with `acks` whether it is such a handler (`HandlerAt`) or
the route, which returns.

### redis_events

`RedisDelivery.tla` is the outbound half. `HandleMessage` is the agent's
transport; `Pop`, `PostSucceeds`, `PostFails`, `WsFails`, `DropUnsupported` and
`AddRetry` are a deliverer's delivery loop; `Fetch`, `Remove`, `RemoveUnknowing`
and `PushBack` its retry loop. One Redis command is one step, and with
`RedisFaults` a command may be applied and its reply lost, after which the code
repeats it. The retry set is a set of serialized messages, as in Redis: equal
entries are one. `Crash`/`Restart` stop a process with what its loops hold.
`MessageDispatch.tla` is the abstract promise about each message, and
`RedisDelivery!ImplementsDispatch` the refinement, with liveness.

`RedisInbound.tla` is the inbound half: the relays' `process_payload_recip_key`
and its two helpers (handlers, a step for each Redis command, with their local
variables), and the polling loop of each plugin instance. Commands that fail and
instances that stop are counted, up to `MaxFaults`. Both relays run the
same routine; the ws relay's loop raises as it starts waiting
(`services/relay/relay.py:141`), so handlers are modelled as the http relay runs
them.

`RedisDirectResponse.tla` follows a request for a return route: noted in the
relay's map, pushed, answered by an instance over a list that all relays pop
from, and looked up in the same map. That map holds the request as soon as
the response is looked for, so the relay's time-out never runs and is no action.
A push whose reply is lost is repeated (`services/relay/relay.py:311`) and leaves a
second copy, with a response of its own, so two relays may hold responses of one
transaction. `AnsweredOnce` is about each copy. A caller whose response went to
another relay, or comes late, gets an error: nothing in the code promises it an
answer, and no property does.

### status_list

`StatusList.tla` has the records (`def`, `shards`, `creds`, the registry
`count`) and the requests. An assignment is `Start`, `Draw` (the transaction of
`generate_random_index`), `Look` (the unlocked read of the definition), `Mark`
or `Again` (the transaction on the shard) and `Bind`; a status update is
`ReadShard` and `SaveShard`, two steps, because it runs in a plain session.
`CreateDef` and `DeleteDef` are the routes. `Updates` says when the controllers
update statuses: never, only while no other request runs, or at any time. The index order of a list is any
permutation, chosen when the seed is.

`StatusBits.tla` is the arithmetic of the stored and the published bits: shards
kept in whole bytes, an entry found by shard, slot and width, slices assigned
as Python's `bitarray` does. `Feistel.tla` is `FeistelPermutation` with every
round key, with cycle-walking, as a machine that walks one entry at a time; it
shows the order is a permutation, which `StatusList` takes for granted.

### present_proof and connections

`PresentProof.tla` has a verifier and a prover with their exchange records
(`vrec`, `prec`). The plugin has no transactions and few state checks: a
handler reads a record in one session and saves the whole copy in another, so
every task (`vtask`, `ptask`) carries its copy from the read to the save, over
the look-ups and the verification (`VerifyPresentation`) or the wallet's work
(`CreatePresentation`). `ProofsMatch` says that what a record keeps belongs together
at each agent (`VerdictOfKeptProof`, `PresentedForRequest`) and that a prover told "true" has
proved something it was asked (`AckedIsProved`). Presentations say which request they answer and whether
they are sound, no more.

`Connections.tla` has the connection records of an inviter and the agents it
invites, its invitations (single-use, multi-use and by public DID), requests,
responses and problem reports. `FindOnce`, `FindMulti` and `FindPublic` are the
three ways `receive_request` finds the invitation; `SaveRequest` and
`SaveResponse` are the saves that end a handler.

### oid4vc and its authorization server

* `Oid4vciExchange.tla`: the exchange records from offer to notification, their
  refresh and deletion, nonces and the plugin's own token endpoint.
  `for_update` locks nothing in a plain session, so reads and saves are steps.
* `Oid4vp.tla`: the life of a presentation request: created under the client id
  of the moment, fetched once (`Fetch`, `Consume`, `Prepare`, `Hand`), answered
  (`Post`, `Verify`, `Save`), while definitions and the X.509 name change. An
  answer is taken in any state of the record, also before the request was fetched.
  `Bound` is what a format checks of the request: an `sd_jwt_vc` its nonce and client
  id (whether the signature of the key binding itself verifies is not looked at), an
  `mso_mdoc` that there is a nonce (the device's signature is optional), a
  `jwt_vc_json` nothing. Errors of a refused answer stay beside a later valid one.
* `ClaimsPath.tla` and `Dcql.tla`: `ClaimsPathPointer.resolve` one component at a
  time, and `DCQLQueryEvaluator`, as machines whose end is compared with a
  reference definition (`Denoted`, `Asked`). A credential whose verification raises
  (a malformed JWT, a format without a verifier) makes the whole answer invalid,
  also when others satisfy the query.
* `TokenService.tla`: the token service of a tenant in PostgreSQL. A request is one
  transaction of several statements with a remote signer in the middle; the row
  locks it holds follow from its `pc` (`HasCode`, `HasRefresh`, `HasSubject`);
  `BreakDeadlock` is the database ending one of two that wait for each other.
* `JtiReplay.tla`: proofs and client assertions that may be used once. What tells
  is whether the transaction that wrote the row is committed: a refused token
  request may do so (`Commit`), introspection never does and a grant whose subject
  was inserted meanwhile drops the row (`AnswerUnrecorded`), so the assertion of
  such a request passes again.
* `TenantKeys.tla` (the keys
  a tenant signs with and where verifiers read them) and `ProviderKeys.tla` (the
  cached keys of wallet providers) have clocks, bounded by `MaxTime`.

### webvh, cheqd, rpc, multitenant_provider

* `WebvhLog.tla`: one DID's log. A call of the controller goes through the
  rotation of its keys (`FindKeys` to `BindNext`), asks the witness (`Ask`),
  waits, and goes on, times out or is overtaken by the response handler
  (`Wake`, `TimeOut`, `MarkPending`, `ReceiveResponse`). `Mode` says whether an
  agent, the controller itself or nobody witnesses.
* `WebvhResource.tla`: the AnonCreds objects of that DID, with the links from a
  registry definition to its lists. `Receive` and `Keep` to `Drop` are the
  response handler that finishes a registration the call left waiting. A pending
  request has a record of its own and is listed in one index of all of them, which is
  read and written back in two sessions (`ThenIndex`, `ReadIndex`, `WriteIndex`); a
  response finds the record by its id, a retried registration only by the index
  (`Listed`). `unlisted` marks a request that an update of the index has dropped.
* `CheqdDid.tla` and `CheqdRegistry.tla`: operations of two calls of the registrar
  each, with what the wallet writes before, between and after them; any call may
  fail, be refused, or be applied without an answer.
* `DidcommRpc.tla`: both sides' records of a remote call, the cache of record ids,
  and a network that loses and repeats.
* `MultiToken.tla`: the list of issue times in a token record and the latest one in
  the wallet record, for new wallets and for older ones.

### How the parts are composed

Components that share state are joined in one module: issuer and holder, verifier
and prover, relays and plugin instances, admin service and tenant service,
controller, witness and server. Components that only share a process are run side by
side: `MCStatus`, `MCDidComm`, `MCOid4vc` and `MCServices` instantiate several modules
over shared variables `v1`, `v2`, ..., and a behaviour is one of one part. This is an
arrangement of the checks only: the state spaces add up, they do not multiply.
`IssueCredential!ImplementsIssuance` (abstract: `CredentialIssuance`) and
`RedisDelivery!ImplementsDispatch` (abstract: `MessageDispatch`) are the refinements.

## 3 What the runs check

| Run | Module | Checks | |
|---|---|---|---|
| `issue_issuer` | IssueCredential | `TypeOK`, `OneCredentialPerThread`, `SentIsRevocable`, `AckedStoredOrReported`, `IssuerSteps`, `ImplementsIssuance` | holds |
| `issue_completes` | IssueCredential | `AutoIssueCompletes` (liveness) | holds |
| `delivery_dispatch` | RedisDelivery | `OneCopy`, `ImplementsDispatch` (with liveness) | holds |
| `inbound_taken` | RedisInbound | `RoutingConsistent`, `AcceptedIsTaken` (liveness) | holds |
| `status_lists` | StatusList, StatusBits, Feistel | `TypeOK`, `ListsInOrder`, `EntryGivenOnce`, `EncodingsRight`, `WalksEnd` | holds |
| `didcomm` | IssueCredential (holder), PresentProof, Connections, RedisDelivery with faults | `Types`, `GivenUpAfterAllPosts`, `StoredMatchesRequest`, `ProofsMatch`, `MultiUsePaired`, `HolderOnlyForward` | holds |
| `oid4vc` | TokenService, Oid4vciExchange, JtiReplay, TenantKeys, ProviderKeys, Oid4vp, ClaimsPath, Dcql | `Types`, `CodesOnce`, `SupersededUseless`, `ExchangeOnce`, `SpacedUses`, `KeysServed`, `AnswersApart`, `QueriesAnswered`, `DeactivationSeen` | holds |
| `services` | RedisInbound with faults, RedisDirectResponse, WebvhLog, WebvhResource, CheqdDid, CheqdRegistry, DidcommRpc, MultiToken | `Types`, `PolledIsRouted`, `AnswersMatch`, `OnlyAttested`, `ReportedPublished`, `RequestsKept`, `LedgerAgrees`, `StaysValid` | holds |
| `status_update` | StatusList | `UpdatesOwnEntry` | *violated* |
| `invitation_once` | Connections | `ServesOnce` | *violated* |
| `exchange_once` | Oid4vciExchange | `OneCredential` | *violated* |
| `tokens_together` | MultiToken | `StaysValid` | *violated* |

The four violated runs check what a docstring, a test, a comment and a README say and
the code does not keep when calls overlap: each is a read, a wait and a save of the
whole copy. A second update of a shard undoes the first; two requests are accepted
with one single-use invitation; two requests with one access token both get a
credential; of two tokens issued together one is refused. The findings in
`PROJECT.json` quote the sentences. Where the same statement is worth having for calls
that do not overlap, a passing run checks it with one task: `StaysValid` in
`services`, and `OneCredential` and `OneOpen` as parts of `ExchangeOnce` in `oid4vc`.

A property of `oid4vc`, `services`, `status_lists` or `didcomm` that is a
conjunction has a mutant for each conjunct worth breaking on its own.

What the passing runs show, and the bounds:

* **issue_credential.** Two tasks of one agent are the fewest that can
  interleave between a check and a write, and more of them do nothing that two in
  turn do not; the runs give two tasks to the agent their properties are about
  and one to the other. Two threads are needed because an offer moves a record to
  a new thread. `MaxCreds = 2` lets the library make a second credential for one
  exchange, which is what `OneCredentialPerThread` must prevent; `MaxReqs = 2`
  the same for requests: a task may hold the request or the credential that
  another task has replaced. `issue_issuer` removes every finished exchange (`AutoRemoves`),
  `didcomm` and `issue_completes` keep them. Two records of one thread are in `issue_completes`,
  whose liveness needs each message to find its own. `issue_completes` has
  `AutoRemoves = {FALSE}`: with automatic removal at the holder, a repeated offer that
  arrives after the removal starts a new exchange on the old thread, and the code has
  no way to tell.
* **redis_events, outbound.** Two deliverers race for each entry. `MaxRetries` is
  one (five in the code): a retry counter that can be off by one is off by
  one there too. With faults, copies of an entry can multiply without end (a
  repeated `rpush`), hence `MaxCopies` and `MaxPosts`; `GivenUpAfterAllPosts` is about
  the smallest number of posts, which the bounds do not cut.
* **redis_events, inbound.** Two keys and two instances are the fewest for a key
  to move and another to stay, and `inbound_taken` has one handler and no faults:
  with two handlers that write one key list, or with a handler that fails between its
  two writes, the code does lose a key, and the keys of a dead instance move only when
  another message for one of them arrives. `services` has two handlers of one
  key with a fault, which is all `PolledIsRouted` depends on, because no command takes a
  route away.
* **status_list.** Two concurrent requests over lists of two entries make
  each assignment cross a list change; shards of one entry make a list have
  several shards; five lists are the initial ones of two definitions and a change.
  Updates run alone there, because one that overlaps an assignment can unmark its
  entry, which is what `status_update` shows. `StatusBits` takes shapes that fill
  their bytes, leave room for a whole number of statuses or do not, and that divide the
  list or not. `PublishedIsStatus` is limited by what the getter does with the third kind
  (four statuses of three bits): it drops bits of a shard's last entry, so only the other
  entries read right, and the published list, which joins the shards, is out of place
  after the first. The routes accept such sizes. `Feistel` takes sizes 1 to 16, with all
  round keys of four rounds.
* **present_proof.** A verifier of two tasks and a prover of two tasks in a part each,
  and a third part of one task each where anything fails. Two presentations and two
  nonces let one replace the other. The exchanges are of one record: nothing a handler
  does depends on a second.
* **connections.** Three records and two requesting tasks: an invitation for several,
  and two requests of it. `MaxDid = 2` distinguishes the DIDs of two requests.
* **oid4vc.** Three requests on one code and four token pairs let two rotations race
  with a reuse of what both descend from; `MaxTries = 2` has a limit to miss by one.
  Exchanges: three with one request at a time, two with two. Clocks run to five or six
  with windows of one to three. Queries: values of three levels, all paths of up to
  three components, two credentials with alternatives. `Oid4vp`: two tasks, two nonces and two verdicts, a presentation
  definition that changes once in one part, a query and an identity that comes and goes in the other.
* **services.** `WebvhLog` runs with each witness mode, with one task and three
  operations, or two tasks and two, with faults and rotation as far as the state spaces allow
  (`Logs`: with a witness that attests later, one task or two and two operations); `WebvhResource` (`Objects`) with an endorsement for a schema approved by hand (two tasks and
  one request, or one task and two, with faults), a definition signed at once (two tasks and three
  requests, with faults) and a list (two tasks and two requests, one of them for its link or again for the list, with
  faults), and without one or with a self witness for a schema beside one or two lists of one registry. Two tasks on one
  index are the fewest that lose an entry. `CheqdRegistry` has a schema of two versions with two tags, one
  registration at a time, or two that overlap and fail; `ListIsOwn` is checked of the first
  only, because two overlapping creations of one name both pass the registrar's check.
  `AskedOnce` is of one call per object at a time, and excepts requests that the index has lost (`unlisted`). `MultiToken` has calls that do not overlap.

Every property of a passing run has at least one mutant in `PROJECT.json`: a plausible
bug in one definition with which TLC finds the property violated. The definitions
named `Bug: ...` in the modules are these bugs; the specifications do not use them.

`CHECK_DEADLOCK FALSE` is set where the system may stop: when the bounds are used
up, or when all messages are dealt with and no controller calls.

## 4 Fairness

* `IssueCredential!Fairness`: a coroutine that was started runs on (weak fairness
  of each task), and a message that stays to be received on a thread is received at
  last. The agent's transports retry, and `issue_completes`
  states what the route's docstring promises "if both agents are configured for
  automatic responses"; that run has no lossy transport. Controllers are given no
  fairness.
* `RedisDelivery!FairSpec`: the loops of a deliverer go on, and no
  entry is passed over for ever by `Pop` (strong fairness: the list is first in,
  first out) or `Fetch` (the sweep takes the lowest score first). No fairness for the
  success of a post. It is of `CalmNext`: Redis answers, no process stops and all endpoints are
  http, since a lost reply or a stopped process does lose messages.
* `RedisInbound!FairSpec`: handlers go on, and each instance starts and polls; also of
  `CalmNext`, without failing commands. No fairness for ageing or for messages that arrive.
* The other components state safety only: their code promises no progress beyond that
  of single calls, which time out or fail.

## 5 What is proved

`IssueCredential_proofs.tla` proves, for every number of records, threads and
tasks, every value of the settings and every bound:

* `TypeCorrect`: `Spec => []TypeOK`;
* `OneCredential`: `Spec => []OneCredentialPerThread`;
* `Revocable`: `Spec => []SentIsRevocable`.

They rest on one named assumption, `IssueCredentialAssumption` (the settings are
Booleans, the bounds natural numbers, `NoThread` is no thread), which TLC
evaluates in each run of the module.

`OneCredentialPerThread` is not inductive: it says nothing of records, and a
record could be about to issue a second time. `ThreadInv` adds what
keeps that from happening:

* `OpenUnsent`: a record that may still be issued has no credential yet on its
  thread, sent by anyone;
* `OpenApart`: two such records have different threads;
* `SentUsed` and `KnownSent`: the thread of a credential is in use, and the
  credential a record names is the one sent on its thread;
* `OfferBlank`: a task that makes an offer holds a copy without a credential, so
  writing it back on a fresh thread cannot bring an old credential to a new
  thread.

The proof first groups the actions by what they can disturb (`QuietStep`,
`OfferStep`, `IssueStep`) and proves each group once; the step lemmas then only
say which group an action belongs to. `Revocable` needs `IndexInv`: every index
that a task or a revocation record has is at most `created` and belongs to one of
them.

The same module goes on from there, with the holder and the messages:

* `StoredMatches`: `Spec => []StoredMatchesRequest`;
* `AckedStored`: `Spec => []AckedStoredOrReported`;
* `HolderForward` and `IssuerEdgesKept`: the step properties `HolderOnlyForward` and `IssuerSteps`;
* `Implements`: `Spec => ImplementsIssuance`, the refinement of `CredentialIssuance`.

Their invariant is `ExchangeInv`: `TypeOK`, `ThreadInv` and two more parts. `HolderInv` says of
each holder's record and each task's copy what survives when the record moves on under the task
(`RecordOk`, `TaskOk`): a task that stores a credential was started from "credential_received",
so the record has left the states in which a request could still replace the one being
answered; as long as the record waits for the task it still has the request, the credential and
the thread of the copy; and an acknowledgement is owed only on a thread on which a credential was
issued that is in the wallet, or on which a problem was reported (`Known`). `OfferInv` is the issuer's half: a credential is issued
only on a thread that was offered and a proposal's thread never is, so an acknowledgement
cannot meet a record that has only been proposed to. Each action is then shown to be one step
of `CredentialIssuance` or none, with the state functions `Offered`, `Issued`, `Reported` and `Acked`; that
a thread yields one credential is `OneCredentialPerThread`, which the proof of the step `Issue`
takes from `ThreadInv`.

`TokenService_proofs.tla` proves, for every number of codes, requests, token pairs and
guesses:

* `TypeCorrect`: `Spec => []TypeOK`;
* `OncePerCode`: `Spec => []CodesOnce`: a code or a refresh token gives one pair of tokens,
  and each wrong guess is counted;
* `Useless`: `Spec => []SupersededUseless`: what was rotated away, and what descends from a
  refresh token whose reuse was answered, is of no use.

The assumption, `TokenServiceAssumption`, is that a guess is allowed and that a code
is not a token number. The invariant `IInv` says what the locks are for. `CodeHeld` and
`RefreshHeld`: what a request has consumed is still good in the committed tables, and no
other request holds it. `FromUsed`: what a committed pair was issued for is used up, so a
commit, which holds something unused, is the first of it. `SubjectHeld`: while a revocation
has the subject's row nothing is committed, so the rows it saw when it started are all
there are when it ends. With `RefreshHeld` this closes the race the property is
about: a revocation waits until no token it will revoke is being rotated, hence no pair of
the family can be committed after it. The steps that change no table share `QuietStep`,
`ReuseStep` and `DoneStep`; each of the others has a lemma.

The parts beside it follow in the same module, each an `INSTANCE` with an invariant of its own:

* `Verifiable` of `TenantKeys` (`KeysServed`), if the grace period covers the longest token
  (`GraceCovers`): an unexpired token verifies with the keys served, and no revoked key is served.
  `KeyInv` says of the key of each such token that it is active or retired recently enough, and of what a
  signer or a cache read, with its time, that it was true then.
* `IssuedWasMade` of `Oid4vciExchange` with any number of requests at a time, and `OneEach` (a credential
  per exchange, one open exchange per refresh id) with one (`OneAtATime`; run `exchange_once` shows
  that two break it). `MadeInv` carries "issued means made" through stale copies; `AloneInv` says that the one
  request's copy is the record.
* `UsesSpaced` of `JtiReplay`: a JWT that a committed transaction left a row of is accepted again only after
  that row has expired. `JtiInv`: a row outlasts every row before it, and one request holds it between check
  and the end of its transaction.
* `ProviderForgotten` of `ProviderKeys`: `DeactivationSeen`, how long the keys of a deactivated provider are
  trusted. `PvInv`: a row that was read as active was read before the deactivation, and a cache entry
  made from it is no younger than the wait of the handler that read it allows.
* `TokenAccepted` of `MultiToken` (`StaysValid`), if calls do not overlap (run `tokens_together` shows that
  overlapping ones break it). `WalletInv`: a wallet with tokens has one record, which lists every
  token that has not expired; `Holding` says what a call has read and not yet saved. The lemma `RemovedKeeps`
  says that dropping expired times from a list keeps the others.

`StatusList_proofs.tla` proves, for every number of definitions, credentials, requests and
statuses and all sizes of lists and shards:

* `TypeCorrect`: `Spec => []TypeOK`; `InOrder`: `Spec => []ListsInOrder`;
* `GivenOnce`: `Spec => EntryGivenOnce`, `EntriesApart`: `Spec => []OneEntryEach` (no two
  assignments have the same entry) and `OwnEntry`: `Spec => UpdatesOwnEntry`, these three if
  `Updates # "any time"`.

That hypothesis is needed: with updates at any time TLC violates `UpdatesOwnEntry` (run
`status_update`), and an update that overlaps an assignment frees the entry it took. The proof
shows where it enters: `SavesAlone` says that the copy an update holds is still the shard. `ListInv`
is what assignments rely on: a definition's two lists differ, all shards of its lists exist, no
two definitions share a list, and what a request read names a list of a definition that exists or
has been deleted, never one to come. `ShardOfIndex` is the arithmetic: every index of a list falls
into one of its shards, whether or not the shard size divides the list size. `MarkInv` adds that
an entry once given stays marked as long as its shard exists (`GivenMarked`), and that bound
entries, and those about to be bound, are apart. An index is drawn in one transaction and
marked in another, from a list that may have changed in between; the second transaction looks at
the mark, and `GivenMarked` makes the mark mean what it should.

`RedisDelivery_proofs.tla` proves, for every number of messages, deliverers and retries:

* `TypeCorrect`: `Spec => []TypeOK`, and `GivenUpLate`: `Spec => []GivenUpAfterAllPosts`, with lost
  replies, doubled entries and processes that stop;
* `OnlyOneCopy`: `FairSpec => []OneCopy`, and `DispatchSteps`: `FairSpec` implements the initial
  condition and the next-state relation of `MessageDispatch`, both if `~RedisFaults`.

`GivenUpAfterAllPosts` rests on `RetriesMade`: the retries an entry carries, wherever it is, are at
most the posts made of its message. `OneCopy` needs `OneInv`: a pending message has exactly one
place (`Held(m)` is a singleton) and any other message none, and the entry's retries are exactly
the posts made. `Held` is split into its four parts, so that a step is a move from one part to
another, proved once (`MoveKeeps`); the interesting step is `Remove`, where the entry a second sweep
fetched is no longer in the retry set and is skipped. `~RedisFaults` and `CalmNext` are what
the property is about: a reply that is lost, or a process that stops, does lose or double a
message, as the code's comments accept. That pending messages are posted at last, the fairness of
`MessageDispatch`, is left to TLC.

`RedisInbound_proofs.tla` proves, for every number of keys, instances and messages:

* `TypeCorrect`: `Spec => []TypeOK`, and `ListedIsRouted`: `Spec => []PolledIsRouted`, for any number
  of handlers and faults;
* `OneOwner`: `FairSpec => []RoutingConsistent` for one handler.

`RouteInv` says that every key in a handler's local copies was routed when it was copied, that a
handler has the uids it is about to use, and that an instance lowers only a count it read as one
or more. No command takes a route back, so this survives what other handlers do. `SoleInv` is
about the single handler: `Fits` says, for each command it has reached, which of its copies are
still what Redis has and which key is on no list or not yet on the new one, and `Live` that
nothing is given to an instance that has not started, whose first command empties its
list. Two handlers, or one that fails between two commands, violate the property (TLC finds it
at once), so neither hypothesis can be dropped.

`AnsweredByOne` is about `RedisDirectResponse`, for any number of relays, callers and repeated pushes: each
copy of a message that was pushed has one response, kept by one relay, whichever popped it.
`DirectInv` places each copy: on the inbound list, on the list of responses, with one relay, or nowhere.

`WebvhLog_proofs.tla` proves, with no assumption on the constants, for any number of operations
and concurrent calls, each witness mode, with rotated keys or not and with failures or not:

* `TypeCorrect`: `Spec => []TypeOK`;
* `OnlySigned`: `Spec => []SubmittedAttested`, and `DocumentsPublished`: `Spec => []SuccessIsPublished`;
* `ApprovalsKept`: `Spec => []ApprovalKept`, and `SignaturesSubmitted`: `Spec => []SignatureSubmitted`.

`LogInv` follows an entry from its call to the server and back. `EntryInv`: an operation belongs
to one call until its entry is signed, so nobody else can ask for, attest or publish it, and the
versions of the log count on. `WitnessInv` says what each place of a call is a proof of
(`Justified`): a call that submits or answers has the attestation, a handler that notes one has
a response that was sent, and a caller that is woken finds its entry in the log. `KeysInv` is about rotation: a rollback puts back none but keys that were made. The
race of the time-out with a late answer is in `SignaturesSubmitted`: the handler of a response needs
no record, so a signature is used whether the call has saved one yet, waits or has given up. `OthersWait`
says that nobody moves a handler on but itself, `SentStays` that nothing else takes a response away.

The same module goes on with the objects that are registered beside a log:

* `ObjectsAttested` and `ObjectsTyped` of `WebvhResource`, if status lists are objects of their own
  (`KindsApart`): with a witness, each object or list that is on the server, linked or finished was
  attested; of the registry definition this is not so, see section 6. `ObjectInv` says that
  what a request, a call or a handler carries as signed was asked for and attested; attestations are
  never withdrawn, so a copy stays true.
* `FinishedThere` of `WebvhResource` (`FinishedUploaded`), in two cases. `PlainInv` says that without a witness
  agent no request is answered, so that no handler ever runs, and that a call which links or finishes has
  uploaded its object before. `DoneInv` is about a witness agent: a handler that wakes a call has uploaded
  what its request is of, and a call that was woken, or is about to return, is of that object, or of a
  list of the same registry.
* `ObjectsAskedOnce` of `WebvhResource` (`AskedOnce`): `AskedInv` says that calls that overlap are of different
  objects, and that a call about to ask, or to save what it asked, finds no other record of its
  object, unless an update of the index dropped it (`unlisted`). `FirmListed` says that any other request on record is in
  the index, or that the call which made it is about to list it. Most steps are `Undisturbed`: records go and do not come back, and new requests have
  none or are of the registry's definition. A controller that is its own witness looks for no
  record, hence the hypothesis `Looked`: such a controller signs at once.
* `RegisteredStays` and `OwnListFound` of `CheqdRegistry`: what a caller was told is registered is on the
  ledger under the id reported, with any overlap and failure; and the list found for a registry, as
  the latest at some time, is its own, if registrations come one at a time (`OneCall`). `RegInv` says that
  an object refers to an earlier one, and a list to the registry with its name; `NamesInv`
  that no two registries share a name; `ObjectsLinked` is its first half as the run states it. That there is a latest list at all (a finite set of
  numbers has a largest) comes from the well-foundedness of `<`.
* `KeyBound` and `WalletIsTrue` of `CheqdDid`: a DID on the ledger has its one key bound in the wallet; the
  endpoint in the wallet was published, and a flag of deactivation is true. `DidInv` says that one call
  at a time creates a DID, that its key is bound before it signs and while nothing is on the ledger,
  and that copies of wallet records, which a call saves late, are true of a ledger that only
  grows (`OnlyGrows`). The hypothesis `GivenAlone` (documents that callers bring come one at a time) is
  needed: with two, each call binds a key from its own seed.

`Connections_proofs.tla` proves, for any number of records, invitees, tasks and DIDs and every
kind of invitation:

* `TypeCorrect`: `Spec => []TypeOK`, and `MultiPaired`: `Spec => []MultiUsePaired`, both if the
  kinds of invitations and the settings are values the routes take (`Sensible`).

`MultiUsePaired` relates the records of two agents, each of which writes back stale copies. On the
invitee's side `Accepted` says that a record in "response" has the DIDs of one response that was
sent, and `Accepting` that a task about to save one does so into a copy with that response's
addressee. On the inviter's, `ServedInv` and `TaskInv` say of a record made for one
request that its DID is fixed when it is made, that its only task until the request is attached is the
one that made it, and that every later copy has both DIDs; so whatever is saved over it, a
response that was sent is still of that record (`AnswerInv`). The inviter's half holds while no
record has been removed, which is also what the property says; the invitee's half always.

It also proves `CallsAnswered` of `DidcommRpc`, for any number of calls: an answer that a requester has is
one that was given to its request, and no response that came is refused. The tag with the thread is
written after the request has been sent, so a response may be faster; `RpcInv` says that every
request under way has exactly one record with its tag, that the ids in the cache are of those
records, and that two calls about to tag do it on different records and threads.

`PresentProof_proofs.tla` proves, for any number of exchanges, threads, tasks, nonces and
presentations:

* `TypeCorrect`: `Spec => []TypeOK`, and `ProofsBelong`: `Spec => []ProofsMatch`, both if the
  settings are Booleans (`Sensible`).

What is true of a record must be true of every copy of it, because any copy may be written back
at any time: `VGood` and `PGood` are about both, in terms of messages that were sent, which stay
sent. `VGood` says that a sound proof the verifier has was presented on the record's thread, and
that a verdict is of the proof and the request beside it; `PGood` that a prover's request was
made on its thread. Together with the same of messages (`SentGood`, `ToldGood`) they give
`AckedIsProved`, which goes from the prover's record through the ack, the verifier's copy and the
presentation back to the request. `VerifierKeeps`, `ProverKeeps` and `MessagesKeep` reduce a
step to what it writes.

The second part of the module is about `Oid4vp`: `RequestsTyped`, and `RequestsAnswered`, that a request
object is handed out once, that an honest answer to it is accepted while the definition is the
same, and that the verdict kept is of one answer, both for `BoundsSet` (the bounds are numbers). The
exception is part of the statement: an answer that is posted before the request was fetched takes a
copy of the record without a nonce, and written back late this copy makes the record useless to
formats that need the nonce. `VpInv` says that every copy of a presentation record with a nonce has
the nonce and the client id that were handed out, that one without needs such an early answer
(`EarlyOne`), and that whoever consumed a request is alone with it until it is handed out.

The assumptions on constants are the modules' own (`...Assumption`), and TLC evaluates each
in a run. In the modules that the runs only instantiate they are hypotheses of the theorems
instead: `Sensible`, `KindsApart`, `BoundsSet`, `ClockSet` and `TimesSet` (kinds are apart, settings are
Booleans, bounds are numbers), and the configurations a theorem is about: `GraceCovers`, `OneAtATime`,
`OneCall`, `GivenAlone`, `Looked`. For each of them a run has values that satisfy it.

Only model-checked:

* liveness under fairness, which the prover does not reach: `AutoIssueCompletes`,
  `AcceptedIsTaken`, and the fairness part of `ImplementsDispatch`;
* what `Feistel`, `StatusBits`, `ClaimsPath` and `Dcql` compute for sizes beyond the ones run,
  which would need induction over data (`EncodingsRight`, `WalksEnd`, `QueriesAnswered`);
* the type invariants (part of `Types`) of `Oid4vciExchange`, `ProviderKeys`, `CheqdDid`, `DidcommRpc` and
  `MultiToken`, which are within reach: the invariants above contain most of them.

## 6 What is left out, and why

* In `issue_credential` and `present_proof`: connection-less and out-of-band exchanges,
  whose records are found in another way; the cache of credential requests, except for
  its effect, that an earlier request may come back; the content of previews, schemas and
  attributes; the listing routes. Database transactions are taken to be
  serialised by their record lock, and a failed commit is the same as one rolled back.
* In `redis_events`: the forwarding of webhooks and events, which pushes and forgets;
  the contents of payloads; scores and delays in the retry set (a sweep may
  fetch any waiting entry, which allows more than the clock does).
* In `status_list`: the publication of signed lists to files and its schedule;
  the listing routes; other ways to identify a credential.
* In `connections`: mediation and routing keys, static connections, endpoints.
* In `oid4vc`: metadata documents, signatures and encodings (a Boolean each), the
  evaluation of presentation definitions by JSON path and JSON schema libraries, the
  administration of tenants, expiry of codes and tokens (rows only get older).
* In `webvh`: setting up the witness connection, watchers, the whois presentation,
  resolution, the index of a log's pending records (no operation finds a record by it), wallet
  sessions that fail. In `cheqd`: resolution, formats of requests. In
  `rpc`: the JSON-RPC validation. In `multitenant_provider`: choosing the manager class.
* The parts marked `not_modelled` in `PROJECT.json`, with the reason there: they
  translate to an outside library, or take no second step.

What the models and the reading showed beside the findings, where the code promises
nothing that a run could refute:

* `issue_credential`: an offer that answers a proposal gets a thread of its own
  (`manager.py:304`), so the holder's proposal record is never found by it.
* `redis_events`: pending counts are lowered by a read and a write (`inbound.py:123`) while
  relays increment them; a websocket endpoint that refuses ends the deliverer
  (`deliver.py:136`); a removal whose reply is lost drops its message (`deliver.py:200`).
* `status_list`: marks that land in the next list use up its ten draws (`status_handler.py:225`).
* `oid4vc`: overlapping calls leave two open exchanges of one refresh id (`routes/exchange.py:271`).
* `webvh`: `_fire_pending_event` is called with its arguments swapped (`did/manager.py:639`); a
  pending record saved after its answer (`did/manager.py:151`, `registry.py:1142`) comes back, stays and blocks retries; the
  links of a registry definition are uploaded without the witness by a call that was woken or that waits for nobody
  (`registry.py:429`, `:505`), while the docstring of `add_revocation_list_link` (`:644`) says of the
  handler's path that the update is sent for approval; updates of the index of pending records that overlap
  drop an entry (`base_record.py:113`, `:165`), and a retry then asks the witness again; with an endorsement
  "finished" and the link to a list are written before the upload (`attested_resource/handlers.py:158`) and stay
  when it fails; the test for the first version takes versions 10 to 19 for it and stores the DID once more
  (`did/manager.py:657`; the model tests the number); rotation unbinds the update key before it finds that
  the next one is missing (`did/manager.py:739`); a definition attested before
  the issuer stored it stays waiting; a self-witness approval of a resource calls the upload with
  the wrong number of arguments; a pending request for any list of a registry is taken for the
  asked one (`record.py:18`); a rejected update leaves the wallet's keys rotated.
* `cheqd`: setting the endpoint of a DID that is not posted writes it and then raises
  (`did/manager.py:360`); metadata read before an await can undo "deactivated"; an import
  stores the caller's metadata as they are, an endpoint or a flag of deactivation included (`routes.py:507`), where the model's
  `Import` brings none: `EndpointPublished` and `FlagIsTrue` are about records without them.
* `rpc`: a repeated request makes two records, and the response route then fails; a second
  response replaces the first.
* `multitenant_provider`: records share one default list (`models.py:31`); the key of an older
  wallet's first call is kept, right or wrong; a second use of an expired token raises.
* `firebase_push_notifications`: two sends that overlap pass the rate limit together
  (`manager.py:66`).

## 7 Plan

The modules of the first plan are written, but for `RedisCache` and `PushNotifications`
(see above). What is left, in this order:

1. Theorems: the type invariants named at the end of section 5.
2. An abstract specification of a token family, implemented by TokenService, and of a
   witnessed log, implemented by WebvhLog.
3. RedisDelivery and RedisInbound under the messages of IssueCredential: the transport
   that loses and repeats, as a refinement of its sets of messages.
