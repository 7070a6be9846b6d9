# A verification of the mobility demonstrator and its agent

This directory holds TLA+ models of the demonstrator in `src/` (a ticket sale in
which a traveller's wallet proves a credit card and is issued a ticket) and of the
agent it runs on, the TLC configurations that check them on small instances, and
theorems about them whose proofs the TLA+ proof system (TLAPS) checks for all
instances.

`A` below stands for `src/aries-cloudagent-python/aries_cloudagent`.
`PROJECT.json` maps every definition to the lines it models and lists the runs,
the mutants, the hazards and the theorems.

## 1. The system

    traveller's wallet  <-- DIDComm -->  ACA-Py agent  <-- admin HTTP --  MSP_server.js
       (a phone app)                       |   |   \------ webhooks ----->  (bookings)
                                           |   |
                                      von-network  tails server
                                      (the ledger) (accumulator files)

`docker-compose.yml` starts one such column for each of four roles: the credit
card issuer, two mobility providers (transport tickets) and the inspector.
Every server is the same program, `MSP_server.js`, with another `--schemaName`
and `--name`; every agent is `aca-py start` with
`--auto-respond-credential-proposal/-offer/-request`, `--auto-verify-presentation`
and `--webhook-url`. The web app (`jreact`) shows links and keeps no state.

The agent is one asyncio process. Nothing runs in parallel, but every `await` of
storage, ledger, wallet or network is a point where other handlers run, where the
handler may be cancelled, and after which what it read may be stale. Storage
writes whole records; there are no transactions and hardly any locks. That is
where most of the hard behaviour comes from.

### Components

| component | state | operations | hard about it | what makes it correct |
|---|---|---|---|---|
| `MSP_server.js` | `bookings` (in memory), schema and credential definition | `/getInvitation`, `/webhook/topic/*`, `bootstrap` | webhooks in any order, posted again, lost; calls not awaited; restarts forget the bookings | a ticket only for the trip booked and a name proven on its connection; a proof that holds is followed by a ticket; one ticket a visit |
| connections 1.0, DID exchange, trust ping (`A/protocols/connections`, `didexchange`, `trustping`) | a connection record on either side | invite, request, response, complete or ping, with and without an admin | two requests for one invitation; the same message twice; copies saved late; a cached lookup | both sides agree on the DIDs; completed means that the other side accepted; an invited peer gets connected |
| present_proof 1.0 (`A/protocols/present_proof/v1_0`) | an exchange record on either side | proposal, request, presentation, verification, ack | presentations received again while one is verified; two requests in one exchange | the result stored is of the proof stored; a valid proof is accepted; exchanges end |
| issue_credential 1.0 (`A/protocols/issue_credential/v1_0`) | a record of the exchange on either side | the message handlers and the admin routes | handlers save stale copies; repeated and late messages; failing or restarted in the middle | one credential; acknowledged means stored; what was removed stays removed |
| registries (`A/revocation`, `issue_credential/v1_0/manager.py`) | registry records from `init` to `full`; the ledger | staging in the background, choosing, filling, retries | tasks lost between ledger and record; calls racing for the last credential | credentials only of registries on the ledger; who tries again is served |
| revocation (`A/revocation/manager.py`) | `pending_pub` of the registry record; wallet; ledger | revoke, publish, clear | three stores updated one after the other, from copies | a mark is not lost; each revocation is sent once; the ledger follows the wallet |
| ledger pool (`A/ledger/indy.py`) | handle, reference count, lock, delayed close; schemas and credential definitions | enter, leave, close; publish | a close cancelled or failing halfway; a client that leaves while its operation goes on; a lost answer | nobody uses a closed pool; a pool not used is closed; what is returned as published is |
| inbound sessions, delivery queue, routing (`A/transport/inbound`, `A/core/conductor.py`) | sessions, a response buffer each, undelivered messages | return route, route, wait, close, pick up | a session that closes while its response is packed; a list changed while it is walked | a message is held once, and does not stay |
| outbound queue (`A/transport/outbound/manager.py`) | messages with state and retries, a process task, an event | enqueue, encode, post, retry, report | a message that changes while the process task looks elsewhere | every message is delivered or reported, not both |
| cache (`A/cache`) | entries and a lock per key | acquire, set_result, release | cancellation of owner or waiters, expiry between result and use | one computation; nobody waits for ever |
| task queue (`A/utils/task_queue.py`) | pending and active tasks, a drain task, an event | put, run, drain, cancel, complete | a missed wake-up; cancellation at any point | the limit; nothing forgotten; nothing starts after cancel |
| tails server | files | PUT, GET | partly written files | not modelled |

How they meet: a webhook leaves the agent through the outbound queue
(`OutboundTransport`), whose retries are why `TicketSale` lets a webhook be posted
again. What the outbound queue gives up comes back to `InboundTransport`, which
keeps it for a session of its peer. The server's connection and its request for
proof are one `Connection` and one `PresentProof`, whose repetitions `TicketSale`
keeps. Its call to issue a ticket starts `IssueCredential`, whose
`create_credential` is the one `RegistryRollover` takes from a registry.
`RegistryRollover` and `RevocationPublishing` write to the ledger through the pool of
`Ledger`. The records of all protocols are `BaseRecord`s behind the cache whose lock
is `CacheKeyLock`. Handlers run on the `TaskQueue`.

## 2. The modules

| module | models | state and actions against the code |
|---|---|---|
| `TicketSale` | `MSP_server.js`, with its agent's connections and exchanges | `role` is fixed at the start, so one run covers every server; so is `setting`: who visits, and what may go wrong. `booking` is `bookings`; `Post` is the webhook handler, `OnConnection` and `OnProof` what it asks the agent for, in `calls` until the agent answers (`RequestProof`, `IssueTicket`) or the call is lost. `conn`, `handler`, `proof`, `present` are the agent's records and running handlers. |
| `TicketOffice` | abstract: book, then prove, then sell | implemented by `TicketSale` (property `SellsTickets`, theorem `ServesAsOffice`) |
| `Connection` | connections 1.0 and DID exchange, an inviter and its invitees, with trust ping | `recs` are the inviter's records, `hand` its handlers with the copies they save; `inv`, `ask`, `take` the same of each invitee. `setting` says which protocol, whether the invitation is for many, and whether admins accept. A request is looked up twice, as in the code: by the dispatcher (`ReceiveRequest`, with `cached`, the cache of `find_inbound_connection`) and by its handler (`FindInvitation`). `uncached` records whose request was handled without being cached, or is no longer. |
| `PresentProof` | present_proof 1.0, a verifier and a prover | `vrecs`, `precs` are the records, `vhand`, `phand` the handlers with their copy and message. A handler reads (`ReceivePresentation`), saves (`StorePresentation`) and goes on to `Verify` if it is automatic. A request is its nonce; a proof says which it answers. |
| `IssueCredential` | one exchange of issue-credential 1.0, both sides | `rec` are the stored records, `job` the handlers with the copy each carries and the `await` it is in; `net` counts the copies of each message. An action is the code between two awaits: `CreateCredential` then `SaveIssued`, `StoreCredential` then `SaveStored`. `Restart`, `HandlerFails`, `RemoveRecord`, and the expiry of the cached request (`ExpireRequest`, recorded in `lapsed`), may come between any two. |
| `CredentialIssuance` | abstract: issue, store, confirm | implemented by `IssueCredential` (property and theorem) |
| `RegistryRollover` | the registries of one credential definition | `state` and `written` keep the record and the ledger apart, so a task may stop between them; `pc` walks `issue_credential` through choice, retries and the full registry |
| `RevocationPublishing` | `revoke_credential`, `publish_pending_revocations`, `clear_pending_revocations`, a registry becoming full | `pending` and `full` are the stored records; a `call` holds the copies it read and writes them back whole, the `crids` it took up of a registry and the `failed` ones; `revoked` is the wallet, `ledger` the ledger. `asked`, `marked`, `told` record what callers wanted and were told, `swept` the marks cleared that nobody asked to clear. |
| `Ledger` | `IndyLedger`: the pool, and publishing a schema or a credential definition | `lockq` is `ref_lock` with those that wait, in order; `refs`, `closer` are `ref_count` and `close_task`. A request (`hand`) and its shielded operation (`op`) are two processes: the first may be cancelled while the second goes on. |
| `InboundTransport` | sessions, `wait_response`, routing, undelivered messages | a session has a `buffer` for one response and a `waiter`; `heldBy` says in whose hands a message is; a message that was sent or given up is followed by the next of its kind. `queueByKey` is `queue_by_key`. `ProcessUndelivered` is the walk of the queue at the end of a handler. |
| `OutboundTransport` | `OutboundTransportManager` without `stop` | `place` and `st` are the queue a message is in and its `state`; `Pass` is one pass of the process task, one step as it awaits nothing |
| `CacheKeyLock` | `BaseCache.acquire`, `CacheKeyLock`, one key of the in-memory cache | `keyLock` is `_key_locks[key]`, `future` and `parent` the fields of each lock object, `callback` the done-callbacks the loop has yet to run |
| `TaskQueue` | `TaskQueue` | `pending`, `active`, the drain task (`drain`: about to look, waiting, done) with its event |

`MC*` modules give the constants values; `*Proofs` modules hold the proofs. Where one
of them is about several components (`QueueProofs`, `RevocationProofs`) it extends all of
their modules, so that names that would clash have a prefix there: `InboundSpec`,
`LedgerSpec`, `RolloverSpec` are the specifications, `InboundTypeOK` and so on the rest. A
definition marked `Mutant` is a plausible bug of the definition after it; each
property below is known to fail under one. Where a module has a variable `setting`,
it is chosen at the start and never changed: one run then covers several ways to
set up the agents, each with its own measure of what may go wrong.

## 3. The runs

Every bound is a constant of a `.cfg` or a field of a setting. Deadlock is not
checked: all these systems may come to rest (all messages handled, all calls made).

| run | what it shows | bounds, and why they are enough |
|---|---|---|
| `sale` | `SellsTickets` (the refinement), `OneEach`; `ProofSells` | one visitor whose wallet sends everything twice; two visitors at once, so that their webhooks mix; one visitor in a world where posts, calls and answers get lost and the server restarts once. Two posts of each webhook. |
| `connection` | `Agreement`, `CompletedIsKnown`; `Connects` | two invitees with one invitation, two requests each, an inviter that does two things at a time or one; twelve settings, of both protocols, invitations for one and for many, automatic or not, with up to two faults. The two lookups of a request are two steps, so a second request may come between them. |
| `present_proof` | `VerifiedIsOfStored`, `ValidIsAccepted`; `Completes` | one exchange, as exchanges share nothing, begun by either side; two handlers on each side; answers that come twice, or a fault; five settings. The first two properties also hold with two faults, and are proved. |
| `issue_race` | `AckMeansStored`, `RemovedStaysRemoved`, `IssuanceSpec` | two handlers of the issuer and one of the holder, two records of the holder, two requests and credentials; one repeated message and one failure, restart or removal anywhere. Two handlers on both sides are too many states: the theorems `AckIsHonest` and `Implements` are for any number. So is the cached request that expires (`Lasting` FALSE, though a restart may lose it): the theorems include it. |
| `issue_serial` | `IssuedOnce`, `ReceivedCanBeStored`; `OfferReachesWallet` | one handler of each side, two records and two requests each, two repetitions, all steps automatic, no failures; the cached request may expire at any moment (`Lasting` TRUE) |
| `rollover` | `IssuedOnLedger`; `Served` | two calls on registries of two, the first of which may have one left: so one call can get the last credential and the other find none. One lost task or call; eight registries are more than the behaviours need. |
| `revocation` | `OneDelta`, `LedgerFollows`, `MarkStays`, `ToldIsTrue` | two operations of any kind at once, on two credentials of one registry, not failing; or in turn, failing or lost anywhere, on three credentials of two registries, with any selection |
| `ledger` | `InsideHasPool`, `ToldIsPublished`; `PoolCloses`, `EveryRequestEnds` | two requests, of either kind, made any number of times: one enters while the other leaves, waits or is cancelled and the closer sleeps, waits or closes. One reference may leak. |
| `inbound` | `HeldOnce`; `BufferDrains`, `PickedUp` | an HTTP request and a WebSocket of one peer, which sends on it without end, and messages of two kinds for it without end, of two threads, one packed already: they compete for one buffer, stand behind each other in the queue, and a handler's own reply may be in the buffer whenever it ends |
| `outbound` | `NothingOverlooked`, `NeverBoth`, `LeavesNoticed`; `EveryMessageLeaves` | one message of each kind, `MAX_RETRY_COUNT` 2 instead of 4: every interleaving of three post/retry cycles |
| `cache_lock` | `OneComputation`, `SharedResult`, `WaiterHasProducer`; `EveryCallerEnds` | four callers: an owner, two waiters and a later first caller, so a release by one generation can meet the next. Cancellation, failure and expiry are unbounded. |
| `task_queue` | `PendingIsServed`, `NothingStartsAfterCancel`; `PendingEnds`, `CompleteEnds` | three coroutines and a limit of one: two pending behind an active one, and `run` taking the room. The first two are proved for any number and limit. |

What the properties keep out, and why:

- `MarkStays` is of operations in turn: two at once do lose marks, as `mark_pending`
  saves a copy read in another session
  (`A/revocation/models/issuer_rev_reg_record.py:298`), and may turn a full registry
  active again. It is also of `revoke_credential` without `publish`, and of marks that
  `clear_pending_revocations` was asked to leave but sweeps away (`swept`), see 5. That
  it holds of the others does not say that the code does what its docstring says.
- `ReceivedCanBeStored` is of a holder whose cached request has not lapsed, by its 3600 s
  or a restart: a request made anew has other metadata, and a credential issued for the
  first cannot be stored with it.
- `IssuedOnce` is of one handler at a time: an admin call racing the automatic issue
  creates two credentials, which the FIXME in
  `A/protocols/issue_credential/v1_0/manager.py:641` concedes. `issue_race` says what
  remains true then.
- `Agreement` and `CompletedIsKnown` are of an inviter no two of whose handlers work on
  one record (`OneHandler`); `CompletedIsKnown` is of invitees whose request is in the
  cache, see 5. A variant without that condition fails in the run's own settings
  (connections 1.0, an invitation for many), without any expiry or fault but a request
  that comes twice.
- `OneEach` is of calm settings and of wallets that do not repeat their request or their
  presentation.
- `PickedUp` is of a peer with one key, of which handlers end again and again with the
  response buffer empty, see 4.
- `ValidIsAccepted` is of a verifier that asks by itself or does one thing at a time,
  and has one record of the thread.
- `ToldIsPublished` is of a DID that may write to the ledger.
- `Served` is of tasks that do not stop while their registry is `posted`, see 5.

Each of these exceptions is what the code does, and was found by TLC as a
counterexample to the property without it.

## 4. Fairness

- The event loop runs every task that can run: `WF` on the steps of handlers, of
  the drain, process and closing tasks, of staging tasks and waiters. asyncio's ready
  queue is a FIFO, and so is the lock of the pool (`lockq`).
- Calls of wallet, ledger and network end, well or badly: `SetResult` or `NoResult` of
  the cache lock, posts (aiohttp has timeouts), `OutboundEnds`, `Operates(r) \/ Fail(r)`,
  the closer's sleep. Tasks that were cancelled end. `PendingEnds` states the
  assumption it needs, `TasksEnd`.
- Messages that were sent and not lost arrive (`issue_serial`, `connection`,
  `present_proof`): the outbound queue retries, and `EveryMessageLeaves` is about when
  it gives up. `Connects` and `Completes` promise nothing once a message was lost or
  anything failed (`faults > 0`), as neither protocol sends a message again by itself.
- Administrators accept, answer and verify what waits for them (`AcceptRequest`,
  `SendBoundRequest`, `VerifyPresentation`, `SendPresentation`), where agents are set to
  leave that to them: otherwise exchanges stop there, as they are meant to.
- Nothing makes a traveller, a wallet or an administrator begin anything: no fairness
  on `Visit`, `ReadInvitation`, `Present`, `Put`, `Cancel`, `SendProposal`. Two
  exceptions: `IssueAgain` in `RegistryRollover`, as `Served` promises a credential to
  who tries again (its constant `Timely` says that staging takes no longer than the
  sleeps between two tries; without it retries can use themselves up for ever); and
  `PickedUp` is of a peer that keeps a WebSocket open for all its responses, when handlers
  of what it sends end again and again with no response in the buffer, their own reply
  included: that is when `dispatch_complete` looks for undelivered messages
  (`A/transport/inbound/manager.py:186`). That a peer keeps sending is not enough: if
  every message of it is answered, the reply may be in the buffer whenever a handler
  ends, and TLC finds the behaviour in which the undelivered message stays for ever.
- `ProofSells` is of a calm setting: nothing of the server's is lost, and bootstrap is
  over before the first visit. Otherwise the code does lose tickets (a call that fails
  is not made again).

## 5. Where the code departs from what it says, or from what one expects

All modelled as the code does it; the properties of section 3 are of what remains true.

Revocation and registries:

- `revoke_credential` with `publish` drops `failed_crids` and clears every mark of the
  registry (`A/revocation/manager.py:96-103`); a credential the wallet refused stays
  unrevoked and unmarked.
- `clear_pending_revocations` clears registries its map does not name: `:201` of
  `A/revocation/manager.py` passes `None` for them, which `clear_pending` takes for all
  (`A/revocation/models/issuer_rev_reg_record.py:300-316`). The docstring (`:188`) says "no
  pending revocations from any other revocation registries", and
  `A/revocation/tests/test_manager.py:343-346` and `:369-372` expect the marks of the
  registry not named to remain; their `clear_pending` is a mock, so they pass. Without
  `\ swept` in `MarksKept`, `MarkStays` fails in the run `revocation` by such a clear.
- A registry record in state `posted` whose task is gone keeps `issue_credential` from
  creating another, so that once no registry is active every call fails for good
  (`A/protocols/issue_credential/v1_0/manager.py:533`).

Issuing:

- The holder's request is cached for 3600 s
  (`A/protocols/issue_credential/v1_0/manager.py:408-413`). An offer that comes again
  later, or after a restart, gets a new request with new metadata in its record, and a
  credential issued for the first request cannot be stored.

Connections:

- A single-use invitation used by two requests at once has its record overwritten.
- A multi-use invitation of connections 1.0 leaves a new record in state `invitation`
  with the same key, so that a concurrent or rejected request makes the invitation
  ambiguous for good; one of DID exchange makes its record in state `request`, so that
  an admin can accept it before the handler saves it again.
- DID exchange saves its copy once more after the response was sent, over a `complete`
  that came meanwhile.
- A repeated request that is not in the cache completes a connection whose invitee has
  accepted nothing (`A/protocols/connections/v1_0/manager.py:952-958`). It is not there
  once the entry has expired or the inviter was restarted; and it never was if, in
  connections 1.0 with a multi-use invitation, the record just made for another request
  was for a moment a second one in state `invitation`: then the dispatcher's lookup fails
  with an error that is swallowed (`:967`), nothing is cached, and the handler's own lookup
  (`:476`), a moment later, finds the one invitation.

Proofs:

- A proposal that comes twice makes two verifier's records of the thread; presentations
  are then rejected for good, or, if one record is removed, a valid proof is found false.
- Two overlapping admin calls of send-request make two nonces, with the same end.
- `receive_presentation` does not look at the state of the record, and the ack is sent
  whatever the result.

Ledger:

- A schema that is refused with `UnauthorizedClientRequest` is taken for one that exists,
  and is recorded and returned (`A/ledger/indy.py:416-433`).
- An operation whose client left may find the pool closed under it; a credential
  definition that is then in the wallet but not on the ledger is an error from then on.
  That the pool is read-only is noticed only after it was stored in the wallet.
- An `__aexit__` cancelled while it waits for the lock, or a close that fails three
  times, leaves a reference that is never given back.

Transport and cache:

- An undelivered message that comes while a session idles waits for the end of the
  session's next handler, and if that left a reply in the buffer for the one after it
  (`A/transport/inbound/manager.py:186`), so that a peer whose every message is answered
  may never get it. A message without a
  `reply_to_verkey` to a connection without an endpoint is dropped.
- The response of an HTTP request is taken from its buffer before it is written.
- A waiter of the cache lock whose sibling is cancelled gets `CancelledError`, not
  `None` (`A/cache/base.py:144` and `:163`).

## 6. What is proved

Everything is proved from the `ASSUME` of the module (types of the constants,
disjoint sets) for the specification without fairness, so for every number of processes,
messages and faults. In each module an invariant is shown inductive, one lemma per
action, and the results follow from it. Every invariant and every safety property that a
run checks is stated by one of these theorems.

| module | theorems | what the invariant adds, and why |
|---|---|---|
| `CacheKeyLockProofs` | `TypeCorrect`, `ComputedOnce`, `WaitersAreServed`, `KeyIsReleased`, `ResultIsShared` | `LockState` and `ParentState`: what a lock's future can be at each await. `SharedResult` speaks of the end of a wait, so the value has to be followed from the owner's future through the waiter's callback. |
| `ConnectionProofs` | `HoldersAgree`, `CompletedIsAccepted`; `TypeCorrect`, `DidsAreOwn`, `HoldersAreApart` | `TypeCorrect` is of `WellTyped`: records, copies, messages, and that no DID is used before it is made. `Typed` and `DidsInv` hold in every setting: a DID is in one record or in copies of that record, though handlers write copies back late, and a record answers only the first request attached to it (`FirstStays`, `Heard`), which is why no two invitees hold one DID (`HoldersAreApart`) even where handlers overlap. `HoldersAgree` and `CompletedIsAccepted` are under `OneHandler`, see below. |
| `IssueCredentialProofs` | `TypeCorrect`, `AckIsHonest`, `RemovalIsFinal`, `Implements` | `IssuerJobOK`, `HolderJobOK`, `AckOK`: the same of the copies handlers carry and of messages under way. Stored records alone are not inductive, as any handler may write an older copy back. `Implements` maps each step to a step of `CredentialIssuance` or a stutter. `RemovalIsFinal` rests on updates being refused for a record that is gone. |
| the same | `OneCredentialEach` (assuming `OneIssuer`), `ReceivedIsStorable` (assuming `OneHolder`) | `OnceInv`: the copy of the handler that runs is what is stored (`CopyFresh`), and a record that a credential was made for has it or is about to (`MadeKnown`). `StoreInv`: until the cached request lapses there is one request, the cached one; records, copies, messages and credentials name no other (`IssuerKnows`, `MsgsKnown`, `HolderKnows`). |
| `PresentProofProofs` | `TypeCorrect`, `ResultIsOfStored`, `ValidIsFound` | `Types` follows records, copies and messages by thread, and is what `TypeCorrect` states (`WellTyped`). `Fitting`: copies that will be saved as verified fit too. `Answers`: in a thread whose verifier has one record, all that is asked for, proven and checked is that record's one request (`Asked`); it is stable because a handler that binds a request has its record to itself (`Turns`), which is where the proof needs a verifier that asks by itself or does one thing at a time. |
| `TaskQueueProofs` | `TypeCorrect`, `InOnePlace`, `NoLostWakeup`, `CancelIsFinal`, `LimitHolds` | `Quiet`: a cancelled queue has nothing to drain. `LimitHolds` rests on the cardinality lemmas of the library. |
| `QueueProofs`, of `OutboundTransport` | `NoMissedEvent`, `PostsBounded`, `ReportIsTrue`, `NoneLost` | `PlaceAndState`, `PostsCounted` (posts and retries add up), `ErrorIsTrue` (the `error` field tells acknowledged from not) |
| of `InboundTransport` | `InboundTypeCorrect`, `HeldByOne` | `HeldInv`: what sessions hold and what queues hold is what `heldBy` says, both ways (`BufferState`, `QueueState`), and no queue has a message twice. A message is then in one place because `heldBy` is a function. |
| of `Ledger` | `LedgerTypeCorrect`, `PoolIsOpenInside`, `PublishedAsTold` | `PoolInv`: the queue of the lock has those who wait for it or hold it, once (`LockState`); and there is a closer only while nobody is inside (`PoolState`); that the count is of those inside and of leaked references goes by cardinality. `PublishedInv`: what an operation is about to record it has found on the ledger (`Knows`). |
| `RevocationProofs`, of `RevocationPublishing` | `RevokedOnRequest`, `ReportedIsPublished`, `PublishedOnce`, `LedgerKeepsUp`, with any number of operations at once; `MarksStayInTurn` | `CallsAsked`, `RecordsAsked`: copies, however old, hold only what was asked for. `ReportedIsPublished` goes through the wallet: what is left of the crids without the failed ones is in the delta, and as the wallet revokes a credential once, in no other, so nothing is reported twice. `LedgerKeepsUp` needs that whatever the wallet has and the ledger has not is in the delta of an operation under way; `MarksStayInTurn` that with one operation under way its copies are the records. |
| of `RegistryRollover` | `IssuedIsOnLedger`, `GivenUpWhenFull` | `Staged`: no record is ahead of the ledger. `Chosen`: what a call holds about its registry stays true while others use it. |
| `TicketSaleProofs` | `TicketsProven`, `ServesAsOffice`, `OneTicketEach` | `BookingsTrue`, `AfterVisit`, `AfterRequest` (an exchange keeps its connection, a webhook tells what was presented), `CallsProven` (the call for a ticket is as good as the ticket). Restarts and repetitions are why it goes through calls and posts. `ServesAsOffice` maps each step to a step of `TicketOffice` or a stutter. `OneTicketEach` goes along the sale of a connection (`OneSale`): one request for proof, then one exchange, then one ticket on order or issued, each after the webhook that led to it was handled for the last time. It is of calm settings and of connections whose wallet does not repeat itself, as `OneEach` is. |

The invariant of `Connection`, `ConnInv`, follows the DID of the inviter from its record
to the invitee and back:

- `RecordState`: an open invitation was asked for by nobody; a record with one request is
  of who made it; records made for one request have their DID from the start.
- `HandlerState`: a copy that will be saved over a record has the DID, the invitee and
  the request the record has, so it changes nothing but the state. `Apart` makes it stable: no
  handler works on a record in which another is about to save its request. This is where
  `OneHandler` is needed, and the counterexamples of section 3 are what happens without.
- `MailState`, `InviteeState`: a response under way or taken, and a DID an invitee has in
  its record or in a copy, is the DID of a ready record of that invitee (`Kept`), which no
  step takes back; what was completed or pinged over was accepted.
- `CacheState`: who has asked is in the cache under the key of the invitation, or in
  `uncached`; so a repeated request of the others completes nothing.

`OneIssuer` is one handler of the issuer and no failure, `OneHolder` one handler of the
holder, which asks for what it is offered by itself, and no failure: the settings in which
`issue_serial` checks the two properties, with any number of records, requests,
credentials, messages and handlers of the other side. Without `OneIssuer` the property is
false, as section 3 says.

Lemmas of more general use: `Joins`, `FirstGoes` and `OneGoes` (`QueueProofs`) say what
appending to, taking from the front of and removing from a sequence without repetitions does
to the set of its elements; `LeastIsOne`, that the least of some numbers is one of them, by
well-foundedness; `OneSaved` and `IsSequence` (`ConnectionProofs`), that records stay a
sequence when one is replaced.

`KeyIsReleased`, `InOnePlace`, `LimitHolds`, `PostsBounded`, `GivenUpWhenFull`,
`RevokedOnRequest`, `TicketsProven`, `DidsAreOwn` and `HoldersAreApart` are of invariants that
no run lists: they hold for all instances, and a run would add nothing.

Only model-checked: all liveness (`EveryCallerEnds`, `OfferReachesWallet`, `PendingEnds`,
`CompleteEnds`, `EveryMessageLeaves`, `Served`, `ProofSells`, `BufferDrains`, `PickedUp`,
`PoolCloses`, `EveryRequestEnds`, `Connects`, `Completes`), which is beyond TLAPS, as is
`ENABLED`. No module of the project declares a `RECURSIVE` operator.

## 7. Left out, and why

- Cryptography, the wallet, storage and the ledger are modelled by how the code
  uses them: calls that succeed, fail, or succeed unnoticed.
- Names, stations and times are members of small sets; the comparison of strings is
  equality. Proof requests, predicates and schema are abstracted to whether a
  presentation holds, and whether it shows what was proposed.
- Time is not modelled: a timeout, an expiry and a retry may happen at any moment
  after they become possible.
- `OutboundTransportManager.stop`: the conductor calls it only as the process ends.
- Of the ledger: the acceptance of the transaction author agreement and its cache,
  endpoints, key rotation, registering of DIDs, the submits of revocation registries
  (whose order is in `RegistryRollover` and `RevocationPublishing`).
- Of connections: public and implicit invitations, mediation, multitenancy, static
  connections, removal. Of present_proof: requests without a connection, the list of
  credentials. Of inbound transports: `to_session_only` and explicit targets.
- issue_credential 2.0 and present_proof 2.0, out-of-band, mediation, multitenancy,
  introduction, action menu and the like are not used by the demonstrator.
- The wallet app, von-network and the web app are not part of the program, or keep
  no state. Options, start-up, message classes and the admin server's routing of HTTP
  are sequential and parse or format data.

`PROJECT.json` gives a reason for each component with status `not_modelled`, and for
each hazard no property covers.

## 8. What a next step would be

Modules: issue_credential 2.0 as an instance of the same exchange with several formats;
out-of-band on top of `Connection` (a connection reused, with its timeout); the tails
file between `SaveActive` and the holder (upload after the record is active); several
exchanges of `IssueCredential` over `RegistryRollover`.

Theorems: the refinement of a specification of the pool (opened before the
first use, closed after the last) by `Ledger`, and of one of a connection by `Connection`.
