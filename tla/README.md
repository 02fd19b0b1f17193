# A formal model of EAUTO-AI

TLA+ specifications of the backend of EAUTO-AI, their TLC configurations and
TLAPS proofs. EAUTO-AI runs a MercadoLibre business with agents: every change
that reaches the outside world is proposed, reviewed, approved by a person,
executed once, verified against the provider, and recorded in receipts. The
server side is a TypeScript monorepo (`src/packages`, `src/apps/api`) on
PostgreSQL, with an API process and several worker processes.

Contents

1. [The system](#1-the-system)
2. [Plan](#2-plan)
3. [How the modules are written](#3-how-the-modules-are-written)
4. [ActionLifecycle and ActionLedger](#4-actionlifecycle-and-actionledger)
5. [Outbox](#5-outbox)
6. [ActionDelivery](#6-actiondelivery)
7. [MercadoLibreConnection](#7-mercadolibreconnection)
8. [Notifications](#8-notifications)
9. [OperatorSessions](#9-operatorsessions)
10. [WorkOrders](#10-workorders)
11. [CompanyIntelligence](#11-companyintelligence)
12. [Commerce](#12-commerce)
13. [Intake](#13-intake)
14. [What is proved](#14-what-is-proved)
15. [What is only model-checked](#15-what-is-only-model-checked)
16. [What is not modelled](#16-what-is-not-modelled)

## 1. The system

Processes share nothing but PostgreSQL and remote services. The API process
serves many requests at once; every `await` of a handler is a point where other
requests and other processes run. Worker processes (`apps/api/src/worker.ts`,
`companyWorker.ts`) poll tables and lease rows. A component below is a service
of `packages/application` with its repository of `packages/infrastructure`.

| Component | State | Operations | What is hard | What makes it correct |
|---|---|---|---|---|
| Governed actions (`actionService.ts`, `postgresActionRepository.ts`, executors) | business_actions, approvals, verifiable_receipts | propose, markReviewed, approve, execute | requests race; the process dies around the remote call; acknowledgements get lost; receipts are ordered by clocks | one attempt per action; verified only with the effect; one linear receipt chain; row, receipts and events agree; outcomes are final; an execution ends |
| Transactional outbox (`outbox.ts`, `postgresOutboxRepository.ts`, `actionLifecycleEventHandlers.ts`) | transactional_outbox, delivery log | enqueue, claimBatch, markProcessed, markFailed, requeueDead | lease of a whole batch, crash after a claim, duplicate deliveries, poison events | processed means delivered; bounded attempts; every event settles |
| MercadoLibre connection (`mercadoLibreService.ts`, `postgresMercadoLibreRepositories.ts`, credential provider) | OAuth states, encrypted credentials, refresh lease | beginAuthorization, completeAuthorization, ensureAccessToken, syncs | single-use refresh tokens; a lease that may be outrun; whole-record saves from old reads | the current token is not lost; refreshes do not overlap; a state is used once |
| MercadoLibre notifications and read model | notifications, listings, orders, claims, questions, shipments | ingest, leaseBatch, synchronize, markProcessed, markFailed, requeueDead | overlapping synchronisations; partial failure in `Promise.all`; partially committed marks | a processed notification is visible in the read model; attempts are bounded; nothing stays pending |
| Governed work orders (`governedWorkOrderService.ts`, `governedWorkOrderProcessor.ts`, `operationalIntelligenceRepositories.ts`) | operational_evidence_packs, agent_work_orders, shadow_proposals | enqueue, leaseWorkOrders, process, fail, decideProposal | a lease that nobody reclaims, updates without compare-and-set, retries that meet the sessions of the run before | one holder and one answer per order; an order ends |
| Agent OS sessions (`agentOsService.ts`, `agentPreflight.ts`) | agent_preflight_reports, agent_work_sessions | createSession, startSession, heartbeat, completeSession, failSession | read-modify-write without a version, by workers and operators | a closed session is reopened by nobody who looked after it was closed |
| Specialist daemons (`specialistDaemonScheduler.ts`, `wakePolicy.ts`, `companyIntelligenceSources.ts`) | specialist_daemon_states, specialist_daemon_runs | leaseDueStates, readSignals, enqueue, saveState, saveRun | several schedulers; lease expiry; evidence that changes between two reads | signals count as seen only when an order carries them |
| Agent collaboration (`agentCollaborationService.ts`) | agent_messages, evidence_requests, evidence_responses, semantic_memory_entries | publish, request, processBatch, remember | four calls that may each fail; unversioned writes of one topic | an answered request has a response; a superseded entry has a successor |
| Operator sessions (`sessionService.ts`, `postgresSessionRepository.ts`) | operator_sessions | issue, rotate, revoke, verify | two rotations, or a rotation and a logout, race | one active successor per token; a revoked session stays revoked |
| Supplier mirror and stock audit (`postgresSupplierMirrorRepository.ts`, `supplierStockAuditDaemon.ts`, migrations 017-026) | supplier_product_observations, supplier_products, supplier_listing_links, assessments | record, link changes, leased audits | out-of-order and duplicate observations; triggers; wake-ups during an audit | the product is what the newest observation says; recovery needs consecutive successes; every report is assessed |
| Profit engine and margin audit (`profitEngine.ts`, `marginAuditDaemon.ts`) | economic_cost_observations, profitability_snapshots, leases | calculateProfitability, prepareRepricing, leased audits | rounding, partial and stale data, snapshots dropped by hash | the latest snapshot tells what the listing earns; a proposed price reaches its target |
| Economic operations (`economicOperationsService.ts`) | the same tables | ingest, reconcile | an audit without a lease beside the daemons | as above |
| Catalog acquisition (`catalogAcquisitionService.ts`) | catalog_acquisition_candidates | discover, reviewCandidate | rediscovery of a reviewed candidate; racing reviews | a decision is final |
| Product identification (`productIdentificationService.ts`, `productIdentificationReviewService.ts`) | results, reviews, fingerprints | identifyStoredFromPhoto, review | the search is over long before the confirmation | a confirmation is whole; a duplicate that could be seen is blocked |
| Source image uploads (`sourceImageUploadService.ts`) | source_image_uploads, objects | requestUpload, verifyUpload | concurrent verdicts on one upload | one verdict, of the object that is there |
| Taxonomy cache and preflight | in-memory map, snapshots | read, refresh | single flight, expiry | a reader never gets a failed or another key's value |
| Product Ads read plane | snapshots | sync, read | overlap | a read sees a whole snapshot |
| LLM gateway (`llmService.ts`) | llm_runs | run | budget read before the call, spent after it | the overshoot of the daily budget is bounded |
| Supply workflow, account brain, product lifecycle, planner | what each call saves | run, rebuild, assess, plan | many inputs, each of which may be absent or old | a conclusion rests on evidence that is whole and fresh |
| Content studio | content drafts | generate | remote jobs that are polled | a draft is not published |
| HTTP API, configuration, mobile app | – | routing, validation, wiring | – | – |

How they interact:

- `ActionService.save` writes action, approval, receipt and outbox event in one
  transaction; the outbox worker hands the event to
  `PostgresActionLifecycleEventHandler`, which writes the delivery log.
- The question executor reads its credentials from the MercadoLibre connection
  and, when the access token is near its expiry, refreshes it under the same
  lease as `MercadoLibreService`.
- A notification is synchronised by calling the sync operations of
  `MercadoLibreService`, which use and save the connection.
- A work order creates an agent session per level of its chain of command; the
  preflight of each looks at the contract in the catalog, and one run of the
  model under the last session leaves proposals for a person.
- A daemon records work orders; the company worker runs the router of evidence
  requests, the daemons, the margin audit and the stock audit in one loop.
- A supplier's observation updates the product; triggers copy its cost to the
  listings whose link has the authority and wake the stock audit; a stock audit
  may ask for a margin audit, and a new snapshot wakes the stock audit again.
- Product identification and catalog acquisition both begin on a verified image.

`PROJECT.json` lists the hazards of this code at the lines where they bite, and
the properties that cover them.

## 2. Plan

| # | Modules | State |
|---|---|---|
| 1 | `ActionLifecycle`, `ActionLedger`, `ActionLifecycleProofs` | checked and proved |
| 2 | `Outbox`, `TaskLedger`, `OutboxProofs` | checked and proved |
| 3 | `ActionDelivery` (1 and 2 composed) | checked and proved (in `ActionLifecycleProofs`) |
| 4 | `MercadoLibreConnection`, `MercadoLibreConnectionProofs`: OAuth states, refresh lease, stale saves | checked and proved |
| 5 | `Notifications` (and `TaskLedger`): inbox and read model, on top of a synchronisation abstracted from 4 | checked and proved (in `MercadoLibreConnectionProofs`) |
| 6 | `OperatorSessions`, `SessionLedger`, `OperatorSessionsProofs`: the session table and the app that holds the tokens | checked and proved |
| 7 | `AgentPolicy`, `CompanyCatalog`, `WorkOrders`, `WorkOrdersProofs`: the catalog of agents, orders, sessions, budgets | checked and proved |
| 8 | `CompanyIntelligence` of `EvidenceRequests`, `SemanticMemory`, `SpecialistDaemons`, `CompanyAnalysis`; `CompanyIntelligenceProofs` | checked and proved |
| 9 | `Commerce` of `SupplierMirror`, `MarginAudit`, `StockAudit`, `ProfitEngine`; `CommerceProofs` | checked and proved |
| 10 | `Intake` of `SourceImages`, `ProductIdentification`, `CatalogAcquisition`; `IntakeProofs` | checked and proved |

Abstract specifications: `ActionLedger` (what an action may go through), `SessionLedger`
(what the sessions of an operator promise) and `TaskLedger` (what a queue of tasks
promises, implemented by 2 and by 5). Each is a PROPERTY of a run and a theorem.
Every safety invariant and every action property that a passing run checks is proved
(section 14). The queues of 7 and 8 do not implement `TaskLedger`: a router closes or
fails a request whatever became of its lease, and an order whose completion was stored and
whose answer was lost is failed by the catch clause, so there a settled task may open again.

## 3. How the modules are written

- One action is what one process does from one `await` (or SQL statement, or
  transaction) to the next. A transaction is one action because nothing of it
  is visible before COMMIT and because its statements lock the row or are
  decided by a unique index. What a handler remembers between two actions is in
  variables indexed by the handler; a crash erases them and nothing else.
- A request that reads and then throws without having written is no action: it
  changes nothing.
- A database call can fail before the commit (rolled back) or after it
  (committed, acknowledgement lost). Both are faults, as is a crash; `MaxFaults`
  bounds their number in the runs, and only there.
- Payloads, hashes, evidence, wording and HTTP are abstracted away. A hash
  comparison that no reachable state can fail (the content of a stored action is
  never changed) is not a guard of the model; a comment says so.
- Definitions whose comment begins with "FAULTY variant of" are plausible bugs
  of the code. No specification uses them; each serves to show that a property
  would notice the bug, and `PROJECT.json` says which one.

## 4. ActionLifecycle and ActionLedger

`ActionLifecycle` is `ActionService` with `PostgresActionRepository` and an
`ActionExecutor`.

| State | Code |
|---|---|
| `status`, `approved` | business_actions.status, the row in approvals |
| `receipts`, `newest` | verifiable_receipts in commit order; the row that `ORDER BY recorded_at DESC, id DESC LIMIT 1` finds |
| `events` | the lifecycle events in transactional_outbox, named by the status they announce |
| `pc`, `act`, `to`, `stamp` | where a request handler waits, its action, the transition it is saving, the time on its receipt |
| `remote`, `attempts` | what the provider did; how often it was asked |
| `now` | the clock; each API process may lag behind it by `Skew` |

`Propose`, `MarkReviewed`, `Approve`, `LoadAction` and `LoadApproval` are the
reads and checks of the service's operations up to the first write. `Save`,
`SaveConflicts`, `SaveRollsBack` and `SaveLosesAck` are the repository's
transaction: `CanCommit` gathers the compare-and-set, the unique approval, the
unique receipt successor and the unique idempotency key. `SendExecute`,
`ExecuteReturns`, `ExecuteFails`, `VerifySucceeds`, `VerifyFails` are the
executor; `ProviderApplies` may come after the client's timeout. The catch clause
of `execute()` is `AfterFailedSave` and the failing executor actions: it drafts
`uncertain` wherever the try block was.

`AppendReceipt` deserves a word. The code looks for the tail of the receipt chain
by time and random id, not by commit order. When the clocks of two API
processes differ, or two receipts carry the same millisecond, a later receipt
can sort before the tail. `newest` follows the code's order, `receipts` the
commit order, and `IdOrder` gives the possible results of comparing two random
ids.

`ActionLedger` is the abstract promise: stages in order, one request to the
provider, verification only with the effect. `LedgerSpec` is the refinement
under the mapping `stage <- status, asked <- attempts, effect <- remote`.

Runs:

| Run | Instance | What it shows |
|---|---|---|
| `lifecycle_safety` | two actions (one has incomplete evidence and can never be proposed), two handlers, ttl 2, a clock that lags by one, three ticks, two faults, both id orders | `AtMostOneAttempt`, `ChainIsLinear`, the refinement (`LedgerSpec`, so that nothing is verified without its effect); under fairness `OnlyFaultsStrand` |
| `lifecycle_crash` | one crash or failed transaction | refutes `ExecutionSettles`: the row stays `executing`; no operation and no sweeper ever moves it |

A lagging clock does the same without a fault: a receipt stamped by it sorts
behind its predecessor, the next one then points to a receipt that already has a successor,
and the index that forbids two successors rejects every later save of the action.
So `OnlyFaultsStrand` says of each execution that it is settled in the end, unless
there was a fault or the chain of that action is jammed (`Jammed`); with exact clocks and
no fault neither happens.

Why these bounds are enough: actions share no state (every guard and update is
local to one action), so what two actions add is only that one handler can be
busy with the other; two handlers are the smallest number that races, and
transitions are totally ordered so that a third handler can only lose the same
compare-and-set; two faults allow the worst sequence of one execution, the lost
acknowledgement of `verified` followed by a failed save of `uncertain`; ttl 2 in
three ticks lets an approval be valid, expire before and expire after the check.

Fairness (`FairSpec`): `WF(Proceed(r))` - a live Node process resumes every
`await`, because every executor call has a timeout and every query returns or
throws. Weak fairness suffices since an enabled step of a handler is disabled
only by taking a step of it. No fairness for requests, faults, the
provider or the clock.

## 5. Outbox

`Outbox` is `OutboxProcessor` in several worker processes on one table.

| State | Code |
|---|---|
| `state`, `attempts`, `lockedBy` | columns of transactional_outbox |
| `live`, `due` | `locked_until > now`, `available_at <= now` as seen by the next claim |
| `created` | order of created_at |
| `delivered` | action_lifecycle_delivery_log |
| `batch`, `hand`, `outcome` | local variables of `runOnce`: what is left of the batch, the event whose handler has run, and how |

`Claim` is claimBatch (the oldest `Limit` rows that are due and pending or whose
lease expired; FOR UPDATE SKIP LOCKED makes two claims disjoint). The handler,
`MarkProcessed` and `MarkFailed` are separate actions since each is a statement of
its own; `MarkProcessedThrows` leads into the catch clause, `MarkFailedThrows` out
of `runOnce`, abandoning the batch. `LeaseOutrun` is the expiry of a lease whose
holder still works: one lease covers the whole batch and is never renewed.
`NameOf` need not be injective: the code builds a worker's name from a
configured name and the process id, which is 1 in every container.

| Run | Instance | What it shows |
|---|---|---|
| `outbox` | two events, one of them poison, two workers, batches of two, two attempts, one fault, one outrun lease, one replay | the steps are those of the ledger (`LedgerSpec`), so that nothing is processed undelivered or handed out again; and `EveryEventSettles` under fairness |

`TaskLedger` is a queue without workers, leases, batches, clocks or faults: a task is
posted, worked on, settled only when its work is done, given up, and reopened only from
there. Under `Ledger` a row that is pending or processing is open, and the work of an
event is done when it is in the delivery log. Claims, retries, outrun leases and
abandoned batches are then stutters. A mark that looked for the id alone would reopen
an event that another worker has settled.

Two workers give every race over one row (the repository's statements look at
one row and one worker name); two events are needed for a batch whose second
event is reached late; two attempts tell the first failure from the last; one
replay reaches the requeue of an event that a late worker still holds.

Fairness: a worker polls (`WF(Claim)`), its loop goes on (`WF(Loop)`), leases
expire and backoffs elapse because clocks move. Which of success and failure a
handler meets is not assumed: an event that always fails ends `dead`, which
is "settled".

Delivery is at least once, by design: after an outrun lease two workers may both
run the handler of an event, which is why the delivery log is keyed by event.
A claim does not compare `attempts` with the maximum either, so an event that
kills every worker that takes it is tried without end.

## 6. ActionDelivery

The composition: a transition's event is inserted by the transaction of the
transition (`Announce`), and the workers of `Outbox` bring it to the delivery
log while the lifecycle goes on. `EveryOutcomeTold` says that a settled action's
outcome is delivered or ends as a dead letter; `TellsWhatHappened` that there is an event
of each transition that was committed and of no other, and that what the log tells of
an outcome is what became of the action, its effect included. The composition is a
behaviour of both parts, each seen through its own variables (`DeliveryRefinesBoth`).
The run
`action_delivery` has one action, one handler, one worker, and one fault on
each side; more handlers and workers are covered by the runs of the two parts.

## 7. MercadoLibreConnection

The credential row of one account and everyone who writes it: the OAuth login,
`ensureAccessToken`, the save at the end of a listing synchronisation, and the
credential provider of the question executor, which follows the same protocol
with one check more (`RereadUnusable`).

| State | Code |
|---|---|
| `row` | mercadolibre_connections: which grant (pair of tokens), status, refresh lease |
| `open` | unexpired rows of mercadolibre_oauth_states |
| `pc`, `copy`, `mine`, `got` | where a caller waits; the record it read; its lease; the grant it will use or save |
| `current`, `aged` | the provider's last grant, the only one it will refresh; grants whose access token is near its end |
| `live` | leases whose refresh_lease_until is in the future |
| `evicted`, `mixed` | history: leases removed by a foreign save; whether a save was built on a row that had changed |

`Read`, `Acquire`, `Reread`, `RefreshAccepted`/`RefreshRejected`/`RefreshFails`,
`SaveRefreshed` or `MarkReauthorizationRequired`, and `Release` are the awaits of
`ensureAccessToken` in order. A failed refresh may have used up the token at the
provider. `SaveSynced` writes back what `ReadForSync` had read, lease columns
included, as `save()` does. `LeaseOutrun` lets a lease end under a slow holder.

| Run | Instance | What it shows |
|---|---|---|
| `connection` | two callers, two logins, one ageing, one fault, one outrun lease | unexpired leases exclude each other unless a save evicted one; a reauthorization is asked for only for a cause; under fairness a connection that is used does not stay at the end of its token |

`docs/runbooks/mercadolibre-chile-readonly.md:35` says "Un lease evita refresh
concurrentes". It does, but for one case, which `evicted` marks: the save at the
end of a synchronisation (`mercadoLibreService.ts:330`) writes back the record it
had read and erases the lease of a refresh under way.

Two callers race over one row; two logins allow a login over a connection that
is in use; one ageing makes the first refresh due, and the refresh's own new grant
never needs another within the run: a second refresh of the same expiry is what
the lease must prevent, and it is reached by the second caller.

Fairness: calls of a live process go on and leases expire. A lease left by a dead
holder must not block for ever: that is what `RefreshSettles` relies on `Free` for.

## 8. Notifications

The webhook inbox, its processors, and the parts of the read model that a
synchronisation replaces.

| State | Code |
|---|---|
| `state`, `attempts`, `owner`, `live`, `due` | columns of mercadolibre_notifications |
| `remote`, `view` | how many changes each part has seen at MercadoLibre and shows in its table |
| `have`, `stray` | replacements a synchronisation still has to write; those that go on after it threw |
| `batch`, `phase`, `family` | local variables of `processBatch` |
| `tells`, `best` | history: the change a notification announces; the newest each part has shown |

`Promise.all` is the point of `SyncThrows`: it reports the first failure while the
other replacement goes on and may commit later (`StrayReplaces`). `MarkProcessed`
settles a group at once; if rows were lost, the rows still held are committed and
the statement throws nevertheless, and the catch clause then fails the whole group
(`MarkProcessedThrows`, `MarkFailed`, `MarkFailedThrows`).

| Run | Instance | What it shows |
|---|---|---|
| `notifications` | two notices on two parts of one family, two workers, three attempts, one incident | the steps are those of the ledger (`LedgerSpec`), so that a processed notification was shown and stays processed; everything settles under fairness |

The inbox implements `TaskLedger` as the outbox does; the work of a notification is done
when the read model has shown the change it tells of, so a replacement by anybody, also
by a synchronisation that has already thrown, may do the work of several, and a group
may be settled in part before the rest of it fails.

The lease counts an attempt, and the failure adds one more to what the lease
returned before it compares with the maximum (`mercadoLibreNotifications.ts:200`):
a notification dies one attempt before the number the configuration names. Three
attempts in the instance are two tries.

Crashes, failed statements, outrun leases and replays share one budget
(`MaxIncidents`); failures of a synchronisation are free. One family is enough,
since groups of different families of a batch are handled one after the other
and share nothing but the lease. A synchronisation reads its parts in one
action, because no property compares two parts. Two overlapping synchronisations
can take the read model back in time after a notification was processed
(`view < best`); the model reaches this and no document promises otherwise,
which is why the property speaks of what has been shown.

## 9. OperatorSessions

`SessionService` with its repository, and the mobile app that holds the tokens:
most of what can go wrong with a rotation goes wrong between the two.

| State | Code |
|---|---|
| `row` | operator_sessions: the token pair, revoked_at, and the payload's revokedAt, which is the one authentication looks at |
| `parent` | history: the pair each pair was rotated from |
| `stored`, `shown` | the secure store; whether the app shows its tabs |
| `inFlight` | `refreshInFlight` of api.ts and of agentOsApi.ts |
| `pc`, `client`, `held`, `got`, `target` | where a call of the app waits, or its handler; the pair it sent, the pair it received, the session a logout found |
| `orphans` | rotations at work on the server for a caller that is gone |

Device and server steps of one call share `pc`, as the caller waits meanwhile;
when the connection breaks they part (`orphans`). A request loads the store
(`StartRequest`), is answered or refused, then refreshes or joins a refresh of its
client; `FindRefresh` and `Rotate` are the two statements of a rotation,
`FindAccess` and `Revoke` those of a logout. Any answer but ok clears the store.
Left out: the revocation by a logout that was cut off takes effect at the cut or
not at all; a corrupt store.

| Run | Instance | What it shows |
|---|---|---|
| `sessions` | two calls, two clients, two sessions, two expiries, one failure | every step is one of the ledger (`LedgerSpec`), so that no pair is rotated twice; a logout that found its session ended it; a refused app settles |

`SessionLedger` knows neither tokens nor devices: a session has one current pair, a pair
is issued to a session that has not ended, and what has ended has ended. Under `Ledger`
`current` is the pair of the row, `origin` is `parent`, and a session has ended when
authentication sees it as revoked; enrolments open, rotations renew, logouts end, and all
else that the app does is a stutter.

`docs/SECURITY_AND_IDENTITY.md:94` says "Una sesión inválida o corrupta se elimina
del dispositivo". `refreshSession` (`apps/mobile/src/lib/api.ts:243`) clears the store
on any refusal: a late refusal erases the session that another request has just
renewed. The model reaches this.

The clients are chosen per call, so two calls cover both one client and two. The
two sessions allow an enrolment to overtake a refresh of the session before it.
Rotations need an expired token, so `MaxAgings` bounds the pairs as well.
Fairness: only that calls which were made go on.

## 10. WorkOrders

`GovernedWorkOrderService`, `GovernedWorkOrderProcessor`, `AgentOsService` and
`ShadowLlmService` over one set of orders. `AgentPolicy` holds the decisions they
call (preflight, wake, model, cost) and `CompanyCatalog` the catalog of agents,
skills and the planner; both have operators only.

| State | Code |
|---|---|
| `packs` | operational_evidence_packs of each order |
| `orders` | agent_work_orders: status, attempts, whether available_at has come |
| `sessions` | agent_work_sessions, one per level of the order's chain of command |
| `workers` | batch, step and level of each worker; the status it read of the session it is about to write |
| `operators` | what each HTTP request has read and is about to write |
| `spent`, `runs`, `proposals` | the day's actual cost in llm_runs; completed runs; shadow_proposals |

A worker leases a batch (`Lease`), and takes each order from `Load` through a
session per level (`CreateSession`, `StartSession`, `Descend`, `CloseParent`), the
gate of both budgets (`CheckBudget`), the answer of the model, its proposals, and
the three writes that end the order. Every session update is two actions, a read
and a write of the whole record, because the code has no version; `OperatorReads`
and `OperatorWrites` are the same two steps of a request. `FailOrder` is the catch
clause; `Throws` a call that fails before or after it took effect; `Abandon` the loss of
a worker with its batch. A leased order is processing and no lease looks at
processing orders, so expiry changes nothing and is left out.

| Run | Instance | What it shows |
|---|---|---|
| `work_orders` | one order of the specialist `catalog` with the chain, contracts and skills of the source, two workers, one operator, two attempts, a budget of two runs, one incident | one holder per order; one answer per order and proposals of that answer only; the overshoot of the daily budget is bounded by the calls that can read one total; a closed session comes back only through an overlap; every order settles under fairness |

Two workers and an operator are the smallest number that overlap on a session;
two attempts reach the retry that finds the sessions of the first. One order
leaves out what a batch's later order loses when the loop throws (`Abandon` covers
the loss itself). `WorkOrdersMC` ties the instance to `CompanyCatalog` by an
assumption TLC evaluates.

`EveryOrderSettles` exempts the order of a lost worker: `leaseWorkOrders`
(`operationalIntelligenceRepositories.ts:424-430`) takes queued and failed orders,
so that order stays processing for ever, although
`docs/runbooks/production-release.md:163` says "leases vencidos son recuperables".
Fairness: the worker loop goes on, backoffs end; nothing is assumed of operators
and incidents.

## 11. CompanyIntelligence

Four parts that share a process and a database but no row, so a behaviour
follows one of them (`part`); `Incidents` is the budget of faults they share.

| Module | State | Code |
|---|---|---|
| `EvidenceRequests` | `messages`, `requests`, `responses`, `routers` | `EvidenceResponseRouter`: lease, respond, save the response, close the request; agent messages under an idempotency key |
| `SemanticMemory` | `memory`, `writers` | `SemanticMemoryService.remember`: read what the scope sees, mark the superseded entry, insert the new one |
| `SpecialistDaemons` | `evidence`, `daemons`, `schedulers`, `dailyOrders` | `SpecialistDaemonScheduler`: lease, read the signals, build the pack, record an order, save the state, save the run |
| `CompanyAnalysis` | `study`, `conclusion` | what one call of a supply workflow, the product lifecycle, the account brain, a daemon, the planner or the model gateway concludes from what it reads |

| Run | Instance | What it shows |
|---|---|---|
| `intelligence` | two routers, two requests, two attempts; two writers, three entries; two schedulers, one daemon; every study; one incident in each part | a closed request has the response it was closed on; a superseded entry has a successor, or its writer was cut off; revisions fork only by overlap; signals count as seen only if an order carries them; conclusions rest on evidence; every request settles |

`ConclusionsRestOnEvidence` is a conjunction of six, one for each kind of study:
`WorkflowsRestOnEvidence`, `VerdictsRestOnEvidence` (the product lifecycle),
`RunsKeepTheirBudget` (the model gateway), `OrdersRestOnEvidence` (the daemons),
`BrainsRestOnEvidence` (the account brain) and `PlansKeepTheirBounds` (the planner).

Two actors with one incident reach each race and each half-done sequence of
writes; three entries allow a chain of revisions and two superseders of one entry.
The daemon is `unit-economics`, the one whose pack the wired reader can fill. The
studies enumerate every combination of inputs that the functions tell apart
(11,416 of them), including every plan of an objective that names one director, or
one specialist of a department, twice.
Fairness: the worker calls processBatch for ever, leases and backoffs end.

What the model shows besides: every daemon declares an estimated cost of 25,000
micro-dollars (`specialistDaemonScheduler.ts:433`), which `decideWake` subtracts
from a utility that is at most 385 for all the documents a reader returns, so new
signals alone never queue an order, although `docs/sdd/019-gentleman-capability-parity.md:37`
has the daemons create them (`InstanceAssumption` of `CompanyIntelligenceMC`
checks both numbers, in hundredths); `supplier.full-scrape` without a listing can
never be proposed, since its plan asks for evidence the reader looks up by listing;
the target of a supersession is not looked at again, so two writers one after the
other may both supersede one entry; a failed `saveRun` takes the signals' hash
back, which repeats an order and loses none; no code leases agent messages.

## 12. Commerce

| Module | State | Code |
|---|---|---|
| `SupplierMirror` | `observations`, `products`, `links`, `cost`, `policy`, `missed` | `record` in its transaction, with the triggers of migrations 021-026 in the order PostgreSQL fires them; the changes of a link and of its authority |
| `MarginAudit` | `desks`, `latest`, `incomplete` | the margin daemon: lease, read, save a snapshot, complete or fail; `ingest` and `reconcile`, the same audit without a lease |
| `StockAudit` | `listing`, `assessed` | the stock daemon: lease, read, evaluate, save, ask for a margin audit, complete or fail |
| `ProfitEngine` | `enquiry`, `decision` | `calculateProfitability` and `prepareRepricingProposal` over bounded inputs |
| `Commerce` | `part` | `companyWorker.ts`: margin audit, stock audit, and again |

A behaviour follows the mirror of two sources, the audits of one listing under a
worker, or one call of the pricing. In the audits the observations of the source
arrive in order; the mirror has every order. Amounts are small integers and the
rounding is the code's.

| Run | Instance | What it shows |
|---|---|---|
| `commerce` | two sources, three observations of two stocks and three costs, one of them 0, two link changes; audits of a source that repeated itself or asks for what was free; one worker, one clerk, one incident (failure, death, outrun lease); 768 inputs of the pricing under twelve policies, zero costs among them | a product is what its newest observation says; the cost of a listing is that of the link with the authority; confirmations are consecutive; proposals of the stock audit are earned; a proposed price reaches its target; every report is assessed unless its evaluation throws on a previous cost of 0, the economics are told, and the audits come to rest |
| `pricing_nan` | the same | refutes `NothingIsNaN`: a listing whose costs are all 0 and whose rounded fee falls short of the target is proposed at 0, with the margin 0/0 |

Three observations are enough for a recovery of two confirmations to be broken and
for an old observation to arrive after two newer ones; the two positive
costs put the listing on either side of its margin, and the cost of 0 before the first
is what `calculateCostChangeBps` throws at; the third observation clears it. Fairness:
the worker loop, lease expiry and the due times (`Fairness`), no failure is assumed to end.

`docs/specs/profit-engine-repricing.md:94` asks for "cero división o NaN". A cost of
0 is legal (`profitEngine.ts:147`, migration 016), and at a price of 1 with a rate
of 5001 basis points `Math.round` makes the fee the whole price, so that the margin is
below any target although nothing is spent. The required price is then
`Math.ceil(0)`, no limit refuses it, and `projectedMarginBps` is `0 / 0`. In
the model `ProjectedMargin` gives `NotANumber` there, and only there: what
`ProposalsReachTheTarget` says of the margin it says of positive prices.

The liveness properties name what they leave out. An incomplete snapshot equal to
an earlier one is dropped by its hash (`postgresProfitEngineRepositories.ts:213`),
so the older complete one remains the latest: `Untold` excludes it. While a cost
change beyond the alert or a recovery without a verified margin lasts, every
assessment asks for a margin audit whose snapshot wakes the stock audit
(`supplierStock.ts:188`, migration 025), and the worker never rests: `Asking`. A
link that is inactive while observations arrive keeps its old count: `missed`.
Also seen: `complete` overwrites a due time that was brought forward meanwhile,
which delays and loses nothing; a lost lease makes `fail` throw out of `runOnce`
and leaves the batch leased.

A cost of 0 is accepted (`supplierMirror.ts:50-52`), but `calculateCostChangeBps` asserts
that the previous cost is positive (`supplierStock.ts:243`). After such a cost every
evaluation of the next report throws: the audit goes to `fail`, releases its lease and
comes again after the retry interval, and nothing is assessed or proposed, until the source
reports successfully once more (and the 0 is no longer the previous cost). A source that
stays free is never assessed again. `CostChangeThrows` is this error path, which
`ReadStock` takes, and what `EveryReportIsAssessed` exempts: without the exemption
TLC refutes the property on this instance. The costs are far too small for the
second throw there, an overflow of the difference times 10000.

## 13. Intake

| Module | State | Code |
|---|---|---|
| `SourceImages` | `uploads`, `objects`, `verifying`, `toldVerified` | `SourceImageUploadService` with its compare-and-set on `requested`, and the object storage |
| `ProductIdentification` | `identifying`, `identifications`, `searches`, `reviews`, `fingerprints` | `identifyStoredFromPhoto` up to the insert; `saveReview` with the fingerprint in one transaction |
| `CatalogAcquisition` | `discovering`, `candidates`, `deciding`, `ruled` | `discover`, one save per finding; `reviewCandidate` with its compare-and-set |
| `Intake` | `part` | the image and the calls that begin on it |

| Run | Instance | What it shows |
|---|---|---|
| `intake` | three photos, two of which look alike and one of which is not what was declared; two verifications, identifications, discoveries and reviews at a time; three identifications, two discoveries, one incident | an answer `verified` holds for good; whatever is made of an image rests on one that is whole and in time; two confirmed products that look alike were not visible to each other's search; a confirmation is whole; a ruling is final |

Two calls race over each row; three identifications allow one to be confirmed
before, and one after, the search of the third; one tick makes an upload
expire and evidence go stale. There is no fairness: every call may be abandoned.

Seen on the way: a verification that comes before the object is there rejects the
upload for good; nothing sweeps expired uploads; a repeated review of an
identification always conflicts, since each call draws a new id
(`productIdentificationRoutes.ts:100`); a discovery reads its clock before it
asks the providers (`catalogAcquisitionService.ts:120`), so evidence that a
provider observes during the call has a negative age and is skipped; the same
content with evidence of another id is a conflict that ends that discovery each
time it is repeated (`postgresAcquisitionCandidateRepository.ts:165`).

## 14. What is proved

The proofs assume only the named assumptions of the modules: the ranges of the
constants; that the values which stand for "nobody", "no row" and "none" are no ids and
no rows; that the requests, daemons, orders, workers and operators are finitely many (a
lease takes a batch of them, the overspend counts them); that the listing the audits
follow belongs to a source of the mirror (`CommerceAssumption`); and what
`calculateProfitability` and `prepareRepricingProposal` do not throw at, prices and
quantities above 0, costs not below it and rates in basis points (`PricingAssumption`,
`TermsAssumption`); and of the studies what their readers and validators see to
(`StudiesAssumption`): the sales of a month are among those of the quarter, as
`companyIntelligenceSources.ts:235` counts them; a brain reads each of its dimensions,
of which there is at least one, in a fixed order (`accountBrainService.ts:54-136`), and
counts documents and warnings; an objective is scored by counting the keywords of each
agent it is put to (`companyPlanner.ts:210-222`), and the routes refuse a budget below 0
and a limit that is no integer (`agentOsRoutes.ts:46-47, 65-66`); token counts are
natural numbers (`assertValidLlmUsage`); and a daemon that is studied is one of the
catalog, as `specialistDaemonScheduler.ts:256` throws otherwise (`DaemonsOfTheCatalog`).
Apart from that sets are arbitrary, clocks may lag arbitrarily, and no bound of a run
enters a proof: the incidents, faults and outrun leases are any number. Each proof is
laid out in the same way: the inductive invariant as a conjunction of named parts, a
lemma for each action or group of actions, and the theorem from them by one temporal
step. The larger invariants were first checked by TLC on the run of their component.

`ActionLifecycleProofs`

- `TypeCorrect`: `TypeOK`, split into the database, the handlers and the world.
- `NoBlindRetry` and `UncertaintyIsNotSuccess`: `AtMostOneAttempt` is not
  inductive. `ExecutionInv` adds who may be where: at most one handler is past the
  commit of `executing` for an action, it is the only one that can send, and as long
  as it has not sent, `attempts` is 0; a handler that saves `verified` has seen the
  effect. The compare-and-set is what makes the handler unique.
- `SettledStays`: an action property; from the table of `ExpectedPrevious`.
- `OneChain`: `ChainInv` says that `newest` is the tail or the chain takes no more
  receipts; it needs nothing about clocks, which is the point: a lagging clock
  can jam the chain and can never fork it.
- `ImplementsLedger`: every step of the lifecycle is a step of `ActionLedger` or a
  stutter, from `ExecutionInv`.
- `DeliveryRefinesBoth`: a behaviour of `ActionDelivery` is one of `ActionLifecycle` and,
  through the instance `Queue`, one of `Outbox`, where a commit is an `Enqueue`: a step of the
  lifecycle commits one transition at most (`LifecycleTells`). So the theorems about
  either part hold of the composition.
- `OnlyTheTruthIsTold`: `TellsWhatHappened`, from `TellingInv`: a row comes with a commit
  and never goes away (`RowsOK`), only what has a row reaches a worker or the log,
  and an outcome is final; and from `UncertaintyIsNotSuccess`.

`OutboxProofs`

- `TypeCorrect`.
- `NothingLost`: `ProcessedMeansDelivered`, with the strengthening that a worker
  whose handler has run with success holds an event that is in the log. It does
  not use the ownership test, so it holds for workers that share a name.
- `DeadOnlyAfterMaxAttempts` and `SettledStays`: both from one lemma,
  `RowSteps`, which says what any step may do to one row.
- `ImplementsLedger`: every step is a step of `TaskLedger` or a stutter. The invariant
  adds to that of `NothingLost` that whatever is in a batch has a row (`BatchesHaveRows`);
  `Holds` is what keeps a late mark from touching a settled row.

`MercadoLibreConnectionProofs`

- `TypeCorrect`, from `TypeInv`: whoever is inside `ensureAccessToken` or a
  synchronisation has seen a row with a token, and such a row never goes away.
- `LeaseProtects`: `LeaseExcludesUnlessEvicted` is not inductive, as it does not say
  where the leases are. `LeaseInv` adds that every lease is given once and that
  the row holds the lease of whoever refreshes under one neither expired nor
  evicted. Most steps create no holder (`CalmStep`); the saves are one lemma (`WriteStep`); `Acquire` is the argument.
- `ReauthorizationIsCaused`: as long as nothing has failed, no lease was outrun and no
  save was mixed (`Calm`), `CauseInv` says that whoever refreshes has the unexpired lease
  of the row and the row's own token (`RefresherInv`), that the last grant of
  the provider is in the row or about to be saved (`LastGrantInv`), and that a login
  under way has a newer grant than either (`GrantInv`). So a token is refused only
  if a login that is still under way has overtaken it (`OvertakenInv`).
- `InboxTypeCorrect` and `ProcessedNoticesWereShown`, about `Notifications`, which
  runs over the connection and is an instance here with variables of its own.
  `ProcessedWasShown` says nothing of a worker at work; `GroupInv` does: what
  a synchronisation has to show for the group in hand is shown or still among what
  it has read, and after `SyncReturns` it is shown. The fact about the data is that a
  change is never told of anew and what has been shown stays shown
  (`DataGrows`), so leases, losses and stray replacements do no harm.
- `InboxImplementsLedger`: from the same invariant, every step of the inbox is one of
  `TaskLedger` or a stutter. A notification posts itself unanswered, since its change is
  newer than anything shown (`IngestPosts`); what is shown answers what is there
  (`ShowWorks`); a mark settles what was answered (`MarkSettles`); a failure
  returns a row or gives it up (`FailedReturns`).

`OperatorSessionsProofs`

- `TypeCorrect`.
- `RotatedOnce`: `OneSuccessor`, from `ServerInv`: the pair a session has now was
  never rotated and belongs to no other session. Every step issues one new pair,
  revokes a session or leaves the server alone (`ServerSteps`), so the steps of
  the device need no case of their own.
- `RevocationIsFinal`: from the same case split and `PayloadFollows`: the payload
  that authentication reads says revoked only if the column that the UPDATE of a
  rotation tests does.
- `LogoutIsEffective`: from `LogoutInv`, that a thread on its way out of a logout has
  revoked the session it found, and from `RevocationIsFinal` for every step of the
  others: a rotation that had read the session before cannot undo it.
- `ImplementsLedger`: every step is a step of `SessionLedger` or a stutter, from the case
  split of `ServerSteps` and `PayloadFollows`.

`WorkOrdersProofs`

- `TypeCorrect`.
- `OneWorkerHolds`: from `HolderInv`: the batches are disjoint (`Apart`), what is in
  a batch is processing (`Holds`) except for an order whose settling write took
  effect and lost its answer, and what may be leased is in no batch.
- `AnsweredAtMostOnce`: from `AnsweredInv`: the answer of an order is asked for under
  its leaf session, once that has left the status it can be started from, and it never
  returns there. So the retry after a lost answer stops at the session and never
  reaches the model.
- `OverspendIsBounded`: from `SpendInv`: what is spent, and a run's budget for every
  call that is still under way (`Cardinality` of the set of callers), together stay
  below the bound. A call that begins was admitted against the total
  (`SpendAdmitted`), one that ends pays at most what was kept for it (`SpendPaid`).
  The property says `spent > 0` since the budget may be smaller than an estimate, and
  then nothing is ever called.
- `ReopenedByOverlapOnly`: an action property; every write of a session is of what its
  writer read, while that was still active.

`CompanyIntelligenceProofs`

- `TypeCorrect`.
- `AnswersRestOnResponses`: from `RequestsInv`: a router that is about to close a
  request has a response of it stored (`BackedInv`). Until the first incident a request
  that is processed is in one place of one batch under a live lease and has no
  response but the one its router has just stored (`UntroubledInv`), so the response
  says what the request says.
- `KnowledgeIsReplaced`: from `MemoryInv`: a writer at its insert has marked its target,
  and the target of an entry comes before it.
- `RevisionsGrow`: from the same invariant: the revision a writer is about to insert is
  above every entry that its scope saw when it read (`RevisionIsNewest`), and memory
  only grows.
- `SeenMeansOrdered`: from `DaemonsInv`: the signals a scheduler is about to save as
  seen, and those it read as seen when it leased and may write back, are in an order that
  was recorded earlier, and orders are never removed.
- `ConclusionsAreBacked`: all six conjuncts of `ConclusionsRestOnEvidence`.
  `AnalysisInv` says that a conclusion is what the code computes for its study; the rest is
  a lemma for each kind. A workflow is proposed only with fresh evidence of all that its
  plan asks for (`WorkflowsStand`); a verdict is confident only on whole evidence
  (`VerdictsStand`); a completed run costs no more than its budget, as the cost grows with
  the tokens and the budget was compared with the most they may be (`CostGrows`,
  `CostIsForeseen`, `RunsStand`); only two daemons of the catalog can find all they
  ask for, whose agents' contracts allow what they order (`CompleteDaemons`,
  `ContractsSuffice`, `OrdersStand`); a brain without priorities has read every
  dimension, each is worth 7000 at least, and so is their rounded mean (`HealthyScores`,
  `MeanIsAbove`, `BrainsStand`); and a plan ranks every agent that its objective names
  exactly once, gives each of the first ones what its contract allows and an equal share
  (`RankingIsWhole`, `ActionsAreAllowed`, `SharesAreWithin`, `PlansStand`).
  The last two rest on inductions over data, which need no theorem with an operator as its
  parameter: `LeastNumber` (a set of natural numbers has a least element, from the
  well-foundedness of `<`) turns each into an argument about a least counterexample.
  So the sum of `MapThenSumSet` is shown to exist and to be bounded (`SumExists`,
  `SumBounded`) and every place of a ranking to be taken (`PlacesAreFilled`).
- `OnlyEvidenceHoldsOrders`: about the whole catalog, the preflight and the chain of
  command at once, and about no run. A governed order for any agent passes the CEO and the
  director and is denied by nobody, because no skill forbids what a contract grants
  (`SkillsFit`, `GrantedIsNotProhibited`), those who delegate need nothing but the kinds
  the processor claims (`DelegatesLackNothing`), every parent is in the catalog under its
  name (`NamesAreUnique`, `ChainsHold`) and the budget asked for is cut to the contract's. So
  `waiting-approval` is never the first status of a session of a governed order; the
  instance of `WorkOrdersMC` is one case of it.

`CommerceProofs`. Of the three parts, the audits only read the mirror and move leases
and due times (`MarginsAreQuiet`, `StocksAreQuiet`), and the pricing touches neither.

- `TypeCorrect`.
- `MirrorShowsNewest`: from `SeenInv` and `ProductInv`: no two observations of a source
  have the same time, and the product is the newest success with the status of the
  newest attempt; a late observation changes neither.
- `CostFollowsAuthority`: from `AuthorityInv` (one authority, on an active link) and
  `CostInv`: the cost comes from that link and is no newer than its product, also after
  reports that failed.
- `ConfirmationsAreEarned`: from `RecordedRun`: an observation that confirms
  lengthens the run by one, any other ends it and resets the count.
- `PricesReachTheTarget`: `PricingInv` says that a decision is what the pricing
  returns for its enquiry; the argument is arithmetic. The quotients are
  characterised once (`Quotient`, `CeilBounds`, `RoundedBounds`, `TruncBounds`); from
  these, the required price is the least one that reaches the target (`LeastPrice`), and
  the margin it promises is that of `calculateProfitability` at that price, off by
  at most the rounding of a fee (`PromisedMargin`). The costs per unit agree with
  the costs of the whole because every cost is a multiple of the quantity
  (`CostsPerUnit`).
- `StockProposalsAreEarned`: `ProposalsAreEarned` says nothing of what a desk read before;
  `EarnedInv` does. The cost of the listing is one that was observed (`CostBacked`), a
  snapshot that calls the listing profitable names a cost at which it earns its
  margin (`Truthful`), and what a desk holds between its read and its proposal was
  deserved when it was read (`DeskOK`, `Deserved`). Observations are only added, and
  newer than their predecessors, so all of this lasts (`TruthLasts`, `DesertLasts`)
  whatever happens between the read and the proposal.

`IntakeProofs`

- `TypeCorrect`.
- `AnswersStand`: from `ImagesInv`: a told verdict is the row's. Needed besides: a
  verification holds a row that exists, and a verdict that says verified was read of an
  upload that had not expired (`ChecksHold`).
- `RulingsStandForGood`: from `AcquisitionInv`, and the compare-and-set of the review.
- `ConfirmedWhole`: from `IdentificationInv`: every fingerprint is of an identification
  that is stored and was found to be neither stale nor a duplicate.
- `DuplicatesAreFound`: the search returns the first `SearchLimit` rows only, and that is
  enough (`SearchIsEnough`): the first of them is at least as similar as any row there
  is, so if that one is no duplicate none is. The lemma rests on `Undominated`: a finite
  set that is not empty has an element above which a strict order puts none.
- `NothingRestsOnLess`: from all three invariants; nothing begins on an image that is not
  verified, and a verified one is never refused.

## 15. What is only model-checked

Liveness (`OnlyFaultsStrand`, `EveryEventSettles`, `EveryOutcomeTold`,
`RefreshSettles`, `EveryNotificationSettles`, `RefusalSettles`,
`EveryOrderSettles`, `EveryRequestSettles`, `EveryReportIsAssessed`,
`EconomicsAreTold`, `AuditsComeToRest`): temporal reasoning under fairness and
ENABLED are outside the prover's reach.

Conversely `VerifiedMeansApplied`, `ProcessedMeansDelivered`, `ProcessedWasShown` and
`OneSuccessor` follow from the ledgers that the runs check, and are proved each for itself;
`SettledForever`, `AttemptsDecide`, `SettledUntilRequeued`, `RevokedStays` and the type
invariants are proved and in no run; TLC checked them while the models were written.

Some properties exempt, by name, the worst case of the hazard they are about, since the
code does not exclude it; they then bound the harm and do not detect it.
`LeaseExcludesUnlessEvicted` lets a save over a changed row evict a lease,
`EveryOrderSettles` leaves out orders whose worker died, `RevisionsForkOnlyByOverlap`
lets two writers that overlap fork, `EveryReportIsAssessed` leaves out what throws after a
cost of 0, and `AuditsComeToRest` leaves out the time in which `Asking` recurs.

## 16. What is not modelled

`PROJECT.json` gives each component's status. Of the modelled components, these
details are left out on purpose: the content of actions, approvals and evidence and
their hashes (fixed when the action is proposed); action statuses that no
operation produces (`failed`, `rejected`, `expired`); wording of errors; HTTP
validation; deletion (no operation of these components deletes rows). Pure
rendering, configuration parsing, the mobile app and deployment files carry no
state a model could check.

- Work orders: scorecards, the synchronisation of the catalog, session deadlines
  (stored and never enforced), long-term operational memory, and the shadow
  processor and `enqueueWorkOrder` of `operationalIntelligenceService.ts`, which
  nothing constructs or calls.
- Company intelligence: the four steps of a supply workflow, saved one after the
  other, are one step; findings, briefs and texts.
- Commerce: findings and reports; deactivation of a source; several SKUs, listings
  and fee changes. Nothing in the repository calls `SupplierMirrorService` or
  `prepareRepricing`; they are modelled as their callers would find them.
- Intake: scopes and field validation; the search of one discovery is one step.
- Not at all: the taxonomy cache, the Product Ads read plane, the content studio.
  They read remote services into tables of their own that no other component
  decides on; prompt compilation, HTTP gateways and media formats are text and I/O.
