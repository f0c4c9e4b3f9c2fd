# A verification project for the AC platform

The repository is a field-service platform: eight browser surfaces over one gateway, a
worker and a Postgres database. This directory holds TLA+ specifications of the parts
whose correctness depends on the order in which independent actors act, the TLC
configurations that check them on small instances, and machine-checked proofs of the
properties that matter most.

## 1. Inventory

### The system's parts and how they interact

```
 S1 front door  S2 service manager  S3 dispatch  S4 HQ  S5 technician  S6 customer  S7 vendor  S8 subcontractor
      \              \                 |          |         |  (localStorage, IndexedDB)   /        /
       \______________\________________|__________|_________|____________________________/________/
                                 packages/shell, packages/sdk   (one typed client, SSE)
                                                  |
                     services/gateway  (auth, sessions, handlers, unit of work)   external/logins-app
                                                  |                                    |
                              Postgres: packages/schema (RLS, triggers, constraints) --+
                                                  |
                     services/worker  (outbox relay, SLA cascade, credential, quote and rollup sweeps)
```

A surface calls a named operation; the gateway authenticates it, opens one transaction
(`beginTx`), binds the principal's scope for row-level security, runs the handler through
a *unit of work* (every write with its audit row and its outbox row, in the same
transaction) and commits. Nothing but Postgres is shared between requests: concurrency is
between transactions, at READ COMMITTED, ordered by row locks, advisory locks and
optimistic version checks. The worker reads what the gateway left (outbox rows, timers,
wrap-ups) in transactions of its own and tells the gateways, through `NOTIFY`, what to
push to the surfaces.

| Component | State it keeps | Operations | What is hard | What makes it correct |
|---|---|---|---|---|
| Job lifecycle (`packages/domain/src/sync`, `contracts/.../work.ts`) | none: tables of legal moves | `resolveMutation`, `JOB_TRANSITIONS`, `OFFICE_JOB_TRANSITIONS` | two tables and a policy that must agree | every move is along an edge |
| Dispatch and jobs (`handlers/assignment.ts`, `jobs.ts`) | `jobs`, `assignments`, `sla_timers`, `job_state_events` | create, transition, assign, release | two dispatchers, office against field, lock order, stale reads | a dispatched job has exactly one crew, a waiting or cancelled one none; the history is the truth |
| Offline sync, gateway side (`handlers/sync.ts`) | `sync_mutations`, `sync_conflicts`, field rows | `sync.replay` | replays, partial failure in a batch, standing read before a lock wait | each intent takes effect at most once; nothing is overwritten |
| Completion reports (`handlers/wrap-up.ts`) | `job_media`, `job_wrap_ups`, object store | attach media, wrap up | a retry in flight beside the first submit | a report is recorded once and its retry recognised |
| Offline queue, device side (`s5-technician/src/offline.ts`, `app.ts`) | queue, attention items, clock, in memory and in storage | enqueue, flush, dismiss, reload, sign-in | a lost answer, an answer after a reload or a sign-out, entries made during a flush | nothing unsettled is lost; order is kept; the queue drains |
| Completion outbox, device side (`s5-technician/src/wrap-ups.ts`) | drafts, outbox, media blobs | draft, submit, flush, discard | several uploads before one submit, each of which may be answered late | a report is sent once its photos are there and leaves once answered |
| Unit of work (`gateway/src/db`) | open transaction, audits, events | apply, commit, rollback | a crash between the write and its audit | a write, its audit row and its event commit together or not at all |
| Outbox relay (`worker/src/relay.ts`) | `outbox.published_at`, `attempts` | `relayOnce` | two relays, a transport outage, a crash between publish and mark | every event is published at least once, none is parked by an outage |
| SLA cascade (`domain/src/sla`, `worker/src/sweeps.ts`) | `sla_timers.escalation_stage` | sweep, satisfy | a sweep racing an assignment; skipped stages | one escalation per stage; none after the response |
| Credential expiry (`worker/src/sweeps.ts`) | outbox rows as memory | sweep | two workers at once | one warning per mark |
| Quote sweep (`worker/src/quotes.ts`) | `job_wrap_ups.quote_job_id` | sweep | retry after a refusal | one quote job per report |
| Compliance gate (`domain/src/compliance`, 0002 trigger) | `compliance_clearances` | evaluate, assign | a credential that ends inside the window | no assignment without a clearance over the whole window |
| Terms and hierarchy (`domain/src/inheritance`, `handlers/terms*.ts`) | `contract_term_overrides`, `accounts.path` | admit, resolve, move node | two amendments at once; a ratchet loosened from above | what is admitted resolves, and only tightens |
| Sessions and device shifts (`gateway/src/auth`) | `sessions`, `device_grants`, throttle | login, refresh, revoke, device login | revocation against requests in flight | a revoked session does nothing after its next check |
| Money, billing and settlements (`domain/src/money`, `billing`, handlers) | `invoices`, `settlements`, `payments` | price, invoice, settle, pay | rounding, a second invoice for one job | amounts add up; one invoice per job |
| Procurement and supply (`domain/src/procurement`, `supply`) | purchase orders, inventory | order, receive, approve | an approval of something that changed since | nothing is received twice |
| HQ rollup (`worker/src/rollup.ts`) | rollup tables | sweep | a sweep that sees half of a change | figures are of one instant |
| Events to surfaces (`gateway/src/http`, `packages/shell`) | SSE connections | subscribe, push, reconnect | an event while disconnected | a surface refetches after a gap |
| Surfaces S1-S8, `packages/ui`, `packages/tokens` | view state, the resource store's held answers | screens, read, invalidate | a fetch that is answered after the one that overtook it | what is held is never replaced by an older answer |
| Schema (`packages/schema`) | constraints, triggers, RLS | migrate | - | it backs the above |
| Tools, CI, infra, import, `external/logins-app` | - | - | - | - |

The hazards the properties are for, each at its line, are in `PROJECT.json`. Others were met
and are left there: two devices of one crew that replay batches over the same two jobs in
opposite orders (`sync.ts:103`); two tabs of one technician over one storage key
(`offline.ts:183`); photos that arrive through `sync.replay` past the cap the attach
operation makes (`sync.ts:192`); overrides a moved node carries under ancestors they were
not admitted against (`hierarchy.ts:273`); a region's holders, a crew's work and a device's
overlapping grants counted without a lock (`regions.ts:116`, `network.ts:402`,
`devices.ts:151`); a payment webhook with no key to recognise a repeat by (`payments.ts:64`);
two contacts made primary at once (`site-record.ts:221`); and a photo still being written
while its draft is submitted (`wrap-ups.ts:160`).

## 2. Plan

In order of importance. All of it is built but the last line.

1. **The job in the gateway** - `JobLifecycle` (tables and decisions), `Dispatch` (the
   handlers that share a job, concurrently), `DispatchProofs`.
2. **The technician's device** - `OfflineSync` (device queue, network, `sync.replay`),
   which implements `IntentLedger` (what offline sync promises), with `OfflineSyncProofs`;
   `WrapUps` (the completion outbox with the gateway's answers), with `DeviceProofs`.
3. **Events and the worker** - `Outbox` (unit of work, two relays, `NOTIFY`, parking),
   `SlaCascade`, `ExpirySweep`, `QuoteSweep`, with `WorkersProofs`.
4. **The office's records** - `PurchaseOrders`, `PriceList`, `Payments`, `Settlements`,
   with `MoneyProofs`; `Network`, `Technicians`, `Intake`, `Access`, with `NetworkProofs`;
   `Terms`, `Hierarchy`, with `HierarchyProofs`.
5. **The surfaces** - `ResourceStore` (what a screen holds of a read), proved about in
   `DeviceProofs`.
6. Open: `Dispatch` with batches over several jobs.

`Queues` is what the two device modules share (a queue that is filtered), and
`ModelLemmas` holds the lemmas about it and about sums that several proof modules cite.

## 3. The modules

### `JobLifecycle` - the tables

Pure operators, one per table of the source and under its name: `JOB_TRANSITIONS` and
`DEVICE_TRANSITIONS` (`domain/src/sync`), `OFFICE_JOB_TRANSITIONS` (`contracts`),
`DISPATCHABLE`, the conflict policies, and `resolveMutation`, which rules on a device's
mutation: applied, duplicate, superseded, rejected or queued for a person.

### `Dispatch` - the handlers that share a job

State: the tables (`state`, `version`, `timer`, `asg`, `intents`, `media`, `wrapUps`, and
`tail`, the newest `job_state_events` row), Postgres's row locks (`jobLock`, `rowLock`),
and per handler what its transaction knows (`pc`, `req`, `row`, `read`, `standing`).

A handler is one transaction. It is split into actions where another transaction can come
in: at each statement that reads a row it does not hold, and at each wait for a lock. The
guard of a waiting action is that the lock is free; its writes become visible in its last
action, which is also its commit. `SELECT ... FOR UPDATE OF j` is two actions, because a
statement that waited re-reads `j` and nothing else: what it computed from the
`assignments` table is of the snapshot it began with. The actions of one handler, by name:

| Handler | Actions |
|---|---|
| `jobs.create` | `createJob` |
| `jobs.transition` | `TransitionRead`, then for a cancellation `CancelSee`, `CancelLock`; `TransitionWrite` or `TransitionStale` |
| `dispatch.assign` | `AssignBegin`, `AssignLock`, `AssignWrite` or `AssignRefused` |
| `dispatch.release` | `ReleaseBegin`, `ReleaseLockJob`, `ReleaseWrite` |
| `sync.replay` | `SyncSee`, `SyncGrant`, `SyncStranger`, `SyncDuplicate`, `SyncMove`, `SyncRecord` or `SyncRowRefused` |
| `jobs.attachMedia` | `AttachSee`, `attachJobMedia` |
| `jobs.wrapUp` | `WrapUpBegin`, `WrapUpReplayed` or `WrapUpSee`, `wrapUpJob` |
| any of them | `Abort` (the process or the connection dies), `DeadlockVictim` (Postgres ends a deadlock) |

`DispatchProofs` holds the theorems about it.

### `OfflineSync` and `IntentLedger` - a technician's intents end to end

`OfflineSync` has the device's queue object (`pending`, `attention`, `seq`, `flight`), its
copy in storage (`store`), the queue object of an earlier session that still waits on a
flush (`orphan`), the network (`requests`, `responses`, which may be lost, delayed and
overtaken), and the gateway's side of a batch (`intents`, `applied`, `job`, `live`).
`enqueue`, `FlushSend`, `FlushDone`, `FlushFail`, `dismissAttention`, `Reload` and
`SignInAgain` are the device's; `ingestSync` serves a whole batch, in device order, each
mutation under its savepoint; the office moves or releases the job meanwhile.

What a batch may leave behind is `Replayed(batch)`, the set of outcomes of running
`ingestOne` over the batch from `Begin(batch)`, with or without each row being refused
(`After`). `OfflineSyncProofs` holds the theorems.

`IntentLedger` is what offline sync promises, in four variables: the server rules on an
intent at most once, never changes a ruling and rules on nothing nobody made; the device
holds an intent until it is ruled on or has been found already so (`moot`). `OfflineSync`
implements it under the mapping `made` to the set of ids made, `held` to the ids in
`pending`, `ruling` to `intents`.

### `Outbox` - events from the commit to the surface

`apply` (with or without a refused row), `commit` and `rollback` are the unit of work;
`Claim`, `Publish`, `PublishFailed`, `Mark` and `RelayDies` are `relayOnce`, split at the
awaits; `Stray` is a row someone wrote around the gateway; `StreamLost` and
`StreamReopened` are the `LISTEN` connection and the surface's stream taken together. A
`NOTIFY` takes effect with its transaction's commit, so it is `Mark` that counts notices.
`WorkersProofs` holds the theorems, with those of the sweeps.

### `WrapUps` - the device's completion outbox

A draft is submitted, becomes an entry, and a flush sends the entries oldest first: each
photo (`attachMedia`), then the report (`sendWrapUp`). The gateway answers as
`attachJobMedia` and `wrapUpJob` do, over a network that loses calls and answers and may
deliver a call the device has given up on. `takeAnswer`, `giveUp` and `lostShot` are the
flush's branches; `reload` keeps what was saved.

### `SlaCascade`, `ExpirySweep`, `QuoteSweep` - the worker's sweeps

Each is a transaction of select, decide and commit, run by several workers and lost at any
point. The cascade and the quote sweep take rows `FOR UPDATE SKIP LOCKED` in batches of a
limit; the expiry sweep takes an advisory lock, and what it has said is read back from the
outbox. Time passes between a sweep's read and its commit.

### `ResourceStore` - what a screen holds of a read

One key of the store: `read` starts a fetch and shows what is held until it is answered,
`invalidate` forgets the key and counts its generation up, and the answers come in any
order (`gatewayAnswers`, `fetched`) or not at all (`fetchFails`). An answer is the version
of the facts it was made of, and may be a refusal, which drops what was held. In the
technician's tab the last answer is kept in `sessionStorage` as well, unless that is full or
blocked, and `heldReads` seeds the next load with it; so only within one load does what is
held go forward.

### The office's records

In these modules a handler is a step that reads and decides (`...Asked`) and a step that
writes, with every other request between the two, unless it holds a lock in between; the
triggers and constraints of the migrations are conditions of the write. A request may be
lost between the steps.

| Module | What it models | What carries its properties |
|---|---|---|
| `PurchaseOrders` | order, shipment, receipt, invoice with three-way match, return | `lockPo`, and 0011 / 0029's quantity triggers |
| `PriceList` | proposal, acceptance that closes the price in force, withdrawal | the exclusion constraint over accepted periods |
| `Payments` | payment, return, void | the invoice's row lock and 0030's triggers |
| `Settlements` | issue, acknowledge, dispute | 0007's trigger over the firm's writes |
| `Network` | firms, crews, credentials, the compliance gate | the gate read over the whole window, and asked again of each document at the write; verified documents do not change |
| `Technicians` | who sits on which crew | 0029's trigger, which locks the technician and then the crew until the commit |
| `Terms` | agreements, admission and resolution of overrides | the advisory lock per term and admission's choice of days |
| `Hierarchy` | regions, the tree, sites' jobs and requests, moves | 0002's cascade and `moveAccount`'s count of open jobs |
| `Intake` | leads, photos of a request, the pin of an address | row and advisory locks; the address asked again after the geocoder |
| `Access` | shift grants, sign-in, sessions, their end | revocation, and the lifetime cut at the grant's end |

In `Terms`, `shaken` is a history variable: it records that a location has moved or that
an ended agreement was written back, after which the code itself does not re-admit
anything and the property claims nothing.

`Hierarchy` has two history variables, which no guard reads. `beside[h]` is what other
requests have committed since `h` decided on a move, or wrote rows, and has not ended.
`crossed` is what two such requests had a hand in: a node written under a parent that
another request committed meanwhile, or put by another under a row this one wrote; and an
open job at a rewritten site that was opened meanwhile, or whose site or new region was
written meanwhile (or had been so before). A crossed node that is rewritten by a request
alone is no longer crossed. The handlers and triggers read committed rows and lock none of
what they read, so such nodes and jobs can keep the region that is left; the properties say
that nothing else does. `holders` counts what the model has (nodes, open jobs, active
crews) and not the logins and home crews a region may also hold.

## 4. The runs

| Run | Instance | What it shows |
|---|---|---|
| `dispatch_crews` | one job, two crews, two requests at once, two assignment rows, one mutation, up to version 6 | `CrewMatchesState` and `MovesAreLegal` through every interleaving of assign, release, cancel, the office's other moves and a released crew's replay; `EveryRequestEnds`, deadlocks included |
| `dispatch_field` | one crew, two requests, two mutations, a photo, a report | from an opened job to a wrapped-up one: `TypeOK`, `DispatchedIsAnswered`, `HistoryIsTrue`, `RetriedWrapUpIsRecognised` |
| `offline_sync` | two intents of five kinds, or three that are all moves; two requests in flight | `UnsettledIsStored`, `AppliedInDeviceOrder` across a reload, and the refinement `ImplementsLedger` |
| `offline_sessions` | two rows to append, two requests in flight, a second sign-in | `AppliedAtMostOnce` even with two queue objects, and `EveryIntentLeaves` |
| `background` | events: two rows, a stray, two units of work, two relays, batches of two, parking at two. Completions: two jobs of a photo each, two submits, a reload. Response timers: a short and a long window, two workers, batches of one, five ticks | the relay's `EventsAreFacts`, `NotifiedOnce`, `OnlyStraysAreParked`, `EveryEventIsPublished`; the device's `CompletionIsKept`, `EveryCompletionSettles`; the cascade's `EscalationsChain`, `BreachIsDue`, `AnsweredIsNotPaged`, `ConsumedIsBreached` |
| `office` | each module of the office's records with two requests at once (but one sign-in and one request that moves an agreement; the tree also with one); two workers over three reports and over two credentials with two marks; a store's key with three versions, three fetches, two loads; see `MCOffice.cfg` | one property of each, two of `PurchaseOrders`, two of `Hierarchy` and three of `Intake` |
| `released_crew`, `offline_discarded`, `quote_starved`, `wrapup_resent`, `request_stranded`, `tree_crossed` | the smallest that show it | each is a violation: section 6 |

**Composition.** `MCBackground` and `MCOffice` put modules that share no table into
one run. `part` is chosen in the initial state and never changes; the named part moves and
the rest stand still. Since no action of one reads a variable of another, every behaviour
of a part is there (but for `OneAtATime`, `TwoAtOnce` and `ShortJob`, which the bounds
below explain), and the state spaces add up instead of multiplying. `MCOffice`'s
symmetry exchanges the two concurrent requests, which have the same role in every part;
its properties are safety properties.

**Bounds.** Jobs share nothing but crews in the dispatch handlers (no handler locks two
jobs, one mutation per batch in `Dispatch`), so one job is enough for its properties; the
proofs cover any number of requests at once where the runs have two; `MaxVersion` lets a
job be assigned, released, assigned again and cancelled, or walked from created to complete
with room left. `MaxInFlight` 2 lets a retry overtake what it retries; `MaxOffice` lets the
office act before and after a batch is served. The third intent of `offline_sync` is
there so that a reload can fall between the second and it, which only moves of the job
tell apart, and only where the office does nothing (the constraint `MCMade`). A batch smaller than the number of rows, and a parking mark small
enough to be reached by failures, make the limits bite. A long window of five ticks has
its stages at different ticks, the short one all at once. Two lines of quantity one are
enough for an order to be half received and for a quantity to be asked for twice; two
payments of one fill an invoice of two, and the third finds no room; three prices over two
days are one more than fit. The crew of our own needs two documents and there are two, over
a window of two days, so a document that covers one of them exists. One agreement is enough
for `AdmittedTermsResolve`, which looks at rows by node and day and not by agreement.
The tree is run twice in `office`, with two region nodes, a location and a site: as `tree`
with every operation and one request under way at a time, and as `race` with two that
create, move, open jobs, commit and die, while regions stay open and customers ask for
nothing (`TwoAtOnce`). A move that races a creation under it, a job at it, or the creation
of the node above it needs no more than that. In `background` the job of the short timer is
only assigned or cancelled (`ShortJob`); that of the long one goes anywhere.

**Deadlock checking** is off where the ids, versions, ticks or submits of an instance run
out, after which nothing more can be asked. That no *request* is stuck in `Dispatch` is
`EveryRequestEnds`. In the `OfflineSync` runs it is on but for the finding's.

Every property has a mutant: a definition of the model changed the way a bug in that code
would change it (a dropped guard, a missing lock, an uncapped counter), under which the
property fails. They stand beside the definitions they replace and nothing else uses them.

## 5. Fairness

- `Dispatch`: strong fairness of a handler's next step (the event loop runs it; Postgres
  grants row locks in queue order, so a waiter is not passed over for ever) and weak
  fairness of the deadlock detector. Nothing is assumed of requests beginning.
- `OfflineSync`: the one-second ticker flushes a non-empty queue; a fetch with no answer
  fails by its timeout; a network and a gateway that are tried again and again answer in
  the end (strong fairness of serving and answering). Nothing is assumed of the
  technician or the office.
- `Outbox`: the relay's one-second interval (weak fairness of `Claim`); strong fairness of
  `Publish` and `Mark`, that is, a transport that is not down for ever and a relay that
  does not die in every batch; the reopening of a lost stream. Nothing is assumed of
  commits.
- `WrapUps`: the flush's own steps and the giving up of a call that has no answer (weak
  fairness: the ticker and the fetch timeout); a gateway and network that are tried again
  and again answer in the end (strong). Nothing is assumed of the technician.
- `SlaCascade`, `QuoteSweep`: every worker starts a sweep every minute (weak fairness of
  the select), and of the sweeps that hold a row not every one fails (strong fairness of
  the commit). Nothing is assumed of the clock, of dispatch or of the office. Nothing is
  assumed either of which due row a sweep holds.

## 6. What the checks found

Six places where the code does not do what its own comments or messages say; the exact
quotations are in `PROJECT.json`.

1. `released_crew`: a replay that waits on the job's lock while the office releases its
   crew applies the crew's row, on the standing it read before it waited.
2. `offline_discarded`: when an answer is lost, the retry of a rejected intent is answered
   `duplicate` and the technician is never shown it.
3. `quote_starved`: reports whose quote job is refused keep their place at the head of the
   batch; as many of them as the batch holds keep every later report from its job.
4. `wrapup_resent`: a photo the object store did not take refuses the whole completion, and
   the device, which tells the technician it will be sent again, does not send it.
5. `request_stranded`: a site that moves to another region leaves its waiting requests in
   the old one, where they can no longer be answered with a job at their site.
6. `tree_crossed`: a site created under a location whose move to another region is not yet
   committed stays in the region the location has left: the insert's trigger reads the
   location's old row, the move's cascade does not see the site. A job opened at a site that
   is moving is stranded in the same way (`moveAccount` has counted before it is there).

Found while modelling, without a run of their own:

- a cancellation and a release of one job take the assignment and the job in opposite
  orders; Postgres ends one of them (`DeadlockVictim`), and `EveryRequestEnds` holds;
- an intent found already true is answered and not recorded, so a delayed copy of the
  request is ruled on again; and signing out and in during a flush lets the late answer
  write the older queue over the newer one in storage (both are behaviours of
  `OfflineSync`, and `AppliedAtMostOnce` holds with them). With the second, an entry made
  since is gone from storage, and after a reload what is made next can be applied before
  it, if its first request is still on its way: neither `UnsettledIsStored` nor
  `AppliedInDeviceOrder` nor `ImplementsLedger` holds where sessions share the storage;
- an event notified while the way to the surface is down is not delivered later: delivery
  to a surface is at most once (`StreamLost` and `StreamReopened` of `Outbox`);
- several office writes are decided on a state that was read without a lock and written to
  whatever it has become: an agreement that has ended can come back, a statement the firm
  has answered can be issued again, a terminated firm can be reactivated, and an order can
  be cancelled beside its first shipment;
- `lockPo`'s comment says received is capped at shipped; the triggers cap it at ordered;
- a password changed while a sign-in with the old one is between its check and its insert
  leaves that session standing.

## 7. The proofs

Every safety property the passing runs check, invariant or action property, and the
refinement of `IntentLedger` are proved, for arbitrary constants. The proofs assume only the
named `ASSUME`s of the modules, which say what constants are (naturals, disjoint kinds of
ids, total functions; `WrapUpsAssumption` that a photo is one job's, `HierarchyAssumption`
that no node is called "none" or "org" and none is a job), and no bound of an instance: sets
of rows and of requests may have any size. Only three of the four theorems about
`OfflineSync` have a hypothesis of their own, `~SignsInAgain`: nobody signs out and in again
in one page while a flush waits. Without it they are false (section 6), and TLC shows each
counterexample on two or three intents. The run checks them under the same restriction.

| Module | Theorems |
|---|---|
| `DispatchProofs` | `TypeCorrect`, `OneCrewPerDispatchedJob`, `DispatchAnswersTheTimer`, `EveryMoveIsLegal`, `EveryMoveIsRecorded`, `RetriesAreRecognised` |
| `OfflineSyncProofs` | `IntentsTakeEffectOnce`, `EffectsFollowTheDevice`, `NothingUnsettledIsLost`, `DeviceAndGatewayKeepTheLedger` |
| `DeviceProofs` | `CompletionsAreKept`, `HeldNeverGoesBack` |
| `WorkersProofs` | `TypeCorrect`, `EventsAreTheFacts`, `OneNoticePerRow`, `OutagesParkNothing`, `StagesAreToldOnce`, `NothingIsEarly`, `AnsweredIsLeftAlone`, `OneJobPerReport`, `EachMarkIsSaidOnce` |
| `MoneyProofs` | `BilledIsInTheHouse`, `OrdersAddUp`, `ReturnedIsWhatStands`, `OnePriceOnAnyDay`, `PaymentsAddUp`, `PaidIsWhatStands`, `DisputesStand` |
| `NetworkProofs` | `SentWorkIsCovered`, `RosterIsSound`, `OneCustomerPerLead`, `PhotosKeepTheCap`, `PinIsNeverElsewhere`, `OnShiftOnly` |
| `HierarchyProofs` | `AdmissionIsEnough`, `RegionsFollowTheEdges`, `OpenJobsStayWithTheirSites` |
| `ModelLemmas` | lemmas only |

### The gateway's job

`CrewMatchesState` is not inductive: that a job has one crew after a cancellation depends on
what the cancelling transaction read some steps ago and on why that is still true. `IInv`
adds, for every handler `h`, `TxInv(h)`:

- `TxReads`: what a transaction refers to exists, and its row is of its job;
- `TxDecides`: an office move was legal from the state that was read, and the version read
  is not ahead of the job's;
- `LocksHold`: what the holder of a lock has read is still so;
- `CancelKnows`: while the job is as the cancellation read it, the crew it saw is still on
  the job, or there is still none;

and `TablesAgree` (versions, the tail of the history and the existence of a job agree).
`CancelKnows` is the heart: a cancellation holds no lock on the job when it looks for the
crew, and what saves it is that every handler that adds or takes off a crew also takes
the job's version up, so the guarded `UPDATE` fails. The proof has one lemma per action,
`OthersInv` for what a step does to the *other* transactions, and the `*Kept` lemmas for
the tables. The action properties follow from `IInv` and a classification of steps: by
what they do to the job (`StepKinds`), and by who answers a device (`AnswerKinds`).

### The technician's intents

`OfflineSync` is proved about in two layers.

`OnceInv` is enough for `AppliedAtMostOnce` and holds for any number of sessions: every
queue, in memory (`SessionInv`), in storage (`StoreInv`), of an earlier session
(`OrphanInv`) or on its way (`WireInv`), is numbered in order, so that sorting a batch by
number changes nothing (`AlreadyInOrder`); and the record `intents` says "applied" of
exactly the intents that took effect (`RecordInv`). A batch is a recursive function over its
entries; `IngestOneRules` says what one entry does, and `ReplayRules` carries it through a
batch of any length.

`SyncInv` adds what one session keeps: the queue in memory is the stored one, its entries
are in the order they were made, and what is unsettled is in it (`PendingInv`); a batch on
its way brings with each of its entries everything made before that entry which is not
settled (`Fits`), which stays true however late it arrives, because what is settled stays so
(`FitsOn`); and the answer a flush waits for is about what it sent, all of it settled
(`WaitsInv`). `Fits` is why requests that overtake each other do no harm: an entry's turn
comes when all that was made before it is settled (`EarlierIsSettled`).

The refinement is by steps: `enqueue` is the ledger's `Make`, `ingestSync` its `Rule`,
`FlushDone` its `Forget`, and everything else leaves the four variables of the ledger as they
are (`MakeInLedger`, `RuleInLedger`, `ForgetInLedger`, `LedgerNext`).

### The completion outbox and the resource store

A flush of `WrapUps` makes its list of work when it begins, while entries are added,
reopened and marked. `TodoWaits` says that what is still on the list is in the outbox under
the same number, and `CallIsTheHeads` that the call it waits for is about the head of it, so
a good answer takes off the entry whose report the office has. `ReportedIsWhole` says that a
report the office has is there with all its photos. For `ResourceStore` the invariant is
that nothing on the page was made of facts newer than the gateway's (`NothingIsNewer`), that
a fetch of a generation to come has not begun (`NoFetchAhead`), and that the answer to the
present one is not older than what is held (`PresentIsNotOlder`); the others are dropped.

### Events and sweeps

`Outbox`: a unit of work's memory is what its transaction wrote (`Noted`) and batches are
disjoint and unpublished (`Locked`). `SlaCascade`: the row a sweep has read is the row it
updates, because a row is held by one sweep (`OneReader`) and no opening and no assignment
writes it meanwhile (`ReadStands`); `StageCounts` turns the choice in `StageAt` into three
comparisons, and `ChainGrows` is about the sequence of events. `QuoteSweep`: what two sweeps
have taken is disjoint and has no job (`TakenApart`, `TakenIsUnopened`). `ExpirySweep`: one
sweep is between its read and its commit (`OneLook`), so what it is about to say has not
been said (`SaysNews`), whatever day it believes it is.

### Money

`BilledIsInTheHouse` is about two steps: the three-way match is computed in the one and
billed in the other. `MatchStands` says that it is still right: whoever adds to what is
billed, received or sent back holds the order's lock (`RequestsFit`), which has one holder
(`OneOrderHolder`), and the vendor's answer to a return, which locks nothing, only takes
from what is sent back. For the quantities and the payments the invariant has to say that a
number is a sum over rows: `AddsUpTo(a, n)` of `ModelLemmas` says it by a witness, a function
that gives every subset of the rows its part and grows by one row's amount with that row.
`TallyGrows` and `TallyShrinks` change one row and the total with it, and no induction over
the rows is needed. `PaidIsWhatStands` and `ReturnedIsWhatStands` state the sums themselves:
the code computes what is paid by a `sum` over the payments table each time
(`payments.ts:47`), and the module keeps it as a number. Of a price, nothing a request has
read is needed: accepted periods never overlap, which the constraint checks. Of a statement,
that the trigger looks again at the state the firm moves it on from.

### The network and the doors

`SentWorkIsCovered`: nothing is locked between the gate and the assignment, so the invariant
says that a request which is about to send has documents that cover (`DeskIsCovered`), and
`DocumentsStand` that no step changes a verified document. `RosterIsSound` judges what is
written but not committed: requests that have written are about different technicians and
different crews (`WrittenApart`), so each still fits when it commits (`WrittenFits`).
`Intake` has one part per handler (`LeadHeld`, `PhotoHeld`, which counts with the library's
facts about cardinality, and `PointHeld`). `OnShiftOnly` rests on `EndsInTime`: a token ends
no later than its shift does *now*, or one second after it was minted; shifts are only
extended or revoked (`TimeKept`), so a sign-in that read an older end errs to the safe side.

### The tree and its terms

Admission compares a new override with one standing row at a time, on the day the new row
begins and the days on which rows above it begin; the resolver takes all rows on any day.
`ChangePointsAreEnough` is the lemma between: a row that passes admission is `Compatible`
with every row it overlaps, because of two rows that overlap the later beginning is one of
the days looked at. Rows that are compatible two by two resolve (`PairsResolve`), and the
author that waits for its insert stays compatible while agreements end (`AdmittedAgree`),
as the advisory lock keeps other authors of the term out (`OneAuthor`).

For the tree, any number of requests overlap. `Rooted` holds of it whatever they do: each
node is one rung below a node there is, and in the region of the region node its path begins
in. `Edged` and `Staffed` say what holds but for what was crossed: a node has its parent's
region and path, an open job its site's region. What carries them over a commit is `Fits`,
about the rows a request has written and not committed, in a tree that others have changed
since: each row agrees with its parent unless that was committed beside it, every node under
a row that is not itself a row was committed beside it, and an open job at a row, unless
something about it was, is in the region the row goes to. The last comes from `Counted`,
what is left true of a move's count of open jobs once others have gone on (`MoveAskedCounts`
shows it when the move is decided on). `Fits` and `Counted` stay true when others commit,
because `beside` grows by what they commit (`FitsOn`, `StandsOn`), and rows two requests
hold are apart (`Apart`). A move rewrites the whole subtree it can see in one step
(`MoveInv`).

### What the prover does not do

It instantiates no theorem that takes an operator as its parameter, so there is no induction
rule to cite. What the proofs need of recursive functions (the filter `KeepIn`, a batch's
`Replayed`) is shown from the least natural number at which it would fail (`LeastNatural`).
Liveness under fairness is beyond it: `EveryRequestEnds`, `EveryIntentLeaves`,
`EveryEventIsPublished`, `EveryCompletionSettles` and `ConsumedIsBreached` are only
model-checked.

## 8. What is not modelled

`PROJECT.json` lists every component with its status. Inside what is modelled: tenancy and
the write allowlist, which refuse before a handler runs; payloads, notes, wording and
amounts that nothing compares; the object store, which accepts or refuses; replays that
span several jobs in `Dispatch`; a browser that dies between two synchronous writes; two
tabs of one technician; terms that are not ratcheted; the login throttle; pricing and
allocation of money. `Dispatch` takes the compliance verdict as given and `Network` takes
the job as waiting; that the two agree is `assignCrew`'s order of locks, which both have.

Outside: the surfaces' views, the generated client, the wire types, the demo and import
tools, the HQ rollup's SQL, message and brand records, and everything that is one insert or
one read. They are most of the repository's lines, and have no protocol for a model to
check: the share of the lines that the modules translate stays small for that reason, and
the parts listed above are those whose correctness depends on an order of steps.
