# A TLA+ model of grokbuild-pool

`grokbuild-pool` puts one client-facing API in front of a large pool of upstream
accounts. A request is authenticated and charged to a client token, an account is
picked and leased, its OAuth token is refreshed when needed, the request goes
upstream, and what comes back decides the account's health. This directory holds
TLA+ modules of the parts where those steps run concurrently, the TLC
configurations that check them on small instances, and proofs checked by TLAPS for
instances of any size.

File names and line numbers are those of the repository; `pkg/` stands for
`src/internal/pkg/`.

## 1. Inventory

### The system and its parts

| Part | Code | State it keeps | Operations that change it |
|---|---|---|---|
| Sticky table | `selector/sticky.go` | bindings conversation → (primary, secondary, expiry); LRU list; reverse index by account; one mutex | `getPair` (renews or removes), `put`, `putSecondary`, `deleteKey`, `deleteAccount` |
| Selector | `selector/selector.go` | strategy, round-robin cursor, sticky table | `PickExcluding`, `BindSticky*`, `ClearSticky*`, `ApplyConfig` |
| Hot index | `hot/index.go` | metadata of at most `Cap` accounts, dense id list with positions, in-flight counts; one RW mutex | `Promote`, `Demote(Many)`, `Resize`, `Add/SubInflight`, `SetCooldown`, `LoadEligible`, `LoadMetas`, `Close` |
| Catalog | `catalog/catalog.go` | SQLite table of accounts with a revision per row, table of model cooldowns; one RW mutex | `UpsertMany`, `UpsertImportedMany`, `UpdateTokens` (compare-and-swap), `PatchHealth`, `SetProxy`, `BatchSetManualEnabled`, `BatchDelete`, model cooldowns |
| Lease manager | `lease/lease.go` | model cooldowns in memory, configuration | `Acquire`/`AcquireAttempt`, `Release` |
| Account administration, hot reload | `admin/accounts.go`, `admin/probe.go`, `app/server.go` | none of its own | enable, disable, delete, proxy, probe; a timer's `LoadEligible` |
| Client tokens | `clients/store.go` | SQLite table of tokens (`mu`), in-flight counts and rate windows in memory (`gateMu`) | `AcquireSlot`, `ReleaseSlot`, `ReserveQuota`, `SettleUsage`, `RefundQuota`, `Patch`, `SetEnabled`, `Delete(Many)`, `Create` |
| Client API gate | `httpserver/middleware.go` | global limiter (atomics) | `LimitConcurrency`, `RequireClient`, `SetMaxConcurrent` |
| Refresh service | `refresh/service.go`, `refresh/policy.go` | singleflight groups, job channel, workers | `EnsureFresh`, `ForceRefresh`, scan, `Start`/`Stop`/`ApplyConfig` |
| Executor | `protocol/executor/executor.go` | per request: accounts tried, budget of 429 failovers, last answer | `Post` (failover loop), release when the body is closed |
| Cluster: state, worker, gateway, control plane, refresher | `clusterstate/`, `worker/`, `gateway/`, `controlplane/`, `refresher/` | Redis: shard leases, in-flight counts, sticky table, refresh queue, worksets | acquire, renew and release a shard; claim a due refresh; refill; reconcile |
| Import jobs | `importjobs/jobs.go` | running and uploading counts, permits, staged files, job list | `ReserveUpload`, `StageReservedUpload`, `Submit*`, `run`, `Close` |
| Proxy pool | `proxypool/pool.go`, `admin/proxy_pool.go` | JSON file of proxies with health | `Pick`, `MarkFail`, `ReplaceAll`, assignment (`MarkOK` has no caller) |
| Settings | `admin/settings.go` | settings in memory, JSON file | `Load`, `Apply` reconfigures the parts above one by one |
| Protocol translation | `protocol/anthropic`, `protocol/openai` | per-stream state | stream state machines, mapping of fields |
| Imports | `authimport`, `bulkimport`, `ssoimport` | permits of the device flows, batches under way | count, parse, convert, write in batches |
| Rest | `config`, `store`, `outbound`, `protocol/upstream`, `adminui`, `app`, `cmd`, `synth`, `scripts`, `deploy` | configuration, SQL mapping, HTTP clients, wiring | – |

### How they interact

* **Shared tables, separate locks.** The catalog and the hot index hold the same
  accounts. Each has its own lock and no operation holds both, so every `Acquire`,
  `Release`, enable, disable, delete and reload is a *sequence* of critical sections
  (for a release up to six), and everything read in one may be overtaken in the next.
* **Copies.** The index is updated by `Get`, changing a copy, and `Promote` of the
  copy. `Promote` keeps the live in-flight count of an account that is still hot and
  inserts one that is not.
* **Second look.** Because the index may be stale, `acquireOnce` reads the catalog
  row again after the pick.
* **Compare-and-swap.** A refresh reads a row, talks to the provider without any
  lock, and stores the result if the row's revision is unchanged. Every writer of the
  row raises the revision, leases included.
* **Reserve, then settle.** A client request takes a place in the global limiter, a
  slot of its token and one unit of quota, runs, and settles or refunds the unit;
  administrators may change or delete the token at any time.
* **Callbacks.** A failed release clears sticky bindings and reports the proxy; the
  settings push new configuration into running components.
* **Handing over.** A slot goes from an upload to its job, a lease from the failover
  loop to the body of the answer, a permit from one device flow to the next; each must
  be given back on every path, once.
* **Keys with a term.** In a cluster, ownership of shards, locks and in-flight counts are
  Redis keys that expire; each operation is a sequence of commands.

### What is hard

Interleavings of critical sections, stale copies, cancelled contexts, counters at
their limits, changes of limits under running requests, conflicting writers, scanning
under a permanent failure, keys that expire between two commands, crashes between two
writes, failures half way through a sequence, answers out of order, the same content
told twice. `PROJECT.json` lists the main hazards at their lines with the property that
covers each, or the reason why none does.

### What makes each part correct

* Selector and sticky table: list, map and reverse index agree; a cleared account is in
  no binding; however stale a binding is, a pick answers with an account that was
  eligible while it ran; the turns of a layer are shared evenly.
* Hot index: the dense list and the positions name every account once; only an
  overtaken reload outgrows the capacity; counts change only by leases.
* Lease pool: the in-flight count is the number of leases; no account barred before
  the pick is leased; a quarantine sticks.
* Quota gate: slots and quota are conserved whatever administrators do; caps hold.
* Refresh: one exchange serves all callers; answers are fresh; newer tokens are not
  overwritten; every expiring account is refreshed or leaves the pool.
* Executor: each lease is released once, the newest upstream answer is the one the
  client gets, the cost of a request to the pool is bounded, every request ends.
* Streams: clients get well-formed frames, each piece of content once, and an end that
  tells what became of the stream.
* Imports: slots and staged files have one owner; the report of a job is true of the catalog; no permit is
  lost; every value gets its own credential; limits count what the parser would parse.
* Cluster: a split of a shard heals; places of accounts and requests come back; a due
  account is in one place; a rotated token is not lost while nothing fails.
* Settings and proxies: what is acknowledged is in force, in the file, and back after a
  restart that can read the file; a saved list does not forgive a failing proxy.

## 2. Modules

| Module | Role |
|---|---|
| `StickyLRU` | the sticky table |
| `Selector`, `MCSelector`, `Selector_proofs` | the selector over that table (extends `StickyLRU`); the proofs are about both |
| `HotOps` | operations on hot entries shared by the next two: filter, victim, update, counts |
| `HotIndex`, `MCHotIndex`, `HotIndex_proofs` | the index with its dense list and the two-section reload |
| `LeasePool`, `MCLeasePool`, `LeasePool_proofs` | lease manager over catalog and index, with administrators and reload |
| `QuotaGate`, `MCQuotaGate`, `QuotaGate_proofs` | client tokens behind the API gate |
| `TokenRefresh`, `MCTokenRefresh`, `TokenRefresh_proofs` | refresh service over the catalog rows, provider included |
| `LeaseDiscipline` | what a request may do with leases: the abstract specification of the executor |
| `Executor` | failover loop of a client request |
| `ResponsesStream` | the upstream streams: items, and how their content is told (external) |
| `AnthropicStream`, `ChatStream`, `StreamTranslation` | the two translators as functions on their state, and both over one stream |
| `ClientRequest`, `MCClientRequest`, `ClientRequest_proofs` | failover and translation of a client request; the proofs are about both |
| `BulkImport`, `ImportJobs`, `MCImportJobs` | the batch writer, and the jobs, permits and staged files around it |
| `ShardLeases`, `ClusterGate`, `RefreshQueue`, `Gateway`, `Cluster`, `MCCluster`, `Cluster_proofs` | the four protocols of a cluster deployment |
| `ProxyPool`, `Settings`, `DeviceFlow`, `RemoteConvert`, `ImportDocuments` | what an operator works with: proxies, settings, the converters of cookies, the files of an import |
| `Console`, `MCConsole`, `Console_proofs` | these five side by side; the proofs are about them and about `ImportJobs` |

`ClientRequest`, `Cluster`, `Console` and the second instances in `MCLeasePool` and
`MCQuotaGate` put parts that share no state side by side: a behaviour is that of one of them
(`part`, `managed`, `rated` say which), so that one run covers them without the
product of their states. Parts that do interact are one module: `Selector` with the
sticky table, `LeasePool` with catalog, index and administrators, `TokenRefresh`
with the rows, `ImportJobs` with the import and the handlers.

### StickyLRU and Selector

`entry` is the map with the list elements' contents, `byAcct` the reverse index.
The list is the relation `older` on keys (`<<j, k>>`: k is nearer the front than j)
rather than a sequence, so that "the list holds each bound key once and in one order"
is a theorem (`RecencyTotal`) and not a consequence of the data type. Every method is
under the table's mutex and is one action.

In `Selector` a pick goes through `begin`, `lookup`, `primary`, `secondary`, `turn` or
`draw`, `bind`: between these it holds no lock. `eligible` is what the index would call
eligible at the moment; `seen` and `always` record, for the properties, which accounts
were so at some and at every moment of the pick. `current` is lost when `ApplyConfig`
swaps the table a pick still has a pointer to.

### HotOps and HotIndex

`HotOps` keeps the fields of `HotMeta` that some decision reads. In `HotIndex`,
`ids` and `pos` are the list and the positions as the code keeps them; insertion,
swap deletion and replacement are the three helpers of the code. `LoadEligible` is
two sections (copy the counts; later swap) between which anything may happen, with
what the catalog listed left open; `DemoteMany` holds the lock throughout and is
spread over several steps with `batch` as the lock.

### LeasePool

`pc[r]` names the critical section request `r` enters next; `acct`, `tried`, `at`,
`meta` and `patch` are the local variables of `acquireOnce` and `Release` that outlive
a section. `cat` are the catalog rows, `hot` the index. The section after the pick is
`Check` (read the row, refuse, or go on), with the clock read before the pick, as in
the code. `quarGet/quarPut`, `syncGet/syncPut` and `bindGet/bindPut` are the three
places where a copy of the hot entry is taken and promoted back. `AdminWrites`,
`AdminDemotes`, `AdminGets` and `AdminPuts` are the sections of the administrator's
handlers, `Reload*` those of the timer. The choice among eligible accounts
(strategy, score, stickiness) is left open, which covers every strategy. The model
follows `Acquire`; `AcquireAttempt` is one iteration of it with the caller's `tried`.

### QuotaGate

`limiter` is the global limiter, `inflight` and `win` what `gateMu` guards, `tok` the
rows. A request enters the limiter, authenticates (without a lock), takes a slot with
the limits it *read then*, reserves a unit, is served, settles or refunds, and gives
everything back in deferred sections; a panic skips the settlement. `max` keeps the
limit the request came under, `due` what its response costs.

### TokenRefresh

Token sets are generations numbered by the provider. `flight[<<kind, account>>]` is a
singleflight call with its place in `EnsureFresh`/`ForceRefresh`/`refreshAndPersist`;
callers wait for it and get the leader's answer, the error of a leader whose client left included.
`Asks` says which flights a caller may join. The provider accepts the refresh
tokens in `valid`, one use each when it rotates them. `Patch`, `Import`, `Delete` and
`Reimport` are the writes of others between any two sections. Times are less the skew.

### Executor and LeaseDiscipline

A step of `Executor` is what `Post` does between two waits. `loc[p]` has its local
variables: the lease in hand, the accounts tried, the attempts, the 429 failovers, the
answer kept for the end. Which account a draw returns is open (any not tried, or none, or
one that turned out unusable): that is the lease pool's business. A served body is
closed by the client or by the end of the upstream; `Close` releases. `seen` is history for
the properties. `LeaseDiscipline` knows only phase, lease in hand and accounts used;
`KeepsDiscipline` is its specification under the mapping at the end of `Executor`.

### Streams

`ResponsesStream` says what upstream sends: up to `MaxItems` output items, messages,
reasoning or calls, whose content comes in deltas, only when finished, or only in the final output, with
optional events left out at will, ended by completion, failure, incompleteness, `[DONE]`
or a cut. A position in it (`pos`) is an item and the last of its events that came; an item is
followed by the next when what is left of its events is optional. The translators are functions
from their state and an event to their state; `out` is what they wrote, as blocks or chunks.
`pieces` of content are counted, not spelt.

### Imports

A request in `ImportJobs` reserves a permit, stages `.part` then `.ready`, submits (`.work`)
and leaves; a job runs its workers and the one writer (`BulkImport`), is timed out,
closed or dies with the process. The rebuild of the index that ends a job is `ListCatalog` and
`ReplaceIndex`: `seen` keeps which accounts of the job were in the catalog when it was listed. What the
index then holds is not in the model (section 5). `disk` survives a crash and is swept at the next
start; `litter` (history) are files left by a crash or a failed removal.

### Cluster

Each operation of `clusterstate` is one step in memory and one step per command in
Redis; `backend` is chosen at the start. `ShardLeases`: claim (GET, SETNX or SET), renew (GET, then
blind SET), release; a worker's own view is `held`. `ClusterGate`: INCR, test, read the row,
DECR, DEL. `RefreshQueue`: read due, lock, remove, read row, exchange, compare-and-swap. `Gateway`:
counter, test, choice of a worker, settings.

### Settings, proxies, converters, documents

`Settings`: `apply[c]` is an `Apply` under way (a PUT or the `Load` of the start) at its stage;
`mem`, `file` and `current` are what memory, file and components hold. A start whose `Load` fails
(`LoadFails`) goes on with the YAML and, being `blind`, ends what the file promised. `ProxyPool`: `nodes` and
`file` with the health of each proxy; an editor copies health node by node, binders
assign and leases report. `DeviceFlow`: a `Convert` feeds workers, each flow
takes a permit between approval and last poll. `RemoteConvert`: batches answered with
results by index, out of order. `Console` puts these four side by side under its own names where
two of them use one (`poolFile`, `restarts`, `flowPermits`). `ImportDocuments` has no steps: it is
the functions that count, parse and collect a file, with the loops of the code as functions of the
elements read so far and the nested JSON of cookies as a function of the depth. `Console` chooses a file at
the start (`document`, with `part = "files"`), and `LimitsExact` compares what is enforced before or during
the reading with a reading without a limit. `MCConsole` lists the files of the run.

## 3. Runs

| Run | Configuration | Shows |
|---|---|---|
| `selector` | 2 picks, 2 keys, room for 1, 3 accounts in 2 layers, both strategies | index exact, answers eligible, turns shared, clearing forgets |
| `hot_index` | 3 accounts of 2 priorities, capacity ≤ 2, one loader | dense list exact; growth and counts only as stated (`StepsSound`) |
| `lease` | 2 requests, 2 accounts, proxies, model cooldown, 403 quarantine, cancelled contexts; and 1 request, capacity 1, with all administrators and reload | ledger exact, no barred account leased, quarantine sticks |
| `quota` | 3 requests, 1 token, global limit 2, enable, limit change, delete; and 2 requests, rpm 1, windows of 3 ticks, clock to 6 | slots and quota conserved, caps hold, at most twice the rate |
| `refresh_flights` | 2 callers, 1 account, rotation, all writers of the row | one exchange, fresh answers (`EnsureServes`), monotone tokens |
| `refresh_liveness` | 2 accounts (one always refused), 1 worker, 2 callers of the other account whose clients may leave, no further fault | every expiring account is resolved, every caller answered, also one whose flight ended with another's client |
| `client_request` | 2 requests (one with a refresher), 3 accounts; streams of ≤ 3 items of 2 pieces, all ways to tell and to end them | ledger, refinement of `LeaseDiscipline`, newest answer, bounded cost, every request ends; both clients get faithful streams |
| `import_jobs` | 2 uploads, 1 path import, limits 1 and 2, batches of 2, ≤ 3 entries, one kept job, one crash | slots, files, table and reports stay true |
| `cluster` | 2 workers, 2 shards; 3 requests, cap 1; 2 refreshers, ≤ 3 tokens; 3 requests at the gateway with limits 0–2 | splits heal, counts, queue, tokens and admission sound |
| `console` | 2 overlapping PUTs, 2 crashes, 2 errors; 2 proxies, 1 binder, 1 editor; 2 Converts of 2 values with 3 workers and 1 permit; 3 cookies in batches of 2; documents of ≤ 2 members and items, limit 2 | settings durable, health kept, converters sound and live, limits exact |
| `lease_hard_cap` (violation) | 2 requests, cap 1 | the cap per account is not hard |
| `refresh_force` (violation) | 1 caller, one patch | a forced refresh returns the old token |

Properties named as conjunctions: `LimitsHold` (cap of a token, global limit),
`EnsureServes` (one exchange, fresh answers), `StepsSound` (growth, counts), `AnswersWell` (newest answer, bounded cost), `CountSound`
(places come back; the cap in memory), `DueInOnePlace` (none forgotten, exchanges serial),
`SettingsDurable` (agreement, acknowledged saves), `ConvertSound` (permits, whole answers).

Two more configurations are kept beside the runs and are refuted by TLC as section 5 says:
`LeaseQuarantine.cfg` (with `MCLeasePool`) and `QuotaMint.cfg` (with `MCQuotaGate`).

### Bounds and why they are enough

The constants and guards named `Max...` bound counters, clocks, faults, crashes and reports; each
is named in its module. Two actors suffice for every lost update, since the sections
involve pairs; three are used where a third must find a limit that two have passed
(`quota`, gateway) or an account must replace a primary that has a fallback (`selector`).
Capacities are one below the number of accounts or keys, so that eviction and victims
occur; one permit among three device flows makes waiting and a lost permit visible; three
items of a stream put a block of each kind between two others; three entries in batches of
two leave a partial batch. Thresholds are the smallest that a lost update can miss.
Where a run uses symmetry (requests, picks, keys, uploads) no constant or property distinguishes the
elements; runs with liveness properties use none.

Deadlock is checked except in `selector`, `client_request`, `import_jobs` and `console`, whose
bounded calls, streams and jobs come to an end.

### Fairness

`TokenRefresh`: weak fairness of the steps of each caller, each flight, the scan and the sending
of what it found: goroutines that are never blocked for good, since the mutexes are held
briefly, the rate limiter grants in turn, and HTTP calls have timeouts (`http_oauth.go`).
`ExpiringResolved` needs the quarantine: without it the refused account would be scanned for
ever and, with a scan limit of one, keep the other out (the mutant `Blamed_OnlyAtThreshold`). It is
checked with nobody else writing rows: a lease that succeeds resets the shared count, see below.
`Executor`: weak fairness of each request's own steps, the close of a served body included: the client
or the upstream ends every stream, or their timeouts do. `ShardLeases`: weak fairness of a
worker's claim and renewal loop while it runs (a ticker); workers may crash or stop at any
time and leases may lapse at any time. `DeviceFlow`: weak fairness of each worker and of the
feeding loop; polls end by their deadline. Nothing is assumed of time elsewhere, of
clients, administrators, or a provider's success.

## 4. What is proved

TLAPS checks these for every value of the constants that satisfies the assumptions
named in the modules.

* **StickyLRU and Selector** — for the table: type, exact index, distinct pair, recency, capacity,
  clearing. The inductive invariant is type, exact index and distinct pair: the index can
  only be shown exact after a write when the entry it replaces was exactly indexed. The
  recency list gets an invariant of its own, by one lemma for moving a key to the front
  and one for taking a key out; the capacity is an induction over the evictions of a `put`.
  `Selector` changes the table by the same actions or replaces it by an empty one, so the results
  carry over to it with any number of picks. `AnswersEligible` needs what a pick holds between its
  sections: what it looked up is only a hint, what it has chosen was eligible when it read
  the index, and is not among the excluded (`PickInv`). `RoundRobinFair` follows from how the
  turns given so far relate to the cursor (`TurnInv`): those whose turn in the round is over
  have one more than the others. It rests on `RankAssumption` (accounts have an order, as the index's
  list has) and on `CursorAssumption` (finitely many accounts; the cursor does not wrap in the
  middle of a round).
* **HotIndex** — `DenseExact`, from an invariant that ties list, positions and map, by
  one lemma per list helper (insert, swap deletion, replacement) and one step per
  action. `StepsSound`, the action property about growth and counts, from the types and that
  invariant: a victim is evicted before a newcomer enters, and what an operation keeps
  of the map keeps its counts (`KeptFew` bounds what a reload keeps).
* **LeasePool** — types; `NoLeaseWhenBarred` with administrators and reload, from an
  invariant that a request past its check holds an account that was not barred when
  it was picked; `InflightExact` when only leases touch the index (`Admin = {}`), from
  the invariant that an account a request has picked and not finished with is still
  hot (leases never demote, so its count cannot be lost with its entry); the budget
  `AttemptsBounded`; `QuarantineSticks` as an action property.
* **QuotaGate** — types, with `remain_quota` never negative; `SlotsExact` for any change of
  limits, deletion included; conservation of quota (`ServedWithinGrant`,
  `NothingVanishes`) while no administrator makes a token unlimited — `QuotaMint.cfg`
  shows that the condition is needed; both follow from one balance per token (`LedgerInv`).
  `LimitsHold`: a request tests the limit it read when it authenticated, so the bound is not that
  of the row; `CapInv` says that among any holders that all came under a cap one has counted the others,
  and that survives changed limits and every release. `RateWithinTwice`: the counter of the open
  window bounds the grants since its start, and the minute before its start saw at most the rate, so
  no minute, which meets two windows, sees more than twice the rate (`RateInv`).
* **TokenRefresh** — types; `MonotoneTokens` when no deleted account is imported
  again. The invariant says that a flight that is about to store, and whose revision
  is still the row's, holds a token set newer than the row's; it holds because every
  store raises the revision and because a token that is no longer fresh is the one
  the account started with (`LifeAssumption`: tokens outlive the flights under way).
  `EnsureServes` with every writer of the rows: a flight goes on to an exchange only while the row it
  read is stale, so once something was bought for an account either the flight that
  bought it has still to store it, or the row holds a token that outlasts the clock
  (`ServeInv`); a failed store is where the property makes its exception.
* **Executor** — `AnswersWell`, `LedgerExact` and the refinement of `LeaseDiscipline`. The inductive
  invariant speaks of one request at a time: it holds a lease exactly in the places between the draw
  and the release, the newest upstream answer is where the loop would return it from, and the calls
  made are those its attempts and failovers account for. A step changes the variables of one request
  only, so the invariant of the others is kept by one lemma. The ledger follows by counting the
  holders of an account, of which a step adds or removes at most one; the refinement by naming,
  for each step, the step of `LeaseDiscipline` (or the stutter) it is.
  `RequestRunsExecutor` carries the three over to `ClientRequest`, which the run checks: its failover half is
  the executor and nothing else.
* **Streams** — `AnthropicFaithful` and `ChatFaithful`, for responses of any number of items in any mixture
  and mode, cut or failed anywhere. While a stream is open, the invariant (`ChatInv`, `AnthropicInv`) ties what a
  translator wrote to the position in the response: the items before it are said whole, those after it not at all, and
  for the item being told a table says what its client has after each of its events and what the translator
  remembers of it (`ChatStreams`, `AnthropicStreams`: the block or call it opened, the thinking block that
  is open, the signature that waits, whose item it is). A client gets the content once because the
  event that repeats it finds the item said. After the end (`ChatEnded`, `AnthropicEnded`) nothing is open and
  nothing changes but for `[DONE]`. One lemma per kind of item and event carries the table over; the events a script
  may leave out are why the step of each lemma starts from a range of positions. What a client read
  is a concatenation over all blocks (`Read`, by `FlattenSeq`): appending a block, or adding to one of an item none of
  whose blocks comes later, appends to what is read of that item and leaves the others alone. The library's
  induction takes an operator, so these lemmas use well-founded induction over a set of lengths. The final output
  is written by an induction over its items (`EmitFinalOutput`): those before k are said, those after it are
  untouched, and a message is passed over only when text came before, as `AnthropicDelivers` allows.
* **ImportJobs** — `SlotsConserved`, `FilesOwned`, `TableComplete`, `SuccessTruthful`, all
  consequences of one invariant `Inv`. Its parts: what the report of a job says fits how far its goroutine is
  (`JobsInv`); a request that has not handed over has no job, and one that has owns nothing (`ReqInv`); permits
  taken are those held by requests and jobs (`SlotsConserved`); every job in the order is in the table, and
  one too many at most before a trim (`TableInv`), which is why `Trimmed` may remove one job where
  `trimFinishedLocked` loops; each file on the disk has a request or job that has still to remove it, or is litter
  (`FilesInv`). TLC checked `Inv` on the instance of the run before it was proved. The assumptions
  are that inputs, requests and kept jobs are what the code makes of them, and that the limits
  have a largest value: the settings refuse one above 256 (`admin/settings.go:592`, `config.go:568`).
  `SuccessTruthful` is about the catalog and the listing the rebuild chose from, not about the index.
* **Settings** — `SettingsDurable`. Only an `Apply` that no other overlaps claims anything, so the invariant
  (`SettingsInv`) says what such an `Apply` finds at each stage: it is alone among those under way that still
  say so (`Solo`), memory is what it stored, and the components it has passed hold it (`Own`, `Sync`); what was
  acknowledged is what the file has and what a start that can read it brings back into memory (`Stored`); one that
  cannot read it replaces the file, and from then on nothing is acknowledged until the next PUT. Assumed are a positive
  `hot_size` in the YAML, which `config.go:304` sees to, and that the start is not one of the PUTs.
* **DeviceFlow** — `ConvertSound`. A value that was fed has its result or a worker at it (`Cared`), so a
  `Convert` that fed all and has no worker left is whole; the permits are counted with the workers between
  approval and last poll, and every step moves one worker (`HoldersMove`).
* **RemoteConvert** — `EachItsOwn`. The spans of the batches are apart and leave no value out, which is arithmetic about
  the quotient that cuts them; while no error is kept, each batch is to be sent, under way or `Landed`: accepted
  and merged over its span. A batch that arrives changes no other span, whatever the order.
* **ProxyPool** — `HealthKept`, as an action property. A node the list does not have carries no health, what an
  edit has copied is among what it watched (`EditOK`), and everyone who edits watches the health that holds
  (`Watches`). It needs that `Pick` returns a node of the list: that the i-th healthy node exists is proved from
  the least number of nodes with more than i before it.
* **ImportDocuments** — `LimitsExact`, from `CountAlwaysFits` and `CollectAlwaysFits`, for any limit, any
  sequence of documents and lines, and JSON nested to any depth. Each loop of the code is a function of
  the elements read so far, defined by recursion; that one exists for every step that stays in a set is a lemma
  (`FoldExists`), as is that what a step keeps holds along it (`Climbs`), both by well-founded induction over a set of
  numbers. The count and the parsing of credentials are followed together: the count is what the parser will
  find, or it says that there are too many (`Counts`). It may say so without cause only for the members the
  parser merely warns of, in excess (`Crowded`) or spelled so that only one of the two passes reads them (`Odd`); this is
  why the property makes those exceptions. The collection under a limit is followed beside the one without it
  (`Fits`, `Abreast`): they are equal, or one has failed and the other is beyond the limit and can only
  grow; from one depth to the next this passes by `ValueAbreast`. `DocumentAssumption` says what a
  file is made of and that the limit is positive.
* **Cluster** — under `ClusterAssumption` (finitely many requests; `NoAccount` and `NoRefresher`
  name nothing; limits are naturals), for the behaviours of each part:
  `CountSound`: a request adds to or takes from the count what it adds to or takes from the set of
  counted requests, a DEL may only lower it, and in memory the two are equal, so the test of the
  INCR bounds the set of those let in. `AdmissionExact`: the counter
  is the number of places, and among any requests that have a place one has counted them
  all when it came. This is what bounds the requests inside although each tests a value it
  read before. `TokenKept`: revision and token of a row grow together, so a row that a refresher read is
  current or older in both; therefore an exchange that succeeds was made with the token of the row and two refreshers
  that may both swap hold the same successor. `DueInOnePlace`: a refresher whose swap would fail does not
  answer for its account; then somebody else does, or the account was renewed.

### What is only model-checked

Every invariant and action property of the passing runs is proved but for the two that `MCLeasePool` and
`MCQuotaGate` state of their second instances: what they check there (`ManagedNoLeaseWhenBarred`,
`RatedWithinTwice`) is proved of the modules they instantiate, for all values of the constants. The liveness
properties (`SplitHeals`, `RequestsEnd`, `ConvertEnds`, `ExpiringResolved`, `CallersAnswered`) are out
of the prover's reach. So is the library's induction, which takes an operator: where an induction over data was
needed (streams, import files), it is one over a set of numbers.

## 5. Divergences met while modelling

Two are runs that TLC refutes (`findings` in `PROJECT.json`). Two more have configurations:

* `lease/lease.go:435`: of two concurrent 401 answers one is lost from the streak, so the account is
  not quarantined after the configured number (`LeaseQuarantine.cfg`, `QuarantinedAfterStreak`).
* `clients/store.go:558`: a token switched from unlimited to limited under a request is refunded a
  unit that was never taken (`QuotaMint.cfg`, `RefundsReserved`).

Others, read in the code and followed by the actions of the models:

**Accounts, leases, tokens**

* `sticky.go:69` says `put` demotes the old primary to secondary; when there is a
  different secondary already, the old primary is dropped (`ShiftedSecondary`).
* `hot/index.go`: after a `Resize` overtakes a `LoadEligible` the index holds more
  than its capacity until the next reload (`GrowthWithinCap` states exactly this), and
  a reload restores counts it saved before it listed the catalog, so that leases in
  between are miscounted (`InflightByLeases`). The reconcile of a start may pass more
  accounts than `HotSize`.
* `admin/accounts.go:283`: a disabled account is demoted, and a release that copied its
  entry before promotes it again. `ManagedNoLeaseWhenBarred` shows that it is not leased.
* `clients/store.go`: fixed windows let twice the rate pass in a minute, and a token
  disabled under a request loses the reserved unit (`NothingVanishes` accounts for it).
* A deleted account that is imported again starts at revision 1, so that a flight of
  its earlier life can pass the compare-and-swap and store tokens older than the
  imported ones; `MonotoneTokens` exempts such accounts and the theorem excludes them.
* `refresh/service.go:396`: when a leader's client leaves during the exchange, the provider may have rotated the
  refresh token and the new one is lost. Followers are answered with an error (`CallersAnswered`) and the account is
  counted out (`ExpiringResolved`); nothing prevents the loss.
* Leases and refreshes share `consecutive_unauthorized`: a successful request resets
  the count of failed refreshes.

**Executor and streams**

* A failed `ForceRefresh` followed by `Release(401)` counts the 401 twice (`refresh/policy.go:49`); after
  a successful refresh every failing status, 400 included, fails over; a `Release` whose context
  is done skips the accounting of health.
* The Anthropic translator takes a message of the final output for a repetition when any
  text was written before, and drops a second content part of a message; the chat translator
  does not look at text in done events or the final output; `response.failed` after a
  terminal chat event is written all the same. `AnthropicDelivers` and `ChatDelivers` state these exceptions.

**Imports**

* A succeeded job's accounts need not be in the index: with an import canary the rebuild loads only the first
  accounts by priority and holds off the periodic reload for a while (`admin_wire.go:241-263`, `368-390`), it stops at the
  index's capacity, and of two rebuilds that overlap the one that listed first may install last. The next
  periodic reload heals the last of these.
* A failed job reports `ok = 0` although earlier batches were written, and skips the reload of the
  index; `ImportFiles` may return while workers still report progress, which overwrites
  the counts of a finished job (`import.go:218`, `jobs.go:630`); `Close` does not wait for those workers;
  `validateFormat`, `Submit` and `run` read the options without their lock.
* `device.go`: the gap counts from the end of a flow and is not kept between flows that start together;
  a denied authorisation is retried; a cancelled `Convert` drops results it had; each PUT of settings
  makes a new converter, so the limit of flows is per converter.
* `authimport`: the count before parsing ignores the case of JSON keys and the parser does not, so files with odd
  spellings may be refused or let in wrongly; an account's identity may come from its refresh token
  and changes when that rotates, so a second import duplicates it.

**Cluster**

* A worker never writes its id into a binding, so the gateway's preference for the sticky worker is dead
  (`gateway/server.go:165`); the retry loop ends after the first proxied attempt; gateway, control plane
  and store hash to shards with different functions.
* A refresher that stops after it claimed an account has taken it from the queue; the account is due
  again with the next scan, that is the next start (`DueInOnePlace` exempts what a crash loses). Shards are claimed at the start only; `releaseAll` uses the context whose end caused it, so leases in
  Redis stay until their term; the default state backend is the memory of one process.
* The executor's releases use the request's context, so with Redis a cancelled client leaks its in-flight
  count, and each rejected INCR renews the term of the count; DECR then DEL lets a count be lost and the
  cap be passed although `leaser.go:83` calls the gates hard (`CapInMemory` is stated for memory only).
* `PatchHealth` in PostgreSQL is a read and an update of the whole row; `ClearStickyAccount` in Redis loses
  a concurrent binding; the refresher of `cmd/` has no OAuth client and enqueues at its start only.
* The gateway's saved `api_key` is never used; a PUT whose write fails is kept in memory and not in
  force; overlapping PUTs may leave the saved and the live limit different.

**Settings and proxies**

* A start that cannot read or parse the settings file logs it, takes the settings from the YAML and writes them over
  the file (`settings.go:328-338`, `admin_wire.go:395-406`): what a PUT was told it had saved is lost. `AckSurvives`
  exempts exactly this.
* A PUT repeated after a failed reload finds the index resized and skips the reload (`settings.go:667`); `listen` and paths saved in the file
  are never read at a start although the hint says they take effect then (`HintKept` in `Settings` states it);
  a saved 0 (no limit) is replaced by the YAML at the next start; overlapping PUTs may leave file and components
  different (`SettledAgree` speaks of PUTs of their own).
* `proxypool`: `MarkOK` has no caller, so failures only add up; the cap of 15 minutes is above the longest
  cooldown (480 s); a dry run of the assignment counts and saves; reports between the copy of a node's health and the swap are lost;
  two binders may move the egress of an account that `lease.go:243` calls stable (`EgressStable` states it).

## 6. Not modelled, and the plan

The order was that of importance for requests in flight: `StickyLRU`, `HotIndex`, `LeasePool`,
`QuotaGate`, `TokenRefresh` first; then executor, streams, import jobs, cluster, selector, and what
an operator works with. Left:

1. `Start`, `Stop` and `ApplyConfig` of the refresh service; two lengths of cooldown in `LeasePool`;
   `cooldownSeconds` and the paging of `ListEligible` against reference definitions.
2. The sticky table and the worksets of the cluster state, with the control plane.

Left out for good: parsing and building of requests, credentials and pages (fields of
`authimport`, mapping in `protocol`), configuration, SQL text, HTTP and TLS, metrics,
logs, commands, load tests and deployment: data conversion or plain I/O without shared
state. Times are whole ticks; account scores, costs and texts are abstracted to what
the guards tell apart.
