# TLA+ models of amb-relay

amb-relay is a Nostr relay for educational resources (AMB documents) and a
dozen other kinds. It keeps every event twice: raw, in BoltDB, and projected
into a document of a Typesense collection, which is what queries read. What is
hard about it is not any one handler but that a publication, a deletion, a ban,
a content update, a rebuild of the index and a shutdown all write to both
stores, from many goroutines, through two buffered workers, while a *gate* (bans
and deletions) says at any moment which events may exist at all.

The modules below model that core step by step, and with it what happens at a
start, who may write and read, how a query is expanded and answered, and the
caches that follow other relays. TLC checks them on small instances, and TLAPS
proves their safety for every value of the constants, in every part of the system
that is modelled. All line references are to `src/`.

## 1. Inventory

| component | source | state it keeps | operations |
|---|---|---|---|
| Gate | `tombstone.go`, `management.go` | buckets of banned pubkeys, banned events, deleted ids, deleted coordinates with a time | ban, allow, `markEventDeleted`, `markCoordDeleted`, `isBlocked` |
| BoltWriteBuffer | `bolt_buffer.go` | channel, closed flag, done channel, one worker, the raw store | `Queue`, worker with gate / write / retry / self-heal, `Close`, `drain` |
| TSWriteBuffer | `buffer.go`, `content_ts.go` | channel, batch, `pendingDocIDs`, one worker, AMB documents | `Queue`, `QueueContent`, `QueueCommunityPatch`, `QueueDelete`, flush, tick, `Close`, drain |
| Write path | `main.go`, `purge.go`, `deletion.go`, `structured.go`, `content_registry.go` | the request each goroutine serves | `OnEvent`, `StoreEvent`, `ReplaceEvent`, `DeleteEvent`, `applyCoordDeletions`, `banevent`, purge |
| ProfileManager | `profile_manager.go` | durable queue, one-slot kick channel, retry timer, drain worker | `Enqueue`, `Init`, refresh loop, drain in batches, fallback relays, `Stop` |
| CommunityStamper | `community_stamp.go`, `shares.go` | in-flight `reconcile` goroutines, the sweep's list | `reconcile`, `sweepOnce`, its triggers in `main.go` |
| Reindexer, ContentStore | `reindex.go`, `content_store.go`, `publications.go` | progress of the single run, `fetched_content` rows | a run with its passes; `setcontent`, `refetchcontent` |
| CoordTombstoneBackfill | `coord_tombstone_backfill.go` | completion marker | one scan at start |
| CommunityRegistry | `community_registry.go` | resolved member lists | resolve, refresh, `IsMember` |
| MappingRegistry, expansion | `expand_registry.go`, `expand.go` | sources, on-demand cache, failure memory, graph cache | load, refresh, evict, `pageRelay`, query rewriting |
| vocabmap | `vocabmap/` | mapping graph | parse, expand |
| AllowlistManager | `allowlist.go` | direct and list-resolved pubkeys | add, remove, refresh |
| NIP-05 directory | `nip05_directory.go` | last good answer | poll |
| Hydration | `internal/hydrate/`, `cmd/hydrate-bolt/` | — | copy from the index into the raw store |
| Query budget | `query_budget.go` | producer goroutine, timer | `boundedSeq`, `boundedCount` |
| Read path | `main.go`, `content_registry.go`, `search_extensions.go`, `calendar_rerank.go` | — | `QueryStored`, `Count`, read gate |
| Projections, validators | `calendar.go`, `longform.go`, `wiki.go`, `validate.go`, … | — | pure mappings |
| Embedding | `embedding.go` | — | a remote call inside an upsert |
| NIP-86 API, server | `main.go`, `server.go` | — | admin calls, order of shutdown |

**How they interact.** A handler (khatru calls the hooks in `main.go`) asks the
gate, sends the event to the Bolt buffer's channel, then either sends a
projection to the projection buffer's channel (AMB) or upserts the document
itself (every other, *structured*, kind), and answers OK. Both workers ask the
gate again on their own. A deletion or ban writes the gate first and then
removes the event from the raw store and the index, synchronously and once more
through the projection buffer's channel. The stamper, the reindexer and the
NIP-86 content calls read the raw store, which lags behind its buffer, and patch
documents. Nothing but the gate and the stores survives a stop of the process.

**What is hard, and what makes each part correct.**

- *Gate and write path.* A gate check and the write it allows are separate
  steps, so a ban can fall between them; purges miss what is still in a channel.
  Correct means: nothing banned or deleted stays, in either store, once the
  work on its way is done; a deletion is never taken back; nobody is blocked for
  ever between two full channels.
- *Buffers.* Order across retries, batches and a drain; a patch against a
  projection of its document that waits in the batch; senders against `Close`.
- *ProfileManager.* Signals coalesce in a one-slot channel; the retry must be
  armed once and only once.
- *Stamper.* Reconcilers compute the whole field from several reads and may
  overtake one another; membership changes under them.
- *Reindexer.* The index is dropped and rebuilt while writers go on; several
  versions of one document, ties within a second, cut batches, and a garbage
  collection that must spare what is stored.
- *Start.* Hydration refills the raw store from the index while nothing serves, and
  the tombstone backfill runs once, ever, beside live traffic: what it skips is
  skipped for good. Correct means: the marker tells the truth, and hydration puts
  nothing back that was deleted.
- *Caches of what other relays say* (allowlist, communities, mappings, directories).
  Each fetches without its lock and stores what it got under it, so an answer can
  be late, incomplete or for something removed meanwhile; and each must come to
  agree with its relays in the end.
- *Read path.* A query is rewritten by a graph that changes beside it, answered by
  collections that may hang, filtered by a gate that moves, and cut off by a timer
  while a producer goroutine is inside a fetch or a send.

`PROJECT.json` lists the hazards with their lines and the properties that cover
each.

## 2. Modules

```
RelayEvents  events, coordinates, versions, who deletes what
 ├─ Gate           four buckets, Blocked
 ├─ RawStore       SaveEvent / ReplaceEvent          ├─ FifoStore      abstract write buffer
 ├─ SearchIndex    documents, upsert, PATCH, delete  ├─ ProjectionLog  abstract projection buffer
 BoltBuffer  = Gate + RawStore        implements FifoStore
 TSBuffer    = Gate + SearchIndex     TSBufferOrder: implements ProjectionLog
 RelayCore   = BoltBuffer + TSBuffer + handlers, deletions, bans, restart
 CommunityStamper = SearchIndex + RawStore behind FifoStore's promise + CommunityRegistry
 Reindexer        = RawStore behind FifoStore's promise + index behind ProjectionLog's
 Startup          = Gate + raw rows behind FifoStore's promise + index

NIP05Directory ── ProfileManager = queue and drain + NIP05Directory
ConceptGraph   ── MappingRegistry ── ReadPath = requests, collections and gate + MappingRegistry
Allowlist        stands alone
```

`MC*` modules give the constants their small values; the `*_proofs` modules hold the
theorems, `Buffers_proofs` those about both buffers.

**RelayEvents.** An event is immutable, so an element of `Event` stands for an
id and the attributes the code reads are functions on it: signer, `created_at`,
rank of the id (ties), coordinate, own community tags, `e` and `a` targets. An
event without a coordinate is a kind-5 deletion request. Every event that is
neither addressable nor a deletion request behaves as one whose request names no
target, and is left out. Documents are keyed by coordinate; events without a
`d` tag are left out too.

**Gate.** One variable per bucket. `Blocked` is `isBlocked`, read in one
transaction as in the code. `MarkCoordDeleted` keeps the larger time, as
`markCoordDeleted` does.

**BoltBuffer.** One action per step of the code that touches shared state:
`BoltQueue` (the closed check) and `BoltSend` (the channel send) are separate, as
a goroutine can be suspended between them; `BoltCloseFlag` and `BoltCloseDone`
likewise; the worker goes through `BoltTake`, `BoltCheck`, `BoltWriteOK` or
`BoltWriteFail`, `BoltRetry`, `BoltHeal`, `BoltHealDelete`; a drain ends by
`BoltDrained`, or past its deadline by `BoltAbandon` (an operation is inside
`process`) or `BoltTakeExpired`. Backoff is a step without duration. The store
calls fail or succeed freely. Outside `RelayCore` the environment is arbitrary
producers, purges, bans and lifted bans.

**TSBuffer.** The same shape for `buffer.go`: four kinds of task, the batch and
`pendingDocIDs`, `FlushesFirst` (flush before a content patch or delete always,
before a community patch only if its document is pending, after a projection
when full), the gate asked event by event in `flushBatch`, an upsert of which any
part may get through, the ticker, the drain and its final flush. The HTTP retries
and the embedding call within one upsert are part of its outcome.

**RelayCore.** A caller is a goroutine serving one request; `job` is its program
counter and locals. `OnEvent` → `QueueBolt` → `StoreIndex` → `Ack` is the
publication; `Fetched` the stamper's store callback, which enters the same path
without a client. A deletion request goes on through `TombstoneCoord`,
`FindInBolt`, `FindInIndex`, `NextTarget` (its `a` targets) and `NextId`, khatru's
treatment of the `e` targets, which looks them up in the *index*. `MarkDeleted`,
`PurgeBolt`, `PurgeIndex`, `QueueDelete` are `authorDelete` and `purge`. Every
gate write and store call in there may fail, as its error is only logged. `Ban`
records first and stops if that fails. `CloseBuffers` follows main's deferred
closes: Bolt first, projections once Bolt has drained. `Restart` stops the
process anywhere; stores and gate stay, channels and goroutines go.

**ProfileManager.** `Put`/`Kick` are the two halves of `Enqueue`; the worker is
`TakeKick`, `Debounced`, `List`, `AskPrimary`, `Fetch`, `StoreProfile`,
`AskFallback`, `NextBatch`, `OutOfBudget`, `QueueWalked`, and `Retry`. Relays
answer with any subset. `ample` says whether the drain's time budget covers the
queue; it is chosen once and never changes. Three kinds of goroutine enqueue:
handlers, the seeder (`Init`, then the refresh loop) and the directory's poller.

**NIP05Directory.** The poller behind `PROFILE_NIP05_DIRECTORIES`: a poll asks one
directory after the other (`DirectoryAnswers`, `DirectoryFails`), keeps the last
good answer of each, and hands on who was in none before it. Directories change
between any two steps; the answers are gone after a restart. `ProfileManager`
composes it with the queue: `Poll` passes what a poll found to the poller's
enqueueing, and the refresh loop enqueues `Members`.

**CommunityStamper.** `reconcile` in its reads and writes: shares from the
index, membership, the newest version from the raw store, possibly a fetch from
other relays, and one PATCH of the whole field. Handlers, share deletions and
bans, membership changes and the sweep run beside it. Content is of a structured
kind; the stamp of an AMB document is a task of `TSBuffer`. Membership is what
`CommunityRegistry` answers at the moment of `DeriveStamps`.

**CommunityRegistry.** A refresh takes the communities that stored events name, and
for each fetches the definition, then its lists, and replaces what was known
(`Resolved`). A definition that is not found leaves what was known; a list that is
not found counts as empty (`ListFails`); the timeout ends everything still asked for
(`RefreshTimesOut`). `BuildMembership` is the restriction per kind; a community that
was never resolved is open to all (`IsMemberIn`). The lists change at any moment.

**Reindexer.** The run goroutine: drop and recreate (`RecreateFails` may leave the
collection empty), the walk over a snapshot of
the raw store newest first with the dedup, batches with partial failure, row
classification and orphan collection, the replay of AMB fulltext (oldest first)
and of publications (by id), the structured pass. Publications, `setcontent`
with its re-projection, event and pubkey bans run beside it. The two buffers are
replaced by what `FifoStore` and `ProjectionLog` promise: a queue applied in
order. Community stamps and progress counters are left out.

**Startup.** A process start in its parts: hydration in `main` behind the gate, or by
the CLI without it (`gated`), in two passes page by page (`HydratePage`, `FetchFails`),
then the backfill goroutine: marker (or `COORD_TOMBSTONE_BACKFILL_FORCE`, which passes
it over), count, drain, the requests newest first, the marker. `NextCoord`, `ListVersions` and `PurgeNext` are `applyCoordDeletions`, which the
backfill and a live deletion run side by side. A signal cancels the backfill's
context, while connections still publish; `Stop` ends the process at any step, with a
queue that is lost. The first
start finds what an older release may have left: requests without tombstones,
any versions in the index, documents whose `eventID` and `eventRaw` disagree or
that have no `eventRaw`.

**Allowlist.** Every NIP-86 call in the steps between which others come: the write to
the management database (`WriteDisk`), its counterpart in memory (`SetMemory`,
`RememberRef`, `ForgetRef`), the fetch of each list (`Fetch`), the store of its answer
(`Store`) and the rebuild of the merged sets (`Rebuild`, which reads the direct
pubkeys from the database again and may fail to). The refresh loop goes through
the same steps. `May` is the gate of writes, reads and broadcasts. `Restart` loads
the database; the lists come from the relays again.

**ConceptGraph.** `vocabmap`'s `NewGraph` and `Expand` as operators on sets of mappings
and concepts: exact closure, close matches of it, what is narrower up to a depth,
what is related, in the code's order and cut at `MaxResults`. Beside it stands what
the comment on `Expand` says, in terms of paths and least sets (`ShouldMatch`).

**MappingRegistry.** A load is three fetches (concordance, mappings, concepts), each
relay by relay, page by page; a relay answers with any page its order allows
(`Pages`: ties in any order) and may gain or replace notes between two pages
(`Publish`). `PageArrives` is one page and all that follows from it: the next page,
relay or fetch, `Store` with its eviction, or `GiveUp` with its failure note. The refresh loop
and the queries load side by side; `DeadlinePasses` and `RefreshTimesOut` end them.
`PickGraph` is `graphFor` with the graph cache. Times of last use are kept as ranks,
and the failure memory as a sequence whose head expires (`RetryElapses`).

**ReadPath.** `Ask` starts a REQ or COUNT; `Expanded` rewrites the filter with the graph of
what is loaded then; the producer fetches from one collection after the other
(`FetchReturns`, `FetchFails`), asks the gate document by document and offers what
passes (`Yield`); the consumer takes it (`Take`) or the client leaves; `TimerFires` is
the budget and `Stopped` the producer's end at a send nobody waits for. Documents are
indexed, blocked and purged beside it.

### Abstract specifications

- `FifoStore`: accepted operations form one queue and leave it at the head,
  applied once or given up; other parties may remove events. `BoltBuffer`
  implements it with *queue = operation in process ∘ channel* (`WritesInOrder`).
- `ProjectionLog`: every document has a log of the writes asked of it, which take
  effect from the head, singly or a run of projections at once, or are lost;
  nothing is promised between documents. `TSBuffer` implements it with *log =
  batch and task in process ∘ what the channel asks of the document*
  (`WritesInOrderPerDocument`).

These are also the interfaces by which `CommunityStamper` and `Reindexer` use
the buffers.

## 3. What is checked

| run | instance | properties |
|---|---|---|
| `MCBoltBuffer` | 2 versions of one coordinate, 1 sender, channel of 1, 2 attempts | `BoltTypeOK`, `OnlyRacersLost`, `WritesInOrder`, `CloseReturns`, `SenderReleased` |
| `MCTSBuffer` | 2 versions of one AMB document, 1 sender, channel of 1, batches of 2 | `TSTypeOK`, `PendingExact`, `PatchNotClobbered`, `WritesInOrderPerDocument`, `BatchFlushed`, `TSCloseReturns` |
| `MCRelayCore` | 2 versions, a deletion request naming the first by id and the coordinate, an older one; 2 goroutines, 2 requests | `TypeOK`, `BoltSealed`, `DeletionIsFinal` |
| `MCRelayRestart` | an AMB and a structured event of two authors; 2 goroutines, 2 requests, 1 stop | `BoltSealed`, `IndexSealed` |
| `MCRelayLive` | 1 event, 2 goroutines, 2 requests | `RequestAnswered`, `BanTakesEffect` |
| `MCProfileManager` | 2 authors, batches of 1, 1 stop; a handler with 2 calls and the seeder, or 2 directories that change twice; refresh ticks and polls without limit | `NoLostWakeup`, `MembersHandedOn`, `PollLoopEnds`, `AuthorAskedFor` |
| `MCStamper` | 1 content, 1 share, 2 communities, one with a member list, 1 reconciler and the sweep, 1 refresher, 3 requests or membership changes, 1 failing call | `OnlyVouched`, `SharedConverges` |
| `MCReindex` | 2 versions each of an AMB document (same second) and a publication, any initial stores, batches of 1, 1 request beside the run | `RebuiltRight`, `GCSparesStored` |
| `MCStartup` | 2 versions of one coordinate, 1 of another, a deletion request for both and a newest one for the first; any database of an older release; pages of 1, 2 starts, 1 failing call, 1 request | `MarkerHonest`, `MarkedMeansPurged`, `HydrationCompletes`, `BackfillCompletes` |
| `MCAllowlist` | 1 pubkey, 1 list, 2 handlers and the loop, 2 of 10 calls, 1 new version of the list, 1 failure, 2 starts | `AllowedIsVouched`, `AllowlistConverges` |
| `MCReadPath` | 2 relays, 11 notes, 4 sources (a concordance by default, three authors), 2 queries that load one source each and the refresh loop, pages of 3, every cache with room for 1, 2 collections, one of which may hang, 3 documents | `NothingLost`, `PagingComplete`, `CachesBounded`, `ExpansionAsDocumented`, `ExpandedByWhatIsLoaded`, `RequestEnds`, `ProducerEnds`, `DefaultsConverge` |

Every module has a type invariant, which for the buffers also bounds channel, batch and
attempts; each is a theorem (section 5). The runs check
those of the core; the others (`StartupTypeOK`, `AllowTypeOK`, `ReadTypeOK`,
`StamperTypeOK`, `ProfileTypeOK`, `ReindexTypeOK`) can be added to the `INVARIANTS` of their
runs.

What they show:

- `OnlyRacersLost`: unless the drain's deadline cut it short, a shutdown loses
  only writes whose `Queue` call had read the closed flag before `Close` set it.
- `WritesInOrder`, `WritesInOrderPerDocument`: the refinements above, through
  retries, self-heal, flushes, ticks, failing calls and shutdown.
- `PendingExact`, `PatchNotClobbered`: `pendingDocIDs` is exactly the batch, and
  so no patch is issued that a waiting projection would overwrite.
- `BoltSealed`: an event blocked by id or coordinate is in the raw store only
  while some step that removes it is on its way, or after a removal that failed or
  was cut off (`boltOrphans`). `IndexSealed`: behind every projection of an AMB
  event blocked by id there is a delete. The interleavings that matter are a ban
  between the worker's check and write (self-heal) and a purge before a queued
  projection (the queued delete).
- `DeletionIsFinal`: deleted ids stay deleted and tombstones never fall, also when
  an older request comes later.
- `CloseReturns`, `SenderReleased`, `BatchFlushed`, `TSCloseReturns`,
  `RequestAnswered`: nobody waits for ever. `BanTakesEffect`: a banned event
  leaves the raw store unless its removal failed or the ban is lifted.
- `NoLostWakeup`: an enqueued author nobody has asked for since is never left with
  the worker at rest. `PollLoopEnds`: authors without a profile do not make it poll
  for ever. `AuthorAskedFor`: while the refresh loop ticks and the budget
  suffices, everybody is asked for. `MembersHandedOn`: nobody a directory lists
  slips through between polls, whichever directories answered, failed or changed
  in one.
- `OnlyVouched`: no document carries a community for which neither a version's own
  tag nor a share by someone who was a member since vouches. `SharedConverges`:
  once changes and failures have ceased, the field of a document with a stored
  share is right by the definitions and lists as they are at the communities'
  relays, whoever overtook whom, and though an unresolved community is open.
- `RebuiltRight`: an undisturbed rebuild shows the newest version the gate lets
  through of every document, with the fulltext of the newest version that has any
  for AMB ones. `GCSparesStored`: no row of a stored event is collected.
- `MarkerHonest`: the marker of the backfill, which no later start questions, means
  that every coordinate of every request stored at the scan is tombstoned, through
  any number of cut, failed and cancelled scans. `MarkedMeansPurged`: from then on
  nothing tombstoned is in the raw store but what somebody is removing or what a
  failure left there unseen or a stop left to nobody; hydration and late publications put nothing back.
  `HydrationCompletes`: a hydration without errors leaves a row under the `eventID` of
  every document. `BackfillCompletes`: a start left to work ends with the marker.
- `AllowedIsVouched`: whatever calls, refreshes and late answers overlap, who passes
  a gate is directly allowed, on a list whose reference stands, or an admin; the
  list of a removed reference that a fetch brings back does not count.
  `AllowlistConverges`: the gates come to follow the lists at the relays.
- `NothingLost`: a request that ended by itself, with every collection asked in full,
  holds every document that matched the filter as it was written and was there all
  the time. `ExpandedByWhatIsLoaded`: the cached graph is never stale.
  `ExpansionAsDocumented`: in every graph that some of the instance's mappings make,
  the walk finds what the comment promises. `PagingComplete`: paging misses nothing a
  relay held all the while, ties included. `CachesBounded`: the three caches keep to
  their limits. `RequestEnds`, `ProducerEnds`: nobody waits for a relay or a hanging
  collection, and no producer is left behind but inside a fetch that hangs.
  `DefaultsConverge`: the default sources come to hold what can be found, also after
  a start at which nothing could.

Each property has a mutant, an operator beside the definition it replaces, which
changes the code's behaviour the way a plausible bug would and breaks it.

### Bounds, and why they suffice

A race on one event needs two goroutines beside the two workers, and one event;
what depends on *versions* needs two; what depends on order of requests for one
coordinate needs two deletion requests. A channel of one is full as soon as one
task waits, so blocking senders, queued work and work in process are all present
at once; a batch of two is the smallest that can be partly full. Two attempts
give one retry and one exhaustion. `MaxStarts`, `MaxRestarts`, `MaxEnqueues`,
`MaxRuns` and `MaxFailures` only bound how many requests, stops and failures a
behaviour contains; within them every interleaving is explored. Goroutines are
symmetric and the safety runs of `RelayCore` use that (`AnyCaller`); the runs
with liveness use no symmetry. `CHECK_DEADLOCK FALSE` is set where the requests
of a behaviour come to an end and then, rightly, nothing happens; the buffers, the
profile manager, the stamper and the allowlist never stop and are checked for
deadlock. `MCStamper` takes one version of the content: with two the state space
under fairness leaves the time a run may take.

Where two subjects meet in one place only, a behaviour takes one of them, chosen at
its start. `focus` in `ReadPath`: with `"registry"` two queries and the refresh loop load,
evict and fail while relays change, and a request ends with its expanded filter;
with `"requests"` the defaults are loaded, a query may load its own sources, and one
request goes through collections, gate, client and budget while documents come and
go. What connects the two is the graph a request picks, and both have it. `focus` in
`CommunityStamper`: with `"stamping"` the registry knows all, and search calls fail,
shares go and content is fetched; with `"membership"` it starts knowing nothing, its
calls fail and members come and go. `Apart` in `ProfileManager`: with `TRUE` a
behaviour has directories, or other goroutines that enqueue, not both; the theorems
hold with `FALSE` too, where all feed the queue at once and the states are too many
for a run.
`MaxBoots`, `MaxRequests`, `MaxCalls`, `MaxChanges`, `MaxDirectoryChanges` and `Moving` bound
starts, requests, calls and remote changes as the others do.

Why these suffice: the marker can only be wrong by something between two scans, so
two starts; a late answer needs a call beside the loop, and a lost one two calls;
a page of three over three mappings of one second is the fullest page that still
moves on, one more would be the error the code reports; a cache with room for one
evicts at the second source; with batches of one, two versions of a document lie in
different batches, which the dedup has to outlast; with one load per query the second
query meets what the first one loaded, or evicts it, and the cut of `ToLoad` bites.

### Fairness

Weak fairness for a worker and for a goroutine in a handler: the Go scheduler
runs every goroutine. Strong fairness for a send on a full channel (the runtime
queues senders and serves them in order) and for the ticker (one ready case of a
`select`, which Go picks at random). Store and search calls return, with success
or not (`BoltCallsReturn`, `TSCallsReturn`): HTTP clients have timeouts; for BoltDB
this is an assumption. No request, ban, refresh tick or stop is ever assumed to
happen, except that the tickers of the sweep, of the allowlist's loop and of the
registries' refreshes keep firing and that listing the profile queue does not fail every time.
`SharedConverges`, `AllowlistConverges` and `DefaultsConverge` need finitely many failing
calls, which `MaxFailures` gives.

In `ReadPath` a relay owes a query nothing: it may be silent until the deadline,
which passes (`DeadlinePasses`). The refresh loop's pages do arrive, or its time
ends. A collection answers unless it is in `Hanging`. Its `FairSpec` writes weak fairness as
*infinitely often disabled or infinitely often taken*, with the enabling condition
spelled out, and names the steps of the refresh by what no other action changes: both
cost TLC less than `ENABLED` and the actions themselves, which are of some size.

## 4. Where the code and its documentation differ

One run checks a sentence of the documentation and finds it violated by what the
code does.

- `MCSkew`/`NoSkew`. `ReplaceEvent` projects whatever it is handed while
  `BoltDB`'s `ReplaceEvent` keeps the newer version: publishing v2, then v1 again,
  leaves v1's document in the index with no event behind it. README.md:905-906
  says that the accept path does not create skew.

Further disagreements the models show but no run states. In the core:

- An `e` target is looked up in the index, which lags behind an acknowledged
  publication; a deletion request right after it passes the target over and neither
  removes nor blocks it (README.md:117; `NextId`).
- A version that only an `a` tombstone covers can be projected after the purge: if it
  is in the raw channel and already in a filtered batch when the versions are listed,
  neither listing finds it and no delete is queued behind it (tombstone.go:9-13). The
  raw write is refused, and the gate on reads hides the document. `IndexSealed` is
  about blocked ids for this reason.
- A crash loses what the channels held, acknowledged or not, and leaves a purge it cut
  off undone; nothing at the next start takes it up (`Restart`).
- A structured upsert does not ask the gate again; a deletion that runs between the
  handler's check and the upsert is undone in the index (tombstone.go:9-13;
  `StoreIndex`). The gate on reads hides the document.
- Writes a drain leaves behind at its deadline had been answered OK=true
  (bolt_buffer.go:78-79 says they had not; `BoltAbandon`).
- `bolt_buffer.go:150-152` and `buffer.go:85-86` say a call that hangs cannot hold
  `Close` up. That is so in the drain; a call that hangs in the live loop keeps the
  worker from seeing `done`. `CloseReturns` and `TSCloseReturns` fail without the
  assumption that calls return.
- `buffer.go:116-119` says an event is durable in BoltDB before its projection is
  queued; `StoreEvent` has only queued both.
- `profile_manager.go:207-208`: a profile whose upsert failed is dequeued all the
  same (`StoreProfile`).
- The sweep visits coordinates of *stored* shares only, so a stamp written last by
  a reconciler that had read a since removed share stays (`SharedConverges` is
  stated for stored shares for this reason). The stamper also reads versions from
  the raw store behind its buffer, so a PATCH can carry an older version's own tags
  to a newer document, and content that is only queued counts as absent and can be
  overwritten by an older version fetched elsewhere (main.go:939,
  community_stamp.go:150).
- In a rebuild, an event banned between its visit and the batch upsert is projected
  (reindex.go:149-150 says never; the purge's queued delete then removes it), an event
  whose projection preceded the drop and whose raw write follows the walk's
  snapshot is missing until the next rebuild (README.md:574), and the publications
  replay patches by id order, not oldest first, so an older version's fulltext can
  come last (main.go:722; `RebuiltRight` claims fulltext of AMB documents only).
- `setcontent` can find an event in the raw store whose document the publishing
  handler has not upserted yet (publications.go:236-237 says the document exists).

At the start:

- The backfill counts, then reads; a read that fails half-way looks complete when
  it finds as many requests as were counted before newer ones arrived
  (coord_tombstone_backfill.go:41-42: comparing catches exactly that; `misled`).
- A forced scan of a marked database that is cut off between a tombstone and its purge
  leaves the versions to nobody: the next start sees the marker (`orphans`).
- Failing `bolt.DeleteEvent` and `MarkEventDeleted` calls and listings that stop early
  are no errors to `applyCoordDeletions` (`orphans`), so the marker can follow them
  (coord_tombstone_backfill.go:72-77 speaks of zero purge errors).
- A live `applyCoordDeletions` runs under its client's context and stops between two
  coordinates when the client leaves (purge.go:180-185); the model's live runs are
  not cancelled.
- `FetchPage` drops documents without `eventRaw` before the walk compares the page's
  length with its size, so one such document ends the walk early (fetch.go:61,
  run.go:70, 129); `HydrationCompletes` excepts it. The CLI's store has no gate
  (cmd/hydrate-bolt/main.go:72) and puts deleted events back into the raw store.

Who may write and read:

- Two overlapping admin calls can write database and memory in opposite orders;
  until the next start the gates follow memory (README.md:777-778: all persisted).
- README.md:505-508 says that an outage at a list's relay shrinks the allowlist;
  allowlist.go:280-284 keeps the last list. Only a restart forgets it.
- A fetch that ends after its reference was removed puts the list back into
  `listPubkeys`, where it stays unused until the reference is added again.
- A member list that is not found while its definition is makes the kind
  owner-only, and a community never resolved is open to all; the comments promise
  that a failed fetch keeps what was known (community_registry.go:149-152, 186-189).
- Two overlapping refreshes can store the older result last.

Queries:

- `pageRelay` fails with "more than %d events share created_at" as soon as exactly
  `mappingPageSize` do and one page repeats (expand_registry.go:508-509).
- A mapping that replaces another while its relay is paged can be missed until the
  next refresh, and of two loads of one source the older result can be stored last.
- A refresh that brings an evicted source back counts it as just used. Queries less
  frequent than `mappingRetryAfter` try the same first dead sources each time
  (`ToLoad` cuts before it knows which load).
- Trusting one more author can shrink an expansion, as a conflicting match removes
  an exact one; a query's own concordance replaces the default ones; default
  sources that are authors are loaded and never used (`TrustKeys`).
- expand.go:193-194 says expansion never narrows a query; on a collection indexed
  before the `concepts` field it does, as README.md:424-427 says.
- content_registry.go:102 says events are merged in registration order; `selected`
  follows the order in which the filter names the kinds (`Selected`).
- The gate filters after the collection has applied its limit, so a REQ can answer
  fewer events than exist, and COUNT is not gated at all. Expansion is not within
  the query's budget; its own deadline bounds it.

## 5. What is proved

By TLAPS, for every value of the constants: any set of events, authors, coordinates
and goroutines, any channel capacity, batch and page size, any number of retries and
restarts, any answers of other relays.

| theorem | statement | module |
|---|---|---|
| `BoltTypeCorrect` | `BoltSafeSpec => []BoltTypeOK` | `Buffers_proofs` |
| `ShutdownLosesOnlyRacers` | `BoltSafeSpec => []OnlyRacersLost` | |
| `WritesInOrderOnce` | `BoltSafeSpec => WritesInOrder` (refinement of `FifoStore`) | |
| `TSTypeCorrect` | `TSSafeSpec => []TSTypeOK` | |
| `PendingIsExact` | `TSSafeSpec => []PendingExact` | |
| `PatchesStay` | `TSSafeSpec => []PatchNotClobbered` | |
| `WritesReachDocumentsInOrder` | `TSSafeSpec => WritesInOrderPerDocument` (refinement of `ProjectionLog`) | |
| `TypeCorrect` | `Spec => []TypeOK` | `RelayCore_proofs` |
| `NothingGoneStaysInBolt` | `Spec => []BoltSealed` | |
| `NoBlockedIdStaysIndexed` | `Spec => []IndexSealed` | |
| `DeletionsAreFinal` | `Spec => DeletionIsFinal` | |
| `StartupTypeCorrect` | `Spec => []StartupTypeOK` | `Startup_proofs` |
| `TheMarkerIsHonest` | `Spec => []MarkerHonest` | |
| `NothingDeletedIsLeft` | `Spec => []MarkedMeansPurged` | |
| `AllowTypeCorrect` | `Spec => []AllowTypeOK` | `Allowlist_proofs` |
| `OnlyVouchedAllowed` | `Spec => []AllowedIsVouched` | |
| `ProfileTypeCorrect` | `Spec => []ProfileTypeOK` | `ProfileManager_proofs` |
| `EnqueuedIsComing` | `Spec => []NoLostWakeup` | |
| `EveryMemberHandedOn` | `Spec => []MembersHandedOn` | |
| `StamperTypeCorrect` | `Spec => []StamperTypeOK` | `CommunityStamper_proofs` |
| `StampsAreVouchedFor` | `Spec => []OnlyVouched` | |
| `ReindexTypeCorrect` | `Spec => []ReindexTypeOK` | `Reindexer_proofs` |
| `CollectionSparesStored` | `Spec => GCSparesStored` | |
| `RebuildIsRight` | `Spec => []RebuiltRight` | |
| `ReadTypeCorrect` | `Spec => []ReadTypeOK` | `ReadPath_proofs` |
| `PagesLoseNothing` | `Spec => []PagingComplete` | |
| `CachesStayBounded` | `Spec => []CachesBounded` | |
| `NothingDueIsLost` | `Spec => []NothingLost` | |
| `ExpandedRightly` | `Spec => ExpandedByWhatIsLoaded` | |
| `ExpandsAsDocumented` | `Spec => []ExpansionAsDocumented` | |

### Assumptions

Only those the modules name, which TLC evaluates on every run: the typing of the
constants in `RelayEvents`, `BoltBuffer`, `TSBuffer`, `RelayCore` (positive
capacities, a coordinate names its author); `StartupAssumption`;
`AllowlistAssumption`; `DirectoryAssumption` and `ProfileAssumption` (finitely many
authors, batches of at least one); `CommunityRegistry`'s `RegistryAssumption` and
`StamperAssumption`; `ReindexAssumption`; `MappingRegistry`'s `RegistryAssumption` and
`ReadAssumption`. Of the last two, what goes beyond typing is: `Keys` lists each
source once (it stands for the order `sourceKeys` sorts by), there is at least one relay (`EXPAND_READ_RELAYS` has a
default), finitely many notes, a filter's `kinds` are the collections it names, each
once, as `selected` goes through them. `GraphAssumption` types what mappings and
concepts name; identifiers are finitely many (`ConceptAssumption`).

### The arguments

Most of the properties are not inductive as they stand. What each proof adds:

- `OnlyRacersLost`: the channel's content at the end depends on
  the order of the shutdown's steps. `LostInv` adds `ShutdownOrder`: the worker
  drains only after `done`, `done` only after the flag, and after the flag every
  goroutine still inside `Queue` is a racer.
- `WritesInOrder` maps *process ∘ channel* to the queue; the proof shows for every
  step that it is an `Accept`, `Apply`, `GiveUp`, `Remove` or a stutter. The facts
  about `Append`, `Tail` and concatenation it needs are lemmas of their own.
- `PendingExact` and `PatchNotClobbered` follow from `BatchInv`, which says what the
  batch, the kept projections and the pending set are at each point of the
  worker: between tasks, while filtering, while upserting, and when a patch is out.
- `WritesInOrderPerDocument` maps *batch ∘ task in process ∘ what the channel asks of the
  document* to its log. `OrderInv` adds to `BatchInv` that the task in process is of the
  kind the worker's position says (`TaskFits`) and that what a document of
  the index shows is a version of that document (`OwnVersions`). The proof has one step per action, which
  shows that every log but those it writes to stands still, and that those get an
  `Ask`, an effect of their head or a loss. What the channel asks of a document is a recursive function over
  the channel (`Asked`); the proof shows that it exists and how it behaves under
  `Append`, `Tail` and concatenation.
- `BoltSealed` follows from `SealInv`: `TypeOK`, `BoltSealed`, and `TargetsHeld`,
  which says that a goroutine with versions left to purge is inside the deletion of
  their coordinate, so that it cannot end a request and forget them. The case that
  needs care is a step that makes an event *gone* (a ban, a mark, a tombstone) while
  it is stored: the proof exhibits the goroutine that is then on its way to purge
  it; and a write of an event that became gone since its check: the worker is then
  at the self-heal.
- `IndexSealed` follows from `IndexInv`: `TypeOK`, `IndexSealed`, and `TaskHeld`, the
  relation between the program counter of the projection worker, its task and what it
  has kept of a batch.
- `DeletionIsFinal` needs only `TypeOK` (the times are comparable).
- `MarkerHonest` follows from `MarkerInv`. `ScanKeepsUp` is its core: while a scan for the
  marker is under way,
  every request of `atScan` is still ahead of it, in the hands of its run, or has its
  tombstones, unless the scan knows of an error. It holds because tombstones never
  fall and because the scan cannot reach its end with a request unread and the count
  reached, except when it was misled.
- `MarkedMeansPurged` follows from `PurgeInv`. Its part `TombstonedHeld` holds with and without
  the marker: a tombstoned row is an orphan, or the run of a live request or the backfill
  holds it, or, as long as there is no marker, a scan will come to it. Whoever writes a tombstone lists its versions next, and the gate lets no row
  in once the tombstone is there.
- `AllowedIsVouched` follows from `AllowInv`: the merged sets equal what database and
  memory say whenever no rebuild is owed (`MergedFresh`). A call that changes either is
  itself the rebuild that is owed, and a late `Store` owes one too.
- `NoLostWakeup` is inductive relative to `ManagerInv`, which says for every point of the worker and of each
  enqueueing goroutine what it still holds. The case that needs care is an author put
  into the queue after it was listed: his goroutine is then between `Put` and `Kick`,
  or its kick is in the channel, which the walk that is under way does not take.
- `MembersHandedOn` follows from `HandInv`: between polls a member is announced or in the
  poller's hands, and whom a poll regards as known from before is announced.
- `OnlyVouched` follows from `VouchInv`: not only documents, but the fields that
  reconcilers have computed and not yet written, and the tasks that carry them, are
  justified; and the justification only grows (`Growing`), which is why it does not
  matter how long a reconciler waits before its PATCH.
- `GCSparesStored` follows from `GCInv`: from the moment the rows are read, an event that
  is not stored is in `unseen`, and only such an event becomes an orphan.
- `RebuiltRight` follows from `CalmInv`, a statement for each pass of a run that nothing has disturbed:
  what is visited of a coordinate is newer than what is left of it (`WalkOK`), so the
  first projection of it stays; after the flush every document shows the newest live
  version (`RowsOK`); the replay runs oldest first, so each document carries the
  fulltext of the newest version replayed (`ReplayOK`); the second pass leaves the
  first one's documents alone (`AmbDone`).
- `PagingComplete` follows from `Paged`: of what the relay held since the paging of it began, every note is
  read or at most as new as the next page's `until`. A page that is not full was all of it; a
  full one brought everything newer than its oldest note (`NewestFirst`), and the next
  one starts at that second, not below it.
- `CachesBounded`: `Store` adds one source and evicts one if it is one too many; the
  least recently used one exists because a nonempty set of ranks has a least element.
- `ExpandedByWhatIsLoaded` rests on `GraphsOK`: a cached graph equals what its sources make
  now. Every step that changes an entry drops all graphs.
- `ExpansionAsDocumented` is about operators, not about steps: `ExpandIsRight` shows it of
  every graph whose exact matches go both ways, and `NewGraphOK` that only such graphs
  are built. The closure (`ExactFindsSame`): what lies behind the newest wave has its
  neighbours among what was found, and every wave but the last adds one, so that as many waves as
  there are exact matches are enough. The narrowing (`NarrowerFindsBelow`): after n
  waves exactly what lies at most n steps below was found, although the walk goes on
  only from the newest wave and skips children it knows, because whatever came from below
  came with its exact matches. The cut (`FrontOrMore`): each stage's list is the beginning of the next one's.
  The recursive functions are shown to exist by one lemma (`Iterated`) whose step is a
  function, not an operator; induction goes over the least number that fails
  (`InductionOnNat`), from the library's theorems on well-founded relations.
- `NothingLost` follows from `RequestInv`: a document that is due is in the answer, or among
  those the producer holds, or in a collection that is still to be asked with clauses
  it matches (`OnItsWay`); the clauses only widen (`ExpansionWidens`, whatever the graph),
  and a document that is blocked in between is no longer due.

### What is only model-checked

- All liveness: fairness and `ENABLED` are beyond the prover. Every safety property of
  the passing runs, invariant or action property, is a theorem.
- `NoSkew`, which is violated.

## 6. What is not modelled

- khatru and the event store library: external, modelled from how `src/` uses
  them (`NextId`, `Replaced`, `IsOlder`, the order of the walk).
- The validators and kinds without a collection: they only reject an event before
  anything happens. Authentication itself is khatru's; what `Allowlist` decides about
  an authenticated key is modelled, and left out of `RelayCore`, where it could only
  reject.
- Deletion of AMB content through shares, kind-16 shares outside the stamper.
- In the read path: the grammar of NIP-50 searches and of `expand:` tokens (a filter
  arrives with its concept groups and sources), a client's own `concepts_<n>` tags,
  the rerank of chunks and the calendar window (orders and cuts within one
  collection's answer), a budget of 0 (no producer, no timer), access checks, which
  are in `Allowlist`.
- Projections and validators (pure functions of one event), embedding (a remote call
  inside an upsert), HTTP and environment details, statistics and logs.

## 7. Plan

Done, in this order: events and gate; the Bolt buffer and its abstract store; the
projection buffer and its log; the write path composed of them with restart;
proofs of these; the profile manager; the stamper; the reindexer; hydration and
backfill at the start; the allowlist; the mapping graph and its registry, and the read
path composed with them; the directories composed with the profile manager; the
community registry composed with the stamper.

Proofs of the safety of every part.

Next, by importance:

1. A restart in `Reindexer`: an index left empty half-way (reindex.go:122).
2. The rerank of chunks as an operator against the order it should give.
