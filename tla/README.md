# Edge Delta Lab in TLA+

Edge Delta Lab delivers container images over poor links. A *publisher* watches a
registry, cuts every new image into content-defined chunks and signs a release; a
*hub* serves the signed releases and chunks; a *receiver* verifies a release against a
pinned key, downloads the chunks it lacks, rebuilds the archive and may load it into
Docker. This directory models the parts of the Go code that carry that promise, checks
them with TLC on small instances, and proves the most important invariants with TLAPS
for instances of any size. All paths below are relative to the repository.

## The system

| component | state it keeps | operations | hard because |
|---|---|---|---|
| receiver sync engine, `internal/lab/agent.go`, `storage.go`, `format.go` | `state.json`, manifests, chunk cache, staged archives, `agent.lock`, the Docker store | `Sync`: flush receipts, lock, fetch and verify the manifest, record it, plan, fetch chunks, assemble, load, prove, finish | several processes on one directory; a crash or an error between any two durable writes; damaged files; a channel that goes back or equivocates |
| registry watcher and publish trigger, `internal/registry/watcher.go`, `publish.go`, `internal/lab/publish.go`, `publisher/` | watcher state file, sequence file, immutable releases, channel file | `PollOnce`, `Trigger` (export, draw a number, sign, store, promote), `Acknowledge`, `Run` | retries after partial failure, two watchers on one root, tags that move between poll and export |
| hub read path, `internal/hub/hub.go`, `internal/lab/server.go` | LRU cache, inflight map, request counters | `load`, `InvalidatePrefix`, the fault server's answers | two locks, singleflight, eviction and invalidation racing reads |
| announce trigger, `internal/push/trigger.go` | stamps and digests of the last scan | `ScanOnce`, `announceFile` | files written between the steps of a scan; a stamp is recorded before the file is read, a digest before it is parsed |
| broker, push client, receiver loop, `internal/push/push.go`, `internal/receiverloop/run.go`, `receiver/` | subscriptions and their buffers, connection, kick token | `Announce`, `serveConn`, `Run`, the sync loop | dropped hints, reconnects, hints during a Sync, shutdown |
| chunk worker pool inside `Sync`, `agent.go` 614-685, `fetchChunk` | unbuffered channel, WaitGroup, first error, derived context | sender, worker, attempts with backoff, cancellation | the sender blocks on workers that leave; errors caused by the pool's own cancellation |
| receipts outbox, `internal/lab/telemetry.go` | `outbox/`, the hub's `receipts/` | `queueReceipt`, `FlushReceipts`, the receipt endpoint | works outside the lock; lost answers |
| config-gated client, `cmd/edgelab/conf.go`, `internal/clientconf/` | configuration, audit files, containers | gate, Sync, `Act`, `RestartMatching`, `recreate` | manifest fetched twice; several Docker calls of which any may fail, on a listing that ages |
| admin event log, `internal/admin/admin.go` | two generations of a JSONL file, sequence number | `OpenEventLog`, `Emit`, rotation, `Query` | torn writes, failed rotations, restarts |
| notification dispatcher, `internal/notify/notify.go` | a bounded queue per notifier, counters per name | `Dispatch`, `consume`, `Deliver` with retries, `Close`, `Stats` | full queues, stalled destinations, `Close` racing `Dispatch` |
| registry client, `internal/registry/client.go`, `auth_transport.go` | token cache per scope | `do`, token exchange, `Tags`, `ManifestDigest` | exchanges that take time; tokens that expire or are revoked between check and use; tags that change between pages, and pages cut by the registry |
| chunker, admin socket and TUI, exporter, TLS, fixtures, command line | see PROJECT.json | | not modelled, or only where another component uses them |

How they interact: the watcher writes releases and the channel file into the origin
directory; the hub reads that directory, and its trigger scans it, invalidates the cache
and feeds the broker; the receiver loop syncs when its timer fires or when the push
client has accepted an announcement; `Sync` reads channel and chunks through the hub and
posts receipts to it. The interface between publisher and receiver is the sequence number:
`Publisher` shows that numbers are unique and the channel only advances; `Agent` shows
that the receiver never goes back whatever the channel does. `Pipeline` composes the
two promises with the hub between them. The watcher polls through the registry client, and
the admin event log's hook feeds the dispatcher.

What makes each component correct is stated as properties in its module, next to a
comment that names the code. `PROJECT.json` lists the hazards at their lines and the
properties that would catch each.

## Modules

| module | models | main abstraction |
|---|---|---|
| `Agent` | `Sync` by several processes on a state directory | a manifest is a model value whose identity is its digest; a file is *good*, *damaged*, *wrong* or *absent* with respect to the digest in its name; each durable write is an action |
| `ReleaseRegister` | what `state.json` promises: an accepted release that only moves forward, a readiness flag and an import marker that belong to it | abstract specification, implemented by `Agent` |
| `Publisher` | watchers, `Trigger` under `publicationMu`, acknowledgement | a release is its request `<<tag, digest>>`; each durable write is an action |
| `Hub` | `load`, LRU, invalidation, trigger, in-place corruption | each critical section of `Hub.mu` and `lru.mu` and each file read is an action; a body has a size and a bit that says it was corrupted; a file has a size and a modification time, which two writes may share |
| `Pipeline` | `Hub` with receivers that poll the channel through it, beside clients that ask for anything | extends `Hub`; the publisher only advances the channel (`ChannelAdvances`), a receiver keeps the newest release it has seen (`NoRollback`) |
| `FetchPool` | sender, workers, retries, `errOnce`, both contexts | an attempt commits, fails for good or may be retried; a backoff is a wait that the context may end |
| `ChunkFetch` | what `Sync` relies on: chunks are committed once each, and the fetch ends with all of them or with a cause | abstract specification, implemented by `FetchPool` |
| `Dispatcher` | queues, consumers, attempts, counters, `Close` | an event is an element of a queue; a delivery succeeds, fails or stalls |
| `RegistryClient` | the calls of a watcher's poll, the authority and the registry's pages | a tag is a number; instants are kept as time left, so that nothing grows; a token ages while its exchange is under way |
| `Delivery` | broker, websocket handler, push client, receiver loop | an announcement of the channel file is the number it holds, those of all other release files are one value; Sync fetches, then succeeds or fails |
| `Receipts` | the outbox around `Sync`, and the hub's endpoint | a receipt is the number of the Sync that wrote it |
| `ConfRunner` | `edgelab conf` and the restart runner | Sync accepts, downloads and loads; containers have IDs, names with their `-restarted` suffixes, and images, of which one may be built from another |
| `EventLog` | open, emit, rotate, query, close | lines have one length; a line knows which events were written on it and whether it parses |
| `AgentProofs`, `PublisherProofs`, `DeliveryProofs`, `FetchPoolProofs`, `RegistryProofs` | the theorems about the module of that name | |
| `HubProofs` | the theorems about `Hub` and about `Pipeline` | |
| `ClientProofs` | the theorems about `ConfRunner` and `Receipts` | |
| `EventProofs` | the theorems about `Dispatcher` and `EventLog` | |
| `MC...` | instances for TLC: constants, symmetry | |

Actions carry the names of the code's functions where there is one (`PollTag`, `Draw`,
`Promote`, `Lookup`, `Join`, `Lead`, `FetchChunk`, `Assemble`, `Recv`, `Ps`, ...); the
`map` of `PROJECT.json` gives the lines of each definition. A definition marked
`\* variant` is not part of the system: it is a plausible wrong form of the definition
after it, and substituting it makes TLC report the property named in `mutants`. It shows
that the property can fail.

Failures: failed calls and writes, lost answers and process deaths are actions of their
own, or disjuncts of the action of the call, where the component has them: in `Hub` these
are the trigger's stats, reads and parses and the loader's reads, in `EventLog` the steps of
`Emit` and of a rotation, in `ConfRunner` every Docker call and Sync. They are bounded by
`MaxFaults` (`MaxFailures` in `Receipts`; unbounded in `Agent`, where a fault only aborts a
Sync, and in `RegistryClient`). `AtomicWrite` (temp file, fsync, rename,
directory fsync) replaces a file in one step; a fault directly before or after the step
covers its own failures. In `Receipts`, where the temp file itself matters, creation and
rename are separate.

## Runs

Passing runs (state counts are distinct states):

| run | question | states |
|---|---|---|
| `agent_shared` | a service and one-shot processes on one directory: is `state.json` true and does it never go back? | 2 processes, 4 envelopes (two in sequence, one equivocating and unsound, one unsigned), 2 chunks, 1 damage per chunk |
| `agent_converges` | is the newest deliverable release imported once faults stop? | 1 process |
| `publisher` | two watchers, one root: unique numbers, advancing channel, nothing acknowledged that the channel does not cover, every digest finally acknowledged | 368 thousand |
| `pipeline` | LRU accounting, singleflight, what an invalidation leaves behind, how far corruption spreads, whether any write is passed over in silence; does every request return, and does a receiver end up with the channel's release? A receiver and another client, a channel file and a chunk, budget 3 with contents of 1, 2 and 4, one of them garbled, 1 new release with or without a new modification time, 1 failing stat or read, 1 corrupted chunk request | 207 thousand |
| `delivery` | are accepted hints followed, and those of the channel ordered? Does polling make up for lost hints, are dead connections forgotten, does a cancelled Run join its client and return? 2 releases, one stored before the hub starts, 2 connections, 1 cancelled run, 1 fault, buffers of 1 and 2 | 352 thousand |
| `receipts` | no queued receipt is lost; all arrive; 2 processes | 8 thousand |
| `conf_runner` | what does conf stop and remove, and is every loss in the record of a run that reaches its audit? 3 releases, 4 images, 2 runs, 2 containers started by others, 2 faults | 788 thousand |
| `event_log` | do numbers increase, do recent acknowledged events survive rotation, and how long does a cursor keep working? 8 events, generations of 2 lines, 4 faults | 1.02 million |
| `fetch_pool` | does the pool implement the abstract fetch, report what stopped it and always return? 2 workers, 3 chunks, with and without a limit on attempts | 12 thousand |
| `dispatcher` | is every event counted once, does `Close` drain, does a stall stay with its notifier? 2 notifiers of one name, queues of 1, 2 attempts, 3 events, 2 callers of `Close` | 292 thousand |
| `registry` | are listings exact, are reused tokens alive, does the client recover from revocation? 1 repository of up to 2 tags, limits 0, 1 and 2 against registries that cut pages at 1 or not at all, lifetimes below and above the margin, exchanges and retries of any duration | 278 thousand |

Why the bounds are enough: every race in this code needs two actors and one write between
two of their steps, and every recovery path needs one fault and a second attempt; the
instances have two processes (more chunks than workers in the pool, more events than a queue holds), a newer
release to move to, an older one to go back to, and at least one fault, two where a
failure during the recovery from another matters. Buffers have capacity 1 or 2 so that they overflow. TLC's coverage
shows every action taken in the passing runs. Bounds are constants and are named where
declared. Safety and liveness share an instance (but for `Agent`, where
liveness is that of the service alone); the safety properties of the small ones,
`pipeline`, `delivery` and `registry`, are also proved for every value of the constants.

`CHECK_DEADLOCK FALSE` is set for `EventLog`, `ConfRunner` and `Dispatcher` only: a log
whose bounded calls are used up, a one-shot command that has been run often enough, and a
closed dispatcher stop.

Type invariants are the first conjunct of the inductive invariants that are proved
(`AgentInvariant`, `PublisherInvariant`, `PoolInvariant`, ...); runs list only properties
that say something of the code.

### What the code does not do although its documentation says so

Run `hub_shadowed` states a sentence of the repository as a property, and TLC's
counterexample is what the code does: "a fresh channel write is never shadowed by stale
cached metadata" (`hub.go` 207). A read started before a channel write is put into the
cache after the invalidation, and stays. What holds is `CleanIsFresh` and
`ReachesReceivers`: no stale body when no read overlaps.

Six more sentences are kept as definitions of their modules. They are not invariants: TLC
finds each violated when it is added as an INVARIANT to the configuration named here, and
no run lists them as holding.

| definition | configuration | sentence | what happens | what does hold |
|---|---|---|---|---|
| `MustAnnounce` | `PipelineRuns` | files that appear after the initial scan must announce (`trigger.go` 51) | the stamp is recorded before the file is read: one failed read, and no later scan comes back to the file | `SeenIsTold`: it is announced, or the trigger has reported an error, or size and time do not show the write |
| `CursorSurvivesRestart` | `EventLogRuns` | numbers are monotonic across rotations and restarts, so a cursor issued before a restart keeps working (`admin.go` 32) | the number is recovered from the current generation only, which is empty after a rotation | `CursorKeepsWorking`: while each open finds a readable line and no readable line lacks its newline |
| `IneligibleCostsNothing` | `ConfRunnerSafe` | an ineligible release never costs bytes (`conf.go` 8, `clientconf.go` 6) | the gate sees one fetch of the manifest, Sync downloads another | nothing weaker than the gate's own condition |
| `NeverBeforeLoad` | `ConfRunnerSafe` | `RestartMatching` is never called before a verified load (`runner.go` 151) | the release that is acted on is the gate's, the one that was loaded is Sync's | `OnlySelectedIsTouched`: it is an eligible, signed release |
| `OnlySignedIsTouched` | `ConfRunnerSafe` | restart works only on containers whose image ID matches the signed IDs (`conf.go` 13, `clientconf.go` 9) | the ancestor filter of `docker ps` lists containers of images built from a signed one | `OnlySelectedIsTouched`: their image is built from a signed one |
| `ListsAllTags` | `RegistryRuns` | `Tags` lists all tags (`client.go` 313) | without a limit, which the program never sets, the first page is the list | `ListingExact`: nothing twice or foreign; complete where the registry cuts pages only as asked |

Other places where the modelled code differs from a sentence about it. The models contain
each of these behaviours, and the properties that are checked say what does hold:

- A write that ended just before its newline leaves a readable line whose number is taken
  back: the next event is glued to it, or, after a restart, gets the number that follows.
  `NumbersIncrease` and `CursorKeepsWorking` name this line as their exception.
- The expiry of a token is counted from the end of the exchange, so the exchange comes off
  the margin of 30 seconds (`client.go` 209). `ReuseIsSafe` counts it.
- Announcements of a scan come in the order of file names, not of sequences, and those of
  release files may be ahead of the channel (`trigger.go` 120). `HintsInOrder` speaks of the
  channel's announcements only.
- Of two concurrent calls of `Close` the second returns before the queues are drained
  (`notify.go` 279). `CloseDrains` speaks of the call that waited.
- `buildNotifiers` fails when an environment variable is missing, where a comment says that
  it disables that notifier (`conf.go` 177).
- `promote` returns success when the channel is already ahead, so a release overtaken
  after a failed promotion is acknowledged without ever having been on the channel
  (`watcher.go` 111 says acknowledgement follows promotion). `SeenIsCovered` is what holds.
- `load` clears the inflight entry before it fills the cache: a request in between reads the
  object again (`hub.go` 94 says concurrent requests share one read). `FlightHasLeader`
  says what the map guarantees.
- `LRU.put` keeps a single entry above the budget, also with budget 0 (`hub.go` 129 says
  that disables caching). `CacheBound` allows it.
- The leader of a read returns the slice it has cached, and the fault server flips a bit of
  it in place (`hub.go` 152 speaks of copies). `MetadataIsIntact` says how far it spreads.
- A scan that finds no `releases` directory does not count as the initial one: releases
  published before the next scan are recorded silently. `SeenIsTold` therefore speaks of
  files that appear once `primed` is set, or were announced before.
- An event appended to a torn line is acknowledged but does not parse, and `Query` skips it
  (`admin.go` 145 says Emit is durable). `RecentRetained` says that it is on disk.
- `queueReceipt` runs after the lock is released, so another process' `CleanTemps` can
  delete its temp file, and the receipt is not queued (`RenameFails` in `Receipts`).
- `RestartMatching` returns before `WriteAudit` when `docker ps` fails for a later image:
  the records of containers already recreated are lost (`PsFails` in `ConfRunner`), as they
  are when the audit file cannot be written. `LossIsReported` speaks of runs that reach the
  audit.

### Fairness

Liveness is checked under weak fairness of the code's own loops, never of faults:

- `Agent`, `Receipts`: a running Sync takes its next step and the loop starts another
  (`receiverloop.Run` syncs after every poll; the service manager restarts the process).
  `Converges` assumes that faults stop and the channel rests, which it states itself.
- `Publisher`: `Watcher.Run` polls for ever and retries, and its supervisor restarts it.
- `Pipeline`: Go runs every runnable goroutine, the trigger scans again and again; no
  fairness of the disk's success is needed because a failed read ends a request as well.
  A receiver requests the channel again after each answer: its loop starts another Sync,
  and a Sync begins with the channel. Nothing is assumed of when other clients ask.
- `FetchPool`: goroutines run, requests end by their timeout and timers fire. Nobody is
  made to cancel: `PoolEnds` asks for it, or for a limit on attempts.
- `Dispatcher`: consumers run and timers fire; a stalled destination has no fairness, and
  nobody is made to dispatch or to close.
- `RegistryClient`: a call takes its next step, a token exchange included; strong fairness of starting a listing for
  each repository and of time passing between calls, because the watcher's loop polls every
  repository at every interval.
- `Delivery`: the loop's timer fires, a cancelled Run is called again, the hub's
  goroutines and the client's reads proceed. Dialling is not assumed to succeed:
  `Converges` holds by polling alone.

## Proofs

TLAPS proves, for every number of processes, manifests, tags, requests, connections,
workers, chunks, notifiers, events and repositories and every value of the bounds:

- `AgentInvariant`, and from it `AgentAcceptedIsStored`, `AgentLoadedIsProved`,
  `AgentReadyIsAssembled`, `AgentSuccessIsReady`, `AgentDownloadedOnce`, `AgentNoRollback` and the refinement
  `AgentRefinement` of `ReleaseRegister`. None of these is inductive alone: Sync checks a
  copy of the state it read several steps earlier. The invariant adds that a process past
  `Begin` holds the lock (`LockHeld`), so its copy is the file (`MemIsState`); that what it
  works on was verified, stored and is still acceptable (`CurIsVerified`); that chunks it
  fetches are not valid in the cache (`MissingIsInvalid`); and that an archive it will
  report was hashed (`ArchiveIsHashed`). `NoRollback` and the refinement then follow from
  one lemma, `StateWrites`, that says which writes of `state.json` exist.
- `PublisherInvariant`, and `PublisherUniqueSequences`, `PublisherSeenIsCovered`,
  `PublisherChannelAdvances`. The strengthening says that the watcher inside `Trigger`
  holds the mutex, that a drawn number is the sequence file's and above every stored one
  (`Allocated`), and that everything acknowledged, on disk or in memory, is covered.
- Of the hub, `HubFlightHasLeader` (inductive with the types of what it mentions) and four
  more invariants. `HubCacheBound` rests on lemmas about the operators of the LRU: what
  `Total`, `Kept` and `Only` do to a sequence of entries, and what `put`, `Touched` and
  `Invalidate` make of the cache (`CacheInv`). `HubCleanIsFresh` needs that no request still
  reading or about to land has an older body of a covered file (`CleanInv`);
  `HubMetadataIsIntact` that a slice is shared only between requests and entries of one
  object, so that a flip stays with it (`LendInv`); `HubSeenIsTold` that a content taken up has
  reached the broker or failed or is being announced (`TakenUp`), that between the steps of
  a scan the property holds of every file but the one in hand (`OthersTold`), and that this
  one was read after its stamp was taken (`AboutToTell`), so that a write in between shows
  in the next scan's stamp.
- `PipelineIsHub`: receivers and the publisher's promise only restrict and observe the hub,
  so every behaviour of the composition is one of `Hub`; `PipelineIsSafe` states the five
  invariants of it.
- `PoolInvariant`, `PoolReportsCause` and the refinement `PoolImplementsFetch`. The
  invariant accounts for every chunk that the sender handed out (`JobsAccounted`: committed,
  in one worker's hands, or left by a worker that failed) and keeps a cause for every done
  context (`CausesKept`); without the first, workers that have gone could hide a chunk that
  nobody fetched.
- `DispatcherDrains`: a consumer has left only with an empty queue after the close
  (`GoneIsEmpty`), and a caller waits only in a closed dispatcher (`WaiterClosed`).
- `DispatcherAccounted`: the sum over the notifiers of a name is the number of places their
  queues and hands take (`Pending`), so that a step is one place more or less; a consumer
  that counts has an event and a verdict (`HandInv`), and a compare-and-swap succeeds only on
  the value that was loaded.
- `LogNumbersIncrease`, `LogRecentRetained`, `LogCursorKeepsWorking`. The first needs the
  shape of the files: only the last line may lack its newline, a readable line has one event,
  and the previous generation is older (`FilesOK`, `LogInv`). The second needs that an
  event that has left the current file is at least as old as that file is long, in lines and
  in the log's own count (`Retained`). The third, and the part of the first that spans both
  generations, need that the numbers of the two generations, of the open log and of the client are in
  order while nothing is forgotten, and that an open that finds a readable line recovers a
  number at or above the client's cursor (`CursorInv`, `Anchored`): that is what makes a
  recovery from the current file alone enough there.
- `RegistryReuseIsSafe`: a token that may still be taken outlives its refresh instant by the
  margin less the time its exchange took (`FreshOutlives`), because it has aged on its way by
  just that time (`ExchangeAges`), and a retry by the time it has waited (`RetryAges`).
- `RegistryListingExact`: the pages so far ascend to `last` and hold every steady tag up to
  it (`PagedInv`); a tag behind the last one of a page is never asked for again, so a tag
  pushed there late is not steady, and one that was there is listed already.
- `DeliveryHintIsFollowed` and `DeliveryReturnedIsJoined`. A Sync that asks after a hint of
  the channel finds the hinted release only because none on its way is ahead of the channel
  (`HintsArePast`), which is the strengthening; for the announcement of another release file
  it is enough that the Sync asks.
- `DeliveryHintsInOrder`, an action property: what a connection carries of the channel is in order, the
  broker's buffer behind the wire, nothing ahead of the last announcement, and the connection
  the client reads carries nothing older than its newest hint (`StreamsInOrder`).
- `ConfOnlySelectedIsTouched` and `ConfLossIsReported`. The manifest that passed the gate
  stays eligible (`GateInv`), and the runner works on its signed images (`RestartInv`). The
  listing ages while others start, end and remove containers, but an ID never changes hands:
  whatever still has the ID of a listed container is that container (`TouchInv`), for which
  IDs must be drawn once (`DaemonInv`). Only the container in hand may be gone without a
  record (`NotedInv`), and a listing never holds what was removed (`ListedInv`, `RemovedInv`).
- `ReceiptsQueuedIsKept`: inductive with "what is about to be removed is with the hub"
  (`PostedIsStored`).

Facts about sums and filters of sequences and about finite sets are proved by induction in
the form the provers can use: the set of counterexamples is a set of naturals, a nonempty
one has a least element, and that element is refuted. Two proof modules
extend two components each; the components have no name in common.

The assumptions are the named `ASSUME`s of the modules: types of the constants, a positive
buffer capacity, finitely many notifiers and tags, sequences of images for the releases,
`None`, `Foreign` and `Published` distinct from other values, the empty tag no tag. Nothing else is assumed.

Only model-checked: the liveness properties (`Converges`, `EventuallySeen`, `LoadReturns`,
`ReachesReceivers`, `Delivered`, `DeadIsForgotten`, `CancelReturns`, `PoolEnds`, `Isolated`,
`Recovers`), since the prover handles neither fairness nor `ENABLED`. Every invariant, action
property and refinement that a passing run checks is a theorem.

## Plan

Done in this order: `Agent` with its proofs and `ReleaseRegister`, `Publisher` with proofs,
`Hub`, `EventLog`, `Receipts`, `ConfRunner`, `Delivery`; then `FetchPool` with `ChunkFetch`
and proofs, `Dispatcher` with proofs, `Pipeline`, `RegistryClient` with proofs; then the
proofs of what was only model-checked: `HintsInOrder`, the rest of `Hub` and of
`Dispatcher`, `ConfRunner`, `EventLog`, tag lists. Left:

1. Safety facts the liveness arguments rest on, as theorems: that a waiting caller of
   `Close`, a blocked sender and a cancelled `Run` always have somebody who can move.
2. A bounded check of the chunker's cut rules against a reference definition.
3. Audit files as a directory, to state what a second `conf` run in the same second loses.

## Not modelled

Cryptography (a manifest is authentic or it is not), the bytes of chunks and archives, the
gear hash, gzip, TLS, HTTP details and pacing, free-space arithmetic (a refused plan is a
fault), metrics, progress output, the text of notifications, the admin socket and the terminal UI,
the exporter and the fixtures: they compute or format, and keep no state that the
properties speak of. Of the registry client, `Ping` and `Blob` are not called by the
program, and the image library's export is one call in `Publisher`. Two `conf` runs within
one second, whose audit files have the same name, are a known hazard without a property; so
are a receipt the hub refuses for good, which blocks those behind it in the outbox
(`telemetry.go` 107; both sides validate by the same rules), a notification sent again after
a lost answer (`notify.go` 117 promises no more), hooks of two emitters that dispatch in the
other order than the log numbers their events (`admin.go` 183), and a `Retry-After` of
centuries that overflows the backoff (`notify.go` 130), and a channel moved by hand to other content and
back between two scans, whose content in between may stay cached because the digest is the
announced one (`trigger.go` 155).
Promoting by hand an older release (`edgelab promote`) is a move of the channel in `Agent`
and `ConfRunner`; `Delivery` has an advancing channel.
