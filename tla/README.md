# elchi-shield: a TLA+ model

elchi-shield is an Envoy `ext_proc` sidecar that inspects requests and responses.
Envoy opens one gRPC stream per HTTP exchange; a goroutine per stream handles its
messages with a pooled `Transaction`, resolves a policy, runs pipelines of stages
(pre-checks, security engines, body checks) and answers *continue*, *continue with a
new body* or *immediate response*. Around the streams:

* one process-wide **body budget** all streams charge their buffers to;
* the active **snapshot** (compiled policies and engines), pinned by each stream,
  replaced by reloads and closed by a retirer;
* the **watcher** and **reloader** that turn a directory of files into a snapshot, by
  merging, validating and compiling them;
* **engines** that keep state of their own: rate limiter, replay cache, key refreshers;
* the **audit trail**: a bounded queue, drain workers and a batching sink;
* `run()`, which boots and shuts all of it down.

These parts share little state, and the modules are split along it.

| Module | Code | State and actions |
|---|---|---|
| `BodyBudget` | `server/extproc/budget.go`, its callers in `processor.go`, `pipeline/transaction.go`, `stages/decode.go` | the atomic counter; per stream the pending `Acquire` (load and swap are two steps), reservation, buffer length, truncation mark |
| `AtomicBudget` | what `Acquire` and `Release` promise | an allocator that grants and takes back bytes in one step |
| `SnapshotLifecycle` | `runtime/store.go`, `snapshot.go`, the swap in `reloader.go`, the retirer in `cmd/elchi-shield/main.go` | active pointer, reference counts, retire queue, grace and wait countdowns; `Pin` is a load and an increment |
| `ConfigReload` | `watcher/watcher.go`, `config/load.go`, `runtime/reloader.go`, `reload_status.go`, `doReload` | the directory and the agent that writes it, fsnotify events, debounce timer, backstop, a scan file by file, the served configuration and the failure record |
| `AuditTrail` | `audit/exporters.go`, `audit/clickhouse/clickhouse.go`, shutdown in `main.go` | the two selects of `Export`, the queue, workers, the batch under its mutex, sends outside it, counters, shutdown |
| `ExtProcStream` | `server/extproc/processor.go`, `pipeline/pipeline.go`, `pipeline/stages/*.go`, predicates of `policy/policy.go` | one stream: message handlers, the pipeline stage by stage, the decision, the reply, what the peer may send next, and a history for the properties |
| `Lifecycle` | `run()` in `main.go`, `server/extproc/manager.go`, `serve.go`, `server/http`, `policy/compile.go`, `policy/engines.go`, `engine/jwks` | composes main, servers, streams, watcher, a reload policy by policy, the engine sets a snapshot owns and their refreshers, the retirer, the signal and the drain deadline |
| `EngineSpecs`, `PolicySpec`, `PolicyRouting` | `config/validate.go`, `merge.go`, `policy.go`, `policy/compile.go`, `resolver.go`, `policy.go`, `engines.go`, `stages/catalog.go` | from parsed files to the policy of a request: validate, merge, compile, resolve; and what each engine's validation and constructor accept |
| `Matchers` | `internal/matcher` | hosts and their scores, path normal form, path, method, header, content type |
| `EngineVerdicts` | `engine/*`, `engine/engine.go`, `stages/waf.go`, `stages/body.go` | each engine's `Inspect`, the set that aggregates them, the two phases and the anomaly score, the body checks |
| `ClientCert`, `GraphQL`, `Redaction` | `engine/xfcc`, `engine/graphql`, `stages/body.go` with `sensitive` | the header parser, the walk over fragments, the masking pass |
| `GraphQLLimits` | `engine/graphql` among the engines | what the limits mean for the operation that is executed; apart, because it joins the recursive walk to `EngineVerdicts` |
| `RateLimit` | `engine/ratelimit` | one shard: the clock reading before the lock, buckets, eviction |
| `ReplayGuard` | `engine/auth`, the freshness test of `engine/hmacsign` | one shard: two generations of nonces, verifiers delayed between their clock readings |
| `Slices` | | the operators on sequences the configuration and engine modules share |
| `MC*` | | the instances the runs use; `MCInspection` joins `MCPolicy` and `MCVerdicts`, `MCLimits` joins `RateLimit` and `ReplayGuard`: a behaviour is of one of the two |
| `Loops`, `*Proofs` | | theorems and proofs |

`PROJECT.json` maps each definition to its lines. Operators whose comment begins
"Mutant of" are deliberately wrong variants; each property has one that breaks it.

## Abstractions

A body is its length (in `Redaction` a sequence of byte classes), a snapshot is its
version, an audit event is a name. In `ConfigReload` a file is the host it configures,
`Bad` or `Absent`; what files say is `PolicyRouting`'s matter. In `ExtProcStream` what
an inspector finds is a choice among the results its stage can return; what an engine
decides is `EngineVerdicts`'. Hosts are sequences of labels, paths and headers sequences
of characters, a regular expression is a character it looks for. A signature is the
record of what was signed and with which key. A certificate header is the one Envoy
writes; of its fields only the subject, which is always quoted, may hold blanks, so
trimming a part changes nothing. Durations, sizes and scores are small
integers whose order is that of the code's constants. Time in `SnapshotLifecycle` is a
countdown in ticks, in `RateLimit` and `ReplayGuard` a clock; elsewhere a timer may fire
whenever it is armed. `fsnotify`, the ClickHouse client, gRPC, key servers and Envoy are
modelled from how the code uses them: events may be lost, any call may fail, `Append`
may panic, a key document may change or be unreachable at any fetch.

`Lifecycle` takes pinning, grace and drain of a snapshot as one step, which
`SnapshotLifecycle` has in detail, and leaves out reloads that end before they compile,
which `ConfigReload` has.

## Runs

| Run | Shows |
|---|---|
| `budget` | `Accounted`, `WithinLimit`: the counter is exact and bounded under every interleaving of loads, swaps, refunds and stream ends. `ResidentIsCharged`, `NoSilentTruncation`: what the counter bounds is really the buffers, and a short grant is marked. `AcquireLockFree`, `ImplementsAtomic`. |
| `snapshot` | `RefsAreHolders`, `CloseOnlyDrainedOrCapped`, `NoneForgotten`, and that every replaced snapshot is closed (`ReplacedIsClosed`) even if its streams never end. |
| `reload` | `ServedIsValid` for torn scans, `PendingHasTimer`, and `Converges`: once the agent stops, what is on disk is served or reported, with events lost and the directory replaced. |
| `audit` | `Conserved`: no loss goes uncounted, nothing is stored twice. `SettledUnlessStuck`: queued events are settled through a shutdown. |
| `stream` | With Envoy: one terminal decision per direction (`DecidedOnce`), observe-only modes block only by failing closed (`ObserveOnly`). With Envoy or any peer: every finding of an inspect pipeline audited once (`InspectFindingsAudited`), no end of a body let through uninspected (`ForwardedIsInspected`). |
| `inspection` | Against declarative references: the most specific host and route serve (`MostSpecificWins`), each setting comes from the narrowest scope that makes it (`ScopesApply`), a configured check runs unless another block wrote the stage order (`ConfiguredChecksRun`), what validates also compiles unless a file, URL or rule text is unusable or an API key is listed twice (`AcceptedBuilds`), a caller let through has what the engine asks for (`CallerEntitled`), a block is not hidden by another engine's error or score, and an error is never a pass (`FindingsSurface`), GraphQL limits hold of the expanded document (`LimitsBindExpansion`), redaction masks the matches and nothing else (`RedactionExact`). |
| `limits` | `GrantsBounded`, `ForgetsOnlyFull` for callers whose clock readings arrive out of order; `AcceptedApart`, `AcceptedOnce` for nonces under rotation and delay. |
| `lifecycle` | `EnginesServeStreams`, `RefreshersOwned`, `ReadyIsServing` through boot, reloads and shutdown (excepting what the retirer's cap, a drain out of time or an abandoned compile leaves); `Exits` after a signal. |

Four runs refute a statement of the repository's comments; `PROJECT.json` quotes them.

| Run | What the code does |
|---|---|
| `reload_wiped` | Files that vanish between listing and reading leave an empty configuration, which is applied. |
| `audit_panic` | A panic in `Append` leaves the sink's mutex locked, and the workers block on it. |
| `stream_mismatch` | A host mismatch is rejected only under a policy in block mode; otherwise it is recorded and the request goes on. |
| `jwks_leak` | A compile that fails after a key refresher was started drops it without `Close`. |

### Bounds

* `budget`: two streams, limit 3, per-request cap 2, decoded size up to 3, chunks of 1
  and 3. One chunk exceeds the cap, two bodies exceed the limit, so full, partial and
  zero grants, failed swaps and both truncation causes occur.
* `snapshot`: four snapshots after the empty one and a queue of one, so the overflow
  goroutine and the worker run side by side; grace 2 is the smallest the assumption
  allows for a pin that takes a tick.
* `reload`: two files, two hosts, every initial directory, and three steps of the agent
  at any point: enough to remove the directory, make it again and write a file.
* `audit`: four events, queue 2, batches of 2, two workers: the queue overflows and
  batches fill while others are being sent.
* `stream`: six messages from Envoy cover a whole exchange with trailers; four of any
  kind from any peer. Policies vary mode, posture, body shape, redaction, engines and
  order of inspectors for Envoy, and keep the blocking and one observing shape for any
  peer.
* `inspection`: families of cases, each varying one concern fully and the others little:
  two files with up to two host patterns each, two routes of any kind or three of the
  common kinds, blocks over four scopes (two files' defaults, domain, route), one engine
  block at a time over valid and invalid fields; for the engines one engine alone over its
  inputs, then sets of two and of five with errors and deadlines; documents with nested and
  cyclic fragments; bodies of five bytes with up to three overlapping matches. Constants
  of the code (`MaxLeeway`, `MinSecretLen`, ...) are small numbers, with inputs on both
  sides of them.
* `limits`: a shard of one bucket for two keys, so that every new key meets a full shard;
  a request costs two ticks' refill. A generation of one nonce, three nonces and two
  verifiers, so that generations are pushed out before the TTL ends. Keys, callers, nonces and
  verifiers are interchangeable (symmetry).
* `lifecycle`: two listeners (one may fail to bind after the other), two streams, two
  reloads out of three configurations (a shared set, separate sets, one that breaks after
  a refresher started), five key documents.

Deadlock checking is off in `reload` (with no directory the watcher waits for one),
`audit` and `lifecycle` (the process ends), `inspection` (a case is decided) and
`limits` (the clock's bound).

### Fairness

Goroutines that are ready are scheduled and armed timers fire: weak fairness on the
`Acquire` loop, reload, retirer, watcher cases, workers, flush loop and shutdown steps.
Go's `select` picks among ready cases at random, so a case that stays ready is taken.
A send returns, because the sink sets timeouts. In `Lifecycle`: `run()` and a compile in
progress go on (a key fetch has a timeout), the drain deadline expires, and a stopped
gRPC server goes down. Nothing is assumed of a peer, of the end of a stream, of the
agent, of a signal, or of an event's delivery. `Exits` takes the return of the audit
sink's `Close` for granted; `audit_panic` is the case where it does not return.
`ExtProcStream`, `RateLimit`, `ReplayGuard` and the inspection modules have no liveness
property and no fairness.

## Proofs

Eight modules prove, for every value of the constants, what the runs check on small
instances. Each proof finds an inductive invariant, shows it preserved action by action,
and derives the properties from it.

| Module | Proves about |
|---|---|
| `Loops` | a loop over a slice, as a rule to be instantiated |
| `ResourceProofs` | `AuditTrail`, `SnapshotLifecycle`, `BodyBudget` |
| `ServiceProofs` | `ExtProcStream`, `Lifecycle`, `ConfigReload` |
| `PolicyProofs`, `RoutingProofs` | `PolicyRouting` with `PolicySpec`, `EngineSpecs`, `Matchers` |
| `ContentProofs` | `ClientCert`, `Redaction` |
| `EngineProofs`, `VerdictProofs` | `EngineVerdicts`, `RateLimit`, `ReplayGuard` |

**Streams** (`ServiceProofs`), for any policies, inspector orders, bodies and stream
lengths. While a pipeline runs, what it recorded and did not audit is what the Transaction
holds; a running decision other than *allow* is the only one with findings; and a policy
that enforces holds none (`SInv`). This gives `FindingsAudited` for every peer. With Envoy,
`Obs` (nothing is rewritten before the policy is known) gives `ObserversObserve`, and
`Once` (a direction is decided, or its body is to come and `BodyPhase` stands ready) gives
`OneDecision`. For every peer, `FInv` gives `StreamTyped` and `NothingSlipsBy`
(`ForwardedIsInspected`): the body latch says that all bytes were seen whenever it is shut,
and while a body pipeline runs on a truncated body the guard stage is still ahead of it, or
it ended in a block or by failing open. That the guard comes first rests on what
`Catalog.split` selects, shown by induction over the stage list (`SplitExists`).

**Process and reloads** (`ServiceProofs`).

* `Lifecycle`, for any listeners, streams, configurations and key documents: a snapshot in
  use is open or excused, its sets have keys and, while open, refreshers; servers accept
  only between start and drain. Results: `EnginesServe`, `RefreshersHaveOwners`,
  `ReadyMeansServing`.
* `ConfigReload`, for any files, hosts and number of agent steps: `TypesHold`,
  `ServedValid`, `PendingIsTimed`, inductive together.

**Audit trail, snapshots, budget** (`ResourceProofs`).

* Audit: `AuditTypes` and `NothingUncounted`. That the sum is right needs that an event is
  in one place at a time (`Once`), so that sets grow by what is added, and that a goroutine
  starts a send only with nothing left to send (`Hands`), so that a detached batch never
  replaces another; `Ledger` is the sum over named terms.
* Snapshots, assuming the grace exceeds the load-to-acquire window (the assumption the
  comment on `Store.Pin` states). The heart is `GraceInv`: a stream inside `Pin` has less
  of its window left than its snapshot has of its grace. Results: `SnapshotsTyped`,
  `CountsExact`, `SnapshotsTracked`, `GraceCoversPin`.
* Budget, for every finite set of streams, every limit (also a disabled budget) and every
  cap. `Accounted` alone is not inductive: a swap needs to know that the loaded value lies
  below the limit, a refund that the grant covers what was stored, a truncation mark what
  is still on its way (`StreamInv`). The counter is compared with the number of pairs
  *(stream, byte)*, so one lemma (`BytesUpdate`) serves every action. Results:
  `BudgetTyped`, `BudgetAccounted`, `BudgetWithinLimit`, `BuffersCharged`,
  `TruncationMarked`, and `BudgetRefinement`: every step is a step of `AtomicBudget` or a
  stutter.

**Loops.** The configuration and the engines are mostly loops over slices. The library's
induction theorems take an operator as a parameter, which the provers cannot instantiate; a
*module* with the body of the loop and its invariant as constants can be. `Loops` states
that a fold has an accumulator after each element, that an invariant preserved by the body
holds at the end, and how loops over joined slices compose, from induction over the natural
numbers as a statement about sets, which the modules that instantiate it prove. Each loop of
the code is an instance.

**Configuration and routing** (`PolicyProofs`, `RoutingProofs`), for any directories of
files and any requests. `PolicyRouting` assumes of its constants what the decoder guarantees
(`ConfigsAssumption`: lists are sequences, a `*.` pattern has a suffix, a host has fewer
labels than the score of an exact host) and that a request is written as a normal path,
which `Spell` then spells as a client may (`RequestsAssumption`). The state invariant `PInv`
is simple: each phase holds what the function before it returned. The work is in those
functions.

* `PolicyProofs` shows what `Merge`, `sortRoutes` and `Resolve` compute (the last block that
  makes a setting wins; the sorted routes are those of the domain, in an order that respects
  `More` and is stable), then `AcceptanceSuffices`: an engine that survives the merge is an
  engine of some block, every block was validated, and each constructor accepts what its
  validation does, up to the contents of files and URLs, inline rules and repeated keys.
  `ScopesDecide`: the loop over files followed by the loop over domain and route is one
  last-writer rule, except for the stage order, which the files decide as one block.
  `ChecksRun`: the block that wrote a check and an order was validated with both, and the
  derived flags ask for the body.
* `RoutingProofs`: `OwnersServe`. The scan of `NormalizePath` forgets each spelling
  (`PathSpelled`); host scores rank patterns as the reference `Beats` does; two patterns of
  one rank that cover a host are equal, which `validateMerged` excludes across domains; so
  there is one owner, it is in the bucket the resolver looks in, and the first matching route
  in sorted order is the most specific one, the first declared among equals.

**Engines and body checks** (`ContentProofs`, `EngineProofs`, `VerdictProofs`), for any
engines, requests and bodies. `JobsAssumption` says what such a case looks like: what
decoding a configuration and a request gives (lists are sequences, scores are natural
numbers, a claim is null, empty or a value, a header is the one Envoy writes for a chain of
certificates, the detector's matches are ordered and not empty). `KeysAssumption` says that
a shared secret is not a public key. The state invariant `EVInv` is again simple: what was
asked and found is what the engine set returns for the job, phase by phase.

* `FindingsAlwaysSurface`, from the invariant of the loop of `Set.inspect`: engines are
  called in order, each once and in its phase; the worst block so far is kept whatever
  scores or fails beside it; the loop stops early only with an error.
* `XFCCReadBack`: the certificate header is read back as it was written. Scanning a piece
  that the proxy escaped or quoted copies it and ends outside quotes again (`Copies`), so
  `splitTop` splits where the proxy joined, `unquote` undoes the quoting, and the loop over
  pairs collects each field. This is where an escaped quote would desynchronise the split.
* `CallersAreEntitled`: one lemma per engine that answers for the caller, with
  `XFCCReadBack` for the certificates and `PathSpelled`'s normal form as an assumption of
  the job for signed paths.
* `RedactionIsExact`: after each match the body is rewritten up to the end of the furthest
  match so far (`Rewritten`): a match that begins inside the last one is masked from where
  that ended, one that ends inside it changes nothing.
* Rate limiter, for any cost, rate, burst and shard size: `RateIsBounded` and
  `EvictionIsHarmless`. The strengthening is that a clock reading waiting for the mutex is
  not in the future, or a refill would take a bucket past the clock.
* Replay cache, for any window, TTL and capacity. The invariant says where the last
  acceptance of a nonce is recorded (the current generation until the first rotation, the
  previous one until the second) and in which span its timestamp is fresh. Results:
  `ReplaysAreApart`, `ReplayTakesADelay`.

The prover translates the whole context of a leaf before it calls a solver, which decides
how the proofs are cut into modules, why `EngineVerdicts` takes the GraphQL walk as a
constant (`QueryBlocks`, given its value by the run's configuration), and why many leaves
name Zenon, which needs no such translation.

Only model-checked:

* liveness (`AcquireLockFree`, `ReplacedIsClosed`, `Converges`, `SettledUnlessStuck`,
  `Exits`), which TLAPS does not prove under fairness;
* `LimitsBindExpansion`: it is about a recursive walk over documents, and what a recursion
  over such data computes is beyond the provers. It is the only invariant of the runs
  without a theorem.

## Observed and not stated as a run

* The wait for a pinned snapshot is capped, although the comments at `store.go:41` and
  `processor.go:143` say its engines are never closed under it; `CloseOnlyDrainedOrCapped` has the cap.
* A redaction that lengthens a body is not charged to the budget
  (`Transaction.MutateBody`); `ResidentIsCharged` excludes redacted buffers.
* A finding the prelude records in detect or shadow mode (host mismatch) is reset by the
  header pipeline's `Run` and not audited; `InspectFindingsAudited` speaks of the inspect
  pipelines.
* A policy that fails closed after recording findings audits the findings and not the
  block, and fails closed in detect and shadow mode too.
* Request headers that are repeated before the request is decided resolve the policy
  again (`processor.go:264`); Envoy sends them once. Taken up after a response has been
  inspected they find its body latch shut, and the end of that request passes without a
  body pipeline; `ForwardedIsInspected` therefore speaks of peers that send the request
  first, which every HTTP exchange does. The proof attempt found this case.
* An event that passes `Export`'s first select just before `Close` can be queued after the
  workers have left; it then stays queued, uncounted.
* Under a saturated shard the rate limiter grants without storing (`ratelimit.go:199`), and
  a caller with an old clock reading after an eviction refills from that reading
  (`ratelimit.go:176`): `GrantsBounded` counts from a bucket's birth.
* The nonce TTL defaults to twice the window (`docs/CONFIG-REFERENCE.md:608` and
  `docs/ENGINES.md:193` say the window). A signature lives up to a second longer, because
  freshness is in whole seconds; `AcceptedOnce` states the exact margin. A promoted nonce
  enters a full generation, so a generation may exceed its bound.
* A phase of the engine set that blocks or fails leaves its anomaly score out of the
  request's.
* A redacted card keeps its last digits also where another redacted match covers them.
* Validation lets two API keys with the same value pass; the engine's constructor refuses
  them, and the reload fails; `AcceptedBuilds` excepts the case.
* `/readyz` keeps answering 200 while the process drains. A reload in progress at shutdown
  may install a snapshot after the active one was closed; the exit ends its refreshers.

## Not modelled

* Header pre-checks, decompression, the rules of Coraza, the schema check of OpenAPI and
  the sensitive-data patterns: each compares content with a rule or
  calls a library, and the control around them is modelled with their result as a choice.
* Cryptography, YAML decoding, regular expressions, TLS, DNS and the readers of feeds and
  the country database: libraries and I/O.
* Audit sampling, `MultiExporter`, the schema set-up of ClickHouse, the OTLP sinks, metrics,
  logging, request ids, the HTTP endpoints and the command-line and file configuration of
  the process: no state another part depends on.
* Shards of the rate limiter and the replay cache beyond one: they share nothing.
