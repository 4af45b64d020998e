# Formal models of cloudarchive

This directory holds TLA+ models of the Gravwell cloud-archive service.
TLC model-checks them and TLAPS proves theorems about them.
Each module is written from the Go sources under `src/`. `PROJECT.json` maps every
definition that models code to the lines it translates.

## The system

cloudarchive receives shards from Gravwell indexers, stores them and returns them on request.
Each indexer also keeps a *tag dictionary*, a bijection between tag names and 16-bit
tag ids, which the server keeps in line with the indexer.

| Part | Source | What it does |
|---|---|---|
| TagMan (tag dictionary) | `src/unnamed/part_010` | In-memory `tags`/`tagKeys` maps plus an append-only `tags.dat` (`name:id` lines). It is opened under an exclusive `flock`. Operations: `New`/`loadTags`, `AddTag`, `GetAndPopulate`, `ImportTags`, `Merge`, `ResetOverride`, `EnsureTag`, `Close`. |
| Tag-manager registry | `src/pkg/tags/manager.go` | A reference-counted map from a tags.dat path to an open TagMan (`GetTagMan`, `ReleaseTagMan`, `CloseTagSets`). |
| File lock | `src/pkg/flock/flock.go` | `fcntl` write lock on tags.dat. |
| Filesystem backend | `src/unnamed/part_005` | `UnpackShard`, `PackShard`, `GetTags`, `SyncTags`, `HandleTagUpdate`. Each tag operation opens the dictionary through the registry and calls `Merge` or `TagSet`. |
| FTP backend | `src/pkg/flock/flock_test.go` (ftpstore) | Like the filesystem backend, but tags.dat is cached locally: it is fetched before and pushed after every tag change. |
| Upload tracker | `src/unnamed/part_009` | The set of shard ids in flight, so that two transfers of one shard exclude each other. |
| Shard packer / unpacker | `src/pkg/shardpacker` | A tar stream of the shard's files plus an optional tags update. The unpacker hands each file and the tags to the backend. |
| Shard helpers | `src/pkg/util/shard.go` | Shard naming and time ranges, and feeding a shard directory to the packer. |
| Idle timeouts | `src/pkg/webserver/readerWriter.go` | A timer goroutine that kills a stalled transfer. |
| Webserver lifecycle | `src/pkg/webserver/auth.go` 245-416, `src/server/server.go` | `NewWebserver`, `Init` (listen), `Run` (start the serving goroutine), the routine around `http.Server.Serve`, and `Close` with its 500 ms timer; server main closes on SIGINT and exits. |
| HTTP layer, auth, client, config, tools | `part_011`–`part_013`, `src/pkg/client`, `part_000`, `part_004`, … | Routing, JWT/bcrypt, the client library and start-up. |

This is how the parts interact for tags:
- An upload (`UnpackShard`) may carry a tags update. The unpacker calls `HandleTagUpdate`, which takes the registry's TagMan for that indexer and calls `Merge`.
- `SyncTags` does the same for an explicit sync.
- `GetTags` returns `TagSet`.
- The registry closes the TagMan when the last handle is released.

Several HTTP requests may therefore work on one dictionary at once. They are serialised by TagMan's mutex, and tags.dat is protected across processes by the flock.

This is how the parts interact for shards:
- A push: the client's `PushShard` packs the shard directory (packer) into a pipe that its request goroutine streams to the server. The server's `shardPushHandler` wraps the body in the idle-timeout reader and calls `UnpackShard`. That call claims the shard in the upload tracker, picks a free directory name, and unpacks into it. It removes the directory on error.
- A pull: `shardPullHandler` runs `PackShard` on one goroutine (the packer's producer) and copies the pipe into the response through the idle-timeout writer on another. The client's `PullShard` unpacks the body.
- All handlers run on goroutines of the webserver's `http.Server`; closing the webserver closes only its listener.

## Runs

PROJECT.json lists twelve runs: eight that pass and four that exhibit the most consequential findings (`store_suffixed`, `store_crash`, `registry_close_fault`, `push_late_hijack`). The tables below also list, in parentheses and with a star, further configurations kept beside them: each reproduces another finding or checks a property that a listed run also covers. These are `tlc -config <cfg> <MC module>` away, and PROJECT.json's hazards name them in their notes. The TagMan server properties (`TagBijection`, `FileMirrorsMemory`) are checked in `registry_server`, where the handlers interleave their Merges; `store_server` is `store_restart` without restarts, plus `NoTornShard`, which `ShardStoreProofs` proves.

## Modules

The modules are layered:

| Module | Extends | Models |
|---|---|---|
| `TagMan` | — | the tag dictionary |
| `TagRegistry` | `TagMan` | the registry and the tag handlers that share one dictionary |
| `ShardCodec` | — | the packer, the unpacker, and the producer of a shard directory |
| `ShardPush` | `ShardCodec` | a push, client and server |
| `ShardPull` | `ShardCodec` | a pull, server and client |
| `ShardStore` | — | the upload tracker and the shard directories under concurrent transfers |
| `WebserverLife` | — | the webserver's start, serving routine and Close, with its two callers |

Each has an `MC_*.tla` that adds the model values. `HandleCount.tla` is the abstract specification the registry refines. The proofs are in `TagManProofs.tla`, `TagManSafetyProofs.tla`, `TagRegistryProofs.tla`, `ShardCodecProofs.tla`, `RoundTripProofs.tla`, `PushProofs.tla`, `PullProofs.tla` and `ShardStoreProofs.tla`.


### `TagMan.tla`: the tag dictionary (modelled)

**State.**
- `exists` and `file` are tags.dat: whether it exists, and its sequence of `<<name, id>>` lines.
- `active`, `tags`, `tagKeys` and `nextTag` are the open instance's fields. The Go maps are total functions with the sentinels `NoTag` / `NoName` for "absent".
- `op` and `pending` are the list method in progress and its remaining elements.

Names are a small set of model values. They contain the reserved `DefaultTagName` (id 0) and `GravwellTagName` (id `MaxTag`, which stands for 0xFFFF). `BadNames` stand for names `parseLine` rejects.

**Actions.**
- `NewCreate` and `NewOpen` model `New`: the create path seeds the reserved pairs; the open path runs `loadTags`, with all its checks, including the `findNextAvailableTag` failure.
- `AddTag`, `GetAndPopulate`, `EnsureTag` and `Close` each have one action.
- `Crash` is a process death: it keeps the file and drops the memory and the lock.
- `ImportTags`, `Merge` and `ResetOverride` hold the mutex across a loop. Each is a start action (`ImportTags`, `Merge`, `ResetOverride`) plus one step per list element (`ImportStep`, `MergeStep`, `ResetStep`). This lets a crash or `EnsureTag`, which takes no mutex, fall between elements.

**Faithfulness notes.**
- Every write can fail when `WriteFaults` is TRUE: `WritesDone(n)` is the number of writes that succeeded. The maps are changed before the write, exactly as the code does.
- `nextTag` is a `uint16`, so it wraps modulo `MaxTag+1`.

**Specifications.**
- `Spec` allows every exported method.
- `ServerSpec` allows only what the server calls: `New`, `Merge`, `Close` and crashes. `TagSet` is read-only.

`MC_TagMan.tla` instantiates it with two names, one bad name and `MaxTag = 3`, so ids 1 and 2 are allocatable and a full dictionary and the `nextTag` wrap are both reachable. Lists have up to 2 elements, so a list can repeat a name or an id. The names are symmetric (`Permutations`), which is sound because no definition distinguishes `a` from `b`.

`TagManProofs.tla` holds the proofs (see below).

### TagMan: properties and runs

| Run | Cfg | Expect | Checks |
|---|---|---|---|
| tagman_api | TagManAPI.cfg | pass (≈160k states) | `TypeOK`, `ReservedIntact`: an active instance always maps the default and gravwell names to their ids, across wrap, ResetOverride and crashes. `AppendOnly`: outside ResetOverride no step ever changes or removes an existing name→id mapping. |
| (tagman_server)* | TagManServer.cfg | pass | `TagBijection`: `tags` and `tagKeys` are inverse. `FileMirrorsMemory`: reloading tags.dat gives exactly the open maps at every step, Merge's loop included, so what a client was told survives a restart. |
| (tagman_reset_bijection)* | TagManResetBijection.cfg | violation of `TagBijection` | `ResetOverride` stores pairs unchecked. |
| (tagman_ensure_durable)* | TagManEnsureTag.cfg | violation of `FileMirrorsMemory` | `EnsureTag` changes memory only. |
| (tagman_full_reopen)* | TagManFullReopen.cfg | violation of `Reopenable` | `Merge` fills every id, then `loadTags` refuses the file. |
| (tagman_fault_reserved)* | TagManFaultReserved.cfg | violation of `ReservedIntact` | A failed truncate in `ResetOverride` leaves empty maps. |
| (tagman_fault_durable)* | TagManFaultDurable.cfg | violation of `FileMirrorsMemory` | A failed write in `assignTag` leaves memory ahead of the file. |

The violations are findings about the code; PROJECT.json's `findings` gives each one with its line.

The two passing runs have no write faults. With faults, the properties fail as the fault runs show, and that failure is the finding.

Every property of a passing run has a mutant in PROJECT.json that TLC must catch. The mutants are: the list loop running past its end, `allocateTag` without its rescan, `ResetOverride` writing reserved names twice, and `Merge` checking only the id or skipping the already-present case.

TagMan assumes no fairness: every property of its runs is a safety property, and deadlock checking is off because the dictionary may rightly stay closed forever.

### TagMan: proofs (`TagManProofs.tla`, checked by `tlapm`)

- `TypeCorrect`: `Spec => []TypeOK` for all constants satisfying `TagManAssumptions`, i.e. for every finite name set and every `MaxTag`, and not just the model's. It rests on:
  - lemmas on the helpers: `findNextAvailableTag` returns an id in `0..MaxTag-1` (through `MinInSet`, proved with `WellFoundedInduction!WFMin`); `AppendLine`, `Continue` and the seed prefix preserve the types;
  - `TypeStep`, with one case per action.
- `ServerBijection`: `ServerSpec => []TagBijection`. The bijection alone is not inductive: the steps need the types of the maps and of `pending`. So the inductive invariant is `IInv == TypeOK /\ TagBijection`.
  - In the `New` case, `loadTags`' duplicate checks make the file's pairs `Consistent`, so the loaded maps are inverse (`LoadedConsistent`).
  - In the `MergeStep` case, the pair is either refused by `checkTagSet`, already present, or new in both maps.
  - Close and Crash empty the maps.

`TagManSafetyProofs.tla` proves the other two properties of tagman_api:
- `ReservedHolds`: `ASSUME ~WriteFaults PROVE Spec => []ReservedIntact`.
  - `ReservedIntact` alone is not inductive. During a `Merge` with a reset list, `ResetOverride` empties the maps, and the loop's first steps must put the reserved pairs back.
  - So the inductive invariant `RInv == TypeOK /\ ReservedIntact /\ ResetChecked` adds `ResetChecked`: while a reset is in progress, its pending list passed `checkTagSet`. That list therefore starts with the two reserved pairs and repeats neither of them later.
  - Lemmas: `FreeSlot` shows the allocator never returns a reserved id. `ResetHead` and `CheckTail` cover the reset list.
  - The hypothesis `~WriteFaults` is needed. When a truncate fails, the maps are left empty, as the finding of tagman_fault_reserved shows.
- `AppendOnlyHolds`: `Spec => AppendOnly`, **with** write faults allowed. This is stronger than the run, which has none. The step lemma `KeptStep` shows that every action other than the reset step appends to `file` and keeps every defined entry of both maps.

- `ServerFileMirrors`: `ASSUME ~WriteFaults PROVE ServerSpec => []FileMirrorsMemory`, for the operations the HTTP server reaches.
  - The inductive invariant is `MInv == TypeOK /\ FileMirrorsMemory`. The mirror itself is inductive once the file is typed: every server step either leaves the file and the maps alone, empties the maps, loads them from the file, or adds one pair to both.
  - In the `MergeStep` case, a pair absent from both maps is absent from the file too (`AbsentFromPairs`). So one more line keeps the lines distinct (`DistinctAppend`). It adds exactly that mapping to the maps `loadTags` would build (`AddPairMaps`, whose proof compares the `CHOOSE`s of two equivalent predicates).
  - `~WriteFaults` is a real hypothesis: a failed write in `assignTag` leaves memory ahead of the file (tagman_fault_durable). So is the restriction to the server's operations: `EnsureTag` changes memory only (tagman_ensure_durable).

Only TLC checks liveness and anything using `ENABLED`, which are beyond TLAPS.


### `TagRegistry.tla`: the registry composed with TagMan (modelled)

It extends `TagMan`, and its registry functions drive TagMan's own actions (`NewOpen`, `Merge` with its `MergeStep`s, `Close`).

**State.**
- `mgrOpen` says whether `tagSets` is non-nil.
- `present` and `handles` are the map entry of one indexer key.
- `pc[r]` is where each request is in its handler (GetTags, SyncTags, HandleTagUpdate).
- `merger` is the request whose `Merge` holds the TagMan mutex.

One key is enough: keys are independent except for `CloseTagSets`.

**Actions.**
- `GetTagMan`, `ReleaseTagMan` and `CloseTagSets` are each one atomic step under the registry mutex.
- `MergeCall`, `MergeLoop` and `MergeReturn` are the handler's `Merge`.
- `CloseLast` is the last release, which calls `TagMan.Close`. With `CloseFaults`, Close may fail.
- `Restart` (process death) is in `RegNext`. `FullSpec` adds `CloseTagSets`.

**Fairness.** Handler steps are weakly fair. `MergeCall` is strongly fair because `sync.Mutex` hands the lock to a waiter that has waited over 1 ms.

**Abstract specification.** `HandleCount.tla` states what the registry promises its callers (spec 4.4). `held` is the set of callers that hold a handle, and `open` says whether the dictionary is open.
- `Acquire` opens the dictionary.
- `Release` leaves it open exactly while someone still holds it.
- `Reset` is a process start.

`TagRegistry` defines `HC == INSTANCE HandleCount WITH held <- Holders, open <- active`. The refinement `RegSpec => HC!HCSpec` is proved by TLAPS (`RegistryRefinesHandleCount`, below) for every set of requests; it is not a TLC run, since on the instance it would only restate `HandlesMatchHolders` and `NoOrphanInstance`. A `GetTagMan` that fails, and every `Merge` step, is a stutter of the abstract spec.

**Instance.** `MC_TagRegistry` uses two requests over TagMan's instance.

| Run | Expect | Checks |
|---|---|---|
| registry_server | pass | `HandlesMatchHolders`: the count equals the handlers between Get and Release. `HolderSeesActive`: a holder never sees a closed dictionary. `NoOrphanInstance`: the dictionary is open only while someone holds it. `RequestsComplete`: every handler returns (liveness). `TagBijection` and `FileMirrorsMemory`: TagMan's own properties hold under the handlers. |
| registry_close_fault | violation of `HolderSeesActive` | When the last `Close` fails, `ReleaseTagMan` forgets to store the decrement (manager.go:104). The next `GetTagMan` hands out the closed instance. |
| (registry_shutdown)* | violation of `NoOrphanInstance` | `CloseTagSets` drops the map although handles are open (manager.go:56). |

### `ShardCodec.tla`: packer, unpacker and producer (modelled)

**Abstraction.**
- A tar entry is a file name `<<stem, ext>>` plus its kind: "whole", "torn" or "nonreg".
- The shard's files on disk are "ok", "absent", "bad" or "short".
- The io.Pipe holds at most `PipeCap` entries.

**Producer.** `ProduceStep` is `AddShardFilesToPacker` with `AddTags`/`AddWellTags` first when `SendTags` is set, followed by `Close` or `CloseWithError`. `RawWrite` and `RawEnd` are an arbitrary client.

**Consumer.** `UnpackStep` is one iteration of `Unpack`'s loop. It covers `FilenameToType`, `hitType`, `updateTags`, the handler call, and `allFilesHit` at EOF. `CallerCancel` is the context.

**Fairness.** Each goroutine is weakly fair.

| Run | Expect | Checks |
|---|---|---|
| codec_client | pass | `RoundTrip`: when both ends report success, the stored files are exactly the readable source files, and the tags were merged once. `Terminates`: both ends finish on every error path. |
| codec_raw | pass | `UnpackValid`: whatever a client sends, an accepted shard has a store file, no torn file, and one accelerator form. |
| (codec_dup_tags)* | violation of `AtMostOneTagUpdate` | `updateTags` merges before `hitType`, so a second tags entry is merged again (unpacker.go:125). |

### `ShardPush.tla` and `ShardPull.tla`: a transfer end to end (modelled)

Both extend `ShardCodec`: the pipe's entries travel over a connection `conn`.

**ShardPush** composes these goroutines:
- the client's `PushShard` select loop, with its pack goroutine and request goroutine;
- its tick timer;
- `shardPushHandler` with the idle-timeout reader and its timer goroutine;
- `UnpackShard`.

**ShardPull** composes:
- `shardPullHandler`, with its adder goroutine (`PackShard`, the producer) and its copier goroutine (the idle-timeout writer);
- the select on both, and the handler's final `WriteHeader`;
- the client's `PullShard`, with `readTicker` and `asyncUnpackShard` (the consumer).

The first body write sends status 200. A body cut short is detected by the client only once the body has ended.

**Time is abstract.** An armed timer may fire at any moment, and a timer reset only changes when it fires, not whether it can. The client may vanish without closing the connection.

**Fairness.** Every goroutine is weakly fair, and so is the server's armed idle timer. It is never stopped while a transfer is stalled, so it does fire. The client's timers, its cancel and its vanishing are not forced.

| Run | Expect | Checks |
|---|---|---|
| push_client | pass | `PushAgree`: a push reported good was kept with exactly the source files. `TransferEnds`: the handler returns with the upload id released, and PushShard returns unless the client vanished. |
| push_late_hijack | violation of `NoLateHijack` | The reader's `Close` only stops the timer. A `timeout()` already running calls `Hijack` after the handler returned (readerWriter.go:70). |
| (push_committed_reported)* | violation of `CommittedReported` | The client's tick timer fires after the server has taken the whole stream: the shard is stored but the client reports failure (client.go:362). |
| pull_server | pass | `PullAgree`: a pull reported good gives exactly the stored files, even when the stream was cut after the 200 header. `PullEnds`: the handler and PullShard both return. |
| (pull_late_hijack)* | violation of `PullNoLateHijack` | The same late `Hijack` in the writer (readerWriter.go:132). |

Bounds: one shard with every combination of disk states in which at most one file is faulty, and `PipeCap = 1`. This keeps the writer ahead of the reader, or blocked, at every step.

### `ShardStore.tla`: upload tracker and shard directories (modelled)

**State.**
- `tracker` is the set of claimed shard names.
- `dirs[d]` is the state of each candidate directory: "absent", "empty", "partial" or "complete".
- Each request `r` (a push or a pull of a name) has `pc[r]`, the collision index `k[r]`, and `target[r]`.
- A name is a sequence: `<<b, 1>>` is "b.1". `Candidate(nm, k)` is `fmt.Sprintf("%s.%d")`.

**Actions.**
- `EnterUpload` and `ExitUpload` are the tracker.
- `StatCandidate` is one iteration of the `for i := 1; i < 10000` loop. `MaxSuffix` stands for 10000, and the last candidate is taken without a Stat.
- `MkdirAll` may fail.
- `WriteFiles` and `UnpackEnd` are the unpack: it either completes, or fails and calls `os.RemoveAll`.
- `ReadShard` is `PackShard`.
- `Crash` restarts the process: the tracker is lost and the directories stay.

**Fairness.** Each handler is weakly fair. It runs on its own goroutine, and the unpack is abstracted to a step that ends.

**Deadlock.** Checking is off because a finite set of requests is served and then nothing is left to do.

| Run | Expect | Checks |
|---|---|---|
| (store_server)* | pass (ShardStoreServer.cfg) | `ExclusiveDir`: no two transfers work in one directory. `NoTornShard`: an empty or partial directory belongs to a push still at work. `NoOverwrite` (action property): a complete directory stays complete. `TrackerDrains`: every handler returns and the tracker empties. |
| store_restart | pass | `ExclusiveDir`, `NoOverwrite`, `TrackerDrains` with restarts. `NoTornShard` fails with restarts, see store_crash. |
| store_suffixed | violation of `ExclusiveDir` | The tracker claims the requested name "b", but the loop writes into "b.1", which another client pushes by name (part_005:176). |
| (store_exhaust)* | violation of `NoOverwrite` | When every candidate exists, the loop ends on the last one without a check and overwrites it. The spec says the push fails instead (part_005:172). |
| store_crash | violation of `NoTornShard` | A restart between `MkdirAll` and the end of the unpack leaves a partial directory (part_005:178). |

Bounds: three or four requests of one base name, with `MaxSuffix` 2 or 4. This is enough for the loop to pass the base, to collide with a suffixed name, and to run out.

### `WebserverLife.tla`: the webserver's life (modelled)

**State.**
- `mpc` is the caller: server main, or a caller that goes on after `Close` when `Harness` is TRUE (the client tests).
- `initialized`, `running` and `lst` are the Webserver's fields and the listening socket.
- `rpc`, `serveErr` and `exitMsg` are the serving routine and the `exitError` channel.
- `sawRunning`, `lerr` and `cres` record what `Close` saw and returns.
- `conns[c]` is each accepted connection's handler.

**Actions.**
- `NewWebserver`, `Init` and `Run` (the caller), then `Signal` (SIGINT, or the test's call of Close).
- `CloseCheck` and `CloseWait` are `Close`: the unsynchronised read of `w.running`, closing the listener, then the select on `exitError` and the 500 ms timer.
- `MainReturn`: main returns and the process ends (`Alive` becomes false, so every goroutine stops), or the test goes on.
- The routine is `RoutineStart`, then `ServeClosed` or `ServeFail` (an Accept error; Serve closes its listener), then `RoutineSend` and `RoutineEnd`.
- `Accept` and `HandlerDone` are the connections.

**Fairness.** Goroutines are weakly fair. `ServeFail` is not fair: a fault is never forced. `Signal` and `Accept` are not fair either.

| Run | Expect | Checks |
|---|---|---|
| life_harness | pass (674 states) | `RoutineStops`: once `Close` has seen the routine running, the routine ends, even if `Close` timed out first or Serve had failed. |
| (life_listener_leak)* | violation of `ListenerReleased` | `Close` before the routine sets `w.running` returns nil and leaves the listener open and served (auth.go:389). |
| (life_exit_inflight)* | violation of `HandlersDrained` | `Close` only closes the listener. main returns, and handlers die mid-transfer: the crash of store_crash, in the ordinary shutdown path (server.go:114). |
| (life_lost_serve_error)* | violation of `CloseReportsServeError` | A Serve error reaches `Close`'s result only when closing the listener also failed (auth.go:411). |

## Mutants

Every property of every passing run has a mutant in PROJECT.json, and TLC must find that property violated under the run's own configuration. A mutant is a plausible bug in the mapped definition:
- a dropped guard (`EnterUploadNoCheck`, `ClientUnpackLenient`);
- a missing cleanup (`UnpackEndNoRemove`, `UnpackEndNoExit`, `SrvHijackNoClose`, `SrvSelectNoClose`);
- a missing wait (`PackReportNoWait`);
- a loop that never advances (`StatCandidateBaseOnly`);
- a Close that keeps the listener (`CloseCheckKeepListener`).

## Proofs

The proofs are checked by `tlapm`.

**TagMan** (`TagManProofs.tla`, `TagManSafetyProofs.tla`): see above.

**Registry** (`TagRegistryProofs.tla`). These hold for every finite set of requests.
- The inductive invariant is `RegInv`. It says that every `pc` is a handler place and the manager is open. It also says that `handles = Cardinality(Holders)`, `present = (Holders # {})` and `active = present`.
  - The last conjunct is what `GetTagMan` needs. With no entry, `New` must find the dictionary closed. With an entry, the handle it returns is open.
  - The step proof has one lemma per handler action. `ReleaseStep` uses `FS_RemoveElement` for the count; `GetStep` uses `FS_AddElement`.
- From `RegInv`, under `~CloseFaults`, the following are proved:
  - `HandlesMatchHoldersHolds`, `HolderSeesActiveHolds` and `NoOrphanInstanceHolds`;
  - `RegTypeCorrect`, with TagMan's `IInv`;
  - `RegistryRefinesHandleCount`: `RegSpec => HC!HCSpec`.
- The refinement proof works in two steps:
  - `HoldersMove` shows that each step adds one request to the holders, removes one, empties them, or leaves them alone;
  - `HandleCountStep` then uses `active = (Holders # {})` on both sides of the step to match an `Acquire`, a `Release`, a `Reset` or a stutter.
- `~CloseFaults` is a real hypothesis. When the last `Close` fails, the entry keeps a closed instance, and registry_close_fault shows a holder then seeing it.
- `RegistryBijection` (`RegSpec => []TagBijection`) needs no hypothesis. `RegStepIsServerStep` shows that every registry step is a TagMan `ServerNext` step or a stutter of it. `TagManProofs`' step lemma then applies.
- `RegistryFileMirrors` (`ASSUME ~WriteFaults PROVE RegSpec => []FileMirrorsMemory`) follows the same way from `MirrorStep`. This is the property registry_server checks.

**Codec** (`ShardCodecProofs.tla`). `UnpackValidHolds` proves `CodecSpec => []UnpackValid` for every client, every pipe depth and every constant value.
- The inductive invariant `UInv` covers an unpack that has not failed. It says that every stored file is whole, and that a shard file type is stored exactly when it is in `uhits`. It also says the two accelerator layouts never both appear, and that `ok` implies `allFilesHit(uhits, FALSE)`.
- The key lemma is `FilepathInjective`: distinct file types have distinct paths. It is proved on the extension and the stem separately.

**Round trip** (`RoundTripProofs.tla`). `RoundTripHolds` proves `CodecSpec => []RoundTrip` for every shard id, pipe depth, `SendTags` and `MergeFaults`.
- `RoundTrip` alone is not inductive. It speaks only of the final state, and the state before it says nothing of the files in flight.
- The inductive invariant `RTInv` is `DiskShape /\ (Gone \/ Core)`.
  - `DiskShape`: the source directory never changes, and files outside the accelerator layout are absent.
  - `Gone`: transfers the round trip says nothing of. These are an arbitrary client, a producer that closed the pipe with an error, and an Unpack that failed. All three stay so (`GoneStep`).
  - `Core`: for a transfer that is not gone:
    - the types the producer has written so far (`WrittenAt(ppc)`, by program order `Pos`/`TPos`) are `hits`;
    - the same set splits disjointly into the types Unpack has hit and those still in the pipe;
    - the pipe holds whole entries with distinct names;
    - `stored` is the paths of the hit types;
    - `merges` counts the tags update once.
- Proof steps:
  - `ProduceCore`: each producer step appends one entry (`AppendPipe`) or passes a type the source lacks.
  - `UnpackRead`: each read takes the head of the pipe (`TailPipe`). The entry is a type not yet hit, and its name identifies it (`NameType`). For a shard file, `FilepathInjective` shows that `HandleFile` replaces no earlier file.
  - At the end: when both sides report success the pipe is empty and the producer is done. So `uhits` is everything written, which `SentDone` shows is `SentTypes` plus the tags update exactly when the client sends tags.
- `RTInv` was checked with TLC first on these instances: `PipeCap` 1 to 3, with and without tags and merge faults.
- `CodecTypeCorrect`: `CodecSpec => []CodecTypeOK`. Every step of the producer (`ProduceType`, through the shape lemma `ProdShape`) and of Unpack (`UnpackType`) keeps the codec's variables typed. `CodecTypeFrame` covers the steps of the transfers that only close the pipe or fail a read.

**Push** (`PushProofs.tla`). These hold for every shard id, pipe depth and fault setting.
- `PushAgreeHolds`: `PushSpec => []PushAgree`. When `PushShard` returns without error, the server stored exactly the shard's files, each whole.
  - The inductive invariant is `PushInv == RTInv /\ PresSettled /\ RawQuiet /\ Chain`. `Chain` follows the success back through the client's select, the request's 200 and the server's commit to Unpack's success:
    - a taken request result means the packer reported good;
    - a clean return means the packer and the request both reported good;
    - a good request means a 200;
    - a 200 means a commit;
    - a commit means Unpack's success.
  - With these, `Delivered` turns `RTInv` into the stored set.
  - `RTInv` survives the push's own steps:
    - `CancelKeeps`: a client timeout closes the pipe with an error;
    - `ReadFailKeeps`: a read on a closed connection fails;
    - `FinishKeeps`: `UnpackShard` removes the directory on an error.
  - `PresSettled` and `RawQuiet` say that the packer's report comes only after its last write and that a raw client reports nothing.
- `PushTypeCorrect`: `PushSpec => []PushTypeOK`, with one case per client and server action (`PushLocalStep`) and the codec's type lemma for the codec steps (`PushCodecTypeStep`).

**Pull** (`PullProofs.tla`). These hold for every shard id, pipe depth and fault setting.
- `PullAgreeHolds`: `PullSpec => []PullAgree`. The inductive invariant is `PullInv == RTInv /\ PresSettled /\ RawQuiet /\ PullChain`, and `PullChain` says:
  - Unpack succeeds only on a stream the packer closed cleanly (the tar trailer);
  - the client reports good only when Unpack did.
  - The server's select may close the pipe with an error (`CancelKeeps`), and a read on a dead connection fails (`ReadFailKeeps`).
- `PullTypeCorrect`: `PullSpec => []PullTypeOK`, split the same way as the push.
- `PushInv` and `PullInv` were checked with TLC first, as invariants of the push_client and pull_server instances, on these variants:
  - with and without tags;
  - a raw client;
  - `PipeCap` 2;
  - merge faults.

**ShardStore** (`ShardStoreProofs.tla`). These hold for every request set and every `MaxSuffix`, under `ShardStoreAssumptions`:
- `StoreTypeCorrect`: `StoreSpec => []StoreTypeOK`. The loop index stays in `0..MaxSuffix-1`, and every target is a candidate of its own name.
- `ExclusiveDirHolds`: under `UnambiguousNames` (no candidate of one requested name is a candidate of another; indexers name shards without dots), `StoreSpec => []ExclusiveDir`.
  - `ExclusiveDir` alone is not inductive. The inductive invariant `ExclInv` adds four things:
    - `ClaimsTracked`: every transfer past `EnterUpload` has its name in the tracker;
    - `OneHolder`: at most one such transfer per name;
    - `WriteTarget`: a push past the loop works in the candidate its loop stopped at, `Candidate(name, k)`;
    - `OnPath`: pushes and pulls stay on their own paths through the handlers.
  - Lemmas `CandidateFree` and `DistinctTargets` turn `UnambiguousNames` into "different names never share a directory".
  - A restart empties the tracker and ends every transfer, so it preserves `ExclInv`.
- `NoTornShardHolds`: under `UnambiguousNames` and `~Crashes`, `StoreSpec => []NoTornShard`.
  - The inductive invariant is `ExclInv /\ TornFree`. `TornInv` says a torn directory is the target of a push still writing it. `MkdirClean` says a push about to `MkdirAll` never targets a torn directory; it needs exclusivity.
  - With crashes the theorem is false, as store_crash shows, so `~Crashes` is a real hypothesis and not a convenience.
- `NoOverwriteHolds`: `StoreSpec => NoOverwrite` (a complete directory stays complete), restarts included, under three hypotheses:
  - `UnambiguousNames`;
  - `NamesOver(C)`: names are sequences of path components;
  - `FewPushes`: no name is pushed more than `MaxSuffix` times. The code has no such bound (10000 candidates), and store_exhaust shows the overwrite when it is exceeded.
  - The inductive invariant `OInv` adds four conjuncts to `ExclInv`:
    - `DirsOwned`: every directory on disk is the pick of some push (`Placed`, which never changes afterwards);
    - `LoopSeen`: every candidate a loop has passed over is another push's pick;
    - `IdleFresh`;
    - `NoClobber`: no push between its loop and the end of its unpack works in a complete directory.
  - The central lemma is `LastCandidateFree`. A loop that reaches its last candidate without a Stat would, if that candidate were on disk, have `MaxSuffix` other pushes of its name with pairwise different picks (`CandidateInjective`). Together with itself that is an injection of `0..MaxSuffix` into the name's pushes (`FS_Injection`), one more than `FewPushes` allows.
  - `OInv` was checked with TLC first with 3 pushes and `MaxSuffix` 3 and 4; with `MaxSuffix` 2 it fails, as it must.

Every inductive invariant was first checked with TLC as an invariant of the runs' instances.

## Only model-checked

These properties are checked by TLC only:
- **Liveness:** `TrackerDrains`, `RequestsComplete`, `Terminates`, `TransferEnds`, `PullEnds` and `RoutineStops`. TLAPS cannot reason about `ENABLED` and fairness.
- **Safety:** every safety property of a passing run has a theorem. The theorems carry hypotheses the runs' instances satisfy; without them the violation runs show the properties failing:
  - `~WriteFaults` for `FileMirrorsMemory`;
  - `FewPushes` and `UnambiguousNames` for `NoOverwrite`.
- **Violations:** the properties of the violation runs fail by design, and TLC's counterexamples are the evidence for the findings.

## Not modelled

- **The FTP backend** (ftpstore): the fetched-and-pushed local copy of tags.dat under a global mutex.
- **flock across processes:** it appears only as "one active TagMan".
- **Shard-id arithmetic** of `shard.go` (time ranges).
- **Authentication:** bcrypt and JWT are cryptography.
- **HTTP routing, the info handlers, the REST calls of the client, configuration parsing, usertool and testclient:** I/O and formatting with no shared state.
- **The client's pull-side timeout before the response header:** the tick timer is not armed until the header arrives, and the client's cancel context is not watched then either. This is a hazard with no property (client.go:425).
