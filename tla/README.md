# TLA+ models of zerodisk's storage clusters

This directory holds TLC-checked TLA+ models of the parts of zerodisk (0-Disk)
that route block operations to ARDB storage servers and reload cluster
configuration at run time, of the NBD server's storage cluster client, and of
the backup's block fetchers and FTP driver, and of one shard of the LBA index. It also holds the plan for the parts not yet modelled.
`PROJECT.json` lists:
- the components and their status;
- every TLC run and what it should end in;
- a mutant per checked property (a plausible bug that TLC must catch);
- the source lines every definition translates;
- the findings and the hazards.

## The system

| Part | Source | State | Operations | Interacts with |
|---|---|---|---|---|
| Server selection | `src/unnamed/part_001` 515–590 | none | `FindFirstServerIndex`; `ComputeServerIndex` (modulo, then jump consistent hash with keys x, x+1, … until the predicate accepts) | every cluster type |
| Static `Cluster` | part_001 145–380 | servers, serverCount, availableServerCount | `NewCluster` (rejects states other than Online/RIP, and clusters with no available server), `Do`, `DoFor`, `DoForAll` (groups pairs per server in an `IndexActionMap` and runs one goroutine per server; replies come back in any order) | dialer/ARDB servers |
| `UniCluster`, `ErrorCluster`, `NopCluster` | part_001 51–122, 408–505 | a server config or nothing | constant or single-server answers | — |
| `PrimaryCluster` | part_001 657–838 | servers, serverCount under an RWMutex | `Do`, `DoFor`, reloader goroutine, `Close` | config source |
| `TemplateCluster` + `storageClusterWatcher` | part_001 840–1087 | servers, serverCount under an RWMutex; the watcher's clusterID, channel and cancel | `DoFor` (`Do` is not supported), reloader goroutine over the vdisk's template reference and the watched cluster's configs, `SetClusterID`, `Close` | config source, DoFor callers |
| `TemplateCluster`, earlier version | `src/nbd/ardb/storage/cluster.go` | the same, plus the reloader's local `templateClusterID` | the same | the same |
| `ClusterClientFactory` / `ClusterClient` | `src/storagecluster/cluster.go` | config, loaded flag, the factory's request/response channels | `NewClient`, `Listen`, `ConnectionString`, SIGHUP reload, `Close` | signals, NBD server |
| Backup FTP driver | `src/nbd/ardb/backup/server_driver.go` 19–245 | knownDirs cache | `SetDedupedBlock`, `GetDedupedBlock`, `mkdirs`, `lazyStore` | FTP server |
| Backup block fetchers | server_driver.go 333–536 | cache of the inflation/deflation fetcher | `FetchBlock` converting block sizes | backup export/import |
| LBA shard | `src/unnamed/part_002` | hashes, dirty flag | `Set`, `Get`, `Write`, `shardFromBytes` | the shard store (not in `src/`), the meta cluster |

The hard behaviours are the following:
- A reloader goroutine writes `servers` under the write lock while `DoFor`
  callers hold the read lock across routing and dialling.
- Go's `sync.RWMutex` blocks new readers while a writer waits.
- `select` picks at random among the ready channels.
- Watch channels are cancelled and replaced while values may still be in them.
- `ComputeServerIndex` loops for ever when no server is operational.
- `DoForAll`'s batches return, or fail, in any order.

## Modules

- **`ServerIndex`** holds `FindFirstServerIndex` and `ComputeServerIndex` as operators over a
  predicate. The predicate answers "operational", "not operational" or an error, which is
  how the code's `(bool, error)` results stop the search.
  - The jump hash is a constant `JumpHash(key, n)`.
  - `MCJumpHash` gives it the real values for n ≤ 4 and keys 0..15, computed with the
    code's 64-bit multiply and float64 division. TLC's integers cannot hold those.
  - The endless search is unrolled for `MaxJumpRounds` rounds and then reports
    `SearchDiverges`. Eight rounds are enough to find any accepted bucket from keys 0..3
    when n ≤ 4.
- **`Cluster`** models the static cluster with one caller.
  - State: `servers`, whether `built`, the `fanout` of a `DoForAll` in progress (its
    pairs, its `IndexActionMap` per server, the servers whose batch has not returned, and
    the replies collected so far), and `lastCall`, the outcome of the last call.
  - Actions:
    - `NewCluster`, `Do` and `DoFor` are one step each.
    - `DoForAll(pairs)` covers the 0- and 1-pair shortcuts (the latter panics, see
      Findings), routing and grouping, the one-server shortcut, and starting the fan-out.
    - `BatchReturns(s)` is one per-server goroutine's result reaching the collector
      loop. An error ends the call.
    - `TakeOutcome` is the caller reading the result before its next call.
  - A dial or an action can fail on any call: `DoAtOutcome` chooses this
    nondeterministically.
- **`TemplateCluster`** models the hot-reloaded template cluster. The actors are:
  - *Config source* (modelled from how the code uses `config.Source`, which is not under
    `src/`):
    - `SetTemplateRef` sends a new reference on the vdisk channel.
    - `SetClusterConfig` changes a cluster's config and feeds it to the live watch
      channel of that cluster.
    - `CloseWatchChannel` closes a cancelled watch channel. A receive on a closed
      channel yields the zero config.
  - *Reloader*:
    - `ReceiveRef` runs `SetClusterID`. Same ID: nothing. Empty ID: cancel, keep the
      channel, then clear the servers. Otherwise the watch either fails (logged, old
      watcher kept) or succeeds with a channel that starts with the cluster's config.
    - `ReceiveConfig` is followed by `updateStorageConfig`. `ClearServers` and
      `updateStorageConfig` both wait for the readers, and the writer's wait shows up as
      `WriterWaiting`.
    - `ReloaderExit` ends the loop on `ctx.Done`.
  - *Callers*, each a goroutine in `DoFor`:
    - `CallDoFor`, then `RLock`. `RLock` includes the early `ErrClusterNotDefined`
      return and waits while a writer waits.
    - `Route` runs `ComputeServerIndex` and spins when no server is online.
    - `Dial` reads `servers[serverIndex]`, dials, and does the deferred `RUnlock`.
  - `Close` cancels the context.
  - A server config records the cluster it belongs to, standing for its address, so that
    configs of different clusters differ.
- **`TemplateClusterV0`** models the earlier template cluster, with the same actors.
  - Its reloader keeps `tid`, the local `templateClusterID`, and the channel `chan`.
    `ReceiveRef` skips a reference equal to `tid`.
  - An empty reference sets `tid` to "" and the channel to nil, and leaves the servers.
  - Any other reference starts a watch. On success that watch replaces the channel,
    and `tid` is not updated.
  - `updateStorageConfig` validates the config first. The model's configs are non-empty
    and pass.
  - Callers call `Do` (`FindFirstServerIndex`) or `DoFor` (`ComputeServerIndex`, with no
    empty-cluster guard: `objectIndex % 0` panics).
- **`PrimaryCluster`** models the hot-reloaded primary cluster (part_001 654–838).
  - Its reloader is `TemplateCluster`'s loop: the same `storageClusterWatcher`, the same
    select, and `updatePrimaryStorageConfig`, which is `updateStorageConfig` line for line.
    The module takes those steps, the config source and `Close` from `TemplateCluster`
    through `T == INSTANCE TemplateCluster`, with its variables substituted by name.
  - The primary reference always names a cluster (`NewPrimaryCluster` panics otherwise),
    so `SetPrimaryRef` only sets cluster IDs and the reloader never clears the servers.
  - Callers call `Do` (`FindFirstServerIndex`) or `DoFor` (`ComputeServerIndex`). Both
    run under the read lock, and neither has a `serverCount == 0` guard. The variable `op`
    records which one a caller is in.
  - A `DoFor` over no servers computes `objectIndex % 0`. The runtime panics and the
    process ends. The model sets the caller's pc to `"panicked"`, which releases its read
    lock during the unwind. Every action is guarded by `Alive`, so nothing moves after it.
- **`BlockFetcher`** models the backup driver's block fetchers (server_driver.go 331–536).
  - `Init` is `sizedBlockFetcher`: it picks inflation, deflation or the source itself from
    the two block sizes, and starts the chosen fetcher as its constructor does.
  - A block is abstracted to the smallest block size: a small block is a token or `Zero`
    (all zero bytes), and a big block is a function from its slots `0..Ratio-1` to those.
    Offsets count small blocks.
  - `FetchBlock(k)` is one call by the consumer (the export loop, not under `src/`), as one
    step. `k` names the source fetch within the call that fails with an error other than
    `io.EOF`; 0 means none fails.
  - The call is computed by `InflationFetch` with the recursive `Fill`, which follows the
    code's loop, gap arithmetic and early return at line 437. `DeflationFetch` uses the
    recursive `Split`, which follows the nested loops and the `cbi` counting. The state the
    code leaves behind is kept after an error as well: the inflation cache, and
    `cb`/`cbi`.
  - `InflateRef` and `DeflateRef` are the spec's conversions (4.6) written as plain
    operators; the properties compare the fetchers with them.
- **`AtomicCluster`** is an abstract specification of what a hot-reloaded cluster promises
  its `DoFor` callers.
  - A caller is `idle`, `busy` or `resolved`.
  - `Resolve` picks the server `ComputeServerIndex` gives for the servers as they are at
    that moment. `NotDefined` fails when there are none.
  - `Dial` requires the resolved server to be online in the current servers.
  - `Reload` may replace the servers with anything, but only while no caller is
    `resolved`.
  - `TemplateCluster` instantiates it as `Atomic == INSTANCE AtomicCluster WITH pc <-
    AtomicPc, target <- idx`. The mapping `AtomicPc` sends `rlock`/`route` to `busy` and
    `dial` to `resolved`, and `idx` and `obj` are used as they are.
  - `Route` is `Resolve`, the early `ErrClusterNotDefined` return of `RLock` is
    `NotDefined`, and `updateStorageConfig` and `ClearServers` are `Reload`. Every other
    step leaves the mapped state unchanged.
- **`ClusterClient`** models `src/storagecluster/cluster.go`.
  - *Factory:*
    - `NewClient` fails at once on an empty vdisk ID and otherwise sends on `requestCh`.
    - `ListenAccept` is the rendezvous on the unbuffered `requestCh` together with
      `NewClusterClient`. On success it gives the client a fresh `done` channel and starts
      its listen goroutine.
    - `ListenRespond` is the rendezvous on `responseCh`. `ListenExit` is `ctx.Done()`.
  - *Clients:*
    - A client is a record of the fields `loadConfig` writes.
    - `loadConfig` follows every early return. It clears `loaded` first and then writes
      `vdiskType`, the root string, the data strings and `numberOfServers`, and the meta
      string, in the code's order, so a failure half-way leaves part of the new config in
      the fields.
    - The three getters run under the client's mutex and differ only in the field they
      return, so `GetterStep` is one step: a lazy `loadConfig` when not loaded.
    - `Close` does not take the mutex: it sets `done` to nil.
  - *Listen goroutine* of each client:
    - `ListenerStart` registers with `signal.Notify` and enters the select, reading
      `cc.done` as it is then.
    - `ListenerSignal` and `ListenerReload` run `loadConfig` under the mutex. The select
      is then entered again and reads `cc.done` anew.
    - `ListenerExit` exits on a closed `done` or the context.
  - *Environment:* `EditConfig` rewrites the config file. `SendSighup` fills the
    capacity-1 signal channel of every listener that has called `Notify`; a full channel
    drops the signal. `CancelContext` ends the context.
  - A ghost `good` records, per client, the vdisk entry of its last successful
    `loadConfig`.
- **`FTPDriver`** models `SetDedupedBlock` of the backup FTP driver (server_driver.go
  58–184), called by the export's parallel workers (spec 4.7).
  - `mkdirs` is split into steps:
    - `MkdirsCheck` is the early `knownDirs` check.
    - `Level` is one loop iteration's `knownDirs` check.
    - `Stat` and `Mkdir` are the FTP commands. The server refuses to make an existing
      directory.
    - `RecordBegin`/`RecordEnd` is the `knownDirs` write.
  - `lazyStore` is `LStat`, which accepts any existing file, followed by
    `StoreBegin`/`StoreEnd`.
  - Paths are sequences of level names. `path.Join`/`strings.Split` become prefixes.
  - Fault model:
    - `CommandFails` is a transport error of any command, at most `MaxFaults`; a failed
      `Store` leaves a partial file.
    - `MapRace` is the Go runtime aborting the process when a worker reads or writes
      `knownDirs` while another is writing it.
- **`LBAShard`** models one shard of the LBA index (part_002) and the meta cluster's
  record of it.
  - A slot is `Nil` (the nil slice of a slot never set), `NilHash` (32 zero bytes) or a
    hash; a record is a sequence of hashes, one per `HashSize` bytes.
  - From the code: `NewShard` (`newShard`), `ShardFromBytes` (too short a record is an
    error, a `nilHash` chunk stays nil), `Set` (slot and dirty flag), `UnsetDirty`, and
    `Write` with its two loops: `FirstNonNil` is the first loop, `WriteBytes` what the
    writes send. The writer may fail on any write (at most `MaxFaults`), and `Write` then
    returns the error.
  - From spec 4.5, because the shard store is not under `src/`: `Load` (a missing record
    gives `newShard`), `Flush` of a dirty shard (PUT on success, DELETE on
    `errNilShardWrite`, dirty cleared after either, nothing changed on a writer error),
    and `Evict` of a clean shard.
  - `Get` and `Dirty` only read and are not actions.
- **`MCCluster`, `MCTemplateCluster`, `MCClusterClient`, `MCFTPDriver`, `MCTemplateClusterV0`, `MCBlockFetcher`, `MCLBAShard`, `MCPrimaryCluster` and `MCJumpHash`** give the constants their values
  for TLC.

## Runs

| Run | Config | Expect | Checks |
|---|---|---|---|
| `cluster` | `MCCluster.cfg` | pass | `TypeOK` (includes `GroupsPartitionPairs`: the `IndexActionMap`s of a fan-out hold every pair position exactly once, next to that pair's action, so the collector fills every reply slot); `RoutingTotalOnBuiltCluster`: on a built cluster `Do` always finds a server and `DoFor` never spins; `DoForAllMatchesDoFor`: `DoForAll` returns, for each pair and in pair order, the reply of the server `DoFor` would use, whatever order the batches return in |
| `template` | `MCTemplateCluster.cfg` | pass | `TypeOK` (includes that the read-lock holders are exactly the callers between `RLock` and `RUnlock`); `DialsOnlineServer`: the index a caller dials is in range and online in the servers at dial time; `WatcherFollowsReference`: once the reloader has taken in every reference and config, the watcher watches the referenced cluster unless the last watch failed; `ServersFollowWatchedCluster`: once settled, the servers are the watched cluster's current config; `AtomicClusterRefined`: the cluster implements `AtomicCluster`, so no reload (neither `updateStorageConfig` nor the clearing on detach) replaces the servers between a caller's routing and its dial |
| `template_detach_stale` | `MCTemplateClusterDetach.cfg` | violation | `DetachedHasNoServers`: after detaching, the old cluster's config comes back |
| `template_offline` | `MCTemplateClusterOffline.cfg` | violation | `DoForReturns` when a config has no online server |
| `v0_switch_back` | `MCTemplateClusterV0SwitchBack.cfg` | violation | `WatcherFollowsReference` in the earlier version: after A→B→A it stays on B |
| `fetchers` | `MCBlockFetcher.cfg` | pass | `TypeOK` (includes that deflation never returns a nil block); `InflationSound`: every filled slot holds the source block of its index and block indices increase, over any gaps; `InflationConservation`: for a source with indices 0..n the blocks returned so far are a prefix of the spec's inflation, and at `io.EOF` all of it, also after a failed fetch; `DeflationConservation`: the same for deflation, with the indices `index*Ratio+slot` |
| `fetchers_gap` | `MCBlockFetcherGap.cfg` | violation | `InflationMatchesSpec`: the spec's inflation for any source; blocks 0 and 4 at ratio 4 lose block 4 |
| `clusterclient` | `MCClusterClient.cfg` | pass | `TypeOK` (includes that a loaded client has `numberOfServers > 0`, so `ConnectionString`'s `index % numberOfServers` never panics); `LoadedConfigWhole`: whenever a client is loaded, its type, root, data and meta strings are all those of its last successful `loadConfig`, although failed reloads leave parts of newer configs in the fields; `NewClientReturns`: every `NewClient` returns, with a client or an error, unless the context ends before `Listen` takes the request |
| `ftp_concurrent_stores` | `MCFTPDriver.cfg` | violation | `ConcurrentStoresDoNotInterfere`: a `SetDedupedBlock` call fails only when one of its own FTP commands failed, and the process is never aborted |
| `primary` | `MCPrimaryCluster.cfg` | pass | `TypeOK`; `PanicOnlyAfterClose`: the process panics (a `DoFor` over no servers) only after `Close`; `DialsOnlineServer`; `AtomicClusterRefined`: `DoFor` implements `AtomicCluster`, with `Do` calls hidden; `DoReturns`: every `Do` and `DoFor` returns unless the process has panicked |
| `lba_shard` | `MCLBAShard.cfg` | pass | `TypeOK` (includes that a record holds only 32-byte hashes, never a nil slice); `CleanShardIsStored`: a loaded shard that is not dirty has, slot by slot, what the meta cluster's record holds when read by the spec's layout, across loads, Sets, Deletes, Flushes whose writer fails part-way, and evictions |
| `lba_nil_shard_write` | `MCLBAShardNilWrite.cfg` | violation | `NoRecordOfZeros`: the shard write law of spec 8, so that the meta cluster never keeps a record of only `nilHash` |

### Bounds

- **`cluster`**: clusters of one to three servers in every state, object indices 0..2, two
  actions, and `DoForAll` with 0, 2 or 3 pairs.
  - These reach the modulo hit, the jump-hash search past a RIP server, all-RIP and
    unsupported configs, one group and several groups.
  - They also reach every order of two or three batches returning, with failures.
- **`template`**: two cluster IDs, two callers, object indices {0, 1}, configs `<<Online>>`,
  `<<Online, Online>>` and `<<Offline, Online>>`, two reference changes and one config change.
  - Two reference changes reach A→B→A, A→""→B and a failed watch.
  - One config change can shrink a cluster from two servers to one under a caller.
  - About 1.4 million states; with the refinement property, about 75 s.
- **`primary`**: two cluster IDs, two callers, object indices {0, 1}, configs `<<Online>>`
  and `<<Offline, Online>>`, one reference change and one config change, and `Close`.
  - The two configs make a shrink under a caller possible. Index 0 then moves between
    the modulo hit and the jump-hash search.
  - `Close`, followed by the closed channel's zero config, reaches the panic in eight
    steps.
  - About 200,000 states, 85 s with the refinement and liveness checks.
  - Deadlock is not checked: a panic ends the process.
  - The template's positive liveness result (`DoForReturns` over online configs) has no
    run of its own. The reloader loop and the lock pattern are the same as here, and
    `DoReturns` checks them.
- **`fetchers`**: ratio 4, every source stream with two tokens over indices 0..5 for
  inflation (two destination spans, gaps inside a span and across one), over indices 0..1
  of big blocks for deflation (all 81 contents, nil sub-blocks included), and over 0..1
  for equal sizes; at most one failed source fetch, at any point of a call. About 110,000
  states, 15 s. Deadlock is not checked: the consumer stops at `io.EOF`.
- **`clusterclient`**: two callers asking for clients of one vdisk, both able to get one.
  - The file holds one of seven contents: two good configs that differ in root and data,
    one with no data servers, one with no metadata server, one of another vdisk type, one
    without the vdisk, and an unreadable file.
  - Two edits, one SIGHUP, and the context may end at any time.
  - Two edits reach good → half-failing → good. A client's listener can see a failed
    reload and a getter then reload lazily. Two callers let two clients and listeners
    interleave with one factory.
  - About 400,000 states, 85 s with the liveness check.
  - Deadlock is not checked: once every caller is done, the factory's `Listen` waits for
    ever, as it does in the program.
- **`ftp_concurrent_stores`**: two workers, two hashes under `root/a/b` and `root/a/c`
  with `root` existing, two calls each and one transport failure. Deadlock is not checked:
  the workers stop after their calls, and an aborted process stops.
- **`lba_shard`**: three slots (enough for a nil slot before, between and after set
  ones), one hash besides `nilHash`, three `Set`s and one writer failure. The meta cluster
  starts with no record, with `<<h1, 0, 0>>`, with `<<0, 0, h1>>` (leading nil slots), or
  with a truncated record. About 650 states, under a second.
- **The violation runs** use the smallest bounds that show their trace.

### Fairness

- **Reloader and callers:** Go schedules runnable goroutines, so both get weak fairness
  on their steps.
- **`RLock`** gets strong fairness. `sync.RWMutex.Unlock` hands the lock to the readers
  that queued behind a waiting writer before the next `Lock` can succeed, so a reader that
  is enabled again and again does get in.
- **The config source, `Close` and the decision to call `Do` or `DoFor`** get no fairness.
- **`PrimaryCluster`** has the same fairness. It applies only while the process is alive
  (`Alive /\ RLock(c)`), so behaviours that end in a panic are not excluded.
- **`ClusterClient`:** the factory's `Listen` gets weak fairness on accepting a request,
  on responding and on exiting. So does each client's listen goroutine on its steps.
  These are goroutines that Go runs whenever they are runnable.
  - The callers, the file, SIGHUPs and the context get none.
  - A rendezvous step is enabled only while the caller waits on the channel, so weak
    fairness on `Listen` is what the runtime gives.

## Findings

1. **`TemplateCluster` brings back a detached cluster.** When the template reference is
   removed, `SetClusterID` cancels the watch but keeps `scw.channel` (part_001:1056–1061).
   - A config of the old cluster that was sent before the cancel is then received and
     written after the servers were cleared. Run `template_detach_stale`.
   - The earlier version set its channel to nil.
   - How many values the channel can still deliver depends on the config package, which
     is not in `src/`. The model allows any value sent before the cancel.
2. **`TemplateCluster` accepts a config with no online server.**
   - `updateStorageConfig` says it applies a config "iff the given config is valid", yet
     it checks nothing.
   - `ComputeServerIndex` leaves "at least one operational server" to its callee.
   - So `DoFor` spins holding the read lock. The reloader's `Lock` waits for it, and
     every new `RLock` waits behind the writer. Run `template_offline`.

3. **The earlier `TemplateCluster` stays on the wrong cluster.**
   - On a switch it never records the new cluster ID (`storage/cluster.go:186`).
   - A reference back to the first cluster is then skipped as unchanged, and the vdisk
     keeps using the second. Run `v0_switch_back`.
   - It also keeps its servers after the reference is removed (line 171). This is
     modelled but has no run of its own.
4. **The inflation fetcher loses a block after an index gap.**
   - When the next source index is beyond the current destination block,
     `inflationBlockFetcher.FetchBlock` returns that block and drops the source block it has
     just fetched (server_driver.go:437–444). That block is never exported.
   - Spec 4.6 says a new destination block begins with it. Run `fetchers_gap`.
   - The spec's scenario 5 (ratio 4, blocks 0, 1, 3) expects two destination blocks. The
     code, and the spec's own text, give one block `A‖B‖0‖C`, since block 3 is in span 0.
     The scenario is wrong, not the code; `InflateRef` follows the text.

5. **Concurrent `SetDedupedBlock` calls of the FTP driver break each other.**
   - The export runs `JobCount` workers in parallel (spec 4.7) on one `ftpDriver`.
   - `mkdirs` reads and writes `ftp.knownDirs`, a plain Go map, without a lock
     (server_driver.go:109, 124, 153). A read during another worker's write is a data
     race, which the Go runtime may turn into a fatal `concurrent map read and map write`.
     TLC's trace for run `ftp_concurrent_stores` has eight states: worker 1 records
     `root` while worker 2 makes its early check.
   - With the abort left aside, the same model also fails the property another way. Two
     workers that need `root/a` both `Stat` it missing and both `Mkdir` it. The second
     `Mkdir` is refused (line 133), and `SetDedupedBlock` returns that error although no
     command failed. This trace (about 16 states) was found by TLC on a copy of
     `FTPDriver` whose `MapRace` step is disabled. No run of this project checks that
     copy, and the run's own trace shows only the map race.
   - A backup whose first blocks share a two-character hash prefix hits this.

6. **A deleted LBA shard is written as zeros instead of deleted.**
   - `shard.Write`'s comments say it skips nilHashes and fails with `errNilShardWrite`
     when all slots are nilHashes. Spec 8 states the same shard write law.
   - The loop tests `s.hashes[index] != nil` (part_002:69). A slot `Set` to `nilHash`,
     which is spec 4.5's `Delete`, holds a non-nil slice.
   - So `Set(i, h)`, `Flush`, `Delete(i)`, `Flush` stores 4096 zero bytes instead of
     deleting the record, against spec scenario 4. Run `lba_nil_shard_write`; TLC's
     trace is `Load`, `Set(1, NilHash)`, `Flush`.
   - Reading the record back gives an all-nil shard, because `shardFromBytes` drops zero
     chunks. So no lookup goes wrong, which `CleanShardIsStored` confirms; the harm is
     records that are never deleted.

Two bugs are in the models but no longer have a run. A single unit test reaches each
of them, so their run slots went to checks that a test hardly reaches:
- **`Cluster.DoForAll` panics on exactly one pair.** It reads `pairs[1]` of a one-element
  slice (part_001:234). The `cluster` run leaves one-pair calls out (`PairLengths`); with
  `PairLengths = {1}` TLC shows the panic.
- **The earlier `TemplateCluster` panics when it has no servers.** It is documented to
  allow a cluster without servers, but its `DoFor` computes `objectIndex % 0`
  (`storage/cluster.go:87`) instead of failing with `ClusterNotDefined`. The model's
  callers reach the `"panicked"` step.

A hazard bounded, not ruled out:
- **`PrimaryCluster.DoFor` can panic after `Close`** (part_001:705). `Close` cancels the
  watch, and the reloader's select may take the closed channel's zero config before
  `ctx.Done`. `updatePrimaryStorageConfig` writes it unchecked, and a later `DoFor` computes
  `objectIndex % 0`. The `primary` run reaches this and checks `PanicOnlyAfterClose`: no
  other sequence of reference and config changes empties the servers.

Two more hazards are reachable in the models but have no run that checks them:
- **`lazyStore` accepts a partial file** left by a failed `Store` (server_driver.go:183).
- **`ClusterClient` leaks its listen goroutine.** `Close` sets `cc.done` to nil without
  the mutex (storagecluster/cluster.go:206). If that happens before the listen
  goroutine's first select, or during a SIGHUP reload, `listen` waits on a nil channel
  until the factory's context ends.

## Not modelled, and why

- **`UniCluster`, `ErrorCluster`, `NopCluster`:** stateless; nothing interleaves.
- **`ServerIterator` and `ServerCount`:** read-only.
- **The config package's own watch goroutines, and the ARDB connection pool:** not under
  `src/`. Their effect appears only as the channel behaviour described above and as
  nondeterministic dial failure.
- **`FTPDriver`'s read side and `Close`:** `GetDedupedBlock` only retrieves a file,
  `SetDedupedMap` and `GetDedupedMap` return a TODO error, and `Close` closes the client;
  none shares state with the stores.
- **`NewClusterClient` with a predefined `StorageClusterName`:** the factory never passes
  one. The name only selects which cluster of the file is read, so the file's entries
  stand for it.
- **The LBA shard store:** not under `src/`. Only what a single shard's load, `Flush` and
  eviction do is taken from spec 4.5. The LRU byte budget, the cache of many shards and
  the parallel flush over `doForAll` touch one shard each and are left out.
- **The CLI docs, the volume controller stub and vendored packages:** not part of the
  system's logic.

## Plan for the next modules

TLC runs are budgeted: at most twelve in all, and all twelve are used. The modules
below need a run, or one of the current runs replaced:

1. **A run for the partial-file and listener-leak hazards above.**
