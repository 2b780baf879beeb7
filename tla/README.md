# Verification of pqty

TLA+ specifications of pqty, the TeX Live package locker and installer, with
TLC runs on small instances and TLAPS proofs for every instance. Paths below are
relative to the repository; `src/store/...` abbreviates the crate's own
`src/src/store/...` tree of this checkout.

## 1. The system

pqty turns a TeX project into an exact, reproducible TEXMF tree:

    scan -> resolve -> hydrate -> exact lock -> install -> (compile, trace) -> converge
                          |                        |
                      content store  <-- objects --+--> destination tree + marker
                          ^
            registry cache, container cache, mirrors, bundles

It is a set of short-lived processes. They share no memory; what they share is
the file system, and they coordinate through OS file locks, atomic renames and
hard links only. The hard behaviour is therefore where several processes, or a
process and its interrupted predecessor, meet in the same files.

### Components

| component | state it keeps | operations | interacts with | hard behaviour | what makes it correct |
|---|---|---|---|---|---|
| installation transaction (`store/transaction.rs`, `store/install.rs`) | destination tree; control directory: `lock`, `owner`, `stage`, `previous`; marker file in the tree | acquire, recover, audit, stage, place, mark, publish, clean up | holds its lock while the store's is taken | exit or failed call between any two system calls; debris of earlier exits; users who edit the tree | readers see a whole tree or none; the old tree survives; foreign data untouched; linearizable; every call returns |
| content store (`store/object.rs`, `install.rs`, `hydrate.rs`, `package.rs`, `bundle.rs`) | `<digest>` objects, `manifests/`, `prepared/`, quarantine, `.pqty-store.lock` | store, verify, quarantine, publish manifest, inspect, recover, load, prepare, import | filled by downloads, read by installs, exports, mirrors | import and the readers take no lock; corruption on disk; checks long before use | a manifest appears only over a complete provider; nothing corrupt is installed |
| registry cache (`store/registry_cache.rs`) | `<key>.tlpdb`, `<key>.json` (digest and HTTP validators) | fetch with a policy (revalidate, immutable, offline), verify, remember | registry server; feeds resolution | no lock, two files replaced one after the other, releases between requests | never reports a stale snapshot as fresh; heals itself |
| container download (`store/container.rs`, `stream.rs`, `http.rs`, `archive.rs`) | cached containers by checksum | fetch with candidates, retries, verification, extraction | fills the content store | terminal and retryable failures over several URLs; a cached container that rots | never accepts other bytes than the checksum's; bounded attempts |
| hydration (`store/hydrate.rs`) | the growing closure | fetch providers, read their files' requests, resolve, repeat | resolution, store | fixpoint with byte limits; failure after some providers were published | terminates with a closed provider set |
| package preparation (`store/package.rs`) | `prepared/<key>.json` | prepare one package, copy or export single files | store under its lock | record reused while the objects merely exist | what it returns is in the store |
| bundles (`store/bundle.rs`) | archive of objects and manifests | export, import | store, without its lock | import beside any locked writer | complete or refused |
| mirror (`store/mirror.rs`) | public object tree, provider records, catalog, `.pqty-mirror.lock` | publish | store lock per provider | order of catalog, records, objects | the catalog never leads to something missing |
| file exports, manifests (`store/file_export.rs`, `file_manifest.rs`) | none of their own | copy, verify | store, lockless | object damaged, quarantined or replaced between check and copy | what leaves was hashed by this call |
| resolution (`registry/resolution.rs`, `inputs.rs`, `language.rs`, `font_map.rs`) | worklist of providers, requested-by edges | resolve names to providers | registry index | cycles, order of the worklist | closed under dependencies, edges inverse; no provider without a reason |
| registry data (`registry/tlpdb.rs`, `model.rs`) | parsed index | parse | resolution | text | - |
| convergence (`convergence.rs`) | candidate lock | add what a trace shows missing, hydrate, commit | hydration | failure half-way; repeated with rendering for ever | the lock changes only to one that satisfies the trace; the loop comes to rest |
| lock and trace artifacts (`artifact/*`) | the lock, the trace | validate, serialize, fingerprint | everything | - | a lock that passes validation is closed |
| source scanning (`source/*`) | worklist of project files | scan, tokenize | resolution | include cycles | each file once |
| command line (`cli/*`) | project lock file | commands, option checks | everything | reuse or update of an existing lock file | a reused lock answers the changed sources |
| temporary files, paths, progress (`temporary.rs`, `path.rs`, `progress.rs`) | - | atomic `publish_file`, path checks | everything | - | used as atomic primitives |
| FLS adapter (`adapters/fls`) | - | recorder file to trace | convergence | text | - |
| browser adapter (`adapters/browser/filesystem.mjs`) | origin-private files by digest | open a package file | HTTP | tabs under a Web Lock | only verified bytes are kept |
| development tasks (`xtask`) | - | release chores | - | - | not shipped |

The lock hierarchy is: destination lock, then store lock
(`install.rs:103` then `:111`; `:424` then `:428`); mirror lock, then store lock
per provider. Hydration and preparation take the store lock alone. Importing a
bundle, exporting and all pure readers take none.

## 2. Modules

Each component has one module of state and actions, an `MC...` module that only
makes instances of it, and a `...Proofs` module; the proofs about `Mirror` are in
`DeliveryProofs`, with those of the composition it is part of.

### InstallTransaction, TreePublication (abstract), InstallTransactionProofs

One destination, several processes (`Procs`) that install exact locks (`Locks`;
a lock stands for an environment fingerprint with a link mode, the pair recorded
in the marker). A directory tree is a record: does it exist, which lock was it
assembled for, which locked files are present, is the marker absent, half
written or valid, is there anything else in it.

| state | code |
|---|---|
| `guard` | OS lock on `<control>/lock` (`FileGuard`) |
| `owner`, `stray` | `<control>/owner`; files in the control directory that are not pqty's |
| `stage`, `previous` | `<control>/stage`, `<control>/previous` |
| `dest` | the TEXMF directory |
| `existing` | `publish`'s local of that name |
| `pc`, `want`, `result` | position, argument and outcome of each process's call |

| actions | code |
|---|---|
| `Begin`, `Acquire`, `CheckOwner`, `WriteOwner` | `Installation::acquire` |
| `Recover`, `DropPrevious`, `ClearStage` | `recover` |
| `Audit` | `installed_tree_matches` and the early return of `install_locked` |
| `CreateStage`, `Place`, `CreateMarker`, `WriteMarker` | `materialize_locked` |
| `Displace`, `Swap`, `UndoSwap`, `Settle`, `Cleanup`, `Abort` | `publish` and its error paths |
| `IoError`, `Crash` | `?` on every system call; exit of the process |
| `Damage`, `MakeDir`, `Discard` | users, between calls (external) |

`remove_dir_all` removes one entry at a time (`Shrunk`), and an exit between two
removals leaves a partial tree, which is what makes recovery interesting.
`Place` adds one file at a time.

`TreePublication` is what a caller may assume: the destination is an atomic
register, a call takes effect at one instant or not at all, and "ok" means one's
own tree is active. `InstallTransaction` is shown to implement it under the
mapping `active <- lock of (dest if it exists, else previous)`: the two-rename
publication has its linearization point at the *second* rename, and the old tree
counts as active while it sits in `previous`.

### RegistryCache, RegistryCacheProofs

One registry URL's cache entry, shared without a lock. Snapshots are numbered by
the order in which the registry publishes them; the digest and the HTTP validator
of a snapshot are its number. The steps are those of `fetch_tlpdb`: look, read
the validators, request, write the index, write the record, verify, rebuild a
missing record, and the second read by `load_tlpdb_index`. `Purge` deletes either
file (cache cleaning), `Publish` is a release of the registry.

### ContentStore, ContentStoreProofs

Objects and manifests are absent, good or bad (content does not hash to the
name); providers may share objects. Five kinds of call hold the store lock
(`install`, `offline` install, `materialize`, `hydrate`, `prepare`), `import` does
not. `Inspect/Check/Evict` are `inspect_stored_provider`; `NextProvider/Store/
Replace/Link/Publish` are `recover_locked_provider`, `materialize_provider` and
`store_reader`; `Load/Verify/Place` are `materialize_locked`. Publication is a
hard link that fails when the name is taken, quarantining is a rename by name: in
between, another process may have replaced what the name stands for, which is
where the lockless import bites. Which bytes a container holds is abstracted
away: a download that does not verify is the failure `IoError`.

### LockGraph, Locking, LockingProofs

From the project's sources to its lock file. `LockGraph` has the data and the
pure algorithms; `Locking` the commands that run them, concurrently, on one
project.

A registry snapshot is a record: the providers of the package layer, the stable
ones, what each depends on and ships, and the names the text of a file loads
(its `\RequirePackage`, `\input` and the like, with the extension the lookup
adds). A lock is a record of relations instead of a list of entries:

| field | code |
|---|---|
| `closure`, `direct`, `deps` | providers of `LockFile.closure`, their `direct` flag and `dependencies` |
| `edges` | `requested_by`, as pairs of requester and requested |
| `satisfies`, `requests` | each entry's `satisfies` and `runtime_requests` |
| `wants` | `consumer_requirements` |
| `project` | class and package, literal input and graphic declarations |
| `snapshot` | the metadata digest of the registry record |

| definitions | code |
|---|---|
| `Index`, `Preferred`, `Unique`, `UniqueFiles` | `normalize_provider_indexes`, `provider_of_file` and `provider_of_path`, `input_files` |
| `Seeded`, `Required`, `Expanded` | `resolve`, `require_runtime`, one turn of `expand_runtime_dependencies` |
| `Selected`, `Followed`, `Found`, `Grown` | one round of discovery of `hydrate_lock` |
| `Missing`, `Convergible`, `Observed` | `reconcile_trace`, `resolve_missing_inputs`, `add_trace_providers` |
| `GraphValid`, `WantsValid`, `DeclarationsValid`, `ContentsValid` | `artifact/validation.rs` |

A command reads the lock file, builds a candidate in memory (`Expand` per worklist
item, `Discover` per round), validates it (`Check`) and renames it over the lock
file (`Publish`); any step may fail (`IoError`). `Resolve` and `Reuse` are `lock`
without and with reuse of the existing file, then there are `Require` and
`Converge`. `Edit` changes the sources between. No lock covers a command, so the
file a command replaces need not be the one it read.

The construction and the validation are separate code. `ValidationAccepts`
compares them: what `resolve`, `hydrate_lock` and `converge_trace` build is what
`validate_provider_graph` accepts. The other properties are about lock *files*,
after any sequence of overlapping commands.

### ContainerFetch, ContainerFetchProofs

One container, several processes with stores of their own that share the cache
directory and no lock. `Probe` is the test for the cached file, `Redirect`,
`Respond`, `Receive`, `Check`, `Publish` one attempt, `NextAttempt` the two nested
loops over candidates and retries, `Open`, `Verify`, `Expand`, `Deliver`, `Finish`
the rest of `fetch_container_runfiles` down to `visit_required_tar`. `gets` counts
the attempts at each candidate, `handle` is what the opened file reads whatever
happens to its name. The faults are sorted as the code sorts them: `Transient`
may be retried, `Terminal`, `Unusable`, `RefuseRedirect`, `WrongBytes` and
`BadArchive` end the call. `Meddle` replaces or deletes the cached file at any
moment.

### Mirror, PackageReader, Delivery, and their proofs

`Mirror` is `mirror_packages`: `Acquire` takes the output's lock, `Prepare`,
`Reject`, `Fill`, `Filled` are `prepare_package` under the store's lock, `Inspect`
and `Copy` publish an object, `Record` a package, `Catalog` ends the run. A run may
instead be the export of one file into the same directory, which takes no lock
(`Begin`, `Copy`). `Others*` are the other users of the store, `Rot` and `Damage`
the disk. `public` is what a web server serves; `damaged` names the files somebody
harmed after a run last verified them, which no run can answer for.

`PackageReader` is `openPackageFile` of the browser adapter, for one file and
several tabs: `queue` and `holder` are its Web Lock, `entry` the OPFS file,
`handles` the open access handles, `staged` the download. `createWritable` and
`removeEntry` fail while a handle is open, and a writable replaces the entry at
`close` and not before: these are the platform's rules, modelled as the adapter
uses them. The removal after a failed download may also fail for reasons of the
storage's own (`RemovalFault`); the adapter swallows that failure as it swallows the
other, and the entry stays (`Swallow`).

`Delivery` composes the two: what a tab downloads is what the mirror's directory
holds at that moment. pqty has no server; a static one stands between.

### Exports, ExportsProofs

The calls that read the store without its lock, told apart by what they hash and
through which open file:

| kind | code | hashes | hands out |
|---|---|---|---|
| `index` | `export_file_manifest` | by path | nothing |
| `bundle` | `export_bundle` | by path, then opens again | unhashed bytes, into a private archive |
| `file` | `export_file` | what it copies | a private file |
| `copy` | `copy_verified_file` | the open file, then what it copies | bytes to a writer |
| `package` | `copy_package_file` | by path, then what it copies from a second open file | bytes to a writer |
| `asset` | `export_package_file` | what it copies | a private file |

`handle` is `"linked"` while the opened file still has its name, and the bytes of
its own once it was moved to the quarantine (`Evict`). `Rot*` damage a file, a
nameless open file, the archive, an unpacked copy or the importing store. The import
into that store is `Stage` (unpack and hash all entries), `Land` once per object
(`store_reader`: the copy is hashed again, an object that is there is hashed and, if
wrong, quarantined and replaced), and `Name` once per manifest. `target` is what
each object's file there is worth and `harmed` which the disk has damaged since an
import last returned of it; `parcel`, `torn` and `landed` are the import under way.
It may end anywhere (`FailImport`), also between a quarantine and the publication
that follows it. What importing does to a store that others use at the same time is
`ContentStore`'s subject.

## 3. Runs

| run | instance | what it shows |
|---|---|---|
| `install` | 2 processes, 2 locks, 2 files, crashes and failures at every step | the safety invariants of the transaction, the refinement of `TreePublication`, every call returns, retries restore a whole tree |
| `install_meddled` | the same, with users who damage, create or delete the destination between calls | foreign directories are never touched; success always means exactly the locked tree; once faults end, every call that returns has installed its tree or met what is not pqty's |
| `install_owner_record` | as `install` | **violated**: an exit between creating and writing the ownership record makes pqty disown its own directory for ever |
| `cache_solo` | 1 process, 3 versions, all policies | alone, revalidation is fresh, and succeeds again after any exit, failure or cleaning |
| `cache_rolling` | 2 processes, 2 versions, no faults at all | **violated**: two unlocked fetches around a release leave the old index under the new record, and every later revalidation fails |
| `store_locked` | 2 processes, 2 providers sharing an object, the five locked calls, damage, failures, exits | manifests appear only over complete providers, inspection holds until placement, nothing corrupt is installed, installs repair |
| `store_import_race` | 2 imports | **violated**: two imports quarantine each other's fresh object; a manifest appears over a missing one |
| `locking` | 2 commands, 6 providers, 2 snapshots, `lock`/`require` at most twice, `converge` unbounded | construction agrees with validation; every lock file is well founded, of one snapshot, answers what it records; `converge` only extends |
| `locking_settles` | 2 commands, a literal input, traces with exact paths, one `lock`/`require` | every command returns; render-and-converge comes to rest |
| `fetch` | 2 processes, 2 candidates with 2 retries each, 1 redirect, 2 required files, any fault at any step | only verified bytes are delivered, attempts are bounded and in order, the cache never gets worse, every call ends, and succeeds once faults end |
| `delivery` | 1 mirroring or exporting process, 2 packages with a common file, other users of the store, 2 tabs | catalogs lead only to what is there, tabs read only verified bytes, failed downloads leave nothing invalid that the storage could remove, everyone returns, deliveries succeed once faults end |
| `exports` | 1 caller with every kind of call, 1 importer, a provider of 2 files, 1 damage at any place, unlimited quarantine and repair | only verified bytes leave except for damage during the call; whatever was damaged before an import, the objects it names are intact; calls and imports succeed once the store is healed |

The three violations are listed as findings in `PROJECT.json`, each with the
comment or document it contradicts.

**Bounds.** Two processes are the least that interleave, and as every property is
about one process against "the others" or against leftovers, and a process that
crashed leaves nothing but files, two processes with unbounded calls, crashes and
retries already produce leftovers of arbitrary depth. Two files (objects) are the
least for which a tree (provider) can be partial in two ways; two locks
(providers) the least for which a new tree differs from the old one, and the two
providers share an object, so that recovering one can disturb the other. Three
versions let a cache entry be two releases behind. The number of calls, crashes,
failures and damages is unlimited. The registry of `MCLocking` is the smallest
found that has each case the algorithms distinguish: a dependency cycle; a file
that loads a name nothing depends on; a basename of two providers, in one snapshot
ambiguous and in the other decided by stability; a provider that ships a basename
twice; files that are not scanned; snapshots that differ. `MaxChanges` bounds the
`lock` and `require` commands: two let a lock be reused or extended once after
another one has written it, and the registry move between. `converge` is bounded
by its traces alone. In `fetch` two candidates with all three attempts each make
`gets` pass from one to the next, and two files with `TotalLimit = 1` reach the
limit exactly and exceed it. In `delivery` two packages share a file, so that the
second finds it published by the first; a second mirroring process would only wait
for the lock, and the proofs have any number. `exports` is bounded by `MaxDamage`
alone: one damage, to an object, a nameless file, the archive, an unpacked copy or an
object of the importing store. One reaches every hash in the code, before it and
after it, and the quarantine in `Land`; a second one adds only combinations, and the
theorems allow any number. Its safety was also explored with two providers that
share an object (6.5 million states). The safety theorems below remove the bounds of
all runs.

**Symmetry** is used in `locking`, `cache_rolling` and `store_import_race`, which check
no liveness.

## 4. Fairness

* `InstallTransaction!Fairness`: `WF(Work(p))`: a running process keeps running
  (nothing in the code waits except for the OS lock), and `SF(Acquire(p))`: the
  kernel hands a released `flock` to its blocked waiters in turn. Failures and
  exits are never fair. Under it every call returns (`EveryCallReturns`).
* `Retried`: users call again, and from some moment on nothing fails. Only
  `RetryRestores` needs it.
* `RegistryCache!FairSpec`: users ask again, calls run on; `Calm` says that
  failures, exits, cleanings and releases end at some time, an assumption of
  `RevalidationRecovers` alone. It is checked for one process, as several
  concurrent ones can get stuck (finding `cache_rolling`).
* `Locking!Fairness`: `WF(Step(c))`: a command that has begun goes on with its own
  steps. They wait for nobody: the only lock taken below them is the store's, in
  bounded calls. Starting a command is not fair, failing is not either; so
  `CommandsReturn` is about the termination of the worklist and of discovery.
* `ContainerFetch!Fairness`: a call goes on in some way, successfully or not:
  requests have timeouts, and files a size. `Calm` ends the faults and
  `FetchesRecover` needs besides that no foreign file keeps the container's name:
  the code refuses such a file and never replaces it. It speaks of each process's
  returning calls, so fairness plays no part in it.
* `Mirror!Fairness`: `WF` of a run's own steps, `SF` of taking either lock (the
  kernel serves waiters in turn), and other holders of the store's lock leave it.
  `PackageReader!Fairness`: promises settle and the browser grants a Web Lock in the
  order of the requests. Beginning a run or a call and closing a reader are not
  fair. `DeliverySucceeds` assumes `Calm` and `Sound`: a corrupt object that merely
  exists makes preparation reuse its record (`package.rs:247`), a record that is no
  good ends every preparation (`package.rs:250`), and neither heals by trying again.
* `Exports!FairSpec`: calls are made again and again, imports go on, and the store's
  users repair what they find corrupt; `Calm` ends damage, failures and the removal
  of intact entries.
* `ContentStore!Calm` is the same for the store. `InstallsRecover` needs no
  fairness: it says that failing calls stop, not that calls return. The same is
  true of `DeliverySucceeds`, `FetchesRecover` and `RetryInstalls`, and section 5 proves
all four.

## 5. Proofs

All theorems hold for any number of processes, locks, files, providers, objects
and versions, with faults at every step. Of the 40 properties of the passing runs,
32 are stated by a theorem; the other eight are listed at the end.

Three kinds of argument recur. *Invariants* say what is known at each position of a
call, of the files and of the other calls. *Action properties* follow from an
invariant and one step. The third is for properties of the form "once faults stop,
every call that returns has succeeded" (`Calm => <>[][...]_vars`). They look like
liveness but need no fairness, because they speak only of calls that do return: an
inductive *taint* says which calls still carry the consequences of an earlier
fault. Without further faults no step taints an untainted call, and a step that
ends badly ends the taint. So either the taint goes, and from then on every call
ends well, or it stays for ever, and then no call ends badly in the meantime.

* **InstallTransactionProofs.** `TypeCorrect`, `MutualExclusion`, then the inductive
  invariant `IInv`, needed because `NeverPartial` does not follow from itself: it
  relates the position of the holder of the lock to the three trees (what may be
  in `stage` and `previous` at each step, and that a partial `previous` implies a
  whole `dest`). From it: `DestinationNeverPartial`, `DebrisIsHarmless`, and the
  action properties `OldTreeIsKept`, `ForeignTreesAreKept`, `SuccessIsInstalled`.
  `Linearization` proves that every step maps to a step of `TreePublication` or to
  a stutter. `ForeignTreesAreKept` and `SuccessIsInstalled` are proved of
  `MeddledSpec`, users included. `RetriesInstall` (which states `RetryInstalls`) and
  `RetriesRestore` are about retries: after the last fault every call that returns has installed its tree,
  unless it met something that is not pqty's; with nobody else at the destination
  and an owned control directory, every one has. They need `Recovered`: from
  recovery to the displacement the holder may replace the destination, which
  nobody undoes under the lock.
* **RegistryCacheProofs.** `CacheTypes`, and `DatedIsConsistent`: with
  `MaxVersion = 1`, a recorded digest always is that of the only version. For a
  registry that releases versions, the theorems assume that calls do not overlap
  (`[]OneAtATime`, any number of processes); `SoloIsFresh` drops that for a single
  process, where it always holds, and the finding `cache_rolling` shows why it is
  needed. `FreshInv`: the validator in the record is never ahead of the index, and
  what a call carries is never older than either file. From it come
  `SerialIsFresh`, `SerialCacheRevalidates` (exactly the property that the run
  refutes for overlapping calls), and, with what a call that was answered "not
  modified" knows, `SerialRevalidationIsConsistent` and
  `SerialRevalidationSucceeds`, by taint.
* **ContentStoreProofs.** `StoreTypes`; `LockInv` says, for the holder of the store
  lock at each step, which providers are known to be ready or which object is
  still to be dealt with; it is inductive only when no call bypasses the lock, so
  `InspectedStaysReady`, `OnlyIntactIsPlaced` and `ManifestsAreComplete` assume
  `"import" \notin Kinds`, and the run `store_import_race` shows that the
  assumption is needed. `RepairInv` adds that what a call condemned is still there when it is
  moved away, and that no bad manifest is in the way of what an installation stores. Hence
  `InstallationsGetOver`: an online installation fails only by a failure or an exit
  of its own, whatever the store contains; and `InstallationsRecover` states
  `InstallsRecover` itself.
* **LockingProofs.** The invariants of the lock file cannot be proved of the file
  alone: it is replaced by a candidate built from an earlier file. `IInv` therefore
  says of *every* candidate that it is `Good` (typed, its edges inside its closure,
  its dependencies those of its snapshot, well founded, every requirement met and
  every declaration satisfied) and that every dependency of a provider outside the
  worklist has been entered with its requester (`Settled`); of the lock file that
  it is `Good` and settled with an empty worklist; and of a converging candidate
  that it is larger than what it grew from. One lemma per operation (`Ask`,
  `Required`, `Observed`, `Expanded`, `Grown`) shows that it keeps `Good`;
  `AddingKeepsWellFounded` is the heart: adding providers that are direct or
  requested by one that was there cannot make a self-supporting set. From `IInv`:
  `LockingTypes`, `ConstructionIsAccepted`, `NoSelfSupport`, `LockHasOneSnapshot`
  and the action property `ConvergenceExtends`. `NoSelfDependency` (no provider
  lists itself) is needed: resolution would record such an edge and validation
  refuse it.
  `LockIsAnswered` needs `AnswersInv` on top: a candidate records its declarations
  from the beginning, and past discovery nothing is left to find. Which files
  discovery reads is a fixpoint computed by recursion, which cannot be unfolded
  here; it is enough that it depends on the contents of the lock alone, and so is
  the same when a lock is reused over changed sources. `CommandsAdvance` is the
  measure by which commands end: each own step grows a closure that stays within
  the registry's providers, shrinks the worklist or moves the command on, and no
  step of another command sets it back.
* **ContainerFetchProofs.** `FetchTypes` and `FetchAttempts` (a full count at every
  earlier candidate, and `retry + 1` at the current one, is the strengthening);
  `FetchDelivers` needs that a call past `Verify` holds a good handle, and
  `FetchCaches` that one past `Check` has good staged bytes. `FetchesAreRepaired`
  states `FetchesRecover`: a call is tainted while it holds wrong bytes or counts
  on a cached file that is gone. The property is stated for each process on its own: with infinitely many processes
  there need be no moment from which on all of them succeed.
* **DeliveryProofs**, with the proofs about `Mirror`. `MirrorTypes`;
  `MirrorCatalogs` follows from what a run knows: the files of every package it has
  recorded, and those in `published` but the pending one, are public or damaged
  since; the records of its snapshot are those no longer in `todo`. Files that
  other runs and exports replace stay good because every rename is of verified
  bytes. `DeliveryTypes`, `DeliveryCatalogs`, `DeliveryReaders` and
  `DeliveryFailures` carry these and the reader's theorems over to the composition;
  `DeliveryFailures` says that a removal fails for another tab's handle only where
  that tab's entry is intact, and leaves out the failures of the storage's own.
  `DeliveryRecovers` states `DeliverySucceeds`: a run is tainted (`Starved`) while
  it needs an object that the store lost, a tab (`Barred`) while it has not got its
  file or a reader of the old entry is in its way; and the file that an undamaged
  catalog lists stays listed.
* **PackageReaderProofs.** `ReaderInvariant`: only the holder of the Web Lock is past
  `Grant`; once it is about to open, the entry is good; and while a handle is open
  nobody replaces or removes the entry. `ReaderQueue`: each tab that waits is queued
  exactly once, also when it gives up in the middle of the queue. Both hold whatever
  file `served` is at each moment, so they carry over to `Delivery`.
* **ExportsProofs.** One invariant per call says what was hashed through which file
  and what the disk has damaged since (`HashedInv`), so that wrong bytes in a
  writer or an archive are accounted for (`WrongInv`); from it `ExportsTypes` and
  `ExportsVerified`. `ExportsImported` has an invariant of the importing store
  (`ImportInv`): what an import has landed or any import has named is intact or harmed
  since. It is `Land` that keeps it, by refusing a copy that is not what its name says
  and replacing an object that is not. `HealedStoreServes` is the safety half of
  `ExportsSettle`: in a healed store the only call that can still be refused reads
  a damaged file it opened before, and it is refused once.

Assumptions on the constants are only those of the modules' `ASSUME`s
(`ConstantsAssumption`, `CacheAssumption`, `StoreAssumption`,
`RegistryAssumption`, `NoSelfDependency`, `LockingAssumption`, `FetchAssumption`,
`MirrorAssumption`, `DeliveryAssumption`, `ExportsAssumption`).

**Only model-checked** are the eight properties that say that something happens,
which needs fairness and so `ENABLED`, out of the prover's reach:
`EveryCallReturns`, `EveryFetchEnds`, `EveryoneReturns`, `CommandsReturn`,
`ConvergenceSettles`, `RetryRestores`, `RevalidationRecovers` and `ExportsSettle`.
Their safety halves are proved where they have one (`RetriesRestore`,
`SerialRevalidationSucceeds`, `HealedStoreServes`, `CommandsAdvance`,
`FetchAttempts` for the bounded attempts): what TLC adds is that calls are made and
end. That the algorithms of `LockGraph` compute what they should for every
input would need induction over data; the runs evaluate them on `MCLocking`'s
registry, and the proofs use only what the text above says of them.
`TypeCorrect`, `MutualExclusion`, `DebrisIsHarmless`, `DatedIsConsistent` and the safety
halves are proved and are no properties of a run of their own.

**Read with care.** `OnlyVerifiedLeaves` is weaker than the words of
`package.rs:326` ("Bytes are verified before they reach the writer"): when the disk
damages a file between the check and the copy, `copy_package_file` and
`copy_verified_file` have written wrong bytes before they notice and fail; and
`export_bundle` does not notice, but the import of its archive does. The documentation
of both functions asks the caller to commit on success only. `CleanFailure` is weaker
than `package-serving.md:128` ("A failed or invalid download removes its OPFS entry")
and the comment at `filesystem.mjs:98`: the adapter swallows every failure of the
removal, so where the storage fails to remove the entry, an empty or invalid one stays
after a failed call. Nobody is handed its bytes (`ReadersVerified`), and the next call
that succeeds replaces it (`DeliverySucceeds`). `ImportedIntact` excepts what the disk
damages in the importing store after `store_reader` has returned of the object: the
manifests are written after the last object and nothing hashes it again. The comment at `transaction.rs:146` ("A
complete active destination wins over that debris") is about a destination that
exists at all: if somebody creates an empty one after an exit between the two
renames, recovery deletes the backup. And `inspect_stored_provider` quarantines an
intact object after a failed read (`install.rs:353`), which costs an offline store
that object.

## 6. Not modelled, and why

* Users who write to the destination *during* a publication, and hard links from
  the tree into the store ("Copy is the supported installation mode").
* Text processing: the TeX tokenizer, the tlpdb and FLS parsers, serialization,
  and command-line wording. They have no state between calls.
* In the lock: languages and font maps (they add requirements as `require` does),
  the folding of font names, lists of candidate names for one request (a request
  stands for the candidate that is found), byte limits (a limit is a failure),
  digests of files, and `--output`, which writes the candidate elsewhere.
* A second owner of a required name. The index prefers stable providers for a
  basename but an exact path can lead to a development provider; `converge` then
  records the basename for it, and a `require` of that basename is refused by
  `WantsValid`. The model has this behaviour and the command fails cleanly, so
  `ValidationAccepts` asks for an owner, not for exactly one.
* A `require` that another command overwrites. It is in the model and not an error
  of any document: the later rename wins.
* The source scan: which files it reads is decided by the TeX tokenizer; the
  worklist itself visits each file once. `LockGraph` takes its result, the project's
  declarations, as an input.
* HTTP, archive and JSON formats, fingerprints of the records: a file
  is good or bad. Packages from a local TEXMF tree, whose files have no checksum.
* Importing a bundle into a store in use, *together with* the readers of that store:
  the first is `ContentStore`, the second `Exports`, and both at once exceed TLC.
* The development tasks: not shipped.
* Power loss: `sync_all` is in the code, but file-system reordering after a power
  cut is below the level of these models; an exit keeps what was written.

## 7. Plan

1. Done: transaction and its abstraction, registry cache, content store, lock graph
   and the commands over it, container fetch, mirror and browser with their
   composition, each with proofs; the lockless readers.
2. Proved: every safety invariant and action property of the passing runs, and every
   recovery property that needs no fairness. Left to prove: that `ContentStore`
   keeps its invariants for stores nobody else uses while an import fills them
   (`import` alone, which `LockInv` excludes together with every other import).
3. Next to model: languages and font maps in `LockGraph`; the scan worklist over
   project files; the FLS adapter's pairing of a trace with a lock.
