# Verification of peertopeer (dstore)

`dstore` turns the files of a folder into stubs: a file is read in chunks, each
chunk encrypted and split into erasure-coded shards, the shards are pushed to
peers of a Tailscale mesh (and kept locally), and a small manifest, the stub,
takes the place of the file. Any `DataShards` of a chunk's shards give it back.
This directory holds TLA+ models of the program's state machines, the TLC
configurations that check them on small instances, and theorems about them that
TLAPS proves for every value of the constants.

Source paths below are relative to the repository.

## 1. Inventory

| Component | Source | State | Operations | Model |
|---|---|---|---|---|
| Local shard store | `internal/localstore` | a directory of shards named by hash and `.writer` sidecars; a mutex per Store, a flock per directory | `PutOwned`, `Put`, `DeleteOwned`, `Usage`, `Get` | `LocalStore`, abstractly `ShardRegistry` |
| Atomic publication | `internal/atomicfile` | a temporary file, the published name | `WriteNew`, `WriteNewFrom` | inside `LocalStore`, `Upload`, `Restore` |
| Upload of one file | `internal/dstore/dstore.go` (`processFile`, `pushShard`) | source, stub, key, chunk and shard in hand | read, push, verify, keep, look again, publish, remove | `Upload` |
| Placement | `dstore.go` (`shardPeers`), `internal/peer/discovery.go` | none between calls; probes run concurrently, eight at a time | eligibility, probe, shuffle, round robin | `Placement`; one step of `Upload` |
| Restore of one stub | `dstore.go` (`RestoreFile`, `restoreChunked`, `fetchShard`) | shards fetched, temporary output | fetch, fall back, decode, publish | `Restore` |
| Watcher | `dstore.go` (`Watch`, `ProcessDirectory`) | what it saw last round and this one, failures, results | rounds, stability test, announcements, cancellation | `Watcher` |
| Shard server | `internal/shardserver` | one transfer mutex; the store behind it | GET, PUT, DELETE, info | `Node` |
| Folder commands | `internal/dstore/paths.go` | a target directory, the results so far | `AddPath`, `RestoreDirectory` | `Folder` |
| Node lifecycle | `cmd/dstore/node.go` | server goroutine, watcher goroutine, context | `serveAndWatch` | `Node` |
| Manifest | `internal/manifest` | none | marshal, unmarshal with limits | `Manifest` |
| Erasure code, encryption | `internal/erasure`, `internal/cryptofile` | none | libraries | by what they promise |
| Configuration, command line | `internal/nodeconfig`, `cmd/dstore/main.go`, `cmd/dstore/node.go` | none | `Validate`, `configuredPipeline`, `parsePeers`, flags | `NodeConfig` (partly) |
| Mesh identity | `internal/peer/peer.go`, `internal/tailnet` | none | calls of the Tailscale client | what they may answer: `Node`, `Placement` |
| Deployment | `docker`, `scripts`, `systemd` | none | | not modelled |

How they interact. The watcher calls the upload for each file that is ready.
The upload asks the placement for peers, sends each shard to a peer's shard
server by HTTP, reads it back, and puts it into the local store of its own
process. A shard server works on the local store of its peer with the identity
of the caller. A node runs a server and a watcher over one directory; in `dstore
node` they share one Store value, and so a mutex (`node.go:103-104`), in `dstore
agent` each has its own. `dstore process`, `dstore watch`, `dstore add`,
`dstore serve-shards` and a second node bring further processes. The quota belongs to the
Store, not to the directory: `node` and `add` have the configured one, the other
commands none (`main.go:98-99`, `127`, `165`, `215`), over the same default directory. A restore asks the shard servers
named in the stub, then the local directory. `dstore add` and `dstore
restore-tree` call upload and restore for every file of a tree, while other
processes use the same library of stubs. A configuration, or flags, say which
peers, ports, limits and chunk sizes all of them work with.

What is hard in it, and what correctness means:

* **Local store.** Several threads and processes, each step of a put or delete
  a separate system call, any of which may fail or be the last before a kill or a
  power loss. Correct: a shard someone was told is stored stays until its
  recorded writer deletes it; ownership is never taken over; a delete is complete or
  not reported; no put takes the directory beyond the quota of its own Store; every
  call returns.
* **Upload.** The source may change at any moment, peers go away, answers get
  lost, a second process works on the same path, the process dies between the
  stub and the removal. Correct: a stub refers to one complete version of the
  file, all of whose shards are stored and survive the promised losses; it never
  changes; nothing else than what it holds is removed; retries succeed.
* **Watcher.** Observations go stale, rounds are cut short, files fail for ever,
  the context is cancelled anywhere. Correct: only settled files are attempted,
  failed uploads and changes of other files starve no file, what is stored is
  announced, a cancelled watcher stops and starts nothing new.
* **Node.** Requests work on the directory at the same time, one body at a time,
  while a signal or the end of one part stops the others. Correct: only those may
  change the directory who passed the gates, answers are true, the node
  returns the right result in bounded time and leaves nothing running, and no
  request waits for ever.
* **Restore.** Peers misbehave while shards are fetched one after the other, a
  restore fails or dies half way, others write the same name. Correct: the
  output is the whole file or nothing, it replaces nothing, and enough steady
  shards suffice.
* **Placement.** Goroutines compete for the slots of a semaphore while the
  context ends; machines have several names and ports. Correct: every call ends,
  whom it chooses has room, and the loss of as many machines as there are parity
  shards leaves enough.
* **Folder commands.** A batch ends anywhere and is repeated, two processes write
  to one library, a restore walks what an add is writing. Correct: nothing is
  replaced, the results tell what was written, a success is complete, and every
  stub that is written can be read back.

## 2. Modules

Each proof module extends its component and `TLAPS`; each MC module gives the
component constants to TLC. No module declares a recursive operator.

    ShardRegistry <--refines-- LocalStore <-- MCLocalStore, LocalStoreProofs
                Backup <--refines-- Upload <-- MCUpload,    UploadProofs
                               Watcher    <-- MCWatcher,    WatcherProofs
                               Restore    <-- MCRestore,    RestoreProofs
                               Node       <-- MCNode,       NodeProofs
    Manifest <-- NodeConfig <-- Placement <-- Folder <-- MCFolder, FolderProofs
                      ^             ^  <--implements--'
                ManifestProofs  PlacementProofs

`Placement` and `Folder` are composed: `Folder` extends `Placement`, its adds
are the callers, and `FolderProofs!ImplementsPlacement` shows that together they
do no more than `PlacementSpec` allows. The others do not import each other:
`Upload` is what happens inside one upload of `Watcher` and of `Folder`, `Restore` inside
one restored stub of `Folder`, `Watcher` and `LocalStore` inside the steps
`WatchStores`, `WatchStops`, `Put` and `Delete` of `Node`. Each treats the
others' part as one step with every outcome the detailed module allows.

Operators marked "Mutant" in a module are not part of its specification. Each is
a plausible mistake in the definition that follows it, kept to show that the
properties would notice.

### LocalStore and ShardRegistry

`shard[h]` is what a reader finds under the name `h` (nothing, the whole shard,
rotten bytes), `writer[h]` the sidecar, `disk` what each name may hold after a
power loss. `WriteNew` writes and syncs bytes nobody sees, then links the name,
then syncs the directory: two steps, `PutLink`/`PutSync` for the shard and
`PutClaim`/`PutClaimSync` for the sidecar. `PutExists` is the early return for a
shard that is there, `PutAdmit` the quota, which is a constant of each Store (`Quota[s]`, 0 for
none: `Fits` may find the directory filled beyond it by others), `PutRollback` the removal when the
sidecar could not be written; `DeleteCheck`, `DeleteShard`, `DeleteSidecar` are
the three steps of `DeleteOwned`. `LockMutex` and `LockFile` take the two locks,
`Unlock` is the deferred release every path ends in. `PutFails`, `DeleteFails`
and `LockFails` are the error paths, of each system call. `Kill` ends all
threads of a process, `PowerLoss` all of them and takes back names that were not
synced, `Rot` corrupts a file. `promised` is history: who was told that a shard
is stored.

`ShardRegistry` is what the directory promises: shards and writers; a shard
that disappears has a writer; nobody becomes the writer of a stored shard; a
writer is forgotten only after the shard is gone. `LocalStore` implements it
under the mapping that hides a shard until the put that published it has decided.

### Upload and Backup

One path and its stub; `data` and `path` are inodes and what they hold, so that
an editor that writes in place (`Edit`) and one that renames (`Replace`) differ,
as they do for `os.SameFile`. A version is one state of the file as `Lstat` and
`read` show it. `job[q]` holds the local variables of `processFile`. `Begin`,
`Stat`, `Open`, `Place`, `Read`, `Push`, `Verify`, `Keep`, `Check`, `Publish`
and `Remove` are its steps in order. An attempt draws a fresh key, so its shards
are named by the attempt; when it ends without a stub they are `junk` that
nothing removes, and that takes room from then on. `Place` covers configured and
discovered peers, capacity, the required number, shuffle and round robin.
Failures: `StepFails` (a call fails or the context is cancelled),
`PushAnswerLost`, `PublishUnsynced` (the link succeeded, the directory sync did
not), `RemoveFails`, `Kill`, `PeerDown`.

`Backup` is what a path is promised: the program stores what the file is at one moment,
once, and may then remove that version and no other. `Upload` implements it under
the mapping that takes for the copy the version that is `Restorable`: all its chunks in the
stub, and of each enough shards at the peers, without the local directory and whichever
peers are lost as long as they are no more than `Tolerated` (none where fewer peers than shards are
required, else as many as there are parity shards).

### Watcher

`previous` and `observed` are the two maps of `Watch`; `todo` is what the walk has
listed and not visited, in lexical order. `Visit` is the callback of `WalkDir`
up to the upload (`Look`, `Ready`); `Attempt` is the first look of
`processFile`, `Stored` and `NotStored` its outcome; `Report` is the test of the
joined error, `Announce` the loop over results, `Pause` the timer. The upload is two
steps here because everything between is in `Upload`; `refused` says that it cannot
succeed, or that the walk may not look at the file, which ends it as a vanished file
does. Versions are compared for equality only, so `Write` may take one that nobody
`Remembers`: the user changes files without end, and every round may meet another one that
vanishes. `settled` and `inflight` are history: files unchanged since before the last
pause, and the upload that was running when the cancellation came.

### Restore

`answer[p]` is what peer `p` sends when asked; peers in `flaky` change it at any
time. `Fetch` asks for one shard (`Fetched`: the peer, checked by its hash, then
the local directory), `Decode` needs `Data` of them and appends the chunk to the
temporary file, `Publish` links it. `Fail` is any error path, after the link
too; `Kill` a process that dies; `Create` and `Remove` are the user's. A
manifest of version 1 is a stub of one chunk.

### Node

`main` is where `serveAndWatch` is, `serving` and `watching` are the two
goroutines with their channels (a goroutine that has ended leaves its error
there until it is `taken`), `done` the two flags. `TakeServing`, `TakeWatching`
and `SeeCancelled` are the cases of the select, with the cancellation and the
closing of the listener that follow, `Drained` and `DrainTimesOut` the rest of
`Shutdown` and `Close`, `WaitServer` and `WaitWatcher` the two receives before
the return. The derived context needs no variable: it is cancelled by the signal
or once the select is passed (`Cancelled`). `Exit` and `Kill` end the process
with all its handlers; `Start` is the next one, in either role.

`pc[r]` is where the handler of a request is. `Admit` is its arrival and the gates
in order, `Refuse` any of them failing, `LockTransfer` to `Put` the upload of a shard,
with `RejectBody` for every way in which a body is turned down. `Put`,
`PutFails`, `Delete` and `DeleteFails` are `PutOwned` and `DeleteOwned` as one step
each, with what `LocalStore` shows they may leave behind. Answers are told apart as
far as a client does: success, refusal, failure.

### Manifest and NodeConfig

Operators only. `NewChunked` is what an upload of `size` bytes writes into its
stub, `Readable` what `Unmarshal` accepts, of any version. All chunks but the
last are full, so `Chunks` is their number and the length of the last, and the
two totals are products. `NodeConfig` has the
configuration as `Validate` accepts it and the two pipelines made of it:
`ConfiguredPipeline` (`dstore node`, `dstore add`) and `AgentPipeline` (the
older commands), with peers and ports as `parsePeers` and `mergePeerPorts` make them.

### Placement

One call of `shardPeers` after the other: `Ask` gets the candidates and starts
a goroutine for each that is `Eligible`, one per machine (`Id`); `TakeSlot`, `GiveUp` and
`Answer` are what a goroutine of `Inspect` does, `slots` is the room left in its
channel; `Place` is everything after `wg.Wait`. `Answers` is what agents may say;
`NoAnswer` every failure of `Probe`. `Forget` is the return.

### Folder

`lib` maps the paths of the library to what is there, `out` those of the
output directory. An add walks the entries of its source: `AddVisit` is the callback of
`WalkDir` up to `shardPeers` (`AddDir`, `AddOther`, `AddFile`), then come the steps of
`Placement`, `AddPlaced` its return, `AddPublish` the upload and the link of
the stub, `AddUnsynced` a link whose directory sync failed, `AddStops` every other error.
`OtherAdds` is another process with the same library. A restore keeps in `todo`
what its walk has yet to visit, a directory listed when it is reached:
`RestoreVisit` is the callback, `RestoreStops` an error in it. `found` is history: what
was there when the restore began.

## 3. Runs

| Run | Instance | What it shows |
|---|---|---|
| `store_owners` | two handlers of one server and an import, one shard, two writers; failing calls, kills, rot | types, promises, complete deletes, ownership, refinement of the registry |
| `store_calls` | two handlers of one server and an import, one shard; failing calls, kills; fair | every call returns |
| `store_power` | a server with a quota of 2, an import without one, shards of 1 and 2 bytes, power loss at any moment | what was acknowledged survives; no put takes the directory beyond its Store's quota |
| `store_unsynced` | as `store_power`, with failing calls | violation, finding 1 |
| `upload_safe` | two processes, two discovered peers with room for four shards each, 1+1 shards, a file that grows past the limit of two chunks and shrinks again, all mishaps | a stub is stored completely, is one version, survives the losses, is final; refinement of `Backup`: only what can be restored is removed |
| `upload_live` | two processes, two configured peers, originals kept; fair | once the peers stay up, the file is stored |
| `upload_late` | one process, a change between the last look and the removal | violation, finding 2 |
| `watch_rounds` | two files that change, vanish and come back without end, uploads that fail, files that may not be looked at, a cancellation; fair | only settled files are attempted; a file left alone is stored if the walk reaches it; what is stored is announced; a cancelled watcher stops and starts nothing new |
| `restore` | one restore after the other, 2+1 shards at two peers of which any may misbehave, two chunks, any content of the local directory, failing calls, kills | the output is whole and replaces nothing; steady shards suffice |
| `node` | two requests at a time, a member and a stranger, two shards; failing calls, a failing server or watcher, signals, kills, restarts in either role; fair | true answers, guarded directory, right result, nothing left running, the node returns, every request ends |
| `folder` | two adds, of four sources that collide, from three configurations, by one process at a time; another process's adds; a restore; five listed peers on four machines, one slot; failing calls, cancellations, kills; fair | peers with room on machines that may be lost; results name what was written; nothing replaced; success is complete, for adds and restores; stubs can be read; every add ends |
| `folder_unreadable` | one add of a file that is within the largest size only without its tags, or that has a backslash in its name | violation, finding 3 |

Why the bounds are enough. A race in this code is between one attempt and one
other, and a lock has one holder: two processes, and for ownership and for the
locks (`store_owners`, `store_calls`) a second handler in one of them, where a mutex can
have a waiter besides. Two
chunks are needed to tear a file and to publish a part of it; two shards per
chunk give losses of one. Three versions let a file change under a reader,
change again before the last look, and come back with the first length. Two
files let one disturb the other in the walk, before or after it. A restore
shares nothing with another one but the name of the output, and for that the
user's `Create` and `Remove` are as hard as a second restore; the theorems are
about any number. Two requests compete for the mutex, and a body that belongs to
another path needs a second shard. The changes a user makes are not bounded in `Watcher`,
where versions are used again (`MaxVersion` is three: the watcher remembers at most two of
a file besides the one there is, and where all three are taken a change would only
replace one version that nobody has looked at by another), and bounded by `MaxVersion` in `Upload`. Deadlock is checked in all runs but those of `Folder`. Identities,
peers and processes are taken as symmetric where the run checks safety only.

In `upload_safe` the local directory is not limited: a local quota that refuses a
shard is one more failing call there (`StepFails` at `keep`), while the room of the peers decides whom
`Place` finds.

In `folder` the first add meets an empty target and the second what the first has left,
complete or not; `MaxAdds` bounds them. The sources are a directory with a subdirectory and an
empty file, another of the same name that has a directory of its file's stub's
name, a single file that name, and a directory named like that file's stub. One
slot makes the probes wait for each other, which eight slots and nine peers
would do too. Sizes are scaled: a tag is 1 byte, a chunk 2 or the default, the largest file 8,
and the sources have files of 0, 1, 3 and 5 bytes: nothing, less than a chunk, and two
and three chunks of which the last is not full; the theorems are about every size.
Deadlock is not checked there, since the commands end.

Fairness. A thread inside a call goes on, because every system call and request
ends (requests have timeouts) and the Go scheduler runs it: weak fairness of its
steps. Waiting for the mutex and the flock is strongly fair: `sync.Mutex` serves
the oldest waiter after a millisecond and the kernel wakes those that wait for a
flock in turn. The timer of the watcher fires and its goroutine runs: weak
fairness. In a node, `serveAndWatch` and its goroutines go on, a read of a body
ends with its deadline (`ReadTimeout`), and whoever waits for the transfer mutex
is served in turn: weak fairness, and strong fairness of `LockTransfer`. In
`Folder`, the goroutine of an add goes on and so do those of its probes, each of
which ends within three seconds: weak fairness of the two groups. The second is
no more than it says, since every goroutine takes only a few steps. Nothing
is assumed of users, peers, faults, or that a call is begun;
`RetrySucceeds` and `SettledFileIsStored` name in the formula what they ask of
the world: the latter that the user leaves the file alone (`LeftAlone`), that it can be
uploaded in the end, and that the walk is not ended for ever by a file of an earlier
name (`WalkReaches`). Other files may change, vanish after their turn, and fail for ever.
Without `WalkReaches` TLC finds it violated, by an earlier file that vanishes in every round.

## 4. Proofs

All for every value of the constants that the named assumption of the module
allows.

| Theorem | Statement | Assumes besides |
|---|---|---|
| `LocalStoreProofs!TypeCorrect` | `[]TypeOK` | |
| `LocalStoreProofs!LocksHeld` | `[]HoldsLocks` | |
| `LocalStoreProofs!PromisesKept` | `[]PromisedShardsStay` | no power loss |
| `LocalStoreProofs!PromisesSurvivePowerLoss` | `[]PromisedShardsStay` | no failing call, no kill |
| `LocalStoreProofs!QuotaKept` | `WithinQuota` | |
| `LocalStoreProofs!QuotasBound` | `[](Usage <= most)` | every Store has a quota, of at most `most`; no power loss |
| `LocalStoreProofs!DeletesComplete` | `[]DeleteComplete` | no power loss |
| `LocalStoreProofs!OwnersRemove` | `OnlyOwnerRemoves` | no power loss |
| `LocalStoreProofs!Refinement` | `Registry!Spec` | no power loss |
| `UploadProofs!TypesHold` | `[]TypeOK` | |
| `UploadProofs!StubFinal` | `StubIsFinal` | |
| `UploadProofs!StubStored` | `[]StubIsStored` | |
| `UploadProofs!StubOneVersion` | `[]StubIsOneVersion` | |
| `UploadProofs!ErasedPublished` | `[]ErasedIsPublished` | no late changes |
| `UploadProofs!BackupKept` | `Promise!Spec` (`Backup`) | no late changes |
| `UploadProofs!LossesSurvived` | `[]SurvivesLosses` | `MinPeers >= Total` |
| `WatcherProofs!TypeCorrect` | `[]TypeOK` | |
| `WatcherProofs!AttemptsSettled` | `AttemptsAreSettled` | |
| `WatcherProofs!NothingNew` | `NothingNewAfterCancel` | |
| `RestoreProofs!TypeCorrect` | `[]TypeOK` | |
| `RestoreProofs!OutputOriginal` | `[]OutputIsOriginal` | |
| `RestoreProofs!ShardsSuffice` | `[]EnoughShardsSuffice` | |
| `RestoreProofs!NotReplaced` | `OutputNotReplaced` | |
| `NodeProofs!TypeCorrect` | `[]TypeOK` | |
| `NodeProofs!OneBodyAtATime` | `[]OneBody` | |
| `NodeProofs!NothingLeft` | `[]NothingLeftRunning` | |
| `NodeProofs!NilCancelled` | `[]NilMeansCancelled` | |
| `NodeProofs!StoreGuarded` | `GuardedStore` | |
| `NodeProofs!CreatedStored` | `CreatedIsStored` | |
| `ManifestProofs!StubReadable` | an accepted file's stub is `Readable` | a plain name, ciphertext within `MaxTotal` |
| `ManifestProofs!ConfiguredFilesAccepted` | what `max_file_bytes` allows is accepted | a valid configuration |
| `PlacementProofs!PlacementInvariant` | `[]PInv` | |
| `PlacementProofs!PlacementSafe` | `[]PlacedSafely` | |
| `FolderProofs!ImplementsPlacement` | `PlacementSpec` | |
| `FolderProofs!AddsPlaceSafely` | `[]PlacedSafely` | |
| `FolderProofs!NothingIsLost` | `NothingLost` | |
| `FolderProofs!FolderTypes` | `[]TypeOK` | |
| `FolderProofs!AddsComplete` | `[]AddComplete` | |
| `FolderProofs!ResultsIdentify` | `[]ResultsIdentifyStubs` | |
| `FolderProofs!RestoresComplete` | `[]RestoreComplete` | |
| `FolderProofs!PublishedReadable` | `[]PublishedIsReadable` | `Describable`: plain names, ciphertexts within `MaxTotal` |

The arguments.

* **LocalStore.** The types alone do not say that a thread inside a put is
  executing a put, so the first invariant adds `InCall`. The second adds
  `HoldsLocks`, which is inductive with it: only the holder of the flock is
  in the critical part. The third, `IInv`, adds `Knowledge`, what a thread at each step knows of
  the directory (a put that has linked finds its shard there and nobody has been
  promised it, a delete past its check is the recorded writer's, one that
  is about to report success has removed both). It is
  stable under the steps of others because they are outside the critical part. The
  promises, the deletes and the ownership follow; for the refinement each step is a
  step of the registry or a stutter. With power losses `DInv` adds `Durable`: what is visible is
  on disk too (`OnDisk`), but for the shard a put is about to sync, which nobody was promised.
  `QInv` adds `Room`: a put that was admitted still fits when it links, because it has held the
  flock since, whatever the quotas of the others; the bytes of a directory are a finite set
  (`BytesFinite`) that grows by one shard's at a time (`BytesGrow`), the one that somebody
  `Publishes` within its own quota. Hence the bound of `QuotasBound`, whose hypotheses are needed: one
  Store without a quota fills the directory past that of any other, and a power loss
  can undo a delete after another shard has taken its room. Those of `PromisesSurvivePowerLoss` are
  too: with failing calls the promise is lost to finding 1, and a process that dies
  between link and sync leaves the same.
* **Upload.** `Inv1` adds to the types what inodes hold (`FilesOK`) and that the reads
  and the placement of a job have the shape its step implies. `Inv2` adds that
  the shards of the chunks an attempt has completed are where its job says
  (`Stored`), that what it has read is the version of its first look once the last
  look has agreed (`OneVersion`), and that the stub's owner is done with its
  attempt (`OwnerIsDone`), so that giving up another attempt cannot take away
  shards of the stub. `LocalTo` says once that a step of one attempt leaves the
  jobs and the shards of the others alone. `EInv` follows the source from the last look to
  its removal: the path still names what was read, or nothing, and who removes it has
  published just that; it needs the user to stay away in between (`Quiet`), which
  is what the run `upload_late` denies it. `Backup` needs besides that a file about to be stored
  is there (`Present`: only who has published removes); then the copy is the version of the stub (`StubRestorable`, from
  `Inv2` and `SInv`), and each step is a store, a reclaim, the user's, or a stutter (`KindsOfSteps`). `SInv` says that no two shards of a chunk
  share a peer, which round robin gives where as many peers as shards are required
  (`NoWrap`); the map from shards to peers is then injective, as in Placement. An attempt's
  shards in a place are finitely many (`OwnCounted`), which types the counts of junk.
* **Watcher.** `Remembered` says that from one pause to the end of the next round, a file
  that still is what `previous` has of it is settled, which is what `ready` relies on: a
  change never brings back a version that is remembered (`Remembers`); `Finishing` that a cancelled watcher that is uploading is still at the
  file in `inflight`.
* **Restore.** `TempOK` says that the temporary file is a prefix of the
  original, as long as the step implies; `GotOK` that a fetch has each steady
  shard it has come by; `WorldOK` that steady shards stay. The lemma `SteadySuffice` is the
  counting argument: a set that contains `Data` steady shards has `Data` elements.
* **Node.** `Safe` joins the types, the mutex and `Verified`: the body behind a put that
  stores hashes to its path, without which the types would not be kept. `Ended`
  says what `serveAndWatch` knows of the two goroutines at each of its steps,
  `Caused` why it left the select: a result that is no failure means a signal. `Entitled` carries
  the gates through the request: who passed them is still entitled when the
  directory is changed, because role and members change only with the process,
  and no request outlives that.

* **Placement.** `SlotsKept` says that the slots left and the probes that hold one
  add up to `Slots`; without it `slots` could leave its range. `Distinct` says that no two peers that are asked are one
  machine, `Chosen` that the shards went in turn over those found. Where at least `Total`
  were required each shard is on a machine of its own (`TurnInRange`), and the map
  from shards to machines is injective: losing n machines loses n shards at most.
* **Manifest.** `ChunksAddUp`: full chunks and the last give the size, for every size and
  chunk size. The ciphertext is the size and a tag per chunk (`CipherBounds`); that it
  stays within the limit is an assumption of `StubReadable`, because no line of the code sees to it.
* **Folder.** `AInv`: an add past its walk is at an entry of its source that the
  upload has accepted. With it each step is one of `PlacementSpec` or leaves its variables
  alone, whatever `ShardBytes` comes to; and a stub that is published is one of
  `StubReadable` (`StubsOK`). `WithExtends` carries `NothingLost`.
  `LInv` adds that the library is a tree, which each `With` preserves because whoever writes
  below a directory has found it there (`TreeGrows`), and `AddedSoFar`: the entries the add has
  passed are `Included`, as `AddComplete` says of all of them in the end. It
  rests on `DestFacts`: entries of one source have destinations of their own, and stubs never
  take the place of a directory. For the results, `Identified` says of the current add what
  `ResultsIdentifyStubs` says when it has ended, and `Apart` that stubs of one top-level name have
  one author (`Unmixed`): a directory is made, and a single file's stub put, only where nothing was, and
  in the directory an add has made there are only stubs of its own (`OwnDirectory`). For the
  restore, `RInv` says of each path found at its beginning that it is restored, still in `todo`,
  or below a directory in `todo`. A directory is listed when it is reached, and that nothing below is lost
  then needs the listing to contain each entry (`ListingComplete`; the order of
  names gives every entry a place in it, `RankGrows`), and that the library only grows (`NothingIsLost`).
  What a file system guarantees is assumed, in `FolderAssumption`: the walk of a source
  reaches an entry after its directory (`Walked`), and the library is a `Tree` at the start.

Model-checked only: liveness (`CallsReturn`, `AddsEnd`, `RetrySucceeds`,
`SettledFileIsStored`, `StoredIsAnnounced`, `StopsWhenCancelled`,
`Returns`, `RequestsEnd`), since TLAPS has no support for ENABLED here. Every other
property of a run is stated by a theorem.

## 5. Findings

1. **A failed sync is forgotten** (`store_unsynced`). `WriteNewFrom` may fail
   after its link; the shard stays visible, and the next put of it is
   acknowledged without a sync (`localstore.go:55-60`). A power loss takes it
   away.
2. **The last look is not the last** (`upload_late`). A change between
   `dstore.go:293` and the removal at line 307 is deleted without being stored.
3. **A stub that cannot be read** (`folder_unreadable`). The upload accepts
   any name and files of up to 1 TiB; `Unmarshal` refuses names with a backslash
   and ciphertexts of more than 1 TiB, tags included (`manifest.go:143`, `:150`;
   `config.go:58`, `README.md:5`). The file is not missed before it is restored,
   and the watcher of an agent has removed the original by then.

Limits of what holds, which a reader should know of:

* A second writer that was told its shard is stored, because it was there
  already, has no claim on it: the first writer's delete removes it
  (`localstore.go:136`). `OnlyOwnerRemoves` is about the recorded writer.
* With fewer peers than shards one peer holds several shards of a chunk, and
  without it too few may remain (`dstore.go:408`). `SurvivesLosses` is checked
  and proved where as many peers as shards are required.
* Stability is tested on another look: `processFile` takes its own `Lstat` and
  stores what it finds, stable or not (`dstore.go:147`), although
  `docs/deployment-settings.md:99` says "After it is stable". What it stores is one
  version all the same (`StubIsOneVersion`).
* A file that ends the walk starves those after it: one of an earlier name that vanishes
  between the listing and its turn in every round, or that cannot be looked at, is an error of the walk
  and not of the file (`dstore.go:73`, `85-87`, `94`). `SettledFileIsStored` assumes that
  this ends.
* The quota is not the directory's: a process without one fills it past the quota of a node
  over the same directory, whose own puts fail from then on (`localstore.go:69`). A node that runs
  alone keeps its directory within a quota that is not lowered, but for power losses.
* One vanished file silences a round: `errors.Is` of the joined errors is true if
  one of them is `fs.ErrNotExist`, and then none is reported (`dstore.go:563`),
  although `docs/ROADMAP.md:29-30` says that failures "fail visibly".
  `Watcher!Report` has this in it: `shown` stays as it is.
* A batch that failed half way leaves its directory in the library and the same
  command fails when it is repeated (`paths.go:50`); what is there stays.
* A file `x` and a directory `x`, added one after the other, are `x.dstore` and
  `x` in the library: a restore of the library always fails on the second of them (`RestoreComplete`
  speaks of restores that succeed).
* With configured peers and no `MinPeers`, as the older commands have it, several ports of
  one machine count as several, and one peer is enough (`dstore.go:375`, `:395`);
  `PlacedSafely` promises losses only where as many machines as shards are required.
* `parsePeers` keeps one port per name, the last one given: two peers of one name
  share it (`main.go:310`).
* A file of a shard's name with wrong content makes every put of the shard fail, and no
  operation repairs it (`localstore.go:57`); a deletion is not synced and may be undone by a power
  loss (`localstore.go:139`); temporary files of killed processes are not counted against
  the quota (`localstore.go:105`).
* A new file beside an older stub of its name is skipped (`dstore.go:92`).
* Shards of failed attempts are never removed (`junk` in `Upload`): with limited
  room, retries may exhaust it. `RetrySucceeds` is checked with unlimited room.

## 6. Abstractions and what is not modelled

* Bytes: a chunk is the version it was read from, a shard its name. A shard that
  hashes to its name is that shard. Encryption contributes that two attempts
  share no shard, the erasure code that `Data` shards give the chunk.
* Files are whole chunks long, and a write changes the modification time. A write that
  keeps size and time, within the granularity of the file system, is not seen by the
  code nor distinguished here.
* Directories inside the origin folder, hidden files and links are skipped by the walk and left out.
* A peer of `Upload` is a failure domain: that several names may be one machine is
  in `Placement`.
* In `Folder` the order of a listing of the mesh is fixed by `Lists` (the shuffle comes
  later), names are compared exactly (the code folds case), and the test that source
  and library do not overlap (`pathWithin`) is left out, as are symbolic links to the source. The
  upload's key, shards and last look are in `Upload`. The agents' configurations are
  there too, although they call `processFile` from other commands: what is placed and
  written is the same for every caller.
* In `NodeConfig` identities, roles and directories of a configuration are one Boolean
  (`sound`), and so is the JSON of a stub in `Manifest`.
* In `Node` the sharing group of a request, its size and a failing `WhoIs` are reasons to
  refuse it, not data. `/v1/info` and unknown paths change nothing and are left out.
  The handlers of one server and its watcher meet at the flock of the directory, which is in `LocalStore`.
* A change of `Watcher`'s file is one step; the upload's own interleavings are in `Upload`.
* Not modelled: see the table in section 1 and the notes of `PROJECT.json`.

## 7. Plan

Written, in this order: `LocalStore` and `ShardRegistry`, `Upload` and `Backup`, `Watcher`,
`Restore`, `Node`, `Manifest`, `NodeConfig`, `Placement`, `Folder`, and the proofs of each. Next, the
most important first:

1. The composition of `Upload` and `Restore`: what a published stub gives
   back is what was removed.
2. `Upload` with `Placement` in the place of its own step.
