# relswap in TLA+

`relswap` is a library that installs and updates a program from signed releases.
It resolves a release, verifies and downloads it, stages it, runs it once as a
probe, and then switches the command to it so that a crash at any point can be
repaired. This directory holds TLA+ models of that machinery, the TLC runs that
check them and proofs that TLAPS checks. Paths are relative to the repository;
`src/` below is the crate's source directory.

- [The system](#the-system)
- [The modules](#the-modules)
- [The runs](#the-runs)
- [What the runs found](#what-the-runs-found)
- [The proofs](#the-proofs)
- [Not modelled](#not-modelled)
- [Plan](#plan)

## The system

### Components

| component | source | state it keeps | operations | talks to |
| --- | --- | --- | --- | --- |
| installation engine | `install/mod.rs`, `activation.rs`, `recovery.rs`, `journal.rs` | on disk: the command symlink (the *pointer*), `pending.json` (the journal), `install.json`, `versions/<v>/`, `staging/<tx>/`, the file lock `.lock` | `install_version`, `update`, `rollback`, `rollback_to`, `recover`, `check_latest`, `status` | release download, self-test, file-system primitives |
| self-test | `install/activation.rs` 1-229, 655-795 | the child and its process group, an atomic byte budget, a bounded channel, two reader threads | `run_self_test` | the payload |
| release download | `release/download.rs` | none between calls | `fetch_latest_metadata`, `fetch_exact_metadata`, `download_archive` | the release server, manifest and signature |
| manifest, signature, target | `release/manifest.rs`, `signature.rs`, `target.rs` | none | parse, validate, `ensure_not_expired`, `verify_manifest` | |
| archive | `release/archive.rs` | within one scan: pending metadata, names, totals; creates files under a transaction | `inspect_*`, `extract_archive` | |
| file-system primitives | `fs/executable.rs` | a counter for temporary names | `atomic_replace_file`, `create_new_file`, `atomic_switch_symlink`, `rename_new`, `sync_dir`, ... | the disk |
| private directories | `fs/security.rs` | the managed directory's owner, mode or ACL | `ensure_private_dir` and its checks | the first call of an installation |
| Windows launcher | `fs/executable.rs` 35-153, parts of `install/` | a launcher at the command path, a marker in its transaction, the selector file `active`, a record in `install.json` | payload resolution, the Windows branches of install, recovery and clean-up | installation engine |
| application description | `app.rs`, `lib.rs` | constants | | |
| release tool | `bin/relswap.rs` | on disk: archives, checksums, `manifest.json`, `manifest.sig.json`, key files | `manifest`, `sign`, `verify`, `keygen`, `trust-check` | manifest, signature, archive |

Everything an installation knows is on disk, shared by any number of processes.
One advisory lock serialises changes, but a good deal is read *before* it is
taken: each public operation starts with `recover_if_managed`, which takes and
drops the lock on its own; `update` and the rollbacks then read the pointer and
`install.json` unlocked, fetch, and only then take the lock for the activation.

An activation is a chain of durable steps: rename the staged version directory
into `versions/`, probe it, write `pending.json`, rename a new symlink over the
command, write `install.json`, remove `pending.json`. `recover_locked` looks at
the journal and the pointer and finishes the chain or discards it.

### What is hard

- **Crashes** between any two steps, of an activation and of a recovery, and the
  recovery by another process.
- **Interleaving** around the unlocked reads, and in the gap between the
  recovery's lock and the operation's own.
- **Ordering on disk**: a rename survives a power loss only after its directory
  was synced, and entries in different directories survive independently.
- **The user**, who may put a command of their own at the path, or lose
  `install.json`.
- **The probe**: two reader threads, the caller's clock, a payload that may exit
  early, flood its output, never exit, or leave descendants with the pipes.
- **The publisher**, who moves `latest` and replaces assets while a client is
  between its requests, and **time**, which passes while it waits for the lock.
- **Proof of ownership** on Windows: whether the file at the command path is
  ours is known only from what other files say of it, and each of those is
  written at another moment and may be cleaned away or lost.
- **The release tool**, whose commands share nothing but files they write in
  place, while builds go on and commands are killed in the middle of a write.
- **Names and first starts**: threads that share a counter, processes that reuse
  a pid, several first runs that make the same directory.

### What makes each part correct

- Installation engine: recovery always has an unambiguous answer; everything
  named is retained; one installation id; updates go up and rollbacks go down; a
  retained version never changes; the user's command is not overwritten; a live
  transaction is not cleaned away; calls return; and all of it together behaves
  as a selector that changes in one step.
- Durability: the same after a power loss, and what a call did before it
  returned is still there.
- Self-test: the budget is exact, a verdict is about the whole output and true
  of the payload, the probe returns, and leaves nothing behind.
- Release download: what is activated is one release as its publisher meant it,
  fresh and valid, and a fetch fails only for a cause.
- Archive: the one pass over it accepts exactly what a look at the whole would,
  and within every limit.
- Extraction: a failure undoes exactly what was done, success is where the path
  says.
- Launcher: what it starts is what is active, it can always be shown to be ours,
  it is never replaced, and the whole is the same selector as on Unix.
- File-system primitives: what appears at a path is whole and of one writer, and
  writers do not get in each other's way.
- Private directories: whoever is admitted is in a private directory, and a race
  among our own runs refuses nobody.
- Release tool: what it writes and reports is true of the files; a key pair is
  there as a whole or not at all.

`PROJECT.json` lists the hazards line by line with the properties that cover
them.

## The modules

| module | models |
| --- | --- |
| `Selector` | the abstract specification: `current`, `previous`, `retained`; activations are atomic and there are no crashes |
| `Activation` | the installation engine on Unix, and its refinement of `Selector` |
| `ActivationInv` | the inductive invariant of `Activation`, in named parts |
| `ActivationProofs` | the theorems about `Activation` |
| `DurableSelector` | the abstract specification where power can be lost: a `Selector` whose last change can be taken back |
| `Durability`, `DurabilityProofs` | `Activation` on a disk that can lose power, its refinement of `DurableSelector`, and the theorems |
| `SelfTest`, `SelfTestProofs` | `run_self_test`, and the theorems |
| `Sums`, `SumsProofs` | the sum of a sequence of numbers, as a recursive function, and what is proved of it |
| `ReleaseFetch`, `ReleaseFetchProofs` | resolving, fetching and re-checking a release against its publisher, and the theorems |
| `ArchiveScan` | the inspection of a tar stream or a zip directory |
| `Extraction` | `extract_archive`: `ArchiveScan`, and then the writing of what it found |
| `Launcher` | the Windows strategy of the installation engine, and its refinement of `Selector` |
| `LauncherProofs` | its invariant and the theorems about it |
| `Transfer` | reading to a ceiling, in the four places that do it |
| `NewFile` | temporary names and the three operations that publish a file |
| `PrivateDir` | `ensure_private_dir` on both platforms |
| `ArchiveProofs` | the theorems about `ArchiveScan` and `Extraction` |
| `KeyGen` | `relswap keygen` |
| `ReleaseTool` | `relswap manifest`, `sign` and `verify` on one directory |
| `Parts` | `Extraction`, `ReleaseTool`, `KeyGen`, `NewFile`, `PrivateDir` and `Transfer` side by side |
| `PartsProofs` | the theorems about `Transfer`, `PrivateDir`, `NewFile`, `KeyGen` and `ReleaseTool`; that `Parts` implements each part, and what follows |
| `MCActivation`, `MCDurability`, `MCReleaseFetch`, `MCLauncher`, `MCParts` | symmetry sets and bounds for TLC, and the records and sizes it draws from |

Definitions whose comment begins with *A bug:* are not part of any
specification. Each is a plausible mistake in the definition that follows it;
putting it in that definition's place must break the property it is listed with
in `PROJECT.json`.

### Activation

Any number of processes `Proc` each run one call after another. The variables
`pointer`, `pending`, `install`, `versions`, `staging` are the disk; `lock` is
the owner of `.lock`; `pc` and the locals are the state of each call, with
`from` the current version as last read, `tgt` the version to activate and `id`
the installation id chosen. A version directory is its installation id and the
signed metadata it was published with; that is all that later checks look at.
`Published` is the set of releases there are, as versions with a signature.

Labels and code, in order: `probe` and `lockExisting` (`recover_if_managed`),
`recover`, `unjournal`, `clean` (`recover_locked`), `current`, `described`
(`require_managed_current`), `fetch`, `target` (`rollback`, `rollback_to`),
`unmanaged` (`activate_download`), `lockForMutation`, `locked`, `prepare`,
`stage`, `rename` (`activate_download_locked`), `journal`, `switch`, `relink`,
`describe`, `commit`, `finish` (`activate_pointer_and_state`). A step ends where
something another process, a crash or the user can see has changed, or where the
code reads shared state a second time. Steps that prepare private data
(extraction, `version.json`, the probe) are part of the step that publishes it.

`Fail` stands for an I/O error, a refused download, a failed probe, an injected
`FaultPoint` and the death of the process: each leaves the disk as it is and
drops the lock (`InstallLock::drop`, or the kernel). `UserCreatesCommand`,
`UserRemovesCommand` and `InstallLost` are the environment. Two history
variables support the properties: `edited` (`install.json` was changed from
outside since it was written) and `late` (the user's command appeared after the
ownership check of a running activation).

### Durability

Every entry (`pointer`, `pending`, `install`, each version) has a set of
`survivors`: the values it may have after a power loss. A write adds a value,
and `SyncDir` reduces the entries of that directory to what they now hold. After
each write the process owes the `sync_dir` calls the code makes next, in
`syncing[p]`, and goes on when they are done. `PowerLoss` ends every process and
picks a survivor for every entry independently: more than most file systems
would do, and no more than POSIX allows. The actions are those of `Activation`,
each with the syncs that follow it; `sync_affected_parents` is a sequence of
three. File contents are synced before the rename that publishes them, so an
entry is never torn. The environment's edits are left out, and the directories
themselves are taken to be durable (the code creates them with `create_dir` and
syncs no parent).

`DurableSelector` is what all this comes to: a selector with a copy, `durable`,
of what no power loss can take. `Change` is a step of `Selector` and waits until
the last one is certain; `Settle` makes it certain; `Lose` takes it back.
`AtWorst` is `Activation` on the disk that comes back at worst, in which the
pointer and each version are what they were before the write that is not certain
yet (`Earlier`), and `durable` is the selector of that disk. Which journal and
which `install.json` come back is the same to who reads the selector.

A process dies, or returns an error, at any step: before, between and after the
syncs it owes, or because one of them fails. What it then leaves unsynced stays
so until somebody next has a reason to sync that directory, and others go on
from there. `LeftUnsynced` is the set of
entries for which this is allowed while another value may still come back
(`AtRisk`). The code lets a process die there itself: `remove_pending` only
unlinks, and `FaultPoint::PendingRemoved` lies between it and
`sync_affected_parents`. So `LeftUnsynced` has `pending` in every run, and the
journal can then have many survivors: an old one, none, the next one, and the
one after that. Everything else is renamed with its `sync_dir` in the same call,
without a fault point between; a `SIGKILL` or a failing `sync_dir` can still
leave it unsynced, and none of it can be allowed. With the pointer and with a
version directory two runs show what goes wrong (findings 2 and 3). With
`install.json` a transaction that follows can put its journal over the one that
was to repair it; when that journal survives and `install.json` does not, what
is left is a command without a description (`InstallDescribesPointer`), which a
later recovery writes anew without the version to roll back to. In TLC each of
the three alone breaks `SurvivesPowerLoss` with two processes and three
versions.

### SelfTest

`reader[s]` is one thread per stream: it reads a chunk, charges the shared
budget `spent` with a compare-and-exchange loop (`Reserve` is one turn: it uses
the value loaded earlier, and reloads if that has changed), sends over `chan`,
which blocks while it is full, and ends with a message of its own. The caller
polls (`try_wait`), checks the clock and waits for a message, in the order of
the loop. The payload writes, forks a descendant that inherits the pipes, and
exits; the descendant may leave the process group (`setsid`), which
`terminate_self_test` cannot follow. Bytes are counted; the contents are only
where in a stream the version was printed.

### ReleaseFetch

The publisher creates releases (`Publish`: all assets at once, as a draft that
goes live), moves `latest`, and re-publishes a release by replacing its assets
one at a time (`BeginReplacing`, `ReplaceAsset`). The client asks for the
manifest, the signature and the archive. A URL is the release it names; `named`
is what `response_history` yields. A URL other than `latest` may be redirected
to another release. After the download the call waits for the installation's
lock, and `VerifyMetadata` checks again what may have changed: the expiry.
`offset` is the error of the client's clock, at most `EXPIRY_CLOCK_SKEW` either
way. The history variables say what was latest during the call (`seen`), which
releases were being replaced (`touched`), and whether a redirect led astray
(`forwarded`). `Activation` takes from all this that a fetch ends with some
version and some signed metadata.

### ArchiveScan

`tape` is what has been read; each step takes one more record, any of `Records`.
The variables are the locals of `inspect_tar_gz` and
`DecompressedLimit.remaining`, and a step is one turn of its loop, for zip one
of `inspect_zip`'s. A path is one of five things `validate_member_name` can make
of a name: the root, the payload, the launcher, another one, or an error. Sizes
are in blocks, of which a header is one and the data of a metadata record
another. `Sound` and `Whole` say what an acceptable archive is by looking at all
of a tape: each member with the metadata records since the member before it, and
the global ones so far. They are written with none of the scan's operators. Left
out are the text of names and pax records, checksums, padding, the file name
that ends in a slash, encryption and compression methods (each is an early
return that changes nothing), and the search for the zip directory, of which
only the count of members is here.

### Extraction

When `inspect_archive` has returned, the destination is opened (`handle`) and
payload and launcher are created in it one after the other: `Create` is the
exclusive `openat`, `Fill` the writing and syncing, `Unlink` the removal of a
file that could not be filled, `Undo` that of the payload when the launcher
failed, `Identify` the last look at the path, `Clean` what follows when that
fails. Every step may fail, the removals too. Others may move the directory, put
another in its place, and create or remove files of the same names. They leave
open files alone, so that the contents are not modelled. `stuck` and `taken` are
history variables: what we could not remove, and what others removed of ours.

### Launcher

On Windows the command is a launcher, created once by `create_new_file` and
never replaced; what it starts is named by the file `active`. Each release
carries a launcher (`launcherOf`). The variables `active`, `pending`, `install`,
`command`, `versions`, `staged` and `marker` are the disk: `marker[t]` is the
launcher that transaction `t` says it is about to create. `prior` is the
launcher that was shown to be ours at the start, `known` and `from` are
`install.json` and `active` as read. Labels, in order: `probe`, `await`,
`recover`, `unjournal`, `clean` (a recovery); `prove`, `mutate`, `begin`,
`tidy`, `own`, `stage`, `write`, `create`, `publish` (an install up to its
retained version) or `back` (a rollback up to there,
`activate_existing_locked`); `journal`, `switch`, `describe`, `commit`, `sweep`
(the activation). `Orphaned`, `Retained`, `Owned` and `Undecided` are the
conditions of `cleanup_staging`, `launcher_ownership_for` and `recover_locked`.
A running launcher (`RunOpens`, `RunReads`, `RunEnds`) holds `active` open while
it resolves the payload, which keeps `Switch` from replacing it (`SwitchShared`
is the bug of opening it with all sharing). What a call looks at before it takes
the lock to mutate is in `Activation` and the same on both platforms. `MayLose`
says whether `install.json` may be lost.

### Transfer

A body of `arriving` bytes is read in pieces to a `ceiling`, by
`read_response_body_observed` with and without an observer, by `read_limited`
and by `read_regular_limited`, whose file may grow between the look at its
length and the last read. Lengths stand for the bytes, and limits are words of
`MaxWord`: `ReadLimit` is the ceiling plus one, whose overflow the code checks.

### NewFile

Threads of one process take temporary names from `TEMP_COUNTER` and each carries
out one of the three operations, with `create_temporary_file`'s retries; `Kill`
ends the process and leaves its temporary files to the next one, which may have
the same pid and begins to count anew. `atomic_switch_symlink` does not retry
its name, as in the code. `orphans` is the history of what was left.

### PrivateDir

First runs and somebody else make the managed directory at the same time. What
somebody else makes is a directory of the same user, one of another user, or a
link (`DirKind`). `make` is `mkdir` (with the mode or the ACL), which on Unix takes
whatever leads to a directory; `tighten` is the Unix `set_permissions`, which
goes by the path, fails on what is another user's and follows a link; `confirm`
is the validation after it, which finds the link out; `reopen` is the Windows
arm in which the loser of the race validates what the winner made. `secluded`
stands for mode and ACL as they must be. Nobody removes or replaces what is at
the path.

### KeyGen and ReleaseTool

`KeyGen` is `generate_key`: both paths are looked at, then the private file and
the public one are created exclusively, and a failure of the second removes the
first. Runs may be given the same paths, also crosswise. In `ReleaseTool` the
workers run `manifest`, `sign` and `verify` over a directory whose archives
builds replace at any time (`Rebuild`). Every command reads one file after the
other, and `std::fs::write` truncates before it fills, so that a killed command
leaves a `Torn` file. A manifest is a map from platforms to builds, an envelope
one from keys to manifests. `Mixed` is an asset whose archive and payload
digests are of different builds. `alone` is a history variable: the commands
whose files nobody else has touched.

## The runs

| run | module | bounds | states | shows |
| --- | --- | --- | --- | --- |
| `activation_safety` | MCActivation | 2 processes, 3 versions, 2 ids, 2 signatures (2 of version 2, 1 of the others), 2 transactions | 2.58 M | the safety and action properties, and the refinement |
| `activation_liveness` | MCActivation | 2 processes, 2 versions, no symmetry | 0.34 M | `CallsReturn` |
| `activation_rollback` | MCActivation | 2 processes, 3 versions | until found | the rollback finding |
| `selftest_safety` | SelfTest | limit 3, chunk 2, channel 1, pipe 2, output 2 per stream, timeout 2, retry after 1 | 2.98 M | budget, completeness of output, verdicts |
| `selftest_liveness` | SelfTest | all 1, timeout 2 | 0.18 M | the probe returns and leaves nothing behind |
| `durability_safety` | MCDurability | 2 processes, 3 versions, the journal left unsynced | 2.15 M | power loss at any step, processes dying and failing between a write and its sync, and the refinement of `DurableSelector` |
| `durability_unsynced` | MCDurability | 1 process, 1 version, the journal and the pointer left unsynced | until found | the first durability finding |
| `durability_reused` | MCDurability | 1 process, 1 version, the journal and a version left unsynced | until found | the second durability finding |
| `releasefetch` | MCReleaseFetch | 2 versions, 2 archives, 2 keys, 2 redirects; 3 publications while time stands still, or 2 with 2 dates, skew 1 and the clock to 3 | 1.96 M | the publisher's races, and expiry by a skewed clock |
| `launcher_safety` | MCLauncher | 2 processes, 3 versions, 2 launchers, 1 transaction | 3.90 M | the Windows strategy: ownership of the launcher, what runs, recovery, and the refinement |
| `launcher_recovery` | MCLauncher | 1 process, 2 versions, 2 launchers | until found | the launcher finding |
| `parts` | MCParts | see below | 2.00 M | the parts that share no state with one another |

`parts` is the union of six small systems. Each behaviour is one of one part,
picked in the initial state, while the others rest in a single initial state of
theirs; so its states are the sum of the parts' and not their product, and each
property of one part says of the others only that their resting state is fine.
That every step of `Parts` is one of one part, and that each part's own
specification is implemented, is proved in `PartsProofs`.
The bounds: for the archive, 4 records of 20 in a tar and 26 in a zip, member 2,
contents 3, stream 8 blocks, 2 directories, 5 doings of others; for the release
tool, one command on two platforms, two at once on one platform with two builds,
or one with all builds and two keys; for `KeyGen`, 2 runs and 3 paths; for
`NewFile`, 2 threads, 2 tries, a counter to 2, one kill; for `PrivateDir`, 3
runs; for `Transfer`, words to 5, bodies to 7, reads to 2.

**Why the bounds are enough.** Two processes suffice for every interference: the
lock admits one activation, and a third process can only do at another time what
the second does. Three versions are what it takes to have a current, a previous
and a target that differ, and to go up and down between them. Two installation
ids let a wrong second id appear, two signatures a release signed again. Two
transactions let a second one be left beside the first; it never is, because
whoever stages has cleaned `staging` before, under the lock, and so the other
runs have one.
In `SelfTest` the two streams can together exceed the limit (4 > 3) while one
alone does not, a chunk can straddle it, a channel of one slot blocks the second
sender, and a spawn that found the payload busy is retried once before the
timeout and not again after it. In `ReleaseFetch` three publications are two releases and the
replacement of one of them; two redirects are `latest` to a release and on to
another; and with a skew of 1 the four values of the clock reach beyond the
latest date by more than twice the skew only for the earlier date, which is what
makes both sides of the window reachable. In `ArchiveScan` four records are a
member with two metadata records and another member; the fifth is one too many;
a member can be over its limit by a pax size, two can be over that of the
contents, and metadata and data together reach the last block of the stream and
the one after it. In `Extraction` five doings of others can move the directory
away and back, and take our files and put their own there. In `Launcher` three
versions and two launchers are two releases that share one and a third that does
not, in every arrangement, since `launcherOf` is any map; one transaction
suffices, since a second could only be a leftover, and the leftover of one
process is met by the other. In `ReleaseTool` the archive must be of two usable
builds and an unusable one for the three readings to mix them, and a second key
is what `sign` keeps of a manifest that was written again. In `NewFile` as many
files can be left by a kill as there are tries. In `Transfer` the ceiling goes
to the largest word and bodies go past it, so that the byte beyond and its
overflow are both met.

Bounds the code does not have: `Bounds` (times, publications and dates
together), `MaxRecords` and `MaxTape`, `MaxMeddled` (doings of others), `Sizes`,
`MaxCounter`, `MaxKills`, `MaxBody`, and `MaxOutput` (what a payload writes).
`MaxTries` is 32 in the code, the limits are megabytes; only their order
matters.

**Symmetry** permutes processes, ids, transactions, archives or launchers: none
of them is named in a property or compared but for equality. Signatures are not
permuted, since `ResignedOnce` names one, and versions, being ordered, never
are; the liveness runs and `parts` use no symmetry.

**Fairness.** `CallsReturn` assumes weak fairness of each process's work (a
process that does not fail is scheduled) and *strong* fairness of acquiring the
lock, because the lock is free only from time to time: `flock` blocks, and the
kernel queues its waiters. Nothing is assumed of new calls, failures or the
user. In `SelfTest` the clock advances, the caller and the reader threads are
scheduled; the payload and its descendants owe nothing, not even to exit, and a
read that waits for them need not fail. Deadlock is not checked in the self-test
runs, where the probe ends, nor in `parts`, where an extraction, a run of keygen
and a transfer end.

**Properties worth a remark.**

- `RecoveryNeverRefuses`: the branches of `recover_locked` that return an error
  are dead code, short of a user's own command in the way.
- `PendingExplainsPointer` holds although `activate_pointer_and_state`
  overwrites whatever journal it finds, without a recovery under its own lock.
- `DirectionKept` speaks of what is active when the command is replaced, not of
  what was read before the lock.
- `StagingKept` needs the lock around `cleanup_staging`; it also says that dead
  transactions do not pile up.
- `NothingLeftBehind` excepts a descendant in a session of its own: its reader
  thread lives as long as it holds the pipe.
- `RefusedForCause` is the converse of the usual safety property: it says which
  refusals cannot happen. That `latest` moves in mid-fetch is no cause, since
  the signature and the archive are asked of the release already resolved.
- `ActivatedWhileValid` allows twice the skew: once because the clock may be
  behind, once because the code allows it to be ahead.
- `SurvivesPowerLoss` is what `Activation` keeps over the death of a process, of
  any mixture of entries a power loss can leave.
- `ImplementsDurableSelector` adds to it how much can be lost: one change, and
  that as a whole, so that a version directory never comes back without one
  retained before it, nor a command with the `previous` of another.
- `JudgedAsWhole` is both directions of one equivalence (`AcceptedIsWhole`,
  `RefusedIsNot`) and the exactness of the totals; the second direction is where
  a limit off by one shows.
- `FilesKept` joins what three parts promise of files that are not theirs. In
  `OthersKept` it allows for one thing: the clean-up of an extraction goes by
  name, so that a file another puts in place of one of ours, after removing
  ours, is removed for ours. That window is the code's, and no property covers
  it.
- `LauncherProvable` is why the marker is written before the launcher is created
  and outlives it, unless a version is retained that carries it. Without it an
  installation would take its own launcher for the user's.
- `RecoveryNeverRefuses` of `Launcher` is about releases that share one
  launcher; for others it is false, see finding 4.
- `ReportsTrue` judges a `verify` only when nobody touched its files meanwhile.
  `Publishable` is what `verify` promises, which is more than a client asks: the
  checksum files too, and that no archive is left unlisted;
  what a manifest describes (`ManifestOfBuilds`) holds at any moment.
- `NamesApart` shows that a thread never exhausts its tries by the names of
  other threads: only files left by killed processes can make it fail.

## What the runs found

1. **`rollback` may go past the previous version** (`activation_rollback`). The
   target is `install.json`'s `previous`, read without the lock; under the lock
   only its being older is checked. With versions 1 and 2 installed, and an
   update to 3 in between, the call moves the command from 3 to 1, and 2 is the
   version before 3. The documentation of `rollback` promises `previous`.
2. **Killed between rename and sync, then power lost during recovery**
   (`durability_unsynced`). A first install dies after the symlink is renamed
   into place and before its directory is synced. The recovery sees the new
   pointer, writes `install.json` and syncs it, removes the journal, and then
   syncs the parents. If power is lost before it has come to the command's
   directory, the removal of the journal may be on the disk and the rename of
   the command not: what is left is an `install.json` with an active version, no
   journal and no command, which recovery refuses from then on. Syncing the
   command's directory before the recovery writes `install.json` would close it:
   with that step in the model the pointer can be left unsynced, and TLC finds
   `SurvivesPowerLoss` kept. Syncing it after `install.json` and before the
   journal is removed is too late: `install.json` and the journal may then
   survive without the command, and the recovery that finds them discards the
   journal.
3. **Killed between rename and sync of a version directory, then reused**
   (`durability_reused`). The next install finds the directory and does not sync
   `versions/`, so the journal or the command can be durable before the
   directory they name. Syncing `versions/` when an existing directory is
   accepted would close it.
4. **Different launchers, and a crash before `install.json`**
   (`launcher_recovery`). On Windows, a first install dies after its version
   directory is renamed and before the switch: its launcher and its version
   stay. A release that carries another launcher is then installed; the launcher
   at the command path is shown to be ours by the retained version, and kept. If
   that call dies between its switch and `install.json`, the recovery has no
   `install.json` to go by and compares the installed launcher with the one the
   new version carries (`launcher_ownership_for`): this call and every later one
   refuses. Comparing with every retained version, as the install itself does,
   would close it.

The second and third need a file system that keeps nothing of an entry not
synced, and a power loss soon after the death of a process.

## The proofs

Everything below holds for any sets of processes, versions, ids, signatures,
launchers, transactions, threads, runs, paths, directories, targets, builds and
keys; for any records an archive can hold, any publisher and any payload; and
for any word size, limit, skew, timeout, count of tries and size of a channel, a
pipe or a chunk.

| module | theorem | states |
| --- | --- | --- |
| `ActivationProofs` | `TypeCorrect` | `Spec => []TypeOK` |
| | `Invariant` | `Spec => []IInv` |
| | `JournalExplains` | `Spec => []PendingExplainsPointer` |
| | `NamedRetained` | `Spec => []NamedVersionsRetained` |
| | `OneId` | `Spec => []OneInstallation` |
| | `DescribesPointer` | `Spec => []InstallDescribesPointer` |
| | `RecoverySucceeds` | `Spec => []RecoveryNeverRefuses` |
| | `DirectionIsKept` | `Spec => DirectionKept` |
| | `RetainedForever` | `Spec => RetainedImmutable` |
| | `StagingIsKept` | `Spec => []StagingKept` |
| | `UserCommandIsKept` | `Spec => UserCommandKept` |
| | `Refinement` | `Spec => ImplementsSelector` |
| `DurabilityProofs` | `DurabilityTypes`, `DurabilityInvariant` | `DSpec => []DTypeOK`, `DSpec => []DInv`, both if `LeftUnsynced \subseteq {"pending"}` |
| | `PowerLossSurvived` | `DSpec => []SurvivesPowerLoss`, under the same hypothesis |
| | `ReturnedIsCommitted` | `DSpec => []Committed`, under the same hypothesis |
| | `DurableRefinement` | `DSpec => ImplementsDurableSelector`, under the same hypothesis |
| `SelfTestProofs` | `ProbeTypes`, `ProbeInvariant` | `Spec => []TypeOK`, `Spec => []SInv` |
| | `BudgetIsExact` | `Spec => []BudgetExact` |
| | `OutputIsComplete` | `Spec => []OutputComplete` |
| | `VerdictIsRight` | `Spec => []VerdictRight` |
| `ReleaseFetchProofs` | `FetchTypes`, `FetchInvariant` | `Spec => []TypeOK`, `Spec => []FetchInv` |
| | `OneReleaseIsActivated` | `Spec => []OneRelease` |
| | `LatestWasLatest` | `Spec => []LatestIsFresh` |
| | `ActivationIsInTime` | `Spec => ActivatedWhileValid` |
| | `RefusalHasCause` | `Spec => RefusedForCause` |
| `LauncherProofs` | `TypeCorrect`, `Invariant` | `Spec => []TypeOK`, `Spec => []LInv` |
| | `OursProvably` | `Spec => []LauncherProvable` |
| | `RecordedTruly` | `Spec => []LauncherRecorded` |
| | `StartsActive` | `Spec => []RunsWhatIsActive` |
| | `OneLauncherRecovers` | `Spec => []RecoveryNeverRefuses` |
| | `NeverReplaced` | `Spec => NothingReplaced` |
| | `Refinement` | `Spec => ImplementsSelector` |
| `ArchiveProofs` | `JudgeInvariant` | `ExtractSpec => []JInv`: what the scan carries and counts is what the tape says |
| | `JudgesAsWhole` | `ExtractSpec => []JudgedAsWhole` |
| | `ExtractTypeCorrect`, `ExtractInvariant` | the types, those of the scan too, and the invariant `EInv` |
| | `ExtractedAsWhole` | `ExtractSpec => []AllOrNothing` |
| | `OthersAreKept` | `ExtractSpec => OthersKept` |
| `PartsProofs` | `TransferTypeCorrect`, `TransferInvariant` | the types, and the invariant of the four readers |
| | `BodiesTakenToCeiling` | `TransferSpec => []TakenToCeiling` |
| | `DirTypeCorrect`, `DirInvariant` | the types, and the invariant of the race |
| | `OnlyPrivate` | `DirSpec => []AdmittedIsPrivate` |
| | `NewFileTypeCorrect`, `NewFileInvariant` | the types, and the invariant `NFInv` of the names |
| | `NamesStayApart` | `NewFileSpec => []NamesApart` |
| | `PublishesOwn` | `NewFileSpec => PublishedIsOwn` |
| | `KeyTypeCorrect`, `KeyInvariant` | the types, and what each run knows of its files |
| | `PairedOrNothing` | `KeySpec => []KeysPaired` |
| | `NothingOverwritten` | `KeySpec => KeysNotReplaced` |
| | `ToolTypeCorrect`, `ToolInvariant` | the types, and what each command knows: `ToolInv` |
| | `CommandsReportTrue` | `ToolSpec => []ReportsTrue` |
| | `PartsTypeCorrect` | `PartsSpec => []PartsTypeOK` |
| | `PromisesAreKept` | `PartsSpec => []` of all that the parts promise |
| | `AllFilesAreKept` | `PartsSpec => FilesKept` |

The assumptions are the named ones of each module: versions, dates and sizes are
natural numbers (a chunk, a pipe, a channel and the tries not zero), the
releases, records and workers that take part are of the sets they are drawn
from, and the values that mean *nothing*, *empty*, *torn*, *mixed*, *the user's*
or *someone else's* differ from everything else. TLC evaluates every one of
them. The types of `Activation`, `Durability` and `Launcher` are proved and not
checked in a run.

**`Activation`.** None of the safety properties is inductive: that the journal
explains the pointer after `WritePending` depends on `from` still being the
pointer, which was read several steps before. `IInv` adds, in `ActivationInv`:

- `LockOwned`: the lock's owner is exactly the process in a locked section, so
  that of two processes at locked labels one would not own it;
- `LocalsOK`: what each label implies of a process's own locals;
- `DiskOK`: the disk properties, with `InstallImpliesPointer` (an `install.json`
  never comes before a pointer) and `InstallCurrent` (it is about the pointer,
  or was blanked);
- `HolderOK`: what the process under the lock has established, label by label:
  that `from` is what the pointer was (`FromIsPointer`), the checks of
  `ensure_command_owned` and the id chosen (`Owner`), the journal it wrote
  (`Journaled`).

Each action is shown to preserve each part. The actions of a lock holder leave
the parts of other processes alone because those hold at locked labels only; the
environment changes the disk only in ways `FromIsPointer` and `InstallCurrent`
allow for. `RecoveryNeverRefuses` follows from `DiskOK` alone. For `Refinement`
the mapping is: `current` is the pointer, when it is a version; `previous` is
the journal's `from` as soon as the pointer has reached the journal's `to`, and
`install.json`'s otherwise; `retained` is the set of version directories. The
switch of the symlink is the one step that maps to `Activate`; `RenameVersion`
maps to `Retain`; `InstallLost` and a repair that cannot keep the old `previous`
to `Forget`; everything else stutters.

`StagingKept` and `UserCommandKept` rest on an invariant each, inductive
together with `IInv`. `StagingOwned`: a process that has a transaction is in the
part of the activation after `stage`, so under the lock, and its transaction is
all there is in `staging/`, which `cleanup_staging` had emptied before.
`LateKept`: a command of the user that stands at the path while a process is
past its ownership check is `late`.

**`Durability`.** The theorems have one hypothesis, that no entry other than the
journal is left unsynced by a process that dies or fails (`LeftUnsynced
\subseteq {"pending"}`); power may be lost anywhere. Without it the properties
are false. That includes every death at a `FaultPoint` and every `sync_dir` that
fails while only the journal is at risk. `DInv` has these parts beside `IInv`:

- `Present`: what is written is among the survivors.
- `Synced`: the pointer, `install.json` or a version has another survivor only
  while the process with the lock owes its directory a sync.
- `JournalCertain`, `JournalSynced`: the journal may have any number of
  survivors, but it is certain whenever the pointer is its `to` already, and to
  who is about to switch or has returned.
- `Consistent`: whatever survivors come back together, they satisfy `DiskOK` of
  `ActivationInv`, which is instantiated with the mixture in place of the disk.

The last is not a matter of one write at a time, for an old journal can come
back with what was written long after it. It holds because a journal that came
and went explains the pointer that stayed as well as none does: a switch finds
its own journal certain, and a version it names is never removed. So a write of
the journal adds mixtures that differ from known ones in the journal only
(`JournalWritten`), a renamed version is in no journal's way
(`RenamedMixture`), and when `install.json` is written the pointer is certain
(`InstallWritten`). A sync only takes mixtures away and a death changes none; a
power loss takes one of them for the disk, with every process gone,
where `IInv` asks no more than `DiskOK`. `Committed` is `Synced` and
`JournalSynced` when nothing is owed.

`DurableRefinement` needs one more part: the pointer and each version come back
as they are or as they were (`TwoSurvive`), they differ for one of them at most
(`OneAtRisk`), and which journal and which `install.json` come back is the same
to who reads `previous` off the disk (`Moot`). A write of the pointer or of a
version finds those certain, so that before it `durable` is the selector, and
after it what the selector was: a `Change`, or a stutter where the write only
prepares or tidies. A sync of the directory with the entry at risk is `Settle`,
any other a stutter. A power loss brings back the disk as it is, which is
`Settle`, or as it was, which is `Lose`. That a write is a step of `Selector`
comes from the lemmas of `Refinement`, since a step of `Durability` is one of
`Activation`.

**`SelfTest`.** `BudgetExact` is preserved by a `Reserve` whose loaded value is
still the budget, and a stale value makes it reload, so no charge is lost; the
budget is what the caller has, what is in the channel, and what a reader has
charged and not sent yet. The sum over the channel (`Queued`) is a `SumSeq`, a
recursive function of the index; what it is after `Append` and `Tail` is proved
in `SumsProofs` by induction, over a set of naturals, since the library's
theorems of induction take a predicate. `Conserved` follows every byte from
`wrote` through the pipe, the reader and the channel to `output`, until the
limit is met; `EndsTold` counts the readers' last messages; `Drained` says that
a reader that has seen the end of file left nothing, now or later, for the
payload and its descendants have closed the pipe. Together they give
`OutputComplete` at the only place where the caller concludes that both ended.

**`ReleaseFetch`.** `ServerOK` relates a release that is being replaced to what
its publisher means it to become; `Witnessed` puts everything that happened at
the server during the call into the history variables; `RequestOK` and
`FetchedOK` say at each request what is known of the pieces so far.
`OneRelease` does not need the publisher to be still: the signature is over the
manifest and names the archive's digest, so pieces of two releases are refused.
`RefusedForCause` is what `FetchedOK` says of a release that is not `touched`.

**`Launcher`.** Again nothing is inductive by itself. `LInv` adds `LockOK` (who
is at a locked label owns the lock), `LocalsOK`, `RecordsOK`, `StepsOK` and
`HistoryOK`. The key is `RecordsOK`: once anything is active, some *retained*
version carries the launcher at the command path; and before that either a
retained version carries it or a marker vouches for it. So the clean-up, which
removes a marked launcher only when nothing is active and nothing retained
carries it, takes away a proof only with what it proves. `StepsOK` says what a
process counts on from one step to the next (`from` is `active`, the transaction
is staged with its marker, version and launcher are in place); that others leave
it alone follows from the lock, except for the loss of `install.json`, for which
`HistoryOK` says that it may be gone but is never another. `RunsWhatIsActive` is
part of the invariant, by the guard of `Switch`; `NothingReplaced` follows from
it and the guards of `Create` and of the clean-up; `OneLauncherRecovers` from
`RecordsOK` alone, where it shows that `SameLauncher` is the missing premise.
The refinement maps `Switch` to `Activate`, `Publish` to `Retain`, a lost
`install.json` and the repair of it to `Forget`.

**`Transfer`.** What was received is within the read limit, and the limit is
only computed where it does not overflow. **`PrivateDir`.** A run past its look
stands before a directory; one that a run made is the user's own and has been
private since it was made; and nobody gets past the `set_permissions` of another
user's.

**`NewFile`.** The numbers of one process's threads differ (`TicketsApart`), so
what is under a name is held by the one thread of that name or is an orphan
(`TemporariesOK`). `TriesOK` accounts for every retry: a thread that was refused
`m` names has met `m` different orphans, with numbers below its own; so a thread
that gave up has met `MaxTries` of them, which is `NamesSuffice`. The conjunct
about `Cardinality` rests on the library's theorems on finite sets.

**`ArchiveScan`.** `JudgedAsWhole` compares the scan with operators that look at
all of a tape, and the scan takes one record more at a time. So most of
`ArchiveProofs` is about a tape with one more record (the lemmas `...OfOneMore`):
what it says of a member it has already does not depend on what follows; what it
says of the new one is the last path, link or size among the records since the
member before; the totals grow by that record's own. `JInv` then has three parts
while the scan reads a tape that is `Sound` so far. `Carried`: the long name, the
long link and the pax record that are pending are the only ones of their kind on
the tape since the last member. `Inherited`: a global field is what the last
global record with that field made of it. `Counted`: names, contents, the room
left in the stream and the files found are those of the members so far. Each
refusal of the code is shown to break one conjunct of `Sound` for the tape with
the record that was refused; each record it takes keeps all of them; and at the
end of the tape what the code still asks for is what `Whole` adds to `Sound`.

**`Extraction`.** `Held` is, step by step, the files that are ours and not given
up; `FilesAccounted` says that nothing else of ours is anywhere but what could
not be removed (`stuck`), and that what is held is there unless others took it
(`taken`). Each failure path removes one of `Held` at a time. The types include
those of the scan, so that no total passes its limit.

**`KeyGen`.** The invariant says, per stage, which files are the run's own and
how far they are written; that no other run touches them follows from the
exclusive creation.

**`ReleaseTool`.** `WorkerOK` says of each command, whatever others do, that the
assets it has gathered were whole and inspected: an asset read from two builds
is `Mixed` and never equals an archive at the third reading. `AloneOK` says what
a command knows of files nobody else has touched: that its manifest is the one
there is, which signature it has seen, and which targets it has compared. A step
of another command or a build ends that knowledge with `alone`. A refusal of
`verify` is shown, at each of its six places, to be of something `Publishable`
asks for.

**`Parts`.** A step of `Parts` is a step of one part and a stutter of the
others, so it implements the specification of each part (`PartsImplementEach`),
and what is proved of each holds in it: `PromisesAreKept`, `PartsTypeOK` and
`FilesKept`.

**Model-checked only.** `CallsReturn`, `ProbeReturns` and `NothingLeftBehind`,
since TLAPS does not do liveness under fairness. Every other property of a
passing run is a theorem.

## Not modelled

- **The user deleting or retargeting the managed symlink.** `recover_locked`
  refuses an installation whose pointer is gone, by design; the run would only
  restate that.
- **Torn or edited journals and state files**: JSON validation in `journal.rs`
  turns them into errors, which are instances of `Fail`. Only the edit the tests
  exercise, a lost or blanked `install.json`, is an action.
- **`status` and `check_latest`** change nothing beyond the recovery they begin
  with.
- **`require_managed_current`** reads the pointer and `install.json` one after
  the other without the lock. `Activation` has the two reads as two steps; what
  they can get wrong together is only the wording of an error.
- **The Windows calls** that open directories by component and delete by handle,
  reparse points, and the launcher's validation of its own location: they answer
  for one call and keep no state. Power loss on Windows.
- **Parsing and text**: manifests, envelopes, URLs, tar and zip headers, the
  validation of names and fields; **cryptography**: a signature is by a key over
  a value.
- **`write_private_file`**, which no part of the engine calls;
  **`trust-check`**, which reads one document as `verify` does; the tool's
  arguments; in `ReleaseTool` the expiry of a manifest, which is in
  `ReleaseFetch`.
- **Paths that are removed or replaced** between two calls on the same path in
  `ensure_private_dir` (its `set_permissions` goes by path). What comes to the
  path between its look and its `mkdir` is in `PrivateDir`.
- The length-limited reader of the HTTP library below
  `read_response_body_observed`, which is external.
- **`app.rs`, `lib.rs`**: constants and re-exports.
- A `latest` URL that answers without redirecting to a release: the client
  refuses it.

## Plan

Modelled so far: every component with state or steps. Proved: every safety and
action property of a passing run, and the three refinements. Left is the
composition: `ReleaseFetch` in place of the fetch of `Activation`, for
`update`'s comparison with the current version.
