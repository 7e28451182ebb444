# FileEncryptor: a TLA+ verification project

FileEncryptor encrypts files into authenticated containers (`.ptd`), keeps libraries of
them (vaults), mounts a vault as a virtual disk, and has two graphical front ends that
drive its command line. This directory holds TLA+ models of the parts where order,
concurrency and failure matter, the TLC runs that check them, and TLAPS proofs of the
main theorems. `PROJECT.json` lists the components, the runs, what each definition
models line by line, and the hazards the properties are for.

Source paths below are relative to the repository (`CLI/...`, `GUI-Qt/...`).

## 1. The system

| Component | State | Operations | Correct when |
|---|---|---|---|
| Output lock (`CLI/core/FileEncryptor.cpp` 816-919) | the file `<output>.lock`, holding a pid | `acquire_output_lock`, `~OutputLockGuard` | two live owners never meet; no lock outlives its owner for good; every call returns what its comment says |
| Encryption job (`CLI/cli/main.cpp` 3024-3051, `encrypt_file`, `save_progress`, `AtomicOutput`, `source_handling.cpp`) | source, temporary file, checkpoint `.prs`, final file, buffers | start, resume, encrypt, checkpoint, seal, verify, commit, dispose | the final name holds a whole container or nothing; the source is only given up for one; checkpoints are backed; re-running succeeds |
| Decryption (`decrypt_file` 2748-3560) | partial output `.prt`, checkpoint, output | the same in reverse | nothing unauthenticated under the final name; resume is seamless |
| Batch (`process_files`) | list of files, work index, counters, worker threads | take, encrypt or decrypt, split, dispose, count, join | each file counted once, no file lost, success means delivered, the batch returns |
| Argon2 budget (`CLI/core/kdf.cpp`) | atomic counter of permits, mutex, condition variable | `ensure`, `acquire`, `release` | at most the budget computes; nobody sleeps for ever |
| Re-wrapping (`rewrap_file_with`) | container header | read, lock, unwrap, wrap, write | the container opens under the old or the new password |
| Vault index (`vault_index.cpp`) | sealed index file, plaintext mirror, dirty flag, key cache | append, upsert, remove, write, flush, reindex | no update lost among threads and processes; mirror and disk agree |
| Vault commands (`main.cpp` 2372-2571, 2738-2891) | containers, index, salt | init, add, reindex, rekey, recrypt, mount | after a failure or kill every container and the index still open |
| Virtual disk (`vdisk_abi.cpp`) | handle, segment and key caches, idle clock | unlock, lock, read, write, purge | cached data is current; a locked vault holds no key |
| Mounter (`FE-Mounter`) | unlocked flag, watchdog, IPC | lock, unlock, status | the flag tells the truth; an idle vault gets locked |
| Split volumes (`split_volumes.cpp`) | volumes, complete file | split, merge, resolve | a merge yields the container that was split |
| Confirmation handshake (`main.cpp` 119-167, `GUI-Qt/src/ProcessCommandExecutor.cpp`, `GUI-WinUI/Services/CliProcessService.cs`) | one file, `pending`/`answered` flags, dialog | ask, poll, show, answer, take | the CLI acts on the user's decision about this very question |
| Front ends (`GUI-Qt`, `GUI-WinUI`) | process, history file | run, cancel, record | no record lost |
| Updater (`Updater`) | download, installation | check, download, install | installed is what was published |
| Archives, ciphers, formats, asymmetric keys, watermark, configuration | - | pure or sequential | left to tests |

Interaction: the front ends start the CLI as a child, talk to it over its output, its
standard input and the handshake file, and cancel it by killing it. The CLI runs jobs one
after the other or, in a batch, on worker threads that share the Argon2 budget. Jobs of
different processes on the same output meet at the output lock, at the temporary name
(derived from the output's, so the same for both) and at the final name. The mounter
works on a vault while the CLI may change it.

What is hard here: kills at any point (cancelling is killing), resuming from what a killed
run left, replacement of files by several calls, a lock made of a file, a counter whose
zero has two meanings, and a protocol over one file without sequence numbers.

## 2. Modules

| Module | Models | Proofs |
|---|---|---|
| `OutputLock`, `MCOutputLock` | the lock, one system call per step | `OutputLockProofs` |
| `EncryptJob`, `MCEncryptJob` | an encryption job from the command line to the disposal of the source | `EncryptJobProofs` |
| `Exchange` | what a job promises: the abstract specification `EncryptJob` implements | `JobsTrade` in `EncryptJobProofs` |
| `DecryptJob`, `MCDecryptJob` | a decryption job or preview, to the disposal of the container | `DecryptJobProofs` |
| `Batch`, `MCBatch` | a batch on worker threads, with the volumes it makes and takes | `BatchProofs` |
| `Vault`, `MCVault` | the commands on a vault directory, overlapping | `VaultProofs` |
| `VDisk`, `MCVDisk` | a mounted vault: handle, caches, control pipe, watchdog | `VDiskProofs` |
| `KdfSemaphore`, `MCKdfSemaphore` | the Argon2 budget, one atomic access per step | `KdfSemaphoreProofs` |
| `ConfirmHandshake`, `MCConfirmHandshake` | CLI, host and user around the handshake file | `ConfirmHandshakeProofs` |

`MCKdfSemaphore` and `MCVault` add a symmetry set, `MCEncryptJob` a view and `MCBatch` the
map from sources to output names; the other MC modules give TLC a root of their own. The
constants get their values in the `.cfg` files.

How the modules fit together: a module with jobs of its own level takes the details below
as a step. `EncryptJob` and `DecryptJob` take the lock as one step (`OutputLock` has its
calls); `Batch` takes `encrypt_file` as a few steps and `decrypt_file` as one (the jobs
have theirs) and the derivation of keys as none (`KdfSemaphore` has what can hang there);
`Vault` takes the making of a container as two steps and a re-wrapping as one; `VDisk` takes
a call on the handle as one, because the mutex of the handle is held throughout, with
failures and kills in the middle of it.

### OutputLock

`entry` is the inode the lock's name refers to, `content` what each inode holds, `fd` what
each process has open: a process reads the inode it opened even when the name has moved on.
`Create`, `WritePid`, `OpenToRead`, `ReadPid`, `Probe`, `UnlinkStale`, `Recreate` are the
calls of lines 877-909 in order, `Release` the destructor of the guard; `Kill` takes a
process anywhere, `Exit` after its call, `Again` lets it come back. The POSIX branch is
modelled; the Windows branch makes the same calls in the same order. Pids are unique.

### EncryptJob

`src`, `tmp`, `final`, `prs`, `lock` and `file` are the disk; `job` holds the local
variables of `encrypt_file` and its caller, `pending` what sits in the output buffers. The
bytes of a container are a header and a sequence of cells; a chunk encrypted as it is takes
`PlainCells` of them, a compressed one `CompCells`, so that a position computed with the
wrong stride shows. A cell names key, mode, compression, chunk and version of the source:
a container decrypts (`Decrypts`) when the cells are the expected ones in order.

One action per stretch of code between two effects on the disk: `Open` .. `Prepare` decide
between resuming, refusing and starting over; `EncryptChunk`, `FlushForProgress`,
`UnlinkProgress`, `RenameProgress` are the loop with its checkpoints; `Seal`, `Close`,
`RemoveProgress`, `Verify` end it; `CommitUnlink`, `CommitRename`, `Dispose` are the
caller's. `Fault` bounds kills and failing operations. Every error path is there: `fail`
removes the output and its checkpoint, `dtor` is `~AtomicOutput`.

Abstractions: the lock is one step (`OutputLock` has its details), with a stale lock always
reclaimed; early checks that only refuse are one `Fault` in `Open` and `Prepare`; a new key
is one that is not around; the source is edited only while no job runs; the asymmetric
mode, watermarks, the `.sha256` sidecar, splitting, the overwrite question, v3-v5
containers and `--force-decrypt`, which takes the teeth out of the verification (section 4),
are left out. A file system that loses unsynchronised writes in a power failure
is not modelled.

### Exchange and the refinement

`Exchange` knows two files by version: the source, and the output by what it decrypts to.
The output may go while the source is there (`Withdraw`), appears whole (`Deliver`), and the
source goes only in exchange for it (`Dispose`). `EncryptJob!Trade` is the refinement
mapping: the output is `OutputVersion`, the version the final container decrypts to, nothing
when there is none, and a value that is no version when it does not decrypt.
`ImplementsExchange` says that every step of the job is one of these or a stutter.

### DecryptJob

`ctr` is the container, `prt` the partial output, `prs` its checkpoint, `out` the output.
Chunks of plaintext are pairs of version and index, or `Zero` (a hole, from `--force-decrypt`
or from extending a file that was too short), so that a chunk in the wrong place or of
another container shows. Formats are reduced to what the job tells apart: v2 has no hash of
the plaintext, v3 has one, v6 also finds a wrong password before it writes. `Open` .. `Prepare`
decide between resuming and starting over; `DecryptChunk`, `FlushForProgress`,
`UnlinkProgress`, `RenameProgress` are the loop; `Verify`, `Close`, `RemoveProgress`,
`UnlinkOutput`, `RenameOutput` end it; `WipePartial`, `RemoveFailedProgress` are the failure.
The lock is kept until the output is in place. A preview (`PrintChunk`, `FailPrint` when
standard output takes no more, `EndPreview`) takes no lock and writes no output, but reads and
writes the checkpoint as a job does.

Left out: empty containers (3134-3182), recipients, restored names, split inputs (which never
resume), the unpacking of an archive between the decryption and the disposal of its container
(`main.cpp` 3083-3096), the Windows replacement. What the properties say of the output of an
archive is said of the archive, before it is unpacked.

### Batch

`Name` maps sources to output names: files of several directories may share one, and the
interesting configuration is the one where they do. `Take` is the `fetch_add` of the work
index with the checks that skip a file; `Lock`, `Encrypt`, `Verify`, `Fail`, `DropTemp` are
`encrypt_file` and `~AtomicOutput`; `CommitUnlink`, `CommitRename`, `DisposeSource` follow it;
`Split`, `Volume`, `RemoveBase` make the volumes, `Resolve` and `Decrypt` merge and take
them, `Victim` disposes of them; `Count` is the end of the worker's loop and `End` the join.
A kill ends all workers and leaves the files. `Keys` bounds the encryptions that can be told
apart: one begins only with a key that is nowhere around.

Left out: the pre-derivation of keys (3972-4029), obfuscated and restored names, `.sha256`
sidecars, `--force-decrypt` in the verification, the skipping of files by their magic
(4150-4162), inputs that list a file twice, read errors of a container that is split, which
count as its end, volumes beyond `NVols` that an earlier, larger container has left and that
join a merge, the empty last volume of a container of exactly so many, progress.

### Vault

`meta` is the salt in `vault.meta`, `index` the sealed list with what it was sealed with,
`boxes` the container at each place: the vault itself and the directory `.recrypt.tmp`. Two
processes run commands as users start them; no lock covers the directory. Each command is
its sequence of steps between two effects on the disk: `LoadMeta` or `InitMeta`; `AddFile`,
`Encrypt`, `Append`, `Dispose` of `--into-vault`; `ReadIndex`, `Rewrap`, `EndRewrap`,
`SaveNewMeta`, `SealIndex` of rekey; `Recrypt`, `Reencrypt`, `RemoveOld`, `RenameNew`,
`Clean` of recrypt; `Scan`, `WriteIndex` of reindex, which also ends recrypt; `SaveMeta`.
`write_file_atomic` does not look at whether its write came up short: the file replaced is
then `Torn`. `exposed` remembers the files whose old container a recrypt has removed while
no finished one was in its place.

Left out: the recovery file, a header torn by a killed re-wrapping, left-over `.tmp` files,
`--vault-list`, which changes nothing. The look for `vault.meta` and the writing of a new one
are one step (`InitMeta`), so two commands that both find none, and overwrite each other's
salt, are not among the behaviours.

### VDisk

`boxes` and `saved` are the disk, `mirror` and `ikey` the statics of `vault_index.cpp`, `h` the
handle with passphrase, index, key cache and segment cache, `unlocked` the flag the control pipe
reports. A segment of 64 KB is told by the number of the container it was first written into, so
that a stale one shows. Calls on the handle are single steps (its mutex); those that write have
one outcome per place where they can fail, come up short or be killed (`Rewritten`, `Delete`,
`Flush`, `IpcReindex`), and the outcome tells what the caller hears (`Acknowledged`, `Failed`).
Two of these the code does not notice. `rewrite_ptd` writes its plaintext without looking at
whether it reached the disk (`vdisk_abi.cpp` 654-657): `Replaced` gets the data or any shorter
part of it, and a segment of which only a part is there counts as missing. `write_file_atomic`
does the same with the index (`vault_index.cpp` 245): `saved` is then `Torn`, which opens with
no password (`Unlock`) and which no mirror can be loaded from (`Loads`), until another change or
a reindex writes it whole. In both cases the call succeeds; `cut` remembers the containers of
the first. Threads that make two calls, or a call and a write of the flag, take two steps:
`IpcUnlock` then `IpcFlag`; `WatchFlag`, `WatchIdle`, `WatchLock`, `WatchClear`. `LateCall` is a
call after the idle time that locks by itself. `Put`, `ToFront`, `Evicted`, `Touched`,
`Through`, `ReadAhead`, `Invalidated` are the segment cache as a record of segments, list of
recent use and byte count, which the code lets drift; the loop of the read-ahead is a function
of the segments it has gone through (`Fetched`). `kept` is the history: what the last
acknowledged call left in each container. `At` is the container each file was put into before
the drive is mounted.

Left out: directories, attributes, read-only mounts, sizes of volumes, the recovery code, the
eviction of container keys (64 of them, five minutes), an index file that is there but cannot be
opened, which counts as an empty one (`vault_index.cpp` 313), and `purge_on_suspend`, which
takes no mutex and so has no outcomes in terms of calls.

### KdfSemaphore

`permits` and `init` are the two atomics, `mutex` the owner of `mtx`; `holders` is a history
variable, the threads that took a permit. `derive_key` is `Ensure`, `InitLock`,
`Initialize`, `Load`, `Lock`, `Take`, `Sleep`, `Computed`, `ReleaseLoad`, `Give`,
`Notify`. The wait of the condition variable is the release of the mutex and the falling
asleep in one step, with spurious wake-ups. Parameters out of range return before the
semaphore and are left out.

### ConfirmHandshake

`file` is missing, empty, a question or an answer. The CLI's steps are those of
`host_confirm`: truncating (`Open`) and writing (`Ask`) are two, as are reading the answer
(`Poll`) and emptying the file (`Clear`); `TimeOut` is the end of the loop after ten
minutes. The host's poll is a read and an action on what was read; the answer removes,
creates and writes the file in three steps and sets a flag in a fourth. `Polls = "timer"`
is the Qt host, whose timer shares the thread of the dialog and does not fire again while
its own slot is active; `Polls = "task"` is the WinUI host, whose task runs beside the
dialog and treats a missing file as an empty one. With the task, a second dialog waits for
the first. `verdict` is what the CLI was told, `decided` what the user said. A CLI that has
its stream open on a file the host has just removed writes its question into nothing
(`"lost"`).

## 3. Runs

Passing runs:

| Run | Question | Bounds |
|---|---|---|
| `OutputLock_calls` | Is there one owner while nobody has ended? Can a lock be left behind? Does every call return? | 3 processes, 4 inodes, 1 kill: two contend while a third holds or dies; inodes are reused |
| `EncryptJob_safety` | Is the final name ever wrong, the source ever lost? Is the job an exchange of the source for a container? | 2 faults, 2 chunks, 2 versions, 2 passwords, 2 modes, both compressions, failing flushes: a killed job, a differing one on its remains, another fault, a third job |
| `EncryptJob_resume` | Are checkpoints backed, resumed jobs as good as fresh ones, and does re-running succeed after the faults? | as above with one password and without failing flushes (section 4) |
| `KdfSemaphore_few` | Are permits conserved and do all calls return with fewer threads than permits? | 3 threads, 4 permits |
| `KdfSemaphore_many` | What still holds with more threads than permits? | 4 threads, 2 permits: two holders, one let through, one asleep |
| `ConfirmHandshake_qt` | Does the CLI do what the user decides, and hear it? Is an answer ever shown as a question? | 4 questions, time-outs, 1 failing write |
| `DecryptJob_jobs` | Is the output ever wrong or the container given up for less than its plaintext? Does decrypting again succeed? | 2 faults, 2 chunks, 2 versions, 2 passwords, formats v2, v3, v6, previews, forced or not |
| `Vault_commands` | Is a file ever lost by commands that overlap, fail or are killed? Does rekey change everything together, does reindex restore? | 2 processes, 4 commands, 2 faults, 1 file, 2 container names, 2 passwords, 2 salts |
| `VDisk_mounted` | Is what is read fresh, what was acknowledged kept, a locked handle empty, an idle drive locked? | 1 file, 2 container names, 2 segments, 2 writes, a cache of 2 segments with read-ahead, 1 fault |
| `Batch_workers` | Do workers lose files, count wrongly, report undelivered success or hang? | 2 files of one output name, 2 workers, 3 batches, 2 volumes, 7 keys, 1 fault |

Two chunks are enough for a checkpoint in the middle, before and after; `PlainCells = 2` and
`CompCells = 1` make the strides differ and let a kill tear a chunk. Three keys cover the header
seen, the checkpoint's and a new one. `MaxFaults = 2` lets the recovery from a fault be hit by
another. One password is enough for resuming, where a wrong one only means starting over;
`EncryptJob_safety` has two. The view of `MCEncryptJob` (only in `EncryptJob_safety`, which has
no liveness property) identifies states that differ only in the content of inodes nobody refers
to; such an inode is emptied before it is used again. Four questions let an answer be late, be
taken for the next question, and two more follow. In `DecryptJob_jobs` the second version is the
file that is encrypted under the name of the one whose checkpoint is still there, and the second
fault hits the recovery from the first. Four commands are a vault, a file in it, and two
commands that overlap or of which the second meets what the first left; two faults break one and
its repair. Two writes let a segment be cached, replaced, and read again, and a create follow a
delete. The store the file begins in is fixed (`FirstStore`): a random name differs from another
in nothing. The cache holds fewer segments than there are keys, so it evicts. Three batches are
one that is killed, one on its remains, and one that decrypts; seven keys are enough for a new
one to differ from all that are around. Two volumes are a first and a last; a missing one, a gap
and a stale one are all possible.

Some properties are stated with the condition under which the code keeps them, and the
condition is where a disagreement begins:

- `ExclusiveWhileAllLive`: while no process has ended. Without it, `MutualExclusion` fails.
- `CheckpointBacked`, `PlainResumeIsSeamless`: for containers that are not compressed.
  Without it, `ResumeIsSeamless` fails.
- `VerdictIsUsers`: until the first time-out (`InTime`); section 4 has what comes after.
- `UserIsHeard`: unless the host failed to write the answer; the CLI then asks until its
  time is over, and takes that for a no.
- `PermitsConserved` and `CallReturns` of the budget: with fewer threads than permits.
- Every property of the job: one job at a time. With two, `FinalWhole` fails.
- `OutputWhole`: for containers with a hash, not forced, and without failing flushes; the
  last flush comes after the comparison and is not looked at. `PlacesKept`: until a preview
  has left a checkpoint for a partial output it did not write.
- `ContainerOnlyTraded`: for decryptions. A preview with `-de` disposes of the container.
- `NothingLost` of the vault: unless a recrypt took the old container away (`exposed`).
  Without it, `ReplacedAtomically` fails. `SourceOnlyTraded`, `RekeyedTogether` and
  `ReindexRestores` speak of commands that nothing ran beside (`shared`), and of writes that
  did not come up short (`Torn`, and `dropped` for the header of a container).
- `AcknowledgedIsKept`: the content of a container unless its plaintext was written short
  without anybody noticing (`cut`), its entry unless the index was (`Torn`). Without these
  conditions `UpdatedAtomically` fails.
- The verification after an encryption, in a job as in a batch: without `--force-decrypt`.
- `ReadsFresh` and the run of the drive: with one password (section 6). A second one makes
  `RefusedIsWrong` fail as well; the other two invariants are proved for any number.
  `IdleIsLocked`: unless the watchdog is about to clear the flag. Without it, `AutoLocked`
  fails.
- `NothingLost` of a batch: a file may have been lost to another of its output name
  (`GivenWay`). Without it, `NoneLost` fails. `NothingLost` and `SuccessDelivers` are checked
  without volumes that fail when they are closed; with one, both fail.

Runs that show a disagreement between the code and what it says of itself (details and
quotations of the two under `findings` in `PROJECT.json`):

| Run | What it shows |
|---|---|
| `Vault_recrypt` | recrypt removes the old container, a failing rename leaves the new one in a directory that is then removed: the file is gone |
| `Batch_collision` | two sources of one base name share a temporary container; half a container gets the final name and the source is disposed of |

The configurations `<module>_proof.cfg` check, on the same kind of instance, the inductive
invariants of section 6 beside the properties they are for (`tlc -config VDisk_proof.cfg MCVDisk`).

Further configurations, to be run by hand (`tlc -config <name>.cfg MC<module>`). Each ends in
a counterexample and checks one statement the code makes of itself:

| Configuration | Violates | The statement, and what the model shows |
|---|---|---|
| `OutputLock_two_owners` | `MutualExclusion` | `FileEncryptor.cpp` 2356, the lock prevents two processes from writing one output. A process that has read the pid of an owner which then ends unlinks the lock file of the next owner: two live owners, without a crash |
| `EncryptJob_two_jobs` | `FinalWhole` | `main.cpp` 3044, at the commit the final path holds a whole container or nothing. The lock is released before the commit, a second job empties the temporary file, the first moves it to the final name |
| `EncryptJob_compressed` | `ResumeIsSeamless` | `CLI/README.md` 38 and 248, an interrupted job continues where it was. Compressed v6 containers are cut at the stride of uncompressed chunks; the verification catches it and everything is encrypted again |
| `KdfSemaphore_starved` | `CallReturns` | `process_files` (3986) starts as many threads as there are permits and joins them. A release that finds the counter at 0 gives nothing back; a later waiter sleeps for ever |
| `ConfirmHandshake_unseen` | `EveryQuestionShown` | `ProcessCommandExecutor.cpp` 75, question, dialog, answer, emptied file. A question asked within one poll period of the last answer is never shown |
| `ConfirmHandshake_winui` | `OnlyQuestionsShown` | `CliProcessService.cs` 45, the three states are strictly serial. The WinUI host takes the file it is replacing for an empty one and shows its own answer as a question |
| `DecryptJob_full_disk` | `OutputWhole` | `FileEncryptor.cpp` 3105, everything is verified before the rename. A full disk at the last flush (3518) is not noticed: a shorter file becomes the output and the job succeeds |
| `DecryptJob_preview` | `PreviewKeepsContainer` | `main.cpp` 1683, a preview only prints. With `-de` it disposes of the container (3099) |
| `Batch_full_disk` | `SuccessDelivers` | `split_volumes.hpp` 37, when splitting fails the complete container stays usable. A volume that does not reach the disk when it is closed is not noticed; the container is removed and the batch succeeds |
| `VDisk_password` | `RefusedIsWrong` | `vdisk.h` 32, `VDISK_E_AUTH` is a wrong password. The key made from a wrong password is cached for the salt (`vdisk_abi.cpp` 147-153) and the right one is then refused too |
| `VDisk_full_disk` | `UpdatedAtomically` | `CLI/include/vdisk.h` 79 and 85, a change replaces the container atomically and then updates `.feindex` atomically. Neither the plaintext (`vdisk_abi.cpp` 654-657) nor the index (`vault_index.cpp` 245) is looked at after it is written: on a full disk less is put in the place of the good one and the call returns `VDISK_OK` |
| `VDisk_autolock` | `AutoLocked` | `fe_winfsp.cpp` 361, the watchdog locks a drive nobody uses. It clears the flag after the lock (374); an unlock in between leaves the flag wrong and the watchdog off |

Deadlock is checked for the job and the budget, which always have a next step. In
`OutputLock` all processes may have ended, in `ConfirmHandshake` all questions, in `Vault` all
commands and in `Batch` all batches may have been given: there the runs stop, and the
configurations say so.

## 4. Behaviours in the models that no run asks about

The models contain these paths, and the properties above hold with them; the properties
they do break are not in the runs.

- A process killed between creating the lock file and writing its pid leaves a file no pid can
  be read from (`FileEncryptor.cpp` 880, 887). Such a lock is never reclaimed: `LOCKED` for
  ever, until somebody deletes the file (`ReadPid`, content `NoPid`).
- The lock may be released between the failing creation and the opening for reading; the call
  then returns `CANNOT_CREATE` (909), as if the directory were not writable (`OpenToRead`, no
  entry).
- Releasing removes the file by name (913-919): an owner whose lock was taken over removes the
  other's. `NoOrphanLock` holds all the same; exclusion is what suffers.
- A job that is refused because of its mode returns before anything is truncated, so that the
  right mode can still resume (comment at 2374-2375), but `~AtomicOutput` removes the temporary
  file (948): only the checkpoint stays (`Prepare`, `dtor`).
- `replace_file_utf8` removes the old file before it renames the new one on POSIX (929) although
  its comment (921) calls it atomic. Killed in between, a re-encryption loses the old container;
  the source is still there (`CommitUnlink`, and why `NothingLost` is stated about source and
  container together).
- A job refused the output lock (2356) removes the owner's temporary file on its way out (948).
  In `EncryptJob` this takes two processes.
- A flush that fails at a checkpoint is not noticed (2672) and `processed` moves on: the
  checkpoint accounts for chunks that are not there. `FlushFails = TRUE` has this step
  (`FlushUnnoticed`); the verification after sealing catches it, which `EncryptJob_safety`
  shows. `EncryptJob_resume` excludes it, because a checkpoint is then not backed.
- A thread that finds no free permit is let through without one (`kdf.cpp` 43), so more threads
  compute than the budget allows (comment at 13-14 and 31-33).
- After a time-out of the CLI (`main.cpp` 165) a late answer may be taken for the answer to the
  next question (156).

Decryption (`DecryptJob`):

- A preview resumes from a job's checkpoint and so prints the middle of the file
  (`Resume`, `PrintChunk`); it writes a `.prs` without the lock and without a `.prt`, which a
  job may then use for a partial output of other content.
- With `--force-decrypt` and a wrong password, v2 and v3 containers become files of zeros, and
  `-de` disposes of them. `g_force_decrypt` (`main.cpp` 2735) is also read by the verification
  after an encryption (`FileEncryptor.cpp` 3413, 3427, 3497), which then passes a damaged
  container. The models of the job and the batch do not have this case: `FinalWhole`,
  `SourceOnlyTraded` and what they carry are said of encryptions without the option.
- The partial output is emptied before the checkpoint is removed (`Prepare`, `ClearProgress`),
  and the old output is removed before the new one is renamed (`UnlinkOutput`): killed in
  between, neither is there, the container still is.

Vaults (`Vault`):

- `rewrap_file_with` does not look at whether the header it has written leaves the stream's
  buffer (2040-2041): the rekey goes on and the container stays under the old password
  (`Rewrap`, `dropped`).
- A rekey given up half-way cannot be taken up again with the old password for the containers
  that are done; `RekeyedTogether` says what a rekey that reaches its end has done.
- Killed between saving the salt and sealing the index, the vault does not open until a
  reindex. A short write of `vault.meta` makes every command fail.
- A reindex never checks the password typed: with a wrong one it seals an index without names.
  It also lists half-written containers and those in `.recrypt.tmp`.
- Commands that overlap lose entries of the index, and a mount beside a rekey writes the old
  salt back.

Mounted vaults (`VDisk`):

- After one unlock any password unlocks the drive again, because the cached key is used, and
  becomes the passphrase new containers are made with. This is why `VDisk_mounted` has one
  password.
- Invalidated segments are not taken off the byte count (637), so the cache in the end evicts
  what it has just read, and reads return 0 bytes until the next lock.
- On a full disk a write returns `VDISK_OK` for a container that is shorter than what was
  written, or for an index that opens no more (`Replaced`, `ListedShort`). After the second the
  drive works until it is locked, the next unlock reports a wrong password (or `VDISK_E_IO`,
  when not even the head is there), and only a change made before, or a reindex by the CLI, puts
  the index right.
- A reindex after a write through the drive lists the file as `<store>.ptd.plain.tmp`.
- A call that fails after the container was replaced does not invalidate the caches; a kill
  between the replacement and the index clips reads to the old size. A deletion wipes the
  container before the entry goes: failing in between, the entry can only be removed by a
  reindex. A failing create leaves a container nobody lists.
- A service started locked with `--rw` stays read-only after an unlock (`fe_winfsp.cpp` 427),
  "idle N" over the control pipe starts no watchdog, and a lock by a late call leaves the flag
  the pipe reports.
- A rekey by the CLI while the vault is mounted leaves the handle with the old salt; the two
  programs are not composed here.

Batches (`Batch`):

- Only the size decides whether an encrypted file is skipped; a batch decryption skips
  nothing and overwrites without asking.
- A volume that does not reach the disk when it is closed is not noticed (`CloseFails`), and
  the complete container is removed all the same.
- The source is disposed of before the container is split. When the base is decrypted and
  volumes exist, the volumes are disposed of and the base stays (4187-4190).

## 5. Fairness

- `OutputLock`: a live process goes on with its call (`WF` on `Acquire`), nothing about the
  others.
- `EncryptJob`: a running job goes on (`WF` on `Run`), and the user starts it again while
  there is no output. Kills are bounded, not fair.
- `KdfSemaphore`: every thread is scheduled (`WF` on `Run`); a mutex asked for again and
  again is obtained (`SF` on `InitLock` and `Lock`), which platform mutexes give in practice.
  Spurious wake-ups are possible but nobody may rely on them.
- `ConfirmHandshake`: both programs and the poll go on, and the user answers each dialog.
- `DecryptJob`: a running job goes on (`WF` on `Run`); the user, who may give wrong passwords
  and previews in between, again and again gives the right password while the output is not
  there (`SF` on `StartRight`).
- `VDisk`: the watchdog and a request of the control pipe that has begun are scheduled (`WF` of
  `Watch` on `dog` and of `IpcFlag` on `ipc`, which each of their steps changes, so that this is
  fairness on all variables). Nobody has to call the drive.
- `Batch`: every worker and the join go on (`WF` on `Run` and `End`).
- `Vault`: none; its properties are about safety.

## 6. Proofs

All proofs are checked by TLAPS from nothing, for every value of the constants allowed by
the named assumptions. Every invariant and every action property that a passing run checks
is the statement of a theorem; what the theorems say more than the runs is: any number of
processes, threads, files, names, chunks, questions, faults and kills.

The argument is the same throughout: an inductive invariant stated in the component's module
(TLC checks it in the `*_proof` configurations), the initial states, one lemma per action or
per group of actions, and a last step in temporal logic. The assumptions on constants are
that numbers are numbers, that markers such as `None` are not data (`Markers`), and that
random and temporary names are not those of files (`NamesApart`).

**Output lock** (`OutputLockProofs`): `LockTypes`, `OwnersExcludeEachOther`,
`LockFilesHaveOwners`. While nobody is dead nobody gets past `Probe`, so the name belongs to
the one owner; that `entry` is an owner's file is the inductive part. For orphans: as long as
nobody was killed the name is only ever made by a process that becomes an owner, and removed
whenever an owner leaves.

**Encryption job** (`EncryptJobProofs`), for one job at a time, `Procs = {p}`; with two the
statements are false (section 3).

- `JobInvariant`, `JobTypes`, `FinalAlwaysWhole`, `SourceOrOutput`, `SourceTraded`. The
  invariant `JobInv` says for each place what the job knows of its files: its stream is the
  temporary file, its header is that file's or still in the buffers, once sealed the header has
  the hash of the source, after the verification the temporary file is the container ordered,
  after the commit the final one is. It is needed because `FinalWhole` alone says nothing about
  the temporary file that is about to be moved. The proof does not depend on what the cells are:
  the verification establishes the content, which is why the theorems also cover compressed and
  torn containers, and failing flushes.
- `JobsTrade`: the refinement. The initial state maps to `Exchange`'s, and every action is a
  `Withdraw`, a `Deliver`, a `Dispose` or changes neither of its two files, from `JobInv`.
- `CheckpointsAreBacked`, `PlainResumesAreSeamless`, without failing flushes (`FlushFails =
  FALSE`): after a flush that fails unnoticed the checkpoint is not backed. `StrideInv` says, as
  long as nothing in a container is compressed, which cells the file and the buffer hold
  together when the job has processed so many chunks, and that the file alone holds those of the
  checkpoint. Compression, which breaks the stride, is a case of the invariant and not excluded
  by a hypothesis: the properties are about containers without it.

**Decryption** (`DecryptJobProofs`), for any number of decryptions and previews.

- `DecryptTypes` carries `Owns`: who is past the lock holds it, and a decryption past
  `Prepare` has its partial output.
- `OutputIsWhole`, without failing flushes: `Follows` says that the partial output and the
  buffer together are what went into the hash, so the comparison is about the file.
- `ChunksKeepTheirPlaces`, without failing flushes: `Placed` ties the chunks in the partial
  output, in the hash and counted by the checkpoint to one container and to their places.
  This is the invariant a preview breaks by writing a checkpoint for a partial output it did
  not write, hence its `previewed`.
- `ContainerTraded`, for one process at a time (`Trading`): a second one may withdraw the
  output between the rename and the disposal.

**Batch** (`BatchProofs`), for any finite sets of workers and names.

- `BatchTypes` carries `Hands`: no two workers have the same file, and what they have comes
  from below the work index.
- `EveryFileIsCounted`: the counters and the busy workers add up to the work index
  (`Counted`). It is about cardinalities: a worker joins the busy ones when it takes a file
  and leaves them in the step that counts it.
- `NoFileIsLost`, `SuccessIsDelivery`, without volumes that fail on closing. `Spared` says for
  each output name what is there once an encryption under it has begun: a whole container, its
  plaintext, complete volumes, a source nobody is about to dispose of, or two sources of that
  name. `Delivering` says that a file counted as a success, or taken and no longer in anybody's
  hands while the batch has not failed, is delivered.

**Vault** (`VaultProofs`), for any number of overlapping commands.

- `VaultTypes` carries `Traces`: a random name is only ever used for one file, in the index,
  on the disk, beside it and in the hands of any command.
- `FilesAreKept`: `Keeping`, what was in the vault has a finished container under a random
  name, or a recrypt has removed it.
- `SourcesAreTraded`, `RekeysAreWhole`, `ReindexIsTheWayBack`: `Undisturbed` says what a
  command that nothing ran beside knows of the salt, the index and each container it has
  passed. They hold from any state earlier commands and kills have left.

**Virtual disk** (`VDiskProofs`), for any number of files, stores, segments and writes.

- `LockedIsEmpty`, inductive with the shape of the handle.
- `AcknowledgedIsSafe`: `Relied` says that every index (the one on the disk unless it is torn,
  the mirror, the handle's) lists each container with something acknowledged, that a container
  has one name and the same in all of them, that it holds what was acknowledged or later writes,
  as far as its plaintext went, and that a reindex gives different containers different names.
  The same name everywhere is what makes it inductive: without it a deletion through one index
  leaves another pointing at a wiped container.
- `VDiskTypes`, with the shape of the cache: what is cached is in the list of recent use, once,
  and is counted (`Caching`).
- `ReadsAreFresh`, while `Passwords = {Owner}`. The cache is kept by name, and `CacheInv` says
  that a segment cached under the name of a file is as new as what was acknowledged, and that a
  file is never given back a name it had when segments were cached (`NamesStay`). The read-ahead
  is a recursive function of the number of segments, and what it preserves is proved by the
  least number at which it would not (`LeastNumber`). The hypothesis is needed: any password is
  accepted while the key of the index is cached (`vdisk_abi.cpp` 149-156), unlocking an unlocked
  drive keeps its segments, and a reindex under another password cannot read the names in the
  containers and lists them by their random ones. A read, an unlock with a wrong password and a
  reindex, an unlock with the right one, a write and a reindex give the container its old name
  back with a stale segment cached under it. `tlc` finds this in 15 states when
  `VDisk_proof.cfg` is given two passwords.

**Argon2 budget** (`KdfSemaphoreProofs`): `KdfTypes`, `PermitsStayBounded`,
`PermitsAreConserved`. A thread without a permit is let through only while no permit is free
and returns at most one, so permits and threads in the call stay within the larger of budget
and threads (`CallInv`). With fewer threads than permits the counter never reads 0 after the
initialisation, so each thread in the call holds a permit.

**Confirmation handshake** (`ConfirmHandshakeProofs`): `HandshakeTypes`, and with the Qt host
`UserMeetsQuestions` and `VerdictsAreUsers`. `InHand` says that an answer in the file, or read
from it, goes with `pending`; `InTurn` that one prompt waits at a time and that until the first
time-out the dialog, the file and the CLI are at the same question.

Only model-checked: the liveness properties `CallReturns` (twice), `EventuallyEncrypted`,
`UserIsHeard`, `EventuallyDecrypted`, `IdleIsLocked` and `BatchReturns`, which with fairness and
`ENABLED` are out of the reach of the prover, and the properties the code does not have.

## 7. Plan

Proofs to add: that the invariants of one job hold as long as jobs do not overlap, with any
number of processes, instead of for `Procs = {p}`; refinements of abstract specifications of
decryption and of the vault like that of `Exchange`; lemmas that `Decrypts` accepts exactly the
cells of one version in order.

Models to add: the steps of `rewrap_file_with`; the overwrite question before a job;
`TaskHistory` (records of two windows) and the life of a `ProcessCommandExecutor`; the
installation of the `Updater`; the arithmetic of chunks in `random_read_ptd` against a
reference; a vault that is mounted while the CLI changes it (`Vault` with `VDisk`).

Not modelled: archives, ciphers, container formats, asymmetric keys, watermark,
configuration, password policy, terminal and window layout, where what can go wrong is not a
matter of states, and `purge_on_suspend`, whose data race has no outcomes in terms of calls.
