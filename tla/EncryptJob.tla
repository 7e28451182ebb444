----------------------------- MODULE EncryptJob -----------------------------
(***************************************************************************)
(* One encryption job, from the command line to the disposal of the source *)
(* (src/CLI/cli/main.cpp, single-file branch), around encrypt_file and     *)
(* AtomicOutput of src/CLI/core/FileEncryptor.cpp, POSIX branch.           *)
(*                                                                         *)
(* A job writes the container to a temporary file whose name is derived    *)
(* from the final one, keeps a checkpoint (.prs) beside it, verifies what  *)
(* it wrote, moves it to the final name and only then disposes of the      *)
(* source.  A job can be killed between any two steps; the next job on the *)
(* same output finds what the killed one left and resumes from it.         *)
(*                                                                         *)
(* The bytes of a container are abstracted to a header and a sequence of   *)
(* equally long cells: a chunk encrypted as it is takes PlainCells cells,  *)
(* a compressed one CompCells.                                             *)
(***************************************************************************)
EXTENDS Integers, Sequences

CONSTANTS
  Procs,        \* the processes that may run a job on this output
  Inodes,       \* the inodes of the temporary and the final file
  Keys,         \* data encryption keys (DEKs): a new container takes an unused one
  Passwords,    \* the passwords users type
  Modes,        \* the cipher modes (-m)
  Compress,     \* the values of "compressed" (-z) users choose: a subset of BOOLEAN
  NChunks,      \* the chunks of the source
  PlainCells, CompCells,  \* the cells of an uncompressed and of a compressed chunk
  MaxVersion,   \* bound on the versions of the source (it is edited between jobs)
  MaxFaults,    \* bound on kills and failing operations
  FlushFails,   \* whether the flush before a checkpoint may be one of them (a full disk)
  None, NoHdr, NoPrs, Free, Stale, Zero, Foot

ASSUME JobConstants ==
  /\ NChunks \in Nat \ {0} /\ PlainCells \in Nat \ {0} /\ CompCells \in Nat \ {0}
  /\ MaxVersion \in Nat \ {0} /\ MaxFaults \in Nat
  /\ Compress \subseteq BOOLEAN /\ FlushFails \in BOOLEAN
  /\ Passwords # {} /\ Modes # {}
  /\ None \notin Inodes
  /\ Free \notin Procs /\ Stale \notin Procs

VARIABLES
  src,      \* the version of the source file, 0 once it has been disposed of
  tmp,      \* the inode of the temporary file, or None
  final,    \* the inode of the final file, or None
  prs,      \* the checkpoint file, or NoPrs
  lock,     \* the output lock: Free, a process, or Stale (its owner was killed)
  file,     \* the content of every inode
  pc,       \* where each process is, "idle" between jobs
  job,      \* the local variables of each process's job
  faults    \* kills and failing operations so far

vars == <<src, tmp, final, prs, lock, file, pc, job, faults>>

Versions == 0..MaxVersion

\* The v6 header: whose password wraps the DEK, and the plaintext hash once known.
Header == [pw : Passwords, mode : Modes, comp : BOOLEAN, dek : Keys, hash : Versions]

\* A piece of chunk ciphertext; its nonce is its chunk's index, its AAD the mode.
Cell ==
  [dek : Keys, mode : Modes, comp : BOOLEAN, chunk : Nat, part : Nat, ver : Versions]

\* What Seek beyond the end leaves (Zero), and the name footer (Foot).
Bytes == Cell \cup {Zero, Foot}

File == [hdr : Header \cup {NoHdr}, body : Seq(Bytes)]
EmptyFile == [hdr |-> NoHdr, body |-> <<>>]

\* .prs: the chunks accounted for, authenticated with the DEK and bound to the source.
Progress == [chunks : 1..NChunks, dek : Keys, ver : Versions]

ASSUME Markers ==
  /\ NoHdr \notin Header /\ NoPrs \notin Progress
  /\ Zero \notin Cell /\ Foot \notin Cell

Job ==
  [pw : Passwords, mode : Modes, comp : BOOLEAN, dispose : BOOLEAN, \* the command line
   ver : Versions,                \* the source as opened: what is read, and the binding
   found : BOOLEAN,               \* there was a temporary file
   sawPrs : BOOLEAN,              \* there was a checkpoint
   hdr : Header \cup {NoHdr},     \* the header found, then the header in effect
   start : 0..NChunks,            \* the chunks an accepted checkpoint spares
   fd : Inodes \cup {None},       \* the output stream
   pending : File,                \* what is still in the output buffers
   bad : BOOLEAN,                 \* the output stream has failed: it takes no more
   next : 1..(NChunks + 1)]       \* the next chunk

IdleJob ==
  [pw |-> CHOOSE w \in Passwords : TRUE, mode |-> CHOOSE m \in Modes : TRUE,
   comp |-> FALSE, dispose |-> FALSE, ver |-> 0, found |-> FALSE, sawPrs |-> FALSE,
   hdr |-> NoHdr, start |-> 0, fd |-> None, pending |-> EmptyFile, bad |-> FALSE,
   next |-> 1]

Places ==
  {"idle", "open", "look", "auth", "lock", "check", "clearprs", "header", "chunk",
   "save", "saveunlink", "saverename", "close", "removeprs", "verify",
   "fail", "failprs", "unlock", "unlock_failed", "dtor", "commit", "rename", "dispose"}

Width(comp) == IF comp THEN CompCells ELSE PlainCells

\* The cells of chunk i of version v, encrypted under key d.
Chunk(d, m, c, i, v) ==
  [k \in 1..Width(c) |->
     [dek |-> d, mode |-> m, comp |-> c, chunk |-> i, part |-> k, ver |-> v]]

\* The first n chunks of a body are those of version v under header h.
Holds(body, h, n, v) ==
  LET w == Width(h.comp) IN
    /\ Len(body) >= n * w
    /\ \A i \in 1..n : \A k \in 1..w :
         body[(i - 1) * w + k] = Chunk(h.dek, h.mode, h.comp, i, v)[k]

\* decrypt_file succeeds with key d: every chunk authenticates, in order, and the
\* plaintext has the hash of the header.
Decrypts(f, d) ==
  /\ f.hdr # NoHdr
  /\ f.hdr.dek = d
  /\ f.hdr.hash # 0
  /\ Holds(f.body, f.hdr, NChunks, f.hdr.hash)

\* A container that decrypts with the key its own header wraps.
Whole(f) == f.hdr # NoHdr /\ Decrypts(f, f.hdr.dek)

\* Mutant: what the checkpoint does not account for is not cut off.
NotTruncated(body, n) == body

\* truncate(path, n cells): longer files are cut, shorter ones filled with zeros.
Truncated(body, n) == [k \in 1..n |-> IF k <= Len(body) THEN body[k] ELSE Zero]

\* A file after the buffers' content has been written at its end.
Flushed(f, pending) ==
  [hdr |-> IF pending.hdr = NoHdr THEN f.hdr ELSE pending.hdr,
   body |-> f.body \o pending.body]

\* DEKs are random: a new one differs from every one still around.
UsedKeys ==
  {file[i].hdr.dek : i \in {n \in {tmp, final} \cap Inodes : file[n].hdr # NoHdr}}
    \cup {job[p].hdr.dek : p \in {q \in Procs : job[q].hdr # NoHdr}}
    \cup (IF prs = NoPrs THEN {} ELSE {prs.dek})

\* Inodes without a name that no stream has open.
FreeInodes == Inodes \ ({tmp, final} \cup {job[p].fd : p \in Procs})

TypeOK ==
  /\ src \in Versions
  /\ tmp \in Inodes \cup {None}
  /\ final \in Inodes \cup {None}
  /\ prs \in Progress \cup {NoPrs}
  /\ lock \in Procs \cup {Free, Stale}
  /\ file \in [Inodes -> File]
  /\ pc \in [Procs -> Places]
  /\ job \in [Procs -> Job]
  /\ faults \in 0..MaxFaults

Init ==
  /\ src = 1
  /\ tmp = None
  /\ final = None
  /\ prs = NoPrs
  /\ lock = Free
  /\ file = [i \in Inodes |-> EmptyFile]
  /\ pc = [p \in Procs |-> "idle"]
  /\ job = [p \in Procs |-> IdleJob]
  /\ faults = 0

-----------------------------------------------------------------------------
Goto(p, place) == pc' = [pc EXCEPT ![p] = place]
Move(p, from, to) == pc[p] = from /\ Goto(p, to)
Fault == faults < MaxFaults /\ faults' = faults + 1
Disk == <<src, tmp, final, prs, lock, file>>

\* Of what a process has in its buffers, nothing, or the header and the first n cells
\* have reached the file when it goes no further.
PartlyFlushed(p) ==
  \/ UNCHANGED file
  \/ LET j == job[p] IN
       /\ j.fd # None /\ ~j.bad
       /\ \E n \in 0..Len(j.pending.body) :
            file' = [file EXCEPT ![j.fd] =
                       Flushed(@, [j.pending EXCEPT !.body = SubSeq(@, 1, n)])]

\* The user starts a job: main constructs AtomicOutput and calls encrypt_file.
Start(p) ==
  /\ Move(p, "idle", "open")
  /\ \E w \in Passwords, m \in Modes, c \in Compress, d \in BOOLEAN :
       job' = [job EXCEPT ![p] =
                 [IdleJob EXCEPT !.pw = w, !.mode = m, !.comp = c, !.dispose = d]]
  /\ UNCHANGED <<Disk, faults>>

\* The checks before and including the opening of the source, the version opened.
Open(p) ==
  /\ pc[p] = "open"
  /\ \/ src # 0 /\ Goto(p, "look") /\ job' = [job EXCEPT ![p].ver = src]
        /\ UNCHANGED faults
     \/ src = 0 /\ Goto(p, "dtor") /\ UNCHANGED <<job, faults>>
     \/ Fault /\ Goto(p, "dtor") /\ UNCHANGED job
  /\ UNCHANGED Disk

\* Mutant: a temporary file that is sealed already is committed as it is.
LookSealed(p) ==
  /\ Move(p, "look", IF tmp # None /\ Whole(file[tmp]) THEN "commit" ELSE "auth")
  /\ job' = [job EXCEPT ![p].found = (tmp # None),
                        ![p].sawPrs = (prs # NoPrs),
                        ![p].hdr = IF tmp = None THEN NoHdr ELSE file[tmp].hdr]
  /\ UNCHANGED <<Disk, faults>>

\* Is there a temporary file, a checkpoint, a header?
Look(p) ==
  /\ Move(p, "look", "auth")
  /\ job' = [job EXCEPT ![p].found = (tmp # None),
                        ![p].sawPrs = (prs # NoPrs),
                        ![p].hdr = IF tmp = None THEN NoHdr ELSE file[tmp].hdr]
  /\ UNCHANGED <<Disk, faults>>

\* Mutant: a checkpoint is accepted without unwrapping the DEK with this password.
AuthenticAnyPassword(j) ==
  /\ j.sawPrs /\ prs # NoPrs /\ j.hdr # NoHdr
  /\ prs.dek = j.hdr.dek
  /\ prs.ver = j.ver

\* The checkpoint read now is of the container seen and of this source.
Authentic(j) ==
  /\ j.sawPrs /\ prs # NoPrs /\ j.hdr # NoHdr
  /\ j.hdr.pw = j.pw
  /\ prs.dek = j.hdr.dek
  /\ prs.ver = j.ver

\* Accept the checkpoint; refuse to touch an output whose checkpoint does not
\* authenticate; start over when there is only a checkpoint.
Authenticate(p) ==
  /\ pc[p] = "auth"
  /\ LET j == job[p] IN
       \/ /\ Authentic(j)
          /\ Goto(p, "lock")
          /\ job' = [job EXCEPT ![p].start = prs.chunks]
       \/ /\ ~Authentic(j)
          /\ Goto(p, IF j.sawPrs /\ j.found THEN "dtor" ELSE "lock")
          /\ UNCHANGED job
  /\ UNCHANGED <<Disk, faults>>

\* acquire_output_lock, reclaiming the lock of a killed process.
Lock(p) ==
  /\ pc[p] = "lock"
  /\ IF lock \in {Free, Stale}
       THEN lock' = p /\ Goto(p, "check")
       ELSE Goto(p, "dtor") /\ UNCHANGED lock
  /\ UNCHANGED <<src, tmp, final, prs, file, job, faults>>

\* A checkpoint made with another mode is not resumed; otherwise cut off what the
\* checkpoint does not account for and continue behind it, at a fixed stride of
\* uncompressed chunks.  Without a checkpoint create or empty the temporary file.
Prepare(p) ==
  /\ pc[p] = "check"
  /\ LET j == job[p] IN
       \/ /\ \/ j.start > 0 /\ (j.hdr.mode # j.mode \/ tmp = None) /\ UNCHANGED faults
             \/ Fault
          /\ Goto(p, "unlock_failed")
          /\ UNCHANGED <<tmp, file, job>>
       \/ /\ j.start > 0 /\ j.hdr.mode = j.mode /\ tmp # None
          /\ file' = [file EXCEPT ![tmp].body = Truncated(@, j.start * PlainCells)]
          /\ job' = [job EXCEPT ![p].fd = tmp, ![p].next = j.start + 1]
          /\ Goto(p, "chunk")
          /\ UNCHANGED <<tmp, faults>>
       \/ /\ j.start = 0
          /\ tmp = None => FreeInodes # {}
          /\ tmp' = IF tmp = None THEN CHOOSE i \in FreeInodes : TRUE ELSE tmp
          /\ file' = [file EXCEPT ![tmp'] = EmptyFile]
          /\ job' = [job EXCEPT ![p].fd = tmp', ![p].hdr = NoHdr]
          /\ Goto(p, "clearprs")
          /\ UNCHANGED faults
  /\ UNCHANGED <<src, final, prs, lock>>

\* A fresh container has no checkpoint yet.
ClearProgress(p) ==
  /\ Move(p, "clearprs", "header")
  /\ prs' = NoPrs
  /\ UNCHANGED <<src, tmp, final, lock, file, job, faults>>

\* A new header with a random DEK goes to the output buffers.
WriteHeader(p) ==
  /\ pc[p] = "header"
  /\ \/ /\ Keys \ UsedKeys # {}
        /\ LET j == job[p]
               h == [pw |-> j.pw, mode |-> j.mode, comp |-> j.comp,
                     dek |-> CHOOSE d \in Keys \ UsedKeys : TRUE, hash |-> 0]
           IN  job' = [job EXCEPT ![p].hdr = h, ![p].pending.hdr = h]
        /\ Goto(p, "chunk")
        /\ UNCHANGED faults
     \/ Fault /\ Goto(p, "fail") /\ UNCHANGED job
  /\ UNCHANGED Disk

\* Encrypt the next chunk into the aggregation buffer, which spills what it held to
\* the file when it is full; every 500 ms a checkpoint follows.
EncryptChunk(p) ==
  /\ pc[p] = "chunk" /\ job[p].next <= NChunks
  /\ \/ LET j == job[p]
            cells == Chunk(j.hdr.dek, j.mode, j.comp, j.next, j.ver)
        IN  /\ \/ /\ ~j.bad
                  /\ file' = [file EXCEPT ![j.fd] = Flushed(@, j.pending)]
                  /\ job' = [job EXCEPT ![p].pending = [EmptyFile EXCEPT !.body = cells],
                                        ![p].next = j.next + 1]
               \/ /\ job' = [job EXCEPT ![p].pending.body = @ \o cells,
                                        ![p].next = j.next + 1]
                  /\ UNCHANGED file
            /\ \E place \in {"chunk", "save"} : Goto(p, place)
            /\ UNCHANGED faults
     \/ /\ (job[p].bad /\ UNCHANGED faults) \/ Fault
        /\ Goto(p, "fail")
        /\ UNCHANGED <<file, job>>
  /\ UNCHANGED <<src, tmp, final, prs, lock>>

\* Mutant: the checkpoint is written while the ciphertext is still buffered.
AccountBeforeFlush(p) ==
  /\ pc[p] = "save"
  /\ \/ Goto(p, "saveunlink") /\ UNCHANGED faults
     \/ Fault /\ Goto(p, "chunk")
  /\ UNCHANGED <<Disk, job>>

\* First the ciphertext goes to the file, then save_progress accounts for it.
FlushForProgress(p) ==
  /\ pc[p] = "save" /\ ~job[p].bad
  /\ LET j == job[p] IN
       /\ file' = [file EXCEPT ![j.fd] = Flushed(@, j.pending)]
       /\ job' = [job EXCEPT ![p].pending = EmptyFile]
  /\ \/ Goto(p, "saveunlink") /\ UNCHANGED faults
     \/ Fault /\ Goto(p, "chunk")      \* .prs.tmp cannot be written: carry on
  /\ UNCHANGED <<src, tmp, final, prs, lock>>

\* A flush that fails, or that finds the stream failed, is not noticed: the buffers are
\* lost, and save_progress accounts for them all the same.
FlushUnnoticed(p) ==
  /\ pc[p] = "save"
  /\ IF job[p].bad THEN UNCHANGED faults ELSE FlushFails /\ Fault
  /\ PartlyFlushed(p)
  /\ job' = [job EXCEPT ![p].pending = EmptyFile, ![p].bad = TRUE]
  /\ \E place \in {"saveunlink", "chunk"} : Goto(p, place)
  /\ UNCHANGED <<src, tmp, final, prs, lock>>

\* replace_file_utf8 removes the old checkpoint ...
UnlinkProgress(p) ==
  /\ Move(p, "saveunlink", "saverename")
  /\ prs' = NoPrs
  /\ UNCHANGED <<src, tmp, final, lock, file, job, faults>>

\* Mutant: the index of the last chunk is saved in place of the number of chunks.
RenameProgressIndex(p) ==
  /\ Move(p, "saverename", "chunk")
  /\ LET j == job[p] IN
       prs' = [chunks |-> j.next - 2, dek |-> j.hdr.dek, ver |-> j.ver]
  /\ UNCHANGED <<src, tmp, final, lock, file, job, faults>>

\* ... and renames the new one; a failure is reported and ignored.
RenameProgress(p) ==
  /\ Move(p, "saverename", "chunk")
  /\ LET j == job[p] IN
       \/ prs' = [chunks |-> j.next - 1, dek |-> j.hdr.dek, ver |-> j.ver]
          /\ UNCHANGED faults
       \/ Fault /\ UNCHANGED prs
  /\ UNCHANGED <<src, tmp, final, lock, file, job>>

\* All chunks done: write the rest and the plaintext hash into the header.  On a failed
\* stream the job ends with the name footer, which checks it.
Seal(p) ==
  /\ pc[p] = "chunk" /\ job[p].next > NChunks
  /\ LET j == job[p] IN
       \/ /\ ~j.bad
          /\ file' = [file EXCEPT ![j.fd] =
                        [Flushed(@, j.pending) EXCEPT !.hdr.hash = j.ver]]
          /\ job' = [job EXCEPT ![p].pending = EmptyFile]
          /\ Goto(p, "close")
       \/ j.bad /\ Goto(p, "fail") /\ UNCHANGED <<file, job>>
  /\ UNCHANGED <<src, tmp, final, prs, lock, faults>>

\* Append the encrypted-name footer and close the output.
Close(p) ==
  /\ pc[p] = "close"
  /\ job' = [job EXCEPT ![p].fd = None]
  /\ \/ /\ file' = [file EXCEPT ![job[p].fd].body = Append(@, Foot)]
        /\ Goto(p, "removeprs")
        /\ UNCHANGED faults
     \/ Fault /\ Goto(p, "fail") /\ UNCHANGED file
  /\ UNCHANGED <<src, tmp, final, prs, lock>>

\* The checkpoint is gone before the self-verification starts.
RemoveProgress(p) ==
  /\ Move(p, "removeprs", "verify")
  /\ prs' = NoPrs
  /\ UNCHANGED <<src, tmp, final, lock, file, job, faults>>

Verifies(p) == tmp # None /\ Decrypts(file[tmp], job[p].hdr.dek)

\* Mutant: the result of the self-verification is ignored.
VerifyIgnored(p) ==
  /\ Move(p, "verify", "unlock")
  /\ UNCHANGED <<Disk, job, faults>>

\* decrypt_file(verify_only) of what the temporary name refers to, with this job's DEK and
\* without --force-decrypt.
Verify(p) ==
  /\ pc[p] = "verify"
  /\ \/ Verifies(p) /\ Goto(p, "unlock") /\ UNCHANGED faults
     \/ ~Verifies(p) /\ Goto(p, "fail") /\ UNCHANGED faults
     \/ Fault /\ Goto(p, "fail")
  /\ UNCHANGED <<Disk, job>>

\* Failure: the output and then its checkpoint are removed.
RemoveOutput(p) ==
  /\ Move(p, "fail", "failprs")
  /\ tmp' = None
  /\ job' = [job EXCEPT ![p].fd = None, ![p].pending = EmptyFile]
  /\ UNCHANGED <<src, final, prs, lock, file, faults>>

RemoveOutputProgress(p) ==
  /\ Move(p, "failprs", "unlock_failed")
  /\ prs' = NoPrs
  /\ UNCHANGED <<src, tmp, final, lock, file, job, faults>>

\* encrypt_file returns: ~OutputLockGuard.
Unlock(p) ==
  /\ Move(p, "unlock", "commit") \/ Move(p, "unlock_failed", "dtor")
  /\ lock' = Free
  /\ UNCHANGED <<src, tmp, final, prs, file, job, faults>>

\* Mutant: a failed job leaves its temporary file.
KeepTemp(p) ==
  /\ Move(p, "dtor", "idle")
  /\ job' = [job EXCEPT ![p] = IdleJob]
  /\ UNCHANGED <<Disk, faults>>

\* ~AtomicOutput after a failed job: the temporary file is removed, its checkpoint is not.
DropTemp(p) ==
  /\ Move(p, "dtor", "idle")
  /\ tmp' = None
  /\ job' = [job EXCEPT ![p] = IdleJob]
  /\ UNCHANGED <<src, final, prs, lock, file, faults>>

\* AtomicOutput::commit: replace_file_utf8 removes the old output ...
CommitUnlink(p) ==
  /\ Move(p, "commit", "rename")
  /\ final' = None
  /\ UNCHANGED <<src, tmp, prs, lock, file, job, faults>>

\* Mutant: the result of the commit is ignored.
CommitUnchecked(p) ==
  /\ Move(p, "rename", "dispose")
  /\ tmp' = None
  /\ \/ tmp # None /\ final' = tmp /\ UNCHANGED faults
     \/ Fault /\ UNCHANGED final
  /\ UNCHANGED <<src, prs, lock, file, job>>

\* ... and moves the new one into its place, or else removes the temporary file.
CommitRename(p) ==
  /\ pc[p] = "rename"
  /\ tmp' = None
  /\ \/ tmp # None /\ final' = tmp /\ Goto(p, "dispose") /\ UNCHANGED <<job, faults>>
     \/ /\ (tmp = None /\ UNCHANGED faults) \/ Fault
        /\ Goto(p, "idle")
        /\ job' = [job EXCEPT ![p] = IdleJob]
        /\ UNCHANGED final
  /\ UNCHANGED <<src, prs, lock, file>>

\* secure_handle_source, when the user asked for it; it may fail and keep the source.
Dispose(p) ==
  /\ Move(p, "dispose", "idle")
  /\ \/ src' = (IF job[p].dispose THEN 0 ELSE src) /\ UNCHANGED faults
     \/ Fault /\ UNCHANGED src
  /\ job' = [job EXCEPT ![p] = IdleJob]
  /\ UNCHANGED <<tmp, final, prs, lock, file>>

\* The process is killed.
Kill(p) ==
  /\ pc[p] # "idle"
  /\ Fault
  /\ PartlyFlushed(p)
  /\ lock' = IF lock = p THEN Stale ELSE lock
  /\ job' = [job EXCEPT ![p] = IdleJob]
  /\ Goto(p, "idle")
  /\ UNCHANGED <<src, tmp, final, prs>>

\* Between jobs the user edits the source.
Edit ==
  /\ \A p \in Procs : pc[p] = "idle"
  /\ src \in 1..(MaxVersion - 1)
  /\ src' = src + 1
  /\ UNCHANGED <<tmp, final, prs, lock, file, pc, job, faults>>

\* Everything a job does by itself.
Run(p) ==
  \/ Open(p) \/ Look(p) \/ Authenticate(p) \/ Lock(p) \/ Prepare(p)
  \/ ClearProgress(p) \/ WriteHeader(p) \/ EncryptChunk(p)
  \/ FlushForProgress(p) \/ FlushUnnoticed(p) \/ UnlinkProgress(p) \/ RenameProgress(p)
  \/ Seal(p) \/ Close(p) \/ RemoveProgress(p) \/ Verify(p)
  \/ RemoveOutput(p) \/ RemoveOutputProgress(p) \/ Unlock(p) \/ DropTemp(p)
  \/ CommitUnlink(p) \/ CommitRename(p) \/ Dispose(p)

Next == Edit \/ \E p \in Procs : Start(p) \/ Run(p) \/ Kill(p)

Spec == Init /\ [][Next]_vars

\* A running job goes on, and the user runs the job again while there is no output.
FairSpec ==
  /\ Spec
  /\ \A p \in Procs : WF_vars(Run(p)) /\ WF_vars(final = None /\ Start(p))

-----------------------------------------------------------------------------
(***************************************************************************)
(* Properties.                                                             *)
(***************************************************************************)
\* Under the final name there is a complete container that decrypts, or nothing
\* (main.cpp line 3044): whatever was killed, resumed or fed with other options, but for
\* --force-decrypt.
FinalWhole == final # None => Whole(file[final])

\* The source may be gone only when the final output stands in for it.
NothingLost == src = 0 => final # None /\ Whole(file[final])

Traded ==
  \E p \in Procs :
    /\ pc[p] = "dispose" /\ job[p].dispose
    /\ final # None /\ Whole(file[final])
    /\ file[final].hdr.pw = job[p].pw /\ file[final].hdr.mode = job[p].mode
    /\ file[final].hdr.hash = src

\* The source is removed only in exchange: at that moment the final output decrypts,
\* with the password and the mode just given, to the source as it was.
SourceOnlyTraded == [][src # 0 /\ src' = 0 => Traded]_vars

\* Whatever a job does in between, to the source and the output it is an exchange.
OutputVersion ==
  IF final = None THEN 0 ELSE IF Whole(file[final]) THEN file[final].hdr.hash ELSE -1

Trade == INSTANCE Exchange WITH
           Versions <- 1..MaxVersion, None <- 0, source <- src, output <- OutputVersion

\* The job implements Exchange: the output only ever appears whole and made from the source
\* as it is then, it goes only while the source is there, and the source goes only when the
\* output is of exactly its version, whichever jobs were killed before.
ImplementsExchange == Trade!Spec

\* Nothing in the container is compressed, neither by its header nor in its body.
Uncompressed(f) ==
  /\ f.hdr # NoHdr /\ ~f.hdr.comp
  /\ \A k \in 1..Len(f.body) : f.body[k] \notin {Zero, Foot} => ~f.body[k].comp

\* "The file on disk holds at least what .prs accounts for" (lines 2669 and 2672): a
\* checkpoint that would authenticate against the container beside it is backed, chunk
\* by chunk, by the ciphertext of the source version it is bound to.  It takes flushes
\* that do not fail, and the stride of uncompressed chunks.
CheckpointBacked ==
  tmp # None /\ prs # NoPrs =>
    LET f == file[tmp] IN
      Uncompressed(f) /\ f.hdr.dek = prs.dek
        => Holds(f.body, f.hdr, prs.chunks, prs.ver)

\* A job that reaches the self-verification passes it: a resumed container is as good
\* as one written in one go, and the self-verification is never what saves the user.
ResumeIsSeamless ==
  \A p \in Procs : pc[p] = "verify" => Verifies(p)

\* The same of the containers nothing in which is compressed.
PlainResumeIsSeamless ==
  \A p \in Procs :
    pc[p] = "verify" /\ (tmp # None => Uncompressed(file[tmp])) => Verifies(p)

\* However jobs are killed or refused, what they leave behind does not keep later jobs
\* from producing the output: once the faults are over, re-running succeeds.
EventuallyEncrypted == <>(final # None)

(***************************************************************************)
(* Why FinalWhole, NothingLost and SourceOnlyTraded hold when jobs do not  *)
(* overlap: what a job knows at each place about the files it works on.    *)
(***************************************************************************)
\* The container an option set asks for, of the source as it is.
Ordered(f, j) ==
  /\ Whole(f)
  /\ f.hdr.pw = j.pw /\ f.hdr.mode = j.mode /\ f.hdr.hash = src

Writing == {"clearprs", "header", "chunk", "save", "saveunlink", "saverename", "close"}
Encrypting == {"chunk", "save", "saveunlink", "saverename", "close", "removeprs", "verify"}

JobKnows(p) ==
  LET j == job[p] IN
    /\ pc[p] \notin {"idle", "open", "dtor"} => src # 0 /\ j.ver = src
    /\ j.fd # None => j.fd = tmp /\ pc[p] \in Writing \cup {"fail"}
    /\ pc[p] \in Writing => j.fd # None
    /\ pc[p] \in {"idle", "open", "look", "auth", "lock", "check", "clearprs", "header"}
         => j.pending.hdr = NoHdr
    /\ pc[p] \in {"open", "look"} => j.start = 0
    /\ pc[p] \in {"auth", "lock", "check"} =>
         /\ tmp # None => j.hdr = file[tmp].hdr
         /\ j.start # 0 => j.hdr # NoHdr /\ j.hdr.pw = j.pw
    /\ pc[p] \in Encrypting =>
         /\ tmp # None /\ j.hdr # NoHdr
         /\ ~j.bad =>
              LET h == IF j.pending.hdr = NoHdr THEN file[tmp].hdr ELSE j.pending.hdr IN
                h # NoHdr /\ h.pw = j.pw /\ h.mode = j.mode
    /\ pc[p] \in {"save", "saveunlink", "saverename"} => j.next > 1
    /\ pc[p] \in {"close", "removeprs", "verify"} =>
         ~j.bad /\ j.pending.hdr = NoHdr /\ file[tmp].hdr.hash = src
    /\ pc[p] \in {"unlock", "commit", "rename"} => tmp # None /\ Ordered(file[tmp], j)
    /\ pc[p] = "dispose" => final # None /\ Ordered(file[final], j)

JobInv ==
  /\ \A p \in Procs : JobKnows(p)
  /\ final # None => final # tmp
  /\ FinalWhole
  /\ NothingLost

(***************************************************************************)
(* Why CheckpointBacked and PlainResumeIsSeamless hold when flushes do not *)
(* fail: an uncompressed container keeps the stride of uncompressed chunks *)
(* or a compressed piece lies among those and is never cut off.            *)
(***************************************************************************)
Mixed(body, n) ==
  \E k \in 1..n : k <= Len(body) /\ body[k] \notin {Zero, Foot} /\ body[k].comp

\* A container that can be told to be uncompressed holds the first n chunks of version v.
Backed(f, n, v) ==
  ~f.hdr.comp => Mixed(f.body, n * PlainCells) \/ Holds(f.body, f.hdr, n, v)

\* It holds them and nothing else.
Exact(f, n, v) ==
  ~f.hdr.comp =>
    \/ Mixed(f.body, n * PlainCells)
    \/ Len(f.body) = n * PlainCells /\ Holds(f.body, f.hdr, n, v)

\* The container once the output buffers have been written.
Ahead(p) == Flushed(file[tmp], job[p].pending)

Strides(p) ==
  LET j == job[p] IN
  /\ ~j.bad
  /\ j.pending.hdr # NoHdr => prs = NoPrs
  /\ pc[p] \in {"idle", "open", "look", "auth", "lock", "check", "clearprs", "header"}
       => j.pending = EmptyFile /\ j.next = 1
  /\ pc[p] \in {"auth", "lock", "check"} /\ j.start # 0 =>
       /\ prs # NoPrs
       /\ prs.chunks = j.start /\ prs.dek = j.hdr.dek /\ prs.ver = j.ver
  /\ pc[p] \in {"clearprs", "header"} => file[tmp] = EmptyFile
  /\ pc[p] = "header" => prs = NoPrs
  /\ pc[p] \in {"chunk", "save", "saveunlink", "saverename", "close"} =>
       /\ Ahead(p).hdr # NoHdr /\ Ahead(p).hdr.dek = j.hdr.dek
       /\ Exact(Ahead(p), j.next - 1, j.ver)
  /\ pc[p] \in {"saveunlink", "saverename", "close"} => j.pending = EmptyFile
  /\ pc[p] = "close" => j.next = NChunks + 1
  /\ pc[p] \in {"removeprs", "verify"} =>
       file[tmp].hdr.dek = j.hdr.dek /\ Backed(file[tmp], NChunks, j.ver)

\* The checkpoint accounts for chunks the container has.
Accounted ==
  tmp # None /\ prs # NoPrs /\ file[tmp].hdr # NoHdr /\ file[tmp].hdr.dek = prs.dek =>
    Backed(file[tmp], prs.chunks, prs.ver)

StrideInv == Accounted /\ \A p \in Procs : Strides(p)
=============================================================================
