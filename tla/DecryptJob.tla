----------------------------- MODULE DecryptJob -----------------------------
(***************************************************************************)
(* Decryption jobs and previews of one container: decrypt_file of          *)
(* src/CLI/core/FileEncryptor.cpp and its caller in src/CLI/cli/main.cpp,  *)
(* single-file branch, POSIX.                                              *)
(*                                                                         *)
(* A job writes the plaintext to <output>.prt, keeps a checkpoint          *)
(* <output>.prs beside it, compares the hash of everything it decrypted    *)
(* with the header's, moves the .prt to the output and disposes of the     *)
(* container.  A preview prints chunks and takes no lock.  Either can be   *)
(* killed anywhere.  The lock is one step (OutputLock has its details) and *)
(* is held until the output is in place.                                   *)
(***************************************************************************)
EXTENDS Integers, Sequences, SequencesExt

CONSTANTS
  Procs,        \* the processes that may work on this container
  Passwords,    \* the passwords users type
  Right,        \* the one containers are made with
  Formats,      \* the formats of containers: a subset of {"v2", "v3", "v6"}
  NChunks,      \* the chunks of a container
  MaxVersion,   \* bound on the containers that follow one another under the name
  MaxFaults,    \* bound on kills, failing operations and damaged chunks
  FlushFails,   \* whether writing the buffers out may be one of them (a full disk)
  Previews,     \* whether users preview
  Forces,       \* the values of --force-decrypt: a subset of BOOLEAN
  None, Free, Stale, Zero

ASSUME DecryptConstants ==
  /\ NChunks \in Nat \ {0} /\ MaxVersion \in Nat \ {0} /\ MaxFaults \in Nat
  /\ FlushFails \in BOOLEAN /\ Previews \in BOOLEAN /\ Forces \subseteq BOOLEAN
  /\ Formats \subseteq {"v2", "v3", "v6"} /\ Formats # {} /\ Right \in Passwords
  /\ Free \notin Procs /\ Stale \notin Procs

VARIABLES
  ctr,      \* the container under the input name, or None
  made,     \* the version of the last container made
  prt,      \* the partial output: a sequence of plaintext chunks, or None
  prs,      \* the checkpoint, or None
  out,      \* the output with what it was made from, or None
  lock,     \* the output lock: Free, a process, or Stale (its owner was killed)
  previewed, \* history: a preview has written a checkpoint
  pc, job,  \* where each process is, and the local variables of its job
  faults    \* kills, failing operations and damaged chunks so far

files == <<ctr, made, prt, prs, out, lock>>
vars == <<files, previewed, pc, job, faults>>

Versions == 1..MaxVersion
Indexes == 1..NChunks
Plain(v) == [i \in Indexes |-> <<v, i>>]
Text == Seq((Versions \X Indexes) \cup {Zero})

\* v2 has no plaintext hash; v3 has one; v6 also tells a wrong password from a right one.
Container == [ver : Versions, fmt : Formats, bad : SUBSET Indexes]
Hashed(c) == c.fmt # "v2"

\* .prs: the chunks accounted for; its HMAC is bound to the container and the key.
Progress == [chunks : Indexes, ver : Versions, pw : Passwords]
Output == [body : Text, ver : Versions, fmt : Formats, forced : BOOLEAN]

Job ==
  [pw : Passwords, force : BOOLEAN, dispose : BOOLEAN, preview : BOOLEAN, \* command line
   ctr : Container \cup {None},   \* the container opened
   start : 0..NChunks,            \* the chunks an accepted checkpoint spares
   hashed : Text,                 \* what has gone into the plaintext hash
   pending : Text,                \* the aggregation buffer
   bad : BOOLEAN,                 \* the output stream has failed
   shown : Text,                  \* what a preview has printed
   next : 1..(NChunks + 1)]       \* the next chunk

IdleJob ==
  [pw |-> CHOOSE w \in Passwords : TRUE, force |-> FALSE, dispose |-> FALSE,
   preview |-> FALSE, ctr |-> None, start |-> 0, hashed |-> <<>>, pending |-> <<>>,
   bad |-> FALSE, shown |-> <<>>, next |-> 1]

ASSUME Markers == None \notin Container \cup Text \cup Progress \cup Output

Places ==
  {"idle", "open", "lock", "resume", "prepare", "clearprs", "catchup", "chunk", "save",
   "saveunlink", "saverename", "verify", "close", "removeprs", "unlink", "rename",
   "fail", "wipe", "failprs", "unlock", "dispose", "print"}

TypeOK ==
  /\ ctr \in Container \cup {None}
  /\ made \in Versions
  /\ prt \in Text \cup {None}
  /\ prs \in Progress \cup {None}
  /\ out \in Output \cup {None}
  /\ lock \in Procs \cup {Free, Stale}
  /\ previewed \in BOOLEAN
  /\ pc \in [Procs -> Places]
  /\ job \in [Procs -> Job]
  /\ faults \in 0..MaxFaults

Init ==
  /\ ctr \in [ver : {1}, fmt : Formats, bad : {{}}]
  /\ made = 1
  /\ prt = None /\ prs = None /\ out = None
  /\ lock = Free
  /\ previewed = FALSE
  /\ pc = [p \in Procs |-> "idle"]
  /\ job = [p \in Procs |-> IdleJob]
  /\ faults = 0

-----------------------------------------------------------------------------
Goto(p, place) == pc' = [pc EXCEPT ![p] = place]
Move(p, from, to) == pc[p] = from /\ Goto(p, to)
Fault == faults < MaxFaults /\ faults' = faults + 1
Finish(p) == Goto(p, "idle") /\ job' = [job EXCEPT ![p] = IdleJob]

\* Writing the buffer out: everything, or only its first n chunks.
Spilled(p, n) == prt' = prt \o SubSeq(job[p].pending, 1, n)

\* The user decrypts or previews the container.
Start(p) ==
  /\ Move(p, "idle", "open")
  /\ \E w \in Passwords, f \in Forces, d \in BOOLEAN, v \in {FALSE, Previews} :
       job' = [job EXCEPT ![p] =
                 [IdleJob EXCEPT !.pw = w, !.force = f, !.dispose = d, !.preview = v]]
  /\ UNCHANGED <<previewed, files, faults>>

\* Open the container, read its header, derive the key.  Only v6 (and v4, v5) finds out
\* here that the password is wrong.
Open(p) ==
  /\ pc[p] = "open"
  /\ \/ /\ ctr # None
        /\ ctr.fmt = "v6" => job[p].pw = Right
        /\ job' = [job EXCEPT ![p].ctr = ctr]
        /\ Goto(p, IF job[p].preview THEN "resume" ELSE "lock")
        /\ UNCHANGED faults
     \/ /\ \/ ctr = None /\ UNCHANGED faults
           \/ ctr # None /\ ctr.fmt = "v6" /\ job[p].pw # Right /\ UNCHANGED faults
           \/ Fault
        /\ Finish(p)
  /\ UNCHANGED <<previewed, files>>

\* acquire_output_lock, reclaiming the lock of a killed process.
Lock(p) ==
  /\ pc[p] = "lock"
  /\ IF lock \in {Free, Stale}
       THEN lock' = p /\ Goto(p, "resume") /\ UNCHANGED job
       ELSE Finish(p) /\ UNCHANGED lock
  /\ UNCHANGED <<previewed, ctr, made, prt, prs, out, faults>>

\* Mutant: the checkpoint is not bound to its container.
AuthenticAnyContainer(j) == prs # None /\ prs.pw = j.pw

\* The checkpoint has been written with this key for this container.
Authentic(j) == prs # None /\ prs.ver = j.ctr.ver /\ prs.pw = j.pw

\* Resume only with both a checkpoint that authenticates and a partial output.
Resume(p) ==
  /\ Move(p, "resume", IF job[p].preview THEN "print" ELSE "prepare")
  /\ LET j == job[p]
         n == IF prt # None /\ Authentic(j) THEN prs.chunks ELSE 0
     IN  job' = [job EXCEPT ![p].start = n, ![p].next = n + 1]
  /\ UNCHANGED <<previewed, files, faults>>

\* truncate(): longer files are cut, shorter ones filled with zeros.
Truncated(text, n) == [k \in 1..n |-> IF k <= Len(text) THEN text[k] ELSE Zero]

\* Cut the partial output back to the checkpoint, or create or empty it.
Prepare(p) ==
  /\ pc[p] = "prepare"
  /\ \/ /\ job[p].start > 0 /\ prt # None
        /\ prt' = Truncated(prt, job[p].start)
        /\ Goto(p, "catchup")
        /\ UNCHANGED faults
     \/ /\ job[p].start = 0
        /\ prt' = <<>>
        /\ Goto(p, "clearprs")
        /\ UNCHANGED faults
     \/ Fault /\ Goto(p, "unlock") /\ UNCHANGED prt
  /\ UNCHANGED <<previewed, ctr, made, prs, out, lock, job>>

\* A fresh partial output has no checkpoint yet.
ClearProgress(p) ==
  /\ Move(p, "clearprs", "chunk")
  /\ prs' = None
  /\ UNCHANGED <<previewed, ctr, made, prt, out, lock, job, faults>>

\* The part that is kept goes into the hash as it is on disk.
CatchUp(p) ==
  /\ Move(p, "catchup", "chunk")
  /\ job' = [job EXCEPT ![p].hashed = prt]
  /\ UNCHANGED <<previewed, files, faults>>

\* A chunk authenticates with the container's key unless it is damaged, or the container
\* has been wiped under the open stream.
Readable(j) == j.pw = Right /\ j.next \notin j.ctr.bad
Unreadable(j) == ~Readable(j) \/ ctr # j.ctr

\* Decrypt the next chunk into the aggregation buffer, which spills what it held when it
\* is full; every 500 ms a checkpoint follows.  A chunk that does not authenticate ends
\* the job or, when forced, is filled with zeros.
DecryptChunk(p) ==
  /\ pc[p] = "chunk" /\ job[p].next <= NChunks
  /\ LET j == job[p]
         Take(text) ==
           /\ \/ /\ ~j.bad /\ prt # None
                 /\ Spilled(p, Len(j.pending))
                 /\ job' = [job EXCEPT ![p].pending = <<text>>, ![p].next = @ + 1,
                                       ![p].hashed = Append(@, text)]
              \/ /\ job' = [job EXCEPT ![p].pending = Append(@, text), ![p].next = @ + 1,
                                       ![p].hashed = Append(@, text)]
                 /\ UNCHANGED prt
           /\ \E place \in {"chunk", "save"} : Goto(p, place)
           /\ UNCHANGED faults
     IN  \/ Readable(j) /\ Take(<<j.ctr.ver, j.next>>)
         \/ Unreadable(j) /\ j.force /\ Take(Zero)
         \/ /\ \/ Unreadable(j) /\ ~j.force /\ UNCHANGED faults
               \/ j.bad /\ UNCHANGED faults
               \/ Fault
            /\ Goto(p, "fail")
            /\ UNCHANGED <<prt, job>>
  /\ UNCHANGED <<previewed, ctr, made, prs, out, lock>>

\* First the plaintext goes to the file, then the checkpoint accounts for it.  That the
\* flush fails is not noticed: the buffer is lost and the checkpoint written all the same.
FlushForProgress(p) ==
  /\ pc[p] = "save"
  /\ \E place \in {"saveunlink", "chunk"} : Goto(p, place)
  /\ \/ /\ ~job[p].bad /\ prt # None
        /\ Spilled(p, Len(job[p].pending))
        /\ job' = [job EXCEPT ![p].pending = <<>>]
        /\ UNCHANGED faults
     \/ /\ IF job[p].bad THEN UNCHANGED faults ELSE FlushFails /\ Fault
        /\ \E n \in 0..(IF job[p].bad THEN 0 ELSE Len(job[p].pending)) : Spilled(p, n)
        /\ job' = [job EXCEPT ![p].pending = <<>>, ![p].bad = TRUE]
  /\ UNCHANGED <<previewed, ctr, made, prs, out, lock>>

\* save_progress: replace_file_utf8 removes the old checkpoint ...
UnlinkProgress(p) ==
  /\ Move(p, "saveunlink", "saverename")
  /\ prs' = None
  /\ UNCHANGED <<previewed, ctr, made, prt, out, lock, job, faults>>

\* Mutant: the index of the last chunk is saved in place of the number of chunks.
RenameProgressIndex(p) ==
  /\ Move(p, "saverename", IF job[p].preview THEN "print" ELSE "chunk")
  /\ LET j == job[p] IN
       prs' = [chunks |-> j.next - 2, ver |-> j.ctr.ver, pw |-> j.pw]
  /\ UNCHANGED <<ctr, made, prt, out, lock, job, faults>>
  /\ previewed' = (previewed \/ job[p].preview)

\* ... and renames the new one; a failure is reported and ignored.
RenameProgress(p) ==
  /\ Move(p, "saverename", IF job[p].preview THEN "print" ELSE "chunk")
  /\ LET j == job[p] IN
       \/ prs' = [chunks |-> j.next - 1, ver |-> j.ctr.ver, pw |-> j.pw]
          /\ UNCHANGED faults
       \/ Fault /\ UNCHANGED prs
  /\ UNCHANGED <<ctr, made, prt, out, lock, job>>
  /\ previewed' = (previewed \/ job[p].preview)

\* Mutant: the hash of the plaintext is not compared.
VerifyNot(p) ==
  /\ pc[p] = "chunk" /\ job[p].next > NChunks
  /\ Goto(p, "close")
  /\ UNCHANGED <<previewed, files, job, faults>>

\* All chunks done: the hash of what was decrypted against the header's, if it has one.
Verify(p) ==
  /\ pc[p] = "chunk" /\ job[p].next > NChunks
  /\ LET j == job[p] IN
       Goto(p, IF ~Hashed(j.ctr) \/ j.hashed = Plain(j.ctr.ver) \/ j.force
                 THEN "close" ELSE "fail")
  /\ UNCHANGED <<previewed, files, job, faults>>

\* Mutant: a failed job keeps its partial output, to be resumed.
CloseKeepsPartial(p) ==
  /\ \/ Move(p, "close", "removeprs")
     \/ Move(p, "fail", "unlock")
  /\ prt # None /\ Spilled(p, Len(job[p].pending))
  /\ job' = [job EXCEPT ![p].pending = <<>>, ![p].bad = FALSE]
  /\ UNCHANGED <<previewed, ctr, made, prs, out, lock, faults>>

\* Only then the rest of the buffer goes to the file; whether it arrives is not looked at.
Close(p) ==
  /\ \/ Move(p, "close", "removeprs")
     \/ Move(p, "fail", "wipe")
  /\ \/ /\ ~job[p].bad /\ prt # None
        /\ Spilled(p, Len(job[p].pending))
        /\ UNCHANGED faults
     \/ /\ IF job[p].bad THEN UNCHANGED faults ELSE FlushFails /\ Fault
        /\ \E n \in 0..(IF job[p].bad THEN 0 ELSE Len(job[p].pending)) : Spilled(p, n)
  /\ job' = [job EXCEPT ![p].pending = <<>>, ![p].bad = FALSE]
  /\ UNCHANGED <<previewed, ctr, made, prs, out, lock>>

\* The checkpoint goes before the output is in place.
RemoveProgress(p) ==
  /\ Move(p, "removeprs", "unlink")
  /\ prs' = None
  /\ UNCHANGED <<previewed, ctr, made, prt, out, lock, job, faults>>

\* replace_file_utf8 removes the old output ...
UnlinkOutput(p) ==
  /\ Move(p, "unlink", "rename")
  /\ out' = None
  /\ UNCHANGED <<previewed, ctr, made, prt, prs, lock, job, faults>>

\* Mutant: the result of the replacement is ignored.
RenameUnchecked(p) ==
  /\ Move(p, "rename", "dispose")
  /\ \/ /\ out' = [body |-> prt, ver |-> job[p].ctr.ver, fmt |-> job[p].ctr.fmt,
                   forced |-> job[p].force]
        /\ prt' = None
        /\ UNCHANGED faults
     \/ Fault /\ UNCHANGED <<out, prt>>
  /\ lock' = Free
  /\ UNCHANGED <<previewed, ctr, made, prs, job>>

\* ... and moves the partial output into its place.
RenameOutput(p) ==
  /\ pc[p] = "rename"
  /\ \/ /\ out' = [body |-> prt, ver |-> job[p].ctr.ver, fmt |-> job[p].ctr.fmt,
                   forced |-> job[p].force]
        /\ prt' = None
        /\ Goto(p, "dispose")
        /\ lock' = Free       \* decrypt_file returns: ~OutputLockGuard
        /\ UNCHANGED faults
     \/ Fault /\ Goto(p, "wipe") /\ UNCHANGED <<out, prt, lock>>
  /\ UNCHANGED <<previewed, ctr, made, prs, job>>

\* Failure: the partial output is wiped, then its checkpoint removed.
WipePartial(p) ==
  /\ Move(p, "wipe", "failprs")
  /\ prt' = None
  /\ UNCHANGED <<previewed, ctr, made, prs, out, lock, job, faults>>

RemoveFailedProgress(p) ==
  /\ Move(p, "failprs", "unlock")
  /\ prs' = None
  /\ UNCHANGED <<previewed, ctr, made, prt, out, lock, job, faults>>

\* decrypt_file returns without success: ~OutputLockGuard.
Unlock(p) ==
  /\ pc[p] = "unlock"
  /\ Finish(p)
  /\ lock' = Free
  /\ UNCHANGED <<previewed, ctr, made, prt, prs, out, faults>>

\* main disposes of the container, when asked to, after the lock has been released.
Dispose(p) ==
  /\ pc[p] = "dispose"
  /\ Finish(p)
  /\ \/ ctr' = (IF job[p].dispose THEN None ELSE ctr) /\ UNCHANGED faults
     \/ Fault /\ UNCHANGED ctr
  /\ UNCHANGED <<previewed, made, prt, prs, out, lock>>

\* A preview prints the next chunk; it too writes a checkpoint every 500 ms, without
\* having the lock or writing a partial output.  It ends at the size asked for.
PrintChunk(p) ==
  /\ pc[p] = "print" /\ job[p].next <= NChunks
  /\ LET j == job[p] IN
       \/ /\ Readable(j)
          /\ job' = [job EXCEPT ![p].shown = Append(@, <<j.ctr.ver, j.next>>),
                                ![p].next = @ + 1]
          /\ \E place \in {"print", "saveunlink"} : Goto(p, place)
       \/ /\ Unreadable(j) /\ j.force
          /\ job' = [job EXCEPT ![p].shown = Append(@, Zero), ![p].next = @ + 1]
          /\ \E place \in {"print", "saveunlink"} : Goto(p, place)
       \/ /\ Unreadable(j) /\ ~j.force
          /\ Finish(p)
  /\ UNCHANGED <<previewed, files, faults>>

\* Standard output does not take what a preview prints.
FailPrint(p) ==
  /\ pc[p] = "print" /\ job[p].next <= NChunks
  /\ Fault /\ Finish(p)
  /\ UNCHANGED <<previewed, files>>

\* A preview that has printed what was asked for ends like a decryption.
EndPreview(p) ==
  /\ Move(p, "print", "dispose") /\ (job[p].shown # <<>> \/ job[p].next > NChunks)
  /\ UNCHANGED <<previewed, files, job, faults>>

\* The process is killed; of its buffer nothing or some chunks have reached the file.
Kill(p) ==
  /\ pc[p] # "idle"
  /\ Fault
  /\ \/ UNCHANGED prt
     \/ /\ pc[p] \in {"chunk", "save", "close", "fail"} /\ prt # None /\ ~job[p].bad
        /\ \E n \in 1..Len(job[p].pending) : Spilled(p, n)
  /\ lock' = IF lock = p THEN Stale ELSE lock
  /\ Finish(p)
  /\ UNCHANGED <<previewed, ctr, made, prs, out>>

\* Another file is encrypted under the same name, or a chunk goes bad on the medium.
Encrypt ==
  /\ \A p \in Procs : pc[p] = "idle"
  /\ made < MaxVersion
  /\ made' = made + 1
  /\ ctr' \in [ver : {made'}, fmt : Formats, bad : {{}}]
  /\ UNCHANGED <<previewed, prt, prs, out, lock, pc, job, faults>>

Damage ==
  /\ \A p \in Procs : pc[p] = "idle"
  /\ ctr # None
  /\ Fault
  /\ \E i \in Indexes : ctr' = [ctr EXCEPT !.bad = @ \cup {i}]
  /\ UNCHANGED <<previewed, made, prt, prs, out, lock, pc, job>>

\* Everything a job does by itself.
Run(p) ==
  \/ Open(p) \/ Lock(p) \/ Resume(p) \/ Prepare(p) \/ ClearProgress(p) \/ CatchUp(p)
  \/ DecryptChunk(p) \/ FlushForProgress(p) \/ UnlinkProgress(p) \/ RenameProgress(p)
  \/ Verify(p) \/ Close(p) \/ RemoveProgress(p) \/ UnlinkOutput(p) \/ RenameOutput(p)
  \/ WipePartial(p) \/ RemoveFailedProgress(p) \/ Unlock(p) \/ Dispose(p)
  \/ PrintChunk(p) \/ FailPrint(p) \/ EndPreview(p)

Next == Encrypt \/ Damage \/ \E p \in Procs : Start(p) \/ Run(p) \/ Kill(p)

Spec == Init /\ [][Next]_vars

\* The output there is was made from the container there is.
UpToDate == out # None /\ ctr # None /\ out.ver = ctr.ver

\* The user decrypts, with the right password, until the output is there.
StartRight(p) ==
  /\ ctr # None /\ ~UpToDate
  /\ Start(p)
  /\ ~job'[p].preview /\ job'[p].pw = Right

FairSpec ==
  Spec /\ \A p \in Procs : WF_vars(Run(p)) /\ SF_vars(StartRight(p))

-----------------------------------------------------------------------------
(***************************************************************************)
(* Properties.                                                             *)
(***************************************************************************)
\* "The plaintext goes to <out>.prt first and is renamed only when everything has been
\* verified" (line 3105): the output of a container with a hash is its whole plaintext,
\* whatever was killed, resumed, previewed or replaced before.
OutputWhole ==
  out # None /\ out.fmt # "v2" /\ ~out.forced => out.body = Plain(out.ver)

\* Even forced, and even without a hash, nothing is in a wrong place or of another
\* container, a chunk that could not be recovered is a hole filled with zeros: until a
\* preview has left a checkpoint for a partial output it did not write.
PlacesKept ==
  out # None /\ ~previewed => \A i \in Indexes : out.body[i] \in {Plain(out.ver)[i], Zero}

\* The plaintext is in place, or it is a preview that disposes of the container.
Traded ==
  \/ UpToDate /\ (out.forced \/ out.body = Plain(ctr.ver))
  \/ \E p \in Procs : pc[p] = "dispose" /\ job[p].preview

\* A container with a hash is given up by a decryption only for its plaintext, in place.
ContainerOnlyTraded == [][ctr # None /\ ctr' = None /\ Hashed(ctr) => Traded]_vars

\* "--preview: decrypt and print the first bytes only, nothing goes to the disk" (main.cpp
\* line 1683): a preview does not cost the container.
PreviewKeepsContainer ==
  [][\A p \in Procs : job[p].preview /\ pc[p] = "dispose" /\ pc'[p] = "idle"
       => ctr' = ctr]_vars

\* Whatever jobs and previews have left behind, decrypting again succeeds in the end.
EventuallyDecrypted ==
  []<>(ctr = None \/ ctr.bad # {} \/ UpToDate)

(***************************************************************************)
(* Why OutputWhole, PlacesKept and ContainerOnlyTraded hold: who has the   *)
(* lock, and what the partial output and the checkpoint are worth at each  *)
(* place of a job.                                                         *)
(***************************************************************************)
PreviewPlaces == {"open", "resume", "print", "saveunlink", "saverename", "dispose"}
Writing == {"chunk", "save", "saveunlink", "saverename", "close", "fail",
            "removeprs", "unlink", "rename"}
Done == {"close", "removeprs", "unlink", "rename"}

\* A decryption between acquire_output_lock and the return of decrypt_file.
Owner(p) ==
  /\ ~job[p].preview
  /\ pc[p] \in Writing \cup {"resume", "prepare", "clearprs", "catchup", "wipe", "failprs", "unlock"}

Held(p) ==
  /\ job[p].preview /\ pc[p] # "idle" => pc[p] \in PreviewPlaces
  /\ ~job[p].preview => pc[p] # "print"
  /\ pc[p] \notin {"idle", "open"} => job[p].ctr # None
  /\ pc[p] \in {"save", "saveunlink", "saverename"} => job[p].next > 1
  /\ Owner(p) => lock = p
  /\ Owner(p) /\ pc[p] \in Writing \cup {"clearprs", "catchup"} => prt # None
  /\ pc[p] = "prepare" /\ job[p].start > 0 => prt # None

Owns == \A p \in Procs : Held(p)

\* The partial output and the buffer are what went into the hash.
Following(p) ==
  LET j == job[p] IN
  /\ ~j.bad
  /\ pc[p] \in {"open", "lock", "resume", "prepare", "clearprs", "catchup"} =>
       j.pending = <<>> /\ j.hashed = <<>>
  /\ pc[p] \in {"prepare", "clearprs", "catchup"} => j.next = j.start + 1
  /\ pc[p] \in {"clearprs", "catchup"} => Len(prt) = j.start
  /\ pc[p] = "clearprs" => prt = <<>>
  /\ Owner(p) /\ pc[p] \in Writing =>
       prt \o j.pending = j.hashed /\ Len(j.hashed) = j.next - 1
  /\ pc[p] \in Done =>
       /\ j.next = NChunks + 1
       /\ Hashed(j.ctr) /\ ~j.force => j.hashed = Plain(j.ctr.ver)
  /\ pc[p] \in Done \ {"close"} => j.pending = <<>>

Follows == \A p \in Procs : Following(p)

\* The first n chunks of a text are those of version v, or zeros.
Fits(text, n, v) == \A k \in 1..n : k <= Len(text) => text[k] \in {<<v, k>>, Zero}

\* What a decryption has is of its own container; so is the checkpoint beside it.
Placing(p) ==
  LET j == job[p] IN
  /\ pc[p] = "prepare" /\ j.start > 0 => Fits(prt, j.start, j.ctr.ver)
  /\ pc[p] \in {"clearprs", "catchup"} => Fits(prt, NChunks, j.ctr.ver)
  /\ Owner(p) /\ pc[p] \in Writing => Fits(j.hashed, NChunks, j.ctr.ver)
  /\ Owner(p) /\ pc[p] \in Writing \cup {"catchup"} /\ prs # None => prs.ver = j.ctr.ver
  /\ pc[p] = "prepare" /\ j.start > 0 /\ prs # None => prs.ver = j.ctr.ver

\* Until a preview writes one, a checkpoint accounts for chunks of its own container.
Placed ==
  ~previewed =>
    /\ prs # None /\ prt # None => Fits(prt, prs.chunks, prs.ver)
    /\ out # None => Fits(out.body, NChunks, out.ver) /\ Len(out.body) = NChunks
    /\ \A p \in Procs : Placing(p)

\* One process at a time: what it has opened is there until it disposes of it, for an output.
Trading ==
  \A p \in Procs :
    /\ pc[p] \notin {"idle", "open"} => ctr = job[p].ctr
    /\ pc[p] = "dispose" /\ ~job[p].preview =>
         /\ out # None /\ out.ver = job[p].ctr.ver
         /\ Hashed(job[p].ctr) => out.forced \/ out.body = Plain(out.ver)
=============================================================================
