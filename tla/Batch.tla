-------------------------------- MODULE Batch --------------------------------
(***************************************************************************)
(* A batch of files encrypted or decrypted by worker threads:              *)
(* process_files of src/CLI/core/FileEncryptor.cpp with an output          *)
(* directory, and the volumes of src/CLI/core/split_volumes.cpp that it    *)
(* makes and takes.                                                        *)
(*                                                                         *)
(* The output of a file is named after its base name, so files of several  *)
(* directories may share one.  The workers of a batch meet at the output   *)
(* lock, at the temporary name and at the final one.  A batch is killed as *)
(* a whole and may be given again.  EncryptJob and DecryptJob have the     *)
(* details of one file; here encrypt_file and decrypt_file are a few steps.*)
(***************************************************************************)
EXTENDS Integers, FiniteSets, Sequences, SequencesExt

CONSTANTS
  Files,      \* the sources
  Names,      \* the output names, without ".ptd"
  Name,       \* the output name of each source (build_batch_out_path)
  Workers,    \* the worker threads of a batch
  Keys,       \* the data keys of containers: a new one differs from those in use
  NVols,      \* the volumes a container is split into
  MaxBatches, \* bound on the batches given
  MaxFaults,  \* bound on kills and failing operations
  CloseFails, \* whether closing a volume may be one of them (a full disk)
  None, Free, Stale

ASSUME BatchConstants ==
  /\ Name \in [Files -> Names]
  /\ NVols \in Nat \ {0} /\ MaxBatches \in Nat /\ MaxFaults \in Nat /\ CloseFails \in BOOLEAN
  /\ IsFiniteSet(Files) /\ IsFiniteSet(Names) /\ None \notin Files \cup Keys
  /\ IsFiniteSet(Workers) /\ Workers # {}     \* there is at least one thread
  /\ Free \notin Workers /\ Stale \notin Workers

VARIABLES
  sources,  \* the sources that are still there
  plain,    \* what is under each output name of a decryption: a file, or None
  box,      \* the container <name>.ptd of each name, or None
  tmp,      \* what is under the temporary name of each container, or None
  vols,     \* the volumes <name>.001.ptd ... of each container, or None
  lock,     \* the output lock of each temporary name
  batch,    \* the batch: its options, list and counters
  worker,   \* where each worker is, and its local variables
  begun,    \* history: the files an encryption was begun of
  given, faults

disk == <<sources, plain, box, tmp, vols, lock>>
vars == <<disk, batch, worker, begun, given, faults>>

\* A container, or a volume of it: whole once its encryption has finished.
Container == [of : Files, key : Keys, whole : BOOLEAN]

IdleWorker == [at |-> "idle", item |-> None, read |-> None, key |-> None, vol |-> 0,
               victims |-> <<>>, ok |-> TRUE]
NoBatch == [running |-> FALSE, encrypt |-> TRUE, dispose |-> FALSE, split |-> FALSE,
            list |-> <<>>, next |-> 1, done |-> 0, failed |-> 0, ok |-> TRUE]

WorkerPlaces == {"idle", "lock", "encrypt", "verify", "fail", "dtor", "commit", "rename",
                 "dispose", "split", "volume", "removebase",
                 "resolve", "decrypt", "victims", "count", "ended"}

Worker ==
  [at : WorkerPlaces, item : Files \cup Names \cup {None},
   read : Container \cup {None},   \* the container being split
   key : Keys \cup {None}, vol : 0..NVols, victims : Seq(0..NVols), ok : BOOLEAN]
BatchState ==
  [running : BOOLEAN, encrypt : BOOLEAN, dispose : BOOLEAN, split : BOOLEAN,
   list : Seq(Files \cup Names), next : Nat \ {0}, done : Nat, failed : Nat, ok : BOOLEAN]

ASSUME Markers == None \notin Container

TypeOK ==
  /\ sources \subseteq Files
  /\ plain \in [Names -> Files \cup {None}]
  /\ box \in [Names -> Container \cup {None}] /\ tmp \in [Names -> Container \cup {None}]
  /\ vols \in [Names -> [1..NVols -> Container \cup {None}]]
  /\ lock \in [Names -> Workers \cup {Free, Stale}]
  /\ batch \in BatchState /\ worker \in [Workers -> Worker]
  /\ begun \subseteq Files /\ given \in 0..MaxBatches /\ faults \in 0..MaxFaults

Init ==
  /\ sources = Files
  /\ plain = [n \in Names |-> None]
  /\ box = [n \in Names |-> None] /\ tmp = [n \in Names |-> None]
  /\ vols = [n \in Names |-> [i \in 1..NVols |-> None]]
  /\ lock = [n \in Names |-> Free]
  /\ batch = NoBatch
  /\ worker = [w \in Workers |-> IdleWorker]
  /\ begun = {} /\ given = 0 /\ faults = 0

-----------------------------------------------------------------------------
Fault == faults < MaxFaults /\ faults' = faults + 1
At(w, place) == worker[w].at = place
Goto(w, place) == worker' = [worker EXCEPT ![w].at = place]
GotoWith(w, place, ok) == worker' = [worker EXCEPT ![w].at = place, ![w].ok = ok]

\* The name a worker works on.
Target(w) == IF batch.encrypt THEN Name[worker[w].item] ELSE worker[w].item

\* Keys are random: a new one is in no container, in no volume and with no worker.
UsedKeys ==
  {c.key : c \in ({box[n] : n \in Names} \cup {tmp[n] : n \in Names}
                    \cup {vols[n][i] : n \in Names, i \in 1..NVols}
                    \cup {worker[w].read : w \in Workers}) \ {None}}
  \cup {worker[w].key : w \in Workers}

\* find_volumes: the volumes up to the first one missing.
Found(n) == {i \in 1..NVols : \A k \in 1..i : vols[n][k] # None}
Gap(n) == \E i \in 1..NVols : vols[n][i] # None /\ i \notin Found(n)

\* The volumes make up one finished container.
Complete(n) ==
  /\ Found(n) = 1..NVols
  /\ \A i \in 1..NVols : vols[n][i].whole /\ vols[n][i].key = vols[n][1].key

Whole(c) == c # None /\ c.whole

-----------------------------------------------------------------------------
(***************************************************************************)
(* The batch.                                                              *)
(***************************************************************************)
\* Without -y, encryption leaves out a source under whose output name there is a container
\* of the right length.
Skipped(fs, force) ==
  {f \in fs : ~force /\ Whole(box[Name[f]])}

\* A batch is given, its inputs are collected and scanned.  A decryption takes a container
\* and its volumes as one input; it leaves none out, since an existing output would have to
\* look like a container.
Begin ==
  /\ ~batch.running
  /\ given < MaxBatches /\ given' = given + 1
  /\ \E enc, force, dispose, split \in BOOLEAN :
       LET present == IF enc THEN sources
                      ELSE {n \in Names : box[n] # None \/ Found(n) # {}} IN
       /\ (~enc => ~split /\ ~force)
       /\ \E fs \in SUBSET present :
            LET list == IF enc THEN fs \ Skipped(fs, force) ELSE fs IN
            /\ list # {}
            /\ batch' = [NoBatch EXCEPT !.running = TRUE, !.encrypt = enc,
                           !.dispose = dispose, !.split = split, !.list = SetToSeq(list)]
  /\ UNCHANGED <<disk, worker, begun, faults>>

\* Every worker has run out of files.
End ==
  /\ batch.running /\ \A w \in Workers : At(w, "ended")
  /\ batch' = NoBatch
  /\ worker' = [w \in Workers |-> IdleWorker]
  /\ UNCHANGED <<disk, begun, given, faults>>

\* The process is killed.
Kill ==
  /\ batch.running /\ Fault
  /\ batch' = NoBatch
  /\ worker' = [w \in Workers |-> IdleWorker]
  /\ lock' = [n \in Names |-> IF lock[n] \in Workers THEN Stale ELSE lock[n]]
  /\ UNCHANGED <<sources, plain, box, tmp, vols, begun, given>>

\* file_index.fetch_add: the next file of the list, or the end of the worker.
Take(w) ==
  /\ batch.running /\ At(w, "idle")
  /\ IF batch.next > Len(batch.list)
       THEN Goto(w, "ended")
       ELSE worker' = [worker EXCEPT ![w] =
              [IdleWorker EXCEPT !.at = IF batch.encrypt THEN "lock" ELSE "resolve",
                                 !.item = batch.list[batch.next]]]
  /\ batch' = [batch EXCEPT !.next = @ + 1]
  /\ UNCHANGED <<disk, begun, given, faults>>

\* Mutant: a file that failed does not make the batch fail.
CountQuietly(w) ==
  /\ At(w, "count")
  /\ batch' = IF worker[w].ok THEN [batch EXCEPT !.done = @ + 1]
              ELSE [batch EXCEPT !.failed = @ + 1]
  /\ worker' = [worker EXCEPT ![w] = IdleWorker]
  /\ UNCHANGED <<disk, begun, given, faults>>

\* The file is counted; a failure does not keep the worker from the next.
Count(w) ==
  /\ At(w, "count")
  /\ batch' = IF worker[w].ok THEN [batch EXCEPT !.done = @ + 1]
              ELSE [batch EXCEPT !.failed = @ + 1, !.ok = FALSE]
  /\ worker' = [worker EXCEPT ![w] = IdleWorker]
  /\ UNCHANGED <<disk, begun, given, faults>>

-----------------------------------------------------------------------------
(***************************************************************************)
(* Encrypting one file.                                                    *)
(***************************************************************************)
\* Mutant: a lock left by a killed batch is not reclaimed, and it is waited for.
LockWaits(w) ==
  LET n == Target(w)
      key == CHOOSE k \in Keys \ UsedKeys : TRUE IN
  /\ At(w, "lock")
  /\ lock[n] = Free /\ worker[w].item \in sources
  /\ lock' = [lock EXCEPT ![n] = w]
  /\ tmp' = [tmp EXCEPT ![n] = [of |-> worker[w].item, key |-> key, whole |-> FALSE]]
  /\ worker' = [worker EXCEPT ![w].at = "encrypt", ![w].key = key]
  /\ begun' = begun \cup {worker[w].item}
  /\ UNCHANGED <<sources, plain, box, vols, batch, given, faults>>

\* encrypt_file: the output lock, then the temporary file is created or emptied.
Lock(w) ==
  LET n == Target(w)
      key == CHOOSE k \in Keys \ UsedKeys : TRUE IN
  /\ At(w, "lock")
  /\ \/ /\ lock[n] \in {Free, Stale} /\ worker[w].item \in sources
        /\ Keys \ UsedKeys # {}
        /\ lock' = [lock EXCEPT ![n] = w]
        /\ tmp' = [tmp EXCEPT ![n] = [of |-> worker[w].item, key |-> key, whole |-> FALSE]]
        /\ worker' = [worker EXCEPT ![w].at = "encrypt", ![w].key = key]
        /\ begun' = begun \cup {worker[w].item}
        /\ UNCHANGED faults
     \/ /\ IF lock[n] \in Workers THEN UNCHANGED faults ELSE Fault
        /\ GotoWith(w, "dtor", FALSE)
        /\ UNCHANGED <<lock, tmp, begun>>
  /\ UNCHANGED <<sources, plain, box, vols, batch, given>>

\* The file that was opened gets its last byte, wherever it has been moved to meanwhile.
Sealed(c, key) == IF c # None /\ c.key = key THEN [c EXCEPT !.whole = TRUE] ELSE c

\* Every chunk is written and the header sealed.
Encrypt(w) ==
  LET key == worker[w].key IN
  /\ At(w, "encrypt")
  /\ \/ /\ tmp' = [n \in Names |-> Sealed(tmp[n], key)]
        /\ box' = [n \in Names |-> Sealed(box[n], key)]
        /\ worker' = [v \in Workers |->
             IF v = w THEN [worker[w] EXCEPT !.at = "verify"]
             ELSE [worker[v] EXCEPT !.read = Sealed(@, key)]]
        /\ UNCHANGED faults
     \/ Fault /\ GotoWith(w, "fail", FALSE) /\ UNCHANGED <<box, tmp>>
  /\ UNCHANGED <<sources, plain, vols, lock, batch, begun, given>>

\* The container under the temporary name is decrypted with this job's key, without
\* --force-decrypt; then encrypt_file returns and the lock is released.
Verify(w) ==
  LET c == tmp[Target(w)] IN
  /\ At(w, "verify")
  /\ IF Whole(c) /\ c.key = worker[w].key
       THEN Goto(w, "commit") /\ lock' = [lock EXCEPT ![Target(w)] = Free]
       ELSE GotoWith(w, "fail", FALSE) /\ UNCHANGED lock
  /\ UNCHANGED <<sources, plain, box, tmp, vols, batch, begun, given, faults>>

\* A failed encrypt_file removes its output, then its lock goes ...
Fail(w) ==
  /\ At(w, "fail")
  /\ tmp' = [tmp EXCEPT ![Target(w)] = None]
  /\ lock' = [lock EXCEPT ![Target(w)] = Free]
  /\ Goto(w, "dtor")
  /\ UNCHANGED <<sources, plain, box, vols, batch, begun, given, faults>>

\* ... and ~AtomicOutput removes what has the temporary name by now.
DropTemp(w) ==
  /\ At(w, "dtor")
  /\ tmp' = [tmp EXCEPT ![Target(w)] = None]
  /\ Goto(w, "count")
  /\ UNCHANGED <<sources, plain, box, vols, lock, batch, begun, given, faults>>

\* AtomicOutput::commit: the old container is removed ...
CommitUnlink(w) ==
  /\ At(w, "commit")
  /\ box' = [box EXCEPT ![Target(w)] = None]
  /\ Goto(w, "rename")
  /\ UNCHANGED <<sources, plain, tmp, vols, lock, batch, begun, given, faults>>

\* Mutant: the result of the commit is not looked at.
RenameUnchecked(w) ==
  LET n == Target(w) IN
  /\ At(w, "rename") /\ Goto(w, "dispose")
  /\ \/ /\ tmp[n] # None /\ box' = [box EXCEPT ![n] = tmp[n]]
        /\ tmp' = [tmp EXCEPT ![n] = None]
        /\ UNCHANGED faults
     \/ /\ IF tmp[n] = None THEN UNCHANGED faults ELSE Fault
        /\ UNCHANGED <<box, tmp>>
  /\ UNCHANGED <<sources, plain, vols, lock, batch, begun, given>>

\* ... and what has the temporary name gets the final one.
CommitRename(w) ==
  LET n == Target(w) IN
  /\ At(w, "rename")
  /\ \/ /\ tmp[n] # None
        /\ box' = [box EXCEPT ![n] = tmp[n]] /\ tmp' = [tmp EXCEPT ![n] = None]
        /\ Goto(w, "dispose")
        /\ UNCHANGED faults
     \/ /\ IF tmp[n] = None THEN UNCHANGED faults ELSE Fault
        /\ GotoWith(w, "dtor", FALSE)
        /\ UNCHANGED <<box, tmp>>
  /\ UNCHANGED <<sources, plain, vols, lock, batch, begun, given>>

\* secure_handle_source, before the container is split.
DisposeSource(w) ==
  /\ At(w, "dispose")
  /\ \/ /\ sources' = IF batch.dispose THEN sources \ {worker[w].item} ELSE sources
        /\ Goto(w, IF batch.split THEN "split" ELSE "count")
        /\ UNCHANGED faults
     \/ /\ batch.dispose /\ Fault /\ UNCHANGED sources
        /\ GotoWith(w, "count", FALSE)
  /\ UNCHANGED <<plain, box, tmp, vols, lock, batch, begun, given>>

\* split_file opens the container ...
Split(w) ==
  LET c == box[Target(w)] IN
  /\ At(w, "split")
  /\ \/ /\ c # None
        /\ worker' = [worker EXCEPT ![w].at = "volume", ![w].read = c, ![w].vol = 1]
        /\ UNCHANGED faults
     \/ /\ IF c = None THEN UNCHANGED faults ELSE Fault
        /\ GotoWith(w, "count", FALSE)
  /\ UNCHANGED <<disk, batch, begun, given>>

\* Mutant: the last volume is not recognised as the last.
VolumeOneMore(w) ==
  LET v == worker[w].vol IN
  /\ At(w, "volume")
  /\ vols' = [vols EXCEPT ![Target(w)] = [i \in 1..NVols |-> IF i = v THEN worker[w].read ELSE @[i]]]
  /\ worker' = [worker EXCEPT ![w].at = IF v > NVols THEN "removebase" ELSE "volume",
                              ![w].vol = IF v > NVols THEN 0 ELSE v + 1]
  /\ UNCHANGED <<sources, plain, box, tmp, lock, batch, begun, given, faults>>

\* ... and writes volume after volume; one it cannot write ends it, one that does not
\* reach the disk when it is closed goes unnoticed.
Volume(w) ==
  LET v == worker[w].vol IN
  /\ At(w, "volume")
  /\ \/ /\ \/ vols' = [vols EXCEPT ![Target(w)][v] = worker[w].read] /\ UNCHANGED faults
           \/ /\ CloseFails /\ Fault
              /\ vols' = [vols EXCEPT ![Target(w)][v] = [worker[w].read EXCEPT !.whole = FALSE]]
        /\ worker' = [worker EXCEPT ![w].at = IF v = NVols THEN "removebase" ELSE "volume",
                                    ![w].vol = IF v = NVols THEN 0 ELSE v + 1,
                                    ![w].read = IF v = NVols THEN None ELSE @]
     \/ /\ Fault
        /\ vols' = [vols EXCEPT ![Target(w)][v] = [worker[w].read EXCEPT !.whole = FALSE]]
        /\ worker' = [worker EXCEPT ![w].at = "count", ![w].ok = FALSE, ![w].read = None,
                                    ![w].vol = 0]
  /\ UNCHANGED <<sources, plain, box, tmp, lock, batch, begun, given>>

\* finish_encrypt_split removes the container, by its name.
RemoveBase(w) ==
  /\ At(w, "removebase")
  /\ \/ box' = [box EXCEPT ![Target(w)] = None] /\ UNCHANGED faults
     \/ Fault /\ UNCHANGED box
  /\ Goto(w, "count")
  /\ UNCHANGED <<sources, plain, tmp, vols, lock, batch, begun, given>>

-----------------------------------------------------------------------------
(***************************************************************************)
(* Decrypting one container.                                               *)
(***************************************************************************)
\* resolve_decrypt_input: the container if it is there, else its volumes, unless one is
\* missing among them.
Resolve(w) ==
  LET n == Target(w) IN
  /\ At(w, "resolve")
  /\ IF box[n] = None /\ (Gap(n) \/ Found(n) = {})
       THEN GotoWith(w, "count", FALSE)
       ELSE worker' = [worker EXCEPT ![w].at = "decrypt",
                         ![w].vol = IF box[n] # None THEN 0 ELSE Cardinality(Found(n))]
  /\ UNCHANGED <<disk, batch, begun, given, faults>>

\* Mutant: a container that does not decrypt counts as done.
DecryptUnchecked(w) ==
  LET n == Target(w)
      from == IF worker[w].vol = 0 THEN box[n] ELSE vols[n][1]
      opens == IF worker[w].vol = 0 THEN Whole(box[n]) ELSE Complete(n)
      victims == IF worker[w].vol # 0 THEN [k \in 1..worker[w].vol |-> k]
                 ELSE IF Found(n) = {} THEN <<0>>
                 ELSE [k \in 1..Cardinality(Found(n)) |-> k] IN
  /\ At(w, "decrypt")
  /\ plain' = IF opens THEN [plain EXCEPT ![n] = from.of] ELSE plain
  /\ worker' = [worker EXCEPT ![w].at = IF batch.dispose THEN "victims" ELSE "count",
                              ![w].vol = 0, ![w].victims = victims]
  /\ UNCHANGED <<sources, box, tmp, vols, lock, batch, begun, given, faults>>

\* decrypt_file of the container or of the merged volumes, which replaces the output; then
\* what is to be disposed of: the volumes merged; else those there are, or the container if
\* there are none.
Decrypt(w) ==
  LET n == Target(w)
      from == IF worker[w].vol = 0 THEN box[n] ELSE vols[n][1]
      opens == IF worker[w].vol = 0 THEN Whole(box[n]) ELSE Complete(n)
      victims == IF worker[w].vol # 0 THEN [k \in 1..worker[w].vol |-> k]
                 ELSE IF Found(n) = {} THEN <<0>>
                 ELSE [k \in 1..Cardinality(Found(n)) |-> k] IN
  /\ At(w, "decrypt")
  /\ \/ /\ opens
        /\ plain' = [plain EXCEPT ![n] = from.of]
        /\ worker' = [worker EXCEPT ![w].at = IF batch.dispose THEN "victims" ELSE "count",
                                    ![w].vol = 0, ![w].victims = victims]
        /\ UNCHANGED faults
     \/ /\ IF opens THEN Fault ELSE UNCHANGED faults
        /\ plain' \in {plain, [plain EXCEPT ![n] = IF opens THEN None ELSE @]}
        /\ worker' = [worker EXCEPT ![w].at = "count", ![w].ok = FALSE, ![w].vol = 0]
  /\ UNCHANGED <<sources, box, tmp, vols, lock, batch, begun, given>>

\* secure_handle_source of one after the other; a failure does not spare the rest.
Victim(w) ==
  LET n == Target(w)
      v == Head(worker[w].victims)
      rest == Tail(worker[w].victims) IN
  /\ At(w, "victims")
  /\ \/ /\ box' = IF v = 0 THEN [box EXCEPT ![n] = None] ELSE box
        /\ vols' = IF v = 0 THEN vols ELSE [vols EXCEPT ![n][v] = None]
        /\ UNCHANGED faults
     \/ Fault /\ UNCHANGED <<box, vols>>
  /\ worker' = [worker EXCEPT ![w].at = IF rest = <<>> THEN "count" ELSE "victims",
                              ![w].victims = rest,
                              ![w].ok = @ /\ faults' = faults]
  /\ UNCHANGED <<sources, plain, tmp, lock, batch, begun, given>>

-----------------------------------------------------------------------------
Run(w) ==
  \/ Take(w) \/ Count(w)
  \/ Lock(w) \/ Encrypt(w) \/ Verify(w) \/ Fail(w) \/ DropTemp(w) \/ CommitUnlink(w)
  \/ CommitRename(w) \/ DisposeSource(w) \/ Split(w) \/ Volume(w) \/ RemoveBase(w)
  \/ Resolve(w) \/ Decrypt(w) \/ Victim(w)

Next == Begin \/ End \/ Kill \/ \E w \in Workers : Run(w)

Spec == Init /\ [][Next]_vars

\* Every worker is scheduled, and the main thread joins them.
FairSpec == Spec /\ WF_vars(End) /\ \A w \in Workers : WF_vars(Run(w))

-----------------------------------------------------------------------------
(***************************************************************************)
(* Properties.                                                             *)
(***************************************************************************)
\* The content of f exists: as it was, decrypted, in a finished container or in volumes.
Kept(f) ==
  \/ f \in sources
  \/ \E n \in Names :
       \/ plain[n] = f
       \/ Whole(box[n]) /\ box[n].of = f
       \/ Complete(n) /\ vols[n][1].of = f

\* Another file was encrypted under the same name, and it is kept, or there are volumes.
GivenWay(f) ==
  \E g \in begun \ {f} :
    /\ Name[g] = Name[f]
    /\ Kept(g) \/ \E i \in 1..NVols : vols[Name[f]][i] # None

\* However batches encrypt, split, decrypt and dispose, fail and are killed, and whatever
\* several workers do at the same time, a file is lost at most to another one of the same
\* output name.
NothingLost == \A f \in Files : Kept(f) \/ GivenWay(f)

\* "Workers that process different sources do not disturb each other" (line 4110): no file
\* at all is lost.
NoneLost == \A f \in Files : Kept(f)

\* When the workers have ended, every file of the list was counted exactly once, and the
\* batch succeeded only if none failed.
CountsAddUp ==
  batch.running /\ (\A w \in Workers : At(w, "ended")) =>
    /\ batch.done + batch.failed = Len(batch.list)
    /\ batch.ok <=> batch.failed = 0

\* A batch that returns success has delivered: of every source on its list, unless another
\* one there has its output name, there is a finished container or a complete set of
\* volumes; of every container the plaintext.
SuccessDelivers ==
  batch.running /\ (\A w \in Workers : At(w, "ended")) /\ batch.ok =>
    \A k \in DOMAIN batch.list :
      LET x == batch.list[k]
          n == Name[x] IN
      IF ~batch.encrypt THEN plain[x] # None
      ELSE \/ \E l \in DOMAIN batch.list \ {k} : Name[batch.list[l]] = n
           \/ ~batch.split /\ Whole(box[n]) /\ box[n].of = x
           \/ batch.split /\ Complete(n) /\ vols[n][1].of = x

\* A batch returns, whatever locks, temporary files and volumes an earlier one has left.
BatchReturns == batch.running ~> ~batch.running

(***************************************************************************)
(* Why CountsAddUp, NothingLost and SuccessDelivers hold: which worker has *)
(* which file, and what it knows at each place of the files it works on.   *)
(***************************************************************************)
Busy(w) == worker[w].at \notin {"idle", "ended"}

EncryptPlaces == {"lock", "encrypt", "verify", "fail", "dtor", "commit", "rename", "dispose",
                  "split", "volume", "removebase"}
DecryptPlaces == {"resolve", "decrypt", "victims"}
Inputs == IF batch.encrypt THEN Files ELSE Names

\* The files of a list are different ones, and no two workers have the same.
Hands ==
  /\ batch.running => batch.list \in Seq(Inputs) /\ IsInjective(batch.list)
  /\ \A w \in Workers :
       /\ ~batch.running => worker[w] = IdleWorker
       /\ Busy(w) =>
            /\ worker[w].at \in {"count"} \cup (IF batch.encrypt THEN EncryptPlaces
                                              ELSE DecryptPlaces)
            /\ \E k \in DOMAIN batch.list : k < batch.next /\ worker[w].item = batch.list[k]
       /\ At(w, "ended") => batch.next > Len(batch.list) + 1
       /\ At(w, "volume") => worker[w].vol # 0 /\ worker[w].read # None
       /\ At(w, "victims") => worker[w].victims # <<>>
  /\ \A v, w \in Workers : Busy(v) /\ Busy(w) /\ worker[v].item = worker[w].item => v = w

\* A file that was taken is counted or in the hands of a worker.
Counted ==
  batch.running =>
    /\ batch.done + batch.failed + Cardinality({w \in Workers : Busy(w)})
         = IF batch.next > Len(batch.list) THEN Len(batch.list) ELSE batch.next - 1
    /\ batch.ok <=> batch.failed = 0

\* The files an encryption under the name n was begun of.
Begun(n) == {f \in begun : Name[f] = n}

\* No other file of its name is on the list, or none was ever begun.
Sole(w) ==
  \/ \A k \in DOMAIN batch.list :
       Name[batch.list[k]] = Target(w) => batch.list[k] = worker[w].item
  \/ Begun(Target(w)) \subseteq {worker[w].item}

Made == {"encrypt", "verify", "commit", "rename", "dispose", "split", "volume", "removebase"}

\* What a worker that encrypts knows.
EncryptKnows(w) ==
  LET me == worker[w]
      n  == Target(w)
      own(done) == [of |-> me.item, key |-> me.key, whole |-> done] IN
    /\ me.at \in {"encrypt", "verify", "fail"} => lock[n] = w
    /\ me.at \in {"encrypt", "verify", "commit", "rename", "dispose"} => me.item \in sources
    /\ me.at \in Made => me.item \in begun
    /\ me.at = "encrypt" => tmp[n] \in {None, own(FALSE)}
    /\ me.at = "verify" => tmp[n] \in {None, own(TRUE)}
    /\ me.at \in {"split", "volume", "removebase"} => batch.split
    /\ me.at = "volume" => me.read.of \in Begun(n)
    /\ me.at = "removebase" => \E i \in 1..NVols : vols[n][i] # None
    /\ me.at \in {"fail", "dtor"} => ~me.ok
    /\ Sole(w) =>
         /\ me.at \in {"commit", "rename"} /\ tmp[n] # None => tmp[n].whole /\ tmp[n].of = me.item
         /\ me.at \in {"dispose", "split", "volume"} => Whole(box[n]) /\ box[n].of = me.item
         /\ me.at = "volume" =>
              /\ me.read.whole /\ me.read.of = me.item
              /\ \A i \in 1..(me.vol - 1) : vols[n][i] = me.read
         /\ me.at = "removebase" => Complete(n) /\ vols[n][1].of = me.item

\* What is under a name is of a file that was begun; what is not finished under the
\* temporary name is of a source that is there.
Contents ==
  /\ Files \ begun \subseteq sources
  /\ \A n \in Names :
       /\ box[n] # None => box[n].of \in Begun(n)
       /\ tmp[n] # None => tmp[n].of \in Begun(n)
       /\ \A i \in 1..NVols : vols[n][i] # None => vols[n][i].of \in Begun(n)
       /\ plain[n] # None => plain[n] \in Begun(n)
       /\ tmp[n] # None /\ ~tmp[n].whole =>
            /\ tmp[n].of \in sources
            /\ \A w \in Workers : worker[w].item = tmp[n].of =>
                 worker[w].at \notin Made \ {"encrypt"}

AtDispose(f) == \E w \in Workers : worker[w].at = "dispose" /\ worker[w].item = f

\* Of the files begun under a name one exists, and goes on to exist when the workers at it
\* have disposed of theirs; or several were, and there are volumes.
Safe(n) ==
  \/ Whole(box[n]) \/ plain[n] # None \/ Complete(n)
  \/ \E f \in Begun(n) \cap sources : ~AtDispose(f)
  \/ /\ \E f, g \in Begun(n) : f # g
     /\ \E i \in 1..NVols : vols[n][i] # None

Spared ==
  /\ Contents
  /\ \A v, w \in Workers :
       At(v, "encrypt") /\ At(w, "encrypt") /\ worker[v].key = worker[w].key => v = w
  /\ \A w \in Workers :
       /\ batch.encrypt /\ Busy(w) => EncryptKnows(w)
       /\ At(w, "victims") => plain[worker[w].item] # None
  /\ \A n \in Names : Begun(n) # {} => Safe(n)

\* What SuccessDelivers asks for the file x of the list.
Delivered(x) ==
  IF ~batch.encrypt THEN plain[x] # None
  ELSE \/ \E k \in DOMAIN batch.list : batch.list[k] # x /\ Name[batch.list[k]] = Name[x]
       \/ ~batch.split /\ Whole(box[Name[x]]) /\ box[Name[x]].of = x
       \/ batch.split /\ Complete(Name[x]) /\ vols[Name[x]][1].of = x

\* A file that was taken is delivered, in the hands of a worker, or the batch has failed.
Delivering ==
  /\ \A w \in Workers : At(w, "count") /\ worker[w].ok => Delivered(worker[w].item)
  /\ batch.running /\ batch.ok =>
       \A k \in DOMAIN batch.list : k < batch.next =>
         \/ \E w \in Workers : Busy(w) /\ worker[w].item = batch.list[k]
         \/ Delivered(batch.list[k])
=============================================================================
