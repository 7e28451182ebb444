------------------------------- MODULE Vault -------------------------------
(***************************************************************************)
(* The commands that work on one vault directory: --vault-init,            *)
(* --into-vault, --vault-reindex, --vault-rekey, --vault-recrypt and       *)
(* --vault-mount of src/CLI/cli/main.cpp over src/CLI/core/vault_index.cpp *)
(* and rewrap_file_with of src/CLI/core/FileEncryptor.cpp.                 *)
(*                                                                         *)
(* A vault is vault.meta (the salt of the index key), .feindex (the sealed *)
(* list of entries) and one container per file under a random name.  No    *)
(* lock covers the directory: commands overlap as users start them, and    *)
(* each can be killed between any two steps.  EncryptJob and DecryptJob    *)
(* have the details of one container; here making one is two steps.        *)
(***************************************************************************)
EXTENDS Integers, FiniteSets

CONSTANTS
  Procs,      \* the processes that may run a command on the vault
  Files,      \* the files to put into it, each standing for its name and its content
  Stores,     \* the random names containers may get
  Passwords,  \* the passwords users type
  Commands,   \* the commands users give
  MaxSalt,    \* bound on the salts drawn
  MaxGiven,   \* bound on the commands given
  MaxFaults,  \* bound on kills and failing operations
  None, Torn

AllCommands == {"init", "add", "reindex", "rekey", "recrypt", "mount"}

ASSUME VaultConstants ==
  /\ MaxSalt \in Nat \ {0} /\ MaxGiven \in Nat \ {0} /\ MaxFaults \in Nat
  /\ Passwords # {} /\ Commands \subseteq AllCommands
  /\ None \notin Files \cup Stores \cup Passwords /\ Torn # None

VARIABLES
  meta,     \* vault.meta: the salt, None, or Torn (shorter than what was written)
  salts,    \* the number of salts drawn so far
  index,    \* .feindex: what it was sealed with and what it lists, None, or Torn
  boxes,    \* the container at each place, or None
  used,     \* the names drawn so far: 64 random bits, never drawn twice
  sources,  \* the plaintext files that are still where they were
  exposed,  \* history: files whose container a recrypt removed, no finished one in its place
  pc, job,  \* where each process is, and the local variables of its command
  given,    \* the commands given so far
  faults    \* kills and failing operations so far

disk == <<meta, salts, index, boxes, used, sources, exposed>>
vars == <<disk, given, pc, job, faults>>

Salts == 1..MaxSalt
\* .recrypt.tmp/<rel_path>.new.ptd
Tmp(n) == <<"recrypt.tmp", n>>
Places == Stores \cup {Tmp(n) : n \in Files \cup Stores}
\* A container that does not tell its original name is listed under its stem.
Names == Files \cup Places

Box == [file : Files, name : Names, pw : Passwords,
        big : BOOLEAN,      \* compressed, or chunks over 64 KB
        whole : BOOLEAN]    \* encrypt_file has finished it
Entry == [name : Names, place : Places]
Index == [pw : Passwords, salt : Salts, entries : SUBSET Entry]

Job ==
  [cmd : AllCommands, pw : Passwords, new : Passwords, dispose : BOOLEAN,
   meta : Salts \cup {None},               \* vault.meta as loaded
   entries : (SUBSET Entry) \cup {None},   \* index mirror, entries read or entries found
   todo : SUBSET (Files \cup Entry),       \* files or entries not yet done
   file : Files \cup {None},               \* the file being added or recrypted
   entry : Entry \cup {None},              \* its entry
   failed : BOOLEAN,                       \* a rewrap has failed
   dropped : BOOLEAN,                      \* history: a header rewrapped did not arrive
   shared : BOOLEAN]                       \* history: other commands ran meanwhile

\* A random name is not that of a file; the markers are not values.
ASSUME NamesApart ==
  /\ Files \cap Stores = {}
  /\ \A n \in Files \cup Stores : Tmp(n) \notin Files \cup Stores

ASSUME Markers ==
  /\ None \notin Box \cup Index /\ None \notin Entry /\ None \notin Salts
  /\ Torn \notin Salts

IdleJob ==
  [cmd |-> "init", pw |-> CHOOSE w \in Passwords : TRUE, new |-> CHOOSE w \in Passwords : TRUE,
   dispose |-> FALSE, meta |-> None, entries |-> None, todo |-> {}, file |-> None,
   entry |-> None, failed |-> FALSE, dropped |-> FALSE, shared |-> FALSE]

PcValues == {"idle", "meta", "add", "encrypt", "append", "dispose", "index", "rewrap",
             "reseal", "seal", "recrypt", "reencrypt", "remove", "rename", "clean", "scan",
             "write", "save", "done"}

TypeOK ==
  /\ meta \in Salts \cup {None, Torn} /\ salts \in 0..MaxSalt
  /\ index \in Index \cup {None, Torn}
  /\ boxes \in [Places -> Box \cup {None}]
  /\ used \subseteq Stores /\ sources \subseteq Files /\ exposed \subseteq Files
  /\ pc \in [Procs -> PcValues]
  /\ job \in [Procs -> Job]
  /\ given \in 0..MaxGiven /\ faults \in 0..MaxFaults

Init ==
  /\ meta = None /\ salts = 0 /\ index = None
  /\ boxes = [pl \in Places |-> None]
  /\ used = {} /\ sources = Files /\ exposed = {}
  /\ pc = [p \in Procs |-> "idle"]
  /\ job = [p \in Procs |-> IdleJob]
  /\ given = 0 /\ faults = 0

-----------------------------------------------------------------------------
Goto(p, place) == pc' = [pc EXCEPT ![p] = place]
Move(p, from, to) == pc[p] = from /\ Goto(p, to)
Finish(p) == Goto(p, "idle") /\ job' = [job EXCEPT ![p] = IdleJob]
Fault == faults < MaxFaults /\ faults' = faults + 1

\* Where a bound of the model is reached the process is taken to be killed.
OutOf(bound) == bound

\* write_file_atomic: the temporary file is written, the result of that is not looked at,
\* and it is renamed into place.
Written(value, old) ==
  {[is |-> value, ok |-> TRUE, fault |-> 0], [is |-> old, ok |-> FALSE, fault |-> 1],
   [is |-> Torn, ok |-> TRUE, fault |-> 1]}
Count(w) == faults + w.fault <= MaxFaults /\ faults' = faults + w.fault

\* read_index_text: a missing index is an empty one.
IndexOpens(j) ==
  \/ index = None
  \/ index # Torn /\ index.pw = j.pw /\ index.salt = j.meta
Listed == IF index = None THEN {} ELSE index.entries

\* acquire_output_lock of a container that is still being made.
Locked(p, place) ==
  \E q \in Procs \ {p} : pc[q] = "encrypt" /\ job[q].entry.place = place

-----------------------------------------------------------------------------
\* A user gives a command.
Begin(p) ==
  /\ Move(p, "idle", "meta")
  /\ given < MaxGiven /\ given' = given + 1
  /\ \E c \in Commands, w, n \in Passwords, d \in BOOLEAN, fs \in SUBSET sources :
       /\ fs # {} <=> c = "add"
       /\ c # "rekey" => n = w
       /\ c # "add" => ~d
       /\ c \in {"init", "mount"} => w = IdleJob.pw     \* it has no password
       /\ job' = [q \in Procs |->
            IF q = p
            THEN [IdleJob EXCEPT !.cmd = c, !.pw = w, !.new = n, !.dispose = d, !.todo = fs,
                                 !.shared = \E r \in Procs \ {p} : pc[r] # "idle"]
            ELSE [job[q] EXCEPT !.shared = @ \/ pc[q] # "idle"]]
  /\ UNCHANGED <<disk, faults>>

\* Where a command goes once it has the meta data.
AfterMeta(c) ==
  CASE c = "add" -> "add" [] c \in {"rekey", "recrypt"} -> "index"
    [] c = "reindex" -> "scan" [] c = "mount" -> "save" [] c = "init" -> "done"

\* Mutant: vault.meta is not parsed to its end.
LoadMetaUnparsed(p) ==
  /\ pc[p] = "meta"
  /\ meta # None
  /\ Goto(p, AfterMeta(job[p].cmd))
  /\ job' = [job EXCEPT ![p].meta = meta]
  /\ UNCHANGED <<given, disk, faults>>

\* vault_meta_load.
LoadMeta(p) ==
  /\ pc[p] = "meta"
  /\ IF meta \in Salts
       THEN /\ Goto(p, AfterMeta(job[p].cmd))
            /\ job' = [job EXCEPT ![p].meta = meta]
       ELSE /\ meta = Torn \/ job[p].cmd \notin {"init", "add"}
            /\ Finish(p)
  /\ UNCHANGED <<given, disk, faults>>

\* vault_meta_init of a directory without vault.meta, with the look for it; --into-vault does
\* not take one that has something in it.
InitMeta(p) ==
  /\ pc[p] = "meta" /\ meta = None /\ job[p].cmd \in {"init", "add"}
  /\ IF \/ job[p].cmd = "add" /\ (index # None \/ \E pl \in Places : boxes[pl] # None)
        \/ OutOf(salts = MaxSalt)
       THEN Finish(p) /\ UNCHANGED <<meta, salts, faults>>
       ELSE /\ salts' = salts + 1
            /\ \E w \in Written(salts', None) :
                 /\ Count(w)
                 /\ meta' = w.is
                 /\ IF w.ok THEN /\ Goto(p, AfterMeta(job[p].cmd))
                                 /\ job' = [job EXCEPT ![p].meta = salts']
                            ELSE Finish(p)
  /\ UNCHANGED <<given, index, boxes, used, sources, exposed>>

-----------------------------------------------------------------------------
\* --into-vault: the next file gets a random name and encrypt_file creates its container.
AddFile(p) ==
  /\ pc[p] = "add"
  /\ \/ /\ job[p].todo = {} /\ Goto(p, "done") /\ UNCHANGED <<boxes, used, job>>
     \/ \E f \in job[p].todo :
          IF f \notin sources \/ OutOf(used = Stores)
          THEN Finish(p) /\ UNCHANGED <<boxes, used>>
          ELSE \E s \in Stores \ used :
            /\ used' = used \cup {s}
            /\ boxes' = [boxes EXCEPT ![s] = [file |-> f, name |-> s, pw |-> job[p].pw,
                                              big |-> TRUE, whole |-> FALSE]]
            /\ job' = [job EXCEPT ![p].file = f, ![p].todo = @ \ {f},
                                  ![p].entry = [name |-> f, place |-> s]]
            /\ Goto(p, "encrypt")
  /\ UNCHANGED <<given, meta, salts, index, sources, exposed, faults>>

\* Mutant: the result of encrypt_file is ignored.
EncryptUnchecked(p) ==
  /\ Move(p, "encrypt", "append")
  /\ LET s == job[p].entry.place IN
       \/ /\ boxes' = [boxes EXCEPT ![s].whole = TRUE, ![s].name = job[p].file]
          /\ UNCHANGED faults
       \/ Fault /\ UNCHANGED boxes
  /\ UNCHANGED <<given, meta, salts, index, used, sources, exposed, job>>

\* ... and finishes it, the original name in the footer, or fails and keeps what it has.
Encrypt(p) ==
  /\ pc[p] = "encrypt"
  /\ LET s == job[p].entry.place IN
       \/ /\ boxes' = [boxes EXCEPT ![s].whole = TRUE, ![s].name = job[p].file]
          /\ Goto(p, "append")
          /\ UNCHANGED <<job, faults>>
       \/ Fault /\ Finish(p) /\ UNCHANGED boxes
  /\ UNCHANGED <<given, meta, salts, index, used, sources, exposed>>

\* Mutant: the result of vault_append_entry is ignored.
AppendUnchecked(p) ==
  /\ Move(p, "append", "dispose")
  /\ LET j == job[p]
         listed == (IF j.entries = None THEN Listed ELSE j.entries) \cup {j.entry}
     IN  IF j.entries = None /\ ~IndexOpens(j) THEN UNCHANGED <<index, job, faults>>
         ELSE /\ \E w \in Written([pw |-> j.pw, salt |-> j.meta, entries |-> listed], index) :
                   Count(w) /\ index' = w.is
              /\ job' = [job EXCEPT ![p].entries = listed]
  /\ UNCHANGED <<given, meta, salts, boxes, used, sources, exposed>>

\* vault_append_entry: the index is read once per process, into the mirror, and written
\* from the mirror for every entry.
Append(p) ==
  /\ pc[p] = "append"
  /\ LET j == job[p]
         listed == (IF j.entries = None THEN Listed ELSE j.entries) \cup {j.entry}
     IN  IF j.entries = None /\ ~IndexOpens(j)
         THEN Finish(p) /\ UNCHANGED <<index, faults>>
         ELSE \E w \in Written([pw |-> j.pw, salt |-> j.meta, entries |-> listed], index) :
                /\ Count(w)
                /\ index' = w.is
                /\ IF w.ok THEN Goto(p, "dispose") /\ job' = [job EXCEPT ![p].entries = listed]
                           ELSE Finish(p)
  /\ UNCHANGED <<given, meta, salts, boxes, used, sources, exposed>>

\* secure_handle_source; a failure is only a warning.
Dispose(p) ==
  /\ Move(p, "dispose", "add")
  /\ \/ sources' = (IF job[p].dispose THEN sources \ {job[p].file} ELSE sources)
        /\ UNCHANGED faults
     \/ job[p].dispose /\ Fault /\ UNCHANGED sources
  /\ job' = [job EXCEPT ![p].file = None, ![p].entry = None]
  /\ UNCHANGED <<given, meta, salts, index, boxes, used, exposed>>

-----------------------------------------------------------------------------
\* vault_read_index of --vault-rekey and --vault-recrypt.
ReadIndex(p) ==
  /\ pc[p] = "index"
  /\ IF IndexOpens(job[p])
       THEN /\ Goto(p, IF job[p].cmd = "rekey" THEN "rewrap" ELSE "recrypt")
            /\ job' = [job EXCEPT ![p].entries = Listed, ![p].todo = Listed]
       ELSE Finish(p)
  /\ UNCHANGED <<given, disk, faults>>

\* Mutant: containers that fail are not counted.
RewrapUncounted(p) ==
  /\ pc[p] = "rewrap"
  /\ \E e \in job[p].todo :
       /\ job' = [job EXCEPT ![p].todo = @ \ {e}]
       /\ \/ /\ boxes[e.place] # None /\ boxes[e.place].pw = job[p].pw /\ ~Locked(p, e.place)
             /\ boxes' = [boxes EXCEPT ![e.place].pw = job[p].new]
             /\ UNCHANGED faults
          \/ Fault /\ UNCHANGED boxes
          \/ /\ boxes[e.place] = None \/ boxes[e.place].pw # job[p].pw
             /\ UNCHANGED <<boxes, faults>>
  /\ UNCHANGED <<given, meta, salts, index, used, sources, exposed, pc>>

\* rewrap_file_with: the header of the next container is written anew; one that cannot be
\* does not stop the others.  That the stream fails to write it out is not noticed.
Rewrap(p) ==
  /\ pc[p] = "rewrap"
  /\ \E e \in job[p].todo :
       LET able == /\ boxes[e.place] # None /\ boxes[e.place].pw = job[p].pw
                   /\ ~Locked(p, e.place)
       IN  \/ /\ able
              /\ boxes' = [boxes EXCEPT ![e.place].pw = job[p].new]
              /\ job' = [job EXCEPT ![p].todo = @ \ {e}]
              /\ UNCHANGED faults
           \/ /\ able /\ Fault
              /\ job' = [job EXCEPT ![p].todo = @ \ {e}, ![p].dropped = TRUE]
              /\ UNCHANGED boxes
           \/ /\ IF able THEN Fault ELSE UNCHANGED faults
              /\ job' = [job EXCEPT ![p].todo = @ \ {e}, ![p].failed = TRUE]
              /\ UNCHANGED boxes
  /\ UNCHANGED <<given, meta, salts, index, used, sources, exposed, pc>>

\* All done: give up if some failed, else draw a new salt.
EndRewrap(p) ==
  /\ pc[p] = "rewrap" /\ job[p].todo = {}
  /\ IF job[p].failed THEN Finish(p) ELSE Goto(p, "reseal") /\ UNCHANGED job
  /\ UNCHANGED <<given, disk, faults>>

\* First vault.meta gets the new salt ...
SaveNewMeta(p) ==
  /\ pc[p] = "reseal"
  /\ IF OutOf(salts = MaxSalt) THEN Finish(p) /\ UNCHANGED <<meta, salts, faults>>
     ELSE /\ salts' = salts + 1
          /\ \E w \in Written(salts', meta) :
               /\ Count(w)
               /\ meta' = w.is
               /\ IF w.ok THEN Goto(p, "seal") /\ job' = [job EXCEPT ![p].meta = salts']
                          ELSE Finish(p)
  /\ UNCHANGED <<given, index, boxes, used, sources, exposed>>

\* ... then the index is sealed with it and the new password.
SealIndex(p) ==
  /\ pc[p] = "seal"
  /\ \E w \in Written([pw |-> job[p].new, salt |-> job[p].meta, entries |-> job[p].entries],
                      index) :
       /\ Count(w)
       /\ index' = w.is
       /\ IF w.ok THEN Goto(p, "done") /\ UNCHANGED job ELSE Finish(p)
  /\ UNCHANGED <<given, meta, salts, boxes, used, sources, exposed>>

-----------------------------------------------------------------------------
\* --vault-recrypt: decrypt the next container that is compressed or has large chunks.
Recrypt(p) ==
  /\ pc[p] = "recrypt"
  /\ \E e \in job[p].todo :
       LET b == boxes[e.place]
           able == b # None /\ b.whole /\ b.pw = job[p].pw
           done == [job[p] EXCEPT !.todo = @ \ {e}]
       IN  \/ /\ able /\ b.big
              /\ job' = [job EXCEPT ![p] = [done EXCEPT !.entry = e, !.file = b.file]]
              /\ Goto(p, "reencrypt")
              /\ UNCHANGED faults
           \/ /\ b # None /\ ~b.big
              /\ job' = [job EXCEPT ![p] = done]
              /\ UNCHANGED <<pc, faults>>
           \/ /\ b # None => b.big
              /\ IF able THEN Fault ELSE UNCHANGED faults
              /\ job' = [job EXCEPT ![p] = done]
              /\ UNCHANGED pc
  /\ UNCHANGED <<given, disk>>

\* Encrypt the plaintext beside it, in small chunks.  Another recrypt may have removed the
\* plaintext.
Reencrypt(p) ==
  /\ pc[p] = "reencrypt"
  /\ LET j == job[p]
         new == [file |-> j.file, name |-> j.entry.name, pw |-> j.pw, big |-> FALSE,
                 whole |-> TRUE]
     IN  \/ /\ boxes' = [boxes EXCEPT ![Tmp(j.entry.name)] = new]
            /\ Goto(p, "remove")
            /\ UNCHANGED <<job, faults>>
         \/ /\ IF j.shared THEN UNCHANGED faults ELSE Fault
            /\ boxes' \in {boxes, [boxes EXCEPT ![Tmp(j.entry.name)] =
                [new EXCEPT !.whole = FALSE, !.name = Tmp(j.entry.name)]]}
            /\ job' = [job EXCEPT ![p].file = None, ![p].entry = None]
            /\ Goto(p, "recrypt")
  /\ UNCHANGED <<given, meta, salts, index, used, sources, exposed>>

\* The old container is removed; a failure is not looked at ...
RemoveOld(p) ==
  /\ Move(p, "remove", "rename")
  /\ \/ /\ boxes' = [boxes EXCEPT ![job[p].entry.place] = None]
        /\ exposed' = exposed \cup {job[p].file}
        /\ UNCHANGED faults
     \/ Fault /\ UNCHANGED <<boxes, exposed>>
  /\ UNCHANGED <<given, meta, salts, index, used, sources, job>>

\* ... and the new one renamed to its name.
RenameNew(p) ==
  /\ Move(p, "rename", "recrypt")
  /\ LET new == Tmp(job[p].entry.name) IN
       \/ /\ boxes[new] # None
          /\ boxes' = [boxes EXCEPT ![job[p].entry.place] = boxes[new], ![new] = None]
          /\ exposed' = IF boxes[new].whole THEN exposed \ {job[p].file}
                                           ELSE exposed \cup {job[p].file}
          /\ UNCHANGED faults
       \/ /\ IF boxes[new] = None THEN UNCHANGED faults ELSE Fault
          /\ UNCHANGED <<boxes, exposed>>
  /\ job' = [job EXCEPT ![p].file = None, ![p].entry = None]
  /\ UNCHANGED <<given, meta, salts, index, used, sources>>

\* Whatever happened, the directory with the new containers goes; then the index is built
\* anew.
Clean(p) ==
  /\ Move(p, "recrypt", "scan") /\ job[p].todo = {}
  /\ boxes' = [pl \in Places |-> IF pl \in Stores THEN boxes[pl] ELSE None]
  /\ UNCHANGED <<given, meta, salts, index, used, sources, exposed, job, faults>>

-----------------------------------------------------------------------------
\* Mutant: a container that does not open with the password is left out.
ScanOpening(p) ==
  /\ Move(p, "scan", "write")
  /\ job' = [job EXCEPT ![p].entries =
       {[name |-> boxes[pl].name, place |-> pl] :
          pl \in {x \in Places : boxes[x] # None /\ boxes[x].pw = job[p].pw}}]
  /\ UNCHANGED <<given, disk, faults>>

\* vault_reindex: every file with a container's header is listed, those of an unfinished
\* recrypt included, under its original name if the password opens it.
Scan(p) ==
  /\ Move(p, "scan", "write")
  /\ job' = [job EXCEPT ![p].entries =
       {[name |-> IF boxes[pl].pw = job[p].pw THEN boxes[pl].name ELSE pl, place |-> pl] :
          pl \in {x \in Places : boxes[x] # None}}]
  /\ UNCHANGED <<given, disk, faults>>

WriteIndex(p) ==
  /\ pc[p] = "write"
  /\ \E w \in Written([pw |-> job[p].pw, salt |-> job[p].meta, entries |-> job[p].entries],
                      index) :
       /\ Count(w)
       /\ index' = w.is
       /\ IF w.ok THEN Goto(p, "done") /\ UNCHANGED job ELSE Finish(p)
  /\ UNCHANGED <<given, meta, salts, boxes, used, sources, exposed>>

\* --vault-mount: vault.meta is written with the salt it was read with.
SaveMeta(p) ==
  /\ pc[p] = "save"
  /\ \E w \in Written(job[p].meta, meta) :
       Count(w) /\ meta' = w.is
  /\ Finish(p)
  /\ UNCHANGED <<given, salts, index, boxes, used, sources, exposed>>

\* The command reports success.
Done(p) ==
  /\ pc[p] = "done"
  /\ Finish(p)
  /\ UNCHANGED <<given, disk, faults>>

Kill(p) ==
  /\ pc[p] # "idle"
  /\ Fault
  /\ Finish(p)
  /\ UNCHANGED <<given, disk>>

Run(p) ==
  \/ LoadMeta(p) \/ InitMeta(p)
  \/ AddFile(p) \/ Encrypt(p) \/ Append(p) \/ Dispose(p)
  \/ ReadIndex(p) \/ Rewrap(p) \/ EndRewrap(p) \/ SaveNewMeta(p) \/ SealIndex(p)
  \/ Recrypt(p) \/ Reencrypt(p) \/ RemoveOld(p) \/ RenameNew(p) \/ Clean(p)
  \/ Scan(p) \/ WriteIndex(p) \/ SaveMeta(p) \/ Done(p)

Next == \E p \in Procs : Begin(p) \/ Run(p) \/ Kill(p)

Spec == Init /\ [][Next]_vars

-----------------------------------------------------------------------------
(***************************************************************************)
(* Properties.                                                             *)
(***************************************************************************)
\* The content of f exists: the source, or a finished container with it.
Kept(f) ==
  f \in sources \/ \E pl \in Places : boxes[pl] # None /\ boxes[pl].whole /\ boxes[pl].file = f

\* However commands overlap, fail and are killed, a file exists somewhere, unless a recrypt
\* has removed its container without putting the new one in its place.
NothingLost == \A f \in Files : Kept(f) \/ f \in exposed

\* "The old container is replaced atomically" (main.cpp line 2539): no file is ever lost.
ReplacedAtomically == \A f \in Files : Kept(f)

\* --into-vault gives a source up only for a finished container under the password typed,
\* which the index, unless it was torn or other commands were running, lists and can be
\* opened to find.
SourceOnlyTraded ==
  [][\A p \in Procs, f \in Files :
       pc[p] = "dispose" /\ pc'[p] = "add" /\ f \in sources /\ f \notin sources' =>
         LET j == job[p] IN
         \/ f \in exposed
         \/ \E pl \in Places :
              /\ boxes[pl] # None /\ boxes[pl].whole /\ boxes[pl].file = f
              /\ ~j.shared => boxes[pl].pw = j.pw
              /\ ~j.shared /\ Torn \notin {index, meta} =>
                   /\ index # None /\ index.pw = j.pw /\ index.salt = meta
                   /\ [name |-> f, place |-> pl] \in index.entries]_vars

\* A rekey that nothing else ran beside, and whose writes arrived, leaves the index and
\* every container it lists under the new password, however many rekeys were given up or
\* killed before.
RekeyedTogether ==
  [][\A p \in Procs :
       pc[p] = "seal" /\ pc'[p] = "done" /\ ~job[p].shared /\ ~job[p].dropped
         /\ Torn \notin {index', meta'} =>
         /\ index'.pw = job[p].new /\ index'.salt = meta'
         /\ \A e \in index'.entries :
              boxes[e.place] # None /\ boxes[e.place].pw = job[p].new]_vars

\* A reindex is the way back from whatever happened to the index: if its write arrived and
\* nothing else ran, the index opens with the password typed and lists every container
\* there is, under its name those the password opens.
ReindexRestores ==
  [][\A p \in Procs :
       pc[p] = "write" /\ pc'[p] = "done" /\ ~job[p].shared /\ index' # Torn =>
         /\ index'.pw = job[p].pw /\ index'.salt = meta
         /\ {e.place : e \in index'.entries} = {pl \in Places : boxes[pl] # None}
         /\ \A e \in index'.entries :
              boxes[e.place].whole /\ boxes[e.place].pw = job[p].pw =>
                e.name = boxes[e.place].name]_vars

(***************************************************************************)
(* Why NothingLost holds: whose container is under a random name, and what *)
(* the commands under way know of it.                                      *)
(***************************************************************************)
Rewrapping == {"rewrap", "reseal", "seal"}
Recrypting == {"recrypt", "reencrypt", "remove", "rename"}
InHand == {"encrypt", "append", "dispose", "reencrypt", "remove", "rename"}

\* Entries are of names that have been drawn; a large container is listed under its random
\* name or that of its file.
Known(entries) ==
  \A e \in entries : e.place \in Stores =>
    /\ e.place \in used
    /\ boxes[e.place] # None /\ boxes[e.place].big => e.name \in {e.place, boxes[e.place].file}

\* Whatever is left under the random name s, and being done to it, is of file f.
Of(s, f) ==
  /\ boxes[s] # None => boxes[s].file = f /\ (boxes[s].big => boxes[s].name \in {s, f})
  /\ boxes[Tmp(s)] # None => boxes[Tmp(s)].file = f
  /\ \A p \in Procs : job[p].entry # None /\ job[p].entry.place = s =>
       job[p].file = f /\ job[p].entry.name \in {s, f}

\* What a command has at each place.
Holding(p) ==
  LET j == job[p] IN
  /\ pc[p] \notin {"idle", "meta"} => j.meta \in Salts
  /\ pc[p] \in {"idle", "meta", "add", "encrypt", "append", "dispose"} => j.todo \subseteq Files
  /\ pc[p] \in Rewrapping \cup Recrypting => j.todo \subseteq Entry /\ Known(j.todo)
  /\ pc[p] \in Rewrapping \cup Recrypting \cup {"write"} =>
       j.entries \subseteq Entry /\ Known(j.entries)
  /\ j.entries # None => Known(j.entries)
  /\ j.entry # None <=> pc[p] \in InHand
  /\ j.entry # None => j.entry.place \in used /\ j.file \in Files
  /\ pc[p] = "encrypt" =>
       /\ boxes[j.entry.place] # None /\ ~boxes[j.entry.place].whole
       /\ \A q \in Procs \ {p} : job[q].entry # None => job[q].entry.place # j.entry.place

Traces ==
  /\ \A s \in used : \E f \in Files : Of(s, f)
  /\ \A s \in Stores \ used : boxes[s] = None /\ boxes[Tmp(s)] = None
  /\ \A f \in Files : boxes[Tmp(f)] # None => boxes[Tmp(f)].file = f
  /\ \A pl \in Places \ Stores : boxes[pl] # None => ~boxes[pl].big
  /\ index \notin {None, Torn} => Known(index.entries)
  /\ \A p \in Procs : Holding(p)

\* There is a finished container of f under a random name, or a recrypt is to blame.
Stored(f) == \E s \in Stores : boxes[s] # None /\ boxes[s].whole /\ boxes[s].file = f
Safe(f) == Stored(f) \/ f \in exposed

Keeping ==
  /\ \A f \in Files : f \in sources \/ Safe(f)
  /\ \A p \in Procs : pc[p] \in {"append", "dispose"} => Safe(job[p].file)

(***************************************************************************)
(* Why the action properties hold: what a command knows that nothing else  *)
(* ran beside.                                                             *)
(***************************************************************************)
Rekeyed(p, e) == boxes[e.place] # None /\ boxes[e.place].pw = job[p].new

\* The container a file was put into, and the index that lists it.
Contained(p) ==
  LET j == job[p]
      b == boxes[j.entry.place] IN
  /\ j.entry = [name |-> j.file, place |-> j.entry.place]
  /\ b # None /\ b.file = j.file /\ b.pw = j.pw
  /\ pc[p] # "encrypt" => b.whole
Indexed(p) ==
  LET j == job[p] IN
  index # Torn => /\ index # None /\ index.pw = j.pw /\ index.salt = j.meta
                  /\ j.entry \in index.entries

\* What Scan has found is still so.
Found(p) ==
  job[p].entries =
    {[name |-> IF boxes[pl].pw = job[p].pw THEN boxes[pl].name ELSE pl, place |-> pl] :
       pl \in {x \in Places : boxes[x] # None}}

\* What a command that nothing else runs beside knows of the disk.
Knows(p) ==
  LET j == job[p] IN
  /\ pc[p] # "meta" => meta \in {j.meta, Torn}
  /\ pc[p] \in {"index", "scan", "write"} \cup Recrypting => meta = j.meta
  /\ pc[p] \in {"encrypt", "append", "dispose"} => Contained(p)
  /\ pc[p] = "dispose" => Indexed(p)
  /\ pc[p] = "rewrap" /\ ~j.dropped /\ ~j.failed => \A e \in j.entries \ j.todo : Rekeyed(p, e)
  /\ pc[p] \in {"reseal", "seal"} /\ ~j.dropped => \A e \in j.entries : Rekeyed(p, e)
  /\ pc[p] = "write" => Found(p)

ByItself(p) ==
  pc[p] # "idle" /\ ~job[p].shared =>
    (\A q \in Procs \ {p} : pc[q] = "idle") /\ Knows(p)

Undisturbed == \A p \in Procs : ByItself(p)
=============================================================================
