----------------------------- MODULE OutputLock -----------------------------
(***************************************************************************)
(* The cross-process output lock of the encryption engine, one system call *)
(* per step: acquire_output_lock and OutputLockGuard of                    *)
(* src/CLI/core/FileEncryptor.cpp, POSIX branch.                           *)
(*                                                                         *)
(* The lock is the file "<output>.lock".  Creating it with O_EXCL takes    *)
(* the lock, its content is the pid of the owner, and unlinking it gives   *)
(* the lock up.  Content belongs to the inode and the name to the          *)
(* directory: a process that opened the file keeps reading its inode after *)
(* another one has unlinked the name and created the file anew.            *)
(***************************************************************************)
EXTENDS FiniteSets, Naturals

CONSTANTS
  Procs,        \* the processes (their pids) that write the same output
  Inodes,       \* the inodes lock files are made of, reused once nobody refers to them
  NoInode,      \* no inode: a free name, or a closed descriptor
  NoPid,        \* the content of a lock file whose pid is not (or was never) written
  MaxCrashes    \* how many processes may be killed

ASSUME LockConstants ==
  /\ NoInode \notin Inodes
  /\ NoPid \notin Procs
  /\ MaxCrashes \in Nat

VARIABLES
  entry,    \* the inode the lock's name refers to, or NoInode
  content,  \* what each inode holds: a pid or NoPid
  pc,       \* where each process is
  fd,       \* the descriptor each process has open on a lock file
  got,      \* the pid each process read
  dead,     \* the processes that have exited or were killed
  killed    \* those of them that were killed

vars == <<entry, content, pc, fd, got, dead, killed>>

\* A process in one of these places goes on to work as the owner of the output.
Owning == {"write", "held"}

Places == {"start", "openread", "read", "probe", "unlink", "retry1", "retry2",
           "locked", "cannot_create", "released"} \cup Owning

TypeOK ==
  /\ entry \in Inodes \cup {NoInode}
  /\ content \in [Inodes -> Procs \cup {NoPid}]
  /\ pc \in [Procs -> Places]
  /\ fd \in [Procs -> Inodes \cup {NoInode}]
  /\ got \in [Procs -> Procs \cup {NoPid}]
  /\ dead \subseteq Procs
  /\ killed \subseteq dead

Init ==
  /\ entry = NoInode
  /\ content = [i \in Inodes |-> NoPid]
  /\ pc = [p \in Procs |-> "start"]
  /\ fd = [p \in Procs |-> NoInode]
  /\ got = [p \in Procs |-> NoPid]
  /\ dead = {}
  /\ killed = {}

Alive(p) == p \notin dead
At(p, place) == Alive(p) /\ pc[p] = place
Goto(p, place) == pc' = [pc EXCEPT ![p] = place]

\* The inodes the kernel may hand out, neither named nor open anywhere, and the one it
\* does: which makes no difference.
FreeInodes == {i \in Inodes : i # entry /\ \A q \in Procs : fd[q] # i}
NewInode == CHOOSE i \in FreeInodes : TRUE

(***************************************************************************)
(* open(lock_path, O_WRONLY|O_CREAT|O_EXCL): a new, still empty file when  *)
(* the name is free.                                                       *)
(***************************************************************************)
CreateExclusive(p) ==
  /\ entry = NoInode
  /\ FreeInodes # {}
  /\ entry' = NewInode
  /\ content' = [content EXCEPT ![NewInode] = NoPid]
  /\ fd' = [fd EXCEPT ![p] = NewInode]
  /\ Goto(p, "write")
  /\ UNCHANGED <<got, dead, killed>>

CreateFails(p, next) ==
  /\ entry # NoInode
  /\ Goto(p, next)
  /\ UNCHANGED <<entry, content, fd, got, dead, killed>>

\* The first attempt.
Create(p) ==
  /\ At(p, "start")
  /\ CreateExclusive(p) \/ CreateFails(p, "openread")

\* Mutant: the second attempt is repeated for as long as the file exists.
RecreateForever(p) ==
  \/ /\ At(p, "retry1")
     /\ CreateExclusive(p) \/ CreateFails(p, "retry2")
  \/ /\ At(p, "retry2")
     /\ CreateExclusive(p) \/ CreateFails(p, "retry1")

\* The two attempts after a stale lock was unlinked: a second failure is LOCKED.
Recreate(p) ==
  \/ /\ At(p, "retry1")
     /\ CreateExclusive(p) \/ CreateFails(p, "retry2")
  \/ /\ At(p, "retry2")
     /\ CreateExclusive(p) \/ CreateFails(p, "locked")

\* write(fd, &pid): a failing write is ignored and leaves the file empty.
WritePid(p) ==
  /\ At(p, "write")
  /\ \E pid \in {p, NoPid} : content' = [content EXCEPT ![fd[p]] = pid]
  /\ fd' = [fd EXCEPT ![p] = NoInode]
  /\ Goto(p, "held")
  /\ UNCHANGED <<entry, got, dead, killed>>

\* open(lock_path, O_RDONLY): CANNOT_CREATE when the name is gone by now.
OpenToRead(p) ==
  /\ At(p, "openread")
  /\ IF entry = NoInode
       THEN Goto(p, "cannot_create") /\ UNCHANGED fd
       ELSE Goto(p, "read") /\ fd' = [fd EXCEPT ![p] = entry]
  /\ UNCHANGED <<entry, content, got, dead, killed>>

\* Mutant: a lock file without a pid is taken for a stale lock.
ReadPidEmptyIsStale(p) ==
  /\ At(p, "read")
  /\ got' = [got EXCEPT ![p] = content[fd[p]]]
  /\ Goto(p, IF content[fd[p]] = NoPid THEN "unlink" ELSE "probe")
  /\ fd' = IF content[fd[p]] = NoPid THEN [fd EXCEPT ![p] = NoInode] ELSE fd
  /\ UNCHANGED <<entry, content, dead, killed>>

\* read(fd, &pid): a short read (an empty file) is LOCKED.
ReadPid(p) ==
  /\ At(p, "read")
  /\ got' = [got EXCEPT ![p] = content[fd[p]]]
  /\ Goto(p, IF content[fd[p]] = NoPid THEN "locked" ELSE "probe")
  /\ fd' = IF content[fd[p]] = NoPid THEN [fd EXCEPT ![p] = NoInode] ELSE fd
  /\ UNCHANGED <<entry, content, dead, killed>>

\* kill(pid, 0): a live process holds the lock, the lock of a dead one is stale.
Probe(p) ==
  /\ At(p, "probe")
  /\ Goto(p, IF got[p] \in dead THEN "unlink" ELSE "locked")
  /\ fd' = [fd EXCEPT ![p] = NoInode]
  /\ UNCHANGED <<entry, content, got, dead, killed>>

\* unlink(lock_path): whatever the name refers to by now.
UnlinkStale(p) ==
  /\ At(p, "unlink")
  /\ entry' = NoInode
  /\ Goto(p, "retry1")
  /\ UNCHANGED <<content, fd, got, dead, killed>>

\* Mutant: the guard does not own the lock and leaves the file.
ReleaseNotOwned(p) ==
  /\ At(p, "held")
  /\ Goto(p, "released")
  /\ UNCHANGED <<entry, content, fd, got, dead, killed>>

\* ~OutputLockGuard: removes the name, again whatever it refers to.
Release(p) ==
  /\ At(p, "held")
  /\ entry' = NoInode
  /\ Goto(p, "released")
  /\ UNCHANGED <<content, fd, got, dead, killed>>

\* The call has returned and its process turns to the same output once more.
Again(p) ==
  /\ pc[p] \in {"locked", "cannot_create", "released"}
  /\ Alive(p)
  /\ Goto(p, "start")
  /\ got' = [got EXCEPT ![p] = NoPid]
  /\ UNCHANGED <<entry, content, fd, dead, killed>>

\* The process ends after its call has returned.
Exit(p) ==
  /\ pc[p] \in {"locked", "cannot_create", "released"}
  /\ Alive(p)
  /\ dead' = dead \cup {p}
  /\ UNCHANGED <<entry, content, pc, fd, got, killed>>

\* Mutant: a killed process still answers kill(pid, 0), like an unreaped zombie.
KillLeavesZombie(p) ==
  /\ Alive(p)
  /\ Cardinality(killed) < MaxCrashes
  /\ killed' = killed \cup {p}
  /\ fd' = [fd EXCEPT ![p] = NoInode]
  /\ UNCHANGED <<entry, content, pc, got, dead>>

\* The process is killed anywhere: its descriptors are closed, its files stay.
Kill(p) ==
  /\ Alive(p)
  /\ Cardinality(killed) < MaxCrashes
  /\ dead' = dead \cup {p}
  /\ killed' = killed \cup {p}
  /\ fd' = [fd EXCEPT ![p] = NoInode]
  /\ UNCHANGED <<entry, content, pc, got>>

\* The steps of acquire_output_lock.
Acquire(p) ==
  \/ Create(p) \/ WritePid(p) \/ OpenToRead(p) \/ ReadPid(p) \/ Probe(p)
  \/ UnlinkStale(p) \/ Recreate(p)

Next == \E p \in Procs : Acquire(p) \/ Release(p) \/ Again(p) \/ Exit(p) \/ Kill(p)

Spec == Init /\ [][Next]_vars

\* A call of acquire_output_lock goes on to its end unless its process dies.
FairSpec == Spec /\ \A p \in Procs : WF_vars(Acquire(p))

-----------------------------------------------------------------------------
(***************************************************************************)
(* Properties.                                                             *)
(***************************************************************************)
Owner(p) == Alive(p) /\ pc[p] \in Owning

\* At most one live process owns the output (what the comment at line 2356 promises).
MutualExclusion ==
  \A p, q \in Procs : Owner(p) /\ Owner(q) => p = q

\* A live process about to read or write a lock file has it open.
Descriptors ==
  \A p \in Procs : Alive(p) /\ pc[p] \in {"write", "read"} => fd[p] \in Inodes

\* While none of the processes contending for the output has ended, the O_EXCL
\* creation alone keeps the owners apart, over any number of acquisitions: this is
\* the case of the worker threads of one batch.
ExclusiveWhileAllLive == dead = {} => MutualExclusion

\* The lock file is there only for an owner or because one was killed: neither the
\* reclaiming of stale locks nor the unconditional unlink of the guard ever leaves
\* a lock behind that blocks later runs.
NoOrphanLock ==
  entry # NoInode => killed # {} \/ \E p \in Procs : Owner(p)

\* No call blocks: whatever the others do or leave behind, it returns a result.
CallReturns ==
  \A p \in Procs :
    pc[p] = "start" ~> pc[p] \in {"held", "locked", "cannot_create"} \/ ~Alive(p)
=============================================================================
