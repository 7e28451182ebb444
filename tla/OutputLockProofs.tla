--------------------------- MODULE OutputLockProofs ---------------------------
(***************************************************************************)
(* What holds of the output lock for any processes, any number of          *)
(* acquisitions and any number of kills.                                   *)
(***************************************************************************)
EXTENDS OutputLock, TLAPS

\* TypeOK alone is not inductive: what ReadPid stores is a pid only because its
\* descriptor is open.
TypeInv == TypeOK /\ Descriptors

LEMMA TypeInvInit == Init => TypeInv
  BY LockConstants DEF Init, TypeInv, TypeOK, Descriptors, Places, Owning, Alive

\* A new inode is an inode, and so not "no inode".
LEMMA NewInodeType == FreeInodes # {} => NewInode \in Inodes /\ NewInode # NoInode
  BY LockConstants DEF FreeInodes, NewInode

LEMMA TypeInvStep == TypeInv /\ [Next]_vars => TypeInv'
<1> SUFFICES ASSUME TypeInv, [Next]_vars PROVE TypeInv'
  OBVIOUS
<1> USE DEF TypeInv, TypeOK, Descriptors, Places, Owning, At, Alive, Goto
<1>1. ASSUME NEW p \in Procs, CreateExclusive(p), Alive(p) PROVE TypeInv'
  BY <1>1, NewInodeType DEF CreateExclusive
<1>2. ASSUME NEW p \in Procs, NEW next \in {"openread", "retry2", "locked"},
             CreateFails(p, next)
      PROVE  TypeInv'
  BY <1>2 DEF CreateFails
<1>3. ASSUME NEW p \in Procs, Create(p) \/ Recreate(p) PROVE TypeInv'
  BY <1>1, <1>2, <1>3 DEF Create, Recreate
<1>4. ASSUME NEW p \in Procs, WritePid(p) PROVE TypeInv'
  <2>1. PICK pid \in {p, NoPid} : content' = [content EXCEPT ![fd[p]] = pid]
    BY <1>4 DEF WritePid
  <2> QED
    BY <1>4, <2>1 DEF WritePid
<1>5. ASSUME NEW p \in Procs, OpenToRead(p) PROVE TypeInv'
  BY <1>5 DEF OpenToRead
<1>6. ASSUME NEW p \in Procs, ReadPid(p) PROVE TypeInv'
  <2>1. fd[p] \in Inodes /\ content[fd[p]] \in Procs \cup {NoPid}
    BY <1>6 DEF ReadPid
  <2> QED
    BY <1>6, <2>1 DEF ReadPid
<1>7. ASSUME NEW p \in Procs, Probe(p) PROVE TypeInv'
  BY <1>7 DEF Probe
<1>8. ASSUME NEW p \in Procs, UnlinkStale(p) \/ Release(p) PROVE TypeInv'
  BY <1>8 DEF UnlinkStale, Release
<1>9. ASSUME NEW p \in Procs, Again(p) \/ Exit(p) \/ Kill(p) PROVE TypeInv'
  BY <1>9 DEF Again, Exit, Kill
<1>10. CASE UNCHANGED vars
  BY <1>10 DEF vars
<1> QED
  BY <1>3, <1>4, <1>5, <1>6, <1>7, <1>8, <1>9, <1>10 DEF Next, Acquire

\* Every variable of the lock keeps its type, whatever acquire_output_lock meets.
THEOREM LockTypes == Spec => []TypeOK
<1>1. TypeInv => TypeOK
  BY DEF TypeInv
<1> QED
  BY TypeInvInit, TypeInvStep, <1>1, PTL DEF Spec

-----------------------------------------------------------------------------
(***************************************************************************)
(* Exclusion.  An owner keeps the name taken and nobody can create the     *)
(* file while it is taken; only UnlinkStale frees the name of an owner,    *)
(* and only a process that found a dead pid gets there.                    *)
(***************************************************************************)
Reclaiming == {"unlink", "retry1", "retry2"}

OwnerInv ==
  dead = {} => /\ MutualExclusion
               /\ \A p \in Procs : pc[p] \in Owning => entry # NoInode
               /\ \A p \in Procs : pc[p] \notin Reclaiming

LEMMA OwnerInvStep ==
  ASSUME TypeInv, OwnerInv, [Next]_vars
  PROVE  OwnerInv'
<1>1. SUFFICES ASSUME dead' = {}
      PROVE  /\ MutualExclusion'
             /\ \A p \in Procs : pc'[p] \in Owning => entry' # NoInode
             /\ \A p \in Procs : pc'[p] \notin Reclaiming
  BY DEF OwnerInv
<1> USE DEF TypeInv, TypeOK, MutualExclusion, Owner, Owning, Reclaiming, At, Alive, Goto
<1>2. dead = {}
  BY <1>1 DEF Next, Acquire, Create, Recreate, CreateExclusive, CreateFails, WritePid,
     OpenToRead, ReadPid, Probe, UnlinkStale, Release, Again, Exit, Kill, vars
<1>3. OwnerInv!2
  BY <1>2 DEF OwnerInv
<1>4. ASSUME NEW p \in Procs, Create(p) \/ Recreate(p) PROVE OwnerInv'
  BY <1>1, <1>2, <1>3, <1>4, NewInodeType
     DEF Create, Recreate, CreateExclusive, CreateFails, OwnerInv
<1>5. ASSUME NEW p \in Procs, WritePid(p) \/ OpenToRead(p) \/ ReadPid(p) PROVE OwnerInv'
  BY <1>1, <1>2, <1>3, <1>5 DEF WritePid, OpenToRead, ReadPid, OwnerInv
<1>6. ASSUME NEW p \in Procs, Probe(p) PROVE OwnerInv'
  BY <1>1, <1>2, <1>3, <1>6 DEF Probe, OwnerInv
<1>7. ASSUME NEW p \in Procs, UnlinkStale(p) PROVE OwnerInv'
  BY <1>3, <1>7 DEF UnlinkStale
<1>8. ASSUME NEW p \in Procs, Release(p) PROVE OwnerInv'
  BY <1>1, <1>2, <1>3, <1>8 DEF Release, OwnerInv
<1>9. ASSUME NEW p \in Procs, Again(p) \/ Exit(p) \/ Kill(p) PROVE OwnerInv'
  BY <1>1, <1>2, <1>3, <1>9 DEF Again, Exit, Kill, OwnerInv
<1>10. CASE UNCHANGED vars
  BY <1>1, <1>2, <1>3, <1>10 DEF vars, OwnerInv
<1> QED
  BY <1>1, <1>4, <1>5, <1>6, <1>7, <1>8, <1>9, <1>10 DEF Next, Acquire, OwnerInv

\* Two processes never both own an output as long as no contender has ended: for any
\* number of processes, acquisitions and failing pid writes.
THEOREM OwnersExcludeEachOther == Spec => []ExclusiveWhileAllLive
<1>1. Init => OwnerInv
  BY DEF Init, OwnerInv, MutualExclusion, Owner, Owning, Reclaiming
<1>2. OwnerInv => ExclusiveWhileAllLive
  BY DEF OwnerInv, ExclusiveWhileAllLive
<1> QED
  BY TypeInvInit, TypeInvStep, OwnerInvStep, <1>1, <1>2, PTL DEF Spec

-----------------------------------------------------------------------------
LEMMA NoOrphanStep ==
  ASSUME TypeInv, NoOrphanLock, [Next]_vars
  PROVE  NoOrphanLock'
<1> USE DEF TypeInv, TypeOK, NoOrphanLock, Owner, Owning, At, Alive, Goto
<1>1. ASSUME NEW p \in Procs, Create(p) \/ Recreate(p) PROVE NoOrphanLock'
  BY <1>1 DEF Create, Recreate, CreateExclusive, CreateFails
<1>2. ASSUME NEW p \in Procs, WritePid(p) \/ OpenToRead(p) \/ ReadPid(p) \/ Probe(p)
      PROVE  NoOrphanLock'
  BY <1>2 DEF WritePid, OpenToRead, ReadPid, Probe
<1>3. ASSUME NEW p \in Procs, UnlinkStale(p) \/ Release(p) PROVE NoOrphanLock'
  BY <1>3 DEF UnlinkStale, Release
<1>4. ASSUME NEW p \in Procs, Again(p) \/ Exit(p) \/ Kill(p) PROVE NoOrphanLock'
  BY <1>4 DEF Again, Exit, Kill
<1>5. CASE UNCHANGED vars
  BY <1>5 DEF vars
<1> QED
  BY <1>1, <1>2, <1>3, <1>4, <1>5 DEF Next, Acquire

\* A lock file without a live owner is the trace of a kill, never of a race between
\* the reclaiming of stale locks and the guard's unconditional unlink.
THEOREM LockFilesHaveOwners == Spec => []NoOrphanLock
<1>1. Init => NoOrphanLock
  BY DEF Init, NoOrphanLock
<1> QED
  BY TypeInvInit, TypeInvStep, NoOrphanStep, <1>1, PTL DEF Spec
=============================================================================
