-------------------------- MODULE EncryptJobProofs --------------------------
(***************************************************************************)
(* What holds of an encryption job for any source, options, keys, number   *)
(* of chunks, kills and failures.                                          *)
(***************************************************************************)
EXTENDS EncryptJob, SequenceTheorems, TLAPS

(***************************************************************************)
(* The operators the containers are built from.                            *)
(***************************************************************************)
LEMMA EmptyIsFile == EmptyFile \in File
  BY DEF EmptyFile, File

LEMMA ChunkType ==
  ASSUME NEW d \in Keys, NEW m \in Modes, NEW c \in BOOLEAN, NEW i \in Nat, NEW v \in Versions
  PROVE  Chunk(d, m, c, i, v) \in Seq(Bytes)
<1>1. Width(c) \in Nat
  BY JobConstants DEF Width
<1>2. \A k \in 1..Width(c) :
        [dek |-> d, mode |-> m, comp |-> c, chunk |-> i, part |-> k, ver |-> v] \in Bytes
  BY <1>1 DEF Cell, Bytes
<1> QED
  BY <1>1, <1>2 DEF Chunk

LEMMA TruncatedType ==
  ASSUME NEW body \in Seq(Bytes), NEW n \in Nat
  PROVE  Truncated(body, n) \in Seq(Bytes)
<1>1. \A k \in 1..n : (IF k <= Len(body) THEN body[k] ELSE Zero) \in Bytes
  BY DEF Bytes
<1> QED
  BY <1>1 DEF Truncated

LEMMA FlushedType ==
  ASSUME NEW f \in File, NEW g \in File
  PROVE  Flushed(f, g) \in File
  BY DEF File, Flushed

LEMMA PartlyFlushedType ==
  ASSUME NEW p \in Procs, TypeOK, PartlyFlushed(p)
  PROVE  file' \in [Inodes -> File]
<1> DEFINE j == job[p]
<1>1. CASE UNCHANGED file
  BY <1>1 DEF TypeOK
<1>2. ASSUME NEW n \in 0..Len(j.pending.body),
             file' = [file EXCEPT ![j.fd] =
                        Flushed(@, [j.pending EXCEPT !.body = SubSeq(@, 1, n)])]
      PROVE  file' \in [Inodes -> File]
  <2>1. j.pending \in File /\ j.pending.body \in Seq(Bytes)
    BY DEF TypeOK, Job, File
  <2>2. SubSeq(j.pending.body, 1, n) \in Seq(Bytes)
    BY <1>2, <2>1, SubSeqProperties
  <2>3. [j.pending EXCEPT !.body = SubSeq(@, 1, n)] \in File
    BY <2>1, <2>2 DEF File
  <2>4. \A i \in Inodes :
          Flushed(file[i], [j.pending EXCEPT !.body = SubSeq(@, 1, n)]) \in File
    BY <2>3, FlushedType DEF TypeOK
  <2> QED
    BY <1>2, <2>4 DEF TypeOK
<1> QED
  BY <1>1, <1>2 DEF PartlyFlushed

LEMMA IdleJobType == IdleJob \in Job
<1>1. (CHOOSE w \in Passwords : TRUE) \in Passwords
  BY JobConstants
<1>2. (CHOOSE m \in Modes : TRUE) \in Modes
  BY JobConstants
<1>3. 0 \in Versions /\ 0 \in 0..NChunks /\ 1 \in 1..(NChunks + 1)
  BY JobConstants DEF Versions
<1> QED
  BY <1>1, <1>2, <1>3, EmptyIsFile DEF IdleJob, Job

-----------------------------------------------------------------------------
(***************************************************************************)
(* Types, for jobs that do not overlap: one process runs all of them.  The *)
(* type of the file a job writes rests on what the job knows at its place. *)
(***************************************************************************)
LEMMA TypeStep ==
  ASSUME NEW p \in Procs, Procs = {p}, TypeOK, JobInv, [Next]_vars
  PROVE  TypeOK'
<1> DEFINE j == job[p]
<1>0. JobKnows(p) /\ j \in Job /\ pc[p] \in Places
  BY DEF JobInv, TypeOK
<1> USE DEF Goto, Move, Fault, Disk
<1>1. CASE Edit
  BY <1>1, JobConstants DEF Edit, TypeOK, Versions
<1>2. CASE Start(p)
  <2>1. PICK w \in Passwords, m \in Modes, c \in Compress, d \in BOOLEAN :
          job' = [job EXCEPT ![p] =
                    [IdleJob EXCEPT !.pw = w, !.mode = m, !.comp = c, !.dispose = d]]
    BY <1>2 DEF Start
  <2>2. [IdleJob EXCEPT !.pw = w, !.mode = m, !.comp = c, !.dispose = d] \in Job
    BY IdleJobType, JobConstants DEF Job
  <2> QED
    BY <1>2, <2>1, <2>2 DEF Start, TypeOK, Places
<1>3. CASE Open(p)
  <2>1. [j EXCEPT !.ver = src] \in Job
    BY <1>0 DEF Job, TypeOK
  <2> QED
    BY <1>3, <2>1, JobConstants DEF Open, TypeOK, Places
<1>4. CASE Look(p)
  <2>1. (IF tmp = None THEN NoHdr ELSE file[tmp].hdr) \in Header \cup {NoHdr}
    BY DEF TypeOK, File
  <2>2. [j EXCEPT !.found = (tmp # None), !.sawPrs = (prs # NoPrs),
                  !.hdr = IF tmp = None THEN NoHdr ELSE file[tmp].hdr] \in Job
    BY <1>0, <2>1 DEF Job
  <2> QED
    BY <1>4, <2>2 DEF Look, TypeOK, Places
<1>5. CASE Authenticate(p)
  <2>1. CASE Authentic(j)
    <3>1. prs.chunks \in 0..NChunks
      BY <2>1, JobConstants DEF Authentic, TypeOK, Progress
    <3>2. [j EXCEPT !.start = prs.chunks] \in Job
      BY <1>0, <3>1 DEF Job
    <3> QED
      BY <1>5, <2>1, <3>2 DEF Authenticate, TypeOK, Places
  <2>2. CASE ~Authentic(j)
    BY <1>5, <2>2 DEF Authenticate, TypeOK, Places
  <2> QED
    BY <2>1, <2>2
<1>6. CASE Lock(p)
  BY <1>6 DEF Lock, TypeOK, Places
<1>7. CASE Prepare(p)
  <2>1. CASE UNCHANGED <<tmp, file, job>> /\ pc' = [pc EXCEPT ![p] = "unlock_failed"]
    BY <1>7, <2>1, JobConstants DEF Prepare, TypeOK, Places
  <2>2. CASE /\ j.start > 0 /\ tmp # None
             /\ file' = [file EXCEPT ![tmp].body = Truncated(@, j.start * PlainCells)]
             /\ job' = [job EXCEPT ![p].fd = tmp, ![p].next = j.start + 1]
             /\ pc' = [pc EXCEPT ![p] = "chunk"]
             /\ UNCHANGED <<tmp, faults>>
    <3>1. tmp \in Inodes /\ file[tmp] \in File /\ j.start * PlainCells \in Nat
      BY <1>0, <2>2, JobConstants DEF TypeOK, Job
    <3>2. [file[tmp] EXCEPT !.body = Truncated(@, j.start * PlainCells)] \in File
      BY <3>1, TruncatedType DEF File
    <3>3. j.start + 1 \in 1..(NChunks + 1)
      BY <1>0, JobConstants DEF Job
    <3>4. [j EXCEPT !.fd = tmp, !.next = j.start + 1] \in Job
      BY <1>0, <3>1, <3>3 DEF Job
    <3> QED
      BY <1>7, <2>2, <3>1, <3>2, <3>4 DEF Prepare, TypeOK, Places
  <2>3. CASE /\ tmp' = IF tmp = None THEN CHOOSE i \in FreeInodes : TRUE ELSE tmp
             /\ tmp = None => FreeInodes # {}
             /\ file' = [file EXCEPT ![tmp'] = EmptyFile]
             /\ job' = [job EXCEPT ![p].fd = tmp', ![p].hdr = NoHdr]
             /\ pc' = [pc EXCEPT ![p] = "clearprs"]
             /\ UNCHANGED faults
    <3>1. tmp' \in Inodes
      <4>1. FreeInodes # {} => (CHOOSE i \in FreeInodes : TRUE) \in FreeInodes
        OBVIOUS
      <4> QED
        BY <2>3, <4>1 DEF TypeOK, FreeInodes
    <3>2. [j EXCEPT !.fd = tmp', !.hdr = NoHdr] \in Job
      BY <1>0, <3>1 DEF Job
    <3> QED
      BY <1>7, <2>3, <3>1, <3>2, EmptyIsFile DEF Prepare, TypeOK, Places
  <2> QED
    BY <1>7, <2>1, <2>2, <2>3 DEF Prepare
<1>8. CASE ClearProgress(p) \/ UnlinkProgress(p) \/ RemoveProgress(p)
           \/ RemoveOutputProgress(p)
  BY <1>8 DEF ClearProgress, UnlinkProgress, RemoveProgress, RemoveOutputProgress,
     TypeOK, Places
<1>9. CASE WriteHeader(p)
  <2>1. CASE Fault /\ Goto(p, "fail") /\ UNCHANGED job
    BY <1>9, <2>1, JobConstants DEF WriteHeader, TypeOK, Places
  <2>2. CASE Keys \ UsedKeys # {}
    <3> DEFINE d == CHOOSE k \in Keys \ UsedKeys : TRUE
    <3> DEFINE h == [pw |-> j.pw, mode |-> j.mode, comp |-> j.comp, dek |-> d, hash |-> 0]
    <3>1. d \in Keys
      BY <2>2
    <3>2. 0 \in Versions
      BY JobConstants DEF Versions
    <3>3. h \in Header
      BY <1>0, <3>1, <3>2 DEF Job, Header
    <3> HIDE DEF h
    <3>4. [j EXCEPT !.hdr = h, !.pending.hdr = h] \in Job
      BY <1>0, <3>3 DEF Job, File
    <3>5. CASE job' = [job EXCEPT ![p].hdr = h, ![p].pending.hdr = h]
               /\ Goto(p, "chunk") /\ UNCHANGED faults
      BY <1>9, <3>4, <3>5 DEF WriteHeader, TypeOK, Places
    <3> QED
      BY <1>9, <2>1, <3>5 DEF WriteHeader, h
  <2> QED
    BY <1>9, <2>1, <2>2 DEF WriteHeader
<1>10. CASE EncryptChunk(p)
  <2> DEFINE cells == Chunk(j.hdr.dek, j.mode, j.comp, j.next, j.ver)
  <2>1. pc[p] = "chunk" /\ j.next <= NChunks /\ j.hdr \in Header /\ j.pending \in File
    BY <1>0, <1>10 DEF EncryptChunk, JobKnows, Encrypting, Job
  <2>2. cells \in Seq(Bytes)
    BY <1>0, <2>1, ChunkType DEF Job, Header
  <2>3. j.next + 1 \in 1..(NChunks + 1)
    BY <1>0, <2>1, JobConstants DEF Job
  <2> HIDE DEF cells
  <2>4. CASE ((j.bad /\ UNCHANGED faults) \/ Fault)
             /\ Goto(p, "fail") /\ UNCHANGED <<file, job>>
    BY <1>10, <2>4, JobConstants DEF EncryptChunk, TypeOK, Places
  <2>5. CASE /\ file' = [file EXCEPT ![j.fd] = Flushed(@, j.pending)]
             /\ job' = [job EXCEPT ![p].pending = [EmptyFile EXCEPT !.body = cells],
                                   ![p].next = j.next + 1]
             /\ \E place \in {"chunk", "save"} : Goto(p, place)
             /\ UNCHANGED faults
    <3>1. [EmptyFile EXCEPT !.body = cells] \in File
      BY <2>2, EmptyIsFile DEF File
    <3>2. [j EXCEPT !.pending = [EmptyFile EXCEPT !.body = cells], !.next = j.next + 1] \in Job
      BY <1>0, <2>3, <3>1 DEF Job
    <3>3. \A i \in Inodes : Flushed(file[i], j.pending) \in File
      BY <2>1, FlushedType DEF TypeOK
    <3> QED
      BY <1>10, <2>5, <3>2, <3>3 DEF EncryptChunk, TypeOK, Places
  <2>6. CASE /\ job' = [job EXCEPT ![p].pending.body = @ \o cells, ![p].next = j.next + 1]
             /\ \E place \in {"chunk", "save"} : Goto(p, place)
             /\ UNCHANGED <<file, faults>>
    <3>1. j.pending.body \o cells \in Seq(Bytes)
      BY <2>1, <2>2 DEF File
    <3>2. [j EXCEPT !.pending.body = @ \o cells, !.next = j.next + 1] \in Job
      BY <1>0, <2>1, <2>3, <3>1 DEF Job, File
    <3> QED
      BY <1>10, <2>6, <3>2 DEF EncryptChunk, TypeOK, Places
  <2> QED
    BY <1>10, <2>4, <2>5, <2>6 DEF EncryptChunk, cells
<1>11. CASE FlushForProgress(p)
  <2>1. [j EXCEPT !.pending = EmptyFile] \in Job
    BY <1>0, EmptyIsFile DEF Job
  <2>2. \A i \in Inodes : Flushed(file[i], j.pending) \in File
    BY <1>0, FlushedType DEF TypeOK, Job
  <2>3. file' \in [Inodes -> File] /\ job' \in [Procs -> Job]
    BY <1>11, <2>1, <2>2 DEF FlushForProgress, TypeOK
  <2>4. pc' \in [Procs -> Places] /\ faults' \in 0..MaxFaults
    BY <1>11, JobConstants DEF FlushForProgress, TypeOK, Places
  <2> QED
    BY <1>11, <2>3, <2>4 DEF FlushForProgress, TypeOK
<1>12. CASE RenameProgress(p)
  <2>1. j.hdr \in Header /\ j.next - 1 \in 1..NChunks /\ j.ver \in Versions
    BY <1>0, <1>12, JobConstants DEF RenameProgress, JobKnows, Encrypting, Job
  <2>2. [chunks |-> j.next - 1, dek |-> j.hdr.dek, ver |-> j.ver] \in Progress
    BY <2>1 DEF Progress, Header
  <2> QED
    BY <1>12, <2>2, JobConstants DEF RenameProgress, TypeOK, Places
<1>13. CASE Seal(p) /\ ~j.bad
  <2> DEFINE sealed == [Flushed(file[j.fd], j.pending) EXCEPT !.hdr.hash = j.ver]
  <2>1. j.fd \in Inodes /\ j.ver \in Versions
    BY <1>0, <1>13 DEF Seal, JobKnows, Writing, Job
  <2>2. Flushed(file[j.fd], j.pending) \in File
    BY <1>0, <2>1, FlushedType DEF TypeOK, Job
  <2>3. Flushed(file[j.fd], j.pending).hdr \in Header
    BY <1>0, <1>13, <2>2 DEF Seal, JobKnows, Encrypting, Writing, Flushed, File
  <2>4. sealed \in File
    BY <2>1, <2>2, <2>3 DEF File, Header
  <2>5. [j EXCEPT !.pending = EmptyFile] \in Job
    BY <1>0, EmptyIsFile DEF Job
  <2>6. file' = [file EXCEPT ![j.fd] = sealed]
    BY <1>13 DEF Seal
  <2> QED
    BY <1>13, <2>4, <2>5, <2>6 DEF Seal, TypeOK, Places
<1>14. CASE Close(p)
  <2>1. [j EXCEPT !.fd = None] \in Job
    BY <1>0 DEF Job
  <2>2. \A i \in Inodes : [file[i] EXCEPT !.body = Append(@, Foot)] \in File
    <3>1. \A s \in Seq(Bytes) : Append(s, Foot) \in Seq(Bytes)
      BY DEF Bytes
    <3> QED
      BY <3>1 DEF TypeOK, File
  <2> QED
    BY <1>14, <2>1, <2>2, JobConstants DEF Close, TypeOK, Places
<1>15. CASE Verify(p)
  BY <1>15, JobConstants DEF Verify, TypeOK, Places
<1>16. CASE RemoveOutput(p)
  <2>1. [j EXCEPT !.fd = None, !.pending = EmptyFile] \in Job
    BY <1>0, EmptyIsFile DEF Job
  <2> QED
    BY <1>16, <2>1 DEF RemoveOutput, TypeOK, Places
<1>17. CASE Unlock(p) \/ CommitUnlink(p)
  BY <1>17 DEF Unlock, CommitUnlink, TypeOK, Places
<1>18. CASE DropTemp(p)
  BY <1>18, IdleJobType DEF DropTemp, TypeOK, Places
<1>19. CASE CommitRename(p)
  BY <1>19, IdleJobType, JobConstants DEF CommitRename, TypeOK, Places
<1>20. CASE Dispose(p)
  BY <1>20, IdleJobType, JobConstants DEF Dispose, TypeOK, Places, Versions
<1>21. CASE Kill(p)
  <2>1. file' \in [Inodes -> File]
    BY <1>21, PartlyFlushedType DEF Kill
  <2> QED
    BY <1>21, <2>1, IdleJobType, JobConstants DEF Kill, TypeOK, Places
<1>23. CASE FlushUnnoticed(p)
  <2>1. file' \in [Inodes -> File]
    BY <1>23, PartlyFlushedType DEF FlushUnnoticed
  <2>2. [j EXCEPT !.pending = EmptyFile, !.bad = TRUE] \in Job
    BY <1>0, EmptyIsFile DEF Job
  <2>3. job' \in [Procs -> Job]
    BY <1>23, <2>2 DEF FlushUnnoticed, TypeOK
  <2>4. pc' \in [Procs -> Places] /\ faults' \in 0..MaxFaults
    BY <1>23, JobConstants DEF FlushUnnoticed, TypeOK, Places
  <2> QED
    BY <1>23, <2>1, <2>3, <2>4 DEF FlushUnnoticed, TypeOK
<1>24. CASE Seal(p) /\ j.bad
  BY <1>24 DEF Seal, TypeOK, Places
<1>22. CASE UNCHANGED vars
  BY <1>22 DEF vars, TypeOK
<1> QED
  BY <1>1, <1>2, <1>3, <1>4, <1>5, <1>6, <1>7, <1>8, <1>9, <1>10, <1>11, <1>12, <1>13,
     <1>14, <1>15, <1>16, <1>17, <1>18, <1>19, <1>20, <1>21, <1>22, <1>23, <1>24
     DEF Next, Run

-----------------------------------------------------------------------------
(***************************************************************************)
(* Safety.  Until it commits, a job writes only to the file under the      *)
(* temporary name; what it commits is what it has just verified.           *)
(***************************************************************************)
LEMMA OnlyTemp ==
  ASSUME NEW p \in Procs, TypeOK, JobKnows(p), PartlyFlushed(p), final # None, final # tmp
  PROVE  file'[final] = file[final]
<1>1. CASE UNCHANGED file
  BY <1>1
<1>2. ASSUME NEW g, file' = [file EXCEPT ![job[p].fd] = g], job[p].fd # None
      PROVE  file'[final] = file[final]
  BY <1>2 DEF JobKnows, TypeOK
<1> QED
  BY <1>1, <1>2 DEF PartlyFlushed

LEMMA JobInvStep ==
  ASSUME NEW p \in Procs, Procs = {p}, TypeOK, JobInv, [Next]_vars, TypeOK'
  PROVE  JobInv'
<1> DEFINE j == job[p]
<1>0. /\ JobKnows(p) /\ j \in Job /\ job \in [Procs -> Job] /\ pc \in [Procs -> Places]
      /\ file \in [Inodes -> File] /\ None \notin Inodes
      /\ tmp \in Inodes \cup {None} /\ final \in Inodes \cup {None}
      /\ final # None => final # tmp /\ Whole(file[final])
      /\ src = 0 => final # None
  BY JobConstants DEF JobInv, TypeOK, FinalWhole, NothingLost
<1>inv. SUFFICES /\ JobKnows(p)'
                 /\ final' # None => final' # tmp' /\ Whole(file'[final'])
                 /\ src' = 0 => final' # None
  BY DEF JobInv, FinalWhole, NothingLost, Whole, Decrypts
<1> USE DEF Goto, Move, Fault, Disk, Job
<1>1. CASE Edit
  BY <1>0, <1>1 DEF Edit, JobKnows, Whole, Decrypts, Writing, Encrypting
<1>2. CASE Start(p)
  BY <1>0, <1>2 DEF Start, JobKnows, IdleJob, EmptyFile, Writing, Encrypting
<1>3. CASE Open(p)
  BY <1>0, <1>3 DEF Open, JobKnows, Writing, Encrypting
<1>4. CASE Look(p)
  BY <1>0, <1>4 DEF Look, JobKnows, Writing, Encrypting
<1>5. CASE Authenticate(p)
  BY <1>0, <1>5 DEF Authenticate, Authentic, JobKnows, Writing, Encrypting
<1>6. CASE Lock(p)
  BY <1>0, <1>6 DEF Lock, JobKnows, Writing, Encrypting
<1>7. CASE Prepare(p)
  <2>1. CASE UNCHANGED <<tmp, file, job>> /\ pc' = [pc EXCEPT ![p] = "unlock_failed"]
    BY <1>0, <1>7, <2>1 DEF Prepare, JobKnows, Writing, Encrypting
  <2>2. CASE /\ j.start > 0 /\ j.hdr.mode = j.mode /\ tmp # None
             /\ file' = [file EXCEPT ![tmp].body = Truncated(@, j.start * PlainCells)]
             /\ job' = [job EXCEPT ![p].fd = tmp, ![p].next = j.start + 1]
             /\ pc' = [pc EXCEPT ![p] = "chunk"]
             /\ UNCHANGED <<tmp, faults>>
    <3>1. file'[tmp].hdr = file[tmp].hdr
      BY <1>0, <2>2 DEF File
    <3>2. final # None => file'[final] = file[final]
      BY <1>0, <2>2
    <3> QED
      BY <1>0, <1>7, <2>2, <3>1, <3>2 DEF Prepare, JobKnows, Writing, Encrypting
  <2>3. CASE /\ tmp = None => FreeInodes # {}
             /\ tmp' = IF tmp = None THEN CHOOSE i \in FreeInodes : TRUE ELSE tmp
             /\ file' = [file EXCEPT ![tmp'] = EmptyFile]
             /\ job' = [job EXCEPT ![p].fd = tmp', ![p].hdr = NoHdr]
             /\ pc' = [pc EXCEPT ![p] = "clearprs"]
             /\ UNCHANGED faults
    <3>1. tmp' # None /\ tmp' # final
      <4>1. FreeInodes # {} => (CHOOSE i \in FreeInodes : TRUE) \in FreeInodes
        OBVIOUS
      <4> QED
        BY <1>0, <2>3, <4>1 DEF FreeInodes
    <3>2. final # None => file'[final] = file[final]
      BY <1>0, <2>3, <3>1
    <3> QED
      BY <1>0, <1>7, <2>3, <3>1, <3>2 DEF Prepare, JobKnows, Writing, Encrypting
  <2> QED
    BY <1>7, <2>1, <2>2, <2>3 DEF Prepare
<1>8. CASE ClearProgress(p) \/ UnlinkProgress(p) \/ RemoveProgress(p)
           \/ RemoveOutputProgress(p)
  BY <1>0, <1>8 DEF ClearProgress, UnlinkProgress, RemoveProgress, RemoveOutputProgress,
     JobKnows, Writing, Encrypting
<1>9. CASE WriteHeader(p)
  <2>1. CASE Fault /\ Goto(p, "fail") /\ UNCHANGED job
    BY <1>0, <1>9, <2>1 DEF WriteHeader, JobKnows, Writing, Encrypting
  <2>2. ASSUME NEW h, h.pw = j.pw, h.mode = j.mode, h # NoHdr,
               job' = [job EXCEPT ![p].hdr = h, ![p].pending.hdr = h],
               Goto(p, "chunk"), UNCHANGED faults
        PROVE  JobKnows(p)'
    BY <1>0, <1>9, <2>2 DEF WriteHeader, JobKnows, Writing, Encrypting, File
  <2>3. \A d \in Keys :
          [pw |-> j.pw, mode |-> j.mode, comp |-> j.comp, dek |-> d, hash |-> 0] \in Header
    BY <1>0, JobConstants DEF Header, Versions
  <2>4. Keys \ UsedKeys # {} => (CHOOSE d \in Keys \ UsedKeys : TRUE) \in Keys
    OBVIOUS
  <2> QED
    <3>1. CASE Keys \ UsedKeys # {} /\ ~(Fault /\ Goto(p, "fail") /\ UNCHANGED job)
      <4> DEFINE d == CHOOSE k \in Keys \ UsedKeys : TRUE
      <4> DEFINE h == [pw |-> j.pw, mode |-> j.mode, comp |-> j.comp, dek |-> d, hash |-> 0]
      <4>1. h \in Header /\ h.pw = j.pw /\ h.mode = j.mode
        BY <2>3, <2>4, <3>1
      <4>2. h # NoHdr
        BY <4>1, Markers
      <4>3. job' = [job EXCEPT ![p].hdr = h, ![p].pending.hdr = h]
            /\ Goto(p, "chunk") /\ UNCHANGED faults
        BY <1>9, <3>1 DEF WriteHeader
      <4> HIDE DEF h
      <4>4. JobKnows(p)'
        BY <2>2, <4>1, <4>2, <4>3
      <4> QED
        BY <1>0, <1>9, <4>4 DEF WriteHeader
    <3> QED
      BY <1>9, <2>1, <3>1 DEF WriteHeader
<1>10. CASE EncryptChunk(p)
  <2> DEFINE cells == Chunk(j.hdr.dek, j.mode, j.comp, j.next, j.ver)
  <2> HIDE DEF cells
  <2>1. CASE Goto(p, "fail") /\ UNCHANGED <<file, job>>
    BY <1>0, <1>10, <2>1 DEF EncryptChunk, JobKnows, Writing, Encrypting
  <2>2. CASE /\ file' = [file EXCEPT ![j.fd] = Flushed(@, j.pending)]
             /\ job' = [job EXCEPT ![p].pending = [EmptyFile EXCEPT !.body = cells],
                                   ![p].next = j.next + 1]
             /\ \E place \in {"chunk", "save"} : Goto(p, place)
             /\ UNCHANGED faults
    BY <1>0, <1>10, <2>2
       DEF EncryptChunk, Flushed, EmptyFile, JobKnows, Writing, Encrypting
  <2>3. CASE /\ job' = [job EXCEPT ![p].pending.body = @ \o cells, ![p].next = j.next + 1]
             /\ \E place \in {"chunk", "save"} : Goto(p, place)
             /\ UNCHANGED <<file, faults>>
    BY <1>0, <1>10, <2>3 DEF EncryptChunk, JobKnows, Writing, Encrypting, File
  <2> QED
    BY <1>10, <2>1, <2>2, <2>3 DEF EncryptChunk, cells
<1>11. CASE FlushForProgress(p)
  BY <1>0, <1>11 DEF FlushForProgress, Flushed, EmptyFile, JobKnows, Writing, Encrypting
<1>12. CASE RenameProgress(p)
  BY <1>0, <1>12 DEF RenameProgress, JobKnows, Writing, Encrypting
<1>13. CASE Seal(p) /\ ~j.bad
  <2> DEFINE f == Flushed(file[tmp], j.pending)
  <2>1. /\ j.fd = tmp /\ tmp \in Inodes /\ tmp # final /\ f.hdr # NoHdr
        /\ f.hdr.pw = j.pw /\ f.hdr.mode = j.mode /\ j.ver = src
    BY <1>0, <1>13 DEF Seal, Flushed, JobKnows, Writing, Encrypting
  <2>2. f.hdr \in Header /\ f \in File
    BY <1>0, <2>1, FlushedType DEF File
  <2>3. /\ file'[tmp].hdr = [f.hdr EXCEPT !.hash = src]
        /\ final # None => file'[final] = file[final]
    <3>1. file' = [file EXCEPT ![tmp] =
                     [Flushed(file[tmp], j.pending) EXCEPT !.hdr.hash = j.ver]]
      BY <1>13, <2>1 DEF Seal
    <3> QED
      BY <1>0, <2>1, <2>2, <3>1 DEF File
  <2>4. /\ file'[tmp].hdr # NoHdr /\ file'[tmp].hdr.pw = j.pw
        /\ file'[tmp].hdr.mode = j.mode /\ file'[tmp].hdr.hash = src
    <3>1. [f.hdr EXCEPT !.hash = src] \in Header
      BY <2>2 DEF Header, TypeOK
    <3> QED
      BY <2>1, <2>2, <2>3, <3>1, Markers DEF Header
  <2> QED
    BY <1>0, <1>13, <2>1, <2>3, <2>4 DEF Seal, EmptyFile, JobKnows, Writing, Encrypting
<1>14. CASE Close(p)
  <2>1. CASE UNCHANGED file
    BY <1>0, <1>14, <2>1 DEF Close, JobKnows, Writing, Encrypting
  <2>2. CASE file' = [file EXCEPT ![j.fd].body = Append(@, Foot)]
    <3>1. /\ file'[tmp].hdr = file[tmp].hdr
          /\ final # None => file'[final] = file[final]
      BY <1>0, <1>14, <2>2 DEF Close, JobKnows, Writing, File
    <3> QED
      BY <1>0, <1>14, <3>1 DEF Close, JobKnows, Writing, Encrypting
  <2> QED
    BY <1>14, <2>1, <2>2 DEF Close
<1>15. CASE Verify(p)
  BY <1>0, <1>15 DEF Verify, Verifies, Ordered, Whole, Decrypts, JobKnows, Writing, Encrypting
<1>16. CASE RemoveOutput(p)
  BY <1>0, <1>16 DEF RemoveOutput, JobKnows, Writing, Encrypting
<1>17. CASE Unlock(p) \/ CommitUnlink(p)
  BY <1>0, <1>17 DEF Unlock, CommitUnlink, Ordered, JobKnows, Writing, Encrypting
<1>18. CASE DropTemp(p)
  BY <1>0, <1>18 DEF DropTemp, IdleJob, EmptyFile, JobKnows, Writing, Encrypting
<1>19. CASE CommitRename(p)
  BY <1>0, <1>19 DEF CommitRename, Ordered, IdleJob, EmptyFile, JobKnows, Writing, Encrypting
<1>20. CASE Dispose(p)
  BY <1>0, <1>20 DEF Dispose, Ordered, IdleJob, EmptyFile, JobKnows, Writing, Encrypting
<1>21. CASE Kill(p)
  <2>1. final # None => file'[final] = file[final]
    BY <1>0, <1>21, OnlyTemp DEF Kill
  <2> QED
    BY <1>0, <1>21, <2>1 DEF Kill, IdleJob, EmptyFile, JobKnows, Writing, Encrypting
<1>23. CASE FlushUnnoticed(p)
  <2>1. final # None => file'[final] = file[final]
    BY <1>0, <1>23, OnlyTemp DEF FlushUnnoticed
  <2> QED
    BY <1>0, <1>23, <2>1 DEF FlushUnnoticed, EmptyFile, JobKnows, Writing, Encrypting
<1>24. CASE Seal(p) /\ j.bad
  BY <1>0, <1>24 DEF Seal, JobKnows, Writing, Encrypting
<1>22. CASE UNCHANGED vars
  BY <1>0, <1>22 DEF vars, Ordered, JobKnows, Writing, Encrypting
<1> QED
  BY <1>1, <1>2, <1>3, <1>4, <1>5, <1>6, <1>7, <1>8, <1>9, <1>10, <1>11, <1>12, <1>13,
     <1>14, <1>15, <1>16, <1>17, <1>18, <1>19, <1>20, <1>21, <1>22, <1>23, <1>24
     DEF Next, Run

-----------------------------------------------------------------------------
LEMMA InitInv == ASSUME NEW p \in Procs, Procs = {p}, Init PROVE TypeOK /\ JobInv
<1>1. TypeOK
  BY EmptyIsFile, IdleJobType, JobConstants DEF Init, TypeOK, Versions, Places
<1>2. JobInv
  BY JobConstants DEF Init, JobInv, JobKnows, IdleJob, EmptyFile, FinalWhole, NothingLost,
     Writing, Encrypting
<1> QED
  BY <1>1, <1>2

\* The inductive invariant of jobs that do not overlap.
THEOREM JobInvariant ==
  ASSUME NEW p \in Procs, Procs = {p}
  PROVE  Spec => [](TypeOK /\ JobInv)
<1>1. Init => TypeOK /\ JobInv
  BY InitInv
<1>2. TypeOK /\ JobInv /\ [Next]_vars => TypeOK' /\ JobInv'
  BY TypeStep, JobInvStep
<1> QED
  BY <1>1, <1>2, PTL DEF Spec

\* Every file, checkpoint and job keeps its type through kills and resumptions.
THEOREM JobTypes ==
  ASSUME NEW p \in Procs, Procs = {p}
  PROVE  Spec => []TypeOK
  BY JobInvariant, PTL

\* What stands under the final name always decrypts, for sources of any length: the
\* promise of the commit behind the self-verification (main.cpp line 3045).
THEOREM FinalAlwaysWhole ==
  ASSUME NEW p \in Procs, Procs = {p}
  PROVE  Spec => []FinalWhole
<1>1. JobInv => FinalWhole
  BY DEF JobInv
<1> QED
  BY JobInvariant, <1>1, PTL

\* A source that is gone has left a final output that decrypts.
THEOREM SourceOrOutput ==
  ASSUME NEW p \in Procs, Procs = {p}
  PROVE  Spec => []NothingLost
<1>1. JobInv => NothingLost
  BY DEF JobInv
<1> QED
  BY JobInvariant, <1>1, PTL

\* The source is deleted only in exchange for a final output that decrypts, with this
\* job's password and mode, to the source as it was at that moment.
THEOREM SourceTraded ==
  ASSUME NEW p \in Procs, Procs = {p}
  PROVE  Spec => SourceOnlyTraded
<1>1. ASSUME TypeOK, JobInv, Next, src # 0, src' = 0
      PROVE  Traded
  <2>1. ~Edit
    BY <1>1, JobConstants DEF Edit
  <2>2. Dispose(p) \/ UNCHANGED src
    BY <1>1, <2>1 DEF Next, Run, Disk, Start, Open, Look, Authenticate, Lock, Prepare,
       ClearProgress, WriteHeader, EncryptChunk, FlushForProgress, FlushUnnoticed, UnlinkProgress,
       RenameProgress, Seal, Close, RemoveProgress, Verify, RemoveOutput,
       RemoveOutputProgress, Unlock, DropTemp, CommitUnlink, CommitRename, Kill
  <2>3. Dispose(p) /\ job[p].dispose
    BY <1>1, <2>2 DEF Dispose
  <2> QED
    BY <1>1, <2>3 DEF Dispose, Move, JobInv, JobKnows, Ordered, Traded
<1>2. TypeOK /\ JobInv /\ [Next]_vars => [src # 0 /\ src' = 0 => Traded]_vars
  BY <1>1
<1> QED
  BY JobInvariant, <1>2, PTL DEF Spec, SourceOnlyTraded
-----------------------------------------------------------------------------
(***************************************************************************)
(* Refinement: seen through the source and the output only, jobs trade.    *)
(***************************************************************************)
\* What a step of a job that neither commits nor disposes may do to source and output.
LEMMA WorkStep ==
  ASSUME NEW p \in Procs, Procs = {p}, TypeOK, JobInv, Next,
         ~Edit, ~CommitUnlink(p), ~CommitRename(p), ~Dispose(p)
  PROVE  UNCHANGED <<src, final>> /\ (final # None => file'[final] = file[final])
<1> DEFINE j == job[p]
<1>0. /\ JobKnows(p) /\ file \in [Inodes -> File] /\ final \in Inodes \cup {None}
      /\ final # None => final # tmp
  BY DEF JobInv, TypeOK
<1> USE DEF Disk
<1>1. CASE Prepare(p)
  <2>1. CASE UNCHANGED <<tmp, file, job>>
    BY <1>0, <1>1, <2>1 DEF Prepare
  <2>2. CASE file' = [file EXCEPT ![tmp].body = Truncated(@, j.start * PlainCells)]
    BY <1>0, <1>1, <2>2 DEF Prepare
  <2>3. CASE /\ tmp = None => FreeInodes # {}
             /\ tmp' = IF tmp = None THEN CHOOSE i \in FreeInodes : TRUE ELSE tmp
             /\ file' = [file EXCEPT ![tmp'] = EmptyFile]
    <3>1. FreeInodes # {} => (CHOOSE i \in FreeInodes : TRUE) \in FreeInodes
      OBVIOUS
    <3>2. tmp' # final
      BY <1>0, <2>3, <3>1 DEF FreeInodes
    <3> QED
      BY <1>0, <1>1, <2>3, <3>2 DEF Prepare
  <2> QED
    BY <1>1, <2>1, <2>2, <2>3 DEF Prepare
<1>2. CASE EncryptChunk(p) \/ FlushForProgress(p) \/ Seal(p) \/ Close(p)
  <2>1. UNCHANGED file \/ \E g : file' = [file EXCEPT ![j.fd] = g]
    BY <1>2 DEF EncryptChunk, FlushForProgress, Seal, Close
  <2>2. pc[p] \in Writing
    BY <1>2 DEF EncryptChunk, FlushForProgress, Seal, Close, Move, Writing
  <2>3. j.fd # None /\ j.fd = tmp
    BY <1>0, <2>2 DEF JobKnows
  <2>4. UNCHANGED <<src, final>>
    BY <1>2 DEF EncryptChunk, FlushForProgress, Seal, Close
  <2> QED
    BY <1>0, <2>1, <2>3, <2>4
<1>3. CASE FlushUnnoticed(p) \/ Kill(p)
  BY <1>0, <1>3, OnlyTemp DEF FlushUnnoticed, Kill
<1>4. CASE /\ ~Prepare(p) /\ ~EncryptChunk(p) /\ ~FlushForProgress(p) /\ ~Seal(p)
           /\ ~Close(p) /\ ~FlushUnnoticed(p) /\ ~Kill(p)
  BY <1>4 DEF Next, Run, Start, Open, Look, Authenticate, Lock, ClearProgress, WriteHeader,
     UnlinkProgress, RenameProgress, RemoveProgress, Verify, RemoveOutput,
     RemoveOutputProgress, Unlock, DropTemp
<1> QED
  BY <1>1, <1>2, <1>3, <1>4

\* Every step of the jobs is a step of Exchange or leaves source and output as they are.
LEMMA TradeStep ==
  ASSUME NEW p \in Procs, Procs = {p}, TypeOK, JobInv, TypeOK', JobInv', [Next]_vars
  PROVE  [Trade!Next]_<<src, OutputVersion>>
<1>0. /\ JobKnows(p) /\ src \in Versions /\ src' \in Versions
      /\ final # None => Whole(file[final]) /\ OutputVersion = file[final].hdr.hash
      /\ final = None => OutputVersion = 0
      /\ final' # None => Whole(file'[final']) /\ OutputVersion' = file'[final'].hdr.hash
      /\ final' = None => OutputVersion' = 0
  BY DEF JobInv, TypeOK, FinalWhole, OutputVersion, Whole, Decrypts
<1>1. CASE Edit
  <2>1. Trade!Edit
    BY <1>0, <1>1, JobConstants DEF Edit, Trade!Edit, OutputVersion, Versions
  <2> QED
    BY <2>1 DEF Trade!Next
<1>2. CASE CommitUnlink(p)
  <2>1. Trade!Withdraw
    BY <1>0, <1>2 DEF CommitUnlink, Move, JobKnows, Trade!Withdraw
  <2> QED
    BY <2>1 DEF Trade!Next
<1>3. CASE CommitRename(p)
  <2>1. CASE tmp # None /\ final' = tmp
    <3>1. src # 0 /\ Ordered(file[tmp], job[p]) /\ UNCHANGED <<src, file>>
      BY <1>0, <1>3 DEF CommitRename, JobKnows
    <3>2. Trade!Deliver
      BY <1>0, <2>1, <3>1 DEF Ordered, Trade!Deliver
    <3> QED
      BY <3>2 DEF Trade!Next
  <2>2. CASE UNCHANGED final
    BY <1>0, <1>3, <2>2 DEF CommitRename
  <2> QED
    BY <1>3, <2>1, <2>2 DEF CommitRename
<1>4. CASE Dispose(p)
  <2>1. src # 0 /\ OutputVersion = src /\ UNCHANGED <<final, file>>
    BY <1>0, <1>4 DEF Dispose, Move, JobKnows, Ordered
  <2>2. CASE src' = 0
    <3>1. Trade!Dispose
      BY <1>0, <2>1, <2>2 DEF Trade!Dispose
    <3> QED
      BY <3>1 DEF Trade!Next
  <2>3. CASE UNCHANGED src
    BY <1>0, <2>1, <2>3
  <2> QED
    BY <1>4, <2>2, <2>3 DEF Dispose
<1>5. CASE Next /\ ~Edit /\ ~CommitUnlink(p) /\ ~CommitRename(p) /\ ~Dispose(p)
  <2>1. UNCHANGED <<src, final>> /\ (final # None => file'[final] = file[final])
    BY <1>5, WorkStep
  <2> QED
    BY <1>0, <2>1
<1>6. CASE UNCHANGED vars
  BY <1>0, <1>6 DEF vars
<1> QED
  BY <1>1, <1>2, <1>3, <1>4, <1>5, <1>6

\* Seen through the source and the output, jobs implement Exchange, for sources of any
\* length and however they are killed and resumed: the output appears whole and of the
\* source as it is, goes only while the source is there, and the source goes only in
\* exchange (main.cpp, lines 3024 to 3051).
THEOREM JobsTrade ==
  ASSUME NEW p \in Procs, Procs = {p}
  PROVE  Spec => ImplementsExchange
<1>1. Init => Trade!Init
  BY JobConstants DEF Init, Trade!Init, OutputVersion
<1>2. TypeOK /\ JobInv /\ TypeOK' /\ JobInv' /\ [Next]_vars => [Trade!Next]_Trade!vars
  BY TradeStep DEF Trade!vars
<1> QED
  BY JobInvariant, <1>1, <1>2, PTL DEF Spec, ImplementsExchange, Trade!Spec

-----------------------------------------------------------------------------
(***************************************************************************)
(* The stride of uncompressed chunks.                                      *)
(***************************************************************************)
\* Piece k of chunk i lies within the first n chunks.
LEMMA Inside ==
  ASSUME NEW n \in Nat, NEW w \in Nat, NEW i \in 1..n, NEW k \in 1..w
  PROVE  (i - 1) * w + k \in 1..(n * w)
<1>1. (i - 1) * w >= 0 /\ (n - i) * w >= 0
  OBVIOUS
<1>2. n * w = (i - 1) * w + w + (n - i) * w
  OBVIOUS
<1> QED
  BY <1>1, <1>2

\* The same container but for its hash, which no chunk depends on.
Alike(g, h) == g.comp = h.comp /\ g.dek = h.dek /\ g.mode = h.mode

LEMMA HoldsKept ==
  ASSUME NEW b, NEW c, NEW g, NEW h, Alike(g, h), NEW n \in Nat, NEW v,
         Width(h.comp) \in Nat, Holds(b, h, n, v),
         Len(c) \in Nat, Len(c) >= n * Width(h.comp),
         \A k \in 1..(n * Width(h.comp)) : c[k] = b[k]
  PROVE  Holds(c, g, n, v)
<1> DEFINE w == Width(h.comp)
<1>1. ASSUME NEW i \in 1..n, NEW k \in 1..w
      PROVE  c[(i - 1) * w + k] = Chunk(g.dek, g.mode, g.comp, i, v)[k]
  <2>1. (i - 1) * w + k \in 1..(n * w)
    BY Inside
  <2>2. b[(i - 1) * w + k] = Chunk(h.dek, h.mode, h.comp, i, v)[k]
    BY DEF Holds
  <2> QED
    BY <2>1, <2>2 DEF Alike
<1> QED
  BY <1>1 DEF Holds, Alike

LEMMA MixedKept ==
  ASSUME NEW b, NEW c, NEW n, Mixed(b, n),
         \A k \in 1..n : k <= Len(b) => k <= Len(c) /\ c[k] = b[k]
  PROVE  Mixed(c, n)
  BY DEF Mixed

LEMMA Strided ==
  /\ PlainCells \in Nat \ {0} /\ CompCells \in Nat \ {0}
  /\ Width(FALSE) = PlainCells /\ Width(TRUE) = CompCells
  /\ \A n \in Nat : n * PlainCells \in Nat /\ (n + 1) * PlainCells = n * PlainCells + PlainCells
  BY JobConstants DEF Width

LEMMA Joined ==
  ASSUME NEW x \in Seq(Bytes), NEW y \in Seq(Bytes), NEW z \in Seq(Bytes)
  PROVE  x \o (y \o z) = (x \o y) \o z
  OBVIOUS

LEMMA ExactIsBacked ==
  ASSUME NEW f, NEW n, NEW v, Exact(f, n, v)
  PROVE  Backed(f, n, v)
  BY DEF Exact, Backed

\* What is written behind a container does not change what it holds.
LEMMA Longer ==
  ASSUME NEW f \in File, NEW x \in Seq(Bytes), NEW n \in Nat, NEW v, Backed(f, n, v),
         NEW g, g.body = f.body \o x, Alike(g.hdr, f.hdr), f.hdr # NoHdr
  PROVE  Backed(g, n, v)
<1>0. f.body \in Seq(Bytes) /\ f.hdr.comp \in BOOLEAN
  BY DEF File, Header
<1> DEFINE b == f.body
           c == f.body \o x
<1>1. Len(c) = Len(b) + Len(x) /\ Len(b) \in Nat /\ Len(x) \in Nat
      /\ \A k \in 1..Len(b) : c[k] = b[k]
  BY <1>0
<1> HIDE DEF c
<1>2. CASE Mixed(b, n * PlainCells)
  <2>1. \A k \in 1..(n * PlainCells) : k <= Len(b) => k <= Len(c) /\ c[k] = b[k]
    BY <1>1, Strided
  <2> QED
    BY <1>2, <2>1, MixedKept DEF Backed, c
<1>3. CASE Holds(b, f.hdr, n, v) /\ ~f.hdr.comp
  <2>1. Width(f.hdr.comp) = PlainCells
    BY <1>0, <1>3, Strided
  <2>2. Len(b) >= n * PlainCells
    BY <1>3, <2>1 DEF Holds
  <2>3. Len(c) \in Nat /\ Len(c) >= n * PlainCells /\ \A k \in 1..(n * PlainCells) : c[k] = b[k]
    BY <1>1, <2>2, Strided
  <2>4. Holds(c, g.hdr, n, v)
    BY <1>3, <2>1, <2>3, HoldsKept, Strided
  <2> QED
    BY <2>4 DEF Backed, c
<1> QED
  BY <1>2, <1>3 DEF Backed, Alike

\* The next chunk, compressed or not.
LEMMA NextChunk ==
  ASSUME NEW f \in File, f.hdr # NoHdr, NEW n \in Nat, NEW v \in Versions, NEW c \in BOOLEAN,
         Exact(f, n, v),
         NEW g, g.hdr = f.hdr,
         g.body = f.body \o Chunk(f.hdr.dek, f.hdr.mode, c, n + 1, v)
  PROVE  Exact(g, n + 1, v)
<1> DEFINE b == f.body
           h == f.hdr
           x == Chunk(h.dek, h.mode, c, n + 1, v)
           w == PlainCells
           e == b \o x
<1>0. b \in Seq(Bytes) /\ h \in Header /\ h.comp \in BOOLEAN /\ h.dek \in Keys /\ h.mode \in Modes
  BY DEF File, Header
<1>1. x \in Seq(Bytes)
  BY <1>0, ChunkType
<1>2. Len(x) = Width(c) /\ Width(c) \in Nat \ {0}
  <2>1. Width(c) \in Nat \ {0}
    BY JobConstants DEF Width
  <2> QED
    BY <2>1 DEF Chunk
<1>9. n * w \in Nat /\ (n + 1) * w = n * w + w /\ w \in Nat \ {0}
  BY Strided
<1> HIDE DEF x
<1>3. /\ Len(e) = Len(b) + Len(x) /\ Len(b) \in Nat /\ Len(x) \in Nat
      /\ \A k \in 1..Len(b) : e[k] = b[k]
      /\ \A k \in 1..Len(x) : e[Len(b) + k] = x[k]
  BY <1>0, <1>1
<1> HIDE DEF e
<1>4. SUFFICES ASSUME ~h.comp
               PROVE  \/ Mixed(e, (n + 1) * w)
                      \/ Len(e) = (n + 1) * w /\ Holds(e, h, n + 1, v)
  BY DEF Exact, e, x
<1>5. Width(h.comp) = w
  BY <1>0, <1>4, Strided
<1>6. CASE Mixed(b, n * w)
  <2>1. PICK k \in 1..(n * w) : k <= Len(b) /\ b[k] \notin {Zero, Foot} /\ b[k].comp
    BY <1>6 DEF Mixed
  <2>2. k \in 1..((n + 1) * w) /\ k <= Len(e) /\ e[k] = b[k]
    BY <1>3, <2>1, Strided
  <2> QED
    BY <2>1, <2>2 DEF Mixed
<1>7. CASE Len(b) = n * w /\ Holds(b, h, n, v) /\ c
  <2>1. x[1] = [dek |-> h.dek, mode |-> h.mode, comp |-> c, chunk |-> n + 1, part |-> 1, ver |-> v]
    <3>1. 1 \in 1..Width(c)
      BY <1>2
    <3> QED
      BY <3>1 DEF x, Chunk
  <2>2. x[1] \in Cell /\ x[1].comp
    <3>1. [dek |-> h.dek, mode |-> h.mode, comp |-> c, chunk |-> n + 1, part |-> 1, ver |-> v]
            \in Cell
      BY <1>0 DEF Cell
    <3> QED
      BY <1>7, <2>1, <3>1 DEF Cell
  <2>3. /\ Len(b) + 1 \in 1..((n + 1) * w) /\ Len(b) + 1 <= Len(e)
        /\ e[Len(b) + 1] = x[1]
    <3> DEFINE m == n * w
               m1 == (n + 1) * w
    <3>1. m \in Nat /\ m1 = m + w /\ Len(b) = m
      BY <1>7, <1>9
    <3> HIDE DEF m, m1
    <3>2. Len(b) + 1 \in 1..m1 /\ Len(b) + 1 <= Len(e) /\ e[Len(b) + 1] = x[1]
      BY <1>2, <1>3, <1>9, <3>1
    <3> QED
      BY <3>2 DEF m1
  <2> QED
    BY <2>2, <2>3, Markers DEF Mixed
<1>8. CASE Len(b) = n * w /\ Holds(b, h, n, v) /\ ~c
  <2>1. Len(e) = (n + 1) * w
    BY <1>2, <1>3, <1>8, Strided
  <2>2. ASSUME NEW i \in 1..(n + 1), NEW k \in 1..w
        PROVE  e[(i - 1) * w + k] = Chunk(h.dek, h.mode, h.comp, i, v)[k]
    <3>1. CASE i = n + 1
      <4>1. e[Len(b) + k] = x[k]
        BY <1>2, <1>3, <1>8, Strided
      <4>2. x = Chunk(h.dek, h.mode, h.comp, i, v)
        BY <1>4, <1>8, <1>0, <3>1 DEF x
      <4> QED
        BY <1>8, <3>1, <4>1, <4>2
    <3>2. CASE i # n + 1
      <4>1. (i - 1) * w + k \in 1..(n * w)
        BY <3>2, Inside, Strided
      <4>2. b[(i - 1) * w + k] = Chunk(h.dek, h.mode, h.comp, i, v)[k]
        BY <1>5, <1>8, <3>2 DEF Holds
      <4> QED
        BY <1>3, <1>8, <4>1, <4>2
    <3> QED
      BY <3>1, <3>2
  <2>3. Holds(e, h, n + 1, v)
    BY <1>5, <2>1, <2>2, Strided DEF Holds
  <2> QED
    BY <2>1, <2>3
<1> QED
  BY <1>4, <1>6, <1>7, <1>8 DEF Exact

\* Cutting off what the checkpoint does not account for.
LEMMA Cut ==
  ASSUME NEW f \in File, f.hdr # NoHdr, NEW n \in Nat, NEW v, Backed(f, n, v),
         NEW g, g.hdr = f.hdr, g.body = Truncated(f.body, n * PlainCells)
  PROVE  Exact(g, n, v)
<1> DEFINE b == f.body
           c == Truncated(b, n * PlainCells)
<1>0. b \in Seq(Bytes) /\ f.hdr.comp \in BOOLEAN
  BY DEF File, Header
<1>1. Len(c) = n * PlainCells
      /\ \A k \in 1..(n * PlainCells) : k <= Len(b) => c[k] = b[k]
  BY Strided DEF Truncated
<1> HIDE DEF c
<1>2. CASE Mixed(b, n * PlainCells)
  BY <1>1, <1>2, MixedKept, Strided DEF Exact, c
<1>3. CASE Holds(b, f.hdr, n, v) /\ ~f.hdr.comp
  <2>1. Width(f.hdr.comp) = PlainCells
    BY <1>0, <1>3, Strided
  <2>2. Len(b) >= n * PlainCells
    BY <1>3, <2>1 DEF Holds
  <2>3. \A k \in 1..(n * PlainCells) : c[k] = b[k]
    BY <1>0, <1>1, <2>2, Strided
  <2>4. n * PlainCells \in Nat /\ Alike(g.hdr, f.hdr)
    BY Strided DEF Alike
  <2>5. Holds(c, g.hdr, n, v)
    <3>1. Len(c) \in Nat /\ Len(c) >= n * Width(f.hdr.comp) /\ Width(f.hdr.comp) \in Nat
      BY <1>1, <2>1, <2>4, Strided
    <3>2. \A k \in 1..(n * Width(f.hdr.comp)) : c[k] = b[k]
      BY <2>1, <2>3
    <3> QED
      BY <1>3, <2>4, <3>1, <3>2, HoldsKept
  <2> QED
    BY <1>1, <2>5 DEF Exact, c
<1> QED
  BY <1>2, <1>3 DEF Backed, Exact

-----------------------------------------------------------------------------
\* What reaches the file from the buffers is written behind what the checkpoint accounts for.
LEMMA SpilledAlike ==
  ASSUME NEW p \in Procs, TypeOK, StrideInv, tmp # None, UNCHANGED <<tmp, prs>>,
         NEW x \in Seq(Bytes), NEW g, file' = [file EXCEPT ![tmp] = g],
         g.body = file[tmp].body \o x,
         job[p].pending.hdr = NoHdr =>
           Alike(g.hdr, file[tmp].hdr) /\ (file[tmp].hdr = NoHdr => g.hdr = NoHdr)
  PROVE  Accounted'
<1>1. CASE prs = NoPrs
  BY <1>1 DEF Accounted
<1>2. CASE prs # NoPrs
  <2>1. Alike(g.hdr, file[tmp].hdr) /\ (file[tmp].hdr = NoHdr => g.hdr = NoHdr)
    BY <1>2 DEF StrideInv, Strides
  <2>2. /\ file[tmp] \in File /\ file'[tmp] = g
        /\ prs \in Progress /\ prs.chunks \in Nat
    BY <1>2 DEF TypeOK, Progress
  <2>3. SUFFICES ASSUME g.hdr # NoHdr, g.hdr.dek = prs.dek
                 PROVE  Backed(g, prs.chunks, prs.ver)
    BY <2>2 DEF Accounted
  <2>4. Backed(file[tmp], prs.chunks, prs.ver)
    BY <1>2, <2>1, <2>3 DEF StrideInv, Accounted, Alike
  <2> QED
    BY <2>1, <2>2, <2>3, <2>4, Longer
<1> QED
  BY <1>1, <1>2

LEMMA Spilled ==
  ASSUME NEW p \in Procs, TypeOK, StrideInv, tmp # None, UNCHANGED <<tmp, prs>>,
         NEW x \in Seq(Bytes), NEW g, file' = [file EXCEPT ![tmp] = g],
         g.body = file[tmp].body \o x,
         job[p].pending.hdr = NoHdr => g.hdr = file[tmp].hdr
  PROVE  Accounted'
  BY SpilledAlike DEF Alike

LEMMA PartlyAccounted ==
  ASSUME NEW p \in Procs, TypeOK, JobKnows(p), StrideInv, UNCHANGED <<tmp, prs>>,
         PartlyFlushed(p)
  PROVE  Accounted'
<1> DEFINE j == job[p]
<1>1. CASE UNCHANGED file
  BY <1>1 DEF StrideInv, Accounted, Backed, Holds
<1>2. ASSUME j.fd # None, NEW n \in 0..Len(j.pending.body),
             file' = [file EXCEPT ![j.fd] =
                        Flushed(@, [j.pending EXCEPT !.body = SubSeq(@, 1, n)])]
      PROVE  Accounted'
  <2>1. j.fd = tmp /\ tmp # None /\ tmp \in Inodes /\ file[tmp] \in File /\ j.pending \in File
    BY <1>2 DEF JobKnows, TypeOK, Job
  <2> DEFINE x == SubSeq(j.pending.body, 1, n)
             g == Flushed(file[tmp], [j.pending EXCEPT !.body = x])
  <2>2. x \in Seq(Bytes)
    BY <1>2, <2>1 DEF File
  <2>3. file' = [file EXCEPT ![tmp] = g]
    BY <1>2, <2>1 DEF TypeOK
  <2>4. [j.pending EXCEPT !.body = x].body = x /\ [j.pending EXCEPT !.body = x].hdr = j.pending.hdr
    BY <2>1 DEF File
  <2>5. g.body = file[tmp].body \o x /\ (j.pending.hdr = NoHdr => g.hdr = file[tmp].hdr)
    BY <2>4 DEF Flushed
  <2> HIDE DEF x, g
  <2> QED
    BY <2>1, <2>2, <2>3, <2>5, Spilled
<1> QED
  BY <1>1, <1>2 DEF PartlyFlushed

\* A step that leaves the container, the checkpoint and the buffers alone.
LEMMA SameFiles ==
  ASSUME StrideInv, UNCHANGED <<tmp, prs, file>>
  PROVE  Accounted'
  BY DEF StrideInv, Accounted, Backed, Holds, Mixed

LEMMA FlushedNothing ==
  ASSUME NEW f \in File
  PROVE  Flushed(f, EmptyFile) = f
<1>1. f.body \o <<>> = f.body /\ f = [hdr |-> f.hdr, body |-> f.body]
  BY DEF File
<1> QED
  BY <1>1 DEF Flushed, EmptyFile

LEMMA SameChunks ==
  ASSUME NEW b, NEW g, NEW h, Alike(g, h), NEW n, NEW v
  PROVE  Holds(b, g, n, v) <=> Holds(b, h, n, v)
  BY DEF Holds, Alike

LEMMA StrideStep ==
  ASSUME NEW p \in Procs, Procs = {p}, FlushFails = FALSE, TypeOK, JobInv, StrideInv,
         [Next]_vars
  PROVE  StrideInv'
<1> DEFINE j == job[p]
<1>0. /\ JobKnows(p) /\ Strides(p) /\ Accounted
      /\ j \in Job /\ job \in [Procs -> Job] /\ pc \in [Procs -> Places]
      /\ file \in [Inodes -> File] /\ None \notin Inodes /\ tmp \in Inodes \cup {None}
      /\ prs \in Progress \cup {NoPrs}
  BY JobConstants DEF JobInv, StrideInv, TypeOK
<1>files. /\ tmp # None => file[tmp] \in File
          /\ j.pending \in File /\ j.pending.body \in Seq(Bytes)
  BY <1>0 DEF Job, File
<1>goal. SUFFICES Accounted' /\ Strides(p)'
  BY DEF StrideInv
<1> USE DEF Goto, Move, Fault, Disk
<1> DEFINE Early == {"idle", "open", "look", "auth", "lock", "check", "clearprs", "header"}
           Made == {"chunk", "save", "saveunlink", "saverename", "close"}
<1>1. CASE Edit \/ UNCHANGED vars
  BY <1>0, <1>1, SameFiles DEF Edit, vars, Strides, Ahead
<1>2. CASE Start(p)
  <2>1. PICK w \in Passwords, m \in Modes, c \in Compress, d \in BOOLEAN :
          job' = [job EXCEPT ![p] =
                    [IdleJob EXCEPT !.pw = w, !.mode = m, !.comp = c, !.dispose = d]]
    BY <1>2 DEF Start
  <2>2. ~job'[p].bad /\ job'[p].pending = EmptyFile /\ job'[p].next = 1
    BY <1>0, <2>1 DEF IdleJob
  <2>3. pc'[p] = "open" /\ UNCHANGED <<tmp, prs, file>>
    BY <1>0, <1>2 DEF Start
  <2> QED
    BY <2>2, <2>3, SameFiles DEF Strides, EmptyFile, StrideInv
<1>3. CASE Open(p)
  <2>1. /\ pc[p] = "open" /\ pc'[p] \in {"look", "dtor"} /\ UNCHANGED <<tmp, prs, file>>
        /\ job'[p].bad = j.bad /\ job'[p].pending = j.pending /\ job'[p].next = j.next
    BY <1>0, <1>3 DEF Open, Job
  <2> QED
    BY <1>0, <2>1, SameFiles DEF Strides
<1>4. CASE Look(p)
  <2>1. /\ pc[p] = "look" /\ pc'[p] = "auth" /\ UNCHANGED <<tmp, prs, file>>
        /\ job'[p].bad = j.bad /\ job'[p].pending = j.pending /\ job'[p].next = j.next
        /\ job'[p].start = 0
    BY <1>0, <1>4 DEF Look, Job, JobKnows
  <2> QED
    BY <1>0, <2>1, SameFiles DEF Strides
<1>5. CASE Authenticate(p)
  <2>1. CASE Authentic(j) /\ pc'[p] = "lock" /\ job' = [job EXCEPT ![p].start = prs.chunks]
    <3>1. /\ pc[p] = "auth" /\ UNCHANGED <<tmp, prs, file>>
          /\ job'[p].bad = j.bad /\ job'[p].pending = j.pending /\ job'[p].next = j.next
          /\ job'[p].start = prs.chunks /\ job'[p].hdr = j.hdr /\ job'[p].ver = j.ver
      BY <1>0, <1>5, <2>1 DEF Authenticate, Job
    <3> QED
      BY <1>0, <2>1, <3>1, SameFiles DEF Strides, Authentic
  <2>2. CASE UNCHANGED job
    <3>1. /\ pc[p] = "auth" /\ UNCHANGED <<tmp, prs, file>> /\ pc'[p] \in {"lock", "dtor"}
      BY <1>0, <1>5, <2>2 DEF Authenticate, Authentic
    <3> QED
      BY <1>0, <2>2, <3>1, SameFiles DEF Strides
  <2> QED
    BY <1>0, <1>5, <2>1, <2>2 DEF Authenticate
<1>6. CASE Lock(p)
  <2>1. /\ pc[p] = "lock" /\ UNCHANGED <<tmp, prs, file, job>> /\ pc'[p] \in {"check", "dtor"}
    BY <1>0, <1>6 DEF Lock
  <2> QED
    BY <1>0, <2>1, SameFiles DEF Strides
<1>7. CASE Prepare(p)
  <2>0. pc[p] = "check" /\ UNCHANGED prs
    BY <1>7 DEF Prepare
  <2>1. CASE UNCHANGED <<tmp, file, job>> /\ Goto(p, "unlock_failed")
    BY <1>0, <2>0, <2>1, SameFiles DEF Strides
  <2>2. CASE /\ j.start > 0 /\ j.hdr.mode = j.mode /\ tmp # None
             /\ file' = [file EXCEPT ![tmp].body = Truncated(@, j.start * PlainCells)]
             /\ job' = [job EXCEPT ![p].fd = tmp, ![p].next = j.start + 1]
             /\ Goto(p, "chunk")
             /\ UNCHANGED tmp
    <3> DEFINE f == file[tmp]
               g == file'[tmp]
    <3>1. /\ j.start \in Nat /\ j.hdr = f.hdr /\ j.hdr # NoHdr
          /\ prs # NoPrs /\ prs.chunks = j.start /\ prs.dek = j.hdr.dek /\ prs.ver = j.ver
          /\ j.pending = EmptyFile
      BY <1>0, <2>0, <2>2 DEF JobKnows, Strides, Job
    <3>2. Backed(f, j.start, j.ver)
      BY <1>0, <2>2, <3>1 DEF Accounted
    <3>3. g.hdr = f.hdr /\ g.body = Truncated(f.body, j.start * PlainCells) /\ g \in File
      <4>1. f \in File /\ g = [f EXCEPT !.body = Truncated(@, j.start * PlainCells)]
        BY <1>0, <2>2
      <4>2. Truncated(f.body, j.start * PlainCells) \in Seq(Bytes)
        BY <3>1, <4>1, TruncatedType, Strided DEF File
      <4> QED
        BY <4>1, <4>2 DEF File
    <3>4. Exact(g, j.start, j.ver)
      BY <1>files, <2>2, <3>1, <3>2, <3>3, Cut
    <3>5. /\ job'[p].next = j.start + 1 /\ job'[p].pending = EmptyFile /\ job'[p].bad = j.bad
          /\ job'[p].hdr = j.hdr /\ job'[p].ver = j.ver /\ pc'[p] = "chunk"
      BY <1>0, <2>2, <3>1 DEF Job
    <3>6. Flushed(g, EmptyFile) = g
      <4>1. g.body \o <<>> = g.body /\ g = [hdr |-> g.hdr, body |-> g.body]
        BY <3>3 DEF File
      <4> QED
        BY <4>1 DEF Flushed, EmptyFile
    <3>7. Ahead(p)' = g
      BY <2>2, <3>5, <3>6 DEF Ahead
    <3>8. Strides(p)'
      BY <1>0, <3>1, <3>3, <3>4, <3>5, <3>7 DEF Strides, EmptyFile
    <3>9. Accounted'
      BY <2>0, <2>2, <3>1, <3>4, ExactIsBacked DEF Accounted
    <3> QED
      BY <3>8, <3>9
  <2>3. CASE /\ tmp = None => FreeInodes # {}
             /\ tmp' = IF tmp = None THEN CHOOSE i \in FreeInodes : TRUE ELSE tmp
             /\ file' = [file EXCEPT ![tmp'] = EmptyFile]
             /\ job' = [job EXCEPT ![p].fd = tmp', ![p].hdr = NoHdr]
             /\ Goto(p, "clearprs")
    <3>1. tmp' \in Inodes
      <4>1. FreeInodes # {} => (CHOOSE i \in FreeInodes : TRUE) \in FreeInodes
        OBVIOUS
      <4> QED
        BY <1>0, <2>3, <4>1 DEF FreeInodes
    <3>2. file'[tmp'] = EmptyFile
      BY <1>0, <2>3, <3>1
    <3>3. /\ job'[p].bad = j.bad /\ job'[p].pending = j.pending /\ job'[p].next = j.next
          /\ pc'[p] = "clearprs"
      BY <1>0, <2>3 DEF Job
    <3>4. Accounted'
      BY <3>2 DEF Accounted, EmptyFile
    <3> QED
      BY <1>0, <2>0, <3>2, <3>3, <3>4 DEF Strides
  <2> QED
    BY <1>7, <2>1, <2>2, <2>3 DEF Prepare
<1>8. CASE ClearProgress(p) \/ UnlinkProgress(p) \/ RemoveProgress(p)
           \/ RemoveOutputProgress(p)
  <2>1. prs' = NoPrs /\ UNCHANGED <<tmp, file, job>>
    BY <1>8 DEF ClearProgress, UnlinkProgress, RemoveProgress, RemoveOutputProgress
  <2>2. \/ pc[p] = "clearprs" /\ pc'[p] = "header"
        \/ pc[p] = "saveunlink" /\ pc'[p] = "saverename"
        \/ pc[p] = "removeprs" /\ pc'[p] = "verify"
        \/ pc[p] = "failprs" /\ pc'[p] = "unlock_failed"
    BY <1>0, <1>8 DEF ClearProgress, UnlinkProgress, RemoveProgress, RemoveOutputProgress
  <2>3. Ahead(p)' = Ahead(p)
    BY <2>1 DEF Ahead
  <2>4. Accounted'
    BY <2>1 DEF Accounted
  <2>5. Strides(p)'
    BY <1>0, <2>1, <2>2, <2>3 DEF Strides
  <2> QED
    BY <2>4, <2>5
<1>9. CASE WriteHeader(p)
  <2>0. pc[p] = "header" /\ UNCHANGED <<tmp, prs, file>>
    BY <1>9 DEF WriteHeader
  <2>1. CASE Goto(p, "fail") /\ UNCHANGED job
    BY <1>0, <2>0, <2>1, SameFiles DEF Strides
  <2>2. CASE /\ Keys \ UsedKeys # {} /\ Goto(p, "chunk")
             /\ LET h == [pw |-> j.pw, mode |-> j.mode, comp |-> j.comp,
                          dek |-> CHOOSE d \in Keys \ UsedKeys : TRUE, hash |-> 0]
                IN  job' = [job EXCEPT ![p].hdr = h, ![p].pending.hdr = h]
    <3> DEFINE d == CHOOSE k \in Keys \ UsedKeys : TRUE
               h == [pw |-> j.pw, mode |-> j.mode, comp |-> j.comp, dek |-> d, hash |-> 0]
    <3>1. d \in Keys
      BY <2>2
    <3>2. h \in Header
      <4>1. j.pw \in Passwords /\ j.mode \in Modes /\ j.comp \in BOOLEAN /\ 0 \in Versions
        BY <1>0, JobConstants DEF Versions, Job
      <4> QED
        BY <3>1, <4>1 DEF Header
    <3>3. h # NoHdr
      BY <3>2, Markers
    <3>4. job' = [job EXCEPT ![p].hdr = h, ![p].pending.hdr = h]
      BY <2>2
    <3> HIDE DEF h
    <3>5. /\ job'[p].hdr = h /\ job'[p].pending = [j.pending EXCEPT !.hdr = h]
          /\ job'[p].bad = j.bad /\ job'[p].next = j.next /\ job'[p].ver = j.ver
          /\ pc'[p] = "chunk"
      <4>1. job'[p] = [j EXCEPT !.hdr = h, !.pending = [j.pending EXCEPT !.hdr = h]]
        BY <1>0, <3>4 DEF Job
      <4> QED
        BY <1>0, <2>2, <4>1 DEF Job
    <3>6. /\ file[tmp] = EmptyFile /\ j.pending = EmptyFile /\ j.next = 1 /\ prs = NoPrs
      BY <1>0, <2>0 DEF Strides
    <3>7. job'[p].pending = [hdr |-> h, body |-> <<>>]
      BY <3>5, <3>6 DEF EmptyFile
    <3>8. Ahead(p)' = [hdr |-> h, body |-> <<>>]
      <4>1. <<>> \o <<>> = <<>>
        OBVIOUS
      <4> QED
        BY <2>0, <3>3, <3>6, <3>7, <4>1 DEF Ahead, Flushed, EmptyFile
    <3>9. Exact(Ahead(p)', 0, j.ver)
      <4>1. Len(<<>>) = 0 /\ 0 * PlainCells = 0 /\ 0 * Width(h.comp) = 0
        BY JobConstants DEF Width
      <4> QED
        BY <3>8, <4>1 DEF Exact, Holds
    <3>10. Strides(p)'
      BY <1>0, <2>0, <3>3, <3>5, <3>6, <3>8, <3>9 DEF Strides
    <3> QED
      BY <2>0, <3>10, SameFiles
  <2> QED
    BY <1>9, <2>1, <2>2 DEF WriteHeader
<1>10. CASE EncryptChunk(p)
  <2> DEFINE cells == Chunk(j.hdr.dek, j.mode, j.comp, j.next, j.ver)
             f == Ahead(p)
  <2>0. /\ pc[p] = "chunk" /\ j.next <= NChunks /\ j.fd = tmp /\ tmp # None /\ tmp \in Inodes
        /\ UNCHANGED <<tmp, prs>>
    BY <1>0, <1>10 DEF EncryptChunk, JobKnows, Writing, Encrypting
  <2>1. /\ j.hdr # NoHdr /\ j.hdr \in Header /\ j.next \in Nat \ {0} /\ j.ver \in Versions
        /\ j.comp \in BOOLEAN /\ j.mode \in Modes /\ j.hdr.dek \in Keys
    BY <1>0, <2>0, JobConstants DEF JobKnows, Encrypting, Job, Header
  <2>2. f \in File /\ f.hdr # NoHdr /\ f.hdr.dek = j.hdr.dek /\ f.hdr.mode = j.mode
        /\ Exact(f, j.next - 1, j.ver)
    <3>1. f \in File
      BY <1>files, <2>0, FlushedType DEF Ahead
    <3> QED
      <4>1. ~j.bad /\ f.hdr.mode = j.mode
        BY <1>0, <2>0 DEF Strides, JobKnows, Encrypting, Ahead, Flushed
      <4> HIDE DEF f
      <4> QED
        BY <1>0, <2>0, <3>1, <4>1 DEF Strides, f
  <2>3. cells \in Seq(Bytes)
    BY <2>1, ChunkType
  <2> DEFINE g == [hdr |-> f.hdr, body |-> f.body \o cells]
  <2>4. Exact(g, j.next, j.ver)
    <3>2. j.next - 1 \in Nat /\ (j.next - 1) + 1 = j.next
      BY <2>1
    <3> HIDE DEF f
    <3>3. cells = Chunk(f.hdr.dek, f.hdr.mode, j.comp, (j.next - 1) + 1, j.ver)
      BY <2>2, <3>2
    <3> HIDE DEF cells
    <3>1. /\ g.hdr = f.hdr
          /\ g.body = f.body \o Chunk(f.hdr.dek, f.hdr.mode, j.comp, (j.next - 1) + 1, j.ver)
      BY <3>3
    <3> HIDE DEF g
    <3> QED
      BY <2>1, <2>2, <3>1, <3>2, NextChunk
  <2> HIDE DEF cells, g
  <2>5. CASE Goto(p, "fail") /\ UNCHANGED <<file, job>>
    BY <1>0, <2>0, <2>5, SameFiles DEF Strides
  <2>6. ASSUME Ahead(p)' = g, job'[p].next = j.next + 1, job'[p].hdr = j.hdr,
               job'[p].ver = j.ver, job'[p].bad = j.bad, pc'[p] \in {"chunk", "save"},
               job'[p].pending.hdr \in {NoHdr, j.pending.hdr}
        PROVE  Strides(p)'
    <3>1. (j.next + 1) - 1 = j.next
      BY <2>1
    <3>2. g.hdr = f.hdr
      BY DEF g
    <3> QED
      BY <1>0, <2>0, <2>2, <2>4, <2>6, <3>1, <3>2 DEF Strides
  <2>7. CASE /\ file' = [file EXCEPT ![j.fd] = Flushed(@, j.pending)]
             /\ job' = [job EXCEPT ![p].pending = [EmptyFile EXCEPT !.body = cells],
                                   ![p].next = j.next + 1]
             /\ \E place \in {"chunk", "save"} : Goto(p, place)
    <3>1. file'[tmp] = f /\ file' = [file EXCEPT ![tmp] = f]
      BY <1>0, <2>0, <2>7 DEF Ahead
    <3>2. job'[p].pending = [hdr |-> NoHdr, body |-> cells]
      BY <1>0, <2>7 DEF EmptyFile
    <3>3. /\ job'[p].next = j.next + 1 /\ job'[p].hdr = j.hdr /\ job'[p].ver = j.ver
          /\ job'[p].bad = j.bad /\ pc'[p] \in {"chunk", "save"}
      BY <1>0, <2>7 DEF Job
    <3>4. Ahead(p)' = g
      BY <2>0, <3>1, <3>2 DEF Ahead, Flushed, g
    <3>5. Accounted'
      <4>1. f.body = file[tmp].body \o j.pending.body
            /\ (j.pending.hdr = NoHdr => f.hdr = file[tmp].hdr)
        BY DEF Ahead, Flushed
      <4> HIDE DEF f
      <4> QED
        BY <1>files, <2>0, <3>1, <4>1, Spilled
    <3> QED
      BY <2>6, <3>2, <3>3, <3>4, <3>5
  <2>8. CASE /\ job' = [job EXCEPT ![p].pending.body = @ \o cells, ![p].next = j.next + 1]
             /\ UNCHANGED file
             /\ \E place \in {"chunk", "save"} : Goto(p, place)
    <3>1. /\ job'[p].pending.hdr = j.pending.hdr
          /\ job'[p].pending.body = j.pending.body \o cells
      BY <1>0, <2>8 DEF Job, File
    <3>2. /\ job'[p].next = j.next + 1 /\ job'[p].hdr = j.hdr /\ job'[p].ver = j.ver
          /\ job'[p].bad = j.bad /\ pc'[p] \in {"chunk", "save"}
      BY <1>0, <2>8 DEF Job
    <3>3. file[tmp].body \o (j.pending.body \o cells) = (file[tmp].body \o j.pending.body) \o cells
      <4>1. file[tmp].body \in Seq(Bytes)
        BY <1>files, <2>0 DEF File
      <4> QED
        BY <1>files, <2>3, <4>1, Joined
    <3>4. Ahead(p)' = g
      BY <2>0, <2>8, <3>1, <3>3 DEF Ahead, Flushed, g
    <3> QED
      BY <2>0, <2>6, <2>8, <3>1, <3>2, <3>4, SameFiles
  <2> QED
    BY <1>10, <2>5, <2>7, <2>8 DEF EncryptChunk, cells
<1>11. CASE FlushForProgress(p)
  <2>0. /\ pc[p] = "save" /\ j.fd = tmp /\ tmp # None /\ tmp \in Inodes
        /\ UNCHANGED <<tmp, prs>>
    BY <1>0, <1>11 DEF FlushForProgress, JobKnows, Writing, Encrypting
  <2> DEFINE f == Ahead(p)
  <2>1. file' = [file EXCEPT ![tmp] = f] /\ file'[tmp] = f
    BY <1>0, <1>11, <2>0 DEF FlushForProgress, Ahead
  <2>2. f \in File
    BY <1>files, <2>0, FlushedType DEF Ahead
  <2>3. /\ job'[p].pending = EmptyFile /\ job'[p].next = j.next /\ job'[p].hdr = j.hdr
        /\ job'[p].ver = j.ver /\ job'[p].bad = j.bad /\ pc'[p] \in {"saveunlink", "chunk"}
    BY <1>0, <1>11 DEF FlushForProgress, Job
  <2>4. Accounted'
    <3>1. f.body = file[tmp].body \o j.pending.body
          /\ (j.pending.hdr = NoHdr => f.hdr = file[tmp].hdr)
      BY DEF Ahead, Flushed
    <3> HIDE DEF f
    <3> QED
      BY <1>files, <2>0, <2>1, <3>1, Spilled
  <2>5. Ahead(p)' = f
    BY <2>0, <2>1, <2>2, <2>3, FlushedNothing DEF Ahead
  <2>6. Strides(p)'
    <3> HIDE DEF f
    <3>1. f.hdr # NoHdr /\ f.hdr.dek = j.hdr.dek /\ Exact(f, j.next - 1, j.ver) /\ ~j.bad
      BY <1>0, <2>0 DEF Strides, f
    <3> QED
      BY <2>0, <2>3, <2>5, <3>1 DEF Strides, EmptyFile
  <2> QED
    BY <2>4, <2>6
<1>12. CASE FlushUnnoticed(p)
  <2>1. j.bad \/ FlushFails
    BY <1>12 DEF FlushUnnoticed
  <2> QED
    BY <1>0, <2>1 DEF Strides
<1>13. CASE RenameProgress(p)
  <2>0. /\ pc[p] = "saverename" /\ pc'[p] = "chunk" /\ tmp # None /\ tmp \in Inodes
        /\ UNCHANGED <<tmp, file, job>>
    BY <1>0, <1>13 DEF RenameProgress, JobKnows, Encrypting
  <2>1. Ahead(p)' = Ahead(p) /\ j.pending = EmptyFile
    BY <1>0, <2>0 DEF Ahead, Strides
  <2>2. Ahead(p) = file[tmp]
    BY <1>files, <2>0, <2>1, FlushedNothing DEF Ahead
  <2>3. Strides(p)'
    BY <1>0, <2>0, <2>1 DEF Strides, EmptyFile
  <2>4. CASE prs' = [chunks |-> j.next - 1, dek |-> j.hdr.dek, ver |-> j.ver]
    <3>1. prs'.chunks = j.next - 1 /\ prs'.ver = j.ver
      BY <2>4
    <3>2. Backed(file[tmp], j.next - 1, j.ver)
      BY <1>0, <2>0, <2>2, ExactIsBacked DEF Strides
    <3>3. Accounted'
      BY <2>0, <3>1, <3>2 DEF Accounted
    <3> QED
      BY <2>3, <3>3
  <2>5. CASE UNCHANGED prs
    BY <2>0, <2>3, <2>5, SameFiles
  <2> QED
    BY <1>13, <2>4, <2>5 DEF RenameProgress
<1>14. CASE Seal(p)
  <2> DEFINE f == Ahead(p)
             g == [f EXCEPT !.hdr.hash = j.ver]
  <2>0. /\ pc[p] = "chunk" /\ j.next > NChunks /\ j.fd = tmp /\ tmp # None /\ tmp \in Inodes
        /\ UNCHANGED <<tmp, prs>> /\ ~j.bad
    BY <1>0, <1>14 DEF Seal, JobKnows, Strides, Writing, Encrypting
  <2>1. /\ file' = [file EXCEPT ![tmp] = g] /\ file'[tmp] = g
    BY <1>0, <1>14, <2>0 DEF Seal, Ahead
  <2>2. /\ job'[p].pending = EmptyFile /\ job'[p].next = j.next /\ job'[p].hdr = j.hdr
        /\ job'[p].ver = j.ver /\ job'[p].bad = j.bad /\ pc'[p] = "close"
    BY <1>0, <1>14, <2>0 DEF Seal, Job
  <2>3. /\ f \in File /\ f.hdr # NoHdr /\ f.hdr \in Header /\ f.hdr.dek = j.hdr.dek
        /\ Exact(f, j.next - 1, j.ver)
    <3>1. f \in File
      BY <1>files, <2>0, FlushedType DEF Ahead
    <3> HIDE DEF f
    <3>2. f.hdr # NoHdr /\ f.hdr.dek = j.hdr.dek /\ Exact(f, j.next - 1, j.ver)
      BY <1>0, <2>0 DEF Strides, f
    <3> QED
      BY <3>1, <3>2 DEF File
  <2>4. f.body = file[tmp].body \o j.pending.body
        /\ (j.pending.hdr = NoHdr => f.hdr = file[tmp].hdr)
    BY DEF Ahead, Flushed
  <2> HIDE DEF f
  <2>5. j.ver \in Versions /\ j.next = NChunks + 1
    BY <1>0, <2>0, JobConstants DEF Job
  <2>6. /\ g \in File /\ g.hdr \in Header /\ Alike(g.hdr, f.hdr) /\ g.body = f.body
    BY <2>3, <2>5 DEF File, Header, Alike
  <2> HIDE DEF g
  <2>7. Exact(g, j.next - 1, j.ver)
    BY <2>3, <2>6, SameChunks DEF Exact, Alike
  <2>8. Ahead(p)' = g
    BY <2>0, <2>1, <2>2, <2>6, FlushedNothing DEF Ahead
  <2>9. Strides(p)'
    BY <1>0, <2>0, <2>2, <2>3, <2>5, <2>6, <2>7, <2>8, Markers DEF Strides, EmptyFile, Alike
  <2>10. Accounted'
    <3>1. j.pending.hdr = NoHdr =>
            Alike(g.hdr, file[tmp].hdr) /\ (file[tmp].hdr = NoHdr => g.hdr = NoHdr)
      BY <2>3, <2>4, <2>6
    <3>2. g.body = file[tmp].body \o j.pending.body
      BY <2>4, <2>6
    <3> QED
      BY <1>files, <2>0, <2>1, <3>1, <3>2, SpilledAlike
  <2> QED
    BY <2>9, <2>10
<1>15. CASE Close(p)
  <2>0. /\ pc[p] = "close" /\ j.fd = tmp /\ tmp # None /\ tmp \in Inodes
        /\ UNCHANGED <<tmp, prs>>
    BY <1>0, <1>15 DEF Close, JobKnows, Writing, Encrypting
  <2>1. /\ job'[p].pending = j.pending /\ job'[p].next = j.next /\ job'[p].hdr = j.hdr
        /\ job'[p].ver = j.ver /\ job'[p].bad = j.bad
    BY <1>0, <1>15 DEF Close, Job
  <2>2. j.pending = EmptyFile /\ j.next = NChunks + 1
    BY <1>0, <2>0 DEF Strides
  <2>3. CASE pc'[p] = "fail" /\ UNCHANGED file
    BY <1>0, <2>0, <2>1, <2>3, SameFiles DEF Strides
  <2>4. CASE Goto(p, "removeprs") /\ file' = [file EXCEPT ![tmp].body = Append(@, Foot)]
    <3> DEFINE f == file[tmp]
               g == [f EXCEPT !.body = Append(@, Foot)]
    <3>1. f \in File /\ f.body \in Seq(Bytes) /\ Foot \in Bytes
      BY <1>files, <2>0 DEF File, Bytes
    <3>2. file' = [file EXCEPT ![tmp] = g] /\ file'[tmp] = g
      BY <1>0, <2>0, <2>4
    <3>3. Append(f.body, Foot) = f.body \o <<Foot>> /\ <<Foot>> \in Seq(Bytes)
      BY <3>1
    <3>4. g.hdr = f.hdr /\ g.body = f.body \o <<Foot>>
      BY <3>1, <3>3 DEF File
    <3>5. Ahead(p) = f
      BY <2>2, <3>1, FlushedNothing DEF Ahead
    <3>6. f.hdr # NoHdr /\ f.hdr.dek = j.hdr.dek /\ Exact(f, NChunks, j.ver)
      <4>1. j.next - 1 = NChunks
        BY <2>2, JobConstants
      <4> HIDE DEF f
      <4> QED
        BY <1>0, <2>0, <3>5, <4>1 DEF Strides
    <3> HIDE DEF f, g
    <3>7. Backed(g, NChunks, j.ver)
      BY <3>1, <3>3, <3>4, <3>6, ExactIsBacked, Longer, JobConstants DEF Alike
    <3>8. Accounted'
      BY <2>0, <3>2, <3>3, <3>4, Spilled DEF f
    <3>9. pc'[p] = "removeprs"
      BY <1>0, <2>4
    <3>10. Strides(p)'
      BY <1>0, <2>0, <2>1, <3>2, <3>4, <3>6, <3>7, <3>9 DEF Strides
    <3> QED
      BY <3>8, <3>10
  <2> QED
    BY <1>0, <1>15, <2>0, <2>3, <2>4 DEF Close
<1>16. CASE Verify(p)
  <2>1. pc'[p] \in {"unlock", "fail"} /\ UNCHANGED <<tmp, prs, file, job>>
    BY <1>0, <1>16 DEF Verify
  <2> QED
    BY <1>0, <2>1, SameFiles DEF Strides
<1>17. CASE RemoveOutput(p)
  <2>1. /\ tmp' = None /\ UNCHANGED <<prs, file>> /\ pc'[p] = "failprs"
        /\ job'[p].bad = j.bad /\ job'[p].pending = EmptyFile
    BY <1>0, <1>17 DEF RemoveOutput, Job
  <2> QED
    BY <1>0, <2>1 DEF Strides, Accounted, EmptyFile
<1>18. CASE Unlock(p) \/ CommitUnlink(p)
  <2>1. pc'[p] \in {"commit", "dtor", "rename"} /\ UNCHANGED <<tmp, prs, file, job>>
    BY <1>0, <1>18 DEF Unlock, CommitUnlink
  <2> QED
    BY <1>0, <2>1, SameFiles DEF Strides
<1>19. CASE DropTemp(p) \/ CommitRename(p)
  <2>1. /\ tmp' = None
        /\ \/ pc'[p] = "dispose" /\ UNCHANGED job
           \/ pc'[p] = "idle" /\ job'[p] = IdleJob
        /\ UNCHANGED <<prs, file>>
    BY <1>0, <1>19 DEF DropTemp, CommitRename
  <2>2. ~IdleJob.bad /\ IdleJob.pending = EmptyFile /\ IdleJob.next = 1
    BY DEF IdleJob
  <2> QED
    BY <1>0, <2>1, <2>2 DEF Strides, Accounted, EmptyFile
<1>20. CASE Dispose(p) \/ Kill(p)
  <2>1. /\ pc'[p] = "idle" /\ job'[p] = IdleJob /\ UNCHANGED <<tmp, prs>>
        /\ UNCHANGED file \/ PartlyFlushed(p)
    BY <1>0, <1>20 DEF Dispose, Kill
  <2>2. ~IdleJob.bad /\ IdleJob.pending = EmptyFile /\ IdleJob.next = 1
    BY DEF IdleJob
  <2>3. Accounted'
    BY <1>0, <2>1, SameFiles, PartlyAccounted
  <2>4. Strides(p)'
    BY <2>1, <2>2 DEF Strides, EmptyFile
  <2> QED
    BY <2>3, <2>4
<1> QED
  BY <1>1, <1>2, <1>3, <1>4, <1>5, <1>6, <1>7, <1>8, <1>9, <1>10, <1>11, <1>12, <1>13, <1>14,
     <1>15, <1>16, <1>17, <1>18, <1>19, <1>20
  DEF Next, Run

LEMMA StrideInit ==
  ASSUME NEW p \in Procs, Procs = {p}, Init
  PROVE  StrideInv
<1>1. Accounted
  BY DEF Init, Accounted
<1>2. /\ pc[p] = "idle" /\ job[p].pending = EmptyFile /\ job[p].next = 1 /\ ~job[p].bad
      /\ job[p].pending.hdr = NoHdr
  BY DEF Init, IdleJob, EmptyFile
<1>3. Strides(p)
  BY <1>2 DEF Strides
<1> QED
  BY <1>1, <1>3 DEF StrideInv

\* The inductive invariant of jobs that do not overlap and whose flushes do not fail.
LEMMA StrideInvariant ==
  ASSUME NEW p \in Procs, Procs = {p}, FlushFails = FALSE
  PROVE  Spec => [](TypeOK /\ JobInv /\ StrideInv)
<1>1. Init => TypeOK /\ JobInv /\ StrideInv
  BY InitInv, StrideInit
<1>2. TypeOK /\ JobInv /\ StrideInv /\ [Next]_vars => TypeOK' /\ JobInv' /\ StrideInv'
  BY TypeStep, JobInvStep, StrideStep
<1> QED
  BY <1>1, <1>2, PTL DEF Spec

\* Nothing that can be told to be uncompressed has a compressed piece in it.
LEMMA NotMixed ==
  ASSUME NEW f \in File, NEW n \in Nat, NEW v, Uncompressed(f), Backed(f, n, v)
  PROVE  Holds(f.body, f.hdr, n, v)
<1>1. f.body \in Seq(Bytes) /\ Len(f.body) \in Nat
  BY DEF File
<1>2. ~Mixed(f.body, n * PlainCells)
  <2>1. n * PlainCells \in Nat
    BY Strided
  <2> QED
    BY <1>1, <2>1 DEF Uncompressed, Mixed
<1> QED
  BY <1>2 DEF Uncompressed, Backed

\* A checkpoint that would authenticate against the container beside it is backed, chunk
\* by chunk, by the ciphertext of the source version it is bound to, however often the
\* job is killed and resumed, wherever the kill cuts the file, and for sources of any
\* length: "the file on disk holds at least what .prs accounts for" (FileEncryptor.cpp,
\* lines 2669 and 2672).  The hypothesis on flushes is what the first of those lines
\* takes for granted: where they can fail the statement is false.
THEOREM CheckpointsAreBacked ==
  ASSUME NEW p \in Procs, Procs = {p}, FlushFails = FALSE
  PROVE  Spec => []CheckpointBacked
<1>1. TypeOK /\ StrideInv => CheckpointBacked
  <2> SUFFICES ASSUME TypeOK, StrideInv, tmp # None, prs # NoPrs,
                      Uncompressed(file[tmp]), file[tmp].hdr.dek = prs.dek
               PROVE  Holds(file[tmp].body, file[tmp].hdr, prs.chunks, prs.ver)
    BY DEF CheckpointBacked
  <2>1. file[tmp] \in File /\ prs.chunks \in Nat
    BY DEF TypeOK, Progress
  <2>2. Backed(file[tmp], prs.chunks, prs.ver)
    BY DEF StrideInv, Accounted, Uncompressed
  <2> QED
    BY <2>1, <2>2, NotMixed
<1> QED
  BY <1>1, StrideInvariant, PTL

\* A job that reaches the self-verification with a container nothing in which is
\* compressed passes it, resumed or not (main.cpp, line 3045): the truncation of a
\* resumed container to what the checkpoint accounts for (FileEncryptor.cpp, line 2399)
\* leaves exactly the chunks already encrypted.
THEOREM PlainResumesAreSeamless ==
  ASSUME NEW p \in Procs, Procs = {p}, FlushFails = FALSE
  PROVE  Spec => []PlainResumeIsSeamless
<1>1. TypeOK /\ JobInv /\ StrideInv => PlainResumeIsSeamless
  <2> SUFFICES ASSUME TypeOK, JobInv, StrideInv, pc[p] = "verify",
                      tmp # None => Uncompressed(file[tmp])
               PROVE  Verifies(p)
    BY DEF PlainResumeIsSeamless
  <2>1. /\ tmp # None /\ src # 0 /\ job[p].ver = src /\ file[tmp].hdr.hash = src
    BY DEF JobInv, JobKnows, Encrypting, Writing
  <2>2. file[tmp] \in File /\ NChunks \in Nat
    BY <2>1, JobConstants DEF TypeOK
  <2>3. file[tmp].hdr.dek = job[p].hdr.dek /\ Backed(file[tmp], NChunks, src)
    BY <2>1 DEF StrideInv, Strides
  <2>4. Holds(file[tmp].body, file[tmp].hdr, NChunks, src)
    BY <2>1, <2>2, <2>3, NotMixed
  <2> QED
    BY <2>1, <2>3, <2>4 DEF Verifies, Decrypts, Uncompressed
<1> QED
  BY <1>1, StrideInvariant, PTL
=============================================================================
