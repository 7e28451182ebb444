--------------------------- MODULE DecryptJobProofs ---------------------------
(***************************************************************************)
(* What holds of decryptions and previews of a container for any number of *)
(* processes, passwords, chunks, versions and faults.                      *)
(***************************************************************************)
EXTENDS DecryptJob, SequenceTheorems, TLAPS

(***************************************************************************)
(* Texts: sequences of plaintext chunks.                                   *)
(***************************************************************************)
Cell == (Versions \X Indexes) \cup {Zero}

\* What is written out of a buffer is a beginning of it.
LEMMA SpillFacts ==
  ASSUME NEW t \in Text, NEW b \in Text, NEW n \in 0..Len(b)
  PROVE  /\ t \o SubSeq(b, 1, n) \in Text
         /\ Len(t \o SubSeq(b, 1, n)) = Len(t) + n
         /\ Len(t \o b) = Len(t) + Len(b)
         /\ \A k \in 1..(Len(t) + n) : (t \o SubSeq(b, 1, n))[k] = (t \o b)[k]
<1>1. t \in Seq(Cell) /\ b \in Seq(Cell)
  BY DEF Text, Cell
<1>2. \A k \in 1..n : b[k] \in Cell
  BY <1>1, ElementOfSeq, LenProperties
<1>3. /\ SubSeq(b, 1, n) \in Seq(Cell) /\ Len(SubSeq(b, 1, n)) = n
      /\ \A k \in 1..n : SubSeq(b, 1, n)[k] = b[k]
  <2>1. n \in Nat /\ n \in Int
    BY <1>1, LenProperties
  <2> QED
    BY <1>2, <2>1, SubSeqProperties
<1>4. /\ t \o b \in Seq(Cell) /\ Len(t \o b) = Len(t) + Len(b)
      /\ \A k \in 1..(Len(t) + Len(b)) : (t \o b)[k] = IF k <= Len(t) THEN t[k] ELSE b[k - Len(t)]
  BY <1>1, ConcatProperties
<1>5. /\ t \o SubSeq(b, 1, n) \in Seq(Cell) /\ Len(t \o SubSeq(b, 1, n)) = Len(t) + n
      /\ \A k \in 1..(Len(t) + n) :
           (t \o SubSeq(b, 1, n))[k] = IF k <= Len(t) THEN t[k] ELSE SubSeq(b, 1, n)[k - Len(t)]
  BY <1>1, <1>3, ConcatProperties
<1>6. Len(t) \in Nat /\ Len(b) \in Nat
  BY <1>1, LenProperties
<1>7. \A k \in 1..(Len(t) + n) : (t \o SubSeq(b, 1, n))[k] = (t \o b)[k]
  <2> SUFFICES ASSUME NEW k \in 1..(Len(t) + n)
               PROVE  (t \o SubSeq(b, 1, n))[k] = (t \o b)[k]
    OBVIOUS
  <2>1. k \in 1..(Len(t) + Len(b))
    BY <1>6
  <2>2. CASE k <= Len(t)
    BY <1>4, <1>5, <2>1, <2>2
  <2>3. CASE ~(k <= Len(t))
    <3>1. k - Len(t) \in 1..n
      BY <1>6, <2>3
    <3> QED
      BY <1>3, <1>4, <1>5, <2>1, <2>3, <3>1
  <2> QED
    BY <2>2, <2>3
<1> QED
  BY <1>4, <1>5, <1>7 DEF Text, Cell

\* All of it written out.
LEMMA SpillAll ==
  ASSUME NEW t, NEW b \in Text
  PROVE  SubSeq(b, 1, Len(b)) = b
<1>1. b \in Seq(Cell)
  BY DEF Text, Cell
<1> QED
  BY <1>1, SubSeqFull

LEMMA AppendFacts ==
  ASSUME NEW t \in Text, NEW b \in Text, NEW c \in Cell
  PROVE  /\ Append(b, c) \in Text /\ <<c>> \in Text /\ Len(<<c>>) = 1
         /\ Len(Append(b, c)) = Len(b) + 1
         /\ Append(b, c)[Len(b) + 1] = c
         /\ \A k \in 1..Len(b) : Append(b, c)[k] = b[k]
         /\ t \o Append(b, c) = Append(t \o b, c)
         /\ t \o <<c>> = Append(t, c)
<1>1. t \in Seq(Cell) /\ b \in Seq(Cell)
  BY DEF Text, Cell
<1>2. Append(b, c) \in Seq(Cell) /\ <<c>> \in Seq(Cell) /\ Len(<<c>>) = 1
  BY <1>1
<1>3. Len(Append(b, c)) = Len(b) + 1 /\ Append(b, c)[Len(b) + 1] = c
      /\ \A k \in 1..Len(b) : Append(b, c)[k] = b[k]
  BY <1>1, AppendProperties
<1>4. Append(b, c) = b \o <<c>> /\ Append(t, c) = t \o <<c>>
  BY <1>1, AppendIsConcat
<1>5. t \o b \in Seq(Cell)
  BY <1>1, ConcatProperties
<1>6. Append(t \o b, c) = (t \o b) \o <<c>>
  BY <1>5, AppendIsConcat
<1>7. (t \o b) \o <<c>> = t \o (b \o <<c>>)
  BY <1>1, <1>2, ConcatAssociative
<1> QED
  BY <1>2, <1>3, <1>4, <1>6, <1>7 DEF Text, Cell

\* Cutting a text back gives exactly that many chunks, its own or zeros.
LEMMA TruncatedFacts ==
  ASSUME NEW t \in Text, NEW n \in Nat
  PROVE  /\ Truncated(t, n) \in Text /\ Len(Truncated(t, n)) = n
         /\ \A k \in 1..n : Truncated(t, n)[k] = IF k <= Len(t) THEN t[k] ELSE Zero
<1>1. t \in Seq(Cell)
  BY DEF Text, Cell
<1>2. \A k \in 1..n : (IF k <= Len(t) THEN t[k] ELSE Zero) \in Cell
  BY <1>1, LenProperties, ElementOfSeq DEF Cell
<1>3. Truncated(t, n) \in [1..n -> Cell]
  BY <1>2 DEF Truncated
<1>4. Truncated(t, n) \in Seq(Cell) /\ Len(Truncated(t, n)) = n
  BY <1>3
<1> QED
  BY <1>4 DEF Truncated, Text, Cell
-----------------------------------------------------------------------------
(***************************************************************************)
(* Types, and who has the lock.                                            *)
(***************************************************************************)
LEMMA Basics ==
  /\ NChunks \in Nat \ {0} /\ 1 \in Versions /\ 1 \in Indexes
  /\ <<>> \in Text /\ None \notin Text /\ None \notin Container
  /\ None \notin Progress /\ None \notin Output
  /\ IdleJob \in Job
<1>1. NChunks \in Nat \ {0} /\ 1 \in Versions /\ 1 \in Indexes
  BY DecryptConstants DEF Versions, Indexes
<1>2. <<>> \in Text
  BY DEF Text
<1>3. /\ None \notin Text /\ None \notin Container
      /\ None \notin Progress /\ None \notin Output
  BY Markers
<1>4. (CHOOSE w \in Passwords : TRUE) \in Passwords
  BY DecryptConstants
<1>5. IdleJob \in Job
  BY <1>1, <1>2, <1>4 DEF IdleJob, Job
<1> QED
  BY <1>1, <1>2, <1>3, <1>5

\* A chunk that is accepted is one of the container's version.
LEMMA ChunkType ==
  ASSUME NEW p \in Procs, TypeOK, job[p].ctr # None, job[p].next <= NChunks
  PROVE  /\ <<job[p].ctr.ver, job[p].next>> \in Cell /\ Zero \in Cell
         /\ job[p].next \in Indexes /\ job[p].next + 1 \in 1..(NChunks + 1)
<1>1. job[p] \in Job
  BY DEF TypeOK
<1>2. job[p].ctr.ver \in Versions /\ job[p].next \in 1..(NChunks + 1)
  BY <1>1 DEF Job, Container
<1> QED
  BY <1>2, Basics DEF Cell, Indexes

LEMMA SpilledType ==
  ASSUME NEW p \in Procs, TypeOK, prt # None, NEW n \in 0..Len(job[p].pending), Spilled(p, n)
  PROVE  prt' \in Text
<1>1. prt \in Text /\ job[p].pending \in Text
  BY DEF TypeOK, Job
<1> QED
  BY <1>1, SpillFacts DEF Spilled

\* A job alone does a step: the files, the lock and where the job goes have their types,
\* and the record of the job has.
Typed(p) ==
  /\ prt' \in Text \cup {None}
  /\ prs' \in Progress \cup {None}
  /\ out' \in Output \cup {None}
  /\ lock' \in Procs \cup {Free, Stale}
  /\ ctr' \in Container \cup {None} /\ made' = made
  /\ previewed' \in BOOLEAN
  /\ \E place \in Places, j \in Job :
       pc' = [pc EXCEPT ![p] = place] /\ job' = [job EXCEPT ![p] = j]
  /\ faults' \in 0..MaxFaults

LEMMA TypedIsTypeOK ==
  ASSUME NEW p \in Procs, TypeOK, Typed(p)
  PROVE  TypeOK'
  BY DEF TypeOK, Typed

LEMMA FaultType ==
  ASSUME TypeOK, UNCHANGED faults \/ Fault
  PROVE  faults' \in 0..MaxFaults
  BY DecryptConstants DEF TypeOK, Fault

\* The chunk that is taken.
LEMMA DecryptChunkType ==
  ASSUME NEW p \in Procs, TypeOK, Held(p), DecryptChunk(p)
  PROVE  Typed(p)
<1> DEFINE j == job[p]
           text == <<j.ctr.ver, j.next>>
<1>1. /\ j \in Job /\ j.ctr # None /\ j.next <= NChunks /\ pc[p] = "chunk"
      /\ j.pending \in Text /\ j.hashed \in Text
  BY DEF TypeOK, Held, DecryptChunk, Job
<1>2. text \in Cell /\ Zero \in Cell /\ j.next + 1 \in 1..(NChunks + 1)
  BY <1>1, ChunkType
<1>3. faults' \in 0..MaxFaults
  BY FaultType DEF DecryptChunk
<1>4. prt' \in Text \cup {None}
  <2>1. Len(j.pending) \in 0..Len(j.pending)
    BY <1>1 DEF Text
  <2>2. prt' = prt \/ (prt # None /\ Spilled(p, Len(j.pending)))
    BY DEF DecryptChunk
  <2> QED
    BY <2>1, <2>2, SpilledType DEF TypeOK
<1>5. \E place \in Places : pc' = [pc EXCEPT ![p] = place]
  BY DEF DecryptChunk, Goto, Places
<1>6. \E r \in Job : job' = [job EXCEPT ![p] = r]
  <2>1. CASE UNCHANGED job
    <3>1. job = [job EXCEPT ![p] = j]
      BY DEF TypeOK
    <3> QED
      BY <1>1, <2>1, <3>1
  <2>2. CASE ~UNCHANGED job
    <3>1. PICK c \in Cell :
            \/ job' = [job EXCEPT ![p].pending = <<c>>, ![p].next = @ + 1,
                                  ![p].hashed = Append(@, c)]
            \/ job' = [job EXCEPT ![p].pending = Append(@, c), ![p].next = @ + 1,
                                  ![p].hashed = Append(@, c)]
      <4>1. CASE job' = [job EXCEPT ![p].pending = <<text>>, ![p].next = @ + 1,
                                    ![p].hashed = Append(@, text)]
        BY <1>2, <4>1
      <4>2. CASE job' = [job EXCEPT ![p].pending = Append(@, text), ![p].next = @ + 1,
                                    ![p].hashed = Append(@, text)]
        BY <1>2, <4>2
      <4>3. CASE job' = [job EXCEPT ![p].pending = <<Zero>>, ![p].next = @ + 1,
                                    ![p].hashed = Append(@, Zero)]
        BY <1>2, <4>3
      <4>4. CASE job' = [job EXCEPT ![p].pending = Append(@, Zero), ![p].next = @ + 1,
                                    ![p].hashed = Append(@, Zero)]
        BY <1>2, <4>4
      <4> QED
        BY <2>2, <4>1, <4>2, <4>3, <4>4 DEF DecryptChunk
    <3>2. Append(j.pending, c) \in Text /\ Append(j.hashed, c) \in Text /\ <<c>> \in Text
      BY <1>1, Basics, AppendFacts
    <3>3. /\ [j EXCEPT !.pending = <<c>>, !.next = @ + 1, !.hashed = Append(@, c)] \in Job
          /\ [j EXCEPT !.pending = Append(@, c), !.next = @ + 1, !.hashed = Append(@, c)] \in Job
      BY <1>1, <1>2, <3>2 DEF Job
    <3>4. \/ job' = [job EXCEPT ![p] = [j EXCEPT !.pending = <<c>>, !.next = @ + 1,
                                                 !.hashed = Append(@, c)]]
          \/ job' = [job EXCEPT ![p] = [j EXCEPT !.pending = Append(@, c), !.next = @ + 1,
                                                 !.hashed = Append(@, c)]]
      BY <3>1 DEF TypeOK
    <3> QED
      BY <3>3, <3>4
  <2> QED
    BY <2>1, <2>2
<1> QED
  BY <1>3, <1>4, <1>5, <1>6 DEF Typed, TypeOK, DecryptChunk
\* The steps that leave the record of the job as it is.
LEMMA SameJob ==
  ASSUME NEW p \in Procs, TypeOK, UNCHANGED job
  PROVE  \E j \in Job : job' = [job EXCEPT ![p] = j]
<1>1. job = [job EXCEPT ![p] = job[p]] /\ job[p] \in Job
  BY DEF TypeOK
<1> QED
  BY <1>1

LEMMA IdleAgain ==
  ASSUME NEW p \in Procs, TypeOK, Finish(p)
  PROVE  \E place \in Places, j \in Job :
           pc' = [pc EXCEPT ![p] = place] /\ job' = [job EXCEPT ![p] = j]
  BY Basics DEF Finish, Goto, Places

\* What is left of the buffer when it is written out, whether or not that fails.
LEMMA WrittenType ==
  ASSUME NEW p \in Procs, TypeOK, prt # None \/ UNCHANGED prt,
         \/ UNCHANGED prt
         \/ Spilled(p, Len(job[p].pending))
         \/ \E n \in 0..(IF job[p].bad THEN 0 ELSE Len(job[p].pending)) : Spilled(p, n)
         \/ \E n \in 1..Len(job[p].pending) : Spilled(p, n)
  PROVE  prt' \in Text \cup {None}
<1>1. Len(job[p].pending) \in Nat
  <2>1. job[p].pending \in Text
    BY DEF TypeOK, Job
  <2> QED
    BY <2>1 DEF Text
<1>2. CASE UNCHANGED prt
  BY <1>2 DEF TypeOK
<1>3. CASE ~UNCHANGED prt
  <2>1. PICK n \in 0..Len(job[p].pending) : Spilled(p, n)
    BY <1>1, <1>3
  <2> QED
    BY <1>3, <2>1, SpilledType
<1> QED
  BY <1>2, <1>3

LEMMA StepTypes ==
  ASSUME NEW p \in Procs, TypeOK, Held(p), Start(p) \/ Run(p) \/ Kill(p)
  PROVE  Typed(p)
<1> DEFINE j == job[p]
<1> USE DEF Typed
<1>0. /\ j \in Job /\ pc[p] \in Places
      /\ j = [pw |-> j.pw, force |-> j.force, dispose |-> j.dispose, preview |-> j.preview,
              ctr |-> j.ctr, start |-> j.start, hashed |-> j.hashed, pending |-> j.pending,
              bad |-> j.bad, shown |-> j.shown, next |-> j.next]
  BY DEF TypeOK, Job
<1>1. CASE Start(p)
  <2>1. \E place \in Places : pc' = [pc EXCEPT ![p] = place]
    BY <1>1 DEF Start, Move, Goto, Places
  <2>2. \E r \in Job : job' = [job EXCEPT ![p] = r]
    <3>1. PICK w \in Passwords, f \in Forces, d \in BOOLEAN, v \in {FALSE, Previews} :
            job' = [job EXCEPT ![p] =
                 [IdleJob EXCEPT !.pw = w, !.force = f, !.dispose = d, !.preview = v]]
      BY <1>1 DEF Start
    <3>2. [IdleJob EXCEPT !.pw = w, !.force = f, !.dispose = d, !.preview = v] \in Job
      BY Basics, DecryptConstants DEF Job
    <3> QED
      BY <3>1, <3>2
  <2> QED
    BY <1>1, <2>1, <2>2 DEF Start, files, TypeOK
<1>2. CASE Open(p)
  <2>1. faults' \in 0..MaxFaults
    BY <1>2, FaultType DEF Open
  <2>2. CASE Finish(p)
    BY <1>2, <2>1, <2>2, IdleAgain DEF Open, files, TypeOK
  <2>3. CASE ctr # None /\ job' = [job EXCEPT ![p].ctr = ctr]
             /\ Goto(p, IF job[p].preview THEN "resume" ELSE "lock")
    <3>1. [j EXCEPT !.ctr = ctr] \in Job
      BY <1>0, <2>3 DEF Job, TypeOK
    <3>2. job' = [job EXCEPT ![p] = [j EXCEPT !.ctr = ctr]]
      BY <2>3 DEF TypeOK
    <3> QED
      BY <1>2, <2>1, <2>3, <3>1, <3>2 DEF Open, files, TypeOK, Goto, Places
  <2> QED
    BY <1>2, <2>2, <2>3 DEF Open
<1>3. CASE Lock(p)
  <2>1. \E place \in Places, r \in Job :
           pc' = [pc EXCEPT ![p] = place] /\ job' = [job EXCEPT ![p] = r]
    BY <1>3, IdleAgain, SameJob DEF Lock, Goto, Places
  <2> QED
    BY <1>3, <2>1 DEF Lock, TypeOK
<1>4. CASE Resume(p)
  <2> DEFINE n == IF prt # None /\ Authentic(j) THEN prs.chunks ELSE 0
  <2>1. n \in 0..NChunks /\ n + 1 \in 1..(NChunks + 1)
    BY Basics DEF Authentic, TypeOK, Progress, Indexes
  <2>2. [j EXCEPT !.start = n, !.next = n + 1] \in Job
    BY <1>0, <2>1 DEF Job
  <2>3. job' = [job EXCEPT ![p] = [j EXCEPT !.start = n, !.next = n + 1]]
    BY <1>4 DEF Resume, TypeOK
  <2>4. \E place \in Places : pc' = [pc EXCEPT ![p] = place]
    BY <1>4 DEF Resume, Move, Goto, Places
  <2> QED
    BY <1>4, <2>2, <2>3, <2>4 DEF Resume, files, TypeOK
<1>5. CASE Prepare(p)
  <2>1. faults' \in 0..MaxFaults
    BY <1>5, FaultType DEF Prepare
  <2>2. prt' \in Text \cup {None}
    <3>1. j.start \in Nat
      BY <1>0, Basics DEF Job
    <3> QED
      BY <1>5, <3>1, Basics, TruncatedFacts DEF Prepare, TypeOK
  <2>3. \E place \in Places : pc' = [pc EXCEPT ![p] = place]
    BY <1>5 DEF Prepare, Goto, Places
  <2> QED
    BY <1>5, <2>1, <2>2, <2>3, SameJob DEF Prepare, TypeOK
<1>6. CASE ClearProgress(p)
  BY <1>6, SameJob DEF ClearProgress, Move, Goto, Places, TypeOK
<1>7. CASE CatchUp(p)
  <2>1. prt \in Text
    BY <1>7 DEF CatchUp, Move, Held, Owner, PreviewPlaces, TypeOK
  <2>2. [j EXCEPT !.hashed = prt] \in Job
    BY <1>0, <2>1 DEF Job
  <2>3. job' = [job EXCEPT ![p] = [j EXCEPT !.hashed = prt]]
    BY <1>7 DEF CatchUp, TypeOK
  <2> QED
    BY <1>7, <2>2, <2>3 DEF CatchUp, Move, Goto, Places, files, TypeOK
<1>8. CASE DecryptChunk(p)
  BY <1>8, DecryptChunkType
<1>9. CASE FlushForProgress(p)
  <2>1. faults' \in 0..MaxFaults
    BY <1>9, FaultType DEF FlushForProgress
  <2>2. prt # None
    BY <1>9 DEF FlushForProgress, Held, Owner, PreviewPlaces, Writing
  <2>3. prt' \in Text \cup {None}
    BY <1>9, <2>2, WrittenType DEF FlushForProgress
  <2>4. [j EXCEPT !.pending = <<>>] \in Job /\ [j EXCEPT !.pending = <<>>, !.bad = TRUE] \in Job
    BY <1>0, Basics DEF Job
  <2>5. \/ job' = [job EXCEPT ![p] = [j EXCEPT !.pending = <<>>]]
        \/ job' = [job EXCEPT ![p] = [j EXCEPT !.pending = <<>>, !.bad = TRUE]]
    BY <1>9 DEF FlushForProgress, TypeOK
  <2>6. \E place \in Places : pc' = [pc EXCEPT ![p] = place]
    BY <1>9 DEF FlushForProgress, Goto, Places
  <2>7. \E r \in Job : job' = [job EXCEPT ![p] = r]
    BY <2>4, <2>5
  <2> QED
    BY <1>9, <2>1, <2>3, <2>6, <2>7 DEF FlushForProgress, TypeOK
<1>10. CASE UnlinkProgress(p)
  BY <1>10, SameJob DEF UnlinkProgress, Move, Goto, Places, TypeOK
<1>11. CASE RenameProgress(p)
  <2>1. faults' \in 0..MaxFaults
    BY <1>11, FaultType DEF RenameProgress
  <2>2. prs' \in Progress \cup {None}
    <3>1. pc[p] = "saverename" /\ j.next > 1 /\ j.ctr \in Container
      BY <1>0, <1>11 DEF RenameProgress, Move, Held, Job
    <3>2. j.next - 1 \in Indexes /\ j.ctr.ver \in Versions /\ j.pw \in Passwords
      BY <1>0, <3>1, Basics DEF Job, Container, Indexes
    <3>3. [chunks |-> j.next - 1, ver |-> j.ctr.ver, pw |-> j.pw] \in Progress
      BY <3>2 DEF Progress
    <3> QED
      BY <1>11, <3>3 DEF RenameProgress, TypeOK
  <2>3. previewed' \in BOOLEAN
    BY <1>0, <1>11 DEF RenameProgress, TypeOK, Job
  <2>4. \E place \in Places : pc' = [pc EXCEPT ![p] = place]
    BY <1>11 DEF RenameProgress, Move, Goto, Places
  <2> QED
    BY <1>11, <2>1, <2>2, <2>3, <2>4, SameJob DEF RenameProgress, TypeOK
<1>12. CASE Verify(p)
  BY <1>12, SameJob DEF Verify, Goto, Places, files, TypeOK
<1>13. CASE Close(p)
  <2>1. faults' \in 0..MaxFaults
    BY <1>13, FaultType DEF Close
  <2>2. prt # None
    BY <1>13 DEF Close, Move, Held, Owner, PreviewPlaces, Writing
  <2>3. prt' \in Text \cup {None}
    BY <1>13, <2>2, WrittenType DEF Close
  <2>4. [j EXCEPT !.pending = <<>>, !.bad = FALSE] \in Job
    BY <1>0, Basics DEF Job
  <2>5. job' = [job EXCEPT ![p] = [j EXCEPT !.pending = <<>>, !.bad = FALSE]]
    BY <1>13 DEF Close, TypeOK
  <2>6. \E place \in Places : pc' = [pc EXCEPT ![p] = place]
    BY <1>13 DEF Close, Move, Goto, Places
  <2> QED
    BY <1>13, <2>1, <2>3, <2>4, <2>5, <2>6 DEF Close, TypeOK
<1>14. CASE RemoveProgress(p)
  BY <1>14, SameJob DEF RemoveProgress, Move, Goto, Places, TypeOK
<1>15. CASE UnlinkOutput(p)
  BY <1>15, SameJob DEF UnlinkOutput, Move, Goto, Places, TypeOK
<1>16. CASE RenameOutput(p)
  <2>1. faults' \in 0..MaxFaults
    BY <1>16, FaultType DEF RenameOutput
  <2>2. [body |-> prt, ver |-> j.ctr.ver, fmt |-> j.ctr.fmt, forced |-> j.force] \in Output
    <3>1. prt \in Text /\ j.ctr \in Container
      BY <1>0, <1>16 DEF RenameOutput, Held, Owner, PreviewPlaces, Writing, TypeOK, Job
    <3>2. /\ j.ctr.ver \in Versions /\ j.force \in BOOLEAN
          /\ j.ctr.fmt \in {"v2", "v3", "v6"}
      BY <1>0, <3>1, DecryptConstants DEF Job, Container
    <3>3. j.ctr.fmt \in Formats
      BY <3>1 DEF Container
    <3> QED
      BY <3>1, <3>2, <3>3 DEF Output
  <2>3. \E place \in Places : pc' = [pc EXCEPT ![p] = place]
    BY <1>16 DEF RenameOutput, Goto, Places
  <2> QED
    BY <1>16, <2>1, <2>2, <2>3, SameJob DEF RenameOutput, TypeOK
<1>17. CASE WipePartial(p)
  BY <1>17, SameJob DEF WipePartial, Move, Goto, Places, TypeOK
<1>18. CASE RemoveFailedProgress(p)
  BY <1>18, SameJob DEF RemoveFailedProgress, Move, Goto, Places, TypeOK
<1>19. CASE Unlock(p)
  BY <1>19, IdleAgain DEF Unlock, TypeOK
<1>20. CASE Dispose(p) \/ FailPrint(p)
  BY <1>20, FaultType, IdleAgain DEF Dispose, FailPrint, files, TypeOK
<1>21. CASE PrintChunk(p)
  <2>1. /\ Append(j.shown, <<j.ctr.ver, j.next>>) \in Text /\ Append(j.shown, Zero) \in Text
        /\ j.next + 1 \in 1..(NChunks + 1)
    <3>1. j.ctr # None /\ j.next <= NChunks /\ j.shown \in Text
      BY <1>0, <1>21 DEF PrintChunk, Held, Job
    <3> QED
      BY <3>1, ChunkType, AppendFacts
  <2>2. CASE Finish(p)
    BY <1>21, <2>2, IdleAgain DEF PrintChunk, files, TypeOK
  <2>3. CASE ~Finish(p)
    <3>1. /\ [j EXCEPT !.shown = Append(@, <<j.ctr.ver, j.next>>), !.next = @ + 1] \in Job
          /\ [j EXCEPT !.shown = Append(@, Zero), !.next = @ + 1] \in Job
      BY <1>0, <2>1 DEF Job
    <3>2. \/ job' = [job EXCEPT ![p] =
                       [j EXCEPT !.shown = Append(@, <<j.ctr.ver, j.next>>), !.next = @ + 1]]
          \/ job' = [job EXCEPT ![p] = [j EXCEPT !.shown = Append(@, Zero), !.next = @ + 1]]
      BY <1>21, <2>3 DEF PrintChunk, TypeOK
    <3>3. \E place \in Places : pc' = [pc EXCEPT ![p] = place]
      BY <1>21, <2>3 DEF PrintChunk, Goto, Places
    <3>4. \E r \in Job : job' = [job EXCEPT ![p] = r]
      BY <3>1, <3>2
    <3> QED
      BY <1>21, <3>3, <3>4 DEF PrintChunk, files, TypeOK
  <2> QED
    BY <2>2, <2>3
<1>22. CASE EndPreview(p)
  BY <1>22, SameJob DEF EndPreview, Move, Goto, Places, files, TypeOK
<1>23. CASE Kill(p)
  <2>1. faults' \in 0..MaxFaults
    BY <1>23, FaultType DEF Kill
  <2>2. prt' \in Text \cup {None}
    BY <1>23, WrittenType DEF Kill
  <2> QED
    BY <1>23, <2>1, <2>2, IdleAgain DEF Kill, TypeOK
<1> QED
  BY <1>1, <1>2, <1>3, <1>4, <1>5, <1>6, <1>7, <1>8, <1>9, <1>10, <1>11, <1>12, <1>13, <1>14,
     <1>15, <1>16, <1>17, <1>18, <1>19, <1>20, <1>21, <1>22, <1>23 DEF Run
\* A step of one job leaves the others where they are, and with what the lock protects.
Apart(p) ==
  \A q \in Procs \ {p} :
    /\ pc'[q] = pc[q] /\ job'[q] = job[q]
    /\ Owner(q) => /\ UNCHANGED <<prt, out, lock>>
                   /\ prs' = prs \/ prs' = None \/ previewed'

LEMMA StepApart ==
  ASSUME NEW p \in Procs, TypeOK, Owns, Start(p) \/ Run(p) \/ Kill(p)
  PROVE  Apart(p)
<1>1. ASSUME NEW q \in Procs \ {p}
      PROVE  pc'[q] = pc[q] /\ job'[q] = job[q]
  <2>1. PICK place \in Places, j \in Job :
          pc' = [pc EXCEPT ![p] = place] /\ job' = [job EXCEPT ![p] = j]
    BY StepTypes DEF Owns, Typed
  <2> QED
    BY <1>1, <2>1 DEF TypeOK
<1>2. ASSUME NEW q \in Procs \ {p}, Owner(q)
      PROVE  UNCHANGED <<prt, out, lock>> /\ (prs' = prs \/ prs' = None \/ previewed')
  <2>1. lock = q /\ lock # p /\ lock \notin {Free, Stale}
    BY <1>2, DecryptConstants DEF Owns, Held
  <2>2. ~Owner(p)
    BY <2>1 DEF Owns, Held
  <2>3. pc[p] \in Places /\ Held(p)
    BY DEF TypeOK, Owns
  <2>4. CASE Start(p)
    BY <2>4 DEF Start, files
  <2>5. CASE Open(p)
    BY <2>5 DEF Open, files
  <2>6. CASE Lock(p)
    BY <2>1, <2>6 DEF Lock
  <2>7. CASE Resume(p)
    BY <2>7 DEF Resume, files
  <2>8. CASE Prepare(p) \/ ClearProgress(p) \/ CatchUp(p) \/ RemoveFailedProgress(p)
    BY <2>2, <2>3, <2>8 DEF Prepare, ClearProgress, CatchUp, RemoveFailedProgress, Move, Held,
       Owner, PreviewPlaces
  <2>9. CASE DecryptChunk(p) \/ FlushForProgress(p) \/ Verify(p) \/ Close(p)
    BY <2>2, <2>3, <2>9 DEF DecryptChunk, FlushForProgress, Verify, Close, Move, Held,
       Owner, PreviewPlaces, Writing
  <2>10. CASE RemoveProgress(p) \/ UnlinkOutput(p) \/ RenameOutput(p)
    BY <2>2, <2>3, <2>10 DEF RemoveProgress, UnlinkOutput, RenameOutput, Move, Held,
       Owner, PreviewPlaces, Writing
  <2>11. CASE WipePartial(p) \/ Unlock(p)
    BY <2>2, <2>3, <2>11 DEF WipePartial, Unlock, Move, Held, Owner, PreviewPlaces
  <2>12. CASE UnlinkProgress(p)
    BY <2>12 DEF UnlinkProgress
  <2>13. CASE RenameProgress(p)
    <3>1. job[p].preview
      BY <2>2, <2>13 DEF RenameProgress, Move, Owner, Writing
    <3> QED
      BY <2>13, <3>1 DEF RenameProgress
  <2>14. CASE PrintChunk(p) \/ FailPrint(p) \/ EndPreview(p)
    BY <2>14 DEF PrintChunk, FailPrint, EndPreview, files
  <2>15. CASE Dispose(p)
    BY <2>15 DEF Dispose
  <2>16. CASE Kill(p)
    <3>1. UNCHANGED prt
      BY <2>2, <2>3, <2>16 DEF Kill, Held, Owner, PreviewPlaces, Writing
    <3> QED
      BY <2>1, <2>16, <3>1 DEF Kill
  <2> QED
    BY <2>4, <2>5, <2>6, <2>7, <2>8, <2>9, <2>10, <2>11, <2>12, <2>13, <2>14, <2>15, <2>16
       DEF Run
<1> QED
  BY <1>1, <1>2 DEF Apart

LEMMA HeldByOthers ==
  ASSUME NEW p \in Procs, NEW q \in Procs \ {p}, Held(q), Apart(p)
  PROVE  Held(q)'
<1>1. pc'[q] = pc[q] /\ job'[q] = job[q]
  BY DEF Apart
<1>2. Owner(q)' <=> Owner(q)
  BY <1>1 DEF Owner
<1>3. Owner(q) => lock' = q /\ prt' = prt
  BY DEF Apart, Held
<1>4. pc[q] = "prepare" => Owner(q)
  BY DEF Held, Owner, PreviewPlaces
<1>5. /\ job'[q].preview /\ pc'[q] # "idle" => pc'[q] \in PreviewPlaces
      /\ ~job'[q].preview => pc'[q] # "print"
      /\ pc'[q] \notin {"idle", "open"} => job'[q].ctr # None
      /\ pc'[q] \in {"save", "saveunlink", "saverename"} => job'[q].next > 1
  BY <1>1 DEF Held
<1>6. Owner(q)' => lock' = q
  BY <1>2, <1>3
<1>7. Owner(q)' /\ pc'[q] \in Writing \cup {"clearprs", "catchup"} => prt' # None
  BY <1>1, <1>2, <1>3 DEF Held
<1>8. pc'[q] = "prepare" /\ job'[q].start > 0 => prt' # None
  BY <1>1, <1>3, <1>4 DEF Held
<1> QED
  BY <1>5, <1>6, <1>7, <1>8 DEF Held

\* A job that goes to a place, with what it has then.
LEMMA HeldItself ==
  ASSUME NEW p \in Procs, TypeOK, Owns, Start(p) \/ Run(p) \/ Kill(p)
  PROVE  Held(p)'
<1> DEFINE j == job[p]
<1>0. /\ Held(p) /\ pc \in [Procs -> Places] /\ job \in [Procs -> Job] /\ Typed(p)
      /\ pc[p] \in Places /\ j \in Job
  BY StepTypes DEF TypeOK, Owns
<1>1. CASE Start(p)
  <2>1. pc'[p] = "open"
    BY <1>0, <1>1 DEF Start, Move, Goto
  <2> QED
    BY <2>1 DEF Held, Owner, PreviewPlaces, Writing
<1>2. CASE pc'[p] = "idle"
  BY <1>2 DEF Held, Owner, Writing
<1>3. CASE Open(p)
  <2>1. CASE ctr # None /\ job' = [job EXCEPT ![p].ctr = ctr]
             /\ Goto(p, IF job[p].preview THEN "resume" ELSE "lock")
    <3>1. job'[p].preview = j.preview /\ job'[p].ctr # None
      BY <1>0, <2>1 DEF Job
    <3>2. pc'[p] = IF j.preview THEN "resume" ELSE "lock"
      BY <1>0, <2>1 DEF Goto
    <3> QED
      BY <3>1, <3>2 DEF Held, Owner, PreviewPlaces, Writing
  <2> QED
    BY <1>0, <1>2, <1>3, <2>1 DEF Open, Finish, Goto
<1>4. CASE Lock(p)
  <2>1. CASE Finish(p)
    BY <1>0, <1>2, <2>1 DEF Finish, Goto
  <2>2. CASE lock' = p /\ Goto(p, "resume") /\ UNCHANGED job
    <3>1. pc[p] = "lock" /\ ~j.preview /\ j.ctr # None
      BY <1>0, <1>4 DEF Lock, Held, PreviewPlaces
    <3> QED
      BY <1>0, <2>2, <3>1 DEF Goto, Held, Owner, PreviewPlaces, Writing
  <2> QED
    BY <1>4, <2>1, <2>2 DEF Lock
<1>5. CASE Resume(p)
  <2> DEFINE n == IF prt # None /\ Authentic(j) THEN prs.chunks ELSE 0
  <2>1. /\ job'[p].preview = j.preview /\ job'[p].ctr = j.ctr /\ job'[p].start = n
    BY <1>0, <1>5 DEF Resume, Job
  <2>2. pc'[p] = (IF j.preview THEN "print" ELSE "prepare") /\ UNCHANGED <<prt, lock>>
    BY <1>0, <1>5 DEF Resume, Move, Goto, files
  <2>3. pc[p] = "resume" /\ j.ctr # None /\ (~j.preview => lock = p)
    BY <1>0, <1>5 DEF Resume, Move, Held, Owner
  <2>4. n > 0 => prt # None
    OBVIOUS
  <2> QED
    BY <2>1, <2>2, <2>3, <2>4 DEF Held, Owner, PreviewPlaces, Writing
<1>6. CASE Prepare(p)
  <2>1. pc[p] = "prepare" /\ ~j.preview /\ j.ctr # None /\ lock = p
    BY <1>0, <1>6 DEF Prepare, Held, Owner, PreviewPlaces
  <2>2. pc'[p] = "unlock" \/ (pc'[p] \in {"catchup", "clearprs"} /\ prt' # None)
    <3>1. j.start \in Nat
      BY <1>0, Basics DEF Job
    <3> QED
      BY <1>0, <1>6, <3>1, Basics, TruncatedFacts DEF Prepare, Goto, TypeOK
  <2>3. job'[p] = j /\ lock' = lock
    BY <1>6 DEF Prepare
  <2> QED
    BY <2>1, <2>2, <2>3 DEF Held, Owner, PreviewPlaces, Writing
<1>7. CASE ClearProgress(p)
  BY <1>0, <1>7 DEF ClearProgress, Move, Goto, Held, Owner, PreviewPlaces, Writing
<1>8. CASE CatchUp(p)
  <2>1. job'[p].preview = j.preview /\ job'[p].ctr = j.ctr
    BY <1>0, <1>8 DEF CatchUp, Job
  <2> QED
    BY <1>0, <1>8, <2>1 DEF CatchUp, Move, Goto, files, Held, Owner, PreviewPlaces, Writing
<1>9. CASE DecryptChunk(p)
  <2>1. pc[p] = "chunk" /\ ~j.preview /\ j.ctr # None /\ lock = p /\ prt # None
    BY <1>0, <1>9 DEF DecryptChunk, Held, Owner, PreviewPlaces, Writing
  <2>2. \/ pc'[p] = "fail" /\ UNCHANGED <<job, prt>>
        \/ /\ pc'[p] \in {"chunk", "save"}
           /\ job'[p].preview = j.preview /\ job'[p].ctr = j.ctr /\ job'[p].next = j.next + 1
    BY <1>0, <1>9 DEF DecryptChunk, Goto, Job
  <2>3. prt' # None
    <3>1. Len(j.pending) \in 0..Len(j.pending)
      BY <1>0 DEF Job, Text
    <3> QED
      BY <1>9, <2>1, <3>1, SpilledType, Basics DEF DecryptChunk
  <2>4. j.next + 1 > 1
    BY <1>0, Basics DEF Job
  <2> QED
    BY <1>9, <2>1, <2>2, <2>3, <2>4 DEF DecryptChunk, Held, Owner, PreviewPlaces, Writing
<1>10. CASE FlushForProgress(p)
  <2>1. pc[p] = "save" /\ ~j.preview /\ j.ctr # None /\ lock = p /\ prt # None /\ j.next > 1
    BY <1>0, <1>10 DEF FlushForProgress, Held, Owner, PreviewPlaces, Writing
  <2>2. /\ pc'[p] \in {"saveunlink", "chunk"}
        /\ job'[p].preview = j.preview /\ job'[p].ctr = j.ctr /\ job'[p].next = j.next
    BY <1>0, <1>10 DEF FlushForProgress, Goto, Job
  <2>3. prt' # None
    <3>1. Len(j.pending) \in Nat
      BY <1>0 DEF Job, Text
    <3>2. PICK n \in 0..Len(j.pending) : Spilled(p, n)
      BY <1>10, <3>1 DEF FlushForProgress
    <3> QED
      BY <2>1, <3>2, SpilledType, Basics
  <2> QED
    BY <1>10, <2>1, <2>2, <2>3 DEF FlushForProgress, Held, Owner, PreviewPlaces, Writing
<1>11. CASE UnlinkProgress(p)
  BY <1>0, <1>11 DEF UnlinkProgress, Move, Goto, Held, Owner, PreviewPlaces, Writing
<1>12. CASE RenameProgress(p)
  <2>1. job'[p] = j /\ prt' = prt /\ lock' = lock
        /\ pc'[p] = IF j.preview THEN "print" ELSE "chunk"
    BY <1>0, <1>12 DEF RenameProgress, Move, Goto
  <2> QED
    BY <1>0, <1>12, <2>1 DEF RenameProgress, Move, Held, Owner, PreviewPlaces, Writing
<1>13. CASE Verify(p)
  <2>1. pc'[p] \in {"close", "fail"}
    BY <1>0, <1>13 DEF Verify, Goto
  <2> QED
    BY <1>0, <1>13, <2>1 DEF Verify, files, Held, Owner, PreviewPlaces, Writing
<1>14. CASE Close(p)
  <2>1. pc[p] \in {"close", "fail"} /\ ~j.preview /\ j.ctr # None /\ lock = p /\ prt # None
    BY <1>0, <1>14 DEF Close, Move, Held, Owner, PreviewPlaces, Writing
  <2>2. /\ pc'[p] \in {"removeprs", "wipe"}
        /\ job'[p].preview = j.preview /\ job'[p].ctr = j.ctr /\ job'[p].next = j.next
    BY <1>0, <1>14 DEF Close, Move, Goto, Job
  <2>3. prt' # None
    <3>1. Len(j.pending) \in Nat
      BY <1>0 DEF Job, Text
    <3>2. PICK n \in 0..Len(j.pending) : Spilled(p, n)
      BY <1>14, <3>1 DEF Close
    <3> QED
      BY <2>1, <3>2, SpilledType, Basics
  <2> QED
    BY <1>14, <2>1, <2>2, <2>3 DEF Close, Held, Owner, PreviewPlaces, Writing
<1>15. CASE RemoveProgress(p)
  BY <1>0, <1>15 DEF RemoveProgress, Move, Goto, Held, Owner, PreviewPlaces, Writing
<1>16. CASE UnlinkOutput(p)
  BY <1>0, <1>16 DEF UnlinkOutput, Move, Goto, Held, Owner, PreviewPlaces, Writing
<1>17. CASE RenameOutput(p)
  <2>1. pc[p] = "rename" /\ ~j.preview /\ j.ctr # None /\ lock = p /\ job'[p] = j
    BY <1>0, <1>17 DEF RenameOutput, Held, Owner, PreviewPlaces, Writing
  <2>2. pc'[p] = "dispose" \/ (pc'[p] = "wipe" /\ lock' = lock)
    BY <1>0, <1>17 DEF RenameOutput, Goto
  <2> QED
    BY <2>1, <2>2 DEF Held, Owner, PreviewPlaces, Writing
<1>18. CASE WipePartial(p)
  BY <1>0, <1>18 DEF WipePartial, Move, Goto, Held, Owner, PreviewPlaces, Writing
<1>19. CASE RemoveFailedProgress(p)
  BY <1>0, <1>19 DEF RemoveFailedProgress, Move, Goto, Held, Owner, PreviewPlaces, Writing
<1>20. CASE Unlock(p) \/ Dispose(p) \/ FailPrint(p) \/ Kill(p)
  BY <1>0, <1>2, <1>20 DEF Unlock, Dispose, FailPrint, Kill, Finish, Goto
<1>21. CASE PrintChunk(p)
  <2>1. pc[p] = "print" /\ j.preview /\ j.ctr # None /\ j.next >= 1
    BY <1>0, <1>21, Basics DEF PrintChunk, Held, Job
  <2>2. CASE Finish(p)
    BY <1>0, <1>2, <2>2 DEF Finish, Goto
  <2>3. CASE ~Finish(p)
    <3>1. /\ pc'[p] \in {"print", "saveunlink"}
          /\ job'[p].preview = j.preview /\ job'[p].ctr = j.ctr /\ job'[p].next = j.next + 1
      BY <1>0, <1>21, <2>3 DEF PrintChunk, Goto, Job
    <3>2. j.next + 1 > 1
      BY <1>0, Basics DEF Job
    <3> QED
      BY <2>1, <3>1, <3>2 DEF Held, Owner, PreviewPlaces, Writing
  <2> QED
    BY <2>2, <2>3
<1>22. CASE EndPreview(p)
  BY <1>0, <1>22 DEF EndPreview, Move, Goto, Held, Owner, PreviewPlaces, Writing
<1> QED
  BY <1>1, <1>3, <1>4, <1>5, <1>6, <1>7, <1>8, <1>9, <1>10, <1>11, <1>12, <1>13, <1>14,
     <1>15, <1>16, <1>17, <1>18, <1>19, <1>20, <1>21, <1>22 DEF Run
\* What happens to the container while no job has it open.
LEMMA OutsideTypes ==
  ASSUME TypeOK, Encrypt \/ Damage
  PROVE  TypeOK'
<1>1. CASE Encrypt
  <2>1. made + 1 \in Versions
    BY <1>1, DecryptConstants DEF Encrypt, TypeOK, Versions
  <2>2. [ver : {made + 1}, fmt : Formats, bad : {{}}] \subseteq Container
    BY <2>1 DEF Container
  <2> QED
    BY <1>1, <2>1, <2>2 DEF Encrypt, TypeOK
<1>2. CASE Damage
  <2>1. PICK i \in Indexes : ctr' = [ctr EXCEPT !.bad = @ \cup {i}]
    BY <1>2 DEF Damage
  <2>2. ctr \in Container
    BY <1>2 DEF Damage, TypeOK
  <2>3. ctr' \in Container
    BY <2>1, <2>2 DEF Container
  <2>4. faults' \in 0..MaxFaults
    BY <1>2, FaultType DEF Damage
  <2> QED
    BY <1>2, <2>3, <2>4 DEF Damage, TypeOK
<1> QED
  BY <1>1, <1>2

LEMMA OwnsInit == Init => TypeOK /\ Owns
<1> SUFFICES ASSUME Init PROVE TypeOK /\ Owns
  OBVIOUS
<1>1. ctr \in Container
  <2>1. [ver : {1}, fmt : Formats, bad : {{}}] \subseteq Container
    BY Basics DEF Container
  <2> QED
    BY <2>1 DEF Init
<1>2. TypeOK
  <2>1. pc \in [Procs -> Places] /\ job \in [Procs -> Job]
    BY Basics DEF Init, Places
  <2>2. faults \in 0..MaxFaults
    BY DecryptConstants DEF Init
  <2> QED
    BY <1>1, <2>1, <2>2, Basics DEF Init, TypeOK
<1>3. Owns
  BY DEF Init, Owns, Held, Owner, Writing
<1> QED
  BY <1>2, <1>3

LEMMA OwnsStep == TypeOK /\ Owns /\ [Next]_vars => TypeOK' /\ Owns'
<1> SUFFICES ASSUME TypeOK, Owns, [Next]_vars PROVE TypeOK' /\ Owns'
  OBVIOUS
<1>1. CASE UNCHANGED vars
  <2>1. UNCHANGED <<ctr, made, prt, prs, out, lock, previewed, pc, job, faults>>
    BY <1>1 DEF vars, files
  <2>2. TypeOK'
    BY <2>1 DEF TypeOK
  <2>3. Owns'
    BY <2>1 DEF Owns, Held, Owner
  <2> QED
    BY <2>2, <2>3
<1>2. CASE Encrypt \/ Damage
  <2>1. Owns'
    BY <1>2 DEF Encrypt, Damage, Owns, Held, Owner, Writing
  <2> QED
    BY <1>2, <2>1, OutsideTypes
<1>3. ASSUME NEW p \in Procs, Start(p) \/ Run(p) \/ Kill(p)
      PROVE  TypeOK' /\ Owns'
  <2>1. Typed(p) /\ Held(p)' /\ Apart(p)
    BY <1>3, StepTypes, HeldItself, StepApart DEF Owns
  <2>2. \A q \in Procs \ {p} : Held(q)'
    BY <2>1, HeldByOthers DEF Owns
  <2> QED
    BY <2>1, <2>2, TypedIsTypeOK DEF Owns
<1> QED
  BY <1>1, <1>2, <1>3 DEF Next

\* Everything has its type, and a decryption that works on the partial output has the lock:
\* acquire_output_lock is held from before the checkpoint is read until decrypt_file returns.
THEOREM DecryptTypes == Spec => [](TypeOK /\ Owns)
  BY OwnsInit, OwnsStep, PTL DEF Spec

-----------------------------------------------------------------------------
(***************************************************************************)
(* The partial output follows the hash, if what is written arrives.        *)
(***************************************************************************)
\* A job that writes nothing out and stays out of the places where the file counts.
LEMMA FollowingOthers ==
  ASSUME NEW p \in Procs, NEW q \in Procs \ {p}, Held(q), Following(q), Apart(p)
  PROVE  Following(q)'
<1>1. pc'[q] = pc[q] /\ job'[q] = job[q]
  BY DEF Apart
<1>2. (Owner(q)' <=> Owner(q)) /\ (Owner(q) => prt' = prt)
  BY <1>1 DEF Owner, Apart
<1>3. pc[q] \in {"clearprs", "catchup"} => Owner(q)
  BY DEF Held, Owner, PreviewPlaces
<1> QED
  BY <1>1, <1>2, <1>3 DEF Following

LEMMA FollowingChunk ==
  ASSUME NEW p \in Procs, TypeOK, Held(p), Following(p), DecryptChunk(p)
  PROVE  Following(p)'
<1> DEFINE j == job[p]
           text == <<j.ctr.ver, j.next>>
<1>1. /\ j \in Job /\ j.ctr # None /\ j.next <= NChunks /\ pc[p] = "chunk" /\ ~j.preview
      /\ j.pending \in Text /\ j.hashed \in Text /\ prt \in Text /\ j.next \in Nat /\ ~j.bad
  BY Basics DEF TypeOK, Held, Owner, PreviewPlaces, Writing, DecryptChunk, Job, Following
<1>2. prt \o j.pending = j.hashed /\ Len(j.hashed) = j.next - 1
  BY <1>1 DEF Following, Owner, Writing
<1>3. CASE pc'[p] = "fail" /\ UNCHANGED <<prt, job>>
  BY <1>1, <1>2, <1>3 DEF Following, Owner, Writing, Done
<1>4. CASE ~(pc'[p] = "fail" /\ UNCHANGED <<prt, job>>)
  <2>1. PICK c \in Cell :
          /\ \/ /\ Spilled(p, Len(j.pending))
                /\ job' = [job EXCEPT ![p].pending = <<c>>, ![p].next = @ + 1,
                                      ![p].hashed = Append(@, c)]
             \/ /\ job' = [job EXCEPT ![p].pending = Append(@, c), ![p].next = @ + 1,
                                      ![p].hashed = Append(@, c)]
                /\ UNCHANGED prt
          /\ pc'[p] \in {"chunk", "save"}
    <3>1. text \in Cell /\ Zero \in Cell
      BY <1>1, ChunkType
    <3>2. pc \in [Procs -> Places]
      BY DEF TypeOK
    <3> QED
      BY <1>4, <3>1, <3>2 DEF DecryptChunk, Goto
  <2>2. /\ job'[p].hashed = Append(j.hashed, c) /\ job'[p].next = j.next + 1
        /\ job'[p].preview = j.preview /\ job'[p].bad = j.bad
    BY <2>1 DEF TypeOK, Job
  <2>3. prt' \o job'[p].pending = Append(j.hashed, c)
    <3>1. CASE Spilled(p, Len(j.pending)) /\ job' = [job EXCEPT ![p].pending = <<c>>,
                                      ![p].next = @ + 1, ![p].hashed = Append(@, c)]
      <4>1. prt' = j.hashed
        BY <1>1, <1>2, <3>1, SpillAll DEF Spilled
      <4>2. job'[p].pending = <<c>>
        BY <3>1 DEF TypeOK, Job
      <4> QED
        BY <1>1, <4>1, <4>2, AppendFacts
    <3>2. CASE UNCHANGED prt /\ job' = [job EXCEPT ![p].pending = Append(@, c),
                                      ![p].next = @ + 1, ![p].hashed = Append(@, c)]
      <4>1. job'[p].pending = Append(j.pending, c)
        BY <3>2 DEF TypeOK, Job
      <4>2. prt \o Append(j.pending, c) = Append(prt \o j.pending, c)
        BY <1>1, <2>1, AppendFacts
      <4> QED
        BY <1>2, <3>2, <4>1, <4>2
    <3> QED
      BY <2>1, <3>1, <3>2
  <2>4. Len(Append(j.hashed, c)) = Len(j.hashed) + 1
    BY <1>1, AppendFacts
  <2>5. Len(job'[p].hashed) = job'[p].next - 1
    BY <1>1, <1>2, <2>2, <2>4
  <2> QED
    BY <1>1, <2>1, <2>2, <2>3, <2>5 DEF Following, Done
<1> QED
  BY <1>3, <1>4
\* The buffer is written out.
LEMMA FollowingSpill ==
  ASSUME NEW p \in Procs, TypeOK, Held(p), Following(p), ~FlushFails,
         FlushForProgress(p) \/ Close(p)
  PROVE  /\ prt' = job[p].hashed
         /\ job'[p] = [job[p] EXCEPT !.pending = <<>>]
<1> DEFINE j == job[p]
<1>1. /\ j \in Job /\ ~j.preview /\ ~j.bad /\ prt \in Text /\ j.pending \in Text
      /\ pc[p] \in {"save", "close", "fail"}
  BY DEF TypeOK, Held, Owner, PreviewPlaces, Writing, FlushForProgress, Close, Move, Job, Following
<1>2. prt \o j.pending = j.hashed
  BY <1>1 DEF Following, Owner, Writing
<1>3. Spilled(p, Len(j.pending)) /\ (job' = [job EXCEPT ![p].pending = <<>>]
                                     \/ job' = [job EXCEPT ![p].pending = <<>>, ![p].bad = FALSE])
  BY <1>1 DEF FlushForProgress, Close
<1>4. prt' = j.hashed
  BY <1>1, <1>2, <1>3, SpillAll DEF Spilled
<1>5. [j EXCEPT !.pending = <<>>, !.bad = FALSE] = [j EXCEPT !.pending = <<>>]
  BY <1>1 DEF Job
<1>6. job'[p] = [j EXCEPT !.pending = <<>>]
  BY <1>3, <1>5 DEF TypeOK
<1> QED
  BY <1>4, <1>6

LEMMA FollowingItself ==
  ASSUME NEW p \in Procs, TypeOK, Owns, Following(p), ~FlushFails, Start(p) \/ Run(p) \/ Kill(p)
  PROVE  Following(p)'
<1> DEFINE j == job[p]
<1>0. /\ Held(p) /\ pc \in [Procs -> Places] /\ job \in [Procs -> Job]
      /\ pc[p] \in Places /\ j \in Job /\ ~j.bad
  BY DEF TypeOK, Owns, Following
<1>1. CASE Start(p)
  <2>1. PICK w \in Passwords, f \in Forces, d \in BOOLEAN, v \in {FALSE, Previews} :
          job' = [job EXCEPT ![p] =
                 [IdleJob EXCEPT !.pw = w, !.force = f, !.dispose = d, !.preview = v]]
    BY <1>1 DEF Start
  <2>2. ~job'[p].bad /\ job'[p].pending = <<>> /\ job'[p].hashed = <<>>
    BY <1>0, <2>1, Basics DEF IdleJob
  <2>3. pc'[p] = "open"
    BY <1>0, <1>1 DEF Start, Move, Goto
  <2> QED
    BY <2>2, <2>3 DEF Following, Writing, Done
<1>2. CASE Finish(p)
  <2>1. pc'[p] = "idle" /\ job'[p] = IdleJob
    BY <1>0, <1>2 DEF Finish, Goto
  <2>2. ~IdleJob.bad
    BY DEF IdleJob
  <2> QED
    BY <2>1, <2>2 DEF Following, Writing, Done
<1>3. CASE Open(p)
  <2>1. CASE job' = [job EXCEPT ![p].ctr = ctr] /\ Goto(p, IF j.preview THEN "resume" ELSE "lock")
    <3>1. job'[p].pending = j.pending /\ job'[p].hashed = j.hashed /\ job'[p].bad = j.bad
      BY <1>0, <2>1 DEF Job
    <3>2. pc'[p] \in {"resume", "lock"} /\ pc[p] = "open"
      BY <1>0, <1>3, <2>1 DEF Goto, Open
    <3> QED
      BY <1>0, <3>1, <3>2 DEF Following, Writing, Done
  <2> QED
    BY <1>2, <1>3, <2>1 DEF Open
<1>4. CASE Lock(p)
  <2>1. CASE Goto(p, "resume") /\ UNCHANGED job
    <3>1. pc'[p] = "resume" /\ pc[p] = "lock" /\ job'[p] = j
      BY <1>0, <1>4, <2>1 DEF Goto, Lock
    <3> QED
      BY <1>0, <3>1 DEF Following, Writing, Done
  <2> QED
    BY <1>2, <1>4, <2>1 DEF Lock
<1>5. CASE Resume(p)
  <2>1. PICK n : job' = [job EXCEPT ![p].start = n, ![p].next = n + 1]
    BY <1>5 DEF Resume
  <2>2. /\ job'[p].pending = j.pending /\ job'[p].hashed = j.hashed /\ job'[p].bad = j.bad
        /\ job'[p].next = job'[p].start + 1
    BY <1>0, <2>1 DEF Job
  <2>3. pc'[p] \in {"print", "prepare"} /\ pc[p] = "resume" /\ (pc'[p] = "print" => j.preview)
    BY <1>0, <1>5 DEF Resume, Move, Goto
  <2> QED
    BY <1>0, <2>2, <2>3 DEF Following, Writing, Done
<1>6. CASE Prepare(p)
  <2>1. pc[p] = "prepare" /\ job'[p] = j /\ j.start \in Nat
    BY <1>0, <1>6, Basics DEF Prepare, Job
  <2>2. \/ pc'[p] = "unlock"
        \/ pc'[p] = "catchup" /\ Len(prt') = j.start
        \/ pc'[p] = "clearprs" /\ Len(prt') = j.start /\ prt' = <<>>
    <3>1. j.start > 0 /\ prt # None => Len(Truncated(prt, j.start)) = j.start
      BY <2>1, TruncatedFacts DEF TypeOK
    <3> QED
      BY <1>0, <1>6, <2>1, <3>1 DEF Prepare, Goto
  <2> QED
    BY <1>0, <2>1, <2>2 DEF Following, Writing, Done
<1>7. CASE ClearProgress(p)
  <2>1. /\ pc[p] = "clearprs" /\ pc'[p] = "chunk" /\ job'[p] = j /\ prt' = prt /\ prt \in Text
    BY <1>0, <1>7 DEF ClearProgress, Move, Goto, Held, Owner, PreviewPlaces, TypeOK
  <2>2. /\ j.pending = <<>> /\ j.hashed = <<>> /\ j.next = j.start + 1 /\ Len(prt) = j.start
        /\ j.start \in Nat
    BY <1>0, <2>1, Basics DEF Following, Job
  <2>3. prt = <<>> /\ prt \o <<>> = <<>>
    BY <2>1, ConcatEmptySeq DEF Following, Text
  <2> QED
    BY <1>0, <2>1, <2>2, <2>3 DEF Following, Writing, Done
<1>8. CASE CatchUp(p)
  <2>1. /\ pc[p] = "catchup" /\ pc'[p] = "chunk" /\ prt' = prt /\ prt \in Text
    BY <1>0, <1>8 DEF CatchUp, Move, Goto, Held, Owner, PreviewPlaces, TypeOK, files
  <2>2. /\ j.pending = <<>> /\ j.next = j.start + 1 /\ Len(prt) = j.start /\ j.start \in Nat
    BY <1>0, <2>1, Basics DEF Following, Job
  <2>3. job'[p] = [j EXCEPT !.hashed = prt]
    BY <1>0, <1>8 DEF CatchUp
  <2>4. prt \o <<>> = prt
    BY <2>1, ConcatEmptySeq DEF Text
  <2>5. /\ job'[p].pending = <<>> /\ job'[p].hashed = prt /\ job'[p].next = j.next
        /\ job'[p].bad = j.bad
    BY <1>0, <2>2, <2>3 DEF Job
  <2>6. Len(prt) = j.next - 1
    BY <2>2
  <2> QED
    BY <1>0, <2>1, <2>4, <2>5, <2>6 DEF Following, Writing, Done
<1>9. CASE DecryptChunk(p)
  BY <1>0, <1>9, FollowingChunk
<1>10. CASE FlushForProgress(p)
  <2>1. pc[p] = "save" /\ pc'[p] \in {"saveunlink", "chunk"} /\ ~j.preview
    BY <1>0, <1>10 DEF FlushForProgress, Goto, Held, PreviewPlaces
  <2>2. /\ prt' = j.hashed /\ job'[p].pending = <<>> /\ job'[p].hashed = j.hashed
        /\ job'[p].next = j.next /\ job'[p].bad = j.bad /\ job'[p].preview = j.preview
    BY <1>0, <1>10, FollowingSpill DEF Job
  <2>3. j.hashed \o <<>> = j.hashed
    BY <1>0, ConcatEmptySeq DEF Job, Text
  <2> QED
    BY <1>0, <2>1, <2>2, <2>3 DEF Following, Owner, Writing, Done
<1>11. CASE UnlinkProgress(p)
  <2>1. pc[p] = "saveunlink" /\ pc'[p] = "saverename" /\ job'[p] = j /\ prt' = prt
    BY <1>0, <1>11 DEF UnlinkProgress, Move, Goto
  <2> QED
    BY <1>0, <2>1 DEF Following, Owner, Writing, Done
<1>12. CASE RenameProgress(p)
  <2>1. /\ pc[p] = "saverename" /\ job'[p] = j /\ prt' = prt
        /\ (pc'[p] = "print" \/ (pc'[p] = "chunk" /\ ~j.preview))
    BY <1>0, <1>12 DEF RenameProgress, Move, Goto
  <2> QED
    BY <1>0, <2>1 DEF Following, Owner, Writing, Done
<1>13. CASE Verify(p)
  <2>1. /\ pc[p] = "chunk" /\ job'[p] = j /\ prt' = prt /\ ~j.preview
        /\ j.next = NChunks + 1
    BY <1>0, <1>13, Basics DEF Verify, files, Held, PreviewPlaces, Job
  <2>2. CASE pc'[p] = "fail"
    BY <1>0, <2>1, <2>2 DEF Following, Owner, Writing, Done
  <2>3. CASE pc'[p] = "close" /\ (~Hashed(j.ctr) \/ j.hashed = Plain(j.ctr.ver) \/ j.force)
    <3>1. Hashed(j.ctr) /\ ~j.force => j.hashed = Plain(j.ctr.ver)
      BY <2>3
    <3> QED
      BY <1>0, <2>1, <2>3, <3>1 DEF Following, Owner, Writing, Done
  <2> QED
    BY <1>0, <1>13, <2>2, <2>3 DEF Verify, Goto
<1>14. CASE Close(p)
  <2>1. /\ \/ pc[p] = "close" /\ pc'[p] = "removeprs"
           \/ pc'[p] = "wipe"
        /\ pc[p] \in {"close", "fail"} /\ ~j.preview
    BY <1>0, <1>14 DEF Close, Move, Goto, Held, PreviewPlaces
  <2>2. /\ prt' = j.hashed /\ job'[p].pending = <<>> /\ job'[p].hashed = j.hashed
        /\ job'[p].next = j.next /\ job'[p].bad = j.bad /\ job'[p].preview = j.preview
        /\ job'[p].ctr = j.ctr /\ job'[p].force = j.force
    BY <1>0, <1>14, FollowingSpill DEF Job
  <2>3. j.hashed \o <<>> = j.hashed
    BY <1>0, ConcatEmptySeq DEF Job, Text
  <2>4. CASE pc'[p] = "wipe"
    BY <1>0, <2>2, <2>4 DEF Following, Owner, Writing, Done
  <2>5. CASE pc[p] = "close" /\ pc'[p] = "removeprs"
    <3>1. /\ j.next = NChunks + 1
          /\ Hashed(j.ctr) /\ ~j.force => j.hashed = Plain(j.ctr.ver)
          /\ Len(j.hashed) = j.next - 1
      BY <2>1, <2>5 DEF Following, Owner, Writing, Done
    <3> QED
      BY <1>0, <2>2, <2>3, <2>5, <3>1 DEF Following, Owner, Writing, Done
  <2> QED
    BY <2>1, <2>4, <2>5
<1>15. CASE RemoveProgress(p)
  <2>1. pc[p] = "removeprs" /\ pc'[p] = "unlink" /\ job'[p] = j /\ prt' = prt
    BY <1>0, <1>15 DEF RemoveProgress, Move, Goto
  <2> QED
    BY <1>0, <2>1 DEF Following, Owner, Writing, Done
<1>16. CASE UnlinkOutput(p)
  <2>1. pc[p] = "unlink" /\ pc'[p] = "rename" /\ job'[p] = j /\ prt' = prt
    BY <1>0, <1>16 DEF UnlinkOutput, Move, Goto
  <2> QED
    BY <1>0, <2>1 DEF Following, Owner, Writing, Done
<1>17. CASE RenameOutput(p) \/ WipePartial(p) \/ RemoveFailedProgress(p) \/ EndPreview(p)
  <2>1. pc'[p] \in {"dispose", "wipe", "failprs", "unlock"} /\ job'[p] = j
    BY <1>0, <1>17 DEF RenameOutput, WipePartial, RemoveFailedProgress, EndPreview, Move, Goto
  <2> QED
    BY <1>0, <2>1 DEF Following, Writing, Done
<1>18. CASE FailPrint(p) \/ Unlock(p) \/ Dispose(p) \/ Kill(p)
  BY <1>2, <1>18 DEF FailPrint, Unlock, Dispose, Kill
<1>19. CASE PrintChunk(p)
  <2>1. CASE ~Finish(p)
    <3>1. /\ pc'[p] \in {"print", "saveunlink"} /\ pc[p] = "print"
          /\ job'[p].bad = j.bad /\ job'[p].preview = j.preview
      BY <1>0, <1>19, <2>1 DEF PrintChunk, Goto, Job
    <3>2. j.preview
      BY <1>0, <3>1 DEF Held
    <3> QED
      BY <1>0, <3>1, <3>2 DEF Following, Owner, Done
  <2> QED
    BY <1>2, <2>1
<1> QED
  BY <1>1, <1>3, <1>4, <1>5, <1>6, <1>7, <1>8, <1>9, <1>10, <1>11, <1>12, <1>13, <1>14,
     <1>15, <1>16, <1>17, <1>18, <1>19 DEF Run
LEMMA FollowsStep ==
  TypeOK /\ Owns /\ Follows /\ ~FlushFails /\ [Next]_vars => Follows'
<1> SUFFICES ASSUME TypeOK, Owns, Follows, ~FlushFails, [Next]_vars PROVE Follows'
  OBVIOUS
<1>1. CASE UNCHANGED vars
  <2>1. UNCHANGED <<ctr, made, prt, prs, out, lock, previewed, pc, job, faults>>
    BY <1>1 DEF vars, files
  <2> QED
    BY <2>1 DEF Follows, Following, Owner
<1>2. CASE Encrypt \/ Damage
  <2>1. UNCHANGED <<prt, pc, job>> /\ \A p \in Procs : pc[p] = "idle"
    BY <1>2 DEF Encrypt, Damage
  <2> QED
    BY <2>1 DEF Follows, Following, Writing, Done
<1>3. ASSUME NEW p \in Procs, Start(p) \/ Run(p) \/ Kill(p)
      PROVE  Follows'
  <2>1. Apart(p) /\ Following(p)'
    BY <1>3, StepApart, FollowingItself DEF Follows
  <2>2. \A q \in Procs \ {p} : Following(q)'
    BY <2>1, FollowingOthers DEF Follows, Owns
  <2> QED
    BY <2>1, <2>2 DEF Follows
<1> QED
  BY <1>1, <1>2, <1>3 DEF Next

LEMMA FollowsInit == Init => Follows
  BY DEF Init, Follows, Following, IdleJob, Writing, Done

\* The only steps that touch the output.
LEMMA OutputStep ==
  ASSUME TypeOK, Owns, [Next]_vars
  PROVE  \/ out' = out
         \/ out' = None
         \/ \E p \in Procs : RenameOutput(p) /\ prt \in Text
              /\ out' = [body |-> prt, ver |-> job[p].ctr.ver, fmt |-> job[p].ctr.fmt,
                         forced |-> job[p].force]
<1>1. CASE UNCHANGED vars \/ Encrypt \/ Damage
  BY <1>1 DEF vars, files, Encrypt, Damage
<1>2. CASE \E p \in Procs : RenameOutput(p)
  <2>1. PICK p \in Procs : RenameOutput(p)
    BY <1>2
  <2>2. prt \in Text
    BY <2>1 DEF RenameOutput, Owns, Held, Owner, PreviewPlaces, Writing, TypeOK
  <2> QED
    BY <2>1, <2>2 DEF RenameOutput
<1>3. ASSUME NEW p \in Procs, Start(p) \/ Run(p) \/ Kill(p), ~RenameOutput(p)
      PROVE  out' = out \/ out' = None
  <2>1. CASE Start(p) \/ Open(p) \/ Lock(p) \/ Resume(p) \/ Prepare(p) \/ ClearProgress(p)
             \/ CatchUp(p)
    BY <2>1 DEF Start, Open, Lock, Resume, Prepare, ClearProgress, CatchUp, files
  <2>2. CASE DecryptChunk(p) \/ FlushForProgress(p) \/ UnlinkProgress(p) \/ RenameProgress(p)
             \/ Verify(p) \/ Close(p)
    BY <2>2 DEF DecryptChunk, FlushForProgress, UnlinkProgress, RenameProgress, Verify, Close,
       files
  <2>3. CASE RemoveProgress(p) \/ UnlinkOutput(p) \/ WipePartial(p) \/ RemoveFailedProgress(p)
    BY <2>3 DEF RemoveProgress, UnlinkOutput, WipePartial, RemoveFailedProgress
  <2>4. CASE Unlock(p) \/ Dispose(p) \/ PrintChunk(p) \/ FailPrint(p) \/ EndPreview(p) \/ Kill(p)
    BY <2>4 DEF Unlock, Dispose, PrintChunk, FailPrint, EndPreview, Kill, files
  <2> QED
    BY <1>3, <2>1, <2>2, <2>3, <2>4 DEF Run
<1> QED
  BY <1>1, <1>2, <1>3 DEF Next

\* What is moved to the output is what was hashed and compared.
LEMMA RenamedIsHashed ==
  ASSUME NEW p \in Procs, TypeOK, Owns, Follows, RenameOutput(p)
  PROVE  /\ prt = job[p].hashed /\ Len(prt) = NChunks /\ Owner(p) /\ pc[p] \in Writing
         /\ Hashed(job[p].ctr) /\ ~job[p].force => prt = Plain(job[p].ctr.ver)
<1>1. pc[p] = "rename" /\ ~job[p].preview /\ prt \in Text /\ Following(p)
  BY DEF RenameOutput, Owns, Held, Owner, PreviewPlaces, Writing, TypeOK, Follows
<1>2. /\ prt \o job[p].pending = job[p].hashed /\ Len(job[p].hashed) = job[p].next - 1
      /\ job[p].next = NChunks + 1 /\ job[p].pending = <<>>
      /\ Hashed(job[p].ctr) /\ ~job[p].force => job[p].hashed = Plain(job[p].ctr.ver)
  BY <1>1 DEF Following, Owner, Writing, Done
<1>3. prt \o <<>> = prt
  BY <1>1, ConcatEmptySeq DEF Text
<1> QED
  BY <1>1, <1>2, <1>3, Basics DEF Owner, Writing

LEMMA WholeStep ==
  TypeOK /\ Owns /\ Follows /\ OutputWhole /\ [Next]_vars => OutputWhole'
<1> SUFFICES ASSUME TypeOK, Owns, Follows, OutputWhole, [Next]_vars,
                    out' # None, out'.fmt # "v2", ~out'.forced
             PROVE  out'.body = Plain(out'.ver)
  BY DEF OutputWhole, Plain
<1>1. CASE out' = out
  BY <1>1 DEF OutputWhole
<1>2. ASSUME NEW p \in Procs, RenameOutput(p), prt \in Text,
             out' = [body |-> prt, ver |-> job[p].ctr.ver, fmt |-> job[p].ctr.fmt,
                     forced |-> job[p].force]
      PROVE  out'.body = Plain(out'.ver)
  <2>1. Hashed(job[p].ctr) /\ ~job[p].force => prt = Plain(job[p].ctr.ver)
    BY <1>2, RenamedIsHashed
  <2> QED
    BY <1>2, <2>1 DEF Hashed
<1> QED
  BY <1>1, <1>2, OutputStep

\* "The plaintext goes to <out>.prt first and is renamed only when everything has been
\* verified" (FileEncryptor.cpp line 3105): unless writing the buffers out fails, which
\* decrypt_file does not look at, the output of a container with a hash is its whole
\* plaintext, whatever was killed, resumed, previewed or replaced before.
THEOREM OutputIsWhole == ~FlushFails /\ Spec => []OutputWhole
<1>1. CASE ~FlushFails
  <2>1. Init => OutputWhole
    BY DEF Init, OutputWhole
  <2>2. Spec => [](TypeOK /\ Owns)
    BY DecryptTypes
  <2>3. Spec => []Follows
    BY <1>1, FollowsInit, FollowsStep, <2>2, PTL DEF Spec
  <2>4. Spec => []OutputWhole
    BY <2>1, <2>2, <2>3, WholeStep, PTL DEF Spec
  <2> QED
    BY <2>4
<1>2. CASE FlushFails
  BY <1>2
<1> QED
  BY <1>1, <1>2
-----------------------------------------------------------------------------
(***************************************************************************)
(* Every chunk in its place, until a preview has left a checkpoint.        *)
(***************************************************************************)
LEMMA FitsLess ==
  ASSUME NEW t, NEW v, NEW n \in Nat, NEW m \in 0..n, Fits(t, n, v)
  PROVE  Fits(t, m, v)
  BY DEF Fits

\* A beginning of a text fits where the text does.
LEMMA FitsPrefix ==
  ASSUME NEW t, NEW h, NEW v, NEW n \in Nat, Fits(h, n, v), Len(t) \in Nat, Len(h) \in Nat,
         Len(t) <= Len(h), \A k \in 1..Len(t) : t[k] = h[k]
  PROVE  Fits(t, n, v)
  BY DEF Fits

\* What a job has written, and what of its buffer may arrive, is in its place.
LEMMA WrittenFits ==
  ASSUME NEW p \in Procs, TypeOK, Owns, Follows, Placing(p), Owner(p), pc[p] \in Writing,
         NEW m \in 0..NChunks
  PROVE  /\ prt \in Text
         /\ Fits(prt, m, job[p].ctr.ver)
         /\ \A n \in 0..Len(job[p].pending) :
              Fits(prt \o SubSeq(job[p].pending, 1, n), m, job[p].ctr.ver)
<1> DEFINE j == job[p]
           v == j.ctr.ver
<1>1. prt \in Text /\ j.pending \in Text /\ j.hashed \in Text /\ Len(prt) \in Nat
      /\ Len(j.pending) \in Nat /\ Len(j.hashed) \in Nat
  <2>1. prt \in Text /\ j.pending \in Text /\ j.hashed \in Text
    BY DEF Owns, Held, TypeOK, Job
  <2> QED
    BY <2>1 DEF Text
<1>2. prt \o j.pending = j.hashed /\ Fits(j.hashed, NChunks, v)
  BY DEF Follows, Following, Placing
<1>3. ASSUME NEW n \in 0..Len(j.pending)
      PROVE  Fits(prt \o SubSeq(j.pending, 1, n), m, v)
  <2> DEFINE t == prt \o SubSeq(j.pending, 1, n)
  <2>1. /\ Len(t) = Len(prt) + n /\ Len(j.hashed) = Len(prt) + Len(j.pending)
        /\ \A k \in 1..Len(t) : t[k] = j.hashed[k]
    <3>1. /\ Len(t) = Len(prt) + n /\ Len(prt \o j.pending) = Len(prt) + Len(j.pending)
          /\ \A k \in 1..(Len(prt) + n) : t[k] = (prt \o j.pending)[k]
      BY <1>1, SpillFacts
    <3> HIDE DEF t
    <3> QED
      BY <1>2, <3>1
  <2>2. Len(t) \in Nat /\ Len(t) <= Len(j.hashed)
    BY <1>1, <2>1
  <2>3. Fits(t, NChunks, v)
    BY <1>1, <1>2, <2>1, <2>2, Basics, FitsPrefix
  <2> QED
    BY <2>3, Basics, FitsLess
<1>4. Fits(prt, m, v)
  <2>1. 0 \in 0..Len(j.pending) /\ SubSeq(j.pending, 1, 0) = <<>> /\ prt \o <<>> = prt
    BY <1>1, SubSeqEmpty, ConcatEmptySeq DEF Text
  <2> QED
    BY <1>3, <2>1
<1> QED
  BY <1>1, <1>3, <1>4

LEMMA PlacingOthers ==
  ASSUME NEW p \in Procs, NEW q \in Procs \ {p}, Held(q), Placing(q), Apart(p), ~previewed'
  PROVE  Placing(q)'
<1>1. pc'[q] = pc[q] /\ job'[q] = job[q]
  BY DEF Apart
<1>2. /\ Owner(q)' <=> Owner(q)
      /\ Owner(q) => prt' = prt /\ (prs' = prs \/ prs' = None)
  BY <1>1 DEF Owner, Apart
<1>3. pc[q] \in {"prepare", "clearprs", "catchup"} => Owner(q)
  BY DEF Held, Owner, PreviewPlaces
<1>4. pc'[q] = "prepare" /\ job'[q].start > 0 => Fits(prt', job'[q].start, job'[q].ctr.ver)
  BY <1>1, <1>2, <1>3 DEF Placing
<1>5. pc'[q] \in {"clearprs", "catchup"} => Fits(prt', NChunks, job'[q].ctr.ver)
  BY <1>1, <1>2, <1>3 DEF Placing
<1>6. Owner(q)' /\ pc'[q] \in Writing => Fits(job'[q].hashed, NChunks, job'[q].ctr.ver)
  BY <1>1, <1>2 DEF Placing
<1>7. Owner(q)' /\ pc'[q] \in Writing \cup {"catchup"} /\ prs' # None =>
        prs'.ver = job'[q].ctr.ver
  BY <1>1, <1>2 DEF Placing
<1>8. pc'[q] = "prepare" /\ job'[q].start > 0 /\ prs' # None => prs'.ver = job'[q].ctr.ver
  BY <1>1, <1>2, <1>3 DEF Placing
<1> QED
  BY <1>4, <1>5, <1>6, <1>7, <1>8 DEF Placing, Fits
\* The checkpoint accounts for what is in the partial output.
LEMMA FilesPlaced ==
  ASSUME NEW p \in Procs, TypeOK, Owns, Follows, ~FlushFails, Placed, ~previewed, ~previewed',
         Start(p) \/ Run(p) \/ Kill(p), prs' # None, prt' # None
  PROVE  Fits(prt', prs'.chunks, prs'.ver)
<1> DEFINE j == job[p]
           v == j.ctr.ver
<1>0. /\ Held(p) /\ Following(p) /\ Placing(p) /\ pc[p] \in Places /\ j \in Job
      /\ prs # None /\ prt # None => Fits(prt, prs.chunks, prs.ver)
  BY DEF Owns, Follows, Placed, TypeOK
<1>1. prs # None => prs.chunks \in 0..NChunks
  BY Basics DEF TypeOK, Progress, Indexes
<1>2. CASE UNCHANGED <<prt, prs>>
  BY <1>0, <1>2
<1>3. ASSUME Owner(p), pc[p] \in Writing, UNCHANGED prs,
             NEW n \in 0..Len(j.pending), Spilled(p, n)
      PROVE  Fits(prt', prs'.chunks, prs'.ver)
  <2>1. prs.ver = v
    BY <1>0, <1>3 DEF Placing
  <2>2. Fits(prt \o SubSeq(j.pending, 1, n), prs.chunks, v)
    BY <1>0, <1>1, <1>3, WrittenFits
  <2> QED
    BY <1>3, <2>1, <2>2 DEF Spilled
<1>4. Len(j.pending) \in Nat
  BY <1>0 DEF Job, Text
<1>5. CASE Start(p) \/ Open(p) \/ Lock(p) \/ Resume(p) \/ CatchUp(p) \/ Verify(p)
           \/ UnlinkOutput(p) \/ Unlock(p) \/ Dispose(p) \/ PrintChunk(p) \/ FailPrint(p)
           \/ EndPreview(p)
  BY <1>2, <1>5 DEF Start, Open, Lock, Resume, CatchUp, Verify, UnlinkOutput, Unlock, Dispose,
     PrintChunk, FailPrint, EndPreview, files
<1>6. CASE ClearProgress(p) \/ UnlinkProgress(p) \/ RemoveProgress(p) \/ RemoveFailedProgress(p)
           \/ WipePartial(p) \/ RenameOutput(p)
  BY <1>2, <1>6 DEF ClearProgress, UnlinkProgress, RemoveProgress, RemoveFailedProgress,
     WipePartial, RenameOutput
<1>7. CASE Prepare(p)
  <2>1. pc[p] = "prepare" /\ prs' = prs /\ j.start \in Nat
    BY <1>0, <1>7, Basics DEF Prepare, Job
  <2>2. CASE j.start > 0 /\ prt # None /\ prt' = Truncated(prt, j.start)
    <3>1. Fits(prt, j.start, v) /\ prs.ver = v
      BY <1>0, <2>1, <2>2 DEF Placing
    <3>2. /\ Len(prt') = j.start
          /\ \A k \in 1..j.start : prt'[k] = IF k <= Len(prt) THEN prt[k] ELSE Zero
      BY <2>1, <2>2, TruncatedFacts DEF TypeOK
    <3> QED
      BY <1>1, <2>1, <3>1, <3>2 DEF Fits
  <2>3. CASE prt' = <<>>
    BY <2>3 DEF Fits
  <2> QED
    BY <1>2, <1>7, <2>2, <2>3 DEF Prepare
<1>8. CASE DecryptChunk(p)
  <2>1. Owner(p) /\ pc[p] \in Writing /\ prs' = prs
    BY <1>0, <1>8 DEF DecryptChunk, Held, Owner, PreviewPlaces, Writing
  <2>2. UNCHANGED prt \/ Spilled(p, Len(j.pending))
    BY <1>8 DEF DecryptChunk
  <2> QED
    BY <1>2, <1>3, <1>4, <2>1, <2>2
<1>9. CASE FlushForProgress(p) \/ Close(p)
  <2>1. Owner(p) /\ pc[p] \in Writing /\ prs' = prs
    BY <1>0, <1>9 DEF FlushForProgress, Close, Move, Held, Owner, PreviewPlaces, Writing
  <2>2. Spilled(p, Len(j.pending))
    BY <1>0, <1>9 DEF FlushForProgress, Close, Following
  <2> QED
    BY <1>3, <1>4, <2>1, <2>2
<1>10. CASE RenameProgress(p)
  <2>1. pc[p] = "saverename" /\ ~j.preview /\ prt' = prt
    BY <1>0, <1>10 DEF RenameProgress, Move
  <2>2. CASE prs' = [chunks |-> j.next - 1, ver |-> v, pw |-> j.pw]
    <3>1. j.next - 1 \in 0..NChunks
      BY <1>0, Basics DEF Job
    <3>2. Fits(prt, j.next - 1, v)
      BY <1>0, <2>1, <3>1, WrittenFits DEF Owner, Writing
    <3> QED
      BY <2>1, <2>2, <3>2
  <2> QED
    BY <1>2, <1>10, <2>1, <2>2 DEF RenameProgress
<1>11. CASE Kill(p)
  <2>1. prs' = prs
    BY <1>11 DEF Kill
  <2>2. CASE /\ pc[p] \in {"chunk", "save", "close", "fail"}
             /\ \E n \in 1..Len(j.pending) : Spilled(p, n)
    <3>1. PICK n \in 1..Len(j.pending) : Spilled(p, n)
      BY <2>2
    <3>2. n \in 0..Len(j.pending)
      BY <1>4
    <3>3. Owner(p) /\ pc[p] \in Writing
      BY <1>0, <2>2 DEF Held, Owner, PreviewPlaces, Writing
    <3> QED
      BY <1>3, <2>1, <3>1, <3>2, <3>3
  <2> QED
    BY <1>2, <1>11, <2>1, <2>2 DEF Kill
<1> QED
  BY <1>5, <1>6, <1>7, <1>8, <1>9, <1>10, <1>11 DEF Run
\* Where a job is not at the partial output.
LEMMA ElsewherePlaced ==
  ASSUME NEW p \in Procs,
         \/ pc'[p] \in {"idle", "open", "lock", "resume", "print", "dispose", "wipe", "failprs",
                        "unlock"}
         \/ job'[p].preview /\ pc'[p] \in {"saveunlink", "saverename"}
  PROVE  Placing(p)'
  BY DEF Placing, Owner, Writing

\* A job that stays among the places where it writes, with the hash it has.
LEMMA StillPlaced ==
  ASSUME NEW p \in Procs, Placing(p), Owner(p), pc[p] \in Writing, pc'[p] \in Writing,
         job'[p].hashed = job[p].hashed, job'[p].ctr = job[p].ctr,
         prs' # None => (prs # None /\ prs'.ver = prs.ver) \/ prs'.ver = job[p].ctr.ver
  PROVE  Placing(p)'
<1>1. Fits(job[p].hashed, NChunks, job[p].ctr.ver) /\ (prs # None => prs.ver = job[p].ctr.ver)
  BY DEF Placing
<1>2. prs' # None => prs'.ver = job'[p].ctr.ver
  BY <1>1
<1>3. Fits(job'[p].hashed, NChunks, job'[p].ctr.ver)
  BY <1>1
<1> QED
  BY <1>2, <1>3 DEF Placing, Writing, Fits

LEMMA PlacingChunk ==
  ASSUME NEW p \in Procs, TypeOK, Held(p), Following(p), Placing(p), DecryptChunk(p)
  PROVE  Placing(p)'
<1> DEFINE j == job[p]
           v == j.ctr.ver
<1>1. /\ j \in Job /\ j.ctr # None /\ j.next <= NChunks /\ pc[p] = "chunk" /\ ~j.preview
      /\ j.hashed \in Text /\ j.next \in Nat /\ pc \in [Procs -> Places]
      /\ Owner(p) /\ pc[p] \in Writing /\ Len(j.hashed) \in Nat
  <2>1. pc[p] = "chunk" /\ j \in Job /\ j.ctr # None /\ ~j.preview /\ pc \in [Procs -> Places]
    BY DEF TypeOK, Held, PreviewPlaces, DecryptChunk
  <2>2. j.hashed \in Text /\ j.next \in Nat
    BY <2>1, Basics DEF Job
  <2> QED
    BY <2>1, <2>2 DEF Owner, Writing, DecryptChunk, Text
<1>2. Len(j.hashed) = j.next - 1 /\ Fits(j.hashed, NChunks, v) /\ (prs # None => prs.ver = v)
  BY <1>1 DEF Following, Placing
<1>3. CASE pc'[p] = "fail" /\ UNCHANGED <<prt, job>>
  BY <1>1, <1>3, StillPlaced DEF DecryptChunk, Writing
<1>4. CASE ~(pc'[p] = "fail" /\ UNCHANGED <<prt, job>>)
  <2>1. PICK c \in {<<v, j.next>>, Zero} :
          /\ \/ job' = [job EXCEPT ![p].pending = <<c>>, ![p].next = @ + 1,
                                   ![p].hashed = Append(@, c)]
             \/ job' = [job EXCEPT ![p].pending = Append(@, c), ![p].next = @ + 1,
                                   ![p].hashed = Append(@, c)]
          /\ pc'[p] \in {"chunk", "save"}
    BY <1>1, <1>4 DEF DecryptChunk, Goto
  <2>2. job'[p].hashed = Append(j.hashed, c) /\ job'[p].ctr = j.ctr
    BY <2>1 DEF TypeOK, Job
  <2>3. c \in Cell
    BY <1>1, ChunkType
  <2>4. /\ Len(Append(j.hashed, c)) = Len(j.hashed) + 1
        /\ Append(j.hashed, c)[Len(j.hashed) + 1] = c
        /\ \A k \in 1..Len(j.hashed) : Append(j.hashed, c)[k] = j.hashed[k]
    BY <1>1, <2>3, AppendFacts
  <2>5. ASSUME NEW k \in 1..NChunks, k <= Len(Append(j.hashed, c))
        PROVE  Append(j.hashed, c)[k] \in {<<v, k>>, Zero}
    <3>1. CASE k = j.next
      BY <1>1, <1>2, <2>4, <3>1
    <3>2. CASE k # j.next
      <4>1. k \in 1..Len(j.hashed) /\ k <= Len(j.hashed)
        BY <1>1, <1>2, <2>4, <2>5, <3>2
      <4> QED
        BY <1>2, <2>4, <4>1 DEF Fits
    <3> QED
      BY <3>1, <3>2
  <2>6. Fits(job'[p].hashed, NChunks, job'[p].ctr.ver)
    BY <2>2, <2>5 DEF Fits
  <2>7. prs' = prs
    BY DEF DecryptChunk
  <2> QED
    BY <1>2, <2>1, <2>2, <2>6, <2>7 DEF Placing, Writing, Fits
<1> QED
  BY <1>3, <1>4

LEMMA PlacingItself ==
  ASSUME NEW p \in Procs, TypeOK, Owns, Follows, ~FlushFails, Placed, ~previewed, ~previewed',
         Start(p) \/ Run(p) \/ Kill(p)
  PROVE  Placing(p)'
<1> DEFINE j == job[p]
           v == j.ctr.ver
<1>0. /\ Held(p) /\ Following(p) /\ Placing(p) /\ pc[p] \in Places /\ j \in Job
      /\ pc \in [Procs -> Places] /\ job \in [Procs -> Job]
      /\ prs # None /\ prt # None => Fits(prt, prs.chunks, prs.ver)
  BY DEF Owns, Follows, Placed, TypeOK
<1>1. CASE Start(p)
  BY <1>0, <1>1, ElsewherePlaced DEF Start, Move, Goto
<1>2. CASE Open(p) \/ Lock(p)
  BY <1>0, <1>2, ElsewherePlaced DEF Open, Lock, Goto, Finish
<1>3. CASE Resume(p)
  <2>1. CASE j.preview
    BY <1>0, <1>3, <2>1, ElsewherePlaced DEF Resume, Move, Goto
  <2>2. CASE ~j.preview
    <3> DEFINE n == IF prt # None /\ Authentic(j) THEN prs.chunks ELSE 0
    <3>1. /\ job'[p].start = n /\ job'[p].ctr = j.ctr
          /\ pc'[p] = "prepare" /\ prt' = prt /\ prs' = prs
      BY <1>0, <1>3, <2>2 DEF Resume, Move, Goto, Job, files
    <3>2. n > 0 => Fits(prt, n, v) /\ prs.ver = v
      BY <1>0 DEF Authentic
    <3> HIDE DEF n
    <3> QED
      BY <3>1, <3>2 DEF Placing, Owner, Writing, Fits
  <2> QED
    BY <2>1, <2>2
<1>4. CASE Prepare(p)
  <2>1. pc[p] = "prepare" /\ prs' = prs /\ j.start \in Nat /\ job'[p] = j
    BY <1>0, <1>4, Basics DEF Prepare, Job
  <2>2. CASE j.start > 0 /\ prt # None /\ prt' = Truncated(prt, j.start) /\ pc'[p] = "catchup"
    <3>1. Fits(prt, j.start, v) /\ (prs # None => prs.ver = v)
      BY <1>0, <2>1, <2>2 DEF Placing
    <3>2. /\ Len(prt') = j.start
          /\ \A k \in 1..j.start : prt'[k] = IF k <= Len(prt) THEN prt[k] ELSE Zero
      BY <2>1, <2>2, TruncatedFacts DEF TypeOK
    <3>3. Fits(prt', NChunks, v)
      BY <2>1, <3>1, <3>2 DEF Fits
    <3> QED
      BY <2>1, <2>2, <3>1, <3>3 DEF Placing, Writing, Fits
  <2>3. CASE prt' = <<>> /\ pc'[p] = "clearprs"
    <3>1. Fits(prt', NChunks, v)
      BY <2>3 DEF Fits
    <3> QED
      BY <2>1, <2>3, <3>1 DEF Placing, Writing, Fits
  <2>4. CASE pc'[p] = "unlock"
    BY <2>4, ElsewherePlaced
  <2> QED
    BY <1>0, <1>4, <2>2, <2>3, <2>4 DEF Prepare, Goto
<1>5. CASE ClearProgress(p)
  <2>1. pc[p] = "clearprs" /\ pc'[p] = "chunk" /\ prs' = None /\ job'[p] = j /\ j.hashed = <<>>
    BY <1>0, <1>5 DEF ClearProgress, Move, Goto, Following
  <2>2. Fits(job'[p].hashed, NChunks, job'[p].ctr.ver)
    BY <2>1 DEF Fits
  <2> QED
    BY <2>1, <2>2 DEF Placing, Fits
<1>6. CASE CatchUp(p)
  <2>1. /\ pc[p] = "catchup" /\ pc'[p] = "chunk" /\ prs' = prs /\ Owner(p)
        /\ job'[p].hashed = prt /\ job'[p].ctr = j.ctr
    BY <1>0, <1>6 DEF CatchUp, Move, Goto, files, Job, Held, Owner, PreviewPlaces
  <2>2. Fits(prt, NChunks, v) /\ (prs # None => prs.ver = v)
    BY <1>0, <2>1 DEF Placing
  <2> QED
    BY <2>1, <2>2 DEF Placing, Fits
<1>7. CASE DecryptChunk(p)
  BY <1>0, <1>7, PlacingChunk
<1>8. CASE FlushForProgress(p) \/ Close(p)
  <2>1. /\ Owner(p) /\ pc[p] \in Writing /\ prs' = prs
        /\ pc'[p] \in {"saveunlink", "chunk", "removeprs", "wipe"}
    BY <1>0, <1>8 DEF FlushForProgress, Close, Move, Goto, Held, Owner, PreviewPlaces, Writing
  <2>2. job'[p].hashed = j.hashed /\ job'[p].ctr = j.ctr
    BY <1>0, <1>8, FollowingSpill DEF Job
  <2> QED
    BY <1>0, <2>1, <2>2, ElsewherePlaced, StillPlaced DEF Writing
<1>9. CASE UnlinkProgress(p)
  <2>1. pc[p] = "saveunlink" /\ pc'[p] = "saverename" /\ prs' = None /\ job'[p] = j
    BY <1>0, <1>9 DEF UnlinkProgress, Move, Goto
  <2>2. CASE j.preview
    BY <2>1, <2>2, ElsewherePlaced
  <2>3. CASE ~j.preview
    BY <1>0, <2>1, <2>3, StillPlaced DEF Owner, Writing
  <2> QED
    BY <2>2, <2>3
<1>10. CASE RenameProgress(p)
  <2>1. pc[p] = "saverename" /\ ~j.preview /\ job'[p] = j
    BY <1>0, <1>10 DEF RenameProgress, Move
  <2>2. pc'[p] = "chunk"
    BY <1>0, <1>10, <2>1 DEF RenameProgress, Move, Goto
  <2>3. prs' = prs \/ prs'.ver = v
    BY <1>10 DEF RenameProgress
  <2> QED
    BY <1>0, <2>1, <2>2, <2>3, StillPlaced DEF Owner, Writing
<1>11. CASE Verify(p)
  <2>1. /\ pc[p] = "chunk" /\ ~j.preview /\ pc'[p] \in {"close", "fail"} /\ job'[p] = j
        /\ prs' = prs
    BY <1>0, <1>11 DEF Verify, Goto, files, Held, PreviewPlaces
  <2> QED
    BY <1>0, <2>1, StillPlaced DEF Owner, Writing
<1>12. CASE RemoveProgress(p) \/ UnlinkOutput(p)
  <2>1. /\ pc[p] \in {"removeprs", "unlink"} /\ ~j.preview /\ pc'[p] \in {"unlink", "rename"}
        /\ job'[p] = j /\ (prs' = prs \/ prs' = None)
    BY <1>0, <1>12 DEF RemoveProgress, UnlinkOutput, Move, Goto, Held, PreviewPlaces
  <2> QED
    BY <1>0, <2>1, StillPlaced DEF Owner, Writing
<1>13. CASE RenameOutput(p) \/ WipePartial(p) \/ RemoveFailedProgress(p) \/ EndPreview(p)
  BY <1>0, <1>13, ElsewherePlaced DEF RenameOutput, WipePartial, RemoveFailedProgress, EndPreview,
     Move, Goto
<1>14. CASE FailPrint(p) \/ Unlock(p) \/ Dispose(p) \/ Kill(p)
  BY <1>0, <1>14, ElsewherePlaced DEF FailPrint, Unlock, Dispose, Kill, Finish, Goto
<1>15. CASE PrintChunk(p)
  <2>1. CASE ~Finish(p)
    <3>1. pc'[p] \in {"print", "saveunlink"} /\ pc[p] = "print" /\ job'[p].preview = j.preview
      BY <1>0, <1>15, <2>1 DEF PrintChunk, Goto, Job
    <3>2. j.preview
      BY <1>0, <3>1 DEF Held
    <3> QED
      BY <3>1, <3>2, ElsewherePlaced
  <2>2. CASE Finish(p)
    BY <1>0, <2>2, ElsewherePlaced DEF Finish, Goto
  <2> QED
    BY <2>1, <2>2
<1> QED
  BY <1>1, <1>2, <1>3, <1>4, <1>5, <1>6, <1>7, <1>8, <1>9, <1>10, <1>11, <1>12, <1>13, <1>14,
     <1>15 DEF Run
LEMMA PlacedStep ==
  TypeOK /\ Owns /\ Follows /\ ~FlushFails /\ Placed /\ [Next]_vars => Placed'
<1> SUFFICES ASSUME TypeOK, Owns, Follows, ~FlushFails, Placed, [Next]_vars, ~previewed'
             PROVE  /\ prs' # None /\ prt' # None => Fits(prt', prs'.chunks, prs'.ver)
                    /\ out' # None => /\ Fits(out'.body, NChunks, out'.ver)
                                      /\ Len(out'.body) = NChunks
                    /\ \A p \in Procs : Placing(p)'
  BY DEF Placed, Fits
<1>0. ~previewed
  <2>1. CASE \E p \in Procs : RenameProgress(p)
    BY <2>1 DEF RenameProgress
  <2>2. CASE UNCHANGED vars \/ Encrypt \/ Damage
    BY <2>2 DEF vars, Encrypt, Damage
  <2>3. ASSUME NEW p \in Procs, Start(p) \/ Run(p) \/ Kill(p), ~RenameProgress(p)
        PROVE  previewed' = previewed
    BY <2>3 DEF Run, Start, Open, Lock, Resume, Prepare, ClearProgress, CatchUp, DecryptChunk,
       FlushForProgress, UnlinkProgress, Verify, Close, RemoveProgress, UnlinkOutput,
       RenameOutput, WipePartial, RemoveFailedProgress, Unlock, Dispose, PrintChunk, FailPrint,
       EndPreview, Kill
  <2> QED
    BY <2>1, <2>2, <2>3 DEF Next
<1>1. CASE UNCHANGED vars
  <2>1. UNCHANGED <<ctr, made, prt, prs, out, lock, previewed, pc, job, faults>>
    BY <1>1 DEF vars, files
  <2> QED
    BY <1>0, <2>1 DEF Placed, Placing, Owner, Fits
<1>2. CASE Encrypt \/ Damage
  <2>1. UNCHANGED <<prt, prs, out, pc, job>> /\ \A p \in Procs : pc[p] = "idle"
    BY <1>2 DEF Encrypt, Damage
  <2>2. \A p \in Procs : Placing(p)'
    BY <2>1, ElsewherePlaced
  <2> QED
    BY <1>0, <2>1, <2>2 DEF Placed
<1>3. ASSUME NEW p \in Procs, Start(p) \/ Run(p) \/ Kill(p)
      PROVE  /\ prs' # None /\ prt' # None => Fits(prt', prs'.chunks, prs'.ver)
             /\ \A q \in Procs : Placing(q)'
  <2>1. Apart(p) /\ Placing(p)'
    BY <1>0, <1>3, StepApart, PlacingItself
  <2>2. \A q \in Procs \ {p} : Placing(q)'
    BY <1>0, <2>1, PlacingOthers DEF Placed, Owns
  <2>3. prs' # None /\ prt' # None => Fits(prt', prs'.chunks, prs'.ver)
    BY <1>0, <1>3, FilesPlaced
  <2> QED
    BY <2>1, <2>2, <2>3
<1>4. out' # None => Fits(out'.body, NChunks, out'.ver) /\ Len(out'.body) = NChunks
  <2>1. CASE out' = out
    BY <1>0, <2>1 DEF Placed
  <2>2. ASSUME NEW p \in Procs, RenameOutput(p), prt \in Text,
               out' = [body |-> prt, ver |-> job[p].ctr.ver, fmt |-> job[p].ctr.fmt,
                       forced |-> job[p].force]
        PROVE  Fits(out'.body, NChunks, out'.ver) /\ Len(out'.body) = NChunks
    <3>1. prt = job[p].hashed /\ Len(prt) = NChunks /\ Owner(p) /\ pc[p] \in Writing
      BY <2>2, RenamedIsHashed
    <3>2. Fits(job[p].hashed, NChunks, job[p].ctr.ver)
      BY <1>0, <3>1 DEF Placed, Placing
    <3> QED
      BY <2>2, <3>1, <3>2
  <2> QED
    BY <2>1, <2>2, OutputStep
<1> QED
  BY <1>1, <1>2, <1>3, <1>4 DEF Next

\* Even forced, and even without a hash, nothing is in a wrong place or of another container:
\* a chunk that could not be recovered is a hole filled with zeros.  This is so whatever is
\* killed and resumed, until a preview, which has no lock, has left a checkpoint for a partial
\* output it did not write, and unless writing the buffers out fails.
THEOREM ChunksKeepTheirPlaces == ~FlushFails /\ Spec => []PlacesKept
<1>1. CASE ~FlushFails
  <2>1. Init => Placed
    BY DEF Init, Placed, Placing, Owner, Writing
  <2>2. Spec => [](TypeOK /\ Owns)
    BY DecryptTypes
  <2>3. Spec => []Follows
    BY <1>1, FollowsInit, FollowsStep, <2>2, PTL DEF Spec
  <2>4. Spec => []Placed
    BY <1>1, <2>1, PlacedStep, <2>2, <2>3, PTL DEF Spec
  <2>5. Placed => PlacesKept
    BY Basics DEF Placed, PlacesKept, Fits, Plain, Indexes
  <2> QED
    BY <2>4, <2>5, PTL
<1>2. CASE FlushFails
  BY <1>2
<1> QED
  BY <1>1, <1>2
-----------------------------------------------------------------------------
(***************************************************************************)
(* One process at a time: the container is traded for its plaintext.       *)
(***************************************************************************)
\* Only the disposal at the end takes a container away, and only from its opening on does a
\* job have one.
LEMMA ContainerStep ==
  ASSUME NEW p \in Procs, TypeOK, Start(p) \/ Run(p) \/ Kill(p)
  PROVE  \/ Dispose(p)
         \/ /\ ctr' = ctr
            /\ \/ pc'[p] \in {"idle", "open"}
               \/ pc'[p] # "dispose" /\ job'[p].ctr = ctr
               \/ /\ pc[p] \notin {"idle", "open"} /\ job'[p].ctr = job[p].ctr
                  /\ pc'[p] # "dispose"
               \/ RenameOutput(p) /\ pc'[p] = "dispose" /\ job'[p] = job[p]
               \/ EndPreview(p)
<1>0. pc \in [Procs -> Places] /\ job \in [Procs -> Job] /\ job[p] \in Job
  BY DEF TypeOK
<1>1. CASE Start(p) \/ Unlock(p) \/ FailPrint(p) \/ Kill(p)
  BY <1>0, <1>1 DEF Start, Unlock, FailPrint, Kill, Move, Goto, Finish, files
<1>2. CASE Open(p)
  <2>1. CASE Finish(p)
    BY <1>0, <1>2, <2>1 DEF Open, Goto, Finish, files
  <2>2. CASE ~Finish(p)
    <3>1. job' = [job EXCEPT ![p].ctr = ctr] /\ pc'[p] \in {"resume", "lock"} /\ ctr' = ctr
      BY <1>0, <1>2, <2>2 DEF Open, Goto, files
    <3>2. job'[p].ctr = ctr
      BY <1>0, <3>1 DEF Job
    <3> QED
      BY <3>1, <3>2
  <2> QED
    BY <2>1, <2>2
<1>3. CASE Lock(p) \/ Resume(p) \/ Prepare(p) \/ ClearProgress(p) \/ CatchUp(p)
  <2>1. ctr' = ctr /\ (Finish(p) \/ job'[p].ctr = job[p].ctr)
    BY <1>0, <1>3 DEF Lock, Resume, Prepare, ClearProgress, CatchUp, files, Job
  <2>2. pc[p] \notin {"idle", "open"} /\ pc'[p] # "dispose"
    BY <1>0, <1>3 DEF Lock, Resume, Prepare, ClearProgress, CatchUp, Move, Goto, Finish
  <2>3. Finish(p) => pc'[p] = "idle"
    BY <1>0 DEF Finish, Goto
  <2> QED
    BY <2>1, <2>2, <2>3
<1>4. CASE DecryptChunk(p) \/ FlushForProgress(p) \/ Close(p)
  <2>1. ctr' = ctr /\ job'[p].ctr = job[p].ctr
    BY <1>0, <1>4 DEF DecryptChunk, FlushForProgress, Close, Job
  <2>2. pc[p] \notin {"idle", "open"} /\ pc'[p] # "dispose"
    BY <1>0, <1>4 DEF DecryptChunk, FlushForProgress, Close, Move, Goto
  <2> QED
    BY <2>1, <2>2
<1>5. CASE UnlinkProgress(p) \/ RenameProgress(p) \/ Verify(p) \/ RemoveProgress(p)
           \/ UnlinkOutput(p) \/ WipePartial(p) \/ RemoveFailedProgress(p)
  BY <1>0, <1>5 DEF UnlinkProgress, RenameProgress, Verify, RemoveProgress, UnlinkOutput,
     WipePartial, RemoveFailedProgress, Move, Goto, files
<1>6. CASE RenameOutput(p)
  BY <1>0, <1>6 DEF RenameOutput, Goto
<1>7. CASE PrintChunk(p)
  <2>1. CASE Finish(p)
    BY <1>0, <1>7, <2>1 DEF PrintChunk, Goto, Finish, files
  <2>2. CASE ~Finish(p)
    BY <1>0, <1>7, <2>2 DEF PrintChunk, Goto, files, Job
  <2> QED
    BY <2>1, <2>2
<1>8. CASE EndPreview(p)
  BY <1>8 DEF EndPreview, files
<1> QED
  BY <1>1, <1>2, <1>3, <1>4, <1>5, <1>6, <1>7, <1>8 DEF Run

LEMMA TradingStep ==
  ASSUME NEW p \in Procs, Procs = {p}, TypeOK, Owns, Follows, Trading, [Next]_vars
  PROVE  Trading'
<1>0. TypeOK'
  BY OwnsStep
<1>1. CASE UNCHANGED vars
  <2>1. UNCHANGED <<ctr, made, prt, prs, out, lock, previewed, pc, job, faults>>
    BY <1>1 DEF vars, files
  <2> QED
    BY <2>1 DEF Trading
<1>2. CASE Encrypt \/ Damage
  BY <1>2 DEF Encrypt, Damage, Trading
<1>3. ASSUME Start(p) \/ Run(p) \/ Kill(p)
      PROVE  Trading'
  <2>1. CASE Dispose(p)
    BY <2>1 DEF Dispose, Finish, Goto, Trading, TypeOK
  <2>2. CASE ctr' = ctr /\ pc'[p] \in {"idle", "open"}
    BY <2>2 DEF Trading
  <2>3. CASE ctr' = ctr /\ pc'[p] # "dispose" /\ job'[p].ctr = ctr
    BY <2>3 DEF Trading
  <2>4. CASE /\ ctr' = ctr /\ pc[p] \notin {"idle", "open"} /\ job'[p].ctr = job[p].ctr
             /\ pc'[p] # "dispose"
    BY <2>4 DEF Trading
  <2>5. CASE ctr' = ctr /\ RenameOutput(p) /\ pc'[p] = "dispose" /\ job'[p] = job[p]
    <3>1. out' = [body |-> prt, ver |-> job[p].ctr.ver, fmt |-> job[p].ctr.fmt,
                  forced |-> job[p].force]
      BY <2>5 DEF RenameOutput, Goto, TypeOK
    <3>2. Hashed(job[p].ctr) /\ ~job[p].force => prt = Plain(job[p].ctr.ver)
      BY <2>5, RenamedIsHashed
    <3>3. pc[p] = "rename" /\ job[p].ctr # None /\ job[p] \in Job
      BY <2>5 DEF RenameOutput, Owns, Held, TypeOK
    <3>4. out' # None
      <4>1. out' \in Output
        <5>1. job[p].ctr \in Container /\ prt \in Text
          BY <2>5, <3>3 DEF Job, Owns, Held, Owner, PreviewPlaces, Writing, TypeOK
        <5>2. job[p].ctr.ver \in Versions /\ job[p].ctr.fmt \in Formats /\ job[p].force \in BOOLEAN
          BY <3>3, <5>1 DEF Job, Container
        <5> QED
          BY <3>1, <5>1, <5>2 DEF Output
      <4> QED
        BY <4>1, Basics
    <3>5. Hashed(job[p].ctr) => out'.forced = TRUE \/ out'.body = Plain(out'.ver)
      <4>1. job[p].force \in BOOLEAN
        BY <3>3 DEF Job
      <4> QED
        BY <3>1, <3>2, <4>1
    <3> QED
      BY <2>5, <3>1, <3>3, <3>4, <3>5 DEF Trading, Hashed, Plain
  <2>6. CASE ctr' = ctr /\ EndPreview(p)
    <3>1. pc[p] = "print" /\ job' = job /\ job[p].preview
      BY <2>6 DEF EndPreview, Move, Owns, Held
    <3> QED
      BY <2>6, <3>1 DEF Trading
  <2> QED
    BY <1>3, <2>1, <2>2, <2>3, <2>4, <2>5, <2>6, ContainerStep
<1> QED
  BY <1>1, <1>2, <1>3 DEF Next

\* What is given up, and for what.
LEMMA TradedStep ==
  ASSUME NEW p \in Procs, Procs = {p}, TypeOK, Trading, [Next]_vars,
         ctr # None, ctr' = None, Hashed(ctr)
  PROVE  Traded
<1>1. Dispose(p)
  <2>1. CASE UNCHANGED vars \/ Encrypt \/ Damage
    <3>1. CASE UNCHANGED vars
      BY <3>1 DEF vars, files
    <3>2. CASE Encrypt
      <4>1. PICK c \in [ver : {made'}, fmt : Formats, bad : {{}}] : ctr' = c
        BY <3>2 DEF Encrypt
      <4>2. made' \in Versions
        BY <3>2, OutsideTypes DEF TypeOK
      <4>3. c \in Container
        BY <4>1, <4>2 DEF Container
      <4> QED
        BY <4>1, <4>3, Basics
    <3>3. CASE Damage
      BY <3>3, Basics DEF Damage, Container, TypeOK
    <3> QED
      BY <2>1, <3>1, <3>2, <3>3
  <2>2. CASE Start(p) \/ Run(p) \/ Kill(p)
    BY <2>2, ContainerStep
  <2> QED
    BY <2>1, <2>2 DEF Next
<1>2. pc[p] = "dispose" /\ ctr = job[p].ctr
  BY <1>1 DEF Dispose, Trading
<1>3. CASE job[p].preview
  BY <1>2, <1>3 DEF Traded
<1>4. CASE ~job[p].preview
  <2>1. /\ out # None /\ out.ver = ctr.ver
        /\ out.forced \/ out.body = Plain(out.ver)
    BY <1>2, <1>4 DEF Trading
  <2> QED
    BY <2>1 DEF UpToDate, Traded
<1> QED
  BY <1>3, <1>4

\* main disposes of the container after the lock has been released: with one process at work
\* on it, a container with a hash is given up by a decryption only for its plaintext, in
\* place, unless writing the buffers out fails.  (A second process that decrypts at the same
\* time can have taken the output away again.)
THEOREM ContainerTraded ==
  ASSUME NEW p \in Procs, Procs = {p}
  PROVE  ~FlushFails /\ Spec => ContainerOnlyTraded
<1>1. CASE ~FlushFails
  <2>1. Init => Trading
    BY DEF Init, Trading
  <2>2. Spec => [](TypeOK /\ Owns)
    BY DecryptTypes
  <2>3. Spec => []Follows
    BY <1>1, FollowsInit, FollowsStep, <2>2, PTL DEF Spec
  <2>4. TypeOK /\ Owns /\ Follows /\ Trading /\ [Next]_vars => Trading'
    BY TradingStep
  <2>5. Spec => []Trading
    BY <2>1, <2>2, <2>3, <2>4, PTL DEF Spec
  <2>6. TypeOK /\ Trading /\ [Next]_vars =>
          [ctr # None /\ ctr' = None /\ Hashed(ctr) => Traded]_vars
    BY TradedStep
  <2> QED
    BY <2>2, <2>5, <2>6, PTL DEF Spec, ContainerOnlyTraded
<1>2. CASE FlushFails
  BY <1>2
<1> QED
  BY <1>1, <1>2
=============================================================================
