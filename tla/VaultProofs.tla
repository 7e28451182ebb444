------------------------------ MODULE VaultProofs ------------------------------
(***************************************************************************)
(* What holds of the commands on a vault for any number of processes,      *)
(* files, random names, passwords, salts, commands given and faults.       *)
(***************************************************************************)
EXTENDS Vault, TLAPS

(***************************************************************************)
(* Names and places.                                                       *)
(***************************************************************************)
LEMMA PlaceFacts ==
  /\ Stores \subseteq Places /\ Places \subseteq Names /\ Files \subseteq Names
  /\ \A n \in Files \cup Stores : Tmp(n) \in Places /\ Tmp(n) \notin Stores
  /\ \A m, n : Tmp(m) = Tmp(n) => m = n
  /\ \A pl \in Places \ Stores : \E n \in Files \cup Stores : pl = Tmp(n)
  /\ Files \cap Stores = {}
  BY NamesApart DEF Places, Names, Tmp

LEMMA Basics ==
  /\ MaxSalt \in Nat \ {0} /\ MaxGiven \in Nat \ {0} /\ MaxFaults \in Nat
  /\ None \notin Box /\ None \notin Index /\ None \notin Entry
  /\ None \notin Salts /\ None \notin Files
  /\ Torn \notin Salts /\ Torn # None
  /\ IdleJob \in Job
<1>1. (CHOOSE w \in Passwords : TRUE) \in Passwords
  BY VaultConstants
<1>2. IdleJob \in Job
  BY <1>1 DEF IdleJob, Job, AllCommands
<1> QED
  BY <1>2, Markers, VaultConstants

LEMMA JobFields ==
  ASSUME NEW j \in Job
  PROVE  /\ j.cmd \in AllCommands /\ j.pw \in Passwords /\ j.new \in Passwords
         /\ j.dispose \in BOOLEAN /\ j.meta \in Salts \cup {None}
         /\ j.entries \in (SUBSET Entry) \cup {None} /\ j.todo \subseteq Files \cup Entry
         /\ j.file \in Files \cup {None} /\ j.entry \in Entry \cup {None}
         /\ j.failed \in BOOLEAN /\ j.dropped \in BOOLEAN /\ j.shared \in BOOLEAN
         /\ j = [cmd |-> j.cmd, pw |-> j.pw, new |-> j.new, dispose |-> j.dispose,
                 meta |-> j.meta, entries |-> j.entries, todo |-> j.todo, file |-> j.file,
                 entry |-> j.entry, failed |-> j.failed, dropped |-> j.dropped,
                 shared |-> j.shared]
  BY DEF Job

LEMMA FaultType ==
  ASSUME TypeOK, UNCHANGED faults \/ Fault
  PROVE  faults' \in 0..MaxFaults
  BY VaultConstants DEF TypeOK, Fault

\* Writing a file leaves it as it was, as it should be, or torn.
LEMMA WrittenFacts ==
  ASSUME TypeOK, NEW v, NEW old, NEW w \in Written(v, old), Count(w)
  PROVE  w.is \in {v, old, Torn} /\ faults' \in 0..MaxFaults
<1>0. \/ w = [is |-> v, ok |-> TRUE, fault |-> 0]
      \/ w = [is |-> old, ok |-> FALSE, fault |-> 1]
      \/ w = [is |-> Torn, ok |-> TRUE, fault |-> 1]
  BY DEF Written
<1>1. w.fault \in Nat /\ w.is \in {v, old, Torn}
  BY <1>0
<1>2. faults \in 0..MaxFaults /\ MaxFaults \in Nat
  BY VaultConstants DEF TypeOK
<1>3. faults + w.fault <= MaxFaults /\ faults' = faults + w.fault
  BY DEF Count
<1>5. faults' \in 0..MaxFaults
  BY <1>1, <1>2, <1>3
<1> QED
  BY <1>1, <1>5
-----------------------------------------------------------------------------
(***************************************************************************)
(* Types.                                                                  *)
(***************************************************************************)
\* A process goes on; of the others no more changes than that they had company.
Alone(p) ==
  \E place \in PcValues, j \in Job :
    pc' = [pc EXCEPT ![p] = place] /\ job' = [job EXCEPT ![p] = j]

Aside(p) ==
  \A q \in Procs \ {p} :
    /\ pc'[q] = pc[q]
    /\ job'[q].meta = job[q].meta /\ job'[q].entries = job[q].entries
    /\ job'[q].todo = job[q].todo /\ job'[q].file = job[q].file
    /\ job'[q].entry = job[q].entry

Moved(p) ==
  /\ pc' \in [Procs -> PcValues] /\ job' \in [Procs -> Job] /\ Aside(p)

LEMMA AloneMoved ==
  ASSUME NEW p \in Procs, TypeOK, Alone(p)
  PROVE  Moved(p)
  BY DEF TypeOK, Alone, Moved, Aside

LEMMA FinishAlone ==
  ASSUME NEW p \in Procs, TypeOK, Finish(p)
  PROVE  Alone(p)
  BY Basics DEF Finish, Goto, Alone, PcValues

\* A step that goes to a place of the program and does not touch the record of the job, or
\* gives it another one.
LEMMA GotoAlone ==
  ASSUME NEW p \in Procs, TypeOK, NEW place \in PcValues, Goto(p, place),
         NEW r \in Job, job' = [job EXCEPT ![p] = r]
  PROVE  Alone(p)
  BY DEF Goto, Alone

LEMMA SameJob ==
  ASSUME NEW p \in Procs, TypeOK, UNCHANGED job
  PROVE  job[p] \in Job /\ job' = [job EXCEPT ![p] = job[p]]
  BY DEF TypeOK

LEMMA SamePlace ==
  ASSUME NEW p \in Procs, TypeOK, UNCHANGED pc
  PROVE  pc[p] \in PcValues /\ Goto(p, pc[p])
  BY DEF TypeOK, Goto

\* What the invariant says of the process that matters for the types.
LEMMA HoldingTypes ==
  ASSUME NEW p \in Procs, TypeOK, Traces
  PROVE  LET j == job[p] IN
         /\ pc[p] \notin {"idle", "meta"} => j.meta \in Salts
         /\ pc[p] \in {"rewrap", "reseal", "seal", "recrypt", "reencrypt", "remove", "rename",
                       "write"} => j.entries \subseteq Entry
         /\ j.entry # None <=> pc[p] \in InHand
         /\ pc[p] \in InHand =>
              /\ j.entry \in Entry /\ j.entry.place \in used /\ j.entry.place \in Stores
              /\ j.file \in Files /\ j.entry.name \in {j.entry.place, j.file}
<1>1. Holding(p) /\ job[p] \in Job
  BY DEF Traces, TypeOK
<1>2. ASSUME pc[p] \in InHand
      PROVE  /\ job[p].entry \in Entry /\ job[p].entry.place \in used
             /\ job[p].entry.place \in Stores
             /\ job[p].file \in Files /\ job[p].entry.name \in {job[p].entry.place, job[p].file}
  <2>1. job[p].entry # None /\ job[p].entry \in Entry /\ job[p].entry.place \in used
    BY <1>1, <1>2, JobFields DEF Holding
  <2>2. PICK f \in Files : Of(job[p].entry.place, f)
    BY <2>1 DEF Traces
  <2>3. job[p].file = f /\ job[p].entry.name \in {job[p].entry.place, f}
    BY <2>1, <2>2 DEF Of
  <2> QED
    BY <2>1, <2>3 DEF TypeOK
<1> QED
  BY <1>1, <1>2 DEF Holding, Rewrapping, Recrypting

LEMMA AfterMetaType == \A c \in AllCommands : AfterMeta(c) \in PcValues
  BY DEF AfterMeta, AllCommands, PcValues

LEMMA ListedType ==
  ASSUME TypeOK, NEW j, IndexOpens(j)
  PROVE  Listed \subseteq Entry
  BY DEF TypeOK, IndexOpens, Listed, Index

LEMMA StepMoves ==
  ASSUME NEW p \in Procs, TypeOK, Traces, Begin(p) \/ Run(p) \/ Kill(p)
  PROVE  Moved(p)
<1> DEFINE j == job[p]
<1>0. j \in Job /\ pc[p] \in PcValues
  BY DEF TypeOK
<1>1. CASE Begin(p)
  <2>1. PICK c \in Commands, w, n \in Passwords, d \in BOOLEAN, fs \in SUBSET sources :
        /\ fs # {} <=> c = "add"
        /\ c # "rekey" => n = w
        /\ c # "add" => ~d
        /\ c \in {"init", "mount"} => w = IdleJob.pw
        /\ job' = [q \in Procs |->
            IF q = p
            THEN [IdleJob EXCEPT !.cmd = c, !.pw = w, !.new = n, !.dispose = d, !.todo = fs,
                                 !.shared = \E r \in Procs \ {p} : pc[r] # "idle"]
            ELSE [job[q] EXCEPT !.shared = @ \/ pc[q] # "idle"]]
    BY <1>1, Zenon DEF Begin
  <2>2. c \in AllCommands /\ fs \subseteq Files
    BY VaultConstants DEF TypeOK
  <2> DEFINE sh == \E r \in Procs \ {p} : pc[r] # "idle"
  <2>3. sh \in BOOLEAN
    OBVIOUS
  <2>4. \A x \in BOOLEAN :
          [IdleJob EXCEPT !.cmd = c, !.pw = w, !.new = n, !.dispose = d, !.todo = fs,
                          !.shared = x] \in Job
    BY <2>2, Basics DEF Job
  <2>5. [IdleJob EXCEPT !.cmd = c, !.pw = w, !.new = n, !.dispose = d, !.todo = fs,
                          !.shared = sh] \in Job
    BY <2>3, <2>4
  <2>6. \A q \in Procs \ {p} : \A x \in BOOLEAN :
          /\ [job[q] EXCEPT !.shared = x] \in Job
          /\ [job[q] EXCEPT !.shared = x].meta = job[q].meta
          /\ [job[q] EXCEPT !.shared = x].entries = job[q].entries
          /\ [job[q] EXCEPT !.shared = x].todo = job[q].todo
          /\ [job[q] EXCEPT !.shared = x].file = job[q].file
          /\ [job[q] EXCEPT !.shared = x].entry = job[q].entry
    BY DEF TypeOK, Job
  <2>7. \A q \in Procs \ {p} : \E x \in BOOLEAN : job'[q] = [job[q] EXCEPT !.shared = x]
    <3> SUFFICES ASSUME NEW q \in Procs \ {p}
                 PROVE  \E x \in BOOLEAN : job'[q] = [job[q] EXCEPT !.shared = x]
      OBVIOUS
    <3>1. job'[q] = [job[q] EXCEPT !.shared = @ \/ pc[q] # "idle"]
      BY <2>1
    <3>2. (job[q].shared \/ pc[q] # "idle") \in BOOLEAN
      OBVIOUS
    <3> QED
      BY <3>1, <3>2
  <2>8. job' \in [Procs -> Job]
    <3>1. \A q \in Procs : job'[q] \in Job
      <4> SUFFICES ASSUME NEW q \in Procs PROVE job'[q] \in Job
        OBVIOUS
      <4>1. CASE q = p
        BY <2>1, <2>5, <4>1
      <4>2. CASE q # p
        <5>1. PICK x \in BOOLEAN : job'[q] = [job[q] EXCEPT !.shared = x]
          BY <2>7, <4>2
        <5> QED
          BY <2>6, <4>2, <5>1
      <4> QED
        BY <4>1, <4>2
    <3>2. job' = [q \in Procs |-> job'[q]]
      BY <2>1
    <3> QED
      BY <3>1, <3>2
  <2>9. pc' = [pc EXCEPT ![p] = "meta"]
    BY <1>1 DEF Begin, Move, Goto
  <2>10. Aside(p)
    <3> SUFFICES ASSUME NEW q \in Procs \ {p}
                 PROVE  /\ pc'[q] = pc[q]
                        /\ job'[q].meta = job[q].meta /\ job'[q].entries = job[q].entries
                        /\ job'[q].todo = job[q].todo /\ job'[q].file = job[q].file
                        /\ job'[q].entry = job[q].entry
      BY DEF Aside
    <3>1. PICK x \in BOOLEAN : job'[q] = [job[q] EXCEPT !.shared = x]
      BY <2>7
    <3> QED
      BY <2>6, <2>9, <3>1 DEF TypeOK
  <2> QED
    BY <2>8, <2>9, <2>10 DEF Moved, TypeOK, PcValues
<1>2. CASE LoadMeta(p)
  <2>1. [j EXCEPT !.meta = meta] \in Job \/ meta \notin Salts
    BY <1>0 DEF Job
  <2>2. AfterMeta(j.cmd) \in PcValues
    BY <1>0, JobFields, AfterMetaType
  <2> QED
    BY <1>2, <2>1, <2>2, FinishAlone, AloneMoved DEF LoadMeta, Alone, Goto, TypeOK
<1>3. CASE InitMeta(p)
  <2>1. CASE Finish(p)
    BY <2>1, FinishAlone, AloneMoved
  <2>2. CASE /\ salts # MaxSalt /\ salts' = salts + 1 /\ Goto(p, AfterMeta(j.cmd))
             /\ job' = [job EXCEPT ![p].meta = salts']
    <3>1. salts' \in Salts
      BY <2>2, VaultConstants DEF TypeOK, Salts
    <3>2. [j EXCEPT !.meta = salts'] \in Job
      BY <1>0, <3>1 DEF Job
    <3>3. AfterMeta(j.cmd) \in PcValues
      BY <1>0, JobFields, AfterMetaType
    <3> QED
      BY <2>2, <3>2, <3>3, AloneMoved DEF Alone, Goto, TypeOK
  <2> QED
    BY <1>3, <2>1, <2>2 DEF InitMeta, OutOf
<1>4. CASE AddFile(p)
  <2>1. CASE UNCHANGED job /\ Goto(p, "done")
    BY <2>1, SameJob, AloneMoved DEF Alone, Goto, PcValues
  <2>2. CASE Finish(p)
    BY <2>2, FinishAlone, AloneMoved
  <2>3. ASSUME NEW f \in sources, NEW s \in Stores, Goto(p, "encrypt"),
               job' = [job EXCEPT ![p].file = f, ![p].todo = @ \ {f},
                                  ![p].entry = [name |-> f, place |-> s]]
        PROVE  Moved(p)
    <3>1. f \in Files /\ [name |-> f, place |-> s] \in Entry
      BY PlaceFacts DEF TypeOK, Entry
    <3>2. [j EXCEPT !.file = f, !.todo = @ \ {f}, !.entry = [name |-> f, place |-> s]] \in Job
      BY <1>0, <3>1 DEF Job
    <3> QED
      BY <2>3, <3>2, AloneMoved DEF Alone, Goto, TypeOK, PcValues
  <2> QED
    BY <1>4, <2>1, <2>2, <2>3 DEF AddFile
<1>5. CASE Encrypt(p)
  BY <1>5, SameJob, FinishAlone, AloneMoved DEF Encrypt, Alone, Goto, PcValues
<1>6. CASE Append(p)
  <2> DEFINE listed == (IF j.entries = None THEN Listed ELSE j.entries) \cup {j.entry}
  <2>1. CASE Finish(p)
    BY <2>1, FinishAlone, AloneMoved
  <2>2. CASE /\ ~(j.entries = None /\ ~IndexOpens(j))
             /\ Goto(p, "dispose") /\ job' = [job EXCEPT ![p].entries = listed]
    <3>1. listed \subseteq Entry
      BY <1>0, <1>6, <2>2, ListedType, HoldingTypes, JobFields DEF Append, InHand
    <3>2. [j EXCEPT !.entries = listed] \in Job
      BY <1>0, <3>1 DEF Job
    <3> QED
      BY <2>2, <3>2, AloneMoved DEF Alone, Goto, TypeOK, PcValues
  <2> QED
    BY <1>6, <2>1, <2>2 DEF Append
<1>7. CASE Dispose(p)
  <2>1. [j EXCEPT !.file = None, !.entry = None] \in Job
    BY <1>0 DEF Job
  <2>2. /\ pc' = [pc EXCEPT ![p] = "add"]
        /\ job' = [job EXCEPT ![p] = [j EXCEPT !.file = None, !.entry = None]]
    BY <1>7 DEF Dispose, Move, Goto, TypeOK
  <2>3. Alone(p)
    BY <2>1, <2>2 DEF Alone, PcValues
  <2> QED
    BY <2>3, AloneMoved
<1>8. CASE ReadIndex(p)
  <2>1. IndexOpens(j) => [j EXCEPT !.entries = Listed, !.todo = Listed] \in Job
    BY <1>0, ListedType DEF Job
  <2>2. CASE IndexOpens(j)
    <3>1. /\ pc' = [pc EXCEPT ![p] = IF job[p].cmd = "rekey" THEN "rewrap" ELSE "recrypt"]
          /\ job' = [job EXCEPT ![p] = [j EXCEPT !.entries = Listed, !.todo = Listed]]
      BY <1>8, <2>2 DEF ReadIndex, Goto, TypeOK
    <3>2. Alone(p)
      BY <2>1, <2>2, <3>1 DEF Alone, PcValues
    <3> QED
      BY <3>2, AloneMoved
  <2>3. CASE ~IndexOpens(j)
    BY <1>8, <2>3, FinishAlone, AloneMoved DEF ReadIndex
  <2> QED
    BY <2>2, <2>3
<1>9. CASE Rewrap(p)
  <2>1. PICK e \in j.todo :
          \/ job' = [job EXCEPT ![p].todo = @ \ {e}]
          \/ job' = [job EXCEPT ![p].todo = @ \ {e}, ![p].dropped = TRUE]
          \/ job' = [job EXCEPT ![p].todo = @ \ {e}, ![p].failed = TRUE]
    BY <1>9 DEF Rewrap
  <2>2. /\ [j EXCEPT !.todo = @ \ {e}] \in Job
        /\ [j EXCEPT !.todo = @ \ {e}, !.dropped = TRUE] \in Job
        /\ [j EXCEPT !.todo = @ \ {e}, !.failed = TRUE] \in Job
    BY <1>0 DEF Job
  <2>3. \E r \in Job : job' = [job EXCEPT ![p] = r]
    BY <2>1, <2>2 DEF TypeOK
  <2> QED
    BY <1>9, <2>3, SamePlace, AloneMoved DEF Rewrap, Alone, Goto
<1>10. CASE EndRewrap(p)
  BY <1>10, SameJob, FinishAlone, AloneMoved DEF EndRewrap, Alone, Goto, PcValues
<1>11. CASE SaveNewMeta(p)
  <2>1. CASE Finish(p)
    BY <2>1, FinishAlone, AloneMoved
  <2>2. CASE /\ salts # MaxSalt /\ salts' = salts + 1 /\ Goto(p, "seal")
             /\ job' = [job EXCEPT ![p].meta = salts']
    <3>1. salts' \in Salts
      BY <2>2, VaultConstants DEF TypeOK, Salts
    <3>2. [j EXCEPT !.meta = salts'] \in Job
      BY <1>0, <3>1 DEF Job
    <3> QED
      BY <2>2, <3>2, AloneMoved DEF Alone, Goto, TypeOK, PcValues
  <2> QED
    BY <1>11, <2>1, <2>2 DEF SaveNewMeta, OutOf
<1>12. CASE SealIndex(p)
  BY <1>12, SameJob, FinishAlone, AloneMoved DEF SealIndex, Alone, Goto, PcValues
<1>13. CASE Recrypt(p)
  <2>1. PICK e \in j.todo :
          \/ /\ boxes[e.place] # None /\ boxes[e.place].big
             /\ job' = [job EXCEPT ![p] = [j EXCEPT !.todo = @ \ {e}, !.entry = e,
                                                    !.file = boxes[e.place].file]]
             /\ Goto(p, "reencrypt")
          \/ job' = [job EXCEPT ![p] = [j EXCEPT !.todo = @ \ {e}]] /\ UNCHANGED pc
    BY <1>13 DEF Recrypt
  <2>2. pc[p] = "recrypt"
    BY <1>13 DEF Recrypt
  <2>3. e \in Entry
    BY <2>1, <2>2 DEF Traces, Holding, Recrypting
  <2>4. boxes[e.place] # None => boxes[e.place].file \in Files
    BY <2>3 DEF TypeOK, Entry, Box
  <2>5. [j EXCEPT !.todo = @ \ {e}] \in Job
    BY <1>0 DEF Job
  <2>6. boxes[e.place] # None =>
          [j EXCEPT !.todo = @ \ {e}, !.entry = e, !.file = boxes[e.place].file] \in Job
    BY <1>0, <2>3, <2>4 DEF Job
  <2>7. Alone(p)
    BY <1>0, <2>1, <2>5, <2>6 DEF Alone, Goto, PcValues, TypeOK
  <2> QED
    BY <2>7, AloneMoved
<1>14. CASE Reencrypt(p)
  <2>1. [j EXCEPT !.file = None, !.entry = None] \in Job
    BY <1>0 DEF Job
  <2>2. CASE Goto(p, "remove") /\ UNCHANGED job
    BY <2>2, SameJob, AloneMoved DEF Alone, Goto, PcValues
  <2>3. CASE Goto(p, "recrypt") /\ job' = [job EXCEPT ![p].file = None, ![p].entry = None]
    BY <2>1, <2>3, AloneMoved DEF Alone, Goto, TypeOK, PcValues
  <2> QED
    BY <1>14, <2>2, <2>3 DEF Reencrypt
<1>15. CASE RemoveOld(p)
  BY <1>15, SameJob, AloneMoved DEF RemoveOld, Move, Alone, Goto, PcValues
<1>16. CASE RenameNew(p)
  <2>1. [j EXCEPT !.file = None, !.entry = None] \in Job
    BY <1>0 DEF Job
  <2> QED
    BY <1>16, <2>1, AloneMoved DEF RenameNew, Move, Alone, Goto, TypeOK, PcValues
<1>17. CASE Clean(p)
  BY <1>17, SameJob, AloneMoved DEF Clean, Move, Alone, Goto, PcValues
<1>18. CASE Scan(p)
  <2> DEFINE found == {[name |-> IF boxes[pl].pw = job[p].pw THEN boxes[pl].name ELSE pl,
                        place |-> pl] : pl \in {x \in Places : boxes[x] # None}}
  <2>1. \A pl \in Places : boxes[pl] # None => boxes[pl].name \in Names /\ pl \in Names
    BY PlaceFacts DEF TypeOK, Box
  <2>2. found \subseteq Entry
    BY <2>1 DEF Entry
  <2>3. [j EXCEPT !.entries = found] \in Job
    BY <1>0, <2>2 DEF Job
  <2>4. job' = [job EXCEPT ![p] = [j EXCEPT !.entries = found]] /\ Goto(p, "write")
    BY <1>18 DEF Scan, Move, TypeOK
  <2> HIDE DEF found
  <2>5. Alone(p)
    BY <2>3, <2>4 DEF Alone, Goto, PcValues
  <2> QED
    BY <2>5, AloneMoved
<1>19. CASE WriteIndex(p)
  BY <1>19, SameJob, FinishAlone, AloneMoved DEF WriteIndex, Alone, Goto, PcValues
<1>20. CASE SaveMeta(p) \/ Done(p) \/ Kill(p)
  BY <1>20, FinishAlone, AloneMoved DEF SaveMeta, Done, Kill
<1> QED
  BY <1>1, <1>2, <1>3, <1>4, <1>5, <1>6, <1>7, <1>8, <1>9, <1>10, <1>11, <1>12, <1>13, <1>14,
     <1>15, <1>16, <1>17, <1>18, <1>19, <1>20 DEF Run
-----------------------------------------------------------------------------
DiskTyped ==
  /\ meta' \in Salts \cup {None, Torn} /\ salts' \in 0..MaxSalt
  /\ index' \in Index \cup {None, Torn}
  /\ boxes' \in [Places -> Box \cup {None}]
  /\ used' \subseteq Stores /\ sources' \subseteq Files /\ exposed' \subseteq Files
  /\ given' \in 0..MaxGiven /\ faults' \in 0..MaxFaults

\* One container is changed, made or removed.
LEMMA PutBox ==
  ASSUME TypeOK, NEW pl, NEW b \in Box \cup {None}, boxes' = [boxes EXCEPT ![pl] = b]
  PROVE  boxes' \in [Places -> Box \cup {None}]
  BY DEF TypeOK

LEMMA BoxFields ==
  ASSUME TypeOK, NEW pl \in Places, boxes[pl] # None
  PROVE  /\ boxes[pl] \in Box /\ boxes[pl].file \in Files /\ boxes[pl].name \in Names
         /\ boxes[pl].pw \in Passwords
         /\ boxes[pl].big \in BOOLEAN /\ boxes[pl].whole \in BOOLEAN
         /\ \A w \in Passwords : [boxes[pl] EXCEPT !.pw = w] \in Box
         /\ \A n \in Names : [boxes[pl] EXCEPT !.whole = TRUE, !.name = n] \in Box
  BY DEF TypeOK, Box

\* An index that is written lists entries.
LEMMA WriteIndexType ==
  ASSUME NEW p \in Procs, TypeOK, NEW w \in Passwords, NEW m \in Salts, NEW es,
         es \subseteq Entry, NEW new \in Written([pw |-> w, salt |-> m, entries |-> es], index),
         Count(new), index' = new.is
  PROVE  index' \in Index \cup {None, Torn} /\ faults' \in 0..MaxFaults
<1>1. [pw |-> w, salt |-> m, entries |-> es] \in Index
  BY DEF Index
<1>2. new.is \in {[pw |-> w, salt |-> m, entries |-> es], index, Torn} /\ faults' \in 0..MaxFaults
  BY WrittenFacts
<1> QED
  BY <1>1, <1>2 DEF TypeOK

\* What is written anew, under the random name or that of the file, beside the containers.
LEMMA ReencryptPut ==
  ASSUME NEW p \in Procs, TypeOK, Traces, Reencrypt(p)
  PROVE  LET new == [file |-> job[p].file, name |-> job[p].entry.name, pw |-> job[p].pw,
                     big |-> FALSE, whole |-> TRUE]
             tmp == Tmp(job[p].entry.name)
         IN  /\ new \in Box /\ [new EXCEPT !.whole = FALSE, !.name = tmp] \in Box
             /\ job[p].entry.name \in Files \cup Stores
             /\ tmp \in Places /\ tmp \notin Stores
             /\ \/ boxes' = [boxes EXCEPT ![tmp] = new]
                \/ boxes' = [boxes EXCEPT ![tmp] = [new EXCEPT !.whole = FALSE, !.name = tmp]]
                \/ UNCHANGED boxes
<1>1. pc[p] \in InHand /\ job[p] \in Job
  BY DEF Reencrypt, InHand, TypeOK
<1>2. /\ job[p].file \in Files /\ job[p].pw \in Passwords
      /\ job[p].entry.name \in Files \cup Stores
  BY <1>1, HoldingTypes, JobFields
<1>3. /\ Tmp(job[p].entry.name) \in Places /\ Tmp(job[p].entry.name) \notin Stores
      /\ Tmp(job[p].entry.name) \in Names /\ job[p].entry.name \in Names
  BY <1>2, PlaceFacts
<1> QED
  BY <1>2, <1>3 DEF Box, Reencrypt

LEMMA StepDisk ==
  ASSUME NEW p \in Procs, TypeOK, Traces, Begin(p) \/ Run(p) \/ Kill(p)
  PROVE  DiskTyped
<1> DEFINE j == job[p]
<1> USE DEF DiskTyped
<1>0. /\ j \in Job /\ pc[p] \in PcValues /\ j.pw \in Passwords /\ j.new \in Passwords
      /\ j.meta \in Salts \cup {None}
  <2>1. j \in Job /\ pc[p] \in PcValues
    BY DEF TypeOK
  <2> QED
    BY <2>1, JobFields
<1>1. CASE Begin(p)
  <2>1. given < MaxGiven /\ given' = given + 1 /\ UNCHANGED <<disk, faults>>
    BY <1>1, Zenon DEF Begin
  <2> QED
    BY <2>1, VaultConstants DEF disk, TypeOK
<1>2. CASE LoadMeta(p) \/ ReadIndex(p) \/ EndRewrap(p) \/ Scan(p) \/ Done(p)
  BY <1>2 DEF LoadMeta, ReadIndex, EndRewrap, Scan, Done, disk, TypeOK
<1>3. CASE Recrypt(p) \/ Kill(p)
  <2>1. UNCHANGED faults \/ Fault
    BY <1>3 DEF Recrypt, Kill
  <2> QED
    BY <1>3, <2>1, FaultType DEF Recrypt, Kill, disk, TypeOK
<1>4. CASE InitMeta(p)
  <2>1. CASE UNCHANGED <<meta, salts, faults>>
    BY <1>4, <2>1 DEF InitMeta, TypeOK
  <2>2. CASE ~UNCHANGED <<meta, salts, faults>>
    <3>1. salts # MaxSalt /\ salts' = salts + 1
      BY <1>4, <2>2, Zenon DEF InitMeta, OutOf
    <3>2. PICK w \in Written(salts', None) : Count(w) /\ meta' = w.is
      BY <1>4, <2>2, Zenon DEF InitMeta, OutOf
    <3>3. w.is \in {salts', None, Torn} /\ faults' \in 0..MaxFaults
      BY <3>2, WrittenFacts
    <3>4. salts' \in 0..MaxSalt /\ salts' \in Salts
      BY <3>1, VaultConstants DEF TypeOK, Salts
    <3> QED
      BY <1>4, <3>2, <3>3, <3>4 DEF InitMeta, TypeOK
  <2> QED
    BY <2>1, <2>2
<1>5. CASE AddFile(p)
  <2>1. CASE UNCHANGED <<boxes, used>>
    BY <1>5, <2>1 DEF AddFile, TypeOK
  <2>2. ASSUME NEW f \in sources, NEW s \in Stores \ used, used' = used \cup {s},
               boxes' = [boxes EXCEPT ![s] = [file |-> f, name |-> s, pw |-> j.pw,
                                              big |-> TRUE, whole |-> FALSE]]
        PROVE  used' \subseteq Stores /\ boxes' \in [Places -> Box \cup {None}]
    <3>1. [file |-> f, name |-> s, pw |-> j.pw, big |-> TRUE, whole |-> FALSE] \in Box
      BY <1>0, PlaceFacts DEF TypeOK, Box
    <3> QED
      BY <2>2, <3>1, PutBox DEF TypeOK
  <2>3. \/ UNCHANGED <<boxes, used>>
        \/ \E f \in sources, s \in Stores \ used :
             /\ used' = used \cup {s}
             /\ boxes' = [boxes EXCEPT ![s] = [file |-> f, name |-> s, pw |-> j.pw,
                                              big |-> TRUE, whole |-> FALSE]]
    BY <1>5 DEF AddFile
  <2>4. used' \subseteq Stores /\ boxes' \in [Places -> Box \cup {None}]
    <3>1. CASE UNCHANGED <<boxes, used>>
      BY <3>1 DEF TypeOK
    <3> QED
      BY <2>2, <2>3, <3>1
  <2> QED
    BY <1>5, <2>4 DEF AddFile, TypeOK
<1>6. CASE Encrypt(p)
  <2> DEFINE s == j.entry.place
  <2>1. s \in Places /\ boxes[s] # None /\ j.file \in Names /\ pc[p] = "encrypt"
    BY <1>6, HoldingTypes, PlaceFacts DEF Encrypt, InHand, Traces, Holding
  <2>2. \/ boxes' = [boxes EXCEPT ![s] = [boxes[s] EXCEPT !.whole = TRUE, !.name = j.file]]
        \/ UNCHANGED boxes
    BY <1>6, <2>1 DEF Encrypt, TypeOK
  <2>3. boxes' \in [Places -> Box \cup {None}]
    BY <2>1, <2>2, BoxFields, PutBox DEF TypeOK
  <2>4. faults' \in 0..MaxFaults
    BY <1>6, FaultType DEF Encrypt
  <2> QED
    BY <1>6, <2>3, <2>4 DEF Encrypt, TypeOK
<1>7. CASE Append(p)
  <2> DEFINE listed == (IF j.entries = None THEN Listed ELSE j.entries) \cup {j.entry}
  <2>1. CASE UNCHANGED <<index, faults>>
    BY <1>7, <2>1 DEF Append, TypeOK
  <2>2. CASE ~UNCHANGED <<index, faults>>
    <3>1. PICK w \in Written([pw |-> j.pw, salt |-> j.meta, entries |-> listed], index) :
            Count(w) /\ index' = w.is
      BY <1>7, <2>2, Zenon DEF Append
    <3>2. ~(j.entries = None /\ ~IndexOpens(j))
      BY <1>7, <2>2, Zenon DEF Append
    <3>3. j.meta \in Salts /\ j.entry \in Entry
      BY <1>7, HoldingTypes DEF Append, InHand
    <3>4. listed \subseteq Entry
      BY <1>0, <3>2, <3>3, ListedType, JobFields
    <3>5. index' \in Index \cup {None, Torn} /\ faults' \in 0..MaxFaults
      BY <1>0, <3>1, <3>3, <3>4, WriteIndexType
    <3> QED
      BY <1>7, <3>5 DEF Append, TypeOK
  <2> QED
    BY <2>1, <2>2
<1>8. CASE Dispose(p)
  <2>1. faults' \in 0..MaxFaults /\ sources' \subseteq sources
    BY <1>8, FaultType DEF Dispose
  <2> QED
    BY <1>8, <2>1 DEF Dispose, TypeOK
<1>9. CASE Rewrap(p)
  <2>1. PICK e \in j.todo :
          \/ /\ boxes[e.place] # None
             /\ boxes' = [boxes EXCEPT ![e.place].pw = job[p].new]
          \/ UNCHANGED boxes
    BY <1>9, Zenon DEF Rewrap
  <2>2. e \in Entry
    BY <1>9 DEF Rewrap, Traces, Holding, Rewrapping
  <2>3. e.place \in Places
    BY <2>2 DEF Entry
  <2>4. \/ boxes[e.place] # None /\ boxes' = [boxes EXCEPT ![e.place] =
                                              [boxes[e.place] EXCEPT !.pw = j.new]]
        \/ UNCHANGED boxes
    BY <2>1, <2>3 DEF TypeOK
  <2>5. boxes' \in [Places -> Box \cup {None}]
    BY <1>0, <2>3, <2>4, BoxFields, PutBox DEF TypeOK
  <2>6. faults' \in 0..MaxFaults
    <3>1. UNCHANGED faults \/ Fault
      BY <1>9, Zenon DEF Rewrap
    <3> QED
      BY <3>1, FaultType
  <2> QED
    BY <1>9, <2>5, <2>6 DEF Rewrap, TypeOK
<1>10. CASE SaveNewMeta(p)
  <2>1. CASE UNCHANGED <<meta, salts, faults>>
    BY <1>10, <2>1 DEF SaveNewMeta, TypeOK
  <2>2. CASE ~UNCHANGED <<meta, salts, faults>>
    <3>1. salts # MaxSalt /\ salts' = salts + 1
      BY <1>10, <2>2, Zenon DEF SaveNewMeta, OutOf
    <3>2. PICK w \in Written(salts', meta) : Count(w) /\ meta' = w.is
      BY <1>10, <2>2, Zenon DEF SaveNewMeta, OutOf
    <3>3. w.is \in {salts', meta, Torn} /\ faults' \in 0..MaxFaults
      BY <3>2, WrittenFacts
    <3>4. salts' \in 0..MaxSalt /\ salts' \in Salts
      BY <3>1, VaultConstants DEF TypeOK, Salts
    <3> QED
      BY <1>10, <3>2, <3>3, <3>4 DEF SaveNewMeta, TypeOK
  <2> QED
    BY <2>1, <2>2
<1>11. CASE SealIndex(p)
  <2>1. PICK w \in Written([pw |-> j.new, salt |-> j.meta, entries |-> j.entries], index) :
          Count(w) /\ index' = w.is
    BY <1>11, Zenon DEF SealIndex
  <2>2. j.meta \in Salts /\ j.entries \subseteq Entry
    BY <1>11, HoldingTypes DEF SealIndex
  <2>3. index' \in Index \cup {None, Torn} /\ faults' \in 0..MaxFaults
    BY <1>0, <2>1, <2>2, WriteIndexType
  <2> QED
    BY <1>11, <2>3 DEF SealIndex, TypeOK
<1>12. CASE Reencrypt(p)
  <2>1. faults' \in 0..MaxFaults
    BY <1>12, FaultType DEF Reencrypt
  <2>2. boxes' \in [Places -> Box \cup {None}]
    BY <1>12, ReencryptPut, PutBox DEF TypeOK
  <2> QED
    BY <1>12, <2>1, <2>2 DEF Reencrypt, TypeOK
<1>13. CASE RemoveOld(p)
  <2>1. faults' \in 0..MaxFaults
    BY <1>13, FaultType DEF RemoveOld
  <2>2. boxes' \in [Places -> Box \cup {None}]
    BY <1>13, PutBox DEF RemoveOld, TypeOK
  <2>3. j.file \in Files
    BY <1>13, HoldingTypes DEF RemoveOld, Move, InHand
  <2> QED
    BY <1>13, <2>1, <2>2, <2>3 DEF RemoveOld, TypeOK
<1>14. CASE RenameNew(p)
  <2>1. faults' \in 0..MaxFaults
    BY <1>14, FaultType DEF RenameNew
  <2>2. j.file \in Files /\ Tmp(j.entry.name) \in Places
    BY <1>14, HoldingTypes, PlaceFacts DEF RenameNew, Move, InHand
  <2>3. boxes' \in [Places -> Box \cup {None}]
    BY <1>14, <2>2 DEF RenameNew, TypeOK
  <2>4. exposed' \subseteq Files
    BY <1>14, <2>2 DEF RenameNew, TypeOK
  <2> QED
    BY <1>14, <2>1, <2>3, <2>4 DEF RenameNew, TypeOK
<1>15. CASE Clean(p)
  BY <1>15 DEF Clean, TypeOK
<1>16. CASE WriteIndex(p)
  <2>1. PICK w \in Written([pw |-> j.pw, salt |-> j.meta, entries |-> j.entries], index) :
          Count(w) /\ index' = w.is
    BY <1>16, Zenon DEF WriteIndex
  <2>2. j.meta \in Salts /\ j.entries \subseteq Entry
    BY <1>16, HoldingTypes DEF WriteIndex
  <2>3. index' \in Index \cup {None, Torn} /\ faults' \in 0..MaxFaults
    BY <1>0, <2>1, <2>2, WriteIndexType
  <2> QED
    BY <1>16, <2>3 DEF WriteIndex, TypeOK
<1>17. CASE SaveMeta(p)
  <2>1. PICK w \in Written(j.meta, meta) : Count(w) /\ meta' = w.is
    BY <1>17 DEF SaveMeta
  <2>2. w.is \in {j.meta, meta, Torn} /\ faults' \in 0..MaxFaults
    BY <2>1, WrittenFacts
  <2> QED
    BY <1>0, <1>17, <2>1, <2>2 DEF SaveMeta, TypeOK
<1> QED
  BY <1>1, <1>2, <1>3, <1>4, <1>5, <1>6, <1>7, <1>8, <1>9, <1>10, <1>11, <1>12, <1>13, <1>14,
     <1>15, <1>16, <1>17 DEF Run

LEMMA StepTypes ==
  ASSUME NEW p \in Procs, TypeOK, Traces, Begin(p) \/ Run(p) \/ Kill(p)
  PROVE  TypeOK'
  BY StepMoves, StepDisk DEF Moved, DiskTyped, TypeOK
-----------------------------------------------------------------------------
(***************************************************************************)
(* Whose container is where: what a step does to the containers.           *)
(***************************************************************************)
BoxesOf(s, f) ==
  /\ boxes[s] # None => boxes[s].file = f /\ (boxes[s].big => boxes[s].name \in {s, f})
  /\ boxes[Tmp(s)] # None => boxes[Tmp(s)].file = f

\* What is at the place pl after a step of p is what the place is for.
PutsWell(p, pl) ==
  LET c == boxes'[pl] IN
  /\ c # None /\ pl \in Stores =>
       /\ pl \in used
       /\ \A f \in Files : Of(pl, f) => c.file = f /\ (c.big => c.name \in {pl, f})
       /\ c.big => boxes[pl] # None /\ boxes[pl].big /\ boxes[pl].file = c.file
  /\ c # None /\ pl \notin Stores =>
       /\ ~c.big
       /\ \A n \in Files \cup Stores : pl = Tmp(n) =>
            /\ n \in Files => c.file = n
            /\ n \in Stores => n \in used /\ \A f \in Files : Of(n, f) => c.file = f
  /\ \A q \in Procs \ {p} :
       pc[q] = "encrypt" /\ pl = job[q].entry.place => c # None /\ ~c.whole

BoxesStep(p) ==
  /\ used \subseteq used'
  /\ \A s \in used : boxes'[s] # None /\ boxes'[s].big =>
       boxes[s] # None /\ boxes[s].big /\ boxes[s].file = boxes'[s].file
  /\ \A s \in used, f \in Files : Of(s, f) => BoxesOf(s, f)'
  /\ \A s \in Stores \ used' : boxes'[s] = None /\ boxes'[Tmp(s)] = None
  /\ \A f \in Files : boxes'[Tmp(f)] # None => boxes'[Tmp(f)].file = f
  /\ \A pl \in Places \ Stores : boxes'[pl] # None => ~boxes'[pl].big
  /\ \A q \in Procs \ {p} : pc[q] = "encrypt" =>
       boxes'[job[q].entry.place] # None /\ ~boxes'[job[q].entry.place].whole

LEMMA PutsWellIsEnough ==
  ASSUME NEW p \in Procs, TypeOK, Traces, used' = used,
         \A pl \in Places : boxes'[pl] = boxes[pl] \/ PutsWell(p, pl)
  PROVE  BoxesStep(p)
<1>1. \A s \in used : boxes'[s] # None /\ boxes'[s].big =>
        boxes[s] # None /\ boxes[s].big /\ boxes[s].file = boxes'[s].file
  BY PlaceFacts DEF PutsWell, TypeOK
<1>2. ASSUME NEW s \in used, NEW f \in Files, Of(s, f)
      PROVE  BoxesOf(s, f)'
  <2>1. s \in Stores /\ s \in Places /\ Tmp(s) \in Places /\ Tmp(s) \notin Stores
    BY PlaceFacts DEF TypeOK
  <2>2. boxes'[s] # None => boxes'[s].file = f /\ (boxes'[s].big => boxes'[s].name \in {s, f})
    BY <1>2, <2>1 DEF Of, PutsWell
  <2>3. boxes'[Tmp(s)] # None => boxes'[Tmp(s)].file = f
    BY <1>2, <2>1 DEF Of, PutsWell
  <2> QED
    BY <2>2, <2>3 DEF BoxesOf
<1>3. \A s \in Stores \ used : boxes'[s] = None /\ boxes'[Tmp(s)] = None
  <2> SUFFICES ASSUME NEW s \in Stores \ used
               PROVE  boxes'[s] = None /\ boxes'[Tmp(s)] = None
    OBVIOUS
  <2>1. s \in Places /\ Tmp(s) \in Places /\ Tmp(s) \notin Stores
    BY PlaceFacts
  <2>2. boxes[s] = None /\ boxes[Tmp(s)] = None
    BY DEF Traces
  <2>3. boxes'[s] = None
    BY <2>1, <2>2 DEF PutsWell
  <2>4. boxes'[Tmp(s)] = None
    BY <2>1, <2>2 DEF PutsWell
  <2> QED
    BY <2>3, <2>4
<1>4. \A f \in Files : boxes'[Tmp(f)] # None => boxes'[Tmp(f)].file = f
  <2> SUFFICES ASSUME NEW f \in Files, boxes'[Tmp(f)] # None
               PROVE  boxes'[Tmp(f)].file = f
    OBVIOUS
  <2>1. Tmp(f) \in Places /\ Tmp(f) \notin Stores
    BY PlaceFacts
  <2> QED
    BY <2>1 DEF Traces, PutsWell
<1>5. \A pl \in Places \ Stores : boxes'[pl] # None => ~boxes'[pl].big
  BY DEF Traces, PutsWell
<1>6. ASSUME NEW q \in Procs \ {p}, pc[q] = "encrypt"
      PROVE  boxes'[job[q].entry.place] # None /\ ~boxes'[job[q].entry.place].whole
  <2>1. job[q].entry.place \in Places
    BY <1>6, HoldingTypes, PlaceFacts DEF InHand
  <2>2. boxes[job[q].entry.place] # None /\ ~boxes[job[q].entry.place].whole
    BY <1>6 DEF Traces, Holding
  <2> QED
    BY <1>6, <2>1, <2>2 DEF PutsWell
<1> QED
  BY <1>1, <1>2, <1>3, <1>4, <1>5, <1>6 DEF BoxesStep

\* Nobody has in hand the container another is still making.
LEMMA OthersEncrypt ==
  ASSUME NEW p \in Procs, TypeOK, Traces, pc[p] \in InHand,
         NEW q \in Procs \ {p}, pc[q] = "encrypt"
  PROVE  /\ job[q].entry.place # job[p].entry.place
         /\ job[q].entry.place \in Stores
<1>1. job[p].entry # None
  BY HoldingTypes
<1>2. Holding(q)
  BY DEF Traces
<1>3. job[q].entry.place \in Stores
  BY HoldingTypes DEF InHand
<1> QED
  BY <1>1, <1>2, <1>3 DEF Holding

\* The container in hand is of the file in hand.
LEMMA InHandOf ==
  ASSUME NEW p \in Procs, TypeOK, Traces, pc[p] \in InHand
  PROVE  Of(job[p].entry.place, job[p].file)
<1>1. job[p].entry # None /\ job[p].entry.place \in used
  BY HoldingTypes
<1>2. PICK f \in Files : Of(job[p].entry.place, f)
  BY <1>1 DEF Traces
<1>3. job[p].file = f
  BY <1>1, <1>2 DEF Of
<1> QED
  BY <1>2, <1>3

LEMMA StepBoxes ==
  ASSUME NEW p \in Procs, TypeOK, Traces, Begin(p) \/ Run(p) \/ Kill(p)
  PROVE  BoxesStep(p)
<1> DEFINE j == job[p]
           s == j.entry.place
<1>1. CASE UNCHANGED <<boxes, used>>
  BY <1>1, PutsWellIsEnough
<1>2. CASE AddFile(p) /\ ~UNCHANGED <<boxes, used>>
  <2>1. PICK f \in Files, x \in Stores \ used :
          /\ used' = used \cup {x}
          /\ boxes' = [boxes EXCEPT ![x] = [file |-> f, name |-> x, pw |-> j.pw,
                                            big |-> TRUE, whole |-> FALSE]]
    BY <1>2, Zenon DEF AddFile, TypeOK
  <2>2. \A pl \in Places \ {x} : boxes'[pl] = boxes[pl]
    BY <2>1 DEF TypeOK
  <2>3. x \notin used /\ x \in Stores
    OBVIOUS
  <2>4. \A y \in used : boxes'[y] = boxes[y] /\ boxes'[Tmp(y)] = boxes[Tmp(y)]
    BY <2>2, <2>3, PlaceFacts DEF TypeOK
  <2>5. \A y \in Stores \ used' : boxes'[y] = None /\ boxes'[Tmp(y)] = None
    <3> SUFFICES ASSUME NEW y \in Stores \ used'
                 PROVE  boxes'[y] = None /\ boxes'[Tmp(y)] = None
      OBVIOUS
    <3>1. y \notin used /\ y # x /\ y \in Places /\ Tmp(y) \in Places /\ Tmp(y) # x
      BY <2>1, PlaceFacts
    <3> QED
      BY <2>2, <3>1 DEF Traces
  <2>6. \A g \in Files : boxes'[Tmp(g)] = boxes[Tmp(g)]
    BY <2>2, PlaceFacts
  <2>7. \A pl \in Places \ Stores : boxes'[pl] = boxes[pl]
    BY <2>2
  <2>8. ASSUME NEW q \in Procs \ {p}, pc[q] = "encrypt"
        PROVE  boxes'[job[q].entry.place] # None /\ ~boxes'[job[q].entry.place].whole
    <3>1. job[q].entry.place \in used
      BY <2>8, HoldingTypes DEF InHand
    <3>2. boxes[job[q].entry.place] # None /\ ~boxes[job[q].entry.place].whole
      BY <2>8 DEF Traces, Holding
    <3> QED
      BY <2>4, <3>1, <3>2
  <2>9. used \subseteq used'
    BY <2>1
  <2>10. \A y \in used, g \in Files : Of(y, g) => BoxesOf(y, g)'
    BY <2>4 DEF Of, BoxesOf
  <2>11. /\ \A g \in Files : boxes'[Tmp(g)] # None => boxes'[Tmp(g)].file = g
         /\ \A pl \in Places \ Stores : boxes'[pl] # None => ~boxes'[pl].big
    BY <2>6, <2>7 DEF Traces
  <2> QED
    BY <2>4, <2>5, <2>8, <2>9, <2>10, <2>11 DEF BoxesStep
<1>3. CASE Encrypt(p) /\ ~UNCHANGED <<boxes, used>>
  <2>1. pc[p] = "encrypt" /\ used' = used
    BY <1>3 DEF Encrypt
  <2>2. s \in Places /\ s \in Stores /\ s \in used /\ boxes[s] # None /\ Of(s, j.file)
    BY <2>1, HoldingTypes, InHandOf, PlaceFacts DEF InHand, Traces, Holding
  <2>3. boxes' = [boxes EXCEPT ![s] = [boxes[s] EXCEPT !.whole = TRUE, !.name = j.file]]
    BY <1>3, <2>1, <2>2 DEF Encrypt, TypeOK
  <2>4. boxes[s] \in Box /\ boxes[s].file = j.file
    BY <2>2, BoxFields DEF Of
  <2>5. /\ boxes'[s].file = j.file /\ boxes'[s].name = j.file
        /\ boxes'[s].big => boxes[s].big
    BY <2>2, <2>3, <2>4 DEF Box, TypeOK
  <2>6. \A f \in Files : Of(s, f) => f = j.file
    BY <2>2, <2>4 DEF Of
  <2>7. PutsWell(p, s)
    BY <2>1, <2>2, <2>4, <2>5, <2>6, OthersEncrypt DEF PutsWell, InHand
  <2>8. \A pl \in Places \ {s} : boxes'[pl] = boxes[pl]
    BY <2>3 DEF TypeOK
  <2> QED
    BY <2>1, <2>7, <2>8, PutsWellIsEnough
<1>4. CASE Rewrap(p) /\ ~UNCHANGED <<boxes, used>>
  <2>1. PICK e \in j.todo : boxes[e.place] # None /\ boxes' = [boxes EXCEPT ![e.place].pw = j.new]
    BY <1>4, Zenon DEF Rewrap
  <2>2. e \in Entry /\ used' = used
    BY <1>4 DEF Rewrap, Traces, Holding, Rewrapping
  <2> DEFINE pl == e.place
  <2>3. pl \in Places
    BY <2>2 DEF Entry
  <2>4. boxes[pl] \in Box
    BY <2>1, <2>3, BoxFields
  <2>5. boxes'[pl] = [boxes[pl] EXCEPT !.pw = j.new]
    BY <2>1, <2>3 DEF TypeOK
  <2>6. /\ boxes'[pl].file = boxes[pl].file /\ boxes'[pl].name = boxes[pl].name
        /\ boxes'[pl].big <=> boxes[pl].big
        /\ boxes'[pl].whole <=> boxes[pl].whole
        /\ boxes'[pl] # None
    <3>1. boxes'[pl] \in Box
      BY <2>1, <2>3, <2>5, BoxFields, JobFields DEF TypeOK
    <3> QED
      BY <2>4, <2>5, <3>1, Basics DEF Box
  <2>7. pl \in Stores =>
          /\ pl \in used
          /\ \A f \in Files : Of(pl, f) =>
               boxes[pl].file = f /\ (boxes[pl].big => boxes[pl].name \in {pl, f})
    BY <2>1 DEF Traces, Of
  <2>8. pl \notin Stores =>
          /\ ~boxes[pl].big
          /\ \A n \in Files \cup Stores : pl = Tmp(n) =>
               /\ n \in Files => boxes[pl].file = n
               /\ n \in Stores => n \in used /\ \A f \in Files : Of(n, f) => boxes[pl].file = f
    BY <2>1, <2>3 DEF Traces, Of
  <2>9. \A q \in Procs \ {p} :
          pc[q] = "encrypt" /\ pl = job[q].entry.place => ~boxes[pl].whole
    BY DEF Traces, Holding
  <2> HIDE DEF pl
  <2>10. PutsWell(p, pl)
    BY <2>1, <2>6, <2>7, <2>8, <2>9 DEF PutsWell, pl
  <2>11. \A x \in Places \ {pl} : boxes'[x] = boxes[x]
    BY <2>1 DEF TypeOK, pl
  <2> QED
    BY <2>2, <2>10, <2>11, PutsWellIsEnough
<1>5. CASE Reencrypt(p) /\ ~UNCHANGED <<boxes, used>>
  <2> DEFINE n == j.entry.name
             tmp == Tmp(n)
  <2>1. pc[p] \in InHand /\ used' = used
    BY <1>5 DEF Reencrypt, InHand
  <2>2. /\ s \in used /\ s \in Stores /\ j.file \in Files /\ n \in {s, j.file}
        /\ Of(s, j.file)
    BY <2>1, HoldingTypes, InHandOf
  <2>3. /\ tmp \in Places /\ tmp \notin Stores
        /\ \A pl \in Places \ {tmp} : boxes'[pl] = boxes[pl]
        /\ ~boxes'[tmp].big /\ boxes'[tmp].file = j.file
    <3> DEFINE c1 == [file |-> j.file, name |-> n, pw |-> j.pw, big |-> FALSE, whole |-> TRUE]
               c2 == [c1 EXCEPT !.whole = FALSE, !.name = tmp]
    <3>1. /\ tmp \in Places /\ tmp \notin Stores
          /\ boxes' = [boxes EXCEPT ![tmp] = c1] \/ boxes' = [boxes EXCEPT ![tmp] = c2]
      BY <1>5, <2>1, ReencryptPut
    <3>2. c1.file = j.file /\ ~c1.big /\ c2.file = j.file /\ ~c2.big
      OBVIOUS
    <3> HIDE DEF c1, c2
    <3> QED
      BY <3>1, <3>2 DEF TypeOK
  <2>4. ASSUME NEW m \in Files \cup Stores, tmp = Tmp(m)
        PROVE  /\ m \in Files => j.file = m
               /\ m \in Stores => m \in used /\ \A f \in Files : Of(m, f) => j.file = f
    <3>1. m = n
      BY <2>4, PlaceFacts
    <3>2. m \in Files => m = j.file
      BY <2>2, <3>1, PlaceFacts
    <3>3. m \in Stores => m = s
      BY <2>2, <3>1, PlaceFacts
    <3>4. \A f \in Files : Of(s, f) => j.file = f
      BY <2>1, HoldingTypes DEF Of
    <3> QED
      BY <2>2, <3>2, <3>3, <3>4
  <2>5. \A q \in Procs \ {p} : pc[q] = "encrypt" => tmp # job[q].entry.place
    BY <2>1, <2>3, OthersEncrypt
  <2> HIDE DEF tmp
  <2>6. PutsWell(p, tmp)
    BY <2>3, <2>4, <2>5 DEF PutsWell
  <2> QED
    BY <2>1, <2>3, <2>6, PutsWellIsEnough
<1>6. CASE RemoveOld(p) /\ ~UNCHANGED <<boxes, used>>
  <2>1. pc[p] \in InHand /\ used' = used /\ boxes' = [boxes EXCEPT ![s] = None]
    BY <1>6 DEF RemoveOld, Move, InHand
  <2>2. s \in Places
    BY <2>1, HoldingTypes, PlaceFacts
  <2>3. boxes'[s] = None /\ \A pl \in Places \ {s} : boxes'[pl] = boxes[pl]
    BY <2>1, <2>2 DEF TypeOK
  <2>4. PutsWell(p, s)
    BY <2>1, <2>3, OthersEncrypt DEF PutsWell
  <2> QED
    BY <2>1, <2>3, <2>4, PutsWellIsEnough
<1>7. CASE RenameNew(p) /\ ~UNCHANGED <<boxes, used>>
  <2> DEFINE n == j.entry.name
             tmp == Tmp(n)
  <2>1. /\ pc[p] \in InHand /\ used' = used /\ boxes[tmp] # None
        /\ boxes' = [boxes EXCEPT ![s] = boxes[tmp], ![tmp] = None]
    BY <1>7 DEF RenameNew, Move, InHand
  <2>2. /\ s \in used /\ s \in Stores /\ j.file \in Files /\ n \in {s, j.file}
        /\ Of(s, j.file)
    BY <2>1, HoldingTypes, InHandOf
  <2>3. s \in Places /\ tmp \in Places /\ tmp \notin Stores /\ s # tmp
    BY <2>2, PlaceFacts
  <2>4. /\ boxes'[s] = boxes[tmp] /\ boxes'[tmp] = None
        /\ \A pl \in Places \ {s, tmp} : boxes'[pl] = boxes[pl]
    BY <2>1, <2>3 DEF TypeOK
  <2>5. boxes[tmp].file = j.file /\ ~boxes[tmp].big
    <3>1. ~boxes[tmp].big
      BY <2>1, <2>3 DEF Traces
    <3>2. CASE n = s
      BY <2>1, <2>2, <3>1, <3>2 DEF Of
    <3>3. CASE n = j.file
      BY <2>1, <2>2, <3>1, <3>3 DEF Traces
    <3> QED
      BY <2>2, <3>2, <3>3
  <2>6. \A f \in Files : Of(s, f) => j.file = f
    BY <2>1, HoldingTypes DEF Of
  <2>7. \A q \in Procs \ {p} : pc[q] = "encrypt" =>
          tmp # job[q].entry.place /\ s # job[q].entry.place
    BY <2>1, <2>3, OthersEncrypt
  <2> HIDE DEF tmp
  <2>8. PutsWell(p, s)
    BY <2>1, <2>2, <2>4, <2>5, <2>6, <2>7 DEF PutsWell
  <2>9. PutsWell(p, tmp)
    BY <2>4, <2>7 DEF PutsWell
  <2> QED
    BY <2>1, <2>4, <2>8, <2>9, PutsWellIsEnough
<1>8. CASE Clean(p)
  <2>1. /\ used' = used
        /\ \A pl \in Places : boxes'[pl] = IF pl \in Stores THEN boxes[pl] ELSE None
    BY <1>8 DEF Clean
  <2>2. \A q \in Procs \ {p} : pc[q] = "encrypt" => job[q].entry.place \in Stores
    BY HoldingTypes DEF InHand
  <2>3. \A pl \in Places \ Stores : PutsWell(p, pl)
    BY <2>1, <2>2 DEF PutsWell
  <2> QED
    BY <2>1, <2>3, PutsWellIsEnough
<1>9. CASE Begin(p) \/ LoadMeta(p) \/ InitMeta(p) \/ Append(p) \/ Dispose(p) \/ ReadIndex(p)
           \/ EndRewrap(p) \/ SaveNewMeta(p) \/ SealIndex(p) \/ Recrypt(p) \/ Scan(p)
           \/ WriteIndex(p) \/ SaveMeta(p) \/ Done(p) \/ Kill(p)
  <2>1. UNCHANGED <<boxes, used>>
    BY <1>9 DEF Begin, LoadMeta, InitMeta, Append, Dispose, ReadIndex, EndRewrap, SaveNewMeta,
                SealIndex, Recrypt, Scan, WriteIndex, SaveMeta, Done, Kill, disk
  <2> QED
    BY <1>1, <2>1
<1> QED
  BY <1>1, <1>2, <1>3, <1>4, <1>5, <1>6, <1>7, <1>8, <1>9 DEF Run
-----------------------------------------------------------------------------
(***************************************************************************)
(* What a step does to what the commands have in hand.                     *)
(***************************************************************************)
Keeps(p) ==
  job'[p].entry = None \/ (job'[p].entry = job[p].entry /\ job'[p].file = job[p].file)

Adds(p, f, s) ==
  /\ pc'[p] = "encrypt" /\ used' = used \cup {s}
  /\ \A pl \in Places \ {s} : boxes'[pl] = boxes[pl]
  /\ boxes'[s] # None /\ boxes'[s].file = f /\ boxes'[s].name = s /\ ~boxes'[s].whole
  /\ job'[p].file = f /\ job'[p].entry = [name |-> f, place |-> s]

Takes(p, e) ==
  /\ e \in Entry /\ e.place \in used /\ boxes[e.place] # None
  /\ boxes[e.place].whole /\ boxes[e.place].big
  /\ e.name \in {e.place, boxes[e.place].file}
  /\ job'[p].entry = e /\ job'[p].file = boxes[e.place].file
  /\ UNCHANGED <<boxes, used>>

LEMMA AddFileAdds ==
  ASSUME NEW p \in Procs, TypeOK, AddFile(p), pc'[p] = "encrypt"
  PROVE  \E f \in Files, s \in Stores \ used : Adds(p, f, s) /\ job'[p].todo \subseteq job[p].todo
<1>0. job[p] \in Job /\ pc[p] \in PcValues
  BY DEF TypeOK
<1>1. PICK f \in Files, s \in Stores \ used :
        /\ used' = used \cup {s}
        /\ boxes' = [boxes EXCEPT ![s] = [file |-> f, name |-> s, pw |-> job[p].pw,
                                          big |-> TRUE, whole |-> FALSE]]
        /\ job' = [job EXCEPT ![p].file = f, ![p].todo = @ \ {f},
                              ![p].entry = [name |-> f, place |-> s]]
  <2>1. ~Goto(p, "done") /\ ~Finish(p)
    BY DEF Goto, Finish, TypeOK
  <2> QED
    BY <2>1 DEF AddFile, TypeOK
<1> DEFINE c == [file |-> f, name |-> s, pw |-> job[p].pw, big |-> TRUE, whole |-> FALSE]
<1>2. c \in Box
  BY <1>0, PlaceFacts, JobFields DEF Box
<1>3. c.file = f /\ c.name = s /\ ~c.whole
  OBVIOUS
<1>4. boxes' = [boxes EXCEPT ![s] = c]
  BY <1>1
<1> HIDE DEF c
<1>5. /\ boxes'[s] = c /\ \A pl \in Places \ {s} : boxes'[pl] = boxes[pl]
  BY <1>4, PlaceFacts DEF TypeOK
<1>6. c # None
  BY <1>2, Basics
<1>7. job'[p] = [job[p] EXCEPT !.file = f, !.todo = @ \ {f}, !.entry = [name |-> f, place |-> s]]
  BY <1>1 DEF TypeOK
<1>8. /\ job'[p].file = f /\ job'[p].entry = [name |-> f, place |-> s]
      /\ job'[p].todo \subseteq job[p].todo
  BY <1>0, <1>7 DEF Job
<1> QED
  BY <1>1, <1>3, <1>5, <1>6, <1>8 DEF Adds

LEMMA RecryptTakes ==
  ASSUME NEW p \in Procs, TypeOK, Traces, Recrypt(p)
  PROVE  \E e \in job[p].todo :
           /\ job'[p].todo = job[p].todo \ {e} /\ job'[p].entries = job[p].entries
           /\ job'[p].meta = job[p].meta
           /\ \/ pc'[p] = "reencrypt" /\ Takes(p, e)
              \/ /\ pc'[p] = "recrypt"
                 /\ job'[p].entry = job[p].entry /\ job'[p].file = job[p].file
<1> DEFINE j == job[p]
<1>0. j \in Job /\ pc[p] = "recrypt" /\ UNCHANGED <<boxes, used>>
  BY DEF TypeOK, Recrypt, disk
<1>1. PICK e \in j.todo :
        \/ /\ boxes[e.place] # None /\ boxes[e.place].whole /\ boxes[e.place].big
           /\ job' = [job EXCEPT ![p] = [j EXCEPT !.todo = @ \ {e}, !.entry = e,
                                                  !.file = boxes[e.place].file]]
           /\ Goto(p, "reencrypt")
        \/ job' = [job EXCEPT ![p] = [j EXCEPT !.todo = @ \ {e}]] /\ UNCHANGED pc
  BY DEF Recrypt
<1>2. e \in Entry /\ e.place \in Places /\ Known(j.todo)
  BY <1>0, <1>1 DEF Traces, Holding, Recrypting, Entry
<1>3. CASE /\ boxes[e.place] # None /\ boxes[e.place].whole /\ boxes[e.place].big
           /\ job' = [job EXCEPT ![p] = [j EXCEPT !.todo = @ \ {e}, !.entry = e,
                                                  !.file = boxes[e.place].file]]
           /\ Goto(p, "reencrypt")
  <2>1. job'[p] = [j EXCEPT !.todo = @ \ {e}, !.entry = e, !.file = boxes[e.place].file]
        /\ pc'[p] = "reencrypt"
    BY <1>3 DEF TypeOK, Goto
  <2>2. /\ job'[p].todo = j.todo \ {e} /\ job'[p].entry = e
        /\ job'[p].file = boxes[e.place].file
        /\ job'[p].entries = j.entries /\ job'[p].meta = j.meta
    BY <1>0, <2>1 DEF Job
  <2>3. e.place \in Stores
    BY <1>2, <1>3 DEF Traces
  <2>4. e.place \in used /\ e.name \in {e.place, boxes[e.place].file}
    BY <1>1, <1>2, <1>3, <2>3 DEF Known
  <2> QED
    BY <1>0, <1>1, <1>2, <1>3, <2>1, <2>2, <2>4 DEF Takes
<1>4. CASE job' = [job EXCEPT ![p] = [j EXCEPT !.todo = @ \ {e}]] /\ UNCHANGED pc
  <2>1. job'[p] = [j EXCEPT !.todo = @ \ {e}] /\ pc'[p] = "recrypt"
    BY <1>0, <1>4 DEF TypeOK
  <2>2. /\ job'[p].todo = j.todo \ {e} /\ job'[p].entry = j.entry /\ job'[p].file = j.file
        /\ job'[p].entries = j.entries /\ job'[p].meta = j.meta
    BY <1>0, <2>1 DEF Job
  <2> QED
    BY <1>1, <2>1, <2>2
<1> QED
  BY <1>1, <1>3, <1>4
-----------------------------------------------------------------------------
\* Entries after a step.
KnownNext(entries) ==
  \A e \in entries : e.place \in Stores =>
    /\ e.place \in used'
    /\ boxes'[e.place] # None /\ boxes'[e.place].big => e.name \in {e.place, boxes'[e.place].file}

HoldsNext(p) ==
  LET j == job'[p] IN
  /\ pc'[p] \notin {"idle", "meta"} => j.meta \in Salts
  /\ pc'[p] \in {"idle", "meta", "add", "encrypt", "append", "dispose"} => j.todo \subseteq Files
  /\ pc'[p] \in Rewrapping \cup Recrypting => j.todo \subseteq Entry /\ KnownNext(j.todo)
  /\ pc'[p] \in Rewrapping \cup Recrypting \cup {"write"} =>
       j.entries \subseteq Entry /\ KnownNext(j.entries)
  /\ j.entries # None => KnownNext(j.entries)
  /\ j.entry # None <=> pc'[p] \in InHand
  /\ j.entry # None => j.entry.place \in used' /\ j.file \in Files
  /\ pc'[p] = "encrypt" =>
       /\ boxes'[j.entry.place] # None /\ ~boxes'[j.entry.place].whole
       /\ \A q \in Procs \ {p} : job'[q].entry # None => job'[q].entry.place # j.entry.place

LEMMA HoldsNextIsHolding ==
  ASSUME NEW p \in Procs, HoldsNext(p)
  PROVE  Holding(p)'
  BY DEF HoldsNext, Holding, Known, KnownNext

\* What was known stays known.
LEMMA KnownKept ==
  ASSUME NEW p \in Procs, BoxesStep(p), NEW E, Known(E), NEW F, F \subseteq E
  PROVE  KnownNext(F)
  BY DEF BoxesStep, Known, KnownNext

LEMMA IndexKnown ==
  ASSUME TypeOK, Traces, NEW j, IndexOpens(j)
  PROVE  Known(Listed)
  BY DEF Traces, Listed, IndexOpens, Known

\* The entry in hand is known.
LEMMA HandKnown ==
  ASSUME NEW p \in Procs, TypeOK, Traces, pc[p] \in InHand
  PROVE  Known({job[p].entry})
<1>1. /\ job[p].entry.place \in used
      /\ job[p].entry.name \in {job[p].entry.place, job[p].file}
      /\ Of(job[p].entry.place, job[p].file)
  BY HoldingTypes, InHandOf
<1> QED
  BY <1>1 DEF Known, Of

LEMMA FinishHolds ==
  ASSUME NEW p \in Procs, TypeOK, Finish(p)
  PROVE  HoldsNext(p)
<1>1. pc'[p] = "idle" /\ job'[p] = IdleJob
  BY DEF Finish, Goto, TypeOK
<1>2. IdleJob.entries = None /\ IdleJob.todo = {} /\ IdleJob.entry = None
  BY DEF IdleJob
<1> QED
  BY <1>1, <1>2 DEF HoldsNext, Rewrapping, Recrypting, InHand

\* The command goes on with the same record.
LEMMA SameJobHolds ==
  ASSUME NEW p \in Procs, TypeOK, Traces, BoxesStep(p), UNCHANGED job,
         pc'[p] # "encrypt", pc'[p] \in InHand <=> pc[p] \in InHand,
         pc[p] \notin {"idle", "meta"},
         pc'[p] \in {"idle", "meta", "add", "append", "dispose"} =>
           pc[p] \in {"add", "encrypt", "append", "dispose"},
         pc'[p] \in Rewrapping \cup Recrypting => pc[p] \in Rewrapping \cup Recrypting,
         pc'[p] \in {"write"} => pc[p] = "write"
  PROVE  HoldsNext(p)
<1>1. Holding(p)
  BY DEF Traces
<1>2. job[p].entries # None \/ pc[p] \in Rewrapping \cup Recrypting \cup {"write"} =>
        KnownNext(job[p].entries)
  BY <1>1, KnownKept DEF Holding
<1>3. pc'[p] \in Rewrapping \cup Recrypting => KnownNext(job[p].todo)
  BY <1>1, KnownKept DEF Holding
<1> QED
  BY <1>1, <1>2, <1>3 DEF Holding, HoldsNext, BoxesStep

\* The command goes on with nothing in hand, in the same loop.
LEMMA HandsEmptyHolds ==
  ASSUME NEW p \in Procs, TypeOK, Traces, BoxesStep(p),
         job' = [job EXCEPT ![p].file = None, ![p].entry = None],
         \/ pc[p] = "dispose" /\ pc'[p] = "add"
         \/ pc[p] \in {"reencrypt", "rename"} /\ pc'[p] = "recrypt"
  PROVE  HoldsNext(p)
<1>1. Holding(p) /\ job[p] \in Job
  BY DEF Traces, TypeOK
<1>2. job'[p] = [job[p] EXCEPT !.file = None, !.entry = None]
  <2>1. job' = [job EXCEPT ![p] = [job[p] EXCEPT !.file = None, !.entry = None]]
    BY DEF TypeOK
  <2> QED
    BY <2>1 DEF TypeOK
<1>3. /\ job'[p].entry = None /\ job'[p].todo = job[p].todo
      /\ job'[p].entries = job[p].entries /\ job'[p].meta = job[p].meta
  <2>1. \A j \in Job :
          /\ [j EXCEPT !.file = None, !.entry = None].entry = None
          /\ [j EXCEPT !.file = None, !.entry = None].todo = j.todo
          /\ [j EXCEPT !.file = None, !.entry = None].entries = j.entries
          /\ [j EXCEPT !.file = None, !.entry = None].meta = j.meta
    BY DEF Job
  <2> QED
    BY <1>1, <1>2, <2>1
<1>4. job[p].entries # None \/ pc[p] \in Rewrapping \cup Recrypting \cup {"write"} =>
        KnownNext(job[p].entries)
  BY <1>1, KnownKept DEF Holding
<1>5. pc[p] \in Rewrapping \cup Recrypting => KnownNext(job[p].todo)
  BY <1>1, KnownKept DEF Holding
<1> QED
  BY <1>1, <1>3, <1>4, <1>5 DEF Holding, HoldsNext, Rewrapping, Recrypting, InHand

LEMMA EntryIsNot ==
  ASSUME NEW f \in Files, NEW s \in Stores
  PROVE  /\ [name |-> f, place |-> s] \in Entry /\ [name |-> f, place |-> s] # None
         /\ [name |-> f, place |-> s].place = s
<1>1. [name |-> f, place |-> s] \in Entry
  BY PlaceFacts DEF Entry
<1> QED
  BY <1>1, Basics

LEMMA AddFileRest ==
  ASSUME NEW p \in Procs, TypeOK, AddFile(p), ~Finish(p)
  PROVE  job'[p].meta = job[p].meta /\ job'[p].entries = job[p].entries
<1>1. job[p] \in Job
  BY DEF TypeOK
<1>2. CASE UNCHANGED job
  BY <1>2
<1>3. CASE ~UNCHANGED job
  <2>1. PICK f, s : job' = [job EXCEPT ![p].file = f, ![p].todo = @ \ {f},
                                       ![p].entry = [name |-> f, place |-> s]]
    BY <1>3 DEF AddFile
  <2>2. job'[p] = [job[p] EXCEPT !.file = f, !.todo = @ \ {f},
                                 !.entry = [name |-> f, place |-> s]]
    BY <2>1 DEF TypeOK
  <2> QED
    BY <1>1, <2>2 DEF Job
<1> QED
  BY <1>2, <1>3

LEMMA ItselfHolds ==
  ASSUME NEW p \in Procs, TypeOK, Traces, BoxesStep(p), Aside(p), Begin(p) \/ Run(p) \/ Kill(p)
  PROVE  HoldsNext(p)
<1> DEFINE j == job[p]
<1>0. /\ j \in Job /\ pc[p] \in PcValues /\ Holding(p)
      /\ j.entries # None \/ pc[p] \in Rewrapping \cup Recrypting \cup {"write"} =>
           KnownNext(j.entries)
  <2>1. j \in Job /\ pc[p] \in PcValues /\ Holding(p)
    BY DEF TypeOK, Traces
  <2> QED
    BY <2>1, KnownKept DEF Holding
<1>1. CASE Begin(p)
  <2>1. PICK c \in Commands, w, n \in Passwords, d \in BOOLEAN, fs \in SUBSET sources :
        /\ fs # {} <=> c = "add"
        /\ c # "rekey" => n = w
        /\ c # "add" => ~d
        /\ c \in {"init", "mount"} => w = IdleJob.pw
        /\ job' = [q \in Procs |->
            IF q = p
            THEN [IdleJob EXCEPT !.cmd = c, !.pw = w, !.new = n, !.dispose = d, !.todo = fs,
                                 !.shared = \E r \in Procs \ {p} : pc[r] # "idle"]
            ELSE [job[q] EXCEPT !.shared = @ \/ pc[q] # "idle"]]
    BY <1>1, Zenon DEF Begin
  <2> DEFINE sh == \E r \in Procs \ {p} : pc[r] # "idle"
  <2>2. job'[p] = [IdleJob EXCEPT !.cmd = c, !.pw = w, !.new = n, !.dispose = d, !.todo = fs,
                                  !.shared = sh]
    BY <2>1
  <2> HIDE DEF sh
  <2>3. job'[p].entries = None /\ job'[p].entry = None /\ job'[p].todo = fs
    BY <2>2 DEF IdleJob
  <2>4. pc'[p] = "meta"
    BY <1>1 DEF Begin, Move, Goto, TypeOK
  <2> QED
    BY <2>3, <2>4 DEF HoldsNext, Rewrapping, Recrypting, InHand, TypeOK
<1>2. CASE LoadMeta(p) /\ ~Finish(p)
  <2>1. meta \in Salts /\ pc[p] = "meta" /\ pc'[p] = AfterMeta(j.cmd)
        /\ job'[p] = [j EXCEPT !.meta = meta]
    BY <1>2 DEF LoadMeta, Goto, TypeOK
  <2>2. /\ job'[p].meta = meta /\ job'[p].entry = j.entry /\ job'[p].todo = j.todo
        /\ job'[p].entries = j.entries
    BY <1>0, <2>1 DEF Job
  <2>3. pc'[p] \in {"add", "index", "scan", "save", "done"}
    BY <1>0, <2>1, JobFields DEF AfterMeta, AllCommands
  <2> QED
    BY <1>0, <2>1, <2>2, <2>3 DEF Holding, HoldsNext, Rewrapping, Recrypting, InHand
<1>3. CASE InitMeta(p) /\ ~Finish(p)
  <2>1. /\ salts # MaxSalt /\ salts' = salts + 1 /\ Goto(p, AfterMeta(j.cmd)) /\ pc[p] = "meta"
        /\ job' = [job EXCEPT ![p].meta = salts']
    BY <1>3 DEF InitMeta, OutOf
  <2>2. salts' \in Salts
    BY <2>1, VaultConstants DEF TypeOK, Salts
  <2>3. pc'[p] = AfterMeta(j.cmd) /\ job'[p] = [j EXCEPT !.meta = salts']
    BY <2>1 DEF Goto, TypeOK
  <2>4. /\ job'[p].meta = salts' /\ job'[p].entry = j.entry /\ job'[p].todo = j.todo
        /\ job'[p].entries = j.entries
    BY <1>0, <2>3 DEF Job
  <2>5. pc'[p] \in {"add", "index", "scan", "save", "done"}
    BY <1>0, <2>3, JobFields DEF AfterMeta, AllCommands
  <2> QED
    BY <1>0, <2>1, <2>2, <2>4, <2>5 DEF Holding, HoldsNext, Rewrapping, Recrypting, InHand
<1>4. CASE AddFile(p) /\ ~Finish(p)
  <2>1. CASE UNCHANGED job
    <3>1. pc[p] = "add" /\ pc'[p] = "done"
      <4>1. CASE Goto(p, "done")
        BY <1>4, <4>1 DEF AddFile, Goto, TypeOK
      <4>2. CASE ~Goto(p, "done")
        <5>1. pc[p] = "add" /\ pc'[p] = "encrypt"
          BY <1>4, <4>2 DEF AddFile, Goto, TypeOK
        <5>2. job'[p].entry # None
          <6>1. PICK f \in Files, s \in Stores \ used : Adds(p, f, s)
            BY <1>4, <5>1, AddFileAdds
          <6> QED
            BY <6>1, EntryIsNot DEF Adds
        <5>3. job[p].entry = None
          BY <1>0, <5>1 DEF Holding, InHand
        <5> QED
          BY <2>1, <5>2, <5>3
      <4> QED
        BY <4>1, <4>2
    <3> QED
      BY <2>1, <3>1, SameJobHolds DEF InHand, Rewrapping, Recrypting
  <2>2. CASE ~UNCHANGED job
    <3>1. pc[p] = "add" /\ pc'[p] = "encrypt"
      BY <1>4, <2>2 DEF AddFile, Goto, TypeOK
    <3>2. PICK f \in Files, s \in Stores \ used : Adds(p, f, s) /\ job'[p].todo \subseteq j.todo
      BY <1>4, <3>1, AddFileAdds
    <3>3. job'[p].meta = j.meta /\ job'[p].entries = j.entries
      BY <1>0, <1>4, <2>2, AddFileRest
    <3>4. j.todo \subseteq Files /\ j.meta \in Salts
      BY <1>0, <3>1 DEF Holding
    <3>5. job'[p].entry # None /\ job'[p].entry.place = s /\ s \in used'
      BY <3>2, EntryIsNot DEF Adds
    <3>6. \A q \in Procs \ {p} : job'[q].entry # None => job'[q].entry.place # s
      BY <3>2 DEF Aside, Traces, Holding
    <3> QED
      BY <1>0, <3>1, <3>2, <3>3, <3>4, <3>5, <3>6
      DEF HoldsNext, Adds, Rewrapping, Recrypting, InHand
  <2> QED
    BY <2>1, <2>2
<1>5. CASE Encrypt(p) /\ ~Finish(p)
  <2>1. pc[p] = "encrypt" /\ pc'[p] = "append" /\ UNCHANGED job
    BY <1>5 DEF Encrypt, Goto, TypeOK
  <2> QED
    BY <2>1, SameJobHolds DEF InHand, Rewrapping, Recrypting
<1>6. CASE Append(p) /\ ~Finish(p)
  <2> DEFINE listed == (IF j.entries = None THEN Listed ELSE j.entries) \cup {j.entry}
  <2>1. /\ ~(j.entries = None /\ ~IndexOpens(j)) /\ Goto(p, "dispose") /\ pc[p] = "append"
        /\ job' = [job EXCEPT ![p].entries = listed]
    BY <1>6 DEF Append
  <2>2. pc'[p] = "dispose" /\ job'[p] = [j EXCEPT !.entries = listed]
    BY <2>1 DEF Goto, TypeOK
  <2>3. /\ job'[p].meta = j.meta /\ job'[p].entry = j.entry /\ job'[p].todo = j.todo
        /\ job'[p].file = j.file /\ job'[p].entries = listed
    BY <1>0, <2>2 DEF Job
  <2>4. Known(listed)
    <3>1. Known({j.entry})
      BY <2>1, HandKnown DEF InHand
    <3>2. CASE j.entries = None
      <4>1. Known(Listed)
        BY <2>1, <3>2, IndexKnown
      <4> QED
        BY <3>1, <3>2, <4>1 DEF Known
    <3>3. CASE j.entries # None
      BY <1>0, <3>1, <3>3 DEF Holding, Known
    <3> QED
      BY <3>2, <3>3
  <2>5. KnownNext(listed)
    BY <2>4, KnownKept
  <2> HIDE DEF listed
  <2> QED
    BY <1>0, <2>1, <2>2, <2>3, <2>5
    DEF Holding, HoldsNext, BoxesStep, Rewrapping, Recrypting, InHand
<1>7. CASE Dispose(p)
  <2>1. pc[p] = "dispose" /\ pc'[p] = "add"
    BY <1>7 DEF Dispose, Move, Goto, TypeOK
  <2> QED
    BY <1>7, <2>1, HandsEmptyHolds DEF Dispose
<1>8. CASE ReadIndex(p) /\ ~Finish(p)
  <2>1. /\ IndexOpens(j) /\ pc[p] = "index" /\ pc'[p] \in {"rewrap", "recrypt"}
        /\ job' = [job EXCEPT ![p] = [j EXCEPT !.entries = Listed, !.todo = Listed]]
    BY <1>8 DEF ReadIndex, Goto, TypeOK
  <2>2. job'[p] = [j EXCEPT !.entries = Listed, !.todo = Listed]
    BY <2>1 DEF TypeOK
  <2>3. /\ job'[p].meta = j.meta /\ job'[p].entry = j.entry /\ job'[p].todo = Listed
        /\ job'[p].entries = Listed
    BY <1>0, <2>2 DEF Job
  <2>4. Listed \subseteq Entry /\ Known(Listed)
    BY <2>1, ListedType, IndexKnown
  <2>5. KnownNext(Listed)
    BY <2>4, KnownKept
  <2> QED
    BY <1>0, <2>1, <2>3, <2>4, <2>5 DEF Holding, HoldsNext, Rewrapping, Recrypting, InHand
<1>9. CASE Rewrap(p)
  <2>1. PICK e \in j.todo :
          \/ job' = [job EXCEPT ![p].todo = @ \ {e}]
          \/ job' = [job EXCEPT ![p].todo = @ \ {e}, ![p].dropped = TRUE]
          \/ job' = [job EXCEPT ![p].todo = @ \ {e}, ![p].failed = TRUE]
    BY <1>9 DEF Rewrap
  <2>2. \/ job'[p] = [j EXCEPT !.todo = @ \ {e}]
        \/ job'[p] = [j EXCEPT !.todo = @ \ {e}, !.dropped = TRUE]
        \/ job'[p] = [j EXCEPT !.todo = @ \ {e}, !.failed = TRUE]
    BY <2>1 DEF TypeOK
  <2>3. /\ job'[p].meta = j.meta /\ job'[p].entry = j.entry /\ job'[p].todo = j.todo \ {e}
        /\ job'[p].entries = j.entries
    BY <1>0, <2>2 DEF Job
  <2>4. pc[p] = "rewrap" /\ pc'[p] = "rewrap"
    BY <1>9 DEF Rewrap
  <2>5. Known(j.todo) /\ j.todo \subseteq Entry
    BY <1>0, <2>4 DEF Holding, Rewrapping
  <2>6. KnownNext(j.todo \ {e})
    BY <2>5, KnownKept
  <2> QED
    BY <1>0, <2>3, <2>4, <2>5, <2>6 DEF Holding, HoldsNext, Rewrapping, Recrypting, InHand
<1>10. CASE EndRewrap(p) /\ ~Finish(p)
  <2>1. pc[p] = "rewrap" /\ pc'[p] = "reseal" /\ UNCHANGED job
    BY <1>10 DEF EndRewrap, Goto, TypeOK
  <2> QED
    BY <2>1, SameJobHolds DEF InHand, Rewrapping, Recrypting
<1>11. CASE SaveNewMeta(p) /\ ~Finish(p)
  <2>1. /\ salts # MaxSalt /\ salts' = salts + 1 /\ Goto(p, "seal") /\ pc[p] = "reseal"
        /\ job' = [job EXCEPT ![p].meta = salts']
    BY <1>11 DEF SaveNewMeta, OutOf
  <2>2. salts' \in Salts
    BY <2>1, VaultConstants DEF TypeOK, Salts
  <2>3. pc'[p] = "seal" /\ job'[p] = [j EXCEPT !.meta = salts']
    BY <2>1 DEF Goto, TypeOK
  <2>4. /\ job'[p].meta = salts' /\ job'[p].entry = j.entry /\ job'[p].todo = j.todo
        /\ job'[p].entries = j.entries
    BY <1>0, <2>3 DEF Job
  <2>5. Known(j.todo) /\ j.todo \subseteq Entry
    BY <1>0, <2>1 DEF Holding, Rewrapping
  <2>6. KnownNext(j.todo)
    BY <2>5, KnownKept
  <2> QED
    BY <1>0, <2>1, <2>2, <2>3, <2>4, <2>5, <2>6
    DEF Holding, HoldsNext, Rewrapping, Recrypting, InHand
<1>12. CASE SealIndex(p) /\ ~Finish(p)
  <2>1. pc[p] = "seal" /\ pc'[p] = "done" /\ UNCHANGED job
    BY <1>12 DEF SealIndex, Goto, TypeOK
  <2> QED
    BY <2>1, SameJobHolds DEF InHand, Rewrapping, Recrypting
<1>13. CASE Recrypt(p)
  <2>1. PICK e \in j.todo :
           /\ job'[p].todo = j.todo \ {e} /\ job'[p].entries = j.entries
           /\ job'[p].meta = j.meta
           /\ \/ pc'[p] = "reencrypt" /\ Takes(p, e)
              \/ /\ pc'[p] = "recrypt"
                 /\ job'[p].entry = j.entry /\ job'[p].file = j.file
    BY <1>13, RecryptTakes
  <2>2. pc[p] = "recrypt"
    BY <1>13 DEF Recrypt
  <2>3. Known(j.todo) /\ j.todo \subseteq Entry /\ j.meta \in Salts /\ j.entries \subseteq Entry
        /\ j.entry = None /\ KnownNext(j.entries)
    BY <1>0, <2>2 DEF Holding, Recrypting, InHand
  <2>4. KnownNext(j.todo \ {e})
    BY <2>3, KnownKept
  <2>5. CASE pc'[p] = "recrypt" /\ job'[p].entry = j.entry
    BY <1>0, <2>1, <2>3, <2>4, <2>5 DEF HoldsNext, Rewrapping, Recrypting, InHand
  <2>6. CASE pc'[p] = "reencrypt" /\ Takes(p, e)
    <3>1. job'[p].entry # None /\ job'[p].entry.place \in used' /\ job'[p].file \in Files
      <4>1. e \in Entry /\ e.place \in Places
        BY <2>6 DEF Takes, Entry
      <4> QED
        BY <2>6, <4>1, Basics, BoxFields DEF Takes
    <3> QED
      BY <1>0, <2>1, <2>3, <2>4, <2>6, <3>1 DEF HoldsNext, Rewrapping, Recrypting, InHand
  <2> QED
    BY <2>1, <2>5, <2>6
<1>14. CASE Reencrypt(p)
  <2>1. CASE pc'[p] = "remove" /\ UNCHANGED job
    BY <1>14, <2>1, SameJobHolds DEF Reencrypt, InHand, Rewrapping, Recrypting
  <2>2. CASE pc'[p] = "recrypt" /\ job' = [job EXCEPT ![p].file = None, ![p].entry = None]
    BY <1>14, <2>2, HandsEmptyHolds DEF Reencrypt
  <2>3. \/ pc'[p] = "remove" /\ UNCHANGED job
        \/ pc'[p] = "recrypt" /\ job' = [job EXCEPT ![p].file = None, ![p].entry = None]
    BY <1>14 DEF Reencrypt, Goto, TypeOK
  <2> QED
    BY <2>1, <2>2, <2>3
<1>15. CASE RemoveOld(p)
  <2>1. pc[p] = "remove" /\ pc'[p] = "rename" /\ UNCHANGED job
    BY <1>15 DEF RemoveOld, Move, Goto, TypeOK
  <2> QED
    BY <2>1, SameJobHolds DEF InHand, Rewrapping, Recrypting
<1>16. CASE RenameNew(p)
  <2>1. pc[p] = "rename" /\ pc'[p] = "recrypt"
    BY <1>16 DEF RenameNew, Move, Goto, TypeOK
  <2> QED
    BY <1>16, <2>1, HandsEmptyHolds DEF RenameNew
<1>17. CASE Clean(p)
  <2>1. pc[p] = "recrypt" /\ pc'[p] = "scan" /\ UNCHANGED job
    BY <1>17 DEF Clean, Move, Goto, TypeOK
  <2> QED
    BY <2>1, SameJobHolds DEF InHand, Rewrapping, Recrypting
<1>18. CASE Scan(p)
  <2> DEFINE found == {[name |-> IF boxes[pl].pw = job[p].pw THEN boxes[pl].name ELSE pl,
                        place |-> pl] : pl \in {x \in Places : boxes[x] # None}}
  <2>1. pc[p] = "scan" /\ pc'[p] = "write" /\ UNCHANGED <<boxes, used>>
    BY <1>18 DEF Scan, Move, Goto, TypeOK, disk
  <2>2. \A pl \in Places : boxes[pl] # None => boxes[pl].name \in Names /\ pl \in Names
    BY PlaceFacts DEF TypeOK, Box
  <2>3. found \subseteq Entry
    BY <2>2 DEF Entry
  <2>4. ASSUME NEW s \in Stores, boxes[s] # None
        PROVE  s \in used /\ (boxes[s].big => boxes[s].name \in {s, boxes[s].file})
    <3>1. s \in used
      BY <2>4 DEF Traces
    <3>2. PICK f \in Files : Of(s, f)
      BY <3>1 DEF Traces
    <3> QED
      BY <2>4, <3>1, <3>2 DEF Of
  <2>5. Known(found)
    BY <2>4 DEF Known
  <2>6. job'[p] = [j EXCEPT !.entries = found]
    BY <1>18 DEF Scan, Move, TypeOK
  <2> HIDE DEF found
  <2>7. KnownNext(found)
    BY <2>5, KnownKept
  <2>8. /\ job'[p].meta = j.meta /\ job'[p].entry = j.entry /\ job'[p].entries = found
    BY <1>0, <2>6 DEF Job
  <2> QED
    BY <1>0, <2>1, <2>3, <2>7, <2>8 DEF Holding, HoldsNext, Rewrapping, Recrypting, InHand
<1>19. CASE WriteIndex(p) /\ ~Finish(p)
  <2>1. pc[p] = "write" /\ pc'[p] = "done" /\ UNCHANGED job
    BY <1>19 DEF WriteIndex, Goto, TypeOK
  <2> QED
    BY <2>1, SameJobHolds DEF InHand, Rewrapping, Recrypting
<1>20. CASE Finish(p)
  BY <1>20, FinishHolds
<1>21. CASE SaveMeta(p) \/ Done(p) \/ Kill(p)
  BY <1>20, <1>21 DEF SaveMeta, Done, Kill
<1> QED
  BY <1>1, <1>2, <1>3, <1>4, <1>5, <1>6, <1>7, <1>8, <1>9, <1>10, <1>11, <1>12, <1>13, <1>14,
     <1>15, <1>16, <1>17, <1>18, <1>19, <1>20, <1>21 DEF Run
-----------------------------------------------------------------------------
(***************************************************************************)
(* The trace of a file is kept by every step.                              *)
(***************************************************************************)
\* A step keeps what p has in hand, lets it go, adds a file or takes an entry.
LEMMA StepHands ==
  ASSUME NEW p \in Procs, TypeOK, Traces, Begin(p) \/ Run(p) \/ Kill(p)
  PROVE  \/ Keeps(p) /\ used' = used
         \/ \E f \in Files, s \in Stores \ used : Adds(p, f, s)
         \/ \E e \in job[p].todo : Takes(p, e)
<1> DEFINE j == job[p]
<1>0. j \in Job
  BY DEF TypeOK
<1>1. CASE Finish(p) /\ used' = used
  <2>1. job'[p].entry = None
    BY <1>1 DEF Finish, IdleJob, TypeOK
  <2> QED
    BY <1>1, <2>1 DEF Keeps
<1>2. CASE UNCHANGED <<job, used>>
  BY <1>2 DEF Keeps
<1>3. CASE job' = [job EXCEPT ![p].file = None, ![p].entry = None] /\ used' = used
  <2>1. job' = [job EXCEPT ![p] = [j EXCEPT !.file = None, !.entry = None]]
    BY <1>3 DEF TypeOK
  <2>2. job'[p] = [j EXCEPT !.file = None, !.entry = None]
    BY <2>1 DEF TypeOK
  <2>3. job'[p].entry = None
    BY <1>0, <2>2 DEF Job
  <2> QED
    BY <1>3, <2>3 DEF Keeps
<1>4. CASE used' = used /\ \E m : job' = [job EXCEPT ![p].meta = m]
  <2>1. PICK m : job' = [job EXCEPT ![p].meta = m]
    BY <1>4
  <2>2. job'[p] = [j EXCEPT !.meta = m]
    BY <2>1 DEF TypeOK
  <2> QED
    BY <1>0, <1>4, <2>2 DEF Job, Keeps
<1>5. CASE used' = used /\ \E es : job' = [job EXCEPT ![p].entries = es]
  <2>1. PICK es : job' = [job EXCEPT ![p].entries = es]
    BY <1>5
  <2>2. job'[p] = [j EXCEPT !.entries = es]
    BY <2>1 DEF TypeOK
  <2> QED
    BY <1>0, <1>5, <2>2 DEF Job, Keeps
<1>6. CASE Begin(p)
  <2>1. Holding(p)' /\ pc'[p] = "meta"
    BY <1>6, StepBoxes, StepMoves, ItselfHolds, HoldsNextIsHolding
    DEF Moved, Begin, Move, Goto, TypeOK
  <2> QED
    BY <1>6, <2>1 DEF Holding, InHand, Keeps, Begin, disk
<1>7. CASE AddFile(p)
  <2>1. CASE pc'[p] = "encrypt"
    BY <1>7, <2>1, AddFileAdds
  <2>2. CASE pc'[p] # "encrypt"
    <3>1. Holding(p)' /\ pc'[p] \in {"idle", "done"} /\ used' = used
      BY <1>7, <2>2, StepBoxes, StepMoves, ItselfHolds, HoldsNextIsHolding
      DEF Moved, AddFile, Finish, Goto, TypeOK
    <3> QED
      BY <3>1 DEF Holding, InHand, Keeps
  <2> QED
    BY <2>1, <2>2
<1>8. CASE ReadIndex(p) \/ Rewrap(p)
  <2>1. Holding(p)' /\ pc'[p] \in {"idle", "rewrap", "recrypt"} /\ used' = used
    <3>1. Holding(p)'
      BY <1>8, StepBoxes, StepMoves, ItselfHolds, HoldsNextIsHolding DEF Moved
    <3>2. pc'[p] \in {"idle", "rewrap", "recrypt"} /\ used' = used
      BY <1>8 DEF ReadIndex, Rewrap, Finish, Goto, TypeOK, disk
    <3> QED
      BY <3>1, <3>2
  <2> QED
    BY <2>1 DEF Holding, InHand, Keeps
<1>9. CASE Recrypt(p)
  BY <1>9, RecryptTakes DEF Keeps, Recrypt, disk
<1>10. CASE LoadMeta(p) \/ InitMeta(p) \/ SaveNewMeta(p)
  BY <1>1, <1>4, <1>10 DEF LoadMeta, InitMeta, SaveNewMeta, disk
<1>11. CASE Append(p) \/ Scan(p)
  BY <1>1, <1>5, <1>11 DEF Append, Scan, disk
<1>12. CASE Encrypt(p) \/ EndRewrap(p) \/ SealIndex(p) \/ RemoveOld(p) \/ Clean(p) \/ WriteIndex(p)
            \/ SaveMeta(p) \/ Done(p) \/ Kill(p)
  BY <1>1, <1>2, <1>12 DEF Encrypt, EndRewrap, SealIndex, RemoveOld, Clean, WriteIndex, SaveMeta,
                           Done, Kill, Move, disk
<1>13. CASE Dispose(p) \/ Reencrypt(p) \/ RenameNew(p)
  BY <1>2, <1>3, <1>13 DEF Dispose, Reencrypt, RenameNew
<1> QED
  BY <1>6, <1>7, <1>8, <1>9, <1>10, <1>11, <1>12, <1>13 DEF Run

LEMMA StepTracesOfFiles ==
  ASSUME NEW p \in Procs, TypeOK, Traces, BoxesStep(p), Aside(p), Begin(p) \/ Run(p) \/ Kill(p)
  PROVE  \A s \in used' : \E f \in Files : Of(s, f)'
<1>1. CASE Keeps(p) /\ used' = used
  <2> SUFFICES ASSUME NEW s \in used
               PROVE  \E f \in Files : Of(s, f)'
    BY <1>1
  <2>1. PICK f \in Files : Of(s, f)
    BY DEF Traces
  <2>2. BoxesOf(s, f)'
    BY <2>1 DEF BoxesStep
  <2>3. \A q \in Procs : job'[q].entry # None /\ job'[q].entry.place = s =>
          job'[q].file = f /\ job'[q].entry.name \in {s, f}
    BY <1>1, <2>1 DEF Of, Keeps, Aside
  <2>4. Of(s, f)'
    BY <2>2, <2>3 DEF Of, BoxesOf
  <2> QED
    BY <2>4
<1>2. ASSUME NEW f \in Files, NEW x \in Stores \ used, Adds(p, f, x)
      PROVE  \A s \in used' : \E g \in Files : Of(s, g)'
  <2>1. job'[p].entry.place = x /\ job'[p].entry.name = f /\ job'[p].file = f
        /\ used' = used \cup {x}
    BY <1>2 DEF Adds
  <2>2. ASSUME NEW s \in used
        PROVE  \E g \in Files : Of(s, g)'
    <3>1. PICK g \in Files : Of(s, g)
      BY DEF Traces
    <3>2. BoxesOf(s, g)'
      BY <3>1 DEF BoxesStep
    <3>3. \A q \in Procs : job'[q].entry # None /\ job'[q].entry.place = s =>
            job'[q].file = g /\ job'[q].entry.name \in {s, g}
      BY <2>1, <3>1 DEF Of, Aside
    <3>4. Of(s, g)'
      BY <3>2, <3>3 DEF Of, BoxesOf
    <3> QED
      BY <3>4
  <2>3. Of(x, f)'
    <3>1. boxes'[x].file = f /\ boxes'[x].name = x
      BY <1>2 DEF Adds
    <3>2. boxes'[Tmp(x)] = None
      BY <1>2, PlaceFacts DEF Adds, Traces
    <3>3. ASSUME NEW q \in Procs \ {p}
          PROVE  ~(job'[q].entry # None /\ job'[q].entry.place = x)
      BY <3>3 DEF Aside, Traces, Holding
    <3> QED
      BY <2>1, <3>1, <3>2, <3>3 DEF Of
  <2> QED
    BY <2>1, <2>2, <2>3
<1>3. ASSUME NEW e \in job[p].todo, Takes(p, e)
      PROVE  \A s \in used' : \E g \in Files : Of(s, g)'
  <2> SUFFICES ASSUME NEW s \in used
               PROVE  \E f \in Files : Of(s, f)'
    BY <1>3 DEF Takes
  <2>1. PICK f \in Files : Of(s, f)
    BY DEF Traces
  <2>2. BoxesOf(s, f)'
    BY <2>1 DEF BoxesStep
  <2>3. e.place = s => boxes[s].file = f
    BY <1>3, <2>1 DEF Of, Takes
  <2>4. \A q \in Procs : job'[q].entry # None /\ job'[q].entry.place = s =>
          job'[q].file = f /\ job'[q].entry.name \in {s, f}
    BY <1>3, <2>1, <2>3 DEF Of, Takes, Aside
  <2>5. Of(s, f)'
    BY <2>2, <2>4 DEF Of, BoxesOf
  <2> QED
    BY <2>5
<1> QED
  BY <1>1, <1>2, <1>3, StepHands

LEMMA OthersHold ==
  ASSUME NEW p \in Procs, TypeOK, Traces, BoxesStep(p), Aside(p),
         Begin(p) \/ Run(p) \/ Kill(p), NEW q \in Procs \ {p}
  PROVE  Holding(q)'
<1>1. Holding(q) /\ q \in Procs
  BY DEF Traces
<1>2. /\ pc'[q] = pc[q] /\ job'[q].meta = job[q].meta /\ job'[q].entries = job[q].entries
      /\ job'[q].todo = job[q].todo /\ job'[q].file = job[q].file
      /\ job'[q].entry = job[q].entry
  BY DEF Aside
<1>3. job[q].entries # None \/ pc[q] \in Rewrapping \cup Recrypting \cup {"write"} =>
        KnownNext(job[q].entries)
  BY <1>1, KnownKept DEF Holding
<1>4. pc[q] \in Rewrapping \cup Recrypting => KnownNext(job[q].todo)
  BY <1>1, KnownKept DEF Holding
<1>5. ASSUME pc[q] = "encrypt"
      PROVE  /\ boxes'[job[q].entry.place] # None /\ ~boxes'[job[q].entry.place].whole
             /\ \A r \in Procs \ {q} : job'[r].entry # None => job'[r].entry.place # job[q].entry.place
  <2>1. /\ boxes[job[q].entry.place] # None /\ ~boxes[job[q].entry.place].whole
        /\ job[q].entry.place \in used
        /\ \A r \in Procs \ {q} : job[r].entry # None => job[r].entry.place # job[q].entry.place
    BY <1>1, <1>5 DEF Holding, InHand
  <2>2. job'[p].entry # None => job'[p].entry.place # job[q].entry.place
    <3>1. CASE Keeps(p)
      BY <2>1, <3>1 DEF Keeps
    <3>2. ASSUME NEW f \in Files, NEW x \in Stores \ used, Adds(p, f, x)
          PROVE  job'[p].entry.place # job[q].entry.place
      BY <2>1, <3>2 DEF Adds
    <3>3. ASSUME NEW e \in job[p].todo, Takes(p, e)
          PROVE  job'[p].entry.place # job[q].entry.place
      BY <2>1, <3>3 DEF Takes
    <3> QED
      BY <3>1, <3>2, <3>3, StepHands
  <2>3. \A r \in Procs \ {q} : job'[r].entry # None => job'[r].entry.place # job[q].entry.place
    BY <2>1, <2>2 DEF Aside
  <2>4. boxes'[job[q].entry.place] # None /\ ~boxes'[job[q].entry.place].whole
    BY <1>5 DEF BoxesStep
  <2> QED
    BY <2>3, <2>4
<1>6. used \subseteq used'
  BY DEF BoxesStep
<1>7. HoldsNext(q)
  BY <1>1, <1>2, <1>3, <1>4, <1>5, <1>6 DEF HoldsNext, Holding
<1> QED
  BY <1>7, HoldsNextIsHolding

\* What is written into the index is known.
LEMMA StepIndexKnown ==
  ASSUME NEW p \in Procs, TypeOK, Traces, BoxesStep(p), Begin(p) \/ Run(p) \/ Kill(p)
  PROVE  index' \notin {None, Torn} => KnownNext(index'.entries)
<1> DEFINE j == job[p]
<1>0. Holding(p)
  BY DEF Traces
<1>1. CASE UNCHANGED index
  <2>1. index \notin {None, Torn} => Known(index.entries)
    BY DEF Traces
  <2> QED
    BY <1>1, <2>1, KnownKept
<1>2. ASSUME NEW w, NEW m, NEW es, Known(es),
             NEW new \in Written([pw |-> w, salt |-> m, entries |-> es], index), index' = new.is
      PROVE  index' \notin {None, Torn} => KnownNext(index'.entries)
  <2>1. \/ new = [is |-> [pw |-> w, salt |-> m, entries |-> es], ok |-> TRUE, fault |-> 0]
        \/ new = [is |-> index, ok |-> FALSE, fault |-> 1]
        \/ new = [is |-> Torn, ok |-> TRUE, fault |-> 1]
    BY DEF Written
  <2>2. \/ index' = [pw |-> w, salt |-> m, entries |-> es]
        \/ index' = index
        \/ index' = Torn
    BY <1>2, <2>1
  <2>3. CASE index' = [pw |-> w, salt |-> m, entries |-> es]
    <3>1. index'.entries = es
      BY <2>3
    <3>2. KnownNext(es)
      BY <1>2, KnownKept
    <3> QED
      BY <3>1, <3>2
  <2> QED
    BY <1>1, <2>2, <2>3
<1>3. CASE Append(p) /\ ~UNCHANGED index
  <2> DEFINE listed == (IF j.entries = None THEN Listed ELSE j.entries) \cup {j.entry}
  <2>1. /\ ~(j.entries = None /\ ~IndexOpens(j)) /\ pc[p] = "append"
        /\ \E w \in Written([pw |-> j.pw, salt |-> j.meta, entries |-> listed], index) :
             index' = w.is
    BY <1>3, Zenon DEF Append
  <2>2. Known({j.entry})
    BY <2>1, HandKnown DEF InHand
  <2>3. CASE j.entries = None
    <3>1. Known(Listed)
      BY <2>1, <2>3, IndexKnown
    <3>2. Known(listed)
      BY <2>2, <2>3, <3>1 DEF Known
    <3> QED
      BY <1>2, <2>1, <3>2
  <2>4. CASE j.entries # None
    <3>1. Known(listed)
      BY <1>0, <2>2, <2>4 DEF Known, Holding
    <3> QED
      BY <1>2, <2>1, <3>1
  <2> QED
    BY <2>3, <2>4
<1>4. CASE SealIndex(p)
  <2>1. /\ pc[p] = "seal"
        /\ \E w \in Written([pw |-> j.new, salt |-> j.meta, entries |-> j.entries], index) :
             index' = w.is
    BY <1>4, Zenon DEF SealIndex
  <2>2. Known(j.entries)
    BY <1>0, <2>1 DEF Holding, Rewrapping
  <2> QED
    BY <1>2, <2>1, <2>2
<1>5. CASE WriteIndex(p)
  <2>1. /\ pc[p] = "write"
        /\ \E w \in Written([pw |-> j.pw, salt |-> j.meta, entries |-> j.entries], index) :
             index' = w.is
    BY <1>5, Zenon DEF WriteIndex
  <2> QED
    BY <1>0, <1>2, <2>1 DEF Holding
<1> QED
  BY <1>1, <1>3, <1>4, <1>5
  DEF Run, Begin, LoadMeta, InitMeta, AddFile, Encrypt, Dispose, ReadIndex, Rewrap, EndRewrap,
      SaveNewMeta, Recrypt, Reencrypt, RemoveOld, RenameNew, Clean, Scan, SaveMeta, Done, Kill, disk

LEMMA StepTraces ==
  ASSUME NEW p \in Procs, TypeOK, Traces, Begin(p) \/ Run(p) \/ Kill(p)
  PROVE  Traces'
<1>1. BoxesStep(p) /\ Aside(p)
  BY StepBoxes, StepMoves DEF Moved
<1>2. \A s \in used' : \E f \in Files : Of(s, f)'
  BY <1>1, StepTracesOfFiles
<1>3. Holding(p)'
  BY <1>1, ItselfHolds, HoldsNextIsHolding
<1>4. \A q \in Procs \ {p} : Holding(q)'
  BY <1>1, OthersHold
<1>5. index' \notin {None, Torn} => Known(index.entries)'
  BY <1>1, StepIndexKnown DEF Known, KnownNext
<1>6. \A q \in Procs : Holding(q)'
  BY <1>3, <1>4
<1> QED
  BY <1>1, <1>2, <1>5, <1>6 DEF Traces, BoxesStep
-----------------------------------------------------------------------------
(***************************************************************************)
(* No step loses the last finished container of a file unnoticed.          *)
(***************************************************************************)
\* Finished containers stay where they are, but for the one p has in hand.
LEMMA StoredStays ==
  ASSUME NEW f \in Files, Safe(f),
         \A s \in Stores : boxes[s] # None /\ boxes[s].whole /\ boxes[s].file = f =>
           \/ f \in exposed'
           \/ boxes'[s] # None /\ boxes'[s].whole /\ boxes'[s].file = f,
         f \in exposed => f \in exposed' \/ Stored(f)'
  PROVE  Safe(f)'
  BY DEF Safe, Stored

LEMMA StepSafe ==
  ASSUME NEW p \in Procs, TypeOK, Traces, Begin(p) \/ Run(p) \/ Kill(p), NEW f \in Files, Safe(f)
  PROVE  Safe(f)'
<1> DEFINE j == job[p]
           s == j.entry.place
<1>1. CASE UNCHANGED <<boxes, exposed>>
  BY <1>1, StoredStays
<1>2. CASE AddFile(p) /\ ~UNCHANGED <<boxes, exposed>>
  <2>1. PICK g \in Files, x \in Stores \ used :
          boxes' = [boxes EXCEPT ![x] = [file |-> g, name |-> x, pw |-> j.pw,
                                         big |-> TRUE, whole |-> FALSE]]
    BY <1>2, Zenon DEF AddFile, TypeOK
  <2>2. \A y \in Places \ {x} : boxes'[y] = boxes[y]
    BY <2>1 DEF TypeOK
  <2>3. boxes[x] = None
    BY DEF Traces
  <2>4. exposed' = exposed
    BY <1>2 DEF AddFile
  <2> QED
    BY <2>2, <2>3, <2>4, PlaceFacts, StoredStays
<1>3. CASE Encrypt(p) /\ ~UNCHANGED <<boxes, exposed>>
  <2>1. /\ pc[p] = "encrypt" /\ exposed' = exposed
        /\ boxes' = [boxes EXCEPT ![s].whole = TRUE, ![s].name = j.file]
    BY <1>3 DEF Encrypt
  <2>2. boxes[s] # None /\ ~boxes[s].whole /\ s \in Places
    BY <2>1, HoldingTypes, PlaceFacts DEF Traces, Holding, InHand
  <2>3. \A y \in Places \ {s} : boxes'[y] = boxes[y]
    BY <2>1 DEF TypeOK
  <2> QED
    BY <2>1, <2>2, <2>3, PlaceFacts, StoredStays
<1>4. CASE Rewrap(p) /\ ~UNCHANGED <<boxes, exposed>>
  <2>1. PICK e \in j.todo : boxes[e.place] # None /\ boxes' = [boxes EXCEPT ![e.place].pw = j.new]
    BY <1>4, Zenon DEF Rewrap
  <2>2. e \in Entry /\ exposed' = exposed
    BY <1>4 DEF Rewrap, Traces, Holding, Rewrapping
  <2>3. e.place \in Places
    BY <2>2 DEF Entry
  <2>4. boxes[e.place] \in Box /\ boxes'[e.place] = [boxes[e.place] EXCEPT !.pw = j.new]
    BY <2>1, <2>3, BoxFields DEF TypeOK
  <2>5. boxes'[e.place] \in Box
    BY <2>1, <2>3, <2>4, BoxFields, JobFields DEF TypeOK
  <2>6. /\ boxes'[e.place].file = boxes[e.place].file
        /\ boxes'[e.place].whole <=> boxes[e.place].whole
        /\ boxes'[e.place] # None
    BY <2>4, <2>5, Basics DEF Box
  <2>7. \A y \in Places \ {e.place} : boxes'[y] = boxes[y]
    BY <2>1 DEF TypeOK
  <2>8. \A y \in Stores : boxes[y] # None /\ boxes[y].whole /\ boxes[y].file = f =>
          boxes'[y] # None /\ boxes'[y].whole /\ boxes'[y].file = f
    BY <2>6, <2>7, PlaceFacts
  <2> QED
    BY <2>2, <2>8, StoredStays
<1>5. CASE Reencrypt(p)
  <2>1. exposed' = exposed
    BY <1>5 DEF Reencrypt
  <2>2. \A y \in Stores : boxes'[y] = boxes[y]
    BY <1>5, ReencryptPut, PlaceFacts DEF TypeOK
  <2> QED
    BY <2>1, <2>2, StoredStays
<1>6. CASE RemoveOld(p) /\ ~UNCHANGED <<boxes, exposed>>
  <2>1. /\ pc[p] \in InHand /\ boxes' = [boxes EXCEPT ![s] = None]
        /\ exposed' = exposed \cup {j.file}
    BY <1>6 DEF RemoveOld, Move, InHand
  <2>2. Of(s, j.file)
    BY <2>1, InHandOf
  <2>3. \A y \in Stores \ {s} : boxes'[y] = boxes[y]
    BY <2>1, PlaceFacts DEF TypeOK
  <2>4. \A y \in Stores : boxes[y] # None /\ boxes[y].whole /\ boxes[y].file = f =>
           \/ f \in exposed'
           \/ boxes'[y] # None /\ boxes'[y].whole /\ boxes'[y].file = f
    BY <2>1, <2>2, <2>3 DEF Of
  <2> QED
    BY <2>1, <2>4, StoredStays
<1>7. CASE RenameNew(p) /\ ~UNCHANGED <<boxes, exposed>>
  <2> DEFINE tmp == Tmp(j.entry.name)
  <2>1. /\ pc[p] \in InHand /\ boxes[tmp] # None
        /\ boxes' = [boxes EXCEPT ![s] = boxes[tmp], ![tmp] = None]
        /\ exposed' = IF boxes[tmp].whole THEN exposed \ {j.file} ELSE exposed \cup {j.file}
    BY <1>7 DEF RenameNew, Move, InHand
  <2>2. /\ s \in used /\ s \in Stores /\ j.file \in Files /\ j.entry.name \in {s, j.file}
        /\ Of(s, j.file)
    BY <2>1, HoldingTypes, InHandOf
  <2>3. s \in Places /\ tmp \in Places /\ tmp \notin Stores
    BY <2>2, PlaceFacts
  <2>4. /\ boxes'[s] = boxes[tmp]
        /\ \A y \in Stores \ {s} : boxes'[y] = boxes[y]
    BY <2>1, <2>3, PlaceFacts DEF TypeOK
  <2>5. boxes[tmp].file = j.file
    <3>1. CASE j.entry.name = s
      BY <2>1, <2>2, <3>1 DEF Of
    <3>2. CASE j.entry.name = j.file
      BY <2>1, <2>2, <3>2 DEF Traces
    <3> QED
      BY <2>2, <3>1, <3>2
  <2> HIDE DEF tmp
  <2>6. CASE boxes[tmp].whole
    <3>1. boxes'[s] # None /\ boxes'[s].whole /\ boxes'[s].file = j.file
      BY <2>1, <2>4, <2>5, <2>6
    <3>2. f = j.file => Safe(f)'
      BY <2>2, <3>1 DEF Safe, Stored
    <3>3. ASSUME f # j.file PROVE Safe(f)'
      <4>1. \A y \in Stores : boxes[y] # None /\ boxes[y].whole /\ boxes[y].file = f =>
              boxes'[y] # None /\ boxes'[y].whole /\ boxes'[y].file = f
        BY <2>2, <2>4, <3>3 DEF Of
      <4> QED
        BY <2>1, <2>6, <3>3, <4>1, StoredStays
    <3> QED
      BY <3>2, <3>3
  <2>7. CASE ~boxes[tmp].whole
    <3>1. \A y \in Stores : boxes[y] # None /\ boxes[y].whole /\ boxes[y].file = f =>
           \/ f \in exposed'
           \/ boxes'[y] # None /\ boxes'[y].whole /\ boxes'[y].file = f
      BY <2>1, <2>2, <2>4, <2>7 DEF Of
    <3> QED
      BY <2>1, <2>7, <3>1, StoredStays
  <2> QED
    BY <2>6, <2>7
<1>8. CASE Clean(p)
  <2>1. exposed' = exposed /\ \A y \in Stores : boxes'[y] = boxes[y]
    BY <1>8, PlaceFacts DEF Clean
  <2> QED
    BY <2>1, StoredStays
<1>9. CASE Begin(p) \/ LoadMeta(p) \/ InitMeta(p) \/ Append(p) \/ Dispose(p) \/ ReadIndex(p)
           \/ EndRewrap(p) \/ SaveNewMeta(p) \/ SealIndex(p) \/ Recrypt(p) \/ Scan(p)
           \/ WriteIndex(p) \/ SaveMeta(p) \/ Done(p) \/ Kill(p)
  <2>1. UNCHANGED <<boxes, exposed>>
    BY <1>9 DEF Begin, LoadMeta, InitMeta, Append, Dispose, ReadIndex, EndRewrap, SaveNewMeta,
                SealIndex, Recrypt, Scan, WriteIndex, SaveMeta, Done, Kill, disk
  <2> QED
    BY <1>1, <2>1
<1> QED
  BY <1>1, <1>2, <1>3, <1>4, <1>5, <1>6, <1>7, <1>8, <1>9 DEF Run

\* A file leaves its place only after its container is finished.
LEMMA StepKeeping ==
  ASSUME NEW p \in Procs, TypeOK, Traces, Keeping, Begin(p) \/ Run(p) \/ Kill(p)
  PROVE  Keeping'
<1> DEFINE j == job[p]
<1>0. Aside(p) /\ j \in Job
  BY StepMoves DEF Moved, TypeOK
<1>1. ASSUME NEW f \in Files
      PROVE  f \in sources' \/ Safe(f)'
  <2>1. CASE Safe(f)
    BY <2>1, StepSafe
  <2>2. CASE f \in sources /\ f \notin sources'
    <3>1. Dispose(p)
      BY <2>2 DEF Run, Begin, LoadMeta, InitMeta, AddFile, Encrypt, Append, ReadIndex, Rewrap,
                  EndRewrap, SaveNewMeta, SealIndex, Recrypt, Reencrypt, RemoveOld, RenameNew,
                  Clean, Scan, WriteIndex, SaveMeta, Done, Kill, disk
    <3>2. pc[p] = "dispose" /\ f = j.file
      BY <2>2, <3>1 DEF Dispose, Move
    <3>3. Safe(f)
      BY <3>2 DEF Keeping
    <3> QED
      BY <3>3, StepSafe
  <2> QED
    BY <2>1, <2>2 DEF Keeping
<1>2. ASSUME NEW q \in Procs, pc'[q] \in {"append", "dispose"}
      PROVE  Safe(job[q].file)'
  <2>1. Traces' /\ TypeOK'
    BY StepTraces, StepTypes
  <2>2. job'[q].file \in Files
    BY <1>2, <2>1 DEF Traces, Holding, InHand
  <2>3. PICK f \in Files : f = job'[q].file
    BY <2>2
  <2>4. Safe(f)'
    <3>1. CASE q # p
      <4>1. pc[q] \in {"append", "dispose"} /\ f = job[q].file
        BY <1>0, <1>2, <2>3, <3>1 DEF Aside
      <4>2. Safe(f)
        BY <4>1 DEF Keeping
      <4> QED
        BY <4>2, StepSafe
    <3>2. CASE q = p /\ Append(p)
      <4> DEFINE listed == (IF j.entries = None THEN Listed ELSE j.entries) \cup {j.entry}
      <4>1. pc[p] = "append" /\ job' = [job EXCEPT ![p].entries = listed]
        BY <1>2, <3>2 DEF Append, Finish, Goto, TypeOK
      <4> HIDE DEF listed
      <4>2. job'[p] = [j EXCEPT !.entries = listed]
        BY <4>1 DEF TypeOK
      <4>3. f = j.file
        BY <1>0, <2>3, <3>2, <4>2 DEF Job
      <4>4. Safe(f)
        BY <4>1, <4>3 DEF Keeping
      <4> QED
        BY <4>4, StepSafe
    <3>3. CASE q = p /\ Encrypt(p)
      <4> DEFINE s == j.entry.place
      <4>1. /\ pc[p] = "encrypt" /\ UNCHANGED job
            /\ boxes' = [boxes EXCEPT ![s].whole = TRUE, ![s].name = j.file]
        BY <1>2, <3>3 DEF Encrypt, Finish, Goto, TypeOK
      <4>2. /\ boxes[s] # None /\ s \in Places /\ s \in Stores /\ Of(s, j.file) /\ j.file \in Names
        BY <4>1, HoldingTypes, InHandOf, PlaceFacts DEF Traces, Holding, InHand
      <4>3. boxes[s] \in Box /\ boxes[s].file = j.file
        BY <4>2, BoxFields DEF Of
      <4>4. boxes'[s] = [boxes[s] EXCEPT !.whole = TRUE, !.name = j.file]
        BY <4>1, <4>2 DEF TypeOK
      <4>5. boxes'[s].file = j.file /\ boxes'[s].whole
        <5>1. \A b \in Box, n \in Names :
                /\ [b EXCEPT !.whole = TRUE, !.name = n].file = b.file
                /\ [b EXCEPT !.whole = TRUE, !.name = n].whole
          BY DEF Box
        <5> QED
          BY <4>2, <4>3, <4>4, <5>1
      <4>6. boxes'[s] # None
        <5>1. \A n \in Names : [boxes[s] EXCEPT !.whole = TRUE, !.name = n] \in Box
          BY <4>2, BoxFields
        <5>2. boxes'[s] \in Box
          BY <4>2, <4>4, <5>1
        <5> QED
          BY <5>2, Basics
      <4>7. f = j.file
        BY <2>3, <3>3, <4>1
      <4> QED
        BY <4>2, <4>5, <4>6, <4>7 DEF Safe, Stored
    <3>4. q = p => Append(p) \/ Encrypt(p)
      <4> SUFFICES ASSUME q = p PROVE Append(p) \/ Encrypt(p)
        OBVIOUS
      <4>1. pc \in [Procs -> PcValues] /\ pc'[p] \in {"append", "dispose"}
        BY <1>2 DEF TypeOK
      <4>2. ~Finish(p)
        BY <4>1 DEF Finish, Goto
      <4>3. CASE LoadMeta(p) \/ InitMeta(p)
        <5>1. pc'[p] = AfterMeta(j.cmd)
          BY <4>1, <4>2, <4>3 DEF LoadMeta, InitMeta, Goto
        <5>2. j.cmd \in AllCommands
          BY <1>0, JobFields
        <5> QED
          BY <4>1, <5>1, <5>2 DEF AfterMeta, AllCommands
      <4>4. CASE Begin(p) \/ AddFile(p) \/ Dispose(p) \/ ReadIndex(p) \/ Rewrap(p) \/ EndRewrap(p)
        BY <4>1, <4>2, <4>4 DEF Begin, AddFile, Dispose, ReadIndex, Rewrap, EndRewrap, Move, Goto
      <4>5. CASE SaveNewMeta(p) \/ SealIndex(p) \/ Recrypt(p) \/ Reencrypt(p) \/ RemoveOld(p)
                 \/ RenameNew(p)
        BY <4>1, <4>2, <4>5
        DEF SaveNewMeta, SealIndex, Recrypt, Reencrypt, RemoveOld, RenameNew, Move, Goto
      <4>6. CASE Clean(p) \/ Scan(p) \/ WriteIndex(p) \/ SaveMeta(p) \/ Done(p) \/ Kill(p)
        BY <4>1, <4>2, <4>6 DEF Clean, Scan, WriteIndex, SaveMeta, Done, Kill, Move, Goto
      <4> QED
        BY <4>3, <4>4, <4>5, <4>6 DEF Run
    <3> QED
      BY <3>1, <3>2, <3>3, <3>4
  <2> QED
    BY <2>3, <2>4 DEF Safe, Stored
<1> QED
  BY <1>1, <1>2 DEF Keeping
-----------------------------------------------------------------------------
(***************************************************************************)
(* Theorems.                                                               *)
(***************************************************************************)
LEMMA InitHolds == Init => TypeOK /\ Traces /\ Keeping
<1> SUFFICES ASSUME Init PROVE TypeOK /\ Traces /\ Keeping
  OBVIOUS
<1>1. TypeOK
  BY Basics DEF Init, TypeOK, PcValues
<1>2. /\ IdleJob.entries = None /\ IdleJob.todo = {} /\ IdleJob.entry = None
  BY DEF IdleJob
<1>3. \A p \in Procs : Holding(p)
  BY <1>2 DEF Init, Holding, Rewrapping, Recrypting, InHand
<1>4. \A pl \in Places : boxes[pl] = None
  BY DEF Init
<1>5. \A n \in Files \cup Stores : boxes[Tmp(n)] = None /\ Tmp(n) \in Places
  BY <1>4, PlaceFacts
<1>6. Traces
  BY <1>3, <1>4, <1>5, PlaceFacts DEF Init, Traces
<1>7. Keeping
  BY DEF Init, Keeping
<1> QED
  BY <1>1, <1>6, <1>7

LEMMA StutterHolds ==
  ASSUME TypeOK, Traces, Keeping, UNCHANGED vars
  PROVE  TypeOK' /\ Traces' /\ Keeping'
<1> USE DEF vars, disk
<1>1. TypeOK'
  BY DEF TypeOK
<1>2. \A p \in Procs : Holding(p)'
  BY DEF Traces, Holding, Known
<1>3. \A s \in used' : \E f \in Files : Of(s, f)'
  BY DEF Traces, Of
<1>4. Traces'
  BY <1>2, <1>3 DEF Traces, Known
<1>5. Keeping'
  BY DEF Keeping, Safe, Stored
<1> QED
  BY <1>1, <1>4, <1>5

\* However commands overlap, fail and are killed, every variable keeps its type, and what is
\* under a random name, beside it in .recrypt.tmp and in the hands of commands is of one file.
THEOREM VaultTypes == Spec => [](TypeOK /\ Traces)
<1>1. Init => TypeOK /\ Traces /\ Keeping
  BY InitHolds
<1>2. (TypeOK /\ Traces /\ Keeping) /\ [Next]_vars => (TypeOK /\ Traces /\ Keeping)'
  BY StepTypes, StepTraces, StepKeeping, StutterHolds DEF Next
<1> QED
  BY <1>1, <1>2, PTL DEF Spec

LEMMA KeepingIsEnough ==
  ASSUME TypeOK, Keeping
  PROVE  NothingLost
  BY PlaceFacts DEF Keeping, Safe, Stored, NothingLost, Kept

\* However commands overlap, fail and are killed, a file that was given to the vault is still
\* where it was or in a finished container, unless a recrypt removed its container and did
\* not put the new one in its place (main.cpp 2590-2594).
THEOREM FilesAreKept == Spec => []NothingLost
<1>1. Init => TypeOK /\ Traces /\ Keeping
  BY InitHolds
<1>2. (TypeOK /\ Traces /\ Keeping) /\ [Next]_vars => (TypeOK /\ Traces /\ Keeping)'
  BY StepTypes, StepTraces, StepKeeping, StutterHolds DEF Next
<1>3. TypeOK /\ Traces /\ Keeping => NothingLost
  BY KeepingIsEnough
<1> QED
  BY <1>1, <1>2, <1>3, PTL DEF Spec
-----------------------------------------------------------------------------
(***************************************************************************)
(* A command that nothing else runs beside.                                *)
(***************************************************************************)
\* A step leaves the other jobs alone and, unless it ends its own, keeps what the user gave
\* and what the command knows.
Proceeds(p) ==
  /\ pc[p] # "idle"
  /\ \A q \in Procs \ {p} : pc'[q] = pc[q] /\ job'[q] = job[q]
  /\ pc'[p] # "idle" => job'[p].shared = job[p].shared
  /\ pc'[p] # "idle" /\ Knows(p) => Knows(p)'

\* The same of the job's record: who typed what, and with whom around.
SameUser(r, s) == r.shared = s.shared /\ r.pw = s.pw /\ r.new = s.new

LEMMA StepTo ==
  ASSUME NEW p \in Procs, TypeOK, NEW place, Goto(p, place),
         NEW r, job' = [job EXCEPT ![p] = r]
  PROVE  /\ pc'[p] = place /\ job'[p] = r
         /\ \A q \in Procs \ {p} : pc'[q] = pc[q] /\ job'[q] = job[q]
  BY DEF TypeOK, Goto

LEMMA GotoTo ==
  ASSUME NEW p \in Procs, TypeOK, NEW place, Goto(p, place), UNCHANGED job
  PROVE  /\ pc'[p] = place /\ job'[p] = job[p]
         /\ \A q \in Procs \ {p} : pc'[q] = pc[q] /\ job'[q] = job[q]
  BY DEF TypeOK, Goto

LEMMA FinishProceeds ==
  ASSUME NEW p \in Procs, TypeOK, Finish(p), pc[p] # "idle"
  PROVE  Proceeds(p)
  BY DEF Finish, Goto, Proceeds, TypeOK

LEMMA WrittenOk ==
  ASSUME NEW v, NEW old, NEW w \in Written(v, old), w.ok
  PROVE  w.is \in {v, Torn}
<1>1. \/ w = [is |-> v, ok |-> TRUE, fault |-> 0]
      \/ w = [is |-> old, ok |-> FALSE, fault |-> 1]
      \/ w = [is |-> Torn, ok |-> TRUE, fault |-> 1]
  BY DEF Written
<1> QED
  BY <1>1

LEMMA LoadMetaProceeds ==
  ASSUME NEW p \in Procs, TypeOK, LoadMeta(p)
  PROVE  Proceeds(p)
<1> DEFINE j == job[p]
<1>0. j \in Job /\ pc[p] = "meta"
  BY DEF TypeOK, LoadMeta
<1>1. CASE meta \in Salts
  <2>1. /\ Goto(p, AfterMeta(j.cmd)) /\ job' = [job EXCEPT ![p] = [j EXCEPT !.meta = meta]]
        /\ UNCHANGED <<given, disk, faults>>
    BY <1>1 DEF LoadMeta
  <2>2. /\ pc'[p] = AfterMeta(j.cmd) /\ job'[p] = [j EXCEPT !.meta = meta]
        /\ \A q \in Procs \ {p} : pc'[q] = pc[q] /\ job'[q] = job[q]
    BY <2>1, StepTo
  <2>3. job'[p].meta = meta /\ job'[p].shared = j.shared
    BY <1>0, <2>2 DEF Job
  <2>4. pc'[p] \in {"add", "index", "scan", "save", "done"}
    BY <1>0, <2>2, JobFields DEF AfterMeta, AllCommands
  <2>5. meta' = meta
    BY <2>1 DEF disk
  <2>6. Knows(p)'
    BY <2>3, <2>4, <2>5 DEF Knows, Recrypting
  <2> QED
    BY <1>0, <2>2, <2>3, <2>6 DEF Proceeds
<1>2. CASE meta \notin Salts
  BY <1>0, <1>2, FinishProceeds DEF LoadMeta
<1> QED
  BY <1>1, <1>2

LEMMA InitMetaProceeds ==
  ASSUME NEW p \in Procs, TypeOK, InitMeta(p)
  PROVE  Proceeds(p)
<1> DEFINE j == job[p]
<1>0. j \in Job /\ pc[p] = "meta" /\ j.cmd \in {"init", "add"}
  BY DEF TypeOK, InitMeta
<1>1. CASE Finish(p)
  BY <1>0, <1>1, FinishProceeds
<1>2. ASSUME NEW w \in Written(salts', None), w.ok, meta' = w.is, Goto(p, AfterMeta(j.cmd)),
             job' = [job EXCEPT ![p] = [j EXCEPT !.meta = salts']]
      PROVE  Proceeds(p)
  <2>1. /\ pc'[p] = AfterMeta(j.cmd) /\ job'[p] = [j EXCEPT !.meta = salts']
        /\ \A q \in Procs \ {p} : pc'[q] = pc[q] /\ job'[q] = job[q]
    BY <1>2, StepTo
  <2>2. job'[p].meta = salts' /\ job'[p].shared = j.shared
    BY <1>0, <2>1 DEF Job
  <2>3. pc'[p] \in {"add", "done"}
    BY <1>0, <2>1 DEF AfterMeta
  <2>4. meta' \in {salts', Torn}
    BY <1>2, WrittenOk
  <2>5. Knows(p)'
    BY <2>2, <2>3, <2>4 DEF Knows, Recrypting
  <2> QED
    BY <1>0, <2>1, <2>2, <2>5 DEF Proceeds
<1>3. Finish(p) \/ \E w \in Written(salts', None) :
                     /\ w.ok /\ meta' = w.is /\ Goto(p, AfterMeta(j.cmd))
                     /\ job' = [job EXCEPT ![p] = [j EXCEPT !.meta = salts']]
  BY DEF InitMeta
<1> QED
  BY <1>1, <1>2, <1>3

LEMMA SaveNewMetaProceeds ==
  ASSUME NEW p \in Procs, TypeOK, SaveNewMeta(p)
  PROVE  Proceeds(p)
<1> DEFINE j == job[p]
<1>0. j \in Job /\ pc[p] = "reseal"
  BY DEF TypeOK, SaveNewMeta
<1>1. CASE Finish(p)
  BY <1>0, <1>1, FinishProceeds
<1>2. ASSUME NEW w \in Written(salts', meta), w.ok, meta' = w.is, Goto(p, "seal"),
             job' = [job EXCEPT ![p] = [j EXCEPT !.meta = salts']]
      PROVE  Proceeds(p)
  <2>1. /\ pc'[p] = "seal" /\ job'[p] = [j EXCEPT !.meta = salts']
        /\ \A q \in Procs \ {p} : pc'[q] = pc[q] /\ job'[q] = job[q]
    BY <1>2, StepTo
  <2>2. /\ job'[p].meta = salts' /\ job'[p].shared = j.shared /\ job'[p].entries = j.entries
        /\ job'[p].dropped = j.dropped /\ job'[p].new = j.new
    BY <1>0, <2>1 DEF Job
  <2>4. meta' \in {salts', Torn}
    BY <1>2, WrittenOk
  <2>5. boxes' = boxes
    BY DEF SaveNewMeta
  <2>6. ASSUME Knows(p) PROVE Knows(p)'
    BY <1>0, <2>1, <2>2, <2>4, <2>5, <2>6 DEF Knows, Recrypting, Rekeyed
  <2> QED
    BY <1>0, <2>1, <2>2, <2>6 DEF Proceeds
<1>3. Finish(p) \/ \E w \in Written(salts', meta) :
                     /\ w.ok /\ meta' = w.is /\ Goto(p, "seal")
                     /\ job' = [job EXCEPT ![p] = [j EXCEPT !.meta = salts']]
  BY DEF SaveNewMeta
<1> QED
  BY <1>1, <1>2, <1>3

-----------------------------------------------------------------------------
\* A file is added.
LEMMA AddFileProceeds ==
  ASSUME NEW p \in Procs, TypeOK, AddFile(p)
  PROVE  Proceeds(p)
<1> DEFINE j == job[p]
<1>0. j \in Job /\ pc[p] = "add" /\ meta' = meta
  BY DEF TypeOK, AddFile
<1>1. CASE Finish(p)
  BY <1>0, <1>1, FinishProceeds
<1>2. CASE Goto(p, "done") /\ UNCHANGED job
  <2>1. /\ pc'[p] = "done" /\ job'[p] = j
        /\ \A q \in Procs \ {p} : pc'[q] = pc[q] /\ job'[q] = job[q]
    BY <1>2, GotoTo
  <2>2. ASSUME Knows(p) PROVE Knows(p)'
    BY <1>0, <2>1, <2>2 DEF Knows, Recrypting
  <2> QED
    BY <1>0, <2>1, <2>2 DEF Proceeds
<1>3. ASSUME NEW f \in sources, NEW s \in Stores \ used, Goto(p, "encrypt"),
             boxes' = [boxes EXCEPT ![s] = [file |-> f, name |-> s, pw |-> j.pw, big |-> TRUE,
                                            whole |-> FALSE]],
             job' = [job EXCEPT ![p] = [j EXCEPT !.file = f, !.todo = j.todo \ {f},
                                                 !.entry = [name |-> f, place |-> s]]]
      PROVE  Proceeds(p)
  <2>1. /\ pc'[p] = "encrypt"
        /\ job'[p] = [j EXCEPT !.file = f, !.todo = j.todo \ {f},
                               !.entry = [name |-> f, place |-> s]]
        /\ \A q \in Procs \ {p} : pc'[q] = pc[q] /\ job'[q] = job[q]
    BY <1>3, StepTo
  <2>2. /\ job'[p].meta = j.meta /\ job'[p].shared = j.shared /\ job'[p].pw = j.pw
        /\ job'[p].file = f /\ job'[p].entry = [name |-> f, place |-> s]
    BY <1>0, <2>1 DEF Job
  <2>3. f \in Files /\ s \in Names /\ j.pw \in Passwords
    BY PlaceFacts, JobFields, <1>0 DEF TypeOK
  <2>4. [file |-> f, name |-> s, pw |-> j.pw, big |-> TRUE, whole |-> FALSE] \in Box
    BY <2>3 DEF Box
  <2>5. boxes'[s] = [file |-> f, name |-> s, pw |-> j.pw, big |-> TRUE, whole |-> FALSE]
    BY <1>3, PlaceFacts DEF TypeOK
  <2>6. boxes'[s] # None /\ boxes'[s].file = f /\ boxes'[s].pw = j.pw
    <3>1. boxes'[s] \in Box
      BY <2>4, <2>5, Zenon
    <3>2. boxes'[s].file = f /\ boxes'[s].pw = j.pw
      BY <2>5
    <3> QED
      BY <3>1, <3>2, Basics
  <2>7. Contained(p)'
    BY <2>1, <2>2, <2>6 DEF Contained
  <2>8. ASSUME Knows(p) PROVE Knows(p)'
    BY <1>0, <2>1, <2>2, <2>7, <2>8 DEF Knows, Recrypting
  <2> QED
    BY <1>0, <2>1, <2>2, <2>8 DEF Proceeds
<1>4. \/ Finish(p)
      \/ Goto(p, "done") /\ UNCHANGED job
      \/ \E f \in sources, s \in Stores \ used :
           /\ Goto(p, "encrypt")
           /\ boxes' = [boxes EXCEPT ![s] = [file |-> f, name |-> s, pw |-> j.pw, big |-> TRUE,
                                            whole |-> FALSE]]
           /\ job' = [job EXCEPT ![p] = [j EXCEPT !.file = f, !.todo = j.todo \ {f},
                                                  !.entry = [name |-> f, place |-> s]]]
  <2>1. CASE j.todo = {} /\ Goto(p, "done") /\ UNCHANGED <<boxes, used, job>>
    BY <2>1
  <2>2. ASSUME NEW f \in j.todo, f \notin sources \/ used = Stores, Finish(p)
        PROVE  Finish(p)
    BY <2>2
  <2>3. ASSUME NEW f \in j.todo, f \in sources, NEW s \in Stores \ used, Goto(p, "encrypt"),
               boxes' = [boxes EXCEPT ![s] = [file |-> f, name |-> s, pw |-> j.pw,
                                              big |-> TRUE, whole |-> FALSE]],
               job' = [job EXCEPT ![p].file = f, ![p].todo = @ \ {f},
                                  ![p].entry = [name |-> f, place |-> s]]
        PROVE  job' = [job EXCEPT ![p] = [j EXCEPT !.file = f, !.todo = j.todo \ {f},
                                                   !.entry = [name |-> f, place |-> s]]]
    BY <1>0, <2>3 DEF TypeOK, Job
  <2> QED
    BY <2>1, <2>2, <2>3 DEF AddFile, OutOf
<1> QED
  BY <1>1, <1>2, <1>3, <1>4

LEMMA EncryptProceeds ==
  ASSUME NEW p \in Procs, TypeOK, Traces, Encrypt(p)
  PROVE  Proceeds(p)
<1> DEFINE j == job[p]
           s == j.entry.place
<1>0. j \in Job /\ pc[p] = "encrypt" /\ meta' = meta
  BY DEF TypeOK, Encrypt
<1>1. CASE Finish(p)
  BY <1>0, <1>1, FinishProceeds
<1>2. CASE /\ Goto(p, "append") /\ UNCHANGED job
           /\ boxes' = [boxes EXCEPT ![s].whole = TRUE, ![s].name = j.file]
  <2>1. /\ pc'[p] = "append" /\ job'[p] = j
        /\ \A q \in Procs \ {p} : pc'[q] = pc[q] /\ job'[q] = job[q]
    BY <1>2, GotoTo
  <2>2. s \in Stores /\ s \in Places /\ j.file \in Names
    BY <1>0, HoldingTypes, PlaceFacts DEF InHand
  <2>3. boxes'[s] = [boxes[s] EXCEPT !.whole = TRUE, !.name = j.file]
    BY <1>2, <2>2 DEF TypeOK
  <2>4. boxes[s] # None /\ boxes[s] \in Box
    BY <1>0, <2>2 DEF TypeOK, Traces, Holding
  <2>5. /\ boxes'[s] \in Box /\ boxes'[s].file = boxes[s].file /\ boxes'[s].pw = boxes[s].pw
        /\ boxes'[s].whole
    BY <2>2, <2>3, <2>4 DEF Box
  <2>6. boxes'[s] # None
    BY <2>5, Basics
  <2>7. Knows(p) => Contained(p)
    BY <1>0 DEF Knows
  <2>8. Knows(p) => Contained(p)'
    BY <2>1, <2>5, <2>6, <2>7 DEF Contained
  <2>9. ASSUME Knows(p) PROVE Knows(p)'
    BY <1>0, <2>1, <2>8, <2>9 DEF Knows, Recrypting
  <2> QED
    BY <1>0, <2>1, <2>9 DEF Proceeds
<1> QED
  BY <1>1, <1>2 DEF Encrypt

LEMMA AppendProceeds ==
  ASSUME NEW p \in Procs, TypeOK, Traces, Append(p)
  PROVE  Proceeds(p)
<1> DEFINE j == job[p]
           listed == (IF j.entries = None THEN Listed ELSE j.entries) \cup {j.entry}
           sealed == [pw |-> j.pw, salt |-> j.meta, entries |-> listed]
<1>0. j \in Job /\ pc[p] = "append" /\ meta' = meta /\ boxes' = boxes
  BY DEF TypeOK, Append
<1>1. CASE Finish(p)
  BY <1>0, <1>1, FinishProceeds
<1>2. ASSUME NEW w \in Written(sealed, index), w.ok, index' = w.is, Goto(p, "dispose"),
             job' = [job EXCEPT ![p] = [j EXCEPT !.entries = listed]],
             j.entries = None => IndexOpens(j)
      PROVE  Proceeds(p)
  <2> HIDE DEF listed
  <2>1. /\ pc'[p] = "dispose" /\ job'[p] = [j EXCEPT !.entries = listed]
        /\ \A q \in Procs \ {p} : pc'[q] = pc[q] /\ job'[q] = job[q]
    BY <1>2, StepTo
  <2>2. /\ job'[p].meta = j.meta /\ job'[p].shared = j.shared /\ job'[p].pw = j.pw
        /\ job'[p].file = j.file /\ job'[p].entry = j.entry
    BY <1>0, <2>1 DEF Job
  <2>3. index' \in {sealed, Torn}
    BY <1>2, WrittenOk
  <2>4. sealed \in Index
    <3>1. listed \subseteq Entry
      BY <1>0, <1>2, ListedType, HoldingTypes, JobFields DEF InHand, listed
    <3>2. j.meta \in Salts /\ j.pw \in Passwords
      BY <1>0, HoldingTypes, JobFields
    <3> QED
      BY <3>1, <3>2 DEF Index
  <2>5. /\ sealed.pw = j.pw /\ sealed.salt = j.meta /\ sealed.entries = listed
        /\ sealed # None /\ j.entry \in listed
    BY <2>4, Basics DEF listed
  <2> HIDE DEF sealed
  <2>6. Indexed(p)'
    BY <2>2, <2>3, <2>5 DEF Indexed
  <2>7. Knows(p) => Contained(p)'
    BY <1>0, <2>1, <2>2 DEF Knows, Contained
  <2>8. ASSUME Knows(p) PROVE Knows(p)'
    BY <1>0, <2>1, <2>2, <2>6, <2>7, <2>8 DEF Knows, Recrypting
  <2> QED
    BY <1>0, <2>1, <2>2, <2>8 DEF Proceeds
<1>3. Finish(p) \/ \E w \in Written(sealed, index) :
                     /\ w.ok /\ index' = w.is /\ Goto(p, "dispose")
                     /\ job' = [job EXCEPT ![p] = [j EXCEPT !.entries = listed]]
                     /\ j.entries = None => IndexOpens(j)
  BY DEF Append
<1> QED
  BY <1>1, <1>2, <1>3

LEMMA DisposeProceeds ==
  ASSUME NEW p \in Procs, TypeOK, Dispose(p)
  PROVE  Proceeds(p)
<1> DEFINE j == job[p]
<1>0. j \in Job /\ pc[p] = "dispose" /\ meta' = meta
  BY DEF TypeOK, Dispose, Move
<1>1. Goto(p, "add") /\ job' = [job EXCEPT ![p] = [j EXCEPT !.file = None, !.entry = None]]
  BY DEF Dispose, Move, TypeOK
<1>2. /\ pc'[p] = "add" /\ job'[p] = [j EXCEPT !.file = None, !.entry = None]
      /\ \A q \in Procs \ {p} : pc'[q] = pc[q] /\ job'[q] = job[q]
  BY <1>1, StepTo
<1>3. job'[p].meta = j.meta /\ job'[p].shared = j.shared
  BY <1>0, <1>2 DEF Job
<1>4. ASSUME Knows(p) PROVE Knows(p)'
  BY <1>0, <1>2, <1>3, <1>4 DEF Knows, Recrypting
<1> QED
  BY <1>0, <1>2, <1>3, <1>4 DEF Proceeds

-----------------------------------------------------------------------------
\* A rekey.
LEMMA ReadIndexProceeds ==
  ASSUME NEW p \in Procs, TypeOK, Traces, ReadIndex(p)
  PROVE  Proceeds(p)
<1> DEFINE j == job[p]
<1>0. /\ j \in Job /\ pc[p] = "index" /\ meta' = meta /\ boxes' = boxes
      /\ j.meta \in Salts
  BY HoldingTypes DEF TypeOK, ReadIndex, disk
<1>1. CASE IndexOpens(j)
  <2>1. /\ Goto(p, IF j.cmd = "rekey" THEN "rewrap" ELSE "recrypt")
        /\ job' = [job EXCEPT ![p] = [j EXCEPT !.entries = Listed, !.todo = Listed]]
    BY <1>1 DEF ReadIndex, TypeOK
  <2>2. /\ pc'[p] = (IF j.cmd = "rekey" THEN "rewrap" ELSE "recrypt")
        /\ job'[p] = [j EXCEPT !.entries = Listed, !.todo = Listed]
        /\ \A q \in Procs \ {p} : pc'[q] = pc[q] /\ job'[q] = job[q]
    BY <2>1, StepTo
  <2>3. /\ job'[p].meta = j.meta /\ job'[p].shared = j.shared
        /\ job'[p].entries = Listed /\ job'[p].todo = Listed
    BY <1>0, <2>2 DEF Job
  <2>4. job'[p].entries \ job'[p].todo = {}
    BY <2>3
  <2>5. ASSUME Knows(p) PROVE Knows(p)'
    <3>1. meta' = job'[p].meta
      BY <1>0, <2>3, <2>5 DEF Knows
    <3> QED
      BY <2>2, <2>4, <3>1 DEF Knows
  <2> QED
    BY <1>0, <2>2, <2>3, <2>5 DEF Proceeds
<1>2. CASE ~IndexOpens(j)
  BY <1>0, <1>2, FinishProceeds DEF ReadIndex
<1> QED
  BY <1>1, <1>2

LEMMA RewrapProceeds ==
  ASSUME NEW p \in Procs, TypeOK, Traces, Rewrap(p)
  PROVE  Proceeds(p)
<1> DEFINE j == job[p]
<1>0. j \in Job /\ pc[p] = "rewrap" /\ meta' = meta /\ pc' = pc /\ j.new \in Passwords
  BY JobFields DEF TypeOK, Rewrap
<1>1. PICK e \in j.todo :
        \/ /\ boxes[e.place] # None
           /\ boxes' = [boxes EXCEPT ![e.place].pw = j.new]
           /\ job' = [job EXCEPT ![p].todo = @ \ {e}]
        \/ /\ job' = [job EXCEPT ![p].todo = @ \ {e}, ![p].dropped = TRUE]
           /\ UNCHANGED boxes
        \/ /\ job' = [job EXCEPT ![p].todo = @ \ {e}, ![p].failed = TRUE]
           /\ UNCHANGED boxes
  BY DEF Rewrap
<1>2. e \in Entry /\ e.place \in Places
  BY <1>0 DEF Traces, Holding, Rewrapping, Entry
<1>3. \A q \in Procs \ {p} : pc'[q] = pc[q] /\ job'[q] = job[q]
  BY <1>0, <1>1 DEF TypeOK
<1>4. /\ job'[p].meta = j.meta /\ job'[p].shared = j.shared /\ job'[p].new = j.new
      /\ job'[p].entries = j.entries /\ job'[p].todo = j.todo \ {e}
      /\ job'[p].dropped = j.dropped \/ job'[p].dropped
      /\ job'[p].failed = j.failed \/ job'[p].failed
      /\ job'[p].dropped \/ job'[p].failed \/ boxes' = [boxes EXCEPT ![e.place].pw = j.new]
  BY <1>0, <1>1 DEF TypeOK, Job
<1>5. CASE boxes[e.place] # None /\ boxes' = [boxes EXCEPT ![e.place].pw = j.new]
  <2>1. boxes'[e.place] = [boxes[e.place] EXCEPT !.pw = j.new]
    BY <1>2, <1>5 DEF TypeOK
  <2>2. boxes[e.place] \in Box
    BY <1>2, <1>5 DEF TypeOK
  <2>3. boxes'[e.place] \in Box /\ boxes'[e.place].pw = j.new
    BY <1>0, <2>1, <2>2 DEF Box
  <2>4. Rekeyed(p, e)'
    BY <1>4, <2>3, Basics DEF Rekeyed
  <2>5. ASSUME NEW d, Rekeyed(p, d) PROVE Rekeyed(p, d)'
    <3>1. CASE d.place = e.place
      BY <2>4, <3>1 DEF Rekeyed
    <3>2. CASE d.place # e.place
      <4>1. boxes'[d.place] = boxes[d.place]
        BY <1>5, <3>2 DEF TypeOK
      <4> QED
        BY <1>4, <2>5, <4>1 DEF Rekeyed
    <3> QED
      BY <3>1, <3>2
  <2>6. ASSUME Knows(p) PROVE Knows(p)'
    <3>1. ASSUME ~job'[p].dropped, ~job'[p].failed, NEW d \in job'[p].entries \ job'[p].todo
          PROVE  Rekeyed(p, d)'
      <4>1. ~j.dropped /\ ~j.failed
        BY <1>4, <3>1
      <4>2. d = e \/ d \in j.entries \ j.todo
        BY <1>4, <3>1
      <4> QED
        BY <1>0, <2>4, <2>5, <2>6, <4>1, <4>2 DEF Knows
    <3> QED
      BY <1>0, <1>4, <2>6, <3>1 DEF Knows, Recrypting
  <2> QED
    BY <1>0, <1>3, <1>4, <2>6 DEF Proceeds
<1>6. CASE job'[p].dropped \/ job'[p].failed
  <2>1. ASSUME Knows(p) PROVE Knows(p)'
    BY <1>0, <1>4, <1>6, <2>1 DEF Knows, Recrypting
  <2> QED
    BY <1>0, <1>3, <1>4, <2>1 DEF Proceeds
<1>7. \/ boxes[e.place] # None /\ boxes' = [boxes EXCEPT ![e.place].pw = j.new]
      \/ job'[p].dropped \/ job'[p].failed
  BY <1>0, <1>1 DEF TypeOK, Job
<1> QED
  BY <1>5, <1>6, <1>7

LEMMA EndRewrapProceeds ==
  ASSUME NEW p \in Procs, TypeOK, EndRewrap(p)
  PROVE  Proceeds(p)
<1> DEFINE j == job[p]
<1>0. j \in Job /\ pc[p] = "rewrap" /\ meta' = meta /\ boxes' = boxes /\ j.todo = {}
  BY DEF TypeOK, EndRewrap, disk
<1>1. CASE Finish(p)
  BY <1>0, <1>1, FinishProceeds
<1>2. CASE ~j.failed /\ Goto(p, "reseal") /\ UNCHANGED job
  <2>1. /\ pc'[p] = "reseal" /\ job'[p] = j
        /\ \A q \in Procs \ {p} : pc'[q] = pc[q] /\ job'[q] = job[q]
    BY <1>2, GotoTo
  <2>2. ASSUME Knows(p) PROVE Knows(p)'
    BY <1>0, <1>2, <2>1, <2>2 DEF Knows, Recrypting, Rekeyed
  <2> QED
    BY <1>0, <2>1, <2>2 DEF Proceeds
<1> QED
  BY <1>1, <1>2 DEF EndRewrap

\* The index is written: nothing is known of it after.
LEMMA WritesProceed ==
  ASSUME NEW p \in Procs, TypeOK, SealIndex(p) \/ WriteIndex(p)
  PROVE  Proceeds(p)
<1> DEFINE j == job[p]
<1>0. pc[p] \in {"seal", "write"} /\ meta' = meta
  BY DEF SealIndex, WriteIndex
<1>1. CASE Finish(p)
  BY <1>0, <1>1, FinishProceeds
<1>2. CASE Goto(p, "done") /\ UNCHANGED job
  <2>1. /\ pc'[p] = "done" /\ job'[p] = j
        /\ \A q \in Procs \ {p} : pc'[q] = pc[q] /\ job'[q] = job[q]
    BY <1>2, GotoTo
  <2>2. ASSUME Knows(p) PROVE Knows(p)'
    BY <1>0, <2>1, <2>2 DEF Knows, Recrypting
  <2> QED
    BY <1>0, <2>1, <2>2 DEF Proceeds
<1> QED
  BY <1>1, <1>2 DEF SealIndex, WriteIndex

-----------------------------------------------------------------------------
\* A recrypt and a reindex.
LEMMA RecryptProceeds ==
  ASSUME NEW p \in Procs, TypeOK, Recrypt(p)
  PROVE  Proceeds(p)
<1> DEFINE j == job[p]
<1>0. j \in Job /\ pc[p] = "recrypt" /\ meta' = meta
  BY DEF TypeOK, Recrypt, disk
<1>1. PICK e \in j.todo :
        \/ /\ job' = [job EXCEPT ![p] = [j EXCEPT !.todo = @ \ {e}, !.entry = e,
                                                  !.file = boxes[e.place].file]]
           /\ Goto(p, "reencrypt")
        \/ job' = [job EXCEPT ![p] = [j EXCEPT !.todo = @ \ {e}]] /\ pc' = pc
  BY DEF Recrypt
<1>2. \A q \in Procs \ {p} : pc'[q] = pc[q] /\ job'[q] = job[q]
  BY <1>0, <1>1 DEF Goto, TypeOK
<1>3. pc'[p] \in {"recrypt", "reencrypt"}
  BY <1>0, <1>1 DEF Goto, TypeOK
<1>4. job'[p].meta = j.meta /\ job'[p].shared = j.shared
  <2>1. \/ job'[p] = [j EXCEPT !.todo = @ \ {e}, !.entry = e, !.file = boxes[e.place].file]
        \/ job'[p] = [j EXCEPT !.todo = @ \ {e}]
    BY <1>1 DEF TypeOK
  <2> QED
    BY <1>0, <2>1 DEF Job
<1>5. ASSUME Knows(p) PROVE Knows(p)'
  BY <1>0, <1>3, <1>4, <1>5 DEF Knows, Recrypting
<1> QED
  BY <1>0, <1>2, <1>4, <1>5 DEF Proceeds

LEMMA ReencryptProceeds ==
  ASSUME NEW p \in Procs, TypeOK, Reencrypt(p) \/ RenameNew(p)
  PROVE  Proceeds(p)
<1> DEFINE j == job[p]
<1>0. j \in Job /\ pc[p] \in {"reencrypt", "rename"} /\ meta' = meta
  BY DEF TypeOK, Reencrypt, RenameNew, Move
<1>1. \/ Goto(p, "remove") /\ UNCHANGED job
      \/ Goto(p, "recrypt") /\ job' = [job EXCEPT ![p].file = None, ![p].entry = None]
  BY DEF Reencrypt, RenameNew, Move
<1>2. \A q \in Procs \ {p} : pc'[q] = pc[q] /\ job'[q] = job[q]
  BY <1>0, <1>1 DEF Goto, TypeOK
<1>3. pc'[p] \in {"recrypt", "remove"}
  BY <1>0, <1>1 DEF Goto, TypeOK
<1>4. job'[p].meta = j.meta /\ job'[p].shared = j.shared
  BY <1>0, <1>1 DEF TypeOK, Job
<1>5. ASSUME Knows(p) PROVE Knows(p)'
  BY <1>0, <1>3, <1>4, <1>5 DEF Knows, Recrypting
<1> QED
  BY <1>0, <1>2, <1>4, <1>5 DEF Proceeds

LEMMA RemoveOldProceeds ==
  ASSUME NEW p \in Procs, TypeOK, RemoveOld(p) \/ Clean(p)
  PROVE  Proceeds(p)
<1>0. pc[p] \in {"remove", "recrypt"} /\ meta' = meta /\ job' = job
  BY DEF TypeOK, RemoveOld, Clean, Move
<1>1. Goto(p, "rename") \/ Goto(p, "scan")
  BY DEF RemoveOld, Clean, Move
<1>2. \A q \in Procs \ {p} : pc'[q] = pc[q]
  BY <1>1 DEF Goto, TypeOK
<1>3. pc'[p] \in {"rename", "scan"}
  BY <1>1 DEF Goto, TypeOK
<1>4. ASSUME Knows(p) PROVE meta' = job'[p].meta
  BY <1>0, <1>4 DEF Knows, Recrypting
<1>5. ASSUME Knows(p) PROVE Knows(p)'
  BY <1>0, <1>3, <1>4, <1>5 DEF Knows
<1> QED
  BY <1>0, <1>2, <1>5 DEF Proceeds

LEMMA ScanProceeds ==
  ASSUME NEW p \in Procs, TypeOK, Scan(p)
  PROVE  Proceeds(p)
<1> DEFINE j == job[p]
           found == {[name |-> IF boxes[pl].pw = job[p].pw THEN boxes[pl].name ELSE pl,
                      place |-> pl] : pl \in {x \in Places : boxes[x] # None}}
<1>0. j \in Job /\ pc[p] = "scan" /\ meta' = meta /\ boxes' = boxes
  BY DEF TypeOK, Scan, Move, disk
<1>1. Goto(p, "write") /\ job' = [job EXCEPT ![p] = [j EXCEPT !.entries = found]]
  BY DEF Scan, Move, TypeOK
<1> HIDE DEF found
<1>2. /\ pc'[p] = "write" /\ job'[p] = [j EXCEPT !.entries = found]
      /\ \A q \in Procs \ {p} : pc'[q] = pc[q] /\ job'[q] = job[q]
  BY <1>1, StepTo
<1>3. /\ job'[p].meta = j.meta /\ job'[p].shared = j.shared /\ job'[p].pw = j.pw
      /\ job'[p].entries = found
  BY <1>0, <1>2 DEF Job
<1>4. Found(p)'
  BY <1>0, <1>3 DEF Found, found
<1>5. ASSUME Knows(p) PROVE Knows(p)'
  BY <1>0, <1>2, <1>3, <1>4, <1>5 DEF Knows, Recrypting
<1> QED
  BY <1>0, <1>2, <1>3, <1>5 DEF Proceeds

LEMMA RunProceeds ==
  ASSUME NEW p \in Procs, TypeOK, Traces, Run(p) \/ Kill(p)
  PROVE  Proceeds(p)
<1>1. CASE SaveMeta(p) \/ Done(p) \/ Kill(p)
  BY <1>1, FinishProceeds DEF SaveMeta, Done, Kill
<1> QED
  BY <1>1, LoadMetaProceeds, InitMetaProceeds, SaveNewMetaProceeds, AddFileProceeds,
     EncryptProceeds, AppendProceeds, DisposeProceeds, ReadIndexProceeds, RewrapProceeds,
     EndRewrapProceeds, WritesProceed, RecryptProceeds, ReencryptProceeds, RemoveOldProceeds,
     ScanProceeds
  DEF Run

LEMMA StepUndisturbed ==
  ASSUME TypeOK, Traces, Undisturbed, Next
  PROVE  Undisturbed'
<1>1. PICK p \in Procs : Begin(p) \/ Run(p) \/ Kill(p)
  BY DEF Next
<1>2. CASE Run(p) \/ Kill(p)
  <2>1. Proceeds(p)
    BY <1>2, RunProceeds
  <2>2. ASSUME NEW q \in Procs PROVE ByItself(q)'
    <3>1. CASE q = p
      BY <2>1, <3>1 DEF ByItself, Proceeds, Undisturbed
    <3>2. CASE q # p
      BY <2>1, <3>2 DEF ByItself, Proceeds, Undisturbed
    <3> QED
      BY <3>1, <3>2
  <2> QED
    BY <2>2 DEF Undisturbed
<1>3. CASE Begin(p)
  <2>1. pc' = [pc EXCEPT ![p] = "meta"]
    BY <1>3 DEF Begin, Move, Goto
  <2>2. \A q \in Procs \ {p} : pc[q] # "idle" => job'[q].shared
    <3> SUFFICES ASSUME NEW q \in Procs \ {p}, pc[q] # "idle"
                 PROVE  job'[q].shared
      OBVIOUS
    <3>1. job'[q] = [job[q] EXCEPT !.shared = @ \/ pc[q] # "idle"]
      BY <1>3 DEF Begin
    <3>2. job[q] \in Job
      BY DEF TypeOK
    <3> QED
      BY <3>1, <3>2 DEF Job
  <2>3. ~job'[p].shared => \A q \in Procs \ {p} : pc[q] = "idle"
    <3>1. PICK c \in Commands, w, n \in Passwords, d \in BOOLEAN, fs \in SUBSET sources :
          /\ fs # {} <=> c = "add"
          /\ c # "rekey" => n = w
          /\ c # "add" => ~d
          /\ c \in {"init", "mount"} => w = IdleJob.pw
          /\ job' = [q \in Procs |->
              IF q = p
              THEN [IdleJob EXCEPT !.cmd = c, !.pw = w, !.new = n, !.dispose = d, !.todo = fs,
                                   !.shared = \E r \in Procs \ {p} : pc[r] # "idle"]
              ELSE [job[q] EXCEPT !.shared = @ \/ pc[q] # "idle"]]
      BY <1>3, Zenon DEF Begin
    <3> DEFINE company == \E r \in Procs \ {p} : pc[r] # "idle"
    <3>2. job'[p] = [IdleJob EXCEPT !.cmd = c, !.pw = w, !.new = n, !.dispose = d,
                                    !.todo = fs, !.shared = company]
      BY <3>1
    <3> HIDE DEF company
    <3>3. job'[p].shared = company
      BY <3>2, Basics DEF Job
    <3> QED
      BY <3>3 DEF company
  <2>4. ASSUME NEW q \in Procs \ {p} PROVE ByItself(q)'
    <3>1. pc'[q] = pc[q]
      BY <2>1 DEF TypeOK
    <3> QED
      BY <2>2, <3>1 DEF ByItself
  <2>5. ByItself(p)'
    <3>1. pc'[p] = "meta" /\ \A q \in Procs \ {p} : pc'[q] = pc[q]
      BY <2>1 DEF TypeOK
    <3>2. Knows(p)'
      BY <3>1 DEF Knows, Recrypting
    <3> QED
      BY <2>3, <3>1, <3>2 DEF ByItself
  <2> QED
    BY <2>4, <2>5 DEF Undisturbed
<1> QED
  BY <1>1, <1>2, <1>3

-----------------------------------------------------------------------------
(***************************************************************************)
(* What it comes to, one step at a time.                                   *)
(***************************************************************************)
\* Only Dispose goes from dispose to add.
LEMMA OnlyDispose ==
  ASSUME TypeOK, Traces, Next, NEW p \in Procs, pc[p] = "dispose", pc'[p] = "add"
  PROVE  Dispose(p)
<1>1. PICK q \in Procs : Begin(q) \/ Run(q) \/ Kill(q)
  BY DEF Next
<1>2. q = p
  BY <1>1, StepMoves DEF Moved, Aside
<1>3. pc[p] = "dispose" /\ ~Begin(p) /\ ~Kill(p)
  BY DEF Begin, Kill, Finish, Move, Goto, TypeOK
<1>4. Run(p)
  BY <1>1, <1>2, <1>3
<1> QED
  BY <1>3, <1>4
  DEF Run, LoadMeta, InitMeta, AddFile, Encrypt, Append, ReadIndex, Rewrap, EndRewrap,
      SaveNewMeta, SealIndex, Recrypt, Reencrypt, RemoveOld, RenameNew, Clean, Scan,
      WriteIndex, SaveMeta, Done, Move

LEMMA OnlyWrites ==
  ASSUME TypeOK, Traces, Next, NEW p \in Procs, pc[p] \in {"seal", "write"}, pc'[p] = "done"
  PROVE  IF pc[p] = "seal" THEN SealIndex(p) ELSE WriteIndex(p)
<1>1. PICK q \in Procs : Begin(q) \/ Run(q) \/ Kill(q)
  BY DEF Next
<1>2. q = p
  BY <1>1, StepMoves DEF Moved, Aside
<1>3. ~Begin(p) /\ ~Kill(p)
  BY DEF Begin, Kill, Finish, Move, Goto, TypeOK
<1>4. Run(p)
  BY <1>1, <1>2, <1>3
<1>5. (SealIndex(p) => pc[p] = "seal") /\ (WriteIndex(p) => pc[p] = "write")
  BY DEF SealIndex, WriteIndex
<1> QED
  BY <1>4, <1>5
  DEF Run, LoadMeta, InitMeta, AddFile, Encrypt, Append, Dispose, ReadIndex, Rewrap,
      EndRewrap, SaveNewMeta, Recrypt, Reencrypt, RemoveOld, RenameNew, Clean, Scan,
      SaveMeta, Done, Move

LEMMA StepTrades ==
  ASSUME TypeOK, Traces, Keeping, Undisturbed, Next,
         NEW p \in Procs, NEW f \in Files,
         pc[p] = "dispose", pc'[p] = "add", f \in sources, f \notin sources'
  PROVE  LET j == job[p] IN
         \/ f \in exposed
         \/ \E pl \in Places :
              /\ boxes[pl] # None /\ boxes[pl].whole /\ boxes[pl].file = f
              /\ ~j.shared => boxes[pl].pw = j.pw
              /\ ~j.shared /\ Torn \notin {index, meta} =>
                   /\ index # None /\ index.pw = j.pw /\ index.salt = meta
                   /\ [name |-> f, place |-> pl] \in index.entries
<1> DEFINE j == job[p]
<1>1. Dispose(p)
  BY OnlyDispose
<1>2. f = j.file
  BY <1>1 DEF Dispose
<1>3. CASE j.shared
  BY <1>2, <1>3, PlaceFacts DEF Keeping, Safe, Stored
<1>4. CASE ~j.shared
  <2>1. Knows(p)
    BY <1>4 DEF ByItself, Undisturbed
  <2>2. Contained(p) /\ Indexed(p) /\ meta \in {j.meta, Torn}
    BY <2>1 DEF Knows
  <2>3. j.entry.place \in Places
    BY HoldingTypes, PlaceFacts DEF InHand
  <2> DEFINE pl == j.entry.place
  <2>4. /\ j.entry = [name |-> f, place |-> pl]
        /\ boxes[pl] # None /\ boxes[pl].file = f /\ boxes[pl].pw = j.pw /\ boxes[pl].whole
    BY <1>2, <2>2 DEF Contained
  <2>5. index # Torn => /\ index # None /\ index.pw = j.pw /\ index.salt = j.meta
                        /\ j.entry \in index.entries
    BY <2>2 DEF Indexed
  <2> QED
    BY <1>4, <2>2, <2>3, <2>4, <2>5
<1> QED
  BY <1>3, <1>4

LEMMA StepRekeys ==
  ASSUME TypeOK, Traces, Undisturbed, Next,
         NEW p \in Procs, pc[p] = "seal", pc'[p] = "done", ~job[p].shared, ~job[p].dropped,
         Torn \notin {index', meta'}
  PROVE  /\ index'.pw = job[p].new /\ index'.salt = meta'
         /\ \A e \in index'.entries :
              boxes[e.place] # None /\ boxes[e.place].pw = job[p].new
<1> DEFINE j == job[p]
           sealed == [pw |-> j.new, salt |-> j.meta, entries |-> j.entries]
<1>1. SealIndex(p)
  BY OnlyWrites
<1>2. PICK w \in Written(sealed, index) : index' = w.is /\ (w.ok \/ Finish(p))
  BY <1>1 DEF SealIndex
<1>3. w.ok
  BY <1>2 DEF Finish, Goto, TypeOK
<1>4. index' = sealed
  BY <1>2, <1>3, WrittenOk
<1>5. Knows(p)
  BY DEF ByItself, Undisturbed
<1>6. meta' = j.meta
  BY <1>1, <1>5 DEF SealIndex, Knows
<1>7. \A e \in j.entries : Rekeyed(p, e)
  BY <1>5 DEF Knows
<1> QED
  BY <1>4, <1>6, <1>7 DEF Rekeyed

LEMMA StepRestores ==
  ASSUME TypeOK, Traces, Undisturbed, Next,
         NEW p \in Procs, pc[p] = "write", pc'[p] = "done", ~job[p].shared, index' # Torn
  PROVE  /\ index'.pw = job[p].pw /\ index'.salt = meta
         /\ {e.place : e \in index'.entries} = {pl \in Places : boxes[pl] # None}
         /\ \A e \in index'.entries :
              boxes[e.place].whole /\ boxes[e.place].pw = job[p].pw =>
                e.name = boxes[e.place].name
<1> DEFINE j == job[p]
           sealed == [pw |-> j.pw, salt |-> j.meta, entries |-> j.entries]
<1>1. WriteIndex(p)
  BY OnlyWrites
<1>2. PICK w \in Written(sealed, index) : index' = w.is /\ (w.ok \/ Finish(p))
  BY <1>1 DEF WriteIndex
<1>3. w.ok
  BY <1>2 DEF Finish, Goto, TypeOK
<1>4. index' = sealed
  BY <1>2, <1>3, WrittenOk
<1>5. Knows(p)
  BY DEF ByItself, Undisturbed
<1>6. meta = j.meta
  BY <1>5 DEF Knows
<1>7. j.entries = {[name |-> IF boxes[pl].pw = j.pw THEN boxes[pl].name ELSE pl,
                    place |-> pl] : pl \in {x \in Places : boxes[x] # None}}
  BY <1>5 DEF Knows, Found
<1>8. {e.place : e \in j.entries} = {pl \in Places : boxes[pl] # None}
  <2>1. ASSUME NEW e \in j.entries PROVE e.place \in Places /\ boxes[e.place] # None
    BY <1>7
  <2>2. ASSUME NEW pl \in Places, boxes[pl] # None PROVE \E e \in j.entries : e.place = pl
    <3> DEFINE e == [name |-> IF boxes[pl].pw = j.pw THEN boxes[pl].name ELSE pl, place |-> pl]
    <3>1. e \in j.entries
      BY <1>7, <2>2
    <3> QED
      BY <3>1
  <2> QED
    BY <2>1, <2>2
<1>9. \A e \in j.entries : boxes[e.place].pw = j.pw => e.name = boxes[e.place].name
  BY <1>7
<1>10. index'.pw = j.pw /\ index'.salt = meta /\ index'.entries = j.entries
  BY <1>4, <1>6
<1> QED
  BY <1>8, <1>9, <1>10

LEMMA InitUndisturbed == Init => Undisturbed
  BY DEF Init, Undisturbed, ByItself

LEMMA StutterUndisturbed ==
  ASSUME Undisturbed, UNCHANGED vars
  PROVE  Undisturbed'
<1>1. pc' = pc /\ job' = job /\ meta' = meta /\ index' = index /\ boxes' = boxes
  BY DEF vars, disk
<1> QED
  BY <1>1 DEF Undisturbed, ByItself, Knows, Contained, Indexed, Rekeyed, Found

\* The invariant all three rest on, and that it is one.
Holds == TypeOK /\ Traces /\ Keeping /\ Undisturbed

LEMMA AlwaysHolds == Spec => []Holds
<1>1. Init => Holds
  BY InitHolds, InitUndisturbed DEF Holds
<1>2. Holds /\ [Next]_vars => Holds'
  BY StepTypes, StepTraces, StepKeeping, StutterHolds, StepUndisturbed, StutterUndisturbed
  DEF Next, Holds
<1> QED
  BY <1>1, <1>2, PTL DEF Spec

\* --into-vault gives a source up only for a finished container under the password typed,
\* which the index, unless it was torn or other commands were running, lists (main.cpp
\* 2812-2883, vault_append_entry).
THEOREM SourcesAreTraded == Spec => SourceOnlyTraded
<1> DEFINE Trades ==
      \A p \in Procs, f \in Files :
       pc[p] = "dispose" /\ pc'[p] = "add" /\ f \in sources /\ f \notin sources' =>
         LET j == job[p] IN
         \/ f \in exposed
         \/ \E pl \in Places :
              /\ boxes[pl] # None /\ boxes[pl].whole /\ boxes[pl].file = f
              /\ ~j.shared => boxes[pl].pw = j.pw
              /\ ~j.shared /\ Torn \notin {index, meta} =>
                   /\ index # None /\ index.pw = j.pw /\ index.salt = meta
                   /\ [name |-> f, place |-> pl] \in index.entries
<1>1. ASSUME Holds, Next PROVE Trades
  BY <1>1, StepTrades DEF Holds
<1>2. Holds /\ [Next]_vars => [Trades]_vars
  BY <1>1
<1>3. Spec => [][Trades]_vars
  BY <1>2, AlwaysHolds, PTL DEF Spec
<1> QED
  BY <1>3 DEF SourceOnlyTraded

\* A rekey that nothing else ran beside, and whose writes arrived, leaves the index and every
\* container it lists under the new password (main.cpp 2441-2487, rewrap_file_with).
THEOREM RekeysAreWhole == Spec => RekeyedTogether
<1> DEFINE Rekeys ==
      \A p \in Procs :
       pc[p] = "seal" /\ pc'[p] = "done" /\ ~job[p].shared /\ ~job[p].dropped
         /\ Torn \notin {index', meta'} =>
         /\ index'.pw = job[p].new /\ index'.salt = meta'
         /\ \A e \in index'.entries :
              boxes[e.place] # None /\ boxes[e.place].pw = job[p].new
<1>1. ASSUME Holds, Next PROVE Rekeys
  BY <1>1, StepRekeys DEF Holds
<1>2. Holds /\ [Next]_vars => [Rekeys]_vars
  BY <1>1
<1>3. Spec => [][Rekeys]_vars
  BY <1>2, AlwaysHolds, PTL DEF Spec
<1> QED
  BY <1>3 DEF RekeyedTogether

\* A reindex that nothing else ran beside, and whose write arrived, leaves an index that opens
\* with the password typed and lists every container there is, whatever happened before
\* (vault_reindex).
THEOREM ReindexIsTheWayBack == Spec => ReindexRestores
<1> DEFINE Restores ==
      \A p \in Procs :
       pc[p] = "write" /\ pc'[p] = "done" /\ ~job[p].shared /\ index' # Torn =>
         /\ index'.pw = job[p].pw /\ index'.salt = meta
         /\ {e.place : e \in index'.entries} = {pl \in Places : boxes[pl] # None}
         /\ \A e \in index'.entries :
              boxes[e.place].whole /\ boxes[e.place].pw = job[p].pw =>
                e.name = boxes[e.place].name
<1>1. ASSUME Holds, Next PROVE Restores
  BY <1>1, StepRestores DEF Holds
<1>2. Holds /\ [Next]_vars => [Restores]_vars
  BY <1>1
<1>3. Spec => [][Restores]_vars
  BY <1>2, AlwaysHolds, PTL DEF Spec
<1> QED
  BY <1>3 DEF ReindexRestores
=============================================================================
