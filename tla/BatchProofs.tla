------------------------------ MODULE BatchProofs ------------------------------
(***************************************************************************)
(* What holds of a batch for any number of files, output names, workers,   *)
(* volumes and batches, kills and failures.                                *)
(***************************************************************************)
EXTENDS Batch, FiniteSetTheorems, SequenceTheorems, TLAPS

(***************************************************************************)
(* The operators the batch is built from.                                  *)
(***************************************************************************)
\* The list of a batch has every input once.
LEMMA ListOfSet ==
  ASSUME NEW S, IsFiniteSet(S)
  PROVE  SetToSeq(S) \in Seq(S) /\ IsInjective(SetToSeq(S))
<1>1. Cardinality(S) \in Nat /\ ExistsBijection(1..Cardinality(S), S)
  BY FS_CardinalityType
<1>2. PICK f \in [1..Cardinality(S) -> S] : IsInjective(f)
  BY <1>1 DEF ExistsBijection, Bijection, Injection
<1>3. SetToSeq(S) \in [1..Cardinality(S) -> S] /\ IsInjective(SetToSeq(S))
  BY <1>2 DEF SetToSeq
<1> QED
  BY <1>1, <1>3

\* Sealing a container makes it whole and leaves the rest of it as it is.
LEMMA SealedFacts ==
  ASSUME NEW c \in Container \cup {None}, NEW k
  PROVE  /\ Sealed(c, k) \in Container \cup {None}
         /\ Sealed(c, k) = None <=> c = None
         /\ c # None => /\ Sealed(c, k).of = c.of /\ Sealed(c, k).key = c.key
                        /\ c.whole => Sealed(c, k) = c
                        /\ c.key = k => Sealed(c, k) = [of |-> c.of, key |-> k, whole |-> TRUE]
                        /\ c.key # k => Sealed(c, k) = c
  BY Markers DEF Sealed, Container

LEMMA FoundType ==
  ASSUME NEW n \in Names
  PROVE  /\ Found(n) \subseteq 1..NVols
         /\ Cardinality(Found(n)) \in 0..NVols
         /\ Found(n) # {} => Cardinality(Found(n)) # 0
<1>1. NVols \in Nat /\ IsFiniteSet(1..NVols) /\ Cardinality(1..NVols) = NVols
  BY BatchConstants, FS_Interval
<1>2. Found(n) \subseteq 1..NVols
  BY DEF Found
<1>3. IsFiniteSet(Found(n)) /\ Cardinality(Found(n)) <= NVols
  BY <1>1, <1>2, FS_Subset
<1>4. Cardinality(Found(n)) \in Nat
  BY <1>3, FS_CardinalityType
<1> QED
  BY <1>1, <1>2, <1>3, <1>4, FS_EmptySet

\* Whether the volumes are complete.
LEMMA CompleteFacts ==
  ASSUME NEW n \in Names
  PROVE  /\ Complete(n) <=> \A i \in 1..NVols :
              vols[n][i] # None /\ vols[n][i].whole /\ vols[n][i].key = vols[n][1].key
         /\ Complete(n)' <=> \A i \in 1..NVols :
              vols'[n][i] # None /\ vols'[n][i].whole /\ vols'[n][i].key = vols'[n][1].key
  BY BatchConstants DEF Complete, Found

LEMMA IdleWorkerType == IdleWorker \in Worker
  BY BatchConstants DEF IdleWorker, Worker, WorkerPlaces

LEMMA NoBatchType == NoBatch \in BatchState
  BY DEF NoBatch, BatchState

\* A worker at work has an input of the batch, and a name.
LEMMA AtWork ==
  ASSUME NEW w \in Workers, TypeOK, Hands, Busy(w)
  PROVE  /\ batch.running /\ worker[w] \in Worker
         /\ worker[w].item \in Inputs /\ Target(w) \in Names
         /\ worker[w].at \in {"count"} \cup (IF batch.encrypt THEN EncryptPlaces
                                             ELSE DecryptPlaces)
<1>1. batch.running /\ worker[w] \in Worker
  BY DEF Hands, Busy, IdleWorker, TypeOK
<1>2. worker[w].item \in Inputs
  BY <1>1 DEF Hands
<1>3. Target(w) \in Names
  BY <1>2, BatchConstants DEF Target, Inputs
<1> QED
  BY <1>1, <1>2, <1>3 DEF Hands

-----------------------------------------------------------------------------
(***************************************************************************)
(* Types, and which worker has which file.                                 *)
(***************************************************************************)
\* A worker goes on with its file; what the others have stays the same, but what they have
\* read of a container may get its last byte.
Others(w) ==
  \A v \in Workers \ {w} :
    /\ worker'[v].at = worker[v].at /\ worker'[v].item = worker[v].item
    /\ worker'[v].vol = worker[v].vol /\ worker'[v].victims = worker[v].victims
    /\ worker'[v].ok = worker[v].ok /\ worker'[v].key = worker[v].key
    /\ worker'[v].read = None <=> worker[v].read = None

GoesOn(w) ==
  /\ UNCHANGED batch
  /\ Others(w)
  /\ worker'[w].item = worker[w].item
  /\ worker'[w].at \in {"count"} \cup (IF batch.encrypt THEN EncryptPlaces ELSE DecryptPlaces)
  /\ worker'[w].at = "volume" => worker'[w].vol # 0 /\ worker'[w].read # None
  /\ worker'[w].at = "victims" => worker'[w].victims # <<>>

LEMMA HandsKept ==
  ASSUME NEW w \in Workers, TypeOK, Hands, Busy(w), GoesOn(w)
  PROVE  Hands'
<1>1. batch.running /\ Busy(w)'
  BY DEF Hands, Busy, IdleWorker, GoesOn, EncryptPlaces, DecryptPlaces
<1>2. \A v \in Workers : Busy(v)' <=> Busy(v)
  BY <1>1 DEF Busy, GoesOn, Others
<1>3. \A v \in Workers : worker'[v].item = worker[v].item
  BY DEF GoesOn, Others
<1>4. batch.running => batch.list \in Seq(Inputs) /\ IsInjective(batch.list)
  BY DEF Hands
<1>5. (batch.running => batch.list \in Seq(Inputs) /\ IsInjective(batch.list))'
  BY <1>4 DEF GoesOn, Inputs, IsInjective
<1>6. ASSUME NEW v \in Workers
      PROVE  /\ ~batch'.running => worker'[v] = IdleWorker
             /\ Busy(v)' => /\ worker'[v].at \in {"count"} \cup
                                 (IF batch'.encrypt THEN EncryptPlaces ELSE DecryptPlaces)
                            /\ \E k \in DOMAIN batch'.list :
                                 k < batch'.next /\ worker'[v].item = batch'.list[k]
             /\ At(v, "ended")' => batch'.next > Len(batch'.list) + 1
             /\ At(v, "volume")' => worker'[v].vol # 0 /\ worker'[v].read # None
             /\ At(v, "victims")' => worker'[v].victims # <<>>
  <2>1. ~batch'.running => worker'[v] = IdleWorker
    BY <1>1 DEF GoesOn
  <2>2. Busy(v)' => worker'[v].at \in {"count"} \cup
                                 (IF batch'.encrypt THEN EncryptPlaces ELSE DecryptPlaces)
    BY <1>2 DEF Hands, GoesOn, Others
  <2>3. Busy(v)' => \E k \in DOMAIN batch'.list :
                                 k < batch'.next /\ worker'[v].item = batch'.list[k]
    BY <1>2, <1>3 DEF Hands, GoesOn
  <2>4. At(v, "ended")' => batch'.next > Len(batch'.list) + 1
    BY <1>1 DEF Hands, GoesOn, Others, At, Busy
  <2>5. At(v, "volume")' => worker'[v].vol # 0 /\ worker'[v].read # None
    BY DEF Hands, GoesOn, Others, At
  <2>6. At(v, "victims")' => worker'[v].victims # <<>>
    BY DEF Hands, GoesOn, Others, At
  <2> QED
    BY <2>1, <2>2, <2>3, <2>4, <2>5, <2>6
<1>7. \A u, v \in Workers :
        Busy(u)' /\ Busy(v)' /\ worker'[u].item = worker'[v].item => u = v
  BY <1>2, <1>3 DEF Hands
<1> QED
  BY <1>5, <1>6, <1>7 DEF Hands

\* Every step of a worker on its file keeps the types, and the worker its file.
LEMMA FileStep ==
  ASSUME NEW w \in Workers, TypeOK, Hands, Run(w), ~Take(w), ~Count(w)
  PROVE  TypeOK' /\ Busy(w) /\ GoesOn(w)
<1> DEFINE me == worker[w]
<1> DEFINE n == Target(w)
<1>busy. Busy(w)
  BY DEF Run, Lock, Encrypt, Verify, Fail, DropTemp, CommitUnlink, CommitRename,
     DisposeSource, Split, Volume, RemoveBase, Resolve, Decrypt, Victim, At, Busy
<1>0. /\ batch.running /\ me \in Worker /\ n \in Names /\ me.item \in Inputs
      /\ me.at \in {"count"} \cup (IF batch.encrypt THEN EncryptPlaces ELSE DecryptPlaces)
  BY <1>busy, AtWork
<1>t. /\ sources \subseteq Files /\ plain \in [Names -> Files \cup {None}]
      /\ box \in [Names -> Container \cup {None}] /\ tmp \in [Names -> Container \cup {None}]
      /\ vols \in [Names -> [1..NVols -> Container \cup {None}]]
      /\ lock \in [Names -> Workers \cup {Free, Stale}]
      /\ batch \in BatchState /\ worker \in [Workers -> Worker]
      /\ begun \subseteq Files /\ given \in 0..MaxBatches /\ faults \in 0..MaxFaults
  BY DEF TypeOK
<1>z. 0 \in 0..NVols /\ 1 \in 1..NVols
  BY BatchConstants
<1>ok. SUFFICES TypeOK' /\ GoesOn(w)
  BY <1>busy
<1> USE DEF At, Goto, GotoWith, Fault, disk
<1>1. CASE Lock(w)
  <2>0. batch.encrypt /\ me.item \in Files
    BY <1>0, <1>1 DEF Lock, DecryptPlaces, Inputs
  <2>1. CASE GotoWith(w, "dtor", FALSE) /\ UNCHANGED <<lock, tmp, begun>>
    <3>1. faults' \in 0..MaxFaults
      BY <1>t, <1>1, BatchConstants DEF Lock
    <3>2. worker' = [worker EXCEPT ![w] = [me EXCEPT !.at = "dtor", !.ok = FALSE]]
      BY <2>1, <1>t
    <3>3. [me EXCEPT !.at = "dtor", !.ok = FALSE] \in Worker
      BY <1>0 DEF Worker, WorkerPlaces
    <3>4. GoesOn(w)
      BY <1>0, <1>t, <1>1, <2>0, <3>2 DEF Lock, GoesOn, Others, Worker, EncryptPlaces
    <3> QED
      BY <1>t, <1>1, <2>1, <3>1, <3>2, <3>3, <3>4 DEF Lock, TypeOK
  <2>2. CASE ~(GotoWith(w, "dtor", FALSE) /\ UNCHANGED <<lock, tmp, begun>>)
    <3> DEFINE key == CHOOSE k \in Keys \ UsedKeys : TRUE
    <3>1. Keys \ UsedKeys # {}
      BY <1>1, <2>2 DEF Lock
    <3>2. key \in Keys
      BY <3>1
    <3> HIDE DEF key
    <3>3. /\ lock' = [lock EXCEPT ![n] = w]
          /\ tmp' = [tmp EXCEPT ![n] = [of |-> me.item, key |-> key, whole |-> FALSE]]
          /\ worker' = [worker EXCEPT ![w].at = "encrypt", ![w].key = key]
          /\ begun' = begun \cup {me.item}
          /\ UNCHANGED faults /\ UNCHANGED <<sources, plain, box, vols, batch, given>>
      BY <1>1, <2>2 DEF Lock, key
    <3>4. [of |-> me.item, key |-> key, whole |-> FALSE] \in Container
      BY <2>0, <3>2 DEF Container
    <3>5. worker' = [worker EXCEPT ![w] = [me EXCEPT !.at = "encrypt", !.key = key]]
      BY <1>t, <3>3
    <3>6. [me EXCEPT !.at = "encrypt", !.key = key] \in Worker
      BY <1>0, <3>2 DEF Worker, WorkerPlaces
    <3>7. GoesOn(w)
      BY <1>0, <1>t, <2>0, <3>3, <3>5 DEF GoesOn, Others, Worker, EncryptPlaces
    <3> QED
      BY <1>t, <2>0, <3>3, <3>4, <3>5, <3>6, <3>7 DEF TypeOK
  <2> QED
    BY <2>1, <2>2
<1>2. CASE Encrypt(w)
  <2>0. batch.encrypt
    BY <1>0, <1>2 DEF Encrypt, DecryptPlaces
  <2>1. CASE /\ tmp' = [x \in Names |-> Sealed(tmp[x], me.key)]
             /\ box' = [x \in Names |-> Sealed(box[x], me.key)]
             /\ worker' = [v \in Workers |->
                  IF v = w THEN [worker[w] EXCEPT !.at = "verify"]
                  ELSE [worker[v] EXCEPT !.read = Sealed(@, me.key)]]
             /\ UNCHANGED faults
    <3>1. \A x \in Names : Sealed(tmp[x], me.key) \in Container \cup {None}
      BY <1>t, SealedFacts
    <3>2. \A x \in Names : Sealed(box[x], me.key) \in Container \cup {None}
      BY <1>t, SealedFacts
    <3>3. \A v \in Workers : worker[v] \in Worker /\ worker[v].read \in Container \cup {None}
      BY <1>t DEF Worker
    <3>4. \A v \in Workers : /\ Sealed(worker[v].read, me.key) \in Container \cup {None}
                             /\ Sealed(worker[v].read, me.key) = None <=> worker[v].read = None
      BY <3>3, SealedFacts
    <3>5. \A v \in Workers : [worker[v] EXCEPT !.read = Sealed(@, me.key)] \in Worker
      BY <3>3, <3>4 DEF Worker
    <3>6. [me EXCEPT !.at = "verify"] \in Worker
      BY <1>0 DEF Worker, WorkerPlaces
    <3>7. worker' \in [Workers -> Worker]
      BY <2>1, <3>5, <3>6
    <3>8. Others(w)
      BY <2>1, <3>3, <3>4 DEF Others, Worker
    <3>9. GoesOn(w)
      BY <1>0, <1>2, <2>0, <2>1, <3>8 DEF Encrypt, GoesOn, Worker, EncryptPlaces
    <3> QED
      BY <1>t, <1>2, <2>1, <3>1, <3>2, <3>7, <3>9 DEF Encrypt, TypeOK
  <2>2. CASE Fault /\ GotoWith(w, "fail", FALSE) /\ UNCHANGED <<box, tmp>>
    <3>1. faults' \in 0..MaxFaults
      BY <1>t, <2>2, BatchConstants
    <3>2. worker' = [worker EXCEPT ![w] = [me EXCEPT !.at = "fail", !.ok = FALSE]]
      BY <2>2, <1>t
    <3>3. [me EXCEPT !.at = "fail", !.ok = FALSE] \in Worker
      BY <1>0 DEF Worker, WorkerPlaces
    <3>4. GoesOn(w)
      BY <1>0, <1>t, <1>2, <2>0, <3>2 DEF Encrypt, GoesOn, Others, Worker, EncryptPlaces
    <3> QED
      BY <1>t, <1>2, <2>2, <3>1, <3>2, <3>3, <3>4 DEF Encrypt, TypeOK
  <2> QED
    BY <1>2, <2>1, <2>2 DEF Encrypt
<1>3. CASE Verify(w) \/ Fail(w) \/ DropTemp(w) \/ CommitUnlink(w) \/ RemoveBase(w)
  <2>0. batch.encrypt
    BY <1>0, <1>3 DEF Verify, Fail, DropTemp, CommitUnlink, RemoveBase, DecryptPlaces
  <2>1. PICK at \in EncryptPlaces \cup {"count"}, ok \in {me.ok, FALSE} :
          /\ worker' = [worker EXCEPT ![w] = [me EXCEPT !.at = at, !.ok = ok]]
          /\ at \notin {"volume", "victims"}
    <3>1. /\ worker' = [worker EXCEPT ![w] = [me EXCEPT !.at = "commit", !.ok = me.ok]]
          \/ worker' = [worker EXCEPT ![w] = [me EXCEPT !.at = "fail", !.ok = FALSE]]
          \/ worker' = [worker EXCEPT ![w] = [me EXCEPT !.at = "dtor", !.ok = me.ok]]
          \/ worker' = [worker EXCEPT ![w] = [me EXCEPT !.at = "rename", !.ok = me.ok]]
          \/ worker' = [worker EXCEPT ![w] = [me EXCEPT !.at = "count", !.ok = me.ok]]
      BY <1>0, <1>t, <1>3 DEF Verify, Fail, DropTemp, CommitUnlink, RemoveBase, Worker
    <3> QED
      BY <3>1 DEF EncryptPlaces
  <2>2. [me EXCEPT !.at = at, !.ok = ok] \in Worker
    BY <1>0, <2>1 DEF Worker, WorkerPlaces, EncryptPlaces
  <2>3. UNCHANGED batch
    BY <1>3 DEF Verify, Fail, DropTemp, CommitUnlink, RemoveBase
  <2>4. GoesOn(w)
    BY <1>0, <1>t, <2>0, <2>1, <2>2, <2>3 DEF GoesOn, Others, Worker
  <2>5. /\ faults' \in 0..MaxFaults /\ box' \in [Names -> Container \cup {None}]
        /\ tmp' \in [Names -> Container \cup {None}]
        /\ lock' \in [Names -> Workers \cup {Free, Stale}]
        /\ UNCHANGED <<sources, plain, vols, begun, given>>
    <3>1. CASE Verify(w)
      BY <1>t, <3>1 DEF Verify
    <3>2. CASE Fail(w)
      BY <1>t, <3>2 DEF Fail
    <3>3. CASE DropTemp(w)
      BY <1>t, <3>3 DEF DropTemp
    <3>4. CASE CommitUnlink(w)
      BY <1>t, <3>4 DEF CommitUnlink
    <3>5. CASE RemoveBase(w)
      <4>1. faults' \in 0..MaxFaults
        BY <1>t, <3>5, BatchConstants DEF RemoveBase
      <4>2. box' \in [Names -> Container \cup {None}]
        BY <1>t, <3>5 DEF RemoveBase
      <4> QED
        BY <1>t, <3>5, <4>1, <4>2 DEF RemoveBase
    <3> QED
      BY <1>3, <3>1, <3>2, <3>3, <3>4, <3>5
  <2> QED
    BY <1>t, <2>1, <2>2, <2>3, <2>4, <2>5 DEF TypeOK
<1>4. CASE CommitRename(w) \/ DisposeSource(w) \/ Split(w)
  <2>0. batch.encrypt
    BY <1>0, <1>4 DEF CommitRename, DisposeSource, Split, DecryptPlaces
  <2>1. PICK at \in EncryptPlaces \cup {"count"}, ok \in {me.ok, FALSE},
             read \in {me.read, box[n]}, vol \in 0..NVols :
          /\ worker' = [worker EXCEPT ![w] =
                          [me EXCEPT !.at = at, !.ok = ok, !.read = read, !.vol = vol]]
          /\ at # "victims"
          /\ at = "volume" => vol = 1 /\ read # None
    <3>0. me.vol \in 0..NVols /\ 1 \in 0..NVols
      BY <1>0, BatchConstants DEF Worker
    <3>1. CASE CommitRename(w)
      <4>1. \E at \in {"dispose", "dtor"}, ok \in {me.ok, FALSE} :
              worker' = [worker EXCEPT ![w] =
                          [me EXCEPT !.at = at, !.ok = ok, !.read = me.read, !.vol = me.vol]]
        BY <1>0, <1>t, <3>1 DEF CommitRename, Worker
      <4> QED
        BY <4>1, <3>0 DEF EncryptPlaces
    <3>2. CASE DisposeSource(w)
      <4>1. \E at \in {"split", "count"}, ok \in {me.ok, FALSE} :
              worker' = [worker EXCEPT ![w] =
                          [me EXCEPT !.at = at, !.ok = ok, !.read = me.read, !.vol = me.vol]]
        BY <1>0, <1>t, <3>2 DEF DisposeSource, Worker
      <4> QED
        BY <4>1, <3>0 DEF EncryptPlaces
    <3>3. CASE Split(w)
      <4>1. \/ /\ box[n] # None
               /\ worker' = [worker EXCEPT ![w] =
                          [me EXCEPT !.at = "volume", !.ok = me.ok, !.read = box[n], !.vol = 1]]
            \/ worker' = [worker EXCEPT ![w] =
                 [me EXCEPT !.at = "count", !.ok = FALSE, !.read = me.read, !.vol = me.vol]]
        BY <1>0, <1>t, <3>3 DEF Split, Worker
      <4>2. "volume" \in EncryptPlaces \cup {"count"} /\ "count" \in EncryptPlaces \cup {"count"}
        BY DEF EncryptPlaces
      <4>3. CASE worker' = [worker EXCEPT ![w] =
                 [me EXCEPT !.at = "count", !.ok = FALSE, !.read = me.read, !.vol = me.vol]]
        BY <4>2, <4>3, <3>0
      <4>4. CASE /\ box[n] # None
                 /\ worker' = [worker EXCEPT ![w] =
                          [me EXCEPT !.at = "volume", !.ok = me.ok, !.read = box[n], !.vol = 1]]
        BY <4>2, <4>4, <3>0
      <4> QED
        BY <4>1, <4>3, <4>4
    <3> QED
      BY <1>4, <3>1, <3>2, <3>3
  <2>2. [me EXCEPT !.at = at, !.ok = ok, !.read = read, !.vol = vol] \in Worker
    <3>1. box[n] \in Container \cup {None}
      BY <1>0, <1>t
    <3> QED
      BY <1>0, <2>1, <3>1 DEF Worker, WorkerPlaces, EncryptPlaces
  <2>3. UNCHANGED batch
    BY <1>4 DEF CommitRename, DisposeSource, Split
  <2>4. GoesOn(w)
    BY <1>0, <1>t, <2>0, <2>1, <2>2, <2>3 DEF GoesOn, Others, Worker
  <2>5. /\ faults' \in 0..MaxFaults /\ box' \in [Names -> Container \cup {None}]
        /\ tmp' \in [Names -> Container \cup {None}] /\ sources' \subseteq Files
        /\ UNCHANGED <<plain, vols, lock, begun, given>>
    <3>1. CASE CommitRename(w)
      <4>1. faults' \in 0..MaxFaults
        BY <1>t, <3>1, BatchConstants DEF CommitRename
      <4>2. /\ box' \in [Names -> Container \cup {None}]
            /\ tmp' \in [Names -> Container \cup {None}]
        BY <1>0, <1>t, <3>1 DEF CommitRename
      <4> QED
        BY <1>t, <3>1, <4>1, <4>2 DEF CommitRename
    <3>2. CASE DisposeSource(w)
      BY <1>t, <3>2, BatchConstants DEF DisposeSource
    <3>3. CASE Split(w)
      BY <1>t, <3>3, BatchConstants DEF Split
    <3> QED
      BY <1>4, <3>1, <3>2, <3>3
  <2> QED
    BY <1>t, <2>1, <2>2, <2>3, <2>4, <2>5 DEF TypeOK
<1>5. CASE Volume(w)
  <2>0. batch.encrypt /\ me.vol \in 1..NVols /\ me.read \in Container
    <3>1. me.vol # 0 /\ me.read # None
      BY <1>5 DEF Volume, Hands
    <3> QED
      BY <1>0, <1>5, <3>1 DEF Volume, DecryptPlaces, Worker
  <2>1. PICK e \in Worker :
          /\ worker' = [worker EXCEPT ![w] = e]
          /\ e.item = me.item /\ e.at \in {"removebase", "volume", "count"}
          /\ e.at = "volume" => e.vol # 0 /\ e.read # None
    <3>1. CASE worker' = [worker EXCEPT ![w].at = "count", ![w].ok = FALSE, ![w].read = None,
                                        ![w].vol = 0]
      <4> DEFINE e == [me EXCEPT !.at = "count", !.ok = FALSE, !.read = None, !.vol = 0]
      <4>1. worker' = [worker EXCEPT ![w] = e]
        BY <3>1, <1>t
      <4>2. e \in Worker /\ e.item = me.item /\ e.at = "count"
        BY <1>0, <1>z DEF Worker, WorkerPlaces
      <4> QED
        BY <4>1, <4>2
    <3>2. CASE worker' = [worker EXCEPT ![w].at = IF me.vol = NVols THEN "removebase" ELSE "volume",
                                    ![w].vol = IF me.vol = NVols THEN 0 ELSE me.vol + 1,
                                    ![w].read = IF me.vol = NVols THEN None ELSE @]
      <4>1. CASE me.vol = NVols
        <5> DEFINE e == [me EXCEPT !.at = "removebase", !.read = None, !.vol = 0]
        <5>1. worker' = [worker EXCEPT ![w] = e]
          BY <3>2, <4>1, <1>t
        <5>2. e \in Worker /\ e.item = me.item /\ e.at = "removebase"
          BY <1>0, <1>z DEF Worker, WorkerPlaces
        <5> QED
          BY <5>1, <5>2
      <4>2. CASE me.vol # NVols
        <5> DEFINE e == [me EXCEPT !.at = "volume", !.vol = me.vol + 1]
        <5>1. worker' = [worker EXCEPT ![w] = e]
          BY <3>2, <4>2, <1>t, <1>0 DEF Worker
        <5>2. me.vol + 1 \in 0..NVols /\ me.vol + 1 # 0 /\ me.read # None
          BY <2>0, <4>2, BatchConstants, Markers
        <5>3. /\ e \in Worker /\ e.item = me.item /\ e.at = "volume"
              /\ e.vol = me.vol + 1 /\ e.read = me.read
          BY <1>0, <5>2 DEF Worker, WorkerPlaces
        <5> QED
          BY <5>1, <5>2, <5>3
      <4> QED
        BY <4>1, <4>2
    <3> QED
      BY <1>5, <3>1, <3>2 DEF Volume
  <2>3. UNCHANGED batch
    BY <1>5 DEF Volume
  <2>4. GoesOn(w)
    BY <1>0, <1>t, <2>0, <2>1, <2>3 DEF GoesOn, Others, Worker, EncryptPlaces
  <2>5. faults' \in 0..MaxFaults
    BY <1>t, <1>5, BatchConstants DEF Volume
  <2>6. vols' \in [Names -> [1..NVols -> Container \cup {None}]]
    <3>1. me.read \in Container /\ [me.read EXCEPT !.whole = FALSE] \in Container
      BY <2>0 DEF Container
    <3>2. PICK c \in Container : vols' = [vols EXCEPT ![n][me.vol] = c]
      BY <1>5, <3>1 DEF Volume
    <3>3. [vols[n] EXCEPT ![me.vol] = c] \in [1..NVols -> Container \cup {None}]
      BY <1>0, <1>t, <2>0
    <3> QED
      BY <1>t, <3>2, <3>3
  <2>7. UNCHANGED <<sources, plain, box, tmp, lock, begun, given>>
    BY <1>5 DEF Volume
  <2> QED
    BY <1>t, <2>1, <2>3, <2>4, <2>5, <2>6, <2>7 DEF TypeOK
<1>6. CASE Resolve(w)
  <2>0. ~batch.encrypt
    BY <1>0, <1>6 DEF Resolve, EncryptPlaces
  <2>1. PICK e \in Worker :
          /\ worker' = [worker EXCEPT ![w] = e]
          /\ e.item = me.item /\ e.at \in {"decrypt", "count"}
    <3>1. CASE worker' = [worker EXCEPT ![w].at = "count", ![w].ok = FALSE]
      <4> DEFINE e == [me EXCEPT !.at = "count", !.ok = FALSE]
      <4>1. worker' = [worker EXCEPT ![w] = e] /\ e \in Worker /\ e.item = me.item
            /\ e.at = "count"
        BY <1>0, <1>t, <3>1 DEF Worker, WorkerPlaces
      <4> QED
        BY <4>1
    <3>2. CASE worker' = [worker EXCEPT ![w].at = "decrypt",
                         ![w].vol = IF box[n] # None THEN 0 ELSE Cardinality(Found(n))]
      <4> DEFINE v == IF box[n] # None THEN 0 ELSE Cardinality(Found(n))
      <4>0. v \in 0..NVols
        BY <1>0, FoundType, BatchConstants
      <4> HIDE DEF v
      <4> DEFINE e == [me EXCEPT !.at = "decrypt", !.vol = v]
      <4>1. worker' = [worker EXCEPT ![w] = e]
        BY <1>t, <3>2 DEF v
      <4>2. e \in Worker /\ e.item = me.item /\ e.at = "decrypt"
        BY <1>0, <4>0 DEF Worker, WorkerPlaces
      <4> QED
        BY <4>1, <4>2
    <3> QED
      BY <1>6, <3>1, <3>2 DEF Resolve
  <2>2. UNCHANGED batch
    BY <1>6 DEF Resolve
  <2>3. GoesOn(w)
    BY <1>0, <1>t, <2>0, <2>1, <2>2 DEF GoesOn, Others, Worker, DecryptPlaces
  <2> QED
    BY <1>t, <1>6, <2>1, <2>3 DEF Resolve, TypeOK
<1>7. CASE Decrypt(w)
  <2>0. ~batch.encrypt
    BY <1>0, <1>7 DEF Decrypt, EncryptPlaces
  <2> DEFINE victims == IF me.vol # 0 THEN [k \in 1..me.vol |-> k]
                        ELSE IF Found(n) = {} THEN <<0>>
                        ELSE [k \in 1..Cardinality(Found(n)) |-> k]
  <2>1. victims \in Seq(0..NVols) /\ victims # <<>>
    <3>1. \A m \in 1..NVols : [k \in 1..m |-> k] \in Seq(0..NVols) /\ [k \in 1..m |-> k] # <<>>
      <4> TAKE m \in 1..NVols
      <4>1. m \in Nat /\ [k \in 1..m |-> k] \in [1..m -> 0..NVols] /\ m # 0
        BY BatchConstants
      <4>2. [k \in 1..m |-> k] \in Seq(0..NVols) /\ Len([k \in 1..m |-> k]) = m
        BY <4>1
      <4> QED
        BY <4>1, <4>2
    <3>2. me.vol # 0 => me.vol \in 1..NVols
      BY <1>0, BatchConstants DEF Worker
    <3>3. Found(n) # {} => Cardinality(Found(n)) \in 1..NVols
      BY <1>0, FoundType, BatchConstants
    <3>4. <<0>> \in Seq(0..NVols) /\ <<0>> # <<>>
      BY BatchConstants
    <3> QED
      BY <3>1, <3>2, <3>3, <3>4
  <2> HIDE DEF victims
  <2>2. PICK e \in Worker :
          /\ worker' = [worker EXCEPT ![w] = e]
          /\ e.item = me.item /\ e.at \in {"victims", "count"}
          /\ e.at = "victims" => e.victims # <<>>
    <3>1. CASE worker' = [worker EXCEPT ![w].at = "count", ![w].ok = FALSE, ![w].vol = 0]
      <4> DEFINE e == [me EXCEPT !.at = "count", !.ok = FALSE, !.vol = 0]
      <4>1. worker' = [worker EXCEPT ![w] = e] /\ e \in Worker /\ e.item = me.item
            /\ e.at = "count"
        BY <1>0, <1>t, <1>z, <3>1 DEF Worker, WorkerPlaces
      <4> QED
        BY <4>1
    <3>2. CASE worker' = [worker EXCEPT ![w].at = IF batch.dispose THEN "victims" ELSE "count",
                                        ![w].vol = 0, ![w].victims = victims]
      <4> DEFINE at == IF batch.dispose THEN "victims" ELSE "count"
      <4> DEFINE e == [me EXCEPT !.at = at, !.vol = 0, !.victims = victims]
      <4>1. worker' = [worker EXCEPT ![w] = e]
        BY <1>t, <3>2
      <4>2. at \in {"victims", "count"}
        OBVIOUS
      <4> HIDE DEF at
      <4>3. e \in Worker /\ e.item = me.item /\ e.at = at /\ e.victims = victims
        BY <1>0, <1>z, <2>1, <4>2 DEF Worker, WorkerPlaces
      <4> QED
        BY <2>1, <4>1, <4>2, <4>3
    <3> QED
      BY <1>7, <3>1, <3>2 DEF Decrypt, victims
  <2>3. UNCHANGED batch
    BY <1>7 DEF Decrypt
  <2>4. GoesOn(w)
    BY <1>0, <1>t, <2>0, <2>2, <2>3 DEF GoesOn, Others, Worker, DecryptPlaces
  <2>5. faults' \in 0..MaxFaults
    BY <1>t, <1>7, BatchConstants DEF Decrypt
  <2>6. plain' \in [Names -> Files \cup {None}]
    <3> DEFINE from == IF me.vol = 0 THEN box[n] ELSE vols[n][1]
    <3> DEFINE opens == IF me.vol = 0 THEN Whole(box[n]) ELSE Complete(n)
    <3>1. opens => from \in Container
      <4>1. vols[n][1] \in Container \cup {None}
        BY <1>0, <1>t, <1>z
      <4>2. Complete(n) => vols[n][1] \in Container
        BY <1>0, <1>z, <4>1, CompleteFacts
      <4> QED
        BY <1>0, <1>t, <4>2 DEF Whole
    <3>2. opens => from.of \in Files
      BY <3>1 DEF Container
    <3>3. \E x \in Files \cup {None} : plain' = plain \/ plain' = [plain EXCEPT ![n] = x]
      <4>1. CASE opens
        <5>1. plain' \in {plain, [plain EXCEPT ![n] = from.of], [plain EXCEPT ![n] = None]}
          BY <1>7, <4>1 DEF Decrypt
        <5> QED
          BY <3>2, <4>1, <5>1
      <4>2. CASE ~opens
        <5>1. plain' \in {plain, [plain EXCEPT ![n] = plain[n]]}
          BY <1>7, <4>2 DEF Decrypt
        <5> QED
          BY <1>0, <1>t, <5>1
      <4> QED
        BY <4>1, <4>2
    <3> QED
      BY <1>0, <1>t, <3>3
  <2>7. UNCHANGED <<sources, box, tmp, vols, lock, begun, given>>
    BY <1>7 DEF Decrypt
  <2> QED
    BY <1>t, <2>2, <2>3, <2>4, <2>5, <2>6, <2>7 DEF TypeOK
<1>8. CASE Victim(w)
  <2>0. ~batch.encrypt /\ me.victims \in Seq(0..NVols) /\ me.victims # <<>>
    BY <1>0, <1>8 DEF Victim, EncryptPlaces, Hands, Worker
  <2> DEFINE v == Head(me.victims)
  <2> DEFINE rest == Tail(me.victims)
  <2>1. v \in 0..NVols /\ rest \in Seq(0..NVols)
    BY <2>0, HeadTailProperties
  <2> HIDE DEF v, rest
  <2>2. PICK e \in Worker :
          /\ worker' = [worker EXCEPT ![w] = e]
          /\ e.item = me.item /\ e.at \in {"victims", "count"}
          /\ e.at = "victims" => e.victims # <<>>
    <3> DEFINE at == IF rest = <<>> THEN "count" ELSE "victims"
    <3> DEFINE ok == me.ok /\ faults' = faults
    <3> DEFINE e == [me EXCEPT !.at = at, !.victims = rest, !.ok = ok]
    <3>1. worker' = [worker EXCEPT ![w] = e]
      BY <1>t, <1>8 DEF Victim, rest
    <3>2. at \in {"victims", "count"} /\ (at = "victims" => rest # <<>>)
      OBVIOUS
    <3>3. ok \in BOOLEAN
      OBVIOUS
    <3> HIDE DEF at, ok
    <3>4. e \in Worker /\ e.item = me.item /\ e.at = at /\ e.victims = rest
      BY <1>0, <2>1, <3>2, <3>3 DEF Worker, WorkerPlaces
    <3> QED
      BY <3>1, <3>2, <3>4
  <2>3. UNCHANGED batch
    BY <1>8 DEF Victim
  <2>4. GoesOn(w)
    BY <1>0, <1>t, <2>0, <2>2, <2>3 DEF GoesOn, Others, Worker, DecryptPlaces
  <2>5. faults' \in 0..MaxFaults
    <3>1. faults' = faults \/ (faults < MaxFaults /\ faults' = faults + 1)
      BY <1>8 DEF Victim
    <3> QED
      BY <1>t, <3>1, BatchConstants
  <2>6. /\ box' = box \/ box' = [box EXCEPT ![n] = None]
        /\ vols' = vols \/ (v \in 1..NVols /\ vols' = [vols EXCEPT ![n][v] = None])
    <3>1. v # 0 => v \in 1..NVols
      BY <2>1, BatchConstants
    <3>2. \/ /\ box' = IF v = 0 THEN [box EXCEPT ![n] = None] ELSE box
             /\ vols' = IF v = 0 THEN vols ELSE [vols EXCEPT ![n][v] = None]
          \/ UNCHANGED <<box, vols>>
      BY <1>8 DEF Victim, v
    <3> QED
      BY <3>1, <3>2
  <2>7. box' \in [Names -> Container \cup {None}]
    BY <1>t, <2>6
  <2>8. vols' \in [Names -> [1..NVols -> Container \cup {None}]]
    <3>1. [vols[n] EXCEPT ![v] = None] \in [1..NVols -> Container \cup {None}]
      BY <1>0, <1>t
    <3> QED
      BY <1>0, <1>t, <2>6, <3>1
  <2>9. UNCHANGED <<sources, plain, tmp, lock, begun, given>>
    BY <1>8 DEF Victim
  <2> QED
    BY <1>t, <2>2, <2>3, <2>4, <2>5, <2>7, <2>8, <2>9 DEF TypeOK
<1> QED
  BY <1>1, <1>2, <1>3, <1>4, <1>5, <1>6, <1>7, <1>8 DEF Run

\* Taking the next file of the list.
LEMMA TakeStep ==
  ASSUME NEW w \in Workers, TypeOK, Hands, Take(w)
  PROVE  /\ TypeOK' /\ Hands' /\ batch.running /\ ~Busy(w)
         /\ \A v \in Workers \ {w} : worker'[v] = worker[v]
         /\ batch' = [batch EXCEPT !.next = @ + 1]
         /\ Busy(w)' <=> batch.next <= Len(batch.list)
<1> DEFINE me == worker[w]
<1>t. /\ batch \in BatchState /\ worker \in [Workers -> Worker] /\ me \in Worker
      /\ batch.list \in Seq(Inputs) /\ Len(batch.list) \in Nat /\ batch.next \in Nat \ {0}
      /\ DOMAIN batch.list = 1..Len(batch.list)
  BY DEF TypeOK, BatchState, Take, Hands
<1>1. /\ batch.running /\ ~Busy(w) /\ batch' = [batch EXCEPT !.next = @ + 1]
      /\ UNCHANGED <<disk, begun, given, faults>>
  BY DEF Take, Busy, At
<1>2. /\ batch' \in BatchState /\ batch'.next = batch.next + 1 /\ batch'.list = batch.list
      /\ batch'.running = batch.running /\ batch'.encrypt = batch.encrypt
  <2>1. batch.next + 1 \in Nat \ {0}
    BY <1>t
  <2> QED
    BY <2>1, <1>t, <1>1 DEF BatchState
<1>3. PICK e \in Worker :
        /\ worker' = [worker EXCEPT ![w] = e]
        /\ \/ e.at = "ended" /\ batch.next > Len(batch.list)
           \/ /\ batch.next <= Len(batch.list) /\ e.item = batch.list[batch.next]
              /\ e.at = IF batch.encrypt THEN "lock" ELSE "resolve"
  <2>1. CASE batch.next > Len(batch.list)
    <3> DEFINE e == [me EXCEPT !.at = "ended"]
    <3>1. worker' = [worker EXCEPT ![w] = e] /\ e \in Worker /\ e.at = "ended"
      BY <1>t, <2>1 DEF Take, Goto, Worker, WorkerPlaces
    <3> QED
      BY <2>1, <3>1
  <2>2. CASE ~(batch.next > Len(batch.list))
    <3> DEFINE at == IF batch.encrypt THEN "lock" ELSE "resolve"
    <3> DEFINE e == [IdleWorker EXCEPT !.at = at, !.item = batch.list[batch.next]]
    <3>1. worker' = [worker EXCEPT ![w] = e]
      BY <2>2 DEF Take
    <3>2. batch.list[batch.next] \in Inputs /\ batch.next <= Len(batch.list)
      BY <1>t, <2>2
    <3>3. at \in WorkerPlaces
      BY DEF WorkerPlaces
    <3>4. batch.list[batch.next] \in Files \cup Names
      BY <3>2 DEF Inputs
    <3>5. e \in Worker /\ e.at = at /\ e.item = batch.list[batch.next]
      BY <3>3, <3>4, IdleWorkerType DEF Worker, IdleWorker
    <3> QED
      BY <3>1, <3>2, <3>5
  <2> QED
    BY <2>1, <2>2
<1>4. TypeOK'
  BY <1>1, <1>2, <1>3 DEF TypeOK, disk
<1>5. \A v \in Workers : worker'[v] = IF v = w THEN e ELSE worker[v]
  BY <1>t, <1>3
<1>6. Busy(w)' <=> batch.next <= Len(batch.list)
  BY <1>t, <1>3, <1>5 DEF Busy
<1>7. Busy(w)' => e.item = batch.list[batch.next] /\ batch.next \in DOMAIN batch.list
  BY <1>t, <1>3, <1>6
<1>8. \A v \in Workers \ {w} : Busy(v)' <=> Busy(v)
  BY <1>5 DEF Busy
<1>9. (batch.running => batch.list \in Seq(Inputs) /\ IsInjective(batch.list))'
  BY <1>2, <1>1 DEF Hands, Inputs, IsInjective
<1>10. ASSUME NEW v \in Workers
       PROVE  /\ ~batch'.running => worker'[v] = IdleWorker
              /\ Busy(v)' =>
                   /\ worker'[v].at \in {"count"} \cup
                        (IF batch'.encrypt THEN EncryptPlaces ELSE DecryptPlaces)
                   /\ \E k \in DOMAIN batch'.list :
                        k < batch'.next /\ worker'[v].item = batch'.list[k]
              /\ At(v, "ended")' => batch'.next > Len(batch'.list) + 1
              /\ At(v, "volume")' => worker'[v].vol # 0 /\ worker'[v].read # None
              /\ At(v, "victims")' => worker'[v].victims # <<>>
  <2>1. CASE v = w
    <3>1. worker'[v] = e
      BY <1>5, <2>1
    <3>2. e.at \in {"ended", "lock", "resolve"}
      BY <1>3
    <3>3. Busy(w)' => e.at \in {"count"} \cup
                        (IF batch'.encrypt THEN EncryptPlaces ELSE DecryptPlaces)
      BY <1>2, <1>3, <1>6, <1>t DEF EncryptPlaces, DecryptPlaces
    <3>4. Busy(w)' => \E k \in DOMAIN batch'.list : k < batch'.next /\ e.item = batch'.list[k]
      BY <1>2, <1>7, <1>t
    <3>5. e.at = "ended" => batch'.next > Len(batch'.list) + 1
      BY <1>2, <1>3, <1>t
    <3> QED
      BY <1>1, <1>2, <2>1, <3>1, <3>2, <3>3, <3>4, <3>5 DEF At
  <2>2. CASE v # w
    <3>1. worker'[v] = worker[v] /\ (Busy(v)' <=> Busy(v))
      BY <1>5, <1>8, <2>2
    <3>2. /\ Busy(v) => /\ worker[v].at \in {"count"} \cup
                             (IF batch.encrypt THEN EncryptPlaces ELSE DecryptPlaces)
                        /\ \E k \in DOMAIN batch.list :
                             k < batch.next /\ worker[v].item = batch.list[k]
          /\ At(v, "ended") => batch.next > Len(batch.list) + 1
          /\ At(v, "volume") => worker[v].vol # 0 /\ worker[v].read # None
          /\ At(v, "victims") => worker[v].victims # <<>>
      BY DEF Hands
    <3>3. \A k \in DOMAIN batch.list : k < batch.next => k < batch.next + 1
      BY <1>t
    <3>4. batch.next > Len(batch.list) + 1 => batch.next + 1 > Len(batch.list) + 1
      BY <1>t
    <3> QED
      BY <1>1, <1>2, <3>1, <3>2, <3>3, <3>4 DEF At
  <2> QED
    BY <2>1, <2>2
<1>11. \A u, v \in Workers :
         Busy(u)' /\ Busy(v)' /\ worker'[u].item = worker'[v].item => u = v
  <2>1. ASSUME NEW v \in Workers \ {w}, Busy(v), Busy(w)'
        PROVE  worker[v].item # e.item
    <3>1. PICK k \in DOMAIN batch.list : k < batch.next /\ worker[v].item = batch.list[k]
      BY <2>1 DEF Hands
    <3>2. k # batch.next
      BY <1>t, <3>1
    <3> QED
      BY <1>1, <1>7, <2>1, <3>1, <3>2 DEF Hands, IsInjective
  <2>2. \A u, v \in Workers \ {w} :
          Busy(u) /\ Busy(v) /\ worker[u].item = worker[v].item => u = v
    BY DEF Hands
  <2> QED
    BY <1>5, <1>8, <2>1, <2>2
<1>12. Hands'
  BY <1>9, <1>10, <1>11 DEF Hands
<1> QED
  BY <1>1, <1>4, <1>5, <1>6, <1>12

\* Counting a file.
LEMMA CountStep ==
  ASSUME NEW w \in Workers, TypeOK, Hands, Count(w)
  PROVE  /\ TypeOK' /\ Hands' /\ batch.running /\ Busy(w) /\ ~Busy(w)'
         /\ \A v \in Workers \ {w} : worker'[v] = worker[v]
         /\ batch' = IF worker[w].ok THEN [batch EXCEPT !.done = @ + 1]
                     ELSE [batch EXCEPT !.failed = @ + 1, !.ok = FALSE]
<1>1. /\ Busy(w) /\ worker' = [worker EXCEPT ![w] = IdleWorker]
      /\ batch' = IF worker[w].ok THEN [batch EXCEPT !.done = @ + 1]
                  ELSE [batch EXCEPT !.failed = @ + 1, !.ok = FALSE]
      /\ UNCHANGED <<disk, begun, given, faults>>
  BY DEF Count, Busy, At
<1>t. batch \in BatchState /\ worker \in [Workers -> Worker] /\ batch.running
  BY <1>1, AtWork DEF TypeOK
<1>2. /\ batch' \in BatchState /\ batch'.next = batch.next /\ batch'.list = batch.list
      /\ batch'.running = batch.running /\ batch'.encrypt = batch.encrypt
  <2>1. batch.done + 1 \in Nat /\ batch.failed + 1 \in Nat
    BY <1>t DEF BatchState
  <2>2. CASE worker[w].ok
    BY <2>1, <2>2, <1>t, <1>1 DEF BatchState
  <2>3. CASE ~worker[w].ok
    BY <2>1, <2>3, <1>t, <1>1 DEF BatchState
  <2> QED
    BY <2>2, <2>3
<1>3. \A v \in Workers : worker'[v] = IF v = w THEN IdleWorker ELSE worker[v]
  BY <1>t, <1>1
<1>4. TypeOK'
  BY <1>t, <1>1, <1>2, IdleWorkerType DEF TypeOK, disk
<1>5. \A v \in Workers : Busy(v)' <=> Busy(v) /\ v # w
  BY <1>3 DEF Busy, IdleWorker
<1>6. (batch.running => batch.list \in Seq(Inputs) /\ IsInjective(batch.list))'
  BY <1>2, <1>t DEF Hands, Inputs, IsInjective
<1>7. Hands'
  BY <1>t, <1>2, <1>3, <1>5, <1>6 DEF Hands, At, IdleWorker
<1> QED
  BY <1>t, <1>1, <1>3, <1>4, <1>5, <1>7

\* The batch begins, ends, and is killed.
LEMMA BatchStep ==
  ASSUME TypeOK, Hands, Begin \/ End \/ Kill
  PROVE  TypeOK' /\ Hands' /\ worker' = [w \in Workers |-> IdleWorker]
<1>t. /\ worker \in [Workers -> Worker] /\ lock \in [Names -> Workers \cup {Free, Stale}]
      /\ given \in 0..MaxBatches /\ faults \in 0..MaxFaults /\ sources \subseteq Files
      /\ begun \subseteq Files
  BY DEF TypeOK
<1>w. [w \in Workers |-> IdleWorker] \in [Workers -> Worker]
  BY IdleWorkerType
<1>i. \A w \in Workers : worker' = [v \in Workers |-> IdleWorker] =>
        ~Busy(w)' /\ worker'[w] = IdleWorker /\ worker'[w].at = "idle"
  BY DEF Busy, IdleWorker
<1>1. CASE Begin
  <2>0. ~batch.running /\ given' \in 0..MaxBatches /\ UNCHANGED <<disk, worker, begun, faults>>
    <3>1. given < MaxBatches /\ given' = given + 1
      BY <1>1 DEF Begin
    <3>2. ~batch.running /\ UNCHANGED <<disk, worker, begun, faults>>
      BY <1>1 DEF Begin
    <3> QED
      BY <1>t, <3>1, <3>2, BatchConstants
  <2>1. worker = [w \in Workers |-> IdleWorker]
    BY <1>t, <2>0 DEF Hands
  <2>2. PICK enc, dispose, split \in BOOLEAN, inputs \in SUBSET (Files \cup Names) :
          /\ inputs \subseteq IF enc THEN Files ELSE Names
          /\ batch' = [NoBatch EXCEPT !.running = TRUE, !.encrypt = enc,
                           !.dispose = dispose, !.split = split, !.list = SetToSeq(inputs)]
    <3>1. PICK enc, force, dispose, split \in BOOLEAN :
            \E fs \in SUBSET (IF enc THEN sources ELSE {n \in Names : box[n] # None \/ Found(n) # {}}) :
              batch' = [NoBatch EXCEPT !.running = TRUE, !.encrypt = enc, !.dispose = dispose,
                          !.split = split,
                          !.list = SetToSeq(IF enc THEN fs \ Skipped(fs, force) ELSE fs)]
      BY <1>1 DEF Begin
    <3>2. PICK fs \in SUBSET (IF enc THEN sources ELSE {n \in Names : box[n] # None \/ Found(n) # {}}) :
              batch' = [NoBatch EXCEPT !.running = TRUE, !.encrypt = enc, !.dispose = dispose,
                          !.split = split,
                          !.list = SetToSeq(IF enc THEN fs \ Skipped(fs, force) ELSE fs)]
      BY <3>1
    <3> DEFINE inputs == IF enc THEN fs \ Skipped(fs, force) ELSE fs
    <3>3. inputs \subseteq (IF enc THEN Files ELSE Names) /\ inputs \in SUBSET (Files \cup Names)
      BY <3>2, <1>t
    <3> HIDE DEF inputs
    <3>4. batch' = [NoBatch EXCEPT !.running = TRUE, !.encrypt = enc,
                           !.dispose = dispose, !.split = split, !.list = SetToSeq(inputs)]
      BY <3>2 DEF inputs
    <3> QED
      BY <3>3, <3>4
  <2>3. IsFiniteSet(inputs)
    BY BatchConstants, FS_Subset, <2>2
  <2> DEFINE list == SetToSeq(inputs)
  <2>4. list \in Seq(inputs) /\ IsInjective(list)
    BY <2>3, ListOfSet
  <2> HIDE DEF list
  <2>5. list \in Seq(Files \cup Names) /\ list \in Seq(IF enc THEN Files ELSE Names)
    BY <2>2, <2>4
  <2>6. /\ batch' \in BatchState /\ batch'.running /\ batch'.encrypt = enc
        /\ batch'.list = list
    BY <2>2, <2>5, NoBatchType DEF list, BatchState, NoBatch
  <2>7. TypeOK'
    BY <2>0, <2>6 DEF TypeOK, disk
  <2>8. (batch.running => batch.list \in Seq(Inputs) /\ IsInjective(batch.list))'
    BY <2>4, <2>5, <2>6 DEF Inputs, IsInjective
  <2>9. Hands'
    BY <1>i, <2>0, <2>1, <2>6, <2>8 DEF Hands, At
  <2> QED
    BY <2>0, <2>1, <2>7, <2>9
<1>2. CASE End \/ Kill
  <2>1. batch' = NoBatch /\ worker' = [w \in Workers |-> IdleWorker]
    BY <1>2 DEF End, Kill
  <2>2. lock' \in [Names -> Workers \cup {Free, Stale}] /\ faults' \in 0..MaxFaults
    <3>1. CASE End
      BY <1>t, <3>1 DEF End, disk
    <3>2. CASE Kill
      <4>1. lock' \in [Names -> Workers \cup {Free, Stale}]
        BY <1>t, <3>2 DEF Kill
      <4>2. faults' \in 0..MaxFaults
        BY <1>t, <3>2, BatchConstants DEF Kill, Fault
      <4> QED
        BY <4>1, <4>2
    <3> QED
      BY <1>2, <3>1, <3>2
  <2>3. UNCHANGED <<sources, plain, box, tmp, vols, begun, given>>
    BY <1>2 DEF End, Kill, disk
  <2>4. TypeOK'
    BY <1>w, <2>1, <2>2, <2>3, NoBatchType DEF TypeOK
  <2>5. ~batch'.running
    BY <2>1 DEF NoBatch
  <2>6. Hands'
    BY <1>i, <2>1, <2>5 DEF Hands, At
  <2> QED
    BY <2>1, <2>4, <2>6
<1> QED
  BY <1>1, <1>2

LEMMA Step ==
  ASSUME TypeOK, Hands, [Next]_vars
  PROVE  TypeOK' /\ Hands'
<1>1. CASE Begin \/ End \/ Kill
  BY <1>1, BatchStep
<1>2. CASE \E w \in Workers : Run(w)
  BY <1>2, FileStep, HandsKept, TakeStep, CountStep
<1>3. CASE UNCHANGED vars
  BY <1>3 DEF vars, disk, TypeOK, Hands, Found, Inputs, Busy, At, IsInjective
<1> QED
  BY <1>1, <1>2, <1>3 DEF Next

\* The variables keep their types, the files of a list are different ones, and two workers
\* never have the same file, whatever the batches are and wherever they are killed.
THEOREM BatchTypes == Spec => []TypeOK /\ []Hands
<1>1. Init => TypeOK
  BY BatchConstants, NoBatchType, IdleWorkerType DEF Init, TypeOK
<1>2. Init => Hands
  BY DEF Init, Hands, NoBatch, IdleWorker, Busy, At
<1>3. TypeOK /\ Hands /\ [Next]_vars => (TypeOK /\ Hands)'
  BY Step
<1> QED
  BY <1>1, <1>2, <1>3, PTL DEF Spec

-----------------------------------------------------------------------------
(***************************************************************************)
(* The counters.                                                           *)
(***************************************************************************)
AllBusy == {w \in Workers : Busy(w)}

LEMMA AllBusyFacts ==
  /\ IsFiniteSet(AllBusy) /\ Cardinality(AllBusy) \in Nat
  /\ IsFiniteSet(AllBusy') /\ Cardinality(AllBusy') \in Nat
<1>1. IsFiniteSet(AllBusy) /\ IsFiniteSet(AllBusy')
  BY BatchConstants, FS_Subset DEF AllBusy
<1> QED
  BY <1>1, FS_CardinalityType

LEMMA CountedKept ==
  ASSUME TypeOK, Hands, Counted, [Next]_vars
  PROVE  Counted'
<1> USE DEF AllBusy
<1> DEFINE taken(b) == IF b.next > Len(b.list) THEN Len(b.list) ELSE b.next - 1
<1>c. Counted <=> (batch.running => /\ batch.done + batch.failed + Cardinality(AllBusy) = taken(batch)
                                    /\ batch.ok <=> batch.failed = 0)
  BY DEF Counted
<1>d. Counted' <=> (batch'.running =>
         /\ batch'.done + batch'.failed + Cardinality(AllBusy') = taken(batch')
         /\ batch'.ok <=> batch'.failed = 0)
  BY DEF Counted
<1> HIDE DEF AllBusy
<1>t. /\ batch \in BatchState /\ batch.done \in Nat /\ batch.failed \in Nat
      /\ batch.next \in Nat \ {0} /\ batch.list \in Seq(Files \cup Names)
      /\ Len(batch.list) \in Nat /\ batch.ok \in BOOLEAN
  BY DEF TypeOK, BatchState
<1>1. CASE Begin
  <2>1. worker' = [w \in Workers |-> IdleWorker]
    BY <1>1, BatchStep
  <2>2. AllBusy' = {}
    BY <2>1 DEF AllBusy, Busy, IdleWorker
  <2>3. Cardinality(AllBusy') = 0
    BY <2>2, FS_EmptySet
  <2>4. batch'.done = 0 /\ batch'.failed = 0 /\ batch'.next = 1 /\ batch'.ok
    BY <1>1 DEF Begin, NoBatch
  <2>5. Len(batch'.list) \in Nat
    BY <1>1, BatchStep DEF TypeOK, BatchState
  <2> QED
    BY <1>d, <2>3, <2>4, <2>5
<1>2. CASE End \/ Kill
  BY <1>2, <1>d DEF End, Kill, NoBatch
<1>3. ASSUME NEW w \in Workers, Run(w), ~Take(w), ~Count(w)
      PROVE  Counted'
  <2>1. batch' = batch /\ GoesOn(w) /\ Busy(w)
    BY <1>3, FileStep DEF GoesOn
  <2>2. Hands' /\ batch.running
    BY <2>1, HandsKept DEF Hands, Busy, IdleWorker
  <2>3. Busy(w)'
    BY <2>1 DEF GoesOn, Busy, EncryptPlaces, DecryptPlaces
  <2>4. AllBusy' = AllBusy
    BY <2>1, <2>3 DEF AllBusy, GoesOn, Others, Busy
  <2> QED
    BY <1>c, <1>d, <2>1, <2>4
<1>4. ASSUME NEW w \in Workers, Take(w)
      PROVE  Counted'
  <2>1. /\ batch.running /\ ~Busy(w) /\ batch' = [batch EXCEPT !.next = @ + 1]
        /\ \A v \in Workers \ {w} : worker'[v] = worker[v]
        /\ Busy(w)' <=> batch.next <= Len(batch.list)
    BY <1>4, TakeStep
  <2>2. /\ batch'.next = batch.next + 1 /\ batch'.list = batch.list
        /\ batch'.done = batch.done /\ batch'.failed = batch.failed
        /\ batch'.ok <=> batch.failed = 0
    BY <1>c, <1>t, <2>1 DEF BatchState
  <2>a. batch.done + batch.failed + Cardinality(AllBusy) = taken(batch)
    BY <1>c, <2>1
  <2>3. CASE batch.next <= Len(batch.list)
    <3>1. AllBusy' = AllBusy \cup {w} /\ w \notin AllBusy
      BY <2>1, <2>3 DEF AllBusy, Busy
    <3>2. Cardinality(AllBusy') = Cardinality(AllBusy) + 1
      BY <3>1, AllBusyFacts, FS_AddElement
    <3>3. batch'.done + batch'.failed + Cardinality(AllBusy') = taken(batch')
      BY <1>t, <2>a, <2>2, <2>3, <3>2, AllBusyFacts
    <3> QED
      BY <1>d, <2>2, <3>3
  <2>4. CASE ~(batch.next <= Len(batch.list))
    <3>1. AllBusy' = AllBusy
      BY <2>1, <2>4 DEF AllBusy, Busy
    <3>2. batch'.done + batch'.failed + Cardinality(AllBusy') = taken(batch')
      BY <1>t, <2>a, <2>2, <2>4, <3>1, AllBusyFacts
    <3> QED
      BY <1>d, <2>2, <3>2
  <2> QED
    BY <2>3, <2>4
<1>5. ASSUME NEW w \in Workers, Count(w)
      PROVE  Counted'
  <2>1. /\ batch.running /\ Busy(w) /\ ~Busy(w)'
        /\ \A v \in Workers \ {w} : worker'[v] = worker[v]
        /\ batch' = IF worker[w].ok THEN [batch EXCEPT !.done = @ + 1]
                    ELSE [batch EXCEPT !.failed = @ + 1, !.ok = FALSE]
    BY <1>5, CountStep
  <2>2. /\ batch'.next = batch.next /\ batch'.list = batch.list
        /\ \/ /\ batch'.done = batch.done + 1 /\ batch'.failed = batch.failed
              /\ batch'.ok = batch.ok
           \/ /\ batch'.done = batch.done /\ batch'.failed = batch.failed + 1
              /\ batch'.ok = FALSE
    BY <1>t, <2>1 DEF BatchState
  <2>3. AllBusy' = AllBusy \ {w} /\ w \in AllBusy
    BY <2>1 DEF AllBusy, Busy
  <2>4. Cardinality(AllBusy') = Cardinality(AllBusy) - 1
    BY <2>3, AllBusyFacts, FS_RemoveElement
  <2> QED
    <3>1. batch.done + batch.failed + Cardinality(AllBusy) = taken(batch)
      BY <1>c, <2>1
    <3>2. batch'.done + batch'.failed = batch.done + batch.failed + 1
      BY <1>t, <2>2
    <3>3. batch'.done + batch'.failed + Cardinality(AllBusy') = taken(batch')
      BY <1>t, <2>2, <2>4, <3>1, <3>2, AllBusyFacts
    <3>4. batch'.ok <=> batch'.failed = 0
      BY <1>c, <1>t, <2>1, <2>2
    <3> QED
      BY <1>d, <3>3, <3>4
<1>6. CASE UNCHANGED vars
  BY <1>6 DEF Counted, vars, disk, Busy
<1> QED
  BY <1>1, <1>2, <1>3, <1>4, <1>5, <1>6 DEF Next

\* When the workers have ended every file was counted once, and the batch succeeded only if
\* none failed: for any number of files and workers.
THEOREM EveryFileIsCounted == Spec => []CountsAddUp
<1>1. Init => TypeOK /\ Hands /\ Counted
  <2>1. Init => TypeOK
    BY BatchConstants, NoBatchType, IdleWorkerType DEF Init, TypeOK
  <2>2. Init => Hands /\ Counted
    BY DEF Init, Hands, Counted, NoBatch, IdleWorker, Busy, At
  <2> QED
    BY <2>1, <2>2
<1>2. TypeOK /\ Hands /\ Counted /\ [Next]_vars => (TypeOK /\ Hands /\ Counted)'
  BY Step, CountedKept
<1>3. TypeOK /\ Hands /\ Counted => CountsAddUp
  <2> SUFFICES ASSUME TypeOK, Hands, Counted, batch.running, \A w \in Workers : At(w, "ended")
               PROVE  /\ batch.done + batch.failed = Len(batch.list)
                      /\ batch.ok <=> batch.failed = 0
    BY DEF CountsAddUp
  <2>1. AllBusy = {}
    BY DEF AllBusy, Busy, At
  <2>2. Cardinality(AllBusy) = 0
    BY <2>1, FS_EmptySet
  <2>3. batch.next > Len(batch.list) + 1
    BY BatchConstants DEF Hands
  <2> QED
    BY <2>2, <2>3 DEF Counted, AllBusy, TypeOK, BatchState
<1> QED
  BY <1>1, <1>2, <1>3, PTL DEF Spec

-----------------------------------------------------------------------------
(***************************************************************************)
(* What the workers do to each other under one output name.                *)
(***************************************************************************)
\* A step of an encryption other than sealing its container: it touches what is under its
\* own name only, and its own source.
OwnName(w) ==
  LET me == worker[w]
      n  == Target(w) IN
  /\ batch.encrypt /\ UNCHANGED <<batch, plain>>
  /\ \A v \in Workers \ {w} : worker'[v] = worker[v]
  /\ worker'[w].item = me.item
  /\ worker'[w].at \in Made \ {"encrypt"} => me.at \in Made \ {"encrypt"}
  /\ worker'[w].at = "encrypt" =>
       /\ me.at = "lock" /\ worker'[w].key \notin UsedKeys
  /\ \A m \in Names \ {n} : /\ box'[m] = box[m] /\ tmp'[m] = tmp[m]
                            /\ vols'[m] = vols[m] /\ lock'[m] = lock[m]
  /\ sources' = sources \/ (me.at = "dispose" /\ sources' = sources \ {me.item})
  /\ begun' = begun \/ begun' = begun \cup {me.item}
  /\ \A v \in Workers \ {w} : lock[n] = v => lock'[n] = v
  /\ \/ tmp'[n] \in {None, tmp[n]}
     \/ /\ lock[n] \notin Workers /\ worker'[w].at = "encrypt"
        /\ me.item \in sources' /\ me.item \in begun'
        /\ tmp'[n] # None /\ tmp'[n].of = me.item
  /\ box'[n] \in {None, box[n], tmp[n]}
  /\ \A i \in 1..NVols : \/ vols'[n][i] = vols[n][i]
                         \/ vols'[n][i] # None /\ vols'[n][i].of \in Begun(n)
  /\ \/ me.item \in begun'
     \/ box'[n] = box[n] /\ vols'[n] = vols[n] /\ tmp'[n] \in {None, tmp[n]}

\* Two workers at the same name: neither is alone there once the other has begun.
LEMMA NotSole ==
  ASSUME TypeOK, Hands, batch.encrypt, NEW v \in Workers, NEW w \in Workers, v # w,
         Busy(v), Busy(w), Target(v) = Target(w), worker[w].item \in begun
  PROVE  ~Sole(v)
<1>1. worker[v].item # worker[w].item
  BY DEF Hands
<1>2. PICK k \in DOMAIN batch.list : worker[w].item = batch.list[k]
  BY DEF Hands
<1>3. Name[batch.list[k]] = Target(v)
  BY <1>2 DEF Target
<1>4. worker[w].item \in Begun(Target(v))
  <2>1. Name[worker[w].item] = Target(v)
    BY DEF Target
  <2> QED
    BY <2>1 DEF Begun
<1> QED
  BY <1>1, <1>2, <1>3, <1>4 DEF Sole

\* A file that is begun stays begun, so that a worker can only cease to be alone.
LEMMA BegunGrows ==
  ASSUME begun \subseteq begun'
  PROVE  \A n : Begun(n) \subseteq Begun(n)'
  BY DEF Begun

LEMMA OthersKnow ==
  ASSUME TypeOK, Hands, TypeOK', Hands', NEW w \in Workers, NEW v \in Workers, v # w,
         Busy(v), Busy(w), Busy(w)', OwnName(w), EncryptKnows(v)
  PROVE  EncryptKnows(v)'
<1>n. PICK n \in Names, m \in Names : n = Target(w) /\ m = Target(v)
  BY AtWork
<1> DEFINE him == worker[v]
<1>0. /\ batch.encrypt /\ batch' = batch /\ worker'[v] = him /\ Busy(v)'
      /\ worker'[w].item = worker[w].item
  BY DEF OwnName, Busy
<1>1. Target(v)' = m /\ Target(w)' = n
  BY <1>0, <1>n DEF Target
<1>2. him.item # worker[w].item
  BY DEF Hands
<1>3. begun \subseteq begun' /\ (him.item \in sources => him.item \in sources')
  BY <1>2 DEF OwnName
<1>4. Begun(m) \subseteq Begun(m)'
  BY <1>3, BegunGrows
<1>5. Sole(v)' => Sole(v)
  BY <1>0, <1>1, <1>n, <1>4 DEF Sole
<1>6. CASE m # n
  <2>1. box'[m] = box[m] /\ tmp'[m] = tmp[m] /\ vols'[m] = vols[m] /\ lock'[m] = lock[m]
    BY <1>n, <1>6 DEF OwnName
  <2>2. Complete(m)' <=> Complete(m)
    BY <2>1 DEF Complete, Found
  <2> QED
    BY <1>0, <1>1, <1>n, <1>3, <1>4, <1>5, <2>1, <2>2 DEF EncryptKnows, Whole
<1>7. CASE m = n /\ worker[w].item \in begun'
  <2>1. ~Sole(v)'
    <3>1. PICK k \in DOMAIN batch.list : worker[w].item = batch.list[k]
      BY DEF Hands
    <3>2. Name[worker[w].item] = n
      BY <1>0, <1>n DEF Target
    <3>3. worker[w].item \in Begun(n)'
      BY <1>7, <3>2 DEF Begun
    <3> QED
      BY <1>0, <1>1, <1>2, <1>7, <3>1, <3>2, <3>3 DEF Sole
  <2>2. him.at \in {"encrypt", "verify", "fail"} => lock'[m] = v /\ tmp'[m] \in {None, tmp[m]}
    BY <1>7, <1>n DEF EncryptKnows, OwnName
  <2>3. (\E i \in 1..NVols : vols[m][i] # None) => (\E i \in 1..NVols : vols'[m][i] # None)
    BY <1>7, <1>n DEF OwnName
  <2> QED
    BY <1>0, <1>1, <1>n, <1>3, <1>4, <2>1, <2>2, <2>3 DEF EncryptKnows
<1>8. CASE m = n /\ worker[w].item \notin begun'
  <2>1. box'[m] = box[m] /\ vols'[m] = vols[m] /\ tmp'[m] \in {None, tmp[m]}
    BY <1>8, <1>n DEF OwnName
  <2>2. him.at \in {"encrypt", "verify", "fail"} => lock'[m] = v
    BY <1>8, <1>n DEF EncryptKnows, OwnName
  <2>3. Complete(m)' <=> Complete(m)
    BY <2>1 DEF Complete, Found
  <2> QED
    BY <1>0, <1>1, <1>n, <1>3, <1>4, <1>5, <2>1, <2>2, <2>3 DEF EncryptKnows, Whole
<1> QED
  BY <1>6, <1>7, <1>8

LEMMA ContentsKept ==
  ASSUME TypeOK, Hands, TypeOK', NEW w \in Workers, Busy(w), OwnName(w),
         Contents, EncryptKnows(w)
  PROVE  Contents'
<1> DEFINE me == worker[w]
<1> DEFINE n == Target(w)
<1>0. n \in Names /\ batch.encrypt /\ n = Name[me.item] /\ me.item \in Files
  BY AtWork DEF OwnName, Target, Inputs
<1>1. begun \subseteq begun'
  BY DEF OwnName
<1>2. \A m : Begun(m) \subseteq Begun(m)'
  BY <1>1, BegunGrows
<1>3. (Files \ begun \subseteq sources)'
  BY <1>1 DEF Contents, OwnName, EncryptKnows, Made
<1>4. ASSUME NEW m \in Names
      PROVE  /\ box'[m] # None => box'[m].of \in Begun(m)'
             /\ \A i \in 1..NVols : vols'[m][i] # None => vols'[m][i].of \in Begun(m)'
             /\ plain'[m] # None => plain'[m] \in Begun(m)'
  <2>1. plain'[m] # None => plain'[m] \in Begun(m)'
    BY <1>2 DEF Contents, OwnName
  <2>2. CASE m # n
    BY <1>2, <2>1, <2>2 DEF Contents, OwnName
  <2>3. CASE m = n
    BY <1>2, <2>1, <2>3 DEF Contents, OwnName
  <2> QED
    BY <2>2, <2>3
<1>5. ASSUME NEW m \in Names
      PROVE  tmp'[m] # None => tmp'[m].of \in Begun(m)'
  <2>1. CASE m # n \/ tmp'[n] \in {None, tmp[n]}
    BY <1>2, <2>1 DEF Contents, OwnName
  <2>2. CASE m = n /\ me.item \in begun' /\ tmp'[n].of = me.item
    BY <1>0, <2>2 DEF Begun
  <2> QED
    BY <2>1, <2>2 DEF OwnName
<1>6. ASSUME NEW m \in Names, tmp'[m] # None, ~tmp'[m].whole
      PROVE  /\ tmp'[m].of \in sources'
             /\ \A v \in Workers : worker'[v].item = tmp'[m].of =>
                  worker'[v].at \notin Made \ {"encrypt"}
  <2>1. CASE tmp'[m] = tmp[m]
    <3>1. /\ tmp[m].of \in sources
          /\ \A v \in Workers : worker[v].item = tmp[m].of => worker[v].at \notin Made \ {"encrypt"}
      BY <1>6, <2>1 DEF Contents
    <3>2. tmp[m].of \in sources'
      BY <3>1 DEF OwnName, Made
    <3>3. \A v \in Workers : worker'[v].item = tmp[m].of => worker'[v].at \notin Made \ {"encrypt"}
      BY <3>1 DEF OwnName
    <3> QED
      BY <2>1, <3>2, <3>3
  <2>2. CASE m = n /\ me.item \in sources' /\ tmp'[n].of = me.item /\ worker'[w].at = "encrypt"
    <3>1. \A v \in Workers \ {w} : worker'[v] = worker[v]
      BY DEF OwnName
    <3>2. \A v \in Workers \ {w} : worker[v].item = me.item => ~Busy(v)
      BY DEF Hands
    <3>3. \A v \in Workers \ {w} : ~Busy(v) => worker[v].at \notin Made
      BY DEF Busy, Made
    <3> QED
      BY <2>2, <3>1, <3>2, <3>3
  <2> QED
    BY <1>6, <2>1, <2>2 DEF OwnName
<1> QED
  BY <1>3, <1>4, <1>5, <1>6 DEF Contents

\* What is under other names stays safe.
LEMMA SafeElsewhere ==
  ASSUME TypeOK, Hands, NEW w \in Workers, Busy(w), OwnName(w),
         NEW m \in Names, m # Target(w), Begun(m) # {} => Safe(m)
  PROVE  (Begun(m) # {} => Safe(m))'
<1>1. /\ box'[m] = box[m] /\ plain'[m] = plain[m] /\ vols'[m] = vols[m]
      /\ \A v \in Workers \ {w} : worker'[v] = worker[v]
      /\ worker'[w].item = worker[w].item /\ Name[worker[w].item] # m
  BY DEF OwnName, Target
<1>2. Begun(m)' = Begun(m)
  BY <1>1 DEF Begun, OwnName
<1>3. Complete(m)' <=> Complete(m)
  BY <1>1 DEF Complete, Found
<1>4. \A f \in Begun(m) : AtDispose(f)' => AtDispose(f)
  BY <1>1 DEF AtDispose, Begun
<1>5. \A f \in Begun(m) : f \in sources => f \in sources'
  BY <1>1 DEF OwnName, Begun
<1> QED
  BY <1>1, <1>2, <1>3, <1>4, <1>5 DEF Safe, Whole

\* What is under the name of a worker stays safe when what is there is not touched.
LEMMA SafeHere ==
  ASSUME TypeOK, Hands, NEW w \in Workers, Busy(w), OwnName(w),
         NEW n \in Names, n = Target(w), Begun(n) # {} => Safe(n),
         box'[n] = box[n], vols'[n] = vols[n], begun' = begun,
         worker'[w].at # "dispose"
  PROVE  (Begun(n) # {} => Safe(n))'
<1>1. /\ plain'[n] = plain[n]
      /\ \A v \in Workers \ {w} : worker'[v] = worker[v]
      /\ worker'[w].item = worker[w].item
  BY DEF OwnName
<1>2. Begun(n)' = Begun(n)
  BY DEF Begun
<1>3. Complete(n)' <=> Complete(n)
  BY DEF Complete, Found
<1>4. \A f \in Begun(n) : AtDispose(f)' => AtDispose(f)
  BY <1>1 DEF AtDispose
<1>5. \A f \in Begun(n) : f \in sources /\ ~AtDispose(f) => f \in sources'
  BY <1>1 DEF OwnName, AtDispose
<1> QED
  BY <1>1, <1>2, <1>3, <1>4, <1>5 DEF Safe, Whole

\* A source that is there, of a worker that is not about to dispose of it, makes its name safe.
LEMMA SafeSource ==
  ASSUME Hands', NEW w \in Workers, Busy(w)', NEW f, worker'[w].item = f, f \in sources',
         f \in begun', worker'[w].at # "dispose", NEW n \in Names, n = Name[f]
  PROVE  Safe(n)'
<1>1. ~AtDispose(f)'
  <2> SUFFICES ASSUME NEW v \in Workers, worker'[v].at = "dispose", worker'[v].item = f
               PROVE  FALSE
    BY DEF AtDispose
  <2>1. Busy(v)'
    BY DEF Busy
  <2> QED
    BY <2>1 DEF Hands
<1>2. f \in Begun(n)'
  BY DEF Begun
<1> QED
  BY <1>1, <1>2 DEF Safe

\* Each step of an encryption but the sealing of its container.
LEMMA OwnSteps ==
  ASSUME TypeOK, Hands, TypeOK', Hands', ~CloseFails, Spared, NEW w \in Workers, batch.encrypt,
         Run(w), ~Take(w), ~Count(w), ~Encrypt(w),
         NEW n \in Names, n = Target(w)
  PROVE  OwnName(w) /\ EncryptKnows(w)' /\ (Begun(n) # {} => Safe(n))'
<1> DEFINE me == worker[w]
<1>0. Busy(w) /\ GoesOn(w)
  BY FileStep
<1>1. /\ batch.running /\ me \in Worker /\ me.item \in Files /\ n = Name[me.item]
      /\ me.at \in {"count"} \cup EncryptPlaces
  BY <1>0, AtWork DEF Inputs, Target
<1>2. /\ worker \in [Workers -> Worker] /\ box \in [Names -> Container \cup {None}]
      /\ tmp \in [Names -> Container \cup {None}]
      /\ vols \in [Names -> [1..NVols -> Container \cup {None}]]
      /\ lock \in [Names -> Workers \cup {Free, Stale}]
  BY DEF TypeOK
<1>3. EncryptKnows(w) /\ Contents /\ (Begun(n) # {} => Safe(n))
  BY <1>0 DEF Spared
<1>4. Target(w)' = n
  BY <1>0, <1>1 DEF GoesOn, Target
<1>5. UNCHANGED batch /\ worker'[w].item = me.item /\ Busy(w)'
  BY <1>0 DEF GoesOn, Busy, EncryptPlaces
<1>v. 1 \in 1..NVols
  BY BatchConstants
<1> USE DEF At, Goto, GotoWith, Fault
<1>6. CASE Lock(w)
  <2>1. CASE GotoWith(w, "dtor", FALSE) /\ UNCHANGED <<lock, tmp, begun>>
    <3>1. worker'[w].at = "dtor" /\ ~worker'[w].ok
      BY <1>1, <1>2, <2>1 DEF Worker
    <3>2. OwnName(w)
      BY <1>1, <1>2, <1>5, <1>6, <2>1, <3>1 DEF Lock, OwnName, Made
    <3>3. EncryptKnows(w)'
      BY <3>1 DEF EncryptKnows, Made
    <3>4. (Begun(n) # {} => Safe(n))'
      BY <1>0, <1>3, <1>6, <2>1, <3>1, <3>2, SafeHere DEF Lock
    <3> QED
      BY <3>2, <3>3, <3>4
  <2>2. CASE ~(GotoWith(w, "dtor", FALSE) /\ UNCHANGED <<lock, tmp, begun>>)
    <3> DEFINE key == CHOOSE k \in Keys \ UsedKeys : TRUE
    <3>1. Keys \ UsedKeys # {}
      BY <1>6, <2>2 DEF Lock
    <3>2. key \in Keys \ UsedKeys
      BY <3>1
    <3>3. /\ lock[n] \in {Free, Stale} /\ me.item \in sources /\ me.at = "lock"
          /\ lock' = [lock EXCEPT ![n] = w]
          /\ tmp' = [tmp EXCEPT ![n] = [of |-> me.item, key |-> key, whole |-> FALSE]]
          /\ worker' = [worker EXCEPT ![w].at = "encrypt", ![w].key = key]
          /\ begun' = begun \cup {me.item}
          /\ UNCHANGED <<sources, plain, box, vols, batch>>
      BY <1>6, <2>2 DEF Lock
    <3> HIDE DEF key
    <3>4. worker'[w].at = "encrypt" /\ worker'[w].key = key
      BY <1>1, <1>2, <3>3 DEF Worker
    <3>5. /\ tmp'[n] = [of |-> me.item, key |-> key, whole |-> FALSE] /\ tmp'[n] # None
          /\ lock'[n] = w
      <4>1. [of |-> me.item, key |-> key, whole |-> FALSE] \in Container
        BY <1>1, <3>2 DEF Container
      <4> QED
        BY <1>2, <3>3, <4>1, Markers
    <3>6. lock[n] \notin Workers
      BY <3>3, BatchConstants
    <3>7. \A v \in Workers \ {w} : worker'[v] = worker[v]
      BY <1>2, <3>3
    <3>8. \A m \in Names \ {n} : box'[m] = box[m] /\ tmp'[m] = tmp[m]
                                 /\ vols'[m] = vols[m] /\ lock'[m] = lock[m]
      BY <1>2, <3>3
    <3>a. /\ begun' = begun \cup {me.item} /\ UNCHANGED <<sources, plain, box, vols, batch>>
          /\ me.item \in sources /\ me.at = "lock"
      BY <3>3
    <3>9. OwnName(w)
      BY <1>5, <3>2, <3>a, <3>4, <3>5, <3>6, <3>7, <3>8 DEF OwnName, Made
    <3>10. EncryptKnows(w)'
      BY <1>4, <1>5, <3>a, <3>4, <3>5 DEF EncryptKnows, Made
    <3>11. Safe(n)'
      BY <1>1, <1>5, <3>a, <3>4, SafeSource
    <3> QED
      BY <3>9, <3>10, <3>11
  <2> QED
    BY <2>1, <2>2
<1>7. CASE Verify(w)
  <2>0. /\ me.at = "verify" /\ UNCHANGED <<sources, plain, box, tmp, vols, batch, begun>>
        /\ me.item \in sources /\ me.item \in begun /\ lock[n] = w
    BY <1>3, <1>7 DEF Verify, EncryptKnows, Made
  <2>1. /\ \A v \in Workers \ {w} : worker'[v] = worker[v]
        /\ \/ worker'[w].at = "commit" /\ lock' = [lock EXCEPT ![n] = Free]
           \/ worker'[w].at = "fail" /\ ~worker'[w].ok /\ lock' = lock
    BY <1>1, <1>2, <1>7 DEF Verify, Worker
  <2>2. \A m \in Names \ {n} : lock'[m] = lock[m]
    BY <1>2, <2>1
  <2>3. OwnName(w)
    BY <1>5, <2>0, <2>1, <2>2 DEF OwnName, Made
  <2>4. EncryptKnows(w)'
    <3>1. tmp[n] # None => tmp[n].whole /\ tmp[n].of = me.item
      BY <1>3, <2>0 DEF EncryptKnows
    <3> QED
      BY <1>4, <1>5, <2>0, <2>1, <3>1 DEF EncryptKnows, Made
  <2>5. (Begun(n) # {} => Safe(n))'
    BY <1>0, <1>3, <2>0, <2>1, <2>3, SafeHere
  <2> QED
    BY <2>3, <2>4, <2>5
<1>8. CASE Fail(w) \/ DropTemp(w)
  <2>0. /\ me.at \in {"fail", "dtor"} /\ UNCHANGED <<sources, plain, box, vols, batch, begun>>
        /\ ~me.ok /\ (me.at = "fail" => lock[n] = w)
    BY <1>3, <1>8 DEF Fail, DropTemp, EncryptKnows
  <2>1. /\ \A v \in Workers \ {w} : worker'[v] = worker[v]
        /\ tmp' = [tmp EXCEPT ![n] = None]
        /\ \/ worker'[w].at = "dtor" /\ lock' = [lock EXCEPT ![n] = Free] /\ me.at = "fail"
           \/ worker'[w].at = "count" /\ lock' = lock
        /\ ~worker'[w].ok
    <3>1. CASE Fail(w)
      BY <1>1, <1>2, <2>0, <3>1 DEF Fail, Worker
    <3>2. CASE DropTemp(w)
      BY <1>1, <1>2, <2>0, <3>2 DEF DropTemp, Worker
    <3> QED
      BY <1>8, <3>1, <3>2
  <2>2. \A m \in Names \ {n} : lock'[m] = lock[m] /\ tmp'[m] = tmp[m]
    BY <1>2, <2>1
  <2>3. tmp'[n] = None
    BY <1>2, <2>1
  <2>4. OwnName(w)
    BY <1>5, <2>0, <2>1, <2>2, <2>3 DEF OwnName, Made
  <2>5. EncryptKnows(w)'
    BY <2>1 DEF EncryptKnows, Made
  <2>6. (Begun(n) # {} => Safe(n))'
    BY <1>0, <1>3, <2>0, <2>1, <2>4, SafeHere
  <2> QED
    BY <2>4, <2>5, <2>6
<1>9. CASE CommitUnlink(w)
  <2>0. /\ me.at = "commit" /\ UNCHANGED <<sources, plain, tmp, vols, lock, batch, begun>>
        /\ me.item \in sources /\ me.item \in begun
    BY <1>3, <1>9 DEF CommitUnlink, EncryptKnows, Made
  <2>1. /\ \A v \in Workers \ {w} : worker'[v] = worker[v]
        /\ box' = [box EXCEPT ![n] = None]
        /\ worker'[w].at = "rename"
    BY <1>1, <1>2, <1>9 DEF CommitUnlink, Worker
  <2>2. box'[n] = None /\ \A m \in Names \ {n} : box'[m] = box[m]
    BY <1>2, <2>1
  <2>3. OwnName(w)
    BY <1>5, <2>0, <2>1, <2>2 DEF OwnName, Made
  <2>4. Sole(w)' => Sole(w)
    BY <1>4, <1>5, <2>0 DEF Sole, Begun
  <2>5. EncryptKnows(w)'
    <3>1. Sole(w) /\ tmp[n] # None => tmp[n].whole /\ tmp[n].of = me.item
      BY <1>3, <2>0 DEF EncryptKnows
    <3> QED
      BY <1>4, <1>5, <2>0, <2>1, <2>4, <3>1 DEF EncryptKnows, Made
  <2>6. Safe(n)'
    BY <1>1, <1>5, <2>0, <2>1, SafeSource
  <2> QED
    BY <2>3, <2>5, <2>6
<1>10. CASE CommitRename(w)
  <2>0. /\ me.at = "rename" /\ UNCHANGED <<sources, plain, vols, lock, batch, begun>>
        /\ me.item \in sources /\ me.item \in begun
        /\ Sole(w) /\ tmp[n] # None => tmp[n].whole /\ tmp[n].of = me.item
    BY <1>3, <1>10 DEF CommitRename, EncryptKnows, Made
  <2>w. \A v \in Workers \ {w} : worker'[v] = worker[v]
    BY <1>2, <1>10 DEF CommitRename
  <2>1. CASE tmp[n] # None /\ box' = [box EXCEPT ![n] = tmp[n]] /\ tmp' = [tmp EXCEPT ![n] = None]
             /\ Goto(w, "dispose")
    <3>1. /\ worker'[w].at = "dispose" /\ box'[n] = tmp[n] /\ tmp'[n] = None
          /\ \A m \in Names \ {n} : box'[m] = box[m] /\ tmp'[m] = tmp[m]
      BY <1>1, <1>2, <2>1 DEF Worker
    <3>2. OwnName(w)
      BY <1>5, <2>0, <2>w, <3>1 DEF OwnName, Made
    <3>3. Sole(w)' => Sole(w)
      BY <1>4, <1>5, <2>0 DEF Sole, Begun
    <3>4. EncryptKnows(w)'
      BY <1>4, <1>5, <2>0, <2>1, <3>1, <3>3 DEF EncryptKnows, Made, Whole
    <3>5. Safe(n)'
      <4>1. CASE tmp[n].whole
        BY <2>1, <3>1, <4>1 DEF Safe, Whole
      <4>2. CASE ~tmp[n].whole
        <5>0. PICK f : f = tmp[n].of
          OBVIOUS
        <5>1. /\ f \in sources /\ f \in Begun(n)
              /\ \A v \in Workers : worker[v].item = f => worker[v].at \notin Made \ {"encrypt"}
          BY <1>3, <2>1, <4>2, <5>0 DEF Contents
        <5>2. f # me.item
          BY <2>0, <5>1 DEF Made
        <5>3. ~AtDispose(f)'
          <6> SUFFICES ASSUME NEW v \in Workers, worker'[v].at = "dispose", worker'[v].item = f
                       PROVE  FALSE
            BY DEF AtDispose
          <6>1. v # w
            BY <1>5, <5>2
          <6> QED
            BY <2>w, <5>1, <6>1 DEF Made
        <5>4. f \in (Begun(n) \cap sources)'
          BY <2>0, <5>1 DEF Begun
        <5> QED
          BY <5>3, <5>4 DEF Safe
      <4> QED
        BY <4>1, <4>2
    <3> QED
      BY <3>2, <3>4, <3>5
  <2>2. CASE GotoWith(w, "dtor", FALSE) /\ UNCHANGED <<box, tmp>>
    <3>1. worker'[w].at = "dtor" /\ ~worker'[w].ok
      BY <1>1, <1>2, <2>2 DEF Worker
    <3>2. OwnName(w)
      BY <1>5, <2>0, <2>w, <2>2, <3>1 DEF OwnName, Made
    <3>3. EncryptKnows(w)'
      BY <3>1 DEF EncryptKnows, Made
    <3>4. (Begun(n) # {} => Safe(n))'
      BY <1>0, <1>3, <2>0, <2>2, <3>1, <3>2, SafeHere
    <3> QED
      BY <3>2, <3>3, <3>4
  <2> QED
    BY <1>10, <2>1, <2>2 DEF CommitRename
<1>11. CASE DisposeSource(w)
  <2>0. /\ me.at = "dispose" /\ UNCHANGED <<plain, box, tmp, vols, lock, batch, begun>>
        /\ me.item \in begun
        /\ Sole(w) => Whole(box[n]) /\ box[n].of = me.item
    BY <1>3, <1>11 DEF DisposeSource, EncryptKnows, Made
  <2>1. /\ \A v \in Workers \ {w} : worker'[v] = worker[v]
        /\ \/ worker'[w].at = "split" /\ batch.split
           \/ worker'[w].at = "count"
        /\ sources' = sources \/ sources' = sources \ {me.item}
    BY <1>1, <1>2, <1>11 DEF DisposeSource, Worker
  <2>2. OwnName(w)
    BY <1>5, <2>0, <2>1 DEF OwnName, Made
  <2>3. Sole(w)' => Sole(w)
    BY <1>4, <1>5, <2>0 DEF Sole, Begun
  <2>4. EncryptKnows(w)'
    BY <1>4, <1>5, <2>0, <2>1, <2>3 DEF EncryptKnows, Made, Whole
  <2>5. (Begun(n) # {} => Safe(n))'
    BY <1>0, <1>3, <2>0, <2>1, <2>2, SafeHere
  <2> QED
    BY <2>2, <2>4, <2>5
<1>12. CASE Split(w)
  <2>0. /\ me.at = "split" /\ UNCHANGED <<sources, plain, box, tmp, vols, lock, batch, begun>>
        /\ me.item \in begun /\ batch.split
        /\ Sole(w) => Whole(box[n]) /\ box[n].of = me.item
    BY <1>3, <1>12 DEF Split, EncryptKnows, Made, disk
  <2>1. /\ \A v \in Workers \ {w} : worker'[v] = worker[v]
        /\ \/ /\ worker'[w].at = "volume" /\ worker'[w].vol = 1 /\ worker'[w].read = box[n]
              /\ box[n] # None
           \/ worker'[w].at = "count"
    BY <1>1, <1>2, <1>12 DEF Split, Worker
  <2>2. OwnName(w)
    BY <1>5, <2>0, <2>1 DEF OwnName, Made
  <2>3. Sole(w)' => Sole(w)
    BY <1>4, <1>5, <2>0 DEF Sole, Begun
  <2>4. EncryptKnows(w)'
    <3>1. box[n] # None => box[n].of \in Begun(n)'
      BY <1>3, <2>0 DEF Contents, Begun
    <3>2. 1..(1 - 1) = {}
      OBVIOUS
    <3> QED
      BY <1>4, <1>5, <2>0, <2>1, <2>3, <3>1, <3>2 DEF EncryptKnows, Made, Whole
  <2>5. (Begun(n) # {} => Safe(n))'
    BY <1>0, <1>3, <2>0, <2>1, <2>2, SafeHere
  <2> QED
    BY <2>2, <2>4, <2>5
<1>13. CASE Volume(w)
  <2>0. /\ me.at = "volume" /\ UNCHANGED <<sources, plain, box, tmp, lock, batch, begun>>
        /\ me.item \in begun /\ batch.split /\ me.vol \in 1..NVols /\ me.read \in Container
        /\ me.read.of \in Begun(n)
        /\ Sole(w) => /\ Whole(box[n]) /\ box[n].of = me.item
                      /\ me.read.whole /\ me.read.of = me.item
                      /\ \A i \in 1..(me.vol - 1) : vols[n][i] = me.read
    <3>1. me.vol # 0 /\ me.read # None /\ me.at = "volume"
      BY <1>13 DEF Volume, Hands
    <3> QED
      BY <1>1, <1>3, <1>13, <3>1 DEF Volume, EncryptKnows, Made, Worker
  <2>w. \A v \in Workers \ {w} : worker'[v] = worker[v]
    BY <1>2, <1>13 DEF Volume
  <2>c. [me.read EXCEPT !.whole = FALSE] \in Container /\ [me.read EXCEPT !.whole = FALSE].of = me.read.of
    BY <2>0 DEF Container
  <2>1. /\ \A i \in 1..NVols \ {me.vol} : vols'[n][i] = vols[n][i]
        /\ vols'[n][me.vol] \in Container /\ vols'[n][me.vol].of \in Begun(n)
        /\ \A m \in Names \ {n} : vols'[m] = vols[m]
    <3>1. PICK c \in Container : c.of = me.read.of /\ vols' = [vols EXCEPT ![n][me.vol] = c]
      BY <1>13, <2>0, <2>c DEF Volume
    <3> QED
      BY <1>2, <2>0, <3>1
  <2>2. \/ worker'[w].at = "count"
        \/ /\ vols'[n][me.vol] = me.read
           /\ \/ /\ me.vol # NVols /\ worker'[w].at = "volume" /\ worker'[w].vol = me.vol + 1
                 /\ worker'[w].read = me.read
              \/ me.vol = NVols /\ worker'[w].at = "removebase"
    <3>1. CASE worker' = [worker EXCEPT ![w].at = "count", ![w].ok = FALSE, ![w].read = None,
                                        ![w].vol = 0]
      BY <1>1, <1>2, <3>1 DEF Worker
    <3>2. CASE ~(worker' = [worker EXCEPT ![w].at = "count", ![w].ok = FALSE, ![w].read = None,
                                          ![w].vol = 0])
      <4>1. /\ worker' = [worker EXCEPT ![w].at = IF me.vol = NVols THEN "removebase" ELSE "volume",
                                    ![w].vol = IF me.vol = NVols THEN 0 ELSE me.vol + 1,
                                    ![w].read = IF me.vol = NVols THEN None ELSE @]
            /\ vols' = [vols EXCEPT ![n][me.vol] = me.read]
        BY <1>13, <3>2 DEF Volume
      <4>2. vols'[n][me.vol] = me.read
        BY <1>2, <2>0, <4>1
      <4> QED
        BY <1>1, <1>2, <4>1, <4>2 DEF Worker
    <3> QED
      BY <3>1, <3>2
  <2>3. vols'[n][me.vol] # None
    BY <2>1, Markers
  <2>4. OwnName(w)
    BY <1>5, <2>0, <2>w, <2>1, <2>2, <2>3 DEF OwnName, Made
  <2>5. Sole(w)' => Sole(w)
    BY <1>4, <1>5, <2>0 DEF Sole, Begun
  <2>6. ASSUME worker'[w].at = "count"
        PROVE  EncryptKnows(w)'
    BY <2>6 DEF EncryptKnows, Made
  <2>7. ASSUME worker'[w].at = "volume"
        PROVE  EncryptKnows(w)'
    <3>1. ASSUME Sole(w), NEW i \in 1..(worker'[w].vol - 1)
          PROVE  vols'[n][i] = me.read
      <4>1. worker'[w].vol = me.vol + 1 /\ vols'[n][me.vol] = me.read
        BY <2>2, <2>7
      <4>2. i \in 1..NVols /\ (i = me.vol \/ i \in 1..(me.vol - 1))
        BY <2>0, <4>1, BatchConstants
      <4>3. CASE i # me.vol
        <5>1. vols[n][i] = me.read
          BY <2>0, <3>1, <4>2, <4>3
        <5> QED
          BY <2>1, <4>2, <4>3, <5>1
      <4> QED
        BY <4>1, <4>3
    <3>2. me.read.of \in Begun(n)'
      BY <2>0 DEF Begun
    <3> QED
      <4>1. worker'[w].read = me.read
        BY <2>2, <2>7
      <4>2. Sole(w)' => /\ Whole(box'[n]) /\ box'[n].of = worker'[w].item
                        /\ worker'[w].read.whole /\ worker'[w].read.of = worker'[w].item
                        /\ \A i \in 1..(worker'[w].vol - 1) : vols'[n][i] = worker'[w].read
        BY <1>5, <2>0, <2>5, <3>1, <4>1
      <4>3. worker'[w].read.of \in Begun(n)' /\ worker'[w].item \in begun' /\ batch'.split
        BY <1>5, <2>0, <3>2, <4>1
      <4> QED
        BY <1>4, <2>7, <4>2, <4>3 DEF EncryptKnows, Made, Whole
  <2>8. ASSUME worker'[w].at = "removebase"
        PROVE  EncryptKnows(w)'
    <3>1. Sole(w) => \A i \in 1..NVols : vols'[n][i] = me.read
      BY <2>0, <2>1, <2>2, <2>8
    <3>2. Sole(w) => Complete(n)'
      BY <2>0, <3>1, <1>v, Markers, CompleteFacts
    <3>3. Sole(w) => vols'[n][1].of = me.item
      BY <2>0, <3>1, <1>v
    <3> QED
      BY <1>4, <1>5, <2>0, <2>3, <2>5, <2>8, <3>2, <3>3 DEF EncryptKnows, Made
  <2>9. Safe(n)'
    <3>1. CASE Sole(w)
      BY <2>0, <3>1 DEF Safe, Whole
    <3>2. CASE ~Sole(w)
      <4>1. PICK g \in Begun(n) : g # me.item
        BY <3>2 DEF Sole
      <4>2. me.item \in Begun(n)
        BY <1>1, <2>0 DEF Begun
      <4>3. Begun(n)' = Begun(n)
        BY <2>0 DEF Begun
      <4> QED
        BY <2>0, <2>3, <4>1, <4>2, <4>3 DEF Safe
    <3> QED
      BY <3>1, <3>2
  <2> QED
    BY <2>2, <2>4, <2>6, <2>7, <2>8, <2>9
<1>14. CASE RemoveBase(w)
  <2>0. /\ me.at = "removebase" /\ UNCHANGED <<sources, plain, tmp, vols, lock, batch, begun>>
        /\ me.item \in begun
        /\ Sole(w) => Complete(n)
        /\ \E i \in 1..NVols : vols[n][i] # None
    BY <1>3, <1>14 DEF RemoveBase, EncryptKnows, Made
  <2>1. /\ \A v \in Workers \ {w} : worker'[v] = worker[v]
        /\ box' = box \/ box' = [box EXCEPT ![n] = None]
        /\ worker'[w].at = "count"
    BY <1>1, <1>2, <1>14 DEF RemoveBase, Worker
  <2>2. box'[n] \in {box[n], None} /\ \A m \in Names \ {n} : box'[m] = box[m]
    BY <1>2, <2>1
  <2>3. OwnName(w)
    BY <1>5, <2>0, <2>1, <2>2 DEF OwnName, Made
  <2>4. EncryptKnows(w)'
    BY <2>1 DEF EncryptKnows, Made
  <2>5. Safe(n)'
    <3>1. CASE Sole(w)
      <4>1. Complete(n)'
        BY <2>0, <3>1 DEF Complete, Found
      <4> QED
        BY <4>1 DEF Safe
    <3>2. CASE ~Sole(w)
      <4>1. PICK g \in Begun(n) : g # me.item
        BY <3>2 DEF Sole
      <4>2. me.item \in Begun(n)
        BY <1>1, <2>0 DEF Begun
      <4>3. Begun(n)' = Begun(n)
        BY <2>0 DEF Begun
      <4> QED
        BY <2>0, <4>1, <4>2, <4>3 DEF Safe
    <3> QED
      BY <3>1, <3>2
  <2> QED
    BY <2>3, <2>4, <2>5
<1>15. ~Resolve(w) /\ ~Decrypt(w) /\ ~Victim(w)
  BY <1>1 DEF Resolve, Decrypt, Victim, EncryptPlaces
<1> QED
  BY <1>6, <1>7, <1>8, <1>9, <1>10, <1>11, <1>12, <1>13, <1>14, <1>15 DEF Run

LEMMA OwnKept ==
  ASSUME TypeOK, Hands, TypeOK', Hands', Spared, NEW w \in Workers, Busy(w), Busy(w)', OwnName(w),
         EncryptKnows(w)', NEW n \in Names, n = Target(w), (Begun(n) # {} => Safe(n))'
  PROVE  Spared'
<1>1. batch.encrypt /\ batch' = batch
  BY DEF OwnName
<1>2. Contents'
  BY <1>1, ContentsKept DEF Spared
<1>3. \A v \in Workers : batch'.encrypt /\ Busy(v)' => EncryptKnows(v)'
  <2> SUFFICES ASSUME NEW v \in Workers, Busy(v)', v # w
               PROVE  EncryptKnows(v)'
    OBVIOUS
  <2>1. Busy(v)
    BY DEF Busy, OwnName
  <2> QED
    BY <1>1, <2>1, OthersKnow DEF Spared
<1>4. \A m \in Names : (Begun(m) # {} => Safe(m))'
  <2> TAKE m \in Names
  <2>1. CASE m = n
    BY <2>1
  <2>2. CASE m # n
    BY <2>2, SafeElsewhere DEF Spared
  <2> QED
    BY <2>1, <2>2
<1>5. \A u, v \in Workers : At(u, "encrypt")' /\ At(v, "encrypt")' /\ worker'[u].key = worker'[v].key
        => u = v
  <2>1. \A v \in Workers \ {w} : worker'[v] = worker[v] /\ worker[v].key \in UsedKeys
    BY DEF OwnName, UsedKeys
  <2>2. worker'[w].at = "encrypt" => worker'[w].key \notin UsedKeys
    BY DEF OwnName
  <2>3. \A u, v \in Workers : At(u, "encrypt") /\ At(v, "encrypt") /\ worker[u].key = worker[v].key
          => u = v
    BY DEF Spared
  <2> QED
    BY <2>1, <2>2, <2>3 DEF At
<1>6. \A v \in Workers : ~At(v, "victims")'
  BY <1>1 DEF Hands, At, Busy, EncryptPlaces
<1> QED
  BY <1>2, <1>3, <1>4, <1>5, <1>6 DEF Spared

\* The sealing of a container, under whatever name it is by now.
LEMMA SealKept ==
  ASSUME TypeOK, Hands, TypeOK', Hands', Spared, NEW w \in Workers, Encrypt(w),
         NEW n \in Names, n = Target(w)
  PROVE  Spared'
<1> DEFINE me == worker[w]
<1> DEFINE key == me.key
<1>0. Busy(w) /\ At(w, "encrypt") /\ UNCHANGED <<sources, plain, vols, lock, batch, begun>>
  BY DEF Encrypt, Busy, At
<1>1. /\ batch.running /\ me \in Worker /\ batch.encrypt /\ me.item \in Files
      /\ n = Name[me.item]
  BY <1>0, AtWork DEF At, DecryptPlaces, Inputs, Target
<1>2. /\ worker \in [Workers -> Worker] /\ box \in [Names -> Container \cup {None}]
      /\ tmp \in [Names -> Container \cup {None}]
      /\ vols \in [Names -> [1..NVols -> Container \cup {None}]]
  BY DEF TypeOK
<1>3. EncryptKnows(w) /\ Contents
  BY <1>0, <1>1 DEF Spared
<1>4. CASE Fault /\ GotoWith(w, "fail", FALSE) /\ UNCHANGED <<box, tmp>>
  <2>1. /\ worker'[w].at = "fail" /\ worker'[w].item = me.item /\ ~worker'[w].ok
        /\ \A v \in Workers \ {w} : worker'[v] = worker[v]
    BY <1>1, <1>2, <1>4 DEF GotoWith, Worker
  <2>2. Busy(w)' /\ Target(w)' = n
    BY <1>0, <1>1, <2>1 DEF Busy, Target
  <2>3. OwnName(w)
    BY <1>0, <1>1, <1>4, <2>1 DEF OwnName, Made
  <2>4. EncryptKnows(w)'
    <3>1. lock[n] = w
      BY <1>0, <1>3 DEF EncryptKnows, At
    <3> QED
      BY <1>0, <2>1, <2>2, <3>1 DEF EncryptKnows, Made
  <2>5. (Begun(n) # {} => Safe(n))'
    BY <1>0, <1>4, <2>1, <2>3, SafeHere DEF Spared
  <2> QED
    BY <1>0, <2>2, <2>3, <2>4, <2>5, OwnKept
<1>5. CASE /\ tmp' = [x \in Names |-> Sealed(tmp[x], key)]
           /\ box' = [x \in Names |-> Sealed(box[x], key)]
           /\ worker' = [v \in Workers |->
                IF v = w THEN [worker[w] EXCEPT !.at = "verify"]
                ELSE [worker[v] EXCEPT !.read = Sealed(@, key)]]
  <2>1. \A m \in Names :
          /\ tmp'[m] = None <=> tmp[m] = None
          /\ tmp[m] # None => /\ tmp'[m].of = tmp[m].of
                              /\ tmp[m].whole => tmp'[m] = tmp[m]
                              /\ tmp[m].key = key => tmp'[m].whole
                              /\ tmp[m].key # key => tmp'[m] = tmp[m]
    <3> TAKE m \in Names
    <3>1. tmp'[m] = Sealed(tmp[m], key) /\ tmp[m] \in Container \cup {None}
      BY <1>2, <1>5
    <3> QED
      BY <3>1, SealedFacts
  <2>2. \A m \in Names :
          /\ box'[m] = None <=> box[m] = None
          /\ box[m] # None => box'[m].of = box[m].of /\ (box[m].whole => box'[m] = box[m])
    BY <1>2, <1>5, SealedFacts
  <2>3. \A v \in Workers : worker[v] \in Worker /\ worker[v].read \in Container \cup {None}
    BY <1>2 DEF Worker
  <2>4. \A v \in Workers \ {w} :
          /\ worker'[v].at = worker[v].at /\ worker'[v].item = worker[v].item
          /\ worker'[v].key = worker[v].key /\ worker'[v].vol = worker[v].vol
          /\ worker'[v].ok = worker[v].ok
          /\ worker[v].read # None =>
               /\ worker'[v].read.of = worker[v].read.of
               /\ worker[v].read.whole => worker'[v].read = worker[v].read
    BY <1>5, <2>3, SealedFacts DEF Worker
  <2>5. worker'[w].at = "verify" /\ worker'[w].item = me.item /\ worker'[w].key = key
    BY <1>1, <1>5 DEF Worker
  <2>6. \A v \in Workers : worker'[v].item = worker[v].item /\ (Busy(v)' <=> Busy(v))
    BY <1>0, <2>4, <2>5 DEF Busy
  <2>7. \A v \in Workers : Target(v)' = Target(v) /\ (Sole(v)' <=> Sole(v))
    <3> TAKE v \in Workers
    <3>1. Target(v)' = Target(v)
      BY <1>0, <2>6 DEF Target
    <3> QED
      BY <1>0, <2>6, <3>1 DEF Sole, Begun
  <2>8. \A m : Begun(m)' = Begun(m)
    BY <1>0 DEF Begun
  <2>9. \A m \in Names : Complete(m)' <=> Complete(m)
    BY <1>0 DEF Complete, Found
  <2>10. \A m \in Names : Whole(box[m]) => box'[m] = box[m]
    BY <2>2 DEF Whole
  <2>11. me.item \in begun /\ me.item \in sources /\ lock[n] = w
         /\ tmp[n] \in {None, [of |-> me.item, key |-> key, whole |-> FALSE]}
    BY <1>0, <1>3 DEF EncryptKnows, Made, At
  <2>12. tmp'[n] \in {None, [of |-> me.item, key |-> key, whole |-> TRUE]}
    <3>1. tmp'[n] = Sealed(tmp[n], key)
      BY <1>5
    <3>2. CASE tmp[n] = None
      BY <3>1, <3>2 DEF Sealed
    <3>3. CASE tmp[n] = [of |-> me.item, key |-> key, whole |-> FALSE] /\ tmp[n] # None
      <4>1. tmp[n] \in Container \cup {None}
        BY <1>2
      <4>2. tmp[n].of = me.item /\ tmp[n].key = key
        BY <3>3
      <4>3. Sealed(tmp[n], key) = [of |-> tmp[n].of, key |-> key, whole |-> TRUE]
        BY <3>3, <4>1, <4>2, SealedFacts
      <4> QED
        BY <3>1, <4>2, <4>3
    <3> QED
      BY <2>11, <3>2, <3>3
  <2>13. Contents'
    <3>1. ASSUME NEW m \in Names, tmp'[m] # None, ~tmp'[m].whole
          PROVE  /\ tmp'[m].of \in sources'
                 /\ \A v \in Workers : worker'[v].item = tmp'[m].of =>
                      worker'[v].at \notin Made \ {"encrypt"}
      <4>1. tmp[m] # None /\ tmp'[m] = tmp[m] /\ ~tmp[m].whole
        BY <2>1, <3>1
      <4>2. /\ tmp[m].of \in sources /\ tmp[m].of \in Begun(m)
            /\ \A v \in Workers : worker[v].item = tmp[m].of => worker[v].at \notin Made \ {"encrypt"}
        BY <1>3, <4>1 DEF Contents
      <4>3. tmp[m].of # me.item
        BY <1>1, <2>12, <3>1, <4>1, <4>2 DEF Begun
      <4> QED
        BY <1>0, <2>4, <2>5, <4>1, <4>2, <4>3
    <3> QED
      BY <1>0, <1>3, <2>1, <2>2, <2>8, <3>1 DEF Contents
  <2>14. ASSUME NEW v \in Workers, Busy(v)'
         PROVE  EncryptKnows(v)'
    <3>1. CASE v = w
      BY <1>0, <2>5, <2>7, <2>11, <2>12, <3>1 DEF EncryptKnows, Made
    <3>2. CASE v # w
      <4>1. EncryptKnows(v) /\ Target(v) \in Names
        BY <1>1, <2>6, <2>14, AtWork DEF Spared
      <4>2. worker[v].at = "encrypt" => worker[v].key # key
        BY <1>0, <3>2 DEF Spared, At
      <4>3. At(v, "volume") => worker[v].read # None
        BY DEF Hands
      <4>4. PICK m \in Names : m = Target(v) /\ m = Target(v)'
        BY <2>7, <4>1
      <4>5. worker[v].at = "encrypt" => tmp'[m] \in {None, [of |-> worker[v].item,
                                                       key |-> worker[v].key, whole |-> FALSE]}
        BY <2>1, <4>1, <4>2, <4>4 DEF EncryptKnows
      <4>6. worker[v].at = "verify" => tmp'[m] \in {None, [of |-> worker[v].item,
                                                       key |-> worker[v].key, whole |-> TRUE]}
        BY <2>1, <4>1, <4>4 DEF EncryptKnows
      <4>7. worker[v].at = "volume" =>
              /\ worker'[v].read.of \in Begun(m)
              /\ Sole(v) => worker[v].read.whole /\ worker'[v].read = worker[v].read
        BY <2>4, <3>2, <4>1, <4>3, <4>4 DEF EncryptKnows, At
      <4>8. Sole(v) /\ worker[v].at \in {"commit", "rename"} /\ tmp'[m] # None =>
              tmp'[m].whole /\ tmp'[m].of = worker[v].item
        BY <2>1, <4>1, <4>4 DEF EncryptKnows
      <4> QED
        BY <1>0, <2>4, <2>7, <2>8, <2>9, <2>10, <3>2, <4>1, <4>4, <4>5, <4>6, <4>7, <4>8
           DEF EncryptKnows, Whole
    <3> QED
      BY <3>1, <3>2
  <2>15. ASSUME NEW m \in Names, Begun(m)' # {}
         PROVE  Safe(m)'
    <3>1. Safe(m)
      BY <2>8, <2>15 DEF Spared
    <3>2. \A f : AtDispose(f)' => AtDispose(f)
      BY <2>4, <2>5, <2>6 DEF AtDispose
    <3> QED
      BY <1>0, <2>8, <2>9, <2>10, <3>1, <3>2 DEF Safe, Whole
  <2>16. \A u, v \in Workers : At(u, "encrypt")' /\ At(v, "encrypt")' /\ worker'[u].key = worker'[v].key
          => u = v
    BY <2>4, <2>5 DEF Spared, At
  <2>17. \A v \in Workers : ~At(v, "victims")'
    BY <1>0, <1>1 DEF Hands, At, Busy, EncryptPlaces
  <2> QED
    BY <2>13, <2>14, <2>15, <2>16, <2>17 DEF Spared
<1> QED
  BY <1>4, <1>5 DEF Encrypt

\* Decrypting: what was decrypted is there before a container or a volume goes.
LEMMA DecryptKept ==
  ASSUME TypeOK, Hands, TypeOK', Hands', Spared, NEW w \in Workers,
         Resolve(w) \/ Decrypt(w) \/ Victim(w)
  PROVE  Spared'
<1> DEFINE me == worker[w]
<1>0. /\ Busy(w) /\ me.at \in DecryptPlaces
      /\ UNCHANGED <<sources, tmp, lock, batch, begun>>
  BY DEF Resolve, Decrypt, Victim, Busy, At, DecryptPlaces, disk
<1>1. me \in Worker /\ ~batch.encrypt /\ me.item \in Names /\ Target(w) = me.item
  BY <1>0, AtWork DEF DecryptPlaces, EncryptPlaces, Inputs, Target
<1>n. PICK n \in Names : n = me.item
  BY <1>1
<1>2. /\ worker \in [Workers -> Worker] /\ box \in [Names -> Container \cup {None}]
      /\ vols \in [Names -> [1..NVols -> Container \cup {None}]]
      /\ plain \in [Names -> Files \cup {None}] /\ 1 \in 1..NVols
  BY BatchConstants DEF TypeOK
<1>3. /\ \A v \in Workers \ {w} : worker'[v] = worker[v]
      /\ worker'[w].item = n /\ worker'[w].at \in {"decrypt", "victims", "count"}
  <2>1. CASE Resolve(w)
    BY <1>1, <1>n, <1>2, <2>1 DEF Resolve, GotoWith, Worker
  <2>2. CASE Decrypt(w)
    BY <1>1, <1>n, <1>2, <2>2 DEF Decrypt, Worker
  <2>3. CASE Victim(w)
    BY <1>1, <1>n, <1>2, <2>3 DEF Victim, Worker
  <2> QED
    BY <2>1, <2>2, <2>3
<1>4. Contents
  BY DEF Spared
<1>5. /\ \A m \in Names \ {n} : box'[m] = box[m] /\ vols'[m] = vols[m] /\ plain'[m] = plain[m]
      /\ box'[n] \in {box[n], None} /\ \A i \in 1..NVols : vols'[n][i] \in {vols[n][i], None}
      /\ plain'[n] # None => plain'[n] \in Begun(n)
      /\ worker'[w].at = "victims" => plain'[n] # None
      /\ \/ box' = box /\ vols' = vols /\ plain' = plain
         \/ box' = box /\ vols' = vols /\ (Whole(box[n]) \/ Complete(n))
         \/ plain'[n] # None
  <2>1. CASE Resolve(w)
    <3>1. worker'[w].at # "victims"
      BY <1>1, <1>2, <2>1 DEF Resolve, GotoWith, Worker
    <3> QED
      BY <1>4, <2>1, <3>1 DEF Resolve, Contents, disk
  <2>2. CASE Decrypt(w)
    <3> DEFINE from == IF me.vol = 0 THEN box[n] ELSE vols[n][1]
    <3> DEFINE opens == IF me.vol = 0 THEN Whole(box[n]) ELSE Complete(n)
    <3>1. box' = box /\ vols' = vols
      BY <2>2 DEF Decrypt
    <3>2. opens => from.of \in Begun(n) /\ from.of # None
      <4>1. Complete(n) => vols[n][1] # None
        BY <1>2, CompleteFacts
      <4>2. opens => from # None
        BY <4>1 DEF Whole
      <4>3. opens => from.of \in Begun(n)
        BY <1>2, <1>4, <4>2 DEF Contents
      <4>4. Begun(n) \subseteq Files
        BY DEF TypeOK, Begun
      <4> QED
        BY <4>3, <4>4, BatchConstants
    <3>3. CASE opens /\ plain' = [plain EXCEPT ![n] = from.of]
      BY <1>1, <1>n, <1>2, <3>1, <3>2, <3>3
    <3>4. CASE /\ plain' \in {plain, [plain EXCEPT ![n] = IF opens THEN None ELSE @]}
               /\ worker' = [worker EXCEPT ![w].at = "count", ![w].ok = FALSE, ![w].vol = 0]
      <4>1. worker'[w].at = "count"
        BY <1>1, <1>2, <3>4 DEF Worker
      <4>2. CASE opens
        BY <1>2, <1>4, <3>1, <3>4, <4>1, <4>2 DEF Contents
      <4>3. CASE ~opens
        <5>1. plain' = plain
          BY <1>2, <3>4, <4>3
        <5> QED
          BY <1>4, <3>1, <4>1, <5>1 DEF Contents
      <4> QED
        BY <4>2, <4>3
    <3> QED
      BY <1>1, <1>n, <2>2, <3>3, <3>4 DEF Decrypt
  <2>3. CASE Victim(w)
    <3>1. plain' = plain /\ plain[n] # None
      BY <1>n, <2>3 DEF Victim, Spared, At
    <3>2. \/ \E v \in 0..NVols : /\ box' = IF v = 0 THEN [box EXCEPT ![n] = None] ELSE box
                                 /\ vols' = IF v = 0 THEN vols ELSE [vols EXCEPT ![n][v] = None]
          \/ UNCHANGED <<box, vols>>
      <4>1. me.victims \in Seq(0..NVols) /\ me.victims # <<>>
        BY <1>1, <2>3 DEF Hands, Victim, Worker
      <4>2. Head(me.victims) \in 0..NVols
        BY <4>1, HeadTailProperties
      <4> QED
        BY <1>1, <1>n, <2>3, <4>2 DEF Victim
    <3>3. /\ \A m \in Names \ {n} : box'[m] = box[m] /\ vols'[m] = vols[m]
          /\ box'[n] \in {box[n], None} /\ \A i \in 1..NVols : vols'[n][i] \in {vols[n][i], None}
      BY <1>2, <3>2
    <3> QED
      BY <1>4, <3>1, <3>3 DEF Contents
  <2> QED
    BY <2>1, <2>2, <2>3
<1>6. \A m : Begun(m)' = Begun(m)
  BY <1>0 DEF Begun
<1>7. \A v \in Workers : worker'[v].item = worker[v].item /\ worker[v].at \notin Made
                         /\ worker'[v].at \notin Made
  <2> TAKE v \in Workers
  <2>1. worker[v].at \notin Made /\ worker'[v].at \notin Made
    BY <1>0, <1>1 DEF Hands, Busy, Made, DecryptPlaces
  <2> QED
    BY <1>3, <1>n, <2>1
<1>8. Contents'
  <2>1. ASSUME NEW m \in Names
        PROVE  /\ box'[m] # None => box'[m].of \in Begun(m)'
               /\ \A i \in 1..NVols : vols'[m][i] # None => vols'[m][i].of \in Begun(m)'
               /\ plain'[m] # None => plain'[m] \in Begun(m)'
    BY <1>4, <1>5, <1>6 DEF Contents
  <2>2. ASSUME NEW m \in Names
        PROVE  /\ tmp'[m] # None => tmp'[m].of \in Begun(m)'
               /\ tmp'[m] # None /\ ~tmp'[m].whole => tmp'[m].of \in sources'
    BY <1>0, <1>4, <1>6 DEF Contents
  <2> QED
    BY <1>0, <1>4, <1>7, <2>1, <2>2 DEF Contents
<1>9. ASSUME NEW m \in Names, Begun(m)' # {}
      PROVE  Safe(m)'
  <2>0. Safe(m)
    BY <1>6, <1>9 DEF Spared
  <2>1. \A f : ~AtDispose(f)'
    BY <1>7 DEF AtDispose, Made
  <2>2. CASE box'[m] = box[m] /\ vols'[m] = vols[m] /\ plain'[m] = plain[m]
    <3>1. Complete(m)' <=> Complete(m)
      BY <2>2 DEF Complete, Found
    <3> QED
      BY <1>0, <1>6, <2>0, <2>1, <2>2, <3>1 DEF Safe, Whole
  <2>3. CASE m = n /\ box' = box /\ vols' = vols /\ (Whole(box[n]) \/ Complete(n))
    <3>1. Complete(m)' <=> Complete(m)
      BY <2>3 DEF Complete, Found
    <3> QED
      BY <2>3, <3>1 DEF Safe, Whole
  <2>4. CASE plain'[m] # None
    BY <2>4 DEF Safe
  <2> QED
    BY <1>5, <2>2, <2>3, <2>4
<1>10. \A v \in Workers : At(v, "victims")' => plain'[worker'[v].item] # None
  <2> SUFFICES ASSUME NEW v \in Workers, At(v, "victims")'
               PROVE  plain'[worker'[v].item] # None
    OBVIOUS
  <2>1. CASE v = w
    BY <1>3, <1>5, <2>1 DEF At
  <2>2. CASE v # w
    <3>1. At(v, "victims") /\ Busy(v) /\ worker'[v].item = worker[v].item
      BY <1>3, <2>2 DEF At, Busy
    <3>2. plain[worker[v].item] # None /\ worker[v].item # n /\ worker[v].item \in Names
      BY <1>0, <1>1, <1>n, <2>2, <3>1, AtWork DEF Spared, Hands, Inputs
    <3> QED
      BY <1>5, <3>1, <3>2
  <2> QED
    BY <2>1, <2>2
<1>11. \A v \in Workers : ~At(v, "encrypt")'
  BY <1>7 DEF At, Made
<1> QED
  BY <1>0, <1>1, <1>8, <1>9, <1>10, <1>11 DEF Spared

\* A step that leaves the disk as it is, and that puts workers where no file is.
LEMMA QuietKept ==
  ASSUME TypeOK, Hands, Spared, UNCHANGED <<sources, plain, box, tmp, vols, begun>>,
         \A v \in Workers :
           \/ worker'[v].at \in {"idle", "ended", "lock", "resolve", "count"}
           \/ /\ worker'[v] = worker[v] /\ UNCHANGED lock
              /\ batch'.encrypt = batch.encrypt /\ batch'.list = batch.list
              /\ batch'.split = batch.split
  PROVE  Spared'
<1>1. \A v \in Workers : worker'[v].at \in Made \cup {"fail", "dtor", "victims"} =>
        /\ worker'[v] = worker[v] /\ UNCHANGED lock
        /\ batch'.encrypt = batch.encrypt /\ batch'.list = batch.list /\ batch'.split = batch.split
  BY DEF Made
<1>2. \A m : Begun(m)' = Begun(m)
  BY DEF Begun
<1>3. Contents'
  <2>1. Contents
    BY DEF Spared
  <2>2. ASSUME NEW m \in Names, tmp[m] # None, ~tmp[m].whole, NEW v \in Workers,
               worker'[v].item = tmp[m].of
        PROVE  worker'[v].at \notin Made \ {"encrypt"}
    BY <1>1, <2>1, <2>2 DEF Contents
  <2> QED
    BY <1>2, <2>1, <2>2 DEF Contents
<1>4. ASSUME NEW v \in Workers, batch'.encrypt, Busy(v)'
      PROVE  EncryptKnows(v)'
  <2>1. CASE worker'[v].at \notin Made \cup {"fail", "dtor"}
    BY <2>1 DEF EncryptKnows, Made
  <2>2. CASE worker'[v].at \in Made \cup {"fail", "dtor"}
    <3>1. /\ worker'[v] = worker[v] /\ UNCHANGED lock
          /\ batch'.encrypt = batch.encrypt /\ batch'.list = batch.list /\ batch'.split = batch.split
      BY <1>1, <2>2
    <3>2. EncryptKnows(v)
      BY <1>4, <3>1 DEF Spared, Busy
    <3>3. Target(v)' = Target(v) /\ (Sole(v)' <=> Sole(v))
      <4>1. Target(v)' = Target(v)
        BY <3>1 DEF Target
      <4> QED
        BY <3>1, <4>1 DEF Sole, Begun
    <3>4. \A m : Complete(m)' <=> Complete(m)
      BY DEF Complete, Found
    <3> QED
      BY <1>2, <3>1, <3>2, <3>3, <3>4 DEF EncryptKnows, Whole
  <2> QED
    BY <2>1, <2>2
<1>5. \A f : AtDispose(f)' => AtDispose(f)
  BY <1>1 DEF AtDispose, Made
<1>6. ASSUME NEW m \in Names, Begun(m)' # {}
      PROVE  Safe(m)'
  <2>1. Safe(m)
    BY <1>2, <1>6 DEF Spared
  <2>2. Complete(m)' <=> Complete(m)
    BY DEF Complete, Found
  <2> QED
    BY <1>2, <1>5, <2>1, <2>2 DEF Safe, Whole
<1>7. \A u, v \in Workers : At(u, "encrypt")' /\ At(v, "encrypt")' /\ worker'[u].key = worker'[v].key
        => u = v
  BY <1>1 DEF At, Made, Spared
<1>8. \A v \in Workers : At(v, "victims")' => plain'[worker'[v].item] # None
  BY <1>1 DEF At, Spared
<1> QED
  BY <1>3, <1>4, <1>6, <1>7, <1>8 DEF Spared

LEMMA SparedKept ==
  ASSUME TypeOK, Hands, Spared, ~CloseFails, [Next]_vars
  PROVE  Spared'
<1>0. TypeOK' /\ Hands'
  BY Step
<1>1. CASE Begin \/ End \/ Kill
  <2>1. /\ UNCHANGED <<sources, plain, box, tmp, vols, begun>>
        /\ \A v \in Workers : worker'[v].at = "idle"
    <3>1. UNCHANGED <<sources, plain, box, tmp, vols, begun>>
      BY <1>1 DEF Begin, End, Kill, disk
    <3>2. worker' = [w \in Workers |-> IdleWorker]
      BY <1>1, BatchStep
    <3> QED
      BY <3>1, <3>2 DEF IdleWorker
  <2> QED
    BY <2>1, QuietKept
<1>2. ASSUME NEW w \in Workers, Take(w) \/ Count(w)
      PROVE  Spared'
  <2>1. /\ UNCHANGED <<sources, plain, box, tmp, vols, lock, begun>>
        /\ \A v \in Workers \ {w} : worker'[v] = worker[v]
    BY <1>2, TakeStep, CountStep DEF Take, Count, disk
  <2>2. /\ batch'.encrypt = batch.encrypt /\ batch'.list = batch.list
        /\ batch'.split = batch.split
    <3>1. \/ batch' = [batch EXCEPT !.next = @ + 1]
          \/ batch' = [batch EXCEPT !.done = @ + 1]
          \/ batch' = [batch EXCEPT !.failed = @ + 1, !.ok = FALSE]
      BY <1>2 DEF Take, Count
    <3> QED
      BY <3>1 DEF TypeOK, BatchState
  <2>3. worker'[w].at \in {"idle", "ended", "lock", "resolve"}
    <3>1. worker \in [Workers -> Worker] /\ worker[w] \in Worker
      BY DEF TypeOK
    <3>2. CASE worker' = [worker EXCEPT ![w].at = "ended"]
      BY <3>1, <3>2 DEF Worker
    <3>3. CASE worker' = [worker EXCEPT ![w] =
                  [IdleWorker EXCEPT !.at = IF batch.encrypt THEN "lock" ELSE "resolve",
                                     !.item = batch.list[batch.next]]]
      BY <3>1, <3>3 DEF IdleWorker
    <3>4. CASE worker' = [worker EXCEPT ![w] = IdleWorker]
      BY <3>1, <3>4 DEF IdleWorker
    <3> QED
      BY <1>2, <3>2, <3>3, <3>4 DEF Take, Count, Goto
  <2> QED
    BY <2>1, <2>2, <2>3, QuietKept
<1>3. ASSUME NEW w \in Workers, Run(w), ~Take(w), ~Count(w)
      PROVE  Spared'
  <2>1. Busy(w) /\ GoesOn(w)
    BY <1>3, FileStep
  <2>2. Busy(w)' /\ Target(w) \in Names
    BY <2>1, AtWork DEF GoesOn, Busy, EncryptPlaces, DecryptPlaces
  <2>n. PICK n \in Names : n = Target(w)
    BY <2>2
  <2>3. CASE Resolve(w) \/ Decrypt(w) \/ Victim(w)
    BY <1>0, <2>3, DecryptKept
  <2>4. CASE Encrypt(w)
    BY <1>0, <2>n, <2>4, SealKept
  <2>5. CASE ~Encrypt(w) /\ batch.encrypt
    BY <1>0, <1>3, <2>1, <2>2, <2>n, <2>5, OwnSteps, OwnKept
  <2>6. CASE ~batch.encrypt
    <3>1. worker[w].at \in {"count"} \cup DecryptPlaces
      BY <2>1, <2>6, AtWork
    <3> QED
      BY <1>3, <2>3, <3>1 DEF Run, Lock, Encrypt, Verify, Fail, DropTemp, CommitUnlink,
         CommitRename, DisposeSource, Split, Volume, RemoveBase, At, DecryptPlaces
  <2> QED
    BY <2>4, <2>5, <2>6
<1>4. CASE UNCHANGED vars
  <2>1. UNCHANGED <<sources, plain, box, tmp, vols, lock, begun, batch, worker>>
    BY <1>4 DEF vars, disk
  <2> QED
    BY <2>1, QuietKept
<1> QED
  BY <1>1, <1>2, <1>3, <1>4 DEF Next

LEMMA SparedInit == Init => TypeOK /\ Hands /\ Spared
<1> SUFFICES ASSUME Init
             PROVE  TypeOK /\ Hands /\ Spared
  OBVIOUS
<1>1. TypeOK
  BY BatchConstants, NoBatchType, IdleWorkerType DEF Init, TypeOK
<1>2. \A w \in Workers : worker[w] = IdleWorker /\ worker[w].at = "idle"
  BY DEF Init, IdleWorker
<1>3. Hands
  BY <1>2 DEF Init, Hands, NoBatch, Busy, At
<1>4. Contents
  BY DEF Init, Contents
<1>5. \A n \in Names : Begun(n) = {}
  BY DEF Init, Begun
<1> QED
  BY <1>1, <1>2, <1>3, <1>4, <1>5 DEF Spared, Busy, At

LEMMA SparedInvariant == ~CloseFails /\ Spec => [](TypeOK /\ Hands /\ Spared)
<1>1. TypeOK /\ Hands /\ Spared /\ ~CloseFails /\ [Next]_vars => (TypeOK /\ Hands /\ Spared)'
  BY Step, SparedKept
<1>2. CASE ~CloseFails
  BY <1>1, <1>2, SparedInit, PTL DEF Spec
<1> QED
  BY <1>2

\* Unless the end of a volume is lost without anyone noticing, a file is lost at most to
\* another one of the same output name: for any number of files, workers, volumes and
\* batches, and wherever they fail or are killed.
THEOREM NoFileIsLost == ~CloseFails /\ Spec => []NothingLost
<1>1. Spared => NothingLost
  <2> SUFFICES ASSUME Spared, NEW f \in Files, ~Kept(f)
               PROVE  GivenWay(f)
    BY DEF NothingLost
  <2> DEFINE n == Name[f]
  <2>1. n \in Names /\ f \in begun
    BY BatchConstants DEF Spared, Contents, Kept
  <2>2. f \in Begun(n) /\ Safe(n)
    BY <2>1 DEF Begun, Spared
  <2>3. ASSUME NEW g \in Begun(n), Kept(g)
        PROVE  GivenWay(f)
    BY <2>3 DEF Begun, GivenWay
  <2>4. CASE Whole(box[n])
    BY <2>1, <2>3, <2>4 DEF Spared, Contents, Kept, Whole
  <2>5. CASE plain[n] # None
    BY <2>1, <2>3, <2>5 DEF Spared, Contents, Kept
  <2>6. CASE Complete(n)
    <3>1. 1 \in 1..NVols
      BY BatchConstants
    <3>2. vols[n][1] # None
      BY <2>1, <2>6, <3>1, CompleteFacts
    <3> QED
      BY <2>1, <2>3, <2>6, <3>1, <3>2 DEF Spared, Contents, Kept
  <2>7. CASE \E g \in Begun(n) \cap sources : ~AtDispose(g)
    BY <2>3, <2>7 DEF Kept
  <2>8. CASE /\ \E g, h \in Begun(n) : g # h
             /\ \E i \in 1..NVols : vols[n][i] # None
    BY <2>8 DEF Begun, GivenWay
  <2> QED
    BY <2>2, <2>4, <2>5, <2>6, <2>7, <2>8 DEF Safe
<1> QED
  BY <1>1, SparedInvariant, PTL

-----------------------------------------------------------------------------
(***************************************************************************)
(* What a batch that succeeded has delivered.                              *)
(***************************************************************************)
\* A step of a worker on its file leaves what was delivered of another file.
LEMMA DeliveredStays ==
  ASSUME TypeOK, Hands, Spared, TypeOK', Hands', ~CloseFails, NEW w \in Workers,
         Run(w), ~Take(w), ~Count(w), NEW x \in Inputs, x # worker[w].item, Delivered(x)
  PROVE  Delivered(x)'
<1>1. Busy(w) /\ UNCHANGED batch
  BY FileStep DEF GoesOn
<1>n. PICK n \in Names : n = Target(w)
  BY <1>1, AtWork
<1>2. CASE ~batch.encrypt
  <2>1. worker[w].at \in {"count"} \cup DecryptPlaces /\ n = worker[w].item
    BY <1>1, <1>2, <1>n, AtWork DEF Target
  <2>2. Resolve(w) \/ Decrypt(w) \/ Victim(w)
    BY <2>1 DEF Run, Lock, Encrypt, Verify, Fail, DropTemp, CommitUnlink,
       CommitRename, DisposeSource, Split, Volume, RemoveBase, At, DecryptPlaces
  <2>3. /\ plain' = plain \/ \E y : plain' = [plain EXCEPT ![n] = y]
        /\ plain \in [Names -> Files \cup {None}]
    BY <1>n, <2>2 DEF Resolve, Decrypt, Victim, disk, TypeOK
  <2> QED
    BY <1>1, <1>2, <2>1, <2>3 DEF Delivered, Inputs
<1>3. CASE batch.encrypt
  <2>0. PICK m \in Names : m = Name[x]
    BY <1>3, BatchConstants DEF Inputs
  <2>1. CASE \E k \in DOMAIN batch.list : batch.list[k] # x /\ Name[batch.list[k]] = Name[x]
    BY <1>1, <1>3, <2>1 DEF Delivered
  <2>2. CASE m = n
    <3>1. PICK k \in DOMAIN batch.list : batch.list[k] = worker[w].item
      BY <1>1 DEF Hands
    <3>2. Name[batch.list[k]] = Name[x]
      BY <1>3, <1>n, <2>0, <2>2, <3>1 DEF Target
    <3> QED
      BY <2>1, <3>1, <3>2
  <2>3. CASE m # n /\ ~Encrypt(w)
    <3>1. box'[m] = box[m] /\ vols'[m] = vols[m]
      BY <1>3, <1>n, <2>3, OwnSteps DEF OwnName
    <3>2. Complete(m)' <=> Complete(m)
      BY <3>1 DEF Complete, Found
    <3> QED
      BY <1>1, <1>3, <2>0, <3>1, <3>2 DEF Delivered, Whole
  <2>4. CASE Encrypt(w)
    <3>1. Whole(box[m]) => box'[m] = box[m]
      <4>1. box[m] \in Container \cup {None}
        BY DEF TypeOK
      <4>2. box'[m] \in {box[m], Sealed(box[m], worker[w].key)}
        BY <2>4 DEF Encrypt
      <4> QED
        BY <4>1, <4>2, SealedFacts DEF Whole
    <3>2. vols' = vols /\ (Complete(m)' <=> Complete(m))
      BY <2>4 DEF Encrypt, Complete, Found
    <3> QED
      BY <1>1, <1>3, <2>0, <3>1, <3>2 DEF Delivered, Whole
  <2> QED
    BY <2>2, <2>3, <2>4
<1> QED
  BY <1>2, <1>3

\* A file that a worker brings to its end without a failure is delivered.
LEMMA DeliveredAtEnd ==
  ASSUME TypeOK, Hands, Spared, TypeOK', Hands', ~CloseFails, NEW w \in Workers,
         Run(w), ~Take(w), ~Count(w), worker'[w].at = "count", worker'[w].ok,
         NEW x, x = worker[w].item
  PROVE  Delivered(x)'
<1> DEFINE me == worker[w]
<1>1. Busy(w) /\ UNCHANGED batch
  BY FileStep DEF GoesOn
<1>n. PICK n \in Names : n = Target(w)
  BY <1>1, AtWork
<1>2. me \in Worker /\ worker \in [Workers -> Worker] /\ x \in Inputs
  BY <1>1, AtWork DEF TypeOK
<1>3. CASE ~batch.encrypt
  <2>0. n = x /\ me.at \in {"count"} \cup DecryptPlaces
    BY <1>1, <1>3, <1>n, AtWork DEF Target
  <2>1. CASE Resolve(w)
    BY <1>2, <2>1 DEF Resolve, GotoWith, Worker
  <2>2. CASE Decrypt(w)
    <3> DEFINE from == IF me.vol = 0 THEN box[n] ELSE vols[n][1]
    <3> DEFINE opens == IF me.vol = 0 THEN Whole(box[n]) ELSE Complete(n)
    <3>1. opens /\ plain' = [plain EXCEPT ![n] = from.of]
      BY <1>2, <1>n, <2>2 DEF Decrypt, Worker
    <3>2. from \in Container
      <4>1. 1 \in 1..NVols /\ vols[n][1] \in Container \cup {None}
        BY BatchConstants DEF TypeOK
      <4>2. Complete(n) => vols[n][1] # None
        BY <4>1, CompleteFacts
      <4> QED
        BY <3>1, <4>1, <4>2 DEF Whole, TypeOK
    <3>3. from.of # None
      BY <3>2, BatchConstants DEF Container
    <3>4. plain'[n] # None
      BY <3>1, <3>3 DEF TypeOK
    <3> QED
      BY <1>1, <1>3, <2>0, <3>4 DEF Delivered
  <2>3. CASE Victim(w)
    <3>1. plain' = plain /\ plain[x] # None
      BY <2>3 DEF Victim, Spared, At
    <3> QED
      BY <1>1, <1>3, <3>1 DEF Delivered
  <2> QED
    BY <2>0, <2>1, <2>2, <2>3 DEF Run, Lock, Encrypt, Verify, Fail, DropTemp, CommitUnlink,
       CommitRename, DisposeSource, Split, Volume, RemoveBase, At, DecryptPlaces
<1>4. CASE batch.encrypt
  <2>1. CASE \E k \in DOMAIN batch.list : batch.list[k] # x /\ Name[batch.list[k]] = Name[x]
    BY <1>1, <1>4, <2>1 DEF Delivered
  <2>2. CASE ~(\E k \in DOMAIN batch.list : batch.list[k] # x /\ Name[batch.list[k]] = Name[x])
    <3>0. n = Name[x]
      BY <1>4, <1>n DEF Target
    <3>1. Sole(w) /\ EncryptKnows(w)
      BY <1>1, <1>4, <1>n, <2>2, <3>0 DEF Sole, Spared
    <3>2. CASE DisposeSource(w)
      <4>1. Whole(box[n]) /\ box[n].of = x /\ UNCHANGED box
        BY <1>n, <3>1, <3>2 DEF EncryptKnows, DisposeSource, At
      <4>2. ~batch.split
        BY <1>2, <3>2 DEF DisposeSource, Goto, GotoWith, Worker
      <4> QED
        BY <1>1, <1>4, <3>0, <4>1, <4>2 DEF Delivered, Whole
    <3>3. CASE RemoveBase(w)
      <4>1. Complete(n) /\ vols[n][1].of = x /\ batch.split /\ UNCHANGED vols
        BY <1>n, <3>1, <3>3 DEF EncryptKnows, RemoveBase, At
      <4>2. Complete(n)'
        BY <4>1 DEF Complete, Found
      <4> QED
        BY <1>1, <1>4, <3>0, <4>1, <4>2 DEF Delivered
    <3>4. CASE DropTemp(w)
      BY <1>2, <3>1, <3>4 DEF DropTemp, EncryptKnows, At, Goto, Worker
    <3>5. CASE Split(w)
      BY <1>2, <3>5 DEF Split, GotoWith, Worker
    <3>6. CASE Volume(w)
      <4>1. worker' # [worker EXCEPT ![w].at = "count", ![w].ok = FALSE, ![w].read = None, ![w].vol = 0]
        BY <1>2 DEF Worker
      <4>2. worker' = [worker EXCEPT ![w].at = IF me.vol = NVols THEN "removebase" ELSE "volume",
                                     ![w].vol = IF me.vol = NVols THEN 0 ELSE me.vol + 1,
                                     ![w].read = IF me.vol = NVols THEN None ELSE @]
        BY <3>6, <4>1 DEF Volume
      <4> QED
        BY <1>2, <4>2 DEF Worker
    <3>7. ~(Lock(w) \/ Encrypt(w) \/ Verify(w) \/ Fail(w) \/ CommitUnlink(w) \/ CommitRename(w))
      <4>1. ~Encrypt(w)
        BY <1>2 DEF Encrypt, GotoWith, Worker
      <4>2. ~Lock(w)
        BY <1>2 DEF Lock, GotoWith, Worker
      <4> QED
        BY <1>2, <4>1, <4>2 DEF Verify, Fail, CommitUnlink, CommitRename, Goto, GotoWith, Worker
    <3>8. ~(Resolve(w) \/ Decrypt(w) \/ Victim(w))
      BY <1>1, <1>4, AtWork DEF Resolve, Decrypt, Victim, At, EncryptPlaces
    <3> QED
      BY <3>2, <3>3, <3>4, <3>5, <3>6, <3>7, <3>8 DEF Run
  <2> QED
    BY <2>1, <2>2
<1> QED
  BY <1>3, <1>4

LEMMA DeliveringKept ==
  ASSUME TypeOK, Hands, Spared, Delivering, ~CloseFails, [Next]_vars
  PROVE  Delivering'
<1>0. TypeOK' /\ Hands' /\ Spared'
  BY Step, SparedKept
<1>1. CASE Begin
  <2>1. batch'.next = 1 /\ \A w \in Workers : worker'[w].at = "idle"
    <3>1. worker' = [w \in Workers |-> IdleWorker]
      BY <1>1, BatchStep
    <3> QED
      BY <1>1, <3>1 DEF Begin, NoBatch, IdleWorker
  <2>2. batch'.list \in Seq(Files \cup Names)
    BY <1>0 DEF TypeOK, BatchState
  <2>3. \A k \in DOMAIN batch'.list : ~(k < batch'.next)
    BY <2>1, <2>2
  <2> QED
    BY <2>1, <2>3 DEF Delivering, At
<1>2. CASE End \/ Kill
  <2>1. ~batch'.running /\ \A w \in Workers : worker'[w].at = "idle"
    BY <1>2 DEF End, Kill, NoBatch, IdleWorker
  <2> QED
    BY <2>1 DEF Delivering, At
<1>3. ASSUME NEW w \in Workers, Run(w), ~Take(w), ~Count(w)
      PROVE  Delivering'
  <2>1. Busy(w) /\ GoesOn(w) /\ Busy(w)' /\ batch.running
    BY <1>3, FileStep, AtWork DEF GoesOn, Busy, EncryptPlaces, DecryptPlaces
  <2>2. /\ batch' = batch
        /\ \A v \in Workers : worker'[v].item = worker[v].item /\ (Busy(v)' <=> Busy(v))
        /\ \A v \in Workers \ {w} : worker'[v].at = worker[v].at /\ worker'[v].ok = worker[v].ok
    BY <2>1 DEF GoesOn, Others, Busy
  <2>3. ASSUME NEW x \in Inputs, x # worker[w].item, Delivered(x)
        PROVE  Delivered(x)'
    BY <1>0, <1>3, <2>3, DeliveredStays
  <2>4. ASSUME NEW v \in Workers, worker'[v].at = "count", worker'[v].ok,
               NEW x, x = worker[v].item
        PROVE  Delivered(x)'
    <3>1. CASE v = w
      BY <1>0, <1>3, <2>4, <3>1, DeliveredAtEnd
    <3>2. CASE v # w
      <4>1. Busy(v) /\ Delivered(x)
        BY <2>2, <2>4, <3>2 DEF Delivering, At, Busy
      <4>2. x \in Inputs /\ x # worker[w].item
        BY <2>1, <2>4, <3>2, <4>1, AtWork DEF Hands
      <4> QED
        BY <2>3, <4>1, <4>2
    <3> QED
      BY <3>1, <3>2
  <2>5. ASSUME batch.ok, NEW k \in DOMAIN batch.list, k < batch.next,
               NEW x, x = batch.list[k], \A v \in Workers : ~(Busy(v) /\ worker[v].item = x)
        PROVE  Delivered(x)'
    <3>1. x # worker[w].item /\ Delivered(x)
      BY <2>1, <2>5 DEF Delivering
    <3>2. x \in Inputs
      BY <2>1, <2>5 DEF Hands
    <3> QED
      BY <2>3, <3>1, <3>2
  <2>6. \A v \in Workers : At(v, "count")' /\ worker'[v].ok => Delivered(worker[v].item)'
    <3> SUFFICES ASSUME NEW v \in Workers, At(v, "count")', worker'[v].ok
                 PROVE  Delivered(worker[v].item)'
      OBVIOUS
    <3>1. PICK x : x = worker[v].item
      OBVIOUS
    <3>2. Delivered(x)' /\ worker'[v].item = x
      BY <2>2, <2>4, <3>1 DEF At
    <3> QED
      BY <3>2 DEF Delivered
  <2>7. batch'.running /\ batch'.ok =>
          \A k \in DOMAIN batch'.list : k < batch'.next =>
            \/ \E v \in Workers : Busy(v)' /\ worker'[v].item = batch'.list[k]
            \/ Delivered(batch.list[k])'
    <3> SUFFICES ASSUME batch.ok, NEW k \in DOMAIN batch.list, k < batch.next,
                        \A v \in Workers : ~(Busy(v) /\ worker[v].item = batch.list[k])
                 PROVE  Delivered(batch.list[k])'
      BY <2>2
    <3>1. PICK x : x = batch.list[k]
      OBVIOUS
    <3>2. Delivered(x)' /\ batch'.list[k] = x
      BY <2>2, <2>5, <3>1
    <3> QED
      BY <3>2 DEF Delivered
  <2> QED
    BY <2>6, <2>7 DEF Delivering
<1>4. ASSUME NEW w \in Workers, Take(w) \/ Count(w)
      PROVE  Delivering'
  <2>1. /\ UNCHANGED <<plain, box, vols>> /\ batch.running
        /\ \A v \in Workers \ {w} : worker'[v] = worker[v]
    BY <1>4, TakeStep, CountStep DEF Take, Count, disk
  <2>2. /\ batch \in BatchState /\ batch.next \in Nat
        /\ batch'.encrypt = batch.encrypt /\ batch'.list = batch.list
        /\ batch'.split = batch.split /\ batch'.running = batch.running
        /\ batch'.ok => batch.ok
        /\ batch'.next = batch.next \/ (Take(w) /\ batch'.next = batch.next + 1)
    <3>1. \/ Take(w) /\ batch' = [batch EXCEPT !.next = @ + 1]
          \/ batch' = [batch EXCEPT !.done = @ + 1]
          \/ batch' = [batch EXCEPT !.failed = @ + 1, !.ok = FALSE]
      BY <1>4 DEF Take, Count
    <3> QED
      BY <3>1 DEF TypeOK, BatchState
  <2>3. \A x : Delivered(x) => Delivered(x)'
    <3>1. \A m : Complete(m)' <=> Complete(m)
      BY <2>1 DEF Complete, Found
    <3> QED
      BY <2>1, <2>2, <3>1 DEF Delivered, Whole
  <2>4. ~At(w, "count")'
    <3>1. CASE Take(w)
      <4>1. worker \in [Workers -> Worker] /\ worker[w] \in Worker
        BY DEF TypeOK
      <4>2. CASE worker' = [worker EXCEPT ![w].at = "ended"]
        BY <4>1, <4>2 DEF Worker, At
      <4>3. CASE worker' = [worker EXCEPT ![w] =
                    [IdleWorker EXCEPT !.at = IF batch.encrypt THEN "lock" ELSE "resolve",
                                       !.item = batch.list[batch.next]]]
        BY <4>1, <4>3 DEF IdleWorker, At
      <4> QED
        BY <3>1, <4>2, <4>3 DEF Take, Goto
    <3>2. CASE Count(w)
      BY <3>2, CountStep DEF Busy, At
    <3> QED
      BY <1>4, <3>1, <3>2
  <2>5. \A v \in Workers : At(v, "count")' /\ worker'[v].ok => Delivered(worker[v].item)'
    <3> SUFFICES ASSUME NEW v \in Workers, At(v, "count")', worker'[v].ok
                 PROVE  Delivered(worker[v].item)'
      OBVIOUS
    <3>1. PICK x : x = worker[v].item
      OBVIOUS
    <3>2. worker'[v] = worker[v] /\ Delivered(x)
      BY <2>1, <2>4, <3>1 DEF Delivering, At
    <3>3. Delivered(x)' /\ worker'[v].item = x
      BY <2>3, <3>1, <3>2
    <3> QED
      BY <3>3 DEF Delivered
  <2>6. ASSUME batch'.ok, NEW k \in DOMAIN batch.list, k < batch'.next,
               NEW x, x = batch.list[k], \A v \in Workers : ~(Busy(v)' /\ worker'[v].item = x)
        PROVE  Delivered(x)'
    <3>1. CASE k < batch.next
      <4>1. CASE \E v \in Workers : Busy(v) /\ worker[v].item = x
        <5>1. Busy(w) /\ worker[w].item = x
          BY <2>1, <2>6, <4>1 DEF Busy
        <5>2. Count(w) /\ ~Take(w)
          BY <1>4, <5>1, TakeStep
        <5>3. worker[w].ok
          BY <2>2, <2>6, <5>2, CountStep DEF BatchState
        <5> QED
          BY <2>3, <5>1, <5>2, <5>3 DEF Delivering, Count
      <4>2. CASE ~\E v \in Workers : Busy(v) /\ worker[v].item = x
        BY <2>1, <2>2, <2>3, <2>6, <3>1, <4>2 DEF Delivering
      <4> QED
        BY <4>1, <4>2
    <3>2. CASE ~(k < batch.next)
      <4>1. /\ Take(w) /\ k \in 1..Len(batch.list) /\ Len(batch.list) \in Nat
            /\ k < batch.next + 1
        BY <2>1, <2>2, <2>6, <3>2 DEF Hands
      <4>2. k = batch.next /\ batch.next <= Len(batch.list)
        BY <2>2, <3>2, <4>1
      <4>3. Busy(w)' /\ worker'[w].item = x
        <5>1. Busy(w)'
          BY <4>1, <4>2, TakeStep
        <5>2. ~(batch.next > Len(batch.list))
          BY <2>2, <4>1, <4>2
        <5>3. worker' = [worker EXCEPT ![w] =
                    [IdleWorker EXCEPT !.at = IF batch.encrypt THEN "lock" ELSE "resolve",
                                       !.item = batch.list[batch.next]]]
          BY <4>1, <5>2 DEF Take
        <5> QED
          BY <2>6, <4>2, <5>1, <5>3 DEF TypeOK, IdleWorker
      <4> QED
        BY <2>6, <4>3
    <3> QED
      BY <3>1, <3>2
  <2>7. batch'.running /\ batch'.ok =>
          \A k \in DOMAIN batch'.list : k < batch'.next =>
            \/ \E v \in Workers : Busy(v)' /\ worker'[v].item = batch'.list[k]
            \/ Delivered(batch.list[k])'
    <3> SUFFICES ASSUME batch'.ok, NEW k \in DOMAIN batch.list, k < batch'.next,
                        \A v \in Workers : ~(Busy(v)' /\ worker'[v].item = batch.list[k])
                 PROVE  Delivered(batch.list[k])'
      BY <2>2
    <3>1. PICK x : x = batch.list[k]
      OBVIOUS
    <3>2. Delivered(x)' /\ batch'.list[k] = x
      BY <2>2, <2>6, <3>1
    <3> QED
      BY <3>2 DEF Delivered
  <2> QED
    BY <2>5, <2>7 DEF Delivering
<1>6. CASE UNCHANGED vars
  BY <1>6 DEF vars, disk, Delivering, Delivered, At, Busy, Whole, Complete, Found
<1> QED
  BY <1>1, <1>2, <1>3, <1>4, <1>6 DEF Next

\* Unless the end of a volume is lost without anyone noticing, a batch that says it succeeded
\* has delivered the container, the volumes or the plaintext of everything on its list.
THEOREM SuccessIsDelivery == ~CloseFails /\ Spec => []SuccessDelivers
<1>1. Init => Delivering
  BY DEF Init, Delivering, NoBatch, IdleWorker, At
<1>2. TypeOK /\ Hands /\ Spared /\ Delivering /\ ~CloseFails /\ [Next]_vars
        => (TypeOK /\ Hands /\ Spared /\ Delivering)'
  BY Step, SparedKept, DeliveringKept
<1>3. TypeOK /\ Hands /\ Delivering => SuccessDelivers
  <2> SUFFICES ASSUME TypeOK, Hands, Delivering, batch.running,
                      \A w \in Workers : At(w, "ended"), batch.ok, NEW k \in DOMAIN batch.list
               PROVE  Delivered(batch.list[k])
    BY DEF SuccessDelivers, Delivered
  <2>1. batch.next > Len(batch.list) + 1 /\ k \in 1..Len(batch.list) /\ Len(batch.list) \in Nat
    BY BatchConstants DEF Hands
  <2>2. k < batch.next
    BY <2>1 DEF TypeOK, BatchState
  <2>3. \A w \in Workers : ~Busy(w)
    BY DEF At, Busy
  <2> QED
    BY <2>2, <2>3 DEF Delivering
<1>4. CASE ~CloseFails
  BY <1>1, <1>2, <1>3, <1>4, SparedInit, PTL DEF Spec
<1> QED
  BY <1>4
=============================================================================
