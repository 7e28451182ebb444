------------------------- MODULE KdfSemaphoreProofs -------------------------
(***************************************************************************)
(* What holds of the permits for any threads, any budget and any number of *)
(* derivations.                                                            *)
(***************************************************************************)
EXTENDS KdfSemaphore, FiniteSetTheorems, TLAPS

\* Every variable of the semaphore keeps its type, whatever number of threads race for
\* however few permits: in particular fetch_sub never takes the counter below 0, where
\* the wait would never end and the fast path would never be taken again.
THEOREM KdfTypes == Spec => []TypeOK
<1>1. Init => TypeOK
  <2> SUFFICES ASSUME Init PROVE TypeOK
    OBVIOUS
  <2>1. pc \in [Threads -> Places]
    BY DEF Init, Places
  <2>2. mutex \in Threads \cup {NoThread} /\ holders \subseteq Threads
    BY DEF Init
  <2>3. permits \in Nat /\ init \in BOOLEAN
    BY DEF Init
  <2> QED
    BY <2>1, <2>2, <2>3 DEF TypeOK
<1>2. TypeOK /\ [Next]_vars => TypeOK'
  <2> SUFFICES ASSUME TypeOK, [Next]_vars PROVE TypeOK'
    OBVIOUS
  <2> USE DEF TypeOK, Places, Computing, Releasing, Locking, Move, LockMutex
  <2>1. ASSUME NEW t \in Threads, Call(t) \/ Ensure(t) \/ InitLock(t) PROVE TypeOK'
    BY <2>1 DEF Call, Ensure, InitLock
  <2>2. ASSUME NEW t \in Threads, Initialize(t) PROVE TypeOK'
    BY <2>2, KdfConstants DEF Initialize
  <2>3. ASSUME NEW t \in Threads, Load(t) \/ Lock(t) \/ Sleep(t) PROVE TypeOK'
    BY <2>3 DEF Load, Lock, Sleep
  <2>4. ASSUME NEW t \in Threads, Take(t) PROVE TypeOK'
    BY <2>4 DEF Take
  <2>5. ASSUME NEW t \in Threads, Computed(t) \/ WakeSpuriously(t) PROVE TypeOK'
    BY <2>5 DEF Computed, WakeSpuriously
  <2>6. ASSUME NEW t \in Threads, ReleaseLoad(t) \/ Give(t) PROVE TypeOK'
    BY <2>6 DEF ReleaseLoad, Give
  <2>7. ASSUME NEW t \in Threads, Notify(t) PROVE TypeOK'
    BY <2>7 DEF Notify
  <2>8. CASE UNCHANGED vars
    BY <2>8 DEF vars
  <2> QED
    BY <2>1, <2>2, <2>3, <2>4, <2>5, <2>6, <2>7, <2>8 DEF Next, Run
<1> QED
  BY <1>1, <1>2, PTL DEF Spec

-----------------------------------------------------------------------------
(***************************************************************************)
(* How the steps change the set of threads between acquire and release.    *)
(***************************************************************************)
LEMMA Sizes ==
  ASSUME NEW S \in SUBSET Threads, NEW t \in Threads
  PROVE  /\ Cardinality(S) \in Nat
         /\ Cardinality(S) <= Cardinality(Threads)
         /\ Cardinality(Threads) \in Nat
         /\ t \notin S => Cardinality(S \cup {t}) = Cardinality(S) + 1
         /\ t \in S => Cardinality(S \ {t}) = Cardinality(S) - 1
<1>1. IsFiniteSet(Threads) /\ IsFiniteSet(S)
  BY FS_Subset, KdfConstants
<1> QED
  BY <1>1, FS_Subset, FS_CardinalityType, FS_AddElement, FS_RemoveElement

\* The places of a thread that is let through, is about to release or has released.
LEMMA Entering ==
  ASSUME TypeOK, NEW t \in Threads, Move(t, "load", "compute") \/ Move(t, "test", "compute")
  PROVE  t \notin InCall /\ InCall' = InCall \cup {t}
  BY DEF TypeOK, Move, InCall, Computing, Releasing

LEMMA Leaving ==
  ASSUME TypeOK, NEW t \in Threads, Move(t, "release", "idle") \/ Move(t, "add", "notify")
  PROVE  t \in InCall /\ InCall' = InCall \ {t}
  BY DEF TypeOK, Move, InCall, Computing, Releasing

\* The steps that concern neither the permits nor this set.
Aside(t) ==
  \/ Call(t) \/ Ensure(t) \/ InitLock(t) \/ Lock(t) \/ Sleep(t)
  \/ Computed(t) \/ Notify(t) \/ WakeSpuriously(t)

LEMMA Staying ==
  ASSUME TypeOK, NEW t \in Threads, Aside(t)
  PROVE  /\ InCall' = InCall
         /\ UNCHANGED <<permits, init, holders>>
         /\ \A s \in Threads : pc'[s] \notin {"idle", "ensure", "initlock", "initlocked"} =>
              init \/ pc[s] \notin {"idle", "ensure", "initlock", "initlocked"}
<1> USE DEF TypeOK, Move, LockMutex, InCall, Computing, Releasing
<1>1. CASE Call(t) \/ Ensure(t) \/ InitLock(t) \/ Lock(t)
  BY <1>1 DEF Call, Ensure, InitLock, Lock
<1>2. CASE Sleep(t) \/ Computed(t) \/ WakeSpuriously(t)
  BY <1>2 DEF Sleep, Computed, WakeSpuriously
<1>3. CASE Notify(t)
  BY <1>3 DEF Notify
<1> QED
  BY <1>1, <1>2, <1>3 DEF Aside

\* With init unset no thread is in a call, and the steps beyond ensure() are not taken.
LEMMA Initializing ==
  ASSUME TypeOK, CallInv, NEW t \in Threads, Initialize(t)
  PROVE  /\ InCall' = InCall
         /\ ~init => InCall = {} /\ holders = {}
  BY DEF TypeOK, CallInv, Initialize, Move, InCall, Computing, Releasing

LEMMA CallInvStep == TypeOK /\ CallInv /\ [Next]_vars => CallInv'
<1> SUFFICES ASSUME TypeOK, CallInv, [Next]_vars PROVE CallInv'
  OBVIOUS
<1> DEFINE Early == {"idle", "ensure", "initlock", "initlocked"}
<1>0. /\ InCall \in SUBSET Threads /\ permits \in Nat
      /\ Bound \in Nat /\ Cardinality(Threads) <= Bound /\ Cap <= Bound
      /\ Cardinality(InCall) \in Nat
  <2>1. InCall \in SUBSET Threads /\ permits \in Nat
    BY DEF InCall, TypeOK
  <2>2. IsFiniteSet(Threads) /\ IsFiniteSet(InCall)
    BY <2>1, FS_Subset, KdfConstants
  <2> QED
    BY <2>1, <2>2, FS_CardinalityType, KdfConstants DEF Bound
<1>1. ASSUME NEW t \in Threads, Aside(t) PROVE CallInv'
  BY <1>1, Staying DEF CallInv, Bound
<1>2. ASSUME NEW t \in Threads, Initialize(t) PROVE CallInv'
  <2>1. InCall' = InCall /\ (~init => InCall = {} /\ holders = {})
    BY <1>2, Initializing
  <2>2. Cardinality(InCall) = 0 \/ init
    BY <2>1, FS_EmptySet
  <2> QED
    BY <1>0, <1>2, <2>1, <2>2, KdfConstants DEF CallInv, Initialize, Bound
<1>3. ASSUME NEW t \in Threads, Load(t) PROVE CallInv'
  <2>1. CASE permits = 0
    <3>1. t \notin InCall /\ InCall' = InCall \cup {t}
      BY <1>3, <2>1, Entering DEF Load
    <3>2. InCall' \in SUBSET Threads
      BY <3>1, <1>0
    <3>3. Cardinality(InCall') <= Cardinality(Threads) /\ Cardinality(InCall') \in Nat
      BY <3>2, Sizes
    <3>4. init /\ UNCHANGED <<permits, init, holders>>
      BY <1>3 DEF Load, CallInv, Move
    <3> QED
      BY <1>0, <2>1, <3>1, <3>3, <3>4, Sizes DEF CallInv, Bound
  <2>2. CASE permits # 0
    <3>1. Move(t, "load", "lock") /\ UNCHANGED <<permits, init, holders>>
      BY <1>3, <2>2 DEF Load
    <3>2. InCall' = InCall
      BY <3>1 DEF TypeOK, Move, InCall, Computing, Releasing
    <3>3. init
      BY <3>1 DEF CallInv, Move
    <3> QED
      BY <3>1, <3>2, <3>3 DEF CallInv, Bound
  <2> QED
    BY <2>1, <2>2
<1>4. ASSUME NEW t \in Threads, Take(t) PROVE CallInv'
  <2>1. init
    BY <1>4 DEF Take, Move, CallInv
  <2>2. CASE permits > 0 /\ Move(t, "test", "compute") /\ permits' = permits - 1
             /\ holders' = holders \cup {t} /\ init' = init
    <3>1. t \notin InCall /\ InCall' = InCall \cup {t}
      BY <2>2, Entering
    <3>2. Cardinality(InCall') = Cardinality(InCall) + 1
      BY <1>0, <3>1, Sizes
    <3> QED
      BY <1>0, <2>1, <2>2, <3>1, <3>2 DEF CallInv, Bound
  <2>3. CASE Move(t, "test", "block") /\ UNCHANGED <<permits, init, holders>>
    <3>1. InCall' = InCall
      BY <2>3 DEF TypeOK, Move, InCall, Computing, Releasing
    <3> QED
      BY <2>1, <2>3, <3>1 DEF CallInv, Bound
  <2> QED
    BY <1>4, <2>2, <2>3 DEF Take
<1>5. ASSUME NEW t \in Threads, ReleaseLoad(t) PROVE CallInv'
  <2>1. init /\ UNCHANGED <<permits, init>>
    BY <1>5 DEF ReleaseLoad, Move, CallInv
  <2>2. CASE Move(t, "release", "idle") /\ holders' = holders \ {t}
    <3>1. t \in InCall /\ InCall' = InCall \ {t}
      BY <2>2, Leaving
    <3>2. Cardinality(InCall') = Cardinality(InCall) - 1
      BY <1>0, <3>1, Sizes
    <3> QED
      BY <1>0, <2>1, <2>2, <3>1, <3>2 DEF CallInv, Bound
  <2>3. CASE Move(t, "release", "add") /\ UNCHANGED holders
    <3>1. InCall' = InCall
      BY <2>3 DEF TypeOK, Move, InCall, Computing, Releasing
    <3> QED
      BY <2>1, <2>3, <3>1 DEF CallInv, Bound
  <2> QED
    BY <1>5, <2>2, <2>3 DEF ReleaseLoad
<1>6. ASSUME NEW t \in Threads, Give(t) PROVE CallInv'
  <2>1. init /\ UNCHANGED init /\ Move(t, "add", "notify")
        /\ permits' = permits + 1 /\ holders' = holders \ {t}
    BY <1>6 DEF Give, Move, CallInv
  <2>2. t \in InCall /\ InCall' = InCall \ {t}
    BY <2>1, Leaving
  <2>3. Cardinality(InCall') = Cardinality(InCall) - 1
    BY <1>0, <2>2, Sizes
  <2> QED
    BY <1>0, <2>1, <2>2, <2>3 DEF CallInv, Bound
<1>7. CASE UNCHANGED vars
  BY <1>7 DEF vars, CallInv, InCall, Bound
<1> QED
  BY <1>1, <1>2, <1>3, <1>4, <1>5, <1>6, <1>7 DEF Next, Run, Aside

\* The permits in circulation never exceed the larger of the budget and the number of
\* threads, although release() gives permits back that acquire() never took.
THEOREM PermitsStayBounded == Spec => []PermitsBounded
<1>1. Init => CallInv
  <2> SUFFICES ASSUME Init PROVE CallInv
    OBVIOUS
  <2>1. InCall = {}
    BY DEF Init, InCall, Computing, Releasing
  <2>2. Cardinality(InCall) = 0 /\ Cardinality(Threads) \in Nat
    BY <2>1, FS_EmptySet, FS_CardinalityType, KdfConstants
  <2> QED
    BY <2>1, <2>2, KdfConstants DEF Init, CallInv, Bound
<1>2. TypeOK /\ CallInv => PermitsBounded
  <2> SUFFICES ASSUME TypeOK, CallInv PROVE PermitsBounded
    OBVIOUS
  <2>1. IsFiniteSet(Threads) /\ IsFiniteSet(InCall)
    BY FS_Subset, KdfConstants DEF InCall
  <2>2. Cardinality(holders) <= Cardinality(InCall)
        /\ Cardinality(holders) \in Nat /\ Cardinality(InCall) \in Nat
        /\ Cardinality(Threads) \in Nat
    BY <2>1, FS_Subset, FS_CardinalityType DEF CallInv
  <2> QED
    BY <2>2, KdfConstants DEF TypeOK, CallInv, PermitsBounded, Bound
<1> QED
  BY <1>1, <1>2, KdfTypes, CallInvStep, PTL DEF Spec

-----------------------------------------------------------------------------
(***************************************************************************)
(* Fewer threads than permits: the counter never reads 0, so everybody in  *)
(* a call holds a permit.                                                  *)
(***************************************************************************)
FewInv ==
  /\ CallInv
  /\ holders = InCall
  /\ PermitsConserved

LEMMA Available ==
  ASSUME Cardinality(Threads) < Cap, TypeOK, FewInv, init
  PROVE  permits > 0
<1>1. InCall \in SUBSET Threads /\ IsFiniteSet(Threads)
  BY KdfConstants DEF InCall
<1>2. Cardinality(InCall) <= Cardinality(Threads) /\ Cardinality(InCall) \in Nat
      /\ Cardinality(Threads) \in Nat
  BY <1>1, FS_Subset, FS_CardinalityType
<1> QED
  BY <1>2, KdfConstants DEF FewInv, PermitsConserved, TypeOK

LEMMA FewInvStep ==
  ASSUME Cardinality(Threads) < Cap
  PROVE  TypeOK /\ FewInv /\ [Next]_vars => FewInv'
<1> SUFFICES ASSUME TypeOK, FewInv, [Next]_vars PROVE FewInv'
  OBVIOUS
<1>0. /\ CallInv /\ CallInv'
      /\ InCall \in SUBSET Threads /\ permits \in Nat /\ Cardinality(InCall) \in Nat
  <2>1. InCall \in SUBSET Threads /\ IsFiniteSet(InCall)
    BY FS_Subset, KdfConstants DEF InCall
  <2> QED
    BY <2>1, FS_CardinalityType, CallInvStep DEF FewInv, TypeOK
<1>1. ASSUME NEW t \in Threads, Aside(t) PROVE FewInv'
  BY <1>0, <1>1, Staying DEF FewInv, PermitsConserved
<1>2. ASSUME NEW t \in Threads, Initialize(t) PROVE FewInv'
  <2>1. InCall' = InCall /\ (~init => holders = {}) /\ holders' = holders
    BY <1>0, <1>2, Initializing DEF Initialize
  <2>2. ~init => permits' = Cap /\ Cardinality(holders') = 0
    BY <1>2, <2>1, FS_EmptySet DEF Initialize
  <2>3. init => permits' = permits
    BY <1>2 DEF Initialize
  <2> QED
    BY <1>0, <2>1, <2>2, <2>3, KdfConstants DEF FewInv, PermitsConserved
<1>3. ASSUME NEW t \in Threads, Load(t) PROVE FewInv'
  <2>1. init
    BY <1>0, <1>3 DEF Load, Move, CallInv
  <2>2. Move(t, "load", "lock") /\ UNCHANGED <<permits, init, holders>>
    BY <1>3, <2>1, Available DEF Load
  <2>3. InCall' = InCall
    BY <2>2 DEF TypeOK, Move, InCall, Computing, Releasing
  <2> QED
    BY <1>0, <2>2, <2>3 DEF FewInv, PermitsConserved
<1>4. ASSUME NEW t \in Threads, Take(t) PROVE FewInv'
  <2>1. init
    BY <1>0, <1>4 DEF Take, Move, CallInv
  <2>2. Move(t, "test", "compute") /\ permits' = permits - 1
        /\ holders' = holders \cup {t} /\ init' = init
    <3>1. permits > 0
      BY <2>1, Available
    <3> QED
      BY <1>0, <1>4, <3>1 DEF Take
  <2>3. t \notin InCall /\ InCall' = InCall \cup {t}
    BY <2>2, Entering
  <2>4. Cardinality(InCall') = Cardinality(InCall) + 1
    BY <1>0, <2>3, Sizes
  <2> QED
    BY <1>0, <2>1, <2>2, <2>3, <2>4, KdfConstants DEF FewInv, PermitsConserved
<1>5. ASSUME NEW t \in Threads, ReleaseLoad(t) PROVE FewInv'
  <2>1. init
    BY <1>0, <1>5 DEF ReleaseLoad, Move, CallInv
  <2>2. Move(t, "release", "add") /\ UNCHANGED <<permits, init, holders>>
    BY <1>5, <2>1, Available DEF ReleaseLoad
  <2>3. InCall' = InCall
    BY <2>2 DEF TypeOK, Move, InCall, Computing, Releasing
  <2> QED
    BY <1>0, <2>2, <2>3 DEF FewInv, PermitsConserved
<1>6. ASSUME NEW t \in Threads, Give(t) PROVE FewInv'
  <2>1. init /\ UNCHANGED init /\ Move(t, "add", "notify")
        /\ permits' = permits + 1 /\ holders' = holders \ {t}
    BY <1>0, <1>6 DEF Give, Move, CallInv
  <2>2. t \in InCall /\ InCall' = InCall \ {t}
    BY <2>1, Leaving
  <2>3. Cardinality(InCall') = Cardinality(InCall) - 1
    BY <1>0, <2>2, Sizes
  <2> QED
    BY <1>0, <2>1, <2>2, <2>3, KdfConstants DEF FewInv, PermitsConserved
<1>7. CASE UNCHANGED vars
  BY <1>0, <1>7 DEF vars, FewInv, PermitsConserved, InCall
<1> QED
  BY <1>1, <1>2, <1>3, <1>4, <1>5, <1>6, <1>7 DEF Next, Run, Aside

\* With fewer threads than permits no permit is lost or invented.
THEOREM PermitsAreConserved ==
  ASSUME Cardinality(Threads) < Cap
  PROVE  Spec => []PermitsConserved
<1>1. Init => FewInv
  <2> SUFFICES ASSUME Init PROVE FewInv
    OBVIOUS
  <2>1. InCall = {}
    BY DEF Init, InCall, Computing, Releasing
  <2>2. Cardinality(InCall) = 0 /\ Cardinality(Threads) \in Nat
    BY <2>1, FS_EmptySet, FS_CardinalityType, KdfConstants
  <2> QED
    BY <2>1, <2>2, KdfConstants DEF Init, FewInv, CallInv, PermitsConserved, Bound
<1>2. TypeOK /\ FewInv /\ [Next]_vars => FewInv'
  BY FewInvStep
<1>3. FewInv => PermitsConserved
  BY DEF FewInv
<1> QED
  BY <1>1, <1>2, <1>3, KdfTypes, PTL DEF Spec
=============================================================================
