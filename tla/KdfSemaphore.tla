---------------------------- MODULE KdfSemaphore ----------------------------
(***************************************************************************)
(* The process-wide budget of concurrent Argon2 derivations: KdfSemaphore  *)
(* and its use by derive_key, src/CLI/core/kdf.cpp.                        *)
(*                                                                         *)
(* The permits are an atomic counter which is read without the mutex and   *)
(* whose value 0 also means "not limited".  One step of the model is one   *)
(* atomic access or one operation on the mutex or the condition variable.  *)
(***************************************************************************)
EXTENDS FiniteSets, Integers

CONSTANTS
  Threads,   \* the threads that derive keys
  Cap,       \* the budget: max_memory_bytes / 128 MiB, or min(cores, 4)
  NoThread   \* the mutex is free

ASSUME KdfConstants ==
  /\ IsFiniteSet(Threads)
  /\ NoThread \notin Threads
  /\ Cap \in Nat \ {0}

VARIABLES
  permits,   \* std::atomic<long> permits
  init,      \* std::atomic<bool> init
  mutex,     \* the thread that holds mtx
  pc,        \* where each thread is
  holders    \* history: the threads that have taken a permit and not given it up

vars == <<permits, init, mutex, pc, holders>>

\* The places in crypto_pwhash and in release(), the ones that hold mtx, and the rest.
Computing == {"compute"}
Releasing == {"release", "add"}
Locking == {"initlocked", "test", "block"}
Places ==
  Computing \cup Releasing \cup Locking
    \cup {"idle", "ensure", "initlock", "load", "lock", "asleep", "woken", "notify"}

TypeOK ==
  /\ permits \in Nat
  /\ init \in BOOLEAN
  /\ mutex \in Threads \cup {NoThread}
  /\ pc \in [Threads -> Places]
  /\ holders \subseteq Threads

Init ==
  /\ permits = 0
  /\ init = FALSE
  /\ mutex = NoThread
  /\ pc = [t \in Threads |-> "idle"]
  /\ holders = {}

Move(t, from, to) == pc[t] = from /\ pc' = [pc EXCEPT ![t] = to]
LockMutex(t) == mutex = NoThread /\ mutex' = t

\* derive_key is called with parameters in range (others are rejected untouched).
Call(t) ==
  /\ Move(t, "idle", "ensure")
  /\ UNCHANGED <<permits, init, mutex, holders>>

\* ensure(): the lock-free fast path.
Ensure(t) ==
  /\ Move(t, "ensure", IF init THEN "load" ELSE "initlock")
  /\ UNCHANGED <<permits, init, mutex, holders>>

InitLock(t) ==
  /\ Move(t, "initlock", "initlocked")
  /\ LockMutex(t)
  /\ UNCHANGED <<permits, init, holders>>

\* Mutant: the flag is not checked again under the mutex.
InitializeAgain(t) ==
  /\ Move(t, "initlocked", "load")
  /\ permits' = Cap
  /\ init' = TRUE
  /\ mutex' = NoThread
  /\ UNCHANGED holders

\* The second check, and the initialisation, under the mutex.
Initialize(t) ==
  /\ Move(t, "initlocked", "load")
  /\ permits' = IF init THEN permits ELSE Cap
  /\ init' = TRUE
  /\ mutex' = NoThread
  /\ UNCHANGED holders

\* acquire(): no permits, no limit.
Load(t) ==
  /\ Move(t, "load", IF permits = 0 THEN "compute" ELSE "lock")
  /\ UNCHANGED <<permits, init, mutex, holders>>

Lock(t) ==
  /\ Move(t, "lock", "test") \/ Move(t, "woken", "test")
  /\ LockMutex(t)
  /\ UNCHANGED <<permits, init, holders>>

\* Mutant: the permit is not taken.
TakeNothing(t) ==
  \/ /\ Move(t, "test", "compute")
     /\ permits > 0
     /\ holders' = holders \cup {t}
     /\ mutex' = NoThread
     /\ UNCHANGED <<permits, init>>
  \/ /\ Move(t, "test", "block")
     /\ permits = 0
     /\ UNCHANGED <<permits, init, mutex, holders>>

\* Mutant: the predicate of the wait is evaluated too generously.
TakeUnchecked(t) ==
  /\ Move(t, "test", "compute")
  /\ permits' = permits - 1
  /\ holders' = holders \cup {t}
  /\ mutex' = NoThread
  /\ UNCHANGED init

\* The predicate of cv.wait, and fetch_sub when it holds.
Take(t) ==
  \/ /\ Move(t, "test", "compute")
     /\ permits > 0
     /\ permits' = permits - 1
     /\ holders' = holders \cup {t}
     /\ mutex' = NoThread
     /\ UNCHANGED init
  \/ /\ Move(t, "test", "block")
     /\ permits = 0
     /\ UNCHANGED <<permits, init, mutex, holders>>

\* cv.wait gives the mutex up and sleeps, in one step.
Sleep(t) ==
  /\ Move(t, "block", "asleep")
  /\ mutex' = NoThread
  /\ UNCHANGED <<permits, init, holders>>

\* crypto_pwhash returns, successfully or not.
Computed(t) ==
  /\ Move(t, "compute", "release")
  /\ UNCHANGED <<permits, init, mutex, holders>>

\* release(): no permits, no limit, nothing to give back.
ReleaseLoad(t) ==
  /\ IF permits = 0
       THEN Move(t, "release", "idle") /\ holders' = holders \ {t}
       ELSE Move(t, "release", "add") /\ UNCHANGED holders
  /\ UNCHANGED <<permits, init, mutex>>

\* Mutant: a permit is never given back.
GiveNone(t) ==
  /\ Move(t, "add", "notify")
  /\ holders' = holders \ {t}
  /\ UNCHANGED <<permits, init, mutex>>

Give(t) ==
  /\ Move(t, "add", "notify")
  /\ permits' = permits + 1
  /\ holders' = holders \ {t}
  /\ UNCHANGED <<init, mutex>>

\* notify_one, without the mutex: one sleeper, if there is one.
Notify(t) ==
  /\ pc[t] = "notify"
  /\ LET sleepers == {s \in Threads : pc[s] = "asleep"} IN
       \/ /\ sleepers = {}
          /\ pc' = [pc EXCEPT ![t] = "idle"]
       \/ \E s \in sleepers : pc' = [pc EXCEPT ![t] = "idle", ![s] = "woken"]
  /\ UNCHANGED <<permits, init, mutex, holders>>

\* A condition variable may wake up by itself.
WakeSpuriously(t) ==
  /\ Move(t, "asleep", "woken")
  /\ UNCHANGED <<permits, init, mutex, holders>>

\* What a call of derive_key does by itself.
Run(t) ==
  \/ Ensure(t) \/ InitLock(t) \/ Initialize(t)
  \/ Load(t) \/ Lock(t) \/ Take(t) \/ Sleep(t)
  \/ Computed(t) \/ ReleaseLoad(t) \/ Give(t) \/ Notify(t)

Next == \E t \in Threads : Call(t) \/ Run(t) \/ WakeSpuriously(t)

Spec == Init /\ [][Next]_vars

\* Every thread is scheduled, and a mutex it keeps asking for comes to it.
FairSpec == Spec /\ \A t \in Threads : WF_vars(Run(t)) /\ SF_vars(InitLock(t) \/ Lock(t))

-----------------------------------------------------------------------------
(***************************************************************************)
(* Properties.                                                             *)
(***************************************************************************)
\* Permits are neither lost nor invented: every permit is free or held by one thread.
\* That is what fetch_sub and fetch_add are for; it takes fewer threads than permits,
\* so that the counter never reads 0, which acquire and release take for "not limited".
PermitsConserved == init => permits + Cardinality(holders) = Cap

\* With more threads, permits are lost and threads that never took one give one back.
\* Still their number stays within the larger of budget and threads: no sequence of
\* calls, however long, drives the counter up.
Bound == IF Cap >= Cardinality(Threads) THEN Cap ELSE Cardinality(Threads)

PermitsBounded == permits + Cardinality(holders) <= Bound

\* The threads between acquire() and the end of release().
InCall == {t \in Threads : pc[t] \in Computing \cup Releasing}

\* Why PermitsBounded holds: a thread without a permit is let through only while no
\* permit is free, and can give at most one back.
CallInv ==
  /\ \A t \in Threads : pc[t] \notin {"idle", "ensure", "initlock", "initlocked"} => init
  /\ holders \subseteq InCall
  /\ permits + Cardinality(InCall) <= Bound

\* Every call of derive_key returns.
CallReturns == \A t \in Threads : pc[t] = "ensure" ~> pc[t] = "idle"
=============================================================================
