-------------------------------- MODULE VDisk --------------------------------
(***************************************************************************)
(* A vault mounted as a drive by the service of src/FE-Mounter: the handle *)
(* of src/CLI/core/vdisk_abi.cpp, which keeps the passphrase, the index    *)
(* and two caches in memory, and the threads that call it: the dispatcher  *)
(* of the file system, the control pipe and the watchdog that locks an     *)
(* idle drive.                                                             *)
(*                                                                         *)
(* Every call holds the mutex of the handle from beginning to end, so a    *)
(* call is one step; a kill, or a failure, can still come in the middle of *)
(* what it writes.  A thread that makes two calls, or a call and a write   *)
(* of g_ipc_unlocked, takes two steps.                                     *)
(***************************************************************************)
EXTENDS Integers, FiniteSets, Sequences, SequencesExt

CONSTANTS
  Files,      \* virtual paths
  Stores,     \* random container names
  At,         \* the one each file was put into by --into-vault
  Passwords,  \* what is typed into an unlock request
  Owner,      \* the password the vault was made with
  MaxLen,     \* bound on the 64 KB segments of a file
  MaxWrites,  \* bound on the containers written
  MaxFaults,  \* bound on kills and failing operations
  CacheCap,   \* cap_bytes of the read cache, in segments
  Ahead,      \* its ahead_segments
  IdleTimeout,\* the service was started with --idle-timeout
  None, Wiped, Torn

ASSUME VDiskConstants ==
  /\ MaxLen \in Nat \ {0} /\ MaxWrites \in Nat /\ MaxFaults \in Nat
  /\ CacheCap \in Nat \ {0} /\ Ahead \in Nat /\ IdleTimeout \in BOOLEAN
  /\ Owner \in Passwords /\ Files # {} /\ Stores # {}
  /\ At \in [Files -> Stores] /\ IsInjective(At)
  /\ None \notin Files \cup Stores \cup Passwords /\ Wiped # None

VARIABLES
  boxes,    \* the container under each name; Wiped once it was overwritten or removed
  saved,    \* .feindex, sealed with a key made from Owner, or Torn: cut short and sealed no more
  mirror,   \* the index text vault_index.cpp keeps in memory, or None
  ikey,     \* the password g_ikm_key was derived from, or None
  h,        \* the handle
  unlocked, \* g_ipc_unlocked, what a status request is told
  svc, ipc, dog, \* where wf_SvcStart, the control pipe and the watchdog are
  reply,    \* what the last call returned to a reader or to an unlock request
  kept,     \* history: per container, the content of the last acknowledged call
  cut,      \* history: the containers made of a plaintext that was written short
  written, faults

store == <<boxes, saved, mirror, ikey, kept, cut, written>>
threads == <<svc, ipc, dog, unlocked>>
vars == <<store, h, threads, reply, faults>>

\* encrypt_file records the name of its input, which is <store>.ptd.plain.tmp.
TempName(s) == <<"plain.tmp", s>>
Stem(s) == <<"stem", s>>
Names == Files \cup {TempName(s) : s \in Stores} \cup {Stem(s) : s \in Stores}

\* A segment is told by the number of the container it was first written into.
Segments == 0..MaxWrites
Contents == UNION {[1..n -> Segments] : n \in 0..MaxLen}
Box == [data : Contents, pw : Passwords, salt : Segments, name : Names]
Entry == [store : Stores, size : 0..MaxLen]
Index == [Names -> Entry \cup {None}]
EmptyIndex == [n \in Names |-> None]
Kek == [pw : Passwords, salt : Segments]
Keys == Names \X (1..MaxLen)

NoKeks == [s \in Stores |-> None]
NoSegs == [k \in Keys |-> None]

Handle ==
  [unlocked : BOOLEAN, passphrase : Passwords \cup {None}, index : Index,
   rw : BOOLEAN,
   keks : [Stores -> Kek \cup {None}],       \* kek_cache
   segs : [Keys -> Contents \cup {None}],    \* seg_cache: no, one or none of the segments
   lru : Seq(Keys), bytes : Nat,             \* seg_lru, seg_bytes in segments
   cache : BOOLEAN,                          \* cache_on
   timeout : BOOLEAN,                        \* idle_timeout_s > 0
   expired : BOOLEAN]                        \* that long since last_activity_ms

\* What vdisk_lock leaves: cleared passphrase, index and caches.
Closed(g) ==
  [g EXCEPT !.unlocked = FALSE, !.passphrase = None, !.index = EmptyIndex,
            !.keks = NoKeks, !.segs = NoSegs, !.lru = <<>>, !.bytes = 0]

\* vdisk_open.
Opened ==
  [unlocked |-> FALSE, passphrase |-> None, index |-> EmptyIndex, rw |-> FALSE,
   keks |-> NoKeks, segs |-> NoSegs, lru |-> <<>>, bytes |-> 0,
   cache |-> FALSE, timeout |-> IdleTimeout, expired |-> FALSE]

IsBox(b) == b \notin {None, Wiped}

\* A random name is not that of a file; the markers are not values.
ASSUME NamesApart ==
  \A s \in Stores : TempName(s) \notin Files /\ Stem(s) \notin Files

ASSUME Markers ==
  /\ None \notin Box /\ Wiped \notin Box /\ None \notin Entry /\ None \notin Contents
  /\ None \notin Kek /\ Torn \notin Index

\* Handle and Index are large sets: their members are told by their fields.
TypeOK ==
  /\ \A s \in Stores : IsBox(boxes[s]) => boxes[s] \in Box
  /\ \A n \in Names : /\ h.index[n] \in Entry \cup {None}
                       /\ saved # Torn => saved[n] \in Entry \cup {None}
  /\ mirror # None => /\ mirror.dirty \in BOOLEAN
                      /\ \A n \in Names : mirror.text[n] \in Entry \cup {None}
  /\ ikey \in Passwords \cup {None}
  /\ {h.unlocked, h.rw, h.cache, h.timeout, h.expired, unlocked} \subseteq BOOLEAN
  /\ h.passphrase \in Passwords \cup {None}
  /\ h.keks \in [Stores -> Kek \cup {None}]
  /\ \A k \in Keys : h.segs[k] \in Contents \cup {None}
  /\ h.lru \in Seq(Keys) /\ IsInjective(h.lru)
  /\ h.bytes \in 0..CacheCap
  /\ svc \in {"opened", "starting", "running"} /\ ipc \in {"idle", "set", "clear"}
  /\ dog \in {"flag", "idle", "lock", "clear"}
  /\ \A s \in Stores : kept[s] \in Contents \cup {None}
  /\ cut \subseteq Stores
  /\ written \in 0..MaxWrites /\ faults \in 0..MaxFaults

Silent == [call |-> "other", ok |-> TRUE, store |-> None, at |-> 0, got |-> <<>>, pw |-> None]

\* Every file was put into the vault by --into-vault, in a container of one segment.
Init ==
  /\ LET full == {At[f] : f \in Files}
         fileAt(s) == CHOOSE f \in Files : At[f] = s IN
       /\ boxes = [s \in Stores |->
            IF s \in full
              THEN [data |-> <<0>>, pw |-> Owner, salt |-> 0, name |-> fileAt(s)]
              ELSE None]
       /\ kept = [s \in Stores |-> IF s \in full THEN <<0>> ELSE None]
  /\ saved = [n \in Names |->
       IF n \in Files THEN [store |-> At[n], size |-> 1] ELSE None]
  /\ mirror = None /\ ikey = None
  /\ h = Opened /\ unlocked = FALSE
  /\ svc = "opened" /\ ipc = "idle" /\ dog = "flag"
  /\ reply = Silent /\ cut = {} /\ written = 0 /\ faults = 0

Fault == faults < MaxFaults /\ faults' = faults + 1

-----------------------------------------------------------------------------
(***************************************************************************)
(* Locking and unlocking.                                                  *)
(***************************************************************************)
\* vault_flush_index: an index change that could not be written is tried once more.  On a
\* full disk write_file_atomic leaves what it had, or puts a short file in its place.
Flush ==
  \/ saved' = (IF mirror # None /\ mirror.dirty THEN mirror.text ELSE saved)
     /\ UNCHANGED faults
  \/ mirror # None /\ mirror.dirty /\ Fault /\ saved' \in {saved, Torn}

\* Mutant: the read cache outlives the lock.
LockKeepsSegments ==
  /\ Flush
  /\ h' = [Closed(h) EXCEPT !.segs = h.segs, !.lru = h.lru, !.bytes = h.bytes]
  /\ mirror' = None /\ ikey' = None
  /\ reply' = Silent
  /\ UNCHANGED <<boxes, kept, cut, written>>

\* do_lock.
DoLock ==
  /\ Flush
  /\ h' = Closed(h)
  /\ mirror' = None /\ ikey' = None
  /\ reply' = Silent
  /\ UNCHANGED <<boxes, kept, cut, written>>

\* index_key_cached: a key derived for the salt of this vault is used again, whatever
\* the password.
KeyFor(pw) == IF ikey = None THEN pw ELSE ikey

\* vdisk_unlock, with a password or with the recovery code, which stands for Owner.  An
\* index that was cut short opens with no password; no key is made when its head is gone.
Unlock(pw) ==
  LET opens == KeyFor(pw) = Owner /\ saved # Torn IN
  /\ ikey' \in {KeyFor(pw)} \cup (IF saved = Torn THEN {ikey} ELSE {})
  /\ h' = IF opens
            THEN [h EXCEPT !.unlocked = TRUE, !.passphrase = pw, !.index = saved,
                           !.expired = FALSE]
            ELSE h
  /\ reply' = [Silent EXCEPT !.call = "unlock", !.ok = opens, !.pw = pw]
  /\ UNCHANGED <<boxes, saved, mirror, kept, cut, written, faults>>

\* The process ends without a word: memory is gone, what is on the disk stays.
Restarted ==
  /\ h' = Opened /\ mirror' = None /\ ikey' = None
  /\ svc' = "opened" /\ ipc' = "idle" /\ dog' = "flag" /\ unlocked' = FALSE
  /\ reply' = Silent

Kill ==
  /\ Fault /\ Restarted
  /\ UNCHANGED <<boxes, saved, kept, cut, written>>

\* wf_SvcStop: unmounted and closed, and started again later.
Stop ==
  /\ svc = "running"
  /\ Flush /\ Restarted
  /\ UNCHANGED <<boxes, kept, cut, written>>

\* wf_SvcStart with the password on its command line (when that does not unlock, it ends),
\* or without one; then it starts the two other threads.
Start ==
  /\ svc = "opened" /\ svc' = "starting"
  /\ \/ Unlock(Owner) /\ reply'.ok /\ unlocked' = TRUE
     \/ UNCHANGED <<store, h, unlocked, reply, faults>>
  /\ UNCHANGED <<ipc, dog>>

\* vdisk_mount_rw, which refuses a locked handle; nobody looks at its result.
Mount ==
  /\ svc = "starting" /\ svc' = "running"
  /\ h' = [h EXCEPT !.rw = h.unlocked]
  /\ reply' = Silent
  /\ UNCHANGED <<store, ipc, dog, unlocked, faults>>

-----------------------------------------------------------------------------
(***************************************************************************)
(* The control pipe and the watchdog.  Each calls the handle and then sets *)
(* the flag.                                                               *)
(***************************************************************************)
Listening == svc # "opened" /\ ipc = "idle"

IpcUnlock ==
  /\ Listening
  /\ \E pw \in Passwords : Unlock(pw)
  /\ ipc' = IF reply'.ok THEN "set" ELSE "idle"
  /\ UNCHANGED <<svc, dog, unlocked>>

IpcLock ==
  /\ Listening /\ ipc' = "clear"
  /\ DoLock
  /\ UNCHANGED <<svc, dog, unlocked>>

IpcFlag ==
  /\ ipc # "idle" /\ ipc' = "idle"
  /\ unlocked' = (ipc = "set")
  /\ reply' = Silent /\ UNCHANGED <<store, h, svc, dog, faults>>

\* The request "idle SEC": vdisk_set_idle_timeout starts the count again.
IpcIdle ==
  /\ Listening
  /\ \E on \in BOOLEAN : h' = [h EXCEPT !.timeout = on, !.expired = FALSE]
  /\ reply' = Silent
  /\ UNCHANGED <<store, threads, faults>>

\* The request "cache BYTES AHEAD": 0 turns the cache off and empties it.
IpcCache ==
  /\ Listening
  /\ h' = IF h.cache
            THEN [h EXCEPT !.cache = FALSE, !.segs = NoSegs, !.lru = <<>>, !.bytes = 0]
            ELSE [h EXCEPT !.cache = TRUE]
  /\ reply' = Silent
  /\ UNCHANGED <<store, threads, faults>>

\* The time-out passes without a call that counts as activity.
Expire ==
  /\ h.unlocked /\ h.timeout /\ ~h.expired
  /\ h' = [h EXCEPT !.expired = TRUE]
  /\ reply' = Silent /\ UNCHANGED <<store, threads, faults>>

WatchFlag ==
  /\ IdleTimeout /\ svc # "opened"
  /\ dog = "flag" /\ unlocked /\ dog' = "idle"
  /\ reply' = Silent /\ UNCHANGED <<store, h, svc, ipc, unlocked, faults>>

\* vdisk_idle_remaining is 0.
IdleIsOver == h.timeout /\ h.unlocked /\ h.expired

\* Mutant: a handle that never times out is asked for instead.
WatchIdleOff ==
  /\ dog = "idle"
  /\ dog' = IF ~h.timeout THEN "lock" ELSE "flag"
  /\ reply' = Silent /\ UNCHANGED <<store, h, svc, ipc, unlocked, faults>>

WatchIdle ==
  /\ dog = "idle"
  /\ dog' = IF IdleIsOver THEN "lock" ELSE "flag"
  /\ reply' = Silent /\ UNCHANGED <<store, h, svc, ipc, unlocked, faults>>

WatchLock ==
  /\ dog = "lock" /\ dog' = "clear"
  /\ DoLock
  /\ UNCHANGED <<svc, ipc, unlocked>>

WatchClear ==
  /\ dog = "clear" /\ dog' = "flag" /\ unlocked' = FALSE
  /\ reply' = Silent /\ UNCHANGED <<store, h, svc, ipc, faults>>

Watch == WatchFlag \/ WatchIdle \/ WatchLock \/ WatchClear

-----------------------------------------------------------------------------
(***************************************************************************)
(* Calls of the dispatcher: one vdisk_* call each.                         *)
(***************************************************************************)
\* Any call but reindex on a handle that has been idle for too long locks it instead.
LateCall ==
  /\ svc = "running" /\ IdleIsOver
  /\ DoLock
  /\ UNCHANGED threads

\* touch_activity lets the call through; reading starts the idle time again, and so does
\* what changes a file, where vdisk_mount_rw has allowed that.
Reading == svc = "running" /\ h.unlocked /\ ~IdleIsOver
Changing == Reading /\ h.rw

\* get_kek: the cached key of a container, or the one its header gives now.
KekOf(s) ==
  IF h.keks[s] # None THEN h.keks[s]
  ELSE IF IsBox(boxes[s]) THEN [pw |-> h.passphrase, salt |-> boxes[s].salt]
  ELSE None

\* random_read_ptd of one segment: past the end of the file no key is needed.
Opens(b, kek, i) ==
  IsBox(b) /\ (i > Len(b.data) \/ kek = [pw |-> b.pw, salt |-> b.salt])
Segment(b, i) == IF i <= Len(b.data) THEN <<b.data[i]>> ELSE <<>>

-----------------------------------------------------------------------------
\* The read cache: the fields segs, lru and bytes of the handle.
CacheOf(g) == [segs |-> g.segs, lru |-> g.lru, bytes |-> g.bytes]
WithCache(g, c) == [g EXCEPT !.segs = c.segs, !.lru = c.lru, !.bytes = c.bytes]

Size(v) == IF v = None THEN 0 ELSE Len(v)

\* The list with a key moved, or put, to its front: no key is in it twice.
ToFront(lru, key) ==
  LET at == {p \in 1..Len(lru) : lru[p] = key} IN
    <<key>> \o (IF at = {} THEN lru ELSE RemoveAt(lru, CHOOSE p \in at : TRUE))

\* Mutant: nothing ever leaves.
PutUnbounded(c, key, v) ==
  [c EXCEPT !.segs[key] = v, !.lru = ToFront(@, key),
            !.bytes = c.bytes - Size(c.segs[key]) + Len(v)]

\* The last m of the list, and how many of those still have something in the cache.
Oldest(lru, m) == {lru[i] : i \in (Len(lru) - m + 1)..Len(lru)}
Freed(c, m) == Cardinality({k \in Oldest(c.lru, m) : Size(c.segs[k]) = 1})

\* The oldest segments leave until the count fits.
Evicted(c) ==
  LET enough == {m \in 0..Len(c.lru) : c.bytes - Freed(c, m) <= CacheCap}
      gone == IF enough = {} THEN Len(c.lru) ELSE CHOOSE m \in enough : \A n \in enough : m <= n
  IN [segs  |-> [k \in Keys |-> IF k \in Oldest(c.lru, gone) THEN None ELSE c.segs[k]],
      lru   |-> SubSeq(c.lru, 1, Len(c.lru) - gone),
      bytes |-> c.bytes - Freed(c, gone)]

\* seg_put.
Put(c, key, v) ==
  Evicted([segs  |-> [c.segs EXCEPT ![key] = v],
           lru   |-> ToFront(c.lru, key),
           bytes |-> c.bytes - Size(c.segs[key]) + Len(v)])

\* seg_get.
Touched(c, key) ==
  IF c.segs[key] = None THEN c ELSE [c EXCEPT !.lru = ToFront(@, key)]

\* The segment, from the cache or through it; None when it has not stayed there.
Through(c, n, i, b) ==
  LET full == IF c.segs[<<n, i>>] = None THEN Put(c, <<n, i>>, Segment(b, i)) ELSE c
  IN Touched(full, <<n, i>>)

\* One segment read ahead: silently left out when it lies past the end or does not open.
Fetched(c, n, i, b, kek) ==
  IF <<n, i>> \in Keys /\ c.segs[<<n, i>>] # None THEN Touched(c, <<n, i>>)
  ELSE IF Opens(b, kek, i) /\ i <= Len(b.data) THEN Put(c, <<n, i>>, Segment(b, i))
  ELSE c

\* The segments behind segment i, one after the other.
ReadAhead(c, n, i, b, kek) ==
  LET after[j \in 0..Ahead] == IF j = 0 THEN c ELSE Fetched(after[j - 1], n, i + j, b, kek)
  IN after[Ahead]

\* Mutant: the segments of a file that was written are left where they are.
InvalidatedKeksOnly(g, n, s) == [g EXCEPT !.keks[s] = None]

\* invalidate_ptd_caches: the segments go, seg_lru and seg_bytes stay as they are.
Invalidated(g, n, s) ==
  [g EXCEPT !.keks[s] = None,
            !.segs = [k \in Keys |-> IF k[1] = n THEN None ELSE g.segs[k]]]

-----------------------------------------------------------------------------
\* vdisk_read_file of one segment; a longer read repeats it until a segment is short.
Read(n, i) ==
  LET e == h.index[n]
      b == boxes[e.store]
      fresh == [h EXCEPT !.expired = FALSE]
      keyed == [fresh EXCEPT !.keks[e.store] = KekOf(e.store)]
      answer(got) == [Silent EXCEPT !.call = "read", !.store = e.store, !.at = i, !.got = got]
      cached == h.cache /\ h.segs[<<n, i>>] # None
      opens == Opens(b, KekOf(e.store), i)
  IN
  /\ Reading /\ e # None
  /\ \/ i > e.size /\ h' = fresh /\ reply' = answer(<<>>)
     \/ i <= e.size /\ ~opens /\ ~cached /\ h' = keyed /\ reply' = Silent    \* VDISK_E_IO
     \/ i <= e.size /\ opens /\ ~h.cache /\ h' = keyed /\ reply' = answer(Segment(b, i))
     \/ /\ i <= e.size /\ h.cache /\ (cached \/ opens)
        /\ LET c == Through(CacheOf(h), n, i, b)
               got == c.segs[<<n, i>>] IN
             /\ h' = WithCache(keyed, ReadAhead(c, n, i, b, KekOf(e.store)))
             /\ reply' = answer(IF got = None THEN <<>> ELSE got)
  /\ UNCHANGED <<store, threads, faults>>

-----------------------------------------------------------------------------
\* The index the next change starts from: mirror_load_locked, which needs one that opens.
Loads == mirror # None \/ saved # Torn
MirrorText == IF mirror = None THEN saved ELSE mirror.text

\* Mutant: the index is written when the drive is locked, as it once was after 200 ms.
ListedLater(text) == mirror' = [text |-> text, dirty |-> TRUE] /\ UNCHANGED saved

\* vault_upsert_entry and vault_remove_entry: the mirror is changed and written at once.
\* That can fail, and the change stays in the mirror, or come up short without being noticed.
Listed(text) == Loads /\ saved' = text /\ mirror' = [text |-> text, dirty |-> FALSE]
ListedShort(text) == Loads /\ saved' = Torn /\ mirror' = [text |-> text, dirty |-> FALSE]
ListedInMemory(text) ==
  Loads /\ mirror' = [text |-> text, dirty |-> TRUE] /\ UNCHANGED saved
Unlisted == ~Loads /\ UNCHANGED <<saved, mirror>>

\* A new container in the place of store s: rewrite_ptd once replace_file_atomic is done.
\* It is made of as much of the plaintext as has reached the disk: nobody looks whether
\* that was all.
Replaced(s, data) ==
  /\ written < MaxWrites /\ written' = written + 1
  /\ boxes' = [boxes EXCEPT ![s] = [data |-> data, pw |-> h.passphrase,
                                    salt |-> written + 1, name |-> TempName(s)]]

\* What the caller is told, and what it may rely on from then on, when the first m segments
\* of the data are in the container.
Short(s, data, m) == IF m < Len(data) THEN {s} ELSE {}
Acknowledged(s, data, m) ==
  /\ kept' = [kept EXCEPT ![s] = data] /\ cut' = (cut \ {s}) \cup Short(s, data, m)
  /\ reply' = Silent
Failed(s, data, m, owed) ==
  /\ kept' = [kept EXCEPT ![s] = owed] /\ cut' = cut \cup Short(s, data, m)
  /\ reply' = Silent

\* The ways a rewritten file n of store s can end, g being the handle that has taken note
\* and owed what can still be relied on unless it is done.  Without a fault it is done, but
\* for an index that cannot be loaded.  With one, the container is not replaced; or it has
\* all of the data or less, and the index is written, written short, or not written, the
\* plaintext beside the container not removed, or the process killed.
Rewritten(n, s, data, g, owed) ==
  LET e == [store |-> s, size |-> Len(data)]
      text == [MirrorText EXCEPT ![n] = e]
      fresh == [h EXCEPT !.expired = FALSE]
      noted == IF h.index[n] = None THEN g ELSE [g EXCEPT !.index[n] = e] IN
  \/ /\ Replaced(s, data) /\ UNCHANGED <<ikey, threads, faults>>
     /\ \/ Listed(text) /\ Acknowledged(s, data, Len(data)) /\ h' = [g EXCEPT !.index[n] = e]
        \/ Unlisted /\ Failed(s, data, Len(data), owed) /\ h' = noted
  \/ /\ Fault /\ h' = fresh /\ reply' = Silent
     /\ UNCHANGED <<store, threads>>
  \/ \E m \in 0..Len(data) :
       /\ Fault /\ Replaced(s, SubSeq(data, 1, m))
       /\ \/ /\ (m < Len(data) /\ Listed(text)) \/ ListedShort(text)
             /\ Acknowledged(s, data, m) /\ h' = [g EXCEPT !.index[n] = e]
             /\ UNCHANGED <<ikey, threads>>
          \/ /\ ListedInMemory(text) \/ Unlisted
             /\ Failed(s, data, m, owed) /\ h' = noted /\ UNCHANGED <<ikey, threads>>
          \/ /\ Failed(s, data, m, owed) /\ h' = fresh
             /\ UNCHANGED <<saved, mirror, ikey, threads>>
          \/ Failed(s, data, m, owed) /\ Restarted /\ UNCHANGED saved

Shorter(len, data) == IF len < Len(data) THEN len ELSE Len(data)

\* The content a write starts from: as much as the index says, read with the passphrase.
Plain(e) ==
  LET b == boxes[e.store] IN
  IF e.size = 0 THEN <<>> ELSE SubSeq(b.data, 1, Shorter(e.size, b.data))
PlainOpens(e) ==
  \/ e.size = 0
  \/ LET b == boxes[e.store] IN IsBox(b) /\ (b.data = <<>> \/ b.pw = h.passphrase)

\* vdisk_write_file: one segment is written, what lies before it is filled up.
Write(n, i) ==
  LET e == h.index[n]
      old == Plain(e)
      data == [j \in 1..(IF i > Len(old) THEN i ELSE Len(old)) |->
                 IF j = i \/ j > Len(old) THEN written + 1 ELSE old[j]] IN
  /\ Changing /\ e # None /\ PlainOpens(e)
  /\ Rewritten(n, e.store, data, Invalidated([h EXCEPT !.expired = FALSE], n, e.store),
               kept[e.store])

\* vdisk_truncate_file.
Truncate(n, len) ==
  LET e == h.index[n]
      old == Plain(e)
      data == [j \in 1..len |-> IF j <= Len(old) THEN old[j] ELSE written + 1] IN
  /\ Changing /\ e # None /\ PlainOpens(e)
  /\ Rewritten(n, e.store, data, Invalidated([h EXCEPT !.expired = FALSE], n, e.store),
               IF kept[e.store] = None THEN None ELSE SubSeq(kept[e.store], 1, Shorter(len, kept[e.store])))

\* vdisk_create_file, under a random name that was never used.
Create(f, s) ==
  /\ Changing /\ h.index[f] = None /\ boxes[s] = None
  /\ Rewritten(f, s, <<>>, [h EXCEPT !.expired = FALSE], None)

\* vdisk_delete_file of a file: the container first, its entry last.
Delete(n) ==
  LET e == h.index[n]
      s == e.store
      fresh == [h EXCEPT !.expired = FALSE]
      dropped == Invalidated(fresh, n, s)
      text == [MirrorText EXCEPT ![n] = None]
      gone == /\ boxes' = [boxes EXCEPT ![s] = Wiped] /\ kept' = [kept EXCEPT ![s] = None]
              /\ cut' = cut \ {s} IN
  /\ Changing /\ e # None /\ IsBox(boxes[s])
  /\ gone
  /\ \/ /\ (Listed(text) /\ UNCHANGED faults) \/ (ListedShort(text) /\ Fault)
        /\ h' = [dropped EXCEPT !.index[n] = None] /\ UNCHANGED <<ikey, threads>>
     \/ /\ (Unlisted /\ UNCHANGED faults) \/ (ListedInMemory(text) /\ Fault)
        /\ h' = dropped /\ UNCHANGED <<ikey, threads>>
     \/ Fault /\ h' = fresh /\ UNCHANGED <<saved, mirror, ikey, threads>>
     \/ Fault /\ Restarted /\ UNCHANGED saved
  /\ reply' = Silent /\ UNCHANGED written

\* vault_reindex: what the containers say, the name when the passphrase opens them.
Scan ==
  [n \in Names |->
     LET named == {s \in Stores : /\ IsBox(boxes[s])
                                  /\ n = IF boxes[s].pw = h.passphrase THEN boxes[s].name
                                         ELSE Stem(s)} IN
     IF named = {} THEN None
     ELSE LET s == CHOOSE s \in named : TRUE IN [store |-> s, size |-> Len(boxes[s].data)]]

\* The request "reindex".  It neither looks at the idle time nor starts it again.  It reads
\* back what it has written, which fails on an index that came up short.
IpcReindex ==
  /\ Listening /\ h.unlocked
  /\ mirror' = None
  /\ \/ saved' = Scan /\ h' = [h EXCEPT !.index = Scan] /\ UNCHANGED faults
     \/ Fault /\ saved' \in {saved, Torn} /\ UNCHANGED h
  /\ reply' = Silent
  /\ UNCHANGED <<boxes, ikey, kept, cut, written, threads>>

-----------------------------------------------------------------------------
\* A call that ends at its checks changes nothing but the idle time.
Refused ==
  /\ Reading /\ h' = [h EXCEPT !.expired = FALSE] /\ reply' = Silent
  /\ UNCHANGED <<store, threads, faults>>

Ipc == IpcUnlock \/ IpcLock \/ IpcFlag \/ IpcIdle \/ IpcCache \/ IpcReindex

Io ==
  \/ LateCall \/ Refused
  \/ \E n \in Names : \/ \E i \in 1..MaxLen : Read(n, i) \/ Write(n, i)
                      \/ \E len \in 0..MaxLen : Truncate(n, len)
                      \/ Delete(n)
  \/ \E f \in Files, s \in Stores : Create(f, s)

Next == Kill \/ Start \/ Mount \/ Stop \/ Ipc \/ Watch \/ Expire \/ Io

Spec == Init /\ [][Next]_vars

\* The watchdog and a request that has begun are scheduled; nobody has to call.
FairSpec == Spec /\ WF_dog(Watch) /\ WF_ipc(IpcFlag)

-----------------------------------------------------------------------------
(***************************************************************************)
(* Properties.                                                             *)
(***************************************************************************)
\* A read that succeeds never returns a segment from before the last change of the file
\* that was acknowledged, through the read cache or past it, after failed calls, locks and
\* a reindex (vdisk_read_file, invalidate_ptd_caches).
ReadsFresh ==
  reply.call = "read" /\ reply.got # <<>> /\ kept[reply.store] # None
    /\ reply.at \in DOMAIN kept[reply.store]
  => reply.got[1] >= kept[reply.store][reply.at]

\* What was acknowledged is on the disk, whole unless its plaintext came up short, and
\* listed with its size in the index on the disk unless that came up short: it survives a
\* kill at any moment, a failing call, a reindex, and a short write of the other of the two.
AcknowledgedIsKept ==
  \A s \in Stores : kept[s] # None =>
    /\ IsBox(boxes[s])
    /\ s \notin cut => \A i \in DOMAIN kept[s] :
                         i <= Len(boxes[s].data) /\ boxes[s].data[i] >= kept[s][i]
    /\ saved # Torn => \E n \in Names :
                          /\ saved[n] # None /\ saved[n].store = s
                          /\ s \notin cut => Len(kept[s]) <= saved[n].size

\* A locked handle has nothing left that reads a file: no passphrase, no key of a container,
\* no plaintext, no index, in the handle or in vault_index.cpp.
LockedHoldsNothing ==
  ~h.unlocked => /\ h.passphrase = None /\ h.keks = NoKeks /\ h.segs = NoSegs
                 /\ h.index = EmptyIndex /\ mirror = None

\* A drive left alone is locked, by the watchdog, unless the watchdog is about to clear the
\* flag after an earlier lock.
IdleIsLocked ==
  (IdleIsOver /\ unlocked /\ svc = "running" /\ dog # "clear") ~> ~IdleIsOver

(***************************************************************************)
(* Why AcknowledgedIsKept holds: the indexes in force agree about every    *)
(* file that can still be relied on.                                       *)
(***************************************************************************)
\* The index on the disk, the one in memory and, while the drive is unlocked, the handle's.
Indexes == (IF saved = Torn THEN {} ELSE {saved}) \cup (IF mirror = None THEN {} ELSE {mirror.text})
           \cup (IF h.unlocked THEN {h.index} ELSE {})

Lists(idx, n, s) == idx[n] # None /\ idx[n].store = s

\* A store has one name, the same in each, and is taken.
OneName ==
  /\ \A x, y \in Indexes, m, n \in Names, s \in Stores : Lists(x, m, s) /\ Lists(y, n, s) => m = n
  /\ \A x \in Indexes, n \in Names : x[n] # None => boxes[x[n].store] # None

\* Each lists every store with something to rely on, as long as that is.
AllListed ==
  \A x \in Indexes, s \in Stores : kept[s] # None =>
    \E n \in Names : Lists(x, n, s) /\ (s \notin cut => Len(kept[s]) <= x[n].size)

\* The container has it, or what was written later, as far as its plaintext went; nothing
\* is from the future.
AllThere ==
  \A s \in Stores :
    /\ kept[s] # None =>
         /\ IsBox(boxes[s]) /\ (s \notin cut => Len(kept[s]) <= Len(boxes[s].data))
         /\ \A i \in 1..Len(kept[s]) :
              /\ kept[s][i] <= written
              /\ i <= Len(boxes[s].data) => kept[s][i] <= boxes[s].data[i]
    /\ IsBox(boxes[s]) =>
         \A i \in 1..Len(boxes[s].data) : boxes[s].data[i] <= written

\* A reindex gives different stores different names.
OwnNames ==
  \A s \in Stores : IsBox(boxes[s]) =>
    /\ boxes[s].name \in Files \cup {TempName(s)}
    /\ \A t \in Stores \ {s} : IsBox(boxes[t]) => boxes[s].name # boxes[t].name

StoreTypes ==
  /\ boxes \in [Stores -> Box \cup {None, Wiped}]
  /\ saved \in [Names -> Entry \cup {None}] \cup {Torn}
  /\ h.index \in [Names -> Entry \cup {None}]
  /\ mirror # None => mirror.text \in [Names -> Entry \cup {None}]
  /\ h.unlocked => h.passphrase \in Passwords
  /\ ikey \in Passwords \cup {None}
  /\ kept \in [Stores -> Contents \cup {None}]
  /\ cut \subseteq Stores
  /\ written \in 0..MaxWrites

Relied == StoreTypes /\ OneName /\ AllListed /\ AllThere /\ OwnNames

(***************************************************************************)
(* Why ReadsFresh holds while one password is given: the segments in the   *)
(* read cache are kept by name, and a file is never given back a name it   *)
(* had when they were read.                                                *)
(***************************************************************************)
\* What is cached under the name of a file is not older than what was acknowledged.
CacheIsFresh ==
  \A n \in Names, s \in Stores, i \in 1..MaxLen :
    LET v == h.segs[<<n, i>>] IN
      Lists(h.index, n, s) /\ kept[s] # None /\ i <= Len(kept[s]) /\ v # None /\ v # <<>>
        => kept[s][i] <= v[1]

\* A rewritten container is listed under the name it was put into the vault with until a
\* reindex, and under its own from then on; only then is anything cached under that.
NamesStay ==
  /\ \A x \in Indexes, s \in Stores : x[TempName(s)] # None => x[TempName(s)].store = s
  /\ \A s \in Stores : IsBox(boxes[s]) /\ boxes[s].name # TempName(s) =>
       \A x \in Indexes, n \in Names : Lists(x, n, s) => n = boxes[s].name
  /\ \A s \in Stores, i \in 1..MaxLen : h.segs[<<TempName(s), i>>] # None =>
       /\ boxes[s] # None /\ (IsBox(boxes[s]) => boxes[s].name = TempName(s))
       /\ \A x \in Indexes, n \in Names : Lists(x, n, s) => n = TempName(s)

\* What is in the cache is in the list, once, and is counted.  The count may be more than
\* that: what is invalidated stays counted.
Held(c) == {k \in Keys : Size(c.segs[k]) = 1}
Caching(c) ==
  /\ c.segs \in [Keys -> Contents \cup {None}]
  /\ c.lru \in Seq(Keys) /\ IsInjective(c.lru)
  /\ \A k \in Keys : c.segs[k] # None =>
       Len(c.segs[k]) <= 1 /\ \E p \in 1..Len(c.lru) : c.lru[p] = k
  /\ c.bytes \in 0..CacheCap /\ Cardinality(Held(c)) <= c.bytes

CacheInv ==
  /\ Caching(CacheOf(h))
  /\ \A s \in Stores : IsBox(boxes[s]) => boxes[s].pw = Owner
  /\ CacheIsFresh /\ NamesStay

(***************************************************************************)
(* Properties the code does not have.                                      *)
(***************************************************************************)
\* vdisk.h, line 32: VDISK_E_AUTH is a wrong password.  Once a wrong password was tried, its
\* key is kept for the salt of the vault and the right password is refused too.
RefusedIsWrong == reply.call = "unlock" /\ ~reply.ok => reply.pw # Owner

\* vdisk.h, lines 79 and 85: a change rewrites the container and replaces it atomically, then
\* updates .feindex atomically.  Nobody looks whether the plaintext and the index written for
\* that have reached the disk, and on a full one less is put in the place of what was there.
UpdatedAtomically ==
  /\ \A s \in Stores : kept[s] # None => Len(kept[s]) <= Len(boxes[s].data)
  /\ mirror # None /\ ~mirror.dirty => saved = mirror.text

\* fe_winfsp.cpp, line 361: the watchdog locks a drive that was not used for the time-out.
\* It clears the flag after the lock in a second step, and after an unlock in between it
\* takes an unlocked drive for a locked one for ever.
AutoLocked == (IdleIsOver /\ svc = "running") ~> ~IdleIsOver
=============================================================================
