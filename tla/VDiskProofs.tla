------------------------------ MODULE VDiskProofs ------------------------------
(***************************************************************************)
(* What is proved of VDisk: a locked drive holds nothing, what was         *)
(* acknowledged survives, the read cache keeps to its bound and, while one *)
(* password is given, a read is never older than what was acknowledged.    *)
(***************************************************************************)
EXTENDS VDisk, SequenceTheorems, FiniteSetTheorems, WellFoundedInduction, TLAPS

(***************************************************************************)
(* The handle is a record, whatever its caches hold.                       *)
(***************************************************************************)
Fields == {"unlocked", "passphrase", "index", "rw", "keks", "segs", "lru", "bytes",
           "cache", "timeout", "expired"}
Shaped(g) == g = [f \in Fields |-> g[f]] /\ g.unlocked \in BOOLEAN
Shape == Shaped(h)

\* g and d agree about what Relied looks at.
SameView(d, g) ==
  Shaped(d) /\ d.unlocked = g.unlocked /\ d.passphrase = g.passphrase /\ d.index = g.index

Emptied(d) ==
  /\ Shaped(d) /\ d.unlocked = FALSE /\ d.passphrase = None /\ d.index = EmptyIndex
  /\ d.keks = NoKeks /\ d.segs = NoSegs /\ d.lru = <<>> /\ d.bytes = 0

\* d has of the read cache what g has, or less.
SameCache(d, g) == d.segs = g.segs /\ d.lru = g.lru /\ d.bytes = g.bytes
Thinner(d, g) ==
  /\ d.segs \in [Keys -> Contents \cup {None}]
  /\ \A q \in Keys : d.segs[q] \in {g.segs[q], None}
  /\ \/ d.lru = g.lru /\ d.bytes = g.bytes
     \/ d.segs = NoSegs /\ d.lru = <<>> /\ d.bytes = 0

LEMMA ClosedIsEmpty ==
  ASSUME NEW g, Shaped(g)
  PROVE  Emptied(Closed(g))
BY DEF Shaped, Closed, Fields, Emptied

LEMMA OpenedIsEmpty == Emptied(Opened)
BY DEF Shaped, Opened, Fields, Emptied

LEMMA IndexField ==
  ASSUME NEW g, NEW n \in Names, NEW e, Shaped(g)
  PROVE  LET d == [g EXCEPT !.index[n] = e] IN
         /\ Shaped(d) /\ d.unlocked = g.unlocked /\ d.passphrase = g.passphrase
         /\ d.index = [g.index EXCEPT ![n] = e] /\ SameCache(d, g)
BY DEF Shaped, Fields, SameCache

LEMMA FreshView ==
  ASSUME NEW g, Shaped(g)
  PROVE  LET d == [g EXCEPT !.expired = FALSE] IN
         SameView(d, g) /\ d.keks = g.keks /\ SameCache(d, g)
BY DEF Shaped, Fields, SameView, SameCache

LEMMA InvalidatedView ==
  ASSUME NEW g, Shaped(g), NEW n, NEW s
  PROVE  /\ SameView(Invalidated(g, n, s), g)
         /\ Invalidated(g, n, s).segs = [k \in Keys |-> IF k[1] = n THEN None ELSE g.segs[k]]
         /\ Invalidated(g, n, s).lru = g.lru /\ Invalidated(g, n, s).bytes = g.bytes
BY DEF Shaped, Invalidated, Fields, SameView

LEMMA InvalidatedSegments ==
  ASSUME NEW g, Shaped(g), NEW n \in Names, NEW s
  PROVE  /\ \A q \in Keys : Invalidated(g, n, s).segs[q] \in {g.segs[q], None}
         /\ \A i \in 1..MaxLen : Invalidated(g, n, s).segs[<<n, i>>] = None
<1> DEFINE left == [k \in Keys |-> IF k[1] = n THEN None ELSE g.segs[k]]
<1>1. Invalidated(g, n, s).segs = left
  BY InvalidatedView
<1>2. \A q \in Keys : left[q] \in {g.segs[q], None}
  OBVIOUS
<1>3. \A i \in 1..MaxLen : <<n, i>> \in Keys /\ <<n, i>>[1] = n
  BY DEF Keys
<1>4. \A i \in 1..MaxLen : left[<<n, i>>] = None
  BY <1>3
<1> HIDE DEF left
<1> QED
  BY <1>1, <1>2, <1>4

LEMMA WithCacheView ==
  ASSUME NEW g, Shaped(g), NEW c
  PROVE  SameView(WithCache(g, c), g)
BY DEF Shaped, WithCache, Fields, SameView

LEMMA KekView ==
  ASSUME NEW g, Shaped(g), NEW s, NEW k
  PROVE  SameView([g EXCEPT !.keks[s] = k], g)
BY DEF Shaped, Fields, SameView

LEMMA SameViewTrans ==
  ASSUME NEW c, NEW d, NEW g, SameView(c, d), SameView(d, g)
  PROVE  SameView(c, g)
BY DEF SameView

(***************************************************************************)
(* The steps that leave the handle what it was but for its caches and its  *)
(* idle time.                                                              *)
(***************************************************************************)
LEMMA ReadView ==
  ASSUME Shape, NEW n \in Names, NEW i \in 1..MaxLen, Read(n, i)
  PROVE  SameView(h', h) /\ h.unlocked /\ UNCHANGED store
<1> DEFINE e == h.index[n]
           fresh == [h EXCEPT !.expired = FALSE]
           keyed == [fresh EXCEPT !.keks[e.store] = KekOf(e.store)]
<1>1. SameView(fresh, h)
  BY FreshView DEF Shape
<1>2. SameView(keyed, h)
  <2> HIDE DEF fresh
  <2>1. Shaped(fresh)
    BY <1>1 DEF SameView
  <2>2. SameView(keyed, fresh)
    BY <2>1, KekView
  <2> QED
    BY <1>1, <2>2, SameViewTrans
<1>3. \A c : SameView(WithCache(keyed, c), h)
  <2> SUFFICES ASSUME NEW c PROVE SameView(WithCache(keyed, c), h)
    OBVIOUS
  <2>1. SameView(WithCache(keyed, c), keyed)
    BY <1>2, WithCacheView DEF SameView
  <2> QED
    BY <1>2, <2>1, SameViewTrans
<1>4. \/ h' = fresh \/ h' = keyed
      \/ \E c : h' = WithCache(keyed, c)
  BY Zenon DEF Read
<1> HIDE DEF fresh, keyed
<1>5. h.unlocked /\ UNCHANGED store
  BY DEF Read, Reading
<1> QED
  BY <1>1, <1>2, <1>3, <1>4, <1>5

LEMMA MountView ==
  ASSUME Shape, Mount
  PROVE  SameView(h', h) /\ h'.keks = h.keks /\ SameCache(h', h) /\ UNCHANGED store
BY DEF Mount, Shape, Shaped, Fields, SameView, SameCache

LEMMA IdleView ==
  ASSUME Shape, IpcIdle
  PROVE  SameView(h', h) /\ h'.keks = h.keks /\ SameCache(h', h) /\ UNCHANGED store
BY DEF IpcIdle, Shape, Shaped, Fields, SameView, SameCache

LEMMA CacheView ==
  ASSUME Shape, IpcCache
  PROVE  /\ SameView(h', h) /\ h'.keks = h.keks /\ UNCHANGED store
         /\ SameCache(h', h) \/ (h'.segs = NoSegs /\ h'.lru = <<>> /\ h'.bytes = 0)
BY DEF IpcCache, Shape, Shaped, Fields, SameView, SameCache

LEMMA ExpireView ==
  ASSUME Shape, Expire
  PROVE  SameView(h', h) /\ SameCache(h', h) /\ h.unlocked /\ UNCHANGED store
BY DEF Expire, Shape, Shaped, Fields, SameView, SameCache

LEMMA RefusedView ==
  ASSUME Shape, Refused
  PROVE  SameView(h', h) /\ SameCache(h', h) /\ h.unlocked /\ UNCHANGED store
BY FreshView DEF Refused, Reading, Shape

\* What an unlock leaves.
LEMMA UnlockView ==
  ASSUME Shape, NEW pw, Unlock(pw)
  PROVE  /\ \/ h' = h
            \/ /\ Shaped(h') /\ h'.unlocked = TRUE /\ h'.passphrase = pw
               /\ h'.index = saved /\ saved # Torn
         /\ SameCache(h', h)
         /\ ikey' \in {KeyFor(pw), ikey} /\ UNCHANGED <<boxes, saved, mirror, kept, cut, written>>
BY DEF Unlock, Shape, Shaped, Fields, SameCache

(***************************************************************************)
(* How a changing call can end.                                            *)
(***************************************************************************)
LEMMA RewrittenView ==
  ASSUME Shape, h.unlocked, NEW n \in Names, NEW s, NEW data, NEW g, NEW owed,
         SameView(g, h), Rewritten(n, s, data, g, owed)
  PROVE  Shape' /\ (h'.unlocked = TRUE \/ Restarted)
<1> DEFINE e == [store |-> s, size |-> Len(data)]
           fresh == [h EXCEPT !.expired = FALSE]
<1>1. SameView(fresh, h)
  BY FreshView DEF Shape
<1>2. Shaped([g EXCEPT !.index[n] = e]) /\ [g EXCEPT !.index[n] = e].unlocked = g.unlocked
  <2> HIDE DEF e
  <2>1. Shaped(g)
    BY DEF SameView
  <2> QED
    BY <2>1, IndexField
<1>3. Shaped(Opened)
  BY OpenedIsEmpty DEF Emptied
<1>4. \/ h' = [g EXCEPT !.index[n] = e] \/ h' = fresh \/ h' = g
      \/ Restarted /\ h' = Opened
  BY Zenon DEF Rewritten, Restarted
<1> HIDE DEF e, fresh
<1> QED
  BY <1>1, <1>2, <1>3, <1>4 DEF SameView, Shape

LEMMA ChangingView ==
  ASSUME Shape, NEW n \in Names
  PROVE  /\ \A i \in 1..MaxLen : Write(n, i) => Shape' /\ (h'.unlocked = TRUE \/ Restarted)
         /\ \A len \in 0..MaxLen : Truncate(n, len) => Shape' /\ (h'.unlocked = TRUE \/ Restarted)
         /\ \A s \in Stores : Create(n, s) => Shape' /\ (h'.unlocked = TRUE \/ Restarted)
<1>1. SameView([h EXCEPT !.expired = FALSE], h)
  BY FreshView DEF Shape
<1>2. \A s : SameView(Invalidated([h EXCEPT !.expired = FALSE], n, s), h)
  <2> DEFINE fresh == [h EXCEPT !.expired = FALSE]
  <2>1. SameView(fresh, h)
    BY <1>1
  <2> HIDE DEF fresh
  <2>2. \A s : SameView(Invalidated(fresh, n, s), fresh)
    <3> SUFFICES ASSUME NEW s PROVE SameView(Invalidated(fresh, n, s), fresh)
      OBVIOUS
    <3>1. Shaped(fresh)
      BY <2>1 DEF SameView
    <3> QED
      BY <3>1, InvalidatedView
  <2>3. \A s : SameView(Invalidated(fresh, n, s), h)
    BY <2>1, <2>2, SameViewTrans
  <2> QED
    BY <2>3 DEF fresh
<1>3. ASSUME NEW i \in 1..MaxLen, Write(n, i)
      PROVE  Shape' /\ (h'.unlocked = TRUE \/ Restarted)
  <2>1. PICK s, data, owed :
          h.unlocked /\ Rewritten(n, s, data, Invalidated([h EXCEPT !.expired = FALSE], n, s), owed)
    BY <1>3, Zenon DEF Write, Changing, Reading
  <2> QED
    BY <1>2, <2>1, RewrittenView
<1>4. ASSUME NEW len \in 0..MaxLen, Truncate(n, len)
      PROVE  Shape' /\ (h'.unlocked = TRUE \/ Restarted)
  <2>1. PICK s, data, owed :
          h.unlocked /\ Rewritten(n, s, data, Invalidated([h EXCEPT !.expired = FALSE], n, s), owed)
    BY <1>4, Zenon DEF Truncate, Changing, Reading
  <2> QED
    BY <1>2, <2>1, RewrittenView
<1>5. ASSUME NEW s \in Stores, Create(n, s)
      PROVE  Shape' /\ (h'.unlocked = TRUE \/ Restarted)
  <2>1. h.unlocked /\ Rewritten(n, s, <<>>, [h EXCEPT !.expired = FALSE], None)
    BY <1>5, Zenon DEF Create, Changing, Reading
  <2> QED
    BY <1>1, <2>1, RewrittenView
<1> QED
  BY <1>3, <1>4, <1>5

LEMMA DeleteView ==
  ASSUME Shape, NEW n \in Names, Delete(n)
  PROVE  Shape' /\ (h'.unlocked = TRUE \/ Restarted)
<1> DEFINE fresh == [h EXCEPT !.expired = FALSE]
           dropped == Invalidated(fresh, n, h.index[n].store)
<1>1. SameView(fresh, h)
  BY FreshView DEF Shape
<1>2. SameView(dropped, h)
  <2> HIDE DEF fresh
  <2>1. Shaped(fresh)
    BY <1>1 DEF SameView
  <2>2. SameView(dropped, fresh)
    BY <2>1, InvalidatedView
  <2> QED
    BY <1>1, <2>2, SameViewTrans
<1>3. /\ Shaped([dropped EXCEPT !.index[n] = None])
      /\ [dropped EXCEPT !.index[n] = None].unlocked = dropped.unlocked
  BY <1>2, IndexField DEF SameView
<1>4. Shaped(Opened)
  BY OpenedIsEmpty DEF Emptied
<1>5. /\ h.unlocked
      /\ \/ h' = [dropped EXCEPT !.index[n] = None] \/ h' = fresh \/ h' = dropped
         \/ Restarted /\ h' = Opened
  BY Zenon DEF Delete, Restarted, Changing, Reading
<1> HIDE DEF fresh, dropped
<1> QED
  BY <1>1, <1>2, <1>3, <1>4, <1>5 DEF SameView, Shape
-----------------------------------------------------------------------------
(***************************************************************************)
(* A locked drive.                                                         *)
(***************************************************************************)
LEMMA LockLocks ==
  ASSUME Shape, DoLock
  PROVE  Emptied(h') /\ mirror' = None
BY ClosedIsEmpty DEF DoLock, Shape

LEMMA RestartLocks ==
  ASSUME Restarted
  PROVE  Emptied(h') /\ mirror' = None
BY OpenedIsEmpty DEF Restarted

LEMMA EmptiedIsLocked ==
  ASSUME Emptied(h'), mirror' = None
  PROVE  Shape' /\ LockedHoldsNothing'
BY DEF Emptied, Shape, LockedHoldsNothing

\* A step that opens the handle, or leaves it open.
LEMMA OpenIsNotLocked ==
  ASSUME Shape', h'.unlocked = TRUE
  PROVE  Shape' /\ LockedHoldsNothing'
BY DEF LockedHoldsNothing

\* A step that only looks.
LEMMA LookingKeepsLocked ==
  ASSUME LockedHoldsNothing, SameView(h', h), h'.keks = h.keks, h'.segs \in {h.segs, NoSegs},
         UNCHANGED mirror
  PROVE  Shape' /\ LockedHoldsNothing'
BY DEF SameView, Shape, LockedHoldsNothing

LEMMA StepLocked ==
  ASSUME Shape, LockedHoldsNothing, [Next]_vars
  PROVE  Shape' /\ LockedHoldsNothing'
<1>1. CASE Kill \/ Stop
  BY <1>1, RestartLocks, EmptiedIsLocked DEF Kill, Stop
<1>2. CASE IpcLock \/ WatchLock \/ LateCall
  BY <1>2, LockLocks, EmptiedIsLocked DEF IpcLock, WatchLock, LateCall
<1>3. ASSUME NEW pw, Unlock(pw)
      PROVE  Shape' /\ LockedHoldsNothing'
  <2>1. CASE h' = h
    BY <1>3, <2>1, UnlockView DEF Shape, LockedHoldsNothing
  <2>2. CASE Shaped(h') /\ h'.unlocked = TRUE
    BY <2>2, OpenIsNotLocked DEF Shape
  <2> QED
    BY <1>3, <2>1, <2>2, UnlockView
<1>4. CASE UNCHANGED <<h, mirror>>
  BY <1>4 DEF Shape, LockedHoldsNothing
<1>5. CASE Start
  <2>1. Unlock(Owner) \/ UNCHANGED <<h, mirror>>
    BY <1>5, Zenon DEF Start, store
  <2> QED
    BY <1>3, <1>4, <2>1
<1>6. CASE IpcUnlock
  <2>1. \E pw \in Passwords : Unlock(pw)
    BY <1>6, Zenon DEF IpcUnlock
  <2> QED
    BY <1>3, <2>1
<1>7. CASE Mount \/ IpcIdle \/ IpcCache
  BY <1>7, MountView, IdleView, CacheView, LookingKeepsLocked DEF store, SameCache
<1>8. CASE Expire \/ Refused
  <2>1. SameView(h', h) /\ h.unlocked
    BY <1>8, ExpireView, RefusedView
  <2> QED
    BY <2>1, OpenIsNotLocked DEF SameView, Shape, Shaped
<1>9. CASE IpcFlag \/ WatchFlag \/ WatchIdle \/ WatchClear \/ UNCHANGED vars
  BY <1>4, <1>9 DEF IpcFlag, WatchFlag, WatchIdle, WatchClear, store, vars
<1>10. CASE IpcReindex
  <2>1. h.unlocked /\ (h' = [h EXCEPT !.index = Scan] \/ h' = h)
    BY <1>10, Zenon DEF IpcReindex
  <2>2. Shaped(h') /\ h'.unlocked = TRUE
    <3> HIDE DEF Scan
    <3>1. Shaped([h EXCEPT !.index = Scan]) /\ [h EXCEPT !.index = Scan].unlocked = h.unlocked
      BY DEF Shape, Shaped, Fields
    <3> QED
      BY <2>1, <3>1 DEF Shape, Shaped
  <2> QED
    BY <2>2, OpenIsNotLocked DEF Shape
<1>11. ASSUME NEW n \in Names, NEW i \in 1..MaxLen, Read(n, i)
       PROVE  Shape' /\ LockedHoldsNothing'
  <2>1. SameView(h', h) /\ h.unlocked
    BY <1>11, ReadView
  <2> QED
    BY <2>1, OpenIsNotLocked DEF SameView, Shape, Shaped
<1>12. ASSUME Shape', h'.unlocked = TRUE \/ Restarted
       PROVE  Shape' /\ LockedHoldsNothing'
  BY <1>12, OpenIsNotLocked, RestartLocks, EmptiedIsLocked
<1>13. ASSUME NEW n \in Names, NEW i \in 1..MaxLen, Write(n, i)
       PROVE  Shape' /\ LockedHoldsNothing'
  BY <1>12, <1>13, ChangingView
<1>14. ASSUME NEW n \in Names, NEW len \in 0..MaxLen, Truncate(n, len)
       PROVE  Shape' /\ LockedHoldsNothing'
  BY <1>12, <1>14, ChangingView
<1>15. ASSUME NEW n \in Names, Delete(n)
       PROVE  Shape' /\ LockedHoldsNothing'
  BY <1>12, <1>15, DeleteView
<1>16. ASSUME NEW f \in Files, NEW s \in Stores, Create(f, s)
       PROVE  Shape' /\ LockedHoldsNothing'
  <2>1. f \in Names
    BY DEF Names
  <2> QED
    BY <1>12, <1>16, <2>1, ChangingView
<1>17. CASE Io
  BY <1>2, <1>8, <1>11, <1>13, <1>14, <1>15, <1>16, <1>17 DEF Io
<1> QED
  BY <1>1, <1>2, <1>5, <1>6, <1>7, <1>8, <1>9, <1>10, <1>17 DEF Next, Ipc, Watch

LEMMA InitLocked == Init => Shape /\ LockedHoldsNothing
BY OpenedIsEmpty DEF Init, Emptied, Shape, LockedHoldsNothing

\* A locked drive holds no passphrase, no key of a container, no plaintext and no index,
\* whoever locked it and however the calls before it ended (do_lock, vdisk_abi.cpp).
THEOREM LockedIsEmpty == Spec => []LockedHoldsNothing
<1>1. (Shape /\ LockedHoldsNothing) /\ [Next]_vars => (Shape /\ LockedHoldsNothing)'
  BY StepLocked
<1> QED
  BY <1>1, InitLocked, PTL DEF Spec
-----------------------------------------------------------------------------
(***************************************************************************)
(* What was acknowledged.                                                  *)
(***************************************************************************)
LEMMA NameFacts ==
  /\ \A s \in Stores : TempName(s) \in Names /\ Stem(s) \in Names
  /\ Files \subseteq Names
  /\ \A s, t \in Stores : TempName(s) # Stem(t) /\ (s # t => TempName(s) # TempName(t) /\ Stem(s) # Stem(t))
  /\ \A s \in Stores : TempName(s) \notin Files /\ Stem(s) \notin Files
BY NamesApart DEF Names, TempName, Stem

LEMMA BoxFields ==
  ASSUME NEW b \in Box
  PROVE  /\ IsBox(b) /\ b.data \in Contents /\ b.pw \in Passwords /\ b.name \in Names
         /\ Len(b.data) \in 0..MaxLen
         /\ \A i \in 1..Len(b.data) : b.data[i] \in Segments
<1>1. IsBox(b) /\ b.data \in Contents /\ b.pw \in Passwords /\ b.name \in Names
  BY Markers DEF Box, IsBox
<1> QED
  BY <1>1, VDiskConstants DEF Contents

LEMMA EntryFields ==
  ASSUME NEW e \in Entry
  PROVE  e # None /\ e.store \in Stores /\ e.size \in 0..MaxLen
BY Markers DEF Entry

\* The indexes in force have entries in them.
LEMMA IndexTypes ==
  ASSUME StoreTypes, NEW x \in Indexes
  PROVE  x \in [Names -> Entry \cup {None}]
BY DEF StoreTypes, Indexes

\* Fewer indexes are in force, and the containers are as they were.
LEMMA FewerIndexes ==
  ASSUME Relied, StoreTypes', Indexes' \subseteq Indexes, UNCHANGED <<boxes, kept, cut, written>>
  PROVE  Relied'
<1>1. OneName'
  BY DEF Relied, OneName, Lists
<1>2. AllListed'
  BY DEF Relied, AllListed, Lists
<1>3. AllThere' /\ OwnNames'
  BY DEF Relied, AllThere, OwnNames
<1> QED
  BY <1>1, <1>2, <1>3 DEF Relied

(***************************************************************************)
(* A change of file n in store s: c is what the container is then, k what  *)
(* can still be relied on, e the entry that is written into some of the    *)
(* indexes.                                                                *)
(***************************************************************************)
Enters(y, n, e, k) ==
  \E x \in Indexes :
    /\ y = [x EXCEPT ![n] = e]
    /\ k # None => e # None /\ (e.store \notin cut' => Len(k) <= e.size)
StillLists(y, s, k) ==
  /\ y \in Indexes
  /\ k # None => kept[s] # None /\ Len(k) <= Len(kept[s]) /\ (s \in cut => s \in cut')

SegmentTypes == h.segs \in [Keys -> Contents \cup {None}]

\* That is what the step does to file n in store s.
Changed(n, s, e, c, k) ==
  /\ Lists(h.index, n, s) \/ (n \in Files /\ h.index[n] = None /\ boxes[s] = None)
  /\ e \in Entry \cup {None} /\ c \in Box \cup {Wiped} /\ k \in Contents \cup {None}
  /\ boxes' = [boxes EXCEPT ![s] = c] /\ kept' = [kept EXCEPT ![s] = k]
  /\ written' \in Nat /\ written <= written'
  /\ \A t \in Stores \ {s} : t \in cut' <=> t \in cut
  /\ e # None => e.store = s
  /\ \A y \in Indexes' : Enters(y, n, e, k) \/ StillLists(y, s, k)
  /\ k # None => /\ c \in Box /\ (s \notin cut' => Len(k) <= Len(c.data))
                 /\ \A i \in 1..Len(k) :
                      k[i] <= written' /\ (i <= Len(c.data) => k[i] <= c.data[i])
  /\ c \in Box => /\ c.name = TempName(s) /\ c.pw = h.passphrase
                  /\ \A i \in 1..Len(c.data) : c.data[i] <= written'

\* Nothing comes into the read cache, and what is cached of the file leaves it unless there is
\* no more to rely on than before.
Forgets(n, s, k) ==
  /\ Thinner(h', h)
  /\ k # None => \A i \in 1..Len(k) :
       \/ h'.segs[<<n, i>>] = None
       \/ kept[s] # None /\ i <= Len(kept[s]) /\ k[i] <= kept[s][i]

\* The step changes a file, or nothing but the caches and the idle time of the handle.
Changes ==
  \E n \in Names, s \in Stores : \E e, c, k : Changed(n, s, e, c, k) /\ Forgets(n, s, k)
Looks == SameView(h', h) /\ Thinner(h', h) /\ UNCHANGED store

LEMMA SameIsThinner ==
  ASSUME SegmentTypes, NEW d, SameCache(d, h)
  PROVE  Thinner(d, h)
BY DEF SegmentTypes, SameCache, Thinner

LEMMA SameCacheIsThinner ==
  ASSUME NEW c, NEW d, Thinner(d, h), SameCache(c, d)
  PROVE  Thinner(c, h)
BY DEF SameCache, Thinner

LEMMA EmptyIsThinner ==
  ASSUME NEW d, Emptied(d)
  PROVE  Thinner(d, h)
BY DEF Emptied, Thinner, NoSegs

\* Every index of the next state has the entry put in it, or is one from before.
Arrivals(n, s, e, k) == \A y \in Indexes' : Enters(y, n, e, k) \/ StillLists(y, s, k)
\* The file s is listed under no name but n then, and the others where they were.
Arrived(n, s) ==
  \A y \in Indexes', m \in Names, t \in Stores : Lists(y, m, t) =>
    /\ t = s => m = n
    /\ t # s => \E x \in Indexes : Lists(x, m, t)

\* Where the indexes list a file after that.
LEMMA EntersLists ==
  ASSUME Relied, h.unlocked, NEW n \in Names, NEW s \in Stores, NEW e \in Entry \cup {None},
         NEW k \in Contents \cup {None},
         Lists(h.index, n, s) \/ (h.index[n] = None /\ boxes[s] = None),
         e # None => e.store = s,
         Arrivals(n, s, e, k)
  PROVE  Arrived(n, s)
<1> SUFFICES ASSUME NEW y \in Indexes', NEW m \in Names, NEW t \in Stores, Lists(y, m, t)
             PROVE  /\ t = s => m = n
                    /\ t # s => \E x \in Indexes : Lists(x, m, t)
  BY DEF Arrived
<1>0. StoreTypes /\ OneName
  BY DEF Relied
<1>1. h.index \in Indexes
  BY DEF Indexes
<1>2. \A x \in Indexes, l \in Names : Lists(x, l, s) => l = n
  BY <1>0, <1>1 DEF OneName, Lists
<1>5. \A x \in Indexes, l \in Names :
        [x EXCEPT ![n] = e][l] = IF l = n THEN e ELSE x[l]
  BY <1>0, IndexTypes
<1>6. CASE y \in Indexes
  BY <1>2, <1>6
<1>7. CASE Enters(y, n, e, k)
  <2>1. PICK x \in Indexes : y = [x EXCEPT ![n] = e]
    BY <1>7 DEF Enters
  <2>2. CASE m = n
    <3>1. y[m] = e
      BY <1>5, <2>1, <2>2
    <3>2. t = s
      BY <3>1 DEF Lists
    <3> QED
      BY <2>2, <3>2
  <2>3. CASE m # n
    <3>1. y[m] = x[m]
      BY <1>5, <2>1, <2>3
    <3>2. Lists(x, m, t)
      BY <3>1 DEF Lists
    <3> QED
      BY <1>2, <2>1, <2>3, <3>2
  <2> QED
    BY <2>2, <2>3
<1> QED
  BY <1>6, <1>7 DEF StillLists, Arrivals

LEMMA FileChanges ==
  ASSUME Relied, h.unlocked, StoreTypes',
         NEW n \in Names, NEW s \in Stores, NEW e \in Entry \cup {None}, NEW c \in Box \cup {Wiped},
         NEW k \in Contents \cup {None},
         Lists(h.index, n, s) \/ (h.index[n] = None /\ boxes[s] = None),
         boxes' = [boxes EXCEPT ![s] = c], kept' = [kept EXCEPT ![s] = k],
         written' \in Nat, written <= written',
         \A t \in Stores \ {s} : t \in cut' <=> t \in cut,
         e # None => e.store = s,
         \A y \in Indexes' : Enters(y, n, e, k) \/ StillLists(y, s, k),
         k # None => /\ c \in Box /\ (s \notin cut' => Len(k) <= Len(c.data))
                     /\ \A i \in 1..Len(k) :
                          k[i] <= written' /\ (i <= Len(c.data) => k[i] <= c.data[i]),
         c \in Box => /\ c.name = TempName(s)
                      /\ \A i \in 1..Len(c.data) : c.data[i] <= written'
  PROVE  Relied'
<1>0. StoreTypes /\ OneName /\ AllListed /\ AllThere /\ OwnNames
  BY DEF Relied
<1>1. h.index \in Indexes
  BY DEF Indexes
<1>3. \A x \in Indexes, t \in Stores : Lists(x, n, t) /\ t # s => kept[t] = None
  <2> SUFFICES ASSUME NEW x \in Indexes, NEW t \in Stores, Lists(x, n, t), t # s, kept[t] # None
               PROVE  FALSE
    OBVIOUS
  <2>1. PICK m \in Names : Lists(h.index, m, t)
    BY <1>0, <1>1 DEF AllListed
  <2>2. m = n
    BY <1>0, <1>1, <2>1 DEF OneName
  <2> QED
    BY <2>1, <2>2 DEF Lists
<1>4. /\ boxes'[s] = c /\ c # None /\ kept'[s] = k
      /\ \A t \in Stores \ {s} : boxes'[t] = boxes[t] /\ kept'[t] = kept[t]
  BY <1>0, Markers, VDiskConstants DEF StoreTypes
<1>5. \A x \in Indexes, m \in Names :
        [x EXCEPT ![n] = e][m] = IF m = n THEN e ELSE x[m]
  BY <1>0, IndexTypes
<1>6. \A y \in Indexes', m \in Names, t \in Stores : Lists(y, m, t) =>
        /\ t = s => m = n
        /\ t # s => \E x \in Indexes : Lists(x, m, t)
  <2>1. Arrivals(n, s, e, k)
    BY DEF Arrivals
  <2>2. Arrived(n, s)
    BY <2>1, EntersLists
  <2> QED
    BY <2>2 DEF Arrived
<1>7. OneName'
  <2>1. ASSUME NEW x \in Indexes', NEW y \in Indexes', NEW l \in Names, NEW m \in Names,
               NEW t \in Stores, Lists(x, l, t), Lists(y, m, t)
        PROVE  l = m
    BY <1>0, <1>6, <2>1 DEF OneName
  <2>2. ASSUME NEW y \in Indexes', NEW m \in Names, y[m] # None
        PROVE  boxes'[y[m].store] # None
    <3>1. y \in [Names -> Entry \cup {None}]
      BY DEF StoreTypes, Indexes
    <3>2. y[m].store \in Stores /\ Lists(y, m, y[m].store)
      BY <2>2, <3>1, EntryFields DEF Lists
    <3>3. CASE y[m].store = s
      BY <1>4, <3>3
    <3>4. CASE y[m].store # s
      <4>1. PICK x \in Indexes : Lists(x, m, y[m].store)
        BY <1>6, <3>2, <3>4
      <4> QED
        BY <1>0, <1>4, <3>2, <3>4, <4>1 DEF OneName, Lists
    <3> QED
      BY <3>3, <3>4
  <2> QED
    BY <2>1, <2>2 DEF OneName, Lists
<1>8. AllListed'
  <2> SUFFICES ASSUME NEW y \in Indexes', NEW t \in Stores, kept'[t] # None
               PROVE  \E m \in Names : Lists(y, m, t) /\ (t \notin cut' => Len(kept'[t]) <= y[m].size)
    BY DEF AllListed, Lists
  <2>1. CASE t = s
    <3>1. k # None /\ kept'[t] = k
      BY <1>4, <2>1
    <3>2. CASE Enters(y, n, e, k)
      <4>1. PICK x \in Indexes :
              /\ y = [x EXCEPT ![n] = e] /\ e # None /\ e.store = s
              /\ s \notin cut' => Len(k) <= e.size
        BY <3>1, <3>2 DEF Enters
      <4>2. y[n] = e
        BY <1>5, <4>1
      <4> QED
        BY <2>1, <3>1, <4>1, <4>2 DEF Lists
    <3>3. CASE StillLists(y, s, k)
      <4>1. y \in Indexes /\ kept[s] # None /\ Len(k) <= Len(kept[s]) /\ (s \in cut => s \in cut')
        BY <3>1, <3>3 DEF StillLists
      <4>2. PICK m \in Names : Lists(y, m, s) /\ (s \notin cut => Len(kept[s]) <= y[m].size)
        BY <1>0, <4>1 DEF AllListed
      <4>3. Len(k) \in Int /\ Len(kept[s]) \in Int /\ y[m].size \in Int
        <5>1. y[m] \in Entry
          BY <1>0, <4>1, <4>2, IndexTypes DEF Lists
        <5>2. k \in Contents /\ kept[s] \in Contents
          BY <1>0, <3>1, <4>1 DEF StoreTypes
        <5>3. \A d \in Contents : Len(d) \in Int
          BY DEF Contents
        <5> QED
          BY <5>1, <5>2, <5>3, EntryFields
      <4> QED
        BY <2>1, <3>1, <4>1, <4>2, <4>3
    <3> QED
      BY <3>2, <3>3
  <2>2. CASE t # s
    <3>1. kept'[t] = kept[t] /\ (t \in cut' <=> t \in cut)
      BY <1>4, <2>2
    <3>2. CASE y \in Indexes
      BY <1>0, <3>1, <3>2 DEF AllListed
    <3>3. CASE Enters(y, n, e, k)
      <4>1. PICK x \in Indexes : y = [x EXCEPT ![n] = e]
        BY <3>3 DEF Enters
      <4>2. PICK m \in Names : Lists(x, m, t) /\ (t \notin cut => Len(kept[t]) <= x[m].size)
        BY <1>0, <3>1, <4>1 DEF AllListed
      <4>3. m # n
        BY <1>3, <2>2, <3>1, <4>1, <4>2
      <4>4. y[m] = x[m]
        BY <1>5, <4>1, <4>3
      <4> QED
        BY <3>1, <4>2, <4>4 DEF Lists
    <3> QED
      BY <3>2, <3>3 DEF StillLists
  <2> QED
    BY <2>1, <2>2
<1>9. AllThere'
  <2> SUFFICES ASSUME NEW t \in Stores
               PROVE  /\ kept'[t] # None =>
                           /\ IsBox(boxes'[t])
                           /\ t \notin cut' => Len(kept'[t]) <= Len(boxes'[t].data)
                           /\ \A i \in 1..Len(kept'[t]) :
                                /\ kept'[t][i] <= written'
                                /\ i <= Len(boxes'[t].data) => kept'[t][i] <= boxes'[t].data[i]
                      /\ IsBox(boxes'[t]) =>
                           \A i \in 1..Len(boxes'[t].data) : boxes'[t].data[i] <= written'
    BY DEF AllThere, IsBox
  <2>1. CASE t = s
    <3>1. IsBox(c) => c \in Box
      BY DEF IsBox
    <3>2. c \in Box => IsBox(c)
      BY BoxFields
    <3> QED
      BY <1>4, <2>1, <3>1, <3>2
  <2>2. CASE t # s
    <3>1. boxes'[t] = boxes[t] /\ kept'[t] = kept[t] /\ (t \in cut' <=> t \in cut)
      BY <1>4, <2>2
    <3>2. IsBox(boxes[t]) => /\ Len(boxes[t].data) \in 0..MaxLen
                             /\ \A i \in 1..Len(boxes[t].data) : boxes[t].data[i] \in Nat
      <4> SUFFICES ASSUME IsBox(boxes[t])
                   PROVE  /\ Len(boxes[t].data) \in 0..MaxLen
                          /\ \A i \in 1..Len(boxes[t].data) : boxes[t].data[i] \in Nat
        OBVIOUS
      <4>1. boxes[t] \in Box
        BY <1>0 DEF StoreTypes, IsBox
      <4> QED
        BY <4>1, BoxFields, VDiskConstants DEF Segments
    <3>3. written \in Nat
      BY <1>0, VDiskConstants DEF StoreTypes
    <3>4. IsBox(boxes[t]) => \A i \in 1..Len(boxes[t].data) : boxes[t].data[i] <= written'
      BY <1>0, <3>2, <3>3 DEF AllThere
    <3>5. kept[t] # None => \A i \in 1..Len(kept[t]) : kept[t][i] <= written'
      <4>1. kept[t] # None => \A i \in 1..Len(kept[t]) : kept[t][i] \in Nat
        BY <1>0, VDiskConstants DEF StoreTypes, Contents, Segments
      <4> QED
        BY <1>0, <3>3, <4>1 DEF AllThere
    <3> QED
      BY <1>0, <3>1, <3>4, <3>5 DEF AllThere
  <2> QED
    BY <2>1, <2>2
<1>10. OwnNames'
  <2>1. ASSUME NEW t \in Stores, IsBox(boxes'[t])
        PROVE  boxes'[t].name \in Files \cup {TempName(t)}
    BY <1>0, <1>4, <2>1 DEF OwnNames, IsBox
  <2>2. ASSUME NEW t \in Stores \ {s}, IsBox(boxes'[t]), IsBox(boxes'[s])
        PROVE  boxes'[t].name # boxes'[s].name
    <3>1. boxes'[s].name = TempName(s)
      BY <1>4, <2>2 DEF IsBox
    <3> QED
      BY <2>1, <2>2, <3>1, NameFacts
  <2>3. ASSUME NEW t \in Stores \ {s}, NEW u \in Stores \ {s}, t # u,
               IsBox(boxes'[t]), IsBox(boxes'[u])
        PROVE  boxes'[t].name # boxes'[u].name
    BY <1>0, <1>4, <2>3 DEF OwnNames
  <2> QED
    BY <2>1, <2>2, <2>3 DEF OwnNames, IsBox
<1> QED
  BY <1>7, <1>8, <1>9, <1>10 DEF Relied
-----------------------------------------------------------------------------
(***************************************************************************)
(* The steps that write no container.                                      *)
(***************************************************************************)
\* Nothing but the caches and the idle time of the handle.
LEMMA LookingKeepsRelied ==
  ASSUME Relied, SameView(h', h), UNCHANGED store
  PROVE  Relied'
<1>1. StoreTypes'
  BY DEF Relied, StoreTypes, SameView, store
<1>2. Indexes' \subseteq Indexes
  BY DEF Indexes, SameView, store
<1> QED
  BY <1>1, <1>2, FewerIndexes DEF store

\* The drive is locked or the process ends; a change of the index that waits is written.
Flushed == saved' \in {saved, Torn} \/ (mirror # None /\ saved' = mirror.text)

LEMMA FlushIs == Flush => Flushed
BY DEF Flush, Flushed

LEMMA LockingKeepsRelied ==
  ASSUME Relied, Emptied(h'), mirror' = None, Flushed,
         ikey' \in Passwords \cup {None}, UNCHANGED <<boxes, kept, cut, written>>
  PROVE  Relied'
<1>1. EmptyIndex \in [Names -> Entry \cup {None}]
  BY DEF EmptyIndex
<1>2. StoreTypes'
  BY <1>1 DEF Relied, StoreTypes, Emptied, Flushed
<1>3. Indexes' \subseteq Indexes
  BY DEF Indexes, Emptied, Flushed
<1> QED
  BY <1>2, <1>3, FewerIndexes

LEMMA UnlockKeepsRelied ==
  ASSUME Relied, Shape, NEW pw \in Passwords, Unlock(pw)
  PROVE  Relied'
<1>1. UNCHANGED <<boxes, saved, mirror, kept, cut, written>>
  BY UnlockView
<1>2. ikey' \in Passwords \cup {None}
  <2>1. ikey' \in {KeyFor(pw), ikey}
    BY UnlockView
  <2>2. {KeyFor(pw), ikey} \subseteq Passwords \cup {None}
    BY DEF KeyFor, Relied, StoreTypes
  <2> QED
    BY <2>1, <2>2
<1>3. h' = h \/ (h'.unlocked = TRUE /\ h'.passphrase = pw /\ h'.index = saved /\ saved # Torn)
  BY UnlockView
<1>4. StoreTypes'
  BY <1>1, <1>2, <1>3 DEF Relied, StoreTypes
<1>5. Indexes' \subseteq Indexes
  BY <1>1, <1>3 DEF Indexes
<1> QED
  BY <1>1, <1>4, <1>5, FewerIndexes

(***************************************************************************)
(* The reindex.                                                            *)
(***************************************************************************)
FoundAs(s) == IF boxes[s].pw = h.passphrase THEN boxes[s].name ELSE Stem(s)

LEMMA ScanFinds ==
  ASSUME Relied
  PROVE  /\ Scan \in [Names -> Entry \cup {None}]
         /\ \A n \in Names : Scan[n] # None =>
              /\ Scan[n].store \in Stores /\ IsBox(boxes[Scan[n].store])
              /\ n = FoundAs(Scan[n].store)
         /\ \A s \in Stores : IsBox(boxes[s]) =>
              /\ FoundAs(s) \in Names /\ Lists(Scan, FoundAs(s), s)
              /\ Scan[FoundAs(s)].size = Len(boxes[s].data)
<1>1. StoreTypes /\ OwnNames
  BY DEF Relied
<1>2. \A s \in Stores : IsBox(boxes[s]) => boxes[s] \in Box
  BY <1>1 DEF StoreTypes, IsBox
<1>3. \A s \in Stores : IsBox(boxes[s]) => FoundAs(s) \in Names
  BY <1>2, BoxFields, NameFacts DEF FoundAs
<1>4. \A s, t \in Stores : IsBox(boxes[s]) /\ IsBox(boxes[t]) /\ FoundAs(s) = FoundAs(t) => s = t
  <2> SUFFICES ASSUME NEW s \in Stores, NEW t \in Stores, IsBox(boxes[s]), IsBox(boxes[t]), s # t
               PROVE  FoundAs(s) # FoundAs(t)
    OBVIOUS
  <2>1. /\ boxes[s].name \in Files \cup {TempName(s)} /\ boxes[t].name \in Files \cup {TempName(t)}
        /\ boxes[s].name # boxes[t].name
    BY <1>1 DEF OwnNames
  <2> QED
    BY <2>1, NameFacts DEF FoundAs
<1> DEFINE named(n) == {s \in Stores : IsBox(boxes[s]) /\ n = FoundAs(s)}
           entry(n) == IF named(n) = {} THEN None
                       ELSE LET s == CHOOSE s \in named(n) : TRUE IN
                            [store |-> s, size |-> Len(boxes[s].data)]
<1>5. Scan = [n \in Names |-> entry(n)]
  BY DEF Scan, FoundAs
<1>6. \A n \in Names : Scan[n] = entry(n)
  BY <1>5
<1>7. \A n \in Names : named(n) # {} =>
        \E s \in named(n) : entry(n) = [store |-> s, size |-> Len(boxes[s].data)]
  <2> SUFFICES ASSUME NEW n \in Names, named(n) # {}
               PROVE  \E s \in named(n) : entry(n) = [store |-> s, size |-> Len(boxes[s].data)]
    OBVIOUS
  <2>1. entry(n) = [store |-> CHOOSE s \in named(n) : TRUE,
                    size |-> Len(boxes[CHOOSE s \in named(n) : TRUE].data)]
    OBVIOUS
  <2> HIDE DEF named, entry
  <2>2. (CHOOSE s \in named(n) : TRUE) \in named(n)
    OBVIOUS
  <2> QED
    BY <2>1, <2>2
<1>8. \A s \in Stores, z \in 0..MaxLen : [store |-> s, size |-> z] \in Entry
  BY DEF Entry
<1>9. \A s \in Stores : IsBox(boxes[s]) => Len(boxes[s].data) \in 0..MaxLen
  BY <1>2, BoxFields
<1>10. \A n \in Names : entry(n) # None =>
         /\ entry(n).store \in Stores /\ IsBox(boxes[entry(n).store]) /\ n = FoundAs(entry(n).store)
         /\ entry(n) \in Entry /\ entry(n).size = Len(boxes[entry(n).store].data)
  <2> SUFFICES ASSUME NEW n \in Names, named(n) # {}
               PROVE  /\ entry(n).store \in Stores /\ IsBox(boxes[entry(n).store])
                      /\ n = FoundAs(entry(n).store) /\ entry(n) \in Entry
                      /\ entry(n).size = Len(boxes[entry(n).store].data)
    OBVIOUS
  <2>1. PICK s \in named(n) : entry(n) = [store |-> s, size |-> Len(boxes[s].data)]
    BY <1>7
  <2> HIDE DEF entry
  <2> QED
    BY <1>8, <1>9, <2>1
<1>11. \A n \in Names : named(n) # {} => entry(n) # None
  <2> SUFFICES ASSUME NEW n \in Names, named(n) # {}
               PROVE  entry(n) # None
    OBVIOUS
  <2>1. PICK s \in named(n) : entry(n) = [store |-> s, size |-> Len(boxes[s].data)]
    BY <1>7
  <2> HIDE DEF entry
  <2> QED
    BY <1>8, <1>9, <2>1, Markers
<1>12. ASSUME NEW s \in Stores, IsBox(boxes[s])
       PROVE  /\ FoundAs(s) \in Names /\ Lists(Scan, FoundAs(s), s)
              /\ Scan[FoundAs(s)].size = Len(boxes[s].data)
  <2>1. FoundAs(s) \in Names /\ s \in named(FoundAs(s))
    BY <1>3, <1>12
  <2>2. entry(FoundAs(s)) # None
    BY <1>11, <2>1
  <2>3. entry(FoundAs(s)).store = s
    <3> HIDE DEF entry
    <3> QED
      BY <1>4, <1>10, <1>12, <2>1, <2>2
  <2> HIDE DEF entry
  <2> QED
    BY <1>6, <1>10, <2>1, <2>2, <2>3 DEF Lists
<1> HIDE DEF entry
<1>13. Scan \in [Names -> Entry \cup {None}]
  BY <1>5, <1>10
<1> QED
  BY <1>6, <1>10, <1>12, <1>13

LEMMA ReindexKeepsRelied ==
  ASSUME Relied, Shape, IpcReindex
  PROVE  Relied'
<1>1. /\ h.unlocked /\ mirror' = None /\ UNCHANGED <<boxes, ikey, kept, cut, written>>
      /\ (saved' = Scan /\ h' = [h EXCEPT !.index = Scan])
         \/ (saved' \in {saved, Torn} /\ h' = h)
  BY Zenon DEF IpcReindex
<1>2. CASE saved' \in {saved, Torn} /\ h' = h
  <2>1. StoreTypes'
    BY <1>1, <1>2 DEF Relied, StoreTypes
  <2>2. Indexes' \subseteq Indexes
    BY <1>1, <1>2 DEF Indexes
  <2> QED
    BY <1>1, <2>1, <2>2, FewerIndexes
<1>3. CASE saved' = Scan /\ h' = [h EXCEPT !.index = Scan]
  <2>1. h'.index = Scan /\ h'.unlocked = h.unlocked /\ h'.passphrase = h.passphrase
    <3> HIDE DEF Scan
    <3>1. LET d == [h EXCEPT !.index = Scan] IN
          d.index = Scan /\ d.unlocked = h.unlocked /\ d.passphrase = h.passphrase
      BY DEF Shape, Shaped, Fields
    <3> QED
      BY <1>3, <3>1
  <2>2. Indexes' \subseteq {Scan}
    BY <1>1, <1>3, <2>1 DEF Indexes
  <2>3. StoreTypes'
    BY <1>1, <1>3, <2>1, ScanFinds DEF Relied, StoreTypes
  <2>4. OneName'
    <3>1. \A m, n \in Names, s \in Stores : Lists(Scan, m, s) /\ Lists(Scan, n, s) => m = n
      BY ScanFinds DEF Lists
    <3>2. \A n \in Names : Scan[n] # None => boxes'[Scan[n].store] # None
      BY <1>1, ScanFinds DEF IsBox
    <3> HIDE DEF Scan
    <3> QED
      BY <2>2, <3>1, <3>2 DEF OneName, Lists
  <2>5. AllListed'
    <3>1. \A s \in Stores : kept[s] # None =>
            \E n \in Names : Lists(Scan, n, s) /\ (s \notin cut => Len(kept[s]) <= Scan[n].size)
      BY ScanFinds DEF Relied, AllThere
    <3> HIDE DEF Scan
    <3> QED
      BY <1>1, <2>2, <3>1 DEF AllListed, Lists
  <2>6. AllThere' /\ OwnNames'
    BY <1>1 DEF Relied, AllThere, OwnNames, IsBox
  <2> QED
    BY <2>3, <2>4, <2>5, <2>6 DEF Relied
<1> QED
  BY <1>1, <1>2, <1>3
-----------------------------------------------------------------------------
(***************************************************************************)
(* The steps that write or remove a container.                             *)
(***************************************************************************)
\* The handle a change of file n in store s leaves, but for the entry.
LEMMA Dropping ==
  ASSUME Shape, SegmentTypes, NEW n \in Names, NEW s
  PROVE  LET g == Invalidated([h EXCEPT !.expired = FALSE], n, s) IN
         /\ SameView(g, h) /\ Thinner(g, h)
         /\ \A i \in 1..MaxLen : g.segs[<<n, i>>] = None
<1> DEFINE fresh == [h EXCEPT !.expired = FALSE]
           g == Invalidated(fresh, n, s)
<1>1. SameView(fresh, h) /\ SameCache(fresh, h)
  BY FreshView DEF Shape
<1> HIDE DEF fresh
<1>2. /\ SameView(g, fresh) /\ g.segs = [k \in Keys |-> IF k[1] = n THEN None ELSE fresh.segs[k]]
      /\ g.lru = fresh.lru /\ g.bytes = fresh.bytes
  BY <1>1, InvalidatedView DEF SameView
<1>3. /\ \A q \in Keys : g.segs[q] \in {fresh.segs[q], None}
      /\ \A i \in 1..MaxLen : g.segs[<<n, i>>] = None
  BY <1>1, InvalidatedSegments DEF SameView
<1> HIDE DEF g
<1>4. SameView(g, h)
  BY <1>1, <1>2, SameViewTrans
<1>5. g.segs \in [Keys -> Contents \cup {None}]
  BY <1>1, <1>2 DEF SegmentTypes, SameCache
<1>6. Thinner(g, h)
  BY <1>1, <1>2, <1>3, <1>5 DEF Thinner, SameCache
<1> QED
  BY <1>3, <1>4, <1>6 DEF fresh, g

LEMMA ContentFacts ==
  ASSUME NEW d \in Contents
  PROVE  d \in Seq(Segments) /\ Len(d) \in 0..MaxLen /\ d \in [1..Len(d) -> Segments]
BY VDiskConstants DEF Contents

LEMMA ShorterIs ==
  ASSUME NEW len \in Nat, NEW d \in Contents
  PROVE  /\ Shorter(len, d) \in 0..Len(d) /\ Shorter(len, d) <= len
         /\ Shorter(len, d) = len \/ Shorter(len, d) = Len(d)
BY ContentFacts, VDiskConstants DEF Shorter

LEMMA PrefixIs ==
  ASSUME NEW d \in Contents, NEW n \in 0..Len(d)
  PROVE  /\ SubSeq(d, 1, n) \in Contents /\ Len(SubSeq(d, 1, n)) = n
         /\ \A i \in 1..n : SubSeq(d, 1, n)[i] = d[i]
<1>1. d \in Seq(Segments) /\ Len(d) \in 0..MaxLen /\ d \in [1..Len(d) -> Segments]
  BY ContentFacts
<1>2. n \in Int /\ n \in 0..MaxLen /\ (\A i \in 1..n : d[i] \in Segments)
  BY <1>1, VDiskConstants
<1>3. /\ SubSeq(d, 1, n) \in Seq(Segments)
      /\ Len(SubSeq(d, 1, n)) = IF 1 <= n THEN n - 1 + 1 ELSE 0
      /\ \A i \in 1..(n - 1 + 1) : SubSeq(d, 1, n)[i] = d[1 + i - 1]
  BY <1>2, SubSeqProperties
<1>4. Len(SubSeq(d, 1, n)) = n
  BY <1>2, <1>3
<1>5. \A i \in 1..n : SubSeq(d, 1, n)[i] = d[i]
  <2> SUFFICES ASSUME NEW i \in 1..n PROVE SubSeq(d, 1, n)[i] = d[i]
    OBVIOUS
  <2>1. i \in 1..(n - 1 + 1) /\ 1 + i - 1 = i
    BY <1>2
  <2> QED
    BY <1>3, <2>1
<1>6. SubSeq(d, 1, n) \in [1..n -> Segments]
  BY <1>3, <1>4, LenProperties
<1> QED
  BY <1>2, <1>4, <1>5, <1>6, VDiskConstants DEF Contents

\* What the ways a rewritten file can end have in common: d of the data is in the container;
\* the call is done, the index being written whole or short, or it is not.
Part(d, data) == Len(d) <= Len(data) /\ \A i \in 1..Len(d) : d[i] = data[i]
EntryOf(s, data) == [store |-> s, size |-> Len(data)]
TextWith(n, s, data) == [MirrorText EXCEPT ![n] = EntryOf(s, data)]
Done(n, s, data, d, g) ==
  /\ Loads /\ saved' \in {TextWith(n, s, data), Torn}
  /\ mirror' = [text |-> TextWith(n, s, data), dirty |-> FALSE]
  /\ h' = [g EXCEPT !.index[n] = EntryOf(s, data)] /\ ikey' = ikey
  /\ kept' = [kept EXCEPT ![s] = data]
  /\ cut' = (cut \ {s}) \cup Short(s, data, Len(d))
Undone(n, s, data, d, g, owed) ==
  /\ saved' = saved /\ kept' = [kept EXCEPT ![s] = owed]
  /\ cut' = cut \cup Short(s, data, Len(d))
  /\ \/ Restarted
     \/ /\ h' \in {[h EXCEPT !.expired = FALSE], g, [g EXCEPT !.index[n] = EntryOf(s, data)]}
        /\ \/ mirror' = mirror
           \/ Loads /\ mirror' = [text |-> TextWith(n, s, data), dirty |-> TRUE]
        /\ ikey' = ikey

LEMMA RewrittenEnds ==
  ASSUME written \in Nat, NEW n \in Names, NEW s \in Stores, NEW data, NEW g, NEW owed,
         Len(data) \in 0..MaxLen, data \in [1..Len(data) -> 0..(written + 1)],
         Rewritten(n, s, data, g, owed)
  PROVE  \/ h' = [h EXCEPT !.expired = FALSE] /\ UNCHANGED store
         \/ /\ data \in Contents
            /\ \E d \in Contents :
                 /\ Part(d, data) /\ Replaced(s, d)
                 /\ Done(n, s, data, d, g) \/ Undone(n, s, data, d, g, owed)
<1>1. ASSUME written < MaxWrites
      PROVE  data \in Contents
  <2>1. data \in [1..Len(data) -> Segments]
    BY <1>1, VDiskConstants DEF Segments
  <2> QED
    BY <2>1 DEF Contents
<1>2. \/ h' = [h EXCEPT !.expired = FALSE] /\ UNCHANGED store
      \/ /\ Replaced(s, data)
         /\ Done(n, s, data, data, g) \/ Undone(n, s, data, data, g, owed)
      \/ \E m \in 0..Len(data) :
           /\ Replaced(s, SubSeq(data, 1, m))
           /\ \/ /\ Loads /\ saved' \in {TextWith(n, s, data), Torn}
                 /\ mirror' = [text |-> TextWith(n, s, data), dirty |-> FALSE]
                 /\ h' = [g EXCEPT !.index[n] = EntryOf(s, data)] /\ ikey' = ikey
                 /\ Acknowledged(s, data, m)
              \/ /\ saved' = saved /\ Failed(s, data, m, owed)
                 /\ \/ Restarted
                    \/ /\ h' \in {[h EXCEPT !.expired = FALSE], g,
                                 [g EXCEPT !.index[n] = EntryOf(s, data)]}
                       /\ \/ mirror' = mirror
                          \/ Loads /\ mirror' = [text |-> TextWith(n, s, data), dirty |-> TRUE]
                       /\ ikey' = ikey
  BY Zenon DEF Rewritten, Listed, ListedShort, ListedInMemory, Unlisted, Acknowledged, Failed,
     Done, Undone, TextWith, EntryOf
<1>3. CASE Replaced(s, data) /\ (Done(n, s, data, data, g) \/ Undone(n, s, data, data, g, owed))
  <2>1. data \in Contents
    BY <1>1, <1>3 DEF Replaced
  <2>2. Part(data, data)
    BY DEF Part
  <2> QED
    BY <1>3, <2>1, <2>2
<1>4. ASSUME NEW m \in 0..Len(data), Replaced(s, SubSeq(data, 1, m))
      PROVE  /\ data \in Contents /\ SubSeq(data, 1, m) \in Contents
             /\ Part(SubSeq(data, 1, m), data) /\ Len(SubSeq(data, 1, m)) = m
  <2>1. data \in Contents
    BY <1>1, <1>4 DEF Replaced
  <2>2. /\ SubSeq(data, 1, m) \in Contents /\ Len(SubSeq(data, 1, m)) = m
        /\ \A i \in 1..m : SubSeq(data, 1, m)[i] = data[i]
    BY <2>1, PrefixIs
  <2>3. m <= Len(data)
    BY VDiskConstants
  <2> QED
    BY <2>1, <2>2, <2>3 DEF Part
<1>5. ASSUME NEW m \in 0..Len(data), Len(SubSeq(data, 1, m)) = m
      PROVE  /\ Acknowledged(s, data, m) =>
                  /\ kept' = [kept EXCEPT ![s] = data]
                  /\ cut' = (cut \ {s}) \cup Short(s, data, Len(SubSeq(data, 1, m)))
             /\ Failed(s, data, m, owed) =>
                  /\ kept' = [kept EXCEPT ![s] = owed]
                  /\ cut' = cut \cup Short(s, data, Len(SubSeq(data, 1, m)))
  BY <1>5, Zenon DEF Acknowledged, Failed
<1> QED
  BY <1>2, <1>3, <1>4, <1>5, Zenon DEF Done, Undone

\* What is owed was kept before, and the data has it as long as nothing was cut.
Covers(s, data, owed) ==
  owed # None =>
    /\ kept[s] # None /\ Len(owed) <= Len(kept[s]) /\ (s \notin cut => Len(owed) <= Len(data))
    /\ \A i \in 1..Len(owed) :
         owed[i] <= kept[s][i] /\ (i <= Len(data) => owed[i] <= data[i])

LEMMA RewrittenChanges ==
  ASSUME Relied, Shape, SegmentTypes, h.unlocked,
         NEW n \in Names, NEW s \in Stores, NEW data, NEW g,
         NEW owed \in Contents \cup {None},
         Lists(h.index, n, s) \/ (n \in Files /\ h.index[n] = None /\ boxes[s] = None),
         Len(data) \in 0..MaxLen, data \in [1..Len(data) -> 0..(written + 1)],
         Covers(s, data, owed),
         SameView(g, h), Thinner(g, h),
         Len(data) = 0 \/ \A i \in 1..MaxLen : g.segs[<<n, i>>] = None,
         Rewritten(n, s, data, g, owed)
  PROVE  StoreTypes' /\ (Looks \/ Changes)
<1> DEFINE e == EntryOf(s, data)
           text == TextWith(n, s, data)
           fresh == [h EXCEPT !.expired = FALSE]
           entered == [g EXCEPT !.index[n] = e]
<1>0. StoreTypes /\ written \in Nat /\ h.passphrase \in Passwords
  BY VDiskConstants DEF Relied, StoreTypes
<1>1. SameView(fresh, h) /\ Thinner(fresh, h)
  BY FreshView, SameIsThinner DEF Shape
<1>2. /\ Shaped(entered) /\ entered.unlocked = h.unlocked /\ entered.passphrase = h.passphrase
      /\ entered.index = [h.index EXCEPT ![n] = e] /\ SameCache(entered, g)
  <2> HIDE DEF e
  <2>1. Shaped(g) /\ g.unlocked = h.unlocked /\ g.passphrase = h.passphrase /\ g.index = h.index
    BY DEF SameView
  <2>2. /\ Shaped(entered) /\ entered.unlocked = g.unlocked /\ entered.passphrase = g.passphrase
        /\ entered.index = [g.index EXCEPT ![n] = e] /\ SameCache(entered, g)
    BY <2>1, IndexField
  <2> HIDE DEF entered
  <2> QED
    BY <2>1, <2>2
<1>3. e \in Entry /\ e # None /\ e.store = s /\ e.size = Len(data)
  BY Markers DEF Entry, EntryOf
<1>4. /\ h.index \in Indexes /\ (saved # Torn => saved \in Indexes)
      /\ Loads => MirrorText \in Indexes
      /\ mirror # None => mirror.text \in Indexes
  BY DEF MirrorText, Indexes, Loads
<1>5. \A x \in Indexes : [x EXCEPT ![n] = e] \in [Names -> Entry \cup {None}]
  BY <1>0, <1>3, IndexTypes
<1>6. ASSUME Loads
      PROVE  text \in [Names -> Entry \cup {None}] /\ \E x \in Indexes : text = [x EXCEPT ![n] = e]
  BY <1>4, <1>5, <1>6 DEF TextWith
<1>7. CASE h' = fresh /\ UNCHANGED store
  <2>1. SameView(h', h) /\ Thinner(h', h)
    BY <1>1, <1>7
  <2>2. StoreTypes'
    BY <1>0, <1>7, <2>1 DEF StoreTypes, SameView, store
  <2> QED
    BY <1>7, <2>1, <2>2 DEF Looks
<1>8. ASSUME data \in Contents, NEW d \in Contents, Part(d, data), Replaced(s, d),
             Done(n, s, data, d, g) \/ Undone(n, s, data, d, g, owed)
      PROVE  StoreTypes' /\ Changes
  <2> DEFINE c == [data |-> d, pw |-> h.passphrase, salt |-> written + 1, name |-> TempName(s)]
  <2>1. /\ written < MaxWrites /\ written' = written + 1 /\ boxes' = [boxes EXCEPT ![s] = c]
    BY <1>8 DEF Replaced
  <2>2. /\ Len(d) \in Nat /\ Len(data) \in Nat /\ Len(d) <= Len(data)
        /\ \A i \in 1..Len(d) : d[i] = data[i]
        /\ \A i \in 1..Len(data) : data[i] \in 0..(written + 1)
    <3>1. Len(d) \in Nat /\ Len(data) \in Nat
      BY <1>8, ContentFacts, VDiskConstants
    <3>2. Len(d) <= Len(data) /\ \A i \in 1..Len(d) : d[i] = data[i]
      BY <1>8 DEF Part
    <3>3. \A i \in 1..Len(data) : data[i] \in 0..(written + 1)
      OBVIOUS
    <3> QED
      BY <3>1, <3>2, <3>3
  <2>3. /\ c \in Box /\ written' \in 0..MaxWrites /\ written <= written'
        /\ c.data = d /\ c.name = TempName(s) /\ c.pw = h.passphrase
        /\ \A i \in 1..Len(d) : d[i] <= written'
    <3>1. written' \in 0..MaxWrites /\ written + 1 \in Segments
      BY <1>0, <2>1, VDiskConstants DEF Segments
    <3>2. c \in Box
      BY <1>0, <1>8, <3>1, NameFacts DEF Box
    <3>3. \A i \in 1..Len(d) : d[i] <= written'
      BY <1>0, <2>1, <2>2
    <3> QED
      BY <1>0, <2>1, <3>1, <3>2, <3>3
  <2> HIDE DEF c
  <2>4. /\ s \notin cut' => Len(d) = Len(data)
        /\ Undone(n, s, data, d, g, owed) => (s \in cut => s \in cut')
        /\ \A t \in Stores \ {s} : t \in cut' <=> t \in cut
        /\ cut' \subseteq Stores
    <3>1. Short(s, data, Len(d)) \in {{s}, {}} /\ (Short(s, data, Len(d)) = {} => Len(d) = Len(data))
      BY <2>2 DEF Short
    <3>2. cut' = (cut \ {s}) \cup Short(s, data, Len(d)) \/ cut' = cut \cup Short(s, data, Len(d))
      BY <1>8 DEF Done, Undone
    <3>3. Undone(n, s, data, d, g, owed) => cut \subseteq cut'
      BY DEF Undone
    <3>4. cut \subseteq Stores
      BY <1>0 DEF StoreTypes
    <3> QED
      BY <3>1, <3>2, <3>3, <3>4
  <2>5. PICK k \in Contents \cup {None} :
          /\ kept' = [kept EXCEPT ![s] = k]
          /\ (k = data /\ Done(n, s, data, d, g)) \/ (k = owed /\ Undone(n, s, data, d, g, owed))
    BY <1>8 DEF Done, Undone
  <2>6. k # None => /\ s \notin cut' => Len(k) <= Len(data)
                    /\ \A i \in 1..Len(k) :
                         k[i] <= written' /\ (i <= Len(d) => k[i] <= d[i])
    <3>1. CASE k = data
      BY <1>0, <2>1, <2>2, <3>1
    <3>2. CASE k = owed /\ Undone(n, s, data, d, g, owed)
      <4> SUFFICES ASSUME owed # None
                   PROVE  /\ s \notin cut' => Len(owed) <= Len(data)
                          /\ \A i \in 1..Len(owed) :
                               owed[i] <= written' /\ (i <= Len(d) => owed[i] <= d[i])
        BY <3>2
      <4>1. s \notin cut' => Len(owed) <= Len(data)
        BY <2>4, <3>2 DEF Covers
      <4>2. ASSUME NEW i \in 1..Len(owed)
            PROVE  owed[i] <= written' /\ (i <= Len(d) => owed[i] <= d[i])
        <5>1. /\ owed \in Contents /\ kept[s] \in Contents
              /\ Len(owed) \in Nat /\ Len(kept[s]) \in Nat /\ Len(owed) <= Len(kept[s])
          BY <1>0, ContentFacts, VDiskConstants DEF Covers, StoreTypes
        <5>2. i \in 1..Len(kept[s]) /\ owed[i] \in Nat /\ kept[s][i] \in Nat
          BY <5>1, ContentFacts DEF Segments
        <5>3. kept[s][i] <= written
          BY <5>1, <5>2 DEF Covers, Relied, AllThere
        <5>4. owed[i] <= kept[s][i] /\ (i <= Len(data) => owed[i] <= data[i])
          BY DEF Covers
        <5> QED
          BY <1>0, <2>1, <2>2, <5>2, <5>3, <5>4
      <4> QED
        BY <4>1, <4>2
    <3> QED
      BY <2>5, <3>1, <3>2
  <2>7. h' \in {fresh, g, entered} \/ Emptied(h')
    BY <1>8, RestartLocks DEF Done, Undone
  <2>8. Forgets(n, s, k)
    <3>1. Thinner(entered, h)
      BY <1>2, SameCacheIsThinner
    <3>2. Thinner(h', h)
      <4> HIDE DEF entered, fresh
      <4> QED
        BY <1>1, <2>7, <3>1, EmptyIsThinner
    <3>3. CASE k = owed
      <4>1. k # None => \A i \in 1..Len(k) :
              kept[s] # None /\ i <= Len(kept[s]) /\ k[i] <= kept[s][i]
        <5> SUFFICES ASSUME owed # None, NEW i \in 1..Len(owed)
                     PROVE  kept[s] # None /\ i <= Len(kept[s]) /\ owed[i] <= kept[s][i]
          BY <3>3
        <5>1. kept[s] \in Contents /\ owed \in Contents
          BY <1>0 DEF StoreTypes, Covers
        <5>2. Len(kept[s]) \in Nat /\ Len(owed) \in Nat
          BY <5>1, ContentFacts, VDiskConstants
        <5> QED
          BY <5>2 DEF Covers
      <4> QED
        BY <3>2, <4>1 DEF Forgets
    <3>4. CASE k = data /\ Done(n, s, data, d, g)
      <4>1. h'.segs = g.segs
        <5>1. h' = entered
          BY <3>4 DEF Done
        <5> HIDE DEF entered
        <5> QED
          BY <1>2, <5>1 DEF SameCache
      <4>2. \A i \in 1..Len(k) : i \in 1..MaxLen
        BY <3>4, VDiskConstants
      <4> QED
        BY <3>2, <3>4, <4>1, <4>2 DEF Forgets
    <3> QED
      BY <2>5, <3>3, <3>4
  <2>9. h'.unlocked => h'.index \in {h.index, [h.index EXCEPT ![n] = e]}
    <3> HIDE DEF entered, e, fresh
    <3>1. CASE Emptied(h')
      BY <3>1 DEF Emptied
    <3>2. CASE h' = fresh \/ h' = g
      BY <1>1, <3>2 DEF SameView
    <3>3. CASE h' = entered
      BY <1>2, <3>3
    <3> QED
      BY <2>7, <3>1, <3>2, <3>3
  <2>10. \A y \in Indexes' :
           \/ \E x \in Indexes : y = [x EXCEPT ![n] = e]
           \/ y \in Indexes /\ Undone(n, s, data, d, g, owed)
    <3>1. CASE Done(n, s, data, d, g)
      <4>1. h'.index = [h.index EXCEPT ![n] = e]
        <5>1. h' = entered
          BY <3>1 DEF Done
        <5> HIDE DEF entered, e
        <5> QED
          BY <1>2, <5>1
      <4>2. Loads /\ saved' \in {text, Torn} /\ mirror'.text = text
        BY <3>1 DEF Done
      <4>3. Indexes' \subseteq {text, [h.index EXCEPT ![n] = e]}
        <5> HIDE DEF text, e
        <5> QED
          BY <4>1, <4>2 DEF Indexes
      <4> QED
        BY <1>4, <1>6, <4>2, <4>3
    <3>2. CASE Undone(n, s, data, d, g, owed)
      <4>1. saved' = saved /\ (mirror' = None \/ mirror' = mirror \/ (Loads /\ mirror'.text = text))
        BY <3>2 DEF Undone, Restarted
      <4>2. \A y \in Indexes' : y \in Indexes \/ (Loads /\ y = text) \/ y = [h.index EXCEPT ![n] = e]
        <5> HIDE DEF text, e
        <5> QED
          BY <1>4, <2>9, <4>1 DEF Indexes
      <4> QED
        BY <1>4, <1>6, <3>2, <4>2
    <3> QED
      BY <1>8, <3>1, <3>2
  <2>11. \A y \in Indexes' : Enters(y, n, e, k) \/ StillLists(y, s, k)
    <3> SUFFICES ASSUME NEW y \in Indexes' PROVE Enters(y, n, e, k) \/ StillLists(y, s, k)
      OBVIOUS
    <3>1. CASE \E x \in Indexes : y = [x EXCEPT ![n] = e]
      <4> HIDE DEF e
      <4> QED
        BY <1>3, <2>6, <3>1 DEF Enters
    <3>2. CASE y \in Indexes /\ k = owed /\ Undone(n, s, data, d, g, owed)
      BY <2>4, <3>2 DEF StillLists, Covers
    <3>3. CASE y \in Indexes /\ Done(n, s, data, d, g) /\ Undone(n, s, data, d, g, owed) /\ k # owed
      <4>1. kept' = [kept EXCEPT ![s] = owed] /\ kept' = [kept EXCEPT ![s] = k]
        BY <2>5, <3>3 DEF Undone
      <4>2. k = owed
        BY <1>0, <4>1 DEF StoreTypes
      <4> QED
        BY <3>3, <4>2
    <3> QED
      BY <2>5, <2>10, <3>1, <3>2, <3>3
  <2>12. StoreTypes'
    <3>1. boxes' \in [Stores -> Box \cup {None, Wiped}] /\ kept' \in [Stores -> Contents \cup {None}]
      BY <1>0, <2>1, <2>3, <2>5 DEF StoreTypes
    <3>2. /\ saved' \in [Names -> Entry \cup {None}] \cup {Torn}
          /\ mirror' # None => mirror'.text \in [Names -> Entry \cup {None}]
      <4>1. \/ Loads /\ saved' \in {text, Torn} /\ mirror'.text = text
            \/ /\ saved' = saved
               /\ mirror' = None \/ mirror' = mirror \/ (Loads /\ mirror'.text = text)
        BY <1>8 DEF Done, Undone, Restarted
      <4> HIDE DEF text
      <4> QED
        BY <1>0, <1>6, <4>1 DEF StoreTypes
    <3>3. /\ h'.index \in [Names -> Entry \cup {None}]
          /\ h'.unlocked => h'.passphrase \in Passwords
      <4> HIDE DEF entered, e, fresh
      <4>1. CASE Emptied(h')
        BY <4>1 DEF Emptied, EmptyIndex
      <4>2. CASE h' = fresh \/ h' = g
        BY <1>0, <1>1, <4>2 DEF SameView, StoreTypes
      <4>3. CASE h' = entered
        BY <1>0, <1>2, <1>4, <1>5, <4>3
      <4> QED
        BY <2>7, <4>1, <4>2, <4>3
    <3>4. ikey' \in Passwords \cup {None}
      <4>1. ikey' \in {ikey, None}
        BY <1>8 DEF Done, Undone, Restarted
      <4> QED
        BY <1>0, <4>1 DEF StoreTypes
    <3> QED
      BY <2>3, <2>4, <3>1, <3>2, <3>3, <3>4 DEF StoreTypes
  <2>13. Changed(n, s, e, c, k)
    <3>1. k # None => /\ c \in Box /\ (s \notin cut' => Len(k) <= Len(c.data))
                      /\ \A i \in 1..Len(k) :
                           k[i] <= written' /\ (i <= Len(c.data) => k[i] <= c.data[i])
      BY <2>3, <2>4, <2>6
    <3> HIDE DEF e
    <3> QED
      BY <1>3, <2>1, <2>3, <2>4, <2>5, <2>11, <3>1, VDiskConstants DEF Changed
  <2> QED
    BY <2>8, <2>12, <2>13 DEF Changes
<1>9. \/ h' = fresh /\ UNCHANGED store
      \/ /\ data \in Contents
         /\ \E d \in Contents :
              /\ Part(d, data) /\ Replaced(s, d)
              /\ Done(n, s, data, d, g) \/ Undone(n, s, data, d, g, owed)
  BY <1>0, RewrittenEnds
<1> QED
  BY <1>7, <1>8, <1>9

\* The content a write starts from holds what can be relied on.
HeldBy(s, old) ==
  /\ kept[s] \in Contents /\ (s \notin cut => Len(kept[s]) <= Len(old))
  /\ \A i \in 1..Len(kept[s]) :
       kept[s][i] <= written /\ (i <= Len(old) => kept[s][i] <= old[i])

LEMMA PlainHolds ==
  ASSUME Relied, h.unlocked, NEW n \in Names, h.index[n] # None, PlainOpens(h.index[n])
  PROVE  LET e == h.index[n]
             old == Plain(e) IN
         /\ e.store \in Stores /\ Lists(h.index, n, e.store)
         /\ old \in Contents /\ \A i \in 1..Len(old) : old[i] <= written
         /\ kept[e.store] # None => HeldBy(e.store, old)
<1> DEFINE e == h.index[n]
           s == e.store
           b == boxes[s]
           old == Plain(e)
<1>0. StoreTypes /\ OneName /\ AllListed /\ AllThere
  BY DEF Relied
<1>1. e \in Entry /\ s \in Stores /\ e.size \in 0..MaxLen /\ Lists(h.index, n, s)
  <2>1. e \in Entry
    BY <1>0 DEF StoreTypes
  <2> QED
    BY <2>1, EntryFields DEF Lists
<1>2. h.index \in Indexes
  BY DEF Indexes
<1>3. kept[s] # None =>
        /\ kept[s] \in Contents /\ IsBox(b)
        /\ s \notin cut => Len(kept[s]) <= e.size /\ Len(kept[s]) <= Len(b.data)
        /\ \A i \in 1..Len(kept[s]) :
             kept[s][i] <= written /\ (i <= Len(b.data) => kept[s][i] <= b.data[i])
  <2> SUFFICES ASSUME kept[s] # None
               PROVE  /\ kept[s] \in Contents /\ IsBox(b)
                      /\ s \notin cut => Len(kept[s]) <= e.size /\ Len(kept[s]) <= Len(b.data)
                      /\ \A i \in 1..Len(kept[s]) :
                           kept[s][i] <= written /\ (i <= Len(b.data) => kept[s][i] <= b.data[i])
    OBVIOUS
  <2>1. PICK m \in Names : Lists(h.index, m, s) /\ (s \notin cut => Len(kept[s]) <= h.index[m].size)
    BY <1>0, <1>1, <1>2 DEF AllListed
  <2>2. m = n
    BY <1>0, <1>1, <1>2, <2>1 DEF OneName
  <2> QED
    BY <1>0, <1>1, <2>1, <2>2 DEF AllThere, StoreTypes
<1>4. ASSUME e.size = 0
      PROVE  /\ old \in Contents /\ \A i \in 1..Len(old) : old[i] <= written
             /\ kept[s] # None => HeldBy(s, old)
  <2>1. old = <<>>
    BY <1>4 DEF Plain
  <2>2. <<>> \in Contents /\ Len(<<>>) = 0
    BY VDiskConstants DEF Contents
  <2>3. kept[s] # None => Len(kept[s]) \in Nat /\ (s \notin cut => Len(kept[s]) = 0)
    BY <1>3, <1>4, ContentFacts, VDiskConstants
  <2> HIDE DEF old, s
  <2> QED
    BY <1>1, <1>3, <2>1, <2>2, <2>3 DEF HeldBy
<1>5. ASSUME e.size # 0
      PROVE  /\ old \in Contents /\ \A i \in 1..Len(old) : old[i] <= written
             /\ kept[s] # None => HeldBy(s, old)
  <2>1. IsBox(b)
    BY <1>5 DEF PlainOpens
  <2>2. b \in Box
    BY <1>0, <1>1, <2>1 DEF StoreTypes, IsBox
  <2>3. b.data \in Contents /\ Len(b.data) \in 0..MaxLen
    BY <2>2, BoxFields
  <2> DEFINE z == Shorter(e.size, b.data)
  <2>4. z \in 0..Len(b.data) /\ (z = e.size \/ z = Len(b.data))
    BY <1>1, <2>3, ShorterIs, VDiskConstants
  <2>5. old = SubSeq(b.data, 1, z)
    BY <1>5 DEF Plain
  <2> HIDE DEF z, old
  <2>6. old \in Contents /\ Len(old) = z /\ \A i \in 1..z : old[i] = b.data[i]
    BY <2>3, <2>4, <2>5, PrefixIs
  <2>7. \A i \in 1..Len(b.data) : b.data[i] <= written
    BY <1>0, <1>1, <2>1 DEF AllThere
  <2>8. \A i \in 1..Len(old) : old[i] <= written
    BY <2>3, <2>4, <2>6, <2>7
  <2>9. kept[s] # None /\ s \notin cut => Len(kept[s]) <= z
    BY <1>3, <2>4
  <2>10. kept[s] # None => \A i \in 1..Len(kept[s]) : i <= Len(old) => kept[s][i] <= old[i]
    <3> SUFFICES ASSUME kept[s] # None, NEW i \in 1..Len(kept[s]), i <= Len(old)
                 PROVE  kept[s][i] <= old[i]
      OBVIOUS
    <3>1. Len(kept[s]) \in Nat /\ z \in Nat
      BY <1>3, <2>3, <2>4, ContentFacts, VDiskConstants
    <3>2. i \in 1..z /\ i <= Len(b.data)
      BY <2>3, <2>4, <2>6, <3>1
    <3> QED
      BY <1>3, <2>6, <3>2
  <2> QED
    BY <1>3, <2>6, <2>8, <2>9, <2>10 DEF HeldBy
<1> QED
  BY <1>1, <1>4, <1>5

LEMMA WriteChanges ==
  ASSUME Relied, Shape, SegmentTypes, NEW n \in Names, NEW i \in 1..MaxLen, Write(n, i)
  PROVE  h.unlocked /\ StoreTypes' /\ (Looks \/ Changes)
<1> DEFINE e == h.index[n]
           s == e.store
           old == Plain(e)
           len == IF i > Len(old) THEN i ELSE Len(old)
           data == [j \in 1..len |-> IF j = i \/ j > Len(old) THEN written + 1 ELSE old[j]]
           fresh == [h EXCEPT !.expired = FALSE]
           g == Invalidated(fresh, n, s)
<1>1. /\ h.unlocked /\ e # None /\ PlainOpens(e)
      /\ Rewritten(n, s, data, g, kept[s])
  BY Zenon DEF Write, Changing, Reading
<1>2. /\ SameView(g, h) /\ Thinner(g, h)
      /\ \A j \in 1..MaxLen : g.segs[<<n, j>>] = None
  BY Dropping
<1>3. /\ s \in Stores /\ Lists(h.index, n, s)
      /\ old \in Contents /\ \A j \in 1..Len(old) : old[j] <= written
      /\ kept[s] # None => HeldBy(s, old)
  BY <1>1, PlainHolds
<1> HIDE DEF e, s, old, g
<1>4. written \in Nat /\ old \in [1..Len(old) -> Nat] /\ Len(old) \in 0..MaxLen /\ MaxLen \in Nat
  BY <1>3, ContentFacts, VDiskConstants DEF Relied, StoreTypes, Segments
<1>5. len \in 0..MaxLen /\ Len(old) <= len
  BY <1>4
<1> HIDE DEF len
<1>6. data \in [1..len -> 0..(written + 1)] /\ Len(data) = len
  BY <1>3, <1>4, <1>5
<1>7. \A j \in 1..len : data[j] = written + 1 \/ (j <= Len(old) /\ data[j] = old[j])
  BY <1>3, <1>4, <1>5
<1> HIDE DEF data
<1>8. Covers(s, data, kept[s])
  <2> SUFFICES ASSUME kept[s] # None
               PROVE  /\ Len(kept[s]) <= Len(kept[s]) /\ (s \notin cut => Len(kept[s]) <= Len(data))
                      /\ \A j \in 1..Len(kept[s]) :
                           kept[s][j] <= kept[s][j] /\ (j <= Len(data) => kept[s][j] <= data[j])
    BY DEF Covers
  <2>1. /\ Len(kept[s]) \in Nat /\ (s \notin cut => Len(kept[s]) <= Len(old))
        /\ \A j \in 1..Len(kept[s]) :
             kept[s][j] \in Nat /\ kept[s][j] <= written /\ (j <= Len(old) => kept[s][j] <= old[j])
    BY <1>3, ContentFacts, VDiskConstants DEF Segments, HeldBy
  <2>2. \A j \in 1..Len(kept[s]) : j <= Len(data) => kept[s][j] <= data[j]
    <3> SUFFICES ASSUME NEW j \in 1..Len(kept[s]), j <= Len(data) PROVE kept[s][j] <= data[j]
      OBVIOUS
    <3>1. j \in 1..len
      BY <1>5, <1>6, <2>1
    <3> QED
      BY <1>4, <1>7, <2>1, <3>1
  <2> QED
    BY <1>4, <1>5, <1>6, <2>1, <2>2
<1>9. kept[s] \in Contents \cup {None}
  BY <1>3 DEF HeldBy
<1>10. Len(data) \in 0..MaxLen /\ data \in [1..Len(data) -> 0..(written + 1)]
  BY <1>5, <1>6
<1> QED
  BY <1>1, <1>2, <1>3, <1>8, <1>9, <1>10, RewrittenChanges

LEMMA TruncateChanges ==
  ASSUME Relied, Shape, SegmentTypes, NEW n \in Names, NEW len \in 0..MaxLen, Truncate(n, len)
  PROVE  h.unlocked /\ StoreTypes' /\ (Looks \/ Changes)
<1> DEFINE e == h.index[n]
           s == e.store
           old == Plain(e)
           data == [j \in 1..len |-> IF j <= Len(old) THEN old[j] ELSE written + 1]
           fresh == [h EXCEPT !.expired = FALSE]
           g == Invalidated(fresh, n, s)
           z == Shorter(len, kept[s])
           owed == IF kept[s] = None THEN None ELSE SubSeq(kept[s], 1, z)
<1>1. /\ h.unlocked /\ e # None /\ PlainOpens(e)
      /\ Rewritten(n, s, data, g, owed)
  BY Zenon DEF Truncate, Changing, Reading
<1>2. /\ SameView(g, h) /\ Thinner(g, h)
      /\ \A j \in 1..MaxLen : g.segs[<<n, j>>] = None
  BY Dropping
<1>3. /\ s \in Stores /\ Lists(h.index, n, s)
      /\ old \in Contents /\ \A j \in 1..Len(old) : old[j] <= written
      /\ kept[s] # None => HeldBy(s, old)
  BY <1>1, PlainHolds
<1> HIDE DEF e, s, old, g
<1>4. /\ written \in Nat /\ old \in [1..Len(old) -> Nat] /\ Len(old) \in 0..MaxLen
      /\ MaxLen \in Nat /\ len \in Nat
  BY <1>3, ContentFacts, VDiskConstants DEF Relied, StoreTypes, Segments
<1>5. data \in [1..len -> 0..(written + 1)] /\ Len(data) = len
  BY <1>3, <1>4
<1>6. \A j \in 1..len : data[j] = written + 1 \/ (j <= Len(old) /\ data[j] = old[j])
  BY <1>4
<1> HIDE DEF data, z
<1>7. ASSUME kept[s] # None
      PROVE  /\ owed \in Contents /\ Len(owed) <= Len(kept[s]) /\ Len(owed) <= Len(data)
             /\ \A j \in 1..Len(owed) : owed[j] <= kept[s][j] /\ owed[j] <= data[j]
  <2>1. owed = SubSeq(kept[s], 1, z)
    BY <1>7
  <2>2. kept[s] \in Contents /\ Len(kept[s]) \in Nat
    BY <1>3, <1>7, ContentFacts, VDiskConstants DEF HeldBy
  <2>3. z \in 0..Len(kept[s]) /\ z <= len
    BY <1>4, <2>2, ShorterIs DEF z
  <2> HIDE DEF owed
  <2>4. owed \in Contents /\ Len(owed) = z /\ \A j \in 1..z : owed[j] = kept[s][j]
    BY <2>1, <2>2, <2>3, PrefixIs
  <2>5. \A j \in 1..z : owed[j] <= data[j] /\ owed[j] <= kept[s][j]
    <3> SUFFICES ASSUME NEW j \in 1..z PROVE owed[j] <= data[j] /\ owed[j] <= kept[s][j]
      OBVIOUS
    <3>1. j \in 1..Len(kept[s]) /\ j \in 1..len
      BY <1>4, <2>2, <2>3
    <3>2. /\ kept[s][j] <= written /\ (j <= Len(old) => kept[s][j] <= old[j])
          /\ owed[j] = kept[s][j] /\ kept[s][j] \in Int
      BY <1>3, <1>7, <2>2, <2>4, <3>1, ContentFacts DEF Segments, HeldBy
    <3>3. data[j] = written + 1 \/ (j <= Len(old) /\ data[j] = old[j])
      BY <1>6, <3>1
    <3> QED
      BY <1>4, <3>2, <3>3
  <2> QED
    BY <1>4, <1>5, <2>2, <2>3, <2>4, <2>5
<1>8. owed \in Contents \cup {None} /\ Covers(s, data, owed)
  BY <1>7 DEF Covers
<1>9. Len(data) \in 0..MaxLen /\ data \in [1..Len(data) -> 0..(written + 1)]
  BY <1>5
<1> HIDE DEF owed
<1> QED
  BY <1>1, <1>2, <1>3, <1>8, <1>9, RewrittenChanges

LEMMA CreateChanges ==
  ASSUME Relied, Shape, SegmentTypes, NEW f \in Files, NEW s \in Stores, Create(f, s)
  PROVE  h.unlocked /\ StoreTypes' /\ (Looks \/ Changes)
<1> DEFINE fresh == [h EXCEPT !.expired = FALSE]
<1>1. /\ h.unlocked /\ h.index[f] = None /\ boxes[s] = None
      /\ Rewritten(f, s, <<>>, fresh, None)
  BY Zenon DEF Create, Changing, Reading
<1>2. SameView(fresh, h) /\ Thinner(fresh, h)
  BY FreshView, SameIsThinner DEF Shape
<1>3. f \in Names
  BY NameFacts
<1>4. /\ Len(<<>>) \in 0..MaxLen /\ <<>> \in [1..Len(<<>>) -> 0..(written + 1)]
      /\ Len(<<>>) = 0
  BY VDiskConstants
<1>5. Covers(s, <<>>, None)
  BY DEF Covers
<1> HIDE DEF fresh
<1> QED
  BY <1>1, <1>2, <1>3, <1>4, <1>5, RewrittenChanges

LEMMA DeleteChanges ==
  ASSUME Relied, Shape, SegmentTypes, NEW n \in Names, Delete(n)
  PROVE  h.unlocked /\ StoreTypes' /\ Changes
<1> DEFINE e == h.index[n]
           s == e.store
           fresh == [h EXCEPT !.expired = FALSE]
           dropped == Invalidated(fresh, n, s)
           text == [MirrorText EXCEPT ![n] = None]
           entered == [dropped EXCEPT !.index[n] = None]
<1>0. StoreTypes
  BY DEF Relied
<1>1. /\ h.unlocked /\ e # None /\ UNCHANGED written
      /\ boxes' = [boxes EXCEPT ![s] = Wiped] /\ kept' = [kept EXCEPT ![s] = None]
      /\ cut' = cut \ {s}
      /\ \/ /\ Loads /\ saved' \in {text, Torn} /\ mirror' = [text |-> text, dirty |-> FALSE]
            /\ h' = entered /\ ikey' = ikey
         \/ /\ h' \in {fresh, dropped} /\ saved' = saved /\ ikey' = ikey
            /\ mirror' = mirror \/ (Loads /\ mirror' = [text |-> text, dirty |-> TRUE])
         \/ Restarted /\ saved' = saved
  BY Zenon DEF Delete, Changing, Reading, Listed, ListedShort, ListedInMemory, Unlisted
<1>2. SameView(fresh, h) /\ Thinner(fresh, h)
  BY FreshView, SameIsThinner DEF Shape
<1>3. SameView(dropped, h) /\ Thinner(dropped, h)
  BY Dropping
<1>4. /\ entered.unlocked = h.unlocked /\ entered.passphrase = h.passphrase
      /\ entered.index = [h.index EXCEPT ![n] = None] /\ SameCache(entered, dropped)
  <2> HIDE DEF dropped
  <2>1. /\ Shaped(dropped) /\ dropped.unlocked = h.unlocked /\ dropped.passphrase = h.passphrase
        /\ dropped.index = h.index
    BY <1>3 DEF SameView
  <2>2. /\ entered.unlocked = dropped.unlocked /\ entered.passphrase = dropped.passphrase
        /\ entered.index = [dropped.index EXCEPT ![n] = None] /\ SameCache(entered, dropped)
    BY <2>1, IndexField
  <2> HIDE DEF entered
  <2> QED
    BY <2>1, <2>2
<1>5. s \in Stores /\ Lists(h.index, n, s)
  <2>1. e \in Entry
    BY <1>0, <1>1 DEF StoreTypes
  <2> QED
    BY <1>1, <2>1, EntryFields DEF Lists
<1> HIDE DEF e, s, fresh, dropped, entered
<1>6. /\ h.index \in Indexes /\ (saved # Torn => saved \in Indexes)
      /\ Loads => MirrorText \in Indexes
      /\ mirror # None => mirror.text \in Indexes
  BY <1>1 DEF MirrorText, Indexes, Loads
<1>7. \A x \in Indexes : [x EXCEPT ![n] = None] \in [Names -> Entry \cup {None}]
  BY <1>0, IndexTypes
<1>8. /\ saved' \in {saved, Torn} \/ (Loads /\ saved' = text)
      /\ ikey' \in {ikey, None}
      /\ mirror' # None => mirror' = mirror \/ (Loads /\ mirror'.text = text)
  BY <1>1 DEF Restarted
<1>9. Emptied(h') \/ SameView(h', h) \/ h' = entered
  BY <1>1, <1>2, <1>3, RestartLocks
<1>10. /\ h'.unlocked => /\ h'.index \in {h.index, [h.index EXCEPT ![n] = None]}
                         /\ h'.passphrase = h.passphrase
       /\ h'.index \in {EmptyIndex, h.index, [h.index EXCEPT ![n] = None]}
  BY <1>4, <1>9 DEF Emptied, SameView
<1>11. Loads => /\ text \in [Names -> Entry \cup {None}]
                /\ \E x \in Indexes : text = [x EXCEPT ![n] = None]
  BY <1>6, <1>7
<1> HIDE DEF text
<1>12. StoreTypes'
  <2>1. boxes' \in [Stores -> Box \cup {None, Wiped}] /\ kept' \in [Stores -> Contents \cup {None}]
    BY <1>0, <1>1 DEF StoreTypes
  <2>2. EmptyIndex \in [Names -> Entry \cup {None}]
    BY DEF EmptyIndex
  <2>3. h'.index \in [Names -> Entry \cup {None}]
    BY <1>6, <1>7, <1>10, <2>2, <1>0 DEF StoreTypes
  <2>4. h'.unlocked => h'.passphrase \in Passwords
    BY <1>0, <1>1, <1>10 DEF StoreTypes
  <2> QED
    BY <1>0, <1>1, <1>8, <1>11, <2>1, <2>3, <2>4 DEF StoreTypes
<1>13. \A y \in Indexes' : y \in Indexes \/ \E x \in Indexes : y = [x EXCEPT ![n] = None]
  <2>1. \A y \in Indexes' : y \in Indexes \/ (Loads /\ y = text) \/ y = [h.index EXCEPT ![n] = None]
    BY <1>6, <1>8, <1>10 DEF Indexes
  <2> QED
    BY <1>6, <1>11, <2>1
<1>14. \A y \in Indexes' : Enters(y, n, None, None) \/ StillLists(y, s, None)
  BY <1>13 DEF Enters, StillLists
<1>15. written' \in Nat /\ written <= written' /\ Wiped \notin Box
  BY <1>0, <1>1, Markers, VDiskConstants DEF StoreTypes
<1>16. Forgets(n, s, None)
  <2>1. h' \in {fresh, dropped, entered} \/ Emptied(h')
    BY <1>1, RestartLocks
  <2>2. Thinner(entered, h)
    BY <1>3, <1>4, SameCacheIsThinner
  <2> QED
    BY <1>2, <1>3, <2>1, <2>2, EmptyIsThinner DEF Forgets
<1>17. Changed(n, s, None, Wiped, None)
  BY <1>1, <1>5, <1>14, <1>15 DEF Changed
<1> QED
  BY <1>1, <1>5, <1>12, <1>16, <1>17 DEF Changes
-----------------------------------------------------------------------------
(***************************************************************************)
(* Induction over numbers, as the least one that is not as claimed.        *)
(***************************************************************************)
LEMMA LeastNumber ==
  ASSUME NEW T \in SUBSET Nat, T # {}
  PROVE  \E m \in T : \A k \in T : m <= k
<1> DEFINE R == OpToRel(<, Nat)
<1>1. IsWellFoundedOn(R, Nat)
  BY NatLessThanWellFounded
<1>2. R = {ss \in Nat \X Nat : ss[1] < ss[2]}
  BY DEF OpToRel
<1> HIDE DEF R
<1>3. PICK m \in T : \A k \in T : <<k, m>> \notin R
  BY <1>1, WFMin
<1>4. \A k \in T : ~(k < m)
  BY <1>2, <1>3
<1>5. m \in Nat /\ \A k \in T : k \in Nat
  OBVIOUS
<1> QED
  BY <1>3, <1>4, <1>5

\* A set that has 0 and with every number the next one, up to n, has all of these.
LEMMA UpTo ==
  ASSUME NEW n \in Nat, NEW G, 0 \in G, \A j \in 1..n : j - 1 \in G => j \in G
  PROVE  \A j \in 0..n : j \in G
<1> DEFINE T == {j \in 0..n : j \notin G}
<1> SUFFICES ASSUME T # {} PROVE FALSE
  OBVIOUS
<1>1. T \in SUBSET Nat
  OBVIOUS
<1>2. PICK m \in T : \A k \in T : m <= k
  BY <1>1, LeastNumber
<1>3. m \in 1..n /\ m - 1 \in 0..n /\ m - 1 \notin T
  BY <1>2
<1> QED
  BY <1>3

(***************************************************************************)
(* Reading ahead, one segment after the other.                             *)
(***************************************************************************)
LEMMA ReadAheadRuns ==
  ASSUME NEW c, NEW n, NEW i, NEW b, NEW kek
  PROVE  \E after :
           /\ after[0] = c
           /\ \A j \in 1..Ahead : after[j] = Fetched(after[j - 1], n, i + j, b, kek)
           /\ ReadAhead(c, n, i, b, kek) = after[Ahead]
<1> DEFINE Runs(a, m) ==
             a = [j \in 0..m |-> IF j = 0 THEN c ELSE Fetched(a[j - 1], n, i + j, b, kek)]
           G == {m \in 0..Ahead : \E a : Runs(a, m)}
<1>0. Ahead \in Nat
  BY VDiskConstants
<1>1. 0 \in G
  <2> DEFINE d == [j \in 0..0 |-> c]
  <2>1. d = [j \in 0..0 |-> d[j]] /\ \A j \in 0..0 : j = 0 /\ d[j] = c
    OBVIOUS
  <2> HIDE DEF d
  <2>2. Runs(d, 0)
    BY <2>1
  <2> HIDE DEF Runs
  <2> QED
    BY <1>0, <2>2
<1>2. ASSUME NEW m \in 1..Ahead, m - 1 \in G
      PROVE  m \in G
  <2>1. PICK a : Runs(a, m - 1)
    BY <1>2
  <2> DEFINE z == Fetched(a[m - 1], n, i + m, b, kek)
             d == [j \in 0..m |-> IF j = m THEN z ELSE a[j]]
  <2>2. m \in Nat /\ m - 1 \in Nat
    BY <1>0
  <2>3. \A j \in 0..(m - 1) : d[j] = a[j]
    BY <2>2
  <2>4. \A j \in 0..(m - 1) : a[j] = IF j = 0 THEN c ELSE Fetched(a[j - 1], n, i + j, b, kek)
    BY <2>1
  <2>5. \A j \in 0..m : d[j] = IF j = 0 THEN c ELSE Fetched(d[j - 1], n, i + j, b, kek)
    <3> SUFFICES ASSUME NEW j \in 0..m
                 PROVE  d[j] = IF j = 0 THEN c ELSE Fetched(d[j - 1], n, i + j, b, kek)
      OBVIOUS
    <3>1. CASE j = m
      <4>1. d[j] = z /\ d[j - 1] = a[m - 1] /\ j # 0
        BY <2>2, <2>3, <3>1
      <4> QED
        BY <3>1, <4>1
    <3>2. CASE j # m
      <4>1. j \in 0..(m - 1) /\ (j # 0 => j - 1 \in 0..(m - 1))
        BY <2>2, <3>2
      <4>2. d[j] = a[j] /\ (j # 0 => d[j - 1] = a[j - 1])
        BY <2>3, <4>1
      <4> HIDE DEF d
      <4> QED
        BY <2>4, <4>1, <4>2
    <3> QED
      BY <3>1, <3>2
  <2>6. Runs(d, m)
    <3>1. d = [j \in 0..m |-> d[j]]
      OBVIOUS
    <3> HIDE DEF d
    <3> QED
      BY <2>5, <3>1
  <2> HIDE DEF d, Runs
  <2> QED
    BY <2>6
<1>3. \E a : Runs(a, Ahead)
  <2>1. Ahead \in 0..Ahead
    BY <1>0
  <2> HIDE DEF Runs
  <2>2. Ahead \in G
    <3> HIDE DEF G
    <3> QED
      BY <1>0, <1>1, <1>2, <2>1, UpTo
  <2> QED
    BY <2>2
<1> DEFINE after == CHOOSE a : Runs(a, Ahead)
<1>4. Runs(after, Ahead)
  BY <1>3
<1>5. ReadAhead(c, n, i, b, kek) = after[Ahead]
  BY DEF ReadAhead
<1> HIDE DEF after
<1>6. after[0] = c /\ \A j \in 1..Ahead : after[j] = Fetched(after[j - 1], n, i + j, b, kek)
  BY <1>0, <1>4
<1> QED
  BY <1>5, <1>6

(***************************************************************************)
(* The list of the cache, and what leaves it.                              *)
(***************************************************************************)
LEMMA RemovedAt ==
  ASSUME NEW l \in Seq(Keys), NEW at \in 1..Len(l)
  PROVE  /\ RemoveAt(l, at) \in Seq(Keys) /\ Len(RemoveAt(l, at)) = Len(l) - 1
         /\ \A p \in 1..(Len(l) - 1) : RemoveAt(l, at)[p] = IF p < at THEN l[p] ELSE l[p + 1]
<1> DEFINE x == SubSeq(l, 1, at - 1)
           y == SubSeq(l, at + 1, Len(l))
<1>0. Len(l) \in Nat /\ at \in Int /\ at - 1 \in Int /\ at + 1 \in Int /\ Len(l) \in Int
      /\ \A p \in 1..Len(l) : l[p] \in Keys
  OBVIOUS
<1>1. /\ x \in Seq(Keys) /\ Len(x) = at - 1
      /\ \A p \in 1..(at - 1) : x[p] = l[p]
  <2>1. \A p \in 1..(at - 1) : l[p] \in Keys
    BY <1>0
  <2>2. /\ x \in Seq(Keys) /\ Len(x) = IF 1 <= at - 1 THEN at - 1 - 1 + 1 ELSE 0
        /\ \A p \in 1..(at - 1 - 1 + 1) : x[p] = l[1 + p - 1]
    BY <1>0, <2>1, SubSeqProperties
  <2> HIDE DEF x
  <2> QED
    BY <1>0, <2>2
<1>2. /\ y \in Seq(Keys) /\ Len(y) = Len(l) - at
      /\ \A p \in 1..(Len(l) - at) : y[p] = l[at + p]
  <2>1. \A p \in (at + 1)..Len(l) : l[p] \in Keys
    BY <1>0
  <2>2. /\ y \in Seq(Keys) /\ Len(y) = IF at + 1 <= Len(l) THEN Len(l) - (at + 1) + 1 ELSE 0
        /\ \A p \in 1..(Len(l) - (at + 1) + 1) : y[p] = l[(at + 1) + p - 1]
    BY <1>0, <2>1, SubSeqProperties
  <2> HIDE DEF y
  <2>3. \A p \in 1..(Len(l) - at) : p \in 1..(Len(l) - (at + 1) + 1) /\ (at + 1) + p - 1 = at + p
    BY <1>0
  <2> QED
    BY <1>0, <2>2, <2>3
<1>3. RemoveAt(l, at) = x \o y
  BY DEF RemoveAt
<1> HIDE DEF x, y
<1>4. /\ x \o y \in Seq(Keys) /\ Len(x \o y) = Len(x) + Len(y)
      /\ \A p \in 1..(Len(x) + Len(y)) : (x \o y)[p] = IF p <= Len(x) THEN x[p] ELSE y[p - Len(x)]
  BY <1>1, <1>2, ConcatProperties
<1>5. ASSUME NEW p \in 1..(Len(l) - 1)
      PROVE  (x \o y)[p] = IF p < at THEN l[p] ELSE l[p + 1]
  <2>1. (x \o y)[p] = IF p <= at - 1 THEN x[p] ELSE y[p - (at - 1)]
    BY <1>0, <1>1, <1>2, <1>4
  <2>2. CASE p < at
    BY <1>0, <1>1, <2>1, <2>2
  <2>3. CASE ~(p < at)
    <3>1. p - (at - 1) \in 1..(Len(l) - at) /\ at + (p - (at - 1)) = p + 1
      BY <1>0, <2>3
    <3>2. y[p - (at - 1)] = l[at + (p - (at - 1))]
      BY <1>2, <3>1
    <3> QED
      BY <1>0, <2>1, <2>3, <3>1, <3>2
  <2> QED
    BY <2>2, <2>3
<1> QED
  BY <1>0, <1>1, <1>2, <1>3, <1>4, <1>5

LEMMA ToFrontIs ==
  ASSUME NEW l \in Seq(Keys), IsInjective(l), NEW key \in Keys
  PROVE  /\ ToFront(l, key) \in Seq(Keys) /\ IsInjective(ToFront(l, key))
         /\ \E p \in 1..Len(ToFront(l, key)) : ToFront(l, key)[p] = key
         /\ \A q \in 1..Len(l) : \E p \in 1..Len(ToFront(l, key)) : ToFront(l, key)[p] = l[q]
<1> DEFINE at == {p \in 1..Len(l) : l[p] = key}
           r == IF at = {} THEN l ELSE RemoveAt(l, CHOOSE p \in at : TRUE)
           f == <<key>> \o r
<1>0. Len(l) \in Nat /\ \A p, q \in 1..Len(l) : l[p] = l[q] => p = q
  BY DEF IsInjective
<1>1. /\ r \in Seq(Keys) /\ \A p, q \in 1..Len(r) : r[p] = r[q] => p = q
      /\ \A p \in 1..Len(r) : r[p] # key
      /\ \A q \in 1..Len(l) : l[q] = key \/ \E p \in 1..Len(r) : r[p] = l[q]
  <2>1. CASE at = {}
    BY <1>0, <2>1
  <2>2. CASE at # {}
    <3>1. PICK a \in at : r = RemoveAt(l, a)
      BY <2>2
    <3>2. a \in 1..Len(l) /\ l[a] = key
      OBVIOUS
    <3>3. /\ r \in Seq(Keys) /\ Len(r) = Len(l) - 1
          /\ \A p \in 1..(Len(l) - 1) : r[p] = IF p < a THEN l[p] ELSE l[p + 1]
      BY <3>1, <3>2, RemovedAt
    <3> HIDE DEF r, at
    <3>4. ASSUME NEW p \in 1..Len(r), NEW q \in 1..Len(r), r[p] = r[q]
          PROVE  p = q
      BY <1>0, <3>2, <3>3, <3>4
    <3>5. ASSUME NEW p \in 1..Len(r)
          PROVE  r[p] # key
      <4>1. p \in 1..Len(l) /\ p + 1 \in 1..Len(l)
        BY <1>0, <3>3
      <4>2. r[p] = IF p < a THEN l[p] ELSE l[p + 1]
        BY <1>0, <3>3
      <4>3. r[p] = key => a = IF p < a THEN p ELSE p + 1
        BY <1>0, <3>2, <4>1, <4>2
      <4> QED
        BY <3>2, <4>3
    <3>6. ASSUME NEW q \in 1..Len(l), l[q] # key
          PROVE  \E p \in 1..Len(r) : r[p] = l[q]
      <4>1. CASE q < a
        <5>1. q \in 1..Len(r) /\ r[q] = l[q]
          BY <1>0, <3>2, <3>3, <4>1
        <5> QED
          BY <5>1
      <4>2. CASE q > a
        <5>1. q - 1 \in 1..Len(r) /\ ~(q - 1 < a) /\ (q - 1) + 1 = q
          BY <1>0, <3>2, <3>3, <4>2
        <5>2. r[q - 1] = l[q]
          BY <1>0, <3>3, <5>1
        <5> QED
          BY <5>1, <5>2
      <4> QED
        BY <1>0, <3>2, <3>6, <4>1, <4>2
    <3> QED
      BY <3>3, <3>4, <3>5, <3>6
  <2> QED
    BY <2>1, <2>2
<1> HIDE DEF r
<1>2. <<key>> \in Seq(Keys) /\ Len(<<key>>) = 1 /\ <<key>>[1] = key
  OBVIOUS
<1>3. Len(r) \in Nat
  BY <1>1
<1>4. /\ f \in Seq(Keys) /\ Len(f) = 1 + Len(r)
      /\ \A p \in 1..(1 + Len(r)) : f[p] = IF p <= 1 THEN key ELSE r[p - 1]
  <2>1. /\ f \in Seq(Keys) /\ Len(f) = Len(<<key>>) + Len(r)
        /\ \A p \in 1..(Len(<<key>>) + Len(r)) :
             f[p] = IF p <= Len(<<key>>) THEN <<key>>[p] ELSE r[p - Len(<<key>>)]
    BY <1>1, <1>2, ConcatProperties
  <2> HIDE DEF f
  <2> QED
    BY <1>2, <1>3, <2>1
<1> HIDE DEF f
<1>5. ASSUME NEW p \in 1..Len(f), NEW q \in 1..Len(f), f[p] = f[q]
      PROVE  p = q
  <2>1. \A x \in 1..Len(f) : x = 1 \/ (x - 1 \in 1..Len(r) /\ x > 1)
    BY <1>3, <1>4
  <2>2. \A x \in 1..Len(f) : f[x] = IF x <= 1 THEN key ELSE r[x - 1]
    BY <1>4
  <2>3. CASE p = 1
    BY <1>1, <1>5, <2>1, <2>2, <2>3
  <2>4. CASE q = 1
    BY <1>1, <1>5, <2>1, <2>2, <2>4
  <2>5. CASE p # 1 /\ q # 1
    <3>1. /\ p - 1 \in 1..Len(r) /\ q - 1 \in 1..Len(r)
          /\ f[p] = r[p - 1] /\ f[q] = r[q - 1]
      BY <2>1, <2>2, <2>5
    <3>2. p - 1 = q - 1
      BY <1>1, <1>5, <3>1
    <3> QED
      BY <1>3, <1>4, <3>2
  <2> QED
    BY <2>3, <2>4, <2>5
<1>6. DOMAIN f = 1..Len(f)
  BY <1>4
<1>7. ASSUME NEW q \in 1..Len(l)
      PROVE  \E p \in 1..Len(f) : f[p] = l[q]
  <2>1. CASE l[q] = key
    <3>1. 1 \in 1..Len(f) /\ f[1] = key
      BY <1>3, <1>4
    <3> QED
      BY <2>1, <3>1
  <2>2. CASE l[q] # key
    <3>1. PICK p \in 1..Len(r) : r[p] = l[q]
      BY <1>1, <2>2
    <3>2. p + 1 \in 1..Len(f) /\ f[p + 1] = r[p]
      BY <1>3, <1>4
    <3> QED
      BY <3>1, <3>2
  <2> QED
    BY <2>1, <2>2
<1>8. 1 \in 1..Len(f) /\ f[1] = key
  BY <1>3, <1>4
<1>9. ToFront(l, key) = f
  BY DEF ToFront, f, r
<1> QED
  BY <1>4, <1>5, <1>6, <1>7, <1>8, <1>9 DEF IsInjective

(***************************************************************************)
(* What is in the cache and counted.                                       *)
(***************************************************************************)
\* The cache while a segment is put into it: it may be over its bound by no more than it holds.
Crowded(c) ==
  /\ c.segs \in [Keys -> Contents \cup {None}]
  /\ c.lru \in Seq(Keys) /\ IsInjective(c.lru)
  /\ \A k \in Keys : c.segs[k] # None =>
       Len(c.segs[k]) <= 1 /\ \E p \in 1..Len(c.lru) : c.lru[p] = k
  /\ c.bytes \in Nat /\ Cardinality(Held(c)) <= c.bytes
  /\ c.bytes - Cardinality(Held(c)) <= CacheCap

LEMMA HeldIsFinite ==
  ASSUME NEW c, c.lru \in Seq(Keys),
         \A k \in Keys : c.segs[k] # None => \E p \in 1..Len(c.lru) : c.lru[p] = k
  PROVE  IsFiniteSet(Held(c)) /\ Cardinality(Held(c)) \in Nat
<1> DEFINE T == {c.lru[p] : p \in 1..Len(c.lru)}
<1>0. Len(c.lru) \in Nat
  OBVIOUS
<1>1. IsFiniteSet(1..Len(c.lru))
  BY <1>0, FS_Interval
<1>2. IsFiniteSet(T)
  <2>1. c.lru \in Surjection(1..Len(c.lru), T)
    <3>1. c.lru \in [1..Len(c.lru) -> T]
      OBVIOUS
    <3>2. \A t \in T : \E p \in 1..Len(c.lru) : c.lru[p] = t
      OBVIOUS
    <3> QED
      BY <3>1, <3>2 DEF Surjection
  <2> QED
    BY <1>1, <2>1, FS_Surjection
<1>3. Held(c) \subseteq T
  <2> SUFFICES ASSUME NEW k \in Keys, Size(c.segs[k]) = 1
               PROVE  \E p \in 1..Len(c.lru) : c.lru[p] = k
    BY DEF Held
  <2> QED
    BY DEF Size
<1>4. IsFiniteSet(Held(c))
  BY <1>2, <1>3, FS_Subset
<1> QED
  BY <1>4, FS_CardinalityType

LEMMA CachingIsCrowded ==
  ASSUME NEW c, Caching(c)
  PROVE  Crowded(c) /\ IsFiniteSet(Held(c)) /\ Cardinality(Held(c)) \in Nat
<1>1. IsFiniteSet(Held(c)) /\ Cardinality(Held(c)) \in Nat
  BY HeldIsFinite DEF Caching
<1> QED
  BY <1>1, VDiskConstants DEF Caching, Crowded

\* Fewer segments in the same list.
LEMMA FewerCached ==
  ASSUME NEW c, Caching(c), NEW d, d.segs \in [Keys -> Contents \cup {None}],
         \A k \in Keys : d.segs[k] \in {c.segs[k], None}, d.lru = c.lru, d.bytes = c.bytes
  PROVE  Caching(d)
<1>1. IsFiniteSet(Held(c)) /\ Cardinality(Held(c)) \in Nat
  BY CachingIsCrowded
<1>2. Held(d) \subseteq Held(c)
  BY DEF Held, Size
<1>3. IsFiniteSet(Held(d)) /\ Cardinality(Held(d)) <= Cardinality(Held(c))
  BY <1>1, <1>2, FS_Subset
<1>4. Cardinality(Held(d)) \in Nat
  BY <1>3, FS_CardinalityType
<1>5. Cardinality(Held(d)) <= d.bytes
  BY <1>1, <1>3, <1>4, VDiskConstants DEF Caching
<1>6. \A k \in Keys : d.segs[k] # None =>
        Len(d.segs[k]) <= 1 /\ \E p \in 1..Len(d.lru) : d.lru[p] = k
  <2> SUFFICES ASSUME NEW k \in Keys, d.segs[k] # None
               PROVE  Len(d.segs[k]) <= 1 /\ \E p \in 1..Len(d.lru) : d.lru[p] = k
    OBVIOUS
  <2>1. d.segs[k] = c.segs[k]
    OBVIOUS
  <2> QED
    BY <2>1 DEF Caching
<1> QED
  BY <1>5, <1>6 DEF Caching

LEMMA NothingCached ==
  ASSUME NEW d, d.segs = NoSegs, d.lru = <<>>, d.bytes = 0
  PROVE  Caching(d)
<1>1. \A k \in Keys : d.segs[k] = None
  BY DEF NoSegs
<1>2. Held(d) = {}
  BY <1>1 DEF Held, Size
<1>3. Cardinality(Held(d)) = 0
  BY <1>2, FS_EmptySet
<1>4. <<>> \in Seq(Keys) /\ IsInjective(<<>>)
  BY DEF IsInjective
<1>5. d.segs \in [Keys -> Contents \cup {None}]
  BY DEF NoSegs
<1> QED
  BY <1>1, <1>3, <1>4, <1>5, VDiskConstants DEF Caching

LEMMA EvictedIs ==
  ASSUME NEW c, Crowded(c)
  PROVE  /\ Caching(Evicted(c))
         /\ \A k \in Keys : Evicted(c).segs[k] \in {c.segs[k], None}
<1> DEFINE n == Len(c.lru)
           enough == {m \in 0..n : c.bytes - Freed(c, m) <= CacheCap}
           gone == IF enough = {} THEN n ELSE CHOOSE m \in enough : \A x \in enough : m <= x
           old == Oldest(c.lru, gone)
           segs == [k \in Keys |-> IF k \in old THEN None ELSE c.segs[k]]
           lru == SubSeq(c.lru, 1, n - gone)
           d == Evicted(c)
<1>0. n \in Nat /\ CacheCap \in Nat /\ c.lru \in [1..n -> Keys]
  BY VDiskConstants DEF Crowded
<1>1. d.segs = segs /\ d.lru = lru /\ d.bytes = c.bytes - Freed(c, gone)
  BY DEF Evicted
<1>2. IsFiniteSet(Held(c)) /\ Cardinality(Held(c)) \in Nat
  BY HeldIsFinite DEF Crowded
<1> HIDE DEF d
<1>3. \A m \in 0..n :
        /\ {k \in Oldest(c.lru, m) : Size(c.segs[k]) = 1} = Held(c) \cap Oldest(c.lru, m)
        /\ Oldest(c.lru, m) \subseteq Keys
  BY <1>0 DEF Oldest, Held
<1>4. \A m \in 0..n : Freed(c, m) = Cardinality(Held(c) \cap Oldest(c.lru, m))
  BY <1>3 DEF Freed
<1>5. n \in enough
  <2>1. Held(c) \subseteq Oldest(c.lru, n)
    <3> SUFFICES ASSUME NEW k \in Keys, Size(c.segs[k]) = 1
                 PROVE  k \in Oldest(c.lru, n)
      BY DEF Held
    <3>1. PICK p \in 1..n : c.lru[p] = k
      BY DEF Crowded, Size
    <3>2. p \in (n - n + 1)..n
      BY <1>0
    <3> QED
      BY <3>1, <3>2 DEF Oldest
  <2>2. Held(c) \cap Oldest(c.lru, n) = Held(c)
    BY <2>1
  <2>3. Freed(c, n) = Cardinality(Held(c))
    BY <1>0, <1>4, <2>2
  <2> QED
    BY <1>0, <2>3 DEF Crowded
<1>6. gone \in enough
  <2>1. enough \in SUBSET Nat /\ enough # {}
    BY <1>0, <1>5
  <2>2. \E m \in enough : \A x \in enough : m <= x
    <3> HIDE DEF enough
    <3> QED
      BY <2>1, LeastNumber
  <2> HIDE DEF enough
  <2> QED
    BY <2>1, <2>2
<1> HIDE DEF gone
<1>7. gone \in 0..n /\ c.bytes - Freed(c, gone) <= CacheCap
  BY <1>6
<1> HIDE DEF enough
<1>8. /\ segs \in [Keys -> Contents \cup {None}]
      /\ \A k \in Keys : segs[k] = IF k \in old THEN None ELSE c.segs[k]
  BY DEF Crowded
<1>9. \A k \in Keys : d.segs[k] \in {c.segs[k], None}
  BY <1>1, <1>8
<1>10. /\ lru \in Seq(Keys) /\ Len(lru) = n - gone
       /\ \A p \in 1..(n - gone) : lru[p] = c.lru[p]
  <2>1. \A p \in 1..(n - gone) : c.lru[p] \in Keys
    BY <1>0, <1>7
  <2>2. /\ lru \in Seq(Keys) /\ Len(lru) = IF 1 <= n - gone THEN n - gone - 1 + 1 ELSE 0
        /\ \A p \in 1..(n - gone - 1 + 1) : lru[p] = c.lru[1 + p - 1]
    BY <1>0, <1>7, <2>1, SubSeqProperties
  <2> HIDE DEF lru
  <2> QED
    BY <1>0, <1>7, <2>2
<1> HIDE DEF lru, segs
<1>11. \A p, q \in 1..n : c.lru[p] = c.lru[q] => p = q
  BY <1>0 DEF Crowded, IsInjective
<1>12. IsInjective(lru)
  <2>1. DOMAIN lru = 1..(n - gone) /\ \A p \in 1..(n - gone) : p \in 1..n
    BY <1>0, <1>7, <1>10
  <2> QED
    BY <1>10, <1>11, <2>1 DEF IsInjective
<1>13. ASSUME NEW k \in Keys, d.segs[k] # None
       PROVE  Len(d.segs[k]) <= 1 /\ \E p \in 1..Len(d.lru) : d.lru[p] = k
  <2>1. k \notin old /\ d.segs[k] = c.segs[k]
    BY <1>1, <1>8, <1>13
  <2>2. PICK p \in 1..n : c.lru[p] = k
    BY <1>13, <2>1 DEF Crowded
  <2>3. p \notin (n - gone + 1)..n
    BY <2>1, <2>2 DEF Oldest
  <2>4. p \in 1..(n - gone)
    BY <1>0, <1>7, <2>3
  <2>5. Len(c.segs[k]) <= 1
    BY <1>13, <2>1 DEF Crowded
  <2> QED
    BY <1>1, <1>10, <2>1, <2>2, <2>4, <2>5
<1>14. Held(d) = Held(c) \ (Held(c) \cap old)
  <2>1. \A k \in Keys : d.segs[k] = IF k \in old THEN None ELSE c.segs[k]
    BY <1>1, <1>8
  <2> HIDE DEF old
  <2> QED
    BY <2>1 DEF Held, Size
<1>15. Cardinality(Held(d)) = Cardinality(Held(c)) - Freed(c, gone) /\ Freed(c, gone) \in Nat
       /\ Freed(c, gone) <= Cardinality(Held(c))
  <2> DEFINE X == Held(c) \cap old
  <2>1. IsFiniteSet(X) /\ Cardinality(X) <= Cardinality(Held(c)) /\ Cardinality(X) \in Nat
    <3>1. IsFiniteSet(X) /\ Cardinality(X) <= Cardinality(Held(c))
      BY <1>2, FS_Subset
    <3> QED
      BY <3>1, FS_CardinalityType
  <2>2. Freed(c, gone) = Cardinality(X)
    BY <1>4, <1>7
  <2>3. Cardinality(Held(c) \ X) = Cardinality(Held(c)) - Cardinality(Held(c) \cap X)
    BY <1>2, FS_Difference
  <2>4. Held(c) \cap X = X
    OBVIOUS
  <2> QED
    BY <1>14, <2>1, <2>2, <2>3, <2>4
<1>16. /\ d.bytes \in 0..CacheCap /\ Cardinality(Held(d)) <= d.bytes
  BY <1>0, <1>1, <1>2, <1>7, <1>15 DEF Crowded
<1> HIDE DEF n, old
<1>17. /\ d.segs \in [Keys -> Contents \cup {None}]
       /\ d.lru \in Seq(Keys) /\ IsInjective(d.lru)
  BY <1>1, <1>8, <1>10, <1>12
<1>18. Caching(d)
  BY <1>13, <1>16, <1>17 DEF Caching
<1> QED
  BY <1>9, <1>18 DEF d

LEMMA LengthIs ==
  ASSUME NEW d \in Contents
  PROVE  Len(d) \in Nat /\ (Len(d) <= 1 => Len(d) \in {0, 1})
<1>1. PICK n \in 0..MaxLen : d \in [1..n -> Segments]
  BY DEF Contents
<1>2. n \in Nat
  BY <1>1, VDiskConstants
<1>3. Len(d) = n
  BY <1>1, <1>2
<1> QED
  BY <1>2, <1>3

\* The cache has its three fields.
IsCache(c) == c = [segs |-> c.segs, lru |-> c.lru, bytes |-> c.bytes]

LEMMA PutIs ==
  ASSUME NEW c, Caching(c), NEW key \in Keys, NEW v \in Contents, Len(v) <= 1
  PROVE  /\ IsCache(Put(c, key, v)) /\ Caching(Put(c, key, v))
         /\ \A q \in Keys : \/ Put(c, key, v).segs[q] \in {c.segs[q], None}
                            \/ q = key /\ Put(c, key, v).segs[q] = v
<1> DEFINE mid == [segs  |-> [c.segs EXCEPT ![key] = v],
                   lru   |-> ToFront(c.lru, key),
                   bytes |-> c.bytes - Size(c.segs[key]) + Len(v)]
           H == Held(c)
           z == Size(c.segs[key])
<1>1. /\ mid.segs = [c.segs EXCEPT ![key] = v] /\ mid.lru = ToFront(c.lru, key)
      /\ mid.bytes = c.bytes - z + Len(v)
  OBVIOUS
<1>2. Put(c, key, v) = Evicted(mid)
  BY DEF Put
<1> HIDE DEF mid
<1>3. /\ mid.segs \in [Keys -> Contents \cup {None}]
      /\ \A q \in Keys : mid.segs[q] = IF q = key THEN v ELSE c.segs[q]
  BY <1>1 DEF Caching
<1>4. /\ mid.lru \in Seq(Keys) /\ IsInjective(mid.lru)
      /\ \E p \in 1..Len(mid.lru) : mid.lru[p] = key
      /\ \A q \in 1..Len(c.lru) : \E p \in 1..Len(mid.lru) : mid.lru[p] = c.lru[q]
  <2>1. c.lru \in Seq(Keys) /\ IsInjective(c.lru)
    BY DEF Caching
  <2> DEFINE l == c.lru
             f == ToFront(l, key)
  <2>2. /\ f \in Seq(Keys) /\ IsInjective(f)
        /\ \E p \in 1..Len(f) : f[p] = key
        /\ \A q \in 1..Len(l) : \E p \in 1..Len(f) : f[p] = l[q]
    <3> HIDE DEF l
    <3> QED
      BY <2>1, ToFrontIs DEF l
  <2> QED
    BY <1>1, <2>2
<1>5. ASSUME NEW k \in Keys, mid.segs[k] # None
      PROVE  Len(mid.segs[k]) <= 1 /\ \E p \in 1..Len(mid.lru) : mid.lru[p] = k
  <2>1. CASE k = key
    BY <1>3, <1>4, <2>1
  <2>2. CASE k # key
    <3>1. mid.segs[k] = c.segs[k] /\ c.segs[k] # None
      BY <1>3, <1>5, <2>2
    <3>2. Len(c.segs[k]) <= 1 /\ \E q \in 1..Len(c.lru) : c.lru[q] = k
      BY <3>1 DEF Caching
    <3> QED
      BY <1>4, <3>1, <3>2
  <2> QED
    BY <2>1, <2>2
<1>6. IsFiniteSet(H) /\ Cardinality(H) \in Nat
  BY CachingIsCrowded
<1>7. Len(v) \in {0, 1} /\ v # None
  BY Markers, LengthIs
<1>8. z \in {0, 1} /\ (key \in H <=> z = 1)
  <2>1. c.segs[key] # None => Len(c.segs[key]) \in {0, 1}
    <3> SUFFICES ASSUME c.segs[key] # None
                 PROVE  Len(c.segs[key]) \in {0, 1}
      OBVIOUS
    <3>1. c.segs[key] \in Contents /\ Len(c.segs[key]) <= 1
      BY DEF Caching
    <3> QED
      BY <3>1, LengthIs
  <2> QED
    BY <2>1 DEF Size, Held
<1>9. Cardinality(H \ {key}) = Cardinality(H) - z /\ IsFiniteSet(H \ {key})
  <2>1. /\ IsFiniteSet(H \ {key})
        /\ Cardinality(H \ {key}) = IF key \in H THEN Cardinality(H) - 1 ELSE Cardinality(H)
    BY <1>6, FS_RemoveElement
  <2> QED
    BY <1>6, <1>8, <2>1
<1>10. Held(mid) = IF Len(v) = 1 THEN (H \ {key}) \cup {key} ELSE H \ {key}
  <2>1. \A q \in Keys : Size(mid.segs[q]) = IF q = key THEN Len(v) ELSE Size(c.segs[q])
    BY <1>3, <1>7 DEF Size
  <2> QED
    BY <1>7, <2>1 DEF Held
<1>11. Cardinality(Held(mid)) = Cardinality(H) - z + Len(v)
  <2>1. CASE Len(v) = 1
    <3>1. Cardinality((H \ {key}) \cup {key}) = Cardinality(H \ {key}) + 1
      BY <1>9, FS_AddElement
    <3> QED
      BY <1>9, <1>10, <2>1, <3>1
  <2>2. CASE Len(v) = 0
    BY <1>6, <1>8, <1>9, <1>10, <2>2
  <2> QED
    BY <1>7, <2>1, <2>2
<1>12. c.bytes \in 0..CacheCap /\ Cardinality(H) <= c.bytes /\ CacheCap \in Nat
  BY VDiskConstants DEF Caching
<1>13. z <= Cardinality(H)
  BY <1>6, <1>8, <1>9, FS_CardinalityType
<1>14. /\ mid.bytes \in Nat /\ Cardinality(Held(mid)) <= mid.bytes
       /\ mid.bytes - Cardinality(Held(mid)) <= CacheCap
  BY <1>1, <1>6, <1>7, <1>8, <1>11, <1>12, <1>13
<1>15. Crowded(mid)
  BY <1>3, <1>4, <1>5, <1>14 DEF Crowded
<1>16. /\ Caching(Evicted(mid))
       /\ \A k \in Keys : Evicted(mid).segs[k] \in {mid.segs[k], None}
  BY <1>15, EvictedIs
<1>17. IsCache(Evicted(mid))
  BY DEF Evicted, IsCache
<1> QED
  BY <1>2, <1>3, <1>16, <1>17

LEMMA TouchedIs ==
  ASSUME NEW c, IsCache(c), Caching(c), NEW key \in Keys
  PROVE  /\ IsCache(Touched(c, key)) /\ Caching(Touched(c, key))
         /\ Touched(c, key).segs = c.segs
<1> DEFINE d == [c EXCEPT !.lru = ToFront(@, key)]
<1>1. CASE c.segs[key] = None
  BY <1>1 DEF Touched
<1>2. CASE c.segs[key] # None
  <2>1. Touched(c, key) = d
    BY <1>2 DEF Touched
  <2>2. IsCache(d) /\ d.segs = c.segs /\ d.lru = ToFront(c.lru, key) /\ d.bytes = c.bytes
    BY DEF IsCache
  <2> HIDE DEF d
  <2>3. /\ d.lru \in Seq(Keys) /\ IsInjective(d.lru)
        /\ \A q \in 1..Len(c.lru) : \E p \in 1..Len(d.lru) : d.lru[p] = c.lru[q]
    <3>1. c.lru \in Seq(Keys) /\ IsInjective(c.lru)
      BY DEF Caching
    <3> DEFINE l == c.lru
               f == ToFront(l, key)
    <3>2. /\ f \in Seq(Keys) /\ IsInjective(f)
          /\ \A q \in 1..Len(l) : \E p \in 1..Len(f) : f[p] = l[q]
      <4> HIDE DEF l
      <4> QED
        BY <3>1, ToFrontIs DEF l
    <3> QED
      BY <2>2, <3>2
  <2>4. Held(d) = Held(c)
    BY <2>2 DEF Held
  <2>5. \A k \in Keys : d.segs[k] # None =>
          Len(d.segs[k]) <= 1 /\ \E p \in 1..Len(d.lru) : d.lru[p] = k
    <3> SUFFICES ASSUME NEW k \in Keys, d.segs[k] # None
                 PROVE  Len(d.segs[k]) <= 1 /\ \E p \in 1..Len(d.lru) : d.lru[p] = k
      OBVIOUS
    <3>1. Len(c.segs[k]) <= 1 /\ \E q \in 1..Len(c.lru) : c.lru[q] = k
      BY <2>2 DEF Caching
    <3>2. PICK q \in 1..Len(c.lru) : c.lru[q] = k
      BY <3>1
    <3>3. \E p \in 1..Len(d.lru) : d.lru[p] = k
      BY <2>3, <3>2
    <3> QED
      BY <2>2, <3>1, <3>3
  <2>6. /\ d.segs \in [Keys -> Contents \cup {None}] /\ d.bytes \in 0..CacheCap
        /\ Cardinality(Held(d)) <= d.bytes
    BY <2>2, <2>4 DEF Caching
  <2>7. Caching(d)
    BY <2>3, <2>5, <2>6 DEF Caching
  <2> QED
    BY <2>1, <2>2, <2>7
<1> QED
  BY <1>1, <1>2

(***************************************************************************)
(* A read fills the cache with segments of the container it reads.         *)
(***************************************************************************)
LEMMA SegmentIs ==
  ASSUME NEW b \in Box, NEW i \in 1..MaxLen
  PROVE  /\ Segment(b, i) \in Contents /\ Len(Segment(b, i)) <= 1
         /\ Segment(b, i) # <<>> =>
              i \in 1..Len(b.data) /\ Segment(b, i)[1] = b.data[i]
<1>1. b.data \in Contents /\ Len(b.data) \in Nat /\ \A j \in 1..Len(b.data) : b.data[j] \in Segments
  BY VDiskConstants DEF Box, Contents
<1>2. MaxLen \in Nat \ {0}
  BY VDiskConstants
<1>3. CASE i <= Len(b.data)
  <2>1. Segment(b, i) = <<b.data[i]>> /\ b.data[i] \in Segments /\ i \in 1..Len(b.data)
    BY <1>1, <1>2, <1>3 DEF Segment
  <2> DEFINE x == b.data[i]
  <2> HIDE DEF x
  <2>2. x \in Segments => <<x>> \in [1..1 -> Segments] /\ Len(<<x>>) = 1 /\ <<x>>[1] = x
    OBVIOUS
  <2>3. 1 \in 0..MaxLen
    BY <1>2
  <2>4. x \in Segments => <<x>> \in Contents
    BY <2>2, <2>3 DEF Contents
  <2> QED
    BY <2>1, <2>2, <2>4 DEF x
<1>4. CASE ~(i <= Len(b.data))
  <2>1. Segment(b, i) = <<>>
    BY <1>4 DEF Segment
  <2>2. <<>> \in Contents /\ Len(<<>>) = 0
    BY <1>2 DEF Contents
  <2> QED
    BY <2>1, <2>2
<1> QED
  BY <1>3, <1>4

\* d is c with segments of container b under name n, or without some.
Fills(d, c, n, b) ==
  /\ IsCache(d) /\ Caching(d)
  /\ \A q \in Keys : \/ d.segs[q] \in {c.segs[q], None}
                     \/ IsBox(b) /\ q[1] = n /\ d.segs[q] = Segment(b, q[2])

LEMMA FillsTrans ==
  ASSUME NEW n, NEW b, NEW c, NEW d, NEW g, Fills(d, c, n, b), Fills(g, d, n, b)
  PROVE  Fills(g, c, n, b)
BY DEF Fills

LEMMA PutFills ==
  ASSUME NEW n \in Names, NEW i \in 1..MaxLen, NEW b \in Box, NEW c, IsCache(c), Caching(c)
  PROVE  Fills(Put(c, <<n, i>>, Segment(b, i)), c, n, b)
<1>1. <<n, i>> \in Keys /\ <<n, i>>[1] = n /\ <<n, i>>[2] = i
  BY DEF Keys
<1>2. IsBox(b)
  BY Markers DEF IsBox
<1> QED
  BY <1>1, <1>2, SegmentIs, PutIs DEF Fills

LEMMA TouchedFills ==
  ASSUME NEW n \in Names, NEW i \in 1..MaxLen, NEW b, NEW c, IsCache(c), Caching(c)
  PROVE  Fills(Touched(c, <<n, i>>), c, n, b)
<1>1. <<n, i>> \in Keys
  BY DEF Keys
<1> QED
  BY <1>1, TouchedIs DEF Fills

LEMMA ThroughFills ==
  ASSUME NEW n \in Names, NEW i \in 1..MaxLen, NEW b, NEW c, IsCache(c), Caching(c),
         c.segs[<<n, i>>] = None => b \in Box
  PROVE  Fills(Through(c, n, i, b), c, n, b)
<1> DEFINE full == IF c.segs[<<n, i>>] = None THEN Put(c, <<n, i>>, Segment(b, i)) ELSE c
<1>1. Fills(full, c, n, b)
  <2>1. CASE c.segs[<<n, i>>] = None
    BY <2>1, PutFills
  <2>2. CASE c.segs[<<n, i>>] # None
    BY <2>2 DEF Fills
  <2> QED
    BY <2>1, <2>2
<1>2. Through(c, n, i, b) = Touched(full, <<n, i>>)
  BY DEF Through
<1> HIDE DEF full
<1>3. Fills(Touched(full, <<n, i>>), full, n, b)
  BY <1>1, TouchedFills DEF Fills
<1> QED
  BY <1>1, <1>2, <1>3, FillsTrans

LEMMA FetchedFills ==
  ASSUME NEW n \in Names, NEW i \in Nat \ {0}, NEW b \in Box \cup {None, Wiped}, NEW kek,
         NEW c, IsCache(c), Caching(c)
  PROVE  Fills(Fetched(c, n, i, b, kek), c, n, b)
<1>1. CASE <<n, i>> \in Keys /\ c.segs[<<n, i>>] # None
  <2>1. i \in 1..MaxLen
    BY <1>1 DEF Keys
  <2> QED
    BY <1>1, <2>1, TouchedFills DEF Fetched
<1>2. CASE Opens(b, kek, i) /\ i <= Len(b.data) /\ ~(<<n, i>> \in Keys /\ c.segs[<<n, i>>] # None)
  <2>1. b \in Box
    BY <1>2 DEF Opens, IsBox
  <2>2. i \in 1..MaxLen
    BY <1>2, <2>1, VDiskConstants DEF Box, Contents
  <2> QED
    BY <1>2, <2>1, <2>2, PutFills DEF Fetched
<1>3. CASE /\ ~(<<n, i>> \in Keys /\ c.segs[<<n, i>>] # None)
           /\ ~(Opens(b, kek, i) /\ i <= Len(b.data))
  BY <1>3 DEF Fetched, Fills
<1> QED
  BY <1>1, <1>2, <1>3

LEMMA ReadAheadFills ==
  ASSUME NEW n \in Names, NEW i \in 1..MaxLen, NEW b \in Box \cup {None, Wiped}, NEW kek,
         NEW c, IsCache(c), Caching(c)
  PROVE  Fills(ReadAhead(c, n, i, b, kek), c, n, b)
<1>0. Ahead \in Nat /\ MaxLen \in Nat
  BY VDiskConstants
<1>1. PICK after :
        /\ after[0] = c
        /\ \A j \in 1..Ahead : after[j] = Fetched(after[j - 1], n, i + j, b, kek)
        /\ ReadAhead(c, n, i, b, kek) = after[Ahead]
  BY ReadAheadRuns
<1> DEFINE G == {j \in 0..Ahead : Fills(after[j], c, n, b)}
<1>2. 0 \in G
  BY <1>0, <1>1 DEF Fills
<1>3. ASSUME NEW j \in 1..Ahead, j - 1 \in G
      PROVE  j \in G
  <2>1. Fills(after[j - 1], c, n, b)
    BY <1>3
  <2>2. i + j \in Nat \ {0}
    BY <1>0
  <2>3. Fills(Fetched(after[j - 1], n, i + j, b, kek), after[j - 1], n, b)
    BY <2>1, <2>2, FetchedFills DEF Fills
  <2>4. Fills(after[j], c, n, b)
    BY <1>1, <2>1, <2>3, FillsTrans
  <2> QED
    BY <1>0, <2>4
<1>4. \A j \in 0..Ahead : j \in G
  <2> HIDE DEF G
  <2> QED
    BY <1>0, <1>2, <1>3, UpTo
<1> QED
  BY <1>0, <1>1, <1>4
-----------------------------------------------------------------------------
(***************************************************************************)
(* Every step but a read leaves the cache what it was, or less.            *)
(***************************************************************************)
ChangesAFile == h.unlocked /\ StoreTypes' /\ (Looks \/ Changes)

LEMMA IoChanges ==
  ASSUME Relied, Shape, SegmentTypes
  PROVE  /\ \A n \in Names : /\ \A i \in 1..MaxLen : Write(n, i) => ChangesAFile
                             /\ \A len \in 0..MaxLen : Truncate(n, len) => ChangesAFile
                             /\ Delete(n) => ChangesAFile
         /\ \A f \in Files, s \in Stores : Create(f, s) => ChangesAFile
BY WriteChanges, TruncateChanges, DeleteChanges, CreateChanges DEF ChangesAFile

LEMMA ReindexView ==
  ASSUME Shape, IpcReindex
  PROVE  /\ h.unlocked /\ SameCache(h', h) /\ Shaped(h') /\ h'.keks = h.keks
         /\ h'.unlocked = h.unlocked /\ h'.passphrase = h.passphrase
         /\ mirror' = None /\ UNCHANGED <<boxes, ikey, kept, cut, written>>
         /\ (saved' = Scan /\ h'.index = Scan) \/ (saved' \in {saved, Torn} /\ h' = h)
<1>1. /\ h.unlocked /\ mirror' = None /\ UNCHANGED <<boxes, ikey, kept, cut, written>>
      /\ (saved' = Scan /\ h' = [h EXCEPT !.index = Scan]) \/ (saved' \in {saved, Torn} /\ h' = h)
  BY Zenon DEF IpcReindex
<1> DEFINE d == [h EXCEPT !.index = Scan]
<1>2. /\ Shaped(d) /\ SameCache(d, h) /\ d.keks = h.keks
      /\ d.index = Scan /\ d.unlocked = h.unlocked /\ d.passphrase = h.passphrase
  <2> HIDE DEF Scan
  <2> QED
    BY DEF Shape, Shaped, Fields, SameCache
<1> HIDE DEF d
<1> QED
  BY <1>1, <1>2 DEF d, SameCache, Shape

LEMMA StepThins ==
  ASSUME Relied, Shape, SegmentTypes, [Next]_vars
  PROVE  Thinner(h', h) \/ \E n \in Names, i \in 1..MaxLen : Read(n, i)
<1>1. CASE Kill \/ Stop
  BY <1>1, RestartLocks, EmptyIsThinner DEF Kill, Stop
<1>2. CASE IpcLock \/ WatchLock \/ LateCall
  BY <1>2, LockLocks, EmptyIsThinner DEF IpcLock, WatchLock, LateCall
<1>3. ASSUME NEW pw, Unlock(pw)
      PROVE  Thinner(h', h)
  BY <1>3, UnlockView, SameIsThinner
<1>4. CASE UNCHANGED h
  BY <1>4, SameIsThinner DEF SameCache
<1>5. CASE Start
  <2>1. Unlock(Owner) \/ UNCHANGED h
    BY <1>5, Zenon DEF Start
  <2> QED
    BY <1>3, <1>4, <2>1
<1>6. CASE IpcUnlock
  <2>1. \E pw \in Passwords : Unlock(pw)
    BY <1>6, Zenon DEF IpcUnlock
  <2> QED
    BY <1>3, <2>1
<1>7. CASE Mount \/ IpcIdle \/ Expire \/ Refused
  BY <1>7, MountView, IdleView, ExpireView, RefusedView, SameIsThinner
<1>8. CASE IpcCache
  BY <1>8, CacheView, SameIsThinner DEF Thinner, NoSegs
<1>9. CASE IpcFlag \/ WatchFlag \/ WatchIdle \/ WatchClear \/ UNCHANGED vars
  BY <1>4, <1>9 DEF IpcFlag, WatchFlag, WatchIdle, WatchClear, vars
<1>10. CASE IpcReindex
  BY <1>10, ReindexView, SameIsThinner
<1>11. ChangesAFile => Thinner(h', h)
  BY DEF ChangesAFile, Looks, Changes, Forgets
<1>12. CASE Io
  BY <1>2, <1>7, <1>11, <1>12, IoChanges DEF Io
<1> QED
  BY <1>1, <1>2, <1>5, <1>6, <1>7, <1>8, <1>9, <1>10, <1>12 DEF Next, Ipc, Watch

LEMMA ThinnerIsCached ==
  ASSUME Caching(CacheOf(h)), Thinner(h', h)
  PROVE  Caching(CacheOf(h'))
<1> DEFINE c == CacheOf(h)
           d == CacheOf(h')
<1>1. /\ c.segs = h.segs /\ c.lru = h.lru /\ c.bytes = h.bytes
      /\ d.segs = h'.segs /\ d.lru = h'.lru /\ d.bytes = h'.bytes
  BY DEF CacheOf
<1> HIDE DEF c, d
<1>2. Caching(c)
  BY DEF c
<1>3. CASE d.segs = NoSegs /\ d.lru = <<>> /\ d.bytes = 0
  <2>1. Caching(d)
    BY <1>3, NothingCached
  <2> QED
    BY <2>1 DEF d
<1>4. CASE d.lru = c.lru /\ d.bytes = c.bytes
  <2>1. /\ d.segs \in [Keys -> Contents \cup {None}]
        /\ \A k \in Keys : d.segs[k] \in {c.segs[k], None}
    BY <1>1 DEF Thinner
  <2>2. Caching(d)
    BY <1>2, <1>4, <2>1, FewerCached
  <2> QED
    BY <2>2 DEF d
<1> QED
  BY <1>1, <1>3, <1>4 DEF Thinner

\* What a read leaves in the cache, and what it returns.
LEMMA ReadReturns ==
  ASSUME Relied, Caching(CacheOf(h)), Shape, NEW n \in Names, NEW i \in 1..MaxLen, Read(n, i)
  PROVE  LET e == h.index[n]
             b == boxes[e.store] IN
         /\ e \in Entry /\ h.unlocked /\ UNCHANGED store
         /\ Fills(CacheOf(h'), CacheOf(h), n, b)
         /\ \/ reply'.got = <<>>
            \/ /\ reply'.store = e.store /\ reply'.at = i
               /\ \/ reply'.got = Segment(b, i) /\ IsBox(b)
                  \/ h.segs[<<n, i>>] # None /\ reply'.got = h.segs[<<n, i>>]
<1> DEFINE e == h.index[n]
           b == boxes[e.store]
           fresh == [h EXCEPT !.expired = FALSE]
           keyed == [fresh EXCEPT !.keks[e.store] = KekOf(e.store)]
           answer(got) == [Silent EXCEPT !.call = "read", !.store = e.store, !.at = i, !.got = got]
           cached == h.cache /\ h.segs[<<n, i>>] # None
           opens == Opens(b, KekOf(e.store), i)
           c == Through(CacheOf(h), n, i, b)
           got == c.segs[<<n, i>>]
           filled == ReadAhead(c, n, i, b, KekOf(e.store))
<1>1. /\ h.unlocked /\ e # None /\ UNCHANGED store
      /\ \/ h' = fresh /\ reply' = answer(<<>>)
         \/ h' = keyed /\ reply' = Silent
         \/ opens /\ h' = keyed /\ reply' = answer(Segment(b, i))
         \/ /\ cached \/ opens
            /\ h' = WithCache(keyed, filled)
            /\ reply' = answer(IF got = None THEN <<>> ELSE got)
  BY Zenon DEF Read, Reading
<1>2. e \in Entry /\ b \in Box \cup {None, Wiped} /\ <<n, i>> \in Keys
  <2>1. e \in Entry
    BY <1>1 DEF Relied, StoreTypes
  <2> QED
    BY <2>1, EntryFields DEF Relied, StoreTypes, Keys
<1>3. SameCache(fresh, h) /\ SameCache(keyed, h)
  BY DEF Shape, Shaped, Fields, SameCache
<1>4. \A x : IsCache(x) => CacheOf(WithCache(keyed, x)) = x
  <2>1. Shaped(keyed)
    BY DEF Shape, Shaped, Fields
  <2> HIDE DEF keyed
  <2> QED
    BY <2>1 DEF Shaped, Fields, WithCache, CacheOf, IsCache
<1>5. IsCache(CacheOf(h)) /\ CacheOf(h).segs = h.segs
  BY DEF CacheOf, IsCache
<1>6. \A x : answer(x).got = x /\ answer(x).store = e.store /\ answer(x).at = i
  BY DEF Silent
<1>7. Silent.got = <<>>
  BY DEF Silent
<1>8. opens => IsBox(b) /\ b \in Box
  BY <1>2 DEF Opens, IsBox
<1>9. Fills(CacheOf(h), CacheOf(h), n, b)
  BY <1>5 DEF Fills
<1>10. ASSUME cached \/ opens
       PROVE  Fills(c, CacheOf(h), n, b) /\ Fills(filled, CacheOf(h), n, b)
  <2>1. CacheOf(h).segs[<<n, i>>] = None => b \in Box
    BY <1>5, <1>8, <1>10
  <2>2. Fills(c, CacheOf(h), n, b)
    BY <1>5, <2>1, ThroughFills
  <2> HIDE DEF c
  <2>3. Fills(filled, c, n, b)
    BY <1>2, <2>2, ReadAheadFills DEF Fills
  <2> QED
    BY <2>2, <2>3, FillsTrans
<1> HIDE DEF opens, cached, answer, filled, c, keyed, fresh, e, b
<1>11. CASE h' = fresh /\ reply' = answer(<<>>)
  <2>1. CacheOf(h') = CacheOf(h) /\ reply'.got = <<>>
    BY <1>3, <1>6, <1>11 DEF CacheOf, SameCache
  <2> QED
    BY <1>1, <1>2, <1>9, <2>1 DEF e, b
<1>12. CASE h' = keyed /\ reply' = Silent
  <2>1. CacheOf(h') = CacheOf(h) /\ reply'.got = <<>>
    BY <1>3, <1>7, <1>12 DEF CacheOf, SameCache
  <2> QED
    BY <1>1, <1>2, <1>9, <2>1 DEF e, b
<1>13. CASE opens /\ h' = keyed /\ reply' = answer(Segment(b, i))
  <2>1. /\ CacheOf(h') = CacheOf(h) /\ reply'.got = Segment(b, i)
        /\ reply'.store = e.store /\ reply'.at = i /\ IsBox(b)
    BY <1>3, <1>6, <1>8, <1>13 DEF CacheOf, SameCache
  <2> QED
    BY <1>1, <1>2, <1>9, <2>1 DEF e, b
<1>14. CASE /\ cached \/ opens
            /\ h' = WithCache(keyed, filled)
            /\ reply' = answer(IF got = None THEN <<>> ELSE got)
  <2>1. Fills(c, CacheOf(h), n, b) /\ Fills(filled, CacheOf(h), n, b)
    BY <1>10, <1>14
  <2>2. CacheOf(h') = filled
    BY <1>4, <1>14, <2>1 DEF Fills
  <2>3. \/ got = None \/ (got = h.segs[<<n, i>>] /\ got # None)
        \/ got = Segment(b, i) /\ IsBox(b)
    <3>1. <<n, i>>[2] = i
      OBVIOUS
    <3> QED
      BY <1>2, <1>5, <2>1, <3>1 DEF Fills
  <2>4. reply'.got = (IF got = None THEN <<>> ELSE got) /\ reply'.store = e.store /\ reply'.at = i
    BY <1>6, <1>14
  <2> HIDE DEF got
  <2> QED
    BY <1>1, <1>2, <2>1, <2>2, <2>3, <2>4 DEF e, b
<1> HIDE DEF got
<1> QED
  BY <1>1, <1>11, <1>12, <1>13, <1>14

LEMMA CachingHasTypes ==
  ASSUME Caching(CacheOf(h))
  PROVE  SegmentTypes
BY DEF Caching, CacheOf, SegmentTypes

LEMMA InitCaching ==
  ASSUME Init
  PROVE  Caching(CacheOf(h))
<1>1. h = Opened
  BY DEF Init
<1>2. Emptied(h)
  BY <1>1, OpenedIsEmpty
<1> QED
  BY <1>2, NothingCached DEF Emptied, CacheOf

LEMMA StepCaching ==
  ASSUME Relied, Shape, Caching(CacheOf(h)), [Next]_vars
  PROVE  Caching(CacheOf(h))'
<1>1. SegmentTypes
  BY CachingHasTypes
<1>2. CASE Thinner(h', h)
  BY <1>2, ThinnerIsCached DEF CacheOf
<1>3. ASSUME NEW n \in Names, NEW i \in 1..MaxLen, Read(n, i)
      PROVE  Caching(CacheOf(h'))
  BY <1>3, ReadReturns DEF Fills
<1> QED
  BY <1>1, <1>2, <1>3, StepThins
-----------------------------------------------------------------------------
(***************************************************************************)
(* Theorem.                                                                *)
(***************************************************************************)
LEMMA ChangesKeepRelied ==
  ASSUME Relied, ChangesAFile
  PROVE  Relied'
<1>0. h.unlocked /\ StoreTypes' /\ (Looks \/ Changes)
  BY DEF ChangesAFile
<1>1. CASE Looks
  BY <1>1, LookingKeepsRelied DEF Looks
<1>2. CASE Changes
  <2>0. PICK n \in Names, s \in Stores : \E e, c, k : Changed(n, s, e, c, k)
    BY <1>2 DEF Changes
  <2>1. PICK e, c, k : Changed(n, s, e, c, k)
    BY <2>0
  <2> QED
    BY <1>0, <2>1, FileChanges DEF Changed
<1> QED
  BY <1>0, <1>1, <1>2

LEMMA StepRelied ==
  ASSUME Relied, Shape, SegmentTypes, [Next]_vars
  PROVE  Relied'
<1>1. CASE Kill
  <2>1. /\ Emptied(h') /\ mirror' = None /\ ikey' = None /\ Flushed
        /\ UNCHANGED <<boxes, saved, kept, cut, written>>
    BY <1>1, RestartLocks DEF Kill, Restarted, Flushed
  <2> QED
    BY <2>1, LockingKeepsRelied
<1>2. CASE Stop
  <2>1. /\ Emptied(h') /\ mirror' = None /\ ikey' = None /\ Flushed
        /\ UNCHANGED <<boxes, kept, cut, written>>
    BY <1>2, FlushIs, RestartLocks DEF Stop, Restarted
  <2> QED
    BY <2>1, LockingKeepsRelied
<1>3. CASE IpcLock \/ WatchLock \/ LateCall
  <2>1. DoLock
    BY <1>3 DEF IpcLock, WatchLock, LateCall
  <2>2. /\ Emptied(h') /\ mirror' = None /\ ikey' = None /\ Flushed
        /\ UNCHANGED <<boxes, kept, cut, written>>
    BY <2>1, FlushIs, LockLocks DEF DoLock
  <2> QED
    BY <2>2, LockingKeepsRelied
<1>4. CASE UNCHANGED <<h, store>>
  <2>1. SameView(h', h)
    BY <1>4 DEF SameView, Shape
  <2> QED
    BY <1>4, <2>1, LookingKeepsRelied
<1>5. CASE Start
  <2>1. Unlock(Owner) \/ UNCHANGED <<h, store>>
    BY <1>5, Zenon DEF Start
  <2> QED
    BY <1>4, <2>1, UnlockKeepsRelied, VDiskConstants
<1>6. CASE IpcUnlock
  <2>1. \E pw \in Passwords : Unlock(pw)
    BY <1>6, Zenon DEF IpcUnlock
  <2> QED
    BY <2>1, UnlockKeepsRelied
<1>7. CASE Mount \/ IpcIdle \/ IpcCache \/ Expire \/ Refused
  <2>1. SameView(h', h) /\ UNCHANGED store
    BY <1>7, MountView, IdleView, CacheView, ExpireView, RefusedView
  <2> QED
    BY <2>1, LookingKeepsRelied
<1>8. CASE IpcFlag \/ WatchFlag \/ WatchIdle \/ WatchClear \/ UNCHANGED vars
  BY <1>4, <1>8 DEF IpcFlag, WatchFlag, WatchIdle, WatchClear, vars
<1>9. CASE IpcReindex
  BY <1>9, ReindexKeepsRelied
<1>10. ASSUME NEW n \in Names, NEW i \in 1..MaxLen, Read(n, i)
       PROVE  Relied'
  BY <1>10, ReadView, LookingKeepsRelied
<1>11. CASE Io
  BY <1>3, <1>7, <1>10, <1>11, IoChanges, ChangesKeepRelied DEF Io
<1> QED
  BY <1>1, <1>2, <1>3, <1>5, <1>6, <1>7, <1>8, <1>9, <1>11 DEF Next, Ipc, Watch

LEMMA InitRelied ==
  ASSUME Init
  PROVE  Relied
<1>1. /\ At \in [Files -> Stores] /\ IsInjective(At)
      /\ boxes = [s \in Stores |->
           IF s \in {At[f] : f \in Files}
             THEN [data |-> <<0>>, pw |-> Owner, salt |-> 0,
                   name |-> CHOOSE f \in Files : At[f] = s]
             ELSE None]
      /\ kept = [s \in Stores |-> IF s \in {At[f] : f \in Files} THEN <<0>> ELSE None]
      /\ saved = [n \in Names |->
           IF n \in Files THEN [store |-> At[n], size |-> 1] ELSE None]
  BY VDiskConstants, Zenon DEF Init
<1>2. mirror = None /\ ikey = None /\ h = Opened /\ written = 0 /\ cut = {}
  BY DEF Init
<1>3. Emptied(h)
  BY <1>2, OpenedIsEmpty
<1>4. Indexes \subseteq {saved}
  BY <1>2, <1>3 DEF Indexes, Emptied
<1>5. \A f, g \in Files : At[f] = At[g] => f = g
  BY <1>1 DEF IsInjective
<1> DEFINE full == {At[f] : f \in Files}
           fileAt(s) == CHOOSE f \in Files : At[f] = s
<1>6. \A s \in full : fileAt(s) \in Files /\ At[fileAt(s)] = s
  OBVIOUS
<1>7. <<0>> \in Contents /\ Len(<<0>>) = 1 /\ <<0>>[1] = 0
  <2>1. <<0>> \in [1..1 -> Segments] /\ 1 \in 0..MaxLen
    BY VDiskConstants DEF Segments
  <2> QED
    BY <2>1 DEF Contents
<1>8. \A s \in full : /\ boxes[s] = [data |-> <<0>>, pw |-> Owner, salt |-> 0, name |-> fileAt(s)]
                      /\ kept[s] = <<0>>
  BY <1>1
<1>9. \A s \in Stores \ full : boxes[s] = None /\ kept[s] = None
  BY <1>1
<1>10. /\ \A n \in Files : saved[n] = [store |-> At[n], size |-> 1] /\ n \in Names
       /\ \A n \in Names \ Files : saved[n] = None
  BY <1>1, NameFacts
<1> HIDE DEF fileAt
<1>11. \A s \in full : boxes[s] \in Box /\ boxes[s].data = <<0>> /\ boxes[s].name = fileAt(s)
  <2> SUFFICES ASSUME NEW s \in full
               PROVE  boxes[s] \in Box /\ boxes[s].data = <<0>> /\ boxes[s].name = fileAt(s)
    OBVIOUS
  <2>1. fileAt(s) \in Names /\ Owner \in Passwords /\ 0 \in Segments
    BY <1>6, NameFacts, VDiskConstants DEF Segments
  <2>2. boxes[s] = [data |-> <<0>>, pw |-> Owner, salt |-> 0, name |-> fileAt(s)]
    BY <1>8
  <2> QED
    BY <1>7, <2>1, <2>2 DEF Box
<1>12. full \subseteq Stores /\ (\A f \in Files : At[f] \in full)
  BY <1>1
<1> HIDE DEF full
<1>13. \A s \in full : boxes[s] # None /\ IsBox(boxes[s])
  BY <1>11, Markers DEF IsBox
<1>14. \A s \in Stores : IsBox(boxes[s]) => s \in full
  BY <1>9 DEF IsBox
<1>15. \A f \in Files : saved[f] \in Entry /\ saved[f].store = At[f] /\ saved[f].size = 1
  <2> SUFFICES ASSUME NEW f \in Files
               PROVE  saved[f] \in Entry /\ saved[f].store = At[f] /\ saved[f].size = 1
    OBVIOUS
  <2>1. At[f] \in Stores /\ 1 \in 0..MaxLen
    BY VDiskConstants
  <2>2. saved[f] = [store |-> At[f], size |-> 1]
    BY <1>10
  <2> QED
    BY <2>1, <2>2 DEF Entry
<1>16. StoreTypes
  <2>1. boxes \in [Stores -> Box \cup {None, Wiped}]
    <3>1. \A s \in Stores : boxes[s] \in Box \cup {None, Wiped}
      BY <1>9, <1>11
    <3> QED
      BY <1>1, <3>1
  <2>2. saved \in [Names -> Entry \cup {None}]
    <3>1. \A n \in Names : saved[n] \in Entry \cup {None}
      BY <1>10, <1>15
    <3> QED
      BY <1>1, <3>1
  <2>3. kept \in [Stores -> Contents \cup {None}]
    BY <1>1, <1>7
  <2>4. h.index \in [Names -> Entry \cup {None}] /\ ~h.unlocked
    BY <1>3 DEF Emptied, EmptyIndex
  <2> QED
    BY <1>2, <2>1, <2>2, <2>3, <2>4, VDiskConstants DEF StoreTypes
<1>17. \A n \in Names, s \in Stores : Lists(saved, n, s) => n \in Files /\ s = At[n]
  BY <1>10, <1>15 DEF Lists
<1>18. OneName
  <2>1. \A n \in Names : saved[n] # None => boxes[saved[n].store] # None
    BY <1>10, <1>12, <1>13, <1>15
  <2>2. \A m, n \in Names, s \in Stores : Lists(saved, m, s) /\ Lists(saved, n, s) => m = n
    BY <1>5, <1>17
  <2> QED
    BY <1>4, <2>1, <2>2 DEF OneName
<1>19. AllListed
  <2> SUFFICES ASSUME NEW s \in Stores, kept[s] # None
               PROVE  \E n \in Names : Lists(saved, n, s) /\ Len(kept[s]) <= saved[n].size
    BY <1>4 DEF AllListed
  <2>1. s \in full
    BY <1>9
  <2>2. fileAt(s) \in Files /\ At[fileAt(s)] = s /\ Len(kept[s]) = 1
    BY <1>6, <1>7, <1>8, <2>1
  <2>3. Lists(saved, fileAt(s), s) /\ saved[fileAt(s)].size = 1 /\ fileAt(s) \in Names
    BY <1>10, <1>15, <2>2, Markers DEF Lists
  <2> QED
    BY <2>2, <2>3
<1>20. AllThere
  <2> SUFFICES ASSUME NEW s \in full
               PROVE  /\ IsBox(boxes[s]) /\ Len(kept[s]) <= Len(boxes[s].data)
                      /\ \A i \in 1..Len(kept[s]) :
                           kept[s][i] <= written /\ kept[s][i] <= boxes[s].data[i]
                      /\ \A i \in 1..Len(boxes[s].data) : boxes[s].data[i] <= written
    BY <1>9, <1>14 DEF AllThere
  <2>1. kept[s] = <<0>> /\ boxes[s].data = <<0>> /\ IsBox(boxes[s])
    BY <1>8, <1>11, <1>13
  <2>2. \A i \in 1..Len(<<0>>) : <<0>>[i] = 0
    BY <1>7
  <2> QED
    BY <1>2, <1>7, <2>1, <2>2
<1>21. OwnNames
  BY <1>6, <1>11, <1>14 DEF OwnNames
<1> QED
  BY <1>16, <1>18, <1>19, <1>20, <1>21 DEF Relied

LEMMA ReliedIsEnough ==
  ASSUME Relied
  PROVE  AcknowledgedIsKept
<1> SUFFICES ASSUME NEW s \in Stores, kept[s] # None
             PROVE  /\ IsBox(boxes[s])
                    /\ s \notin cut => \A i \in DOMAIN kept[s] :
                         i <= Len(boxes[s].data) /\ boxes[s].data[i] >= kept[s][i]
                    /\ saved # Torn => \E n \in Names :
                         /\ saved[n] # None /\ saved[n].store = s
                         /\ s \notin cut => Len(kept[s]) <= saved[n].size
  BY DEF AcknowledgedIsKept
<1>1. saved # Torn => \E n \in Names :
        Lists(saved, n, s) /\ (s \notin cut => Len(kept[s]) <= saved[n].size)
  <2>1. saved # Torn => saved \in Indexes
    BY DEF Indexes
  <2> QED
    BY <2>1 DEF Relied, AllListed
<1>2. /\ IsBox(boxes[s]) /\ (s \notin cut => Len(kept[s]) <= Len(boxes[s].data))
      /\ \A i \in 1..Len(kept[s]) : i <= Len(boxes[s].data) => kept[s][i] <= boxes[s].data[i]
  BY DEF Relied, AllThere
<1>3. kept[s] \in Contents /\ boxes[s] \in Box
  BY <1>2 DEF Relied, StoreTypes, IsBox
<1>4. /\ DOMAIN kept[s] = 1..Len(kept[s]) /\ Len(kept[s]) \in Nat
      /\ \A i \in 1..Len(kept[s]) : kept[s][i] \in Nat
  BY <1>3, ContentFacts, VDiskConstants DEF Segments
<1>5. /\ Len(boxes[s].data) \in Nat
      /\ \A i \in 1..Len(boxes[s].data) : boxes[s].data[i] \in Nat
  BY <1>3, BoxFields, VDiskConstants DEF Segments
<1>6. ASSUME s \notin cut, NEW i \in DOMAIN kept[s]
      PROVE  i <= Len(boxes[s].data) /\ boxes[s].data[i] >= kept[s][i]
  <2>1. i \in 1..Len(kept[s]) /\ i <= Len(boxes[s].data) /\ i \in 1..Len(boxes[s].data)
    BY <1>2, <1>4, <1>5, <1>6
  <2> QED
    BY <1>2, <1>4, <1>5, <2>1
<1> QED
  BY <1>1, <1>2, <1>6 DEF Lists

\* What a call acknowledged is in its container, unless its plaintext was written short without
\* anybody noticing, and listed in the index on the disk, unless that was: whatever calls fail
\* or are killed after it, whoever locks and unlocks, after a reindex, and the one of the two
\* although the other came up short (rewrite_ptd, vdisk_abi.cpp; write_file_atomic,
\* vault_upsert_entry and vault_reindex, vault_index.cpp).
THEOREM AcknowledgedIsSafe == Spec => []AcknowledgedIsKept
<1> DEFINE Inv == Relied /\ Shape /\ LockedHoldsNothing /\ Caching(CacheOf(h))
<1>1. Init => Inv
  BY InitRelied, InitLocked, InitCaching
<1>2. Inv /\ [Next]_vars => Inv'
  BY StepRelied, StepLocked, StepCaching, CachingHasTypes
<1>3. Inv => AcknowledgedIsKept
  BY ReliedIsEnough
<1> QED
  BY <1>1, <1>2, <1>3, PTL DEF Spec
-----------------------------------------------------------------------------
(***************************************************************************)
(* What is read, while one password is given.                              *)
(***************************************************************************)
OnePassword == Passwords = {Owner}

Owned == \A s \in Stores : IsBox(boxes[s]) => boxes[s].pw = Owner

\* A file with something to rely on is listed by the handle where any index lists it.
LEMMA ListedByHandle ==
  ASSUME Relied, h.unlocked, NEW x \in Indexes, NEW n \in Names, NEW s \in Stores,
         Lists(x, n, s), kept[s] # None
  PROVE  Lists(h.index, n, s)
<1>1. h.index \in Indexes
  BY DEF Indexes
<1>2. PICK m \in Names : Lists(h.index, m, s)
  BY <1>1 DEF Relied, AllListed
<1>3. m = n
  BY <1>1, <1>2 DEF Relied, OneName
<1> QED
  BY <1>2, <1>3

\* What is cached of the store a name is of is as new as what can be relied on.
FreshFor(n, s) ==
  kept[s] # None => \A i \in 1..MaxLen :
    LET v == h.segs[<<n, i>>] IN
      i <= Len(kept[s]) /\ v # None /\ v # <<>> => kept[s][i] <= v[1]

LEMMA FreshForAll ==
  CacheIsFresh <=> \A n \in Names, s \in Stores : Lists(h.index, n, s) => FreshFor(n, s)
BY DEF CacheIsFresh, FreshFor

LEMMA KeysAre ==
  ASSUME NEW n \in Names, NEW i \in 1..MaxLen
  PROVE  <<n, i>> \in Keys
BY DEF Keys

LEMMA FreshStays ==
  ASSUME NEW n \in Names, NEW s \in Stores, FreshFor(n, s), Thinner(h', h), kept'[s] = kept[s]
  PROVE  FreshFor(n, s)'
<1>1. \A i \in 1..MaxLen : h'.segs[<<n, i>>] \in {h.segs[<<n, i>>], None}
  BY KeysAre DEF Thinner
<1> QED
  BY <1>1 DEF FreshFor

LEMMA NothingIsFresh ==
  ASSUME h'.segs = NoSegs
  PROVE  \A n \in Names, s \in Stores : FreshFor(n, s)'
BY KeysAre DEF FreshFor, NoSegs

\* A step that leaves the containers alone, and fewer indexes in force.
LEMMA QuietStaysFresh ==
  ASSUME Relied, LockedHoldsNothing, LockedHoldsNothing', CacheIsFresh, NamesStay,
         Thinner(h', h), Indexes' \subseteq Indexes, h'.unlocked \in BOOLEAN, h.unlocked \in BOOLEAN,
         UNCHANGED <<boxes, kept>>
  PROVE  CacheIsFresh' /\ NamesStay'
<1>1. ASSUME NEW n \in Names, NEW s \in Stores, Lists(h'.index, n, s), kept[s] # None
      PROVE  FreshFor(n, s)'
  <2>1. CASE ~h'.unlocked
    BY <2>1, NothingIsFresh DEF LockedHoldsNothing
  <2>2. CASE ~h.unlocked
    <3>1. \A i \in 1..MaxLen : h.segs[<<n, i>>] = None
      BY <2>2, KeysAre DEF LockedHoldsNothing, NoSegs
    <3>2. FreshFor(n, s)
      BY <3>1 DEF FreshFor
    <3> QED
      BY <3>2, FreshStays
  <2>3. CASE h'.unlocked /\ h.unlocked
    <3>1. h'.index \in Indexes
      BY <2>3 DEF Indexes
    <3>2. Lists(h.index, n, s)
      BY <1>1, <2>3, <3>1, ListedByHandle
    <3> QED
      BY <3>2, FreshForAll, FreshStays
  <2> QED
    BY <2>1, <2>2, <2>3
<1>2. CacheIsFresh'
  <2>1. \A n \in Names, s \in Stores : Lists(h'.index, n, s) => FreshFor(n, s)'
    BY <1>1 DEF FreshFor
  <2> QED
    BY <2>1 DEF CacheIsFresh, FreshFor, Lists
<1>3. \A s \in Stores, i \in 1..MaxLen :
        h'.segs[<<TempName(s), i>>] # None => h.segs[<<TempName(s), i>>] # None
  BY KeysAre, NameFacts DEF Thinner
<1>4. NamesStay'
  BY <1>3 DEF NamesStay, Lists, IsBox
<1> QED
  BY <1>2, <1>4

\* What a read puts into the cache is what the container has.
LEMMA ReadStaysFresh ==
  ASSUME Relied, Shape, CacheInv, NEW n \in Names, NEW i \in 1..MaxLen, Read(n, i)
  PROVE  CacheIsFresh' /\ NamesStay'
<1> DEFINE e == h.index[n]
           s == e.store
           b == boxes[s]
<1>0. StoreTypes /\ OneName /\ AllThere /\ CacheIsFresh /\ NamesStay
  BY DEF Relied, CacheInv
<1>1. /\ e \in Entry /\ h.unlocked /\ UNCHANGED store
      /\ Fills(CacheOf(h'), CacheOf(h), n, b)
  BY ReadReturns DEF CacheInv
<1>2. h.index \in Indexes /\ Lists(h.index, n, s) /\ s \in Stores
  BY <1>1, EntryFields DEF Indexes, Lists
<1>3. SameView(h', h)
  BY ReadView
<1>4. Indexes' = Indexes /\ h'.index = h.index
  BY <1>1, <1>3 DEF Indexes, SameView, store
<1>5. \A m \in Names, j \in 1..MaxLen :
        \/ h'.segs[<<m, j>>] \in {h.segs[<<m, j>>], None}
        \/ IsBox(b) /\ m = n /\ h'.segs[<<m, j>>] = Segment(b, j)
  <2> SUFFICES ASSUME NEW m \in Names, NEW j \in 1..MaxLen
               PROVE  \/ h'.segs[<<m, j>>] \in {h.segs[<<m, j>>], None}
                      \/ IsBox(b) /\ m = n /\ h'.segs[<<m, j>>] = Segment(b, j)
    OBVIOUS
  <2>1. <<m, j>> \in Keys /\ <<m, j>>[1] = m /\ <<m, j>>[2] = j
    BY KeysAre
  <2>2. CacheOf(h').segs = h'.segs /\ CacheOf(h).segs = h.segs
    BY DEF CacheOf
  <2> HIDE DEF b
  <2> QED
    BY <1>1, <2>1, <2>2 DEF Fills
<1>6. ASSUME NEW m \in Names, NEW t \in Stores, Lists(h.index, m, t), kept[t] # None
      PROVE  FreshFor(m, t)'
  <2> SUFFICES ASSUME NEW j \in 1..MaxLen, j <= Len(kept[t]), h'.segs[<<m, j>>] # None,
                      h'.segs[<<m, j>>] # <<>>
               PROVE  kept[t][j] <= h'.segs[<<m, j>>][1]
    BY <1>1 DEF FreshFor, store
  <2>1. CASE h'.segs[<<m, j>>] = h.segs[<<m, j>>]
    BY <1>0, <1>6, <2>1 DEF CacheIsFresh
  <2>2. CASE IsBox(b) /\ m = n /\ h'.segs[<<m, j>>] = Segment(b, j)
    <3>1. t = s
      BY <1>6, <2>2 DEF Lists
    <3>2. b \in Box
      BY <1>0, <1>2, <2>2 DEF StoreTypes, IsBox
    <3>3. Segment(b, j)[1] = b.data[j] /\ j <= Len(b.data)
      <4>1. j \in 1..Len(b.data) /\ Segment(b, j)[1] = b.data[j]
        BY <2>2, <3>2, SegmentIs
      <4>2. Len(b.data) \in Nat
        BY <3>2, BoxFields, VDiskConstants
      <4> QED
        BY <4>1, <4>2
    <3>4. j \in 1..Len(kept[t])
      BY <1>0, <1>6, VDiskConstants DEF StoreTypes, Contents
    <3>5. kept[t][j] <= b.data[j]
      BY <1>0, <1>6, <3>1, <3>3, <3>4 DEF AllThere
    <3> QED
      BY <2>2, <3>3, <3>5
  <2> QED
    BY <1>5, <2>1, <2>2
<1>7. CacheIsFresh'
  <2>1. \A m \in Names, t \in Stores : Lists(h'.index, m, t) => FreshFor(m, t)'
    BY <1>1, <1>4, <1>6 DEF FreshFor, store
  <2> QED
    BY <2>1 DEF CacheIsFresh, FreshFor, Lists
<1>8. ASSUME NEW t \in Stores, NEW j \in 1..MaxLen, h'.segs[<<TempName(t), j>>] # None
      PROVE  /\ boxes[t] # None /\ (IsBox(boxes[t]) => boxes[t].name = TempName(t))
             /\ \A x \in Indexes, m \in Names : Lists(x, m, t) => m = TempName(t)
  <2>1. TempName(t) \in Names
    BY NameFacts
  <2>2. CASE h.segs[<<TempName(t), j>>] # None
    BY <1>0, <2>2 DEF NamesStay
  <2>3. CASE IsBox(b) /\ TempName(t) = n
    <3>1. s = t
      BY <1>0, <1>1, <1>2, <2>3, EntryFields DEF NamesStay
    <3>2. boxes[t].name = TempName(t)
      BY <1>0, <1>2, <2>3, <3>1 DEF NamesStay
    <3>3. \A x \in Indexes, m \in Names : Lists(x, m, t) => m = TempName(t)
      BY <1>0, <1>2, <2>3, <3>1 DEF OneName
    <3> QED
      BY <2>3, <3>1, <3>2, <3>3 DEF IsBox
  <2> QED
    BY <1>5, <1>8, <2>1, <2>2, <2>3
<1>9. NamesStay'
  BY <1>0, <1>1, <1>4, <1>8 DEF NamesStay, Lists, IsBox, store
<1> QED
  BY <1>7, <1>9

LEMMA ChangesStayFresh ==
  ASSUME Relied, LockedHoldsNothing', CacheInv, h.unlocked, h'.unlocked \in BOOLEAN, Changes
  PROVE  CacheIsFresh' /\ NamesStay'
<1>0. StoreTypes /\ OneName /\ AllListed /\ AllThere /\ CacheIsFresh /\ NamesStay
  BY DEF Relied, CacheInv
<1>a. PICK n \in Names, s \in Stores : \E e, c, k : Changed(n, s, e, c, k) /\ Forgets(n, s, k)
  BY DEF Changes
<1>1. PICK e, c, k : Changed(n, s, e, c, k) /\ Forgets(n, s, k)
  BY <1>a
<1>2. /\ Lists(h.index, n, s) \/ (n \in Files /\ h.index[n] = None /\ boxes[s] = None)
      /\ e \in Entry \cup {None} /\ c \in Box \cup {Wiped} /\ k \in Contents \cup {None}
      /\ e # None => e.store = s
      /\ \A y \in Indexes' : Enters(y, n, e, k) \/ StillLists(y, s, k)
      /\ c \in Box => c.name = TempName(s)
      /\ Thinner(h', h)
  BY <1>1 DEF Changed, Forgets
<1>3. /\ boxes'[s] = c /\ c # None /\ kept'[s] = k
      /\ \A t \in Stores \ {s} : boxes'[t] = boxes[t] /\ kept'[t] = kept[t]
  BY <1>0, <1>1, Markers, VDiskConstants DEF StoreTypes, Changed
<1>4. \A y \in Indexes', m \in Names, t \in Stores : Lists(y, m, t) =>
        /\ t = s => m = n
        /\ t # s => \E x \in Indexes : Lists(x, m, t)
  <2>1. Arrivals(n, s, e, k)
    BY <1>2 DEF Arrivals
  <2>2. Arrived(n, s)
    BY <1>2, <2>1, EntersLists
  <2> QED
    BY <2>2 DEF Arrived
<1>5. h.index \in Indexes
  BY DEF Indexes
<1>6. ASSUME NEW m \in Names, NEW t \in Stores, Lists(h'.index, m, t), kept'[t] # None, h'.unlocked
      PROVE  FreshFor(m, t)'
  <2>1. h'.index \in Indexes'
    BY <1>6 DEF Indexes
  <2>2. CASE t # s
    <3>1. PICK x \in Indexes : Lists(x, m, t)
      BY <1>4, <1>6, <2>1, <2>2
    <3>2. Lists(h.index, m, t) /\ kept'[t] = kept[t]
      BY <1>3, <1>6, <2>2, <3>1, ListedByHandle
    <3> QED
      BY <1>0, <1>2, <3>2, FreshForAll, FreshStays
  <2>3. CASE t = s
    <3>1. m = n /\ k # None /\ kept'[t] = k
      BY <1>3, <1>4, <1>6, <2>1, <2>3
    <3> SUFFICES ASSUME NEW j \in 1..MaxLen, j <= Len(k), h'.segs[<<n, j>>] # None,
                        h'.segs[<<n, j>>] # <<>>
                 PROVE  k[j] <= h'.segs[<<n, j>>][1]
      BY <2>3, <3>1 DEF FreshFor
    <3>2. j \in 1..Len(k) /\ k \in Contents
      BY <1>2, <3>1, ContentFacts, VDiskConstants
    <3>3. kept[s] # None /\ j <= Len(kept[s]) /\ k[j] <= kept[s][j]
      BY <1>1, <3>1, <3>2 DEF Forgets
    <3>4. Lists(h.index, n, s)
      BY <1>0, <1>2, <3>3 DEF AllThere, IsBox
    <3>5. h'.segs[<<n, j>>] = h.segs[<<n, j>>] /\ h.segs[<<n, j>>] \in Contents
      BY <1>2, KeysAre, CachingHasTypes DEF Thinner, CacheInv, SegmentTypes
    <3>6. kept[s][j] <= h.segs[<<n, j>>][1]
      BY <1>0, <3>3, <3>4, <3>5 DEF CacheIsFresh
    <3>7. k[j] \in Nat /\ kept[s][j] \in Nat /\ h.segs[<<n, j>>][1] \in Nat
      <4>1. kept[s] \in Contents
        BY <1>0, <3>3 DEF StoreTypes
      <4>2. j \in 1..Len(kept[s])
        BY <3>3, <4>1, ContentFacts, VDiskConstants
      <4>3. \A d \in Contents : \A i \in 1..Len(d) : d[i] \in Nat
        BY ContentFacts, VDiskConstants DEF Segments
      <4>4. 1 \in 1..Len(h.segs[<<n, j>>])
        <5>1. \A d \in Contents : d # <<>> => 1 \in 1..Len(d)
          BY VDiskConstants DEF Contents
        <5> QED
          BY <3>5, <5>1
      <4> QED
        BY <3>2, <3>5, <4>1, <4>2, <4>3, <4>4
    <3> QED
      BY <3>3, <3>5, <3>6, <3>7
  <2> QED
    BY <2>2, <2>3
<1>7. CacheIsFresh'
  <2>1. \A m \in Names, t \in Stores : Lists(h'.index, m, t) => FreshFor(m, t)'
    <3>1. CASE h'.unlocked
      BY <1>6, <3>1 DEF FreshFor
    <3>2. CASE ~h'.unlocked
      BY <3>2, NothingIsFresh DEF LockedHoldsNothing
    <3> QED
      BY <3>1, <3>2
  <2> QED
    BY <2>1 DEF CacheIsFresh, FreshFor, Lists
<1>8. \A y \in Indexes', t \in Stores : y[TempName(t)] # None => y[TempName(t)].store = t
  <2> SUFFICES ASSUME NEW y \in Indexes', NEW t \in Stores, y[TempName(t)] # None
               PROVE  y[TempName(t)].store = t
    OBVIOUS
  <2>1. TempName(t) \in Names /\ TempName(t) \notin Files
    BY NameFacts
  <2>2. CASE y \in Indexes
    BY <1>0, <2>2 DEF NamesStay
  <2>3. CASE Enters(y, n, e, k)
    <3>1. PICK x \in Indexes : y = [x EXCEPT ![n] = e]
      BY <2>3 DEF Enters
    <3>2. y[TempName(t)] = IF TempName(t) = n THEN e ELSE x[TempName(t)]
      BY <1>0, <2>1, <3>1, IndexTypes
    <3>3. CASE TempName(t) = n
      <4>1. e # None /\ e.store = s /\ Lists(h.index, n, s)
        BY <1>2, <2>1, <3>2, <3>3
      <4>2. h.index[TempName(t)].store = t
        BY <1>0, <1>5, <3>3, <4>1 DEF NamesStay, Lists
      <4> QED
        BY <3>2, <3>3, <4>1, <4>2 DEF Lists
    <3>4. CASE TempName(t) # n
      BY <1>0, <3>1, <3>2, <3>4 DEF NamesStay
    <3> QED
      BY <3>3, <3>4
  <2> QED
    BY <1>2, <2>2, <2>3 DEF StillLists
<1>9. ASSUME NEW t \in Stores, IsBox(boxes'[t]), boxes'[t].name # TempName(t),
             NEW y \in Indexes', NEW m \in Names, Lists(y, m, t)
      PROVE  m = boxes'[t].name
  <2>1. t # s
    BY <1>2, <1>3, <1>9 DEF IsBox
  <2>2. PICK x \in Indexes : Lists(x, m, t)
    BY <1>4, <1>9, <2>1
  <2> QED
    BY <1>0, <1>3, <1>9, <2>1, <2>2 DEF NamesStay
<1>10. ASSUME NEW t \in Stores, NEW j \in 1..MaxLen, h'.segs[<<TempName(t), j>>] # None
       PROVE  /\ boxes'[t] # None /\ (IsBox(boxes'[t]) => boxes'[t].name = TempName(t))
              /\ \A y \in Indexes', m \in Names : Lists(y, m, t) => m = TempName(t)
  <2>1. h.segs[<<TempName(t), j>>] # None
    BY <1>2, <1>10, KeysAre, NameFacts DEF Thinner
  <2>2. /\ boxes[t] # None /\ (IsBox(boxes[t]) => boxes[t].name = TempName(t))
        /\ \A x \in Indexes, m \in Names : Lists(x, m, t) => m = TempName(t)
    BY <1>0, <2>1 DEF NamesStay
  <2>3. CASE t # s
    BY <1>3, <1>4, <2>2, <2>3
  <2>4. CASE t = s
    <3>1. Lists(h.index, n, s)
      BY <1>2, <2>2, <2>4
    <3>2. n = TempName(t)
      BY <1>5, <2>2, <2>4, <3>1
    <3>3. IsBox(c) => c.name = TempName(s)
      BY <1>2 DEF IsBox
    <3> QED
      BY <1>3, <1>4, <2>4, <3>2, <3>3
  <2> QED
    BY <2>3, <2>4
<1>11. NamesStay'
  BY <1>8, <1>9, <1>10 DEF NamesStay, Lists, IsBox
<1> QED
  BY <1>7, <1>11

\* A reindex lists every container under the name it has itself.
LEMMA ReindexStaysFresh ==
  ASSUME OnePassword, Relied, Shape, LockedHoldsNothing, LockedHoldsNothing', CacheInv, IpcReindex
  PROVE  CacheIsFresh' /\ NamesStay'
<1>0. StoreTypes /\ OneName /\ AllListed /\ AllThere /\ OwnNames /\ CacheIsFresh /\ NamesStay /\ Owned
  BY DEF Relied, CacheInv, Owned
<1>1. /\ h.unlocked /\ h'.unlocked = h.unlocked /\ SameCache(h', h) /\ mirror' = None
      /\ UNCHANGED <<boxes, kept>>
      /\ (saved' = Scan /\ h'.index = Scan) \/ (saved' \in {saved, Torn} /\ h' = h)
  BY ReindexView
<1>2. Thinner(h', h)
  BY <1>1, CachingHasTypes, SameIsThinner DEF CacheInv
<1>3. CASE saved' \in {saved, Torn} /\ h' = h
  <2>1. Indexes' \subseteq Indexes
    BY <1>1, <1>3 DEF Indexes
  <2> QED
    BY <1>0, <1>1, <1>2, <1>3, <2>1, QuietStaysFresh DEF Shape, Shaped
<1>4. CASE saved' = Scan /\ h'.index = Scan
  <2>1. Indexes' \subseteq {Scan}
    BY <1>1, <1>4 DEF Indexes
  <2>2. \A s \in Stores : IsBox(boxes[s]) => FoundAs(s) = boxes[s].name
    BY <1>0, <1>1 DEF OnePassword, Owned, StoreTypes, FoundAs
  <2>3. ASSUME NEW m \in Names, NEW s \in Stores, Lists(Scan, m, s)
        PROVE  IsBox(boxes[s]) /\ m = boxes[s].name
    BY <2>2, <2>3, ScanFinds DEF Lists
  <2> HIDE DEF Scan
  <2>4. ASSUME NEW m \in Names, NEW s \in Stores, Lists(Scan, m, s), kept[s] # None
        PROVE  FreshFor(m, s)'
    <3>1. CASE \A i \in 1..MaxLen : h.segs[<<m, i>>] = None
      <4>1. FreshFor(m, s)
        BY <3>1 DEF FreshFor
      <4> QED
        BY <1>1, <1>2, <4>1, FreshStays
    <3>2. ASSUME NEW i \in 1..MaxLen, h.segs[<<m, i>>] # None
          PROVE  FreshFor(m, s)'
      <4>1. PICK x \in Names : Lists(h.index, x, s)
        BY <1>0, <1>1, <2>4 DEF AllListed, Indexes
      <4>2. h.index \in Indexes /\ IsBox(boxes[s]) /\ m = boxes[s].name
        BY <1>1, <2>3, <2>4 DEF Indexes
      <4>3. x = m
        <5>1. CASE boxes[s].name = TempName(s)
          BY <1>0, <3>2, <4>1, <4>2, <5>1 DEF NamesStay
        <5>2. CASE boxes[s].name # TempName(s)
          BY <1>0, <4>1, <4>2, <5>2 DEF NamesStay
        <5> QED
          BY <5>1, <5>2
      <4> QED
        BY <1>0, <1>1, <1>2, <4>1, <4>3, FreshForAll, FreshStays
    <3> QED
      BY <3>1, <3>2
  <2>5. CacheIsFresh'
    <3>1. \A m \in Names, s \in Stores : Lists(h'.index, m, s) => FreshFor(m, s)'
      BY <1>1, <1>4, <2>4 DEF FreshFor
    <3> QED
      BY <3>1 DEF CacheIsFresh, FreshFor, Lists
  <2>6. \A s \in Stores : Scan[TempName(s)] # None => Scan[TempName(s)].store = s
    <3> SUFFICES ASSUME NEW s \in Stores, Scan[TempName(s)] # None
                 PROVE  Scan[TempName(s)].store = s
      OBVIOUS
    <3>1. TempName(s) \in Names
      BY NameFacts
    <3> DEFINE t == Scan[TempName(s)].store
    <3>2. t \in Stores /\ Lists(Scan, TempName(s), t)
      BY <3>1, ScanFinds DEF Lists
    <3>3. boxes[t].name = TempName(s) /\ IsBox(boxes[t])
      BY <2>3, <3>1, <3>2
    <3>4. TempName(s) \in Files \cup {TempName(t)}
      BY <1>0, <3>2, <3>3 DEF OwnNames
    <3> QED
      BY <3>2, <3>4, NameFacts
  <2>7. \A s \in Stores, i \in 1..MaxLen : h.segs[<<TempName(s), i>>] # None =>
          /\ boxes[s] # None /\ (IsBox(boxes[s]) => boxes[s].name = TempName(s))
          /\ \A m \in Names : Lists(Scan, m, s) => m = TempName(s)
    BY <1>0, <2>3 DEF NamesStay
  <2>8. NamesStay'
    BY <1>1, <2>1, <2>3, <2>6, <2>7 DEF NamesStay, Lists, IsBox, SameCache
  <2> QED
    BY <2>5, <2>8
<1> QED
  BY <1>1, <1>3, <1>4

LEMMA LooksStayFresh ==
  ASSUME Relied, Shape, LockedHoldsNothing, LockedHoldsNothing', CacheInv, Looks
  PROVE  CacheIsFresh' /\ NamesStay'
<1>1. SameView(h', h) /\ Thinner(h', h) /\ UNCHANGED store
  BY DEF Looks
<1>2. Indexes' \subseteq Indexes
  BY <1>1 DEF Indexes, SameView, store
<1> QED
  BY <1>1, <1>2, QuietStaysFresh DEF CacheInv, Shape, Shaped, SameView, store

LEMMA StepFresh ==
  ASSUME OnePassword, Relied, Shape, LockedHoldsNothing, LockedHoldsNothing', Shape', CacheInv,
         [Next]_vars
  PROVE  CacheIsFresh' /\ NamesStay'
<1>0. SegmentTypes
  BY CachingHasTypes DEF CacheInv
<1>1. ASSUME Thinner(h', h), Indexes' \subseteq Indexes, UNCHANGED <<boxes, kept>>
      PROVE  CacheIsFresh' /\ NamesStay'
  BY <1>1, QuietStaysFresh DEF CacheInv, Shape, Shaped
<1>2. ASSUME Emptied(h'), mirror' = None, Flushed, UNCHANGED <<boxes, kept>>
      PROVE  CacheIsFresh' /\ NamesStay'
  <2>1. Indexes' \subseteq Indexes
    BY <1>2 DEF Indexes, Emptied, Flushed
  <2> QED
    BY <1>1, <1>2, <2>1, EmptyIsThinner
<1>3. CASE Kill \/ Stop
  <2>1. Restarted /\ UNCHANGED <<boxes, kept>> /\ Flushed
    BY <1>3, FlushIs DEF Kill, Stop, Flushed
  <2> QED
    BY <1>2, <2>1, RestartLocks
<1>4. CASE IpcLock \/ WatchLock \/ LateCall
  <2>1. DoLock
    BY <1>4 DEF IpcLock, WatchLock, LateCall
  <2>2. UNCHANGED <<boxes, kept>> /\ Flushed
    BY <2>1, FlushIs DEF DoLock
  <2> QED
    BY <1>2, <2>1, <2>2, LockLocks
<1>5. ASSUME NEW pw, Unlock(pw)
      PROVE  CacheIsFresh' /\ NamesStay'
  <2>1. /\ UNCHANGED <<boxes, saved, mirror, kept>>
        /\ h' = h \/ (h'.unlocked = TRUE /\ h'.index = saved /\ saved # Torn)
        /\ SameCache(h', h)
    BY <1>5, UnlockView
  <2>2. Indexes' \subseteq Indexes
    BY <2>1 DEF Indexes
  <2> QED
    BY <1>0, <1>1, <2>1, <2>2, SameIsThinner
<1>6. CASE UNCHANGED <<h, store>>
  <2>1. Indexes' \subseteq Indexes
    BY <1>6 DEF Indexes, store
  <2>2. SameCache(h', h)
    BY <1>6 DEF SameCache
  <2> QED
    BY <1>0, <1>1, <1>6, <2>1, <2>2, SameIsThinner DEF store
<1>7. CASE Start
  <2>1. Unlock(Owner) \/ UNCHANGED <<h, store>>
    BY <1>7, Zenon DEF Start
  <2> QED
    BY <1>5, <1>6, <2>1
<1>8. CASE IpcUnlock
  <2>1. \E pw \in Passwords : Unlock(pw)
    BY <1>8, Zenon DEF IpcUnlock
  <2> QED
    BY <1>5, <2>1
<1>9. Looks => CacheIsFresh' /\ NamesStay'
  BY LooksStayFresh
<1>10. CASE Mount \/ IpcIdle \/ IpcCache \/ Expire \/ Refused
  <2>1. /\ SameView(h', h) /\ UNCHANGED store
        /\ SameCache(h', h) \/ (h'.segs = NoSegs /\ h'.lru = <<>> /\ h'.bytes = 0)
    BY <1>10, MountView, IdleView, CacheView, ExpireView, RefusedView
  <2>2. Thinner(h', h)
    BY <1>0, <2>1, SameIsThinner DEF Thinner, NoSegs
  <2> QED
    BY <1>9, <2>1, <2>2 DEF Looks
<1>11. CASE IpcFlag \/ WatchFlag \/ WatchIdle \/ WatchClear \/ UNCHANGED vars
  BY <1>6, <1>11 DEF IpcFlag, WatchFlag, WatchIdle, WatchClear, vars
<1>12. CASE IpcReindex
  BY <1>12, ReindexStaysFresh
<1>13. ASSUME NEW n \in Names, NEW i \in 1..MaxLen, Read(n, i)
       PROVE  CacheIsFresh' /\ NamesStay'
  BY <1>13, ReadStaysFresh
<1>14. ChangesAFile => CacheIsFresh' /\ NamesStay'
  BY <1>9, ChangesStayFresh DEF ChangesAFile, Shape, Shaped
<1>15. CASE Io
  BY <1>0, <1>4, <1>10, <1>13, <1>14, <1>15, IoChanges DEF Io
<1> QED
  BY <1>3, <1>4, <1>7, <1>8, <1>10, <1>11, <1>12, <1>15 DEF Next, Ipc, Watch

LEMMA InitFresh ==
  ASSUME Init
  PROVE  CacheIsFresh /\ NamesStay
<1>1. /\ At \in [Files -> Stores] /\ IsInjective(At)
      /\ boxes = [s \in Stores |->
           IF s \in {At[f] : f \in Files}
             THEN [data |-> <<0>>, pw |-> Owner, salt |-> 0,
                   name |-> CHOOSE f \in Files : At[f] = s]
             ELSE None]
      /\ saved = [n \in Names |->
           IF n \in Files THEN [store |-> At[n], size |-> 1] ELSE None]
  BY VDiskConstants, Zenon DEF Init
<1>2. mirror = None /\ h.index = EmptyIndex /\ h.segs = NoSegs /\ h.unlocked = FALSE
  BY OpenedIsEmpty DEF Init, Emptied
<1>3. Indexes \subseteq {saved}
  BY <1>2 DEF Indexes
<1>4. \A n \in Names, i \in 1..MaxLen : h.segs[<<n, i>>] = None
  BY <1>2, KeysAre DEF NoSegs
<1>5. CacheIsFresh
  BY <1>4 DEF CacheIsFresh
<1>6. \A s \in Stores : saved[TempName(s)] = None
  BY <1>1, NameFacts
<1>7. ASSUME NEW s \in Stores, NEW n \in Names, Lists(saved, n, s), IsBox(boxes[s])
      PROVE  n = boxes[s].name
  <2>1. n \in Files /\ At[n] = s
    BY <1>1, <1>7 DEF Lists
  <2>2. boxes[s].name = CHOOSE f \in Files : At[f] = s
    BY <1>1, <2>1
  <2>3. \A f \in Files : At[f] = s => f = n
    BY <1>1, <2>1 DEF IsInjective
  <2> QED
    BY <2>1, <2>2, <2>3
<1> QED
  BY <1>3, <1>4, <1>5, <1>6, <1>7, NameFacts DEF NamesStay

(***************************************************************************)
(* What the last call returned.                                            *)
(***************************************************************************)
LEMMA RewrittenIsSilent ==
  ASSUME NEW n, NEW s, NEW data, NEW g, NEW owed, Rewritten(n, s, data, g, owed)
  PROVE  reply' = Silent
BY Zenon DEF Rewritten, Acknowledged, Failed

LEMMA OnlyReadsAnswer ==
  ASSUME [Next]_vars
  PROVE  \/ reply'.call # "read" \/ UNCHANGED <<reply, kept>>
         \/ \E n \in Names, i \in 1..MaxLen : Read(n, i)
<1>1. Silent.call = "other"
  BY DEF Silent
<1>2. \A pw : Unlock(pw) => reply'.call = "unlock"
  BY DEF Unlock, Silent
<1>3. CASE Kill \/ Stop \/ Mount
  BY <1>1, <1>3 DEF Kill, Stop, Restarted, Mount
<1>4. CASE Start
  <2>1. Unlock(Owner) \/ UNCHANGED <<reply, kept>>
    BY <1>4, Zenon DEF Start, store
  <2> QED
    BY <1>2, <2>1
<1>5. CASE Ipc
  <2>1. CASE IpcUnlock
    <3>1. \E pw \in Passwords : Unlock(pw)
      BY <2>1, Zenon DEF IpcUnlock
    <3> QED
      BY <1>2, <3>1
  <2>2. CASE IpcLock \/ IpcFlag \/ IpcIdle \/ IpcCache
    BY <1>1, <2>2 DEF IpcLock, IpcFlag, IpcIdle, IpcCache, DoLock
  <2>3. CASE IpcReindex
    <3>1. reply' = Silent
      BY <2>3, Zenon DEF IpcReindex
    <3> QED
      BY <1>1, <3>1
  <2> QED
    BY <1>5, <2>1, <2>2, <2>3 DEF Ipc
<1>6. CASE Watch \/ Expire
  BY <1>1, <1>6 DEF Watch, WatchFlag, WatchIdle, WatchLock, WatchClear, DoLock, Expire
<1>7. CASE Io
  <2>1. CASE LateCall \/ Refused
    BY <1>1, <2>1 DEF LateCall, Refused, DoLock
  <2>2. ASSUME NEW n \in Names, NEW i \in 1..MaxLen, Write(n, i)
        PROVE  reply'.call # "read"
    <3>1. \E s, data, g, owed : Rewritten(n, s, data, g, owed)
      BY <2>2, Zenon DEF Write
    <3> QED
      BY <1>1, <3>1, RewrittenIsSilent
  <2>3. ASSUME NEW n \in Names, NEW len \in 0..MaxLen, Truncate(n, len)
        PROVE  reply'.call # "read"
    <3>1. \E s, data, g, owed : Rewritten(n, s, data, g, owed)
      BY <2>3, Zenon DEF Truncate
    <3> QED
      BY <1>1, <3>1, RewrittenIsSilent
  <2>4. ASSUME NEW f \in Files, NEW s \in Stores, Create(f, s)
        PROVE  reply'.call # "read"
    <3>1. \E data, g, owed : Rewritten(f, s, data, g, owed)
      BY <2>4, Zenon DEF Create
    <3> QED
      BY <1>1, <3>1, RewrittenIsSilent
  <2>5. ASSUME NEW n \in Names, Delete(n)
        PROVE  reply'.call # "read"
    <3>1. reply' = Silent
      BY <2>5, Zenon DEF Delete
    <3> QED
      BY <1>1, <3>1
  <2> QED
    BY <1>7, <2>1, <2>2, <2>3, <2>4, <2>5 DEF Io
<1>8. CASE UNCHANGED vars
  BY <1>8 DEF vars, store
<1> QED
  BY <1>3, <1>4, <1>5, <1>6, <1>7, <1>8 DEF Next

LEMMA StepReads ==
  ASSUME Relied, Shape, CacheInv, ReadsFresh, [Next]_vars
  PROVE  ReadsFresh'
<1>1. CASE reply'.call # "read"
  BY <1>1 DEF ReadsFresh
<1>2. CASE UNCHANGED <<reply, kept>>
  BY <1>2 DEF ReadsFresh
<1>3. ASSUME NEW n \in Names, NEW i \in 1..MaxLen, Read(n, i)
      PROVE  ReadsFresh'
  <2> DEFINE e == h.index[n]
             s == e.store
             b == boxes[s]
  <2>1. /\ e \in Entry /\ h.unlocked /\ UNCHANGED store
        /\ \/ reply'.got = <<>>
           \/ /\ reply'.store = s /\ reply'.at = i
              /\ \/ reply'.got = Segment(b, i) /\ IsBox(b)
                 \/ h.segs[<<n, i>>] # None /\ reply'.got = h.segs[<<n, i>>]
    BY <1>3, ReadReturns DEF CacheInv
  <2> SUFFICES ASSUME reply'.got # <<>>, kept[s] # None, i \in DOMAIN kept[s],
                      reply'.store = s, reply'.at = i
               PROVE  reply'.got[1] >= kept[s][i]
    BY <2>1 DEF ReadsFresh, store
  <2>2. s \in Stores /\ Lists(h.index, n, s) /\ kept[s] \in Contents
    BY <2>1, EntryFields DEF Lists, Relied, StoreTypes
  <2>3. i \in 1..Len(kept[s]) /\ i <= Len(kept[s]) /\ kept[s][i] \in Nat
    BY <2>2, ContentFacts, VDiskConstants DEF Segments
  <2>4. CASE reply'.got = Segment(b, i) /\ IsBox(b)
    <3>1. b \in Box
      BY <2>2, <2>4 DEF Relied, StoreTypes, IsBox
    <3>2. reply'.got[1] = b.data[i] /\ i \in 1..Len(b.data)
      BY <2>4, <3>1, SegmentIs
    <3>3. b.data[i] \in Nat /\ i <= Len(b.data)
      BY <3>1, <3>2, BoxFields, VDiskConstants DEF Segments
    <3>4. kept[s][i] <= b.data[i]
      BY <2>2, <2>3, <3>3 DEF Relied, AllThere
    <3> QED
      BY <2>3, <3>2, <3>3, <3>4
  <2>5. CASE h.segs[<<n, i>>] # None /\ reply'.got = h.segs[<<n, i>>]
    <3>1. kept[s][i] <= h.segs[<<n, i>>][1]
      BY <2>2, <2>3, <2>5 DEF CacheInv, CacheIsFresh
    <3>2. h.segs[<<n, i>>] \in Contents
      BY <2>5, KeysAre, CachingHasTypes DEF CacheInv, SegmentTypes
    <3>3. h.segs[<<n, i>>][1] \in Nat
      <4>1. \A d \in Contents : d # <<>> => d[1] \in Nat
        BY VDiskConstants DEF Contents, Segments
      <4> QED
        BY <2>5, <3>2, <4>1
    <3> QED
      BY <2>3, <2>5, <3>1, <3>3
  <2> QED
    BY <2>1, <2>4, <2>5
<1> QED
  BY <1>1, <1>2, <1>3, OnlyReadsAnswer

\* While one password is given, a read never returns a segment from before the last
\* acknowledged change of the file, from the read cache or past it (vdisk_read_file, seg_get,
\* invalidate_ptd_caches).  With a second one it can: index_key_cached takes any password as
\* long as the key is kept, and a reindex that cannot open a container lists it under another
\* name while segments stay cached under the first.
THEOREM ReadsAreFresh ==
  ASSUME Passwords = {Owner}
  PROVE  Spec => []ReadsFresh
<1> DEFINE Inv == Relied /\ Shape /\ LockedHoldsNothing /\ CacheInv /\ ReadsFresh
<1>0. OnePassword
  BY DEF OnePassword
<1>1. ASSUME Init
      PROVE  Inv
  <2>1. Relied /\ Shape /\ LockedHoldsNothing /\ Caching(CacheOf(h))
    BY <1>1, InitRelied, InitLocked, InitCaching
  <2>2. Owned
    BY <1>0, <2>1 DEF OnePassword, Owned, Relied, StoreTypes, Box, IsBox
  <2>3. CacheIsFresh /\ NamesStay
    BY <1>1, InitFresh
  <2>4. ReadsFresh
    BY <1>1 DEF Init, Silent, ReadsFresh
  <2> QED
    BY <2>1, <2>2, <2>3, <2>4 DEF CacheInv, Owned
<1>2. ASSUME Inv, [Next]_vars
      PROVE  Inv'
  <2>1. SegmentTypes /\ Caching(CacheOf(h))
    BY <1>2, CachingHasTypes DEF CacheInv
  <2>2. Relied' /\ Shape' /\ LockedHoldsNothing' /\ Caching(CacheOf(h))'
    BY <1>2, <2>1, StepRelied, StepLocked, StepCaching
  <2>3. Owned'
    BY <1>0, <2>2 DEF OnePassword, Owned, Relied, StoreTypes, Box, IsBox
  <2>4. CacheIsFresh' /\ NamesStay'
    BY <1>0, <1>2, <2>2, StepFresh
  <2>5. ReadsFresh'
    BY <1>2, StepReads
  <2> QED
    BY <2>2, <2>3, <2>4, <2>5 DEF CacheInv, Owned
<1>3. Inv => ReadsFresh
  OBVIOUS
<1> HIDE DEF Inv
<1> QED
  BY <1>1, <1>2, <1>3, PTL DEF Spec
-----------------------------------------------------------------------------
(***************************************************************************)
(* Types.                                                                  *)
(***************************************************************************)
HandleTypes(d) ==
  /\ {d.rw, d.cache, d.timeout, d.expired} \subseteq BOOLEAN
  /\ d.keks \in [Stores -> Kek \cup {None}]

\* What the other invariants leave of TypeOK.
RestTypes ==
  /\ HandleTypes(h) /\ unlocked \in BOOLEAN
  /\ mirror # None => mirror.dirty \in BOOLEAN
  /\ svc \in {"opened", "starting", "running"} /\ ipc \in {"idle", "set", "clear"}
  /\ dog \in {"flag", "idle", "lock", "clear"}
  /\ faults \in 0..MaxFaults

LEMMA FaultTypes ==
  ASSUME faults \in 0..MaxFaults, Fault \/ UNCHANGED faults
  PROVE  faults' \in 0..MaxFaults
<1>1. MaxFaults \in Nat
  BY VDiskConstants
<1> QED
  BY <1>1 DEF Fault

LEMMA OpenedTypes == HandleTypes(Opened)
<1>1. NoKeks \in [Stores -> Kek \cup {None}]
  BY DEF NoKeks
<1>2. /\ Opened.rw = FALSE /\ Opened.cache = FALSE /\ Opened.timeout = IdleTimeout
      /\ Opened.expired = FALSE /\ Opened.keks = NoKeks
  BY DEF Opened
<1> QED
  BY <1>1, <1>2, VDiskConstants DEF HandleTypes

LEMMA ClosedTypes ==
  ASSUME NEW g, Shaped(g), HandleTypes(g)
  PROVE  HandleTypes(Closed(g))
<1>1. NoKeks \in [Stores -> Kek \cup {None}]
  BY DEF NoKeks
<1>2. /\ Closed(g).rw = g.rw /\ Closed(g).cache = g.cache /\ Closed(g).timeout = g.timeout
      /\ Closed(g).expired = g.expired /\ Closed(g).keks = NoKeks
  BY DEF Shaped, Fields, Closed
<1> QED
  BY <1>1, <1>2 DEF HandleTypes

LEMMA FreshTypes ==
  ASSUME NEW g, Shaped(g), HandleTypes(g)
  PROVE  HandleTypes([g EXCEPT !.expired = FALSE])
BY DEF Shaped, Fields, HandleTypes

LEMMA EnteredTypes ==
  ASSUME NEW g, Shaped(g), HandleTypes(g), NEW n, NEW e
  PROVE  HandleTypes([g EXCEPT !.index[n] = e])
BY DEF Shaped, Fields, HandleTypes

LEMMA KekFieldTypes ==
  ASSUME NEW g, Shaped(g), HandleTypes(g), NEW s, NEW k \in Kek \cup {None}
  PROVE  HandleTypes([g EXCEPT !.keks[s] = k])
<1> DEFINE d == [g EXCEPT !.keks[s] = k]
<1>1. /\ d.rw = g.rw /\ d.cache = g.cache /\ d.timeout = g.timeout /\ d.expired = g.expired
      /\ d.keks = [g.keks EXCEPT ![s] = k]
  BY DEF Shaped, Fields
<1> HIDE DEF d
<1>2. d.keks \in [Stores -> Kek \cup {None}]
  BY <1>1 DEF HandleTypes
<1>3. HandleTypes(d)
  BY <1>1, <1>2 DEF HandleTypes
<1> QED
  BY <1>3 DEF d

LEMMA InvalidatedTypes ==
  ASSUME NEW g, Shaped(g), HandleTypes(g), NEW n, NEW s
  PROVE  HandleTypes(Invalidated(g, n, s))
<1> DEFINE d == Invalidated(g, n, s)
<1>1. /\ d.rw = g.rw /\ d.cache = g.cache /\ d.timeout = g.timeout /\ d.expired = g.expired
      /\ d.keks = [g.keks EXCEPT ![s] = None]
  BY DEF Shaped, Fields, Invalidated
<1> HIDE DEF d
<1>2. d.keks \in [Stores -> Kek \cup {None}]
  BY <1>1 DEF HandleTypes
<1>3. HandleTypes(d)
  BY <1>1, <1>2 DEF HandleTypes
<1> QED
  BY <1>3 DEF d

LEMMA WithCacheTypes ==
  ASSUME NEW g, Shaped(g), HandleTypes(g), NEW c
  PROVE  HandleTypes(WithCache(g, c))
BY DEF Shaped, Fields, HandleTypes, WithCache

LEMMA DroppedTypes ==
  ASSUME Shape, HandleTypes(h), NEW n, NEW s
  PROVE  HandleTypes(Invalidated([h EXCEPT !.expired = FALSE], n, s))
<1> DEFINE fresh == [h EXCEPT !.expired = FALSE]
<1>1. Shaped(fresh) /\ HandleTypes(fresh)
  BY FreshView, FreshTypes DEF Shape, SameView
<1> HIDE DEF fresh
<1> QED
  BY <1>1, InvalidatedTypes DEF fresh

LEMMA LockTypes ==
  ASSUME Shape, RestTypes, DoLock
  PROVE  HandleTypes(h') /\ mirror' = None /\ faults' \in 0..MaxFaults
<1>1. Fault \/ UNCHANGED faults
  BY DEF DoLock, Flush
<1> QED
  BY <1>1, FaultTypes, ClosedTypes DEF DoLock, RestTypes, Shape

LEMMA RestartTypes ==
  ASSUME Restarted, faults' \in 0..MaxFaults
  PROVE  RestTypes'
BY OpenedTypes DEF Restarted, RestTypes, HandleTypes

LEMMA UnlockTypes ==
  ASSUME Shape, RestTypes, NEW pw, Unlock(pw)
  PROVE  HandleTypes(h') /\ UNCHANGED <<mirror, faults>>
<1>1. h' = h \/ (h'.rw = h.rw /\ h'.cache = h.cache /\ h'.timeout = h.timeout
                 /\ h'.expired = FALSE /\ h'.keks = h.keks)
  BY DEF Unlock, Shape, Shaped, Fields
<1> QED
  BY <1>1 DEF Unlock, RestTypes, HandleTypes

LEMMA RewrittenTypes ==
  ASSUME Shape, RestTypes, NEW n, NEW s, NEW data, NEW g, NEW owed,
         Shaped(g), HandleTypes(g), Rewritten(n, s, data, g, owed)
  PROVE  RestTypes'
<1> DEFINE e == [store |-> s, size |-> Len(data)]
           fresh == [h EXCEPT !.expired = FALSE]
           entered == [g EXCEPT !.index[n] = e]
           text == [MirrorText EXCEPT ![n] = e]
<1>1. /\ Fault \/ UNCHANGED faults
      /\ \/ Restarted
         \/ /\ h' \in {g, fresh, entered} /\ UNCHANGED threads
            /\ mirror' \in {mirror, [text |-> text, dirty |-> TRUE], [text |-> text, dirty |-> FALSE]}
  BY Zenon DEF Rewritten, Listed, ListedShort, ListedInMemory, Unlisted, store
<1>2. HandleTypes(fresh) /\ HandleTypes(entered)
  BY FreshTypes, EnteredTypes DEF RestTypes, Shape
<1>3. faults' \in 0..MaxFaults
  BY <1>1, FaultTypes DEF RestTypes
<1> HIDE DEF fresh, entered, text
<1>4. CASE Restarted
  BY <1>3, <1>4, RestartTypes
<1>5. CASE ~Restarted
  <2>0. h' \in {g, fresh, entered} /\ UNCHANGED threads
    BY <1>1, <1>5
  <2>1. HandleTypes(h')
    BY <1>2, <2>0
  <2>2. mirror' # None => mirror'.dirty \in BOOLEAN
    <3>1. mirror' = mirror \/ mirror'.dirty = TRUE \/ mirror'.dirty = FALSE
      BY <1>1, <1>5
    <3>2. mirror # None => mirror.dirty \in BOOLEAN
      BY DEF RestTypes
    <3> QED
      BY <3>1, <3>2
  <2> QED
    BY <1>3, <2>0, <2>1, <2>2 DEF RestTypes, HandleTypes, threads
<1> QED
  BY <1>4, <1>5

LEMMA ChangingTypes ==
  ASSUME Shape, RestTypes
  PROVE  /\ \A n \in Names : /\ \A i \in 1..MaxLen : Write(n, i) => RestTypes'
                             /\ \A len \in 0..MaxLen : Truncate(n, len) => RestTypes'
         /\ \A f \in Files, s \in Stores : Create(f, s) => RestTypes'
<1>1. HandleTypes(h) /\ Shaped(h)
  BY DEF RestTypes, Shape
<1>2. \A n, s : /\ Shaped(Invalidated([h EXCEPT !.expired = FALSE], n, s))
                /\ HandleTypes(Invalidated([h EXCEPT !.expired = FALSE], n, s))
  <2> DEFINE fresh == [h EXCEPT !.expired = FALSE]
  <2>1. Shaped(fresh)
    BY <1>1, FreshView DEF SameView
  <2> HIDE DEF fresh
  <2>2. \A n, s : Shaped(Invalidated(fresh, n, s))
    <3> SUFFICES ASSUME NEW n, NEW s PROVE Shaped(Invalidated(fresh, n, s))
      OBVIOUS
    <3> QED
      BY <2>1, InvalidatedView DEF SameView
  <2> QED
    BY <1>1, <2>2, DroppedTypes DEF fresh
<1>3. Shaped([h EXCEPT !.expired = FALSE]) /\ HandleTypes([h EXCEPT !.expired = FALSE])
  BY <1>1, FreshView, FreshTypes DEF SameView
<1>4. ASSUME NEW n \in Names, NEW i \in 1..MaxLen, Write(n, i)
      PROVE  RestTypes'
  <2>1. PICK s, data, owed :
          Rewritten(n, s, data, Invalidated([h EXCEPT !.expired = FALSE], n, s), owed)
    BY <1>4, Zenon DEF Write
  <2> QED
    BY <1>2, <2>1, RewrittenTypes
<1>5. ASSUME NEW n \in Names, NEW len \in 0..MaxLen, Truncate(n, len)
      PROVE  RestTypes'
  <2>1. PICK s, data, owed :
          Rewritten(n, s, data, Invalidated([h EXCEPT !.expired = FALSE], n, s), owed)
    BY <1>5, Zenon DEF Truncate
  <2> QED
    BY <1>2, <2>1, RewrittenTypes
<1>6. ASSUME NEW f \in Files, NEW s \in Stores, Create(f, s)
      PROVE  RestTypes'
  <2>1. Rewritten(f, s, <<>>, [h EXCEPT !.expired = FALSE], None)
    BY <1>6, Zenon DEF Create
  <2> QED
    BY <1>3, <2>1, RewrittenTypes
<1> QED
  BY <1>4, <1>5, <1>6

LEMMA DeleteTypes ==
  ASSUME Shape, RestTypes, NEW n \in Names, Delete(n)
  PROVE  RestTypes'
<1> DEFINE fresh == [h EXCEPT !.expired = FALSE]
           dropped == Invalidated(fresh, n, h.index[n].store)
           entered == [dropped EXCEPT !.index[n] = None]
           text == [MirrorText EXCEPT ![n] = None]
<1>1. /\ Fault \/ UNCHANGED faults
      /\ \/ Restarted
         \/ /\ h' \in {fresh, dropped, entered} /\ UNCHANGED threads
            /\ mirror' \in {mirror, [text |-> text, dirty |-> TRUE], [text |-> text, dirty |-> FALSE]}
  BY Zenon DEF Delete, Listed, ListedShort, ListedInMemory, Unlisted
<1>2. Shaped(fresh) /\ HandleTypes(fresh)
  BY FreshView, FreshTypes DEF RestTypes, Shape, SameView
<1>3. Shaped(dropped) /\ HandleTypes(dropped)
  <2> HIDE DEF fresh
  <2> QED
    BY <1>2, InvalidatedView, InvalidatedTypes DEF SameView
<1>4. HandleTypes(entered)
  <2> HIDE DEF dropped
  <2> QED
    BY <1>3, EnteredTypes
<1>5. faults' \in 0..MaxFaults
  BY <1>1, FaultTypes DEF RestTypes
<1> HIDE DEF fresh, dropped, entered, text
<1>6. CASE Restarted
  BY <1>5, <1>6, RestartTypes
<1>7. CASE ~Restarted
  <2>0. h' \in {fresh, dropped, entered} /\ UNCHANGED threads
    BY <1>1, <1>7
  <2>1. HandleTypes(h')
    BY <1>2, <1>3, <1>4, <2>0
  <2>2. mirror' # None => mirror'.dirty \in BOOLEAN
    <3>1. mirror' = mirror \/ mirror'.dirty = TRUE \/ mirror'.dirty = FALSE
      BY <1>1, <1>7
    <3>2. mirror # None => mirror.dirty \in BOOLEAN
      BY DEF RestTypes
    <3> QED
      BY <3>1, <3>2
  <2> QED
    BY <1>5, <2>0, <2>1, <2>2 DEF RestTypes, HandleTypes, threads
<1> QED
  BY <1>6, <1>7

LEMMA ReadTypes ==
  ASSUME Relied, Shape, RestTypes, NEW n \in Names, NEW i \in 1..MaxLen, Read(n, i)
  PROVE  RestTypes'
<1> DEFINE e == h.index[n]
           fresh == [h EXCEPT !.expired = FALSE]
           keyed == [fresh EXCEPT !.keks[e.store] = KekOf(e.store)]
<1>1. /\ h.unlocked /\ e # None /\ UNCHANGED <<store, threads, faults>>
      /\ h' = fresh \/ h' = keyed \/ \E c : h' = WithCache(keyed, c)
  BY Zenon DEF Read, Reading
<1>2. e.store \in Stores
  <2>1. e \in Entry
    BY <1>1 DEF Relied, StoreTypes
  <2> QED
    BY <2>1, EntryFields
<1>3. KekOf(e.store) \in Kek \cup {None}
  <2>1. h.keks[e.store] \in Kek \cup {None}
    BY <1>2 DEF RestTypes, HandleTypes
  <2>2. IsBox(boxes[e.store]) => [pw |-> h.passphrase, salt |-> boxes[e.store].salt] \in Kek
    <3>1. IsBox(boxes[e.store]) => boxes[e.store].salt \in Segments
      BY <1>2 DEF Relied, StoreTypes, IsBox, Box
    <3> QED
      BY <1>1, <3>1 DEF Relied, StoreTypes, Kek
  <2> QED
    BY <2>1, <2>2 DEF KekOf
<1>4. Shaped(fresh) /\ HandleTypes(fresh)
  BY FreshView, FreshTypes DEF RestTypes, Shape, SameView
<1>5. Shaped(keyed) /\ HandleTypes(keyed)
  <2> HIDE DEF fresh
  <2> QED
    BY <1>3, <1>4, KekView, KekFieldTypes DEF SameView
<1> HIDE DEF fresh, keyed
<1>6. HandleTypes(h')
  BY <1>1, <1>4, <1>5, WithCacheTypes
<1> QED
  BY <1>1, <1>6 DEF RestTypes, HandleTypes, threads, store

LEMMA StepRest ==
  ASSUME Relied, Shape, RestTypes, [Next]_vars
  PROVE  RestTypes'
<1>0. HandleTypes(h) /\ Shaped(h) /\ faults \in 0..MaxFaults
  BY DEF RestTypes, Shape
<1>1. CASE Kill \/ Stop
  <2>1. Restarted /\ (Fault \/ UNCHANGED faults)
    BY <1>1 DEF Kill, Stop, Flush
  <2> QED
    BY <1>0, <2>1, FaultTypes, RestartTypes
<1>2. CASE IpcLock \/ WatchLock \/ LateCall
  <2>1. DoLock
    BY <1>2 DEF IpcLock, WatchLock, LateCall
  <2>2. HandleTypes(h') /\ mirror' = None /\ faults' \in 0..MaxFaults
    BY <2>1, LockTypes
  <2>3. /\ unlocked' = unlocked /\ svc' = svc
        /\ ipc' \in {ipc, "clear"} /\ dog' \in {dog, "clear"}
    BY <1>2 DEF IpcLock, WatchLock, LateCall, threads
  <2> QED
    BY <2>2, <2>3 DEF RestTypes, HandleTypes
<1>3. CASE Start
  <2>1. (Unlock(Owner) /\ unlocked' = TRUE) \/ UNCHANGED <<mirror, h, unlocked, faults>>
    BY <1>3, Zenon DEF Start, store
  <2>2. HandleTypes(h') /\ UNCHANGED <<mirror, faults>> /\ unlocked' \in BOOLEAN
    BY <1>0, <2>1, UnlockTypes DEF RestTypes
  <2>3. svc' = "starting" /\ UNCHANGED <<ipc, dog>>
    BY <1>3, Zenon DEF Start
  <2> QED
    BY <2>2, <2>3 DEF RestTypes, HandleTypes
<1>4. CASE IpcUnlock
  <2>1. PICK pw \in Passwords : Unlock(pw)
    BY <1>4, Zenon DEF IpcUnlock
  <2>2. HandleTypes(h') /\ UNCHANGED <<mirror, faults>>
    BY <2>1, UnlockTypes
  <2>3. ipc' \in {"set", "idle"} /\ UNCHANGED <<svc, dog, unlocked>>
    BY <1>4, Zenon DEF IpcUnlock
  <2> QED
    BY <2>2, <2>3 DEF RestTypes, HandleTypes
<1>5. CASE Mount
  <2>1. /\ h'.rw = h.unlocked /\ h'.cache = h.cache /\ h'.timeout = h.timeout
        /\ h'.expired = h.expired /\ h'.keks = h.keks /\ svc' = "running"
        /\ UNCHANGED <<mirror, ipc, dog, unlocked, faults>>
    BY <1>5 DEF Mount, Shape, Shaped, Fields, store
  <2> QED
    BY <1>0, <2>1 DEF RestTypes, HandleTypes, Shaped
<1>6. CASE IpcIdle \/ IpcCache \/ Expire \/ Refused
  <2>1. /\ h'.rw = h.rw /\ h'.cache \in {h.cache, TRUE, FALSE}
        /\ h'.timeout \in {h.timeout, TRUE, FALSE}
        /\ h'.expired \in {h.expired, TRUE, FALSE} /\ h'.keks = h.keks
    BY <1>6 DEF IpcIdle, IpcCache, Expire, Refused, Shape, Shaped, Fields
  <2>2. UNCHANGED <<mirror, svc, ipc, dog, unlocked, faults>>
    BY <1>6 DEF IpcIdle, IpcCache, Expire, Refused, store, threads
  <2> QED
    BY <1>0, <2>1, <2>2 DEF RestTypes, HandleTypes
<1>7. CASE IpcFlag \/ WatchFlag \/ WatchIdle \/ WatchClear
  <2>1. UNCHANGED <<h, mirror, svc, faults>>
    BY <1>7 DEF IpcFlag, WatchFlag, WatchIdle, WatchClear, store
  <2>2. /\ unlocked' \in BOOLEAN /\ ipc' \in {ipc, "idle"}
        /\ dog' \in {dog, "idle", "lock", "flag"}
    BY <1>7 DEF IpcFlag, WatchFlag, WatchIdle, WatchClear, RestTypes
  <2> QED
    BY <2>1, <2>2 DEF RestTypes, HandleTypes
<1>8. CASE IpcReindex
  <2>1. /\ h' = [h EXCEPT !.index = Scan] \/ h' = h
        /\ mirror' = None /\ UNCHANGED threads /\ (Fault \/ UNCHANGED faults)
    BY <1>8, Zenon DEF IpcReindex
  <2>2. HandleTypes([h EXCEPT !.index = Scan])
    <3> HIDE DEF Scan
    <3> QED
      BY <1>0 DEF Shaped, Fields, HandleTypes
  <2>3. HandleTypes(h') /\ faults' \in 0..MaxFaults
    BY <1>0, <2>1, <2>2, FaultTypes
  <2> QED
    BY <2>1, <2>3 DEF RestTypes, HandleTypes, threads
<1>9. CASE UNCHANGED vars
  BY <1>9 DEF vars, store, threads, RestTypes, HandleTypes
<1>10. CASE Io
  BY <1>2, <1>6, <1>10, ReadTypes, ChangingTypes, DeleteTypes DEF Io
<1> QED
  BY <1>1, <1>2, <1>3, <1>4, <1>5, <1>6, <1>7, <1>8, <1>9, <1>10 DEF Next, Ipc, Watch

LEMMA TypesAre ==
  ASSUME Relied, Shape, LockedHoldsNothing, Caching(CacheOf(h)), RestTypes
  PROVE  TypeOK
<1>1. /\ h.segs \in [Keys -> Contents \cup {None}] /\ h.lru \in Seq(Keys) /\ IsInjective(h.lru)
      /\ h.bytes \in 0..CacheCap
  BY DEF Caching, CacheOf
<1>2. h.passphrase \in Passwords \cup {None}
  BY DEF Relied, StoreTypes, LockedHoldsNothing
<1>3. \A s \in Stores : IsBox(boxes[s]) => boxes[s] \in Box
  BY DEF Relied, StoreTypes, IsBox
<1> QED
  BY <1>1, <1>2, <1>3 DEF TypeOK, RestTypes, HandleTypes, Relied, StoreTypes, Shape, Shaped

\* Every variable keeps its type; the read cache stays within its bound and never has a
\* segment twice in its list (seg_put, vdisk_abi.cpp).
THEOREM VDiskTypes == Spec => []TypeOK
<1> DEFINE Inv == Relied /\ Shape /\ LockedHoldsNothing /\ Caching(CacheOf(h)) /\ RestTypes
<1>1. ASSUME Init
      PROVE  Inv
  <2>1. Relied /\ Shape /\ LockedHoldsNothing /\ Caching(CacheOf(h))
    BY <1>1, InitRelied, InitLocked, InitCaching
  <2>2. RestTypes
    <3>1. /\ h = Opened /\ mirror = None /\ unlocked = FALSE /\ svc = "opened" /\ ipc = "idle"
          /\ dog = "flag" /\ faults = 0
      BY <1>1 DEF Init
    <3>2. HandleTypes(h) /\ 0 \in 0..MaxFaults
      BY <3>1, OpenedTypes, VDiskConstants
    <3> QED
      BY <3>1, <3>2 DEF RestTypes
  <2> QED
    BY <2>1, <2>2
<1>2. ASSUME Inv, [Next]_vars
      PROVE  Inv'
  BY <1>2, StepRelied, StepLocked, StepCaching, StepRest, CachingHasTypes
<1>3. Inv => TypeOK
  BY TypesAre
<1> HIDE DEF Inv
<1> QED
  BY <1>1, <1>2, <1>3, PTL DEF Spec
=============================================================================
