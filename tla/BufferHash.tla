----------------------------- MODULE BufferHash -----------------------------
(* bufferManager/bufferHash.c: the buffer manager with one mutex, on the LRU  *)
(* list of replacementPolicy/lruFast.c. The mutex is let go while a page is   *)
(* read and while a thread that found a dirty victim flushes; a step is what  *)
(* a thread does from one of these points, or a wait, to the next.            *)
EXTENDS Integers, Sequences, FiniteSets

CONSTANTS Threads,    \* each pins one page at a time
          Pages,      \* positive numbers
          Size,       \* stasis_buffer_manager_size: at least one for each thread
          NeedFlush,  \* the number of dirty pages that wakes the worker
          Versions,   \* the contents of a page: a write makes version v + 1
          Sequential, \* stasis_buffer_manager_hint_writes_are_sequential
          None

VARIABLES obj, call, ans

vars == <<obj, call, ans>>

Frames == 1 .. Size
NULL == 0
NOPAGE == -1
Idle == [pc |-> "idle", p |-> NOPAGE, f |-> NULL, uninit |-> FALSE]
Spare == [id |-> NOPAGE, pending |-> FALSE, pins |-> 0, dirty |-> FALSE, data |-> 0]

(* stasis_buffer_manager_hash_open()                                          *)
Open(disk) ==
  [f |-> [f \in Frames |-> Spare],
   cached |-> [p \in Pages |-> NULL], \* cachedPages
   lru |-> <<>>,                      \* least recently released first
   count |-> 0,                       \* pageCount
   worker |-> "asleep",               \* "asleep" is flushing = 0
   disk |-> disk,
   latest |-> disk,                   \* what a load has to find
   t |-> [t \in Threads |-> Idle]]

Init == /\ obj = Open([p \in Pages |-> 0])
        /\ call = <<"open", None>>
        /\ ans = None

Step(op, t) == call' = <<op, t>> /\ ans' = None

Without(s, f) == SelectSeq(s, LAMBDA g : g # f)
Dirty(o) == {f \in Frames : o.f[f].dirty}
Have(o, t, f, pc) == [o EXCEPT !.t[t].pc = pc, !.t[t].f = f]

(* lru->remove(): pin a page, and take it off the list if it was unpinned.    *)
LruRemove(o, f) == [o EXCEPT !.lru = Without(@, f), !.f[f].pins = @ + 1]

(* Faulty variant: puts a page on the list that others have pinned.           *)
LruInsertPinned(o, f) ==
  LET listed == \E i \in DOMAIN o.lru : o.lru[i] = f IN
  [o EXCEPT !.f[f].pins = @ - 1, !.lru = IF listed THEN @ ELSE Append(@, f)]

(* lru->insert(): unpin it. A dirty page stays off the list while writes are  *)
(* sequential: the writeback thread shall evict it.                           *)
LruInsert(o, f) ==
  LET unpinned == o.f[f].pins = 1 /\ (Sequential => ~o.f[f].dirty) IN
  [o EXCEPT !.f[f].pins = @ - 1, !.lru = IF unpinned THEN Append(@, f) ELSE @]

(* page_handle->write(), through bhTryToWriteBackPage(): not while somebody   *)
(* uses the page or reads it.                                                 *)
Busy(o, f) == o.f[f].pending \/ o.f[f].pins # 0
WriteBack(o, f) == [o EXCEPT !.disk[o.f[f].id] = o.f[f].data, !.f[f].dirty = FALSE]

(* The worker is woken after a page was read, if it sleeps.                   *)
Signal(o) == IF o.worker = "asleep" /\ Cardinality(Dirty(o)) > NeedFlush
             THEN [o EXCEPT !.worker = "flushing"] ELSE o

(* Put the page into frame f, which getFreePage() returned.                   *)
Install(o, t, f) ==
  LET p == o.t[t].p
      clean == [o EXCEPT !.f[f] = [id |-> p, pending |-> ~o.t[t].uninit, pins |-> 1,
                                   dirty |-> FALSE, data |-> 0],
                         !.cached[p] = f]
  IN IF o.t[t].uninit THEN Signal(Have([clean EXCEPT !.latest[p] = 0], t, f, "fresh"))
                      ELSE Have(clean, t, f, "reading")

(* The page is in the cache: pin it, or wait for the thread that reads it.    *)
Found(o, t, f) == IF o.f[f].pending THEN Have(o, t, f, "waiting")
                  ELSE Have(LruRemove(o, f), t, f, "have")

(* Faulty variant: does not look again after the mutex was let go.            *)
GetFreePageBlind(o, t) ==
  LET f == Head(o.lru)
      taken == [LruRemove(o, f) EXCEPT !.cached[o.f[f].id] = NULL]
  IN CASE o.count < Size -> Install([o EXCEPT !.count = @ + 1], t, o.count + 1)
       [] o.count = Size /\ o.f[f].dirty -> Have(o, t, NULL, "flushing")
       [] OTHER -> Install(taken, t, f)

(* Faulty variant: takes the stale page after one flush, dirty or not.        *)
GetFreePageDirty(o, t) ==
  LET p == o.t[t].p
      f == Head(o.lru)
      taken == [LruRemove(o, f) EXCEPT !.cached[o.f[f].id] = NULL]
      found == taken.cached[p]
  IN CASE o.count < Size -> Install([o EXCEPT !.count = @ + 1], t, o.count + 1)
       [] o.count = Size /\ o.f[f].dirty /\ o.t[t].pc # "flushing" -> Have(o, t, NULL, "flushing")
       [] OTHER ->
            IF found = NULL THEN Install(taken, t, f)
            ELSE Found([LruInsert(taken, f) EXCEPT !.cached[o.f[f].id] = f], t, found)

(* getFreePage(), and the rest of the loop in bhLoadPageImpl_helper(): a new  *)
(* frame, or the stale one. If that is dirty, let go of the mutex and flush;  *)
(* if somebody else has cached the page by then, put the victim back.         *)
GetFreePage(o, t) ==
  LET p == o.t[t].p
      f == Head(o.lru)
      taken == [LruRemove(o, f) EXCEPT !.cached[o.f[f].id] = NULL]
      found == taken.cached[p]
  IN CASE o.count < Size -> Install([o EXCEPT !.count = @ + 1], t, o.count + 1)
       [] o.count = Size /\ o.f[f].dirty -> Have(o, t, NULL, "flushing")
       [] OTHER ->
            IF found = NULL THEN Install(taken, t, f)
            ELSE Found([LruInsert(taken, f) EXCEPT !.cached[o.f[f].id] = f], t, found)

LoadFrom(o, t) == LET f == o.cached[o.t[t].p] IN
                  IF f # NULL THEN Found(o, t, f) ELSE GetFreePage(o, t)

(* bhLoadPageImpl() and bhLoadUninitPageImpl()                                *)
LoadPage(t, p, uninit) ==
  /\ obj.t[t].pc = "idle"
  /\ obj' = LoadFrom([obj EXCEPT !.t[t] = [Idle EXCEPT !.p = p, !.uninit = uninit]], t)
  /\ Step("load", t)

(* A thread that waited for readComplete: the frame may hold another page.    *)
ReadComplete(t) ==
  LET c == obj.t[t] IN
  /\ c.pc = "waiting"
  /\ ~obj.f[c.f].pending \/ obj.f[c.f].id # c.p
  /\ obj' = IF obj.f[c.f].id = c.p THEN Found(obj, t, c.f) ELSE LoadFrom(obj, t)
  /\ Step("load", t)

(* stasis_dirty_page_table_flush() writes some page back, or leaves that to a *)
(* flush that runs already; then the thread asks for the stale page again.    *)
Flush(t, f) ==
  /\ obj.t[t].pc = "flushing"
  /\ f \in Dirty(obj) /\ ~Busy(obj, f)
  /\ obj' = WriteBack(obj, f)
  /\ Step("flush", t)

Flushed(t) ==
  /\ obj.t[t].pc = "flushing"
  /\ obj' = GetFreePage(obj, t)
  /\ Step("load", t)

(* h->read(), and the broadcast when it is done.                              *)
Read(t) ==
  LET f == obj.t[t].f  p == obj.t[t].p IN
  /\ obj.t[t].pc = "reading"
  /\ obj' = Signal(Have([obj EXCEPT !.f[f].data = obj.disk[p], !.f[f].pending = FALSE],
                        t, f, "have"))
  /\ Step("read", t)

(* bhGetCachedPage()                                                          *)
GetCachedPage(t, p) ==
  LET f == obj.cached[p] IN
  /\ obj.t[t].pc = "idle"
  /\ f # NULL /\ ~obj.f[f].pending
  /\ obj' = Have(LruRemove([obj EXCEPT !.t[t].p = p], f), t, f, "have")
  /\ Step("cached", t)

(* The application writes to a page it has pinned, and latched.               *)
Write(t) ==
  LET f == obj.t[t].f  p == obj.t[t].p  v == (obj.latest[p] + 1) % Versions IN
  /\ obj.t[t].pc \in {"have", "fresh"}
  /\ obj' = Have([obj EXCEPT !.f[f].data = v, !.f[f].dirty = TRUE, !.latest[p] = v],
                 t, f, "have")
  /\ Step("write", t)

(* bhReleasePage(); a page loaded uninitialized was initialized before.       *)
ReleasePage(t) ==
  /\ obj.t[t].pc = "have"
  /\ obj' = [LruInsert(obj, obj.t[t].f) EXCEPT !.t[t] = Idle]
  /\ Step("release", t)

(* bhTryToWriteBackPage(); bhWriteBackPage() tries until the page is not busy.*)
TryToWriteBackPage(t, p) ==
  LET f == obj.cached[p] IN
  /\ obj.t[t].pc = "idle"
  /\ f # NULL /\ ~Busy(obj, f)
  /\ obj' = WriteBack(obj, f)
  /\ Step("writeback", t)

(* writeBackWorker() flushes until few enough pages are dirty.                *)
WriteBackWorker ==
  /\ obj.worker = "flushing"
  /\ \/ \E f \in Dirty(obj) : ~Busy(obj, f) /\ obj' = WriteBack(obj, f)
     \/ Cardinality(Dirty(obj)) <= NeedFlush /\ obj' = [obj EXCEPT !.worker = "asleep"]
  /\ Step("worker", None)

(* bhBufDeinit() flushes; bhSimulateBufferManagerCrash() does not. The next   *)
(* start finds what is on disk.                                               *)
Deinit ==
  /\ \A t \in Threads : obj.t[t].pc = "idle"
  /\ obj.count = Size
  /\ \E crash \in BOOLEAN :
       obj' = Open([p \in Pages |-> IF crash \/ obj.cached[p] = NULL THEN obj.disk[p]
                                    ELSE obj.f[obj.cached[p]].data])
  /\ Step("deinit", None)

Next == \/ \E t \in Threads, p \in Pages :
             \/ \E uninit \in BOOLEAN : LoadPage(t, p, uninit)
             \/ GetCachedPage(t, p)
             \/ TryToWriteBackPage(t, p)
        \/ \E t \in Threads : ReadComplete(t) \/ Flushed(t) \/ Read(t) \/ Write(t)
                              \/ ReleasePage(t)
        \/ \E t \in Threads, f \in Frames : Flush(t, f)
        \/ WriteBackWorker
        \/ Deinit

Spec == Init /\ [][Next]_vars
-----------------------------------------------------------------------------
(* The state that checkPageState() and the assertions describe. The table has *)
(* a page's frame and no frame twice, pins are those of the threads, the LRU  *)
(* list has the frames nobody uses, and a wait is for a read under way.       *)
CacheSound ==
  LET users(f) == {t \in Threads : obj.t[t].f = f /\ obj.t[t].pc \in {"have", "fresh", "reading"}}
      range == {obj.lru[i] : i \in DOMAIN obj.lru}
  IN /\ \A p \in Pages : obj.cached[p] # NULL => obj.f[obj.cached[p]].id = p
     /\ \A f \in Frames :
          /\ obj.f[f].pins = Cardinality(users(f))
          /\ f <= obj.count => obj.cached[obj.f[f].id] = f
          /\ f \in range <=> f <= obj.count /\ obj.f[f].pins = 0
          /\ obj.f[f].pending => \E t \in users(f) : obj.t[t].pc = "reading"
     /\ Cardinality(range) = Len(obj.lru)

(* A page that was read holds the last version that was written to it, and a  *)
(* page that is not cached or not dirty has that version on disk.             *)
LatestRead ==
  /\ \A f \in Frames :
       obj.f[f].id # NOPAGE /\ ~obj.f[f].pending => obj.f[f].data = obj.latest[obj.f[f].id]
  /\ \A p \in Pages :
       \/ obj.disk[p] = obj.latest[p]
       \/ obj.cached[p] # NULL /\ (obj.f[obj.cached[p]].dirty
             \/ \E t \in Threads : obj.t[t].f = obj.cached[p] /\ obj.t[t].pc = "fresh")

(* While a thread has a page pinned its frame is not given to another page.   *)
PinnedStays ==
  \A t \in DOMAIN obj.t :
    obj.t[t].pc \in {"have", "fresh"} /\ obj'.t[t].pc # "idle" /\ call' # <<"deinit", None>> =>
      obj'.f[obj.t[t].f].id = obj.t[t].p
=============================================================================
