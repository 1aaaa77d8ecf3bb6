---------------------------- MODULE LegacyBuffer ----------------------------
(* bufferManager/legacy: the first buffer manager, with its replacement       *)
(* policy of two queues (pageCache.c) and its page file (pageFile.c). A       *)
(* thread pins one page at a time. Of a page's contents the model keeps       *)
(* whether they are the latest.                                               *)
EXTENDS Integers, Sequences, FiniteSets

CONSTANTS Pages, Frames,          \* more frames than a run can allocate
          Uses,                   \* bound: the pages that each thread loads, over and over
          Written,                \* bound: the pages that are updated and written back
          Size,                   \* stasis_buffer_manager_size
          Warm,                   \* how many pages are loaded at first
          None

VARIABLES obj, call, ans

vars == <<obj, call, ans>>

Callers == DOMAIN Uses
FREE == 0
NIL == -1
Idle == [pc |-> "idle", p |-> NIL, f |-> NIL, old |-> NIL, op |-> None]
Frame == [id |-> NIL, cur |-> FALSE, dirty |-> FALSE, r |-> {}, w |-> FREE, in |-> FALSE, q |-> 0]

At(t, pc) == obj.t[t].pc = pc
Go(o, t, pc) == [o EXCEPT !.t[t].pc = pc]
Silent == call' = <<"step", None>> /\ ans' = None
Pinned(o, t) == /\ obj' = [o EXCEPT !.t[t].pc = "pinned", !.last[t] = o.t[t].f]
                /\ call' = <<"load", o.t[t].p>> /\ ans' = <<o.frame[o.t[t].f].cur>>

(* pageCache.c: the list, with the head and tail of its two queues.           *)
Index(s, f) == CHOOSE i \in DOMAIN s : s[i] = f
Without(s, f) == SelectSeq(s, LAMBDA g : g # f)
QRemove(o, f) ==
  LET i == Index(o.list, f) IN
  [o EXCEPT !.list = Without(@, f),
            !.mid = IF f = @ /\ i < Len(o.list) THEN o.list[i + 1] ELSE @]
HeadInsert(o, f) == [o EXCEPT !.list = <<f>> \o @]
MiddleInsert(o, f) ==
  LET i == Index(o.list, o.mid) IN
  [o EXCEPT !.list = SubSeq(@, 1, i - 1) \o <<f>> \o SubSeq(@, i, Len(@)), !.mid = f, !.frame[f].q = 2]

CacheInsertPage(b, f) ==
  LET o == [b EXCEPT !.n = @ + 1, !.frame[f].in = TRUE]
      h == HeadInsert(o, f)
      third == Size \div 3
      queue == [g \in {h.list[i] : i \in DOMAIN h.list} |-> IF Index(h.list, g) <= third THEN 1 ELSE 2]
  IN IF o.full THEN MiddleInsert(o, f)
     ELSE IF o.n # Size THEN h
     ELSE [h EXCEPT !.full = TRUE, !.mid = h.list[third + 1],
                    !.frame = [g \in Frames |-> IF g \in DOMAIN queue THEN [@[g] EXCEPT !.q = queue[g]] ELSE @[g]]]

CacheRemovePage(o, f) == [QRemove(o, f) EXCEPT !.frame[f].in = FALSE, !.n = @ - 1]

(* Faulty variant: the first queue grows with each page that is hit.          *)
CacheHitOnPageGrow(o, f) ==
  IF ~o.frame[f].in \/ ~o.full \/ f = Head(o.list) THEN o
  ELSE LET h == HeadInsert(QRemove(o, f), f) IN [h EXCEPT !.frame[f].q = 1]

CacheHitOnPage(o, f) ==
  IF ~o.frame[f].in \/ ~o.full \/ f = Head(o.list) THEN o
  ELSE LET h == HeadInsert(QRemove(o, f), f)
           prev == h.list[Index(h.list, h.mid) - 1]
       IN IF o.frame[f].q # 2 THEN h ELSE [h EXCEPT !.mid = prev, !.frame[prev].q = 2, !.frame[f].q = 1]

(* pfPageRead() and pfPageWrite(), with the file at the page's offset. A page *)
(* that is not dirty is not written.                                          *)
PageRead(o, f, p) == [o EXCEPT !.frame[f].cur = o.disk[p], !.frame[f].dirty = FALSE, !.frame[f].id = p]
PageWrite(o, f) ==
  IF ~o.frame[f].dirty THEN o
  ELSE [o EXCEPT !.disk[o.frame[f].id] = o.frame[f].cur, !.frame[f].dirty = FALSE]

(* stasis_buffer_manager_deprecated_open() and pageCacheInit(): page 0 is     *)
(* loaded and makes up the list; others were loaded one after the other.      *)
Opened ==
  [mutex |-> FREE,                                        \* loadPagePtr_mutex
   table |-> [p \in Pages |-> IF p < Warm THEN p + 1 ELSE NIL], \* activePages
   frame |-> [f \in Frames |-> IF f <= Warm THEN [Frame EXCEPT !.id = f - 1, !.cur = TRUE, !.in = f = 1] ELSE Frame],
   made |-> Warm,
   list |-> <<1>>, mid |-> NIL, full |-> FALSE, n |-> 1,  \* repHead .. repTail, repMiddle, cache_state, bufferSize
   disk |-> [p \in Pages |-> TRUE],
   last |-> [t \in Callers |-> NIL],                      \* lastPage
   next |-> [t \in Callers |-> 1], up |-> TRUE, t |-> [t \in Callers |-> Idle]]
RECURSIVE Warmed(_)
Warmed(n) == IF n = 1 THEN Opened ELSE CacheInsertPage(Warmed(n - 1), n)
Init == obj = Warmed(Warm) /\ call = <<"open", None>> /\ ans = None

(* bufManLoadPage() looks at the page that the thread had last.               *)
LoadPage(t, p, op) ==
  LET f == obj.last[t]
      fast == f # NIL /\ obj.frame[IF f = NIL THEN 1 ELSE f].id = p
  IN /\ obj.up /\ At(t, "idle")
     /\ p = Uses[t][obj.next[t]] /\ (op = "write" => p \in Written)
     /\ obj' = [obj EXCEPT !.next[t] = (@ % Len(Uses[t])) + 1,
                           !.t[t] = [pc |-> IF fast THEN "fast" ELSE "get", p |-> p, op |-> op,
                                     f |-> IF fast THEN f ELSE NIL, old |-> NIL]]
     /\ Silent

FastLock(t) == At(t, "fast") /\ obj.mutex = FREE /\ obj' = [Go(obj, t, "fastlatch") EXCEPT !.mutex = t] /\ Silent

(* When the frame holds another page by now, the mutex is not let go before   *)
(* bufManGetPage() takes it.                                                  *)
FastLatch(t) ==
  LET c == obj.t[t] IN
  /\ At(t, "fastlatch") /\ obj.frame[c.f].w = FREE
  /\ IF obj.frame[c.f].id # c.p THEN obj' = Go(obj, t, "get") /\ Silent
     ELSE Pinned([CacheHitOnPage(obj, c.f) EXCEPT !.mutex = FREE, !.frame[c.f].r = @ \cup {t}], t)

(* bufManGetPage(): a page of the table is latched under the mutex; for one   *)
(* that is not there a frame is allocated, or taken from the list.            *)
Find(t) ==
  LET c == obj.t[t]
      f == obj.table[c.p]
      new == obj.made + 1
      stale == obj.list[Len(obj.list)]
      o == [obj EXCEPT !.mutex = t]
  IN /\ At(t, "get") /\ obj.mutex = FREE
     /\ obj' = IF f # NIL THEN [Go(o, t, "latch") EXCEPT !.t[t].f = f]
               ELSE IF obj.full
               THEN [Go(CacheRemovePage(o, stale), t, "take") EXCEPT !.t[t].f = stale, !.t[t].old = obj.frame[stale].id]
               ELSE [Go(o, t, "take") EXCEPT !.t[t].f = new, !.t[t].old = NIL, !.made = new]
     /\ Silent

Latch(t) ==
  LET c == obj.t[t] IN
  /\ At(t, "latch") /\ obj.frame[c.f].w = FREE
  /\ IF obj.frame[c.f].id # c.p THEN obj' = [Go(obj, t, "get") EXCEPT !.mutex = FREE] /\ Silent
     ELSE Pinned([CacheHitOnPage(obj, c.f) EXCEPT !.mutex = FREE, !.frame[c.f].r = @ \cup {t}], t)

(* Faulty variant: the frame is taken while it is pinned.                     *)
TakePinned(t) ==
  LET c == obj.t[t] IN
  /\ At(t, "take") /\ obj.frame[c.f].w = FREE
  /\ obj' = [Go(obj, t, "evict") EXCEPT !.frame[c.f].w = t, !.table[c.p] = c.f, !.mutex = FREE]
  /\ Silent

Take(t) ==
  LET c == obj.t[t] IN
  /\ At(t, "take") /\ obj.frame[c.f].w = FREE /\ obj.frame[c.f].r = {}
  /\ obj' = [Go(obj, t, "evict") EXCEPT !.frame[c.f].w = t, !.table[c.p] = c.f, !.mutex = FREE]
  /\ Silent

Evict(t) ==
  LET c == obj.t[t] IN
  /\ At(t, "evict")
  /\ obj' = Go(IF obj.frame[c.f].id # NIL THEN PageWrite(obj, c.f) ELSE obj, t, "read")
  /\ Silent

Read(t) ==
  LET c == obj.t[t] IN
  /\ At(t, "read")
  /\ obj' = [Go(PageRead(obj, c.f, c.p), t, "insert") EXCEPT !.frame[c.f].w = FREE]
  /\ Silent

Insert(t) ==
  LET c == obj.t[t]
      o == IF c.old = NIL THEN obj ELSE [obj EXCEPT !.table[c.old] = NIL]
  IN /\ At(t, "insert") /\ obj.mutex = FREE
     /\ obj' = Go(CacheInsertPage(o, c.f), t, "pin")
     /\ Silent

(* The frame may be taken again before the page is pinned: start over.        *)
Pin(t) ==
  LET c == obj.t[t] IN
  /\ At(t, "pin") /\ obj.frame[c.f].w = FREE
  /\ IF obj.frame[c.f].id # c.p THEN obj' = Go(obj, t, "get") /\ Silent
     ELSE Pinned([obj EXCEPT !.frame[c.f].r = @ \cup {t}], t)

(* A thread updates the page that it has pinned, but not while another writes *)
(* it back: pageWrite_legacyWrapper() is "unsafe" for a page that is pinned.  *)
Update(t) ==
  LET c == obj.t[t] IN
  /\ At(t, "pinned") /\ c.op = "use" /\ c.p \in Written
  /\ \A u \in Callers : obj.t[u].p = c.p => obj.t[u].pc # "written"
  /\ obj' = [obj EXCEPT !.disk[c.p] = FALSE,
                        !.frame = [f \in Frames |-> IF f = c.f THEN [@[f] EXCEPT !.cur = TRUE, !.dirty = TRUE]
                                                    ELSE IF @[f].id = c.p THEN [@[f] EXCEPT !.cur = FALSE] ELSE @[f]]]
  /\ Silent

WriteBack(t) ==
  /\ At(t, "pinned") /\ obj.t[t].op = "write"
  /\ obj' = Go(PageWrite(obj, obj.t[t].f), t, "written") /\ Silent

ReleasePage(t) ==
  LET c == obj.t[t] IN
  /\ IF c.op = "write" THEN At(t, "written") ELSE At(t, "pinned")
  /\ obj' = [obj EXCEPT !.frame[c.f].r = @ \ {t}, !.t[t] = Idle] /\ Silent

(* bufManBufDeinit(): every page of the table is written.                     *)
RECURSIVE WriteAll(_, _)
WriteAll(o, fs) == IF fs = {} THEN o
                   ELSE LET f == CHOOSE g \in fs : TRUE IN WriteAll(PageWrite(o, f), fs \ {f})
Deinit ==
  /\ obj.up /\ \A t \in Callers : At(t, "idle")
  /\ obj' = [WriteAll(obj, {obj.table[p] : p \in Pages} \ {NIL}) EXCEPT !.up = FALSE]
  /\ call' = <<"close", None>> /\ ans' = <<\A p \in Pages : obj'.disk[p]>>

Step(t) == \/ FastLock(t) \/ FastLatch(t) \/ Find(t) \/ Latch(t) \/ Take(t) \/ Evict(t) \/ Read(t) \/ Insert(t)
           \/ Pin(t) \/ Update(t) \/ WriteBack(t) \/ ReleasePage(t)
Next == Deinit \/ \E t \in Callers : Step(t) \/ \E p \in Pages, op \in {"use", "write"} : LoadPage(t, p, op)
(* Which frame holds a page does not matter: states that differ in it alone   *)
(* are one.                                                                   *)
Held(f) == IF f = NIL THEN NIL ELSE obj.frame[f].id
Shape ==
  <<obj.mutex, [p \in Pages |-> Held(obj.table[p])], {obj.frame[f] : f \in 1 .. obj.made}, obj.made,
    [i \in DOMAIN obj.list |-> Held(obj.list[i])], Held(obj.mid), obj.full, obj.disk,
    [t \in Callers |-> Held(obj.last[t])], obj.up, obj.next, [t \in Callers |-> [obj.t[t] EXCEPT !.f = Held(@)]]>>
-----------------------------------------------------------------------------
(* A page is pinned with its latest contents, whichever thread updated it and *)
(* however often it was evicted since; closing leaves them in the file.       *)
LatestLoaded == call'[1] \in {"load", "close"} => ans' = <<TRUE>>

(* A frame that is pinned keeps its page, and no page is in two frames.       *)
PinnedKept ==
  /\ \A t \in DOMAIN obj.t : obj.t[t].pc \in {"pinned", "written"} => obj.frame[obj.t[t].f].id = obj.t[t].p
  /\ \A f, g \in DOMAIN obj.frame : f # g /\ obj.frame[f].id # NIL => obj.frame[f].id # obj.frame[g].id

(* Once the cache is full its first queue keeps a third of it, whatever is    *)
(* hit, removed or inserted, and the middle is the head of the second one.    *)
QueuesExact ==
  LET third == Size \div 3 IN
  obj.full => /\ Len(obj.list) > third /\ obj.mid = obj.list[third + 1]
              /\ \A i \in DOMAIN obj.list : obj.frame[obj.list[i]].q = IF i <= third THEN 1 ELSE 2

(* A thread that waits for the mutex does not hold it.                        *)
(* Refuted by TLC: the code does not ensure it. No run checks this.           *)
NotHeldTwice == \A t \in DOMAIN obj.t : obj.t[t].pc \in {"get", "fast", "insert"} => obj.mutex # t
=============================================================================
