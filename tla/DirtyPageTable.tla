--------------------------- MODULE DirtyPageTable ---------------------------
(* dirtyPageTable.c and util/multiset.c: which pages are dirty since when,    *)
(* and the flushes of all of them, of those older than a log record, and of a *)
(* range, which run beside each other and beside the threads that pin pages   *)
(* and dirty them. The table's mutex is let go while pages are written.       *)
(* Write-back is the buffer manager's: a busy page is marked, and written by  *)
(* the thread that releases it.                                               *)
EXTENDS Integers, Sequences, FiniteSets

CONSTANTS Pages,     \* positive numbers
          Full,      \* flush everything (stasis_dirty_page_table_flush)
          Targeted,  \* stasis_dirty_page_table_flush_with_target
          Ranged,    \* stasis_dirty_page_table_flush_range
          Range,     \* the pages of the range
          Stride,    \* stasis_dirty_page_table_flush_quantum
          HardLimit, \* stasis_dirty_page_count_hard_limit
          MaxLsn,    \* bound on log records
          None

VARIABLES obj, call, ans

vars == <<obj, call, ans>>

Sweepers == Full \cup Targeted \cup Ranged
LSN_T_MAX == MaxLsn + 1
CLEAN == 0
Idle == [pc |-> "idle", target |-> 0, batch |-> <<>>, last |-> FALSE, seen |-> <<0, 0>>,
         all |-> TRUE, woken |-> FALSE, n |-> 0, must |-> {}]

Init == /\ obj = [rec |-> [p \in Pages |-> CLEAN], \* the LSN that dirtied it first
                  pinned |-> [p \in Pages |-> FALSE],
                  needs |-> [p \in Pages |-> FALSE], \* needsFlush
                  lsn |-> 0,
                  flushing |-> FALSE,
                  waiting |-> <<>>,                \* outstanding_flush_lsns
                  t |-> [t \in Sweepers |-> Idle]]
        /\ call = <<"init", None>>
        /\ ans = None

(* The only event a caller sees is that its flush returns.                    *)
Silent == call' = <<"step", None>> /\ ans' = None
Returns(t) == call' = <<"end", t>> /\ ans' = None

DirtyPages(o) == {p \in Pages : o.rec[p] # CLEAN}
Older(o, target) == {p \in DirtyPages(o) : o.rec[p] < target}

(* stasis_util_multiset_min() and _remove(), which adds one to the items that *)
(* follow the one it removes, and drops the last.                             *)
MultisetMin(s) == IF s = <<>> THEN LSN_T_MAX
                  ELSE CHOOSE x \in {s[i] : i \in DOMAIN s} : \A i \in DOMAIN s : x <= s[i]
MultisetRemove(s, x) ==
  LET i == CHOOSE i \in DOMAIN s : s[i] = x /\ \A j \in 1 .. i - 1 : s[j] # x IN
  [j \in 1 .. Len(s) - 1 |-> IF j < i THEN s[j] ELSE s[j] + 1]

(* stasis_dirty_page_table_set_clean(), when the page was written. It wakes   *)
(* the flushes that wait for a target only if the page was not itself older   *)
(* than every target.                                                         *)
SetClean(o, p) ==
  LET min == MultisetMin(o.waiting)
      c == [o EXCEPT !.rec[p] = CLEAN, !.needs[p] = FALSE]
      wake == o.rec[p] >= min /\ Older(c, min) = {}
  IN [c EXCEPT !.t = [t \in Sweepers |->
        [@[t] EXCEPT !.woken = @ \/ (wake /\ o.t[t].pc = "slow"), !.must = @ \ {p}]]]

WriteBack(o, p) == IF o.rec[p] = CLEAN THEN [o EXCEPT !.needs[p] = FALSE] ELSE SetClean(o, p)

(* The threads that use pages: pin one, update it while it is pinned (an      *)
(* update's LSN is newer than any before it), release it.                     *)
Pin(p) == /\ ~obj.pinned[p]
          /\ obj' = [obj EXCEPT !.pinned[p] = TRUE]
          /\ Silent

SetDirty(p) == /\ obj.pinned[p]
               /\ obj.rec[p] = CLEAN
               /\ Cardinality(DirtyPages(obj)) <= HardLimit
               /\ obj.lsn < MaxLsn
               /\ obj' = [obj EXCEPT !.lsn = @ + 1, !.rec[p] = obj.lsn + 1]
               /\ Silent

Unpin(p) == /\ obj.pinned[p]
            /\ obj' = LET o == [obj EXCEPT !.pinned[p] = FALSE] IN
                      IF obj.needs[p] THEN WriteBack(o, p) ELSE o
            /\ Silent

(* stasis_dirty_page_table_flush_with_target(): a full flush that finds       *)
(* another one running waits for its end and tells its caller, who calls once *)
(* more. must is what the caller counts on: every page that was dirty.        *)
Flush(t) ==
  LET c == obj.t[t]
      target == IF t \in Full THEN LSN_T_MAX ELSE obj.lsn
      must == IF c.n = 0 THEN Older(obj, target) ELSE c.must
      d == [Idle EXCEPT !.target = target, !.must = must, !.n = c.n]
  IN /\ t \in Full \cup Targeted
     /\ c.pc = "idle"
     /\ IF t \in Full /\ obj.flushing
        THEN obj' = [obj EXCEPT !.t[t] = [d EXCEPT !.pc = "done?"]]
        ELSE obj' = [obj EXCEPT !.t[t] = [d EXCEPT !.pc = "sweep"],
                                !.flushing = @ \/ t \in Full]
     /\ Silent

(* The pages of a sweep in the order of its tree, page numbers or LSNs.       *)
Key(o, t, p) == IF t \in Full THEN <<p, 0>> ELSE <<o.rec[p], p>>
Less(a, b) == a[1] < b[1] \/ (a[1] = b[1] /\ a[2] < b[2])
Ahead(o, t) == {p \in Older(o, o.t[t].target) : Less(o.t[t].seen, Key(o, t, p))}

RECURSIVE Sorted(_, _, _, _)
Sorted(o, t, ps, n) ==
  IF ps = {} \/ n = 0 THEN <<>>
  ELSE LET p == CHOOSE p \in ps : \A q \in ps \ {p} : Less(Key(o, t, p), Key(o, t, q))
       IN <<p>> \o Sorted(o, t, ps \ {p}, n - 1)

(* Under the mutex: the next stride of the sweep.                             *)
Sweep(t) ==
  LET b == Sorted(obj, t, Ahead(obj, t), Stride) IN
  /\ obj.t[t].pc = "sweep"
  /\ obj' = [obj EXCEPT !.t[t].pc = "try", !.t[t].batch = b, !.t[t].last = Len(b) < Stride,
                        !.t[t].seen = IF b = <<>> THEN @ ELSE Key(obj, t, b[Len(b)])]
  /\ Silent

(* bufferManager->tryToWriteBackPage() for a page of the stride.              *)
TryToWriteBack(t) ==
  LET c == obj.t[t]  p == Head(c.batch)
      o == [obj EXCEPT !.t[t].batch = Tail(@), !.t[t].all = @ /\ ~obj.pinned[p]]
  IN /\ c.pc = "try" /\ c.batch # <<>>
     /\ obj' = LET tried == [o EXCEPT !.t = [u \in Sweepers |->
                                [@[u] EXCEPT !.must = @ \ {p}]]]
               IN IF obj.pinned[p] THEN [tried EXCEPT !.needs[p] = TRUE]
                  ELSE WriteBack(tried, p)
     /\ Silent

Return(o, t) == [o EXCEPT !.t[t] = Idle]

(* Faulty variant: a sweep that met a busy page is not repeated.              *)
SweepEndOnce(t) ==
  /\ obj.t[t].pc = "try" /\ obj.t[t].batch = <<>>
  /\ obj' = IF ~obj.t[t].last THEN [obj EXCEPT !.t[t].pc = "sweep"]
            ELSE [Return(obj, t) EXCEPT !.flushing = @ /\ t \notin Full,
                    !.t = [u \in Sweepers |->
                             [@[u] EXCEPT !.woken = @ \/ (t \in Full /\ obj.t[u].pc = "done?")]]]
  /\ IF obj'.t[t].pc = "idle" THEN Returns(t) ELSE Silent

(* Faulty variant: the end of a flush is not broadcast.                       *)
SweepEndQuiet(t) ==
  /\ obj.t[t].pc = "try" /\ obj.t[t].batch = <<>>
  /\ obj' = IF ~obj.t[t].last THEN [obj EXCEPT !.t[t].pc = "sweep"]
            ELSE [Return(obj, t) EXCEPT !.flushing = @ /\ t \notin Full]
  /\ IF obj'.t[t].pc = "idle" THEN Returns(t) ELSE Silent

(* The end of a sweep. A full flush is over. One with a target sweeps again   *)
(* when a page was busy, or waits if there is still an old page.              *)
SweepEnd(t) ==
  LET c == obj.t[t] IN
  /\ c.pc = "try" /\ c.batch = <<>>
  /\ obj' = CASE ~c.last -> [obj EXCEPT !.t[t].pc = "sweep"]
              [] c.last /\ t \in Full ->
                   [Return(obj, t) EXCEPT !.flushing = FALSE,
                      !.t = [u \in Sweepers |->
                               [@[u] EXCEPT !.woken = @ \/ obj.t[u].pc = "done?"]]]
              [] c.last /\ t \in Targeted /\ ~c.all /\ Older(obj, c.target) # {} ->
                   [obj EXCEPT !.t[t].pc = "slow", !.waiting = Append(@, c.target)]
              [] c.last /\ t \in Targeted /\ ~c.all /\ Older(obj, c.target) = {} ->
                   [obj EXCEPT !.t[t].pc = "sweep", !.t[t].seen = <<0, 0>>, !.t[t].all = TRUE]
              [] OTHER -> Return(obj, t)
  /\ IF obj'.t[t].pc = "idle" THEN Returns(t) ELSE Silent

(* The wait for writebackCond, of at most a tenth of a second.                *)
Woken(t) ==
  /\ obj.t[t].pc = "slow" /\ obj.t[t].woken
  /\ obj' = IF Older(obj, obj.t[t].target) # {} THEN [obj EXCEPT !.t[t].woken = FALSE]
            ELSE [Return(obj, t) EXCEPT !.waiting = MultisetRemove(@, obj.t[t].target)]
  /\ IF obj'.t[t].pc = "idle" THEN Returns(t) ELSE Silent

TimedOut(t) ==
  /\ obj.t[t].pc = "slow" /\ ~obj.t[t].woken
  /\ obj' = [obj EXCEPT !.waiting = MultisetRemove(@, obj.t[t].target), !.t[t].pc = "sweep",
                        !.t[t].seen = <<0, 0>>, !.t[t].all = TRUE]
  /\ Silent

(* Faulty variant: the end of the other flush is taken for this one.          *)
FlushDoneOnce(t) ==
  /\ obj.t[t].pc = "done?" /\ obj.t[t].woken
  /\ obj' = Return(obj, t)
  /\ Returns(t)

(* The other flush is done: EAGAIN. The second one in a row is taken for a    *)
(* flush of one's own (truncation.c, flush_range's waitCount).                *)
FlushDone(t) ==
  LET c == obj.t[t] IN
  /\ c.pc = "done?" /\ c.woken
  /\ obj' = CASE c.n = 1 -> Return(obj, t)
              [] c.n = 0 /\ t \in Full ->
                   [obj EXCEPT !.t[t] = [Idle EXCEPT !.n = 1, !.must = c.must]]
              [] c.n = 0 /\ t \in Ranged ->
                   [obj EXCEPT !.t[t].pc = "range", !.t[t].n = 1, !.t[t].woken = FALSE]
  /\ IF c.n = 1 THEN Returns(t) ELSE Silent

(* stasis_dirty_page_table_flush_range(): wait for a full flush, then write   *)
(* the pages of the range that are dirty now, waiting for busy ones.          *)
FlushRange(t) ==
  LET ps == DirtyPages(obj) \cap Range
      o == IF obj.t[t].pc = "idle" THEN [obj EXCEPT !.t[t].must = ps] ELSE obj
  IN /\ t \in Ranged
     /\ obj.t[t].pc \in {"idle", "range"}
     /\ obj' = IF obj.flushing THEN [o EXCEPT !.t[t].pc = "done?"]
               ELSE [o EXCEPT !.t[t].pc = "write",
                              !.t[t].batch = Sorted([obj EXCEPT !.rec = [p \in Pages |-> 1]],
                                                    t, ps, Cardinality(Pages))]
     /\ Silent

WriteBackPage(t) ==
  LET b == obj.t[t].batch IN
  /\ obj.t[t].pc = "write"
  /\ IF b = <<>> THEN obj' = Return(obj, t) /\ Returns(t)
     ELSE /\ ~obj.pinned[Head(b)]
          /\ obj' = WriteBack([obj EXCEPT !.t[t].batch = Tail(@)], Head(b))
          /\ Silent

FlusherStep(t) == Sweep(t) \/ TryToWriteBack(t) \/ SweepEnd(t) \/ Woken(t) \/ TimedOut(t)
                  \/ FlushDone(t) \/ WriteBackPage(t)

Next == \/ \E p \in Pages : Pin(p) \/ SetDirty(p) \/ Unpin(p)
        \/ \E t \in Sweepers : Flush(t) \/ FlushRange(t) \/ FlusherStep(t)

(* Threads release the pages they pin, and every flush goes on: it retries,   *)
(* and a caller that was told to call again does.                             *)
Again(t) == (obj.t[t].n = 1 /\ Flush(t)) \/ (obj.t[t].pc = "range" /\ FlushRange(t))
-----------------------------------------------------------------------------
(* What truncation counts on: when a flush of everything returns, or its      *)
(* second call was told of another flush's end, each page that was dirty when *)
(* it was first called has been written or found busy since. A flush of a     *)
(* range promises as much.                                                    *)
FlushCovers ==
  \A t \in Full \cup Ranged : call' = <<"end", t>> => obj.t[t].must = {}

(* When a flush with a target returns no page is older than the target: the   *)
(* log up to it can be given up.                                              *)
TargetReached ==
  \A t \in Targeted : call' = <<"end", t>> =>
    Older(obj', obj.t[t].target) = {}

(* A thread is inside a flush.                                                *)
Flushing(t) == obj.t[t].pc # "idle"
=============================================================================
