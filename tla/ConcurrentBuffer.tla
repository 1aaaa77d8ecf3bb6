-------------------------- MODULE ConcurrentBuffer --------------------------
(***************************************************************************)
(* The default buffer manager, bufferManager/concurrentBufferManager.c, on *)
(* a thread-safe LRU list or on the CLOCK of replacementPolicy/clock.c:    *)
(* threads load, pin, update and release pages and evict others, while a   *)
(* worker writes pages back.                                               *)
(*                                                                         *)
(* Locks are held for single keys of the hash table (concurrentHash.c is   *)
(* taken as the linearizable table its comments argue for) and for frames  *)
(* (loadlatch).  A step ends where another thread can take effect.  The    *)
(* bytes of a page are abstracted to whether they show every update made   *)
(* to it: fresh for a frame, diskFresh for the page file.                  *)
(***************************************************************************)
EXTENDS Integers, FiniteSets, TLC

CONSTANTS Threads, Worker,  \* the writeback worker
          Pages, Frames,
          NoFrame, NoPage,  \* NoPage is INVALID_PAGE
          Policy            \* "lru" or "clock"

Procs == Threads \cup {Worker}
Ids == Pages \cup Frames    \* a frame is also its own dummy page id, -2 - i

ASSUME NameAssumption ==
  /\ Worker \notin Threads /\ NoFrame \notin Frames \cup Procs /\ NoPage \notin Ids
  /\ Pages \cap Frames = {}
ASSUME PolicyAssumption == Policy \in {"lru", "clock"}
(* populateTLS() spins for ever when every frame is some thread's spare    *)
(* one: there are more frames than threads.                                *)
ASSUME FrameAssumption == Cardinality(Frames) > Cardinality(Threads)

VARIABLES hash, lock,         \* id -> frame, id -> holder of its bucket
          id, pin, queue,     \* frame -> page id, pinCount, policy state
          writer, readers,    \* frame -> loadlatch
          dirty, needsFlush, fresh, diskFresh,
          pc, want, key, fr,  \* process -> control, page, id and frame in hand
          tls,                \* thread -> its spare frame
          sequential          \* stasis_buffer_manager_hint_writes_are_sequential

tablev == <<hash, lock>>
policyv == <<pin, queue>>
latchv == <<writer, readers>>
datav == <<dirty, needsFlush, fresh, diskFresh>>
procv == <<pc, want, key, fr, tls>>
vars == <<tablev, id, policyv, latchv, datav, procv, sequential>>

(* Each frame starts in the table under its dummy id, unpinned.            *)
Init ==
  /\ hash = [i \in Ids |-> IF i \in Frames THEN i ELSE NoFrame]
  /\ lock = [i \in Ids |-> NoFrame]
  /\ id = [f \in Frames |-> f]
  /\ pin = [f \in Frames |-> 0] /\ queue = [f \in Frames |-> 1]
  /\ writer = [f \in Frames |-> NoFrame] /\ readers = [f \in Frames |-> 0]
  /\ dirty = [f \in Frames |-> FALSE] /\ needsFlush = dirty /\ fresh = dirty
  /\ diskFresh = [p \in Pages |-> TRUE]
  /\ pc = [t \in Procs |-> "idle"]
  /\ want = [t \in Threads |-> NoPage]
  /\ key = [t \in Procs |-> NoPage]
  /\ fr = [t \in Procs |-> NoFrame]
  /\ tls = [t \in Threads |-> NoFrame]
  /\ sequential \in BOOLEAN

Go(t, l) == pc' = [pc EXCEPT ![t] = l]
Unlocked(i) == lock[i] = NoFrame
Unlatched(f) == writer[f] = NoFrame /\ readers[f] = 0

-----------------------------------------------------------------------------
(* The replacement policy.  LRU: queue is 1 in the list, 0 out of it; a    *)
(* dirty page is left out when writes are sequential.  CLOCK: 1 is hot, 0  *)
(* cold, -1 about to be evicted.                                           *)

(* Faulty variant: LRU forgets that others have the page pinned.           *)
PolicyInsertPinned(f, dirtyNow) ==
  /\ pin' = [pin EXCEPT ![f] = @ - 1]
  /\ queue' = IF ~(sequential /\ dirtyNow)
              THEN [queue EXCEPT ![f] = 1] ELSE queue

PolicyInsert(f, dirtyNow) ==
  /\ pin' = [pin EXCEPT ![f] = @ - 1]
  /\ queue' = IF Policy = "clock" \/ (pin[f] = 1 /\ ~(sequential /\ dirtyNow))
              THEN [queue EXCEPT ![f] = 1] ELSE queue

PolicyRemove(f) ==
  /\ pin' = [pin EXCEPT ![f] = @ + 1]
  /\ queue' = IF Policy = "lru" THEN [queue EXCEPT ![f] = 0] ELSE queue

(* getStaleAndRemove of LRU, under its mutex; which unpinned frame comes   *)
(* first is left open.                                                     *)
GetStale(t) ==
  /\ pc[t] = "populate"
  /\ \E f \in Frames :
       /\ queue[f] = 1
       /\ pin' = [pin EXCEPT ![f] = @ + 1]
       /\ queue' = [queue EXCEPT ![f] = 0]
       /\ fr' = [fr EXCEPT ![t] = f] /\ key' = [key EXCEPT ![t] = id[f]]
  /\ Go(t, "begin")
  /\ UNCHANGED <<tablev, id, latchv, datav, want, tls, sequential>>

(* getStaleAndRemove of CLOCK, without a mutex: a hot frame becomes cold;  *)
ClockCool(t) ==
  /\ pc[t] = "populate"
  /\ \E f \in Frames : queue[f] = 1 /\ queue' = [queue EXCEPT ![f] = 0]
  /\ UNCHANGED <<tablev, id, pin, latchv, datav, procv, sequential>>

(* a cold one is claimed by compare-and-swap;                              *)
ClockClaim(t) ==
  /\ pc[t] = "populate"
  /\ \E f \in Frames : /\ queue[f] = 0 /\ queue' = [queue EXCEPT ![f] = -1]
                       /\ fr' = [fr EXCEPT ![t] = f]
  /\ Go(t, "claimed")
  /\ UNCHANGED <<tablev, id, pin, latchv, datav, want, key, tls, sequential>>

(* its pinCount is read; when pinned, -1 is swapped back to 0;             *)
ClockCheck(t) ==
  LET f == fr[t] IN
  /\ pc[t] = "claimed"
  /\ Go(t, IF pin[f] = 0 THEN "unpinned" ELSE "populate")
  /\ queue' = IF pin[f] # 0 /\ queue[f] = -1 THEN [queue EXCEPT ![f] = 0]
              ELSE queue
  /\ UNCHANGED <<tablev, id, pin, latchv, datav, want, key, fr, tls, sequential>>

(* and pinCount++, not atomic, may lose an increment in between.           *)
ClockPin(t) ==
  LET f == fr[t] IN
  /\ pc[t] = "unpinned" /\ Go(t, "begin")
  /\ \E n \in {pin[f] + 1, 1} : pin' = [pin EXCEPT ![f] = n]
  /\ key' = [key EXCEPT ![t] = id[f]]
  /\ UNCHANGED <<tablev, id, queue, latchv, datav, want, fr, tls, sequential>>

-----------------------------------------------------------------------------
(* populateTLS, after getStaleAndRemove.                                   *)

(* The assertion of hashtable_begin_op on the key, and the two abort()s.   *)
RemoveBeginAborts(t) ==
  LET i == key[t] IN
  /\ pc[t] = "begin"
  /\ \/ i = NoPage
     \/ i # NoPage /\ Unlocked(i) /\ hash[i] = NoFrame
     \/ /\ i # NoPage /\ Unlocked(i) /\ hash[i] \notin {NoFrame, fr[t]}
        /\ Unlatched(hash[i]) /\ ~(sequential /\ dirty[hash[i]])

(* Faulty variant: the page leaves the table before it is written.         *)
RemoveBeginEarly(t) ==
  LET i == key[t] f == fr[t] IN
  /\ pc[t] = "begin" /\ i # NoPage /\ Unlocked(i) /\ hash[i] = f
  /\ Unlatched(f) /\ ~(sequential /\ dirty[f])
  /\ hash' = [hash EXCEPT ![i] = NoFrame]
  /\ writer' = [writer EXCEPT ![f] = t]
  /\ Go(t, "evict")
  /\ UNCHANGED <<lock, id, policyv, readers, datav, want, key, fr, tls, sequential>>

(* hashtable_remove_begin and a successful trywritelock.                   *)
RemoveBegin(t) ==
  LET i == key[t] f == fr[t] IN
  /\ pc[t] = "begin" /\ i # NoPage /\ Unlocked(i) /\ hash[i] = f
  /\ Unlatched(f) /\ ~(sequential /\ dirty[f])
  /\ lock' = [lock EXCEPT ![i] = t]
  /\ writer' = [writer EXCEPT ![f] = t]
  /\ Go(t, "evict")
  /\ UNCHANGED <<hash, id, policyv, readers, datav, want, key, fr, tls, sequential>>

(* The frame is latched, or dirty in sequential mode: it goes back.        *)
RemoveBeginBusy(t) ==
  LET i == key[t] IN
  /\ pc[t] = "begin" /\ i # NoPage /\ Unlocked(i) /\ hash[i] # NoFrame
  /\ ~Unlatched(hash[i]) \/ (sequential /\ dirty[hash[i]])
  /\ lock' = [lock EXCEPT ![i] = t]
  /\ Go(t, "putback")
  /\ UNCHANGED <<hash, id, policyv, latchv, datav, want, key, fr, tls, sequential>>

(* Faulty variant: hashtable_remove_cancel is forgotten.                   *)
PutBackLocked(t) ==
  LET f == fr[t] IN
  /\ pc[t] = "putback" /\ Go(t, "populate")
  /\ PolicyInsert(f, dirty[f])
  /\ fr' = [fr EXCEPT ![t] = NoFrame] /\ key' = [key EXCEPT ![t] = NoPage]
  /\ UNCHANGED <<tablev, id, latchv, datav, want, tls, sequential>>

PutBack(t) ==
  LET f == fr[t] IN
  /\ pc[t] = "putback" /\ Go(t, "populate")
  /\ PolicyInsert(f, dirty[f])
  /\ lock' = [lock EXCEPT ![key[t]] = NoFrame]
  /\ fr' = [fr EXCEPT ![t] = NoFrame] /\ key' = [key EXCEPT ![t] = NoPage]
  /\ UNCHANGED <<hash, id, latchv, datav, want, tls, sequential>>

(* phWrite: a dirty page reaches the page file and is clean.               *)
WritePage(f) ==
  /\ dirty' = [dirty EXCEPT ![f] = FALSE]
  /\ diskFresh' = IF dirty[f] THEN [diskFresh EXCEPT ![id[f]] = fresh[f]]
                  ELSE diskFresh
  /\ UNCHANGED fresh

EvictWrite(t) ==
  /\ pc[t] = "evict" /\ Go(t, "remove")
  /\ WritePage(fr[t])
  /\ UNCHANGED <<tablev, id, policyv, latchv, needsFlush, want, key, fr, tls, sequential>>

RemoveFinish(t) ==
  /\ pc[t] = "remove" /\ Go(t, "evicted")
  /\ hash' = [hash EXCEPT ![key[t]] = NoFrame]
  /\ lock' = [lock EXCEPT ![key[t]] = NoFrame]
  /\ key' = [key EXCEPT ![t] = NoPage]
  /\ UNCHANGED <<id, policyv, latchv, datav, want, fr, tls, sequential>>

EvictDone(t) ==
  /\ pc[t] = "evicted" /\ Go(t, "lookup")
  /\ id' = [id EXCEPT ![fr[t]] = NoPage]
  /\ fresh' = [fresh EXCEPT ![fr[t]] = FALSE]
  /\ writer' = [writer EXCEPT ![fr[t]] = NoFrame]
  /\ tls' = [tls EXCEPT ![t] = fr[t]] /\ fr' = [fr EXCEPT ![t] = NoFrame]
  /\ UNCHANGED <<tablev, policyv, readers, dirty, needsFlush, diskFresh, want, key,
                 sequential>>

(* Faulty variant: the frame is not put in the table.                      *)
DeinitTLSUnlisted(t) ==
  LET f == tls[t] IN
  /\ pc[t] = "idle" /\ f # NoFrame /\ Unlocked(f)
  /\ id' = [id EXCEPT ![f] = f]
  /\ PolicyInsert(f, dirty[f])
  /\ tls' = [tls EXCEPT ![t] = NoFrame]
  /\ UNCHANGED <<tablev, latchv, datav, pc, want, key, fr, sequential>>

(* deinitTLS, when a thread exits: the spare frame returns under a dummy   *)
(* id.  The thread may be followed by another.                             *)
DeinitTLS(t) ==
  LET f == tls[t] IN
  /\ pc[t] = "idle" /\ f # NoFrame /\ Unlocked(f)
  /\ id' = [id EXCEPT ![f] = f] /\ hash' = [hash EXCEPT ![f] = f]
  /\ PolicyInsert(f, dirty[f])
  /\ tls' = [tls EXCEPT ![t] = NoFrame]
  /\ UNCHANGED <<lock, latchv, datav, pc, want, key, fr, sequential>>

-----------------------------------------------------------------------------
(* chLoadPageImpl_helper: populateTLS, unless there is a spare frame.      *)
LoadPage(t, p) ==
  /\ pc[t] = "idle"
  /\ Go(t, IF tls[t] = NoFrame THEN "populate" ELSE "lookup")
  /\ want' = [want EXCEPT ![t] = p]
  /\ UNCHANGED <<tablev, id, policyv, latchv, datav, key, fr, tls, sequential>>

(* hashtable_test_and_set_lock on a miss: the spare frame is in the table, *)
(* and the bucket stays locked;                                            *)
TestAndSet(t) ==
  LET p == want[t] IN
  /\ pc[t] = "lookup" /\ Unlocked(p) /\ hash[p] = NoFrame
  /\ Go(t, "latch")
  /\ hash' = [hash EXCEPT ![p] = tls[t]] /\ lock' = [lock EXCEPT ![p] = t]
  /\ fr' = [fr EXCEPT ![t] = tls[t]] /\ tls' = [tls EXCEPT ![t] = NoFrame]
  /\ UNCHANGED <<id, policyv, latchv, datav, want, key, sequential>>

(* until the frame is latched, named and known to the policy.              *)
LoadLatch(t) ==
  LET f == fr[t] p == want[t] IN
  /\ pc[t] = "latch" /\ Unlatched(f) /\ Go(t, "read")
  /\ writer' = [writer EXCEPT ![f] = t]
  /\ id' = [id EXCEPT ![f] = p]
  /\ PolicyInsert(f, dirty[f])
  /\ lock' = [lock EXCEPT ![p] = NoFrame]
  /\ UNCHANGED <<hash, readers, datav, want, key, fr, tls, sequential>>

(* The page is read, or initialised by loadUninitPage; the thread finds    *)
(* another spare frame before it looks the page up again.                  *)
ReadPage(t) ==
  LET f == fr[t] IN
  /\ pc[t] = "read" /\ Go(t, "populate")
  /\ fresh' = [fresh EXCEPT ![f] = diskFresh[want[t]]]
  /\ writer' = [writer EXCEPT ![f] = NoFrame]
  /\ fr' = [fr EXCEPT ![t] = NoFrame]
  /\ UNCHANGED <<tablev, id, policyv, readers, dirty, needsFlush, diskFresh, want, key,
                 tls, sequential>>

(* A hit: pinned under the bucket lock, but not latched yet.               *)
Pin(t) ==
  LET f == hash[want[t]] IN
  /\ pc[t] = "lookup" /\ Unlocked(want[t]) /\ f # NoFrame
  /\ Go(t, "pinned")
  /\ PolicyRemove(f)
  /\ fr' = [fr EXCEPT ![t] = f]
  /\ UNCHANGED <<tablev, id, latchv, datav, want, key, tls, sequential>>

(* The latch, and whether the frame still holds the page.                  *)
ReadLatch(t) ==
  LET f == fr[t] IN
  /\ pc[t] = "pinned" /\ writer[f] = NoFrame
  /\ Go(t, IF id[f] = want[t] THEN "holding" ELSE "wrong")
  /\ readers' = [readers EXCEPT ![f] = @ + 1]
  /\ UNCHANGED <<tablev, id, policyv, writer, datav, want, key, fr, tls, sequential>>

(* chGetCachedPage, when it finds the page unlatched.                      *)
GetCachedPage(t, p) ==
  LET f == hash[p] IN
  /\ pc[t] = "idle" /\ Unlocked(p) /\ f # NoFrame /\ writer[f] = NoFrame
  /\ Go(t, "holding")
  /\ readers' = [readers EXCEPT ![f] = @ + 1]
  /\ PolicyRemove(f)
  /\ want' = [want EXCEPT ![t] = p] /\ fr' = [fr EXCEPT ![t] = f]
  /\ UNCHANGED <<tablev, id, writer, datav, key, tls, sequential>>

(* The application changes a page that it has pinned, and with it what     *)
(* every other copy of the page should show.                               *)
UpdatePage(t) ==
  LET f == fr[t] IN
  /\ pc[t] = "holding"
  /\ dirty' = [dirty EXCEPT ![f] = TRUE]
  /\ fresh' = [g \in Frames |-> fresh[g] /\ (g = f \/ id[g] # id[f])]
  /\ diskFresh' = [diskFresh EXCEPT ![want[t]] = FALSE]
  /\ UNCHANGED <<tablev, id, policyv, latchv, needsFlush, procv, sequential>>

-----------------------------------------------------------------------------
(* chReleasePage, of the page or, in chLoadPageImpl_helper, of a wrong one.*)
ReleaseInsert(t) ==
  /\ pc[t] \in {"holding", "wrong"} /\ Go(t, "release")
  /\ PolicyInsert(fr[t], dirty[fr[t]])
  /\ want' = IF pc[t] = "holding" THEN [want EXCEPT ![t] = NoPage] ELSE want
  /\ UNCHANGED <<tablev, id, latchv, datav, key, fr, tls, sequential>>

(* Where a thread continues after a release, or the worker after a page.   *)
Resume(t) == IF t # Worker /\ want[t] # NoPage THEN "lookup" ELSE "idle"

ReleaseUnlock(t) ==
  LET f == fr[t] IN
  /\ pc[t] = "release"
  /\ readers' = [readers EXCEPT ![f] = @ - 1]
  /\ Go(t, IF needsFlush[f] THEN "flush" ELSE Resume(t))
  /\ key' = IF needsFlush[f] THEN [key EXCEPT ![t] = id[f]] ELSE key
  /\ fr' = [fr EXCEPT ![t] = NoFrame]
  /\ UNCHANGED <<tablev, id, policyv, writer, datav, want, tls, sequential>>

-----------------------------------------------------------------------------
(* chWriteBackPage_helper.  The worker takes pages from the dirty page     *)
(* table, perhaps clean again by now; "flush_wait" is chWriteBackPage.     *)
FlushPage(p) ==
  /\ pc[Worker] = "idle" /\ key' = [key EXCEPT ![Worker] = p]
  /\ \E l \in {"flush", "flush_wait"} : Go(Worker, l)
  /\ UNCHANGED <<tablev, id, policyv, latchv, datav, want, fr, tls, sequential>>

(* An invalid id, as a wrong page may have when it is released, fails an   *)
(* assertion of the table; without assertions it is not found.             *)
WriteBackLookup(t) ==
  LET i == key[t] IN
  /\ pc[t] \in {"flush", "flush_wait"}
  /\ i # NoPage => Unlocked(i)
  /\ IF i = NoPage \/ hash[i] = NoFrame
     THEN /\ Go(t, Resume(t)) /\ key' = [key EXCEPT ![t] = NoPage] /\ UNCHANGED fr
     ELSE /\ Go(t, IF pc[t] = "flush" THEN "try" ELSE "wait")
          /\ fr' = [fr EXCEPT ![t] = hash[i]] /\ UNCHANGED key
  /\ UNCHANGED <<tablev, id, policyv, latchv, datav, want, tls, sequential>>

Leave(t) ==
  /\ Go(t, Resume(t))
  /\ key' = [key EXCEPT ![t] = NoPage] /\ fr' = [fr EXCEPT ![t] = NoFrame]

WriteBackLatch(t) ==
  LET f == fr[t] IN
  /\ pc[t] \in {"try", "wait"} /\ Unlatched(f) /\ id[f] = key[t]
  /\ Go(t, "write")
  /\ writer' = [writer EXCEPT ![f] = t]
  /\ IF sequential THEN PolicyRemove(f) ELSE UNCHANGED policyv
  /\ UNCHANGED <<tablev, id, readers, datav, want, key, fr, tls, sequential>>

(* Latched, and evicted in between: nothing to do.                         *)
WriteBackGone(t) ==
  /\ pc[t] \in {"try", "wait"} /\ Unlatched(fr[t]) /\ id[fr[t]] # key[t]
  /\ Leave(t)
  /\ UNCHANGED <<tablev, id, policyv, latchv, datav, want, tls, sequential>>

(* EBUSY: whoever releases the page is asked to write it.                  *)
WriteBackBusy(t) ==
  /\ pc[t] = "try" /\ ~Unlatched(fr[t])
  /\ needsFlush' = [needsFlush EXCEPT ![fr[t]] = TRUE]
  /\ Leave(t)
  /\ UNCHANGED <<tablev, id, policyv, latchv, dirty, fresh, diskFresh, want, tls,
                 sequential>>

(* Faulty variant: the policy sees the page while it is still dirty.       *)
WriteBackWriteDirty(t) ==
  LET f == fr[t] IN
  /\ pc[t] = "write"
  /\ WritePage(f)
  /\ IF sequential THEN PolicyInsert(f, dirty[f]) ELSE UNCHANGED policyv
  /\ needsFlush' = [needsFlush EXCEPT ![f] = FALSE]
  /\ writer' = [writer EXCEPT ![f] = NoFrame]
  /\ Leave(t)
  /\ UNCHANGED <<tablev, id, readers, want, tls, sequential>>

WriteBackWrite(t) ==
  LET f == fr[t] IN
  /\ pc[t] = "write"
  /\ WritePage(f)
  /\ IF sequential THEN PolicyInsert(f, FALSE) ELSE UNCHANGED policyv
  /\ needsFlush' = [needsFlush EXCEPT ![f] = FALSE]
  /\ writer' = [writer EXCEPT ![f] = NoFrame]
  /\ Leave(t)
  /\ UNCHANGED <<tablev, id, readers, want, tls, sequential>>

-----------------------------------------------------------------------------
WriteBackStep(t) ==
  \/ WriteBackLookup(t) \/ WriteBackLatch(t) \/ WriteBackGone(t)
  \/ WriteBackBusy(t) \/ WriteBackWrite(t)

EvictStep(t) ==
  \/ RemoveBegin(t) \/ RemoveBeginBusy(t) \/ PutBack(t)
  \/ EvictWrite(t) \/ RemoveFinish(t) \/ EvictDone(t)

LoadStep(t) ==
  \/ TestAndSet(t) \/ LoadLatch(t) \/ ReadPage(t) \/ Pin(t) \/ ReadLatch(t)

(* What a thread does inside a call, whatever the policy.                  *)
CallStep(t) == EvictStep(t) \/ LoadStep(t) \/ ReleaseUnlock(t) \/ WriteBackStep(t)

AppStep(t) ==
  \/ \E p \in Pages : LoadPage(t, p) \/ GetCachedPage(t, p)
  \/ UpdatePage(t) \/ ReleaseInsert(t) \/ DeinitTLS(t)

WorkerStep == WriteBackStep(Worker) \/ \E p \in Pages : FlushPage(p)

Next ==
  \/ \E t \in Threads : GetStale(t) \/ CallStep(t) \/ AppStep(t)
  \/ WorkerStep

Spec == Init /\ [][Next]_vars

(* The same with CLOCK.                                                    *)
ClockNext ==
  \/ \E t \in Threads : \/ ClockCool(t) \/ ClockClaim(t) \/ ClockCheck(t) \/ ClockPin(t)
                       \/ CallStep(t) \/ AppStep(t)
  \/ WorkerStep

ClockSpec == Init /\ [][ClockNext]_vars

-----------------------------------------------------------------------------
(* Types; latches are exclusive, and pins are not negative (the assertion  *)
(* of lruFast.c).                                                          *)
TypeOK ==
  /\ hash \in [Ids -> Frames \cup {NoFrame}]
  /\ lock \in [Ids -> Procs \cup {NoFrame}]
  /\ id \in [Frames -> Ids \cup {NoPage}]
  /\ pin \in [Frames -> Nat] /\ queue \in [Frames -> -1..1]
  /\ writer \in [Frames -> Procs \cup {NoFrame}] /\ readers \in [Frames -> Nat]
  /\ \A f \in Frames : writer[f] # NoFrame => readers[f] = 0

(* loadPage returns a frame that shows every update made to the page, and  *)
(* as long as it is pinned the frame keeps the page and is the only copy   *)
(* that others can find: no update is lost to an eviction or a stale read. *)
LoadsCurrent ==
  \A t \in Threads : pc[t] = "holding" =>
    id[fr[t]] = want[t] /\ hash[want[t]] = fr[t] /\ fresh[fr[t]]

(* "page is not in hashtable, but it is in LRU ... However, we cannot      *)
(* observe this": populateTLS does not abort.                              *)
NoAbort == \A t \in Threads : ~RemoveBeginAborts(t)

(* "the invariant is that in lru -> in hashtable".                         *)
LRUInHashtable ==
  \A f \in Frames : queue[f] = 1 => id[f] # NoPage /\ hash[id[f]] = f

(* No frame is lost to the policy: an unpinned one is in the list, or is   *)
(* dirty and will be put there by the worker (the assertion of             *)
(* stasis_lru_fast_remove).                                                *)
FramesReachable ==
  \A f \in Frames : pin[f] = 0 /\ queue[f] = 0 => sequential /\ dirty[f]

(* "This cannot deadlock": while no thread keeps a page pinned, a thread   *)
(* that is inside a call can move, or waits for a frame that the worker    *)
(* has yet to clean.                                                       *)
Busy(t) == pc[t] \notin {"idle", "holding", "wrong"}
NoDeadlock ==
  (\E t \in Procs : Busy(t)) /\ (\A t \in Threads : pc[t] \notin {"holding", "wrong"}) =>
    \/ \E t \in Threads : ENABLED (GetStale(t) \/ CallStep(t))
    \/ ENABLED WriteBackStep(Worker)
    \/ sequential /\ \E f \in Frames : dirty[f] /\ Unlatched(f)

(* Threads, pages and frames are interchangeable: which frame the policy   *)
(* gives up first is left open.                                            *)
Symmetry == Permutations(Threads) \cup Permutations(Pages) \cup Permutations(Frames)
=============================================================================
