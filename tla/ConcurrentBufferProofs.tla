----------------------- MODULE ConcurrentBufferProofs -----------------------
(***************************************************************************)
(* The steps of ConcurrentBuffer that write to the page file or change the *)
(* table, the ids or the contents keep the invariant of                    *)
(* ConcurrentBufferInv, which is therefore inductive.  From it follow      *)
(* LoadsCurrent, NoAbort, LRUInHashtable and FramesReachable for any       *)
(* number of threads, pages and frames.                                    *)
(***************************************************************************)
EXTENDS ConcurrentBufferInv


-----------------------------------------------------------------------------
(* The worker takes up a page.                                             *)
LEMMA FlushPageInv ==
  ASSUME Inv, NEW p \in Pages, FlushPage(p)
  PROVE  Inv'
<1>1. PICK l \in {"flush", "flush_wait"} : pc' = [pc EXCEPT ![Worker] = l]
  BY Zenon DEF FlushPage, Go
<1>2. /\ pc[Worker] = "idle" /\ key' = [key EXCEPT ![Worker] = p]
      /\ hash' = hash /\ lock' = lock /\ id' = id /\ pin' = pin /\ queue' = queue
      /\ writer' = writer /\ readers' = readers
      /\ dirty' = dirty /\ needsFlush' = needsFlush /\ fresh' = fresh /\ diskFresh' = diskFresh
      /\ want' = want /\ fr' = fr /\ tls' = tls /\ sequential' = sequential
  BY Zenon DEF FlushPage, tablev, policyv, latchv, datav
<1>3. Worker \in Procs /\ Worker \notin Threads /\ Types
  BY Zenon, NameAssumption DEF Procs, Inv
<1>4. Types'
  BY Zenon, <1>1, <1>2, <1>3 DEF Types, Labels, FlushPC, Ids
<1>5. Goes(Worker, l, fr[Worker], p)
  BY Zenon, <1>1, <1>2, <1>3 DEF Types, Goes, OnlyMoves
<1>6. PinMoves(Worker) /\ StealMoves(Worker)
  BY Zenon, <1>1, <1>2, <1>3, <1>5 DEF Goes, PinMoves, StealMoves, Pins, Steals, Spares, StealPC, HoldPC
<1>7. ReadMoves(Worker) /\ WriteMoves(Worker)
  BY Zenon, <1>1, <1>2, <1>5 DEF Goes, ReadMoves, Reads, ReadPC, WriteMoves, Writes, WritePC
<1>8. Listed'
  BY Zenon, <1>2 DEF Inv, Listed, ListUnpinned, FramesReachable
<1>9. Quiet(Worker)
  BY Zenon, <1>2, <1>3 DEF Quiet
<1>10. Local(Worker)'
  BY Zenon, <1>1, <1>3, <1>5 DEF Local, HasFrame, Flushes, Goes, StealPC, HoldPC, WritePC, ReadPC
<1> QED
  BY Zenon, <1>3, <1>4, <1>5, <1>6, <1>7, <1>8, <1>9, <1>10, QuietInv DEF Follows, Goes

(* A write-back moves t between labels where it has nothing but perhaps a  *)
(* spare frame.                                                            *)
NothingPC == {"idle", "lookup", "flush", "flush_wait", "try", "wait"}
LEMMA NothingHeld ==
  ASSUME Inv, NEW t \in Procs, NEW l \in NothingPC, pc[t] \in NothingPC,
         pc' = [pc EXCEPT ![t] = l], t = Worker => l # "lookup",
         key' \in [Procs -> Ids \cup {NoPage}], fr' \in [Procs -> Frames \cup {NoFrame}],
         \A u \in Procs : u # t => key'[u] = key[u] /\ fr'[u] = fr[u],
         needsFlush' \in [Frames -> BOOLEAN],
         UNCHANGED <<hash, lock, id, pin, queue, writer, readers, dirty, fresh, diskFresh>>,
         UNCHANGED <<want, tls, sequential>>
  PROVE  Follows(t) /\ Quiet(t) /\ pc'[t] = l
<1>1. Types
  BY Zenon DEF Inv
<1>2. Types'
  BY Zenon, <1>1 DEF Types, Labels, FlushPC, NothingPC, Procs
<1>3. OnlyMoves(t) /\ pc'[t] = l
  BY Zenon, <1>1 DEF Types, OnlyMoves
<1>4. PinMoves(t) /\ StealMoves(t)
  BY Zenon, <1>3 DEF PinMoves, StealMoves, Pins, Steals, Spares, StealPC, HoldPC, NothingPC
<1>5. ReadMoves(t) /\ WriteMoves(t)
  BY Zenon, <1>3 DEF ReadMoves, Reads, ReadPC, WriteMoves, Writes, WritePC, NothingPC
<1>6. Listed'
  BY Zenon DEF Inv, Listed, ListUnpinned, FramesReachable
<1>7. Quiet(t)
  BY Zenon DEF Quiet, NothingPC
<1> QED
  BY Zenon, <1>2, <1>3, <1>4, <1>5, <1>6, <1>7 DEF Follows

(* chWriteBackPage_helper looks the page up.                               *)
LEMMA WriteBackLookupInv ==
  ASSUME Inv, NEW t \in Procs, WriteBackLookup(t)
  PROVE  Inv'
<1>. DEFINE i == key[t]
            l == IF pc[t] = "flush" THEN "try" ELSE "wait"
<1>1. /\ pc[t] \in {"flush", "flush_wait"}
      /\ hash' = hash /\ lock' = lock /\ id' = id /\ pin' = pin /\ queue' = queue
      /\ writer' = writer /\ readers' = readers
      /\ dirty' = dirty /\ needsFlush' = needsFlush /\ fresh' = fresh /\ diskFresh' = diskFresh
      /\ want' = want /\ tls' = tls /\ sequential' = sequential
  BY Zenon DEF WriteBackLookup, tablev, policyv, latchv, datav
<1>2. Types /\ Local(t)
  BY Zenon DEF Inv, ControlOK
<1>3. CASE i = NoPage \/ hash[i] = NoFrame
  <2>1. pc' = [pc EXCEPT ![t] = Resume(t)] /\ key' = [key EXCEPT ![t] = NoPage] /\ fr' = fr
    BY Zenon, <1>3 DEF WriteBackLookup, Go
  <2>2. Resume(t) \in {"lookup", "idle"} /\ (t = Worker => Resume(t) = "idle") /\ Local(t)'
    BY Zenon, <1>1, <1>2, <2>1, ResumeLocal DEF Types
  <2>3. Follows(t) /\ Quiet(t)
    BY Zenon, <1>1, <1>2, <2>1, <2>2, NothingHeld DEF NothingPC, Types
  <2> QED
    BY Zenon, <2>2, <2>3, QuietInv
<1>4. CASE ~(i = NoPage \/ hash[i] = NoFrame)
  <2>1. pc' = [pc EXCEPT ![t] = l] /\ fr' = [fr EXCEPT ![t] = hash[i]] /\ key' = key
    BY Zenon, <1>4 DEF WriteBackLookup, Go
  <2>2. l \in {"try", "wait"} /\ i \in Ids /\ i # NoPage /\ hash[i] \in Frames
    BY Zenon, <1>2, <1>4 DEF Types
  <2>. HIDE DEF l
  <2>3. Follows(t) /\ Quiet(t) /\ pc'[t] = l
    BY Zenon, <1>1, <1>2, <2>1, <2>2, NothingHeld DEF NothingPC, Types
  <2>4. fr'[t] \in Frames /\ key'[t] # NoPage
    BY Zenon, <1>2, <2>1, <2>2 DEF Types
  <2>5. Local(t)'
    BY Zenon, <1>1, <1>2, <2>2, <2>3, <2>4
       DEF Local, HasFrame, Flushes, Victim, Spare, Hidden, Wants, Loads,
       StealPC, HoldPC, WritePC, ReadPC
  <2> QED
    BY Zenon, <2>3, <2>5, QuietInv
<1> QED
  BY Zenon, <1>3, <1>4

(* It leaves the page, evicted or busy, alone.                             *)
LEMMA WriteBackLeaveInv ==
  ASSUME Inv, NEW t \in Procs, WriteBackGone(t) \/ WriteBackBusy(t)
  PROVE  Inv'
<1>1. /\ pc[t] \in {"try", "wait"} /\ Leave(t)
      /\ hash' = hash /\ lock' = lock /\ id' = id /\ pin' = pin /\ queue' = queue
      /\ writer' = writer /\ readers' = readers
      /\ dirty' = dirty /\ fresh' = fresh /\ diskFresh' = diskFresh
      /\ want' = want /\ tls' = tls /\ sequential' = sequential
  BY Zenon DEF WriteBackGone, WriteBackBusy, tablev, policyv, latchv, datav
<1>2. needsFlush' = needsFlush \/ needsFlush' = [needsFlush EXCEPT ![fr[t]] = TRUE]
  BY Zenon DEF WriteBackGone, WriteBackBusy, datav
<1>3. Types /\ Local(t)
  BY Zenon DEF Inv, ControlOK
<1>4. /\ pc' = [pc EXCEPT ![t] = Resume(t)]
      /\ key' = [key EXCEPT ![t] = NoPage] /\ fr' = [fr EXCEPT ![t] = NoFrame]
  BY Zenon, <1>1 DEF Leave, Go
<1>5. Resume(t) \in {"lookup", "idle"} /\ (t = Worker => Resume(t) = "idle") /\ Local(t)'
  BY Zenon, <1>1, <1>3, <1>4, ResumeLocal DEF Types
<1>6. needsFlush' \in [Frames -> BOOLEAN]
  BY Zenon, <1>2, <1>3 DEF Types
<1>7. Follows(t) /\ Quiet(t)
  BY Zenon, <1>1, <1>3, <1>4, <1>5, <1>6, NothingHeld DEF NothingPC, Types
<1> QED
  BY Zenon, <1>5, <1>7, QuietInv

(* It latches the page, and pins it when writes are sequential.            *)
LEMMA WriteBackLatchInv ==
  ASSUME Policy = "lru", Inv, NEW t \in Procs, WriteBackLatch(t)
  PROVE  Inv'
<1>. DEFINE f == fr[t]
<1>1. /\ pc[t] \in {"try", "wait"} /\ Unlatched(f) /\ id[f] = key[t]
      /\ pc' = [pc EXCEPT ![t] = "write"] /\ writer' = [writer EXCEPT ![f] = t]
      /\ IF sequential THEN PolicyRemove(f) ELSE pin' = pin /\ queue' = queue
      /\ hash' = hash /\ lock' = lock /\ id' = id /\ readers' = readers
      /\ dirty' = dirty /\ needsFlush' = needsFlush /\ fresh' = fresh /\ diskFresh' = diskFresh
      /\ want' = want /\ key' = key /\ fr' = fr /\ tls' = tls /\ sequential' = sequential
  BY Zenon DEF WriteBackLatch, Go, tablev, policyv, datav
<1>2. Types /\ Local(t) /\ sequential \in BOOLEAN
  BY Zenon DEF Inv, ControlOK, Types
<1>3. f \in Frames /\ key[t] # NoPage /\ ~Spares(t, f)
  BY Zenon, <1>1, <1>2, NameAssumption DEF Local, HasFrame, Spare, Spares
<1>4. /\ sequential => pin' = [pin EXCEPT ![f] = @ + 1] /\ queue' = [queue EXCEPT ![f] = 0]
      /\ ~sequential => pin' = pin /\ queue' = queue
  BY Zenon, <1>1 DEF PolicyRemove
<1>5. Types'
  <2>1. pin' \in [Frames -> Nat] /\ queue' \in [Frames -> {0, 1}]
    BY <1>2, <1>3, <1>4 DEF Types
  <2>2. pc' \in [Procs -> Labels] /\ pc'[Worker] \in FlushPC
    BY Zenon, <1>1, <1>2 DEF Types, Labels, FlushPC, Procs
  <2> QED
    BY Zenon, <1>1, <1>2, <1>3, <2>1, <2>2 DEF Types
<1>6. Goes(t, "write", f, key[t]) /\ Keeps(t)
  BY Zenon, <1>1, <1>2 DEF Types, Goes, Keeps, OnlyMoves
<1>7. PinMoves(t) /\ StealMoves(t)
  BY <1>1, <1>2, <1>3, <1>4, <1>6
     DEF Goes, Keeps, PinMoves, StealMoves, Pins, Steals, Spares, StealPC, HoldPC, Types
<1>8. ReadMoves(t) /\ WriteMoves(t)
  BY Zenon, <1>1, <1>2, <1>3, <1>6
     DEF Goes, ReadMoves, Reads, ReadPC, WriteMoves, Writes, WritePC, Unlatched, Types
<1>9. Listed'
  <2>1. CASE sequential
    BY Zenon, <1>1, <1>2, <1>3, <2>1, RemoveListed DEF Inv
  <2>2. CASE ~sequential
    BY Zenon, <1>1, <2>2 DEF Inv, Listed, ListUnpinned, FramesReachable
  <2> QED
    BY Zenon, <2>1, <2>2
<1>10. Quiet(t)
  BY Zenon, <1>1 DEF Quiet
<1>11. Local(t)'
  BY Zenon, <1>1, <1>2, <1>3, <1>6 DEF Local, HasFrame, Flushes, Victim, Spare, Wants, Loads, Goes, Keeps,
     Hidden, StealPC, HoldPC, WritePC, ReadPC
<1> QED
  BY Zenon, <1>5, <1>6, <1>7, <1>8, <1>9, <1>10, <1>11, QuietInv DEF Follows, Goes

-----------------------------------------------------------------------------
(* A page is written to the page file under the latch of its frame.        *)
LEMMA WriteStep ==
  ASSUME Inv, NEW t \in Procs, OnlyMoves(t), Local(t)',
         pc[t] \in {"evict", "write"}, WritePage(fr[t]),
         UNCHANGED <<hash, id, lock>>, t \in Threads => tls'[t] = tls[t]
  PROVE  /\ Named' /\ Placed' /\ Dummies' /\ ControlOK'
         /\ FramesFresh' /\ DiskFresh' /\ DirtyPlaced'
<1>. DEFINE f == fr[t]
<1>1. Threads \subseteq Procs /\ Types /\ Local(t)
  BY Zenon DEF Procs, Inv, ControlOK
<1>2. f \in Frames /\ Writes(t, f) /\ id[f] \in Ids /\ id[f] # NoPage
  BY Zenon, <1>1 DEF Local, HasFrame, Victim, Flushes, Writes, WritePC, StealPC, Types, FlushPC, Procs
<1>3. /\ dirty' = [dirty EXCEPT ![f] = FALSE] /\ fresh' = fresh
      /\ dirty[f] => /\ id[f] \in Pages /\ hash[id[f]] = f
                     /\ diskFresh' = [diskFresh EXCEPT ![id[f]] = fresh[f]]
      /\ ~dirty[f] => diskFresh' = diskFresh
  BY Zenon, <1>2 DEF WritePage, Inv, DirtyPlaced
<1>4. \A g \in Frames : dirty'[g] <=> dirty[g] /\ g # f
  BY Zenon, <1>1, <1>2, <1>3 DEF Types
<1>5. \A u \in Threads : ~(pc[u] = "read" /\ fr[u] = f)
  BY Zenon, <1>1, <1>2, Alone DEF Writes, WritePC
<1>6. dirty[f] => fresh[f]
  BY Zenon, <1>2, <1>3, <1>5 DEF Inv, FramesFresh, BeingRead
<1>7. \A p \in Pages : diskFresh[p] => diskFresh'[p]
  BY Zenon, <1>1, <1>2, <1>3, <1>6 DEF Types
<1>8. dirty[f] => diskFresh'[id[f]]
  BY Zenon, <1>1, <1>3, <1>6 DEF Types
<1>9. Named' /\ Placed' /\ Dummies'
  <2>1. \A u \in Threads : pc[u] \in {"evicted", "latch"} => u # t
    OBVIOUS
  <2>2. \A u \in Threads, g \in Frames : Spares(u, g) => Spares(u, g)'
    BY Zenon DEF Spares, OnlyMoves
  <2> QED
    BY <1>1, <2>1, <2>2 DEF Inv, Named, Placed, Dummies, Resident, OnlyMoves
<1>10. ASSUME NEW u \in Procs, u # t PROVE Local(u)'
  <2>1. Local(u) /\ pc'[u] = pc[u] /\ fr'[u] = fr[u] /\ key'[u] = key[u]
    BY Zenon, <1>10 DEF Inv, ControlOK, OnlyMoves
  <2>2. HasFrame(u)' /\ Flushes(u)'
    BY Zenon, <2>1 DEF Local, HasFrame, Flushes
  <2>3. ASSUME u \in Threads PROVE Victim(u)' /\ Spare(u)' /\ Wants(u)' /\ Loads(u)'
    <3>1. /\ Victim(u) /\ Spare(u) /\ Wants(u) /\ Loads(u) /\ HasFrame(u)
          /\ want'[u] = want[u] /\ tls'[u] = tls[u]
      BY Zenon, <1>10, <2>1, <2>3 DEF Local, OnlyMoves
    <3>2. Spare(u)' /\ Wants(u)' /\ Victim(u)'
      BY Zenon, <1>4, <2>1, <3>1 DEF Spare, Hidden, Wants, Victim, HasFrame, StealPC
    <3>3. Loads(u)'
      BY Zenon, <1>4, <1>7, <2>1, <3>1 DEF Loads, Wants, HasFrame, StealPC, WritePC
    <3> QED
      BY Zenon, <3>2, <3>3
  <2> QED
    BY Zenon, <2>2, <2>3 DEF Local
<1>11. ControlOK'
  BY Zenon, <1>10 DEF ControlOK
<1>12. \A g \in Frames : BeingRead(g) => BeingRead(g)'
  BY Zenon, <1>1 DEF BeingRead, OnlyMoves
<1>13. FramesFresh'
  BY Zenon, <1>3, <1>4, <1>7, <1>8, <1>12 DEF Inv, FramesFresh
<1>14. DiskFresh' /\ DirtyPlaced'
  BY Zenon, <1>4, <1>7 DEF Inv, DiskFresh, DirtyPlaced
<1> QED
  BY Zenon, <1>9, <1>11, <1>13, <1>14

(* An evicted page is written,                                             *)
LEMMA EvictWriteInv ==
  ASSUME Inv, NEW t \in Threads, EvictWrite(t)
  PROVE  Inv'
<1>. DEFINE f == fr[t]
<1>1. /\ pc[t] = "evict" /\ pc' = [pc EXCEPT ![t] = "remove"] /\ WritePage(f)
      /\ hash' = hash /\ lock' = lock /\ id' = id /\ pin' = pin /\ queue' = queue
      /\ writer' = writer /\ readers' = readers /\ needsFlush' = needsFlush
      /\ want' = want /\ key' = key /\ fr' = fr /\ tls' = tls /\ sequential' = sequential
  BY Zenon DEF EvictWrite, Go, tablev, policyv, latchv
<1>2. t \in Procs /\ Types /\ Local(t)
  BY Zenon DEF Procs, Inv, ControlOK
<1>3. f \in Frames /\ Pins(t, f) /\ pin[f] # 0
  BY Zenon, <1>1, <1>2, NoneCounted DEF Inv, Local, HasFrame, StealPC, Pins
<1>4. /\ dirty' = [dirty EXCEPT ![f] = FALSE] /\ fresh' = fresh
      /\ diskFresh' \in [Pages -> BOOLEAN]
  BY Zenon, <1>1, <1>2, <1>3 DEF WritePage, Types, Inv, DirtyPlaced
<1>5. Types'
  BY Zenon, <1>1, <1>2, <1>4, NameAssumption DEF Types, Labels, StealPC, Procs
<1>6. Goes(t, "remove", f, key[t]) /\ Keeps(t)
  BY Zenon, <1>1, <1>2 DEF Types, Goes, Keeps, OnlyMoves
<1>7. PinMoves(t) /\ StealMoves(t)
  BY Zenon, <1>1, <1>6 DEF Goes, Keeps, PinMoves, StealMoves, Pins, Steals, Spares, StealPC, HoldPC
<1>8. ReadMoves(t) /\ WriteMoves(t)
  BY Zenon, <1>1, <1>6 DEF Goes, ReadMoves, Reads, ReadPC, WriteMoves, Writes, WritePC
<1>9. Listed'
  BY Zenon, <1>1, <1>2, <1>3, <1>4 DEF Inv, Types, Listed, ListUnpinned, FramesReachable
<1>10. Local(t)'
  BY Zenon, <1>1, <1>2, <1>3, <1>4, <1>6
     DEF Local, HasFrame, Flushes, Victim, Spare, Wants, Loads, Goes, Keeps,
     Hidden, StealPC, HoldPC, WritePC, ReadPC, Types
<1>11. /\ Named' /\ Placed' /\ Dummies' /\ ControlOK'
       /\ FramesFresh' /\ DiskFresh' /\ DirtyPlaced'
  BY Zenon, <1>1, <1>2, <1>6, <1>10, WriteStep DEF Goes, Keeps
<1> QED
  BY Zenon, <1>2, <1>5, <1>6, <1>7, <1>8, <1>9, <1>11, OtherInv DEF Follows, Goes

(* and so is one that the worker, or a thread that it asked, writes back.  *)
LEMMA WriteBackWriteInv ==
  ASSUME Policy = "lru", Inv, NEW t \in Procs, WriteBackWrite(t)
  PROVE  Inv'
<1>. DEFINE f == fr[t]
            l == Resume(t)
<1>1. /\ pc[t] = "write" /\ WritePage(f)
      /\ IF sequential THEN PolicyInsert(f, FALSE) ELSE pin' = pin /\ queue' = queue
      /\ needsFlush' = [needsFlush EXCEPT ![f] = FALSE] /\ writer' = [writer EXCEPT ![f] = NoFrame]
      /\ pc' = [pc EXCEPT ![t] = l]
      /\ key' = [key EXCEPT ![t] = NoPage] /\ fr' = [fr EXCEPT ![t] = NoFrame]
      /\ hash' = hash /\ lock' = lock /\ id' = id /\ readers' = readers
      /\ want' = want /\ tls' = tls /\ sequential' = sequential
  BY Zenon DEF WriteBackWrite, Leave, Go, tablev, policyv
<1>2. Types /\ Local(t) /\ sequential \in BOOLEAN
  BY Zenon DEF Inv, ControlOK, Types
<1>3. f \in Frames /\ Writes(t, f) /\ key[t] # NoPage /\ id[f] = key[t] /\ ~Spares(t, f)
  BY Zenon, <1>1, <1>2, NameAssumption DEF Local, HasFrame, Flushes, Spare, Spares, Writes, WritePC
<1>4. sequential => Pins(t, f) /\ pin[f] # 0
  BY Zenon, <1>1, <1>2, <1>3, NoneCounted DEF Inv, Pins
<1>5. /\ dirty' = [dirty EXCEPT ![f] = FALSE] /\ fresh' = fresh
      /\ diskFresh' \in [Pages -> BOOLEAN]
  BY Zenon, <1>1, <1>2, <1>3 DEF WritePage, Types, Inv, DirtyPlaced
<1>6. pc'[t] = l /\ fr'[t] = NoFrame /\ key'[t] = NoPage /\ OnlyMoves(t)
  BY Zenon, <1>1, <1>2 DEF Types, OnlyMoves
<1>7. Local(t)' /\ l \in {"lookup", "idle"} /\ (t = Worker => l = "idle")
  BY Zenon, <1>1, <1>2, <1>6, ResumeLocal
<1>. HIDE DEF l
<1>8. pin' \in [Frames -> Nat] /\ queue' \in [Frames -> {0, 1}]
  BY <1>1, <1>2, <1>3, <1>4 DEF Types, PolicyInsert
<1>9. Types'
  <2>1. pc' \in [Procs -> Labels] /\ pc'[Worker] \in FlushPC
    BY Zenon, <1>1, <1>2, <1>7 DEF Types, Labels, FlushPC, Procs
  <2> QED
    BY Zenon, <1>1, <1>2, <1>3, <1>5, <1>8, <2>1 DEF Types
<1>10. PinMoves(t) /\ StealMoves(t)
  <2>1. \A g \in Frames : /\ Spares(t, g)' <=> Spares(t, g)
                          /\ Pins(t, g)' <=> Spares(t, g)
                          /\ Pins(t, g) <=> Spares(t, g) \/ (g = f /\ sequential)
    BY Zenon, <1>1, <1>6, <1>7, NameAssumption DEF Pins, Spares, StealPC, HoldPC
  <2>2. \A g \in Frames : pin'[g] = IF g = f /\ sequential THEN pin[g] - 1 ELSE pin[g]
    BY Zenon, <1>1, <1>2, <1>3 DEF PolicyInsert, Types
  <2>3. \A g \in Frames : Steals(t, g)' => Steals(t, g)
    BY Zenon, <1>6, <1>7, <2>1 DEF Steals, StealPC
  <2> QED
    BY Zenon, <1>2, <1>3, <2>1, <2>2, <2>3 DEF PinMoves, StealMoves
<1>11. ReadMoves(t) /\ WriteMoves(t)
  BY Zenon, <1>1, <1>2, <1>3, <1>6, <1>7, NameAssumption
     DEF ReadMoves, Reads, ReadPC, WriteMoves, Writes, WritePC, Types
<1>12. Listed'
  <2>1. CASE sequential
    BY Zenon, <1>1, <1>2, <1>3, <1>4, <1>5, <2>1, InsertListed DEF Inv
  <2>2. CASE ~sequential
    BY Zenon, <1>1, <2>2 DEF Inv, Listed, ListUnpinned, FramesReachable
  <2> QED
    BY Zenon, <2>1, <2>2
<1>13. /\ Named' /\ Placed' /\ Dummies' /\ ControlOK'
       /\ FramesFresh' /\ DiskFresh' /\ DirtyPlaced'
  BY Zenon, <1>1, <1>6, <1>7, WriteStep
<1> QED
  BY Zenon, <1>6, <1>9, <1>10, <1>11, <1>12, <1>13, OtherInv DEF Follows
-----------------------------------------------------------------------------
(* The evicted page leaves the table.                                      *)
LEMMA RemoveFinishInv ==
  ASSUME Inv, NEW t \in Threads, RemoveFinish(t)
  PROVE  Inv'
<1>. PICK f, i : f = fr[t] /\ i = key[t]
  OBVIOUS
<1>1. /\ pc[t] = "remove" /\ pc' = [pc EXCEPT ![t] = "evicted"]
      /\ hash' = [hash EXCEPT ![i] = NoFrame] /\ lock' = [lock EXCEPT ![i] = NoFrame]
      /\ key' = [key EXCEPT ![t] = NoPage]
      /\ id' = id /\ pin' = pin /\ queue' = queue /\ writer' = writer /\ readers' = readers
      /\ dirty' = dirty /\ needsFlush' = needsFlush /\ fresh' = fresh /\ diskFresh' = diskFresh
      /\ want' = want /\ fr' = fr /\ tls' = tls /\ sequential' = sequential
  BY Zenon DEF RemoveFinish, Go, policyv, latchv, datav
<1>2. t \in Procs /\ Threads \subseteq Procs /\ Types /\ Local(t)
  BY Zenon DEF Procs, Inv, ControlOK
<1>3. /\ f \in Frames /\ f # NoFrame /\ i \in Ids /\ id[f] = i /\ hash[i] = f /\ lock[i] = t
      /\ ~dirty[f]
  BY Zenon, <1>1, <1>2, NameAssumption DEF Local, HasFrame, Victim, StealPC, Types
<1>4. Steals(t, f) /\ Writes(t, f)
  BY Zenon, <1>1 DEF Steals, Writes, StealPC, WritePC
<1>5. \A u \in Procs : u # t => ~Steals(u, f) /\ ~Writes(u, f) /\ ~Reads(u, f)
  BY Zenon, <1>2, <1>3, <1>4, Alone
<1>6. Types'
  BY Zenon, <1>1, <1>2, <1>3, NameAssumption DEF Types, Labels, StealPC, Procs
<1>7. Goes(t, "evicted", f, NoPage) /\ Keeps(t)
  BY Zenon, <1>1, <1>2 DEF Types, Goes, Keeps, OnlyMoves
<1>8. PinMoves(t) /\ StealMoves(t)
  BY Zenon, <1>1, <1>7 DEF Goes, Keeps, PinMoves, StealMoves, Pins, Steals, Spares, StealPC, HoldPC
<1>9. ReadMoves(t) /\ WriteMoves(t)
  BY Zenon, <1>1, <1>7 DEF Goes, ReadMoves, Reads, ReadPC, WriteMoves, Writes, WritePC
<1>10. Listed'
  BY Zenon, <1>1 DEF Inv, Listed, ListUnpinned, FramesReachable
<1>11. \A j \in Ids : hash'[j] = (IF j = i THEN NoFrame ELSE hash[j]) /\ (j # i => lock'[j] = lock[j])
  BY Zenon, <1>1, <1>2, <1>3 DEF Types
<1>12. \A j \in Ids : j # i => hash[j] # f
  <2>1. \A u \in Threads : ~(pc[u] = "latch" /\ fr[u] = f)
    BY Zenon, <1>1, <1>2, <1>5 DEF Steals, StealPC
  <2> QED
    BY <1>3, <2>1 DEF Inv, Named
<1>13. Owns(t, f, i)
  BY Zenon, <1>3, <1>4, <1>12 DEF Owns
<1>14. Touches(t, f, i)
  BY Zenon, <1>1, <1>3, <1>11 DEF Touches, Spares
<1>15. Local(t)'
  <2>1. \A j \in Ids : hash'[j] # f
    BY Zenon, <1>3, <1>11, <1>12
  <2> QED
    BY Zenon, <1>1, <1>2, <1>3, <1>7, <2>1, NameAssumption
       DEF Local, HasFrame, Flushes, Victim, Hidden,
       Spare, Wants, Loads, Goes, Keeps, StealPC, HoldPC, WritePC, ReadPC
<1>16. Settled(f, i)'
  <2>1. ~BeingRead(f)
    BY Zenon, <1>1, <1>2, <1>5 DEF BeingRead, Writes, WritePC
  <2>2. i \in Pages => diskFresh'[i]
    BY Zenon, <1>1, <1>3, <2>1 DEF Inv, FramesFresh
  <2>3. id'[f] = i /\ hash'[i] = NoFrame /\ ~dirty'[f] /\ (i \in Frames => i = f)
    BY Zenon, <1>1, <1>3, <1>11 DEF Inv, Dummies
  <2>4. pc'[t] = "evicted" /\ fr'[t] = f
    BY Zenon, <1>7 DEF Goes
  <2> QED
    BY Zenon, <1>3, <2>2, <2>3, <2>4 DEF Settled
<1> QED
  BY Zenon, <1>2, <1>3, <1>6, <1>7, <1>8, <1>9, <1>10, <1>13, <1>14, <1>15, <1>16, TouchInv
     DEF Follows, Goes

(* The frame is t's spare one, and has no id.                              *)
LEMMA EvictDoneInv ==
  ASSUME Inv, NEW t \in Threads, EvictDone(t)
  PROVE  Inv'
<1>. PICK f : f = fr[t]
  OBVIOUS
<1>1. /\ pc[t] = "evicted" /\ pc' = [pc EXCEPT ![t] = "lookup"]
      /\ id' = [id EXCEPT ![f] = NoPage] /\ fresh' = [fresh EXCEPT ![f] = FALSE]
      /\ writer' = [writer EXCEPT ![f] = NoFrame]
      /\ tls' = [tls EXCEPT ![t] = f] /\ fr' = [fr EXCEPT ![t] = NoFrame]
      /\ hash' = hash /\ lock' = lock /\ pin' = pin /\ queue' = queue /\ readers' = readers
      /\ dirty' = dirty /\ needsFlush' = needsFlush /\ diskFresh' = diskFresh
      /\ want' = want /\ key' = key /\ sequential' = sequential
  BY Zenon DEF EvictDone, Go, tablev, policyv
<1>2. t \in Procs /\ Threads \subseteq Procs /\ Types /\ Local(t)
  BY Zenon DEF Procs, Inv, ControlOK
<1>3. f \in Frames /\ f # NoFrame /\ Hidden(f) /\ tls[t] = NoFrame
  BY Zenon, <1>1, <1>2, NameAssumption DEF Local, HasFrame, Victim, Spare, StealPC
<1>4. Steals(t, f) /\ Writes(t, f)
  BY Zenon, <1>1 DEF Steals, Writes, StealPC, WritePC
<1>6. Types'
  BY Zenon, <1>1, <1>2, <1>3, NameAssumption DEF Types, Labels, Procs
<1>7. Goes(t, "lookup", NoFrame, key[t]) /\ want'[t] = want[t] /\ tls'[t] = f
  BY Zenon, <1>1, <1>2 DEF Types, Goes, OnlyMoves
<1>8. PinMoves(t) /\ StealMoves(t)
  BY Zenon, <1>1, <1>3, <1>7, NameAssumption
     DEF Goes, PinMoves, StealMoves, Pins, Steals, Spares, StealPC, HoldPC
<1>9. ReadMoves(t) /\ WriteMoves(t)
  BY Zenon, <1>1, <1>2, <1>3, <1>4, <1>7, NameAssumption
     DEF Goes, ReadMoves, Reads, ReadPC, WriteMoves, Writes, WritePC, Types
<1>10. Listed'
  BY Zenon, <1>1 DEF Inv, Listed, ListUnpinned, FramesReachable
<1>11. \A g \in Frames : /\ id'[g] = IF g = f THEN NoPage ELSE id[g]
                         /\ g # f => fresh'[g] = fresh[g]
  BY Zenon, <1>1, <1>2, <1>3 DEF Types
<1>12. Owns(t, f, NoPage)
  BY Zenon, <1>3, <1>4, NameAssumption DEF Owns, Hidden
<1>13. Touches(t, f, NoPage)
  BY Zenon, <1>1, <1>3, <1>7, <1>11, NameAssumption DEF Touches, Spares
<1>14. Local(t)'
  BY Zenon, <1>1, <1>2, <1>3, <1>7, <1>11
     DEF Local, HasFrame, Flushes, Victim, Spare, Hidden, Wants, Loads,
     Goes, StealPC, HoldPC, WritePC, ReadPC
<1>15. Settled(f, NoPage)'
  <2>1. ~dirty'[f]
    BY Zenon, <1>1, <1>3 DEF Inv, DirtyPlaced, Hidden, Ids
  <2>2. id'[f] = NoPage /\ NoPage \notin Ids /\ NoPage \notin Pages /\ NoPage \notin Frames
    BY Zenon, <1>3, <1>11, NameAssumption DEF Ids
  <2>3. Spares(t, f)'
    BY Zenon, <1>7 DEF Spares
  <2> QED
    BY Zenon, <2>1, <2>2, <2>3 DEF Settled
<1> QED
  BY Zenon, <1>2, <1>3, <1>6, <1>7, <1>8, <1>9, <1>10, <1>12, <1>13, <1>14, <1>15, TouchInv
     DEF Follows, Goes

-----------------------------------------------------------------------------
(* A miss puts the spare frame in the table, with the bucket locked.       *)
LEMMA TestAndSetInv ==
  ASSUME Inv, NEW t \in Threads, TestAndSet(t)
  PROVE  Inv'
<1>. PICK f, p : f = tls[t] /\ p = want[t]
  OBVIOUS
<1>1. /\ pc[t] = "lookup" /\ lock[p] = NoFrame /\ hash[p] = NoFrame
      /\ pc' = [pc EXCEPT ![t] = "latch"]
      /\ hash' = [hash EXCEPT ![p] = f] /\ lock' = [lock EXCEPT ![p] = t]
      /\ fr' = [fr EXCEPT ![t] = f] /\ tls' = [tls EXCEPT ![t] = NoFrame]
      /\ id' = id /\ pin' = pin /\ queue' = queue /\ writer' = writer /\ readers' = readers
      /\ dirty' = dirty /\ needsFlush' = needsFlush /\ fresh' = fresh /\ diskFresh' = diskFresh
      /\ want' = want /\ key' = key /\ sequential' = sequential
  BY Zenon DEF TestAndSet, Go, Unlocked, policyv, latchv, datav
<1>2. t \in Procs /\ Threads \subseteq Procs /\ Types /\ Local(t)
  BY Zenon DEF Procs, Inv, ControlOK
<1>3. /\ p \in Pages /\ p \in Ids /\ f \in Frames /\ f # NoFrame
      /\ id[f] = NoPage /\ NoPage \notin Ids /\ Hidden(f)
  BY Zenon, <1>1, <1>2, NameAssumption DEF Local, Wants, Spare, Types, Ids
<1>4. Steals(t, f)
  BY Zenon, <1>2 DEF Steals, Spares
<1>6. Types'
  BY Zenon, <1>1, <1>2, <1>3, NameAssumption DEF Types, Labels, StealPC, Procs
<1>7. Goes(t, "latch", f, key[t]) /\ want'[t] = p /\ tls'[t] = NoFrame
  BY Zenon, <1>1, <1>2 DEF Types, Goes, OnlyMoves
<1>8. PinMoves(t) /\ StealMoves(t)
  BY Zenon, <1>1, <1>3, <1>7, NameAssumption
     DEF Goes, PinMoves, StealMoves, Pins, Steals, Spares, StealPC, HoldPC
<1>9. ReadMoves(t) /\ WriteMoves(t)
  BY Zenon, <1>1, <1>7 DEF Goes, ReadMoves, Reads, ReadPC, WriteMoves, Writes, WritePC
<1>10. Listed'
  BY Zenon, <1>1 DEF Inv, Listed, ListUnpinned, FramesReachable
<1>11. \A j \in Ids : /\ hash'[j] = IF j = p THEN f ELSE hash[j]
                      /\ lock'[j] = IF j = p THEN t ELSE lock[j]
  BY Zenon, <1>1, <1>2, <1>3 DEF Types
<1>12. Owns(t, f, p)
  BY Zenon, <1>1, <1>3, <1>4 DEF Owns, Hidden
<1>13. Touches(t, f, p)
  BY Zenon, <1>1, <1>2, <1>3, <1>11 DEF Touches, Spares
<1>14. diskFresh[p]
  BY Zenon, <1>1, <1>3 DEF Inv, DiskFresh
<1>15. Local(t)'
  BY Zenon, <1>1, <1>2, <1>3, <1>7, <1>11, <1>14, NameAssumption
     DEF Local, HasFrame, Flushes, Victim,
     Spare, Wants, Loads, Goes, StealPC, HoldPC, WritePC, ReadPC
<1>16. Settled(f, p)'
  <2>1. ~dirty'[f]
    BY Zenon, <1>1, <1>3 DEF Inv, DirtyPlaced, Ids
  <2>2. id'[f] = NoPage /\ NoPage \notin Pages /\ NoPage \notin Frames /\ hash'[p] = f
    BY Zenon, <1>1, <1>3, <1>11 DEF Ids
  <2>3. pc'[t] = "latch" /\ fr'[t] = f /\ want'[t] = p
    BY Zenon, <1>7 DEF Goes
  <2> QED
    BY Zenon, <1>1, <1>14, <2>1, <2>2, <2>3 DEF Settled
<1> QED
  BY Zenon, <1>2, <1>3, <1>6, <1>7, <1>8, <1>9, <1>10, <1>12, <1>13, <1>15, <1>16, TouchInv
     DEF Follows, Goes

(* The frame gets the page's id and is latched while the page is read.     *)
LEMMA LoadLatchInv ==
  ASSUME Policy = "lru", Inv, NEW t \in Threads, LoadLatch(t)
  PROVE  Inv'
<1>. PICK f, p : f = fr[t] /\ p = want[t]
  OBVIOUS
<1>1. /\ pc[t] = "latch" /\ Unlatched(f) /\ pc' = [pc EXCEPT ![t] = "read"]
      /\ writer' = [writer EXCEPT ![f] = t] /\ id' = [id EXCEPT ![f] = p]
      /\ PolicyInsert(f, dirty[f]) /\ lock' = [lock EXCEPT ![p] = NoFrame]
      /\ hash' = hash /\ readers' = readers
      /\ dirty' = dirty /\ needsFlush' = needsFlush /\ fresh' = fresh /\ diskFresh' = diskFresh
      /\ want' = want /\ key' = key /\ fr' = fr /\ tls' = tls /\ sequential' = sequential
  BY Zenon DEF LoadLatch, Go, datav
<1>2. t \in Procs /\ Threads \subseteq Procs /\ Types /\ Local(t)
  BY Zenon DEF Procs, Inv, ControlOK
<1>3. /\ p \in Pages /\ p \in Ids /\ p \notin Frames /\ f \in Frames /\ f # NoFrame
      /\ hash[p] = f /\ lock[p] = t /\ id[f] = NoPage /\ NoPage \notin Ids
      /\ diskFresh[p] /\ tls[t] = NoFrame
  BY Zenon, <1>1, <1>2, NameAssumption DEF Local, HasFrame, Wants, Spare, Loads, StealPC, Types, Ids
<1>4. Steals(t, f) /\ Pins(t, f) /\ pin[f] # 0 /\ ~dirty[f]
  <2>1. Steals(t, f) /\ Pins(t, f)
    BY Zenon, <1>1, <1>2, <1>3 DEF Steals, Pins, StealPC
  <2> QED
    BY Zenon, <1>2, <1>3, <2>1, NoneCounted DEF Inv, DirtyPlaced, Ids
<1>5. \A u \in Procs : u # t => ~Steals(u, f)
  BY Zenon, <1>2, <1>3, <1>4, Alone
<1>6. Types'
  <2>1. pin' \in [Frames -> Nat] /\ queue' \in [Frames -> {0, 1}]
    BY <1>1, <1>2, <1>3, <1>4 DEF Types, PolicyInsert
  <2> QED
    BY Zenon, <1>1, <1>2, <1>3, <2>1, NameAssumption DEF Types, Labels, WritePC, Procs
<1>7. Goes(t, "read", f, key[t]) /\ Keeps(t)
  BY Zenon, <1>1, <1>2 DEF Types, Goes, Keeps, OnlyMoves
<1>8. PinMoves(t) /\ StealMoves(t)
  BY Zenon, <1>1, <1>2, <1>3, <1>4, <1>7, NameAssumption
     DEF Goes, PinMoves, StealMoves, Pins, Steals, Spares, StealPC, HoldPC, PolicyInsert, Types
<1>9. ReadMoves(t) /\ WriteMoves(t)
  BY Zenon, <1>1, <1>2, <1>3, <1>7
     DEF Goes, ReadMoves, Reads, ReadPC, WriteMoves, Writes, WritePC, Unlatched, Types
<1>10. Listed'
  <2>1. dirty[f] \in BOOLEAN /\ dirty' = [dirty EXCEPT ![f] = dirty[f]]
    BY Zenon, <1>1, <1>2, <1>3 DEF Types
  <2> QED
    BY Zenon, <1>1, <1>2, <1>3, <1>4, <2>1, InsertListed DEF Inv
<1>11. /\ \A g \in Frames : id'[g] = IF g = f THEN p ELSE id[g]
       /\ \A j \in Ids : j # p => lock'[j] = lock[j]
  BY Zenon, <1>1, <1>2, <1>3 DEF Types
<1>12. Owns(t, f, p)
  <2>1. \A u \in Threads : pc[u] = "latch" /\ fr[u] = f => u = t
    BY Zenon, <1>2, <1>5 DEF Steals, StealPC
  <2>2. \A j \in Ids : hash[j] = f => j = p
    BY <1>3, <2>1 DEF Inv, Named
  <2> QED
    BY Zenon, <1>3, <1>4, <2>2 DEF Owns
<1>13. Touches(t, f, p)
  BY Zenon, <1>1, <1>3, <1>11 DEF Touches, Spares
<1>14. Local(t)'
  BY Zenon, <1>1, <1>2, <1>3, <1>4, <1>7, <1>11, NameAssumption
     DEF Local, HasFrame, Flushes, Victim,
     Spare, Wants, Loads, Goes, Keeps, StealPC, HoldPC, WritePC, ReadPC
<1>15. Settled(f, p)'
  <2>1. id'[f] = p /\ hash'[p] = f /\ diskFresh'[p] /\ ~dirty'[f] /\ p # NoPage
    BY Zenon, <1>1, <1>3, <1>4, <1>11
  <2>2. BeingRead(f)' /\ Resident(f)'
    BY Zenon, <1>7, <2>1 DEF BeingRead, Resident, Goes
  <2> QED
    BY Zenon, <1>3, <2>1, <2>2 DEF Settled
<1> QED
  BY Zenon, <1>2, <1>3, <1>6, <1>7, <1>8, <1>9, <1>10, <1>12, <1>13, <1>14, <1>15, TouchInv
     DEF Follows, Goes

(* The page has been read, and shows what the page file does.              *)
LEMMA ReadPageInv ==
  ASSUME Inv, NEW t \in Threads, ReadPage(t)
  PROVE  Inv'
<1>. DEFINE f == fr[t]
<1>1. /\ pc[t] = "read" /\ pc' = [pc EXCEPT ![t] = "populate"]
      /\ fresh' = [fresh EXCEPT ![f] = diskFresh[want[t]]]
      /\ writer' = [writer EXCEPT ![f] = NoFrame] /\ fr' = [fr EXCEPT ![t] = NoFrame]
      /\ hash' = hash /\ lock' = lock /\ id' = id /\ pin' = pin /\ queue' = queue
      /\ readers' = readers /\ dirty' = dirty /\ needsFlush' = needsFlush
      /\ diskFresh' = diskFresh
      /\ want' = want /\ key' = key /\ tls' = tls /\ sequential' = sequential
  BY Zenon DEF ReadPage, Go, tablev, policyv
<1>2. t \in Procs /\ Threads \subseteq Procs /\ Types /\ Local(t)
  BY Zenon DEF Procs, Inv, ControlOK
<1>3. /\ f \in Frames /\ f # NoFrame /\ want[t] \in Pages /\ id[f] = want[t]
      /\ diskFresh[want[t]] = TRUE /\ tls[t] = NoFrame
  BY Zenon, <1>1, <1>2, NameAssumption
     DEF Local, HasFrame, Wants, Spare, Loads, WritePC, Types
<1>4. Writes(t, f)
  BY Zenon, <1>1 DEF Writes, WritePC
<1>5. Types'
  BY Zenon, <1>1, <1>2, <1>3, NameAssumption DEF Types, Labels, Procs
<1>6. Goes(t, "populate", NoFrame, key[t]) /\ Keeps(t)
  BY Zenon, <1>1, <1>2 DEF Types, Goes, Keeps, OnlyMoves
<1>7. PinMoves(t) /\ StealMoves(t)
  BY Zenon, <1>1, <1>3, <1>6, NameAssumption
     DEF Goes, Keeps, PinMoves, StealMoves, Pins, Steals, Spares, StealPC, HoldPC
<1>8. ReadMoves(t) /\ WriteMoves(t)
  BY Zenon, <1>1, <1>2, <1>3, <1>4, <1>6, NameAssumption
     DEF Goes, ReadMoves, Reads, ReadPC, WriteMoves, Writes, WritePC, Types
<1>9. Listed'
  BY Zenon, <1>1 DEF Inv, Listed, ListUnpinned, FramesReachable
<1>10. \A g \in Frames : fresh'[g] = IF g = f THEN TRUE ELSE fresh[g]
  BY Zenon, <1>1, <1>2, <1>3 DEF Types
<1>11. Named' /\ Placed' /\ Dummies'
  <2>1. \A u \in Threads : pc[u] \in {"evicted", "latch"} =>
                             pc'[u] = pc[u] /\ fr'[u] = fr[u]
    BY Zenon, <1>1, <1>2, <1>6 DEF Goes, OnlyMoves
  <2> QED
    BY <1>1, <2>1 DEF Inv, Named, Placed, Dummies, Resident, Spares
<1>12. ASSUME NEW u \in Procs, u # t PROVE Local(u)'
  <2>1. Local(u) /\ pc'[u] = pc[u] /\ fr'[u] = fr[u]
    BY Zenon, <1>6, <1>12 DEF Inv, ControlOK, Goes, OnlyMoves
  <2> QED
    BY Zenon, <1>1, <2>1, LocalKept
<1>13. Local(t)'
  BY Zenon, <1>1, <1>2, <1>3, <1>6, NameAssumption
     DEF Local, HasFrame, Flushes, Victim, Spare, Wants,
     Loads, Goes, Keeps, StealPC, HoldPC, WritePC, ReadPC
<1>14. ControlOK'
  BY Zenon, <1>12, <1>13 DEF ControlOK
<1>15. FramesFresh' /\ DiskFresh' /\ DirtyPlaced'
  <2>1. \A g \in Frames : g # f /\ BeingRead(g) => BeingRead(g)'
    BY Zenon, <1>1, <1>2, <1>6 DEF BeingRead, Goes, OnlyMoves
  <2>2. FramesFresh'
    BY Zenon, <1>1, <1>3, <1>10, <2>1 DEF Inv, FramesFresh
  <2> QED
    BY Zenon, <1>1, <2>2 DEF Inv, DiskFresh, DirtyPlaced
<1> QED
  BY Zenon, <1>2, <1>5, <1>6, <1>7, <1>8, <1>9, <1>11, <1>14, <1>15, OtherInv DEF Follows, Goes

(* The caller changes a page it has pinned and latched: nobody is reading  *)
(* it from the page file or evicting it.                                   *)
LEMMA UpdatePageInv ==
  ASSUME Inv, NEW t \in Threads, UpdatePage(t)
  PROVE  Inv'
<1>. DEFINE f == fr[t]
            p == want[t]
<1>1. /\ pc[t] = "holding" /\ dirty' = [dirty EXCEPT ![f] = TRUE]
      /\ fresh' = [g \in Frames |-> fresh[g] /\ (g = f \/ id[g] # id[f])]
      /\ diskFresh' = [diskFresh EXCEPT ![p] = FALSE]
      /\ hash' = hash /\ lock' = lock /\ id' = id /\ pin' = pin /\ queue' = queue
      /\ writer' = writer /\ readers' = readers /\ needsFlush' = needsFlush
      /\ pc' = pc /\ want' = want /\ key' = key /\ fr' = fr /\ tls' = tls
      /\ sequential' = sequential
  BY Zenon DEF UpdatePage, tablev, policyv, latchv, procv
<1>2. t \in Procs /\ Threads \subseteq Procs /\ Types /\ Local(t)
  BY Zenon DEF Procs, Inv, ControlOK
<1>3. /\ f \in Frames /\ p \in Pages /\ p \in Ids /\ p # NoPage
      /\ id[f] = p /\ hash[p] = f
  BY Zenon, <1>1, <1>2, NameAssumption DEF Local, HasFrame, Wants, Loads, HoldPC, ReadPC, Ids
<1>4. \A u \in Procs : u # t => ~Writes(u, f)
  <2>1. Reads(t, f)
    BY Zenon, <1>1 DEF Reads, ReadPC
  <2> QED
    BY Zenon, <1>2, <1>3, <2>1, Alone
<1>5. /\ \A g \in Frames : /\ dirty'[g] = (IF g = f THEN TRUE ELSE dirty[g])
                           /\ fresh'[g] = (fresh[g] /\ (g = f \/ id[g] # p))
      /\ \A q \in Pages : q # p => diskFresh'[q] = diskFresh[q]
  BY Zenon, <1>1, <1>2, <1>3 DEF Types
<1>6. Types'
  <2>1. dirty' \in [Frames -> BOOLEAN] /\ diskFresh' \in [Pages -> BOOLEAN]
    BY Zenon, <1>1, <1>2, <1>3 DEF Types
  <2>2. \A g \in Frames : (fresh[g] /\ (g = f \/ id[g] # id[f])) \in BOOLEAN
    OBVIOUS
  <2>3. fresh' \in [Frames -> BOOLEAN]
    BY Zenon, <1>1, <2>2
  <2> QED
    BY Zenon, <1>1, <1>2, <2>1, <2>3 DEF Types
<1>7. OnlyMoves(t) /\ PinMoves(t) /\ ReadMoves(t) /\ WriteMoves(t) /\ StealMoves(t)
  BY Zenon, <1>1 DEF OnlyMoves, PinMoves, ReadMoves, WriteMoves, StealMoves, Pins, Reads, Writes,
     Steals, Spares
<1>8. Listed'
  BY Zenon, <1>1, <1>5 DEF Inv, Listed, ListUnpinned, FramesReachable
<1>9. Named' /\ Placed' /\ Dummies'
  BY Zenon, <1>1 DEF Inv, Named, Placed, Dummies, Resident, Spares
<1>10. ASSUME NEW u \in Procs PROVE Local(u)'
  <2>1. Local(u) /\ HasFrame(u)
    BY Zenon DEF Inv, ControlOK, Local
  <2>2. pc[u] \in {"remove", "read"} => fr[u] \in Frames /\ fr[u] # f
    BY Zenon, <1>1, <1>4, <2>1 DEF HasFrame, Writes, WritePC
  <2>3. HasFrame(u)' /\ Flushes(u)'
    BY Zenon, <1>1, <2>1 DEF Local, HasFrame, Flushes
  <2>4. ASSUME u \in Threads PROVE Victim(u)' /\ Spare(u)' /\ Wants(u)' /\ Loads(u)'
    <3>1. Victim(u) /\ Spare(u) /\ Wants(u) /\ Loads(u)
      BY Zenon, <2>1, <2>4 DEF Local
    <3>2. Victim(u)' /\ Spare(u)' /\ Wants(u)'
      BY Zenon, <1>1, <1>5, <2>2, <3>1 DEF Victim, Hidden, Spare, Wants
    <3>3. pc[u] \in {"latch", "read"} => want[u] \in Pages /\ want[u] # p
      BY Zenon, <1>3, <2>2, <3>1 DEF Loads, Wants, StealPC
    <3>4. Loads(u)'
      BY Zenon, <1>1, <1>5, <2>2, <3>1, <3>3 DEF Loads
    <3> QED
      BY Zenon, <3>2, <3>4
  <2> QED
    BY Zenon, <2>3, <2>4 DEF Local
<1>11. ControlOK'
  BY Zenon, <1>10 DEF ControlOK
<1>12. FramesFresh' /\ DiskFresh' /\ DirtyPlaced'
  <2>1. ~BeingRead(f)
    BY Zenon, <1>1, <1>2, <1>4 DEF BeingRead, Writes, WritePC
  <2>2. fresh[f]
    BY Zenon, <1>3, <2>1 DEF Inv, FramesFresh
  <2>3. \A g \in Frames : hash[id[g]] = g /\ g # f => id[g] # p
    BY Zenon, <1>3
  <2>4. ASSUME NEW g \in Frames, id'[g] \in Pages, hash'[id'[g]] = g, ~BeingRead(g)'
        PROVE  fresh'[g] /\ (dirty'[g] \/ diskFresh'[id'[g]])
    <3>1. CASE g = f
      BY Zenon, <1>5, <2>2, <3>1
    <3>2. CASE g # f
      <4>1. id[g] \in Pages /\ hash[id[g]] = g /\ ~BeingRead(g) /\ id[g] # p
        BY Zenon, <1>1, <2>3, <2>4, <3>2 DEF BeingRead
      <4>2. fresh[g] /\ (dirty[g] \/ diskFresh[id[g]])
        BY Zenon, <4>1 DEF Inv, FramesFresh
      <4> QED
        BY Zenon, <1>1, <1>5, <3>2, <4>1, <4>2
    <3> QED
      BY Zenon, <3>1, <3>2
  <2>6. FramesFresh'
    BY Zenon, <2>4 DEF FramesFresh
  <2>5. DiskFresh' /\ DirtyPlaced'
    BY <1>1, <1>3, <1>5, NameAssumption DEF Inv, DiskFresh, DirtyPlaced
  <2> QED
    BY Zenon, <2>5, <2>6
<1> QED
  BY Zenon, <1>2, <1>6, <1>7, <1>8, <1>9, <1>11, <1>12, OtherInv DEF Follows

(* A thread that ends leaves its spare frame to others, as a dummy.        *)
LEMMA DeinitTLSInv ==
  ASSUME Policy = "lru", Inv, NEW t \in Threads, DeinitTLS(t)
  PROVE  Inv'
<1>. PICK f : f = tls[t]
  OBVIOUS
<1>1. /\ pc[t] = "idle" /\ f # NoFrame
      /\ id' = [id EXCEPT ![f] = f] /\ hash' = [hash EXCEPT ![f] = f]
      /\ PolicyInsert(f, dirty[f]) /\ tls' = [tls EXCEPT ![t] = NoFrame]
      /\ lock' = lock /\ writer' = writer /\ readers' = readers /\ dirty' = dirty
      /\ needsFlush' = needsFlush /\ fresh' = fresh /\ diskFresh' = diskFresh
      /\ pc' = pc /\ want' = want /\ key' = key /\ fr' = fr /\ sequential' = sequential
  BY Zenon DEF DeinitTLS, latchv, datav
<1>2. t \in Procs /\ Threads \subseteq Procs /\ Types /\ Local(t)
  BY Zenon DEF Procs, Inv, ControlOK
<1>3. /\ f \in Frames /\ f \in Ids /\ f \notin Pages /\ f # NoPage /\ NoPage \notin Ids
      /\ id[f] = NoPage /\ Hidden(f)
  BY Zenon, <1>1, <1>2, NameAssumption DEF Local, Spare, Types, Ids
<1>4. Steals(t, f) /\ Pins(t, f) /\ pin[f] # 0 /\ ~dirty[f]
  <2>1. Steals(t, f) /\ Pins(t, f)
    BY Zenon, <1>2 DEF Steals, Pins, Spares
  <2> QED
    BY Zenon, <1>2, <1>3, <2>1, NoneCounted DEF Inv, DirtyPlaced, Ids
<1>6. hash[f] = NoFrame
  <2>1. \A u \in Threads : pc[u] = "latch" => want[u] # f
    <3>. SUFFICES ASSUME NEW u \in Threads, pc[u] = "latch" PROVE want[u] # f
      OBVIOUS
    <3>1. Wants(u)
      BY Zenon, <1>2 DEF Inv, ControlOK, Local
    <3> QED
      BY Zenon, <1>3, <3>1 DEF Wants, StealPC
  <2>2. ASSUME hash[f] # NoFrame PROVE FALSE
    <3>1. hash[f] \in Frames
      BY Zenon, <1>2, <1>3, <2>2 DEF Types
    <3>2. id[hash[f]] = f
      BY Zenon, <1>3, <2>1, <2>2 DEF Inv, Named
    <3> QED
      BY Zenon, <1>3, <3>1, <3>2 DEF Inv, Dummies, Hidden
  <2> QED
    BY Zenon, <2>2
<1>7. Types'
  <2>1. pin' \in [Frames -> Nat] /\ queue' \in [Frames -> {0, 1}]
    BY <1>1, <1>2, <1>3, <1>4 DEF Types, PolicyInsert
  <2> QED
    BY Zenon, <1>1, <1>2, <1>3, <2>1 DEF Types
<1>8. /\ OnlyMoves(t) /\ tls'[t] = NoFrame
      /\ \A u \in Threads : u # t => tls'[u] = tls[u]
  BY Zenon, <1>1, <1>2 DEF OnlyMoves, Types
<1>9. ReadMoves(t) /\ WriteMoves(t)
  BY Zenon, <1>1 DEF ReadMoves, WriteMoves, Reads, Writes
<1>10. PinMoves(t) /\ StealMoves(t)
  BY Zenon, <1>1, <1>2, <1>3, <1>4, <1>8, NameAssumption
     DEF PinMoves, StealMoves, Pins, Steals, Spares, StealPC, HoldPC, PolicyInsert, Types
<1>11. Listed'
  <2>1. dirty[f] \in BOOLEAN /\ dirty' = [dirty EXCEPT ![f] = dirty[f]]
    BY Zenon, <1>1, <1>2, <1>3 DEF Types
  <2> QED
    BY Zenon, <1>1, <1>2, <1>3, <1>4, <2>1, InsertListed DEF Inv
<1>12. /\ \A g \in Frames : id'[g] = IF g = f THEN f ELSE id[g]
       /\ \A j \in Ids : hash'[j] = IF j = f THEN f ELSE hash[j]
  BY Zenon, <1>1, <1>2, <1>3 DEF Types
<1>13. Owns(t, f, f)
  BY Zenon, <1>3, <1>4, <1>6 DEF Owns, Hidden
<1>14. Touches(t, f, f)
  BY Zenon, <1>1, <1>12 DEF Touches, Spares
<1>15. Local(t)'
  BY Zenon, <1>1, <1>2, <1>8
     DEF Local, HasFrame, Flushes, Victim, Spare, Wants, Loads, StealPC, HoldPC,
     WritePC, ReadPC
<1>16. Settled(f, f)'
  <2>1. id'[f] = f /\ hash'[f] = f /\ ~dirty'[f]
    BY Zenon, <1>1, <1>3, <1>4, <1>12
  <2>2. Resident(f)'
    BY Zenon, <1>3, <2>1 DEF Resident
  <2> QED
    BY Zenon, <1>3, <2>1, <2>2, NameAssumption DEF Settled
<1> QED
  BY Zenon, <1>2, <1>3, <1>7, <1>8, <1>9, <1>10, <1>11, <1>13, <1>14, <1>15, <1>16, TouchInv
     DEF Follows

-----------------------------------------------------------------------------
(* At the start every frame is in the table and in the list.               *)
LEMMA InitInv ==
  ASSUME Init
  PROVE  Inv
<1>1. /\ \A i \in Ids : hash[i] = (IF i \in Frames THEN i ELSE NoFrame) /\ lock[i] = NoFrame
      /\ \A f \in Frames : /\ id[f] = f /\ pin[f] = 0 /\ queue[f] = 1
                           /\ writer[f] = NoFrame /\ readers[f] = 0 /\ dirty[f] = FALSE
      /\ \A p \in Pages : diskFresh[p] = TRUE
      /\ \A t \in Procs : pc[t] = "idle" /\ key[t] = NoPage /\ fr[t] = NoFrame
      /\ \A t \in Threads : want[t] = NoPage /\ tls[t] = NoFrame
      /\ Worker \in Procs /\ Frames \subseteq Ids /\ Threads \subseteq Procs
  BY Zenon DEF Init, Procs, Ids
<1>2. Types
  BY Zenon, NameAssumption DEF Init, Types, Labels, FlushPC, Procs, Ids
<1>3. \A f \in Frames : \A t \in Procs :
        ~Steals(t, f) /\ ~Pins(t, f) /\ ~Reads(t, f) /\ ~Writes(t, f)
  BY Zenon, <1>1, NameAssumption DEF Steals, Pins, Reads, Writes, Spares, StealPC, HoldPC, ReadPC, WritePC
<1>4. PinsExact /\ ReadersExact
  <2>1. \A f \in Frames : Pinners(f) = {} /\ ReadersOf(f) = {}
    BY Zenon, <1>3 DEF Pinners, ReadersOf
  <2> QED
    BY Zenon, <1>1, <2>1, CountEmpty DEF PinsExact, ReadersExact
<1>5. WriterExact /\ LatchExclusive /\ StealOnce
  BY <1>1, <1>3, NameAssumption DEF WriterExact, LatchExclusive, StealOnce
<1>6. Named /\ Placed /\ Dummies
  <2>1. Named
    BY <1>1 DEF Named
  <2>2. Placed
    BY <1>1, NameAssumption DEF Placed, Resident
  <2> QED
    BY <1>1, <2>1, <2>2 DEF Dummies
<1>7. ControlOK
  BY Zenon, <1>1
     DEF ControlOK, Local, HasFrame, Flushes, Victim, Spare, Wants, Loads, StealPC, HoldPC,
     WritePC, ReadPC
<1>8. FramesFresh /\ DiskFresh /\ DirtyPlaced
  BY Zenon, <1>1, NameAssumption DEF FramesFresh, DiskFresh, DirtyPlaced
<1>9. Listed
  BY <1>1 DEF Listed, ListUnpinned, FramesReachable
<1> QED
  BY Zenon, <1>2, <1>4, <1>5, <1>6, <1>7, <1>8, <1>9 DEF Inv

(* Every step of every thread and of the worker keeps the invariant.       *)
LEMMA WriteBackInv ==
  ASSUME Policy = "lru", Inv, NEW t \in Procs, WriteBackStep(t)
  PROVE  Inv'
BY Zenon, WriteBackLookupInv, WriteBackLatchInv, WriteBackLeaveInv, WriteBackWriteInv DEF WriteBackStep

(* Of a thread inside a call,                                              *)
LEMMA CallInv ==
  ASSUME Policy = "lru", Inv, NEW t \in Threads, CallStep(t)
  PROVE  Inv'
<1>1. CASE EvictStep(t)
  BY Zenon, <1>1, RemoveBeginInv, RemoveBeginBusyInv, PutBackInv, EvictWriteInv, RemoveFinishInv,
     EvictDoneInv DEF EvictStep
<1>2. CASE LoadStep(t)
  BY Zenon, <1>2, TestAndSetInv, LoadLatchInv, ReadPageInv, PinInv, ReadLatchInv DEF LoadStep
<1>3. CASE ReleaseUnlock(t)
  BY Zenon, <1>3, ReleaseUnlockInv
<1>4. CASE WriteBackStep(t)
  BY Zenon, <1>4, WriteBackInv DEF Procs
<1> QED
  BY Zenon, <1>1, <1>2, <1>3, <1>4 DEF CallStep

(* and of its caller.                                                      *)
LEMMA AppInv ==
  ASSUME Policy = "lru", Inv, NEW t \in Threads, AppStep(t)
  PROVE  Inv'
<1>1. CASE \E p \in Pages : LoadPage(t, p) \/ GetCachedPage(t, p)
  BY Zenon, <1>1, LoadPageInv, GetCachedPageInv
<1>2. CASE UpdatePage(t) \/ ReleaseInsert(t) \/ DeinitTLS(t)
  BY Zenon, <1>2, UpdatePageInv, ReleaseInsertInv, DeinitTLSInv
<1> QED
  BY Zenon, <1>1, <1>2 DEF AppStep

(* Leaving everything as it is keeps it too.                               *)
LEMMA StutterInv ==
  ASSUME Inv, UNCHANGED vars
  PROVE  Inv'
<1>1. /\ hash' = hash /\ lock' = lock /\ id' = id /\ pin' = pin /\ queue' = queue
      /\ writer' = writer /\ readers' = readers /\ dirty' = dirty /\ needsFlush' = needsFlush
      /\ fresh' = fresh /\ diskFresh' = diskFresh /\ pc' = pc /\ want' = want /\ key' = key
      /\ fr' = fr /\ tls' = tls /\ sequential' = sequential
  BY Zenon DEF vars, tablev, policyv, latchv, datav, procv
<1>2. Types'
  BY Zenon, <1>1 DEF Inv, Types
<1>3. PinsExact' /\ ReadersExact' /\ WriterExact' /\ LatchExclusive' /\ StealOnce'
  <2>1. PinsExact'
    BY Zenon, <1>1 DEF Inv, PinsExact, Pinners, Pins, Spares
  <2>2. ReadersExact'
    BY Zenon, <1>1 DEF Inv, ReadersExact, ReadersOf, Reads
  <2>3. WriterExact' /\ LatchExclusive'
    BY Zenon, <1>1 DEF Inv, WriterExact, LatchExclusive, Writes
  <2>4. StealOnce'
    BY Zenon, <1>1 DEF Inv, StealOnce, Steals, Spares
  <2> QED
    BY Zenon, <2>1, <2>2, <2>3, <2>4
<1>4. Named' /\ Placed' /\ Dummies'
  BY Zenon, <1>1 DEF Inv, Named, Placed, Dummies, Resident, Spares
<1>5. ControlOK'
  BY Zenon, <1>1, LocalKept DEF Inv, ControlOK
<1>6. FramesFresh' /\ DiskFresh' /\ DirtyPlaced' /\ Listed'
  BY Zenon, <1>1 DEF Inv, FramesFresh, BeingRead, DiskFresh, DirtyPlaced, Listed, ListUnpinned,
     FramesReachable
<1> QED
  BY Zenon, <1>2, <1>3, <1>4, <1>5, <1>6 DEF Inv

(* The invariant is inductive.                                             *)
LEMMA NextInv ==
  ASSUME Policy = "lru", Inv, [Next]_vars
  PROVE  Inv'
<1>1. CASE \E t \in Threads : GetStale(t) \/ CallStep(t) \/ AppStep(t)
  BY Zenon, <1>1, GetStaleInv, CallInv, AppInv
<1>2. CASE WorkerStep
  <2>1. Worker \in Procs
    BY Zenon DEF Procs
  <2> QED
    BY Zenon, <1>2, <2>1, WriteBackInv, FlushPageInv DEF WorkerStep
<1>3. CASE UNCHANGED vars
  BY Zenon, <1>3, StutterInv
<1> QED
  BY Zenon, <1>1, <1>2, <1>3 DEF Next

(* The frame a caller holds is the page's, and shows every update.         *)
LEMMA InvLoads ==
  ASSUME Inv
  PROVE  LoadsCurrent
<1>. SUFFICES ASSUME NEW t \in Threads, pc[t] = "holding"
              PROVE  id[fr[t]] = want[t] /\ hash[want[t]] = fr[t] /\ fresh[fr[t]]
  BY Zenon DEF LoadsCurrent
<1>1. t \in Procs /\ Local(t) /\ Threads \subseteq Procs
  BY Zenon DEF Procs, Inv, ControlOK
<1>2. fr[t] \in Frames /\ want[t] \in Pages /\ id[fr[t]] = want[t] /\ hash[want[t]] = fr[t]
  BY Zenon, <1>1 DEF Local, HasFrame, Wants, Loads, HoldPC
<1>3. Reads(t, fr[t])
  BY Zenon DEF Reads, ReadPC
<1>4. \A u \in Procs : u # t => ~Writes(u, fr[t])
  BY Zenon, <1>1, <1>2, <1>3, Alone
<1>5. ~BeingRead(fr[t])
  BY Zenon, <1>1, <1>4 DEF BeingRead, Writes, WritePC
<1> QED
  BY Zenon, <1>2, <1>5 DEF Inv, FramesFresh

(* What the LRU list gives up is unpinned, and so in the table.            *)
LEMMA InvListed ==
  ASSUME Inv
  PROVE  LRUInHashtable /\ FramesReachable /\ NoAbort /\ TypeOK
<1>1. LRUInHashtable
  BY Zenon, UnpinnedResident DEF Inv, Listed, ListUnpinned, LRUInHashtable, Resident
<1>2. NoAbort
  <2>. SUFFICES ASSUME NEW t \in Threads, RemoveBeginAborts(t) PROVE FALSE
    BY Zenon DEF NoAbort
  <2>1. Local(t)
    BY Zenon DEF Inv, ControlOK, Procs
  <2> QED
    BY Zenon, <2>1, NameAssumption DEF RemoveBeginAborts, Local, HasFrame, Victim, StealPC
<1>3. TypeOK
  BY DEF Inv, Types, TypeOK, LatchExclusive
<1> QED
  BY Zenon, <1>1, <1>2, <1>3 DEF Inv, Listed

-----------------------------------------------------------------------------
(* The counters, the latches, the table and the contents stay as Inv says, *)
(* with the LRU policy.                                                    *)
THEOREM BufferInvariant ==
  ASSUME Policy = "lru"
  PROVE  Spec => []Inv
<1>1. Init => Inv
  BY Zenon, InitInv
<1>2. Inv /\ [Next]_vars => Inv'
  BY Zenon, NextInv
<1> QED
  BY <1>1, <1>2, PTL DEF Spec

(* loadPage() returns the page's own frame with every update in it, and    *)
(* the frame stays the page's until the caller releases it.                *)
THEOREM LoadsAreCurrent ==
  ASSUME Policy = "lru"
  PROVE  Spec => []LoadsCurrent
<1>1. Inv => LoadsCurrent
  BY Zenon, InvLoads
<1> QED
  BY <1>1, BufferInvariant, PTL

(* populateTLS() never takes its abort() branches: the frame the LRU list  *)
(* gives up is in the table, under the id that was read.                   *)
THEOREM PopulateNeverAborts ==
  ASSUME Policy = "lru"
  PROVE  Spec => []NoAbort
<1>1. Inv => NoAbort
  BY Zenon, InvListed
<1> QED
  BY <1>1, BufferInvariant, PTL

(* A frame in the LRU list is in the table under the id it has.            *)
THEOREM ListedIsInTable ==
  ASSUME Policy = "lru"
  PROVE  Spec => []LRUInHashtable
<1>1. Inv => LRUInHashtable
  BY Zenon, InvListed
<1> QED
  BY <1>1, BufferInvariant, PTL

(* An unpinned frame is in the LRU list, unless it is dirty and writes are *)
(* sequential: pin and release lose no frame.                              *)
THEOREM NoFrameIsLost ==
  ASSUME Policy = "lru"
  PROVE  Spec => []FramesReachable
<1>1. Inv => FramesReachable
  BY Zenon, InvListed
<1> QED
  BY <1>1, BufferInvariant, PTL

(* Pin counts are never negative, as stasis_lru_fast_insert() asserts, and *)
(* a frame's latch is held for reading or for writing, not for both.       *)
THEOREM BufferTypes ==
  ASSUME Policy = "lru"
  PROVE  Spec => []TypeOK
<1>1. Inv => TypeOK
  BY Zenon, InvListed
<1> QED
  BY <1>1, BufferInvariant, PTL
=============================================================================
