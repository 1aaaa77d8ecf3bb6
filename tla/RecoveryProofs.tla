--------------------------- MODULE RecoveryProofs ---------------------------
(***************************************************************************)
(* Repeating history, for every number of transactions, pages, crashes and *)
(* records, for both logs and with every feature: a page always shows what *)
(* the log up to its LSN says, and restart brings every page up to date    *)
(* although truncation has removed a part of the log.                      *)
(*                                                                         *)
(* The actions keep the invariant: first those that add a record to the    *)
(* log (updates, nested top actions, prepare, commit and abort, the CLRs   *)
(* of undo), then the walk of undo, analysis, write-back, truncation,      *)
(* crashes and shutdown, and last redo.                                    *)
(***************************************************************************)
EXTENDS RecoveryInv

(* x logs a record, and nta[x] may be reset.                               *)
LEMMA LoggedNTA ==
  ASSUME IInv, NEW r, Grow(r), NEW x \in Xids, xact' = Logged(x),
         nta' = [nta EXCEPT ![x] = -1], UNCHANGED ntaPrev
  PROVE  TXact'
<1>. DEFINE v == [active |-> xact[x].active, prevLSN |-> Len(log) + 1,
                  recLSN |-> IF xact[x].prevLSN = -1 THEN Len(log) + 1
                             ELSE xact[x].recLSN]
<1>1. TXact /\ Len(log) \in Nat /\ Len(log') \in Nat /\ Len(log) <= Len(log')
      /\ Len(log') = Len(log) + 1
  BY DEF IInv, TInv, Grow
<1>2. xact' = [xact EXCEPT ![x] = v]
  BY Zenon DEF Logged, NextLSN, INVALID_LSN
<1>3. v \in Slots /\ v.prevLSN <= Len(log')
  BY <1>1 DEF TXact, Slots
<1>4. nta' \in [Xids -> Int]
  BY <1>1 DEF TXact
<1>. HIDE DEF v
<1>. QED
  BY ZenonT(30), <1>1, <1>2, <1>3, <1>4, SetSlot

(* stasis_log_end_nta keeps the invariant.                                 *)
LEMMA EndNTAStep ==
  ASSUME IInv, NEW x \in Xids, EndNTA(x)
  PROVE  IInv'
<1>. DEFINE r == LogicalRecord(x, ntaPrev[x], xact[x].prevLSN)
<1>1. r \in Records /\ Appendable(r) /\ r.page = NoPage
  BY Zenon, Basics, RecordOK DEF LogicalRecord
<1>2. /\ log' = Append(log, r)
      /\ xact' = Logged(x) /\ nta' = [nta EXCEPT ![x] = -1] /\ UNCHANGED ntaPrev
      /\ UNCHANGED <<flushed, trunc, mem, cache, disk, dirty, upc, undoLSN, undoXid>>
      /\ UNCHANGED restart
  BY Zenon DEF EndNTA, walk
<1>. HIDE DEF r
<1>3. Grow(r)
  BY Zenon, <1>1, <1>2, AppendFacts, Basics
<1>4. flushed' \in flushed..Len(log')
  BY <1>2, <1>3, Basics DEF Grow
<1>5. TXact'
  BY ZenonT(30), <1>2, <1>3, LoggedNTA
<1>. QED
  BY Zenon, <1>1, <1>2, <1>4, <1>5, QuietAppend

(* A force up to the new record.                                           *)
LEMMA ForceNew ==
  ASSUME IInv, NEW r, Grow(r), LogForce(NextLSN)
  PROVE  flushed' \in flushed..Len(log')
BY Basics DEF Grow, LogForce, NextLSN

(* Tprepare keeps the invariant.                                           *)
LEMMA PrepareStep ==
  ASSUME IInv, NEW x \in Xids, Prepare(x)
  PROVE  IInv'
<1>. DEFINE r == PrepareRecord(x, xact[x].prevLSN, xact[x].recLSN)
<1>1. r \in Records /\ Appendable(r) /\ r.page = NoPage
  <2>1. xact[x].prevLSN \in Int /\ xact[x].prevLSN <= Len(log) /\ xact[x].recLSN \in Int
    BY Zenon, Basics DEF TXact, Slots
  <2>. QED
    BY Zenon, <2>1, PrepareRecordOK
<1>2. /\ log' = Append(log, r)
      /\ xact' = Logged(x) /\ UNCHANGED <<nta, ntaPrev>>
      /\ UNCHANGED <<trunc, mem, cache, disk, dirty, upc, undoLSN, undoXid>>
      /\ UNCHANGED restart /\ LogForce(NextLSN)
  BY Zenon DEF Prepare, walk
<1>. HIDE DEF r
<1>3. Grow(r)
  BY Zenon, <1>1, <1>2, AppendFacts, Basics
<1>4. flushed' \in flushed..Len(log')
  BY Zenon, <1>2, <1>3, ForceNew
<1>5. TXact'
  BY Zenon, <1>1, <1>2, <1>3, AppendTables
<1>. QED
  BY Zenon, <1>1, <1>2, <1>4, <1>5, QuietAppend

(* Tcommit and TsoftCommit keep the invariant.                             *)
LEMMA CommitStep ==
  ASSUME IInv, NEW x \in Xids, NEW force \in BOOLEAN, Commit(x, force)
  PROVE  IInv'
<1>. DEFINE r == Record("XCOMMIT", x, xact[x].prevLSN)
<1>1. r \in Records /\ Appendable(r) /\ r.page = NoPage
  BY Zenon, Basics, RecordOK DEF Record, Types
<1>2. /\ log' = Append(log, r)
      /\ xact' = [xact EXCEPT ![x] = FreeSlot] /\ UNCHANGED <<nta, ntaPrev>>
      /\ UNCHANGED <<trunc, mem, cache, disk, dirty, upc, undoLSN, undoXid>>
      /\ UNCHANGED restart /\ (LogForce(NextLSN) \/ flushed' = flushed)
  BY Zenon DEF Commit, walk
<1>. HIDE DEF r
<1>3. Grow(r)
  BY Zenon, <1>1, <1>2, AppendFacts, Basics
<1>4. flushed' \in flushed..Len(log')
  <2>1. CASE LogForce(NextLSN)
    BY Zenon, <2>1, <1>3, ForceNew
  <2>2. CASE flushed' = flushed
    BY <2>2, <1>3, Basics DEF Grow
  <2>. QED
    BY Zenon, <2>1, <2>2, <1>2
<1>5. TXact'
  BY ZenonT(30), <1>2, <1>3, Released
<1>. QED
  BY Zenon, <1>1, <1>2, <1>4, <1>5, QuietAppend

(* Tabort starts the walk at the record it wrote.                          *)
LEMMA AbortStep ==
  ASSUME IInv, NEW x \in Xids, Abort(x)
  PROVE  IInv'
<1>. DEFINE r == Record("XABORT", x, xact[x].prevLSN)
<1>1. r \in Records /\ Appendable(r) /\ r.page = NoPage
  BY Zenon, Basics, RecordOK DEF Record, Types
<1>2. /\ log' = Append(log, r)
      /\ xact' = Logged(x) /\ nta' = [nta EXCEPT ![x] = -1] /\ UNCHANGED ntaPrev
      /\ UNCHANGED <<flushed, trunc, mem, cache, disk, dirty>>
      /\ UNCHANGED restart
      /\ upc' = "walk" /\ undoLSN' = Len(log) + 1 /\ undoXid' = x /\ mode = "run"
  BY Zenon DEF Abort, Client, NextLSN
<1>. HIDE DEF r
<1>3. Grow(r)
  BY Zenon, <1>1, <1>2, AppendFacts, Basics
<1>4. flushed' \in flushed..Len(log')
  BY <1>2, <1>3, Basics DEF Grow
<1>5. TXact'
  BY ZenonT(30), <1>2, <1>3, LoggedNTA
<1>6. NewWalk
  BY <1>2, <1>3 DEF NewWalk, Grow
<1>. QED
  BY Zenon, <1>1, <1>2, <1>4, <1>5, <1>6, QuietAppend

(* The steps that append a record which names page q, and apply it.        *)
LEMMA OnAppend ==
  ASSUME IInv, NEW q \in Pages, NEW r, Appendable(r), r.page = q,
         log' = Append(log, r), mode \in {"run", "undo"},
         UNCHANGED <<flushed, trunc, cache, disk>>, UNCHANGED restart,
         NEW S, Grow(r) => S = Effect(log', q, Len(log) + 1),
         mem' = [mem EXCEPT ![q] = [lsn |-> Len(log) + 1, applied |-> S]],
         MarkDirty(q, Len(log) + 1),
         NewWalk \/ UNCHANGED <<upc, undoLSN, undoXid>>,
         Grow(r) => TXact'
  PROVE  IInv'
<1>1. r \in Records /\ log \in Seq(Records) /\ Len(log) \in Nat
  BY Zenon, Basics DEF Appendable
<1>2. Grow(r)
  BY Zenon, <1>1, AppendFacts
<1>3. flushed' \in flushed..Len(log')
  BY <1>2, Basics DEF Grow
<1>4. LInv' /\ TLog' /\ TRestart' /\ WInv'
  BY Zenon, <1>2, <1>3, AppendRest
<1>5. TPage'
  <2>1. TPage
    BY Zenon DEF IInv, TInv
  <2>2. S \subseteq Nat
    BY <1>1, <1>2 DEF Effect
  <2>3. [lsn |-> Len(log) + 1, applied |-> S] \in PageState
    BY <1>1, <2>2 DEF PageState
  <2>4. mem' \in [Pages -> PageState]
    BY Zenon, <2>1, <2>3 DEF TPage
  <2>5. dirty' \in [Pages -> {-1} \cup 1..Len(log')]
    <3>1. Len(log) \in Nat /\ Len(log') = Len(log) + 1
      BY Zenon, <1>2 DEF Grow
    <3>2. dirty \in [Pages -> {-1} \cup 1..Len(log')]
      BY <2>1, <3>1 DEF TPage
    <3>3. Len(log) + 1 \in 1..Len(log')
      BY <3>1
    <3>. QED
      BY Zenon, <3>2, <3>3 DEF MarkDirty
  <2>. QED
    BY Zenon, <2>1, <2>4, <2>5 DEF TPage
<1>6. UNCHANGED <<mode, cursor>>
  BY Zenon DEF restart
<1>7. S = Effect(log', q, Len(log) + 1)
  BY Zenon, <1>2
<1>8. \A p \in Pages : PInv(p)'
  BY ZenonT(30), <1>1, <1>2, <1>6, <1>7, AppendOn
<1>. QED
  BY Zenon, <1>2, <1>4, <1>5, <1>8 DEF IInv, TInv

(* Applying the update just logged.                                        *)
LEMMA AppliedUpdate ==
  ASSUME IInv, mode \in {"run", "undo"}, NEW p \in Pages, NEW r, Grow(r),
         r.type = "UPDATELOG", r.page = p
  PROVE  mem[p].applied \cup {Len(log) + 1} = Effect(log', p, Len(log) + 1)
<1>1. Effect(log, p, Len(log)) = Effect(log', p, Len(log))
  BY ZenonT(30), EffectPrefix DEF Grow
<1>2. Effect(log', p, Len(log) + 1) = Effect(log', p, Len(log)) \cup {Len(log) + 1}
  BY ZenonT(30), EffectUpdate DEF Grow
<1>. QED
  BY Zenon, <1>1, <1>2, CurrentPages

(* Undoing the update that the CLR just logged compensates.                *)
LEMMA AppliedCLR ==
  ASSUME IInv, mode \in {"run", "undo"}, NEW p \in Pages, NEW r, Grow(r),
         r.type = "CLRLOG", r.comp \in 1..Len(log)
  PROVE  mem[p].applied \ {r.comp} = Effect(log', p, Len(log) + 1)
<1>1. Effect(log, p, Len(log)) = Effect(log', p, Len(log))
  BY ZenonT(30), EffectPrefix DEF Grow
<1>2. Effect(log', p, Len(log) + 1) = Effect(log', p, Len(log)) \ {r.comp}
  <2>1. /\ Len(log) \in Nat /\ log'[Len(log) + 1] = r
        /\ log'[Len(log) + 1].type = "CLRLOG"
        /\ log'[Len(log) + 1].comp \in 1..Len(log)
    BY Zenon DEF Grow
  <2>2. Effect(log', p, Len(log) + 1) =
          Effect(log', p, Len(log)) \ {log'[Len(log) + 1].comp}
    BY ONLY ZenonT(30), <2>1, EffectCLR
  <2>. QED
    BY Zenon, <2>1, <2>2
<1>. QED
  BY Zenon, <1>1, <1>2, CurrentPages

(* TupdateWithPage keeps the invariant.                                    *)
LEMMA UpdateStep ==
  ASSUME IInv, NEW x \in Xids, NEW p \in Pages, Update(x, p)
  PROVE  IInv'
<1>. DEFINE r == UpdateRecord(x, xact[x].prevLSN, p, 0)
            S == mem[p].applied \cup {Len(log) + 1}
<1>1. r \in Records /\ Appendable(r) /\ r.page = p /\ r.type = "UPDATELOG"
  BY SMTT(30), Basics, RecordOK DEF UpdateRecord
<1>2. /\ log' = Append(log, r)
      /\ xact' = Logged(x) /\ UNCHANGED <<nta, ntaPrev>>
      /\ UNCHANGED <<flushed, trunc, cache, disk>>
      /\ UNCHANGED <<upc, undoLSN, undoXid>>
      /\ UNCHANGED restart /\ mode = "run"
      /\ mem' = [mem EXCEPT ![p] = [lsn |-> Len(log) + 1, applied |-> S]]
      /\ MarkDirty(p, Len(log) + 1)
  BY SMTT(30) DEF Update, Client, walk, Apply, NextLSN
<1>. HIDE DEF r
<1>3. Grow(r)
  BY Zenon, <1>1, <1>2, AppendFacts, Basics
<1>4. S = Effect(log', p, Len(log) + 1)
  BY Zenon, <1>1, <1>2, <1>3, AppliedUpdate
<1>5. TXact'
  BY Zenon, <1>1, <1>2, <1>3, AppendTables
<1>. HIDE DEF S
<1>. QED
  BY ZenonT(30), <1>1, <1>2, <1>4, <1>5, OnAppend

(* Undo of an update: its CLR, and the page without it.                    *)
LEMMA UndoPhysicalStep ==
  ASSUME IInv, UndoPhysical
  PROVE  IInv'
<1>. DEFINE e == log[undoLSN]
            p == log[undoLSN].page
            r == CLRRecord(e, undoLSN)
            S == mem[p].applied \ {undoLSN}
<1>1. /\ undoLSN \in 1..Len(log) /\ e \in Records /\ e.xid \in Xids
      /\ e.type = "UPDATELOG" /\ e.prevLSN \in Int /\ e.prevLSN <= Len(log)
      /\ p \in Pages /\ upc = "walk" /\ undoXid \in Xids
      /\ mode \in {"run", "undo"} /\ Len(log) \in Nat
  BY Zenon, OnWalk, Basics DEF UndoPhysical
<1>2. /\ log' = Append(log, r) /\ RollForward(e.xid, undoLSN)
      /\ UNCHANGED <<nta, ntaPrev>> /\ UNCHANGED <<flushed, trunc, cache, disk>>
      /\ UNCHANGED restart /\ upc' = upc /\ undoXid' = undoXid
      /\ undoLSN' = e.prevLSN
      /\ mem' = [mem EXCEPT ![p] = [lsn |-> Len(log) + 1, applied |-> S]]
      /\ MarkDirty(p, Len(log) + 1)
  BY Zenon DEF UndoPhysical, Unapply, NextLSN
<1>3. /\ r \in Records /\ Appendable(r) /\ r.page = p /\ r.type = "CLRLOG"
      /\ r.comp = undoLSN
  BY <1>1, PageAssumption DEF CLRRecord, Records, Appendable, Types, INVALID_LSN
<1>. HIDE DEF r
<1>4. Grow(r)
  BY Zenon, <1>2, <1>3, AppendFacts, Basics
<1>5. S = Effect(log', p, Len(log) + 1)
  BY SMTT(30), <1>1, <1>3, <1>4, AppliedCLR
<1>6. TXact'
  <2>1. Len(log') \in Nat /\ Len(log) <= Len(log') /\ undoLSN \in Int /\ undoLSN <= Len(log)
    BY <1>1, <1>4 DEF Grow
  <2>2. e.xid \in Xids /\ RollForward(e.xid, undoLSN) /\ UNCHANGED <<nta, ntaPrev>>
    BY Zenon, <1>1, <1>2
  <2>. QED
    BY Zenon, <2>1, <2>2, RollForwardOK
<1>7. NewWalk
  <2>1. /\ e.prevLSN \in Int /\ e.prevLSN <= Len(log) /\ Len(log) \in Nat
        /\ upc = "walk" /\ undoXid \in Xids /\ upc' = upc /\ undoXid' = undoXid
        /\ undoLSN' = e.prevLSN /\ mode \in {"run", "undo"}
    BY Zenon, <1>1, <1>2
  <2>2. Len(log') = Len(log) + 1
    BY Zenon, <1>4 DEF Grow
  <2>. QED
    BY ONLY <2>1, <2>2 DEF NewWalk
<1>. HIDE DEF S, p, e
<1>. QED
  BY ZenonT(30), <1>1, <1>2, <1>3, <1>5, <1>6, <1>7, OnAppend

(* The inverse operation of a logical undo.                                *)
LEMMA UndoLogicalStep ==
  ASSUME IInv, NEW p \in Pages, UndoLogical(p)
  PROVE  IInv'
<1>. DEFINE x == log[undoLSN].xid
            r == UpdateRecord(x, xact[x].prevLSN, p, undoLSN)
            S == mem[p].applied \cup {Len(log) + 1}
<1>1. /\ undoLSN \in 1..Len(log) /\ x \in Xids /\ undoXid \in Xids
      /\ log[undoLSN].page = NoPage
      /\ mode \in {"run", "undo"} /\ Len(log) \in Nat
  BY Zenon, OnWalk, Basics DEF UndoLogical
<1>2. /\ log' = Append(log, r) /\ xact' = Logged(x)
      /\ UNCHANGED <<nta, ntaPrev>> /\ UNCHANGED <<flushed, trunc, cache, disk>>
      /\ UNCHANGED restart /\ upc' = "logical" /\ undoXid' = undoXid
      /\ undoLSN' = undoLSN
      /\ mem' = [mem EXCEPT ![p] = [lsn |-> Len(log) + 1, applied |-> S]]
      /\ MarkDirty(p, Len(log) + 1)
  BY Zenon DEF UndoLogical, Apply, NextLSN
<1>3. r \in Records /\ Appendable(r) /\ r.page = p /\ r.type = "UPDATELOG"
  BY Zenon, <1>1, Basics, RecordOK DEF UpdateRecord
<1>. HIDE DEF r, x
<1>4. Grow(r)
  BY Zenon, <1>2, <1>3, AppendFacts, Basics
<1>5. S = Effect(log', p, Len(log) + 1)
  BY Zenon, <1>1, <1>3, <1>4, AppliedUpdate
<1>6. TXact'
  BY Zenon, <1>1, <1>2, <1>3, <1>4, AppendTables
<1>7. NewWalk
  BY <1>1, <1>2, <1>4 DEF NewWalk, Grow
<1>. HIDE DEF S
<1>. QED
  BY ZenonT(30), <1>1, <1>2, <1>3, <1>5, <1>6, <1>7, OnAppend

(* The dummy CLR that closes a logical undo touches no page.               *)
LEMMA WriteDummyCLRStep ==
  ASSUME IInv, WriteDummyCLR
  PROVE  IInv'
<1>. DEFINE e == log[undoLSN]
            r == CLRRecord(e, -1)
<1>1. /\ undoLSN \in 1..Len(log) /\ e.page = NoPage /\ undoXid \in Xids
      /\ mode \in {"run", "undo"}
  BY Zenon DEF WriteDummyCLR, IInv, WInv
<1>2. e.xid \in Xids /\ e.prevLSN \in Int /\ e.prevLSN <= Len(log)
  BY <1>1, WalkRecord
<1>3. /\ r \in Records /\ Appendable(r) /\ r.page = NoPage
  BY <1>1, <1>2 DEF CLRRecord, Records, Appendable, Types, INVALID_LSN
<1>4. /\ log' = Append(log, r) /\ undoLSN' = e.prevLSN /\ upc' = "walk"
      /\ UNCHANGED <<xact, nta, ntaPrev>> /\ undoXid' = undoXid
      /\ UNCHANGED <<flushed, trunc, mem, cache, disk, dirty>>
      /\ UNCHANGED restart
  BY Zenon DEF WriteDummyCLR, INVALID_LSN
<1>. HIDE DEF r, e
<1>5. Grow(r)
  BY Zenon, <1>3, <1>4, AppendFacts, Basics
<1>6. flushed' \in flushed..Len(log')
  BY <1>4, <1>5, Basics DEF Grow
<1>7. TXact'
  BY Zenon, <1>3, <1>4, <1>5, AppendTables
<1>8. NewWalk
  BY <1>1, <1>2, <1>4, <1>5 DEF NewWalk, Grow
<1>. QED
  BY Zenon, <1>3, <1>4, <1>6, <1>7, <1>8, QuietAppend

(* Tforget ends the walk.                                                  *)
LEMMA EndRollbackStep ==
  ASSUME IInv, EndRollback
  PROVE  IInv'
<1>. DEFINE r == Record("XEND", undoXid, xact[undoXid].prevLSN)
<1>1. undoXid \in Xids
  BY SMTT(30) DEF EndRollback, IInv, WInv
<1>2. r \in Records /\ Appendable(r) /\ r.page = NoPage
  BY Zenon, <1>1, Basics, RecordOK DEF Record, Types
<1>3. /\ log' = Append(log, r)
      /\ xact' = [xact EXCEPT ![undoXid] = FreeSlot] /\ UNCHANGED <<nta, ntaPrev>>
      /\ UNCHANGED <<flushed, trunc, mem, cache, disk, dirty>>
      /\ UNCHANGED restart /\ upc' = "idle" /\ undoLSN' = -1
  BY Zenon DEF EndRollback, INVALID_LSN
<1>. HIDE DEF r
<1>4. Grow(r)
  BY Zenon, <1>2, <1>3, AppendFacts, Basics
<1>5. flushed' \in flushed..Len(log')
  BY <1>3, <1>4, Basics DEF Grow
<1>6. TXact'
  BY ZenonT(30), <1>1, <1>3, <1>4, Released
<1>7. NewWalk
  BY <1>3, <1>4 DEF NewWalk, Grow
<1>. QED
  BY Zenon, <1>2, <1>3, <1>5, <1>6, <1>7, QuietAppend

-----------------------------------------------------------------------------
(* CLRs and aborts are passed over.                                        *)
LEMMA SkipRecordStep ==
  ASSUME IInv, SkipRecord
  PROVE  IInv'
<1>1. /\ undoLSN \in 1..Len(log) /\ undoXid \in Xids /\ mode \in {"run", "undo"}
      /\ log[undoLSN].prevLSN \in Int /\ log[undoLSN].prevLSN <= Len(log)
      /\ upc = "walk"
  BY Zenon, OnWalk DEF SkipRecord
<1>2. /\ UNCHANGED <<log, trunc, mem, cache, disk, dirty, xact, nta, ntaPrev>>
      /\ UNCHANGED <<mode, cursor, rollbackLSNs, upc, undoXid>>
      /\ undoLSN' = log[undoLSN].prevLSN
      /\ (flushed' = flushed \/ (flushed < undoLSN /\ flushed' = undoLSN))
  BY Zenon DEF SkipRecord, restart
<1>3. flushed' \in flushed..Len(log)
  BY <1>1, <1>2, Basics
<1>4. TXact' /\ TRestart'
  BY Zenon, <1>2, SameTables
<1>5. NewWalk
  BY Zenon, <1>1, <1>2 DEF NewWalk
<1>6. Upto' = Upto
  BY Zenon, <1>2 DEF Upto
<1>. QED
  BY Zenon, <1>2, <1>3, <1>4, <1>5, <1>6, QuietStep

(* The walk ends at the record of Tprepare.                                *)
LEMMA StopAtPrepareStep ==
  ASSUME IInv, StopAtPrepare
  PROVE  IInv'
<1>1. undoLSN \in 1..Len(log) /\ undoXid \in Xids /\ Len(log) \in Nat
  BY Zenon, OnWalk, Basics DEF StopAtPrepare
<1>2. /\ UNCHANGED <<log, flushed, trunc, mem, cache, disk, dirty, nta, ntaPrev>>
      /\ UNCHANGED <<mode, cursor, rollbackLSNs>>
      /\ RollForward(undoXid, undoLSN) /\ upc' = "idle" /\ undoLSN' = -1
  BY Zenon DEF StopAtPrepare, restart, store, INVALID_LSN
<1>3. TXact'
  BY <1>1, <1>2, RollForwardOK
<1>4. TRestart'
  BY Zenon, <1>2 DEF IInv, TInv, TRestart
<1>5. NewWalk
  BY <1>1, <1>2 DEF NewWalk
<1>6. Upto' = Upto
  BY Zenon, <1>2 DEF Upto
<1>7. flushed' \in flushed..Len(log)
  BY <1>2, Basics
<1>. QED
  BY Zenon, <1>2, <1>3, <1>4, <1>5, <1>6, <1>7, QuietStep

(* Undo takes the next transaction to roll back.                           *)
LEMMA PopMaxValStep ==
  ASSUME IInv, PopMaxVal
  PROVE  IInv'
<1>1. PICK m \in rollbackLSNs : /\ rollbackLSNs' = rollbackLSNs \ {m}
                                /\ undoLSN' = m /\ undoXid' = log[m].xid
  BY Zenon DEF PopMaxVal
<1>2. /\ UNCHANGED <<log, flushed, trunc, mem, cache, disk, dirty>>
      /\ UNCHANGED <<xact, nta, ntaPrev, mode, cursor>>
      /\ mode = "undo" /\ upc' = "walk"
  BY Zenon DEF PopMaxVal, store
<1>3. m \in 1..Len(log) /\ Len(log) \in Nat /\ log \in Seq(Records)
  BY Zenon, Basics DEF IInv, TInv, TRestart
<1>4. log[m].xid \in Xids
  <2>1. log[m] \in Records
    BY Zenon, <1>3, ElementOfSeq
  <2>. QED
    BY Zenon, <2>1 DEF Records
<1>5. TXact' /\ TRestart'
  BY Zenon, <1>1, <1>2 DEF IInv, TInv, TXact, TRestart
<1>6. NewWalk
  BY <1>1, <1>2, <1>3, <1>4 DEF NewWalk
<1>7. Upto' = Upto /\ flushed' \in flushed..Len(log)
  BY <1>2, Basics DEF Upto
<1>. QED
  BY Zenon, <1>2, <1>5, <1>6, <1>7, QuietStep

(* A force only makes more of the log stable.                              *)
LEMMA ForceStep ==
  ASSUME IInv, ForceCommits \/ LogWriteback
  PROVE  IInv'
<1>1. /\ UNCHANGED <<log, trunc, mem, cache, disk, dirty, xact, nta, ntaPrev>>
      /\ UNCHANGED <<mode, cursor, rollbackLSNs, upc, undoLSN, undoXid>>
  BY Zenon DEF ForceCommits, LogWriteback, restart, walk
<1>2. flushed' \in flushed..Len(log)
  BY Basics DEF ForceCommits, LogWriteback
<1>3. TXact' /\ TRestart'
  BY Zenon, <1>1 DEF IInv, TInv, TXact, TRestart
<1>4. Upto' = Upto
  BY Zenon, <1>1 DEF Upto
<1>. QED
  BY Zenon, <1>1, <1>2, <1>3, <1>4, QuietStep

(* Analysis reads one record.                                              *)
LEMMA AnalyzeStep ==
  ASSUME IInv, Analyze
  PROVE  IInv'
<1>1. /\ UNCHANGED <<log, flushed, trunc, mem, cache, disk, dirty>>
      /\ UNCHANGED <<xact, nta, ntaPrev, mode, upc, undoLSN, undoXid>>
      /\ mode = "analysis" /\ cursor' = cursor + 1 /\ cursor <= Len(log)
      /\ rollbackLSNs' \subseteq rollbackLSNs \cup {cursor}
  BY Zenon DEF Analyze, store, walk
<1>2. Len(log) \in Nat /\ cursor \in Nat \ {0} /\ flushed' \in flushed..Len(log)
  BY <1>1, Basics DEF IInv, TInv, TRestart
<1>3. TXact' /\ TRestart'
  BY <1>1, <1>2 DEF IInv, TInv, TXact, TRestart
<1>4. Upto' = Upto
  BY Zenon, <1>1 DEF Upto
<1>. QED
  BY Zenon, <1>1, <1>2, <1>3, <1>4, QuietStep

(* Redo and recovery end with every record read.                           *)
LEMMA PhaseStep ==
  ASSUME IInv, RedoDone \/ RecoveryDone
  PROVE  IInv'
<1>1. /\ UNCHANGED <<log, flushed, trunc, mem, cache, disk, dirty>>
      /\ UNCHANGED <<xact, nta, ntaPrev, cursor, rollbackLSNs>>
      /\ UNCHANGED <<upc, undoLSN, undoXid>>
      /\ mode' \in {"undo", "run"}
  BY Zenon DEF RedoDone, RecoveryDone, store, walk
<1>2. Len(log) \in Nat /\ cursor \in Nat \ {0} /\ flushed' \in flushed..Len(log)
  BY <1>1, Basics DEF IInv, TInv, TRestart
<1>3. TXact' /\ TRestart'
  BY Zenon, <1>1 DEF IInv, TInv, TXact, TRestart
<1>4. \A l \in 1..Len(log) : l <= Upto' => l <= Upto
  BY <1>1, <1>2 DEF Upto, RedoDone, RecoveryDone
<1>5. upc = "idle"
  BY Zenon DEF RedoDone, RecoveryDone, IInv, WInv
<1>. QED
  BY Zenon, <1>1, <1>2, <1>3, <1>4, <1>5, QuietStep

(* Redo starts at the truncation point: what is before it, no page lacks.  *)
LEMMA AnalysisDoneStep ==
  ASSUME IInv, AnalysisDone
  PROVE  IInv'
<1>1. /\ UNCHANGED <<log, flushed, trunc, mem, cache, disk, dirty>>
      /\ UNCHANGED <<xact, nta, ntaPrev, rollbackLSNs>>
      /\ UNCHANGED <<upc, undoLSN, undoXid>>
      /\ mode = "analysis" /\ mode' = "redo" /\ cursor' = trunc
  BY Zenon DEF AnalysisDone, store, walk
<1>2. Len(log) \in Nat /\ trunc \in Nat \ {0}
  BY Zenon, Basics DEF IInv, TInv, TLog
<1>3. TInv'
  BY Zenon, <1>1, <1>2 DEF IInv, TInv, TXact, TRestart, TLog, TPage
<1>4. WInv' /\ LInv'
  BY ZenonT(30), <1>1 DEF IInv, WInv, LInv
<1>5. ASSUME NEW p \in Pages
      PROVE  PInv(p)'
  <2>1. PInv(p) /\ mem[p].lsn \in Nat
    BY Zenon DEF IInv, TInv, TPage, PageState
  <2>2. (Reflects(mem[p], p) /\ Reflects(cache[p], p) /\ Reflects(disk[p], p))'
    BY Zenon, <1>1, <2>1 DEF PInv, Reflects
  <2>3. (Keeps(mem[p], p) /\ Keeps(cache[p], p) /\ Keeps(disk[p], p))'
    BY Zenon, <1>1, <2>1 DEF PInv, Keeps
  <2>4. Upto' = trunc - 1
    BY Zenon, <1>1 DEF Upto
  <2>5. \A l \in 1..Len(log) : log[l].page = p /\ l <= trunc - 1 => l <= mem[p].lsn
    BY <2>1, <1>2 DEF PInv, Keeps
  <2>. QED
    BY Zenon, <1>1, <2>1, <2>2, <2>3, <2>4, <2>5 DEF PInv
<1>. QED
  BY Zenon, <1>3, <1>4, <1>5 DEF IInv

(* A write forces the log first, so what is written is stable.             *)
LEMMA WriteBackStep ==
  ASSUME IInv, NEW q \in Pages, WriteBack(q)
  PROVE  IInv'
<1>1. /\ UNCHANGED <<log, trunc, mem, disk, xact, nta, ntaPrev>>
      /\ UNCHANGED <<mode, cursor, rollbackLSNs, upc, undoLSN, undoXid>>
      /\ cache' = [cache EXCEPT ![q] = mem[q]]
      /\ dirty' = [dirty EXCEPT ![q] = -1]
      /\ flushed' = IF flushed < mem[q].lsn THEN Len(log) ELSE flushed
  BY Zenon DEF WriteBack, restart, walk, LogForce, INVALID_LSN
<1>2. /\ Len(log) \in Nat /\ flushed \in 0..Len(log) /\ TPage /\ PInv(q)
      /\ trunc \in Nat \ {0} /\ trunc - 1 <= flushed
  BY Zenon, Basics DEF IInv, TInv, TLog
<1>3. mem[q] \in PageState /\ mem[q].lsn \in Nat /\ mem[q].lsn <= Len(log)
  BY Zenon, <1>2 DEF TPage, PageState, PInv, Reflects
<1>4. flushed' \in flushed..Len(log) /\ mem[q].lsn <= flushed'
  <2>1. flushed' = IF flushed < mem[q].lsn THEN Len(log) ELSE flushed
    BY ONLY Zenon, <1>1
  <2>. QED
    BY ONLY <1>2, <1>3, <2>1
<1>5. TLog'
  <2>1. flushed' \in 0..Len(log) /\ flushed <= flushed' /\ flushed' \in Nat
    BY <1>2, <1>4
  <2>2. trunc - 1 <= flushed'
    BY <1>2, <2>1
  <2>. QED
    BY Zenon, <1>1, <1>2, <2>1, <2>2 DEF IInv, TInv, TLog
<1>6. TPage'
  BY Zenon, <1>1, <1>2, <1>3 DEF TPage
<1>7. (TXact /\ TRestart /\ WInv /\ LInv)'
  BY Zenon, <1>1, SameTables
<1>8. ASSUME NEW p \in Pages
      PROVE  PInv(p)'
  <2>1. PInv(p) /\ cache[p].lsn \in Nat /\ disk[p].lsn \in Nat /\ mem[p].lsn \in Nat
    BY Zenon, <1>2 DEF IInv, TPage, PageState
  <2>2. Upto' = Upto
    BY Zenon, <1>1 DEF Upto
  <2>3. cache[p].lsn <= flushed' /\ disk[p].lsn <= flushed'
    <3>1. cache[p].lsn <= flushed /\ disk[p].lsn <= flushed
      BY ONLY Zenon, <2>1 DEF PInv
    <3>. QED
      BY ONLY <1>2, <1>4, <2>1, <3>1
  <2>4. CASE p = q
    <3>1. cache'[p] = mem[p] /\ dirty'[p] = -1
      BY ONLY <1>1, <1>2, <2>4 DEF TPage
    <3>2. (Reflects(mem[p], p) /\ Reflects(cache[p], p) /\ Reflects(disk[p], p))'
      <4>1. log' = log /\ mem' = mem /\ disk' = disk
        BY ONLY Zenon, <1>1
      <4>. QED
        BY ONLY <2>1, <3>1, <4>1 DEF PInv, Reflects
    <3>3. (Keeps(mem[p], p) /\ Keeps(cache[p], p) /\ Keeps(disk[p], p))'
      BY Zenon, <1>1, <2>1, <3>1 DEF PInv, Keeps
    <3>4. mem[p].lsn <= flushed' /\ -1 <= mem[p].lsn
      <4>1. mem[p].lsn <= flushed'
        BY ONLY Zenon, <1>4, <2>4
      <4>2. mem[p].lsn \in Nat
        BY ONLY Zenon, <2>1
      <4>. QED
        BY ONLY <4>1, <4>2
    <3>. QED
      <4>1. log' = log /\ mem' = mem /\ disk' = disk
        BY ONLY Zenon, <1>1
      <4>2. (\A l \in 1..Len(log) : log[l].page = p /\ l <= Upto => l <= mem[p].lsn)'
        BY ONLY <2>1, <2>2, <4>1 DEF PInv
      <4>3. (cache[p].lsn <= flushed /\ disk[p].lsn <= flushed)'
        BY ONLY <2>3, <3>1, <3>4, <4>1
      <4>4. (dirty[p] <= mem[p].lsn)'
        BY ONLY <3>1, <3>4, <4>1
      <4>5. (\A l \in 1..Len(log) : log[l].page = p /\ l > cache[p].lsn /\ l <= mem[p].lsn
                                    => dirty[p] # -1 /\ dirty[p] <= l)'
        BY ONLY <2>1, <3>1, <3>4, <4>1
      <4> QED
        BY ONLY Zenon, <3>2, <3>3, <4>2, <4>3, <4>4, <4>5 DEF PInv
  <2>5. CASE p # q
    <3>1. cache'[p] = cache[p] /\ dirty'[p] = dirty[p]
      BY ONLY SMTT(30), <1>1, <1>2, <2>5 DEF TPage
    <3>2. (Reflects(mem[p], p) /\ Reflects(cache[p], p) /\ Reflects(disk[p], p))'
      <4>1. log' = log /\ mem' = mem /\ disk' = disk
        BY ONLY Zenon, <1>1
      <4>. QED
        BY ONLY <2>1, <3>1, <4>1 DEF PInv, Reflects
    <3>3. (Keeps(mem[p], p) /\ Keeps(cache[p], p) /\ Keeps(disk[p], p))'
      BY Zenon, <1>1, <2>1, <3>1 DEF PInv, Keeps
    <3>. QED
      BY Zenon, <1>1, <2>1, <2>2, <2>3, <3>1, <3>2, <3>3 DEF PInv
  <2>. QED
    BY Zenon, <2>4, <2>5
<1>. QED
  BY Zenon, <1>5, <1>6, <1>7, <1>8 DEF IInv, TInv

(* Truncation stops at the oldest record that a written page lacks.        *)
LEMMA TruncateStep ==
  ASSUME IInv, Truncate
  PROVE  IInv'
<1>1. /\ UNCHANGED <<log, mem, cache, dirty, xact, nta, ntaPrev>>
      /\ UNCHANGED <<mode, cursor, rollbackLSNs, upc, undoLSN, undoXid>>
      /\ mode = "run" /\ disk' = cache
  BY Zenon DEF Truncate, ForcePages, restart, walk
<1>2. PICK t \in Needed \ {-1} : /\ \A n \in Needed : n = -1 \/ t <= n
                                 /\ t > trunc /\ LogTruncate(t)
  BY Zenon DEF Truncate, INVALID_LSN
<1>3. /\ Len(log) \in Nat /\ flushed \in 0..Len(log) /\ TPage /\ TXact
      /\ trunc \in Nat \ {0}
  BY Zenon, Basics DEF IInv, TInv, TLog
<1>4. t \in Int /\ t <= flushed + 1 /\ \A p \in Pages : dirty[p] = -1 \/ t <= dirty[p]
  <2>1. \A n \in Needed : n \in Int
    BY <1>3 DEF Needed, TPage, TXact, Slots
  <2>2. flushed + 1 \in Needed /\ flushed + 1 # -1
    BY <1>3 DEF Needed
  <2>3. \A p \in Pages : dirty[p] \in Needed
    BY Zenon DEF Needed
  <2>. QED
    BY Zenon, <1>2, <2>1, <2>2, <2>3
<1>5. trunc' \in Nat \ {0} /\ trunc' <= t /\ flushed' \in flushed..Len(log)
  BY <1>2, <1>3, <1>4 DEF LogTruncate
<1>6. TLog'
  <2>1. flushed' \in 0..Len(log) /\ flushed <= flushed' /\ flushed' \in Nat
    BY <1>3, <1>5
  <2>2. \A a, b, c, d \in Int : a <= b /\ b <= c + 1 /\ c <= d => a - 1 <= d
    OBVIOUS
  <2>3. trunc' - 1 <= flushed'
    <3>1. trunc' \in Int /\ t \in Int /\ flushed \in Int /\ flushed' \in Int
      BY <1>3, <1>4, <1>5
    <3>. QED
      BY ONLY ZenonT(30), <3>1, <2>1, <1>4, <1>5, <2>2
  <2>. QED
    BY ZenonT(30), <1>1, <1>5, <2>1, <2>3 DEF IInv, TInv, TLog
<1>7. (TPage /\ TXact /\ TRestart /\ WInv /\ LInv)'
  <2>1. TPage'
    BY Zenon, <1>1 DEF IInv, TInv, TPage
  <2>2. (TXact /\ TRestart /\ WInv /\ LInv)'
    BY Zenon, <1>1, SameTables
  <2>. QED
    BY ONLY Zenon, <2>1, <2>2
<1>8. ASSUME NEW p \in Pages
      PROVE  PInv(p)'
  <2>1. PInv(p) /\ cache[p].lsn \in Nat /\ mem[p].lsn \in Nat /\ dirty[p] \in Int
    BY <1>3 DEF IInv, TPage, PageState
  <2>2. Upto' = Upto /\ Upto = Len(log)
    BY Zenon, <1>1 DEF Upto
  <2>3. cache[p].lsn <= flushed'
    <3>1. cache[p].lsn <= flushed
      BY ONLY Zenon, <2>1 DEF PInv
    <3>. QED
      BY ONLY <1>3, <1>5, <2>1, <3>1
  <2>a. /\ \A l \in 1..Len(log) : log[l].page = p /\ l <= Upto => l <= mem[p].lsn
        /\ \A l \in 1..Len(log) : log[l].page = p /\ l > cache[p].lsn /\ l <= mem[p].lsn
                                 => dirty[p] # -1 /\ dirty[p] <= l
    BY ONLY Zenon, <2>1 DEF PInv
  <2>4. \A l \in 1..Len(log) : log[l].page = p => l <= mem[p].lsn
    <3>1. \A l \in 1..Len(log) : l <= Upto
      BY ONLY <1>3, <2>2
    <3>. QED
      BY ONLY Zenon, <2>a, <3>1
  <2>5. Keeps(mem[p], p)'
    <3>1. log' = log /\ mem' = mem
      BY ONLY Zenon, <1>1
    <3>. QED
      BY ONLY <1>3, <2>1, <2>4, <3>1 DEF Keeps
  <2>6. \A l \in 1..Len(log) : log[l].page = p /\ l > cache[p].lsn => l >= trunc'
    BY ONLY <1>3, <1>4, <1>5, <2>1, <2>a, <2>4
  <2>7. Keeps(cache[p], p)' /\ Keeps(disk[p], p)'
    BY Zenon, <1>1, <2>6 DEF Keeps
  <2>8. (Reflects(mem[p], p) /\ Reflects(cache[p], p) /\ Reflects(disk[p], p))'
    BY Zenon, <1>1, <2>1 DEF PInv, Reflects
  <2>. QED
    BY Zenon, <1>1, <2>1, <2>2, <2>3, <2>5, <2>7, <2>8 DEF PInv
<1>. QED
  BY Zenon, <1>6, <1>7, <1>8 DEF IInv, TInv

(* The log loses a tail; the versions of pages that stay are older.        *)
Cut ==
  /\ log' \in Seq(Records)
  /\ Len(log') \in Nat /\ Len(log) \in Nat /\ Len(log') <= Len(log)
  /\ \A i \in 1..Len(log') : log'[i] = log[i]
  /\ flushed <= Len(log') /\ flushed' = Len(log')

(* What a version of a page reflects and lacks is the same in a shorter    *)
(* log that still covers it.                                               *)
LEMMA CutVersion ==
  ASSUME Cut, NEW p, NEW v \in PageState, v.lsn <= Len(log'),
         Reflects(v, p), Keeps(v, p)
  PROVE  /\ v.applied = Effect(log', p, v.lsn)
         /\ \A l \in 1..Len(log') : log'[l].page = p /\ l > v.lsn => l >= trunc
<1>1. v.lsn \in Nat /\ \A i \in 1..v.lsn : log'[i] = log[i]
  <2>1. v.lsn \in Nat /\ v.lsn <= Len(log')
    BY Zenon DEF PageState
  <2>2. Len(log') \in Nat /\ \A i \in 1..Len(log') : log'[i] = log[i]
    BY Zenon DEF Cut
  <2> QED
    BY ONLY <2>1, <2>2
<1>2. ASSUME NEW n \in Nat, \A i \in 1..n : log'[i] = log[i]
      PROVE  Effect(log', p, n) = Effect(log, p, n)
  BY ZenonT(30), <1>2, EffectPrefix
<1>3. Effect(log', p, v.lsn) = Effect(log, p, v.lsn)
  BY Zenon, <1>1, <1>2
<1>. QED
  BY <1>3 DEF Reflects, Keeps, Cut

(* Reopening the store keeps the invariant: the pages are versions that it *)
(* had, covered by the log that is left, and restart has done nothing yet. *)
LEMMA Reopened ==
  ASSUME IInv, Cut, Reopen,
         cache' \in [Pages -> PageState], disk' \in [Pages -> PageState],
         \A p \in Pages : /\ cache'[p] \in {mem[p], cache[p], disk[p]}
                          /\ disk'[p] \in {mem[p], cache[p], disk[p]}
                          /\ cache'[p].lsn <= Len(log')
                          /\ disk'[p].lsn <= Len(log')
  PROVE  IInv'
<1>1. /\ trunc' = trunc /\ mem' = cache' /\ dirty' = [p \in Pages |-> -1]
      /\ xact' = [x \in Xids |-> FreeSlot]
      /\ nta' = [x \in Xids |-> -1] /\ ntaPrev' = [x \in Xids |-> -1]
      /\ mode' = "analysis" /\ cursor' = trunc /\ rollbackLSNs' = {}
      /\ upc' = "idle" /\ undoLSN' = -1
  BY Zenon DEF Reopen, INVALID_LSN
<1>2. flushed \in Nat /\ trunc \in Nat \ {0} /\ trunc - 1 <= flushed
  BY Basics DEF IInv, TInv, TLog
<1>3. /\ log' \in Seq(Records) /\ Len(log') \in Nat /\ flushed <= Len(log')
      /\ flushed' = Len(log')
  BY Zenon DEF Cut
<1>4. TLog'
  <2>1. trunc - 1 <= Len(log')
    BY <1>2, <1>3
  <2>. QED
    BY <1>1, <1>2, <1>3, <2>1 DEF TLog
<1>5. TPage'
  BY Zenon, <1>1 DEF TPage
<1>6. TXact'
  <2>1. FreeSlot \in Slots /\ FreeSlot.prevLSN = -1
    BY DEF FreeSlot, Slots, INVALID_LSN
  <2>2. -1 <= Len(log')
    BY <1>3
  <2>. QED
    BY <1>1, <2>1, <2>2 DEF TXact
<1>7. TRestart' /\ WInv'
  BY <1>1, <1>2, <1>3 DEF TRestart, WInv
<1>8. LInv'
  <2>a. /\ Len(log') \in Nat /\ Len(log) \in Nat /\ Len(log') <= Len(log)
        /\ \A i \in 1..Len(log') : log'[i] = log[i]
    BY Zenon DEF Cut
  <2>b. LInv
    BY Zenon DEF IInv
  <2>1. \A l \in 1..Len(log') : l \in 1..Len(log) /\ log'[l] = log[l]
    BY ONLY <2>a
  <2>2. \A l \in 1..Len(log') : \A c \in 1..(l - 1) : log'[c] = log[c]
    BY ONLY <2>a
  <2>. QED
    BY ONLY <2>b, <2>1, <2>2 DEF LInv
<1>9. ASSUME NEW p \in Pages
      PROVE  PInv(p)'
  <2>1. PInv(p) /\ TPage
    BY Zenon DEF IInv, TInv
  <2>2. ASSUME NEW v \in {mem[p], cache[p], disk[p]}
        PROVE  v \in PageState /\ Reflects(v, p) /\ Keeps(v, p)
    BY Zenon, <2>1 DEF PInv, TPage
  <2>3. /\ cache'[p] \in PageState /\ Reflects(cache'[p], p) /\ Keeps(cache'[p], p)
        /\ disk'[p] \in PageState /\ Reflects(disk'[p], p) /\ Keeps(disk'[p], p)
    BY Zenon, <2>2
  <2>4. (Reflects(cache[p], p) /\ Keeps(cache[p], p))'
    BY ZenonT(30), <1>1, <2>3, CutVersion DEF Reflects, Keeps
  <2>5. (Reflects(disk[p], p) /\ Keeps(disk[p], p))'
    BY ZenonT(30), <1>1, <2>3, CutVersion DEF Reflects, Keeps
  <2>6. (Reflects(mem[p], p) /\ Keeps(mem[p], p))'
    BY Zenon, <1>1, <2>4 DEF Reflects, Keeps
  <2>7. Upto' = 0 /\ dirty'[p] = -1 /\ mem'[p] = cache'[p] /\ cache'[p].lsn \in Nat
    BY Zenon, <1>1, <2>3 DEF Upto, PageState
  <2>8. cache'[p].lsn <= flushed' /\ disk'[p].lsn <= flushed'
    BY Zenon, <1>3
  <2>9. /\ \A l \in 1..Len(log') : ~(l <= Upto')
        /\ \A l \in 1..Len(log') : ~(l > cache'[p].lsn /\ l <= mem'[p].lsn)
        /\ dirty'[p] <= mem'[p].lsn
    BY ONLY <1>3, <2>7
  <2>. QED
    BY ONLY Zenon, <2>4, <2>5, <2>6, <2>8, <2>9 DEF PInv
<1>. QED
  BY Zenon, <1>4, <1>5, <1>6, <1>7, <1>8, <1>9 DEF IInv, TInv

(* A crash loses records that no written page shows.                       *)
LEMMA CrashStep ==
  ASSUME IInv, Crash
  PROVE  IInv'
<1>1. PICK n \in flushed..Len(log) : log' = SubSeq(log, 1, n) /\ flushed' = n
  BY Zenon DEF Crash
<1>2. PICK lost \in SUBSET Pages :
        disk' = [p \in Pages |-> IF p \in lost THEN disk[p] ELSE cache[p]]
  BY ZenonT(30) DEF Crash
<1>3. log \in Seq(Records) /\ Len(log) \in Nat /\ flushed \in 0..Len(log) /\ TPage
  BY Zenon, Basics DEF IInv, TInv, TLog
<1>4. Cut
  <2>1. n \in Nat /\ n <= Len(log) /\ flushed <= n
    BY <1>1, <1>3
  <2>2. \A i \in 1..n : log[i] \in Records
    BY <1>3, <2>1, ElementOfSeq
  <2>3. SubSeq(log, 1, n) = [i \in 1..n |-> log[i]]
    BY <1>3, <2>1
  <2>4. SubSeq(log, 1, n) \in Seq(Records) /\ Len(SubSeq(log, 1, n)) = n
    BY <2>1, <2>2, <2>3, <1>3
  <2>. QED
    BY Zenon, <1>1, <1>3, <2>1, <2>3, <2>4 DEF Cut
<1>5. cache' = disk' /\ disk' \in [Pages -> PageState]
  BY Zenon, <1>2, <1>3 DEF Crash, TPage
<1>6. ASSUME NEW p \in Pages
      PROVE  disk'[p] \in {mem[p], cache[p], disk[p]} /\ disk'[p].lsn <= Len(log')
  <2>1. disk[p].lsn \in Nat /\ cache[p].lsn \in Nat
    BY Zenon, <1>3 DEF TPage, PageState
  <2>2. disk[p].lsn <= flushed /\ cache[p].lsn <= flushed
    BY Zenon DEF IInv, PInv
  <2>3. disk'[p] = disk[p] \/ disk'[p] = cache[p]
    BY Zenon, <1>2
  <2>. QED
    BY <1>3, <1>4, <2>1, <2>2, <2>3 DEF Cut
<1>7. Reopen
  BY Zenon DEF Crash
<1>. QED
  BY Zenon, <1>4, <1>5, <1>6, <1>7, Reopened

(* A clean shutdown writes what is dirty and forces the log.               *)
LEMMA DeinitStep ==
  ASSUME IInv, Deinit
  PROVE  IInv'
<1>1. /\ log' = log /\ flushed' = Len(log) /\ disk' = disk /\ Reopen
      /\ cache' = [p \in Pages |-> IF dirty[p] = -1 THEN cache[p] ELSE mem[p]]
  BY Zenon DEF Deinit, INVALID_LSN
<1>2. log \in Seq(Records) /\ Len(log) \in Nat /\ flushed \in 0..Len(log) /\ TPage
  BY Zenon, Basics DEF IInv, TInv, TLog
<1>3. Cut
  BY <1>1, <1>2 DEF Cut
<1>4. cache' \in [Pages -> PageState] /\ disk' \in [Pages -> PageState]
  BY SMTT(30), <1>1, <1>2 DEF TPage
<1>5. ASSUME NEW p \in Pages
      PROVE  /\ cache'[p] \in {mem[p], cache[p], disk[p]}
             /\ disk'[p] \in {mem[p], cache[p], disk[p]}
             /\ cache'[p].lsn <= Len(log') /\ disk'[p].lsn <= Len(log')
  BY Zenon, <1>1 DEF IInv, PInv, Reflects
<1>. QED
  BY Zenon, <1>1, <1>3, <1>4, <1>5, Reopened

(***************************************************************************)
(* Redo keeps the invariant: it brings a page from the point where it was  *)
(* written to the end of the log, and skips what the page already shows.   *)
(***************************************************************************)

(* The record that redo reads is in the log.                               *)
LEMMA RedoBasics ==
  ASSUME IInv, mode = "redo", cursor <= Len(log)
  PROVE  /\ TPage /\ LInv /\ log \in Seq(Records) /\ Len(log) \in Nat
         /\ cursor \in Nat \ {0} /\ cursor \in 1..Len(log)
<1>1. TPage /\ TRestart /\ LInv
  BY Zenon DEF IInv, TInv
<1>2. cursor \in Nat \ {0} /\ cursor <= Len(log)
  BY Zenon, <1>1 DEF TRestart
<1>3. log \in Seq(Records) /\ Len(log) \in Nat
  BY Zenon, Basics
<1>4. cursor \in 1..Len(log)
  BY ONLY <1>2, <1>3
<1> QED
  BY ONLY <1>1, <1>2, <1>3, <1>4

(* Redo of a record that the page lacks: the page then shows the log up to *)
(* that record.                                                            *)
LEMMA RedoEffect ==
  ASSUME IInv, mode = "redo", cursor <= Len(log), NEW q \in Pages,
         log[cursor].page = q, mem[q].lsn < cursor
  PROVE  /\ log[cursor].type = "UPDATELOG" =>
              mem[q].applied \cup {cursor} = Effect(log, q, cursor)
         /\ log[cursor].type = "CLRLOG" =>
              mem[q].applied \ {log[cursor].comp} = Effect(log, q, cursor)
<1>. DEFINE n == cursor - 1
<1>1. /\ cursor \in Nat \ {0} /\ n \in Nat /\ cursor = n + 1 /\ Len(log) \in Nat
      /\ LInv /\ PInv(q) /\ q # NoPage /\ cursor \in 1..Len(log)
  <2>1. LInv /\ cursor \in Nat \ {0} /\ Len(log) \in Nat /\ cursor \in 1..Len(log)
    BY Zenon, RedoBasics
  <2>2. PInv(q)
    BY Zenon DEF IInv
  <2>3. n \in Nat /\ cursor = n + 1
    BY ONLY <2>1
  <2>4. q # NoPage
    BY Zenon, PageAssumption
  <2> QED
    BY ONLY <2>1, <2>2, <2>3, <2>4
<1>2. mem[q].lsn \in Nat /\ mem[q].lsn <= n
      /\ mem[q].applied = Effect(log, q, mem[q].lsn)
  BY SMTT(30), <1>1 DEF IInv, TInv, TPage, PageState, PInv, Reflects
<1>3. \A l \in (mem[q].lsn + 1)..n : log[l].page # q
  <2>1. Upto = n
    BY Zenon DEF Upto
  <2>2. \A l \in 1..Len(log) : log[l].page = q /\ l <= n => l <= mem[q].lsn
    BY Zenon, <1>1, <2>1 DEF PInv
  <2> HIDE DEF n
  <2> QED
    BY ONLY <1>1, <1>2, <2>2
<1>4. \A l \in 1..n : log[l].type = "CLRLOG" /\ log[l].comp \in 1..n =>
                        log[log[l].comp].page = log[l].page
  BY SMTT(30), <1>1 DEF LInv
<1>. HIDE DEF n
<1>5. mem[q].applied = Effect(log, q, n)
  <2>1. Effect(log, q, mem[q].lsn) = Effect(log, q, n)
    BY ONLY SMTT(20), <1>1, <1>2, <1>3, <1>4, EffectSkip
  <2>. QED
    BY Zenon, <1>2, <2>1
<1>6. log[n + 1].type = "UPDATELOG" =>
        Effect(log, q, n + 1) = Effect(log, q, n) \cup {n + 1}
  BY ZenonT(30), <1>1, EffectUpdate
<1>7. log[n + 1].type = "CLRLOG" => log[n + 1].comp \in 1..n
  BY Zenon, <1>1 DEF LInv, n
<1>8. log[n + 1].type = "CLRLOG" =>
        Effect(log, q, n + 1) = Effect(log, q, n) \ {log[n + 1].comp}
  BY ZenonT(30), <1>1, <1>7, EffectCLR
<1>. QED
  BY Zenon, <1>1, <1>5, <1>6, <1>8

(* The pages, when redo applies a record to page q.                        *)
LEMMA RedoPages ==
  ASSUME NEW q \in Pages, NEW S
  PROVE  /\ IInv /\ mode = "redo" /\ cursor <= Len(log)
         /\ log[cursor].page = q /\ mem[q].lsn < cursor
         /\ S = Effect(log, q, cursor)
         /\ mem' = [mem EXCEPT ![q] = [lsn |-> cursor, applied |-> S]]
         /\ MarkDirty(q, cursor) /\ mode' = mode /\ cursor' = cursor + 1
         /\ UNCHANGED <<log, flushed, trunc, cache, disk>>
         => TPage' /\ \A p \in Pages : PInv(p)'
<1>a. SUFFICES ASSUME IInv, mode = "redo", cursor <= Len(log),
                      log[cursor].page = q, mem[q].lsn < cursor,
                      S = Effect(log, q, cursor),
                      mem' = [mem EXCEPT ![q] = [lsn |-> cursor, applied |-> S]],
                      MarkDirty(q, cursor), mode' = mode, cursor' = cursor + 1,
                      UNCHANGED <<log, flushed, trunc, cache, disk>>
               PROVE  TPage' /\ \A p \in Pages : PInv(p)'
  OBVIOUS
<1>b. /\ log' = log /\ flushed' = flushed /\ trunc' = trunc
      /\ cache' = cache /\ disk' = disk
  BY Zenon, <1>a
<1>c. mem' = [mem EXCEPT ![q] = [lsn |-> cursor, applied |-> S]]
  BY Zenon, <1>a
<1>d. dirty' = IF dirty[q] = -1 THEN [dirty EXCEPT ![q] = cursor] ELSE dirty
  BY Zenon, <1>a DEF MarkDirty, INVALID_LSN
<1>e. log[cursor].page = q /\ mem[q].lsn < cursor /\ S = Effect(log, q, cursor)
  BY Zenon, <1>a
<1>f. mode = "redo" /\ mode' = "redo" /\ cursor' = cursor + 1
  BY Zenon, <1>a
<1>1. cursor \in 1..Len(log) /\ Len(log) \in Nat /\ TPage
  BY Zenon, <1>a, RedoBasics
<1>2. S \subseteq Nat
  BY <1>e, <1>1 DEF Effect
<1>3. [lsn |-> cursor, applied |-> S] \in PageState
  BY <1>1, <1>2 DEF PageState
<1>4. TPage'
  <2> DEFINE v == [lsn |-> cursor, applied |-> S]
  <2>1. v \in PageState /\ mem' = [mem EXCEPT ![q] = v]
    BY Zenon, <1>3, <1>c
  <2> HIDE DEF v
  <2>2. mem' \in [Pages -> PageState]
    BY Zenon, <1>1, <2>1 DEF TPage
  <2>3. dirty' \in [Pages -> {-1} \cup 1..Len(log)]
    BY Zenon, <1>1, <1>d DEF TPage
  <2> QED
    BY Zenon, <1>1, <1>b, <2>2, <2>3 DEF TPage
<1>5. ASSUME NEW p \in Pages
      PROVE  PInv(p)'
  <2>a. PInv(p)
    BY Zenon, <1>a DEF IInv
  <2>1. mem[p].lsn \in Nat /\ cache[p].lsn \in Nat /\ dirty[p] \in Int
    BY <1>1 DEF TPage, PageState
  <2>2. Upto' = cursor /\ Upto = cursor - 1
    BY <1>f, <1>1 DEF Upto
  <2>3. (Reflects(cache[p], p) /\ Reflects(disk[p], p))'
    BY Zenon, <1>b, <2>a DEF PInv, Reflects
  <2>4. (Keeps(cache[p], p) /\ Keeps(disk[p], p))'
    BY Zenon, <1>b, <2>a DEF PInv, Keeps
  <2>5. (cache[p].lsn <= flushed /\ disk[p].lsn <= flushed)'
    BY Zenon, <1>b, <2>a DEF PInv
  <2>b. dirty[p] <= mem[p].lsn
    BY Zenon, <2>a DEF PInv
  <2>c. \A l \in 1..Len(log) : log[l].page = p /\ l <= cursor - 1 => l <= mem[p].lsn
    BY Zenon, <2>a, <2>2 DEF PInv
  <2>d. \A l \in 1..Len(log) : log[l].page = p /\ l > cache[p].lsn /\ l <= mem[p].lsn
                               => dirty[p] # -1 /\ dirty[p] <= l
    BY Zenon, <2>a DEF PInv
  <2>6. CASE p = q
    <3>1. mem'[p].lsn = cursor /\ mem'[p].applied = S
      BY Zenon, <1>1, <1>c, <2>6 DEF TPage
    <3>2. dirty'[p] = IF dirty[p] = -1 THEN cursor ELSE dirty[p]
      BY Zenon, <1>1, <1>d, <2>6 DEF TPage
    <3>3. Reflects(mem[p], p)'
      <4>1. cursor <= Len(log)
        BY <1>1
      <4> QED
        BY Zenon, <1>b, <1>e, <2>6, <3>1, <4>1 DEF Reflects
    <3>4. Keeps(mem[p], p)'
      <4>1. Keeps(mem[p], p)
        BY Zenon, <2>a DEF PInv
      <4> QED
        BY <1>b, <1>e, <1>1, <2>1, <2>6, <3>1, <4>1 DEF Keeps
    <3>5. dirty'[p] <= mem'[p].lsn
      BY SMTT(30), <1>e, <1>1, <2>1, <2>b, <2>6, <3>1, <3>2
    <3>6. \A l \in 1..Len(log) : log[l].page = p /\ l > cache[p].lsn /\ l <= cursor
                               => dirty'[p] # -1 /\ dirty'[p] <= l
      <4>1. SUFFICES ASSUME NEW l \in 1..Len(log), log[l].page = p,
                            l > cache[p].lsn, l <= cursor
                     PROVE  dirty'[p] # -1 /\ dirty'[p] <= l
        OBVIOUS
      <4>2. l \in Nat /\ cursor \in Nat \ {0}
        BY <1>1
      <4>3. CASE l = cursor
        <5>1. dirty[p] <= cursor
          BY <1>e, <2>1, <2>b, <2>6, <4>2
        <5> QED
          BY <2>1, <3>2, <4>2, <4>3, <5>1
      <4>4. CASE l # cursor
        <5>1. l <= mem[p].lsn
          BY <2>c, <4>1, <4>2, <4>4
        <5>2. dirty[p] # -1 /\ dirty[p] <= l
          BY Zenon, <2>d, <4>1, <5>1
        <5> QED
          BY Zenon, <3>2, <5>2
      <4> QED
        BY Zenon, <4>3, <4>4
    <3>7. (\A l \in 1..Len(log) : log[l].page = p /\ l <= Upto => l <= mem[p].lsn)'
      BY Zenon, <2>2, <3>1
    <3>8. (\A l \in 1..Len(log) : log[l].page = p /\ l > cache[p].lsn /\ l <= mem[p].lsn
                                  => dirty[p] # -1 /\ dirty[p] <= l)'
      BY Zenon, <1>b, <3>1, <3>6
    <3> QED
      BY ZenonT(30), <2>3, <2>4, <2>5, <3>3, <3>4, <3>5, <3>7, <3>8 DEF PInv
  <2>7. CASE p # q
    <3>1. mem'[p] = mem[p] /\ dirty'[p] = dirty[p]
      BY Zenon, <1>1, <1>c, <1>d, <2>7 DEF TPage
    <3>2. Reflects(mem[p], p)' /\ Keeps(mem[p], p)'
      BY Zenon, <1>b, <2>a, <3>1 DEF Reflects, Keeps, PInv
    <3>3. \A l \in 1..Len(log) : log[l].page = p /\ l <= cursor => l <= mem[p].lsn
      <4>1. \A l \in 1..Len(log) : log[l].page = p /\ l <= cursor => l <= cursor - 1
        BY <1>e, <1>1, <2>7
      <4> QED
        BY Zenon, <2>c, <4>1
    <3>4. (\A l \in 1..Len(log) : log[l].page = p /\ l <= Upto => l <= mem[p].lsn)'
      BY Zenon, <1>b, <2>2, <3>1, <3>3
    <3>5. (\A l \in 1..Len(log) : log[l].page = p /\ l > cache[p].lsn /\ l <= mem[p].lsn
                                  => dirty[p] # -1 /\ dirty[p] <= l)'
      BY Zenon, <1>b, <2>d, <3>1
    <3>6. (dirty[p] <= mem[p].lsn)'
      BY Zenon, <2>b, <3>1
    <3> QED
      BY ZenonT(30), <2>3, <2>4, <2>5, <3>2, <3>4, <3>5, <3>6 DEF PInv
  <2> QED
    BY Zenon, <2>6, <2>7
<1> QED
  BY Zenon, <1>4, <1>5

(* The pages, when redo finds nothing to do.                               *)
LEMMA RedoNothing ==
  ASSUME IInv, mode = "redo", cursor <= Len(log),
         \A p \in Pages : log[cursor].page = p => mem[p].lsn >= cursor,
         mode' = mode, cursor' = cursor + 1,
         UNCHANGED <<log, flushed, trunc, mem, cache, disk, dirty>>
  PROVE  TPage' /\ \A p \in Pages : PInv(p)'
<1>1. cursor \in 1..Len(log) /\ Len(log) \in Nat /\ TPage
  BY Zenon, RedoBasics
<1>2. TPage'
  BY SMTT(30), <1>1 DEF TPage
<1>3. Upto' = cursor /\ Upto = cursor - 1
  BY SMTT(30), <1>1 DEF Upto
<1>4. ASSUME NEW p \in Pages
      PROVE  PInv(p)'
  <2>1. PInv(p)
    BY Zenon DEF IInv
  <2>2. mem[p].lsn \in Nat
    BY Zenon, <1>1 DEF TPage, PageState
  <2>3. \A l \in 1..Len(log) : log[l].page = p /\ l <= cursor - 1 => l <= mem[p].lsn
    BY Zenon, <1>3, <2>1 DEF PInv
  <2>4. (\A l \in 1..Len(log) : log[l].page = p /\ l <= Upto => l <= mem[p].lsn)'
    BY <1>1, <1>3, <2>2, <2>3
  <2>5. (Reflects(mem[p], p) /\ Reflects(cache[p], p) /\ Reflects(disk[p], p))'
    BY Zenon, <2>1 DEF PInv, Reflects
  <2>6. (Keeps(mem[p], p) /\ Keeps(cache[p], p) /\ Keeps(disk[p], p))'
    BY Zenon, <2>1 DEF PInv, Keeps
  <2> QED
    BY Zenon, <2>1, <2>4, <2>5, <2>6 DEF PInv
<1> QED
  BY Zenon, <1>2, <1>4

(* Redo reads one record.                                                  *)
LEMMA RedoStep ==
  ASSUME IInv, Redo
  PROVE  IInv'
<1>. DEFINE e == log[cursor]
<1>1. /\ mode = "redo" /\ cursor <= Len(log) /\ RedoRecord(e)
      /\ xact' = [xact EXCEPT ![e.xid] = FreeSlot] \/ RollForward(e.xid, cursor)
      /\ cursor' = cursor + 1 /\ mode' = mode
      /\ UNCHANGED <<log, flushed, trunc, cache, disk>>
      /\ UNCHANGED <<nta, ntaPrev, rollbackLSNs, upc, undoLSN, undoXid>>
  BY Zenon DEF Redo, walk
<1>2. cursor \in 1..Len(log) /\ Len(log) \in Nat /\ log \in Seq(Records)
      /\ cursor \in Int
  <2>1. cursor \in 1..Len(log) /\ Len(log) \in Nat /\ log \in Seq(Records)
    BY Zenon, <1>1, RedoBasics
  <2> QED
    BY ONLY <2>1
<1>3. e \in Records
  BY Zenon, <1>2, ElementOfSeq
<1>4. e.xid \in Xids /\ e.type \in Types /\ e.page \in Pages \cup {NoPage}
  BY Zenon, <1>3 DEF Records
<1>5. TXact'
  <2>1. CASE RollForward(e.xid, cursor)
    BY <1>1, <1>2, <1>4, <2>1, RollForwardOK
  <2>2. CASE xact' = [xact EXCEPT ![e.xid] = FreeSlot]
    <3>1. FreeSlot \in Slots /\ FreeSlot.prevLSN <= Len(log')
      BY <1>1, <1>2 DEF FreeSlot, Slots, INVALID_LSN
    <3>2. TXact /\ nta' \in [Xids -> Int]
      BY Zenon, <1>1, Basics DEF TXact
    <3>3. Len(log') \in Nat /\ Len(log) <= Len(log')
      BY SMTT(30), <1>1, <1>2
    <3>. QED
      BY ZenonT(30), <1>1, <1>2, <1>4, <2>2, <3>1, <3>2, <3>3, SetSlot
  <2>. QED
    BY Zenon, <1>1, <2>1, <2>2
<1>6. TRestart' /\ TLog' /\ LInv' /\ WInv'
  <2>1. TRestart /\ TLog /\ LInv /\ WInv
    BY Zenon DEF IInv, TInv
  <2>2. log' = log /\ flushed' = flushed /\ trunc' = trunc /\ mode' = mode
    BY Zenon, <1>1
  <2>3. upc' = upc /\ undoLSN' = undoLSN /\ undoXid' = undoXid /\ rollbackLSNs' = rollbackLSNs
    BY Zenon, <1>1
  <2>4. TLog' /\ LInv'
    BY ONLY <2>1, <2>2 DEF TLog, LInv
  <2>5. WInv'
    BY ONLY <2>1, <2>2, <2>3 DEF WInv
  <2>6. TRestart'
    BY ONLY <1>1, <1>2, <2>1, <2>2, <2>3 DEF TRestart
  <2> QED
    BY ONLY <2>4, <2>5, <2>6
<1>7. TPage' /\ \A p \in Pages : PInv(p)'
  <2>1. e.page # NoPage => e.type \in {"UPDATELOG", "CLRLOG"}
    BY Zenon, <1>2 DEF IInv, LInv
  <2>2. CASE \A p \in Pages : e.page = p => mem[p].lsn >= cursor
    <3>1. e.page = NoPage \/ mem[e.page].lsn >= cursor
      BY SMTT(30), <1>4, <2>2
    <3>2. UNCHANGED <<mem, dirty>>
      BY Zenon, <1>1, <3>1 DEF RedoRecord
    <3>. QED
      BY Zenon, <1>1, <2>2, <3>2, RedoNothing
  <2>3. CASE \E q \in Pages : e.page = q /\ ~(mem[q].lsn >= cursor)
    <3>1. PICK q \in Pages : e.page = q /\ ~(mem[q].lsn >= cursor)
      BY Zenon, <2>3
    <3>2. q # NoPage /\ mem[q].lsn \in Nat
      BY Zenon, PageAssumption DEF IInv, TInv, TPage, PageState
    <3>3. mem[q].lsn < cursor
      BY SMTT(30), <1>2, <3>1, <3>2
    <3>4. CASE e.type = "UPDATELOG"
      <4>1. Apply(q, cursor)
        BY Zenon, <1>1, <3>1, <3>2, <3>4 DEF RedoRecord
      <4>2. mem[q].applied \cup {cursor} = Effect(log, q, cursor)
        BY Zenon, <1>1, <3>1, <3>3, <3>4, RedoEffect
      <4>. QED
        BY ZenonT(30), <1>1, <3>1, <3>3, <4>1, <4>2, RedoPages DEF Apply
    <3>5. CASE e.type = "CLRLOG"
      <4>1. Unapply(q, e.comp, cursor)
        BY Zenon, <1>1, <3>1, <3>2, <3>5 DEF RedoRecord
      <4>2. mem[q].applied \ {e.comp} = Effect(log, q, cursor)
        BY Zenon, <1>1, <3>1, <3>3, <3>5, RedoEffect
      <4>. QED
        BY ZenonT(30), <1>1, <3>1, <3>3, <4>1, <4>2, RedoPages DEF Unapply
    <3>. QED
      BY Zenon, <2>1, <3>1, <3>2, <3>4, <3>5
  <2>. QED
    BY SMTT(30), <2>2, <2>3
<1>. QED
  BY SMTT(30), <1>5, <1>6, <1>7 DEF IInv, TInv

-----------------------------------------------------------------------------
(* The empty store satisfies the invariant.                                *)
LEMMA InitInv == Init => IInv
<1>1. SUFFICES ASSUME Init PROVE IInv
  OBVIOUS
<1>2. log = << >> /\ Len(log) = 0 /\ log \in Seq(Records)
  BY <1>1 DEF Init
<1>3. FreshPage \in PageState /\ FreeSlot \in Slots /\ FreeSlot.prevLSN = -1
  BY DEF FreshPage, PageState, FreeSlot, Slots, INVALID_LSN
<1>4. TInv
  BY <1>1, <1>2, <1>3 DEF Init, TInv, TLog, TPage, TXact, TRestart, INVALID_LSN
<1>5. WInv /\ LInv
  BY <1>1, <1>2 DEF Init, WInv, LInv, INVALID_LSN
<1>6. \A p \in Pages : PInv(p)
  <2>1. \A p \in Pages : /\ mem[p] = FreshPage /\ cache[p] = FreshPage
                         /\ disk[p] = FreshPage /\ dirty[p] = -1
    BY Zenon, <1>1 DEF Init, INVALID_LSN
  <2>2. FreshPage.lsn = 0 /\ FreshPage.applied = {}
    BY Zenon DEF FreshPage
  <2>3. \A p \in Pages : Effect(log, p, 0) = {}
    BY DEF Effect
  <2>4. flushed = 0
    BY Zenon, <1>1 DEF Init
  <2>5. \A l \in 1..Len(log) : FALSE
    BY <1>2
  <2>6. \A p \in Pages : Reflects(FreshPage, p) /\ Keeps(FreshPage, p)
    BY <1>2, <2>2, <2>3, <2>5 DEF Reflects, Keeps
  <2>. QED
    BY SMTT(30), <2>1, <2>2, <2>4, <2>5, <2>6 DEF PInv
<1>. QED
  BY Zenon, <1>4, <1>5, <1>6 DEF IInv

(* Every step keeps the invariant.                                         *)
LEMMA NextInv == IInv /\ [Next]_vars => IInv'
<1>1. SUFFICES ASSUME IInv, [Next]_vars PROVE IInv'
  OBVIOUS
<1>2. CASE UNCHANGED vars
  <2>1. /\ UNCHANGED <<log, trunc, mem, cache, disk, dirty, flushed, mode, cursor>>
        /\ UNCHANGED <<xact, nta, ntaPrev, rollbackLSNs, upc, undoLSN, undoXid>>
    BY Zenon, <1>2 DEF vars
  <2>2. TXact' /\ TRestart'
    BY Zenon, <1>1, <2>1, SameTables
  <2>3. flushed' \in flushed..Len(log) /\ Upto' = Upto
    BY <1>1, <2>1, Basics DEF Upto
  <2> QED
    BY Zenon, <1>1, <2>1, <2>2, <2>3, QuietStep
<1>3. ASSUME NEW x \in Xids, ClientStep(x)
      PROVE  IInv'
  BY Zenon, <1>1, <1>3, TableStep, AbortStep, EndNTAStep, PrepareStep, UpdateStep,
     CommitStep DEF ClientStep
<1>4. ASSUME NEW p \in Pages, WriteBack(p)
      PROVE  IInv'
  BY Zenon, <1>1, <1>4, WriteBackStep
<1>5. CASE ForceCommits \/ LogWriteback \/ Truncate \/ Crash \/ Deinit
  BY Zenon, <1>1, <1>5, ForceStep, TruncateStep, CrashStep, DeinitStep
<1>6. CASE RestartStep
  BY Zenon, <1>1, <1>6, AnalyzeStep, AnalysisDoneStep, RedoStep, PhaseStep, PopMaxValStep
     DEF RestartStep
<1>7. CASE UndoStep
  BY Zenon, <1>1, <1>7, UndoPhysicalStep, UndoLogicalStep, WriteDummyCLRStep,
     SkipRecordStep, StopAtPrepareStep, EndRollbackStep DEF UndoStep
<1>. QED
  BY Zenon, <1>1, <1>2, <1>3, <1>4, <1>5, <1>6, <1>7 DEF Next

(* The invariant implies what the runs check.                              *)
LEMMA InvImplies == IInv => TypeOK /\ PagesReflectLog /\ PagesCurrent
<1>1. SUFFICES ASSUME IInv PROVE TypeOK /\ PagesReflectLog /\ PagesCurrent
  OBVIOUS
<1>2. Len(log) \in Nat /\ TPage /\ TLog /\ TRestart /\ WInv
  BY Zenon, <1>1, Basics DEF IInv, TInv
<1>3. ASSUME NEW p \in Pages
      PROVE  mem[p].lsn \in 0..Len(log) /\ mem[p].applied \subseteq LSNs
  <2>1. mem[p].lsn \in Nat /\ mem[p].lsn <= Len(log)
        /\ mem[p].applied = Effect(log, p, mem[p].lsn)
    BY Zenon, <1>1, <1>2 DEF IInv, PInv, Reflects, TPage, PageState
  <2>2. Effect(log, p, mem[p].lsn) \subseteq 1..mem[p].lsn
    BY SMTT(30) DEF Effect
  <2>. QED
    BY <1>2, <2>1, <2>2 DEF LSNs
<1>4. trunc \in 1..(Len(log) + 1)
  <2>1. flushed \in Nat /\ flushed <= Len(log) /\ trunc \in Nat \ {0}
        /\ trunc - 1 <= flushed
    BY <1>2 DEF TLog
  <2>2. trunc - 1 <= Len(log)
    BY <1>2, <2>1
  <2>. QED
    BY <1>2, <2>1, <2>2
<1>5. TypeOK
  BY Zenon, <1>2, <1>3, <1>4 DEF TypeOK, TLog, TPage, TRestart, WInv, LSNs, INVALID_LSN
<1>6. PagesReflectLog
  BY Zenon, <1>1 DEF IInv, PagesReflectLog, PInv, Reflects
<1>7. PagesCurrent
  BY Zenon, <1>1, CurrentPages DEF PagesCurrent
<1>. QED
  BY Zenon, <1>5, <1>6, <1>7

(* The variables keep their types: no LSN in the page, transaction or      *)
(* rollback tables points past the end of the log (transactional2.c,       *)
(* recovery2.c).                                                           *)
THEOREM TypeSafe == Spec => []TypeOK
<1>. HIDE DEF IInv, TypeOK
<1>. QED
  BY InitInv, NextInv, InvImplies, PTL DEF Spec

(* Write-ahead logging and repeating history: every version of a page,     *)
(* buffered, written or on disk, shows exactly the log up to its LSN, and  *)
(* a written one no record that is not stable (phWrite, redo).             *)
THEOREM PagesSafe == Spec => []PagesReflectLog
<1>. HIDE DEF IInv, PagesReflectLog
<1>. QED
  BY InitInv, NextInv, InvImplies, PTL DEF Spec

(* Truncation loses nothing that restart needs: after redo each page shows *)
(* the whole log (stasis_truncation_truncate, stasis_recovery_redo).       *)
THEOREM CurrentSafe == Spec => []PagesCurrent
<1>. HIDE DEF IInv, PagesCurrent
<1>. QED
  BY InitInv, NextInv, InvImplies, PTL DEF Spec

(* Durability, where TforceCommits works: with the safe-writes log, or for *)
(* transactions that all commit with Tcommit.                              *)
ForcesWork == LogType = "safe_writes" \/ ~UseSoftCommit

CommitAt(c, lg) == lg[c[2]].type = "XCOMMIT" /\ lg[c[2]].xid = c[1]

DInv ==
  /\ \A c \in acked : c[2] \in 1..flushed /\ CommitAt(c, log)
  /\ mode = "run" => \A c \in soft : c[2] \in 1..Len(log) /\ CommitAt(c, log)
  /\ LogType = "safe_writes" \/ soft = {}

(* Nothing is taken from the log, and what is stable stays so.             *)
Longer ==
  /\ Len(log) \in Nat /\ flushed \in 0..Len(log)
  /\ Len(log') \in Nat /\ Len(log) <= Len(log')
  /\ \A i \in 1..Len(log) : log'[i] = log[i]
  /\ flushed' \in Nat /\ flushed <= flushed'

(* Every step but a crash only adds to the log.                            *)
LEMMA AddsToLog ==
  ASSUME IInv, Next, ~Crash
  PROVE  Longer
<1>1. log \in Seq(Records) /\ Len(log) \in Nat /\ flushed \in 0..Len(log) /\ IInv'
  BY Zenon, Basics, NextInv
<1>2. flushed' \in 0..Len(log')
  BY Zenon, <1>1 DEF IInv, TInv, TLog
<1>3. log' = log \/ \E r : log' = Append(log, r)
  BY ZenonT(30)
     DEF Next, ClientStep, Begin, CommitReadOnly, AbortReadOnly, Abort, BeginNTA,
         EndNTA, Prepare, Update, Commit, WriteBack, ForceCommits, LogWriteback,
         Truncate, Deinit, RestartStep, Analyze, AnalysisDone, Redo, RedoDone,
         PopMaxVal, RecoveryDone, UndoStep, UndoPhysical, UndoLogical,
         WriteDummyCLR, SkipRecord, StopAtPrepare, EndRollback, store
<1>4. /\ Len(log') \in Nat /\ Len(log) <= Len(log')
      /\ \A i \in 1..Len(log) : log'[i] = log[i]
  BY <1>1, <1>3
<1>5. /\ flushed' = flushed \/ flushed' = Len(log') \/ flushed' = flushed + 1
         \/ (flushed < undoLSN /\ flushed' = undoLSN /\ SkipRecord)
         \/ (flushed' = Len(log))
  <2>1. ASSUME NEW x \in Xids, ClientStep(x)
        PROVE  flushed' = flushed \/ flushed' = Len(log')
    BY ONLY ZenonT(30), <2>1
       DEF ClientStep, Begin, CommitReadOnly, AbortReadOnly, Abort, BeginNTA,
         EndNTA, Prepare, Update, Commit, LogForce, store
  <2>2. ASSUME NEW p \in Pages, WriteBack(p)
        PROVE  flushed' = flushed \/ flushed' = Len(log')
    BY Zenon, <2>2 DEF WriteBack, LogForce
  <2>3. CASE ForceCommits \/ LogWriteback \/ Truncate \/ Deinit
    BY Zenon, <2>3 DEF ForceCommits, LogWriteback, Truncate, LogTruncate, Deinit
  <2>4. CASE RestartStep
    BY ONLY ZenonT(30), <2>4
       DEF RestartStep, Analyze, AnalysisDone, Redo, RedoDone, PopMaxVal,
                RecoveryDone, store
  <2>5. CASE UndoStep
    BY ONLY ZenonT(30), <2>5
       DEF UndoStep, UndoPhysical, UndoLogical, WriteDummyCLR, SkipRecord,
                StopAtPrepare, EndRollback, store
  <2>. QED
    BY Zenon, <2>1, <2>2, <2>3, <2>4, <2>5 DEF Next
<1>6. undoLSN \in Int
  BY Zenon DEF IInv, WInv
<1>. QED
  BY <1>1, <1>2, <1>4, <1>5, <1>6 DEF Longer

(* A commit that was in the log is there still.                            *)
LEMMA StaysCommitted ==
  ASSUME Longer, NEW c, c[2] \in 1..Len(log), CommitAt(c, log)
  PROVE  c[2] \in 1..Len(log') /\ CommitAt(c, log')
BY DEF Longer, CommitAt

(* A crash keeps what was stable.                                          *)
LEMMA CrashDurable ==
  ASSUME IInv, DInv, Crash
  PROVE  DInv'
<1>1. PICK n \in flushed..Len(log) : log' = SubSeq(log, 1, n) /\ flushed' = n
  BY Zenon DEF Crash
<1>2. log \in Seq(Records) /\ Len(log) \in Nat /\ flushed \in 0..Len(log)
  BY Zenon, Basics
<1>3. n \in Nat /\ n <= Len(log) /\ \A i \in 1..n : log'[i] = log[i]
  BY <1>1, <1>2
<1>4. acked' = acked /\ soft' = soft /\ mode' = "analysis"
  BY Zenon DEF Crash, Reopen
<1>5. \A c \in acked : c[2] \in 1..flushed' /\ CommitAt(c, log')
  <2>1. SUFFICES ASSUME NEW c \in acked PROVE c[2] \in 1..flushed' /\ CommitAt(c, log')
    OBVIOUS
  <2>2. c[2] \in 1..flushed /\ CommitAt(c, log)
    BY Zenon DEF DInv
  <2>3. c[2] \in 1..n
    BY <1>1, <1>2, <1>3, <2>2
  <2>. QED
    BY Zenon, <1>1, <1>3, <2>2, <2>3 DEF CommitAt
<1>. QED
  BY Zenon, <1>4, <1>5 DEF DInv

(* Tcommit has its record stable before it returns.                        *)
LEMMA CommitDurable ==
  ASSUME IInv, DInv, ForcesWork, Longer, NEW x \in Xids, NEW force \in BOOLEAN,
         Commit(x, force)
  PROVE  DInv'
<1>. DEFINE k == Len(log) + 1
            r == Record("XCOMMIT", x, xact[x].prevLSN)
<1>1. /\ mode' = mode /\ log' = Append(log, r)
      /\ IF force THEN LogForce(k) ELSE flushed' = flushed
      /\ acked' = IF force THEN acked \cup {<<x, k>>} ELSE acked
      /\ soft' = IF force THEN soft ELSE soft \cup {<<x, k, Shown(x)>>}
      /\ force \/ UseSoftCommit
  BY Zenon DEF Commit, restart, NextLSN
<1>2. log \in Seq(Records) /\ Len(log) \in Nat /\ flushed \in 0..Len(log)
  BY Zenon, Basics
<1>3. Len(log') = k /\ log'[k] = r /\ k \in 1..Len(log')
  BY <1>1, <1>2
<1>4. r.type = "XCOMMIT" /\ r.xid = x
  BY Zenon DEF Record
<1>. HIDE DEF r
<1>5. \A c \in acked : c[2] \in 1..flushed' /\ CommitAt(c, log')
  BY StaysCommitted DEF DInv, Longer
<1>6. mode = "run" => \A c \in soft : c[2] \in 1..Len(log') /\ CommitAt(c, log')
  BY Zenon, StaysCommitted DEF DInv
<1>7. CASE force
  <2>1. flushed' = k
    BY <1>1, <1>2, <1>3, <1>7 DEF LogForce
  <2>2. CommitAt(<<x, k>>, log')
    BY Zenon, <1>3, <1>4 DEF CommitAt
  <2>. QED
    BY <1>1, <1>3, <1>5, <1>6, <1>7, <2>1, <2>2 DEF DInv
<1>8. CASE ~force
  <2>1. CommitAt(<<x, k, Shown(x)>>, log')
    BY Zenon, <1>3, <1>4 DEF CommitAt
  <2>2. LogType = "safe_writes"
    BY Zenon, <1>1, <1>8 DEF ForcesWork
  <2>. QED
    BY <1>1, <1>3, <1>5, <1>6, <1>8, <2>1, <2>2 DEF DInv
<1>. QED
  BY Zenon, <1>7, <1>8

(* TforceCommits makes the soft commits stable.                            *)
LEMMA ForceDurable ==
  ASSUME IInv, DInv, Longer, ForceCommits
  PROVE  DInv'
<1>1. LogType = "safe_writes" /\ flushed' = Len(log) /\ log' = log
      /\ mode = "run" /\ soft' = {}
      /\ acked' = acked \cup {<<c[1], c[2]>> : c \in soft}
  BY Zenon DEF DInv, ForceCommits
<1>2. \A c \in acked : c[2] \in 1..flushed' /\ CommitAt(c, log')
  BY StaysCommitted DEF DInv, Longer
<1>3. \A c \in soft : <<c[1], c[2]>>[2] \in 1..flushed' /\ CommitAt(<<c[1], c[2]>>, log')
  BY Zenon, <1>1 DEF DInv, CommitAt
<1>. QED
  BY Zenon, <1>1, <1>2, <1>3 DEF DInv

(* Every step keeps what was acknowledged.                                 *)
LEMMA NextDurable ==
  ASSUME ForcesWork
  PROVE  IInv /\ DInv /\ [Next]_vars => DInv'
<1>1. SUFFICES ASSUME IInv, DInv, [Next]_vars PROVE DInv'
  OBVIOUS
<1>2. CASE UNCHANGED vars
  BY Zenon, <1>1, <1>2 DEF vars, DInv
<1>3. CASE Crash
  BY Zenon, <1>1, <1>3, CrashDurable
<1>4. CASE Next /\ ~Crash
  <2>1. Longer
    BY Zenon, <1>1, <1>4, AddsToLog
  <2>2. CASE \E x \in Xids, force \in BOOLEAN : Commit(x, force)
    BY Zenon, <1>1, <2>1, <2>2, CommitDurable
  <2>3. CASE ForceCommits
    BY Zenon, <1>1, <2>1, <2>3, ForceDurable
  <2>4. CASE /\ ~ForceCommits
             /\ ~\E x \in Xids, force \in BOOLEAN : Commit(x, force)
    <3>1. acked' = acked /\ (soft' = {} \/ (soft' = soft /\ (mode' = mode \/ mode' # "run")))
      BY ZenonT(30), <1>4, <2>4
      DEF Next, ClientStep, Begin, CommitReadOnly, AbortReadOnly, Abort, BeginNTA,
         EndNTA, Prepare, Update, WriteBack, LogWriteback,
         Truncate, Deinit, Reopen, RestartStep, Analyze, AnalysisDone, Redo,
         RedoDone, PopMaxVal, RecoveryDone, UndoStep, UndoPhysical, UndoLogical,
         WriteDummyCLR, SkipRecord, StopAtPrepare, EndRollback, restart
    <3>2. \A c \in acked : c[2] \in 1..flushed' /\ CommitAt(c, log')
      BY <1>1, <2>1, StaysCommitted DEF DInv, Longer
    <3>3. mode = "run" => \A c \in soft : c[2] \in 1..Len(log') /\ CommitAt(c, log')
      BY Zenon, <1>1, <2>1, StaysCommitted DEF DInv
    <3>. QED
      BY Zenon, <1>1, <3>1, <3>2, <3>3 DEF DInv
  <2>. QED
    BY Zenon, <2>2, <2>3, <2>4
<1>. QED
  BY Zenon, <1>1, <1>2, <1>3, <1>4

(* A commit that Tcommit or TforceCommits acknowledged survives every      *)
(* crash, with the safe-writes log or without soft commits (TcommitHelper, *)
(* stasis_log_force).  TforceCommits forces nothing on the file pool.      *)
THEOREM DurabilitySafe ==
  ASSUME ForcesWork
  PROVE  Spec => []Durability
<1>1. Init => DInv
  BY Zenon DEF Init, DInv
<1>2. IInv /\ DInv /\ [Next]_vars => DInv'
  BY Zenon, NextDurable
<1>3. IInv /\ DInv => Durability
  <2>1. SUFFICES ASSUME IInv, DInv PROVE Durability
    OBVIOUS
  <2>2. flushed \in Nat
    BY <2>1, Basics
  <2>. QED
    BY <2>1, <2>2 DEF DInv, Durability, CommitAt
<1>. HIDE DEF IInv, DInv, Durability
<1>. QED
  BY InitInv, NextInv, <1>1, <1>2, <1>3, PTL DEF Spec

=============================================================================
