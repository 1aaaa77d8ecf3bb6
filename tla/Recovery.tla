------------------------------ MODULE Recovery ------------------------------
(***************************************************************************)
(* Transactions, write-ahead logging and restart: transactional2.c,        *)
(* recovery2.c, operations.c, logger/logger2.c and pageHandle.c.           *)
(*                                                                         *)
(* The log is a sequence and an LSN is an index into it.  A page is its    *)
(* LSN and the set of update records whose effect it shows: an operation   *)
(* adds its record, the inverse operation removes it.  The page latch that *)
(* TupdateWithPage and undo hold from the log write to the page update     *)
(* makes the two one step.  A crash keeps the forced part of the log, any  *)
(* part of the rest, and for each page the last forced version or the last *)
(* written one.                                                            *)
(***************************************************************************)
EXTENDS Integers, Sequences, FiniteSets

CONSTANTS Xids, Pages,
          NoXid, NoPage,  \* INVALID_XID and INVALID_PAGE
          UseNTA,         \* do transactions run nested top actions?
          UsePrepare,     \* do transactions prepare?
          UseSoftCommit,  \* do they call TsoftCommit?
          LogType,        \* "safe_writes" or "file_pool"
          MaxClient,      \* bound: clients log nothing past this LSN
          MaxCrashes      \* bound

ASSUME PageAssumption == NoPage \notin Pages /\ NoXid \notin Xids
ASSUME FeatureAssumption ==
  /\ UseNTA \in BOOLEAN /\ UsePrepare \in BOOLEAN /\ UseSoftCommit \in BOOLEAN
  /\ LogType \in {"safe_writes", "file_pool"}
ASSUME BoundAssumption == MaxClient \in Nat /\ MaxCrashes \in Nat

VARIABLES log, flushed,      \* the log, and the last LSN that is stable
          trunc,             \* the truncation point
          mem, cache, disk,  \* pages: buffered, written, forced to disk
          dirty,             \* page -> its recLSN, or INVALID_LSN when clean
          xact,              \* the transaction table
          nta,               \* xid -> log length at begin_nta, or -1
          ntaPrev,           \* xid -> prevLSN saved by begin_nta
          mode, cursor,      \* restart: its phase, and the next LSN to read
          transactionLSN, rollbackLSNs,
          upc, undoLSN, undoXid, reallyAborted, \* stasis_recovery_undo
          acked,             \* commits acknowledged as durable
          soft,              \* soft commits since restart: <<xid, LSN, updates>>
          crashes

store == <<log, flushed, trunc, mem, cache, disk, dirty>>
walk == <<upc, undoLSN, undoXid, reallyAborted>>
restart == <<mode, cursor, transactionLSN, rollbackLSNs>>
vars == <<log, flushed, trunc, mem, cache, disk, dirty, xact, nta, ntaPrev,
          mode, cursor, transactionLSN, rollbackLSNs, upc, undoLSN, undoXid,
          reallyAborted, acked, soft, crashes>>

INVALID_LSN == -1
FreshPage == [lsn |-> 0, applied |-> {}]
FreeSlot == [active |-> FALSE, prevLSN |-> INVALID_LSN, recLSN |-> INVALID_LSN]
NewSlot == [active |-> TRUE, prevLSN |-> INVALID_LSN, recLSN |-> INVALID_LSN]

Init ==
  /\ log = << >> /\ flushed = 0 /\ trunc = 1
  /\ mem = [p \in Pages |-> FreshPage]
  /\ cache = mem /\ disk = mem
  /\ dirty = [p \in Pages |-> INVALID_LSN]
  /\ xact = [x \in Xids |-> FreeSlot]
  /\ nta = [x \in Xids |-> -1] /\ ntaPrev = [x \in Xids |-> INVALID_LSN]
  /\ mode = "run" /\ cursor = 1
  /\ transactionLSN = [x \in Xids |-> INVALID_LSN]
  /\ rollbackLSNs = {}
  /\ upc = "idle" /\ undoLSN = INVALID_LSN /\ undoXid = NoXid
  /\ reallyAborted = FALSE
  /\ acked = {} /\ soft = {} /\ crashes = 0

-----------------------------------------------------------------------------
(* Log records.  comp: the LSN that a CLR compensates, INVALID_LSN in the  *)
(* dummy CLR that closes a logical undo.  rec: the recLSN in an XPREPARE.  *)
(* body: the physical update under a nested top action; inv: the nested    *)
(* top action that an update inverts.  (The code has the last two in the   *)
(* arguments of the operation.)                                            *)
Record(type, x, prev) ==
  [type |-> type, xid |-> x, prevLSN |-> prev, page |-> NoPage,
   comp |-> INVALID_LSN, rec |-> INVALID_LSN, body |-> 0, inv |-> 0]

UpdateRecord(x, prev, p, inv) ==
  [type |-> "UPDATELOG", xid |-> x, prevLSN |-> prev, page |-> p,
   comp |-> INVALID_LSN, rec |-> INVALID_LSN, body |-> 0, inv |-> inv]

LogicalRecord(x, prev, body) ==
  [type |-> "UPDATELOG", xid |-> x, prevLSN |-> prev, page |-> NoPage,
   comp |-> INVALID_LSN, rec |-> INVALID_LSN, body |-> body, inv |-> 0]

(* Faulty variant: the CLR leads back to the record it compensates.        *)
CLRRecordRepeats(e, lsn) ==
  [type |-> "CLRLOG", xid |-> e.xid, prevLSN |-> lsn, page |-> e.page,
   comp |-> lsn, rec |-> INVALID_LSN, body |-> 0, inv |-> 0]

(* allocCLRLogEntry: the next record to undo is the one before e.          *)
CLRRecord(e, lsn) ==
  [type |-> "CLRLOG", xid |-> e.xid, prevLSN |-> e.prevLSN, page |-> e.page,
   comp |-> lsn, rec |-> INVALID_LSN, body |-> 0, inv |-> 0]

PrepareRecord(x, prev, rec) ==
  [type |-> "XPREPARE", xid |-> x, prevLSN |-> prev, page |-> NoPage,
   comp |-> INVALID_LSN, rec |-> rec, body |-> 0, inv |-> 0]

NextLSN == Len(log) + 1

(* stasis_log_force: the log is forced to its end unless lsn is stable.    *)
(* The variant tests first_unstable < lsn in place of <=.                  *)
LogForceShort(lsn) == flushed' = IF flushed + 1 < lsn THEN Len(log') ELSE flushed

LogForce(lsn) == flushed' = IF flushed < lsn THEN Len(log') ELSE flushed

(* Faulty variant: every record moves recLSN.                              *)
LoggedEach(x) == [xact EXCEPT ![x].prevLSN = NextLSN, ![x].recLSN = NextLSN]

(* The end of the logger2.c functions: l->recLSN and l->prevLSN.           *)
Logged(x) ==
  [xact EXCEPT ![x] =
     [active |-> @.active, prevLSN |-> NextLSN,
      recLSN |-> IF @.prevLSN = INVALID_LSN THEN NextLSN ELSE @.recLSN]]

(* stasis_page_lsn_write, with set_dirty: the recLSN is the LSN that makes *)
(* the page dirty.                                                         *)
MarkDirty(p, lsn) ==
  dirty' = IF dirty[p] = INVALID_LSN THEN [dirty EXCEPT ![p] = lsn] ELSE dirty

Apply(p, lsn) ==
  /\ mem' = [mem EXCEPT ![p] = [lsn |-> lsn, applied |-> @.applied \cup {lsn}]]
  /\ MarkDirty(p, lsn)

(* stasis_operation_undo, of record lsn with effective LSN clr.            *)
Unapply(p, lsn, clr) ==
  /\ mem' = [mem EXCEPT ![p] = [lsn |-> clr, applied |-> @.applied \ {lsn}]]
  /\ MarkDirty(p, clr)

(* stasis_transaction_table_roll_forward.                                  *)
RollForward(x, lsn) ==
  xact' = [xact EXCEPT ![x] = [active |-> TRUE, prevLSN |-> lsn,
                               recLSN |-> IF @.active THEN @.recLSN ELSE lsn]]

-----------------------------------------------------------------------------
(* The calls of the application.  A transaction is used by one thread, and *)
(* not while it is being rolled back.                                      *)
Client(x) == mode = "run" /\ xact[x].active /\ x # undoXid

Begin(x) ==
  /\ mode = "run" /\ ~xact[x].active
  /\ xact' = [xact EXCEPT ![x] = NewSlot]
  /\ UNCHANGED <<store, nta, ntaPrev, restart, walk, acked, soft, crashes>>

(* TupdateWithPage.                                                        *)
Update(x, p) ==
  /\ Client(x) /\ NextLSN <= MaxClient
  /\ nta[x] = -1 \/ xact[x].prevLSN <= nta[x]
  /\ log' = Append(log, UpdateRecord(x, xact[x].prevLSN, p, 0))
  /\ xact' = Logged(x)
  /\ Apply(p, NextLSN)
  /\ UNCHANGED <<flushed, trunc, cache, disk, nta, ntaPrev, restart, walk,
                 acked, soft, crashes>>

BeginNTA(x) ==
  /\ UseNTA /\ Client(x) /\ nta[x] = -1 /\ NextLSN < MaxClient
  /\ nta' = [nta EXCEPT ![x] = Len(log)]
  /\ ntaPrev' = [ntaPrev EXCEPT ![x] = xact[x].prevLSN]
  /\ UNCHANGED <<store, xact, restart, walk, acked, soft, crashes>>

(* Faulty variant: the record of the nested top action leads into its body. *)
EndNTAInto(x) ==
  /\ Client(x) /\ nta[x] >= 0 /\ xact[x].prevLSN > nta[x]
  /\ NextLSN <= MaxClient
  /\ log' = Append(log, LogicalRecord(x, xact[x].prevLSN, xact[x].prevLSN))
  /\ xact' = Logged(x)
  /\ nta' = [nta EXCEPT ![x] = -1]
  /\ UNCHANGED <<flushed, trunc, mem, cache, disk, dirty, ntaPrev, restart,
                 walk, acked, soft, crashes>>

(* stasis_log_end_nta: an undo will skip from here to what came before.    *)
EndNTA(x) ==
  /\ Client(x) /\ nta[x] >= 0 /\ xact[x].prevLSN > nta[x]
  /\ NextLSN <= MaxClient
  /\ log' = Append(log, LogicalRecord(x, ntaPrev[x], xact[x].prevLSN))
  /\ xact' = Logged(x)
  /\ nta' = [nta EXCEPT ![x] = -1]
  /\ UNCHANGED <<flushed, trunc, mem, cache, disk, dirty, ntaPrev, restart,
                 walk, acked, soft, crashes>>

(* Tprepare forces the log, and so does Tcommit.                           *)
Prepare(x) ==
  /\ UsePrepare /\ Client(x) /\ nta[x] = -1 /\ NextLSN <= MaxClient
  /\ log' = Append(log, PrepareRecord(x, xact[x].prevLSN, xact[x].recLSN))
  /\ xact' = Logged(x)
  /\ LogForce(NextLSN)
  /\ UNCHANGED <<trunc, mem, cache, disk, dirty, nta, ntaPrev, restart, walk,
                 acked, soft, crashes>>

CommitReadOnly(x) ==
  /\ Client(x) /\ nta[x] = -1 /\ xact[x].prevLSN = INVALID_LSN
  /\ xact' = [xact EXCEPT ![x] = FreeSlot]
  /\ UNCHANGED <<store, nta, ntaPrev, restart, walk, acked, soft, crashes>>

(* The updates of the running transaction x that its pages show.           *)
Shown(x) == {l \in xact[x].recLSN..Len(log) :
               log[l].xid = x /\ \E p \in Pages : l \in mem[p].applied}

(* TcommitHelper: Tcommit when force, else TsoftCommit.                    *)
Commit(x, force) ==
  /\ Client(x) /\ nta[x] = -1 /\ xact[x].prevLSN # INVALID_LSN
  /\ force \/ UseSoftCommit
  /\ log' = Append(log, Record("XCOMMIT", x, xact[x].prevLSN))
  /\ xact' = [xact EXCEPT ![x] = FreeSlot]
  /\ IF force THEN LogForce(NextLSN) ELSE UNCHANGED flushed
  /\ acked' = IF force THEN acked \cup {<<x, NextLSN>>} ELSE acked
  /\ soft' = IF force THEN soft ELSE soft \cup {<<x, NextLSN, Shown(x)>>}
  /\ UNCHANGED <<trunc, mem, cache, disk, dirty, nta, ntaPrev, restart, walk,
                 crashes>>

AbortReadOnly(x) ==
  /\ Client(x) /\ xact[x].prevLSN = INVALID_LSN
  /\ xact' = [xact EXCEPT ![x] = FreeSlot]
  /\ nta' = [nta EXCEPT ![x] = -1]
  /\ UNCHANGED <<store, ntaPrev, restart, walk, acked, soft, crashes>>

(* Tabort, up to the loop of stasis_recovery_undo; rollback_mutex admits   *)
(* one at a time.                                                          *)
Abort(x) ==
  /\ Client(x) /\ xact[x].prevLSN # INVALID_LSN
  /\ upc = "idle"
  /\ log' = Append(log, Record("XABORT", x, xact[x].prevLSN))
  /\ xact' = Logged(x)
  /\ nta' = [nta EXCEPT ![x] = -1]
  /\ upc' = "walk" /\ undoLSN' = NextLSN /\ undoXid' = x
  /\ reallyAborted' = FALSE
  /\ UNCHANGED <<flushed, trunc, mem, cache, disk, dirty, ntaPrev, restart,
                 acked, soft, crashes>>

-----------------------------------------------------------------------------
(* The buffer manager may write any dirty page at any time: phWrite forces *)
(* the log up to the page's LSN first.                                     *)
WriteBack(p) ==
  /\ dirty[p] # INVALID_LSN
  /\ UNCHANGED <<log, trunc, mem, disk, xact, nta, ntaPrev, restart, walk,
                 acked, soft, crashes>>
  /\ LogForce(mem[p].lsn)
  /\ cache' = [cache EXCEPT ![p] = mem[p]]
  /\ dirty' = [dirty EXCEPT ![p] = INVALID_LSN]

(* TforceCommits: stasis_log_force with INVALID_LSN, which only group      *)
(* commit takes for the end of the log.  The file pool has none.           *)
ForceCommits ==
  /\ mode = "run" /\ soft # {}
  /\ flushed' = IF LogType = "safe_writes" THEN Len(log) ELSE flushed
  /\ acked' = acked \cup {<<c[1], c[2]>> : c \in soft}
  /\ soft' = {}
  /\ UNCHANGED <<log, trunc, mem, cache, disk, dirty, xact, nta, ntaPrev,
                 restart, walk, crashes>>

(* The writeback thread of the file pool makes the next record stable.     *)
LogWriteback ==
  /\ flushed < Len(log)
  /\ flushed' = flushed + 1
  /\ UNCHANGED <<log, trunc, mem, cache, disk, dirty, xact, nta, ntaPrev,
                 restart, walk, acked, soft, crashes>>

(* Mutants: truncation past the end of the log, truncation that ignores    *)
(* the dirty pages, and truncation that ignores the transactions.          *)
NeededPastEnd == {flushed + 2} \cup {dirty[p] : p \in Pages} \cup
                 {xact[x].recLSN : x \in {y \in Xids : xact[y].active}}

NeededByXacts == {flushed + 1} \cup
                 {xact[x].recLSN : x \in {y \in Xids : xact[y].active}}

NeededByPages == {flushed + 1} \cup {dirty[p] : p \in Pages}

(* The LSNs that bound stasis_truncation_truncate, which runs between the  *)
(* calls of the application: no record is pending.                         *)
Needed ==
  {dirty[p] : p \in Pages} \cup
  {xact[x].recLSN : x \in {y \in Xids : xact[y].active}} \cup {flushed + 1}

(* Faulty variant: the pages are not forced.                               *)
ForcePagesSkipped == UNCHANGED disk

ForcePages == disk' = cache

(* Faulty variant: the copy of the safe-writes log is not forced.          *)
LogTruncateUnforced(lsn) == trunc' = lsn /\ UNCHANGED flushed

(* The truncate of the log.  The safe-writes log is copied from lsn on,    *)
(* and the copy is forced as a whole; the file pool drops the chunks below *)
(* lsn, and forces nothing.                                                *)
LogTruncate(lsn) ==
  IF LogType = "safe_writes" THEN trunc' = lsn /\ flushed' = Len(log)
  ELSE trunc' \in (trunc + 1)..lsn /\ UNCHANGED flushed

Truncate ==
  /\ mode = "run"
  /\ \E t \in Needed \ {INVALID_LSN} :
       /\ \A n \in Needed : n = INVALID_LSN \/ t <= n
       /\ t > trunc
       /\ LogTruncate(t)
  /\ ForcePages
  /\ UNCHANGED <<log, mem, cache, dirty, xact, nta, ntaPrev, restart,
                 walk, acked, soft, crashes>>

(* Tinit, up to stasis_recovery_initiate: the tables start empty.          *)
Reopen ==
  /\ mem' = cache'
  /\ dirty' = [p \in Pages |-> INVALID_LSN]
  /\ xact' = [x \in Xids |-> FreeSlot]
  /\ nta' = [x \in Xids |-> -1] /\ ntaPrev' = [x \in Xids |-> INVALID_LSN]
  /\ mode' = "analysis" /\ cursor' = trunc
  /\ transactionLSN' = [x \in Xids |-> INVALID_LSN]
  /\ rollbackLSNs' = {}
  /\ upc' = "idle" /\ undoLSN' = INVALID_LSN /\ undoXid' = NoXid
  /\ reallyAborted' = FALSE
  /\ UNCHANGED <<trunc, acked, soft>>

(* A crash.  TuncleanShutdown is the case that keeps the whole log.        *)
Crash ==
  /\ crashes < MaxCrashes
  /\ crashes' = crashes + 1
  /\ \E n \in flushed..Len(log) :
       log' = SubSeq(log, 1, n) /\ flushed' = n
  /\ \E lost \in SUBSET Pages :
       disk' = [p \in Pages |-> IF p \in lost THEN disk[p] ELSE cache[p]]
  /\ cache' = disk'
  /\ Reopen

(* Tdeinit, once it has aborted what was active: the buffer manager writes *)
(* its dirty pages, and the log is forced.                                 *)
Deinit ==
  /\ mode = "run" /\ \A x \in Xids : ~xact[x].active
  /\ flushed' = Len(log)
  /\ cache' = [p \in Pages |-> IF dirty[p] = INVALID_LSN THEN cache[p] ELSE mem[p]]
  /\ Reopen
  /\ UNCHANGED <<log, disk, crashes>>

-----------------------------------------------------------------------------
(* stasis_recovery_analysis, record by record.                             *)
Analyze ==
  /\ mode = "analysis" /\ cursor <= Len(log)
  /\ LET e == log[cursor] IN
     /\ transactionLSN' = [transactionLSN EXCEPT ![e.xid] = cursor]
     /\ rollbackLSNs' = (rollbackLSNs \ {transactionLSN[e.xid]}) \cup
                        (IF e.type \in {"XCOMMIT", "XEND"} THEN {} ELSE {cursor})
  /\ cursor' = cursor + 1
  /\ UNCHANGED <<store, xact, nta, ntaPrev, mode, walk, acked, soft, crashes>>

AnalysisDone ==
  /\ mode = "analysis" /\ cursor > Len(log)
  /\ mode' = "redo" /\ cursor' = trunc
  /\ UNCHANGED <<store, xact, nta, ntaPrev, transactionLSN, rollbackLSNs, walk,
                 acked, soft, crashes>>

(* stasis_recovery_redo.  The page LSN decides whether a page already      *)
(* shows the record; logical records and dummy CLRs touch no page.         *)
RedoRecord(e) ==
  IF e.page = NoPage \/ e.type \notin {"UPDATELOG", "CLRLOG"}
     \/ mem[e.page].lsn >= cursor
  THEN UNCHANGED <<mem, dirty>>
  ELSE IF e.type = "UPDATELOG" THEN Apply(e.page, cursor)
       ELSE Unapply(e.page, e.comp, cursor)

Redo ==
  /\ mode = "redo" /\ cursor <= Len(log)
  /\ LET e == log[cursor] IN
     /\ RedoRecord(e)
     /\ IF e.type \in {"XCOMMIT", "XEND"}
        THEN xact' = [xact EXCEPT ![e.xid] = FreeSlot]
        ELSE RollForward(e.xid, cursor)
  /\ cursor' = cursor + 1
  /\ UNCHANGED <<log, flushed, trunc, cache, disk, nta, ntaPrev, mode,
                 transactionLSN, rollbackLSNs, walk, acked, soft, crashes>>

RedoDone ==
  /\ mode = "redo" /\ cursor > Len(log)
  /\ mode' = "undo"
  /\ UNCHANGED <<store, xact, nta, ntaPrev, cursor, transactionLSN,
                 rollbackLSNs, walk, acked, soft, crashes>>

RecoveryDone ==
  /\ mode = "undo" /\ upc = "idle" /\ rollbackLSNs = {}
  /\ mode' = "run"
  /\ soft' = {}
  /\ UNCHANGED <<store, xact, nta, ntaPrev, cursor, transactionLSN,
                 rollbackLSNs, walk, acked, crashes>>

-----------------------------------------------------------------------------
(* stasis_recovery_undo, for restart and for Tabort.                       *)
PopMaxVal ==
  /\ mode = "undo" /\ upc = "idle"
  /\ \E m \in rollbackLSNs :
       /\ \A n \in rollbackLSNs : n <= m
       /\ rollbackLSNs' = rollbackLSNs \ {m}
       /\ undoLSN' = m /\ undoXid' = log[m].xid
  /\ upc' = "walk"
  /\ reallyAborted' = FALSE
  /\ UNCHANGED <<store, xact, nta, ntaPrev, mode, cursor, transactionLSN,
                 acked, soft, crashes>>

(* previousInTransaction gets NULL for a record that truncation removed,   *)
(* and dereferences it: no step of the model follows.                      *)
Walking(type) == upc = "walk" /\ undoLSN >= trunc /\ log[undoLSN].type = type

UndoPhysical ==
  /\ Walking("UPDATELOG") /\ log[undoLSN].page # NoPage
  /\ LET e == log[undoLSN] IN
     /\ log' = Append(log, CLRRecord(e, undoLSN))
     /\ RollForward(e.xid, undoLSN)
     /\ Unapply(e.page, undoLSN, NextLSN)
     /\ undoLSN' = e.prevLSN
  /\ UNCHANGED <<flushed, trunc, cache, disk, nta, ntaPrev, restart, upc,
                 undoXid, reallyAborted, acked, soft, crashes>>

(* A logical undo runs the inverse operation, which logs and applies an    *)
(* update of its own, to a page it finds then, and writes a dummy CLR.     *)
UndoLogical(p) ==
  /\ Walking("UPDATELOG") /\ log[undoLSN].page = NoPage
  /\ LET e == log[undoLSN] IN
     /\ log' = Append(log, UpdateRecord(e.xid, xact[e.xid].prevLSN, p, undoLSN))
     /\ xact' = Logged(e.xid)
     /\ Apply(p, NextLSN)
  /\ upc' = "logical"
  /\ UNCHANGED <<flushed, trunc, cache, disk, nta, ntaPrev, restart, undoLSN,
                 undoXid, reallyAborted, acked, soft, crashes>>

WriteDummyCLR ==
  /\ upc = "logical"
  /\ log' = Append(log, CLRRecord(log[undoLSN], INVALID_LSN))
  /\ undoLSN' = log[undoLSN].prevLSN
  /\ upc' = "walk"
  /\ UNCHANGED <<flushed, trunc, mem, cache, disk, dirty, xact, nta, ntaPrev,
                 restart, undoXid, reallyAborted, acked, soft, crashes>>

(* Faulty variant: the walk does not move on.                              *)
SkipRecordStuck ==
  /\ Walking("CLRLOG") \/ Walking("XABORT")
  /\ UNCHANGED vars

(* The file pool flushes a record before it reads it back; the first that  *)
(* a walk reads is the last of the transaction.                            *)
SkipRecord ==
  /\ \/ Walking("CLRLOG")
     \/ Walking("XABORT")
     \/ Walking("XPREPARE") /\ reallyAborted
  /\ undoLSN' = log[undoLSN].prevLSN
  /\ reallyAborted' = (reallyAborted \/ log[undoLSN].type = "XABORT")
  /\ flushed' = IF LogType = "file_pool" /\ flushed < undoLSN THEN undoLSN
                ELSE flushed
  /\ UNCHANGED <<log, trunc, mem, cache, disk, dirty, xact, nta, ntaPrev, restart,
                 upc, undoXid, acked, soft, crashes>>

(* Faulty variant: the LSN of the last record undone stays in the table.   *)
StopAtPrepareLate ==
  /\ Walking("XPREPARE") /\ ~reallyAborted
  /\ upc' = "idle" /\ undoLSN' = INVALID_LSN /\ undoXid' = NoXid
  /\ UNCHANGED <<store, xact, nta, ntaPrev, restart, reallyAborted, acked, soft,
                 crashes>>

(* The transaction is left as it was when it prepared.                     *)
StopAtPrepare ==
  /\ Walking("XPREPARE") /\ ~reallyAborted
  /\ RollForward(undoXid, undoLSN)
  /\ upc' = "idle" /\ undoLSN' = INVALID_LSN /\ undoXid' = NoXid
  /\ UNCHANGED <<store, nta, ntaPrev, restart, reallyAborted, acked, soft, crashes>>

(* Tforget: the transaction is rolled back.                                *)
EndRollback ==
  /\ upc = "walk" /\ undoLSN <= 0
  /\ log' = Append(log, Record("XEND", undoXid, xact[undoXid].prevLSN))
  /\ xact' = [xact EXCEPT ![undoXid] = FreeSlot]
  /\ upc' = "idle" /\ undoLSN' = INVALID_LSN /\ undoXid' = NoXid
  /\ UNCHANGED <<flushed, trunc, mem, cache, disk, dirty, nta, ntaPrev, restart,
                 reallyAborted, acked, soft, crashes>>

-----------------------------------------------------------------------------
ClientStep(x) ==
  \/ Begin(x) \/ CommitReadOnly(x) \/ AbortReadOnly(x) \/ Abort(x)
  \/ BeginNTA(x) \/ EndNTA(x) \/ Prepare(x)
  \/ \E p \in Pages : Update(x, p)
  \/ \E force \in BOOLEAN : Commit(x, force)

RestartStep ==
  Analyze \/ AnalysisDone \/ Redo \/ RedoDone \/ PopMaxVal \/ RecoveryDone

UndoStep ==
  \/ UndoPhysical \/ (\E p \in Pages : UndoLogical(p)) \/ WriteDummyCLR \/ SkipRecord
  \/ StopAtPrepare \/ EndRollback

Next ==
  \/ \E x \in Xids : ClientStep(x)
  \/ \E p \in Pages : WriteBack(p)
  \/ ForceCommits \/ LogWriteback \/ Truncate \/ Crash \/ Deinit
  \/ RestartStep \/ UndoStep

Spec == Init /\ [][Next]_vars

(* The thread that runs recovery, or an abort, does not stop.              *)
Fairness == WF_vars(RestartStep) /\ WF_vars(UndoStep)
FairSpec == Spec /\ Fairness

-----------------------------------------------------------------------------
LSNs == 1..Len(log)
Updates == {l \in LSNs : log[l].type = "UPDATELOG" /\ log[l].page # NoPage}
Logicals == {l \in LSNs : log[l].type = "UPDATELOG" /\ log[l].page = NoPage}

(* Types; no LSN in a page, in the dirty page table or in the list of     *)
(* transactions to roll back points past the end of the log.              *)
TypeOK ==
  /\ flushed \in 0..Len(log)
  /\ trunc \in 1..(Len(log) + 1)
  /\ \A p \in Pages : mem[p].lsn \in 0..Len(log) /\ mem[p].applied \subseteq LSNs
  /\ dirty \in [Pages -> {INVALID_LSN} \cup LSNs]
  /\ mode \in {"run", "analysis", "redo", "undo"}
  /\ upc \in {"idle", "walk", "logical"}
  /\ rollbackLSNs \subseteq LSNs

(* The records that a page with LSN upto shows under log lg: every update  *)
(* up to it that no CLR up to it compensates.                              *)
Compensated(lg, l, upto) ==
  \E c \in (l + 1)..upto : lg[c].type = "CLRLOG" /\ lg[c].comp = l

Effect(lg, p, upto) ==
  {l \in 1..upto : lg[l].type = "UPDATELOG" /\ lg[l].page = p
                   /\ ~Compensated(lg, l, upto)}

(* A page, buffered or written or on disk, in whatever state a crash left  *)
(* it, shows exactly the effect of the log up to its own LSN: no record is *)
(* applied twice, skipped, or applied before it is in the stable log.      *)
PagesReflectLog ==
  \A p \in Pages :
    /\ mem[p].applied = Effect(log, p, mem[p].lsn)
    /\ \A f \in {cache[p], disk[p]} :
         f.lsn <= flushed /\ f.applied = Effect(log, p, f.lsn)

(* Whenever transactions run or are undone, each buffered page is up to    *)
(* date with the whole log, although restart read only what truncation     *)
(* left of it.                                                             *)
PagesCurrent ==
  mode \in {"run", "undo"} =>
    \A p \in Pages : mem[p].applied = Effect(log, p, Len(log))

(* How the transaction that wrote record l ended, if it did.               *)
Ends(l) == {e \in (l + 1)..Len(log) : /\ log[e].xid = log[l].xid
                                      /\ log[e].type \in {"XCOMMIT", "XEND"}}
Outcome(l) == IF Ends(l) = {} THEN "open"
              ELSE log[CHOOSE e \in Ends(l) : \A f \in Ends(l) : e <= f].type

InPrepared(l) == \E q \in 1..(l - 1) : /\ log[q].xid = log[l].xid
                                       /\ log[q].type = "XPREPARE"
                                       /\ \A e \in Ends(q) : e > l

(* Atomicity.  Outside restart every transaction that has not ended is in  *)
(* the table; a committed one keeps all its updates, but for those that    *)
(* restart took back when it returned it to its last Tprepare; an aborted  *)
(* one keeps none, where a completed nested top action counts as undone    *)
(* when exactly one inverse of it shows.                                   *)
Atomicity ==
  mode = "run" =>
    /\ \A l \in Updates : LET shown == l \in mem[log[l].page].applied IN
         CASE Outcome(l) = "open" -> xact[log[l].xid].active
           [] Outcome(l) = "XCOMMIT" -> shown \/ InPrepared(l)
           [] OTHER -> shown => \/ log[l].inv # 0
                                \/ \E n \in Logicals : log[n].body = l
    /\ \A n \in Logicals : Outcome(n) = "XEND" =>
         /\ log[n].body \in mem[log[log[n].body].page].applied
         /\ Cardinality({l \in Updates : log[l].inv = n
                           /\ l \in mem[log[l].page].applied}) = 1

(* A commit that Tcommit acknowledged is in every future log.              *)
Durability ==
  \A c \in acked : c[2] <= flushed /\ log[c[2]].type = "XCOMMIT"
                                   /\ log[c[2]].xid = c[1]

(* "whole point of CLR's is to skup this undo" (recovery2.c): an update is *)
(* rolled back once, however often restart is interrupted.                 *)
UndoneOnce ==
  \A c, d \in LSNs :
    log[c].type = "CLRLOG" /\ log[d].type = "CLRLOG" /\ log[c].comp = log[d].comp
    /\ log[c].comp # INVALID_LSN => c = d

(* Recovery and rollback never read a record that truncation removed.      *)
ReadsKeptLog ==
  /\ mode = "undo" => \A l \in rollbackLSNs : l >= trunc
  /\ upc # "idle" /\ undoLSN > 0 => undoLSN >= trunc

(* The assertions of roll_forward and roll_forward_with_reclsn.            *)
RollForwardAsserts ==
  /\ mode = "redo" /\ cursor <= Len(log) =>
       LET x == log[cursor].xid IN
       xact[x].active => xact[x].prevLSN >= log[cursor].prevLSN
  /\ upc = "walk" /\ undoLSN > 0 =>
       /\ xact[undoXid].prevLSN >= log[undoLSN].prevLSN
       /\ log[undoLSN].type \notin {"XCOMMIT", "XEND"}
       /\ Walking("XPREPARE") => xact[undoXid].recLSN =
            (IF log[undoLSN].rec = -1 THEN undoLSN ELSE log[undoLSN].rec)

(* "the current transaction will resume exactly where it was the last time *)
(* Tprepare() was called": when restart is over, a transaction with a      *)
(* stable XPREPARE that was never aborted runs again, from that record.    *)
PrepareResumes ==
  [][mode = "undo" /\ mode' = "run" =>
       \A q \in LSNs :
         /\ log[q].type = "XPREPARE" /\ Ends(q) = {}
         /\ ~\E l \in (q + 1)..Len(log) : log[l].xid = log[q].xid
                                          /\ log[l].type \in {"XPREPARE", "XABORT"}
         => xact[log[q].xid].active /\ xact[log[q].xid].prevLSN = q]_vars

(* "Is this transaction just a loser, or was it aborted?" (recovery2.c): a *)
(* transaction whose XABORT is in the log does not come back as prepared.  *)
AbortedStaysAborted ==
  [][mode = "undo" /\ mode' = "run" =>
       \A a \in LSNs : log[a].type = "XABORT" =>
          \E e \in Ends(a) : log[e].type = "XEND"]_vars

(* "The transaction will still be atomic" (TsoftCommit): after a restart   *)
(* all updates of a softly committed transaction show, or none.            *)
SoftCommitAtomic ==
  [][mode = "undo" /\ mode' = "run" =>
       \A c \in soft : LET shown == {l \in c[3] : \E p \in Pages : l \in mem[p].applied}
                       IN shown = {} \/ shown = c[3]]_vars

(* Restart ends.                                                           *)
RestartEnds == (mode = "analysis") ~> (mode = "run")
=============================================================================
