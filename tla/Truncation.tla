----------------------------- MODULE Truncation -----------------------------
(***************************************************************************)
(* Log truncation against running transactions: truncation.c, with         *)
(* TupdateWithPage (transactional2.c), rollback (recovery2.c), logger2.c,  *)
(* dirtyPageTable.c and the pending entries of both logs, each in the      *)
(* steps that another thread can see.                                      *)
(*                                                                         *)
(* Recovery.tla takes truncation and every update for one step.  Here the  *)
(* truncation thread reads four values one after the other while the       *)
(* others log, apply, commit and roll back.  A crash is not modelled: the  *)
(* properties say what restart must find in the log if one came now.       *)
(***************************************************************************)
EXTENDS Integers, Sequences, FiniteSetsExt, TLC

CONSTANTS Threads,  \* each runs one transaction at a time
          Pages, NoPage,
          LogType,  \* "safe_writes" or "file_pool"
          MinIncrement, \* MIN_INCREMENTAL_TRUNCATION, in records
          LSN_T_MAX, \* larger than every LSN
          MaxLSN    \* bound: no update is logged past this LSN

ASSUME PageAssumption == NoPage \notin Pages
ASSUME LogAssumption == LogType \in {"safe_writes", "file_pool"}
ASSUME BoundAssumption ==
  MinIncrement \in Nat /\ MaxLSN \in Nat /\ LSN_T_MAX \in Nat /\ LSN_T_MAX > MaxLSN

VARIABLES log, flushed, trunc,     \* records, last stable LSN, start of the log
          lsn, written, forced,    \* page -> LSN: buffered, written, on disk
          dirty,                   \* page -> its recLSN, or INVALID_LSN
          pc, cur,                 \* thread -> where it is, the LSN it works on
          recLSN, undo,            \* transaction table; pages to roll back
          tpc, incremental,        \* the truncation thread
          applied, pageRec, xactRec, flushedLSN  \* what it has read

logv == <<log, flushed>>
pagev == <<lsn, written, forced, dirty>>
xactv == <<pc, cur, recLSN, undo>>
readv == <<applied, pageRec, xactRec, flushedLSN>>
truncv == <<trunc, tpc, incremental, readv>>
vars == <<logv, pagev, xactv, truncv>>

INVALID_LSN == -1

Init ==
  /\ log = << >> /\ flushed = 0 /\ trunc = 1
  /\ lsn = [p \in Pages |-> 0] /\ written = lsn /\ forced = lsn
  /\ dirty = [p \in Pages |-> INVALID_LSN]
  /\ pc = [t \in Threads |-> "idle"] /\ cur = [t \in Threads |-> 0]
  /\ recLSN = [t \in Threads |-> INVALID_LSN]
  /\ undo = [t \in Threads |-> << >>]
  /\ tpc = "idle" /\ incremental = FALSE
  /\ applied = 1 /\ pageRec = 1 /\ xactRec = 1 /\ flushedLSN = 1

-----------------------------------------------------------------------------
(* The log.                                                                *)
NextLSN == Len(log) + 1
Page(t) == log[cur[t]].page

(* An entry is pending from reserve_entry to write_entry_done in the       *)
(* safe-writes log; the file pool answers with its write tail, which it    *)
(* moves in write_entry.                                                   *)
Pending == IF LogType = "safe_writes"
           THEN {"reserved", "written", "linked", "applied"} ELSE {"reserved"}

(* Faulty variant: entries that are not applied are ignored.               *)
FirstPendingNext == NextLSN

FirstPending ==
  Min({cur[t] : t \in {u \in Threads : pc[u] \in Pending}} \cup {NextLSN})

(* What can be stable: everything before the first entry not yet written.  *)
Writable ==
  Min({cur[t] : t \in {u \in Threads : pc[u] = "reserved"}} \cup {NextLSN}) - 1

Latched(p) ==
  \E t \in Threads : /\ pc[t] \in {"reserved", "written", "linked", "applied", "clr"}
                     /\ Page(t) = p

LogWrite(kind, p) == log' = Append(log, [kind |-> kind, page |-> p])

-----------------------------------------------------------------------------
(* TupdateWithPage, in the steps of stasis_log_write_update,               *)
(* stasis_operation_do and write_entry_done.  The write mutex of the       *)
(* safe-writes log is held from reserve to write.                          *)
UpdateReserve(t, p) ==
  /\ pc[t] = "idle" /\ ~Latched(p) /\ NextLSN <= MaxLSN
  /\ LogType = "safe_writes" => \A u \in Threads : pc[u] # "reserved"
  /\ LogWrite("update", p)
  /\ pc' = [pc EXCEPT ![t] = "reserved"] /\ cur' = [cur EXCEPT ![t] = NextLSN]
  /\ UNCHANGED <<flushed, pagev, recLSN, undo, truncv>>

UpdateWrite(t) ==
  /\ pc[t] = "reserved"
  /\ pc' = [pc EXCEPT ![t] = "written"]
  /\ UNCHANGED <<logv, pagev, cur, recLSN, undo, truncv>>

UpdateLink(t) ==
  /\ pc[t] = "written"
  /\ pc' = [pc EXCEPT ![t] = "linked"]
  /\ recLSN' = IF recLSN[t] = INVALID_LSN THEN [recLSN EXCEPT ![t] = cur[t]]
               ELSE recLSN
  /\ undo' = [undo EXCEPT ![t] = <<Page(t)>> \o @]
  /\ UNCHANGED <<logv, pagev, cur, truncv>>

(* stasis_page_lsn_write and set_dirty.                                    *)
SetDirty(p, l) ==
  /\ lsn' = [lsn EXCEPT ![p] = l]
  /\ dirty' = IF dirty[p] = INVALID_LSN THEN [dirty EXCEPT ![p] = l] ELSE dirty
  /\ UNCHANGED <<written, forced>>

UpdateApply(t) ==
  /\ pc[t] = "linked"
  /\ pc' = [pc EXCEPT ![t] = "applied"]
  /\ SetDirty(Page(t), cur[t])
  /\ UNCHANGED <<logv, cur, recLSN, undo, truncv>>

UpdateDone(t) ==
  /\ pc[t] = "applied"
  /\ pc' = [pc EXCEPT ![t] = "idle"] /\ cur' = [cur EXCEPT ![t] = 0]
  /\ UNCHANGED <<logv, pagev, recLSN, undo, truncv>>

(* Tcommit: the record, then the force and the end of the transaction.     *)
CommitLog(t) ==
  /\ pc[t] = "idle" /\ recLSN[t] # INVALID_LSN
  /\ LogType = "safe_writes" => \A u \in Threads : pc[u] # "reserved"
  /\ LogWrite("xact", NoPage)
  /\ pc' = [pc EXCEPT ![t] = "committing"] /\ cur' = [cur EXCEPT ![t] = NextLSN]
  /\ UNCHANGED <<flushed, pagev, recLSN, undo, truncv>>

EndTransaction(t) ==
  /\ pc' = [pc EXCEPT ![t] = "idle"] /\ cur' = [cur EXCEPT ![t] = 0]
  /\ recLSN' = [recLSN EXCEPT ![t] = INVALID_LSN]
  /\ undo' = [undo EXCEPT ![t] = << >>]

CommitEnd(t) ==
  /\ pc[t] = "committing" /\ Writable >= cur[t]
  /\ flushed' = IF flushed < cur[t] THEN Writable ELSE flushed
  /\ EndTransaction(t)
  /\ UNCHANGED <<log, pagev, truncv>>

(* Tabort and stasis_recovery_undo: each CLR is written, and no longer     *)
(* pending, before the page is restored.                                   *)
AbortLog(t) ==
  /\ pc[t] = "idle" /\ recLSN[t] # INVALID_LSN
  /\ LogType = "safe_writes" => \A u \in Threads : pc[u] # "reserved"
  /\ LogWrite("xact", NoPage)
  /\ pc' = [pc EXCEPT ![t] = "undoing"]
  /\ UNCHANGED <<flushed, pagev, cur, recLSN, undo, truncv>>

UndoWriteCLR(t) ==
  /\ pc[t] = "undoing" /\ undo[t] # << >> /\ ~Latched(Head(undo[t]))
  /\ LogType = "safe_writes" => \A u \in Threads : pc[u] # "reserved"
  /\ LogWrite("clr", Head(undo[t]))
  /\ pc' = [pc EXCEPT ![t] = "clr"] /\ cur' = [cur EXCEPT ![t] = NextLSN]
  /\ UNCHANGED <<flushed, pagev, recLSN, undo, truncv>>

UndoApply(t) ==
  /\ pc[t] = "clr"
  /\ pc' = [pc EXCEPT ![t] = "undoing"] /\ cur' = [cur EXCEPT ![t] = 0]
  /\ undo' = [undo EXCEPT ![t] = Tail(@)]
  /\ SetDirty(Page(t), cur[t])
  /\ UNCHANGED <<logv, recLSN, truncv>>

AbortEnd(t) ==
  /\ pc[t] = "undoing" /\ undo[t] = << >>
  /\ LogType = "safe_writes" => \A u \in Threads : pc[u] # "reserved"
  /\ LogWrite("xact", NoPage)
  /\ EndTransaction(t)
  /\ UNCHANGED <<flushed, pagev, truncv>>

-----------------------------------------------------------------------------
(* The buffer manager writes a page that no thread has pinned, after the   *)
(* log; the writeback thread, or another commit, makes records stable.     *)
WriteBack(p) ==
  /\ dirty[p] # INVALID_LSN /\ ~Latched(p) /\ Writable >= lsn[p]
  /\ flushed' = IF flushed < lsn[p] THEN Writable ELSE flushed
  /\ written' = [written EXCEPT ![p] = lsn[p]]
  /\ dirty' = [dirty EXCEPT ![p] = INVALID_LSN]
  /\ UNCHANGED <<log, lsn, forced, xactv, truncv>>

LogFlush ==
  /\ flushed < Writable
  /\ flushed' = Writable
  /\ UNCHANGED <<log, pagev, xactv, truncv>>

-----------------------------------------------------------------------------
(* stasis_truncation_truncate; what it has read is dead once it returns.   *)
Return ==
  /\ tpc' = "idle" /\ incremental' = FALSE
  /\ applied' = 1 /\ pageRec' = 1 /\ xactRec' = 1 /\ flushedLSN' = 1

PageMinRecLSN == Min(({dirty[p] : p \in Pages} \ {INVALID_LSN}) \cup {LSN_T_MAX})

(* Faulty variant: the running transactions are ignored.                   *)
XactMinRecLSNNone == LSN_T_MAX

XactMinRecLSN == Min(({recLSN[t] : t \in Threads} \ {INVALID_LSN}) \cup {LSN_T_MAX})

ReadPending ==
  /\ tpc = "idle" /\ tpc' = "pages"
  /\ applied' = FirstPending
  /\ UNCHANGED <<logv, pagev, xactv, trunc, incremental, pageRec, xactRec, flushedLSN>>

ReadPages ==
  /\ tpc = "pages" /\ tpc' = "xacts"
  /\ pageRec' = PageMinRecLSN
  /\ UNCHANGED <<logv, pagev, xactv, trunc, incremental, applied, xactRec, flushedLSN>>

ReadXacts ==
  /\ tpc = "xacts" /\ tpc' = "flushed"
  /\ xactRec' = XactMinRecLSN
  /\ UNCHANGED <<logv, pagev, xactv, trunc, incremental, applied, pageRec, flushedLSN>>

ReadFlushed ==
  /\ tpc = "flushed" /\ tpc' = "decide"
  /\ flushedLSN' = flushed + 1
  /\ UNCHANGED <<logv, pagev, xactv, trunc, incremental, applied, pageRec, xactRec>>

Target == Min({applied, pageRec, xactRec, flushedLSN})

(* The first branch.                                                       *)
Increment ==
  /\ tpc = "decide" /\ Target - trunc > MinIncrement
  /\ tpc' = "force" /\ incremental' = TRUE
  /\ UNCHANGED <<logv, pagev, xactv, trunc, readv>>

(* Too little to gain, and the truncation is not forced: nothing happens.  *)
GiveUp ==
  /\ tpc = "decide" /\ Target - trunc <= MinIncrement
  /\ Return
  /\ UNCHANGED <<logv, pagev, xactv, trunc>>

(* The second branch: pending entries are read again, then WriteBack steps *)
(* flush dirty pages, then their recLSNs are read again; the transactions  *)
(* and the end of the log are not.                                         *)
FlushDirty ==
  /\ tpc = "decide" /\ Target - trunc <= MinIncrement
  /\ tpc' = "repages" /\ incremental' = FALSE
  /\ applied' = FirstPending /\ pageRec' = 1
  /\ UNCHANGED <<logv, pagev, xactv, trunc, xactRec, flushedLSN>>

(* EAGAIN: another flush was under way.                                    *)
FlushAgain ==
  /\ tpc = "repages"
  /\ applied' = FirstPending
  /\ UNCHANGED <<logv, pagev, xactv, trunc, tpc, incremental, pageRec, xactRec,
                 flushedLSN>>

RereadPages ==
  /\ tpc = "repages" /\ tpc' = "force"
  /\ pageRec' = PageMinRecLSN
  /\ UNCHANGED <<logv, pagev, xactv, trunc, incremental, applied, xactRec, flushedLSN>>

ForcePages ==
  /\ tpc = "force" /\ tpc' = "cut"
  /\ forced' = written
  /\ UNCHANGED <<logv, lsn, written, dirty, xactv, trunc, incremental, readv>>

(* The safe-writes log returns when it has been cut further already; the   *)
(* file pool drops whole chunks, and so perhaps less.                      *)
Cut ==
  /\ tpc = "cut" /\ Return
  /\ trunc' \in IF LogType = "file_pool" THEN trunc..Max({trunc, Target})
                ELSE {Max({trunc, Target})}
  /\ UNCHANGED <<logv, pagev, xactv>>

-----------------------------------------------------------------------------
ThreadStep(t) ==
  \/ \E p \in Pages : UpdateReserve(t, p)
  \/ UpdateWrite(t) \/ UpdateLink(t) \/ UpdateApply(t) \/ UpdateDone(t)
  \/ CommitLog(t) \/ CommitEnd(t)
  \/ AbortLog(t) \/ UndoWriteCLR(t) \/ UndoApply(t) \/ AbortEnd(t)

TruncationStep ==
  \/ ReadPending \/ ReadPages \/ ReadXacts \/ ReadFlushed
  \/ Increment \/ GiveUp \/ FlushDirty \/ FlushAgain \/ RereadPages
  \/ ForcePages \/ Cut

Next ==
  \/ \E t \in Threads : ThreadStep(t)
  \/ \E p \in Pages : WriteBack(p)
  \/ LogFlush \/ TruncationStep

Spec == Init /\ [][Next]_vars

-----------------------------------------------------------------------------
(* The types; the log is cut within its stable part, so that an LSN is     *)
(* never used twice.                                                       *)
TypeOK ==
  /\ flushed \in 0..Len(log) /\ trunc \in 1..(flushed + 1)
  /\ \A p \in Pages : /\ forced[p] <= written[p] /\ written[p] <= lsn[p]
                      /\ written[p] <= flushed
                      /\ lsn[p] <= Len(log)
                      /\ dirty[p] \in {INVALID_LSN} \cup 1..Len(log)
  /\ \A t \in Threads : recLSN[t] \in {INVALID_LSN} \cup 1..Len(log)

Needed(l) == log[l].page # NoPage /\ l > forced[log[l].page]

(* "truncation could truncate the log past the point that we are at": it   *)
(* does not; an update that the page on disk lacks is in the log, however  *)
(* long its thread waits between logging and applying it.                  *)
UpdatesKept ==
  \A l \in 1..Len(log) : log[l].kind = "update" /\ Needed(l) => l >= trunc

(* The same for the CLRs of a rollback.  The code does not keep them: a CLR *)
(* is no longer pending when its page is restored.  No run checks this.    *)
CLRsKept ==
  \A l \in 1..Len(log) : log[l].kind = "clr" /\ Needed(l) => l >= trunc

(* The first record of the transaction that thread t runs.                 *)
FirstRecord(t) ==
  IF recLSN[t] # INVALID_LSN THEN recLSN[t]
  ELSE IF pc[t] \in {"reserved", "written"} THEN cur[t] ELSE LSN_T_MAX

(* An incremental truncation keeps what the rollback of each running       *)
(* transaction needs, also of one that began after it read the table.      *)
IncrementKeepsUndo ==
  [][tpc = "cut" /\ tpc' = "idle" /\ incremental =>
       \A t \in Threads : FirstRecord(t) >= trunc']_vars

(* The same for a truncation that flushed pages.  The code does not ensure *)
(* it: xact_rec_lsn is the value read before the flush, while applied_lsn  *)
(* is read again.  No run checks this.                                     *)
FlushKeepsUndo ==
  [][tpc = "cut" /\ tpc' = "idle" /\ ~incremental =>
       \A t \in Threads : FirstRecord(t) >= trunc']_vars

(* Threads run the same code on private state.                             *)
Symmetry == Permutations(Threads)
=============================================================================
