----------------------------- MODULE SafeWrites -----------------------------
(* logger/safeWrites.c: the log in one file. Entries are buffered by stdio;   *)
(* force_tail writes an entry with the checksum of those since the last one,  *)
(* flushes and syncs; truncation copies the tail to a new file and renames    *)
(* it; opening scans for the last checksum that fits. A step is what a thread *)
(* does under one mutex, or one system call. LSNs count entries, and the      *)
(* header takes the place of one.                                             *)
EXTENDS Integers, Sequences, FiniteSets, TLC

CONSTANTS Threads, Soft, \* softcommit
          OSync,         \* the file is opened with O_SYNC
          MaxLsn, MaxCrashes, None

VARIABLES obj, call, ans

vars == <<obj, call, ans>>

FREE == 0
WAL == "wal"
COMMIT == "commit"
Idle == [pc |-> "idle", lsn |-> 0, mode |-> None, tmp |-> <<>>]
Update(lsn, v) == [lsn |-> lsn, v |-> v, crc |-> None]
INTERNALLOG(lsn, crc) == [lsn |-> lsn, v |-> None, crc |-> crc]
IsCrc(e) == e.v = None
Junk(e) == [e EXCEPT !.v = -1]

(* log_crc_next_lsn() adds up the entries it reads. A checksum entry that     *)
(* says zero is taken as it is; one that does not fit ends the log.           *)
RECURSIVE CrcNextLsn(_, _, _, _)
CrcNextLsn(file, i, crc, ret) ==
  IF i > Len(file) THEN ret
  ELSE LET e == file[i] IN
       IF ~IsCrc(e) THEN CrcNextLsn(file, i + 1, Append(crc, <<e.lsn, e.v>>), ret)
       ELSE IF e.crc \in {<<>>, crc} THEN CrcNextLsn(file, i + 1, <<>>, i + 1)
       ELSE ret

(* stasis_log_safe_writes_open(): what follows the last checksum is cut off.  *)
Open(offset, file, epoch, forced, hist) ==
  LET n == CrcNextLsn(file, 1, <<>>, 1) - 1
      next == offset + 1 + n
  IN [fp |-> "open",
      file |-> SubSeq(file, 1, n),  \* what write() passed on
      synced |-> n,                 \* how many of these are on the disk for sure
      buf |-> <<>>,                 \* stdio's buffer
      offset |-> offset,            \* global_offset
      next |-> next,                \* nextAvailableLSN
      wal |-> next, commit |-> next, internal |-> next, \* flushedLSN_*
      crc |-> <<>>,
      pending |-> {},               \* minPending
      tm |-> FREE, wm |-> FREE, rm |-> FREE, nm |-> FREE, \* the mutexes
      t |-> [t \in Threads |-> Idle],
      epoch |-> epoch,              \* which run of the program this is
      forced |-> forced,            \* the highest LSN that a force promised
      hist |-> [l \in {l \in DOMAIN hist : l < next} |-> hist[l]]] \* what was appended

Init == /\ obj = Open(0, <<>>, 0, 0, [l \in {} |-> 0])
        /\ call = <<"open", None>>
        /\ ans = None

Silent == call' = <<"step", None>> /\ ans' = None
At(t, pc) == obj.t[t].pc = pc
Go(o, t, pc) == [o EXCEPT !.t[t].pc = pc]
Max(x, y) == IF x > y THEN x ELSE y

(* fflush(): with O_SYNC what it writes is on the disk. While truncation has  *)
(* the stream closed there is nothing that it could write.                    *)
Fflush(o) ==
  IF o.fp = "closed" THEN o
  ELSE LET file == o.file \o o.buf IN
       [o EXCEPT !.file = file, !.buf = <<>>, !.synced = IF OSync THEN Len(file) ELSE @]

(* Faulty variant: the checksum is not reset after it was written.            *)
WriteEntryKept(o, e) ==
  [o EXCEPT !.buf = Append(@, IF IsCrc(e) THEN [e EXCEPT !.crc = o.crc] ELSE e),
            !.crc = IF IsCrc(e) THEN @ ELSE Append(@, <<e.lsn, e.v>>),
            !.next = e.lsn + 1, !.hist = @ @@ (e.lsn :> e.v)]

(* writeLogEntryUnlocked(): a checksum entry takes the sum and resets it.     *)
WriteEntry(o, e) ==
  [o EXCEPT !.buf = Append(@, IF IsCrc(e) THEN [e EXCEPT !.crc = o.crc] ELSE e),
            !.crc = IF IsCrc(e) THEN <<>> ELSE Append(@, <<e.lsn, e.v>>),
            !.next = e.lsn + 1, !.hist = @ @@ (e.lsn :> e.v)]

(* reserveEntry_LogWriter() and writeLogEntry_LogWriter(): write_mutex is     *)
(* held from one to the other. The entry is pending until entryDone().        *)
AppendEntry(t) ==
  /\ At(t, "idle") /\ obj.wm = FREE /\ obj.nm = FREE /\ obj.next < MaxLsn
  /\ obj' = [WriteEntry(obj, Update(obj.next, obj.epoch)) EXCEPT
               !.pending = @ \cup {obj.next}, !.t[t] = [Idle EXCEPT !.pc = "done", !.lsn = obj.next]]
  /\ Silent

EntryDone(t) ==
  /\ At(t, "done") /\ obj.nm = FREE
  /\ obj' = [obj EXCEPT !.pending = @ \ {obj.t[t].lsn}, !.t[t] = Idle]
  /\ Silent

(* syncLog_LogWriter(): log_crc_entry() appends the checksum, then, with no   *)
(* mutex held, the stream is flushed and synced and flushedLSN_* move.        *)
SyncLog(t, mode) ==
  /\ At(t, "idle") /\ obj.wm = FREE /\ obj.nm = FREE /\ obj.next < MaxLsn
  /\ obj' = [WriteEntry(obj, INTERNALLOG(obj.next, <<>>)) EXCEPT
               !.t[t] = [Idle EXCEPT !.pc = "flush", !.lsn = obj.next + 1, !.mode = mode]]
  /\ Silent

SyncFlush(t) == At(t, "flush") /\ obj' = Go(Fflush(obj), t, "sync") /\ Silent

Syncs(mode) == (Soft /\ mode = WAL) \/ ~(Soft \/ OSync)
SyncDisk(t) ==
  /\ At(t, "sync")
  /\ obj' = Go(IF Syncs(obj.t[t].mode) /\ obj.fp = "open"
               THEN [obj EXCEPT !.synced = Len(obj.file)] ELSE obj, t, "publish")
  /\ Silent

(* Faulty variant: a soft commit counts as durable.                           *)
PublishSoft(t) ==
  LET c == obj.t[t] IN
  /\ At(t, "publish")
  /\ obj' = [obj EXCEPT !.wal = Max(@, c.lsn), !.forced = Max(@, c.lsn), !.commit = Max(@, c.lsn),
                        !.internal = Max(@, c.lsn), !.t[t] = Idle]
  /\ call' = <<"force", c.mode>> /\ ans' = c.lsn

Publish(t) ==
  LET c == obj.t[t]
      hard == ~Soft \/ c.mode = WAL
      up(old) == IF hard THEN Max(old, c.lsn) ELSE old
  IN /\ At(t, "publish")
     /\ obj' = [obj EXCEPT !.wal = up(@), !.forced = up(@), !.commit = Max(@, c.lsn),
                           !.internal = Max(@, c.lsn), !.t[t] = Idle]
     /\ call' = <<"force", c.mode>> /\ ans' = c.lsn

(* readLSNEntry_LogWriter(): beyond the end; or under read_mutex, after stdio *)
(* was flushed if the entry is not in the file yet. Callers ask for entries   *)
(* they know of: their own, or those of a transaction that rolls back.        *)
ReadEntry(t, lsn) ==
  /\ At(t, "idle") /\ obj.nm = FREE
  /\ lsn \in DOMAIN obj.hist /\ obj.hist[lsn] # None /\ lsn \notin obj.pending
  /\ obj' = [obj EXCEPT !.t[t] = [Idle EXCEPT !.pc = "reading", !.lsn = lsn]]
  /\ Silent

(* Faulty variant: the entry right after the flushed ones is taken for one.   *)
LockReadLess(t) ==
  /\ At(t, "reading") /\ obj.rm = FREE
  /\ obj' = [Go(obj, t, IF obj.internal < obj.t[t].lsn THEN "check" ELSE "get") EXCEPT !.rm = t]
  /\ Silent

LockRead(t) ==
  /\ At(t, "reading") /\ obj.rm = FREE
  /\ obj' = [Go(obj, t, IF obj.internal <= obj.t[t].lsn THEN "check" ELSE "get") EXCEPT !.rm = t]
  /\ Silent

(* syncLogInternal(). When a force has come between it and the check there is *)
(* nothing to flush: it returns without unlocking nextAvailableLSN_mutex.     *)
SyncInternal(t) ==
  /\ At(t, "check") /\ obj.nm = FREE
  /\ obj' = IF obj.next > obj.internal
            THEN [Go(obj, t, "fill") EXCEPT !.t[t].tmp = <<obj.next>>]
            ELSE [Go(obj, t, "get") EXCEPT !.nm = t]
  /\ Silent

Fill(t) ==
  /\ At(t, "fill")
  /\ obj' = [Go(Fflush(obj), t, "get") EXCEPT !.internal = Max(@, obj.t[t].tmp[1]), !.t[t].tmp = <<>>]
  /\ Silent

(* What lseek() and read() find: below the header, an entry, or no entry.     *)
Get(t) ==
  LET lsn == obj.t[t].lsn IN
  /\ At(t, "get")
  /\ obj' = [obj EXCEPT !.rm = FREE, !.t[t] = Idle]
  /\ call' = <<"read", lsn>>
  /\ ans' = IF obj.offset >= lsn THEN <<"null">>
            ELSE IF lsn - obj.offset \in DOMAIN obj.file
            THEN <<"entry", obj.file[lsn - obj.offset]>> ELSE <<"eof">>

(* truncateLog_LogWriter(): nobody else truncates, then nobody writes while   *)
(* the tail is copied and synced. The first checksum of the copy is set to    *)
(* zero, for it covers entries that are gone, and a zero one is added.        *)
TruncateLog(t, lsn) ==
  /\ At(t, "idle") /\ obj.tm = FREE
  /\ lsn \in obj.offset + 2 .. obj.next - 1 /\ \A l \in obj.pending : lsn <= l
  /\ obj' = [obj EXCEPT !.tm = t, !.t[t] = [Idle EXCEPT !.pc = "copy", !.lsn = lsn]]
  /\ Silent

(* Faulty variant: the first checksum is copied as it is.                     *)
CopiedAsIs(file) == file

Copied(file) ==
  LET crcs == {i \in DOMAIN file : IsCrc(file[i])}
      first == CHOOSE i \in crcs : \A j \in crcs : i <= j
  IN IF crcs = {} THEN file ELSE [file EXCEPT ![first].crc = <<>>]

CopyTail(t) ==
  LET lsn == obj.t[t].lsn
      o == Fflush(obj)
      tmp == Copied(SubSeq(o.file, lsn - o.offset, Len(o.file)))
  IN /\ At(t, "copy") /\ obj.wm = FREE /\ obj.rm = FREE /\ obj.nm = FREE /\ obj.next < MaxLsn
     /\ obj' = [Go(o, t, "close") EXCEPT !.wm = t, !.t[t].tmp = Append(tmp, INTERNALLOG(o.next, <<>>)),
                  !.next = @ + 1, !.crc = <<>>, !.hist = @ @@ (o.next :> None)]
     /\ Silent

(* Readers are shut out, the old file is closed, and the copy is renamed.     *)
CloseOld(t) ==
  /\ At(t, "close") /\ obj.rm = FREE
  /\ obj' = [Go(obj, t, "rename") EXCEPT !.rm = t, !.fp = "closed"]
  /\ Silent

(* Faulty variant: the header of the new file is not counted.                 *)
RenameBare(t) ==
  LET c == obj.t[t] IN
  /\ At(t, "rename")
  /\ obj' = [obj EXCEPT !.fp = "open", !.file = c.tmp, !.synced = Len(c.tmp), !.offset = c.lsn,
                        !.tm = FREE, !.wm = FREE, !.rm = FREE, !.t[t] = Idle]
  /\ call' = <<"truncate", c.lsn>> /\ ans' = None

Rename(t) ==
  LET c == obj.t[t] IN
  /\ At(t, "rename")
  /\ obj' = [obj EXCEPT !.fp = "open", !.file = c.tmp, !.synced = Len(c.tmp), !.offset = c.lsn - 1,
                        !.tm = FREE, !.wm = FREE, !.rm = FREE, !.t[t] = Idle]
  /\ call' = <<"truncate", c.lsn>> /\ ans' = None

(* The machine fails. Of what was not synced some is lost: the file ends      *)
(* anywhere after the synced part, and entries there may hold anything.       *)
Crash ==
  LET all == obj.file \o obj.buf IN
  /\ obj.epoch < MaxCrashes
  /\ \E n \in obj.synced .. Len(all) : \E lost \in SUBSET (obj.synced + 1 .. n) :
       /\ \A i \in lost : ~IsCrc(all[i])
       /\ obj' = Open(obj.offset, [i \in 1 .. n |-> IF i \in lost THEN Junk(all[i]) ELSE all[i]],
                      obj.epoch + 1, obj.forced, obj.hist)
  /\ call' = <<"crash", None>> /\ ans' = None

Next == \/ \E t \in Threads :
             \/ AppendEntry(t) \/ EntryDone(t)
             \/ \E mode \in {WAL, COMMIT} : SyncLog(t, mode)
             \/ SyncFlush(t) \/ SyncDisk(t) \/ Publish(t)
             \/ \E lsn \in 1 .. MaxLsn : ReadEntry(t, lsn) \/ TruncateLog(t, lsn)
             \/ LockRead(t) \/ SyncInternal(t) \/ Fill(t) \/ Get(t)
             \/ CopyTail(t) \/ CloseOld(t) \/ Rename(t)
        \/ Crash
-----------------------------------------------------------------------------
(* Whatever a force promised is still there after truncations and crashes: a  *)
(* torn entry never hides one that was forced before it.                      *)
ForcedKept == obj.forced <= obj.next

(* The file and the buffer hold the entries from global_offset to the end, as *)
(* they were appended, each at the place its LSN says. It is what the checks  *)
(* of lengths in truncateLog_LogWriter() abort for. Only truncation keeps     *)
(* write_mutex: its new entry is in the copy.                                 *)
LogExact ==
  LET all == obj.file \o obj.buf IN
  /\ obj.next = obj.offset + 1 + Len(all) + (IF obj.wm = FREE THEN 0 ELSE 1)
  /\ \A i \in DOMAIN all : all[i].lsn = obj.offset + i /\ all[i].v = obj.hist[obj.offset + i]


(* A thread that is not in a call of the log holds none of its mutexes.       *)
(* Refuted by TLC: the code does not ensure it. No run checks this.           *)
MutexesReleased ==
  \A t \in DOMAIN obj.t : At(t, "idle") => t \notin {obj.tm, obj.wm, obj.rm, obj.nm}
=============================================================================
