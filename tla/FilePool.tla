------------------------------ MODULE FilePool ------------------------------
(* logger/filePool.c: the log in chunk files. Writers reserve space in the    *)
(* ring buffer and open a new chunk when an entry would not fit; one worker   *)
(* writes what is in the ring to the chunks; another keeps an empty file at   *)
(* hand; truncation turns old chunks into files to use again. A step is what  *)
(* a thread does under fp->mut, or one call of the ring or of the system. An  *)
(* entry is three units: its length, its CRC and its body.                    *)
EXTENDS Integers, Sequences, FiniteSets, TLC

CONSTANTS Writers, Readers, Truncators, \* threads that append, read and truncate
          Target,     \* target_chunk_size
          Ring,       \* bytes in the ring; as in the code less than Target
          Batch,      \* what the writeback worker asks the ring for
          Reordered,  \* a torn write may have stored its end and not its start
          MaxOffset, MaxRestarts, None

VARIABLES obj, call, ans

vars == <<obj, call, ans>>

Callers == Writers \cup Readers \cup Truncators
SIZE == 3
FREE == 0
PREALLOC == -1
DEAD_THRESHOLD == 1
LIVE(lsn) == <<"log", lsn>>
DEAD(lsn) == <<"log~", lsn>>
ZERO == [off |-> 0, era |-> 0] \* a unit of a file; otherwise whose it is, and of which run
Idle == [pc |-> "idle", off |-> 0, to |-> 0, fd |-> 0, base |-> 0]
Stopped == [pc |-> "idle", off |-> 0, len |-> 0, c |-> 0, end |-> 0, vec |-> <<>>, done |-> 0]

SetMin(S, default) == IF S = {} THEN default ELSE CHOOSE x \in S : \A y \in S : x <= y
SetMax(S) == CHOOSE x \in S : \A y \in S : y <= x

(* pwrite() of the units off, off + 1, ... of the log at their place.         *)
Pwrite(file, base, off, units) ==
  [i \in 1 .. (IF units = <<>> THEN Len(file) ELSE SetMax({Len(file), off - base + Len(units)})) |->
     IF i - 1 \in off - base .. off - base + Len(units) - 1 THEN units[i - (off - base)]
     ELSE IF i <= Len(file) THEN file[i] ELSE ZERO]

(* stasis_log_file_pool_chunk_read_entry(): the LSN and era of the entry at a *)
(* place. An entry of an earlier use of the file has a CRC that fits, too.    *)
ReadAt(file, i) ==
  IF i + SIZE > Len(file) \/ file[i + 1] = ZERO THEN <<"eof">>
  ELSE LET e == file[i + 1] IN
       IF e.off % SIZE = 1 /\ \A j \in 1 .. SIZE - 1 : file[i + 1 + j] = [e EXCEPT !.off = @ + j]
       THEN <<"entry", e.off, e.era>> ELSE <<"crc">>

(* Faulty variant: only the first entry is read.                              *)
ScrubToEofOnce(file, base, cur) ==
  LET e == ReadAt(file, cur - base) IN IF e[1] = "entry" THEN e[2] + SIZE ELSE cur

(* stasis_log_file_pool_chunk_scrub_to_eof(). The next LSN is the entry's own *)
(* plus its size; a negative file offset makes pread() fail: -1.              *)
RECURSIVE ScrubToEof(_, _, _)
ScrubToEof(file, base, cur) ==
  IF cur < base THEN -1
  ELSE LET e == ReadAt(file, cur - base) IN
       IF e[1] = "entry" THEN ScrubToEof(file, base, e[2] + SIZE) ELSE cur

(* What open() finds: the files in the order of their names. It asserts that  *)
(* each live one starts within the one before it, and scans the last.         *)
RECURSIVE SortedLsns(_)
SortedLsns(S) == IF S = {} THEN <<>> ELSE <<SetMin(S, 0)>> \o SortedLsns(S \ {SetMin(S, 0)})

Open(files, dir, era, stable, hist) ==
  LET lsns(kind) == SortedLsns({n[2] : n \in {m \in DOMAIN dir : m[1] = kind}})
      l == lsns("log")
      d == lsns("log~")
      arr == [i \in DOMAIN l |-> [off |-> l[i], fd |-> dir[LIVE(l[i])]]]
      chained == \A i \in 1 .. Len(l) - 1 : l[i + 1] <= l[i] + Len(files[arr[i].fd])
      next == ScrubToEof(files[arr[Len(arr)].fd], l[Len(l)], l[Len(l)])
      up == IF chained /\ next # -1 THEN "open" ELSE "aborted"
      there(lsn) == \E i \in DOMAIN l : /\ lsn >= l[i]
                                       /\ ReadAt(files[arr[i].fd], lsn - l[i]) = <<"entry", lsn, hist[lsn]>>
      kept == {lsn \in DOMAIN hist : lsn < next /\ (lsn < stable \/ there(lsn))}
  IN [up |-> up,
      files |-> files,                      \* contents, by file
      dir |-> dir,                          \* name -> file
      arr |-> arr, live |-> Len(arr),       \* live_offsets and ro_fd, live_count
      dead |-> [i \in DOMAIN d |-> DEAD(d[i])], \* dead_filenames
      rt |-> next, rf |-> next, wf |-> next, flush |-> 0, \* the ring's
      t |-> [t \in Callers |-> Idle], w |-> Stopped,
      p |-> "loop", mut |-> FREE, shutdown |-> FALSE,
      era |-> era,
      hist |-> [lsn \in kept |-> hist[lsn]]] \* entry -> the run that appended it

Init == /\ obj = Open(<< <<>> >>, (LIVE(1) :> 1), 0, 1, [l \in {} |-> 0])
        /\ call = <<"open", None>>
        /\ ans = None

Silent == call' = <<"step", None>> /\ ans' = None
Answer(op, arg, a) == call' = <<op, arg>> /\ ans' = a
At(t, pc) == obj.up = "open" /\ obj.t[t].pc = pc
Go(o, t, pc) == [o EXCEPT !.t[t].pc = pc]
Abort(o) == [o EXCEPT !.up = "aborted"]
Flush(o, off) == [o EXCEPT !.flush = IF @ < off THEN off ELSE @]

(* The ring's write tail, and the tail of what its writers still read.        *)
WriteTail(o) ==
  SetMin({o.t[t].off : t \in {u \in Callers : o.t[u].pc \in {"chunk", "barrier", "write"}}}, o.wf)
ReadingWriterTail(o) ==
  SetMin({o.t[t].off : t \in {u \in Callers : o.t[u].pc \in {"chunk", "barrier", "write", "apply"}}}, o.wf)

(* get_chunk_from_offset(): 0 when there is none.                             *)
GetChunk(o, lsn) ==
  IF o.arr[o.live].off <= lsn /\ o.arr[o.live].off + Target > lsn THEN o.live
  ELSE SetMin({i \in 1 .. o.live : o.arr[i].off > lsn}, 1) - 1

(* stasis_log_file_pool_append_chunk(): takes the last dead file, if any.     *)
AppendChunk(o, off) ==
  LET n == Len(o.dead)
      old == o.dead[n]
      add(q, f) == [q EXCEPT !.arr = Append(SubSeq(@, 1, o.live), [off |-> off, fd |-> f]),
                             !.live = @ + 1]
  IN IF n = 0
     THEN LET f == Len(o.files) + 1 IN
          add([o EXCEPT !.files = Append(@, <<>>), !.dir = @ @@ (LIVE(off) :> f)], f)
     ELSE IF old \notin DOMAIN o.dir THEN Abort(o)
     ELSE add([o EXCEPT !.dead = SubSeq(@, 1, n - 1),
                        !.p = IF n - 1 < DEAD_THRESHOLD /\ @ = "wait" THEN "loop" ELSE @,
                        !.dir = [m \in DOMAIN o.dir \ {old} |-> o.dir[m]] @@ (LIVE(off) :> o.dir[old])],
              o.dir[old])

(* stasis_log_file_pool_reserve_entry(): space in the ring, ...               *)
Reserve(t) ==
  /\ At(t, "idle") /\ obj.wf + SIZE <= MaxOffset
  /\ obj.wf + SIZE - SetMin({obj.rt, ReadingWriterTail(obj)}, 0) < Ring
  /\ obj' = [obj EXCEPT !.wf = @ + SIZE, !.t[t] = [Idle EXCEPT !.pc = "chunk", !.off = obj.wf]]
  /\ Silent

(* ... a chunk for the whole entry, and what is before that chunk written.    *)
ReserveChunk(t) ==
  LET off == obj.t[t].off
      fits == GetChunk(obj, off + SIZE) # 0
      o == IF fits THEN obj ELSE AppendChunk(obj, off)
      barrier == o.arr[o.live].off - 1
  IN /\ At(t, "chunk") /\ obj.mut = FREE
     /\ obj' = IF o.up = "aborted" THEN o
               ELSE IF ~fits /\ GetChunk(o, off) # o.live THEN Abort(o)
               ELSE IF barrier < off THEN [Go(Flush(o, barrier), t, "barrier") EXCEPT !.t[t].to = barrier]
               ELSE Go(o, t, "write")
     /\ Silent

Barrier(t) == At(t, "barrier") /\ obj.rt >= obj.t[t].to /\ obj' = Go(obj, t, "write") /\ Silent

(* stasis_log_file_pool_write_entry() and _write_entry_done().                *)
WriteEntry(t) ==
  /\ At(t, "write")
  /\ obj' = [Go(obj, t, "apply") EXCEPT !.hist = (obj.t[t].off :> obj.era) @@ @]
  /\ Silent

WriteEntryDone(t) == At(t, "apply") /\ obj' = [obj EXCEPT !.t[t] = Idle] /\ Silent

(* stasis_log_file_pool_force_tail().                                         *)
ForceTail(t) ==
  /\ At(t, "idle") /\ obj.rt < obj.wf
  /\ obj' = [Flush(obj, obj.wf) EXCEPT !.t[t] = [Idle EXCEPT !.pc = "force", !.to = obj.wf]]
  /\ Silent

Forced(t) ==
  /\ At(t, "force") /\ obj.rt >= obj.t[t].to
  /\ obj' = [obj EXCEPT !.t[t] = Idle]
  /\ Answer("force", obj.t[t].to, None)

(* stasis_log_file_pool_read_entry() waits for the unit with the length, asks *)
(* for the chunk, reads the length, and waits for the rest but the last unit. *)
ReadEntry(t, lsn) ==
  /\ At(t, "idle") /\ lsn \in DOMAIN obj.hist /\ lsn >= obj.arr[1].off /\ lsn < obj.wf
  /\ obj' = [Flush(obj, lsn + 1) EXCEPT !.t[t] = [Idle EXCEPT !.pc = "lookup", !.off = lsn]]
  /\ Silent


Lookup(t) ==
  LET lsn == obj.t[t].off
      c == GetChunk(obj, lsn)
  IN /\ At(t, "lookup") /\ obj.mut = FREE /\ obj.rt >= lsn + 1
     /\ IF c = 0 THEN /\ obj' = [obj EXCEPT !.t[t] = Idle]
                      /\ Answer("read", lsn, <<"null">>)
        ELSE /\ obj' = [Go(Flush(obj, lsn + SIZE - 1), t, "body") EXCEPT
                          !.t[t].fd = obj.arr[c].fd, !.t[t].base = obj.arr[c].off]
             /\ Silent

Body(t) ==
  LET r == obj.t[t] IN
  /\ At(t, "body") /\ obj.rt >= r.off + SIZE - 1
  /\ obj' = [obj EXCEPT !.t[t] = Idle]
  /\ Answer("read", r.off, ReadAt(obj.files[r.fd], r.off - r.base))

(* Faulty variant: the slots that truncation frees are cleared.               *)
TruncateClear(t, lsn) ==
  LET n == GetChunk(obj, lsn) - 1
      gone == 1 .. n
      names == {LIVE(obj.arr[i].off) : i \in gone}
      dead == [i \in gone |-> DEAD(obj.arr[i].off)]
      renamed == [m \in {dead[i] : i \in gone} |-> obj.dir[LIVE(m[2])]]
  IN /\ At(t, "idle") /\ obj.mut = FREE /\ n > 0 /\ lsn <= obj.rt
     /\ \A u \in Callers : obj.t[u].pc \in {"lookup", "body"} => lsn <= obj.t[u].off
     /\ obj' = [obj EXCEPT !.dead = @ \o dead, !.live = @ - n,
                  !.dir = renamed @@ [m \in DOMAIN @ \ names |-> @[m]],
                  !.arr = [i \in DOMAIN @ |-> IF i + n <= obj.live THEN @[i + n] ELSE [off |-> 0, fd |-> 0]]]
     /\ Answer("truncate", lsn, None)

(* stasis_log_file_pool_truncate(), which callers ask for no later than the   *)
(* first unstable entry, nor past one that is being read.                     *)
Truncate(t, lsn) ==
  LET n == GetChunk(obj, lsn) - 1
      gone == 1 .. n
      names == {LIVE(obj.arr[i].off) : i \in gone}
      dead == [i \in gone |-> DEAD(obj.arr[i].off)]
      renamed == [m \in {dead[i] : i \in gone} |-> obj.dir[LIVE(m[2])]]
  IN /\ At(t, "idle") /\ obj.mut = FREE /\ n > 0 /\ lsn <= obj.rt
     /\ \A u \in Callers : obj.t[u].pc \in {"lookup", "body"} => lsn <= obj.t[u].off
     /\ obj' = [obj EXCEPT !.dead = @ \o dead, !.live = @ - n,
                  !.dir = renamed @@ [m \in DOMAIN @ \ names |-> @[m]],
                  !.arr = [i \in DOMAIN @ |-> IF i + n <= obj.live THEN @[i + n] ELSE @[i]]]
     /\ Answer("truncate", lsn, None)

(* stasis_log_file_pool_writeback_worker(): exactly Batch bytes, or all there *)
(* are when a flush asks for them.                                            *)
Consume ==
  LET avail == WriteTail(obj) - obj.rf
      len == IF obj.flush > obj.rf THEN avail ELSE Batch
  IN /\ obj.up \in {"open", "closing"} /\ obj.w.pc = "idle" /\ len \in 1 .. avail
     /\ obj' = [obj EXCEPT !.rf = @ + len, !.w = [Stopped EXCEPT !.pc = "lock", !.off = obj.rf, !.len = len]]
     /\ Silent

(* The files and offsets are copied under the mutex.                          *)
WorkerLock ==
  LET c == GetChunk(obj, obj.w.off)
      end == GetChunk(obj, obj.w.off + obj.w.len)
  IN /\ obj.up # "aborted" /\ obj.w.pc = "lock" /\ obj.mut = FREE
     /\ obj' = IF end = 0 THEN Abort(obj)
               ELSE [obj EXCEPT !.w.pc = "pwrite", !.w.c = c, !.w.end = end,
                                !.w.vec = [i \in 1 .. end - c + 1 |-> obj.arr[c + i - 1]]]
     /\ Silent

(* How much goes to the chunk w.c: the start of the next chunk is read from   *)
(* live_offsets without the mutex.                                            *)
WriteLen(o) == IF o.w.c < o.w.end THEN o.arr[o.w.c + 1].off - (o.w.off + o.w.done)
               ELSE o.w.len - o.w.done

Units(o, from, n) == [i \in 1 .. n |-> [off |-> from + i - 1, era |-> o.era]]

(* One chunk's write, and the zero that ends a chunk that is full.            *)
Wrote(o, from, n) ==
  LET v == Head(o.w.vec) IN
  [o EXCEPT !.files[v.fd] = Pwrite(@, v.off, from, Units(o, from, n))]

Ended(o) ==
  LET v == Head(o.w.vec) IN
  IF o.w.c < o.w.end THEN [o EXCEPT !.files[v.fd] = Pwrite(@, v.off, o.arr[o.w.c + 1].off, <<ZERO>>)] ELSE o

ChunkWrite ==
  LET n == WriteLen(obj) IN
  /\ obj.up # "aborted" /\ obj.w.pc = "pwrite"
  /\ obj' = [Ended(Wrote(obj, obj.w.off + obj.w.done, n)) EXCEPT
               !.w.pc = IF obj.w.c < obj.w.end THEN "pwrite" ELSE "done",
               !.w.c = @ + 1, !.w.vec = Tail(@), !.w.done = @ + n]
  /\ Silent

WorkerDone ==
  /\ obj.up # "aborted" /\ obj.w.pc = "done"
  /\ obj' = [obj EXCEPT !.rt = obj.rf, !.w = Stopped]
  /\ Silent

(* stasis_log_file_pool_prealloc_worker(): asleep while there are enough dead *)
(* files. Between the check and the wait it holds the mutex.                  *)
PreallocCheck ==
  /\ obj.up # "aborted" /\ obj.p = "loop" /\ obj.mut = FREE
  /\ obj' = IF obj.shutdown THEN [obj EXCEPT !.p = "exit"]
            ELSE IF Len(obj.dead) >= DEAD_THRESHOLD THEN [obj EXCEPT !.p = "checked", !.mut = PREALLOC]
            ELSE [obj EXCEPT !.p = "alloc"]
  /\ Silent

PreallocWait ==
  /\ obj.up # "aborted" /\ obj.p = "checked"
  /\ obj' = [obj EXCEPT !.p = "wait", !.mut = FREE]
  /\ Silent

(* The file is filled with zeros without the mutex. Its name is the number of *)
(* dead files at the end, and replaces a file of that name.                   *)
PreallocFile ==
  LET f == Len(obj.files) + 1
      name == DEAD(Len(obj.dead))
  IN /\ obj.up # "aborted" /\ obj.p = "alloc" /\ obj.mut = FREE
     /\ obj' = [obj EXCEPT !.files = Append(@, [i \in 1 .. Target + 1 |-> ZERO]), !.p = "loop",
                           !.dir = (name :> f) @@ @, !.dead = Append(@, name)]
     /\ Silent

(* stasis_log_file_pool_close(): the tail is forced, the workers are told to  *)
(* stop, without the mutex, and joined. Then the log is opened again.         *)
CloseForce ==
  /\ obj.up = "open" /\ obj.era < MaxRestarts /\ \A t \in Callers : obj.t[t].pc = "idle"
  /\ obj' = [Flush(obj, obj.wf) EXCEPT !.up = "closing"]
  /\ Silent

CloseStop ==
  /\ obj.up = "closing" /\ ~obj.shutdown /\ obj.rt = obj.wf /\ obj.w.pc = "idle"
  /\ obj' = [obj EXCEPT !.shutdown = TRUE, !.p = IF @ = "wait" THEN "loop" ELSE @]
  /\ Silent

CloseJoin ==
  /\ obj.up = "closing" /\ obj.shutdown /\ obj.p = "exit"
  /\ obj' = Open(obj.files, obj.dir, obj.era + 1, obj.rt, obj.hist)
  /\ Answer("restart", obj.wf, None)

(* The machine fails, if in the middle of a write with some of it done.       *)
Torn ==
  LET from == obj.w.off + obj.w.done
      n == WriteLen(obj)
  IN IF obj.w.pc # "pwrite" THEN {}
     ELSE {Wrote(obj, from, k) : k \in 1 .. n}
          \cup IF Reordered THEN {Wrote(obj, from + k, n - k) : k \in 1 .. n - 1} ELSE {}

Crash ==
  /\ obj.up # "aborted" /\ obj.era < MaxRestarts
  /\ \E o \in {obj} \cup Torn : obj' = Open(o.files, o.dir, o.era + 1, o.rt, o.hist)
  /\ Answer("restart", obj.rt, None)

Next == \/ \E t \in Callers :
             \/ t \in Writers /\ (Reserve(t) \/ ForceTail(t))
             \/ ReserveChunk(t) \/ Barrier(t) \/ WriteEntry(t) \/ WriteEntryDone(t) \/ Forced(t)
             \/ t \in Readers /\ \E lsn \in 1 .. MaxOffset : ReadEntry(t, lsn)
             \/ t \in Truncators /\ \E lsn \in 1 .. MaxOffset : Truncate(t, lsn)
             \/ Lookup(t) \/ Body(t)
        \/ Consume \/ WorkerLock \/ ChunkWrite \/ WorkerDone
        \/ PreallocCheck \/ PreallocWait \/ PreallocFile
        \/ CloseForce \/ CloseStop \/ CloseJoin \/ Crash
(* The state up to the names of threads and flushes that are over.            *)
Shape == <<[obj EXCEPT !.flush = IF @ > obj.rf THEN @ ELSE 0, !.t = 0],
           {<<obj.t[t], Cardinality({u \in DOMAIN obj.t : obj.t[u] = obj.t[t]})>> : t \in DOMAIN obj.t}>>
-----------------------------------------------------------------------------
Running == obj.up # "aborted"
Kept(lsn) == lsn \in DOMAIN obj.hist /\ lsn >= obj.arr[1].off
InChunk(lsn) == LET a == obj.arr[GetChunk(obj, lsn)] IN ReadAt(obj.files[a.fd], lsn - a.off)

(* Every entry below the first unstable LSN that truncation has not dropped   *)
(* is whole in the chunk in which a reader looks for it, and is the one that  *)
(* was appended last: the writeback worker's copies of the arrays and its     *)
(* unlocked read of live_offsets are never out of date in a way that matters. *)
StablePlaced ==
  Running => \A lsn \in DOMAIN obj.hist :
               (Kept(lsn) /\ lsn + SIZE <= obj.rt /\ lsn % SIZE = 1) =>
                 InChunk(lsn) = <<"entry", lsn, obj.hist[lsn]>>

(* A restart keeps every entry that was stable.                               *)
StableKept == (call'[1] = "restart" /\ obj'.up = "open") => obj'.wf >= call'[2]


(* The log has no gap: a scan from the truncation point reads every entry up  *)
(* to the first unstable one.                                                 *)
(* Refuted by TLC: the code does not ensure it. No run checks this.           *)
NoGap ==
  Running => \A lsn \in obj.arr[1].off .. obj.rt - SIZE :
               lsn % SIZE = 1 => InChunk(lsn)[1] = "entry"

(* dead_filenames names files that exist, each once.                          *)
(* Refuted by TLC: the code does not ensure it. No run checks this.           *)
DeadFilesExist ==
  Running => /\ \A i \in DOMAIN obj.dead : obj.dead[i] \in DOMAIN obj.dir
             /\ \A i, j \in DOMAIN obj.dead : i # j => obj.dead[i] # obj.dead[j]

(* Opening the log never fails.                                               *)
(* Refuted by TLC: the code does not ensure it. No run checks this.           *)
Reopens == call'[1] = "restart" => obj'.up = "open"
=============================================================================
