----------------------------- MODULE NonBlocking -----------------------------
(* io/non_blocking.c with the memory handles of io/memory.c: a write goes to  *)
(* a fast handle for its block, and a worker copies fast handles to the slow  *)
(* handle and frees them. The mutex is let go during each copy, so the        *)
(* clients and the worker interleave between the steps below. A memory handle *)
(* keeps its own mutex from read_buffer() to release_read_buffer(), and its   *)
(* addresses start at 0 whatever the offset of its block: the worker copies   *)
(* what is below the block too.                                               *)
EXTENDS Integers, FiniteSets

CONSTANTS Threads,  \* clients
          Blocks,   \* 0 .. n: the aligned blocks of the file, of length 1
          Values,
          MaxFast,  \* max_fast_handles
          MaxBuf,   \* max_buffer_size
          None

VARIABLES obj, call, ans

vars == <<obj, call, ans>>

CLEAN == 0
DIRTY == 1
NEEDS_FORCE == 2
Junk == "junk" \* the bytes of a memory handle below its block
MinFast == MaxFast \div 2

IdleT == [pc |-> "idle", op |-> None, b |-> 0, v |-> None, must |-> <<>>]
IdleW == [pc |-> "scan", first |-> 0, at |-> None, next |-> None, batch |-> {},
          writes |-> FALSE, contributed |-> FALSE]
Node == [dirty |-> CLEAN, pins |-> 1, val |-> Junk, busy |-> FALSE]

Init == /\ obj = [fast |-> [b \in Blocks |-> None], \* fast_handles
                  used |-> 0, count |-> 0, end |-> 0,
                  avail |-> 0, all |-> 1,          \* slow handles: the worker has one
                  slow |-> [b \in Blocks |-> None],
                  disk |-> [b \in Blocks |-> None], \* what a force made durable
                  last |-> [b \in Blocks |-> None], \* the last write that returned
                  open |-> TRUE,
                  w |-> IdleW,
                  t |-> [t \in Threads |-> IdleT]]
        /\ call = <<"init", None>>
        /\ ans = None

Silent == call' = <<"step", None>> /\ ans' = None
InTree(o) == {b \in Blocks : o.fast[b] # None}
Max(S) == CHOOSE x \in S : \A y \in S : y <= x
Min(S) == CHOOSE x \in S : \A y \in S : x <= y
Active(op, b) == {t \in Threads : obj.t[t].op \in op /\ obj.t[t].b = b}
At(t, pc) == obj.t[t].pc = pc

(* A worker that waits for pending_writes_cond is signalled.                  *)
Wake(o) == IF o.w.pc = "wait" THEN [o EXCEPT !.w = IdleW] ELSE o

(* allocFastHandle(): the block's node, or a new one if there is room; else   *)
(* the caller sleeps and tries again. Callers keep accesses to a block that   *)
(* overlap in time to reads.                                                  *)
Write(t, b, v, op) ==
  /\ obj.open /\ At(t, "idle")
  /\ Active({"write", "write_buffer", "read"}, b) = {}
  /\ LET c == [IdleT EXCEPT !.pc = "copy", !.op = op, !.b = b, !.v = v] IN
     IF obj.fast[b] # None
     THEN obj' = [obj EXCEPT !.fast[b].pins = @ + 1, !.t[t] = c]
     ELSE /\ obj.count < MaxFast /\ obj.used + 1 <= MaxBuf
          /\ obj' = [obj EXCEPT !.fast[b] = Node, !.count = @ + 1, !.used = @ + 1,
                                !.t[t] = c]
  /\ Silent

(* The memory handle's write(), which waits for the worker's read buffer. For *)
(* write_buffer() the file's end moves now, for write() after the release.    *)
EndAt(o, b) == [o EXCEPT !.end = IF b + 1 > @ THEN b + 1 ELSE @]
Copy(t) ==
  LET c == obj.t[t] IN
  /\ At(t, "copy") /\ ~obj.fast[c.b].busy
  /\ obj' = LET o == [obj EXCEPT !.fast[c.b].val = c.v, !.t[t].pc = "release"] IN
            IF c.op = "write_buffer" THEN EndAt(o, c.b) ELSE o
  /\ Silent

(* Faulty variant: a reader's release marks the node clean.                   *)
ReleaseFastClean(o, b, d) ==
  LET r == [o EXCEPT !.fast[b].pins = @ - 1, !.fast[b].dirty = d]
  IN IF o.count > MinFast THEN Wake(r) ELSE r

(* releaseFastHandle(): the signal is sent only above min_fast_handles.       *)
ReleaseFast(o, b, d) ==
  LET r == [o EXCEPT !.fast[b].pins = @ - 1,
                     !.fast[b].dirty = IF @ = CLEAN THEN d ELSE @]
  IN IF o.count > MinFast THEN Wake(r) ELSE r

ReleaseWrite(t) ==
  LET c == obj.t[t]  o == ReleaseFast(obj, c.b, DIRTY) IN
  /\ At(t, "release") /\ c.op \in {"write", "write_buffer"}
  /\ IF c.op = "write"
     THEN obj' = [o EXCEPT !.t[t].pc = "end"] /\ Silent
     ELSE /\ obj' = [o EXCEPT !.t[t] = IdleT, !.last[c.b] = c.v]
          /\ call' = <<"write", c.b>> /\ ans' = c.v

WriteEnd(t) ==
  LET c == obj.t[t] IN
  /\ At(t, "end")
  /\ obj' = [EndAt(obj, c.b) EXCEPT !.t[t] = IdleT, !.last[c.b] = c.v]
  /\ call' = <<"write", c.b>> /\ ans' = c.v

(* findFastHandle() or getSlowHandle(), which makes one when none is left.    *)
Read(t, b) ==
  /\ obj.open /\ At(t, "idle")
  /\ Active({"write", "write_buffer"}, b) = {}
  /\ LET c == [IdleT EXCEPT !.op = "read", !.b = b] IN
     IF obj.fast[b] # None
     THEN obj' = [obj EXCEPT !.fast[b].pins = @ + 1, !.t[t] = [c EXCEPT !.pc = "fast"]]
     ELSE obj' = [obj EXCEPT !.avail = IF @ = 0 THEN 0 ELSE @ - 1,
                             !.all = IF obj.avail = 0 THEN @ + 1 ELSE @,
                             !.t[t] = [c EXCEPT !.pc = "slow"]]
  /\ Silent

ReadFast(t) == /\ At(t, "fast") /\ ~obj.fast[obj.t[t].b].busy
               /\ obj' = [obj EXCEPT !.t[t].pc = "release", !.t[t].v = obj.fast[obj.t[t].b].val]
               /\ Silent
ReadSlow(t) == /\ At(t, "slow")
               /\ obj' = [obj EXCEPT !.t[t].pc = "put", !.t[t].v = obj.slow[obj.t[t].b]]
               /\ Silent

ReadEnd(t) ==
  LET c == obj.t[t] IN
  /\ c.op = "read"
  /\ \/ /\ At(t, "release")
        /\ obj' = [ReleaseFast(obj, c.b, CLEAN) EXCEPT !.t[t] = IdleT]
     \/ /\ At(t, "put")
        /\ obj' = [obj EXCEPT !.avail = @ + 1, !.t[t] = IdleT]
  /\ call' = <<"read", c.b>> /\ ans' = c.v

(* nbw_force(): mark the dirty nodes, wait until none is marked, and force    *)
(* the slow handles. must is what had been written when it was called.        *)
Forced(o, t) == [o EXCEPT !.disk = o.slow, !.t[t] = IdleT]
Force(t) ==
  LET marked == {b \in InTree(obj) : b < obj.end /\ obj.fast[b].dirty # CLEAN}
      o == Wake([obj EXCEPT !.fast = [b \in Blocks |->
             IF b \in marked THEN [@[b] EXCEPT !.dirty = NEEDS_FORCE] ELSE @[b]]])
      c == [IdleT EXCEPT !.pc = "forcing", !.op = "force", !.must = obj.last]
  IN /\ obj.open /\ At(t, "idle")
     /\ IF marked = {}
        THEN obj' = Forced(o, t) /\ call' = <<"force", obj.last>> /\ ans' = None
        ELSE obj' = [o EXCEPT !.t[t] = c] /\ Silent

(* force_completed_cond was broadcast.                                        *)
ForceWoken(t) ==
  /\ At(t, "woken")
  /\ IF \E b \in InTree(obj) : obj.fast[b].dirty = NEEDS_FORCE
     THEN obj' = [obj EXCEPT !.t[t].pc = "forcing"] /\ Silent
     ELSE obj' = Forced(obj, t) /\ call' = <<"force", obj.t[t].must>> /\ ans' = None

(* nbw_close(), by the last user; it joins the worker.                        *)
Close == /\ obj.open /\ \A t \in Threads : At(t, "idle")
         /\ obj' = Wake([obj EXCEPT !.open = FALSE])
         /\ Silent

(* nbw_worker(): the dirty unpinned node of this step of the pass, with the   *)
(* run of such nodes that follows it. They are marked clean before they are   *)
(* written.                                                                   *)
Ready(o, b) == o.fast[b] # None /\ o.fast[b].dirty # CLEAN /\ o.fast[b].pins = 0
Run(o, b) == {c \in Blocks : c >= b /\ \A d \in b .. c : Ready(o, d)}
Data(o, S) == {<<b, o.fast[b].val>> : b \in S}
PassEnds(o) ==
  LET o1 == IF ~o.w.contributed THEN o
            ELSE [o EXCEPT !.t = [t \in Threads |->
                    [@[t] EXCEPT !.pc = IF @ = "forcing" THEN "woken" ELSE @]]]
  IN [o1 EXCEPT !.w = [IdleW EXCEPT
        !.pc = IF o.count > 0 /\ o.w.writes THEN "scan"
               ELSE IF o.open THEN "wait" ELSE "exit"]]
Scan ==
  LET ahead == {b \in InTree(obj) : b >= obj.w.first}
      b == Min(ahead)  run == Run(obj, b)
  IN /\ obj.w.pc = "scan"
     /\ obj' = IF ahead = {} THEN PassEnds(obj)
               ELSE IF run = {} THEN [obj EXCEPT !.w.pc = "nap", !.w.at = b, !.w.next = b]
               ELSE [obj EXCEPT
                       !.w = [@ EXCEPT !.pc = "write", !.at = b, !.next = Max(run),
                                       !.writes = TRUE, !.batch = Data(obj, run),
                                       !.contributed = @ \/ \E c \in run :
                                                         obj.fast[c].dirty = NEEDS_FORCE],
                       !.fast = [c \in Blocks |-> IF c \notin run THEN @[c]
                                   ELSE [@[c] EXCEPT !.dirty = CLEAN, !.pins = 1, !.busy = c = b]]]
     /\ Silent

(* slow->write(slow, 0, ...), without the mutex.                              *)
WriteSlow ==
  LET d == obj.w.batch
      data == [b \in {x[1] : x \in d} |-> (CHOOSE x \in d : x[1] = b)[2]]
  IN /\ obj.w.pc = "write"
     /\ obj' = [obj EXCEPT !.w.pc = "written",
                  !.slow = [b \in Blocks |-> IF b \in DOMAIN data THEN data[b]
                                             ELSE IF b < obj.w.at THEN Junk ELSE @[b]]]
     /\ Silent

(* Faulty variant: a clean node is freed under its readers.                   *)
FreeClean(o, S) ==
  LET gone == {b \in S : o.fast[b] # None /\ o.fast[b].dirty = CLEAN} IN
  [o EXCEPT !.fast = [b \in Blocks |-> IF b \in gone THEN None ELSE @[b]],
            !.count = @ - Cardinality(gone), !.used = @ - Cardinality(gone)]

(* freeFastHandle() of a node that nobody uses or dirtied since.              *)
FreeIdle(o, S) ==
  LET gone == {b \in S : o.fast[b] # None /\ o.fast[b].dirty = CLEAN /\ o.fast[b].pins = 0} IN
  [o EXCEPT !.fast = [b \in Blocks |-> IF b \in gone THEN None ELSE @[b]],
            !.count = @ - Cardinality(gone), !.used = @ - Cardinality(gone)]
Unpinned(o, S) == [o EXCEPT !.fast = [b \in Blocks |->
                     IF b \in S THEN [@[b] EXCEPT !.pins = @ - 1, !.busy = FALSE] ELSE @[b]]]
Written ==
  LET run == {x[1] : x \in obj.w.batch}
      o == FreeIdle(Unpinned(obj, run), run \ {obj.w.at})
  IN /\ obj.w.pc = "written"
     /\ obj' = [o EXCEPT !.w.pc = "nap", !.w.batch = {}]
     /\ Silent

(* The worker lets go of the mutex for a moment when few buffers are in use.  *)
(* Then it frees the node it left behind and goes on to the next.             *)
Nap == /\ obj.w.pc = "nap"
       /\ obj.used < MaxBuf \div 5
       /\ obj' = [obj EXCEPT !.w.pc = "next"]
       /\ Silent

NextNode == /\ obj.w.pc = "next" \/ (obj.w.pc = "nap" /\ obj.used >= MaxBuf \div 5)
            /\ obj' = [FreeIdle(obj, {obj.w.at}) EXCEPT
                         !.w.pc = "scan", !.w.first = obj.w.next + 1, !.w.at = None, !.w.next = None]
            /\ Silent

Worker == Scan \/ WriteSlow \/ Written \/ Nap \/ NextNode
Client(t) == Copy(t) \/ ReleaseWrite(t) \/ WriteEnd(t) \/ ReadFast(t) \/ ReadSlow(t) \/ ReadEnd(t)
             \/ ForceWoken(t)
Next == \/ Worker \/ Close
        \/ \E t \in Threads : Client(t) \/ Force(t)
        \/ \E t \in Threads, b \in Blocks : Read(t, b)
        \/ \E t \in Threads, b \in Blocks, v \in Values, op \in {"write", "write_buffer"} :
             Write(t, b, v, op)
        \/ obj.w.pc = "exit" /\ UNCHANGED vars

(* What decides the steps and the reads of the last block: clients alike, and *)
(* neither what is durable nor the values of the other blocks.                *)
Shape ==
  LET top == Max(Blocks)
      Cursor(c) == <<c.pc, c.op, c.b, IF c.b = top THEN c.v ELSE 0>>
      cs == {Cursor(obj.t[t]) : t \in Threads}
  IN <<[b \in Blocks |-> IF b = top \/ obj.fast[b] = None THEN obj.fast[b]
                         ELSE [obj.fast[b] EXCEPT !.val = 0]],
       obj.slow[top], obj.last[top], obj.avail, obj.all, obj.open, obj.end, obj.used, obj.count,
       [obj.w EXCEPT !.batch = {IF x[1] = top THEN x ELSE <<x[1], 0>> : x \in @}],
       {<<c, Cardinality({t \in Threads : Cursor(obj.t[t]) = c})>> : c \in cs}>>
-----------------------------------------------------------------------------
(* The pins of a node are its users, the counters add up and stay in bounds,  *)
(* the worker never holds a node that was freed, and when it is gone every    *)
(* slow handle is back in the pool.                                           *)
NodesSound ==
  LET Users(b) == Cardinality({t \in Threads : obj.t[t].b = b
                                 /\ obj.t[t].pc \in {"copy", "fast", "release"}})
                  + Cardinality({x \in obj.w.batch : x[1] = b})
  IN /\ \A b \in InTree(obj) : obj.fast[b].pins = Users(b)
     /\ \A b \in Blocks \ InTree(obj) : Users(b) = 0 /\ obj.w.at # b
     /\ obj.count = Cardinality(InTree(obj)) /\ obj.used = obj.count
     /\ obj.count <= MaxFast /\ obj.used <= MaxBuf
     /\ obj.w.pc = "exit" => obj.avail = obj.all - 1

(* A read returns what was last written to its block, from the fast handle or *)
(* the slow one. This holds for the last block of the file; the blocks before *)
(* it are overwritten with what the memory handles hold below their blocks.   *)
LastBlockRead == call'[1] = "read" /\ call'[2] = Max(Blocks) => ans' = obj.last[call'[2]]

(* When close() joined the worker no fast handle is left: its assertion that  *)
(* fast_handle_count is 0.                                                    *)
(* Refuted by TLC: the code does not ensure it. No run checks this.           *)
ClosedEmpty == obj.w.pc = "exit" => InTree(obj) = {}

(* handle.h: force() makes every write durable that returned before it.       *)
(* Refuted by TLC: the code does not ensure it. No run checks this.           *)
ForceDurable == call'[1] = "force" =>
  \A b \in Blocks : obj'.last[b] = call'[2][b] => obj'.disk[b] = obj'.last[b]
=============================================================================
