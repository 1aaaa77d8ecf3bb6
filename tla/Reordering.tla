----------------------------- MODULE Reordering ------------------------------
(* logger/reorderingHandle.c with its callers in transactional2.c: updates    *)
(* are applied to pinned pages at once and put in a ring; a worker logs them  *)
(* in chunks, sets the pages' LSNs and forces the log. Everything but close   *)
(* happens under h->mut; done and ready are signalled, not broadcast.         *)
EXTENDS Integers, Sequences, FiniteSets

CONSTANTS Writers,  \* threads of the transaction that update
          Flushers, \* threads that flush
          Closing,  \* whether the handle is closed
          ChunkLen, MaxLen, MaxSize,
          MaxOps,   \* bound: no update begins after so many
          None

VARIABLES obj, call, ans

vars == <<obj, call, ans>>

FREE == 0
Callers == Writers \cup Flushers
EntrySize == 1

Init == /\ obj = [queue |-> [i \in 0 .. MaxLen - 1 |-> 0], off |-> 0, len |-> 0, phys |-> 0,
                  mut |-> FREE, closed |-> FALSE,
                  done |-> {}, ready |-> FALSE,  \* who waits on done; whether the worker waits on ready
                  log |-> <<>>, forced |-> 0, target |-> 0,
                  ops |-> 0, pins |-> {},        \* the updates made, and those whose page is pinned
                  w |-> "start", close |-> "open",
                  t |-> [t \in Callers |-> [pc |-> "idle", seen |-> 0]]]
        /\ call = <<"init", None>>
        /\ ans = <<"none">>

Silent == call' = <<"step", None>> /\ ans' = <<"none">>
At(t, pc) == obj.t[t].pc = pc
Go(o, t, pc) == [o EXCEPT !.t[t].pc = pc]
Waits(o, t, pc) == [Go(o, t, pc) EXCEPT !.done = @ \cup {t}]

(* Faulty variant: the entry is put where the last one is.                    *)
AppendOpLast(o, t) ==
  LET op == o.ops + 1 IN
  [Go(o, t, "idle") EXCEPT
     !.queue[(o.off + (IF o.len = 0 THEN 0 ELSE o.len - 1)) % MaxLen] = op, !.len = @ + 1,
     !.phys = @ + EntrySize, !.ready = FALSE, !.ops = op, !.pins = @ \cup {op}]

(* The end of stasis_log_reordering_handle_append() and of                    *)
(* TreorderableUpdate(), which leaves its page pinned.                        *)
AppendOp(o, t) ==
  LET op == o.ops + 1 IN
  [Go(o, t, "idle") EXCEPT
     !.queue[(o.off + o.len) % MaxLen] = op, !.len = @ + 1,
     !.phys = @ + EntrySize, !.ready = FALSE, !.ops = op, !.pins = @ \cup {op}]

(* The two waits: for memory, and then for a place, which does not ask for    *)
(* memory again.                                                              *)
Place(o, t) == IF o.len = MaxLen THEN Waits(o, t, "place") ELSE AppendOp(o, t)
Memory(o, t) == IF o.phys >= MaxSize THEN Waits(o, t, "memory") ELSE Place(o, t)

Update(t) ==
  /\ obj.mut = FREE /\ t \notin obj.done
  /\ \/ At(t, "idle") /\ obj.close = "open" /\ obj.ops < MaxOps /\ obj' = Memory(obj, t)
     \/ At(t, "memory") /\ obj' = Memory(obj, t)
     \/ At(t, "place") /\ obj' = Place(obj, t)
  /\ Silent

(* stasis_log_reordering_handle_flush().                                      *)
Flush(t) ==
  /\ obj.mut = FREE /\ t \notin obj.done
  /\ \/ /\ At(t, "idle") /\ obj.close = "open" /\ obj.len > 0
        /\ obj' = Waits([obj EXCEPT !.t[t].seen = obj.ops], t, "flush")
        /\ Silent
     \/ /\ At(t, "flush") /\ obj.len > 0
        /\ obj' = Waits(obj, t, "flush")
        /\ Silent
     \/ /\ At(t, "flush") /\ obj.len = 0
        /\ obj' = Go(obj, t, "idle")
        /\ call' = <<"flush", t>> /\ ans' = <<"flushed", obj.t[t].seen>>

(* A chunk of the queue is logged, and its pages are released.                *)
Logged(o) ==
  LET n == IF o.len < ChunkLen THEN o.len ELSE ChunkLen
      ops == [i \in 1 .. n |-> o.queue[(o.off + i - 1) % MaxLen]]
  IN [o EXCEPT !.log = @ \o ops, !.off = (@ + n) % MaxLen, !.len = @ - n, !.phys = @ - n * EntrySize,
               !.pins = @ \ {ops[i] : i \in 1 .. n}, !.target = Len(o.log) + n, !.w = "force"]

(* Faulty variant: a closed handle is left as it is.                          *)
WorkExit ==
  /\ obj.mut = FREE /\ obj.w \in {"start", "again", "woken"} /\ ~obj.ready
  /\ IF obj.closed THEN obj' = [obj EXCEPT !.w = "exit"]
     ELSE IF obj.len > 0 THEN obj' = Logged(obj)
     ELSE \E woken \in IF obj.done = {} THEN {{}} ELSE {{t} : t \in obj.done} :
            obj' = [obj EXCEPT !.done = @ \ woken, !.w = "decided", !.mut = -1]
  /\ Silent

(* Faulty variant: nobody is told that the queue is empty.                    *)
WorkQuiet ==
  /\ obj.mut = FREE /\ obj.w \in {"start", "again", "woken"} /\ ~obj.ready
  /\ obj' = IF obj.len > 0 THEN Logged(obj)
            ELSE IF obj.closed THEN [obj EXCEPT !.w = "exit"]
            ELSE [obj EXCEPT !.w = "decided", !.mut = -1]
  /\ Silent

(* stasis_log_reordering_handle_worker(), from where it has the mutex to      *)
(* where it gives it up. An empty queue is signalled to one waiter. The       *)
(* worker then decides to wait, holding the mutex that close does not take.   *)
Work ==
  /\ obj.mut = FREE /\ obj.w \in {"start", "again", "woken"} /\ ~obj.ready
  /\ IF obj.len > 0 THEN obj' = Logged(obj)
     ELSE IF obj.w # "again" /\ obj.closed THEN obj' = [obj EXCEPT !.w = "exit"]
     ELSE \E woken \in IF obj.done = {} THEN {{}} ELSE {{t} : t \in obj.done} :
            obj' = [obj EXCEPT !.done = @ \ woken,
                               !.w = IF obj.closed THEN "exit" ELSE "decided",
                               !.mut = IF obj.closed THEN @ ELSE -1]
  /\ Silent

WaitReady ==
  /\ obj.w = "decided"
  /\ obj' = [obj EXCEPT !.w = "woken", !.ready = TRUE, !.mut = FREE]
  /\ Silent

Force ==
  /\ obj.w = "force"
  /\ obj' = [obj EXCEPT !.forced = IF @ < obj.target THEN obj.target ELSE @, !.w = "again"]
  /\ Silent

(* stasis_log_reordering_handle_close(), after the last update: the flag, the *)
(* signal, and the join.                                                      *)
Close ==
  /\ \/ /\ Closing /\ obj.close = "open" /\ \A t \in Callers : At(t, "idle")
        /\ obj' = [obj EXCEPT !.closed = TRUE, !.close = "signal"]
        /\ Silent
     \/ /\ obj.close = "signal"
        /\ obj' = [obj EXCEPT !.ready = FALSE, !.close = "join"]
        /\ Silent
     \/ /\ obj.close = "join" /\ obj.w = "exit"
        /\ obj' = [obj EXCEPT !.close = "closed"]
        /\ call' = <<"close", None>> /\ ans' = <<"none">>

Step(t) == (t \in Writers /\ Update(t)) \/ (t \in Flushers /\ Flush(t))
Worker == Work \/ WaitReady \/ Force
Next == (\E t \in Callers : Step(t)) \/ Worker \/ Close
-----------------------------------------------------------------------------
(* Updates are logged once each in the order in which they were applied, and  *)
(* the pages of those that are not in the log are still pinned.               *)
LogOrder ==
  /\ obj.log \o [i \in 1 .. obj.len |-> obj.queue[(obj.off + i - 1) % MaxLen]] = [i \in 1 .. obj.ops |-> i]
  /\ \A op \in 1 .. obj.ops : op \in obj.pins <=> op > Len(obj.log)

(* When flush returns the updates made before it are in the log, and when     *)
(* close returns every update is, and is forced.                              *)
FlushLogs ==
  /\ call'[1] = "flush" => ans'[2] <= Len(obj'.log)
  /\ call'[1] = "close" => obj'.len = 0 /\ Len(obj'.log) = obj'.ops /\ obj'.forced = obj'.ops

(* Not what the code does: flush returns while the last force still runs.     *)
FlushForces == call'[1] = "flush" => ans'[2] <= obj'.forced

Updating(t) == obj.t[t].pc \in {"memory", "place"}
=============================================================================
