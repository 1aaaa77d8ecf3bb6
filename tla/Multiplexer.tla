----------------------------- MODULE Multiplexer -----------------------------
(* experimental/multiplexer.c and the pool of pointer fifos of                *)
(* experimental/fifo.c: a worker deals the tuples of an iterator out to fifos *)
(* by key and lists each fifo it fed on the pool's dirty fifo; some readers   *)
(* drain one fifo until it ends, others the fifos that they find on the dirty *)
(* one. The pool bounds the tuples that are out. The dirty fifo and the       *)
(* iterator are fifos as LogMemory provides them.                             *)
EXTENDS Integers, Sequences, FiniteSets

CONSTANTS Fifos,     \* 1 .. fifoCount
          Source,    \* the fifo that the key of each tuple selects, in order
          Readers,   \* readers of one fifo: reader r reads fifo r
          Cleaners,  \* readers of the dirty fifo
          MaxPtrs, MaxDirty, None

VARIABLES obj, call, ans

vars == <<obj, call, ans>>

FREE == 0
Worker == -1
Callers == {Worker} \cup Readers \cup Cleaners
Tuples == 1 .. Len(Source)

Init == /\ obj = [todo |-> 1, out |-> 0, waits |-> FALSE,
                  f |-> [f \in Fifos |-> [q |-> <<>>, eof |-> FALSE, mutex |-> FREE, wait |-> {}]],
                  dirty |-> <<>>, dirtyEof |-> FALSE,
                  got |-> [f \in Fifos |-> <<>>],  \* what readers took from each fifo
                  t |-> [t \in Callers |-> [pc |-> "next", f |-> IF t \in Readers THEN t ELSE 0]]]
        /\ call = <<"init", None>>
        /\ ans = <<"none">>

Silent == call' = <<"step", None>> /\ ans' = <<"none">>
At(t, pc) == obj.t[t].pc = pc
Go(o, t, pc) == [o EXCEPT !.t[t].pc = pc]
Mine(t) == obj.t[t].f

(* multiplexer_worker(): the next tuple, or the end of the iterator.          *)
WorkerNext ==
  /\ At(Worker, "next")
  /\ obj' = IF obj.todo \in Tuples THEN [Go(obj, Worker, "slot") EXCEPT !.t[Worker].f = Source[obj.todo]]
            ELSE [Go(obj, Worker, "close") EXCEPT !.t[Worker].f = 1]
  /\ Silent

(* Faulty variant: the bound is passed before it is seen.                     *)
PushSlotPast ==
  /\ At(Worker, "slot") /\ ~obj.waits
  /\ obj' = IF obj.out > MaxPtrs THEN [obj EXCEPT !.waits = TRUE]
            ELSE [Go(obj, Worker, "push") EXCEPT !.out = @ + 1]
  /\ Silent

(* lladdFifoPool_consumer_push(): a place in the pool, then in the fifo.      *)
PushSlot ==
  /\ At(Worker, "slot") /\ ~obj.waits
  /\ obj' = IF obj.out = MaxPtrs THEN [obj EXCEPT !.waits = TRUE]
            ELSE [Go(obj, Worker, "push") EXCEPT !.out = @ + 1]
  /\ Silent

Push ==
  LET f == Mine(Worker) IN
  /\ At(Worker, "push") /\ obj.f[f].mutex = FREE
  /\ obj' = [Go(obj, Worker, "mark") EXCEPT !.f[f].q = Append(@, obj.todo), !.f[f].wait = {}]
  /\ Silent

(* tupleDone() and lladdFifoPool_markDirty().                                 *)
MarkDirty ==
  /\ At(Worker, "mark") /\ Len(obj.dirty) < MaxDirty
  /\ obj' = [Go(obj, Worker, "next") EXCEPT !.todo = @ + 1, !.dirty = Append(@, Mine(Worker))]
  /\ Silent

(* Faulty variant: a reader that waits is not told.                           *)
CloseQuiet ==
  LET f == Mine(Worker) IN
  /\ At(Worker, "close")
  /\ IF f \in Fifos
     THEN obj.f[f].mutex = FREE /\ obj' = [obj EXCEPT !.f[f].eof = TRUE, !.t[Worker].f = @ + 1]
     ELSE obj' = [Go(obj, Worker, "done") EXCEPT !.dirtyEof = TRUE]
  /\ Silent

(* lladdFifoPool_consumer_close() of each fifo, and then of the dirty one.    *)
Close ==
  LET f == Mine(Worker) IN
  /\ At(Worker, "close")
  /\ IF f \in Fifos
     THEN /\ obj.f[f].mutex = FREE
          /\ obj' = [obj EXCEPT !.f[f].eof = TRUE, !.f[f].wait = {}, !.t[Worker].f = @ + 1]
     ELSE obj' = [Go(obj, Worker, "done") EXCEPT !.dirtyEof = TRUE]
  /\ Silent

(* Faulty variant: the tuple that was pushed last is taken.                   *)
DoNextLast(o, t, f) ==
  LET q == o.f[f].q IN
  [Go(o, t, "has") EXCEPT !.f[f].mutex = t, !.f[f].q = SubSeq(q, 1, Len(q) - 1),
                          !.got[f] = Append(@, q[Len(q)])]

(* doNext(); the fifo's mutex is kept until tupleDone.                        *)
DoNext(o, t, f) ==
  [Go(o, t, "has") EXCEPT !.f[f].mutex = t, !.f[f].q = Tail(@), !.got[f] = Append(@, Head(o.f[f].q))]

(* lladdFifoPool_iterator_next(), and close at the end.                       *)
IteratorNext(t) ==
  LET f == Mine(t) IN
  /\ At(t, "next") /\ obj.f[f].mutex = FREE /\ t \notin obj.f[f].wait
  /\ obj' = IF obj.f[f].q # <<>> THEN DoNext(obj, t, f)
            ELSE IF obj.f[f].eof THEN Go(obj, t, "done")
            ELSE [obj EXCEPT !.f[f].wait = @ \cup {t}]
  /\ Silent

(* A cleaner takes a fifo from the dirty one, or ends with it.                *)
TakeDirty(t) ==
  /\ At(t, "next")
  /\ \/ /\ obj.dirty # <<>>
        /\ obj' = [Go(obj, t, "try") EXCEPT !.t[t].f = Head(obj.dirty), !.dirty = Tail(@)]
     \/ /\ obj.dirty = <<>> /\ obj.dirtyEof
        /\ obj' = Go(obj, t, "done")
  /\ Silent

(* lladdFifoPool_iterator_tryNext().                                          *)
TryNext(t) ==
  LET f == Mine(t) IN
  /\ At(t, "try") /\ obj.f[f].mutex = FREE
  /\ obj' = IF obj.f[f].q = <<>> THEN Go(obj, t, "next") ELSE DoNext(obj, t, f)
  /\ Silent

(* lladdFifoPool_iterator_tupleDone(): the mutex, and then the place.         *)
TupleDone(t) ==
  /\ At(t, "has")
  /\ obj' = [Go(obj, t, "free") EXCEPT !.f[Mine(t)].mutex = FREE]
  /\ Silent

FreeSlot(t) ==
  /\ At(t, "free")
  /\ obj' = [Go(obj, t, IF t \in Readers THEN "next" ELSE "try") EXCEPT !.out = @ - 1, !.waits = FALSE]
  /\ Silent

WorkerStep == WorkerNext \/ PushSlot \/ Push \/ MarkDirty \/ Close
ReaderStep(t) == IteratorNext(t) \/ TupleDone(t) \/ FreeSlot(t)
CleanerStep(t) == TakeDirty(t) \/ TryNext(t) \/ TupleDone(t) \/ FreeSlot(t)
Step(t) == IF t = Worker THEN WorkerStep ELSE IF t \in Readers THEN ReaderStep(t) ELSE CleanerStep(t)

Next == \E t \in Callers : Step(t)
-----------------------------------------------------------------------------
(* Every tuple goes to the fifo of its key and is taken from it once, in the  *)
(* order of the source, whichever readers meet on the fifo.                   *)
Dealt(f) ==
  LET n == IF At(Worker, "mark") THEN obj.todo ELSE obj.todo - 1 IN
  SelectSeq([i \in 1 .. n |-> i], LAMBDA i : Source[i] = f)
TakenOnce == \A f \in Fifos : obj.got[f] \o obj.f[f].q = Dealt(f)

(* The pool's count is the number of tuples that have a place, so that it     *)
(* neither exceeds its maximum nor shrinks for good.                          *)
SlotsExact ==
  /\ obj.out <= MaxPtrs
  /\ LET held == {t \in Callers : obj.t[t].pc \in {"push", "has", "free"}}
         queued == UNION {{<<f, i>> : i \in DOMAIN obj.f[f].q} : f \in Fifos}
     IN obj.out = Cardinality(held) + Cardinality(queued)

AllDone == \A t \in Callers : At(t, "done")
=============================================================================
