------------------------------ MODULE LogMemory ------------------------------
(* experimental/logMemory.c on experimental/ringbuffer.c: a fifo between      *)
(* threads in a ring of bytes. A tuple is its length, one unit, and that many *)
(* units. A step is what a thread does under fifo->mutex until it waits or    *)
(* returns; a reader holds readerMutex until it releases its tuple.           *)
EXTENDS Integers, Sequences, FiniteSets

CONSTANTS Producers, Readers,
          Size,   \* of the ring
          Lens,   \* the lengths of the tuples that are pushed, in order
          None

VARIABLES obj, call, ans

vars == <<obj, call, ans>>

FREE == 0
Callers == Producers \cup Readers
Idle == [pc |-> "idle", op |-> None, id |-> 0, len |-> 0]

(* logMemoryFifo(), at any initial offset.                                    *)
Init == /\ \E pos \in 0 .. Size - 1 :
             obj = [mem |-> [i \in 0 .. Size - 1 |-> <<0, 0>>], start |-> pos, end |-> pos, eof |-> -1,
                    mutex |-> FREE, rm |-> FREE,  \* mutex, readerMutex
                    wr |-> {}, ww |-> {},         \* who waits on readReady and writeReady
                    pushes |-> 0,
                    sent |-> <<>>, got |-> 0,     \* the tuples pushed, and how many were read
                    t |-> [t \in Callers |-> Idle]]
        /\ call = <<"init", None>>
        /\ ans = <<"none">>

Silent == call' = <<"step", None>> /\ ans' = <<"none">>
Answer(op, a) == call' = <<op, None>> /\ ans' = a
At(t, pc) == obj.t[t].pc = pc
Go(o, t, pc) == [o EXCEPT !.t[t].pc = pc]

(* Faulty variant: one unit too many is let in.                               *)
RoomMore(o, n) == Size + 1 >= (o.end - o.start) + n

(* ringBufferAppend() and ringBufferTruncateRead(), of units that fit.        *)
Room(o, n) == Size >= (o.end - o.start) + n
There(o, n) == o.start + n <= o.end
RingAppend(o, units) ==
  [o EXCEPT !.mem = [i \in 0 .. Size - 1 |->
                       IF (i - o.end) % Size < Len(units) THEN units[((i - o.end) % Size) + 1] ELSE @[i]],
            !.end = @ + Len(units)]
RingRead(o, n) == [i \in 1 .. n |-> o.mem[(o.start + i - 1) % Size]]

(* logMemory_consumer_push(): the length and then the value, each as soon as  *)
(* there is room. That the value can never fit is not noticed.                *)
PushValue(o, t) ==
  LET c == o.t[t] IN
  IF c.len > Size THEN [o EXCEPT !.wr = {}, !.t[t] = Idle]
  ELSE IF Room(o, c.len)
  THEN [RingAppend(o, [i \in 1 .. c.len |-> <<c.id, i>>]) EXCEPT
          !.wr = {}, !.t[t] = Idle, !.sent = Append(@, c.id)]
  ELSE [Go(o, t, "val") EXCEPT !.ww = @ \cup {t}]

PushLen(o, t) ==
  IF Room(o, 1) THEN PushValue(RingAppend(o, << <<0, o.t[t].len>> >>), t)
  ELSE [Go(o, t, "len") EXCEPT !.ww = @ \cup {t}]

Push(t) ==
  LET id == obj.pushes + 1 IN
  /\ At(t, "idle") /\ obj.mutex = FREE /\ obj.eof = -1 /\ id \in DOMAIN Lens
  /\ obj' = PushLen([obj EXCEPT !.pushes = id, !.t[t].id = id, !.t[t].len = Lens[id]], t)
  /\ Silent

PushWoken(t) ==
  /\ t \notin obj.ww /\ obj.mutex = FREE /\ obj.t[t].pc \in {"len", "val"}
  /\ obj' = IF At(t, "len") THEN PushLen(obj, t) ELSE PushValue(obj, t)
  /\ Silent

(* logMemory_consumer_close(), after the last push.                           *)
Close ==
  /\ obj.mutex = FREE /\ obj.eof = -1 /\ \A t \in Producers : At(t, "idle")
  /\ obj' = [obj EXCEPT !.eof = obj.end, !.wr = {}]
  /\ Answer("close", <<"none">>)

(* The readers: next waits, tryNext does not, nextOrEmpty answers that there  *)
(* is nothing with both mutexes held.                                         *)
Ops == {"next", "tryNext", "nextOrEmpty"}
Lock(t, op) ==
  /\ At(t, "idle")
  /\ \/ /\ obj.rm = FREE
        /\ obj' = [obj EXCEPT !.rm = t, !.t[t] = [Idle EXCEPT !.pc = "locked", !.op = op]]
        /\ Silent
     \/ /\ op = "tryNext" /\ obj.rm # FREE
        /\ UNCHANGED obj
        /\ Answer("busy", <<"none">>)

(* Faulty variant: what is still in the ring when it is closed is forgotten.  *)
AtEofSoon(o) == o.eof # -1

AtEof(o) == o.eof # -1 /\ o.eof = o.start
Nothing(o, t) ==
  IF o.t[t].op = "nextOrEmpty" THEN [Go(o, t, "empty") EXCEPT !.mutex = t]
  ELSE [o EXCEPT !.rm = FREE, !.t[t] = Idle]

(* Faulty variant: the readers do not tell that there is room again.          *)
TakeQuiet(o, t) ==
  LET c == o.t[t] IN
  IF c.len > Size THEN [o |-> Go(o, t, "tuple"), a |-> <<"tuple", <<>> >>]
  ELSE IF There(o, c.len)
  THEN [o |-> [Go(o, t, "tuple") EXCEPT !.start = @ + c.len, !.got = @ + 1],
        a |-> <<"tuple", RingRead(o, c.len)>>]
  ELSE [o |-> [Go(o, t, "rval") EXCEPT !.wr = @ \cup {t}], a |-> <<"none">>]

(* The value of a tuple whose length was read.                                *)
Take(o, t) ==
  LET c == o.t[t] IN
  IF c.len > Size THEN [o |-> [Go(o, t, "tuple") EXCEPT !.ww = {}], a |-> <<"tuple", <<>> >>]
  ELSE IF There(o, c.len)
  THEN [o |-> [Go(o, t, "tuple") EXCEPT !.start = @ + c.len, !.ww = {}, !.got = @ + 1],
        a |-> <<"tuple", RingRead(o, c.len)>>]
  ELSE [o |-> [Go(o, t, "rval") EXCEPT !.wr = @ \cup {t}], a |-> <<"none">>]

Find(o, t) ==
  IF AtEof(o) THEN [o |-> Nothing(o, t), a |-> <<"eof">>]
  ELSE IF There(o, 1)
  THEN Take([o EXCEPT !.start = @ + 1, !.t[t].len = RingRead(o, 1)[1][2]], t)
  ELSE IF o.t[t].op = "next" THEN [o |-> [Go(o, t, "rlen") EXCEPT !.wr = @ \cup {t}], a |-> <<"none">>]
  ELSE [o |-> Nothing(o, t), a |-> <<"empty">>]

Read(t) ==
  LET r == IF At(t, "rval") THEN Take(obj, t) ELSE Find(obj, t) IN
  /\ obj.mutex = FREE /\ t \notin obj.wr /\ obj.t[t].pc \in {"locked", "rlen", "rval"}
  /\ obj' = r.o
  /\ Answer(IF r.a = <<"none">> THEN "step" ELSE "read", r.a)

(* logMemory_Iterator_releaseTuple() and _releaseLock().                      *)
Release(t) ==
  /\ obj.t[t].pc \in {"tuple", "empty"}
  /\ obj' = [obj EXCEPT !.rm = FREE, !.mutex = IF At(t, "empty") THEN FREE ELSE @, !.t[t] = Idle]
  /\ Silent

Next == \/ \E t \in Producers : Push(t) \/ PushWoken(t)
        \/ \E t \in Readers : (\E op \in Ops : Lock(t, op)) \/ Read(t) \/ Release(t)
        \/ Close
-----------------------------------------------------------------------------
(* Every reader gets the next tuple that was pushed, whole and in order; what *)
(* was pushed is neither lost nor read twice, around the end of the ring too. *)
TuplesExact ==
  (call'[1] = "read" /\ ans'[1] = "tuple") =>
    LET id == obj'.sent[obj'.got] IN
    /\ obj'.got = obj.got + 1
    /\ ans'[2] = [i \in 1 .. Lens[id] |-> <<id, i>>]

(* The end is announced when the fifo was closed and everything was read.     *)
EofExact ==
  (call'[1] = "read" /\ ans'[1] = "eof") => obj'.eof # -1 /\ obj'.got = Len(obj'.sent)

(* Producers that wait for room and a reader that waits for a tuple never     *)
(* wait for each other.                                                       *)
NoDeadlock ==
  ~(/\ obj.ww # {} /\ obj.wr # {}
    /\ \A t \in DOMAIN obj.t : obj.t[t].pc \in {"len", "val"} => t \in obj.ww)
=============================================================================
