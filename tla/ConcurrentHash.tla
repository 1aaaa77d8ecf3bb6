--------------------------- MODULE ConcurrentHash ---------------------------
(* util/concurrentHash.c: an open-addressed table of fixed size with a latch  *)
(* on every bucket. Operations crab from bucket to bucket: they latch the     *)
(* next one before they let go of the last. A removal keeps its bucket        *)
(* latched as an anchor while it crabs ahead for an entry to move back.       *)
(* A step latches one bucket and does what follows under its latches.         *)
EXTENDS Integers, FiniteSets

CONSTANTS Threads,  \* positive numbers
          Keys, Values,
          HashCode, \* the hash of each key, before it is wrapped
          Max,      \* maxbucketid, a power of two less one
          None      \* NULL

VARIABLES obj,      \* the table: buckets, latches and the threads' cursors
          call, ans \* the last operation that took effect, and its result

vars == <<obj, call, ans>>

Buckets == 0 .. Max
FREE == 0
NoBucket == -1
Wrap(i) == i % (Max + 1)
Func(k) == Wrap(HashCode[k])
Null == [key |-> None, val |-> None]

Idle == [pc |-> "idle", mode |-> "none", k |-> None, v |-> None, idx |-> NoBucket,
         prev |-> NoBucket, anchor |-> NoBucket, n |-> 0]

Init == /\ obj = [b |-> [i \in Buckets |-> Null],
                  own |-> [i \in Buckets |-> FREE],
                  t |-> [t \in Threads |-> Idle]]
        /\ call = <<"create", None>>
        /\ ans = None

Latched(own, i, t) == [own EXCEPT ![i] = t]
Released(own, is) == [i \in Buckets |-> IF i \in is THEN FREE ELSE own[i]]

Silent == UNCHANGED <<call, ans>>
Answer(op, k, a) == call' = <<op, k>> /\ ans' = a

(* hashtable_begin_op(), before the first latch.                              *)
BeginOp(t, mode, k, v) ==
  /\ obj.t[t].pc = "idle"
  /\ obj' = [obj EXCEPT !.t[t] = [Idle EXCEPT !.pc = "crab", !.mode = mode, !.k = k,
                                              !.v = v, !.idx = Func(k)]]
  /\ Silent

(* hashtable_end_op() for the operation that found what it looked for in the  *)
(* bucket it has latched: ht has that latch and no other of the thread.       *)
EndOp(ht, t, c, found) ==
  LET i == c.idx
      old == ht.b[i].val
      put == [ht EXCEPT !.b[i] = [key |-> c.k, val |-> c.v]]
      done(h) == [h EXCEPT !.own[i] = FREE, !.t[t] = Idle]
      keep(h, pc) == [h EXCEPT !.t[t] = [c EXCEPT !.pc = pc, !.prev = NoBucket]]
  IN CASE c.mode = "insert" -> obj' = done(put) /\ Answer("insert", c.k, old)
       [] c.mode \in {"tryinsert", "tryinsert_lock"} ->
            /\ obj' = LET h == IF found THEN ht ELSE put IN
                      IF c.mode = "tryinsert" THEN done(h) ELSE keep(h, "held")
            /\ Answer(IF found THEN "lookup" ELSE "insert", c.k, old)
       [] c.mode = "lookup" -> obj' = done(ht) /\ Answer("lookup", c.k, old)
       [] c.mode = "lookup_lock" -> obj' = keep(ht, "held") /\ Answer("lookup", c.k, old)
       [] c.mode = "remove_begin" -> obj' = keep(ht, "begun") /\ Answer("lookup", c.k, old)
       [] c.mode = "remove" ->
            /\ obj' = IF ~found THEN done(ht)
                      ELSE [ht EXCEPT !.t[t] = [c EXCEPT !.pc = "compact", !.anchor = i,
                                                  !.prev = NoBucket, !.idx = Wrap(i + 1)]]
            /\ Answer("remove", c.k, old)

(* Faulty variant: takes an empty bucket without waiting for its latch.       *)
CrabPeek(t) ==
  LET c == obj.t[t]
      ht == [obj EXCEPT !.own = Latched(Released(@, {c.prev}), c.idx, t)]
      b == obj.b[c.idx]
  IN /\ c.pc = "crab"
     /\ obj.own[c.idx] = FREE \/ b.val = None
     /\ IF b.key = c.k \/ b.val = None
        THEN EndOp(ht, t, c, b.key = c.k)
        ELSE /\ obj' = [ht EXCEPT !.t[t] = [c EXCEPT !.prev = c.idx, !.n = @ + 1,
                                                     !.idx = Wrap(c.idx + 1)]]
             /\ Silent

(* One turn of hashtable_begin_op()'s loop: latch the next bucket, let go of  *)
(* the last one, and look.                                                    *)
Crab(t) ==
  LET c == obj.t[t]
      ht == [obj EXCEPT !.own = Latched(Released(@, {c.prev}), c.idx, t)]
      b == obj.b[c.idx]
  IN /\ c.pc = "crab"
     /\ obj.own[c.idx] = FREE
     /\ IF b.key = c.k \/ b.val = None
        THEN EndOp(ht, t, c, b.key = c.k)
        ELSE /\ obj' = [ht EXCEPT !.t[t] = [c EXCEPT !.prev = c.idx, !.n = @ + 1,
                                                     !.idx = Wrap(c.idx + 1)]]
             /\ Silent

(* Faulty variant: does not take wrapping into account.                       *)
PastFlat(i, new) == new > i

(* Is bucket new past bucket i? If so a lookup that starts at new does not    *)
(* come past i.                                                               *)
Past(i, new) == (i - new) % (Max + 1) > Max \div 2

(* Faulty variant: a skipped bucket is let go before the next is latched.     *)
CompactTwo(t) ==
  LET c == obj.t[t]
      b == obj.b[c.idx]
      own == Latched(Released(obj.own, {c.prev}), c.idx, t)
  IN /\ c.pc = "compact"
     /\ obj.own[c.idx] = FREE
     /\ obj' = CASE b.val = None ->
                      [obj EXCEPT !.b[c.anchor] = Null, !.t[t] = Idle,
                                  !.own = Released(own, {c.anchor, c.idx})]
                 [] b.val # None /\ Past(c.anchor, Func(b.key)) ->
                      [obj EXCEPT !.own = Released(own, {c.idx}),
                                  !.t[t].prev = NoBucket, !.t[t].idx = Wrap(c.idx + 1)]
                 [] OTHER ->
                      [obj EXCEPT !.b[c.anchor] = b, !.own = Released(own, {c.anchor}),
                                  !.t[t].anchor = c.idx, !.t[t].prev = NoBucket,
                                  !.t[t].idx = Wrap(c.idx + 1)]
     /\ Silent

(* Faulty variant: the overwritten anchor stays latched.                      *)
CompactLeak(t) ==
  LET c == obj.t[t]
      b == obj.b[c.idx]
      own == Latched(Released(obj.own, {c.prev}), c.idx, t)
  IN /\ c.pc = "compact"
     /\ obj.own[c.idx] = FREE
     /\ obj' = CASE b.val = None ->
                      [obj EXCEPT !.b[c.anchor] = Null, !.t[t] = Idle,
                                  !.own = Released(own, {c.anchor, c.idx})]
                 [] b.val # None /\ Past(c.anchor, Func(b.key)) ->
                      [obj EXCEPT !.own = own,
                                  !.t[t].prev = c.idx, !.t[t].idx = Wrap(c.idx + 1)]
                 [] OTHER ->
                      [obj EXCEPT !.b[c.anchor] = b, !.own = own,
                                  !.t[t].anchor = c.idx, !.t[t].prev = NoBucket,
                                  !.t[t].idx = Wrap(c.idx + 1)]
     /\ Silent

(* One turn of the removal's loop in hashtable_end_op(): the anchor has to be *)
(* overwritten, and idx is the next bucket to consider for it.                *)
Compact(t) ==
  LET c == obj.t[t]
      b == obj.b[c.idx]
      own == Latched(Released(obj.own, {c.prev}), c.idx, t)
  IN /\ c.pc = "compact"
     /\ obj.own[c.idx] = FREE
     /\ obj' = CASE b.val = None ->
                      [obj EXCEPT !.b[c.anchor] = Null, !.t[t] = Idle,
                                  !.own = Released(own, {c.anchor, c.idx})]
                 [] b.val # None /\ Past(c.anchor, Func(b.key)) ->
                      [obj EXCEPT !.own = own,
                                  !.t[t].prev = c.idx, !.t[t].idx = Wrap(c.idx + 1)]
                 [] OTHER ->
                      [obj EXCEPT !.b[c.anchor] = b, !.own = Released(own, {c.anchor}),
                                  !.t[t].anchor = c.idx, !.t[t].prev = NoBucket,
                                  !.t[t].idx = Wrap(c.idx + 1)]
     /\ Silent

(* hashtable_unlock() after an operation whose name ends in _lock, and        *)
(* hashtable_remove_cancel().                                                 *)
Unlock(t) ==
  /\ obj.t[t].pc \in {"held", "begun"}
  /\ obj' = [obj EXCEPT !.own[obj.t[t].idx] = FREE, !.t[t] = Idle]
  /\ Silent

(* hashtable_remove_finish()                                                  *)
RemoveFinish(t) ==
  LET c == obj.t[t]  found == obj.b[c.idx].key = c.k IN
  /\ c.pc = "begun"
  /\ EndOp(obj, t, [c EXCEPT !.mode = "remove"], found)

Modes == {"insert", "tryinsert", "tryinsert_lock", "lookup", "lookup_lock", "remove",
          "remove_begin"}
Writes(mode) == mode \in {"insert", "tryinsert", "tryinsert_lock"}

Next == \E t \in Threads :
          \/ \E mode \in Modes, k \in Keys, v \in Values \cup {None} :
               (v # None <=> Writes(mode)) /\ BeginOp(t, mode, k, v)
          \/ Crab(t)
          \/ Compact(t)
          \/ Unlock(t)
          \/ RemoveFinish(t)

Spec == Init /\ [][Next]_vars
-----------------------------------------------------------------------------
(* The map that the table stands for: anchors are about to be overwritten.    *)
Anchors == {obj.t[t].anchor : t \in Threads}
Contents ==
  [k \in Keys |-> LET at == {i \in Buckets \ Anchors : obj.b[i].key = k} IN
                  IF at = {} THEN None ELSE obj.b[CHOOSE i \in at : TRUE].val]

(* A key is in one bucket, which a lookup that starts where the key hashes to *)
(* reaches without passing an empty one; the probes stay below a quarter of   *)
(* the table, which hashtable_begin_op() asserts.                             *)
IslandsSound ==
  /\ \A i \in Buckets \ Anchors :
       LET k == obj.b[i].key IN
       k # None =>
         /\ \A j \in Buckets \ Anchors : obj.b[j].key = k => j = i
         /\ \A d \in 0 .. (i - Func(k)) % (Max + 1) : obj.b[Wrap(Func(k) + d)].val # None
  /\ \A t \in Threads : obj.t[t].n < Max \div 4

(* Nobody changes what a thread has latched: the entry stays in its bucket,   *)
(* and a key that was found absent stays absent.                              *)
LatchHolds ==
  \A t \in Threads :
    LET c == obj.t[t] IN
    c.pc \in {"held", "begun"} =>
      /\ obj.own[c.idx] = t
      /\ obj.b[c.idx].key # c.k => Contents[c.k] = None

(* A thread that waits for a latch waits for one that can go on: no latch is  *)
(* left behind, and following the waits never comes back.                     *)
Waits(t) == obj.t[t].pc \in {"crab", "compact"} /\ obj.own[obj.t[t].idx] # FREE
RECURSIVE Reaches(_, _)
Reaches(t, n) == IF ~Waits(t) THEN obj.t[t].pc # "idle"
                 ELSE n > 0 /\ Reaches(obj.own[obj.t[t].idx], n - 1)
NoDeadlock == \A t \in Threads : Waits(t) => Reaches(t, Cardinality(Threads))
=============================================================================
