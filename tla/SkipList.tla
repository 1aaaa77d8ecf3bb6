------------------------------ MODULE SkipList ------------------------------
(* util/concurrentSkipList.h and util/hazard.h: a skip list that is searched  *)
(* without locks. Each forward pointer has a mutex for those who change it. A *)
(* node that is deleted points back to its predecessor, so that threads which *)
(* stand on it find their way, and is freed when no thread has published a    *)
(* hazard pointer to it and no other deleted node points back to it. Key      *)
(* objects, which have hazard pointers of their own, are not told apart.      *)
EXTENDS Integers, Sequences, FiniteSets

CONSTANTS Threads, Keys, Levels, \* 1 .. the greatest level that is drawn
          RSlots,                \* num_r_slots, 250 in the code
          Exits,                 \* threads exit, which frees what they deleted
          MaxOps, None           \* bound

VARIABLES obj, call, ans

vars == <<obj, call, ans>>

FREE == 0
NIL == -1
Header == 0
Idle == [pc |-> "idle", op |-> None, k |-> 0, i |-> 0,
         x |-> NIL, y |-> NIL, z |-> NIL,  \* hazard slots 0, 1 and 2
         up |-> <<>>,                      \* update[L .. 1], the slots above
         r |-> <<>>, seen |-> {}, at |-> <<>>, \* rlist; the hazard_scan() at work
         in |-> FALSE, out |-> FALSE]      \* was the key in the list, or not, since the call

(* stasis_util_skiplist_make_node()                                           *)
MakeNode(k, level, fwd) ==
  [k |-> k, fwd |-> [i \in 1 .. level |-> fwd[i]], fm |-> [i \in 1 .. level |-> FREE], lm |-> FREE,
   refs |-> 0, freed |-> FALSE]

MaxLevel == CHOOSE l \in Levels : \A m \in Levels : m <= l
Tower(lv, k, i) == {j \in DOMAIN lv : j > k /\ lv[j] >= i}
First(lv, k, i) == IF Tower(lv, k, i) = {} THEN NIL
                   ELSE CHOOSE j \in Tower(lv, k, i) : \A m \in Tower(lv, k, i) : j <= m
(* A list as insertions leave it, one node for each key of a set.             *)
Init ==
  \E ks \in SUBSET Keys : \E lv \in [ks -> Levels] :
    /\ obj = [node |-> [p \in {Header} \cup ks |->
                          LET level == IF p = Header THEN MaxLevel ELSE lv[p] IN
                          MakeNode(p, level, [i \in 1 .. level |-> First(lv, p, i)])],
              hint |-> IF First(lv, Header, 2) = NIL THEN 1 ELSE 2, \* levelHint, of two levels
              set |-> ks, ops |-> 0, made |-> Cardinality(Keys), t |-> [t \in Threads |-> Idle]]
    /\ call = <<"init", None>> /\ ans = None

At(t, pc) == obj.t[t].pc = pc
Fwd(o, p, i) == o.node[p].fwd[i]
(* stasis_util_skiplist_cmp_helper(): the end of the list is above every key, *)
(* the header below.                                                          *)
Below(o, p, k) == p # NIL /\ o.node[p].k < k
HasKey(o, p, k) == p # NIL /\ o.node[p].k = k
Silent == call' = <<"step", None>> /\ ans' = None
Returns(t, found) == call' = <<obj.t[t].op, t>> /\ ans' = <<found>>
(* hazard_release() of all slots; what is to be freed stays in rlist.         *)
Back(c) == [Idle EXCEPT !.r = c.r, !.pc = c.pc]
Mark(o, k) == [u \in Threads |-> [o.t[u] EXCEPT !.in = @ \/ (o.t[u].k = k /\ k \in o.set),
                                                 !.out = @ \/ (o.t[u].k = k /\ k \notin o.set)]]
Noted(o, k) == [o EXCEPT !.t = Mark(o, k)]

(* An operation starts at the header, at the level of the hint.               *)
Start(t, op, k) ==
  /\ At(t, "idle") /\ obj.ops < MaxOps
  /\ obj' = [obj EXCEPT !.ops = @ + 1,
                        !.t[t] = [Idle EXCEPT !.pc = "down", !.op = op, !.k = k, !.i = obj.hint, !.x = Header,
                                              !.y = Fwd(obj, Header, obj.hint), !.r = obj.t[t].r,
                                              !.in = k \in obj.set, !.out = k \notin obj.set]]
  /\ Silent

(* Faulty variant: a search does not go down to the lowest level.             *)
DownShort(t) ==
  LET c == obj.t[t]
      below == Below(obj, c.y, c.k)
      d == IF below THEN [c EXCEPT !.x = c.y, !.y = Fwd(obj, c.y, c.i)]
           ELSE [c EXCEPT !.i = @ - 1, !.y = IF c.i > 1 THEN Fwd(obj, c.x, c.i - 1) ELSE @,
                          !.up = IF c.op = "search" THEN @ ELSE Append(@, c.x)]
  IN /\ At(t, "down")
     /\ IF c.op = "search" /\ d.i < 2 /\ ~below
        THEN /\ obj' = [obj EXCEPT !.t[t] = [Back(c) EXCEPT !.pc = "idle"]]
             /\ Returns(t, HasKey(obj, c.y, c.k))
        ELSE /\ obj' = [obj EXCEPT !.t[t] = IF d.i > 0 THEN d
                                            ELSE IF c.op = "insert" THEN [d EXCEPT !.pc = "seek", !.i = 1]
                                            ELSE [d EXCEPT !.pc = "first", !.y = c.x, !.i = 1]]
             /\ Silent

(* The walk down of search, insert and delete, a pointer at a time: x moves   *)
(* to y, or down a level, and y = hazard_ref() of the next.                   *)
Down(t) ==
  LET c == obj.t[t]
      below == Below(obj, c.y, c.k)
      d == IF below THEN [c EXCEPT !.x = c.y, !.y = Fwd(obj, c.y, c.i)]
           ELSE [c EXCEPT !.i = @ - 1, !.y = IF c.i > 1 THEN Fwd(obj, c.x, c.i - 1) ELSE @,
                          !.up = IF c.op = "search" THEN @ ELSE Append(@, c.x)]
  IN /\ At(t, "down")
     /\ IF c.op = "search" /\ d.i = 0
        THEN /\ obj' = [obj EXCEPT !.t[t] = [Back(c) EXCEPT !.pc = "idle"]]
             /\ Returns(t, HasKey(obj, c.y, c.k))
        ELSE /\ obj' = [obj EXCEPT !.t[t] = IF d.i > 0 THEN d
                                            ELSE IF c.op = "insert" THEN [d EXCEPT !.pc = "seek", !.i = 1]
                                            ELSE [d EXCEPT !.pc = "first", !.y = c.x, !.i = 1]]
             /\ Silent

(* stasis_util_skiplist_get_lock(): walk on at level i, lock, and look again. *)
Seek(t) ==
  /\ At(t, "seek")
  /\ obj' = [obj EXCEPT !.t[t].z = Fwd(obj, obj.t[t].x, obj.t[t].i), !.t[t].pc = "walk"]
  /\ Silent

Walk(t) ==
  LET c == obj.t[t] IN
  /\ At(t, "walk")
  /\ obj' = [obj EXCEPT !.t[t] = IF Below(obj, c.z, c.k) THEN [c EXCEPT !.x = c.z, !.z = Fwd(obj, c.z, c.i)]
                                 ELSE [c EXCEPT !.pc = "lock"]]
  /\ Silent

Locks(t) == At(t, "lock") /\ obj.node[obj.t[t].x].fm[obj.t[t].i] = FREE
Passed(t) == LET c == obj.t[t]  z == Fwd(obj, c.x, c.i) IN
             /\ Locks(t) /\ Below(obj, z, c.k)
             /\ obj' = [obj EXCEPT !.t[t].z = z, !.t[t].pc = "pass"] /\ Silent
Pass(t) == At(t, "pass") /\ obj' = [obj EXCEPT !.t[t].x = obj.t[t].z, !.t[t].pc = "lock"] /\ Silent

(* update[], which is the header above the level at which the walk began.     *)
Update(c, i) == IF i > Len(c.up) THEN Header ELSE c.up[Len(c.up) + 1 - i]

(* levelHint moves to the highest level in use, after an insertion only up    *)
(* and after a deletion only down (under a mutex, or else another does it).   *)
Raised(o) == IF o.hint < MaxLevel /\ Fwd(o, Header, o.hint + 1) # NIL THEN o.hint + 1 ELSE o.hint
Lowered(o) == IF o.hint > 1 /\ Fwd(o, Header, o.hint) = NIL THEN o.hint - 1 ELSE o.hint

(* stasis_util_skiplist_insert(), with the mutex of x's pointer at level 1:   *)
(* there is a node with the key, or a new one is linked.                      *)
InsertFound(t) ==
  LET c == obj.t[t]  y == Fwd(obj, c.x, 1) IN
  /\ Locks(t) /\ c.op = "insert" /\ c.i = 1
  /\ ~Below(obj, y, c.k) /\ HasKey(obj, y, c.k)
  /\ obj' = [obj EXCEPT !.t[t].y = y, !.t[t].z = NIL, !.t[t].pc = "replace"]
  /\ Silent

Replace(t) ==
  LET c == obj.t[t] IN
  /\ At(t, "replace") /\ obj.node[c.y].lm = FREE
  /\ IF Below(obj, Fwd(obj, c.y, 1), c.k) \* isGarbage
     THEN /\ obj' = [obj EXCEPT !.t[t] = [c EXCEPT !.pc = "down", !.i = obj.hint, !.x = Header,
                                                    !.y = Fwd(obj, Header, obj.hint), !.up = <<>>]]
          /\ Silent
     ELSE /\ obj' = [obj EXCEPT !.t[t] = [Back(c) EXCEPT !.pc = "idle"]]
          /\ Returns(t, TRUE)

InsertNew(t, level) ==
  LET c == obj.t[t]
      p == obj.made + 1
      new == [MakeNode(c.k, level, [i \in 1 .. level |-> IF i = 1 THEN Fwd(obj, c.x, 1) ELSE NIL])
              EXCEPT !.lm = IF level = 1 THEN FREE ELSE t]
      linked == [obj EXCEPT !.node = [q \in DOMAIN @ \cup {p} |-> IF q = p THEN new ELSE @[q]],
                            !.made = p, !.set = @ \cup {c.k}, !.t[t].y = p]
      o == [linked EXCEPT !.node[c.x].fwd[1] = p]
  IN /\ Locks(t) /\ c.op = "insert" /\ c.i = 1
     /\ LET y == Fwd(obj, c.x, 1) IN ~Below(obj, y, c.k) /\ ~HasKey(obj, y, c.k)
     /\ obj' = Noted([o EXCEPT !.t[t].z = NIL, !.t[t].i = 2, !.t[t].pc = IF level = 1 THEN "raise" ELSE "seek",
                               !.t[t].x = IF level = 1 THEN @ ELSE Update(c, 2)], c.k)
     /\ Silent

InsertAbove(t) ==
  LET c == obj.t[t]
      top == c.i = Len(obj.node[c.y].fwd)
      o == [obj EXCEPT !.node[c.y].fwd[c.i] = Fwd(obj, c.x, c.i), !.node[c.y].lm = IF top THEN FREE ELSE @]
  IN /\ Locks(t) /\ c.op = "insert" /\ c.i > 1 /\ ~Below(obj, Fwd(obj, c.x, c.i), c.k)
     /\ obj' = [o EXCEPT !.node[c.x].fwd[c.i] = c.y,
                         !.t[t] = [c EXCEPT !.z = NIL, !.i = @ + 1, !.pc = IF top THEN "raise" ELSE "seek",
                                            !.x = IF top THEN @ ELSE Update(c, c.i + 1)]]
     /\ Silent

InsertEnd(t) ==
  /\ At(t, "raise")
  /\ obj' = [obj EXCEPT !.hint = Raised(obj), !.t[t] = [Back(@) EXCEPT !.pc = "idle"]]
  /\ Returns(t, FALSE)

(* stasis_util_skiplist_delete(): along the lowest level to the node with the *)
(* key, whose level_mut is taken, unless it is garbage.                       *)
DeleteNext(t) ==
  LET c == obj.t[t]
      x == Fwd(obj, c.y, 1)
      o == IF c.pc = "first" THEN obj ELSE [obj EXCEPT !.node[c.y].lm = FREE]
  IN /\ c.pc \in {"first", "next"}
     /\ IF ~Below(obj, x, c.k) /\ ~HasKey(obj, x, c.k)
        THEN obj' = [o EXCEPT !.t[t] = [Back(c) EXCEPT !.pc = "idle"]] /\ Returns(t, FALSE)
        ELSE obj' = [o EXCEPT !.t[t] = [c EXCEPT !.x = x, !.y = x, !.pc = "level"]] /\ Silent

DeleteLock(t) ==
  LET c == obj.t[t]
      x == Fwd(obj, c.y, 1)
      garbage == x # NIL /\ obj.node[c.y].k > obj.node[x].k
      level == Len(obj.node[c.y].fwd)
  IN /\ At(t, "level") /\ obj.node[c.y].lm = FREE
     /\ obj' = [obj EXCEPT !.node[c.y].lm = t,
                           !.t[t] = IF ~garbage /\ obj.node[c.y].k = c.k
                                    THEN [c EXCEPT !.pc = "seek", !.i = level, !.x = Update(c, level)]
                                    ELSE [c EXCEPT !.pc = "next", !.x = x]]
     /\ Silent

(* From the top level down: the predecessor's pointer is locked, then that of *)
(* the node; the predecessor skips the node, which then points back.          *)
DeleteHold(t) ==
  LET c == obj.t[t] IN
  /\ Locks(t) /\ c.op = "delete" /\ ~Below(obj, Fwd(obj, c.x, c.i), c.k)
  /\ obj' = [obj EXCEPT !.node[c.x].fm[c.i] = t, !.t[t].z = NIL, !.t[t].pc = "unlink"]
  /\ Silent

(* Faulty variant: the pointer back is not counted.                           *)
DeleteUnlinkFree(t) ==
  LET c == obj.t[t]
      o == [obj EXCEPT !.node[c.y].fm[c.i] = t, !.node[c.x].fwd[c.i] = Fwd(obj, c.y, c.i), !.t[t].pc = "back"]
  IN /\ At(t, "unlink") /\ obj.node[c.y].fm[c.i] = FREE
     /\ obj' = IF c.i > 1 THEN o
               ELSE Noted([o EXCEPT !.set = @ \ {c.k}], c.k)
     /\ Silent

DeleteUnlink(t) ==
  LET c == obj.t[t]
      o == [obj EXCEPT !.node[c.y].fm[c.i] = t, !.node[c.x].refs = @ + 1,
                       !.node[c.x].fwd[c.i] = Fwd(obj, c.y, c.i), !.t[t].pc = "back"]
  IN /\ At(t, "unlink") /\ obj.node[c.y].fm[c.i] = FREE
     /\ obj' = IF c.i > 1 THEN o
               ELSE Noted([o EXCEPT !.set = @ \ {c.k}], c.k)
     /\ Silent

(* Faulty variant: a deleted node goes on pointing forward.                   *)
DeleteBackOn(t) ==
  LET c == obj.t[t]
      o == [obj EXCEPT !.node[c.x].fm[c.i] = FREE, !.node[c.y].fm[c.i] = FREE]
  IN /\ At(t, "back")
     /\ obj' = IF c.i > 1 THEN [o EXCEPT !.t[t] = [c EXCEPT !.i = @ - 1, !.pc = "seek", !.x = Update(c, c.i - 1)]]
               ELSE [o EXCEPT !.node[c.y].lm = FREE, !.t[t].pc = "lower"]
     /\ Silent

DeleteBack(t) ==
  LET c == obj.t[t]
      o == [obj EXCEPT !.node[c.y].fwd[c.i] = c.x, !.node[c.x].fm[c.i] = FREE, !.node[c.y].fm[c.i] = FREE]
  IN /\ At(t, "back")
     /\ obj' = IF c.i > 1 THEN [o EXCEPT !.t[t] = [c EXCEPT !.i = @ - 1, !.pc = "seek", !.x = Update(c, c.i - 1)]]
               ELSE [o EXCEPT !.node[c.y].lm = FREE, !.t[t].pc = "lower"]
     /\ Silent

(* The hint goes down, the hazard pointers are released, and hazard_free()    *)
(* puts the node on the list of those to free: a full list is scanned.        *)
DeleteEnd(t) ==
  LET c == obj.t[t]  d == [Back(c) EXCEPT !.r = Append(@, c.y), !.op = c.op, !.in = c.in] IN
  /\ At(t, "lower")
  /\ IF Len(d.r) < RSlots
     THEN /\ obj' = [obj EXCEPT !.hint = Lowered(obj),
                                !.t[t] = [d EXCEPT !.pc = "idle", !.op = None, !.in = FALSE]]
          /\ Returns(t, TRUE)
     ELSE /\ obj' = [obj EXCEPT !.hint = Lowered(obj), !.t[t] = [d EXCEPT !.pc = "scan"]]
          /\ Silent

(* hazard_scan(): it reads the slots of the threads one by one, those above   *)
(* the first three up to one that is not set.                                 *)
Slots(c) == <<c.x, c.y, c.z>> \o c.up
Scanner(t) ==
  /\ At(t, "scan")
  /\ obj' = [obj EXCEPT !.t[t].pc = "read", !.t[t].seen = {}, !.t[t].at = [u \in Threads |-> 1]]
  /\ Silent

ScanSlot(t, u) ==
  LET c == obj.t[t]  s == Slots(obj.t[u]) IN
  /\ At(t, "read") /\ c.at[u] > 0 /\ \A v \in Threads : v < u => c.at[v] = 0
  /\ obj' = [obj EXCEPT !.t[t] = IF c.at[u] > Len(s) THEN [c EXCEPT !.at[u] = 0]
                                 ELSE [c EXCEPT !.at[u] = @ + 1, !.seen = @ \cup {s[c.at[u]]}]]
  /\ Silent

(* stasis_util_skiplist_node_finalize() of the nodes that no slot held: one   *)
(* that others point back to stays.                                           *)
RefsFrom(o, p, n) == Cardinality({i \in DOMAIN o.node[p].fwd : o.node[p].fwd[i] = n})
Finalized(o, p) ==
  [o EXCEPT !.node = [n \in DOMAIN @ |-> [@[n] EXCEPT !.refs = @ - RefsFrom(o, p, n), !.freed = @ \/ n = p]]]
RECURSIVE Finalize(_, _, _, _)
Finalize(o, r, seen, kept) ==
  IF r = <<>> THEN [o |-> o, r |-> kept]
  ELSE LET p == Head(r) IN
       IF p \notin seen /\ o.node[p].refs = 0 THEN Finalize(Finalized(o, p), Tail(r), seen, kept)
       ELSE Finalize(o, Tail(r), seen, Append(kept, p))

ScanFree(t) ==
  LET c == obj.t[t]
      sorted == IF Len(c.r) = 2 /\ c.r[1] > c.r[2] THEN <<c.r[2], c.r[1]>> ELSE c.r
      f == Finalize(obj, sorted, c.seen, <<>>)
      again == IF c.op = "exit" THEN f.r # <<>> ELSE Len(f.r) = RSlots
  IN /\ At(t, "read") /\ \A u \in Threads : c.at[u] = 0
     /\ IF again
        THEN /\ obj' = [f.o EXCEPT !.t[t] = [c EXCEPT !.r = f.r, !.pc = "scan", !.at = <<>>, !.seen = {}]]
             /\ Silent
        ELSE /\ obj' = [f.o EXCEPT !.t[t] = [Idle EXCEPT !.r = f.r,
                                                         !.pc = IF c.op = "exit" THEN "gone" ELSE "idle"]]
             /\ Returns(t, TRUE)

(* hazard_deinit_thread(): a thread that ends scans until its list is empty.  *)
Exit(t) ==
  /\ Exits /\ At(t, "idle")
  /\ obj' = [obj EXCEPT !.t[t].op = "exit", !.t[t].pc = IF obj.t[t].r = <<>> THEN "gone" ELSE "scan"]
  /\ Silent

Step(t) == \/ Down(t) \/ Seek(t) \/ Walk(t) \/ Passed(t) \/ Pass(t)
           \/ InsertFound(t) \/ Replace(t) \/ InsertAbove(t) \/ InsertEnd(t)
           \/ DeleteNext(t) \/ DeleteLock(t) \/ DeleteHold(t) \/ DeleteUnlink(t) \/ DeleteBack(t) \/ DeleteEnd(t)
           \/ Scanner(t) \/ ScanFree(t)
           \/ \E level \in Levels : InsertNew(t, level)
           \/ \E u \in Threads : ScanSlot(t, u)
Next == \E t \in Threads : \/ \E k \in Keys, op \in {"search", "insert", "delete"} : Start(t, op, k)
                           \/ Exit(t) \/ Step(t)
-----------------------------------------------------------------------------
(* The nodes that are met from the header at level i.                         *)
RECURSIVE Chain(_, _)
Chain(p, i) == IF p = NIL THEN <<>> ELSE <<p>> \o Chain(obj.node[p].fwd[i], i)

(* The lowest level holds the keys that were inserted and not deleted since,  *)
(* in order: no insertion is lost behind a node that is being deleted.        *)
ListExact ==
  LET c == Tail(Chain(Header, 1)) IN
  /\ {obj.node[c[j]].k : j \in DOMAIN c} = obj.set
  /\ \A j \in DOMAIN c : \A l \in 1 .. j - 1 : obj.node[c[l]].k < obj.node[c[j]].k

(* An answer was true at some time since the call: search finds a key that    *)
(* was in the list and misses one that was not; so do insert and delete.      *)
AnswerSound ==
  call'[1] \in {"search", "insert", "delete"} /\ ans' # None =>
    IF ans'[1] THEN obj.t[call'[2]].in ELSE obj.t[call'[2]].out

(* A node's count is the number of pointers back to it, from deleted nodes    *)
(* that are not freed yet, and no pointer leads to a node that is freed.      *)
RefsExact ==
  /\ (\A t \in DOMAIN obj.t : obj.t[t].pc # "back") =>
       \A n \in DOMAIN obj.node : ~obj.node[n].freed =>
         obj.node[n].refs = Cardinality({<<p, i>> \in (DOMAIN obj.node) \X Levels :
                              /\ i \in DOMAIN obj.node[p].fwd /\ obj.node[p].fwd[i] = n
                              /\ ~obj.node[p].freed /\ obj.node[n].k < obj.node[p].k})
  /\ \A p \in DOMAIN obj.node : ~obj.node[p].freed =>
       \A i \in DOMAIN obj.node[p].fwd : obj.node[p].fwd[i] = NIL \/ ~obj.node[obj.node[p].fwd[i]].freed

(* No node is freed that a thread holds a hazard pointer to.                  *)
(* Refuted by TLC: the code does not ensure it. No run checks this.           *)
HeldLive == \A t \in DOMAIN obj.t : \A j \in DOMAIN Slots(obj.t[t]) :
              Slots(obj.t[t])[j] = NIL \/ ~obj.node[Slots(obj.t[t])[j]].freed
=============================================================================
