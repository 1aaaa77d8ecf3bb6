------------------------------- MODULE LsmTree -------------------------------
(* experimental/lsmTree.c: a tree to which pages are appended in the order of *)
(* their keys. Nodes are never rebalanced: a full row gets a new last page,   *)
(* a full root pushes its contents one level down. Iterators walk the leaves  *)
(* along their links with the current leaf latched, while others append. The  *)
(* pages come from regions that the allocator lists.                          *)
EXTENDS Integers, Sequences

CONSTANTS Capacity,    \* node records that fit on a page
          RegionSize,
          Iterators,
          MaxAppends,  \* bound
          None

VARIABLES obj, call, ans

vars == <<obj, call, ans>>

NIL == -1
Root == 1
Rec(key, ptr) == [key |-> key, ptr |-> ptr]
Node == [recs |-> <<>>, prev |-> NIL, next |-> NIL]
Full(s, p) == Len(s.page[p].recs) = Capacity
LastChild(s, p) == s.page[p].recs[Len(s.page[p].recs)].ptr
Key(i) == 2 * i
Closed == [p |-> NIL, slot |-> 0, one |-> FALSE, pos |-> 0]

(* Faulty variant: only the newest region is listed.                          *)
TlsmRegionAllocNew(s) ==
  LET c == s.conf
      d == IF c.next # c.end THEN c
           ELSE LET start == IF c.end = NIL THEN Root ELSE c.end + 1 IN
                [next |-> start, end |-> start + RegionSize, list |-> <<start>>]
  IN [s EXCEPT !.conf = [d EXCEPT !.next = @ + 1],
               !.page = [q \in DOMAIN @ \cup {d.next} |-> IF q = d.next THEN Node ELSE @[q]]]

(* TlsmRegionAlloc(): the next page of the last region, or of a new one,      *)
(* which lies beyond a boundary tag after it (TregionAlloc).                  *)
TlsmRegionAlloc(s) ==
  LET c == s.conf
      d == IF c.next # c.end THEN c
           ELSE LET start == IF c.end = NIL THEN Root ELSE c.end + 1 IN
                [next |-> start, end |-> start + RegionSize, list |-> Append(c.list, start)]
  IN [s EXCEPT !.conf = [d EXCEPT !.next = @ + 1],
               !.page = [q \in DOMAIN @ \cup {d.next} |-> IF q = d.next THEN Node ELSE @[q]]]

(* TlsmCreate(): the root is the first page that the allocator gives.         *)
Created ==
  TlsmRegionAlloc([page |-> [q \in {} |-> Node], depth |-> 0, last |-> NIL,
                   conf |-> [next |-> NIL, end |-> NIL, list |-> <<>>],
                   n |-> 0,  \* how many pages were appended
                   it |-> [i \in Iterators |-> Closed], up |-> TRUE])

Init == obj = Created /\ call = <<"create", None>> /\ ans = None

TlsmCreate == ~obj.up /\ obj' = Created /\ call' = <<"create", None>> /\ ans' = None

(* Faulty variant: the leaf before is not linked to the new one.              *)
RECURSIVE BuildPathUnlinked(_, _, _, _, _, _)
BuildPathUnlinked(s, p, depth, key, val, last) ==
  LET a == TlsmRegionAlloc(s)
      child == a.conf.next - 1
      leaf == [a EXCEPT !.page[child] = [recs |-> <<Rec(key, val)>>, prev |-> last, next |-> NIL]]
      sub == IF depth > 1 THEN BuildPathUnlinked(a, child, depth - 1, key, val, last) ELSE [s |-> leaf, leaf |-> child]
  IN [s |-> [sub.s EXCEPT !.page[p].recs = Append(@, Rec(key, child))], leaf |-> sub.leaf]

(* buildPathToLeaf(): a new last child for p, and so on down to a leaf with   *)
(* the value, which is linked with the leaf that was last.                    *)
RECURSIVE BuildPathToLeaf(_, _, _, _, _, _)
BuildPathToLeaf(s, p, depth, key, val, last) ==
  LET a == TlsmRegionAlloc(s)
      child == a.conf.next - 1
      leaf == [a EXCEPT !.page[child] = [recs |-> <<Rec(key, val)>>, prev |-> last, next |-> NIL]]
      linked == IF last = NIL THEN leaf ELSE [leaf EXCEPT !.page[last].next = child]
      sub == IF depth > 1 THEN BuildPathToLeaf(a, child, depth - 1, key, val, last) ELSE [s |-> linked, leaf |-> child]
  IN [s |-> [sub.s EXCEPT !.page[p].recs = Append(@, Rec(key, child))], leaf |-> sub.leaf]

(* appendInternalNode(): down the last children; where a subtree is full a    *)
(* new one is put beside it. The leaf is NIL when everything is full.         *)
RECURSIVE AppendInternalNode(_, _, _, _, _, _)
AppendInternalNode(s, p, depth, key, val, last) ==
  IF depth = 0
  THEN IF Full(s, p) THEN [s |-> s, leaf |-> NIL]
       ELSE [s |-> [s EXCEPT !.page[p].recs = Append(@, Rec(key, val))], leaf |-> p]
  ELSE LET r == AppendInternalNode(s, LastChild(s, p), depth - 1, key, val, last) IN
       IF r.leaf # NIL THEN r
       ELSE IF Full(s, p) THEN [s |-> s, leaf |-> NIL]
       ELSE BuildPathToLeaf(s, p, depth, key, val, last)

(* findLastLeaf() and findFirstLeaf().                                        *)
RECURSIVE FindLastLeaf(_, _, _)
FindLastLeaf(s, p, depth) == IF depth = 0 THEN p ELSE FindLastLeaf(s, LastChild(s, p), depth - 1)
RECURSIVE FindFirstLeaf(_, _, _)
FindFirstLeaf(s, p, depth) == IF depth = 0 THEN p ELSE FindFirstLeaf(s, s.page[p].recs[1].ptr, depth - 1)

(* Faulty variant: the cached last leaf stays the root.                       *)
SplitRootStale(s) ==
  LET a == TlsmRegionAlloc(s)
      child == a.conf.next - 1
  IN [a EXCEPT !.page[child] = [Node EXCEPT !.recs = s.page[Root].recs],
               !.page[Root].recs = <<Rec(s.page[Root].recs[1].key, child)>>,
               !.depth = @ + 1]

(* The split of a full root in TlsmAppendPage(): its records move to a child. *)
SplitRoot(s) ==
  LET a == TlsmRegionAlloc(s)
      child == a.conf.next - 1
  IN [a EXCEPT !.page[child] = [Node EXCEPT !.recs = s.page[Root].recs],
               !.page[Root].recs = <<Rec(s.page[Root].recs[1].key, child)>>,
               !.last = IF s.depth = 0 THEN child ELSE @,
               !.depth = @ + 1]

(* TlsmAppendPage(): on the last leaf, or down from the root. It waits for    *)
(* iterators that have the root or the last leaf latched.                     *)
Latched(p) == \E i \in DOMAIN obj.it : obj.it[i].p = p
LastLeaf(s) == IF s.last = NIL THEN FindLastLeaf(s, Root, s.depth) ELSE s.last
Before(s) == IF s.last = Root THEN NIL ELSE s.last

TlsmAppendPage ==
  LET key == Key(obj.n + 1)
      val == obj.n + 1
      s == [obj EXCEPT !.last = LastLeaf(obj), !.n = @ + 1]
      r == AppendInternalNode(s, Root, s.depth, key, val, Before(s))
      t == SplitRoot(s)
      q == AppendInternalNode(t, Root, t.depth, key, val, Before(t))
      done == IF r.leaf # NIL THEN r ELSE q
  IN /\ obj.up /\ obj.n < MaxAppends /\ ~Latched(Root) /\ ~Latched(s.last)
     /\ obj' = IF ~Full(s, s.last)
               THEN [s EXCEPT !.page[s.last].recs = Append(@, Rec(key, val))]
               ELSE [done.s EXCEPT !.last = done.leaf]
     /\ call' = <<"append", key>> /\ ans' = None

(* Faulty variant: a record with the key itself is passed by.                 *)
RECURSIVE LookupLess(_, _, _, _)
LookupLess(s, p, depth, key) ==
  LET recs == s.page[p].recs
      match == Len(SelectSeq(Tail(recs), LAMBDA r : r.key < key)) + 1
  IN IF depth = 0 THEN [p |-> p, slot |-> match]
     ELSE LookupLess(s, recs[match].ptr, depth - 1, key)

(* lsmLookup(), in a tree that is not empty: the last record whose key is not *)
(* greater, where the first one is not compared.                              *)
RECURSIVE LsmLookup(_, _, _, _)
LsmLookup(s, p, depth, key) ==
  LET recs == s.page[p].recs
      match == Len(SelectSeq(Tail(recs), LAMBDA r : r.key <= key)) + 1
  IN IF depth = 0 THEN [p |-> p, slot |-> match]
     ELSE LsmLookup(s, recs[match].ptr, depth - 1, key)

Empty(s) == s.page[Root].recs = <<>>

TlsmFindPage(key) ==
  LET r == LsmLookup(obj, Root, obj.depth, key) IN
  /\ obj.up /\ UNCHANGED obj
  /\ call' = <<"find", key>>
  /\ ans' = IF Empty(obj) THEN NIL ELSE obj.page[r.p].recs[r.slot].ptr

(* TlsmLastPage(), which fills the cache of the last leaf.                    *)
TlsmLastPage ==
  LET s == [obj EXCEPT !.last = LastLeaf(obj)] IN
  /\ obj.up /\ obj' = s
  /\ call' = <<"last", None>>
  /\ ans' = IF s.page[s.last].recs = <<>> THEN NIL ELSE LastChild(s, s.last)

(* lsmPageLoaded(): the root was evicted and loaded again.                    *)
LsmPageLoaded ==
  /\ obj.up /\ obj.last # NIL /\ ~Latched(Root)
  /\ obj' = [obj EXCEPT !.last = NIL]
  /\ call' = <<"loaded", None>> /\ ans' = None

(* lsmTreeIterator_open(), _openAt(), _copy(), _next() and _close().          *)
Opened(p, slot, pos) == [p |-> p, slot |-> slot, one |-> obj.depth = 0, pos |-> pos]
IterOpen(i) ==
  /\ obj.up /\ obj.it[i] = Closed
  /\ obj' = [obj EXCEPT !.it[i] = Opened(FindFirstLeaf(obj, Root, obj.depth), 0, 0)]
  /\ call' = <<"open", i>> /\ ans' = None

IterOpenAt(i, key) ==
  LET r == LsmLookup(obj, Root, obj.depth, key) IN
  /\ obj.up /\ obj.it[i] = Closed /\ ~Empty(obj)
  /\ obj' = [obj EXCEPT !.it[i] = Opened(r.p, r.slot - 1, obj.page[r.p].recs[r.slot].ptr - 1)]
  /\ call' = <<"open", i>> /\ ans' = None

IterCopy(i, j) ==
  /\ obj.up /\ obj.it[i] # Closed /\ obj.it[j] = Closed
  /\ obj' = [obj EXCEPT !.it[j] = obj.it[i]]
  /\ call' = <<"open", j>> /\ ans' = None

IterNext(i) ==
  LET c == obj.it[i]
      page == obj.page[c.p]
      val(p, slot) == obj.page[p].recs[slot].ptr
      to(p, slot) == /\ obj' = [obj EXCEPT !.it[i] = [c EXCEPT !.p = p, !.slot = slot, !.pos = @ + 1]]
                     /\ ans' = <<c.pos, val(p, slot)>>
  IN /\ obj.up /\ c.p # NIL
     /\ call' = <<"next", i>>
     /\ IF c.slot < Len(page.recs) THEN to(c.p, c.slot + 1)
        ELSE IF page.next # NIL /\ ~c.one THEN to(page.next, 1)
        ELSE obj' = [obj EXCEPT !.it[i] = Closed] /\ ans' = <<c.pos, NIL>>

IterClose(i) ==
  /\ obj.up /\ obj.it[i] # Closed
  /\ obj' = [obj EXCEPT !.it[i] = Closed]
  /\ call' = <<"close", i>> /\ ans' = None

(* TlsmFree() with TlsmRegionDeallocRid(): every region of the list is freed. *)
TlsmFree ==
  LET freed == UNION {obj.conf.list[i] .. obj.conf.list[i] + RegionSize - 1 : i \in DOMAIN obj.conf.list} IN
  /\ obj.up /\ \A i \in Iterators : obj.it[i] = Closed
  /\ obj' = [obj EXCEPT !.up = FALSE, !.page = [p \in DOMAIN @ \ freed |-> @[p]]]
  /\ call' = <<"free", None>> /\ ans' = None

Next == \/ TlsmAppendPage \/ TlsmLastPage \/ LsmPageLoaded \/ TlsmFree \/ TlsmCreate
        \/ \E key \in 1 .. Key(MaxAppends) + 1 : TlsmFindPage(key) \/ \E i \in Iterators : IterOpenAt(i, key)
        \/ \E i \in Iterators : IterOpen(i) \/ IterNext(i) \/ IterClose(i) \/ \E j \in Iterators : IterCopy(i, j)
-----------------------------------------------------------------------------
(* A lookup finds the page with the greatest key that is not greater than the *)
(* one asked for, or the first; TlsmLastPage the one that was appended last.  *)
FindExact ==
  /\ call'[1] = "find" =>
       ans' = IF obj.n = 0 THEN NIL ELSE IF call'[2] < Key(1) THEN 1
              ELSE IF call'[2] >= Key(obj.n) THEN obj.n ELSE call'[2] \div 2
  /\ call'[1] = "last" => ans' = IF obj.n = 0 THEN NIL ELSE obj.n

(* An iterator yields the pages one after the other from where it was opened, *)
(* with those appended meanwhile, and ends only after the last.               *)
IterExact ==
  call'[1] = "next" => ans'[2] = IF ans'[1] < obj.n THEN ans'[1] + 1 ELSE NIL

(* Along their links the leaves hold what was appended, forward and back, and *)
(* end at the leaf that is cached as the last one.                            *)
RECURSIVE Walk(_, _)
Walk(p, prev) ==
  IF p = NIL THEN <<>>
  ELSE (IF obj.depth > 0 /\ obj.page[p].prev # prev THEN <<NIL>> ELSE <<>>)
       \o [i \in DOMAIN obj.page[p].recs |-> obj.page[p].recs[i].ptr]
       \o (IF obj.page[p].next = NIL /\ obj.last \notin {NIL, p} THEN <<NIL>> ELSE Walk(obj.page[p].next, p))
LeavesLinked ==
  obj.up => Walk(FindFirstLeaf(obj, Root, obj.depth), NIL) = [i \in 1 .. obj.n |-> i]

(* Freeing the tree frees every page of it: no page lies outside the regions. *)
AllFreed == ~obj.up => DOMAIN obj.page = {}
=============================================================================
