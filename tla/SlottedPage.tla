----------------------------- MODULE SlottedPage -----------------------------
(* The slotted page of page/slotted-impl.h and page/slotted.c: records grow   *)
(* from the start of the page, the slot array grows from its end towards      *)
(* them, and free slots below numslots are chained through their length       *)
(* field. The unit of length is one slot entry (4 bytes).                     *)
EXTENDS Integers, FiniteSets, Sequences

CONSTANTS PageSize,  \* bytes below the page header, in slot entries
          Sizes,     \* record sizes; a zero-byte record is possible
          Fill       \* what records are filled with

VARIABLES obj,       \* freespace, numslots, freelist, slot array and bytes
          call, ans

vars == <<obj, call, ans>>

INVALID == -1
Slots == 0 .. PageSize - 1

(* slotted_initialize_page_raw(); the slot array is a sequence as long as     *)
(* numslots, so that slot s is its entry s + 1.                               *)
Blank == [fs |-> 0, fl |-> INVALID, slot |-> <<>>,
          mem |-> [b \in 1 .. PageSize |-> CHOOSE f \in Fill : TRUE]]

NumSlots(p) == Len(p.slot)
Off(p, s) == p.slot[s + 1].off
Length(p, s) == p.slot[s + 1].len
Live(p, s) == s < NumSlots(p) /\ Off(p, s) # INVALID
Bytes(p, s) == SubSeq(p.mem, Off(p, s) + 1, Off(p, s) + Length(p, s))
FreeBelow(p, n) == {s \in 0 .. n - 1 : ~Live(p, s)}
FreeEntry(next) == [off |-> INVALID, len |-> next]

(* slotted_freespace_for_slot(); for INVALID_SLOT, what a new record may use. *)
FreespaceFor(p, s) ==
  LET overhead == CASE s = INVALID -> IF p.fl = INVALID THEN 1 ELSE 0
                    [] s # INVALID /\ s < NumSlots(p) -> 0
                    [] OTHER -> s + 1 - NumSlots(p)
      end == PageSize - NumSlots(p)
  IN IF end < p.fs + overhead THEN 0 ELSE end - p.fs - overhead

Least(S) == IF S = {} THEN INVALID ELSE CHOOSE x \in S : \A y \in S : x <= y

(* slotted_compact(): the records move together, the free list is rebuilt in  *)
(* slot order and cut behind the last free slot before a used one, and the    *)
(* free slots above the last used slot are given back.                        *)
RECURSIVE CompactFrom(_, _, _, _)
CompactFrom(p, s, free, q) ==
  IF s > NumSlots(p) - 1 - Cardinality({f \in FreeBelow(p, NumSlots(p)) : f \notin free}) THEN q
  ELSE CompactFrom(p, s + 1, free,
         IF s \in free
         THEN [q EXCEPT !.slot = Append(@, FreeEntry(Least({f \in free : f > s})))]
         ELSE [q EXCEPT !.slot = Append(@, [off |-> q.fs, len |-> Length(p, s)]),
                        !.fs = @ + Length(p, s),
                        !.mem = @ \o Bytes(p, s)])

(* Faulty variant: the slots are changed and the bytes stay where they were.  *)
CompactInPlace(p) ==
  LET free == {f \in FreeBelow(p, NumSlots(p)) : \E u \in f .. NumSlots(p) - 1 : Live(p, u)}
      q == CompactFrom(p, 0, free, [fs |-> 0, fl |-> Least(free), slot |-> <<>>, mem |-> <<>>])
  IN [q EXCEPT !.mem = p.mem]

Compact(p) ==
  LET free == {f \in FreeBelow(p, NumSlots(p)) : \E u \in f .. NumSlots(p) - 1 : Live(p, u)}
      q == CompactFrom(p, 0, free, [fs |-> 0, fl |-> Least(free), slot |-> <<>>, mem |-> <<>>])
  IN [q EXCEPT !.mem = @ \o SubSeq(p.mem, q.fs + 1, PageSize)]

(* slotted_pre_alloc(): the head of the free list, or a new slot.             *)
PreAlloc(p, size) ==
  LET s == IF p.fl # INVALID THEN p.fl ELSE NumSlots(p) IN
  IF FreespaceFor(p, s) < size THEN INVALID ELSE s

(* The free slot that links to s, INVALID for the head of the list: the slot  *)
(* just before s when it does, otherwise found along the list.                *)
RECURSIVE PredFrom(_, _, _, _)
PredFrom(p, next, last, s) ==
  IF next = INVALID \/ next = s THEN [found |-> next = s, last |-> last]
  ELSE PredFrom(p, Length(p, next), next, s)
Pred(p, s) ==
  IF s > 0 /\ p.slot[s] = FreeEntry(s) THEN [found |-> TRUE, last |-> s - 1]
  ELSE PredFrom(p, p.fl, INVALID, s)

Unlink(p, s) ==
  IF s >= NumSlots(p) \/ Live(p, s) \/ ~Pred(p, s).found THEN p
  ELSE LET last == Pred(p, s).last IN
       IF last = INVALID THEN [p EXCEPT !.fl = Length(p, s)]
       ELSE [p EXCEPT !.slot[last + 1].len = Length(p, s)]

RECURSIVE LastFree(_, _)
LastFree(p, s) == IF Length(p, s) = INVALID THEN s ELSE LastFree(p, Length(p, s))

(* The slots between numslots and s join the tail of the free list.           *)
RECURSIVE AddSkipped(_, _)
AddSkipped(p, s) ==
  LET n == NumSlots(p)
      q == IF p.fl = INVALID THEN [p EXCEPT !.fl = n]
           ELSE [p EXCEPT !.slot[LastFree(p, p.fl) + 1].len = n]
  IN IF s <= n THEN p ELSE AddSkipped([q EXCEPT !.slot = Append(@, FreeEntry(INVALID))], s)

(* slotted_post_alloc()                                                       *)
PostAlloc(p, s, size) ==
  LET a == IF FreespaceFor(p, s) < size THEN Compact(p) ELSE p
      b == AddSkipped(Unlink(a, s), s)
      entry == [off |-> b.fs, len |-> size]
  IN [b EXCEPT !.fs = @ + size,
               !.slot = IF s = Len(@) THEN Append(@, entry) ELSE [@ EXCEPT ![s + 1] = entry]]

Filled(size, v) == [i \in 1 .. size |-> v]
Write(p, s, v) ==
  [p EXCEPT !.mem = SubSeq(@, 1, Off(p, s)) \o Filled(Length(p, s), v)
                      \o SubSeq(@, Off(p, s) + Length(p, s) + 1, Len(@))]

(* Faulty variant: a slot below the last one is not put on the free list.     *)
FreeUnlisted(p, s) ==
  LET q == IF p.fs = Off(p, s) + Length(p, s) THEN [p EXCEPT !.fs = @ - Length(p, s)] ELSE p
  IN IF s = NumSlots(p) - 1 THEN [q EXCEPT !.slot = SubSeq(@, 1, s)]
     ELSE [q EXCEPT !.slot[s + 1] = FreeEntry(INVALID)]

(* slotted_free(): the last record returns its bytes and the last slot its    *)
(* entry; any other slot goes to the head of the free list.                   *)
Free(p, s) ==
  LET q == IF p.fs = Off(p, s) + Length(p, s) THEN [p EXCEPT !.fs = @ - Length(p, s)] ELSE p
  IN IF s = NumSlots(p) - 1 THEN [q EXCEPT !.slot = SubSeq(@, 1, s)]
     ELSE [q EXCEPT !.slot[s + 1] = FreeEntry(p.fl), !.fl = s]

Larger(a, b) == IF a > b THEN a ELSE b
Step(op, s, size, v) == call' = <<op, s, size, v>> /\ ans' = 0

Init == obj = Blank /\ call = <<"create", 0, 0, 0>> /\ ans = 0

(* Talloc() on the page its policy chose, followed by a write of the record:  *)
(* the page is compacted when it has no room for the record, and a record of  *)
(* less than a slot entry asks for that much.                                 *)
AllocRecord(size, v) ==
  LET p == IF FreespaceFor(obj, INVALID) < Larger(size, 1) THEN Compact(obj) ELSE obj
      s == PreAlloc(p, size)
  IN /\ FreespaceFor(p, INVALID) >= Larger(size, 1)
     /\ obj' = Write(PostAlloc(p, s, size), s, v)
     /\ Step("alloc", s, size, v)

(* TallocFromPage(): no compaction beforehand, NULLRID when there is no room. *)
AllocFromPage(size, v) ==
  LET s == PreAlloc(obj, size) IN
  /\ size > 0
  /\ obj' = IF s = INVALID THEN obj ELSE Write(PostAlloc(obj, s, size), s, v)
  /\ Step("alloc", s, size, v)

(* The undo of a dealloc and the redo of an alloc ask for a given slot. The   *)
(* allocation policy has kept its space free (see Alloc).                     *)
ReallocRecord(s, size, v) ==
  /\ ~Live(obj, s)
  /\ \/ FreespaceFor(obj, s) >= Larger(size, 1)
     \/ FreespaceFor(Compact(obj), s) >= Larger(size, 1)
  /\ obj' = Write(PostAlloc(obj, s, size), s, v)
  /\ Step("alloc", s, size, v)

WriteRecord(s, v) ==
  /\ Live(obj, s)
  /\ obj' = Write(obj, s, v)
  /\ Step("write", s, Length(obj, s), v)

FreeRecord(s) ==
  /\ Live(obj, s)
  /\ obj' = Free(obj, s)
  /\ Step("free", s, 0, 0)

(* slotted_compact_slot_ids(): the used slots are renumbered from 0.          *)
CompactSlotIds ==
  LET used(e) == e.off # INVALID IN
  /\ obj' = [obj EXCEPT !.slot = SelectSeq(@, used), !.fl = INVALID]
  /\ Step("renumber", 0, 0, 0)

(* slotted_splice_slot(): slot b moves to a and the slots between move up.    *)
(* Its callers have no free slots on the page.                                *)
SpliceSlot(a, b) ==
  /\ a < b /\ b < NumSlots(obj) /\ obj.fl = INVALID
  /\ obj' = [obj EXCEPT !.slot = SubSeq(@, 1, a) \o <<@[b + 1]>> \o SubSeq(@, a + 1, b)
                                   \o SubSeq(@, b + 2, Len(@))]
  /\ Step("splice", a, b, 0)

Next == \/ \E size \in Sizes, v \in Fill : AllocRecord(size, v) \/ AllocFromPage(size, v)
        \/ \E s \in Slots, size \in Sizes, v \in Fill : ReallocRecord(s, size, v)
        \/ \E s \in Slots, v \in Fill : WriteRecord(s, v)
        \/ \E s \in Slots : FreeRecord(s)
        \/ CompactSlotIds
        \/ \E a, b \in Slots : SpliceSlot(a, b)

RECURSIVE Chain(_, _, _)
Chain(p, s, n) == IF s = INVALID \/ n = 0 THEN <<>>
                  ELSE <<s>> \o Chain(p, Length(p, s), n - 1)

(* slottedFsck(), which runs whenever a page is loaded or flushed: the slot   *)
(* array and the records do not meet, no two records overlap, all records     *)
(* lie below freespace, and the free list chains exactly the free slots.      *)
Fsck(p) ==
  LET extent(s) == Off(p, s) .. Off(p, s) + Length(p, s) - 1
      used == {s \in Slots : Live(p, s)}
      free == Chain(p, p.fl, NumSlots(p) + 1)
  IN /\ p.fs >= 0 /\ p.fs <= PageSize - NumSlots(p)
     /\ \A s \in used : Off(p, s) + Length(p, s) <= p.fs
     /\ \A s, u \in used : s # u => extent(s) \cap extent(u) = {}
     /\ {free[i] : i \in DOMAIN free} = FreeBelow(p, NumSlots(p))
     /\ Len(free) = Cardinality(FreeBelow(p, NumSlots(p)))
PageSound == Fsck(obj)

Records(p) == [s \in Slots |-> IF Live(p, s) THEN Bytes(p, s) ELSE <<INVALID>>]
(* The page without the bytes that no operation reads.                        *)
Shape(p) == <<p.fs, p.fl, p.slot, Records(p)>>

(* Every operation changes the one record it is about and no other, through   *)
(* all the moving of bytes and slots that it may cause.                       *)
RecordsKept ==
  LET op == call'[1] s == call'[2] old == Records(obj) new == Records(obj') IN
  CASE op \in {"alloc", "write"} ->
         new = IF s = INVALID THEN old ELSE [old EXCEPT ![s] = Filled(call'[3], call'[4])]
    [] op = "free" -> new = [old EXCEPT ![s] = <<INVALID>>]
    [] op = "splice" -> new = [x \in Slots |-> CASE x = s -> old[call'[3]]
                                                 [] x \in s + 1 .. call'[3] -> old[x - 1]
                                                 [] OTHER -> old[x]]
    [] op = "renumber" ->
         \A x, y \in Slots : Live(obj, x) /\ Cardinality({u \in 0 .. x - 1 : Live(obj, u)}) = y
                             => new[y] = old[x]
=============================================================================
