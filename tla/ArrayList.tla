------------------------------ MODULE ArrayList ------------------------------
(* The growable arrays of operations/arrayList.c, which hold the buckets of   *)
(* the linear hash tables. The header page points to blocks of fixed pages,   *)
(* each block Multiplier times as long as the one before it; an offset is     *)
(* turned into a page and a slot by arithmetic alone.                         *)
EXTENDS Integers, FiniteSets

CONSTANTS None,
          InitialSize,   \* pages of block 0
          Multiplier,
          RecPerPage,    \* stasis_page_fixed_records_per_page()
          MaxSlots,      \* bound on the length of the array
          MaxPage        \* bound on the page file

VARIABLES obj,   \* the header page and the regions that are allocated
          call, ans

vars == <<obj, call, ans>>

(* array_list_get_block_containing_offset(): the block, and the offset of its *)
(* first slot.                                                                *)
RECURSIVE Block(_, _, _, _)
Block(offset, b, low, pages) ==
  LET high == low + RecPerPage * pages IN
  IF offset >= high THEN Block(offset, b + 1, high, pages * Multiplier)
  ELSE [block |-> b, first |-> low]

BlockOf(offset) == Block(offset, 0, 0, InitialSize)

(* Faulty variant: the blocks grow one step too late.                         *)
BlockSizeBefore(i) == InitialSize * Multiplier ^ (i - 1)

(* blockSize = initialSize * powl(multiplier, i)                              *)
BlockSize(i) == InitialSize * Multiplier ^ i

(* stasis_array_list_dereference_recordid()                                   *)
Dereference(a, offset) ==
  LET b    == BlockOf(offset)
      data == offset - b.first
      page == data \div RecPerPage
  IN [page |-> a.block[b.block] + page, slot |-> data - page * RecPerPage]

(* TpageAllocMany(): a region that overlaps none that is allocated; the       *)
(* lowest one, as first fit finds it.                                         *)
Pages(r) == r.first .. r.first + r.len - 1
RegionFor(regions, len) ==
  LET fits(p) == \A r \in regions : Pages([first |-> p, len |-> len]) \cap Pages(r) = {}
      ok == {p \in 0 .. MaxPage : fits(p)}
  IN [first |-> CHOOSE p \in ok : \A q \in ok : p <= q, len |-> len]

Missing == [first |-> None, block |-> <<>>, max |-> -1]

Init == /\ obj = [a |-> Missing, regions |-> {}, other |-> {}]
        /\ call = <<"create", None>>
        /\ ans = None

(* TarrayListAlloc(): the header page and block 0 behind it in one region.    *)
TarrayListAlloc ==
  LET r == RegionFor(obj.regions \cup obj.other, InitialSize + 1) IN
  /\ obj.a = Missing
  /\ obj' = [obj EXCEPT !.a = [first |-> r.first, max |-> -1,
                               block |-> [i \in {0} |-> r.first + 1]],
                        !.regions = @ \cup {r}]
  /\ UNCHANGED <<call, ans>>

(* The loop of TarrayListExtend() over the blocks that the array grows into.  *)
RECURSIVE AddBlocks(_, _, _)
AddBlocks(o, i, last) ==
  IF i > last THEN o
  ELSE LET r == RegionFor(o.regions \cup o.other, BlockSize(i)) IN
       AddBlocks([o EXCEPT !.regions = @ \cup {r},
                           !.a.block = [b \in DOMAIN @ \cup {i} |->
                                          IF b = i THEN r.first ELSE @[b]]],
                 i + 1, last)

(* Faulty variant: growing starts from block 0 each time.                     *)
LastBlockZero(a) == IF a = Missing THEN None ELSE 0

LastBlock(a) == IF a.max = -1 THEN 0 ELSE BlockOf(a.max).block

TarrayListExtend(slots) ==
  /\ obj.a # Missing
  /\ obj.a.max + slots < MaxSlots
  /\ LET new == BlockOf(obj.a.max + slots).block
         o   == AddBlocks(obj, LastBlock(obj.a) + 1, new)
     IN obj' = [o EXCEPT !.a.max = @ + slots]
  /\ UNCHANGED <<call, ans>>

TarrayListLength ==
  /\ obj.a # Missing
  /\ call' = <<"length", None>>
  /\ ans' = obj.a.max + 1
  /\ UNCHANGED obj

(* TarrayListDealloc(): blocks 1 and up, then the region of the header page.  *)
TarrayListDealloc ==
  /\ obj.a # Missing
  /\ LET n     == BlockOf(obj.a.max).block + 1
         later == {obj.a.block[i] : i \in 1 .. n - 1}
     IN obj' = [obj EXCEPT !.a = Missing,
                  !.regions = {r \in @ : r.first \notin later \cup {obj.a.first}}]
  /\ UNCHANGED <<call, ans>>

(* Somebody else allocates or frees pages, so that the blocks are scattered.  *)
OtherPages ==
  /\ \/ obj.other = {} /\ obj' = [obj EXCEPT !.other = {RegionFor(obj.regions, 1)}]
     \/ obj.other # {} /\ obj' = [obj EXCEPT !.other = {}]
  /\ UNCHANGED <<call, ans>>

Next == \/ TarrayListAlloc
        \/ \E slots \in 1 .. MaxSlots : TarrayListExtend(slots)
        \/ TarrayListLength
        \/ TarrayListDealloc
        \/ OtherPages

(* Every offset of the array has a slot of its own, on a data page that       *)
(* belongs to the array, and once the array is freed it holds no pages.       *)
SlotsDistinct ==
  LET a == obj.a
      at == {Dereference(a, i) : i \in 0 .. a.max}
  IN /\ Cardinality(at) = a.max + 1
     /\ \A s \in at : /\ s.slot \in 0 .. RecPerPage - 1
                      /\ s.page # a.first
                      /\ \E r \in obj.regions : s.page \in Pages(r)
     /\ \A r \in obj.other : \A s \in at : s.page \notin Pages(r)
     /\ a = Missing => obj.regions = {}

(* Growing the array moves no entry that it had before.                       *)
EntriesStay ==
  obj.a # Missing /\ obj'.a # Missing =>
    \A i \in 0 .. obj.a.max : i <= obj'.a.max => Dereference(obj'.a, i) = Dereference(obj.a, i)
=============================================================================
