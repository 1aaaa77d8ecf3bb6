------------------------------ MODULE PagedList ------------------------------
(* The page-oriented lists of operations/pageOrientedListNTA.c, which hold    *)
(* the buckets of linear hash tables with variable-length entries. A list is  *)
(* a chain of pages; each page has a header with the slot of its newest entry *)
(* and the entries of a page are chained by slot.                             *)
EXTENDS Integers, FiniteSets, Sequences

CONSTANTS Keys, Values, None,
          MaxPages,  \* pages that can be allocated
          SlotsPerPage \* entries that fit on a page beside its header

VARIABLES obj,     \* the pages, and an iterator with what it has returned
          call, ans

vars == <<obj, call, ans>>

Pages == 1 .. MaxPages
Slots == 1 .. SlotsPerPage   \* the header is slot 0, so 0 ends a chain
First == 1                   \* the page of the list's own header
NULLRID == 0
Blank == [key |-> None, val |-> None, next |-> 0]
NewPage == [used |-> FALSE, this |-> 0, next |-> NULLRID, e |-> [s \in Slots |-> Blank]]

(* TpagedListAlloc(): a header alone.                                         *)
Alloc == [p \in Pages |-> IF p = First THEN [NewPage EXCEPT !.used = TRUE] ELSE NewPage]

FreeSlots(h, p) == {s \in Slots : h[p].e[s] = Blank}

(* The page TpagedListInsert() ends up with: the first page with room, or a   *)
(* new one z, which is linked in behind the first page.                       *)
RECURSIVE PageWithRoom(_, _, _)
PageWithRoom(h, p, z) ==
  IF FreeSlots(h, p) # {} THEN [p |-> p, h |-> h]
  ELSE IF h[p].next # NULLRID THEN PageWithRoom(h, h[p].next, z)
  ELSE [p |-> z, h |-> [h EXCEPT ![z].used = TRUE, ![z].next = h[First].next,
                                 ![First].next = z]]

(* The walk of TpagedListFind() and TpagedListRemove(): the page and the slot *)
(* of the key, and the slot before it, -1 if that is the header.              *)
RECURSIVE Search(_, _, _, _, _)
Search(h, k, p, s, last) ==
  IF s # 0 THEN IF h[p].e[s].key = k THEN [p |-> p, s |-> s, last |-> last]
                ELSE Search(h, k, p, h[p].e[s].next, s)
  ELSE IF h[p].next # NULLRID THEN Search(h, k, h[p].next, h[h[p].next].this, -1)
  ELSE [p |-> p, s |-> 0, last |-> -1]

SearchList(h, k) == Search(h, k, First, h[First].this, -1)

Found(h, k) == LET f == SearchList(h, k) IN
               IF f.s = 0 THEN None ELSE h[f.p].e[f.s].val

RemoveEntry(h, k) ==
  LET f == SearchList(h, k)
      n == h[f.p].e[f.s].next
  IN CASE f.s = 0 -> h
       [] f.last = -1 -> [h EXCEPT ![f.p].this = n, ![f.p].e[f.s] = Blank]
       [] OTHER -> [h EXCEPT ![f.p].e[f.last].next = n, ![f.p].e[f.s] = Blank]

Closed == [state |-> "closed", hdr |-> NULLRID, p |-> First, s |-> 0,
           seen |-> <<>>, due |-> {}]

Init == /\ obj = [h |-> Alloc, it |-> Closed]
        /\ call = <<"create", None>>
        /\ ans = None

(* TpagedListInsert(); its callers have removed the key before.               *)
Insert(k, v) ==
  LET z == CHOOSE p \in Pages : ~obj.h[p].used
      room == PageWithRoom(obj.h, First, z)
      g == room.h
  IN /\ obj.it.state = "closed"
     /\ Found(obj.h, k) = None
     /\ \E s \in FreeSlots(g, room.p) :
          obj' = [obj EXCEPT !.h = [g EXCEPT ![room.p].this = s,
                   ![room.p].e[s] = [key |-> k, val |-> v, next |-> g[room.p].this]]]
     /\ call' = <<"insert", k>>
     /\ ans' = None

(* TpagedListRemove(); during an iteration, of the entry just returned.       *)
Remove(k) ==
  /\ obj.it.state = "open" => obj.it.seen # <<>> /\ k = obj.it.seen[Len(obj.it.seen)]
  /\ obj.it.state # "done"
  /\ obj' = [obj EXCEPT !.h = RemoveEntry(@, k)]
  /\ call' = <<"remove", k>>
  /\ ans' = Found(obj.h, k)

Find(k) == /\ call' = <<"lookup", k>>
           /\ ans' = Found(obj.h, k)
           /\ UNCHANGED obj

OpenIterator ==
  /\ obj.it.state = "closed"
  /\ obj' = [obj EXCEPT !.it = [Closed EXCEPT !.state = "open",
               !.hdr = obj.h[First].next, !.s = obj.h[First].this,
               !.due = {k \in Keys : Found(obj.h, k) # None}]]
  /\ UNCHANGED <<call, ans>>

(* TpagedListNext(): the slot of the entry after the one returned is read     *)
(* now, and the header of the page after this one when the slots run out.     *)
RECURSIVE NextEntry(_, _)
NextEntry(h, it) ==
  IF it.s # 0
  THEN [it EXCEPT !.s = h[it.p].e[it.s].next, !.seen = Append(@, h[it.p].e[it.s].key)]
  ELSE IF it.hdr # NULLRID
  THEN NextEntry(h, [it EXCEPT !.p = it.hdr, !.hdr = h[it.hdr].next,
                               !.s = h[it.hdr].this])
  ELSE [it EXCEPT !.state = "done"]

Advance == /\ obj.it.state = "open"
           /\ obj' = [obj EXCEPT !.it = NextEntry(obj.h, @)]
           /\ UNCHANGED <<call, ans>>

CloseIterator == /\ obj.it.state = "done"
                 /\ obj' = [obj EXCEPT !.it = Closed]
                 /\ UNCHANGED <<call, ans>>

Next == \/ \E k \in Keys, v \in Values : Insert(k, v)
        \/ \E k \in Keys : Remove(k) \/ Find(k)
        \/ OpenIterator
        \/ Advance
        \/ CloseIterator

Contents == [k \in Keys |-> Found(obj.h, k)]

(* As for the record lists: an iteration that removes what it is handed sees  *)
(* every entry once and then ends.                                            *)
IterationComplete ==
  LET it == obj.it
      returned == {it.seen[i] : i \in DOMAIN it.seen}
  IN /\ Cardinality(returned) = Len(it.seen)
     /\ returned \subseteq it.due
     /\ it.state = "done" => returned = it.due

(* Every allocated entry is on the chain of its page, and every page taken is *)
(* on the list's chain: inserting and removing never strands a record.        *)
RecordsLinked ==
  \A p \in Pages, s \in Slots :
    LET e == obj.h[p].e[s]
        f == SearchList(obj.h, e.key)
    IN e # Blank => obj.h[p].used /\ f.p = p /\ f.s = s
=============================================================================
