--------------------------- MODULE LinkedListNTA ---------------------------
(* The record lists of operations/linkedListNTA.c, which hold the buckets of  *)
(* linear hash tables with fixed-length entries. The root record is part of   *)
(* the bucket array: removing the first entry copies its successor into the   *)
(* root and frees the successor, which an iterator may be pointing at.        *)
EXTENDS Integers, FiniteSets, Sequences

CONSTANTS Keys, Values, None,
          MaxRecs  \* records besides the root that can be allocated at once

VARIABLES obj,     \* the records, and an iterator with what it has returned
          call, ans

vars == <<obj, call, ans>>

Root == 0
END == -1    \* next.size == -1: the last entry
EMPTY == -2  \* next.size == 0: the root of an empty list
Rids == 0 .. MaxRecs
Blank == [key |-> None, val |-> None, next |-> EMPTY]
FreeRids(h) == {r \in Rids \ {Root} : h[r] = Blank}

(* TlinkedListCreate(): a cleared root.                                       *)
Create == [r \in Rids |-> Blank]

(* stasis_linked_list_insert_helper(): into an empty root, or into a new      *)
(* record z behind it.                                                        *)
InsertHelper(h, z, k, v) ==
  IF h[Root].next = EMPTY
  THEN [h EXCEPT ![Root] = [key |-> k, val |-> v, next |-> END]]
  ELSE [h EXCEPT ![z] = [key |-> k, val |-> v, next |-> h[Root].next],
                 ![Root].next = z]

(* The search of TlinkedListFind() and of the remove helper: the record that  *)
(* holds the key, and the one before it.                                      *)
RECURSIVE Search(_, _, _, _)
Search(h, k, r, prev) ==
  IF h[r].next = EMPTY THEN [at |-> END, prev |-> END]
  ELSE IF h[r].key = k THEN [at |-> r, prev |-> prev]
  ELSE IF h[r].next = END THEN [at |-> END, prev |-> r]
  ELSE Search(h, k, h[r].next, r)

(* Faulty variant: the record copied into the root is not freed.              *)
RemoveHelperKeep(h, k) ==
  LET s == Search(h, k, Root, END)
      n == h[s.at].next
  IN CASE s.at = END -> h
       [] s.at = Root /\ n = END -> [h EXCEPT ![Root] = Blank]
       [] s.at = Root -> [h EXCEPT ![Root] = h[n]]
       [] OTHER -> [h EXCEPT ![s.prev].next = n, ![s.at] = Blank]

(* stasis_linked_list_remove_helper(): clear a lone root, pull the second     *)
(* entry into the root, or unlink a later record.                             *)
RemoveHelper(h, k) ==
  LET s == Search(h, k, Root, END)
      n == h[s.at].next
  IN CASE s.at = END -> h
       [] s.at = Root /\ n = END -> [h EXCEPT ![Root] = Blank]
       [] s.at = Root -> [h EXCEPT ![Root] = h[n], ![n] = Blank]
       [] OTHER -> [h EXCEPT ![s.prev].next = n, ![s.at] = Blank]

Found(h, k) == LET s == Search(h, k, Root, END) IN
               IF s.at = END THEN None ELSE h[s.at].val

Closed == [state |-> "closed", first |-> -1, next |-> Root, seen |-> <<>>,
           due |-> {}]

Init == /\ obj = [h |-> Create, it |-> Closed]
        /\ call = <<"create", None>>
        /\ ans = None

(* TlinkedListInsert(); its callers have removed the key before.              *)
Insert(k, v) ==
  /\ obj.it.state = "closed"
  /\ Found(obj.h, k) = None
  /\ \E z \in FreeRids(obj.h) : obj' = [obj EXCEPT !.h = InsertHelper(@, z, k, v)]
  /\ call' = <<"insert", k>>
  /\ ans' = None

(* TlinkedListRemove(); while a list is being iterated only the entry that    *)
(* was just returned is removed, as ThashSplitBucket() does.                  *)
Remove(k) ==
  /\ obj.it.state = "open" => obj.it.seen # <<>> /\ k = obj.it.seen[Len(obj.it.seen)]
  /\ obj.it.state # "done"
  /\ obj' = [obj EXCEPT !.h = RemoveHelper(@, k)]
  /\ call' = <<"remove", k>>
  /\ ans' = Found(obj.h, k)

Find(k) == /\ call' = <<"lookup", k>>
           /\ ans' = Found(obj.h, k)
           /\ UNCHANGED obj

(* TlinkedListIterator(), with the entries it is expected to return.          *)
OpenIterator ==
  /\ obj.it.state = "closed"
  /\ obj' = [obj EXCEPT !.it = [Closed EXCEPT !.state = "open",
               !.due = {k \in Keys : Found(obj.h, k) # None}]]
  /\ UNCHANGED <<call, ans>>

(* Faulty variant: the iterator does not look at the root again.              *)
NextEntryNoReset(h, it) ==
  IF it.next = END \/ h[it.next].next = EMPTY THEN [it EXCEPT !.state = "done"]
  ELSE [it EXCEPT !.first = 0, !.next = h[it.next].next,
                  !.seen = Append(@, h[it.next].key)]

(* TlinkedListNext(): the first step after the root compares the root's       *)
(* successor with the one remembered, and starts over when it has changed.    *)
NextEntry(h, it) ==
  LET reset == it.first = 1 /\ h[Root].next # it.next
      first == CASE it.first = -1 -> 1
                 [] reset -> 1
                 [] OTHER -> 0
      r     == IF reset THEN Root ELSE it.next
  IN IF it.next = END THEN [it EXCEPT !.state = "done"]
     ELSE IF h[r].next = EMPTY THEN [it EXCEPT !.state = "done"]
     ELSE [it EXCEPT !.first = first, !.next = h[r].next,
                     !.seen = Append(@, h[r].key)]

Advance == /\ obj.it.state = "open"
           /\ obj' = [obj EXCEPT !.it = NextEntry(obj.h, @)]
           /\ UNCHANGED <<call, ans>>

CloseIterator == /\ obj.it.state = "done"
                 /\ obj' = [obj EXCEPT !.it = Closed]
                 /\ UNCHANGED <<call, ans>>

Next == \/ \E k \in Keys, v \in Values : Insert(k, v)
        \/ \E k \in Keys : Remove(k) \/ Find(k)
        \/ OpenIterator
        \/ Advance
        \/ CloseIterator

Contents == [k \in Keys |-> Found(obj.h, k)]

(* An iteration during which its caller removes entries just returned returns *)
(* every entry once, never a freed record, and comes to an end: what          *)
(* ThashSplitBucket() needs to leave no entry behind in the wrong bucket.     *)
IterationComplete ==
  LET it == obj.it
      returned == {it.seen[i] : i \in DOMAIN it.seen}
  IN /\ Cardinality(returned) = Len(it.seen)
     /\ returned \subseteq it.due
     /\ it.state = "done" => returned = it.due

(* Every allocated record is on the list: none is lost and none freed twice.  *)
RecordsLinked ==
  LET h == obj.h
      linked == {r \in Rids : h[r].key # None /\ Search(h, h[r].key, Root, END).at = r}
  IN {r \in Rids : h[r] # Blank} = linked
=============================================================================
