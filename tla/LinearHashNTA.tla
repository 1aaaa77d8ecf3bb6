--------------------------- MODULE LinearHashNTA ---------------------------
(* The transactional linear hash table of operations/linearHashNTA.c. Its     *)
(* buckets are lists that modules LinkedListNTA and PagedList show to be      *)
(* dictionaries; its bucket array is the growing array of module ArrayList.   *)
(* Inserting and removing are nested top actions: an abort does not put the   *)
(* bytes back, it runs the opposite operations, newest first.                 *)
EXTENDS Integers, FiniteSets, Sequences

CONSTANTS Keys, Values, None,
          HashCode,       \* HASH_FCN: the key's checksum
          HASH_INIT_BITS, \* bits of the first table
          MaxUndo         \* bound on the operations of one transaction

VARIABLES obj,     \* the header, the buckets and the transaction's undo entries
          call, ans

vars == <<obj, call, ans>>

TwoToThe(x) == 2 ^ x
InitCount == TwoToThe(HASH_INIT_BITS) \* HASH_INIT_ARRAY_LIST_COUNT
NoEntries == [k \in Keys |-> None]

Hash(k, bits, split) ==
  LET old == HashCode[k] % TwoToThe(bits - 1) IN
  IF old < split THEN HashCode[k] % TwoToThe(bits) ELSE old

Buckets(t) == t.nextSplit + TwoToThe(t.bits - 1)

(* ThashCreate(): the array has slots for twice the buckets in use.           *)
ThashCreate == [bits |-> HASH_INIT_BITS, nextSplit |-> 0, numEntries |-> 0,
                b |-> [i \in 0 .. InitCount - 1 |-> NoEntries], undo |-> <<>>]

Where(t, k) == Hash(k, t.bits, t.nextSplit)
Stored(t, k) == t.b[Where(t, k)][k]

(* ThashSplitBucket(): extend the array when the new bucket begins a new      *)
(* stretch of it, advance the split point, then iterate over the old bucket   *)
(* and move the entries that hash elsewhere now.                              *)
ThashSplitBucket(t) ==
  LET old   == t.nextSplit
      new   == old + TwoToThe(t.bits - 1)
      slots == IF new % InitCount = 0 THEN Cardinality(DOMAIN t.b) + InitCount
               ELSE Cardinality(DOMAIN t.b)
      wrap  == old >= TwoToThe(t.bits - 1) - 1
      bits  == IF wrap THEN t.bits + 1 ELSE t.bits
      split == IF wrap THEN 0 ELSE old + 1
      moves(k) == Hash(k, bits, split) # old
  IN [t EXCEPT !.bits = bits, !.nextSplit = split,
        !.b = [i \in 0 .. slots - 1 |->
                 CASE i = old -> [k \in Keys |-> IF moves(k) THEN None ELSE t.b[i][k]]
                   [] i = new -> [k \in Keys |-> IF moves(k) THEN t.b[old][k] ELSE None]
                   [] i < Cardinality(DOMAIN t.b) -> t.b[i]
                   [] OTHER -> NoEntries]]

(* HASH_FILL_FACTOR is 0.7; the product is truncated to an integer.           *)
Overfull(t) == t.numEntries > (Buckets(t) * 7) \div 10

(* __ThashInsert(): count, split, find the bucket, replace; an entry that was *)
(* there already is not counted twice.                                        *)
InsertEntry(t, k, v) ==
  LET t1 == [t EXCEPT !.numEntries = @ + 1]
      t2 == IF Overfull(t1) THEN ThashSplitBucket(t1) ELSE t1
      i  == Where(t2, k)
  IN [t2 EXCEPT !.b[i][k] = v,
                !.numEntries = IF t2.b[i][k] # None THEN @ - 1 ELSE @]

(* __ThashRemove(): uncount without asking whether the key is there.          *)
RemoveEntry(t, k) == [t EXCEPT !.numEntries = @ - 1, !.b[Where(t, k)][k] = None]


(* ThashRemove(): nothing at all happens when the key is not found; otherwise *)
(* the undo entry keeps the value for the insertion an abort will run.        *)
Removed(t, k) ==
  IF Stored(t, k) = None THEN t
  ELSE RemoveEntry([t EXCEPT !.undo = Append(@, <<"insert", k, Stored(t, k)>>)], k)

Init == /\ obj = ThashCreate
        /\ call = <<"create", None>>
        /\ ans = None

(* ThashInsert() removes first and then logs an insertion of its own.         *)
ThashInsert(k, v) ==
  LET t == Removed(obj, k) IN
  /\ Len(obj.undo) + 2 <= MaxUndo
  /\ obj' = InsertEntry([t EXCEPT !.undo = Append(@, <<"remove", k, None>>)], k, v)
  /\ call' = <<"insert", k>>
  /\ ans' = Stored(obj, k)

ThashRemove(k) ==
  /\ Len(obj.undo) + 1 <= MaxUndo
  /\ obj' = Removed(obj, k)
  /\ call' = <<"remove", k>>
  /\ ans' = Stored(obj, k)

ThashLookup(k) == /\ call' = <<"lookup", k>>
                  /\ ans' = Stored(obj, k)
                  /\ UNCHANGED obj

(* ThashIterator() and ThashNext(): one bucket after the other, up to the     *)
(* number of buckets read when the iterator was opened.                       *)
RECURSIVE BucketsFrom(_, _)
BucketsFrom(t, i) ==
  IF i = Buckets(t) THEN <<0, {}>>
  ELSE LET rest == BucketsFrom(t, i + 1)
           here == {k \in Keys : t.b[i][k] # None}
       IN <<Cardinality(here) + rest[1], here \cup rest[2]>>

ThashWalk == /\ call' = <<"walk", None>>
             /\ ans' = BucketsFrom(obj, 0)
             /\ UNCHANGED obj

(* Commit forgets the undo entries. Abort runs op_linear_hash_insert() and    *)
(* op_linear_hash_remove() for them; a bucket split meanwhile stays split.    *)
Tcommit == /\ obj' = [obj EXCEPT !.undo = <<>>]
           /\ call' = <<"commit", None>>
           /\ ans' = None

(* Faulty variant: a removal is undone without counting the entry.            *)
InsertUncounted(t, k, v) == [InsertEntry(t, k, v) EXCEPT !.numEntries = t.numEntries]
RECURSIVE RollbackUncounted(_)
RollbackUncounted(t) ==
  IF t.undo = <<>> THEN t
  ELSE LET e == t.undo[Len(t.undo)]
           t1 == [t EXCEPT !.undo = SubSeq(@, 1, Len(@) - 1)]
       IN RollbackUncounted(IF e[1] = "insert" THEN InsertUncounted(t1, e[2], e[3])
                            ELSE RemoveEntry(t1, e[2]))

RECURSIVE Rollback(_)
Rollback(t) ==
  IF t.undo = <<>> THEN t
  ELSE LET e == t.undo[Len(t.undo)]
           t1 == [t EXCEPT !.undo = SubSeq(@, 1, Len(@) - 1)]
       IN Rollback(IF e[1] = "insert" THEN InsertEntry(t1, e[2], e[3])
                   ELSE RemoveEntry(t1, e[2]))

Tabort == /\ obj' = Rollback(obj)
          /\ call' = <<"abort", None>>
          /\ ans' = None

Next == \/ \E k \in Keys, v \in Values : ThashInsert(k, v)
        \/ \E k \in Keys : ThashRemove(k) \/ ThashLookup(k)
        \/ ThashWalk
        \/ Tcommit
        \/ Tabort

Contents == [k \in Keys |-> Stored(obj, k)]

(* The map as it was when the transaction began: its undo entries, read as    *)
(* updates of a map, applied to the map that the table is now.                *)
RECURSIVE UndoneMap(_, _)
UndoneMap(m, undo) ==
  IF undo = <<>> THEN m
  ELSE LET e == undo[Len(undo)] IN
       UndoneMap([m EXCEPT ![e[2]] = e[3]], SubSeq(undo, 1, Len(undo) - 1))
SavedContents == UndoneMap([k \in Keys |-> Stored(obj, k)], obj.undo)

(* Each entry is in the bucket its key hashes to, and that bucket lies in the *)
(* part of the array an iterator visits, which is inside the allocated array; *)
(* numEntries, which decides the next split, counts the entries, also after   *)
(* aborts that ran inverse operations across splits.                          *)
HashSound ==
  /\ \A i \in DOMAIN obj.b : \A k \in Keys :
       obj.b[i][k] # None => Where(obj, k) = i /\ i < Buckets(obj)
  /\ Buckets(obj) <= Cardinality(DOMAIN obj.b)
  /\ obj.numEntries = Cardinality({k \in Keys : Stored(obj, k) # None})
=============================================================================
