------------------------------- MODULE LHTable -------------------------------
(* The in-memory linear hash table of util/lhtable.c, which the transaction   *)
(* table, the lock manager and the pbl wrappers are built on. A bucket is the *)
(* pair stored in the bucket array followed by its overflow chain.            *)
EXTENDS Integers, FiniteSets, SequencesExt

CONSTANTS Keys, Values, None,
          HashCode,    \* HASH_FCN: the key's 32 bit checksum
          InitialSize  \* create()'s argument

VARIABLES obj, call, ans

vars == <<obj, call, ans>>

TwoToThe(x) == 2 ^ x

(* stasis_linear_hash(): the low bits of the checksum, one bit more of them   *)
(* for the buckets that this round has split already.                         *)
LinearHash(k, bits, ext) ==
  LET old == HashCode[k] % TwoToThe(bits - 1) IN
  IF old < ext THEN HashCode[k] % TwoToThe(bits) ELSE old

Log2(n) == CHOOSE i \in 0 .. n : TwoToThe(i) <= n /\ n < TwoToThe(i + 1)

(* create() with stasis_linear_hash_get_size_params().                        *)
Create == LET bits == Log2(InitialSize) + 1 IN
          [bits |-> bits,
           ext  |-> InitialSize - TwoToThe(bits - 1),
           occ  |-> 0,
           list |-> [b \in 0 .. InitialSize - 1 |-> <<>>]]

Length(t) == Cardinality(DOMAIN t.list)
BucketOf(t, k) == LinearHash(k, t.bits, t.ext)

(* The position of the key in the chain, 0 when it is not there.              *)
FindInLinkedList(bucket, k) ==
  LET at == {i \in DOMAIN bucket : bucket[i].key = k} IN
  IF at = {} THEN 0 ELSE CHOOSE i \in at : \A j \in at : i <= j

(* An empty bucket takes the pair into the array; otherwise it goes to the    *)
(* front of the overflow chain, behind the pair in the array.                 *)
InsertIntoLinkedList(bucket, pair) ==
  IF bucket = <<>> THEN <<pair>> ELSE <<Head(bucket), pair>> \o Tail(bucket)

(* Removing the pair in the array pulls the first overflow pair into it.      *)
RemoveFromLinkedList(bucket, k) ==
  LET i == FindInLinkedList(bucket, k) IN
  IF i = 0 THEN bucket ELSE RemoveAt(bucket, i)

(* The chain that inserting pairs one after the other leaves.                 *)
RECURSIVE Chain(_)
Chain(pairs) == IF pairs = <<>> THEN <<>>
                ELSE InsertIntoLinkedList(Chain(Front(pairs)), Last(pairs))

(* extendHashTable(): one more bucket, and the pairs of the bucket being      *)
(* split that now hash to it move over, one by one in chain order.            *)
ExtendHashTable(t) ==
  LET wrap  == t.ext >= TwoToThe(t.bits - 1)
      ext   == IF wrap THEN 1 ELSE t.ext + 1
      bits  == IF wrap THEN t.bits + 1 ELSE t.bits
      split == ext - 1
      new   == ext - 1 + TwoToThe(bits - 1)
      goes(p) == LinearHash(p.key, bits, ext) = new
      stays(p) == ~goes(p)
  IN [t EXCEPT !.bits = bits, !.ext = ext,
               !.list = [b \in 0 .. new |->
                  CASE b = split -> SelectSeq(t.list[b], stays)
                    [] b = new -> Chain(SelectSeq(t.list[split], goes))
                    [] OTHER -> t.list[b]]]

FillFactorExceeded(t) == 2 * t.occ > Length(t)

Stored(t, k) == LET b == t.list[BucketOf(t, k)]
                    i == FindInLinkedList(b, k)
                IN IF i = 0 THEN None ELSE b[i].val

Answer(op, k, a) == call' = <<op, k>> /\ ans' = a

Init == obj = Create /\ call = <<"create", None>> /\ ans = None

(* insert(): overwrite in place or chain a new pair, then extend the table    *)
(* when it is more than half full, even if nothing was added.                 *)
HtInsert(k, v) ==
  LET b == BucketOf(obj, k)
      i == FindInLinkedList(obj.list[b], k)
      t == IF i # 0
           THEN [obj EXCEPT !.list[b][i].val = v]
           ELSE [obj EXCEPT !.occ = @ + 1,
                   !.list[b] = InsertIntoLinkedList(@, [key |-> k, val |-> v])]
  IN /\ obj' = IF FillFactorExceeded(t) THEN ExtendHashTable(t) ELSE t
     /\ Answer("insert", k, Stored(obj, k))

(* Faulty variant: occupancy drops even if the key was not there.             *)
HtRemoveUncounted(k) ==
  LET b == BucketOf(obj, k) IN
  /\ obj' = [obj EXCEPT !.list[b] = RemoveFromLinkedList(@, k), !.occ = @ - 1]
  /\ Answer("remove", k, Stored(obj, k))

HtRemove(k) ==
  LET b == BucketOf(obj, k) old == Stored(obj, k) IN
  /\ obj' = [obj EXCEPT !.list[b] = RemoveFromLinkedList(@, k),
                        !.occ = IF old # None THEN @ - 1 ELSE @]
  /\ Answer("remove", k, old)

HtFind(k) == UNCHANGED obj /\ Answer("lookup", k, Stored(obj, k))

(* pblHtInsert(): the older interface, which refuses to overwrite.            *)
PblHtInsert(k, v) ==
  LET b == BucketOf(obj, k)
      t == [obj EXCEPT !.occ = @ + 1,
              !.list[b] = InsertIntoLinkedList(@, [key |-> k, val |-> v])]
  IN /\ obj' = CASE Stored(obj, k) # None -> obj
                 [] FillFactorExceeded(t) -> ExtendHashTable(t)
                 [] OTHER -> t
     /\ Answer("add", k, IF Stored(obj, k) # None THEN Stored(obj, k) ELSE v)

(* readlist(): the pairs from bucket b on, each chain in order.               *)
RECURSIVE ReadList(_, _)
ReadList(t, b) == IF b = Length(t) THEN <<>> ELSE t.list[b] \o ReadList(t, b + 1)

(* pblHtFirst() and pblHtNext() until they answer 0.                          *)
PblHtWalk == LET all == ReadList(obj, 0) IN
             /\ UNCHANGED obj
             /\ Answer("walk", None, <<Len(all), {p.key : p \in Range(all)}>>)

(* destroy(): remove the pair in the array of bucket b, which pulls the next  *)
(* one into it, and look at the same bucket again.                            *)
RECURSIVE Emptied(_, _)
Emptied(t, b) ==
  IF b = Length(t) THEN t
  ELSE IF t.list[b] = <<>> THEN Emptied(t, b + 1)
  ELSE Emptied([t EXCEPT !.list[b] = RemoveFromLinkedList(@, Head(@).key),
                         !.occ = @ - 1], b)

HtDestroy == LET t == Emptied(obj, 0) IN
             /\ obj' = IF t.occ = 0 THEN Create ELSE t
             /\ Answer("destroy", None, None)

Next == \/ \E k \in Keys, v \in Values : HtInsert(k, v) \/ PblHtInsert(k, v)
        \/ \E k \in Keys : HtRemove(k) \/ HtFind(k)
        \/ PblHtWalk
        \/ HtDestroy

(* The map the table stands for.                                              *)
Contents == [k \in Keys |-> Stored(obj, k)]

(* Every pair an iteration reads is in the bucket that its key hashes to now, *)
(* so find() can reach it; no key is chained twice; and occupancy, which      *)
(* decides when the table grows, counts the pairs.                            *)
TableSound ==
  /\ \A b \in DOMAIN obj.list : \A i \in DOMAIN obj.list[b] :
       BucketOf(obj, obj.list[b][i].key) = b
  /\ LET all == ReadList(obj, 0) IN
       /\ Len(all) = obj.occ
       /\ \A i, j \in DOMAIN all : all[i].key = all[j].key => i = j
=============================================================================
