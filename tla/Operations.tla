------------------------------ MODULE Operations ------------------------------
(* The update operations that work on bytes: records (set.c), counters        *)
(* (increment.c, decrement.c), whole pages and blobs (pageOperations.c,       *)
(* blobs.c), pages without an LSN (lsnFreeSet.c) and the segment file         *)
(* (segmentFile.c). Each logs the images that its inverse needs; a rollback   *)
(* applies the inverses, newest first, between the updates of others. Two     *)
(* transactions may change the counter at the same time; any other object has *)
(* one writer until it commits or aborts, which is the caller's duty. Crashes *)
(* are Recovery's subject.                                                    *)
EXTENDS Integers, Sequences

CONSTANTS Xids,     \* transactions that run at the same time
          PageSize, \* bytes that a page holds for its user
          Modulus,  \* the counter's range: an int wraps
          BlobSize, \* bytes of the blob
          Extents,  \* ranges of the segment file written: <<offset, count>>
          Values,   \* seeds of the bytes written
          Used,     \* the objects that the transactions write to
          MaxLog,   \* bound on the updates logged
          None

VARIABLES obj, call, ans

vars == <<obj, call, ans>>

(* Where the objects are: a record, an LSN-free record, a blob of three pages *)
(* and the four pages of the segment file. The counter's page is a number.    *)
RecordPage == 1
FreePage == 2
BlobPage == 3
FilePage == 6
Pages == 1 .. 9
Zeroes == [i \in 0 .. PageSize - 1 |-> 0]

Init == /\ obj = [mem |-> [p \in Pages |-> Zeroes], ctr |-> 0,
                  lsn |-> 0,                           \* entries logged
                  chain |-> [x \in Xids |-> <<>>],     \* entries not yet undone
                  undoing |-> [x \in Xids |-> FALSE],
                  \* What the callers expect: committed values, and each
                  \* transaction's own updates in order.
                  val |-> [o \in {"record", "free", "blob", "file"} |-> <<>>],
                  num |-> 0,
                  mine |-> [x \in Xids |-> <<>>]]
        /\ call = <<"init", None>>
        /\ ans = None

Min2(a, b) == IF a < b THEN a ELSE b

(* memcpy() between a page and a buffer.                                      *)
Put(mem, p, off, b) ==
  [mem EXCEPT ![p] = [i \in DOMAIN @ |-> IF i >= off /\ i < off + Len(b) THEN b[i - off + 1] ELSE @[i]]]
Get(mem, p, off, n) == [i \in 1 .. n |-> mem[p][off + i - 1]]

(* read_write_helper(): the pieces that it copies, one for each page.         *)
Piece(page, at, from, n) == [page |-> page, at |-> at, from |-> from, n |-> n]
Pieces(offset, count) ==
  LET start == offset \div PageSize
      stop == (offset + count - 1) \div PageSize
      at == offset % PageSize
      phase == PageSize - at
      middle == (start + 1) .. (stop - 2)
      n == IF stop - 2 > start THEN stop - 2 - start ELSE 0
  IN {Piece(start, at, 0, Min2(at + count, PageSize) - at)}
       \cup {Piece(i, 0, phase + (i - start - 1) * PageSize, PageSize) : i \in middle}
       \cup (IF start = stop THEN {} ELSE {Piece(stop, 0, phase + n * PageSize, count % PageSize)})

PieceOf(ps, page) == CHOOSE s \in ps : s.page = page
FileWrite(mem, offset, b) ==
  LET ps == Pieces(offset, Len(b)) IN
  [p \in Pages |-> IF \E s \in ps : FilePage + s.page = p
                   THEN LET s == PieceOf(ps, p - FilePage) IN
                        Put(mem, p, s.at, SubSeq(b, s.from + 1, s.from + s.n))[p]
                   ELSE mem[p]]
Tpread(mem, offset, count) ==
  LET ps == Pieces(offset, count) IN
  [i \in 1 .. count |->
     LET s == CHOOSE s \in ps : s.from < i /\ i <= s.from + s.n
     IN mem[FilePage + s.page][s.at + i - 1 - s.from]]

(* Faulty variant: nothing undoes a decrement.                                *)
UndoLess == [set |-> "set_inverse", set_range |-> "set_range_inverse",
             page_set_range |-> "page_set_range_inverse", lsn_free_set |-> "lsn_free_set_inverse",
             pwrite |-> "pwrite_inverse", increment |-> "decrement", decrement |-> "noop"]

(* The operation that undoes another, from the table of operations.           *)
Undo == [set |-> "set_inverse", set_range |-> "set_range_inverse",
         page_set_range |-> "page_set_range_inverse", lsn_free_set |-> "lsn_free_set_inverse",
         pwrite |-> "pwrite_inverse", increment |-> "decrement", decrement |-> "increment"]

Physical == {"set", "set_range", "page_set_range", "lsn_free_set"}
Inverses == {Undo[op] : op \in Physical}

(* An operation's run function on a log entry.                                *)
Run(o, op, e) ==
  CASE op = "increment" -> [o EXCEPT !.ctr = (@ + 1) % Modulus]
    [] op = "decrement" -> [o EXCEPT !.ctr = (@ - 1) % Modulus]
    [] op \in Physical -> [o EXCEPT !.mem = Put(@, e.page, e.off, e.new)]
    [] op \in Inverses -> [o EXCEPT !.mem = Put(@, e.page, e.off, e.old)]
    [] op = "pwrite" -> [o EXCEPT !.mem = FileWrite(@, e.off, e.new)]
    [] op = "noop" -> o
    [] op = "pwrite_inverse" -> [o EXCEPT !.mem = FileWrite(@, e.off, e.old)]

(* Tupdate(): the entry is logged, joins the transaction's chain, and is run. *)
Update(o, x, e) ==
  Run([o EXCEPT !.lsn = @ + 1, !.chain[x] = Append(@, e)], e.op, e)
Entry(op, page, off, new, old) == [op |-> op, page |-> page, off |-> off, new |-> new, old |-> old]

Data(v, n) == [i \in 1 .. n |-> (v + i) % 3]

(* A caller's update w of object k begins: nobody else has written to k.      *)
Writes(x, k) == \E i \in DOMAIN obj.mine[x] : obj.mine[x][i].obj = k
Free(x, k) == /\ ~obj.undoing[x] /\ obj.lsn < MaxLog /\ k \in Used
              /\ k = "ctr" \/ \A y \in Xids \ {x} : ~Writes(y, k)
Note(o, x, k, off, b) == [o EXCEPT !.mine[x] = Append(@, [obj |-> k, off |-> off, b |-> b])]
Silent(x, op) == call' = <<op, x>> /\ ans' = None

Tset(x, v) == /\ Free(x, "record")
  /\ LET b == Data(v, PageSize) IN
     obj' = Note(Update(obj, x, Entry("set", RecordPage, 0, b, Get(obj.mem, RecordPage, 0, PageSize))),
                 x, "record", 0, b)
  /\ Silent(x, "Tset")
TsetRange(x, v, off) == /\ Free(x, "record")
  /\ LET b == Data(v, 1) IN
     obj' = Note(Update(obj, x, Entry("set_range", RecordPage, off, b, Get(obj.mem, RecordPage, off, 1))),
                 x, "record", off, b)
  /\ Silent(x, "TsetRange")

Tincrement(x) == /\ Free(x, "ctr")
  /\ obj' = Note(Update(obj, x, Entry("increment", 0, 0, <<>>, <<>>)), x, "ctr", 1, <<>>)
  /\ Silent(x, "Tincrement")
Tdecrement(x) == /\ Free(x, "ctr")
  /\ obj' = Note(Update(obj, x, Entry("decrement", 0, 0, <<>>, <<>>)), x, "ctr", -1, <<>>)
  /\ Silent(x, "Tdecrement")

(* TsetReorderable() without a handle.                                        *)
TsetLsnFree(x, v) == /\ Free(x, "free")
  /\ LET b == Data(v, 1) IN
     obj' = Note(Update(obj, x, Entry("lsn_free_set", FreePage, 1, b, Get(obj.mem, FreePage, 1, 1))),
                 x, "free", 1, b)
  /\ Silent(x, "TsetLsnFree")

TpageSetRange(o, x, page, off, b) ==
  Update(o, x, Entry("page_set_range", page, off, b, Get(o.mem, page, off, Len(b))))

(* Faulty variant: the last page is written from the start of the data.       *)
BlobWriteStart(x, v) == /\ Free(x, "blob")
  /\ LET b == Data(v, BlobSize)
         full == (BlobSize - 1) \div PageSize
         rest == [i \in 1 .. PageSize |-> IF i <= BlobSize % PageSize THEN b[i] ELSE 0]
         W[c \in 0 .. full] ==
           IF c = 0 THEN obj
           ELSE TpageSetRange(W[c - 1], x, BlobPage + c - 1, 0, SubSeq(b, (c - 1) * PageSize + 1, c * PageSize))
     IN obj' = Note(TpageSetRange(W[full], x, BlobPage + full, 0, rest), x, "blob", 0, b)
  /\ Silent(x, "Tset")

(* stasis_blob_write(): an update for each full page, and one for the rest    *)
(* padded with zeroes. Nothing is copied for the last page when the blob ends *)
(* at the page's end.                                                         *)
BlobWrite(x, v) == /\ Free(x, "blob")
  /\ LET b == Data(v, BlobSize)
         full == (BlobSize - 1) \div PageSize
         rest == [i \in 1 .. PageSize |-> IF i <= BlobSize % PageSize THEN b[full * PageSize + i] ELSE 0]
         W[c \in 0 .. full] ==
           IF c = 0 THEN obj
           ELSE TpageSetRange(W[c - 1], x, BlobPage + c - 1, 0, SubSeq(b, (c - 1) * PageSize + 1, c * PageSize))
     IN obj' = Note(TpageSetRange(W[full], x, BlobPage + full, 0, rest), x, "blob", 0, b)
  /\ Silent(x, "Tset")
(* stasis_blob_read(): the bytes that it copies; the others stay as they are. *)
BlobRead(mem) ==
  LET full == (BlobSize - 1) \div PageSize IN
  [i \in 1 .. (full * PageSize) + (BlobSize % PageSize) |->
     mem[BlobPage + (i - 1) \div PageSize][(i - 1) % PageSize]]

Tpwrite(x, v, offset, count) == /\ Free(x, "file")
  /\ LET b == Data(v, count) IN
     obj' = Note(Update(obj, x, Entry("pwrite", 0, offset, b, Tpread(obj.mem, offset, count))),
                 x, "file", offset, b)
  /\ Silent(x, "Tpwrite")

(* The logical value of an object after the updates in ws.                    *)
Zero(k) == [i \in 1 .. (CASE k = "blob" -> BlobSize [] k = "file" -> 4 * PageSize [] OTHER -> PageSize) |-> 0]
Written(b, k, ws) ==
  LET V[i \in 0 .. Len(ws)] ==
        IF i = 0 THEN (IF b = <<>> THEN Zero(k) ELSE b)
        ELSE IF ws[i].obj # k THEN V[i - 1]
        ELSE [j \in DOMAIN V[i - 1] |->
                IF j > ws[i].off /\ j <= ws[i].off + Len(ws[i].b) THEN ws[i].b[j - ws[i].off] ELSE V[i - 1][j]]
  IN V[Len(ws)]
Added(ws) == LET A[i \in 0 .. Len(ws)] == IF i = 0 THEN 0
                   ELSE A[i - 1] + (IF ws[i].obj = "ctr" THEN ws[i].off ELSE 0)
             IN A[Len(ws)]

Tcommit(x) ==
  /\ ~obj.undoing[x] /\ obj.chain[x] # <<>>
  /\ obj' = [obj EXCEPT !.chain[x] = <<>>, !.mine[x] = <<>>,
                        !.val = [k \in DOMAIN @ |-> Written(@[k], k, obj.mine[x])],
                        !.num = (@ + Added(obj.mine[x])) % Modulus]
  /\ Silent(x, "Tcommit")
Tabort(x) == /\ ~obj.undoing[x] /\ obj.chain[x] # <<>>
             /\ obj' = [obj EXCEPT !.undoing[x] = TRUE]
             /\ Silent(x, "Tabort")

(* One compensation of a rollback; the last one ends the transaction.         *)
UndoStep(x) ==
  /\ obj.undoing[x]
  /\ LET e == obj.chain[x][Len(obj.chain[x])]
         o == [obj EXCEPT !.chain[x] = SubSeq(@, 1, Len(@) - 1)]
         ended == Len(obj.chain[x]) = 1
     IN obj' = [Run(o, Undo[e.op], e)
                  EXCEPT !.undoing[x] = ~ended, !.mine[x] = IF ended THEN <<>> ELSE @]
  /\ Silent(x, "undo")

Next == \E x \in Xids :
  \/ \E v \in Values : \/ Tset(x, v) \/ TsetLsnFree(x, v) \/ BlobWrite(x, v)
                       \/ \E off \in 0 .. PageSize - 1 : TsetRange(x, v, off)
                       \/ \E e \in Extents : Tpwrite(x, v, e[1], e[2])
  \/ Tincrement(x) \/ Tdecrement(x) \/ Tcommit(x) \/ Tabort(x) \/ UndoStep(x)

Spec == Init /\ [][Next]_vars

-------------------------------------------------------------------------------
(* What a reader of an object gets.                                           *)
ReadObject(k) == CASE k = "record" -> Get(obj.mem, RecordPage, 0, PageSize)
                   [] k = "free" -> Get(obj.mem, FreePage, 0, PageSize)
                   [] k = "blob" -> BlobRead(obj.mem)
                   [] k = "file" -> [i \in 1 .. 4 * PageSize |->
                        obj.mem[FilePage + (i - 1) \div PageSize][(i - 1) % PageSize]]
Expected(k) ==
  IF \E x \in Xids : Writes(x, k)
  THEN Written(obj.val[k], k, obj.mine[CHOOSE x \in Xids : Writes(x, k)])
  ELSE Written(obj.val[k], k, <<>>)


(* Increments commute: while no transaction is rolling back the counter is    *)
(* the committed count and everyone's increments, whoever rolled back before. *)
CounterExact ==
  (\A x \in Xids : ~obj.undoing[x])
    => LET all == [x \in Xids |-> Added(obj.mine[x])]
           S[xs \in SUBSET Xids] == IF xs = {} THEN 0
                                    ELSE LET x == CHOOSE y \in xs : TRUE IN all[x] + S[xs \ {x}]
       IN obj.ctr = (obj.num + S[Xids]) % Modulus
===============================================================================
