------------------------------- MODULE Regions -------------------------------
(* The page file allocator of operations/regions.c. Every region is preceded  *)
(* by a page with a boundary tag; tags form a chain that is read forwards by  *)
(* size and backwards by prev_size. Vacant neighbours are merged lazily, by   *)
(* the next allocation that walks past them, unless the transaction that      *)
(* vacated one could still abort.                                             *)
EXTENDS Integers, FiniteSets, Sequences

CONSTANTS Xids, None,
          Managers,  \* allocation managers
          Sizes,     \* region sizes callers ask for
          MaxPage,   \* bound on the page file
          MaxUndo    \* bound on the allocations and frees of a transaction

VARIABLES obj,   \* tags, the undo list of each transaction, regions in use
          call, ans

vars == <<obj, call, ans>>

INF == 1000           \* PAGEID_T_MAX
INVALID == 0          \* the fingerprint of no transaction
Pages == 0 .. MaxPage
NoTag == [status |-> "none", size |-> 0, prev |-> 0, xid |-> INVALID, mgr |-> 0]

(* regionsInit(): all of the page file is one vacant region.                  *)
Create == [tag  |-> [p \in Pages |-> IF p = 0
                       THEN [NoTag EXCEPT !.status = "vacant", !.size = INF, !.prev = INF]
                       ELSE NoTag],
           undo |-> [x \in Xids |-> <<>>],
           state |-> [x \in Xids |-> "active"],
           held |-> {}]

Init == obj = Create /\ call = <<"create", None>> /\ ans = None

(* Faulty variant: any vacant region is reused, its owner still running.      *)
ReusableNow(t) == t.status = "vacant"

(* TisActiveTransaction(): a fingerprint names one transaction, not its xid,  *)
(* so Completed() below forgets those of a transaction that has ended.        *)
Reusable(t) == t.status = "vacant" /\ t.xid = INVALID

Succ(p, t) == p + t.size + 1

(* TdeallocBoundaryTag()                                                      *)
Condemn(tags, p, x) == [tags EXCEPT ![p].status = "condemned", ![p].xid = x]

(* Faulty variant: the region behind a merged one keeps its prev_size.        *)
MergeSuccForward(tags, x, p) ==
  LET t == tags[p]
      sp == Succ(p, t)
      s == tags[sp]
  IN IF t.size = INF THEN tags
     ELSE IF s.size = INF THEN [Condemn(tags, sp, x) EXCEPT ![p].size = INF]
     ELSE IF Reusable(s) THEN [Condemn(tags, sp, x) EXCEPT ![p].size = t.size + s.size + 1]
     ELSE tags

(* consolidateRegions(), first half: merge with the region behind.            *)
MergeSucc(tags, x, p) ==
  LET t == tags[p]
      sp == Succ(p, t)
      s == tags[sp]
  IN IF t.size = INF THEN tags
     ELSE IF s.size = INF
     THEN [Condemn(tags, sp, x) EXCEPT ![p].size = INF]
     ELSE IF Reusable(s)
     THEN LET size == t.size + s.size + 1 IN
          [Condemn(tags, sp, x) EXCEPT ![p].size = size, ![Succ(sp, s)].prev = size]
     ELSE tags

(* ... second half: merge with the region in front.                           *)
MergePred(tags, x, p) ==
  LET t  == tags[p]
      pp == (p - 1) - t.prev
      size == IF t.size = INF THEN INF ELSE tags[pp].size + t.size + 1
      u  == [Condemn(tags, p, x) EXCEPT ![pp].size = size]
  IN IF t.prev = INF THEN [tags |-> tags, at |-> p]
     ELSE IF ~Reusable(tags[pp]) THEN [tags |-> tags, at |-> p]
     ELSE [tags |-> IF t.size = INF THEN u ELSE [u EXCEPT ![Succ(p, t)].prev = size],
           at |-> pp]

ConsolidateRegions(tags, x, p) ==
  IF ~Reusable(tags[p]) THEN [tags |-> tags, at |-> p]
  ELSE MergePred(MergeSucc(tags, x, p), x, p)

(* TregionAlloc()'s first fit: consolidate on the way, stop at the first      *)
(* region that is vacant, large enough and not held by an active transaction. *)
RECURSIVE FirstFit(_, _, _, _)
FirstFit(tags, x, p, n) ==
  LET c == ConsolidateRegions(tags, x, p)
      t == c.tags[c.at]
  IN IF Reusable(t) /\ t.size >= n THEN c
     ELSE FirstFit(c.tags, x, Succ(c.at, t), n)

(* TregionAllocHelper(): split the region when it is larger than needed.      *)
AllocHelper(tags, x, p, n, mgr) ==
  LET t   == tags[p]
      new == p + n + 1
      rest == IF t.size = INF THEN INF ELSE t.size - n - 1
      split == IF t.size = n THEN tags
               ELSE [tags EXCEPT ![new] = [status |-> "vacant", size |-> rest, prev |-> n,
                                           xid |-> INVALID, mgr |-> 0]]
      linked == IF t.size = n \/ t.size = INF THEN split
                ELSE [split EXCEPT ![Succ(p, t)].prev = rest]
  IN [linked EXCEPT ![p].status = "zoned", ![p].xid = x, ![p].mgr = mgr, ![p].size = n]

Region(p, n) == [first |-> p + 1, size |-> n]

TregionAlloc(x, n, mgr) ==
  LET c == FirstFit(obj.tag, x, 0, n) IN
  /\ obj.state[x] = "active" /\ Len(obj.undo[x]) < MaxUndo
  /\ c.at + n + 1 <= MaxPage
  /\ obj' = [obj EXCEPT
       !.tag = AllocHelper(c.tags, x, c.at, n, mgr),
       !.undo[x] = Append(@, [op |-> "alloc", at |-> c.at, size |-> n, mgr |-> mgr]),
       !.held = @ \cup {Region(c.at, n)}]
  /\ call' = <<"alloc", n>>
  /\ ans' = c.at + 1

(* operate_dealloc_region_unlocked()                                          *)
Vacate(tags, x, p) == [tags EXCEPT ![p].status = "vacant", ![p].xid = x]

TregionDealloc(x, r) ==
  LET p == r.first - 1 IN
  /\ obj.state[x] = "active" /\ Len(obj.undo[x]) < MaxUndo
  /\ obj.tag[p].xid \in {x, INVALID}   \* other transactions' regions are locked
  /\ obj' = [obj EXCEPT
       !.tag = Vacate(@, x, p),
       !.undo[x] = Append(@, [op |-> "dealloc", at |-> p, size |-> obj.tag[p].size,
                              mgr |-> obj.tag[p].mgr]),
       !.held = @ \ {r}]
  /\ call' = <<"dealloc", r.first>>
  /\ ans' = None

Completed(o, x) == [o EXCEPT !.undo[x] = <<>>, !.state[x] = "active",
  !.tag = [p \in Pages |-> IF @[p].xid = x THEN [@[p] EXCEPT !.xid = INVALID] ELSE @[p]]]

Tcommit(x) == /\ obj.state[x] = "active"
              /\ obj' = Completed(obj, x)
              /\ UNCHANGED <<call, ans>>

Tabort(x) == /\ obj.state[x] = "active"
             /\ obj' = [obj EXCEPT !.state[x] = "aborting"]
             /\ UNCHANGED <<call, ans>>

(* One logical undo, op_dealloc_region() or op_alloc_region(); other          *)
(* transactions run between two of them. After the last one the abort is over.*)
Undo(x) ==
  LET u == obj.undo[x][Len(obj.undo[x])]
      rest == SubSeq(obj.undo[x], 1, Len(obj.undo[x]) - 1)
  IN /\ obj.state[x] = "aborting"
     /\ obj' = IF obj.undo[x] = <<>> THEN Completed(obj, x)
               ELSE IF u.op = "alloc"
               THEN [obj EXCEPT !.undo[x] = rest, !.tag = Vacate(@, x, u.at),
                                !.held = @ \ {Region(u.at, u.size)}]
               ELSE [obj EXCEPT !.undo[x] = rest,
                       !.tag = AllocHelper(@, x, u.at, u.size, u.mgr),
                       !.held = @ \cup {Region(u.at, u.size)}]
     /\ UNCHANGED <<call, ans>>

(* TregionFindNthActive(): skip leading vacant regions, then vacant ones in   *)
(* between do not count.                                                      *)
RECURSIVE NthActive(_, _)
NthActive(p, n) == LET t == obj.tag[p] IN
                   IF t.status = "vacant" THEN NthActive(Succ(p, t), n)
                   ELSE IF n = 0 THEN p + 1 ELSE NthActive(Succ(p, t), n - 1)

TregionFindNthActive(n) ==
  /\ n < Cardinality(obj.held)
  /\ call' = <<"nth", n>>
  /\ ans' = NthActive(0, n)
  /\ UNCHANGED obj

(* Faulty variant: the manager is compared with the tag the walk starts from. *)
RECURSIVE NextTagFrom(_, _)
NextTagFrom(p, mgr) ==
  LET t == obj.tag[p] q == Succ(p, t) IN
  IF t.size = INF THEN None
  ELSE IF obj.tag[q].status = "zoned" /\ (mgr = 0 \/ t.mgr = mgr)
  THEN q + 1 ELSE NextTagFrom(q, mgr)

(* TregionNextBoundaryTag(): the next zoned region of the manager, if any.    *)
RECURSIVE NextTag(_, _)
NextTag(p, mgr) == LET t == obj.tag[p] q == Succ(p, t) IN
                   IF t.size = INF THEN None
                   ELSE IF obj.tag[q].status = "zoned" /\ (mgr = 0 \/ obj.tag[q].mgr = mgr)
                   THEN q + 1 ELSE NextTag(q, mgr)

TregionNextBoundaryTag(r, mgr) ==
  /\ call' = <<"next", r.first, mgr>>
  /\ ans' = NextTag(r.first - 1, mgr)
  /\ UNCHANGED obj

Next == \/ \E x \in Xids, n \in Sizes, mgr \in Managers : TregionAlloc(x, n, mgr)
        \/ \E x \in Xids, r \in obj.held : TregionDealloc(x, r)
        \/ \E x \in Xids : Tcommit(x) \/ Tabort(x) \/ Undo(x)
        \/ \E n \in 0 .. MaxPage : TregionFindNthActive(n)
        \/ \E r \in obj.held, mgr \in Managers \cup {0} : TregionNextBoundaryTag(r, mgr)

RECURSIVE TagChain(_, _)
TagChain(p, n) == IF n = 0 THEN <<>>
                  ELSE IF obj.tag[p].size = INF THEN <<p>>
                  ELSE <<p>> \o TagChain(Succ(p, obj.tag[p]), n - 1)

(* The allocator without condemned tags, which no operation reads.            *)
Shape == <<[i \in DOMAIN TagChain(0, MaxPage + 1) |-> obj.tag[TagChain(0, MaxPage + 1)[i]]],
           obj.undo, obj.state, obj.held>>

(* fsckRegions(): the tags chain the whole page file in both directions, end  *)
(* with vacant space, and inside a region there are only condemned tags; and  *)
(* the zoned regions are exactly those that were allocated, and not freed, by *)
(* transactions that did not abort, so no two of them share a page.           *)
RegionsSound ==
  LET c == TagChain(0, MaxPage + 1)
      n == Len(c)
      tag(i) == obj.tag[c[i]]
  IN /\ tag(1).prev = INF
     /\ \A i \in 2 .. n : tag(i).prev = tag(i - 1).size
     /\ \A i \in 1 .. n : tag(i).status \in {"vacant", "zoned"}
     /\ tag(n).size = INF /\ tag(n).status = "vacant"
     /\ \A p \in Pages : (\A i \in 1 .. n : c[i] # p) =>
          obj.tag[p].status \in {"none", "condemned"}
     /\ {Region(c[i], tag(i).size) : i \in {i \in 1 .. n : tag(i).status = "zoned"}} = obj.held

(* An aborting transaction finds what its undo needs: the tag of the region   *)
(* it freed is still there, vacant and as long as it was.                     *)
UndoPossible ==
  \A x \in Xids : \A i \in DOMAIN obj.undo[x] :
    LET u == obj.undo[x][i] t == obj.tag[u.at]
        later == {j \in DOMAIN obj.undo[x] : j > i /\ obj.undo[x][j].at = u.at}
    IN later = {} => /\ t.size = u.size
                     /\ t.status = IF u.op = "alloc" THEN "zoned" ELSE "vacant"
                     /\ t.xid = x

(* What the walks answer: the regions in the order of their pages.            *)
WalksExact ==
  LET lower(f) == {r \in obj.held : r.first < f}
      nextOf == {r.first : r \in {r \in obj.held : r.first > call'[2]
                   /\ (call'[3] = 0 \/ obj.tag[r.first - 1].mgr = call'[3])}}
  IN /\ call'[1] = "nth" =>
          \E r \in obj.held : ans' = r.first /\ Cardinality(lower(r.first)) = call'[2]
     /\ call'[1] = "next" =>
          ans' = IF nextOf = {} THEN None ELSE CHOOSE f \in nextOf : \A g \in nextOf : f <= g
=============================================================================
