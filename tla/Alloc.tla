-------------------------------- MODULE Alloc --------------------------------
(* Record allocation: operations/alloc.c on slotted pages, with the tables    *)
(* and views of allocationPolicy.c that decide which transaction may allocate *)
(* from which page. A slot freed by a transaction that may still abort has to *)
(* be given back to it, with its bytes; the policy keeps others off the page. *)
EXTENDS Integers, FiniteSets, Sequences

CONSTANTS Xids, None,
          PageIds,   \* pages of Talloc's regions, in the order they are added
          PageSize, Sizes,
          MaxUndo    \* bound on a transaction's allocations and frees

VARIABLES obj,       \* pages, allocation policy, undo lists and record table
          call, ans

vars == <<obj, call, ans>>

SP == INSTANCE SlottedPage WITH Fill <- Xids
INVALID_PAGE == -1
Unknown == -1
NoOwner == [xid |-> None, fs |-> 0]

Policy == [all   |-> [p \in PageIds |-> Unknown],   \* AllPages: freespace
           avail |-> [p \in PageIds |-> Unknown],   \* AvailablePages: freespace
           owner |-> [p \in PageIds |-> NoOwner],   \* PageOwners
           alloced |-> {}, dealloced |-> {}]        \* XidAlloced, XidDealloced

(* stasis_record_freespace()                                                  *)
Freespace(pg) == SP!FreespaceFor(pg, SP!INVALID)

XidsOf(table, p) == {x \in Xids : <<x, p>> \in table}

(* Faulty variants: a page with frees only is available; an owned page is     *)
(* left among the available ones.                                             *)
UpdateViewsAllocs(pol, p) ==
  LET a == XidsOf(pol.alloced, p)
      fs == pol.all[p]
  IN CASE a = {} -> [pol EXCEPT !.owner[p] = NoOwner, !.avail[p] = fs]
       [] Cardinality(a) = 1 ->
            [pol EXCEPT !.avail[p] = Unknown,
                        !.owner[p] = [xid |-> CHOOSE x \in a : TRUE, fs |-> fs]]
       [] OTHER -> [pol EXCEPT !.owner[p] = NoOwner, !.avail[p] = Unknown]
UpdateViewsTwice(pol, p) ==
  LET a == XidsOf(pol.alloced, p)
      d == XidsOf(pol.dealloced, p)
      owned(xs) == [pol EXCEPT !.owner[p] = [xid |-> CHOOSE x \in xs : TRUE,
                                             fs |-> pol.all[p]]]
  IN CASE a = {} /\ d = {} -> [pol EXCEPT !.owner[p] = NoOwner, !.avail[p] = pol.all[p]]
       [] Cardinality(a) = 1 /\ d = {} -> owned(a)
       [] a = {} /\ Cardinality(d) = 1 -> owned(d)
       [] OTHER -> [pol EXCEPT !.owner[p] = NoOwner, !.avail[p] = Unknown]

(* update_views_for_page(); reuseWithinXact is 0.                             *)
UpdateViews(pol, p) ==
  LET a == XidsOf(pol.alloced, p)
      d == XidsOf(pol.dealloced, p)
      fs == pol.all[p]
      owned(xs) == [pol EXCEPT !.avail[p] = Unknown,
                      !.owner[p] = [xid |-> CHOOSE x \in xs : TRUE, fs |-> fs]]
  IN CASE a = {} /\ d = {} -> [pol EXCEPT !.owner[p] = NoOwner, !.avail[p] = fs]
       [] Cardinality(a) = 1 /\ d = {} -> owned(a)
       [] a = {} /\ Cardinality(d) = 1 -> owned(d)
       [] OTHER -> [pol EXCEPT !.owner[p] = NoOwner, !.avail[p] = Unknown]

AllocedFromPage(pol, x, p) == UpdateViews([pol EXCEPT !.alloced = @ \cup {<<x, p>>}], p)
DeallocedFromPage(pol, x, p) == UpdateViews([pol EXCEPT !.dealloced = @ \cup {<<x, p>>}], p)

(* allPages_set_freespace()                                                   *)
UpdateFreespace(pol, p, fs) ==
  [pol EXCEPT !.all[p] = fs,
              !.avail[p] = IF @ = Unknown THEN @ ELSE fs,
              !.owner[p] = IF @ = NoOwner THEN @ ELSE [@ EXCEPT !.fs = fs]]

RegisterNewPage(pol, p, fs) ==
  IF pol.all[p] # Unknown THEN UpdateFreespace(pol, p, fs)
  ELSE [pol EXCEPT !.all[p] = fs, !.avail[p] = fs]

(* Faulty variant: the page is closed to no one.                              *)
CanXidAllocAlways(pol, x, p) == pol.all[p] # Unknown \/ x = None

CanXidAllocFromPage(pol, x, p) == XidsOf(pol.dealloced, p) \subseteq {x}

(* The lookups by freespace: least freespace that is enough, then least page. *)
BestFit(cand, fs) ==
  CHOOSE p \in cand : \A q \in cand : fs[p] < fs[q] \/ (fs[p] = fs[q] /\ p <= q)

(* stasis_allocation_policy_pick_suitable_page(): a page of the transaction's *)
(* own, or else one that nobody uses.                                         *)
PickSuitablePage(pol, x, n) ==
  LET mine == {p \in PageIds : pol.owner[p].xid = x /\ pol.owner[p].fs >= n}
      free == {p \in PageIds : pol.avail[p] >= n}
  IN IF mine # {} THEN BestFit(mine, [p \in PageIds |-> pol.owner[p].fs])
     ELSE IF free # {} THEN BestFit(free, pol.avail)
     ELSE INVALID_PAGE

RECURSIVE RemoveAll(_, _, _)
RemoveAll(pol, x, ps) ==
  IF ps = {} THEN pol
  ELSE LET p == CHOOSE p \in ps : TRUE IN
       RemoveAll(UpdateViews([pol EXCEPT !.alloced = @ \ {<<x, p>>},
                                         !.dealloced = @ \ {<<x, p>>}], p), x, ps \ {p})

(* stasis_allocation_policy_transaction_completed(), the AT_COMMIT callback.  *)
TransactionCompleted(pol, x) ==
  RemoveAll(pol, x, {p \in PageIds : <<x, p>> \in pol.alloced \cup pol.dealloced})

Init == /\ obj = [page  |-> [p \in PageIds |-> SP!Blank], pol |-> Policy,
                  undo  |-> [x \in Xids |-> <<>>], state |-> [x \in Xids |-> "active"],
                  recs  |-> [r \in PageIds \X SP!Slots |-> <<SP!INVALID>>]]
        /\ call = <<"create", None>>
        /\ ans = None

(* pick_suitable_page() and, when it finds none, a new region first.          *)
PickOrExtend(pol, x, n) ==
  LET p == PickSuitablePage(pol, x, n)
      new == {q \in PageIds : pol.all[q] = Unknown}
      q == CHOOSE q \in new : \A r \in new : q <= r
      pol2 == RegisterNewPage(pol, q, Freespace(SP!Blank))
  IN IF p # INVALID_PAGE THEN [pol |-> pol, at |-> p]
     ELSE IF new = {} THEN [pol |-> pol, at |-> INVALID_PAGE]
     ELSE [pol |-> pol2, at |-> PickSuitablePage(pol2, x, n)]

(* The loop of Talloc(): the policy's freespace may be out of date. A page    *)
(* that is too full even when compacted is told apart and another is picked.  *)
RECURSIVE FindPage(_, _, _, _)
FindPage(pages, pol, x, n) ==
  LET c == PickOrExtend(pol, x, n)
      compacted == [pages EXCEPT ![c.at] = SP!Compact(pages[c.at])]
  IN IF c.at = INVALID_PAGE THEN [page |-> pages, pol |-> c.pol, at |-> INVALID_PAGE]
     ELSE IF Freespace(pages[c.at]) >= n THEN [page |-> pages, pol |-> c.pol, at |-> c.at]
     ELSE IF Freespace(compacted[c.at]) >= n
     THEN [page |-> compacted, pol |-> c.pol, at |-> c.at]
     ELSE FindPage(compacted, UpdateFreespace(c.pol, c.at, Freespace(compacted[c.at])), x, n)

Logged(o, x, op, p, s, bytes) ==
  [o EXCEPT !.undo[x] = Append(@, [op |-> op, page |-> p, slot |-> s, bytes |-> bytes]),
            !.recs[<<p, s>>] = IF op = "alloc" THEN bytes ELSE <<SP!INVALID>>]

Filled(pg, s, size, v) == SP!Write(SP!PostAlloc(pg, s, size), s, v)

Running(x) == obj.state[x] = "active" /\ Len(obj.undo[x]) < MaxUndo

Talloc(x, size) ==
  \E f \in {FindPage(obj.page, obj.pol, x, size)} :
    /\ Running(x)
    /\ f.at # INVALID_PAGE
    /\ LET p == f.page[f.at] s == SP!PreAlloc(p, size) IN
       \E pg \in {Filled(p, s, size, x)} :
         /\ obj' = Logged([obj EXCEPT
                           !.page = [f.page EXCEPT ![f.at] = pg],
                           !.pol = UpdateFreespace(AllocedFromPage(f.pol, x, f.at), f.at,
                                                   Freespace(pg))],
                          x, "alloc", f.at, s, SP!Filled(size, x))
         /\ call' = <<"alloc", x, f.at, s>>
    /\ ans' = None

(* TallocFromPage(): refused when another transaction has freed records of    *)
(* the page; the policy is not told the page's new freespace.                 *)
TallocFromPage(x, p, size) ==
  LET s == SP!PreAlloc(obj.page[p], size) IN
  /\ Running(x)
  /\ obj.pol.all[p] # Unknown
  /\ CanXidAllocFromPage(obj.pol, x, p)
  /\ s # SP!INVALID
  /\ obj' = Logged([obj EXCEPT !.page[p] = Filled(@, s, size, x),
                               !.pol = AllocedFromPage(@, x, p)],
                   x, "alloc", p, s, SP!Filled(size, x))
  /\ call' = <<"alloc", x, p, s>>
  /\ ans' = None

(* Records another transaction has allocated are locked by it.                *)
Locked(x, p, s) == \E y \in Xids \ {x} : \E i \in DOMAIN obj.undo[y] :
                     obj.undo[y][i].page = p /\ obj.undo[y][i].slot = s

(* Tdealloc(): the policy is told first, the record's bytes go to the log.    *)
Tdealloc(x, p, s) ==
  /\ Running(x)
  /\ SP!Live(obj.page[p], s) /\ ~Locked(x, p, s)
  /\ obj' = Logged([obj EXCEPT !.page[p] = SP!Free(@, s), !.pol = DeallocedFromPage(@, x, p)],
                   x, "dealloc", p, s, SP!Bytes(obj.page[p], s))
  /\ call' = <<"dealloc", x, p, s>>
  /\ ans' = None

Completed(o, x) == [o EXCEPT !.pol = TransactionCompleted(@, x),
                             !.undo[x] = <<>>, !.state[x] = "active"]

Tcommit(x) == /\ obj.state[x] = "active" /\ obj.undo[x] # <<>>
              /\ obj' = Completed(obj, x)
              /\ UNCHANGED <<call, ans>>
Tabort(x) == /\ obj.state[x] = "active" /\ obj.undo[x] # <<>>
             /\ obj' = [obj EXCEPT !.state[x] = "aborting"]
             /\ UNCHANGED <<call, ans>>

LastOf(x) == obj.undo[x][Len(obj.undo[x])]

(* Faulty variant: the record comes back with its slot and not its bytes.     *)
UndoEmpty(x) ==
  LET u == LastOf(x)
      o == [obj EXCEPT !.undo[x] = SubSeq(@, 1, Len(@) - 1)]
  IN /\ obj.state[x] = "aborting"
     /\ obj' = IF obj.undo[x] = <<>> THEN Completed(obj, x)
               ELSE IF u.op = "alloc"
               THEN [o EXCEPT !.page[u.page] = SP!Free(@, u.slot),
                              !.recs[<<u.page, u.slot>>] = <<SP!INVALID>>]
               ELSE [o EXCEPT !.page[u.page] = Filled(@, u.slot, Len(u.bytes), x),
                              !.recs[<<u.page, u.slot>>] = u.bytes]
     /\ UNCHANGED <<call, ans>>

(* Undo of one entry: op_dealloc() for an alloc, op_realloc() for a dealloc;  *)
(* the callback runs when the rollback is complete.                           *)
Undo(x) ==
  LET u == LastOf(x)
      o == [obj EXCEPT !.undo[x] = SubSeq(@, 1, Len(@) - 1)]
      v == IF u.bytes = <<>> THEN x ELSE u.bytes[1]
  IN /\ obj.state[x] = "aborting"
     /\ obj' = IF obj.undo[x] = <<>> THEN Completed(obj, x)
               ELSE IF u.op = "alloc"
               THEN [o EXCEPT !.page[u.page] = SP!Free(@, u.slot),
                              !.recs[<<u.page, u.slot>>] = <<SP!INVALID>>]
               ELSE [o EXCEPT !.page[u.page] = Filled(@, u.slot, Len(u.bytes), v),
                              !.recs[<<u.page, u.slot>>] = u.bytes]
     /\ UNCHANGED <<call, ans>>

(* After a restart no transaction is running, and every page of Talloc's      *)
(* regions is registered with the freespace that it has.                      *)
Restart ==
  /\ \A x \in Xids : obj.undo[x] = <<>> /\ obj.state[x] = "active"
  /\ LET fs == [p \in PageIds |-> IF obj.pol.all[p] = Unknown THEN Unknown
                                  ELSE Freespace(obj.page[p])]
     IN obj' = [obj EXCEPT !.pol = [Policy EXCEPT !.all = fs, !.avail = fs]]
  /\ UNCHANGED <<call, ans>>

Next == \/ \E x \in Xids, size \in Sizes : Talloc(x, size)
        \/ \E x \in Xids, p \in PageIds, size \in Sizes : TallocFromPage(x, p, size)
        \/ \E x \in Xids, p \in PageIds, s \in SP!Slots : Tdealloc(x, p, s)
        \/ \E x \in Xids : Tcommit(x) \/ Tabort(x) \/ Undo(x)
        \/ Restart

(* The pages hold the records that committed and running transactions have    *)
(* allocated and not freed, byte for byte, whatever was rolled back.          *)
RecordsExact ==
  \A p \in PageIds : \A s \in SP!Slots :
    SP!Records(obj.page[p])[s] = obj.recs[<<p, s>>]

(* op_realloc()'s assertions and slotted_post_alloc()'s: a rollback finds the *)
(* slot it gives back unused and enough room on the page for the record.      *)
RollbackFits ==
  \A x \in Xids : obj.state[x] = "aborting" /\ obj.undo[x] # <<>> =>
    LET u == LastOf(x) pg == obj.page[u.page] n == Len(u.bytes) IN
    IF u.op = "alloc" THEN SP!Live(pg, u.slot)
    ELSE /\ ~SP!Live(pg, u.slot)
         /\ SP!FreespaceFor(pg, u.slot) >= n \/ SP!FreespaceFor(SP!Compact(pg), u.slot) >= n

(* The views of the policy agree with its tables: a page is available exactly *)
(* when no transaction has allocated or freed on it, is never available and   *)
(* owned at once, and shows the freespace of the table in both views.         *)
ViewsExact ==
  \A p \in PageIds : LET pol == obj.pol
                         users == XidsOf(pol.alloced \cup pol.dealloced, p) IN
    /\ pol.avail[p] = IF users = {} THEN pol.all[p] ELSE Unknown
    /\ pol.owner[p] # NoOwner => /\ users = {pol.owner[p].xid}
                                 /\ pol.owner[p].fs = pol.all[p]

(* A record id that a running transaction has freed is given to no other.     *)
NoEarlyReuse ==
  call'[1] = "alloc" /\ call' # call =>
    \A y \in Xids \ {call'[2]} : \A i \in DOMAIN obj.undo[y] :
      ~(obj.undo[y][i].op = "dealloc" /\ obj.undo[y][i].page = call'[3]
                                      /\ obj.undo[y][i].slot = call'[4])
=============================================================================
