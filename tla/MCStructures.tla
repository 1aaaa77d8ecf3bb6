---------------------------- MODULE MCStructures ----------------------------
(* The data structures of stasis, the layers that hand out space in the page  *)
(* file, the update operations and the replicated hash table, side by side:   *)
(* each behaviour runs one of them (kind) and calls its operations in every   *)
(* order.                                                                     *)
EXTENDS Integers, FiniteSets

CONSTANTS None

VARIABLES kind, obj, call, ans

vars == <<kind, obj, call, ans>>

LH == INSTANCE LHTable WITH Keys <- 1 .. 4, Values <- {1, 2}, InitialSize <- 2,
                            HashCode <- <<4, 5, 8, 12>>
RB == INSTANCE RedBlack WITH Keys <- 1 .. 6, Values <- {1}, MaxNodes <- 6
LL == INSTANCE LinkedListNTA WITH Keys <- 1 .. 3, Values <- {1, 2}, MaxRecs <- 3
PL == INSTANCE PagedList WITH Keys <- 1 .. 3, Values <- {1, 2}, MaxPages <- 3,
                              SlotsPerPage <- 2
HN == INSTANCE LinearHashNTA WITH Keys <- 1 .. 3, Values <- {1, 2}, MaxUndo <- 3,
                                  HASH_INIT_BITS <- 1, HashCode <- <<4, 6, 7>>
CH == INSTANCE ConcurrentHash WITH Threads <- 1 .. 2, Keys <- 1 .. 3, Values <- {1},
                                   HashCode <- <<31, 15, 16>>, Max <- 15
MI == INSTANCE MonoTree WITH Keys <- 1 .. 4, Size <- 3, Chosen <- TRUE
MA == INSTANCE MonoTree WITH Keys <- 1 .. 5, Size <- 3, Chosen <- FALSE
LT == INSTANCE LsmTree WITH Capacity <- 2, RegionSize <- 3, Iterators <- {1, 2},
                            MaxAppends <- 9
RT == INSTANCE RangeTracker WITH Quant <- 2, MaxPos <- 5, MaxHeld <- 3
AL == INSTANCE ArrayList WITH InitialSize <- 1, Multiplier <- 2, RecPerPage <- 2,
                              MaxSlots <- 14, MaxPage <- 30
SP == INSTANCE SlottedPage WITH PageSize <- 7, Sizes <- {1, 2}, Fill <- {1, 2}
RG == INSTANCE Regions WITH Xids <- {1, 2}, Managers <- {1, 2}, Sizes <- {1, 2},
                            MaxPage <- 6, MaxUndo <- 2
TA == INSTANCE Alloc WITH Xids <- {1, 2}, PageIds <- {1, 2}, PageSize <- 3,
                          Sizes <- {1, 2}, MaxUndo <- 2
OR == INSTANCE Operations WITH Xids <- 1 .. 2, PageSize <- 2, Modulus <- 4, BlobSize <- 5,
                               Values <- {0, 1}, MaxLog <- 3, Extents <- {},
                               Used <- {"record", "ctr"}
OB == INSTANCE Operations WITH Xids <- 1 .. 2, PageSize <- 2, Modulus <- 4, BlobSize <- 5,
                               Values <- {0, 1}, MaxLog <- 3,
                               Extents <- {<<3, 1>>, <<2, 2>>, <<0, 3>>},
                               Used <- {"free", "blob", "file"}

(* Requests to the replicated hash table on two-phase commit: waiting for the *)
(* commit point and for the arrival over a network that loses messages, and   *)
(* a transaction of several requests, committed and aborted.                  *)
Req(rt, op) == [rt |-> rt, op |-> op]
T1 == INSTANCE TwoPhase WITH Subs <- {"s1", "s2"}, Lossy <- TRUE, Cap <- 1, MaxSends <- 2,
        Script <- <<Req("AWAIT_COMMIT_POINT", "insert")>>
T2 == INSTANCE TwoPhase WITH Subs <- {"s1", "s2"}, Lossy <- TRUE, Cap <- 1, MaxSends <- 1,
        Script <- <<Req("AWAIT_ARRIVAL", "insert")>>
T3 == INSTANCE TwoPhase WITH Subs <- {"s1", "s2"}, Lossy <- FALSE, Cap <- 2, MaxSends <- 1,
        Script <- <<Req("XACT_ACK_RESULT", "getxid"), Req("XACT_ACK_RESULT", "insert"),
                    Req("XACT_COMMIT", "commit")>>
T4 == INSTANCE TwoPhase WITH Subs <- {"s1", "s2"}, Lossy <- FALSE, Cap <- 2, MaxSends <- 1,
        Script <- <<Req("XACT_ACK_RESULT", "insert"), Req("XACT_COMMIT", "abort")>>

Init == \/ kind = "lh" /\ LH!Init
        \/ kind = "rb" /\ RB!Init
        \/ kind = "ll" /\ LL!Init
        \/ kind = "pl" /\ PL!Init
        \/ kind = "hn" /\ HN!Init
        \/ kind = "ch" /\ CH!Init
        \/ kind = "mi" /\ MI!Init
        \/ kind = "ma" /\ MA!Init
        \/ kind = "lt" /\ LT!Init
        \/ kind = "rt" /\ RT!Init
        \/ kind = "al" /\ AL!Init
        \/ kind = "sp" /\ SP!Init
        \/ kind = "rg" /\ RG!Init
        \/ kind = "ta" /\ TA!Init
        \/ kind = "or" /\ OR!Init
        \/ kind = "ob" /\ OB!Init
        \/ kind = "t1" /\ T1!Init
        \/ kind = "t2" /\ T2!Init
        \/ kind = "t3" /\ T3!Init
        \/ kind = "t4" /\ T4!Init

Next == /\ UNCHANGED kind
        /\ \/ kind = "lh" /\ LH!Next
           \/ kind = "rb" /\ RB!Next
           \/ kind = "ll" /\ LL!Next
           \/ kind = "pl" /\ PL!Next
           \/ kind = "hn" /\ HN!Next
           \/ kind = "ch" /\ CH!Next
           \/ kind = "mi" /\ MI!Next
           \/ kind = "ma" /\ MA!Next
           \/ kind = "lt" /\ LT!Next
           \/ kind = "rt" /\ RT!Next
           \/ kind = "al" /\ AL!Next
           \/ kind = "sp" /\ SP!Next
           \/ kind = "rg" /\ RG!Next
           \/ kind = "ta" /\ TA!Next
           \/ kind = "or" /\ OR!Next
           \/ kind = "ob" /\ OB!Next
           \/ kind = "t1" /\ T1!Next
           \/ kind = "t2" /\ T2!Next
           \/ kind = "t3" /\ T3!Next
           \/ kind = "t4" /\ T4!Next

Spec == Init /\ [][Next]_vars

(* Threads of the hash table run the same code: the view counts the threads   *)
(* in each state.                                                             *)
Crowd == LET states == {obj.t[t] : t \in 1 .. 2} IN
         {<<s, Cardinality({t \in 1 .. 2 : obj.t[t] = s})>> : s \in states}

(* States that differ in node addresses, in bytes or tags nothing reads, or   *)
(* in the last answer are the same.                                           *)
View == <<kind, CASE kind = "rb" -> <<RB!Shape(obj, obj.root), obj.n[RB!Up(obj, 0)].key>>
                  [] kind = "ch" -> <<obj.b, {i \in 0 .. 15 : obj.own[i] # 0}, Crowd>>
                  [] kind = "sp" -> SP!Shape(obj)
                  [] kind = "rg" -> RG!Shape
                  [] kind = "ta" -> <<[p \in {1, 2} |-> TA!SP!Shape(obj.page[p])],
                                      obj.pol, obj.undo, obj.state>>
                  [] kind \in {"t1", "t2", "t3", "t4"} -> T1!Shape
                  [] OTHER -> obj, obj = obj>>
-----------------------------------------------------------------------------
Dictionaries == {"lh", "rb", "ll", "pl", "hn", "ch", "mi", "ma"}

Padded(m) == [k \in 1 .. 6 |-> IF k \in DOMAIN m THEN m[k] ELSE None]
Map == CASE kind = "lh" -> Padded(LH!Contents)
         [] kind = "rb" -> Padded(RB!Contents)
         [] kind = "ll" -> Padded(LL!Contents)
         [] kind = "pl" -> Padded(PL!Contents)
         [] kind = "hn" -> Padded(HN!Contents)
         [] kind = "ch" -> Padded(CH!Contents)
         [] kind = "mi" -> Padded(MI!Contents)
         [] kind = "ma" -> Padded(MA!Contents)
         [] OTHER -> Padded(<<>>)

D == INSTANCE Dictionary WITH
       Keys <- 1 .. 6, Values <- {1, 2},
       dict <- Map,
       saved <- IF kind = "hn" THEN Padded(HN!SavedContents) ELSE Padded(<<>>),
       call <- IF kind \in Dictionaries THEN call ELSE <<"create", None>>,
       ans <- IF kind \in Dictionaries THEN ans ELSE None



(* Space is never lost or shared, and a rollback finds the space it needs:    *)
(* slotted_check() holds on a page after any sequence of allocations, frees,  *)
(* compactions, redo and undo; the boundary tags of regions.c chain the page  *)
(* file both ways, the zoned regions are those that live transactions hold,   *)
(* and consolidation never eats a tag that an undo still uses; the pages of   *)
(* Talloc() hold exactly the records of committed and running transactions,   *)
(* the undo of a Tdealloc() finds its slot unused and room for the bytes, and *)
(* the policy's views follow from who allocated and freed where.              *)
SpaceSound ==
  /\ kind = "sp" => SP!PageSound
  /\ kind = "rg" => RG!RegionsSound /\ RG!UndoPossible
  /\ kind = "ta" => TA!RecordsExact /\ TA!RollbackFits /\ TA!ViewsExact

(* Calls answer right and touch their own only. rangeTracker.c names exactly  *)
(* the pages that become pinned and unpinned; growing an array (arrayList.c)  *)
(* moves no entry; lsmTree.c finds and iterates over exactly what was         *)
(* appended, also while it is appended to; an operation on a slotted page     *)
(* changes its own record, whatever it moves; walking the tags of regions.c   *)
(* finds each manager's regions in page order; and Talloc() gives a record id *)
(* that a running transaction freed to no other one.                          *)
AnswersExact ==
  [][/\ kind = "rt" => RT!AnswersExact
     /\ kind = "al" => AL!EntriesStay
     /\ kind = "lt" => LT!FindExact /\ LT!IterExact
     /\ kind = "sp" => SP!RecordsKept
     /\ kind = "rg" => RG!WalksExact
     /\ kind = "ta" => TA!NoEarlyReuse]_vars


=============================================================================
