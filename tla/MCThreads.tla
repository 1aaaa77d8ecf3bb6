----------------------------- MODULE MCThreads -----------------------------
(* The components whose threads share state, side by side: each behaviour     *)
(* runs one of them (kind). The transaction table has its own variables; the  *)
(* others share obj, call and ans.                                            *)
EXTENDS TransactionTable, Sequences

CONSTANTS None

VARIABLES kind, obj, call, ans

others == <<obj, call, ans>>
all == <<kind, obj, call, ans, vars>>

UninitializedLSN == {-1, 0}

BH == INSTANCE BufferHash WITH Threads <- 1 .. 2, Pages <- 1 .. 3, Size <- 2,
                               NeedFlush <- 1, Versions <- 2, Sequential <- FALSE
LM == INSTANCE LockManager WITH Xids <- 1 .. 3, Names <- {1, 2}
LB == INSTANCE LegacyBuffer WITH Uses <- <<<<4, 4, 0, 1, 3, 1, 2>>, <<0, 4>>>>, Written <- {0},
                                 Pages <- 0 .. 4, Frames <- 1 .. 5, Size <- 4, Warm <- 4
LC == INSTANCE LegacyBuffer WITH Uses <- <<<<1, 2, 3>>, <<3, 2>>>>, Written <- {2},
                                 Pages <- 0 .. 4, Frames <- 1 .. 5, Size <- 4, Warm <- 1
SK == INSTANCE SkipList WITH Threads <- 1 .. 2, Keys <- 1 .. 2, Levels <- 1 .. 2,
                             RSlots <- 9, Exits <- FALSE, MaxOps <- 3
SE == INSTANCE SkipList WITH Threads <- {1}, Keys <- 1 .. 2, Levels <- 1 .. 2,
                             RSlots <- 2, Exits <- TRUE, MaxOps <- 4
NB == INSTANCE NonBlocking WITH Threads <- 1 .. 2, Blocks <- 0 .. 1, Values <- {1, 2},
                                MaxFast <- 2, MaxBuf <- 10
FH == INSTANCE FileHandle WITH Threads <- 1 .. 2, HandleOf <- <<1, 1>>, Positioned <- FALSE,
                               Blocks <- 0 .. 1, Size <- 2, Values <- {1, 2}
FD == INSTANCE FileHandle WITH Threads <- 1 .. 2, HandleOf <- <<1, 2>>, Positioned <- FALSE,
                               Blocks <- {0}, Size <- 2, Values <- {1}
PF == INSTANCE FileHandle WITH Threads <- 1 .. 2, HandleOf <- <<1, 1>>, Positioned <- TRUE,
                               Blocks <- 0 .. 1, Size <- 2, Values <- {1, 2}
SW == INSTANCE SafeWrites WITH Threads <- 1 .. 2, Soft <- FALSE, OSync <- TRUE,
                               MaxLsn <- 5, MaxCrashes <- 1
SS == INSTANCE SafeWrites WITH Threads <- {1}, Soft <- TRUE, OSync <- FALSE,
                               MaxLsn <- 6, MaxCrashes <- 2
FA == INSTANCE FilePool WITH Writers <- 1 .. 2, Readers <- {}, Truncators <- {}, Target <- 8,
                             Ring <- 7, Batch <- 3, Reordered <- TRUE, MaxOffset <- 10,
                             MaxRestarts <- 1
FB == INSTANCE FilePool WITH Writers <- {1}, Readers <- {}, Truncators <- {2}, Target <- 8,
                             Ring <- 7, Batch <- 5, Reordered <- TRUE, MaxOffset <- 16,
                             MaxRestarts <- 0
FC == INSTANCE FilePool WITH Writers <- {1}, Readers <- {1}, Truncators <- {1}, Target <- 5,
                             Ring <- 4, Batch <- 3, Reordered <- TRUE, MaxOffset <- 10,
                             MaxRestarts <- 1
IM == INSTANCE InMemoryLog WITH Threads <- 1 .. 2, Len0 <- 3, MaxLen <- 3, MaxLsn <- 6,
                                MaxBlocks <- 3
RO == INSTANCE Reordering WITH Writers <- {1, 2}, Flushers <- {2, 3}, Closing <- TRUE,
                               ChunkLen <- 2, MaxLen <- 3, MaxSize <- 3, MaxOps <- 6
L1 == INSTANCE LogMemory WITH Producers <- {1}, Readers <- {2, 3}, Size <- 4,
                              Lens <- <<1, 3, 2, 3, 1>>
L2 == INSTANCE LogMemory WITH Producers <- {1, 2}, Readers <- {3}, Size <- 4,
                              Lens <- <<1, 1, 1, 1, 1>>
-----------------------------------------------------------------------------
InitAll ==
  /\ Init
  /\ \/ kind = "xt" /\ obj = None /\ call = None /\ ans = None
     \/ /\ \A i \in Xids : recLSN[i] = 0
        /\ \/ kind = "bh" /\ BH!Init
           \/ kind = "lm" /\ LM!Init
           \/ kind = "lb" /\ LB!Init
           \/ kind = "lc" /\ LC!Init
           \/ kind = "sk" /\ SK!Init
           \/ kind = "se" /\ SE!Init
           \/ kind = "nb" /\ NB!Init
           \/ kind = "fh" /\ FH!Init
           \/ kind = "fd" /\ FD!Init
           \/ kind = "pf" /\ PF!Init
           \/ kind = "sw" /\ SW!Init
           \/ kind = "ss" /\ SS!Init
           \/ kind = "fa" /\ FA!Init
           \/ kind = "fb" /\ FB!Init
           \/ kind = "fc" /\ FC!Init
           \/ kind = "im" /\ IM!Init
           \/ kind = "ro" /\ RO!Init
           \/ kind = "l1" /\ L1!Init
           \/ kind = "l2" /\ L2!Init

NextAll ==
  /\ UNCHANGED kind
  /\ \/ kind = "xt" /\ Next /\ UNCHANGED others
     \/ /\ kind # "xt" /\ UNCHANGED vars
        /\ \/ kind = "bh" /\ BH!Next
           \/ kind = "lm" /\ LM!Next
           \/ kind = "lb" /\ LB!Next
           \/ kind = "lc" /\ LC!Next
           \/ kind = "sk" /\ SK!Next
           \/ kind = "se" /\ SE!Next
           \/ kind = "nb" /\ NB!Next
           \/ kind = "fh" /\ FH!Next
           \/ kind = "fd" /\ FD!Next
           \/ kind = "pf" /\ PF!Next
           \/ kind = "sw" /\ SW!Next
           \/ kind = "ss" /\ SS!Next
           \/ kind = "fa" /\ FA!Next
           \/ kind = "fb" /\ FB!Next
           \/ kind = "fc" /\ FC!Next
           \/ kind = "im" /\ IM!Next
           \/ kind = "ro" /\ RO!Next
           \/ kind = "l1" /\ L1!Next
           \/ kind = "l2" /\ L2!Next

SpecAll == InitAll /\ [][NextAll]_all

(* The transaction table up to the names of the threads, which run the same   *)
(* code: how many of them are in each state.                                  *)
Local(t) == <<pc[t], todo[t], index[t], entries[t], t \in registered>>
Table == <<slots, activeCount, open, nextLSN, scan,
           {<<Local(t), Cardinality({u \in Threads : Local(u) = Local(t)})>> : t \in Threads}>>

(* The skip list with its two threads exchanged.                              *)
Other(t) == IF t = 0 THEN 0 ELSE 3 - t
Exchanged == [obj EXCEPT !.t = <<@[2], @[1]>>,
                         !.node = [p \in DOMAIN @ |-> [@[p] EXCEPT
                                     !.lm = Other(@), !.fm = [i \in DOMAIN @ |-> Other(@[i])]]]]

(* The buffer manager of bufferHash.c, which remembers no thread by its name: *)
(* how many of them are in each state.                                        *)
Cursors == <<[obj EXCEPT !.t = 0],
             {<<obj.t[t], Cardinality({u \in DOMAIN obj.t : obj.t[u] = obj.t[t]})>> :
               t \in DOMAIN obj.t}>>

(* States that differ in names of threads, frames or subordinates, in values  *)
(* that nothing compares, or in the last answer are the same; see each Shape. *)
View ==
  <<kind,
    CASE kind = "xt" -> Table
      [] kind \in {"lb", "lc"} -> LB!Shape
      [] kind = "bh" -> Cursors
      [] kind = "sk" -> {obj, Exchanged}
      [] kind = "nb" -> NB!Shape
      [] kind = "fh" -> FH!Shape
      [] kind = "fd" -> FD!Shape
      [] kind = "pf" -> PF!Shape
      [] kind \in {"fa", "fc"} -> FA!Shape
      [] OTHER -> obj>>
-----------------------------------------------------------------------------
(* What threads share is consistent whenever nobody holds its lock.           *)
(* bufferHash.c: its table, its LRU list and the pins agree, and a page that  *)
(* is not dirty is on disk as it was last written. lockManager.c: a write     *)
(* lock is held alone and the counters are those of holders and waiters.      *)
(* The legacy buffer manager: a pinned frame keeps its page, no page is in    *)
(* two frames, and the queues keep their lengths. concurrentSkipList.h: the   *)
(* list holds what was inserted and not deleted, and counts are exact.        *)
(* non_blocking.c: pins, counters and handle pools add up.                    *)
SharedSound ==
  /\ kind = "bh" => BH!CacheSound /\ BH!LatestRead
  /\ kind = "lm" => LM!LocksExact
  /\ kind = "lb" => LB!PinnedKept /\ LB!QueuesExact
  /\ kind = "lc" => LC!PinnedKept /\ LC!QueuesExact
  /\ kind = "sk" => SK!ListExact /\ SK!RefsExact
  /\ kind = "se" => SE!ListExact /\ SE!RefsExact
  /\ kind = "nb" => NB!NodesSound


(* The logs and queues keep what they were given. safeWrites.c: entries that  *)
(* were forced survive truncations and crashes, each at the place its LSN     *)
(* says. filePool.c: every stable entry is whole in the chunk in which a      *)
(* reader looks for it. inMemoryLog.c frees no entry that is in use.          *)
(* reorderingHandle.c logs updates once, in order, and keeps the pages of the *)
(* others pinned. logMemory.c: producers and readers never wait for each      *)
(* other.                                                                     *)
LogsSound ==
  /\ kind = "sw" => SW!ForcedKept /\ SW!LogExact
  /\ kind = "ss" => SS!ForcedKept /\ SS!LogExact
  /\ kind \in {"fa", "fb"} => FA!StablePlaced
  /\ kind = "fc" => FC!StablePlaced
  /\ kind = "im" => IM!EntryLives
  /\ kind = "ro" => RO!LogOrder
  /\ kind \in {"l1", "l2"} => L1!NoDeadlock

=============================================================================
