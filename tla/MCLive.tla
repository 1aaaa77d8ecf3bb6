------------------------------- MODULE MCLive -------------------------------
(* The components in which threads wait for each other: the ring buffer,      *)
(* which has its own variables, and, side by side, the flushes of the dirty   *)
(* page table, group commit, the multiplexer and the reordering handle. Each  *)
(* behaviour runs one of them (kind).                                         *)
EXTENDS RingBuffer, FiniteSets, TLC

CONSTANTS None, w1, w2, c1, c2, f1

VARIABLES kind, obj, call, ans

others == <<obj, call, ans>>
all == <<kind, obj, call, ans, vars>>

DP == INSTANCE DirtyPageTable WITH Pages <- 1 .. 2, Full <- {1, 2}, Targeted <- {}, Ranged <- {},
                                   Range <- {}, Stride <- 1, HardLimit <- 1, MaxLsn <- 2
DR == INSTANCE DirtyPageTable WITH Pages <- 1 .. 2, Full <- {1}, Targeted <- {}, Ranged <- {4},
                                   Range <- {2}, Stride <- 1, HardLimit <- 1, MaxLsn <- 2
DT == INSTANCE DirtyPageTable WITH Pages <- 1 .. 2, Full <- {1}, Targeted <- {3}, Ranged <- {},
                                   Range <- {2}, Stride <- 2, HardLimit <- 1, MaxLsn <- 2
GF == INSTANCE GroupForce WITH Threads <- 1 .. 3, MaxLsn <- 5
MX == INSTANCE Multiplexer WITH Fifos <- 1 .. 2, Source <- <<1, 2, 1, 1, 2>>, Readers <- {1},
                                Cleaners <- {11, 12}, MaxPtrs <- 2, MaxDirty <- 2
RA == INSTANCE Reordering WITH Writers <- {1, 2}, Flushers <- {}, Closing <- FALSE,
                               ChunkLen <- 2, MaxLen <- 2, MaxSize <- 3, MaxOps <- 6

InitRing == Init /\ kind = "ring" /\ obj = None /\ call = None /\ ans = None
NextRing == kind = "ring" /\ Next /\ UNCHANGED <<kind, others>>
RingSpec == InitRing /\ [][NextRing]_all

(* Writers run the same code on private state, and so do consumers; used      *)
(* where no liveness is checked.                                              *)
Symmetry == Permutations({w1, w2}) \cup Permutations({c1, c2})
-----------------------------------------------------------------------------
InitAll == \/ InitRing
           \/ /\ Init
              /\ \/ kind = "dp" /\ DP!Init
                 \/ kind = "dr" /\ DR!Init
                 \/ kind = "dt" /\ DT!Init
                 \/ kind = "gf" /\ GF!Init
                 \/ kind = "mx" /\ MX!Init
                 \/ kind = "ra" /\ RA!Init

NextAll == \/ NextRing
           \/ /\ UNCHANGED <<kind, vars>>
              /\ \/ kind = "dp" /\ DP!Next
                 \/ kind = "dr" /\ DR!Next
                 \/ kind = "dt" /\ DT!Next
                 \/ kind = "gf" /\ GF!Next
                 \/ kind = "mx" /\ MX!Next
                 \/ kind = "ra" /\ RA!Next

(* The fair steps of the i-th thread of the component that runs: those of    *)
(* RingBuffer's Fairness; threads that are neither waiting nor between calls  *)
(* go on, those that wait with a timeout are woken by it, and pages that were *)
(* pinned are released.                                                       *)
RingThread(i) ==
  CASE i = 1 -> WriterStep(w1)
    [] i = 2 -> WriterStep(w2)
    [] i = 3 -> ConsumerStep(c1)
    [] i = 4 -> FlushAgain(f1)
    [] i = 5 -> ShutdownAgain \/ ShutdownReturn

Thread(i) ==
  CASE kind = "dp" -> \/ i \in {1, 2} /\ (DP!FlusherStep(i) \/ DP!Again(i))
                      \/ i \in {4, 5} /\ DP!Unpin(i - 3)
    [] kind = "dr" -> \/ i \in {1, 4} /\ (DR!FlusherStep(i) \/ DR!Again(i))
                      \/ i \in {2, 3} /\ DR!Unpin(i - 1)
    [] kind = "dt" -> \/ i \in {1, 3} /\ (DT!FlusherStep(i) \/ DT!Again(i))
                      \/ i \in {4, 5} /\ DT!Unpin(i - 3)
    [] kind = "gf" -> i \in 1 .. 3 /\ GF!Step(i)
    [] kind = "mx" -> i \in 1 .. 4 /\ MX!Step(<<MX!Worker, 1, 11, 12>>[i])
    [] kind = "ra" -> \/ i \in {1, 2} /\ RA!Step(i)
                      \/ i = 3 /\ RA!Worker

Fair == \A i \in 1 .. 5 :
          WF_all(IF kind = "ring" THEN RingThread(i) /\ UNCHANGED <<kind, others>>
                                  ELSE Thread(i) /\ UNCHANGED <<kind, vars>>)

LiveSpec == /\ InitAll
            /\ [][NextAll]_all
            /\ Fair
-----------------------------------------------------------------------------
(* A thread is inside a call that may wait.                                   *)
Waits == CASE kind = "dp" -> DP!Flushing(1)
           [] kind = "dr" -> DR!Flushing(4)
           [] kind = "dt" -> DT!Flushing(3)
           [] kind = "gf" -> GF!Forcing(1)
           [] kind = "ra" -> RA!Updating(1)
           [] kind = "mx" -> ~MX!AllDone
           [] kind = "ring" -> FALSE

(* dirtyPageTable.c: a flush of everything or with a target returns, although *)
(* wake-ups are missed and pages are pinned and dirtied all the time, and a   *)
(* flush of a range does when its pages come to rest. groupForce.c: a commit  *)
(* that waits for others returns. reorderingHandle.c: an update that waits    *)
(* for room gets it. multiplexer.c: every thread finishes when the source     *)
(* ends.                                                                      *)
CallsReturn == <>[](kind = "dr" => ~obj.pinned[2]) => (Waits ~> ~Waits)

(* What a call that waited promises when it returns. dirtyPageTable.c: each   *)
(* page that was dirty when the flush was called has been written or found    *)
(* busy since, and after a flush with a target no page is older than it.      *)
(* groupForce.c: the commit record is stable, on the early return, after a    *)
(* broadcast and after a timeout that raced with one.                         *)
ReturnsKept ==
  [][/\ kind = "dp" => DP!FlushCovers
     /\ kind = "dr" => DR!FlushCovers
     /\ kind = "dt" => DT!TargetReached
     /\ kind = "gf" => GF!ForcedOnReturn]_all

(* The counts that decide who waits are exact: pendingCommits of groupForce.c *)
(* on every path, and the pool of multiplexer.c, whose fifos hand out every   *)
(* tuple once and in order; reorderingHandle.c logs updates in order.         *)
WaitsExact ==
  /\ kind = "gf" => GF!PendingExact
  /\ kind = "mx" => MX!TakenOnce /\ MX!SlotsExact
  /\ kind = "ra" => RA!LogOrder
=============================================================================
