-------------------------- MODULE TransactionTable --------------------------
(***************************************************************************)
(* The transaction table of src/stasis/transactionTable.c: MaxTransactions *)
(* slots that threads claim by compare-and-swap, first among the slots     *)
(* they reserved earlier and then in the global pool, and that the log     *)
(* truncation thread scans without a lock.  A slot's index is the xid of   *)
(* the transaction in it.  Each action is one atomic memory operation, or  *)
(* one with the accesses next to it that no other thread can observe.      *)
(***************************************************************************)
EXTENDS Integers, FiniteSets, TLAPS

CONSTANTS Threads,
          MaxTransactions,
          Prepared,    \* transactions that recovery left prepared
          Garbage,     \* what malloc leaves in a slot's recLSN and prevLSN
          MaxLSN       \* bound: the log stops at this LSN

INVALID_XID == -1
PENDING_XID == -2
RESERVED_XID == -3
INVALID_LSN == -1
LSN_T_MAX == MaxLSN + 1

Xids == 0..(MaxTransactions - 1)
NoXid == MaxTransactions

ASSUME TableAssumption == MaxTransactions \in Nat /\ Prepared \subseteq Xids
ASSUME LSNAssumption == MaxLSN \in Nat /\ Garbage \subseteq Int

VARIABLES xid, xidWhenFree,  \* the fields of a slot
          recLSN, prevLSN,
          entries,           \* thread -> the slots in its local state
          registered,        \* threads that have local state
          activeCount,       \* tbl->active_count
          pc, todo, index,   \* threads: control, slots to probe, slot found
          open,              \* xids handed to a caller and not yet ended
          nextLSN,
          scanAt, scanXid, scanMin, \* stasis_transaction_table_minRecLSN
          due                \* recLSNs that the running scan has to honour

slots == <<xid, xidWhenFree, recLSN, prevLSN>>
scan == <<scanAt, scanXid, scanMin, due>>
vars == <<xid, xidWhenFree, recLSN, prevLSN, entries, registered, activeCount,
          pc, todo, index, open, nextLSN, scanAt, scanXid, scanMin, due>>

(* stasis_transaction_table_init sets every field but the LSNs; recovery   *)
(* leaves the prepared transactions active and owned by no thread.         *)
Init ==
  /\ xid = [i \in Xids |-> IF i \in Prepared THEN i ELSE INVALID_XID]
  /\ xidWhenFree = [i \in Xids |-> INVALID_XID]
  /\ recLSN \in [Xids -> Garbage]
  /\ \A i \in Prepared : recLSN[i] = 0
  /\ prevLSN = [i \in Xids |-> recLSN[i]]
  /\ entries = [t \in Threads |-> {}]
  /\ registered = {}
  /\ activeCount = 0
  /\ pc = [t \in Threads |-> "idle"]
  /\ todo = [t \in Threads |-> {}]
  /\ index = [t \in Threads |-> NoXid]
  /\ open = Prepared
  /\ nextLSN = 1
  /\ scanAt = MaxTransactions /\ scanXid = INVALID_XID
  /\ scanMin = LSN_T_MAX /\ due = {}

-----------------------------------------------------------------------------
(* stasis_transaction_table_begin: a thread's first call makes its local   *)
(* state; the fast path then probes the slots it holds.                    *)
Begin(t) ==
  /\ pc[t] = "idle"
  /\ registered' = registered \cup {t}
  /\ activeCount' = IF t \in registered THEN activeCount ELSE activeCount + 1
  /\ pc' = [pc EXCEPT ![t] = "fast"]
  /\ todo' = [todo EXCEPT ![t] = entries[t]]
  /\ UNCHANGED <<slots, entries, index, open, nextLSN, scan>>

FastProbe(t, i) ==
  /\ pc[t] = "fast" /\ i \in todo[t]
  /\ IF xid[i] = RESERVED_XID
     THEN /\ xid' = [xid EXCEPT ![i] = PENDING_XID]
          /\ index' = [index EXCEPT ![t] = i]
          /\ pc' = [pc EXCEPT ![t] = "found"]
          /\ todo' = [todo EXCEPT ![t] = {}]
     ELSE /\ todo' = [todo EXCEPT ![t] = @ \ {i}]
          /\ UNCHANGED <<xid, index, pc>>
  /\ UNCHANGED <<xidWhenFree, recLSN, prevLSN, entries, registered,
                 activeCount, open, nextLSN, scan>>

FastMiss(t) ==
  /\ pc[t] = "fast" /\ todo[t] = {}
  /\ pc' = [pc EXCEPT ![t] = "slow"]
  /\ todo' = [todo EXCEPT ![t] = Xids]
  /\ UNCHANGED <<slots, entries, registered, activeCount, index, open,
                 nextLSN, scan>>

(* Faulty variants: any negative xid is taken for a free slot; a slot      *)
(* reserved by another thread is.                                          *)
SlowProbeAnyFree(t, i) ==
  /\ pc[t] = "slow" /\ i \in todo[t] /\ \A j \in todo[t] : i <= j
  /\ IF xid[i] < 0
     THEN /\ xid' = [xid EXCEPT ![i] = PENDING_XID]
          /\ entries' = [entries EXCEPT ![t] = @ \cup {i}]
          /\ xidWhenFree' = [xidWhenFree EXCEPT ![i] = RESERVED_XID]
          /\ index' = [index EXCEPT ![t] = i]
          /\ pc' = [pc EXCEPT ![t] = "found"]
          /\ todo' = [todo EXCEPT ![t] = {}]
     ELSE /\ todo' = [todo EXCEPT ![t] = @ \ {i}]
          /\ UNCHANGED <<xid, entries, xidWhenFree, index, pc>>
  /\ UNCHANGED <<recLSN, prevLSN, registered, activeCount, open, nextLSN,
                 scan>>

SlowProbeReserved(t, i) ==
  /\ pc[t] = "slow" /\ i \in todo[t] /\ \A j \in todo[t] : i <= j
  /\ IF xid[i] \in {INVALID_XID, RESERVED_XID}
     THEN /\ xid' = [xid EXCEPT ![i] = PENDING_XID]
          /\ entries' = [entries EXCEPT ![t] = @ \cup {i}]
          /\ xidWhenFree' = [xidWhenFree EXCEPT ![i] = RESERVED_XID]
          /\ index' = [index EXCEPT ![t] = i]
          /\ pc' = [pc EXCEPT ![t] = "found"]
          /\ todo' = [todo EXCEPT ![t] = {}]
     ELSE /\ todo' = [todo EXCEPT ![t] = @ \ {i}]
          /\ UNCHANGED <<xid, entries, xidWhenFree, index, pc>>
  /\ UNCHANGED <<recLSN, prevLSN, registered, activeCount, open, nextLSN,
                 scan>>

(* The slow path probes the whole table in order, and keeps what it finds. *)
SlowProbe(t, i) ==
  /\ pc[t] = "slow" /\ i \in todo[t] /\ \A j \in todo[t] : i <= j
  /\ IF xid[i] = INVALID_XID
     THEN /\ xid' = [xid EXCEPT ![i] = PENDING_XID]
          /\ entries' = [entries EXCEPT ![t] = @ \cup {i}]
          /\ xidWhenFree' = [xidWhenFree EXCEPT ![i] = RESERVED_XID]
          /\ index' = [index EXCEPT ![t] = i]
          /\ pc' = [pc EXCEPT ![t] = "found"]
          /\ todo' = [todo EXCEPT ![t] = {}]
     ELSE /\ todo' = [todo EXCEPT ![t] = @ \ {i}]
          /\ UNCHANGED <<xid, entries, xidWhenFree, index, pc>>
  /\ UNCHANGED <<recLSN, prevLSN, registered, activeCount, open, nextLSN,
                 scan>>

(* LLADD_EXCEED_MAX_TRANSACTIONS.                                          *)
BeginFails(t) ==
  /\ pc[t] = "slow" /\ todo[t] = {}
  /\ pc' = [pc EXCEPT ![t] = "idle"]
  /\ UNCHANGED <<slots, entries, registered, activeCount, todo, index, open,
                 nextLSN, scan>>

(* stasis_log_begin_transaction publishes the xid before it resets the     *)
(* LSNs that the slot's last transaction left behind.                      *)
PublishXid(t) ==
  /\ pc[t] = "found"
  /\ xid' = [xid EXCEPT ![index[t]] = index[t]]
  /\ pc' = [pc EXCEPT ![t] = "published"]
  /\ UNCHANGED <<xidWhenFree, recLSN, prevLSN, entries, registered,
                 activeCount, todo, index, open, nextLSN, scan>>

ResetLSNs(t) ==
  /\ pc[t] = "published"
  /\ prevLSN' = [prevLSN EXCEPT ![index[t]] = INVALID_LSN]
  /\ recLSN' = [recLSN EXCEPT ![index[t]] = INVALID_LSN]
  /\ open' = open \cup {index[t]}
  /\ index' = [index EXCEPT ![t] = NoXid]
  /\ pc' = [pc EXCEPT ![t] = "idle"]
  /\ UNCHANGED <<xid, xidWhenFree, entries, registered, activeCount, todo,
                 nextLSN, scan>>

-----------------------------------------------------------------------------
(* Faulty variant: every record moves the recLSN.                          *)
LogRecordEvery(i) ==
  /\ i \in open /\ nextLSN <= MaxLSN
  /\ recLSN' = [recLSN EXCEPT ![i] = nextLSN]
  /\ prevLSN' = [prevLSN EXCEPT ![i] = nextLSN]
  /\ nextLSN' = nextLSN + 1
  /\ UNCHANGED <<xid, xidWhenFree, entries, registered, activeCount, pc, todo,
                 index, open, scan>>

(* The end of stasis_log_write_update: the first record of a transaction   *)
(* sets its recLSN.                                                        *)
LogRecord(i) ==
  /\ i \in open /\ nextLSN <= MaxLSN
  /\ recLSN' = IF prevLSN[i] = INVALID_LSN THEN [recLSN EXCEPT ![i] = nextLSN]
               ELSE recLSN
  /\ prevLSN' = [prevLSN EXCEPT ![i] = nextLSN]
  /\ nextLSN' = nextLSN + 1
  /\ UNCHANGED <<xid, xidWhenFree, entries, registered, activeCount, pc, todo,
                 index, open, scan>>

(* stasis_transaction_table_commit overwrites the slot; forget, which ends *)
(* an abort, swaps it.  Whichever thread runs the transaction may call.    *)
Commit(i) ==
  /\ i \in open
  /\ xid' = [xid EXCEPT ![i] = xidWhenFree[i]]
  /\ open' = open \ {i}
  /\ due' = {d \in due : d[1] # i}
  /\ UNCHANGED <<xidWhenFree, recLSN, prevLSN, entries, registered,
                 activeCount, pc, todo, index, nextLSN, scanAt, scanXid,
                 scanMin>>

Forget(i) ==
  /\ i \in open
  /\ xid' = IF xid[i] = i THEN [xid EXCEPT ![i] = xidWhenFree[i]] ELSE xid
  /\ open' = open \ {i}
  /\ due' = {d \in due : d[1] # i}
  /\ UNCHANGED <<xidWhenFree, recLSN, prevLSN, entries, registered,
                 activeCount, pc, todo, index, nextLSN, scanAt, scanXid,
                 scanMin>>

-----------------------------------------------------------------------------
(* stasis_transaction_table_thread_destructor: gives the reserved slots    *)
(* back to the global pool, one by one.                                    *)
ThreadExit(t) ==
  /\ pc[t] = "idle" /\ t \in registered
  /\ pc' = [pc EXCEPT ![t] = "exiting"]
  /\ todo' = [todo EXCEPT ![t] = entries[t]]
  /\ UNCHANGED <<slots, entries, registered, activeCount, index, open,
                 nextLSN, scan>>

ReleaseEntry(t, i) ==
  /\ pc[t] = "exiting" /\ i \in todo[t]
  /\ xid' = IF xid[i] = RESERVED_XID
            THEN [xid EXCEPT ![i] = INVALID_XID] ELSE xid
  /\ todo' = [todo EXCEPT ![t] = @ \ {i}]
  /\ UNCHANGED <<xidWhenFree, recLSN, prevLSN, entries, registered,
                 activeCount, pc, index, open, nextLSN, scan>>

(* The local state is freed; t may later stand for another thread.         *)
Unregister(t) ==
  /\ pc[t] = "exiting" /\ todo[t] = {}
  /\ activeCount' = activeCount - 1
  /\ registered' = registered \ {t}
  /\ entries' = [entries EXCEPT ![t] = {}]
  /\ pc' = [pc EXCEPT ![t] = "idle"]
  /\ UNCHANGED <<slots, todo, index, open, nextLSN, scan>>

-----------------------------------------------------------------------------
(* stasis_transaction_table_minRecLSN: for each slot, read the xid, then   *)
(* the recLSN.  due remembers, for the property below, the transactions    *)
(* that have logged something when the scan starts and have not ended.     *)
ScanStart ==
  /\ scanAt = MaxTransactions
  /\ scanAt' = 0 /\ scanXid' = INVALID_XID /\ scanMin' = LSN_T_MAX
  /\ due' = {<<i, recLSN[i]>> : i \in {j \in open : recLSN[j] # INVALID_LSN}}
  /\ UNCHANGED <<slots, entries, registered, activeCount, pc, todo, index,
                 open, nextLSN>>

ScanXid ==
  /\ scanAt \in Xids /\ scanXid < 0
  /\ IF xid[scanAt] >= 0
     THEN scanXid' = xid[scanAt] /\ UNCHANGED scanAt
     ELSE scanAt' = scanAt + 1 /\ UNCHANGED scanXid
  /\ UNCHANGED <<slots, entries, registered, activeCount, pc, todo, index,
                 open, nextLSN, scanMin, due>>

ScanLSN ==
  /\ scanAt \in Xids /\ scanXid >= 0
  /\ scanMin' = IF recLSN[scanAt] # -1 /\ recLSN[scanAt] < scanMin
                THEN recLSN[scanAt] ELSE scanMin
  /\ scanAt' = scanAt + 1
  /\ scanXid' = INVALID_XID
  /\ UNCHANGED <<slots, entries, registered, activeCount, pc, todo, index,
                 open, nextLSN, due>>

-----------------------------------------------------------------------------
ThreadStep(t) ==
  \/ Begin(t) \/ FastMiss(t) \/ BeginFails(t) \/ PublishXid(t) \/ ResetLSNs(t)
  \/ \E i \in Xids : FastProbe(t, i) \/ SlowProbe(t, i) \/ ReleaseEntry(t, i)
  \/ ThreadExit(t) \/ Unregister(t)

Next ==
  \/ \E t \in Threads : ThreadStep(t)
  \/ \E i \in Xids : LogRecord(i) \/ Commit(i) \/ Forget(i)
  \/ ScanStart \/ ScanXid \/ ScanLSN

Spec == Init /\ [][Next]_vars

-----------------------------------------------------------------------------
(* Types: a slot's xid is a transaction or one of the three marks, and a   *)
(* thread's pool is a set of slots.                                        *)
TypeOK ==
  /\ xid \in [Xids -> Xids \cup {INVALID_XID, PENDING_XID, RESERVED_XID}]
  /\ xidWhenFree \in [Xids -> {INVALID_XID, RESERVED_XID}]
  /\ recLSN \in [Xids -> Int] /\ prevLSN \in [Xids -> Int]
  /\ entries \in [Threads -> SUBSET Xids]
  /\ registered \subseteq Threads
  /\ activeCount \in Int
  /\ pc \in [Threads -> {"idle", "fast", "slow", "found", "published",
                         "exiting"}]
  /\ todo \in [Threads -> SUBSET Xids]
  /\ index \in [Threads -> Xids \cup {NoXid}]
  /\ open \subseteq Xids
  /\ nextLSN \in Nat
  /\ scanAt \in Nat /\ scanXid \in Int /\ scanMin \in Int
  /\ due \subseteq Xids \X Int

Beginning(t) == pc[t] \in {"found", "published"}

(* "otherwise, more than one xact had this slot at once" (the assertion of *)
(* forget): a slot that a thread is initialising is not running a          *)
(* transaction and no other thread is initialising it, and a running       *)
(* transaction finds its own xid in its slot.                              *)
SlotExclusive ==
  /\ \A t \in Threads : Beginning(t) => index[t] \in Xids \ open
  /\ \A t, u \in Threads :
       t # u /\ Beginning(t) /\ Beginning(u) => index[t] # index[u]
  /\ \A i \in open : xid[i] = i

(* A slot is in the local state of one thread at most, although slots move *)
(* between the threads' pools and the global one without a lock.           *)
EntriesDisjoint ==
  \A t, u \in Threads : t # u => entries[t] \cap entries[u] \subseteq
    {i \in Xids : \/ pc[t] = "exiting" /\ i \notin todo[t]
                  \/ pc[u] = "exiting" /\ i \notin todo[u]}

(* The lock-free scan never misses a transaction: its result is at most    *)
(* the recLSN of each transaction that had logged a record when the scan   *)
(* began and is still running, so truncation keeps what an abort needs.    *)
ScanHonoursRunning ==
  \A d \in due : scanAt > d[1] => scanMin <= d[2]

-----------------------------------------------------------------------------
(* Proofs.  For any set of threads and any table size: a slot never has    *)
(* two users, and the lock-free scan of minRecLSN never misses a running   *)
(* transaction.                                                            *)

(* The slots that t can still claim on its fast path: all of its entries,  *)
(* until its destructor has given them back.                               *)
Held(t) == IF pc[t] = "exiting" THEN todo[t] ELSE entries[t]

(* A thread that initialises a slot left its own mark there.               *)
ClaimMarked ==
  \A t \in Threads :
    /\ pc[t] = "found" => index[t] \in Xids \ open /\ xid[index[t]] = PENDING_XID
    /\ pc[t] = "published" => index[t] \in Xids \ open /\ xid[index[t]] = index[t]

ClaimsApart ==
  \A t, u \in Threads :
    t # u /\ Beginning(t) /\ Beginning(u) => index[t] # index[u]

OpenMarked == \A i \in open : xid[i] = i

HeldDisjoint == \A t, u \in Threads : t # u => Held(t) \cap Held(u) = {}

(* A held slot does not look free to the slow path, nor will it when its   *)
(* transaction ends.                                                       *)
HeldReserved ==
  \A t \in Threads : \A i \in Held(t) :
    xid[i] # INVALID_XID /\ xidWhenFree[i] = RESERVED_XID

TodoHeld == \A t \in Threads : pc[t] = "exiting" => todo[t] \subseteq entries[t]

SlotInv == ClaimMarked /\ ClaimsApart /\ OpenMarked /\ HeldDisjoint
           /\ HeldReserved /\ TodoHeld

(* A recLSN that the running scan has to honour does not move.             *)
LSNsPaired == \A i \in open : recLSN[i] # INVALID_LSN => prevLSN[i] # INVALID_LSN

DueStable ==
  \A d \in due : d[1] \in open /\ recLSN[d[1]] = d[2] /\ d[2] # INVALID_LSN

ScanInv == LSNsPaired /\ DueStable /\ ScanHonoursRunning

IInv == TypeOK /\ SlotInv /\ ScanInv

-----------------------------------------------------------------------------
(* The table that init and recovery leave satisfies the invariant.         *)
LEMMA InitIInv == Init => IInv
<1> SUFFICES ASSUME Init PROVE IInv
  OBVIOUS
<1> USE TableAssumption, LSNAssumption DEF Init, Xids, NoXid, INVALID_XID,
        PENDING_XID, RESERVED_XID, INVALID_LSN, LSN_T_MAX
<1>1. TypeOK
  <2>1. /\ recLSN \in [Xids -> Int]
        /\ prevLSN \in [Xids -> Int]
    BY ZenonT(30)
  <2>2. open \subseteq Xids
    OBVIOUS
  <2> QED
    BY <2>1, <2>2 DEF TypeOK
<1>2. SlotInv
  BY DEF SlotInv, ClaimMarked, ClaimsApart, Beginning, OpenMarked, Held,
         HeldDisjoint, HeldReserved, TodoHeld
<1>3. ScanInv
  BY DEF ScanInv, LSNsPaired, DueStable, ScanHonoursRunning
<1> QED
  BY <1>1, <1>2, <1>3 DEF IInv

(* Every step keeps the fields within their types.                         *)
LEMMA TypeStep == TypeOK /\ SlotInv /\ Next => TypeOK'
<1> SUFFICES ASSUME TypeOK, SlotInv, Next PROVE TypeOK'
  OBVIOUS
<1> USE DEF slots, scan
<1>1. ASSUME NEW t \in Threads, ThreadStep(t) PROVE TypeOK'
  <2>1. CASE Begin(t)
    BY <2>1 DEF TypeOK, Begin
  <2>2. CASE FastMiss(t)
    BY <2>2 DEF TypeOK, FastMiss
  <2>3. CASE BeginFails(t)
    BY <2>3 DEF TypeOK, BeginFails
  <2>4. CASE PublishXid(t)
    BY <2>4 DEF TypeOK, PublishXid, SlotInv, ClaimMarked
  <2>5. CASE ResetLSNs(t)
    <3>1. index[t] \in Xids
      BY <2>5 DEF ResetLSNs, SlotInv, ClaimMarked
    <3> QED
      BY <2>5, <3>1 DEF TypeOK, ResetLSNs, INVALID_LSN
  <2>6. ASSUME NEW i \in Xids, FastProbe(t, i) PROVE TypeOK'
    <3>1. CASE xid[i] = RESERVED_XID
      BY <2>6, <3>1 DEF TypeOK, FastProbe
    <3>2. CASE xid[i] # RESERVED_XID
      BY <2>6, <3>2 DEF TypeOK, FastProbe
    <3> QED
      BY <3>1, <3>2
  <2>7. ASSUME NEW i \in Xids, SlowProbe(t, i) PROVE TypeOK'
    <3>1. CASE xid[i] = INVALID_XID
      BY <2>7, <3>1 DEF TypeOK, SlowProbe
    <3>2. CASE xid[i] # INVALID_XID
      BY <2>7, <3>2 DEF TypeOK, SlowProbe
    <3> QED
      BY <3>1, <3>2
  <2>8. ASSUME NEW i \in Xids, ReleaseEntry(t, i) PROVE TypeOK'
    <3>1. CASE xid[i] = RESERVED_XID
      BY <2>8, <3>1 DEF TypeOK, ReleaseEntry
    <3>2. CASE xid[i] # RESERVED_XID
      BY <2>8, <3>2 DEF TypeOK, ReleaseEntry
    <3> QED
      BY <3>1, <3>2
  <2>9. CASE ThreadExit(t)
    BY <2>9 DEF TypeOK, ThreadExit
  <2>10. CASE Unregister(t)
    BY <2>10 DEF TypeOK, Unregister
  <2> QED
    BY <1>1, <2>1, <2>2, <2>3, <2>4, <2>5, <2>6, <2>7, <2>8, <2>9, <2>10
       DEF ThreadStep
<1>2. ASSUME NEW i \in Xids, LogRecord(i) PROVE TypeOK'
  BY <1>2 DEF TypeOK, LogRecord
<1>3. ASSUME NEW i \in Xids, Commit(i) PROVE TypeOK'
  BY <1>3 DEF TypeOK, Commit
<1>4. ASSUME NEW i \in Xids, Forget(i) PROVE TypeOK'
  <2>1. xid' = [xid EXCEPT ![i] = xidWhenFree[i]]
    BY <1>4 DEF Forget, SlotInv, OpenMarked
  <2> QED
    BY <1>4, <2>1 DEF TypeOK, Forget
<1>5. CASE ScanStart
  <2>1. due' \subseteq Xids \X Int
    BY <1>5 DEF TypeOK, ScanStart
  <2>2. /\ scanAt' \in Nat
        /\ scanXid' \in Int
        /\ scanMin' \in Int
    BY <1>5, LSNAssumption DEF ScanStart, INVALID_XID, LSN_T_MAX
  <2> QED
    BY <1>5, <2>1, <2>2 DEF TypeOK, ScanStart
<1>6. CASE ScanXid
  <2>1. xid[scanAt] \in Int
    <3>1. xid[scanAt] \in Xids \cup {INVALID_XID, PENDING_XID, RESERVED_XID}
      BY <1>6 DEF TypeOK, ScanXid
    <3> QED
      BY <3>1, TableAssumption
         DEF Xids, INVALID_XID, PENDING_XID, RESERVED_XID
  <2>2. scanAt' \in Nat /\ scanXid' \in Int
    BY <1>6, <2>1 DEF TypeOK, ScanXid
  <2> QED
    BY <1>6, <2>2 DEF TypeOK, ScanXid
<1>7. CASE ScanLSN
  <2>1. scanMin' \in Int
    BY <1>7 DEF TypeOK, ScanLSN
  <2>2. scanAt' \in Nat
    BY <1>7 DEF TypeOK, ScanLSN
  <2> QED
    BY <1>7, <2>1, <2>2 DEF TypeOK, ScanLSN, INVALID_XID
<1> QED
  BY <1>1, <1>2, <1>3, <1>4, <1>5, <1>6, <1>7 DEF Next

-----------------------------------------------------------------------------
(* Five codes: the three statuses differ from each other and from an xid.  *)
LEMMA StatusesDiffer ==
  /\ INVALID_XID \notin Xids /\ PENDING_XID \notin Xids /\ RESERVED_XID \notin Xids
  /\ INVALID_XID # PENDING_XID /\ INVALID_XID # RESERVED_XID
  /\ PENDING_XID # RESERVED_XID
BY TableAssumption DEF Xids, INVALID_XID, PENDING_XID, RESERVED_XID

(* No thread's claim, and no thread's pool, is disturbed by another step.  *)
LEMMA SlotStep == TypeOK /\ SlotInv /\ Next => SlotInv'
<1> SUFFICES ASSUME TypeOK, SlotInv, Next PROVE SlotInv'
  BY SMTT(30)
<1> USE StatusesDiffer
    DEF slots, SlotInv, ClaimMarked, ClaimsApart, Beginning, OpenMarked,
        HeldDisjoint, HeldReserved, TodoHeld, Held
<1>1. ASSUME NEW t \in Threads, ThreadStep(t) PROVE SlotInv'
  <2>1. CASE Begin(t)
    BY <2>1 DEF TypeOK, Begin
  <2>2. CASE FastMiss(t)
    BY <2>2 DEF TypeOK, FastMiss
  <2>3. CASE BeginFails(t)
    BY <2>3 DEF TypeOK, BeginFails
  <2>4. CASE PublishXid(t)
    BY <2>4 DEF TypeOK, PublishXid
  <2>5. CASE ResetLSNs(t)
    BY <2>5 DEF TypeOK, ResetLSNs
  <2>6. ASSUME NEW i \in Xids, FastProbe(t, i) PROVE SlotInv'
    <3>1. CASE xid[i] = RESERVED_XID
      BY SMTT(30), <2>6, <3>1 DEF TypeOK, FastProbe
    <3>2. CASE xid[i] # RESERVED_XID
      BY <2>6, <3>2 DEF TypeOK, FastProbe
    <3> QED
      BY <3>1, <3>2
  <2>7. ASSUME NEW i \in Xids, SlowProbe(t, i) PROVE SlotInv'
    <3>1. CASE xid[i] = INVALID_XID
      <4>1. \A u \in Threads : u # t => i \notin Held(u)
        BY <2>7, <3>1
      <4>2. Held(t)' = Held(t) \cup {i} /\ \A u \in Threads : u # t => Held(u)' = Held(u)
        BY <2>7, <3>1 DEF TypeOK, SlowProbe
      <4>3. /\ xid' = [xid EXCEPT ![i] = PENDING_XID]
            /\ xidWhenFree' = [xidWhenFree EXCEPT ![i] = RESERVED_XID]
        BY <2>7, <3>1 DEF SlowProbe
      <4>4. HeldDisjoint'
        <5> HIDE DEF Held
        <5> QED
          BY <4>1, <4>2
      <4>5. HeldReserved'
        <5> HIDE DEF Held
        <5> QED
          BY <4>1, <4>2, <4>3 DEF TypeOK
      <4>6. ClaimMarked' /\ ClaimsApart' /\ OpenMarked'
        BY <2>7, <3>1 DEF TypeOK, SlowProbe
      <4>7. TodoHeld'
        BY <2>7, <3>1 DEF TypeOK, SlowProbe
      <4> QED
        BY SMTT(30), <4>4, <4>5, <4>6, <4>7
    <3>2. CASE xid[i] # INVALID_XID
      BY <2>7, <3>2 DEF TypeOK, SlowProbe
    <3> QED
      BY SMTT(30), <3>1, <3>2
  <2>8. ASSUME NEW i \in Xids, ReleaseEntry(t, i) PROVE SlotInv'
    <3>1. CASE xid[i] = RESERVED_XID
      BY <2>8, <3>1 DEF TypeOK, ReleaseEntry
    <3>2. CASE xid[i] # RESERVED_XID
      BY <2>8, <3>2 DEF TypeOK, ReleaseEntry
    <3> QED
      BY <3>1, <3>2
  <2>9. CASE ThreadExit(t)
    BY <2>9 DEF TypeOK, ThreadExit
  <2>10. CASE Unregister(t)
    BY <2>10 DEF TypeOK, Unregister
  <2> QED
    BY ZenonT(30), <1>1, <2>1, <2>2, <2>3, <2>4, <2>5, <2>6, <2>7, <2>8, <2>9, <2>10
       DEF ThreadStep
<1>2. ASSUME NEW i \in Xids, LogRecord(i) PROVE SlotInv'
  BY <1>2 DEF TypeOK, LogRecord
<1>3. ASSUME NEW i \in Xids, Commit(i) PROVE SlotInv'
  BY <1>3 DEF TypeOK, Commit
<1>4. ASSUME NEW i \in Xids, Forget(i) PROVE SlotInv'
  <2>1. xid' = [xid EXCEPT ![i] = xidWhenFree[i]]
    BY <1>4 DEF Forget
  <2> QED
    BY <1>4, <2>1 DEF TypeOK, Forget
<1>5. CASE ScanStart \/ ScanXid \/ ScanLSN
  BY <1>5 DEF ScanStart, ScanXid, ScanLSN
<1> QED
  BY <1>1, <1>2, <1>3, <1>4, <1>5 DEF Next

-----------------------------------------------------------------------------
(* A transaction that is due keeps its slot and its recLSN, so the scan    *)
(* finds both when it gets there.                                          *)
LEMMA ScanStep == IInv /\ Next => ScanInv'
<1> SUFFICES ASSUME IInv, Next PROVE ScanInv'
  OBVIOUS
<1> USE DEF IInv, slots, scan, ScanInv, LSNsPaired, DueStable, ScanHonoursRunning
<1>0. /\ \A i \in Xids : i \in Nat
      /\ INVALID_LSN = -1
  BY TableAssumption DEF Xids, INVALID_LSN
<1>1. ASSUME NEW t \in Threads, ThreadStep(t) PROVE ScanInv'
  <2>1. CASE ResetLSNs(t)
    <3>1. index[t] \in Xids \ open
      BY <2>1 DEF ResetLSNs, SlotInv, ClaimMarked
    <3> QED
      BY <2>1, <3>1 DEF TypeOK, ResetLSNs
  <2>2. CASE ~ResetLSNs(t)
    <3>1. UNCHANGED <<recLSN, prevLSN, open, scanAt, scanMin, due>>
      BY <1>1, <2>2 DEF ThreadStep, Begin, FastMiss, BeginFails, PublishXid,
         FastProbe, SlowProbe, ReleaseEntry, ThreadExit, Unregister
    <3> QED
      BY SMTT(30), <3>1
  <2> QED
    BY <2>1, <2>2
<1>2. ASSUME NEW i \in Xids, LogRecord(i) PROVE ScanInv'
  <2>1. \A j \in open : recLSN[j] # INVALID_LSN => recLSN'[j] = recLSN[j]
    BY <1>2 DEF TypeOK, LogRecord
  <2>2. LSNsPaired'
    BY <1>2, <1>0 DEF TypeOK, LogRecord
  <2> QED
    BY <1>2, <2>1, <2>2 DEF LogRecord
<1>3. ASSUME NEW i \in Xids, Commit(i) \/ Forget(i) PROVE ScanInv'
  BY <1>3 DEF Commit, Forget
<1>4. CASE ScanStart
  <2>1. \A d \in due' : d[1] \in open /\ d[2] = recLSN[d[1]] /\ d[2] # INVALID_LSN
    BY <1>4 DEF ScanStart
  <2>2. \A d \in due' : ~(scanAt' > d[1])
    BY <1>4, <1>0, <2>1 DEF TypeOK, ScanStart
  <2> QED
    BY <1>4, <2>1, <2>2 DEF ScanStart
<1>5. CASE ScanXid
  <2>1. UNCHANGED <<recLSN, prevLSN, open, due, scanMin>>
    BY <1>5 DEF ScanXid
  <2>2. ASSUME NEW d \in due, scanAt' > d[1] PROVE scanMin <= d[2]
    <3>1. d[1] \in Xids /\ d[1] \in Nat /\ xid[d[1]] = d[1]
      BY <1>0 DEF TypeOK, SlotInv, OpenMarked
    <3>2. d[1] # scanAt \/ scanAt' = scanAt
      BY <1>5, <3>1 DEF ScanXid
    <3>3. scanAt > d[1]
      BY <1>5, <2>2, <3>1, <3>2 DEF ScanXid, TypeOK
    <3> QED
      BY <3>3
  <2> QED
    BY <2>1, <2>2
<1>6. CASE ScanLSN
  <2>1. UNCHANGED <<recLSN, prevLSN, open, due>>
    BY <1>6 DEF ScanLSN
  <2>2. ASSUME NEW d \in due, scanAt' > d[1] PROVE scanMin' <= d[2]
    <3>1. d[1] \in Nat /\ d[2] \in Int /\ recLSN[d[1]] = d[2] /\ d[2] # -1
      BY <1>0 DEF TypeOK
    <3>2. scanMin' <= scanMin /\ scanMin \in Int /\ scanMin' \in Int
      BY <1>6 DEF ScanLSN, TypeOK
    <3>3. scanAt > d[1] \/ scanAt = d[1]
      BY <1>6, <2>2, <3>1 DEF ScanLSN, TypeOK
    <3>4. CASE scanAt > d[1]
      BY <3>1, <3>2, <3>4
    <3>5. CASE scanAt = d[1]
      BY <1>6, <3>1, <3>2, <3>5 DEF ScanLSN
    <3> QED
      BY <3>3, <3>4, <3>5
  <2> QED
    BY <2>1, <2>2
<1> QED
  BY <1>1, <1>2, <1>3, <1>4, <1>5, <1>6 DEF Next

-----------------------------------------------------------------------------
(* The invariant of the transaction table holds in every state.            *)
LEMMA IInvHolds == Spec => []IInv
<1>1. IInv /\ UNCHANGED vars => IInv'
  BY DEF vars, IInv, TypeOK, SlotInv, ClaimMarked, ClaimsApart, Beginning,
         OpenMarked, Held, HeldDisjoint, HeldReserved, TodoHeld, ScanInv,
         LSNsPaired, DueStable, ScanHonoursRunning
<1>2. IInv /\ [Next]_vars => IInv'
  BY <1>1, TypeStep, SlotStep, ScanStep DEF IInv
<1> QED
  BY InitIInv, <1>2, PTL DEF Spec

(* For every number of threads and slots, with threads that exit whether   *)
(* or not their transactions run: no slot ever has two users, and the      *)
(* assertion of stasis_transaction_table_forget cannot fail.               *)
THEOREM SlotsSafe == Spec => [](TypeOK /\ SlotExclusive)
<1>1. IInv => SlotExclusive
  BY DEF IInv, SlotInv, SlotExclusive, ClaimMarked, ClaimsApart, Beginning,
         OpenMarked
<1>2. IInv => TypeOK
  BY DEF IInv
<1> QED
  BY IInvHolds, <1>1, <1>2, PTL

(* And no slot is in the local state of two threads, although an exiting   *)
(* thread gives its slots back one by one while others claim them.         *)
THEOREM EntriesApart == Spec => []EntriesDisjoint
<1>1. IInv => EntriesDisjoint
  <2> SUFFICES ASSUME IInv, NEW t \in Threads, NEW u \in Threads, t # u,
                      NEW i \in entries[t] \cap entries[u]
               PROVE \/ pc[t] = "exiting" /\ i \notin todo[t]
                     \/ pc[u] = "exiting" /\ i \notin todo[u]
    BY DEF EntriesDisjoint, IInv, TypeOK
  <2> QED
    BY DEF IInv, SlotInv, HeldDisjoint, Held
<1> QED
  BY IInvHolds, <1>1, PTL

(* For every number of threads and slots, the scan that the truncation     *)
(* thread runs without a lock returns at most the recLSN of every          *)
(* transaction that had logged when the scan began and still runs.         *)
THEOREM ScanSafe == Spec => []ScanHonoursRunning
<1>1. IInv => ScanHonoursRunning
  BY DEF IInv, ScanInv
<1> QED
  BY IInvHolds, <1>1, PTL
=============================================================================
