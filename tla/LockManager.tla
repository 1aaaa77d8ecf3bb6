---------------------------- MODULE LockManager ----------------------------
(* experimental/lockManagerImpl.c: read and write locks on pages or records,  *)
(* held by transactions until they commit or abort. A lock is found and       *)
(* changed under the mutex that its name hashes to. Who cannot have a lock    *)
(* waits on a condition variable for at most a second. Nothing signals those: *)
(* a waiter leaves by its timeout, or by a wakeup out of nowhere, which POSIX *)
(* allows.                                                                    *)
EXTENDS Integers, FiniteSets

CONSTANTS Xids, Names, \* transactions, each run by a thread; what can be locked
          None

VARIABLES obj, call, ans

vars == <<obj, call, ans>>

LM_READLOCK == 1
LM_WRITELOCK == 2
Unused == [readers |-> 0, writers |-> 0, waiting |-> 0, active |-> 0]
Idle == [pc |-> "idle", d |-> None, todo |-> {}]

Init == /\ obj = [level |-> [x \in Xids |-> [d \in Names |-> 0]], \* xidLockTable
                  lock |-> [d \in Names |-> None],                \* ridLockTable
                  t |-> [x \in Xids |-> Idle]]
        /\ call = <<"init", None, None>>
        /\ ans = None

Step(op, x, d, a) == call' = <<op, x, d>> /\ ans' = a

(* Look the lock up under its mutex, and create it if there is none.          *)
CreateLock(d) == IF obj.lock[d] = None THEN Unused ELSE obj.lock[d]

Set(o, d, l) == [o EXCEPT !.lock[d] = l]

GrantRead(o, x, d) ==
  [o EXCEPT !.lock[d].readers = @ + 1, !.lock[d].active = @ - 1,
            !.level[x][d] = LM_READLOCK, !.t[x] = Idle]

(* lockManagerReadLockHashed(), up to the wait. Readers let waiting writers   *)
(* go first.                                                                  *)
ReadLock(x, d) ==
  LET l == CreateLock(d)
      o == Set(obj, d, [l EXCEPT !.active = @ + 1])
  IN /\ obj.t[x].pc = "idle"
     /\ obj.level[x][d] < LM_READLOCK
     /\ IF l.writers > 0 \/ l.waiting > 0
        THEN /\ obj' = [o EXCEPT !.t[x] = [Idle EXCEPT !.pc = "read", !.d = d]]
             /\ Step("read", x, d, "waits")
        ELSE /\ obj' = GrantRead(o, x, d)
             /\ Step("read", x, d, "granted")

(* Faulty variant: leaves out one reader, whoever asks.                       *)
OthersLess(l, level) == l.readers - (IF level <= LM_READLOCK THEN 1 ELSE 0)

(* Another reader counts the lock's readers without the one who upgrades.     *)
Others(l, level) == l.readers - (IF level = LM_READLOCK THEN 1 ELSE 0)
Conflict(l, level) == l.writers > 0 \/ Others(l, level) > 0

GrantWrite(o, x, d) ==
  [o EXCEPT !.lock[d].waiting = @ - 1, !.lock[d].active = @ - 1, !.lock[d].writers = @ + 1,
            !.lock[d].readers = IF o.level[x][d] = 0 THEN @ + 1 ELSE @,
            !.level[x][d] = LM_WRITELOCK, !.t[x] = Idle]

(* lockManagerWriteLockHashed(), up to the wait.                              *)
WriteLock(x, d) ==
  LET l == CreateLock(d)
      o == Set(obj, d, [l EXCEPT !.active = @ + 1, !.waiting = @ + 1])
  IN /\ obj.t[x].pc = "idle"
     /\ obj.level[x][d] < LM_WRITELOCK
     /\ IF Conflict(l, obj.level[x][d])
        THEN /\ obj' = [o EXCEPT !.t[x] = [Idle EXCEPT !.pc = "write", !.d = d]]
             /\ Step("write", x, d, "waits")
        ELSE /\ obj' = GrantWrite(o, x, d)
             /\ Step("write", x, d, "granted")

(* A wakeup: take the lock if it can be had now, else go on waiting.          *)
Wake(x) ==
  LET d == obj.t[x].d IN
  \/ /\ obj.t[x].pc = "read" /\ obj.lock[d].writers = 0
     /\ obj' = GrantRead(obj, x, d)
     /\ Step("read", x, d, "granted")
  \/ /\ obj.t[x].pc = "write" /\ ~Conflict(obj.lock[d], obj.level[x][d])
     /\ obj' = GrantWrite(obj, x, d)
     /\ Step("write", x, d, "granted")

(* Faulty variant: a failed upgrade gives the read lock up.                   *)
TimeoutDrop(x) ==
  LET d == obj.t[x].d  w == IF obj.t[x].pc = "write" THEN 1 ELSE 0 IN
  /\ obj.t[x].pc \in {"read", "write"}
  /\ obj' = [obj EXCEPT !.lock[d].active = @ - 1, !.lock[d].waiting = @ - w, !.t[x] = Idle,
                        !.lock[d].readers = @ - (IF obj.level[x][d] > 0 THEN 1 ELSE 0),
                        !.level[x][d] = 0]
  /\ Step(obj.t[x].pc, x, d, "deadlock")

(* ETIMEDOUT: the caller is told LLADD_DEADLOCK.                              *)
Timeout(x) ==
  LET d == obj.t[x].d  w == IF obj.t[x].pc = "write" THEN 1 ELSE 0 IN
  /\ obj.t[x].pc \in {"read", "write"}
  /\ obj' = [obj EXCEPT !.lock[d].active = @ - 1, !.lock[d].waiting = @ - w, !.t[x] = Idle]
  /\ Step(obj.t[x].pc, x, d, "deadlock")

(* decrementLock() for a lock of the given level; the last user removes it.   *)
Decremented(l, level) ==
  LET m == [l EXCEPT !.readers = @ - 1,
                     !.writers = IF level = LM_WRITELOCK THEN @ - 1 ELSE @]
  IN IF m = Unused THEN None ELSE m

Release(o, x, d) == [o EXCEPT !.lock[d] = Decremented(@, o.level[x][d]), !.level[x][d] = 0]

(* lockManagerUnlockHashed()                                                  *)
Unlock(x, d) ==
  /\ obj.t[x].pc = "idle"
  /\ obj.level[x][d] > 0
  /\ obj' = Release(obj, x, d)
  /\ Step("unlock", x, d, None)

(* lockManagerCommitHashed(), for commit and abort: the transaction leaves    *)
(* the table, then its locks are released one by one.                         *)
Commit(x) ==
  /\ obj.t[x].pc = "idle"
  /\ obj' = [obj EXCEPT !.t[x] = [Idle EXCEPT !.pc = "commit",
                                    !.todo = {d \in Names : obj.level[x][d] > 0}]]
  /\ Step("commit", x, None, None)

CommitNext(x) ==
  /\ obj.t[x].pc = "commit"
  /\ \/ \E d \in obj.t[x].todo :
          obj' = [Release(obj, x, d) EXCEPT !.t[x].todo = @ \ {d}]
     \/ obj.t[x].todo = {} /\ obj' = [obj EXCEPT !.t[x] = Idle]
  /\ Step("commit", x, None, None)

Next == \E x \in Xids :
          \/ \E d \in Names : ReadLock(x, d) \/ WriteLock(x, d) \/ Unlock(x, d)
          \/ Wake(x)
          \/ Timeout(x)
          \/ Commit(x)
          \/ CommitNext(x)

Spec == Init /\ [][Next]_vars
-----------------------------------------------------------------------------
Holders(d, level) == {x \in Xids : obj.level[x][d] >= level}
Waiters(d, pc) == {x \in Xids : obj.t[x].pc = pc /\ obj.t[x].d = d}

(* A write lock is held alone, and the counters in a lock, which decide who   *)
(* gets it and when it is freed, are those of the transactions that hold it   *)
(* and wait for it, through upgrades, timeouts and commits.                   *)
LocksExact ==
  \A d \in Names :
    LET l == CreateLock(d) IN
    /\ Holders(d, LM_WRITELOCK) # {} => Cardinality(Holders(d, LM_READLOCK)) = 1
    /\ l.readers = Cardinality(Holders(d, LM_READLOCK))
    /\ l.writers = Cardinality(Holders(d, LM_WRITELOCK))
    /\ l.waiting = Cardinality(Waiters(d, "write"))
    /\ l.active = l.waiting + Cardinality(Waiters(d, "read"))

(* A transaction's locks are released by itself only, and a failed upgrade    *)
(* leaves it the read lock.                                                   *)
LocksKept ==
  \A x \in Xids, d \in Names :
    obj'.level[x][d] < obj.level[x][d] =>
      call' \in {<<"unlock", x, d>>, <<"commit", x, None>>}

=============================================================================
