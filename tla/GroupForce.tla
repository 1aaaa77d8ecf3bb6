----------------------------- MODULE GroupForce -----------------------------
(* logger/groupForce.c: commits wait for each other, up to a timeout, so that *)
(* one force serves them all. The log is what groupForce.c asks of it; other  *)
(* threads append to it and force it for write-ahead logging meanwhile.       *)
EXTENDS Integers, FiniteSets

CONSTANTS Threads, MaxLsn, None

VARIABLES obj, call, ans

vars == <<obj, call, ans>>

FREE == 0
INVALID_LSN == -1
Idle == [pc |-> "idle", lsn |-> 0, to |-> 0]

Init == /\ obj = [next |-> 1, unstable |-> 1, \* next_available_lsn, first_unstable_lsn
                  mutex |-> FREE,            \* check_commit
                  pending |-> 0,             \* pendingCommits
                  t |-> [t \in Threads |-> Idle]]
        /\ call = <<"init", None>>
        /\ ans = None

Silent == call' = <<"step", None>> /\ ans' = None
Returns(t, lsn) == call' = <<"forced", t>> /\ ans' = lsn
At(t, pc) == obj.t[t].pc = pc
Go(o, t, pc) == [o EXCEPT !.t[t].pc = pc]

(* TactiveThreadCount(): the threads that are in a transaction.               *)
Active == Cardinality({t \in Threads : obj.t[t].pc # "idle" /\ obj.t[t].lsn # INVALID_LSN})

(* A thread that is about to call stasis_log_group_force() for a record.       *)
Asks(lsn) == [pc |-> "call", lsn |-> lsn, to |-> 0]

(* A thread appends its commit record and forces it, or forces all there is.  *)
Tbegin(t) ==
  /\ At(t, "idle") /\ obj.next < MaxLsn
  /\ obj' = Go(obj, t, "active") /\ Silent

WriteCommit(t) ==
  /\ At(t, "active") /\ obj.next < MaxLsn
  /\ obj' = [obj EXCEPT !.next = @ + 1, !.t[t] = Asks(obj.next)]
  /\ Silent

(* The transaction ends in another way.                                       *)
Tabort(t) == At(t, "active") /\ obj' = [obj EXCEPT !.t[t] = Idle] /\ Silent

ForceAll(t) ==
  /\ At(t, "idle") /\ obj.next < MaxLsn
  /\ obj' = [obj EXCEPT !.t[t] = Asks(INVALID_LSN)]
  /\ Silent

(* stasis_log_group_force_should_wait(): its second case is part of the first.*)
ShouldWait(xactcount, pending) ==
  \/ xactcount > 1 /\ pending < xactcount
  \/ xactcount > 20 /\ 100 * pending < 95 * xactcount

(* Faulty variant: the force is skipped when anything at all is stable.       *)
CallAny(t) ==
  LET lsn == IF obj.t[t].lsn = INVALID_LSN THEN obj.next - 1 ELSE obj.t[t].lsn IN
  /\ At(t, "call") /\ obj.mutex = FREE
  /\ IF obj.unstable >= lsn
     THEN obj' = [obj EXCEPT !.t[t] = Idle] /\ Returns(t, lsn)
     ELSE /\ obj' = [obj EXCEPT !.pending = @ + 1, !.mutex = t,
                                !.t[t] = [pc |-> "check", lsn |-> lsn, to |-> 0]]
          /\ Silent

(* stasis_log_group_force() up to the wait, which lets the mutex go.          *)
Call(t) ==
  LET lsn == IF obj.t[t].lsn = INVALID_LSN THEN obj.next - 1 ELSE obj.t[t].lsn IN
  /\ At(t, "call") /\ obj.mutex = FREE
  /\ IF obj.unstable > lsn \/ obj.unstable = obj.next
     THEN obj' = [obj EXCEPT !.t[t] = Idle] /\ Returns(t, lsn)
     ELSE LET wait == ShouldWait(Active, obj.pending + 1) IN
          /\ obj' = [obj EXCEPT !.pending = @ + 1, !.mutex = IF wait THEN FREE ELSE t,
                                !.t[t] = [pc |-> IF wait THEN "wait" ELSE "check", lsn |-> lsn, to |-> 0]]
          /\ Silent

(* Faulty variant: a commit that another one has forced is still counted.     *)
WokenKept(t) ==
  /\ At(t, "woken") /\ obj.mutex = FREE
  /\ IF obj.unstable > obj.t[t].lsn
     THEN obj' = [obj EXCEPT !.t[t] = Idle] /\ Returns(t, obj.t[t].lsn)
     ELSE obj' = Go(obj, t, "wait") /\ Silent

(* Woken by a broadcast: another commit has forced the record, or wait on.    *)
Woken(t) ==
  /\ At(t, "woken") /\ obj.mutex = FREE
  /\ IF obj.unstable > obj.t[t].lsn
     THEN obj' = [obj EXCEPT !.pending = @ - 1, !.t[t] = Idle] /\ Returns(t, obj.t[t].lsn)
     ELSE obj' = Go(obj, t, "wait") /\ Silent

(* Faulty variant: the timeout starts anew.                                   *)
TimedOutAgain(t) ==
  /\ At(t, "wait") /\ obj.mutex = FREE
  /\ obj' = IF obj.pending < Active THEN Go(obj, t, "woken") ELSE [Go(obj, t, "check") EXCEPT !.mutex = t]
  /\ Silent

TimedOut(t) ==
  /\ At(t, "wait") /\ obj.mutex = FREE
  /\ obj' = [Go(obj, t, "check") EXCEPT !.mutex = t]
  /\ Silent

(* The rest, under the mutex: force_tail() makes stable what there is when it *)
(* starts; the broadcast wakes the commits that wait.                         *)
StartForce(t) ==
  /\ At(t, "check") /\ obj.unstable <= obj.t[t].lsn
  /\ obj' = [obj EXCEPT !.t[t] = [@ EXCEPT !.pc = "force", !.to = obj.next]]
  /\ Silent

EndForce(t) ==
  /\ At(t, "force")
  /\ obj' = [obj EXCEPT !.unstable = IF @ < obj.t[t].to THEN obj.t[t].to ELSE @,
                        !.t = [u \in Threads |-> IF u = t THEN [@[t] EXCEPT !.pc = "done"]
                                                 ELSE IF @[u].pc = "wait" THEN [@[u] EXCEPT !.pc = "woken"]
                                                 ELSE @[u]]]
  /\ Silent

(* The log did not have to be forced, or has been: that the record is stable   *)
(* then is an assertion of the code.                                          *)
Done(t) ==
  /\ At(t, "done") \/ (At(t, "check") /\ obj.unstable > obj.t[t].lsn)
  /\ obj' = [obj EXCEPT !.pending = @ - 1, !.mutex = FREE, !.t[t] = Idle]
  /\ Returns(t, obj.t[t].lsn)

(* stasis_log_force() for write-ahead logging does not take part in this.     *)
WalForce ==
  /\ obj.unstable < obj.next
  /\ obj' = [obj EXCEPT !.unstable = obj.next]
  /\ Silent

Step(t) == \/ WriteCommit(t) \/ Tabort(t) \/ Call(t) \/ Woken(t) \/ TimedOut(t)
           \/ StartForce(t) \/ EndForce(t) \/ Done(t)

Next == \/ \E t \in Threads : Tbegin(t) \/ ForceAll(t) \/ Step(t)
        \/ WalForce

Spec == Init /\ [][Next]_vars
-----------------------------------------------------------------------------
Forcing(t) == obj.t[t].pc \in {"call", "wait", "woken", "check", "force", "done"}

(* When a group force returns the record is stable, whoever forced it: on the *)
(* early return, after a broadcast, after a timeout that raced with one, and  *)
(* after its own force, where the code asserts it.                            *)
ForcedOnReturn == call'[1] = "forced" => obj'.unstable > ans'

(* The threads that stasis_log_group_force() has counted and not yet let go.   *)
Inside == {"wait", "woken", "check", "force", "done"}
Counted == {t \in DOMAIN obj.t : obj.t[t].pc \in Inside}

(* pendingCommits counts the commits that wait or force, on every path.       *)
PendingExact == obj.pending = Cardinality(Counted)
=============================================================================
