-------------------------- MODULE GroupForceProofs ---------------------------
(* What group commit promises, for any number of threads. The invariant is    *)
(* that whoever calls asks for a record of the log; the count needs no more.  *)
EXTENDS GroupForce, FiniteSetTheorems, TLAPS

(* The types of the log's two ends, of the mutex and the count of             *)
(* groupForce.c, and of the threads' entries.                                 *)
PCs == {"idle", "active", "call", "wait", "woken", "check", "force", "done"}
Entry == [pc : PCs, lsn : Int, to : Nat]

TypeOK == obj \in [next : Nat \ {0}, unstable : Nat, mutex : Threads \cup {FREE}, pending : Int,
                   t : [Threads -> Entry]]

(* A thread asks for records that are in the log. The early return, on a log  *)
(* that is stable to its end, is right only for these, and so is a force of   *)
(* what there is when it starts.                                              *)
Asked(t) == /\ obj.t[t].lsn < obj.next
            /\ obj.t[t].pc = "force" => obj.t[t].lsn < obj.t[t].to
            /\ obj.t[t].pc = "done" => obj.t[t].lsn < obj.unstable

InLog == TypeOK /\ \A t \in Threads : Asked(t)

(* The log of a store that has just been opened.                              *)
LEMMA InitInLog == Init => InLog
  BY DEF Init, InLog, TypeOK, Asked, Entry, Idle, PCs, FREE

(* Thread t's entry becomes e, and the ends of the log do not go back.        *)
LEMMA EntryChange ==
  ASSUME InLog, TypeOK', NEW t \in Threads, NEW e \in Entry, obj'.t = [obj.t EXCEPT ![t] = e],
         obj.next <= obj'.next, obj.unstable <= obj'.unstable, e.lsn < obj'.next,
         e.pc = "force" => e.lsn < e.to, e.pc = "done" => e.lsn < obj'.unstable
  PROVE  InLog'
  <1> SUFFICES ASSUME NEW u \in Threads PROVE Asked(u)'
    BY Zenon DEF InLog
  <1>1. obj.next \in Int /\ obj'.next \in Int /\ obj.unstable \in Int /\ obj'.unstable \in Int
    BY DEF InLog, TypeOK
  <1>2. CASE u = t
    BY Zenon, <1>2 DEF Asked, InLog, TypeOK
  <1>3. CASE u # t
    <2>1. obj'.t[u] = obj.t[u] /\ obj.t[u].lsn \in Int
      BY Zenon, <1>3 DEF InLog, TypeOK, Entry
    <2> QED
      BY <1>1, <2>1 DEF Asked, InLog
  <1> QED
    BY Zenon, <1>2, <1>3

(* The log only grows, and a thread asks for what it has appended or, with    *)
(* INVALID_LSN, for the record before the end of the log.                     *)
LEMMA NextInLog == InLog /\ [Next]_vars => InLog'
  <1> SUFFICES ASSUME InLog, [Next]_vars PROVE InLog'
    OBVIOUS
  <1>a. Idle \in Entry /\ Idle.lsn = 0 /\ Idle.pc = "idle"
    BY DEF Idle, Entry, PCs
  <1>b. obj.next \in Nat \ {0} /\ obj.unstable \in Nat
    BY Zenon DEF InLog, TypeOK
  <1>c. ASSUME NEW t \in Threads
        PROVE obj.t[t] \in Entry /\ obj.t[t].lsn \in Int /\ obj.t[t].lsn < obj.next
    BY Zenon DEF InLog, TypeOK, Entry, Asked
  <1>d. \A l \in Int : Asks(l) \in Entry /\ Asks(l).lsn = l /\ Asks(l).pc = "call"
    BY Zenon DEF Asks, Entry, PCs
  <1>e. \A e \in Entry, c \in PCs : LET f == [e EXCEPT !.pc = c]
                                   IN f \in Entry /\ f.pc = c /\ f.lsn = e.lsn
    BY Zenon DEF Entry
  <1>f. ASSUME NEW t \in Threads, TypeOK', obj'.t = [obj.t EXCEPT ![t] = Idle],
               obj'.next = obj.next, obj'.unstable = obj.unstable
        PROVE  InLog'
    BY <1>a, <1>b, <1>f, EntryChange
  <1>g. ASSUME NEW t \in Threads, NEW c \in {"active", "wait", "check"}, TypeOK',
               obj'.t = [obj.t EXCEPT ![t].pc = c], obj'.next = obj.next, obj'.unstable = obj.unstable
        PROVE  InLog'
    <2> DEFINE f == [obj.t[t] EXCEPT !.pc = c]
    <2>1. c \in PCs /\ c \notin {"force", "done"}
      BY Zenon DEF PCs
    <2>2. f \in Entry /\ f.pc = c /\ f.lsn = obj.t[t].lsn
      BY Zenon, <1>c, <1>e, <2>1
    <2>3. obj'.t = [obj.t EXCEPT ![t] = f]
      BY Zenon, <1>g
    <2> HIDE DEF f
    <2> QED
      BY <1>b, <1>c, <1>g, <2>1, <2>2, <2>3, EntryChange
  <1>1. ASSUME NEW t \in Threads, Tbegin(t) PROVE InLog'
    <2>1. TypeOK'
      BY ZenonT(30), <1>1 DEF Tbegin, Go, InLog, TypeOK, Entry, PCs
    <2>2. /\ obj'.t = [obj.t EXCEPT ![t].pc = "active"]
          /\ obj'.next = obj.next /\ obj'.unstable = obj.unstable
      BY Zenon, <1>1 DEF Tbegin, Go, InLog, TypeOK
    <2> QED
      BY Zenon, <2>1, <2>2, <1>g
  <1>2. ASSUME NEW t \in Threads, ForceAll(t) PROVE InLog'
    <2> DEFINE e == Asks(INVALID_LSN)
    <2>1. e \in Entry /\ e.lsn < obj.next /\ e.pc = "call"
      BY <1>b, <1>d DEF INVALID_LSN
    <2> HIDE DEF e
    <2>2. /\ TypeOK' /\ obj'.t = [obj.t EXCEPT ![t] = e]
          /\ obj'.next = obj.next /\ obj'.unstable = obj.unstable
      BY Zenon, <1>2, <2>1 DEF ForceAll, InLog, TypeOK, e
    <2> QED
      BY <1>b, <2>1, <2>2, EntryChange
  <1>3. ASSUME NEW t \in Threads, WriteCommit(t) PROVE InLog'
    <2> DEFINE e == Asks(obj.next)
               n == obj.next + 1
    <2>1. e \in Entry /\ e.lsn < n /\ e.pc = "call" /\ n \in Nat \ {0} /\ obj.next <= n
      BY <1>b, <1>d
    <2>2. obj' = [obj EXCEPT !.next = n, !.t = [obj.t EXCEPT ![t] = e]]
      BY Zenon, <1>3 DEF WriteCommit
    <2> HIDE DEF e, n
    <2>3. /\ TypeOK' /\ obj'.t = [obj.t EXCEPT ![t] = e]
          /\ obj'.next = n /\ obj'.unstable = obj.unstable
      BY Zenon, <2>1, <2>2 DEF InLog, TypeOK
    <2> QED
      BY <1>b, <2>1, <2>3, EntryChange
  <1>4. ASSUME NEW t \in Threads, Tabort(t) PROVE InLog'
    <2>1. /\ TypeOK' /\ obj'.t = [obj.t EXCEPT ![t] = Idle]
          /\ obj'.next = obj.next /\ obj'.unstable = obj.unstable
      BY Zenon, <1>4, <1>a DEF Tabort, InLog, TypeOK
    <2> QED
      BY Zenon, <2>1, <1>f
  <1>5. ASSUME NEW t \in Threads, Call(t) PROVE InLog'
    <2> DEFINE lsn == IF obj.t[t].lsn = INVALID_LSN THEN obj.next - 1 ELSE obj.t[t].lsn
               wait == ShouldWait(Active, obj.pending + 1)
               c == IF wait THEN "wait" ELSE "check"
               e == [pc |-> c, lsn |-> lsn, to |-> 0]
               m == IF wait THEN FREE ELSE t
               p == obj.pending + 1
    <2>1. CASE obj' = [obj EXCEPT !.t[t] = Idle]
      <3>1. /\ TypeOK' /\ obj'.t = [obj.t EXCEPT ![t] = Idle]
            /\ obj'.next = obj.next /\ obj'.unstable = obj.unstable
        BY Zenon, <2>1, <1>a DEF InLog, TypeOK
      <3> QED
        BY Zenon, <3>1, <1>f
    <2>2. CASE obj' = [obj EXCEPT !.pending = p, !.mutex = m, !.t = [obj.t EXCEPT ![t] = e]]
      <3>1. lsn \in Int /\ lsn < obj.next
        BY <1>b, <1>c
      <3>2. m \in Threads \cup {FREE} /\ p \in Int /\ c \in PCs /\ c \notin {"force", "done"}
        BY DEF InLog, TypeOK, PCs
      <3>3. e \in Entry /\ e.lsn = lsn /\ e.pc = c
        BY Zenon, <3>1, <3>2 DEF Entry
      <3> HIDE DEF e, m, p, c, lsn
      <3>4. /\ TypeOK' /\ obj'.t = [obj.t EXCEPT ![t] = e]
            /\ obj'.next = obj.next /\ obj'.unstable = obj.unstable
        BY Zenon, <2>2, <3>2, <3>3 DEF InLog, TypeOK
      <3> QED
        BY <1>b, <3>1, <3>2, <3>3, <3>4, EntryChange
    <2> QED
      BY ZenonT(30), <1>5, <2>1, <2>2 DEF Call
  <1>6. ASSUME NEW t \in Threads, Woken(t) PROVE InLog'
    <2> DEFINE p == obj.pending - 1
    <2>1. p \in Int
      BY DEF InLog, TypeOK
    <2>2. CASE obj' = [obj EXCEPT !.pending = p, !.t[t] = Idle]
      <3> HIDE DEF p
      <3>1. /\ TypeOK' /\ obj'.t = [obj.t EXCEPT ![t] = Idle]
            /\ obj'.next = obj.next /\ obj'.unstable = obj.unstable
        BY Zenon, <2>1, <2>2, <1>a DEF InLog, TypeOK
      <3> QED
        BY Zenon, <3>1, <1>f
    <2>3. CASE obj' = Go(obj, t, "wait")
      <3> DEFINE e == [obj.t[t] EXCEPT !.pc = "wait"]
      <3>a. e \in Entry
        BY Zenon, <1>c, <1>e DEF PCs
      <3>b. obj' = [obj EXCEPT !.t = [obj.t EXCEPT ![t] = e]]
        BY Zenon, <2>3 DEF Go
      <3> HIDE DEF e
      <3>1. TypeOK'
        BY Zenon, <3>a, <3>b DEF InLog, TypeOK
      <3>2. /\ obj'.t = [obj.t EXCEPT ![t].pc = "wait"]
            /\ obj'.next = obj.next /\ obj'.unstable = obj.unstable
        BY Zenon, <3>a, <3>b DEF InLog, TypeOK, e
      <3> QED
        BY Zenon, <3>1, <3>2, <1>g
    <2> QED
      BY Zenon, <1>6, <2>2, <2>3 DEF Woken
  <1>7. ASSUME NEW t \in Threads, TimedOut(t) PROVE InLog'
    <2> DEFINE e == [obj.t[t] EXCEPT !.pc = "check"]
    <2>a. e \in Entry
      BY Zenon, <1>c, <1>e DEF PCs
    <2>b. obj' = [obj EXCEPT !.mutex = t, !.t = [obj.t EXCEPT ![t] = e]]
      BY Zenon, <1>7 DEF TimedOut, Go
    <2> HIDE DEF e
    <2>1. TypeOK'
      BY Zenon, <2>a, <2>b DEF InLog, TypeOK
    <2>2. /\ obj'.t = [obj.t EXCEPT ![t].pc = "check"]
          /\ obj'.next = obj.next /\ obj'.unstable = obj.unstable
      BY Zenon, <2>a, <2>b DEF InLog, TypeOK, e
    <2> QED
      BY Zenon, <2>1, <2>2, <1>g
  <1>8. ASSUME NEW t \in Threads, StartForce(t) PROVE InLog'
    <2> DEFINE e == [obj.t[t] EXCEPT !.pc = "force", !.to = obj.next]
    <2>1. e \in Entry /\ e.lsn < obj.next /\ e.to = obj.next /\ e.pc = "force"
      BY Zenon, <1>b, <1>c DEF Entry, PCs
    <2>2. obj' = [obj EXCEPT !.t = [obj.t EXCEPT ![t] = e]]
      BY Zenon, <1>8 DEF StartForce
    <2> HIDE DEF e
    <2>3. /\ TypeOK' /\ obj'.t = [obj.t EXCEPT ![t] = e]
          /\ obj'.next = obj.next /\ obj'.unstable = obj.unstable
      BY Zenon, <2>1, <2>2 DEF InLog, TypeOK
    <2> QED
      BY <1>b, <2>1, <2>3, EntryChange
  <1>9. ASSUME NEW t \in Threads, EndForce(t) PROVE InLog'
    <2> DEFINE after(u) == IF u = t THEN [obj.t[t] EXCEPT !.pc = "done"]
                           ELSE IF obj.t[u].pc = "wait" THEN [obj.t[u] EXCEPT !.pc = "woken"]
                           ELSE obj.t[u]
               s == IF obj.unstable < obj.t[t].to THEN obj.t[t].to ELSE obj.unstable
    <2>1. obj' = [obj EXCEPT !.unstable = s, !.t = [u \in Threads |-> after(u)]]
      BY Zenon, <1>9 DEF EndForce
    <2>2. obj.t[t].to \in Nat /\ obj.t[t].lsn < obj.t[t].to
      BY Zenon, <1>9, <1>c DEF EndForce, At, Entry, InLog, Asked
    <2>3. s \in Nat /\ obj.unstable <= s /\ obj.t[t].lsn < s
      BY <1>b, <1>c, <2>2
    <2>4. ASSUME NEW u \in Threads
          PROVE /\ after(u) \in Entry /\ after(u).lsn = obj.t[u].lsn /\ after(u).to = obj.t[u].to
                /\ after(u).pc = "force" => obj.t[u].pc = "force"
                /\ after(u).pc = "done" => u = t \/ obj.t[u].pc = "done"
      BY Zenon, <1>c DEF Entry, PCs
    <2> HIDE DEF after, s
    <2>5. TypeOK' /\ obj'.next = obj.next /\ obj'.unstable = s
      BY Zenon, <2>1, <2>3, <2>4 DEF InLog, TypeOK
    <2>6. \A u \in Threads : obj'.t[u] = after(u)
      BY Zenon, <2>1 DEF InLog, TypeOK
    <2>7. ASSUME NEW u \in Threads PROVE Asked(u)'
      <3>1. /\ obj.t[u].lsn < obj.next /\ obj.t[u].lsn \in Int
            /\ obj.t[u].pc = "force" => obj.t[u].lsn < obj.t[u].to
            /\ obj.t[u].pc = "done" => obj.t[u].lsn < obj.unstable
        BY Zenon, <1>c DEF InLog, Asked
      <3>2. obj.t[u].pc = "done" => obj.t[u].lsn < s
        BY <1>b, <2>3, <3>1
      <3> QED
        BY Zenon, <2>3, <2>4, <2>5, <2>6, <3>1, <3>2 DEF Asked
    <2> QED
      BY Zenon, <2>5, <2>7 DEF InLog
  <1>10. ASSUME NEW t \in Threads, Done(t) PROVE InLog'
    <2> DEFINE p == obj.pending - 1
    <2>1. p \in Int
      BY DEF InLog, TypeOK
    <2>2. obj' = [obj EXCEPT !.pending = p, !.mutex = FREE, !.t[t] = Idle]
      BY Zenon, <1>10 DEF Done
    <2> HIDE DEF p
    <2>3. /\ TypeOK' /\ obj'.t = [obj.t EXCEPT ![t] = Idle]
          /\ obj'.next = obj.next /\ obj'.unstable = obj.unstable
      BY Zenon, <2>1, <2>2, <1>a DEF InLog, TypeOK
    <2> QED
      BY Zenon, <2>3, <1>f
  <1>11. CASE WalForce
    <2>1. /\ TypeOK' /\ obj'.t = obj.t /\ obj'.next = obj.next
          /\ obj'.unstable = obj.next /\ obj.unstable < obj.next
      BY Zenon, <1>11 DEF WalForce, InLog, TypeOK
    <2> QED
      BY Zenon, <2>1, <1>b, <1>c DEF InLog, Asked
  <1>12. CASE UNCHANGED vars
    BY Zenon, <1>12 DEF vars, InLog, TypeOK, Asked
  <1> QED
    BY Zenon, <1>1, <1>2, <1>3, <1>4, <1>5, <1>6, <1>7, <1>8, <1>9, <1>10, <1>11, <1>12
    DEF Next, Step

(* A step that returns from stasis_log_group_force() finds the record stable. *)
LEMMA StepForced == InLog /\ [Next]_vars => [ForcedOnReturn]_vars
  <1> SUFFICES ASSUME InLog, Next PROVE ForcedOnReturn
    BY Zenon DEF vars, ForcedOnReturn
  <1>1. Silent => ForcedOnReturn
    BY DEF Silent, ForcedOnReturn
  <1>2. ASSUME NEW t \in Threads, Call(t) PROVE ForcedOnReturn
    <2> DEFINE lsn == IF obj.t[t].lsn = INVALID_LSN THEN obj.next - 1 ELSE obj.t[t].lsn
    <2>1. lsn \in Int /\ lsn < obj.next
      BY DEF InLog, TypeOK, Asked, Entry
    <2>2. CASE /\ obj.unstable > lsn \/ obj.unstable = obj.next
               /\ obj' = [obj EXCEPT !.t[t] = Idle] /\ Returns(t, lsn)
      <3>1. obj'.unstable = obj.unstable /\ ans' = lsn
        BY Zenon, <2>2 DEF Returns, InLog, TypeOK, Asked
      <3> HIDE DEF lsn
      <3> QED
        BY Zenon, <3>1, <2>1, <2>2 DEF ForcedOnReturn, InLog, TypeOK, Asked
    <2> QED
      BY Zenon, <1>1, <1>2, <2>2 DEF Call
  <1>3. ASSUME NEW t \in Threads, Woken(t) PROVE ForcedOnReturn
    BY Zenon, <1>1, <1>3 DEF Woken, Returns, ForcedOnReturn, InLog, TypeOK, Asked
  <1>4. ASSUME NEW t \in Threads, Done(t) PROVE ForcedOnReturn
    <2>1. ans' = obj.t[t].lsn /\ obj'.unstable = obj.unstable
      BY Zenon, <1>4 DEF Done, Returns, InLog, TypeOK
    <2>2. obj.t[t].lsn \in Int /\ obj.unstable \in Int /\ obj.t[t].lsn < obj.unstable
      BY <1>4 DEF Done, At, InLog, TypeOK, Entry, Asked
    <2> QED
      BY Zenon, <2>1, <2>2 DEF ForcedOnReturn
  <1> QED
    BY Zenon, <1>1, <1>2, <1>3, <1>4
    DEF Next, Step, Tbegin, ForceAll, WriteCommit, Tabort, TimedOut, StartForce, EndForce, WalForce

(* For any number of threads: whichever way stasis_log_group_force() returns, *)
(* early, after another commit's broadcast or after a timeout that raced with *)
(* one, and whatever is appended meanwhile, the record it was called for is   *)
(* stable.                                                                    *)
THEOREM ForcedSafe == Spec => [][ForcedOnReturn]_vars
  BY InitInLog, NextInLog, StepForced, PTL DEF Spec

(* When thread t's entry becomes e, the count changes as t comes or goes.     *)
LEMMA CountedStep ==
  ASSUME IsFiniteSet(Threads), InLog, NEW t \in Threads, NEW e \in Entry,
         obj'.t = [obj.t EXCEPT ![t] = e]
  PROVE  /\ Cardinality(Counted) \in Nat
         /\ (obj.t[t].pc \in Inside <=> e.pc \in Inside) => Cardinality(Counted') = Cardinality(Counted)
         /\ obj.t[t].pc \notin Inside /\ e.pc \in Inside => Cardinality(Counted') = Cardinality(Counted) + 1
         /\ obj.t[t].pc \in Inside /\ e.pc \notin Inside => Cardinality(Counted') = Cardinality(Counted) - 1
  <1>1. DOMAIN obj.t = Threads /\ DOMAIN obj'.t = Threads
    BY Zenon DEF InLog, TypeOK, Asked
  <1>2. IsFiniteSet(Counted)
    BY Zenon, <1>1, FS_Subset DEF Counted
  <1>3. \A u \in Threads : obj'.t[u] = IF u = t THEN e ELSE obj.t[u]
    BY Zenon, <1>1
  <1>4. CASE obj.t[t].pc \in Inside <=> e.pc \in Inside
    <2>1. Counted' = Counted
      BY Zenon, <1>1, <1>3, <1>4 DEF Counted
    <2> QED
      BY Zenon, <2>1, <1>2, <1>4, FS_CardinalityType
  <1>5. CASE obj.t[t].pc \notin Inside /\ e.pc \in Inside
    <2>1. Counted' = Counted \cup {t} /\ t \notin Counted
      BY Zenon, <1>1, <1>3, <1>5 DEF Counted
    <2> QED
      BY Zenon, <2>1, <1>2, <1>5, FS_CardinalityType, FS_AddElement
  <1>6. CASE obj.t[t].pc \in Inside /\ e.pc \notin Inside
    <2>1. Counted' = Counted \ {t} /\ t \in Counted
      BY Zenon, <1>1, <1>3, <1>6 DEF Counted
    <2> QED
      BY Zenon, <2>1, <1>2, <1>6, FS_CardinalityType, FS_RemoveElement
  <1> QED
    BY Zenon, <1>4, <1>5, <1>6

(* Every path through stasis_log_group_force() counts and discounts once.     *)
LEMMA PendingStep ==
  ASSUME IsFiniteSet(Threads)
  PROVE  InLog /\ PendingExact /\ [Next]_vars => PendingExact'
  <1> SUFFICES ASSUME InLog, PendingExact, [Next]_vars PROVE PendingExact'
    OBVIOUS
  <1>a. Idle \in Entry /\ Idle.pc \notin Inside
    BY DEF Idle, Entry, PCs, Inside
  <1>b. \A l \in Int : Asks(l) \in Entry /\ Asks(l).pc \notin Inside
    BY Zenon DEF Asks, Entry, PCs, Inside
  <1>c. obj.next \in Int /\ INVALID_LSN \in Int /\ \A t \in Threads : obj.t[t] \in Entry
    BY DEF InLog, TypeOK, Asked, INVALID_LSN
  <1>d. \A e \in Entry, c \in PCs : [e EXCEPT !.pc = c] \in Entry /\ [e EXCEPT !.pc = c].pc = c
    BY Zenon DEF Entry
  <1>e. ASSUME NEW t \in Threads, NEW e \in Entry, obj'.t = [obj.t EXCEPT ![t] = e],
               \/ /\ obj.t[t].pc \in Inside <=> e.pc \in Inside
                  /\ obj'.pending = obj.pending
               \/ /\ obj.t[t].pc \notin Inside /\ e.pc \in Inside
                  /\ obj'.pending = obj.pending + 1
               \/ /\ obj.t[t].pc \in Inside /\ e.pc \notin Inside
                  /\ obj'.pending = obj.pending - 1
        PROVE  PendingExact'
    BY Zenon, <1>e, CountedStep DEF PendingExact
  <1>f. ASSUME NEW t \in Threads, NEW c \in PCs, obj.t[t].pc \in Inside <=> c \in Inside,
               obj'.t = [obj.t EXCEPT ![t].pc = c], obj'.pending = obj.pending
        PROVE  PendingExact'
    <2> DEFINE f == [obj.t[t] EXCEPT !.pc = c]
    <2>1. f \in Entry /\ f.pc = c
      BY Zenon, <1>c, <1>d
    <2>2. obj'.t = [obj.t EXCEPT ![t] = f]
      BY Zenon, <1>f
    <2> HIDE DEF f
    <2> QED
      BY Zenon, <1>e, <1>f, <2>1, <2>2
  <1>1. ASSUME NEW t \in Threads, Tbegin(t) PROVE PendingExact'
    <2>1. obj'.t = [obj.t EXCEPT ![t].pc = "active"] /\ obj'.pending = obj.pending
      BY Zenon, <1>1 DEF Tbegin, Go, InLog, TypeOK, Asked
    <2>2. obj.t[t].pc \notin Inside /\ "active" \notin Inside /\ "active" \in PCs
      BY Zenon, <1>1 DEF Tbegin, At, Inside, PCs
    <2> QED
      BY Zenon, <2>1, <2>2, <1>f
  <1>2. ASSUME NEW t \in Threads, ForceAll(t) PROVE PendingExact'
    <2>1. obj'.t = [obj.t EXCEPT ![t] = Asks(INVALID_LSN)] /\ obj'.pending = obj.pending
      BY Zenon, <1>2 DEF ForceAll, InLog, TypeOK, Asked
    <2>2. obj.t[t].pc \notin Inside
      BY Zenon, <1>2 DEF ForceAll, At, Inside
    <2> QED
      BY Zenon, <2>1, <2>2, <1>b, <1>c, <1>e
  <1>3. ASSUME NEW t \in Threads, WriteCommit(t) PROVE PendingExact'
    <2>1. obj'.t = [obj.t EXCEPT ![t] = Asks(obj.next)] /\ obj'.pending = obj.pending
      BY Zenon, <1>3 DEF WriteCommit, InLog, TypeOK, Asked
    <2>2. obj.t[t].pc \notin Inside
      BY Zenon, <1>3 DEF WriteCommit, At, Inside
    <2> QED
      BY Zenon, <2>1, <2>2, <1>b, <1>c, <1>e
  <1>4. ASSUME NEW t \in Threads, Tabort(t) PROVE PendingExact'
    <2>1. obj'.t = [obj.t EXCEPT ![t] = Idle] /\ obj'.pending = obj.pending
      BY Zenon, <1>4 DEF Tabort, InLog, TypeOK, Asked
    <2>2. obj.t[t].pc \notin Inside
      BY Zenon, <1>4 DEF Tabort, At, Inside
    <2> QED
      BY Zenon, <2>1, <2>2, <1>a, <1>e
  <1>5. ASSUME NEW t \in Threads, Call(t) PROVE PendingExact'
    <2> DEFINE lsn == IF obj.t[t].lsn = INVALID_LSN THEN obj.next - 1 ELSE obj.t[t].lsn
               wait == ShouldWait(Active, obj.pending + 1)
               c == IF wait THEN "wait" ELSE "check"
               f == [pc |-> c, lsn |-> lsn, to |-> 0]
    <2>1. obj.t[t].pc \notin Inside
      BY Zenon, <1>5 DEF Call, At, Inside
    <2>2. CASE obj' = [obj EXCEPT !.t[t] = Idle]
      <3>1. obj'.t = [obj.t EXCEPT ![t] = Idle] /\ obj'.pending = obj.pending
        BY Zenon, <2>2 DEF InLog, TypeOK, Asked
      <3> QED
        BY Zenon, <3>1, <2>1, <1>a, <1>e
    <2>3. CASE obj' = [obj EXCEPT !.pending = @ + 1, !.mutex = IF wait THEN FREE ELSE t, !.t[t] = f]
      <3>1. lsn \in Int /\ c \in Inside /\ c \in PCs
        BY DEF InLog, TypeOK, Asked, Entry, PCs, Inside
      <3>2. f \in Entry /\ f.pc \in Inside
        BY Zenon, <3>1 DEF Entry
      <3> HIDE DEF f, wait
      <3>3. obj'.t = [obj.t EXCEPT ![t] = f] /\ obj'.pending = obj.pending + 1
        BY Zenon, <2>3 DEF InLog, TypeOK, Asked
      <3> QED
        BY Zenon, <3>2, <3>3, <2>1, <1>e
    <2> QED
      BY Zenon, <1>5, <2>2, <2>3 DEF Call
  <1>6. ASSUME NEW t \in Threads, Woken(t) PROVE PendingExact'
    <2>1. obj.t[t].pc \in Inside /\ "wait" \in Inside /\ "wait" \in PCs
      BY Zenon, <1>6 DEF Woken, At, Inside, PCs
    <2>2. CASE obj' = [obj EXCEPT !.pending = @ - 1, !.t[t] = Idle]
      <3>1. obj'.t = [obj.t EXCEPT ![t] = Idle] /\ obj'.pending = obj.pending - 1
        BY Zenon, <2>2 DEF InLog, TypeOK, Asked
      <3> QED
        BY Zenon, <3>1, <2>1, <1>a, <1>e
    <2>3. CASE obj' = Go(obj, t, "wait")
      <3>1. obj'.t = [obj.t EXCEPT ![t].pc = "wait"] /\ obj'.pending = obj.pending
        BY Zenon, <2>3 DEF Go, InLog, TypeOK, Asked
      <3> QED
        BY Zenon, <3>1, <2>1, <1>f
    <2> QED
      BY Zenon, <1>6, <2>2, <2>3 DEF Woken
  <1>7. ASSUME NEW t \in Threads, TimedOut(t) PROVE PendingExact'
    <2>1. obj'.t = [obj.t EXCEPT ![t].pc = "check"] /\ obj'.pending = obj.pending
      BY Zenon, <1>7 DEF TimedOut, Go, InLog, TypeOK, Asked
    <2>2. obj.t[t].pc \in Inside /\ "check" \in Inside /\ "check" \in PCs
      BY Zenon, <1>7 DEF TimedOut, At, Inside, PCs
    <2> QED
      BY Zenon, <2>1, <2>2, <1>f
  <1>8. ASSUME NEW t \in Threads, StartForce(t) PROVE PendingExact'
    <2> DEFINE f == [obj.t[t] EXCEPT !.pc = "force", !.to = obj.next]
    <2>1. f \in Entry /\ f.pc \in Inside
      BY Zenon DEF InLog, TypeOK, Asked, Entry, PCs, Inside
    <2>2. obj' = [obj EXCEPT !.t = [obj.t EXCEPT ![t] = f]] /\ obj.t[t].pc \in Inside
      BY Zenon, <1>8 DEF StartForce, At, Inside
    <2> HIDE DEF f
    <2>3. obj'.t = [obj.t EXCEPT ![t] = f] /\ obj'.pending = obj.pending
      BY Zenon, <2>2 DEF InLog, TypeOK, Asked
    <2> QED
      BY Zenon, <2>1, <2>2, <2>3, <1>e
  <1>9. ASSUME NEW t \in Threads, EndForce(t) PROVE PendingExact'
    <2>1. /\ DOMAIN obj.t = Threads /\ DOMAIN obj'.t = Threads /\ obj'.pending = obj.pending
          /\ \A u \in Threads : obj'.t[u] = IF u = t THEN [obj.t[t] EXCEPT !.pc = "done"]
                                            ELSE IF obj.t[u].pc = "wait" THEN [obj.t[u] EXCEPT !.pc = "woken"]
                                            ELSE obj.t[u]
      BY Zenon, <1>9 DEF EndForce, InLog, TypeOK, Asked
    <2>2. \A u \in Threads : obj'.t[u].pc \in Inside <=> obj.t[u].pc \in Inside
      BY <2>1, <1>9, <1>c, <1>d DEF EndForce, At, Inside, PCs
    <2>3. Counted' = Counted
      BY Zenon, <2>1, <2>2 DEF Counted
    <2> QED
      BY Zenon, <2>1, <2>3 DEF PendingExact
  <1>10. ASSUME NEW t \in Threads, Done(t) PROVE PendingExact'
    <2>1. obj'.t = [obj.t EXCEPT ![t] = Idle] /\ obj'.pending = obj.pending - 1
      BY Zenon, <1>10 DEF Done, InLog, TypeOK, Asked
    <2>2. obj.t[t].pc \in Inside
      BY Zenon, <1>10 DEF Done, At, Inside
    <2> QED
      BY Zenon, <2>1, <2>2, <1>a, <1>e
  <1>11. CASE WalForce
    <2>1. obj'.t = obj.t /\ obj'.pending = obj.pending
      BY Zenon, <1>11 DEF WalForce, InLog, TypeOK, Asked
    <2> QED
      BY Zenon, <2>1 DEF PendingExact, Counted
  <1>12. CASE UNCHANGED vars
    BY Zenon, <1>12 DEF vars, PendingExact, Counted
  <1> QED
    BY Zenon, <1>1, <1>2, <1>3, <1>4, <1>5, <1>6, <1>7, <1>8, <1>9, <1>10, <1>11, <1>12
    DEF Next, Step

(* For any finite number of threads: pendingCommits, which decides whether a  *)
(* commit waits for others, is the number of commits that wait or force, on   *)
(* every path through stasis_log_group_force().                               *)
THEOREM PendingSafe ==
  ASSUME IsFiniteSet(Threads) PROVE Spec => []PendingExact
  <1>1. Init => PendingExact
    <2> SUFFICES ASSUME Init PROVE PendingExact
      OBVIOUS
    <2>1. Counted = {} /\ obj.pending = 0
      BY Zenon DEF Init, Counted, Inside, Idle
    <2> QED
      BY Zenon, <2>1, FS_EmptySet DEF PendingExact
  <1> QED
    BY <1>1, InitInLog, NextInLog, PendingStep, PTL DEF Spec
=============================================================================
