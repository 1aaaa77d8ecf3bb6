---------------------------- MODULE RecoveryInv -----------------------------
(***************************************************************************)
(* The inductive invariant behind the theorems of RecoveryProofs, and the  *)
(* lemmas that its proof needs in more than one place: what a page shows   *)
(* when the log grows, what the tables hold, where the walk of undo is.    *)
(***************************************************************************)
EXTENDS Recovery, TLAPS

Types == {"UPDATELOG", "CLRLOG", "XCOMMIT", "XABORT", "XEND", "XPREPARE"}

Records == [type : Types, xid : Xids, prevLSN : Int,
            page : Pages \cup {NoPage}, comp : Int, rec : Int, body : Int,
            inv : Int]

PageState == [lsn : Nat, applied : SUBSET Nat]

Slots == [active : BOOLEAN, prevLSN : Int, recLSN : Int]

(* The types of the variables that recovery computes with.                 *)
TLog == /\ log \in Seq(Records)
        /\ flushed \in 0..Len(log)
        /\ trunc \in Nat \ {0} /\ trunc - 1 <= flushed

TPage == /\ mem \in [Pages -> PageState]
         /\ cache \in [Pages -> PageState]
         /\ disk \in [Pages -> PageState]
         /\ dirty \in [Pages -> {-1} \cup 1..Len(log)]

TXact == /\ xact \in [Xids -> Slots]
         /\ \A x \in Xids : xact[x].prevLSN <= Len(log)
         /\ nta \in [Xids -> Int]
         /\ ntaPrev \in [Xids -> Int]
         /\ \A x \in Xids : ntaPrev[x] <= Len(log)

TRestart == /\ mode \in {"run", "analysis", "redo", "undo"}
            /\ cursor \in Nat \ {0}
            /\ rollbackLSNs \subseteq 1..Len(log)

TInv == TLog /\ TPage /\ TXact /\ TRestart

(* The walk of undo is on a record, or past the first one.                 *)
WInv ==
  /\ upc \in {"idle", "walk", "logical"}
  /\ undoLSN \in Int /\ undoLSN <= Len(log)
  /\ upc # "idle" => undoXid \in Xids /\ mode \in {"run", "undo"}
  /\ upc = "logical" => undoLSN \in 1..Len(log) /\ log[undoLSN].page = NoPage

(* Only updates and CLRs name a page, and a CLR that does compensates an   *)
(* earlier update of that page.                                            *)
LInv ==
  \A l \in 1..Len(log) :
    /\ log[l].prevLSN < l
    /\ log[l].page # NoPage => log[l].type \in {"UPDATELOG", "CLRLOG"}
    /\ log[l].type = "CLRLOG" =>
         IF log[l].page = NoPage THEN log[l].comp = -1
         ELSE /\ log[l].comp \in 1..(l - 1)
              /\ log[log[l].comp].type = "UPDATELOG"
              /\ log[log[l].comp].page = log[l].page

(* A version of page p is what the log up to its LSN makes of the page,    *)
(* and what it lacks is not truncated.                                     *)
Reflects(v, p) == v.lsn <= Len(log) /\ v.applied = Effect(log, p, v.lsn)
Keeps(v, p) == \A l \in 1..Len(log) : log[l].page = p /\ l > v.lsn => l >= trunc

(* How far the buffered pages are up to date.                              *)
Upto == IF mode = "redo" THEN cursor - 1
        ELSE IF mode = "analysis" THEN 0 ELSE Len(log)

PInv(p) ==
  /\ Reflects(mem[p], p) /\ Reflects(cache[p], p) /\ Reflects(disk[p], p)
  /\ Keeps(mem[p], p) /\ Keeps(cache[p], p) /\ Keeps(disk[p], p)
  /\ cache[p].lsn <= flushed /\ disk[p].lsn <= flushed
  /\ \A l \in 1..Len(log) : log[l].page = p /\ l <= Upto => l <= mem[p].lsn
  /\ dirty[p] <= mem[p].lsn
  /\ \A l \in 1..Len(log) :
       log[l].page = p /\ l > cache[p].lsn /\ l <= mem[p].lsn
         => dirty[p] # -1 /\ dirty[p] <= l

IInv == TInv /\ WInv /\ LInv /\ \A p \in Pages : PInv(p)

(* Sequences, as the log is one: its length, its elements and what is      *)
(* appended to it.                                                         *)
LEMMA LenProperties ==
  ASSUME NEW S, NEW q \in Seq(S)
  PROVE  Len(q) \in Nat /\ q \in [1..Len(q) -> S] /\ DOMAIN q = 1..Len(q)
  OBVIOUS

(* A record of the log is a record.                                        *)
LEMMA ElementOfSeq ==
  ASSUME NEW S, NEW q \in Seq(S), NEW n \in 1..Len(q)
  PROVE  q[n] \in S
  OBVIOUS

(* Logging adds one record at the end.                                     *)
LEMMA AppendProperties ==
  ASSUME NEW S, NEW q \in Seq(S), NEW e \in S
  PROVE  /\ Append(q, e) \in Seq(S)
         /\ Len(Append(q, e)) = Len(q) + 1
         /\ \A i \in 1..Len(q) : Append(q, e)[i] = q[i]
         /\ Append(q, e)[Len(q) + 1] = e
  OBVIOUS

(* What one more record does to the effect of the log on a page.  First,   *)
(* the effect up to n depends on the first n records only.                 *)
LEMMA EffectPrefix ==
  ASSUME NEW L, NEW M, NEW p, NEW n \in Nat, \A i \in 1..n : L[i] = M[i]
  PROVE  Effect(L, p, n) = Effect(M, p, n)
BY DEF Effect, Compensated

(* An update adds itself: it is no CLR, and none follows it.               *)
LEMMA EffectUpdate ==
  ASSUME NEW L, NEW p, NEW n \in Nat,
         L[n + 1].type = "UPDATELOG", L[n + 1].page = p
  PROVE  Effect(L, p, n + 1) = Effect(L, p, n) \cup {n + 1}
BY DEF Effect, Compensated

(* A CLR takes away the update that it compensates.                        *)
LEMMA EffectCLR ==
  ASSUME NEW L, NEW p, NEW n \in Nat,
         L[n + 1].type = "CLRLOG", L[n + 1].comp \in 1..n
  PROVE  Effect(L, p, n + 1) = Effect(L, p, n) \ {L[n + 1].comp}
BY DEF Effect, Compensated

(* Records of other pages change nothing.                                  *)
LEMMA EffectSkip ==
  ASSUME NEW L, NEW p, NEW n \in Nat, NEW m \in Nat, n <= m, p # NoPage,
         \A l \in (n + 1)..m : L[l].page # p,
         \A l \in 1..m : L[l].type = "CLRLOG" /\ L[l].comp \in 1..m =>
                           L[L[l].comp].page = L[l].page
  PROVE  Effect(L, p, n) = Effect(L, p, m)
<1>1. ASSUME NEW l \in 1..m, L[l].page = p
      PROVE  l \in 1..n /\ (Compensated(L, l, m) <=> Compensated(L, l, n))
  <2>1. l \in 1..n
    BY <1>1
  <2>2. \A c \in (n + 1)..m : ~(L[c].type = "CLRLOG" /\ L[c].comp = l)
    BY <1>1
  <2>. QED
    BY <2>1, <2>2 DEF Compensated
<1>. QED
  BY <1>1 DEF Effect

(* A record that may be appended.                                          *)
Appendable(r) ==
  /\ r \in Records /\ r.prevLSN <= Len(log)
  /\ r.page # NoPage => r.type \in {"UPDATELOG", "CLRLOG"}
  /\ r.type = "CLRLOG" =>
       IF r.page = NoPage THEN r.comp = -1
       ELSE /\ r.comp \in 1..Len(log)
            /\ log[r.comp].type = "UPDATELOG"
            /\ log[r.comp].page = r.page

(* The log grows by r.                                                     *)
Grow(r) ==
  /\ log' \in Seq(Records)
  /\ Len(log) \in Nat
  /\ Len(log') = Len(log) + 1
  /\ \A i \in 1..Len(log) : log'[i] = log[i]
  /\ log'[Len(log) + 1] = r

(* What Append does to the log.                                            *)
LEMMA AppendFacts ==
  ASSUME log \in Seq(Records), NEW r \in Records, log' = Append(log, r)
  PROVE  Grow(r)
BY AppendProperties DEF Grow

(* LInv holds of the log with one more record.                             *)
LEMMA AppendLog ==
  ASSUME log \in Seq(Records), LInv, NEW r, Appendable(r), Grow(r)
  PROVE  LInv'
<1>. r \in Records
  BY DEF Appendable
<1>. DEFINE n == Len(log)
<1>1. log' \in Seq(Records) /\ Len(log') = n + 1 /\ n \in Nat
      /\ (\A i \in 1..n : log'[i] = log[i]) /\ log'[n + 1] = r
  BY DEF Grow
<1>2. ASSUME NEW l \in 1..n
      PROVE  /\ log'[l].prevLSN < l
             /\ log'[l].page # NoPage => log'[l].type \in {"UPDATELOG", "CLRLOG"}
             /\ log'[l].type = "CLRLOG" =>
                  IF log'[l].page = NoPage THEN log'[l].comp = -1
                  ELSE /\ log'[l].comp \in 1..(l - 1)
                       /\ log'[log'[l].comp].type = "UPDATELOG"
                       /\ log'[log'[l].comp].page = log'[l].page
  BY <1>1 DEF LInv
<1>3. /\ r.prevLSN < n + 1
      /\ r.page # NoPage => r.type \in {"UPDATELOG", "CLRLOG"}
      /\ r.type = "CLRLOG" =>
           IF r.page = NoPage THEN r.comp = -1
           ELSE /\ r.comp \in 1..n
                /\ log'[r.comp].type = "UPDATELOG"
                /\ log'[r.comp].page = r.page
  <2>1. r.prevLSN \in Int /\ r.prevLSN <= n
    BY DEF Appendable, Records
  <2>. QED
    BY <1>1, <2>1 DEF Appendable
<1>4. \A l \in 1..Len(log') : l \in 1..n \/ l = n + 1
  BY <1>1
<1>. QED
  BY <1>1, <1>2, <1>3, <1>4 DEF LInv

(* LInv in the form that EffectSkip asks for.                              *)
LEMMA CLRPages ==
  ASSUME LInv, Len(log) \in Nat
  PROVE  \A l \in 1..Len(log) : log[l].type = "CLRLOG" /\ log[l].comp \in 1..Len(log)
                                 => log[log[l].comp].page = log[l].page
BY DEF LInv

(* Versions of pages stay good while the log grows.                        *)
LEMMA AppendVersion ==
  ASSUME log \in Seq(Records), NEW r \in Records, Grow(r),
         trunc' = trunc, trunc \in 1..(Len(log) + 1),
         NEW p \in Pages, NEW v \in PageState, Reflects(v, p), Keeps(v, p)
  PROVE  /\ v.lsn <= Len(log')
         /\ v.applied = Effect(log', p, v.lsn)
         /\ \A l \in 1..Len(log') : log'[l].page = p /\ l > v.lsn => l >= trunc
<1>. v.lsn \in Nat
  BY DEF PageState
<1>1. Len(log') = Len(log) + 1 /\ Len(log) \in Nat
      /\ (\A i \in 1..Len(log) : log'[i] = log[i])
  BY DEF Grow
<1>2. \A i \in 1..v.lsn : log[i] = log'[i]
  BY <1>1 DEF Reflects
<1>3. Effect(log, p, v.lsn) = Effect(log', p, v.lsn)
  BY <1>2, EffectPrefix
<1>4. ASSUME NEW l \in 1..Len(log'), log'[l].page = p, l > v.lsn
      PROVE  l >= trunc
  <2>1. CASE l \in 1..Len(log)
    BY <1>4, <1>1, <2>1 DEF Keeps
  <2>2. CASE l = Len(log) + 1
    BY <2>2, <1>1
  <2>. QED
    BY <2>1, <2>2, <1>1
<1>. QED
  BY <1>1, <1>3, <1>4 DEF Reflects

(* A record that names no page leaves every page as good as it was.        *)
LEMMA AppendQuiet ==
  ASSUME IInv, NEW r \in Records, r.page = NoPage, Grow(r),
         UNCHANGED <<trunc, mem, cache, disk, dirty, mode, cursor>>,
         flushed' \in flushed..Len(log'),
         NEW p \in Pages
  PROVE  PInv(p)'
<1>. DEFINE n == Len(log)
<1>1. /\ log \in Seq(Records) /\ n \in Nat /\ Len(log') = n + 1
      /\ \A i \in 1..n : log'[i] = log[i]
      /\ log'[n + 1] = r
  BY DEF IInv, TInv, TLog, Grow
<1>2. /\ mem[p] \in PageState /\ cache[p] \in PageState /\ disk[p] \in PageState
      /\ dirty[p] \in Int /\ mem[p].lsn \in Nat /\ cache[p].lsn \in Nat
      /\ disk[p].lsn \in Nat
      /\ trunc \in 1..(n + 1) /\ flushed \in Nat /\ cursor \in Nat
  BY <1>1 DEF IInv, TInv, TLog, TPage, TRestart, PageState
<1>3. PInv(p) /\ p # NoPage
  BY PageAssumption DEF IInv
<1>4. \A l \in 1..(n + 1) : log'[l].page = p => l \in 1..n /\ log[l].page = p
  BY <1>1, <1>3
<1>5. /\ (Reflects(mem[p], p) /\ Keeps(mem[p], p))'
      /\ (Reflects(cache[p], p) /\ Keeps(cache[p], p))'
      /\ (Reflects(disk[p], p) /\ Keeps(disk[p], p))'
  <2>1. /\ Reflects(mem[p], p) /\ Keeps(mem[p], p)
        /\ Reflects(cache[p], p) /\ Keeps(cache[p], p)
        /\ Reflects(disk[p], p) /\ Keeps(disk[p], p)
    BY <1>3 DEF PInv
  <2>2. (Reflects(mem[p], p) /\ Keeps(mem[p], p))'
    BY <2>1, <1>1, <1>2, AppendVersion DEF Reflects, Keeps
  <2>3. (Reflects(cache[p], p) /\ Keeps(cache[p], p))'
    BY <2>1, <1>1, <1>2, AppendVersion DEF Reflects, Keeps
  <2>4. (Reflects(disk[p], p) /\ Keeps(disk[p], p))'
    BY <2>1, <1>1, <1>2, AppendVersion DEF Reflects, Keeps
  <2>. QED
    BY <2>2, <2>3, <2>4
<1>6. (cache[p].lsn <= flushed /\ disk[p].lsn <= flushed)'
  BY <1>1, <1>2, <1>3 DEF PInv
<1>7. (\A l \in 1..Len(log) : log[l].page = p /\ l <= Upto => l <= mem[p].lsn)'
  <2>1. \A l \in 1..n : log[l].page = p /\ l <= Upto => l <= mem[p].lsn
    BY <1>3 DEF PInv
  <2>2. \A l \in 1..n : l <= Upto' => l <= Upto
    BY <1>1, <1>2 DEF Upto
  <2>. QED
    BY <1>1, <1>4, <2>1, <2>2
<1>8. (/\ dirty[p] <= mem[p].lsn
       /\ \A l \in 1..Len(log) :
            log[l].page = p /\ l > cache[p].lsn /\ l <= mem[p].lsn
              => dirty[p] # -1 /\ dirty[p] <= l)'
  BY <1>1, <1>3, <1>4 DEF PInv
<1>. QED
  BY <1>5, <1>6, <1>7, <1>8 DEF PInv

(* A record that names page q, applied to the buffered q.                  *)
LEMMA AppendOn ==
  ASSUME IInv, NEW q \in Pages, NEW r \in Records, r.page = q,
         Grow(r), mode \in {"run", "undo"},
         UNCHANGED <<flushed, trunc, cache, disk, mode, cursor>>,
         NEW S, S = Effect(log', q, Len(log) + 1),
         mem' = [mem EXCEPT ![q] = [lsn |-> Len(log) + 1, applied |-> S]],
         MarkDirty(q, Len(log) + 1),
         NEW p \in Pages
  PROVE  PInv(p)'
<1>. DEFINE n == Len(log)
<1>1. /\ log \in Seq(Records) /\ n \in Nat /\ Len(log') = n + 1
      /\ \A i \in 1..n : log'[i] = log[i]
      /\ log'[n + 1] = r
  BY DEF IInv, TInv, TLog, Grow
<1>2. /\ mem[p] \in PageState /\ cache[p] \in PageState /\ disk[p] \in PageState
      /\ dirty[p] \in Int /\ mem[p].lsn \in Nat /\ cache[p].lsn \in Nat
      /\ disk[p].lsn \in Nat
      /\ trunc \in 1..(n + 1) /\ flushed \in 0..n /\ cursor \in Nat
      /\ mem \in [Pages -> PageState] /\ dirty \in [Pages -> Int]
  BY <1>1 DEF IInv, TInv, TLog, TPage, TRestart, PageState
<1>3. PInv(p)
  BY DEF IInv
<1>4. /\ Reflects(mem[p], p) /\ Keeps(mem[p], p)
      /\ Reflects(cache[p], p) /\ Keeps(cache[p], p)
      /\ Reflects(disk[p], p) /\ Keeps(disk[p], p)
  BY <1>3 DEF PInv
<1>5. (Reflects(cache[p], p) /\ Keeps(cache[p], p))'
  BY <1>4, <1>1, <1>2, AppendVersion DEF Reflects, Keeps
<1>6. (Reflects(disk[p], p) /\ Keeps(disk[p], p))'
  BY <1>4, <1>1, <1>2, AppendVersion DEF Reflects, Keeps
<1>7. (cache[p].lsn <= flushed /\ disk[p].lsn <= flushed)'
  BY <1>3 DEF PInv
<1>8. \A l \in 1..n : log[l].page = p => l <= mem[p].lsn
  BY <1>3, <1>1 DEF PInv, Upto
<1>9. CASE p = q
  <2>1. mem'[p] = [lsn |-> n + 1, applied |-> S]
    BY <1>9, <1>2
  <2>2. (Reflects(mem[p], p) /\ Keeps(mem[p], p))'
    BY <2>1, <1>9, <1>1 DEF Reflects, Keeps
  <2>3. dirty'[p] = IF dirty[p] = -1 THEN n + 1 ELSE dirty[p]
    BY <1>9, <1>2 DEF MarkDirty, INVALID_LSN
  <2>4. \A l \in 1..n : log[l].page = p /\ l > cache[p].lsn
                          => dirty[p] # -1 /\ dirty[p] <= l
    BY <1>3, <1>8, <1>1, <1>2 DEF PInv
  <2>5. dirty[p] <= mem[p].lsn /\ mem[p].lsn <= n
    BY <1>3 DEF PInv, Reflects
  <2>6. ASSUME NEW l \in 1..(n + 1), log'[l].page = p, l > cache[p].lsn
        PROVE  dirty'[p] # -1 /\ dirty'[p] <= l
    <3>1. CASE l = n + 1
      BY <3>1, <2>3, <2>5, <1>1, <1>2
    <3>2. CASE l \in 1..n
      BY <3>2, <2>6, <2>3, <2>4, <1>1
    <3>. QED
      BY <3>1, <3>2, <1>1
  <2>7. dirty'[p] <= n + 1
    BY SMTT(30), <2>3, <2>5, <1>1, <1>2
  <2>. QED
    BY <1>1, <1>5, <1>6, <1>7, <2>1, <2>2, <2>6, <2>7 DEF PInv
<1>10. CASE p # q
  <2>1. mem'[p] = mem[p] /\ dirty'[p] = dirty[p]
    BY <1>10, <1>2 DEF MarkDirty
  <2>2. (Reflects(mem[p], p) /\ Keeps(mem[p], p))'
    BY <2>1, <1>4, <1>1, <1>2, AppendVersion DEF Reflects, Keeps
  <2>3. \A l \in 1..(n + 1) : log'[l].page = p => l \in 1..n /\ log[l].page = p
    BY <1>1, <1>10
  <2>4. /\ \A l \in 1..Len(log) : log[l].page = p /\ l > cache[p].lsn /\ l <= mem[p].lsn
                                 => dirty[p] # -1 /\ dirty[p] <= l
        /\ dirty[p] <= mem[p].lsn /\ cache' = cache
    BY Zenon, <1>3 DEF PInv
  <2>. QED
    BY ONLY SMTT(30), <1>1, <1>5, <1>6, <1>7, <1>8, <2>1, <2>2, <2>3, <2>4 DEF PInv
<1>. QED
  BY <1>9, <1>10

(* Steps that leave log and pages alone, but may force the log.            *)
LEMMA QuietPages ==
  ASSUME IInv, UNCHANGED <<log, trunc, mem, cache, disk, dirty>>,
         flushed' \in flushed..Len(log),
         \A l \in 1..Len(log) : l <= Upto' => l <= Upto,
         NEW p \in Pages
  PROVE  PInv(p)'
<1>1. PInv(p) /\ cache[p].lsn \in Nat /\ disk[p].lsn \in Nat /\ flushed \in Nat
  BY DEF IInv, TInv, TLog, TPage, PageState
<1>2. (Reflects(mem[p], p) /\ Reflects(cache[p], p) /\ Reflects(disk[p], p))'
  BY <1>1 DEF PInv, Reflects
<1>3. (Keeps(mem[p], p) /\ Keeps(cache[p], p) /\ Keeps(disk[p], p))'
  BY <1>1 DEF PInv, Keeps
<1>4. (cache[p].lsn <= flushed /\ disk[p].lsn <= flushed)'
  BY <1>1 DEF PInv
<1>5. (\A l \in 1..Len(log) : log[l].page = p /\ l <= Upto => l <= mem[p].lsn)'
  BY <1>1 DEF PInv
<1>6. (dirty[p] <= mem[p].lsn
       /\ \A l \in 1..Len(log) :
            log[l].page = p /\ l > cache[p].lsn /\ l <= mem[p].lsn
              => dirty[p] # -1 /\ dirty[p] <= l)'
  BY <1>1 DEF PInv
<1>. QED
  BY <1>2, <1>3, <1>4, <1>5, <1>6 DEF PInv

(* The walk goes on, starts or ends.                                       *)
NewWalk ==
  /\ undoLSN' \in Int /\ undoLSN' <= Len(log')
  /\ upc' \in {"idle", "walk", "logical"}
  /\ upc' # "idle" => undoXid' \in Xids /\ mode \in {"run", "undo"}
  /\ upc' = "logical" => undoLSN' \in 1..Len(log) /\ log[undoLSN'].page = NoPage

(* The parts of the invariant that do not mention pages, when a record is  *)
(* appended.                                                               *)
LEMMA AppendRest ==
  ASSUME IInv, NEW r, Appendable(r), Grow(r), trunc' = trunc,
         flushed' \in flushed..Len(log'), UNCHANGED restart,
         NewWalk \/ UNCHANGED <<upc, undoLSN, undoXid>>
  PROVE  LInv' /\ TLog' /\ TRestart' /\ WInv'
<1>1. r \in Records /\ log \in Seq(Records) /\ LInv
  BY DEF Appendable, IInv, TInv, TLog
<1>2. /\ log' \in Seq(Records) /\ Len(log) \in Nat /\ Len(log') = Len(log) + 1
  BY DEF Grow
<1>3. LInv'
  BY <1>1, AppendLog
<1>4. TLog'
  <2>1. flushed \in Nat /\ trunc \in Nat \ {0} /\ trunc - 1 <= flushed
    BY <1>2 DEF IInv, TInv, TLog
  <2>2. flushed' \in Nat /\ flushed <= flushed'
    BY <2>1, <1>2
  <2>3. flushed' \in 0..Len(log')
    BY <1>2, <2>2
  <2>4. trunc' \in Nat \ {0} /\ trunc' - 1 <= flushed'
    BY <2>1, <2>2
  <2>. QED
    BY <1>2, <2>3, <2>4 DEF TLog
<1>5. TRestart'
  BY <1>2 DEF IInv, TInv, TRestart, restart
<1>6. WInv'
  <2>1. mode' = mode
    BY DEF restart
  <2>2. CASE NewWalk
    <3>1. upc' = "logical" => undoLSN' \in 1..Len(log') /\ log'[undoLSN'].page = NoPage
      BY <2>2, <1>2 DEF NewWalk, Grow
    <3>. QED
      BY <2>1, <2>2, <3>1 DEF WInv, NewWalk
  <2>3. CASE UNCHANGED <<upc, undoLSN, undoXid>>
    <3>1. WInv
      BY DEF IInv
    <3>2. undoLSN \in Int /\ undoLSN <= Len(log')
      BY <1>2, <3>1 DEF WInv
    <3>3. upc = "logical" => undoLSN \in 1..Len(log') /\ log'[undoLSN].page = NoPage
      BY <1>2, <3>1 DEF WInv, Grow
    <3>. QED
      BY <2>1, <2>3, <3>1, <3>2, <3>3 DEF WInv
  <2>. QED
    BY <2>2, <2>3
<1>. QED
  BY <1>3, <1>4, <1>5, <1>6

(* One slot of the transaction table changes.                              *)
LEMMA SetSlot ==
  ASSUME TXact, Len(log) \in Nat, Len(log') \in Nat, Len(log) <= Len(log'),
         NEW x \in Xids, NEW v \in Slots, v.prevLSN <= Len(log'),
         xact' = [xact EXCEPT ![x] = v], nta' \in [Xids -> Int], ntaPrev' = ntaPrev
  PROVE  TXact'
<1>1. xact' \in [Xids -> Slots]
  BY DEF TXact
<1>2. \A y \in Xids : xact'[y].prevLSN <= Len(log')
  <2>1. \A y \in Xids : xact[y].prevLSN \in Int /\ xact[y].prevLSN <= Len(log)
    BY DEF TXact, Slots
  <2>2. \A y \in Xids : xact'[y] = IF y = x THEN v ELSE xact[y]
    BY DEF TXact
  <2>. QED
    BY <2>1, <2>2
<1>3. \A y \in Xids : ntaPrev[y] \in Int /\ ntaPrev[y] <= Len(log)
  BY DEF TXact
<1>4. \A y \in Xids : ntaPrev'[y] <= Len(log')
  BY <1>3
<1>. QED
  BY <1>1, <1>2, <1>4 DEF TXact

(* Pages and tables, when a record is appended.                            *)
LEMMA AppendTables ==
  ASSUME IInv, NEW r \in Records, Grow(r)
  PROVE  /\ UNCHANGED <<mem, cache, disk, dirty>> => TPage'
         /\ UNCHANGED <<xact, nta, ntaPrev>> => TXact'
         /\ \A x \in Xids :
              /\ xact' = Logged(x) /\ UNCHANGED <<nta, ntaPrev>> => TXact'
<1>1. /\ Len(log) \in Nat /\ Len(log') = Len(log) + 1
  BY DEF IInv, TInv, TLog, Grow
<1>2. UNCHANGED <<mem, cache, disk, dirty>> => TPage'
  BY <1>1 DEF IInv, TInv, TPage
<1>3. UNCHANGED <<xact, nta, ntaPrev>> => TXact'
  BY <1>1 DEF IInv, TInv, TXact, Slots
<1>4. ASSUME NEW x \in Xids, xact' = Logged(x), UNCHANGED <<nta, ntaPrev>>
      PROVE  TXact'
  <2>. DEFINE v == [active |-> xact[x].active, prevLSN |-> Len(log) + 1,
                    recLSN |-> IF xact[x].prevLSN = -1 THEN Len(log) + 1
                               ELSE xact[x].recLSN]
  <2>1. TXact
    BY DEF IInv, TInv
  <2>2. xact' = [xact EXCEPT ![x] = v]
    BY <1>4 DEF Logged, NextLSN, INVALID_LSN
  <2>3. v \in Slots /\ v.prevLSN <= Len(log')
    BY <1>1, <2>1 DEF TXact, Slots
  <2>4. nta' \in [Xids -> Int] /\ ntaPrev' = ntaPrev
    BY <1>4, <2>1 DEF TXact
  <2>5. Len(log) \in Nat /\ Len(log') \in Nat /\ Len(log) <= Len(log')
    BY <1>1
  <2>. HIDE DEF v
  <2>. QED
    BY ZenonT(30), <2>1, <2>2, <2>3, <2>4, <2>5, SetSlot
<1>. QED
  BY <1>2, <1>3, <1>4

(* What is said of the tables, the restart, the walk and the log depends   *)
(* on these variables only.                                                *)
LEMMA SameTables ==
  ASSUME IInv, log' = log
  PROVE  /\ xact' = xact /\ nta' = nta /\ ntaPrev' = ntaPrev => TXact'
         /\ mode' = mode /\ cursor' = cursor /\ rollbackLSNs' = rollbackLSNs => TRestart'
         /\ upc' = upc /\ undoLSN' = undoLSN /\ undoXid' = undoXid /\ mode' = mode => WInv'
         /\ LInv'
<1>1. TXact /\ TRestart /\ WInv /\ LInv /\ log' = log
  BY Zenon DEF IInv, TInv
<1>2. xact' = xact /\ nta' = nta /\ ntaPrev' = ntaPrev => TXact'
  BY ONLY <1>1 DEF TXact
<1>3. mode' = mode /\ cursor' = cursor /\ rollbackLSNs' = rollbackLSNs => TRestart'
  BY ONLY <1>1 DEF TRestart
<1>4. upc' = upc /\ undoLSN' = undoLSN /\ undoXid' = undoXid /\ mode' = mode => WInv'
  BY ONLY <1>1 DEF WInv
<1>5. LInv'
  BY ONLY <1>1 DEF LInv
<1> QED
  BY ONLY Zenon, <1>2, <1>3, <1>4, <1>5

(* The steps, one lemma for each kind.  First those that only change the   *)
(* transaction table.                                                      *)
LEMMA TableStep ==
  ASSUME IInv, NEW x \in Xids,
         Begin(x) \/ CommitReadOnly(x) \/ AbortReadOnly(x) \/ BeginNTA(x)
  PROVE  IInv'
<1>1. UNCHANGED <<store, restart, walk>>
  BY DEF Begin, CommitReadOnly, AbortReadOnly, BeginNTA
<1>2. /\ UNCHANGED <<log, trunc, mem, cache, disk, dirty, mode, cursor>>
      /\ UNCHANGED <<flushed, rollbackLSNs, upc, undoLSN, undoXid>>
  BY <1>1 DEF store, restart, walk
<1>3. log \in Seq(Records) /\ Len(log) \in Nat /\ flushed \in 0..Len(log) /\ TXact
  BY LenProperties DEF IInv, TInv, TLog
<1>3a. Len(log') \in Nat /\ Len(log) <= Len(log') /\ log' = log
  BY <1>2, <1>3
<1>4. \A p \in Pages : PInv(p)'
  <2>1. Upto' = Upto
    BY <1>2 DEF Upto
  <2>2. flushed' \in flushed..Len(log)
    BY <1>2, <1>3
  <2>. QED
    BY <1>2, <2>1, <2>2, QuietPages
<1>5. (TLog /\ TPage /\ TRestart /\ WInv /\ LInv)'
  <2>1. (TRestart /\ WInv /\ LInv)'
    BY Zenon, <1>2, SameTables
  <2>2. (TLog /\ TPage)'
    BY <1>2 DEF IInv, TInv, TLog, TPage
  <2>. QED
    BY ONLY Zenon, <2>1, <2>2
<1>6. TXact'
  <2>1. nta' \in [Xids -> Int]
    BY <1>3 DEF TXact, Begin, CommitReadOnly, AbortReadOnly, BeginNTA
  <2>2. NewSlot \in Slots /\ FreeSlot \in Slots /\ NewSlot.prevLSN <= Len(log')
        /\ FreeSlot.prevLSN <= Len(log')
    BY <1>3a DEF NewSlot, FreeSlot, Slots, INVALID_LSN
  <2>3. CASE Begin(x)
    <3>1. xact' = [xact EXCEPT ![x] = NewSlot] /\ ntaPrev' = ntaPrev
      BY <2>3 DEF Begin
    <3>. QED
      BY ZenonT(30), <2>1, <2>2, <3>1, <1>3, <1>3a, SetSlot
  <2>4. CASE CommitReadOnly(x) \/ AbortReadOnly(x)
    <3>1. xact' = [xact EXCEPT ![x] = FreeSlot] /\ ntaPrev' = ntaPrev
      BY <2>4 DEF CommitReadOnly, AbortReadOnly
    <3>. QED
      BY ZenonT(30), <2>1, <2>2, <3>1, <1>3, <1>3a, SetSlot
  <2>5. CASE BeginNTA(x)
    <3>1. xact' = xact /\ ntaPrev' = [ntaPrev EXCEPT ![x] = xact[x].prevLSN]
      BY <2>5 DEF BeginNTA
    <3>2. xact[x].prevLSN \in Int /\ xact[x].prevLSN <= Len(log)
      BY <1>3 DEF TXact, Slots
    <3>. QED
      BY <2>1, <3>1, <3>2, <1>2, <1>3 DEF TXact
  <2>. QED
    BY <2>3, <2>4, <2>5
<1>. QED
  BY <1>4, <1>5, <1>6 DEF IInv, TInv

(* A record that is no CLR and is linked into the log may be appended.     *)
LEMMA FreshRecord ==
  ASSUME NEW t \in Types \ {"CLRLOG"}, NEW x \in Xids,
         NEW prev \in Int, prev <= Len(log),
         NEW p \in Pages \cup {NoPage}, p # NoPage => t = "UPDATELOG",
         NEW c \in Int, NEW rec \in Int, NEW b \in Int, NEW i \in Int,
         NEW r, r = [type |-> t, xid |-> x, prevLSN |-> prev, page |-> p,
                     comp |-> c, rec |-> rec, body |-> b, inv |-> i]
  PROVE  r \in Records /\ Appendable(r) /\ r.page = p
<1>1. r \in Records
  BY DEF Records
<1>2. r.type = t /\ r.page = p /\ r.prevLSN = prev
  OBVIOUS
<1>. QED
  BY <1>1, <1>2 DEF Appendable

(* The records that the steps write.                                       *)
LEMMA RecordOK ==
  ASSUME IInv, NEW x \in Xids, NEW prev \in Int, prev <= Len(log)
  PROVE  /\ \A type \in Types \ {"CLRLOG"} :
              Record(type, x, prev) \in Records /\ Appendable(Record(type, x, prev))
         /\ \A p \in Pages, i \in Int :
              /\ UpdateRecord(x, prev, p, i) \in Records
              /\ Appendable(UpdateRecord(x, prev, p, i))
         /\ \A b \in Int :
              /\ LogicalRecord(x, prev, b) \in Records
              /\ Appendable(LogicalRecord(x, prev, b))
<1>1. "UPDATELOG" \in Types \ {"CLRLOG"} /\ -1 \in Int /\ 0 \in Int
  BY DEF Types
<1>2. ASSUME NEW type \in Types \ {"CLRLOG"}
      PROVE  Record(type, x, prev) \in Records /\ Appendable(Record(type, x, prev))
  <2>1. Record(type, x, prev) =
          [type |-> type, xid |-> x, prevLSN |-> prev, page |-> NoPage,
           comp |-> -1, rec |-> -1, body |-> 0, inv |-> 0]
    BY DEF Record, INVALID_LSN
  <2>. QED
    BY <1>1, <2>1, FreshRecord
<1>3. ASSUME NEW p \in Pages, NEW i \in Int
      PROVE  UpdateRecord(x, prev, p, i) \in Records
             /\ Appendable(UpdateRecord(x, prev, p, i))
  <2>1. UpdateRecord(x, prev, p, i) =
          [type |-> "UPDATELOG", xid |-> x, prevLSN |-> prev, page |-> p,
           comp |-> -1, rec |-> -1, body |-> 0, inv |-> i]
    BY DEF UpdateRecord, INVALID_LSN
  <2>. QED
    BY <1>1, <2>1, FreshRecord
<1>4. ASSUME NEW b \in Int
      PROVE  LogicalRecord(x, prev, b) \in Records
             /\ Appendable(LogicalRecord(x, prev, b))
  <2>1. LogicalRecord(x, prev, b) =
          [type |-> "UPDATELOG", xid |-> x, prevLSN |-> prev, page |-> NoPage,
           comp |-> -1, rec |-> -1, body |-> b, inv |-> 0]
    BY DEF LogicalRecord, INVALID_LSN
  <2>. QED
    BY <1>1, <2>1, FreshRecord
<1>. QED
  BY <1>2, <1>3, <1>4

(* The record that Tprepare writes may be appended.                        *)
LEMMA PrepareRecordOK ==
  ASSUME NEW x \in Xids, NEW prev \in Int, prev <= Len(log), NEW rec \in Int
  PROVE  /\ PrepareRecord(x, prev, rec) \in Records
         /\ Appendable(PrepareRecord(x, prev, rec))
         /\ PrepareRecord(x, prev, rec).page = NoPage
<1>1. "XPREPARE" \in Types \ {"CLRLOG"} /\ -1 \in Int /\ 0 \in Int
  BY DEF Types
<1>2. PrepareRecord(x, prev, rec) =
        [type |-> "XPREPARE", xid |-> x, prevLSN |-> prev, page |-> NoPage,
         comp |-> -1, rec |-> rec, body |-> 0, inv |-> 0]
  BY DEF PrepareRecord, INVALID_LSN
<1>. QED
  BY <1>1, <1>2, FreshRecord

(* The steps that append a record which names no page.                     *)
LEMMA QuietAppend ==
  ASSUME IInv, NEW r, Appendable(r), r.page = NoPage, log' = Append(log, r),
         UNCHANGED <<trunc, mem, cache, disk, dirty>>,
         flushed' \in flushed..Len(log'), UNCHANGED restart,
         NewWalk \/ UNCHANGED <<upc, undoLSN, undoXid>>,
         Grow(r) => TXact'
  PROVE  IInv'
<1>1. r \in Records /\ log \in Seq(Records)
  BY DEF Appendable, IInv, TInv, TLog
<1>2. Grow(r)
  BY <1>1, AppendFacts
<1>3. LInv' /\ TLog' /\ TRestart' /\ WInv'
  BY <1>2, AppendRest
<1>4. TPage'
  BY <1>1, <1>2, AppendTables
<1>5. UNCHANGED <<mode, cursor>>
  BY DEF restart
<1>6. \A p \in Pages : PInv(p)'
  BY <1>1, <1>2, <1>5, AppendQuiet
<1>. QED
  BY <1>2, <1>3, <1>4, <1>6 DEF IInv, TInv

(* A slot is released as a record is appended.                             *)
LEMMA Released ==
  ASSUME IInv, NEW r, Grow(r), NEW x \in Xids, xact' = [xact EXCEPT ![x] = FreeSlot],
         UNCHANGED <<nta, ntaPrev>>
  PROVE  TXact'
<1>1. TXact /\ Len(log) \in Nat /\ Len(log') \in Nat /\ Len(log) <= Len(log')
  BY DEF IInv, TInv, Grow
<1>2. FreeSlot \in Slots /\ FreeSlot.prevLSN <= Len(log')
  BY <1>1 DEF FreeSlot, Slots, INVALID_LSN
<1>3. nta' \in [Xids -> Int] /\ ntaPrev' = ntaPrev
  BY <1>1 DEF TXact
<1>. QED
  BY ZenonT(30), <1>1, <1>2, <1>3, SetSlot

(* What every client step knows.                                           *)
LEMMA Basics ==
  ASSUME IInv
  PROVE  /\ log \in Seq(Records) /\ Len(log) \in Nat /\ flushed \in 0..Len(log)
         /\ \A x \in Xids : /\ xact[x].prevLSN \in Int /\ xact[x].prevLSN <= Len(log)
                            /\ ntaPrev[x] \in Int /\ ntaPrev[x] <= Len(log)
         /\ undoLSN \in Int /\ undoLSN <= Len(log) /\ TXact
<1>1. log \in Seq(Records) /\ Len(log) \in Nat /\ flushed \in 0..Len(log)
  BY LenProperties DEF IInv, TInv, TLog
<1>. QED
  BY <1>1 DEF IInv, TInv, TXact, Slots, WInv

(* While transactions run or are undone, the buffered pages are up to date *)
(* with the whole log.                                                     *)
LEMMA CurrentPages ==
  ASSUME IInv, mode \in {"run", "undo"}, NEW p \in Pages
  PROVE  mem[p].applied = Effect(log, p, Len(log))
<1>1. PInv(p) /\ p # NoPage /\ Len(log) \in Nat /\ LInv
  BY PageAssumption, Basics DEF IInv
<1>2. mem[p].lsn \in Nat /\ mem[p].lsn <= Len(log)
      /\ mem[p].applied = Effect(log, p, mem[p].lsn)
  <2>1. mem[p] \in PageState
    BY DEF IInv, TInv, TPage
  <2>. QED
    BY <1>1, <2>1 DEF PageState, PInv, Reflects
<1>3. \A l \in (mem[p].lsn + 1)..Len(log) : log[l].page # p
  BY <1>1, <1>2 DEF PInv, Upto
<1>. QED
  BY <1>1, <1>2, <1>3, CLRPages, EffectSkip

(* The record that the walk is on.                                         *)
LEMMA WalkRecord ==
  ASSUME IInv, NEW l \in Int, l = undoLSN, 1 <= l
  PROVE  /\ l \in 1..Len(log)
         /\ log[l] \in Records
         /\ log[l].xid \in Xids
         /\ log[l].prevLSN \in Int /\ log[l].prevLSN < l /\ log[l].prevLSN <= Len(log)
         /\ log[l].page \in Pages \cup {NoPage}
<1>1. log \in Seq(Records) /\ Len(log) \in Nat /\ undoLSN <= Len(log)
  BY Basics
<1>2. l \in 1..Len(log)
  BY <1>1
<1>3. log[l] \in Records
  BY <1>1, <1>2, ElementOfSeq
<1>4. log[l].prevLSN < l
  BY <1>2 DEF IInv, LInv
<1>5. log[l].xid \in Xids /\ log[l].prevLSN \in Int
      /\ log[l].page \in Pages \cup {NoPage}
  BY <1>3 DEF Records
<1>. QED
  BY <1>1, <1>2, <1>3, <1>4, <1>5

(* What a step of the walk knows.                                          *)
LEMMA OnWalk ==
  ASSUME IInv, NEW type, Walking(type)
  PROVE  /\ undoLSN \in 1..Len(log) /\ log[undoLSN] \in Records
         /\ log[undoLSN].xid \in Xids /\ log[undoLSN].type = type
         /\ log[undoLSN].prevLSN \in Int /\ log[undoLSN].prevLSN <= Len(log)
         /\ log[undoLSN].page \in Pages \cup {NoPage}
         /\ upc = "walk" /\ undoXid \in Xids /\ mode \in {"run", "undo"}
<1>1. undoLSN \in Int /\ trunc \in Nat \ {0} /\ undoLSN >= trunc
  BY Basics DEF Walking, IInv, TInv, TLog
<1>2. 1 <= undoLSN
  BY <1>1
<1>. QED
  BY <1>1, <1>2, WalkRecord DEF Walking, IInv, WInv

(* RollForward changes one slot.                                           *)
LEMMA RollForwardOK ==
  ASSUME IInv, NEW x \in Xids, NEW l \in Int, l <= Len(log), RollForward(x, l),
         Len(log') \in Nat, Len(log) <= Len(log'), UNCHANGED <<nta, ntaPrev>>
  PROVE  TXact'
<1>. DEFINE v == [active |-> TRUE, prevLSN |-> l,
                  recLSN |-> IF xact[x].active THEN xact[x].recLSN ELSE l]
<1>1. TXact /\ Len(log) \in Nat
  BY Basics
<1>2. xact' = [xact EXCEPT ![x] = v]
  BY DEF RollForward
<1>3. v \in Slots /\ v.prevLSN <= Len(log')
  BY <1>1 DEF TXact, Slots
<1>4. nta' \in [Xids -> Int] /\ ntaPrev' = ntaPrev
  BY <1>1 DEF TXact
<1>. HIDE DEF v
<1>. QED
  BY ZenonT(30), <1>1, <1>2, <1>3, <1>4, SetSlot

(* Steps that append nothing and leave the pages alone.                    *)
LEMMA QuietStep ==
  ASSUME IInv, UNCHANGED <<log, trunc, mem, cache, disk, dirty>>,
         flushed' \in flushed..Len(log), TXact', TRestart',
         \A l \in 1..Len(log) : l <= Upto' => l <= Upto,
         \/ NewWalk /\ UNCHANGED mode
         \/ UNCHANGED <<upc, undoLSN, undoXid>> /\ (upc = "idle" \/ UNCHANGED mode)
  PROVE  IInv'
<1>1. \A p \in Pages : PInv(p)'
  BY QuietPages
<1>2. TLog'
  <2>1. flushed \in Nat /\ trunc \in Nat \ {0} /\ trunc - 1 <= flushed
        /\ Len(log) \in Nat
    BY Basics DEF IInv, TInv, TLog
  <2>2. flushed' \in Nat /\ flushed <= flushed' /\ flushed' \in 0..Len(log)
    BY <2>1
  <2>3. trunc - 1 <= flushed'
    BY <2>1, <2>2
  <2>. QED
    BY <2>1, <2>2, <2>3 DEF IInv, TInv, TLog
<1>3. TPage' /\ LInv'
  <2>1. TPage'
    BY DEF IInv, TInv, TPage
  <2>. QED
    BY Zenon, <2>1, SameTables
<1>4. WInv'
  BY DEF IInv, WInv, NewWalk
<1>. QED
  BY <1>1, <1>2, <1>3, <1>4 DEF IInv, TInv

=============================================================================
