-------------------------- MODULE TruncationProofs --------------------------
(***************************************************************************)
(* With the safe-writes log, for any number of threads, pages and records: *)
(* truncation keeps every update that the page file lacks, an incremental  *)
(* one keeps what running transactions need for rollback, and the log is   *)
(* cut within its stable part.                                             *)
(***************************************************************************)
EXTENDS Truncation, WellFoundedInduction, TLAPS

(* A set of numbers has a least one, which is what Min chooses.            *)
LEMMA MinIsLeast ==
  ASSUME NEW S \in SUBSET Nat, S # {}
  PROVE  Min(S) \in S /\ \A y \in S : Min(S) <= y
<1>. DEFINE R == {ss \in Nat \X Nat : ss[1] < ss[2]}
<1>1. IsWellFoundedOn(R, Nat)
  BY Zenon, NatLessThanWellFounded DEF OpToRel
<1>2. PICK x \in S : \A y \in S : ~(<<y, x>> \in R)
  BY Zenon, <1>1, WFMin
<1>3. ASSUME NEW y \in S PROVE x <= y
  <2>1. ~(<<y, x>> \in R)
    BY Zenon, <1>2
  <2>2. y \in Nat /\ x \in Nat /\ <<y, x>> \in Nat \X Nat
    OBVIOUS
  <2>3. ~(y < x)
    BY Zenon, <2>1, <2>2
  <2> QED
    BY <2>2, <2>3
<1> QED
  BY Zenon, <1>3 DEF Min

(* The larger of two numbers.                                              *)
LEMMA MaxOfTwo ==
  ASSUME NEW a \in Nat, NEW b \in Nat
  PROVE  Max({a, b}) = IF a < b THEN b ELSE a
BY DEF Max

(* A bound that grows stays a bound.                                       *)
LEMMA StaysBelow ==
  ASSUME NEW a \in Nat, NEW b \in Nat, NEW c \in Nat, a <= b, c <= a + 1
  PROVE  c <= b + 1
OBVIOUS

(* And so does one that is below another.                                  *)
LEMMA Below ==
  ASSUME NEW a \in Nat, NEW b \in Nat, NEW c \in Nat, a <= b, b <= c
  PROVE  a <= c
OBVIOUS

-----------------------------------------------------------------------------
(* A thread at a label has logged a record and keeps its page latched; has *)
(* not applied it yet; and has logged an update that it has not applied.   *)
InFlight == {"reserved", "written", "linked", "applied", "clr"}
Unapplied == {"reserved", "written", "linked", "clr"}
Updating == {"reserved", "written", "linked"}
Labels == InFlight \cup {"idle", "committing", "undoing"}
TLabels == {"idle", "pages", "xacts", "flushed", "decide", "repages", "force", "cut"}

Records == [kind : {"update", "clr", "xact"}, page : Pages \cup {NoPage}]
LSNs == 1..Len(log)

Types ==
  /\ log \in Seq(Records) /\ flushed \in Nat /\ trunc \in Nat
  /\ lsn \in [Pages -> Nat] /\ written \in [Pages -> Nat] /\ forced \in [Pages -> Nat]
  /\ dirty \in [Pages -> Nat \cup {INVALID_LSN}]
  /\ pc \in [Threads -> Labels] /\ cur \in [Threads -> Nat]
  /\ recLSN \in [Threads -> Nat \cup {INVALID_LSN}] /\ undo \in [Threads -> Seq(Pages)]
  /\ tpc \in TLabels /\ incremental \in BOOLEAN
  /\ applied \in Nat /\ pageRec \in Nat /\ xactRec \in Nat /\ flushedLSN \in Nat

(* A thread in flight works on a record of a page, and no two on one page. *)
FlightOK == \A t \in Threads : pc[t] \in InFlight =>
              /\ cur[t] \in LSNs /\ Page(t) \in Pages
              /\ pc[t] = "clr" => log[cur[t]].kind = "clr" /\ undo[t] # << >>
OnePerPage == \A t, u \in Threads :
                t # u /\ pc[t] \in InFlight /\ pc[u] \in InFlight => Page(t) # Page(u)

(* A record is on its page or with the thread that will apply it.          *)
OnPage == \A l \in LSNs : log[l].page \in Pages =>
            \/ l <= lsn[log[l].page]
            \/ \E t \in Threads : pc[t] \in Unapplied /\ cur[t] = l
NotYet == \A t \in Threads : pc[t] \in Unapplied => lsn[Page(t)] < cur[t]

(* What is on a page but not written is after the page's recLSN.           *)
DirtyCovers == \A l \in LSNs :
                 LET p == log[l].page IN
                 p \in Pages /\ written[p] < l /\ l <= lsn[p] =>
                   dirty[p] # INVALID_LSN /\ dirty[p] <= l
PagesOK == \A p \in Pages :
             /\ forced[p] <= written[p] /\ written[p] <= lsn[p] /\ written[p] <= flushed
             /\ lsn[p] <= Len(log)
             /\ dirty[p] # INVALID_LSN => dirty[p] <= lsn[p]

PageInv == FlightOK /\ OnePerPage /\ OnPage /\ NotYet /\ DirtyCovers /\ PagesOK

(* What the truncation thread has read stays a lower bound: no update      *)
(* before applied is in flight, every one before pageRec too is written,   *)
(* and on disk once pages have been forced.                                *)
StableOK == /\ flushed <= Len(log) /\ 1 <= trunc /\ trunc <= flushed + 1
            /\ flushedLSN <= flushed + 1
AppliedLow == /\ applied <= Len(log) + 1
              /\ \A t \in Threads : pc[t] \in Updating => applied <= cur[t]
Before(l) == log[l].kind = "update" /\ log[l].page \in Pages /\ l < applied /\ l < pageRec
Saved == /\ \A l \in LSNs : Before(l) => l <= written[log[l].page]
         /\ tpc = "cut" => \A l \in LSNs : Before(l) => l <= forced[log[l].page]
         /\ tpc \in {"idle", "pages", "repages"} => pageRec = 1

(* The records of running transactions are after applied or xactRec, until *)
(* the flush of the second branch.                                         *)
UndoKept ==
  /\ xactRec <= LSN_T_MAX
  /\ tpc = "repages" => ~incremental
  /\ tpc \in {"force", "cut"} /\ incremental => trunc < Target
  /\ tpc \in {"flushed", "decide"} \/ (tpc \in {"force", "cut"} /\ incremental) =>
       \A t \in Threads : applied <= FirstRecord(t) \/ xactRec <= FirstRecord(t)

TruncInv == StableOK /\ AppliedLow /\ Saved /\ UpdatesKept /\ UndoKept

IInv == Types /\ PageInv /\ TruncInv

-----------------------------------------------------------------------------
(* The log keeps its records.                                              *)
Grows == Len(log') \in Nat /\ Len(log) <= Len(log') /\ \A l \in LSNs : log'[l] = log[l]

(* What appending a record does to the log.                                *)
LEMMA Appended ==
  ASSUME Types, NEW k \in {"update", "clr", "xact"}, NEW p \in Pages \cup {NoPage},
         LogWrite(k, p)
  PROVE  /\ log' \in Seq(Records) /\ Len(log) \in Nat /\ Len(log') = Len(log) + 1 /\ Grows
         /\ log'[Len(log) + 1].kind = k /\ log'[Len(log) + 1].page = p
<1>1. log \in Seq(Records) /\ [kind |-> k, page |-> p] \in Records
  BY Zenon DEF Types, Records
<1>2. log' = Append(log, [kind |-> k, page |-> p])
  BY Zenon DEF LogWrite
<1> QED
  BY <1>1, <1>2 DEF Grows, LSNs

(* Threads, write-back and the flush of the log only add to what the       *)
(* truncation thread may rely on.                                          *)
Monotone ==
  /\ UNCHANGED truncv /\ Grows
  /\ flushed <= flushed' /\ flushed' <= Len(log')
  /\ forced' = forced /\ \A p \in Pages : written[p] <= written'[p]
  /\ \A t \in Threads : pc'[t] \in Updating =>
       (pc[t] \in Updating /\ cur'[t] = cur[t]) \/ cur'[t] = Len(log) + 1
  /\ \A t \in Threads : FirstRecord(t)' \in {FirstRecord(t), LSN_T_MAX, Len(log) + 1}

(* So they keep it right.                                                  *)
LEMMA MonotoneTrunc ==
  ASSUME IInv, Types', Monotone
  PROVE  TruncInv'
<1>1. /\ trunc' = trunc /\ tpc' = tpc /\ incremental' = incremental /\ applied' = applied
      /\ pageRec' = pageRec /\ xactRec' = xactRec /\ flushedLSN' = flushedLSN
  BY Zenon DEF Monotone, truncv, readv
<1>2. /\ Len(log) \in Nat /\ Len(log') \in Nat /\ Len(log) <= Len(log')
      /\ \A l \in LSNs : log'[l] = log[l]
      /\ flushed \in Nat /\ flushed' \in Nat /\ flushed <= flushed' /\ flushed' <= Len(log')
      /\ trunc \in Nat /\ applied \in Nat /\ pageRec \in Nat /\ xactRec \in Nat /\ flushedLSN \in Nat
  BY DEF Monotone, Grows, IInv, Types
<1>3. flushed <= Len(log) /\ 1 <= trunc /\ trunc <= flushed + 1 /\ flushedLSN <= flushed + 1
  BY Zenon DEF IInv, TruncInv, StableOK
<1>4. StableOK'
  <2>1. 1 <= trunc /\ trunc <= flushed' + 1 /\ flushedLSN <= flushed' + 1
    BY Zenon, <1>2, <1>3, StaysBelow
  <2> QED
    BY Zenon, <1>1, <1>2, <2>1 DEF StableOK
<1>5. applied <= Len(log) + 1 /\ \A t \in Threads : pc[t] \in Updating => applied <= cur[t]
  BY Zenon DEF IInv, TruncInv, AppliedLow
<1>6. AppliedLow'
  BY <1>1, <1>2, <1>5 DEF AppliedLow, Monotone
<1>7. ASSUME NEW l \in LSNs', Before(l)'
      PROVE  l \in LSNs /\ Before(l) /\ log'[l] = log[l] /\ log[l].page \in Pages
  BY <1>1, <1>2, <1>5, <1>7 DEF Before, LSNs
<1>8. Saved'
  <2>1. \A l \in LSNs' : Before(l)' => l <= written'[log'[l].page]
    <3>. SUFFICES ASSUME NEW l \in LSNs', Before(l)' PROVE l <= written'[log'[l].page]
      OBVIOUS
    <3>1. l \in LSNs /\ Before(l) /\ log'[l] = log[l] /\ log[l].page \in Pages
      BY Zenon, <1>7
    <3>2. /\ l <= written[log[l].page] /\ written[log[l].page] <= written'[log[l].page]
          /\ written[log[l].page] \in Nat /\ written'[log[l].page] \in Nat /\ l \in Nat
      BY <3>1 DEF IInv, TruncInv, Saved, Monotone, Types, LSNs
    <3> QED
      BY <3>1, <3>2
  <2>2. tpc' = "cut" => \A l \in LSNs' : Before(l)' => l <= forced'[log'[l].page]
    BY Zenon, <1>1, <1>7 DEF IInv, TruncInv, Saved, Monotone
  <2> QED
    BY Zenon, <1>1, <2>1, <2>2 DEF IInv, TruncInv, Saved
<1>9. UpdatesKept'
  <2>. SUFFICES ASSUME NEW l \in LSNs', log'[l].kind = "update", Needed(l)'
                PROVE  l >= trunc'
    BY Zenon DEF UpdatesKept, LSNs
  <2>1. CASE l \in LSNs
    <3>1. log'[l] = log[l] /\ Needed(l)
      BY Zenon, <1>2, <2>1 DEF Needed, Monotone
    <3> QED
      BY Zenon, <1>1, <2>1, <3>1 DEF IInv, TruncInv, UpdatesKept, LSNs
  <2>2. CASE l \notin LSNs
    BY <1>1, <1>2, <1>3, <2>2 DEF LSNs
  <2> QED
    BY Zenon, <2>1, <2>2
<1>10. UndoKept'
  <2>1. Target' = Target
    BY Zenon, <1>1 DEF Target
  <2>2. ASSUME NEW t \in Threads, applied <= FirstRecord(t) \/ xactRec <= FirstRecord(t)
        PROVE  (applied <= FirstRecord(t)' \/ xactRec <= FirstRecord(t)')
    BY Zenon, <1>5, <2>2 DEF Monotone, IInv, TruncInv, UndoKept
  <2> QED
    BY Zenon, <1>1, <2>1, <2>2 DEF IInv, TruncInv, UndoKept
<1> QED
  BY Zenon, <1>4, <1>6, <1>8, <1>9, <1>10 DEF TruncInv

-----------------------------------------------------------------------------
(* The minima that the code computes: no pending entry is before the first *)
(* one, nor a recLSN before the minimum of its table.                      *)
LEMMA FirstPendingLow ==
  ASSUME Types
  PROVE  /\ FirstPending \in Nat /\ FirstPending <= Len(log) + 1
         /\ \A t \in Threads : pc[t] \in Pending => FirstPending <= cur[t]
<1>. DEFINE S == {cur[t] : t \in {u \in Threads : pc[u] \in Pending}} \cup {NextLSN}
<1>1. Len(log) \in Nat /\ NextLSN \in Nat
  BY DEF Types, NextLSN
<1>2. S \in SUBSET Nat /\ S # {} /\ NextLSN \in S
  BY Zenon, <1>1 DEF Types
<1>3. Min(S) \in S /\ \A y \in S : Min(S) <= y
  BY Zenon, <1>2, MinIsLeast
<1>4. FirstPending = Min(S)
  BY Zenon DEF FirstPending
<1>5. \A t \in Threads : pc[t] \in Pending => cur[t] \in S
  OBVIOUS
<1>6. FirstPending \in Nat /\ FirstPending <= NextLSN
  BY Zenon, <1>2, <1>3, <1>4
<1>. HIDE DEF S
<1> QED
  BY Zenon, <1>3, <1>4, <1>5, <1>6 DEF NextLSN

(* Only records of the log can become stable.                              *)
LEMMA WritableInLog ==
  ASSUME Types, FlightOK
  PROVE  Writable \in Nat /\ Writable <= Len(log)
<1>. DEFINE S == {cur[t] : t \in {u \in Threads : pc[u] = "reserved"}} \cup {NextLSN}
<1>1. Len(log) \in Nat /\ NextLSN \in Nat /\ NextLSN = Len(log) + 1
  BY DEF Types, NextLSN
<1>2. S \in SUBSET Nat /\ S # {} /\ NextLSN \in S
  BY Zenon, <1>1 DEF Types
<1>3. \A y \in S : 1 <= y
  BY <1>1 DEF FlightOK, InFlight, LSNs
<1>4. Min(S) \in S /\ \A y \in S : Min(S) <= y
  BY Zenon, <1>2, MinIsLeast
<1>5. Writable = Min(S) - 1
  BY Zenon DEF Writable
<1>6. Min(S) \in Nat /\ 1 <= Min(S) /\ Min(S) <= NextLSN
  BY Zenon, <1>2, <1>3, <1>4
<1>. HIDE DEF S
<1> QED
  BY <1>1, <1>5, <1>6

(* The oldest recLSN of the dirty pages.                                   *)
LEMMA PageMinLow ==
  ASSUME Types
  PROVE  /\ PageMinRecLSN \in Nat
         /\ \A p \in Pages : dirty[p] # INVALID_LSN => PageMinRecLSN <= dirty[p]
<1>. DEFINE S == ({dirty[p] : p \in Pages} \ {INVALID_LSN}) \cup {LSN_T_MAX}
<1>1. S \in SUBSET Nat /\ S # {}
  BY Zenon, BoundAssumption DEF Types
<1>2. Min(S) \in S /\ \A y \in S : Min(S) <= y
  BY Zenon, <1>1, MinIsLeast
<1>3. PageMinRecLSN = Min(S)
  BY Zenon DEF PageMinRecLSN
<1>4. \A p \in Pages : dirty[p] # INVALID_LSN => dirty[p] \in S
  OBVIOUS
<1>. HIDE DEF S
<1> QED
  BY Zenon, <1>1, <1>2, <1>3, <1>4

(* The oldest recLSN of the transaction table.                             *)
LEMMA XactMinLow ==
  ASSUME Types
  PROVE  /\ XactMinRecLSN \in Nat /\ XactMinRecLSN <= LSN_T_MAX
         /\ \A t \in Threads : recLSN[t] # INVALID_LSN => XactMinRecLSN <= recLSN[t]
<1>. DEFINE S == ({recLSN[t] : t \in Threads} \ {INVALID_LSN}) \cup {LSN_T_MAX}
<1>1. S \in SUBSET Nat /\ S # {} /\ LSN_T_MAX \in S
  BY Zenon, BoundAssumption DEF Types
<1>2. Min(S) \in S /\ \A y \in S : Min(S) <= y
  BY Zenon, <1>1, MinIsLeast
<1>3. XactMinRecLSN = Min(S)
  BY Zenon DEF XactMinRecLSN
<1>4. \A t \in Threads : recLSN[t] # INVALID_LSN => recLSN[t] \in S
  OBVIOUS
<1>. HIDE DEF S
<1> QED
  BY Zenon, <1>1, <1>2, <1>3, <1>4

(* Where the log is to be cut: no further than any of the four values.     *)
LEMMA TargetLow ==
  ASSUME Types
  PROVE  /\ Target \in Nat /\ Target <= applied /\ Target <= pageRec
         /\ Target <= xactRec /\ Target <= flushedLSN
<1>. DEFINE S == {applied, pageRec, xactRec, flushedLSN}
<1>1. S \in SUBSET Nat /\ S # {}
  BY Zenon DEF Types
<1>2. Min(S) \in S /\ \A y \in S : Min(S) <= y
  BY Zenon, <1>1, MinIsLeast
<1>3. Target = Min(S)
  BY Zenon DEF Target
<1> QED
  BY Zenon, <1>1, <1>2, <1>3

-----------------------------------------------------------------------------
(* A step that applies nothing: what it logs belongs to no page, a thread  *)
(* keeps its record and latch or gives them up once they are applied.      *)
Moves ==
  /\ Grows /\ lsn' = lsn /\ written' = written /\ dirty' = dirty
  /\ forced' \in {forced, written} /\ flushed <= flushed'
  /\ \A l \in LSNs' : l \notin LSNs => log'[l].page \notin Pages
  /\ \A t \in Threads :
       /\ pc'[t] \in InFlight => pc[t] \in InFlight /\ cur'[t] = cur[t]
       /\ pc'[t] = "clr" => pc[t] = "clr" /\ undo'[t] = undo[t]
       /\ pc'[t] \in Unapplied <=> pc[t] \in Unapplied

(* It keeps pages, records and threads in line.                            *)
LEMMA MovePages ==
  ASSUME IInv, Types', Moves
  PROVE  PageInv'
<1>1. /\ Len(log) \in Nat /\ Len(log') \in Nat /\ Len(log) <= Len(log')
      /\ \A l \in LSNs : log'[l] = log[l] /\ l \in LSNs'
  BY DEF Moves, Grows, IInv, Types, LSNs
<1>2. Unapplied \subseteq InFlight /\ "clr" \in Unapplied
  BY Zenon DEF Unapplied, InFlight
<1>3. ASSUME NEW t \in Threads, pc'[t] \in InFlight
      PROVE  pc[t] \in InFlight /\ cur'[t] = cur[t] /\ cur[t] \in LSNs /\ Page(t)' = Page(t)
             /\ Page(t) \in Pages
  BY Zenon, <1>1, <1>3 DEF Moves, IInv, PageInv, FlightOK, Page
<1>4. FlightOK'
  <2>. SUFFICES ASSUME NEW t \in Threads, pc'[t] \in InFlight
                PROVE  /\ cur'[t] \in LSNs' /\ Page(t)' \in Pages
                       /\ pc'[t] = "clr" => log'[cur'[t]].kind = "clr" /\ undo'[t] # << >>
    BY Zenon DEF FlightOK
  <2>1. pc'[t] = "clr" => pc[t] = "clr" /\ undo'[t] = undo[t]
    BY Zenon DEF Moves
  <2> QED
    BY Zenon, <1>1, <1>3, <2>1 DEF IInv, PageInv, FlightOK
<1>5. OnePerPage'
  BY Zenon, <1>3 DEF IInv, PageInv, OnePerPage
<1>6. ASSUME NEW l \in LSNs', log'[l].page \in Pages
      PROVE  l \in LSNs /\ log'[l] = log[l]
  BY Zenon, <1>1, <1>6 DEF Moves
<1>7. \A t \in Threads : pc[t] \in Unapplied => pc'[t] \in Unapplied /\ cur'[t] = cur[t]
  BY Zenon, <1>2 DEF Moves
<1>8. OnPage'
  <2>. SUFFICES ASSUME NEW l \in LSNs', log'[l].page \in Pages
                PROVE  \/ l <= lsn'[log'[l].page]
                       \/ \E u \in Threads : pc'[u] \in Unapplied /\ cur'[u] = l
    BY Zenon DEF OnPage
  <2>1. l \in LSNs /\ log'[l] = log[l] /\ lsn' = lsn /\ log[l].page \in Pages
    BY Zenon, <1>6 DEF Moves
  <2>2. \/ l <= lsn[log[l].page]
        \/ \E u \in Threads : pc[u] \in Unapplied /\ cur[u] = l
    BY Zenon, <2>1 DEF IInv, PageInv, OnPage
  <2>3. CASE l <= lsn[log[l].page]
    BY Zenon, <2>1, <2>3
  <2>4. CASE \E u \in Threads : pc[u] \in Unapplied /\ cur[u] = l
    BY Zenon, <2>4, <1>7
  <2> QED
    BY Zenon, <2>2, <2>3, <2>4
<1>9. NotYet'
  BY Zenon, <1>2, <1>3 DEF Moves, IInv, PageInv, NotYet
<1>10. DirtyCovers'
  BY Zenon, <1>6 DEF Moves, IInv, PageInv, DirtyCovers
<1>11. PagesOK'
  <2>. SUFFICES ASSUME NEW p \in Pages
                PROVE  /\ forced'[p] <= written'[p] /\ written'[p] <= lsn'[p]
                       /\ written'[p] <= flushed' /\ lsn'[p] <= Len(log')
                       /\ dirty'[p] # INVALID_LSN => dirty'[p] <= lsn'[p]
    BY Zenon DEF PagesOK
  <2>1. /\ forced[p] <= written[p] /\ written[p] <= lsn[p] /\ written[p] <= flushed
        /\ lsn[p] <= Len(log)
        /\ dirty[p] # INVALID_LSN => dirty[p] <= lsn[p]
    BY Zenon DEF IInv, PageInv, PagesOK
  <2>2. /\ written[p] \in Nat /\ lsn[p] \in Nat /\ flushed \in Nat /\ flushed' \in Nat
        /\ lsn' = lsn /\ written' = written /\ dirty' = dirty /\ forced' \in {forced, written}
        /\ flushed <= flushed'
    BY Zenon DEF Moves, IInv, Types
  <2>3. written[p] <= flushed'
    BY Zenon, <2>1, <2>2, Below
  <2>4. lsn[p] <= Len(log')
    BY Zenon, <1>1, <2>1, <2>2, Below
  <2>5. forced'[p] <= written'[p]
    BY <2>1, <2>2
  <2> QED
    BY Zenon, <2>1, <2>2, <2>3, <2>4, <2>5
<1> QED
  BY Zenon, <1>4, <1>5, <1>8, <1>9, <1>10, <1>11 DEF PageInv

(* A thread logs a record for a page that it has just latched.             *)
LEMMA EnterPages ==
  ASSUME IInv, Types', NEW t \in Threads, NEW p \in Pages, ~Latched(p),
         NEW k \in {"update", "clr"}, LogWrite(k, p), NEW a \in {"reserved", "clr"},
         pc' = [pc EXCEPT ![t] = a], cur' = [cur EXCEPT ![t] = NextLSN],
         a = "clr" => k = "clr" /\ undo[t] # << >>, pc[t] \notin InFlight,
         UNCHANGED <<flushed, pagev, undo>>
  PROVE  PageInv'
<1>. DEFINE n == Len(log) + 1
<1>1. /\ Len(log) \in Nat /\ Len(log') = n /\ n \in Nat /\ NextLSN = n
      /\ log'[n].kind = k /\ log'[n].page = p
      /\ \A l \in LSNs : log'[l] = log[l] /\ l \in LSNs' /\ l # n
      /\ n \in LSNs' /\ \A l \in LSNs' : l \in LSNs \/ l = n
  BY Appended DEF IInv, Grows, LSNs, NextLSN
<1>2. /\ lsn' = lsn /\ written' = written /\ dirty' = dirty /\ forced' = forced
      /\ flushed' = flushed /\ undo' = undo
  BY Zenon DEF pagev
<1>3. /\ pc'[t] = a /\ cur'[t] = n
      /\ \A u \in Threads : u # t => pc'[u] = pc[u] /\ cur'[u] = cur[u]
  BY Zenon, <1>1 DEF IInv, Types
<1>4. a \in InFlight /\ a \in Unapplied /\ Unapplied \subseteq InFlight
  BY Zenon DEF InFlight, Unapplied
<1>. HIDE DEF n
<1>5. Page(t)' = p
  BY Zenon, <1>1, <1>3 DEF Page
<1>6. ASSUME NEW u \in Threads, u # t, pc'[u] \in InFlight
      PROVE  /\ pc[u] \in InFlight /\ pc'[u] = pc[u] /\ cur'[u] = cur[u] /\ cur[u] \in LSNs
             /\ Page(u)' = Page(u) /\ Page(u) \in Pages /\ Page(u) # p
             /\ log'[cur[u]] = log[cur[u]]
  <2>1. pc[u] \in InFlight /\ pc'[u] = pc[u] /\ cur'[u] = cur[u]
    BY Zenon, <1>3, <1>6
  <2>2. cur[u] \in LSNs /\ Page(u) \in Pages
    BY Zenon, <2>1 DEF IInv, PageInv, FlightOK
  <2>3. Page(u) # p
    BY Zenon, <2>1 DEF Latched, InFlight
  <2> QED
    BY Zenon, <1>1, <2>1, <2>2, <2>3 DEF Page
<1>7. FlightOK'
  <2>. SUFFICES ASSUME NEW u \in Threads, pc'[u] \in InFlight
                PROVE  /\ cur'[u] \in LSNs' /\ Page(u)' \in Pages
                       /\ pc'[u] = "clr" => log'[cur'[u]].kind = "clr" /\ undo'[u] # << >>
    BY Zenon DEF FlightOK
  <2>1. CASE u = t
    <3>1. /\ cur'[t] \in LSNs' /\ Page(t)' \in Pages
          /\ pc'[t] = "clr" => log'[cur'[t]].kind = "clr" /\ undo'[t] # << >>
      <4>1. cur'[t] \in LSNs' /\ Page(t)' \in Pages
        BY Zenon, <1>1, <1>3, <1>5
      <4>2. pc'[t] = "clr" => log'[cur'[t]].kind = "clr" /\ undo'[t] # << >>
        BY Zenon, <1>1, <1>2, <1>3
      <4> QED
        BY Zenon, <4>1, <4>2
    <3> QED
      BY Zenon, <2>1, <3>1
  <2>2. CASE u # t
    <3>1. /\ pc[u] \in InFlight /\ pc'[u] = pc[u] /\ cur'[u] = cur[u] /\ cur[u] \in LSNs
          /\ Page(u)' = Page(u) /\ Page(u) \in Pages /\ log'[cur[u]] = log[cur[u]]
      BY Zenon, <2>2, <1>6
    <3>2. pc[u] = "clr" => log[cur[u]].kind = "clr" /\ undo[u] # << >>
      BY Zenon, <3>1 DEF IInv, PageInv, FlightOK
    <3> QED
      BY Zenon, <3>1, <3>2, <1>1, <1>2
  <2> QED
    BY Zenon, <2>1, <2>2
<1>8. OnePerPage'
  <2>. SUFFICES ASSUME NEW u \in Threads, NEW v \in Threads, u # v,
                       pc'[u] \in InFlight, pc'[v] \in InFlight
                PROVE  Page(u)' # Page(v)'
    BY Zenon DEF OnePerPage
  <2>1. CASE u = t
    BY Zenon, <1>5, <1>6, <2>1
  <2>2. CASE v = t
    BY Zenon, <1>5, <1>6, <2>2
  <2>3. CASE u # t /\ v # t
    <3>1. /\ pc[u] \in InFlight /\ pc[v] \in InFlight
          /\ Page(u)' = Page(u) /\ Page(v)' = Page(v)
      BY Zenon, <1>6, <2>3
    <3>2. Page(u) # Page(v)
      BY Zenon, <3>1 DEF IInv, PageInv, OnePerPage
    <3> QED
      BY Zenon, <3>1, <3>2
  <2> QED
    BY Zenon, <2>1, <2>2, <2>3
<1>9. OnPage'
  <2>. SUFFICES ASSUME NEW l \in LSNs', log'[l].page \in Pages
                PROVE  \/ l <= lsn'[log'[l].page]
                       \/ \E u \in Threads : pc'[u] \in Unapplied /\ cur'[u] = l
    BY Zenon DEF OnPage
  <2>1. CASE l = n
    BY Zenon, <2>1, <1>3, <1>4
  <2>2. CASE l \in LSNs
    <3>1. log'[l] = log[l] /\ lsn' = lsn /\ log[l].page \in Pages
      BY Zenon, <2>2, <1>1, <1>2
    <3>2. CASE l <= lsn[log[l].page]
      BY Zenon, <3>1, <3>2
    <3>3. ASSUME NEW u \in Threads, pc[u] \in Unapplied, cur[u] = l
          PROVE  pc'[u] \in Unapplied /\ cur'[u] = l
      BY Zenon, <1>3, <1>4, <3>3
    <3> QED
      BY Zenon, <2>2, <3>1, <3>2, <3>3 DEF IInv, PageInv, OnPage
  <2> QED
    BY Zenon, <1>1, <2>1, <2>2
<1>10. NotYet'
  <2>. SUFFICES ASSUME NEW u \in Threads, pc'[u] \in Unapplied
                PROVE  lsn'[Page(u)'] < cur'[u]
    BY Zenon DEF NotYet
  <2>1. CASE u = t
    <3>1. lsn[p] \in Nat /\ lsn[p] <= Len(log)
      BY Zenon DEF IInv, Types, PageInv, PagesOK
    <3>2. lsn[p] < n
      BY <1>1, <3>1 DEF n
    <3> QED
      BY Zenon, <2>1, <3>2, <1>2, <1>3, <1>5
  <2>2. CASE u # t
    BY Zenon, <2>2, <1>2, <1>4, <1>6 DEF IInv, PageInv, NotYet
  <2> QED
    BY Zenon, <2>1, <2>2
<1>11. DirtyCovers'
  <2>. SUFFICES ASSUME NEW l \in LSNs', log'[l].page \in Pages,
                       written'[log'[l].page] < l, l <= lsn'[log'[l].page]
                PROVE  dirty'[log'[l].page] # INVALID_LSN /\ dirty'[log'[l].page] <= l
    BY Zenon DEF DirtyCovers
  <2>1. l \in LSNs
    <3>1. lsn[p] \in Nat /\ lsn[p] <= Len(log)
      BY Zenon DEF IInv, Types, PageInv, PagesOK
    <3>2. ~(n <= lsn[p])
      BY <1>1, <3>1 DEF n
    <3> QED
      BY Zenon, <1>1, <1>2, <3>2
  <2> QED
    BY Zenon, <2>1, <1>1, <1>2 DEF IInv, PageInv, DirtyCovers
<1>12. PagesOK'
  <2>1. \A q \in Pages : lsn[q] \in Nat /\ lsn[q] <= Len(log)
    BY Zenon DEF IInv, Types, PageInv, PagesOK
  <2>2. \A q \in Pages : lsn[q] <= Len(log')
    BY <1>1, <2>1 DEF n
  <2> QED
    BY Zenon, <1>2, <2>2 DEF IInv, PageInv, PagesOK
<1> QED
  BY Zenon, <1>7, <1>8, <1>9, <1>10, <1>11, <1>12 DEF PageInv

(* A thread applies its record to the page that it holds latched: the      *)
(* page's recLSN covers the record from then on.                           *)
LEMMA ApplyPages ==
  ASSUME IInv, Types', NEW t \in Threads, pc[t] \in Unapplied,
         NEW a \in {"applied", "undoing"}, pc' = [pc EXCEPT ![t] = a],
         SetDirty(Page(t), cur[t]), UNCHANGED logv,
         \A u \in Threads : u # t => cur'[u] = cur[u] /\ undo'[u] = undo[u],
         a = "applied" => cur'[t] = cur[t]
  PROVE  PageInv'
<1>. PICK p, n : p = Page(t) /\ n = cur[t]
  OBVIOUS
<1>1. /\ log' = log /\ flushed' = flushed /\ written' = written /\ forced' = forced
      /\ lsn' = [lsn EXCEPT ![p] = n]
      /\ dirty' = IF dirty[p] = INVALID_LSN THEN [dirty EXCEPT ![p] = n] ELSE dirty
  BY Zenon DEF SetDirty, logv
<1>2. Unapplied \subseteq InFlight /\ a \notin Unapplied
  BY Zenon DEF Unapplied, InFlight
<1>3. /\ p \in Pages /\ n \in LSNs /\ n \in Nat /\ LSNs' = LSNs /\ n <= Len(log)
      /\ lsn[p] < n /\ lsn[p] \in Nat /\ written[p] \in Nat /\ written[p] <= lsn[p]
      /\ dirty[p] \in Nat \cup {INVALID_LSN}
  BY <1>1, <1>2 DEF IInv, Types, PageInv, FlightOK, NotYet, PagesOK, LSNs
<1>4. /\ lsn'[p] = n /\ \A q \in Pages : q # p => lsn'[q] = lsn[q] /\ dirty'[q] = dirty[q]
      /\ dirty'[p] = IF dirty[p] = INVALID_LSN THEN n ELSE dirty[p]
  BY Zenon, <1>1, <1>3 DEF IInv, Types
<1>5. /\ pc'[t] = a
      /\ \A u \in Threads : u # t => pc'[u] = pc[u] /\ cur'[u] = cur[u] /\ undo'[u] = undo[u]
  BY Zenon DEF IInv, Types
<1>6. ASSUME NEW u \in Threads, u # t, pc'[u] \in InFlight
      PROVE  /\ pc[u] \in InFlight /\ pc'[u] = pc[u] /\ cur'[u] = cur[u]
             /\ Page(u)' = Page(u) /\ Page(u) \in Pages /\ Page(u) # p
  <2>1. pc[u] \in InFlight /\ pc'[u] = pc[u] /\ cur'[u] = cur[u]
    BY Zenon, <1>5, <1>6
  <2> QED
    BY Zenon, <1>1, <1>2, <1>6, <2>1 DEF IInv, PageInv, FlightOK, OnePerPage, Page
<1>7. pc'[t] \in InFlight => cur'[t] = n /\ Page(t)' = p /\ pc'[t] # "clr"
  <2>1. CASE a = "applied"
    BY Zenon, <1>1, <1>5, <2>1 DEF Page
  <2>2. CASE a = "undoing"
    BY Zenon, <1>5, <2>2 DEF InFlight
  <2> QED
    BY Zenon, <2>1, <2>2
<1>8. FlightOK'
  <2>. SUFFICES ASSUME NEW u \in Threads, pc'[u] \in InFlight
                PROVE  /\ cur'[u] \in LSNs' /\ Page(u)' \in Pages
                       /\ pc'[u] = "clr" => log'[cur'[u]].kind = "clr" /\ undo'[u] # << >>
    BY Zenon DEF FlightOK
  <2>1. CASE u = t
    BY Zenon, <1>3, <1>7, <2>1
  <2>2. CASE u # t
    <3>1. /\ pc[u] \in InFlight /\ pc'[u] = pc[u] /\ cur'[u] = cur[u] /\ undo'[u] = undo[u]
          /\ Page(u)' = Page(u)
      BY Zenon, <1>5, <1>6, <2>2
    <3>2. /\ cur[u] \in LSNs /\ Page(u) \in Pages
          /\ pc[u] = "clr" => log[cur[u]].kind = "clr" /\ undo[u] # << >>
      BY Zenon, <3>1 DEF IInv, PageInv, FlightOK
    <3> QED
      BY Zenon, <1>1, <1>3, <3>1, <3>2
  <2> QED
    BY Zenon, <2>1, <2>2
<1>9. OnePerPage'
  <2>. SUFFICES ASSUME NEW u \in Threads, NEW v \in Threads, u # v,
                       pc'[u] \in InFlight, pc'[v] \in InFlight
                PROVE  Page(u)' # Page(v)'
    BY Zenon DEF OnePerPage
  <2>1. CASE u = t
    BY Zenon, <1>6, <1>7, <2>1
  <2>2. CASE v = t
    BY Zenon, <1>6, <1>7, <2>2
  <2>3. CASE u # t /\ v # t
    <3>1. /\ pc[u] \in InFlight /\ pc[v] \in InFlight
          /\ Page(u)' = Page(u) /\ Page(v)' = Page(v)
      BY Zenon, <1>6, <2>3
    <3>2. Page(u) # Page(v)
      BY Zenon, <3>1 DEF IInv, PageInv, OnePerPage
    <3> QED
      BY Zenon, <3>1, <3>2
  <2> QED
    BY Zenon, <2>1, <2>2, <2>3
<1>10. ASSUME NEW l \in LSNs, log[l].page = p, ~(l <= lsn[p])
       PROVE  l = n
  <2>1. PICK u \in Threads : pc[u] \in Unapplied /\ cur[u] = l
    BY Zenon, <1>3, <1>10 DEF IInv, PageInv, OnPage
  <2>2. pc[u] \in InFlight /\ pc[t] \in InFlight /\ Page(u) = Page(t)
    BY Zenon, <1>2, <1>10, <2>1 DEF Page
  <2>3. u = t
    BY Zenon, <2>2 DEF IInv, PageInv, OnePerPage
  <2> QED
    BY Zenon, <2>1, <2>3
<1>11. OnPage'
  <2>. SUFFICES ASSUME NEW l \in LSNs, log[l].page \in Pages
                PROVE  \/ l <= lsn'[log[l].page]
                       \/ \E u \in Threads : pc'[u] \in Unapplied /\ cur'[u] = l
    BY Zenon, <1>1, <1>3 DEF OnPage
  <2>. l \in Nat
    BY DEF LSNs
  <2>1. CASE log[l].page = p
    <3>1. l <= lsn[p] \/ l = n
      BY Zenon, <1>10, <2>1
    <3>2. l <= n
      BY <1>3, <3>1
    <3> QED
      BY Zenon, <1>4, <2>1, <3>2
  <2>2. CASE log[l].page # p
    <3>1. lsn'[log[l].page] = lsn[log[l].page]
      BY Zenon, <1>4, <2>2
    <3>2. ASSUME NEW u \in Threads, pc[u] \in Unapplied, cur[u] = l
          PROVE  pc'[u] \in Unapplied /\ cur'[u] = l
      <4>1. u # t
        BY Zenon, <2>2, <3>2 DEF Page
      <4> QED
        BY Zenon, <1>5, <3>2, <4>1
    <3> QED
      BY Zenon, <3>1, <3>2 DEF IInv, PageInv, OnPage
  <2> QED
    BY Zenon, <2>1, <2>2
<1>12. NotYet'
  <2>. SUFFICES ASSUME NEW u \in Threads, pc'[u] \in Unapplied
                PROVE  lsn'[Page(u)'] < cur'[u]
    BY Zenon DEF NotYet
  <2>1. u # t
    BY Zenon, <1>2, <1>5
  <2>2. /\ pc[u] \in Unapplied /\ cur'[u] = cur[u] /\ Page(u)' = Page(u)
        /\ Page(u) \in Pages /\ Page(u) # p
    BY Zenon, <1>2, <1>5, <1>6, <2>1
  <2> QED
    BY Zenon, <1>4, <2>2 DEF IInv, PageInv, NotYet
<1>13. DirtyCovers'
  <2>. SUFFICES ASSUME NEW l \in LSNs, log[l].page \in Pages,
                       written[log[l].page] < l, l <= lsn'[log[l].page]
                PROVE  dirty'[log[l].page] # INVALID_LSN /\ dirty'[log[l].page] <= l
    BY Zenon, <1>1, <1>3 DEF DirtyCovers
  <2>1. CASE log[l].page = p
    <3>1. l <= lsn[p] => dirty[p] # INVALID_LSN /\ dirty[p] <= l
      BY Zenon, <2>1 DEF IInv, PageInv, DirtyCovers
    <3>2. dirty[p] # INVALID_LSN => dirty[p] <= lsn[p]
      BY Zenon, <1>3 DEF IInv, PageInv, PagesOK
    <3>3. l <= lsn[p] \/ l = n
      BY Zenon, <1>10, <2>1
    <3>4. dirty'[p] # INVALID_LSN /\ dirty'[p] <= l
      BY <1>3, <1>4, <3>1, <3>2, <3>3 DEF INVALID_LSN
    <3> QED
      BY Zenon, <2>1, <3>4
  <2>2. CASE log[l].page # p
    <3>1. lsn'[log[l].page] = lsn[log[l].page] /\ dirty'[log[l].page] = dirty[log[l].page]
      BY Zenon, <1>4, <2>2
    <3> QED
      BY Zenon, <3>1 DEF IInv, PageInv, DirtyCovers
  <2> QED
    BY Zenon, <2>1, <2>2
<1>14. PagesOK'
  <2>. SUFFICES ASSUME NEW q \in Pages
                PROVE  /\ forced[q] <= written[q] /\ written[q] <= lsn'[q]
                       /\ written[q] <= flushed /\ lsn'[q] <= Len(log)
                       /\ dirty'[q] # INVALID_LSN => dirty'[q] <= lsn'[q]
    BY Zenon, <1>1 DEF PagesOK
  <2>1. /\ forced[q] <= written[q] /\ written[q] <= lsn[q] /\ written[q] <= flushed
        /\ lsn[q] <= Len(log)
        /\ dirty[q] # INVALID_LSN => dirty[q] <= lsn[q]
    BY Zenon DEF IInv, PageInv, PagesOK
  <2>2. CASE q = p
    <3>1. dirty[p] # INVALID_LSN => dirty[p] <= lsn[p]
      BY Zenon, <2>1, <2>2
    <3>2. written[p] <= n /\ (dirty'[p] # INVALID_LSN => dirty'[p] <= n)
      BY <1>3, <1>4, <3>1 DEF INVALID_LSN
    <3> QED
      BY Zenon, <1>3, <1>4, <2>1, <2>2, <3>2
  <2>3. CASE q # p
    BY Zenon, <1>4, <2>1, <2>3
  <2> QED
    BY Zenon, <2>2, <2>3
<1> QED
  BY Zenon, <1>8, <1>9, <1>11, <1>12, <1>13, <1>14 DEF PageInv

(* A page is written with all that has been applied to it, after the log.  *)
LEMMA WritePages ==
  ASSUME IInv, Types', NEW p \in Pages, WriteBack(p)
  PROVE  PageInv'
<1>1. /\ log' = log /\ lsn' = lsn /\ forced' = forced /\ pc' = pc /\ cur' = cur /\ undo' = undo
      /\ written' = [written EXCEPT ![p] = lsn[p]]
      /\ dirty' = [dirty EXCEPT ![p] = INVALID_LSN]
      /\ flushed' = (IF flushed < lsn[p] THEN Writable ELSE flushed) /\ Writable >= lsn[p]
  BY Zenon DEF WriteBack, xactv
<1>2. /\ flushed \in Nat /\ lsn[p] \in Nat /\ Writable \in Nat
  BY Zenon, WritableInLog DEF IInv, Types, PageInv
<1>3. lsn[p] <= flushed' /\ flushed <= flushed'
  BY <1>1, <1>2
<1>4. /\ written'[p] = lsn[p] /\ dirty'[p] = INVALID_LSN
      /\ \A q \in Pages : q # p => written'[q] = written[q] /\ dirty'[q] = dirty[q]
  BY Zenon, <1>1 DEF IInv, Types
<1>5. FlightOK' /\ OnePerPage' /\ OnPage' /\ NotYet'
  BY Zenon, <1>1 DEF IInv, PageInv, FlightOK, OnePerPage, OnPage, NotYet, Page, LSNs
<1>6. DirtyCovers'
  <2>. SUFFICES ASSUME NEW l \in LSNs, log[l].page \in Pages,
                       written'[log[l].page] < l, l <= lsn[log[l].page]
                PROVE  dirty'[log[l].page] # INVALID_LSN /\ dirty'[log[l].page] <= l
    BY Zenon, <1>1 DEF DirtyCovers, LSNs
  <2>1. log[l].page # p
    <3>1. l \in Nat
      BY DEF LSNs
    <3>2. ~(lsn[p] < l /\ l <= lsn[p])
      BY <1>2, <3>1
    <3> QED
      BY Zenon, <1>4, <3>2
  <2> QED
    BY Zenon, <1>4, <2>1 DEF IInv, PageInv, DirtyCovers
<1>7. PagesOK'
  <2>. SUFFICES ASSUME NEW q \in Pages
                PROVE  /\ forced[q] <= written'[q] /\ written'[q] <= lsn[q]
                       /\ written'[q] <= flushed' /\ lsn[q] <= Len(log)
                       /\ dirty'[q] # INVALID_LSN => dirty'[q] <= lsn[q]
    BY Zenon, <1>1 DEF PagesOK
  <2>1. /\ forced[q] <= written[q] /\ written[q] <= lsn[q] /\ written[q] <= flushed
        /\ lsn[q] <= Len(log)
        /\ dirty[q] # INVALID_LSN => dirty[q] <= lsn[q]
        /\ forced[q] \in Nat /\ written[q] \in Nat /\ lsn[q] \in Nat /\ flushed' \in Nat
    BY Zenon DEF IInv, PageInv, PagesOK, Types
  <2>2. forced[q] <= lsn[q] /\ lsn[q] <= lsn[q]
    BY <2>1
  <2>3. written[q] <= flushed'
    BY Zenon, <1>2, <1>3, <2>1, Below
  <2>4. CASE q = p
    BY Zenon, <1>3, <1>4, <2>1, <2>2, <2>4
  <2>5. CASE q # p
    BY Zenon, <1>4, <2>1, <2>3, <2>5
  <2> QED
    BY Zenon, <2>4, <2>5
<1> QED
  BY Zenon, <1>5, <1>6, <1>7 DEF PageInv

-----------------------------------------------------------------------------
(* Every step keeps the types.                                             *)
LEMMA ThreadTypes ==
  ASSUME IInv, NEW t \in Threads, ThreadStep(t)
  PROVE  Types'
<1>. USE DEF logv, pagev, xactv, truncv, readv
<1>0. Types /\ FlightOK /\ Len(log) \in Nat /\ NextLSN \in Nat /\ Writable \in Nat
  BY WritableInLog DEF IInv, PageInv, Types, NextLSN
<1>1. ASSUME NEW p \in Pages, UpdateReserve(t, p) PROVE Types'
  BY Zenon, <1>0, <1>1, Appended DEF UpdateReserve, Types, Labels, InFlight
<1>2. CASE UpdateWrite(t)
  BY Zenon, <1>0, <1>2 DEF UpdateWrite, Types, Labels, InFlight
<1>3. CASE UpdateLink(t)
  <2>1. Page(t) \in Pages /\ cur[t] \in Nat
    BY Zenon, <1>0, <1>3 DEF UpdateLink, FlightOK, InFlight, Types
  <2>2. undo' \in [Threads -> Seq(Pages)]
    BY <1>0, <1>3, <2>1 DEF UpdateLink, Types
  <2> QED
    BY Zenon, <1>0, <1>3, <2>1, <2>2 DEF UpdateLink, Types, Labels, InFlight
<1>4. CASE UpdateApply(t)
  BY Zenon, <1>0, <1>4 DEF UpdateApply, SetDirty, Types, Labels, InFlight
<1>5. CASE UpdateDone(t)
  BY Zenon, <1>0, <1>5 DEF UpdateDone, Types, Labels, InFlight
<1>6. CASE CommitLog(t)
  BY Zenon, <1>0, <1>6, Appended DEF CommitLog, Types, Labels, InFlight
<1>7. CASE CommitEnd(t)
  BY <1>0, <1>7 DEF CommitEnd, EndTransaction, Types, Labels, InFlight
<1>8. CASE AbortLog(t)
  BY Zenon, <1>0, <1>8, Appended DEF AbortLog, Types, Labels, InFlight
<1>9. CASE UndoWriteCLR(t)
  <2>1. Head(undo[t]) \in Pages
    BY <1>0, <1>9 DEF UndoWriteCLR, Types
  <2> QED
    BY Zenon, <1>0, <1>9, <2>1, Appended DEF UndoWriteCLR, Types, Labels, InFlight
<1>10. CASE UndoApply(t)
  <2>1. undo' \in [Threads -> Seq(Pages)]
    BY <1>0, <1>10 DEF UndoApply, Types, FlightOK, InFlight
  <2> QED
    BY Zenon, <1>0, <1>10, <2>1 DEF UndoApply, SetDirty, Types, Labels, InFlight
<1>11. CASE AbortEnd(t)
  BY Zenon, <1>0, <1>11, Appended DEF AbortEnd, EndTransaction, Types, Labels, InFlight
<1> QED
  BY Zenon, <1>1, <1>2, <1>3, <1>4, <1>5, <1>6, <1>7, <1>8, <1>9, <1>10, <1>11 DEF ThreadStep

(* And so do write-back, the flush and the truncation thread.              *)
LEMMA OtherTypes ==
  ASSUME IInv, LogFlush \/ TruncationStep \/ \E p \in Pages : WriteBack(p)
  PROVE  Types'
<1>. USE DEF logv, pagev, xactv, truncv, readv
<1>0. Types /\ Writable \in Nat
  BY Zenon, WritableInLog DEF IInv, PageInv
<1>1. ASSUME NEW p \in Pages, WriteBack(p) PROVE Types'
  BY Zenon, <1>0, <1>1 DEF WriteBack, Types
<1>2. CASE LogFlush
  BY Zenon, <1>0, <1>2 DEF LogFlush, Types
<1>3. CASE ReadPending
  BY Zenon, <1>0, <1>3, FirstPendingLow DEF ReadPending, Types, TLabels
<1>4. CASE ReadPages
  BY Zenon, <1>0, <1>4, PageMinLow DEF ReadPages, Types, TLabels
<1>5. CASE ReadXacts
  BY Zenon, <1>0, <1>5, XactMinLow DEF ReadXacts, Types, TLabels
<1>6. CASE ReadFlushed
  BY <1>0, <1>6 DEF ReadFlushed, Types, TLabels
<1>7. CASE Increment
  BY Zenon, <1>0, <1>7 DEF Increment, Types, TLabels
<1>8. CASE GiveUp
  BY Zenon, <1>0, <1>8 DEF GiveUp, Return, Types, TLabels
<1>9. CASE FlushDirty
  BY Zenon, <1>0, <1>9, FirstPendingLow DEF FlushDirty, Types, TLabels
<1>10. CASE FlushAgain
  BY Zenon, <1>0, <1>10, FirstPendingLow DEF FlushAgain, Types, TLabels
<1>11. CASE RereadPages
  BY Zenon, <1>0, <1>11, PageMinLow DEF RereadPages, Types, TLabels
<1>12. CASE ForcePages
  BY Zenon, <1>0, <1>12 DEF ForcePages, Types, TLabels
<1>13. CASE Cut
  <2>1. trunc' \in Nat
    <3>1. trunc \in Nat /\ Target \in Nat /\ Max({trunc, Target}) \in Nat
      BY Zenon, <1>0, TargetLow, MaxOfTwo DEF Types
    <3> QED
      BY <1>13, <3>1 DEF Cut
  <2> QED
    BY Zenon, <1>0, <1>13, <2>1 DEF Cut, Return, Types, TLabels
<1> QED
  BY Zenon, <1>1, <1>2, <1>3, <1>4, <1>5, <1>6, <1>7, <1>8, <1>9, <1>10, <1>11, <1>12, <1>13
     DEF TruncationStep

-----------------------------------------------------------------------------
(* What a thread's step does for the truncation thread and for pages.      *)
LEMMA ThreadSteps ==
  ASSUME IInv, Types', NEW t \in Threads, ThreadStep(t)
  PROVE  Monotone /\ PageInv'
<1>. USE DEF logv, pagev, xactv
<1>0. /\ Types /\ FlightOK /\ Len(log) \in Nat /\ NextLSN = Len(log) + 1
      /\ Writable \in Nat /\ Writable <= Len(log) /\ flushed <= Len(log) /\ flushed \in Nat
      /\ \A p \in Pages : written[p] \in Nat
  <2>1. Types /\ FlightOK
    BY Zenon DEF IInv, PageInv
  <2>2. Writable \in Nat /\ Writable <= Len(log)
    BY Zenon, <2>1, WritableInLog
  <2>3. Len(log) \in Nat /\ flushed \in Nat /\ \A p \in Pages : written[p] \in Nat
    BY <2>1 DEF Types
  <2> QED
    BY Zenon, <2>1, <2>2, <2>3 DEF IInv, TruncInv, StableOK, NextLSN
<1>1. /\ pc \in [Threads -> Labels] /\ cur \in [Threads -> Nat]
      /\ recLSN \in [Threads -> Nat \cup {INVALID_LSN}] /\ undo \in [Threads -> Seq(Pages)]
  BY Zenon, <1>0 DEF Types
<1>2. \A p \in Pages : written[p] <= written[p]
  BY <1>0
<1>3. ASSUME LogWrite("xact", NoPage)
      PROVE  Grows /\ Len(log') = Len(log) + 1
             /\ \A l \in LSNs' : l \notin LSNs => log'[l].page \notin Pages
  BY <1>0, <1>3, Appended, PageAssumption DEF LSNs
<1>4. log' = log => Grows /\ LSNs' = LSNs
  BY <1>0 DEF Grows, LSNs
<1>5. ASSUME NEW p \in Pages, UpdateReserve(t, p) PROVE Monotone /\ PageInv'
  <2>1. PageInv'
    BY Zenon, <1>0, <1>5, EnterPages DEF UpdateReserve, InFlight
  <2>2. Grows /\ Len(log') = Len(log) + 1
    BY Zenon, <1>0, <1>5, Appended DEF UpdateReserve
  <2> QED
    BY <1>0, <1>1, <1>2, <1>5, <2>1, <2>2
       DEF UpdateReserve, Monotone, FirstRecord, Updating
<1>6. CASE UpdateWrite(t)
  <2>1. Moves
    BY <1>0, <1>1, <1>2, <1>4, <1>6 DEF UpdateWrite, Moves, InFlight, Unapplied
  <2> QED
    BY <1>0, <1>1, <1>2, <1>4, <1>6, <2>1, MovePages DEF UpdateWrite, Monotone, FirstRecord, Updating
<1>7. CASE UpdateLink(t)
  <2>1. Moves
    BY <1>0, <1>1, <1>2, <1>4, <1>7 DEF UpdateLink, Moves, InFlight, Unapplied
  <2> QED
    BY <1>0, <1>1, <1>2, <1>4, <1>7, <2>1, MovePages DEF UpdateLink, Monotone, FirstRecord, Updating
<1>8. CASE UpdateApply(t)
  <2>1. PageInv'
    BY Zenon, <1>0, <1>1, <1>2, <1>8, ApplyPages DEF UpdateApply, Unapplied
  <2> QED
    BY <1>0, <1>1, <1>2, <1>4, <1>8, <2>1 DEF UpdateApply, SetDirty, Monotone, FirstRecord, Updating
<1>9. CASE UpdateDone(t)
  <2>1. Moves
    BY <1>0, <1>1, <1>2, <1>4, <1>9 DEF UpdateDone, Moves, InFlight, Unapplied
  <2> QED
    BY <1>0, <1>1, <1>2, <1>4, <1>9, <2>1, MovePages DEF UpdateDone, Monotone, FirstRecord, Updating
<1>10. CASE CommitLog(t)
  <2>1. Moves
    BY <1>0, <1>1, <1>2, <1>3, <1>10 DEF CommitLog, Moves, InFlight, Unapplied
  <2> QED
    BY <1>0, <1>1, <1>2, <1>3, <1>10, <2>1, MovePages DEF CommitLog, Monotone, FirstRecord, Updating
<1>11. CASE CommitEnd(t)
  <2>1. flushed <= flushed' /\ flushed' <= Len(log) /\ log' = log
    BY <1>0, <1>1, <1>2, <1>11 DEF CommitEnd
  <2>2. Moves
    BY Zenon, <1>0, <1>1, <1>2, <1>4, <1>11, <2>1 DEF CommitEnd, EndTransaction, Moves, InFlight, Unapplied
  <2> QED
    BY Zenon, <1>0, <1>1, <1>2, <1>4, <1>11, <2>1, <2>2, MovePages
       DEF CommitEnd, EndTransaction, Monotone, FirstRecord, Updating
<1>12. CASE AbortLog(t)
  <2>1. Moves
    BY <1>0, <1>1, <1>2, <1>3, <1>12 DEF AbortLog, Moves, InFlight, Unapplied
  <2> QED
    BY <1>0, <1>1, <1>2, <1>3, <1>12, <2>1, MovePages DEF AbortLog, Monotone, FirstRecord, Updating
<1>13. CASE UndoWriteCLR(t)
  <2>1. Head(undo[t]) \in Pages /\ undo[t] # << >>
    BY <1>1, <1>13 DEF UndoWriteCLR
  <2>2. PageInv'
    BY Zenon, <1>0, <1>13, <2>1, EnterPages DEF UndoWriteCLR, InFlight
  <2>3. Grows /\ Len(log') = Len(log) + 1
    BY Zenon, <1>0, <1>13, <2>1, Appended DEF UndoWriteCLR
  <2> QED
    BY <1>0, <1>1, <1>2, <1>13, <2>2, <2>3 DEF UndoWriteCLR, Monotone, FirstRecord, Updating
<1>14. CASE UndoApply(t)
  <2>1. PageInv'
    BY Zenon, <1>0, <1>1, <1>2, <1>14, ApplyPages DEF UndoApply, Unapplied
  <2> QED
    BY <1>0, <1>1, <1>2, <1>4, <1>14, <2>1 DEF UndoApply, SetDirty, Monotone, FirstRecord, Updating
<1>15. CASE AbortEnd(t)
  <2>1. Moves
    BY <1>0, <1>1, <1>2, <1>3, <1>15 DEF AbortEnd, EndTransaction, Moves, InFlight, Unapplied
  <2> QED
    BY <1>0, <1>1, <1>2, <1>3, <1>15, <2>1, MovePages
       DEF AbortEnd, EndTransaction, Monotone, FirstRecord, Updating
<1> QED
  BY Zenon, <1>5, <1>6, <1>7, <1>8, <1>9, <1>10, <1>11, <1>12, <1>13, <1>14, <1>15 DEF ThreadStep

(* The same for write-back and the flush of the log.                       *)
LEMMA WriterSteps ==
  ASSUME IInv, Types', LogFlush \/ \E p \in Pages : WriteBack(p)
  PROVE  Monotone /\ PageInv'
<1>. USE DEF logv, pagev, xactv
<1>0. /\ Types /\ FlightOK /\ Len(log) \in Nat
      /\ Writable \in Nat /\ Writable <= Len(log) /\ flushed <= Len(log) /\ flushed \in Nat
  <2>1. Types /\ FlightOK
    BY Zenon DEF IInv, PageInv
  <2>2. Writable \in Nat /\ Writable <= Len(log)
    BY Zenon, <2>1, WritableInLog
  <2>3. Len(log) \in Nat /\ flushed \in Nat
    BY <2>1 DEF Types
  <2> QED
    BY Zenon, <2>1, <2>2, <2>3 DEF IInv, TruncInv, StableOK
<1>1. log' = log => Grows /\ LSNs' = LSNs
  BY <1>0 DEF Grows, LSNs
<1>2. CASE LogFlush
  <2>1. /\ flushed <= flushed' /\ flushed' <= Len(log') /\ log' = log
        /\ lsn' = lsn /\ written' = written /\ dirty' = dirty /\ forced' = forced
        /\ pc' = pc /\ cur' = cur /\ recLSN' = recLSN /\ undo' = undo /\ UNCHANGED truncv
    BY <1>0, <1>2 DEF LogFlush
  <2>2. Moves
    BY Zenon, <1>1, <2>1 DEF Moves
  <2>3. \A p \in Pages : written[p] <= written'[p]
    BY <1>0, <2>1 DEF Types
  <2> QED
    BY Zenon, <1>1, <2>1, <2>2, <2>3, MovePages DEF Monotone, FirstRecord
<1>3. ASSUME NEW p \in Pages, WriteBack(p) PROVE Monotone /\ PageInv'
  <2>1. /\ flushed <= flushed' /\ flushed' <= Len(log') /\ log' = log /\ forced' = forced
        /\ pc' = pc /\ cur' = cur /\ recLSN' = recLSN /\ undo' = undo /\ UNCHANGED truncv
    <3>1. /\ log' = log /\ forced' = forced
          /\ pc' = pc /\ cur' = cur /\ recLSN' = recLSN /\ undo' = undo /\ UNCHANGED truncv
          /\ flushed' = IF flushed < lsn[p] THEN Writable ELSE flushed
          /\ Writable >= lsn[p] /\ lsn[p] \in Nat
      BY Zenon, <1>0, <1>3 DEF WriteBack, Types
    <3>2. flushed <= flushed' /\ flushed' <= Len(log)
      BY <1>0, <3>1
    <3> QED
      BY Zenon, <3>1, <3>2
  <2>2. \A q \in Pages : written[q] <= written'[q]
    BY <1>0, <1>3 DEF WriteBack, Types, IInv, PageInv, PagesOK
  <2> QED
    BY Zenon, <1>1, <1>3, <2>1, <2>2, WritePages DEF Monotone, FirstRecord
<1> QED
  BY Zenon, <1>2, <1>3

-----------------------------------------------------------------------------
(* A step of the truncation thread leaves pages and records in line.       *)
LEMMA TruncationPages ==
  ASSUME IInv, Types', TruncationStep
  PROVE  PageInv'
<1>1. /\ log' = log /\ flushed' = flushed /\ lsn' = lsn /\ written' = written /\ dirty' = dirty
      /\ forced' \in {forced, written}
      /\ pc' = pc /\ cur' = cur /\ recLSN' = recLSN /\ undo' = undo
  BY Zenon DEF TruncationStep, ReadPending, ReadPages, ReadXacts, ReadFlushed, Increment, GiveUp,
     FlushDirty, FlushAgain, RereadPages, ForcePages, Cut, logv, pagev, xactv
<1>2. Grows /\ LSNs' = LSNs /\ flushed <= flushed'
  BY <1>1 DEF Grows, LSNs, IInv, Types
<1>3. Moves
  BY Zenon, <1>1, <1>2 DEF Moves
<1> QED
  BY Zenon, <1>3, MovePages

(* The entries that have been logged but not applied are pending in the    *)
(* safe-writes log: the first pending one bounds them.                     *)
LEMMA FirstPendingApplied ==
  ASSUME IInv, LogType = "safe_writes", applied' = FirstPending,
         UNCHANGED <<logv, xactv>>
  PROVE  AppliedLow'
<1>1. Types /\ log' = log /\ pc' = pc /\ cur' = cur
  BY Zenon DEF IInv, logv, xactv
<1>2. Updating \subseteq Pending
  BY Zenon DEF Updating, Pending
<1> QED
  BY Zenon, <1>1, <1>2, FirstPendingLow DEF AppliedLow

(* What is before the first pending entry and before every dirty page's    *)
(* recLSN has been written.                                                *)
LEMMA PagesReadSaved ==
  ASSUME IInv, NEW l \in LSNs, log[l].kind = "update", log[l].page \in Pages,
         l < applied, l < PageMinRecLSN
  PROVE  l <= written[log[l].page]
<1>. PICK p : p = log[l].page
  OBVIOUS
<1>1. /\ l \in Nat /\ p \in Pages /\ applied \in Nat /\ written[p] \in Nat /\ lsn[p] \in Nat
      /\ PageMinRecLSN \in Nat /\ dirty[p] \in Nat \cup {INVALID_LSN}
  BY PageMinLow DEF IInv, Types, LSNs
<1>2. l <= lsn[p]
  <2>. SUFFICES ASSUME NEW t \in Threads, pc[t] \in Unapplied, cur[t] = l PROVE FALSE
    BY Zenon DEF IInv, PageInv, OnPage
  <2>1. pc[t] # "clr"
    BY Zenon DEF IInv, PageInv, FlightOK, Unapplied, InFlight
  <2>2. pc[t] \in Updating
    BY Zenon, <2>1 DEF Updating, Unapplied
  <2>3. applied <= l
    BY Zenon, <2>2 DEF IInv, TruncInv, AppliedLow
  <2> QED
    BY <1>1, <2>3
<1>3. CASE written[p] < l
  <2>1. dirty[p] # INVALID_LSN /\ dirty[p] <= l
    BY Zenon, <1>1, <1>2, <1>3 DEF IInv, PageInv, DirtyCovers
  <2>2. PageMinRecLSN <= dirty[p]
    BY Zenon, <1>1, <2>1, PageMinLow DEF IInv
  <2> QED
    BY <1>1, <2>1, <2>2
<1> QED
  BY <1>1, <1>3

(* A record belongs to a page or to none.                                  *)
LEMMA PageOfRecord ==
  ASSUME Types, NEW l \in 1..Len(log), log[l].page # NoPage
  PROVE  log[l].page \in Pages
<1>1. log \in Seq(Records)
  BY Zenon DEF Types
<1>2. log[l] \in Records
  BY <1>1
<1>3. log[l].page \in Pages \cup {NoPage}
  BY Zenon, <1>2 DEF Records
<1> QED
  BY Zenon, <1>3

(* Every step of the truncation thread keeps its part of the invariant.    *)
LEMMA TruncationSteps ==
  ASSUME IInv, Types', LogType = "safe_writes", TruncationStep
  PROVE  TruncInv'
<1>. USE DEF logv, pagev, xactv, readv
<1>0. /\ Types /\ StableOK /\ AppliedLow /\ Saved /\ UpdatesKept /\ UndoKept
      /\ Len(log) \in Nat /\ flushed \in Nat /\ trunc \in Nat /\ applied \in Nat
      /\ pageRec \in Nat /\ xactRec \in Nat /\ flushedLSN \in Nat
  BY DEF IInv, TruncInv, Types
<1>1. CASE ReadPending
  <2>1. AppliedLow'
    BY Zenon, <1>1, FirstPendingApplied DEF ReadPending
  <2>2. StableOK' /\ UpdatesKept' /\ UndoKept'
    BY Zenon, <1>0, <1>1 DEF ReadPending, StableOK, UpdatesKept, Needed, UndoKept
  <2>3. Saved'
    BY <1>0, <1>1 DEF ReadPending, Saved, Before, LSNs
  <2> QED
    BY Zenon, <2>1, <2>2, <2>3 DEF TruncInv
<1>2. CASE ReadPages
  <2>1. AppliedLow' /\ StableOK' /\ UpdatesKept' /\ UndoKept'
    BY Zenon, <1>0, <1>2 DEF ReadPages, AppliedLow, StableOK, UpdatesKept, Needed, UndoKept
  <2>2. Saved'
    BY Zenon, <1>0, <1>2, PagesReadSaved DEF ReadPages, Saved, Before, LSNs
  <2> QED
    BY Zenon, <2>1, <2>2 DEF TruncInv
<1>3. CASE ReadXacts
  <2>1. AppliedLow' /\ StableOK' /\ UpdatesKept' /\ Saved'
    BY Zenon, <1>0, <1>3 DEF ReadXacts, AppliedLow, StableOK, UpdatesKept, Needed, Saved, Before, LSNs
  <2>2. ASSUME NEW t \in Threads
        PROVE  applied <= FirstRecord(t) \/ XactMinRecLSN <= FirstRecord(t)
    BY Zenon, <1>0, XactMinLow DEF FirstRecord, AppliedLow, Updating
  <2>3. UndoKept'
    BY Zenon, <1>0, <1>3, <2>2, XactMinLow DEF ReadXacts, UndoKept, FirstRecord
  <2> QED
    BY Zenon, <2>1, <2>3 DEF TruncInv
<1>4. CASE ReadFlushed
  <2>1. AppliedLow' /\ UpdatesKept' /\ Saved'
    BY Zenon, <1>0, <1>4 DEF ReadFlushed, AppliedLow, UpdatesKept, Needed, Saved, Before, LSNs
  <2>2. StableOK' /\ UndoKept'
    BY <1>0, <1>4 DEF ReadFlushed, StableOK, UndoKept, FirstRecord
  <2> QED
    BY Zenon, <2>1, <2>2 DEF TruncInv
<1>5. CASE Increment
  <2>1. AppliedLow' /\ StableOK' /\ UpdatesKept' /\ Saved'
    BY Zenon, <1>0, <1>5 DEF Increment, AppliedLow, StableOK, UpdatesKept, Needed, Saved, Before, LSNs
  <2>2. trunc < Target /\ Target' = Target /\ trunc' = trunc
    BY <1>0, <1>5, TargetLow, BoundAssumption DEF Increment, Target
  <2>3. UndoKept'
    BY Zenon, <1>0, <1>5, <2>2 DEF Increment, UndoKept, FirstRecord
  <2> QED
    BY Zenon, <2>1, <2>3 DEF TruncInv
<1>6. CASE GiveUp
  <2>1. AppliedLow' /\ StableOK' /\ UpdatesKept'
    BY <1>0, <1>6 DEF GiveUp, Return, AppliedLow, StableOK, UpdatesKept, Needed,
       IInv, PageInv, FlightOK, Updating, InFlight, LSNs
  <2>2. Saved' /\ UndoKept'
    BY <1>0, <1>6, BoundAssumption DEF GiveUp, Return, Saved, Before, LSNs, UndoKept
  <2> QED
    BY Zenon, <2>1, <2>2 DEF TruncInv
<1>7. CASE FlushDirty
  <2>1. AppliedLow'
    BY Zenon, <1>7, FirstPendingApplied DEF FlushDirty
  <2>2. StableOK' /\ UpdatesKept' /\ UndoKept'
    BY Zenon, <1>0, <1>7 DEF FlushDirty, StableOK, UpdatesKept, Needed, UndoKept
  <2>3. Saved'
    BY <1>0, <1>7 DEF FlushDirty, Saved, Before, LSNs
  <2> QED
    BY Zenon, <2>1, <2>2, <2>3 DEF TruncInv
<1>8. CASE FlushAgain
  <2>1. AppliedLow'
    BY Zenon, <1>8, FirstPendingApplied DEF FlushAgain
  <2>2. StableOK' /\ UpdatesKept' /\ UndoKept'
    BY Zenon, <1>0, <1>8 DEF FlushAgain, StableOK, UpdatesKept, Needed, UndoKept
  <2>3. Saved'
    BY <1>0, <1>8 DEF FlushAgain, Saved, Before, LSNs
  <2> QED
    BY Zenon, <2>1, <2>2, <2>3 DEF TruncInv
<1>9. CASE RereadPages
  <2>1. AppliedLow' /\ StableOK' /\ UpdatesKept' /\ UndoKept'
    BY Zenon, <1>0, <1>9 DEF RereadPages, AppliedLow, StableOK, UpdatesKept, Needed, UndoKept
  <2>2. Saved'
    BY Zenon, <1>0, <1>9, PagesReadSaved DEF RereadPages, Saved, Before, LSNs
  <2> QED
    BY Zenon, <2>1, <2>2 DEF TruncInv
<1>10. CASE ForcePages
  <2>1. AppliedLow' /\ StableOK' /\ UndoKept'
    BY Zenon, <1>0, <1>10 DEF ForcePages, AppliedLow, StableOK, UndoKept, FirstRecord, Target
  <2>2. UpdatesKept'
    <3>. SUFFICES ASSUME NEW l \in 1..Len(log), log[l].kind = "update", Needed(l)'
                  PROVE  l >= trunc
      BY Zenon, <1>10 DEF ForcePages, UpdatesKept
    <3>1. log[l].page # NoPage /\ l > written[log[l].page]
      BY Zenon, <1>10 DEF ForcePages, Needed
    <3>2. log[l].page \in Pages
      BY Zenon, <1>0, <3>1, PageOfRecord
    <3>3. /\ forced[log[l].page] <= written[log[l].page]
          /\ forced[log[l].page] \in Nat /\ written[log[l].page] \in Nat
      BY Zenon, <1>0, <3>2 DEF IInv, PageInv, PagesOK, Types
    <3>4. l > forced[log[l].page]
      BY <3>1, <3>3
    <3> QED
      BY Zenon, <1>0, <3>1, <3>4 DEF UpdatesKept, Needed
  <2>3. Saved'
    BY Zenon, <1>0, <1>10 DEF ForcePages, Saved, Before, LSNs
  <2> QED
    BY Zenon, <2>1, <2>2, <2>3 DEF TruncInv
<1>11. CASE Cut
  <2>1. /\ tpc = "cut" /\ trunc' = Max({trunc, Target}) /\ log' = log /\ flushed' = flushed
        /\ forced' = forced /\ written' = written /\ pc' = pc /\ cur' = cur
        /\ tpc' = "idle" /\ incremental' = FALSE /\ applied' = 1 /\ pageRec' = 1
        /\ xactRec' = 1 /\ flushedLSN' = 1
    BY Zenon, <1>11 DEF Cut, Return
  <2>2. /\ Target \in Nat /\ Target <= applied /\ Target <= pageRec /\ Target <= flushedLSN
        /\ trunc' = IF trunc < Target THEN Target ELSE trunc
    BY Zenon, <1>0, <2>1, TargetLow, MaxOfTwo
  <2>3. StableOK'
    BY <1>0, <2>1, <2>2 DEF StableOK
  <2>4. UpdatesKept'
    <3>. SUFFICES ASSUME NEW l \in 1..Len(log), log[l].kind = "update", Needed(l)
                  PROVE  l >= trunc'
      BY Zenon, <2>1 DEF UpdatesKept, Needed
    <3>1. l >= trunc
      BY Zenon, <1>0 DEF UpdatesKept
    <3>2. log[l].page \in Pages
      BY Zenon, <1>0, PageOfRecord DEF Needed
    <3>3. forced[log[l].page] \in Nat /\ l > forced[log[l].page] /\ l \in Nat
      BY <1>0, <3>2 DEF Needed, Types
    <3>4. ~Before(l)
      BY <1>0, <2>1, <3>3 DEF Saved, LSNs
    <3>5. ~(l < applied) \/ ~(l < pageRec)
      BY Zenon, <3>2, <3>4 DEF Before
    <3> QED
      BY <1>0, <2>2, <3>1, <3>3, <3>5
  <2>5. AppliedLow'
    BY <1>0, <2>1 DEF AppliedLow, IInv, PageInv, FlightOK, Updating, InFlight, LSNs
  <2>6. Saved' /\ UndoKept'
    BY <1>0, <2>1, BoundAssumption DEF Saved, Before, LSNs, UndoKept
  <2> QED
    BY Zenon, <2>3, <2>4, <2>5, <2>6 DEF TruncInv
<1> QED
  BY Zenon, <1>1, <1>2, <1>3, <1>4, <1>5, <1>6, <1>7, <1>8, <1>9, <1>10, <1>11
     DEF TruncationStep

-----------------------------------------------------------------------------
(* The inductive invariant.                                                *)
LEMMA InitInv == Init => IInv
<1>. SUFFICES ASSUME Init PROVE IInv
  OBVIOUS
<1>1. Types
  <2>1. log \in Seq(Records) /\ flushed \in Nat /\ trunc \in Nat
    BY DEF Init
  <2>2. /\ lsn \in [Pages -> Nat] /\ written \in [Pages -> Nat] /\ forced \in [Pages -> Nat]
        /\ dirty \in [Pages -> Nat \cup {INVALID_LSN}]
    BY Zenon DEF Init
  <2>3. /\ pc \in [Threads -> Labels] /\ cur \in [Threads -> Nat]
        /\ recLSN \in [Threads -> Nat \cup {INVALID_LSN}] /\ undo \in [Threads -> Seq(Pages)]
    BY DEF Init, Labels
  <2>4. /\ tpc \in TLabels /\ incremental \in BOOLEAN
        /\ applied \in Nat /\ pageRec \in Nat /\ xactRec \in Nat /\ flushedLSN \in Nat
    BY Zenon DEF Init, TLabels
  <2> QED
    BY Zenon, <2>1, <2>2, <2>3, <2>4 DEF Types
<1>2. Len(log) = 0 /\ LSNs = {} /\ \A t \in Threads : pc[t] = "idle"
  BY DEF Init, LSNs
<1>3. "idle" \notin InFlight /\ "idle" \notin Unapplied /\ "idle" \notin Updating
  BY Zenon DEF InFlight, Unapplied, Updating
<1>4. FlightOK /\ OnePerPage /\ OnPage /\ NotYet /\ DirtyCovers
  BY Zenon, <1>2, <1>3 DEF FlightOK, OnePerPage, OnPage, NotYet, DirtyCovers
<1>5. PagesOK
  BY <1>2 DEF Init, PagesOK
<1>6. StableOK /\ AppliedLow
  BY <1>2, <1>3 DEF Init, StableOK, AppliedLow
<1>7. UpdatesKept /\ Saved
  BY Zenon, <1>2 DEF Init, UpdatesKept, Saved, LSNs
<1>8. UndoKept
  BY BoundAssumption DEF Init, UndoKept
<1> QED
  BY Zenon, <1>1, <1>4, <1>5, <1>6, <1>7, <1>8 DEF IInv, PageInv, TruncInv

(* Steps that change nothing keep it.                                      *)
LEMMA StutterInv == IInv /\ UNCHANGED vars => IInv'
<1>. SUFFICES ASSUME IInv, UNCHANGED vars PROVE IInv'
  OBVIOUS
<1>1. /\ log' = log /\ flushed' = flushed /\ trunc' = trunc /\ lsn' = lsn /\ written' = written
      /\ forced' = forced /\ dirty' = dirty /\ pc' = pc /\ cur' = cur /\ recLSN' = recLSN
      /\ undo' = undo /\ tpc' = tpc /\ incremental' = incremental /\ applied' = applied
      /\ pageRec' = pageRec /\ xactRec' = xactRec /\ flushedLSN' = flushedLSN
  BY Zenon DEF vars, logv, pagev, xactv, truncv, readv
<1>2. Types'
  BY Zenon, <1>1 DEF IInv, Types
<1>3. PageInv'
  BY Zenon, <1>1 DEF IInv, PageInv, FlightOK, OnePerPage, OnPage, NotYet, DirtyCovers, PagesOK,
     Page, LSNs
<1>4. StableOK' /\ AppliedLow' /\ Saved' /\ UpdatesKept'
  BY Zenon, <1>1 DEF IInv, TruncInv, StableOK, AppliedLow, Saved, Before, UpdatesKept, Needed, LSNs
<1>5. UndoKept'
  BY Zenon, <1>1 DEF IInv, TruncInv, UndoKept, FirstRecord, Target
<1> QED
  BY Zenon, <1>2, <1>3, <1>4, <1>5 DEF IInv, TruncInv

(* Every step keeps it.                                                    *)
LEMMA NextInv ==
  ASSUME LogType = "safe_writes", IInv, [Next]_vars
  PROVE  IInv'
<1>1. ASSUME NEW t \in Threads, ThreadStep(t) PROVE IInv'
  BY Zenon, <1>1, ThreadTypes, ThreadSteps, MonotoneTrunc DEF IInv
<1>2. ASSUME LogFlush \/ \E p \in Pages : WriteBack(p) PROVE IInv'
  BY Zenon, <1>2, OtherTypes, WriterSteps, MonotoneTrunc DEF IInv
<1>3. CASE TruncationStep
  BY Zenon, <1>3, OtherTypes, TruncationPages, TruncationSteps DEF IInv
<1> QED
  BY Zenon, <1>1, <1>2, <1>3, StutterInv DEF Next

(* What truncation relies on holds in every reachable state of a system    *)
(* with the safe-writes log.                                               *)
THEOREM TruncationInvariant ==
  ASSUME LogType = "safe_writes"
  PROVE  Spec => []IInv
<1>1. IInv /\ [Next]_vars => IInv'
  BY Zenon, NextInv
<1> QED
  BY PTL, InitInv, <1>1 DEF Spec

(* However truncation, updates, rollbacks, write-back and commits are      *)
(* interleaved, an update that the page file lacks is in the log: its      *)
(* entry is pending until it is applied, and its page is dirty until it is *)
(* written (truncation.c, and write_entry_done after stasis_operation_do). *)
THEOREM TruncationKeepsUpdates ==
  ASSUME LogType = "safe_writes"
  PROVE  Spec => []UpdatesKept
<1>1. IInv => UpdatesKept
  BY Zenon DEF IInv, TruncInv
<1> QED
  BY PTL, TruncationInvariant, <1>1

(* An incremental truncation keeps what the rollback of every running      *)
(* transaction needs, also of one that began after it read the table: the  *)
(* order of the four reads is what this rests on.                          *)
THEOREM IncrementalKeepsUndo ==
  ASSUME LogType = "safe_writes"
  PROVE  Spec => IncrementKeepsUndo
<1>. DEFINE Keeps == tpc = "cut" /\ tpc' = "idle" /\ incremental =>
                       \A t \in Threads : FirstRecord(t) >= trunc'
<1>1. ASSUME IInv, Next PROVE Keeps
  <2>. SUFFICES ASSUME tpc = "cut", tpc' = "idle", incremental, NEW t \in Threads
                PROVE  FirstRecord(t) >= trunc'
    OBVIOUS
  <2>1. Cut
    BY Zenon, <1>1 DEF Next, ThreadStep, TruncationStep, UpdateReserve, UpdateWrite, UpdateLink,
       UpdateApply, UpdateDone, CommitLog, CommitEnd, AbortLog, UndoWriteCLR, UndoApply,
       AbortEnd, WriteBack, LogFlush, ReadPending, ReadPages, ReadXacts, ReadFlushed,
       Increment, GiveUp, FlushDirty, FlushAgain, RereadPages, ForcePages, truncv
  <2>2. trunc' = Max({trunc, Target})
    BY Zenon, <2>1 DEF Cut
  <2>3. trunc < Target /\ (applied <= FirstRecord(t) \/ xactRec <= FirstRecord(t))
    BY Zenon, <1>1 DEF IInv, TruncInv, UndoKept
  <2>4. Types
    BY Zenon, <1>1 DEF IInv
  <2>5. /\ trunc \in Nat /\ applied \in Nat /\ xactRec \in Nat /\ FirstRecord(t) \in Nat
    BY Zenon, <2>4, BoundAssumption DEF Types, FirstRecord
  <2> QED
    BY <2>2, <2>3, <2>4, <2>5, TargetLow, MaxOfTwo
<1>2. ASSUME UNCHANGED vars PROVE Keeps
  <2>1. tpc' = tpc
    BY Zenon, <1>2 DEF vars, truncv
  <2> QED
    BY Zenon, <2>1
<1>3. IInv /\ [Next]_vars => [Keeps]_vars
  BY Zenon, <1>1
<1> QED
  BY PTL, TruncationInvariant, <1>3 DEF Spec, IncrementKeepsUndo

=============================================================================
