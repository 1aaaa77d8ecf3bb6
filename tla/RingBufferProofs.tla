-------------------------- MODULE RingBufferProofs --------------------------
(***************************************************************************)
(* Proofs about RingBuffer for every ring size, every set of threads and   *)
(* every set of entry sizes.                                               *)
(***************************************************************************)
EXTENDS RingBuffer, TLAPS

Unpublished(w) == wpc[w] \in {"reserved", "filled"}
Active(w) == wpc[w] \in {"reserved", "filled", "applying"}
Within(o, w) == woff[w] <= o /\ o < woff[w] + wsz[w]

(* Each writer's entry lies between the tails and the write frontier.      *)
WriterRanges ==
  \A w \in Writers :
    /\ wpc[w] # "idle" => wsz[w] > 0
    /\ Active(w) => rwt <= woff[w] /\ woff[w] + wsz[w] <= wf
    /\ Unpublished(w) => wt <= woff[w]

(* wt is not merely a lower bound: some writer holds it back.              *)
WriteTailHeld ==
  wt = wf \/ \E w \in Writers : Unpublished(w) /\ woff[w] = wt

WritersDisjoint ==
  \A v, w \in Writers : v # w /\ Active(v) /\ Active(w) =>
    woff[v] + wsz[v] <= woff[w] \/ woff[w] + wsz[w] <= woff[v]

ReaderRanges ==
  \A c \in Consumers : cpc[c] = "reading" =>
    rt <= coff[c] /\ coff[c] + csz[c] <= rf

(* Every byte in use holds what was written there, but for the bytes that  *)
(* are reserved and not yet filled.                                        *)
WindowIntact ==
  \A o \in Nat :
    EffectiveRt <= o /\ o < wf
    /\ (\A w \in Writers : wpc[w] = "reserved" => ~Within(o, w))
      => mem[o % N] = o

IInv ==
  /\ TypeOK /\ PointersOrdered /\ WriterRanges /\ WriteTailHeld
  /\ WritersDisjoint /\ ReaderRanges /\ ReadersDisjoint /\ WindowIntact

-----------------------------------------------------------------------------
(* Two offsets less than a ring size apart never share a cell.             *)
LEMMA DistinctCells ==
  ASSUME N \in Nat, N > 0, NEW x \in Int, NEW y \in Int, x < y, y - x < N
  PROVE  x % N # y % N
  <1> DEFINE p == x \div N
             q == y \div N
  <1>1. p \in Int /\ q \in Int
    OBVIOUS
  <1>2. x = N * p + (x % N) /\ y = N * q + (y % N)
    OBVIOUS
  <1>3. SUFFICES ASSUME x % N = y % N PROVE FALSE
    OBVIOUS
  <1>4. y - x = N * q - N * p
    BY <1>1, <1>2, <1>3
  <1>5. CASE q <= p
    <2>1. N * q <= N * p
      BY <1>1, <1>5
    <2> QED
      BY <1>1, <1>4, <2>1
  <1>6. CASE q >= p + 1
    <2>1. N * q >= N * (p + 1)
      BY <1>1, <1>6
    <2>2. N * (p + 1) = N * p + N
      BY <1>1
    <2> QED
      BY <1>1, <1>4, <2>1, <2>2
  <1> QED
    BY <1>1, <1>5, <1>6

(* freespace() is what is left of the ring, one byte short of all of it:   *)
(* the mask turns the negative difference into the space between.          *)
LEMMA FreespaceValue ==
  ASSUME TypeOK, PointersOrdered
  PROVE  /\ EffectiveRt \in Nat
         /\ EffectiveRt <= rt /\ EffectiveRt <= rwt
         /\ wf - EffectiveRt < N
         /\ Freespace = N - 1 - (wf - EffectiveRt)
  <1>1. /\ EffectiveRt \in Nat /\ EffectiveRt <= rt /\ EffectiveRt <= rwt
        /\ wf - EffectiveRt < N /\ EffectiveRt <= wf
    BY DEF EffectiveRt, TypeOK, PointersOrdered
  <1> DEFINE d == (EffectiveRt - wf) - 1
  <1>2. d \in Int /\ d < 0 /\ -N <= d
    BY <1>1, SizeAssumption DEF TypeOK
  <1>3. d % N = d + N
    BY <1>2, SizeAssumption
  <1> QED
    BY <1>1, <1>3, SizeAssumption DEF Freespace, TypeOK

-----------------------------------------------------------------------------
(* The empty ring satisfies the invariant.                                 *)
LEMMA InitIInv == Init => IInv
  <1> SUFFICES ASSUME Init PROVE IInv
    OBVIOUS
  <1>1. TypeOK
    <2>1. mem \in [0..(N-1) -> Int]
      BY DEF Init
    <2>2. shutdown \in BOOLEAN
      BY ZenonT(30) DEF Init
    <2> QED
      BY <2>1, <2>2, OffsetAssumption DEF Init, TypeOK
  <1>2. PointersOrdered
    BY SizeAssumption, OffsetAssumption DEF Init, PointersOrdered
  <1>3. WriterRanges /\ WriteTailHeld /\ WritersDisjoint
    BY DEF Init, WriterRanges, WriteTailHeld, WritersDisjoint, Active,
           Unpublished
  <1>4. ReaderRanges /\ ReadersDisjoint
    BY DEF Init, ReaderRanges, ReadersDisjoint
  <1>5. WindowIntact
    BY OffsetAssumption DEF Init, WindowIntact, EffectiveRt
  <1> QED
    BY <1>1, <1>2, <1>3, <1>4, <1>5 DEF IInv

(* pthread_cond_signal wakes waiters only.                                 *)
LEMMA SignalSubset ==
  ASSUME NEW S, NEW T \in SignalOne(S) PROVE T \subseteq S
  BY DEF SignalOne

(* Every action keeps the types.                                           *)
LEMMA TypeStep == IInv /\ [Next]_vars => TypeOK'
  <1> SUFFICES ASSUME IInv, [Next]_vars PROVE TypeOK'
    OBVIOUS
  <1> USE SizeAssumption, ConsumeAssumption DEF IInv, TypeOK
  <1>1. ASSUME NEW w \in Writers, NEW sz \in Nat, ReserveSpace(w, sz)
        PROVE  TypeOK'
    <2>1. onRead' \subseteq Writers \cup Flushers \cup {Closer}
      BY <1>1 DEF ReserveSpace
    <2>2. shutdown' \in BOOLEAN
      BY <1>1 DEF ReserveSpace
    <2>3. wpc' \in [Writers -> {"idle", "wait", "reserved", "filled", "applying"}]
      BY ZenonT(30), <1>1 DEF ReserveSpace
    <2>4. wsz' \in [Writers -> Nat]
      BY <1>1 DEF ReserveSpace
    <2>5. woff' \in [Writers -> Nat] /\ wf' \in Nat
      <3>1. CASE Freespace < sz
        BY <1>1, <3>1 DEF ReserveSpace
      <3>2. CASE ~(Freespace < sz)
        <4>1. wf' = wf + sz /\ woff' = [woff EXCEPT ![w] = wf]
          BY <1>1, <3>2 DEF ReserveSpace
        <4> QED
          BY <4>1
      <3> QED
        BY <3>1, <3>2
    <2> QED
      BY <1>1, <2>1, <2>2, <2>3, <2>4, <2>5 DEF ReserveSpace, consumers, flushers
  <1>2. ASSUME NEW w \in Writers, NEW sz \in Sizes, Reserve(w, sz)
        PROVE  TypeOK'
    BY ZenonT(30), <1>1, <1>2 DEF Reserve
  <1>3. ASSUME NEW w \in Writers, ReserveAgain(w) PROVE TypeOK'
    BY ZenonT(30), <1>1, <1>3 DEF ReserveAgain
  <1>4. ASSUME NEW w \in Writers, Fill(w) PROVE TypeOK'
    <2>1. mem' \in [0..(N-1) -> Int]
      <3> SUFFICES ASSUME NEW c \in 0..(N-1),
                          \E o \in woff[w]..(woff[w] + wsz[w] - 1) : o % N = c
                   PROVE  (CHOOSE o \in woff[w]..(woff[w] + wsz[w] - 1) :
                             o % N = c) \in Int
        BY <1>4 DEF Fill
      <3> DEFINE R == woff[w]..(woff[w] + wsz[w] - 1)
      <3>1. R \subseteq Int
        OBVIOUS
      <3>2. \E o \in R : o % N = c
        OBVIOUS
      <3> HIDE DEF R
      <3>3. (CHOOSE o \in R : o % N = c) \in R
        BY <3>2, Zenon
      <3> QED
        BY <3>1, <3>3 DEF R
    <2> QED
      BY ZenonT(30), <1>4, <2>1 DEF Fill, pointers, consumers, flushers
  <1>5. ASSUME NEW w \in Writers, WriteDone(w) PROVE TypeOK'
    BY ZenonT(30), <1>5 DEF WriteDone, TailOf, Least, WriterHandles, consumers, flushers
  <1>6. ASSUME NEW w \in Writers, ReadingWriterDone(w) PROVE TypeOK'
    BY ZenonT(30), <1>6 DEF ReadingWriterDone, TailOf, Least, ReadingWriterHandles,
                consumers, flushers
  <1>7. ASSUME NEW c \in Consumers, ConsumeClosed(c) PROVE TypeOK'
    BY SMTT(30), <1>7 DEF ConsumeClosed, SignalOne, pointers, writers, flushers
  <1>8. ASSUME NEW c \in Consumers, ConsumeWait(c) PROVE TypeOK'
    BY <1>8 DEF ConsumeWait, pointers, writers, flushers
  <1>9. ASSUME NEW c \in Consumers, ConsumeBytes(c) PROVE TypeOK'
    <2>1. WantSize \in Nat
      BY DEF WantSize, PointersOrdered
    <2> QED
      BY <1>9, <2>1 DEF ConsumeBytes, writers, flushers
  <1>10. ASSUME NEW c \in Consumers, ReadDone(c) PROVE TypeOK'
    BY ZenonT(30), <1>10 DEF ReadDone, TailOf, Least, ReaderHandles, writers, flushers
  <1>11. ASSUME NEW f \in Flushers, NEW off \in Nat, FlushLoop(f, off),
                flush' \in Nat
         PROVE  TypeOK'
    <2>1. /\ onWrite' \subseteq Consumers
          /\ onRead' \subseteq Writers \cup Flushers \cup {Closer}
      BY <1>11, SignalSubset DEF FlushLoop
    <2>2. fpc' \in [Flushers -> {"idle", "wait"}] /\ foff' \in [Flushers -> Nat]
      BY ZenonT(30), <1>11 DEF FlushLoop
    <2> QED
      BY <1>11, <2>1, <2>2 DEF FlushLoop, pointers, writers, consumers
  <1>12. ASSUME NEW f \in Flushers, NEW off \in 1..wf, NEW pe \in BOOLEAN,
                Flush(f, off, pe)
         PROVE  TypeOK'
    <2>1. flush' \in Nat /\ off \in Nat /\ FlushLoop(f, off)
      BY <1>12 DEF Flush
    <2> QED
      BY ZenonT(30), <1>11, <2>1
  <1>13. ASSUME NEW f \in Flushers, FlushAgain(f) PROVE TypeOK'
    <2>1. flush' \in Nat /\ foff[f] \in Nat /\ FlushLoop(f, foff[f])
      BY <1>13 DEF FlushAgain
    <2> QED
      BY ZenonT(30), <1>11, <2>1
  <1>14. CASE Shutdown \/ ShutdownAgain
    <2>1. /\ onWrite' \subseteq Consumers
          /\ onRead' \subseteq Writers \cup Flushers \cup {Closer}
      BY <1>14, SignalSubset DEF Shutdown, ShutdownAgain, ShutdownWait
    <2>2. shutdown' \in BOOLEAN
      BY ZenonT(30), <1>14 DEF Shutdown, ShutdownAgain
    <2> QED
      BY <1>14, <2>1, <2>2 DEF Shutdown, ShutdownAgain, ShutdownWait, pointers,
                               writers, consumers, flushers
  <1>15. CASE ShutdownReturn
    BY <1>15 DEF ShutdownReturn, pointers, writers, consumers, flushers
  <1>16. CASE UNCHANGED vars
    BY <1>16 DEF vars
  <1> HIDE DEF IInv, TypeOK
  <1> QED
    BY <1>2, <1>3, <1>4, <1>5, <1>6, <1>7, <1>8, <1>9, <1>10, <1>12, <1>13,
       <1>14, <1>15, <1>16 DEF Next, WriterStep, ConsumerStep

(* What the other actions leave alone: the whole of the invariant but for  *)
(* the types, when no pointer, entry or range moves.                       *)
LEMMA FrameStep ==
  ASSUME IInv, TypeOK',
         UNCHANGED <<rt, rf, wt, wf, rwt, mem, woff, wsz, coff, csz>>,
         \A w \in Writers : wpc'[w] = wpc[w],
         \A c \in Consumers : cpc'[c] = "reading" => cpc[c] = "reading"
  PROVE  IInv'
  <1>1. PointersOrdered' /\ WriterRanges' /\ WriteTailHeld' /\ WritersDisjoint'
    BY DEF IInv, PointersOrdered, WriterRanges, WriteTailHeld,
           WritersDisjoint, Active, Unpublished
  <1>2. ReaderRanges' /\ ReadersDisjoint'
    BY DEF IInv, ReaderRanges, ReadersDisjoint
  <1>3. WindowIntact'
    BY DEF IInv, WindowIntact, EffectiveRt, Within
  <1> QED
    BY <1>1, <1>2, <1>3 DEF IInv

(* stasis_ringbuffer_reserve_space keeps the invariant.                    *)
LEMMA ReserveStep ==
  ASSUME IInv, TypeOK', NEW w \in Writers, NEW sz \in Nat, sz > 0,
         wpc[w] \in {"idle", "wait"}, ReserveSpace(w, sz)
  PROVE  IInv'
  <1> USE DEF IInv
  <1>1. CASE Freespace < sz
    <2>1. /\ wpc' = [wpc EXCEPT ![w] = "wait"] /\ wsz' = [wsz EXCEPT ![w] = sz]
          /\ UNCHANGED <<rt, rf, wt, wf, rwt, mem, woff, cpc, coff, csz>>
      BY <1>1 DEF ReserveSpace, consumers
    <2>2. PointersOrdered' /\ ReaderRanges' /\ ReadersDisjoint'
      BY <2>1 DEF PointersOrdered, ReaderRanges, ReadersDisjoint
    <2>3. \A v \in Writers :
            /\ Active(v)' <=> Active(v)
            /\ Unpublished(v)' <=> Unpublished(v)
            /\ wpc'[v] = "reserved" <=> wpc[v] = "reserved"
            /\ v # w => wsz'[v] = wsz[v] /\ wpc'[v] = wpc[v]
      BY <2>1 DEF Active, Unpublished, TypeOK
    <2>4. ~Active(w) /\ wsz'[w] = sz
      BY <2>1 DEF Active, TypeOK
    <2>5. WriterRanges' /\ WritersDisjoint'
      BY <2>1, <2>3, <2>4 DEF WriterRanges, WritersDisjoint, Active, Unpublished
    <2>6. WriteTailHeld'
      BY <2>1, <2>3 DEF WriteTailHeld
    <2>7. WindowIntact'
      BY <2>1, <2>3, <2>4 DEF WindowIntact, EffectiveRt, Within, Active
    <2> QED
      BY <2>2, <2>5, <2>6, <2>7
  <1>2. CASE ~(Freespace < sz)
    <2>1. /\ wpc' = [wpc EXCEPT ![w] = "reserved"]
          /\ wsz' = [wsz EXCEPT ![w] = sz] /\ woff' = [woff EXCEPT ![w] = wf]
          /\ wf' = wf + sz
          /\ UNCHANGED <<rt, rf, wt, rwt, mem, cpc, coff, csz>>
      BY <1>2 DEF ReserveSpace, consumers
    <2>2. /\ wf' - EffectiveRt < N /\ EffectiveRt <= rt /\ EffectiveRt <= rwt
          /\ EffectiveRt \in Nat /\ (EffectiveRt = rt \/ EffectiveRt = rwt)
      BY <1>2, <2>1, FreespaceValue, SizeAssumption DEF TypeOK, EffectiveRt
    <2>3. wf' - rt < N /\ wf' - rwt < N
      BY <2>1, <2>2, SizeAssumption DEF TypeOK
    <2>4. PointersOrdered'
      BY <2>1, <2>3 DEF PointersOrdered, TypeOK
    <2>5. ReaderRanges' /\ ReadersDisjoint'
      BY <2>1 DEF ReaderRanges, ReadersDisjoint
    <2>6. \A v \in Writers : v # w =>
            wpc'[v] = wpc[v] /\ wsz'[v] = wsz[v] /\ woff'[v] = woff[v]
      BY <2>1 DEF TypeOK
    <2>7. wpc'[w] = "reserved" /\ wsz'[w] = sz /\ woff'[w] = wf
      BY <2>1 DEF TypeOK
    <2>8. WriterRanges'
      BY <2>1, <2>6, <2>7 DEF WriterRanges, Active, Unpublished, TypeOK,
                              PointersOrdered
    <2>9. WritersDisjoint'
      BY ZenonT(30), <2>6, <2>7 DEF WritersDisjoint, WriterRanges, Active, TypeOK
    <2>10. WriteTailHeld'
      <3>1. CASE wt = wf
        BY <2>1, <2>7, <3>1 DEF WriteTailHeld, Unpublished
      <3>2. ASSUME NEW v \in Writers, Unpublished(v), woff[v] = wt
            PROVE  WriteTailHeld'
        BY <2>1, <2>6, <3>2 DEF WriteTailHeld, Unpublished
      <3> QED
        BY <3>1, <3>2 DEF WriteTailHeld
    <2>11. WindowIntact'
      <3> SUFFICES ASSUME NEW o \in Nat, EffectiveRt' <= o, o < wf',
                          \A v \in Writers : wpc'[v] = "reserved" => ~Within(o, v)'
                   PROVE  mem'[o % N] = o
        BY DEF WindowIntact
      <3>1. EffectiveRt' = EffectiveRt
        BY <2>1 DEF EffectiveRt
      <3>2. o < wf
        BY <2>1, <2>7 DEF Within, TypeOK
      <3>3. \A v \in Writers : wpc[v] = "reserved" => ~Within(o, v)
        BY <2>6 DEF Within
      <3> QED
        BY <2>1, <3>1, <3>2, <3>3 DEF WindowIntact
    <2> QED
      BY <2>4, <2>5, <2>8, <2>9, <2>10, <2>11
  <1> QED
    BY <1>1, <1>2

(* A writer that fills its bytes keeps the invariant.                      *)
LEMMA FillStep ==
  ASSUME IInv, TypeOK', NEW w \in Writers, Fill(w)
  PROVE  IInv'
  <1> USE DEF IInv
  <1> DEFINE R == woff[w]..(woff[w] + wsz[w] - 1)
  <1>1. /\ wpc[w] = "reserved" /\ wpc' = [wpc EXCEPT ![w] = "filled"]
        /\ UNCHANGED <<rt, rf, wt, wf, rwt, woff, wsz, cpc, coff, csz>>
    BY DEF Fill, pointers, consumers
  <1>2. \A v \in Writers :
          /\ Active(v)' <=> Active(v)
          /\ Unpublished(v)' <=> Unpublished(v)
          /\ v # w => wpc'[v] = wpc[v]
    BY <1>1 DEF Active, Unpublished, TypeOK
  <1>3. PointersOrdered' /\ ReaderRanges' /\ ReadersDisjoint'
    BY <1>1 DEF PointersOrdered, ReaderRanges, ReadersDisjoint
  <1>4. WriterRanges' /\ WriteTailHeld' /\ WritersDisjoint'
    BY <1>1, <1>2 DEF WriterRanges, WriteTailHeld, WritersDisjoint, TypeOK
  <1>5. WindowIntact'
    <2> SUFFICES ASSUME NEW o \in Nat, EffectiveRt <= o, o < wf,
                        \A v \in Writers : wpc'[v] = "reserved" => ~Within(o, v)
                 PROVE  mem'[o % N] = o
      BY <1>1 DEF WindowIntact, EffectiveRt, Within
    <2>1. /\ EffectiveRt \in Nat /\ wf - EffectiveRt < N
          /\ EffectiveRt <= woff[w] /\ woff[w] + wsz[w] <= wf
      <3>1. Active(w) /\ woff[w] \in Nat /\ wsz[w] \in Nat
        BY <1>1 DEF Active, TypeOK
      <3>2. rwt <= woff[w] /\ woff[w] + wsz[w] <= wf
        BY <3>1 DEF WriterRanges
      <3>3. /\ EffectiveRt \in Nat /\ EffectiveRt <= rwt
            /\ wf - EffectiveRt < N
        BY FreespaceValue
      <3> QED
        BY SMTT(30), <3>1, <3>2, <3>3 DEF TypeOK
    <2>2. o % N \in 0..(N-1)
      BY SizeAssumption
    <2>3. ASSUME NEW r \in R PROVE r % N = o % N => r = o
      <3>1. r \in Nat /\ EffectiveRt <= r /\ r < wf
        <4>1. /\ woff[w] \in Nat /\ wsz[w] \in Nat /\ wf \in Nat
              /\ r \in Int /\ woff[w] <= r /\ r < woff[w] + wsz[w]
          BY SMTT(30), <2>3 DEF TypeOK
        <4> QED
          BY <2>1, <4>1
      <3>2. CASE r < o
        BY <2>1, <3>1, <3>2, DistinctCells, SizeAssumption DEF TypeOK
      <3>3. CASE o < r
        BY <2>1, <3>1, <3>3, DistinctCells, SizeAssumption DEF TypeOK
      <3> QED
        BY <3>1, <3>2, <3>3
    <2>4. mem'[o % N] = IF \E r \in R : r % N = o % N
                        THEN CHOOSE r \in R : r % N = o % N
                        ELSE mem[o % N]
      BY ZenonT(30), <2>2 DEF Fill
    <2>5. CASE Within(o, w)
      <3>1. o \in R
        BY SMTT(30), <2>5 DEF Within, TypeOK
      <3> HIDE DEF R
      <3>2. (CHOOSE r \in R : r % N = o % N) = o
        BY <2>3, <3>1, Zenon
      <3> QED
        BY <2>4, <3>1, <3>2
    <2>6. CASE ~Within(o, w)
      <3>1. o \notin R
        BY SMTT(30), <2>6 DEF Within, TypeOK
      <3> HIDE DEF R
      <3>2. ~\E r \in R : r % N = o % N
        BY <2>3, <3>1
      <3>3. mem[o % N] = o
        BY <1>2, <2>6 DEF WindowIntact, Within
      <3> QED
        BY <2>4, <3>2, <3>3
    <2> QED
      BY <2>5, <2>6
  <1> QED
    BY <1>3, <1>4, <1>5

(* stasis_ringbuffer_write_done keeps the invariant.                       *)
LEMMA WriteDoneStep ==
  ASSUME IInv, TypeOK', NEW w \in Writers, WriteDone(w)
  PROVE  IInv' /\ wt' >= wt
  <1> USE DEF IInv
  <1>1. /\ wpc[w] = "filled" /\ wpc' = [wpc EXCEPT ![w] = "applying"]
        /\ UNCHANGED <<rt, rf, wf, rwt, mem, woff, wsz, cpc, coff, csz>>
    BY DEF WriteDone, consumers
  <1>2. \A v \in Writers :
          /\ Active(v)' <=> Active(v)
          /\ Unpublished(v)' <=> Unpublished(v) /\ v # w
          /\ wpc'[v] = "reserved" <=> wpc[v] = "reserved"
          /\ v # w => wpc'[v] = wpc[v]
    BY <1>1 DEF Active, Unpublished, TypeOK
  <1> DEFINE H == WriterHandles(w)
  <1>3. \A v \in Writers : Unpublished(v)' => woff[v] \in H
    BY <1>2 DEF WriterHandles, Unpublished
  <1>4. \A h \in H : \E v \in Writers : Unpublished(v)' /\ woff[v] = h
    BY <1>2 DEF WriterHandles, Unpublished
  <1>5. /\ wt' = wf \/ wt' \in H
        /\ \A h \in H : wt' <= h
        /\ H = {} => wt' = wf
    BY DEF WriteDone, TailOf, Least
  <1> HIDE DEF H
  <1>6. wt' >= wt /\ wt' <= wf /\ rwt <= wt'
    <2>1. CASE wt' = wf
      BY <2>1 DEF PointersOrdered, TypeOK
    <2>2. ASSUME NEW v \in Writers, Unpublished(v)', woff[v] = wt'
          PROVE  wt' >= wt /\ wt' <= wf /\ rwt <= wt'
      <3>1. Unpublished(v) /\ Active(v)
        BY <1>2, <2>2 DEF Active, Unpublished
      <3> QED
        BY SMTT(30), <2>2, <3>1 DEF WriterRanges, TypeOK
    <2> QED
      BY <1>4, <1>5, <2>1, <2>2
  <1>7. PointersOrdered' /\ ReaderRanges' /\ ReadersDisjoint'
    BY <1>1, <1>6 DEF PointersOrdered, ReaderRanges, ReadersDisjoint, TypeOK
  <1>8. WriterRanges'
    <2> SUFFICES ASSUME NEW v \in Writers
                 PROVE  /\ wpc'[v] # "idle" => wsz[v] > 0
                        /\ Active(v) => rwt <= woff[v] /\ woff[v] + wsz[v] <= wf
                        /\ Unpublished(v)' => wt' <= woff[v]
      BY <1>1, <1>2 DEF WriterRanges
    <2> QED
      BY <1>1, <1>2, <1>3, <1>5 DEF WriterRanges
  <1>9. WriteTailHeld'
    BY <1>1, <1>4, <1>5 DEF WriteTailHeld
  <1>10. WritersDisjoint'
    BY <1>1, <1>2 DEF WritersDisjoint
  <1>11. WindowIntact'
    BY <1>1, <1>2 DEF WindowIntact, EffectiveRt, Within
  <1> QED
    BY <1>6, <1>7, <1>8, <1>9, <1>10, <1>11

(* stasis_ringbuffer_reading_writer_done keeps the invariant.              *)
LEMMA ReadingWriterDoneStep ==
  ASSUME IInv, TypeOK', NEW w \in Writers, ReadingWriterDone(w)
  PROVE  IInv' /\ rwt' >= rwt
  <1> USE DEF IInv
  <1>1. /\ wpc[w] = "applying" /\ wpc' = [wpc EXCEPT ![w] = "idle"]
        /\ UNCHANGED <<rt, rf, wf, wt, mem, woff, wsz, cpc, coff, csz>>
    BY DEF ReadingWriterDone, consumers
  <1>2. \A v \in Writers :
          /\ Active(v)' <=> Active(v) /\ v # w
          /\ Unpublished(v)' <=> Unpublished(v)
          /\ wpc'[v] = "reserved" <=> wpc[v] = "reserved"
          /\ v # w => wpc'[v] = wpc[v]
    BY <1>1 DEF Active, Unpublished, TypeOK
  <1> DEFINE H == ReadingWriterHandles(w)
  <1>3. \A v \in Writers : Active(v)' => woff[v] \in H
    BY <1>2 DEF ReadingWriterHandles, Active
  <1>4. \A h \in H : \E v \in Writers : Active(v)' /\ woff[v] = h
    BY <1>2 DEF ReadingWriterHandles, Active
  <1>5. /\ rwt' = wf \/ rwt' \in H
        /\ \A h \in H : rwt' <= h
        /\ H = {} => rwt' = wf
    BY DEF ReadingWriterDone, TailOf, Least
  <1> HIDE DEF H
  <1>6. rwt' >= rwt
    BY SMTT(30), <1>2, <1>4, <1>5 DEF WriterRanges, PointersOrdered, TypeOK
  <1>7. rwt' <= wt
    <2>1. CASE wt = wf
      <3>1. CASE rwt' = wf
        BY <2>1, <3>1 DEF TypeOK
      <3>2. ASSUME NEW v \in Writers, Active(v)', woff[v] = rwt' PROVE rwt' <= wt
        BY SMTT(30), <1>2, <2>1, <3>2 DEF WriterRanges, TypeOK
      <3> QED
        BY <1>4, <1>5, <3>1, <3>2
    <2>2. ASSUME NEW v \in Writers, Unpublished(v), woff[v] = wt
          PROVE  rwt' <= wt
      BY <1>1, <1>2, <1>3, <1>5, <2>2 DEF Active, Unpublished
    <2> QED
      BY <2>1, <2>2 DEF WriteTailHeld
  <1>8. PointersOrdered' /\ ReaderRanges' /\ ReadersDisjoint'
    <2>1. wf - rwt' < N
      <3>1. {rwt, rwt', wf} \subseteq Nat
        BY DEF TypeOK
      <3> QED
        BY <1>6, <3>1, SizeAssumption DEF PointersOrdered
    <2> QED
      BY <1>1, <1>7, <2>1 DEF PointersOrdered, ReaderRanges, ReadersDisjoint
  <1>9. WriterRanges'
    <2> SUFFICES ASSUME NEW v \in Writers
                 PROVE  /\ wpc'[v] # "idle" => wsz[v] > 0
                        /\ Active(v)' => rwt' <= woff[v] /\ woff[v] + wsz[v] <= wf
                        /\ Unpublished(v) => wt <= woff[v]
      BY ZenonT(30), <1>1, <1>2 DEF WriterRanges
    <2> QED
      BY SMTT(30), <1>1, <1>2, <1>3, <1>5 DEF WriterRanges, TypeOK
  <1>10. WriteTailHeld' /\ WritersDisjoint'
    BY ZenonT(30), <1>1, <1>2 DEF WriteTailHeld, WritersDisjoint
  <1>11. WindowIntact'
    <2>1. EffectiveRt' >= EffectiveRt
      BY <1>1, <1>6 DEF EffectiveRt, TypeOK
    <2> QED
      BY <1>1, <1>2, <2>1, FreespaceValue DEF WindowIntact, Within, TypeOK,
                           EffectiveRt
  <1> QED
    BY <1>6, <1>8, <1>9, <1>10, <1>11

(* stasis_ringbuffer_consume_bytes keeps the invariant.                    *)
LEMMA ConsumeBytesStep ==
  ASSUME IInv, TypeOK', NEW c \in Consumers, ConsumeBytes(c)
  PROVE  IInv' /\ rf' >= rf
  <1> USE DEF IInv
  <1>1. WantSize \in Nat /\ rf + WantSize <= wt
    BY ConsumeAssumption
       DEF ConsumeBytes, RingVolatile, WantSize, PointersOrdered, TypeOK
  <1>2. /\ cpc' = [cpc EXCEPT ![c] = "reading"]
        /\ coff' = [coff EXCEPT ![c] = rf]
        /\ csz' = [csz EXCEPT ![c] = WantSize]
        /\ rf' = rf + WantSize
        /\ UNCHANGED <<rt, wt, wf, rwt, mem, wpc, woff, wsz>>
        /\ cpc[c] # "reading"
    BY DEF ConsumeBytes, Consuming, writers
  <1>3. rf' >= rf /\ rf' <= wt
    BY <1>1, <1>2 DEF TypeOK
  <1>4. PointersOrdered'
    BY SMTT(30), <1>2, <1>3 DEF PointersOrdered, TypeOK
  <1>5. WriterRanges' /\ WriteTailHeld' /\ WritersDisjoint' /\ WindowIntact'
    BY <1>2 DEF WriterRanges, WriteTailHeld, WritersDisjoint, WindowIntact,
                EffectiveRt, Within, Active, Unpublished
  <1>6. /\ cpc'[c] = "reading" /\ coff'[c] = rf /\ csz'[c] = WantSize
        /\ \A d \in Consumers : d # c =>
             cpc'[d] = cpc[d] /\ coff'[d] = coff[d] /\ csz'[d] = csz[d]
    BY <1>2 DEF TypeOK
  <1>7. ReaderRanges'
    BY SMTT(30), <1>1, <1>2, <1>3, <1>6 DEF ReaderRanges, PointersOrdered, TypeOK
  <1>8. ReadersDisjoint'
    BY <1>6 DEF ReadersDisjoint, ReaderRanges
  <1> QED
    BY <1>3, <1>4, <1>5, <1>7, <1>8

(* stasis_ringbuffer_read_done keeps the invariant.                        *)
LEMMA ReadDoneStep ==
  ASSUME IInv, TypeOK', NEW c \in Consumers, ReadDone(c)
  PROVE  IInv' /\ rt' >= rt
  <1> USE DEF IInv
  <1>1. /\ cpc' = [cpc EXCEPT ![c] = "idle"]
        /\ UNCHANGED <<rf, wt, wf, rwt, mem, wpc, woff, wsz, coff, csz>>
    BY DEF ReadDone, writers
  <1>2. /\ cpc'[c] = "idle"
        /\ \A d \in Consumers : d # c => cpc'[d] = cpc[d]
    BY <1>1 DEF TypeOK
  <1> DEFINE H == ReaderHandles(c)
  <1>3. \A d \in Consumers : cpc'[d] = "reading" => coff[d] \in H
    BY <1>2 DEF ReaderHandles
  <1>4. \A h \in H : \E d \in Consumers : cpc[d] = "reading" /\ coff[d] = h
    BY DEF ReaderHandles
  <1>5. /\ rt' = rf \/ rt' \in H
        /\ \A h \in H : rt' <= h
    BY DEF ReadDone, TailOf, Least
  <1> HIDE DEF H
  <1>6. rt' >= rt /\ rt' <= rf
    <2>1. CASE rt' = rf
      BY <2>1 DEF PointersOrdered, TypeOK
    <2>2. ASSUME NEW d \in Consumers, cpc[d] = "reading", coff[d] = rt'
          PROVE  rt' >= rt /\ rt' <= rf
      BY SMTT(30), <2>2 DEF ReaderRanges, TypeOK
    <2> QED
      BY <1>4, <1>5, <2>1, <2>2
  <1>7. PointersOrdered'
    <2>1. {rt, rt', rf, wf} \subseteq Nat
      BY DEF TypeOK
    <2>2. wf - rt' < N
      BY <1>6, <2>1, SizeAssumption DEF PointersOrdered
    <2> QED
      BY <1>1, <1>6, <2>2 DEF PointersOrdered
  <1>8. WriterRanges' /\ WriteTailHeld' /\ WritersDisjoint'
    BY <1>1 DEF WriterRanges, WriteTailHeld, WritersDisjoint, Active,
                Unpublished
  <1>9. ReaderRanges'
    <2> SUFFICES ASSUME NEW d \in Consumers, cpc'[d] = "reading"
                 PROVE  rt' <= coff[d] /\ coff[d] + csz[d] <= rf
      BY <1>1 DEF ReaderRanges
    <2> QED
      BY <1>2, <1>3, <1>5 DEF ReaderRanges
  <1>10. ReadersDisjoint'
    BY <1>1, <1>2 DEF ReadersDisjoint
  <1>11. WindowIntact'
    <2>1. /\ EffectiveRt' >= EffectiveRt
          /\ EffectiveRt' \in Nat /\ EffectiveRt \in Nat
      BY <1>1, <1>6 DEF EffectiveRt, TypeOK
    <2>2. SUFFICES ASSUME NEW o \in Nat, EffectiveRt' <= o, o < wf',
                          \A w \in Writers : wpc'[w] = "reserved" => ~Within(o, w)'
                   PROVE  mem'[o % N] = o
      BY DEF WindowIntact
    <2>3. EffectiveRt <= o
      BY <2>1, <2>2
    <2> QED
      BY SMTT(30), <1>1, <2>2, <2>3 DEF WindowIntact, Within
  <1> QED
    BY <1>6, <1>7, <1>8, <1>9, <1>10, <1>11

-----------------------------------------------------------------------------
(* One step keeps the invariant and moves no pointer back.                 *)
LEMMA NextIInv ==
  IInv /\ [Next]_vars =>
    /\ IInv'
    /\ rt' >= rt /\ rf' >= rf /\ wt' >= wt /\ wf' >= wf /\ rwt' >= rwt
  <1> SUFFICES ASSUME IInv, [Next]_vars
               PROVE  /\ IInv'
                      /\ rt' >= rt /\ rf' >= rf /\ wt' >= wt /\ wf' >= wf
                      /\ rwt' >= rwt
    OBVIOUS
  <1> DEFINE Goal == /\ IInv'
                     /\ rt' >= rt /\ rf' >= rf /\ wt' >= wt /\ wf' >= wf
                     /\ rwt' >= rwt
  <1>1. TypeOK /\ TypeOK'
    BY TypeStep DEF IInv
  <1>2. \A x \in {rt, rf, wt, wf, rwt} : x >= x
    BY <1>1 DEF TypeOK
  <1>3. ASSUME NEW w \in Writers, NEW sz \in Sizes, Reserve(w, sz) PROVE Goal
    <2>1. sz \in Nat /\ sz > 0
      BY SizeAssumption
    <2>2. wf' >= wf /\ UNCHANGED <<rt, rf, wt, rwt>>
      BY <1>1, <1>3, <2>1 DEF Reserve, ReserveSpace, TypeOK
    <2> QED
      BY <1>1, <1>2, <1>3, <2>1, <2>2, ReserveStep DEF Reserve
  <1>4. ASSUME NEW w \in Writers, ReserveAgain(w) PROVE Goal
    <2>1. wsz[w] \in Nat /\ wsz[w] > 0
      BY <1>1, <1>4 DEF IInv, WriterRanges, ReserveAgain, TypeOK
    <2>2. wf' >= wf /\ UNCHANGED <<rt, rf, wt, rwt>>
      BY <1>1, <1>4, <2>1 DEF ReserveAgain, ReserveSpace, TypeOK
    <2> QED
      BY <1>1, <1>2, <1>4, <2>1, <2>2, ReserveStep DEF ReserveAgain
  <1>5. ASSUME NEW w \in Writers, Fill(w) PROVE Goal
    BY ZenonT(30), <1>1, <1>2, <1>5, FillStep DEF Fill, pointers
  <1>6. ASSUME NEW w \in Writers, WriteDone(w) PROVE Goal
    BY ZenonT(30), <1>1, <1>2, <1>6, WriteDoneStep DEF WriteDone
  <1>7. ASSUME NEW w \in Writers, ReadingWriterDone(w) PROVE Goal
    BY ZenonT(30), <1>1, <1>2, <1>7, ReadingWriterDoneStep DEF ReadingWriterDone
  <1>8. ASSUME NEW c \in Consumers, ConsumeBytes(c) PROVE Goal
    BY ZenonT(30), <1>1, <1>2, <1>8, ConsumeBytesStep DEF ConsumeBytes
  <1>9. ASSUME NEW c \in Consumers, ReadDone(c) PROVE Goal
    BY ZenonT(30), <1>1, <1>2, <1>9, ReadDoneStep DEF ReadDone
  <1>10. ASSUME NEW c \in Consumers, ConsumeClosed(c) \/ ConsumeWait(c)
         PROVE  Goal
    <2>1. /\ UNCHANGED <<rt, rf, wt, wf, rwt, mem, woff, wsz, coff, csz>>
          /\ \A w \in Writers : wpc'[w] = wpc[w]
          /\ \A d \in Consumers : cpc'[d] = "reading" => cpc[d] = "reading"
      BY SMTT(30), <1>1, <1>10 DEF ConsumeClosed, ConsumeWait, pointers, writers, TypeOK
    <2> QED
      BY <1>1, <1>2, <2>1, FrameStep
  <1>11. ASSUME \/ \E f \in Flushers : FlushAgain(f)
                \/ \E f \in Flushers : \E off \in 1..wf : \E pe \in BOOLEAN :
                     Flush(f, off, pe)
                \/ Shutdown \/ ShutdownAgain \/ ShutdownReturn
                \/ UNCHANGED vars
         PROVE  Goal
    <2>1. /\ UNCHANGED <<rt, rf, wt, wf, rwt, mem, woff, wsz, coff, csz>>
          /\ UNCHANGED <<wpc, cpc>>
      BY <1>11 DEF FlushAgain, Flush, FlushLoop, Shutdown, ShutdownAgain,
                   ShutdownReturn, ShutdownWait, pointers, writers, consumers,
                   vars
    <2> QED
      BY <1>1, <1>2, <2>1, FrameStep
  <1> HIDE DEF Goal
  <1>12. Goal
    BY <1>3, <1>4, <1>5, <1>6, <1>7, <1>8, <1>9, <1>10, <1>11
       DEF Next, WriterStep, ConsumerStep
  <1> QED
    BY <1>12 DEF Goal

(* The inductive invariant gives what the runs check.                      *)
LEMMA IInvBytes == IInv => BytesIntact
  <1> SUFFICES ASSUME IInv PROVE BytesIntact
    OBVIOUS
  <1> USE DEF IInv
  <1>1. EffectiveRt \in Nat /\ EffectiveRt <= rt /\ EffectiveRt <= rwt
    BY FreespaceValue
  <1>2. ASSUME NEW c \in Consumers, cpc[c] = "reading",
               NEW o \in coff[c]..(coff[c] + csz[c] - 1)
        PROVE  mem[o % N] = o
    <2>1. /\ o \in Nat /\ rt <= o /\ o < wt /\ o < wf
      <3>1. /\ coff[c] \in Nat /\ csz[c] \in Nat
            /\ rt <= coff[c] /\ coff[c] + csz[c] <= rf
        BY <1>2 DEF TypeOK, ReaderRanges
      <3> QED
        BY <3>1 DEF TypeOK, PointersOrdered
    <2>2. \A w \in Writers : wpc[w] = "reserved" => ~Within(o, w)
      BY <2>1 DEF WriterRanges, Unpublished, Within, TypeOK
    <2> QED
      BY <1>1, <2>1, <2>2 DEF WindowIntact, TypeOK
  <1>3. ASSUME NEW w \in Writers, wpc[w] \in {"filled", "applying"},
               NEW o \in woff[w]..(woff[w] + wsz[w] - 1)
        PROVE  mem[o % N] = o
    <2>1. Active(w) /\ Within(o, w) /\ o \in Nat /\ rwt <= o /\ o < wf
      <3>1. /\ woff[w] \in Nat /\ wsz[w] \in Nat /\ Active(w)
            /\ rwt <= woff[w] /\ woff[w] + wsz[w] <= wf
        BY <1>3 DEF TypeOK, WriterRanges, Active
      <3> QED
        BY <3>1 DEF TypeOK, Within
    <2>2. \A v \in Writers : wpc[v] = "reserved" => ~Within(o, v)
      <3> SUFFICES ASSUME NEW v \in Writers, wpc[v] = "reserved", Within(o, v)
                   PROVE  FALSE
        OBVIOUS
      <3>1. v # w /\ Active(v)
        BY <1>3 DEF Active
      <3>2. woff[v] + wsz[v] <= woff[w] \/ woff[w] + wsz[w] <= woff[v]
        BY <2>1, <3>1 DEF WritersDisjoint
      <3>3. {woff[v], woff[w], wsz[v], wsz[w]} \subseteq Nat
        BY DEF TypeOK
      <3> QED
        BY <2>1, <3>2, <3>3 DEF Within
    <2>3. EffectiveRt <= o
      BY <1>1, <2>1 DEF TypeOK
    <2> QED
      BY <2>1, <2>2, <2>3 DEF WindowIntact
  <1> QED
    BY <1>2, <1>3 DEF BytesIntact

(* For every ring size, set of threads and set of entry sizes: the types   *)
(* hold, and the pointers of ringbuffer.c stay ordered with less than a    *)
(* ring in use.                                                            *)
THEOREM PointersSafe == Spec => [](TypeOK /\ PointersOrdered)
  <1>1. IInv /\ [Next]_vars => IInv'
    BY NextIInv
  <1>2. IInv => TypeOK /\ PointersOrdered
    BY DEF IInv
  <1> QED
    BY InitIInv, <1>1, <1>2, PTL DEF Spec

(* Consumers that reserve in any order never get overlapping ranges, so    *)
(* every byte is consumed once.                                            *)
THEOREM ConsumersApart == Spec => []ReadersDisjoint
  <1>1. IInv /\ [Next]_vars => IInv'
    BY NextIInv
  <1>2. IInv => ReadersDisjoint
    BY DEF IInv
  <1> QED
    BY InitIInv, <1>1, <1>2, PTL DEF Spec

(* No byte that a consumer or an applying writer still reads is ever       *)
(* overwritten by a later reservation.                                     *)
THEOREM BytesSafe == Spec => []BytesIntact
  <1>1. IInv /\ [Next]_vars => IInv'
    BY NextIInv
  <1> QED
    BY InitIInv, <1>1, IInvBytes, PTL DEF Spec

(* The assertions in the advance functions never fail: no pointer moves    *)
(* back.                                                                   *)
THEOREM TailsSafe == Spec => TailsAdvance
  <1>1. IInv /\ [Next]_vars => IInv'
    BY NextIInv
  <1>2. IInv /\ [Next]_vars =>
          [rt' >= rt /\ rf' >= rf /\ wt' >= wt /\ wf' >= wf /\ rwt' >= rwt]_vars
    BY NextIInv
  <1> QED
    BY InitIInv, <1>1, <1>2, PTL DEF Spec, TailsAdvance
=============================================================================
