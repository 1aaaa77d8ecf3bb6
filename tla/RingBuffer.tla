----------------------------- MODULE RingBuffer -----------------------------
(***************************************************************************)
(* The ring buffer of src/stasis/util/ringbuffer.c, through which the      *)
(* file-pool log hands framed log entries to its writeback thread.         *)
(*                                                                         *)
(* Every function of the file holds ring->mut from its first line to its   *)
(* return, and gives it up only inside pthread_cond_wait.  So each action  *)
(* below is one critical section: a call up to its return or to its wait,  *)
(* or what a woken thread does up to its return or to its next wait.       *)
(* onRead and onWrite are the threads blocked on read_done and write_done. *)
(***************************************************************************)
EXTENDS Integers

CONSTANTS N,             \* bytes in the ring: ring->mask + 1
          Writers,       \* threads that reserve space and write an entry
          Consumers,     \* threads that read the ring (writeback workers)
          Flushers,      \* threads that call stasis_ringbuffer_flush
          Closer,        \* the thread that calls stasis_ringbuffer_shutdown
          Sizes,         \* sizes of framed entries
          ConsumeSize,   \* bytes a consumer asks for at a time
          InitialOffset, \* initial_offset of stasis_ringbuffer_init
          MaxOffset      \* bound: no call reserves space past this offset

ASSUME SizeAssumption == N \in Nat /\ N > 0 /\ Sizes \subseteq Nat \ {0}
ASSUME OffsetAssumption == InitialOffset \in Nat /\ MaxOffset \in Nat
ASSUME ConsumeAssumption == ConsumeSize \in Nat /\ ConsumeSize > 0

VARIABLES rt, rf, wt, wf, rwt,  \* the five pointers
          flush, shutdown,      \* the fields of the same names
          mem,                  \* cell -> the offset whose byte it holds
          wpc, woff, wsz,       \* writers: control state, handle, size
          cpc, coff, csz,       \* consumers: control state, handle, size
          fpc, foff,            \* flushers: control state, argument
          spc,                  \* the caller of shutdown
          onRead, onWrite       \* threads waiting on the two conditions

pointers == <<rt, rf, wt, wf, rwt>>
writers == <<wpc, woff, wsz>>
consumers == <<cpc, coff, csz>>
flushers == <<fpc, foff>>
vars == <<rt, rf, wt, wf, rwt, flush, shutdown, mem, wpc, woff, wsz,
          cpc, coff, csz, fpc, foff, spc, onRead, onWrite>>

Init ==
  /\ rt = InitialOffset /\ rf = InitialOffset /\ rwt = InitialOffset
  /\ wt = InitialOffset /\ wf = InitialOffset
  /\ flush = 0 /\ shutdown = FALSE
  /\ mem = [c \in 0..(N-1) |-> -1]
  /\ wpc = [w \in Writers |-> "idle"]
  /\ woff = [w \in Writers |-> InitialOffset]
  /\ wsz = [w \in Writers |-> 0]
  /\ cpc = [c \in Consumers |-> "idle"]
  /\ coff = [c \in Consumers |-> InitialOffset]
  /\ csz = [c \in Consumers |-> 0]
  /\ fpc = [f \in Flushers |-> "idle"]
  /\ foff = [f \in Flushers |-> 0]
  /\ spc = "open"
  /\ onRead = {} /\ onWrite = {}

-----------------------------------------------------------------------------
(* stasis_aggregate_min_t: the least handle added and not yet removed.     *)
Least(S) == {m \in S : \A x \in S : m <= x}

(* A tail is the least handle in use, or the frontier when there is none.  *)
TailOf(S, frontier) == IF S = {} THEN {frontier} ELSE Least(S)

(* The handles in min_writer, min_reading_writer and min_reader, but for   *)
(* the one that the calling thread t has just removed.                     *)
WriterHandles(t) ==
  {woff[w] : w \in {v \in Writers \ {t} : wpc[v] \in {"reserved", "filled"}}}

ReadingWriterHandles(t) ==
  {woff[w] : w \in {v \in Writers \ {t} :
                      wpc[v] \in {"reserved", "filled", "applying"}}}

ReaderHandles(t) ==
  {coff[c] : c \in {d \in Consumers \ {t} : cpc[d] = "reading"}}

(* Faulty variant: space is reused while its writer still reads it.        *)
EffectiveRtReadersOnly == rt

EffectiveRt == IF rt < rwt THEN rt ELSE rwt

(* Faulty variant: the ring may fill up completely.                        *)
FreespaceNoGap == N - (wf - EffectiveRt)

(* One byte is kept free, so that a full ring and an empty one differ.     *)
Freespace == ((EffectiveRt - wf) - 1) % N

(* pthread_cond_signal wakes at most one waiter, whichever it likes.       *)
SignalOne(S) == IF S = {} THEN {{}} ELSE {S \ {t} : t \in S}

-----------------------------------------------------------------------------
(* stasis_ringbuffer_reserve_space: takes sz bytes at the write frontier,  *)
(* or waits until a reader or a writer gives space back.                   *)
ReserveSpace(w, sz) ==
  /\ IF Freespace < sz
     THEN /\ wpc' = [wpc EXCEPT ![w] = "wait"]
          /\ onRead' = onRead \cup {w}
          /\ UNCHANGED <<wf, woff>>
     ELSE /\ wpc' = [wpc EXCEPT ![w] = "reserved"]
          /\ woff' = [woff EXCEPT ![w] = wf]
          /\ wf' = wf + sz
          /\ UNCHANGED onRead
  /\ wsz' = [wsz EXCEPT ![w] = sz]
  /\ UNCHANGED <<rt, rf, wt, rwt, flush, shutdown, mem, consumers, flushers,
                 spc, onWrite>>

Reserve(w, sz) ==
  /\ wpc[w] = "idle" /\ ~shutdown
  /\ wf + sz <= MaxOffset
  /\ ReserveSpace(w, sz)

ReserveAgain(w) ==
  /\ wpc[w] = "wait" /\ w \notin onRead
  /\ ReserveSpace(w, wsz[w])

(* The caller fills the buffer that stasis_ringbuffer_get_wr_buf returned. *)
Fill(w) ==
  /\ wpc[w] = "reserved"
  /\ mem' = [c \in 0..(N-1) |->
               IF \E o \in woff[w]..(woff[w] + wsz[w] - 1) : o % N = c
               THEN CHOOSE o \in woff[w]..(woff[w] + wsz[w] - 1) : o % N = c
               ELSE mem[c]]
  /\ wpc' = [wpc EXCEPT ![w] = "filled"]
  /\ UNCHANGED <<pointers, flush, shutdown, woff, wsz, consumers, flushers,
                 spc, onRead, onWrite>>

(* Faulty variant: the tail moves to the end of the entry just finished,   *)
(* without a look at the entries reserved before it.                       *)
WriteDoneOwnEnd(w) ==
  /\ wpc[w] = "filled"
  /\ wpc' = [wpc EXCEPT ![w] = "applying"]
  /\ wt' = woff[w] + wsz[w]
  /\ onWrite' = IF wt' # wt THEN {} ELSE onWrite
  /\ UNCHANGED <<rt, rf, wf, rwt, flush, shutdown, mem, woff, wsz, consumers,
                 flushers, spc, onRead>>

(* stasis_ringbuffer_write_done: the entry is stable for the readers.      *)
WriteDone(w) ==
  /\ wpc[w] = "filled"
  /\ wpc' = [wpc EXCEPT ![w] = "applying"]
  /\ wt' \in TailOf(WriterHandles(w), wf)
  /\ onWrite' = IF wt' # wt THEN {} ELSE onWrite
  /\ UNCHANGED <<rt, rf, wf, rwt, flush, shutdown, mem, woff, wsz, consumers,
                 flushers, spc, onRead>>

(* stasis_ringbuffer_reading_writer_done: the writer has applied its entry *)
(* and no longer reads it from the ring.                                   *)
ReadingWriterDone(w) ==
  /\ wpc[w] = "applying"
  /\ wpc' = [wpc EXCEPT ![w] = "idle"]
  /\ rwt' \in TailOf(ReadingWriterHandles(w), wf)
  /\ onRead' = IF rwt' # rwt THEN {} ELSE onRead
  /\ UNCHANGED <<rt, rf, wt, wf, flush, shutdown, mem, woff, wsz, consumers,
                 flushers, spc, onWrite>>

-----------------------------------------------------------------------------
(* The size consume_bytes settles on: RING_NEXT, that is everything the    *)
(* writers have finished, during a flush or a shutdown.                    *)
WantSize == IF shutdown \/ flush > rf THEN wt - rf ELSE ConsumeSize

(* nb_consume_bytes(RING_NEXT, sz) returns RING_VOLATILE.                  *)
RingVolatile == WantSize = 0 \/ rf + WantSize > wt

Consuming(c) == cpc[c] = "idle" \/ (cpc[c] = "wait" /\ c \notin onWrite)

RingClosed == shutdown /\ rt = wf

(* Faulty variant: the caller of shutdown is not told that the ring closed. *)
ConsumeClosedSilent(c) ==
  /\ Consuming(c) /\ RingClosed
  /\ cpc' = [cpc EXCEPT ![c] = "closed"]
  /\ UNCHANGED <<pointers, flush, shutdown, mem, writers, coff, csz, flushers,
                 spc, onRead, onWrite>>

(* stasis_ringbuffer_consume_bytes, by outcome: the ring is closed, there  *)
(* are too few stable bytes, or the bytes at the read frontier are taken.  *)
ConsumeClosed(c) ==
  /\ Consuming(c) /\ RingClosed
  /\ cpc' = [cpc EXCEPT ![c] = "closed"]
  /\ onRead' \in SignalOne(onRead)
  /\ UNCHANGED <<pointers, flush, shutdown, mem, writers, coff, csz, flushers,
                 spc, onWrite>>

ConsumeWait(c) ==
  /\ Consuming(c) /\ ~RingClosed /\ RingVolatile
  /\ cpc' = [cpc EXCEPT ![c] = "wait"]
  /\ onWrite' = onWrite \cup {c}
  /\ UNCHANGED <<pointers, flush, shutdown, mem, writers, coff, csz, flushers,
                 spc, onRead>>

(* Faulty variant: the read frontier moves one byte too little.            *)
ConsumeBytesShort(c) ==
  /\ Consuming(c) /\ ~RingClosed /\ ~RingVolatile
  /\ cpc' = [cpc EXCEPT ![c] = "reading"]
  /\ coff' = [coff EXCEPT ![c] = rf]
  /\ csz' = [csz EXCEPT ![c] = WantSize]
  /\ rf' = rf + WantSize - 1
  /\ UNCHANGED <<rt, wt, wf, rwt, flush, shutdown, mem, writers, flushers,
                 spc, onRead, onWrite>>

ConsumeBytes(c) ==
  /\ Consuming(c) /\ ~RingClosed /\ ~RingVolatile
  /\ cpc' = [cpc EXCEPT ![c] = "reading"]
  /\ coff' = [coff EXCEPT ![c] = rf]
  /\ csz' = [csz EXCEPT ![c] = WantSize]
  /\ rf' = rf + WantSize
  /\ UNCHANGED <<rt, wt, wf, rwt, flush, shutdown, mem, writers, flushers,
                 spc, onRead, onWrite>>

(* Faulty variant: a waiting writer is not woken.                          *)
ReadDoneSilent(c) ==
  /\ cpc[c] = "reading"
  /\ cpc' = [cpc EXCEPT ![c] = "idle"]
  /\ rt' \in TailOf(ReaderHandles(c), rf)
  /\ UNCHANGED <<rf, wt, wf, rwt, flush, shutdown, mem, writers, coff, csz,
                 flushers, spc, onRead, onWrite>>

(* stasis_ringbuffer_read_done: the consumer has stored its bytes.         *)
ReadDone(c) ==
  /\ cpc[c] = "reading"
  /\ cpc' = [cpc EXCEPT ![c] = "idle"]
  /\ rt' \in TailOf(ReaderHandles(c), rf)
  /\ onRead' = IF rt' # rt THEN {} ELSE onRead
  /\ UNCHANGED <<rf, wt, wf, rwt, flush, shutdown, mem, writers, coff, csz,
                 flushers, spc, onWrite>>

-----------------------------------------------------------------------------
(* Faulty variant: the readers are not told of the flush.                  *)
FlushLoopSilent(f, off) ==
  /\ IF rt < off
     THEN fpc' = [fpc EXCEPT ![f] = "wait"] /\ onRead' = onRead \cup {f}
     ELSE fpc' = [fpc EXCEPT ![f] = "idle"] /\ UNCHANGED onRead
  /\ foff' = [foff EXCEPT ![f] = off]
  /\ UNCHANGED <<pointers, shutdown, mem, writers, consumers, spc, onWrite>>

(* The loop of flush_impl: wake a reader and wait while rt < off.          *)
FlushLoop(f, off) ==
  /\ IF rt < off
     THEN /\ fpc' = [fpc EXCEPT ![f] = "wait"]
          /\ onWrite' \in SignalOne(onWrite)
          /\ onRead' = onRead \cup {f}
     ELSE /\ fpc' = [fpc EXCEPT ![f] = "idle"]
          /\ UNCHANGED <<onRead, onWrite>>
  /\ foff' = [foff EXCEPT ![f] = off]
  /\ UNCHANGED <<pointers, shutdown, mem, writers, consumers, spc>>

(* stasis_ringbuffer_flush (pastEnd) and tryflush (not pastEnd, which      *)
(* returns RING_VOLATILE at once when off is not yet stable).  Callers     *)
(* never ask for bytes past the write frontier.                            *)
Flush(f, off, pastEnd) ==
  /\ fpc[f] = "idle" /\ ~shutdown
  /\ off <= wf
  /\ pastEnd \/ wt >= off
  /\ flush' = IF flush < off THEN off ELSE flush
  /\ FlushLoop(f, off)

FlushAgain(f) ==
  /\ fpc[f] = "wait" /\ f \notin onRead
  /\ FlushLoop(f, foff[f])
  /\ UNCHANGED flush

(* stasis_ringbuffer_shutdown: do { signal; wait } while(rt < wf).  The    *)
(* header leaves writing after shutdown undefined, so the caller comes     *)
(* when no writer is active.                                               *)
ShutdownWait ==
  /\ spc' = "wait"
  /\ onWrite' \in SignalOne(onWrite)
  /\ onRead' = onRead \cup {Closer}
  /\ UNCHANGED <<pointers, flush, mem, writers, consumers, flushers>>

Shutdown ==
  /\ spc = "open"
  /\ \A w \in Writers : wpc[w] = "idle"
  /\ shutdown' = TRUE
  /\ ShutdownWait

ShutdownAgain ==
  /\ spc = "wait" /\ Closer \notin onRead
  /\ rt < wf
  /\ ShutdownWait
  /\ UNCHANGED shutdown

ShutdownReturn ==
  /\ spc = "wait" /\ Closer \notin onRead
  /\ rt >= wf
  /\ spc' = "done"
  /\ UNCHANGED <<pointers, flush, shutdown, mem, writers, consumers, flushers,
                 onRead, onWrite>>

-----------------------------------------------------------------------------
WriterStep(w) ==
  ReserveAgain(w) \/ Fill(w) \/ WriteDone(w) \/ ReadingWriterDone(w)

ConsumerStep(c) ==
  ConsumeClosed(c) \/ ConsumeWait(c) \/ ConsumeBytes(c) \/ ReadDone(c)

Next ==
  \/ \E w \in Writers : \E sz \in Sizes : Reserve(w, sz)
  \/ \E w \in Writers : WriterStep(w)
  \/ \E c \in Consumers : ConsumerStep(c)
  \/ \E f \in Flushers : \E off \in 1..wf : \E pastEnd \in BOOLEAN :
       Flush(f, off, pastEnd)
  \/ \E f \in Flushers : FlushAgain(f)
  \/ Shutdown
  \/ ShutdownAgain
  \/ ShutdownReturn

Spec == Init /\ [][Next]_vars

(* A thread that holds the mutex or has been woken goes on: the mutex is   *)
(* never held across a wait, and a worker between its calls only copies.   *)
Fairness ==
  /\ \A w \in Writers : WF_vars(WriterStep(w))
  /\ \A c \in Consumers : WF_vars(ConsumerStep(c))
  /\ \A f \in Flushers : WF_vars(FlushAgain(f))
  /\ WF_vars(ShutdownAgain \/ ShutdownReturn)

FairSpec == Spec /\ Fairness

-----------------------------------------------------------------------------
(* Types: offsets are natural numbers, and only consumers sleep on the     *)
(* condition that writers signal.                                          *)
TypeOK ==
  /\ rt \in Nat /\ rf \in Nat /\ wt \in Nat /\ wf \in Nat /\ rwt \in Nat
  /\ flush \in Nat
  /\ shutdown \in BOOLEAN
  /\ mem \in [0..(N-1) -> Int]
  /\ wpc \in [Writers -> {"idle", "wait", "reserved", "filled", "applying"}]
  /\ woff \in [Writers -> Nat] /\ wsz \in [Writers -> Nat]
  /\ cpc \in [Consumers -> {"idle", "wait", "reading", "closed"}]
  /\ coff \in [Consumers -> Nat] /\ csz \in [Consumers -> Nat]
  /\ fpc \in [Flushers -> {"idle", "wait"}]
  /\ foff \in [Flushers -> Nat]
  /\ spc \in {"open", "wait", "done"}
  /\ onRead \subseteq Writers \cup Flushers \cup {Closer}
  /\ onWrite \subseteq Consumers

(* The comment on the struct: the four pointers are ordered, rwt is at     *)
(* most wt, and the bytes still in use never fill the whole ring, which    *)
(* freespace() computes modulo the ring size.                              *)
PointersOrdered ==
  /\ rt <= rf /\ rf <= wt /\ wt <= wf
  /\ rwt <= wt
  /\ wf - rt < N /\ wf - rwt < N

(* No byte is overwritten while it is in use: what a consumer reads, and   *)
(* what a writer that has published its entry still reads while it applies *)
(* it, is what was written at those offsets, although offsets that are a   *)
(* ring size apart share a cell.                                           *)
BytesIntact ==
  /\ \A c \in Consumers : cpc[c] = "reading" =>
       \A o \in coff[c]..(coff[c] + csz[c] - 1) : mem[o % N] = o
  /\ \A w \in Writers : wpc[w] \in {"filled", "applying"} =>
       \A o \in woff[w]..(woff[w] + wsz[w] - 1) : mem[o % N] = o

(* Consumers never see the same byte twice: the ranges that two of them    *)
(* read at one time do not overlap.                                        *)
ReadersDisjoint ==
  \A c, d \in Consumers : cpc[c] = "reading" /\ cpc[d] = "reading" /\ c # d =>
     coff[c] + csz[c] <= coff[d] \/ coff[d] + csz[d] <= coff[c]

(* The assertions of nb_advance_write_tail, nb_advance_read_tail and       *)
(* reading_writer_done: the tails only move forward.                       *)
TailsAdvance ==
  [][rt' >= rt /\ rf' >= rf /\ wt' >= wt /\ wf' >= wf /\ rwt' >= rwt]_vars

(* A thread that waits for space is woken and gets it: no wake-up is lost  *)
(* between read_done, reading_writer_done and the waiting writers.         *)
ReserveReturns == \A w \in Writers : wpc[w] = "wait" ~> wpc[w] = "reserved"

(* A flush returns: its signal makes a consumer that waits for more bytes  *)
(* take what there is.                                                     *)
FlushReturns == \A f \in Flushers : fpc[f] = "wait" ~> fpc[f] = "idle"

(* The comment on ring->shutdown: "Once this is non-zero, no read will     *)
(* ever block."  So the call returns and every consumer leaves its loop.   *)
ShutdownDrains ==
  shutdown ~> spc = "done" /\ \A c \in Consumers : cpc[c] = "closed"
=============================================================================
